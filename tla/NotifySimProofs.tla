-------------------------- MODULE NotifySimProofs --------------------------
(***************************************************************************)
(* Machine-checked proofs that hold of the test driver whatever dies and   *)
(* however long anything takes: it starts the broker again unless          *)
(* systemctl fails, and it does not overlook the death of a service it     *)
(* still has to ask.                                                       *)
(*                                                                         *)
(* The lemmas about the script come first; after them the proofs are about *)
(* positions in it and never look at a whole test again.                   *)
(***************************************************************************)
EXTENDS NotifySim, SequenceTheorems, TLAPS

-----------------------------------------------------------------------------
(***************************************************************************)
(* The script.                                                             *)
(***************************************************************************)
\* How many tests there are, and which of them stops the broker.
LEMMA Counts == table_count = 12 /\ BrokerTest = 16 /\ total = 17
<1>1. table_count = 12
  BY DEF table_count, test_cases
<1> QED BY <1>1 DEF BrokerTest, total

\* What each number of a test stands for.
LEMMA TestIs ==
  /\ \A t \in 1 .. 12 : tests[t] = run_test_case(test_cases[t])
  /\ tests[13] = run_alarm_overlap_test
  /\ tests[14] = run_siren_invalid_rpc_test
  /\ tests[15] = run_led_invalid_rpc_test
  /\ tests[16] = run_mqtt_broker_down_test
  /\ tests[17] = clean_up \o <<Do("stats", "notify", 0)>>
BY Counts, SMTT(30) DEF tests

\* The ten steps of a test of the table.
LEMMA CaseSteps ==
  ASSUME NEW c
  PROVE  LET s == run_test_case(c) IN
         /\ Len(s) = 10 /\ DOMAIN s = 1 .. 10
         /\ s[1] = cancel_siren /\ s[2] = cancel_led /\ s[3] = cancel_mqtt
         /\ s[4] = get_mqtt_status /\ s[5] = Send(c.event)
         /\ s[6] = Sleep(TEST_SETTLE)
         /\ s[7] = Expect("siren", c.siren) /\ s[8] = Expect("led", c.led)
         /\ s[9] = Sleep(MQTT_ASYNC_SETTLE)
         /\ s[10] = Do("published", "mqtt", IF c.siren # 0 THEN 1 ELSE 0)
BY DEF run_test_case

\* The steps of the other tests.
LEMMA OverlapSteps ==
  LET s == run_alarm_overlap_test IN
  /\ Len(s) = 9 /\ DOMAIN s = 1 .. 9
  /\ s[1] = cancel_siren /\ s[2] = cancel_led
  /\ s[3] = Send(Alarm("fire", "critical")) /\ s[4] = Sleep(TEST_OVERLAP_GAP)
  /\ s[5] = Expect("siren", 2)
  /\ s[6] = Send(Alarm("panic", "critical")) /\ s[7] = Sleep(TEST_SETTLE)
  /\ s[8] = Expect("siren", 4) /\ s[9] = Expect("led", 2)
BY DEF run_alarm_overlap_test

LEMMA SirenRpcSteps ==
  LET s == run_siren_invalid_rpc_test IN
  /\ Len(s) = 4 /\ DOMAIN s = 1 .. 4
  /\ s[1] = cancel_siren /\ s[2] = Do("rejected", "siren", 99)
  /\ s[3] = Do("rejected", "siren", Absent) /\ s[4] = Do("responds", "siren", 0)
BY DEF run_siren_invalid_rpc_test

LEMMA LedRpcSteps ==
  LET s == run_led_invalid_rpc_test IN
  /\ Len(s) = 4 /\ DOMAIN s = 1 .. 4
  /\ s[1] = cancel_led /\ s[2] = Do("rejected", "led", 99)
  /\ s[3] = Do("rejected", "led", Absent) /\ s[4] = Do("responds", "led", 0)
BY DEF run_led_invalid_rpc_test

LEMMA BrokerDownSteps ==
  LET s == run_mqtt_broker_down_test IN
  /\ Len(s) = 19 /\ DOMAIN s = 1 .. 19
  /\ s[1] = cancel_siren /\ s[2] = cancel_led /\ s[3] = cancel_mqtt
  /\ s[4] = get_mqtt_status /\ s[5] = Do("stop", "broker", BROKER_SETTLE)
  /\ s[6] = Guarded(Send(Alarm("fire", "critical")), send_restarts)
  /\ s[7] = Sleep(TEST_SETTLE)
  /\ s[8] = Guarded(Expect("siren", 2), status_restarts)
  /\ s[9] = Guarded(Expect("led", 1), status_restarts)
  /\ s[10] = Sleep(MQTT_ASYNC_SETTLE)
  /\ s[11] = Guarded(Do("outage", "mqtt", 0), outage_restarts)
  /\ s[12] = Do("start", "broker", BROKER_SETTLE)
  /\ s[13] = cancel_siren /\ s[14] = cancel_led /\ s[15] = cancel_mqtt
  /\ s[16] = get_mqtt_status /\ s[17] = Send(Alarm("fire", "critical"))
  /\ s[18] = Sleep(TEST_SETTLE + MQTT_ASYNC_SETTLE)
  /\ s[19] = Do("recovery", "mqtt", 0)
BY SMTT(30) DEF run_mqtt_broker_down_test

\* A concatenation, whose steps are those of its parts.
LEMMA CleanUpSteps ==
  LET s == clean_up \o <<Do("stats", "notify", 0)>> IN
  /\ Len(s) = 4 /\ DOMAIN s = 1 .. 4
  /\ s[1] = Do("try_cancel", "siren", CANCEL_SETTLE)
  /\ s[2] = Do("try_cancel", "led", CANCEL_SETTLE)
  /\ s[3] = Do("try_cancel", "mqtt", MQTT_ASYNC_SETTLE)
  /\ s[4] = Do("stats", "notify", 0)
<1> DEFINE S == {clean_up[1], clean_up[2], clean_up[3], Do("stats", "notify", 0)}
           last == <<Do("stats", "notify", 0)>>
<1>1. {1, 2, 3} = 1 .. 3
  OBVIOUS
<1>2. clean_up = [i \in {1, 2, 3} |->
                    [<<cancel_siren, cancel_led, cancel_mqtt>>[i] EXCEPT !.op = "try_cancel"]]
  BY Zenon DEF clean_up
<1>3. /\ clean_up[1] = [cancel_siren EXCEPT !.op = "try_cancel"]
      /\ clean_up[2] = [cancel_led EXCEPT !.op = "try_cancel"]
      /\ clean_up[3] = [cancel_mqtt EXCEPT !.op = "try_cancel"]
  <2>1. /\ <<cancel_siren, cancel_led, cancel_mqtt>>[1] = cancel_siren
        /\ <<cancel_siren, cancel_led, cancel_mqtt>>[2] = cancel_led
        /\ <<cancel_siren, cancel_led, cancel_mqtt>>[3] = cancel_mqtt
    OBVIOUS
  <2> QED BY <1>2, <2>1, Zenon
<1>4. clean_up = [i \in 1 .. 3 |-> clean_up[i]]
  BY <1>1, <1>2, Zenon
<1>5. \A i \in 1 .. 3 : clean_up[i] \in S
  BY <1>1, Zenon
<1>6. clean_up \in Seq(S) /\ Len(clean_up) = 3
  <2> HIDE DEF S
  <2> QED BY <1>4, <1>5, IsASeq, LenProperties
<1>7. last \in Seq(S) /\ Len(last) = 1 /\ last[1] = Do("stats", "notify", 0)
  OBVIOUS
<1>8. /\ clean_up \o last \in Seq(S) /\ Len(clean_up \o last) = 4
      /\ \A i \in 1 .. 3 : (clean_up \o last)[i] = clean_up[i]
      /\ (clean_up \o last)[4] = last[1]
  <2> HIDE DEF S, last
  <2>1. /\ clean_up \o last \in Seq(S)
        /\ Len(clean_up \o last) = Len(clean_up) + Len(last)
        /\ \A i \in 1 .. Len(clean_up) + Len(last) :
             (clean_up \o last)[i] =
               IF i <= Len(clean_up) THEN clean_up[i] ELSE last[i - Len(clean_up)]
    BY <1>6, <1>7, ConcatProperties, Zenon
  <2>2. \A i \in 1 .. 4 :
          (clean_up \o last)[i] = IF i <= 3 THEN clean_up[i] ELSE last[i - 3]
    BY <1>6, <1>7, <2>1
  <2> QED BY <1>6, <1>7, <2>1, <2>2
<1>9. DOMAIN (clean_up \o last) = 1 .. 4
  <2> HIDE DEF S, last
  <2> QED BY <1>8, LenProperties
<1>10. /\ clean_up[1] = Do("try_cancel", "siren", CANCEL_SETTLE)
       /\ clean_up[2] = Do("try_cancel", "led", CANCEL_SETTLE)
       /\ clean_up[3] = Do("try_cancel", "mqtt", MQTT_ASYNC_SETTLE)
  BY <1>3 DEF cancel_siren, cancel_led, cancel_mqtt, Do
<1> QED BY <1>7, <1>8, <1>9, <1>10

\* The ways in which a step can fail while the broker is stopped.
Ways(op) ==
  CASE op = "send" -> {"send"}
    [] op = "expect" -> {"query", "wrong"}
    [] op = "outage" -> {"query", "connected", "failed"}
    [] OTHER -> {}

\* A step of the script, as far as the proofs below tell steps apart: what
\* asks a service is a call or a check of it, and only the broker test stops
\* the broker, at its step 5, and starts it again, at step 12.  In between, every
\* way in which a step can fail has its start of the broker.
SoundStep(t, k, d) ==
  /\ d.op = "before" => d.of = "mqtt"
  /\ d.op \in {"send", "sleep", "stop", "start"} => d.of \notin Services
  /\ d.op = "stop" <=> t = BrokerTest /\ k = 5
  /\ d.op = "start" <=> t = BrokerTest /\ k = 12
  /\ t = BrokerTest /\ k \in 6 .. 11 =>
       d.op \in {"send", "sleep", "expect", "outage"} /\ Ways(d.op) \subseteq d.restarts

\* Every step of every test is such a step.
LEMMA Script ==
  ASSUME NEW t \in 1 .. total
  PROVE  /\ Len(tests[t]) \in Nat \ {0} /\ DOMAIN tests[t] = 1 .. Len(tests[t])
         /\ \A k \in DOMAIN tests[t] : SoundStep(t, k, tests[t][k])
         /\ t = BrokerTest => Len(tests[t]) = 19
<1> USE DEF SoundStep, Services, Do, Sleep, Send, Expect, get_mqtt_status,
          cancel_siren, cancel_led, cancel_mqtt, Guarded
<1>1. CASE t \in 1 .. 12
  <2> DEFINE c == test_cases[t]
             s == run_test_case(c)
  <2>1. tests[t] = s
    BY <1>1, TestIs
  <2>2. /\ Len(s) = 10 /\ DOMAIN s = 1 .. 10
        /\ s[1] = cancel_siren /\ s[2] = cancel_led /\ s[3] = cancel_mqtt
        /\ s[4] = get_mqtt_status /\ s[5] = Send(c.event)
        /\ s[6] = Sleep(TEST_SETTLE)
        /\ s[7] = Expect("siren", c.siren) /\ s[8] = Expect("led", c.led)
        /\ s[9] = Sleep(MQTT_ASYNC_SETTLE)
        /\ s[10] = Do("published", "mqtt", IF c.siren # 0 THEN 1 ELSE 0)
    BY CaseSteps, Zenon
  <2> HIDE DEF c, s
  <2>3. \A k \in 1 .. 10 :
          /\ s[k].op \notin {"stop", "start"}
          /\ s[k].op = "before" => s[k].of = "mqtt"
          /\ s[k].op \in {"send", "sleep"} => s[k].of = "none"
    BY <2>2
  <2>4. \A k \in DOMAIN tests[t] : SoundStep(t, k, tests[t][k])
    BY <1>1, <2>1, <2>2, <2>3, Counts
  <2> QED BY <1>1, <2>1, <2>2, <2>4, Counts
<1>2. CASE t = 13
  BY <1>2, TestIs, OverlapSteps, Counts
<1>3. CASE t = 14
  BY <1>3, TestIs, SirenRpcSteps, Counts
<1>4. CASE t = 15
  BY <1>4, TestIs, LedRpcSteps, Counts
<1>5. CASE t = 16
  <2> DEFINE s == run_mqtt_broker_down_test
  <2>1. tests[t] = s /\ Len(s) = 19 /\ DOMAIN s = 1 .. 19
    BY <1>5, TestIs, BrokerDownSteps, Zenon
  <2>2. /\ s[6].op = "send" /\ s[7].op = "sleep" /\ s[8].op = "expect"
        /\ s[9].op = "expect" /\ s[10].op = "sleep" /\ s[11].op = "outage"
        /\ s[6].restarts = send_restarts /\ s[8].restarts = status_restarts
        /\ s[9].restarts = status_restarts /\ s[11].restarts = outage_restarts
    BY BrokerDownSteps
  <2>3. \A k \in 6 .. 11 : /\ s[k].op \in {"send", "sleep", "expect", "outage"}
                           /\ Ways(s[k].op) \subseteq s[k].restarts
    <3>1. /\ Ways("send") \subseteq send_restarts
          /\ Ways("expect") \subseteq status_restarts
          /\ Ways("outage") \subseteq outage_restarts /\ Ways("sleep") = {}
      BY DEF Ways, send_restarts, status_restarts, outage_restarts
    <3>2. \A k \in 6 .. 11 : k \in {6, 7, 8, 9, 10, 11}
      OBVIOUS
    <3> HIDE DEF s
    <3> QED BY <2>2, <3>1, <3>2, Zenon
  <2>4. \A k \in 1 .. 19 :
          /\ s[k].op = "before" => s[k].of = "mqtt"
          /\ s[k].op \in {"send", "sleep", "stop", "start"} => s[k].of \notin Services
          /\ s[k].op = "stop" <=> k = 5
          /\ s[k].op = "start" <=> k = 12
    BY BrokerDownSteps
  <2> HIDE DEF s
  <2> QED BY <1>5, <2>1, <2>3, <2>4, Counts
<1>6. CASE t = 17
  BY <1>6, TestIs, CleanUpSteps, Counts
<1> QED BY <1>1, <1>2, <1>3, <1>4, <1>5, <1>6, Counts

-----------------------------------------------------------------------------
(***************************************************************************)
(* Where the driver is.                                                    *)
(***************************************************************************)
PlaceInv ==
  /\ test \in 0 .. total + 1 /\ step \in Nat \ {0}
  /\ test \in 1 .. total => step \in DOMAIN tests[test]
  /\ test = 0 => step = 1
  /\ stale \subseteq Services /\ died_in \in [Services -> Nat \X Nat]
  /\ broker_up \in BOOLEAN /\ systemctl_failed \in BOOLEAN

\* What a step of the driver does to its place: it starts, goes on, or gives
\* the test up, and it only goes on from a step that asks a service if it
\* reaches it.
Starts ==
  /\ test = 0 /\ step' = step
  /\ test' = 1 \/ (test' = total + 1 /\ failed_tests' = 1 .. total)

\* It goes on.
GoesOn ==
  /\ test \in 1 .. total
  /\ Proceed
  /\ Now.of \in Services /\ Now.op # "try_cancel" => Now.of \notin stale

\* There is a broker, or systemctl has failed.
Excused == broker_up \/ systemctl_failed

\* The driver gives the test up.  It does not leave the board without a broker by
\* that, nor does it in the steps between the stop and the start.
GivesUp ==
  /\ test \in 1 .. total /\ Fails
  /\ Excused \/ (test = BrokerTest /\ step \in 6 .. 12) => Excused'

\* What systemctl leaves behind it.
LEMMA SystemctlIs ==
  ASSUME NEW up \in BOOLEAN, NEW ok \in BOOLEAN, Systemctl(up, ok), PlaceInv
  PROVE  /\ broker_up' \in BOOLEAN /\ systemctl_failed' \in BOOLEAN
         /\ systemctl_failed => systemctl_failed'
         /\ up \/ ~ok => Excused'
         /\ ok => UNCHANGED systemctl_failed
BY DEF Systemctl, PlaceInv, Excused

\* A test that is given up in one of the ways of its step keeps the broker, and
\* gets it back.
LEMMA GiveUpExcused ==
  ASSUME PlaceInv, test \in 1 .. total, NEW way, GiveUp(way),
         Now.op \notin {"stop", "start", "sleep"},
         test = BrokerTest /\ step \in 6 .. 11 => way \in Ways(Now.op)
  PROVE  GivesUp /\ broker_up' \in BOOLEAN /\ systemctl_failed' \in BOOLEAN
<1>1. SoundStep(test, step, Now)
  BY Script, Zenon DEF PlaceInv, Now
<1>2. test = BrokerTest /\ step \in 6 .. 12 => way \in Now.restarts
  <2>1. ~(test = BrokerTest /\ step = 12)
    BY <1>1, Zenon DEF SoundStep
  <2>2. step \in 6 .. 12 => step = 12 \/ step \in 6 .. 11
    OBVIOUS
  <2> QED BY <1>1, <2>1, <2>2, Zenon DEF SoundStep
<1>3. CASE way \in Now.restarts
  <2>1. PICK ok \in BOOLEAN : Systemctl(TRUE, ok)
    BY <1>3, Zenon DEF GiveUp
  <2> QED BY <2>1, SystemctlIs, Zenon DEF GivesUp, GiveUp
<1>4. CASE way \notin Now.restarts
  <2>1. broker_up' = broker_up /\ systemctl_failed' = systemctl_failed /\ Fails
    BY <1>4, Zenon DEF GiveUp, broker
  <2>2. Excused => Excused'
    BY <2>1 DEF Excused
  <2>3. broker_up' \in BOOLEAN /\ systemctl_failed' \in BOOLEAN
    BY <2>1, Zenon DEF PlaceInv
  <2> QED BY <1>2, <1>4, <2>1, <2>2, <2>3, Zenon DEF GivesUp
<1> QED BY <1>3, <1>4

\* The driver does nothing else to its place and to the broker.
LEMMA DriverSteps ==
  ASSUME PlaceInv, SimStep
  PROVE  /\ \/ Starts /\ UNCHANGED broker
            \/ GoesOn /\ Now.op \notin {"stop", "start"} /\ UNCHANGED broker
            \/ GoesOn /\ Now.op = "stop"
            \/ GoesOn /\ Now.op = "start" /\ Excused'
            \/ GivesUp
         /\ broker_up' \in BOOLEAN /\ systemctl_failed' \in BOOLEAN
         /\ UNCHANGED <<stale, died_in>>
<1> USE DEF processes
<1>1. CASE SimStart
  BY <1>1, Zenon DEF SimStart, Starts, broker, PlaceInv
<1>2. ASSUME test \in 1 .. total
      PROVE  SoundStep(test, step, Now)
  BY <1>2, Script, Zenon DEF PlaceInv, Now
<1>kept. UNCHANGED broker => broker_up' \in BOOLEAN /\ systemctl_failed' \in BOOLEAN
  BY Zenon DEF broker, PlaceInv
<1>3. CASE SimCancel
  <2>1. /\ test \in 1 .. total /\ Now.op \in {"cancel", "try_cancel"}
        /\ \/ Now.of \notin stale /\ Proceed /\ UNCHANGED broker
           \/ Now.op = "cancel" /\ GiveUp("query")
           \/ Now.op = "try_cancel" /\ Proceed /\ UNCHANGED broker
        /\ UNCHANGED <<stale, died_in>>
    BY <1>3, Zenon DEF SimCancel, Playing, Reachable
  <2>2. Now.op \notin {"send", "sleep", "expect", "outage", "stop", "start"}
    BY <2>1
  <2>3. ~(test = BrokerTest /\ step \in 6 .. 11)
    BY <1>2, <2>1, <2>2, Zenon DEF SoundStep
  <2> QED BY <1>kept, <2>1, <2>2, <2>3, GiveUpExcused, Zenon DEF GoesOn
<1>4. CASE SimBefore
  <2>1. /\ test \in 1 .. total /\ Now.op = "before"
        /\ \/ "mqtt" \notin stale /\ Proceed /\ UNCHANGED broker
           \/ GiveUp("query")
        /\ UNCHANGED <<stale, died_in>>
    BY <1>4, Zenon DEF SimBefore, Playing, Reachable
  <2>2. Now.of = "mqtt"
    BY <1>2, <2>1, Zenon DEF SoundStep
  <2>3. Now.op \notin {"send", "sleep", "expect", "outage", "stop", "start"}
    BY <2>1
  <2>4. ~(test = BrokerTest /\ step \in 6 .. 11)
    BY <1>2, <2>1, <2>3, Zenon DEF SoundStep
  <2> QED BY <1>kept, <2>1, <2>2, <2>3, <2>4, GiveUpExcused, Zenon DEF GoesOn
<1>5. CASE SimSend \/ SimSleep
  <2>1. /\ test \in 1 .. total /\ Now.op \in {"send", "sleep"}
        /\ \/ Proceed /\ UNCHANGED broker
           \/ Now.op = "send" /\ GiveUp("send")
        /\ UNCHANGED <<stale, died_in>>
    BY <1>5, Zenon DEF SimSend, SimSleep, Playing
  <2>2. Now.of \notin Services
    BY <1>2, <2>1, Zenon DEF SoundStep
  <2>3. Now.op \notin {"stop", "start"} /\ "send" \in Ways("send")
    BY <2>1 DEF Ways
  <2> QED BY <1>kept, <2>1, <2>2, <2>3, GiveUpExcused, Zenon DEF GoesOn
<1>6. CASE SimBroker
  <2>1. /\ test \in 1 .. total /\ Now.op \in {"stop", "start"}
        /\ UNCHANGED <<stale, died_in>>
    BY <1>6, Zenon DEF SimBroker, Playing
  <2>2. PICK ok \in BOOLEAN : /\ Systemctl(Now.op = "start", ok)
                              /\ (ok /\ Proceed) \/ (~ok /\ Fails)
    BY <1>6, Zenon DEF SimBroker
  <2>3. Now.of \notin Services
    BY <1>2, <2>1, Zenon DEF SoundStep
  <2>4. /\ broker_up' \in BOOLEAN /\ systemctl_failed' \in BOOLEAN
        /\ Now.op = "start" \/ ~ok => Excused'
    BY <2>2, SystemctlIs, Zenon
  <2>5. CASE ok
    BY <2>1, <2>2, <2>3, <2>4, <2>5, Zenon DEF GoesOn
  <2>6. CASE ~ok
    BY <2>1, <2>2, <2>4, <2>6, Zenon DEF GivesUp
  <2> QED BY <2>5, <2>6
<1>7. CASE SimCheck
  <2>1. /\ test \in 1 .. total /\ Now.op \in Checks
        /\ \/ Now.of \notin stale /\ Proceed /\ UNCHANGED broker
           \/ GiveUp(Failure(Now.op, Now.of))
        /\ UNCHANGED <<stale, died_in>>
    BY <1>7, Zenon DEF SimCheck, Playing, Reachable
  <2>2. Now.op \notin {"stop", "start", "sleep", "send"}
    BY <2>1 DEF Checks
  <2>3. test = BrokerTest /\ step \in 6 .. 11 => Failure(Now.op, Now.of) \in Ways(Now.op)
    <3>1. test = BrokerTest /\ step \in 6 .. 11 => Now.op \in {"expect", "outage"}
      BY <1>2, <2>1, <2>2, Zenon DEF SoundStep
    <3>2. Now.op = "expect" => Failure(Now.op, Now.of) \in {"query", "wrong"}
      BY DEF Failure
    <3>3. Now.op = "outage" => Failure(Now.op, Now.of) \in {"query", "connected", "failed"}
      BY DEF Failure
    <3>4. Ways("expect") = {"query", "wrong"} /\ Ways("outage") = {"query", "connected", "failed"}
      BY DEF Ways
    <3> QED BY <3>1, <3>2, <3>3, <3>4, Zenon
  <2> QED BY <1>kept, <2>1, <2>2, <2>3, GiveUpExcused, Zenon DEF GoesOn
<1> QED BY <1>1, <1>3, <1>4, <1>5, <1>6, <1>7, Zenon DEF SimStep

\* The others leave the driver where it is; only a death makes an id stale.
LEMMA OtherSteps ==
  ASSUME [Next]_vars, ~SimStep
  PROVE  /\ UNCHANGED <<test, step, failed_tests, broker>>
         /\ \/ UNCHANGED <<stale, died_in>>
            \/ \E s \in Services :
                 /\ stale' = IF test > 0 THEN stale \cup {s} ELSE stale
                 /\ died_in' = [died_in EXCEPT ![s] = <<test, step>>]
<1> USE DEF vars, driver, processes, broker
<1>1. CASE ServiceStep
  BY <1>1, Zenon DEF ServiceStep, Validate, Act, Classify, Take, Account
<1>2. CASE Tick
  BY <1>2, Zenon DEF Tick
<1>3. CASE \E s \in Services : Die(s)
  BY <1>3, Zenon DEF Die
<1>4. CASE UNCHANGED vars
  BY <1>4, Zenon
<1> QED BY <1>1, <1>2, <1>3, <1>4, Zenon DEF Next

\* The next place of the driver.
LEMMA ProceedMoves ==
  ASSUME PlaceInv, test \in 1 .. total, Proceed
  PROVE  \/ step < Len(tests[test]) /\ test' = test /\ step' = step + 1
         \/ step = Len(tests[test]) /\ test' = test + 1 /\ step' = 1
<1>1. DOMAIN tests[test] = 1 .. Len(tests[test]) /\ Len(tests[test]) \in Nat
  BY Script
<1> QED BY <1>1 DEF PlaceInv, Proceed

\* The driver is always at a step of the script, before it or behind it.
LEMMA PlaceInit == Init => PlaceInv
<1> SUFFICES ASSUME Init
             PROVE  PlaceInv
  OBVIOUS
<1>1. /\ test = 0 /\ step = 1 /\ broker_up = TRUE /\ systemctl_failed = FALSE
      /\ stale = {} /\ died_in = [s \in Services |-> <<0, 0>>]
  BY Zenon DEF Init
<1>2. broker_up \in BOOLEAN /\ systemctl_failed \in BOOLEAN
  BY <1>1, Zenon
<1>3. died_in \in [Services -> Nat \X Nat] /\ stale \subseteq Services
  BY <1>1
<1>4. test \in 0 .. total + 1 /\ test \notin 1 .. total /\ step \in Nat \ {0}
  BY <1>1, Counts
<1> QED BY <1>1, <1>2, <1>3, <1>4, Zenon DEF PlaceInv

LEMMA PlaceStep == PlaceInv /\ [Next]_vars => PlaceInv'
<1> SUFFICES ASSUME PlaceInv, [Next]_vars
             PROVE  PlaceInv'
  OBVIOUS
<1> DEFINE Place(t, k) == /\ t \in 0 .. total + 1 /\ k \in Nat \ {0}
                          /\ t \in 1 .. total => k \in DOMAIN tests[t]
                          /\ t = 0 => k = 1
<1>1. \A t \in 1 .. total + 1 : Place(t, 1)
  <2> TAKE t \in 1 .. total + 1
  <2>1. CASE t \in 1 .. total
    <3>1. DOMAIN tests[t] = 1 .. Len(tests[t]) /\ Len(tests[t]) \in Nat \ {0}
      BY <2>1, Script, Zenon
    <3> QED BY <2>1, <3>1, Counts
  <2> QED BY <2>1, Counts
<1>2. CASE SimStep
  <2>1. UNCHANGED <<stale, died_in>>
    BY <1>2, DriverSteps, Zenon
  <2>2. broker_up' \in BOOLEAN /\ systemctl_failed' \in BOOLEAN
    BY <1>2, DriverSteps, Zenon
  <2>3. CASE Starts
    <3>1. test' \in 1 .. total + 1 /\ step' = 1
      BY <2>3, Counts DEF Starts, PlaceInv
    <3> HIDE DEF Place
    <3>2. Place(test', step')
      BY <1>1, <3>1
    <3> QED BY <2>1, <2>2, <3>2 DEF PlaceInv, Place
  <2>4. CASE GoesOn
    <3>1. CASE step < Len(tests[test]) /\ test' = test /\ step' = step + 1
      <4>1. step' \in DOMAIN tests[test] /\ step' \in Nat \ {0}
        BY <2>4, <3>1, Script DEF GoesOn, PlaceInv
      <4> QED BY <2>1, <2>2, <2>4, <3>1, <4>1, Counts DEF PlaceInv, GoesOn
    <3>2. CASE test' = test + 1 /\ step' = 1
      <4>1. test' \in 1 .. total + 1
        BY <2>4, <3>2, Counts DEF GoesOn
      <4> HIDE DEF Place
      <4>2. Place(test', step')
        BY <1>1, <3>2, <4>1
      <4> QED BY <2>1, <2>2, <4>2 DEF PlaceInv, Place
    <3> QED BY <2>4, <3>1, <3>2, ProceedMoves DEF GoesOn
  <2>5. CASE GivesUp
    <3>1. test' \in 1 .. total + 1 /\ step' = 1
      BY <2>5, Counts DEF GivesUp, Fails
    <3> HIDE DEF Place
    <3>2. Place(test', step')
      BY <1>1, <3>1
    <3> QED BY <2>1, <2>2, <3>2 DEF PlaceInv, Place
  <2> QED BY <1>2, <2>3, <2>4, <2>5, DriverSteps
<1>3. CASE ~SimStep
  <2>1. /\ UNCHANGED <<test, step, broker>>
        /\ \/ UNCHANGED <<stale, died_in>>
           \/ \E s \in Services :
                /\ stale' = IF test > 0 THEN stale \cup {s} ELSE stale
                /\ died_in' = [died_in EXCEPT ![s] = <<test, step>>]
    BY <1>3, OtherSteps, Zenon
  <2>2. <<test, step>> \in Nat \X Nat
    BY Counts DEF PlaceInv
  <2>3. stale' \subseteq Services /\ died_in' \in [Services -> Nat \X Nat]
    BY <2>1, <2>2 DEF PlaceInv
  <2> QED BY <2>1, <2>3 DEF PlaceInv, broker
<1> QED BY <1>2, <1>3

-----------------------------------------------------------------------------
(***************************************************************************)
(* The broker.                                                             *)
(***************************************************************************)
\* Without a failure of systemctl, the broker is only down between the two steps
\* of its test.
BrokerInv == Excused \/ (test = BrokerTest /\ step \in 6 .. 12)

\* The broker is stopped only at the first of them, and giving up in between
\* starts it.
LEMMA BrokerStep == PlaceInv /\ BrokerInv /\ [Next]_vars => BrokerInv'
<1> SUFFICES ASSUME PlaceInv, BrokerInv, [Next]_vars
             PROVE  BrokerInv'
  OBVIOUS
<1>1. CASE ~SimStep
  BY <1>1, OtherSteps, Zenon DEF BrokerInv, Excused, broker
<1>2. CASE Starts /\ UNCHANGED broker
  <2>1. test # BrokerTest
    BY <1>2, Counts DEF Starts
  <2> QED BY <1>2, <2>1, Zenon DEF BrokerInv, Excused, broker
<1>3. CASE /\ GoesOn
           /\ \/ Now.op \notin {"stop", "start"} /\ UNCHANGED broker
              \/ Now.op = "stop"
              \/ Now.op = "start" /\ Excused'
  <2>1. SoundStep(test, step, Now) /\ test \in 1 .. total
    BY <1>3, Script, Zenon DEF GoesOn, PlaceInv, Now
  <2>2. /\ step \in 1 .. Len(tests[test]) /\ Len(tests[test]) \in Nat
        /\ test = BrokerTest => Len(tests[test]) = 19
    BY <2>1, Script, Zenon DEF PlaceInv
  <2>3. \/ step < Len(tests[test]) /\ test' = test /\ step' = step + 1
        \/ step = Len(tests[test]) /\ test' = test + 1 /\ step' = 1
    BY <1>3, <2>1, ProceedMoves DEF GoesOn
  <2>4. /\ Now.op # "start" /\ test = BrokerTest /\ step \in 6 .. 12 =>
             test' = BrokerTest /\ step' \in 6 .. 12
        /\ Now.op = "stop" => test' = BrokerTest /\ step' \in 6 .. 12
    <3>1. /\ Now.op = "stop" => test = BrokerTest /\ step = 5
          /\ test = BrokerTest /\ step = 12 => Now.op = "start"
      BY <2>1, Zenon DEF SoundStep
    <3>2. test = BrokerTest /\ step \in 5 .. 12 =>
            test' = BrokerTest /\ step' = step + 1
      BY <2>2, <2>3
    <3>3. 5 \in 5 .. 12 /\ 5 + 1 \in 6 .. 12
      OBVIOUS
    <3>4. step \in 6 .. 12 => step \in 5 .. 12 /\ (step = 12 \/ step + 1 \in 6 .. 12)
      OBVIOUS
    <3> QED BY <3>1, <3>2, <3>3, <3>4, Zenon
  <2>5. CASE Now.op \notin {"stop", "start"} /\ UNCHANGED broker
    <3>1. Excused => Excused'
      BY <2>5, Zenon DEF Excused, broker
    <3>2. Now.op # "start"
      BY <2>5
    <3> QED BY <2>4, <3>1, <3>2, Zenon DEF BrokerInv
  <2>6. CASE Now.op = "stop"
    BY <2>4, <2>6, Zenon DEF BrokerInv
  <2>7. CASE Now.op = "start" /\ Excused'
    BY <2>7, Zenon DEF BrokerInv
  <2> QED BY <1>3, <2>5, <2>6, <2>7, Zenon
<1>4. CASE GivesUp
  BY <1>4, Zenon DEF BrokerInv, GivesUp
<1> QED BY <1>1, <1>2, <1>3, <1>4, DriverSteps, Zenon

\* Wherever the broker test ends, the script has started the broker again, or the
\* return it took has, so that the board is left without one only if systemctl failed.
THEOREM BrokerAfterTest == Safety => []BrokerLeftRunning
<1>1. Init => PlaceInv /\ BrokerInv
  BY PlaceInit, Zenon DEF Init, BrokerInv, Excused
<1>2. PlaceInv /\ BrokerInv /\ [Next]_vars => (PlaceInv /\ BrokerInv)'
  BY PlaceStep, BrokerStep
<1>3. BrokerInv => BrokerLeftRunning
  BY Zenon DEF BrokerInv, BrokerLeftRunning, Excused
<1> QED BY <1>1, <1>2, <1>3, PTL DEF Safety

-----------------------------------------------------------------------------
(***************************************************************************)
(* The death of a service.                                                 *)
(***************************************************************************)
\* The driver is past step k of test t.
Passed(t, k) == t < test \/ (t = test /\ k < step)

\* Step k of test t lies before the place a service died in.
Earlier(t, k, place) == t < place[1] \/ (t = place[1] /\ k < place[2])

\* While no test has failed, what asks a service that is known by an old id
\* either lies before its death or is still to come.
DeathInv ==
  failed_tests = {} =>
    \A s \in stale : \A t \in 1 .. total : \A k \in DOMAIN tests[t] :
      tests[t][k].of = s /\ tests[t][k].op # "try_cancel" /\ Passed(t, k) =>
        Earlier(t, k, died_in[s])

\* A step that goes on passes one place and no other.
LEMMA GoesOnPasses ==
  ASSUME PlaceInv, GoesOn, NEW t \in 1 .. total, NEW k \in DOMAIN tests[t], Passed(t, k)'
  PROVE  Passed(t, k) \/ (t = test /\ k = step)
<1>1. k \in 1 .. Len(tests[t])
  BY Script
<1>2. /\ test \in 1 .. total /\ step \in Nat
      /\ \/ step < Len(tests[test]) /\ test' = test /\ step' = step + 1
         \/ step = Len(tests[test]) /\ test' = test + 1 /\ step' = 1
  BY ProceedMoves, Zenon DEF GoesOn, PlaceInv
<1>3. CASE t = test
  BY <1>1, <1>2, <1>3, Counts DEF Passed
<1>4. CASE t # test
  BY <1>1, <1>2, <1>4, Counts DEF Passed
<1> QED BY <1>3, <1>4

\* A step that asks a service by an old id fails the test, so it is not passed.
LEMMA DeathStep == PlaceInv /\ DeathInv /\ [Next]_vars => DeathInv'
<1> SUFFICES ASSUME PlaceInv, DeathInv, [Next]_vars, failed_tests' = {},
                    NEW s \in stale', NEW t \in 1 .. total, NEW k \in DOMAIN tests[t],
                    tests[t][k].of = s, tests[t][k].op # "try_cancel", Passed(t, k)'
             PROVE  Earlier(t, k, died_in'[s])
  BY Zenon DEF DeathInv, Earlier
<1>1. CASE SimStep
  <2>1. stale' = stale /\ died_in' = died_in
    BY <1>1, DriverSteps, Zenon
  <2>2. CASE Starts
    <3>1. failed_tests' # {} \/ (test' = 1 /\ step' = 1)
      BY <2>2, Counts DEF Starts, PlaceInv
    <3>2. k \in 1 .. Len(tests[t])
      BY Script, Zenon
    <3> QED BY <3>1, <3>2, Counts DEF Passed
  <2>3. CASE GoesOn
    <3>1. failed_tests = {} /\ ~(t = test /\ k = step)
      BY <2>1, <2>3, Zenon DEF GoesOn, Proceed, Now, PlaceInv
    <3>2. Passed(t, k)
      BY <2>3, <3>1, GoesOnPasses
    <3> QED BY <2>1, <3>1, <3>2, Zenon DEF DeathInv
  <2>4. CASE GivesUp
    BY <2>4 DEF GivesUp, Fails
  <2> QED BY <1>1, <2>2, <2>3, <2>4, DriverSteps
<1>2. CASE ~SimStep
  <2>1. failed_tests = {} /\ Passed(t, k)
    BY <1>2, OtherSteps, Zenon DEF Passed
  <2>2. CASE s \in stale /\ died_in'[s] = died_in[s]
    BY <2>1, <2>2, Zenon DEF DeathInv
  <2>3. CASE died_in'[s] = <<test, step>>
    BY <2>1, <2>3 DEF Passed, Earlier
  <2>4. CASE UNCHANGED <<stale, died_in>>
    BY <2>2, <2>4
  <2>5. ASSUME NEW d \in Services,
               stale' = IF test > 0 THEN stale \cup {d} ELSE stale,
               died_in' = [died_in EXCEPT ![d] = <<test, step>>]
        PROVE  Earlier(t, k, died_in'[s])
    <3>1. /\ s = d \/ (s # d /\ s \in stale)
          /\ s = d => died_in'[s] = <<test, step>>
          /\ s # d /\ s \in stale => died_in'[s] = died_in[s]
      BY <2>5 DEF PlaceInv
    <3> QED BY <2>2, <2>3, <3>1, Zenon
  <2> QED BY <1>2, <2>4, <2>5, OtherSteps
<1> QED BY <1>1, <1>2

\* The driver never calls a run good in which a service died that it still had
\* to ask, whatever else died, whenever it was started again.
THEOREM NoDeathOverlooked == Safety => []DeathIsNoticed
<1>1. Init => PlaceInv /\ DeathInv
  BY PlaceInit, Zenon DEF Init, DeathInv
<1>2. PlaceInv /\ DeathInv /\ [Next]_vars => (PlaceInv /\ DeathInv)'
  BY PlaceStep, DeathStep
<1>3. PlaceInv /\ DeathInv => DeathIsNoticed
  <2> SUFFICES ASSUME PlaceInv, DeathInv, done, failed_tests = {},
                      NEW s \in stale, NEW t \in 1 .. total, NEW k \in DOMAIN tests[t],
                      tests[t][k].of = s, tests[t][k].op # "try_cancel"
               PROVE  Earlier(t, k, died_in[s])
    BY Zenon DEF DeathIsNoticed, Earlier
  <2>1. Passed(t, k)
    BY Counts DEF done, Passed
  <2> QED BY <2>1, Zenon DEF DeathInv
<1> QED BY <1>1, <1>2, <1>3, PTL DEF Safety
=============================================================================
