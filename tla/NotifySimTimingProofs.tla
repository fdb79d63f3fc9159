----------------------- MODULE NotifySimTimingProofs -----------------------
(***************************************************************************)
(* Machine-checked proof that the sleeps of the test driver are long       *)
(* enough: if an event is served in less than the gap between two, a       *)
(* record published in less than the settling time of MQTT, and no sleep   *)
(* outlasts an alarm, then no test fails while nothing goes wrong, the     *)
(* publisher having been idle when the driver started, and the             *)
(* counters come to the figures of the evaluation.                         *)
(*                                                                         *)
(* The invariant relates what is still under way to what is left of the    *)
(* sleep that covers it.                                                   *)
(***************************************************************************)
EXTENDS NotifySimProofs, FiniteSetTheorems

\* The condition under which the sleeps suffice: an event is served in less than
\* the gap between two events, a record is accounted for in less than the settling
\* time, and the sleep before a check, however late, is over before the alarm is.
Timely ==
  /\ MaxServe < TEST_OVERLAP_GAP
  /\ MaxRecord < MQTT_ASYNC_SETTLE
  /\ TEST_SETTLE + MaxLag < DURATION

\* What notifyd counts an event as, once it is through with it.
Class(e) ==
  IF event_validation_check(e.name, e.msg) # "ok" THEN "invalid"
  ELSE IF is_supported_event_type(e.name) THEN "accepted" ELSE "ignored"

\* What ubusd hands to notifyd.
Delivered(e) == e.name[1] = "alarm"

\* The pattern an event sounds on a service, 0 if it leaves the service alone.
Outcome(s, e) == IF Class(e) = "accepted" THEN config(s, e.name)[2] ELSE 0

\* Step j of test t sends an event.
Sends(t, j) == /\ t \in 1 .. total /\ j \in DOMAIN tests[t]
               /\ tests[t][j].op = "send"

\* Where a service is in the list of actions, and that the event in service, if any,
\* has passed it.
index == [siren |-> 1, led |-> 2, mqtt |-> 3]
Handled(s) == NotifydIdle \/ action > index[s]

\* No service is down, and nothing was missed.
BoardInv ==
  /\ stale = {} /\ failed_tests = {}
  /\ \A s \in Services : down[s] = 0

\* Types, as far as the proofs do arithmetic.
TypeInv ==
  /\ playing \in [Reactions -> Nat] /\ left \in [Reactions -> Nat]
  /\ queued \in Nat /\ in_flight \in {"none", "reached", "refused", "either"}
  /\ spent \in 0 .. MaxRecord /\ has_active_alarm \in BOOLEAN
  /\ mqtt \in [published : Nat, failed : Nat, connected : BOOLEAN]
  /\ mqtt_before \in [published : Nat, failed : Nat, connected : BOOLEAN]
  /\ stats \in Stats /\ stats_before \in Stats
  /\ wait \in Nat /\ age \in 0 .. MaxServe /\ action \in 0 .. 4

\* notifyd has at most one event, sent one or two steps ago.  As long as the driver
\* sleeps after it, what is left of the sleep and the age of the event make up at
\* least the whole sleep.
ServeInv ==
  /\ NotifydIdle => action = 0 /\ age = 0
  /\ ~NotifydIdle =>
       \E j \in {step - 1, step - 2} :
         /\ Sends(test, j)
         /\ LET e == tests[test][j].arg IN
            /\ inbox = <<e>> /\ Delivered(e)
            /\ action > 0 => Class(e) # "invalid"
         /\ step = j + 1 => wait = 0 /\ age = 0
         /\ step = j + 2 => wait + age >= tests[test][j + 1].arg

\* Before step k, test t has silenced s, and has sent nothing since that sounds it.
Quiet(t, k, s) ==
  \E i \in 1 .. k - 1 :
    /\ tests[t][i].op = "cancel" /\ tests[t][i].of = s
    /\ \A j \in i .. k - 1 : tests[t][j].op = "send" => Outcome(s, tests[t][j].arg) = 0

\* A service that was silenced is silent.
QuietInv ==
  test \in 1 .. total => \A s \in Reactions : Quiet(test, step, s) => playing[s] = 0

\* Step j sent an event whose patterns the driver is going to check.
Awaited(j) == Sends(test, j) /\ tests[test][j + 2].op = "expect"

\* Until the checks after it, the pattern of the last event plays on each service
\* that notifyd has come to, for longer than the driver still sleeps.
SoundInv ==
  \A j \in {step - 1, step - 2, step - 3} : Awaited(j) =>
    /\ step = j + 1 => wait = 0
    /\ wait <= TEST_SETTLE + MaxLag
    /\ \A s \in Reactions :
         LET pattern == Outcome(s, tests[test][j].arg) IN
         pattern # 0 /\ Handled(s) =>
           /\ playing[s] = pattern /\ left[s] > wait
           /\ step = j + 1 => left[s] = DURATION

\* Until the broker is stopped, every record finds it.
PublisherInv ==
  /\ PublisherIdle => spent = 0
  /\ test = 0 => PublisherIdle
  /\ test < BrokerTest \/ (test = BrokerTest /\ step <= 5) =>
       broker_up /\ in_flight \in {"none", "reached"}

\* The state of the publisher in a test of the table: cleared but for a record that
\* will be out of the way when the sleep is over; clean, with the snapshot taken;
\* and with the one record of the event, which is accounted for before the count is
\* compared.
Cleared ==
  /\ ~has_active_alarm
  /\ PublisherIdle \/ (queued + InHand = 1 /\ spent + wait >= MQTT_ASYNC_SETTLE)

Clean == PublisherIdle /\ ~has_active_alarm /\ mqtt.published = mqtt_before.published

Recorded ==
  /\ mqtt.published >= mqtt_before.published
  /\ queued + InHand + mqtt.published = mqtt_before.published + 1
  /\ step = 10 /\ ~PublisherIdle => spent + wait >= MQTT_ASYNC_SETTLE

\* The event of the test is one the MQTT service makes a record of, and it has.
HasRecord == Class(test_cases[test].event) = "accepted" /\ Handled("mqtt")

\* The publisher at each step of a test of the table.
TableInv ==
  test \in 1 .. table_count =>
    /\ step <= 3 => PublisherIdle
    /\ step = 4 => Cleared
    /\ step = 5 => Clean
    /\ step >= 6 => IF HasRecord THEN Recorded ELSE Clean

\* The record of the event in service is still to be made.
ToCome == ~NotifydIdle /\ action <= index["mqtt"]

\* The sleeps after step k of the broker test and before it looks for the outage,
\* and how long it will still sleep, together with the time the publisher has
\* spent already.
OutageTicks(k) ==
  IF k <= 7 THEN TEST_SETTLE + MQTT_ASYNC_SETTLE
  ELSE IF k <= 10 THEN MQTT_ASYNC_SETTLE ELSE 0

OutageLeft == OutageTicks(step) + wait + spent
OutageSleeps == BROKER_SETTLE + TEST_SETTLE + MQTT_ASYNC_SETTLE

\* What the driver is going to look for: a failed record, and no connection since.
Noted == in_flight # "either" /\ ~mqtt.connected /\ mqtt.failed > mqtt_before.failed

\* While the broker is stopped, a failed record has been noted or will be in time: the
\* record in hand when the broker went is out of the way before the new one is due.
Outage ==
  /\ ~broker_up /\ in_flight # "reached"
  /\ \/ Noted
     \/ /\ in_flight = "either" /\ OutageLeft >= OutageSleeps
        /\ queued > 0 \/ step = 6 \/ ToCome
     \/ in_flight # "either" /\ ~PublisherIdle /\ OutageLeft >= MQTT_ASYNC_SETTLE
     \/ PublisherIdle /\ (step = 6 \/ ToCome)

\* The publisher while the broker is stopped.
OutageInv ==
  test = BrokerTest /\ step \in 5 .. 11 =>
    /\ mqtt.failed >= mqtt_before.failed
    /\ step >= 6 => Outage

\* The sleeps after step k of the broker test and before its second snapshot, by
\* which the record in hand when the broker came back is accounted for.
CleanTicks(k) ==
  IF k = 13 THEN CANCEL_SETTLE + CANCEL_SETTLE + MQTT_ASYNC_SETTLE
  ELSE IF k = 14 THEN CANCEL_SETTLE + MQTT_ASYNC_SETTLE
  ELSE IF k = 15 THEN MQTT_ASYNC_SETTLE ELSE 0

CleanLeft == CleanTicks(step) + wait + spent

\* The sleep after step k of the broker test and before it looks for the recovery.
RecoveryTicks(k) == IF k <= 18 THEN TEST_SETTLE + MQTT_ASYNC_SETTLE ELSE 0

RecoveryLeft == RecoveryTicks(step) + wait + spent

\* Since the second snapshot, a record has been published, or will be in time.
Recovery ==
  /\ in_flight # "either" /\ mqtt.published >= mqtt_before.published
  /\ \/ mqtt.connected /\ mqtt.published > mqtt_before.published
     \/ ~PublisherIdle /\ RecoveryLeft >= MQTT_ASYNC_SETTLE
     \/ PublisherIdle /\ (step = 17 \/ ToCome)

\* The publisher once the broker is started again.
RecoveryInv ==
  test = BrokerTest /\ step \in 13 .. 19 =>
    /\ broker_up /\ in_flight # "refused"
    /\ step <= 16 /\ in_flight = "either" => CleanLeft >= MQTT_ASYNC_SETTLE
    /\ step >= 17 => Recovery

\* The three classes of an event.
Classes == {"accepted", "ignored", "invalid"}

\* One for what is true.
Bit(b) == IF b THEN 1 ELSE 0

\* How many events of a class the script has sent before step k of test t.
Sent(class, t, k) ==
  CASE class = "accepted" ->
         (CASE t <= 5 -> t - 1 + Bit(k >= 6)
            [] t \in 6 .. 12 -> 5
            [] t = 13 -> 5 + Bit(k >= 4) + Bit(k >= 7)
            [] t \in 14 .. 15 -> 7
            [] t = 16 -> 7 + Bit(k >= 7) + Bit(k >= 18)
            [] OTHER -> 9)
    [] class = "ignored" ->
         (CASE t <= 5 -> 0 [] t \in 6 .. 7 -> t - 6 + Bit(k >= 6) [] OTHER -> 2)
    [] class = "invalid" ->
         (CASE t <= 8 -> 0 [] t \in 9 .. 12 -> t - 9 + Bit(k >= 6) [] OTHER -> 4)

\* The event in service is not counted yet.
Owed(class) == Bit(~NotifydIdle /\ Class(Head(inbox)) = class)

\* The actions already sent for the event in service.
Doing ==
  IF ~NotifydIdle /\ action > 0 /\ Class(Head(inbox)) = "accepted" THEN action - 1 ELSE 0

\* The counters since the start of the driver: each class counts what the script has
\* sent, but for the event in service; each accepted event has three actions.
StatsInv ==
  test > 0 =>
    /\ \A class \in Classes :
         Delta(class) = Sent(class, test, step) - Owed(class)
    /\ Delta("received") = Delta("accepted") + Delta("ignored") + Delta("invalid")
    /\ Delta("failed") = 0
    /\ Delta("sent") = SIM_ACTIONS_PER_ACCEPTED_EVENT * Delta("accepted") + Doing

\* All of it, in a run in which nothing goes wrong.
CalmParts ==
  /\ TypeInv /\ BoardInv /\ ServeInv /\ QuietInv /\ SoundInv
  /\ PublisherInv /\ TableInv /\ OutageInv /\ RecoveryInv /\ StatsInv

\* The invariant.
CalmInv == faults \in Nat /\ (Calm => CalmParts)

-----------------------------------------------------------------------------
(***************************************************************************)
(* The events of the script.                                               *)
(***************************************************************************)
\* A payload is not taken for a missing one.
LEMMA Payload ==
  ASSUME NEW type \in Texts \cup {Absent}, NEW severity \in Texts \cup {Absent}
  PROVE  [type |-> type, severity |-> severity, source |-> "sim", message |-> "text"] # Absent
<1>1. [type |-> type, severity |-> severity, source |-> "sim", message |-> "text"]
        \in [Recognized -> Texts \cup {Absent}]
  BY DEF Recognized, Required, Texts
<1> QED BY <1>1, AbsentAssumption, Zenon

\* An event is valid when its type is the last part of its name.
LEMMA SoundEvent ==
  ASSUME NEW group, NEW t \in Texts, NEW severity \in allowed_severities
  PROVE  LET e == Event(<<group, t>>, t, severity) IN
         /\ e.name = <<group, t>>
         /\ event_validation_check(e.name, e.msg) = "ok"
<1> DEFINE msg == [type |-> t, severity |-> severity, source |-> "sim", message |-> "text"]
           e == Event(<<group, t>>, t, severity)
<1>1. msg # Absent
  BY Payload DEF Texts
<1>2. t # Absent /\ severity # Absent /\ "sim" # Absent
  BY AbsentAssumption DEF Texts
<1>3. e.name = <<group, t>> /\ e.msg = msg
  BY DEF Event
<1>4. present(msg, Required) = Required
  BY <1>2 DEF present, Required
<1>5. present(msg, Recognized) # {}
  BY <1>2 DEF present, Recognized, Required
<1>6. event_name_suffix(e.name) = t
  BY <1>3 DEF event_name_suffix
<1>7. event_validation_check(e.name, e.msg) = "ok"
  <2>1. msg.severity = severity /\ msg.type = t
    OBVIOUS
  <2> HIDE DEF msg, e
  <2> QED BY <1>1, <1>3, <1>4, <1>5, <1>6, <2>1, Zenon DEF event_validation_check
<1> QED BY <1>3, <1>7

\* So an alarm is accepted if its type is supported and ignored otherwise.
LEMMA AlarmClass ==
  ASSUME NEW t \in Texts, NEW severity \in allowed_severities
  PROVE  LET e == Alarm(t, severity) IN
         /\ Class(e) = IF t \in supported THEN "accepted" ELSE "ignored"
         /\ Delivered(e)
<1> DEFINE e == Alarm(t, severity)
<1>1. e.name = <<"alarm", t>> /\ event_validation_check(e.name, e.msg) = "ok"
  BY SoundEvent DEF Alarm
<1> HIDE DEF e
<1>2. is_supported_event_type(e.name) <=> t \in supported
  BY <1>1 DEF is_supported_event_type
<1>3. Class(e) = IF t \in supported THEN "accepted" ELSE "ignored"
  BY <1>1, <1>2, Zenon DEF Class
<1>4. Delivered(e)
  BY <1>1 DEF Delivered
<1> QED BY <1>3, <1>4 DEF e

\* What the supported alarms leave playing.
LEMMA AlarmOutcome ==
  ASSUME NEW t \in supported, NEW severity \in allowed_severities
  PROVE  /\ Outcome("siren", Alarm(t, severity)) = siren_config[t]
         /\ Outcome("led", Alarm(t, severity)) = led_config[t]
<1> DEFINE e == Alarm(t, severity)
<1>1. Class(e) = "accepted"
  BY AlarmClass DEF Texts
<1>2. e.name = <<"alarm", t>>
  BY DEF Alarm, Event
<1>3. event_name_suffix(e.name) = t
  BY <1>2 DEF event_name_suffix
<1>4. /\ config("siren", e.name) = <<"siren_id", siren_config[t]>>
      /\ config("led", e.name) = <<"led_id", led_config[t]>>
  <2> HIDE DEF e
  <2> QED BY <1>3 DEF config
<1> HIDE DEF e
<1>5. Outcome("siren", e) = siren_config[t] /\ Outcome("led", e) = led_config[t]
  BY <1>1, <1>4 DEF Outcome
<1> QED BY <1>5 DEF e

\* The patterns of the five types, on siren and LED.
LEMMA Patterns ==
  /\ siren_config["fire"] = 2 /\ led_config["fire"] = 1
  /\ siren_config["burglary"] = 4 /\ led_config["burglary"] = 2
  /\ siren_config["panic"] = 4 /\ led_config["panic"] = 2
  /\ siren_config["water_leak"] = 3 /\ led_config["water_leak"] = 3
  /\ siren_config["medical"] = 5 /\ led_config["medical"] = 4
BY DEF siren_config, led_config, supported

\* The two alarms outside the table.
LEMMA FireAndPanic ==
  /\ \A t \in {"fire", "panic"} :
       LET e == Alarm(t, "critical") IN Class(e) = "accepted" /\ Delivered(e)
  /\ Outcome("siren", Alarm("fire", "critical")) = 2
  /\ Outcome("led", Alarm("fire", "critical")) = 1
  /\ Outcome("siren", Alarm("panic", "critical")) = 4
  /\ Outcome("led", Alarm("panic", "critical")) = 2
<1>1. {"fire", "panic"} \subseteq supported /\ supported \subseteq Texts
      /\ "critical" \in allowed_severities
  BY DEF supported, Texts, allowed_severities
<1> QED BY <1>1, AlarmClass, AlarmOutcome, Patterns

\* An event that is not sound is not accepted, whatever its name.
LEMMA UnsoundIsInvalid ==
  ASSUME NEW e,
         \/ e.msg.severity \notin allowed_severities
         \/ e.msg.type # event_name_suffix(e.name)
  PROVE  Class(e) = "invalid"
<1>1. event_validation_check(e.name, e.msg) # "ok"
  BY DEF event_validation_check
<1> QED BY <1>1 DEF Class

\* What the table's events are, and what they leave playing.
LEMMA CaseEvents ==
  ASSUME NEW t \in 1 .. 12
  PROVE  LET c == test_cases[t] IN
         /\ Class(c.event) = IF t <= 5 THEN "accepted" ELSE IF t <= 8 THEN "ignored"
                                                        ELSE "invalid"
         /\ Delivered(c.event) <=> t # 8
         /\ Outcome("siren", c.event) = c.siren /\ Outcome("led", c.event) = c.led
         /\ c.siren # 0 <=> t <= 5
<1> DEFINE Fits(c, class) ==
             /\ Class(c.event) = class /\ Delivered(c.event)
             /\ Outcome("siren", c.event) = c.siren /\ Outcome("led", c.event) = c.led
             /\ c.siren # 0 <=> class = "accepted"
<1>1. ASSUME NEW a \in supported, NEW severity \in allowed_severities
      PROVE  Fits(Case(Alarm(a, severity), siren_config[a], led_config[a]), "accepted")
  <2>1. a \in Texts /\ siren_config[a] # 0
    BY DEF Texts, supported, siren_config
  <2> QED BY <2>1, AlarmClass, AlarmOutcome DEF Case
<1>2. ASSUME NEW e, NEW class \in {"ignored", "invalid"}, Class(e) = class, Delivered(e)
      PROVE  Fits(Case(e, 0, 0), class)
  BY <1>2 DEF Case, Outcome
<1>3. "fire" \in supported /\ "burglary" \in supported /\ "panic" \in supported
      /\ "water_leak" \in supported /\ "medical" \in supported
      /\ "invalid" \in Texts \ supported /\ "unknown" \in Texts \ supported
      /\ "low_battery" \in Texts \ supported
  BY DEF supported, Texts, allowed_severities
<1>4. "critical" \in allowed_severities /\ "high" \in allowed_severities
      /\ "medium" \in allowed_severities /\ "low" \in allowed_severities
      /\ "katastrofalno" \notin allowed_severities /\ Absent \notin allowed_severities
  BY AbsentAssumption DEF allowed_severities, Texts
<1>5. \A a \in {"invalid", "unknown"} : Fits(Case(Alarm(a, "low"), 0, 0), "ignored")
  <2> TAKE a \in {"invalid", "unknown"}
  <2>1. Class(Alarm(a, "low")) = "ignored" /\ Delivered(Alarm(a, "low"))
    BY <1>3, <1>4, AlarmClass
  <2> QED BY <1>2, <2>1
<1>6. \A severity \in {Absent, "katastrofalno"} :
        Fits(Case(Alarm("fire", severity), 0, 0), "invalid")
  <2> TAKE severity \in {Absent, "katastrofalno"}
  <2>1. Alarm("fire", severity).msg.severity = severity /\ Delivered(Alarm("fire", severity))
    BY DEF Alarm, Event, Delivered
  <2>2. Class(Alarm("fire", severity)) = "invalid"
    BY <1>4, <2>1, UnsoundIsInvalid
  <2> QED BY <1>2, <2>1, <2>2
<1>7. Fits(Case(Event(<<"alarm", "fire">>, "burglary", "critical"), 0, 0), "invalid")
  <2> DEFINE e == Event(<<"alarm", "fire">>, "burglary", "critical")
  <2>1. e.name = <<"alarm", "fire">> /\ e.msg.type = "burglary" /\ Delivered(e)
    BY DEF Event, Delivered
  <2>2. e.msg.type # event_name_suffix(e.name)
    <3> HIDE DEF e
    <3> QED BY <2>1 DEF event_name_suffix
  <2> HIDE DEF e
  <2>3. Class(e) = "invalid"
    BY <2>2, UnsoundIsInvalid
  <2>4. Fits(Case(e, 0, 0), "invalid")
    BY <1>2, <2>1, <2>3
  <2> QED BY <2>4 DEF e
<1>8. Fits(Case([name |-> <<"alarm", "fire">>, msg |-> [f \in Recognized |-> Absent]], 0, 0),
           "invalid")
  <2> DEFINE e == [name |-> <<"alarm", "fire">>, msg |-> [f \in Recognized |-> Absent]]
  <2>1. e.name = <<"alarm", "fire">> /\ e.msg.severity = Absent
    BY DEF Recognized, Required
  <2> HIDE DEF e
  <2>2. Class(e) = "invalid" /\ Delivered(e)
    BY <1>4, <2>1, UnsoundIsInvalid DEF Delivered
  <2>3. Fits(Case(e, 0, 0), "invalid")
    BY <1>2, <2>2
  <2> QED BY <2>3 DEF e
<1>9. LET c == test_cases[8] IN
      /\ Class(c.event) = "ignored" /\ ~Delivered(c.event)
      /\ Outcome("siren", c.event) = c.siren /\ Outcome("led", c.event) = c.led
      /\ c.siren = 0
  <2> DEFINE e == Event(<<"system", "low_battery">>, "low_battery", "high")
  <2>1. test_cases[8] = Case(e, 0, 0)
    BY DEF test_cases
  <2>2. e.name = <<"system", "low_battery">> /\ event_validation_check(e.name, e.msg) = "ok"
    BY <1>3, <1>4, SoundEvent
  <2> HIDE DEF e
  <2>3. ~is_supported_event_type(e.name) /\ ~Delivered(e)
    BY <2>2 DEF is_supported_event_type, Delivered
  <2>4. Class(e) = "ignored"
    BY <2>2, <2>3 DEF Class
  <2> QED BY <2>1, <2>3, <2>4 DEF Case, Outcome
<1>10. /\ test_cases[1] = Case(Alarm("fire", "critical"), 2, 1)
       /\ test_cases[2] = Case(Alarm("burglary", "high"), 4, 2)
       /\ test_cases[3] = Case(Alarm("panic", "critical"), 4, 2)
       /\ test_cases[4] = Case(Alarm("water_leak", "medium"), 3, 3)
       /\ test_cases[5] = Case(Alarm("medical", "high"), 5, 4)
       /\ test_cases[6] = Case(Alarm("invalid", "low"), 0, 0)
       /\ test_cases[7] = Case(Alarm("unknown", "low"), 0, 0)
       /\ test_cases[9] = Case(Alarm("fire", Absent), 0, 0)
       /\ test_cases[10] = Case(Alarm("fire", "katastrofalno"), 0, 0)
       /\ test_cases[11] = Case(Event(<<"alarm", "fire">>, "burglary", "critical"), 0, 0)
       /\ test_cases[12] =
            Case([name |-> <<"alarm", "fire">>, msg |-> [f \in Recognized |-> Absent]], 0, 0)
  BY DEF test_cases
<1> HIDE DEF Fits
<1>11. \A n \in 1 .. 5 : Fits(test_cases[n], "accepted")
  <2>1. Fits(test_cases[1], "accepted")
    BY <1>1, <1>3, <1>4, <1>10, Patterns
  <2>2. Fits(test_cases[2], "accepted")
    BY <1>1, <1>3, <1>4, <1>10, Patterns
  <2>3. Fits(test_cases[3], "accepted")
    BY <1>1, <1>3, <1>4, <1>10, Patterns
  <2>4. Fits(test_cases[4], "accepted")
    BY <1>1, <1>3, <1>4, <1>10, Patterns
  <2>5. Fits(test_cases[5], "accepted")
    BY <1>1, <1>3, <1>4, <1>10, Patterns
  <2> QED BY <2>1, <2>2, <2>3, <2>4, <2>5
<1>12. \A n \in 6 .. 7 : Fits(test_cases[n], "ignored")
  BY <1>5, <1>10
<1>13. \A n \in 9 .. 12 : Fits(test_cases[n], "invalid")
  BY <1>6, <1>7, <1>8, <1>10
<1>14. CASE t \in 1 .. 5
  BY <1>11, <1>14 DEF Fits
<1>15. CASE t \in 6 .. 7
  BY <1>12, <1>15 DEF Fits
<1>16. CASE t \in 9 .. 12
  BY <1>13, <1>16 DEF Fits
<1>17. CASE t = 8
  BY <1>9, <1>17
<1> QED BY <1>14, <1>15, <1>16, <1>17

-----------------------------------------------------------------------------
(***************************************************************************)
(* The sleeps of the script.                                               *)
(***************************************************************************)
\* After each event the driver sleeps, and then checks something.
SleepsAfter(t, j) ==
  /\ {j + 1, j + 2} \subseteq DOMAIN tests[t]
  /\ tests[t][j + 1].op = "sleep"
  /\ tests[t][j + 1].arg \in Nat /\ tests[t][j + 1].arg >= TEST_OVERLAP_GAP
  /\ tests[t][j + 2].op \in {"expect", "recovery"}
  /\ tests[t][j + 2].op = "expect" => tests[t][j + 1].arg <= TEST_SETTLE

\* What a step says of itself.
WellFormed(d) ==
  /\ d.op \in {"cancel", "try_cancel"} => d.of \in {"siren", "led", "mqtt"}
  /\ d.op \in {"cancel", "try_cancel", "sleep", "stop", "start"} => d.arg \in Nat
  /\ d.op = "rejected" => alarm_reply(d.of, d.arg) = "error"
  /\ d.op = "send" => Class(d.arg) \in {"accepted", "ignored", "invalid"}

\* Every step is well formed, and every event is slept after.
LEMMA Sleeps ==
  ASSUME NEW t \in 1 .. total, NEW j \in DOMAIN tests[t]
  PROVE  /\ WellFormed(tests[t][j])
         /\ tests[t][j].op = "send" => SleepsAfter(t, j)
<1> USE DEF WellFormed, SleepsAfter, Do, Sleep, Send, Expect, get_mqtt_status,
          cancel_siren, cancel_led, cancel_mqtt, Guarded, CANCEL_SETTLE, MQTT_ASYNC_SETTLE,
          TEST_SETTLE, TEST_OVERLAP_GAP, BROKER_SETTLE, Class
<1>1. CASE t \in 1 .. 12
  <2> DEFINE c == test_cases[t]
             s == run_test_case(c)
  <2>1. tests[t] = s
    BY <1>1, TestIs
  <2>2. /\ DOMAIN s = 1 .. 10
        /\ s[1] = cancel_siren /\ s[2] = cancel_led /\ s[3] = cancel_mqtt
        /\ s[4] = get_mqtt_status /\ s[5] = Send(c.event)
        /\ s[6] = Sleep(TEST_SETTLE)
        /\ s[7] = Expect("siren", c.siren) /\ s[8] = Expect("led", c.led)
        /\ s[9] = Sleep(MQTT_ASYNC_SETTLE)
        /\ s[10] = Do("published", "mqtt", IF c.siren # 0 THEN 1 ELSE 0)
    BY CaseSteps, Zenon
  <2> HIDE DEF c, s
  <2>3. \A k \in 1 .. 10 :
          /\ WellFormed(s[k])
          /\ s[k].op = "send" => k = 5
    BY <2>2
  <2> QED BY <1>1, <2>1, <2>2, <2>3, Counts
<1>0. \A s \in Reactions : /\ alarm_reply(s, 99) = "error"
                            /\ alarm_reply(s, Absent) = "error"
  BY DEF alarm_reply, valid_ids, Reactions
<1>2. CASE t = 13
  BY <1>2, TestIs, OverlapSteps, Counts
<1>3. CASE t = 14
  BY <1>3, TestIs, SirenRpcSteps, Counts, <1>0 DEF Reactions
<1>4. CASE t = 15
  BY <1>4, TestIs, LedRpcSteps, Counts, <1>0 DEF Reactions
<1>5. CASE t = 16
  <2> DEFINE s == run_mqtt_broker_down_test
  <2>1. tests[t] = s /\ DOMAIN s = 1 .. 19
    BY <1>5, TestIs, BrokerDownSteps, Zenon
  <2>2. /\ \A k \in 1 .. 19 : s[k].op = "send" => k \in {6, 17}
        /\ \A k \in {7, 18} : s[k].op = "sleep" /\ s[k].arg \in 2 .. 12
        /\ s[7].arg = 5 /\ s[8].op = "expect" /\ s[19].op = "recovery"
    BY BrokerDownSteps
  <2>3. WellFormed(s[6])
    BY BrokerDownSteps, FireAndPanic
  <2>4. WellFormed(s[17])
    BY BrokerDownSteps, FireAndPanic
  <2>5. \A k \in (1 .. 19) \ {6, 17} : WellFormed(s[k])
    BY BrokerDownSteps
  <2>6. \A k \in 1 .. 19 : WellFormed(s[k])
    BY <2>3, <2>4, <2>5, Zenon
  <2> HIDE DEF s, WellFormed
  <2> QED BY <1>5, <2>1, <2>2, <2>6, Counts
<1>6. CASE t = 17
  BY <1>6, TestIs, CleanUpSteps, Counts
<1> QED BY <1>1, <1>2, <1>3, <1>4, <1>5, <1>6, Counts

\* A check of a pattern follows the event it is about, and where the event
\* leaves nothing playing the service was silenced before.
LEMMA Expects ==
  ASSUME NEW t \in 1 .. total, NEW k \in DOMAIN tests[t], tests[t][k].op = "expect"
  PROVE  /\ tests[t][k].of \in Reactions
         /\ \E j \in {k - 2, k - 3} :
              /\ Sends(t, j) /\ tests[t][j + 2].op = "expect"
              /\ tests[t][k].arg = Outcome(tests[t][k].of, tests[t][j].arg)
              /\ tests[t][k].arg = 0 => Quiet(t, k, tests[t][k].of)
<1> USE DEF Do, Sleep, Send, Expect, get_mqtt_status, cancel_siren, cancel_led,
          cancel_mqtt, Guarded, Reactions
<1>1. CASE t \in 1 .. 12
  <2> DEFINE c == test_cases[t]
             s == run_test_case(c)
  <2>1. tests[t] = s
    BY <1>1, TestIs
  <2>2. /\ DOMAIN s = 1 .. 10
        /\ s[1] = cancel_siren /\ s[2] = cancel_led /\ s[3] = cancel_mqtt
        /\ s[4] = get_mqtt_status /\ s[5] = Send(c.event)
        /\ s[6] = Sleep(TEST_SETTLE)
        /\ s[7] = Expect("siren", c.siren) /\ s[8] = Expect("led", c.led)
        /\ s[9] = Sleep(MQTT_ASYNC_SETTLE)
        /\ s[10] = Do("published", "mqtt", IF c.siren # 0 THEN 1 ELSE 0)
    BY CaseSteps, Zenon
  <2>3. /\ Outcome("siren", c.event) = c.siren
        /\ Outcome("led", c.event) = c.led
    BY <1>1, CaseEvents, Zenon
  <2> HIDE DEF c, s
  <2>4. \A n \in 1 .. 10 : s[n].op = "send" => n = 5 /\ s[n].arg = c.event
    BY <2>2
  <2>5. k = 7 \/ k = 8
    BY <2>1, <2>2
  <2>6. Sends(t, 5) /\ s[7].op = "expect" /\ s[5].arg = c.event
    BY <1>1, <2>1, <2>2, Counts DEF Sends
  <2>7. CASE k = 7
    <3>1. s[7].of = "siren" /\ s[7].arg = c.siren
      BY <2>2
    <3>2. c.siren = 0 => Quiet(t, 7, "siren")
      <4>1. s[1].op = "cancel" /\ s[1].of = "siren" /\ 1 \in 1 .. 7 - 1
        BY <2>2
      <4>2. c.siren = 0 => \A j \in 1 .. 7 - 1 : s[j].op = "send" => Outcome("siren", s[j].arg) = 0
        BY <2>3, <2>4
      <4> QED BY <2>1, <4>1, <4>2, Zenon DEF Quiet
    <3>3. 7 - 2 = 5 /\ 5 + 2 = 7
      OBVIOUS
    <3> QED BY <2>1, <2>3, <2>6, <2>7, <3>1, <3>2, <3>3, Zenon
  <2>8. CASE k = 8
    <3>1. s[8].of = "led" /\ s[8].arg = c.led
      BY <2>2
    <3>2. c.led = 0 => Quiet(t, 8, "led")
      <4>1. s[2].op = "cancel" /\ s[2].of = "led" /\ 2 \in 1 .. 8 - 1
        BY <2>2
      <4>2. c.led = 0 => \A j \in 2 .. 8 - 1 : s[j].op = "send" => Outcome("led", s[j].arg) = 0
        BY <2>3, <2>4
      <4> QED BY <2>1, <4>1, <4>2, Zenon DEF Quiet
    <3>3. 8 - 3 = 5 /\ 5 + 2 = 7
      OBVIOUS
    <3> QED BY <2>1, <2>3, <2>6, <2>8, <3>1, <3>2, <3>3, Zenon
  <2> QED BY <2>5, <2>7, <2>8
<1>2. CASE t = 13
  <2>1. k \in {5, 8, 9}
    BY <1>2, TestIs, OverlapSteps
  <2>2. /\ Sends(13, 3) /\ Sends(13, 6)
        /\ tests[13][5].op = "expect" /\ tests[13][8].op = "expect"
        /\ tests[13][5].of = "siren" /\ tests[13][8].of = "siren" /\ tests[13][9].of = "led"
        /\ tests[13][5].arg = Outcome("siren", tests[13][3].arg)
        /\ tests[13][8].arg = Outcome("siren", tests[13][6].arg)
        /\ tests[13][9].arg = Outcome("led", tests[13][6].arg)
        /\ tests[13][5].arg = 2 /\ tests[13][8].arg = 4 /\ tests[13][9].arg = 2
    BY TestIs, OverlapSteps, FireAndPanic, Counts DEF Sends
  <2> QED BY <1>2, <2>1, <2>2
<1>3. CASE t = 14
  BY <1>3, TestIs, SirenRpcSteps
<1>4. CASE t = 15
  BY <1>4, TestIs, LedRpcSteps
<1>5. CASE t = 16
  <2>1. k \in {8, 9}
    BY <1>5, TestIs, BrokerDownSteps
  <2>2. /\ Sends(16, 6) /\ tests[16][8].op = "expect"
        /\ tests[16][8].of = "siren" /\ tests[16][9].of = "led"
        /\ tests[16][8].arg = Outcome("siren", tests[16][6].arg)
        /\ tests[16][9].arg = Outcome("led", tests[16][6].arg)
        /\ tests[16][8].arg = 2 /\ tests[16][9].arg = 1
    BY TestIs, BrokerDownSteps, FireAndPanic, Counts DEF Sends
  <2> QED BY <1>5, <2>1, <2>2
<1>6. CASE t = 17
  BY <1>6, TestIs, CleanUpSteps
<1> QED BY <1>1, <1>2, <1>3, <1>4, <1>5, <1>6, Counts

\* Where the script looks at the publisher and at the counters.
LEMMA CheckPlaces ==
  ASSUME NEW t \in 1 .. total, NEW k \in DOMAIN tests[t]
  PROVE  LET d == tests[t][k] IN
         /\ d.op = "published" =>
              t \in 1 .. 12 /\ k = 10 /\ d.arg = IF t <= 5 THEN 1 ELSE 0
         /\ d.op = "outage" => t = BrokerTest /\ k = 11
         /\ d.op = "recovery" => t = BrokerTest /\ k = 19
         /\ d.op = "stats" => t = total /\ k = 4
<1> USE DEF Do, Sleep, Send, Expect, get_mqtt_status, cancel_siren, cancel_led,
          cancel_mqtt, Guarded
<1>1. CASE t \in 1 .. 12
  <2> DEFINE c == test_cases[t]
             s == run_test_case(c)
  <2>1. tests[t] = s
    BY <1>1, TestIs
  <2>2. /\ DOMAIN s = 1 .. 10
        /\ s[1] = cancel_siren /\ s[2] = cancel_led /\ s[3] = cancel_mqtt
        /\ s[4] = get_mqtt_status /\ s[5] = Send(c.event)
        /\ s[6] = Sleep(TEST_SETTLE)
        /\ s[7] = Expect("siren", c.siren) /\ s[8] = Expect("led", c.led)
        /\ s[9] = Sleep(MQTT_ASYNC_SETTLE)
        /\ s[10] = Do("published", "mqtt", IF c.siren # 0 THEN 1 ELSE 0)
    BY CaseSteps, Zenon
  <2>3. c.siren # 0 <=> t <= 5
    BY <1>1, CaseEvents, Zenon
  <2> HIDE DEF c, s
  <2> QED BY <1>1, <2>1, <2>2, <2>3, Counts
<1>2. CASE t = 13
  BY <1>2, TestIs, OverlapSteps, Counts
<1>3. CASE t = 14
  BY <1>3, TestIs, SirenRpcSteps, Counts
<1>4. CASE t = 15
  BY <1>4, TestIs, LedRpcSteps, Counts
<1>5. CASE t = 16
  BY <1>5, TestIs, BrokerDownSteps, Counts
<1>6. CASE t = 17
  BY <1>6, TestIs, CleanUpSteps, Counts
<1> QED BY <1>1, <1>2, <1>3, <1>4, <1>5, <1>6, Counts

-----------------------------------------------------------------------------
(***************************************************************************)
(* What the driver finds.                                                  *)
(***************************************************************************)
\* When the driver is awake notifyd has nothing to do, unless the driver has
\* just sent an event and is about to sleep.
LEMMA AwakeIsIdle ==
  ASSUME PlaceInv, TypeInv, ServeInv, Timely, wait = 0, ~NotifydIdle
  PROVE  /\ Sends(test, step - 1) /\ test \in 1 .. total /\ Now.op = "sleep"
         /\ age = 0 /\ SleepsAfter(test, step - 1)
<1>1. PICK j \in {step - 1, step - 2} :
        /\ Sends(test, j)
        /\ step = j + 1 => wait = 0 /\ age = 0
        /\ step = j + 2 => wait + age >= tests[test][j + 1].arg
  BY Zenon DEF ServeInv
<1>2. j \in Nat /\ SleepsAfter(test, j)
  BY <1>1, Sleeps, Script DEF Sends
<1>3. step # j + 2
  BY <1>1, <1>2, TimeAssumption DEF Timely, TypeInv, TEST_OVERLAP_GAP, SleepsAfter
<1>4. j = step - 1 /\ j + 1 = step
  BY <1>1, <1>2, <1>3 DEF PlaceInv
<1> QED BY <1>1, <1>2, <1>4 DEF Sends, SleepsAfter, Now

\* The events of the table that match alarm.*.
LEMMA AlarmCases == count_alarm_test_cases = 11
<1> DEFINE Alarms == {t \in 1 .. table_count : test_cases[t].event.name[1] = "alarm"}
<1>1. \A t \in 1 .. 12 : test_cases[t].event.name[1] = "alarm" <=> t # 8
  BY CaseEvents, Zenon DEF Delivered
<1>2. Alarms = (1 .. 12) \ {8}
  BY <1>1, Counts
<1>3. IsFiniteSet(1 .. 12) /\ Cardinality(1 .. 12) = 12
  <2>1. 1 \in Int /\ 12 \in Int /\ ~(1 > 12) /\ 12 - 1 + 1 = 12
    OBVIOUS
  <2> QED BY <2>1, FS_Interval, Zenon
<1>4. Cardinality((1 .. 12) \ {8}) = 11
  BY <1>3, FS_RemoveElement
<1> QED BY <1>2, <1>4 DEF count_alarm_test_cases

\* The counters once notifyd has seen every event.
LEMMA StatsAtEnd ==
  ASSUME StatsInv, NotifydIdle, test \in 17 .. 18
  PROVE  /\ Delta("accepted") = 9 /\ Delta("ignored") = 2 /\ Delta("invalid") = 4
         /\ Delta("received") = Delta("accepted") + Delta("ignored") + Delta("invalid")
         /\ Delta("failed") = 0
         /\ Delta("sent") = SIM_ACTIONS_PER_ACCEPTED_EVENT * Delta("accepted")
<1>1. /\ Sent("accepted", test, step) = 9 /\ Sent("ignored", test, step) = 2
      /\ Sent("invalid", test, step) = 4
  BY DEF Sent
<1>2. \A class \in {"accepted", "ignored", "invalid"} : Owed(class) = 0
  BY DEF Owed, Bit
<1>3. \A class \in {"accepted", "ignored", "invalid"} :
        Delta(class) = Sent(class, test, step)
  BY <1>1, <1>2 DEF StatsInv, Classes
<1> DEFINE n == SIM_ACTIONS_PER_ACCEPTED_EVENT * Delta("accepted")
<1>4. Delta("sent") = n + 0 /\ n = 27
  BY <1>1, <1>3 DEF StatsInv, Doing, SIM_ACTIONS_PER_ACCEPTED_EVENT
<1> QED BY <1>1, <1>3, <1>4 DEF StatsInv

\* Every check of the script finds what it looks for.
LEMMA ChecksPass ==
  ASSUME PlaceInv, CalmParts, Timely, NEW op \in Checks, Playing(op),
         Now.op = "stats" => NotifydIdle
  PROVE  Answers(Now.op, Now.of, Now.arg)
<1> DEFINE d == Now
<1>1. /\ test \in 1 .. total /\ step \in DOMAIN tests[test] /\ wait = 0
      /\ d = tests[test][step] /\ d.op = op
  BY Zenon DEF Playing, PlaceInv, Now
<1> HIDE DEF d
<1>2. d.op # "sleep"
  BY <1>1 DEF Checks
<1>3. NotifydIdle
  BY <1>1, <1>2, AwakeIsIdle, Zenon DEF CalmParts, d
<1>4. CASE op = "expect"
  <2>1. PICK j \in {step - 2, step - 3} :
          /\ Sends(test, j) /\ tests[test][j + 2].op = "expect"
          /\ d.arg = Outcome(d.of, tests[test][j].arg)
          /\ d.arg = 0 => Quiet(test, step, d.of)
    BY <1>1, <1>4, Expects, Zenon
  <2>2. d.of \in Reactions
    BY <1>1, <1>4, Expects, Zenon
  <2>3. ASSUME d.arg = 0
        PROVE  playing[d.of] = d.arg
    BY <1>1, <2>1, <2>2, <2>3, Zenon DEF CalmParts, QuietInv
  <2>4. ASSUME d.arg # 0
        PROVE  playing[d.of] = d.arg
    <3>1. Awaited(j) /\ j \in {step - 1, step - 2, step - 3}
      BY <2>1 DEF Awaited
    <3> QED BY <1>3, <2>1, <2>2, <2>4, <3>1, Zenon DEF CalmParts, SoundInv, Handled
  <2>5. playing[d.of] = d.arg
    BY <2>3, <2>4
  <2> QED BY <1>1, <1>4, <2>5 DEF Answers, d
<1>5. CASE op = "rejected"
  <2>1. alarm_reply(d.of, d.arg) = "error"
    BY <1>1, <1>5, Sleeps, Zenon DEF WellFormed
  <2> QED BY <1>1, <1>5, <2>1 DEF Answers, d
<1>6. CASE op = "responds"
  BY <1>1, <1>6 DEF Answers, d
<1>7. CASE op = "published"
  <2>1. /\ test \in 1 .. 12 /\ step = 10 /\ d.arg = IF test <= 5 THEN 1 ELSE 0
        /\ test \in 1 .. table_count
    BY <1>1, <1>7, CheckPlaces, Counts, Zenon
  <2>2. Class(test_cases[test].event) = "accepted" <=> test <= 5
    BY <2>1, CaseEvents
  <2>3. mqtt.published - mqtt_before.published = d.arg
    <3>1. CASE test <= 5
      <4>1. /\ queued + InHand + mqtt.published = mqtt_before.published + 1
            /\ ~PublisherIdle => spent + wait >= MQTT_ASYNC_SETTLE
        BY <1>3, <2>1, <2>2, <3>1 DEF CalmParts, TableInv, HasRecord, Recorded, Handled
      <4>2. PublisherIdle
        BY <1>1, <4>1, TimeAssumption DEF Timely, CalmParts, TypeInv, MQTT_ASYNC_SETTLE
      <4>3. queued = 0 /\ InHand = 0
        BY <4>2 DEF PublisherIdle, InHand
      <4>4. mqtt.published \in Nat /\ mqtt_before.published \in Nat
        BY DEF CalmParts, TypeInv
      <4> QED BY <2>1, <3>1, <4>1, <4>3, <4>4
    <3>2. CASE ~(test <= 5)
      <4>1. mqtt.published = mqtt_before.published
        BY <2>1, <2>2, <3>2 DEF CalmParts, TableInv, HasRecord, Clean
      <4>2. mqtt.published \in Nat
        BY DEF CalmParts, TypeInv
      <4> QED BY <2>1, <3>2, <4>1, <4>2
    <3> QED BY <3>1, <3>2
  <2> QED BY <1>1, <1>7, <2>3 DEF Answers, d
<1>8. CASE op = "outage"
  <2>1. test = BrokerTest /\ step = 11
    BY <1>1, <1>8, CheckPlaces, Zenon
  <2>2. spent + wait < MQTT_ASYNC_SETTLE /\ OutageTicks(11) = 0 /\ spent \in Nat
    BY <1>1, TimeAssumption DEF Timely, CalmParts, TypeInv, OutageTicks,
       MQTT_ASYNC_SETTLE
  <2>3. ~ToCome /\ step # 6
    BY <1>3, <2>1 DEF ToCome
  <2>4. step \in 5 .. 11 /\ step >= 6
    BY <2>1
  <2>5. ~(OutageLeft >= MQTT_ASYNC_SETTLE)
    BY <1>1, <2>1, <2>2 DEF MQTT_ASYNC_SETTLE, OutageLeft
  <2>6. ~(OutageLeft >= OutageSleeps)
    BY <1>1, <2>1, <2>2 DEF BROKER_SETTLE, TEST_SETTLE, MQTT_ASYNC_SETTLE, OutageLeft,
       OutageSleeps
  <2>7. ~mqtt.connected /\ mqtt.failed > mqtt_before.failed
    BY <2>1, <2>3, <2>4, <2>5, <2>6, Zenon DEF CalmParts, OutageInv, Outage, Noted
  <2> QED BY <1>1, <1>8, <2>7 DEF Answers, d
<1>9. CASE op = "recovery"
  <2>1. test = BrokerTest /\ step = 19
    BY <1>1, <1>9, CheckPlaces, Zenon
  <2>2. spent + wait < MQTT_ASYNC_SETTLE /\ RecoveryTicks(19) = 0 /\ spent \in Nat
    BY <1>1, TimeAssumption DEF Timely, CalmParts, TypeInv, RecoveryTicks,
       MQTT_ASYNC_SETTLE
  <2>3. ~ToCome /\ step # 17
    BY <1>3, <2>1 DEF ToCome
  <2>4. step \in 13 .. 19 /\ step >= 17
    BY <2>1
  <2>5. ~(RecoveryLeft >= MQTT_ASYNC_SETTLE)
    BY <1>1, <2>1, <2>2 DEF MQTT_ASYNC_SETTLE, RecoveryLeft
  <2>6. mqtt.connected /\ mqtt.published > mqtt_before.published
    BY <2>1, <2>3, <2>4, <2>5, Zenon DEF CalmParts, RecoveryInv, Recovery
  <2> QED BY <1>1, <1>9, <2>6 DEF Answers, d
<1>10. CASE op = "stats"
  <2>1. test = 17 /\ step = 4
    BY <1>1, <1>10, CheckPlaces, Counts, Zenon
  <2>2. /\ Delta("accepted") = 9 /\ Delta("ignored") = 2 /\ Delta("invalid") = 4
        /\ Delta("received") = Delta("accepted") + Delta("ignored") + Delta("invalid")
        /\ Delta("failed") = 0
        /\ Delta("sent") = SIM_ACTIONS_PER_ACCEPTED_EVENT * Delta("accepted")
    BY <1>3, <2>1, StatsAtEnd DEF CalmParts
  <2>3. run_stats_check
    BY <2>2, AlarmCases DEF run_stats_check, SIM_OVERLAP_ALARM_EVENT_COUNT,
       SIM_MQTT_BROKER_DOWN_EVENT_COUNT, SIM_ACTIONS_PER_ACCEPTED_EVENT
  <2> QED BY <1>1, <1>10, <2>3 DEF Answers, d
<1> QED BY <1>4, <1>5, <1>6, <1>7, <1>8, <1>9, <1>10, Zenon DEF Checks

-----------------------------------------------------------------------------
(***************************************************************************)
(* The steps of a run in which nothing goes wrong.  No test gives up, so   *)
(* the driver starts, moves along the script, or waits.                    *)
(***************************************************************************)
\* The start of the driver: it notes the counters.
Begins ==
  /\ test = 0 /\ test' = 1 /\ step' = step /\ stats_before' = stats
  /\ UNCHANGED <<wait, mqtt_before, notifyd, reactions, publisher, broker_up>>

\* On to the next step, or to the next test.
Moves == test \in 1 .. total /\ wait = 0 /\ Proceed

\* cancel_alarm on siren or LED.
Silences ==
  /\ Moves /\ Now.op \in {"cancel", "try_cancel"} /\ Now.of \in Reactions
  /\ Play(Now.of, 0) /\ Settle(Now.arg)
  /\ UNCHANGED <<mqtt_before, stats_before, notifyd, publisher, broker_up>>

\* cancel_alarm on the MQTT service: an active alarm leaves a record of its end.
Clears ==
  /\ Moves /\ Now.op \in {"cancel", "try_cancel"} /\ Now.of = "mqtt"
  /\ Settle(Now.arg)
  /\ queued' = queued + (IF has_active_alarm THEN 1 ELSE 0) /\ has_active_alarm' = FALSE
  /\ UNCHANGED <<mqtt_before, stats_before, notifyd, reactions, in_flight, spent, mqtt,
                 broker_up>>

\* The snapshot of the MQTT counters.
Looks ==
  /\ Moves /\ Now.op = "before" /\ mqtt_before' = mqtt
  /\ UNCHANGED <<wait, stats_before, notifyd, reactions, publisher, broker_up>>

\* An event.
Emits ==
  /\ Moves /\ Now.op = "send"
  /\ inbox' = IF Delivered(Now.arg) THEN Append(inbox, Now.arg) ELSE inbox
  /\ UNCHANGED <<wait, mqtt_before, stats_before, action, age, stats, reactions,
                 publisher, broker_up>>

\* A sleep.
Rests ==
  /\ Moves /\ Now.op = "sleep" /\ Settle(Now.arg)
  /\ UNCHANGED <<mqtt_before, stats_before, notifyd, reactions, publisher, broker_up>>

\* The broker stopped or started.
Switches ==
  /\ Moves /\ Now.op \in {"stop", "start"} /\ Settle(Now.arg)
  /\ broker_up' = (Now.op = "start")
  /\ in_flight' = IF in_flight = "none" THEN "none" ELSE "either"
  /\ UNCHANGED <<mqtt_before, stats_before, notifyd, reactions, has_active_alarm,
                 queued, spent, mqtt>>

\* A check that passes.
Checked ==
  /\ Moves /\ Now.op \in Checks
  /\ UNCHANGED <<wait, mqtt_before, stats_before, notifyd, reactions, publisher,
                 broker_up>>

\* An action of the registry, carried out wherever it knows the event.
Acts ==
  /\ action \in 1 .. 3 /\ action' = action + 1
  /\ LET s == alarm_actions[action]
         name == Head(inbox).name
     IN
       \/ /\ ~is_supported_event_type(name)
          /\ UNCHANGED <<stats, reactions, queued, has_active_alarm>>
       \/ /\ is_supported_event_type(name)
          /\ stats' = [stats EXCEPT !.sent = @ + 1]
          /\ \/ s \in Reactions /\ Play(s, config(s, name)[2])
                /\ UNCHANGED <<queued, has_active_alarm>>
             \/ s = "mqtt" /\ queued' = queued + (IF has_active_alarm THEN 2 ELSE 1)
                /\ has_active_alarm' = TRUE /\ UNCHANGED reactions
  /\ UNCHANGED <<driver, inbox, age, in_flight, spent, mqtt, broker_up, processes>>

\* With no service down, an action is what Acts says.
LEMMA ActActs ==
  ASSUME BoardInv, Act
  PROVE  Acts
<1>1. action \in 1 .. 3
  BY DEF Act, alarm_actions
<1> DEFINE s == alarm_actions[action]
<1>2. s \in {"siren", "led", "mqtt"} /\ s \in Services /\ (s = "mqtt" <=> s \notin Reactions)
  BY <1>1 DEF alarm_actions, Services, Reactions
<1>3. down[s] = 0
  BY <1>2 DEF BoardInv
<1> HIDE DEF s
<1>4. CASE is_supported_event_type(Head(inbox).name)
  <2>1. /\ stats' = [stats EXCEPT !["sent"] = @ + 1]
        /\ IF s \in Reactions THEN Play(s, config(s, Head(inbox).name)[2])
                              ELSE UNCHANGED reactions
        /\ IF s = "mqtt" THEN /\ queued' = queued + IF has_active_alarm THEN 2 ELSE 1
                              /\ has_active_alarm' = TRUE
                         ELSE UNCHANGED <<queued, has_active_alarm>>
    BY <1>3, <1>4, Zenon DEF Act, s
  <2> QED BY <1>1, <1>2, <1>4, <2>1, Zenon DEF Act, Acts, broker, s
<1>5. CASE ~is_supported_event_type(Head(inbox).name)
  BY <1>1, <1>5, Zenon DEF Act, Acts, broker, s
<1> QED BY <1>4, <1>5

\* What the driver does when every service can be reached and every check
\* passes.
LEMMA CalmDriver ==
  ASSUME PlaceInv, CalmParts, Timely, Calm, Calm', SimStep
  PROVE  /\ \/ Begins \/ Silences \/ Clears \/ Looks \/ Emits \/ Rests \/ Switches
            \/ Checked
         /\ UNCHANGED <<failed_tests, processes>>
<1>1. stale = {} /\ \A s \in Services : down[s] = 0
  BY Zenon DEF CalmParts, BoardInv
<1>0. ~Fault
  BY DEF Fault, Calm
<1> USE DEF broker
<1>2. CASE SimStart
  <2>1. \A s \in Services : ~(down[s] > 0)
    BY <1>1
  <2> QED BY <1>2, <2>1, Zenon DEF SimStart, Begins
<1>3. CASE SimCancel
  <2>1. test \in 1 .. total /\ wait = 0 /\ Now.op \in {"cancel", "try_cancel"}
    BY <1>3, Zenon DEF SimCancel, Playing
  <2>2. Now.of \in {"siren", "led", "mqtt"}
    BY <2>1, Sleeps, Zenon DEF WellFormed, PlaceInv, Now
  <2>3. Reachable(Now.of)
    BY <1>1, Zenon DEF Reachable
  <2>4. Now.of # "mqtt" => Now.of \in Reactions
    BY <2>2 DEF Reactions
  <2> QED BY <1>3, <2>1, <2>3, <2>4, Zenon DEF SimCancel, Silences, Clears, Moves, Proceed,
        publisher
<1>4. CASE SimBefore
  <2>1. Reachable("mqtt")
    BY <1>1, Zenon DEF Reachable
  <2> QED BY <1>4, <2>1, Zenon DEF SimBefore, Looks, Moves, Proceed, Playing, publisher
<1>5. CASE SimSend
  <2>1. down["notify"] = 0
    BY <1>1 DEF Services
  <2> QED BY <1>0, <1>5, <2>1, Zenon DEF SimSend, publisher, Emits, Moves, Proceed, Playing, Delivered
<1>6. CASE SimSleep
  BY <1>6, Zenon DEF SimSleep, Rests, Moves, Proceed, Playing
<1>7. CASE SimBroker
  <2>1. PICK ok \in BOOLEAN : Systemctl(Now.op = "start", ok) /\ ok /\ Proceed /\ Settle(Now.arg)
    BY <1>0, <1>7, Zenon DEF SimBroker
  <2>2. /\ broker_up' = (Now.op = "start")
        /\ in_flight' = IF in_flight = "none" THEN "none" ELSE "either"
    BY <2>1, Zenon DEF Systemctl
  <2> QED BY <1>7, <2>1, <2>2, Zenon DEF SimBroker, Switches, Moves, Proceed, Playing
<1>8. CASE SimCheck
  <2>1. PICK op \in Checks : Playing(op)
    BY <1>8, Zenon DEF SimCheck
  <2>2. Reachable(Now.of) /\ Answers(Now.op, Now.of, Now.arg)
    BY <1>1, <1>8, <2>1, ChecksPass, Zenon DEF SimCheck, Reachable
  <2> QED BY <1>8, <2>1, <2>2, Zenon DEF SimCheck, Checked, Moves, Proceed, Playing, publisher
<1> QED BY <1>2, <1>3, <1>4, <1>5, <1>6, <1>7, <1>8, Zenon DEF SimStep

\* The places a move leads to.
LEMMA MovesTo ==
  ASSUME PlaceInv, Moves
  PROVE  \/ step < Len(tests[test]) /\ test' = test /\ step' = step + 1
         \/ step = Len(tests[test]) /\ test' = test + 1 /\ step' = 1
BY ProceedMoves, Zenon DEF Moves

\* Time passes only while the driver sleeps.
LEMMA TickWaits ==
  ASSUME PlaceInv, TypeInv, ServeInv, Timely, Tick
  PROVE  wait \in Nat \ {0}
<1>1. CASE wait = 0
  <2>1. ~NotifydIdle /\ Now.op = "stats"
    BY <1>1 DEF Tick
  <2>2. Now.op = "sleep"
    BY <1>1, <2>1, AwakeIsIdle
  <2> QED BY <2>1, <2>2
<1> QED BY <1>1 DEF TypeInv

\* The steps of such a run.
DriverMoves ==
  /\ \/ Begins \/ Silences \/ Clears \/ Looks \/ Emits \/ Rests \/ Switches \/ Checked
  /\ UNCHANGED <<failed_tests, processes>>

CalmStep ==
  \/ DriverMoves \/ Validate \/ Acts \/ Classify \/ Take \/ Account \/ Tick
  \/ UNCHANGED vars

\* There are no others.
LEMMA CalmSteps ==
  ASSUME PlaceInv, CalmParts, Timely, Calm, Calm', [Next]_vars
  PROVE  CalmStep
<1>1. ASSUME NEW s \in Services
      PROVE  ~Die(s)
  <2>1. ~Fault
    BY DEF Fault, Calm
  <2> QED BY <2>1, Zenon DEF Die
<1>2. CASE SimStep
  BY <1>2, CalmDriver, Zenon DEF CalmStep, DriverMoves
<1>3. CASE ServiceStep
  BY <1>3, ActActs, Zenon DEF CalmStep, ServiceStep, CalmParts
<1>4. CASE Tick \/ UNCHANGED vars
  BY <1>4, Zenon DEF CalmStep
<1> QED BY <1>1, <1>2, <1>3, <1>4, Zenon DEF Next

-----------------------------------------------------------------------------
(***************************************************************************)
(* Types, and the board.                                                   *)
(***************************************************************************)
\* What a supported event leaves playing is a pattern.
LEMMA ConfigIsPattern ==
  ASSUME NEW name, is_supported_event_type(name), NEW s \in Reactions
  PROVE  config(s, name)[2] \in Nat \ {0}
<1>1. PICK t \in supported : name = <<"alarm", t>>
  BY DEF is_supported_event_type
<1>2. event_name_suffix(name) = t
  BY <1>1 DEF event_name_suffix
<1>3. siren_config[t] \in Nat \ {0} /\ led_config[t] \in Nat \ {0}
  BY DEF siren_config, led_config, supported
<1>4. config(s, name)[2] = IF s = "siren" THEN siren_config[t] ELSE led_config[t]
  BY <1>2 DEF config, Reactions
<1> QED BY <1>3, <1>4

\* The argument of a move that waits is a number of ticks.
LEMMA WaitIsTicks ==
  ASSUME PlaceInv, test \in 1 .. total,
         Now.op \in {"cancel", "try_cancel", "sleep", "stop", "start"}
  PROVE  Now.arg \in Nat
BY Sleeps, Zenon DEF WellFormed, PlaceInv, Now

\* Counting keeps the counters numbers.
LEMMA CountsUp ==
  ASSUME NEW f \in {"received", "accepted", "ignored", "invalid", "sent", "failed"},
         NEW c \in Stats
  PROVE  /\ [c EXCEPT ![f] = @ + 1] \in Stats
         /\ \A class \in {"accepted", "ignored", "invalid"} :
              [c EXCEPT !.received = @ + 1, ![class] = @ + 1] \in Stats
<1> DEFINE F == {"received", "accepted", "ignored", "invalid", "sent", "failed"}
<1>1. Stats = [F -> Nat]
  BY DEF Stats
<1> HIDE DEF F
<1>2. \A g \in F : c[g] + 1 \in Nat
  BY <1>1
<1>3. "received" \in F /\ {"accepted", "ignored", "invalid"} \subseteq F /\ f \in F
  BY DEF F
<1>4. [c EXCEPT ![f] = @ + 1] \in [F -> Nat]
  BY <1>1, <1>2, <1>3
<1>5. \A class \in F \ {"received"} :
        [c EXCEPT !["received"] = @ + 1, ![class] = @ + 1] \in [F -> Nat]
  BY <1>1, <1>2, <1>3
<1> QED BY <1>1, <1>3, <1>4, <1>5

\* Every step keeps the types.
LEMMA TypeStep ==
  ASSUME PlaceInv, CalmParts, CalmStep
  PROVE  TypeInv'
<1> USE TimeAssumption DEF TypeInv
<1>0. TypeInv /\ (NotifydIdle => action = 0)
  BY Zenon DEF CalmParts, ServeInv
<1>1. CASE Begins
  BY <1>0, <1>1 DEF Begins, notifyd, reactions, publisher
<1>2. CASE Silences
  <2>1. wait' \in Nat
    BY <1>2, WaitIsTicks DEF Silences, Moves, Settle
  <2> QED BY <1>0, <1>2, <2>1 DEF Silences, Play, notifyd, publisher, DURATION
<1>3. CASE Clears
  <2>1. wait' \in Nat
    BY <1>3, WaitIsTicks DEF Clears, Moves, Settle
  <2>2. queued' \in Nat
    <3>1. (IF has_active_alarm THEN 1 ELSE 0) \in Nat
      OBVIOUS
    <3>2. queued' = queued + (IF has_active_alarm THEN 1 ELSE 0)
      BY <1>3, Zenon DEF Clears
    <3> QED BY <1>0, <3>1, <3>2
  <2>3. has_active_alarm' \in BOOLEAN
    BY <1>3 DEF Clears
  <2>4. UNCHANGED <<mqtt_before, stats_before, notifyd, reactions, in_flight, spent, mqtt>>
    BY <1>3, Zenon DEF Clears
  <2> QED BY <1>0, <2>1, <2>2, <2>3, <2>4 DEF notifyd, reactions
<1>4. CASE Looks
  BY <1>0, <1>4 DEF Looks, notifyd, reactions, publisher
<1>5. CASE Emits
  BY <1>0, <1>5 DEF Emits, reactions, publisher
<1>6. CASE Rests
  <2>1. wait' \in Nat
    BY <1>6, WaitIsTicks DEF Rests, Moves, Settle
  <2> QED BY <1>0, <1>6, <2>1 DEF Rests, notifyd, reactions, publisher
<1>7. CASE Switches
  <2>1. wait' \in Nat
    BY <1>7, WaitIsTicks DEF Switches, Moves, Settle
  <2> QED BY <1>0, <1>7, <2>1 DEF Switches, notifyd, reactions
<1>8. CASE Checked
  BY <1>0, <1>8 DEF Checked, notifyd, reactions, publisher
<1>9. CASE Validate
  <2>1. /\ UNCHANGED <<driver, reactions, publisher>>
        /\ \/ action' = 1 /\ UNCHANGED <<age, stats>>
           \/ /\ stats' = [stats EXCEPT !.received = @ + 1, !.invalid = @ + 1]
              /\ age' = 0 /\ UNCHANGED action
    BY <1>9, Zenon DEF Validate
  <2>2. stats' \in Stats
    BY <1>0, <2>1, CountsUp
  <2> QED BY <1>0, <2>1, <2>2 DEF driver, reactions, publisher
<1>10. CASE Acts
  <2>1. \/ UNCHANGED stats
        \/ stats' = [stats EXCEPT !.sent = @ + 1]
    BY <1>10, Zenon DEF Acts
  <2>2. stats' \in Stats
    BY <1>0, <2>1, CountsUp
  <2>3. \/ UNCHANGED reactions
        \/ \E s \in Reactions, p \in Nat : Play(s, p)
    BY <1>10, ConfigIsPattern DEF Acts
  <2>4. playing' \in [Reactions -> Nat] /\ left' \in [Reactions -> Nat]
    BY <1>0, <2>3 DEF reactions, Play, DURATION
  <2>5. queued' \in Nat /\ has_active_alarm' \in BOOLEAN
    <3> DEFINE n == IF has_active_alarm THEN 2 ELSE 1
    <3>1. \/ UNCHANGED <<queued, has_active_alarm>>
          \/ queued' = queued + n /\ has_active_alarm' = TRUE
      BY <1>10, Zenon DEF Acts
    <3>2. n \in Nat
      OBVIOUS
    <3> HIDE DEF n
    <3>3. queued' \in Nat
      BY <1>0, <3>1, <3>2
    <3>4. has_active_alarm' \in BOOLEAN
      BY <1>0, <3>1, Zenon
    <3> QED BY <3>3, <3>4
  <2>6. action' \in 0 .. 4
    BY <1>10 DEF Acts
  <2>7. UNCHANGED <<driver, inbox, age, in_flight, spent, mqtt>>
    BY <1>10, Zenon DEF Acts
  <2> QED BY <1>0, <2>2, <2>4, <2>5, <2>6, <2>7, Zenon DEF driver
<1>11. CASE Classify
  <2>1. PICK class \in {"accepted", "ignored"} :
          stats' = [stats EXCEPT !.received = @ + 1, ![class] = @ + 1]
    BY <1>11, Zenon DEF Classify
  <2>2. stats' \in Stats
    <3>1. class \in {"accepted", "ignored", "invalid"} /\ stats \in Stats
      BY <1>0
    <3> QED BY <2>1, <3>1, CountsUp, Zenon
  <2> QED BY <1>0, <1>11, <2>2 DEF Classify, driver, reactions, publisher
<1>12. CASE Take
  BY <1>0, <1>12 DEF Take, driver, notifyd, reactions
<1>13. CASE Account
  BY <1>0, <1>13 DEF Account, driver, notifyd, reactions
<1>14. CASE Tick
  BY <1>0, <1>14 DEF Tick
<1>15. CASE UNCHANGED vars
  BY <1>0, <1>15 DEF vars, driver, notifyd, reactions, publisher
<1> QED BY <1>1, <1>2, <1>3, <1>4, <1>5, <1>6, <1>7, <1>8, <1>9, <1>10, <1>11, <1>12,
        <1>13, <1>14, <1>15, Zenon DEF CalmStep, DriverMoves

\* No step of such a run fails a test.
LEMMA BoardStep ==
  ASSUME BoardInv, CalmStep
  PROVE  BoardInv'
<1>1. CASE UNCHANGED <<failed_tests, processes>>
  BY <1>1, Zenon DEF BoardInv, processes
<1>2. CASE Tick
  <2>1. /\ UNCHANGED <<failed_tests, stale>>
        /\ down' = [s \in Services |-> IF down[s] > 0 THEN down[s] - 1 ELSE 0]
    BY <1>2, Zenon DEF Tick
  <2>2. \A s \in Services : down'[s] = 0
    BY <2>1 DEF BoardInv
  <2> QED BY <2>1, <2>2, Zenon DEF BoardInv
<1>3. CASE CalmStep /\ ~Tick
  <2>1. UNCHANGED <<failed_tests, processes>>
    BY <1>3, Zenon DEF CalmStep, DriverMoves, Validate, Acts, Classify, Take, Account,
       vars, driver, processes
  <2> QED BY <1>1, <2>1
<1> QED BY <1>2, <1>3

-----------------------------------------------------------------------------
(***************************************************************************)
(* notifyd serves an event while the driver sleeps.                        *)
(***************************************************************************)
\* The event in service was sent one or two steps ago.
LEMMA Serving ==
  ASSUME PlaceInv, ServeInv, ~NotifydIdle
  PROVE  \E j \in {step - 1, step - 2} :
           LET e == tests[test][j].arg IN
           /\ Sends(test, j) /\ j \in Nat \ {0} /\ SleepsAfter(test, j)
           /\ inbox = <<e>> /\ Head(inbox) = e /\ Tail(inbox) = <<>> /\ Delivered(e)
           /\ action > 0 => Class(e) # "invalid"
           /\ step = j + 1 => wait = 0 /\ age = 0
           /\ step = j + 2 => wait + age >= tests[test][j + 1].arg
<1>1. PICK j \in {step - 1, step - 2} :
        LET e == tests[test][j].arg IN
        /\ Sends(test, j)
        /\ inbox = <<e>> /\ Delivered(e)
        /\ action > 0 => Class(e) # "invalid"
        /\ step = j + 1 => wait = 0 /\ age = 0
        /\ step = j + 2 => wait + age >= tests[test][j + 1].arg
  BY Zenon DEF ServeInv
<1>2. j \in Nat \ {0} /\ SleepsAfter(test, j)
  BY <1>1, Sleeps, Script DEF Sends
<1>3. Head(inbox) = tests[test][j].arg /\ Tail(inbox) = <<>>
  BY <1>1
<1> QED BY <1>1, <1>2, <1>3, Zenon

\* The driver comes to the event in service only by the sleep after it.
LEMMA MovesOn ==
  ASSUME PlaceInv, TypeInv, ServeInv, Timely, Moves, ~NotifydIdle
  PROVE  LET j == step - 1
             e == tests[test][j].arg
         IN
         /\ Sends(test, j) /\ j \in Nat \ {0} /\ SleepsAfter(test, j)
         /\ Now = tests[test][j + 1] /\ Now.op = "sleep" /\ age = 0
         /\ inbox = <<e>> /\ Head(inbox) = e /\ Delivered(e)
         /\ action > 0 => Class(e) # "invalid"
         /\ test' = test /\ step' = step + 1 /\ step' = j + 2
<1>1. wait = 0 /\ test \in 1 .. total
  BY DEF Moves
<1>2. Now.op = "sleep" /\ age = 0
  BY <1>1, AwakeIsIdle
<1>3. PICK j \in {step - 1, step - 2} :
        LET e == tests[test][j].arg IN
        /\ Sends(test, j) /\ j \in Nat \ {0} /\ SleepsAfter(test, j)
        /\ inbox = <<e>> /\ Head(inbox) = e /\ Delivered(e)
        /\ action > 0 => Class(e) # "invalid"
        /\ step = j + 2 => wait + age >= tests[test][j + 1].arg
  BY Serving, Zenon
<1>4. j = step - 1 /\ step = j + 1
  BY <1>1, <1>2, <1>3 DEF PlaceInv, TEST_OVERLAP_GAP, SleepsAfter
<1>5. step + 1 \in DOMAIN tests[test] /\ DOMAIN tests[test] = 1 .. Len(tests[test])
      /\ Len(tests[test]) \in Nat
  BY <1>1, <1>3, <1>4, Script DEF SleepsAfter
<1>6. test' = test /\ step' = step + 1
  BY <1>5, MovesTo
<1>7. step' = j + 2 /\ Now = tests[test][j + 1]
  BY <1>3, <1>4, <1>6 DEF Now
<1> QED BY <1>2, <1>3, <1>4, <1>6, <1>7, Zenon

\* notifyd is through with an event before the driver is through with its sleep:
\* the sleep is at least the gap between two events, and serving takes less.
LEMMA ServeStep ==
  ASSUME PlaceInv, TypeInv, ServeInv, Timely, CalmStep
  PROVE  ServeInv'
<1> DEFINE Serves(t, k, j, e) ==
             /\ j \in {k - 1, k - 2} /\ Sends(t, j) /\ tests[t][j].arg = e
<1>1. CASE DriverMoves
  <2>1. CASE NotifydIdle /\ UNCHANGED notifyd
    BY <2>1, Zenon DEF ServeInv, NotifydIdle, notifyd
  <2>2. CASE Emits /\ NotifydIdle
    <3>1. Moves /\ Now.op = "send" /\ wait' = 0 /\ age' = 0 /\ action' = 0
      BY <2>2, Zenon DEF Emits, Moves, ServeInv
    <3>2. Sends(test, step) /\ Now = tests[test][step]
      BY <3>1, Zenon DEF Moves, Sends, PlaceInv, Now
    <3>3. test' = test /\ step' = step + 1
      <4>1. step + 1 \in DOMAIN tests[test]
        BY <3>1, <3>2, Sleeps DEF Sends, SleepsAfter
      <4>2. DOMAIN tests[test] = 1 .. Len(tests[test]) /\ Len(tests[test]) \in Nat
        BY <3>1, Script DEF Moves
      <4> QED BY <3>1, <4>1, <4>2, MovesTo
    <3>4. step \in {step' - 1, step' - 2} /\ step' # step + 2 /\ step' = step + 1
      BY <3>3 DEF PlaceInv
    <3>5. CASE Delivered(Now.arg)
      <4>1. inbox' = <<Now.arg>>
        BY <2>2, <3>5 DEF Emits, NotifydIdle
      <4>2. (~NotifydIdle)'
        BY <4>1 DEF NotifydIdle
      <4>3. ~(action' > 0)
        BY <3>1
      <4> QED BY <3>1, <3>2, <3>3, <3>4, <3>5, <4>1, <4>2, <4>3, Zenon DEF ServeInv
    <3>6. CASE ~Delivered(Now.arg)
      BY <2>2, <3>1, <3>6, Zenon DEF Emits, NotifydIdle, ServeInv
    <3> QED BY <3>5, <3>6
  <2>3. CASE ~NotifydIdle /\ Begins
    BY <2>3, Serving, Counts DEF Begins, Sends
  <2>4. CASE ~NotifydIdle /\ Moves
    <3>1. LET j == step - 1
              e == tests[test][j].arg
          IN
          /\ Sends(test, j) /\ j \in Nat \ {0} /\ SleepsAfter(test, j)
          /\ Now = tests[test][j + 1] /\ Now.op = "sleep" /\ age = 0
          /\ inbox = <<e>> /\ Head(inbox) = e /\ Delivered(e)
          /\ action > 0 => Class(e) # "invalid"
          /\ test' = test /\ step' = step + 1 /\ step' = j + 2
      BY <2>4, MovesOn, Zenon
    <3> DEFINE j == step - 1
               e == tests[test][j].arg
    <3>2. Rests
      BY <1>1, <2>4, <3>1 DEF DriverMoves, Begins, Silences, Clears, Looks, Emits, Switches,
         Checked, Checks, Moves
    <3>3. wait' + age' >= tests[test'][j + 1].arg
      <4> DEFINE n == Now.arg
      <4>1. n \in Nat /\ n = tests[test'][j + 1].arg
        BY <2>4, <3>1, WaitIsTicks DEF Moves
      <4>2. wait' \in n .. n + MaxLag
        BY <3>2, Zenon DEF Rests, Settle
      <4>3. age' = 0
        BY <3>1, <3>2, Zenon DEF Rests, notifyd
      <4> HIDE DEF n
      <4>4. wait' \in Nat /\ wait' >= n
        BY <4>1, <4>2, TimeAssumption
      <4> QED BY <4>1, <4>3, <4>4
    <3>4. UNCHANGED <<inbox, action, age>> /\ (~NotifydIdle)'
      BY <2>4, <3>2, Zenon DEF Rests, notifyd, NotifydIdle
    <3>5. j \in {step' - 1, step' - 2} /\ step' # j + 1
      BY <3>1
    <3> HIDE DEF j
    <3>6. Sends(test', j) /\ tests[test'][j].arg = e
      BY <3>1, Zenon DEF j
    <3> QED BY <3>1, <3>3, <3>4, <3>5, <3>6, Zenon DEF ServeInv, j
  <2> QED BY <1>1, <2>1, <2>2, <2>3, <2>4, Zenon DEF DriverMoves, Begins, Silences, Clears,
        Looks, Emits, Rests, Switches, Checked
<1> DEFINE J == {step - 1, step - 2}
<1>2. CASE UNCHANGED <<test, step>> /\ (NotifydIdle' => action' = 0 /\ age' = 0)
           /\ (NotifydIdle'
               \/ /\ ~NotifydIdle /\ UNCHANGED inbox
                  /\ action' > 0 => (action > 0 \/ Class(Head(inbox)) # "invalid")
                  /\ \/ UNCHANGED <<wait, age>>
                     \/ (wait \in Nat \ {0} /\ wait' + age' = wait + age))
  <2>1. CASE NotifydIdle'
    BY <1>2, <2>1, Zenon DEF ServeInv
  <2>2. CASE ~NotifydIdle'
    <3>1. PICK j \in J :
            LET e == tests[test][j].arg IN
            /\ Sends(test, j) /\ j \in Nat \ {0} /\ SleepsAfter(test, j)
            /\ inbox = <<e>> /\ Head(inbox) = e /\ Tail(inbox) = <<>> /\ Delivered(e)
            /\ action > 0 => Class(e) # "invalid"
            /\ step = j + 1 => wait = 0 /\ age = 0
            /\ step = j + 2 => wait + age >= tests[test][j + 1].arg
      BY <1>2, <2>2, Serving, Zenon
    <3> DEFINE e == tests[test][j].arg
    <3>2. action' > 0 => Class(e) # "invalid"
      BY <1>2, <2>2, <3>1, Zenon
    <3>3. /\ step = j + 1 => wait' = 0 /\ age' = 0
          /\ step = j + 2 => wait' + age' >= tests[test][j + 1].arg
      BY <1>2, <2>2, <3>1
    <3>4. step' = step /\ test' = test /\ inbox' = inbox
      BY <1>2, <2>2
    <3> HIDE DEF e
    <3>5. /\ j \in {step' - 1, step' - 2} /\ Sends(test', j)
          /\ inbox' = <<tests[test'][j].arg>> /\ Delivered(tests[test'][j].arg)
          /\ action' > 0 => Class(tests[test'][j].arg) # "invalid"
          /\ step' = j + 1 => wait' = 0 /\ age' = 0
          /\ step' = j + 2 => wait' + age' >= tests[test'][j + 1].arg
      BY <3>1, <3>2, <3>3, <3>4, Zenon DEF e
    <3> QED BY <1>2, <3>5, Zenon DEF ServeInv
  <2> QED BY <2>1, <2>2
<1>3. CASE Validate
  <2>1. ~NotifydIdle /\ UNCHANGED <<test, step, wait>> /\ action = 0
    BY <1>3, Zenon DEF Validate, NotifydIdle, driver
  <2>2. Tail(inbox) = <<>>
    BY <2>1, Serving
  <2>3. \/ /\ event_validation_check(Head(inbox).name, Head(inbox).msg) = "ok"
           /\ action' = 1 /\ UNCHANGED <<inbox, age>>
        \/ inbox' = <<>> /\ age' = 0 /\ action' = 0
    BY <1>3, <2>1, <2>2, Zenon DEF Validate
  <2>4. event_validation_check(Head(inbox).name, Head(inbox).msg) = "ok"
          => Class(Head(inbox)) # "invalid"
    BY DEF Class
  <2>5. CASE inbox' = <<>> /\ age' = 0 /\ action' = 0
    BY <1>2, <2>1, <2>5, Zenon DEF NotifydIdle
  <2>6. CASE inbox' # <<>>
    <3>1. UNCHANGED <<wait, inbox, age>> /\ Class(Head(inbox)) # "invalid"
      BY <2>1, <2>3, <2>4, <2>6, Zenon
    <3>2. ~NotifydIdle'
      BY <2>6, Zenon DEF NotifydIdle
    <3> QED BY <1>2, <2>1, <3>1, <3>2, Zenon
  <2> QED BY <2>1, <2>3, <2>5, <2>6, Zenon DEF NotifydIdle
<1>4. CASE Acts
  <2>1. UNCHANGED <<test, step, wait, inbox, age>> /\ action \in 1 .. 3
    BY <1>4, Zenon DEF Acts, driver
  <2>2. ~NotifydIdle /\ action > 0
    BY <2>1 DEF ServeInv
  <2>3. ~NotifydIdle'
    BY <2>1, <2>2, Zenon DEF NotifydIdle
  <2> QED BY <1>2, <2>1, <2>2, <2>3, Zenon
<1>5. CASE Classify
  <2>1. UNCHANGED <<test, step, wait>> /\ inbox' = Tail(inbox) /\ action' = 0 /\ age' = 0
        /\ action > Len(alarm_actions)
    BY <1>5, Zenon DEF Classify, driver
  <2>2. ~NotifydIdle
    BY <2>1 DEF ServeInv, alarm_actions
  <2>3. NotifydIdle'
    BY <2>1, <2>2, Serving DEF NotifydIdle
  <2> QED BY <1>2, <2>1, <2>3, Zenon
<1>6. CASE Tick
  <2>1. UNCHANGED <<test, step, inbox, action>> /\ age' = (IF NotifydIdle THEN 0 ELSE age + 1)
        /\ wait' = IF wait > 0 THEN wait - 1 ELSE 0
    BY <1>6, Zenon DEF Tick
  <2>2. wait \in Nat \ {0} /\ age \in Nat
    BY <1>6, TickWaits, TimeAssumption DEF TypeInv
  <2>3. wait' = wait - 1
    BY <2>1, <2>2
  <2>4. CASE NotifydIdle
    BY <2>1, <2>4, Zenon DEF ServeInv, NotifydIdle
  <2>5. CASE ~NotifydIdle
    <3>1. wait' + age' = wait + age
      BY <2>1, <2>2, <2>3, <2>5
    <3> QED BY <1>2, <2>1, <2>2, <2>5, <3>1, Zenon DEF NotifydIdle
  <2> QED BY <2>4, <2>5
<1>7. CASE UNCHANGED <<test, step, wait, notifyd>>
  BY <1>7, Zenon DEF ServeInv, NotifydIdle, notifyd
<1> QED BY <1>1, <1>3, <1>4, <1>5, <1>6, <1>7, Zenon DEF CalmStep, Take, Account, vars, driver

-----------------------------------------------------------------------------
(***************************************************************************)
(* Siren and LED.                                                          *)
(***************************************************************************)
\* Only a supported event leaves a pattern playing, and it is delivered.
LEMMA Accepted ==
  ASSUME NEW s, NEW e, Outcome(s, e) # 0
  PROVE  /\ Class(e) = "accepted" /\ Delivered(e) /\ is_supported_event_type(e.name)
         /\ Outcome(s, e) = config(s, e.name)[2]
<1>1. Class(e) = "accepted" /\ Outcome(s, e) = config(s, e.name)[2]
  BY DEF Outcome
<1>2. is_supported_event_type(e.name)
  BY <1>1 DEF Class
<1>3. Delivered(e)
  BY <1>2 DEF is_supported_event_type, Delivered
<1> QED BY <1>1, <1>2, <1>3

\* There is a sleep and a check between two events.
LEMMA SendsApart ==
  ASSUME NEW t, NEW j \in Int, NEW k \in Int, Sends(t, j), Sends(t, k)
  PROVE  k \notin {j + 1, j + 2}
<1>1. SleepsAfter(t, j)
  BY Sleeps DEF Sends
<1> QED BY <1>1 DEF SleepsAfter, Sends

\* So the last event sent is the one in service.
LEMMA InService ==
  ASSUME PlaceInv, ServeInv, ~NotifydIdle, NEW j \in {step - 1, step - 2, step - 3},
         Sends(test, j)
  PROVE  /\ Head(inbox) = tests[test][j].arg /\ Tail(inbox) = <<>>
         /\ step = j + 1 \/ step = j + 2
         /\ action > 0 => Class(Head(inbox)) # "invalid"
<1>1. PICK i \in {step - 1, step - 2} :
        LET e == tests[test][i].arg IN
        /\ Sends(test, i) /\ i \in Nat \ {0} /\ SleepsAfter(test, i)
        /\ inbox = <<e>> /\ Head(inbox) = e /\ Tail(inbox) = <<>>
        /\ action > 0 => Class(e) # "invalid"
  BY Serving, Zenon
<1>2. step \in Int /\ i \in Int /\ j \in Int
  BY DEF PlaceInv
<1>3. j \notin {i + 1, i + 2} /\ i \notin {j + 1, j + 2}
  BY <1>1, <1>2, SendsApart
<1>4. i = j
  BY <1>2, <1>3
<1>5. step = j + 1 \/ step = j + 2
  BY <1>2, <1>4
<1> QED BY <1>1, <1>4, <1>5, Zenon

\* An event sent after the service was silenced leaves nothing playing.
LEMMA QuietEvent ==
  ASSUME PlaceInv, ServeInv, ~NotifydIdle, action > 0, NEW s, Quiet(test, step, s)
  PROVE  ~is_supported_event_type(Head(inbox).name) \/ config(s, Head(inbox).name)[2] = 0
<1>1. PICK j \in {step - 1, step - 2} :
        /\ Sends(test, j) /\ j \in Nat \ {0} /\ SleepsAfter(test, j)
        /\ Head(inbox) = tests[test][j].arg
        /\ Class(Head(inbox)) # "invalid"
  BY Serving, Zenon
<1>2. PICK i \in 1 .. step - 1 :
        /\ tests[test][i].op = "cancel"
        /\ \A k \in i .. step - 1 :
             tests[test][k].op = "send" => Outcome(s, tests[test][k].arg) = 0
  BY Zenon DEF Quiet
<1>3. i # j + 1
  BY <1>1, <1>2 DEF SleepsAfter
<1>4. j \in i .. step - 1
  BY <1>1, <1>3 DEF PlaceInv
<1>5. Outcome(s, Head(inbox)) = 0
  BY <1>1, <1>2, <1>4 DEF Sends
<1>6. is_supported_event_type(Head(inbox).name) => Class(Head(inbox)) = "accepted"
  BY <1>1 DEF Class
<1> QED BY <1>5, <1>6 DEF Outcome

\* What a step of the driver does to the reactions.
LEMMA DriverReactions ==
  ASSUME DriverMoves
  PROVE  /\ UNCHANGED reactions \/ (Silences /\ Play(Now.of, 0))
         /\ Begins \/ Moves
BY Zenon DEF DriverMoves, Begins, Silences, Clears, Looks, Emits, Rests, Switches, Checked

\* A service that was silenced stays silent until an event sounds it again.
LEMMA QuietStep ==
  ASSUME PlaceInv, CalmParts, Timely, CalmStep
  PROVE  QuietInv'
<1>0. /\ TypeInv /\ ServeInv /\ QuietInv
      /\ playing \in [Reactions -> Nat]
  BY Zenon DEF CalmParts, TypeInv
<1>1. ASSUME DriverMoves, Moves, test' \in 1 .. total, NEW s \in Reactions,
             Quiet(test', step', s)
      PROVE  playing'[s] = 0
  <2>1. PICK i \in 1 .. step' - 1 :
          /\ tests[test'][i].op = "cancel" /\ tests[test'][i].of = s
          /\ \A j \in i .. step' - 1 :
               tests[test'][j].op = "send" => Outcome(s, tests[test'][j].arg) = 0
    BY <1>1, Zenon DEF Quiet
  <2>2. test' = test /\ step' = step + 1 /\ step \in Nat
    BY <1>1, <2>1, MovesTo DEF PlaceInv
  <2>3. UNCHANGED reactions \/ (Silences /\ Play(Now.of, 0))
    BY <1>1, DriverReactions
  <2>4. CASE i = step
    <3>1. Now.op = "cancel" /\ Now.of = s /\ s # "mqtt"
      BY <2>1, <2>2, <2>4 DEF Now, Reactions
    <3>2. Silences
      BY <1>1, <3>1 DEF DriverMoves, Begins, Clears, Looks, Emits, Rests, Switches, Checked,
         Checks, Moves
    <3> QED BY <1>0, <1>1, <3>1, <3>2 DEF Silences, Play
  <2>5. CASE i # step
    <3>1. i \in 1 .. step - 1 /\ \A j \in i .. step - 1 : j \in i .. step' - 1
      BY <2>2, <2>5
    <3>2. Quiet(test, step, s)
      BY <2>1, <2>2, <3>1, Zenon DEF Quiet
    <3>3. playing[s] = 0
      BY <1>0, <1>1, <2>2, <3>2, Zenon DEF QuietInv
    <3> QED BY <1>0, <1>1, <2>3, <3>3 DEF reactions, Play
  <2> QED BY <2>4, <2>5
<1>2. CASE DriverMoves
  <2>1. CASE Begins
    <3>1. 1 .. step' - 1 = {}
      BY <2>1 DEF Begins, PlaceInv
    <3>2. \A s : ~Quiet(test', step', s)
      BY <3>1, Zenon DEF Quiet
    <3> QED BY <3>2, Zenon DEF QuietInv
  <2> QED BY <1>1, <1>2, <2>1, DriverReactions, Zenon DEF QuietInv
<1>3. CASE Acts
  <2>1. UNCHANGED <<test, step>> /\ action \in 1 .. 3 /\ ~NotifydIdle /\ action > 0
    <3>1. UNCHANGED <<test, step>> /\ action \in 1 .. 3
      BY <1>3, Zenon DEF Acts, driver
    <3>2. ~NotifydIdle
      BY <1>0, <3>1 DEF ServeInv
    <3> QED BY <3>1, <3>2
  <2>2. ASSUME test \in 1 .. total, NEW s \in Reactions, Quiet(test, step, s)
        PROVE  playing'[s] = 0
    <3>1. playing[s] = 0
      BY <1>0, <2>2, Zenon DEF QuietInv
    <3>2. \/ ~is_supported_event_type(Head(inbox).name)
          \/ config(s, Head(inbox).name)[2] = 0
      BY <1>0, <2>1, <2>2, QuietEvent
    <3>3. \/ UNCHANGED playing
          \/ \E r \in Reactions : Play(r, config(r, Head(inbox).name)[2])
               /\ is_supported_event_type(Head(inbox).name)
      BY <1>3, Zenon DEF Acts, reactions
    <3> QED BY <1>0, <2>2, <3>1, <3>2, <3>3 DEF Play
  <2> QED BY <2>1, <2>2, Zenon DEF QuietInv
<1>4. CASE Tick
  <2>1. /\ UNCHANGED <<test, step>>
        /\ playing' = [s \in Reactions |-> IF left'[s] > 0 THEN playing[s] ELSE 0]
    BY <1>4, Zenon DEF Tick
  <2>2. \A s \in Reactions : playing[s] = 0 => playing'[s] = 0
    BY <2>1
  <2> QED BY <1>0, <2>1, <2>2, Zenon DEF QuietInv
<1>5. CASE UNCHANGED <<test, step, playing>>
  BY <1>0, <1>5, Zenon DEF QuietInv
<1> QED BY <1>2, <1>3, <1>4, <1>5, Zenon DEF CalmStep, Validate, Classify, Take, Account,
      vars, driver, reactions

\* An event that is awaited has not been handled before it is sent.
LEMMA SoundEmits ==
  ASSUME PlaceInv, CalmParts, Timely, Emits, Awaited(step),
         NEW s \in Reactions, Outcome(s, tests[test][step].arg) # 0
  PROVE  ~Handled(s)'
<1>1. NotifydIdle /\ action = 0
  <2>1. wait = 0 /\ Now.op # "sleep" /\ TypeInv /\ ServeInv
    BY DEF Emits, Moves, CalmParts
  <2>2. NotifydIdle
    BY <2>1, AwakeIsIdle
  <2> QED BY <2>1, <2>2, Zenon DEF ServeInv
<1>2. Delivered(Now.arg)
  BY Accepted, Zenon DEF Now
<1>3. inbox' = <<Now.arg>> /\ action' = 0
  BY <1>1, <1>2 DEF Emits, NotifydIdle
<1> QED BY <1>3 DEF Handled, NotifydIdle, index, Reactions

\* A pattern that is awaited plays until it has been checked: the sleep
\* before the check is over before the pattern is.
LEMMA SoundKept ==
  ASSUME PlaceInv, CalmParts, Timely, CalmStep
  PROVE  SoundInv'
<1>0. /\ TypeInv /\ ServeInv /\ SoundInv
      /\ playing \in [Reactions -> Nat] /\ left \in [Reactions -> Nat]
      /\ wait \in Nat /\ step \in Nat
  BY Zenon DEF CalmParts, TypeInv, PlaceInv
<1>t. TEST_SETTLE + MaxLag < DURATION /\ MaxLag \in Nat
  BY TimeAssumption DEF Timely
<1>1. ASSUME NEW j \in {step - 1, step - 2, step - 3}, Awaited(j)
      PROVE  /\ step = j + 1 => wait = 0
             /\ wait <= TEST_SETTLE + MaxLag
             /\ \A s \in Reactions :
                  LET pattern == Outcome(s, tests[test][j].arg) IN
                  pattern # 0 /\ Handled(s) =>
                    /\ playing[s] = pattern /\ left[s] > wait
                    /\ step = j + 1 => left[s] = DURATION
  BY <1>0, <1>1, Zenon DEF SoundInv
\* The driver.
<1>2. ASSUME DriverMoves, Moves, NEW j \in {step' - 1, step' - 2, step' - 3}, Awaited(j)'
      PROVE  /\ step' = j + 1 => wait' = 0
             /\ wait' <= TEST_SETTLE + MaxLag
             /\ \A s \in Reactions :
                  LET pattern == Outcome(s, tests[test'][j].arg) IN
                  pattern # 0 /\ Handled(s)' =>
                    /\ playing'[s] = pattern /\ left'[s] > wait'
                    /\ step' = j + 1 => left'[s] = DURATION
  <2>1. Sends(test', j) /\ tests[test'][j + 2].op = "expect" /\ j \in Nat \ {0}
    BY <1>2, Script DEF Awaited, Sends
  <2>2. test' = test /\ step' = step + 1
    BY <1>0, <1>2, <2>1, MovesTo
  <2>3. Awaited(j) /\ Sends(test, j) /\ SleepsAfter(test, j)
    BY <2>1, <2>2, Sleeps DEF Awaited, Sends
  <2>4. CASE j = step
    <3>1. Now.op = "send" /\ wait = 0 /\ Now = tests[test][j]
      BY <1>2, <2>3, <2>4 DEF Sends, Now, Moves
    <3>2. Emits
      BY <1>2, <3>1 DEF DriverMoves, Begins, Silences, Clears, Looks, Rests, Switches,
         Checked, Checks, Moves
    <3>3. wait' = 0 /\ wait' <= TEST_SETTLE + MaxLag
      BY <1>t, <3>1, <3>2 DEF Emits, TEST_SETTLE
    <3>4. \A s \in Reactions : Outcome(s, tests[test][j].arg) # 0 => ~Handled(s)'
      BY <2>3, <2>4, <3>2, SoundEmits, Zenon
    <3> QED BY <2>2, <3>3, <3>4, Zenon
  <2>5. CASE j = step - 1
    <3>1. Now = tests[test][j + 1] /\ Now.op = "sleep" /\ Now.arg <= TEST_SETTLE
          /\ Now.arg \in Nat /\ step = j + 1 /\ step' # j + 1
      <4>1. step = j + 1 /\ step' # j + 1
        BY <1>0, <2>2, <2>5
      <4>2. Now = tests[test][j + 1] /\ Now.op = "sleep" /\ Now.arg <= TEST_SETTLE
        BY <2>3, <4>1 DEF SleepsAfter, Awaited, Now
      <4> QED BY <1>2, <4>1, <4>2, WaitIsTicks DEF Moves
    <3>2. Rests
      BY <1>2, <3>1 DEF DriverMoves, Begins, Silences, Clears, Looks, Emits, Switches,
         Checked, Checks, Moves
    <3>3. wait' <= TEST_SETTLE + MaxLag /\ wait' \in Nat
      <4> DEFINE n == Now.arg
      <4>1. wait' \in n .. n + MaxLag
        BY <3>2, Zenon DEF Rests, Settle
      <4>2. n \in Nat /\ n <= TEST_SETTLE
        BY <3>1
      <4> HIDE DEF n
      <4> QED BY <1>t, <4>1, <4>2 DEF TEST_SETTLE
    <3>4. UNCHANGED <<inbox, action, playing, left>>
      BY <3>2, Zenon DEF Rests, notifyd, reactions
    <3>5. \A s \in Reactions : Handled(s)' => Handled(s)
      BY <3>4, Zenon DEF Handled, NotifydIdle
    <3>6. DURATION > wait'
      BY <1>t, <3>3 DEF TEST_SETTLE, DURATION
    <3>7. j \in {step - 1, step - 2, step - 3}
      BY <2>5
    <3>8. \A s \in Reactions :
            LET pattern == Outcome(s, tests[test][j].arg) IN
            pattern # 0 /\ Handled(s) => playing[s] = pattern /\ left[s] = DURATION
      BY <1>1, <2>3, <3>1, <3>7, Zenon
    <3> QED BY <2>2, <3>1, <3>3, <3>4, <3>5, <3>6, <3>8, Zenon
  <2>6. CASE j = step - 2
    <3>1. Now.op = "expect" /\ step = j + 2 /\ step' # j + 1 /\ step # j + 1
      BY <1>0, <2>2, <2>3, <2>6 DEF Awaited, Now
    <3>2. Checked
      BY <1>2, <3>1 DEF DriverMoves, Begins, Silences, Clears, Looks, Emits, Rests, Switches,
         Moves
    <3>3. UNCHANGED <<wait, inbox, action, playing, left>>
      BY <3>2, Zenon DEF Checked, notifyd, reactions
    <3>4. \A s \in Reactions : Handled(s)' => Handled(s)
      BY <3>3, Zenon DEF Handled, NotifydIdle
    <3>5. j \in {step - 1, step - 2, step - 3}
      BY <2>6
    <3> QED BY <1>1, <2>2, <2>3, <3>1, <3>3, <3>4, <3>5, Zenon
  <2> QED BY <1>0, <2>2, <2>4, <2>5, <2>6
<1>3. CASE DriverMoves
  <2>1. CASE Begins
    <3>1. step' = 1
      BY <2>1, Zenon DEF Begins, PlaceInv
    <3>2. \A j \in {step' - 1, step' - 2, step' - 3} : ~Awaited(j)'
      BY <3>1, Script DEF Awaited, Sends
    <3> QED BY <3>2, Zenon DEF SoundInv
  <2>2. CASE Moves
    BY <1>2, <1>3, <2>2, Zenon DEF SoundInv
  <2> QED BY <1>3, <2>1, <2>2, DriverReactions
\* notifyd.
<1>4. CASE Acts
  <2>1. UNCHANGED <<test, step, wait, inbox>> /\ action \in 1 .. 3 /\ action' = action + 1
    BY <1>4, Zenon DEF Acts, driver
  <2>2. ~NotifydIdle /\ action > 0
    BY <1>0, <2>1 DEF ServeInv
  <2>3. ASSUME NEW j \in {step - 1, step - 2, step - 3}, Awaited(j), NEW s \in Reactions,
               Outcome(s, tests[test][j].arg) # 0, Handled(s)'
        PROVE  /\ playing'[s] = Outcome(s, tests[test][j].arg) /\ left'[s] > wait
               /\ step = j + 1 => left'[s] = DURATION
    <3> DEFINE e == Head(inbox)
               r == alarm_actions[action]
    <3>1. e = tests[test][j].arg
      BY <1>0, <2>2, <2>3, InService DEF Awaited
    <3>2. is_supported_event_type(e.name) /\ Outcome(s, e) = config(s, e.name)[2]
      BY <2>3, <3>1, Accepted
    <3>3. CASE s = r
      <4>1. Play(s, config(s, e.name)[2])
        <5>1. s # "mqtt"
          BY DEF Reactions
        <5> QED BY <1>4, <3>2, <3>3, <5>1, Zenon DEF Acts
      <4>2. playing'[s] = Outcome(s, e) /\ left'[s] = DURATION
        <5>1. config(s, e.name)[2] # 0
          BY <2>3, <3>1, <3>2
        <5> QED BY <1>0, <3>2, <4>1, <5>1 DEF Play
      <4>3. DURATION > wait
        BY <1>0, <1>1, <1>t, <2>3 DEF TEST_SETTLE, DURATION
      <4> QED BY <3>1, <4>2, <4>3, Zenon
    <3>4. CASE s # r
      <4>1. playing'[s] = playing[s] /\ left'[s] = left[s]
        <5>1. \/ UNCHANGED reactions
              \/ \E p : Play(r, p)
          BY <1>4, Zenon DEF Acts
        <5> HIDE DEF r
        <5> QED BY <1>0, <3>4, <5>1 DEF Play, reactions
      <4>2. Handled(s)
        <5>1. action + 1 > index[s]
          BY <2>1, <2>2, <2>3 DEF Handled, NotifydIdle
        <5> QED BY <2>1, <3>4, <5>1 DEF Handled, index, alarm_actions, Reactions
      <4> QED BY <1>1, <2>3, <4>1, <4>2, Zenon
    <3> QED BY <3>3, <3>4
  <2>4. ASSUME NEW j \in {step - 1, step - 2, step - 3}, Awaited(j)
        PROVE  (step = j + 1 => wait = 0) /\ wait <= TEST_SETTLE + MaxLag
    BY <1>1, <2>4, Zenon
  <2>5. \A j : Awaited(j)' => Awaited(j)
    BY <2>1, Zenon DEF Awaited, Sends
  <2> QED BY <2>1, <2>3, <2>4, <2>5, Zenon DEF SoundInv
<1>5. CASE /\ UNCHANGED <<test, step, wait, playing, left>>
           /\ \A j \in {step - 1, step - 2, step - 3} : Awaited(j) =>
                \A s \in Reactions :
                  Outcome(s, tests[test][j].arg) # 0 /\ Handled(s)' => Handled(s)
  <2>1. \A j : Awaited(j)' => Awaited(j)
    BY <1>5, Zenon DEF Awaited, Sends
  <2> QED BY <1>0, <1>5, <2>1, Zenon DEF SoundInv
<1>6. CASE Validate
  <2>1. ~NotifydIdle /\ UNCHANGED <<test, step, wait, playing, left>>
    BY <1>6, Zenon DEF Validate, NotifydIdle, driver, reactions
  <2>2. ASSUME NEW j \in {step - 1, step - 2, step - 3}, Awaited(j), NEW s \in Reactions,
               Outcome(s, tests[test][j].arg) # 0
        PROVE  ~Handled(s)'
    <3>1. Class(Head(inbox)) = "accepted"
      BY <1>0, <2>1, <2>2, InService, Accepted DEF Awaited
    <3>2. event_validation_check(Head(inbox).name, Head(inbox).msg) = "ok"
      BY <3>1 DEF Class
    <3>3. action' = 1 /\ inbox' # <<>>
      BY <1>6, <3>2, Zenon DEF Validate
    <3> QED BY <3>3 DEF Handled, NotifydIdle, index, Reactions
  <2> QED BY <1>5, <2>1, <2>2, Zenon
<1>7. CASE Classify
  <2>1. action > 3 /\ UNCHANGED <<test, step, wait, playing, left>>
    <3>1. action > Len(alarm_actions) /\ UNCHANGED <<test, step, wait, playing, left>>
      BY <1>7, Zenon DEF Classify, driver, reactions
    <3> QED BY <3>1 DEF alarm_actions
  <2>2. \A s \in Reactions : Handled(s)
    <3>1. action \in 0 .. 4
      BY <1>0 DEF TypeInv
    <3> QED BY <2>1, <3>1 DEF Handled, index, Reactions
  <2> QED BY <1>5, <2>1, <2>2, Zenon
\* Time.
<1>8. CASE Tick
  <2>1. wait \in Nat \ {0} /\ UNCHANGED <<test, step, inbox, action>>
        /\ wait' = wait - 1
        /\ left' = [s \in Reactions |-> IF left[s] > 0 THEN left[s] - 1 ELSE 0]
        /\ playing' = [s \in Reactions |-> IF left'[s] > 0 THEN playing[s] ELSE 0]
    <3>1. wait \in Nat \ {0}
      BY <1>0, <1>8, TickWaits
    <3> QED BY <1>8, <3>1 DEF Tick
  <2>2. ASSUME NEW j \in {step - 1, step - 2, step - 3}, Awaited(j), NEW s \in Reactions,
               Outcome(s, tests[test][j].arg) # 0, Handled(s)
        PROVE  playing'[s] = Outcome(s, tests[test][j].arg) /\ left'[s] > wait'
    <3>1. playing[s] = Outcome(s, tests[test][j].arg) /\ left[s] > wait /\ left[s] \in Nat
      BY <1>0, <1>1, <2>2, Zenon
    <3>2. left'[s] = left[s] - 1 /\ left'[s] > wait' /\ left'[s] > 0
      BY <2>1, <3>1
    <3> QED BY <2>1, <3>1, <3>2
  <2>3. ASSUME NEW j \in {step - 1, step - 2, step - 3}, Awaited(j)
        PROVE  step # j + 1 /\ wait' <= TEST_SETTLE + MaxLag
    <3>1. wait <= TEST_SETTLE + MaxLag /\ (step = j + 1 => wait = 0)
      BY <1>1, <2>3, Zenon
    <3> QED BY <1>t, <2>1, <3>1 DEF TEST_SETTLE
  <2>4. \A j : Awaited(j)' => Awaited(j)
    BY <2>1, Zenon DEF Awaited, Sends
  <2>5. \A s : Handled(s)' => Handled(s)
    BY <2>1, Zenon DEF Handled, NotifydIdle
  <2> QED BY <2>1, <2>2, <2>3, <2>4, <2>5, Zenon DEF SoundInv
<1>9. CASE UNCHANGED <<test, step, wait, playing, left, inbox, action>>
  <2>1. \A s : Handled(s)' => Handled(s)
    BY <1>9, Zenon DEF Handled, NotifydIdle
  <2> QED BY <1>5, <1>9, <2>1, Zenon
<1> QED BY <1>3, <1>4, <1>6, <1>7, <1>8, <1>9, Zenon DEF CalmStep, Take, Account, vars,
      driver, reactions, notifyd

-----------------------------------------------------------------------------
(***************************************************************************)
(* The publisher.                                                          *)
(***************************************************************************)
\* What the driver does is given by the step of the script.
LEMMA Kinds ==
  ASSUME DriverMoves, test # 0
  PROVE  /\ Moves
         /\ Now.op = "cancel" /\ Now.of \in Reactions => Silences
         /\ Now.op = "cancel" /\ Now.of = "mqtt" => Clears
         /\ Now.op = "before" => Looks
         /\ Now.op = "send" => Emits
         /\ Now.op = "sleep" => Rests
         /\ Now.op \in {"stop", "start"} => Switches
         /\ Now.op \in Checks => Checked
<1>1. \/ Silences \/ Clears \/ Looks \/ Emits \/ Rests \/ Switches \/ Checked
  BY Zenon DEF DriverMoves, Begins
<1>2. Moves
  BY <1>1, Zenon DEF Silences, Clears, Looks, Emits, Rests, Switches, Checked
<1>3. "mqtt" \notin Reactions
  BY DEF Reactions
<1> QED BY <1>1, <1>2, <1>3 DEF Silences, Clears, Looks, Emits, Rests, Switches, Checked, Checks

\* The operations of a test of the table.
LEMMA TableOps ==
  ASSUME NEW t \in 1 .. 12
  PROVE  LET s == tests[t] IN
         /\ Len(s) = 10 /\ DOMAIN s = 1 .. 10
         /\ \A k \in 1 .. 3 : s[k].op = "cancel"
         /\ s[1].of = "siren" /\ s[2].of = "led"
         /\ s[3].of = "mqtt" /\ s[3].arg = MQTT_ASYNC_SETTLE
         /\ s[4].op = "before" /\ s[5].op = "send" /\ s[5].arg = test_cases[t].event
         /\ s[6].op = "sleep" /\ s[7].op = "expect" /\ s[8].op = "expect"
         /\ s[9].op = "sleep" /\ s[9].arg = MQTT_ASYNC_SETTLE
         /\ s[10].op = "published"
<1> DEFINE c == test_cases[t]
           s == run_test_case(c)
<1>1. tests[t] = s
  BY TestIs
<1>2. /\ Len(s) = 10 /\ DOMAIN s = 1 .. 10
      /\ s[1] = cancel_siren /\ s[2] = cancel_led /\ s[3] = cancel_mqtt
      /\ s[4] = get_mqtt_status /\ s[5] = Send(c.event)
      /\ s[6] = Sleep(TEST_SETTLE)
      /\ s[7] = Expect("siren", c.siren) /\ s[8] = Expect("led", c.led)
      /\ s[9] = Sleep(MQTT_ASYNC_SETTLE)
      /\ s[10] = Do("published", "mqtt", IF c.siren # 0 THEN 1 ELSE 0)
  BY CaseSteps, Zenon
<1> HIDE DEF c, s
<1>3. /\ s[1].op = "cancel" /\ s[2].op = "cancel" /\ s[3].op = "cancel"
      /\ s[1].of = "siren" /\ s[2].of = "led"
      /\ s[3].of = "mqtt" /\ s[3].arg = MQTT_ASYNC_SETTLE
      /\ s[4].op = "before" /\ s[5].op = "send" /\ s[5].arg = c.event
      /\ s[6].op = "sleep" /\ s[7].op = "expect" /\ s[8].op = "expect"
      /\ s[9].op = "sleep" /\ s[9].arg = MQTT_ASYNC_SETTLE
      /\ s[10].op = "published"
  BY <1>2 DEF Do, Sleep, Send, Expect, get_mqtt_status, cancel_siren, cancel_led, cancel_mqtt
<1> QED BY <1>1, <1>2, <1>3 DEF c

\* The operations of the broker test.
LEMMA BrokerOps ==
  LET s == tests[BrokerTest] IN
  /\ Len(s) = 19 /\ DOMAIN s = 1 .. 19
  /\ \A k \in {1, 2, 3, 13, 14, 15} : s[k].op = "cancel"
  /\ s[1].of = "siren" /\ s[2].of = "led" /\ s[13].of = "siren" /\ s[14].of = "led"
  /\ s[3].of = "mqtt" /\ s[15].of = "mqtt" /\ s[15].arg = MQTT_ASYNC_SETTLE
  /\ s[13].arg = CANCEL_SETTLE /\ s[14].arg = CANCEL_SETTLE
  /\ s[4].op = "before" /\ s[16].op = "before"
  /\ s[5].op = "stop" /\ s[5].arg = BROKER_SETTLE /\ s[12].op = "start"
  /\ \A k \in {6, 17} : s[k].op = "send" /\ s[k].arg = Alarm("fire", "critical")
  /\ \A k \in {7, 10, 18} : s[k].op = "sleep"
  /\ s[7].arg = TEST_SETTLE /\ s[10].arg = MQTT_ASYNC_SETTLE
  /\ s[18].arg = TEST_SETTLE + MQTT_ASYNC_SETTLE
  /\ s[8].op = "expect" /\ s[9].op = "expect"
  /\ s[11].op = "outage" /\ s[19].op = "recovery"
<1>1. tests[BrokerTest] = run_mqtt_broker_down_test
  BY TestIs, Counts
<1> QED BY <1>1, BrokerDownSteps DEF Guarded, Do, Sleep, Send, Expect, get_mqtt_status, cancel_siren,
      cancel_led, cancel_mqtt

\* The broker comes and goes only in its test.
LEMMA SwitchPlaces ==
  ASSUME PlaceInv, Switches
  PROVE  /\ test = BrokerTest /\ test' = test /\ step' = step + 1
         /\ \/ step = 5 /\ Now.op = "stop"
            \/ step = 12 /\ Now.op = "start"
<1>1. test \in 1 .. total /\ Now.op \in {"stop", "start"}
  BY DEF Switches, Moves
<1>2. /\ test = BrokerTest
      /\ (step = 5 /\ Now.op = "stop") \/ (step = 12 /\ Now.op = "start")
  BY <1>1, Script, Zenon DEF PlaceInv, SoundStep, Now
<1>3. Len(tests[test]) = 19
  BY <1>1, <1>2, Script
<1> QED BY <1>2, <1>3, MovesTo DEF Switches

\* The broker is up, and found, until step 5 of the broker test.
LEMMA PublisherStep ==
  ASSUME PlaceInv, CalmParts, CalmStep
  PROVE  PublisherInv'
<1>0. /\ PublisherInv /\ queued \in Nat /\ spent \in Nat
      /\ in_flight \in {"none", "reached", "refused", "either"}
      /\ action \in 0 .. 4 /\ (NotifydIdle => action = 0) /\ ServeInv
      /\ test \in 0 .. 18 /\ step \in Nat \ {0}
  BY TimeAssumption, Counts DEF CalmParts, TypeInv, ServeInv, PlaceInv
<1>1. CASE UNCHANGED <<test, step, queued, in_flight, spent, broker_up>>
  BY <1>0, <1>1, Zenon DEF PublisherInv, PublisherIdle
<1>2. ASSUME Moves
      PROVE  /\ test # 0 /\ test' # 0
             /\ test' < BrokerTest \/ (test' = BrokerTest /\ step' <= 5)
                  => test < BrokerTest \/ (test = BrokerTest /\ step <= 5)
  <2>1. test \in 1 .. 17
    BY <1>2, Counts DEF Moves
  <2> QED BY <1>0, <1>2, <2>1, MovesTo, Counts
<1>3. CASE Moves /\ UNCHANGED <<publisher, broker_up>>
  BY <1>0, <1>2, <1>3, Zenon DEF PublisherInv, PublisherIdle, publisher
<1>4. CASE Begins
  <2>1. UNCHANGED <<queued, in_flight, spent, broker_up>> /\ test = 0 /\ test' = 1
    BY <1>4, Zenon DEF Begins, publisher
  <2>2. test < BrokerTest /\ test' # 0
    BY <2>1, Counts
  <2> QED BY <1>0, <2>1, <2>2, Zenon DEF PublisherInv, PublisherIdle
<1>5. CASE Clears
  <2> DEFINE n == IF has_active_alarm THEN 1 ELSE 0
  <2>1. Moves /\ queued' = queued + n /\ UNCHANGED <<in_flight, spent, broker_up>>
    BY <1>5, Zenon DEF Clears
  <2>2. n \in Nat
    OBVIOUS
  <2> HIDE DEF n
  <2>3. PublisherIdle' => PublisherIdle
    BY <1>0, <2>1, <2>2 DEF PublisherIdle
  <2> QED BY <1>0, <1>2, <2>1, <2>3, Zenon DEF PublisherInv
<1>6. CASE Switches
  <2>1. UNCHANGED <<queued, spent>> /\ in_flight' = (IF in_flight = "none" THEN "none" ELSE "either")
    BY <1>6, Zenon DEF Switches
  <2>2. PublisherIdle' => PublisherIdle
    BY <2>1 DEF PublisherIdle
  <2>3. test' = BrokerTest /\ step' > 5
    BY <1>6, SwitchPlaces
  <2>4. test' # 0 /\ ~(test' < BrokerTest) /\ ~(step' <= 5)
    BY <2>3, Counts, <1>6, SwitchPlaces
  <2> QED BY <1>0, <2>1, <2>2, <2>4, Zenon DEF PublisherInv
<1>7. CASE Acts
  <2>1. UNCHANGED <<test, step, inbox, in_flight, spent, broker_up>> /\ action \in 1 .. 3
    BY <1>7, Zenon DEF Acts, driver
  <2>2. test # 0
    <3>1. ~NotifydIdle
      BY <1>0, <2>1
    <3> QED BY <1>0, <3>1, Counts DEF ServeInv, Sends
  <2>3. PublisherIdle' => PublisherIdle
    <3> DEFINE n == IF has_active_alarm THEN 2 ELSE 1
    <3>1. UNCHANGED queued \/ queued' = queued + n
      BY <1>7, Zenon DEF Acts
    <3>2. n \in Nat
      OBVIOUS
    <3> HIDE DEF n
    <3> QED BY <1>0, <2>1, <3>1, <3>2 DEF PublisherIdle
  <2> QED BY <1>0, <2>1, <2>2, <2>3, Zenon DEF PublisherInv
<1>8. CASE Take
  <2>1. /\ UNCHANGED <<test, step, broker_up, spent>> /\ queued > 0
        /\ in_flight' = IF broker_up THEN "reached" ELSE "refused"
    BY <1>8, Zenon DEF Take, broker, driver
  <2>2. ~PublisherIdle /\ in_flight' # "none"
    BY <1>0, <2>1 DEF PublisherIdle
  <2> QED BY <1>0, <2>1, <2>2, Zenon DEF PublisherInv, PublisherIdle
<1>9. CASE Account
  <2>1. /\ UNCHANGED <<test, step, broker_up, queued>>
        /\ in_flight' = "none" /\ spent' = 0 /\ in_flight # "none"
    BY <1>9, Zenon DEF Account, broker, driver
  <2> QED BY <1>0, <2>1, Zenon DEF PublisherInv, PublisherIdle
<1>10. CASE Tick
  <2>1. /\ UNCHANGED <<test, step, broker_up, queued, in_flight>>
        /\ spent' = IF PublisherIdle THEN 0 ELSE spent + 1
    BY <1>10, Zenon DEF Tick
  <2> QED BY <1>0, <2>1, Zenon DEF PublisherInv, PublisherIdle
<1>11. CASE DriverMoves
  BY <1>11, <1>3, <1>4, <1>5, <1>6, Zenon DEF DriverMoves, Silences, Looks, Emits, Rests, Checked
<1> QED BY <1>1, <1>7, <1>8, <1>9, <1>10, <1>11, Zenon DEF CalmStep, Validate, Classify, broker, vars,
      driver, publisher

\* A sum is as large as one of its parts.
LEMMA Sums == \A x, y, z \in Nat : y >= z => x + y >= z
OBVIOUS

\* A test of the table is about one event, served while the driver sleeps.
LEMMA TableServing ==
  ASSUME PlaceInv, ServeInv, test \in 1 .. 12, ~NotifydIdle
  PROVE  /\ step \in {6, 7} /\ Head(inbox) = test_cases[test].event /\ Tail(inbox) = <<>>
         /\ action > 0 => Class(test_cases[test].event) # "invalid"
<1>1. PICK j \in {step - 1, step - 2} :
        /\ Sends(test, j)
        /\ Head(inbox) = tests[test][j].arg /\ Tail(inbox) = <<>>
        /\ action > 0 => Class(tests[test][j].arg) # "invalid"
  BY Serving, Zenon
<1> DEFINE s == tests[test]
<1>2. j \in DOMAIN s /\ s[j].op = "send"
  BY <1>1 DEF Sends
<1>3. /\ DOMAIN s = 1 .. 10
      /\ \A k \in 1 .. 3 : s[k].op = "cancel"
      /\ s[4].op = "before" /\ s[5].arg = test_cases[test].event
      /\ s[6].op = "sleep" /\ s[7].op = "expect" /\ s[8].op = "expect"
      /\ s[9].op = "sleep" /\ s[10].op = "published"
  BY TableOps, Zenon
<1> HIDE DEF s
<1>4. j = 5
  BY <1>2, <1>3
<1>5. step \in {6, 7}
  BY <1>1, <1>4 DEF PlaceInv
<1> QED BY <1>1, <1>3, <1>4, <1>5, Zenon DEF s

\* A supported event is delivered, whatever its pattern.
LEMMA AcceptedIsDelivered ==
  ASSUME NEW e, Class(e) = "accepted"
  PROVE  Delivered(e) /\ is_supported_event_type(e.name)
<1>1. is_supported_event_type(e.name)
  BY DEF Class
<1> QED BY <1>1 DEF is_supported_event_type, Delivered

\* The four kinds of place in a test of the table.
LEMMA TablePlaces ==
  ASSUME step' \in Nat,
         \/ step' <= 3 /\ PublisherIdle'
         \/ step' = 4 /\ Cleared'
         \/ step' = 5 /\ Clean'
         \/ step' >= 6 /\ (IF HasRecord THEN Recorded ELSE Clean)'
  PROVE  TableInv'
<1>1. /\ step' <= 3 => ~(step' = 4) /\ ~(step' = 5) /\ ~(step' >= 6)
      /\ step' = 4 => ~(step' <= 3) /\ ~(step' = 5) /\ ~(step' >= 6)
      /\ step' = 5 => ~(step' <= 3) /\ ~(step' = 4) /\ ~(step' >= 6)
      /\ step' >= 6 => ~(step' <= 3) /\ ~(step' = 4) /\ ~(step' = 5)
  OBVIOUS
<1> QED BY <1>1, Zenon DEF TableInv

\* The driver in a test of the table: each sleep after a cancel or an event is as long
\* as a record takes.
LEMMA TableDriver ==
  ASSUME PlaceInv, CalmParts, Timely, DriverMoves, test' \in 1 .. 12
  PROVE  TableInv'
<1>0. /\ TypeInv /\ ServeInv /\ PublisherInv /\ TableInv /\ table_count = 12
      /\ wait \in Nat /\ queued \in Nat /\ spent \in Nat /\ spent < MQTT_ASYNC_SETTLE
      /\ MQTT_ASYNC_SETTLE \in Nat
  BY Counts, TimeAssumption DEF CalmParts, TypeInv, Timely, MQTT_ASYNC_SETTLE
<1>1. CASE test = 0
  <2>1. Begins
    BY <1>1, Counts DEF DriverMoves, Silences, Clears, Looks, Emits, Rests, Switches, Checked,
       Moves
  <2>2. step' = 1 /\ UNCHANGED publisher /\ PublisherIdle
    BY <1>0, <1>1, <2>1, Zenon DEF Begins, PlaceInv, PublisherInv
  <2>3. PublisherIdle'
    BY <2>2, Zenon DEF PublisherIdle, publisher
  <2> QED BY <2>2, <2>3, TablePlaces
<1>2. CASE test # 0
  <2>1. Moves /\ test \in 1 .. 12 /\ wait = 0
    <3>1. Moves
      BY <1>2, Kinds
    <3> QED BY <3>1, MovesTo, Counts DEF Moves
  <2>2. Len(tests[test]) = 10 /\ step \in 1 .. 10
    BY <2>1, TableOps, Counts DEF PlaceInv
  <2>3. Now = tests[test][step]
    BY DEF Now
  <2>4. CASE step = 10
    <3>1. step' = 1 /\ Now.op = "published"
      BY <2>1, <2>2, <2>3, <2>4, MovesTo, TableOps
    <3>2. Checked
      BY <1>2, <3>1, Kinds DEF Checks
    <3>3. NotifydIdle
      BY <1>0, <2>1, <3>1, AwakeIsIdle
    <3>4. PublisherIdle
      <4>1. step >= 6 /\ step = 10 /\ ~(spent + wait >= MQTT_ASYNC_SETTLE)
        BY <1>0, <2>1, <2>4 DEF MQTT_ASYNC_SETTLE
      <4> QED BY <1>0, <2>1, <4>1, Zenon DEF TableInv, Recorded, Clean
    <3>5. PublisherIdle'
      BY <3>2, <3>4, Zenon DEF Checked, publisher, PublisherIdle
    <3> QED BY <3>1, <3>5, TablePlaces
  <2>5. CASE step \in 1 .. 9
    <3>1. test' = test /\ step' = step + 1
      BY <2>1, <2>2, <2>5, MovesTo
    <3>2. CASE step \in 1 .. 2
      <4>1. Now.op = "cancel" /\ Now.of \in Reactions
        BY <2>1, <2>3, <3>2, TableOps DEF Reactions
      <4>2. UNCHANGED publisher
        BY <1>2, <4>1, Kinds DEF Silences
      <4>3. PublisherIdle
        BY <1>0, <2>1, <3>2 DEF TableInv
      <4>4. PublisherIdle'
        BY <4>2, <4>3, Zenon DEF PublisherIdle, publisher
      <4> QED BY <3>1, <3>2, <4>4, TablePlaces
    <3>3. CASE step = 3
      <4>1. Now.op = "cancel" /\ Now.of = "mqtt" /\ Now.arg = MQTT_ASYNC_SETTLE
        BY <2>1, <2>3, <3>3, TableOps
      <4>2. Clears
        BY <1>2, <4>1, Kinds
      <4>3. queued = 0 /\ in_flight = "none"
        BY <1>0, <2>1, <3>3 DEF TableInv, PublisherIdle
      <4>4. /\ ~has_active_alarm' /\ in_flight' = "none"
            /\ queued' = 0 \/ queued' = 1
            /\ spent' = spent
        <5> DEFINE n == IF has_active_alarm THEN 1 ELSE 0
        <5>1. /\ ~has_active_alarm' /\ in_flight' = "none" /\ spent' = spent
              /\ queued' = queued + n
          BY <4>2, <4>3, Zenon DEF Clears
        <5>2. n = 0 \/ n = 1
          OBVIOUS
        <5> HIDE DEF n
        <5> QED BY <4>3, <5>1, <5>2
      <4>5. wait' \in Nat /\ wait' >= MQTT_ASYNC_SETTLE
        BY <4>1, <4>2, TimeAssumption DEF Clears, Settle, MQTT_ASYNC_SETTLE
      <4>6. spent' + wait' >= MQTT_ASYNC_SETTLE
        BY <1>0, <4>4, <4>5, Sums, Zenon
      <4>7. PublisherIdle' \/ (queued + InHand = 1)'
        BY <4>4 DEF PublisherIdle, InHand
      <4>8. Cleared'
        BY <4>4, <4>6, <4>7, Zenon DEF Cleared
      <4>9. step' = 4
        BY <3>1, <3>3
      <4> QED BY <4>8, <4>9, TablePlaces
    <3>4. CASE step = 4
      <4>1. Now.op = "before"
        BY <2>1, <2>3, <3>4, TableOps
      <4>2. Looks
        BY <1>2, <4>1, Kinds
      <4>3. PublisherIdle /\ ~has_active_alarm
        <5>1. ~(spent + wait >= MQTT_ASYNC_SETTLE)
          BY <1>0, <2>1 DEF MQTT_ASYNC_SETTLE
        <5> QED BY <1>0, <2>1, <3>4, <5>1, Zenon DEF TableInv, Cleared
      <4>4. Clean'
        BY <4>2, <4>3, Zenon DEF Looks, Clean, PublisherIdle, publisher
      <4>5. step' = 5
        BY <3>1, <3>4
      <4> QED BY <4>4, <4>5, TablePlaces
    <3>5. CASE step = 5
      <4>1. Now.op = "send" /\ Now.arg = test_cases[test].event
        BY <2>1, <2>3, <3>5, TableOps
      <4>2. Emits
        BY <1>2, <4>1, Kinds
      <4>3. NotifydIdle /\ action = 0
        <5>1. NotifydIdle
          BY <1>0, <2>1, <4>1, AwakeIsIdle
        <5> QED BY <1>0, <5>1 DEF ServeInv
      <4>4. Clean
        BY <1>0, <2>1, <3>5 DEF TableInv
      <4>5. Clean'
        BY <4>2, <4>4, Zenon DEF Emits, Clean, PublisherIdle, publisher
      <4>6. ~HasRecord'
        <5>1. SUFFICES ASSUME Class(test_cases[test].event) = "accepted"
                       PROVE  ~Handled("mqtt")'
          BY <3>1, Zenon DEF HasRecord
        <5>2. inbox' = <<Now.arg>> /\ action' = 0
          BY <4>1, <4>2, <4>3, <5>1, AcceptedIsDelivered DEF Emits, NotifydIdle
        <5> QED BY <5>2 DEF Handled, NotifydIdle, index
      <4>7. step' >= 6 /\ step' \in Nat
        BY <3>1, <3>5
      <4> QED BY <4>5, <4>6, <4>7, TablePlaces
    <3>6. CASE step \in 6 .. 9
      <4>1. Now.op \in {"sleep", "expect"} /\ (step = 9 => Now.op = "sleep" /\ Now.arg = MQTT_ASYNC_SETTLE)
        BY <2>1, <2>3, <3>6, TableOps
      <4>2. Rests \/ Checked
        BY <1>2, <4>1, Kinds DEF Checks
      <4>3. UNCHANGED <<mqtt_before, inbox, action, publisher>>
        BY <4>2, Zenon DEF Rests, Checked, notifyd
      <4>4. HasRecord' <=> HasRecord
        BY <3>1, <4>3, Zenon DEF HasRecord, Handled, NotifydIdle
      <4>5. Clean => Clean'
        BY <4>3, Zenon DEF Clean, PublisherIdle, publisher
      <4>6. step' = 10 => spent' + wait' >= MQTT_ASYNC_SETTLE
        <5>1. SUFFICES ASSUME step' = 10
                       PROVE  spent' + wait' >= MQTT_ASYNC_SETTLE
          OBVIOUS
        <5>2. step = 9
          BY <3>1, <3>6, <5>1
        <5>3. Rests /\ Now.arg = MQTT_ASYNC_SETTLE
          BY <1>2, <4>1, <5>2, Kinds
        <5>4. wait' \in Nat /\ wait' >= MQTT_ASYNC_SETTLE
          BY <5>3, TimeAssumption DEF Rests, Settle, MQTT_ASYNC_SETTLE
        <5>5. spent' = spent
          BY <4>3, Zenon DEF publisher
        <5> QED BY <1>0, <5>4, <5>5, Sums, Zenon
      <4>7. Recorded => Recorded'
        BY <4>3, <4>6, Zenon DEF Recorded, InHand, publisher
      <4>8. step >= 6 /\ step' >= 6 /\ step' \in Nat
        BY <3>1, <3>6
      <4>9. IF HasRecord THEN Recorded ELSE Clean
        BY <1>0, <2>1, <4>8, Zenon DEF TableInv
      <4> QED BY <4>4, <4>5, <4>7, <4>8, <4>9, TablePlaces, Zenon
    <3> QED BY <2>5, <3>2, <3>3, <3>4, <3>5, <3>6
  <2> QED BY <2>2, <2>4, <2>5
<1> QED BY <1>1, <1>2

\* The services work on while the driver is at a test of the table.
LEMMA TableOther ==
  ASSUME PlaceInv, CalmParts, Timely, test \in 1 .. 12, UNCHANGED <<test, step>>,
         Validate \/ Acts \/ Classify \/ Take \/ Account \/ Tick
  PROVE  TableInv'
<1>0. /\ TypeInv /\ ServeInv /\ TableInv /\ table_count = 12
      /\ wait \in Nat /\ queued \in Nat /\ spent \in Nat /\ InHand \in Nat
      /\ mqtt.published \in Nat /\ mqtt_before.published \in Nat
      /\ step \in Nat /\ MQTT_ASYNC_SETTLE \in Nat /\ step' \in Nat
      /\ in_flight \in {"none", "reached", "refused", "either"}
  BY Counts, TimeAssumption DEF CalmParts, TypeInv, MQTT_ASYNC_SETTLE, InHand, PlaceInv
<1> DEFINE e == test_cases[test].event
\* What the publisher has to show where it is left alone, and elsewhere.
<1>1. CASE UNCHANGED <<publisher, mqtt_before, wait>> /\ (step >= 6 => (HasRecord' <=> HasRecord))
  <2>1. /\ PublisherIdle => PublisherIdle'
        /\ Cleared => Cleared'
        /\ Clean => Clean'
        /\ Recorded => Recorded'
    BY <1>1, Zenon DEF PublisherIdle, Cleared, Clean, Recorded, InHand, publisher
  <2>2. step >= 6 => ((IF HasRecord THEN Recorded ELSE Clean)
                        => (IF HasRecord THEN Recorded ELSE Clean)')
    BY <1>1, <2>1, Zenon
  <2> QED BY <1>0, <1>1, <2>1, <2>2, Zenon DEF TableInv
<1>2. CASE Validate
  <2>1. ~NotifydIdle /\ action = 0 /\ UNCHANGED <<publisher, mqtt_before, wait>>
    BY <1>2, Zenon DEF Validate, NotifydIdle, driver
  <2>2. ~HasRecord
    BY <2>1 DEF HasRecord, Handled, index
  <2>3. ~HasRecord'
    <3>1. SUFFICES ASSUME Class(e) = "accepted"
                   PROVE  ~Handled("mqtt")'
      BY Zenon DEF HasRecord
    <3>2. Head(inbox) = e
      BY <1>0, <2>1, TableServing
    <3>3. event_validation_check(Head(inbox).name, Head(inbox).msg) = "ok"
      BY <3>1, <3>2 DEF Class
    <3>4. action' = 1 /\ inbox' # <<>>
      BY <1>2, <3>3, Zenon DEF Validate
    <3> QED BY <3>4 DEF Handled, NotifydIdle, index
  <2> QED BY <1>1, <2>1, <2>2, <2>3
<1>3. CASE Acts
  <2>1. /\ UNCHANGED <<mqtt_before, wait, inbox, in_flight, spent, mqtt>>
        /\ action \in 1 .. 3 /\ action' = action + 1
    BY <1>3, Zenon DEF Acts, driver
  <2>2. ~NotifydIdle /\ action > 0 /\ ~NotifydIdle'
    BY <1>0, <2>1 DEF ServeInv, NotifydIdle
  <2>3. step \in {6, 7} /\ Head(inbox) = e /\ Class(e) # "invalid"
    BY <1>0, <2>2, TableServing
  <2>4. ~HasRecord
    BY <2>1, <2>2 DEF HasRecord, Handled, index
  <2>5. Clean
    BY <1>0, <2>3, <2>4 DEF TableInv
  <2>6. is_supported_event_type(Head(inbox).name) <=> Class(e) = "accepted"
    BY <2>3 DEF Class
  <2>7. CASE Class(e) # "accepted"
    <3>1. ~HasRecord'
      BY <2>7, Zenon DEF HasRecord
    <3>2. UNCHANGED publisher
      BY <1>3, <2>1, <2>6, <2>7, Zenon DEF Acts, publisher
    <3> QED BY <1>1, <2>1, <2>4, <3>1, <3>2, Zenon
  <2>8. CASE Class(e) = "accepted" /\ action # 3
    <3>1. ~HasRecord'
      BY <2>1, <2>2, <2>8 DEF HasRecord, Handled, index
    <3>2. alarm_actions[action] # "mqtt"
      BY <2>1, <2>8 DEF alarm_actions
    <3>3. UNCHANGED publisher
      BY <1>3, <2>1, <3>2, Zenon DEF Acts, publisher
    <3> QED BY <1>1, <2>1, <2>4, <3>1, <3>3, Zenon
  <2>9. CASE Class(e) = "accepted" /\ action = 3
    <3>1. alarm_actions[action] = "mqtt" /\ "mqtt" \notin Reactions
      BY <2>9 DEF alarm_actions, Reactions
    <3>2. queued' = queued + (IF has_active_alarm THEN 2 ELSE 1)
      BY <1>3, <2>6, <2>9, <3>1, Zenon DEF Acts
    <3>3. queued = 0 /\ in_flight = "none" /\ ~has_active_alarm
          /\ mqtt.published = mqtt_before.published
      BY <2>5 DEF Clean, PublisherIdle
    <3>4. queued' = 1
      BY <3>2, <3>3
    <3>5. step' # 10 /\ step' >= 6
      BY <2>3
    <3>6. InHand' = 0
      BY <2>1, <3>3 DEF InHand
    <3>7. Recorded'
      BY <1>0, <2>1, <3>3, <3>4, <3>5, <3>6 DEF Recorded
    <3>8. HasRecord'
      BY <2>1, <2>9 DEF HasRecord, Handled, index
    <3> QED BY <1>0, <3>5, <3>7, <3>8, TablePlaces
  <2> QED BY <2>7, <2>8, <2>9
<1>4. CASE Classify
  <2>1. UNCHANGED <<publisher, mqtt_before, wait>> /\ action > Len(alarm_actions) /\ inbox' = Tail(inbox)
    BY <1>4, Zenon DEF Classify, driver
  <2>2. action > 3
    BY <2>1 DEF alarm_actions
  <2>3. ~NotifydIdle
    BY <1>0, <2>2 DEF ServeInv
  <2>4. NotifydIdle'
    BY <1>0, <2>1, <2>3, TableServing DEF NotifydIdle
  <2>5. Handled("mqtt") /\ Handled("mqtt")'
    BY <2>2, <2>4 DEF Handled, index
  <2> QED BY <1>1, <2>1, <2>5, Zenon DEF HasRecord
<1>5. CASE Take \/ Account
  <2>1. UNCHANGED <<mqtt_before, wait, inbox, action, has_active_alarm>> /\ ~PublisherIdle
    <3>1. CASE Take
      <4>1. UNCHANGED <<mqtt_before, wait, inbox, action, has_active_alarm>> /\ queued > 0
        BY <3>1, Zenon DEF Take, driver, notifyd
      <4> QED BY <1>0, <4>1 DEF PublisherIdle
    <3>2. CASE Account
      BY <3>2, Zenon DEF Account, driver, notifyd, PublisherIdle
    <3> QED BY <1>5, <3>1, <3>2
  <2>2. HasRecord' <=> HasRecord
    BY <2>1, Zenon DEF HasRecord, Handled, NotifydIdle
  <2>3. (step = 4 /\ Cleared) \/ (step >= 6 /\ HasRecord /\ Recorded)
    <3>1. step <= 3 \/ step = 4 \/ step = 5 \/ step >= 6
      BY <1>0
    <3> QED BY <1>0, <2>1, <3>1, Zenon DEF TableInv, Clean
  <2>4. CASE Take
    <3>1. /\ queued > 0 /\ in_flight = "none" /\ queued' = queued - 1
          /\ in_flight' # "none" /\ UNCHANGED <<spent, mqtt>>
      BY <2>4, Zenon DEF Take
    <3>2. InHand = 0 /\ InHand' = 1
      BY <3>1 DEF InHand
    <3>3. queued' + InHand' = queued + InHand
      BY <1>0, <3>1, <3>2
    <3>4. CASE step = 4 /\ Cleared
      <4>1. Cleared'
        BY <2>1, <3>1, <3>3, <3>4, Zenon DEF Cleared
      <4> QED BY <1>0, <3>4, <4>1, TablePlaces
    <3>5. CASE step >= 6 /\ HasRecord /\ Recorded
      <4>1. Recorded'
        BY <2>1, <3>1, <3>3, <3>5, Zenon DEF Recorded
      <4> QED BY <1>0, <2>2, <3>5, <4>1, TablePlaces, Zenon
    <3> QED BY <2>3, <3>4, <3>5
  <2>5. CASE Account
    <3>1. /\ in_flight # "none" /\ in_flight' = "none" /\ queued' = queued
          /\ mqtt'.published = mqtt.published + 1
      <4>1. in_flight = "reached" \/ in_flight = "none"
        BY Counts DEF CalmParts, PublisherInv
      <4> QED BY <2>5, <4>1 DEF Account
    <3>2. InHand = 1 /\ InHand' = 0
      BY <3>1 DEF InHand
    <3>3. CASE step = 4 /\ Cleared
      <4>1. queued = 0
        BY <1>0, <2>1, <3>2, <3>3 DEF Cleared
      <4>2. PublisherIdle'
        BY <3>1, <4>1 DEF PublisherIdle
      <4>3. Cleared'
        BY <2>1, <3>3, <4>2, Zenon DEF Cleared
      <4> QED BY <1>0, <3>3, <4>3, TablePlaces
    <3>4. CASE step >= 6 /\ HasRecord /\ Recorded
      <4>1. queued = 0
        BY <1>0, <3>2, <3>4 DEF Recorded
      <4>2. PublisherIdle'
        BY <3>1, <4>1 DEF PublisherIdle
      <4>3. /\ queued' + InHand' + mqtt'.published = mqtt_before'.published + 1
            /\ mqtt'.published >= mqtt_before'.published
        BY <1>0, <2>1, <3>1, <3>2, <3>4, <4>1 DEF Recorded
      <4>4. Recorded'
        BY <4>2, <4>3, Zenon DEF Recorded
      <4> QED BY <1>0, <2>2, <3>4, <4>4, TablePlaces, Zenon
    <3> QED BY <2>3, <3>3, <3>4
  <2> QED BY <1>5, <2>4, <2>5
<1>6. CASE Tick
  <2>1. /\ UNCHANGED <<mqtt_before, inbox, action, has_active_alarm, queued, in_flight, mqtt>>
        /\ wait \in Nat \ {0} /\ wait' = wait - 1
        /\ spent' = IF PublisherIdle THEN 0 ELSE spent + 1
    <3>1. wait \in Nat \ {0}
      BY <1>0, <1>6, TickWaits
    <3> QED BY <1>6, <3>1 DEF Tick
  <2>2. HasRecord' <=> HasRecord
    BY <2>1, Zenon DEF HasRecord, Handled, NotifydIdle
  <2>3. PublisherIdle' <=> PublisherIdle
    BY <2>1, Zenon DEF PublisherIdle
  <2>4. ~PublisherIdle => spent' + wait' = spent + wait
    BY <1>0, <2>1
  <2>5. Cleared => Cleared'
    BY <2>1, <2>3, <2>4, Zenon DEF Cleared, InHand
  <2>6. Clean => Clean'
    BY <2>1, <2>3, Zenon DEF Clean
  <2>7. Recorded => Recorded'
    BY <2>1, <2>3, <2>4, Zenon DEF Recorded, InHand
  <2>8. (IF HasRecord THEN Recorded ELSE Clean) => (IF HasRecord THEN Recorded ELSE Clean)'
    BY <2>2, <2>6, <2>7, Zenon
  <2> QED BY <1>0, <2>3, <2>5, <2>6, <2>8, Zenon DEF TableInv
<1> QED BY <1>2, <1>3, <1>4, <1>5, <1>6

\* Every step of a calm run keeps it.
LEMMA TableStep ==
  ASSUME PlaceInv, CalmParts, Timely, CalmStep
  PROVE  TableInv'
<1> SUFFICES ASSUME test' \in 1 .. 12
             PROVE  TableInv'
  BY Counts DEF TableInv
<1>1. CASE DriverMoves
  BY <1>1, TableDriver
<1>2. CASE Validate \/ Acts \/ Classify \/ Take \/ Account \/ Tick
  <2>1. UNCHANGED <<test, step>>
    BY <1>2, Zenon DEF Validate, Acts, Classify, Take, Account, Tick, driver
  <2> QED BY <1>2, <2>1, TableOther
<1>3. CASE UNCHANGED vars
  <2>1. TableInv
    BY DEF CalmParts
  <2> QED BY <1>3, <2>1, Zenon DEF TableInv, Cleared, Clean, Recorded, HasRecord, Handled,
        NotifydIdle, PublisherIdle, InHand, vars, driver, notifyd, publisher
<1> QED BY <1>1, <1>2, <1>3, Zenon DEF CalmStep

-----------------------------------------------------------------------------
(***************************************************************************)
(* The broker test.                                                        *)
(***************************************************************************)
\* Both its events are the fire alarm; the second is served early in a long
\* sleep.
LEMMA BrokerServing ==
  ASSUME PlaceInv, TypeInv, ServeInv, Timely, test = BrokerTest, ~NotifydIdle
  PROVE  /\ step \in {7, 8, 18, 19} /\ Tail(inbox) = <<>>
         /\ is_supported_event_type(Head(inbox).name)
         /\ event_validation_check(Head(inbox).name, Head(inbox).msg) = "ok"
         /\ step = 19 => wait >= MQTT_ASYNC_SETTLE
<1> DEFINE s == tests[test]
<1>1. PICK j \in {step - 1, step - 2} :
        /\ Sends(test, j)
        /\ Head(inbox) = s[j].arg /\ Tail(inbox) = <<>>
        /\ step = j + 2 => wait + age >= s[j + 1].arg
  BY Serving, Zenon
<1>2. j \in DOMAIN s /\ s[j].op = "send"
  BY <1>1 DEF Sends
<1>3. /\ DOMAIN s = 1 .. 19
      /\ \A k \in {1, 2, 3, 13, 14, 15} : s[k].op = "cancel"
      /\ s[4].op = "before" /\ s[16].op = "before"
      /\ s[5].op = "stop" /\ s[12].op = "start"
      /\ \A k \in {6, 17} : s[k].arg = Alarm("fire", "critical")
      /\ \A k \in {7, 10, 18} : s[k].op = "sleep"
      /\ s[18].arg = TEST_SETTLE + MQTT_ASYNC_SETTLE
      /\ s[8].op = "expect" /\ s[9].op = "expect"
      /\ s[11].op = "outage" /\ s[19].op = "recovery"
  BY BrokerOps, Zenon
<1> HIDE DEF s
<1>4. j = 6 \/ j = 17
  BY <1>2, <1>3
<1>5. step \in {7, 8, 18, 19} /\ (step = 19 => j = 17)
  BY <1>1, <1>4 DEF PlaceInv
<1>6. Head(inbox) = Alarm("fire", "critical")
  BY <1>1, <1>3, <1>4
<1>7. Class(Head(inbox)) = "accepted"
  BY <1>6, FireAndPanic
<1>8. /\ is_supported_event_type(Head(inbox).name)
      /\ event_validation_check(Head(inbox).name, Head(inbox).msg) = "ok"
  BY <1>7 DEF Class
<1>9. step = 19 => wait >= MQTT_ASYNC_SETTLE
  <2>1. SUFFICES ASSUME step = 19
                 PROVE  wait >= MQTT_ASYNC_SETTLE
    OBVIOUS
  <2>2. wait + age >= TEST_SETTLE + MQTT_ASYNC_SETTLE
    BY <1>1, <1>3, <1>5, <2>1
  <2>3. wait \in Nat /\ age \in Nat /\ age < TEST_OVERLAP_GAP
    BY TimeAssumption DEF TypeInv, Timely, TEST_OVERLAP_GAP
  <2> QED BY <2>2, <2>3 DEF TEST_SETTLE, MQTT_ASYNC_SETTLE, TEST_OVERLAP_GAP
<1> QED BY <1>1, <1>5, <1>8, <1>9

\* Sleeping takes from what is left of the sleeps no more than it waits.
LEMMA StillLeft ==
  \A a, b, v, s, k \in Nat : a + 0 + s >= k /\ a <= b + v => b + v + s >= k
OBVIOUS

\* The sleeps in ticks.
LEMMA SleepTicks ==
  /\ TEST_SETTLE = 5 /\ MQTT_ASYNC_SETTLE = 7 /\ CANCEL_SETTLE = 2 /\ BROKER_SETTLE = 5
  /\ OutageSleeps = 17 /\ TEST_OVERLAP_GAP = 2
  /\ \A k \in 6 .. 11 :
       OutageTicks(k) = IF k <= 7 THEN 12 ELSE IF k <= 10 THEN 7 ELSE 0
  /\ CleanTicks(13) = 11 /\ CleanTicks(14) = 9 /\ CleanTicks(15) = 7 /\ CleanTicks(16) = 0
  /\ \A k \in 17 .. 19 : RecoveryTicks(k) = IF k <= 18 THEN 12 ELSE 0
BY DEF TEST_SETTLE, MQTT_ASYNC_SETTLE, CANCEL_SETTLE, BROKER_SETTLE, OutageSleeps,
   TEST_OVERLAP_GAP, OutageTicks, CleanTicks, RecoveryTicks

\* The driver while the broker is stopped: what it slept is taken from what is left.
LEMMA OutageDriver ==
  ASSUME PlaceInv, CalmParts, Timely, DriverMoves, test' = BrokerTest, step' \in 5 .. 11
  PROVE  OutageInv'
<1>0. /\ TypeInv /\ ServeInv /\ PublisherInv /\ OutageInv /\ BrokerTest = 16 /\ total = 17
      /\ wait \in Nat /\ queued \in Nat /\ spent \in Nat
      /\ mqtt.failed \in Nat /\ mqtt_before.failed \in Nat
      /\ in_flight \in {"none", "reached", "refused", "either"}
  BY Counts, TimeAssumption DEF CalmParts, TypeInv
<1>1. /\ Moves /\ test = BrokerTest /\ test' = test /\ step' = step + 1
      /\ step \in 4 .. 10 /\ wait = 0
  <2>1. test # 0
    BY <1>0, Counts DEF DriverMoves, Begins, Silences, Clears, Looks, Emits, Rests, Switches,
       Checked, Moves
  <2>2. Moves
    BY <2>1, Kinds
  <2> QED BY <1>0, <2>2, MovesTo DEF Moves, PlaceInv
<1>2. Now = tests[BrokerTest][step] /\ test # 0
  BY <1>0, <1>1 DEF Now
<1>3. ASSUME mqtt'.failed >= mqtt_before'.failed, step' >= 6 => Outage'
      PROVE  OutageInv'
  BY <1>3, Zenon DEF OutageInv
<1>4. CASE step = 4
  <2>1. Looks
    BY <1>2, <1>4, BrokerOps, Kinds
  <2>2. mqtt'.failed >= mqtt_before'.failed
    <3>1. mqtt' = mqtt /\ mqtt_before' = mqtt
      BY <2>1, Zenon DEF Looks, publisher
    <3> QED BY <1>0, <3>1
  <2>3. ~(step' >= 6)
    BY <1>1, <1>4
  <2> QED BY <1>3, <2>2, <2>3
<1>5. CASE step = 5
  <2>1. Switches /\ Now.op = "stop" /\ Now.arg = BROKER_SETTLE
    BY <1>2, <1>5, BrokerOps, Kinds
  <2>2. /\ ~broker_up' /\ UNCHANGED <<mqtt_before, queued, spent, mqtt>>
        /\ in_flight' = IF in_flight = "none" THEN "none" ELSE "either"
    BY <2>1, Zenon DEF Switches
  <2>3. wait' \in Nat /\ wait' >= 5
    BY <2>1, TimeAssumption DEF Switches, Settle, BROKER_SETTLE
  <2>4. OutageLeft' >= OutageSleeps /\ OutageLeft' >= MQTT_ASYNC_SETTLE
    <3> DEFINE n == wait'
    <3>1. n \in Nat /\ n >= 5
      BY <2>3
    <3> HIDE DEF n
    <3>2. step' = 6 /\ OutageTicks(step') = 12
      BY <1>1, <1>5, SleepTicks
    <3>3. OutageLeft' = 12 + n + spent
      BY <2>2, <3>2, Zenon DEF OutageLeft, n
    <3>4. 12 + n + spent >= 17 /\ 12 + n + spent >= 7
      BY <1>0, <3>1
    <3> QED BY <3>3, <3>4, SleepTicks, Zenon
  <2>5. in_flight' # "either" => in_flight' = "none" /\ (PublisherIdle' <=> queued = 0)
    BY <2>2 DEF PublisherIdle
  <2>6. in_flight' # "reached" /\ step' = 6 /\ step' >= 6
    BY <1>1, <1>5, <2>2
  <2>7. Outage'
    BY <2>2, <2>4, <2>5, <2>6, Zenon DEF Outage
  <2>8. mqtt'.failed >= mqtt_before'.failed
    <3>1. step \in 5 .. 11
      BY <1>5
    <3> QED BY <1>0, <1>1, <2>2, <3>1, Zenon DEF OutageInv
  <2> QED BY <1>3, <2>7, <2>8
\* From here on the publisher is only watched.
<1>6. ASSUME step \in 6 .. 10, UNCHANGED <<mqtt_before, publisher, broker_up>>,
             step = 6 \/ ToCome => ToCome', OutageTicks(step) <= OutageTicks(step') + wait',
             wait' \in Nat
      PROVE  OutageInv'
  <2>1. /\ step \in 5 .. 11 /\ step >= 6
        /\ OutageTicks(step) \in Nat /\ OutageTicks(step') \in Nat
    BY <1>1, <1>6, SleepTicks
  <2>2. mqtt.failed >= mqtt_before.failed /\ Outage
    BY <1>0, <1>1, <2>1, Zenon DEF OutageInv
  <2>3. \A k \in {OutageSleeps, MQTT_ASYNC_SETTLE} : OutageLeft >= k => OutageLeft' >= k
    <3>1. OutageLeft = OutageTicks(step) + 0 + spent
      BY <1>1, Zenon DEF OutageLeft
    <3>2. OutageLeft' = OutageTicks(step') + wait' + spent
      BY <1>6, Zenon DEF OutageLeft, publisher
    <3>3. \A k \in {OutageSleeps, MQTT_ASYNC_SETTLE} : k \in Nat
      BY SleepTicks
    <3> QED BY <1>0, <1>6, <2>1, <3>1, <3>2, <3>3, StillLeft, Zenon
  <2>4. /\ UNCHANGED <<queued, in_flight, mqtt, broker_up, mqtt_before>>
        /\ PublisherIdle' <=> PublisherIdle
    BY <1>6, Zenon DEF publisher, PublisherIdle
  <2>5. Outage'
    <3>1. /\ OutageLeft >= OutageSleeps => (OutageLeft >= OutageSleeps)'
          /\ OutageLeft >= MQTT_ASYNC_SETTLE => (OutageLeft >= MQTT_ASYNC_SETTLE)'
      BY <2>3, Zenon DEF OutageSleeps
    <3>2. Noted => Noted'
      BY <2>4, Zenon DEF Noted
    <3>3. (~broker_up)' /\ (in_flight # "reached")'
      BY <2>2, <2>4, Zenon DEF Outage
    <3> QED BY <1>6, <2>2, <2>4, <3>1, <3>2, <3>3, Zenon DEF Outage
  <2> QED BY <1>3, <2>2, <2>4, <2>5, Zenon
<1>7. CASE step = 6
  <2>1. Now.op = "send" /\ Now.arg = Alarm("fire", "critical")
    BY <1>2, <1>7, BrokerOps
  <2>2. Emits
    BY <1>2, <2>1, Kinds
  <2>3. NotifydIdle /\ action = 0
    <3>1. NotifydIdle
      BY <1>0, <1>1, <2>1, AwakeIsIdle
    <3> QED BY <1>0, <3>1 DEF ServeInv
  <2>4. inbox' = <<Now.arg>> /\ action' = 0
    BY <2>1, <2>2, <2>3, FireAndPanic DEF Emits, NotifydIdle
  <2>5. ToCome'
    BY <2>4 DEF ToCome, NotifydIdle, index
  <2>6. OutageTicks(step) <= OutageTicks(step') + wait' /\ wait' = 0
    <3>1. OutageTicks(step) = 12 /\ OutageTicks(step') = 12
      BY <1>1, <1>7, SleepTicks
    <3>2. wait' = 0
      BY <1>1, <2>2 DEF Emits
    <3> QED BY <3>1, <3>2
  <2>7. UNCHANGED <<mqtt_before, publisher, broker_up>>
    BY <2>2, Zenon DEF Emits
  <2> QED BY <1>6, <1>7, <2>5, <2>6, <2>7
<1>8. CASE step \in {7, 10}
  <2>1. Rests /\ Now.arg = (IF step = 7 THEN 5 ELSE 7)
    BY <1>2, <1>8, BrokerOps, Kinds, SleepTicks
  <2>2. wait' \in Nat /\ wait' >= (IF step = 7 THEN 5 ELSE 7)
    BY <2>1, TimeAssumption DEF Rests, Settle
  <2>3. OutageTicks(step) <= OutageTicks(step') + wait'
    <3> DEFINE n == wait'
    <3>1. n \in Nat /\ n >= (IF step = 7 THEN 5 ELSE 7)
      BY <2>2
    <3> HIDE DEF n
    <3>2. /\ step = 7 => OutageTicks(step) = 12 /\ OutageTicks(step') = 7
          /\ step = 10 => OutageTicks(step) = 7 /\ OutageTicks(step') = 0
      BY <1>1, <1>8, SleepTicks
    <3>3. OutageTicks(step) <= OutageTicks(step') + n
      BY <1>8, <3>1, <3>2
    <3> QED BY <3>3 DEF n
  <2>4. UNCHANGED <<mqtt_before, inbox, action, publisher, broker_up>>
    BY <2>1, Zenon DEF Rests, notifyd
  <2>5. step = 6 \/ ToCome => ToCome'
    BY <1>8, <2>4 DEF ToCome, NotifydIdle
  <2>6. step \in 6 .. 10
    BY <1>8
  <2> QED BY <1>6, <2>2, <2>3, <2>4, <2>5, <2>6
<1>9. CASE step \in {8, 9}
  <2>1. Checked
    BY <1>2, <1>9, BrokerOps, Kinds DEF Checks
  <2>2. UNCHANGED <<wait, mqtt_before, inbox, action, publisher, broker_up>>
    BY <2>1, Zenon DEF Checked, notifyd
  <2>3. OutageTicks(step) <= OutageTicks(step') + wait'
    <3>1. OutageTicks(step) = 7 /\ OutageTicks(step') = 7
      BY <1>1, <1>9, SleepTicks
    <3>2. wait' = 0
      BY <1>1, <2>2
    <3> QED BY <3>1, <3>2
  <2>4. step = 6 \/ ToCome => ToCome'
    BY <1>9, <2>2 DEF ToCome, NotifydIdle
  <2>5. step \in 6 .. 10 /\ wait' \in Nat
    BY <1>0, <1>9, <2>2
  <2> QED BY <1>6, <2>2, <2>3, <2>4, <2>5
<1> QED BY <1>1, <1>4, <1>5, <1>7, <1>8, <1>9

\* notifyd, the publisher and time while the broker is stopped.
LEMMA OutageOther ==
  ASSUME PlaceInv, CalmParts, Timely, test = BrokerTest, step \in 5 .. 11,
         UNCHANGED <<test, step>>, Validate \/ Acts \/ Classify \/ Take \/ Account \/ Tick
  PROVE  OutageInv'
<1>0. /\ TypeInv /\ ServeInv /\ PublisherInv
      /\ wait \in Nat /\ queued \in Nat /\ spent \in Nat /\ spent < MQTT_ASYNC_SETTLE
      /\ mqtt.failed \in Nat /\ mqtt_before.failed \in Nat
      /\ in_flight \in {"none", "reached", "refused", "either"}
      /\ OutageTicks(step) \in Nat
  BY Counts, TimeAssumption, SleepTicks DEF CalmParts, TypeInv, Timely, OutageTicks
<1>1. /\ mqtt.failed >= mqtt_before.failed
      /\ step >= 6 => Outage
  BY Zenon DEF CalmParts, OutageInv
<1>2. ASSUME mqtt'.failed >= mqtt_before'.failed, step >= 6 => Outage'
      PROVE  OutageInv'
  BY <1>2, Zenon DEF OutageInv
<1>3. CASE UNCHANGED <<publisher, mqtt_before, wait, broker_up>> /\ (ToCome => ToCome')
  <2>1. UNCHANGED <<queued, in_flight, spent, mqtt>>
    BY <1>3, Zenon DEF publisher
  <2>2. Outage => Outage'
    BY <1>3, <2>1, Zenon DEF Outage, Noted, PublisherIdle, OutageLeft
  <2> QED BY <1>1, <1>2, <1>3, <2>1, <2>2, Zenon
<1>4. CASE Validate
  <2>1. ~NotifydIdle /\ UNCHANGED <<publisher, mqtt_before, wait, broker_up>>
    BY <1>4, Zenon DEF Validate, NotifydIdle, broker, driver
  <2>2. event_validation_check(Head(inbox).name, Head(inbox).msg) = "ok"
    BY <1>0, <2>1, BrokerServing
  <2>3. action' = 1 /\ UNCHANGED inbox
    BY <1>4, <2>2, Zenon DEF Validate
  <2>4. ToCome'
    BY <2>1, <2>3 DEF ToCome, NotifydIdle, index
  <2> QED BY <1>3, <2>1, <2>4
<1>5. CASE Classify
  <2>1. UNCHANGED <<publisher, mqtt_before, wait, broker_up>> /\ action > Len(alarm_actions)
    BY <1>5, Zenon DEF Classify, broker, driver
  <2>2. ~ToCome
    <3>1. action > 3 /\ action \in 0 .. 4
      BY <1>0, <2>1 DEF alarm_actions, TypeInv
    <3> QED BY <3>1 DEF ToCome, index
  <2> QED BY <1>3, <2>1, <2>2
<1>6. CASE Acts
  <2>1. /\ UNCHANGED <<mqtt_before, wait, inbox, in_flight, spent, mqtt, broker_up>>
        /\ action \in 1 .. 3 /\ action' = action + 1
    BY <1>6, Zenon DEF Acts, driver
  <2>2. ~NotifydIdle /\ ~NotifydIdle'
    BY <1>0, <2>1 DEF ServeInv, NotifydIdle
  <2>3. step \in {7, 8} /\ is_supported_event_type(Head(inbox).name)
    BY <1>0, <2>2, BrokerServing
  <2>4. CASE action # 3
    <3>1. ToCome'
      BY <2>1, <2>2, <2>4 DEF ToCome, index
    <3>2. alarm_actions[action] # "mqtt"
      BY <2>1, <2>4 DEF alarm_actions
    <3>3. UNCHANGED publisher
      BY <1>6, <2>1, <3>2, Zenon DEF Acts, publisher
    <3> QED BY <1>3, <2>1, <3>1, <3>3
  <2>5. CASE action = 3
    <3>1. alarm_actions[action] = "mqtt" /\ "mqtt" \notin Reactions
      BY <2>5 DEF alarm_actions, Reactions
    <3>2. queued' = queued + (IF has_active_alarm THEN 2 ELSE 1)
      BY <1>6, <2>3, <3>1, Zenon DEF Acts
    <3>3. queued' > 0 /\ ~PublisherIdle'
      <4> DEFINE n == IF has_active_alarm THEN 2 ELSE 1
      <4>1. n \in Nat /\ n > 0
        OBVIOUS
      <4> HIDE DEF n
      <4>2. queued' = queued + n
        BY <3>2 DEF n
      <4> QED BY <1>0, <4>1, <4>2 DEF PublisherIdle
    <3>4. OutageLeft' = OutageLeft
      BY <2>1, Zenon DEF OutageLeft
    <3>5. OutageLeft >= MQTT_ASYNC_SETTLE
      <4>1. OutageTicks(step) = 12 \/ OutageTicks(step) = 7
        BY <2>3, SleepTicks
      <4> QED BY <1>0, <4>1, SleepTicks DEF OutageLeft
    <3>6. step >= 6 /\ step # 6
      BY <2>3
    <3>7. Outage
      BY <1>1, <3>6
    <3>8. Outage'
      <4>1. (~broker_up)' /\ (in_flight # "reached")'
        BY <2>1, <3>7, Zenon DEF Outage
      <4>2. Noted => Noted'
        BY <2>1, Zenon DEF Noted
      <4>3. /\ (OutageLeft >= MQTT_ASYNC_SETTLE)'
            /\ OutageLeft >= OutageSleeps => (OutageLeft >= OutageSleeps)'
        BY <3>4, <3>5, Zenon DEF OutageSleeps
      <4>4. \/ Noted
            \/ in_flight = "either" /\ OutageLeft >= OutageSleeps
            \/ in_flight # "either"
        BY <3>7, Zenon DEF Outage, PublisherIdle
      <4> QED BY <2>1, <3>3, <4>1, <4>2, <4>3, <4>4, Zenon DEF Outage
    <3> QED BY <1>1, <1>2, <2>1, <3>8, Zenon
  <2> QED BY <2>4, <2>5
<1>7. CASE Take
  <2>1. /\ UNCHANGED <<mqtt_before, wait, inbox, action, spent, mqtt, broker_up>>
        /\ queued > 0 /\ in_flight = "none"
        /\ in_flight' = IF broker_up THEN "reached" ELSE "refused"
    BY <1>7, Zenon DEF Take, broker, driver, notifyd
  <2>2. ~PublisherIdle /\ ~PublisherIdle'
    BY <1>0, <2>1 DEF PublisherIdle
  <2>3. Outage => Outage'
    <3>1. SUFFICES ASSUME Outage PROVE Outage'
      OBVIOUS
    <3>2. /\ ~broker_up /\ in_flight' = "refused"
          /\ Noted \/ OutageLeft >= MQTT_ASYNC_SETTLE
      BY <2>1, <2>2, <3>1, Zenon DEF Outage
    <3>3. /\ (in_flight # "either")' /\ (in_flight # "reached")' /\ (~broker_up)'
          /\ OutageLeft' = OutageLeft
      BY <2>1, <3>2, Zenon DEF OutageLeft
    <3>4. Noted => Noted'
      BY <2>1, <3>3, Zenon DEF Noted
    <3> QED BY <2>2, <3>2, <3>3, <3>4, Zenon DEF Outage
  <2> QED BY <1>1, <1>2, <2>1, <2>3, Zenon
<1>8. CASE Account
  <2>1. PICK ok \in BOOLEAN :
          /\ in_flight = "reached" => ok
          /\ in_flight = "refused" => ~ok
          /\ mqtt' = [published |-> mqtt.published + IF ok THEN 1 ELSE 0,
                      failed |-> mqtt.failed + IF ok THEN 0 ELSE 1,
                      connected |-> ok]
    BY <1>8, Zenon DEF Account
  <2>2. /\ UNCHANGED <<mqtt_before, wait, inbox, action, queued, broker_up>>
        /\ in_flight # "none" /\ in_flight' = "none" /\ spent' = 0
    BY <1>8, Zenon DEF Account, broker, driver, notifyd
  <2>3. /\ mqtt'.failed >= mqtt_before'.failed
        /\ ~ok => ~mqtt'.connected /\ mqtt'.failed > mqtt_before'.failed
    BY <1>0, <1>1, <2>1, <2>2
  <2>4. Outage => Outage'
    <3>1. SUFFICES ASSUME Outage PROVE Outage'
      OBVIOUS
    <3>2. /\ (in_flight # "either")' /\ (in_flight # "reached")' /\ (~broker_up)'
      BY <2>2, <3>1 DEF Outage
    <3>3. CASE ~ok
      BY <2>3, <3>2, <3>3, Zenon DEF Outage, Noted
    <3>4. CASE ok
      <4>1. in_flight = "either"
        BY <1>0, <2>1, <2>2, <3>1, <3>4, Zenon DEF Outage
      <4>2. OutageLeft >= OutageSleeps /\ (queued > 0 \/ step = 6 \/ ToCome)
        BY <3>1, <4>1, Zenon DEF Outage, Noted, PublisherIdle
      <4>3. OutageLeft' >= MQTT_ASYNC_SETTLE
        <5>1. OutageLeft' = OutageTicks(step) + wait + 0
          BY <2>2, Zenon DEF OutageLeft
        <5>2. OutageTicks(step) + wait + 0 >= 7
          BY <1>0, <4>2, SleepTicks DEF OutageLeft
        <5> QED BY <5>1, <5>2, SleepTicks, Zenon
      <4>4. PublisherIdle' <=> queued = 0
        BY <2>2 DEF PublisherIdle
      <4>5. queued > 0 \/ queued = 0
        BY <1>0
      <4>6. queued > 0 => queued # 0
        OBVIOUS
      <4>7. ToCome => ToCome'
        BY <2>2, Zenon DEF ToCome, NotifydIdle
      <4>8. (PublisherIdle /\ (step = 6 \/ ToCome))'
             \/ (~PublisherIdle /\ OutageLeft >= MQTT_ASYNC_SETTLE)'
        BY <4>2, <4>3, <4>4, <4>5, <4>6, <4>7, Zenon
      <4> QED BY <3>2, <4>8, Zenon DEF Outage
    <3> QED BY <3>3, <3>4
  <2> QED BY <1>1, <1>2, <2>3, <2>4, Zenon
<1>9. CASE Tick
  <2>1. /\ UNCHANGED <<mqtt_before, inbox, action, queued, in_flight, mqtt, broker_up>>
        /\ wait \in Nat \ {0} /\ wait' = wait - 1
        /\ spent' = IF PublisherIdle THEN 0 ELSE spent + 1
    <3>1. wait \in Nat \ {0}
      BY <1>0, <1>9, TickWaits
    <3> QED BY <1>9, <3>1 DEF Tick
  <2>2. PublisherIdle' <=> PublisherIdle
    BY <2>1, Zenon DEF PublisherIdle
  <2>3. ~PublisherIdle => OutageLeft' = OutageLeft
    BY <1>0, <2>1 DEF OutageLeft
  <2>4. ToCome' <=> ToCome
    BY <2>1, Zenon DEF ToCome, NotifydIdle
  <2>5. Noted => Noted'
    BY <2>1, Zenon DEF Noted
  <2>6. Outage => Outage'
    <3>1. ~PublisherIdle =>
            /\ OutageLeft >= MQTT_ASYNC_SETTLE => (OutageLeft >= MQTT_ASYNC_SETTLE)'
            /\ OutageLeft >= OutageSleeps => (OutageLeft >= OutageSleeps)'
      BY <2>3, Zenon DEF OutageSleeps
    <3>2. in_flight = "either" => ~PublisherIdle
      BY DEF PublisherIdle
    <3> QED BY <2>1, <2>2, <2>4, <2>5, <3>1, <3>2, Zenon DEF Outage
  <2> QED BY <1>1, <1>2, <2>1, <2>6, Zenon
<1> QED BY <1>4, <1>5, <1>6, <1>7, <1>8, <1>9

\* While the broker is down a record is refused, or is still to be.
LEMMA OutageStep ==
  ASSUME PlaceInv, CalmParts, Timely, CalmStep
  PROVE  OutageInv'
<1> SUFFICES ASSUME test' = BrokerTest, step' \in 5 .. 11
             PROVE  OutageInv'
  BY Zenon DEF OutageInv
<1>1. CASE DriverMoves
  BY <1>1, OutageDriver
<1>2. CASE Validate \/ Acts \/ Classify \/ Take \/ Account \/ Tick
  <2>1. UNCHANGED <<test, step>>
    BY <1>2, Zenon DEF Validate, Acts, Classify, Take, Account, Tick, driver
  <2> QED BY <1>2, <2>1, OutageOther
<1>3. CASE UNCHANGED vars
  <2>1. OutageInv
    BY DEF CalmParts
  <2> QED BY <1>3, <2>1, Zenon DEF OutageInv, Outage, broker, Noted, ToCome, OutageLeft,
        NotifydIdle, PublisherIdle, vars, driver, notifyd, publisher
<1> QED BY <1>1, <1>2, <1>3, Zenon DEF CalmStep

\* The driver once the broker is started again.
LEMMA RecoveryDriver ==
  ASSUME PlaceInv, CalmParts, Timely, DriverMoves, test' = BrokerTest, step' \in 13 .. 19
  PROVE  RecoveryInv'
<1>0. /\ TypeInv /\ ServeInv /\ PublisherInv /\ RecoveryInv /\ BrokerTest = 16 /\ total = 17
      /\ wait \in Nat /\ queued \in Nat /\ spent \in Nat /\ spent < MQTT_ASYNC_SETTLE
      /\ mqtt.published \in Nat /\ mqtt_before.published \in Nat
      /\ in_flight \in {"none", "reached", "refused", "either"}
  BY Counts, TimeAssumption, SleepTicks DEF CalmParts, TypeInv, Timely
<1>1. /\ Moves /\ test = BrokerTest /\ test' = test /\ step' = step + 1
      /\ step \in 12 .. 18 /\ wait = 0
  <2>1. test # 0
    BY <1>0, Counts DEF DriverMoves, Begins, Silences, Clears, Looks, Emits, Rests, Switches,
       Checked, Moves
  <2>2. Moves
    BY <2>1, Kinds
  <2> QED BY <1>0, <2>2, MovesTo DEF Moves, PlaceInv
<1>2. Now = tests[BrokerTest][step] /\ test # 0
  BY <1>0, <1>1 DEF Now
\* Before the second snapshot.
<1>3. ASSUME step \in 12 .. 15, broker_up', in_flight' # "refused", wait' \in Nat,
             spent' = spent, step = 15 => wait' >= 7
      PROVE  RecoveryInv'
  <2> DEFINE n == wait'
  <2>1. n \in Nat /\ (step = 15 => n >= 7)
    BY <1>3
  <2>2. CleanLeft' = CleanTicks(step') + n + spent
    BY <1>3, Zenon DEF CleanLeft
  <2> HIDE DEF n
  <2>3. CleanTicks(step') + n + spent >= 7
    <3>1. CleanTicks(step') = IF step = 12 THEN 11 ELSE IF step = 13 THEN 9
                              ELSE IF step = 14 THEN 7 ELSE 0
      BY <1>1, <1>3, SleepTicks
    <3> QED BY <1>0, <1>3, <2>1, <3>1
  <2>4. CleanLeft' >= MQTT_ASYNC_SETTLE
    BY <2>2, <2>3, SleepTicks, Zenon
  <2>5. ~(step' >= 17)
    BY <1>1, <1>3
  <2> QED BY <1>3, <2>4, <2>5, Zenon DEF RecoveryInv
<1>4. ASSUME step \in 13 .. 15
      PROVE  broker_up /\ in_flight # "refused"
  <2>1. step \in 13 .. 19
    BY <1>4
  <2> QED BY <1>0, <1>1, <2>1, Zenon DEF RecoveryInv
<1>5. CASE step = 12
  <2>1. Switches /\ Now.op = "start"
    BY <1>2, <1>5, BrokerOps, Kinds
  <2>2. /\ broker_up' /\ UNCHANGED spent
        /\ in_flight' = IF in_flight = "none" THEN "none" ELSE "either"
    BY <2>1, Zenon DEF Switches
  <2>3. wait' \in Nat
    BY <1>1, <2>1, WaitIsTicks, TimeAssumption DEF Switches, Settle, Moves
  <2>4. in_flight' # "refused"
    BY <2>2
  <2>5. step \in 12 .. 15 /\ step # 15
    BY <1>5
  <2> QED BY <1>3, <2>2, <2>3, <2>4, <2>5
<1>6. CASE step \in 13 .. 14
  <2>1. Now.op = "cancel" /\ Now.of \in Reactions
    BY <1>2, <1>6, BrokerOps DEF Reactions
  <2>2. Silences
    BY <1>2, <2>1, Kinds
  <2>3. wait' \in Nat
    BY <1>1, <2>2, WaitIsTicks, TimeAssumption DEF Silences, Settle, Moves
  <2>4. UNCHANGED <<in_flight, spent, broker_up>>
    BY <2>2, Zenon DEF Silences, publisher
  <2>5. step \in 12 .. 15 /\ step \in 13 .. 15 /\ step # 15
    BY <1>6
  <2> QED BY <1>3, <1>4, <2>3, <2>4, <2>5
<1>7. CASE step = 15
  <2>1. Now.op = "cancel" /\ Now.of = "mqtt" /\ Now.arg = 7
    BY <1>2, <1>7, BrokerOps, SleepTicks
  <2>2. Clears
    BY <1>2, <2>1, Kinds
  <2>3. wait' \in Nat /\ wait' >= 7
    BY <2>1, <2>2, TimeAssumption DEF Clears, Settle
  <2>4. UNCHANGED <<in_flight, spent, broker_up>>
    BY <2>2, Zenon DEF Clears
  <2>5. step \in 12 .. 15 /\ step \in 13 .. 15
    BY <1>7
  <2> QED BY <1>3, <1>4, <2>3, <2>4, <2>5
\* From the second snapshot on.
<1>8. CASE step = 16
  <2>1. Looks
    BY <1>2, <1>8, BrokerOps, Kinds
  <2>2. broker_up /\ in_flight # "refused" /\ (in_flight = "either" => CleanLeft >= MQTT_ASYNC_SETTLE)
    <3>1. step \in 13 .. 19 /\ step <= 16
      BY <1>8
    <3> QED BY <1>0, <1>1, <3>1, Zenon DEF RecoveryInv
  <2>3. in_flight # "either"
    <3>1. ~(CleanLeft >= MQTT_ASYNC_SETTLE)
      BY <1>0, <1>1, <1>8, SleepTicks DEF CleanLeft
    <3> QED BY <2>2, <3>1
  <2>4. /\ UNCHANGED <<queued, in_flight, spent, wait, broker_up>>
        /\ mqtt' = mqtt /\ mqtt_before' = mqtt
    BY <2>1, Zenon DEF Looks, publisher
  <2>5. RecoveryLeft' >= MQTT_ASYNC_SETTLE
    <3>1. step' = 17 /\ RecoveryTicks(step') = 12
      BY <1>1, <1>8, SleepTicks
    <3>2. RecoveryLeft' = 12 + 0 + spent
      BY <1>1, <2>4, <3>1, Zenon DEF RecoveryLeft
    <3>3. 12 + 0 + spent >= 7
      BY <1>0
    <3> QED BY <3>2, <3>3, SleepTicks, Zenon
  <2>6. step' = 17 /\ ~(step' <= 16)
    BY <1>1, <1>8
  <2>7. mqtt'.published >= mqtt_before'.published
    BY <1>0, <2>4
  <2>8. Recovery'
    BY <2>3, <2>4, <2>5, <2>6, <2>7, Zenon DEF Recovery
  <2> QED BY <2>2, <2>4, <2>6, <2>8, Zenon DEF RecoveryInv
<1>9. ASSUME step \in 17 .. 18, UNCHANGED <<mqtt_before, publisher, broker_up>>,
             step = 17 \/ ToCome => ToCome',
             RecoveryTicks(step) <= RecoveryTicks(step') + wait', wait' \in Nat
      PROVE  RecoveryInv'
  <2>1. /\ step \in 13 .. 19 /\ step >= 17 /\ ~(step' <= 16)
        /\ RecoveryTicks(step) \in Nat /\ RecoveryTicks(step') \in Nat
    BY <1>1, <1>9, SleepTicks
  <2>2. broker_up /\ in_flight # "refused" /\ Recovery
    BY <1>0, <1>1, <2>1, Zenon DEF RecoveryInv
  <2>3. RecoveryLeft >= MQTT_ASYNC_SETTLE => RecoveryLeft' >= MQTT_ASYNC_SETTLE
    <3>1. RecoveryLeft = RecoveryTicks(step) + 0 + spent
      BY <1>1, Zenon DEF RecoveryLeft
    <3>2. RecoveryLeft' = RecoveryTicks(step') + wait' + spent
      BY <1>9, Zenon DEF RecoveryLeft, publisher
    <3>3. MQTT_ASYNC_SETTLE \in Nat
      BY SleepTicks
    <3> QED BY <1>0, <1>9, <2>1, <3>1, <3>2, <3>3, StillLeft, Zenon
  <2>4. /\ UNCHANGED <<queued, in_flight, mqtt, broker_up, mqtt_before>>
        /\ PublisherIdle' <=> PublisherIdle
    BY <1>9, Zenon DEF publisher, PublisherIdle
  <2>5. Recovery'
    BY <1>9, <2>2, <2>3, <2>4, Zenon DEF Recovery
  <2> QED BY <2>1, <2>2, <2>4, <2>5, Zenon DEF RecoveryInv
<1>10. CASE step = 17
  <2>1. Now.op = "send" /\ Now.arg = Alarm("fire", "critical")
    BY <1>2, <1>10, BrokerOps
  <2>2. Emits
    BY <1>2, <2>1, Kinds
  <2>3. NotifydIdle /\ action = 0
    <3>1. NotifydIdle
      BY <1>0, <1>1, <2>1, AwakeIsIdle
    <3> QED BY <1>0, <3>1 DEF ServeInv
  <2>4. inbox' = <<Now.arg>> /\ action' = 0
    BY <2>1, <2>2, <2>3, FireAndPanic DEF Emits, NotifydIdle
  <2>5. ToCome'
    BY <2>4 DEF ToCome, NotifydIdle, index
  <2>6. RecoveryTicks(step) <= RecoveryTicks(step') + wait' /\ wait' = 0
    <3>1. RecoveryTicks(step) = 12 /\ RecoveryTicks(step') = 12
      BY <1>1, <1>10, SleepTicks
    <3>2. wait' = 0
      BY <1>1, <2>2 DEF Emits
    <3> QED BY <3>1, <3>2
  <2>7. UNCHANGED <<mqtt_before, publisher, broker_up>>
    BY <2>2, Zenon DEF Emits
  <2> QED BY <1>9, <1>10, <2>5, <2>6, <2>7
<1>11. CASE step = 18
  <2>1. Rests /\ Now.arg = 12
    BY <1>2, <1>11, BrokerOps, Kinds, SleepTicks
  <2>2. wait' \in Nat /\ wait' >= 12
    BY <2>1, TimeAssumption DEF Rests, Settle
  <2>3. RecoveryTicks(step) <= RecoveryTicks(step') + wait'
    <3> DEFINE n == wait'
    <3>1. n \in Nat /\ n >= 12
      BY <2>2
    <3> HIDE DEF n
    <3>2. RecoveryTicks(step) = 12 /\ RecoveryTicks(step') = 0
      BY <1>1, <1>11, SleepTicks
    <3>3. RecoveryTicks(step) <= RecoveryTicks(step') + n
      BY <3>1, <3>2
    <3> QED BY <3>3 DEF n
  <2>4. UNCHANGED <<mqtt_before, inbox, action, publisher, broker_up>>
    BY <2>1, Zenon DEF Rests, notifyd
  <2>5. step = 17 \/ ToCome => ToCome'
    BY <1>11, <2>4 DEF ToCome, NotifydIdle
  <2>6. step \in 17 .. 18
    BY <1>11
  <2> QED BY <1>9, <2>2, <2>3, <2>4, <2>5, <2>6
<1> QED BY <1>1, <1>5, <1>6, <1>7, <1>8, <1>10, <1>11

\* notifyd, the publisher and time once the broker is started again.
LEMMA RecoveryOther ==
  ASSUME PlaceInv, CalmParts, Timely, test = BrokerTest, step \in 13 .. 19,
         UNCHANGED <<test, step>>, Validate \/ Acts \/ Classify \/ Take \/ Account \/ Tick
  PROVE  RecoveryInv'
<1>0. /\ TypeInv /\ ServeInv /\ PublisherInv
      /\ wait \in Nat /\ queued \in Nat /\ spent \in Nat
      /\ mqtt.published \in Nat /\ mqtt_before.published \in Nat
      /\ in_flight \in {"none", "reached", "refused", "either"}
      /\ RecoveryTicks(step) \in Nat /\ CleanTicks(step) \in Nat
  BY Counts, TimeAssumption, SleepTicks DEF CalmParts, TypeInv, RecoveryTicks, CleanTicks
<1>1. /\ broker_up /\ in_flight # "refused"
      /\ step <= 16 /\ in_flight = "either" => CleanLeft >= MQTT_ASYNC_SETTLE
      /\ step >= 17 => Recovery
  BY Zenon DEF CalmParts, RecoveryInv
<1>2. ASSUME UNCHANGED broker_up, in_flight' # "refused",
             in_flight' = "either" => in_flight = "either" /\ CleanLeft' = CleanLeft,
             step >= 17 => Recovery'
      PROVE  RecoveryInv'
  BY <1>1, <1>2, Zenon DEF RecoveryInv
<1>3. CASE UNCHANGED <<publisher, mqtt_before, wait, broker_up>> /\ (ToCome => ToCome')
  <2>1. UNCHANGED <<queued, in_flight, spent, mqtt>>
    BY <1>3, Zenon DEF publisher
  <2>2. Recovery => Recovery'
    BY <1>3, <2>1, Zenon DEF Recovery, PublisherIdle, RecoveryLeft
  <2>3. CleanLeft' = CleanLeft
    BY <1>3, <2>1, Zenon DEF CleanLeft
  <2> QED BY <1>1, <1>2, <1>3, <2>1, <2>2, <2>3, Zenon
<1>4. CASE Validate
  <2>1. ~NotifydIdle /\ UNCHANGED <<publisher, mqtt_before, wait, broker_up>>
    BY <1>4, Zenon DEF Validate, NotifydIdle, broker, driver
  <2>2. event_validation_check(Head(inbox).name, Head(inbox).msg) = "ok"
    BY <1>0, <2>1, BrokerServing
  <2>3. action' = 1 /\ UNCHANGED inbox
    BY <1>4, <2>2, Zenon DEF Validate
  <2>4. ToCome'
    BY <2>1, <2>3 DEF ToCome, NotifydIdle, index
  <2> QED BY <1>3, <2>1, <2>4
<1>5. CASE Classify
  <2>1. UNCHANGED <<publisher, mqtt_before, wait, broker_up>> /\ action > Len(alarm_actions)
    BY <1>5, Zenon DEF Classify, broker, driver
  <2>2. ~ToCome
    <3>1. action > 3 /\ action \in 0 .. 4
      BY <1>0, <2>1 DEF alarm_actions, TypeInv
    <3> QED BY <3>1 DEF ToCome, index
  <2> QED BY <1>3, <2>1, <2>2
<1>6. CASE Acts
  <2>1. /\ UNCHANGED <<mqtt_before, wait, inbox, in_flight, spent, mqtt, broker_up>>
        /\ action \in 1 .. 3 /\ action' = action + 1
    BY <1>6, Zenon DEF Acts, driver
  <2>2. ~NotifydIdle /\ ~NotifydIdle'
    BY <1>0, <2>1 DEF ServeInv, NotifydIdle
  <2>3. step \in {18, 19} /\ is_supported_event_type(Head(inbox).name)
        /\ (step = 19 => wait >= MQTT_ASYNC_SETTLE)
    BY <1>0, <2>2, BrokerServing
  <2>4. CASE action # 3
    <3>1. ToCome'
      BY <2>1, <2>2, <2>4 DEF ToCome, index
    <3>2. alarm_actions[action] # "mqtt"
      BY <2>1, <2>4 DEF alarm_actions
    <3>3. UNCHANGED publisher
      BY <1>6, <2>1, <3>2, Zenon DEF Acts, publisher
    <3> QED BY <1>3, <2>1, <3>1, <3>3
  <2>5. CASE action = 3
    <3>1. alarm_actions[action] = "mqtt" /\ "mqtt" \notin Reactions
      BY <2>5 DEF alarm_actions, Reactions
    <3>2. queued' = queued + (IF has_active_alarm THEN 2 ELSE 1)
      BY <1>6, <2>3, <3>1, Zenon DEF Acts
    <3>3. ~PublisherIdle'
      <4> DEFINE n == IF has_active_alarm THEN 2 ELSE 1
      <4>1. n \in Nat /\ n > 0
        OBVIOUS
      <4> HIDE DEF n
      <4>2. queued' = queued + n
        BY <3>2 DEF n
      <4> QED BY <1>0, <4>1, <4>2 DEF PublisherIdle
    <3>4. RecoveryLeft' = RecoveryLeft /\ CleanLeft' = CleanLeft
      BY <2>1, Zenon DEF RecoveryLeft, CleanLeft
    <3>5. RecoveryLeft >= MQTT_ASYNC_SETTLE
      <4>1. RecoveryTicks(step) = 12 \/ wait >= MQTT_ASYNC_SETTLE
        BY <2>3, SleepTicks
      <4> QED BY <1>0, <4>1, SleepTicks DEF RecoveryLeft
    <3>6. Recovery
      <4>1. step >= 17
        BY <2>3
      <4> QED BY <1>1, <4>1
    <3>7. Recovery'
      <4>1. (RecoveryLeft >= MQTT_ASYNC_SETTLE)'
        BY <3>4, <3>5, Zenon
      <4> QED BY <2>1, <3>3, <3>6, <4>1, Zenon DEF Recovery
    <3> QED BY <1>1, <1>2, <2>1, <3>4, <3>7, Zenon
  <2> QED BY <2>4, <2>5
<1>7. CASE Take
  <2>1. /\ UNCHANGED <<mqtt_before, wait, spent, mqtt, broker_up>>
        /\ queued > 0 /\ in_flight = "none" /\ in_flight' = "reached"
    BY <1>1, <1>7, Zenon DEF Take, broker, driver
  <2>2. ~PublisherIdle /\ ~PublisherIdle'
    BY <1>0, <2>1 DEF PublisherIdle
  <2>3. RecoveryLeft' = RecoveryLeft
    BY <2>1, Zenon DEF RecoveryLeft
  <2>4. (in_flight # "either")' /\ (in_flight # "refused")'
    BY <2>1
  <2>5. Recovery => Recovery'
    BY <2>1, <2>2, <2>3, <2>4, Zenon DEF Recovery
  <2> QED BY <1>1, <1>2, <2>1, <2>4, <2>5, Zenon
<1>8. CASE Account
  <2>1. PICK ok \in BOOLEAN :
          /\ in_flight = "reached" => ok
          /\ mqtt' = [published |-> mqtt.published + IF ok THEN 1 ELSE 0,
                      failed |-> mqtt.failed + IF ok THEN 0 ELSE 1,
                      connected |-> ok]
    BY <1>8, Zenon DEF Account
  <2>2. /\ UNCHANGED <<mqtt_before, broker_up>>
        /\ in_flight # "none" /\ in_flight' = "none"
    BY <1>8, Zenon DEF Account, broker, driver
  <2>3. Recovery => Recovery'
    <3>1. SUFFICES ASSUME Recovery PROVE Recovery'
      OBVIOUS
    <3>2. in_flight = "reached"
      BY <1>0, <1>1, <2>2, <3>1 DEF Recovery
    <3>3. /\ mqtt'.connected /\ mqtt'.published > mqtt_before'.published
          /\ mqtt'.published >= mqtt_before'.published
      BY <1>0, <2>1, <2>2, <3>1, <3>2 DEF Recovery
    <3>4. (in_flight # "either")'
      BY <2>2
    <3> QED BY <3>3, <3>4, Zenon DEF Recovery
  <2>4. in_flight' # "either" /\ in_flight' # "refused"
    BY <2>2
  <2> QED BY <1>1, <1>2, <2>2, <2>3, <2>4, Zenon
<1>9. CASE Tick
  <2>1. /\ UNCHANGED <<mqtt_before, inbox, action, queued, in_flight, mqtt, broker_up>>
        /\ wait \in Nat \ {0} /\ wait' = wait - 1
        /\ spent' = IF PublisherIdle THEN 0 ELSE spent + 1
    <3>1. wait \in Nat \ {0}
      BY <1>0, <1>9, TickWaits DEF CalmParts
    <3> QED BY <1>9, <3>1 DEF Tick
  <2>2. PublisherIdle' <=> PublisherIdle
    BY <2>1, Zenon DEF PublisherIdle
  <2>3. ~PublisherIdle => RecoveryLeft' = RecoveryLeft /\ CleanLeft' = CleanLeft
    BY <1>0, <2>1 DEF RecoveryLeft, CleanLeft
  <2>4. ToCome' <=> ToCome
    BY <2>1, Zenon DEF ToCome, NotifydIdle
  <2>5. Recovery => Recovery'
    <3>1. ~PublisherIdle =>
            (RecoveryLeft >= MQTT_ASYNC_SETTLE => (RecoveryLeft >= MQTT_ASYNC_SETTLE)')
      BY <2>3, Zenon
    <3> QED BY <2>1, <2>2, <2>4, <3>1, Zenon DEF Recovery
  <2>6. in_flight = "either" => ~PublisherIdle
    BY DEF PublisherIdle
  <2> QED BY <1>1, <1>2, <2>1, <2>3, <2>5, <2>6, Zenon
<1> QED BY <1>4, <1>5, <1>6, <1>7, <1>8, <1>9

\* Once the broker is back the record of the second event is published.
LEMMA RecoveryStep ==
  ASSUME PlaceInv, CalmParts, Timely, CalmStep
  PROVE  RecoveryInv'
<1> SUFFICES ASSUME test' = BrokerTest, step' \in 13 .. 19
             PROVE  RecoveryInv'
  BY Zenon DEF RecoveryInv
<1>1. CASE DriverMoves
  BY <1>1, RecoveryDriver
<1>2. CASE Validate \/ Acts \/ Classify \/ Take \/ Account \/ Tick
  <2>1. UNCHANGED <<test, step>>
    BY <1>2, Zenon DEF Validate, Acts, Classify, Take, Account, Tick, driver
  <2> QED BY <1>2, <2>1, RecoveryOther
<1>3. CASE UNCHANGED vars
  <2>1. RecoveryInv
    BY DEF CalmParts
  <2> QED BY <1>3, <2>1, Zenon DEF RecoveryInv, Recovery, broker, ToCome, RecoveryLeft, CleanLeft,
        NotifydIdle, PublisherIdle, vars, driver, notifyd, publisher
<1> QED BY <1>1, <1>2, <1>3, Zenon DEF CalmStep

-----------------------------------------------------------------------------
(***************************************************************************)
(* The counters.                                                           *)
(***************************************************************************)
\* A move of the driver adds the event it sends, if that is delivered.
LEMMA SentMoves ==
  ASSUME PlaceInv, Moves, NEW class \in Classes
  PROVE  Sent(class, test', step') =
           Sent(class, test, step)
             + Bit(Now.op = "send" /\ Class(Now.arg) = class /\ Delivered(Now.arg))
<1>0. test \in 1 .. 17 /\ step \in DOMAIN tests[test] /\ Now = tests[test][step]
      /\ Len(tests[test]) \in Nat /\ DOMAIN tests[test] = 1 .. Len(tests[test])
  BY Counts, Script DEF Moves, PlaceInv, Now
<1>1. CASE test \in 1 .. 12
  <2>1. Len(tests[test]) = 10 /\ step \in 1 .. 10
    BY <1>0, <1>1, TableOps
  <2>2. Now.op = "send" <=> step = 5
    BY <1>0, <1>1, <2>1, TableOps
  <2>3. step = 5 => Now.arg = test_cases[test].event
    BY <1>0, <1>1, TableOps
  <2>4. \/ step \in 1 .. 9 /\ test' = test /\ step' = step + 1
        \/ step = 10 /\ test' = test + 1 /\ step' = 1
    BY <2>1, MovesTo
  <2>5. /\ Class(test_cases[test].event) =
             IF test <= 5 THEN "accepted" ELSE IF test <= 8 THEN "ignored" ELSE "invalid"
        /\ Delivered(test_cases[test].event) <=> test # 8
    BY <1>1, CaseEvents, Zenon
  <2>6. Sent(class, test', step') =
          Sent(class, test, step)
            + Bit(step = 5 /\ test # 8
                  /\ class = IF test <= 5 THEN "accepted" ELSE IF test <= 8 THEN "ignored"
                                                          ELSE "invalid")
    <3>1. CASE step = 10
      BY <1>1, <2>4, <3>1 DEF Sent, Bit, Classes
    <3>2. CASE step \in 6 .. 9
      BY <1>1, <2>4, <3>2 DEF Sent, Bit, Classes
    <3>3. CASE step = 5
      BY <1>1, <2>4, <3>3 DEF Sent, Bit, Classes
    <3>4. CASE step \in 1 .. 4
      BY <1>1, <2>4, <3>4 DEF Sent, Bit, Classes
    <3> QED BY <2>1, <3>1, <3>2, <3>3, <3>4
  <2> QED BY <2>2, <2>3, <2>5, <2>6, Zenon
<1>2. CASE test = 13
  <2>1. Len(tests[test]) = 9 /\ step \in 1 .. 9
    BY <1>0, <1>2, TestIs, OverlapSteps
  <2>2. Now.op = "send" <=> step \in {3, 6}
    BY <1>0, <1>2, <2>1, TestIs, OverlapSteps DEF cancel_siren, cancel_led, Do, Send, Sleep,
       Expect
  <2>3. step \in {3, 6} => Class(Now.arg) = "accepted" /\ Delivered(Now.arg)
    <3>1. step \in {3, 6} => Now.arg = Alarm("fire", "critical") \/ Now.arg = Alarm("panic", "critical")
      BY <1>0, <1>2, TestIs, OverlapSteps DEF Do, Send
    <3> QED BY <3>1, FireAndPanic
  <2>4. \/ step \in 1 .. 8 /\ test' = test /\ step' = step + 1
        \/ step = 9 /\ test' = test + 1 /\ step' = 1
    BY <2>1, MovesTo
  <2>5. Sent(class, test', step') =
          Sent(class, test, step) + Bit(step \in {3, 6} /\ class = "accepted")
    BY <1>2, <2>4 DEF Sent, Bit, Classes
  <2> QED BY <2>2, <2>3, <2>5 DEF Bit
<1>3. CASE test \in {14, 15, 17}
  <2>1. Len(tests[test]) = 4 /\ step \in 1 .. 4 /\ Now.op # "send"
    <3>1. CASE test = 14
      BY <1>0, <3>1, TestIs, SirenRpcSteps DEF cancel_siren, Do
    <3>2. CASE test = 15
      BY <1>0, <3>2, TestIs, LedRpcSteps DEF cancel_led, Do
    <3>3. CASE test = 17
      BY <1>0, <3>3, TestIs, CleanUpSteps DEF Do
    <3> QED BY <1>3, <3>1, <3>2, <3>3
  <2>2. \/ step \in 1 .. 3 /\ test' = test /\ step' = step + 1
        \/ step = 4 /\ test' = test + 1 /\ step' = 1
    BY <2>1, MovesTo
  <2>3. Sent(class, test', step') = Sent(class, test, step)
    BY <1>3, <2>2 DEF Sent, Bit, Classes
  <2>4. Sent(class, test, step) \in Int
    BY <1>3, <2>2 DEF Sent, Bit, Classes
  <2> QED BY <2>1, <2>3, <2>4 DEF Bit
<1>4. CASE test = 16
  <2> DEFINE s == tests[BrokerTest]
  <2>1. Len(s) = 19 /\ step \in 1 .. 19 /\ Now = s[step]
    BY <1>0, <1>4, BrokerOps, Counts
  <2>2. /\ \A k \in {1, 2, 3, 13, 14, 15} : s[k].op = "cancel"
        /\ s[4].op = "before" /\ s[16].op = "before"
        /\ s[5].op = "stop" /\ s[12].op = "start"
        /\ \A k \in {6, 17} : s[k].op = "send" /\ s[k].arg = Alarm("fire", "critical")
        /\ \A k \in {7, 10, 18} : s[k].op = "sleep"
        /\ s[8].op = "expect" /\ s[9].op = "expect"
        /\ s[11].op = "outage" /\ s[19].op = "recovery"
    BY BrokerOps, Zenon
  <2> HIDE DEF s
  <2>3. Now.op = "send" <=> step \in {6, 17}
    BY <2>1, <2>2
  <2>4. step \in {6, 17} => Class(Now.arg) = "accepted" /\ Delivered(Now.arg)
    <3>1. step \in {6, 17} => Now.arg = Alarm("fire", "critical")
      BY <2>1, <2>2
    <3> QED BY <3>1, FireAndPanic
  <2>5. \/ step \in 1 .. 18 /\ test' = test /\ step' = step + 1
        \/ step = 19 /\ test' = test + 1 /\ step' = 1
    <3>1. Len(tests[test]) = 19
      BY <1>4, <2>1, Counts DEF s
    <3> QED BY <2>1, <3>1, MovesTo
  <2>6. Sent(class, test', step') =
          Sent(class, test, step) + Bit(step \in {6, 17} /\ class = "accepted")
    BY <1>4, <2>5 DEF Sent, Bit, Classes
  <2> QED BY <2>3, <2>4, <2>6 DEF Bit
<1> QED BY <1>0, <1>1, <1>2, <1>3, <1>4

\* Counting once, and counting an event with its class.
LEMMA DeltaCounts ==
  ASSUME stats \in Stats, stats_before \in Stats, UNCHANGED stats_before,
         NEW g \in Classes \cup {"received", "sent", "failed"}
  PROVE  /\ Delta(g) \in Int
         /\ UNCHANGED stats => Delta(g)' = Delta(g)
         /\ stats' = [stats EXCEPT !.sent = @ + 1] =>
              Delta(g)' = Delta(g) + Bit(g = "sent")
         /\ \A class \in Classes :
              stats' = [stats EXCEPT !.received = @ + 1, ![class] = @ + 1] =>
                Delta(g)' = Delta(g) + Bit(g \in {"received", class})
<1> DEFINE F == {"received", "accepted", "ignored", "invalid", "sent", "failed"}
<1>1. /\ stats \in [F -> Nat] /\ stats_before \in [F -> Nat] /\ g \in F
      /\ stats_before' = stats_before
  BY DEF Stats, Classes
<1>2. stats[g] \in Nat /\ stats_before[g] \in Nat
  BY <1>1
<1>3. Delta(g) = stats[g] - stats_before[g] /\ Delta(g)' = stats'[g] - stats_before[g]
  BY <1>1 DEF Delta
<1>4. stats' = [stats EXCEPT !.sent = @ + 1] => stats'[g] = stats[g] + Bit(g = "sent")
  BY <1>1, <1>2 DEF Bit
<1>5. ASSUME NEW class \in Classes,
             stats' = [stats EXCEPT !.received = @ + 1, ![class] = @ + 1]
      PROVE  stats'[g] = stats[g] + Bit(g \in {"received", class})
  <2>1. class \in F /\ class # "received" /\ "received" \in F
    BY DEF Classes
  <2> HIDE DEF F
  <2>2. CASE g = "received"
    BY <1>1, <1>5, <2>1, <2>2 DEF Bit
  <2>3. CASE g = class
    BY <1>1, <1>5, <2>1, <2>3 DEF Bit
  <2>4. CASE g \notin {"received", class}
    BY <1>1, <1>2, <1>5, <2>1, <2>4 DEF Bit
  <2> QED BY <2>2, <2>3, <2>4
<1>6. \A b : Bit(b) \in Int
  BY DEF Bit
<1> HIDE DEF F
<1>7. stats' = [stats EXCEPT !.sent = @ + 1] => Delta(g)' = Delta(g) + Bit(g = "sent")
  BY <1>2, <1>3, <1>4, <1>6
<1>8. \A class \in Classes :
        stats' = [stats EXCEPT !.received = @ + 1, ![class] = @ + 1] =>
          Delta(g)' = Delta(g) + Bit(g \in {"received", class})
  <2> TAKE class \in Classes
  <2> HAVE stats' = [stats EXCEPT !.received = @ + 1, ![class] = @ + 1]
  <2> DEFINE n == Bit(g \in {"received", class})
  <2>1. n \in Int /\ stats'[g] = stats[g] + n
    BY <1>5, <1>6
  <2> HIDE DEF n
  <2>2. Delta(g)' = Delta(g) + n
    BY <1>2, <1>3, <2>1
  <2> QED BY <2>2 DEF n
<1>9. UNCHANGED stats => Delta(g)' = Delta(g)
  BY <1>3
<1>10. Delta(g) \in Int
  BY <1>2, <1>3
<1> QED BY <1>7, <1>8, <1>9, <1>10

\* The three ways the counters change with the event in service: not at all, by
\* an action that was sent, or by the event itself, classified as c.
Accounted(class) == Sent(class, test, step) - Owed(class)

CountsNone ==
  /\ UNCHANGED stats /\ Doing' = Doing
  /\ \A class \in Classes :
       Sent(class, test', step') - Owed(class)' = Accounted(class)

CountsSent ==
  /\ stats' = [stats EXCEPT !.sent = @ + 1] /\ Doing' = Doing + 1
  /\ \A class \in Classes :
       Sent(class, test', step') - Owed(class)' = Accounted(class)

CountsEvent(c) ==
  /\ stats' = [stats EXCEPT !.received = @ + 1, ![c] = @ + 1]
  /\ Doing = (IF c = "accepted" THEN 3 ELSE 0) /\ Doing' = 0
  /\ \A class \in Classes :
       Sent(class, test', step') - Owed(class)' = Accounted(class) + Bit(class = c)

Counting == CountsNone \/ CountsSent \/ \E c \in Classes : CountsEvent(c)

\* All that the differences of the counters are made of are numbers.
CountsAreNumbers ==
  /\ \A class \in Classes : Sent(class, test, step) \in Int /\ Owed(class) \in Int
  /\ Doing \in Int

\* Each of them keeps the counters in step with the script.
LEMMA StatsFrom ==
  ASSUME TypeInv, StatsInv, test > 0, UNCHANGED stats_before, CountsAreNumbers,
         CountsAreNumbers', Counting
  PROVE  StatsInv'
<1> DEFINE G == Classes \cup {"received", "sent", "failed"}
<1>1. stats \in Stats /\ stats_before \in Stats
  BY DEF TypeInv
<1>2. \A g \in G :
        /\ Delta(g) \in Int
        /\ UNCHANGED stats => Delta(g)' = Delta(g)
        /\ stats' = [stats EXCEPT !.sent = @ + 1] =>
             Delta(g)' = Delta(g) + Bit(g = "sent")
        /\ \A class \in Classes :
             stats' = [stats EXCEPT !.received = @ + 1, ![class] = @ + 1] =>
               Delta(g)' = Delta(g) + Bit(g \in {"received", class})
  BY <1>1, DeltaCounts
<1>3. /\ \A class \in Classes : Delta(class) = Sent(class, test, step) - Owed(class)
      /\ Delta("received") = Delta("accepted") + Delta("ignored") + Delta("invalid")
      /\ Delta("failed") = 0
      /\ Delta("sent") = 3 * Delta("accepted") + Doing
  BY DEF StatsInv, SIM_ACTIONS_PER_ACCEPTED_EVENT
<1>4. "accepted" \in G /\ "ignored" \in G /\ "invalid" \in G /\ "received" \in G
      /\ "sent" \in G /\ "failed" \in G /\ \A class \in Classes : class \in G
  BY DEF Classes
<1>5. ASSUME NEW class \in Classes
      PROVE  Delta(class)' = Sent(class, test', step') - Owed(class)'
  <2> DEFINE was == Accounted(class)
             is == Sent(class, test', step') - Owed(class)'
  <2>1. Delta(class) = was /\ was \in Int /\ is \in Int
    BY <1>3, <1>5 DEF CountsAreNumbers, Accounted
  <2>2. \/ /\ UNCHANGED stats \/ stats' = [stats EXCEPT !.sent = @ + 1]
           /\ is = was
        \/ \E c \in Classes :
             /\ stats' = [stats EXCEPT !.received = @ + 1, ![c] = @ + 1]
             /\ is = was + Bit(class = c)
    BY <1>5, Zenon DEF Counting, CountsNone, CountsSent, CountsEvent
  <2>3. class \in G /\ class # "sent" /\ class # "received"
    BY <1>5 DEF Classes
  <2> HIDE DEF was, is, G
  <2>4. CASE UNCHANGED stats /\ is = was
    BY <1>2, <2>1, <2>3, <2>4, Zenon DEF is
  <2>5. CASE stats' = [stats EXCEPT !.sent = @ + 1] /\ is = was
    <3>1. Delta(class)' = Delta(class) + 0
      BY <1>2, <2>3, <2>5 DEF Bit
    <3> QED BY <2>1, <2>5, <3>1 DEF is
  <2>6. ASSUME NEW c \in Classes,
               stats' = [stats EXCEPT !.received = @ + 1, ![c] = @ + 1],
               is = was + Bit(class = c)
        PROVE  Delta(class)' = is
    <3>1. Delta(class)' = Delta(class) + Bit(class \in {"received", c})
      BY <1>2, <2>3, <2>6, Zenon
    <3>2. (class \in {"received", c}) <=> (class = c)
      BY <2>3
    <3>3. Bit(class \in {"received", c}) = Bit(class = c)
      BY <3>2, Zenon DEF Bit
    <3> QED BY <2>1, <2>6, <3>1, <3>3, Zenon
  <2> QED BY <2>2, <2>4, <2>5, <2>6, Zenon DEF is
<1>6. /\ Delta("received")' = Delta("accepted")' + Delta("ignored")' + Delta("invalid")'
      /\ Delta("failed")' = 0
      /\ Delta("sent")' = 3 * Delta("accepted")' + Doing'
  <2> DEFINE r == Delta("received")
             a == Delta("accepted")
             i == Delta("ignored")
             v == Delta("invalid")
             s == Delta("sent")
             f == Delta("failed")
             d == Doing
  <2>1. r \in Int /\ a \in Int /\ i \in Int /\ v \in Int /\ s \in Int /\ f \in Int
        /\ d \in Int
    BY <1>2, <1>4 DEF CountsAreNumbers
  <2>0. r = a + i + v /\ f = 0 /\ s = 3 * a + d
    BY <1>3
  <2> HIDE DEF r, a, i, v, s, f, d
  <2>2. CASE UNCHANGED stats /\ Doing' = Doing
    <3>1. \A g \in {"received", "accepted", "ignored", "invalid", "sent", "failed"} :
            Delta(g)' = Delta(g)
      BY <1>2, <1>4, <2>2
    <3> QED BY <1>3, <2>1, <2>2, <3>1
  <2>3. CASE stats' = [stats EXCEPT !.sent = @ + 1] /\ Doing' = Doing + 1
    <3>1. \A g \in {"received", "accepted", "ignored", "invalid", "failed"} :
            Delta(g) \in Int /\ Delta(g)' = Delta(g) + 0
      BY <1>2, <1>4, <2>3 DEF Bit
    <3>2. Delta("sent")' = Delta("sent") + 1
      BY <1>2, <1>4, <2>3 DEF Bit
    <3>3. s + 1 = 3 * a + (d + 1)
      BY <2>0, <2>1
    <3>4. /\ Delta("received")' = r /\ Delta("accepted")' = a
          /\ Delta("ignored")' = i /\ Delta("invalid")' = v
          /\ Delta("failed")' = f /\ Delta("sent")' = s + 1
      BY <3>1, <3>2 DEF r, a, i, v, s, f
    <3>5. Doing' = d + 1
      BY <2>3 DEF d
    <3> QED BY <2>0, <3>3, <3>4, <3>5, Zenon
  <2>4. ASSUME NEW c \in Classes,
               stats' = [stats EXCEPT !.received = @ + 1, ![c] = @ + 1],
               Doing = (IF c = "accepted" THEN 3 ELSE 0), Doing' = 0
        PROVE  /\ Delta("received")' = Delta("accepted")' + Delta("ignored")' + Delta("invalid")'
               /\ Delta("failed")' = 0
               /\ Delta("sent")' = 3 * Delta("accepted")' + Doing'
    <3>1. \A g \in G : Delta(g)' = Delta(g) + Bit(g \in {"received", c})
      BY <1>2, <2>4
    <3>2. /\ Delta("received")' = r + 1 /\ Delta("failed")' = f + 0 /\ Delta("sent")' = s + 0
          /\ Delta("accepted")' = a + Bit(c = "accepted")
          /\ Delta("ignored")' = i + Bit(c = "ignored")
          /\ Delta("invalid")' = v + Bit(c = "invalid")
      <4>1. c \in {"accepted", "ignored", "invalid"}
        BY DEF Classes
      <4> HIDE DEF G
      <4> QED BY <1>4, <3>1, <4>1 DEF Bit, r, a, i, v, s, f
    <3> DEFINE a1 == Bit(c = "accepted")
               i1 == Bit(c = "ignored")
               v1 == Bit(c = "invalid")
    <3>3. /\ a1 \in Int /\ i1 \in Int /\ v1 \in Int /\ a1 + i1 + v1 = 1
          /\ d = 3 * a1
      BY <2>4 DEF Bit, Classes, d
    <3> HIDE DEF a1, i1, v1
    <3>4. r + 1 = (a + a1) + (i + i1) + (v + v1)
      BY <2>0, <2>1, <3>3
    <3>5. s = 3 * (a + a1) + 0
      BY <2>0, <2>1, <3>3
    <3>6. f + 0 = 0 /\ s + 0 = s
      BY <2>0, <2>1
    <3> QED BY <2>4, <3>2, <3>4, <3>5, <3>6, Zenon DEF a1, i1, v1
  <2> QED BY <2>2, <2>3, <2>4, Zenon DEF Counting, CountsNone, CountsSent, CountsEvent
<1> QED BY <1>5, <1>6 DEF StatsInv, SIM_ACTIONS_PER_ACCEPTED_EVENT

\* Where there is a place and an action, they are.
LEMMA CountsAreInts ==
  /\ test \in 1 .. 18 /\ action \in 0 .. 4 => CountsAreNumbers
  /\ test' \in 1 .. 18 /\ action' \in 0 .. 4 => CountsAreNumbers'
<1>1. \A t \in 1 .. 18 : \A k, class : class \in Classes => Sent(class, t, k) \in Int
  BY DEF Sent, Bit, Classes
<1>2. \A class \in Classes : Owed(class) \in Int /\ Owed(class)' \in Int
  BY DEF Owed, Bit
<1>3. /\ action \in 0 .. 4 => Doing \in Int
      /\ action' \in 0 .. 4 => Doing' \in Int
  BY DEF Doing
<1> QED BY <1>1, <1>2, <1>3 DEF CountsAreNumbers

\* A difference that stays, and one that grows with what was sent or settled.
LEMMA StillAccounted ==
  ASSUME CountsAreNumbers, CountsAreNumbers', NEW class \in Classes
  PROVE  /\ /\ Sent(class, test', step') = Sent(class, test, step)
            /\ Owed(class)' = Owed(class)
            => Sent(class, test', step') - Owed(class)' = Accounted(class)
         /\ \A n \in Int :
              /\ /\ Sent(class, test', step') = Sent(class, test, step) + n
                 /\ Owed(class)' = Owed(class) + n
                 => Sent(class, test', step') - Owed(class)' = Accounted(class)
              /\ /\ Sent(class, test', step') = Sent(class, test, step)
                 /\ Owed(class)' + n = Owed(class)
                 => Sent(class, test', step') - Owed(class)' = Accounted(class) + n
<1> DEFINE a == Sent(class, test, step)
           b == Owed(class)
           c == Sent(class, test', step')
           d == Owed(class)'
<1>1. a \in Int /\ b \in Int /\ c \in Int /\ d \in Int
  BY DEF CountsAreNumbers
<1> HIDE DEF a, b, c, d
<1>2. /\ c = a /\ d = b => c - d = a - b
      /\ \A n \in Int : /\ c = a + n /\ d = b + n => c - d = a - b
                        /\ c = a /\ d + n = b => c - d = (a - b) + n
  BY <1>1
<1> QED BY <1>2, Zenon DEF a, b, c, d, Accounted

\* The driver only adds the event it sends, which is in service at once.
LEMMA StatsDriver ==
  ASSUME PlaceInv, CalmParts, Timely, DriverMoves
  PROVE  StatsInv'
<1>0. /\ TypeInv /\ ServeInv /\ StatsInv /\ total = 17 /\ action \in 0 .. 4
      /\ stats \in Stats /\ \A b : Bit(b) \in Int
  BY Counts DEF CalmParts, TypeInv, Bit
<1>1. CASE test = 0
  <2>1. Begins
    <3>1. ~Moves
      BY <1>0, <1>1 DEF Moves
    <3> QED BY <3>1, Zenon DEF DriverMoves, Silences, Clears, Looks, Emits, Rests, Switches,
          Checked
  <2>2. test' = 1 /\ step' = 1 /\ stats_before' = stats /\ UNCHANGED notifyd
    BY <2>1, Zenon DEF Begins, PlaceInv
  <2>3. NotifydIdle /\ NotifydIdle'
    <3>1. ~ \E j : Sends(0, j)
      BY <1>0 DEF Sends
    <3>2. NotifydIdle
      BY <1>0, <1>1, <3>1, Serving, Zenon
    <3> QED BY <2>2, <3>2 DEF NotifydIdle, notifyd
  <2>4. \A g \in {"received", "accepted", "ignored", "invalid", "sent", "failed"} :
          Delta(g)' = 0
    BY <1>0, <2>2 DEF Delta, Stats, notifyd
  <2>5. Doing' = 0 /\ \A class \in Classes : Owed(class)' = 0
    BY <2>3 DEF Doing, Owed, Bit
  <2>6. \A class \in Classes : Sent(class, test', step') = 0
    BY <2>2 DEF Sent, Bit, Classes
  <2> QED BY <2>4, <2>5, <2>6 DEF StatsInv, Classes, SIM_ACTIONS_PER_ACCEPTED_EVENT
<1>2. CASE test # 0
  <2>2. Moves /\ test \in 1 .. 17 /\ wait = 0
    BY <1>0, <1>2, Kinds DEF Moves
  <2>3. UNCHANGED <<stats, stats_before, action>> /\ (~Emits => UNCHANGED inbox)
    BY <1>2, Zenon DEF DriverMoves, Begins, Silences, Clears, Looks, Emits, Rests, Switches,
       Checked, notifyd
  <2>4. test' \in 1 .. 18 /\ action' \in 0 .. 4
    BY <1>0, <2>2, <2>3, MovesTo
  <2>5. CountsAreNumbers /\ CountsAreNumbers'
    BY <1>0, <2>2, <2>4, CountsAreInts
  <2>6. CASE Now.op # "send"
    <3>1. UNCHANGED inbox
      BY <2>3, <2>6, Zenon DEF Emits
    <3>2. Doing' = Doing /\ \A class \in Classes : Owed(class)' = Owed(class)
      BY <2>3, <3>1, Zenon DEF Doing, Owed, NotifydIdle
    <3>3. ASSUME NEW class \in Classes
          PROVE  Sent(class, test', step') = Sent(class, test, step)
      <4>1. Sent(class, test', step') = Sent(class, test, step) + Bit(FALSE)
        <5>1. (Now.op = "send" /\ Class(Now.arg) = class /\ Delivered(Now.arg)) <=> FALSE
          BY <2>6
        <5> QED BY <2>2, <5>1, SentMoves, Zenon
      <4>2. Sent(class, test, step) \in Int
        BY <2>5 DEF CountsAreNumbers
      <4> QED BY <4>1, <4>2 DEF Bit
    <3>4. CountsNone
      BY <2>3, <2>5, <3>2, <3>3, StillAccounted, Zenon DEF CountsNone
    <3> QED BY <1>0, <2>2, <2>3, <2>5, <3>4, StatsFrom DEF Counting
  <2>7. CASE Now.op = "send"
    <3>1. Emits
      BY <1>2, <2>7, Kinds
    <3>2. NotifydIdle /\ action = 0
      <4>1. Now.op # "sleep"
        BY <2>7
      <4> QED BY <1>0, <2>2, <4>1, AwakeIsIdle, Zenon DEF ServeInv
    <3>3. inbox' = IF Delivered(Now.arg) THEN <<Now.arg>> ELSE <<>>
      BY <3>1, <3>2 DEF Emits, NotifydIdle
    <3>4. Doing = 0 /\ Doing' = 0
      BY <2>3, <3>2 DEF Doing
    <3>5. ASSUME NEW class \in Classes
          PROVE  Sent(class, test', step') - Owed(class)' = Accounted(class)
      <4> DEFINE n == Bit(Class(Now.arg) = class /\ Delivered(Now.arg))
      <4>1. Sent(class, test', step') = Sent(class, test, step) + n
        <5>1. (Now.op = "send" /\ Class(Now.arg) = class /\ Delivered(Now.arg))
                <=> (Class(Now.arg) = class /\ Delivered(Now.arg))
          BY <2>7
        <5> QED BY <2>2, <5>1, SentMoves, Zenon
      <4>2. Owed(class) = 0
        BY <3>2 DEF Owed, Bit
      <4>3. Owed(class)' = n
        <5>1. CASE Delivered(Now.arg)
          <6>1. inbox' # <<>> /\ Head(inbox') = Now.arg
            BY <3>3, <5>1
          <6> QED BY <5>1, <6>1 DEF Owed, NotifydIdle, Bit
        <5>2. CASE ~Delivered(Now.arg)
          BY <3>3, <5>2 DEF Owed, NotifydIdle, Bit
        <5> QED BY <5>1, <5>2
      <4>4. n \in Int
        BY <1>0
      <4> HIDE DEF n
      <4>5. Owed(class)' = Owed(class) + n
        BY <4>2, <4>3, <4>4
      <4> QED BY <2>5, <4>1, <4>4, <4>5, StillAccounted, Zenon
    <3>6. CountsNone
      BY <2>3, <3>4, <3>5, Zenon DEF CountsNone
    <3> QED BY <1>0, <2>2, <2>3, <2>5, <3>6, StatsFrom DEF Counting
  <2> QED BY <2>6, <2>7
<1> QED BY <1>1, <1>2

\* notifyd counts the event it serves once, and each of its actions once.
LEMMA StatsOther ==
  ASSUME PlaceInv, CalmParts, Timely, test > 0, UNCHANGED <<test, step>>,
         Validate \/ Acts \/ Classify \/ Take \/ Account \/ Tick
  PROVE  StatsInv'
<1>0. /\ TypeInv /\ ServeInv /\ StatsInv /\ action \in 0 .. 4 /\ test \in 1 .. 18
      /\ NotifydIdle => action = 0
  BY Counts DEF CalmParts, TypeInv, ServeInv, PlaceInv
<1>1. UNCHANGED stats_before
  BY Zenon DEF Validate, Acts, Classify, Take, Account, Tick, driver
<1>2. action' \in 0 .. 4
  BY <1>0 DEF Validate, Acts, Classify, Take, Account, Tick, notifyd
<1>3. CountsAreNumbers /\ CountsAreNumbers'
  BY <1>0, <1>2, CountsAreInts
<1>4. \A class \in Classes : Sent(class, test', step') = Sent(class, test, step)
  BY Zenon
<1>5. CASE UNCHANGED <<stats, inbox>> /\ Doing' = Doing
  <2>1. \A class \in Classes : Owed(class)' = Owed(class)
    BY <1>5, Zenon DEF Owed, NotifydIdle
  <2>2. CountsNone
    BY <1>3, <1>4, <1>5, <2>1, StillAccounted, Zenon DEF CountsNone
  <2> QED BY <1>0, <1>1, <1>3, <2>2, StatsFrom DEF Counting
\* The event leaves notifyd.
<1>6. ASSUME NEW c \in Classes, ~NotifydIdle, Class(Head(inbox)) = c, inbox' = Tail(inbox),
             action' = 0, stats' = [stats EXCEPT !.received = @ + 1, ![c] = @ + 1],
             Doing = (IF c = "accepted" THEN 3 ELSE 0)
      PROVE  StatsInv'
  <2>1. inbox' = <<>>
    BY <1>0, <1>6, Serving, Zenon
  <2>2. Doing' = 0 /\ \A class \in Classes : Owed(class)' = 0
    BY <2>1 DEF Doing, Owed, NotifydIdle, Bit
  <2>3. \A class \in Classes : Owed(class) = Bit(class = c)
    BY <1>6 DEF Owed, Bit
  <2>4. \A class \in Classes : Bit(class = c) \in Int /\ Owed(class)' + Bit(class = c) = Owed(class)
    BY <2>2, <2>3 DEF Bit
  <2>5. CountsEvent(c)
    BY <1>3, <1>4, <1>6, <2>2, <2>4, StillAccounted, Zenon DEF CountsEvent
  <2> QED BY <1>0, <1>1, <1>3, <2>5, StatsFrom DEF Counting
<1>7. CASE Validate
  <2>1. ~NotifydIdle /\ action = 0
    BY <1>7, Zenon DEF Validate, NotifydIdle
  <2>2. CASE event_validation_check(Head(inbox).name, Head(inbox).msg) = "ok"
    <3>1. UNCHANGED <<inbox, stats>> /\ action' = 1
      BY <1>7, <2>2, Zenon DEF Validate
    <3>2. Doing = 0 /\ Doing' = 0
      BY <2>1, <3>1 DEF Doing
    <3> QED BY <1>5, <3>1, <3>2, Zenon
  <2>3. CASE event_validation_check(Head(inbox).name, Head(inbox).msg) # "ok"
    <3>1. /\ stats' = [stats EXCEPT !.received = @ + 1, !["invalid"] = @ + 1]
          /\ inbox' = Tail(inbox) /\ action' = 0
      BY <1>7, <2>1, <2>3, Zenon DEF Validate
    <3>2. Class(Head(inbox)) = "invalid" /\ "invalid" \in Classes
      BY <2>3 DEF Class, Classes
    <3>3. Doing = (IF "invalid" = "accepted" THEN 3 ELSE 0)
      BY <2>1 DEF Doing
    <3> QED BY <1>6, <2>1, <3>1, <3>2, <3>3, Zenon
  <2> QED BY <2>2, <2>3
<1>8. CASE Acts
  <2>1. UNCHANGED inbox /\ action \in 1 .. 3 /\ action' = action + 1 /\ ~NotifydIdle
    BY <1>0, <1>8 DEF Acts
  <2>2. ~NotifydIdle' /\ Head(inbox') = Head(inbox)
    BY <2>1, Zenon DEF NotifydIdle
  <2>3. is_supported_event_type(Head(inbox).name) <=> Class(Head(inbox)) = "accepted"
    <3>1. Class(Head(inbox)) # "invalid"
      BY <1>0, <2>1, Serving
    <3> QED BY <3>1 DEF Class
  <2>4. CASE is_supported_event_type(Head(inbox).name)
    <3>1. stats' = [stats EXCEPT !.sent = @ + 1]
      BY <1>8, <2>4, Zenon DEF Acts
    <3>2. Doing' = Doing + 1
      BY <2>1, <2>2, <2>3, <2>4 DEF Doing
    <3>3. \A class \in Classes : Owed(class)' = Owed(class)
      BY <2>1, Zenon DEF Owed, NotifydIdle
    <3>4. CountsSent
      BY <1>3, <1>4, <3>1, <3>2, <3>3, StillAccounted, Zenon DEF CountsSent
    <3> QED BY <1>0, <1>1, <1>3, <3>4, StatsFrom DEF Counting
  <2>5. CASE ~is_supported_event_type(Head(inbox).name)
    <3>1. UNCHANGED stats
      BY <1>8, <2>5, Zenon DEF Acts
    <3>2. Doing = 0 /\ Doing' = 0
      BY <2>1, <2>2, <2>3, <2>5, Zenon DEF Doing
    <3> QED BY <1>5, <2>1, <3>1, <3>2, Zenon
  <2> QED BY <2>4, <2>5
<1>9. CASE Classify
  <2>1. action = 4 /\ ~NotifydIdle
    BY <1>0, <1>9 DEF Classify, alarm_actions
  <2>2. Class(Head(inbox)) # "invalid"
    BY <1>0, <2>1, Serving
  <2>3. Class(Head(inbox)) =
          IF is_supported_event_type(Head(inbox).name) THEN "accepted" ELSE "ignored"
    BY <2>2 DEF Class
  <2> DEFINE c == Class(Head(inbox))
  <2>4. c \in Classes
    BY <2>3 DEF Classes
  <2>5. /\ stats' = [stats EXCEPT !.received = @ + 1, ![c] = @ + 1]
        /\ inbox' = Tail(inbox) /\ action' = 0
    BY <1>9, <2>3, Zenon DEF Classify
  <2>6. Doing = (IF c = "accepted" THEN 3 ELSE 0)
    BY <2>1 DEF Doing
  <2> HIDE DEF c
  <2> QED BY <1>6, <2>1, <2>4, <2>5, <2>6, Zenon DEF c
<1>10. CASE Take \/ Account \/ Tick
  <2>1. UNCHANGED <<stats, inbox, action>>
    BY <1>10, Zenon DEF Take, Account, Tick, notifyd
  <2>2. Doing' = Doing
    BY <2>1, Zenon DEF Doing, NotifydIdle
  <2> QED BY <1>5, <2>1, <2>2, Zenon
<1> QED BY <1>7, <1>8, <1>9, <1>10

\* The counters stay in step with the script.
LEMMA StatsStep ==
  ASSUME PlaceInv, CalmParts, Timely, CalmStep
  PROVE  StatsInv'
<1>1. CASE DriverMoves
  BY <1>1, StatsDriver
<1>2. CASE Validate \/ Acts \/ Classify \/ Take \/ Account \/ Tick
  <2>1. UNCHANGED <<test, step>>
    BY <1>2, Zenon DEF Validate, Acts, Classify, Take, Account, Tick, driver
  <2>2. CASE test > 0
    BY <1>2, <2>1, <2>2, StatsOther, Zenon
  <2>3. CASE ~(test > 0)
    BY <2>1, <2>3, Zenon DEF StatsInv
  <2> QED BY <2>2, <2>3
<1>3. CASE UNCHANGED vars
  <2>1. UNCHANGED <<test, step, inbox, action, stats, stats_before>> /\ StatsInv
    BY <1>3, Zenon DEF vars, driver, notifyd, CalmParts
  <2> QED BY <2>1, Zenon DEF StatsInv, Delta, Owed, Doing, NotifydIdle
<1> QED BY <1>1, <1>2, <1>3, Zenon DEF CalmStep

-----------------------------------------------------------------------------
(***************************************************************************)
(* The sleeps are long enough.                                             *)
(***************************************************************************)
\* Before the driver starts there is nothing to be covered by a sleep.
LEMMA CalmInit == Init => CalmInv
<1>1. ASSUME Init
      PROVE  faults \in Nat /\ (Calm => PublisherIdle)
  <2>1. faults = (IF PublisherIdle THEN 0 ELSE 1)
    BY <1>1, Zenon DEF Init
  <2> QED BY <2>1 DEF Calm
<1> SUFFICES ASSUME Init, Calm
             PROVE  CalmParts
  BY <1>1, Zenon DEF CalmInv
<1>2. /\ test = 0 /\ step = 1 /\ wait = 0 /\ failed_tests = {} /\ stale = {}
      /\ inbox = <<>> /\ action = 0 /\ age = 0 /\ spent = 0 /\ broker_up = TRUE
      /\ has_active_alarm \in BOOLEAN /\ in_flight \in {"none", "reached"}
      /\ mqtt_before = ZeroMqtt /\ stats_before = ZeroStats
      /\ stats = [received |-> 7, accepted |-> 3, ignored |-> 2, invalid |-> 2,
                  sent |-> 8, failed |-> 1]
      /\ down = [s \in Services |-> 0]
  BY Zenon DEF Init
<1>3. queued = 0 /\ in_flight = "none" /\ PublisherIdle
  BY <1>1, Zenon DEF PublisherIdle
<1>4. table_count = 12 /\ BrokerTest = 16 /\ total = 17
  BY Counts
<1>5. TypeInv
  <2>1. /\ stats \in Stats /\ stats_before \in Stats
        /\ mqtt_before \in [published : Nat, failed : Nat, connected : BOOLEAN]
    BY <1>2 DEF Stats, ZeroStats, ZeroMqtt
  <2>2. PICK on \in SUBSET Reactions :
          /\ playing = [s \in Reactions |-> IF s \in on THEN 1 ELSE 0]
          /\ left = [s \in Reactions |-> IF s \in on THEN DURATION ELSE 0]
    BY Zenon DEF Init
  <2>3. playing \in [Reactions -> Nat] /\ left \in [Reactions -> Nat]
    BY <2>2 DEF DURATION
  <2>4. mqtt \in [published : Nat, failed : Nat, connected : BOOLEAN]
    <3> DEFINE made == IF has_active_alarm THEN 1 ELSE 2
               n == made - queued - InHand
    <3>1. mqtt = [published |-> n, failed |-> 0, connected |-> n > 0]
      BY Zenon DEF Init
    <3>2. n \in Nat
      BY <1>2, <1>3 DEF InHand
    <3> HIDE DEF n
    <3> QED BY <3>1, <3>2
  <2> QED BY <1>2, <1>3, <2>1, <2>3, <2>4, TimeAssumption DEF TypeInv
<1>6. BoardInv
  BY <1>2 DEF BoardInv
<1>7. ServeInv /\ QuietInv
  BY <1>2, <1>4 DEF ServeInv, NotifydIdle, QuietInv
<1>8. SoundInv
  BY <1>2, <1>4 DEF SoundInv, Awaited, Sends
<1>9. PublisherInv /\ TableInv /\ OutageInv /\ RecoveryInv /\ StatsInv
  BY <1>2, <1>3, <1>4 DEF PublisherInv, TableInv, OutageInv, RecoveryInv, StatsInv
<1> QED BY <1>5, <1>6, <1>7, <1>8, <1>9, Zenon DEF CalmParts

\* A run in which nothing has gone wrong yet was such a run all along.
LEMMA FaultsStay ==
  ASSUME faults \in Nat, [Next]_vars
  PROVE  faults' \in Nat /\ (Calm' => Calm)
<1>1. UNCHANGED faults \/ Fault
  BY Zenon DEF Next, SimStep, SimStart, SimCancel, SimBefore, SimSend, SimSleep, SimBroker,
     SimCheck, ServiceStep, Validate, Act, Classify, Take, Account, Tick, Die, vars, processes
<1> QED BY <1>1 DEF Calm, Fault

\* Every step keeps the invariant, part by part.
LEMMA CalmKept == Timely /\ PlaceInv /\ CalmInv /\ [Next]_vars => CalmInv'
<1> SUFFICES ASSUME Timely, PlaceInv, CalmInv, [Next]_vars
             PROVE  CalmInv'
  OBVIOUS
<1>1. faults' \in Nat /\ (Calm' => Calm)
  BY FaultsStay DEF CalmInv
<1>2. ASSUME Calm'
      PROVE  CalmParts'
  <2>1. CalmParts /\ Calm
    BY <1>1, <1>2 DEF CalmInv
  <2>2. CalmStep
    BY <1>2, <2>1, CalmSteps
  <2>3. TypeInv' /\ BoardInv' /\ ServeInv'
    BY <2>1, <2>2, TypeStep, BoardStep, ServeStep DEF CalmParts
  <2>4. QuietInv' /\ SoundInv' /\ PublisherInv'
    BY <2>1, <2>2, QuietStep, SoundKept, PublisherStep
  <2>5. TableInv' /\ OutageInv' /\ RecoveryInv' /\ StatsInv'
    BY <2>1, <2>2, TableStep, OutageStep, RecoveryStep, StatsStep
  <2> QED BY <2>3, <2>4, <2>5, Zenon DEF CalmParts
<1> QED BY <1>1, <1>2, Zenon DEF CalmInv

\* What the invariant says at once of the tests, and at the end of the counters.
LEMMA CalmPasses == CalmInv => CalmSuitePasses
BY Zenon DEF CalmInv, CalmParts, BoardInv, CalmSuitePasses

LEMMA CalmFigures == PlaceInv /\ CalmInv => EvaluationTable
<1> SUFFICES ASSUME PlaceInv, CalmInv, Calm, done
             PROVE  /\ Delta("received") = 15 /\ Delta("accepted") = 9
                    /\ Delta("ignored") = 2 /\ Delta("invalid") = 4
                    /\ Delta("sent") = 27 /\ Delta("failed") = 0
  BY DEF EvaluationTable
<1>1. ServeInv /\ StatsInv /\ test = 18 /\ total = 17
  BY Counts DEF CalmInv, CalmParts, done
<1>2. NotifydIdle
  <2>1. ~ \E j : Sends(test, j)
    BY <1>1 DEF Sends
  <2> QED BY <1>1, <2>1, Zenon DEF ServeInv
<1>3. /\ Delta("accepted") = 9 /\ Delta("ignored") = 2 /\ Delta("invalid") = 4
      /\ Delta("received") = Delta("accepted") + Delta("ignored") + Delta("invalid")
      /\ Delta("failed") = 0
      /\ Delta("sent") = SIM_ACTIONS_PER_ACCEPTED_EVENT * Delta("accepted")
  BY <1>1, <1>2, StatsAtEnd
<1> QED BY <1>3 DEF SIM_ACTIONS_PER_ACCEPTED_EVENT

\* CalmInv is an invariant: while nothing goes wrong, each sleep covers what it is for.
THEOREM CalmInvariant == Timely => (Safety => []CalmInv)
<1> SUFFICES ASSUME Timely
             PROVE  Safety => []CalmInv
  OBVIOUS
<1>1. PlaceInv /\ CalmInv /\ [Next]_vars => CalmInv'
  BY CalmKept
<1> QED BY <1>1, PlaceInit, PlaceStep, CalmInit, PTL DEF Safety

\* CalmSuitePasses, for every bound on the times of notifyd and the publisher
\* and on the lateness of a sleep that is Timely.
THEOREM SleepsAreLongEnough == Timely => (Safety => []CalmSuitePasses)
BY CalmInvariant, CalmPasses, PTL

\* EvaluationTable under the same bounds: the counters of the whole run.
THEOREM FiguresOfEvaluation == Timely => (Safety => []EvaluationTable)
BY CalmInvariant, CalmFigures, PlaceInit, PlaceStep, PTL DEF Safety
=============================================================================
