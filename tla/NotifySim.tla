----------------------------- MODULE NotifySim -----------------------------
(***************************************************************************)
(* emergency-notify-sim together with the system it tests: the driver      *)
(* plays its seventeen tests against emergency-notifyd and the reaction    *)
(* services, and sleeps between what it does and what it then looks at.    *)
(*                                                                         *)
(* Time passes in ticks of 100 ms.  The driver goes on as soon as it can,  *)
(* notifyd takes up to MaxServe ticks for an event and the MQTT publisher  *)
(* up to MaxRecord ticks for a record.  The services appear as their       *)
(* status methods show them; their threads are in the service modules, and *)
(* a call that is under way when its service dies is in Notifyd.           *)
(***************************************************************************)
EXTENDS EventValidation, FiniteSets

CONSTANTS MaxServe,    \* bound on the ticks notifyd takes for an event
          MaxRecord,   \* bound on the ticks the publisher takes for a record
          MaxLag,      \* bound on the ticks a sleep lasts too long
          MaxFaults    \* bound on what goes wrong: a process that dies, an event
                       \* ubusd refuses, a stop or start of the broker that fails,
                       \* records of earlier alarms that are still being published
                       \* when the driver starts

ASSUME TimeAssumption == MaxServe \in Nat /\ MaxRecord \in Nat /\ MaxLag \in Nat
ASSUME FaultAssumption == MaxFaults \in Nat

\* The sleeps of the driver, what a reaction lasts, and systemd's RestartSec.
TEST_SETTLE == 5
MQTT_ASYNC_SETTLE == 7
TEST_OVERLAP_GAP == 2
CANCEL_SETTLE == 2
BROKER_SETTLE == 5
DURATION == 100
RestartSec == 20

SIM_ACTIONS_PER_ACCEPTED_EVENT == 3
SIM_OVERLAP_ALARM_EVENT_COUNT == 2
SIM_MQTT_BROKER_DOWN_EVENT_COUNT == 2
-----------------------------------------------------------------------------
\* The texts the driver sends, and that nothing sent is taken for missing.
Texts == allowed_severities \cup supported
           \cup {"invalid", "unknown", "low_battery", "katastrofalno", "sim", "text"}

ASSUME AbsentAssumption ==
  /\ Absent \notin Texts
  /\ Absent \notin [Recognized -> Texts \cup {Absent}]

(***************************************************************************)
(* The tests, each as the sequence of what the driver does.  A step acts   *)
(* on the service "of" with "arg"; if it fails in one of the ways listed   *)
(* in "restarts", the driver starts the broker before it returns.          *)
(***************************************************************************)
Event(name, type, severity) ==
  [name |-> name,
   msg |-> [type |-> type, severity |-> severity, source |-> "sim", message |-> "text"]]

Alarm(t, severity) == Event(<<"alarm", t>>, t, severity)

\* An event and the patterns it must leave playing, 0 for none.
Case(event, siren, led) == [event |-> event, siren |-> siren, led |-> led]

test_cases == <<
  Case(Alarm("fire", "critical"), 2, 1),
  Case(Alarm("burglary", "high"), 4, 2),
  Case(Alarm("panic", "critical"), 4, 2),
  Case(Alarm("water_leak", "medium"), 3, 3),
  Case(Alarm("medical", "high"), 5, 4),
  Case(Alarm("invalid", "low"), 0, 0),
  Case(Alarm("unknown", "low"), 0, 0),
  Case(Event(<<"system", "low_battery">>, "low_battery", "high"), 0, 0),
  Case(Alarm("fire", Absent), 0, 0),
  Case(Alarm("fire", "katastrofalno"), 0, 0),
  Case(Event(<<"alarm", "fire">>, "burglary", "critical"), 0, 0),
  Case([name |-> <<"alarm", "fire">>,
        msg |-> [f \in Recognized |-> Absent]], 0, 0) >>

Do(op, of, arg) == [op |-> op, of |-> of, arg |-> arg, restarts |-> {}]
Guarded(do, ways) == [op |-> do.op, of |-> do.of, arg |-> do.arg, restarts |-> ways]

cancel_siren == Do("cancel", "siren", CANCEL_SETTLE)
cancel_led == Do("cancel", "led", CANCEL_SETTLE)

\* Variant: nothing is left for the cleared record to be published.
cancel_mqtt_short == Do("cancel", "mqtt", CANCEL_SETTLE)

cancel_mqtt == Do("cancel", "mqtt", MQTT_ASYNC_SETTLE)

Sleep(ticks) == Do("sleep", "none", ticks)
Send(event) == Do("send", "none", event)
Expect(s, pattern) == Do("expect", s, pattern)
get_mqtt_status == Do("before", "mqtt", 0)

run_test_case(c) ==
  << cancel_siren, cancel_led, cancel_mqtt, get_mqtt_status,
     Send(c.event), Sleep(TEST_SETTLE),
     Expect("siren", c.siren), Expect("led", c.led), Sleep(MQTT_ASYNC_SETTLE),
     Do("published", "mqtt", IF c.siren # 0 THEN 1 ELSE 0) >>

run_alarm_overlap_test ==
  << cancel_siren, cancel_led,
     Send(Alarm("fire", "critical")), Sleep(TEST_OVERLAP_GAP), Expect("siren", 2),
     Send(Alarm("panic", "critical")), Sleep(TEST_SETTLE),
     Expect("siren", 4), Expect("led", 2) >>

run_siren_invalid_rpc_test ==
  << cancel_siren, Do("rejected", "siren", 99), Do("rejected", "siren", Absent),
     Do("responds", "siren", 0) >>

run_led_invalid_rpc_test ==
  << cancel_led, Do("rejected", "led", 99), Do("rejected", "led", Absent),
     Do("responds", "led", 0) >>

\* The failures after which the broker test starts the broker again, each at a
\* return of its own: of the event, of the status of siren and LED, of the outage.
send_restarts == {"send"}
status_restarts == {"query", "wrong"}

\* Variant: the return on a connection that is still up forgets the broker.
outage_restarts_two == {"query", "failed"}

outage_restarts == {"query", "connected", "failed"}

run_mqtt_broker_down_test ==
  << cancel_siren, cancel_led, cancel_mqtt, get_mqtt_status,
     Do("stop", "broker", BROKER_SETTLE),
     Guarded(Send(Alarm("fire", "critical")), send_restarts), Sleep(TEST_SETTLE),
     Guarded(Expect("siren", 2), status_restarts),
     Guarded(Expect("led", 1), status_restarts), Sleep(MQTT_ASYNC_SETTLE),
     Guarded(Do("outage", "mqtt", 0), outage_restarts),
     Do("start", "broker", BROKER_SETTLE),
     cancel_siren, cancel_led, cancel_mqtt, get_mqtt_status,
     Send(Alarm("fire", "critical")), Sleep(TEST_SETTLE + MQTT_ASYNC_SETTLE),
     Do("recovery", "mqtt", 0) >>

\* main ignores whether its last cancels succeed.
clean_up == [s \in {1, 2, 3} |->
               [<<cancel_siren, cancel_led, cancel_mqtt>>[s] EXCEPT !.op = "try_cancel"]]

table_count == Len(test_cases)
BrokerTest == table_count + 4
total == table_count + 5

tests ==
  [t \in 1 .. total |->
     CASE t <= table_count -> run_test_case(test_cases[t])
       [] t = table_count + 1 -> run_alarm_overlap_test
       [] t = table_count + 2 -> run_siren_invalid_rpc_test
       [] t = table_count + 3 -> run_led_invalid_rpc_test
       [] t = BrokerTest -> run_mqtt_broker_down_test
       [] t = total -> clean_up \o <<Do("stats", "notify", 0)>>]

count_alarm_test_cases ==
  Cardinality({t \in 1 .. table_count : test_cases[t].event.name[1] = "alarm"})
-----------------------------------------------------------------------------
Reactions == {"siren", "led"}
Services == {"siren", "led", "mqtt", "notify"}

VARIABLES
  test, step,       \* the driver: test 0 is before its start, total + 1 after its end
  wait,             \* ticks left of its usleep
  failed_tests,
  mqtt_before, stats_before,       \* the snapshots it compares with
  inbox, action, age,              \* notifyd: its events, the index of the loop
                                   \* over alarm_actions (0 between two events)
                                   \* and the ticks spent on the first event
  stats,
  playing, left,    \* the patterns of siren and LED, and for how long
  has_active_alarm,
  queued, in_flight, spent,        \* the publisher: records waiting, the record
                                   \* in its hands and the ticks it takes
  mqtt,             \* what the status of emergency.mqtt counts
  broker_up,
  systemctl_failed, \* has a call of systemctl failed?
  down,             \* ticks until systemd has started a dead service again
  stale,            \* services whose object id is not the one the driver knows
  died_in,          \* where in the tests each died
  faults

driver == <<test, step, wait, failed_tests, mqtt_before, stats_before>>
notifyd == <<inbox, action, age, stats>>
reactions == <<playing, left>>
publisher == <<has_active_alarm, queued, in_flight, spent, mqtt>>
broker == <<broker_up, systemctl_failed>>
processes == <<down, stale, died_in>>
vars == <<driver, notifyd, reactions, publisher, broker, processes, faults>>

Stats == [received : Nat, accepted : Nat, ignored : Nat, invalid : Nat,
          sent : Nat, failed : Nat]
ZeroStats == [f \in {"received", "accepted", "ignored", "invalid", "sent", "failed"} |-> 0]
ZeroMqtt == [published |-> 0, failed |-> 0, connected |-> FALSE]

\* The record in the publisher's hands, and the records it has left.
InHand == IF in_flight = "none" THEN 0 ELSE 1
PublisherIdle == queued = 0 /\ in_flight = "none"

\* The services have been running for long.  The last alarm may be active or
\* cancelled, its patterns may play or have ended, and its records may wait.
Init ==
  /\ test = 0 /\ step = 1 /\ wait = 0 /\ failed_tests = {}
  /\ mqtt_before = ZeroMqtt /\ stats_before = ZeroStats
  /\ inbox = <<>> /\ action = 0 /\ age = 0
  /\ stats = [received |-> 7, accepted |-> 3, ignored |-> 2, invalid |-> 2,
              sent |-> 8, failed |-> 1]
  /\ has_active_alarm \in BOOLEAN
  /\ \E on \in SUBSET Reactions :
       /\ playing = [s \in Reactions |-> IF s \in on THEN 1 ELSE 0]
       /\ left = [s \in Reactions |-> IF s \in on THEN DURATION ELSE 0]
  /\ queued \in 0 .. 2 /\ in_flight \in {"none", "reached"} /\ spent = 0
  /\ LET made == IF has_active_alarm THEN 1 ELSE 2
         published == made - queued - InHand
     IN /\ published >= 0
        /\ mqtt = [published |-> published, failed |-> 0, connected |-> published > 0]
  /\ broker_up = TRUE /\ systemctl_failed = FALSE
  /\ faults = (IF PublisherIdle THEN 0 ELSE 1) /\ faults <= MaxFaults
  /\ down = [s \in Services |-> 0] /\ stale = {}
  /\ died_in = [s \in Services |-> <<0, 0>>]

done == test = total + 1
-----------------------------------------------------------------------------
(***************************************************************************)
(* The services.                                                           *)
(***************************************************************************)
valid_ids == [siren |-> 1 .. 5, led |-> 1 .. 4]

\* The result field of the reply to an alarm call.
alarm_reply(s, pattern) ==
  IF pattern # Absent /\ pattern \in valid_ids[s] THEN "ok" ELSE "error"

Play(s, pattern) ==
  /\ playing' = [playing EXCEPT ![s] = pattern]
  /\ left' = [left EXCEPT ![s] = IF pattern = 0 THEN 0 ELSE DURATION]

NotifydIdle == inbox = <<>>

\* Validation, and the classification of an event that is invalid.
Validate ==
  /\ inbox # <<>> /\ action = 0
  /\ LET valid == event_validation_check(Head(inbox).name, Head(inbox).msg) = "ok" IN
       \/ valid /\ action' = 1 /\ UNCHANGED <<inbox, age, stats>>
       \/ /\ ~valid
          /\ stats' = [stats EXCEPT !.received = @ + 1, !.invalid = @ + 1]
          /\ inbox' = Tail(inbox) /\ age' = 0 /\ UNCHANGED action
  /\ UNCHANGED <<driver, reactions, publisher, broker, processes, faults>>

\* One action of the registry: cancel_alarm and alarm on its service.
Act ==
  /\ action \in 1 .. Len(alarm_actions)
  /\ action' = action + 1
  /\ LET s == alarm_actions[action]
         name == Head(inbox).name
         supports == is_supported_event_type(name)
         carried_out == supports /\ down[s] = 0
     IN
       /\ stats' = IF supports
                     THEN [stats EXCEPT ![IF carried_out THEN "sent" ELSE "failed"] = @ + 1]
                     ELSE stats
       /\ IF carried_out /\ s \in Reactions THEN Play(s, config(s, name)[2])
                                            ELSE UNCHANGED reactions
       /\ IF carried_out /\ s = "mqtt"
            THEN /\ queued' = queued + IF has_active_alarm THEN 2 ELSE 1
                 /\ has_active_alarm' = TRUE
            ELSE UNCHANGED <<queued, has_active_alarm>>
  /\ UNCHANGED <<driver, inbox, age, in_flight, spent, mqtt, broker, processes, faults>>

\* Variant: a valid event counts as accepted whether an action knew it or not.
ClassifyAllAccepted ==
  /\ action > Len(alarm_actions)
  /\ stats' = [stats EXCEPT !.received = @ + 1, !.accepted = @ + 1]
  /\ inbox' = Tail(inbox) /\ action' = 0 /\ age' = 0
  /\ UNCHANGED <<driver, reactions, publisher, broker, processes, faults>>

Classify ==
  /\ action > Len(alarm_actions)
  /\ LET class == IF is_supported_event_type(Head(inbox).name) THEN "accepted" ELSE "ignored"
     IN stats' = [stats EXCEPT !.received = @ + 1, ![class] = @ + 1]
  /\ inbox' = Tail(inbox) /\ action' = 0 /\ age' = 0
  /\ UNCHANGED <<driver, reactions, publisher, broker, processes, faults>>

\* The publisher takes a record and connects to the broker as it finds it.
Take ==
  /\ queued > 0 /\ in_flight = "none"
  /\ queued' = queued - 1
  /\ in_flight' = IF broker_up THEN "reached" ELSE "refused"
  /\ UNCHANGED <<driver, notifyd, reactions, has_active_alarm, spent, mqtt,
                 broker, processes, faults>>

\* It accounts for the record; one that was under way when the broker came or
\* went may have been published or not.
Account ==
  /\ in_flight # "none"
  /\ \E ok \in BOOLEAN :
       /\ in_flight = "reached" => ok
       /\ in_flight = "refused" => ~ok
       /\ mqtt' = [published |-> mqtt.published + IF ok THEN 1 ELSE 0,
                   failed |-> mqtt.failed + IF ok THEN 0 ELSE 1,
                   connected |-> ok]
  /\ in_flight' = "none" /\ spent' = 0
  /\ UNCHANGED <<driver, notifyd, reactions, has_active_alarm, queued, broker,
                 processes, faults>>

\* Something goes wrong.
Fault == faults < MaxFaults /\ faults' = faults + 1

\* A process ends; systemd starts it again, with another object id.
Die(s) ==
  /\ ~done /\ down[s] = 0
  /\ Fault
  /\ down' = [down EXCEPT ![s] = RestartSec]
  /\ stale' = IF test > 0 THEN stale \cup {s} ELSE stale
  /\ died_in' = [died_in EXCEPT ![s] = <<test, step>>]
  /\ IF s \in Reactions THEN Play(s, 0) ELSE UNCHANGED reactions
  /\ IF s = "mqtt"
       THEN /\ has_active_alarm' = FALSE /\ queued' = 0 /\ in_flight' = "none"
            /\ spent' = 0 /\ mqtt' = ZeroMqtt
       ELSE UNCHANGED publisher
  /\ IF s = "notify"
       THEN inbox' = <<>> /\ action' = 0 /\ age' = 0 /\ stats' = ZeroStats
       ELSE UNCHANGED notifyd
  /\ UNCHANGED <<driver, broker_up, systemctl_failed>>
-----------------------------------------------------------------------------
(***************************************************************************)
(* The driver.                                                             *)
(***************************************************************************)
Now == tests[test][step]

Playing(op) == test \in 1 .. total /\ wait = 0 /\ Now.op = op

\* A call of the driver reaches the service under the id it looked up.
Reachable(s) == s \notin stale

\* On to the next step, or to the next test.
Proceed ==
  /\ IF step < Len(tests[test]) THEN step' = step + 1 /\ test' = test
                                ELSE step' = 1 /\ test' = test + 1
  /\ UNCHANGED failed_tests

\* Variant: a failed test counts as passed.
FailsSilently == test' = test + 1 /\ step' = 1 /\ UNCHANGED failed_tests

\* The test has failed.
Fails == failed_tests' = failed_tests \cup {test} /\ test' = test + 1 /\ step' = 1

\* systemctl start or stop: it does as it is told, or fails, with or without effect.
Systemctl(up, ok) ==
  /\ systemctl_failed' = IF ok THEN systemctl_failed ELSE TRUE
  /\ \/ broker_up' = up /\ in_flight' = IF in_flight = "none" THEN "none" ELSE "either"
     \/ ~ok /\ UNCHANGED <<broker_up, in_flight>>

\* A failed step, and the start of the broker that some of them owe; whether
\* that succeeds is ignored.
GiveUp(way) ==
  /\ Fails
  /\ \/ way \in Now.restarts /\ \E ok \in BOOLEAN : Systemctl(TRUE, ok)
     \/ way \notin Now.restarts /\ UNCHANGED <<broker, in_flight>>

Settle(ticks) == wait' \in ticks .. ticks + MaxLag

\* All four objects are found and notifyd is asked for its counters.
SimStart ==
  /\ test = 0
  /\ \/ /\ \A s \in Services : down[s] = 0
        /\ test' = 1 /\ stats_before' = stats /\ UNCHANGED failed_tests
     \/ /\ \E s \in Services : down[s] > 0
        /\ test' = total + 1 /\ failed_tests' = 1 .. total /\ UNCHANGED stats_before
  /\ UNCHANGED <<step, wait, mqtt_before, notifyd, reactions, publisher, broker,
                 processes, faults>>

SimCancel ==
  /\ Playing("cancel") \/ Playing("try_cancel")
  /\ IF Reachable(Now.of)
       THEN /\ Proceed /\ Settle(Now.arg)
            /\ IF Now.of = "mqtt"
                 THEN /\ queued' = queued + IF has_active_alarm THEN 1 ELSE 0
                      /\ has_active_alarm' = FALSE
                      /\ UNCHANGED reactions
                 ELSE Play(Now.of, 0) /\ UNCHANGED <<queued, has_active_alarm>>
            /\ UNCHANGED <<broker, in_flight>>
       ELSE /\ IF Now.op = "cancel" THEN GiveUp("query")
                                    ELSE Proceed /\ UNCHANGED <<broker, in_flight>>
            /\ UNCHANGED <<wait, reactions, queued, has_active_alarm>>
  /\ UNCHANGED <<mqtt_before, stats_before, notifyd, spent, mqtt, processes, faults>>

SimBefore ==
  /\ Playing("before")
  /\ IF Reachable("mqtt")
       THEN Proceed /\ mqtt_before' = mqtt /\ UNCHANGED <<broker, in_flight>>
       ELSE GiveUp("query") /\ UNCHANGED mqtt_before
  /\ UNCHANGED <<wait, stats_before, notifyd, reactions, has_active_alarm, queued,
                 spent, mqtt, processes, faults>>

\* ubusd delivers what matches alarm.* if notifyd is there, or refuses the event.
SimSend ==
  /\ Playing("send")
  /\ \/ /\ Proceed /\ UNCHANGED <<broker, in_flight, faults>>
        /\ inbox' = IF Now.arg.name[1] = "alarm" /\ down["notify"] = 0
                      THEN Append(inbox, Now.arg) ELSE inbox
     \/ GiveUp("send") /\ Fault /\ UNCHANGED inbox
  /\ UNCHANGED <<wait, mqtt_before, stats_before, action, age, stats, reactions,
                 has_active_alarm, queued, spent, mqtt, processes>>

SimSleep ==
  /\ Playing("sleep")
  /\ Proceed /\ Settle(Now.arg)
  /\ UNCHANGED <<mqtt_before, stats_before, notifyd, reactions, publisher, broker,
                 processes, faults>>

\* systemctl stop mosquitto and systemctl start mosquitto.
SimBroker ==
  /\ Playing("stop") \/ Playing("start")
  /\ \E ok \in BOOLEAN :
       /\ Systemctl(Now.op = "start", ok)
       /\ \/ ok /\ Proceed /\ Settle(Now.arg) /\ UNCHANGED faults
          \/ ~ok /\ Fails /\ Fault /\ UNCHANGED wait
  /\ UNCHANGED <<mqtt_before, stats_before, notifyd, reactions, has_active_alarm,
                 queued, spent, mqtt, processes>>

Delta(f) == stats[f] - stats_before[f]

run_stats_check ==
  /\ Delta("received") = count_alarm_test_cases + SIM_OVERLAP_ALARM_EVENT_COUNT
                           + SIM_MQTT_BROKER_DOWN_EVENT_COUNT
  /\ Delta("received") = Delta("accepted") + Delta("ignored") + Delta("invalid")
  /\ Delta("sent") + Delta("failed") =
       Delta("accepted") * SIM_ACTIONS_PER_ACCEPTED_EVENT

Checks == {"expect", "rejected", "responds", "published", "outage", "recovery", "stats"}

\* What the driver compares the answer with.
Answers(op, of, arg) ==
  CASE op = "expect" -> playing[of] = arg
    [] op = "rejected" -> alarm_reply(of, arg) = "error"
    [] op = "responds" -> TRUE
    [] op = "published" -> mqtt.published - mqtt_before.published = arg
    [] op = "outage" -> ~mqtt.connected /\ mqtt.failed > mqtt_before.failed
    [] op = "recovery" -> mqtt.connected /\ mqtt.published > mqtt_before.published
    [] op = "stats" -> run_stats_check

\* Which of its returns a check takes that does not pass.
Failure(op, of) ==
  CASE ~Reachable(of) -> "query"
    [] Reachable(of) /\ op = "outage" -> IF mqtt.connected THEN "connected" ELSE "failed"
    [] OTHER -> "wrong"

\* notifyd answers a status call when it is done with the events before it.
SimCheck ==
  /\ \E op \in Checks : Playing(op)
  /\ Now.op = "stats" => NotifydIdle
  /\ IF Reachable(Now.of) /\ Answers(Now.op, Now.of, Now.arg)
       THEN Proceed /\ UNCHANGED <<broker, in_flight>>
       ELSE GiveUp(Failure(Now.op, Now.of))
  /\ UNCHANGED <<wait, mqtt_before, stats_before, notifyd, reactions,
                 has_active_alarm, queued, spent, mqtt, processes, faults>>

\* 100 ms pass: the driver sleeps or waits for notifyd, nobody is late.
Tick ==
  /\ ~done
  /\ wait > 0 \/ (test = total /\ Now.op = "stats" /\ ~NotifydIdle)
  /\ NotifydIdle \/ age < MaxServe
  /\ PublisherIdle \/ spent < MaxRecord
  /\ wait' = IF wait > 0 THEN wait - 1 ELSE 0
  /\ age' = IF NotifydIdle THEN 0 ELSE age + 1
  /\ spent' = IF PublisherIdle THEN 0 ELSE spent + 1
  /\ left' = [s \in Reactions |-> IF left[s] > 0 THEN left[s] - 1 ELSE 0]
  /\ playing' = [s \in Reactions |-> IF left'[s] > 0 THEN playing[s] ELSE 0]
  /\ down' = [s \in Services |-> IF down[s] > 0 THEN down[s] - 1 ELSE 0]
  /\ UNCHANGED <<test, step, failed_tests, mqtt_before, stats_before, inbox, action,
                 stats, has_active_alarm, queued, in_flight, mqtt, broker_up,
                 systemctl_failed, stale, died_in, faults>>
-----------------------------------------------------------------------------
SimStep ==
  \/ SimStart \/ SimCancel \/ SimBefore \/ SimSend \/ SimSleep \/ SimBroker
  \/ SimCheck

ServiceStep == Validate \/ Act \/ Classify \/ Take \/ Account

Next == SimStep \/ ServiceStep \/ Tick \/ \E s \in Services : Die(s)

Safety == Init /\ [][Next]_vars
-----------------------------------------------------------------------------
(***************************************************************************)
(* Properties.                                                             *)
(***************************************************************************)
\* The driver met a publisher that had nothing left to do, nobody else sent
\* events, nothing died, and every call of systemctl and ubusd succeeded.
Calm == faults = 0

\* The sleeps are long enough: as long as the services keep to their times, no
\* test fails, whether an alarm was active at the start and played or not.  The
\* driver does not make sure that the records of earlier alarms are published: with
\* one left, the count of the first test may be wrong, and Calm excludes it.
CalmSuitePasses == Calm => failed_tests = {}

\* The counters of the evaluation chapter: fifteen events, nine accepted, two
\* ignored, four invalid, twenty-seven actions sent and none failed.
EvaluationTable ==
  Calm /\ done =>
    /\ Delta("received") = 15 /\ Delta("accepted") = 9
    /\ Delta("ignored") = 2 /\ Delta("invalid") = 4
    /\ Delta("sent") = 27 /\ Delta("failed") = 0

\* Each return of the broker test between its stop and its start has a start of its
\* own, so that the board is without a broker after it only if systemctl failed.
BrokerLeftRunning == test # BrokerTest /\ ~broker_up => systemctl_failed

\* The driver never calls a run good in which a service died that it still had
\* to ask: it only knows the id the service had at the start.
DeathIsNoticed ==
  done /\ failed_tests = {} =>
    \A s \in stale : \A t \in 1 .. total : \A k \in DOMAIN tests[t] :
      tests[t][k].of = s /\ tests[t][k].op # "try_cancel" =>
        t < died_in[s][1] \/ (t = died_in[s][1] /\ k < died_in[s][2])

(***************************************************************************)
(* What sim_ubus.c says of the sleep in cancel_mqtt: it "keeps the next    *)
(* mqtt before snapshot clean", no leftover publish is in flight then.     *)
(***************************************************************************)
SnapshotIsClean ==
  Playing("before") /\ Calm => PublisherIdle
=============================================================================
