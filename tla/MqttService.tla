---------------------------- MODULE MqttService ----------------------------
(***************************************************************************)
(* emergency-mqtt-service: a uloop thread that serves the ubus object      *)
(* emergency.mqtt and puts records into a ring buffer, and one publisher   *)
(* thread that takes them out and sends each to the broker over a          *)
(* connection of its own.  Both use one lock and one condition variable.   *)
(*                                                                         *)
(* A step is one critical section of the lock or one call of libmosquitto. *)
(* A record keeps its type and its state; its timestamp is the number of   *)
(* records made so far, so that two records are never equal.               *)
(***************************************************************************)
EXTENDS Integers, Sequences

CONSTANTS Capacity,    \* MQTT_QUEUE_CAPACITY
          Types,       \* alarm types a caller may report
          Absent,      \* an attribute the request does not carry
          NoRecord,    \* the content of a slot that was never written
          MaxRecords,  \* bound on the records made in a behaviour
          MaxCrashes   \* bound on the number of times the process is killed

ASSUME CapacityAssumption == Capacity \in Nat \ {0}
ASSUME InputAssumption == Absent \notin Types
ASSUME BoundAssumption == MaxRecords \in Nat /\ MaxCrashes \in Nat

Records ==
  [type : Types, state : {"active", "cleared"}, timestamp : 1 .. MaxRecords]
ASSUME RecordAssumption == NoRecord \notin Records

Requests ==
  [method : {"status", "cancel_alarm"}, type : {Absent}]
    \cup [method : {"alarm"}, type : Types \cup {Absent}]

VARIABLES
  pc,                  \* where the uloop thread is
  exit_status,         \* what main returns once the publisher is deinitialised
  terminated,          \* uloop_end was called by the signal handler
  has_active_alarm, active_alarm_type,      \* statics of mqtt_service.c
  queue, queue_head, queue_tail, queue_count,
  keep_running, thread_active,
  connected, published, failed,             \* statics of mqtt_publisher.c
  worker_pc, record, ok,                    \* the publisher and its locals
  client_connected,                         \* static of mqtt_client.c
  unacked,             \* records libmosquitto has accepted, without a PUBACK
  retained,            \* the record the broker retains for each topic
  resent,              \* history: a record of this process reached the broker
                       \* over a later connection than its own
  enqueued,            \* records this process has put into the queue
  now, crashes

alarm == <<has_active_alarm, active_alarm_type>>
ring == <<queue, queue_head, queue_tail, queue_count>>
stats == <<connected, published, failed>>
worker == <<worker_pc, record, ok, client_connected>>
delivery == <<unacked, retained, resent>>
vars == <<pc, exit_status, terminated, alarm, ring, keep_running, thread_active,
          stats, worker, delivery, enqueued, now, crashes>>

Slots == 0 .. Capacity - 1

\* The publisher holds a record it has not accounted for yet.
InFlight == worker_pc \in {"connect", "publish", "handshake", "account"}

TypeOK ==
  /\ pc \in {"failed", "exited", "init", "connect", "add_object", "idle",
             "reply", "deinit", "join"}
  /\ exit_status \in {"exited", "failed"} /\ terminated \in BOOLEAN
  /\ has_active_alarm \in BOOLEAN /\ active_alarm_type \in Types \cup {Absent}
  /\ queue \in [Slots -> Records \cup {NoRecord}]
  /\ queue_head \in Slots /\ queue_tail \in Slots /\ queue_count \in 0 .. Capacity
  /\ keep_running \in BOOLEAN /\ thread_active \in BOOLEAN
  /\ connected \in BOOLEAN /\ published \in Nat /\ failed \in Nat
  /\ worker_pc \in {"none", "lock", "waiting", "connect", "publish", "handshake",
                    "account", "done"}
  /\ record \in Records \cup {NoRecord} /\ ok \in BOOLEAN
  /\ client_connected \in BOOLEAN
  /\ retained \in [Types -> Records \cup {NoRecord}]
  /\ unacked \subseteq Records \cup {NoRecord} /\ resent \in BOOLEAN
  /\ enqueued \in Nat /\ now \in Nat /\ crashes \in Nat
-----------------------------------------------------------------------------
(***************************************************************************)
(* Life cycle of the process.                                              *)
(***************************************************************************)
FreshStatics ==
  /\ exit_status' = "exited" /\ terminated' = FALSE
  /\ has_active_alarm' = FALSE /\ active_alarm_type' = Absent
  /\ queue' = [k \in Slots |-> NoRecord]
  /\ queue_head' = 0 /\ queue_tail' = 0 /\ queue_count' = 0
  /\ keep_running' = FALSE /\ thread_active' = FALSE
  /\ connected' = FALSE /\ published' = 0 /\ failed' = 0
  /\ worker_pc' = "none" /\ record' = NoRecord /\ ok' = FALSE
  /\ client_connected' = FALSE
  /\ unacked' = {} /\ resent' = FALSE /\ enqueued' = 0

Init ==
  /\ pc = "exited" /\ exit_status = "exited" /\ terminated = FALSE
  /\ has_active_alarm = FALSE /\ active_alarm_type = Absent
  /\ queue = [k \in Slots |-> NoRecord]
  /\ queue_head = 0 /\ queue_tail = 0 /\ queue_count = 0
  /\ keep_running = FALSE /\ thread_active = FALSE
  /\ connected = FALSE /\ published = 0 /\ failed = 0
  /\ worker_pc = "none" /\ record = NoRecord /\ ok = FALSE
  /\ client_connected = FALSE
  /\ unacked = {} /\ resent = FALSE /\ enqueued = 0
  /\ retained = [t \in Types |-> NoRecord]
  /\ now = 0 /\ crashes = 0

\* systemd (Restart=on-failure) or an operator executes the binary.
Start ==
  /\ pc \in {"failed", "exited"}
  /\ pc' = "init"
  /\ UNCHANGED <<exit_status, terminated, alarm, ring, keep_running,
                 thread_active, stats, worker, delivery, enqueued, now, crashes>>

\* The process is killed; only the broker remembers.
Crash ==
  /\ pc \notin {"failed", "exited"}
  /\ crashes < MaxCrashes
  /\ crashes' = crashes + 1
  /\ pc' = "failed"
  /\ FreshStatics
  /\ UNCHANGED <<retained, now>>

\* The client cannot be made, or the thread cannot be created: main returns 1.
mqtt_publisher_init_fails ==
  /\ pc = "init" /\ pc' = "failed"
  /\ UNCHANGED <<exit_status, terminated, alarm, ring, keep_running,
                 thread_active, stats, worker, delivery, enqueued, now, crashes>>

mqtt_publisher_init ==
  /\ pc = "init" /\ pc' = "connect"
  /\ keep_running' = TRUE /\ thread_active' = TRUE
  /\ worker_pc' = "lock"
  /\ UNCHANGED <<exit_status, terminated, alarm, ring, stats, record, ok,
                 client_connected, delivery, enqueued, now, crashes>>

\* ubus_connect and ubus_add_object.
Connect ==
  /\ pc \in {"connect", "add_object"}
  /\ \/ /\ pc' = IF pc = "connect" THEN "add_object" ELSE "idle"
        /\ UNCHANGED exit_status
     \/ /\ pc' = "deinit" /\ exit_status' = "failed"
  /\ UNCHANGED <<terminated, alarm, ring, keep_running, thread_active, stats,
                 worker, delivery, enqueued, now, crashes>>

\* SIGTERM or SIGINT while uloop_run runs.
handle_signal ==
  /\ pc \in {"idle", "reply"}
  /\ terminated' = TRUE
  /\ UNCHANGED <<pc, exit_status, alarm, ring, keep_running, thread_active,
                 stats, worker, delivery, enqueued, now, crashes>>

LeaveLoop ==
  /\ pc = "idle" /\ terminated
  /\ pc' = "deinit" /\ exit_status' = "exited"
  /\ UNCHANGED <<terminated, alarm, ring, keep_running, thread_active, stats,
                 worker, delivery, enqueued, now, crashes>>

\* Wake one waiter, or all: there is only the publisher.
Wake == worker_pc' = IF worker_pc = "waiting" THEN "lock" ELSE worker_pc

\* Variant: the publisher is told to end but not woken.
DeinitNoBroadcast ==
  /\ pc = "deinit" /\ pc' = "join"
  /\ keep_running' = FALSE
  /\ UNCHANGED <<exit_status, terminated, alarm, ring, thread_active, stats,
                 worker, delivery, enqueued, now, crashes>>

\* mqtt_publisher_deinit up to its unlock.
Deinit ==
  /\ pc = "deinit" /\ pc' = "join"
  /\ keep_running' = FALSE
  /\ Wake
  /\ UNCHANGED <<exit_status, terminated, alarm, ring, thread_active, stats,
                 record, ok, client_connected, delivery, enqueued, now, crashes>>

\* pthread_join, mqtt_client_deinit, and main returns.
DeinitJoin ==
  /\ pc = "join"
  /\ thread_active => worker_pc = "done"
  /\ pc' = exit_status
  /\ FreshStatics
  /\ UNCHANGED <<retained, now, crashes>>
-----------------------------------------------------------------------------
(***************************************************************************)
(* The request handlers.                                                   *)
(***************************************************************************)
\* Variant: the index is not wrapped.
NextSlotNoWrap(k) == k + 1

NextSlot(k) == (k + 1) % Capacity

\* Variant: a record that displaces another is not counted as failed.
EnqueueForgetsFailure(r) ==
  /\ queue_head' = IF queue_count = Capacity THEN NextSlot(queue_head) ELSE queue_head
  /\ queue_count' = IF queue_count = Capacity THEN Capacity ELSE queue_count + 1
  /\ failed' = failed
  /\ queue' = [queue EXCEPT ![queue_tail] = r]
  /\ queue_tail' = NextSlot(queue_tail)
  /\ Wake

\* Variant: the publisher is not signalled.
EnqueueNoSignal(r) ==
  /\ queue_head' = IF queue_count = Capacity THEN NextSlot(queue_head) ELSE queue_head
  /\ queue_count' = IF queue_count = Capacity THEN Capacity ELSE queue_count + 1
  /\ failed' = IF queue_count = Capacity THEN failed + 1 ELSE failed
  /\ queue' = [queue EXCEPT ![queue_tail] = r]
  /\ queue_tail' = NextSlot(queue_tail)
  /\ UNCHANGED worker_pc

\* One critical section: make room, store, signal.
mqtt_publisher_enqueue(r) ==
  /\ \/ /\ queue_count = Capacity
        /\ queue_head' = NextSlot(queue_head)
        /\ queue_count' = queue_count
        /\ failed' = failed + 1
     \/ /\ queue_count < Capacity
        /\ queue_count' = queue_count + 1
        /\ UNCHANGED <<queue_head, failed>>
  /\ queue' = [queue EXCEPT ![queue_tail] = r]
  /\ queue_tail' = NextSlot(queue_tail)
  /\ Wake

\* The handler makes a record and hands it over.
Enqueue(type, state) ==
  /\ now < MaxRecords
  /\ now' = now + 1 /\ enqueued' = enqueued + 1
  /\ mqtt_publisher_enqueue([type |-> type, state |-> state, timestamp |-> now'])

\* A request that enqueues nothing: status, an alarm without a type, or a
\* cancel_alarm while no alarm is active.
OnlyReplies(r) ==
  \/ r.method = "status"
  \/ r.method = "alarm" /\ r.type = Absent
  \/ r.method = "cancel_alarm" /\ ~has_active_alarm

ReceiveOther(r) ==
  /\ pc = "idle" /\ ~terminated
  /\ OnlyReplies(r)
  /\ pc' = "reply"
  /\ UNCHANGED <<exit_status, terminated, alarm, ring, keep_running,
                 thread_active, stats, worker, delivery, enqueued, now, crashes>>

ubus_mqtt_alarm(r) ==
  /\ pc = "idle" /\ ~terminated
  /\ r.method = "alarm" /\ r.type # Absent
  /\ Enqueue(r.type, "active")
  /\ has_active_alarm' = TRUE /\ active_alarm_type' = r.type
  /\ pc' = "reply"
  /\ UNCHANGED <<exit_status, terminated, keep_running, thread_active, connected,
                 published, record, ok, client_connected, delivery, crashes>>

\* Variant: an alarm stays active after it was cleared.
CancelStaysActive(r) ==
  /\ pc = "idle" /\ ~terminated
  /\ r.method = "cancel_alarm" /\ has_active_alarm
  /\ Enqueue(active_alarm_type, "cleared")
  /\ pc' = "reply"
  /\ UNCHANGED <<exit_status, terminated, alarm, keep_running, thread_active,
                 connected, published, record, ok, client_connected, delivery,
                 crashes>>

ubus_mqtt_cancel_alarm(r) ==
  /\ pc = "idle" /\ ~terminated
  /\ r.method = "cancel_alarm" /\ has_active_alarm
  /\ Enqueue(active_alarm_type, "cleared")
  /\ has_active_alarm' = FALSE
  /\ pc' = "reply"
  /\ UNCHANGED <<exit_status, terminated, active_alarm_type, keep_running,
                 thread_active, connected, published, record, ok,
                 client_connected, delivery, crashes>>

\* send_mqtt_reply reads the statistics in one critical section.
SendReply ==
  /\ pc = "reply" /\ pc' = "idle"
  /\ UNCHANGED <<exit_status, terminated, alarm, ring, keep_running,
                 thread_active, stats, worker, delivery, enqueued, now, crashes>>
-----------------------------------------------------------------------------
(***************************************************************************)
(* The publisher thread.                                                   *)
(***************************************************************************)
mainVars == <<pc, exit_status, terminated, alarm, keep_running, thread_active,
              enqueued, now, crashes>>

\* pthread_cond_wait: the lock is released and the thread waits, in one step.
WorkerWaits ==
  /\ worker_pc = "lock" /\ queue_count = 0 /\ keep_running
  /\ worker_pc' = "waiting"
  /\ UNCHANGED <<mainVars, ring, stats, record, ok, client_connected, delivery>>

\* POSIX lets a wait end without a signal.
SpuriousWakeup ==
  /\ worker_pc = "waiting" /\ worker_pc' = "lock"
  /\ UNCHANGED <<mainVars, ring, stats, record, ok, client_connected, delivery>>

WorkerEnds ==
  /\ worker_pc = "lock" /\ ~keep_running
  /\ worker_pc' = "done"
  /\ UNCHANGED <<mainVars, ring, stats, record, ok, client_connected, delivery>>

\* Variant: the newest record is taken first.
TakeNewest ==
  /\ worker_pc = "lock" /\ keep_running /\ queue_count > 0
  /\ record' = queue[(queue_head + queue_count - 1) % Capacity]
  /\ queue_tail' = (queue_head + queue_count - 1) % Capacity
  /\ queue_count' = queue_count - 1
  /\ worker_pc' = "connect"
  /\ UNCHANGED <<mainVars, queue, queue_head, stats, ok, client_connected, delivery>>

WorkerTakes ==
  /\ worker_pc = "lock" /\ keep_running /\ queue_count > 0
  /\ record' = queue[queue_head]
  /\ queue_head' = NextSlot(queue_head)
  /\ queue_count' = queue_count - 1
  /\ worker_pc' = "connect"
  /\ UNCHANGED <<mainVars, queue, queue_tail, stats, ok, client_connected, delivery>>

\* mosquitto_connect reaches the broker or not.
ClientConnect ==
  /\ worker_pc = "connect"
  /\ \/ client_connected' = TRUE /\ worker_pc' = "publish" /\ UNCHANGED ok
     \/ client_connected' = FALSE /\ worker_pc' = "account" /\ ok' = FALSE
  /\ UNCHANGED <<mainVars, ring, stats, record, delivery>>

\* mosquitto_publish accepts the message or not.  The one mosq lives as long as
\* the process, and so does what it holds; a message whose sending failed may
\* be among it.
ClientPublish ==
  /\ worker_pc = "publish"
  /\ \/ /\ worker_pc' = "handshake" /\ UNCHANGED <<ok, client_connected>>
        /\ unacked' = unacked \cup {record}
     \/ /\ client_connected' = FALSE /\ worker_pc' = "account" /\ ok' = FALSE
        /\ unacked' \in {unacked, unacked \cup {record}}
  /\ UNCHANGED <<mainVars, ring, stats, record, retained, resent>>

\* The messages of topic t.
OnTopic(t, messages) == {m \in messages : m.type = t}

\* The five mosquitto_loop calls, whose results are ignored.  libmosquitto also
\* sends again what earlier connections left without a PUBACK.  Of all it holds,
\* some messages arrive, in an order of libmosquitto's own, and some of those
\* are acknowledged.
ClientHandshake ==
  /\ worker_pc = "handshake" /\ worker_pc' = "account" /\ ok' = TRUE
  /\ \E arrived \in SUBSET unacked :
       /\ retained' \in [Types -> arrived \cup {retained[t] : t \in Types}]
       /\ \A t \in Types :
            retained'[t] \in IF OnTopic(t, arrived) = {} THEN {retained[t]}
                             ELSE OnTopic(t, arrived)
       /\ \E acknowledged \in SUBSET arrived : unacked' = unacked \ acknowledged
       /\ resent' = (resent \/ ~(arrived \subseteq {record}))
  /\ UNCHANGED <<mainVars, ring, stats, record, client_connected>>

\* publish_one's critical section.
Account ==
  /\ worker_pc = "account" /\ worker_pc' = "lock"
  /\ connected' = client_connected
  /\ \/ ok /\ published' = published + 1 /\ UNCHANGED failed
     \/ ~ok /\ failed' = failed + 1 /\ UNCHANGED published
  /\ record' = NoRecord
  /\ UNCHANGED <<mainVars, ring, ok, client_connected, delivery>>
-----------------------------------------------------------------------------
MainStep ==
  \/ mqtt_publisher_init_fails \/ mqtt_publisher_init \/ Connect \/ LeaveLoop
  \/ Deinit \/ DeinitJoin \/ SendReply

Handler(r) == ReceiveOther(r) \/ ubus_mqtt_alarm(r) \/ ubus_mqtt_cancel_alarm(r)

WorkerStep ==
  \/ WorkerWaits \/ WorkerEnds \/ WorkerTakes
  \/ ClientConnect \/ ClientPublish \/ ClientHandshake \/ Account

Next ==
  \/ Start \/ Crash \/ handle_signal
  \/ \E r \in Requests : Handler(r)
  \/ MainStep \/ WorkerStep \/ SpuriousWakeup

Safety == Init /\ [][Next]_vars

\* Both threads run when they can; no wake-up comes but the signalled ones,
\* and every call of libmosquitto returns.
Fairness == WF_vars(MainStep) /\ WF_vars(WorkerStep)

Spec == Safety /\ Fairness
-----------------------------------------------------------------------------
(***************************************************************************)
(* Properties.                                                             *)
(***************************************************************************)
\* The two indices and the count of the ring buffer agree, through overflow
\* and wrap-around.
RingShape == queue_tail = (queue_head + queue_count) % Capacity

\* Every record the handlers made is counted exactly once: it is queued, in
\* the publisher's hands, published or failed.  So the status object's
\* published + failed + queued lags behind by at most the one in flight.
Conservation ==
  enqueued = published + failed + queue_count + IF InFlight THEN 1 ELSE 0

\* No lost wake-up: the publisher sleeps only while there is nothing for it to
\* do, neither a record nor the order to end.
SleepsOnlyWhenIdle == worker_pc = "waiting" => queue_count = 0 /\ keep_running

\* The records in the ring, oldest first.
Contents == [k \in 1 .. queue_count |-> queue[(queue_head + k - 1) % Capacity]]

\* cancel_alarm before every alarm adds no spurious message: the newest record
\* in the queue is the last alarm's, it says whether that alarm is still active,
\* and no two records in a row are "cleared".
QueueTellsAlarm ==
  /\ queue_count > 0 =>
       LET newest == Contents[queue_count] IN
         /\ newest.type = active_alarm_type
         /\ (newest.state = "active") = has_active_alarm
  /\ \A k \in 1 .. queue_count - 1 :
       Contents[k].state = "cleared" => Contents[k + 1].state = "active"

\* Once everything this process reported is published and acknowledged, and no
\* record had to be sent again, what the broker retains for the last alarm is its
\* present state.
CaughtUpBrokerAgrees ==
  /\ published = enqueued /\ unacked = {} /\ ~resent
  /\ active_alarm_type # Absent
  => /\ retained[active_alarm_type] # NoRecord
     /\ (retained[active_alarm_type].state = "active") = has_active_alarm

\* A topic goes back to an older record only when libmosquitto sends that record
\* again because its acknowledgement is missing.  The ring, its overflows, failed
\* publications and restarts never take a topic back.
OnlyResendsGoBack ==
  [][\A t \in Types :
       retained[t] # NoRecord =>
         /\ retained'[t] # NoRecord
         /\ \/ retained'[t].timestamp >= retained[t].timestamp
            \/ retained'[t] \in unacked \ {record}]_vars

\* Shutdown does not drain the queue: once told to end, the publisher takes no
\* further record, so it ends after at most the one in its hands.
NoTakeAfterStop ==
  [][worker_pc = "lock" /\ worker_pc' = "connect" => keep_running]_vars

\* The ring buffer is a bounded queue that drops its oldest record.
Q == INSTANCE DropOldestQueue WITH contents <- Contents
ImplementsQueue == Q!Spec

\* A queued record does not stay queued: it is taken, displaced, or lost with
\* the process.
RecordLeavesQueue ==
  \A n \in 1 .. MaxRecords :
    (\E k \in 1 .. queue_count : Contents[k].timestamp = n)
      ~> ~(\E k \in 1 .. queue_count : Contents[k].timestamp = n)

\* SIGTERM ends the process, the broker reachable or not.
SignalEndsProcess == terminated ~> pc \in {"exited", "failed"}

(***************************************************************************)
(* What mqtt_client.c says of the calls of mosquitto_loop: they run "so    *)
(* the QoS 1 PUBLISH/PUBACK handshake actually completes before            *)
(* disconnecting".  So a record that is about to be counted as published   *)
(* has been acknowledged.                                                  *)
(***************************************************************************)
PublishedMeansAcked == worker_pc = "account" /\ ok => record \notin unacked

ShowsActive(t) == retained[t] # NoRecord /\ retained[t].state = "active"

(***************************************************************************)
(* What teza.tex says: a subscriber that was told of an alarm must also be *)
(* told that it is over.  After a cancel_alarm, a topic that shows the     *)
(* cancelled alarm as active comes to show it as cleared, unless a new     *)
(* alarm begins or the service ends.                                       *)
(***************************************************************************)
SubscriberLearnsEnd ==
  \A t \in Types :
    active_alarm_type = t /\ ~has_active_alarm /\ ShowsActive(t)
      ~> ~ShowsActive(t) \/ has_active_alarm \/ active_alarm_type # t
=============================================================================
