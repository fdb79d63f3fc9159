------------------------- MODULE MqttServiceProofs -------------------------
(***************************************************************************)
(* Machine-checked proofs about MqttService, for any capacity, any set of  *)
(* alarm types and any bounds: the types, the shape of the ring buffer,    *)
(* the count of the records, and that no wake-up is lost.  Each of the     *)
(* last three is inductive together with the types and at most one more    *)
(* part.                                                                   *)
(***************************************************************************)
EXTENDS MqttService, TLAPS

-----------------------------------------------------------------------------
(***************************************************************************)
(* Slots of the ring.                                                      *)
(***************************************************************************)
\* The slot n places behind k, without the modulus.
LEMMA SlotIs ==
  ASSUME NEW k \in Slots, NEW n \in 0 .. Capacity
  PROVE  /\ (k + n) % Capacity \in Slots
         /\ (k + n) % Capacity =
              IF k + n < Capacity THEN k + n ELSE k + n - Capacity
<1> USE CapacityAssumption DEF Slots
<1>1. CASE k + n < Capacity
  BY <1>1
<1>2. CASE k + n >= Capacity
  <2>1. k + n - Capacity \in 0 .. Capacity - 1
    BY <1>2
  <2>2. (k + n) % Capacity = k + n - Capacity
    BY <1>2, <2>1
  <2> QED BY <2>1, <2>2, <1>2
<1> QED BY <1>1, <1>2

\* The next slot, without the modulus.
LEMMA NextSlotIs ==
  ASSUME NEW k \in Slots
  PROVE  /\ NextSlot(k) \in Slots
         /\ NextSlot(k) = IF k + 1 < Capacity THEN k + 1 ELSE 0
<1>1. 1 \in 0 .. Capacity
  BY CapacityAssumption
<1>2. /\ NextSlot(k) \in Slots
      /\ NextSlot(k) = IF k + 1 < Capacity THEN k + 1 ELSE k + 1 - Capacity
  BY <1>1, SlotIs DEF NextSlot
<1>3. k \in Nat /\ k + 1 <= Capacity
  BY CapacityAssumption DEF Slots
<1>4. k + 1 < Capacity \/ k + 1 - Capacity = 0
  BY <1>3, CapacityAssumption
<1> QED BY <1>2, <1>4
-----------------------------------------------------------------------------
\* A cancelled alarm has a type that can be reported as cleared.
ActiveInv == has_active_alarm => active_alarm_type \in Types

\* A process that has not made its publisher yet, or is gone, has none.
NoPublisherInv ==
  pc \in {"failed", "exited", "init"} => worker_pc = "none"

\* A process that ends or is killed leaves well-typed statics.
LEMMA FreshTypes ==
  ASSUME FreshStatics
  PROVE  /\ exit_status' \in {"exited", "failed"} /\ terminated' \in BOOLEAN
         /\ has_active_alarm' \in BOOLEAN
         /\ active_alarm_type' \in Types \cup {Absent}
         /\ queue' \in [Slots -> Records \cup {NoRecord}]
         /\ queue_head' \in Slots /\ queue_tail' \in Slots
         /\ queue_count' \in 0 .. Capacity
         /\ keep_running' \in BOOLEAN /\ thread_active' \in BOOLEAN
         /\ connected' \in BOOLEAN /\ published' \in Nat /\ failed' \in Nat
         /\ worker_pc' = "none" /\ record' \in Records \cup {NoRecord}
         /\ ok' \in BOOLEAN /\ client_connected' \in BOOLEAN
         /\ unacked' \subseteq Records \cup {NoRecord} /\ resent' \in BOOLEAN
         /\ enqueued' \in Nat
<1> USE DEF FreshStatics
<1>1. /\ exit_status' \in {"exited", "failed"}
      /\ active_alarm_type' \in Types \cup {Absent}
      /\ queue' \in [Slots -> Records \cup {NoRecord}]
      /\ record' \in Records \cup {NoRecord} /\ worker_pc' = "none"
  OBVIOUS
<1>2. /\ queue_head' \in Slots /\ queue_tail' \in Slots
      /\ queue_count' \in 0 .. Capacity
      /\ published' \in Nat /\ failed' \in Nat
      /\ enqueued' \in Nat
  BY CapacityAssumption DEF Slots
<1>3. /\ terminated' \in BOOLEAN /\ has_active_alarm' \in BOOLEAN
      /\ keep_running' \in BOOLEAN /\ thread_active' \in BOOLEAN
      /\ connected' \in BOOLEAN /\ ok' \in BOOLEAN
      /\ client_connected' \in BOOLEAN
      /\ unacked' \subseteq Records \cup {NoRecord} /\ resent' \in BOOLEAN
  OBVIOUS
<1> QED BY <1>1, <1>2, <1>3

\* A record put into the ring keeps the ring, the clock and the publisher
\* well-typed.
LEMMA EnqueueTypes ==
  ASSUME TypeOK, NEW type \in Types, NEW state \in {"active", "cleared"},
         Enqueue(type, state)
  PROVE  /\ queue' \in [Slots -> Records \cup {NoRecord}]
         /\ queue_head' \in Slots /\ queue_tail' \in Slots
         /\ queue_count' \in 0 .. Capacity
         /\ failed' \in Nat /\ enqueued' \in Nat /\ now' \in Nat
         /\ worker_pc' \in {"none", "lock", "waiting", "connect", "publish",
                            "handshake", "account", "done"}
<1> USE DEF TypeOK, Enqueue, mqtt_publisher_enqueue
<1>1. now' \in 1 .. MaxRecords /\ enqueued' \in Nat
  BY BoundAssumption
<1>2. [type |-> type, state |-> state, timestamp |-> now'] \in Records
  BY <1>1 DEF Records
<1>3. queue' \in [Slots -> Records \cup {NoRecord}]
  BY <1>2
<1>4. queue_tail' \in Slots /\ queue_head' \in Slots
  BY NextSlotIs
<1>5. queue_count' \in 0 .. Capacity /\ failed' \in Nat
  BY CapacityAssumption
<1>6. worker_pc' \in {"none", "lock", "waiting", "connect", "publish",
                     "handshake", "account", "done"}
  BY DEF Wake
<1> QED BY <1>1, <1>3, <1>4, <1>5, <1>6

\* The messages that arrive in a handshake: the broker comes to retain one of
\* them or what it retained before, and what is acknowledged is among them.
Handshakes(arrived) ==
  /\ retained' \in [Types -> arrived \cup {retained[t] : t \in Types}]
  /\ \A t \in Types :
       retained'[t] \in IF OnTopic(t, arrived) = {} THEN {retained[t]}
                        ELSE OnTopic(t, arrived)
  /\ unacked' \subseteq unacked /\ unacked \ arrived \subseteq unacked'
  /\ resent' = (resent \/ ~(arrived \subseteq {record}))

LEMMA HandshakeIs ==
  ClientHandshake => \E arrived \in SUBSET unacked : Handshakes(arrived)
BY DEF ClientHandshake, Handshakes

\* Every step keeps the types.
LEMMA TypeStep ==
  ASSUME TypeOK, ActiveInv, [Next]_vars
  PROVE  TypeOK'
<1> USE DEF TypeOK, alarm, ring, stats, worker, delivery
<1>1. CASE Start
  BY <1>1 DEF Start
<1>2. CASE Crash
  <2>1. pc' \in {"failed", "exited"}
    BY <1>2 DEF Crash
  <2>2. retained' = retained /\ now' = now /\ crashes' \in Nat
    BY <1>2 DEF Crash
  <2>3. FreshStatics
    BY <1>2 DEF Crash
  <2> QED BY <2>1, <2>2, <2>3, FreshTypes
<1>3. CASE handle_signal
  BY <1>3 DEF handle_signal
<1>4. ASSUME NEW r \in Requests, ReceiveOther(r)
      PROVE  TypeOK'
  BY <1>4 DEF ReceiveOther
<1>5. ASSUME NEW r \in Requests, ubus_mqtt_alarm(r)
      PROVE  TypeOK'
  <2>1. r.type \in Types
    BY <1>5, InputAssumption DEF ubus_mqtt_alarm, Requests, ActiveInv
  <2>2. Enqueue(r.type, "active")
    BY <1>5 DEF ubus_mqtt_alarm
  <2>3. has_active_alarm' \in BOOLEAN
    BY <1>5 DEF ubus_mqtt_alarm
  <2>4. active_alarm_type' \in Types \cup {Absent}
    BY <1>5, <2>1 DEF ubus_mqtt_alarm
  <2>5. pc' = "reply"
        /\ UNCHANGED <<exit_status, terminated, keep_running,
                   thread_active, connected, published, record, ok,
                   client_connected, unacked, retained, resent, crashes>>
    BY <1>5 DEF ubus_mqtt_alarm
  <2> QED BY <2>1, <2>2, <2>3, <2>4, <2>5, EnqueueTypes
<1>6. ASSUME NEW r \in Requests, ubus_mqtt_cancel_alarm(r)
      PROVE  TypeOK'
  <2>1. active_alarm_type \in Types
    BY <1>6, InputAssumption DEF ubus_mqtt_cancel_alarm, Requests, ActiveInv
  <2>2. Enqueue(active_alarm_type, "cleared")
    BY <1>6 DEF ubus_mqtt_cancel_alarm
  <2>3. has_active_alarm' \in BOOLEAN
    BY <1>6 DEF ubus_mqtt_cancel_alarm
  <2>4. active_alarm_type' \in Types \cup {Absent}
    BY <1>6, <2>1 DEF ubus_mqtt_cancel_alarm
  <2>5. pc' = "reply"
        /\ UNCHANGED <<exit_status, terminated, keep_running,
                   thread_active, connected, published, record, ok,
                   client_connected, unacked, retained, resent, crashes>>
    BY <1>6 DEF ubus_mqtt_cancel_alarm
  <2> QED BY <2>1, <2>2, <2>3, <2>4, <2>5, EnqueueTypes
<1>7. CASE mqtt_publisher_init_fails
  BY <1>7 DEF mqtt_publisher_init_fails
<1>8. CASE mqtt_publisher_init
  BY <1>8 DEF mqtt_publisher_init
<1>9. CASE Connect
  BY <1>9 DEF Connect
<1>10. CASE LeaveLoop
  BY <1>10 DEF LeaveLoop
<1>11. CASE Deinit
  BY <1>11 DEF Deinit, Wake
<1>12. CASE DeinitJoin
  <2>1. pc' \in {"failed", "exited"}
    BY <1>12 DEF DeinitJoin
  <2>2. retained' = retained /\ now' = now /\ crashes' \in Nat
    BY <1>12 DEF DeinitJoin
  <2>3. FreshStatics
    BY <1>12 DEF DeinitJoin
  <2> QED BY <2>1, <2>2, <2>3, FreshTypes
<1>13. CASE SendReply
  BY <1>13 DEF SendReply
<1>14. CASE WorkerWaits
  BY <1>14 DEF WorkerWaits, mainVars
<1>15. CASE WorkerEnds
  BY <1>15 DEF WorkerEnds, mainVars
<1>16. CASE WorkerTakes
  <2>1. queue_head' \in Slots
    BY <1>16, NextSlotIs DEF WorkerTakes
  <2>2. queue_count' \in 0 .. Capacity
    BY <1>16, CapacityAssumption DEF WorkerTakes
  <2>3. record' \in Records \cup {NoRecord}
    BY <1>16 DEF WorkerTakes
  <2>4. worker_pc' = "connect"
        /\ UNCHANGED <<mainVars, queue, queue_tail, stats, ok, client_connected,
                       delivery>>
    BY <1>16 DEF WorkerTakes
  <2> QED BY <2>1, <2>2, <2>3, <2>4 DEF mainVars
<1>17. CASE ClientConnect
  <2>1. worker_pc' \in {"publish", "account"}
    BY <1>17 DEF ClientConnect
  <2>2. ok' \in BOOLEAN
    BY <1>17 DEF ClientConnect
  <2>3. client_connected' \in BOOLEAN
    BY <1>17 DEF ClientConnect
  <2>4. UNCHANGED <<mainVars, ring, stats, record, delivery>>
    BY <1>17 DEF ClientConnect
  <2> QED BY <2>1, <2>2, <2>3, <2>4 DEF mainVars
<1>18. CASE ClientPublish
  <2>1. worker_pc' \in {"handshake", "account"}
    BY <1>18 DEF ClientPublish
  <2>2. ok' \in BOOLEAN
    BY <1>18 DEF ClientPublish
  <2>3. client_connected' \in BOOLEAN
    BY <1>18 DEF ClientPublish
  <2>4. UNCHANGED <<mainVars, ring, stats, record, retained, resent>>
    BY <1>18 DEF ClientPublish
  <2>5. unacked' \subseteq Records \cup {NoRecord}
    BY <1>18 DEF ClientPublish
  <2> QED BY <2>1, <2>2, <2>3, <2>4, <2>5 DEF mainVars
<1>19. CASE ClientHandshake
  <2>1. PICK arrived \in SUBSET unacked : Handshakes(arrived)
    BY <1>19, HandshakeIs
  <2>2. /\ retained' \in [Types -> Records \cup {NoRecord}]
        /\ unacked' \subseteq Records \cup {NoRecord}
        /\ resent' \in BOOLEAN
    BY <2>1 DEF Handshakes
  <2>3. /\ worker_pc' = "account" /\ ok' = TRUE
        /\ UNCHANGED <<mainVars, ring, stats, record, client_connected>>
    BY <1>19 DEF ClientHandshake
  <2> QED BY <2>2, <2>3 DEF mainVars
<1>20. CASE Account
  BY <1>20 DEF Account, mainVars
<1>21. CASE SpuriousWakeup
  BY <1>21 DEF SpuriousWakeup, mainVars
<1>22. CASE UNCHANGED vars
  BY <1>22 DEF vars
<1> QED BY <1>1, <1>2, <1>3, <1>4, <1>5, <1>6, <1>7, <1>8, <1>9, <1>10,
       <1>11, <1>12, <1>13, <1>14, <1>15, <1>16, <1>17, <1>18, <1>19,
       <1>20, <1>21, <1>22
       DEF Next, MainStep, Handler, WorkerStep

\* Every step keeps the type of the active alarm known.
LEMMA ActiveStep ==
  ASSUME ActiveInv, [Next]_vars
  PROVE  ActiveInv'
<1> USE DEF ActiveInv, alarm
<1>1. CASE Start
  BY <1>1 DEF Start
<1>2. CASE Crash
  BY <1>2 DEF Crash, FreshStatics
<1>3. CASE handle_signal
  BY <1>3 DEF handle_signal
<1>4. ASSUME NEW r \in Requests, ReceiveOther(r)
      PROVE  ActiveInv'
  BY <1>4 DEF ReceiveOther
<1>5. ASSUME NEW r \in Requests, ubus_mqtt_alarm(r)
      PROVE  ActiveInv'
  BY <1>5, InputAssumption DEF ubus_mqtt_alarm, Enqueue, mqtt_publisher_enqueue,
     Wake, Requests
<1>6. ASSUME NEW r \in Requests, ubus_mqtt_cancel_alarm(r)
      PROVE  ActiveInv'
  BY <1>6 DEF ubus_mqtt_cancel_alarm, Enqueue, mqtt_publisher_enqueue, Wake
<1>7. CASE mqtt_publisher_init_fails
  BY <1>7 DEF mqtt_publisher_init_fails
<1>8. CASE mqtt_publisher_init
  BY <1>8 DEF mqtt_publisher_init
<1>9. CASE Connect
  BY <1>9 DEF Connect
<1>10. CASE LeaveLoop
  BY <1>10 DEF LeaveLoop
<1>11. CASE Deinit
  BY <1>11 DEF Deinit, Wake
<1>12. CASE DeinitJoin
  BY <1>12 DEF DeinitJoin, FreshStatics
<1>13. CASE SendReply
  BY <1>13 DEF SendReply
<1>14. CASE WorkerWaits
  BY <1>14 DEF WorkerWaits, mainVars
<1>15. CASE WorkerEnds
  BY <1>15 DEF WorkerEnds, mainVars
<1>16. CASE WorkerTakes
  BY <1>16 DEF WorkerTakes, mainVars
<1>17. CASE ClientConnect
  BY <1>17 DEF ClientConnect, mainVars
<1>18. CASE ClientPublish
  BY <1>18 DEF ClientPublish, mainVars
<1>19. CASE ClientHandshake
  BY <1>19 DEF ClientHandshake, mainVars
<1>20. CASE Account
  BY <1>20 DEF Account, mainVars
<1>21. CASE SpuriousWakeup
  BY <1>21 DEF SpuriousWakeup, mainVars
<1>22. CASE UNCHANGED vars
  BY <1>22 DEF vars
<1> QED BY <1>1, <1>2, <1>3, <1>4, <1>5, <1>6, <1>7, <1>8, <1>9, <1>10,
       <1>11, <1>12, <1>13, <1>14, <1>15, <1>16, <1>17, <1>18, <1>19,
       <1>20, <1>21, <1>22
       DEF Next, MainStep, Handler, WorkerStep

\* Taking the oldest record moves the head by one and not the end.
LEMMA SlotMoves ==
  ASSUME NEW k \in Slots, NEW n \in 1 .. Capacity
  PROVE  (NextSlot(k) + (n - 1)) % Capacity = (k + n) % Capacity
<1> USE CapacityAssumption
<1>1. /\ NextSlot(k) \in Slots
      /\ NextSlot(k) = IF k + 1 < Capacity THEN k + 1 ELSE 0
  BY NextSlotIs
<1>2. n \in 0 .. Capacity /\ n - 1 \in 0 .. Capacity
  OBVIOUS
<1>3. (k + n) % Capacity = IF k + n < Capacity THEN k + n ELSE k + n - Capacity
  BY <1>2, SlotIs
<1>4. (NextSlot(k) + (n - 1)) % Capacity =
        IF NextSlot(k) + (n - 1) < Capacity THEN NextSlot(k) + (n - 1)
        ELSE NextSlot(k) + (n - 1) - Capacity
  BY <1>1, <1>2, SlotIs
<1>5. k \in Nat /\ k <= Capacity - 1 /\ n \in Nat /\ n >= 1 /\ n <= Capacity
  BY DEF Slots
<1>6. CASE k + 1 < Capacity
  BY <1>1, <1>3, <1>4, <1>5, <1>6
<1>7. CASE k + 1 >= Capacity
  BY <1>1, <1>3, <1>4, <1>5, <1>7
<1> QED BY <1>5, <1>6, <1>7

\* The slot behind the last record is the next one of the slot before it.
LEMMA SlotAppends ==
  ASSUME NEW k \in Slots, NEW n \in 0 .. Capacity - 1
  PROVE  NextSlot((k + n) % Capacity) = (k + (n + 1)) % Capacity
<1> USE CapacityAssumption
<1>1. n \in 0 .. Capacity /\ n + 1 \in 0 .. Capacity
  OBVIOUS
<1>2. /\ (k + n) % Capacity \in Slots
      /\ (k + n) % Capacity =
           IF k + n < Capacity THEN k + n ELSE k + n - Capacity
  BY <1>1, SlotIs
<1>3. (k + (n + 1)) % Capacity =
        IF k + (n + 1) < Capacity THEN k + (n + 1) ELSE k + (n + 1) - Capacity
  BY <1>1, SlotIs
<1>4. NextSlot((k + n) % Capacity) =
        IF ((k + n) % Capacity) + 1 < Capacity
        THEN ((k + n) % Capacity) + 1 ELSE 0
  BY <1>2, NextSlotIs
<1>5. k \in Nat /\ k <= Capacity - 1 /\ n \in Nat /\ n <= Capacity - 1
  BY DEF Slots
<1>6. CASE k + n < Capacity
  BY <1>2, <1>3, <1>4, <1>5, <1>6
<1>7. CASE k + n >= Capacity
  BY <1>2, <1>3, <1>4, <1>5, <1>7
<1> QED BY <1>5, <1>6, <1>7

\* Storing a record keeps the shape of the ring, full or not.
LEMMA EnqueueRing ==
  ASSUME TypeOK, RingShape, NEW rec, mqtt_publisher_enqueue(rec)
  PROVE  RingShape'
<1> USE CapacityAssumption
<1>1. /\ queue_head \in Slots /\ queue_tail \in Slots
      /\ queue_count \in 0 .. Capacity
      /\ queue_tail = (queue_head + queue_count) % Capacity
      /\ queue_tail' = NextSlot(queue_tail)
  BY DEF TypeOK, RingShape, mqtt_publisher_enqueue
<1>2. CASE queue_count = Capacity
  <2>1. queue_head' = NextSlot(queue_head) /\ queue_count' = Capacity
    BY <1>1, <1>2 DEF mqtt_publisher_enqueue
  <2>a. queue_head \in Slots /\ Capacity \in 0 .. Capacity
    BY <1>1
  <2>b. (queue_head + Capacity) % Capacity =
          IF queue_head + Capacity < Capacity THEN queue_head + Capacity
          ELSE queue_head + Capacity - Capacity
    BY <2>a, SlotIs
  <2>c. (queue_head + Capacity) % Capacity = queue_head
    BY <2>a, <2>b DEF Slots
  <2>2. queue_tail = queue_head
    BY <1>1, <1>2, <2>c
  <2>3. NextSlot(queue_head) \in Slots
    BY <1>1, NextSlotIs
  <2>4. (NextSlot(queue_head) + Capacity) % Capacity = NextSlot(queue_head)
    BY <2>3, SlotIs DEF Slots
  <2> QED BY <1>1, <2>1, <2>2, <2>4 DEF RingShape
<1>3. CASE queue_count < Capacity
  <2>1. queue_head' = queue_head /\ queue_count' = queue_count + 1
    BY <1>1, <1>3 DEF mqtt_publisher_enqueue
  <2>2. queue_count \in 0 .. Capacity - 1
    BY <1>1, <1>3
  <2>3. NextSlot((queue_head + queue_count) % Capacity)
          = (queue_head + (queue_count + 1)) % Capacity
    BY <1>1, <2>2, SlotAppends
  <2> QED BY <1>1, <2>1, <2>3 DEF RingShape
<1> QED BY <1>1, <1>2, <1>3

\* Every step keeps the indices and the count of the ring in agreement.
LEMMA RingStep ==
  ASSUME TypeOK, RingShape, [Next]_vars
  PROVE  RingShape'
<1> USE DEF RingShape, ring
<1>1. CASE Start
  BY <1>1 DEF Start
<1>2. CASE Crash
  <2>1. queue_head' = 0 /\ queue_tail' = 0 /\ queue_count' = 0
    BY <1>2 DEF Crash, FreshStatics
  <2> QED BY <2>1, CapacityAssumption
<1>3. CASE handle_signal
  BY <1>3 DEF handle_signal
<1>4. ASSUME NEW r \in Requests, ReceiveOther(r)
      PROVE  RingShape'
  BY <1>4 DEF ReceiveOther
<1>5. ASSUME NEW r \in Requests, ubus_mqtt_alarm(r)
      PROVE  RingShape'
  <2>1. mqtt_publisher_enqueue([type |-> r.type,
                                state |-> "active", timestamp |-> now'])
    BY <1>5 DEF ubus_mqtt_alarm, Enqueue
  <2> QED BY <2>1, EnqueueRing
<1>6. ASSUME NEW r \in Requests, ubus_mqtt_cancel_alarm(r)
      PROVE  RingShape'
  <2>1. mqtt_publisher_enqueue([type |-> active_alarm_type,
                                state |-> "cleared", timestamp |-> now'])
    BY <1>6 DEF ubus_mqtt_cancel_alarm, Enqueue
  <2> QED BY <2>1, EnqueueRing
<1>7. CASE mqtt_publisher_init_fails
  BY <1>7 DEF mqtt_publisher_init_fails
<1>8. CASE mqtt_publisher_init
  BY <1>8 DEF mqtt_publisher_init
<1>9. CASE Connect
  BY <1>9 DEF Connect
<1>10. CASE LeaveLoop
  BY <1>10 DEF LeaveLoop
<1>11. CASE Deinit
  BY <1>11 DEF Deinit, Wake
<1>12. CASE DeinitJoin
  <2>1. queue_head' = 0 /\ queue_tail' = 0 /\ queue_count' = 0
    BY <1>12 DEF DeinitJoin, FreshStatics
  <2> QED BY <2>1, CapacityAssumption
<1>13. CASE SendReply
  BY <1>13 DEF SendReply
<1>14. CASE WorkerWaits
  BY <1>14 DEF WorkerWaits, mainVars
<1>15. CASE WorkerEnds
  BY <1>15 DEF WorkerEnds, mainVars
<1>16. CASE WorkerTakes
  <2>1. queue_head \in Slots /\ queue_count \in 1 .. Capacity
    BY <1>16, CapacityAssumption DEF WorkerTakes, TypeOK
  <2>2. /\ queue_head' = NextSlot(queue_head)
        /\ queue_count' = queue_count - 1
        /\ queue_tail' = queue_tail
    BY <1>16 DEF WorkerTakes
  <2>3. (NextSlot(queue_head) + (queue_count - 1)) % Capacity
          = (queue_head + queue_count) % Capacity
    BY <2>1, SlotMoves
  <2> QED BY <2>2, <2>3
<1>17. CASE ClientConnect
  BY <1>17 DEF ClientConnect, mainVars
<1>18. CASE ClientPublish
  BY <1>18 DEF ClientPublish, mainVars
<1>19. CASE ClientHandshake
  BY <1>19 DEF ClientHandshake, mainVars
<1>20. CASE Account
  BY <1>20 DEF Account, mainVars
<1>21. CASE SpuriousWakeup
  BY <1>21 DEF SpuriousWakeup, mainVars
<1>22. CASE UNCHANGED vars
  BY <1>22 DEF vars
<1> QED BY <1>1, <1>2, <1>3, <1>4, <1>5, <1>6, <1>7, <1>8, <1>9, <1>10,
       <1>11, <1>12, <1>13, <1>14, <1>15, <1>16, <1>17, <1>18, <1>19,
       <1>20, <1>21, <1>22
       DEF Next, MainStep, Handler, WorkerStep

\* There is a publisher only between mqtt_publisher_init and the end of the
\* process.
LEMMA NoPublisherStep ==
  ASSUME NoPublisherInv, [Next]_vars
  PROVE  NoPublisherInv'
<1> USE DEF NoPublisherInv, worker
<1>1. CASE Start
  BY <1>1 DEF Start
<1>2. CASE Crash
  BY <1>2 DEF Crash, FreshStatics
<1>3. CASE handle_signal
  BY <1>3 DEF handle_signal
<1>4. ASSUME NEW r \in Requests, ReceiveOther(r)
      PROVE  NoPublisherInv'
  BY <1>4 DEF ReceiveOther
<1>5. ASSUME NEW r \in Requests, ubus_mqtt_alarm(r)
      PROVE  NoPublisherInv'
  BY <1>5 DEF ubus_mqtt_alarm, Enqueue, mqtt_publisher_enqueue, Wake
<1>6. ASSUME NEW r \in Requests, ubus_mqtt_cancel_alarm(r)
      PROVE  NoPublisherInv'
  BY <1>6 DEF ubus_mqtt_cancel_alarm, Enqueue, mqtt_publisher_enqueue, Wake
<1>7. CASE mqtt_publisher_init_fails
  BY <1>7 DEF mqtt_publisher_init_fails
<1>8. CASE mqtt_publisher_init
  BY <1>8 DEF mqtt_publisher_init
<1>9. CASE Connect
  BY <1>9 DEF Connect
<1>10. CASE LeaveLoop
  BY <1>10 DEF LeaveLoop
<1>11. CASE Deinit
  BY <1>11 DEF Deinit, Wake
<1>12. CASE DeinitJoin
  BY <1>12 DEF DeinitJoin, FreshStatics
<1>13. CASE SendReply
  BY <1>13 DEF SendReply
<1>14. CASE WorkerWaits
  BY <1>14 DEF WorkerWaits, mainVars
<1>15. CASE WorkerEnds
  BY <1>15 DEF WorkerEnds, mainVars
<1>16. CASE WorkerTakes
  BY <1>16 DEF WorkerTakes, mainVars
<1>17. CASE ClientConnect
  BY <1>17 DEF ClientConnect, mainVars
<1>18. CASE ClientPublish
  BY <1>18 DEF ClientPublish, mainVars
<1>19. CASE ClientHandshake
  BY <1>19 DEF ClientHandshake, mainVars
<1>20. CASE Account
  BY <1>20 DEF Account, mainVars
<1>21. CASE SpuriousWakeup
  BY <1>21 DEF SpuriousWakeup, mainVars
<1>22. CASE UNCHANGED vars
  BY <1>22 DEF vars
<1> QED BY <1>1, <1>2, <1>3, <1>4, <1>5, <1>6, <1>7, <1>8, <1>9, <1>10,
       <1>11, <1>12, <1>13, <1>14, <1>15, <1>16, <1>17, <1>18, <1>19,
       <1>20, <1>21, <1>22
       DEF Next, MainStep, Handler, WorkerStep

\* The records in the publisher's hands.
InHand == IF InFlight THEN 1 ELSE 0

\* Storing a record is counted once: it is queued, and one that it displaces
\* has failed.
LEMMA EnqueueCounts ==
  ASSUME NEW type, NEW state, Enqueue(type, state)
  PROVE  /\ enqueued' = enqueued + 1
         /\ \/ queue_count' = queue_count /\ failed' = failed + 1
            \/ queue_count' = queue_count + 1 /\ failed' = failed
         /\ InHand' = InHand
<1>1. /\ enqueued' = enqueued + 1
      /\ \/ queue_count' = queue_count /\ failed' = failed + 1
         \/ queue_count' = queue_count + 1 /\ failed' = failed
  BY DEF Enqueue, mqtt_publisher_enqueue
<1>2. worker_pc' = IF worker_pc = "waiting" THEN "lock" ELSE worker_pc
  BY DEF Enqueue, mqtt_publisher_enqueue, Wake
<1>3. InHand' = InHand
  BY <1>2 DEF InHand, InFlight
<1> QED BY <1>1, <1>3

\* Every step keeps the count of the records complete.
LEMMA ConservationStep ==
  ASSUME TypeOK, NoPublisherInv, Conservation, [Next]_vars
  PROVE  Conservation'
<1> USE DEF ring, stats, worker
<1> DEFINE Total == published + failed + queue_count + InHand
<1>a. /\ enqueued \in Nat /\ published \in Nat /\ failed \in Nat
      /\ queue_count \in Nat
  BY CapacityAssumption DEF TypeOK
<1>b. InHand \in Nat
  BY DEF InHand
<1>c. enqueued = Total
  BY DEF Conservation, InHand
<1> SUFFICES enqueued' = Total'
  BY DEF Conservation, InHand
<1>1. CASE Start
  <2>1. InHand' = InHand
    BY <1>1 DEF Start, InHand, InFlight
  <2>2. UNCHANGED <<enqueued, published, failed, queue_count>>
    BY <1>1 DEF Start
  <2> QED BY <1>c, <2>1, <2>2 DEF Total
<1>2. CASE Crash
  <2>1. /\ enqueued' = 0 /\ published' = 0 /\ failed' = 0 /\ queue_count' = 0
        /\ worker_pc' = "none"
    BY <1>2 DEF Crash, FreshStatics
  <2> QED BY <2>1 DEF Total, InHand, InFlight
<1>3. CASE handle_signal
  <2>1. InHand' = InHand
    BY <1>3 DEF handle_signal, InHand, InFlight
  <2>2. UNCHANGED <<enqueued, published, failed, queue_count>>
    BY <1>3 DEF handle_signal
  <2> QED BY <1>c, <2>1, <2>2 DEF Total
<1>4. ASSUME NEW r \in Requests, ReceiveOther(r)
      PROVE  enqueued' = Total'
  <2>1. InHand' = InHand
    BY <1>4 DEF ReceiveOther, InHand, InFlight
  <2>2. UNCHANGED <<enqueued, published, failed, queue_count>>
    BY <1>4 DEF ReceiveOther
  <2> QED BY <1>c, <2>1, <2>2 DEF Total
<1>5. ASSUME NEW r \in Requests, ubus_mqtt_alarm(r)
      PROVE  enqueued' = Total'
  <2>1. published' = published /\ Enqueue(r.type, "active")
    BY <1>5 DEF ubus_mqtt_alarm
  <2>2. /\ enqueued' = enqueued + 1
        /\ \/ queue_count' = queue_count /\ failed' = failed + 1
           \/ queue_count' = queue_count + 1 /\ failed' = failed
        /\ InHand' = InHand
    BY <2>1, EnqueueCounts
  <2>3. published' = published
    BY <2>1
  <2> QED BY <1>a, <1>b, <1>c, <2>2, <2>3 DEF Total
<1>6. ASSUME NEW r \in Requests, ubus_mqtt_cancel_alarm(r)
      PROVE  enqueued' = Total'
  <2>1. published' = published /\ Enqueue(active_alarm_type, "cleared")
    BY <1>6 DEF ubus_mqtt_cancel_alarm
  <2>2. /\ enqueued' = enqueued + 1
        /\ \/ queue_count' = queue_count /\ failed' = failed + 1
           \/ queue_count' = queue_count + 1 /\ failed' = failed
        /\ InHand' = InHand
    BY <2>1, EnqueueCounts
  <2>3. published' = published
    BY <2>1
  <2> QED BY <1>a, <1>b, <1>c, <2>2, <2>3 DEF Total
<1>7. CASE mqtt_publisher_init_fails
  <2>1. InHand' = InHand
    BY <1>7 DEF mqtt_publisher_init_fails, InHand, InFlight
  <2>2. UNCHANGED <<enqueued, published, failed, queue_count>>
    BY <1>7 DEF mqtt_publisher_init_fails
  <2> QED BY <1>c, <2>1, <2>2 DEF Total
<1>8. CASE mqtt_publisher_init
  <2>1. worker_pc = "none" /\ worker_pc' = "lock"
    BY <1>8 DEF mqtt_publisher_init, NoPublisherInv
  <2>2. InHand = 0 /\ InHand' = 0
    BY <2>1 DEF InHand, InFlight
  <2>3. UNCHANGED <<enqueued, published, failed, queue_count>>
    BY <1>8 DEF mqtt_publisher_init
  <2> QED BY <1>c, <2>2, <2>3 DEF Total
<1>9. CASE Connect
  <2>1. InHand' = InHand
    BY <1>9 DEF Connect, InHand, InFlight
  <2>2. UNCHANGED <<enqueued, published, failed, queue_count>>
    BY <1>9 DEF Connect
  <2> QED BY <1>c, <2>1, <2>2 DEF Total
<1>10. CASE LeaveLoop
  <2>1. InHand' = InHand
    BY <1>10 DEF LeaveLoop, InHand, InFlight
  <2>2. UNCHANGED <<enqueued, published, failed, queue_count>>
    BY <1>10 DEF LeaveLoop
  <2> QED BY <1>c, <2>1, <2>2 DEF Total
<1>11. CASE Deinit
  <2>1. InHand' = InHand
    BY <1>11 DEF Deinit, InHand, InFlight, Wake
  <2>2. UNCHANGED <<enqueued, published, failed, queue_count>>
    BY <1>11 DEF Deinit
  <2> QED BY <1>c, <2>1, <2>2 DEF Total
<1>12. CASE DeinitJoin
  <2>1. /\ enqueued' = 0 /\ published' = 0 /\ failed' = 0 /\ queue_count' = 0
        /\ worker_pc' = "none"
    BY <1>12 DEF DeinitJoin, FreshStatics
  <2> QED BY <2>1 DEF Total, InHand, InFlight
<1>13. CASE SendReply
  <2>1. InHand' = InHand
    BY <1>13 DEF SendReply, InHand, InFlight
  <2>2. UNCHANGED <<enqueued, published, failed, queue_count>>
    BY <1>13 DEF SendReply
  <2> QED BY <1>c, <2>1, <2>2 DEF Total
<1>14. CASE WorkerWaits
  <2>1. InHand' = InHand
    BY <1>14 DEF WorkerWaits, InHand, InFlight
  <2>2. UNCHANGED <<enqueued, published, failed, queue_count>>
    BY <1>14 DEF WorkerWaits, mainVars
  <2> QED BY <1>c, <2>1, <2>2 DEF Total
<1>15. CASE WorkerEnds
  <2>1. InHand' = InHand
    BY <1>15 DEF WorkerEnds, InHand, InFlight
  <2>2. UNCHANGED <<enqueued, published, failed, queue_count>>
    BY <1>15 DEF WorkerEnds, mainVars
  <2> QED BY <1>c, <2>1, <2>2 DEF Total
<1>16. CASE WorkerTakes
  <2>1. InHand = 0 /\ InHand' = 1
    BY <1>16 DEF WorkerTakes, InHand, InFlight
  <2>2. queue_count' = queue_count - 1
        /\ UNCHANGED <<enqueued, published, failed>>
    BY <1>16 DEF WorkerTakes, mainVars
  <2> QED BY <1>a, <1>b, <1>c, <2>1, <2>2 DEF Total
<1>17. CASE ClientConnect
  <2>1. InHand' = InHand
    BY <1>17 DEF ClientConnect, InHand, InFlight
  <2>2. UNCHANGED <<enqueued, published, failed, queue_count>>
    BY <1>17 DEF ClientConnect, mainVars
  <2> QED BY <1>c, <2>1, <2>2 DEF Total
<1>18. CASE ClientPublish
  <2>1. InHand' = InHand
    BY <1>18 DEF ClientPublish, InHand, InFlight
  <2>2. UNCHANGED <<enqueued, published, failed, queue_count>>
    BY <1>18 DEF ClientPublish, mainVars
  <2> QED BY <1>c, <2>1, <2>2 DEF Total
<1>19. CASE ClientHandshake
  <2>1. InHand' = InHand
    BY <1>19 DEF ClientHandshake, InHand, InFlight
  <2>2. UNCHANGED <<enqueued, published, failed, queue_count>>
    BY <1>19 DEF ClientHandshake, mainVars
  <2> QED BY <1>c, <2>1, <2>2 DEF Total
<1>20. CASE Account
  <2>1. InHand = 1 /\ InHand' = 0
    BY <1>20 DEF Account, InHand, InFlight
  <2>2. UNCHANGED <<enqueued, queue_count>>
    BY <1>20 DEF Account, mainVars
  <2>3. \/ published' = published + 1 /\ failed' = failed
        \/ failed' = failed + 1 /\ published' = published
    BY <1>20 DEF Account
  <2> QED BY <1>a, <1>b, <1>c, <2>1, <2>2, <2>3 DEF Total
<1>21. CASE SpuriousWakeup
  <2>1. InHand' = InHand
    BY <1>21 DEF SpuriousWakeup, InHand, InFlight
  <2>2. UNCHANGED <<enqueued, published, failed, queue_count>>
    BY <1>21 DEF SpuriousWakeup, mainVars
  <2> QED BY <1>c, <2>1, <2>2 DEF Total
<1>22. CASE UNCHANGED vars
  <2>1. UNCHANGED <<enqueued, published, failed, queue_count, worker_pc>>
    BY <1>22 DEF vars
  <2>2. InHand' = InHand
    BY <2>1 DEF InHand, InFlight
  <2> QED BY <1>c, <2>1, <2>2 DEF Total
<1> QED BY <1>1, <1>2, <1>3, <1>4, <1>5, <1>6, <1>7, <1>8, <1>9, <1>10,
       <1>11, <1>12, <1>13, <1>14, <1>15, <1>16, <1>17, <1>18, <1>19,
       <1>20, <1>21, <1>22
       DEF Next, MainStep, Handler, WorkerStep

\* Every step that gives the publisher something to do wakes it.
LEMMA SleepStep ==
  ASSUME TypeOK, SleepsOnlyWhenIdle, [Next]_vars
  PROVE  SleepsOnlyWhenIdle'
<1> USE DEF SleepsOnlyWhenIdle, ring, worker
<1>1. CASE Start
  BY <1>1 DEF Start
<1>2. CASE Crash
  BY <1>2 DEF Crash, FreshStatics
<1>3. CASE handle_signal
  BY <1>3 DEF handle_signal
<1>4. ASSUME NEW r \in Requests, ReceiveOther(r)
      PROVE  SleepsOnlyWhenIdle'
  BY <1>4 DEF ReceiveOther
<1>5. ASSUME NEW r \in Requests, ubus_mqtt_alarm(r)
      PROVE  SleepsOnlyWhenIdle'
  BY <1>5 DEF ubus_mqtt_alarm, Enqueue, mqtt_publisher_enqueue, Wake
<1>6. ASSUME NEW r \in Requests, ubus_mqtt_cancel_alarm(r)
      PROVE  SleepsOnlyWhenIdle'
  BY <1>6 DEF ubus_mqtt_cancel_alarm, Enqueue, mqtt_publisher_enqueue, Wake
<1>7. CASE mqtt_publisher_init_fails
  BY <1>7 DEF mqtt_publisher_init_fails
<1>8. CASE mqtt_publisher_init
  BY <1>8 DEF mqtt_publisher_init
<1>9. CASE Connect
  BY <1>9 DEF Connect
<1>10. CASE LeaveLoop
  BY <1>10 DEF LeaveLoop
<1>11. CASE Deinit
  BY <1>11 DEF Deinit, Wake
<1>12. CASE DeinitJoin
  BY <1>12 DEF DeinitJoin, FreshStatics
<1>13. CASE SendReply
  BY <1>13 DEF SendReply
<1>14. CASE WorkerWaits
  BY <1>14 DEF WorkerWaits, mainVars
<1>15. CASE WorkerEnds
  BY <1>15 DEF WorkerEnds, mainVars
<1>16. CASE WorkerTakes
  BY <1>16 DEF WorkerTakes, mainVars
<1>17. CASE ClientConnect
  BY <1>17 DEF ClientConnect, mainVars
<1>18. CASE ClientPublish
  BY <1>18 DEF ClientPublish, mainVars
<1>19. CASE ClientHandshake
  BY <1>19 DEF ClientHandshake, mainVars
<1>20. CASE Account
  BY <1>20 DEF Account, mainVars
<1>21. CASE SpuriousWakeup
  BY <1>21 DEF SpuriousWakeup, mainVars
<1>22. CASE UNCHANGED vars
  BY <1>22 DEF vars
<1> QED BY <1>1, <1>2, <1>3, <1>4, <1>5, <1>6, <1>7, <1>8, <1>9, <1>10,
       <1>11, <1>12, <1>13, <1>14, <1>15, <1>16, <1>17, <1>18, <1>19,
       <1>20, <1>21, <1>22
       DEF Next, MainStep, Handler, WorkerStep
-----------------------------------------------------------------------------
\* The inductive invariant.
MInv ==
  /\ TypeOK /\ ActiveInv /\ NoPublisherInv
  /\ RingShape /\ Conservation /\ SleepsOnlyWhenIdle

LEMMA InitMInv == Init => MInv
<1> SUFFICES ASSUME Init PROVE MInv
  OBVIOUS
<1> USE DEF Init
<1>1. TypeOK
  <2>1. /\ queue_head \in Slots /\ queue_tail \in Slots
        /\ queue_count \in 0 .. Capacity
        /\ published \in Nat /\ failed \in Nat
        /\ enqueued \in Nat /\ now \in Nat /\ crashes \in Nat
    BY CapacityAssumption DEF Slots
  <2>2. /\ terminated \in BOOLEAN /\ has_active_alarm \in BOOLEAN
        /\ keep_running \in BOOLEAN /\ thread_active \in BOOLEAN
        /\ connected \in BOOLEAN /\ ok \in BOOLEAN
        /\ client_connected \in BOOLEAN
        /\ unacked \subseteq Records \cup {NoRecord} /\ resent \in BOOLEAN
    OBVIOUS
  <2>3. /\ active_alarm_type \in Types \cup {Absent}
        /\ queue \in [Slots -> Records \cup {NoRecord}]
        /\ retained \in [Types -> Records \cup {NoRecord}]
        /\ record \in Records \cup {NoRecord}
    OBVIOUS
  <2>4. /\ pc \in {"failed", "exited", "init", "connect", "add_object", "idle",
                  "reply", "deinit", "join"}
        /\ exit_status \in {"exited", "failed"}
        /\ worker_pc \in {"none", "lock", "waiting", "connect", "publish",
                         "handshake", "account", "done"}
    OBVIOUS
  <2> QED BY <2>1, <2>2, <2>3, <2>4 DEF TypeOK
<1>2. ActiveInv
  BY DEF ActiveInv
<1>3. RingShape
  BY CapacityAssumption DEF RingShape
<1>4. Conservation
  BY DEF Conservation, InFlight
<1>5. SleepsOnlyWhenIdle
  BY DEF SleepsOnlyWhenIdle
<1>6. NoPublisherInv
  BY DEF NoPublisherInv
<1> QED BY <1>1, <1>2, <1>3, <1>4, <1>5, <1>6 DEF MInv

\* The invariant is inductive.
THEOREM MInductive == Safety => []MInv
<1>1. MInv /\ [Next]_vars => MInv'
  BY TypeStep, ActiveStep, NoPublisherStep, RingStep,
     ConservationStep, SleepStep DEF MInv
<1> QED BY InitMInv, <1>1, PTL DEF Safety

\* Every variable keeps its type: the indices stay inside the ring, and no
\* counter goes below zero.
THEOREM TypeCorrect == Safety => []TypeOK
<1>1. MInv => TypeOK
  BY DEF MInv
<1> QED BY MInductive, <1>1, PTL

\* Head, tail and count of the ring agree after any number of overflows.
THEOREM RingIsSound == Safety => []RingShape
<1>1. MInv => RingShape
  BY DEF MInv
<1> QED BY MInductive, <1>1, PTL

\* Every record the handlers made is queued, in the publisher's hands,
\* published or failed, and counted once.
THEOREM NoRecordUncounted == Safety => []Conservation
<1>1. MInv => Conservation
  BY DEF MInv
<1> QED BY MInductive, <1>1, PTL

\* The publisher never sleeps on a record or on the order to end.
THEOREM NoLostWakeup == Safety => []SleepsOnlyWhenIdle
<1>1. MInv => SleepsOnlyWhenIdle
  BY DEF MInv
<1> QED BY MInductive, <1>1, PTL

\* Once told to end, the publisher takes no further record.
THEOREM ShutdownIsPrompt == Safety => NoTakeAfterStop
<1> DEFINE A == worker_pc = "lock" /\ worker_pc' = "connect" => keep_running
<1>1. [Next]_vars => [A]_vars
  BY DEF Next, MainStep, Handler, WorkerStep, Start, Crash, FreshStatics,
    handle_signal, ReceiveOther, ubus_mqtt_alarm, ubus_mqtt_cancel_alarm,
    Enqueue, mqtt_publisher_enqueue, Wake, mqtt_publisher_init_fails,
    mqtt_publisher_init, Connect, LeaveLoop, Deinit, DeinitJoin, SendReply, WorkerWaits, WorkerEnds,
    WorkerTakes, ClientConnect, ClientPublish, ClientHandshake, Account,
    SpuriousWakeup, worker
<1> QED BY <1>1, PTL DEF Safety, NoTakeAfterStop
=============================================================================
