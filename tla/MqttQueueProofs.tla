-------------------------- MODULE MqttQueueProofs --------------------------
(***************************************************************************)
(* Machine-checked proofs about the records of MqttService, for any        *)
(* capacity, any alarm types and any bounds: the ring implements           *)
(* DropOldestQueue, its records tell the present alarm, and what the       *)
(* broker retains agrees with it unless a record failed, lacks its         *)
(* acknowledgement or was sent again; only what is sent again can take a   *)
(* topic back.                                                             *)
(*                                                                         *)
(* The modulus is gone after Puts and Takes, which say what the two        *)
(* critical sections do to Contents; StepKinds reduces the actions to what *)
(* they do to the records.                                                 *)
(***************************************************************************)
EXTENDS MqttServiceProofs, SequenceTheorems

\* Slots of the ring at different distances from one are different.
LEMMA SlotsDiffer ==
  ASSUME NEW h \in Slots, NEW m \in 0 .. Capacity, NEW n \in 0 .. Capacity,
         m < n, n - m < Capacity
  PROVE  (h + m) % Capacity # (h + n) % Capacity
<1>1. (h + m) % Capacity = IF h + m < Capacity THEN h + m ELSE h + m - Capacity
  BY SlotIs
<1>2. (h + n) % Capacity = IF h + n < Capacity THEN h + n ELSE h + n - Capacity
  BY SlotIs
<1> QED BY <1>1, <1>2, CapacityAssumption DEF Slots

\* The k-th record of the ring, before and after a step.
LEMMA ContentsAt ==
  ASSUME TypeOK, NEW k \in 1 .. queue_count
  PROVE  Contents[k] = queue[(queue_head + (k - 1)) % Capacity]
<1>1. Contents[k] = queue[(queue_head + k - 1) % Capacity]
  BY Zenon DEF Contents
<1>2. queue_head + k - 1 = queue_head + (k - 1)
  BY CapacityAssumption DEF TypeOK, Slots
<1> QED BY <1>1, <1>2

LEMMA ContentsAtNext ==
  ASSUME TypeOK', NEW k \in 1 .. queue_count'
  PROVE  Contents'[k] = queue'[(queue_head' + (k - 1)) % Capacity]
<1>1. Contents'[k] = queue'[(queue_head' + k - 1) % Capacity]
  BY Zenon DEF Contents
<1>2. queue_head' + k - 1 = queue_head' + (k - 1)
  BY CapacityAssumption DEF TypeOK, Slots
<1> QED BY <1>1, <1>2

\* A record that is stored comes last; the others keep their order, and the
\* oldest one makes room in a full ring.
Puts(rec, d) ==
  /\ d = (IF queue_count = Capacity THEN 1 ELSE 0)
  /\ queue_count' = queue_count + 1 - d
  /\ \A k \in 1 .. queue_count' - 1 : Contents'[k] = Contents[k + d]
  /\ Contents'[queue_count'] = rec

LEMMA EnqueuePuts ==
  ASSUME TypeOK, TypeOK', RingShape, NEW rec, mqtt_publisher_enqueue(rec)
  PROVE  \E d \in {0, 1} : Puts(rec, d)
<1> USE CapacityAssumption
<1>1. /\ queue_head \in Slots /\ queue_tail \in Slots /\ queue_count \in 0 .. Capacity
      /\ queue_head' \in Slots /\ queue_count' \in 0 .. Capacity
      /\ queue_tail = (queue_head + queue_count) % Capacity
      /\ queue \in [Slots -> Records \cup {NoRecord}]
      /\ queue' = [queue EXCEPT ![queue_tail] = rec]
  BY DEF TypeOK, RingShape, mqtt_publisher_enqueue
<1>2. CASE queue_count = Capacity
  <2>1. queue_head' = NextSlot(queue_head) /\ queue_count' = queue_count
    BY <1>1, <1>2 DEF mqtt_publisher_enqueue
  <2>2. ASSUME NEW k \in 1 .. Capacity
        PROVE  Contents'[k] = queue'[(queue_head + k) % Capacity]
    <3>1. Contents'[k] = queue'[(queue_head' + (k - 1)) % Capacity]
      BY <1>2, <2>1, ContentsAtNext
    <3>2. (queue_head' + (k - 1)) % Capacity = (queue_head + k) % Capacity
      BY <1>1, <2>1, SlotMoves
    <3> QED BY <3>1, <3>2
  <2>3. ASSUME NEW k \in 1 .. Capacity - 1
        PROVE  Contents'[k] = Contents[k + 1]
    <3>1. k \in 1 .. Capacity /\ k + 1 \in 1 .. queue_count /\ (k + 1) - 1 = k
      BY <1>2
    <3>2. Contents[k + 1] = queue[(queue_head + k) % Capacity]
      BY <3>1, ContentsAt
    <3>3. /\ (queue_head + k) % Capacity # queue_tail
          /\ (queue_head + k) % Capacity \in Slots
      <4>1. /\ k \in 0 .. Capacity /\ queue_count \in 0 .. Capacity
            /\ k < queue_count /\ queue_count - k < Capacity
        BY <1>2
      <4>2. (queue_head + k) % Capacity \in Slots
        BY <1>1, <4>1, SlotIs
      <4>3. (queue_head + k) % Capacity # (queue_head + queue_count) % Capacity
        BY <1>1, <4>1, SlotsDiffer
      <4> QED BY <1>1, <4>2, <4>3
    <3>4. queue'[(queue_head + k) % Capacity] = queue[(queue_head + k) % Capacity]
      BY <1>1, <3>3
    <3> QED BY <2>2, <3>1, <3>2, <3>4
  <2>4. Contents'[Capacity] = rec
    BY <1>1, <1>2, <2>2
  <2>5. Puts(rec, 1)
    BY <1>1, <1>2, <2>1, <2>3, <2>4 DEF Puts
  <2> QED BY <2>5
<1>3. CASE queue_count < Capacity
  <2>1. queue_head' = queue_head /\ queue_count' = queue_count + 1
    BY <1>1, <1>3 DEF mqtt_publisher_enqueue
  <2>2. ASSUME NEW k \in 1 .. queue_count + 1
        PROVE  Contents'[k] = queue'[(queue_head + (k - 1)) % Capacity]
    BY <2>1, ContentsAtNext
  <2>3. ASSUME NEW k \in 1 .. queue_count
        PROVE  Contents'[k] = Contents[k + 0]
    <3>1. k \in 1 .. queue_count + 1 /\ k - 1 \in 0 .. Capacity /\ k + 0 = k
      BY <1>1, <1>3
    <3>2. Contents[k] = queue[(queue_head + (k - 1)) % Capacity]
      BY ContentsAt
    <3>3. /\ (queue_head + (k - 1)) % Capacity # queue_tail
          /\ (queue_head + (k - 1)) % Capacity \in Slots
      <4>1. /\ k - 1 \in 0 .. Capacity /\ queue_count \in 0 .. Capacity
            /\ k - 1 < queue_count /\ queue_count - (k - 1) < Capacity
        BY <1>1, <1>3
      <4>2. (queue_head + (k - 1)) % Capacity \in Slots
        BY <1>1, <4>1, SlotIs
      <4>3. (queue_head + (k - 1)) % Capacity # (queue_head + queue_count) % Capacity
        BY <1>1, <4>1, SlotsDiffer
      <4> QED BY <1>1, <4>2, <4>3
    <3> QED BY <1>1, <2>2, <3>1, <3>2, <3>3
  <2>4. Contents'[queue_count + 1] = rec
    <3>1. queue_count + 1 \in 1 .. queue_count + 1 /\ (queue_count + 1) - 1 = queue_count
      BY <1>1
    <3>2. Contents'[queue_count + 1] = queue'[(queue_head + queue_count) % Capacity]
      BY <2>2, <3>1
    <3> QED BY <1>1, <3>2
  <2>5. (queue_count + 1) - 1 = queue_count /\ (queue_count + 1) - 0 = queue_count + 1
    BY <1>1
  <2>6. Puts(rec, 0)
    BY <1>1, <1>3, <2>1, <2>3, <2>4, <2>5 DEF Puts
  <2> QED BY <2>6
<1> QED BY <1>1, <1>2, <1>3

\* The oldest record goes into the publisher's hands.
LEMMA TakesOldest ==
  ASSUME TypeOK, TypeOK', WorkerTakes
  PROVE  /\ queue_count \in 1 .. Capacity /\ queue_count' = queue_count - 1
         /\ record' = Contents[1]
         /\ \A k \in 1 .. queue_count' : Contents'[k] = Contents[k + 1]
<1> USE CapacityAssumption
<1>1. /\ queue_head \in Slots /\ queue_count \in 1 .. Capacity
      /\ queue_head' = NextSlot(queue_head) /\ queue_count' = queue_count - 1
      /\ queue' = queue /\ record' = queue[queue_head]
  BY DEF TypeOK, WorkerTakes
<1>2. record' = Contents[1]
  <2>1. Contents[1] = queue[(queue_head + (1 - 1)) % Capacity]
    BY <1>1, ContentsAt
  <2>2. (queue_head + (1 - 1)) % Capacity = queue_head
    BY <1>1 DEF Slots
  <2> QED BY <1>1, <2>1, <2>2
<1>3. ASSUME NEW k \in 1 .. queue_count'
      PROVE  Contents'[k] = Contents[k + 1]
  <2>1. Contents'[k] = queue'[(queue_head' + (k - 1)) % Capacity]
    BY ContentsAtNext
  <2>2. k \in 1 .. Capacity /\ k + 1 \in 1 .. queue_count /\ (k + 1) - 1 = k
    BY <1>1
  <2>3. (queue_head' + (k - 1)) % Capacity = (queue_head + k) % Capacity
    BY <1>1, <2>2, SlotMoves
  <2>4. Contents[k + 1] = queue[(queue_head + k) % Capacity]
    BY <2>2, ContentsAt
  <2> QED BY <1>1, <2>1, <2>3, <2>4
<1> QED BY <1>1, <1>2, <1>3
-----------------------------------------------------------------------------
(***************************************************************************)
(* What a step can do to the records.                                      *)
(***************************************************************************)
\* What the publisher holds, it goes on holding.
HandKept == worker_pc' = worker_pc \/ (~InFlight /\ ~InFlight')

\* A step that touches no record.
Passes ==
  /\ HandKept
  /\ UNCHANGED <<has_active_alarm, active_alarm_type, queue, queue_head, queue_count,
                 published, failed, enqueued, record, ok, delivery, now>>

\* The process ends, killed or not, and the broker remains.
Forgets == FreshStatics /\ UNCHANGED <<retained, now>>

\* A handler makes a record of the state it gives the alarm; only an alarm that
\* is active is cleared.
Reports(type, state) ==
  /\ active_alarm_type' = type /\ has_active_alarm' = (state = "active")
  /\ state = "cleared" => has_active_alarm /\ active_alarm_type = type
  /\ now' = now + 1 /\ now < MaxRecords
  /\ mqtt_publisher_enqueue([type |-> type, state |-> state, timestamp |-> now + 1])
  /\ HandKept
  /\ UNCHANGED <<published, record, ok, delivery>>

\* A call of libmosquitto before the handshake.
Calls ==
  /\ worker_pc \in {"connect", "publish"}
  /\ \/ worker_pc' = "publish" /\ unacked' = unacked
     \/ worker_pc' = "handshake" /\ unacked' = unacked \cup {record}
     \/ /\ worker_pc' = "account" /\ ~ok'
        /\ unacked' \in {unacked, unacked \cup {record}}
  /\ UNCHANGED <<has_active_alarm, active_alarm_type, queue, queue_head, queue_count,
                 published, failed, enqueued, record, retained, resent, now>>

LEMMA StepKinds ==
  ASSUME MInv, [Next]_vars
  PROVE  \/ Passes \/ Forgets
         \/ \E type \in Types, state \in {"active", "cleared"} : Reports(type, state)
         \/ WorkerTakes \/ Calls \/ ClientHandshake \/ Account
<1> USE DEF Passes, HandKept, InFlight, alarm, ring, stats, worker, delivery, mainVars
<1>1. CASE Start \/ handle_signal
  BY <1>1 DEF Start, handle_signal
<1>2. CASE mqtt_publisher_init_fails \/ Connect \/ LeaveLoop \/ SendReply
  BY <1>2 DEF mqtt_publisher_init_fails, Connect, LeaveLoop, SendReply
<1>3. CASE mqtt_publisher_init
  BY <1>3 DEF mqtt_publisher_init, MInv, NoPublisherInv
<1>4. CASE Deinit
  BY <1>4 DEF Deinit, Wake
<1>5. CASE Crash \/ DeinitJoin
  BY <1>5 DEF Crash, DeinitJoin, Forgets
<1>6. ASSUME NEW r \in Requests, ReceiveOther(r)
      PROVE  Passes
  BY <1>6 DEF ReceiveOther
<1>7. ASSUME NEW r \in Requests, ubus_mqtt_alarm(r)
      PROVE  r.type \in Types /\ Reports(r.type, "active")
  <2>1. r.type \in Types
    BY <1>7 DEF ubus_mqtt_alarm, Requests
  <2>2. HandKept
    BY <1>7 DEF ubus_mqtt_alarm, Enqueue, mqtt_publisher_enqueue, Wake
  <2>3. /\ now < MaxRecords /\ now' = now + 1
        /\ mqtt_publisher_enqueue([type |-> r.type, state |-> "active",
                                   timestamp |-> now + 1])
    BY <1>7 DEF ubus_mqtt_alarm, Enqueue
  <2>4. /\ active_alarm_type' = r.type /\ has_active_alarm' = TRUE
        /\ UNCHANGED <<published, record, ok, delivery>>
    BY <1>7 DEF ubus_mqtt_alarm
  <2> QED BY <2>1, <2>2, <2>3, <2>4 DEF Reports
<1>8. ASSUME NEW r \in Requests, ubus_mqtt_cancel_alarm(r)
      PROVE  active_alarm_type \in Types /\ Reports(active_alarm_type, "cleared")
  <2>1. active_alarm_type \in Types /\ has_active_alarm
    BY <1>8 DEF ubus_mqtt_cancel_alarm, MInv, ActiveInv
  <2>2. HandKept
    BY <1>8 DEF ubus_mqtt_cancel_alarm, Enqueue, mqtt_publisher_enqueue, Wake
  <2>3. /\ now < MaxRecords /\ now' = now + 1
        /\ mqtt_publisher_enqueue([type |-> active_alarm_type, state |-> "cleared",
                                   timestamp |-> now + 1])
    BY <1>8 DEF ubus_mqtt_cancel_alarm, Enqueue
  <2>4. /\ active_alarm_type' = active_alarm_type /\ has_active_alarm' = FALSE
        /\ UNCHANGED <<published, record, ok, delivery>>
    BY <1>8 DEF ubus_mqtt_cancel_alarm
  <2> QED BY <2>1, <2>2, <2>3, <2>4 DEF Reports
<1>9. CASE WorkerWaits \/ WorkerEnds \/ SpuriousWakeup
  BY <1>9 DEF WorkerWaits, WorkerEnds, SpuriousWakeup
<1>10. CASE ClientConnect \/ ClientPublish
  BY <1>10 DEF ClientConnect, ClientPublish, Calls
<1>11. CASE UNCHANGED vars
  BY <1>11 DEF vars
<1> HIDE DEF Passes
<1> QED BY <1>1, <1>2, <1>3, <1>4, <1>5, <1>6, <1>7, <1>8, <1>9, <1>10, <1>11
        DEF Next, MainStep, Handler, WorkerStep

\* A step that leaves the ring alone leaves its records alone.
LEMMA SameContents ==
  ASSUME UNCHANGED <<queue, queue_head, queue_count>>
  PROVE  Contents' = Contents
BY DEF Contents

\* A handler stores a record that is newer than all there are.
LEMMA ReportsNewest ==
  ASSUME TypeOK, TypeOK', RingShape, NEW type \in Types,
         NEW state \in {"active", "cleared"}, Reports(type, state)
  PROVE  LET rec == [type |-> type, state |-> state, timestamp |-> now + 1] IN
           rec \in Records /\ \E d \in {0, 1} : Puts(rec, d)
<1> DEFINE rec == [type |-> type, state |-> state, timestamp |-> now + 1]
<1>1. rec \in Records
  BY BoundAssumption DEF Records, Reports, TypeOK
<1>2. mqtt_publisher_enqueue(rec)
  BY DEF Reports
<1> HIDE DEF rec
<1>3. \E d \in {0, 1} : Puts(rec, d)
  BY <1>2, EnqueuePuts
<1> QED BY <1>1, <1>3 DEF rec
-----------------------------------------------------------------------------
(***************************************************************************)
(* The order of the records.                                               *)
(***************************************************************************)
\* The records of the ring are records, oldest first.
QueueInv ==
  /\ \A k \in 1 .. queue_count : Contents[k] \in Records /\ Contents[k].timestamp <= now
  /\ \A j, k \in 1 .. queue_count : j < k => Contents[j].timestamp < Contents[k].timestamp

\* The record in the publisher's hands is older than those in the ring.
HandInv ==
  InFlight => /\ record \in Records /\ record.timestamp <= now
              /\ \A k \in 1 .. queue_count : record.timestamp < Contents[k].timestamp

\* What has left the publisher's hands for libmosquitto or the broker.
Released == unacked \cup {retained[t] : t \in Types}

\* A released record is not newer than the record in the publisher's hands, and
\* older than those in the ring.
ReleasedInv ==
  /\ NoRecord \notin unacked
  /\ \A r \in Released \ {NoRecord} :
       /\ r \in Records /\ r.timestamp <= now
       /\ InFlight => r.timestamp <= record.timestamp
       /\ \A k \in 1 .. queue_count : r.timestamp < Contents[k].timestamp

\* Every record has a number.
LEMMA TimestampType ==
  ASSUME NEW r \in Records
  PROVE  r.timestamp \in Nat /\ r # NoRecord /\ r.type \in Types
BY RecordAssumption DEF Records

\* A record that was in the ring before a handler stored another is in it at
\* the place before, and not the last.
LEMMA OldOrNew ==
  ASSUME NEW rec, NEW d \in {0, 1}, Puts(rec, d), TypeOK, TypeOK',
         NEW k \in 1 .. queue_count'
  PROVE  \/ k = queue_count' /\ Contents'[k] = rec
         \/ /\ k < queue_count' /\ k + d \in 1 .. queue_count
            /\ Contents'[k] = Contents[k + d]
BY CapacityAssumption DEF Puts, TypeOK

\* Only a call of libmosquitto releases anything, the record in its hands; what
\* arrives in a handshake had been released before.
LEMMA NothingReleased ==
  ASSUME \/ Passes \/ Forgets \/ WorkerTakes \/ ClientHandshake \/ Account
         \/ \E type \in Types, state \in {"active", "cleared"} : Reports(type, state)
  PROVE  Released' \subseteq Released /\ unacked' \subseteq unacked
<1>1. ASSUME retained' = retained, unacked' = unacked
      PROVE  Released' \subseteq Released /\ unacked' \subseteq unacked
  BY <1>1 DEF Released
<1>2. CASE Passes \/ WorkerTakes \/ Account
  BY <1>1, <1>2 DEF Passes, WorkerTakes, Account, delivery
<1>3. CASE Forgets
  BY <1>3 DEF Forgets, FreshStatics, Released
<1>4. ASSUME NEW type \in Types, NEW state \in {"active", "cleared"}, Reports(type, state)
      PROVE  Released' \subseteq Released /\ unacked' \subseteq unacked
  BY <1>1, <1>4 DEF Reports, delivery
<1>5. CASE ClientHandshake
  <2>1. PICK arrived \in SUBSET unacked : Handshakes(arrived)
    BY <1>5, HandshakeIs
  <2>2. ASSUME NEW t \in Types PROVE retained'[t] \in Released
    BY <2>1 DEF Handshakes, Released, OnTopic
  <2>3. unacked' \subseteq unacked
    BY <2>1 DEF Handshakes
  <2> QED BY <2>2, <2>3 DEF Released
<1> QED BY <1>2, <1>3, <1>4, <1>5

LEMMA CallReleases ==
  Calls => /\ Released' \subseteq Released \cup {record}
           /\ unacked' \subseteq unacked \cup {record}
BY DEF Calls, Released

\* Every step keeps the records in order.
LEMMA OrderStep ==
  ASSUME MInv, MInv', QueueInv, HandInv, ReleasedInv, [Next]_vars
  PROVE  QueueInv' /\ HandInv' /\ ReleasedInv'
<1>t. /\ TypeOK /\ TypeOK' /\ RingShape /\ now \in Nat
      /\ queue_count \in 0 .. Capacity /\ queue_count' \in 0 .. Capacity
      /\ Capacity \in Nat
  BY CapacityAssumption DEF MInv, TypeOK
<1>1. CASE Passes
  <2>1. /\ Contents' = Contents
        /\ UNCHANGED <<queue_count, record, now>>
    BY <1>1, SameContents DEF Passes
  <2>2. InFlight' => InFlight
    BY <1>1 DEF Passes, HandKept, InFlight
  <2>3. Released' \subseteq Released /\ unacked' \subseteq unacked
    BY <1>1, NothingReleased
  <2> QED BY <2>1, <2>2, <2>3 DEF QueueInv, HandInv, ReleasedInv
<1>2. CASE Forgets
  <2>1. queue_count' = 0 /\ ~InFlight' /\ now' = now
    BY <1>2 DEF Forgets, FreshStatics, InFlight
  <2>2. Released' \subseteq Released /\ unacked' \subseteq unacked
    BY <1>2, NothingReleased
  <2> QED BY <2>1, <2>2 DEF QueueInv, HandInv, ReleasedInv
<1>3. ASSUME NEW type \in Types, NEW state \in {"active", "cleared"}, Reports(type, state)
      PROVE  QueueInv' /\ HandInv' /\ ReleasedInv'
  <2> DEFINE rec == [type |-> type, state |-> state, timestamp |-> now + 1]
  <2>1. PICK d \in {0, 1} : rec \in Records /\ Puts(rec, d)
    BY <1>t, <1>3, ReportsNewest
  <2>2. rec.timestamp = now + 1
    OBVIOUS
  <2> HIDE DEF rec
  <2>3. now' = now + 1 /\ record' = record
    BY <1>3 DEF Reports
  <2>4. InFlight' => InFlight
    BY <1>3 DEF Reports, HandKept, InFlight
  <2>5. \A k \in 1 .. queue_count :
          Contents[k].timestamp \in Nat /\ Contents[k].timestamp <= now
    BY TimestampType DEF QueueInv
  <2>6. ASSUME NEW k \in 1 .. queue_count'
        PROVE  /\ Contents'[k] \in Records /\ Contents'[k].timestamp <= now'
               /\ \A j \in 1 .. queue_count' :
                    j < k => Contents'[j].timestamp < Contents'[k].timestamp
    <3>1. \/ k = queue_count' /\ Contents'[k] = rec
          \/ /\ k < queue_count' /\ k + d \in 1 .. queue_count
             /\ Contents'[k] = Contents[k + d]
      BY <1>t, <2>1, OldOrNew
    <3>2. Contents'[k] \in Records /\ Contents'[k].timestamp <= now'
      BY <1>t, <2>1, <2>2, <2>3, <2>5, <3>1 DEF QueueInv
    <3>3. ASSUME NEW j \in 1 .. queue_count', j < k
          PROVE  Contents'[j].timestamp < Contents'[k].timestamp
      <4>1. j + d \in 1 .. queue_count /\ Contents'[j] = Contents[j + d]
        BY <1>t, <2>1, <3>3, OldOrNew
      <4>2. CASE Contents'[k] = rec
        BY <1>t, <2>2, <2>5, <4>1, <4>2
      <4>3. CASE k + d \in 1 .. queue_count /\ Contents'[k] = Contents[k + d]
        <5>1. j + d < k + d
          BY <1>t, <2>1, <3>3
        <5> QED BY <4>1, <4>3, <5>1 DEF QueueInv
      <4> QED BY <3>1, <4>2, <4>3
    <3> QED BY <3>2, <3>3
  <2>7. QueueInv'
    BY <2>6 DEF QueueInv
  <2>8. ASSUME NEW n \in Int, n <= now,
               \A k \in 1 .. queue_count : n < Contents[k].timestamp
        PROVE  n <= now' /\ \A k \in 1 .. queue_count' : n < Contents'[k].timestamp
    <3>1. ASSUME NEW k \in 1 .. queue_count'
          PROVE  n < Contents'[k].timestamp
      <4>1. \/ Contents'[k] = rec
            \/ k + d \in 1 .. queue_count /\ Contents'[k] = Contents[k + d]
        BY <1>t, <2>1, OldOrNew
      <4> QED BY <1>t, <2>2, <2>8, <4>1
    <3> QED BY <1>t, <2>3, <2>8, <3>1
  <2>9. HandInv'
    <3>1. SUFFICES ASSUME InFlight' PROVE HandInv'
      BY DEF HandInv
    <3>2. /\ record \in Records /\ record.timestamp <= now
          /\ \A k \in 1 .. queue_count : record.timestamp < Contents[k].timestamp
      BY <2>4, <3>1 DEF HandInv
    <3>3. record.timestamp \in Int
      BY <3>2, TimestampType
    <3>4. /\ record.timestamp <= now'
          /\ \A k \in 1 .. queue_count' : record.timestamp < Contents'[k].timestamp
      BY <2>8, <3>2, <3>3
    <3> QED BY <2>3, <3>2, <3>4 DEF HandInv
  <2>10. ReleasedInv'
    <3>1. SUFFICES ASSUME NEW r \in Released \ {NoRecord}
                   PROVE  /\ r \in Records /\ r.timestamp <= now'
                          /\ InFlight' => r.timestamp <= record'.timestamp
                          /\ \A k \in 1 .. queue_count' :
                               r.timestamp < Contents'[k].timestamp
      <4>1. Released' \subseteq Released /\ unacked' \subseteq unacked
        BY <1>3, NothingReleased
      <4> QED BY <4>1 DEF ReleasedInv
    <3>2. /\ r \in Records /\ r.timestamp <= now
          /\ InFlight => r.timestamp <= record.timestamp
          /\ \A k \in 1 .. queue_count : r.timestamp < Contents[k].timestamp
      BY DEF ReleasedInv
    <3>3. r.timestamp \in Int
      BY <3>2, TimestampType
    <3>4. /\ r.timestamp <= now'
          /\ \A k \in 1 .. queue_count' : r.timestamp < Contents'[k].timestamp
      BY <2>8, <3>2, <3>3
    <3> QED BY <2>3, <2>4, <3>2, <3>4
  <2> QED BY <2>7, <2>9, <2>10
<1>4. CASE WorkerTakes
  <2>1. /\ queue_count' = queue_count - 1 /\ 1 \in 1 .. queue_count
        /\ record' = Contents[1]
        /\ \A k \in 1 .. queue_count' :
             k + 1 \in 1 .. queue_count /\ 1 < k + 1 /\ Contents'[k] = Contents[k + 1]
    BY <1>t, <1>4, TakesOldest
  <2>2. now' = now /\ Released' \subseteq Released /\ unacked' \subseteq unacked
    BY <1>4, NothingReleased DEF WorkerTakes, mainVars
  <2>3. QueueInv'
    <3>1. \A j, k \in 1 .. queue_count' : j < k => j + 1 < k + 1
      BY <1>t
    <3> QED BY <2>1, <2>2, <3>1 DEF QueueInv
  <2>4. HandInv'
    BY <2>1, <2>2 DEF HandInv, QueueInv
  <2>5. ASSUME NEW r \in Released \ {NoRecord}
        PROVE  /\ r \in Records /\ r.timestamp <= now
               /\ r.timestamp <= record'.timestamp
               /\ \A k \in 1 .. queue_count' : r.timestamp < Contents'[k].timestamp
    <3>1. r \in Records
      BY DEF ReleasedInv
    <3>2. r.timestamp \in Int /\ record'.timestamp \in Int
      BY <2>1, <3>1, TimestampType DEF QueueInv
    <3> QED BY <2>1, <3>1, <3>2 DEF ReleasedInv
  <2>6. ReleasedInv'
    BY <2>2, <2>5 DEF ReleasedInv
  <2> QED BY <2>3, <2>4, <2>6
<1>5. CASE Calls
  <2>1. /\ Contents' = Contents
        /\ UNCHANGED <<queue_count, record, now>>
    BY <1>5, SameContents DEF Calls
  <2>2. InFlight
    BY <1>5 DEF Calls, InFlight
  <2>3. /\ record \in Records /\ record.timestamp \in Int /\ record.timestamp <= now
        /\ \A k \in 1 .. queue_count : record.timestamp < Contents[k].timestamp
    BY <2>2, TimestampType DEF HandInv
  <2>4. ASSUME NEW r \in Released' \ {NoRecord}
        PROVE  /\ r \in Records /\ r.timestamp <= now
               /\ r.timestamp <= record.timestamp
               /\ \A k \in 1 .. queue_count : r.timestamp < Contents[k].timestamp
    <3>1. r = record \/ r \in Released \ {NoRecord}
      BY <1>5, CallReleases
    <3> QED BY <2>2, <2>3, <3>1 DEF ReleasedInv
  <2>5. NoRecord \notin unacked'
    BY <1>5, <2>3, CallReleases, TimestampType DEF ReleasedInv
  <2> QED BY <2>1, <2>2, <2>4, <2>5 DEF QueueInv, HandInv, ReleasedInv
<1>6. CASE ClientHandshake
  <2>1. /\ Contents' = Contents
        /\ UNCHANGED <<queue_count, record, now>>
    BY <1>6, SameContents DEF ClientHandshake, ring, mainVars
  <2>2. InFlight /\ Released' \subseteq Released /\ unacked' \subseteq unacked
    BY <1>6, NothingReleased DEF ClientHandshake, InFlight
  <2> QED BY <2>1, <2>2 DEF QueueInv, HandInv, ReleasedInv
<1>7. CASE Account
  <2>1. /\ Contents' = Contents
        /\ UNCHANGED <<queue_count, now>>
    BY <1>7, SameContents DEF Account, ring, mainVars
  <2>2. ~InFlight' /\ Released' \subseteq Released /\ unacked' \subseteq unacked
    BY <1>7, NothingReleased DEF Account, InFlight
  <2> QED BY <2>1, <2>2 DEF QueueInv, HandInv, ReleasedInv
<1> QED BY <1>1, <1>2, <1>3, <1>4, <1>5, <1>6, <1>7, StepKinds
-----------------------------------------------------------------------------
(***************************************************************************)
(* What the records tell.                                                  *)
(***************************************************************************)
\* With an empty ring it is the record in the publisher's hands that tells the
\* present alarm.
Tells(rec) == rec.type = active_alarm_type /\ (rec.state = "active") = has_active_alarm

NewestInv == QueueTellsAlarm /\ (queue_count = 0 /\ InFlight => Tells(record))

LEMMA BeforeTheLast ==
  ASSUME NEW n \in Nat, NEW k \in 1 .. n - 1
  PROVE  k \in 1 .. n /\ k + 1 \in 1 .. n /\ k # n
OBVIOUS

\* Every step keeps what the records tell.
LEMMA TellStep ==
  ASSUME MInv, MInv', QueueInv, NewestInv, [Next]_vars
  PROVE  NewestInv'
<1>t. /\ TypeOK /\ TypeOK' /\ RingShape
      /\ queue_count \in 0 .. Capacity /\ queue_count' \in 0 .. Capacity
      /\ Capacity \in Nat
  BY CapacityAssumption DEF MInv, TypeOK
<1>1. CASE Passes
  <2>1. /\ Contents' = Contents
        /\ UNCHANGED <<queue_count, record, has_active_alarm, active_alarm_type>>
    BY <1>1, SameContents DEF Passes
  <2>2. InFlight' => InFlight
    BY <1>1 DEF Passes, HandKept, InFlight
  <2> QED BY <2>1, <2>2 DEF NewestInv, QueueTellsAlarm, Tells
<1>2. CASE Forgets
  <2>1. queue_count' = 0 /\ ~InFlight'
    BY <1>2 DEF Forgets, FreshStatics, InFlight
  <2> QED BY <2>1 DEF NewestInv, QueueTellsAlarm
<1>3. ASSUME NEW type \in Types, NEW state \in {"active", "cleared"}, Reports(type, state)
      PROVE  NewestInv'
  <2> DEFINE rec == [type |-> type, state |-> state, timestamp |-> now + 1]
  <2>1. PICK d \in {0, 1} : rec \in Records /\ Puts(rec, d)
    BY <1>t, <1>3, ReportsNewest
  <2>2. rec.type = type /\ rec.state = state
    OBVIOUS
  <2> HIDE DEF rec
  <2>3. /\ active_alarm_type' = type /\ has_active_alarm' = (state = "active")
        /\ state = "cleared" => has_active_alarm
    BY <1>3 DEF Reports
  <2>4. queue_count' \in 1 .. Capacity /\ Contents'[queue_count'] = rec
    BY <1>t, <2>1, CapacityAssumption DEF Puts
  <2>5. ASSUME NEW k \in 1 .. queue_count' - 1, Contents'[k].state = "cleared"
        PROVE  Contents'[k + 1].state = "active"
    <3>1. /\ k \in 1 .. queue_count' /\ k + 1 \in 1 .. queue_count'
          /\ k + d \in 1 .. queue_count /\ Contents'[k] = Contents[k + d]
      <4>1. k \in 1 .. queue_count' /\ k + 1 \in 1 .. queue_count' /\ k # queue_count'
        <5>1. queue_count' \in Nat
          BY <2>4, CapacityAssumption
        <5> QED BY <2>5, <5>1, BeforeTheLast
      <4> QED BY <1>t, <2>1, <4>1, OldOrNew
    <3>2. CASE k + 1 = queue_count'
      <4>1. k + d = queue_count
        BY <1>t, <2>1, <3>2 DEF Puts
      <4>2. ~has_active_alarm
        <5>1. queue_count > 0 /\ Contents[queue_count].state # "active"
          BY <1>t, <2>5, <3>1, <4>1
        <5> QED BY <5>1, Zenon DEF NewestInv, QueueTellsAlarm
      <4>3. Contents'[k + 1].state = state
        BY <2>2, <2>4, <3>2
      <4> QED BY <2>3, <4>2, <4>3
    <3>3. CASE k + 1 # queue_count'
      <4>1. (k + 1) + d \in 1 .. queue_count /\ Contents'[k + 1] = Contents[(k + 1) + d]
        BY <1>t, <2>1, <3>1, <3>3, OldOrNew
      <4>2. k + d \in 1 .. queue_count - 1 /\ (k + 1) + d = (k + d) + 1
        BY <1>t, <2>1, <3>1, <4>1
      <4> QED BY <2>5, <3>1, <4>1, <4>2 DEF NewestInv, QueueTellsAlarm
    <3> QED BY <3>2, <3>3
  <2>6. /\ Contents'[queue_count'].type = active_alarm_type'
        /\ (Contents'[queue_count'].state = "active") = has_active_alarm'
    BY <2>2, <2>3, <2>4, Zenon
  <2>7. QueueTellsAlarm'
    BY <2>5, <2>6 DEF QueueTellsAlarm
  <2>8. queue_count' # 0
    BY <2>4
  <2> QED BY <2>7, <2>8 DEF NewestInv
<1>4. CASE WorkerTakes
  <2>1. /\ queue_count \in 1 .. Capacity /\ queue_count' = queue_count - 1
        /\ record' = Contents[1]
        /\ \A k \in 1 .. queue_count' : Contents'[k] = Contents[k + 1]
    BY <1>t, <1>4, TakesOldest
  <2>2. UNCHANGED <<has_active_alarm, active_alarm_type>>
    BY <1>4 DEF WorkerTakes, mainVars, alarm
  <2>3. Tells(Contents[queue_count])
    BY <2>1 DEF NewestInv, QueueTellsAlarm, Tells
  <2>4. queue_count' = 0 => Tells(record)'
    BY <2>1, <2>2, <2>3 DEF Tells
  <2>5. queue_count' > 0 => Contents'[queue_count'] = Contents[queue_count]
    <3>1. queue_count' + 1 = queue_count
      BY <2>1
    <3> QED BY <1>t, <2>1, <3>1
  <2>6. ASSUME NEW k \in 1 .. queue_count' - 1, Contents'[k].state = "cleared"
        PROVE  Contents'[k + 1].state = "active"
    <3>1. /\ k \in 1 .. queue_count' /\ k + 1 \in 1 .. queue_count'
          /\ k + 1 \in 1 .. queue_count - 1
      BY <1>t, <2>1
    <3>2. Contents'[k] = Contents[k + 1] /\ Contents'[k + 1] = Contents[(k + 1) + 1]
      BY <2>1, <3>1
    <3> QED BY <2>6, <3>1, <3>2 DEF NewestInv, QueueTellsAlarm
  <2>7. QueueTellsAlarm'
    BY <2>2, <2>3, <2>5, <2>6 DEF QueueTellsAlarm, Tells
  <2> QED BY <2>4, <2>7 DEF NewestInv
<1>5. CASE Calls \/ ClientHandshake
  <2>1. /\ Contents' = Contents
        /\ UNCHANGED <<queue_count, record, has_active_alarm, active_alarm_type>>
    BY <1>5, SameContents DEF Calls, ClientHandshake, ring, mainVars, alarm
  <2>2. InFlight
    BY <1>5 DEF Calls, ClientHandshake, InFlight
  <2> QED BY <2>1, <2>2 DEF NewestInv, QueueTellsAlarm, Tells
<1>6. CASE Account
  <2>1. /\ Contents' = Contents
        /\ UNCHANGED <<queue_count, has_active_alarm, active_alarm_type>>
    BY <1>6, SameContents DEF Account, ring, mainVars, alarm
  <2>2. ~InFlight'
    BY <1>6 DEF Account, InFlight
  <2> QED BY <2>1, <2>2 DEF NewestInv, QueueTellsAlarm
<1> QED BY <1>1, <1>2, <1>3, <1>4, <1>5, <1>6, StepKinds

(***************************************************************************)
(* What the broker says of the last alarm.                                 *)
(***************************************************************************)
BrokerAgrees ==
  active_alarm_type # Absent =>
    /\ retained[active_alarm_type] # NoRecord
    /\ (retained[active_alarm_type].state = "active") = has_active_alarm

\* Every acknowledgement there is came in the handshake of its own record.
Untroubled == unacked = {} /\ ~resent

\* A record that is being handed over awaits its acknowledgement; when it has it
\* and nothing was sent again, the broker retains it; when none is left and none
\* failed, the broker agrees.
AgreeInv ==
  /\ worker_pc = "handshake" => record \in unacked
  /\ worker_pc = "account" /\ ok /\ Untroubled => retained[record.type] = record
  /\ ~InFlight /\ queue_count = 0 /\ failed = 0 /\ Untroubled => BrokerAgrees

\* A handshake after which all is acknowledged and nothing was sent again has
\* made the broker retain its record.
LEMMA HandshakeRetains ==
  ASSUME HandInv, AgreeInv, ClientHandshake, Untroubled'
  PROVE  retained'[record.type] = record
<1>1. record \in Records /\ record.type \in Types /\ record \in unacked
  BY TimestampType DEF HandInv, AgreeInv, ClientHandshake, InFlight
<1>2. PICK arrived \in SUBSET unacked : Handshakes(arrived)
  BY HandshakeIs
<1>3. unacked \subseteq arrived /\ arrived \subseteq {record}
  BY <1>2 DEF Handshakes, Untroubled
<1>4. arrived = {record}
  BY <1>1, <1>3
<1>5. OnTopic(record.type, arrived) = {record}
  BY <1>4 DEF OnTopic
<1> QED BY <1>1, <1>2, <1>5 DEF Handshakes

\* Every step keeps the agreement.
LEMMA AgreeStep ==
  ASSUME MInv, MInv', HandInv, NewestInv, AgreeInv, [Next]_vars
  PROVE  AgreeInv'
<1>t. /\ TypeOK /\ TypeOK' /\ RingShape
      /\ queue_count \in 0 .. Capacity /\ queue_count' \in 0 .. Capacity
      /\ Capacity \in Nat /\ failed \in Nat /\ failed' \in Nat /\ ok \in BOOLEAN
  BY CapacityAssumption DEF MInv, TypeOK
<1>1. CASE Passes
  <2>1. /\ UNCHANGED <<queue_count, record, has_active_alarm, active_alarm_type, ok,
                       failed, unacked, retained, resent>>
        /\ HandKept
    BY <1>1 DEF Passes, delivery
  <2>2. /\ InFlight' = InFlight
        /\ worker_pc' = "handshake" => worker_pc = "handshake"
        /\ worker_pc' = "account" => worker_pc = "account"
    BY <2>1 DEF HandKept, InFlight
  <2> QED BY <2>1, <2>2 DEF AgreeInv, BrokerAgrees, Untroubled
<1>2. CASE Forgets
  <2>1. worker_pc' = "none" /\ active_alarm_type' = Absent
    BY <1>2 DEF Forgets, FreshStatics
  <2> QED BY <2>1 DEF AgreeInv, BrokerAgrees
<1>3. ASSUME NEW type \in Types, NEW state \in {"active", "cleared"}, Reports(type, state)
      PROVE  AgreeInv'
  <2>1. UNCHANGED <<record, ok, unacked, retained, resent>> /\ HandKept
    BY <1>3 DEF Reports, delivery
  <2>2. /\ worker_pc' = "handshake" => worker_pc = "handshake"
        /\ worker_pc' = "account" => worker_pc = "account"
    BY <2>1 DEF HandKept, InFlight
  <2>3. PICK d \in {0, 1} :
          Puts([type |-> type, state |-> state, timestamp |-> now + 1], d)
    BY <1>t, <1>3, ReportsNewest
  <2>4. queue_count' # 0
    BY <1>t, <2>3, CapacityAssumption DEF Puts
  <2> QED BY <2>1, <2>2, <2>4 DEF AgreeInv, Untroubled
<1>4. CASE WorkerTakes
  <2>1. worker_pc' = "connect"
    BY <1>4 DEF WorkerTakes
  <2> QED BY <2>1 DEF AgreeInv, InFlight
<1>5. CASE Calls
  <2>1. /\ InFlight' /\ record' = record
        /\ worker_pc' = "handshake" => record \in unacked'
        /\ worker_pc' = "account" => ~ok'
    BY <1>5 DEF Calls, InFlight
  <2> QED BY <2>1 DEF AgreeInv
<1>6. CASE ClientHandshake
  <2>1. InFlight' /\ worker_pc' = "account" /\ record' = record
    BY <1>6 DEF ClientHandshake, InFlight
  <2>2. Untroubled' => retained'[record'.type] = record'
    BY <1>6, <2>1, HandshakeRetains
  <2> QED BY <2>1, <2>2 DEF AgreeInv
<1>7. CASE Account
  <2>1. /\ worker_pc = "account" /\ InFlight /\ worker_pc' = "lock"
        /\ ok \/ failed' = failed + 1
        /\ UNCHANGED <<queue_count, has_active_alarm, active_alarm_type, unacked,
                       retained, resent>>
    BY <1>7 DEF Account, InFlight, ring, mainVars, alarm, delivery
  <2>2. ASSUME queue_count' = 0, failed' = 0, Untroubled'
        PROVE  BrokerAgrees'
    <3>1. ok /\ Untroubled
      <4>1. failed' # failed + 1
        BY <1>t, <2>2
      <4> QED BY <2>1, <2>2, <4>1 DEF Untroubled
    <3>2. retained[record.type] = record
      BY <2>1, <3>1 DEF AgreeInv
    <3>3. Tells(record) /\ record # NoRecord
      BY <2>1, <2>2, TimestampType DEF NewestInv, HandInv
    <3> QED BY <2>1, <3>2, <3>3 DEF BrokerAgrees, Tells
  <2> QED BY <2>1, <2>2 DEF AgreeInv
<1> QED BY <1>1, <1>2, <1>3, <1>4, <1>5, <1>6, <1>7, StepKinds
-----------------------------------------------------------------------------
QInv == MInv /\ QueueInv /\ HandInv /\ ReleasedInv /\ NewestInv /\ AgreeInv

LEMMA InitQInv == Init => QInv
<1> SUFFICES ASSUME Init PROVE QInv
  OBVIOUS
<1>1. MInv
  BY InitMInv
<1>2. /\ queue_count = 0 /\ ~InFlight /\ unacked = {} /\ worker_pc = "none"
      /\ active_alarm_type = Absent /\ retained = [t \in Types |-> NoRecord]
  BY DEF Init, InFlight
<1>3. QueueInv /\ HandInv /\ NewestInv
  BY <1>2 DEF QueueInv, HandInv, NewestInv, QueueTellsAlarm
<1>4. ReleasedInv
  BY <1>2 DEF ReleasedInv, Released
<1>5. AgreeInv
  BY <1>2 DEF AgreeInv, BrokerAgrees
<1> QED BY <1>1, <1>3, <1>4, <1>5 DEF QInv

\* The invariant is inductive, given that of the threads.
THEOREM QInductive == Safety => []QInv
<1>1. QInv /\ MInv' /\ [Next]_vars => QInv'
  BY OrderStep, TellStep, AgreeStep DEF QInv
<1> QED BY InitQInv, MInductive, <1>1, PTL DEF Safety

\* cancel_alarm before every alarm adds no spurious message: the newest record
\* in the queue is the last alarm's and says whether it is still active, and no
\* two records in a row clear, whatever overflowed.
THEOREM QueueIsCurrent == Safety => []QueueTellsAlarm
<1>1. QInv => QueueTellsAlarm
  BY DEF QInv, NewestInv
<1> QED BY QInductive, <1>1, PTL

\* Once everything this process reported is published and acknowledged, and
\* nothing had to be sent again, what the broker retains for the last alarm is
\* the present state.
THEOREM BrokerCatchesUp == Safety => []CaughtUpBrokerAgrees
<1>1. QInv => CaughtUpBrokerAgrees
  <2> SUFFICES ASSUME QInv, published = enqueued, Untroubled PROVE BrokerAgrees
    BY DEF CaughtUpBrokerAgrees, BrokerAgrees, Untroubled
  <2>1. /\ published \in Nat /\ failed \in Nat /\ queue_count \in Nat
        /\ Conservation
    BY CapacityAssumption DEF QInv, MInv, TypeOK
  <2>2. ~InFlight /\ queue_count = 0 /\ failed = 0
    BY <2>1 DEF Conservation
  <2> QED BY <2>2 DEF QInv, AgreeInv
<1> QED BY QInductive, <1>1, PTL

\* What the broker retains for a topic is replaced by an older record only when
\* that record is sent again: a handshake hands over the newest of all records
\* released so far.
THEOREM TopicsGoForward == Safety => OnlyResendsGoBack
<1> DEFINE A == \A t \in Types :
       retained[t] # NoRecord =>
         /\ retained'[t] # NoRecord
         /\ \/ retained'[t].timestamp >= retained[t].timestamp
            \/ retained'[t] \in unacked \ {record}
<1>1. QInv /\ [Next]_vars => A
  <2> SUFFICES ASSUME QInv, [Next]_vars, NEW t \in Types, retained[t] # NoRecord
               PROVE  /\ retained'[t] # NoRecord
                      /\ \/ retained'[t].timestamp >= retained[t].timestamp
                         \/ retained'[t] \in unacked \ {record}
    OBVIOUS
  <2>1. retained[t] \in Released
    BY DEF Released
  <2>2. retained[t] \in Records
    BY <2>1 DEF QInv, ReleasedInv
  <2>3. retained[t].timestamp \in Nat
    BY <2>2, TimestampType
  <2>4. CASE UNCHANGED retained
    BY <2>3, <2>4
  <2>5. CASE ClientHandshake
    <3>1. PICK arrived \in SUBSET unacked : Handshakes(arrived)
      BY <2>5, HandshakeIs
    <3>2. retained'[t] = retained[t] \/ retained'[t] \in unacked
      BY <3>1 DEF Handshakes, OnTopic
    <3>3. /\ InFlight /\ record \in Records /\ record.timestamp \in Nat
          /\ retained[t].timestamp <= record.timestamp
      BY <2>1, <2>5, TimestampType DEF ClientHandshake, InFlight, QInv, HandInv, ReleasedInv
    <3>4. NoRecord \notin unacked
      BY DEF QInv, ReleasedInv
    <3> QED BY <2>3, <3>2, <3>3, <3>4
  <2>6. UNCHANGED retained \/ ClientHandshake
    BY StepKinds DEF QInv, Passes, Forgets, Reports, WorkerTakes, Calls, Account, delivery
  <2> QED BY <2>4, <2>5, <2>6
<1>2. QInv /\ [Next]_vars => [A]_vars
  BY <1>1
<1> QED BY QInductive, <1>2, PTL DEF Safety, OnlyResendsGoBack
-----------------------------------------------------------------------------
(***************************************************************************)
(* The ring implements the queue that drops its oldest record.             *)
(***************************************************************************)
Kept == Records \cup {NoRecord}

LEMMA ContentsSeq ==
  TypeOK => Contents \in Seq(Kept) /\ Len(Contents) = queue_count
<1> SUFFICES ASSUME TypeOK PROVE Contents \in Seq(Kept) /\ Len(Contents) = queue_count
  OBVIOUS
<1>1. queue_count \in Nat /\ queue_head \in Slots /\ queue \in [Slots -> Kept]
  BY CapacityAssumption DEF TypeOK, Kept
<1>2. ASSUME NEW k \in 1 .. queue_count PROVE Contents[k] \in Kept
  <2>1. k - 1 \in 0 .. Capacity
    BY CapacityAssumption DEF TypeOK
  <2>2. (queue_head + (k - 1)) % Capacity \in Slots
    BY <1>1, <2>1, SlotIs
  <2> QED BY <1>1, <2>2, ContentsAt
<1>3. Contents = [k \in 1 .. queue_count |-> Contents[k]]
  BY Zenon DEF Contents
<1>4. Contents \in [1 .. queue_count -> Kept]
  BY <1>2, <1>3
<1>5. Contents \in Seq(Kept)
  BY <1>1, <1>4, SeqDef
<1>6. DOMAIN Contents = 1 .. queue_count /\ DOMAIN Contents = 1 .. Len(Contents)
  BY <1>4, <1>5, LenProperties
<1>7. Len(Contents) = queue_count
  BY <1>1, <1>5, <1>6, LenProperties
<1> QED BY <1>5, <1>7

\* An empty ring is an empty queue.
LEMMA EmptyContents ==
  TypeOK /\ queue_count = 0 => Contents = <<>>
BY ContentsSeq, EmptySeq


\* Sequences that a handler's step or the publisher's step relates.
LEMMA ShiftIsQueue ==
  ASSUME NEW s \in Seq(Kept), NEW z \in Seq(Kept), NEW r \in Kept
  PROVE  /\ Len(z) = Len(s) + 1 /\ (\A k \in 1 .. Len(s) : z[k] = s[k])
              /\ z[Len(z)] = r
            => z = Append(s, r)
         /\ Len(s) > 0 /\ Len(z) = Len(s) - 1
              /\ (\A k \in 1 .. Len(z) : z[k] = s[k + 1])
            => z = Tail(s)
         /\ Len(s) > 0 /\ Len(z) = Len(s)
              /\ (\A k \in 1 .. Len(s) - 1 : z[k] = s[k + 1]) /\ z[Len(z)] = r
            => z = Append(Tail(s), r)
<1>0. Len(s) \in Nat /\ Len(z) \in Nat
  OBVIOUS
<1>1. ASSUME NEW x \in Seq(Kept), Len(z) = Len(x) + 1,
             \A k \in 1 .. Len(x) : z[k] = x[k], z[Len(z)] = r
      PROVE  z = Append(x, r)
  <2>1. /\ Append(x, r) \in Seq(Kept) /\ Len(Append(x, r)) = Len(x) + 1
        /\ \A k \in 1 .. Len(x) : Append(x, r)[k] = x[k]
        /\ Append(x, r)[Len(x) + 1] = r
    BY AppendProperties
  <2>2. Len(x) \in Nat
    OBVIOUS
  <2>3. \A k \in 1 .. Len(z) : z[k] = Append(x, r)[k]
    BY <1>1, <2>1, <2>2
  <2>4. Len(z) = Len(Append(x, r))
    BY <1>1, <2>1
  <2> QED BY <2>1, <2>3, <2>4, SeqEqual
<1>2. ASSUME Len(s) > 0
      PROVE  /\ Tail(s) \in Seq(Kept) /\ Len(Tail(s)) = Len(s) - 1
             /\ \A k \in 1 .. Len(s) - 1 : Tail(s)[k] = s[k + 1]
  <2>1. s # <<>>
    BY <1>2, EmptySeq
  <2> QED BY <2>1, HeadTailProperties
<1>3. ASSUME Len(s) > 0, Len(z) = Len(s) - 1, \A k \in 1 .. Len(z) : z[k] = s[k + 1]
      PROVE  z = Tail(s)
  <2>1. Len(z) = Len(Tail(s)) /\ \A k \in 1 .. Len(z) : z[k] = Tail(s)[k]
    BY <1>2, <1>3
  <2> QED BY <1>2, <1>3, <2>1, SeqEqual
<1>4. ASSUME Len(s) > 0, Len(z) = Len(s), \A k \in 1 .. Len(s) - 1 : z[k] = s[k + 1],
             z[Len(z)] = r
      PROVE  z = Append(Tail(s), r)
  <2>1. /\ Tail(s) \in Seq(Kept) /\ Len(z) = Len(Tail(s)) + 1
        /\ \A k \in 1 .. Len(Tail(s)) : z[k] = Tail(s)[k]
    BY <1>0, <1>2, <1>4
  <2> QED BY <1>1, <1>4, <2>1
<1> QED BY <1>1, <1>3, <1>4

\* Every step of the service is a step of the queue or changes nothing in it.
LEMMA QueueStep ==
  ASSUME MInv, MInv', Contents \in Seq(Kept), Len(Contents) = queue_count,
         Contents' \in Seq(Kept), Len(Contents') = queue_count',
         queue_count' = 0 => Contents' = <<>>, [Next]_vars
  PROVE  [Q!Next]_Contents
<1>t. /\ TypeOK /\ TypeOK' /\ RingShape
      /\ queue_count \in 0 .. Capacity /\ queue_count' \in 0 .. Capacity
      /\ Capacity \in Nat /\ Capacity > 0
  BY CapacityAssumption DEF MInv, TypeOK
<1>1. CASE Passes
  BY <1>1, SameContents DEF Passes
<1>2. CASE Forgets
  <2>1. Contents' = <<>>
    BY <1>2 DEF Forgets, FreshStatics
  <2> QED BY <2>1 DEF Q!Next, Q!Restart
<1>3. ASSUME NEW type \in Types, NEW state \in {"active", "cleared"}, Reports(type, state)
      PROVE  Q!Next
  <2> DEFINE rec == [type |-> type, state |-> state, timestamp |-> now + 1]
  <2>1. PICK d \in {0, 1} : rec \in Records /\ Puts(rec, d)
    BY <1>t, <1>3, ReportsNewest
  <2> HIDE DEF rec
  <2>2. rec \in Kept
    BY <2>1 DEF Kept
  <2>3. CASE queue_count < Capacity
    <3>1. /\ queue_count' = queue_count + 1
          /\ \A k \in 1 .. queue_count : Contents'[k] = Contents[k]
          /\ Contents'[queue_count'] = rec
      BY <1>t, <2>1, <2>3 DEF Puts
    <3>2. Contents' = Append(Contents, rec)
      BY <2>2, <3>1, ShiftIsQueue
    <3> QED BY <2>1, <2>3, <3>2 DEF Q!Next, Q!Put
  <2>4. CASE queue_count = Capacity
    <3>1. /\ queue_count' = queue_count /\ queue_count > 0
          /\ \A k \in 1 .. queue_count - 1 : Contents'[k] = Contents[k + 1]
          /\ Contents'[queue_count'] = rec
      BY <1>t, <2>1, <2>4 DEF Puts
    <3>2. Contents' = Append(Tail(Contents), rec)
      BY <2>2, <3>1, ShiftIsQueue
    <3> QED BY <2>1, <2>4, <3>2 DEF Q!Next, Q!Put
  <2> QED BY <1>t, <2>3, <2>4
<1>4. CASE WorkerTakes
  <2>1. /\ queue_count > 0 /\ queue_count' = queue_count - 1
        /\ \A k \in 1 .. queue_count' : Contents'[k] = Contents[k + 1]
    BY <1>t, <1>4, TakesOldest
  <2>2. NoRecord \in Kept
    BY DEF Kept
  <2>3. Contents' = Tail(Contents)
    BY <2>1, <2>2, ShiftIsQueue
  <2>4. Contents # <<>>
    BY <2>1, EmptySeq
  <2> QED BY <2>3, <2>4 DEF Q!Next, Q!Take
<1>5. CASE Calls \/ ClientHandshake \/ Account
  BY <1>5, SameContents DEF Calls, ClientHandshake, Account, ring, mainVars
<1> QED BY <1>1, <1>2, <1>3, <1>4, <1>5, StepKinds

\* The ring buffer is a bounded queue that drops its oldest record, for any
\* capacity and through any number of overflows and restarts.
THEOREM RingImplements == Safety => ImplementsQueue
<1>1. Init => Q!Init
  BY InitMInv, EmptyContents DEF Init, MInv, Q!Init
<1>2. MInv /\ MInv' /\ [Next]_vars => [Q!Next]_Contents
  <2>1. (TypeOK => Contents \in Seq(Kept) /\ Len(Contents) = queue_count)'
    BY ContentsSeq, PTL
  <2>2. (TypeOK /\ queue_count = 0 => Contents = <<>>)'
    BY EmptyContents, PTL
  <2> QED BY <2>1, <2>2, ContentsSeq, QueueStep DEF MInv
<1> QED BY MInductive, <1>1, <1>2, PTL DEF Safety, ImplementsQueue, Q!Spec
=============================================================================
