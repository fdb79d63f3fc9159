--------------------------- MODULE NotifydProofs ---------------------------
(***************************************************************************)
(* Machine-checked proofs about Notifyd and the validation it uses, for    *)
(* any set of events, any payload, and any number of events, service       *)
(* deaths and kills of notifyd.                                            *)
(***************************************************************************)
EXTENDS Notifyd, SequenceTheorems, TLAPS

\* While an event is being handled, and while one of its actions is.
ServicePcs == {"lookup", "cancel", "cancel_wait", "alarm", "alarm_wait"}
HandlerPcs == {"action", "lookup", "cancel", "cancel_wait", "alarm", "alarm_wait"}

Numbered == {[number |-> n, name |-> e.name, msg |-> e.msg] :
               n \in Nat \ {0}, e \in Events}
Configs == {config(s, e.name) : s \in Services, e \in Events}
Requests == {[method |-> m, number |-> n, config |-> c] :
               m \in {"alarm", "cancel_alarm"}, n \in Nat \ {0}, c \in Configs}

\* The types TypeOK leaves open, and where the loop over the registry is.
DataOK ==
  /\ inbox \in Seq(Numbered)
  /\ requests \in [Services -> Seq(Requests)]
  /\ pc \in HandlerPcs => current \in Numbered
  /\ pc \in ServicePcs => action \in 1 .. 3 /\ is_supported_event_type(current.name)

TypeInv == TypeOK /\ DataOK
-----------------------------------------------------------------------------
\* Three actions are registered, one for each service.
LEMMA Registry ==
  /\ Len(alarm_actions) = 3
  /\ \A i \in 1 .. 3 : alarm_actions[i] \in Services
  /\ \A i, j \in 1 .. 3 : i # j => alarm_actions[i] # alarm_actions[j]
<1>1. Len(alarm_actions) = 3
  BY DEF alarm_actions
<1>2. /\ alarm_actions[1] = "siren" /\ alarm_actions[2] = "led"
      /\ alarm_actions[3] = "mqtt"
  BY DEF alarm_actions
<1>3. \A i \in 1 .. 3 : i = 1 \/ i = 2 \/ i = 3
  OBVIOUS
<1> QED BY <1>1, <1>2, <1>3 DEF Services

\* An event that was received has a number and is one of Events.
LEMMA NumberedFacts ==
  ASSUME NEW x \in Numbered
  PROVE  /\ x.number \in Nat \ {0}
         /\ \E e \in Events : x.name = e.name /\ x.msg = e.msg
BY DEF Numbered

\* A request has a number and one of the two methods.
LEMMA RequestFacts ==
  ASSUME NEW r \in Requests
  PROVE  r.number \in Nat \ {0} /\ r.method \in {"alarm", "cancel_alarm"}
BY DEF Requests

\* What Tail leaves of a sequence that is not empty.
LEMMA TailFacts ==
  ASSUME NEW S, NEW q \in Seq(S), q # <<>>
  PROVE  /\ Head(q) = q[1] /\ Head(q) \in S /\ 1 \in DOMAIN q
         /\ Tail(q) \in Seq(S)
         /\ \A k \in DOMAIN Tail(q) : k + 1 \in DOMAIN q /\ Tail(q)[k] = q[k + 1]
         /\ \A k \in DOMAIN q : k \in Nat /\ (k # 1 => k - 1 \in DOMAIN Tail(q))
<1>1. /\ Head(q) \in S /\ Tail(q) \in Seq(S) /\ Len(Tail(q)) = Len(q) - 1
      /\ \A k \in 1 .. Len(Tail(q)) : Tail(q)[k] = q[k + 1]
  BY HeadTailProperties
<1>2. Len(q) \in Nat /\ Len(q) # 0 /\ DOMAIN q = 1 .. Len(q)
  BY EmptySeq
<1>3. DOMAIN Tail(q) = 1 .. Len(q) - 1
  BY <1>1
<1>4. Head(q) = q[1]
  OBVIOUS
<1> QED BY <1>1, <1>2, <1>3, <1>4

\* What Append makes of a sequence.
LEMMA AppendFacts ==
  ASSUME NEW S, NEW q \in Seq(S), NEW x \in S
  PROVE  /\ Append(q, x) \in Seq(S) /\ Append(q, x) # <<>>
         /\ Len(q) \in Nat
         /\ DOMAIN q = 1 .. Len(q) /\ DOMAIN Append(q, x) = 1 .. Len(q) + 1
         /\ \A k \in DOMAIN q : Append(q, x)[k] = q[k]
         /\ Append(q, x)[Len(q) + 1] = x
BY AppendProperties

\* The request invoke adds is one the service can read.
LEMMA InvokeAdds ==
  ASSUME TypeInv, pc \in ServicePcs, NEW m \in {"alarm", "cancel_alarm"}, invoke(m)
  PROVE  \E r \in Requests :
           /\ r.method = m /\ r.number = current.number
           /\ requests' = [requests EXCEPT ![Service] = Append(@, r)]
           /\ Service \in Services /\ replied' = FALSE
<1> DEFINE r == [method |-> m, number |-> current.number,
                 config |-> config(Service, current.name)]
<1>1. Service \in Services
  BY Registry DEF TypeInv, DataOK, Service
<1>2. current \in Numbered
  BY DEF TypeInv, DataOK, ServicePcs, HandlerPcs
<1>3. config(Service, current.name) \in Configs
  BY <1>1, <1>2, NumberedFacts DEF Configs
<1>4. r \in Requests
  BY <1>2, <1>3, NumberedFacts DEF Requests
<1> QED BY <1>1, <1>4 DEF invoke
-----------------------------------------------------------------------------
\* The counters, and what record_event does to them.
Counters == [received : Nat, accepted : Nat, ignored : Nat, invalid : Nat,
             sent : Nat, failed : Nat,
             last_result : {"none", "accepted", "ignored", "invalid"}]

\* record_event adds one to received and to one of its three classes.
LEMMA RecordFacts ==
  ASSUME stats \in Counters, NEW c \in {"accepted", "ignored", "invalid"}, record_event(c)
  PROVE  /\ stats' \in Counters
         /\ stats'.received = stats.received + 1
         /\ stats'.accepted = stats.accepted + (IF c = "accepted" THEN 1 ELSE 0)
         /\ stats'.ignored = stats.ignored + (IF c = "ignored" THEN 1 ELSE 0)
         /\ stats'.invalid = stats.invalid + (IF c = "invalid" THEN 1 ELSE 0)
         /\ stats'.sent = stats.sent /\ stats'.failed = stats.failed
<1>1. /\ stats.received + 1 \in Nat /\ stats.accepted + 1 \in Nat
      /\ stats.ignored + 1 \in Nat /\ stats.invalid + 1 \in Nat
  BY DEF Counters
<1>2. CASE c = "accepted"
  <2>1. stats' = [stats EXCEPT !.received = @ + 1, !.accepted = @ + 1,
                               !.last_result = "accepted"]
    BY <1>2, Zenon DEF record_event
  <2>2. stats' \in Counters
    BY <1>1, <2>1, Zenon DEF Counters
  <2> QED BY <1>2, <2>1, <2>2 DEF Counters
<1>3. CASE c = "ignored"
  <2>1. stats' = [stats EXCEPT !.received = @ + 1, !.ignored = @ + 1,
                               !.last_result = "ignored"]
    BY <1>3, Zenon DEF record_event
  <2>2. stats' \in Counters
    BY <1>1, <2>1, Zenon DEF Counters
  <2> QED BY <1>3, <2>1, <2>2 DEF Counters
<1>4. CASE c = "invalid"
  <2>1. stats' = [stats EXCEPT !.received = @ + 1, !.invalid = @ + 1,
                               !.last_result = "invalid"]
    BY <1>4, Zenon DEF record_event
  <2>2. stats' \in Counters
    BY <1>1, <2>1, Zenon DEF Counters
  <2> QED BY <1>4, <2>1, <2>2 DEF Counters
<1> QED BY <1>2, <1>3, <1>4

\* The result of an action adds one to one of its two counters.
LEMMA ResultFacts ==
  ASSUME stats \in Counters, Accepted \/ Error
  PROVE  /\ stats' \in Counters
         /\ stats'.received = stats.received /\ stats'.accepted = stats.accepted
         /\ stats'.ignored = stats.ignored /\ stats'.invalid = stats.invalid
         /\ stats'.sent + stats'.failed = stats.sent + stats.failed + 1
<1>1. stats.sent + 1 \in Nat /\ stats.failed + 1 \in Nat
  BY DEF Counters
<1>2. CASE Accepted
  <2>1. stats' = [stats EXCEPT !.sent = @ + 1]
    BY <1>2 DEF Accepted
  <2>2. stats' \in Counters
    BY <1>1, <2>1, Zenon DEF Counters
  <2> QED BY <2>1, <2>2 DEF Counters
<1>3. CASE Error
  <2>1. stats' = [stats EXCEPT !.failed = @ + 1]
    BY <1>3 DEF Error
  <2>2. stats' \in Counters
    BY <1>1, <2>1, Zenon DEF Counters
  <2> QED BY <2>1, <2>2 DEF Counters
<1> QED BY <1>2, <1>3

-----------------------------------------------------------------------------
\* Each part of the type invariant, so that a step need only show what it moves.
ControlOK ==
  /\ pc \in {"idle", "action", "lookup", "cancel", "cancel_wait", "alarm", "alarm_wait",
             "failed", "exited", "init", "connect", "add_object", "register"}
  /\ terminated \in BOOLEAN /\ any_recognized \in BOOLEAN /\ replied \in BOOLEAN
  /\ action \in 1 .. 4 /\ object_id \in Nat
  /\ pc \in HandlerPcs => current \in Numbered
  /\ pc \in ServicePcs => action \in 1 .. 3 /\ is_supported_event_type(current.name)
InboxOK ==
  /\ inbox \in Seq(Numbered)
  /\ \A k \in DOMAIN inbox : inbox[k].number \in 1 .. published
ServicesOK ==
  /\ up \in [Services -> BOOLEAN] /\ id \in [Services -> Nat]
  /\ requests \in [Services -> Seq(Requests)]
  /\ playing \in [Services -> 0 .. published]
  /\ sent_to \in [Services -> 0 .. published]
  /\ handled \subseteq Services \X (1 .. published)
CountOK ==
  /\ published \in 0 .. MaxEvents /\ classified \in 0 .. published
  /\ restarts \in 0 .. MaxRestarts /\ crashes \in 0 .. MaxCrashes

\* A number a service or the handler knows has been published.
KnownOK ==
  /\ pc \in HandlerPcs => current.number <= published
  /\ \A s \in Services : \A i \in DOMAIN requests[s] : requests[s][i].number <= published

TypesOK ==
  ControlOK /\ InboxOK /\ stats \in Counters /\ ServicesOK /\ CountOK /\ KnownOK

\* The parts together give the types of all variables.
LEMMA Types == TypesOK => TypeInv
<1> SUFFICES ASSUME TypesOK PROVE TypeInv
  OBVIOUS
<1>1. stats \in [received : Nat, accepted : Nat, ignored : Nat, invalid : Nat,
                sent : Nat, failed : Nat,
                last_result : {"none", "accepted", "ignored", "invalid"}]
  BY DEF TypesOK, Counters
<1>2. action \in 1 .. Len(alarm_actions) + 1
  BY Registry DEF TypesOK, ControlOK
<1>3. TypeOK
  BY <1>1, <1>2 DEF TypesOK, ControlOK, InboxOK, ServicesOK, CountOK, TypeOK, LoopPcs
<1> QED BY <1>3 DEF TypesOK, ControlOK, InboxOK, ServicesOK, TypeInv, DataOK

\* A part stays as it is when none of its variables moves.
LEMMA Frames ==
  ASSUME TypesOK
  PROVE  /\ UNCHANGED <<inbox, published>> => InboxOK'
         /\ UNCHANGED <<services, sent_to, published>> => ServicesOK'
         /\ UNCHANGED <<published, classified, restarts, crashes>> => CountOK'
         /\ UNCHANGED <<requests, published>> /\ (pc' \in HandlerPcs =>
              current' = current /\ pc \in HandlerPcs) => KnownOK'
<1>1. ASSUME UNCHANGED <<inbox, published>> PROVE InboxOK'
  BY <1>1 DEF TypesOK, InboxOK
<1>2. ASSUME UNCHANGED <<services, sent_to, published>> PROVE ServicesOK'
  BY <1>2 DEF TypesOK, ServicesOK, services
<1>3. ASSUME UNCHANGED <<published, classified, restarts, crashes>> PROVE CountOK'
  BY <1>3 DEF TypesOK, CountOK
<1>4. ASSUME UNCHANGED <<requests, published>>,
             pc' \in HandlerPcs => current' = current /\ pc \in HandlerPcs
      PROVE  KnownOK'
  BY <1>4 DEF TypesOK, KnownOK
<1> QED BY <1>1, <1>2, <1>3, <1>4

\* With invoke the service gets one more request, from the event being handled.
LEMMA InvokeTyped ==
  ASSUME TypesOK, pc \in ServicePcs, NEW m \in {"alarm", "cancel_alarm"}, invoke(m),
         UNCHANGED <<up, id, playing, sent_to, handled, published, current>>
  PROVE  ServicesOK' /\ KnownOK'
<1>1. PICK r \in Requests :
        /\ r.number = current.number
        /\ requests' = [requests EXCEPT ![Service] = Append(@, r)]
        /\ Service \in Services
  BY Types, InvokeAdds
<1>2. requests[Service] \in Seq(Requests)
  BY <1>1 DEF TypesOK, ServicesOK
<1>3. Append(requests[Service], r) \in Seq(Requests)
  BY <1>2, AppendFacts
<1>4. ServicesOK'
  BY <1>1, <1>3 DEF TypesOK, ServicesOK
<1>5. current.number <= published
  BY DEF TypesOK, KnownOK, ServicePcs, HandlerPcs
<1>6. \A i \in DOMAIN Append(requests[Service], r) :
        Append(requests[Service], r)[i].number <= published
  <2>1. \A i \in DOMAIN requests[Service] : requests[Service][i].number <= published
    BY <1>1 DEF TypesOK, KnownOK
  <2> QED BY <1>1, <1>2, <1>5, <2>1, AppendFacts
<1>7. KnownOK'
  <2>1. \A s \in Services : \A i \in DOMAIN requests'[s] : requests'[s][i].number <= published
    BY <1>1, <1>6 DEF TypesOK, KnownOK, ServicesOK
  <2> QED BY <1>5, <2>1 DEF KnownOK
<1> QED BY <1>4, <1>7

\* Every step keeps the types.
LEMMA TypeStep ==
  ASSUME TypesOK, [Next]_vars
  PROVE  TypesOK'
<1> USE DEF TypesOK
<1>1. CASE Start
  <2>1. ControlOK'
    BY <1>1 DEF Start, handler, services, ControlOK, HandlerPcs, ServicePcs
  <2>2. InboxOK'
    BY <1>1, Frames DEF Start, handler, services
  <2>3. stats' \in Counters
    BY <1>1 DEF Start, ZeroStats, Counters
  <2>4. ServicesOK'
    BY <1>1, Frames DEF Start, handler, services
  <2>5. CountOK'
    BY <1>1, Frames DEF Start, handler, services
  <2>6. KnownOK'
    BY <1>1, Frames DEF Start, handler, services, HandlerPcs
  <2> QED BY <2>1, <2>2, <2>3, <2>4, <2>5, <2>6
<1>2. CASE Crash
  <2>1. ControlOK'
    <3>1. action' \in 1 .. 4 /\ object_id' \in Nat
      BY <1>2 DEF Crash, NoHandler, ControlOK, ServicePcs
    <3>2. any_recognized' \in BOOLEAN /\ replied' \in BOOLEAN /\ terminated' \in BOOLEAN
      BY <1>2 DEF Crash, NoHandler, ControlOK
    <3>3. pc' = "failed"
      BY <1>2 DEF Crash, NoHandler, ControlOK
    <3> QED BY <3>1, <3>2, <3>3 DEF ControlOK, HandlerPcs, ServicePcs
  <2>2. InboxOK'
    BY <1>2, EmptySeq DEF Crash, NoHandler, InboxOK
  <2>3. stats' \in Counters
    BY <1>2 DEF Crash, NoHandler, handler, services
  <2>4. ServicesOK'
    BY <1>2, Frames DEF Crash, NoHandler, handler, services
  <2>5. CountOK'
    BY <1>2, BoundAssumption DEF Crash, services, CountOK
  <2>6. KnownOK'
    BY <1>2, Frames DEF Crash, NoHandler, handler, services, HandlerPcs
  <2> QED BY <2>1, <2>2, <2>3, <2>4, <2>5, <2>6
<1>3. CASE handle_signal
  <2>1. ControlOK'
    BY <1>3 DEF handle_signal, handler, services, ControlOK, HandlerPcs, ServicePcs
  <2>2. InboxOK'
    BY <1>3, Frames DEF handle_signal, handler, services
  <2>3. stats' \in Counters
    BY <1>3 DEF handle_signal, handler, services
  <2>4. ServicesOK'
    BY <1>3, Frames DEF handle_signal, handler, services
  <2>5. CountOK'
    BY <1>3, Frames DEF handle_signal, handler, services
  <2>6. KnownOK'
    BY <1>3, Frames DEF handle_signal, handler, services, HandlerPcs
  <2> QED BY <2>1, <2>2, <2>3, <2>4, <2>5, <2>6
<1>4. CASE Register
  <2>1. ControlOK'
    BY <1>4 DEF Register, handler, services, ControlOK, HandlerPcs, ServicePcs
  <2>2. InboxOK'
    BY <1>4, Frames DEF Register, handler, services
  <2>3. stats' \in Counters
    BY <1>4 DEF Register, handler, services
  <2>4. ServicesOK'
    BY <1>4, Frames DEF Register, handler, services
  <2>5. CountOK'
    BY <1>4, Frames DEF Register, handler, services
  <2>6. KnownOK'
    BY <1>4, Frames DEF Register, handler, services, HandlerPcs
  <2> QED BY <2>1, <2>2, <2>3, <2>4, <2>5, <2>6
<1>5. CASE LeaveLoop
  <2>1. ControlOK'
    BY <1>5 DEF LeaveLoop, handler, services, ControlOK, HandlerPcs, ServicePcs
  <2>2. InboxOK'
    BY <1>5, EmptySeq DEF LeaveLoop, InboxOK
  <2>3. stats' \in Counters
    BY <1>5 DEF LeaveLoop, handler, services
  <2>4. ServicesOK'
    BY <1>5, Frames DEF LeaveLoop, handler, services
  <2>5. CountOK'
    BY <1>5, Frames DEF LeaveLoop, handler, services
  <2>6. KnownOK'
    BY <1>5, Frames DEF LeaveLoop, handler, services, HandlerPcs
  <2> QED BY <2>1, <2>2, <2>3, <2>4, <2>5, <2>6
<1>6. CASE ReceiveEvent
  <2>1. inbox \in Seq(Numbered) /\ inbox # <<>>
    BY <1>6 DEF ReceiveEvent, InboxOK
  <2>2. Head(inbox) \in Numbered /\ Head(inbox).number \in 1 .. published
    BY <2>1, TailFacts DEF InboxOK
  <2>3. InboxOK'
    BY <1>6, <2>1, TailFacts DEF ReceiveEvent, InboxOK
  <2>4. ControlOK' /\ (pc' \in HandlerPcs => current' = Head(inbox))
    <3>1. CASE pc' = "action" /\ current' = Head(inbox) /\ action' = 1 /\ any_recognized' = FALSE
      <4>1. action' \in 1 .. 4
        BY <3>1
      <4>2. any_recognized' \in BOOLEAN
        BY <3>1
      <4>3. object_id' \in Nat /\ replied' \in BOOLEAN /\ terminated' \in BOOLEAN
        BY <1>6, <3>1 DEF ReceiveEvent, ControlOK, handler
      <4> QED BY <2>2, <3>1, <4>1, <4>2, <4>3 DEF ControlOK, HandlerPcs, ServicePcs
    <3>2. CASE pc' = "idle" /\ UNCHANGED handler
      BY <1>6, <3>2 DEF ReceiveEvent, handler, ControlOK, HandlerPcs, ServicePcs
    <3> QED BY <1>6, <3>1, <3>2 DEF ReceiveEvent
  <2>5. stats' \in Counters
    BY <1>6, RecordFacts DEF ReceiveEvent
  <2>6. ServicesOK'
    BY <1>6, Frames DEF ReceiveEvent
  <2>7. CountOK' /\ KnownOK'
    BY <1>6, <2>2, <2>4 DEF ReceiveEvent, services, CountOK, KnownOK
  <2> QED BY <2>3, <2>4, <2>5, <2>6, <2>7
<1>7. CASE NextAction
  <2>1. ControlOK'
    BY <1>7, Registry DEF NextAction, ControlOK, HandlerPcs, ServicePcs
  <2>2. InboxOK'
    BY <1>7, Frames DEF NextAction, handler, services
  <2>3. stats' \in Counters
    BY <1>7 DEF NextAction, handler, services
  <2>4. ServicesOK'
    BY <1>7, Frames DEF NextAction, handler, services
  <2>5. CountOK'
    BY <1>7, Frames DEF NextAction, handler, services
  <2>6. KnownOK'
    BY <1>7, Frames DEF NextAction, handler, services, HandlerPcs
  <2> QED BY <2>1, <2>2, <2>3, <2>4, <2>5, <2>6
<1>8. CASE LookupFails
  <2>1. ControlOK'
    BY <1>8 DEF LookupFails, Error, handler, services, ControlOK, HandlerPcs, ServicePcs
  <2>2. InboxOK'
    BY <1>8, Frames DEF LookupFails, Error, handler, services
  <2>3. stats' \in Counters
    BY <1>8, ResultFacts DEF LookupFails, Error
  <2>4. ServicesOK'
    BY <1>8, Frames DEF LookupFails, Error
  <2>5. CountOK'
    BY <1>8, Frames DEF LookupFails, Error, handler, services
  <2>6. KnownOK'
    BY <1>8, Frames DEF LookupFails, Error, handler, services, HandlerPcs
  <2> QED BY <2>1, <2>2, <2>3, <2>4, <2>5, <2>6
<1>9. CASE Lookup
  <2>1. ControlOK'
    <3>1. Service \in Services
      BY <1>9, Registry DEF Lookup, ControlOK, Service, ServicePcs
    <3>2. object_id' \in Nat
      BY <1>9, <3>1 DEF Lookup, ServicesOK
    <3> QED BY <1>9, <3>2 DEF Lookup, ControlOK, HandlerPcs, ServicePcs
  <2>2. InboxOK'
    BY <1>9, Frames DEF Lookup, handler, services
  <2>3. stats' \in Counters
    BY <1>9 DEF Lookup, handler, services
  <2>4. ServicesOK'
    BY <1>9, Frames DEF Lookup, handler, services
  <2>5. CountOK'
    BY <1>9, Frames DEF Lookup, handler, services
  <2>6. KnownOK'
    BY <1>9, Frames DEF Lookup, handler, services, HandlerPcs
  <2> QED BY <2>1, <2>2, <2>3, <2>4, <2>5, <2>6
<1>10. CASE InvokeCancel
  <2>1. pc \in ServicePcs
    BY <1>10 DEF InvokeCancel, ServicePcs, HandlerPcs
  <2>2. ControlOK'
    BY <1>10 DEF InvokeCancel, invoke, ControlOK, HandlerPcs, ServicePcs
  <2>3. ServicesOK' /\ KnownOK'
    <3>1. CASE invoke("cancel_alarm")
      BY <1>10, <2>1, <3>1, InvokeTyped DEF InvokeCancel
    <3>2. CASE UNCHANGED requests
      BY <1>10, <2>1, <3>2, Frames DEF InvokeCancel, services, ServicePcs, HandlerPcs
    <3> QED BY <1>10, <3>1, <3>2 DEF InvokeCancel
  <2>4. InboxOK' /\ CountOK' /\ stats' \in Counters
    BY <1>10, Frames DEF InvokeCancel
  <2> QED BY <2>2, <2>3, <2>4
<1>11. CASE CancelReturns
  <2>1. ControlOK'
    BY <1>11 DEF CancelReturns, handler, services, ControlOK, HandlerPcs, ServicePcs
  <2>2. InboxOK'
    BY <1>11, Frames DEF CancelReturns, handler, services
  <2>3. stats' \in Counters
    BY <1>11 DEF CancelReturns, handler, services
  <2>4. ServicesOK'
    BY <1>11, Frames DEF CancelReturns, handler, services
  <2>5. CountOK'
    BY <1>11, Frames DEF CancelReturns, handler, services
  <2>6. KnownOK'
    BY <1>11, Frames DEF CancelReturns, handler, services, HandlerPcs
  <2> QED BY <2>1, <2>2, <2>3, <2>4, <2>5, <2>6
<1>12. CASE InvokeAlarm
  <2>1. pc \in ServicePcs
    BY <1>12 DEF InvokeAlarm, ServicePcs, HandlerPcs
  <2>2. ControlOK'
    <3>1. action' \in 1 .. 4 /\ object_id' \in Nat
      BY <1>12 DEF InvokeAlarm, invoke, Error, ControlOK, ServicePcs
    <3>2. any_recognized' \in BOOLEAN /\ replied' \in BOOLEAN /\ terminated' \in BOOLEAN
      BY <1>12 DEF InvokeAlarm, invoke, Error, ControlOK
    <3>3. (pc' = "action" \/ (pc' = "alarm_wait" /\ UNCHANGED action)) /\ UNCHANGED current
      BY <1>12 DEF InvokeAlarm, invoke, Error, ControlOK
    <3>4. current \in Numbered /\ action \in 1 .. 3 /\ is_supported_event_type(current.name)
      BY <2>1 DEF ControlOK, ServicePcs, HandlerPcs
    <3> QED BY <3>4, <3>1, <3>2, <3>3 DEF ControlOK, HandlerPcs, ServicePcs
  <2>3. ServicesOK' /\ KnownOK'
    <3>1. CASE invoke("alarm") /\ UNCHANGED sent_to
      BY <1>12, <2>1, <3>1, InvokeTyped DEF InvokeAlarm
    <3>2. CASE UNCHANGED requests /\ UNCHANGED sent_to
      BY <1>12, <2>1, <3>2, Frames DEF InvokeAlarm, services, ServicePcs, HandlerPcs
    <3> QED BY <1>12, <3>1, <3>2 DEF InvokeAlarm, Error
  <2>4. InboxOK' /\ CountOK'
    BY <1>12, Frames DEF InvokeAlarm
  <2>5. stats' \in Counters
    BY <1>12, ResultFacts DEF InvokeAlarm
  <2> QED BY <2>2, <2>3, <2>4, <2>5
<1>13. CASE AlarmReturns
  <2>1. pc \in ServicePcs /\ Service \in Services /\ current.number \in 0 .. published
    BY <1>13, Registry, NumberedFacts DEF AlarmReturns, ControlOK, CountOK, KnownOK, Service,
       ServicePcs, HandlerPcs
  <2>2. ControlOK'
    <3>1. action' \in 1 .. 4 /\ object_id' \in Nat
      BY <1>13 DEF AlarmReturns, Accepted, Error, ControlOK, ServicePcs
    <3>2. any_recognized' \in BOOLEAN /\ replied' \in BOOLEAN /\ terminated' \in BOOLEAN
      BY <1>13 DEF AlarmReturns, Accepted, Error, ControlOK
    <3>3. pc' = "action" /\ current' \in Numbered
      BY <1>13 DEF AlarmReturns, Accepted, Error, ControlOK, HandlerPcs
    <3> QED BY <3>1, <3>2, <3>3 DEF ControlOK, HandlerPcs, ServicePcs
  <2>3. ServicesOK'
    BY <1>13, <2>1 DEF AlarmReturns, Accepted, Error, services, ServicesOK
  <2>4. InboxOK' /\ CountOK' /\ KnownOK'
    BY <1>13, <2>1, Frames DEF AlarmReturns, services, ServicePcs, HandlerPcs
  <2>5. stats' \in Counters
    BY <1>13, ResultFacts DEF AlarmReturns
  <2> QED BY <2>2, <2>3, <2>4, <2>5
<1>14. CASE Classify
  <2>1. ControlOK'
    <3>1. action' \in 1 .. 4 /\ object_id' \in Nat
      BY <1>14 DEF Classify, NoHandler, ControlOK, ServicePcs
    <3>2. any_recognized' \in BOOLEAN /\ replied' \in BOOLEAN /\ terminated' \in BOOLEAN
      BY <1>14 DEF Classify, NoHandler, ControlOK
    <3>3. pc' = "idle"
      BY <1>14 DEF Classify, NoHandler, ControlOK
    <3> QED BY <3>1, <3>2, <3>3 DEF ControlOK, HandlerPcs, ServicePcs
  <2>2. InboxOK' /\ ServicesOK' /\ KnownOK'
    BY <1>14, Frames DEF Classify, services, HandlerPcs
  <2>3. stats' \in Counters
    BY <1>14, RecordFacts DEF Classify
  <2>4. CountOK'
    BY <1>14, NumberedFacts DEF Classify, services, CountOK, KnownOK, ControlOK, HandlerPcs
  <2> QED BY <2>1, <2>2, <2>3, <2>4
<1>15. ASSUME NEW e \in Events, Publish(e) PROVE TypesOK'
  <2> DEFINE x == [number |-> published + 1, name |-> e.name, msg |-> e.msg]
  <2>a. published \in Nat /\ published + 1 \in Nat \ {0}
    BY BoundAssumption DEF CountOK
  <2>b. published' = published + 1
    BY <1>15 DEF Publish
  <2>c. x \in Numbered
    BY <2>a DEF Numbered
  <2>1. x \in Numbered /\ published \in Nat /\ published' = published + 1
    BY <2>a, <2>b, <2>c
  <2>2. ControlOK'
    BY <1>15 DEF Publish, handler, ControlOK
  <2>3. InboxOK'
    <3>1. CASE inbox' = Append(inbox, x)
      BY <2>1, <3>1, AppendFacts DEF InboxOK
    <3>2. CASE inbox' = inbox
      BY <2>1, <3>2 DEF InboxOK
    <3> QED BY <1>15, <2>1, <3>1, <3>2 DEF Publish
  <2>4. 0 .. published \subseteq 0 .. published' /\ 1 .. published \subseteq 1 .. published'
    BY <2>1
  <2>5. ServicesOK'
    BY <1>15, <2>4 DEF Publish, services, ServicesOK
  <2>6. CountOK'
    BY <1>15, BoundAssumption DEF Publish, services, CountOK
  <2>7. KnownOK'
    <3>1. pc' \in HandlerPcs => current'.number <= published'
      BY <1>15, <2>1, NumberedFacts DEF Publish, handler, KnownOK, ControlOK
    <3>2. ASSUME NEW s \in Services, NEW i \in DOMAIN requests[s]
          PROVE  requests[s][i].number <= published'
      <4>1. requests[s][i] \in Requests
        BY DEF ServicesOK
      <4> QED BY <2>1, <4>1, RequestFacts DEF KnownOK
    <3> QED BY <1>15, <3>1, <3>2 DEF Publish, services, KnownOK
  <2>8. stats' \in Counters
    BY <1>15 DEF Publish
  <2> QED BY <2>2, <2>3, <2>5, <2>6, <2>7, <2>8
<1>16. ASSUME NEW s \in Services, ServiceHandles(s) PROVE TypesOK'
  <2> DEFINE q == requests[s]
  <2>1. q \in Seq(Requests) /\ q # <<>>
    BY <1>16 DEF ServiceHandles, ServicesOK
  <2>2. Head(q) \in Requests /\ Head(q).number \in 1 .. published /\ published \in Nat
    BY <2>1, TailFacts, RequestFacts DEF KnownOK, CountOK
  <2>3. ControlOK'
    BY <1>16 DEF ServiceHandles, Outstanding, ControlOK
  <2>4. ServicesOK'
    <3>1. requests' \in [Services -> Seq(Requests)]
      BY <1>16, <2>1, TailFacts DEF ServiceHandles, ServicesOK
    <3>2. playing' \in [Services -> 0 .. published]
      <4>1. \E n \in 0 .. published : playing' = [playing EXCEPT ![s] = n]
        BY <1>16, <2>2 DEF ServiceHandles
      <4> QED BY <4>1 DEF ServicesOK
    <3>3. handled' \subseteq Services \X (1 .. published)
      BY <1>16, <2>2 DEF ServiceHandles, ServicesOK
    <3> QED BY <1>16, <3>1, <3>2, <3>3 DEF ServiceHandles, ServicesOK
  <2>5. KnownOK'
    <3>1. \A i \in DOMAIN Tail(q) : Tail(q)[i].number <= published
      BY <2>1, TailFacts DEF KnownOK
    <3> QED BY <1>16, <3>1 DEF ServiceHandles, KnownOK, ServicesOK
  <2>6. InboxOK' /\ CountOK' /\ stats' \in Counters
    BY <1>16, Frames DEF ServiceHandles
  <2> QED BY <2>3, <2>4, <2>5, <2>6
<1>17. ASSUME NEW s \in Services, ServiceDies(s) PROVE TypesOK'
  <2>1. ControlOK' /\ stats' \in Counters
    BY <1>17 DEF ServiceDies, handler, ControlOK
  <2>2. <<>> \in Seq(Requests) /\ DOMAIN <<>> = {} /\ 0 \in 0 .. published
    BY EmptySeq DEF CountOK
  <2>3. ServicesOK'
    BY <1>17, <2>2 DEF ServiceDies, ServicesOK
  <2>4. KnownOK'
    BY <1>17, <2>2 DEF ServiceDies, handler, KnownOK, ServicesOK
  <2>5. InboxOK'
    BY <1>17, Frames DEF ServiceDies
  <2>6. CountOK'
    BY <1>17, BoundAssumption DEF ServiceDies, CountOK
  <2> QED BY <2>1, <2>3, <2>4, <2>5, <2>6
<1>18. ASSUME NEW s \in Services, ServiceReturns(s) PROVE TypesOK'
  <2>1. ControlOK' /\ stats' \in Counters
    BY <1>18 DEF ServiceReturns, handler, ControlOK
  <2>2. ServicesOK'
    BY <1>18 DEF ServiceReturns, ServicesOK
  <2>3. InboxOK' /\ CountOK' /\ KnownOK'
    BY <1>18, Frames DEF ServiceReturns, handler
  <2> QED BY <2>1, <2>2, <2>3
<1>19. CASE UNCHANGED vars
  BY <1>19 DEF vars, handler, services, ControlOK, InboxOK, ServicesOK, CountOK, KnownOK
<1> QED BY <1>1, <1>2, <1>3, <1>4, <1>5, <1>6, <1>7, <1>8, <1>9, <1>10,
       <1>11, <1>12, <1>13, <1>14, <1>15, <1>16, <1>17, <1>18,
       <1>19
       DEF Next, MainStep

-----------------------------------------------------------------------------
(***************************************************************************)
(* The counters.  While an event is handled, one result has been counted   *)
(* for each action the loop has left behind, if they support the event.    *)
(***************************************************************************)
Supported == is_supported_event_type(current.name)
Counted == IF Supported THEN action - 1 ELSE 0

Classes == stats.received = stats.accepted + stats.ignored + stats.invalid
Results(n) == stats.sent + stats.failed = 3 * stats.accepted + n

BalanceInv ==
  /\ pc \in {"idle", "connect", "add_object", "register"} => Classes /\ Results(0)
  /\ pc \in HandlerPcs =>
       /\ Classes /\ Results(Counted)
       /\ any_recognized <=> Counted # 0

\* A result of an action that supports the event is counted, and the loop goes on.
LEMMA ResultCounted ==
  ASSUME TypesOK, BalanceInv, pc \in ServicePcs, Accepted \/ Error, current' = current
  PROVE  BalanceInv'
<1>1. /\ Supported /\ action \in 1 .. 3 /\ pc \in HandlerPcs
      /\ Classes /\ Results(action - 1)
  BY DEF TypesOK, ControlOK, BalanceInv, Supported, Counted, ServicePcs, HandlerPcs
<1>2. /\ pc' = "action" /\ action' = action + 1 /\ any_recognized' = TRUE
  BY DEF Accepted, Error
<1>3. Supported' /\ Counted' = action /\ Counted' # 0
  BY <1>1, <1>2 DEF Supported, Counted
<1>4. /\ stats \in Counters /\ stats' \in Counters
      /\ stats'.received = stats.received /\ stats'.accepted = stats.accepted
      /\ stats'.ignored = stats.ignored /\ stats'.invalid = stats.invalid
      /\ stats'.sent + stats'.failed = stats.sent + stats.failed + 1
  BY ResultFacts DEF TypesOK
<1>5. Classes' /\ Results(Counted)'
  BY <1>1, <1>3, <1>4 DEF Counters, Classes, Results
<1> QED BY <1>2, <1>3, <1>5 DEF BalanceInv

\* An event is classified: received grows with one of the three.
LEMMA ClassCounted ==
  ASSUME stats \in Counters, Classes, NEW c \in {"accepted", "ignored", "invalid"},
         record_event(c)
  PROVE  /\ Classes'
         /\ stats'.sent + stats'.failed = stats.sent + stats.failed
         /\ stats'.accepted = IF c = "accepted" THEN stats.accepted + 1 ELSE stats.accepted
<1>1. /\ stats' \in Counters
      /\ stats'.received = stats.received + 1
      /\ stats'.accepted = stats.accepted + (IF c = "accepted" THEN 1 ELSE 0)
      /\ stats'.ignored = stats.ignored + (IF c = "ignored" THEN 1 ELSE 0)
      /\ stats'.invalid = stats.invalid + (IF c = "invalid" THEN 1 ELSE 0)
      /\ stats'.sent = stats.sent /\ stats'.failed = stats.failed
  BY RecordFacts
<1>2. /\ stats.accepted \in Nat /\ stats.ignored \in Nat /\ stats.invalid \in Nat
      /\ stats.received \in Nat
  BY DEF Counters
<1> QED BY <1>1, <1>2 DEF Classes

\* Every step keeps the counters balanced.
LEMMA BalanceStep ==
  ASSUME TypesOK, BalanceInv, [Next]_vars
  PROVE  BalanceInv'
<1>1. CASE Start
  <2>1. /\ pc' = "connect" /\ stats'.received = 0 /\ stats'.accepted = 0
        /\ stats'.ignored = 0 /\ stats'.invalid = 0
        /\ stats'.sent = 0 /\ stats'.failed = 0
    BY <1>1 DEF Start, ZeroStats
  <2> QED BY <2>1 DEF BalanceInv, Classes, Results, HandlerPcs
<1>2. CASE Crash
  BY <1>2 DEF Crash, NoHandler, handler, BalanceInv, Classes, Results, Counted, Supported,
             HandlerPcs
<1>3. CASE handle_signal
  BY <1>3 DEF handle_signal, handler, BalanceInv, Classes, Results, Counted, Supported, HandlerPcs
<1>4. CASE Register
  BY <1>4 DEF Register, handler, BalanceInv, Classes, Results, Counted, Supported, HandlerPcs
<1>5. CASE LeaveLoop
  BY <1>5 DEF LeaveLoop, handler, BalanceInv, Classes, Results, Counted, Supported, HandlerPcs
<1>6. CASE ReceiveEvent
  <2>1. Classes /\ Results(0) /\ stats \in Counters
    BY <1>6 DEF ReceiveEvent, BalanceInv, TypesOK
  <2>2. CASE record_event("invalid") /\ pc' = "idle"
    <3>1. Classes' /\ Results(0)'
      BY <2>1, <2>2, ClassCounted DEF Results
    <3> QED BY <2>2, <3>1 DEF BalanceInv, HandlerPcs
  <2>3. CASE pc' = "action" /\ action' = 1 /\ any_recognized' = FALSE /\ UNCHANGED stats
    <3>1. Counted' = 0 /\ Classes' /\ Results(Counted)'
      BY <2>1, <2>3 DEF Counted, Classes, Results
    <3> QED BY <2>3, <3>1 DEF BalanceInv
  <2> QED BY <1>6, <2>2, <2>3 DEF ReceiveEvent
<1>7. CASE NextAction
  BY <1>7 DEF NextAction, handler, BalanceInv, Classes, Results, Counted, Supported, HandlerPcs
<1>8. CASE LookupFails
  BY <1>8, ResultCounted DEF LookupFails, ServicePcs
<1>9. CASE Lookup
  BY <1>9 DEF Lookup, handler, BalanceInv, Classes, Results, Counted, Supported, HandlerPcs
<1>10. CASE InvokeCancel
  BY <1>10 DEF InvokeCancel, handler, BalanceInv, Classes, Results, Counted, Supported, HandlerPcs
<1>11. CASE CancelReturns
  BY <1>11 DEF CancelReturns, handler, BalanceInv, Classes, Results, Counted, Supported, HandlerPcs
<1>12. CASE InvokeAlarm
  <2>1. CASE Error
    BY <1>12, <2>1, ResultCounted DEF InvokeAlarm, ServicePcs
  <2>2. CASE pc' = "alarm_wait" /\ UNCHANGED <<action, any_recognized, stats, current>>
    BY <1>12, <2>2 DEF InvokeAlarm, BalanceInv, Classes, Results, Counted, Supported, HandlerPcs
  <2> QED BY <1>12, <2>1, <2>2 DEF InvokeAlarm
<1>13. CASE AlarmReturns
  BY <1>13, ResultCounted DEF AlarmReturns, ServicePcs
<1>14. CASE Classify
  <2> DEFINE c == IF any_recognized THEN "accepted" ELSE "ignored"
  <2>1. action = 4 /\ pc' = "idle" /\ record_event(c)
    BY <1>14, Registry DEF Classify, TypesOK, ControlOK
  <2>2. /\ Classes /\ Results(Counted) /\ stats \in Counters
        /\ any_recognized <=> Counted # 0
    BY <1>14 DEF Classify, BalanceInv, HandlerPcs, TypesOK
  <2>3. Counted = IF any_recognized THEN 3 ELSE 0
    BY <2>1, <2>2 DEF Counted
  <2>4. /\ c \in {"accepted", "ignored", "invalid"}
        /\ c = "accepted" <=> any_recognized
    OBVIOUS
  <2> HIDE DEF c
  <2>5. /\ Classes'
        /\ stats'.sent + stats'.failed = stats.sent + stats.failed
        /\ stats'.accepted = IF any_recognized THEN stats.accepted + 1 ELSE stats.accepted
    BY <2>1, <2>2, <2>4, ClassCounted
  <2>6. Results(0)'
    BY <2>2, <2>3, <2>5 DEF Results, Counters
  <2> QED BY <2>1, <2>5, <2>6 DEF BalanceInv, HandlerPcs
<1>15. ASSUME NEW e \in Events, Publish(e) PROVE BalanceInv'
  BY <1>15 DEF Publish, handler, BalanceInv, Classes, Results, Counted, Supported, HandlerPcs
<1>16. ASSUME NEW s \in Services, ServiceHandles(s) PROVE BalanceInv'
  BY <1>16 DEF ServiceHandles, handler, BalanceInv, Classes, Results, Counted, Supported, HandlerPcs
<1>17. ASSUME NEW s \in Services, ServiceDies(s) PROVE BalanceInv'
  BY <1>17 DEF ServiceDies, handler, BalanceInv, Classes, Results, Counted, Supported, HandlerPcs
<1>18. ASSUME NEW s \in Services, ServiceReturns(s) PROVE BalanceInv'
  BY <1>18 DEF ServiceReturns, handler, BalanceInv, Classes, Results, Counted, Supported, HandlerPcs
<1>19. CASE UNCHANGED vars
  BY <1>19 DEF vars, handler, BalanceInv, Classes, Results, Counted, Supported, HandlerPcs
<1> QED BY <1>1, <1>2, <1>3, <1>4, <1>5, <1>6, <1>7, <1>8, <1>9, <1>10,
       <1>11, <1>12, <1>13, <1>14, <1>15, <1>16, <1>17, <1>18,
       <1>19
       DEF Next, MainStep

-----------------------------------------------------------------------------
(***************************************************************************)
(* What a step may do to a service, seen from the service.                 *)
(***************************************************************************)
SameHandled(u) == \A n \in Nat : <<u, n>> \in handled' <=> <<u, n>> \in handled

Still(u) ==
  /\ requests'[u] = requests[u] /\ playing'[u] = playing[u]
  /\ sent_to'[u] = sent_to[u] /\ SameHandled(u)

\* It handles the request r at the head of its queue.
Handles(u, r) ==
  /\ requests[u] # <<>> /\ r = Head(requests[u]) /\ requests'[u] = Tail(requests[u])
  /\ sent_to'[u] = sent_to[u]
  /\ \/ r.method = "cancel_alarm" /\ playing'[u] = 0 /\ SameHandled(u)
     \/ /\ r.method = "alarm" /\ playing'[u] \in {0, r.number}
        /\ \A n \in Nat : <<u, n>> \in handled' <=> <<u, n>> \in handled \/ n = r.number

Dies(u) ==
  /\ requests'[u] = <<>> /\ playing'[u] = 0
  /\ sent_to'[u] = sent_to[u] /\ SameHandled(u)

\* notifyd invokes r on it.
Asked(u, r) ==
  /\ pc = IF r.method = "alarm" THEN "alarm" ELSE "cancel"
  /\ pc' = IF r.method = "alarm" THEN "alarm_wait" ELSE "cancel_wait"
  /\ action' = action /\ current' = current
  /\ Service = u /\ Reachable /\ r.number = current.number
  /\ requests'[u] = Append(requests[u], r)
  /\ playing'[u] = playing[u] /\ sent_to'[u] = sent_to[u] /\ SameHandled(u)

\* notifyd counts the alarm it waited for as sent.
Sent(u) ==
  /\ pc = "alarm_wait" /\ replied /\ Service = u
  /\ sent_to'[u] = current.number
  /\ requests'[u] = requests[u] /\ playing'[u] = playing[u] /\ SameHandled(u)

Happens(u) ==
  \/ Still(u) \/ Dies(u) \/ Sent(u)
  \/ \E r \in Requests : Handles(u, r) \/ Asked(u, r)

\* Every step is one of these for each service.
LEMMA WhatHappens ==
  ASSUME TypesOK, [Next]_vars, NEW u \in Services
  PROVE  Happens(u)
<1>1. CASE Start
  BY <1>1 DEF Start, services, Happens, Still, SameHandled
<1>2. CASE Crash
  BY <1>2 DEF Crash, NoHandler, services, Happens, Still, SameHandled
<1>3. CASE handle_signal
  BY <1>3 DEF handle_signal, services, Happens, Still, SameHandled
<1>4. CASE Register
  BY <1>4 DEF Register, services, Happens, Still, SameHandled
<1>5. CASE LeaveLoop
  BY <1>5 DEF LeaveLoop, services, Happens, Still, SameHandled
<1>6. CASE ReceiveEvent
  BY <1>6 DEF ReceiveEvent, services, Happens, Still, SameHandled
<1>7. CASE NextAction
  BY <1>7 DEF NextAction, services, Happens, Still, SameHandled
<1>8. CASE LookupFails
  BY <1>8 DEF LookupFails, Error, services, Happens, Still, SameHandled
<1>9. CASE Lookup
  BY <1>9 DEF Lookup, services, Happens, Still, SameHandled
<1>10. CASE InvokeCancel
  <2>1. CASE /\ Reachable /\ invoke("cancel_alarm") /\ UNCHANGED <<sent_to, action, current>>
             /\ pc' = "cancel_wait"
    <3>1. PICK r \in Requests :
            /\ r.method = "cancel_alarm" /\ r.number = current.number
            /\ requests' = [requests EXCEPT ![Service] = Append(@, r)]
            /\ Service \in Services
      BY <1>10, <2>1, Types, InvokeAdds DEF InvokeCancel, ServicePcs
    <3>2. Service = u => Asked(u, r)
      BY <1>10, <2>1, <3>1 DEF InvokeCancel, Asked, SameHandled, TypesOK, ServicesOK
    <3>3. Service # u => Still(u)
      BY <1>10, <2>1, <3>1 DEF InvokeCancel, Still, SameHandled, TypesOK, ServicesOK
    <3> QED BY <3>2, <3>3 DEF Happens
  <2>2. CASE UNCHANGED requests /\ UNCHANGED sent_to
    BY <1>10, <2>2 DEF InvokeCancel, Happens, Still, SameHandled
  <2> QED BY <1>10, <2>1, <2>2 DEF InvokeCancel
<1>11. CASE CancelReturns
  BY <1>11 DEF CancelReturns, services, Happens, Still, SameHandled
<1>12. CASE InvokeAlarm
  <2>1. CASE /\ Reachable /\ invoke("alarm") /\ UNCHANGED <<sent_to, action, current>>
             /\ pc' = "alarm_wait"
    <3>1. PICK r \in Requests :
            /\ r.method = "alarm" /\ r.number = current.number
            /\ requests' = [requests EXCEPT ![Service] = Append(@, r)]
            /\ Service \in Services
      BY <1>12, <2>1, Types, InvokeAdds DEF InvokeAlarm, ServicePcs
    <3>2. Service = u => Asked(u, r)
      BY <1>12, <2>1, <3>1 DEF InvokeAlarm, Asked, SameHandled, TypesOK, ServicesOK
    <3>3. Service # u => Still(u)
      BY <1>12, <2>1, <3>1 DEF InvokeAlarm, Still, SameHandled, TypesOK, ServicesOK
    <3> QED BY <3>2, <3>3 DEF Happens
  <2>2. CASE UNCHANGED requests /\ UNCHANGED sent_to
    BY <1>12, <2>2 DEF InvokeAlarm, Happens, Still, SameHandled
  <2> QED BY <1>12, <2>1, <2>2 DEF InvokeAlarm, Error
<1>13. CASE AlarmReturns
  <2>1. Service \in Services
    BY <1>13, Registry DEF AlarmReturns, TypesOK, ControlOK, Service, ServicePcs
  <2>2. CASE replied /\ Accepted
    <3>1. Service = u => Sent(u)
      BY <1>13, <2>2 DEF AlarmReturns, Accepted, services, Sent, SameHandled, TypesOK, ServicesOK
    <3>2. Service # u => Still(u)
      BY <1>13, <2>1, <2>2
      DEF AlarmReturns, Accepted, services, Still, SameHandled, TypesOK, ServicesOK
    <3> QED BY <3>1, <3>2 DEF Happens
  <2>3. CASE Error
    BY <1>13, <2>3 DEF AlarmReturns, Error, services, Happens, Still, SameHandled
  <2> QED BY <1>13, <2>2, <2>3 DEF AlarmReturns
<1>14. CASE Classify
  BY <1>14 DEF Classify, NoHandler, services, Happens, Still, SameHandled
<1>15. ASSUME NEW e \in Events, Publish(e) PROVE Happens(u)
  BY <1>15 DEF Publish, services, Happens, Still, SameHandled
<1>16. ASSUME NEW s \in Services, ServiceHandles(s) PROVE Happens(u)
  <2>1. requests[s] \in Seq(Requests) /\ requests[s] # <<>>
    BY <1>16 DEF ServiceHandles, TypesOK, ServicesOK
  <2>2. PICK r \in Requests : r = Head(requests[s])
    BY <2>1, TailFacts
  <2>3. CASE u = s
    <3>1. requests'[u] = Tail(requests[u]) /\ sent_to'[u] = sent_to[u]
      BY <1>16, <2>3 DEF ServiceHandles, TypesOK, ServicesOK
    <3>2. CASE /\ r.method = "cancel_alarm"
               /\ playing' = [playing EXCEPT ![s] = 0] /\ UNCHANGED handled
      BY <2>1, <2>2, <2>3, <3>1, <3>2 DEF Happens, Handles, SameHandled, TypesOK, ServicesOK
    <3>3. CASE /\ r.method = "alarm" /\ handled' = handled \cup {<<s, r.number>>}
               /\ \E n \in {0, r.number} : playing' = [playing EXCEPT ![s] = n]
      <4>1. playing'[u] \in {0, r.number}
        BY <2>3, <3>3 DEF TypesOK, ServicesOK
      <4>2. \A n \in Nat : <<u, n>> \in handled' <=> <<u, n>> \in handled \/ n = r.number
        BY <2>3, <3>3
      <4> QED BY <2>1, <2>2, <2>3, <3>1, <3>3, <4>1, <4>2 DEF Happens, Handles
    <3> QED BY <1>16, <2>2, <3>2, <3>3 DEF ServiceHandles
  <2>4. CASE u # s
    <3>1. requests'[u] = requests[u] /\ sent_to'[u] = sent_to[u]
      BY <1>16, <2>4 DEF ServiceHandles, TypesOK, ServicesOK
    <3>2. playing'[u] = playing[u]
      BY <1>16, <2>4 DEF ServiceHandles, TypesOK, ServicesOK
    <3>3. SameHandled(u)
      BY <1>16, <2>4 DEF ServiceHandles, SameHandled
    <3> QED BY <3>1, <3>2, <3>3 DEF Happens, Still
  <2> QED BY <2>3, <2>4
<1>17. ASSUME NEW s \in Services, ServiceDies(s) PROVE Happens(u)
  BY <1>17 DEF ServiceDies, Happens, Dies, Still, SameHandled, TypesOK, ServicesOK
<1>18. ASSUME NEW s \in Services, ServiceReturns(s) PROVE Happens(u)
  BY <1>18 DEF ServiceReturns, services, Happens, Still, SameHandled
<1>19. CASE UNCHANGED vars
  BY <1>19 DEF vars, services, Happens, Still, SameHandled
<1> QED BY <1>1, <1>2, <1>3, <1>4, <1>5, <1>6, <1>7, <1>8, <1>9, <1>10,
       <1>11, <1>12, <1>13, <1>14, <1>15, <1>16, <1>17, <1>18,
       <1>19
       DEF Next, MainStep

-----------------------------------------------------------------------------
(***************************************************************************)
(* The order of the numbers: what was handled, sent or is in a service's   *)
(* queue is not newer than the event being handled, and that is older than *)
(* whatever still waits in the inbox.                                      *)
(***************************************************************************)
Seen(n) ==
  /\ n <= published
  /\ \A k \in DOMAIN inbox : n < inbox[k].number
  /\ pc \in HandlerPcs => n <= current.number

SeenAfter(n) ==
  /\ n <= published'
  /\ \A k \in DOMAIN inbox' : n < inbox'[k].number
  /\ pc' \in HandlerPcs => n <= current'.number

InboxOrder ==
  /\ \A j, k \in DOMAIN inbox : j < k => inbox[j].number < inbox[k].number
  /\ pc \in HandlerPcs => \A k \in DOMAIN inbox : current.number < inbox[k].number

OrderInv ==
  /\ InboxOrder
  /\ \A s \in Services :
       /\ Seen(sent_to[s])
       /\ \A i \in DOMAIN requests[s] : Seen(requests[s][i].number)
       /\ \A n \in Nat : <<s, n>> \in handled => Seen(n)

\* The numbers are natural numbers.
LEMMA Numbers ==
  ASSUME TypesOK
  PROVE  /\ published \in Nat
         /\ \A k \in DOMAIN inbox : k \in Nat /\ inbox[k].number \in Nat /\ inbox[k] \in Numbered
         /\ pc \in HandlerPcs => current.number \in Nat
         /\ \A s \in Services :
              /\ sent_to[s] \in Nat /\ playing[s] \in Nat
              /\ \A i \in DOMAIN requests[s] :
                   /\ i \in Nat /\ requests[s][i] \in Requests
                   /\ requests[s][i].number \in Nat \ {0}
                   /\ requests[s][i].method \in {"alarm", "cancel_alarm"}
<1>1. published \in Nat
  BY DEF TypesOK, CountOK
<1>2. \A k \in DOMAIN inbox : k \in Nat /\ inbox[k].number \in Nat /\ inbox[k] \in Numbered
  BY NumberedFacts DEF TypesOK, InboxOK
<1>3. pc \in HandlerPcs => current.number \in Nat
  BY NumberedFacts DEF TypesOK, ControlOK
<1>4. ASSUME NEW s \in Services
      PROVE  /\ sent_to[s] \in Nat /\ playing[s] \in Nat
             /\ \A i \in DOMAIN requests[s] :
                  /\ i \in Nat /\ requests[s][i] \in Requests
                  /\ requests[s][i].number \in Nat \ {0}
                  /\ requests[s][i].method \in {"alarm", "cancel_alarm"}
  <2>1. sent_to[s] \in Nat /\ playing[s] \in Nat
    BY DEF TypesOK, ServicesOK, CountOK
  <2>2. \A i \in DOMAIN requests[s] : i \in Nat /\ requests[s][i] \in Requests
    BY DEF TypesOK, ServicesOK
  <2> QED BY <2>1, <2>2, RequestFacts
<1> QED BY <1>1, <1>2, <1>3, <1>4

\* What was seen stays seen.
LEMMA SeenKept ==
  ASSUME TypesOK, [Next]_vars
  PROVE  \A n \in Nat : Seen(n) => SeenAfter(n)
<1>1. CASE Start
  BY <1>1 DEF Start, handler, Seen, SeenAfter, HandlerPcs
<1>2. CASE Crash
  BY <1>2 DEF Crash, Seen, SeenAfter, HandlerPcs
<1>3. CASE handle_signal
  BY <1>3 DEF handle_signal, handler, Seen, SeenAfter, HandlerPcs
<1>4. CASE Register
  BY <1>4 DEF Register, handler, Seen, SeenAfter, HandlerPcs
<1>5. CASE LeaveLoop
  BY <1>5 DEF LeaveLoop, handler, Seen, SeenAfter, HandlerPcs
<1>6. CASE ReceiveEvent
  <2>1. /\ inbox \in Seq(Numbered) /\ inbox # <<>> /\ inbox' = Tail(inbox)
        /\ UNCHANGED published
    BY <1>6 DEF ReceiveEvent, TypesOK, InboxOK
  <2>2. pc' \in HandlerPcs => current' = inbox[1]
    BY <1>6, <2>1, TailFacts DEF ReceiveEvent, HandlerPcs
  <2>3. ASSUME NEW n \in Nat, Seen(n) PROVE SeenAfter(n)
    <3>1. n < inbox[1].number /\ inbox[1].number \in Nat
      BY <2>1, <2>3, TailFacts, Numbers DEF Seen
    <3>2. \A k \in DOMAIN inbox' : n < inbox'[k].number
      BY <2>1, <2>3, TailFacts DEF Seen
    <3> QED BY <2>1, <2>2, <2>3, <3>1, <3>2 DEF Seen, SeenAfter
  <2> QED BY <2>3
<1>7. CASE NextAction
  BY <1>7 DEF NextAction, handler, Seen, SeenAfter, HandlerPcs
<1>8. CASE LookupFails
  BY <1>8 DEF LookupFails, Error, handler, Seen, SeenAfter, HandlerPcs
<1>9. CASE Lookup
  BY <1>9 DEF Lookup, handler, Seen, SeenAfter, HandlerPcs
<1>10. CASE InvokeCancel
  BY <1>10 DEF InvokeCancel, handler, Seen, SeenAfter, HandlerPcs
<1>11. CASE CancelReturns
  BY <1>11 DEF CancelReturns, handler, Seen, SeenAfter, HandlerPcs
<1>12. CASE InvokeAlarm
  BY <1>12 DEF InvokeAlarm, Error, handler, Seen, SeenAfter, HandlerPcs
<1>13. CASE AlarmReturns
  BY <1>13 DEF AlarmReturns, Accepted, Error, handler, Seen, SeenAfter, HandlerPcs
<1>14. CASE Classify
  BY <1>14 DEF Classify, NoHandler, handler, Seen, SeenAfter, HandlerPcs
<1>15. ASSUME NEW e \in Events, Publish(e) PROVE \A n \in Nat : Seen(n) => SeenAfter(n)
  <2>1. published \in Nat /\ published' = published + 1 /\ UNCHANGED <<pc, current>>
    BY <1>15, Numbers DEF Publish, handler
  <2>2. CASE inbox' = inbox
    BY <2>1, <2>2 DEF Seen, SeenAfter
  <2>3. CASE inbox' # inbox
    <3>1. PICK x \in Numbered : x.number = published + 1 /\ inbox' = Append(inbox, x)
      BY <1>15, <2>1, <2>3 DEF Publish, Numbered
    <3>2. ASSUME NEW n \in Nat, Seen(n), NEW k \in DOMAIN inbox' PROVE n < inbox'[k].number
      BY <2>1, <3>1, <3>2, AppendFacts DEF Seen, TypesOK, InboxOK
    <3> QED BY <2>1, <3>2 DEF Seen, SeenAfter
  <2> QED BY <2>2, <2>3
<1>16. ASSUME NEW s \in Services, ServiceHandles(s) PROVE \A n \in Nat : Seen(n) => SeenAfter(n)
  BY <1>16 DEF ServiceHandles, handler, Seen, SeenAfter, HandlerPcs
<1>17. ASSUME NEW s \in Services, ServiceDies(s) PROVE \A n \in Nat : Seen(n) => SeenAfter(n)
  BY <1>17 DEF ServiceDies, handler, Seen, SeenAfter, HandlerPcs
<1>18. ASSUME NEW s \in Services, ServiceReturns(s) PROVE \A n \in Nat : Seen(n) => SeenAfter(n)
  BY <1>18 DEF ServiceReturns, handler, Seen, SeenAfter, HandlerPcs
<1>19. CASE UNCHANGED vars
  BY <1>19 DEF vars, handler, Seen, SeenAfter, HandlerPcs
<1> QED BY <1>1, <1>2, <1>3, <1>4, <1>5, <1>6, <1>7, <1>8, <1>9, <1>10,
       <1>11, <1>12, <1>13, <1>14, <1>15, <1>16, <1>17, <1>18,
       <1>19
       DEF Next, MainStep

\* Events stay in the order in which they were published.
LEMMA InboxOrdered ==
  ASSUME TypesOK, InboxOrder, [Next]_vars
  PROVE  InboxOrder'
<1>1. CASE Start
  BY <1>1 DEF Start, handler, InboxOrder, HandlerPcs
<1>2. CASE Crash
  <2>1. inbox' = <<>> /\ pc' \notin HandlerPcs
    BY <1>2 DEF Crash, NoHandler, HandlerPcs
  <2> QED BY <2>1 DEF InboxOrder
<1>3. CASE handle_signal
  BY <1>3 DEF handle_signal, handler, InboxOrder, HandlerPcs
<1>4. CASE Register
  BY <1>4 DEF Register, handler, InboxOrder, HandlerPcs
<1>5. CASE LeaveLoop
  <2>1. inbox' = <<>> /\ pc' \notin HandlerPcs
    BY <1>5 DEF LeaveLoop, HandlerPcs
  <2> QED BY <2>1 DEF InboxOrder
<1>6. CASE ReceiveEvent
  <2>1. /\ inbox \in Seq(Numbered) /\ inbox # <<>> /\ inbox' = Tail(inbox)
    BY <1>6 DEF ReceiveEvent, TypesOK, InboxOK
  <2>2. pc' \in HandlerPcs => current' = inbox[1]
    BY <1>6, <2>1, TailFacts DEF ReceiveEvent, HandlerPcs
  <2>3. \A j, k \in DOMAIN inbox' : j < k => inbox'[j].number < inbox'[k].number
    <3>1. \A k \in DOMAIN inbox' : k + 1 \in DOMAIN inbox /\ inbox'[k] = inbox[k + 1] /\ k \in Nat
      BY <2>1, TailFacts
    <3> QED BY <3>1 DEF InboxOrder
  <2>4. \A k \in DOMAIN inbox' : inbox[1].number < inbox'[k].number
    <3>1. \A k \in DOMAIN inbox' : /\ k + 1 \in DOMAIN inbox /\ inbox'[k] = inbox[k + 1]
                                   /\ k \in Nat /\ 1 < k + 1 /\ 1 \in DOMAIN inbox
      BY <2>1, TailFacts
    <3> QED BY <3>1 DEF InboxOrder
  <2> QED BY <2>2, <2>3, <2>4 DEF InboxOrder
<1>7. CASE NextAction
  BY <1>7 DEF NextAction, handler, InboxOrder, HandlerPcs
<1>8. CASE LookupFails
  BY <1>8 DEF LookupFails, Error, handler, InboxOrder, HandlerPcs
<1>9. CASE Lookup
  BY <1>9 DEF Lookup, handler, InboxOrder, HandlerPcs
<1>10. CASE InvokeCancel
  BY <1>10 DEF InvokeCancel, handler, InboxOrder, HandlerPcs
<1>11. CASE CancelReturns
  BY <1>11 DEF CancelReturns, handler, InboxOrder, HandlerPcs
<1>12. CASE InvokeAlarm
  BY <1>12 DEF InvokeAlarm, Error, handler, InboxOrder, HandlerPcs
<1>13. CASE AlarmReturns
  BY <1>13 DEF AlarmReturns, Accepted, Error, handler, InboxOrder, HandlerPcs
<1>14. CASE Classify
  BY <1>14 DEF Classify, NoHandler, handler, InboxOrder, HandlerPcs
<1>15. ASSUME NEW e \in Events, Publish(e) PROVE InboxOrder'
  <2>1. published \in Nat /\ UNCHANGED <<pc, current>>
    BY <1>15, Numbers DEF Publish, handler
  <2>2. CASE inbox' = inbox
    BY <2>1, <2>2 DEF InboxOrder
  <2>3. CASE inbox' # inbox
    <3>1. PICK x \in Numbered : x.number = published + 1 /\ inbox' = Append(inbox, x)
      BY <1>15, <2>1, <2>3 DEF Publish, Numbered
    <3>2. inbox \in Seq(Numbered) /\ \A k \in DOMAIN inbox : inbox[k].number \in 1 .. published
      BY DEF TypesOK, InboxOK
    <3>3. \A j, k \in DOMAIN inbox' : j < k => inbox'[j].number < inbox'[k].number
      <4>1. ASSUME NEW j \in DOMAIN inbox', NEW k \in DOMAIN inbox', j < k
            PROVE  inbox'[j].number < inbox'[k].number
        <5>1. j \in DOMAIN inbox /\ inbox'[j] = inbox[j]
          BY <3>1, <3>2, <4>1, AppendFacts
        <5>2. CASE k \in DOMAIN inbox
          BY <3>1, <3>2, <4>1, <5>1, <5>2, AppendFacts DEF InboxOrder
        <5>3. CASE k \notin DOMAIN inbox
          BY <2>1, <3>1, <3>2, <5>1, <5>3, AppendFacts
        <5> QED BY <5>2, <5>3
      <4> QED BY <4>1
    <3>4. pc \in HandlerPcs => \A k \in DOMAIN inbox' : current.number < inbox'[k].number
      <4>1. ASSUME pc \in HandlerPcs, NEW k \in DOMAIN inbox'
            PROVE  current.number < inbox'[k].number
        <5>1. current.number <= published /\ current.number \in Nat
          BY <4>1, Numbers DEF TypesOK, KnownOK
        <5> QED BY <2>1, <3>1, <3>2, <4>1, <5>1, AppendFacts DEF InboxOrder
      <4> QED BY <4>1
    <3> QED BY <2>1, <3>3, <3>4 DEF InboxOrder
  <2> QED BY <2>2, <2>3
<1>16. ASSUME NEW s \in Services, ServiceHandles(s) PROVE InboxOrder'
  BY <1>16 DEF ServiceHandles, handler, InboxOrder, HandlerPcs
<1>17. ASSUME NEW s \in Services, ServiceDies(s) PROVE InboxOrder'
  BY <1>17 DEF ServiceDies, handler, InboxOrder, HandlerPcs
<1>18. ASSUME NEW s \in Services, ServiceReturns(s) PROVE InboxOrder'
  BY <1>18 DEF ServiceReturns, handler, InboxOrder, HandlerPcs
<1>19. CASE UNCHANGED vars
  BY <1>19 DEF vars, handler, InboxOrder, HandlerPcs
<1> QED BY <1>1, <1>2, <1>3, <1>4, <1>5, <1>6, <1>7, <1>8, <1>9, <1>10,
       <1>11, <1>12, <1>13, <1>14, <1>15, <1>16, <1>17, <1>18,
       <1>19
       DEF Next, MainStep

\* The numbers stay in order.
LEMMA OrderStep ==
  ASSUME TypesOK, OrderInv, [Next]_vars
  PROVE  OrderInv'
<1>1. InboxOrder'
  BY InboxOrdered DEF OrderInv
<1>2. ASSUME NEW u \in Services
      PROVE  /\ SeenAfter(sent_to'[u])
             /\ \A i \in DOMAIN requests'[u] : SeenAfter(requests'[u][i].number)
             /\ \A n \in Nat : <<u, n>> \in handled' => SeenAfter(n)
  <2>1. /\ SeenAfter(sent_to[u])
        /\ \A i \in DOMAIN requests[u] : SeenAfter(requests[u][i].number)
        /\ \A n \in Nat : <<u, n>> \in handled => SeenAfter(n)
    BY SeenKept, Numbers DEF OrderInv
  <2>2. pc \in HandlerPcs => SeenAfter(current.number)
    <3>1. pc \in HandlerPcs => Seen(current.number) /\ current.number \in Nat
      BY Numbers DEF OrderInv, InboxOrder, Seen, TypesOK, KnownOK
    <3> QED BY <3>1, SeenKept
  <2>3. requests[u] \in Seq(Requests)
    BY DEF TypesOK, ServicesOK
  <2>4. CASE Still(u)
    BY <2>1, <2>4 DEF Still, SameHandled
  <2>5. CASE Dies(u)
    BY <2>1, <2>5 DEF Dies, SameHandled
  <2>6. CASE Sent(u)
    BY <2>1, <2>2, <2>6 DEF Sent, SameHandled, HandlerPcs
  <2>7. ASSUME NEW r \in Requests, Handles(u, r)
        PROVE  /\ SeenAfter(sent_to'[u])
               /\ \A i \in DOMAIN requests'[u] : SeenAfter(requests'[u][i].number)
               /\ \A n \in Nat : <<u, n>> \in handled' => SeenAfter(n)
    <3>1. \A i \in DOMAIN requests'[u] : SeenAfter(requests'[u][i].number)
      BY <2>1, <2>3, <2>7, TailFacts DEF Handles
    <3>2. SeenAfter(r.number)
      BY <2>1, <2>3, <2>7, TailFacts DEF Handles
    <3> QED BY <2>1, <2>7, <3>1, <3>2 DEF Handles, SameHandled
  <2>8. ASSUME NEW r \in Requests, Asked(u, r)
        PROVE  /\ SeenAfter(sent_to'[u])
               /\ \A i \in DOMAIN requests'[u] : SeenAfter(requests'[u][i].number)
               /\ \A n \in Nat : <<u, n>> \in handled' => SeenAfter(n)
    <3>1. SeenAfter(r.number)
      BY <2>2, <2>8 DEF Asked, HandlerPcs
    <3>2. \A i \in DOMAIN requests'[u] : SeenAfter(requests'[u][i].number)
      BY <2>1, <2>3, <2>8, <3>1, AppendFacts DEF Asked
    <3> QED BY <2>1, <2>8, <3>2 DEF Asked, SameHandled
  <2> QED BY <2>4, <2>5, <2>6, <2>7, <2>8, WhatHappens DEF Happens
<1> QED BY <1>1, <1>2 DEF OrderInv, Seen, SeenAfter

-----------------------------------------------------------------------------
(***************************************************************************)
(* The queue of each service, and what a reply means.                      *)
(***************************************************************************)
\* Its requests are in the order of the events, and neither they nor what it
\* plays are older than what was counted as sent.
QueueAt(u) ==
  /\ \A i, j \in DOMAIN requests[u] :
       i < j => requests[u][i].number <= requests[u][j].number
  /\ \A i \in DOMAIN requests[u] : sent_to[u] <= requests[u][i].number
  /\ playing[u] # 0 => playing[u] >= sent_to[u]
  /\ sent_to[u] # 0 => <<u, sent_to[u]>> \in handled

\* A reply means that the alarm was handled, and nothing older is left.
ReplyAt(u) ==
  pc = "alarm_wait" /\ replied /\ Service = u =>
    /\ <<u, current.number>> \in handled
    /\ playing[u] # 0 => playing[u] >= current.number
    /\ \A i \in DOMAIN requests[u] : requests[u][i].number >= current.number

QueueInv == \A u \in Services : QueueAt(u) /\ ReplyAt(u)

\* The wait for the reply to an alarm goes on, and it comes with that alarm.
WaitGoesOn ==
  pc' = "alarm_wait" /\ replied' =>
    /\ pc = "alarm_wait" /\ Service' = Service /\ current' = current
    /\ replied \/ \E r \in Requests : Handles(Service, r) /\ r.method = "alarm"
                                      /\ r.number = current.number

\* An alarm's reply comes when its request is handled.
LEMMA ReplyComes ==
  ASSUME TypesOK, [Next]_vars
  PROVE  WaitGoesOn
<1>1. CASE Start
  BY <1>1 DEF Start, handler, WaitGoesOn, Service
<1>2. CASE Crash
  BY <1>2 DEF Crash, NoHandler, handler, WaitGoesOn, Service
<1>3. CASE handle_signal
  BY <1>3 DEF handle_signal, handler, WaitGoesOn, Service
<1>4. CASE Register
  BY <1>4 DEF Register, handler, WaitGoesOn, Service
<1>5. CASE LeaveLoop
  BY <1>5 DEF LeaveLoop, handler, WaitGoesOn, Service
<1>6. CASE ReceiveEvent
  BY <1>6 DEF ReceiveEvent, handler, WaitGoesOn, Service
<1>7. CASE NextAction
  BY <1>7 DEF NextAction, handler, WaitGoesOn, Service
<1>8. CASE LookupFails
  BY <1>8 DEF LookupFails, Error, handler, WaitGoesOn, Service
<1>9. CASE Lookup
  BY <1>9 DEF Lookup, handler, WaitGoesOn, Service
<1>10. CASE InvokeCancel
  BY <1>10 DEF InvokeCancel, handler, WaitGoesOn, Service
<1>11. CASE CancelReturns
  BY <1>11 DEF CancelReturns, handler, WaitGoesOn, Service
<1>12. CASE InvokeAlarm
  <2>1. CASE Error
    BY <1>12, <2>1 DEF Error, WaitGoesOn
  <2>2. CASE replied' = FALSE
    BY <2>2 DEF WaitGoesOn
  <2> QED BY <1>12, <2>1, <2>2 DEF InvokeAlarm, invoke
<1>13. CASE AlarmReturns
  BY <1>13 DEF AlarmReturns, Accepted, Error, handler, WaitGoesOn, Service
<1>14. CASE Classify
  BY <1>14 DEF Classify, NoHandler, handler, WaitGoesOn, Service
<1>15. ASSUME NEW e \in Events, Publish(e) PROVE WaitGoesOn
  BY <1>15 DEF Publish, handler, WaitGoesOn, Service
<1>16. ASSUME NEW s \in Services, ServiceHandles(s) PROVE WaitGoesOn
  <2>1. SUFFICES ASSUME pc' = "alarm_wait", replied', ~replied
                 PROVE  \E r \in Requests : Handles(Service, r) /\ r.method = "alarm"
                                            /\ r.number = current.number
    BY <1>16 DEF ServiceHandles, WaitGoesOn, Service
  <2>2. requests[s] \in Seq(Requests) /\ requests[s] # <<>>
    BY <1>16 DEF ServiceHandles, TypesOK, ServicesOK
  <2>3. PICK r \in Requests : r = Head(requests[s])
    BY <2>2, TailFacts
  <2>4. Outstanding(s, r) /\ pc = "alarm_wait"
    BY <1>16, <2>1, <2>3 DEF ServiceHandles
  <2>5. Service = s /\ r.number = current.number /\ r.method = "alarm"
    BY <2>4, <2>3, RequestFacts DEF Outstanding
  <2>6. /\ handled' = handled \cup {<<s, r.number>>}
        /\ \E n \in {0, r.number} : playing' = [playing EXCEPT ![s] = n]
    BY <1>16, <2>3, <2>5 DEF ServiceHandles
  <2>7. Handles(s, r)
    <3>1. requests'[s] = Tail(requests[s]) /\ sent_to'[s] = sent_to[s]
      BY <1>16 DEF ServiceHandles, TypesOK, ServicesOK
    <3>2. playing'[s] \in {0, r.number}
      BY <2>6 DEF TypesOK, ServicesOK
    <3> QED BY <2>2, <2>3, <2>5, <2>6, <3>1, <3>2 DEF Handles
  <2> QED BY <2>5, <2>7
<1>17. ASSUME NEW s \in Services, ServiceDies(s) PROVE WaitGoesOn
  BY <1>17 DEF ServiceDies, handler, WaitGoesOn, Service
<1>18. ASSUME NEW s \in Services, ServiceReturns(s) PROVE WaitGoesOn
  BY <1>18 DEF ServiceReturns, handler, WaitGoesOn, Service
<1>19. CASE UNCHANGED vars
  BY <1>19 DEF vars, handler, WaitGoesOn, Service
<1> QED BY <1>1, <1>2, <1>3, <1>4, <1>5, <1>6, <1>7, <1>8, <1>9, <1>10,
       <1>11, <1>12, <1>13, <1>14, <1>15, <1>16, <1>17, <1>18,
       <1>19
       DEF Next, MainStep

\* A step keeps the order of each queue.
LEMMA QueueStep ==
  ASSUME TypesOK, OrderInv, QueueInv, [Next]_vars
  PROVE  QueueInv'
<1> SUFFICES ASSUME NEW u \in Services PROVE QueueAt(u)' /\ ReplyAt(u)'
  BY DEF QueueInv
<1>1. requests[u] \in Seq(Requests) /\ QueueAt(u) /\ ReplyAt(u)
  BY DEF TypesOK, ServicesOK, QueueInv
<1>2. /\ sent_to[u] \in Nat /\ playing[u] \in Nat
      /\ \A i \in DOMAIN requests[u] : i \in Nat /\ requests[u][i].number \in Nat
      /\ pc \in HandlerPcs => current.number \in Nat
  BY Numbers
<1>3. WaitGoesOn
  BY ReplyComes
<1>4. CASE Still(u)
  <2>1. QueueAt(u)'
    BY <1>1, <1>2, <1>4 DEF Still, SameHandled, QueueAt
  <2>2. ASSUME (pc = "alarm_wait" /\ replied /\ Service = u)' PROVE replied
    <3>1. ASSUME NEW r \in Requests, Handles(u, r), r.method = "alarm", r.number = current.number
          PROVE  FALSE
      <4>1. requests[u] # <<>> /\ Tail(requests[u]) = requests[u]
        BY <1>4, <3>1 DEF Still, Handles
      <4>2. Len(requests[u]) \in Nat
        BY <1>1
      <4>3. Len(Tail(requests[u])) = Len(requests[u]) - 1
        BY <1>1, <4>1, HeadTailProperties
      <4>4. Len(Tail(requests[u])) = Len(requests[u])
        BY <4>1, Zenon
      <4>5. \A n \in Nat : n # n - 1
        OBVIOUS
      <4> QED BY <4>2, <4>3, <4>4, <4>5, Zenon
    <3> QED BY <1>3, <2>2, <3>1 DEF WaitGoesOn
  <2>3. ReplyAt(u)'
    <3>1. SUFFICES ASSUME (pc = "alarm_wait" /\ replied /\ Service = u)'
                   PROVE  /\ <<u, current'.number>> \in handled'
                          /\ playing'[u] # 0 => playing'[u] >= current'.number
                          /\ \A i \in DOMAIN requests'[u] :
                               requests'[u][i].number >= current'.number
      BY DEF ReplyAt
    <3>2. pc = "alarm_wait" /\ replied /\ Service = u /\ current' = current
      BY <1>3, <2>2, <3>1 DEF WaitGoesOn
    <3>3. current.number \in Nat
      BY <1>2, <3>2 DEF HandlerPcs
    <3> QED BY <1>1, <1>4, <3>2, <3>3 DEF Still, SameHandled, ReplyAt
  <2> QED BY <2>1, <2>3
<1>5. CASE Dies(u)
  <2>1. DOMAIN requests'[u] = {}
    BY <1>5, EmptySeq DEF Dies
  <2>2. QueueAt(u)'
    BY <1>1, <1>2, <1>5, <2>1 DEF Dies, SameHandled, QueueAt
  <2>3. ASSUME (pc = "alarm_wait" /\ replied /\ Service = u)'
        PROVE  <<u, current'.number>> \in handled'
    <3>1. pc = "alarm_wait" /\ Service = u /\ current' = current
      BY <1>3, <2>3 DEF WaitGoesOn
    <3>2. current.number \in Nat
      BY <1>2, <3>1 DEF HandlerPcs
    <3>3. CASE replied
      BY <1>1, <1>5, <3>1, <3>2, <3>3 DEF Dies, SameHandled, ReplyAt
    <3>4. ASSUME NEW r \in Requests, Handles(u, r), r.method = "alarm", r.number = current.number
          PROVE  <<u, current'.number>> \in handled'
      BY <3>1, <3>2, <3>4 DEF Handles
    <3> QED BY <1>3, <2>3, <3>1, <3>3, <3>4 DEF WaitGoesOn
  <2> QED BY <1>5, <2>1, <2>2, <2>3 DEF Dies, ReplyAt
<1>6. CASE Sent(u)
  <2>1. current.number \in Nat
    BY <1>2, <1>6 DEF Sent, HandlerPcs
  <2>2. /\ <<u, current.number>> \in handled
        /\ playing[u] # 0 => playing[u] >= current.number
        /\ \A i \in DOMAIN requests[u] : requests[u][i].number >= current.number
    BY <1>1, <1>6 DEF Sent, ReplyAt
  <2>3. QueueAt(u)'
    BY <1>1, <1>2, <1>6, <2>1, <2>2 DEF Sent, SameHandled, QueueAt
  <2>4. ReplyAt(u)'
    BY <1>3, <1>6, <2>1, <2>2 DEF Sent, SameHandled, WaitGoesOn, ReplyAt
  <2> QED BY <2>3, <2>4
<1>7. ASSUME NEW r \in Requests, Handles(u, r) PROVE QueueAt(u)' /\ ReplyAt(u)'
  <2> DEFINE q == requests[u]
  <2>1. /\ r = q[1] /\ 1 \in DOMAIN q /\ requests'[u] = Tail(q)
        /\ \A k \in DOMAIN Tail(q) : k \in Nat /\ k + 1 \in DOMAIN q /\ Tail(q)[k] = q[k + 1]
    BY <1>1, <1>7, TailFacts DEF Handles
  <2>2. r.number \in Nat /\ sent_to[u] <= r.number
    BY <1>1, <1>2, <2>1 DEF QueueAt
  <2>3. \A k \in DOMAIN Tail(q) : r.number <= Tail(q)[k].number /\ Tail(q)[k].number \in Nat
    <3>1. \A k \in DOMAIN Tail(q) : 1 < k + 1
      BY <2>1
    <3> QED BY <1>1, <1>2, <2>1, <3>1 DEF QueueAt
  <2>4. \A i, j \in DOMAIN Tail(q) : i < j => Tail(q)[i].number <= Tail(q)[j].number
    <3>1. \A i, j \in DOMAIN Tail(q) : i < j => i + 1 < j + 1
      BY <2>1
    <3> QED BY <1>1, <2>1, <3>1 DEF QueueAt
  <2>5. /\ sent_to'[u] = sent_to[u] /\ playing'[u] \in {0, r.number}
        /\ \A n \in Nat : <<u, n>> \in handled => <<u, n>> \in handled'
        /\ r.method = "alarm" => <<u, r.number>> \in handled'
    BY <1>7, <2>2 DEF Handles, SameHandled
  <2>6. \A i \in DOMAIN Tail(q) : sent_to[u] <= Tail(q)[i].number
    BY <1>2, <2>2, <2>3
  <2>7. QueueAt(u)'
    BY <1>1, <1>2, <2>1, <2>2, <2>4, <2>5, <2>6 DEF QueueAt
  <2>8. ReplyAt(u)'
    <3>1. SUFFICES ASSUME (pc = "alarm_wait" /\ replied /\ Service = u)'
                   PROVE  /\ <<u, current'.number>> \in handled'
                          /\ playing'[u] # 0 => playing'[u] >= current'.number
                          /\ \A i \in DOMAIN requests'[u] :
                               requests'[u][i].number >= current'.number
      BY DEF ReplyAt
    <3>2. pc = "alarm_wait" /\ Service = u /\ current' = current
      BY <1>3, <3>1 DEF WaitGoesOn
    <3>3. current.number \in Nat
      BY <1>2, <3>2 DEF HandlerPcs
    <3>4. CASE replied
      <4>1. <<u, current.number>> \in handled /\ r.number >= current.number
        BY <1>1, <2>1, <3>2, <3>4 DEF ReplyAt
      <4> QED BY <2>1, <2>2, <2>3, <2>5, <3>2, <3>3, <4>1
    <3>5. CASE ~replied
      <4>1. r.method = "alarm" /\ r.number = current.number
        BY <1>3, <1>7, <3>1, <3>2, <3>5 DEF WaitGoesOn, Handles
      <4> QED BY <2>1, <2>2, <2>3, <2>5, <3>2, <4>1
    <3> QED BY <3>4, <3>5
  <2> QED BY <2>7, <2>8
<1>8. ASSUME NEW r \in Requests, Asked(u, r) PROVE QueueAt(u)' /\ ReplyAt(u)'
  <2> DEFINE q == requests[u]
  <2>1. r.number \in Nat /\ r.number = current.number /\ pc \in HandlerPcs /\ pc # "alarm_wait"
    BY <1>2, <1>8 DEF Asked, HandlerPcs
  <2>2. /\ sent_to[u] <= r.number
        /\ \A i \in DOMAIN q : q[i].number <= r.number
    BY <2>1 DEF OrderInv, Seen
  <2>3. /\ requests'[u] = Append(q, r) /\ DOMAIN q = 1 .. Len(q) /\ Len(q) \in Nat
        /\ DOMAIN Append(q, r) = 1 .. Len(q) + 1
        /\ \A k \in DOMAIN q : Append(q, r)[k] = q[k]
        /\ Append(q, r)[Len(q) + 1] = r
    BY <1>1, <1>8, AppendFacts DEF Asked
  <2>4. ASSUME NEW i \in DOMAIN Append(q, r), NEW j \in DOMAIN Append(q, r), i < j
        PROVE  Append(q, r)[i].number <= Append(q, r)[j].number
    <3>1. i \in DOMAIN q
      BY <2>3, <2>4
    <3>2. CASE j \in DOMAIN q
      BY <1>1, <2>3, <2>4, <3>1, <3>2 DEF QueueAt
    <3>3. CASE j = Len(q) + 1
      BY <2>2, <2>3, <3>1, <3>3
    <3> QED BY <2>3, <3>2, <3>3
  <2>5. \A i \in DOMAIN Append(q, r) : sent_to[u] <= Append(q, r)[i].number
    <3>1. \A i \in DOMAIN Append(q, r) : i \in DOMAIN q \/ i = Len(q) + 1
      BY <2>3
    <3> QED BY <1>1, <2>2, <2>3, <3>1 DEF QueueAt
  <2>6. QueueAt(u)'
    BY <1>1, <1>2, <1>8, <2>3, <2>4, <2>5 DEF Asked, SameHandled, QueueAt
  <2> QED BY <1>3, <2>1, <2>6 DEF WaitGoesOn, ReplyAt
<1> QED BY <1>4, <1>5, <1>6, <1>7, <1>8, WhatHappens DEF Happens

-----------------------------------------------------------------------------
(***************************************************************************)
(* How an alarm begins: at most once for each event, in their order, and   *)
(* behind a cancel.                                                        *)
(***************************************************************************)
IsAlarm(r) == r.method = "alarm"

BeginAt(u) ==
  /\ \A i, j \in DOMAIN requests[u] :
       i < j /\ IsAlarm(requests[u][i]) /\ IsAlarm(requests[u][j]) =>
         requests[u][i].number < requests[u][j].number
  /\ \A n \in Nat, i \in DOMAIN requests[u] :
       <<u, n>> \in handled /\ IsAlarm(requests[u][i]) => n < requests[u][i].number
  /\ \A i \in DOMAIN requests[u] :
       IsAlarm(requests[u][i]) =>
         IF i = 1 THEN playing[u] = 0 ELSE ~IsAlarm(requests[u][i - 1])

\* The cancel that goes before the alarm is the last of the queue, or was handled.
CancelledAt(u) ==
  IF requests[u] = <<>> THEN playing[u] = 0 ELSE ~IsAlarm(requests[u][Len(requests[u])])

CancelAt(u) ==
  pc \in {"cancel_wait", "alarm"} /\ Service = u /\ Reachable => CancelledAt(u)

\* The loop has not yet asked this service for the event being handled.
NotYetAsked(u) ==
  /\ pc \in HandlerPcs
  /\ \E i \in 1 .. 3 : /\ alarm_actions[i] = u
                       /\ i > action \/ (i = action /\ pc # "alarm_wait")

OlderAt(u) ==
  /\ \A n \in Nat : <<u, n>> \in handled => n < current.number
  /\ \A k \in DOMAIN requests[u] :
       IsAlarm(requests[u][k]) => requests[u][k].number < current.number

\* A service that comes back has a new id.
IdInv ==
  pc \in {"cancel", "cancel_wait", "alarm", "alarm_wait"} => object_id <= id[Service]

BeginInv ==
  /\ IdInv
  /\ \A u \in Services : BeginAt(u) /\ CancelAt(u) /\ (NotYetAsked(u) => OlderAt(u))

\* How the loop gets to a service it has not asked yet.
GoesOn(u) ==
  NotYetAsked(u)' =>
    \/ NotYetAsked(u) /\ current' = current
    \/ pc = "idle" /\ inbox # <<>> /\ current' = Head(inbox)

\* How notifyd gets to where the cancel has been called.
CancelFirst ==
  pc' \in {"cancel_wait", "alarm"} /\ Reachable' =>
    /\ Reachable /\ Service' = Service
    /\ \/ pc \in {"cancel_wait", "alarm"}
       \/ \E r \in Requests : Asked(Service, r) /\ ~IsAlarm(r)

\* An object id that was looked up is never ahead of the service's.
LEMMA IdStep ==
  ASSUME TypesOK, IdInv, [Next]_vars
  PROVE  IdInv'
<1>1. CASE Start
  BY <1>1 DEF Start, handler, services, IdInv, Service
<1>2. CASE Crash
  BY <1>2 DEF Crash, NoHandler, handler, services, IdInv, Service
<1>3. CASE handle_signal
  BY <1>3 DEF handle_signal, handler, services, IdInv, Service
<1>4. CASE Register
  BY <1>4 DEF Register, handler, services, IdInv, Service
<1>5. CASE LeaveLoop
  BY <1>5 DEF LeaveLoop, handler, services, IdInv, Service
<1>6. CASE ReceiveEvent
  BY <1>6 DEF ReceiveEvent, handler, services, IdInv, Service
<1>7. CASE NextAction
  BY <1>7 DEF NextAction, handler, services, IdInv, Service
<1>8. CASE LookupFails
  BY <1>8 DEF LookupFails, Error, handler, services, IdInv, Service
<1>9. CASE Lookup
  <2>1. Service \in Services
    BY <1>9, Registry DEF Lookup, TypesOK, ControlOK, Service, ServicePcs
  <2>2. object_id' = id[Service] /\ id[Service] \in Nat /\ UNCHANGED id /\ Service' = Service
    BY <1>9, <2>1 DEF Lookup, services, Service, TypesOK, ServicesOK
  <2> QED BY <2>2 DEF IdInv
<1>10. CASE InvokeCancel
  BY <1>10 DEF InvokeCancel, handler, services, IdInv, Service
<1>11. CASE CancelReturns
  BY <1>11 DEF CancelReturns, handler, services, IdInv, Service
<1>12. CASE InvokeAlarm
  BY <1>12 DEF InvokeAlarm, Error, handler, services, IdInv, Service
<1>13. CASE AlarmReturns
  BY <1>13 DEF AlarmReturns, Accepted, Error, handler, services, IdInv, Service
<1>14. CASE Classify
  BY <1>14 DEF Classify, NoHandler, handler, services, IdInv, Service
<1>15. ASSUME NEW e \in Events, Publish(e) PROVE IdInv'
  BY <1>15 DEF Publish, handler, services, IdInv, Service
<1>16. ASSUME NEW s \in Services, ServiceHandles(s) PROVE IdInv'
  BY <1>16 DEF ServiceHandles, handler, services, IdInv, Service
<1>17. ASSUME NEW s \in Services, ServiceDies(s) PROVE IdInv'
  BY <1>17 DEF ServiceDies, handler, services, IdInv, Service
<1>18. ASSUME NEW s \in Services, ServiceReturns(s) PROVE IdInv'
  <2>1. ASSUME pc \in {"cancel", "cancel_wait", "alarm", "alarm_wait"}
        PROVE  object_id <= id'[Service]
    <3>1. Service \in Services
      BY <2>1, Registry DEF TypesOK, ControlOK, Service, ServicePcs
    <3>2. id[Service] \in Nat /\ id'[Service] \in {id[Service], id[Service] + 1}
      BY <1>18, <3>1 DEF ServiceReturns, TypesOK, ServicesOK
    <3>3. object_id \in Nat /\ object_id <= id[Service]
      BY <2>1 DEF IdInv, TypesOK, ControlOK
    <3> QED BY <3>2, <3>3
  <2>2. UNCHANGED <<pc, object_id, Service>>
    BY <1>18 DEF ServiceReturns, handler, Service
  <2> QED BY <2>1, <2>2 DEF IdInv
<1>19. CASE UNCHANGED vars
  BY <1>19 DEF vars, handler, services, IdInv, Service
<1> QED BY <1>1, <1>2, <1>3, <1>4, <1>5, <1>6, <1>7, <1>8, <1>9, <1>10,
       <1>11, <1>12, <1>13, <1>14, <1>15, <1>16, <1>17, <1>18,
       <1>19
       DEF Next, MainStep

\* The loop comes to each service once for an event.
LEMMA LoopGoesOn ==
  ASSUME TypesOK, [Next]_vars, NEW u \in Services
  PROVE  GoesOn(u)
<1>1. CASE Start
  BY <1>1 DEF Start, handler, GoesOn, NotYetAsked, HandlerPcs
<1>2. CASE Crash
  BY <1>2 DEF Crash, NoHandler, handler, GoesOn, NotYetAsked, HandlerPcs
<1>3. CASE handle_signal
  BY <1>3 DEF handle_signal, handler, GoesOn, NotYetAsked, HandlerPcs
<1>4. CASE Register
  BY <1>4 DEF Register, handler, GoesOn, NotYetAsked, HandlerPcs
<1>5. CASE LeaveLoop
  BY <1>5 DEF LeaveLoop, handler, GoesOn, NotYetAsked, HandlerPcs
<1>6. CASE ReceiveEvent
  BY <1>6 DEF ReceiveEvent, handler, GoesOn, NotYetAsked, HandlerPcs
<1>7. CASE NextAction
  <2>1. action \in Nat /\ action' \in Nat
    BY <1>7 DEF NextAction, TypesOK, ControlOK
  <2> QED BY <1>7, <2>1 DEF NextAction, GoesOn, NotYetAsked, HandlerPcs
<1>8. CASE LookupFails
  <2>1. action \in Nat /\ action' \in Nat
    BY <1>8 DEF LookupFails, Error, TypesOK, ControlOK
  <2> QED BY <1>8, <2>1 DEF LookupFails, Error, GoesOn, NotYetAsked, HandlerPcs
<1>9. CASE Lookup
  BY <1>9 DEF Lookup, handler, GoesOn, NotYetAsked, HandlerPcs
<1>10. CASE InvokeCancel
  BY <1>10 DEF InvokeCancel, handler, GoesOn, NotYetAsked, HandlerPcs
<1>11. CASE CancelReturns
  BY <1>11 DEF CancelReturns, handler, GoesOn, NotYetAsked, HandlerPcs
<1>12. CASE InvokeAlarm
  <2>1. action \in Nat /\ action' \in Nat
    BY <1>12 DEF InvokeAlarm, Error, TypesOK, ControlOK
  <2> QED BY <1>12, <2>1 DEF InvokeAlarm, Error, GoesOn, NotYetAsked, HandlerPcs
<1>13. CASE AlarmReturns
  <2>1. action \in Nat /\ action' \in Nat
    BY <1>13 DEF AlarmReturns, Accepted, Error, TypesOK, ControlOK
  <2> QED BY <1>13, <2>1 DEF AlarmReturns, Accepted, Error, GoesOn, NotYetAsked, HandlerPcs
<1>14. CASE Classify
  BY <1>14 DEF Classify, NoHandler, handler, GoesOn, NotYetAsked, HandlerPcs
<1>15. ASSUME NEW e \in Events, Publish(e) PROVE GoesOn(u)
  BY <1>15 DEF Publish, handler, GoesOn, NotYetAsked, HandlerPcs
<1>16. ASSUME NEW s \in Services, ServiceHandles(s) PROVE GoesOn(u)
  BY <1>16 DEF ServiceHandles, handler, GoesOn, NotYetAsked, HandlerPcs
<1>17. ASSUME NEW s \in Services, ServiceDies(s) PROVE GoesOn(u)
  BY <1>17 DEF ServiceDies, handler, GoesOn, NotYetAsked, HandlerPcs
<1>18. ASSUME NEW s \in Services, ServiceReturns(s) PROVE GoesOn(u)
  BY <1>18 DEF ServiceReturns, handler, GoesOn, NotYetAsked, HandlerPcs
<1>19. CASE UNCHANGED vars
  BY <1>19 DEF vars, handler, GoesOn, NotYetAsked, HandlerPcs
<1> QED BY <1>1, <1>2, <1>3, <1>4, <1>5, <1>6, <1>7, <1>8, <1>9, <1>10,
       <1>11, <1>12, <1>13, <1>14, <1>15, <1>16, <1>17, <1>18,
       <1>19
       DEF Next, MainStep

\* Before an alarm is invoked on a service, the cancel was.
LEMMA CancelComesFirst ==
  ASSUME TypesOK, IdInv, [Next]_vars
  PROVE  CancelFirst
<1>1. CASE Start
  BY <1>1 DEF Start, handler, services, CancelFirst, Reachable, Service
<1>2. CASE Crash
  BY <1>2 DEF Crash, NoHandler, handler, services, CancelFirst, Reachable, Service
<1>3. CASE handle_signal
  BY <1>3 DEF handle_signal, handler, services, CancelFirst, Reachable, Service
<1>4. CASE Register
  BY <1>4 DEF Register, handler, services, CancelFirst, Reachable, Service
<1>5. CASE LeaveLoop
  BY <1>5 DEF LeaveLoop, handler, services, CancelFirst, Reachable, Service
<1>6. CASE ReceiveEvent
  BY <1>6 DEF ReceiveEvent, handler, services, CancelFirst, Reachable, Service
<1>7. CASE NextAction
  BY <1>7 DEF NextAction, handler, services, CancelFirst, Reachable, Service
<1>8. CASE LookupFails
  BY <1>8 DEF LookupFails, Error, handler, services, CancelFirst, Reachable, Service
<1>9. CASE Lookup
  BY <1>9 DEF Lookup, handler, services, CancelFirst, Reachable, Service
<1>10. CASE InvokeCancel
  <2>1. UNCHANGED <<Reachable, Service>> /\ pc = "cancel"
    BY <1>10 DEF InvokeCancel, Reachable, Service
  <2>2. CASE ~Reachable
    BY <2>1, <2>2 DEF CancelFirst
  <2>3. CASE Reachable /\ invoke("cancel_alarm") /\ pc' = "cancel_wait"
    <3>1. PICK r \in Requests :
            /\ r.method = "cancel_alarm" /\ r.number = current.number
            /\ requests' = [requests EXCEPT ![Service] = Append(@, r)]
            /\ Service \in Services
      BY <2>1, <2>3, Types, InvokeAdds DEF ServicePcs
    <3>2. Asked(Service, r) /\ ~IsAlarm(r)
      BY <1>10, <2>1, <2>3, <3>1 DEF InvokeCancel, Asked, SameHandled, IsAlarm, TypesOK, ServicesOK
    <3> QED BY <2>1, <2>3, <3>2 DEF CancelFirst
  <2> QED BY <1>10, <2>2, <2>3 DEF InvokeCancel
<1>11. CASE CancelReturns
  BY <1>11 DEF CancelReturns, handler, services, CancelFirst, Reachable, Service
<1>12. CASE InvokeAlarm
  BY <1>12 DEF InvokeAlarm, Error, handler, services, CancelFirst, Reachable, Service
<1>13. CASE AlarmReturns
  BY <1>13 DEF AlarmReturns, Accepted, Error, handler, services, CancelFirst, Reachable, Service
<1>14. CASE Classify
  BY <1>14 DEF Classify, NoHandler, handler, services, CancelFirst, Reachable, Service
<1>15. ASSUME NEW e \in Events, Publish(e) PROVE CancelFirst
  BY <1>15 DEF Publish, handler, services, CancelFirst, Reachable, Service
<1>16. ASSUME NEW s \in Services, ServiceHandles(s) PROVE CancelFirst
  BY <1>16 DEF ServiceHandles, CancelFirst, Reachable, Service
<1>17. ASSUME NEW s \in Services, ServiceDies(s) PROVE CancelFirst
  <2>1. UNCHANGED <<pc, Service, object_id, id>>
    BY <1>17 DEF ServiceDies, handler, Service
  <2>2. Reachable' => Reachable
    <3>1. up'[Service] => up[Service]
      BY <1>17 DEF ServiceDies, TypesOK, ServicesOK
    <3> QED BY <2>1, <3>1 DEF Reachable
  <2> QED BY <2>1, <2>2 DEF CancelFirst
<1>18. ASSUME NEW s \in Services, ServiceReturns(s) PROVE CancelFirst
  <2>1. UNCHANGED <<pc, Service, object_id>>
    BY <1>18 DEF ServiceReturns, handler, Service
  <2>2. ASSUME pc \in {"cancel_wait", "alarm"}, Reachable' PROVE Reachable
    <3>1. Service \in Services /\ object_id <= id[Service] /\ object_id \in Nat
      BY <2>2, Registry DEF TypesOK, ControlOK, Service, ServicePcs, IdInv
    <3>2. CASE s = Service
      <4>1. id'[Service] = id[Service] + 1 /\ id[Service] \in Nat
        BY <1>18, <3>1, <3>2 DEF ServiceReturns, TypesOK, ServicesOK
      <4>2. id'[Service] = object_id
        BY <2>1, <2>2 DEF Reachable
      <4> QED BY <3>1, <4>1, <4>2
    <3>3. CASE s # Service
      <4>1. up'[Service] = up[Service] /\ id'[Service] = id[Service]
        BY <1>18, <3>1, <3>3 DEF ServiceReturns, TypesOK, ServicesOK
      <4>2. up'[Service] /\ id'[Service] = object_id
        BY <2>1, <2>2 DEF Reachable
      <4> QED BY <4>1, <4>2 DEF Reachable
    <3> QED BY <3>2, <3>3
  <2> QED BY <2>1, <2>2 DEF CancelFirst
<1>19. CASE UNCHANGED vars
  BY <1>19 DEF vars, handler, services, CancelFirst, Reachable, Service
<1> QED BY <1>1, <1>2, <1>3, <1>4, <1>5, <1>6, <1>7, <1>8, <1>9, <1>10,
       <1>11, <1>12, <1>13, <1>14, <1>15, <1>16, <1>17, <1>18,
       <1>19
       DEF Next, MainStep

\* A request that is asked for or handled comes from an event in its turn.
LEMMA BeginStep ==
  ASSUME TypesOK, OrderInv, BeginInv, [Next]_vars, NEW u \in Services
  PROVE  BeginAt(u)' /\ CancelAt(u)' /\ (NotYetAsked(u) => OlderAt(u))'
<1> DEFINE q == requests[u]
<1>1. q \in Seq(Requests) /\ BeginAt(u) /\ CancelAt(u) /\ (NotYetAsked(u) => OlderAt(u))
  BY DEF TypesOK, ServicesOK, BeginInv
<1>2. /\ playing[u] \in Nat
      /\ \A i \in DOMAIN q : i \in Nat /\ q[i].number \in Nat
      /\ pc \in HandlerPcs => current.number \in Nat
      /\ DOMAIN q = 1 .. Len(q) /\ Len(q) \in Nat
  BY <1>1, Numbers
<1>3. GoesOn(u) /\ CancelFirst
  BY LoopGoesOn, CancelComesFirst DEF BeginInv
<1>4. ASSUME pc = "idle", inbox # <<>>, current' = Head(inbox)
      PROVE  /\ \A n \in Nat : <<u, n>> \in handled => n < current'.number
             /\ \A k \in DOMAIN q : q[k].number < current'.number
             /\ current'.number \in Nat
  <2>1. 1 \in DOMAIN inbox /\ current' = inbox[1]
    BY <1>4, TailFacts DEF TypesOK, InboxOK
  <2> QED BY <2>1, <1>2, Numbers DEF OrderInv, Seen
<1>5. CASE Still(u) \/ Sent(u)
  <2>1. requests'[u] = q /\ playing'[u] = playing[u] /\ SameHandled(u)
    BY <1>5 DEF Still, Sent
  <2>2. BeginAt(u)'
    BY <1>1, <2>1 DEF BeginAt, SameHandled
  <2>3. ASSUME NotYetAsked(u)' PROVE OlderAt(u)'
    <3>1. CASE NotYetAsked(u) /\ current' = current
      BY <1>1, <2>1, <3>1 DEF OlderAt, SameHandled
    <3>2. CASE pc = "idle" /\ inbox # <<>> /\ current' = Head(inbox)
      BY <1>4, <2>1, <3>2 DEF OlderAt, SameHandled
    <3> QED BY <1>3, <2>3, <3>1, <3>2 DEF GoesOn
  <2>4. CancelAt(u)'
    <3>1. ASSUME NEW r \in Requests, Asked(u, r) PROVE FALSE
      <4>1. requests'[u] = Append(q, r)
        BY <3>1 DEF Asked
      <4>2. Len(requests'[u]) = Len(q) + 1
        BY <1>1, <4>1, AppendProperties
      <4>3. Len(requests'[u]) = Len(q)
        BY <2>1, Zenon
      <4> QED BY <1>2, <4>2, <4>3
    <3>2. ASSUME (pc \in {"cancel_wait", "alarm"} /\ Service = u /\ Reachable)'
          PROVE  CancelledAt(u)
      BY <1>1, <1>3, <3>1, <3>2 DEF CancelFirst, CancelAt
    <3> QED BY <2>1, <3>2 DEF CancelAt, CancelledAt
  <2> QED BY <2>2, <2>3, <2>4
<1>6. CASE Dies(u)
  <2>1. requests'[u] = <<>> /\ DOMAIN requests'[u] = {} /\ playing'[u] = 0 /\ SameHandled(u)
    BY <1>6, EmptySeq DEF Dies
  <2>2. BeginAt(u)' /\ CancelAt(u)'
    BY <2>1 DEF BeginAt, CancelAt, CancelledAt
  <2>3. ASSUME NotYetAsked(u)' PROVE OlderAt(u)'
    <3>1. CASE NotYetAsked(u) /\ current' = current
      BY <1>1, <2>1, <3>1 DEF OlderAt, SameHandled
    <3>2. CASE pc = "idle" /\ inbox # <<>> /\ current' = Head(inbox)
      BY <1>4, <2>1, <3>2 DEF OlderAt, SameHandled
    <3> QED BY <1>3, <2>3, <3>1, <3>2 DEF GoesOn
  <2> QED BY <2>2, <2>3
<1>7. ASSUME NEW r \in Requests, Handles(u, r)
      PROVE  BeginAt(u)' /\ CancelAt(u)' /\ (NotYetAsked(u) => OlderAt(u))'
  <2>1. /\ q # <<>> /\ r = q[1] /\ 1 \in DOMAIN q /\ requests'[u] = Tail(q)
        /\ Tail(q) \in Seq(Requests) /\ Len(Tail(q)) = Len(q) - 1
        /\ DOMAIN Tail(q) = 1 .. Len(q) - 1
        /\ \A k \in DOMAIN Tail(q) : k \in Nat /\ k + 1 \in DOMAIN q /\ Tail(q)[k] = q[k + 1]
    BY <1>1, <1>7, TailFacts, HeadTailProperties DEF Handles
  <2>2. r.number \in Nat /\ r.method \in {"alarm", "cancel_alarm"}
    BY <1>2, <2>1, RequestFacts
  <2>3. /\ IsAlarm(r) =>
             \A n \in Nat : <<u, n>> \in handled' <=> <<u, n>> \in handled \/ n = r.number
        /\ ~IsAlarm(r) => playing'[u] = 0 /\ SameHandled(u)
    BY <1>7, <2>2 DEF Handles, IsAlarm
  <2>4. BeginAt(u)'
    <3>1. ASSUME NEW i \in DOMAIN Tail(q), NEW j \in DOMAIN Tail(q), i < j,
                 IsAlarm(Tail(q)[i]), IsAlarm(Tail(q)[j])
          PROVE  Tail(q)[i].number < Tail(q)[j].number
      <4>1. i + 1 < j + 1 /\ i + 1 \in DOMAIN q /\ j + 1 \in DOMAIN q
        BY <2>1, <3>1
      <4> QED BY <1>1, <2>1, <3>1, <4>1 DEF BeginAt
    <3>2. ASSUME NEW n \in Nat, NEW i \in DOMAIN Tail(q), <<u, n>> \in handled',
                 IsAlarm(Tail(q)[i])
          PROVE  n < Tail(q)[i].number
      <4>1. i + 1 \in DOMAIN q /\ 1 < i + 1 /\ Tail(q)[i] = q[i + 1]
        BY <2>1
      <4>2. CASE <<u, n>> \in handled
        BY <1>1, <3>2, <4>1, <4>2 DEF BeginAt
      <4>3. CASE IsAlarm(r) /\ n = r.number
        BY <1>1, <2>1, <3>2, <4>1, <4>3 DEF BeginAt
      <4> QED BY <2>3, <3>2, <4>2, <4>3 DEF SameHandled
    <3>3. ASSUME NEW i \in DOMAIN Tail(q), IsAlarm(Tail(q)[i])
          PROVE  IF i = 1 THEN playing'[u] = 0 ELSE ~IsAlarm(Tail(q)[i - 1])
      <4>1. i \in Nat /\ i + 1 \in DOMAIN q /\ i + 1 # 1 /\ i + 1 - 1 = i /\ Tail(q)[i] = q[i + 1]
        BY <2>1
      <4>2. ~IsAlarm(q[i])
        <5>1. \A k \in DOMAIN q : IsAlarm(q[k]) /\ k # 1 => ~IsAlarm(q[k - 1])
          BY <1>1 DEF BeginAt
        <5>2. PICK k \in DOMAIN q : k = i + 1 /\ k # 1 /\ k - 1 = i
          BY <4>1
        <5>3. IsAlarm(q[k])
          BY <3>3, <4>1, <5>2, Zenon
        <5>4. ~IsAlarm(q[k - 1])
          BY <5>1, <5>2, <5>3, Zenon
        <5> QED BY <5>2, <5>4, Zenon
      <4>3. CASE i = 1
        BY <2>1, <2>3, <4>2, <4>3
      <4>4. CASE i # 1
        <5>1. i - 1 \in DOMAIN Tail(q) /\ i - 1 + 1 = i
          BY <2>1, <4>1, <4>4, <3>3
        <5>2. Tail(q)[i - 1] = q[i]
          BY <2>1, <5>1
        <5> QED BY <4>2, <4>4, <5>2
      <4> QED BY <4>3, <4>4
    <3> QED BY <2>1, <3>1, <3>2, <3>3 DEF BeginAt
  <2>5. CancelAt(u)'
    <3>1. ASSUME (pc \in {"cancel_wait", "alarm"} /\ Service = u /\ Reachable)'
          PROVE  CancelledAt(u)
      <4>1. ASSUME NEW x \in Requests, Asked(u, x) PROVE FALSE
        <5>1. requests'[u] = Append(q, x)
          BY <4>1 DEF Asked
        <5>2. Len(requests'[u]) = Len(q) + 1
          BY <1>1, <5>1, AppendProperties
        <5>3. Len(requests'[u]) = Len(q) - 1
          BY <2>1, Zenon
        <5> QED BY <1>2, <5>2, <5>3
      <4> QED BY <1>1, <1>3, <3>1, <4>1 DEF CancelFirst, CancelAt
    <3>2. ASSUME CancelledAt(u) PROVE CancelledAt(u)'
      <4>1. ~IsAlarm(q[Len(q)]) /\ Len(q) # 0
        BY <2>1, <1>2, <3>2 DEF CancelledAt
      <4>2. CASE Len(q) = 1
        <5>1. Tail(q) = <<>>
          BY <2>1, <4>2, EmptySeq
        <5>2. playing'[u] = 0
          BY <2>1, <2>3, <4>1, <4>2
        <5> QED BY <2>1, <5>1, <5>2 DEF CancelledAt
      <4>3. CASE Len(q) # 1
        <5>1. Len(q) \in Nat /\ Len(q) # 0 /\ DOMAIN Tail(q) = 1 .. Len(q) - 1
          BY <1>2, <2>1, <4>1
        <5>2. \A m \in Nat : m # 0 /\ m # 1 => m - 1 \in 1 .. m - 1 /\ m - 1 + 1 = m
          OBVIOUS
        <5>3. Len(q) - 1 \in DOMAIN Tail(q) /\ Len(q) - 1 + 1 = Len(q)
          BY <4>3, <5>1, <5>2, Zenon
        <5>4. Tail(q)[Len(Tail(q))] = q[Len(q)]
          <6>1. Tail(q)[Len(q) - 1] = q[Len(q) - 1 + 1]
            BY <2>1, <5>3, Zenon
          <6> QED BY <2>1, <5>3, <6>1, Zenon
        <5>5. Tail(q) # <<>>
          <6>1. DOMAIN Tail(q) # {}
            BY <5>3, Zenon
          <6>2. DOMAIN <<>> = {}
            OBVIOUS
          <6> QED BY <6>1, <6>2, Zenon
        <5> QED BY <2>1, <4>1, <5>4, <5>5 DEF CancelledAt
      <4> QED BY <4>2, <4>3
    <3> QED BY <3>1, <3>2 DEF CancelAt
  <2>6. ASSUME NotYetAsked(u)' PROVE OlderAt(u)'
    <3>1. /\ \A n \in Nat : <<u, n>> \in handled => n < current'.number
          /\ \A k \in DOMAIN q : IsAlarm(q[k]) => q[k].number < current'.number
      <4>1. CASE NotYetAsked(u) /\ current' = current
        BY <1>1, <4>1 DEF OlderAt
      <4>2. CASE pc = "idle" /\ inbox # <<>> /\ current' = Head(inbox)
        BY <1>4, <4>2
      <4> QED BY <1>3, <2>6, <4>1, <4>2 DEF GoesOn
    <3>2. \A n \in Nat : <<u, n>> \in handled' => n < current'.number
      BY <2>1, <2>3, <3>1 DEF SameHandled
    <3>3. \A k \in DOMAIN Tail(q) : IsAlarm(Tail(q)[k]) => Tail(q)[k].number < current'.number
      BY <2>1, <3>1
    <3> QED BY <2>1, <3>2, <3>3 DEF OlderAt
  <2> QED BY <2>4, <2>5, <2>6
<1>8. ASSUME NEW r \in Requests, Asked(u, r)
      PROVE  BeginAt(u)' /\ CancelAt(u)' /\ (NotYetAsked(u) => OlderAt(u))'
  <2>1. /\ requests'[u] = Append(q, r) /\ DOMAIN Append(q, r) = 1 .. Len(q) + 1
        /\ Append(q, r) # <<>> /\ Len(Append(q, r)) = Len(q) + 1
        /\ \A k \in DOMAIN q : Append(q, r)[k] = q[k]
        /\ Append(q, r)[Len(q) + 1] = r
    BY <1>1, <1>8, AppendFacts, AppendProperties DEF Asked
  <2>2. playing'[u] = playing[u] /\ SameHandled(u) /\ r.number = current.number
    BY <1>8 DEF Asked
  <2>3. /\ pc \in HandlerPcs /\ current' = current /\ action' = action /\ Service = u
        /\ Reachable
        /\ IsAlarm(r) => pc = "alarm" /\ pc' = "alarm_wait"
        /\ ~IsAlarm(r) => pc = "cancel" /\ pc' = "cancel_wait"
    BY <1>8, RequestFacts DEF Asked, IsAlarm, HandlerPcs
  <2>4. action \in 1 .. 3 /\ alarm_actions[action] = u
    BY <2>3, RequestFacts DEF Service, TypesOK, ControlOK, ServicePcs
  <2>5. NotYetAsked(u) /\ OlderAt(u)
    <3>1. pc # "alarm_wait"
      BY <2>3
    <3> QED BY <1>1, <2>3, <2>4, <3>1 DEF NotYetAsked
  <2>6. IsAlarm(r) => CancelledAt(u)
    BY <1>1, <2>3 DEF CancelAt
  <2>7. \A i \in DOMAIN Append(q, r) : i \in Nat /\ (i \in DOMAIN q \/ i = Len(q) + 1)
    BY <1>2, <2>1
  <2>8. BeginAt(u)'
    <3>1. ASSUME NEW i \in DOMAIN Append(q, r), NEW j \in DOMAIN Append(q, r), i < j,
                 IsAlarm(Append(q, r)[i]), IsAlarm(Append(q, r)[j])
          PROVE  Append(q, r)[i].number < Append(q, r)[j].number
      <4>1. i \in DOMAIN q
        BY <1>2, <2>1, <3>1
      <4>2. CASE j \in DOMAIN q
        BY <1>1, <2>1, <3>1, <4>1, <4>2 DEF BeginAt
      <4>3. CASE j = Len(q) + 1
        BY <2>1, <2>2, <2>5, <3>1, <4>1, <4>3 DEF OlderAt
      <4> QED BY <2>7, <4>2, <4>3
    <3>2. ASSUME NEW n \in Nat, NEW i \in DOMAIN Append(q, r), <<u, n>> \in handled,
                 IsAlarm(Append(q, r)[i])
          PROVE  n < Append(q, r)[i].number
      <4>1. CASE i \in DOMAIN q
        BY <1>1, <2>1, <3>2, <4>1 DEF BeginAt
      <4>2. CASE i = Len(q) + 1
        BY <2>1, <2>2, <2>5, <3>2, <4>2 DEF OlderAt
      <4> QED BY <2>7, <4>1, <4>2
    <3>3. ASSUME NEW i \in DOMAIN Append(q, r), IsAlarm(Append(q, r)[i])
          PROVE  IF i = 1 THEN playing[u] = 0 ELSE ~IsAlarm(Append(q, r)[i - 1])
      <4>1. CASE i \in DOMAIN q
        <5>1. i # 1 => i - 1 \in DOMAIN q
          BY <1>2, <4>1
        <5> QED BY <1>1, <2>1, <3>3, <4>1, <5>1 DEF BeginAt
      <4>2. CASE i = Len(q) + 1
        <5>1. CancelledAt(u)
          BY <2>1, <2>6, <3>3, <4>2
        <5>2. CASE Len(q) = 0
          BY <1>1, <4>2, <5>1, <5>2, EmptySeq DEF CancelledAt
        <5>3. CASE Len(q) # 0
          <6>1. /\ Len(q) \in DOMAIN q /\ i # 1 /\ i - 1 = Len(q)
                /\ q # <<>>
            BY <1>1, <1>2, <4>2, <5>3, EmptySeq
          <6>2. ~IsAlarm(q[Len(q)])
            BY <5>1, <6>1 DEF CancelledAt
          <6> QED BY <2>1, <6>1, <6>2
        <5> QED BY <5>2, <5>3
      <4> QED BY <2>7, <4>1, <4>2
    <3> QED BY <2>1, <2>2, <3>1, <3>2, <3>3 DEF BeginAt, SameHandled
  <2>9. CancelAt(u)'
    BY <2>1, <2>3 DEF CancelAt, CancelledAt
  <2>10. ASSUME NotYetAsked(u)' PROVE OlderAt(u)'
    <3>1. CASE IsAlarm(r)
      <4>1. PICK i \in 1 .. 3 : alarm_actions[i] = u /\ i > action
        BY <2>3, <2>10, <3>1 DEF NotYetAsked
      <4>2. i # action
        BY <2>4, <4>1
      <4> QED BY <2>4, <4>1, <4>2, Registry
    <3>2. CASE ~IsAlarm(r)
      <4>1. \A k \in DOMAIN Append(q, r) :
              IsAlarm(Append(q, r)[k]) => Append(q, r)[k].number < current.number
        BY <2>1, <2>5, <2>7, <3>2 DEF OlderAt
      <4> QED BY <2>1, <2>2, <2>3, <2>5, <4>1 DEF OlderAt, SameHandled
    <3> QED BY <3>1, <3>2
  <2> QED BY <2>8, <2>9, <2>10
<1> QED BY <1>5, <1>6, <1>7, <1>8, WhatHappens DEF Happens

-----------------------------------------------------------------------------
NotifydInv == TypesOK /\ BalanceInv /\ OrderInv /\ QueueInv /\ BeginInv

\* The process has not been started, and the services are idle.
LEMMA InitInv == Init => NotifydInv
<1> SUFFICES ASSUME Init PROVE NotifydInv
  OBVIOUS
<1>1. /\ inbox = <<>> /\ inbox \in Seq(Numbered) /\ DOMAIN inbox = {}
      /\ \A s \in Services : /\ requests[s] = <<>> /\ DOMAIN requests[s] = {}
                             /\ playing[s] = 0 /\ sent_to[s] = 0
      /\ handled = {} /\ published = 0
  BY EmptySeq DEF Init
<1>2. TypesOK
  <2>a. /\ pc = "exited" /\ pc \notin HandlerPcs /\ pc \notin ServicePcs
    BY DEF Init, HandlerPcs, ServicePcs
  <2>b. terminated \in BOOLEAN /\ any_recognized \in BOOLEAN /\ replied \in BOOLEAN
    BY DEF Init
  <2>c. action \in 1 .. 4 /\ object_id \in Nat
    BY DEF Init
  <2>d. ControlOK
    BY <2>a, <2>b, <2>c DEF ControlOK
  <2>e. InboxOK
    BY <1>1 DEF InboxOK
  <2>f. CountOK
    BY BoundAssumption DEF Init, CountOK
  <2>1. ControlOK /\ InboxOK /\ CountOK
    BY <2>d, <2>e, <2>f
  <2>2. stats \in Counters
    BY DEF Init, ZeroStats, Counters
  <2>3. <<>> \in Seq(Requests)
    BY EmptySeq
  <2>4. ServicesOK
    BY <2>3 DEF Init, ServicesOK
  <2>5. KnownOK
    BY <1>1 DEF Init, KnownOK, HandlerPcs
  <2> QED BY <2>1, <2>2, <2>4, <2>5 DEF TypesOK
<1>3. BalanceInv
  BY DEF Init, BalanceInv, HandlerPcs
<1>4. OrderInv
  BY <1>1 DEF Init, OrderInv, InboxOrder, Seen, HandlerPcs
<1>5. QueueInv
  BY <1>1 DEF Init, QueueInv, QueueAt, ReplyAt
<1>6. BeginInv
  BY <1>1 DEF Init, BeginInv, IdInv, BeginAt, CancelAt, NotYetAsked, HandlerPcs
<1> QED BY <1>2, <1>3, <1>4, <1>5, <1>6 DEF NotifydInv

\* The invariant is inductive.
LEMMA InvStep == NotifydInv /\ [Next]_vars => NotifydInv'
<1> SUFFICES ASSUME NotifydInv, [Next]_vars PROVE NotifydInv'
  OBVIOUS
<1>1. TypesOK' /\ BalanceInv' /\ OrderInv' /\ QueueInv'
  BY TypeStep, BalanceStep, OrderStep, QueueStep DEF NotifydInv
<1>2. BeginInv'
  <2>1. IdInv'
    BY IdStep DEF NotifydInv, BeginInv
  <2>2. \A u \in Services : BeginAt(u)' /\ CancelAt(u)' /\ (NotYetAsked(u) => OlderAt(u))'
    BY BeginStep DEF NotifydInv
  <2> QED BY <2>1, <2>2 DEF BeginInv
<1> QED BY <1>1, <1>2 DEF NotifydInv

\* The invariant holds in every state.
THEOREM NotifydInvariant == Safety => []NotifydInv
<1> QED BY InitInv, InvStep, PTL DEF Safety

\* Every variable of notifyd keeps its type.
THEOREM TypeCorrect == Safety => []TypeOK
<1>1. NotifydInv => TypeOK
  BY Types DEF NotifydInv, TypeInv
<1> QED BY <1>1, NotifydInvariant, PTL

\* What the status method reports adds up, whatever failed or timed out.
THEOREM CountersBalance == Safety => []StatsBalance
<1>1. NotifydInv => StatsBalance
  BY Registry DEF NotifydInv, BalanceInv, Classes, Results, TypesOK, Counters, StatsBalance
<1> QED BY <1>1, NotifydInvariant, PTL

\* An action is counted as sent only if its service handled the request.
THEOREM SentMeansHandled == Safety => []SentWasHandled
<1>1. NotifydInv => SentWasHandled
  BY DEF NotifydInv, QueueInv, QueueAt, SentWasHandled
<1> QED BY <1>1, NotifydInvariant, PTL

\* Once an event's action is counted as sent, no older alarm comes back, although
\* earlier calls may have timed out and been left in the queue.
THEOREM NewestAlarmStays == Safety => []NoOlderAlarmAfterSent
<1>1. NotifydInv => NoOlderAlarmAfterSent
  BY DEF NotifydInv, QueueInv, QueueAt, NoOlderAlarmAfterSent
<1> QED BY <1>1, NotifydInvariant, PTL

\* The reasons for a rejection, for one payload.
LEMMA Reasons ==
  ASSUME NEW name, NEW msg, msg = Absent \/ DOMAIN msg = Recognized
  PROVE  LET status == event_validation_check(name, msg)
             nothing == msg = Absent \/ \A f \in DOMAIN msg : msg[f] = Absent
         IN /\ (status = "missing_payload") = nothing
            /\ (status = "missing_field") =
                 (~nothing /\ \E f \in {"type", "severity", "source"} : msg[f] = Absent)
<1> DEFINE status == event_validation_check(name, msg)
           nothing == msg = Absent \/ \A f \in DOMAIN msg : msg[f] = Absent
<1>1. CASE msg = Absent
  <2>1. status = "missing_payload" /\ nothing
    BY <1>1 DEF event_validation_check
  <2> QED BY <2>1
<1>2. CASE msg # Absent
  <2>1. nothing <=> present(msg, Recognized) = {}
    BY <1>2 DEF present
  <2>2. (\E f \in {"type", "severity", "source"} : msg[f] = Absent)
          <=> present(msg, Required) # Required
    BY DEF present, Required
  <2>3. CASE nothing
    <3>1. status = "missing_payload"
      BY <1>2, <2>1, <2>3 DEF event_validation_check
    <3> QED BY <2>3, <3>1
  <2>4. CASE ~nothing /\ present(msg, Required) # Required
    <3>1. status = "missing_field"
      BY <1>2, <2>1, <2>4 DEF event_validation_check
    <3> QED BY <2>2, <2>4, <3>1
  <2>5. CASE ~nothing /\ present(msg, Required) = Required
    <3>1. status \in {"bad_severity", "type_mismatch", "ok"}
      BY <1>2, <2>1, <2>5 DEF event_validation_check
    <3> QED BY <2>2, <2>5, <3>1
  <2> QED BY <2>3, <2>4, <2>5
<1> QED BY <1>1, <1>2

\* event_validation_check gives the two reasons its comment states, for every
\* payload.
THEOREM ReasonsAreTrue == Safety => []RejectionReasons
<1>1. NotifydInv => RejectionReasons
  <2> SUFFICES ASSUME NotifydInv, NEW k \in DOMAIN inbox
               PROVE  inbox[k].msg = Absent \/ DOMAIN inbox[k].msg = Recognized
    BY Reasons DEF RejectionReasons
  <2>1. inbox[k] \in Numbered
    BY Numbers DEF NotifydInv
  <2> QED BY <2>1, NumberedFacts, EventsAssumption
<1> QED BY <1>1, NotifydInvariant, PTL

\* A service begins each event's alarm at most once, in their order, and only
\* after it gave up the one before.
THEOREM BeginsOnce == Safety => AlarmBeginsOnce
<1> DEFINE Once == \A s \in Services, n \in 1 .. MaxEvents :
             <<s, n>> \in handled' \ handled =>
               /\ playing[s] = 0
               /\ \A m \in 1 .. MaxEvents : <<s, m>> \in handled => m < n
<1>1. NotifydInv /\ [Next]_vars => [Once]_vars
  <2> SUFFICES ASSUME NotifydInv, [Next]_vars, NEW s \in Services, NEW n \in 1 .. MaxEvents,
                      <<s, n>> \in handled', <<s, n>> \notin handled
               PROVE  /\ playing[s] = 0
                      /\ \A m \in 1 .. MaxEvents : <<s, m>> \in handled => m < n
    OBVIOUS
  <2>1. n \in Nat /\ \A m \in 1 .. MaxEvents : m \in Nat
    BY BoundAssumption
  <2>2. PICK r \in Requests : Handles(s, r) /\ r.method = "alarm" /\ n = r.number
    <3>1. Happens(s)
      BY WhatHappens DEF NotifydInv
    <3> QED BY <2>1, <3>1 DEF Happens, Still, Dies, Sent, Asked, Handles, SameHandled
  <2>3. requests[s] \in Seq(Requests) /\ BeginAt(s)
    BY DEF NotifydInv, BeginInv, TypesOK, ServicesOK
  <2>4. 1 \in DOMAIN requests[s] /\ requests[s][1] = r
    BY <2>2, <2>3, TailFacts DEF Handles
  <2> QED BY <2>1, <2>2, <2>3, <2>4 DEF BeginAt, IsAlarm
<1>2. [][NotifydInv /\ [Next]_vars]_vars => [][Once]_vars
  BY <1>1, PTL
<1> QED BY <1>1, NotifydInvariant, PTL DEF Safety, AlarmBeginsOnce

-----------------------------------------------------------------------------
\* No action supports a name of more than two parts, so none of its handler's
\* places behind NextAction is reached, and it is classified as ignored.
LEMMA NestedUnsupported ==
  ASSUME NotifydInv, Len(current.name) > 2
  PROVE  pc \notin ServicePcs /\ (pc \in HandlerPcs => any_recognized = FALSE)
<1>1. ~Supported
  <2>1. ASSUME NEW t \in supported, current.name = <<"alarm", t>> PROVE FALSE
    <3>1. Len(<<"alarm", t>>) = 2
      OBVIOUS
    <3> QED BY <2>1, <3>1
  <2> QED BY <2>1 DEF Supported, is_supported_event_type
<1>2. pc \notin ServicePcs
  BY <1>1 DEF NotifydInv, TypesOK, ControlOK, Supported
<1>3. pc \in HandlerPcs => any_recognized = FALSE
  BY <1>1 DEF NotifydInv, TypesOK, ControlOK, BalanceInv, Counted
<1> QED BY <1>2, <1>3

\* An event with a nested name asks nothing of anybody: the queues of the
\* services do not grow and neither do the counters of accepted events and of
\* results (notifyd_ubus.c, mqtt_action.c and its two companions).
THEOREM NestedIgnored == Safety => NestedNameAsksNobody
<1> DEFINE Queues == \A s \in Services : Len(requests'[s]) <= Len(requests[s])
           Counts == /\ stats'.sent <= stats.sent /\ stats'.failed <= stats.failed
                     /\ stats'.accepted <= stats.accepted
           Nobody == Len(current.name) > 2 => Queues /\ Counts
<1>1. NotifydInv /\ [Next]_vars => Nobody
  <2> SUFFICES ASSUME NotifydInv, [Next]_vars, Len(current.name) > 2
               PROVE  Queues /\ Counts
    OBVIOUS
  <2>1. pc \notin ServicePcs /\ (pc \in HandlerPcs => any_recognized = FALSE)
    BY NestedUnsupported
  <2>2. /\ requests \in [Services -> Seq(Requests)] /\ stats \in Counters
        /\ \A s \in Services : Len(requests[s]) \in Nat
    <3>1. requests \in [Services -> Seq(Requests)] /\ stats \in Counters
      BY DEF NotifydInv, TypesOK, ServicesOK
    <3>2. ASSUME NEW s \in Services PROVE Len(requests[s]) \in Nat
      <4>1. requests[s] \in Seq(Requests)
        BY <3>1
      <4> QED BY <4>1
    <3> QED BY <3>1, <3>2
  <2>3. ASSUME UNCHANGED requests PROVE Queues
    BY <2>2, <2>3
  <2>4. ASSUME UNCHANGED stats PROVE Counts
    BY <2>2, <2>4 DEF Counters
  <2>5. ASSUME NEW c \in {"invalid", "ignored"}, record_event(c) PROVE Counts
    <3>1. /\ stats'.accepted = stats.accepted
          /\ stats'.sent = stats.sent /\ stats'.failed = stats.failed
      BY <2>2, <2>5, RecordFacts DEF Counters
    <3> QED BY <2>2, <3>1 DEF Counters
  <2>6. CASE Start
    <3>1. stats'.sent = 0 /\ stats'.failed = 0 /\ stats'.accepted = 0
      BY <2>6 DEF Start, ZeroStats
    <3>2. Counts
      BY <2>2, <3>1 DEF Counters
    <3> QED BY <2>3, <2>6, <3>2 DEF Start, services
  <2>7. CASE ReceiveEvent
    BY <2>3, <2>4, <2>5, <2>7 DEF ReceiveEvent, services
  <2>8. CASE Classify
    <3>1. any_recognized = FALSE
      BY <2>1, <2>8 DEF Classify, HandlerPcs
    <3>2. record_event("ignored") /\ UNCHANGED requests
      BY <2>8, <3>1, Zenon DEF Classify, services
    <3> QED BY <2>3, <2>5, <3>2
  <2>9. ASSUME NEW s \in Services, ServiceHandles(s) PROVE Queues /\ Counts
    <3>1. /\ requests[s] \in Seq(Requests) /\ requests[s] # <<>>
          /\ requests' = [requests EXCEPT ![s] = Tail(@)] /\ UNCHANGED stats
      BY <2>2, <2>9 DEF ServiceHandles
    <3>2. Len(Tail(requests[s])) = Len(requests[s]) - 1
      BY <3>1, HeadTailProperties
    <3> QED BY <2>2, <2>4, <3>1, <3>2
  <2>10. ASSUME NEW s \in Services, ServiceDies(s) PROVE Queues /\ Counts
    <3>1. requests' = [requests EXCEPT ![s] = <<>>] /\ UNCHANGED stats /\ Len(<<>>) = 0
      BY <2>10 DEF ServiceDies
    <3> QED BY <2>2, <2>4, <3>1
  <2>11. CASE \/ Crash \/ handle_signal \/ Register \/ LeaveLoop \/ NextAction
              \/ (\E e \in Events : Publish(e)) \/ (\E s \in Services : ServiceReturns(s))
              \/ UNCHANGED vars
    <3>1. UNCHANGED requests /\ UNCHANGED stats
      BY <2>11 DEF Crash, handle_signal, Register, LeaveLoop, NextAction, Publish,
                   ServiceReturns, services, vars
    <3> QED BY <2>3, <2>4, <3>1
  <2>12. ~(LookupFails \/ Lookup \/ InvokeCancel \/ CancelReturns \/ InvokeAlarm
            \/ AlarmReturns)
    BY <2>1 DEF LookupFails, Lookup, InvokeCancel, CancelReturns, InvokeAlarm, AlarmReturns,
                ServicePcs
  <2> QED BY <2>6, <2>7, <2>8, <2>9, <2>10, <2>11, <2>12 DEF Next, MainStep
<1>2. [][NotifydInv /\ [Next]_vars]_vars => [][Nobody]_vars
  BY <1>1, PTL
<1> QED BY <1>1, NotifydInvariant, PTL DEF Safety, NestedNameAsksNobody

=============================================================================
