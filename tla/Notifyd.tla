------------------------------ MODULE Notifyd ------------------------------
(***************************************************************************)
(* emergency-notifyd: one uloop thread that receives alarm.* events from   *)
(* ubus, validates them and, for each registered action in turn, looks its *)
(* service up and invokes cancel_alarm and then alarm on it, each with a   *)
(* timeout, and counts what happened.                                      *)
(*                                                                         *)
(* External to it: ubusd, which keeps the events that arrive during a      *)
(* handler and the requests of each service in order, and the services,    *)
(* which handle one request at a time, may be slow, die and come back      *)
(* under a new object id.                                                  *)
(***************************************************************************)
EXTENDS EventValidation, FiniteSets

CONSTANTS Events,       \* the events that may be published
          MaxEvents,    \* bound on the number of events
          MaxRestarts,  \* bound on the number of times a service dies
          MaxCrashes    \* bound on the number of times notifyd is killed

ASSUME EventsAssumption ==
  \A e \in Events :
    /\ DOMAIN e = {"name", "msg"} /\ e.name[1] = "alarm"
    /\ e.msg = Absent \/ DOMAIN e.msg = Recognized
ASSUME BoundAssumption ==
  MaxEvents \in Nat /\ MaxRestarts \in Nat /\ MaxCrashes \in Nat

Services == {"siren", "led", "mqtt"}

VARIABLES
  pc,               \* where the uloop thread is
  terminated,       \* uloop_end was called by the signal handler
  inbox,            \* events waiting for the uloop, each with its number
  current,          \* the event being handled
  action,           \* the index of the loop over alarm_actions
  any_recognized,
  object_id,        \* what ubus_lookup_id returned
  replied,          \* the reply to the outstanding ubus_invoke has come
  stats,            \* g_stats
  up, id,           \* is the service registered, and under which object id
  requests,         \* the requests ubusd has for it
  playing,          \* the event whose alarm it carries out, 0 if none
  handled,          \* <<service, event>> of each alarm request it handled
  sent_to,          \* the last event whose action was counted as sent
  published,        \* events published so far
  classified,       \* the last event that was classified
  restarts, crashes

handler == <<current, action, any_recognized, object_id, replied>>
services == <<up, id, requests, playing, handled, restarts>>
vars == <<pc, terminated, inbox, handler, stats, services, sent_to, published,
          classified, crashes>>

\* g_stats as notify_stats_init leaves it.
ZeroStats == [received |-> 0, accepted |-> 0, ignored |-> 0, invalid |-> 0,
              sent |-> 0, failed |-> 0, last_result |-> "none"]

NoEvent == [number |-> 0, name |-> <<>>, msg |-> Absent]

Service == alarm_actions[action]

LoopPcs == {"idle", "action", "lookup", "cancel", "cancel_wait", "alarm",
            "alarm_wait"}

TypeOK ==
  /\ pc \in LoopPcs \cup {"failed", "exited", "init", "connect", "add_object",
                          "register"}
  /\ terminated \in BOOLEAN /\ any_recognized \in BOOLEAN /\ replied \in BOOLEAN
  /\ action \in 1 .. Len(alarm_actions) + 1
  /\ object_id \in Nat
  /\ \A k \in DOMAIN inbox : inbox[k].number \in 1 .. published
  /\ stats \in [received : Nat, accepted : Nat, ignored : Nat, invalid : Nat,
                sent : Nat, failed : Nat,
                last_result : {"none", "accepted", "ignored", "invalid"}]
  /\ up \in [Services -> BOOLEAN] /\ id \in [Services -> Nat]
  /\ playing \in [Services -> 0 .. published]
  /\ sent_to \in [Services -> 0 .. published]
  /\ handled \subseteq Services \X (1 .. published)
  /\ published \in 0 .. MaxEvents /\ classified \in 0 .. published
  /\ restarts \in 0 .. MaxRestarts /\ crashes \in 0 .. MaxCrashes
-----------------------------------------------------------------------------
(***************************************************************************)
(* The surroundings.                                                       *)
(***************************************************************************)
\* An event that nobody listens for is lost.
Publish(e) ==
  /\ published < MaxEvents
  /\ published' = published + 1
  /\ inbox' = IF pc \in LoopPcs
                THEN Append(inbox, [number |-> published', name |-> e.name,
                                    msg |-> e.msg])
                ELSE inbox
  /\ UNCHANGED <<pc, terminated, handler, stats, services, sent_to, classified,
                 crashes>>

\* notifyd still waits for the answer to this request.
Outstanding(s, r) ==
  /\ pc \in {"cancel_wait", "alarm_wait"} /\ Service = s
  /\ r.number = current.number /\ pc = IF r.method = "alarm" THEN "alarm_wait"
                                       ELSE "cancel_wait"

\* The service handles its next request and answers.  An alarm may fail to
\* start, which its status code does not tell.
ServiceHandles(s) ==
  /\ up[s] /\ requests[s] # <<>>
  /\ LET r == Head(requests[s]) IN
       /\ requests' = [requests EXCEPT ![s] = Tail(@)]
       /\ \/ /\ r.method = "cancel_alarm"
             /\ playing' = [playing EXCEPT ![s] = 0]
             /\ UNCHANGED handled
          \/ /\ r.method = "alarm"
             /\ \E n \in {0, r.number} : playing' = [playing EXCEPT ![s] = n]
             /\ handled' = handled \cup {<<s, r.number>>}
       /\ replied' = (replied \/ Outstanding(s, r))
  /\ UNCHANGED <<pc, terminated, inbox, current, action, any_recognized,
                 object_id, stats, up, id, restarts, sent_to, published,
                 classified, crashes>>

\* A service ends: its object and the requests for it are gone.
ServiceDies(s) ==
  /\ up[s] /\ restarts < MaxRestarts
  /\ restarts' = restarts + 1
  /\ up' = [up EXCEPT ![s] = FALSE]
  /\ requests' = [requests EXCEPT ![s] = <<>>]
  /\ playing' = [playing EXCEPT ![s] = 0]
  /\ UNCHANGED <<pc, terminated, inbox, handler, stats, id, handled, sent_to,
                 published, classified, crashes>>

\* It registers its object again, under a new id.
ServiceReturns(s) ==
  /\ ~up[s]
  /\ up' = [up EXCEPT ![s] = TRUE] /\ id' = [id EXCEPT ![s] = @ + 1]
  /\ UNCHANGED <<pc, terminated, inbox, handler, stats, requests, playing,
                 handled, restarts, sent_to, published, classified, crashes>>
-----------------------------------------------------------------------------
(***************************************************************************)
(* Life cycle of the process.                                              *)
(***************************************************************************)
NoHandler ==
  /\ current' = NoEvent /\ action' = 1 /\ any_recognized' = FALSE
  /\ object_id' = 0 /\ replied' = FALSE

Init ==
  /\ pc = "exited" /\ terminated = FALSE /\ inbox = <<>>
  /\ current = NoEvent /\ action = 1 /\ any_recognized = FALSE
  /\ object_id = 0 /\ replied = FALSE
  /\ stats = ZeroStats
  /\ up = [s \in Services |-> TRUE] /\ id = [s \in Services |-> 1]
  /\ requests = [s \in Services |-> <<>>]
  /\ playing = [s \in Services |-> 0] /\ handled = {}
  /\ sent_to = [s \in Services |-> 0]
  /\ published = 0 /\ classified = 0 /\ restarts = 0 /\ crashes = 0

\* systemd or an operator executes the binary: notify_stats_init.
Start ==
  /\ pc \in {"failed", "exited"}
  /\ pc' = "connect"
  /\ stats' = ZeroStats
  /\ UNCHANGED <<terminated, inbox, handler, services, sent_to, published,
                 classified, crashes>>

\* ubus_connect, ubus_add_object and ubus_register_event_handler in turn.
Register ==
  /\ pc \in {"connect", "add_object", "register"}
  /\ \/ pc' = CASE pc = "connect" -> "add_object"
                [] pc = "add_object" -> "register"
                [] pc = "register" -> "idle"
     \/ pc' = "failed"
  /\ UNCHANGED <<terminated, inbox, handler, stats, services, sent_to, published,
                 classified, crashes>>

Crash ==
  /\ pc \notin {"failed", "exited"}
  /\ crashes < MaxCrashes
  /\ crashes' = crashes + 1
  /\ pc' = "failed" /\ terminated' = FALSE /\ inbox' = <<>>
  /\ NoHandler
  /\ UNCHANGED <<stats, services, sent_to, published, classified>>

\* SIGTERM or SIGINT while uloop_run runs.
handle_signal ==
  /\ pc \in LoopPcs
  /\ terminated' = TRUE
  /\ UNCHANGED <<pc, inbox, handler, stats, services, sent_to, published,
                 classified, crashes>>

\* uloop_run returns between two events; those still waiting are lost.
LeaveLoop ==
  /\ pc = "idle" /\ terminated
  /\ pc' = "exited" /\ terminated' = FALSE /\ inbox' = <<>>
  /\ UNCHANGED <<handler, stats, services, sent_to, published, classified,
                 crashes>>
-----------------------------------------------------------------------------
(***************************************************************************)
(* handle_alarm_event.                                                     *)
(***************************************************************************)
\* notify_stats_record_event.
record_event(classification) ==
  stats' = [stats EXCEPT !.received = @ + 1, ![classification] = @ + 1,
                         !.last_result = classification]

\* The handler is called; an invalid event is counted and that is all.
ReceiveEvent ==
  /\ pc = "idle" /\ ~terminated /\ inbox # <<>>
  /\ inbox' = Tail(inbox)
  /\ LET e == Head(inbox) IN
       \/ /\ event_validation_check(e.name, e.msg) = "ok"
          /\ pc' = "action"
          /\ current' = e /\ action' = 1 /\ any_recognized' = FALSE
          /\ UNCHANGED <<object_id, replied, stats, classified>>
       \/ /\ event_validation_check(e.name, e.msg) # "ok"
          /\ record_event("invalid")
          /\ classified' = e.number
          /\ UNCHANGED <<pc, handler>>
  /\ UNCHANGED <<terminated, services, sent_to, published, crashes>>

\* The next action of the registry resolves its configuration.
NextAction ==
  /\ pc = "action" /\ action <= Len(alarm_actions)
  /\ IF is_supported_event_type(current.name)
       THEN pc' = "lookup" /\ UNCHANGED action
       ELSE pc' = pc /\ action' = action + 1    \* ACTION_RESULT_IGNORED
  /\ UNCHANGED <<terminated, inbox, current, any_recognized, object_id, replied,
                 stats, services, sent_to, published, classified, crashes>>

\* notify_stats_record_action_result, and the loop goes on.
Accepted ==
  /\ stats' = [stats EXCEPT !.sent = @ + 1]
  /\ sent_to' = [sent_to EXCEPT ![Service] = current.number]
  /\ any_recognized' = TRUE
  /\ action' = action + 1 /\ pc' = "action"

\* Variant: the loop's index is advanced twice.
ErrorSkipsNext ==
  /\ stats' = [stats EXCEPT !.failed = @ + 1]
  /\ any_recognized' = TRUE
  /\ action' = action + 2 /\ pc' = "action"
  /\ UNCHANGED sent_to

\* Variant: the first action that fails ends the loop.
ErrorEndsLoop ==
  /\ stats' = [stats EXCEPT !.failed = @ + 1]
  /\ any_recognized' = TRUE
  /\ action' = Len(alarm_actions) + 1 /\ pc' = "action"
  /\ UNCHANGED sent_to

Error ==
  /\ stats' = [stats EXCEPT !.failed = @ + 1]
  /\ any_recognized' = TRUE
  /\ action' = action + 1 /\ pc' = "action"
  /\ UNCHANGED sent_to

LookupFails ==
  /\ pc = "lookup"
  /\ Error
  /\ UNCHANGED <<terminated, inbox, current, object_id, replied, services,
                 published, classified, crashes>>

\* Variant: the alarm is sent without the cancel before it.
LookupSkipsCancel ==
  /\ pc = "lookup" /\ up[Service]
  /\ object_id' = id[Service] /\ pc' = "alarm"
  /\ UNCHANGED <<terminated, inbox, current, action, any_recognized, replied,
                 stats, services, sent_to, published, classified, crashes>>

Lookup ==
  /\ pc = "lookup" /\ up[Service]
  /\ object_id' = id[Service] /\ pc' = "cancel"
  /\ UNCHANGED <<terminated, inbox, current, action, any_recognized, replied,
                 stats, services, sent_to, published, classified, crashes>>

\* ubus_invoke reaches the service only under the id it has now.
Reachable == up[Service] /\ id[Service] = object_id

invoke(method) ==
  /\ requests' = [requests EXCEPT ![Service] =
                    Append(@, [method |-> method, number |-> current.number,
                               config |-> config(Service, current.name)])]
  /\ replied' = FALSE

\* The result of cancel_alarm is ignored, so a failed call changes nothing.
InvokeCancel ==
  /\ pc = "cancel"
  /\ \/ Reachable /\ invoke("cancel_alarm") /\ pc' = "cancel_wait"
     \/ ~Reachable /\ pc' = "alarm" /\ UNCHANGED <<requests, replied>>
  /\ UNCHANGED <<terminated, inbox, current, action, any_recognized, object_id,
                 stats, up, id, playing, handled, restarts, sent_to, published,
                 classified, crashes>>

\* Variant: the cancel has no timeout.
CancelWaitsForever ==
  /\ pc = "cancel_wait" /\ replied
  /\ pc' = "alarm"
  /\ UNCHANGED <<terminated, inbox, handler, stats, services, sent_to, published,
                 classified, crashes>>

\* The answer comes or the 3000 ms pass.
CancelReturns ==
  /\ pc = "cancel_wait"
  /\ pc' = "alarm"
  /\ UNCHANGED <<terminated, inbox, handler, stats, services, sent_to, published,
                 classified, crashes>>

InvokeAlarm ==
  /\ pc = "alarm"
  /\ \/ /\ Reachable /\ invoke("alarm") /\ pc' = "alarm_wait"
        /\ UNCHANGED <<action, any_recognized, stats, sent_to>>
     \/ ~Reachable /\ Error /\ UNCHANGED <<requests, replied>>
  /\ UNCHANGED <<terminated, inbox, current, object_id, up, id, playing, handled,
                 restarts, published, classified, crashes>>

\* Variant: a timeout is not an error.
AlarmTimeoutAccepted ==
  /\ pc = "alarm_wait"
  /\ Accepted
  /\ UNCHANGED <<terminated, inbox, current, object_id, replied, services,
                 published, classified, crashes>>

AlarmReturns ==
  /\ pc = "alarm_wait"
  /\ \/ replied /\ Accepted
     \/ ~replied /\ Error
  /\ UNCHANGED <<terminated, inbox, current, object_id, replied, services,
                 published, classified, crashes>>

\* After the loop the event is classified and counted.
Classify ==
  /\ pc = "action" /\ action > Len(alarm_actions)
  /\ record_event(IF any_recognized THEN "accepted" ELSE "ignored")
  /\ classified' = current.number
  /\ pc' = "idle"
  /\ NoHandler
  /\ UNCHANGED <<terminated, inbox, services, sent_to, published, crashes>>
-----------------------------------------------------------------------------
MainStep ==
  \/ Register \/ LeaveLoop \/ ReceiveEvent \/ NextAction \/ LookupFails \/ Lookup
  \/ InvokeCancel \/ CancelReturns \/ InvokeAlarm \/ AlarmReturns \/ Classify

Next ==
  \/ Start \/ Crash \/ handle_signal
  \/ \E e \in Events : Publish(e)
  \/ \E s \in Services : ServiceHandles(s) \/ ServiceDies(s) \/ ServiceReturns(s)
  \/ MainStep

Safety == Init /\ [][Next]_vars

\* The uloop thread runs and every ubus_invoke times out.  Nothing is assumed
\* of the services.
Spec == Safety /\ WF_vars(MainStep)
-----------------------------------------------------------------------------
(***************************************************************************)
(* Properties.                                                             *)
(***************************************************************************)
\* What the status method reports (it runs between two events) adds up: every
\* event is classified once, and every accepted event has exactly one counted
\* result for each registered action, whatever failed or timed out.
StatsBalance ==
  pc = "idle" =>
    /\ stats.received = stats.accepted + stats.ignored + stats.invalid
    /\ stats.sent + stats.failed = Len(alarm_actions) * stats.accepted

\* An action is counted as sent only if its service did handle the request.
SentWasHandled ==
  \A s \in Services : sent_to[s] # 0 => <<s, sent_to[s]>> \in handled

\* Once an event's action is counted as sent, the service carries out no older
\* alarm any more, although earlier calls may have timed out and been left in
\* its queue.
NoOlderAlarmAfterSent ==
  \A s \in Services : playing[s] # 0 => playing[s] >= sent_to[s]

\* A service begins an alarm only after it gave up the one before, and begins
\* each event's alarm at most once, in the order of the events.
AlarmBeginsOnce ==
  [][\A s \in Services, n \in 1 .. MaxEvents :
       <<s, n>> \in handled' \ handled =>
         /\ playing[s] = 0
         /\ \A m \in 1 .. MaxEvents : <<s, m>> \in handled => m < n]_vars

\* An event whose name has more parts, "alarm.zone.fire", passes the validation,
\* which looks at the last part only.  From the first action to the
\* classification it puts no request before any service, has no result counted
\* and does not come to count as accepted: the actions know whole names.
NestedNameAsksNobody ==
  [][Len(current.name) > 2 =>
       /\ \A s \in Services : Len(requests'[s]) <= Len(requests[s])
       /\ stats'.sent <= stats.sent /\ stats'.failed <= stats.failed
       /\ stats'.accepted <= stats.accepted]_vars

\* Every event that was received is classified, though services hang or die,
\* unless notifyd itself ends.
EventClassified ==
  \A n \in 1 .. MaxEvents :
    (\E k \in DOMAIN inbox : inbox[k].number = n)
      ~> classified >= n \/ pc \in {"failed", "exited"}

\* SIGTERM ends the process even while it waits for a service.
SignalEndsProcess == terminated ~> pc \in {"failed", "exited"}

\* Two reasons for a rejection as the comment in event_validation.c states
\* them: missing_payload iff no recognized field, "message" included, is there;
\* missing_field iff some field is there but a required one is not.
RejectionReasons ==
  \A k \in DOMAIN inbox :
    LET status == event_validation_check(inbox[k].name, inbox[k].msg)
        msg == inbox[k].msg
        nothing == msg = Absent \/ \A f \in DOMAIN msg : msg[f] = Absent
    IN /\ (status = "missing_payload") = nothing
       /\ (status = "missing_field") =
            (~nothing /\ \E f \in {"type", "severity", "source"} : msg[f] = Absent)

(***************************************************************************)
(* What notify_stats.h says of siren and led: "sent"/"failed" reflect the  *)
(* real hardware outcome.  An action counted as failed for a classified    *)
(* event would then not be carried out.                                    *)
(***************************************************************************)
FailedIsNotCarriedOut ==
  \A s \in {"siren", "led"} :
    playing[s] # 0 /\ playing[s] <= classified => sent_to[s] = playing[s]
=============================================================================
