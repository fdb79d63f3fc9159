-------------------------- MODULE EventValidation --------------------------
(***************************************************************************)
(* The pure part of emergency-notifyd: the check of an alarm event's       *)
(* payload against its name, and the tables by which each registered       *)
(* action decides whether, and with which pattern, it reacts.              *)
(*                                                                         *)
(* An event name is the sequence of its dot-separated parts, a payload is  *)
(* Absent or a record whose fields are Absent or strings.                  *)
(***************************************************************************)
EXTENDS Integers, Sequences

CONSTANT Absent     \* a missing payload or field

allowed_severities == {"low", "medium", "high", "critical"}

Required == {"type", "severity", "source"}
Recognized == Required \cup {"message"}

present(msg, fields) == {f \in fields : msg[f] # Absent}

\* The part behind the last dot.
event_name_suffix(name) == name[Len(name)]

\* Variant: "message" does not count as a recognized field.
check_ignores_message(name, msg) ==
  IF msg = Absent THEN "missing_payload"
  ELSE IF present(msg, Required) = {} THEN "missing_payload"
  ELSE IF present(msg, Required) # Required THEN "missing_field"
  ELSE IF msg.severity \notin allowed_severities THEN "bad_severity"
  ELSE IF msg.type # event_name_suffix(name) THEN "type_mismatch"
  ELSE "ok"

event_validation_check(name, msg) ==
  IF msg = Absent THEN "missing_payload"
  ELSE IF present(msg, Recognized) = {} THEN "missing_payload"
  ELSE IF present(msg, Required) # Required THEN "missing_field"
  ELSE IF msg.severity \notin allowed_severities THEN "bad_severity"
  ELSE IF msg.type # event_name_suffix(name) THEN "type_mismatch"
  ELSE "ok"

-----------------------------------------------------------------------------
\* The registry, in the order in which the actions are called.
alarm_actions == <<"siren", "led", "mqtt">>

supported == {"fire", "burglary", "panic", "medical", "water_leak"}

\* Variant: the actions look at the suffix only, as the validation does.
supports_by_suffix(name) == event_name_suffix(name) \in supported

\* Each action compares the whole event name, not its suffix.
is_supported_event_type(name) == \E t \in supported : name = <<"alarm", t>>

\* siren_id and led_id by alarm type; mqtt sends the type itself.
siren_config == [t \in supported |->
                   CASE t = "fire" -> 2 [] t = "burglary" -> 4 [] t = "panic" -> 4
                     [] t = "medical" -> 5 [] t = "water_leak" -> 3]

led_config == [t \in supported |->
                 CASE t = "fire" -> 1 [] t = "burglary" -> 2 [] t = "panic" -> 2
                   [] t = "medical" -> 4 [] t = "water_leak" -> 3]

\* What the action asks of its service for an event it supports.
config(action, name) ==
  LET t == event_name_suffix(name) IN
  CASE action = "siren" -> <<"siren_id", siren_config[t]>>
    [] action = "led" -> <<"led_id", led_config[t]>>
    [] action = "mqtt" -> <<"type", t>>
=============================================================================
