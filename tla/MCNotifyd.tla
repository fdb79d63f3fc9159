----------------------------- MODULE MCNotifyd -----------------------------
(***************************************************************************)
(* Small instances of Notifyd.                                             *)
(***************************************************************************)
EXTENDS Notifyd

Msg(type, severity, source, message) ==
  [type |-> type, severity |-> severity, source |-> source, message |-> message]

Fire(msg) == [name |-> <<"alarm", "fire">>, msg |-> msg]

\* An event all actions react to, a valid one that none supports, and the two
\* ways in which nothing of use is sent: no field at all, or a message only.
Mixed ==
  {Fire(Msg("fire", "high", "door", Absent)),
   [name |-> <<"alarm", "zone", "fire">>, msg |-> Msg("fire", "low", "door", Absent)],
   Fire(Absent),
   Fire(Msg(Absent, Absent, Absent, "text"))}

Supported ==
  {[name |-> <<"alarm", "fire">>, msg |-> Msg("fire", "high", "door", Absent)]}
=============================================================================
