------------------------------ MODULE Reaction ------------------------------
(***************************************************************************)
(* What a reaction service (the siren, the LED) promises about             *)
(* its physical output, whatever its threads do: at most one pattern is    *)
(* played at a time, a pattern is only ever begun in silence, the output   *)
(* changes only while a pattern is being played or wound down, a service   *)
(* that is up and plays nothing is silent, and a pattern that was told to  *)
(* end does end.  A crash may leave the output as it was; the next start   *)
(* silences it.                                                            *)
(***************************************************************************)
EXTENDS Integers

CONSTANTS Patterns,   \* the pattern identifiers that can be played
          NoPattern   \* the identifier that stands for no pattern, not one of them

VARIABLES stage,      \* "down", "quiet", "active" or "ending"
          pattern,    \* the pattern that is played while active
          sounding    \* TRUE while the output is driven

vars == <<stage, pattern, sounding>>

TypeInv ==
  /\ stage \in {"down", "quiet", "active", "ending"}
  /\ pattern \in Patterns \cup {NoPattern}
  /\ sounding \in BOOLEAN
  /\ (stage = "active") = (pattern # NoPattern)

Init ==
  /\ stage = "down"
  /\ pattern = NoPattern
  /\ sounding \in BOOLEAN

\* On its way up a service with several outputs silences them one by one.
Wipe ==
  /\ stage = "down"
  /\ sounding' = FALSE
  /\ UNCHANGED <<stage, pattern>>

Recover ==
  /\ stage = "down"
  /\ stage' = "quiet" /\ sounding' = FALSE
  /\ UNCHANGED pattern

Begin(p) ==
  /\ stage = "quiet" /\ ~sounding
  /\ stage' = "active" /\ pattern' = p
  /\ UNCHANGED sounding

Drive ==
  /\ stage \in {"active", "ending"}
  /\ sounding' \in BOOLEAN
  /\ UNCHANGED <<stage, pattern>>

Stop ==
  /\ stage = "active"
  /\ stage' = "ending" /\ pattern' = NoPattern
  /\ UNCHANGED sounding

Settle ==
  /\ stage \in {"active", "ending"} /\ ~sounding
  /\ stage' = "quiet" /\ pattern' = NoPattern
  /\ UNCHANGED sounding

Fail ==
  /\ stage # "down"
  /\ stage' = "down" /\ pattern' = NoPattern
  /\ UNCHANGED sounding

Next ==
  \/ Wipe
  \/ Recover
  \/ \E p \in Patterns : Begin(p)
  \/ Drive
  \/ Stop
  \/ Settle
  \/ Fail

\* What the steps promise.
Safety == Init /\ [][Next]_vars

\* A pattern that was told to end is wound down, unless the service dies.
Winds == stage = "ending" ~> stage \in {"quiet", "down"}

Spec == Safety /\ Winds
=============================================================================
