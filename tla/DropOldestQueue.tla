-------------------------- MODULE DropOldestQueue --------------------------
(***************************************************************************)
(* What the queue between the handlers of emergency.mqtt and its publisher *)
(* thread promises: first in, first out, never more than Capacity records, *)
(* a record that does not fit displaces the oldest one, and a restart      *)
(* begins with an empty queue.                                             *)
(***************************************************************************)
EXTENDS Integers, Sequences

CONSTANTS Records, Capacity

VARIABLE contents

TypeInv == contents \in Seq(Records) /\ Len(contents) <= Capacity

Init == contents = <<>>

Put(r) ==
  \/ Len(contents) < Capacity /\ contents' = Append(contents, r)
  \/ Len(contents) = Capacity /\ contents' = Append(Tail(contents), r)

Take == contents # <<>> /\ contents' = Tail(contents)

Restart == contents' = <<>>

Next == (\E r \in Records : Put(r)) \/ Take \/ Restart

Spec == Init /\ [][Next]_contents
=============================================================================
