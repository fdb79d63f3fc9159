------------------------------ MODULE MCSiren ------------------------------
(***************************************************************************)
(* Small instances of SirenService.  Words have 4 bits, so 14 is -2; the   *)
(* ids are the steady tone, a pattern of three steps and an unknown one,   *)
(* and the durations an explicit 0, a finite one and a "negative" one.     *)
(***************************************************************************)
EXTENDS SirenService

MCWordSize == 16
MCSirenIds == {1, 2, 9}
MCDurations == {0, 3, 14}

\* The run about the reply: one steady and one stepped pattern, one finite
\* duration and (absent) an infinite one.
MCOkIds == {1, 2}
MCOkDurations == {3}
=============================================================================
