------------------------------- MODULE MCLed -------------------------------
(***************************************************************************)
(* A small instance of LedService: the solid red, a blinking blue and an   *)
(* unknown id, one finite duration and (absent) the infinite one, and a    *)
(* red channel that may refuse to be written.                              *)
(***************************************************************************)
EXTENDS LedService

MCWordSize == 16
MCLedIds == {2, 3, 9}
MCDurations == {3}
MCFailing == {"red"}

\* Limits: none can be read; one is useless and the two others differ.
MCMaxima ==
  { [c \in Channels |-> Unreadable],
    [c \in Channels |-> CASE c = "red" -> 20 [] c = "green" -> 0 [] OTHER -> 300] }
MCAmbient == {Unreadable}
MCScreen == {Unreadable, 0, 80}
=============================================================================
