------------------------------- MODULE MCLog -------------------------------
(***************************************************************************)
(* A small instance of EmergencyLog: two services that may have a worker,  *)
(* and a path of three components.                                         *)
(***************************************************************************)
EXTENDS EmergencyLog
=============================================================================
