------------------------------- MODULE MCMqtt -------------------------------
(***************************************************************************)
(* Small instances of MqttService: a ring of two slots overflows and wraps *)
(* around within the records of a behaviour.  The constants are model      *)
(* values and numbers, all given in the configurations.                    *)
(***************************************************************************)
EXTENDS MqttService
=============================================================================
