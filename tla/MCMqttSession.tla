--------------------------- MODULE MCMqttSession ---------------------------
(* TLC instance of MqttSession.                                             *)
EXTENDS MqttSession
=============================================================================
