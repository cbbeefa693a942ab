-------------------------- MODULE MCCommandBroker --------------------------
(* CommandBroker with constants for TLC. *)
EXTENDS CommandBroker

\* One operation of every kind the broker tells apart.
MCOperations == {"click", "attach", "fill", "huge"}
=============================================================================
