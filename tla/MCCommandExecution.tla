------------------------- MODULE MCCommandExecution -------------------------
(* CommandExecution with constants for TLC. *)
EXTENDS CommandExecution

CONSTANT site

MCSiteOf == [t \in Tabs |-> site]
=============================================================================
