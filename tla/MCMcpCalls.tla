----------------------------- MODULE MCMcpCalls -----------------------------
(* McpCalls with constants for TLC. *)
EXTENDS McpCalls
=============================================================================
