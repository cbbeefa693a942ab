----------------------------- MODULE MCAuditLog -----------------------------
(* AuditLog with constants for TLC. *)
EXTENDS AuditLog
=============================================================================
