----------------------------- MODULE MCAuditChain -----------------------------
(***************************************************************************)
(* AuditChain for TLC: two tenants and two writers sharing three events.   *)
(* Writers of one tenant meet at its head, writers of two tenants pass     *)
(* each other, and rollbacks leave gaps in seq between stored rows.        *)
(***************************************************************************)
EXTENDS AuditChain
===============================================================================
