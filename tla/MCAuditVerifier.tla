---------------------------- MODULE MCAuditVerifier ----------------------------
(***************************************************************************)
(* AuditVerifier for TLC, alone with the writers: two tenants, two events. *)
(* Tenants and events are interchangeable; nothing temporal is checked, so *)
(* symmetry is sound.                                                      *)
(***************************************************************************)
EXTENDS AuditVerifier, TLC

Symmetry == Permutations(Tenant) \cup Permutations(Event)
===============================================================================
