---------------------------- MODULE MCAuditConsole -----------------------------
(***************************************************************************)
(* AuditConsole for TLC: two tenants, a log of up to four rows with gaps   *)
(* in seq, pages shorter than it, one damaged row.  Tenants and events are *)
(* interchangeable; nothing temporal is checked, so symmetry is sound.     *)
(***************************************************************************)
EXTENDS AuditConsole, TLC

Symmetry == Permutations(Tenant) \cup Permutations(Event)
===============================================================================
