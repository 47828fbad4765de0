------------------------------- MODULE AuditLog -------------------------------
(***************************************************************************)
(* What the audit log promises, without tables, hashes, sequence numbers,  *)
(* transactions or locks: every tenant has one history, it only grows, at  *)
(* its end, and no entry is recorded twice.                                *)
(***************************************************************************)
EXTENDS Naturals, Sequences

CONSTANTS Tenant,   \* the tenants
          Entry     \* what one append records: a record with fields tenant and id

VARIABLE log        \* log[t]: the history of tenant t, oldest entry first

Recorded(id) == \E t \in Tenant : \E i \in DOMAIN log[t] : log[t][i].id = id

LogInit == log = [t \in Tenant |-> <<>>]

AppendEntry(e) ==
  /\ ~Recorded(e.id)
  /\ log' = [log EXCEPT ![e.tenant] = Append(@, e)]

LogNext == \E e \in Entry : AppendEntry(e)

LogSpec == LogInit /\ [][LogNext]_log
===============================================================================
