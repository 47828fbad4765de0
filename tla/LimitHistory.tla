------------------------------ MODULE LimitHistory ------------------------------
(***************************************************************************)
(* What a replica's copy of the rate limits promises, without messages,    *)
(* reloads or requests: limits are committed one after the other, and a    *)
(* replica shows nothing yet or one whole committed version, never one     *)
(* older than the version that was current when the replica started.       *)
(***************************************************************************)
EXTENDS Naturals

CONSTANT Replica

VARIABLES latest,   \* number of the version committed last
          shown,    \* shown[r]: the version replica r resolves limits from, 0 for none
          since     \* since[r]: the version that was current when r started

vars == <<latest, shown, since>>

HistoryInit ==
  /\ latest = 1
  /\ shown = [r \in Replica |-> 0]
  /\ since = [r \in Replica |-> 1]

Commit == latest' = latest + 1 /\ UNCHANGED <<shown, since>>

Start(r) ==
  /\ shown[r] = 0
  /\ since' = [since EXCEPT ![r] = latest]
  /\ UNCHANGED <<latest, shown>>

End(r) == shown' = [shown EXCEPT ![r] = 0] /\ UNCHANGED <<latest, since>>

\* Any version since the start: a later one may well be replaced by an earlier one.
Show(r) ==
  /\ \E v \in since[r]..latest : shown' = [shown EXCEPT ![r] = v]
  /\ UNCHANGED <<latest, since>>

HistoryNext == Commit \/ \E r \in Replica : Start(r) \/ Show(r) \/ End(r)

HistorySpec == HistoryInit /\ [][HistoryNext]_vars
===============================================================================
