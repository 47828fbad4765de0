----------------------------- MODULE AuditVerifier -----------------------------
(***************************************************************************)
(* The chain verifier (packages/audit/src/verifier.ts) walking the tables  *)
(* while appends commit to them, on a log whose owner may have damaged     *)
(* rows behind the writers' back: the cases of the table "What the         *)
(* verifier catches" (docs/AUDIT_LOG.md), scripts/verify-audit-chain.ts    *)
(* being one that does it on purpose and undoes it.                        *)
(*                                                                         *)
(* Each SELECT of the walk is a statement of its own on a pool connection, *)
(* outside any transaction: it sees what is committed when it runs, and    *)
(* appends commit between one page and the next and before the head read.  *)
(***************************************************************************)
EXTENDS AuditTables

CONSTANTS BatchSize,    \* rows per page
          OtherBody     \* column values nobody wrote, for an altered row

ASSUME BatchSizeAssumption == BatchSize \in Nat \ {0}
ASSUME OtherBodyAssumption == OtherBody \notin Body

VARIABLES written,      \* the rows as the writers committed them
          damage,       \* what the owner did to the table last, "none" if nothing
          walk,         \* the verifier: its position and what it has found
          verdict       \* the result verifyTenantChain has just returned

verifierVars == <<written, damage, walk, verdict>>
vars == <<tables, verifierVars>>

NoBreak == [reason |-> "none", seq |-> 0]

IdleWalk == [pc |-> "idle"]

NoVerdict == [reason |-> "no verdict"]

\* Ghosts of a walk: damaged and disturbed say whether the tenant's rows were
\* damaged when it began and whether the owner touched the table since; raced,
\* whether a row was committed after the last page was read.
StartOf(t, queue) ==
  [pc |-> "page", tenant |-> t, todo |-> queue \ {t},
   expected |-> GenesisHash(t), afterSeq |-> 0, rowsChecked |-> 0, firstBreak |-> NoBreak,
   damaged |-> RowsOf(t) # {r \in written : r.tenant = t},
   disturbed |-> FALSE, raced |-> FALSE]

Init ==
  /\ TablesInit
  /\ written = {}
  /\ damage = "none"
  /\ walk = IdleWalk
  /\ verdict = NoVerdict

-------------------------------------------------------------------------------
(* The walk *)

Walking == walk.pc \in {"page", "head"}

\* verifyTenantChain for one tenant, or verifyAllChains: SELECT DISTINCT tenant_id.
StartVerify ==
  /\ walk.pc = "idle"
  /\ \E queue \in {{r.tenant : r \in events}} \cup {{t} : t \in Tenant} :
       \E t \in queue : walk' = StartOf(t, queue)
  /\ verdict' = NoVerdict
  /\ UNCHANGED <<tables, written, damage>>

\* The page: the BatchSize rows with the smallest seq after afterSeq.
Page ==
  LET later == {r \in RowsOf(walk.tenant) : r.seq > walk.afterSeq}
  IN {r \in later : Cardinality({q \in later : q.seq < r.seq}) < BatchSize}

Before(r, page) == {q \in page : q.seq < r.seq}

LastOf(rows) == CHOOSE r \in rows : \A q \in rows : q.seq <= r.seq

\* The hash the loop expects when it reaches r, every row before it having passed.
ExpectedAt(r, page) ==
  IF Before(r, page) = {} THEN walk.expected ELSE LastOf(Before(r, page)).rowHash

\* Faulty: the content of the row is not hashed again.
VerifyLinkOnly(r, expected) ==
  IF r.prevHash # expected THEN "prev_hash_mismatch" ELSE "none"

\* Faulty: the link to the row before is not compared.
VerifyContentOnly(r, expected) ==
  IF ComputeRowHash(r.prevHash, r) # r.rowHash THEN "row_hash_mismatch" ELSE "none"

\* The link is compared first: a row that fails both ways is reported for its link.
VerifyLink(r, expected) ==
  IF r.prevHash # expected THEN "prev_hash_mismatch"
  ELSE IF ComputeRowHash(r.prevHash, r) # r.rowHash THEN "row_hash_mismatch"
  ELSE "none"

Broken(page) == {r \in page : VerifyLink(r, ExpectedAt(r, page)) # "none"}

\* The rows of the page that verify: those before the first broken one.
Passed(page) == {r \in page : \A b \in Broken(page) : r.seq < b.seq}

FirstBreak(page) ==
  IF Broken(page) = {} THEN NoBreak
  ELSE LET b == CHOOSE b \in Broken(page) : \A q \in Broken(page) : b.seq <= q.seq
       IN [reason |-> VerifyLink(b, ExpectedAt(b, page)), seq |-> b.seq]

\* Faulty: the next page starts one row too far.
AdvanceTooFar(page) ==
  [walk EXCEPT !.expected = LastOf(Passed(page)).rowHash,
               !.afterSeq = LastOf(Passed(page)).seq + 1,
               !.rowsChecked = @ + Cardinality(Passed(page))]

Advance(page) ==
  [walk EXCEPT !.expected = LastOf(Passed(page)).rowHash,
               !.afterSeq = LastOf(Passed(page)).seq,
               !.rowsChecked = @ + Cardinality(Passed(page))]

\* One page is read and walked; the loop ends at a break or at a short page.
ReadPage ==
  LET page == Page
      next == IF Passed(page) = {} THEN walk ELSE Advance(page)
      last == FirstBreak(page) # NoBreak \/ Cardinality(page) < BatchSize
  IN /\ walk.pc = "page"
     /\ walk' = [next EXCEPT !.firstBreak = FirstBreak(page),
                             !.pc = IF last THEN "head" ELSE "page"]
     /\ verdict' = NoVerdict
     /\ UNCHANGED <<tables, written, damage>>

\* Faulty: the end of the walk is not compared with the recorded head.
TruncatedNever(head) == FALSE

\* A walk that verifies but does not end at the recorded head, if there is one.
Truncated(head) ==
  walk.firstBreak = NoBreak /\ head.exists /\ head.prevHash # walk.expected

\* The head is read and the result returned; verifyAllChains goes on to the next tenant.
ReadHead ==
  LET cut == Truncated(heads[walk.tenant])
  IN /\ walk.pc = "head"
     /\ verdict' = [tenant |-> walk.tenant,
                    valid |-> walk.firstBreak = NoBreak /\ ~cut,
                    reason |-> IF cut THEN "prev_hash_mismatch" ELSE walk.firstBreak.reason,
                    seq |-> walk.firstBreak.seq,
                    rowsChecked |-> walk.rowsChecked,
                    checked |-> {r \in RowsOf(walk.tenant) : r.seq <= walk.afterSeq},
                    headHash |-> walk.expected, damaged |-> walk.damaged, disturbed |-> walk.disturbed,
                    raced |-> walk.raced, kind |-> damage]
     /\ walk' = IF walk.todo = {} THEN IdleWalk
                ELSE LET t == CHOOSE t \in walk.todo : TRUE IN StartOf(t, walk.todo)
     /\ UNCHANGED <<tables, written, damage>>

-------------------------------------------------------------------------------
(* The writers go on, and the owner of the table damages a row. *)

\* What a sequence and random ids have handed out stays so, whatever became of the rows.
CommitAppend ==
  /\ TablesNext
  /\ \A r \in events' \ events, w \in written :
       w.id # r.id /\ w.seq # r.seq /\ (w.tenant = r.tenant => w.seq < r.seq)
  /\ written' = written \cup (events' \ events)
  /\ walk' = IF walk.pc = "head" /\ \E r \in events' \ events : r.tenant = walk.tenant
             THEN [walk EXCEPT !.raced = TRUE] ELSE walk
  /\ verdict' = NoVerdict
  /\ UNCHANGED damage

\* What the owner's statement leaves in audit_events, by kind.
Damaged(kind, r) ==
  LET rest == events \ {r} IN
  CASE kind = "alter"   -> {rest \cup {[r EXCEPT !.body = OtherBody]}}
    [] kind = "rewrite" -> {rest \cup {[r EXCEPT !.body = OtherBody,
                              !.rowHash = ComputeRowHash(r.prevHash, [r EXCEPT !.body = OtherBody])]}}
    [] kind = "delete"  -> {rest}
    [] kind = "reorder" -> {(rest \ {q}) \cup {[r EXCEPT !.seq = q.seq], [q EXCEPT !.seq = r.seq]} :
                              q \in RowsOf(r.tenant) \ {r}}
    [] kind = "move"    -> {rest \cup {[r EXCEPT !.tenant = t]} : t \in Tenant \ {r.tenant}}

Kinds == {"alter", "rewrite", "delete", "reorder", "move"}

Touched == IF Walking THEN [walk EXCEPT !.disturbed = TRUE] ELSE walk

DamageRow ==
  /\ damage = "none"
  /\ \E kind \in Kinds, r \in events :
       events' \in Damaged(kind, r) /\ damage' = kind
  /\ walk' = Touched
  /\ verdict' = NoVerdict
  /\ UNCHANGED <<heads, written>>

\* verify-audit-chain.ts puts the row it altered back.
Restore ==
  /\ damage = "alter"
  /\ events' = written
  /\ damage' = "none"
  /\ walk' = Touched
  /\ verdict' = NoVerdict
  /\ UNCHANGED <<heads, written>>

\* Only the verifier and the writers: nobody touches the table.
UndamagedSpec == Init /\ [][StartVerify \/ ReadPage \/ ReadHead \/ CommitAppend]_vars

-------------------------------------------------------------------------------
(* Properties *)

Reported == verdict # NoVerdict

\* A tenant whose rows are not what the writers committed is never reported valid,
\* whatever was done to them and whatever was appended since (docs/AUDIT_LOG.md,
\* "What the verifier catches"; verifier.ts:63-151), and the reason given is the one its
\* "Detected as" column names: an alteration in place is reported as such; removals,
\* moves and a recomputed hash show as a broken link.
DamageIsReported ==
  Reported /\ verdict.damaged /\ ~verdict.disturbed =>
    /\ ~verdict.valid
    /\ verdict.reason = IF verdict.kind = "alter" THEN "row_hash_mismatch"
                        ELSE "prev_hash_mismatch"

\* An untouched chain is reported valid, whatever pages it was read in, whatever was
\* appended between them and whatever gaps rollbacks left in seq, provided no append
\* of that tenant committed between the last page and the head read.
IntactIsValid ==
  Reported /\ ~verdict.damaged /\ ~verdict.disturbed /\ ~verdict.raced => verdict.valid

\* No row is skipped or walked twice, and what the walk counted as checked is as
\* committed: only a row rewritten together with its hash can pass, and then the
\* walk stops right behind it (the table's "prev_hash_mismatch at the next row").
CheckedRowsAreGenuine ==
  Reported /\ ~verdict.disturbed =>
    /\ Cardinality(verdict.checked) = verdict.rowsChecked
    /\ \A r \in verdict.checked :
         r \in written \/ (verdict.kind = "rewrite" /\ r = LastOf(verdict.checked))

\* "A valid walk that ends somewhere other than the head means rows were removed"
\* (docs/AUDIT_LOG.md:167, verifier.ts:127-129).
BreakMeansRemoval ==
  Reported /\ ~verdict.valid => verdict.damaged \/ verdict.disturbed
===============================================================================
