------------------------------ MODULE AuditReader ------------------------------
(***************************************************************************)
(* The read side of the audit log: the console's table                     *)
(* (apps/dashboard/src/pages/Audit.tsx), GET /api/audit                    *)
(* (apps/gateway/src/routes/api.ts) and queryAuditEvents                   *)
(* (packages/audit/src/reader.ts), for one operator who pages through the  *)
(* list while appends commit to it.                                        *)
(*                                                                         *)
(* The list of a query is the tenant's matching rows, newest ts first.     *)
(* seq breaks ties, so the order is total; but ts is the clock of the      *)
(* replica that served the call, taken before the append, so a committed   *)
(* row may take any place in the list.  The console always asks for a      *)
(* range that ends now: rows leave the list at its far end as time passes. *)
(***************************************************************************)
EXTENDS AuditTables, SequencesExt

CONSTANT PageSize       \* rows the console asks for at a time

ASSUME PageSizeAssumption == PageSize \in Nat \ {0}

VARIABLE reading        \* the operator's page of the audit table

Closed == [pc |-> "closed"]

ReaderInit == reading = Closed

\* The rows and the total of a page are two statements on two connections; read
\* names those that have been answered.
\* Ghosts: first holds the rows listed when the operator began, seen those shown
\* since; torn says that a row entered the list between the two statements.
Asked(r, page) ==
  [r EXCEPT !.pc = "asked", !.page = page, !.rows = <<>>, !.total = 0, !.read = {}, !.torn = FALSE]

\* The first page for a tenant and a filter: the rows that match it, as they are listed.
OpenTable ==
  /\ reading.pc = "closed"
  /\ \E t \in Tenant : \E matching \in SUBSET RowsOf(t) \ {{}} :
       \E list \in SetToSeqs(matching) :
         reading' = Asked([pc |-> "asked", tenant |-> t, list |-> list, page |-> 0,
                           rows |-> <<>>, total |-> 0, read |-> {}, first |-> matching,
                           seen |-> {}, torn |-> FALSE], 0)
  /\ UNCHANGED tables

\* The search box, a filter or another page of the console: the list starts over.
LeaveTable ==
  /\ reading.pc # "closed"
  /\ reading' = Closed
  /\ UNCHANGED tables

Offset(page) == page * PageSize

\* ORDER BY ts DESC, seq DESC LIMIT PageSize OFFSET page * PageSize
SelectPage ==
  LET from == Offset(reading.page)
      to == IF from + PageSize < Len(reading.list) THEN from + PageSize ELSE Len(reading.list)
  IN /\ reading.pc = "asked" /\ "rows" \notin reading.read
     /\ reading' = [reading EXCEPT !.rows = SubSeq(reading.list, from + 1, to),
                                   !.read = @ \cup {"rows"}]
     /\ UNCHANGED tables

SelectCount ==
  /\ reading.pc = "asked" /\ "total" \notin reading.read
  /\ reading' = [reading EXCEPT !.total = Len(reading.list), !.read = @ \cup {"total"}]
  /\ UNCHANGED tables

\* A statement fails or the gateway answers an error: the console asks again, by
\* itself once and then when the operator presses retry.
QueryFails ==
  /\ reading.pc = "asked" /\ reading.read # {}
  /\ reading' = Asked(reading, reading.page)
  /\ UNCHANGED tables

ShowPage ==
  /\ reading.pc = "asked" /\ reading.read = {"rows", "total"}
  /\ reading' = [reading EXCEPT !.pc = "shown", !.seen = @ \cup Range(reading.rows)]
  /\ UNCHANGED tables

\* Faulty: a page that is not full is not counted.
LastPageFullOnly(total) == IF total < PageSize THEN 0 ELSE total \div PageSize - 1

LastPage(total) == IF total = 0 THEN 0 ELSE (total - 1) \div PageSize

\* The buttons are part of the table: an empty page has none.
Turning == reading.pc = "shown" /\ reading.rows # <<>>

NextPage ==
  /\ Turning /\ reading.page < LastPage(reading.total)
  /\ reading' = Asked(reading, reading.page + 1)
  /\ UNCHANGED tables

PreviousPage ==
  /\ Turning /\ reading.page > 0
  /\ reading' = Asked(reading, reading.page - 1)
  /\ UNCHANGED tables

\* The oldest listed row is older than the range now.
AgeOut ==
  /\ reading.pc # "closed" /\ reading.list # <<>>
  /\ reading' = [reading EXCEPT !.list = Front(@)]
  /\ UNCHANGED tables

ReaderStep == \/ OpenTable \/ LeaveTable \/ SelectPage \/ SelectCount \/ QueryFails
              \/ ShowPage \/ NextPage \/ PreviousPage \/ AgeOut

\* What the commit of the row r does to the list: nothing if the row is another
\* tenant's or does not match, else it takes some place in it.
Listed(r) ==
  \/ UNCHANGED reading
  \/ /\ reading.pc # "closed" /\ r.tenant = reading.tenant
     /\ \E i \in 1..(Len(reading.list) + 1) :
          reading' = [reading EXCEPT
            !.list = InsertAt(@, i, r),
            !.torn = @ \/ (reading.pc = "asked" /\ Cardinality(reading.read) = 1)]

-------------------------------------------------------------------------------
(* Property *)

\* An operator who has come to the last page has been shown every row that was in the
\* list from the beginning and still is, whatever was appended above, between or below
\* meanwhile: rows move to later pages, never to earlier ones.  It takes that no row
\* entered between the two statements of the last page (reader.ts:85-105): a total
\* older than its rows can call a page the last that is not (Audit.tsx:96, 308).
PagingMissesNothing ==
  reading.pc = "shown" /\ ~reading.torn /\ reading.page >= LastPage(reading.total)
    => reading.first \cap Range(reading.list) \subseteq reading.seen
===============================================================================
