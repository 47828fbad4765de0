------------------------------ MODULE AuditConsole -----------------------------
(***************************************************************************)
(* The audit page of the console (apps/dashboard/src/pages/Audit.tsx): the *)
(* list of module AuditReader and the button that has the chain verified,  *)
(* module AuditVerifier, over the tables the writers append to.            *)
(*                                                                         *)
(* A walk and a reading share the tables only, and neither writes to them: *)
(* no step of one changes what the other can do, so they are taken one at  *)
(* a time.  What the owner of the table does is combined with the walk,    *)
(* which is there to report it; a reading sees what the writers do.        *)
(***************************************************************************)
EXTENDS AuditVerifier, AuditReader

consoleVars == <<vars, reading>>

ConsoleInit == Init /\ ReaderInit

Verify ==
  /\ reading = Closed
  /\ StartVerify \/ ReadPage \/ ReadHead
  /\ UNCHANGED reading

Own ==
  /\ reading = Closed
  /\ DamageRow \/ Restore
  /\ UNCHANGED reading

Read ==
  /\ walk = IdleWalk /\ damage = "none"
  /\ ReaderStep
  /\ verdict' = NoVerdict
  /\ UNCHANGED <<written, damage, walk>>

Commit == CommitAppend /\ \A r \in events' \ events : Listed(r)

ConsoleNext == Verify \/ Own \/ Read \/ Commit

ConsoleSpec == ConsoleInit /\ [][ConsoleNext]_consoleVars
===============================================================================
