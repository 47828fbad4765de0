------------------------------ MODULE AuditChain ------------------------------
(***************************************************************************)
(* The audit writer: AuditWriter.append (packages/audit/src/writer.ts) run *)
(* by several writers (gateway replicas, and concurrent calls within one)  *)
(* against the tables of AuditTables.                                      *)
(*                                                                         *)
(* A writer is one call of append.  Its transaction runs under READ        *)
(* COMMITTED: what it writes is its own (its draft) until COMMIT, and the  *)
(* row lock on the tenant's chain head is the only thing writers contend   *)
(* for.  seq comes from a bigserial, which a rollback does not give back.  *)
(***************************************************************************)
EXTENDS AuditTables

CONSTANTS Writer,     \* concurrent calls of append
          NoWriter,   \* nobody holds the row lock
          NoDraft     \* no transaction is open

ASSUME WriterAssumption == NoWriter \notin Writer

VARIABLES payloads,   \* event_id of the rows of audit_payloads
          nextSeq,    \* next value of the sequence audit_events_seq_seq
          lock,       \* lock[t]: who holds the row lock on t's chain head
          pc,         \* pc[w]: the statement writer w executes next
          draft,      \* draft[w]: what w's open transaction has computed
          used,       \* event ids already handed out
          acked,      \* events whose append resolved
          failed      \* events whose append rejected

answers == <<used, acked, failed>>
stored == <<events, heads, payloads>>
vars == <<stored, nextSeq, lock, pc, draft, answers>>

Draft == [id : Event, tenant : Tenant, body : Body, capture : BOOLEAN,
          seq : SeqNo \cup {0}, prevHash : Hash]

Statement == {"idle", "ensure", "select", "insert", "advance", "payload", "commit"}

-------------------------------------------------------------------------------
(* One action per statement of the transaction *)

Init ==
  /\ TablesInit
  /\ payloads = {}
  /\ nextSeq = 1
  /\ lock = [t \in Tenant |-> NoWriter]
  /\ pc = [w \in Writer |-> "idle"]
  /\ draft = [w \in Writer |-> NoDraft]
  /\ used = {} /\ acked = {} /\ failed = {}

\* append is called: the row is built under a fresh id and the transaction opens.
Begin(w) ==
  /\ pc[w] = "idle"
  /\ \E e \in Event \ used, t \in Tenant, b \in Body, c \in BOOLEAN :
       /\ used' = used \cup {e}
       /\ draft' = [draft EXCEPT ![w] = [id |-> e, tenant |-> t, body |-> b, capture |-> c,
                                         seq |-> 0, prevHash |-> GenesisHash(t)]]
  /\ pc' = [pc EXCEPT ![w] = "ensure"]
  /\ UNCHANGED <<stored, nextSeq, lock, acked, failed>>

\* INSERT INTO audit_chain_heads ... ON CONFLICT DO NOTHING.  The first writer of a
\* tenant inserts the head and thereby holds it until it commits; a second one
\* waits for that transaction to end.  With a committed head it is a no-op.
EnsureHead(w) ==
  LET t == draft[w].tenant IN
  /\ pc[w] = "ensure"
  /\ \/ heads[t].exists /\ UNCHANGED lock
     \/ ~heads[t].exists /\ lock[t] = NoWriter /\ lock' = [lock EXCEPT ![t] = w]
  /\ pc' = [pc EXCEPT ![w] = "select"]
  /\ UNCHANGED <<stored, nextSeq, draft, answers>>

Holds(w, t) == lock[t] \in {NoWriter, w}

\* Faulty: the head is read without FOR UPDATE.
SelectWithoutLock(w) ==
  /\ pc[w] = "select"
  /\ draft' = [draft EXCEPT ![w].prevHash = heads[draft[w].tenant].prevHash]
  /\ pc' = [pc EXCEPT ![w] = "insert"]
  /\ UNCHANGED <<stored, nextSeq, lock, answers>>

\* Faulty: the head is read once the lock is free, but the lock is not kept.
SelectAndRelease(w) ==
  /\ pc[w] = "select"
  /\ Holds(w, draft[w].tenant)
  /\ lock' = [lock EXCEPT ![draft[w].tenant] = NoWriter]
  /\ draft' = [draft EXCEPT ![w].prevHash = heads[draft[w].tenant].prevHash]
  /\ pc' = [pc EXCEPT ![w] = "insert"]
  /\ UNCHANGED <<stored, nextSeq, answers>>

\* SELECT prev_hash ... FOR UPDATE: waits for the lock, then reads the newest version.
SelectForUpdate(w) ==
  LET t == draft[w].tenant IN
  /\ pc[w] = "select"
  /\ Holds(w, t)
  /\ lock' = [lock EXCEPT ![t] = w]
  /\ draft' = [draft EXCEPT ![w].prevHash = heads[t].prevHash]
  /\ pc' = [pc EXCEPT ![w] = "insert"]
  /\ UNCHANGED <<stored, nextSeq, answers>>

\* INSERT INTO audit_events ... RETURNING seq: the sequence advances at once and for
\* good.  A sequence out of numbers (SeqNo) fails the statement: Rollback.
InsertEvent(w) ==
  /\ pc[w] = "insert"
  /\ nextSeq \in SeqNo
  /\ draft' = [draft EXCEPT ![w].seq = nextSeq]
  /\ nextSeq' = nextSeq + 1
  /\ pc' = [pc EXCEPT ![w] = "advance"]
  /\ UNCHANGED <<stored, lock, answers>>

\* UPDATE audit_chain_heads: needs the row lock, which the writer already holds.
AdvanceHead(w) ==
  LET t == draft[w].tenant IN
  /\ pc[w] = "advance"
  /\ Holds(w, t)
  /\ lock' = [lock EXCEPT ![t] = w]
  /\ pc' = [pc EXCEPT ![w] = IF draft[w].capture THEN "payload" ELSE "commit"]
  /\ UNCHANGED <<stored, nextSeq, draft, answers>>

\* INSERT INTO audit_payloads, for a tenant that keeps its arguments.
InsertPayload(w) ==
  /\ pc[w] = "payload"
  /\ pc' = [pc EXCEPT ![w] = "commit"]
  /\ UNCHANGED <<stored, nextSeq, lock, draft, answers>>

\* Faulty: a failed transaction's connection goes back to the pool still open.
CloseKeepsLock(w) ==
  /\ pc' = [pc EXCEPT ![w] = "idle"]
  /\ draft' = [draft EXCEPT ![w] = NoDraft]
  /\ UNCHANGED lock

\* The transaction of w is over: its lock is free, its draft is gone.
Close(w) ==
  /\ lock' = [t \in Tenant |-> IF lock[t] = w THEN NoWriter ELSE lock[t]]
  /\ pc' = [pc EXCEPT ![w] = "idle"]
  /\ draft' = [draft EXCEPT ![w] = NoDraft]

\* COMMIT: everything the transaction wrote appears at once.  When the answer to
\* COMMIT is lost on the way the row is there, and append rejects all the same.
Commit(w) ==
  LET d == draft[w] IN
  /\ pc[w] = "commit"
  /\ Store(RowOf(d, d.seq, d.prevHash))
  /\ payloads' = IF d.capture THEN payloads \cup {d.id} ELSE payloads
  /\ \/ acked' = acked \cup {d.id} /\ UNCHANGED failed
     \/ failed' = failed \cup {d.id} /\ UNCHANGED acked
  /\ Close(w)
  /\ UNCHANGED <<nextSeq, used>>

\* Faulty: the catch block swallows the error and the caller is told all is well.
RollbackResolves(w) ==
  /\ pc[w] # "idle"
  /\ acked' = acked \cup {draft[w].id}
  /\ Close(w)
  /\ UNCHANGED <<stored, nextSeq, used, failed>>

\* A statement fails, the connection drops or the replica dies before COMMIT.
Rollback(w) ==
  /\ pc[w] # "idle"
  /\ failed' = failed \cup {draft[w].id}
  /\ Close(w)
  /\ UNCHANGED <<stored, nextSeq, used, acked>>

Step(w) ==
  \/ EnsureHead(w) \/ SelectForUpdate(w) \/ InsertEvent(w)
  \/ AdvanceHead(w) \/ InsertPayload(w) \/ Commit(w)

Next == \E w \in Writer : Begin(w) \/ Step(w) \/ Rollback(w)

Spec == Init /\ [][Next]_vars

\* Postgres executes the statement of a live session and queues waiters for a row
\* lock first come first served, so a session that can go on again and again does.
FairSpec == Spec /\ \A w \in Writer : SF_vars(Step(w))

-------------------------------------------------------------------------------
(* Properties *)

\* Every variable keeps its shape, and a writer has a draft exactly while its
\* transaction is open (writer.ts builds the row before BEGIN, drops it after).
TypeOK ==
  /\ TablesTypeOK
  /\ payloads \subseteq Event
  /\ nextSeq \in Nat \ {0}
  /\ lock \in [Tenant -> Writer \cup {NoWriter}]
  /\ pc \in [Writer -> Statement]
  /\ draft \in [Writer -> Draft \cup {NoDraft}]
  /\ \A w \in Writer : pc[w] # "idle" => draft[w] \in Draft
  /\ used \subseteq Event /\ acked \subseteq Event /\ failed \subseteq Event

\* The transactions amount to atomic appends behind the head, in seq order per
\* tenant: each row becomes visible only after every row of its tenant with a
\* smaller seq, so that a reader's next page (seq > last) can miss none.
ImplementsTables == TablesSpec

\* An append that resolved is stored and was not also rejected, and a kept payload
\* has its row, whatever was rolled back or left unanswered (writer.ts:101-159).
AnswersAreTrue ==
  /\ acked \cap failed = {}
  /\ \A e \in acked \cup payloads : \E r \in events : r.id = e

\* An append that has begun is answered: writers of one tenant queue for the head,
\* and neither they nor a rolled back transaction leave it locked.
EveryAppendSettles == \A w \in Writer : pc[w] # "idle" ~> pc[w] = "idle"

-------------------------------------------------------------------------------
(* The inductive invariant of the transactions *)

\* What a writer holds from SELECT FOR UPDATE, and from INSERT, to COMMIT.
Locking == {"insert", "advance", "payload", "commit"}
Numbered == {"advance", "payload", "commit"}

\* A writer past the SELECT holds its tenant's head, and the head it read is still
\* the committed one; past the INSERT its seq is beyond every stored one of the tenant.
LockProtects ==
  /\ \A r \in events : r.seq < nextSeq
  /\ \A w \in Writer :
       /\ pc[w] \in Locking =>
            /\ lock[draft[w].tenant] = w
            /\ draft[w].prevHash = heads[draft[w].tenant].prevHash
       /\ pc[w] \in Numbered =>
            /\ draft[w].seq \in SeqNo /\ draft[w].seq < nextSeq
            /\ \A r \in events : r.seq # draft[w].seq
            /\ \A r \in RowsOf(draft[w].tenant) : r.seq < draft[w].seq
  /\ \A v, w \in Writer :
       v # w /\ pc[v] \in Numbered /\ pc[w] \in Numbered => draft[v].seq # draft[w].seq

\* Ids are spent once: no open transaction shares its id with another or with a row.
IdsAreFresh ==
  /\ \A r \in events : r.id \in used
  /\ \A w \in Writer : pc[w] # "idle" =>
       /\ draft[w].id \in used
       /\ \A r \in events : r.id # draft[w].id
       /\ \A v \in Writer \ {w} : pc[v] # "idle" => draft[v].id # draft[w].id

\* Inductive, and enough for every step to be a step of TablesSpec (writer.ts:101-150):
\* the tables are sound (ChainInv), types, locks and ids as above.
IInv == ChainInv /\ TypeOK /\ LockProtects /\ IdsAreFresh
===============================================================================
