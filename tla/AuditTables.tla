------------------------------ MODULE AuditTables ------------------------------
(***************************************************************************)
(* The committed contents of audit_events and audit_chain_heads            *)
(* (infra/migrations/0000_control_plane.sql), the hash chain that ties the *)
(* two together (packages/audit/src/hash.ts) and, as one atomic step, what *)
(* a committed append adds to them.  AuditChain shows that the writers'    *)
(* transactions amount to such steps; AuditVerifier walks these tables.    *)
(*                                                                         *)
(* A digest is represented by what it digests: the hash of a row is the    *)
(* sequence that starts with the tenant (the genesis preimage) and goes on *)
(* with the hashed columns of every row up to that one.  Two digests are   *)
(* then equal exactly when their preimages are: SHA-256 without            *)
(* collisions, and nothing else about it.                                  *)
(***************************************************************************)
EXTENDS Naturals, Sequences, FiniteSets

CONSTANTS Tenant,     \* tenant ids
          Event,      \* event ids
          Body,       \* values of the hashed columns other than id and tenant_id
          SeqNo       \* values of the column seq

ASSUME SeqNoAssumption == SeqNo \subseteq Nat \ {0}

VARIABLES events,     \* audit_events
          heads       \* audit_chain_heads; exists = FALSE: the tenant has no row yet

tables == <<events, heads>>

-------------------------------------------------------------------------------
(* Hashes and rows *)

Columns == [id : Event, tenant : Tenant, body : Body]

Hash == Seq(Tenant \cup Columns)

GenesisHash(t) == <<t>>

\* The columns canonicalRow enumerates; prev_hash, row_hash and seq are not among them.
CanonicalRow(r) == [id |-> r.id, tenant |-> r.tenant, body |-> r.body]

ComputeRowHash(prev, r) == Append(prev, CanonicalRow(r))

Row == [id : Event, tenant : Tenant, body : Body, seq : SeqNo, prevHash : Hash, rowHash : Hash]

ChainHead == [exists : BOOLEAN, prevHash : Hash, length : Nat]

\* The row an append of the columns c writes behind prev, under seq number s.
RowOf(c, s, prev) ==
  [id |-> c.id, tenant |-> c.tenant, body |-> c.body, seq |-> s,
   prevHash |-> prev, rowHash |-> ComputeRowHash(prev, c)]

RowsOf(t) == {r \in events : r.tenant = t}

-------------------------------------------------------------------------------
(* A committed append *)

NoHead(t) == [exists |-> FALSE, prevHash |-> GenesisHash(t), length |-> 0]

TablesInit ==
  /\ events = {}
  /\ heads = [t \in Tenant |-> NoHead(t)]

\* Faulty: the head is left at the predecessor of the new row.
AdvancedToPrev(h, r) == [exists |-> TRUE, prevHash |-> r.prevHash, length |-> h.length + 1]

\* The head behind a new row r: its hash, and one more row.
Advanced(h, r) == [exists |-> TRUE, prevHash |-> r.rowHash, length |-> h.length + 1]

Store(r) ==
  /\ events' = events \cup {r}
  /\ heads' = [heads EXCEPT ![r.tenant] = Advanced(@, r)]

\* The columns c are stored behind the tenant's head, under a fresh id and a seq
\* beyond every one the tenant has; a rolled back append leaves no trace but a gap.
AppendRow(c, s) ==
  /\ \A r \in events : r.id # c.id /\ r.seq # s
  /\ \A r \in RowsOf(c.tenant) : r.seq < s
  /\ Store(RowOf(c, s, heads[c.tenant].prevHash))

TablesNext == \E c \in Columns, s \in SeqNo : AppendRow(c, s)

TablesSpec == TablesInit /\ [][TablesNext]_tables

-------------------------------------------------------------------------------
(* Properties *)

\* Rows and heads keep their columns' types.
TablesTypeOK ==
  /\ events \subseteq Row
  /\ heads \in [Tenant -> ChainHead]

\* r comes directly after q in its tenant's seq order.
Follows(r, q) ==
  /\ q.seq < r.seq
  /\ ~\E p \in RowsOf(r.tenant) : q.seq < p.seq /\ p.seq < r.seq

\* The stored rows of a tenant in seq order are one chain: the first is linked to
\* the genesis hash, each other to the row before it, whatever gaps seq has
\* (writer.ts:47-60, hash.ts:97-122).
LinkedInOrder ==
  \A r \in events :
    /\ r.rowHash = ComputeRowHash(r.prevHash, r)
    /\ \/ /\ r.prevHash = GenesisHash(r.tenant)
          /\ \A q \in RowsOf(r.tenant) : r.seq <= q.seq
       \/ \E q \in RowsOf(r.tenant) : Follows(r, q) /\ r.prevHash = q.rowHash

\* Two stored rows never claim the same predecessor: what writer.ts:56-58 takes
\* the row lock for ("indistinguishable from tampering").
NoFork ==
  \A r, q \in events : r.prevHash = q.prevHash => r = q

\* The chain head is the hash of the tenant's last row and counts its rows: what
\* the verifier compares its walk with (verifier.ts:127-131).
HeadIsLastRow ==
  \A t \in Tenant :
    /\ heads[t].length = Cardinality(RowsOf(t))
    /\ \/ heads[t].prevHash = GenesisHash(t) /\ RowsOf(t) = {}
       \/ \E r \in RowsOf(t) :
            /\ r.rowHash = heads[t].prevHash
            /\ \A q \in RowsOf(t) : q.seq <= r.seq

\* The tables hold the log of module AuditLog, the chain head itself being the
\* history it commits to: append only, one history per tenant, no entry twice.
Log == INSTANCE AuditLog WITH
         Entry <- Columns,
         log   <- [t \in Tenant |-> Tail(heads[t].prevHash)]

ImplementsAuditLog == Log!LogSpec

-------------------------------------------------------------------------------
(* The inductive invariant: the stored rows are the positions of the head. *)

\* h is a prefix of g.
Agrees(h, g) == Len(h) <= Len(g) /\ \A i \in 1..Len(h) : h[i] = g[i]

\* A row's hash is a prefix of its tenant's head; seq, id and position agree.
RowsOnChain ==
  /\ \A r \in events :
       /\ r.rowHash = ComputeRowHash(r.prevHash, r)
       /\ Len(r.prevHash) >= 1
       /\ Agrees(r.rowHash, heads[r.tenant].prevHash)
  /\ \A r, q \in events :
       /\ r.id = q.id => r = q
       /\ r.tenant = q.tenant =>
            /\ r.seq < q.seq <=> Len(r.rowHash) < Len(q.rowHash)
            /\ Len(r.rowHash) = Len(q.rowHash) => r = q

\* The head starts at the genesis, and each later position of it is a stored row.
ChainIsStored ==
  \A t \in Tenant :
    /\ Len(heads[t].prevHash) = heads[t].length + 1
    /\ heads[t].prevHash[1] = t
    /\ heads[t].exists <=> heads[t].length > 0
    /\ \A k \in 2..Len(heads[t].prevHash) :
         \E r \in RowsOf(t) : Len(r.rowHash) = k

ChainInv ==
  /\ TablesTypeOK
  /\ RowsOnChain
  /\ ChainIsStored
  /\ IsFiniteSet(events)
  /\ \A t \in Tenant : heads[t].length = Cardinality(RowsOf(t))
===============================================================================
