---------------------------- MODULE AuditChainProofs ----------------------------
(***************************************************************************)
(* Any number of writers, tenants, events, columns and sequence numbers:   *)
(* first the tables' chain invariant under atomic appends and what follows *)
(* from it, then the writers.  Their transactions keep the invariant IInv, *)
(* so every committed transaction is one atomic append to the tables, and  *)
(* what holds of those holds of the writers.                               *)
(***************************************************************************)
EXTENDS AuditChain, FiniteSetTheorems, SequenceTheorems, TLAPS

\* A hash is a sequence, and hashing a row puts it at the next position
\* (hash.ts:77-79, the digest of prev_hash and the row).
LEMMA HashExtends ==
  ASSUME NEW prev \in Hash, NEW c, c.id \in Event, c.tenant \in Tenant, c.body \in Body
  PROVE  /\ ComputeRowHash(prev, c) \in Hash
         /\ Len(ComputeRowHash(prev, c)) = Len(prev) + 1
         /\ \A i \in 1..Len(prev) : ComputeRowHash(prev, c)[i] = prev[i]
         /\ ComputeRowHash(prev, c)[Len(prev) + 1] = CanonicalRow(c)
<1>1. CanonicalRow(c) \in Tenant \cup Columns
  BY DEF CanonicalRow, Columns
<1>2. QED
  BY <1>1, AppendProperties DEF ComputeRowHash, Hash

\* The empty tables satisfy the invariant.
LEMMA InitChainInv == TablesInit => ChainInv
<1> SUFFICES ASSUME TablesInit PROVE ChainInv
  OBVIOUS
<1>1. \A t \in Tenant : <<t>> \in Hash /\ Len(<<t>>) = 1 /\ <<t>>[1] = t
  BY DEF Hash
<1> DEFINE h(t) == heads[t].prevHash
<1>2. /\ events = {}
      /\ heads \in [Tenant -> ChainHead]
      /\ \A t \in Tenant : h(t) = <<t>> /\ heads[t].length = 0 /\ ~heads[t].exists
  BY <1>1 DEF TablesInit, NoHead, GenesisHash, ChainHead
<1>3. \A t \in Tenant : Len(h(t)) = 1 /\ h(t)[1] = t
  BY <1>1, <1>2
<1> HIDE DEF h
<1>4. TablesTypeOK /\ RowsOnChain
  BY <1>2 DEF TablesTypeOK, RowsOnChain
<1>7. ChainIsStored
  <2>1. ASSUME NEW t \in Tenant
        PROVE  /\ Len(h(t)) = heads[t].length + 1
               /\ h(t)[1] = t
               /\ heads[t].exists <=> heads[t].length > 0
               /\ 2..Len(h(t)) = {}
    <3>1. Len(h(t)) = 1 /\ h(t)[1] = t /\ heads[t].length = 0 /\ ~heads[t].exists
      BY <1>2, <1>3
    <3>2. 2..1 = {}
      OBVIOUS
    <3>3. QED
      BY <3>1, <3>2
  <2>2. QED
    BY <2>1 DEF ChainIsStored, h
<1>5. IsFiniteSet(events) /\ \A t \in Tenant : heads[t].length = Cardinality(RowsOf(t))
  <2>1. events = {} /\ \A t \in Tenant : RowsOf(t) = {} /\ heads[t].length = 0
    BY <1>2 DEF RowsOf
  <2>2. QED
    BY <2>1, FS_EmptySet
<1>6. QED
  BY <1>4, <1>5, <1>7 DEF ChainInv

\* What an append stores: a new row of type Row behind the tenant's head, whose
\* hash becomes the head (writer.ts:116-137).
StoredBehind(n, c, s) ==
  /\ n \in Row /\ n \notin events
  /\ n.id = c.id /\ n.tenant = c.tenant /\ n.seq = s
  /\ n.prevHash = heads[c.tenant].prevHash
  /\ n.rowHash = ComputeRowHash(n.prevHash, n)
  /\ Len(n.rowHash) = Len(n.prevHash) + 1
  /\ \A i \in 1..Len(n.prevHash) : n.rowHash[i] = n.prevHash[i]
  /\ n.rowHash[Len(n.prevHash) + 1] = c
  /\ events' = events \cup {n}
  /\ heads' = [heads EXCEPT ![c.tenant] = Advanced(@, n)]

\* An append stores a row like that, and nothing else (writer.ts:116-137).
LEMMA StoredRow ==
  ASSUME TablesTypeOK, NEW c \in Columns, NEW s \in SeqNo, AppendRow(c, s),
         NEW n, n = RowOf(c, s, heads[c.tenant].prevHash)
  PROVE  StoredBehind(n, c, s)
<1>1. heads[c.tenant].prevHash \in Hash
  BY DEF TablesTypeOK, ChainHead, Columns
<1>2. c.id \in Event /\ c.tenant \in Tenant /\ c.body \in Body /\ CanonicalRow(c) = c
  BY DEF Columns, CanonicalRow
<1>3. n = [id |-> c.id, tenant |-> c.tenant, body |-> c.body, seq |-> s,
           prevHash |-> heads[c.tenant].prevHash,
           rowHash |-> ComputeRowHash(heads[c.tenant].prevHash, c)]
  BY DEF RowOf
<1>4. /\ n.id = c.id /\ n.tenant = c.tenant /\ n.body = c.body /\ n.seq = s
      /\ n.prevHash = heads[c.tenant].prevHash
      /\ n.rowHash = ComputeRowHash(n.prevHash, c)
  BY <1>3
<1>5. n.rowHash = ComputeRowHash(n.prevHash, n)
  BY <1>4 DEF ComputeRowHash, CanonicalRow
<1>6. /\ n.rowHash \in Hash
      /\ Len(n.rowHash) = Len(n.prevHash) + 1
      /\ \A i \in 1..Len(n.prevHash) : n.rowHash[i] = n.prevHash[i]
      /\ n.rowHash[Len(n.prevHash) + 1] = c
  <2>1. n.prevHash \in Hash
    BY <1>1, <1>4
  <2>2. /\ ComputeRowHash(n.prevHash, c) \in Hash
        /\ Len(ComputeRowHash(n.prevHash, c)) = Len(n.prevHash) + 1
        /\ \A i \in 1..Len(n.prevHash) : ComputeRowHash(n.prevHash, c)[i] = n.prevHash[i]
        /\ ComputeRowHash(n.prevHash, c)[Len(n.prevHash) + 1] = CanonicalRow(c)
    BY <1>2, <2>1, HashExtends
  <2>3. QED
    BY <1>2, <1>4, <2>2
<1>7. n \in Row
  BY <1>1, <1>2, <1>3, <1>4, <1>6 DEF Row
<1>8. n \notin events
  BY <1>4 DEF AppendRow
<1>9. events' = events \cup {n} /\ heads' = [heads EXCEPT ![c.tenant] = Advanced(@, n)]
  BY <1>4 DEF AppendRow, Store
<1>10. QED
  BY <1>4, <1>5, <1>6, <1>7, <1>8, <1>9 DEF StoredBehind

\* A committed append keeps the invariant: the only new position of the head is
\* the new row (writer.ts:109-137).
LEMMA AppendChainInv ==
  ASSUME ChainInv, NEW c \in Columns, NEW s \in SeqNo, AppendRow(c, s)
  PROVE  ChainInv'
<1> DEFINE T == c.tenant
           n == RowOf(c, s, heads[T].prevHash)
           H(t) == heads[t].prevHash
<1>1. /\ TablesTypeOK /\ RowsOnChain /\ ChainIsStored /\ IsFiniteSet(events)
      /\ \A t \in Tenant : heads[t].length = Cardinality(RowsOf(t))
      /\ T \in Tenant
  BY DEF ChainInv, Columns
<1>2. /\ n \in Row /\ n \notin events
      /\ n.id = c.id /\ n.tenant = T /\ n.seq = s
      /\ n.prevHash = H(T)
      /\ n.rowHash = ComputeRowHash(n.prevHash, n)
      /\ Len(n.rowHash) = Len(H(T)) + 1
      /\ \A i \in 1..Len(H(T)) : n.rowHash[i] = H(T)[i]
      /\ events' = events \cup {n}
      /\ heads' = [heads EXCEPT ![T] = Advanced(@, n)]
  <2>1. StoredBehind(n, c, s)
    <3> HIDE DEF n, H
    <3>1. n = RowOf(c, s, heads[c.tenant].prevHash)
      BY DEF n
    <3>2. QED
      BY <1>1, <3>1, StoredRow
  <2> HIDE DEF n
  <2>2. QED
    BY <2>1 DEF StoredBehind
<1> HIDE DEF n, T
<1>3. /\ heads \in [Tenant -> ChainHead]
      /\ heads'[T] = Advanced(heads[T], n)
      /\ \A t \in Tenant \ {T} : heads'[t] = heads[t]
  BY <1>1, <1>2 DEF TablesTypeOK
<1>4. /\ H(T)' = n.rowHash
      /\ heads'[T].length = heads[T].length + 1
      /\ heads'[T].exists
      /\ \A t \in Tenant \ {T} : H(t)' = H(t)
  BY <1>3 DEF Advanced
<1>5. \A t \in Tenant : /\ H(t) \in Hash /\ Len(H(t)) \in Nat
                        /\ heads[t].length \in Nat
                        /\ Len(H(t)) = heads[t].length + 1
                        /\ H(t)[1] = t
  BY <1>1, LenProperties DEF TablesTypeOK, ChainHead, Hash, ChainIsStored
<1>6. \A r \in events : /\ r.tenant \in Tenant /\ r.seq \in Nat
                        /\ Len(r.rowHash) \in Nat /\ Len(r.rowHash) <= Len(H(r.tenant))
                        /\ \A i \in 1..Len(r.rowHash) : r.rowHash[i] = H(r.tenant)[i]
  BY <1>1, SeqNoAssumption, LenProperties DEF TablesTypeOK, Row, Hash, RowsOnChain, Agrees
<1>7. \A r \in events : r.id # n.id /\ (r.tenant = T => r.seq < n.seq)
  BY <1>2 DEF AppendRow, RowsOf, T
<1> HIDE DEF H
<1>8. TablesTypeOK'
  <2>1. Advanced(heads[T], n) \in ChainHead
    BY <1>1, <1>2, <1>5 DEF Advanced, ChainHead, Row
  <2>2. heads' \in [Tenant -> ChainHead]
    BY <1>2, <1>3, <2>1
  <2>3. events' \subseteq Row
    BY <1>1, <1>2 DEF TablesTypeOK
  <2>4. QED
    BY <2>2, <2>3 DEF TablesTypeOK
<1>9. RowsOnChain'
  <2>1. ASSUME NEW r \in events'
        PROVE  /\ r.rowHash = ComputeRowHash(r.prevHash, r)
               /\ Len(r.prevHash) >= 1
               /\ Agrees(r.rowHash, H(r.tenant)')
    <3>1. CASE r = n
      BY <3>1, <1>1, <1>2, <1>4, <1>5 DEF Agrees
    <3>2. CASE r \in events /\ r.tenant # T
      BY <3>2, <1>1, <1>4, <1>6 DEF RowsOnChain, Agrees
    <3>3. CASE r \in events /\ r.tenant = T
      <4>1. Len(r.rowHash) <= Len(n.rowHash)
        BY <3>3, <1>1, <1>2, <1>5, <1>6
      <4>2. \A i \in 1..Len(r.rowHash) : r.rowHash[i] = n.rowHash[i]
        BY <3>3, <1>1, <1>2, <1>5, <1>6
      <4>3. QED
        BY <3>3, <4>1, <4>2, <1>1, <1>4 DEF RowsOnChain, Agrees
    <3>4. QED
      BY <1>2, <3>1, <3>2, <3>3
  <2>2. ASSUME NEW r \in events', NEW q \in events'
        PROVE  /\ r.id = q.id => r = q
               /\ r.tenant = q.tenant =>
                    /\ r.seq < q.seq <=> Len(r.rowHash) < Len(q.rowHash)
                    /\ Len(r.rowHash) = Len(q.rowHash) => r = q
    <3>1. CASE r \in events /\ q \in events
      BY <3>1, <1>1 DEF RowsOnChain
    <3>2. n.seq \in Nat /\ Len(n.rowHash) \in Nat
      BY <1>1, <1>2, <1>5, SeqNoAssumption
    <3>3. \A p \in events : p.tenant = T =>
            /\ p.seq \in Nat /\ p.seq < n.seq
            /\ Len(p.rowHash) \in Nat /\ Len(p.rowHash) < Len(n.rowHash)
      BY <1>1, <1>2, <1>5, <1>6, <1>7
    <3>4. CASE r = n /\ q \in events
      BY <3>2, <3>3, <3>4, <1>2, <1>7
    <3>5. CASE r \in events /\ q = n
      BY <3>2, <3>3, <3>5, <1>2, <1>7
    <3>6. CASE r = n /\ q = n
      BY <3>2, <3>6
    <3>7. QED
      BY <1>2, <3>1, <3>4, <3>5, <3>6
  <2>3. QED
    BY <2>1, <2>2 DEF RowsOnChain, H
<1>10. ChainIsStored'
  <2>1. ASSUME NEW t \in Tenant \ {T}
        PROVE  RowsOf(t)' = RowsOf(t)
    BY <1>2 DEF RowsOf
  <2>2. RowsOf(T)' = RowsOf(T) \cup {n}
    BY <1>2 DEF RowsOf
  <2>3. ASSUME NEW t \in Tenant
        PROVE  /\ Len(H(t)') = heads'[t].length + 1
               /\ H(t)'[1] = t
               /\ heads'[t].exists <=> heads'[t].length > 0
               /\ \A k \in 2..Len(H(t)') : \E r \in RowsOf(t)' : Len(r.rowHash) = k
    <3>1. CASE t # T
      <4>1. H(t)' = H(t) /\ heads'[t] = heads[t] /\ RowsOf(t)' = RowsOf(t)
        BY <3>1, <2>1, <1>3, <1>4
      <4>2. QED
        BY <4>1, <1>1 DEF ChainIsStored, H
    <3>2. CASE t = T
      <4>1. Len(H(t)') = heads'[t].length + 1 /\ H(t)'[1] = t
        BY <3>2, <1>1, <1>2, <1>4, <1>5
      <4>2. heads'[t].exists <=> heads'[t].length > 0
        BY <3>2, <1>1, <1>4, <1>5
      <4>3. ASSUME NEW k \in 2..Len(H(t)')
            PROVE  \E r \in RowsOf(t)' : Len(r.rowHash) = k
        <5>1. CASE k = Len(n.rowHash)
          BY <5>1, <3>2, <2>2
        <5>2. CASE k # Len(n.rowHash)
          <6>1. k \in 2..Len(H(T))
            BY <5>2, <3>2, <4>3, <1>1, <1>2, <1>4, <1>5
          <6>2. \E r \in RowsOf(T) : Len(r.rowHash) = k
            BY <6>1, <1>1 DEF ChainIsStored, H
          <6>3. QED
            BY <6>2, <3>2, <2>2
        <5>3. QED
          BY <5>1, <5>2
      <4>4. QED
        BY <4>1, <4>2, <4>3
    <3>3. QED
      BY <3>1, <3>2
  <2>4. QED
    BY <2>3 DEF ChainIsStored, H
<1>11. IsFiniteSet(events') /\ \A t \in Tenant : heads'[t].length = Cardinality(RowsOf(t)')
  <2>1. IsFiniteSet(events')
    BY <1>1, <1>2, FS_AddElement
  <2>2. ASSUME NEW t \in Tenant
        PROVE  heads'[t].length = Cardinality(RowsOf(t)')
    <3>1. CASE t # T
      <4>1. RowsOf(t)' = RowsOf(t)
        BY <3>1, <1>2 DEF RowsOf
      <4>2. QED
        BY <3>1, <4>1, <1>1, <1>3
    <3>2. CASE t = T
      <4>1. RowsOf(T)' = RowsOf(T) \cup {n} /\ n \notin RowsOf(T)
        BY <1>2 DEF RowsOf
      <4>2. IsFiniteSet(RowsOf(T))
        BY <1>1, FS_Subset DEF RowsOf
      <4>3. Cardinality(RowsOf(T)') = Cardinality(RowsOf(T)) + 1
        BY <4>1, <4>2, FS_AddElement
      <4>4. QED
        BY <3>2, <4>3, <1>1, <1>4
    <3>3. QED
      BY <3>1, <3>2
  <2>3. QED
    BY <2>1, <2>2
<1>12. QED
  BY <1>8, <1>9, <1>10, <1>11 DEF ChainInv

\* What leaves the tables alone leaves the invariant alone.
LEMMA StutterChainInv ==
  ASSUME ChainInv, UNCHANGED tables
  PROVE  ChainInv'
  BY DEF tables, ChainInv, TablesTypeOK, RowsOnChain, ChainIsStored, RowsOf

\* From the first row on, the stored rows of a tenant are the positions of its head,
\* in seq order (writer.ts:101-150).
THEOREM TablesKeepChainInv == TablesSpec => []ChainInv
<1>1. ASSUME ChainInv, [TablesNext]_tables PROVE ChainInv'
  <2>1. CASE TablesNext
    BY <1>1, <2>1, AppendChainInv DEF TablesNext
  <2>2. CASE UNCHANGED tables
    BY <1>1, <2>2, StutterChainInv
  <2>3. QED
    BY <1>1, <2>1, <2>2
<1>2. QED
  BY <1>1, InitChainInv, PTL DEF TablesSpec

-------------------------------------------------------------------------------
(* What the invariant gives *)

\* A row is one position of its tenant's head, and all its hash says is there.
LEMMA RowPosition ==
  ASSUME ChainInv, NEW r \in events
  PROVE  /\ r.tenant \in Tenant /\ r.seq \in Nat
         /\ r.prevHash \in Hash /\ r.rowHash \in Hash
         /\ Len(r.prevHash) \in Nat /\ Len(r.prevHash) >= 1
         /\ Len(r.rowHash) = Len(r.prevHash) + 1
         /\ Len(r.rowHash) <= Len(heads[r.tenant].prevHash)
         /\ \A i \in 1..Len(r.rowHash) : r.rowHash[i] = heads[r.tenant].prevHash[i]
         /\ \A i \in 1..Len(r.prevHash) : r.prevHash[i] = heads[r.tenant].prevHash[i]
         /\ r.prevHash[1] = r.tenant
<1>1. /\ r \in Row /\ r.rowHash = ComputeRowHash(r.prevHash, r)
      /\ Len(r.prevHash) >= 1
      /\ Agrees(r.rowHash, heads[r.tenant].prevHash)
  BY DEF ChainInv, TablesTypeOK, RowsOnChain
<1>2. /\ r.tenant \in Tenant /\ r.id \in Event /\ r.body \in Body /\ r.seq \in Nat
      /\ r.prevHash \in Hash /\ r.rowHash \in Hash
  BY <1>1, SeqNoAssumption DEF Row
<1>3. Len(r.prevHash) \in Nat
  BY <1>2, LenProperties DEF Hash
<1>4. /\ Len(r.rowHash) = Len(r.prevHash) + 1
      /\ \A i \in 1..Len(r.prevHash) : r.rowHash[i] = r.prevHash[i]
  BY <1>1, <1>2, HashExtends
<1>5. heads[r.tenant].prevHash[1] = r.tenant
  BY <1>2 DEF ChainInv, ChainIsStored
<1>6. /\ Len(r.rowHash) <= Len(heads[r.tenant].prevHash)
      /\ \A i \in 1..Len(r.rowHash) : r.rowHash[i] = heads[r.tenant].prevHash[i]
  BY <1>1 DEF Agrees
<1>7. \A i \in 1..Len(r.prevHash) : r.prevHash[i] = heads[r.tenant].prevHash[i]
  BY <1>3, <1>4, <1>6
<1>8. 1 \in 1..Len(r.prevHash)
  BY <1>1, <1>3
<1>9. QED
  BY <1>1, <1>2, <1>3, <1>4, <1>5, <1>6, <1>7, <1>8

\* Positions tell two rows apart: equal predecessors, equal positions, one row.
LEMMA InvNoFork == ChainInv => NoFork
<1> SUFFICES ASSUME ChainInv, NEW r \in events, NEW q \in events, r.prevHash = q.prevHash
             PROVE  r = q
  BY DEF NoFork
<1>1. r.tenant = q.tenant /\ Len(r.rowHash) = Len(q.rowHash)
  BY RowPosition
<1>2. QED
  BY <1>1 DEF ChainInv, RowsOnChain

\* A row's predecessor is the row one position before it, or the genesis.
LEMMA InvLinkedInOrder == ChainInv => LinkedInOrder
<1> SUFFICES ASSUME ChainInv, NEW r \in events
             PROVE  /\ r.rowHash = ComputeRowHash(r.prevHash, r)
                    /\ \/ /\ r.prevHash = GenesisHash(r.tenant)
                          /\ \A q \in RowsOf(r.tenant) : r.seq <= q.seq
                       \/ \E q \in RowsOf(r.tenant) : Follows(r, q) /\ r.prevHash = q.rowHash
  BY DEF LinkedInOrder
<1> DEFINE t == r.tenant
           k == Len(r.prevHash)
           h == heads[t].prevHash
<1>1. /\ t \in Tenant /\ r.seq \in Nat /\ k \in Nat /\ k >= 1 /\ Len(r.rowHash) = k + 1
      /\ r.prevHash \in Seq(Tenant \cup Columns) /\ r.prevHash[1] = t
      /\ k + 1 <= Len(h)
      /\ \A i \in 1..k : r.prevHash[i] = h[i]
      /\ r \in RowsOf(t)
  BY RowPosition DEF Hash, RowsOf
<1>2. r.rowHash = ComputeRowHash(r.prevHash, r)
  BY DEF ChainInv, RowsOnChain
<1>3. ASSUME NEW q \in RowsOf(t)
      PROVE  /\ q.rowHash \in Seq(Tenant \cup Columns)
             /\ Len(q.rowHash) \in Nat /\ Len(q.rowHash) >= 2 /\ q.seq \in Nat
             /\ \A i \in 1..Len(q.rowHash) : q.rowHash[i] = h[i]
             /\ \A p \in RowsOf(t) : q.seq < p.seq <=> Len(q.rowHash) < Len(p.rowHash)
  <2>1. q \in events /\ q.tenant = t
    BY DEF RowsOf
  <2>2. \A p \in RowsOf(t) : q.seq < p.seq <=> Len(q.rowHash) < Len(p.rowHash)
    BY <2>1 DEF ChainInv, RowsOnChain, RowsOf
  <2>3. QED
    BY <2>1, <2>2, RowPosition DEF Hash
<1>4. Len(h) \in Nat /\ \A i \in 2..Len(h) : \E q \in RowsOf(t) : Len(q.rowHash) = i
  BY <1>1, LenProperties DEF ChainInv, TablesTypeOK, ChainIsStored, ChainHead, Hash
<1> HIDE DEF t, k, h
<1>5. CASE k = 1
  <2>1. r.prevHash = <<t>>
    <3>1. <<t>> \in Seq(Tenant \cup Columns) /\ Len(<<t>>) = 1 /\ <<t>>[1] = t
      BY <1>1
    <3>2. \A i \in 1..k : i = 1
      BY <1>5
    <3>3. \A i \in 1..k : r.prevHash[i] = <<t>>[i]
      BY <1>1, <3>1, <3>2
    <3>4. QED
      BY <1>1, <1>5, <3>1, <3>3, SeqEqual DEF k
  <2>2. ASSUME NEW q \in RowsOf(t) PROVE r.seq <= q.seq
    <3>1. ~(Len(q.rowHash) < Len(r.rowHash))
      BY <1>1, <1>3, <1>5
    <3>2. ~(q.seq < r.seq)
      BY <1>1, <1>3, <3>1
    <3>3. QED
      BY <1>1, <1>3, <3>2
  <2>3. QED
    BY <1>2, <2>1, <2>2 DEF GenesisHash, t
<1>6. CASE k # 1
  <2>1. PICK q \in RowsOf(t) : Len(q.rowHash) = k
    BY <1>1, <1>4, <1>6
  <2>2. q.rowHash = r.prevHash
    <3>1. /\ q.rowHash \in Seq(Tenant \cup Columns) /\ r.prevHash \in Seq(Tenant \cup Columns)
          /\ Len(q.rowHash) = Len(r.prevHash)
      BY <1>1, <1>3, <2>1 DEF k
    <3>2. \A i \in 1..Len(q.rowHash) : q.rowHash[i] = r.prevHash[i]
      BY <1>1, <1>3, <2>1
    <3>3. QED
      BY <3>1, <3>2, SeqEqual
  <2>3. q.seq < r.seq
    BY <1>1, <1>3, <2>1
  <2>4. ASSUME NEW p \in RowsOf(t), q.seq < p.seq, p.seq < r.seq PROVE FALSE
    BY <1>1, <1>3, <2>1, <2>4
  <2>5. QED
    BY <1>2, <2>2, <2>3, <2>4 DEF Follows, t
<1>7. QED
  BY <1>5, <1>6

\* The head's last position is the last row's, so its hash is the head.
LEMMA InvHeadIsLastRow == ChainInv => HeadIsLastRow
<1> SUFFICES ASSUME ChainInv, NEW t \in Tenant
             PROVE  /\ heads[t].length = Cardinality(RowsOf(t))
                    /\ \/ heads[t].prevHash = GenesisHash(t) /\ RowsOf(t) = {}
                       \/ \E r \in RowsOf(t) :
                            /\ r.rowHash = heads[t].prevHash
                            /\ \A q \in RowsOf(t) : q.seq <= r.seq
  BY DEF HeadIsLastRow
<1> DEFINE h == heads[t].prevHash
<1>1. /\ h \in Hash /\ Len(h) \in Nat /\ heads[t].length \in Nat
      /\ Len(h) = heads[t].length + 1 /\ h[1] = t
      /\ heads[t].length = Cardinality(RowsOf(t))
      /\ \A k \in 2..Len(h) : \E r \in RowsOf(t) : Len(r.rowHash) = k
  BY LenProperties DEF ChainInv, TablesTypeOK, ChainIsStored, ChainHead, Hash
<1> HIDE DEF h
<1>2. \A r \in RowsOf(t) : /\ r \in events /\ r.tenant = t
                           /\ r.rowHash \in Hash /\ Len(r.rowHash) \in Nat /\ r.seq \in Nat
                           /\ Len(r.rowHash) <= Len(h)
                           /\ \A i \in 1..Len(r.rowHash) : r.rowHash[i] = h[i]
  BY SeqNoAssumption, LenProperties DEF ChainInv, TablesTypeOK, Row, Hash, RowsOnChain, Agrees, RowsOf, h
<1>3. CASE heads[t].length = 0
  <2>1. RowsOf(t) = {}
    <3>1. IsFiniteSet(RowsOf(t))
      BY FS_Subset DEF ChainInv, RowsOf
    <3>2. QED
      BY <1>1, <1>3, <3>1, FS_EmptySet
  <2>2. Len(h) = 1 /\ Len(<<t>>) = 1 /\ <<t>>[1] = t /\ <<t>> \in Seq(Tenant \cup Columns)
    BY <1>1, <1>3
  <2>3. \A i \in 1..Len(h) : h[i] = <<t>>[i]
    <3>1. \A i \in 1..1 : i = 1
      OBVIOUS
    <3>2. QED
      BY <1>1, <2>2, <3>1
  <2>4. h = <<t>>
    BY <1>1, <2>2, <2>3, SeqEqual DEF Hash
  <2>5. QED
    BY <1>1, <2>1, <2>4 DEF GenesisHash, h
<1>4. CASE heads[t].length # 0
  <2>1. PICK r \in RowsOf(t) : Len(r.rowHash) = Len(h)
    BY <1>1, <1>4
  <2>2. r.rowHash = h
    BY <1>1, <1>2, <2>1, SeqEqual DEF Hash
  <2>3. ASSUME NEW q \in RowsOf(t) PROVE q.seq <= r.seq
    <3>1. ~(Len(r.rowHash) < Len(q.rowHash))
      BY <1>2, <2>1
    <3>2. r.seq < q.seq <=> Len(r.rowHash) < Len(q.rowHash)
      BY <1>2, <2>1 DEF ChainInv, RowsOnChain
    <3>3. QED
      BY <1>2, <3>1, <3>2
  <2>4. QED
    BY <1>1, <2>2, <2>3 DEF h
<1>5. QED
  BY <1>3, <1>4

-------------------------------------------------------------------------------
(* The tables hold the abstract log *)

\* The history a head commits to: what it holds behind the genesis.
LEMMA TailAppends ==
  ASSUME NEW h \in Hash, Len(h) >= 1, NEW c \in Columns
  PROVE  Tail(Append(h, c)) = Append(Tail(h), c)
<1>1. h \in Seq(Tenant \cup Columns) /\ c \in Tenant \cup Columns /\ h # <<>>
  BY EmptySeq DEF Hash
<1>2. QED
  BY <1>1, HeadTailAppend

\* What is recorded at some place of a history is a stored row.
LEMMA RecordedIsStored ==
  ASSUME ChainInv, NEW id, Log!Recorded(id)
  PROVE  \E r \in events : r.id = id
<1> DEFINE h(t) == heads[t].prevHash
<1>1. PICK t \in Tenant : \E i \in DOMAIN Tail(h(t)) : Tail(h(t))[i].id = id
  BY DEF Log!Recorded
<1>2. /\ h(t) \in Seq(Tenant \cup Columns) /\ h(t) # <<>> /\ Len(h(t)) \in Nat
      /\ \A k \in 2..Len(h(t)) : \E r \in RowsOf(t) : Len(r.rowHash) = k
  <2>1. heads[t].length \in Nat /\ Len(h(t)) = heads[t].length + 1 /\ h(t) \in Seq(Tenant \cup Columns)
    BY DEF ChainInv, TablesTypeOK, ChainIsStored, ChainHead, Hash
  <2>2. QED
    BY <2>1, EmptySeq DEF ChainInv, ChainIsStored
<1> HIDE DEF h
<1>3. /\ Tail(h(t)) \in Seq(Tenant \cup Columns)
      /\ Len(Tail(h(t))) = Len(h(t)) - 1
      /\ \A i \in 1..Len(Tail(h(t))) : Tail(h(t))[i] = h(t)[i + 1]
  BY <1>2, HeadTailProperties
<1>4. PICK i \in 1..(Len(h(t)) - 1) : Tail(h(t))[i].id = id
  BY <1>1, <1>3, LenProperties
<1>5. Tail(h(t))[i] = h(t)[i + 1] /\ i + 1 \in 2..Len(h(t))
  BY <1>2, <1>3, <1>4
<1>6. PICK r \in RowsOf(t) : Len(r.rowHash) = i + 1
  BY <1>2, <1>5
<1>7. r \in events /\ r.tenant = t
  BY <1>6 DEF RowsOf
<1>8. h(t)[i + 1] = CanonicalRow(r)
  <2>1. r.rowHash[i + 1] = h(t)[i + 1] /\ Len(r.rowHash) = Len(r.prevHash) + 1 /\ r.prevHash \in Hash
    BY <1>4, <1>6, <1>7, RowPosition DEF h
  <2>2. r.rowHash = ComputeRowHash(r.prevHash, r) /\ r.id \in Event /\ r.tenant \in Tenant /\ r.body \in Body
    BY <1>7 DEF ChainInv, TablesTypeOK, RowsOnChain, Row
  <2>3. r.rowHash[Len(r.prevHash) + 1] = CanonicalRow(r)
    BY <2>1, <2>2, HashExtends
  <2>4. QED
    BY <2>1, <2>3, <1>6
<1>9. QED
  BY <1>4, <1>5, <1>7, <1>8 DEF CanonicalRow

\* A committed append is an append to the tenant's history, and of nothing that is
\* recorded in any (writer.ts:101-150).
LEMMA AppendRowAppendsEntry ==
  ASSUME ChainInv, NEW c \in Columns, NEW s \in SeqNo, AppendRow(c, s)
  PROVE  Log!AppendEntry(c)
<1> DEFINE T == c.tenant
           n == RowOf(c, s, heads[T].prevHash)
<1>1. /\ T \in Tenant /\ TablesTypeOK
      /\ CanonicalRow(c) = c
  BY DEF ChainInv, Columns, CanonicalRow
<1>2. /\ n.prevHash = heads[T].prevHash /\ n.rowHash = Append(heads[T].prevHash, c)
      /\ heads' = [heads EXCEPT ![T] = Advanced(@, n)]
      /\ n.tenant = T
  BY <1>1 DEF AppendRow, Store, RowOf, ComputeRowHash
<1> HIDE DEF n
<1>3. /\ heads \in [Tenant -> ChainHead]
      /\ heads'[T].prevHash = Append(heads[T].prevHash, c)
      /\ \A t \in Tenant \ {T} : heads'[t] = heads[t]
  BY <1>1, <1>2 DEF TablesTypeOK, Advanced
<1>4. Tail(heads'[T].prevHash) = Append(Tail(heads[T].prevHash), c)
  <2>1. heads[T].prevHash \in Hash /\ Len(heads[T].prevHash) >= 1
    BY <1>1 DEF ChainInv, TablesTypeOK, ChainIsStored, ChainHead
  <2>2. QED
    BY <1>3, <2>1, TailAppends
<1>5. [t \in Tenant |-> Tail(heads'[t].prevHash)]
        = [[t \in Tenant |-> Tail(heads[t].prevHash)] EXCEPT ![T] = Append(@, c)]
  BY <1>1, <1>3, <1>4
<1>6. ~Log!Recorded(c.id)
  BY RecordedIsStored DEF AppendRow
<1>7. QED
  BY <1>5, <1>6 DEF Log!AppendEntry

\* The tables' steps are the log's, and other steps leave the log alone.
THEOREM TablesImplementAuditLog == TablesSpec => ImplementsAuditLog
<1>1. TablesInit => Log!LogInit
  <2>1. \A t \in Tenant : Tail(<<t>>) = <<>>
    OBVIOUS
  <2>2. QED
    BY <2>1 DEF TablesInit, Log!LogInit, NoHead, GenesisHash
<1>2. ASSUME ChainInv, [TablesNext]_tables
      PROVE  [Log!LogNext]_([t \in Tenant |-> Tail(heads[t].prevHash)])
  <2>1. CASE TablesNext
    BY <1>2, <2>1, AppendRowAppendsEntry DEF TablesNext, Log!LogNext
  <2>2. CASE UNCHANGED tables
    BY <2>2 DEF tables
  <2>3. QED
    BY <1>2, <2>1, <2>2
<1>3. QED
  BY <1>1, <1>2, TablesKeepChainInv, PTL DEF TablesSpec, ImplementsAuditLog, Log!LogSpec

-------------------------------------------------------------------------------
(* The writers *)

\* Nothing is open and nothing is stored at the start.
LEMMA InitIInv == Init => IInv
<1> SUFFICES ASSUME Init PROVE IInv
  OBVIOUS
<1>1. ChainInv
  BY InitChainInv DEF Init
<1>2. /\ events = {} /\ payloads = {} /\ nextSeq = 1 /\ used = {} /\ acked = {} /\ failed = {}
      /\ pc = [w \in Writer |-> "idle"]
      /\ draft = [w \in Writer |-> NoDraft]
      /\ lock = [t \in Tenant |-> NoWriter]
  BY DEF Init, TablesInit
<1>3. TypeOK
  BY <1>1, <1>2 DEF TypeOK, ChainInv, Statement
<1>4. LockProtects
  BY <1>2 DEF LockProtects, Locking, Numbered
<1>5. IdsAreFresh
  BY <1>2 DEF IdsAreFresh
<1>6. QED
  BY <1>1, <1>3, <1>4, <1>5 DEF IInv

\* A call opens its transaction with an id nobody has (writer.ts:78-98).
LEMMA BeginIInv ==
  ASSUME IInv, NEW w \in Writer, Begin(w)
  PROVE  IInv'
<1>1. PICK e \in Event \ used, t \in Tenant, b \in Body, c \in BOOLEAN :
        /\ used' = used \cup {e}
        /\ draft' = [draft EXCEPT ![w] = [id |-> e, tenant |-> t, body |-> b, capture |-> c,
                                          seq |-> 0, prevHash |-> GenesisHash(t)]]
  BY DEF Begin
<1>2. /\ pc' = [pc EXCEPT ![w] = "ensure"] /\ pc[w] = "idle"
      /\ UNCHANGED <<events, heads, payloads, nextSeq, lock, acked, failed>>
  BY DEF Begin, stored
<1>3. TypeOK /\ LockProtects /\ IdsAreFresh /\ ChainInv
  BY DEF IInv
<1>4. ChainInv'
  BY <1>2, <1>3, StutterChainInv DEF tables
<1>5. TypeOK'
  <2>1. GenesisHash(t) \in Hash
    BY DEF GenesisHash, Hash
  <2>2. draft'[w] \in Draft
    BY <1>1, <1>3, <2>1 DEF TypeOK, Draft
  <2>3. /\ draft' \in [Writer -> Draft \cup {NoDraft}]
        /\ pc' \in [Writer -> Statement]
        /\ \A v \in Writer : pc'[v] # "idle" => draft'[v] \in Draft
    BY <1>1, <1>2, <1>3, <2>2 DEF TypeOK, Statement
  <2>4. QED
    BY <1>1, <1>2, <1>3, <1>4, <2>3 DEF TypeOK, ChainInv
<1>6. \A v \in Writer : /\ v # w => pc'[v] = pc[v] /\ draft'[v] = draft[v]
                        /\ v = w => pc'[v] = "ensure" /\ draft'[v].id = e
  BY <1>1, <1>2, <1>3 DEF TypeOK
<1>7. LockProtects'
  BY <1>2, <1>3, <1>6 DEF LockProtects, Locking, Numbered, RowsOf
<1>8. IdsAreFresh'
  BY <1>1, <1>2, <1>3, <1>6 DEF IdsAreFresh
<1>9. QED
  BY <1>4, <1>5, <1>7, <1>8 DEF IInv

\* A statement that leaves rows, heads and drafts alone, and locks nothing another
\* writer holds (writer.ts:103-107, 133-147).
LEMMA StatementIInv ==
  ASSUME IInv, NEW w \in Writer, NEW next \in Statement \ {"idle"},
         pc[w] # "idle", pc' = [pc EXCEPT ![w] = next],
         next \in Locking => pc[w] \in Locking,
         next \in Numbered => pc[w] \in Numbered,
         \/ UNCHANGED lock
         \/ Holds(w, draft[w].tenant) /\ lock' = [lock EXCEPT ![draft[w].tenant] = w],
         UNCHANGED <<stored, nextSeq, draft, answers>>
  PROVE  IInv'
<1>1. TypeOK /\ LockProtects /\ IdsAreFresh /\ ChainInv
  BY DEF IInv
<1>2. UNCHANGED <<events, heads, payloads, nextSeq, draft, used, acked, failed>>
  BY DEF stored, answers
<1>3. ChainInv'
  BY <1>1, <1>2, StutterChainInv DEF tables
<1>4. \A v \in Writer : /\ v # w => pc'[v] = pc[v]
                        /\ v = w => pc'[v] = next
  BY <1>1 DEF TypeOK
<1>5. TypeOK'
  BY <1>1, <1>2, <1>3, <1>4 DEF TypeOK, ChainInv, Draft
<1>6. LockProtects'
  <2>1. ASSUME NEW v \in Writer, pc'[v] \in Locking
        PROVE  lock'[draft[v].tenant] = v
    <3>1. pc[v] \in Locking /\ lock[draft[v].tenant] = v /\ draft[v].tenant \in Tenant
      BY <1>1, <1>4, <2>1 DEF LockProtects, TypeOK, Draft, Locking
    <3>2. QED
      BY <1>1, <3>1, WriterAssumption DEF Holds, TypeOK
  <2>2. QED
    BY <1>1, <1>2, <1>4, <2>1 DEF LockProtects, RowsOf, Locking, Numbered
<1>7. IdsAreFresh'
  BY <1>1, <1>2, <1>4 DEF IdsAreFresh
<1>8. QED
  BY <1>3, <1>5, <1>6, <1>7 DEF IInv

\* The head is read under its lock, so what is read is the committed head and stays
\* so until the lock is given up (writer.ts:109-116).
LEMMA SelectIInv ==
  ASSUME IInv, NEW w \in Writer, SelectForUpdate(w)
  PROVE  IInv'
<1> DEFINE t == draft[w].tenant
<1>1. TypeOK /\ LockProtects /\ IdsAreFresh /\ ChainInv
  BY DEF IInv
<1>2. /\ pc[w] = "select" /\ Holds(w, t)
      /\ lock' = [lock EXCEPT ![t] = w]
      /\ draft' = [draft EXCEPT ![w].prevHash = heads[t].prevHash]
      /\ pc' = [pc EXCEPT ![w] = "insert"]
      /\ UNCHANGED <<events, heads, payloads, nextSeq, used, acked, failed>>
  BY DEF SelectForUpdate, stored, answers
<1>3. ChainInv'
  BY <1>1, <1>2, StutterChainInv DEF tables
<1>4. draft[w] \in Draft /\ t \in Tenant /\ heads[t].prevHash \in Hash
  BY <1>1, <1>2 DEF TypeOK, Draft, TablesTypeOK, ChainHead
<1>5. /\ \A v \in Writer : v # w => pc'[v] = pc[v] /\ draft'[v] = draft[v]
      /\ pc'[w] = "insert" /\ draft'[w] \in Draft
      /\ draft'[w].tenant = t /\ draft'[w].id = draft[w].id
      /\ draft'[w].prevHash = heads[t].prevHash
      /\ lock'[t] = w
  BY <1>1, <1>2, <1>4 DEF TypeOK, Draft
<1> HIDE DEF t
<1>6. TypeOK'
  BY <1>1, <1>2, <1>3, <1>4, <1>5 DEF TypeOK, ChainInv, Statement
<1>7. LockProtects'
  <2>1. ASSUME NEW v \in Writer \ {w}, pc'[v] \in Locking
        PROVE  /\ lock'[draft'[v].tenant] = v
               /\ draft'[v].prevHash = heads'[draft'[v].tenant].prevHash
    <3>1. /\ pc[v] \in Locking /\ lock[draft[v].tenant] = v
          /\ draft[v].prevHash = heads[draft[v].tenant].prevHash
      BY <1>1, <1>5, <2>1 DEF LockProtects
    <3>2. draft[v].tenant # t
      BY <1>2, <3>1, WriterAssumption DEF Holds
    <3>3. lock'[draft[v].tenant] = v
      BY <1>1, <1>2, <3>1, <3>2 DEF TypeOK
    <3>4. QED
      BY <1>2, <1>5, <3>1, <3>3
  <2>2. QED
    BY <1>1, <1>2, <1>5, <2>1 DEF LockProtects, RowsOf, Locking, Numbered
<1>8. IdsAreFresh'
  BY <1>1, <1>2, <1>5 DEF IdsAreFresh
<1>9. QED
  BY <1>3, <1>6, <1>7, <1>8 DEF IInv

\* The seq handed out is beyond every one handed out before (writer.ts:119-131).
LEMMA InsertIInv ==
  ASSUME IInv, NEW w \in Writer, InsertEvent(w)
  PROVE  IInv'
<1>1. TypeOK /\ LockProtects /\ IdsAreFresh /\ ChainInv
  BY DEF IInv
<1>2. /\ pc[w] = "insert" /\ nextSeq \in SeqNo
      /\ draft' = [draft EXCEPT ![w].seq = nextSeq]
      /\ nextSeq' = nextSeq + 1
      /\ pc' = [pc EXCEPT ![w] = "advance"]
      /\ UNCHANGED <<events, heads, payloads, lock, used, acked, failed>>
  BY DEF InsertEvent, stored, answers
<1>3. ChainInv'
  BY <1>1, <1>2, StutterChainInv DEF tables
<1>4. draft[w] \in Draft /\ nextSeq \in Nat
  BY <1>1, <1>2 DEF TypeOK
<1>5. /\ \A v \in Writer : v # w => pc'[v] = pc[v] /\ draft'[v] = draft[v]
      /\ pc'[w] = "advance" /\ draft'[w] \in Draft
      /\ draft'[w].tenant = draft[w].tenant /\ draft'[w].id = draft[w].id
      /\ draft'[w].prevHash = draft[w].prevHash /\ draft'[w].seq = nextSeq
  BY <1>1, <1>2, <1>4 DEF TypeOK, Draft
<1>6. TypeOK'
  BY <1>1, <1>2, <1>3, <1>4, <1>5 DEF TypeOK, ChainInv, Statement
<1>7. LockProtects'
  <2>1. \A r \in events : r.seq \in Nat /\ r.seq < nextSeq
    BY <1>1, SeqNoAssumption DEF LockProtects, TablesTypeOK, ChainInv, Row
  <2>2. ASSUME NEW v \in Writer \ {w}, pc'[v] \in Numbered
        PROVE  /\ draft'[v].seq \in SeqNo /\ draft'[v].seq < nextSeq /\ draft'[v].seq \in Nat
               /\ \A r \in events' : r.seq # draft'[v].seq
               /\ \A r \in RowsOf(draft[v].tenant)' : r.seq < draft'[v].seq
    BY <1>1, <1>2, <1>5, <2>2, SeqNoAssumption DEF LockProtects, RowsOf
  <2>3. \A v \in Writer : pc'[v] \in Locking =>
          /\ lock'[draft'[v].tenant] = v
          /\ draft'[v].prevHash = heads'[draft'[v].tenant].prevHash
    BY <1>1, <1>2, <1>5 DEF LockProtects, Locking
  <2>4. \A r \in events' : r.seq < nextSeq'
    BY <1>2, <1>4, <2>1
  <2>5. ASSUME NEW v \in Writer, pc'[v] \in Numbered
        PROVE  /\ draft'[v].seq \in SeqNo /\ draft'[v].seq < nextSeq'
               /\ \A r \in events' : r.seq # draft'[v].seq
               /\ \A r \in RowsOf(draft[v].tenant)' : r.seq < draft'[v].seq
    BY <1>2, <1>4, <1>5, <2>1, <2>2, <2>5 DEF RowsOf
  <2>6. ASSUME NEW u \in Writer, NEW v \in Writer, u # v,
               pc'[u] \in Numbered, pc'[v] \in Numbered
        PROVE  draft'[u].seq # draft'[v].seq
    <3>1. CASE u # w /\ v # w
      BY <1>1, <1>5, <2>6, <3>1 DEF LockProtects
    <3>2. CASE u = w \/ v = w
      BY <1>4, <1>5, <2>2, <2>6, <3>2
    <3>3. QED
      BY <3>1, <3>2
  <2>7. QED
    BY <2>3, <2>4, <2>5, <2>6 DEF LockProtects
<1>8. IdsAreFresh'
  BY <1>1, <1>2, <1>5 DEF IdsAreFresh
<1>9. QED
  BY <1>3, <1>6, <1>7, <1>8 DEF IInv

\* The end of a transaction frees the locks of its writer and of no other.
LEMMA CloseFacts ==
  ASSUME TypeOK, NEW w \in Writer, Close(w)
  PROVE  /\ pc' \in [Writer -> Statement] /\ draft' \in [Writer -> Draft \cup {NoDraft}]
         /\ lock' \in [Tenant -> Writer \cup {NoWriter}]
         /\ pc'[w] = "idle"
         /\ \A v \in Writer \ {w} :
              /\ pc'[v] = pc[v] /\ draft'[v] = draft[v]
              /\ \A t \in Tenant : lock[t] = v => lock'[t] = v
  BY DEF TypeOK, Close, Statement

\* A transaction that fails takes with it all it did but a number of the sequence.
LEMMA RollbackIInv ==
  ASSUME IInv, NEW w \in Writer, Rollback(w)
  PROVE  IInv'
<1>1. TypeOK /\ LockProtects /\ IdsAreFresh /\ ChainInv
  BY DEF IInv
<1>2. /\ pc[w] # "idle" /\ failed' = failed \cup {draft[w].id} /\ Close(w)
      /\ UNCHANGED <<events, heads, payloads, nextSeq, used, acked>>
  BY DEF Rollback, stored
<1>3. ChainInv'
  BY <1>1, <1>2, StutterChainInv DEF tables
<1>4. /\ pc' \in [Writer -> Statement] /\ draft' \in [Writer -> Draft \cup {NoDraft}]
      /\ lock' \in [Tenant -> Writer \cup {NoWriter}]
      /\ pc'[w] = "idle"
      /\ \A v \in Writer \ {w} :
           /\ pc'[v] = pc[v] /\ draft'[v] = draft[v]
           /\ \A t \in Tenant : lock[t] = v => lock'[t] = v
  BY <1>1, <1>2, CloseFacts
<1>5. TypeOK'
  <2>1. draft[w].id \in Event
    BY <1>1, <1>2 DEF TypeOK, Draft
  <2>2. QED
    BY <1>1, <1>2, <1>3, <1>4, <2>1 DEF TypeOK, ChainInv
<1>6. LockProtects'
  <2>1. ASSUME NEW v \in Writer, pc'[v] \in Locking
        PROVE  /\ lock'[draft'[v].tenant] = v
               /\ draft'[v].prevHash = heads'[draft'[v].tenant].prevHash
    <3>1. v # w /\ pc[v] \in Locking /\ draft'[v] = draft[v]
      BY <1>4, <2>1 DEF Locking
    <3>2. draft[v].tenant \in Tenant /\ lock[draft[v].tenant] = v
      BY <1>1, <3>1 DEF LockProtects, TypeOK, Locking, Draft
    <3>3. QED
      BY <1>1, <1>2, <1>4, <3>1, <3>2 DEF LockProtects
  <2>2. \A v \in Writer : pc'[v] \in Numbered => pc[v] \in Numbered /\ draft'[v] = draft[v]
    BY <1>4 DEF Numbered
  <2>3. QED
    BY <1>1, <1>2, <2>1, <2>2 DEF LockProtects, RowsOf
<1>7. IdsAreFresh'
  BY <1>1, <1>2, <1>4 DEF IdsAreFresh
<1>8. QED
  BY <1>3, <1>5, <1>6, <1>7 DEF IInv

\* A commit stores exactly what an atomic append would store now: the head is still
\* the one the transaction read (writer.ts:101-150).
LEMMA CommitAppendsRow ==
  ASSUME IInv, NEW w \in Writer, Commit(w)
  PROVE  \E c \in Columns, s \in SeqNo :
           AppendRow(c, s) /\ s = draft[w].seq /\ c.id = draft[w].id /\ c.tenant = draft[w].tenant
<1> DEFINE d == draft[w]
           c == [id |-> d.id, tenant |-> d.tenant, body |-> d.body]
<1>1. TypeOK /\ LockProtects /\ IdsAreFresh
  BY DEF IInv
<1>2. pc[w] = "commit" /\ Store(RowOf(d, d.seq, d.prevHash))
  BY DEF Commit
<1>3. d \in Draft /\ pc[w] \in Locking /\ pc[w] \in Numbered
  BY <1>1, <1>2 DEF TypeOK, Locking, Numbered
<1>4. /\ d.seq \in SeqNo
      /\ d.prevHash = heads[d.tenant].prevHash
      /\ \A r \in events : r.id # d.id /\ r.seq # d.seq
      /\ \A r \in RowsOf(d.tenant) : r.seq < d.seq
  BY <1>1, <1>2, <1>3 DEF LockProtects, IdsAreFresh
<1>5. c \in Columns /\ c.tenant = d.tenant /\ c.id = d.id
  BY <1>3 DEF Draft, Columns
<1>6. RowOf(c, d.seq, d.prevHash) = RowOf(d, d.seq, d.prevHash)
  BY DEF RowOf, ComputeRowHash, CanonicalRow
<1>7. AppendRow(c, d.seq)
  BY <1>2, <1>4, <1>5, <1>6 DEF AppendRow
<1>8. QED
  BY <1>4, <1>5, <1>7

\* After a commit the other writers' heads are still the committed ones: the one that
\* moved was locked by the writer that committed.
LEMMA CommitIInv ==
  ASSUME IInv, NEW w \in Writer, Commit(w)
  PROVE  IInv'
<1> DEFINE T == draft[w].tenant
<1>1. TypeOK /\ LockProtects /\ IdsAreFresh /\ ChainInv
  BY DEF IInv
<1>2. PICK c \in Columns, s \in SeqNo :
        AppendRow(c, s) /\ s = draft[w].seq /\ c.id = draft[w].id /\ c.tenant = T
  BY CommitAppendsRow
<1>3. ChainInv'
  BY <1>1, <1>2, AppendChainInv
<1>4. PICK n \in Row : /\ n.id = draft[w].id /\ n.tenant = T /\ n.seq = draft[w].seq
                       /\ events' = events \cup {n}
                       /\ heads' = [heads EXCEPT ![T] = Advanced(@, n)]
  <2> DEFINE n == RowOf(c, s, heads[c.tenant].prevHash)
  <2>1. StoredBehind(n, c, s)
    BY <1>1, <1>2, StoredRow DEF ChainInv
  <2> HIDE DEF n
  <2>2. QED
    BY <1>2, <2>1 DEF StoredBehind
<1>5. /\ pc[w] = "commit" /\ Close(w)
      /\ payloads' \in {payloads, payloads \cup {draft[w].id}}
      /\ \/ acked' = acked \cup {draft[w].id} /\ UNCHANGED failed
         \/ failed' = failed \cup {draft[w].id} /\ UNCHANGED acked
      /\ UNCHANGED <<nextSeq, used>>
  BY DEF Commit
<1>6. /\ pc' \in [Writer -> Statement] /\ draft' \in [Writer -> Draft \cup {NoDraft}]
      /\ lock' \in [Tenant -> Writer \cup {NoWriter}]
      /\ pc'[w] = "idle"
      /\ \A v \in Writer \ {w} :
           /\ pc'[v] = pc[v] /\ draft'[v] = draft[v]
           /\ \A t \in Tenant : lock[t] = v => lock'[t] = v
  BY <1>1, <1>5, CloseFacts
<1>7. /\ draft[w].id \in Event /\ T \in Tenant
      /\ pc[w] \in Locking /\ pc[w] \in Numbered
      /\ lock[T] = w
      /\ \A t \in Tenant \ {T} : heads'[t] = heads[t]
  BY <1>1, <1>4, <1>5 DEF TypeOK, Draft, Locking, Numbered, LockProtects, TablesTypeOK
<1>8. TypeOK'
  BY <1>1, <1>3, <1>5, <1>6, <1>7 DEF TypeOK, ChainInv
<1> HIDE DEF T
<1>9. LockProtects'
  <2>1. \A r \in events' : r.seq < nextSeq'
    BY <1>1, <1>4, <1>5, <1>7 DEF LockProtects
  <2>2. ASSUME NEW v \in Writer, pc'[v] \in Locking
        PROVE  /\ v # w /\ draft'[v] = draft[v] /\ draft[v].tenant # T
               /\ lock'[draft'[v].tenant] = v
               /\ draft'[v].prevHash = heads'[draft'[v].tenant].prevHash
    <3>1. v # w /\ pc[v] \in Locking /\ draft'[v] = draft[v]
      BY <1>6, <2>2 DEF Locking
    <3>2. draft[v].tenant \in Tenant /\ lock[draft[v].tenant] = v
      BY <1>1, <3>1 DEF LockProtects, TypeOK, Locking, Draft
    <3>3. draft[v].tenant # T
      BY <1>7, <3>1, <3>2
    <3>4. QED
      BY <1>1, <1>6, <1>7, <3>1, <3>2, <3>3 DEF LockProtects
  <2>3. ASSUME NEW v \in Writer, pc'[v] \in Numbered
        PROVE  /\ v # w /\ pc[v] \in Numbered /\ draft'[v] = draft[v]
               /\ draft[v].seq \in SeqNo /\ draft[v].seq < nextSeq'
               /\ \A r \in events' : r.seq # draft[v].seq
               /\ \A r \in RowsOf(draft[v].tenant)' : r.seq < draft[v].seq
    <3>1. v # w /\ pc[v] \in Numbered /\ draft'[v] = draft[v] /\ draft[v].tenant # T
      BY <1>6, <2>2, <2>3 DEF Numbered, Locking
    <3>2. draft[v].seq # draft[w].seq
      BY <1>1, <1>7, <3>1 DEF LockProtects
    <3>3. RowsOf(draft[v].tenant)' = RowsOf(draft[v].tenant)
      <4>1. draft'[v].tenant = draft[v].tenant
        BY <3>1
      <4>2. QED
        BY <1>4, <3>1, <4>1 DEF RowsOf
    <3>4. QED
      BY <1>1, <1>4, <1>5, <3>1, <3>2, <3>3 DEF LockProtects
  <2>4. QED
    BY <1>1, <2>1, <2>2, <2>3 DEF LockProtects
<1>10. IdsAreFresh'
  BY <1>1, <1>4, <1>5, <1>6 DEF IdsAreFresh
<1>11. QED
  BY <1>3, <1>8, <1>9, <1>10 DEF IInv

-------------------------------------------------------------------------------
(* The theorems *)

\* Every statement of the transaction keeps the invariant.
LEMMA NextIInv ==
  ASSUME IInv, [Next]_vars
  PROVE  IInv'
<1>1. ASSUME NEW w \in Writer, EnsureHead(w) PROVE IInv'
  <2>1. /\ pc[w] = "ensure" /\ pc' = [pc EXCEPT ![w] = "select"]
        /\ \/ UNCHANGED lock
           \/ Holds(w, draft[w].tenant) /\ lock' = [lock EXCEPT ![draft[w].tenant] = w]
        /\ UNCHANGED <<stored, nextSeq, draft, answers>>
    BY <1>1 DEF EnsureHead, Holds
  <2>2. QED
    BY <2>1, StatementIInv DEF Statement, Locking, Numbered
<1>2. ASSUME NEW w \in Writer, AdvanceHead(w) PROVE IInv'
  <2>1. PICK next \in {"payload", "commit"} : pc' = [pc EXCEPT ![w] = next]
    BY <1>2 DEF AdvanceHead
  <2>2. /\ pc[w] = "advance" /\ Holds(w, draft[w].tenant)
        /\ lock' = [lock EXCEPT ![draft[w].tenant] = w]
        /\ UNCHANGED <<stored, nextSeq, draft, answers>>
    BY <1>2 DEF AdvanceHead
  <2>3. QED
    BY <2>1, <2>2, StatementIInv DEF Statement, Locking, Numbered
<1>3. ASSUME NEW w \in Writer, InsertPayload(w) PROVE IInv'
  <2>1. /\ pc[w] = "payload" /\ pc' = [pc EXCEPT ![w] = "commit"]
        /\ UNCHANGED <<stored, nextSeq, lock, draft, answers>>
    BY <1>3 DEF InsertPayload
  <2>2. QED
    BY <2>1, StatementIInv DEF Statement, Locking, Numbered
<1>4. CASE UNCHANGED vars
  <2>1. UNCHANGED <<events, heads, payloads, nextSeq, lock, pc, draft, used, acked, failed>>
    BY <1>4 DEF vars, stored, answers
  <2>2. ChainInv'
    BY <2>1, StutterChainInv DEF IInv, tables
  <2>3. TypeOK'
    BY <2>1, <2>2 DEF IInv, ChainInv, TypeOK
  <2>4. LockProtects' /\ IdsAreFresh'
    BY <2>1 DEF IInv, LockProtects, IdsAreFresh, RowsOf
  <2>5. QED
    BY <2>2, <2>3, <2>4 DEF IInv
<1>5. QED
  BY <1>1, <1>2, <1>3, <1>4, BeginIInv, SelectIInv, InsertIInv, CommitIInv, RollbackIInv
     DEF Next, Step

\* The invariant of the transactions, of any number of writers (writer.ts:77-160).
THEOREM WritersKeepIInv == Spec => []IInv
  BY InitIInv, NextIInv, PTL DEF Spec

\* Every step of a writer is one atomic append to the tables or does not touch them.
THEOREM WritersImplementTables == Spec => ImplementsTables
<1>1. Init => TablesInit
  BY DEF Init
<1>2. ASSUME IInv, [Next]_vars PROVE [TablesNext]_tables
  <2>1. ASSUME NEW w \in Writer, Commit(w) PROVE TablesNext
    BY <1>2, <2>1, CommitAppendsRow DEF TablesNext
  <2>2. ASSUME NEW w \in Writer,
               \/ Begin(w) \/ EnsureHead(w) \/ SelectForUpdate(w) \/ InsertEvent(w)
               \/ AdvanceHead(w) \/ InsertPayload(w) \/ Rollback(w)
        PROVE  UNCHANGED tables
    BY <2>2 DEF Begin, EnsureHead, SelectForUpdate, InsertEvent, AdvanceHead, InsertPayload,
                Rollback, stored, tables
  <2>3. CASE UNCHANGED vars
    BY <2>3 DEF vars, stored, tables
  <2>4. QED
    BY <1>2, <2>1, <2>2, <2>3 DEF Next, Step
<1>3. QED
  BY <1>1, <1>2, WritersKeepIInv, PTL DEF Spec, ImplementsTables, TablesSpec

\* The writers together are one append-only log per tenant, without repetitions.
THEOREM WritersImplementAuditLog == Spec => ImplementsAuditLog
  BY WritersImplementTables, TablesImplementAuditLog DEF ImplementsTables

\* However many replicas append: the rows of a tenant are one chain, in seq order.
THEOREM WritersKeepChainLinked == Spec => []LinkedInOrder
<1>1. IInv => LinkedInOrder
  BY InvLinkedInOrder DEF IInv
<1>2. QED
  BY <1>1, WritersKeepIInv, PTL

\* However many replicas append: no two rows claim the same predecessor.
THEOREM WritersNeverFork == Spec => []NoFork
<1>1. IInv => NoFork
  BY InvNoFork DEF IInv
<1>2. QED
  BY <1>1, WritersKeepIInv, PTL

\* However many replicas append: the head is the hash of the last row and its count.
THEOREM WritersKeepHead == Spec => []HeadIsLastRow
<1>1. IInv => HeadIsLastRow
  BY InvHeadIsLastRow DEF IInv
<1>2. QED
  BY <1>1, WritersKeepIInv, PTL
-------------------------------------------------------------------------------
(* What a caller is told *)

\* An id that is answered was spent, and no transaction that is open has it
\* (writer.ts:78-98): what makes AnswersAreTrue inductive.
AnswersSpent ==
  /\ acked \subseteq used /\ failed \subseteq used
  /\ \A w \in Writer : pc[w] # "idle" => draft[w].id \notin acked \cup failed

\* A statement that answers nobody and closes nothing leaves the answers as they are.
LEMMA QuietAnswers ==
  ASSUME AnswersAreTrue, AnswersSpent, UNCHANGED <<events, payloads, used, acked, failed>>,
         \A w \in Writer : pc'[w] # "idle" => pc[w] # "idle" /\ draft'[w].id = draft[w].id
  PROVE  AnswersAreTrue' /\ AnswersSpent'
<1>1. AnswersAreTrue'
  BY DEF AnswersAreTrue
<1>2. AnswersSpent'
  BY DEF AnswersSpent
<1>3. QED
  BY <1>1, <1>2

\* The answers of every step: an open transaction's id is answered once, by the step that
\* closes it, and resolves only with its row stored (writer.ts:101-159).
LEMMA NextAnswers ==
  ASSUME IInv, AnswersAreTrue, AnswersSpent, [Next]_vars
  PROVE  AnswersAreTrue' /\ AnswersSpent'
<1>1. TypeOK /\ IdsAreFresh /\ ChainInv
  BY DEF IInv
<1>2. ASSUME NEW w \in Writer, Begin(w) PROVE AnswersAreTrue' /\ AnswersSpent'
  <2>1. PICK e \in Event \ used, t \in Tenant, b \in Body, c \in BOOLEAN :
          /\ used' = used \cup {e}
          /\ draft' = [draft EXCEPT ![w] = [id |-> e, tenant |-> t, body |-> b, capture |-> c,
                                            seq |-> 0, prevHash |-> GenesisHash(t)]]
    BY <1>2 DEF Begin
  <2>2. /\ pc' = [pc EXCEPT ![w] = "ensure"]
        /\ UNCHANGED <<events, payloads, acked, failed>>
    BY <1>2 DEF Begin, stored
  <2>3. \A v \in Writer : /\ v # w => pc'[v] = pc[v] /\ draft'[v] = draft[v]
                          /\ v = w => draft'[v].id = e
    BY <1>1, <2>1, <2>2 DEF TypeOK
  <2>4. AnswersAreTrue'
    BY <2>2 DEF AnswersAreTrue
  <2>5. AnswersSpent'
    BY <2>1, <2>2, <2>3 DEF AnswersSpent
  <2>6. QED
    BY <2>4, <2>5
<1>3. ASSUME NEW w \in Writer, NEW next \in Statement, pc[w] # "idle",
             pc' = [pc EXCEPT ![w] = next],
             \A v \in Writer : pc[v] # "idle" => draft'[v].id = draft[v].id,
             UNCHANGED <<events, payloads, used, acked, failed>>
      PROVE  AnswersAreTrue' /\ AnswersSpent'
  <2>1. \A v \in Writer : pc'[v] # "idle" => pc[v] # "idle" /\ draft'[v].id = draft[v].id
    BY <1>1, <1>3 DEF TypeOK
  <2>2. QED
    BY <1>3, <2>1, QuietAnswers
<1>4. ASSUME NEW w \in Writer, pc[w] # "idle",
             \/ SelectForUpdate(w) \/ InsertEvent(w)
      PROVE  AnswersAreTrue' /\ AnswersSpent'
  <2>1. draft[w] \in Draft
    BY <1>1, <1>4 DEF TypeOK
  <2>2. PICK next \in {"insert", "advance"} : pc' = [pc EXCEPT ![w] = next]
    BY <1>4 DEF SelectForUpdate, InsertEvent
  <2>3. \A v \in Writer : pc[v] # "idle" => draft'[v].id = draft[v].id
    BY <1>1, <1>4, <2>1 DEF SelectForUpdate, InsertEvent, TypeOK, Draft
  <2>4. UNCHANGED <<events, payloads, used, acked, failed>>
    BY <1>4 DEF SelectForUpdate, InsertEvent, stored, answers
  <2>5. next \in Statement
    BY DEF Statement
  <2>6. QED
    BY <1>3, <1>4, <2>2, <2>3, <2>4, <2>5
<1>5. ASSUME NEW w \in Writer, pc[w] # "idle",
             \/ EnsureHead(w) \/ AdvanceHead(w) \/ InsertPayload(w)
      PROVE  AnswersAreTrue' /\ AnswersSpent'
  <2>1. PICK next \in {"select", "payload", "commit"} : pc' = [pc EXCEPT ![w] = next]
    BY <1>5 DEF EnsureHead, AdvanceHead, InsertPayload
  <2>2. UNCHANGED <<draft, events, payloads, used, acked, failed>>
    BY <1>5 DEF EnsureHead, AdvanceHead, InsertPayload, stored, answers
  <2>3. next \in Statement
    BY DEF Statement
  <2>4. QED
    BY <1>3, <1>5, <2>1, <2>2, <2>3
<1>6. ASSUME NEW w \in Writer, Commit(w) PROVE AnswersAreTrue' /\ AnswersSpent'
  <2> DEFINE e == draft[w].id
  <2>1. /\ pc[w] = "commit" /\ Close(w)
        /\ payloads' \in {payloads, payloads \cup {e}}
        /\ \/ acked' = acked \cup {e} /\ UNCHANGED failed
           \/ failed' = failed \cup {e} /\ UNCHANGED acked
        /\ UNCHANGED used
    BY <1>6 DEF Commit
  <2>2. PICK r : r.id = e /\ events' = events \cup {r}
    BY <1>6 DEF Commit, Store, RowOf
  <2>3. \A v \in Writer : pc'[v] # "idle" => v # w /\ pc[v] # "idle" /\ draft'[v] = draft[v]
    BY <1>1, <2>1, CloseFacts
  <2>4. e \in used /\ e \notin acked \cup failed
        /\ \A v \in Writer \ {w} : pc[v] # "idle" => draft[v].id # e
    BY <1>1, <2>1 DEF AnswersSpent, IdsAreFresh
  <2> HIDE DEF e
  <2>5. AnswersAreTrue'
    BY <2>1, <2>2, <2>4 DEF AnswersAreTrue
  <2>6. AnswersSpent'
    BY <2>1, <2>3, <2>4 DEF AnswersSpent
  <2>7. QED
    BY <2>5, <2>6
<1>7. ASSUME NEW w \in Writer, Rollback(w) PROVE AnswersAreTrue' /\ AnswersSpent'
  <2> DEFINE e == draft[w].id
  <2>1. /\ pc[w] # "idle" /\ Close(w) /\ failed' = failed \cup {e}
        /\ UNCHANGED <<events, payloads, used, acked>>
    BY <1>7 DEF Rollback, stored
  <2>2. \A v \in Writer : pc'[v] # "idle" => v # w /\ pc[v] # "idle" /\ draft'[v] = draft[v]
    BY <1>1, <2>1, CloseFacts
  <2>3. e \in used /\ e \notin acked \cup failed
        /\ \A v \in Writer \ {w} : pc[v] # "idle" => draft[v].id # e
    BY <1>1, <2>1 DEF AnswersSpent, IdsAreFresh
  <2> HIDE DEF e
  <2>4. AnswersAreTrue' /\ AnswersSpent'
    BY <2>1, <2>2, <2>3 DEF AnswersAreTrue, AnswersSpent
  <2>5. QED
    BY <2>4
<1>8. CASE UNCHANGED vars
  <2>1. UNCHANGED <<events, payloads, pc, draft, used, acked, failed>>
    BY <1>8 DEF vars, stored, answers
  <2>2. QED
    BY <2>1, QuietAnswers
<1>9. \A w \in Writer : Step(w) => pc[w] # "idle"
  BY DEF Step, EnsureHead, SelectForUpdate, InsertEvent, AdvanceHead, InsertPayload, Commit
<1>10. ASSUME NEW w \in Writer, Step(w) PROVE AnswersAreTrue' /\ AnswersSpent'
  <2>1. pc[w] # "idle"
    BY <1>9, <1>10
  <2>2. CASE EnsureHead(w) \/ AdvanceHead(w) \/ InsertPayload(w)
    BY <2>1, <2>2, <1>5
  <2>3. CASE SelectForUpdate(w) \/ InsertEvent(w)
    BY <2>1, <2>3, <1>4
  <2>4. CASE Commit(w)
    BY <2>4, <1>6
  <2>5. QED
    BY <1>10, <2>2, <2>3, <2>4 DEF Step
<1>11. QED
  BY <1>2, <1>7, <1>8, <1>10 DEF Next

\* However many replicas append and whatever fails: an append that resolved is stored and
\* did not also reject, and a kept payload has its row (writer.ts:101-159).
THEOREM WritersAnswerTruly == Spec => []AnswersAreTrue
<1>1. Init => AnswersAreTrue /\ AnswersSpent
  BY DEF Init, AnswersAreTrue, AnswersSpent
<1>2. IInv /\ AnswersAreTrue /\ AnswersSpent /\ [Next]_vars => AnswersAreTrue' /\ AnswersSpent'
  BY NextAnswers
<1>3. QED
  BY <1>1, <1>2, WritersKeepIInv, PTL DEF Spec
===============================================================================
