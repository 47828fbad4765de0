-------------------------- MODULE AuditConsoleProofs ---------------------------
(***************************************************************************)
(* The audit page of the console, for any number of tenants, events, rows  *)
(* and appends, any page sizes and any row the owner of the table damages: *)
(* what the verifier's walk has checked is a chain, and what follows from  *)
(* that for its verdict; what an operator who pages through the list has   *)
(* been shown.                                                             *)
(***************************************************************************)
EXTENDS AuditConsole, FiniteSetTheorems, SequenceTheorems, WellFoundedInduction, TLAPS

-------------------------------------------------------------------------------
(* The least and the greatest of a set of numbers: the first row of a page, and its last.  *)

\* A set of numbers that is not empty has a least one.
LEMMA HasLeast ==
  ASSUME NEW S \in SUBSET Nat, S # {}
  PROVE  \E m \in S : \A n \in S : m <= n
<1>1. PICK m \in S : \A n \in S : ~ (<<n, m>> \in OpToRel(<, Nat))
  BY NatLessThanWellFounded, WFMin
<1>2. \A n \in S : ~ (n < m)
  BY <1>1 DEF OpToRel
<1>3. QED
  BY <1>2

\* A finite one has a greatest: else a smallest such set would have a smaller one.
LEMMA HasGreatest ==
  ASSUME NEW S \in SUBSET Nat, IsFiniteSet(S), S # {}
  PROVE  \E m \in S : \A n \in S : n <= m
<1> DEFINE Unbounded(T) == IsFiniteSet(T) /\ T # {} /\ \A m \in T : \E n \in T : ~ (n <= m)
           Sizes == {k \in Nat : \E T \in SUBSET Nat : Unbounded(T) /\ Cardinality(T) = k}
<1>1. SUFFICES ASSUME Unbounded(S) PROVE FALSE
  OBVIOUS
<1>2. Cardinality(S) \in Sizes
  BY <1>1, FS_CardinalityType
<1>3. PICK k \in Sizes : \A j \in Sizes : k <= j
  <2>1. Sizes \in SUBSET Nat /\ Sizes # {}
    BY <1>2
  <2> HIDE DEF Sizes
  <2>2. QED
    BY <2>1, HasLeast
<1>4. PICK T \in SUBSET Nat : Unbounded(T) /\ Cardinality(T) = k
  BY <1>3
<1>5. PICK x \in T : TRUE
  BY <1>4
<1> DEFINE R == T \ {x}
<1>6. IsFiniteSet(R) /\ Cardinality(R) = k - 1 /\ k \in Nat /\ R \in SUBSET Nat
  BY <1>3, <1>4, <1>5, FS_RemoveElement
<1>7. R # {}
  BY <1>4, <1>5
<1>8. ~Unbounded(R)
  <2>1. Cardinality(R) \notin Sizes
    <3>1. ~(k <= Cardinality(R))
      BY <1>6
    <3> HIDE DEF Sizes
    <3>2. QED
      BY <1>3, <3>1
  <2>2. Cardinality(R) \in Nat
    BY <1>6, FS_CardinalityType
  <2>3. QED
    BY <1>6, <2>1, <2>2
<1>9. PICK y \in R : \A n \in R : n <= y
  BY <1>6, <1>7, <1>8
<1>10. x \in Nat /\ y \in Nat /\ y \in T /\ \A n \in T : n = x \/ n <= y
  BY <1>4, <1>5, <1>9
<1>11. CASE x <= y
  BY <1>4, <1>10, <1>11
<1>12. CASE y <= x
  <2>1. \A n \in T : n <= x
    BY <1>4, <1>10, <1>12
  <2>2. QED
    BY <1>4, <1>5, <2>1
<1>13. QED
  BY <1>10, <1>11, <1>12

\* A row with the smallest seq, and one with the largest.
LEMMA HasFirst ==
  ASSUME NEW S, S # {}, \A r \in S : r.seq \in Nat
  PROVE  \E b \in S : \A q \in S : b.seq <= q.seq
<1> DEFINE seqs == {r.seq : r \in S}
<1>1. seqs \in SUBSET Nat /\ seqs # {}
  OBVIOUS
<1> HIDE DEF seqs
<1>2. PICK m \in seqs : \A n \in seqs : m <= n
  BY <1>1, HasLeast
<1>3. QED
  BY <1>2 DEF seqs

\* The last of some rows (the seq the walk goes on from, verifier.ts:105-115).
LEMMA HasLast ==
  ASSUME NEW S, IsFiniteSet(S), S # {}, \A r \in S : r.seq \in Nat
  PROVE  LastOf(S) \in S /\ \A q \in S : q.seq <= LastOf(S).seq
<1> DEFINE seqs == {r.seq : r \in S}
<1>1. seqs \in SUBSET Nat /\ seqs # {}
  OBVIOUS
<1>2. IsFiniteSet(seqs)
  <2> DEFINE f == [r \in S |-> r.seq]
  <2>1. f \in [S -> seqs] /\ \A n \in seqs : \E r \in S : f[r] = n
    OBVIOUS
  <2> HIDE DEF f, seqs
  <2>2. f \in Surjection(S, seqs)
    BY <2>1 DEF Surjection
  <2>3. QED
    BY <2>2, FS_Surjection DEF ExistsSurjection
<1> HIDE DEF seqs
<1>3. PICK m \in seqs : \A n \in seqs : n <= m
  BY <1>1, <1>2, HasGreatest
<1>4. \E r \in S : \A q \in S : q.seq <= r.seq
  BY <1>3 DEF seqs
<1>5. QED
  BY <1>4 DEF LastOf

-------------------------------------------------------------------------------
(* Chains of rows *)

\* What the owner of the table may leave in it: rows whose columns nobody wrote, too.
StoredColumns == [id : Event, tenant : Tenant, body : Body \cup {OtherBody}]

Digest == Seq(Tenant \cup StoredColumns)

StoredRow == [id : Event, tenant : Tenant, body : Body \cup {OtherBody}, seq : SeqNo,
              prevHash : Digest, rowHash : Digest]

\* The row's content is what its hash was computed from.
Genuine(r) == r.rowHash = ComputeRowHash(r.prevHash, r)

\* In the order of seq, the rows S of the tenant t are one chain from its genesis to h.
ChainTo(S, h, t) ==
  /\ S \subseteq StoredRow /\ h \in Digest /\ Len(h) >= 1 /\ h[1] = t
  /\ \A r \in S : r.tenant = t /\ Genuine(r) /\ Len(r.prevHash) >= 1 /\ Agrees(r.rowHash, h)
  /\ \A r, q \in S : /\ r.seq < q.seq <=> Len(r.rowHash) < Len(q.rowHash)
                     /\ Len(r.rowHash) = Len(q.rowHash) => r = q
  /\ \A k \in 2..Len(h) : \E r \in S : Len(r.rowHash) = k

\* The seq of a stored row, whoever stored it, is a positive number.
LEMMA SeqIsNumber == \A r \in StoredRow : r.seq \in Nat /\ r.seq > 0
<1>1. \A r \in StoredRow : r.seq \in SeqNo
  BY DEF StoredRow
<1>2. \A s \in SeqNo : s \in Nat /\ s > 0
  BY SeqNoAssumption
<1>3. QED
  BY <1>1, <1>2

\* A genuine row's hash is the one before it and, at the next position, its columns
\* (hash.ts:77-79).
LEMMA GenuineHash ==
  ASSUME NEW r \in StoredRow, Genuine(r)
  PROVE  /\ Len(r.prevHash) \in Nat /\ Len(r.rowHash) = Len(r.prevHash) + 1
         /\ \A i \in 1..Len(r.prevHash) : r.rowHash[i] = r.prevHash[i]
         /\ r.rowHash[Len(r.rowHash)] = CanonicalRow(r)
<1>1. CanonicalRow(r) \in Tenant \cup StoredColumns /\ r.prevHash \in Seq(Tenant \cup StoredColumns)
  BY DEF CanonicalRow, StoredColumns, StoredRow, Digest
<1>2. /\ Len(Append(r.prevHash, CanonicalRow(r))) = Len(r.prevHash) + 1 /\ Len(r.prevHash) \in Nat
      /\ \A i \in 1..Len(r.prevHash) : Append(r.prevHash, CanonicalRow(r))[i] = r.prevHash[i]
      /\ Append(r.prevHash, CanonicalRow(r))[Len(r.prevHash) + 1] = CanonicalRow(r)
  BY <1>1, AppendProperties, LenProperties
<1>3. QED
  BY <1>2 DEF Genuine, ComputeRowHash

\* No row: the chain is its genesis.
LEMMA NoRowsChain ==
  ASSUME NEW t \in Tenant
  PROVE  ChainTo({}, GenesisHash(t), t)
<1>1. GenesisHash(t) \in Digest /\ Len(GenesisHash(t)) = 1 /\ GenesisHash(t)[1] = t
  BY DEF GenesisHash, Digest
<1>2. 2..1 = {}
  OBVIOUS
<1>3. QED
  BY <1>1, <1>2 DEF ChainTo

\* A genuine row behind the last of a chain makes it longer (writer.ts:109-137; the step of
\* the walk, verifier.ts:107-117).
LEMMA ChainExtends ==
  ASSUME NEW S, NEW h, NEW t, ChainTo(S, h, t), NEW n \in StoredRow,
         n.tenant = t, n.prevHash = h, Genuine(n), \A r \in S : r.seq < n.seq
  PROVE  ChainTo(S \cup {n}, n.rowHash, t)
<1> DEFINE g == n.rowHash
<1>1. /\ h \in Digest /\ Len(h) \in Nat /\ Len(h) >= 1 /\ h[1] = t
      /\ g \in Digest /\ Len(g) = Len(h) + 1
      /\ \A i \in 1..Len(h) : g[i] = h[i]
  BY GenuineHash DEF ChainTo, StoredRow
<1>2. \A r \in S : /\ r \in StoredRow /\ r.tenant = t /\ Genuine(r) /\ Len(r.prevHash) >= 1
                   /\ Len(r.rowHash) \in Nat /\ Len(r.rowHash) <= Len(h)
                   /\ Agrees(r.rowHash, h) /\ r.seq \in Nat /\ n.seq \in Nat
  <2>1. ASSUME NEW r \in S
        PROVE  r \in StoredRow /\ r.tenant = t /\ Genuine(r) /\ Len(r.prevHash) >= 1 /\ Agrees(r.rowHash, h)
    BY DEF ChainTo
  <2>2. ASSUME NEW r \in S PROVE Len(r.rowHash) \in Nat /\ Len(r.rowHash) <= Len(h)
    BY <2>1, GenuineHash DEF Agrees
  <2>3. QED
    BY <2>1, <2>2, SeqIsNumber
<1>3. \A r \in S \cup {n} : r.tenant = t /\ Genuine(r) /\ Len(r.prevHash) >= 1 /\ Agrees(r.rowHash, g)
  <2>1. ASSUME NEW r \in S PROVE Agrees(r.rowHash, g)
    BY <1>1, <1>2 DEF Agrees
  <2>2. Agrees(g, g)
    BY <1>1 DEF Agrees
  <2>3. QED
    BY <1>1, <1>2, <2>1, <2>2
<1>4. \A r, q \in S \cup {n} : /\ r.seq < q.seq <=> Len(r.rowHash) < Len(q.rowHash)
                               /\ Len(r.rowHash) = Len(q.rowHash) => r = q
  <2>1. \A r, q \in S : /\ r.seq < q.seq <=> Len(r.rowHash) < Len(q.rowHash)
                        /\ Len(r.rowHash) = Len(q.rowHash) => r = q
    BY DEF ChainTo
  <2>2. \A r \in S : /\ r.seq < n.seq /\ ~(n.seq < r.seq)
                     /\ Len(r.rowHash) < Len(n.rowHash)
                     /\ ~(Len(n.rowHash) < Len(r.rowHash)) /\ Len(n.rowHash) # Len(r.rowHash)
    BY <1>1, <1>2
  <2>3. ~(n.seq < n.seq) /\ ~(Len(n.rowHash) < Len(n.rowHash))
    <3>1. n.seq \in Nat /\ Len(n.rowHash) \in Nat
      BY <1>1, SeqIsNumber
    <3>2. QED
      BY <3>1
  <2>4. QED
    BY <2>1, <2>2, <2>3
<1>5. ASSUME NEW k \in 2..Len(g) PROVE \E r \in S \cup {n} : Len(r.rowHash) = k
  <2>1. CASE k = Len(g)
    BY <2>1
  <2>2. CASE k # Len(g)
    <3>1. k \in 2..Len(h)
      BY <1>1, <2>2
    <3>2. QED
      BY <3>1 DEF ChainTo
  <2>3. QED
    BY <2>1, <2>2
<1>6. S \cup {n} \subseteq StoredRow /\ Len(g) >= 1 /\ g[1] = t
  BY <1>1 DEF ChainTo
<1>7. QED
  BY <1>1, <1>3, <1>4, <1>5, <1>6 DEF ChainTo

\* Cut before one of its rows, a chain ends at the hash that row is linked to.
LEMMA ChainCut ==
  ASSUME NEW S, NEW h, NEW t, ChainTo(S, h, t), NEW w \in S
  PROVE  ChainTo({r \in S : r.seq < w.seq}, w.prevHash, t)
<1> DEFINE P == {r \in S : r.seq < w.seq}
           g == w.prevHash
<1>1. \A r \in S : /\ r \in StoredRow /\ r.tenant = t /\ Genuine(r) /\ Len(r.prevHash) >= 1
                   /\ Len(r.prevHash) \in Nat /\ Len(r.rowHash) = Len(r.prevHash) + 1
                   /\ \A i \in 1..Len(r.prevHash) : r.rowHash[i] = r.prevHash[i]
                   /\ Agrees(r.rowHash, h)
  BY GenuineHash DEF ChainTo
<1>2. h \in Digest /\ Len(h) \in Nat /\ h[1] = t /\ g \in Digest
  BY <1>1, LenProperties DEF ChainTo, Digest, StoredRow
<1>3. \A i \in 1..Len(g) : g[i] = h[i]
  BY <1>1 DEF Agrees
<1>4. g[1] = t /\ Len(g) >= 1
  BY <1>1, <1>2, <1>3
<1>5. \A r, q \in S : /\ r.seq < q.seq <=> Len(r.rowHash) < Len(q.rowHash)
                      /\ Len(r.rowHash) = Len(q.rowHash) => r = q
  BY DEF ChainTo
<1>6. ASSUME NEW r \in P PROVE Agrees(r.rowHash, g)
  <2>1. r \in S /\ Len(r.rowHash) < Len(w.rowHash)
    BY <1>5
  <2>2. Len(r.rowHash) \in Nat /\ Len(r.rowHash) <= Len(g) /\ \A i \in 1..Len(r.rowHash) : r.rowHash[i] = h[i]
    BY <1>1, <2>1 DEF Agrees
  <2>3. \A i \in 1..Len(r.rowHash) : i \in 1..Len(g)
    BY <1>1, <2>2
  <2>4. QED
    BY <1>3, <2>2, <2>3 DEF Agrees
<1>7. ASSUME NEW k \in 2..Len(g) PROVE \E r \in P : Len(r.rowHash) = k
  <2>1. k \in 2..Len(h) /\ k < Len(w.rowHash)
    BY <1>1, <1>2 DEF Agrees
  <2>2. PICK r \in S : Len(r.rowHash) = k
    BY <2>1 DEF ChainTo
  <2>3. QED
    BY <1>5, <2>1, <2>2
<1>8. QED
  BY <1>1, <1>2, <1>4, <1>5, <1>6, <1>7 DEF ChainTo

\* A set of rows is a chain to one hash only.
LEMMA OneHead ==
  ASSUME NEW S, NEW h, NEW g, NEW t, ChainTo(S, h, t), ChainTo(S, g, t)
  PROVE  h = g
<1>1. /\ h \in Digest /\ Len(h) \in Nat /\ Len(h) >= 1 /\ h[1] = t
      /\ g \in Digest /\ Len(g) \in Nat /\ Len(g) >= 1 /\ g[1] = t
  BY LenProperties DEF ChainTo, Digest
<1>2. \A r \in S : Len(r.rowHash) <= Len(h) /\ Len(r.rowHash) <= Len(g)
  BY DEF ChainTo, Agrees
<1>3. ~(Len(h) < Len(g))
  <2>1. SUFFICES ASSUME Len(h) < Len(g) PROVE FALSE
    OBVIOUS
  <2>2. Len(g) \in 2..Len(g)
    BY <1>1, <2>1
  <2>3. PICK r \in S : Len(r.rowHash) = Len(g)
    BY <2>2 DEF ChainTo
  <2>4. QED
    BY <1>1, <1>2, <2>1, <2>3
<1>4. ~(Len(g) < Len(h))
  <2>1. SUFFICES ASSUME Len(g) < Len(h) PROVE FALSE
    OBVIOUS
  <2>2. Len(h) \in 2..Len(h)
    BY <1>1, <2>1
  <2>3. PICK r \in S : Len(r.rowHash) = Len(h)
    BY <2>2 DEF ChainTo
  <2>4. QED
    BY <1>1, <1>2, <2>1, <2>3
<1>5. Len(g) = Len(h)
  BY <1>1, <1>3, <1>4
<1>6. \A i \in 1..Len(h) : h[i] = g[i]
  <2>1. CASE Len(h) = 1
    BY <1>1, <2>1
  <2>2. CASE Len(h) > 1
    <3>1. Len(h) \in 2..Len(h)
      BY <1>1, <2>2
    <3>2. PICK r \in S : Len(r.rowHash) = Len(h)
      BY <3>1 DEF ChainTo
    <3>3. Agrees(r.rowHash, h) /\ Agrees(r.rowHash, g)
      BY DEF ChainTo
    <3>4. QED
      BY <1>5, <3>2, <3>3 DEF Agrees
  <2>3. QED
    BY <1>1, <2>1, <2>2
<1>7. QED
  BY <1>1, <1>5, <1>6, SeqEqual DEF Digest

\* Some rows of a chain that are a chain to its end are all of them.
LEMMA WholeChain ==
  ASSUME NEW S, NEW P, NEW h, NEW t, ChainTo(S, h, t), ChainTo(P, h, t), P \subseteq S
  PROVE  P = S
<1>1. SUFFICES ASSUME NEW w \in S PROVE w \in P
  OBVIOUS
<1>2. Len(w.rowHash) \in 2..Len(h)
  BY GenuineHash, LenProperties DEF ChainTo, Agrees, Digest
<1>3. PICK p \in P : Len(p.rowHash) = Len(w.rowHash)
  BY <1>2 DEF ChainTo
<1>4. p = w
  BY <1>3 DEF ChainTo
<1>5. QED
  BY <1>4

-------------------------------------------------------------------------------
(* What the writers have committed, and what the owner of the table has made of it *)

WrittenOf(t) == {r \in written : r.tenant = t}

\* A tenant's rows are a chain to its head, and no seq is used twice.
WriterInv ==
  /\ heads \in [Tenant -> ChainHead]
  /\ written \subseteq Row /\ IsFiniteSet(written)
  /\ \A r, q \in written : r.seq = q.seq => r = q
  /\ \A t \in Tenant : /\ ChainTo(WrittenOf(t), heads[t].prevHash, t)
                       /\ heads[t].exists <=> Len(heads[t].prevHash) > 1

Altered(r) == [r EXCEPT !.body = OtherBody]
Rewritten(r) == [r EXCEPT !.body = OtherBody, !.rowHash = ComputeRowHash(r.prevHash, [r EXCEPT !.body = OtherBody])]
Renumbered(r, q) == [r EXCEPT !.seq = q.seq]
Moved(r, t) == [r EXCEPT !.tenant = t]

\* The table differs from what was written by what the owner did last.
OwnerInv ==
  \/ damage = "none" /\ events = written
  \/ \E r \in written :
       \/ damage = "alter" /\ events = (written \ {r}) \cup {Altered(r)}
       \/ damage = "rewrite" /\ events = (written \ {r}) \cup {Rewritten(r)}
       \/ damage = "delete" /\ events = written \ {r}
       \/ damage = "reorder" /\ \E q \in WrittenOf(r.tenant) \ {r} :
            events = (written \ {r, q}) \cup {Renumbered(r, q), Renumbered(q, r)}
       \/ damage = "move" /\ \E t \in Tenant \ {r.tenant} : events = (written \ {r}) \cup {Moved(r, t)}

\* Whatever the writers write can be stored, and so can its hash.
LEMMA RowsAreStored == Row \subseteq StoredRow /\ Hash \subseteq Digest
<1>1. Columns \subseteq StoredColumns
  BY DEF Columns, StoredColumns
<1>2. ASSUME NEW h \in Hash PROVE h \in Digest
  <2>1. h \in Seq(Tenant \cup Columns) /\ Tenant \cup Columns \subseteq Tenant \cup StoredColumns
    BY <1>1, <1>2 DEF Hash
  <2>2. QED
    BY <2>1, SeqMonotonic DEF Digest
<1>3. QED
  BY <1>2 DEF Row, StoredRow

\* A damaged row is still one the table can hold.
LEMMA DamagedIsStored ==
  ASSUME NEW r \in Row
  PROVE  /\ Altered(r) \in StoredRow /\ Rewritten(r) \in StoredRow
         /\ \A q \in Row : Renumbered(r, q) \in StoredRow
         /\ \A t \in Tenant : Moved(r, t) \in StoredRow
<1>1. /\ r \in StoredRow /\ OtherBody \in Body \cup {OtherBody}
      /\ r = [id |-> r.id, tenant |-> r.tenant, body |-> r.body, seq |-> r.seq, prevHash |-> r.prevHash, rowHash |-> r.rowHash]
      /\ r.id \in Event /\ r.tenant \in Tenant /\ r.seq \in SeqNo /\ r.prevHash \in Digest /\ r.rowHash \in Digest
  BY RowsAreStored DEF Row, StoredRow
<1> DEFINE a == Altered(r)
           g == ComputeRowHash(r.prevHash, a)
<1>2. a \in StoredRow /\ CanonicalRow(a) = [id |-> r.id, tenant |-> r.tenant, body |-> OtherBody]
  BY <1>1 DEF Altered, StoredRow, CanonicalRow
<1>3. CanonicalRow(a) \in Tenant \cup StoredColumns
  BY <1>1, <1>2 DEF StoredColumns
<1>4. g \in Digest
  BY <1>1, <1>3, AppendProperties DEF ComputeRowHash, Digest
<1> HIDE DEF g
<1>5. [r EXCEPT !.body = OtherBody, !.rowHash = g] \in StoredRow
  BY <1>1, <1>4 DEF StoredRow
<1>6. Rewritten(r) \in StoredRow
  BY <1>5 DEF Rewritten, g, Altered
<1>7. \A q \in Row : Renumbered(r, q) \in StoredRow
  BY <1>1 DEF Renumbered, StoredRow, Row
<1>8. \A t \in Tenant : Moved(r, t) \in StoredRow
  BY <1>1 DEF Moved, StoredRow
<1>9. QED
  BY <1>2, <1>6, <1>7, <1>8

\* Whatever the owner did, no two rows of the table have the same seq.
LEMMA EventsAreStored ==
  ASSUME WriterInv, OwnerInv
  PROVE  /\ events \subseteq StoredRow /\ IsFiniteSet(events)
         /\ \A r, q \in events : r.seq = q.seq => r = q
<1>1. /\ written \subseteq Row /\ written \subseteq StoredRow /\ IsFiniteSet(written)
      /\ \A r, q \in written : r.seq = q.seq => r = q
  BY RowsAreStored DEF WriterInv
<1>2. ASSUME NEW r \in written, NEW a \in StoredRow, a.seq = r.seq, events = (written \ {r}) \cup {a}
      PROVE  /\ events \subseteq StoredRow /\ IsFiniteSet(events)
             /\ \A p, q \in events : p.seq = q.seq => p = q
  <2>1. IsFiniteSet(written \ {r})
    BY <1>1, FS_RemoveElement
  <2>2. IsFiniteSet(events)
    BY <1>2, <2>1, FS_AddElement
  <2>3. QED
    BY <1>1, <1>2, <2>2
<1>3. CASE damage = "none" /\ events = written
  BY <1>1, <1>3
<1>4. ASSUME NEW r \in written, events = written \ {r}
      PROVE  /\ events \subseteq StoredRow /\ IsFiniteSet(events)
             /\ \A p, q \in events : p.seq = q.seq => p = q
  BY <1>1, <1>4, FS_RemoveElement
<1>5. ASSUME NEW r \in written, NEW q \in written, r # q,
             events = (written \ {r, q}) \cup {Renumbered(r, q), Renumbered(q, r)}
      PROVE  /\ events \subseteq StoredRow /\ IsFiniteSet(events)
             /\ \A p, o \in events : p.seq = o.seq => p = o
  <2> DEFINE a == Renumbered(r, q)
             b == Renumbered(q, r)
  <2>1. a \in StoredRow /\ b \in StoredRow
    BY <1>1, DamagedIsStored
  <2>2. a.seq = q.seq /\ b.seq = r.seq
    BY <1>1 DEF Renumbered, Row
  <2> HIDE DEF a, b
  <2>3. events = ((written \ {r, q}) \cup {a}) \cup {b} /\ written \ {r, q} = (written \ {r}) \ {q}
    BY <1>5 DEF a, b
  <2>4. IsFiniteSet((written \ {r}) \ {q})
    BY <1>1, FS_RemoveElement
  <2>5. IsFiniteSet(events)
    BY <2>3, <2>4, FS_AddElement
  <2>6. \A p \in events : p = a \/ p = b \/ (p \in written /\ p # r /\ p # q)
    BY <2>3
  <2>7. \A p, o \in events : p.seq = o.seq => p = o
    BY <1>1, <1>5, <2>2, <2>6
  <2>8. QED
    BY <1>1, <2>1, <2>3, <2>5, <2>7
<1>6. \A r \in written : /\ Altered(r).seq = r.seq /\ Rewritten(r).seq = r.seq
                         /\ \A t : Moved(r, t).seq = r.seq
  BY <1>1 DEF Altered, Rewritten, Moved, Row
<1>7. \A r \in written : /\ Altered(r) \in StoredRow /\ Rewritten(r) \in StoredRow
                         /\ \A t \in Tenant : Moved(r, t) \in StoredRow
  BY <1>1, DamagedIsStored
<1>8. QED
  BY <1>2, <1>3, <1>4, <1>5, <1>6, <1>7 DEF OwnerInv, WrittenOf

\* The row a commit adds: behind its tenant's head, its seq past every one of the tenant's.
NewRow(n) ==
  /\ n \in Row /\ n.tenant \in Tenant /\ Genuine(n) /\ n.prevHash = heads[n.tenant].prevHash
  /\ n \notin written /\ n \notin events
  /\ events' = events \cup {n} /\ written' = written \cup {n}
  /\ heads' = [heads EXCEPT ![n.tenant] = Advanced(@, n)]
  /\ \A r \in written \cup events : r.seq # n.seq /\ (r.tenant = n.tenant => r.seq < n.seq)
  /\ damage' = damage /\ verdict' = NoVerdict

\* A commit adds one row behind its tenant's (writer.ts:109-137).
LEMMA CommitAdds ==
  ASSUME WriterInv, CommitAppend
  PROVE  \E n : /\ NewRow(n) /\ events' \ events = {n}
                /\ walk' = IF walk.pc = "head" /\ n.tenant = walk.tenant THEN [walk EXCEPT !.raced = TRUE] ELSE walk
<1>1. PICK c \in Columns, s \in SeqNo : AppendRow(c, s)
  BY DEF CommitAppend, TablesNext
<1> DEFINE n == RowOf(c, s, heads[c.tenant].prevHash)
<1>2. /\ c.id \in Event /\ c.tenant \in Tenant /\ c.body \in Body /\ CanonicalRow(c) = c /\ c \in Tenant \cup Columns
      /\ heads[c.tenant].prevHash \in Hash
  BY <1>1 DEF Columns, CanonicalRow, WriterInv, ChainHead
<1>3. ComputeRowHash(heads[c.tenant].prevHash, c) \in Hash
  BY <1>2, AppendProperties DEF ComputeRowHash, Hash
<1>4. /\ n = [id |-> c.id, tenant |-> c.tenant, body |-> c.body, seq |-> s,
              prevHash |-> heads[c.tenant].prevHash, rowHash |-> ComputeRowHash(heads[c.tenant].prevHash, c)]
  BY DEF RowOf
<1>5. /\ n.id = c.id /\ n.tenant = c.tenant /\ n.body = c.body /\ n.seq = s
      /\ n.prevHash = heads[c.tenant].prevHash /\ n.rowHash = ComputeRowHash(n.prevHash, c)
  BY <1>4
<1>6. n \in Row
  BY <1>2, <1>3, <1>4 DEF Row
<1>7. Genuine(n)
  BY <1>5 DEF Genuine, ComputeRowHash, CanonicalRow
<1>8. events' = events \cup {n} /\ heads' = [heads EXCEPT ![n.tenant] = Advanced(@, n)]
  BY <1>1, <1>5 DEF AppendRow, Store
<1>9. \A r \in events : r.seq # s /\ (r.tenant = c.tenant => r.seq < s)
  BY <1>1 DEF AppendRow, RowsOf
<1> HIDE DEF n
<1>10. n \notin events /\ events' \ events = {n}
  BY <1>5, <1>8, <1>9
<1>11. /\ written' = written \cup {n} /\ damage' = damage /\ verdict' = NoVerdict
       /\ \A w \in written : w.seq # n.seq /\ (w.tenant = n.tenant => w.seq < n.seq)
       /\ walk' = IF walk.pc = "head" /\ n.tenant = walk.tenant THEN [walk EXCEPT !.raced = TRUE] ELSE walk
  BY <1>10 DEF CommitAppend
<1>12. NewRow(n)
  BY <1>2, <1>5, <1>6, <1>7, <1>8, <1>9, <1>10, <1>11 DEF NewRow
<1>13. QED
  BY <1>10, <1>11, <1>12

\* An append leaves what the owner did to the other rows.
LEMMA CommitKeeps ==
  ASSUME WriterInv, OwnerInv, NEW n, NewRow(n)
  PROVE  WriterInv' /\ OwnerInv'
<1> DEFINE T == n.tenant
           h == heads[T].prevHash
<1>1. /\ n \in Row /\ n \in StoredRow /\ T \in Tenant /\ Genuine(n) /\ n.prevHash = h
      /\ n \notin written /\ n \notin events
      /\ events' = events \cup {n} /\ written' = written \cup {n} /\ damage' = damage
      /\ heads' = [heads EXCEPT ![T] = Advanced(@, n)]
      /\ \A r \in written : r.seq # n.seq /\ (r.tenant = T => r.seq < n.seq)
  BY RowsAreStored DEF NewRow
<1>2. /\ heads \in [Tenant -> ChainHead] /\ written \subseteq Row /\ IsFiniteSet(written)
      /\ \A r, q \in written : r.seq = q.seq => r = q
  BY DEF WriterInv
<1>3. Advanced(heads[T], n) \in ChainHead /\ Advanced(heads[T], n).prevHash = n.rowHash /\ Advanced(heads[T], n).exists = TRUE
  BY <1>1, <1>2 DEF Advanced, ChainHead, Row
<1>4. /\ heads' \in [Tenant -> ChainHead] /\ heads'[T].prevHash = n.rowHash /\ heads'[T].exists = TRUE
      /\ \A t \in Tenant \ {T} : heads'[t] = heads[t]
  BY <1>1, <1>2, <1>3
<1>5. written' \subseteq Row /\ IsFiniteSet(written') /\ \A r, q \in written' : r.seq = q.seq => r = q
  BY <1>1, <1>2, FS_AddElement
<1>6. ASSUME NEW t \in Tenant
      PROVE  /\ ChainTo(WrittenOf(t)', heads'[t].prevHash, t)
             /\ heads'[t].exists <=> Len(heads'[t].prevHash) > 1
  <2>1. CASE t # T
    <3>1. WrittenOf(t)' = WrittenOf(t)
      BY <1>1, <2>1 DEF WrittenOf
    <3>2. heads'[t] = heads[t]
      BY <1>4, <2>1
    <3>3. ChainTo(WrittenOf(t), heads[t].prevHash, t) /\ (heads[t].exists <=> Len(heads[t].prevHash) > 1)
      BY DEF WriterInv
    <3>4. QED
      BY <3>1, <3>2, <3>3
  <2>2. CASE t = T
    <3>1. ChainTo(WrittenOf(T), h, T)
      BY <1>1 DEF WriterInv
    <3>2. WrittenOf(T)' = WrittenOf(T) \cup {n} /\ \A r \in WrittenOf(T) : r.seq < n.seq
      BY <1>1 DEF WrittenOf
    <3>3. ChainTo(WrittenOf(T) \cup {n}, n.rowHash, T)
      BY <1>1, <3>1, <3>2, ChainExtends
    <3>4. Len(n.rowHash) > 1
      <4>1. Len(h) >= 1 /\ Len(n.rowHash) = Len(h) + 1 /\ Len(h) \in Nat
        BY <1>1, <3>1, GenuineHash DEF ChainTo
      <4>2. QED
        BY <4>1
    <3>5. QED
      BY <1>4, <2>2, <3>2, <3>3, <3>4
  <2>3. QED
    BY <2>1, <2>2
<1>7. WriterInv'
  BY <1>4, <1>5, <1>6 DEF WriterInv
<1>8. OwnerInv'
  <2>1. CASE damage = "none" /\ events = written
    BY <1>1, <2>1 DEF OwnerInv
  <2>2. ASSUME NEW r \in written,
               \/ damage = "alter" /\ events = (written \ {r}) \cup {Altered(r)}
               \/ damage = "rewrite" /\ events = (written \ {r}) \cup {Rewritten(r)}
               \/ damage = "delete" /\ events = written \ {r}
        PROVE  OwnerInv'
    <3>1. r \in written' /\ r # n
      BY <1>1
    <3>2. \/ damage' = "alter" /\ events' = (written' \ {r}) \cup {Altered(r)}
          \/ damage' = "rewrite" /\ events' = (written' \ {r}) \cup {Rewritten(r)}
          \/ damage' = "delete" /\ events' = written' \ {r}
      BY <1>1, <2>2, <3>1
    <3>3. QED
      BY <3>1, <3>2 DEF OwnerInv, Altered, Rewritten
  <2>3. ASSUME NEW r \in written, damage = "reorder", NEW q \in WrittenOf(r.tenant) \ {r},
               events = (written \ {r, q}) \cup {Renumbered(r, q), Renumbered(q, r)}
        PROVE  OwnerInv'
    <3>1. r \in written' /\ r # n /\ q \in WrittenOf(r.tenant)' \ {r} /\ q # n
      BY <1>1, <2>3 DEF WrittenOf
    <3>2. events' = (written' \ {r, q}) \cup {Renumbered(r, q), Renumbered(q, r)}
      BY <1>1, <2>3, <3>1
    <3>3. QED
      BY <1>1, <2>3, <3>1, <3>2 DEF OwnerInv, Renumbered
  <2>4. ASSUME NEW r \in written, damage = "move", NEW t \in Tenant \ {r.tenant},
               events = (written \ {r}) \cup {Moved(r, t)}
        PROVE  OwnerInv'
    <3>1. r \in written' /\ r # n
      BY <1>1
    <3>2. events' = (written' \ {r}) \cup {Moved(r, t)}
      BY <1>1, <2>4, <3>1
    <3>3. QED
      BY <1>1, <2>4, <3>1, <3>2 DEF OwnerInv, Moved
  <2>5. QED
    BY <2>1, <2>2, <2>3, <2>4 DEF OwnerInv
<1>9. QED
  BY <1>7, <1>8

\* One statement of the owner on an undamaged table, or the undoing of one
\* (verify-audit-chain.ts:103-171).
LEMMA OwnerKeeps ==
  ASSUME WriterInv, OwnerInv, DamageRow \/ Restore
  PROVE  WriterInv' /\ OwnerInv'
<1>1. UNCHANGED <<heads, written>>
  BY DEF DamageRow, Restore
<1>2. WriterInv'
  BY <1>1 DEF WriterInv, WrittenOf
<1>3. CASE Restore
  BY <1>2, <1>3 DEF Restore, OwnerInv
<1>4. CASE DamageRow
  <2>1. damage = "none" /\ events = written
    BY <1>4 DEF DamageRow, OwnerInv
  <2>2. PICK kind \in Kinds, r \in written : events' \in Damaged(kind, r) /\ damage' = kind
    BY <1>4, <2>1 DEF DamageRow
  <2>3. CASE kind = "reorder"
    <3>1. PICK q \in RowsOf(r.tenant) \ {r} :
            events' = ((events \ {r}) \ {q}) \cup {[r EXCEPT !.seq = q.seq], [q EXCEPT !.seq = r.seq]}
      BY <2>2, <2>3 DEF Damaged
    <3>2. q \in WrittenOf(r.tenant)' \ {r}
      BY <1>1, <2>1 DEF RowsOf, WrittenOf
    <3>3. events' = (written' \ {r, q}) \cup {Renumbered(r, q), Renumbered(q, r)}
      BY <1>1, <2>1, <3>1 DEF Renumbered
    <3>4. QED
      BY <1>1, <1>2, <2>2, <2>3, <3>2, <3>3 DEF OwnerInv, Renumbered
  <2>4. CASE kind = "move"
    <3>1. PICK t \in Tenant \ {r.tenant} : events' = (written' \ {r}) \cup {Moved(r, t)}
      BY <1>1, <2>1, <2>2, <2>4 DEF Damaged, Moved
    <3>2. QED
      BY <1>1, <1>2, <2>2, <2>4, <3>1 DEF OwnerInv, Moved
  <2>5. CASE kind \in {"alter", "rewrite", "delete"}
    <3>1. \/ kind = "alter" /\ events' = (written \ {r}) \cup {Altered(r)}
          \/ kind = "rewrite" /\ events' = (written \ {r}) \cup {Rewritten(r)}
          \/ kind = "delete" /\ events' = written \ {r}
      BY <2>1, <2>2, <2>5 DEF Damaged, Altered, Rewritten
    <3>2. QED
      BY <1>1, <1>2, <2>2, <3>1 DEF OwnerInv, Altered, Rewritten
  <2>6. QED
    BY <2>3, <2>4, <2>5 DEF Kinds
<1>5. QED
  BY <1>3, <1>4

\* What a row in the table is that nobody wrote.
LEMMA StrayFacts ==
  ASSUME WriterInv, OwnerInv, NEW x \in events, x \notin written
  PROVE  /\ damage \in {"alter", "rewrite", "reorder", "move"}
         /\ damage = "alter" => /\ ~Genuine(x)
                                /\ \E r \in written : /\ r.tenant = x.tenant /\ r.seq = x.seq /\ r.prevHash = x.prevHash
                                                      /\ events = (written \ {r}) \cup {x}
         /\ damage = "rewrite" => /\ Genuine(x) /\ x.body = OtherBody
                                  /\ \E r \in written : r.tenant = x.tenant /\ events = (written \ {r}) \cup {x}
         /\ damage = "reorder" => Genuine(x) /\ \E r \in written : r.tenant = x.tenant
         /\ damage = "move" => ~Genuine(x) /\ x.prevHash[1] # x.tenant
<1>1. \A r \in written : /\ r \in Row /\ r \in StoredRow /\ Genuine(r) /\ Len(r.prevHash) >= 1
                         /\ r.prevHash[1] = r.tenant /\ r.rowHash[Len(r.rowHash)] = CanonicalRow(r)
  <2>1. ASSUME NEW r \in written
        PROVE  /\ r \in Row /\ r \in StoredRow /\ Genuine(r) /\ Len(r.prevHash) >= 1
               /\ r.prevHash[1] = r.tenant /\ r.rowHash[Len(r.rowHash)] = CanonicalRow(r)
    <3>1. r \in Row /\ r \in StoredRow /\ r.tenant \in Tenant /\ r \in WrittenOf(r.tenant)
      BY RowsAreStored DEF WriterInv, WrittenOf, Row
    <3> DEFINE h == heads[r.tenant].prevHash
    <3>2. ChainTo(WrittenOf(r.tenant), h, r.tenant)
      BY <3>1 DEF WriterInv
    <3>3. Genuine(r) /\ Len(r.prevHash) >= 1 /\ Agrees(r.rowHash, h) /\ h[1] = r.tenant
      BY <3>1, <3>2 DEF ChainTo
    <3>4. /\ Len(r.prevHash) \in Nat /\ Len(r.rowHash) = Len(r.prevHash) + 1
          /\ \A i \in 1..Len(r.prevHash) : r.rowHash[i] = r.prevHash[i]
          /\ r.rowHash[Len(r.rowHash)] = CanonicalRow(r)
      BY <3>1, <3>3, GenuineHash
    <3>5. r.prevHash[1] = h[1]
      BY <3>3, <3>4 DEF Agrees
    <3>6. QED
      BY <3>1, <3>3, <3>4, <3>5
  <2>2. QED
    BY <2>1
<1>2. ASSUME NEW r \in written, x = Altered(r)
      PROVE  ~Genuine(x) /\ x.tenant = r.tenant /\ x.seq = r.seq /\ x.prevHash = r.prevHash
  <2>1. /\ x \in StoredRow /\ x.tenant = r.tenant /\ x.seq = r.seq /\ x.prevHash = r.prevHash
        /\ x.rowHash = r.rowHash /\ x.body = OtherBody
    BY <1>1, <1>2, DamagedIsStored DEF Altered, Row
  <2>2. Genuine(x) => CanonicalRow(x) = CanonicalRow(r)
    BY <1>1, <2>1, GenuineHash
  <2>3. r.body \in Body
    BY <1>1 DEF Row
  <2>4. QED
    BY <2>1, <2>2, <2>3, OtherBodyAssumption DEF CanonicalRow
<1>3. ASSUME NEW r \in written, x = Rewritten(r)
      PROVE  Genuine(x) /\ x.tenant = r.tenant /\ x.body = OtherBody
  <2> DEFINE g == ComputeRowHash(r.prevHash, [r EXCEPT !.body = OtherBody])
  <2>1. x = [id |-> r.id, tenant |-> r.tenant, body |-> OtherBody, seq |-> r.seq, prevHash |-> r.prevHash, rowHash |-> g]
    <3>1. r \in Row
      BY <1>1
    <3> HIDE DEF g
    <3>2. x = [r EXCEPT !.body = OtherBody, !.rowHash = g]
      BY <1>3 DEF Rewritten, g
    <3>3. QED
      BY <3>1, <3>2 DEF Row
  <2>2. CanonicalRow([r EXCEPT !.body = OtherBody]) = [id |-> r.id, tenant |-> r.tenant, body |-> OtherBody]
    BY <1>1 DEF Row, CanonicalRow
  <2>3. g = Append(r.prevHash, [id |-> r.id, tenant |-> r.tenant, body |-> OtherBody])
    BY <2>2 DEF ComputeRowHash
  <2> HIDE DEF g
  <2>4. CanonicalRow(x) = [id |-> r.id, tenant |-> r.tenant, body |-> OtherBody] /\ x.prevHash = r.prevHash /\ x.rowHash = g
    BY <2>1 DEF CanonicalRow
  <2>5. QED
    BY <2>1, <2>3, <2>4 DEF Genuine, ComputeRowHash
<1>4. ASSUME NEW r \in written, NEW q, x = Renumbered(r, q)
      PROVE  Genuine(x) /\ x.tenant = r.tenant
  <2>1. x.id = r.id /\ x.tenant = r.tenant /\ x.body = r.body /\ x.prevHash = r.prevHash /\ x.rowHash = r.rowHash
    BY <1>1, <1>4 DEF Renumbered, Row
  <2>2. Genuine(r)
    BY <1>1
  <2>3. QED
    BY <2>1, <2>2 DEF Genuine, ComputeRowHash, CanonicalRow
<1>5. ASSUME NEW r \in written, NEW t \in Tenant \ {r.tenant}, x = Moved(r, t)
      PROVE  ~Genuine(x) /\ x.prevHash[1] # x.tenant
  <2>1. x \in StoredRow /\ x.tenant = t /\ x.prevHash = r.prevHash /\ x.rowHash = r.rowHash
    BY <1>1, <1>5, DamagedIsStored DEF Moved, Row
  <2>2. Genuine(x) => CanonicalRow(x) = CanonicalRow(r)
    BY <1>1, <2>1, GenuineHash
  <2>3. QED
    BY <1>1, <2>1, <2>2 DEF CanonicalRow
<1>6. CASE damage = "none"
  BY <1>6 DEF OwnerInv
<1>7. CASE damage = "alter"
  BY <1>2, <1>7 DEF OwnerInv
<1>8. CASE damage = "rewrite"
  BY <1>3, <1>8 DEF OwnerInv
<1>9. CASE damage = "delete"
  BY <1>9 DEF OwnerInv
<1>10. CASE damage = "reorder"
  <2>1. PICK r \in written : \E q \in WrittenOf(r.tenant) \ {r} :
          events = (written \ {r, q}) \cup {Renumbered(r, q), Renumbered(q, r)}
    BY <1>10 DEF OwnerInv
  <2>2. PICK q \in WrittenOf(r.tenant) \ {r} :
          events = (written \ {r, q}) \cup {Renumbered(r, q), Renumbered(q, r)}
    BY <2>1
  <2>3. q \in written /\ (x = Renumbered(r, q) \/ x = Renumbered(q, r))
    BY <2>2 DEF WrittenOf
  <2>4. Genuine(x) /\ \E w \in written : w.tenant = x.tenant
    BY <1>4, <2>3
  <2>5. QED
    BY <1>10, <2>4
<1>11. CASE damage = "move"
  <2>1. PICK r \in written : \E t \in Tenant \ {r.tenant} : x = Moved(r, t)
    BY <1>11 DEF OwnerInv
  <2>2. PICK t \in Tenant \ {r.tenant} : x = Moved(r, t)
    BY <2>1
  <2>3. ~Genuine(x) /\ x.prevHash[1] # x.tenant
    BY <1>5, <2>2
  <2>4. QED
    BY <1>11, <2>3
<1>12. QED
  BY <1>6, <1>7, <1>8, <1>9, <1>10, <1>11 DEF OwnerInv

\* Each position of a head is a row somebody wrote.
LEMMA HeadIsWritten ==
  ASSUME WriterInv, NEW t \in Tenant, NEW k \in 2..Len(heads[t].prevHash)
  PROVE  heads[t].prevHash[k].body \in Body
<1> DEFINE h == heads[t].prevHash
<1>1. ChainTo(WrittenOf(t), h, t) /\ WrittenOf(t) \subseteq Row
  BY DEF WriterInv, WrittenOf
<1>2. PICK w \in WrittenOf(t) : Len(w.rowHash) = k
  BY <1>1 DEF ChainTo
<1>3. w \in StoredRow /\ Genuine(w) /\ Agrees(w.rowHash, h) /\ w.body \in Body
  BY <1>1 DEF ChainTo, Row
<1>4. w.rowHash[k] = CanonicalRow(w) /\ h[k] = w.rowHash[k]
  BY <1>2, <1>3, GenuineHash DEF Agrees
<1>5. QED
  BY <1>3, <1>4 DEF CanonicalRow

\* Of two rows whose seq was exchanged, none passes without the other.
LEMMA BothRenumbered ==
  ASSUME WriterInv, OwnerInv, NEW r \in written, NEW q \in WrittenOf(r.tenant) \ {r},
         events = (written \ {r, q}) \cup {Renumbered(r, q), Renumbered(q, r)},
         NEW t \in Tenant, NEW m \in Nat, NEW e,
         NEW P, P = {p \in RowsOf(t) : p.seq <= m}, ChainTo(P, e, t), Renumbered(r, q) \in P
  PROVE  Renumbered(q, r) \in P
<1> DEFINE a == Renumbered(r, q)
           b == Renumbered(q, r)
           W == WrittenOf(t)
<1>1. r \in Row /\ q \in Row /\ r.tenant = q.tenant /\ r # q /\ q \in written
  BY DEF WriterInv, WrittenOf
<1>2. /\ a.tenant = r.tenant /\ a.rowHash = r.rowHash /\ a.seq = q.seq
      /\ b.tenant = r.tenant /\ b.rowHash = q.rowHash /\ b.seq = r.seq
  BY <1>1 DEF Renumbered, Row
<1>3. /\ a \in events /\ b \in events /\ a \in P /\ r.tenant = t /\ r \in W /\ q \in W
      /\ \A p \in events : p = a \/ p = b \/ (p \in written /\ p # r /\ p # q)
  BY <1>1, <1>2 DEF RowsOf, WrittenOf
<1> HIDE DEF a, b
<1>4. \A v, w \in W : /\ v.seq < w.seq <=> Len(v.rowHash) < Len(w.rowHash)
                      /\ Len(v.rowHash) = Len(w.rowHash) => v = w
  BY DEF WriterInv, ChainTo
<1>5. /\ r.seq \in Nat /\ q.seq \in Nat /\ Len(r.rowHash) \in Nat /\ Len(q.rowHash) \in Nat
      /\ Len(q.rowHash) >= 2
  <2>1. r \in StoredRow /\ q \in StoredRow /\ Genuine(r) /\ Genuine(q) /\ Len(q.prevHash) >= 1
    BY <1>1, <1>3, RowsAreStored DEF WriterInv, ChainTo
  <2>2. QED
    BY <2>1, GenuineHash, SeqIsNumber
<1>6. CASE Len(r.rowHash) < Len(q.rowHash)
  <2>1. b.seq <= m
    <3>1. r.seq < q.seq /\ a.seq <= m
      BY <1>3, <1>4, <1>6
    <3>2. QED
      BY <1>2, <1>5, <3>1
  <2>2. QED
    BY <1>2, <1>3, <2>1 DEF RowsOf, b
<1>7. CASE Len(q.rowHash) < Len(r.rowHash)
  <2>1. Len(e) \in Nat /\ Len(r.rowHash) <= Len(e)
    BY <1>2, <1>3, LenProperties DEF ChainTo, Agrees, Digest
  <2>2. Len(q.rowHash) \in 2..Len(e)
    BY <1>5, <1>7, <2>1
  <2>3. PICK p \in P : Len(p.rowHash) = Len(q.rowHash)
    BY <2>2 DEF ChainTo
  <2>4. p \in events /\ p.tenant = t
    BY DEF RowsOf
  <2>5. p # a
    BY <1>2, <1>5, <1>7, <2>3
  <2>6. ~(p \in written /\ p # r /\ p # q)
    BY <1>3, <1>4, <2>3, <2>4 DEF WrittenOf
  <2>7. p = b
    BY <1>3, <2>4, <2>5, <2>6
  <2>8. QED
    BY <2>7 DEF b
<1>8. CASE Len(r.rowHash) = Len(q.rowHash)
  BY <1>1, <1>3, <1>4, <1>8
<1>9. QED
  BY <1>5, <1>6, <1>7, <1>8

\* No row that is not as committed passes, but one rewritten with its hash, and nothing
\* passes behind that.
LEMMA StraysPassLast ==
  ASSUME WriterInv, OwnerInv, NEW t \in Tenant, NEW m \in Nat, NEW e,
         NEW P, P = {p \in RowsOf(t) : p.seq <= m}, ChainTo(P, e, t), NEW x \in P, x \notin written
  PROVE  /\ damage = "rewrite" /\ \A p \in P : p.seq <= x.seq
         /\ e # heads[t].prevHash
<1> DEFINE k == Len(x.rowHash)
           h == heads[t].prevHash
<1>1. x \in events /\ x.tenant = t /\ x \in StoredRow /\ Genuine(x)
  BY DEF ChainTo, RowsOf
<1>2. damage # "reorder"
  <2>1. SUFFICES ASSUME damage = "reorder" PROVE FALSE
    OBVIOUS
  <2>2. PICK r \in written : \E q \in WrittenOf(r.tenant) \ {r} :
          events = (written \ {r, q}) \cup {Renumbered(r, q), Renumbered(q, r)}
    BY <2>1 DEF OwnerInv
  <2>2a. PICK q \in WrittenOf(r.tenant) \ {r} :
          events = (written \ {r, q}) \cup {Renumbered(r, q), Renumbered(q, r)}
    BY <2>2
  <2> DEFINE a == Renumbered(r, q)
             b == Renumbered(q, r)
  <2>3. x = a \/ x = b
    BY <1>1, <2>2a
  <2>4. q \in written /\ r \in WrittenOf(q.tenant) \ {q} /\ r.tenant = q.tenant
    BY DEF WrittenOf
  <2>5. events = (written \ {q, r}) \cup {Renumbered(q, r), Renumbered(r, q)}
    BY <2>2a
  <2>6. a \in P => b \in P
    BY <2>2a, BothRenumbered
  <2>7. b \in P => a \in P
    BY <2>4, <2>5, BothRenumbered
  <2>8. a \in P /\ b \in P
    BY <2>3, <2>6, <2>7
  <2>9. /\ a.tenant = r.tenant /\ a.rowHash = r.rowHash /\ a.seq = q.seq
        /\ b.tenant = r.tenant /\ b.rowHash = q.rowHash /\ b.seq = r.seq
    BY <2>4 DEF Renumbered, Row, WriterInv
  <2> HIDE DEF a, b
  <2>10. q.seq < r.seq <=> Len(r.rowHash) < Len(q.rowHash)
    BY <2>8, <2>9 DEF ChainTo
  <2>11. r.seq < q.seq <=> Len(q.rowHash) < Len(r.rowHash)
    BY <2>8, <2>9 DEF ChainTo
  <2>12. r \in WrittenOf(t) /\ q \in WrittenOf(t)
    BY <2>4, <2>8, <2>9 DEF ChainTo, WrittenOf
  <2>13. ChainTo(WrittenOf(t), h, t)
    BY DEF WriterInv
  <2>14. /\ r.seq < q.seq <=> Len(r.rowHash) < Len(q.rowHash)
         /\ q.seq < r.seq <=> Len(q.rowHash) < Len(r.rowHash)
         /\ Len(r.rowHash) = Len(q.rowHash) => r = q
    BY <2>12, <2>13 DEF ChainTo
  <2>15. Len(r.rowHash) \in Nat /\ Len(q.rowHash) \in Nat
    BY <2>12, <2>13, GenuineHash DEF ChainTo
  <2>16. r.seq \in Nat /\ q.seq \in Nat
    BY <2>12, <2>13, SeqIsNumber DEF ChainTo
  <2>17. QED
    BY <2>4, <2>10, <2>11, <2>14, <2>15, <2>16
<1>3. damage = "rewrite" /\ x.body = OtherBody
  BY <1>1, <1>2, StrayFacts
<1>4. PICK r \in written : r.tenant = t /\ events = (written \ {r}) \cup {x}
  BY <1>1, <1>3, StrayFacts
<1>5. k \in Nat /\ k >= 2 /\ x.rowHash[k] = CanonicalRow(x) /\ e[k] = CanonicalRow(x) /\ k <= Len(e)
  <2>1. Len(x.prevHash) >= 1 /\ Agrees(x.rowHash, e)
    BY DEF ChainTo
  <2>2. k \in Nat /\ k >= 2 /\ x.rowHash[k] = CanonicalRow(x)
    BY <1>1, <2>1, GenuineHash
  <2>3. QED
    BY <2>1, <2>2 DEF Agrees
<1>6. k \in 2..Len(h) => h[k] # CanonicalRow(x)
  BY <1>3, HeadIsWritten, OtherBodyAssumption DEF CanonicalRow
<1>7. ASSUME NEW p \in P PROVE p.seq <= x.seq
  <2>1. SUFFICES ASSUME ~(p.seq <= x.seq) PROVE FALSE
    OBVIOUS
  <2>2. p.seq \in Nat /\ x.seq \in Nat /\ p # x
    BY <1>1, <2>1, SeqIsNumber DEF ChainTo
  <2>3. p \in WrittenOf(t)
    BY <1>4, <2>2 DEF RowsOf, WrittenOf
  <2>4. k < Len(p.rowHash)
    BY <2>1, <2>2 DEF ChainTo
  <2>5. Agrees(p.rowHash, e) /\ Agrees(p.rowHash, h)
    BY <2>3 DEF ChainTo, WriterInv
  <2>6. Len(h) \in Nat /\ Len(p.rowHash) \in Nat
    BY GenuineHash, LenProperties DEF ChainTo, WriterInv, Digest
  <2>7. k \in 2..Len(h) /\ h[k] = e[k]
    BY <1>5, <2>4, <2>5, <2>6 DEF Agrees
  <2>8. QED
    BY <1>5, <1>6, <2>7
<1>8. e # h
  <2>1. SUFFICES ASSUME e = h PROVE FALSE
    OBVIOUS
  <2>2. Len(h) \in Nat
    BY LenProperties DEF ChainTo, WriterInv, Digest
  <2>3. QED
    BY <1>5, <1>6, <2>1, <2>2
<1>9. QED
  BY <1>3, <1>7, <1>8
-------------------------------------------------------------------------------
(* The walk *)

\* The rows the walk has behind it.
Walked == {r \in RowsOf(walk.tenant) : r.seq <= walk.afterSeq}

WalkShape ==
  \/ walk = IdleWalk
  \/ /\ walk.pc \in {"page", "head"} /\ walk.tenant \in Tenant /\ walk.todo \subseteq Tenant
     /\ walk.afterSeq \in Nat /\ walk.rowsChecked \in Nat
     /\ walk = [pc |-> walk.pc, tenant |-> walk.tenant, todo |-> walk.todo,
                expected |-> walk.expected, afterSeq |-> walk.afterSeq,
                rowsChecked |-> walk.rowsChecked, firstBreak |-> walk.firstBreak,
                damaged |-> walk.damaged, disturbed |-> walk.disturbed, raced |-> walk.raced]

\* b is the row of the tenant t that comes next after the sequence number m.
NextRow(b, t, m) ==
  b \in RowsOf(t) /\ b.seq > m /\ \A q \in RowsOf(t) : q.seq > m => b.seq <= q.seq

\* While the owner leaves the table alone, what the walk has behind it is one chain to the
\* hash it expects next, counted row by row; a break is at the next row; a walk that ends
\* without one has left out only rows committed since its last page.
WalkIsChain ==
  Walking /\ ~walk.disturbed =>
    /\ ChainTo(Walked, walk.expected, walk.tenant)
    /\ walk.rowsChecked = Cardinality(Walked)
    /\ walk.afterSeq = 0 \/ \E r \in RowsOf(walk.tenant) : r.seq = walk.afterSeq
    /\ walk.damaged = (RowsOf(walk.tenant) # WrittenOf(walk.tenant))
    /\ walk.pc = "page" => walk.firstBreak = NoBreak
    /\ walk.pc = "head" =>
         \/ /\ walk.firstBreak = NoBreak
            /\ \A q \in RowsOf(walk.tenant) : q.seq > walk.afterSeq => q \in written /\ walk.raced
         \/ \E b \in RowsOf(walk.tenant) :
              /\ NextRow(b, walk.tenant, walk.afterSeq)
              /\ walk.firstBreak.reason = VerifyLink(b, walk.expected)
              /\ walk.firstBreak.reason # "none"

WalkInv == WriterInv /\ OwnerInv /\ WalkShape /\ WalkIsChain

\* Until the walk is at its end, no later row of the tenant comes before a row of the page; a
\* page that is not full is all there is (verifier.ts:78-88, 119).
LEMMA PageIsNext ==
  ASSUME WriterInv, OwnerInv, Walking, WalkShape,
         NEW later, later = {r \in RowsOf(walk.tenant) : r.seq > walk.afterSeq}
  PROVE  /\ Page \subseteq later /\ IsFiniteSet(Page) /\ IsFiniteSet(later)
         /\ \A r \in Page, q \in later : q.seq < r.seq => q \in Page
         /\ Cardinality(Page) < BatchSize => Page = later
<1>1. later \subseteq events /\ IsFiniteSet(later) /\ \A r \in later : r.seq \in Nat
  <2>1. later \subseteq events /\ events \subseteq StoredRow /\ IsFiniteSet(events)
    BY EventsAreStored DEF RowsOf
  <2>2. QED
    BY <2>1, FS_Subset, SeqIsNumber
<1> DEFINE ahead(r) == {q \in later : q.seq < r.seq}
<1>2. Page = {r \in later : Cardinality(ahead(r)) < BatchSize}
  BY DEF Page
<1>3. Page \subseteq later /\ IsFiniteSet(Page)
  BY <1>1, <1>2, FS_Subset
<1>4. ASSUME NEW r \in Page, NEW q \in later, q.seq < r.seq PROVE q \in Page
  <2>1. ahead(q) \subseteq ahead(r) /\ ahead(r) \subseteq later
    BY <1>1, <1>3, <1>4
  <2> HIDE DEF ahead
  <2>2. IsFiniteSet(ahead(r))
    BY <1>1, <2>1, FS_Subset
  <2>3. IsFiniteSet(ahead(q)) /\ Cardinality(ahead(q)) <= Cardinality(ahead(r))
    BY <2>1, <2>2, FS_Subset
  <2>4. Cardinality(ahead(q)) \in Nat /\ Cardinality(ahead(r)) \in Nat /\ BatchSize \in Nat
    BY <2>2, <2>3, FS_CardinalityType, BatchSizeAssumption
  <2>5. Cardinality(ahead(r)) < BatchSize
    BY <1>2
  <2>6. Cardinality(ahead(q)) < BatchSize
    BY <2>3, <2>4, <2>5
  <2>7. QED
    BY <1>2, <2>6
<1>5. ASSUME Cardinality(Page) < BatchSize PROVE Page = later
  <2>1. SUFFICES ASSUME later \ Page # {} PROVE FALSE
    BY <1>3
  <2>2. PICK b \in later \ Page : \A q \in later \ Page : b.seq <= q.seq
    BY <1>1, <2>1, HasFirst
  <2>3. ahead(b) \subseteq Page
    BY <1>1, <2>2
  <2> HIDE DEF ahead
  <2>4. IsFiniteSet(ahead(b)) /\ Cardinality(ahead(b)) <= Cardinality(Page)
    BY <1>3, <2>3, FS_Subset
  <2>5. Cardinality(ahead(b)) \in Nat /\ Cardinality(Page) \in Nat /\ BatchSize \in Nat
    BY <1>3, <2>4, FS_CardinalityType, BatchSizeAssumption
  <2>6. Cardinality(ahead(b)) < BatchSize
    BY <1>5, <2>4, <2>5
  <2>7. QED
    BY <1>2, <2>2, <2>6
<1>6. QED
  BY <1>1, <1>3, <1>4, <1>5

\* Before the first row that does not verify, each row of the page is linked to the one
\* before it (verifier.ts:107-117).
LEMMA PageIsLinked ==
  ASSUME WriterInv, OwnerInv, Walking, WalkShape, ChainTo(Walked, walk.expected, walk.tenant),
         NEW r \in Page, \A b \in Broken(Page) : ~(b.seq < r.seq)
  PROVE  ChainTo(Walked \cup Before(r, Page), ExpectedAt(r, Page), walk.tenant)
<1> DEFINE later == {q \in RowsOf(walk.tenant) : q.seq > walk.afterSeq}
           t == walk.tenant
           Linked(q) == ChainTo(Walked \cup Before(q, Page), ExpectedAt(q, Page), t)
           Bad == {q \in Page : (\A b \in Broken(Page) : ~(b.seq < q.seq)) /\ ~Linked(q)}
<1>1. /\ Page \subseteq later /\ IsFiniteSet(Page)
      /\ \A q \in Page : q \in StoredRow /\ q.tenant = t /\ q.seq \in Nat /\ q.seq > walk.afterSeq
  BY PageIsNext, EventsAreStored, SeqIsNumber DEF RowsOf
<1>2. \A p, q \in Page : p.seq = q.seq => p = q
  BY <1>1, EventsAreStored DEF RowsOf
<1>3. \A p \in Walked : p.seq <= walk.afterSeq /\ p.seq \in Nat
  BY EventsAreStored, SeqIsNumber DEF Walked, RowsOf
<1>4. SUFFICES ASSUME Bad # {} PROVE FALSE
  <2>1. r \notin Bad
    BY <1>4
  <2>2. QED
    BY <2>1
<1>5. PICK w \in Bad : \A q \in Bad : w.seq <= q.seq
  <2>1. \A q \in Bad : q.seq \in Nat
    BY <1>1
  <2> HIDE DEF Bad
  <2>2. QED
    BY <1>4, <2>1, HasFirst
<1>6. w \in Page /\ ~Linked(w) /\ \A b \in Broken(Page) : ~(b.seq < w.seq)
  BY <1>5
<1>7. Before(w, Page) # {}
  <2>1. SUFFICES ASSUME Before(w, Page) = {} PROVE FALSE
    OBVIOUS
  <2>2. Walked \cup Before(w, Page) = Walked /\ ExpectedAt(w, Page) = walk.expected
    BY <2>1 DEF ExpectedAt
  <2>3. QED
    BY <1>6, <2>2
<1> DEFINE l == LastOf(Before(w, Page))
<1>8. l \in Before(w, Page) /\ \A q \in Before(w, Page) : q.seq <= l.seq
  <2>1. IsFiniteSet(Before(w, Page)) /\ \A q \in Before(w, Page) : q.seq \in Nat
    BY <1>1, FS_Subset DEF Before
  <2>2. QED
    BY <1>7, <2>1, HasLast
<1>9. l \in Page /\ l.seq < w.seq
  BY <1>8 DEF Before
<1> HIDE DEF l
<1>10. Linked(l) /\ l \notin Broken(Page)
  <2>1. \A b \in Broken(Page) : b \in Page /\ ~(b.seq < w.seq)
    BY <1>6 DEF Broken
  <2>2. \A b \in Broken(Page) : ~(b.seq < l.seq)
    BY <1>1, <1>6, <1>9, <2>1
  <2>3. l \notin Bad
    BY <1>1, <1>5, <1>6, <1>9
  <2>4. QED
    BY <1>9, <2>1, <2>2, <2>3
<1>11. l.prevHash = ExpectedAt(l, Page) /\ Genuine(l)
  BY <1>9, <1>10 DEF Broken, VerifyLink, Genuine
<1>12. \A q \in Walked \cup Before(l, Page) : q.seq < l.seq
  BY <1>1, <1>3, <1>9 DEF Before, WalkShape, IdleWalk, Walking
<1>13. ChainTo((Walked \cup Before(l, Page)) \cup {l}, l.rowHash, t)
  BY <1>1, <1>9, <1>10, <1>11, <1>12, ChainExtends
<1>14. Before(w, Page) = Before(l, Page) \cup {l}
  BY <1>1, <1>2, <1>6, <1>8, <1>9 DEF Before
<1>15. ExpectedAt(w, Page) = l.rowHash
  BY <1>7 DEF ExpectedAt, l
<1>16. QED
  BY <1>6, <1>13, <1>14, <1>15
\* What the walk is after a page: behind the rows that verify, each counted once; a break is at
\* the row that comes next, and without one a page that is not full leaves no row behind.
PageWalked(e, m) ==
  LET S == Passed(Page)
      t == walk.tenant
  IN /\ IsFiniteSet(S) /\ m \in Nat
     /\ Walked \cup S = {r \in RowsOf(t) : r.seq <= m}
     /\ ChainTo(Walked \cup S, e, t)
     /\ Cardinality(Walked \cup S) = Cardinality(Walked) + Cardinality(S)
     /\ m = 0 \/ \E r \in RowsOf(t) : r.seq = m
     /\ \/ /\ Broken(Page) = {}
           /\ Cardinality(Page) < BatchSize => \A q \in RowsOf(t) : ~(q.seq > m)
        \/ \E b \in RowsOf(t) :
             /\ NextRow(b, t, m)
             /\ FirstBreak(Page).reason = VerifyLink(b, e) /\ VerifyLink(b, e) # "none"

\* What a page leaves behind the walk, whether a row of it broke the chain or none did
\* (verifier.ts:107-119).
LEMMA PageIsWalked ==
  ASSUME WriterInv, OwnerInv, WalkShape, WalkIsChain, walk.pc = "page", ~walk.disturbed
  PROVE  /\ Passed(Page) = {} => PageWalked(walk.expected, walk.afterSeq)
         /\ Passed(Page) # {} => PageWalked(LastOf(Passed(Page)).rowHash, LastOf(Passed(Page)).seq)
<1> DEFINE t == walk.tenant
           R == RowsOf(t)
           later == {q \in R : q.seq > walk.afterSeq}
           S == Passed(Page)
<1>1. /\ Walking /\ ChainTo(Walked, walk.expected, t) /\ t \in Tenant /\ walk.afterSeq \in Nat
      /\ walk.afterSeq = 0 \/ \E r \in R : r.seq = walk.afterSeq
  BY DEF WalkIsChain, Walking, WalkShape, IdleWalk
<1>2. /\ R \subseteq events /\ IsFiniteSet(R)
      /\ \A r \in R : r \in StoredRow /\ r.tenant = t /\ r.seq \in Nat
      /\ \A r, q \in R : r.seq = q.seq => r = q
  BY EventsAreStored, SeqIsNumber, FS_Subset DEF RowsOf
<1>3. /\ Page \subseteq later /\ IsFiniteSet(Page)
      /\ \A r \in Page, q \in later : q.seq < r.seq => q \in Page
      /\ Cardinality(Page) < BatchSize => Page = later
  BY <1>1, PageIsNext
<1>4. S \subseteq Page /\ IsFiniteSet(S) /\ \A r \in S : ~(r \in Broken(Page))
  <2>1. S \subseteq Page
    BY DEF Passed
  <2>2. \A r \in S : r.seq \in Nat /\ (r \in Broken(Page) => r.seq < r.seq)
    BY <1>2, <1>3, <2>1 DEF Passed
  <2>3. QED
    BY <1>3, <2>1, <2>2, FS_Subset
<1>5. \A r \in Page : r.seq > walk.afterSeq /\ r.seq \in Nat /\ r \in R
  BY <1>2, <1>3
<1>5l. ASSUME NEW r \in Page, \A b \in Broken(Page) : ~(b.seq < r.seq)
       PROVE  ChainTo(Walked \cup Before(r, Page), ExpectedAt(r, Page), t)
  BY <1>1, <1>5l, PageIsLinked
<1>6. Cardinality(Walked \cup S) = Cardinality(Walked) + Cardinality(S)
  <2>1. IsFiniteSet(Walked) /\ IsFiniteSet(S) /\ Walked \cap S = {}
    BY <1>1, <1>2, <1>4, <1>5, FS_Subset DEF Walked
  <2>2. Cardinality(Walked \cap S) = 0
    BY <2>1, FS_EmptySet
  <2>3. Cardinality(Walked) \in Nat /\ Cardinality(S) \in Nat
    BY <2>1, FS_CardinalityType
  <2>4. Cardinality(Walked \cup S) = Cardinality(Walked) + Cardinality(S) - Cardinality(Walked \cap S)
    BY <2>1, FS_Union
  <2>5. QED
    BY <2>2, <2>3, <2>4
<1> DEFINE First(b) == b \in Broken(Page) /\ \A q \in Broken(Page) : b.seq <= q.seq
<1>7. /\ Broken(Page) = {} => S = Page
      /\ Broken(Page) # {} =>
           \E b : /\ First(b) /\ b \in Page /\ S = Before(b, Page)
                  /\ FirstBreak(Page).reason = VerifyLink(b, ExpectedAt(b, Page))
                  /\ VerifyLink(b, ExpectedAt(b, Page)) # "none"
                  /\ ChainTo(Walked \cup S, ExpectedAt(b, Page), t)
  <2>1. Broken(Page) = {} => S = Page
    BY DEF Passed
  <2>2. ASSUME Broken(Page) # {}
        PROVE  \E b : /\ First(b) /\ b \in Page /\ S = Before(b, Page)
                      /\ FirstBreak(Page).reason = VerifyLink(b, ExpectedAt(b, Page))
                      /\ VerifyLink(b, ExpectedAt(b, Page)) # "none"
                      /\ ChainTo(Walked \cup S, ExpectedAt(b, Page), t)
    <3> DEFINE b == CHOOSE r \in Broken(Page) : \A q \in Broken(Page) : r.seq <= q.seq
    <3>1. \A r \in Broken(Page) : r \in Page /\ r.seq \in Nat /\ VerifyLink(r, ExpectedAt(r, Page)) # "none"
      BY <1>5 DEF Broken
    <3>2. First(b)
      <4>1. \E r \in Broken(Page) : First(r)
        BY <2>2, <3>1, HasFirst
      <4>2. QED
        BY <4>1
    <3>3. FirstBreak(Page) = [reason |-> VerifyLink(b, ExpectedAt(b, Page)), seq |-> b.seq]
      BY <2>2 DEF FirstBreak
    <3> HIDE DEF b
    <3>4. \A r \in Broken(Page) : ~(r.seq < b.seq)
      BY <3>1, <3>2
    <3>5. S = Before(b, Page)
      <4>1. ASSUME NEW q \in Page PROVE q.seq < b.seq <=> \A r \in Broken(Page) : q.seq < r.seq
        BY <1>5, <3>1, <3>2
      <4>2. QED
        BY <4>1 DEF Passed, Before
    <3>6. ChainTo(Walked \cup Before(b, Page), ExpectedAt(b, Page), t)
      BY <1>5l, <3>1, <3>2, <3>4
    <3>7. QED
      BY <3>1, <3>2, <3>3, <3>5, <3>6
  <2>3. QED
    BY <2>1, <2>2
<1>8. ASSUME S = {} PROVE PageWalked(walk.expected, walk.afterSeq)
  <2>1. Walked \cup S = Walked /\ Walked \cup S = {r \in R : r.seq <= walk.afterSeq}
    BY <1>8 DEF Walked
  <2>2. CASE Broken(Page) = {}
    <3>1. Page = {}
      BY <1>7, <1>8, <2>2
    <3>2. later = {}
      BY <1>3, <3>1, BatchSizeAssumption, FS_EmptySet
    <3>3. \A q \in R : ~(q.seq > walk.afterSeq)
      BY <3>2
    <3>4. QED
      BY <1>1, <1>4, <1>6, <2>1, <2>2, <3>3 DEF PageWalked
  <2>3. CASE Broken(Page) # {}
    <3>1. PICK b : /\ First(b) /\ b \in Page /\ S = Before(b, Page)
                   /\ FirstBreak(Page).reason = VerifyLink(b, ExpectedAt(b, Page))
                   /\ VerifyLink(b, ExpectedAt(b, Page)) # "none"
      BY <1>7, <2>3
    <3>2. ExpectedAt(b, Page) = walk.expected
      BY <1>8, <3>1 DEF ExpectedAt
    <3>3. \A q \in later : ~(q.seq < b.seq)
      BY <1>3, <1>8, <3>1 DEF Before
    <3>4. b \in R /\ NextRow(b, t, walk.afterSeq)
      BY <1>1, <1>2, <1>5, <3>1, <3>3 DEF NextRow
    <3>5. QED
      BY <1>1, <1>4, <1>6, <2>1, <3>1, <3>2, <3>4 DEF PageWalked
  <2>4. QED
    BY <2>2, <2>3
<1>9. ASSUME S # {} PROVE PageWalked(LastOf(S).rowHash, LastOf(S).seq)
  <2> DEFINE l == LastOf(S)
  <2>1. l \in S /\ \A q \in S : q.seq <= l.seq
    BY <1>4, <1>5, <1>9, HasLast
  <2>2. /\ l \in Page /\ l \in R /\ l \in StoredRow /\ l.seq \in Nat /\ l.seq > walk.afterSeq
        /\ l \notin Broken(Page) /\ \A b \in Broken(Page) : l.seq < b.seq
    BY <1>2, <1>4, <1>5, <2>1 DEF Passed
  <2>3. Before(l, Page) \cup {l} = S
    <3>1. ASSUME NEW q \in Page, q.seq < l.seq PROVE q \in S
      <4>1. \A b \in Broken(Page) : b.seq \in Nat
        BY <1>5 DEF Broken
      <4>2. \A b \in Broken(Page) : q.seq < b.seq
        BY <1>5, <2>2, <3>1, <4>1
      <4>3. QED
        BY <4>2 DEF Passed
    <3>2. ASSUME NEW q \in S PROVE q = l \/ q.seq < l.seq
      BY <1>2, <1>4, <1>5, <2>1, <2>2
    <3>3. QED
      BY <1>4, <2>1, <3>1, <3>2 DEF Before
  <2>4. ChainTo(Walked \cup S, l.rowHash, t)
    <3>1. \A b \in Broken(Page) : ~(b.seq < l.seq)
      <4>1. \A b \in Broken(Page) : b.seq \in Nat
        BY <1>5 DEF Broken
      <4>2. QED
        BY <2>2, <4>1
    <3>2. ChainTo(Walked \cup Before(l, Page), ExpectedAt(l, Page), t)
      BY <1>5l, <2>2, <3>1
    <3>3. l.prevHash = ExpectedAt(l, Page) /\ Genuine(l)
      BY <2>2 DEF Broken, VerifyLink, Genuine
    <3>4. \A q \in Walked \cup Before(l, Page) : q.seq < l.seq
      BY <1>1, <1>2, <2>2 DEF Walked, Before
    <3>5. l.tenant = t
      BY <1>2, <2>2
    <3> HIDE DEF l
    <3>6. ChainTo((Walked \cup Before(l, Page)) \cup {l}, l.rowHash, t)
      BY <2>2, <3>2, <3>3, <3>4, <3>5, ChainExtends
    <3>7. (Walked \cup Before(l, Page)) \cup {l} = Walked \cup S
      BY <2>3
    <3>8. QED
      BY <3>6, <3>7
  <2>5. Walked \cup S = {r \in R : r.seq <= l.seq}
    <3>1. ASSUME NEW r \in R, r.seq <= l.seq PROVE r \in Walked \cup S
      <4>1. CASE r.seq <= walk.afterSeq
        BY <4>1 DEF Walked
      <4>2. CASE r.seq = l.seq
        BY <1>2, <2>1, <2>2, <4>2
      <4>3. CASE r.seq > walk.afterSeq /\ r.seq # l.seq
        <5>1. r.seq < l.seq /\ r \in later
          BY <1>2, <2>2, <3>1, <4>3
        <5>2. r \in Page
          BY <1>3, <2>2, <5>1
        <5>3. QED
          BY <2>3, <5>1, <5>2 DEF Before
      <4>4. QED
        BY <1>1, <1>2, <4>1, <4>2, <4>3
    <3>2. ASSUME NEW r \in Walked \cup S PROVE r \in R /\ r.seq <= l.seq
      BY <1>1, <1>2, <1>4, <1>5, <2>1, <2>2 DEF Walked
    <3>3. QED
      BY <3>1, <3>2
  <2>6. CASE Broken(Page) = {}
    <3>1. S = Page
      BY <1>7, <2>6
    <3>2. ASSUME Cardinality(Page) < BatchSize, NEW q \in R PROVE ~(q.seq > l.seq)
      <4>1. q.seq > l.seq => q \in later
        BY <1>1, <1>2, <2>2
      <4>2. q \in later => q.seq <= l.seq
        BY <1>3, <2>1, <3>1, <3>2
      <4>3. QED
        BY <1>2, <2>2, <4>1, <4>2
    <3>3. QED
      BY <1>4, <1>6, <2>2, <2>4, <2>5, <2>6, <3>2 DEF PageWalked
  <2>7. CASE Broken(Page) # {}
    <3>1. PICK b : /\ First(b) /\ b \in Page /\ S = Before(b, Page)
                   /\ FirstBreak(Page).reason = VerifyLink(b, ExpectedAt(b, Page))
                   /\ VerifyLink(b, ExpectedAt(b, Page)) # "none"
      BY <1>7, <2>7
    <3>2. ExpectedAt(b, Page) = l.rowHash
      BY <1>9, <3>1 DEF ExpectedAt
    <3>3. b \in R /\ b.seq > l.seq /\ b.seq \in Nat
      BY <1>5, <2>2, <3>1
    <3>4. ASSUME NEW q \in R, q.seq > l.seq PROVE b.seq <= q.seq
      <4>1. q \in later
        BY <1>1, <1>2, <2>2, <3>4
      <4>2. q.seq < b.seq => q \in S
        BY <1>3, <3>1, <4>1 DEF Before
      <4>3. q \notin S
        BY <1>2, <2>1, <2>2, <3>4
      <4>4. QED
        BY <1>2, <3>3, <4>2, <4>3
    <3>5. NextRow(b, t, l.seq)
      BY <3>3, <3>4 DEF NextRow
    <3>6. QED
      BY <1>4, <1>6, <2>2, <2>4, <2>5, <3>1, <3>2, <3>3, <3>5 DEF PageWalked
  <2>8. QED
    BY <2>6, <2>7
<1>10. QED
  BY <1>8, <1>9
\* A walk begins with nothing behind it and the genesis hash expected (verifier.ts:63-75).
LEMMA StartKeeps ==
  ASSUME WriterInv, OwnerInv, UNCHANGED <<events, heads, written, damage>>,
         NEW queue \in SUBSET Tenant, NEW t \in queue, walk' = StartOf(t, queue)
  PROVE  WalkShape' /\ WalkIsChain'
<1>1. walk' = [pc |-> "page", tenant |-> t, todo |-> queue \ {t},
               expected |-> GenesisHash(t), afterSeq |-> 0, rowsChecked |-> 0, firstBreak |-> NoBreak,
               damaged |-> RowsOf(t) # WrittenOf(t), disturbed |-> FALSE, raced |-> FALSE]
  BY DEF StartOf, WrittenOf
<1>2. /\ walk'.pc = "page" /\ walk'.tenant = t /\ walk'.expected = GenesisHash(t) /\ walk'.afterSeq = 0
      /\ walk'.rowsChecked = 0 /\ walk'.firstBreak = NoBreak /\ walk'.damaged = (RowsOf(t) # WrittenOf(t))
  BY <1>1
<1>3. WalkShape'
  BY <1>1 DEF WalkShape
<1>4. Walked' = {}
  <2>1. \A r \in events : r.seq \in Nat /\ r.seq > 0
    BY EventsAreStored, SeqIsNumber
  <2>2. QED
    BY <1>2, <2>1 DEF Walked, RowsOf
<1>5. ChainTo({}, GenesisHash(t), t)
  BY NoRowsChain
<1>6. RowsOf(walk.tenant)' = RowsOf(t) /\ WrittenOf(walk.tenant)' = WrittenOf(t)
  BY <1>2 DEF RowsOf, WrittenOf
<1>7. WalkIsChain'
  <2>1. /\ ChainTo(Walked', walk'.expected, walk'.tenant)
        /\ walk'.rowsChecked = Cardinality(Walked')
        /\ walk'.damaged = (RowsOf(walk.tenant)' # WrittenOf(walk.tenant)')
    BY <1>2, <1>4, <1>5, <1>6, FS_EmptySet
  <2>2. QED
    BY <1>2, <2>1 DEF WalkIsChain
<1>8. QED
  BY <1>3, <1>7

\* A page more (verifier.ts:77-120).
LEMMA PageKeeps ==
  ASSUME WriterInv, OwnerInv, WalkShape, WalkIsChain, ReadPage
  PROVE  WalkShape' /\ WalkIsChain'
<1> DEFINE S == Passed(Page)
           t == walk.tenant
           next == IF S = {} THEN walk ELSE Advance(Page)
           last == FirstBreak(Page) # NoBreak \/ Cardinality(Page) < BatchSize
<1>1. /\ walk.pc = "page" /\ walk.tenant \in Tenant /\ walk.todo \subseteq Tenant
      /\ walk.afterSeq \in Nat /\ walk.rowsChecked \in Nat
      /\ walk = [pc |-> walk.pc, tenant |-> walk.tenant, todo |-> walk.todo,
                 expected |-> walk.expected, afterSeq |-> walk.afterSeq,
                 rowsChecked |-> walk.rowsChecked, firstBreak |-> walk.firstBreak,
                 damaged |-> walk.damaged, disturbed |-> walk.disturbed, raced |-> walk.raced]
  BY DEF ReadPage, WalkShape, IdleWalk
<1>2. UNCHANGED <<events, heads, written, damage>>
  BY DEF ReadPage, tables
<1>3. walk' = [next EXCEPT !.firstBreak = FirstBreak(Page), !.pc = IF last THEN "head" ELSE "page"]
  BY DEF ReadPage
<1>4. IsFiniteSet(S) /\ \A r \in S : r \in events /\ r.seq \in Nat
  <2>1. IsFiniteSet(Page) /\ Page \subseteq RowsOf(t)
    <3>1. Walking
      BY <1>1 DEF Walking
    <3>2. QED
      BY <3>1, PageIsNext
  <2>2. S \subseteq Page
    BY DEF Passed
  <2>3. QED
    BY <2>1, <2>2, FS_Subset, EventsAreStored, SeqIsNumber DEF RowsOf
<1> DEFINE e == IF S = {} THEN walk.expected ELSE LastOf(S).rowHash
           m == IF S = {} THEN walk.afterSeq ELSE LastOf(S).seq
           c == IF S = {} THEN walk.rowsChecked ELSE walk.rowsChecked + Cardinality(S)
<1>5. m \in Nat /\ c \in Nat
  <2>1. CASE S = {}
    BY <1>1, <2>1
  <2>2. CASE S # {}
    <3>1. LastOf(S) \in S /\ Cardinality(S) \in Nat
      BY <1>4, <2>2, HasLast, FS_CardinalityType
    <3> HIDE DEF S
    <3>2. QED
      BY <1>1, <1>4, <2>2, <3>1
  <2>3. QED
    BY <2>1, <2>2
<1>6. walk' = [pc |-> IF last THEN "head" ELSE "page", tenant |-> walk.tenant, todo |-> walk.todo,
               expected |-> e, afterSeq |-> m, rowsChecked |-> c, firstBreak |-> FirstBreak(Page),
               damaged |-> walk.damaged, disturbed |-> walk.disturbed, raced |-> walk.raced]
  <2>1. Advance(Page) = [walk EXCEPT !.expected = LastOf(S).rowHash, !.afterSeq = LastOf(S).seq,
                                     !.rowsChecked = walk.rowsChecked + Cardinality(S)]
    BY DEF Advance
  <2> DEFINE fb == FirstBreak(Page)
             adv == Advance(Page)
             lo == LastOf(S)
             cs == Cardinality(S)
  <2> HIDE DEF S, last, fb, adv, lo, cs
  <2>2. walk' = [next EXCEPT !.firstBreak = fb, !.pc = IF last THEN "head" ELSE "page"]
    BY <1>3 DEF fb
  <2>3. next = IF S = {} THEN walk ELSE adv
    BY DEF adv
  <2>4. adv = [walk EXCEPT !.expected = lo.rowHash, !.afterSeq = lo.seq, !.rowsChecked = walk.rowsChecked + cs]
    BY <2>1 DEF adv, lo, cs
  <2>5. e = (IF S = {} THEN walk.expected ELSE lo.rowHash) /\ m = (IF S = {} THEN walk.afterSeq ELSE lo.seq)
        /\ c = (IF S = {} THEN walk.rowsChecked ELSE walk.rowsChecked + cs)
    BY DEF lo, cs
  <2> HIDE DEF next, e, m, c
  <2>6. walk' = [pc |-> IF last THEN "head" ELSE "page", tenant |-> walk.tenant, todo |-> walk.todo,
                 expected |-> e, afterSeq |-> m, rowsChecked |-> c, firstBreak |-> fb,
                 damaged |-> walk.damaged, disturbed |-> walk.disturbed, raced |-> walk.raced]
    <3>1. CASE S = {}
      BY <1>1, <2>2, <2>3, <2>5, <3>1
    <3>2. CASE S # {}
      BY <1>1, <2>2, <2>3, <2>4, <2>5, <3>2
    <3>3. QED
      BY <3>1, <3>2
  <2>7. QED
    BY <2>6 DEF fb
<1> HIDE DEF e, m, c, next, last
<1>7. /\ walk'.pc = IF last THEN "head" ELSE "page"
      /\ walk'.tenant = t /\ walk'.todo = walk.todo /\ walk'.expected = e /\ walk'.afterSeq = m
      /\ walk'.rowsChecked = c /\ walk'.firstBreak = FirstBreak(Page)
      /\ walk'.damaged = walk.damaged /\ walk'.disturbed = walk.disturbed /\ walk'.raced = walk.raced
  BY <1>6
<1>8. WalkShape'
  BY <1>1, <1>5, <1>6, <1>7 DEF WalkShape
<1>9. ASSUME ~walk'.disturbed PROVE WalkIsChain'
  <2>1. PageWalked(e, m)
    <3>1. ~walk.disturbed
      BY <1>7, <1>9
    <3>2. CASE S = {}
      BY <1>1, <3>1, <3>2, PageIsWalked DEF e, m
    <3>3. CASE S # {}
      BY <1>1, <3>1, <3>3, PageIsWalked DEF e, m
    <3>4. QED
      BY <3>2, <3>3
  <2>2. RowsOf(walk.tenant)' = RowsOf(t) /\ WrittenOf(walk.tenant)' = WrittenOf(t)
    BY <1>2, <1>7 DEF RowsOf, WrittenOf
  <2>3. Walked' = Walked \cup S
    BY <1>7, <2>1, <2>2 DEF Walked, PageWalked
  <2>4. /\ walk.rowsChecked = Cardinality(Walked) /\ walk.damaged = (RowsOf(t) # WrittenOf(t))
        /\ Cardinality(Walked) \in Nat
    BY <1>1, <1>7, <1>9 DEF WalkIsChain, Walking
  <2>5. walk'.rowsChecked = Cardinality(Walked')
    <3>1. Cardinality(Walked \cup S) = Cardinality(Walked) + Cardinality(S)
      BY <2>1 DEF PageWalked
    <3>2. CASE S = {}
      BY <1>7, <2>3, <2>4, <3>2 DEF c
    <3>3. CASE S # {}
      BY <1>7, <2>3, <2>4, <3>1, <3>3 DEF c
    <3>4. QED
      BY <3>2, <3>3
  <2>6. /\ ChainTo(Walked', walk'.expected, walk'.tenant)
        /\ walk'.afterSeq = 0 \/ \E r \in RowsOf(walk.tenant)' : r.seq = walk'.afterSeq
        /\ walk'.damaged = (RowsOf(walk.tenant)' # WrittenOf(walk.tenant)')
    BY <1>7, <2>1, <2>2, <2>3, <2>4 DEF PageWalked
  <2>7. walk'.pc = "page" => walk'.firstBreak = NoBreak
    BY <1>7 DEF last
  <2>8. ASSUME walk'.pc = "head"
        PROVE  \/ /\ walk'.firstBreak = NoBreak
                  /\ \A q \in RowsOf(t) : ~(q.seq > m)
               \/ \E b \in RowsOf(t) :
                    /\ NextRow(b, t, m)
                    /\ walk'.firstBreak.reason = VerifyLink(b, e)
                    /\ walk'.firstBreak.reason # "none"
    <3>1. last
      BY <1>7, <2>8
    <3>2. CASE Broken(Page) = {}
      <4>1. FirstBreak(Page) = NoBreak
        BY <3>2 DEF FirstBreak
      <4>2. \A b : VerifyLink(b, e) # "none" => NoBreak.reason # VerifyLink(b, e)
        BY DEF NoBreak
      <4>3. \A q \in RowsOf(t) : ~(q.seq > m)
        BY <2>1, <3>1, <4>1, <4>2 DEF PageWalked, last
      <4>4. QED
        BY <1>7, <4>1, <4>3
    <3>3. CASE Broken(Page) # {}
      BY <1>7, <2>1, <3>3 DEF PageWalked
    <3>4. QED
      BY <3>2, <3>3
  <2>9. walk'.pc = "head" =>
           \/ /\ walk'.firstBreak = NoBreak
              /\ \A q \in RowsOf(walk.tenant)' : ~(q.seq > walk'.afterSeq)
           \/ \E b \in RowsOf(walk.tenant)' :
                /\ b.seq > walk'.afterSeq
                /\ \A q \in RowsOf(walk.tenant)' : q.seq > walk'.afterSeq => b.seq <= q.seq
                /\ walk'.firstBreak.reason = VerifyLink(b, walk'.expected)
                /\ walk'.firstBreak.reason # "none"
    BY <1>7, <2>2, <2>8 DEF NextRow
  <2>10. QED
    BY <2>5, <2>6, <2>7, <2>9 DEF WalkIsChain, NextRow
<1>10. WalkIsChain'
  BY <1>9 DEF WalkIsChain
<1>11. QED
  BY <1>8, <1>10
\* A commit adds nothing to what the walk has behind it, and nothing before its next row.
LEMMA CommitKeepsWalk ==
  ASSUME WriterInv, OwnerInv, WalkShape, WalkIsChain, CommitAppend
  PROVE  WalkShape' /\ WalkIsChain'
<1>1. PICK n : /\ NewRow(n) /\ events' \ events = {n}
               /\ walk' = IF walk.pc = "head" /\ n.tenant = walk.tenant THEN [walk EXCEPT !.raced = TRUE] ELSE walk
  BY CommitAdds
<1>2. CASE walk = IdleWalk
  <2>1. walk' = IdleWalk
    BY <1>1, <1>2 DEF IdleWalk
  <2>2. QED
    BY <2>1 DEF WalkShape, WalkIsChain, Walking, IdleWalk
<1>3. CASE walk # IdleWalk
  <2> DEFINE t == walk.tenant
             new == IF n.tenant = t THEN {n} ELSE {}
             late == walk.raced \/ (walk.pc = "head" /\ n.tenant = t)
  <2>1. /\ walk.pc \in {"page", "head"} /\ walk.tenant \in Tenant /\ walk.todo \subseteq Tenant
        /\ walk.afterSeq \in Nat /\ walk.rowsChecked \in Nat
        /\ walk = [pc |-> walk.pc, tenant |-> walk.tenant, todo |-> walk.todo,
                   expected |-> walk.expected, afterSeq |-> walk.afterSeq,
                   rowsChecked |-> walk.rowsChecked, firstBreak |-> walk.firstBreak,
                   damaged |-> walk.damaged, disturbed |-> walk.disturbed, raced |-> walk.raced]
    BY <1>3 DEF WalkShape
  <2>2. /\ walk'.pc = walk.pc /\ walk'.tenant = t /\ walk'.todo = walk.todo /\ walk'.expected = walk.expected
        /\ walk'.afterSeq = walk.afterSeq /\ walk'.rowsChecked = walk.rowsChecked
        /\ walk'.firstBreak = walk.firstBreak /\ walk'.damaged = walk.damaged
        /\ walk'.disturbed = walk.disturbed
        /\ walk'.raced = IF walk.pc = "head" /\ n.tenant = t THEN TRUE ELSE walk.raced
        /\ walk' = [pc |-> walk'.pc, tenant |-> walk'.tenant, todo |-> walk'.todo,
                    expected |-> walk'.expected, afterSeq |-> walk'.afterSeq,
                    rowsChecked |-> walk'.rowsChecked, firstBreak |-> walk'.firstBreak,
                    damaged |-> walk'.damaged, disturbed |-> walk'.disturbed, raced |-> walk'.raced]
    BY <1>1, <2>1
  <2>3. WalkShape'
    BY <2>1, <2>2 DEF WalkShape
  <2>4. ASSUME ~walk'.disturbed PROVE WalkIsChain'
    <3>1. /\ ChainTo(Walked, walk.expected, t)
          /\ walk.rowsChecked = Cardinality(Walked)
          /\ walk.afterSeq = 0 \/ \E r \in RowsOf(t) : r.seq = walk.afterSeq
          /\ walk.damaged = (RowsOf(t) # WrittenOf(t))
          /\ walk.pc = "page" => walk.firstBreak = NoBreak
      BY <2>1, <2>2, <2>4 DEF WalkIsChain, Walking
    <3>2. walk.pc = "head" =>
            \/ /\ walk.firstBreak = NoBreak
               /\ \A q \in RowsOf(t) : q.seq > walk.afterSeq => q \in written /\ walk.raced
            \/ \E b \in RowsOf(t) :
                 /\ NextRow(b, t, walk.afterSeq)
                 /\ walk.firstBreak.reason = VerifyLink(b, walk.expected)
                 /\ walk.firstBreak.reason # "none"
      BY <2>1, <2>2, <2>4 DEF WalkIsChain, Walking
    <3>3. RowsOf(walk.tenant)' = RowsOf(t) \cup new /\ WrittenOf(walk.tenant)' = WrittenOf(t) \cup new
      BY <1>1, <2>2 DEF RowsOf, WrittenOf, NewRow
    <3>4. \A q \in new : /\ q = n /\ n.tenant = t /\ n \notin RowsOf(t) /\ n \notin WrittenOf(t) /\ n \in written'
                         /\ n.seq \in Nat /\ n.seq > walk.afterSeq
                         /\ \A r \in RowsOf(t) : r.seq < n.seq
      <4>1. n \in StoredRow
        BY <1>1, RowsAreStored DEF NewRow
      <4>2. n.seq \in Nat /\ n.seq > 0
        BY <4>1, SeqIsNumber
      <4>3. ASSUME n.tenant = t PROVE \A r \in RowsOf(t) : r.seq < n.seq
        BY <1>1, <4>3 DEF NewRow, RowsOf
      <4>4. n.tenant = t => n.seq > walk.afterSeq
        BY <2>1, <3>1, <4>2, <4>3
      <4>5. n \notin RowsOf(t) /\ n \notin WrittenOf(t) /\ n \in written'
        BY <1>1 DEF NewRow, RowsOf, WrittenOf
      <4>6. QED
        BY <4>2, <4>3, <4>4, <4>5
    <3>5. Walked' = Walked
      <4>1. Walked' = {r \in RowsOf(t) \cup new : r.seq <= walk.afterSeq}
        BY <2>2, <3>3 DEF Walked
      <4>2. \A q \in new : ~(q.seq <= walk.afterSeq)
        BY <2>1, <3>4
      <4>3. QED
        BY <4>1, <4>2 DEF Walked
    <3>6. walk'.damaged = (RowsOf(walk.tenant)' # WrittenOf(walk.tenant)')
      <4>1. (RowsOf(t) \cup new = WrittenOf(t) \cup new) <=> (RowsOf(t) = WrittenOf(t))
        BY <3>4
      <4>2. QED
        BY <2>2, <3>1, <3>3, <4>1
    <3>7. ASSUME walk'.pc = "head"
          PROVE  \/ /\ walk'.firstBreak = NoBreak
                    /\ \A q \in RowsOf(walk.tenant)' : q.seq > walk'.afterSeq => q \in written' /\ walk'.raced
                 \/ \E b \in RowsOf(walk.tenant)' :
                      /\ b.seq > walk'.afterSeq
                      /\ \A q \in RowsOf(walk.tenant)' : q.seq > walk'.afterSeq => b.seq <= q.seq
                      /\ walk'.firstBreak.reason = VerifyLink(b, walk'.expected)
                      /\ walk'.firstBreak.reason # "none"
      <4>1. walk.pc = "head"
        BY <2>2, <3>7
      <4>2. CASE /\ walk.firstBreak = NoBreak
                 /\ \A q \in RowsOf(t) : q.seq > walk.afterSeq => q \in written /\ walk.raced
        <5>1. ASSUME NEW q \in RowsOf(t) \cup new, q.seq > walk.afterSeq PROVE q \in written' /\ walk'.raced
          <6>1. CASE q \in new
            BY <2>2, <3>4, <4>1, <6>1
          <6>2. CASE q \in RowsOf(t)
            <7>1. q \in written /\ walk.raced
              BY <4>2, <5>1, <6>2
            <7>2. QED
              BY <1>1, <2>2, <7>1 DEF NewRow
          <6>3. QED
            BY <6>1, <6>2
        <5>2. QED
          BY <2>2, <3>3, <4>2, <5>1
      <4>3. ASSUME NEW b \in RowsOf(t), NextRow(b, t, walk.afterSeq),
                   walk.firstBreak.reason = VerifyLink(b, walk.expected), walk.firstBreak.reason # "none"
            PROVE  \E c \in RowsOf(walk.tenant)' :
                      /\ c.seq > walk'.afterSeq
                      /\ \A q \in RowsOf(walk.tenant)' : q.seq > walk'.afterSeq => c.seq <= q.seq
                      /\ walk'.firstBreak.reason = VerifyLink(c, walk'.expected)
                      /\ walk'.firstBreak.reason # "none"
        <5>1. b \in RowsOf(walk.tenant)' /\ b.seq > walk'.afterSeq /\ b.seq \in Nat
          BY <2>2, <3>3, <4>3, EventsAreStored, SeqIsNumber DEF NextRow, RowsOf
        <5>2. ASSUME NEW q \in RowsOf(t) \cup new, q.seq > walk.afterSeq PROVE b.seq <= q.seq
          BY <3>4, <4>3, <5>1, <5>2 DEF NextRow
        <5>3. QED
          BY <2>2, <3>3, <4>3, <5>1, <5>2
      <4>4. QED
        BY <3>2, <4>1, <4>2, <4>3
    <3>8. /\ ChainTo(Walked', walk'.expected, walk'.tenant)
          /\ walk'.rowsChecked = Cardinality(Walked')
          /\ walk'.afterSeq = 0 \/ \E r \in RowsOf(walk.tenant)' : r.seq = walk'.afterSeq
          /\ walk'.pc = "page" => walk'.firstBreak = NoBreak
      BY <2>2, <3>1, <3>3, <3>5
    <3>9. QED
      BY <3>6, <3>7, <3>8 DEF WalkIsChain, NextRow
  <2>5. WalkIsChain'
    BY <2>4 DEF WalkIsChain
  <2>6. QED
    BY <2>3, <2>5
<1>4. QED
  BY <1>2, <1>3
-------------------------------------------------------------------------------
(* The verdict *)

\* Where the walk ends on a table the owner has left alone since it began: the rows of its
\* tenant as they are, as they were written, and as the walk has checked them.
EndsAt(t, R, W, P, e, h) ==
  /\ t \in Tenant /\ walk.afterSeq \in Nat /\ P = {p \in RowsOf(t) : p.seq <= walk.afterSeq}
  /\ ChainTo(P, e, t) /\ ChainTo(W, h, t) /\ (heads[t].exists <=> Len(h) > 1)
  /\ walk.rowsChecked = Cardinality(P)
  /\ walk.damaged = (R # W)
  /\ \A r \in R \cup W : r.seq \in Nat /\ r.tenant = t
  /\ \A r, q \in R : r.seq = q.seq => r = q
  /\ \A r \in R : r \in written => r \in W
  /\ \/ /\ walk.firstBreak = NoBreak
        /\ \A q \in R : q.seq > walk.afterSeq => q \in written /\ walk.raced
     \/ \E b \in R :
          /\ NextRow(b, t, walk.afterSeq)
          /\ walk.firstBreak.reason = VerifyLink(b, e) /\ VerifyLink(b, e) # "none"

\* What the SELECT of the head finds (verifier.ts:122-131).
LEMMA AtTheEnd ==
  ASSUME WalkInv, walk.pc = "head", ~walk.disturbed
  PROVE  EndsAt(walk.tenant, RowsOf(walk.tenant), WrittenOf(walk.tenant), Walked, walk.expected,
                heads[walk.tenant].prevHash)
<1> DEFINE t == walk.tenant
           R == RowsOf(t)
           W == WrittenOf(t)
           P == Walked
           e == walk.expected
           h == heads[t].prevHash
<1>1. WriterInv /\ OwnerInv /\ WalkShape /\ WalkIsChain /\ Walking
  BY DEF WalkInv, Walking
<1>2. walk.tenant \in Tenant /\ walk.afterSeq \in Nat
  BY <1>1 DEF WalkShape, IdleWalk
<1>3. \A r \in R \cup W : r.seq \in Nat /\ r.tenant = t
  <2>1. \A r \in R \cup W : r.tenant = t /\ r \in StoredRow
    BY <1>1, EventsAreStored, RowsAreStored DEF RowsOf, WrittenOf, WriterInv
  <2>2. QED
    BY <2>1, SeqIsNumber
<1>4. \A r, q \in R : r.seq = q.seq => r = q
  BY <1>1, EventsAreStored DEF RowsOf
<1>5. ChainTo(W, h, t) /\ (heads[t].exists <=> Len(h) > 1)
  BY <1>1, <1>2 DEF WriterInv
<1>6. /\ ChainTo(P, e, t) /\ walk.rowsChecked = Cardinality(P) /\ walk.damaged = (R # W)
      /\ \/ /\ walk.firstBreak = NoBreak
            /\ \A q \in R : q.seq > walk.afterSeq => q \in written /\ walk.raced
         \/ \E b \in R :
              /\ NextRow(b, t, walk.afterSeq)
              /\ walk.firstBreak.reason = VerifyLink(b, e) /\ VerifyLink(b, e) # "none"
  BY <1>1 DEF WalkIsChain
<1>7. P = {p \in RowsOf(t) : p.seq <= walk.afterSeq} /\ \A r \in R : r \in written => r \in W
  BY DEF Walked, RowsOf, WrittenOf
<1> HIDE DEF t, R, W, P, e, h
<1>8. EndsAt(t, R, W, P, e, h)
  BY <1>2, <1>3, <1>4, <1>5, <1>6, <1>7 DEF EndsAt, t
<1>9. QED
  BY <1>8 DEF t, R, W, P, e, h

\* Behind a part of the written chain, the next written row verifies.
LEMMA NextVerifies ==
  ASSUME NEW W, NEW P, NEW h, NEW e, NEW t, ChainTo(W, h, t), ChainTo(P, e, t),
         NEW w \in W, P = {r \in W : r.seq < w.seq}
  PROVE  w.prevHash = e /\ VerifyLink(w, e) = "none"
<1>1. ChainTo(P, w.prevHash, t)
  BY ChainCut
<1>2. w.prevHash = e
  BY <1>1, OneHead
<1>3. Genuine(w)
  BY DEF ChainTo
<1>4. QED
  BY <1>2, <1>3 DEF VerifyLink, Genuine

\* What the walk has checked is as committed, but for a row rewritten with its hash, the
\* last it checks.
LEMMA CheckedAreCommitted ==
  ASSUME WalkInv, walk.pc = "head", ~walk.disturbed
  PROVE  /\ Cardinality(Walked) = walk.rowsChecked
         /\ \A r \in Walked : r \in written \/ (damage = "rewrite" /\ r = LastOf(Walked))
<1> DEFINE t == walk.tenant
           P == Walked
           e == walk.expected
<1>1. /\ t \in Tenant /\ walk.afterSeq \in Nat /\ P = {p \in RowsOf(t) : p.seq <= walk.afterSeq}
      /\ ChainTo(P, e, t) /\ walk.rowsChecked = Cardinality(P)
      /\ \A r \in RowsOf(t) : r.seq \in Nat
      /\ \A r, q \in RowsOf(t) : r.seq = q.seq => r = q
  BY AtTheEnd DEF EndsAt
<1>2. WriterInv /\ OwnerInv
  BY DEF WalkInv
<1>3. ASSUME NEW r \in P, r \notin written PROVE damage = "rewrite" /\ r = LastOf(P)
  <2>1. damage = "rewrite" /\ \A p \in P : p.seq <= r.seq
    <3> HIDE DEF P, t, e
    <3>1. QED
      BY <1>1, <1>2, <1>3, StraysPassLast
  <2>2. LastOf(P) \in P /\ \A p \in P : p.seq <= LastOf(P).seq
    BY <2>1 DEF LastOf
  <2>3. QED
    BY <1>1, <2>1, <2>2
<1>4. QED
  BY <1>1, <1>3

\* On what the writers committed, and with no row behind its last page, the walk ends without
\* a break at the recorded head.
LEMMA IntactEndsAtHead ==
  ASSUME WalkInv, walk.pc = "head", ~walk.disturbed, ~walk.damaged, ~walk.raced
  PROVE  walk.firstBreak = NoBreak /\ ~Truncated(heads[walk.tenant])
<1> DEFINE t == walk.tenant
           W == WrittenOf(t)
           P == Walked
           e == walk.expected
           h == heads[t].prevHash
<1>1. /\ P = {p \in W : p.seq <= walk.afterSeq} /\ RowsOf(t) = W /\ walk.afterSeq \in Nat
      /\ ChainTo(P, e, t) /\ ChainTo(W, h, t)
      /\ \A r \in W : r.seq \in Nat
      /\ \/ /\ walk.firstBreak = NoBreak
            /\ \A q \in W : ~(q.seq > walk.afterSeq)
         \/ \E b \in W :
              /\ NextRow(b, t, walk.afterSeq)
              /\ walk.firstBreak.reason = VerifyLink(b, e) /\ VerifyLink(b, e) # "none"
  <2> DEFINE R == RowsOf(t)
  <2>1. EndsAt(t, R, W, P, e, h)
    BY AtTheEnd
  <2>2. R = W
    <3> HIDE DEF P, R, W, e, h, t
    <3>1. QED
      BY <2>1 DEF EndsAt, t
  <2>3. R = RowsOf(t)
    OBVIOUS
  <2> HIDE DEF P, R, W, e, h
  <2>4. QED
    BY <2>1, <2>2, <2>3 DEF EndsAt
<1>2. ASSUME NEW b \in W, NextRow(b, t, walk.afterSeq), VerifyLink(b, e) # "none"
      PROVE  FALSE
  <2>1. P = {r \in W : r.seq < b.seq}
    BY <1>1, <1>2 DEF NextRow
  <2> HIDE DEF P, W, e, h, t
  <2>2. QED
    BY <1>1, <1>2, <2>1, NextVerifies
<1>3. walk.firstBreak = NoBreak /\ \A q \in W : ~(q.seq > walk.afterSeq)
  BY <1>1, <1>2
<1>4. P = W
  BY <1>1, <1>3
<1>5. e = h
  <2> HIDE DEF P, W, e, h, t
  <2>1. QED
    BY <1>1, <1>4, OneHead
<1>6. QED
  BY <1>3, <1>5 DEF Truncated

\* On anything else it ends at a break or short of the head, and an alteration in place is
\* found at its row.
LEMMA DamageShows ==
  ASSUME WalkInv, walk.pc = "head", ~walk.disturbed, walk.damaged
  PROVE  \/ /\ walk.firstBreak = NoBreak /\ Truncated(heads[walk.tenant]) /\ damage # "alter"
         \/ /\ walk.firstBreak # NoBreak
            /\ walk.firstBreak.reason = IF damage = "alter" THEN "row_hash_mismatch" ELSE "prev_hash_mismatch"
<1> DEFINE t == walk.tenant
           R == RowsOf(t)
           W == WrittenOf(t)
           P == Walked
           e == walk.expected
           h == heads[t].prevHash
<1>0. EndsAt(t, R, W, P, e, h)
  BY AtTheEnd
<1>1. /\ t \in Tenant /\ walk.afterSeq \in Nat /\ P = {p \in RowsOf(t) : p.seq <= walk.afterSeq}
      /\ ChainTo(P, e, t) /\ ChainTo(W, h, t) /\ (heads[t].exists <=> Len(h) > 1)
      /\ R # W
      /\ \A r \in R \cup W : r.seq \in Nat /\ r.tenant = t
      /\ \A r, q \in R : r.seq = q.seq => r = q
      /\ \A r \in R : r \in written => r \in W
  <2> HIDE DEF P, R, W, e, h, t
  <2>1. QED
    BY <1>0 DEF EndsAt
<1>2. \/ /\ walk.firstBreak = NoBreak
         /\ \A q \in R : q.seq > walk.afterSeq => q \in written
      \/ \E b \in R :
           /\ NextRow(b, t, walk.afterSeq)
           /\ walk.firstBreak.reason = VerifyLink(b, e) /\ VerifyLink(b, e) # "none"
  <2> HIDE DEF P, R, W, e, h, t
  <2>1. QED
    BY <1>0 DEF EndsAt
<1>3. WriterInv /\ OwnerInv
  BY DEF WalkInv
<1>4. ASSUME NEW x \in P, x \notin written PROVE damage = "rewrite" /\ e # h
  <2> HIDE DEF P, t, e
  <2>1. QED
    BY <1>1, <1>3, <1>4, StraysPassLast
<1>5. ASSUME NEW x \in R, x \notin written
      PROVE  /\ damage \in {"alter", "rewrite", "reorder", "move"}
             /\ damage = "alter" => /\ ~Genuine(x)
                                    /\ \E r \in W : /\ r.seq = x.seq /\ r.prevHash = x.prevHash
                                                    /\ events = (written \ {r}) \cup {x}
             /\ damage \in {"rewrite", "reorder"} => Genuine(x) /\ W # {}
             /\ damage = "move" => x.prevHash[1] # t
  <2>1. x \in events /\ x.tenant = t
    BY DEF RowsOf
  <2>2. QED
    BY <1>3, <1>5, <2>1, StrayFacts DEF WrittenOf
<1>6. ASSUME damage = "alter"
      PROVE  \E x \in R, r \in W : /\ x \notin written /\ ~Genuine(x) /\ x.seq = r.seq /\ x.prevHash = r.prevHash
                                   /\ R = (W \ {r}) \cup {x}
  <2>1. PICK r \in written : events = (written \ {r}) \cup {Altered(r)}
    BY <1>3, <1>6 DEF OwnerInv
  <2> DEFINE x == Altered(r)
  <2>2. x.tenant = r.tenant /\ x.body = OtherBody
    BY <1>3, <2>1 DEF Altered, Row, WriterInv
  <2>3. \A w \in written : w.body \in Body
    BY <1>3 DEF Row, WriterInv
  <2>4. x \notin written
    BY <2>2, <2>3, OtherBodyAssumption
  <2> HIDE DEF x
  <2>5. r.tenant = t
    <3>1. SUFFICES ASSUME r.tenant # t PROVE R = W
      BY <1>1
    <3>2. QED
      BY <2>1, <2>2, <3>1 DEF RowsOf, WrittenOf, x
  <2>6. x \in R /\ r \in W /\ R = (W \ {r}) \cup {x}
    BY <2>1, <2>2, <2>5 DEF RowsOf, WrittenOf, x
  <2>7. PICK v \in W : v.seq = x.seq /\ v.prevHash = x.prevHash /\ events = (written \ {v}) \cup {x}
    BY <1>5, <1>6, <2>4, <2>6
  <2>8. R = (W \ {v}) \cup {x}
    BY <2>2, <2>5, <2>7 DEF RowsOf, WrittenOf
  <2>9. ~Genuine(x)
    BY <1>5, <1>6, <2>4, <2>6
  <2>10. QED
    BY <2>4, <2>6, <2>7, <2>8, <2>9
<1>7. ASSUME walk.firstBreak = NoBreak, \A q \in R : q.seq > walk.afterSeq => q \in written
      PROVE  Truncated(heads[t]) /\ damage # "alter"
  <2>1. \A x \in R : x \notin written => x \in P
    BY <1>1, <1>7
  <2>2. damage # "alter"
    BY <1>4, <1>6, <2>1
  <2>3. e # h
    <3>1. SUFFICES ASSUME e = h PROVE FALSE
      OBVIOUS
    <3>2. R \subseteq W /\ P \subseteq W
      BY <1>1, <1>4, <2>1, <3>1
    <3>3. P = W
      <4> HIDE DEF P, W, e, h, t
      <4>1. QED
        BY <1>1, <3>1, <3>2, WholeChain
    <3>4. QED
      BY <1>1, <3>2, <3>3
  <2>4. heads[t].exists
    <3>1. SUFFICES ASSUME W = {} PROVE FALSE
      <4>1. ASSUME NEW w \in W PROVE Len(h) > 1
        <5>1. w \in StoredRow /\ Genuine(w) /\ Len(w.prevHash) >= 1 /\ Len(w.rowHash) <= Len(h)
          BY <1>1 DEF ChainTo, Agrees
        <5>2. Len(w.prevHash) \in Nat /\ Len(w.rowHash) = Len(w.prevHash) + 1
          BY <5>1, GenuineHash
        <5>3. Len(h) \in Nat
          BY <1>1, LenProperties DEF ChainTo, Digest
        <5>4. QED
          BY <5>1, <5>2, <5>3
      <4>2. QED
        BY <1>1, <4>1
    <3>2. PICK x \in R : x \notin written
      BY <1>1, <3>1
    <3>3. damage = "rewrite"
      BY <1>4, <2>1, <3>2
    <3>4. QED
      BY <1>5, <3>1, <3>2, <3>3
  <2>5. QED
    BY <1>7, <2>2, <2>3, <2>4 DEF Truncated
<1>8. ASSUME NEW b \in R, NextRow(b, t, walk.afterSeq),
             walk.firstBreak.reason = VerifyLink(b, e), VerifyLink(b, e) # "none"
      PROVE  /\ walk.firstBreak # NoBreak
             /\ walk.firstBreak.reason = IF damage = "alter" THEN "row_hash_mismatch" ELSE "prev_hash_mismatch"
  <2>1. walk.firstBreak # NoBreak
    BY <1>8 DEF NoBreak
  <2>2. \A r \in R : r \in P <=> r.seq < b.seq
    BY <1>1, <1>8 DEF NextRow
  <2>3. CASE damage = "alter"
    <3>1. PICK x \in R, r \in W : /\ x \notin written /\ ~Genuine(x) /\ x.seq = r.seq /\ x.prevHash = r.prevHash
                                  /\ R = (W \ {r}) \cup {x}
      BY <1>6, <2>3
    <3>2. P \subseteq written /\ x \notin P /\ P \subseteq W
      <4>1. P \subseteq written /\ P \subseteq R
        BY <1>1, <1>4, <2>3
      <4>2. QED
        BY <1>1, <3>1, <4>1
    <3>3. b.seq <= x.seq
      BY <1>1, <2>2, <3>1, <3>2
    <3>4. P = {w \in W : w.seq < b.seq}
      <4>1. ASSUME NEW w \in W, w.seq < b.seq PROVE w \in P
        <5>1. w # r
          BY <1>1, <3>1, <3>3, <4>1
        <5>2. QED
          BY <2>2, <3>1, <4>1, <5>1
      <4>2. ASSUME NEW w \in P PROVE w \in W /\ w.seq < b.seq
        BY <1>1, <2>2, <3>2
      <4>3. QED
        BY <4>1, <4>2
    <3>5. b = x
      <4>1. SUFFICES ASSUME b \in W PROVE FALSE
        BY <3>1
      <4>2. VerifyLink(b, e) = "none"
        <5> HIDE DEF P, W, e, h, t
        <5>1. QED
          BY <1>1, <3>4, <4>1, NextVerifies
      <4>3. QED
        BY <1>8, <4>2
    <3>6. r.prevHash = e
      <4>1. P = {w \in W : w.seq < r.seq}
        BY <3>1, <3>4, <3>5
      <4> HIDE DEF P, W, e, h, t
      <4>2. QED
        BY <1>1, <4>1, NextVerifies
    <3>7. VerifyLink(b, e) = "row_hash_mismatch"
      BY <3>1, <3>5, <3>6 DEF VerifyLink, Genuine
    <3>8. QED
      BY <1>8, <2>1, <2>3, <3>7
  <2>4. CASE damage # "alter"
    <3>1. b.prevHash # e
      <4>1. SUFFICES ASSUME b.prevHash = e PROVE FALSE
        OBVIOUS
      <4>2. ~Genuine(b)
        BY <1>8, <4>1 DEF VerifyLink, Genuine
      <4>3. b \notin written
        <5>1. \A w \in W : Genuine(w)
          BY <1>1 DEF ChainTo
        <5>2. QED
          BY <1>1, <4>2, <5>1
      <4>4. damage = "move" /\ b.prevHash[1] # t
        BY <1>5, <2>4, <4>2, <4>3
      <4>5. e[1] = t
        BY <1>1 DEF ChainTo
      <4>6. QED
        BY <4>1, <4>4, <4>5
    <3>2. VerifyLink(b, e) = "prev_hash_mismatch"
      BY <3>1 DEF VerifyLink
    <3>3. QED
      BY <1>8, <2>1, <2>4, <3>2
  <2>5. QED
    BY <2>3, <2>4
<1>9. QED
  BY <1>2, <1>7, <1>8
-------------------------------------------------------------------------------
(* The reading of the list *)

\* Of the first k rows of the list, those that are in first are in S.
Told(list, first, k, S) ==
  \A i \in 1..Len(list) : i <= k /\ list[i] \in first => list[i] \in S

\* What the pages so far have shown: the rows before this page; with its rows read, those
\* of it; with the total too, if none entered between the two, and this page is the last: all.
PageTells(list, page, rows, total, read, first, seen, torn) ==
  /\ Told(list, first, Offset(page), seen)
  /\ "rows" \in read => Told(list, first, Offset(page) + PageSize, seen \cup Range(rows))
  /\ read = {"total"} /\ ~torn => Len(list) <= total
  /\ read = {"rows", "total"} /\ ~torn /\ page >= LastPage(total) =>
       Told(list, first, Len(list), seen \cup Range(rows))

\* E: the rows of the table.
PageOK(pc, list, page, rows, total, read, first, seen, torn, E) ==
  /\ pc \in {"asked", "shown"} /\ page \in Nat /\ total \in Nat
  /\ list \in Seq(E) /\ rows \in Seq(E) /\ first \subseteq E
  /\ read \in {{}, {"rows"}, {"total"}, {"rows", "total"}}
  /\ pc = "shown" => read = {"rows", "total"} /\ Range(rows) \subseteq seen
  /\ PageTells(list, page, rows, total, read, first, seen, torn)

ReadingInv ==
  \/ reading = Closed
  \/ /\ reading = [pc |-> reading.pc, tenant |-> reading.tenant, list |-> reading.list,
                   page |-> reading.page, rows |-> reading.rows, total |-> reading.total,
                   read |-> reading.read, first |-> reading.first, seen |-> reading.seen,
                   torn |-> reading.torn]
     /\ PageOK(reading.pc, reading.list, reading.page, reading.rows, reading.total, reading.read,
               reading.first, reading.seen, reading.torn, events)

\* A row that enters the list moves those behind it one place on; the oldest leaves the
\* others where they are.
LEMMA RowEnters ==
  ASSUME NEW S, NEW s \in Seq(S), NEW i \in 1..(Len(s) + 1), NEW e \in S
  PROVE  /\ InsertAt(s, i, e) \in Seq(S) /\ Len(InsertAt(s, i, e)) = Len(s) + 1
         /\ \A j \in 1..(Len(s) + 1) :
              InsertAt(s, i, e)[j] = IF j < i THEN s[j] ELSE IF j = i THEN e ELSE s[j - 1]
<1> DEFINE a == SubSeq(s, 1, i - 1)
           b == SubSeq(s, i, Len(s))
           u == <<e>>
           ae == a \o u
<1>1. Len(s) \in Nat /\ i \in Nat /\ i >= 1 /\ i <= Len(s) + 1
  BY LenProperties
<1>2. a \in Seq(S) /\ Len(a) = i - 1 /\ \A j \in 1..(i - 1) : a[j] = s[j]
  <2>1. \A j \in 1..(i - 1) : s[j] \in S
    BY <1>1, ElementOfSeq
  <2>2. Len(a) = i - 1 /\ \A j \in 1..(i - 1) : a[j] = s[1 + j - 1]
    BY <1>1, <2>1, SubSeqProperties
  <2>3. a \in Seq(S)
    BY <1>1, SubSeqProperties
  <2>4. QED
    BY <1>1, <2>2, <2>3
<1>3. b \in Seq(S) /\ Len(b) = Len(s) + 1 - i /\ \A j \in 1..(Len(s) + 1 - i) : b[j] = s[i + j - 1]
  <2>1. Len(b) = (IF i <= Len(s) THEN Len(s) - i + 1 ELSE 0) /\ \A j \in 1..(Len(s) - i + 1) : b[j] = s[i + j - 1]
    BY <1>1, SubSeqProperties
  <2>2. b \in Seq(S)
    BY <1>1, SubSeqProperties
  <2>3. QED
    BY <1>1, <2>1, <2>2
<1>4. u \in Seq(S) /\ Len(u) = 1 /\ u[1] = e
  OBVIOUS
<1> HIDE DEF a, b, u
<1>5. ae \in Seq(S) /\ Len(ae) = i /\ (\A j \in 1..(i - 1) : ae[j] = s[j]) /\ ae[i] = e
  <2>0. a \in Seq(S) /\ u \in Seq(S) /\ Len(u) = 1
    BY <1>2, <1>4
  <2>1. ae \in Seq(S) /\ Len(ae) = Len(a) + Len(u)
    BY ONLY <2>0, ConcatProperties
  <2>2. \A j \in 1..(Len(a) + 1) : ae[j] = IF j <= Len(a) THEN a[j] ELSE u[j - Len(a)]
    BY <1>2, <1>4, ConcatProperties
  <2> HIDE DEF ae
  <2>3. \A j \in 1..(i - 1) : ae[j] = s[j]
    BY <1>1, <1>2, <2>2
  <2>4. ae[i] = e
    <3>1. i \in 1..(Len(a) + 1) /\ ~(i <= Len(a)) /\ i - Len(a) = 1
      BY <1>1, <1>2
    <3>2. QED
      BY <1>4, <2>2, <3>1
  <2>5. QED
    BY <1>1, <1>2, <2>0, <2>1, <2>3, <2>4
<1> HIDE DEF ae
<1> DEFINE r == ae \o b
<1>6. r \in Seq(S) /\ Len(r) = Len(ae) + Len(b)
  BY <1>3, <1>5, ConcatProperties
<1>7. \A j \in 1..(Len(ae) + Len(b)) : r[j] = IF j <= Len(ae) THEN ae[j] ELSE b[j - Len(ae)]
  BY <1>3, <1>5, ConcatProperties
<1>8. InsertAt(s, i, e) = r
  BY DEF InsertAt, r, ae, a, b, u
<1> HIDE DEF r
<1>9. Len(r) = Len(s) + 1
  BY <1>1, <1>3, <1>5, <1>6
<1>10. ASSUME NEW j \in 1..(Len(s) + 1)
       PROVE  r[j] = IF j < i THEN s[j] ELSE IF j = i THEN e ELSE s[j - 1]
  <2>1. r[j] = IF j <= i THEN ae[j] ELSE b[j - i]
    BY <1>1, <1>3, <1>5, <1>7
  <2>2. CASE j < i
    BY <1>1, <1>5, <2>1, <2>2
  <2>3. CASE j = i
    BY <1>1, <1>5, <2>1, <2>3
  <2>4. CASE j > i
    <3>1. j - i \in 1..(Len(s) + 1 - i) /\ i + (j - i) - 1 = j - 1
      BY <1>1, <2>4
    <3>2. b[j - i] = s[j - 1]
      BY <1>3, <3>1
    <3>3. QED
      BY <1>1, <2>1, <2>4, <3>2
  <2>5. QED
    BY <1>1, <2>2, <2>3, <2>4
<1>11. QED
  BY <1>6, <1>8, <1>9, <1>10

\* A list without its last row.
LEMMA OldestLeaves ==
  ASSUME NEW S, NEW s \in Seq(S), s # <<>>
  PROVE  /\ Front(s) \in Seq(S) /\ Len(Front(s)) = Len(s) - 1
         /\ \A j \in 1..(Len(s) - 1) : Front(s)[j] = s[j]
<1>1. Len(s) \in Nat /\ Len(s) >= 1
  BY LenProperties, EmptySeq
<1>2. Front(s) \in Seq(S)
  BY <1>1, SubSeqProperties DEF Front
<1> DEFINE n == Len(s) - 1
<1>3. n \in Int /\ \A j \in 1..n : s[j] \in S
  BY <1>1, ElementOfSeq
<1>4. /\ Len(SubSeq(s, 1, n)) = IF 1 <= n THEN n - 1 + 1 ELSE 0
      /\ \A j \in 1..(n - 1 + 1) : SubSeq(s, 1, n)[j] = s[1 + j - 1]
  <2> HIDE DEF n
  <2>1. QED
    BY <1>3, SubSeqProperties
<1>5. n >= 0 /\ n - 1 + 1 = n /\ Front(s) = SubSeq(s, 1, n)
  BY <1>1 DEF Front
<1> HIDE DEF n
<1>6. Len(Front(s)) = n /\ \A j \in 1..n : Front(s)[j] = s[j]
  BY <1>3, <1>4, <1>5
<1>7. QED
  BY <1>2, <1>6 DEF n

\* The last page ends where the list does, or behind it (Audit.tsx:94-96).
LEMMA LastPageIsLast ==
  ASSUME NEW n \in Nat, NEW p \in Nat, p >= LastPage(n)
  PROVE  n <= Offset(p) + PageSize
<1>1. PageSize \in Nat /\ PageSize > 0
  BY PageSizeAssumption
<1>2. CASE n = 0
  BY <1>1, <1>2, Z3 DEF Offset
<1>3. CASE n # 0
  <2> DEFINE d == (n - 1) \div PageSize
  <2>1. d \in Nat /\ n - 1 < d * PageSize + PageSize /\ p >= d
    BY <1>1, <1>3, Z3 DEF LastPage
  <2> HIDE DEF d
  <2>2. p * PageSize >= d * PageSize /\ d * PageSize \in Nat /\ p * PageSize \in Nat
    BY <1>1, <2>1, Z3
  <2>3. QED
    BY <1>1, <2>1, <2>2 DEF Offset
<1>4. QED
  BY <1>2, <1>3

\* Who has been told of the first rows has been told of fewer of them.
LEMMA ToldLess ==
  ASSUME NEW E, NEW list \in Seq(E), NEW first, NEW k \in Int, NEW S, Told(list, first, k, S),
         NEW T, S \subseteq T, NEW j \in Int, j <= k \/ Len(list) <= k
  PROVE  Told(list, first, j, T)
<1>1. Len(list) \in Nat
  BY LenProperties
<1>2. ASSUME NEW i \in 1..Len(list), i <= j, list[i] \in first PROVE list[i] \in T
  <2>1. i <= k
    BY <1>1, <1>2
  <2>2. QED
    BY <1>2, <2>1 DEF Told
<1>3. QED
  BY <1>2 DEF Told

\* The oldest row leaves at the end of the list (sinceFor, api.ts:15-24).
LEMMA ToldOldestLeaves ==
  ASSUME NEW E, NEW list \in Seq(E), list # <<>>, NEW first, NEW k \in Int, NEW S, Told(list, first, k, S)
  PROVE  Told(Front(list), first, k, S)
<1>1. Len(list) \in Nat /\ Len(Front(list)) = Len(list) - 1 /\ \A j \in 1..(Len(list) - 1) : Front(list)[j] = list[j]
  BY LenProperties, OldestLeaves
<1>2. QED
  BY <1>1 DEF Told

\* A row that enters pushes others to later places only (ORDER BY ts DESC, reader.ts:93-94).
LEMMA ToldRowEnters ==
  ASSUME NEW E, NEW list \in Seq(E), NEW p \in 1..(Len(list) + 1), NEW e \in E, NEW first, e \notin first,
         NEW k \in Int, NEW S, Told(list, first, k, S)
  PROVE  Told(InsertAt(list, p, e), first, k, S)
<1> DEFINE new == InsertAt(list, p, e)
<1>1. Len(list) \in Nat /\ p \in Nat
  BY LenProperties
<1>2. /\ Len(new) = Len(list) + 1
      /\ \A j \in 1..(Len(list) + 1) : new[j] = IF j < p THEN list[j] ELSE IF j = p THEN e ELSE list[j - 1]
  BY RowEnters
<1> HIDE DEF new
<1>3. ASSUME NEW j \in 1..Len(new), j <= k, new[j] \in first PROVE new[j] \in S
  <2>1. j \in 1..(Len(list) + 1)
    BY <1>2
  <2>2. CASE j < p
    <3>1. j \in 1..Len(list) /\ new[j] = list[j]
      BY <1>1, <1>2, <2>1, <2>2
    <3>2. QED
      BY <1>3, <3>1 DEF Told
  <2>3. CASE j = p
    BY <1>2, <1>3, <2>1, <2>3
  <2>4. CASE j > p
    <3>1. j - 1 \in 1..Len(list) /\ j - 1 <= k /\ new[j] = list[j - 1]
      BY <1>1, <1>2, <1>3, <2>1, <2>4
    <3>2. QED
      BY <1>3, <3>1 DEF Told
  <2>5. QED
    BY <1>1, <2>1, <2>2, <2>3, <2>4
<1>4. QED
  BY <1>3 DEF Told, new

\* The rows of a page are the next PageSize of the list (reader.ts:85-97).
LEMMA ToldOfPage ==
  ASSUME NEW E, NEW list \in Seq(E), NEW first, NEW S, NEW page \in Nat, NEW rows,
         Told(list, first, Offset(page), S),
         rows = SubSeq(list, Offset(page) + 1,
                       IF Offset(page) + PageSize < Len(list) THEN Offset(page) + PageSize ELSE Len(list))
  PROVE  rows \in Seq(E) /\ Told(list, first, Offset(page) + PageSize, S \cup Range(rows))
<1> DEFINE from == Offset(page)
           to == IF from + PageSize < Len(list) THEN from + PageSize ELSE Len(list)
<1>1. Len(list) \in Nat /\ PageSize \in Nat /\ from \in Nat
  <2>1. page * PageSize \in Nat
    BY PageSizeAssumption, Z3
  <2>2. QED
    BY <2>1, LenProperties, PageSizeAssumption DEF Offset
<1> HIDE DEF from
<1>2. to \in Nat /\ to <= Len(list) /\ to <= from + PageSize /\ (to = from + PageSize \/ to = Len(list))
  BY <1>1
<1> HIDE DEF to
<1>3. rows = SubSeq(list, from + 1, to)
  BY DEF from, to
<1>4. from + 1 \in Int /\ to \in Int /\ \A i \in (from + 1)..to : list[i] \in E
  BY <1>1, <1>2, ElementOfSeq
<1>5. /\ SubSeq(list, from + 1, to) \in Seq(E)
      /\ Len(SubSeq(list, from + 1, to)) = IF from + 1 <= to THEN to - (from + 1) + 1 ELSE 0
      /\ \A i \in 1..(to - (from + 1) + 1) : SubSeq(list, from + 1, to)[i] = list[from + 1 + i - 1]
  BY <1>4, SubSeqProperties
<1>6. ASSUME NEW i \in 1..Len(list), i <= from + PageSize, list[i] \in first
      PROVE  list[i] \in S \cup Range(rows)
  <2>1. CASE i <= from
    BY <1>6, <2>1 DEF Told, from
  <2>2. CASE i > from
    <3> DEFINE j == i - from
    <3>1. j \in 1..(to - (from + 1) + 1) /\ from + 1 + j - 1 = i /\ from + 1 <= to
      BY <1>1, <1>2, <1>6, <2>2
    <3>2. rows[j] = list[i] /\ Len(rows) = to - (from + 1) + 1 /\ rows \in Seq(E)
      BY <1>3, <1>5, <3>1
    <3> HIDE DEF j
    <3>3. j \in DOMAIN rows
      BY <3>1, <3>2, LenProperties
    <3>4. QED
      BY <3>2, <3>3 DEF Range
  <2>3. QED
    BY <1>1, <2>1, <2>2
<1>7. rows \in Seq(E)
  BY <1>3, <1>5
<1>8. QED
  BY <1>6, <1>7 DEF Told, from

\* The invariant of a reading, from its fields.
LEMMA PageIsOK ==
  ASSUME NEW pc, NEW tenant, NEW list, NEW page, NEW rows, NEW total, NEW read, NEW first, NEW seen, NEW torn,
         reading' = [pc |-> pc, tenant |-> tenant, list |-> list, page |-> page, rows |-> rows,
                     total |-> total, read |-> read, first |-> first, seen |-> seen, torn |-> torn],
         PageOK(pc, list, page, rows, total, read, first, seen, torn, events')
  PROVE  ReadingInv'
<1>1. /\ reading'.pc = pc /\ reading'.tenant = tenant /\ reading'.list = list /\ reading'.page = page
      /\ reading'.rows = rows /\ reading'.total = total /\ reading'.read = read
      /\ reading'.first = first /\ reading'.seen = seen /\ reading'.torn = torn
  OBVIOUS
<1>2. reading' = [pc |-> reading'.pc, tenant |-> reading'.tenant, list |-> reading'.list,
                  page |-> reading'.page, rows |-> reading'.rows, total |-> reading'.total,
                  read |-> reading'.read, first |-> reading'.first, seen |-> reading'.seen,
                  torn |-> reading'.torn]
  BY <1>1
<1>3. PageOK(reading'.pc, reading'.list, reading'.page, reading'.rows, reading'.total, reading'.read,
             reading'.first, reading'.seen, reading'.torn, events')
  BY <1>1
<1>4. QED
  BY <1>2, <1>3 DEF ReadingInv

\* A page is asked for when the pages before it have been shown (Audit.tsx:79-90, 299-313).
LEMMA AskKeeps ==
  ASSUME ReadingInv, reading # Closed, UNCHANGED events, NEW p \in Nat, reading' = Asked(reading, p),
         Told(reading.list, reading.first, Offset(p), reading.seen)
  PROVE  ReadingInv'
<1>1. reading = [pc |-> reading.pc, tenant |-> reading.tenant, list |-> reading.list,
                 page |-> reading.page, rows |-> reading.rows, total |-> reading.total,
                 read |-> reading.read, first |-> reading.first, seen |-> reading.seen,
                 torn |-> reading.torn]
  BY DEF ReadingInv
<1>2. reading' = [pc |-> "asked", tenant |-> reading.tenant, list |-> reading.list, page |-> p, rows |-> <<>>,
                  total |-> 0, read |-> {}, first |-> reading.first, seen |-> reading.seen, torn |-> FALSE]
  BY <1>1 DEF Asked
<1>3. PageOK("asked", reading.list, p, <<>>, 0, {}, reading.first, reading.seen, FALSE, events')
  <2>1. reading.list \in Seq(events) /\ reading.first \subseteq events /\ <<>> \in Seq(events)
    BY DEF ReadingInv, PageOK
  <2>2. QED
    BY <2>1 DEF PageOK, PageTells
<1>4. QED
  BY <1>2, <1>3, PageIsOK

\* The list as it is when the operator opens the table.
LEMMA OpenKeeps ==
  ASSUME WriterInv, OwnerInv, OpenTable
  PROVE  ReadingInv'
<1>1. PICK t \in Tenant : \E matching \in SUBSET RowsOf(t) \ {{}} : \E list \in SetToSeqs(matching) :
        reading' = Asked([pc |-> "asked", tenant |-> t, list |-> list, page |-> 0,
                          rows |-> <<>>, total |-> 0, read |-> {}, first |-> matching,
                          seen |-> {}, torn |-> FALSE], 0)
  BY DEF OpenTable
<1>2. PICK matching : /\ matching \subseteq RowsOf(t)
                      /\ \E list \in SetToSeqs(matching) :
                           reading' = Asked([pc |-> "asked", tenant |-> t, list |-> list, page |-> 0,
                                             rows |-> <<>>, total |-> 0, read |-> {}, first |-> matching,
                                             seen |-> {}, torn |-> FALSE], 0)
  BY <1>1
<1>3. PICK list \in SetToSeqs(matching) :
        reading' = Asked([pc |-> "asked", tenant |-> t, list |-> list, page |-> 0,
                          rows |-> <<>>, total |-> 0, read |-> {}, first |-> matching,
                          seen |-> {}, torn |-> FALSE], 0)
  BY <1>2
<1>4. matching \subseteq events /\ Cardinality(matching) \in Nat /\ events' = events
  BY <1>2, EventsAreStored, FS_Subset, FS_CardinalityType DEF RowsOf, OpenTable, tables
<1>5. list \in Seq(events)
  <2>1. list \in [1..Cardinality(matching) -> matching]
    BY DEF SetToSeqs
  <2> DEFINE n == Cardinality(matching)
  <2>2. n \in Nat /\ list \in [1..n -> events]
    BY <1>4, <2>1
  <2> HIDE DEF n
  <2>3. QED
    BY <2>2
<1>6. reading' = [pc |-> "asked", tenant |-> t, list |-> list, page |-> 0, rows |-> <<>>,
                  total |-> 0, read |-> {}, first |-> matching, seen |-> {}, torn |-> FALSE]
  BY <1>3 DEF Asked
<1>7. PageOK("asked", list, 0, <<>>, 0, {}, matching, {}, FALSE, events')
  <2>1. Offset(0) = 0
    BY PageSizeAssumption DEF Offset
  <2>2. Told(list, matching, 0, {})
    BY <1>5, LenProperties DEF Told
  <2>3. <<>> \in Seq(events)
    OBVIOUS
  <2>4. PageTells(list, 0, <<>>, 0, {}, matching, {}, FALSE)
    BY <2>1, <2>2 DEF PageTells
  <2>5. QED
    BY <1>4, <1>5, <2>3, <2>4 DEF PageOK
<1>8. QED
  BY <1>6, <1>7, PageIsOK
\* The fields of an open table.
LEMMA OpenPage ==
  ASSUME ReadingInv, reading # Closed
  PROVE  /\ reading = [pc |-> reading.pc, tenant |-> reading.tenant, list |-> reading.list,
                       page |-> reading.page, rows |-> reading.rows, total |-> reading.total,
                       read |-> reading.read, first |-> reading.first, seen |-> reading.seen,
                       torn |-> reading.torn]
         /\ PageOK(reading.pc, reading.list, reading.page, reading.rows, reading.total, reading.read,
                   reading.first, reading.seen, reading.torn, events)
  BY DEF ReadingInv

\* The rows of a page are read (reader.ts:86-95).
LEMMA SelectPageKeeps ==
  ASSUME ReadingInv, SelectPage
  PROVE  ReadingInv'
<1> DEFINE list == reading.list
           page == reading.page
           total == reading.total
           read == reading.read
           first == reading.first
           seen == reading.seen
           torn == reading.torn
           from == Offset(page)
           to == IF from + PageSize < Len(list) THEN from + PageSize ELSE Len(list)
           rows == SubSeq(list, from + 1, to)
<1>1. reading # Closed /\ reading.pc = "asked" /\ "rows" \notin read /\ events' = events
  BY DEF SelectPage, Closed, tables
<1>2. PageOK(reading.pc, list, page, reading.rows, total, read, first, seen, torn, events)
  BY <1>1, OpenPage
<1>f. reading = [pc |-> reading.pc, tenant |-> reading.tenant, list |-> list, page |-> page, rows |-> reading.rows,
                    total |-> total, read |-> read, first |-> first, seen |-> seen, torn |-> torn]
  BY <1>1, OpenPage
<1>3. reading' = [reading EXCEPT !.rows = rows, !.read = read \cup {"rows"}]
  BY DEF SelectPage
<1> HIDE DEF rows
<1>4. reading' = [pc |-> reading.pc, tenant |-> reading.tenant, list |-> list, page |-> page, rows |-> rows,
                  total |-> total, read |-> read \cup {"rows"}, first |-> first, seen |-> seen, torn |-> torn]
  BY <1>f, <1>3
<1> HIDE DEF list, page, total, read, first, seen, torn, to
<1>5. /\ list \in Seq(events) /\ page \in Nat /\ total \in Nat /\ first \subseteq events
      /\ read \in {{}, {"total"}} /\ Told(list, first, from, seen)
      /\ read = {"total"} /\ ~torn => Len(list) <= total
  BY <1>1, <1>2 DEF PageOK, PageTells
<1>6. rows \in Seq(events) /\ Told(list, first, from + PageSize, seen \cup Range(rows))
  BY <1>5, ToldOfPage DEF rows, to
<1>7. PageTells(list, page, rows, total, read \cup {"rows"}, first, seen, torn)
  <2>1. ASSUME read \cup {"rows"} = {"rows", "total"}, ~torn, page >= LastPage(total)
        PROVE  Told(list, first, Len(list), seen \cup Range(rows))
    <3>1. read = {"total"}
      BY <1>5, <2>1
    <3>2. Len(list) <= total /\ total <= from + PageSize
      BY <1>5, <2>1, <3>1, LastPageIsLast
    <3>3. Len(list) \in Nat /\ from + PageSize \in Int
      <4>1. page * PageSize \in Nat
        BY <1>5, PageSizeAssumption, Z3
      <4>2. QED
        BY <1>5, <4>1, LenProperties, PageSizeAssumption DEF Offset
    <3>4. Len(list) <= from + PageSize
      BY <1>5, <3>2, <3>3
    <3> HIDE DEF from
    <3>5. QED
      BY <1>5, <1>6, <3>3, <3>4, ToldLess
  <2>2. read \cup {"rows"} # {"total"}
    OBVIOUS
  <2>3. QED
    BY <1>5, <1>6, <2>1, <2>2 DEF PageTells
<1>8. PageOK("asked", list, page, rows, total, read \cup {"rows"}, first, seen, torn, events')
  BY <1>1, <1>5, <1>6, <1>7 DEF PageOK
<1>9. QED
  BY <1>1, <1>4, <1>8, PageIsOK

\* The total is read (reader.ts:96-101).
LEMMA SelectCountKeeps ==
  ASSUME ReadingInv, SelectCount
  PROVE  ReadingInv'
<1> DEFINE list == reading.list
           page == reading.page
           rows == reading.rows
           total == Len(list)
           read == reading.read
           first == reading.first
           seen == reading.seen
           torn == reading.torn
<1>1. reading # Closed /\ reading.pc = "asked" /\ "total" \notin read /\ events' = events
  BY DEF SelectCount, Closed, tables
<1>2. PageOK(reading.pc, list, page, rows, reading.total, read, first, seen, torn, events)
  BY <1>1, OpenPage
<1>f. reading = [pc |-> reading.pc, tenant |-> reading.tenant, list |-> list, page |-> page, rows |-> rows,
                    total |-> reading.total, read |-> read, first |-> first, seen |-> seen, torn |-> torn]
  BY <1>1, OpenPage
<1>3. reading' = [reading EXCEPT !.total = total, !.read = read \cup {"total"}]
  BY DEF SelectCount
<1> HIDE DEF total
<1>4. reading' = [pc |-> reading.pc, tenant |-> reading.tenant, list |-> list, page |-> page, rows |-> rows,
                  total |-> total, read |-> read \cup {"total"}, first |-> first, seen |-> seen, torn |-> torn]
  BY <1>f, <1>3
<1> HIDE DEF list, page, rows, read, first, seen, torn
<1>5. /\ list \in Seq(events) /\ rows \in Seq(events) /\ page \in Nat /\ first \subseteq events
      /\ read \in {{}, {"rows"}} /\ Told(list, first, Offset(page), seen)
      /\ "rows" \in read => Told(list, first, Offset(page) + PageSize, seen \cup Range(rows))
  BY <1>1, <1>2 DEF PageOK, PageTells
<1>6. total = Len(list) /\ total \in Nat /\ Offset(page) + PageSize \in Int
  <2>1. page * PageSize \in Nat
    BY <1>5, PageSizeAssumption, Z3
  <2>2. QED
    BY <1>5, <2>1, LenProperties, PageSizeAssumption DEF Offset, total
<1>7. PageTells(list, page, rows, total, read \cup {"total"}, first, seen, torn)
  <2>1. ASSUME read \cup {"total"} = {"rows", "total"}, ~torn, page >= LastPage(total)
        PROVE  Told(list, first, Len(list), seen \cup Range(rows))
    <3>1. Told(list, first, Offset(page) + PageSize, seen \cup Range(rows))
      BY <1>5, <2>1
    <3>2. Len(list) <= Offset(page) + PageSize /\ Len(list) \in Int
      BY <1>5, <1>6, <2>1, LastPageIsLast
    <3>3. QED
      BY <1>5, <1>6, <3>1, <3>2, ToldLess
  <2>2. Len(list) <= total
    BY <1>6
  <2>3. "rows" \in read \cup {"total"} => "rows" \in read
    OBVIOUS
  <2>4. QED
    BY <1>5, <2>1, <2>2, <2>3 DEF PageTells
<1>8. PageOK("asked", list, page, rows, total, read \cup {"total"}, first, seen, torn, events')
  BY <1>1, <1>5, <1>6, <1>7 DEF PageOK
<1>9. QED
  BY <1>1, <1>4, <1>8, PageIsOK

\* The page is shown (reader.ts:104-107, Audit.tsx:94-96).
LEMMA ShowKeeps ==
  ASSUME ReadingInv, ShowPage
  PROVE  ReadingInv'
<1> DEFINE list == reading.list
           page == reading.page
           rows == reading.rows
           total == reading.total
           read == reading.read
           first == reading.first
           seen == reading.seen
           torn == reading.torn
           told == seen \cup Range(rows)
<1>1. reading # Closed /\ reading.pc = "asked" /\ read = {"rows", "total"} /\ events' = events
  BY DEF ShowPage, Closed, tables
<1>2. PageOK(reading.pc, list, page, rows, total, read, first, seen, torn, events)
  BY <1>1, OpenPage
<1>f. reading = [pc |-> reading.pc, tenant |-> reading.tenant, list |-> list, page |-> page, rows |-> rows,
                    total |-> total, read |-> read, first |-> first, seen |-> seen, torn |-> torn]
  BY <1>1, OpenPage
<1>3. reading' = [reading EXCEPT !.pc = "shown", !.seen = told]
  BY DEF ShowPage
<1>4. told \cup Range(rows) = told /\ seen \subseteq told /\ Range(rows) \subseteq told
  OBVIOUS
<1> HIDE DEF told
<1>5. reading' = [pc |-> "shown", tenant |-> reading.tenant, list |-> list, page |-> page, rows |-> rows,
                  total |-> total, read |-> read, first |-> first, seen |-> told, torn |-> torn]
  BY <1>f, <1>3
<1> HIDE DEF list, page, rows, total, read, first, seen, torn
<1>6. PageTells(list, page, rows, total, read, first, told, torn)
  <2>1. Told(list, first, Offset(page), told)
    BY <1>2, <1>4 DEF PageOK, PageTells, Told
  <2>2. QED
    BY <1>2, <1>4, <2>1 DEF PageOK, PageTells, told
<1>7. PageOK("shown", list, page, rows, total, read, first, told, torn, events')
  BY <1>1, <1>2, <1>4, <1>6 DEF PageOK
<1>8. QED
  BY <1>5, <1>7, PageIsOK

\* Another page, or the same again (Audit.tsx:217-229, 299-313).
LEMMA TurnKeeps ==
  ASSUME ReadingInv, NextPage \/ PreviousPage \/ QueryFails
  PROVE  ReadingInv'
<1>1. reading # Closed /\ events' = events
  BY DEF NextPage, PreviousPage, QueryFails, Turning, Closed, tables
<1>2. PageOK(reading.pc, reading.list, reading.page, reading.rows, reading.total, reading.read,
             reading.first, reading.seen, reading.torn, events)
  BY <1>1, OpenPage
<1>3. /\ reading.list \in Seq(events) /\ reading.page \in Nat
      /\ Told(reading.list, reading.first, Offset(reading.page), reading.seen)
  BY <1>2 DEF PageOK, PageTells
<1>4. CASE QueryFails
  <2>1. reading' = Asked(reading, reading.page)
    BY <1>4 DEF QueryFails
  <2>2. QED
    BY <1>1, <1>3, <2>1, AskKeeps
<1>5. CASE NextPage
  <2>1. reading.pc = "shown" /\ reading' = Asked(reading, reading.page + 1)
    BY <1>5 DEF NextPage, Turning
  <2>2. reading.seen \cup Range(reading.rows) = reading.seen
    BY <1>2, <2>1 DEF PageOK
  <2>3. Told(reading.list, reading.first, Offset(reading.page) + PageSize, reading.seen)
    BY <1>2, <2>1, <2>2 DEF PageOK, PageTells
  <2>4. Offset(reading.page + 1) = Offset(reading.page) + PageSize
    BY <1>3, PageSizeAssumption, Z3 DEF Offset
  <2>5. reading.page + 1 \in Nat
    BY <1>3
  <2>6. QED
    BY <1>1, <2>1, <2>3, <2>4, <2>5, AskKeeps
<1>6. CASE PreviousPage
  <2>1. reading.page > 0 /\ reading' = Asked(reading, reading.page - 1)
    BY <1>6 DEF PreviousPage
  <2>2. reading.page - 1 \in Nat
    BY <1>3, <2>1
  <2>3. Offset(reading.page - 1) <= Offset(reading.page) /\ Offset(reading.page) \in Int /\ Offset(reading.page - 1) \in Int
    <3> DEFINE p == reading.page
    <3>1. p \in Nat /\ PageSize \in Nat
      BY <1>3, PageSizeAssumption
    <3> HIDE DEF p
    <3>2. (p - 1) * PageSize = p * PageSize - PageSize /\ p * PageSize \in Int
      BY <3>1, Z3
    <3>3. QED
      BY <3>1, <3>2 DEF Offset, p
  <2>4. Told(reading.list, reading.first, Offset(reading.page - 1), reading.seen)
    BY <1>3, <2>3, ToldLess
  <2>5. QED
    BY <1>1, <2>1, <2>2, <2>4, AskKeeps
<1>7. QED
  BY <1>4, <1>5, <1>6

\* The oldest row leaves the range of the query (api.ts:15-24).
LEMMA AgeOutKeeps ==
  ASSUME ReadingInv, AgeOut
  PROVE  ReadingInv'
<1> DEFINE list == reading.list
           page == reading.page
           rows == reading.rows
           total == reading.total
           read == reading.read
           first == reading.first
           seen == reading.seen
           torn == reading.torn
           rest == Front(list)
<1>1. reading # Closed /\ list # <<>> /\ events' = events
  BY DEF AgeOut, Closed, tables
<1>2. PageOK(reading.pc, list, page, rows, total, read, first, seen, torn, events)
  BY <1>1, OpenPage
<1>f. reading = [pc |-> reading.pc, tenant |-> reading.tenant, list |-> list, page |-> page, rows |-> rows,
                 total |-> total, read |-> read, first |-> first, seen |-> seen, torn |-> torn]
  BY <1>1, OpenPage
<1>3. reading' = [reading EXCEPT !.list = rest]
  BY DEF AgeOut
<1> HIDE DEF rest
<1>4. reading' = [pc |-> reading.pc, tenant |-> reading.tenant, list |-> rest, page |-> page, rows |-> rows,
                  total |-> total, read |-> read, first |-> first, seen |-> seen, torn |-> torn]
  BY <1>f, <1>3
<1> HIDE DEF list, page, rows, total, read, first, seen, torn
<1>5. list \in Seq(events) /\ page \in Nat /\ total \in Nat
  BY <1>2 DEF PageOK
<1>6. /\ Len(list) \in Nat /\ Len(rest) = Len(list) - 1 /\ rest \in Seq(events)
      /\ Offset(page) \in Int /\ Offset(page) + PageSize \in Int
  <2>1. page * PageSize \in Nat /\ PageSize \in Nat
    BY <1>5, PageSizeAssumption, Z3
  <2>2. Offset(page) \in Int /\ Offset(page) + PageSize \in Int
    BY <2>1 DEF Offset
  <2>3. QED
    BY <1>1, <1>5, <2>2, LenProperties, OldestLeaves DEF rest
<1>7. ASSUME NEW k \in Int, NEW S, Told(list, first, k, S) PROVE Told(rest, first, k, S)
  BY <1>1, <1>5, <1>7, ToldOldestLeaves DEF rest
<1>8. ASSUME NEW S, Told(list, first, Len(list), S) PROVE Told(rest, first, Len(rest), S)
  <2>1. Told(rest, first, Len(list), S)
    BY <1>6, <1>7, <1>8
  <2>2. Len(rest) \in Int /\ Len(list) \in Int /\ Len(rest) <= Len(list)
    BY <1>6
  <2>3. QED
    BY <1>6, <2>1, <2>2, ToldLess
<1>9. PageTells(rest, page, rows, total, read, first, seen, torn)
  <2>1. Told(rest, first, Offset(page), seen)
    BY <1>2, <1>6, <1>7 DEF PageOK, PageTells
  <2>2. "rows" \in read => Told(rest, first, Offset(page) + PageSize, seen \cup Range(rows))
    BY <1>2, <1>6, <1>7 DEF PageOK, PageTells
  <2>3. read = {"total"} /\ ~torn => Len(rest) <= total
    BY <1>2, <1>5, <1>6 DEF PageOK, PageTells
  <2>4. read = {"rows", "total"} /\ ~torn /\ page >= LastPage(total) =>
          Told(rest, first, Len(rest), seen \cup Range(rows))
    BY <1>2, <1>8 DEF PageOK, PageTells
  <2>5. QED
    BY <2>1, <2>2, <2>3, <2>4 DEF PageTells
<1>10. PageOK(reading.pc, rest, page, rows, total, read, first, seen, torn, events')
  BY <1>1, <1>2, <1>6, <1>9 DEF PageOK
<1>11. QED
  BY <1>4, <1>10, PageIsOK

\* A row enters the list (writer.ts:119-131).
LEMMA CommitKeepsReading ==
  ASSUME WriterInv, ReadingInv, Commit
  PROVE  ReadingInv'
<1>1. PICK n : NewRow(n) /\ events' \ events = {n}
  BY CommitAdds DEF Commit
<1>2. Listed(n) /\ n \notin events /\ n \in events' /\ events' = events \cup {n}
  BY <1>1 DEF Commit, NewRow
<1>3. CASE reading = Closed
  <2>1. reading' = reading
    BY <1>2, <1>3 DEF Listed, Closed
  <2>2. QED
    BY <1>3, <2>1 DEF ReadingInv
<1>4. CASE reading # Closed
  <2> DEFINE list == reading.list
             page == reading.page
             rows == reading.rows
             total == reading.total
             read == reading.read
             first == reading.first
             seen == reading.seen
             torn == reading.torn
             tears == torn \/ (reading.pc = "asked" /\ Cardinality(read) = 1)
  <2>1. PageOK(reading.pc, list, page, rows, total, read, first, seen, torn, events)
    BY <1>4, OpenPage
  <2>f. reading = [pc |-> reading.pc, tenant |-> reading.tenant, list |-> list, page |-> page, rows |-> rows,
                   total |-> total, read |-> read, first |-> first, seen |-> seen, torn |-> torn]
    BY <1>4, OpenPage
  <2>2. /\ list \in Seq(events) /\ list \in Seq(events') /\ rows \in Seq(events') /\ first \subseteq events'
        /\ n \notin first /\ page \in Nat /\ total \in Nat
    <3>1. list \in Seq(events) /\ rows \in Seq(events) /\ first \subseteq events /\ page \in Nat /\ total \in Nat
      BY <2>1 DEF PageOK
    <3>2. events \subseteq events'
      BY <1>2
    <3> HIDE DEF list, rows, first, page, total
    <3>3. Seq(events) \subseteq Seq(events')
      BY <3>2, SeqMonotonic
    <3>4. QED
      BY <1>2, <3>1, <3>2, <3>3
  <2>3. CASE UNCHANGED reading
    <3>1. reading' = [pc |-> reading.pc, tenant |-> reading.tenant, list |-> list, page |-> page, rows |-> rows,
                      total |-> total, read |-> read, first |-> first, seen |-> seen, torn |-> torn]
      BY <2>f, <2>3
    <3> HIDE DEF list, page, rows, total, read, first, seen, torn
    <3>2. PageOK(reading.pc, list, page, rows, total, read, first, seen, torn, events')
      BY <2>1, <2>2 DEF PageOK
    <3>3. QED
      BY <3>1, <3>2, PageIsOK
  <2>4. ASSUME NEW i \in 1..(Len(list) + 1),
               reading' = [reading EXCEPT !.list = InsertAt(list, i, n), !.torn = tears]
        PROVE  ReadingInv'
    <3> DEFINE longer == InsertAt(list, i, n)
    <3> HIDE DEF longer, tears
    <3>1. reading' = [reading EXCEPT !.list = longer, !.torn = tears]
      BY <2>4 DEF longer
    <3>2. reading' = [pc |-> reading.pc, tenant |-> reading.tenant, list |-> longer, page |-> page, rows |-> rows,
                      total |-> total, read |-> read, first |-> first, seen |-> seen, torn |-> tears]
      BY <2>f, <3>1
    <3> HIDE DEF list, page, rows, total, read, first, seen, torn
    <3>3. longer \in Seq(events') /\ Len(longer) = Len(list) + 1 /\ Len(list) \in Nat
      BY <1>2, <2>2, RowEnters, LenProperties DEF longer
    <3>4. ASSUME NEW k \in Int, NEW S, Told(list, first, k, S) PROVE Told(longer, first, k, S)
      BY <1>2, <2>2, <3>4, ToldRowEnters DEF longer
    <3>5. ASSUME NEW S, Told(list, first, Len(list), S) PROVE Told(longer, first, Len(longer), S)
      <4>1. Told(list, first, Len(longer), S)
        BY <2>2, <3>3, <3>5, ToldLess
      <4>2. QED
        BY <3>3, <3>4, <4>1
    <3>6. Offset(page) \in Int /\ Offset(page) + PageSize \in Int
      <4>1. page * PageSize \in Nat /\ PageSize \in Nat
        BY <2>2, PageSizeAssumption, Z3
      <4>2. QED
        BY <4>1 DEF Offset
    <3>7. ~tears => ~torn
      BY DEF tears
    <3>8. tears \/ read # {"total"}
      <4>1. SUFFICES ASSUME read = {"total"}, ~tears PROVE FALSE
        OBVIOUS
      <4>2. Cardinality(read) = 1
        BY <4>1, FS_Singleton
      <4>3. {"total"} # {"rows", "total"}
        OBVIOUS
      <4>4. reading.pc = "asked"
        BY <2>1, <4>1, <4>3 DEF PageOK
      <4>5. QED
        BY <4>1, <4>2, <4>4 DEF tears
    <3>9. PageTells(longer, page, rows, total, read, first, seen, tears)
      <4>1. Told(longer, first, Offset(page), seen)
        BY <2>1, <3>4, <3>6 DEF PageOK, PageTells
      <4>2. "rows" \in read => Told(longer, first, Offset(page) + PageSize, seen \cup Range(rows))
        BY <2>1, <3>4, <3>6 DEF PageOK, PageTells
      <4>3. read = {"rows", "total"} /\ ~tears /\ page >= LastPage(total) =>
              Told(longer, first, Len(longer), seen \cup Range(rows))
        BY <2>1, <3>5, <3>7 DEF PageOK, PageTells
      <4>4. QED
        BY <3>8, <4>1, <4>2, <4>3 DEF PageTells
    <3>10. PageOK(reading.pc, longer, page, rows, total, read, first, seen, tears, events')
      BY <2>1, <2>2, <3>3, <3>9 DEF PageOK
    <3>11. QED
      BY <3>2, <3>10, PageIsOK
  <2>5. QED
    BY <1>2, <2>3, <2>4 DEF Listed
<1>5. QED
  BY <1>3, <1>4

\* What PageTells says of a last page that is shown.
LEMMA LastPageTells ==
  ASSUME ReadingInv
  PROVE  PagingMissesNothing
<1>1. SUFFICES ASSUME reading.pc = "shown", ~reading.torn, reading.page >= LastPage(reading.total)
               PROVE  reading.first \cap Range(reading.list) \subseteq reading.seen
  BY DEF PagingMissesNothing
<1>2. PageOK(reading.pc, reading.list, reading.page, reading.rows, reading.total, reading.read,
             reading.first, reading.seen, reading.torn, events)
  BY <1>1, OpenPage DEF Closed
<1>3. /\ Told(reading.list, reading.first, Len(reading.list), reading.seen \cup Range(reading.rows))
      /\ Range(reading.rows) \subseteq reading.seen /\ reading.list \in Seq(events)
  BY <1>1, <1>2 DEF PageOK, PageTells
<1>4. Len(reading.list) \in Nat /\ DOMAIN reading.list = 1..Len(reading.list)
  BY <1>3, LenProperties
<1>5. ASSUME NEW i \in 1..Len(reading.list), reading.list[i] \in reading.first PROVE reading.list[i] \in reading.seen
  <2>1. i <= Len(reading.list)
    BY <1>4
  <2>2. QED
    BY <1>3, <1>5, <2>1 DEF Told
<1>6. QED
  BY <1>4, <1>5 DEF Range
-------------------------------------------------------------------------------
(* Every step *)

ConsoleInv == WalkInv /\ ReadingInv

VerdictIsTrue == DamageIsReported /\ IntactIsValid /\ CheckedRowsAreGenuine

\* Without a result there is nothing to be wrong about.
LEMMA NothingReported == verdict = NoVerdict => VerdictIsTrue
  BY DEF VerdictIsTrue, DamageIsReported, IntactIsValid, CheckedRowsAreGenuine, Reported

\* Nobody has asked for anything yet.
LEMMA ConsoleBegins == ConsoleInit => ConsoleInv /\ VerdictIsTrue
<1>1. SUFFICES ASSUME ConsoleInit PROVE ConsoleInv /\ VerdictIsTrue
  OBVIOUS
<1>2. /\ events = {} /\ written = {} /\ damage = "none" /\ walk = IdleWalk /\ verdict = NoVerdict
      /\ reading = Closed /\ heads = [t \in Tenant |-> NoHead(t)]
  BY <1>1 DEF ConsoleInit, Init, TablesInit, ReaderInit
<1>3. WriterInv
  <2>1. ASSUME NEW t \in Tenant
        PROVE  /\ heads[t] = [exists |-> FALSE, prevHash |-> GenesisHash(t), length |-> 0]
               /\ GenesisHash(t) \in Hash /\ Len(GenesisHash(t)) = 1
               /\ ChainTo({}, GenesisHash(t), t) /\ WrittenOf(t) = {}
    <3>1. heads[t] = [exists |-> FALSE, prevHash |-> GenesisHash(t), length |-> 0]
      BY <1>2 DEF NoHead
    <3>2. GenesisHash(t) \in Hash /\ Len(GenesisHash(t)) = 1
      BY DEF GenesisHash, Hash
    <3>3. ChainTo({}, GenesisHash(t), t)
      BY NoRowsChain
    <3>4. QED
      BY <1>2, <3>1, <3>2, <3>3 DEF WrittenOf
  <2>2. heads \in [Tenant -> ChainHead]
    <3>1. \A t \in Tenant : NoHead(t) \in ChainHead
      BY <1>2, <2>1 DEF ChainHead, NoHead
    <3>2. QED
      BY <1>2, <3>1
  <2>3. ASSUME NEW t \in Tenant
        PROVE  /\ ChainTo(WrittenOf(t), heads[t].prevHash, t)
               /\ heads[t].exists <=> Len(heads[t].prevHash) > 1
    <3>1. heads[t] = [exists |-> FALSE, prevHash |-> GenesisHash(t), length |-> 0]
      BY <2>1
    <3>2. heads[t].prevHash = GenesisHash(t) /\ ~heads[t].exists /\ Len(heads[t].prevHash) = 1
      BY <2>1, <3>1
    <3>3. ChainTo(WrittenOf(t), heads[t].prevHash, t)
      BY <2>1, <3>2
    <3>4. QED
      BY <3>2, <3>3
  <2>4. written \subseteq Row /\ IsFiniteSet(written) /\ \A r, q \in written : r.seq = q.seq => r = q
    BY <1>2, FS_EmptySet
  <2>5. QED
    BY <2>2, <2>3, <2>4 DEF WriterInv
<1>4. OwnerInv /\ WalkShape /\ WalkIsChain /\ ReadingInv
  BY <1>2 DEF OwnerInv, WalkShape, WalkIsChain, Walking, IdleWalk, ReadingInv
<1>5. QED
  BY <1>2, <1>3, <1>4, NothingReported DEF ConsoleInv, WalkInv

\* The owner's statement disturbs a walk; it changes nothing else of it.
LEMMA OwnKeepsWalk ==
  ASSUME WalkShape, walk' = Touched
  PROVE  WalkShape' /\ WalkIsChain'
<1>1. CASE walk = IdleWalk
  BY <1>1 DEF Touched, Walking, WalkShape, WalkIsChain, IdleWalk
<1>2. CASE walk # IdleWalk
  <2>1. /\ walk.pc \in {"page", "head"} /\ walk.tenant \in Tenant /\ walk.todo \subseteq Tenant
        /\ walk.afterSeq \in Nat /\ walk.rowsChecked \in Nat
        /\ walk = [pc |-> walk.pc, tenant |-> walk.tenant, todo |-> walk.todo,
                   expected |-> walk.expected, afterSeq |-> walk.afterSeq,
                   rowsChecked |-> walk.rowsChecked, firstBreak |-> walk.firstBreak,
                   damaged |-> walk.damaged, disturbed |-> walk.disturbed, raced |-> walk.raced]
    BY <1>2 DEF WalkShape
  <2>2. walk' = [walk EXCEPT !.disturbed = TRUE]
    BY <2>1 DEF Touched, Walking
  <2>3. walk' = [pc |-> walk.pc, tenant |-> walk.tenant, todo |-> walk.todo,
                 expected |-> walk.expected, afterSeq |-> walk.afterSeq,
                 rowsChecked |-> walk.rowsChecked, firstBreak |-> walk.firstBreak,
                 damaged |-> walk.damaged, disturbed |-> TRUE, raced |-> walk.raced]
    BY <2>1, <2>2
  <2>4. /\ walk'.pc = walk.pc /\ walk'.tenant = walk.tenant /\ walk'.todo = walk.todo
        /\ walk'.afterSeq = walk.afterSeq /\ walk'.rowsChecked = walk.rowsChecked /\ walk'.disturbed = TRUE
        /\ walk' = [pc |-> walk'.pc, tenant |-> walk'.tenant, todo |-> walk'.todo,
                    expected |-> walk'.expected, afterSeq |-> walk'.afterSeq,
                    rowsChecked |-> walk'.rowsChecked, firstBreak |-> walk'.firstBreak,
                    damaged |-> walk'.damaged, disturbed |-> walk'.disturbed, raced |-> walk'.raced]
    BY <2>3
  <2>5. QED
    BY <2>1, <2>4 DEF WalkShape, WalkIsChain
<1>3. QED
  BY <1>1, <1>2

\* The result of a walk, and the next tenant (verifier.ts:122-151, 154-166).
LEMMA HeadKeeps ==
  ASSUME WalkInv, ReadHead
  PROVE  WalkShape' /\ WalkIsChain'
<1>1. WriterInv /\ OwnerInv /\ WalkShape /\ UNCHANGED <<events, heads, written, damage>>
  BY DEF WalkInv, ReadHead, tables
<1>2. CASE walk.todo = {}
  <2>1. walk' = IdleWalk
    BY <1>2 DEF ReadHead
  <2>2. QED
    BY <2>1 DEF WalkShape, WalkIsChain, Walking, IdleWalk
<1>3. CASE walk.todo # {}
  <2> DEFINE t == CHOOSE u \in walk.todo : TRUE
  <2>1. walk' = StartOf(t, walk.todo)
    BY <1>3 DEF ReadHead
  <2>2. walk.todo \in SUBSET Tenant
    <3>1. walk.pc = "head"
      BY DEF ReadHead
    <3>2. QED
      BY <1>1, <3>1 DEF WalkShape, IdleWalk
  <2>3. t \in walk.todo
    BY <1>3
  <2> HIDE DEF t
  <2>4. QED
    BY <1>1, <2>1, <2>2, <2>3, StartKeeps
<1>4. QED
  BY <1>2, <1>3

\* What the result says, from where the walk has ended (verifier.ts:130-146).
LEMMA HeadTells ==
  ASSUME WalkInv, ReadHead
  PROVE  VerdictIsTrue'
<1> DEFINE cut == Truncated(heads[walk.tenant])
           behind == {r \in RowsOf(walk.tenant) : r.seq <= walk.afterSeq}
           why == IF cut THEN "prev_hash_mismatch" ELSE walk.firstBreak.reason
<1>1. walk.pc = "head" /\ written' = written
  BY DEF ReadHead
<1>2. verdict' = [tenant |-> walk.tenant,
                  valid |-> walk.firstBreak = NoBreak /\ ~cut,
                  reason |-> why,
                  seq |-> walk.firstBreak.seq,
                  rowsChecked |-> walk.rowsChecked,
                  checked |-> behind,
                  headHash |-> walk.expected, damaged |-> walk.damaged, disturbed |-> walk.disturbed,
                  raced |-> walk.raced, kind |-> damage]
  BY DEF ReadHead
<1> HIDE DEF cut, behind, why
<1>3. /\ verdict'.valid = (walk.firstBreak = NoBreak /\ ~cut) /\ verdict'.reason = why
      /\ verdict'.rowsChecked = walk.rowsChecked /\ verdict'.checked = behind
      /\ verdict'.damaged = walk.damaged /\ verdict'.disturbed = walk.disturbed
      /\ verdict'.raced = walk.raced /\ verdict'.kind = damage
  BY <1>2
<1>4. behind = Walked
  BY DEF behind, Walked
<1>5. DamageIsReported'
  <2>1. SUFFICES ASSUME walk.damaged, ~walk.disturbed
                 PROVE  /\ ~(walk.firstBreak = NoBreak /\ ~cut)
                        /\ why = IF damage = "alter" THEN "row_hash_mismatch" ELSE "prev_hash_mismatch"
    BY <1>3 DEF DamageIsReported
  <2>2. \/ /\ walk.firstBreak = NoBreak /\ cut /\ damage # "alter"
        \/ /\ walk.firstBreak # NoBreak
           /\ walk.firstBreak.reason = IF damage = "alter" THEN "row_hash_mismatch" ELSE "prev_hash_mismatch"
    BY <1>1, <2>1, DamageShows DEF cut
  <2>3. cut => walk.firstBreak = NoBreak
    BY DEF cut, Truncated
  <2>4. QED
    BY <2>2, <2>3 DEF why
<1>6. IntactIsValid'
  <2>1. SUFFICES ASSUME ~walk.damaged, ~walk.disturbed, ~walk.raced
                 PROVE  walk.firstBreak = NoBreak /\ ~cut
    BY <1>3 DEF IntactIsValid
  <2>2. QED
    BY <1>1, <2>1, IntactEndsAtHead DEF cut
<1>7. CheckedRowsAreGenuine'
  <2>1. ASSUME ~walk.disturbed
        PROVE  /\ Cardinality(behind) = walk.rowsChecked
               /\ \A r \in behind : r \in written \/ (damage = "rewrite" /\ r = LastOf(behind))
    BY <1>1, <1>4, <2>1, CheckedAreCommitted
  <2>2. QED
    BY <1>1, <1>3, <2>1 DEF CheckedRowsAreGenuine
<1>8. QED
  BY <1>5, <1>6, <1>7 DEF VerdictIsTrue

\* Every step of a verification.
LEMMA VerifyKeeps ==
  ASSUME ConsoleInv, Verify
  PROVE  ConsoleInv' /\ VerdictIsTrue'
<1>1. WriterInv /\ OwnerInv /\ WalkShape /\ WalkIsChain /\ reading = Closed /\ reading' = Closed
  BY DEF ConsoleInv, WalkInv, Verify
<1>2. UNCHANGED <<events, heads, written, damage>>
  BY DEF Verify, StartVerify, ReadPage, ReadHead, tables
<1>3. WriterInv' /\ OwnerInv' /\ ReadingInv'
  BY <1>1, <1>2 DEF WriterInv, OwnerInv, WrittenOf, ReadingInv
<1>4. CASE StartVerify
  <2>1. PICK queue \in {{r.tenant : r \in events}} \cup {{t} : t \in Tenant} :
          \E t \in queue : walk' = StartOf(t, queue)
    BY <1>4 DEF StartVerify
  <2>2. PICK t \in queue : walk' = StartOf(t, queue)
    BY <2>1
  <2>3. queue \in SUBSET Tenant
    <3>1. \A r \in events : r.tenant \in Tenant
      BY <1>1, EventsAreStored DEF StoredRow
    <3>2. QED
      BY <2>1, <3>1
  <2>4. WalkShape' /\ WalkIsChain'
    BY <1>1, <1>2, <2>2, <2>3, StartKeeps
  <2>5. VerdictIsTrue'
    <3>1. verdict' = NoVerdict
      BY <1>4 DEF StartVerify
    <3>2. QED
      BY <3>1 DEF VerdictIsTrue, DamageIsReported, IntactIsValid, CheckedRowsAreGenuine, Reported, NoVerdict
  <2>6. QED
    BY <1>3, <2>4, <2>5 DEF ConsoleInv, WalkInv
<1>5. CASE ReadPage
  <2>1. WalkShape' /\ WalkIsChain'
    BY <1>1, <1>5, PageKeeps
  <2>2. VerdictIsTrue'
    <3>1. verdict' = NoVerdict
      BY <1>5 DEF ReadPage
    <3>2. QED
      BY <3>1 DEF VerdictIsTrue, DamageIsReported, IntactIsValid, CheckedRowsAreGenuine, Reported, NoVerdict
  <2>3. QED
    BY <1>3, <2>1, <2>2 DEF ConsoleInv, WalkInv
<1>6. CASE ReadHead
  <2>1. WalkShape' /\ WalkIsChain' /\ VerdictIsTrue'
    BY <1>6, HeadKeeps, HeadTells DEF ConsoleInv
  <2>2. QED
    BY <1>3, <2>1 DEF ConsoleInv, WalkInv
<1>7. QED
  BY <1>4, <1>5, <1>6 DEF Verify

\* Every step of a reading.
LEMMA ReadKeeps ==
  ASSUME ConsoleInv, Read
  PROVE  ConsoleInv' /\ VerdictIsTrue'
<1>1. WriterInv /\ OwnerInv /\ WalkShape /\ WalkIsChain /\ ReadingInv
  BY DEF ConsoleInv, WalkInv
<1>2. UNCHANGED <<events, heads>>
  BY DEF Read, ReaderStep, OpenTable, LeaveTable, SelectPage, SelectCount, QueryFails, ShowPage,
         NextPage, PreviousPage, AgeOut, tables
<1>3. UNCHANGED <<written, damage, walk>> /\ walk = IdleWalk /\ verdict' = NoVerdict
  BY DEF Read
<1>4. WriterInv' /\ OwnerInv' /\ WalkShape' /\ WalkIsChain'
  BY <1>1, <1>2, <1>3 DEF WriterInv, OwnerInv, WrittenOf, WalkShape, WalkIsChain, Walking, IdleWalk
<1>5. VerdictIsTrue'
  BY <1>3 DEF VerdictIsTrue, DamageIsReported, IntactIsValid, CheckedRowsAreGenuine, Reported, NoVerdict
<1>6. ReadingInv'
  <2>1. CASE LeaveTable
    BY <2>1 DEF LeaveTable, ReadingInv
  <2>2. CASE OpenTable \/ SelectPage \/ SelectCount \/ ShowPage
    BY <1>1, <2>2, OpenKeeps, SelectPageKeeps, SelectCountKeeps, ShowKeeps
  <2>3. CASE NextPage \/ PreviousPage \/ QueryFails \/ AgeOut
    BY <1>1, <2>3, TurnKeeps, AgeOutKeeps
  <2>4. QED
    BY <2>1, <2>2, <2>3 DEF Read, ReaderStep
<1>7. QED
  BY <1>4, <1>5, <1>6 DEF ConsoleInv, WalkInv

\* Every step.
LEMMA ConsoleSteps ==
  ASSUME ConsoleInv, VerdictIsTrue, [ConsoleNext]_consoleVars
  PROVE  ConsoleInv' /\ VerdictIsTrue'
<1>1. WriterInv /\ OwnerInv /\ WalkShape /\ WalkIsChain /\ ReadingInv
  BY DEF ConsoleInv, WalkInv
<1>2. CASE Verify \/ Read
  BY <1>2, VerifyKeeps, ReadKeeps
<1>3. CASE Own
  <2>1. DamageRow \/ Restore
    BY <1>3 DEF Own
  <2>2. WriterInv' /\ OwnerInv'
    BY <1>1, <2>1, OwnerKeeps
  <2>3. walk' = Touched /\ verdict' = NoVerdict /\ reading' = Closed
    BY <1>3 DEF Own, DamageRow, Restore
  <2>4. WalkShape' /\ WalkIsChain'
    BY <1>1, <2>3, OwnKeepsWalk
  <2>5. VerdictIsTrue'
    BY <2>3 DEF VerdictIsTrue, DamageIsReported, IntactIsValid, CheckedRowsAreGenuine, Reported, NoVerdict
  <2>6. ReadingInv'
    BY <2>3 DEF ReadingInv
  <2>7. QED
    BY <2>2, <2>4, <2>5, <2>6 DEF ConsoleInv, WalkInv
<1>4. CASE Commit
  <2>1. CommitAppend
    BY <1>4 DEF Commit
  <2>2. WriterInv' /\ OwnerInv'
    <3>1. PICK n : NewRow(n)
      BY <1>1, <2>1, CommitAdds
    <3>2. QED
      BY <1>1, <3>1, CommitKeeps
  <2>3. WalkShape' /\ WalkIsChain'
    BY <1>1, <2>1, CommitKeepsWalk
  <2>4. VerdictIsTrue'
    <3>1. verdict' = NoVerdict
      BY <2>1 DEF CommitAppend
    <3>2. QED
      BY <3>1 DEF VerdictIsTrue, DamageIsReported, IntactIsValid, CheckedRowsAreGenuine, Reported, NoVerdict
  <2>5. ReadingInv'
    BY <1>1, <1>4, CommitKeepsReading
  <2>6. QED
    BY <2>2, <2>3, <2>4, <2>5 DEF ConsoleInv, WalkInv
<1>5. CASE UNCHANGED consoleVars
  <2>1. UNCHANGED <<events, heads, written, damage, walk, verdict, reading>>
    BY <1>5 DEF consoleVars, vars, tables, verifierVars
  <2>2. WriterInv' /\ OwnerInv'
    BY <1>1, <2>1 DEF WriterInv, OwnerInv, WrittenOf
  <2>3. WalkShape' /\ WalkIsChain'
    BY <1>1, <2>1 DEF WalkShape, WalkIsChain, Walking, Walked, RowsOf, WrittenOf, NextRow
  <2>4. ReadingInv'
    BY <1>1, <2>1 DEF ReadingInv
  <2>5. VerdictIsTrue'
    BY <2>1 DEF VerdictIsTrue, DamageIsReported, IntactIsValid, CheckedRowsAreGenuine, Reported
  <2>6. QED
    BY <2>2, <2>3, <2>4, <2>5 DEF ConsoleInv, WalkInv
<1>6. QED
  BY <1>2, <1>3, <1>4, <1>5 DEF ConsoleNext

\* The invariant of the audit page.
LEMMA ConsoleHolds == ConsoleSpec => [](ConsoleInv /\ VerdictIsTrue)
<1>1. ConsoleInit => ConsoleInv /\ VerdictIsTrue
  BY ConsoleBegins
<1>2. (ConsoleInv /\ VerdictIsTrue) /\ [ConsoleNext]_consoleVars => (ConsoleInv /\ VerdictIsTrue)'
  BY ConsoleSteps
<1>3. QED
  BY <1>1, <1>2, PTL DEF ConsoleSpec

-------------------------------------------------------------------------------
(* Theorems *)

\* A tenant whose rows are not what the writers committed is never reported valid, and the
\* reason is the one that belongs to what was done to them (verifier.ts:63-151): a walk ends
\* at the recorded head only if what it has behind it is the whole of what was written.
THEOREM DamageAlwaysShows == ConsoleSpec => []DamageIsReported
<1>1. ConsoleInv /\ VerdictIsTrue => DamageIsReported
  BY DEF VerdictIsTrue
<1>2. QED
  BY <1>1, ConsoleHolds, PTL

\* An untouched chain is reported valid, whatever pages it is read in and whatever is
\* appended between them, unless an append of the tenant commits between the last page and
\* the head read (verifier.ts:77-131).
THEOREM IntactPasses == ConsoleSpec => []IntactIsValid
<1>1. ConsoleInv /\ VerdictIsTrue => IntactIsValid
  BY DEF VerdictIsTrue
<1>2. QED
  BY <1>1, ConsoleHolds, PTL

\* What the walk counts as checked it has checked once, and it is as committed but for a
\* row rewritten together with its hash, behind which the walk stops (verifier.ts:107-117).
THEOREM CheckedIsCommitted == ConsoleSpec => []CheckedRowsAreGenuine
<1>1. ConsoleInv /\ VerdictIsTrue => CheckedRowsAreGenuine
  BY DEF VerdictIsTrue
<1>2. QED
  BY <1>1, ConsoleHolds, PTL

\* An operator who has come to the last page has been shown every row that was listed from
\* the beginning and still is, if none entered between the two statements of that page
\* (reader.ts:85-105, Audit.tsx:94-96, 299-313).
THEOREM EveryRowIsShown == ConsoleSpec => []PagingMissesNothing
<1>1. ConsoleInv /\ VerdictIsTrue => PagingMissesNothing
  BY LastPageTells DEF ConsoleInv
<1>2. QED
  BY <1>1, ConsoleHolds, PTL
===============================================================================
