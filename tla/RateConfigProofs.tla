---------------------------- MODULE RateConfigProofs ----------------------------
(***************************************************************************)
(* What a replica's copy of the rate limits keeps, for any number of       *)
(* replicas, requests, rows and versions.  ConfigInv says where each       *)
(* number of a version can come from and that an announcement a replica    *)
(* has not missed is on its way to it, being read, or shown.               *)
(***************************************************************************)
EXTENDS RateConfig, SequenceTheorems, TLAPS

Rows == UNION {[rows -> Limit] : rows \in SUBSET RowKey}

Phase == {"down", "loading", "subscribing", "serving", "draining"}

\* The versions the reloads of r under way have read, 0 for one that has read nothing.
Pending(r) == {loads[r][i] : i \in DOMAIN loads[r]}

Typed ==
  /\ table \in Seq(Rows) /\ Latest \in Nat \ {0}
  /\ phase \in [Replica -> Phase]
  /\ shown \in [Replica -> Nat] /\ since \in [Replica -> Nat] /\ newest \in [Replica -> Nat]
  /\ loads \in [Replica -> Seq(Nat)]
  /\ inbox \in [Replica -> SUBSET Nat]
  /\ put \in [Request -> [replica : Replica \cup {NoReplica}, version : Nat]]
  /\ uninformed \subseteq Replica
  /\ starts \in 0..MaxStarts

\* Every number is that of a version there is.
NumberedAt(r) ==
  /\ shown[r] <= Latest /\ newest[r] <= Latest
  /\ 1 <= since[r] /\ since[r] <= Latest
  /\ \A v \in Pending(r) : v <= Latest
  /\ \A v \in inbox[r] : 1 <= v /\ v <= Latest

Numbered ==
  /\ Latest <= MaxVersions
  /\ \A r \in Replica : NumberedAt(r)
  /\ \A q \in Request : /\ put[q].version <= Latest
                        /\ put[q] # NoPut => 1 <= put[q].version

\* What a replica shows, or is about to, was read after it started.
GroundedAt(r) ==
  /\ phase[r] = "down" => shown[r] = 0 /\ Pending(r) = {}
  /\ phase[r] \notin {"down", "loading"} => shown[r] # 0
  /\ shown[r] # 0 => since[r] <= shown[r]
  /\ shown[r] <= newest[r]
  /\ \A v \in Pending(r) : v = 0 \/ since[r] <= v

Grounded == \A r \in Replica : GroundedAt(r)

\* An announced version is on its way to a replica that has not missed it, or being
\* read, or has been shown.
Reaches(r, a) ==
  \/ \E v \in inbox[r] : v >= a
  \/ \E v \in Pending(r) : v = 0 \/ v >= a
  \/ newest[r] >= a

Covered ==
  \A r \in Replica : phase[r] # "down" /\ r \notin uninformed => \A a \in Announced : Reaches(r, a)

ConfigInv == Typed /\ Numbered /\ Grounded /\ Covered

-------------------------------------------------------------------------------
(* Reloads under way *)

LEMMA PendingOfRead ==
  ASSUME NEW s \in Seq(Nat), NEW i \in DOMAIN s, NEW v \in Nat
  PROVE  /\ [s EXCEPT ![i] = v] \in Seq(Nat)
         /\ \A j \in DOMAIN s : [s EXCEPT ![i] = v][j] = (IF j = i THEN v ELSE s[j])
         /\ DOMAIN [s EXCEPT ![i] = v] = DOMAIN s
  OBVIOUS

\* What RemoveAt leaves was there, and nothing but the removed element is lost.
LEMMA PendingOfRest ==
  ASSUME NEW s \in Seq(Nat), NEW i \in DOMAIN s
  PROVE  /\ RemoveAt(s, i) \in Seq(Nat)
         /\ \A j \in DOMAIN RemoveAt(s, i) : \E m \in DOMAIN s : RemoveAt(s, i)[j] = s[m]
         /\ \A m \in DOMAIN s \ {i} : \E j \in DOMAIN RemoveAt(s, i) : RemoveAt(s, i)[j] = s[m]
<1> DEFINE left == SubSeq(s, 1, i-1)
           right == SubSeq(s, i+1, Len(s))
<1>1. Len(s) \in Nat /\ i \in 1..Len(s) /\ DOMAIN s = 1..Len(s) /\ i \in Int
  BY LenProperties
<1>2. \A j \in 1..Len(s) : s[j] \in Nat
  BY <1>1, ElementOfSeq
<1>3. PICK n \in Nat : n = Len(s)
  BY <1>1
<1>4. /\ left \in Seq(Nat) /\ Len(left) = i - 1
      /\ \A j \in 1..(i-1) : left[j] = s[j]
  <2>1. /\ left \in Seq(Nat)
        /\ Len(left) = IF 1 <= i-1 THEN (i-1) - 1 + 1 ELSE 0
        /\ \A j \in 1..((i-1) - 1 + 1) : left[j] = s[1 + j - 1]
    <3>1. 1 \in Int /\ i - 1 \in Int /\ \A j \in 1..(i-1) : s[j] \in Nat
      BY <1>1, <1>2
    <3> QED
      BY <3>1, SubSeqProperties
  <2> QED
    BY <1>1, <2>1
<1>5. /\ right \in Seq(Nat) /\ Len(right) = n - i
      /\ \A j \in 1..(n-i) : right[j] = s[i + j]
  <2>1. PICK p \in Int : p = i + 1
    BY <1>1
  <2>2. n \in Int /\ right = SubSeq(s, p, n)
    BY <1>3, <2>1
  <2>3. \A j \in p..n : s[j] \in Nat
    BY <1>1, <1>2, <1>3, <2>1
  <2> HIDE DEF right
  <2>4. /\ SubSeq(s, p, n) \in Seq(Nat)
        /\ Len(SubSeq(s, p, n)) = IF p <= n THEN n - p + 1 ELSE 0
        /\ \A j \in 1..(n - p + 1) : SubSeq(s, p, n)[j] = s[p + j - 1]
    BY <2>2, <2>3, SubSeqProperties
  <2>5. n - p + 1 = n - i /\ (p <= n <=> 0 < n - i) /\ 0 <= n - i
    <3>1. i \in Int /\ i <= n
      BY <1>1, <1>3
    <3> QED
      BY <2>1, <3>1
  <2>6. \A j \in 1..(n-i) : p + j - 1 = i + j
    BY <1>1, <1>3, <2>1
  <2>7. /\ right \in Seq(Nat)
        /\ Len(right) = IF p <= n THEN n - p + 1 ELSE 0
        /\ \A j \in 1..(n - p + 1) : right[j] = s[p + j - 1]
    BY <2>2, <2>4
  <2>8. Len(right) = n - i
    BY <1>1, <1>3, <2>1, <2>5, <2>7
  <2>9. \A j \in 1..(n-i) : right[j] = s[i + j]
    BY <2>5, <2>6, <2>7
  <2> QED
    BY <2>7, <2>8, <2>9
<1>6. RemoveAt(s, i) = left \o right
  BY DEF RemoveAt
<1> HIDE DEF left, right
<1>7. /\ left \o right \in Seq(Nat) /\ Len(left \o right) = n - 1
      /\ \A j \in 1..(n-1) : (left \o right)[j] = (IF j <= i - 1 THEN left[j] ELSE right[j - (i-1)])
  <2>1. /\ left \o right \in Seq(Nat)
        /\ Len(left \o right) = Len(left) + Len(right)
        /\ \A j \in 1..(Len(left) + Len(right)) :
             (left \o right)[j] = IF j <= Len(left) THEN left[j] ELSE right[j - Len(left)]
    BY <1>4, <1>5, ConcatProperties
  <2>2. Len(left) + Len(right) = n - 1
    BY <1>1, <1>3, <1>4, <1>5
  <2> QED
    BY <1>4, <2>1, <2>2
<1>8. \A j \in 1..(n-1) : (left \o right)[j] = (IF j < i THEN s[j] ELSE s[j + 1])
  <2> SUFFICES ASSUME NEW j \in 1..(n-1)
               PROVE  (left \o right)[j] = (IF j < i THEN s[j] ELSE s[j + 1])
    OBVIOUS
  <2>1. CASE j < i
    BY <1>1, <1>3, <1>4, <1>7, <2>1
  <2>2. CASE ~(j < i)
    <3>1. j - (i-1) \in 1..(n-i) /\ i + (j - (i-1)) = j + 1 /\ ~(j <= i - 1)
      BY <1>1, <1>3, <2>2
    <3>2. right[j - (i-1)] = s[j + 1]
      BY <1>5, <3>1
    <3> QED
      BY <1>7, <2>2, <3>1, <3>2
  <2> QED
    BY <2>1, <2>2
<1>9. \A m \in 1..n : m # i => \E j \in 1..(n-1) : (left \o right)[j] = s[m]
  <2> SUFFICES ASSUME NEW m \in 1..n, m # i
               PROVE  \E j \in 1..(n-1) : (left \o right)[j] = s[m]
    OBVIOUS
  <2>1. CASE m < i
    <3>1. m \in 1..(n-1)
      BY <1>1, <1>3, <2>1
    <3> QED
      BY <1>8, <2>1, <3>1
  <2>2. CASE m > i
    <3>1. m - 1 \in 1..(n-1) /\ ~(m - 1 < i) /\ (m - 1) + 1 = m
      BY <1>1, <1>3, <2>2
    <3>2. (left \o right)[m - 1] = s[(m - 1) + 1]
      BY <1>8, <3>1
    <3>3. (left \o right)[m - 1] = s[m]
      BY <3>1, <3>2
    <3> QED
      BY <3>1, <3>3
  <2>3. m \in Int /\ i \in Int
    BY <1>1
  <2>4. m < i \/ m > i
    BY <2>3
  <2> QED
    BY <2>1, <2>2, <2>4
<1>10. DOMAIN (left \o right) = 1..(n-1)
  BY <1>7, LenProperties
<1>11. \A j \in 1..(n-1) : \E m \in 1..n : (left \o right)[j] = s[m]
  <2> TAKE j \in 1..(n-1)
  <2>1. j \in 1..n /\ j + 1 \in 1..n
    BY <1>3
  <2> QED
    BY <1>8, <2>1
<1>12. \A m \in 1..n \ {i} : \E j \in 1..(n-1) : (left \o right)[j] = s[m]
  BY <1>9
<1>13. DOMAIN s = 1..n
  BY <1>1, <1>3
<1> QED
  BY <1>6, <1>7, <1>10, <1>11, <1>12, <1>13

-------------------------------------------------------------------------------
(* The steps *)

\* The table of an installation has one version, and no replica is up.
LEMMA InitConfigInv == RateConfigInit => ConfigInv
<1> SUFFICES ASSUME RateConfigInit PROVE ConfigInv
  OBVIOUS
<1>1. PICK rows \in SeedRows : table = <<rows>>
  BY DEF RateConfigInit
<1>2. table \in Seq(Rows) /\ Latest = 1
  BY <1>1, RateConfigAssumption DEF Rows, Latest
<1>3. \A r \in Replica : Pending(r) = {}
  BY DEF RateConfigInit, Pending
<1>4. Typed
  BY <1>2, RateConfigAssumption DEF RateConfigInit, Typed, Phase, NoPut
<1>5. Numbered
  BY <1>2, <1>3, RateConfigAssumption DEF RateConfigInit, Numbered, NumberedAt, NoPut
<1>6. Grounded
  BY <1>2, <1>3 DEF RateConfigInit, Grounded, GroundedAt
<1>7. Covered
  BY DEF RateConfigInit, Covered
<1> QED
  BY <1>4, <1>5, <1>6, <1>7 DEF ConfigInv

\* A starting replica is to read whatever is there then, which is all there is.
LEMMA StartKeepsConfigInv ==
  ASSUME ConfigInv, NEW r \in Replica, Start(r)
  PROVE  ConfigInv'
<1>1. /\ Pending(r)' = {0} /\ \A s \in Replica \ {r} : Pending(s)' = Pending(s)
      /\ loads' \in [Replica -> Seq(Nat)]
  BY DEF ConfigInv, Typed, Start, Pending
<1>2. Latest' = Latest /\ Announced' = Announced
  BY DEF Start, Latest, Announced
<1>3. Typed'
  BY <1>1, <1>2, RateConfigAssumption DEF ConfigInv, Typed, Start, Phase
<1>4. Numbered'
  BY <1>1, <1>2 DEF ConfigInv, Typed, Numbered, NumberedAt, Start
<1>5. Grounded'
  BY <1>1, <1>2 DEF ConfigInv, Typed, Numbered, NumberedAt, Grounded, GroundedAt, Start
<1>6. Covered'
  BY <1>1, <1>2 DEF ConfigInv, Typed, Covered, Reaches, Start
<1> QED
  BY <1>3, <1>4, <1>5, <1>6 DEF ConfigInv

\* A reload that reads sees every announced version, a message of which may be lost.
LEMMA ReadRowsKeepsConfigInv ==
  ASSUME ConfigInv, NEW r \in Replica, ReadRows(r)
  PROVE  ConfigInv'
<1>1. PICK i \in DOMAIN loads[r] :
        /\ loads[r][i] = 0
        /\ loads' = [loads EXCEPT ![r][i] = Latest]
  BY DEF ReadRows
<1>2. /\ Latest \in Nat /\ loads[r] \in Seq(Nat)
  BY DEF ConfigInv, Typed
<1>3. /\ loads'[r] = [loads[r] EXCEPT ![i] = Latest] /\ loads'[r] \in Seq(Nat)
      /\ \A s \in Replica \ {r} : loads'[s] = loads[s]
      /\ loads' \in [Replica -> Seq(Nat)]
  BY <1>1, <1>2, PendingOfRead DEF ConfigInv, Typed
<1>4. /\ Latest \in Pending(r)' /\ \A v \in Pending(r)' : v = Latest \/ v \in Pending(r)
      /\ \A s \in Replica \ {r} : Pending(s)' = Pending(s)
  BY <1>1, <1>2, <1>3, PendingOfRead DEF Pending
<1>5. Latest' = Latest /\ Announced' = Announced /\ \A a \in Announced : a <= Latest
  BY <1>2 DEF ReadRows, Latest, Announced
<1>6. Typed'
  BY <1>3, <1>5 DEF ConfigInv, Typed, ReadRows
<1>7. Numbered'
  <2>1. ASSUME NEW s \in Replica PROVE NumberedAt(s)'
    <3>1. CASE s = r
      BY <1>2, <1>4, <1>5, <3>1 DEF ConfigInv, Numbered, NumberedAt, ReadRows
    <3>2. CASE s # r
      BY <1>4, <1>5, <3>2 DEF ConfigInv, Numbered, NumberedAt, ReadRows
    <3> QED
      BY <3>1, <3>2
  <2> QED
    BY <1>5, <2>1 DEF ConfigInv, Numbered, ReadRows
<1>8. Grounded'
  <2>1. ASSUME NEW s \in Replica PROVE GroundedAt(s)'
    <3>1. CASE s = r
      <4>1. phase[r] # "down"
        <5>1. Pending(r) # {}
          BY <1>1 DEF Pending
        <5> QED
          BY <5>1 DEF ConfigInv, Grounded, GroundedAt
      <4>2. since[r] <= Latest
        BY DEF ConfigInv, Numbered, NumberedAt
      <4> QED
        BY <1>4, <3>1, <4>1, <4>2 DEF ConfigInv, Grounded, GroundedAt, ReadRows
    <3>2. CASE s # r
      BY <1>4, <3>2 DEF ConfigInv, Grounded, GroundedAt, ReadRows
    <3> QED
      BY <3>1, <3>2
  <2> QED
    BY <2>1 DEF Grounded
<1>9. Covered'
  <2> SUFFICES ASSUME NEW s \in Replica, phase[s] # "down", s \notin uninformed',
                      NEW a \in Announced
               PROVE  Reaches(s, a)'
    BY <1>5 DEF Covered, ReadRows
  <2>1. CASE s = r
    BY <1>2, <1>4, <1>5, <2>1 DEF Reaches, Announced
  <2>2. CASE s # r
    BY <1>4, <2>2 DEF ConfigInv, Covered, Reaches, ReadRows
  <2> QED
    BY <2>1, <2>2
<1> QED
  BY <1>6, <1>7, <1>8, <1>9 DEF ConfigInv

\* Rows that arrive replace whatever was shown, and what they cover counts as shown.
LEMMA LoadedKeepsConfigInv ==
  ASSUME ConfigInv, NEW r \in Replica, Loaded(r)
  PROVE  ConfigInv'
<1>1. PICK i \in DOMAIN loads[r] :
        /\ loads[r][i] # 0
        /\ shown' = [shown EXCEPT ![r] = loads[r][i]]
        /\ newest' = [newest EXCEPT ![r] = IF @ < loads[r][i] THEN loads[r][i] ELSE @]
        /\ loads' = [loads EXCEPT ![r] = RemoveAt(@, i)]
        /\ phase' = [phase EXCEPT ![r] = IF @ = "loading" THEN "subscribing" ELSE @]
  BY DEF Loaded
<1> DEFINE v == loads[r][i]
<1>2. /\ loads[r] \in Seq(Nat) /\ Latest \in Nat
      /\ shown[r] \in Nat /\ newest[r] \in Nat /\ since[r] \in Nat
  BY DEF ConfigInv, Typed
<1>3. v \in Nat /\ v # 0 /\ v \in Pending(r)
  BY <1>1, <1>2, ElementOfSeq, LenProperties DEF Pending
<1>4. /\ loads'[r] = RemoveAt(loads[r], i)
      /\ \A s \in Replica \ {r} : loads'[s] = loads[s]
      /\ loads' \in [Replica -> Seq(Nat)]
  BY <1>1, <1>2, PendingOfRest DEF ConfigInv, Typed
<1>5. /\ \A w \in Pending(r)' : w \in Pending(r)
      /\ \A w \in Pending(r) : w = v \/ w \in Pending(r)'
      /\ \A s \in Replica \ {r} : Pending(s)' = Pending(s)
  <2>1. /\ \A j \in DOMAIN loads'[r] : \E m \in DOMAIN loads[r] : loads'[r][j] = loads[r][m]
        /\ \A m \in DOMAIN loads[r] \ {i} : \E j \in DOMAIN loads'[r] : loads'[r][j] = loads[r][m]
    BY <1>2, <1>4, PendingOfRest
  <2>2. \A w \in Pending(r)' : w \in Pending(r)
    BY <2>1 DEF Pending
  <2>3. \A w \in Pending(r) : w = v \/ w \in Pending(r)'
    <3> SUFFICES ASSUME NEW m \in DOMAIN loads[r], m # i
                 PROVE  loads[r][m] \in Pending(r)'
      BY DEF Pending
    <3> QED
      BY <2>1 DEF Pending
  <2>4. \A s \in Replica \ {r} : Pending(s)' = Pending(s)
    BY <1>4 DEF Pending
  <2> QED
    BY <2>2, <2>3, <2>4
<1>6. Latest' = Latest /\ Announced' = Announced
  BY DEF Loaded, Latest, Announced
<1>7. /\ shown'[r] = v /\ newest'[r] = IF newest[r] < v THEN v ELSE newest[r]
      /\ \A s \in Replica \ {r} : shown'[s] = shown[s] /\ newest'[s] = newest[s] /\ phase'[s] = phase[s]
      /\ phase'[r] = IF phase[r] = "loading" THEN "subscribing" ELSE phase[r]
  BY <1>1 DEF ConfigInv, Typed
<1>8. v <= Latest /\ since[r] <= v /\ phase[r] # "down"
  BY <1>3 DEF ConfigInv, Numbered, NumberedAt, Grounded, GroundedAt
<1>9. newest'[r] \in Nat /\ v <= newest'[r] /\ newest[r] <= newest'[r]
  BY <1>2, <1>3, <1>7
<1>10. Typed'
  BY <1>1, <1>3, <1>4, <1>6, <1>2 DEF ConfigInv, Typed, Phase, Loaded
<1> HIDE DEF v
<1>11. Numbered'
  <2>1. ASSUME NEW s \in Replica PROVE NumberedAt(s)'
    <3>1. CASE s = r
      BY <1>5, <1>6, <1>7, <1>8, <3>1 DEF ConfigInv, Numbered, NumberedAt, Loaded
    <3>2. CASE s # r
      BY <1>5, <1>6, <1>7, <3>2 DEF ConfigInv, Numbered, NumberedAt, Loaded
    <3> QED
      BY <3>1, <3>2
  <2> QED
    BY <1>6, <2>1 DEF ConfigInv, Numbered, Loaded
<1>12. Grounded'
  <2>1. ASSUME NEW s \in Replica PROVE GroundedAt(s)'
    <3>1. CASE s = r
      BY <1>3, <1>5, <1>7, <1>8, <1>9, <3>1 DEF ConfigInv, Grounded, GroundedAt, Loaded
    <3>2. CASE s # r
      BY <1>5, <1>7, <3>2 DEF ConfigInv, Grounded, GroundedAt, Loaded
    <3> QED
      BY <3>1, <3>2
  <2> QED
    BY <2>1 DEF Grounded
<1>13. Covered'
  <2> SUFFICES ASSUME NEW s \in Replica, phase'[s] # "down", s \notin uninformed,
                      NEW a \in Announced
               PROVE  Reaches(s, a)'
    BY <1>6 DEF Covered, Loaded
  <2>1. CASE s = r
    <3>1. a \in Nat
      BY <1>2 DEF Announced
    <3>2. phase[r] # "down"
      BY <1>7, <2>1
    <3>3. Reaches(r, a)
      BY <2>1, <3>2 DEF ConfigInv, Covered, Loaded
    <3>4. CASE \E w \in Pending(r) : w = 0 \/ w >= a
      <4>1. PICK w \in Pending(r) : w = 0 \/ w >= a
        BY <3>4
      <4>2. CASE w = v
        BY <1>3, <1>9, <2>1, <3>1, <4>1, <4>2 DEF Reaches
      <4>3. CASE w # v
        BY <1>5, <2>1, <4>1, <4>3 DEF Reaches
      <4> QED
        BY <4>2, <4>3
    <3>5. CASE newest[r] >= a
      BY <1>2, <1>9, <2>1, <3>1, <3>5 DEF Reaches
    <3>6. CASE \E w \in inbox[r] : w >= a
      BY <2>1, <3>6 DEF Reaches, Loaded
    <3> QED
      BY <3>3, <3>4, <3>5, <3>6 DEF Reaches
  <2>2. CASE s # r
    BY <1>5, <1>7, <2>2 DEF ConfigInv, Covered, Reaches, Loaded
  <2> QED
    BY <2>1, <2>2
<1> QED
  BY <1>10, <1>11, <1>12, <1>13 DEF ConfigInv

\* subscribe is acknowledged, or SIGTERM comes: nothing that is shown or read changes.
LEMMA PhaseKeepsConfigInv ==
  ASSUME ConfigInv, NEW r \in Replica, Subscribed(r) \/ Drain(r)
  PROVE  ConfigInv'
<1>1. /\ UNCHANGED <<table, shown, loads, inbox, put, since, uninformed, newest, starts>>
      /\ \/ phase[r] = "subscribing" /\ phase' = [phase EXCEPT ![r] = "serving"]
         \/ phase[r] = "serving" /\ phase' = [phase EXCEPT ![r] = "draining"]
  BY DEF Subscribed, Drain
<1>2. /\ Latest' = Latest /\ Announced' = Announced
      /\ \A s \in Replica : Pending(s)' = Pending(s)
  BY <1>1 DEF Latest, Announced, Pending
<1>3. /\ phase' \in [Replica -> Phase]
      /\ \A s \in Replica : /\ phase'[s] = "down" <=> phase[s] = "down"
                            /\ phase'[s] = "loading" <=> phase[s] = "loading"
  BY <1>1 DEF ConfigInv, Typed, Phase
<1>4. Typed' /\ Numbered'
  BY <1>1, <1>2, <1>3 DEF ConfigInv, Typed, Numbered, NumberedAt
<1>5. Grounded' /\ Covered'
  BY <1>1, <1>2, <1>3 DEF ConfigInv, Grounded, GroundedAt, Covered, Reaches
<1> QED
  BY <1>4, <1>5 DEF ConfigInv

\* A message becomes a reload of its own that has read nothing.
LEMMA MessageKeepsConfigInv ==
  ASSUME ConfigInv, NEW r \in Replica, Message(r)
  PROVE  ConfigInv'
<1>1. PICK m \in inbox[r] : inbox' = [inbox EXCEPT ![r] = @ \ {m}]
  BY DEF Message
<1>2. loads[r] \in Seq(Nat) /\ loads' = [loads EXCEPT ![r] = Append(@, 0)]
  BY DEF ConfigInv, Typed, Message
<1>3. /\ loads'[r] = Append(loads[r], 0) /\ loads' \in [Replica -> Seq(Nat)]
      /\ \A s \in Replica \ {r} : loads'[s] = loads[s]
  BY <1>2, AppendProperties DEF ConfigInv, Typed
<1>4. /\ Latest' = Latest /\ Announced' = Announced
      /\ \A s \in Replica \ {r} : Pending(s)' = Pending(s)
  BY <1>3 DEF Message, Latest, Announced, Pending
<1>5. 0 \in Pending(r)' /\ \A v \in Pending(r)' : v = 0 \/ v \in Pending(r)
  <2>1. DOMAIN loads'[r] = 1..(Len(loads[r]) + 1) /\ DOMAIN loads[r] = 1..Len(loads[r])
    BY <1>2, <1>3, AppendProperties, LenProperties
  <2>2. /\ Len(loads[r]) \in Nat /\ loads'[r][Len(loads[r]) + 1] = 0
        /\ \A i \in 1..Len(loads[r]) : loads'[r][i] = loads[r][i]
    BY <1>2, <1>3, AppendProperties, LenProperties
  <2> QED
    BY <2>1, <2>2 DEF Pending
<1>6. Typed'
  BY <1>1, <1>3, <1>4 DEF ConfigInv, Typed, Message
<1>7. Numbered'
  BY <1>1, <1>4, <1>5 DEF ConfigInv, Typed, Numbered, NumberedAt, Message
<1>8. Grounded'
  <2>1. phase[r] # "down"
    BY DEF Message, Serving
  <2> QED
    BY <1>4, <1>5, <2>1 DEF ConfigInv, Grounded, GroundedAt, Message
<1>9. Covered'
  BY <1>1, <1>4, <1>5 DEF ConfigInv, Typed, Covered, Reaches, Message
<1> QED
  BY <1>6, <1>7, <1>8, <1>9 DEF ConfigInv

\* A replica that loses its messages counts as uninformed.
LEMMA ConnectionLostKeepsConfigInv ==
  ASSUME ConfigInv, NEW r \in Replica, ConnectionLost(r)
  PROVE  ConfigInv'
<1>1. /\ Latest' = Latest /\ Announced' = Announced
      /\ \A s \in Replica : Pending(s)' = Pending(s)
  BY DEF ConnectionLost, Latest, Announced, Pending
<1>2. Typed' /\ Numbered'
  BY <1>1 DEF ConfigInv, Typed, Numbered, NumberedAt, ConnectionLost
<1>3. Grounded'
  BY <1>1 DEF ConfigInv, Grounded, GroundedAt, ConnectionLost
<1>4. Covered'
  <2> SUFFICES ASSUME NEW s \in Replica, phase[s] # "down", s \notin uninformed, s # r, NEW a \in Announced
               PROVE  Reaches(s, a)'
    BY <1>1 DEF Covered, ConnectionLost
  <2>1. inbox'[s] = inbox[s]
    BY DEF ConfigInv, Typed, ConnectionLost
  <2> QED
    BY <1>1, <2>1 DEF ConfigInv, Covered, Reaches, ConnectionLost
<1> QED
  BY <1>2, <1>3, <1>4 DEF ConfigInv

\* A replica ends; a PUT that ends with it leaves the others uninformed.
LEMMA GoneKeepsConfigInv ==
  ASSUME ConfigInv, NEW r \in Replica, Gone(r)
  PROVE  ConfigInv'
<1>1. /\ Latest' = Latest /\ Latest \in Nat
      /\ Pending(r)' = {} /\ \A s \in Replica \ {r} : Pending(s)' = Pending(s)
      /\ loads' \in [Replica -> Seq(Nat)]
  BY DEF ConfigInv, Typed, Gone, Latest, Pending
<1>2. /\ put' \in [Request -> [replica : Replica \cup {NoReplica}, version : Nat]]
      /\ \A q \in Request : put'[q] = NoPut \/ put'[q] = put[q]
      /\ NoPut.version = 0
  BY DEF ConfigInv, Typed, Gone, NoPut
<1>3. Typed'
  BY <1>1, <1>2 DEF ConfigInv, Typed, Gone, Phase
<1>4. Numbered'
  BY <1>1, <1>2 DEF ConfigInv, Typed, Numbered, NumberedAt, Gone
<1>5. Grounded'
  BY <1>1 DEF ConfigInv, Typed, Grounded, GroundedAt, Gone
<1>6. Covered'
  <2>1. CASE put' = put
    <3>1. Announced' = Announced
      BY <1>1, <2>1 DEF Announced
    <3> QED
      BY <1>1, <2>1, <3>1 DEF ConfigInv, Typed, Covered, Reaches, Gone
  <2>2. CASE put' # put
    BY <2>2 DEF ConfigInv, Typed, Covered, Gone
  <2> QED
    BY <2>1, <2>2
<1> QED
  BY <1>3, <1>4, <1>5, <1>6 DEF ConfigInv

\* A committed change is announced by nobody yet, or, when its request failed, not at all.
LEMMA UpdateKeepsConfigInv ==
  ASSUME ConfigInv, NEW q \in Request, NEW r \in Replica, Update(q, r)
  PROVE  ConfigInv'
<1>1. /\ table \in Seq(Rows) /\ Latest \in Nat \ {0} /\ Latest = Len(table)
      /\ Latest < MaxVersions
  BY DEF ConfigInv, Typed, Latest, Update
<1>2. Last(table) \in Rows
  BY <1>1, ElementOfSeq DEF Last
<1>3. PICK key \in DOMAIN Last(table), l \in Limit :
        table' = Append(table, [Last(table) EXCEPT ![key] = l])
  BY DEF Update
<1>4. [Last(table) EXCEPT ![key] = l] \in Rows
  BY <1>2 DEF Rows
<1>5. table' \in Seq(Rows) /\ Latest' = Latest + 1
  BY <1>1, <1>3, <1>4, AppendProperties DEF Latest
<1>6. \A s \in Replica : Pending(s)' = Pending(s)
  BY DEF Update, Pending
<1>7. \/ put' = [put EXCEPT ![q] = [replica |-> r, version |-> Latest + 1]] /\ uninformed' = uninformed
      \/ uninformed' = Replica /\ put' = put
  BY DEF Update
<1>8. Typed'
  <2>1. put' \in [Request -> [replica : Replica \cup {NoReplica}, version : Nat]]
    <3>1. Latest + 1 \in Nat /\ put \in [Request -> [replica : Replica \cup {NoReplica}, version : Nat]]
      BY <1>1 DEF ConfigInv, Typed
    <3>2. CASE put' = put
      BY <3>1, <3>2
    <3>3. CASE put' = [put EXCEPT ![q] = [replica |-> r, version |-> Latest + 1]]
      BY <3>1, <3>3
    <3> QED
      BY <1>7, <3>2, <3>3
  <2>2. uninformed' \subseteq Replica /\ Latest' \in Nat \ {0}
    BY <1>1, <1>5, <1>7 DEF ConfigInv, Typed
  <2> QED
    BY <1>5, <2>1, <2>2 DEF ConfigInv, Typed, Update
<1>9. Numbered'
  <2>1. \A s \in Replica : NumberedAt(s)'
    <3> TAKE s \in Replica
    <3>1. /\ shown[s] \in Nat /\ newest[s] \in Nat /\ since[s] \in Nat
          /\ inbox[s] \subseteq Nat /\ NumberedAt(s)
      BY DEF ConfigInv, Typed, Numbered
    <3>2. \A v \in Pending(s) : v \in Nat
      BY ElementOfSeq, LenProperties DEF ConfigInv, Typed, Pending
    <3>3. \A v \in Nat : v <= Latest => v <= Latest'
      BY <1>1, <1>5
    <3> QED
      BY <1>6, <3>1, <3>2, <3>3 DEF NumberedAt, Update
  <2>2. \A p \in Request : put'[p].version <= Latest' /\ (put'[p] # NoPut => 1 <= put'[p].version)
    BY <1>1, <1>5, <1>7 DEF ConfigInv, Typed, Numbered
  <2>3. Latest' <= MaxVersions
    BY <1>1, <1>5, RateConfigAssumption
  <2> QED
    BY <2>1, <2>2, <2>3 DEF Numbered
<1>10. Grounded'
  BY <1>6 DEF ConfigInv, Grounded, GroundedAt, Update
<1>11. Covered'
  <2>1. CASE uninformed' = Replica
    BY <2>1 DEF Covered
  <2>2. CASE put' = [put EXCEPT ![q] = [replica |-> r, version |-> Latest + 1]] /\ uninformed' = uninformed
    <3>1. put[q].version = 0 /\ put'[q].version = Latest'
      BY <1>5, <2>2 DEF ConfigInv, Typed, Update, NoPut
    <3>2. Announced' \subseteq Announced
      <4> SUFFICES ASSUME NEW a \in Announced' PROVE a \in Announced
        OBVIOUS
      <4>1. a \in 1..Latest' /\ \A p \in Request : put'[p].version # a
        BY DEF Announced
      <4>2. a # Latest' /\ a \in 1..Latest
        BY <1>1, <1>5, <3>1, <4>1
      <4>3. \A p \in Request : put[p].version # a
        BY <2>2, <3>1, <4>1, <4>2 DEF ConfigInv, Typed
      <4> QED
        BY <4>2, <4>3 DEF Announced
    <3> QED
      BY <1>6, <2>2, <3>2 DEF ConfigInv, Covered, Reaches, Update
  <2> QED
    BY <1>7, <2>1, <2>2
<1> QED
  BY <1>8, <1>9, <1>10, <1>11 DEF ConfigInv

\* The announced version is on its way to those the message reaches, and the others are
\* uninformed.
LEMMA PublishKeepsConfigInv ==
  ASSUME ConfigInv, NEW q \in Request, Publish(q)
  PROVE  ConfigInv'
<1>1. PICK reached \in SUBSET Replica :
        /\ inbox' = [s \in Replica |-> IF s \in reached THEN inbox[s] \cup {put[q].version} ELSE inbox[s]]
        /\ uninformed' = uninformed \cup (Replica \ reached)
  BY DEF Publish
<1>2. /\ put[q].version \in Nat /\ put[q].version <= Latest /\ 1 <= put[q].version
      /\ put' = [put EXCEPT ![q] = NoPut]
  BY DEF ConfigInv, Typed, Numbered, Publish
<1>3. Latest' = Latest /\ \A s \in Replica : Pending(s)' = Pending(s)
  BY DEF Publish, Latest, Pending
<1>4. Typed'
  BY <1>1, <1>2, <1>3 DEF ConfigInv, Typed, Publish, NoPut
<1>5. Grounded'
  BY <1>3 DEF ConfigInv, Grounded, GroundedAt, Publish
<1>6. Numbered'
  <2>1. \A s \in Replica : NumberedAt(s)'
    BY <1>1, <1>2, <1>3 DEF ConfigInv, Typed, Numbered, NumberedAt, Publish
  <2>2. \A p \in Request : put'[p].version <= Latest' /\ (put'[p] # NoPut => 1 <= put'[p].version)
    BY <1>2, <1>3 DEF ConfigInv, Typed, Numbered, NoPut
  <2> QED
    BY <1>3, <2>1, <2>2 DEF ConfigInv, Numbered
<1>7. Covered'
  <2> SUFFICES ASSUME NEW s \in Replica, phase[s] # "down", s \notin uninformed', NEW a \in Announced'
               PROVE  Reaches(s, a)'
    BY DEF Covered, Publish
  <2>1. s \notin uninformed /\ s \in reached
    BY <1>1
  <2>2. a \in 1..Latest /\ (a \in Announced \/ a = put[q].version)
    BY <1>2, <1>3 DEF Announced, ConfigInv, Typed
  <2>3. CASE a = put[q].version
    BY <1>1, <1>2, <2>1, <2>3 DEF Reaches
  <2>4. CASE a \in Announced
    BY <1>1, <1>3, <2>1, <2>4 DEF ConfigInv, Covered, Reaches, Publish
  <2> QED
    BY <2>2, <2>3, <2>4
<1> QED
  BY <1>4, <1>5, <1>6, <1>7 DEF ConfigInv

LEMMA StepKeepsConfigInv == ConfigInv /\ [RateConfigNext]_vars => ConfigInv'
<1> SUFFICES ASSUME ConfigInv, [RateConfigNext]_vars PROVE ConfigInv'
  OBVIOUS
<1>1. CASE UNCHANGED vars
  <2>1. /\ Latest' = Latest /\ Announced' = Announced
        /\ \A s \in Replica : Pending(s)' = Pending(s)
    BY <1>1 DEF vars, Latest, Announced, Pending
  <2>2. Typed' /\ Numbered'
    BY <1>1, <2>1 DEF vars, ConfigInv, Typed, Numbered, NumberedAt
  <2>3. Grounded' /\ Covered'
    BY <1>1, <2>1 DEF vars, ConfigInv, Grounded, GroundedAt, Covered, Reaches
  <2> QED
    BY <2>2, <2>3 DEF ConfigInv
<1>2. ASSUME NEW r \in Replica,
             Start(r) \/ Proceed(r) \/ ConnectionLost(r) \/ Crash(r) \/ Drain(r) \/ Stop(r)
      PROVE  ConfigInv'
  BY <1>2, StartKeepsConfigInv, ReadRowsKeepsConfigInv, LoadedKeepsConfigInv, PhaseKeepsConfigInv,
     MessageKeepsConfigInv, ConnectionLostKeepsConfigInv, GoneKeepsConfigInv DEF Proceed, Crash, Stop
<1> QED
  BY <1>1, <1>2, UpdateKeepsConfigInv, PublishKeepsConfigInv DEF RateConfigNext

LEMMA ConfigInvHolds == RateConfigSpec => []ConfigInv
  BY InitConfigInv, StepKeepsConfigInv, PTL DEF RateConfigSpec

-------------------------------------------------------------------------------
(* The theorems *)

\* The first of lookup's four candidates that index has is the most specific row that
\* applies (lookup, config-store.ts:124-148).
LEMMA LookupIsMostSpecific ==
  ASSUME NEW index, DOMAIN index \subseteq RowKey,
         NEW n \in Tenant, NEW s \in {"tenant", "user_tool"}, NEW t, NEW k
  PROVE  IsMostSpecific(Lookup(index, n, s, t, k), index, n, s, t, k)
<1> DEFINE candidates == Candidates(n, s, t, k)
           found == {i \in 1..4 : candidates[i] \in DOMAIN index}
           best == CHOOSE i \in found : \A j \in found : i <= j
           applying == Applying(index, n, s, t, k)
<1>1. /\ candidates[1] = Key(n, s, t, k) /\ candidates[2] = Key(n, s, t, "default")
      /\ candidates[3] = Key(n, s, "*", k) /\ candidates[4] = Key(n, s, "*", "default")
  BY DEF Candidates
<1>2. \A c \in applying : c = Key(c.tenant, c.scope, c.tool, c.tier)
  BY RateConfigAssumption DEF Applying, Key
<1>3. \A c \in applying : \E i \in found : c = candidates[i]
  <2> TAKE c \in applying
  <2>1. c = Key(n, s, c.tool, c.tier) /\ c.tool \in {t, "*"} /\ c.tier \in {k, "default"} /\ c \in DOMAIN index
    BY <1>2 DEF Applying
  <2>2. c = candidates[1] \/ c = candidates[2] \/ c = candidates[3] \/ c = candidates[4]
    BY <1>1, <2>1
  <2> QED
    BY <2>1, <2>2
<1>4. \A i \in found : candidates[i] \in applying
  BY <1>1 DEF Applying, Key
<1>5. Lookup(index, n, s, t, k) =
        IF found = {} THEN [limit |-> Fallback[s], tier |-> "fallback"]
        ELSE [limit |-> index[candidates[best]], tier |-> candidates[best].tier]
  BY DEF Lookup
<1>6. CASE found = {}
  BY <1>3, <1>5, <1>6 DEF IsMostSpecific
<1>7. CASE found # {}
  <2>1. \E i \in found : \A j \in found : i <= j
    <3>1. CASE 1 \in found
      BY <3>1
    <3>2. CASE 1 \notin found /\ 2 \in found
      BY <3>2
    <3>3. CASE 1 \notin found /\ 2 \notin found /\ 3 \in found
      BY <3>3
    <3>4. CASE found = {4}
      BY <3>4
    <3> QED
      BY <1>7, <3>1, <3>2, <3>3, <3>4
  <2>2. best \in found /\ \A j \in found : best <= j
    BY <2>1
  <2> HIDE DEF best
  <2>3. candidates[best] \in applying
    BY <1>4, <2>2
  <2>4. \A d \in applying \ {candidates[best]} :
          \/ candidates[best].tool = t /\ d.tool # t
          \/ candidates[best].tool = d.tool /\ candidates[best].tier = k
    <3> SUFFICES ASSUME NEW j \in found, candidates[j] # candidates[best]
                 PROVE  \/ candidates[best].tool = t /\ candidates[j].tool # t
                        \/ candidates[best].tool = candidates[j].tool /\ candidates[best].tier = k
      BY <1>3
    <3>1. best \in {1, 2, 3, 4} /\ j \in {1, 2, 3, 4} /\ best <= j
      BY <2>2
    <3>2. \/ best = 1 /\ j \in {2, 3, 4}
          \/ best = 2 /\ j \in {3, 4}
          \/ best = 3 /\ j = 4
      BY <3>1
    <3>3. CASE best = 1
      <4>1. candidates[best].tool = t /\ candidates[best].tier = k
        BY <1>1, <3>3 DEF Key
      <4>2. candidates[j].tool \in {t, "*"}
        BY <1>1, <3>1 DEF Key
      <4> QED
        BY <4>1, <4>2
    <3>4. CASE best = 2
      <4>1. candidates[best].tool = t /\ j \in {3, 4} /\ candidates[j].tool = "*"
        BY <1>1, <3>2, <3>4 DEF Key
      <4>2. CASE t = "*"
        <5>1. candidates[1] = candidates[3] /\ candidates[2] = candidates[4]
          BY <1>1, <4>2
        <5>2. j = 3 /\ 1 \in found
          BY <3>4, <4>1, <5>1
        <5>3. best <= 1
          BY <2>2, <5>2
        <5> QED
          BY <3>4, <5>3
      <4> QED
        BY <4>1, <4>2
    <3>5. CASE best = 3
      BY <1>1, <3>2, <3>5 DEF Key
    <3>6. best = 1 \/ best = 2 \/ best = 3
      BY <3>2
    <3> QED
      BY <3>3, <3>4, <3>5, <3>6
  <2> QED
    BY <1>5, <1>7, <2>3, <2>4, <1>3 DEF IsMostSpecific
<1> QED
  BY <1>6, <1>7

\* The state of the table, its copies and the messages between them is well formed.
THEOREM RateConfigIsTyped == RateConfigSpec => []TypeOK
<1>1. ConfigInv => TypeOK
  <2> SUFFICES ASSUME ConfigInv PROVE TypeOK
    OBVIOUS
  <2>1. /\ Latest \in 1..MaxVersions /\ table \in Seq(Rows)
        /\ phase \in [Replica -> Phase]
        /\ uninformed \subseteq Replica /\ starts \in 0..MaxStarts
    BY RateConfigAssumption DEF ConfigInv, Typed, Numbered
  <2>2. /\ shown \in [Replica -> 0..Latest] /\ since \in [Replica -> 1..Latest]
        /\ newest \in [Replica -> 0..Latest] /\ inbox \in [Replica -> SUBSET (1..Latest)]
    BY <2>1 DEF ConfigInv, Typed, Numbered, NumberedAt
  <2>3. loads \in [Replica -> Seq(0..Latest)]
    <3>1. ASSUME NEW r \in Replica PROVE loads[r] \in Seq(0..Latest)
      <4>1. loads[r] \in Seq(Nat)
        BY DEF ConfigInv, Typed
      <4>2. \A i \in 1..Len(loads[r]) : loads[r][i] \in 0..Latest
        <5> TAKE i \in 1..Len(loads[r])
        <5>1. loads[r][i] \in Nat /\ loads[r][i] \in Pending(r)
          BY <4>1, ElementOfSeq, LenProperties DEF Pending
        <5> QED
          BY <2>1, <5>1 DEF ConfigInv, Numbered, NumberedAt
      <4>3. loads[r] = [i \in 1..Len(loads[r]) |-> loads[r][i]] /\ Len(loads[r]) \in Nat
        BY <4>1, LenProperties
      <4>4. [i \in 1..Len(loads[r]) |-> loads[r][i]] \in Seq(0..Latest)
        BY <4>2, <4>3
      <4> QED
        BY <4>3, <4>4
    <3> QED
      BY <3>1 DEF ConfigInv, Typed
  <2>4. put \in [Request -> [replica : Replica \cup {NoReplica}, version : 0..Latest]]
    BY <2>1 DEF ConfigInv, Typed, Numbered
  <2> QED
    BY <2>1, <2>2, <2>3, <2>4 DEF TypeOK, Rows, Phase
<1> QED
  BY <1>1, ConfigInvHolds, PTL

\* A replica nothing is on its way to resolves every call from the most specific row of a
\* version no announcement is newer than, whatever was lost, late or overtaken before
\* (config-store.ts:76-98, 124-148).
THEOREM SettledReplicasAreCurrent == RateConfigSpec => []SettledIsCurrent
<1>1. ConfigInv => SettledIsCurrent
  <2> SUFFICES ASSUME ConfigInv, NEW r \in Replica, Settled(r)
               PROVE  \E v \in 1..Latest :
                        /\ \A a \in Announced : v >= a
                        /\ \A n \in Tenant, t \in {"*", "q"}, k \in Tiers :
                             /\ IsMostSpecific(Resolve(Index(r), n, t, k).tenant, table[v], n, "tenant", "*", k)
                             /\ IsMostSpecific(Resolve(Index(r), n, t, k).userTool, table[v], n, "user_tool", t, k)
    BY DEF SettledIsCurrent
  <2>1. shown[r] \in 1..Latest /\ shown[r] = newest[r] /\ phase[r] # "down"
    BY DEF Settled, Serving, ConfigInv, Typed, Numbered, NumberedAt, Grounded, GroundedAt
  <2>2. Pending(r) = {} /\ inbox[r] = {}
    BY DEF Settled, Pending
  <2>3. \A a \in Announced : shown[r] >= a
    BY <2>1, <2>2 DEF Settled, ConfigInv, Covered, Reaches
  <2>4. Index(r) = table[shown[r]] /\ DOMAIN table[shown[r]] \subseteq RowKey
    <3>1. table[shown[r]] \in Rows
      BY <2>1, ElementOfSeq DEF ConfigInv, Typed, Latest
    <3> QED
      BY <2>1, <3>1 DEF Index, Rows
  <2>5. ASSUME NEW n \in Tenant, NEW t \in {"*", "q"}, NEW k \in Tiers
        PROVE  /\ IsMostSpecific(Resolve(Index(r), n, t, k).tenant, table[shown[r]], n, "tenant", "*", k)
               /\ IsMostSpecific(Resolve(Index(r), n, t, k).userTool, table[shown[r]], n, "user_tool", t, k)
    <3>1. IsMostSpecific(Lookup(table[shown[r]], n, "tenant", "*", k), table[shown[r]], n, "tenant", "*", k)
      BY <2>4, LookupIsMostSpecific
    <3>2. IsMostSpecific(Lookup(table[shown[r]], n, "user_tool", t, k), table[shown[r]], n, "user_tool", t, k)
      BY <2>4, LookupIsMostSpecific
    <3> QED
      BY <2>4, <3>1, <3>2 DEF Resolve
  <2> QED
    BY <2>1, <2>3, <2>5
<1> QED
  BY <1>1, ConfigInvHolds, PTL

\* What a replica shows changes as LimitHistory allows: to a whole committed version, none
\* from before it started (reload, config-store.ts:90-98).
THEOREM RateConfigImplementsLimitHistory == RateConfigSpec => ImplementsLimitHistory
<1>1. RateConfigInit => Versions!HistoryInit
  BY DEF RateConfigInit, Versions!HistoryInit, Latest
<1>2. ASSUME ConfigInv, [RateConfigNext]_vars PROVE [Versions!HistoryNext]_<<Latest, shown, since>>
  <2>1. CASE UNCHANGED vars
    BY <2>1 DEF vars, Latest
  <2>2. ASSUME NEW r \in Replica, Start(r) PROVE Versions!Start(r)
    <3>1. shown[r] = 0
      BY <2>2, <1>2 DEF Start, ConfigInv, Grounded, GroundedAt
    <3> QED
      BY <2>2, <3>1 DEF Start, Versions!Start, Latest
  <2>3. ASSUME NEW r \in Replica, Loaded(r) PROVE Versions!Show(r)
    <3>1. PICK i \in DOMAIN loads[r] : loads[r][i] # 0 /\ shown' = [shown EXCEPT ![r] = loads[r][i]]
      BY <2>3 DEF Loaded
    <3>2. loads[r][i] \in Pending(r)
      BY DEF Pending
    <3>3. loads[r][i] \in Nat
      <4>1. loads[r] \in Seq(Nat)
        BY <1>2 DEF ConfigInv, Typed
      <4> QED
        BY <4>1, ElementOfSeq, LenProperties
    <3>4. since[r] \in Nat /\ Latest \in Nat /\ since[r] <= loads[r][i] /\ loads[r][i] <= Latest
      BY <1>2, <3>1, <3>2 DEF ConfigInv, Typed, Numbered, NumberedAt, Grounded, GroundedAt
    <3>5. loads[r][i] \in since[r]..Latest
      BY <3>3, <3>4
    <3> QED
      BY <2>3, <3>1, <3>5 DEF Loaded, Versions!Show, Latest
  <2>4. ASSUME NEW r \in Replica, Gone(r) PROVE Versions!End(r)
    BY <2>4 DEF Gone, Versions!End, Latest
  <2>5. ASSUME NEW q \in Request, NEW r \in Replica, Update(q, r) PROVE Versions!Commit
    <3>1. PICK rows : table' = Append(table, rows)
      BY <2>5 DEF Update
    <3>2. Latest' = Latest + 1
      BY <1>2, <3>1 DEF ConfigInv, Typed, Latest
    <3> QED
      BY <2>5, <3>2 DEF Update, Versions!Commit
  <2>6. ASSUME NEW r \in Replica,
               ReadRows(r) \/ Subscribed(r) \/ Message(r) \/ ConnectionLost(r) \/ Drain(r)
        PROVE  UNCHANGED <<Latest, shown, since>>
    BY <2>6 DEF ReadRows, Subscribed, Message, ConnectionLost, Drain, Latest
  <2>7. ASSUME NEW q \in Request, Publish(q) PROVE UNCHANGED <<Latest, shown, since>>
    BY <2>7 DEF Publish, Latest
  <2> QED
    BY <1>2, <2>1, <2>2, <2>3, <2>4, <2>5, <2>6, <2>7
       DEF RateConfigNext, Proceed, Crash, Stop, Versions!HistoryNext
<1>3. QED
  BY <1>1, <1>2, ConfigInvHolds, PTL
     DEF RateConfigSpec, ImplementsLimitHistory, Versions!HistorySpec, Versions!vars
===============================================================================
