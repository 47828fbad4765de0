--------------------------- MODULE ToolPipelineProofs ---------------------------
(***************************************************************************)
(* What the connection pool keeps, and then what the gateway's pipeline    *)
(* keeps, for any number of calls, servers, connections and live views.    *)
(* PoolInv strengthens the pool's checked invariants with what the code    *)
(* relies on between two awaits: where a held connection is counted, and   *)
(* that a call in use has its credential in its entry.  The pipeline uses  *)
(* its lemmas step by step; PipelineInv adds which token a call holds a    *)
(* connection with, what was decided about a call whose tool call left,    *)
(* and how far its audit row has got.  StreamInv adds what the stream has  *)
(* told of it, and what each live view was sent.                           *)
(***************************************************************************)
EXTENDS ToolPipeline, FiniteSetTheorems, SequenceTheorems, WellFoundedInduction, TLAPS

-------------------------------------------------------------------------------
(* The connection pool *)

Await == {"out", "build", "connect", "held", "use", "wait"}

Typed ==
  /\ idle \in [Url -> SUBSET Conn]
  /\ open \subseteq Conn /\ broken \subseteq Conn
  /\ headers \in [Conn -> Credential \cup {NoCredential}]
  /\ hold \in [Caller -> [at : Await, url : Url \cup {"none"}, with : Credential \cup {NoCredential},
                          conn : Conn \cup {NoConn}]]
  /\ request \in {NoRequest} \cup
       [caller : Caller, url : Url, own : Credential, as : Credential \cup {NoCredential}]
  /\ closed \in BOOLEAN

\* A call has a connection, an open one, from its handshake to its outcome.
Placed ==
  \A c \in Caller :
    /\ hold[c].at \in {"out", "build"} => hold[c].conn = NoConn
    /\ hold[c].at \notin {"out", "build"} => hold[c].conn \in open
    /\ hold[c].at # "out" => hold[c].url \in Url /\ hold[c].with \in Credential

Exclusive ==
  /\ \A c, d \in Caller : c # d /\ hold[c].conn \in Conn => hold[c].conn # hold[d].conn
  /\ \A c \in Caller, u \in Url : hold[c].conn \notin idle[u]
  /\ \A u, v \in Url : \A k \in idle[u] : k \in idle[v] => u = v

Clean ==
  \A u \in Url : \A k \in idle[u] : k \in open /\ k \notin broken /\ headers[k] = NoCredential

\* The entry of a call about to send holds its credential; what went out carried it.
Owned ==
  /\ \A c \in Caller : hold[c].at = "use" => headers[hold[c].conn] = hold[c].with
  /\ request # NoRequest => request.as = request.own

Accounted ==
  \A k \in open : (\E c \in Caller : hold[c].conn = k) \/ (\E u \in Url : k \in idle[u])

Bounded ==
  \A u \in Url : /\ IsFiniteSet(idle[u])
                 /\ Cardinality(idle[u]) <= MaxIdle
                 /\ closed => idle[u] = {}

PoolInv == Typed /\ Placed /\ Exclusive /\ Clean /\ Owned /\ Accounted /\ Bounded

-------------------------------------------------------------------------------
\* PoolInit establishes it.
LEMMA InitPoolInv == PoolInit => PoolInv
<1> SUFFICES ASSUME PoolInit PROVE PoolInv
  OBVIOUS
<1>1. Typed
  BY DEF PoolInit, Typed, NotHolding, Await
<1>2. Placed /\ Exclusive /\ Clean /\ Owned /\ Accounted
  BY PoolAssumption DEF PoolInit, Placed, Exclusive, Clean, Owned, Accounted, NotHolding
<1>3. Bounded
  BY FS_EmptySet, PoolAssumption DEF PoolInit, Bounded
<1> QED
  BY <1>1, <1>2, <1>3 DEF PoolInv

\* withClient takes an idle entry out of its bucket or is to build one.
LEMMA TakeKeepsPoolInv ==
  ASSUME PoolInv, NEW c \in Caller, NEW u \in Url, NEW h \in Credential, Take(c, u, h)
  PROVE  PoolInv'
<1> USE DEF Holding
<1>1. CASE /\ idle[u] = {}
           /\ hold' = [hold EXCEPT ![c] = [at |-> "build", url |-> u, with |-> h, conn |-> NoConn]]
           /\ UNCHANGED idle
  <2>1. Typed'
    BY <1>1 DEF PoolInv, Take, Typed, Await
  <2>2. Placed' /\ Exclusive' /\ Clean' /\ Owned'
    BY <1>1, PoolAssumption DEF PoolInv, Take, Typed, Placed, Exclusive, Clean, Owned
  <2>3. Accounted'
    BY <1>1, PoolAssumption DEF PoolInv, Take, Typed, Placed, Accounted
  <2>4. Bounded'
    BY <1>1 DEF PoolInv, Take, Bounded
  <2> QED
    BY <2>1, <2>2, <2>3, <2>4 DEF PoolInv
<1>2. ASSUME NEW k \in idle[u],
             idle' = [idle EXCEPT ![u] = @ \ {k}],
             hold' = [hold EXCEPT ![c] = [at |-> "held", url |-> u, with |-> h, conn |-> k]]
      PROVE  PoolInv'
  <2>1. Typed'
    BY <1>2 DEF PoolInv, Take, Typed, Await
  <2>2. Placed' /\ Clean' /\ Owned'
    BY <1>2, PoolAssumption DEF PoolInv, Take, Typed, Placed, Clean, Owned
  <2>3. Exclusive'
    BY <1>2, PoolAssumption DEF PoolInv, Take, Typed, Placed, Exclusive
  <2>4. Accounted'
    BY <1>2, PoolAssumption DEF PoolInv, Take, Typed, Placed, Accounted
  <2>5. Bounded'
    <3> SUFFICES ASSUME NEW v \in Url
                 PROVE  /\ IsFiniteSet(idle'[v]) /\ Cardinality(idle'[v]) <= MaxIdle
                        /\ closed' => idle'[v] = {}
      BY DEF Bounded
    <3>1. IsFiniteSet(idle[v]) /\ Cardinality(idle[v]) <= MaxIdle /\ (closed => idle[v] = {})
      BY DEF PoolInv, Bounded
    <3>2. idle'[v] = idle[v] \/ (v = u /\ idle'[v] = idle[v] \ {k})
      BY <1>2 DEF PoolInv, Typed
    <3>3. Cardinality(idle[v]) \in Nat
      BY <3>1, FS_CardinalityType
    <3>4. CASE v = u /\ idle'[v] = idle[v] \ {k}
      <4>1. IsFiniteSet(idle[v] \ {k}) /\ Cardinality(idle[v] \ {k}) <= Cardinality(idle[v])
        BY <3>1, FS_Subset
      <4>2. Cardinality(idle[v] \ {k}) \in Nat
        BY <4>1, FS_CardinalityType
      <4> QED
        BY <3>1, <3>3, <3>4, <4>1, <4>2, PoolAssumption DEF Take
    <3> QED
      BY <3>1, <3>2, <3>4 DEF Take
  <2> QED
    BY <2>1, <2>2, <2>3, <2>4, <2>5 DEF PoolInv
<1> QED
  BY <1>1, <1>2 DEF Take

\* A new entry carries its builder's credential; nobody has it yet, for it was not open.
LEMMA BuildKeepsPoolInv ==
  ASSUME PoolInv, NEW c \in Caller, Build(c)
  PROVE  PoolInv'
<1> USE DEF Holding
<1>1. PICK k \in Conn \ open :
        /\ open' = open \cup {k}
        /\ headers' = [headers EXCEPT ![k] = hold[c].with]
        /\ hold' = [hold EXCEPT ![c] = [at |-> "connect", url |-> hold[c].url,
                                     with |-> hold[c].with, conn |-> k]]
  <2> DEFINE chosen == CHOOSE j \in Conn \ open : TRUE
  <2>1. chosen \in Conn \ open
    BY DEF Build
  <2>2. /\ open' = open \cup {chosen}
        /\ headers' = [headers EXCEPT ![chosen] = hold[c].with]
        /\ hold' = [hold EXCEPT ![c] = [at |-> "connect", url |-> hold[c].url,
                                     with |-> hold[c].with, conn |-> chosen]]
    BY DEF Build
  <2> HIDE DEF chosen
  <2> QED
    BY <2>1, <2>2
<1>2. /\ hold[c].at = "build" /\ hold[c].conn = NoConn
      /\ hold[c].url \in Url /\ hold[c].with \in Credential
  BY DEF Build, PoolInv, Placed
<1>3. \A d \in Caller : hold[d].conn # k
  BY PoolAssumption DEF PoolInv, Placed, Typed, Await
<1>4. \A u \in Url : k \notin idle[u]
  BY DEF PoolInv, Clean
<1>5. Typed'
  <2>1. hold' \in [Caller -> [at : Await, url : Url \cup {"none"},
                             with : Credential \cup {NoCredential}, conn : Conn \cup {NoConn}]]
    <3>1. hold[c] \in [at : Await, url : Url \cup {"none"}, with : Credential \cup {NoCredential},
                       conn : Conn \cup {NoConn}]
      BY DEF PoolInv, Typed
    <3> QED
      BY <1>1, <3>1 DEF PoolInv, Typed, Await
  <2>2. headers' \in [Conn -> Credential \cup {NoCredential}] /\ open' \subseteq Conn
    BY <1>1, <1>2 DEF PoolInv, Typed
  <2>3. request' \in [caller : Caller, url : Url, own : Credential,
                      as : Credential \cup {NoCredential}]
    BY <1>2 DEF Build
  <2> QED
    BY <2>1, <2>2, <2>3 DEF PoolInv, Build, Typed
<1>6. Placed'
  BY <1>1, <1>2 DEF PoolInv, Build, Typed, Placed
<1>7. Exclusive' /\ Clean'
  BY <1>1, <1>3, <1>4, PoolAssumption DEF PoolInv, Build, Typed, Exclusive, Clean
<1>8. Owned'
  BY <1>1, <1>2, <1>3 DEF PoolInv, Build, Typed, Owned
<1>9. Accounted' /\ Bounded'
  BY <1>1, <1>2, PoolAssumption DEF PoolInv, Build, Typed, Accounted, Bounded
<1> QED
  BY <1>5, <1>6, <1>7, <1>8, <1>9 DEF PoolInv

LEMMA ConnectedKeepsPoolInv ==
  ASSUME PoolInv, NEW c \in Caller, Connected(c)
  PROVE  PoolInv'
<1> USE DEF Holding
<1>1. Typed'
  BY DEF PoolInv, Connected, Typed, Await
<1>2. Placed' /\ Exclusive' /\ Clean' /\ Owned'
  BY DEF PoolInv, Connected, Typed, Placed, Exclusive, Clean, Owned
<1>3. Accounted' /\ Bounded'
  BY DEF PoolInv, Connected, Typed, Accounted, Bounded
<1> QED
  BY <1>1, <1>2, <1>3 DEF PoolInv

\* The holder overwrites the credential of an entry only it has.
LEMMA UseKeepsPoolInv ==
  ASSUME PoolInv, NEW c \in Caller, Use(c)
  PROVE  PoolInv'
<1> USE DEF Holding
<1>1. hold[c].conn \in Conn /\ hold[c].conn \in open /\ hold[c].with \in Credential
  BY DEF Use, PoolInv, Placed, Typed
<1>2. Typed'
  BY <1>1 DEF PoolInv, Use, Typed, Await
<1>3. Placed' /\ Exclusive' /\ Clean'
  BY <1>1 DEF PoolInv, Use, Typed, Placed, Exclusive, Clean
<1>4. Owned'
  BY <1>1 DEF PoolInv, Use, Typed, Exclusive, Owned
<1>5. Accounted' /\ Bounded'
  BY DEF PoolInv, Use, Typed, Accounted, Bounded
<1> QED
  BY <1>2, <1>3, <1>4, <1>5 DEF PoolInv

\* The headers are read when the request goes out, and are still the holder's own.
LEMMA SendKeepsPoolInv ==
  ASSUME PoolInv, NEW c \in Caller, Send(c)
  PROVE  PoolInv'
<1> USE DEF Holding
<1>1. /\ hold[c].at = "use" /\ hold[c].conn \in Conn /\ hold[c].conn \in open
      /\ hold[c].with \in Credential /\ hold[c].url \in Url
  BY DEF Send, PoolInv, Placed, Typed
<1>2. HeldBy(c) = {hold[c].conn}
  BY <1>1, PoolAssumption DEF HeldBy
<1>3. headers[hold[c].conn] = hold[c].with
  BY <1>1 DEF PoolInv, Owned
<1>4. Typed'
  BY <1>1, <1>2 DEF PoolInv, Send, Typed, Await
<1>5. Placed' /\ Exclusive'
  BY <1>1 DEF PoolInv, Send, Typed, Placed, Exclusive
<1>6. Clean'
  BY <1>1, <1>2 DEF PoolInv, Send, Exclusive, Clean
<1>7. Owned'
  BY <1>1, <1>3 DEF PoolInv, Send, Typed, Owned
<1>8. Accounted' /\ Bounded'
  BY DEF PoolInv, Send, Typed, Accounted, Bounded
<1> QED
  BY <1>4, <1>5, <1>6, <1>7, <1>8 DEF PoolInv

\* A call that leaves and closes what it holds, before or after its handshake.
LEMMA LeavingKeepsPoolInv ==
  ASSUME PoolInv, NEW c \in Caller, hold[c].at \notin {"out", "build"},
         Discard(HeldBy(c)),
         hold' = [hold EXCEPT ![c] = NotHolding],
         UNCHANGED <<idle, request, closed>>
  PROVE  PoolInv'
<1>1. hold[c].conn \in Conn /\ hold[c].conn \in open
  BY DEF PoolInv, Placed, Typed
<1>2. HeldBy(c) = {hold[c].conn}
  BY <1>1, PoolAssumption DEF HeldBy
<1>3. /\ open' = open \ {hold[c].conn} /\ broken' = broken \ {hold[c].conn}
      /\ headers' = [k \in Conn |-> IF k \in {hold[c].conn} THEN NoCredential ELSE headers[k]]
  BY <1>2 DEF Discard
<1>4. Typed'
  BY <1>3 DEF PoolInv, Typed, NotHolding, Await
<1>5. Placed'
  BY <1>1, <1>3 DEF PoolInv, Typed, Placed, Exclusive, NotHolding
<1>6. Exclusive'
  BY PoolAssumption DEF PoolInv, Typed, Exclusive, NotHolding
<1>7. Clean'
  BY <1>1, <1>3 DEF PoolInv, Typed, Exclusive, Clean
<1>8. Owned'
  BY <1>1, <1>3 DEF PoolInv, Typed, Placed, Exclusive, Owned, NotHolding
<1>9. Accounted' /\ Bounded'
  BY <1>3 DEF PoolInv, Typed, Accounted, Bounded, NotHolding
<1> QED
  BY <1>4, <1>5, <1>6, <1>7, <1>8, <1>9 DEF PoolInv

\* An entry comes back without its credential, or is closed if it is one too many or the
\* pool is.
LEMMA AnsweredKeepsPoolInv ==
  ASSUME PoolInv, NEW c \in Caller, Answered(c)
  PROVE  PoolInv'
<1> USE DEF Holding
<1> DEFINE k == hold[c].conn
           u == hold[c].url
<1>1. hold[c].at = "wait" /\ k \in Conn /\ k \in open /\ u \in Url
  BY DEF Answered, PoolInv, Placed, Typed
<1>2. HeldBy(c) = {k}
  BY <1>1, PoolAssumption DEF HeldBy
<1>3. CASE ~Keeps(u)
  BY <1>1, <1>3, LeavingKeepsPoolInv DEF Answered, Give
<1>4. CASE Keeps(u)
  <2>1. /\ idle' = [idle EXCEPT ![u] = @ \cup {k}]
        /\ headers' = [headers EXCEPT ![k] = NoCredential]
        /\ broken' = broken \ {k} /\ open' = open
        /\ hold' = [hold EXCEPT ![c] = NotHolding] /\ request' = request /\ closed' = closed
    BY <1>2, <1>4 DEF Answered, Give
  <2>2. k # NoConn /\ \A v \in Url : k \notin idle[v]
    BY <1>1, PoolAssumption DEF PoolInv, Exclusive
  <2>3. \A d \in Caller : d # c => hold[d].conn # k
    BY <1>1 DEF PoolInv, Exclusive
  <2> HIDE DEF k, u
  <2>4. Typed'
    BY <1>1, <2>1 DEF PoolInv, Typed, NotHolding, Await
  <2>5. Placed'
    BY <2>1 DEF PoolInv, Typed, Placed, NotHolding
  <2>6. Exclusive'
    BY <1>1, <2>1, <2>2, <2>3, PoolAssumption DEF PoolInv, Typed, Exclusive, NotHolding
  <2>7. Clean'
    BY <1>1, <2>1, <2>2 DEF PoolInv, Typed, Clean
  <2>8. Owned'
    BY <2>1, <2>3 DEF PoolInv, Typed, Owned, NotHolding
  <2>9. Accounted'
    <3> SUFFICES ASSUME NEW j \in open
                 PROVE  (\E d \in Caller : hold'[d].conn = j) \/ (\E v \in Url : j \in idle'[v])
      BY <2>1 DEF Accounted
    <3>1. CASE j = k
      BY <1>1, <2>1, <3>1 DEF PoolInv, Typed
    <3>2. CASE j # k
      <4>1. (\E d \in Caller : hold[d].conn = j) \/ (\E v \in Url : j \in idle[v])
        BY DEF PoolInv, Accounted
      <4>2. ASSUME NEW d \in Caller, hold[d].conn = j PROVE hold'[d].conn = j
        BY <3>2, <4>2, <2>1 DEF PoolInv, Typed, k
      <4>3. ASSUME NEW v \in Url, j \in idle[v] PROVE j \in idle'[v]
        BY <4>3, <2>1 DEF PoolInv, Typed
      <4> QED
        BY <4>1, <4>2, <4>3
    <3> QED
      BY <3>1, <3>2
  <2>10. Bounded'
    <3> SUFFICES ASSUME NEW v \in Url
                 PROVE  /\ IsFiniteSet(idle'[v]) /\ Cardinality(idle'[v]) <= MaxIdle
                        /\ closed' => idle'[v] = {}
      BY DEF Bounded
    <3>1. IsFiniteSet(idle[v]) /\ Cardinality(idle[v]) <= MaxIdle /\ (closed => idle[v] = {})
      BY DEF PoolInv, Bounded
    <3>2. IF v = u THEN idle'[v] = idle[v] \cup {k} ELSE idle'[v] = idle[v]
      BY <2>1 DEF PoolInv, Typed
    <3>3. CASE v = u
      <4>1. ~closed /\ Cardinality(idle[v]) < MaxIdle
        BY <1>4, <3>3 DEF Keeps
      <4>2. IsFiniteSet(idle[v] \cup {k}) /\ Cardinality(idle[v] \cup {k}) = Cardinality(idle[v]) + 1
        BY <3>1, <2>2, FS_AddElement
      <4>3. Cardinality(idle[v]) \in Nat
        BY <3>1, FS_CardinalityType
      <4>4. idle'[v] = idle[v] \cup {k}
        BY <3>2, <3>3
      <4>5. Cardinality(idle[v]) + 1 <= MaxIdle
        BY <4>1, <4>3, PoolAssumption
      <4>6. IsFiniteSet(idle'[v]) /\ Cardinality(idle'[v]) <= MaxIdle
        BY <4>2, <4>4, <4>5
      <4>7. ~closed'
        BY <2>1, <4>1
      <4> QED
        BY <4>6, <4>7
    <3> QED
      BY <2>1, <3>1, <3>2, <3>3
  <2> QED
    BY <2>4, <2>5, <2>6, <2>7, <2>8, <2>9, <2>10 DEF PoolInv
<1> QED
  BY <1>3, <1>4

\* close empties the buckets and closes what was in them.
LEMMA ClosePoolKeepsPoolInv ==
  ASSUME PoolInv, ClosePool
  PROVE  PoolInv'
<1> DEFINE gone == UNION {idle[u] : u \in Url}
<1>1. /\ open' = open \ gone /\ broken' = broken \ gone
      /\ headers' = [k \in Conn |-> IF k \in gone THEN NoCredential ELSE headers[k]]
      /\ idle' = [u \in Url |-> {}] /\ hold' = hold /\ request' = request /\ closed'
  BY DEF ClosePool, Discard
<1>2. \A c \in Caller : hold[c].conn \notin gone
  BY DEF PoolInv, Exclusive
<1>3. \A k \in open \ gone : \E c \in Caller : hold[c].conn = k
  BY DEF PoolInv, Accounted
<1> HIDE DEF gone
<1>4. Typed'
  BY <1>1 DEF PoolInv, Typed, ClosePool
<1>5. Placed' /\ Exclusive' /\ Clean'
  BY <1>1, <1>2 DEF PoolInv, Placed, Exclusive, Clean
<1>6. Owned'
  BY <1>1, <1>2 DEF PoolInv, Typed, Placed, Owned
<1>7. Accounted'
  BY <1>1, <1>3 DEF Accounted
<1>8. Bounded'
  BY <1>1, FS_EmptySet, PoolAssumption DEF Bounded
<1> QED
  BY <1>4, <1>5, <1>6, <1>7, <1>8 DEF PoolInv

\* Every step of the pool keeps it.
LEMMA StepKeepsPoolInv == PoolInv /\ [PoolNext]_poolVars => PoolInv'
<1> SUFFICES ASSUME PoolInv, [PoolNext]_poolVars PROVE PoolInv'
  OBVIOUS
<1>1. CASE UNCHANGED poolVars
  BY <1>1 DEF poolVars, PoolInv, Typed, Placed, Exclusive, Clean, Owned, Accounted, Bounded
<1>2. ASSUME NEW c \in Caller, Proceed(c) PROVE PoolInv'
  <2>1. CASE ConnectFails(c)
    BY <2>1, LeavingKeepsPoolInv DEF ConnectFails, Holding
  <2>2. CASE Fails(c)
    BY <2>2, LeavingKeepsPoolInv DEF Fails
  <2> QED
    BY <1>2, <2>1, <2>2, BuildKeepsPoolInv, ConnectedKeepsPoolInv, UseKeepsPoolInv,
       SendKeepsPoolInv, AnsweredKeepsPoolInv DEF Proceed
<1> QED
  BY <1>1, <1>2, TakeKeepsPoolInv, ClosePoolKeepsPoolInv DEF PoolNext

LEMMA PoolInvHolds == PoolSpec => []PoolInv
  BY InitPoolInv, StepKeepsPoolInv, PTL DEF PoolSpec

-------------------------------------------------------------------------------
(* The properties *)

\* The state of the pool is well formed, and a call holds an open entry from its first
\* handshake to its outcome (withClient, client-pool.ts:81-100).
THEOREM PoolIsTyped == PoolSpec => []PoolTypeOK
<1>1. PoolInv => PoolTypeOK
  BY PoolAssumption DEF PoolInv, Typed, Placed, PoolTypeOK, HeldBy, Await
<1> QED
  BY <1>1, PoolInvHolds, PTL

\* No entry is ever in the hands of two calls, or of a call and a bucket, however many
\* callers and destinations there are (client-pool.ts:19-22).
THEOREM CheckoutIsExclusive == PoolSpec => []ExclusiveCheckout
<1>1. PoolInv => ExclusiveCheckout
  BY PoolAssumption DEF PoolInv, Typed, Exclusive, ExclusiveCheckout, HeldBy
<1> QED
  BY <1>1, PoolInvHolds, PTL

\* Every request carries the credential of the call it is sent for, with whatever reuse
\* and interleaving (client-pool.ts:24-26).
THEOREM RequestsCarryTheirOwn == PoolSpec => []OwnCredential
<1>1. PoolInv => OwnCredential
  BY DEF PoolInv, Owned, OwnCredential
<1> QED
  BY <1>1, PoolInvHolds, PTL

\* What a bucket offers is open, between exchanges and without a credential
\* (client-pool.ts:35-36, 111-126).
THEOREM IdleEntriesAreClean == PoolSpec => []IdleIsClean
<1>1. PoolInv => IdleIsClean
  BY DEF PoolInv, Clean, IdleIsClean
<1> QED
  BY <1>1, PoolInvHolds, PTL

\* Each open connection is held or idle, and a bucket has at most MaxIdle, none once the
\* pool is closed (give and close, client-pool.ts:111-126, 188-193).
THEOREM ConnectionsAreBounded == PoolSpec => []NoConnectionLeaks
<1>1. PoolInv => NoConnectionLeaks
  <2> SUFFICES ASSUME PoolInv PROVE NoConnectionLeaks
    OBVIOUS
  <2>1. ASSUME NEW k \in open PROVE k \in UNION ({HeldBy(c) : c \in Caller} \cup {idle[u] : u \in Url})
    <3>1. CASE \E c \in Caller : hold[c].conn = k
      <4>1. PICK c \in Caller : hold[c].conn = k
        BY <3>1
      <4>2. k # NoConn
        BY PoolAssumption DEF PoolInv, Typed
      <4>3. k \in HeldBy(c)
        BY <4>1, <4>2 DEF HeldBy
      <4> QED
        BY <4>3
    <3>2. CASE \E u \in Url : k \in idle[u]
      BY <3>2
    <3> QED
      BY <3>1, <3>2 DEF PoolInv, Accounted
  <2>2. ASSUME NEW c \in Caller PROVE HeldBy(c) \subseteq open
    BY PoolAssumption DEF PoolInv, Placed, Typed, HeldBy, Await
  <2>3. ASSUME NEW u \in Url PROVE idle[u] \subseteq open
    BY DEF PoolInv, Clean
  <2>4. open = UNION ({HeldBy(c) : c \in Caller} \cup {idle[u] : u \in Url})
    BY <2>1, <2>2, <2>3
  <2>5. ASSUME NEW u \in Url PROVE Cardinality(idle[u]) <= (IF closed THEN 0 ELSE MaxIdle)
    BY FS_EmptySet DEF PoolInv, Bounded
  <2> QED
    BY <2>4, <2>5 DEF NoConnectionLeaks
<1> QED
  BY <1>1, PoolInvHolds, PTL

-------------------------------------------------------------------------------
(* The pipeline *)

Code == {"unauthenticated", "internal_error", "not_found", "scope_denied", "rate_limited",
         "permission_mirror_failed", "policy_denied", "upstream_unavailable", "upstream_error"}

Reason == {"none"} \cup Code \cup Refusals

Invocation ==
  [stage : Stage, server : Url \cup {NoServer}, decision : {"allow", "deny"}, denyReason : Reason,
   policy : {"none", "allow", "deny"}, audited : BOOLEAN, failure : {"none"} \cup Code]

Recorded == [call : Caller, decision : {"allow", "deny"}, reason : Reason]

PipelineTyped ==
  /\ call \in [Caller -> Invocation]
  /\ rows \in Seq(Recorded)

\* A call is in the pool at two stages only, with that stage's token.
Tokened ==
  \A c \in Caller : hold[c].at # "out" =>
    \/ call[c].stage = "policy" /\ hold[c].with = <<c, "policy">>
    \/ call[c].stage = "dispatch" /\ hold[c].with = <<c, "tool">>

Mirrored == \A m \in wire \cup ran : m.call \in Caller /\ m.as = <<m.call, "tool">>

Early == {"auth", "tenant", "admit", "rate", "policyToken", "policy", "exchange"}

\* Stages that know the tool's server.
Sited == {"rate", "policyToken", "policy", "exchange", "dispatch"}

Left(c) == \E m \in wire \cup ran : m.call = c

\* What was decided about call c, whose state is x.
Permitted(c, x) ==
  /\ x.stage \in {"exchange", "dispatch"} => x.policy = "allow"
  /\ Left(c) =>
       /\ x.stage \notin Early /\ x.policy = "allow" /\ x.denyReason \notin Refusals
       /\ \A i \in DOMAIN rows : rows[i].call = c => rows[i].reason \notin Refusals

\* How far the row of call c, whose state is x, has got.
Account(c, x) ==
  /\ x.stage \in Early \cup {"dispatch"} =>
       ~x.audited /\ x.decision = "allow" /\ x.denyReason = "none" /\ x.failure = "none"
  /\ x.stage \in Sited => x.server # NoServer
  /\ x.stage = "failed" => x.failure # "none"
  /\ x.decision = "allow" <=> x.denyReason = "none"
  /\ x.stage \in {"append", "orphan"} => x.audited /\ (x.failure = "none" <=> x.decision = "allow")
  /\ ~x.audited \/ x.stage \in {"append", "orphan"} =>
       c \notin lost /\ \A i \in DOMAIN rows : rows[i].call # c
  /\ x.stage = "publish" \/ (x.stage = "failed" /\ x.audited) \/ (x.stage = "answered" /\ x.server # NoServer) =>
       x.audited /\ (c \in lost \/ \E i \in DOMAIN rows : rows[i].call = c)
  /\ \A i \in DOMAIN rows : rows[i].call = c =>
       /\ c \notin lost
       /\ \A j \in DOMAIN rows : rows[j].call = c => i = j
       /\ rows[i].decision = "allow" <=> rows[i].reason = "none"
       /\ x.failure = "none" => rows[i].decision = "allow"
       /\ rows[i].decision = "allow" => x.failure \in {"none", "internal_error"}

Permissions == \A c \in Caller : Permitted(c, call[c])

Accounts == \A c \in Caller : Account(c, call[c])

CallsInv == PipelineTyped /\ Permissions /\ Accounts

PipelineInv == PoolInv /\ Tokened /\ Mirrored /\ CallsInv

-------------------------------------------------------------------------------
(* The call's own state *)

LEMMA InitPipelineInv == Init => PipelineInv
<1> SUFFICES ASSUME Init PROVE PipelineInv
  OBVIOUS
<1>1. PoolInv
  BY InitPoolInv DEF Init
<1>2. Tokened /\ Mirrored
  BY DEF Init, PoolInit, NotHolding, Tokened, Mirrored
<1>3. PipelineTyped
  BY DEF Init, NewCall, PipelineTyped, Invocation, Stage, Reason
<1>4. Permissions /\ Accounts
  BY DEF Init, NewCall, Permissions, Permitted, Accounts, Account, Left, Early, Sited
<1> QED
  BY <1>1, <1>2, <1>3, <1>4 DEF PipelineInv, CallsInv

\* A step that changes one call and neither log nor tool calls.
LEMMA MovingKeepsCallsInv ==
  ASSUME CallsInv, NEW c \in Caller, NEW x \in Invocation, call' = [call EXCEPT ![c] = x],
         UNCHANGED <<rows, lost>>, wire' \cup ran' \subseteq wire \cup ran,
         Permitted(c, x), Account(c, x)
  PROVE  CallsInv'
<1>1. PipelineTyped'
  BY DEF CallsInv, PipelineTyped
<1>2. call'[c] = x /\ \A d \in Caller \ {c} : call'[d] = call[d]
  BY DEF CallsInv, PipelineTyped
<1>3. Permissions'
  BY <1>2 DEF CallsInv, Permissions, Permitted, Left
<1>4. Accounts'
  BY <1>2 DEF CallsInv, Accounts, Account
<1> QED
  BY <1>1, <1>3, <1>4 DEF CallsInv

\* On to the next stage, before the tool.
LEMMA GoOnKeepsCallsInv ==
  ASSUME CallsInv, NEW c \in Caller, NEW stage \in Early \cup {"dispatch"}, GoOn(c, stage),
         call[c].stage \in Early, stage \in {"exchange", "dispatch"} => call[c].policy = "allow",
         stage \in Sited => call[c].stage \in Sited,
         UNCHANGED <<rows, lost, wire, ran>>
  PROVE  CallsInv'
<1> DEFINE x == [call[c] EXCEPT !.stage = stage]
<1>1. call[c] \in Invocation /\ Permitted(c, call[c]) /\ Account(c, call[c])
  BY DEF CallsInv, PipelineTyped, Permissions, Accounts
<1>2. x \in Invocation
  BY <1>1 DEF Invocation, Stage, Early
<1>3. /\ x.stage = stage /\ x.server = call[c].server /\ x.decision = call[c].decision
      /\ x.denyReason = call[c].denyReason /\ x.policy = call[c].policy
      /\ x.audited = call[c].audited /\ x.failure = call[c].failure
  BY <1>1 DEF Invocation
<1>4. call' = [call EXCEPT ![c] = x]
  BY DEF GoOn
<1> HIDE DEF x
<1>5. Permitted(c, x) /\ Account(c, x)
  BY <1>1, <1>3 DEF Permitted, Account, Early, Sited
<1> QED
  BY <1>2, <1>4, <1>5, MovingKeepsCallsInv

\* A stage throws, or sending a result does.
LEMMA ThrowKeepsCallsInv ==
  ASSUME CallsInv, NEW c \in Caller, NEW code \in Code, Throw(c, code),
         \/ call[c].stage \in Early \cup {"dispatch"}
         \/ call[c].stage = "publish" /\ call[c].failure = "none" /\ code = "internal_error",
         UNCHANGED <<rows, lost, wire, ran>>
  PROVE  CallsInv'
<1> DEFINE x == [call[c] EXCEPT !.stage = "failed", !.failure = code]
<1>1. call[c] \in Invocation /\ Permitted(c, call[c]) /\ Account(c, call[c])
  BY DEF CallsInv, PipelineTyped, Permissions, Accounts
<1>2. x \in Invocation
  BY <1>1 DEF Invocation, Stage
<1>3. /\ x.stage = "failed" /\ x.server = call[c].server /\ x.decision = call[c].decision
      /\ x.denyReason = call[c].denyReason /\ x.policy = call[c].policy
      /\ x.audited = call[c].audited /\ x.failure = code
  BY <1>1 DEF Invocation
<1>4. call' = [call EXCEPT ![c] = x]
  BY DEF Throw
<1> HIDE DEF x
<1>5. Permitted(c, x)
  BY <1>1, <1>3 DEF Permitted, Early
<1>6. Account(c, x)
  BY <1>1, <1>3 DEF Account, Early, Sited, Code
<1> QED
  BY <1>2, <1>4, <1>5, <1>6, MovingKeepsCallsInv

\* A stage before the tool refuses the call.
LEMMA RefusingKeepsCallsInv ==
  ASSUME CallsInv, NEW c \in Caller, NEW code \in Code, NEW reason \in Refusals, NEW x \in Invocation,
         call[c].stage \in Early, call' = [call EXCEPT ![c] = x],
         x.stage = "failed", x.failure = code, x.decision = "deny", x.denyReason = reason,
         x.audited = call[c].audited,
         UNCHANGED <<rows, lost, wire, ran>>
  PROVE  CallsInv'
<1>1. Permitted(c, call[c]) /\ Account(c, call[c])
  BY DEF CallsInv, Permissions, Accounts
<1>2. Permitted(c, x)
  BY <1>1 DEF Permitted, Early
<1>3. Account(c, x)
  BY <1>1 DEF Account, Early, Sited, Code, Refusals
<1> QED
  BY <1>2, <1>3, MovingKeepsCallsInv

LEMMA RefuseKeepsCallsInv ==
  ASSUME CallsInv, NEW c \in Caller, NEW code \in Code, NEW reason \in Refusals,
         call[c].stage \in Early, Refuse(c, code, reason),
         UNCHANGED <<rows, lost, wire, ran>>
  PROVE  CallsInv'
<1> DEFINE x == [call[c] EXCEPT !.stage = "failed", !.failure = code, !.decision = "deny", !.denyReason = reason]
<1>1. call[c] \in Invocation
  BY DEF CallsInv, PipelineTyped
<1>2. /\ x \in Invocation /\ x.stage = "failed" /\ x.failure = code /\ x.decision = "deny"
      /\ x.denyReason = reason /\ x.audited = call[c].audited
  BY <1>1 DEF Invocation, Stage, Reason
<1>3. call' = [call EXCEPT ![c] = x]
  BY DEF Refuse
<1> HIDE DEF x
<1> QED
  BY <1>2, <1>3, RefusingKeepsCallsInv

\* The invocation is established, within the caller's scopes or beyond them.
LEMMA AdmitKeepsCallsInv ==
  ASSUME CallsInv, NEW c \in Caller, Admit(c)
  PROVE  CallsInv'
<1>1. /\ call[c].stage = "admit" /\ UNCHANGED <<rows, lost, wire, ran>>
  BY DEF Admit, At, toolVars, logVars
<1>2. call[c] \in Invocation /\ Permitted(c, call[c]) /\ Account(c, call[c])
  BY DEF CallsInv, PipelineTyped, Permissions, Accounts
<1>3. CASE Throw(c, "not_found")
  BY <1>1, <1>3, ThrowKeepsCallsInv DEF Code, Early
<1>4. ASSUME NEW u \in Url, call' = [call EXCEPT ![c].server = u, ![c].stage = "rate"]
      PROVE  CallsInv'
  <2> DEFINE x == [call[c] EXCEPT !.server = u, !.stage = "rate"]
  <2>1. x \in Invocation
    BY <1>2 DEF Invocation, Stage
  <2>2. /\ x.stage = "rate" /\ x.server # NoServer /\ x.decision = call[c].decision /\ x.denyReason = call[c].denyReason
        /\ x.policy = call[c].policy /\ x.audited = call[c].audited /\ x.failure = call[c].failure
    BY <1>2, PipelineAssumption DEF Invocation
  <2>3. call' = [call EXCEPT ![c] = x]
    BY <1>4
  <2> HIDE DEF x
  <2>4. Permitted(c, x) /\ Account(c, x)
    BY <1>1, <1>2, <2>2 DEF Permitted, Account, Early, Sited
  <2> QED
    BY <1>1, <2>1, <2>3, <2>4, MovingKeepsCallsInv
<1>5. ASSUME NEW u \in Url,
             call' = [call EXCEPT ![c].server = u, ![c].stage = "failed", ![c].failure = "scope_denied",
                                  ![c].decision = "deny", ![c].denyReason = "scope"]
      PROVE  CallsInv'
  <2> DEFINE x == [call[c] EXCEPT !.server = u, !.stage = "failed", !.failure = "scope_denied",
                                  !.decision = "deny", !.denyReason = "scope"]
  <2>1. "failed" \in Stage /\ "scope_denied" \in Code /\ "scope" \in Reason /\ "scope" \in Refusals
    BY DEF Stage, Code, Reason, Refusals
  <2>2. /\ x \in Invocation /\ x.stage = "failed" /\ x.failure = "scope_denied"
        /\ x.decision = "deny" /\ x.denyReason = "scope" /\ x.audited = call[c].audited
    BY <1>2, <2>1 DEF Invocation
  <2>3. call' = [call EXCEPT ![c] = x]
    BY <1>5
  <2> HIDE DEF x
  <2> QED
    BY <1>1, <2>1, <2>2, <2>3, RefusingKeepsCallsInv DEF Early
<1> QED
  BY <1>3, <1>4, <1>5 DEF Admit

\* The policy engine's answer, and what the call makes of it.
LEMMA PolicyAnsweredKeepsCallsInv ==
  ASSUME CallsInv, NEW c \in Caller, PolicyAnswered(c)
  PROVE  CallsInv'
<1>1. call[c].stage = "policy" /\ UNCHANGED <<rows, lost, wire, ran>>
  BY DEF PolicyAnswered, At, toolVars, logVars
<1>2. call[c] \in Invocation /\ Permitted(c, call[c]) /\ Account(c, call[c])
  BY DEF CallsInv, PipelineTyped, Permissions, Accounts
<1>3. CASE call' = [call EXCEPT ![c].stage = "exchange", ![c].policy = "allow"]
  <2> DEFINE x == [call[c] EXCEPT !.stage = "exchange", !.policy = "allow"]
  <2>1. x \in Invocation
    BY <1>2 DEF Invocation, Stage
  <2>2. /\ x.stage = "exchange" /\ x.server = call[c].server /\ x.decision = call[c].decision /\ x.denyReason = call[c].denyReason
        /\ x.policy = "allow" /\ x.audited = call[c].audited /\ x.failure = call[c].failure
    BY <1>2 DEF Invocation
  <2>3. call' = [call EXCEPT ![c] = x]
    BY <1>3
  <2> HIDE DEF x
  <2>4. Permitted(c, x) /\ Account(c, x)
    BY <1>1, <1>2, <2>2 DEF Permitted, Account, Early, Sited
  <2> QED
    BY <1>1, <2>1, <2>3, <2>4, MovingKeepsCallsInv
<1>4. CASE call' = [call EXCEPT ![c].stage = "failed", ![c].failure = "policy_denied",
                               ![c].policy = "deny", ![c].decision = "deny", ![c].denyReason = "policy"]
  <2> DEFINE x == [call[c] EXCEPT !.stage = "failed", !.failure = "policy_denied",
                                  !.policy = "deny", !.decision = "deny", !.denyReason = "policy"]
  <2>1. "failed" \in Stage /\ "policy_denied" \in Code /\ "policy" \in Reason /\ "policy" \in Refusals
    BY DEF Stage, Code, Reason, Refusals
  <2>2. /\ x \in Invocation /\ x.stage = "failed" /\ x.failure = "policy_denied"
        /\ x.decision = "deny" /\ x.denyReason = "policy" /\ x.audited = call[c].audited
    BY <1>2, <2>1 DEF Invocation
  <2>3. call' = [call EXCEPT ![c] = x]
    BY <1>4
  <2> HIDE DEF x
  <2> QED
    BY <1>1, <2>1, <2>2, <2>3, RefusingKeepsCallsInv DEF Early
<1>5. CASE Throw(c, "upstream_error")
  BY <1>1, <1>5, ThrowKeepsCallsInv DEF Code, Early
<1> QED
  BY <1>3, <1>4, <1>5 DEF PolicyAnswered

\* The tool call leaves, of a call that is permitted and has no row.
LEMMA DispatchKeepsCallsInv ==
  ASSUME CallsInv, NEW c \in Caller, Dispatch(c)
  PROVE  CallsInv'
<1>1. /\ call[c].stage = "dispatch" /\ call' = call /\ UNCHANGED <<rows, lost, ran>>
      /\ \A m \in wire' \cup ran' : m \in wire \cup ran \/ m.call = c
  BY DEF Dispatch, At, logVars
<1>2. call[c].policy = "allow" /\ call[c].denyReason = "none" /\ \A i \in DOMAIN rows : rows[i].call # c
  BY <1>1 DEF CallsInv, Permissions, Permitted, Accounts, Account
<1>3. \A d \in Caller : Left(d)' => Left(d) \/ d = c
  BY <1>1 DEF Left
<1>4. Permissions'
  BY <1>1, <1>2, <1>3 DEF CallsInv, Permissions, Permitted, Early, Refusals
<1>5. PipelineTyped' /\ Accounts'
  BY <1>1 DEF CallsInv, PipelineTyped, Accounts, Account
<1> QED
  BY <1>4, <1>5 DEF CallsInv

\* The tool has answered: the call is to be recorded as it is.
LEMMA ToolAnsweredKeepsCallsInv ==
  ASSUME CallsInv, NEW c \in Caller, ToolAnswered(c)
  PROVE  CallsInv'
<1> DEFINE x == [call[c] EXCEPT !.stage = "append", !.audited = TRUE]
<1>1. /\ call[c].stage = "dispatch" /\ UNCHANGED <<rows, lost>> /\ wire' \cup ran' \subseteq wire \cup ran
  BY DEF ToolAnswered, At, logVars
<1>2. call[c] \in Invocation /\ Permitted(c, call[c]) /\ Account(c, call[c])
  BY DEF CallsInv, PipelineTyped, Permissions, Accounts
<1>3. x \in Invocation
  BY <1>2 DEF Invocation, Stage
<1>4. /\ x.stage = "append" /\ x.decision = call[c].decision /\ x.denyReason = call[c].denyReason
      /\ x.policy = call[c].policy /\ x.audited /\ x.failure = call[c].failure
  BY <1>2 DEF Invocation
<1>5. call' = [call EXCEPT ![c] = x]
  BY DEF ToolAnswered
<1> HIDE DEF x
<1>6. Permitted(c, x)
  BY <1>1, <1>2, <1>4 DEF Permitted, Early
<1>7. Account(c, x)
  BY <1>1, <1>2, <1>4 DEF Account, Early, Sited
<1> QED
  BY <1>1, <1>3, <1>5, <1>6, <1>7, MovingKeepsCallsInv

\* The error handler records a failed call once.
LEMMA HandleErrorKeepsCallsInv ==
  ASSUME CallsInv, NEW c \in Caller, HandleError(c)
  PROVE  CallsInv'
<1>1. call[c].stage = "failed" /\ UNCHANGED <<rows, lost, wire, ran>>
  BY DEF HandleError, At, toolVars, logVars
<1>2. call[c] \in Invocation /\ Permitted(c, call[c]) /\ Account(c, call[c])
  BY DEF CallsInv, PipelineTyped, Permissions, Accounts
<1>3. CASE ~Invoked(c) /\ GoOn(c, "answered")
  <2> DEFINE x == [call[c] EXCEPT !.stage = "answered"]
  <2>1. x \in Invocation
    BY <1>2 DEF Invocation, Stage
  <2>2. /\ x.stage = "answered" /\ x.decision = call[c].decision /\ x.denyReason = call[c].denyReason
        /\ x.policy = call[c].policy /\ x.audited = call[c].audited /\ x.failure = call[c].failure
        /\ x.server = NoServer
    BY <1>2, <1>3 DEF Invocation, Invoked
  <2>3. call' = [call EXCEPT ![c] = x]
    BY <1>3 DEF GoOn
  <2> HIDE DEF x
  <2>4. Permitted(c, x) /\ Account(c, x)
    BY <1>1, <1>2, <2>2 DEF Permitted, Account, Early, Sited
  <2> QED
    BY <1>1, <2>1, <2>3, <2>4, MovingKeepsCallsInv
<1>4. CASE call' = [call EXCEPT ![c].stage = IF call[c].audited THEN "answered" ELSE "append",
                               ![c].decision = "deny",
                               ![c].denyReason = IF @ = "none" THEN call[c].failure ELSE @,
                               ![c].audited = TRUE]
  <2> DEFINE stage == IF call[c].audited THEN "answered" ELSE "append"
             reason == IF call[c].denyReason = "none" THEN call[c].failure ELSE call[c].denyReason
             x == [call[c] EXCEPT !.stage = stage, !.decision = "deny", !.denyReason = reason, !.audited = TRUE]
  <2>1. reason \in Reason /\ stage \in Stage /\ (reason \in Refusals => call[c].denyReason \in Refusals)
    BY <1>2 DEF Invocation, Reason, Stage, Code, Refusals
  <2>2. x \in Invocation
    BY <1>2, <2>1 DEF Invocation
  <2>3. /\ x.stage = stage /\ x.decision = "deny" /\ x.denyReason = reason
        /\ x.policy = call[c].policy /\ x.audited /\ x.failure = call[c].failure
    BY <1>2 DEF Invocation
  <2>4. call' = [call EXCEPT ![c] = x]
    BY <1>4
  <2>5. reason # "none"
    BY <1>1, <1>2 DEF Account
  <2> HIDE DEF x
  <2>6. Permitted(c, x)
    BY <1>1, <1>2, <2>1, <2>3 DEF Permitted, Early
  <2>7. Account(c, x)
    BY <1>1, <1>2, <2>3, <2>5 DEF Account, Early, Sited
  <2> QED
    BY <1>1, <2>2, <2>4, <2>6, <2>7, MovingKeepsCallsInv
<1> QED
  BY <1>3, <1>4 DEF HandleError

\* The event is published; then the call is answered, or sending its result throws.
LEMMA PublishKeepsCallsInv ==
  ASSUME CallsInv, NEW c \in Caller, Publish(c)
  PROVE  CallsInv'
<1>1. call[c].stage = "publish" /\ UNCHANGED <<rows, lost, wire, ran>>
  BY DEF Publish, At, toolVars
<1>2. call[c] \in Invocation /\ Permitted(c, call[c]) /\ Account(c, call[c])
  BY DEF CallsInv, PipelineTyped, Permissions, Accounts
<1>3. CASE GoOn(c, "answered")
  <2> DEFINE x == [call[c] EXCEPT !.stage = "answered"]
  <2>1. x \in Invocation
    BY <1>2 DEF Invocation, Stage
  <2>2. /\ x.stage = "answered" /\ x.decision = call[c].decision /\ x.denyReason = call[c].denyReason
        /\ x.policy = call[c].policy /\ x.audited = call[c].audited /\ x.failure = call[c].failure
    BY <1>2 DEF Invocation
  <2>3. call' = [call EXCEPT ![c] = x]
    BY <1>3 DEF GoOn
  <2> HIDE DEF x
  <2>4. Permitted(c, x) /\ Account(c, x)
    BY <1>1, <1>2, <2>2 DEF Permitted, Account, Early, Sited
  <2> QED
    BY <1>1, <2>1, <2>3, <2>4, MovingKeepsCallsInv
<1>4. CASE call[c].failure = "none" /\ Throw(c, "internal_error")
  BY <1>1, <1>4, ThrowKeepsCallsInv DEF Code
<1> QED
  BY <1>3, <1>4 DEF Publish

\* The row of a call that had none is stored; it says what was decided.
LEMMA AppendStoresKeepsCallsInv ==
  ASSUME CallsInv, NEW c \in Caller, AppendStores(c)
  PROVE  CallsInv'
<1> DEFINE stage == IF At(c, "append") THEN "publish" ELSE "gone"
           x == [call[c] EXCEPT !.stage = stage]
           n == Len(rows) + 1
<1>1. /\ call[c].stage \in {"append", "orphan"} /\ UNCHANGED <<lost, wire, ran>>
      /\ call' = [call EXCEPT ![c] = x] /\ rows' = Append(rows, RowOf(c))
  BY DEF AppendStores, toolVars, GoOn
<1>2. call[c] \in Invocation /\ Permitted(c, call[c]) /\ Account(c, call[c])
  BY DEF CallsInv, PipelineTyped, Permissions, Accounts
<1>3. x \in Invocation /\ stage \in {"publish", "gone"}
  BY <1>2 DEF Invocation, Stage
<1>4. /\ x.stage = stage /\ x.server = call[c].server /\ x.decision = call[c].decision
      /\ x.denyReason = call[c].denyReason /\ x.policy = call[c].policy
      /\ x.audited = call[c].audited /\ x.failure = call[c].failure
  BY <1>2 DEF Invocation
<1>5. RowOf(c) \in Recorded
  BY <1>2 DEF RowOf, Recorded, Invocation
<1>6. /\ rows' \in Seq(Recorded) /\ DOMAIN rows' = DOMAIN rows \cup {n} /\ n \notin DOMAIN rows
      /\ rows'[n] = RowOf(c) /\ \A i \in DOMAIN rows : rows'[i] = rows[i]
  BY <1>1, <1>5 DEF CallsInv, PipelineTyped
<1>7. /\ RowOf(c).call = c /\ RowOf(c).decision = call[c].decision
      /\ RowOf(c).reason = call[c].denyReason
  BY DEF RowOf
<1> HIDE DEF x, n, stage
<1>8. call'[c] = x /\ \A d \in Caller \ {c} : call'[d] = call[d]
  BY <1>1 DEF CallsInv, PipelineTyped
<1>9. PipelineTyped'
  BY <1>1, <1>3, <1>6 DEF CallsInv, PipelineTyped
<1>10. Permissions'
  BY <1>1, <1>2, <1>3, <1>4, <1>6, <1>7, <1>8 DEF CallsInv, Permissions, Permitted, Left, Early
<1>11. ASSUME NEW d \in Caller \ {c} PROVE Account(d, call[d])'
  BY <1>1, <1>6, <1>7, <1>8 DEF CallsInv, Accounts, Account
<1>12. Account(c, call[c])'
  BY <1>1, <1>2, <1>3, <1>4, <1>6, <1>7, <1>8 DEF Account, Early, Sited
<1> QED
  BY <1>9, <1>10, <1>11, <1>12 DEF CallsInv, Accounts

\* The append is rejected: the row is known to be lost.
LEMMA AppendRejectsKeepsCallsInv ==
  ASSUME CallsInv, NEW c \in Caller, AppendRejects(c)
  PROVE  CallsInv'
<1> DEFINE stage == IF At(c, "append") THEN "publish" ELSE "gone"
           x == [call[c] EXCEPT !.stage = stage]
<1>1. /\ call[c].stage \in {"append", "orphan"} /\ UNCHANGED <<rows, wire, ran>>
      /\ call' = [call EXCEPT ![c] = x] /\ lost' = lost \cup {c}
  BY DEF AppendRejects, toolVars, GoOn
<1>2. call[c] \in Invocation /\ Permitted(c, call[c]) /\ Account(c, call[c])
  BY DEF CallsInv, PipelineTyped, Permissions, Accounts
<1>3. x \in Invocation /\ stage \in {"publish", "gone"}
  BY <1>2 DEF Invocation, Stage
<1>4. /\ x.stage = stage /\ x.server = call[c].server /\ x.decision = call[c].decision
      /\ x.denyReason = call[c].denyReason /\ x.policy = call[c].policy
      /\ x.audited = call[c].audited /\ x.failure = call[c].failure
  BY <1>2 DEF Invocation
<1> HIDE DEF x, stage
<1>5. call'[c] = x /\ \A d \in Caller \ {c} : call'[d] = call[d]
  BY <1>1 DEF CallsInv, PipelineTyped
<1>6. PipelineTyped'
  BY <1>1, <1>3 DEF CallsInv, PipelineTyped
<1>7. Permissions'
  BY <1>1, <1>2, <1>3, <1>4, <1>5 DEF CallsInv, Permissions, Permitted, Left, Early
<1>8. ASSUME NEW d \in Caller \ {c} PROVE Account(d, call[d])'
  BY <1>1, <1>5 DEF CallsInv, Accounts, Account
<1>9. Account(c, call[c])'
  BY <1>1, <1>2, <1>3, <1>4, <1>5 DEF Account, Early, Sited
<1> QED
  BY <1>6, <1>7, <1>8, <1>9 DEF CallsInv, Accounts

\* The replica dies: what it decided stays decided, and nothing more is.
LEMMA CrashKeepsCallsInv ==
  ASSUME CallsInv, Crash
  PROVE  CallsInv'
<1>1. UNCHANGED <<rows, lost, wire, ran>>
  BY DEF Crash, toolVars
<1>2. \A c \in Caller :
        /\ call'[c] \in Invocation
        /\ \/ call'[c].stage = "gone" /\ call[c].stage # "append"
           \/ call'[c].stage = "orphan" /\ call[c].stage = "append"
           \/ call'[c].stage = call[c].stage /\ call[c].stage \in {"answered", "orphan", "gone"}
        /\ call'[c].server = call[c].server /\ call'[c].decision = call[c].decision
        /\ call'[c].denyReason = call[c].denyReason /\ call'[c].policy = call[c].policy
        /\ call'[c].audited = call[c].audited /\ call'[c].failure = call[c].failure
  <2> SUFFICES ASSUME NEW c \in Caller
               PROVE  /\ call'[c] \in Invocation
                      /\ \/ call'[c].stage = "gone" /\ call[c].stage # "append"
                         \/ call'[c].stage = "orphan" /\ call[c].stage = "append"
                         \/ call'[c].stage = call[c].stage /\ call[c].stage \in {"answered", "orphan", "gone"}
                      /\ call'[c].server = call[c].server /\ call'[c].decision = call[c].decision
                      /\ call'[c].denyReason = call[c].denyReason /\ call'[c].policy = call[c].policy
                      /\ call'[c].audited = call[c].audited /\ call'[c].failure = call[c].failure
    OBVIOUS
  <2> DEFINE s == call[c].stage
             t == CASE s = "append" -> "orphan" [] s \in {"answered", "orphan", "gone"} -> s [] OTHER -> "gone"
  <2>1. call[c] \in Invocation
    BY DEF CallsInv, PipelineTyped
  <2>2. call'[c] = [call[c] EXCEPT !.stage = t]
    BY DEF Crash
  <2>3. /\ t \in Stage
        /\ \/ t = "gone" /\ s # "append"
           \/ t = "orphan" /\ s = "append"
           \/ t = s /\ s \in {"answered", "orphan", "gone"}
    BY <2>1 DEF Invocation, Stage
  <2> HIDE DEF t
  <2> QED
    BY <2>1, <2>2, <2>3 DEF Invocation
<1>3. PipelineTyped'
  BY <1>1, <1>2 DEF CallsInv, PipelineTyped, Crash
<1>4. Permissions'
  BY <1>1, <1>2 DEF CallsInv, Permissions, Permitted, Left, Early
<1>5. ASSUME NEW c \in Caller PROVE Account(c, call[c])'
  <2>1. Account(c, call[c])
    BY DEF CallsInv, Accounts
  <2> QED
    BY <1>1, <1>2, <2>1 DEF Account, Early, Sited
<1> QED
  BY <1>3, <1>4, <1>5 DEF CallsInv, Accounts

\* Every step of a call keeps what is known of calls.
LEMMA AdvanceKeepsCallsInv ==
  ASSUME CallsInv, NEW c \in Caller, Advance(c) \/ Upstream(c)
  PROVE  CallsInv'
<1> USE DEF At, toolVars, logVars
<1>1. CASE Authenticate(c) \/ ResolveTenant(c)
  <2>1. /\ call[c].stage \in {"auth", "tenant"} /\ UNCHANGED <<rows, lost, wire, ran>>
        /\ (\E stage \in {"tenant", "admit"} : GoOn(c, stage)) \/ \E code \in Code : Throw(c, code)
    BY <1>1 DEF Authenticate, ResolveTenant, Code
  <2> QED
    BY <2>1, GoOnKeepsCallsInv, ThrowKeepsCallsInv DEF Early, Sited
<1>2. CASE RateLimit(c)
  <2>1. /\ call[c].stage = "rate" /\ UNCHANGED <<rows, lost, wire, ran>>
        /\ \/ GoOn(c, "policyToken")
           \/ Refuse(c, "rate_limited", "rate_limit") \/ Throw(c, "internal_error")
    BY <1>2 DEF RateLimit
  <2> QED
    BY <2>1, GoOnKeepsCallsInv, ThrowKeepsCallsInv, RefuseKeepsCallsInv DEF Early, Sited, Code, Refusals
<1>3. CASE MintPolicyToken(c)
  <2>1. /\ call[c].stage = "policyToken" /\ UNCHANGED <<rows, lost, wire, ran>>
        /\ GoOn(c, "policy") \/ Throw(c, "permission_mirror_failed")
    BY <1>3 DEF MintPolicyToken
  <2> QED
    BY <2>1, GoOnKeepsCallsInv, ThrowKeepsCallsInv DEF Early, Sited, Code
<1>4. CASE PolicyFails(c) \/ ToolFails(c)
  <2>1. /\ call[c].stage \in {"policy", "dispatch"} /\ UNCHANGED <<rows, lost, wire, ran>>
        /\ \E code \in Code : Throw(c, code)
    BY <1>4 DEF PolicyFails, ToolFails, Code
  <2> QED
    BY <2>1, ThrowKeepsCallsInv DEF Early
<1>5. CASE Exchange(c)
  <2>1. /\ call[c].stage = "exchange" /\ UNCHANGED <<rows, lost, wire, ran>>
        /\ GoOn(c, "dispatch") \/ Refuse(c, "permission_mirror_failed", "permission_mirror")
    BY <1>5 DEF Exchange
  <2>2. call[c].policy = "allow"
    BY <2>1 DEF CallsInv, Permissions, Permitted
  <2> QED
    BY <2>1, <2>2, GoOnKeepsCallsInv, RefuseKeepsCallsInv DEF Early, Sited, Code, Refusals
<1>6. CASE PoolStep(c) \/ HandshakeDone(c) \/ ToolRuns(c)
  <2>1. /\ call' = call /\ UNCHANGED <<rows, lost>> /\ wire' \cup ran' \subseteq wire \cup ran
    BY <1>6 DEF PoolStep, HandshakeDone, ToolRuns, pipelineVars
  <2> QED
    BY <2>1 DEF CallsInv, PipelineTyped, Permissions, Permitted, Left, Accounts, Account
<1> QED
  BY <1>1, <1>2, <1>3, <1>4, <1>5, <1>6, AdmitKeepsCallsInv, PolicyAnsweredKeepsCallsInv, DispatchKeepsCallsInv,
     ToolAnsweredKeepsCallsInv, HandleErrorKeepsCallsInv, PublishKeepsCallsInv, AppendStoresKeepsCallsInv,
     AppendRejectsKeepsCallsInv DEF Advance, Upstream

-------------------------------------------------------------------------------
(* The pool's part *)

\* The replica dies, and its pool with it.
LEMMA CrashKeepsPoolInv ==
  ASSUME PoolInv, Crash
  PROVE  PoolInv'
<1>1. /\ idle' = [u \in Url |-> {}] /\ hold' = [c \in Caller |-> NotHolding]
      /\ open' = {} /\ broken' \subseteq broken
      /\ headers' = [k \in Conn |-> IF k \in open THEN NoCredential ELSE headers[k]]
      /\ request' = request /\ closed' = closed
  BY DEF Crash, Discard
<1>2. Typed'
  BY <1>1 DEF PoolInv, Typed, NotHolding, Await
<1>3. Placed' /\ Exclusive' /\ Clean' /\ Owned' /\ Accounted'
  BY <1>1, PoolAssumption DEF PoolInv, Placed, Exclusive, Clean, Owned, Accounted, NotHolding
<1>4. Bounded'
  BY <1>1, FS_EmptySet, PoolAssumption DEF Bounded
<1> QED
  BY <1>2, <1>3, <1>4 DEF PoolInv

\* What a call does with the pool is what the pool lets it do.
LEMMA StepIsPoolStep ==
  ASSUME CallsInv, NEW c \in Caller, Advance(c) \/ Upstream(c)
  PROVE  [PoolNext]_poolVars
<1>1. /\ PolicyUrl \in Url /\ <<c, "policy">> \in Credential /\ <<c, "tool">> \in Credential
  BY PipelineAssumption
<1>2. CASE Exchange(c)
  <2>1. call[c].server \in Url
    BY <1>2 DEF Exchange, At, CallsInv, PipelineTyped, Invocation, Accounts, Account, Sited
  <2> QED
    BY <1>1, <1>2, <2>1 DEF Exchange, PoolNext
<1>3. CASE MintPolicyToken(c)
  BY <1>1, <1>3 DEF MintPolicyToken, PoolNext
<1>4. CASE Proceed(c)
  BY <1>4 DEF PoolNext
<1>5. CASE UNCHANGED poolVars
  BY <1>5
<1>6. Exchange(c) \/ MintPolicyToken(c) \/ Proceed(c) \/ UNCHANGED poolVars
  BY DEF Advance, Upstream, Authenticate, ResolveTenant, Admit, RateLimit, PolicyFails, PoolStep, Dispatch,
         ToolFails, HandleError, AppendStores, AppendRejects, Publish, HandshakeDone, PolicyAnswered, ToolRuns,
         ToolAnswered, Proceed
<1> QED
  BY <1>2, <1>3, <1>4, <1>5, <1>6

\* A call that is not in the pool does as it likes; one that is keeps its stage and token.
LEMMA AdvanceKeepsTokened ==
  ASSUME PoolInv, PipelineTyped, Tokened, NEW c \in Caller, Advance(c) \/ Upstream(c)
  PROVE  Tokened'
<1> USE DEF At, Holding
<1>1. ASSUME \A d \in Caller \ {c} : hold'[d] = hold[d] /\ call'[d].stage = call[d].stage,
             hold'[c].at # "out" =>
               \/ call'[c].stage = "policy" /\ hold'[c].with = <<c, "policy">>
               \/ call'[c].stage = "dispatch" /\ hold'[c].with = <<c, "tool">>
      PROVE  Tokened'
  BY <1>1 DEF Tokened
<1>2. CASE \/ Authenticate(c) \/ ResolveTenant(c) \/ Admit(c) \/ RateLimit(c)
           \/ HandleError(c) \/ AppendStores(c) \/ AppendRejects(c) \/ Publish(c)
  <2>1. hold' = hold /\ call[c].stage \notin {"policy", "dispatch"}
        /\ \A d \in Caller \ {c} : call'[d] = call[d]
    BY <1>2 DEF Authenticate, ResolveTenant, Admit, RateLimit, HandleError, AppendStores, AppendRejects, Publish,
               poolVars, GoOn, Throw, Refuse, PipelineTyped
  <2> QED
    BY <1>1, <2>1 DEF Tokened
<1>3. CASE MintPolicyToken(c) \/ Exchange(c)
  <2>1. call[c].stage \notin {"policy", "dispatch"} /\ \A d \in Caller \ {c} : call'[d] = call[d]
    BY <1>3 DEF MintPolicyToken, Exchange, GoOn, Throw, Refuse, PipelineTyped
  <2>2. CASE UNCHANGED poolVars
    BY <1>1, <2>1, <2>2 DEF Tokened, poolVars
  <2>3. CASE Take(c, PolicyUrl, <<c, "policy">>) /\ GoOn(c, "policy")
    <3>1. /\ \A d \in Caller \ {c} : hold'[d] = hold[d]
          /\ hold'[c].with = <<c, "policy">> /\ call'[c].stage = "policy"
      BY <2>3 DEF Take, GoOn, PoolInv, Typed, PipelineTyped, Invocation
    <3> QED
      BY <1>1, <2>1, <3>1
  <2>4. CASE Take(c, call[c].server, <<c, "tool">>) /\ GoOn(c, "dispatch")
    <3>1. /\ \A d \in Caller \ {c} : hold'[d] = hold[d]
          /\ hold'[c].with = <<c, "tool">> /\ call'[c].stage = "dispatch"
      BY <2>4 DEF Take, GoOn, PoolInv, Typed, PipelineTyped, Invocation
    <3> QED
      BY <1>1, <2>1, <3>1
  <2> QED
    BY <1>3, <2>2, <2>3, <2>4 DEF MintPolicyToken, Exchange
<1>4. CASE PolicyFails(c) \/ ToolFails(c) \/ PolicyAnswered(c) \/ ToolAnswered(c)
  <2>1. hold' = [hold EXCEPT ![c] = NotHolding] /\ \A d \in Caller \ {c} : call'[d] = call[d]
    BY <1>4 DEF PolicyFails, ToolFails, PolicyAnswered, ToolAnswered, Fails, ConnectFails, Answered, Throw,
               PipelineTyped
  <2>2. hold'[c].at = "out" /\ \A d \in Caller \ {c} : hold'[d] = hold[d]
    BY <2>1 DEF PoolInv, Typed, NotHolding
  <2> QED
    BY <1>1, <2>1, <2>2
<1>5. CASE PoolStep(c) \/ HandshakeDone(c) \/ Dispatch(c) \/ ToolRuns(c)
  <2>1. call' = call
    BY <1>5 DEF PoolStep, HandshakeDone, Dispatch, ToolRuns, pipelineVars
  <2>2. CASE hold' = hold
    BY <2>1, <2>2 DEF Tokened
  <2>3. CASE Build(c) \/ Connected(c) \/ Use(c) \/ Send(c)
    <3>1. /\ hold[c].at # "out" /\ hold'[c].with = hold[c].with
          /\ \A d \in Caller \ {c} : hold'[d] = hold[d]
      BY <2>3 DEF Build, Connected, Use, Send, PoolInv, Typed
    <3> QED
      BY <1>1, <2>1, <3>1 DEF Tokened
  <2> QED
    BY <1>5, <2>2, <2>3 DEF PoolStep, HandshakeDone, Dispatch, ToolRuns, poolVars
<1> QED
  BY <1>2, <1>3, <1>4, <1>5 DEF Advance, Upstream

\* The headers of the entry are read as the tool call leaves, and are the call's own.
LEMMA AdvanceKeepsMirrored ==
  ASSUME PoolInv, Tokened, Mirrored, NEW c \in Caller, Advance(c) \/ Upstream(c)
  PROVE  Mirrored'
<1>1. CASE Dispatch(c)
  <2>1. /\ call[c].stage = "dispatch" /\ hold[c].at = "use" /\ ran' = ran
        /\ wire' = wire \cup {[call |-> c, as |-> request'.as]} /\ request'.as = headers[hold[c].conn]
    BY <1>1 DEF Dispatch, Send, At, Holding
  <2>2. headers[hold[c].conn] = hold[c].with /\ hold[c].with = <<c, "tool">>
    BY <2>1 DEF PoolInv, Owned, Tokened
  <2> QED
    BY <2>1, <2>2 DEF Mirrored
<1>2. CASE wire' \cup ran' \subseteq wire \cup ran
  BY <1>2 DEF Mirrored
<1>3. Dispatch(c) \/ wire' \cup ran' \subseteq wire \cup ran
  BY DEF Advance, Upstream, Authenticate, ResolveTenant, Admit, RateLimit, MintPolicyToken, PolicyFails, Exchange,
         PoolStep, ToolFails, HandleError, AppendStores, AppendRejects, Publish, HandshakeDone, PolicyAnswered,
         ToolRuns, ToolAnswered, toolVars, pipelineVars
<1> QED
  BY <1>1, <1>2, <1>3

\* Every step of the pipeline keeps the invariant.
LEMMA StepKeepsPipelineInv == PipelineInv /\ [Next]_vars => PipelineInv'
<1> SUFFICES ASSUME PipelineInv, [Next]_vars PROVE PipelineInv'
  OBVIOUS
<1>1. ASSUME NEW c \in Caller, Advance(c) \/ Upstream(c) PROVE PipelineInv'
  <2>1. PoolInv'
    BY <1>1, StepIsPoolStep, StepKeepsPoolInv DEF PipelineInv
  <2>2. CallsInv'
    BY <1>1, AdvanceKeepsCallsInv DEF PipelineInv
  <2>3. Tokened' /\ Mirrored'
    BY <1>1, AdvanceKeepsTokened, AdvanceKeepsMirrored DEF PipelineInv, CallsInv
  <2> QED
    BY <2>1, <2>2, <2>3 DEF PipelineInv
<1>2. CASE Crash
  <2>1. Tokened' /\ Mirrored'
    BY <1>2 DEF PipelineInv, Crash, NotHolding, Tokened, Mirrored, toolVars
  <2> QED
    BY <1>2, <2>1, CrashKeepsPoolInv, CrashKeepsCallsInv DEF PipelineInv
<1>3. CASE UNCHANGED <<poolVars, call, toolVars, rows, lost>>
  <2>1. PoolInv'
    BY <1>3, StepKeepsPoolInv DEF PipelineInv
  <2>2. Tokened' /\ Mirrored'
    BY <1>3 DEF PipelineInv, Tokened, Mirrored, poolVars, toolVars
  <2>3. CallsInv'
    BY <1>3 DEF PipelineInv, CallsInv, PipelineTyped, Permissions, Permitted, Left, Accounts, Account, toolVars
  <2> QED
    BY <2>1, <2>2, <2>3 DEF PipelineInv
<1>4. ASSUME NEW v \in Viewer, OpenStream(v) \/ CloseStream(v)
      PROVE  UNCHANGED <<poolVars, call, toolVars, rows, lost>>
  BY <1>4 DEF OpenStream, CloseStream
<1> QED
  BY <1>1, <1>2, <1>3, <1>4 DEF Next, vars, pipelineVars, toolVars

\* It holds throughout.
LEMMA PipelineInvHolds == Spec => []PipelineInv
  BY InitPipelineInv, StepKeepsPipelineInv, PTL DEF Spec

-------------------------------------------------------------------------------
(* The properties *)

\* A tool runs under the token exchanged for its own call, for any number of calls, servers
\* and pooled connections (PERMISSION_MIRRORING.md, client-pool.ts:16-36).
THEOREM ToolsRunAsTheirCallers == Spec => []RunsAsItsCaller
<1>1. PipelineInv => RunsAsItsCaller
  BY DEF PipelineInv, Mirrored, RunsAsItsCaller
<1> QED
  BY <1>1, PipelineInvHolds, PTL

\* A tool call leaves only after the policy engine allowed it, and never one that a stage
\* refused (policy.ts:27-30, tools.ts:109-122).
THEOREM RefusedCallsNeverRun == Spec => []RefusedNeverRuns
<1>1. PipelineInv => RefusedNeverRuns
  BY DEF PipelineInv, CallsInv, Mirrored, Permissions, Permitted, Left, RefusedNeverRuns, RowsFor
<1> QED
  BY <1>1, PipelineInvHolds, PTL

\* A call is answered once its only row is stored or known to be lost, and the row agrees
\* with the answer (audit.ts:10-18, tools.ts:150-180).
THEOREM AnswersAreRecorded == Spec => []AnsweredIsRecorded
<1>1. ASSUME PipelineInv, NEW c \in Caller
      PROVE  /\ Cardinality(RowsFor(c)) <= 1
             /\ RowsFor(c) # {} => c \notin lost
             /\ \A i \in RowsFor(c) : rows[i].decision = "allow" <=> rows[i].reason = "none"
             /\ At(c, "answered") /\ Invoked(c) =>
                  /\ RowsFor(c) # {} \/ c \in lost
                  /\ \A i \in RowsFor(c) :
                       /\ call[c].failure = "none" => rows[i].decision = "allow"
                       /\ rows[i].decision = "allow" => call[c].failure \in {"none", "internal_error"}
  <2>1. Account(c, call[c])
    BY <1>1 DEF PipelineInv, CallsInv, Accounts
  <2>2. Cardinality(RowsFor(c)) <= 1
    <3>1. CASE RowsFor(c) = {}
      BY <3>1, FS_EmptySet
    <3>2. ASSUME NEW i \in RowsFor(c) PROVE Cardinality(RowsFor(c)) <= 1
      <4>1. RowsFor(c) = {i}
        BY <2>1 DEF Account, RowsFor
      <4>2. Cardinality({i}) = 1
        BY FS_Singleton
      <4> QED
        BY <4>1, <4>2
    <3> QED
      BY <3>1, <3>2
  <2>3. /\ RowsFor(c) # {} => c \notin lost
        /\ \A i \in RowsFor(c) : rows[i].decision = "allow" <=> rows[i].reason = "none"
    BY <2>1 DEF Account, RowsFor
  <2>4. ASSUME At(c, "answered"), Invoked(c)
        PROVE  /\ RowsFor(c) # {} \/ c \in lost
               /\ \A i \in RowsFor(c) :
                    /\ call[c].failure = "none" => rows[i].decision = "allow"
                    /\ rows[i].decision = "allow" => call[c].failure \in {"none", "internal_error"}
    BY <2>1, <2>4 DEF Account, RowsFor, At, Invoked
  <2> QED
    BY <2>2, <2>3, <2>4
<1>2. PipelineInv => AnsweredIsRecorded
  BY <1>1 DEF AnsweredIsRecorded
<1> QED
  BY <1>2, PipelineInvHolds, PTL

-------------------------------------------------------------------------------
(* The stream *)

\* A set of numbers that is not empty has a least one.
LEMMA LeastNumber ==
  ASSUME NEW S \in SUBSET Nat, S # {}
  PROVE  \E m \in S : \A n \in S : m <= n
<1>1. PICK m \in S : \A n \in S : ~ (<<n, m>> \in OpToRel(<, Nat))
  BY NatLessThanWellFounded, WFMin
<1>2. \A n \in S : ~ (n < m)
  BY <1>1 DEF OpToRel
<1> QED
  BY <1>2

OfViewer(event, v) == TenantOf[event.call] = TenantOf[v]

\* What a view v is told of the first k events of s, for each k.
KeptUpTo(n, s, v, f) ==
  f = [i \in 0..n |-> IF i = 0 THEN <<>>
                      ELSE IF OfViewer(s[i], v) THEN Append(f[i - 1], s[i]) ELSE f[i - 1]]

\* There are such sequences, for any number of events.
LEMMA KeptExists ==
  ASSUME NEW n \in Nat, NEW s, NEW v
  PROVE  \E f : KeptUpTo(n, s, v, f)
<1> DEFINE missing == {k \in 0..n : ~ \E f : KeptUpTo(k, s, v, f)}
<1> SUFFICES ASSUME missing # {} PROVE FALSE
  OBVIOUS
<1>1. missing \in SUBSET Nat
  OBVIOUS
<1>2. PICK m \in missing : \A k \in missing : m <= k
  <2> HIDE DEF missing
  <2> QED
    BY <1>1, LeastNumber
<1>3. m \in 0..n /\ ~ \E f : KeptUpTo(m, s, v, f)
  OBVIOUS
<1>4. CASE m = 0
  <2>1. KeptUpTo(0, s, v, [i \in 0..0 |-> <<>>])
    BY DEF KeptUpTo
  <2> QED
    BY <1>3, <1>4, <2>1
<1>5. CASE m # 0
  <2>1. m - 1 \in 0..n /\ m - 1 \notin missing
    BY <1>2, <1>3, <1>5
  <2>2. PICK f : KeptUpTo(m - 1, s, v, f)
    BY <2>1
  <2> DEFINE last == IF OfViewer(s[m], v) THEN Append(f[m - 1], s[m]) ELSE f[m - 1]
             g == [i \in 0..m |-> IF i = m THEN last ELSE f[i]]
  <2>3. \A i \in 0..(m - 1) : f[i] = IF i = 0 THEN <<>>
                                     ELSE IF OfViewer(s[i], v) THEN Append(f[i - 1], s[i]) ELSE f[i - 1]
    BY <2>2 DEF KeptUpTo
  <2>4. \A i \in 0..m : g[i] = IF i = 0 THEN <<>>
                               ELSE IF OfViewer(s[i], v) THEN Append(g[i - 1], s[i]) ELSE g[i - 1]
    <3> SUFFICES ASSUME NEW i \in 0..m
                 PROVE  g[i] = IF i = 0 THEN <<>>
                               ELSE IF OfViewer(s[i], v) THEN Append(g[i - 1], s[i]) ELSE g[i - 1]
      OBVIOUS
    <3>1. CASE i = m
      <4>1. g[m] = last /\ g[m - 1] = f[m - 1]
        BY <1>3, <1>5
      <4> QED
        BY <1>5, <3>1, <4>1
    <3>2. CASE i # m
      <4>1. i \in 0..(m - 1) /\ g[i] = f[i]
        BY <1>3, <3>2
      <4>2. CASE i = 0
        BY <4>1, <4>2, <2>3
      <4>3. CASE i # 0
        <5>1. g[i - 1] = f[i - 1]
          BY <1>3, <4>1, <4>3
        <5> QED
          BY <4>1, <4>3, <5>1, <2>3
      <4> QED
        BY <4>2, <4>3
    <3> QED
      BY <3>1, <3>2
  <2>5. KeptUpTo(m, s, v, g)
    <3> DEFINE h == [i \in 0..m |-> IF i = 0 THEN <<>>
                               ELSE IF OfViewer(s[i], v) THEN Append(g[i - 1], s[i]) ELSE g[i - 1]]
    <3>1. g = h
      <4> HIDE DEF last
      <4> QED
        BY <2>4
    <3> QED
      BY <3>1 DEF KeptUpTo
  <2> QED
    BY <1>3, <2>5
<1> QED
  BY <1>4, <1>5

\* What is told of the first events does not depend on the others.
LEMMA KeptAgree ==
  ASSUME NEW m \in Nat, NEW n \in Nat, m <= n, NEW s, NEW t, \A i \in 1..m : s[i] = t[i], NEW v,
         NEW f, KeptUpTo(m, s, v, f), NEW g, KeptUpTo(n, t, v, g)
  PROVE  f[m] = g[m]
<1> DEFINE apart == {i \in 0..m : f[i] # g[i]}
<1> SUFFICES ASSUME apart # {} PROVE FALSE
  OBVIOUS
<1>1. apart \in SUBSET Nat
  OBVIOUS
<1>2. PICK k \in apart : \A i \in apart : k <= i
  <2> HIDE DEF apart
  <2> QED
    BY <1>1, LeastNumber
<1>3. /\ k \in 0..m
      /\ f[k] = IF k = 0 THEN <<>> ELSE IF OfViewer(s[k], v) THEN Append(f[k - 1], s[k]) ELSE f[k - 1]
      /\ g[k] = IF k = 0 THEN <<>> ELSE IF OfViewer(t[k], v) THEN Append(g[k - 1], t[k]) ELSE g[k - 1]
  <2>1. k \in 0..m /\ k \in 0..n
    OBVIOUS
  <2> HIDE DEF apart
  <2>2. f[k] = IF k = 0 THEN <<>> ELSE IF OfViewer(s[k], v) THEN Append(f[k - 1], s[k]) ELSE f[k - 1]
    BY <2>1 DEF KeptUpTo
  <2>3. g[k] = IF k = 0 THEN <<>> ELSE IF OfViewer(t[k], v) THEN Append(g[k - 1], t[k]) ELSE g[k - 1]
    BY <2>1 DEF KeptUpTo
  <2> QED
    BY <2>1, <2>2, <2>3
<1>4. k # 0
  BY <1>2, <1>3
<1>5. k - 1 \in 0..m /\ k \in 1..m
  BY <1>3, <1>4
<1>6. f[k - 1] = g[k - 1]
  BY <1>2, <1>5
<1> QED
  BY <1>2, <1>3, <1>4, <1>5, <1>6

\* OfTenant, without its recursion.
LEMMA OfTenantIs ==
  ASSUME NEW s, Len(s) \in Nat, NEW v
  PROVE  \E f : KeptUpTo(Len(s), s, v, f) /\ OfTenant(s, v) = f[Len(s)]
<1> DEFINE f == CHOOSE g : KeptUpTo(Len(s), s, v, g)
<1>1. KeptUpTo(Len(s), s, v, f)
  BY KeptExists
<1>2. OfTenant(s, v) = f[Len(s)]
  BY DEF OfTenant, KeptUpTo, OfViewer
<1> QED
  BY <1>1, <1>2

\* An empty log tells nobody anything.
LEMMA OfTenantEmpty == \A v : OfTenant(<<>>, v) = <<>>
<1> TAKE v
<1>1. PICK f : KeptUpTo(0, <<>>, v, f) /\ OfTenant(<<>>, v) = f[0]
  BY OfTenantIs
<1> QED
  BY <1>1 DEF KeptUpTo

\* One event more is told to the views of its tenant (stream.ts:35-48).
LEMMA OfTenantAppend ==
  ASSUME NEW E, NEW s \in Seq(E), NEW e \in E, NEW v
  PROVE  OfTenant(Append(s, e), v) = IF OfViewer(e, v) THEN Append(OfTenant(s, v), e) ELSE OfTenant(s, v)
<1> DEFINE t == Append(s, e)
           n == Len(s)
<1>1. n \in Nat /\ Len(t) = n + 1 /\ t[n + 1] = e /\ \A i \in 1..n : s[i] = t[i]
  OBVIOUS
<1> HIDE DEF t, n
<1>2. PICK f : KeptUpTo(n, s, v, f) /\ OfTenant(s, v) = f[n]
  BY <1>1, OfTenantIs DEF n
<1>3. PICK g : KeptUpTo(n + 1, t, v, g) /\ OfTenant(t, v) = g[n + 1]
  BY <1>1, OfTenantIs
<1>4. f[n] = g[n]
  BY <1>1, <1>2, <1>3, KeptAgree
<1>5. n + 1 \in 0..(n + 1) /\ n + 1 # 0 /\ (n + 1) - 1 = n
  BY <1>1
<1>6. g[n + 1] = IF OfViewer(t[n + 1], v) THEN Append(g[(n + 1) - 1], t[n + 1]) ELSE g[(n + 1) - 1]
  BY <1>3, <1>5 DEF KeptUpTo
<1> QED
  BY <1>1, <1>2, <1>3, <1>4, <1>5, <1>6 DEF t

\* What is told is a sequence of events.
LEMMA OfTenantTyped ==
  ASSUME NEW E, NEW s \in Seq(E), NEW v
  PROVE  OfTenant(s, v) \in Seq(E)
<1> DEFINE bad == {k \in Nat : \E t \in Seq(E) : Len(t) = k /\ OfTenant(t, v) \notin Seq(E)}
<1> SUFFICES ASSUME bad # {} PROVE FALSE
  BY LenProperties
<1>1. bad \in SUBSET Nat
  OBVIOUS
<1>2. PICK k \in bad : \A i \in bad : k <= i
  <2> HIDE DEF bad
  <2> QED
    BY <1>1, LeastNumber
<1>3. PICK t \in Seq(E) : Len(t) = k /\ OfTenant(t, v) \notin Seq(E)
  OBVIOUS
<1>4. k \in Nat /\ k # 0
  BY <1>3, OfTenantEmpty, EmptySeq
<1> DEFINE u == SubSeq(t, 1, k - 1)
<1>5. u \in Seq(E) /\ Len(u) = k - 1 /\ t[k] \in E /\ t = Append(u, t[k])
  BY <1>3, <1>4
<1>6. k - 1 \in Nat /\ k - 1 \notin bad
  BY <1>2, <1>4
<1>7. \A x \in Seq(E) : Len(x) = k - 1 => OfTenant(x, v) \in Seq(E)
  BY <1>6
<1> HIDE DEF u, bad
<1>8. OfTenant(u, v) \in Seq(E)
  BY <1>5, <1>7
<1>9. OfTenant(Append(u, t[k]), v) = IF OfViewer(t[k], v) THEN Append(OfTenant(u, v), t[k]) ELSE OfTenant(u, v)
  BY <1>5, OfTenantAppend
<1>10. OfTenant(Append(u, t[k]), v) \in Seq(E)
  BY <1>5, <1>8, <1>9
<1> QED
  BY <1>3, <1>5, <1>10

\* Of a log in two parts, a view is told first of the one, then of the other.
LEMMA OfTenantConcat ==
  ASSUME NEW E, NEW s \in Seq(E), NEW t \in Seq(E), NEW v
  PROVE  OfTenant(s \o t, v) = OfTenant(s, v) \o OfTenant(t, v)
<1> DEFINE bad == {k \in Nat : \E u \in Seq(E) : Len(u) = k /\ OfTenant(s \o u, v) # OfTenant(s, v) \o OfTenant(u, v)}
<1> SUFFICES ASSUME bad # {} PROVE FALSE
  BY LenProperties
<1>1. bad \in SUBSET Nat
  OBVIOUS
<1>2. PICK k \in bad : \A i \in bad : k <= i
  <2> HIDE DEF bad
  <2> QED
    BY <1>1, LeastNumber
<1>3. PICK u \in Seq(E) : Len(u) = k /\ OfTenant(s \o u, v) # OfTenant(s, v) \o OfTenant(u, v)
  OBVIOUS
<1>4. OfTenant(s, v) \in Seq(E)
  BY OfTenantTyped
<1>5. k \in Nat /\ k # 0
  <2>1. CASE u = <<>>
    BY <1>3, <1>4, <2>1, OfTenantEmpty, ConcatEmptySeq
  <2> QED
    BY <1>3, <2>1
<1> DEFINE w == SubSeq(u, 1, k - 1)
           e == u[k]
<1>6. w \in Seq(E) /\ Len(w) = k - 1 /\ e \in E /\ u = Append(w, e)
  BY <1>3, <1>5
<1>7. k - 1 \in Nat /\ k - 1 \notin bad
  BY <1>2, <1>5
<1>14. \A x \in Seq(E) : Len(x) = k - 1 => OfTenant(s \o x, v) = OfTenant(s, v) \o OfTenant(x, v)
  BY <1>7
<1> HIDE DEF w, bad, e
<1>8. OfTenant(s \o w, v) = OfTenant(s, v) \o OfTenant(w, v)
  BY <1>6, <1>14
<1>9. OfTenant(w, v) \in Seq(E)
  BY <1>6, OfTenantTyped
<1>10. s \o w \in Seq(E) /\ s \o u = Append(s \o w, e)
  BY <1>6
<1>15. OfTenant(Append(s \o w, e), v) = IF OfViewer(e, v) THEN Append(OfTenant(s \o w, v), e) ELSE OfTenant(s \o w, v)
  BY <1>6, <1>10, OfTenantAppend
<1>11. OfTenant(s \o u, v) = IF OfViewer(e, v) THEN Append(OfTenant(s \o w, v), e) ELSE OfTenant(s \o w, v)
  BY <1>10, <1>15
<1>12. OfTenant(u, v) = IF OfViewer(e, v) THEN Append(OfTenant(w, v), e) ELSE OfTenant(w, v)
  BY <1>6, OfTenantAppend
<1>13. \A a, b \in Seq(E) : a \o Append(b, e) = Append(a \o b, e)
  BY <1>6
<1>16. OfTenant(s, v) \o Append(OfTenant(w, v), e) = Append(OfTenant(s, v) \o OfTenant(w, v), e)
  BY <1>4, <1>9, <1>13
<1>17. OfTenant(s \o u, v) = OfTenant(s, v) \o OfTenant(u, v)
  <2>1. CASE OfViewer(e, v)
    BY <1>8, <1>11, <1>12, <1>16, <2>1
  <2>2. CASE ~OfViewer(e, v)
    BY <1>8, <1>11, <1>12, <2>2
  <2> QED
    BY <2>1, <2>2
<1> QED
  BY <1>3, <1>17
-------------------------------------------------------------------------------

\* The last events of a log, one or more or none.
Ends(s, t) == \E p \in Seq(Recorded) : t = p \o s

\* Three parts of a log make it, whichever two are put together first.
LEMMA Concatenated == \A r, s, t \in Seq(Recorded) : (r \o s) \o t = r \o (s \o t)
<1> TAKE r, s, t \in Seq(Recorded)
<1> QED
  BY ConcatAssociative

\* The same of what a view is told of two parts of a log.
LEMMA ToldInParts ==
  \A v : \A s, t \in Seq(Recorded) : OfTenant(s \o t, v) = OfTenant(s, v) \o OfTenant(t, v)
<1> TAKE v
<1> TAKE s, t \in Seq(Recorded)
<1> QED
  BY OfTenantConcat

\* The last n (InvocationStream.recent, stream.ts:50-58).
LEMMA RecentEnds ==
  ASSUME NEW s \in Seq(Recorded), NEW n \in Nat
  PROVE  Recent(s, n) \in Seq(Recorded) /\ Ends(Recent(s, n), s)
<1> DEFINE k == IF Len(s) > n THEN Len(s) - n ELSE 0
<1>1. k \in 0..Len(s) /\ Len(s) \in Nat
  OBVIOUS
<1>2. Recent(s, n) = SubSeq(s, k + 1, Len(s))
  BY DEF Recent
<1> HIDE DEF k
<1>3. SubSeq(s, 1, k) \in Seq(Recorded) /\ SubSeq(s, k + 1, Len(s)) \in Seq(Recorded)
  BY <1>1
<1>4. s = SubSeq(s, 1, k) \o SubSeq(s, k + 1, Len(s))
  <2>1. 1 \in 1..(Len(s) + 1) /\ k \in (1 - 1)..Len(s) /\ Len(s) \in k..Len(s)
    BY <1>1
  <2>2. SubSeq(s, 1, k) \o SubSeq(s, k + 1, Len(s)) = SubSeq(s, 1, Len(s))
    BY <2>1, ConcatAdjacentSubSeq
  <2> QED
    BY <2>2, SubSeqFull
<1> QED
  BY <1>2, <1>3, <1>4 DEF Ends

\* What a log ends with is the last of it.
LEMMA EndIsRecent ==
  ASSUME NEW p \in Seq(Recorded), NEW s \in Seq(Recorded), NEW t, t = p \o s
  PROVE  s = Recent(t, Len(s)) /\ s = SubSeq(t, Len(p) + 1, Len(t))
<1>1. t \in Seq(Recorded) /\ Len(t) = Len(p) + Len(s) /\ Len(p) \in Nat /\ Len(s) \in Nat
  OBVIOUS
<1>2. \A i \in 1..Len(s) : t[Len(p) + i] = s[i]
  OBVIOUS
<1> DEFINE u == SubSeq(t, Len(p) + 1, Len(t))
<1>3. u \in Seq(Recorded) /\ Len(u) = Len(s) /\ \A i \in 1..Len(s) : u[i] = s[i]
  BY <1>1, <1>2
<1> HIDE DEF u
<1>4. s = u
  BY <1>3, SeqEqual
<1>5. (IF Len(t) > Len(s) THEN Len(t) - Len(s) + 1 ELSE 1) = Len(p) + 1
  BY <1>1
<1> QED
  BY <1>4, <1>5 DEF Recent, u

\* A log that ends with one that ends with a third ends with the third.
LEMMA EndsEnd ==
  ASSUME NEW r \in Seq(Recorded), NEW s \in Seq(Recorded), NEW t, Ends(r, s), Ends(s, t)
  PROVE  Ends(r, t)
<1>1. PICK p \in Seq(Recorded) : s = p \o r
  BY DEF Ends
<1>2. PICK q \in Seq(Recorded) : t = q \o s
  BY DEF Ends
<1>3. (q \o p) \o r = q \o (p \o r)
  BY Concatenated
<1>4. q \o p \in Seq(Recorded)
  BY ConcatProperties
<1> QED
  BY <1>1, <1>2, <1>3, <1>4 DEF Ends

\* What follows a log follows what it ends with.
LEMMA EndsPart ==
  ASSUME NEW s \in Seq(Recorded), NEW t, NEW u \in Seq(Recorded), Ends(s, t)
  PROVE  Ends(s \o u, t \o u)
<1>1. PICK p \in Seq(Recorded) : t = p \o s
  BY DEF Ends
<1>2. (p \o s) \o u = p \o (s \o u)
  BY <1>1, Concatenated
<1> QED
  BY <1>1, <1>2 DEF Ends

\* A view is told last of what a log ends with.
LEMMA TenantEnds ==
  ASSUME NEW s \in Seq(Recorded), NEW t, Ends(s, t), NEW v
  PROVE  OfTenant(s, v) \in Seq(Recorded) /\ Ends(OfTenant(s, v), OfTenant(t, v))
<1>1. PICK p \in Seq(Recorded) : t = p \o s
  BY DEF Ends
<1>2. OfTenant(p, v) \in Seq(Recorded) /\ OfTenant(s, v) \in Seq(Recorded)
  BY OfTenantTyped
<1>3. OfTenant(t, v) = OfTenant(p, v) \o OfTenant(s, v)
  BY <1>1, OfTenantConcat
<1> QED
  BY <1>2, <1>3 DEF Ends
-------------------------------------------------------------------------------

\* What the stream was told of call c, whose state is x: once, after its row, and what its
\* row says.
ToldOf(c, x) ==
  /\ \A i \in DOMAIN events : events[i].call = c =>
       /\ x.stage \in {"failed", "answered", "gone"} /\ x.audited
       /\ \A j \in DOMAIN events : events[j].call = c => i = j
       /\ \A j \in DOMAIN rows : rows[j].call = c => events[i] = rows[j]
  /\ (x.stage = "failed" /\ x.audited) \/ (x.stage = "answered" /\ x.server # NoServer) =>
       \E i \in DOMAIN events : events[i].call = c
  /\ x.stage = "publish" =>
       \A j \in DOMAIN rows : rows[j].call = c =>
         rows[j] = [call |-> c, decision |-> x.decision, reason |-> x.denyReason]

\* What view v was sent is the last its tenant was told of, from before it opened on.
SentTo(v) ==
  /\ live[v].sent \in Seq(Recorded) /\ Ends(live[v].sent, OfTenant(events, v))
  /\ \E p, q \in Seq(Recorded) :
       /\ events = p \o q /\ Len(p) = live[v].since
       /\ Len(OfTenant(q, v)) <= Len(live[v].sent)

StreamInv ==
  /\ events \in Seq(Recorded) /\ history \in Seq(Recorded) /\ Ends(history, events)
  /\ live \in [Viewer -> [open : BOOLEAN, since : Nat, sent : Seq(Recorded)]]
  /\ \A c \in Caller : ToldOf(c, call[c])
  /\ \A v \in Viewer : live[v].open => SentTo(v)

\* Nobody has been told anything.
LEMMA StreamBegins == Init => StreamInv
<1> SUFFICES ASSUME Init PROVE StreamInv
  OBVIOUS
<1>1. events = <<>> /\ rows = <<>> /\ history = <<>> /\ live = [v \in Viewer |-> Closed]
  BY DEF Init
<1>2. <<>> \in Seq(Recorded) /\ Ends(<<>>, <<>>)
  <2>1. <<>> \in Seq(Recorded)
    BY EmptySeq
  <2>2. <<>> = <<>> \o <<>>
    BY <2>1, ConcatEmptySeq
  <2> QED
    BY <2>1, <2>2 DEF Ends
<1>3. Closed \in [open : BOOLEAN, since : Nat, sent : Seq(Recorded)] /\ ~Closed.open
  BY <1>2 DEF Closed
<1>4. \A c \in Caller : ToldOf(c, call[c])
  BY <1>1 DEF ToldOf, Init, NewCall
<1> QED
  BY <1>1, <1>2, <1>3, <1>4 DEF StreamInv

\* A step of call c leaves the other calls as they are.
LEMMA OthersStay ==
  ASSUME PipelineTyped, NEW c \in Caller, Advance(c) \/ Upstream(c), NEW d \in Caller, d # c
  PROVE  call'[d] = call[d]
BY DEF PipelineTyped, Advance, Upstream, Authenticate, ResolveTenant, Admit, RateLimit, MintPolicyToken, PolicyFails,
       Exchange, PoolStep, Dispatch, ToolFails, HandleError, AppendStores, AppendRejects, Publish, HandshakeDone,
       PolicyAnswered, ToolRuns, ToolAnswered, GoOn, Throw, Refuse, pipelineVars

\* Before its row a call is not told of, and no stage up to the tool's answer, nor the error

\* handler the first time, does more than prepare it (tools.ts:150-180).
LEMMA EarlyKeepsTold ==
  ASSUME CallsInv, NEW c \in Caller, ToldOf(c, call[c]), call[c].stage \in Early \cup {"dispatch"},
         Advance(c) \/ Upstream(c)
  PROVE  ToldOf(c, call[c])' /\ UNCHANGED streamVars
<1>1. call[c] \in Invocation /\ ~call[c].audited /\ \A i \in DOMAIN events : events[i].call # c
  BY DEF CallsInv, PipelineTyped, Accounts, Account, ToldOf
<1> DEFINE Prepared == /\ call'[c].stage \in Early \cup {"dispatch", "failed", "append"}
                       /\ call'[c].stage = "failed" => ~call'[c].audited
<1> USE DEF At
<1>2. ASSUME NEW stage \in Early \cup {"dispatch"}, GoOn(c, stage) PROVE Prepared
  BY <1>1, <1>2 DEF GoOn, CallsInv, PipelineTyped, Invocation, Early
<1>3. ASSUME NEW code, Throw(c, code) PROVE Prepared
  BY <1>1, <1>3 DEF Throw, CallsInv, PipelineTyped, Invocation, Early
<1>4. ASSUME NEW code, NEW reason, Refuse(c, code, reason) PROVE Prepared
  BY <1>1, <1>4 DEF Refuse, CallsInv, PipelineTyped, Invocation, Early
<1>5. ASSUME Admit(c) PROVE Prepared
  <2>1. ASSUME NEW u \in Url, call' = [call EXCEPT ![c].server = u, ![c].stage = "rate"] PROVE Prepared
    BY <1>1, <2>1 DEF CallsInv, PipelineTyped, Invocation, Early
  <2>2. ASSUME NEW u \in Url, call' = [call EXCEPT ![c].server = u, ![c].stage = "failed", ![c].failure = "scope_denied",
                                              ![c].decision = "deny", ![c].denyReason = "scope"]
        PROVE  Prepared
    BY <1>1, <2>2 DEF CallsInv, PipelineTyped, Invocation, Early
  <2> HIDE DEF Prepared
  <2> QED
    BY <1>3, <1>5, <2>1, <2>2 DEF Admit
<1>6. ASSUME PolicyAnswered(c) PROVE Prepared
  BY <1>1, <1>3, <1>6 DEF PolicyAnswered, CallsInv, PipelineTyped, Invocation, Early
<1>7. ASSUME ToolAnswered(c) PROVE Prepared
  BY <1>1, <1>7 DEF ToolAnswered, CallsInv, PipelineTyped, Invocation, Early
<1>8. ASSUME PoolStep(c) \/ HandshakeDone(c) \/ ToolRuns(c) \/ Dispatch(c) PROVE Prepared
  <2>1. call' = call
    BY <1>8 DEF PoolStep, HandshakeDone, ToolRuns, Dispatch, pipelineVars
  <2> QED
    BY <1>1, <2>1
<1>9. ASSUME \/ Authenticate(c) \/ ResolveTenant(c) \/ RateLimit(c) \/ MintPolicyToken(c)
             \/ PolicyFails(c) \/ Exchange(c) \/ ToolFails(c)
      PROVE  Prepared
  <2>1. \/ \E stage \in Early \cup {"dispatch"} : GoOn(c, stage)
        \/ \E code : Throw(c, code)
        \/ \E code, reason : Refuse(c, code, reason)
    BY <1>9 DEF Authenticate, ResolveTenant, RateLimit, MintPolicyToken, PolicyFails, Exchange, ToolFails, Early
  <2> HIDE DEF Prepared
  <2> QED
    BY <1>2, <1>3, <1>4, <2>1
<1> HIDE DEF Prepared
<1>10. call[c].stage \notin {"failed", "append", "orphan", "publish"}
  BY DEF Early
<1>11. ~HandleError(c) /\ ~AppendStores(c) /\ ~AppendRejects(c) /\ ~Publish(c)
  BY <1>10 DEF HandleError, AppendStores, AppendRejects, Publish
<1>12. Prepared
  BY <1>5, <1>6, <1>7, <1>8, <1>9, <1>11 DEF Advance, Upstream
<1>13. UNCHANGED <<rows, streamVars>>
  <2>1. CASE PoolStep(c) \/ HandshakeDone(c)
    BY <2>1 DEF PoolStep, HandshakeDone, pipelineVars, streamVars
  <2>2. CASE \/ Authenticate(c) \/ ResolveTenant(c) \/ Admit(c) \/ RateLimit(c) \/ MintPolicyToken(c)
             \/ PolicyFails(c) \/ Exchange(c) \/ Dispatch(c) \/ ToolFails(c) \/ PolicyAnswered(c)
             \/ ToolRuns(c) \/ ToolAnswered(c)
    <3>1. UNCHANGED logVars
      BY <2>2 DEF Authenticate, ResolveTenant, Admit, RateLimit, MintPolicyToken, PolicyFails, Exchange, Dispatch,
         ToolFails, PolicyAnswered, ToolRuns, ToolAnswered
    <3> QED
      BY <3>1 DEF logVars
  <2> QED
    BY <1>11, <2>1, <2>2 DEF Advance, Upstream
<1> QED
  BY <1>1, <1>12, <1>13 DEF Prepared, ToldOf, streamVars, Early

\* The error handler answers a call the stream was told of, or has it recorded

\* (tools.ts:109-122).
LEMMA HandledKeepsTold ==
  ASSUME CallsInv, NEW c \in Caller, ToldOf(c, call[c]), HandleError(c)
  PROVE  ToldOf(c, call[c])' /\ UNCHANGED streamVars
<1>1. call[c] \in Invocation /\ call[c].stage = "failed" /\ UNCHANGED <<rows, streamVars>>
  BY DEF CallsInv, PipelineTyped, HandleError, At, logVars
<1>2. CASE ~Invoked(c) /\ GoOn(c, "answered")
  <2>1. call'[c].stage = "answered" /\ call'[c].audited = call[c].audited /\ call'[c].server = NoServer
    BY <1>1, <1>2 DEF CallsInv, PipelineTyped, Invocation, Invoked, GoOn
  <2> QED
    BY <1>1, <2>1 DEF ToldOf, streamVars
<1>3. CASE Invoked(c)
  <2>1. /\ call'[c].stage = IF call[c].audited THEN "answered" ELSE "append"
        /\ call'[c].audited
    BY <1>1, <1>3 DEF CallsInv, PipelineTyped, Invocation, Invoked, HandleError
  <2> QED
    BY <1>1, <2>1 DEF ToldOf, streamVars
<1> QED
  BY <1>2, <1>3 DEF HandleError

\* The row that is appended is the one the stream will be told of (audit.ts:62-87).
LEMMA AppendKeepsTold ==
  ASSUME CallsInv, NEW c \in Caller, ToldOf(c, call[c]), AppendStores(c) \/ AppendRejects(c)
  PROVE  ToldOf(c, call[c])' /\ UNCHANGED streamVars
<1>1. /\ call[c] \in Invocation /\ call[c].stage \in {"append", "orphan"} /\ UNCHANGED streamVars
      /\ rows \in Seq(Recorded) /\ rows' \in {rows, Append(rows, RowOf(c))}
      /\ \A j \in DOMAIN rows : rows[j].call # c
      /\ \A i \in DOMAIN events : events[i].call # c
  BY DEF CallsInv, PipelineTyped, Accounts, Account, AppendStores, AppendRejects, logVars, ToldOf
<1>2. /\ call'[c].stage \in {"publish", "gone"} /\ call'[c].decision = call[c].decision
      /\ call'[c].denyReason = call[c].denyReason
  BY <1>1 DEF CallsInv, PipelineTyped, Invocation, AppendStores, AppendRejects, GoOn, At
<1>3. \A j \in DOMAIN rows' : rows'[j].call = c => rows'[j] = RowOf(c)
  BY <1>1
<1> QED
  BY <1>1, <1>2, <1>3 DEF ToldOf, streamVars, RowOf

\* The call that is published becomes the stream's last event, and no other call is told of

\* (audit.ts:82-87).
LEMMA PublishKeepsTold ==
  ASSUME CallsInv, events \in Seq(Recorded), NEW c \in Caller, Publish(c),
         \A d \in Caller : ToldOf(d, call[d])
  PROVE  RowOf(c) \in Recorded /\ \A d \in Caller : ToldOf(d, call[d])'
<1> DEFINE n == Len(events) + 1
<1>1. /\ call[c] \in Invocation /\ call[c].stage = "publish" /\ call[c].audited
      /\ ToldOf(c, call[c]) /\ rows' = rows /\ events' = Append(events, RowOf(c))
  BY DEF CallsInv, PipelineTyped, Accounts, Account, Publish, PublishEvent, At
<1>2. RowOf(c) \in Recorded /\ RowOf(c).call = c
  BY <1>1 DEF RowOf, Recorded, Invocation
<1>3. /\ DOMAIN events' = DOMAIN events \cup {n} /\ n \notin DOMAIN events
      /\ events'[n] = RowOf(c) /\ \A i \in DOMAIN events : events'[i] = events[i]
  BY <1>1, <1>2
<1> HIDE DEF n
<1>4. ASSUME NEW d \in Caller, d # c PROVE ToldOf(d, call[d])'
  <2>1. call'[d] = call[d]
    BY <1>4, OthersStay DEF CallsInv, Advance
  <2> QED
    BY <1>1, <1>2, <1>3, <1>4, <2>1 DEF ToldOf
<1>5. ToldOf(c, call[c])'
  <2>1. \A i \in DOMAIN events : events[i].call # c
    BY <1>1 DEF ToldOf
  <2>2. call'[c].stage \in {"answered", "failed"} /\ call'[c].audited
    <3>1. CASE GoOn(c, "answered")
      BY <1>1, <3>1 DEF CallsInv, PipelineTyped, Invocation, GoOn
    <3>2. CASE Throw(c, "internal_error")
      BY <1>1, <3>2 DEF CallsInv, PipelineTyped, Invocation, Throw
    <3> QED
      BY <3>1, <3>2 DEF Publish
  <2>3. \A j \in DOMAIN rows : rows[j].call = c => rows[j] = RowOf(c)
    BY <1>1 DEF ToldOf, RowOf
  <2> QED
    BY <1>1, <1>2, <1>3, <2>1, <2>2, <2>3 DEF ToldOf
<1> QED
  BY <1>2, <1>4, <1>5

\* The history that is kept stays the last of what was published (stream.ts:35-48).
LEMMA HistoryFollows ==
  ASSUME NEW s \in Seq(Recorded), NEW t \in Seq(Recorded), Ends(s, t), NEW e \in Recorded, NEW n \in Nat
  PROVE  Recent(Append(s, e), n) \in Seq(Recorded) /\ Ends(Recent(Append(s, e), n), Append(t, e))
<1>1. PICK p \in Seq(Recorded) : t = p \o s
  BY DEF Ends
<1>2. \A a, b \in Seq(Recorded) : a \o Append(b, e) = Append(a \o b, e)
  OBVIOUS
<1>3. Append(s, e) \in Seq(Recorded) /\ Ends(Append(s, e), Append(t, e))
  <2>1. Append(t, e) = p \o Append(s, e)
    BY <1>1, <1>2
  <2> QED
    BY <2>1, AppendProperties DEF Ends
<1>4. /\ Recent(Append(s, e), n) \in Seq(Recorded)
      /\ Ends(Recent(Append(s, e), n), Append(s, e))
  BY <1>3, RecentEnds
<1> QED
  BY <1>3, <1>4, EndsEnd

\* More events are told to a view after what it was sent, and are all it is told of them.
LEMMA SentFollows ==
  ASSUME NEW t \in Seq(Recorded), NEW s \in Seq(Recorded), NEW u \in Seq(Recorded), NEW v,
         Ends(s, OfTenant(t, v)),
         NEW p \in Seq(Recorded), NEW q \in Seq(Recorded), t = p \o q, Len(OfTenant(q, v)) <= Len(s)
  PROVE  /\ s \o OfTenant(u, v) \in Seq(Recorded) /\ q \o u \in Seq(Recorded)
         /\ Ends(s \o OfTenant(u, v), OfTenant(t \o u, v))
         /\ t \o u = p \o (q \o u)
         /\ Len(OfTenant(q \o u, v)) <= Len(s \o OfTenant(u, v))
<1> DEFINE told == OfTenant(u, v)
           of(x) == OfTenant(x, v)
<1>1. told \in Seq(Recorded) /\ of(q) \in Seq(Recorded)
  BY OfTenantTyped
<1>2. of(t \o u) = of(t) \o told
  BY ToldInParts, Zenon
<1>3. of(q \o u) = of(q) \o told
  BY ToldInParts, Zenon
<1> HIDE DEF told
<1>4. s \o told \in Seq(Recorded) /\ q \o u \in Seq(Recorded)
  BY <1>1, ConcatProperties
<1>5. t \o u = p \o (q \o u)
  BY Concatenated
<1>6. Ends(s \o told, of(t \o u))
  <2> HIDE DEF of
  <2>1. Ends(s, of(t))
    BY DEF of
  <2> QED
    BY <1>1, <1>2, <2>1, EndsPart
<1>7. Len(of(q \o u)) <= Len(s \o told)
  <2> HIDE DEF of
  <2>1. /\ Len(of(q) \o told) = Len(of(q)) + Len(told)
        /\ Len(s \o told) = Len(s) + Len(told)
    BY <1>1, ConcatProperties
  <2>2. Len(told) \in Nat /\ Len(s) \in Nat /\ Len(of(q)) \in Nat
    BY <1>1, LenProperties
  <2>3. Len(of(q)) <= Len(s)
    BY DEF of
  <2> QED
    BY <1>3, <2>1, <2>2, <2>3
<1> QED
  BY <1>4, <1>5, <1>6, <1>7 DEF told

\* What an open view is sent of an event follows what it was sent before (stream.ts:35-48).
LEMMA PublishKeepsSent ==
  ASSUME events \in Seq(Recorded), NEW v \in Viewer, live[v].open, SentTo(v), NEW e \in Recorded,
         live \in [Viewer -> [open : BOOLEAN, since : Nat, sent : Seq(Recorded)]], PublishEvent(e)
  PROVE  SentTo(v)' /\ live'[v] \in [open : BOOLEAN, since : Nat, sent : Seq(Recorded)]
<1> DEFINE one == <<e>>
           sent == live[v].sent
           since == live[v].since
           more == sent \o OfTenant(one, v)
<1>1. one \in Seq(Recorded) /\ Append(events, e) = events \o one
  <2>1. one \in Seq(Recorded)
    OBVIOUS
  <2> QED
    BY <2>1, AppendIsConcat
<1>2. events' = events \o one /\ live'[v] = [live[v] EXCEPT !.sent = more]
  BY <1>1 DEF PublishEvent
<1> HIDE DEF one, more
<1>3. live'[v].sent = more /\ live'[v].since = since
  BY <1>2
<1>4. PICK p, q \in Seq(Recorded) :
        events = p \o q /\ Len(p) = since /\ Len(OfTenant(q, v)) <= Len(sent)
  BY DEF SentTo
<1>5. sent \in Seq(Recorded) /\ Ends(sent, OfTenant(events, v))
  BY DEF SentTo
<1> HIDE DEF sent, since
<1>6. /\ more \in Seq(Recorded) /\ q \o one \in Seq(Recorded)
      /\ Ends(more, OfTenant(events \o one, v))
      /\ events \o one = p \o (q \o one)
      /\ Len(OfTenant(q \o one, v)) <= Len(more)
  BY <1>1, <1>4, <1>5, SentFollows DEF more
<1>7. SentTo(v)'
  BY <1>2, <1>3, <1>4, <1>6 DEF SentTo
<1>8. live'[v] \in [open : BOOLEAN, since : Nat, sent : Seq(Recorded)]
  BY <1>2, <1>6
<1> QED
  BY <1>7, <1>8

\* A view that opens is shown the recent calls of its tenant (api.ts:379-384).
LEMMA OpenStreamKeepsStreamInv ==
  ASSUME StreamInv, NEW v \in Viewer, OpenStream(v) \/ CloseStream(v)
  PROVE  StreamInv'
<1>1. UNCHANGED <<events, history, rows, call>>
  BY DEF OpenStream, CloseStream
<1>2. \A c \in Caller : ToldOf(c, call[c])'
  BY <1>1 DEF StreamInv, ToldOf
<1>3. \A u \in Viewer \ {v} : live'[u] = live[u]
  BY DEF OpenStream, CloseStream, StreamInv
<1>4. \A u \in Viewer \ {v} : live'[u].open => SentTo(u)'
  BY <1>1, <1>3 DEF StreamInv, SentTo, Ends
<1>5. CASE OpenStream(v)
  <2> DEFINE shown == Recent(OfTenant(history, v), Replay)
  <2>1. OfTenant(history, v) \in Seq(Recorded) /\ Ends(OfTenant(history, v), OfTenant(events, v))
    BY TenantEnds DEF StreamInv
  <2>2. shown \in Seq(Recorded) /\ Ends(shown, OfTenant(history, v))
    BY <2>1, RecentEnds, PipelineAssumption
  <2>3. Ends(shown, OfTenant(events, v))
    BY <2>1, <2>2, EndsEnd
  <2>4. events = events \o <<>> /\ <<>> \in Seq(Recorded) /\ Len(OfTenant(<<>>, v)) = 0 /\ Len(events) \in Nat
    BY OfTenantEmpty DEF StreamInv
  <2>5. Len(shown) >= 0
    BY <2>2
  <2> HIDE DEF shown
  <2>6. live' = [live EXCEPT ![v] = [open |-> TRUE, since |-> Len(events), sent |-> shown]]
    BY <1>5 DEF OpenStream, shown
  <2>7. live'[v] = [open |-> TRUE, since |-> Len(events), sent |-> shown]
    BY <2>6 DEF StreamInv
  <2>8. SentTo(v)'
    <3>1. Len(OfTenant(<<>>, v)) <= Len(shown)
      BY <2>4, <2>5
    <3>2. \E p, q \in Seq(Recorded) :
            events = p \o q /\ Len(p) = Len(events) /\ Len(OfTenant(q, v)) <= Len(shown)
      BY <2>4, <3>1 DEF StreamInv
    <3>3. events' = events /\ live'[v].since = Len(events) /\ live'[v].sent = shown
      BY <1>1, <2>7
    <3> QED
      BY <2>2, <2>3, <3>2, <3>3 DEF SentTo
  <2>9. live' \in [Viewer -> [open : BOOLEAN, since : Nat, sent : Seq(Recorded)]]
    BY <2>2, <2>4, <2>6 DEF StreamInv
  <2> QED
    BY <1>1, <1>2, <1>4, <2>8, <2>9 DEF StreamInv, Ends
<1>6. CASE CloseStream(v)
  <2>1. Closed \in [open : BOOLEAN, since : Nat, sent : Seq(Recorded)] /\ ~Closed.open
    BY EmptySeq DEF Closed
  <2>2. live' = [live EXCEPT ![v] = Closed]
    BY <1>6 DEF CloseStream
  <2>3. live' \in [Viewer -> [open : BOOLEAN, since : Nat, sent : Seq(Recorded)]] /\ ~live'[v].open
    BY <2>1, <2>2 DEF StreamInv
  <2> QED
    BY <1>1, <1>2, <1>4, <2>3 DEF StreamInv, Ends
<1> QED
  BY <1>5, <1>6

\* A step that tells the stream nothing: of the calls only c changes, and at most its row is

\* appended.
LEMMA SilentKeepsStreamInv ==
  ASSUME PipelineTyped, StreamInv, NEW c \in Caller, UNCHANGED streamVars, ToldOf(c, call[c])',
         \A d \in Caller : d # c => call'[d] = call[d],
         rows' \in {rows, Append(rows, RowOf(c))}, RowOf(c) \in Recorded
  PROVE  StreamInv'
<1>1. events' = events /\ history' = history /\ live' = live
  BY DEF streamVars
<1>2. ASSUME NEW d \in Caller, d # c PROVE ToldOf(d, call[d])'
  <2>1. ToldOf(d, call[d]) /\ call'[d] = call[d]
    BY <1>2 DEF StreamInv
  <2>2. \A j \in DOMAIN rows' : rows'[j].call = d => j \in DOMAIN rows /\ rows'[j] = rows[j]
    BY <1>2 DEF PipelineTyped, RowOf
  <2> QED
    BY <1>1, <2>1, <2>2 DEF ToldOf
<1>3. \A v \in Viewer : live'[v].open => SentTo(v)'
  BY <1>1 DEF StreamInv, SentTo, Ends
<1> QED
  BY <1>1, <1>2, <1>3 DEF StreamInv, Ends

\* The event of a call that is published: kept, and sent to the views of its tenant.
LEMMA PublishKeepsStreamInv ==
  ASSUME CallsInv, StreamInv, NEW c \in Caller, Publish(c)
  PROVE  StreamInv'
<1> DEFINE e == RowOf(c)
<1>1. e \in Recorded /\ \A d \in Caller : ToldOf(d, call[d])'
  BY PublishKeepsTold DEF StreamInv
<1>2. PublishEvent(e)
  BY DEF Publish
<1> HIDE DEF e
<1>3. events' = Append(events, e) /\ events' \in Seq(Recorded)
  BY <1>1, <1>2, AppendProperties DEF PublishEvent, StreamInv
<1>4. history' \in Seq(Recorded) /\ Ends(history', events')
  <2>1. HistorySize \in Nat /\ history' = Recent(Append(history, e), HistorySize)
    BY <1>2, PipelineAssumption DEF PublishEvent
  <2> QED
    BY <1>1, <1>3, <2>1, HistoryFollows DEF StreamInv
<1>5. ASSUME NEW v \in Viewer
      PROVE  /\ live'[v] \in [open : BOOLEAN, since : Nat, sent : Seq(Recorded)]
             /\ live'[v].open => SentTo(v)'
  <2>1. CASE live[v].open
    BY <1>1, <1>2, <2>1, PublishKeepsSent DEF StreamInv
  <2>2. CASE ~live[v].open
    <3>1. live'[v] = live[v]
      BY <1>2, <2>2 DEF PublishEvent
    <3> QED
      BY <2>2, <3>1 DEF StreamInv
  <2> QED
    BY <2>1, <2>2
<1>6. live' \in [Viewer -> [open : BOOLEAN, since : Nat, sent : Seq(Recorded)]]
  BY <1>2, <1>5 DEF PublishEvent
<1> QED
  BY <1>1, <1>3, <1>4, <1>5, <1>6 DEF StreamInv

\* The replica dies with its stream: what was published was, and no view is open.
LEMMA CrashKeepsStreamInv ==
  ASSUME CallsInv, StreamInv, Crash
  PROVE  StreamInv'
<1>1. /\ events' = events /\ rows' = rows /\ history' = <<>> /\ live' = [v \in Viewer |-> Closed]
  BY DEF Crash
<1>2. ASSUME NEW c \in Caller PROVE ToldOf(c, call[c])'
  <2>1. /\ \/ call'[c].stage = "gone"
           \/ call'[c].stage = "orphan" /\ call[c].stage = "append"
           \/ call'[c].stage = call[c].stage /\ call[c].stage \in {"answered", "orphan", "gone"}
        /\ call'[c].server = call[c].server /\ call'[c].audited = call[c].audited
    <3> DEFINE s == call[c].stage
               t == CASE s = "append" -> "orphan" [] s \in {"answered", "orphan", "gone"} -> s [] OTHER -> "gone"
    <3>1. call[c] \in Invocation /\ call'[c] = [call[c] EXCEPT !.stage = t]
      BY DEF CallsInv, PipelineTyped, Crash
    <3>2. t = "gone" \/ (t = "orphan" /\ s = "append") \/ (t = s /\ s \in {"answered", "orphan", "gone"})
      OBVIOUS
    <3> HIDE DEF t
    <3>3. call'[c].stage = t /\ call'[c].server = call[c].server /\ call'[c].audited = call[c].audited
      BY <3>1 DEF Invocation
    <3> QED
      BY <3>2, <3>3
  <2>2. ToldOf(c, call[c])
    BY DEF StreamInv
  <2> QED
    BY <1>1, <2>1, <2>2 DEF ToldOf
<1>3. /\ Closed \in [open : BOOLEAN, since : Nat, sent : Seq(Recorded)] /\ ~Closed.open
      /\ <<>> \in Seq(Recorded) /\ events = events \o <<>>
  BY EmptySeq DEF Closed, StreamInv
<1>4. Ends(history', events')
  BY <1>1, <1>3 DEF Ends, StreamInv
<1> QED
  BY <1>1, <1>2, <1>3, <1>4 DEF StreamInv

\* Every step keeps it.
LEMMA StepKeepsStreamInv == PipelineInv /\ StreamInv /\ [Next]_vars => StreamInv'
<1> SUFFICES ASSUME PipelineInv, StreamInv, [Next]_vars PROVE StreamInv'
  OBVIOUS
<1>1. CallsInv /\ PipelineTyped /\ \A c \in Caller : ToldOf(c, call[c])
  BY DEF PipelineInv, CallsInv, StreamInv
<1>2. ASSUME NEW c \in Caller, Advance(c) \/ Upstream(c) PROVE StreamInv'
  <2>1. /\ \A d \in Caller : d # c => call'[d] = call[d]
        /\ RowOf(c) \in Recorded
    BY <1>1, <1>2, OthersStay DEF PipelineTyped, Invocation, RowOf, Recorded
  <2>2. CASE Publish(c)
    BY <1>1, <2>2, PublishKeepsStreamInv
  <2>3. ASSUME ~Publish(c) PROVE rows' \in {rows, Append(rows, RowOf(c))}
    BY <1>2, <2>3 DEF Advance, Upstream, Authenticate, ResolveTenant, Admit, RateLimit, MintPolicyToken, PolicyFails,
       Exchange, PoolStep, Dispatch, ToolFails, HandleError, AppendStores, AppendRejects, HandshakeDone,
       PolicyAnswered, ToolRuns, ToolAnswered, pipelineVars, logVars
  <2>4. ASSUME ~Publish(c), ToldOf(c, call[c])', UNCHANGED streamVars PROVE StreamInv'
    BY <1>1, <2>1, <2>3, <2>4, SilentKeepsStreamInv
  <2>5. CASE call[c].stage \in Early \cup {"dispatch"}
    <3>1. ~Publish(c)
      BY <2>5 DEF Publish, At, Early
    <3> QED
      BY <1>1, <1>2, <2>4, <2>5, <3>1, EarlyKeepsTold
  <2>6. CASE HandleError(c)
    <3>1. ~Publish(c)
      BY <2>6 DEF Publish, HandleError, At
    <3> QED
      BY <1>1, <2>4, <2>6, <3>1, HandledKeepsTold
  <2>7. CASE AppendStores(c) \/ AppendRejects(c)
    <3>1. ~Publish(c)
      BY <2>7 DEF Publish, AppendStores, AppendRejects, At
    <3> QED
      BY <1>1, <2>4, <2>7, <3>1, AppendKeepsTold
  <2>8. CASE PoolStep(c) \/ HandshakeDone(c) \/ ToolRuns(c)
    <3>1. call' = call /\ UNCHANGED <<rows, streamVars>>
      BY <2>8 DEF PoolStep, HandshakeDone, ToolRuns, pipelineVars, logVars, streamVars
    <3>2. ToldOf(c, call[c])'
      BY <1>1, <3>1 DEF ToldOf, streamVars
    <3> QED
      BY <2>2, <2>4, <3>1, <3>2
  <2>9. \/ call[c].stage \in Early \cup {"dispatch"}
        \/ Publish(c) \/ HandleError(c) \/ AppendStores(c) \/ AppendRejects(c)
        \/ PoolStep(c) \/ HandshakeDone(c) \/ ToolRuns(c)
    BY <1>2 DEF Advance, Upstream, Authenticate, ResolveTenant, Admit, RateLimit, MintPolicyToken, PolicyFails,
       Exchange, Dispatch, ToolFails, PolicyAnswered, ToolAnswered, At, Early
  <2> QED
    BY <2>2, <2>5, <2>6, <2>7, <2>8, <2>9
<1>3. CASE UNCHANGED vars
  <2>1. UNCHANGED <<call, rows, events, history, live>>
    BY <1>3 DEF vars, pipelineVars
  <2>2. \A c \in Caller : ToldOf(c, call[c])'
    BY <1>1, <2>1 DEF ToldOf
  <2>3. \A v \in Viewer : live'[v].open => SentTo(v)'
    BY <2>1 DEF StreamInv, SentTo, Ends
  <2> QED
    BY <2>1, <2>2, <2>3 DEF StreamInv, Ends
<1> QED
  BY <1>1, <1>2, <1>3, CrashKeepsStreamInv, OpenStreamKeepsStreamInv DEF Next

\* The stream is told of a call once, and before it is answered, what its row says; an open

\* live view is sent the calls of its tenant without a gap, whatever the history kept, the
\* number of views and of calls (audit.ts:62-87, stream.ts:35-48, api.ts:379-384).
THEOREM StreamTellsAll == Spec => []StreamTellsEveryCall
<1>1. ASSUME StreamInv, NEW c \in Caller
      PROVE  /\ Cardinality(EventsFor(c)) <= 1
             /\ At(c, "answered") /\ Invoked(c) => EventsFor(c) # {}
             /\ \A i \in EventsFor(c), j \in RowsFor(c) : events[i] = rows[j]
  <2>1. ToldOf(c, call[c])
    BY <1>1 DEF StreamInv
  <2>2. Cardinality(EventsFor(c)) <= 1
    <3>1. CASE EventsFor(c) = {}
      BY <3>1, FS_EmptySet
    <3>2. ASSUME NEW i \in EventsFor(c) PROVE Cardinality(EventsFor(c)) <= 1
      <4>1. EventsFor(c) = {i}
        BY <2>1 DEF ToldOf, EventsFor
      <4>2. Cardinality({i}) = 1
        BY FS_Singleton
      <4> QED
        BY <4>1, <4>2
    <3> QED
      BY <3>1, <3>2
  <2>3. \A i \in EventsFor(c), j \in RowsFor(c) : events[i] = rows[j]
    BY <2>1 DEF ToldOf, EventsFor, RowsFor
  <2>4. At(c, "answered") /\ Invoked(c) => EventsFor(c) # {}
    BY <2>1 DEF ToldOf, EventsFor, At, Invoked
  <2> QED
    BY <2>2, <2>3, <2>4
<1>2. ASSUME StreamInv, NEW v \in Viewer, live[v].open
      PROVE  /\ live[v].sent = Recent(OfTenant(events, v), Len(live[v].sent))
             /\ Len(live[v].sent) >= Len(OfTenant(SubSeq(events, live[v].since + 1, Len(events)), v))
  <2>1. SentTo(v) /\ live[v].sent \in Seq(Recorded)
    BY <1>2 DEF StreamInv, SentTo
  <2>2. live[v].sent = Recent(OfTenant(events, v), Len(live[v].sent))
    <3>1. PICK p \in Seq(Recorded) : OfTenant(events, v) = p \o live[v].sent
      BY <2>1 DEF SentTo, Ends
    <3> QED
      BY <2>1, <3>1, EndIsRecent
  <2>3. PICK p, q \in Seq(Recorded) :
          events = p \o q /\ Len(p) = live[v].since /\ Len(OfTenant(q, v)) <= Len(live[v].sent)
    BY <2>1 DEF SentTo
  <2>4. q = SubSeq(events, Len(p) + 1, Len(events))
    <3>1. q = SubSeq(p \o q, Len(p) + 1, Len(p \o q))
      BY EndIsRecent
    <3> QED
      BY <2>3, <3>1
  <2>5. /\ Len(OfTenant(q, v)) \in Nat /\ Len(live[v].sent) \in Nat
    BY <2>1, <2>3, OfTenantTyped, LenProperties
  <2> QED
    BY <2>2, <2>3, <2>4, <2>5
<1>3. StreamInv => StreamTellsEveryCall
  BY <1>1, <1>2 DEF StreamTellsEveryCall
<1> QED
  BY <1>3, StreamBegins, StepKeepsStreamInv, PipelineInvHolds, PTL DEF Spec
===============================================================================
