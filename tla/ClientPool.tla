------------------------------- MODULE ClientPool -------------------------------
(***************************************************************************)
(* The pool of connected MCP clients (packages/mcp-runtime/src/            *)
(* client-pool.ts) and the call that runs through it (client.ts).  A       *)
(* caller is in withClient once at a time; the credential it brings with   *)
(* each use is written into the entry it holds and read from there when a  *)
(* request goes out, some awaits later.                                    *)
(*                                                                         *)
(* The pool is single threaded: what withClient does between two awaits is *)
(* one action.  A bucket of idle entries is a set, any member of which may *)
(* be taken: nothing depends on its order.                                 *)
(***************************************************************************)
EXTENDS Naturals, FiniteSets

CONSTANTS Caller,     \* concurrent users of the pool
          Credential, \* what they authenticate with: a bearer token each
          Url,        \* destinations
          Conn,       \* entries; a closed one stands for the next one built
          MaxIdle,    \* idle entries kept per destination
          NoConn,     \* a caller holds no entry
          NoCredential

ASSUME PoolAssumption ==
  MaxIdle \in Nat /\ NoConn \notin Conn /\ NoCredential \notin Credential

VARIABLES idle,       \* idle[u]: the entries waiting for a caller
          open,       \* entries whose connection is up
          headers,    \* headers[k]: whose credential entry k sends
          broken,     \* entries whose last exchange did not complete
          hold,       \* hold[c]: the await of withClient c is at, its arguments, its entry
          request,    \* the request that went out last: for whom, where, whose credential it carries
          closed      \* close was called

poolVars == <<idle, open, headers, broken, hold, request, closed>>

NoRequest == [caller |-> "none"]

NotHolding == [at |-> "out", url |-> "none", with |-> NoCredential, conn |-> NoConn]

PoolInit ==
  /\ idle = [u \in Url |-> {}]
  /\ open = {} /\ broken = {} /\ request = NoRequest
  /\ headers = [k \in Conn |-> NoCredential]
  /\ hold = [c \in Caller |-> NotHolding]
  /\ closed = FALSE

Holding(c, at) == hold[c].at = at

\* Entries a caller has, from the moment they are taken or built.
HeldBy(c) == {hold[c].conn} \ {NoConn}

\* discard: the connections are closed and nothing of them is left.
Discard(closing) ==
  /\ open' = open \ closing
  /\ broken' = broken \ closing
  /\ headers' = [k \in Conn |-> IF k \in closing THEN NoCredential ELSE headers[k]]

-------------------------------------------------------------------------------
(* withClient, await by await *)

\* Faulty: the entry is looked at and stays in its bucket until the call is over.
TakePeeks(c, u, h) ==
  /\ Holding(c, "out")
  /\ \/ /\ idle[u] = {}
        /\ hold' = [hold EXCEPT ![c] = [at |-> "build", url |-> u, with |-> h, conn |-> NoConn]]
     \/ \E k \in idle[u] :
          hold' = [hold EXCEPT ![c] = [at |-> "held", url |-> u, with |-> h, conn |-> k]]
  /\ UNCHANGED <<idle, open, headers, broken, request, closed>>

\* withClient begins: an idle entry leaves the bucket, or there is none.
Take(c, u, h) ==
  /\ Holding(c, "out")
  /\ \/ /\ idle[u] = {}
        /\ hold' = [hold EXCEPT ![c] = [at |-> "build", url |-> u, with |-> h, conn |-> NoConn]]
        /\ UNCHANGED idle
     \/ \E k \in idle[u] :
          /\ idle' = [idle EXCEPT ![u] = @ \ {k}]
          /\ hold' = [hold EXCEPT ![c] = [at |-> "held", url |-> u, with |-> h, conn |-> k]]
  /\ UNCHANGED <<open, headers, broken, request, closed>>

\* build: a new entry is seeded with the credential of its builder, whose handshake
\* goes out under it.
Build(c) ==
  /\ Holding(c, "build")
  /\ Conn \ open # {}
  /\ LET k == CHOOSE k \in Conn \ open : TRUE IN
       /\ open' = open \cup {k}
       /\ headers' = [headers EXCEPT ![k] = hold[c].with]
       /\ hold' = [hold EXCEPT ![c] = [at |-> "connect", url |-> hold[c].url,
                                     with |-> hold[c].with, conn |-> k]]
  /\ request' = [caller |-> c, url |-> hold[c].url, own |-> hold[c].with, as |-> hold[c].with]
  /\ UNCHANGED <<idle, broken, closed>>

Connected(c) ==
  /\ Holding(c, "connect")
  /\ hold' = [hold EXCEPT ![c].at = "held"]
  /\ UNCHANGED <<idle, open, headers, broken, request, closed>>

\* The handshake fails: connect closes the client and withClient rejects.
ConnectFails(c) ==
  /\ Holding(c, "connect")
  /\ Discard(HeldBy(c))
  /\ hold' = [hold EXCEPT ![c] = NotHolding]
  /\ UNCHANGED <<idle, request, closed>>

\* Faulty: the credential of the entry's builder stays in place.
UseKeepsHeaders(c) ==
  /\ Holding(c, "held")
  /\ hold' = [hold EXCEPT ![c].at = "use"]
  /\ UNCHANGED <<idle, open, headers, broken, request, closed>>

\* The holder writes its credential and starts the call.
Use(c) ==
  /\ Holding(c, "held")
  /\ headers' = [headers EXCEPT ![hold[c].conn] = hold[c].with]
  /\ hold' = [hold EXCEPT ![c].at = "use"]
  /\ UNCHANGED <<idle, open, broken, request, closed>>

\* fetch runs, and reads the headers of the entry only now.
Send(c) ==
  /\ Holding(c, "use")
  /\ request' = [caller |-> c, url |-> hold[c].url,
                 own |-> hold[c].with, as |-> headers[hold[c].conn]]
  /\ hold' = [hold EXCEPT ![c].at = "wait"]
  /\ broken' = broken \cup HeldBy(c)
  /\ UNCHANGED <<idle, open, headers, closed>>

\* Whether an entry for u that comes back is kept.
Keeps(u) == ~closed /\ Cardinality(idle[u]) < MaxIdle

\* Faulty: the entry goes back with the credential of its last holder.
GiveUncleared(c) ==
  IF Keeps(hold[c].url)
  THEN /\ idle' = [idle EXCEPT ![hold[c].url] = @ \cup HeldBy(c)]
       /\ broken' = broken \ HeldBy(c)
       /\ UNCHANGED <<open, headers>>
  ELSE Discard(HeldBy(c)) /\ UNCHANGED idle

\* Faulty: whether the pool was closed meanwhile is not looked at.
GiveAfterClose(c) ==
  IF Cardinality(idle[hold[c].url]) < MaxIdle
  THEN /\ idle' = [idle EXCEPT ![hold[c].url] = @ \cup HeldBy(c)]
       /\ headers' = [headers EXCEPT ![hold[c].conn] = NoCredential]
       /\ broken' = broken \ HeldBy(c)
       /\ UNCHANGED open
  ELSE Discard(HeldBy(c)) /\ UNCHANGED idle

\* give: back to the bucket without a credential, or closed.
Give(c) ==
  IF Keeps(hold[c].url)
  THEN /\ idle' = [idle EXCEPT ![hold[c].url] = @ \cup HeldBy(c)]
       /\ headers' = [headers EXCEPT ![hold[c].conn] = NoCredential]
       /\ broken' = broken \ HeldBy(c)
       /\ UNCHANGED open
  ELSE Discard(HeldBy(c)) /\ UNCHANGED idle

\* The call settles: upstream has answered in full.
Answered(c) ==
  /\ Holding(c, "wait")
  /\ Give(c)
  /\ hold' = [hold EXCEPT ![c] = NotHolding]
  /\ UNCHANGED <<request, closed>>

\* Faulty: an entry whose call failed goes back to the pool, too.
FailsAndGives(c) ==
  /\ hold[c].at \in {"use", "wait"}
  /\ idle' = [idle EXCEPT ![hold[c].url] = @ \cup HeldBy(c)]
  /\ headers' = [headers EXCEPT ![hold[c].conn] = NoCredential]
  /\ hold' = [hold EXCEPT ![c] = NotHolding]
  /\ UNCHANGED <<open, broken, request, closed>>

\* The call fails or its timeout expires; the request may still be on its way.
Fails(c) ==
  /\ hold[c].at \in {"use", "wait"}
  /\ Discard(HeldBy(c))
  /\ hold' = [hold EXCEPT ![c] = NotHolding]
  /\ UNCHANGED <<idle, request, closed>>

\* Faulty: the pool is marked closed but the idle connections are forgotten.
ClosePoolForgets ==
  /\ ~closed
  /\ closed' = TRUE
  /\ idle' = [u \in Url |-> {}]
  /\ UNCHANGED <<open, broken, headers, hold, request>>

\* close: idle entries are closed, those in use when they come back.
ClosePool ==
  /\ ~closed
  /\ closed' = TRUE
  /\ Discard(UNION {idle[u] : u \in Url})
  /\ idle' = [u \in Url |-> {}]
  /\ UNCHANGED <<hold, request>>

Proceed(c) ==
  Build(c) \/ Connected(c) \/ ConnectFails(c) \/ Use(c) \/ Send(c) \/ Answered(c) \/ Fails(c)

PoolNext ==
  \/ \E c \in Caller : Proceed(c) \/ \E u \in Url, h \in Credential : Take(c, u, h)
  \/ ClosePool

PoolSpec == PoolInit /\ [][PoolNext]_poolVars

\* Timeouts bound every await of a call, and the process is told to stop one day.
PoolFairSpec ==
  PoolSpec /\ WF_poolVars(ClosePool) /\ \A c \in Caller : WF_poolVars(Proceed(c))

-------------------------------------------------------------------------------
(* Properties *)

\* The pool's state is well formed; a call holds an entry from its first handshake to
\* its outcome, and the connection of an entry it holds is up (withClient, close).
PoolTypeOK ==
  /\ idle \in [Url -> SUBSET Conn]
  /\ open \subseteq Conn /\ broken \subseteq Conn
  /\ headers \in [Conn -> Credential \cup {NoCredential}]
  /\ hold \in [Caller -> [at : {"out", "build", "connect", "held", "use", "wait"},
                          url : Url \cup {"none"}, with : Credential \cup {NoCredential},
                          conn : Conn \cup {NoConn}]]
  /\ request \in {NoRequest} \cup
       [caller : Caller, url : Url, own : Credential, as : Credential \cup {NoCredential}]
  /\ closed \in BOOLEAN
  /\ \A c \in Caller : IF hold[c].at \in {"out", "build"} THEN HeldBy(c) = {}
                      ELSE HeldBy(c) \subseteq open /\ HeldBy(c) # {}

\* "No two calls ever hold the same entry" (client-pool.ts:19-22), nor does a call
\* hold one that another could take, in either destination's bucket.
ExclusiveCheckout ==
  /\ \A c, d \in Caller : c # d => HeldBy(c) \cap HeldBy(d) = {}
  /\ \A c \in Caller, u \in Url : HeldBy(c) \cap idle[u] = {}
  /\ \A u, v \in Url : u # v => idle[u] \cap idle[v] = {}

\* Whatever goes upstream for a caller carries the credential of that call, though it
\* is read from the shared entry long after it was written (client-pool.ts:24-26).
OwnCredential == request # NoRequest => request.as = request.own

\* A connection that may hold half a response is never offered to the next caller
\* (client-pool.ts:35-36), nor one that is closed, and "an idle entry never holds" a
\* credential (client-pool.ts:116-117).
IdleIsClean ==
  \A u \in Url : /\ idle[u] \subseteq open \ broken
                 /\ \A k \in idle[u] : headers[k] = NoCredential

\* Connections are bounded: each open one is held by a caller or idle, and idle ones
\* are at most MaxIdle per destination, none once the pool is closed.
NoConnectionLeaks ==
  /\ open = UNION ({HeldBy(c) : c \in Caller} \cup {idle[u] : u \in Url})
  /\ \A u \in Url : Cardinality(idle[u]) <= (IF closed THEN 0 ELSE MaxIdle)

\* After close the callers still in flight finish, and no idle connection outlives them.
DrainsAfterClose == \A k \in Conn : closed /\ k \in open ~> k \notin open
===============================================================================
