--------------------------- MODULE McpServersProofs ----------------------------
(***************************************************************************)
(* What the MCP servers keep, for any number of calls, connections, rows,  *)
(* records, keys and times.  WarehouseInv says what a pooled connection    *)
(* carries after each statement of the call that holds it.                 *)
(***************************************************************************)
EXTENDS McpServers, FiniteSetTheorems, SequenceTheorems, WellFoundedInduction, TLAPS

-------------------------------------------------------------------------------
(* The warehouse's connections *)

At == {"idle", "verifying", "calling", "running", "failing", "done", "answered"}

\* Where a call holds a connection: from pool.connect to client.release.
Serving == {"running", "failing", "done"}

\* The settings of a connection after p of the statements before a tool's own.
Prepared(p, caller) ==
  [tx |-> IF p >= 1 THEN "open" ELSE "none",
   tenant |-> IF p >= 3 THEN caller.tenant ELSE Login.tenant,
   territory |-> IF p >= 4 THEN caller.territory ELSE Login.territory,
   role |-> IF p >= 5 THEN RoleToDbRole[caller.role] ELSE Login.role]

\* The settings of a connection after p statements of a tool that went well.
Settings(tool, p, caller) ==
  IF tool = "pg.describe_table" \/ p = Len(Statements(tool)) THEN Login ELSE Prepared(p, caller)

Requests ==
  /\ request \in Workload /\ serves \in {request[c].server : c \in Call}
  /\ at \in [Call -> At]

Connections ==
  /\ conn \in [Call -> Conn \cup {NoConn}]
  /\ pos \in [Call -> Nat]
  /\ DOMAIN session = Conn /\ DOMAIN read = Call
  /\ \A c \in Call : at[c] \in Serving <=> conn[c] # NoConn
  /\ \A c, d \in Call : c # d /\ conn[c] # NoConn => conn[c] # conn[d]
  /\ \A c \in Call : at[c] \in Serving => request[c].tool \in WarehouseTools
  /\ \A c \in Call : at[c] \in {"idle", "verifying", "calling"} => pos[c] = 0

\* A call's tool runs only when its token allows it, and a query only when its guard does.
Admitted ==
  \A c \in Call :
    /\ at[c] \in {"calling"} \cup Serving => Allowed(c)
    /\ at[c] = "running" /\ request[c].tool = "pg.query" => Guarded(request[c].args)

\* A connection's settings are those the statements so far have made, and its login role's
\* once its transaction has ended.
Sessions ==
  /\ \A c \in Call :
       /\ at[c] = "running" =>
            /\ pos[c] <= Len(Statements(request[c].tool))
            /\ session[conn[c]] = Settings(request[c].tool, pos[c], Principal(c))
       /\ at[c] = "done" => session[conn[c]] = Login
  /\ PooledIsClean

WarehouseInv == Requests /\ Connections /\ Admitted /\ Sessions

Word == {"begin", "timeout", "tenant", "territory", "role", "select", "commit"}

\* The statements of a tool: its own between the preparation and COMMIT, describe_table's
\* alone (warehouse.ts:94-264).
LEMMA StatementsOf ==
  ASSUME NEW tool \in WarehouseTools
  PROVE  LET s == Statements(tool) IN
         /\ Len(s) \in Nat
         /\ tool = "pg.describe_table" => Len(s) = 1 /\ s[1] = "select"
         /\ tool # "pg.describe_table" =>
              /\ Len(s) >= 6
              /\ s[1] = "begin" /\ s[2] = "timeout" /\ s[3] = "tenant" /\ s[4] = "territory" /\ s[5] = "role"
              /\ \A i \in 6..(Len(s) - 1) : s[i] = "select"
              /\ s[Len(s)] = "commit"
<1> DEFINE n == IF tool = "pg.list_tables" THEN Cardinality(Table) ELSE 1
           own == Selects(tool)
           s == Statements(tool)
<1>1. n \in Nat
  BY WarehouseAssumption, FS_CardinalityType
<1>2. own = [i \in 1..n |-> "select"]
  BY DEF Selects
<1> HIDE DEF n
<1>3. own \in Seq(Word) /\ Len(own) = n /\ \A i \in 1..n : own[i] = "select"
  <2>1. "select" \in Word
    BY DEF Word
  <2>2. own \in Seq(Word)
    BY <1>1, <1>2, <2>1, SeqDef
  <2>3. DOMAIN own = 1..n
    BY <1>2
  <2>4. QED
    BY <1>1, <1>2, <2>2, <2>3, LenProperties
<1> HIDE DEF own
<1>4. CASE tool = "pg.describe_table"
  <2>1. s = own /\ n = 1
    BY <1>4 DEF Statements, own, n
  <2> HIDE DEF s
  <2>2. QED
    BY <1>1, <1>3, <1>4, <2>1 DEF s
<1>5. CASE tool # "pg.describe_table"
  <2>1. s = (Prepare \o own) \o <<"commit">>
    BY <1>5 DEF Statements, own
  <2>2. /\ Prepare \in Seq(Word) /\ Len(Prepare) = 5
        /\ Prepare[1] = "begin" /\ Prepare[2] = "timeout" /\ Prepare[3] = "tenant"
        /\ Prepare[4] = "territory" /\ Prepare[5] = "role"
    BY DEF Prepare, Word
  <2>3. <<"commit">> \in Seq(Word) /\ Len(<<"commit">>) = 1 /\ <<"commit">>[1] = "commit"
    BY DEF Word
  <2> DEFINE p == Prepare \o own
  <2>4. /\ p \in Seq(Word) /\ Len(p) = Len(Prepare) + Len(own)
        /\ \A i \in 1..(Len(Prepare) + Len(own)) : p[i] = IF i <= Len(Prepare) THEN Prepare[i] ELSE own[i - Len(Prepare)]
    <3>1. own \in Seq(Word)
      BY <1>3
    <3>2. Prepare \in Seq(Word)
      BY <2>2
    <3>3. QED
      BY ONLY <3>1, <3>2, ConcatProperties
  <2> HIDE DEF p
  <2>5. LET t == <<"commit">> IN
        /\ Len(p \o t) = Len(p) + Len(t)
        /\ \A i \in 1..(Len(p) + Len(t)) : (p \o t)[i] = IF i <= Len(p) THEN p[i] ELSE t[i - Len(p)]
    BY <2>3, <2>4, ConcatProperties
  <2>6. s = p \o <<"commit">>
    BY <2>1 DEF p
  <2> HIDE DEF s
  <2>7. Len(s) = n + 6 /\ s[n + 6] = "commit" /\ \A i \in 1..(n + 5) : s[i] = p[i]
    BY <1>1, <1>3, <2>2, <2>3, <2>4, <2>5, <2>6
  <2>8. \A i \in 1..5 : s[i] = Prepare[i]
    BY <1>1, <1>3, <2>2, <2>4, <2>7
  <2>9. \A i \in 6..(n + 5) : s[i] = "select"
    BY <1>1, <1>3, <2>2, <2>4, <2>7
  <2>10. Len(s) \in Nat /\ Len(s) >= 6 /\ Len(s) - 1 = n + 5
    BY <1>1, <2>7
  <2>11. QED
    BY <1>5, <2>2, <2>7, <2>8, <2>9, <2>10 DEF s
<1>6. QED
  BY <1>4, <1>5

\* A statement takes a connection from one statement's settings to the next's, and a tool's
\* own runs under the caller's (warehouse.ts:101-117).
LEMMA NextSettings ==
  ASSUME NEW tool \in WarehouseTools, NEW caller, NEW p \in Nat, p < Len(Statements(tool))
  PROVE  LET statement == Statements(tool)[p + 1] IN
         /\ Applied(Settings(tool, p, caller), statement, caller) = Settings(tool, p + 1, caller)
         /\ statement = "select" =>
              Settings(tool, p, caller) = IF tool = "pg.describe_table" THEN Login ELSE ContextOf(caller)
<1> DEFINE s == Statements(tool)
<1>1. /\ Len(s) \in Nat
      /\ tool = "pg.describe_table" => Len(s) = 1 /\ s[1] = "select"
      /\ tool # "pg.describe_table" =>
           /\ Len(s) >= 6
           /\ s[1] = "begin" /\ s[2] = "timeout" /\ s[3] = "tenant" /\ s[4] = "territory" /\ s[5] = "role"
           /\ \A i \in 6..(Len(s) - 1) : s[i] = "select"
           /\ s[Len(s)] = "commit"
  BY StatementsOf
<1> HIDE DEF s
<1>2. CASE tool = "pg.describe_table"
  BY <1>1, <1>2 DEF Settings, Applied, s
<1>3. CASE tool # "pg.describe_table"
  <2>1. p + 1 \in {1, 2, 3, 4, 5} \/ p + 1 \in 6..(Len(s) - 1) \/ p + 1 = Len(s)
    BY <1>1, <1>3 DEF s
  <2>2. Settings(tool, p, caller) = Prepared(p, caller)
    BY <1>3 DEF Settings
  <2>3. p + 1 # Len(s) => Settings(tool, p + 1, caller) = Prepared(p + 1, caller)
    BY <1>3 DEF Settings, s
  <2>4. CASE p = 0
    BY <1>1, <1>3, <2>2, <2>3, <2>4 DEF Prepared, Applied, s
  <2>5. CASE p = 1
    BY <1>1, <1>3, <2>2, <2>3, <2>5 DEF Prepared, Applied, s
  <2>6. CASE p = 2
    BY <1>1, <1>3, <2>2, <2>3, <2>6 DEF Prepared, Applied, s
  <2>7. CASE p = 3
    <3>1. s[p + 1] = "territory" /\ p + 1 # Len(s)
      BY <1>1, <1>3, <2>7
    <3>2. Applied(Prepared(3, caller), "territory", caller) = Prepared(4, caller)
      BY DEF Prepared, Applied
    <3>3. QED
      BY <2>2, <2>3, <2>7, <3>1, <3>2 DEF s
  <2>8. CASE p = 4
    <3>1. s[p + 1] = "role" /\ p + 1 # Len(s)
      BY <1>1, <1>3, <2>8
    <3>2. Applied(Prepared(4, caller), "role", caller) = Prepared(5, caller)
      BY DEF Prepared, Applied
    <3>3. QED
      BY <2>2, <2>3, <2>8, <3>1, <3>2 DEF s
  <2>9. CASE p + 1 \in 6..(Len(s) - 1)
    <3>1. s[p + 1] = "select" /\ p >= 5 /\ p + 1 # Len(s)
      BY <1>1, <1>3, <2>9
    <3>2. Prepared(p, caller) = ContextOf(caller) /\ Prepared(p + 1, caller) = ContextOf(caller)
      BY <3>1 DEF Prepared, ContextOf
    <3>3. Applied(ContextOf(caller), "select", caller) = ContextOf(caller)
      BY DEF Applied
    <3>4. QED
      BY <1>3, <2>2, <2>3, <3>1, <3>2, <3>3 DEF s
  <2>10. CASE p + 1 = Len(s)
    BY <1>1, <1>3, <2>10 DEF Settings, Applied, s
  <2>11. QED
    BY <2>1, <2>4, <2>5, <2>6, <2>7, <2>8, <2>9, <2>10
<1>4. QED
  BY <1>2, <1>3

\* A process begins with nothing borrowed.
LEMMA InitWarehouse == Init => WarehouseInv
<1> SUFFICES ASSUME Init PROVE WarehouseInv
  OBVIOUS
<1>1. /\ request \in Workload /\ serves \in {request[c].server : c \in Call}
      /\ at = [c \in Call |-> "idle"] /\ conn = [c \in Call |-> NoConn] /\ pos = [c \in Call |-> 0]
      /\ session = [d \in Conn |-> Login] /\ read = [c \in Call |-> NoRead]
  BY DEF Init, RuntimeInit, WarehouseInit
<1>2. Requests
  BY <1>1 DEF Requests, At
<1>3. Connections
  BY <1>1 DEF Connections, Serving
<1>4. Admitted
  BY <1>1 DEF Admitted, Serving
<1>5. Sessions
  BY <1>1 DEF Sessions, PooledIsClean, Held
<1>6. QED
  BY <1>2, <1>3, <1>4, <1>5 DEF WarehouseInv

\* What a call does before it is given a connection: its key, its token, its guard
\* (server.ts:132-199, 216-250).
LEMMA QuietWarehouse ==
  ASSUME WarehouseInv, UNCHANGED <<serves, request, conn, pos, session, read>>,
         at' \in [Call -> At],
         \A c \in Call : at'[c] # at[c] =>
           /\ at[c] \notin Serving
           /\ at'[c] \in {"verifying", "calling", "answered"}
           /\ at'[c] # "answered" => at[c] \in {"idle", "verifying"}
           /\ at'[c] = "calling" => Allowed(c)
  PROVE  WarehouseInv'
<1>1. Requests /\ Connections /\ Admitted /\ Sessions
  BY DEF WarehouseInv
<1>2. \A c \in Call : /\ at'[c] \in Serving <=> at[c] \in Serving
                      /\ at'[c] \in Serving => at'[c] = at[c]
                      /\ at'[c] \in {"idle", "verifying", "calling"} => at[c] \in {"idle", "verifying", "calling"}
                      /\ at'[c] = "calling" => Allowed(c)
  BY <1>1 DEF Serving, Requests, Admitted
<1>3. Requests'
  BY <1>1 DEF Requests
<1>4. Connections'
  BY <1>1, <1>2 DEF Connections
<1>5. Admitted'
  BY <1>1, <1>2 DEF Admitted, Allowed, Token, Serving
<1>6. Sessions'
  <2>1. \A c \in Call : at'[c] = "running" => at[c] = "running"
    BY <1>2 DEF Serving
  <2>2. \A c \in Call : at'[c] = "done" => at[c] = "done"
    BY <1>2 DEF Serving
  <2>3. \A c \in Call : Principal(c)' = Principal(c)
    BY DEF Principal, Token
  <2>4. Held' = Held
    BY DEF Held
  <2>5. QED
    BY <1>1, <2>1, <2>2, <2>3, <2>4 DEF Sessions, PooledIsClean
<1>7. QED
  BY <1>3, <1>4, <1>5, <1>6 DEF WarehouseInv

\* Only a tool of the warehouse runs in its process (main.ts:10-45).
LEMMA OwnTools ==
  ASSUME Requests, serves = "postgres", NEW c \in Call
  PROVE  request[c].tool \in WarehouseTools
  BY WorkloadAssumption, WarehouseAssumption DEF Requests

\* pool.connect lends a connection nobody holds, as its last holder left it.
LEMMA ConnectKeeps ==
  ASSUME WarehouseInv, serves = "postgres", NEW c \in Call, Connect(c)
  PROVE  WarehouseInv'
<1>1. Requests /\ Connections /\ Admitted /\ Sessions
  BY DEF WarehouseInv
<1>2. /\ at[c] = "calling" /\ at' = [at EXCEPT ![c] = "running"]
      /\ UNCHANGED <<serves, request, pos, session, read>>
      /\ request[c].tool = "pg.query" => Guarded(request[c].args)
  BY DEF Connect, Step
<1>3. PICK d \in Conn \ Held : conn' = [conn EXCEPT ![c] = d]
  BY DEF Connect
<1>4. /\ at \in [Call -> At] /\ conn \in [Call -> Conn \cup {NoConn}]
      /\ at'[c] = "running" /\ conn'[c] = d /\ d # NoConn /\ d \in Conn
      /\ \A b \in Call \ {c} : at'[b] = at[b] /\ conn'[b] = conn[b] /\ conn[b] # d
  BY <1>1, <1>2, <1>3, WarehouseAssumption DEF Requests, Connections, Held
<1>5. request[c].tool \in WarehouseTools /\ pos[c] = 0 /\ session[d] = Login
  BY <1>1, <1>2, <1>3, OwnTools DEF Connections, Sessions, PooledIsClean
<1>6. Requests'
  BY <1>1, <1>2 DEF Requests, At
<1>7. Connections'
  <2>1. conn' \in [Call -> Conn \cup {NoConn}]
    BY <1>1, <1>3 DEF Connections
  <2>2. \A b \in Call : at'[b] \in Serving <=> conn'[b] # NoConn
    BY <1>1, <1>4 DEF Connections, Serving
  <2>3. \A a, b \in Call : a # b /\ conn'[a] # NoConn => conn'[a] # conn'[b]
    BY <1>1, <1>4 DEF Connections
  <2>4. QED
    BY <1>1, <1>2, <1>4, <1>5, <2>1, <2>2, <2>3 DEF Connections
<1>8. Admitted'
  <2>1. ASSUME NEW b \in Call
        PROVE  /\ at'[b] \in {"calling"} \cup Serving => Allowed(b)
               /\ at'[b] = "running" /\ request[b].tool = "pg.query" => Guarded(request[b].args)
    BY <1>1, <1>2, <1>4 DEF Admitted
  <2>2. QED
    BY <1>2, <2>1 DEF Admitted, Allowed, Token
<1>9. Sessions'
  <2>1. \A b \in Call : Principal(b)' = Principal(b)
    BY <1>2 DEF Principal, Token
  <2>2. Settings(request[c].tool, 0, Principal(c)) = Login
    <3>1. Prepared(0, Principal(c)) = Login
      BY WarehouseAssumption DEF Prepared
    <3>2. QED
      BY <3>1 DEF Settings
  <2>3. Len(Statements(request[c].tool)) \in Nat
    BY <1>5, StatementsOf
  <2>4. ASSUME NEW b \in Call, at'[b] = "running"
        PROVE  /\ pos'[b] <= Len(Statements(request'[b].tool))
               /\ session'[conn'[b]] = Settings(request'[b].tool, pos'[b], Principal(b)')
    <3>1. CASE b = c
      BY <1>2, <1>4, <1>5, <2>1, <2>2, <2>3, <3>1
    <3>2. CASE b # c
      BY <1>1, <1>2, <1>4, <2>1, <2>4, <3>2 DEF Sessions
    <3>3. QED
      BY <3>1, <3>2
  <2>5. \A b \in Call : at'[b] = "done" => session'[conn'[b]] = Login
    BY <1>1, <1>2, <1>4 DEF Sessions
  <2>6. \A e \in Conn : e \notin Held' => e \notin Held
    <3>1. conn[c] = NoConn
      BY <1>1, <1>2 DEF Connections, Serving
    <3>2. ASSUME NEW e \in Held PROVE e \in Held'
      <4>1. PICK b \in Call : conn[b] = e /\ e # NoConn
        BY <3>2 DEF Held
      <4>2. conn'[b] = e
        BY <1>4, <3>1, <4>1
      <4>3. QED
        BY <4>1, <4>2 DEF Held
    <3>3. QED
      BY <3>2
  <2>7. PooledIsClean'
    BY <1>1, <1>2, <2>6 DEF Sessions, PooledIsClean
  <2>8. QED
    BY <2>4, <2>5, <2>7 DEF Sessions
<1>10. QED
  BY <1>6, <1>7, <1>8, <1>9 DEF WarehouseInv

\* A step of the call that holds a connection leaves it these settings, and is next there.
HolderStep(c, settings, next) ==
  /\ conn[c] # NoConn
  /\ session' = [session EXCEPT ![conn[c]] = settings]
  /\ at' = [at EXCEPT ![c] = next]
  /\ pos' \in [Call -> Nat] /\ \A b \in Call \ {c} : pos'[b] = pos[b]
  /\ next = "running" => /\ at[c] = "running"
                         /\ pos'[c] <= Len(Statements(request[c].tool))
                         /\ settings = Settings(request[c].tool, pos'[c], Principal(c))
  /\ next = "done" => settings = Login
  /\ UNCHANGED <<serves, request, conn>> /\ DOMAIN read' = Call

\* A statement of a call, or its rollback, reaches no connection but the call's.
LEMMA HolderKeeps ==
  ASSUME WarehouseInv, NEW c \in Call, NEW settings, NEW next \in {"running", "failing", "done"},
         HolderStep(c, settings, next)
  PROVE  WarehouseInv'
<1> USE DEF HolderStep
<1>1. Requests /\ Connections /\ Admitted /\ Sessions
  BY DEF WarehouseInv
<1>2. /\ at \in [Call -> At] /\ at[c] \in Serving
      /\ at'[c] = next /\ \A b \in Call \ {c} : at'[b] = at[b]
  BY <1>1 DEF Requests, Connections
<1>3. conn[c] \in Conn /\ session'[conn[c]] = settings /\ DOMAIN session' = Conn
      /\ \A d \in Conn \ {conn[c]} : session'[d] = session[d]
  BY <1>1 DEF Connections
<1>4. \A b \in Call \ {c} : conn[b] # conn[c]
  BY <1>1 DEF Connections
<1>5. Requests'
  BY <1>1 DEF Requests, At
<1>6. Connections'
  BY <1>1, <1>2, <1>3 DEF Connections, Serving
<1>7. Admitted'
  <2>1. ASSUME NEW b \in Call
        PROVE  /\ at'[b] \in {"calling"} \cup Serving => Allowed(b)
               /\ at'[b] = "running" /\ request[b].tool = "pg.query" => Guarded(request[b].args)
    BY <1>1, <1>2 DEF Admitted
  <2>2. QED
    BY <2>1 DEF Admitted, Allowed, Token
<1>8. Sessions'
  <2>1. \A b \in Call : Principal(b)' = Principal(b)
    BY DEF Principal, Token
  <2>2. ASSUME NEW b \in Call, at'[b] = "running"
        PROVE  /\ pos'[b] <= Len(Statements(request'[b].tool))
               /\ session'[conn'[b]] = Settings(request'[b].tool, pos'[b], Principal(b)')
    <3>1. CASE b = c
      BY <1>2, <1>3, <2>1, <2>2, <3>1
    <3>2. CASE b # c
      <4>1. at[b] = "running" /\ conn[b] \in Conn \ {conn[c]}
        BY <1>1, <1>2, <1>4, <2>2, <3>2 DEF Connections, Serving
      <4>2. QED
        BY <1>1, <1>3, <2>1, <3>2, <4>1 DEF Sessions
    <3>3. QED
      BY <3>1, <3>2
  <2>3. ASSUME NEW b \in Call, at'[b] = "done"
        PROVE  session'[conn'[b]] = Login
    <3>1. CASE b = c
      BY <1>2, <1>3, <2>3, <3>1
    <3>2. CASE b # c
      <4>1. at[b] = "done" /\ conn[b] \in Conn \ {conn[c]}
        BY <1>1, <1>2, <1>4, <2>3, <3>2 DEF Connections, Serving
      <4>2. QED
        BY <1>1, <1>3, <4>1 DEF Sessions
    <3>3. QED
      BY <3>1, <3>2
  <2>4. PooledIsClean'
    BY <1>1, <1>3 DEF Sessions, PooledIsClean, Held
  <2>5. QED
    BY <2>2, <2>3, <2>4 DEF Sessions
<1>9. QED
  BY <1>5, <1>6, <1>7, <1>8 DEF WarehouseInv

\* client.release gives the connection back as the call's last statement left it.
LEMMA ReleaseKeeps ==
  ASSUME WarehouseInv, NEW c \in Call, Release(c)
  PROVE  WarehouseInv'
<1>1. Requests /\ Connections /\ Admitted /\ Sessions
  BY DEF WarehouseInv
<1>2. /\ Done(c) /\ at' = [at EXCEPT ![c] = "answered"]
      /\ conn' = [conn EXCEPT ![c] = NoConn]
      /\ UNCHANGED <<serves, request, pos, session, read>>
  BY DEF Release, Step
<1>3. /\ at \in [Call -> At] /\ conn \in [Call -> Conn \cup {NoConn}]
      /\ at'[c] = "answered" /\ conn'[c] = NoConn
      /\ \A b \in Call \ {c} : at'[b] = at[b] /\ conn'[b] = conn[b]
  BY <1>1, <1>2 DEF Requests, Connections
<1>4. at[c] \in Serving /\ conn[c] \in Conn /\ conn[c] # NoConn
  BY <1>1, <1>2 DEF Done, Serving, Connections
<1>5. session[conn[c]] = Login
  BY <1>1, <1>2 DEF Done, Sessions, Settings
<1>6. Requests'
  BY <1>1, <1>2 DEF Requests, At
<1>7. Connections'
  BY <1>1, <1>2, <1>3 DEF Connections, Serving
<1>8. Admitted'
  <2>1. ASSUME NEW b \in Call
        PROVE  /\ at'[b] \in {"calling"} \cup Serving => Allowed(b)
               /\ at'[b] = "running" /\ request[b].tool = "pg.query" => Guarded(request[b].args)
    BY <1>1, <1>3 DEF Admitted, Serving
  <2>2. QED
    BY <1>2, <2>1 DEF Admitted, Allowed, Token
<1>9. Sessions'
  <2>1. \A b \in Call : Principal(b)' = Principal(b)
    BY <1>2 DEF Principal, Token
  <2>2. \A b \in Call : at'[b] \in {"running", "done"} => b # c
    BY <1>3
  <2>3. \A d \in Conn \ Held' : d = conn[c] \/ d \notin Held
    <3>1. ASSUME NEW e \in Held, e # conn[c] PROVE e \in Held'
      <4>1. PICK b \in Call : conn[b] = e /\ e # NoConn
        BY <3>1 DEF Held
      <4>2. conn'[b] = e
        BY <1>3, <3>1, <4>1
      <4>3. QED
        BY <4>1, <4>2 DEF Held
    <3>2. QED
      BY <3>1
  <2>4. PooledIsClean'
    BY <1>1, <1>2, <1>5, <2>3 DEF Sessions, PooledIsClean
  <2>5. QED
    BY <1>1, <1>2, <1>3, <2>1, <2>2, <2>4 DEF Sessions
<1>10. QED
  BY <1>6, <1>7, <1>8, <1>9 DEF WarehouseInv

\* When the process ends, every connection is a new one (RestartPool; warehouse.ts:64-74).
LEMMA CrashKeeps ==
  ASSUME WarehouseInv, RestartRuntime, RestartPool
  PROVE  WarehouseInv'
<1>1. Requests /\ Connections /\ Admitted /\ Sessions
  BY DEF WarehouseInv
<1>2. /\ at' = [c \in Call |-> IF at[c] = "idle" THEN "idle" ELSE "answered"]
      /\ conn' = [c \in Call |-> NoConn] /\ session' = [d \in Conn |-> Login]
      /\ UNCHANGED <<serves, request, pos, read>>
  BY DEF RestartRuntime, RestartPool
<1>3. Requests'
  BY <1>1, <1>2 DEF Requests, At
<1>4. Connections'
  BY <1>1, <1>2 DEF Connections, Serving
<1>5. Admitted'
  BY <1>2 DEF Admitted, Serving
<1>6. Sessions'
  BY <1>2 DEF Sessions, PooledIsClean
<1>7. QED
  BY <1>3, <1>4, <1>5, <1>6 DEF WarehouseInv

\* A statement that goes well, one that fails, and the rollback after it
\* (warehouse.ts:96-124, 251-264).
LEMMA ExecuteKeeps ==
  ASSUME WarehouseInv, NEW c \in Call, Execute(c)
  PROVE  WarehouseInv'
<1>1. Requests /\ Connections /\ Admitted /\ Sessions
  BY DEF WarehouseInv
<1> DEFINE tool == request[c].tool
           statement == Statements(tool)[pos[c] + 1]
           settings == Applied(session[conn[c]], statement, Principal(c))
<1>2. /\ at[c] = "running" /\ pos[c] < Len(Statements(tool))
      /\ session' = [session EXCEPT ![conn[c]] = settings]
      /\ pos' = [pos EXCEPT ![c] = @ + 1]
      /\ read' = read \/ read' = [read EXCEPT ![c] = Reads(c)]
      /\ UNCHANGED <<serves, request, at, conn>>
  BY DEF Execute, Running, runtimeVars
<1>3. conn[c] # NoConn /\ tool \in WarehouseTools /\ pos[c] \in Nat
  BY <1>1, <1>2 DEF Connections, Serving
<1>4. session[conn[c]] = Settings(tool, pos[c], Principal(c))
  BY <1>1, <1>2 DEF Sessions
<1>5. settings = Settings(tool, pos[c] + 1, Principal(c))
  BY <1>2, <1>3, <1>4, NextSettings
<1>6. pos' \in [Call -> Nat] /\ pos'[c] = pos[c] + 1 /\ \A b \in Call \ {c} : pos'[b] = pos[b]
  BY <1>1, <1>2 DEF Connections
<1>7. pos[c] + 1 <= Len(Statements(tool))
  BY <1>2, <1>3, StatementsOf
<1>8. at' = [at EXCEPT ![c] = "running"] /\ DOMAIN read' = Call
  BY <1>1, <1>2 DEF Requests, Connections
<1>9. /\ settings = Settings(tool, pos'[c], Principal(c)) /\ pos'[c] <= Len(Statements(tool))
      /\ session' = [session EXCEPT ![conn[c]] = settings]
      /\ UNCHANGED <<serves, request, conn>>
  BY <1>2, <1>5, <1>6, <1>7
<1> HIDE DEF settings
<1>10. HolderStep(c, settings, "running")
  BY <1>2, <1>3, <1>6, <1>8, <1>9 DEF HolderStep
<1>11. QED
  BY <1>10, HolderKeeps

\* The transaction is stuck until its ROLLBACK (warehouse.ts:118-119).
LEMMA FailureKeeps ==
  ASSUME WarehouseInv, NEW c \in Call, StatementFails(c)
  PROVE  WarehouseInv'
<1>1. Requests /\ Connections /\ Admitted /\ Sessions
  BY DEF WarehouseInv
<1> DEFINE tool == request[c].tool
           tx == session[conn[c]].tx
           settings == [session[conn[c]] EXCEPT !.tx = IF tx = "open" THEN "aborted" ELSE tx]
           next == IF tool = "pg.describe_table" THEN "done" ELSE "failing"
<1>2. /\ at[c] = "running"
      /\ session' = [session EXCEPT ![conn[c]] = settings]
      /\ at' = [at EXCEPT ![c] = next]
      /\ UNCHANGED <<serves, request, conn, pos, read>>
  BY DEF StatementFails, Running, Step
<1>3. conn[c] # NoConn /\ pos \in [Call -> Nat] /\ DOMAIN read = Call
  BY <1>1, <1>2 DEF Connections, Serving
<1>4. tool = "pg.describe_table" => settings = Login
  <2>1. tool = "pg.describe_table" => session[conn[c]] = Login
    BY <1>1, <1>2 DEF Sessions, Settings
  <2>2. Login.tx = "none" /\ [Login EXCEPT !.tx = "none"] = Login
    BY WarehouseAssumption
  <2>3. QED
    BY <2>1, <2>2
<1>5. next \in {"done", "failing"} /\ (next = "done" => settings = Login)
  BY <1>4
<1> HIDE DEF settings, next
<1>6. HolderStep(c, settings, next)
  BY <1>2, <1>3, <1>5 DEF HolderStep
<1>7. QED
  BY <1>5, <1>6, HolderKeeps

\* ROLLBACK undoes what SET LOCAL has set (warehouse.ts:118-121).
LEMMA RollbackKeeps ==
  ASSUME WarehouseInv, NEW c \in Call, Rollback(c)
  PROVE  WarehouseInv'
<1>1. Connections
  BY DEF WarehouseInv
<1>2. /\ at[c] = "failing" /\ at' = [at EXCEPT ![c] = "done"]
      /\ session' = [session EXCEPT ![conn[c]] = Login]
      /\ UNCHANGED <<serves, request, conn, pos, read>>
  BY DEF Rollback, Step, Applied
<1>3. conn[c] # NoConn /\ pos \in [Call -> Nat] /\ DOMAIN read = Call
  BY <1>1, <1>2 DEF Connections, Serving
<1>4. HolderStep(c, Login, "done")
  BY <1>2, <1>3 DEF HolderStep
<1>5. QED
  BY <1>4, HolderKeeps

\* Every other step of a call, of the cache or of the provider leaves the pool alone.
LEMMA NextWarehouse ==
  ASSUME WarehouseInv, [Next]_vars
  PROVE  WarehouseInv'
<1>1. at \in [Call -> At]
  BY DEF WarehouseInv, Requests
<1>2. CASE UNCHANGED vars
  BY <1>1, <1>2, QuietWarehouse DEF vars
<1>3. CASE KeyStep /\ UNCHANGED <<runtimeVars, warehouseVars, memoryVars>>
  BY <1>1, <1>3, QuietWarehouse DEF runtimeVars, warehouseVars
<1>4. CASE Crash
  BY <1>4, CrashKeeps DEF Crash
<1>5. ASSUME NEW c \in Call, Arrive(c) \/ Authenticated(c) \/ Rejected(c), UNCHANGED warehouseVars
      PROVE  WarehouseInv'
  <2>1. PICK next \in {"verifying", "calling", "answered"} :
          /\ at' = [at EXCEPT ![c] = next] /\ at[c] \in {"idle", "verifying"}
          /\ next = "calling" => Allowed(c)
          /\ UNCHANGED <<serves, request>>
    BY <1>5 DEF Arrive, Authenticated, Rejected, Step
  <2>2. at' \in [Call -> At]
    BY <1>1, <2>1 DEF At
  <2>3. \A b \in Call : at'[b] # at[b] => b = c /\ at'[b] = next
    BY <1>1, <2>1
  <2>4. QED
    BY <1>5, <2>1, <2>2, <2>3, QuietWarehouse DEF warehouseVars, Serving
<1>6. ASSUME NEW c \in Call, CrmTool(c) \/ PolicyTool(c) \/ ConnectFails(c)
      PROVE  WarehouseInv'
  <2>1. /\ at[c] = "calling" /\ at' = [at EXCEPT ![c] = "answered"]
        /\ UNCHANGED <<serves, request, conn, pos, session, read>>
    BY <1>6 DEF CrmTool, PolicyTool, ConnectFails, Step, warehouseVars
  <2>2. at' \in [Call -> At]
    BY <1>1, <2>1 DEF At
  <2>3. \A b \in Call : at'[b] # at[b] => b = c /\ at'[b] = "answered"
    BY <1>1, <2>1
  <2>4. QED
    BY <2>1, <2>2, <2>3, QuietWarehouse DEF Serving
<1>7. ASSUME NEW c \in Call, WarehouseTool(c)
      PROVE  WarehouseInv'
  BY <1>6, <1>7, ConnectKeeps, ExecuteKeeps, FailureKeeps, RollbackKeeps, ReleaseKeeps
     DEF WarehouseTool, WarehouseStep
<1>8. QED
  BY <1>2, <1>3, <1>4, <1>5, <1>6, <1>7 DEF Next, Handle

\* Whatever calls hold the warehouse's connections, and however each ends, by its COMMIT, a
\* statement that fails or the end of the process, a connection goes back to the pool with
\* nothing of its caller (withCallerContext, warehouse.ts:92-124).
THEOREM PoolStaysClean == Spec => []PooledIsClean
<1>1. Init => WarehouseInv
  BY InitWarehouse
<1>2. WarehouseInv /\ [Next]_vars => WarehouseInv'
  BY NextWarehouse
<1>3. WarehouseInv => PooledIsClean
  BY DEF WarehouseInv, Sessions
<1>4. QED
  BY <1>1, <1>2, <1>3, PTL DEF Spec

-------------------------------------------------------------------------------
(* What the warehouse's tools read *)

\* The policies show a caller rows of its tenant, and a role that is not of the whole
\* tenant those of its territory (0000_warehouse.sql:108-153).
LEMMA ShownToCaller ==
  ASSUME NEW caller, NEW row \in Row, Visible(row, ContextOf(caller))
  PROVE  /\ OrderOf(row).tenant = caller.tenant
         /\ caller.role \in {"analyst", "viewer"} /\ row.table # "products"
              => OrderOf(row).territory = caller.territory
<1>1. caller.role \in {"analyst", "viewer"} => ContextOf(caller).role \notin TenantWide
  BY WarehouseAssumption DEF ContextOf, TenantWide
<1>2. CASE row.table = "order_items"
  <2>1. PICK o \in Row : o.table = "orders" /\ o.id = row.order /\ PolicyShows(o, ContextOf(caller))
    BY <1>2 DEF Visible
  <2>2. OrderOf(row) = o
    BY <1>2, <2>1, WarehouseAssumption DEF OrderOf
  <2>3. QED
    BY <1>1, <2>1, <2>2 DEF PolicyShows, ContextOf
<1>3. CASE row.table # "order_items"
  BY <1>1, <1>3 DEF OrderOf, Visible, PolicyShows, ContextOf
<1>4. QED
  BY <1>2, <1>3

\* What a tool's own statement reads is what its caller may (warehouse.ts:126-264).
LEMMA ReadAsCaller ==
  ASSUME WarehouseInv, ReadsAsItsCaller, NEW c \in Call, Execute(c)
  PROVE  ReadsAsItsCaller'
<1>1. Requests /\ Connections /\ Admitted /\ Sessions
  BY DEF WarehouseInv
<1> DEFINE tool == request[c].tool
           caller == Principal(c)
<1>2. /\ at[c] = "running" /\ pos[c] < Len(Statements(tool))
      /\ UNCHANGED <<serves, request>>
      /\ read' = IF Statements(tool)[pos[c] + 1] = "select" THEN [read EXCEPT ![c] = Reads(c)] ELSE read
  BY DEF Execute, Running, runtimeVars
<1>3. /\ \A b \in Call : Principal(b)' = Principal(b) /\ Token(b)' = Token(b)
      /\ DOMAIN read = Call
  BY <1>1, <1>2 DEF Principal, Token, Connections
<1>4. CASE Statements(tool)[pos[c] + 1] # "select"
  BY <1>2, <1>3, <1>4 DEF ReadsAsItsCaller
<1>5. CASE Statements(tool)[pos[c] + 1] = "select"
  <2>1. read'[c] = Reads(c) /\ \A b \in Call \ {c} : read'[b] = read[b]
    BY <1>2, <1>3, <1>5
  <2>2. Allowed(c) /\ (tool = "pg.query" => Guarded(request[c].args))
    BY <1>1, <1>2 DEF Admitted, Serving
  <2>3. tool \in WarehouseTools /\ pos[c] \in Nat
    BY <1>1, <1>2 DEF Connections, Serving
  <2>4. session[conn[c]] = IF tool = "pg.describe_table" THEN Login ELSE ContextOf(caller)
    BY <1>1, <1>2, <1>5, <2>3, NextSettings DEF Sessions
  <2>5. Reads(c).words \cap Forbidden = {}
    BY <2>2 DEF Reads, Guarded
  <2>6. ASSUME NEW row \in Reads(c).rows
        PROVE  /\ OrderOf(row).tenant = caller.tenant
               /\ caller.role \in {"analyst", "viewer"} /\ row.table # "products"
                    => OrderOf(row).territory = caller.territory
    <3>1. row \in Row /\ Visible(row, ContextOf(caller))
      BY <2>4, <2>6 DEF Reads
    <3> HIDE DEF caller
    <3>2. QED
      BY <3>1, ShownToCaller
  <2>7. Reads(c).under = IF tool = "pg.describe_table" THEN Login ELSE ContextOf(caller)
    BY <2>4 DEF Reads
  <2>8. ASSUME NEW b \in Call, read'[b] # NoRead
        PROVE  LET who == Principal(b) IN
               /\ Token(b).aud = serves /\ RequiredScope[request[b].tool] \in Token(b).scopes
               /\ read'[b].under = IF request[b].tool = "pg.describe_table" THEN Login ELSE ContextOf(who)
               /\ read'[b].words \cap Forbidden = {}
               /\ \A row \in read'[b].rows :
                    /\ OrderOf(row).tenant = who.tenant
                    /\ who.role \in {"analyst", "viewer"} /\ row.table # "products"
                         => OrderOf(row).territory = who.territory
    <3>1. CASE b = c
      BY <2>1, <2>2, <2>5, <2>6, <2>7, <3>1 DEF Allowed
    <3>2. CASE b # c
      BY <2>1, <2>8, <3>2 DEF ReadsAsItsCaller
    <3>3. QED
      BY <3>1, <3>2
  <2>9. QED
    BY <1>2, <1>3, <2>8 DEF ReadsAsItsCaller
<1>6. QED
  BY <1>4, <1>5

\* No tool of the warehouse reads under another caller's settings, or past what the
\* policies show its own caller, however the calls share the pool
\* (server.ts:132-145, 236-250; warehouse.ts:94-124; 0000_warehouse.sql:108-153).
THEOREM ToolsReadAsTheirCaller == Spec => []ReadsAsItsCaller
<1>1. Init => WarehouseInv /\ ReadsAsItsCaller
  <2>1. Init => ReadsAsItsCaller
    BY DEF Init, WarehouseInit, ReadsAsItsCaller
  <2>2. QED
    BY <2>1, InitWarehouse
<1>2. WarehouseInv /\ ReadsAsItsCaller /\ [Next]_vars => ReadsAsItsCaller'
  <2> SUFFICES ASSUME WarehouseInv, ReadsAsItsCaller, [Next]_vars PROVE ReadsAsItsCaller'
    OBVIOUS
  <2>1. ASSUME UNCHANGED <<serves, request, read>> PROVE ReadsAsItsCaller'
    <3>1. \A c \in Call : Principal(c)' = Principal(c) /\ Token(c)' = Token(c)
      BY <2>1 DEF Principal, Token
    <3>2. QED
      BY <2>1, <3>1 DEF ReadsAsItsCaller
  <2>2. CASE \E c \in Call : Execute(c)
    BY <2>2, ReadAsCaller
  <2>3. CASE ~ \E c \in Call : Execute(c)
    <3>1. UNCHANGED <<serves, request, read>>
      BY <2>3 DEF Next, vars, runtimeVars, warehouseVars, Crash, RestartRuntime, RestartPool, Arrive, Step,
           Handle, Authenticated, Rejected, CrmTool, PolicyTool, WarehouseTool, WarehouseStep, Connect,
           ConnectFails, StatementFails, Rollback, Release
    <3>2. QED
      BY <2>1, <3>1
  <2>4. QED
    BY <2>2, <2>3
<1>3. WarehouseInv /\ [Next]_vars => WarehouseInv'
  BY NextWarehouse
<1>4. QED
  BY <1>1, <1>2, <1>3, PTL DEF Spec

-------------------------------------------------------------------------------
(* What the CRM's tools tell *)

\* A tool looks at no record but through isVisible (tools.ts:35-50, 61-78, 98-118, 164-182).
LEMMA AnswersFromTheSeen ==
  ASSUME NEW tool, NEW args, NEW data, NEW caller
  PROVE  Answer(tool, args, data, caller) = Answer(tool, args, Seen(data, caller), caller)
<1> DEFINE seen == Seen(data, caller)
<1>1. \A object : VisibleRecords(data, object, caller) = VisibleRecords(seen, object, caller)
  BY DEF VisibleRecords, Seen
<1>2. \A objects, id : Seen(WithId(data, objects, id), caller) = Seen(WithId(seen, objects, id), caller)
  BY DEF WithId, Seen
<1> HIDE DEF seen
<1>3. Query(args, data, caller) = Query(args, seen, caller)
  BY <1>1 DEF Query
<1>4. GetContact(args.id, data, caller) = GetContact(args.id, seen, caller)
  <2> DEFINE contact == Seen(WithId(data, {"Contact"}, args.id), caller)
  <2>1. contact = Seen(WithId(seen, {"Contact"}, args.id), caller)
    BY <1>2
  <2>2. {Seen(WithId(data, {"Account"}, r.account), caller) : r \in contact}
          = {Seen(WithId(seen, {"Account"}, r.account), caller) : r \in contact}
    BY <1>2
  <2>3. QED
    BY <2>1, <2>2 DEF GetContact
<1>5. ListOpportunities(args, data, caller) = ListOpportunities(args, seen, caller)
  BY <1>1 DEF ListOpportunities
<1>6. CreateTask(args, data, caller) = CreateTask(args, seen, caller)
  BY <1>2 DEF CreateTask, Referable
<1>7. QED
  BY <1>3, <1>4, <1>5, <1>6 DEF Answer, seen

\* Whatever the dataset and the tasks hold, no tool of the CRM tells a caller of a record it
\* cannot see, by an answer or by the refusal of one (tools.ts:64-66, 164-182).
THEOREM CrmTellsOnlyTheSeen == Spec => AnswersTellOnlyTheSeen
<1> DEFINE Told == DOMAIN answer = Call
           Tells == \A c \in Call : serves = "salesforce" /\ answer'[c] # answer[c] =>
                      answer'[c] = Answer(request[c].tool, request[c].args, Seen(Data, Principal(c)), Principal(c))
<1>1. Init => Told
  BY DEF Init
<1>2. Told /\ [Next]_vars => Told'
  BY DEF Next, vars, memoryVars, Crash, Handle, CrmTool, PolicyTool, WarehouseTool
<1>3. Told /\ [Next]_vars => [Tells]_vars
  <2> SUFFICES ASSUME Told, Next PROVE Tells
    OBVIOUS
  <2>1. ASSUME NEW c \in Call, CrmTool(c) PROVE Tells
    <3>1. answer' = [answer EXCEPT ![c] = Answer(request[c].tool, request[c].args, Data, Principal(c))]
      BY <2>1 DEF CrmTool
    <3>2. Answer(request[c].tool, request[c].args, Data, Principal(c))
            = Answer(request[c].tool, request[c].args, Seen(Data, Principal(c)), Principal(c))
      BY AnswersFromTheSeen
    <3>3. QED
      BY <3>1, <3>2
  <2>2. ASSUME NEW c \in Call, PolicyTool(c) PROVE Tells
    BY <2>2 DEF PolicyTool
  <2>3. CASE ~ \E c \in Call : CrmTool(c) \/ PolicyTool(c)
    <3>1. UNCHANGED answer
      BY <2>3 DEF Next, memoryVars, Crash, Handle, WarehouseTool
    <3>2. QED
      BY <3>1
  <2>4. QED
    BY <2>1, <2>2, <2>3
<1> HIDE DEF Told, Tells
<1>4. Spec => [][Tells]_vars
  BY <1>1, <1>2, <1>3, PTL DEF Spec
<1>5. QED
  BY <1>4 DEF Tells, AnswersTellOnlyTheSeen

-------------------------------------------------------------------------------
(* The signing keys *)

\* The provider's set has a newest key; a published key is not retired, and one that is not
\* published has not been so for any time.
RingInv ==
  /\ \E m \in published : \A k \in published : k <= m
  /\ \A k \in published : retiredFor[k] = 0
  /\ \A k \in Kid \ published : publishedFor[k] = 0

\* The keys a fetch has read: how far they can be behind the provider's when they get here,
\* and how far those of the cache are behind.
FetchInv ==
  /\ inFlight.state # "none" => inFlight.age = sinceAttempt
  /\ inFlight.state = "answered" =>
       /\ \A k \in inFlight.keys : retiredFor[k] <= inFlight.age
       /\ \A k \in Kid \ inFlight.keys : publishedFor[k] <= inFlight.age
  /\ sinceFetch < Ttl => \A k \in keys : retiredFor[k] <= sinceFetch + Timeout
  /\ inFlight.state = "none" /\ ~lastFailed /\ keys # {} /\ sinceAttempt < Cooldown =>
       /\ sinceFetch <= sinceAttempt
       /\ \A k \in Kid \ keys : publishedFor[k] <= sinceAttempt

LookupInv == \A c \in Call : lookup[c].state = "waiting" => lookup[c].kid \in Kid

KeyInv == KeyTypeOK /\ RingInv /\ FetchInv /\ LookupInv

\* What the cache and the provider do, whatever server they serve.
CacheStep ==
  \/ UNCHANGED keyVars
  \/ KeyStep
  \/ RestartCache
  \/ \E c \in Call : Forget(c) \/ \E kid \in Kid : GetKey(c, kid)

\* The provider's active key is the newest of its set (Keyring.active, keys.ts:40-44).
LEMMA ActiveIsNewest ==
  ASSUME KeyInv
  PROVE  /\ Active \in published /\ Active \in Kid
         /\ \A k \in published : k <= Active
<1>1. published \subseteq Nat /\ published \subseteq Kid
  BY KeyCacheAssumption DEF KeyInv, KeyTypeOK, Kid
<1>2. PICK m \in published : \A k \in published : k <= m
  BY DEF KeyInv, RingInv
<1>3. \A k \in published : m >= k
  BY <1>1, <1>2
<1>4. Active \in published /\ \A k \in published : Active >= k
  BY <1>2, <1>3 DEF Active, Max
<1>5. QED
  BY <1>1, <1>4

\* A cache begins empty (jwks-cache.ts:40-56).
LEMMA KeyInvInit == KeyInit => KeyInv
<1> SUFFICES ASSUME KeyInit PROVE KeyInv
  OBVIOUS
<1> USE KeyCacheAssumption DEF KeyInit
<1>1. KeyTypeOK
  <2>1. 0 \in 0..Cooldown /\ 0 \in 0..(Ttl + Timeout) /\ 1 \in Kid /\ Ttl \in 0..Ttl /\ Cooldown \in 0..Cooldown
    BY DEF Kid
  <2>2. NoFetch \in [state : {"none", "asked", "answered"}, age : 0..Timeout, keys : SUBSET Kid]
    BY DEF NoFetch
  <2>3. NoLookup \in [state : {"none", "waiting", "found", "refused"}, kid : 0..MaxKid]
    BY DEF NoLookup
  <2>4. published # {} /\ published \subseteq Kid /\ keys \subseteq Kid
    BY <2>1
  <2>5. publishedFor \in [Kid -> 0..Cooldown] /\ retiredFor \in [Kid -> 0..(Ttl + Timeout)]
    BY <2>1
  <2>6. lookup \in [Call -> [state : {"none", "waiting", "found", "refused"}, kid : 0..MaxKid]]
    BY <2>3
  <2>7. QED
    BY <2>1, <2>2, <2>4, <2>5, <2>6 DEF KeyTypeOK
<1>2. RingInv
  BY DEF RingInv, Kid
<1>3. FetchInv
  BY DEF FetchInv, NoFetch
<1>4. LookupInv
  BY DEF LookupInv, NoLookup
<1>5. QED
  BY <1>1, <1>2, <1>3, <1>4 DEF KeyInv

\* A new set makes no key older, published or retired (Keyring.rotate, keys.ts:46-51).
LEMMA PublishKeeps ==
  ASSUME KeyInv, NEW set \in SUBSET Kid, Publish(set), UNCHANGED <<cacheVars, lookup>>,
         \E m \in set : \A k \in set : k <= m
  PROVE  KeyInv'
<1> USE KeyCacheAssumption
<1>1. KeyTypeOK /\ RingInv /\ FetchInv /\ LookupInv
  BY DEF KeyInv
<1>2. /\ published' = set
      /\ publishedFor' = [k \in Kid |-> IF k \in set \cap published THEN publishedFor[k] ELSE 0]
      /\ retiredFor' = [k \in Kid |-> IF k \in set \cup published THEN 0 ELSE retiredFor[k]]
      /\ UNCHANGED <<keys, sinceFetch, sinceAttempt, lastFailed, inFlight, lookup>>
  BY DEF Publish, cacheVars
<1>3. \A k \in Kid : /\ publishedFor[k] \in 0..Cooldown /\ publishedFor'[k] \in 0..Cooldown
                     /\ publishedFor'[k] <= publishedFor[k]
                     /\ retiredFor[k] \in 0..(Ttl + Timeout) /\ retiredFor'[k] \in 0..(Ttl + Timeout)
                     /\ retiredFor'[k] <= retiredFor[k]
  BY <1>1, <1>2 DEF KeyTypeOK
<1>4. KeyTypeOK'
  <2>1. set # {} /\ set \subseteq Kid
    OBVIOUS
  <2>2. publishedFor' \in [Kid -> 0..Cooldown] /\ retiredFor' \in [Kid -> 0..(Ttl + Timeout)]
    BY <1>2, <1>3
  <2>3. QED
    BY <1>1, <1>2, <2>1, <2>2 DEF KeyTypeOK
<1>5. RingInv'
  BY <1>2 DEF RingInv
<1>6. FetchInv'
  <2>1. keys \subseteq Kid /\ inFlight.keys \subseteq Kid /\ inFlight.age \in Nat /\ sinceFetch \in Nat /\ sinceAttempt \in Nat
    BY <1>1 DEF KeyTypeOK
  <2>2. inFlight.state = "answered" =>
           /\ \A k \in inFlight.keys : retiredFor'[k] <= inFlight.age
           /\ \A k \in Kid \ inFlight.keys : publishedFor'[k] <= inFlight.age
    BY <1>1, <1>3, <2>1 DEF FetchInv
  <2>3. sinceFetch < Ttl => \A k \in keys : retiredFor'[k] <= sinceFetch + Timeout
    BY <1>1, <1>3, <2>1 DEF FetchInv
  <2>4. inFlight.state = "none" /\ ~lastFailed /\ keys # {} /\ sinceAttempt < Cooldown =>
          \A k \in Kid \ keys : publishedFor'[k] <= sinceAttempt
    BY <1>1, <1>3, <2>1 DEF FetchInv
  <2>5. QED
    BY <1>1, <1>2, <2>2, <2>3, <2>4 DEF FetchInv
<1>7. LookupInv'
  BY <1>1, <1>2 DEF LookupInv
<1>8. QED
  BY <1>4, <1>5, <1>6, <1>7 DEF KeyInv

\* A tick ages a key, the cache and a fetch alike (doFetch, jwks-cache.ts:97-105).
LEMMA TickKeeps ==
  ASSUME KeyInv, KeyTick
  PROVE  KeyInv'
<1> USE KeyCacheAssumption
<1>1. KeyTypeOK /\ RingInv /\ FetchInv /\ LookupInv
  BY DEF KeyInv
<1>2. /\ inFlight.age < Timeout
      /\ inFlight' = IF inFlight.state = "none" THEN inFlight ELSE [inFlight EXCEPT !.age = @ + 1]
      /\ sinceFetch' = UpTo(Ttl, sinceFetch + 1) /\ sinceAttempt' = UpTo(Cooldown, sinceAttempt + 1)
      /\ publishedFor' = [k \in Kid |-> IF k \in published THEN UpTo(Cooldown, publishedFor[k] + 1) ELSE 0]
      /\ retiredFor' = [k \in Kid |-> IF k \in published \/ k > Active THEN 0
                                      ELSE UpTo(Ttl + Timeout, retiredFor[k] + 1)]
      /\ UNCHANGED <<published, keys, lastFailed, lookup>>
  BY DEF KeyTick
<1>3. \A k \in Kid : /\ publishedFor[k] \in 0..Cooldown /\ publishedFor'[k] \in 0..Cooldown
                     /\ publishedFor'[k] <= publishedFor[k] + 1
  BY <1>1, <1>2 DEF KeyTypeOK, UpTo
<1>4. \A k \in Kid : /\ retiredFor[k] \in 0..(Ttl + Timeout) /\ retiredFor'[k] \in 0..(Ttl + Timeout)
                     /\ retiredFor'[k] <= retiredFor[k] + 1
  <2>1. ASSUME NEW k \in Kid PROVE retiredFor[k] \in 0..(Ttl + Timeout)
    BY <1>1 DEF KeyTypeOK
  <2>2. ASSUME NEW k \in Kid
        PROVE  retiredFor'[k] = 0 \/ retiredFor'[k] = UpTo(Ttl + Timeout, retiredFor[k] + 1)
    BY <1>2
  <2>3. QED
    BY <2>1, <2>2 DEF UpTo
<1>5. /\ sinceFetch \in 0..Ttl /\ sinceFetch' \in 0..Ttl /\ sinceFetch' <= sinceFetch + 1
      /\ sinceFetch' < Ttl => sinceFetch' = sinceFetch + 1
      /\ sinceAttempt \in 0..Cooldown /\ sinceAttempt' \in 0..Cooldown
      /\ sinceAttempt < Cooldown => sinceAttempt' = sinceAttempt + 1
      /\ sinceAttempt' < Cooldown => sinceAttempt' = sinceAttempt + 1
  <2>1. sinceFetch \in 0..Ttl /\ sinceAttempt \in 0..Cooldown
    BY <1>1 DEF KeyTypeOK
  <2>2. sinceFetch' = UpTo(Ttl, sinceFetch + 1) /\ sinceAttempt' = UpTo(Cooldown, sinceAttempt + 1)
    BY <1>2
  <2>3. QED
    BY <2>1, <2>2 DEF UpTo
<1>6. /\ inFlight'.state = inFlight.state /\ inFlight'.keys = inFlight.keys
      /\ inFlight.state # "none" => inFlight'.age = inFlight.age + 1
      /\ inFlight' \in [state : {"none", "asked", "answered"}, age : 0..Timeout, keys : SUBSET Kid]
  BY <1>1, <1>2 DEF KeyTypeOK
<1>7. KeyTypeOK'
  <2>1. publishedFor' \in [Kid -> 0..Cooldown] /\ retiredFor' \in [Kid -> 0..(Ttl + Timeout)]
    BY <1>2, <1>3, <1>4
  <2>2. QED
    BY <1>1, <1>2, <1>5, <1>6, <2>1 DEF KeyTypeOK
<1>8. RingInv'
  <2>1. published \subseteq Kid
    BY <1>1 DEF KeyTypeOK
  <2>2. QED
    BY <1>1, <1>2, <2>1 DEF RingInv
<1>9. FetchInv'
  <2>1. keys \subseteq Kid /\ inFlight.keys \subseteq Kid /\ inFlight.age \in Nat
    BY <1>1 DEF KeyTypeOK
  <2>2. inFlight.state # "none" => inFlight'.age = sinceAttempt'
    BY <1>1, <1>2, <1>5, <1>6 DEF FetchInv
  <2>3. inFlight.state = "answered" =>
           /\ \A k \in inFlight.keys : retiredFor'[k] <= inFlight'.age
           /\ \A k \in Kid \ inFlight.keys : publishedFor'[k] <= inFlight'.age
    BY <1>1, <1>3, <1>4, <1>6, <2>1 DEF FetchInv
  <2>4. sinceFetch' < Ttl => \A k \in keys : retiredFor'[k] <= sinceFetch' + Timeout
    BY <1>1, <1>4, <1>5, <2>1 DEF FetchInv
  <2>5. inFlight.state = "none" /\ ~lastFailed /\ keys # {} /\ sinceAttempt' < Cooldown =>
          /\ sinceFetch' <= sinceAttempt'
          /\ \A k \in Kid \ keys : publishedFor'[k] <= sinceAttempt'
    BY <1>1, <1>3, <1>5, <2>1 DEF FetchInv
  <2>6. QED
    BY <1>2, <1>6, <2>2, <2>3, <2>4, <2>5 DEF FetchInv
<1>10. LookupInv'
  BY <1>1, <1>2 DEF LookupInv
<1>11. QED
  BY <1>7, <1>8, <1>9, <1>10 DEF KeyInv

\* The provider's answer is its set at that moment (GET /jwks, server.ts:129-132).
LEMMA AnswerKeeps ==
  ASSUME KeyInv, AnswerKeys
  PROVE  KeyInv'
<1> USE KeyCacheAssumption
<1>1. KeyTypeOK /\ RingInv /\ FetchInv /\ LookupInv
  BY DEF KeyInv
<1>2. /\ inFlight.state = "asked"
      /\ inFlight' = [inFlight EXCEPT !.state = "answered", !.keys = published]
      /\ UNCHANGED <<published, publishedFor, retiredFor, keys, sinceFetch, sinceAttempt, lastFailed, lookup>>
  BY DEF AnswerKeys, providerVars
<1>3. inFlight'.state = "answered" /\ inFlight'.keys = published /\ inFlight'.age = inFlight.age /\ inFlight.age \in Nat
  BY <1>1, <1>2 DEF KeyTypeOK
<1>4. KeyTypeOK'
  BY <1>1, <1>2 DEF KeyTypeOK
<1>5. RingInv' /\ LookupInv'
  BY <1>1, <1>2 DEF RingInv, LookupInv
<1>6. FetchInv'
  BY <1>1, <1>2, <1>3 DEF FetchInv, RingInv
<1>7. QED
  BY <1>4, <1>5, <1>6 DEF KeyInv

\* The calls that waited find what the fetch left.
LEMMA SettledIsTyped ==
  ASSUME KeyInv, NEW set
  PROVE  /\ Settled(set) \in [Call -> [state : {"none", "waiting", "found", "refused"}, kid : 0..MaxKid]]
         /\ \A c \in Call : Settled(set)[c].state # "waiting"
BY KeyCacheAssumption DEF KeyInv, KeyTypeOK, Settled, Verdict

\* A fetch ends (doFetch, jwks-cache.ts:97-138).
LEMMA FetchKeeps ==
  ASSUME KeyInv, FetchSucceeds \/ FetchFails
  PROVE  KeyInv'
<1> USE KeyCacheAssumption
<1>1. KeyTypeOK /\ RingInv /\ FetchInv /\ LookupInv
  BY DEF KeyInv
<1>2. /\ inFlight.state # "none" /\ inFlight' = NoFetch
      /\ \E set : lookup' = Settled(set)
      /\ UNCHANGED <<published, publishedFor, retiredFor, sinceAttempt>>
      /\ \/ lastFailed' = TRUE /\ UNCHANGED <<keys, sinceFetch>>
         \/ /\ inFlight.state = "answered"
            /\ keys' = inFlight.keys /\ sinceFetch' = 0 /\ lastFailed' = FALSE
  BY DEF FetchSucceeds, FetchFails, providerVars
<1>3. NoFetch.state = "none" /\ NoFetch \in [state : {"none", "asked", "answered"}, age : 0..Timeout, keys : SUBSET Kid]
  BY DEF NoFetch
<1>4. inFlight.age \in 0..Timeout /\ inFlight.keys \subseteq Kid /\ sinceAttempt \in Nat
  BY <1>1 DEF KeyTypeOK
<1>5. KeyTypeOK' /\ LookupInv'
  <2>1. /\ lookup' \in [Call -> [state : {"none", "waiting", "found", "refused"}, kid : 0..MaxKid]]
        /\ \A c \in Call : lookup'[c].state # "waiting"
    BY <1>2, SettledIsTyped
  <2>2. LookupInv'
    BY <2>1 DEF LookupInv
  <2>3. published' # {} /\ published' \subseteq Kid /\ keys' \subseteq Kid /\ lastFailed' \in BOOLEAN
    BY <1>1, <1>2, <1>4 DEF KeyTypeOK
  <2>4. publishedFor' \in [Kid -> 0..Cooldown] /\ retiredFor' \in [Kid -> 0..(Ttl + Timeout)]
    BY <1>1, <1>2 DEF KeyTypeOK
  <2>5. sinceFetch' \in 0..Ttl /\ sinceAttempt' \in 0..Cooldown
    BY <1>1, <1>2 DEF KeyTypeOK
  <2>6. inFlight' \in [state : {"none", "asked", "answered"}, age : 0..Timeout, keys : SUBSET Kid]
    BY <1>2, <1>3
  <2>7. QED
    BY <2>1, <2>2, <2>3, <2>4, <2>5, <2>6 DEF KeyTypeOK
<1>6. RingInv'
  BY <1>1, <1>2 DEF RingInv
<1>7. FetchInv'
  <2>1. CASE lastFailed' = TRUE /\ UNCHANGED <<keys, sinceFetch>>
    BY <1>1, <1>2, <1>3, <2>1 DEF FetchInv
  <2>2. CASE inFlight.state = "answered" /\ keys' = inFlight.keys /\ sinceFetch' = 0 /\ lastFailed' = FALSE
    <3>1. \A k \in keys' : retiredFor[k] <= Timeout
      <4>1. \A k \in keys' : retiredFor[k] <= inFlight.age /\ retiredFor[k] \in Int
        BY <1>1, <1>4, <2>2 DEF FetchInv, KeyTypeOK
      <4>2. QED
        BY <1>4, <4>1
    <3>2. sinceAttempt >= 0 /\ \A k \in Kid \ keys' : publishedFor[k] <= sinceAttempt
      BY <1>1, <1>4, <2>2 DEF FetchInv
    <3>3. QED
      BY <1>2, <1>3, <2>2, <3>1, <3>2 DEF FetchInv
  <2>3. QED
    BY <1>2, <2>1, <2>2
<1>8. QED
  BY <1>5, <1>6, <1>7 DEF KeyInv

\* A lookup finds its key, is turned away, or waits (jwks-cache.ts:59-95).
LEMMA GetKeyKeeps ==
  ASSUME KeyInv, NEW c \in Call, NEW kid \in Kid, GetKey(c, kid)
  PROVE  KeyInv'
<1> USE KeyCacheAssumption
<1>1. KeyTypeOK /\ RingInv /\ FetchInv /\ LookupInv
  BY DEF KeyInv
<1>2. UNCHANGED <<published, publishedFor, retiredFor, keys, sinceFetch, lastFailed>>
  BY DEF GetKey, providerVars
<1>3. /\ lookup' \in [Call -> [state : {"none", "waiting", "found", "refused"}, kid : 0..MaxKid]]
      /\ LookupInv'
  <2>1. PICK found \in {Verdict(keys, kid), [state |-> "waiting", kid |-> kid]} : lookup' = [lookup EXCEPT ![c] = found]
    BY DEF GetKey
  <2>2. found.kid = kid /\ found \in [state : {"none", "waiting", "found", "refused"}, kid : 0..MaxKid]
    BY DEF Verdict, Kid
  <2>3. QED
    BY <1>1, <2>1, <2>2 DEF KeyTypeOK, LookupInv
<1>4. \/ UNCHANGED <<inFlight, sinceAttempt>>
      \/ /\ inFlight' = [state |-> "asked", age |-> 0, keys |-> {}] /\ sinceAttempt' = 0
  BY DEF GetKey, Refresh
<1>5. KeyTypeOK'
  BY <1>1, <1>2, <1>3, <1>4 DEF KeyTypeOK
<1>6. RingInv' /\ FetchInv'
  BY <1>1, <1>2, <1>4 DEF RingInv, FetchInv
<1>7. QED
  BY <1>3, <1>5, <1>6 DEF KeyInv

\* Every step of the cache, of the calls that use it and of the provider.
LEMMA NextKeys ==
  ASSUME KeyInv, CacheStep
  PROVE  KeyInv'
<1> USE KeyCacheAssumption
<1>1. KeyTypeOK /\ RingInv /\ FetchInv /\ LookupInv
  BY DEF KeyInv
<1>2. CASE UNCHANGED keyVars
  BY <1>1, <1>2 DEF keyVars, KeyInv, KeyTypeOK, RingInv, FetchInv, LookupInv
<1>3. CASE Rotate /\ UNCHANGED <<cacheVars, lookup>>
  <2>1. Active \in Kid /\ Active + 1 \in Kid
    BY <1>3, ActiveIsNewest DEF Rotate, Kid
  <2>2. {Active, Active + 1} \in SUBSET Kid /\ \A k \in {Active, Active + 1} : k <= Active + 1
    BY <2>1 DEF Kid
  <2>3. QED
    BY <1>3, <2>2, PublishKeeps DEF Rotate
<1>4. CASE RestartProvider /\ UNCHANGED <<cacheVars, lookup>>
  <2>1. Active + 1 \in Kid /\ Active + 1 <= Active + 1
    BY <1>4, ActiveIsNewest DEF RestartProvider, Kid
  <2>2. QED
    BY <1>4, <2>1, PublishKeeps DEF RestartProvider
<1>5. CASE RestartCache
  <2>1. /\ keys' = {} /\ sinceFetch' = Ttl /\ sinceAttempt' = Cooldown /\ lastFailed' = FALSE
        /\ inFlight' = NoFetch /\ lookup' = [c \in Call |-> NoLookup]
        /\ UNCHANGED <<published, publishedFor, retiredFor>>
    BY <1>5 DEF RestartCache, providerVars
  <2>2. NoFetch \in [state : {"none", "asked", "answered"}, age : 0..Timeout, keys : SUBSET Kid]
    BY DEF NoFetch
  <2>3. NoLookup \in [state : {"none", "waiting", "found", "refused"}, kid : 0..MaxKid]
    BY DEF NoLookup
  <2>4. KeyTypeOK'
    <3>1. Ttl \in 0..Ttl /\ Cooldown \in 0..Cooldown
      BY <2>1
    <3>2. lookup' \in [Call -> [state : {"none", "waiting", "found", "refused"}, kid : 0..MaxKid]]
      BY <2>1, <2>3
    <3>3. inFlight' \in [state : {"none", "asked", "answered"}, age : 0..Timeout, keys : SUBSET Kid]
      BY <2>1, <2>2
    <3>4. published' # {} /\ published' \subseteq Kid /\ keys' \subseteq Kid
      BY <1>1, <2>1 DEF KeyTypeOK
    <3>5. publishedFor' \in [Kid -> 0..Cooldown] /\ retiredFor' \in [Kid -> 0..(Ttl + Timeout)]
      BY <1>1, <2>1 DEF KeyTypeOK
    <3>6. sinceFetch' \in 0..Ttl /\ sinceAttempt' \in 0..Cooldown
      BY <2>1, <3>1
    <3>7. lastFailed' \in BOOLEAN
      BY ONLY <2>1, Zenon
    <3>8. QED
      BY <3>2, <3>3, <3>4, <3>5, <3>6, <3>7 DEF KeyTypeOK
  <2>5. RingInv' /\ FetchInv' /\ LookupInv'
    BY <1>1, <2>1 DEF RingInv, FetchInv, LookupInv, NoFetch, NoLookup
  <2>6. QED
    BY <2>4, <2>5 DEF KeyInv
<1>6. ASSUME NEW c \in Call, Forget(c) PROVE KeyInv'
  <2>1. /\ lookup' = [lookup EXCEPT ![c] = NoLookup]
        /\ UNCHANGED <<published, publishedFor, retiredFor, keys, sinceFetch, sinceAttempt, lastFailed, inFlight>>
    BY <1>6 DEF Forget, providerVars, cacheVars
  <2>2. NoLookup \in [state : {"none", "waiting", "found", "refused"}, kid : 0..MaxKid] /\ NoLookup.state = "none"
    BY DEF NoLookup
  <2>3. KeyTypeOK' /\ LookupInv'
    BY <1>1, <2>1, <2>2 DEF KeyTypeOK, LookupInv
  <2>4. RingInv' /\ FetchInv'
    BY <1>1, <2>1 DEF RingInv, FetchInv
  <2>5. QED
    BY <2>3, <2>4 DEF KeyInv
<1>7. QED
  BY <1>2, <1>3, <1>4, <1>5, <1>6, AnswerKeeps, FetchKeeps, TickKeeps, GetKeyKeeps DEF CacheStep, KeyStep

\* A call learns of a key from the cache, fresh or cooling down, or from a fetch that has
\* just ended (getKey and refresh, jwks-cache.ts:59-95).
LEMMA VerdictExcused ==
  ASSUME KeyInv, CacheStep, NEW c \in Call, lookup'[c] # lookup[c],
         ~lastFailed', inFlight'.state = "none"
  PROVE  /\ lookup'[c].state = "found" => retiredFor[lookup'[c].kid] < Ttl + Timeout
         /\ lookup'[c].state = "refused" => publishedFor[lookup'[c].kid] < Cooldown
<1> USE KeyCacheAssumption
<1>1. /\ KeyTypeOK /\ RingInv /\ FetchInv /\ LookupInv
      /\ sinceFetch \in 0..Ttl /\ sinceAttempt \in 0..Cooldown /\ DOMAIN lookup = Call
      /\ \A k \in Kid : retiredFor[k] \in Int /\ publishedFor[k] \in Int
  BY DEF KeyInv, KeyTypeOK
<1>2. CASE FetchSucceeds
  <2>1. /\ inFlight.state = "answered" /\ lookup' = Settled(inFlight.keys)
        /\ inFlight.age \in 0..Timeout
    BY <1>1, <1>2 DEF FetchSucceeds, KeyTypeOK
  <2>2. lookup[c].kid \in Kid /\ lookup'[c] = Verdict(inFlight.keys, lookup[c].kid)
    BY <1>1, <2>1 DEF Settled, LookupInv
  <2>3. \A k \in Kid : IF k \in inFlight.keys THEN retiredFor[k] <= inFlight.age ELSE publishedFor[k] <= inFlight.age
    BY <1>1, <2>1 DEF FetchInv
  <2>4. QED
    BY <1>1, <2>1, <2>2, <2>3 DEF Verdict
<1>3. ASSUME NEW kid \in Kid, NEW b \in Call, GetKey(b, kid)
      PROVE  /\ lookup'[c].state = "found" => retiredFor[lookup'[c].kid] < Ttl + Timeout
             /\ lookup'[c].state = "refused" => publishedFor[lookup'[c].kid] < Cooldown
  <2>1. CASE Hit(kid) \/ Cooling
    <3>1. /\ lookup'[c] = Verdict(keys, kid) /\ keys # {} /\ (Hit(kid) \/ Cooling)
          /\ inFlight.state = "none" /\ ~lastFailed
      BY <1>1, <1>3, <2>1 DEF GetKey, Hit, Cooling
    <3>2. CASE kid \in keys
      <4>1. sinceFetch < Ttl
        BY <1>1, <3>1, <3>2 DEF Hit, Cooling, FetchInv
      <4>2. retiredFor[kid] <= sinceFetch + Timeout
        BY <1>1, <3>2, <4>1 DEF FetchInv
      <4>3. QED
        BY <1>1, <3>1, <3>2, <4>1, <4>2 DEF Verdict
    <3>3. CASE kid \notin keys
      <4>1. sinceAttempt < Cooldown /\ publishedFor[kid] <= sinceAttempt
        BY <1>1, <3>1, <3>3 DEF Hit, Cooling, FetchInv
      <4>2. QED
        BY <1>1, <3>1, <3>3, <4>1 DEF Verdict
    <3>4. QED
      BY <3>2, <3>3
  <2>2. CASE ~(Hit(kid) \/ Cooling)
    BY <1>1, <1>3, <2>2 DEF GetKey
  <2>3. QED
    BY <2>1, <2>2
<1>4. CASE RestartCache \/ \E b \in Call : Forget(b)
  BY <1>1, <1>4 DEF RestartCache, Forget, NoLookup
<1>5. CASE FetchFails
  BY <1>5 DEF FetchFails
<1>6. CASE UNCHANGED lookup
  BY <1>6
<1>7. QED
  BY <1>2, <1>3, <1>4, <1>5, <1>6 DEF CacheStep, KeyStep, keyVars, AnswerKeys, KeyTick

\* The cache's and the provider's steps are all a server takes with them.
LEMMA ServerStep ==
  ASSUME request \in Workload, KeyInv, [Next]_vars
  PROVE  CacheStep
<1>1. CASE UNCHANGED vars
  BY <1>1 DEF vars, CacheStep, keyVars
<1>2. ASSUME NEW c \in Call, Arrive(c) PROVE CacheStep
  <2>1. Token(c).kid \in Nat \ {0} /\ Token(c).kid <= Active
    BY <1>2, WorkloadAssumption DEF Arrive, Token
  <2>2. Token(c).kid \in Kid
    BY <2>1, ActiveIsNewest, KeyCacheAssumption DEF Kid
  <2>3. QED
    BY <1>2, <2>2 DEF Arrive, CacheStep
<1>3. QED
  BY <1>1, <1>2 DEF Next, Crash, RestartRuntime, Handle, Authenticated, Rejected, CrmTool, PolicyTool, WarehouseTool,
     WarehouseStep, Connect, ConnectFails, Execute, StatementFails, Rollback, Release, CacheStep

\* However the calls, the fetches, the rotations and the restarts of both ends fall, a stale
\* verdict on a key has the excuse of a failed fetch or of one under way
\* (getKey and doFetch, jwks-cache.ts:59-97, 126-131).
THEOREM VerdictsAreExcused == Spec => VerdictIsExcused
<1> DEFINE Asked == request \in Workload
           Excused == \A c \in Call : lookup'[c] # lookup[c] =>
             \/ lastFailed' \/ inFlight'.state # "none"
             \/ /\ lookup'[c].state = "found" => retiredFor[lookup'[c].kid] < Ttl + Timeout
                /\ lookup'[c].state = "refused" => publishedFor[lookup'[c].kid] < Cooldown
<1>1. Init => WarehouseInv /\ KeyInv
  BY InitWarehouse, KeyInvInit DEF Init, RuntimeInit
<1>2. WarehouseInv /\ KeyInv /\ [Next]_vars => (WarehouseInv /\ KeyInv)'
  <2> SUFFICES ASSUME WarehouseInv, KeyInv, [Next]_vars PROVE (WarehouseInv /\ KeyInv)'
    OBVIOUS
  <2>1. CacheStep
    BY ServerStep DEF WarehouseInv, Requests
  <2>2. QED
    BY <2>1, NextWarehouse, NextKeys
<1>3. WarehouseInv /\ KeyInv /\ [Next]_vars => [Excused]_keyVars
  <2> SUFFICES ASSUME WarehouseInv, KeyInv, [Next]_vars PROVE Excused
    OBVIOUS
  <2>1. CacheStep
    BY ServerStep DEF WarehouseInv, Requests
  <2>2. QED
    BY <2>1, VerdictExcused
<1> HIDE DEF Excused
<1>4. Spec => [][Excused]_keyVars
  BY <1>1, <1>2, <1>3, PTL DEF Spec
<1>5. QED
  BY <1>4 DEF Excused, VerdictIsExcused

-------------------------------------------------------------------------------
(* What the policy engine decides *)

\* A set of numbers that is not empty has a least one.
LEMMA LeastNumber ==
  ASSUME NEW S \in SUBSET Nat, S # {}
  PROVE  \E m \in S : \A n \in S : m <= n
<1>1. PICK m \in S : \A n \in S : ~ (<<n, m>> \in OpToRel(<, Nat))
  BY NatLessThanWellFounded, WFMin
<1>2. \A n \in S : ~ (n < m)
  BY <1>1 DEF OpToRel
<1> QED
  BY <1>2

\* What loadPolicies and its schemas leave of a bundle: its rules are numbered, each with an
\* id of its own (schema.ts:66-89, loader.ts:23-64).
LEMMA LoadedRules ==
  ASSUME NEW name \in DOMAIN Bundles
  PROVE  LET rules == Bundles[name].rules IN
         /\ Len(rules) \in Nat /\ DOMAIN rules = 1..Len(rules)
         /\ \A r \in ToSet(rules) : r.id \in Nat \ {0} /\ r.priority \in Nat /\ r.effect \in {"allow", "deny", "annotate"}
         /\ \A i, j \in DOMAIN rules : rules[i].id = rules[j].id => i = j
<1> DEFINE rules == Bundles[name].rules
<1>1. BundleSchema(Bundles[name]) /\ \A i, j \in DOMAIN rules : rules[i].id = rules[j].id => i = j
  BY BundlesAssumption DEF Loads
<1>2. rules \in Seq(ToSet(rules))
  BY <1>1 DEF BundleSchema
<1>3. \A r \in ToSet(rules) : r.id \in Nat \ {0} /\ r.priority \in Nat /\ r.effect \in {"allow", "deny", "annotate"}
  BY <1>1 DEF BundleSchema
<1> HIDE DEF rules
<1>4. Len(rules) \in Nat /\ DOMAIN rules = 1..Len(rules)
  BY <1>2, LenProperties
<1>5. QED
  BY <1>1, <1>3, <1>4 DEF rules

\* byPriority is a strict total order of rules of different ids (evaluator.ts:223-226).
LEMMA EarlierOrders ==
  ASSUME NEW R, \A r \in R : r.id \in Nat /\ r.priority \in Nat, \A r, s \in R : r.id = s.id => r = s
  PROVE  /\ \A r, s \in R : r = s \/ Earlier(r, s) \/ Earlier(s, r)
         /\ \A r, s \in R : Earlier(r, s) => r # s /\ ~Earlier(s, r)
         /\ \A r, s, t \in R : Earlier(r, s) /\ Earlier(s, t) => Earlier(r, t)
BY DEF Earlier

\* Rules of different ids can be sorted: a rule's place is how many are earlier.
LEMMA SortedExists ==
  ASSUME NEW n \in Nat, NEW R, NEW e \in Bijection(1..n, R),
         \A r \in R : r.id \in Nat /\ r.priority \in Nat, \A r, s \in R : r.id = s.id => r = s
  PROVE  \E s \in [1..n -> R] : \A i, j \in 1..n : i < j => Earlier(s[i], s[j])
<1> DEFINE Ahead(r) == {s \in R : Earlier(s, r)}
           place == [r \in R |-> Cardinality(Ahead(r)) + 1]
<1>1. /\ \A r, s \in R : r = s \/ Earlier(r, s) \/ Earlier(s, r)
      /\ \A r, s \in R : Earlier(r, s) => r # s /\ ~Earlier(s, r)
      /\ \A r, s, t \in R : Earlier(r, s) /\ Earlier(s, t) => Earlier(r, t)
  BY EarlierOrders
<1>2. IsFiniteSet(1..n) /\ Cardinality(1..n) = n
  BY FS_Interval
<1>3. IsFiniteSet(R) /\ Cardinality(R) = n
  <2>1. ExistsBijection(1..n, R)
    BY DEF ExistsBijection
  <2>2. QED
    BY <1>2, <2>1, FS_Bijection
<1>4. ASSUME NEW r \in R
      PROVE  IsFiniteSet(Ahead(r)) /\ Cardinality(Ahead(r)) \in 0..(n - 1)
  <2>1. Ahead(r) \in SUBSET R /\ r \notin Ahead(r)
    BY <1>1
  <2> HIDE DEF Ahead
  <2>2. /\ IsFiniteSet(Ahead(r)) /\ Cardinality(Ahead(r)) <= Cardinality(R)
        /\ (Cardinality(R) = Cardinality(Ahead(r)) => R = Ahead(r))
    BY <1>3, <2>1, FS_Subset
  <2>3. Cardinality(Ahead(r)) \in Nat
    BY <2>2, FS_CardinalityType
  <2>4. QED
    BY <1>3, <2>1, <2>2, <2>3
<1>5. ASSUME NEW r \in R, NEW s \in R, Earlier(r, s)
      PROVE  Cardinality(Ahead(r)) < Cardinality(Ahead(s))
  <2>1. Ahead(r) \in SUBSET Ahead(s) /\ r \in Ahead(s) /\ r \notin Ahead(r)
    <3>1. \A t \in R : Earlier(t, r) => Earlier(t, s)
      BY <1>1, <1>5
    <3>2. ~Earlier(r, r)
      BY <1>1
    <3>3. Ahead(r) \subseteq Ahead(s)
      BY <3>1
    <3>4. r \in Ahead(s) /\ r \notin Ahead(r)
      BY <1>5, <3>2
    <3>5. QED
      BY <3>3, <3>4
  <2> HIDE DEF Ahead
  <2>2. IsFiniteSet(Ahead(s)) /\ Cardinality(Ahead(r)) \in Nat /\ Cardinality(Ahead(s)) \in Nat
    BY <1>4
  <2>3. /\ Cardinality(Ahead(r)) <= Cardinality(Ahead(s))
        /\ (Cardinality(Ahead(s)) = Cardinality(Ahead(r)) => Ahead(s) = Ahead(r))
    BY <2>1, <2>2, FS_Subset
  <2>4. QED
    BY <2>1, <2>2, <2>3
<1> HIDE DEF Ahead
<1>6. \A r \in R : place[r] \in 1..n /\ place[r] = Cardinality(Ahead(r)) + 1
  BY <1>4
<1>7. \A r, s \in R : Earlier(r, s) => place[r] < place[s]
  BY <1>4, <1>5, <1>6
<1> HIDE DEF place
<1>8. place \in Injection(R, 1..n)
  <2>1. place \in [R -> 1..n]
    BY <1>6 DEF place
  <2>2. \A r, s \in R : place[r] = place[s] => r = s
    BY <1>1, <1>6, <1>7
  <2>3. QED
    BY <2>1, <2>2 DEF Injection, IsInjective
<1>9. \A i \in 1..n : \E r \in R : place[r] = i
  <2>1. Cardinality(R) = Cardinality(1..n)
    BY <1>2, <1>3
  <2>2. place \in Surjection(R, 1..n)
    BY ONLY <1>2, <1>8, <2>1, FS_Injection
  <2>3. QED
    BY <2>2 DEF Surjection
<1> DEFINE sorted == [i \in 1..n |-> CHOOSE r \in R : place[r] = i]
<1>10. \A i \in 1..n : sorted[i] \in R /\ place[sorted[i]] = i
  BY <1>9
<1>11. sorted \in [1..n -> R]
  BY <1>10
<1> HIDE DEF sorted
<1>12. \A i, j \in 1..n : i < j => Earlier(sorted[i], sorted[j])
  <2> SUFFICES ASSUME NEW i \in 1..n, NEW j \in 1..n, i < j PROVE Earlier(sorted[i], sorted[j])
    OBVIOUS
  <2>1. sorted[i] \in R /\ sorted[j] \in R /\ place[sorted[i]] = i /\ place[sorted[j]] = j
    BY <1>10
  <2>2. sorted[i] # sorted[j] /\ ~Earlier(sorted[j], sorted[i])
    BY <1>7, <2>1
  <2>3. QED
    BY <1>1, <2>1, <2>2
<1>13. QED
  BY <1>11, <1>12

\* What the loop goes through: the bundle's rules, each once, in order (evaluator.ts:178).
LEMMA OrderedIsSorted ==
  ASSUME NEW name \in DOMAIN Bundles
  PROVE  LET s == Ordered[name]
             rules == Bundles[name].rules
         IN /\ Len(s) \in Nat
            /\ \A i \in 1..Len(s) : s[i] \in ToSet(rules)
            /\ \A r \in ToSet(rules) : \E i \in 1..Len(s) : s[i] = r
            /\ \A i, j \in 1..Len(s) : i < j => Earlier(s[i], s[j])
<1> DEFINE rules == Bundles[name].rules
           n == Len(rules)
           R == ToSet(rules)
           s == Ordered[name]
<1>1. /\ n \in Nat /\ DOMAIN rules = 1..n
      /\ \A r \in R : r.id \in Nat /\ r.priority \in Nat
      /\ \A i, j \in 1..n : rules[i].id = rules[j].id => i = j
  BY LoadedRules
<1>2. s = InOrder(rules)
  BY DEF Ordered
<1>3. R = {rules[i] : i \in 1..n}
  BY <1>1 DEF ToSet
<1> HIDE DEF rules, n, R, s
<1>4. \A r, t \in R : r.id = t.id => r = t
  BY <1>1, <1>3
<1> DEFINE e == [i \in 1..n |-> rules[i]]
<1>5. e \in Bijection(1..n, R)
  <2>1. e \in [1..n -> R]
    BY <1>3
  <2>2. \A i, j \in 1..n : e[i] = e[j] => i = j
    BY <1>1
  <2>3. \A r \in R : \E i \in 1..n : e[i] = r
    BY <1>3
  <2> HIDE DEF e
  <2>4. QED
    BY <2>1, <2>2, <2>3 DEF Bijection, Injection, Surjection, IsInjective
<1> HIDE DEF e
<1>6. \E t \in [1..n -> R] : \A i, j \in 1..n : i < j => Earlier(t[i], t[j])
  BY <1>1, <1>4, <1>5, SortedExists
<1>7. s \in [1..n -> R] /\ \A i, j \in 1..n : i < j => Earlier(s[i], s[j])
  <2>1. s = CHOOSE t \in [1..n -> R] : \A i, j \in 1..n : i < j => Earlier(t[i], t[j])
    BY <1>1, <1>2 DEF InOrder, R
  <2>2. QED
    BY <1>6, <2>1
<1>8. Len(s) = n
  <2>1. s \in Seq(R)
    BY <1>1, <1>7, SeqDef
  <2>2. QED
    BY <1>1, <1>7, <2>1, LenProperties
<1>9. \A r, t \in R : Earlier(r, t) => r # t
  BY <1>1, <1>4, EarlierOrders
<1>10. \A r \in R : \E i \in 1..n : s[i] = r
  <2>1. s \in Injection(1..n, R)
    <3>1. \A i, j \in 1..n : s[i] = s[j] => i = j
      BY <1>1, <1>7, <1>9
    <3>2. QED
      BY <1>7, <3>1 DEF Injection, IsInjective
  <2>2. IsFiniteSet(1..n) /\ Cardinality(1..n) = n
    BY <1>1, FS_Interval
  <2>3. IsFiniteSet(R) /\ Cardinality(R) = n
    <3>1. ExistsBijection(1..n, R)
      BY <1>5 DEF ExistsBijection
    <3>2. QED
      BY <2>2, <3>1, FS_Bijection
  <2>4. Cardinality(1..n) = Cardinality(R)
    BY <2>2, <2>3
  <2>5. s \in Surjection(1..n, R)
    BY ONLY <2>1, <2>3, <2>4, FS_Injection
  <2>6. QED
    BY <2>5 DEF Surjection
<1>11. QED
  BY <1>1, <1>7, <1>8, <1>10 DEF s, rules, R

\* What the loop's turns leave, for each number of them (evaluator.ts:182-208).
TurnsUpTo(n, name, input, f) ==
  f = [i \in 0..n |-> IF i = 0 THEN [decision |-> Bundles[name].defaultEffect, ruleId |-> 0, rateTier |-> "", evaluated |-> 0]
                      ELSE Turn(i, Ordered[name][i], input, f[i - 1])]

\* The loop has an outcome after any number of turns.
LEMMA TurnsExist ==
  ASSUME NEW n \in Nat, NEW name, NEW input
  PROVE  \E f : TurnsUpTo(n, name, input, f)
<1> DEFINE start == [decision |-> Bundles[name].defaultEffect, ruleId |-> 0, rateTier |-> "", evaluated |-> 0]
           Next1(i, f) == Turn(i, Ordered[name][i], input, f[i - 1])
           missing == {k \in 0..n : ~ \E f : TurnsUpTo(k, name, input, f)}
<1> SUFFICES ASSUME missing # {} PROVE FALSE
  OBVIOUS
<1>1. missing \in SUBSET Nat
  OBVIOUS
<1>2. PICK m \in missing : \A k \in missing : m <= k
  <2> HIDE DEF missing
  <2> QED
    BY <1>1, LeastNumber
<1>3. m \in 0..n /\ ~ \E f : TurnsUpTo(m, name, input, f)
  OBVIOUS
<1>4. CASE m = 0
  <2> DEFINE g == [i \in 0..0 |-> start]
             h == [i \in 0..0 |-> IF i = 0 THEN start ELSE Next1(i, g)]
  <2>1. g = h
    <3> HIDE DEF start, Next1
    <3> QED
      OBVIOUS
  <2>2. TurnsUpTo(0, name, input, g)
    BY <2>1 DEF TurnsUpTo
  <2> QED
    BY <1>3, <1>4, <2>2
<1>5. CASE m # 0
  <2>1. m - 1 \in 0..n /\ m - 1 \notin missing
    BY <1>2, <1>3, <1>5
  <2>2. PICK f : TurnsUpTo(m - 1, name, input, f)
    BY <2>1
  <2> DEFINE last == Next1(m, f)
             g == [i \in 0..m |-> IF i = m THEN last ELSE f[i]]
  <2>3. \A i \in 0..(m - 1) : f[i] = IF i = 0 THEN start ELSE Next1(i, f)
    BY <2>2 DEF TurnsUpTo
  <2>4. ASSUME NEW i \in 0..m
        PROVE  g[i] = IF i = 0 THEN start ELSE Next1(i, g)
    <3>1. CASE i = m
      <4>1. g[m] = last /\ g[m - 1] = f[m - 1]
        BY <1>3, <1>5
      <4> QED
        BY <1>5, <3>1, <4>1
    <3>2. CASE i # m
      <4>1. i \in 0..(m - 1) /\ g[i] = f[i]
        BY <1>3, <3>2
      <4>2. CASE i = 0
        BY <4>1, <4>2, <2>3
      <4>3. CASE i # 0
        <5>1. g[i - 1] = f[i - 1]
          BY <1>3, <4>1, <4>3
        <5> QED
          BY <4>1, <4>3, <5>1, <2>3
      <4> QED
        BY <4>2, <4>3
    <3> QED
      BY <3>1, <3>2
  <2>5. TurnsUpTo(m, name, input, g)
    <3> DEFINE h == [i \in 0..m |-> IF i = 0 THEN start ELSE Next1(i, g)]
    <3>1. g = h
      <4> HIDE DEF last, start, Next1
      <4> QED
        BY <2>4
    <3> QED
      BY <3>1 DEF TurnsUpTo
  <2> QED
    BY <1>3, <2>5
<1> QED
  BY <1>4, <1>5

Decides(k, name, input) ==
  Ordered[name][k].effect # "annotate" /\ EvaluateCondition(Ordered[name][k].match, input)

\* The loop gets to rule k, which leaves its tier.
Annotates(k, name, input) ==
  /\ Ordered[name][k].effect = "annotate" /\ Ordered[name][k].rateTier # ""
  /\ EvaluateCondition(Ordered[name][k].match, input)
  /\ \A d \in 1..(k - 1) : ~Decides(d, name, input)

\* What i turns have found: the first rule that decides, and the last tier before it.
Found(i, x, name, input) ==
  /\ DOMAIN x = {"decision", "ruleId", "rateTier", "evaluated"}
  /\ \/ /\ x.ruleId = 0 /\ x.decision = Bundles[name].defaultEffect
        /\ \A d \in 1..i : ~Decides(d, name, input)
     \/ \E d \in 1..i :
          /\ x.ruleId # 0 /\ x.ruleId = Ordered[name][d].id /\ x.decision = Ordered[name][d].effect
          /\ Decides(d, name, input) /\ \A k \in 1..(d - 1) : ~Decides(k, name, input)
  /\ \/ x.rateTier = "" /\ \A k \in 1..i : ~Annotates(k, name, input)
     \/ \E t \in 1..i :
          /\ x.rateTier = Ordered[name][t].rateTier
          /\ Annotates(t, name, input) /\ \A k \in 1..i : Annotates(k, name, input) => k <= t

\* A turn finds what the ones before it have, or its own rule's (evaluator.ts:182-208).
LEMMA TurnFinds ==
  ASSUME NEW name \in DOMAIN Bundles, NEW input, NEW i \in 1..Len(Ordered[name]), NEW x, Found(i - 1, x, name, input)
  PROVE  Found(i, Turn(i, Ordered[name][i], input, x), name, input)
<1> DEFINE rule == Ordered[name][i]
           y == Turn(i, rule, input, x)
           holds == EvaluateCondition(rule.match, input)
<1>1. rule.id # 0 /\ i - 1 \in Nat /\ i \in Nat /\ 1..i = 1..(i - 1) \cup {i}
  BY OrderedIsSorted, LoadedRules
<1>2. DOMAIN x = {"decision", "ruleId", "rateTier", "evaluated"}
  BY DEF Found
<1>3. CASE x.ruleId # 0
  <2>1. y = x
    BY <1>3 DEF Turn
  <2>2. PICK d \in 1..(i - 1) :
          /\ x.ruleId # 0 /\ x.ruleId = Ordered[name][d].id /\ x.decision = Ordered[name][d].effect
          /\ Decides(d, name, input) /\ \A k \in 1..(d - 1) : ~Decides(k, name, input)
    BY <1>3 DEF Found
  <2>3. ~Annotates(i, name, input)
    BY <2>2 DEF Annotates
  <2>4. \A k \in 1..i : Annotates(k, name, input) => k \in 1..(i - 1)
    BY <1>1, <2>3
  <2> HIDE DEF rule, y, holds
  <2>5. Found(i, x, name, input)
    BY <1>1, <1>2, <2>2, <2>4 DEF Found
  <2>6. QED
    BY <2>1, <2>5 DEF y, rule
<1>4. CASE x.ruleId = 0
  <2>1. x.decision = Bundles[name].defaultEffect /\ \A d \in 1..(i - 1) : ~Decides(d, name, input)
    BY <1>4 DEF Found
  <2>2. CASE ~holds
    <3>1. y = [x EXCEPT !.evaluated = i]
      BY <1>4, <2>2 DEF Turn
    <3>2. DOMAIN y = DOMAIN x /\ y.decision = x.decision /\ y.ruleId = x.ruleId /\ y.rateTier = x.rateTier
      BY <1>2, <3>1
    <3>3. ~Decides(i, name, input) /\ ~Annotates(i, name, input)
      BY <2>2 DEF Decides, Annotates
    <3> HIDE DEF rule, y, holds
    <3>4. \A k \in 1..i : Annotates(k, name, input) \/ Decides(k, name, input) => k \in 1..(i - 1)
      BY <1>1, <3>3
    <3>5. Found(i, y, name, input)
      BY <1>1, <1>2, <1>4, <2>1, <3>2, <3>4 DEF Found
    <3>6. QED
      BY <3>5 DEF y, rule
  <2>3. CASE holds /\ rule.effect = "annotate"
    <3>1. y = [x EXCEPT !.evaluated = i, !.rateTier = TierAfter(rule, @)]
      BY <1>4, <2>3 DEF Turn
    <3>2. /\ DOMAIN y = DOMAIN x /\ y.decision = x.decision /\ y.ruleId = x.ruleId
          /\ y.rateTier = IF rule.rateTier # "" THEN rule.rateTier ELSE x.rateTier
      BY <1>2, <3>1 DEF TierAfter
    <3>3. ~Decides(i, name, input) /\ (Annotates(i, name, input) <=> rule.rateTier # "")
      BY <2>1, <2>3 DEF Decides, Annotates
    <3>4. \A d \in 1..i : ~Decides(d, name, input)
      BY <1>1, <2>1, <3>3
    <3> HIDE DEF y, holds
    <3>5. CASE rule.rateTier # ""
      <4>1. y.rateTier = Ordered[name][i].rateTier /\ Annotates(i, name, input)
        BY <3>2, <3>3, <3>5
      <4>2. \A k \in 1..i : k <= i
        OBVIOUS
      <4> HIDE DEF rule
      <4>3. Found(i, y, name, input)
        BY <1>1, <1>2, <1>4, <2>1, <3>2, <3>4, <4>1, <4>2 DEF Found
      <4>4. QED
        BY <4>3 DEF y, rule
    <3>6. CASE rule.rateTier = ""
      <4>1. \A k \in 1..i : Annotates(k, name, input) => k \in 1..(i - 1)
        BY <1>1, <3>3, <3>6
      <4>2. y.rateTier = x.rateTier
        BY <3>2, <3>6
      <4> HIDE DEF rule
      <4>3. Found(i, y, name, input)
        BY <1>1, <1>2, <1>4, <2>1, <3>2, <3>4, <4>1, <4>2 DEF Found
      <4>4. QED
        BY <4>3 DEF y, rule
    <3>7. QED
      BY <3>5, <3>6
  <2>4. CASE holds /\ rule.effect # "annotate"
    <3>1. y = [x EXCEPT !.evaluated = i, !.decision = rule.effect, !.ruleId = rule.id]
      BY <1>4, <2>4 DEF Turn
    <3>2. DOMAIN y = DOMAIN x /\ y.decision = rule.effect /\ y.ruleId = rule.id /\ y.rateTier = x.rateTier
      BY <1>2, <3>1
    <3>3. Decides(i, name, input) /\ ~Annotates(i, name, input)
      BY <2>4 DEF Decides, Annotates
    <3>4. \A k \in 1..i : Annotates(k, name, input) => k \in 1..(i - 1)
      BY <1>1, <3>3
    <3>5. y.ruleId # 0 /\ y.ruleId = Ordered[name][i].id /\ y.decision = Ordered[name][i].effect
      BY <1>1, <3>2
    <3> HIDE DEF rule, y, holds
    <3>6. Found(i, y, name, input)
      BY <1>1, <1>2, <2>1, <3>2, <3>3, <3>4, <3>5 DEF Found
    <3>7. QED
      BY <3>6 DEF y, rule
  <2>5. QED
    BY <2>2, <2>3, <2>4
<1>5. QED
  BY <1>3, <1>4

\* evaluate returns what the turns for all the rules have found (evaluator.ts:176-221).
LEMMA EvaluateFinds ==
  ASSUME NEW name \in DOMAIN Bundles, NEW input
  PROVE  Found(Len(Ordered[name]), Evaluate(name, input), name, input)
<1> DEFINE n == Len(Ordered[name])
           after == CHOOSE f : TurnsUpTo(n, name, input, f)
           start == [decision |-> Bundles[name].defaultEffect, ruleId |-> 0, rateTier |-> "", evaluated |-> 0]
           wrong == {i \in 0..n : ~Found(i, after[i], name, input)}
<1>1. n \in Nat
  BY OrderedIsSorted
<1>2. Evaluate(name, input) = after[n]
  BY DEF Evaluate, TurnsUpTo
<1>3. TurnsUpTo(n, name, input, after)
  <2> HIDE DEF n
  <2>1. \E f : TurnsUpTo(n, name, input, f)
    BY <1>1, TurnsExist
  <2>2. QED
    BY <2>1
<1> HIDE DEF n, after
<1>4. \A i \in 0..n : after[i] = IF i = 0 THEN start ELSE Turn(i, Ordered[name][i], input, after[i - 1])
  BY <1>3 DEF TurnsUpTo
<1>5. wrong = {}
  <2> SUFFICES ASSUME wrong # {} PROVE FALSE
    OBVIOUS
  <2>1. wrong \in SUBSET Nat
    BY <1>1
  <2>2. PICK m \in wrong : \A i \in wrong : m <= i
    <3> HIDE DEF wrong
    <3> QED
      BY <2>1, LeastNumber
  <2>3. m \in 0..n /\ ~Found(m, after[m], name, input)
    BY <2>2
  <2>4. CASE m = 0
    <3>1. after[m] = start
      BY <1>1, <1>4, <2>4
    <3>2. \A k \in 1..0 : FALSE
      OBVIOUS
    <3>3. /\ DOMAIN start = {"decision", "ruleId", "rateTier", "evaluated"}
          /\ start.ruleId = 0 /\ start.decision = Bundles[name].defaultEffect /\ start.rateTier = ""
      OBVIOUS
    <3> HIDE DEF start
    <3>4. Found(0, start, name, input)
      BY <3>2, <3>3 DEF Found
    <3>5. QED
      BY <2>3, <2>4, <3>1, <3>4
  <2>5. CASE m # 0
    <3>1. m \in 1..n /\ m - 1 \in 0..n /\ ~(m <= m - 1)
      BY <1>1, <2>3, <2>5
    <3>2. Found(m - 1, after[m - 1], name, input)
      BY <2>2, <3>1
    <3>3. Found(m, Turn(m, Ordered[name][m], input, after[m - 1]), name, input)
      BY <3>1, <3>2, TurnFinds DEF n
    <3>4. after[m] = Turn(m, Ordered[name][m], input, after[m - 1])
      BY <1>4, <2>3, <2>5
    <3>5. QED
      BY <2>3, <3>3, <3>4
  <2>6. QED
    BY <2>4, <2>5
<1>6. QED
  BY <1>1, <1>2, <1>5 DEF n

\* What the loop finds is what the bundle says without it (evaluator.ts:176-221).
LEMMA LoopSaysTheBundle ==
  ASSUME NEW name \in DOMAIN Bundles, NEW input
  PROVE  SaysTheBundle(Evaluate(name, input), Bundles[name], input)
<1> DEFINE s == Ordered[name]
           n == Len(s)
           bundle == Bundles[name]
           R == ToSet(bundle.rules)
           deciders == Deciders(bundle, input)
           tiers == Tiers(bundle, input)
           x == Evaluate(name, input)
<1>1. /\ n \in Nat
      /\ \A i \in 1..n : s[i] \in R
      /\ \A r \in R : \E i \in 1..n : s[i] = r
      /\ \A i, j \in 1..n : i < j => Earlier(s[i], s[j])
  BY OrderedIsSorted
<1>2. /\ \A r, t \in R : r = t \/ Earlier(r, t) \/ Earlier(t, r)
      /\ \A r, t \in R : Earlier(r, t) => r # t /\ ~Earlier(t, r)
  <2>1. \A r \in R : r.id \in Nat /\ r.priority \in Nat
    BY LoadedRules
  <2>2. \A r, t \in R : r.id = t.id => r = t
    BY LoadedRules DEF ToSet
  <2> HIDE DEF R
  <2>3. QED
    BY <2>1, <2>2, EarlierOrders
<1>3. Found(n, x, name, input)
  BY EvaluateFinds
<1>4. /\ \A k \in 1..n : Decides(k, name, input) <=> s[k] \in deciders
      /\ deciders \subseteq R /\ tiers \subseteq R
      /\ \A k \in 1..n : s[k] \in tiers <=>
           /\ s[k].effect = "annotate" /\ s[k].rateTier # "" /\ EvaluateCondition(s[k].match, input)
           /\ deciders # {} => Earlier(s[k], FirstRule(deciders))
  BY <1>1 DEF Decides, Deciders, Tiers
<1>5. \A k \in 1..n : Annotates(k, name, input) <=>
        /\ s[k].effect = "annotate" /\ s[k].rateTier # "" /\ EvaluateCondition(s[k].match, input)
        /\ \A d \in 1..(k - 1) : ~Decides(d, name, input)
  BY DEF Annotates
<1>6. \A k \in 1..n : Decides(k, name, input) => s[k].effect # "annotate"
  BY DEF Decides
<1> HIDE DEF s, n, R, deciders, tiers, x
<1>7. ASSUME NEW d \in 1..n, Decides(d, name, input), \A k \in 1..(d - 1) : ~Decides(k, name, input)
      PROVE  deciders # {} /\ FirstRule(deciders) = s[d]
  <2>1. s[d] \in deciders
    BY <1>4, <1>7
  <2>2. \A r \in deciders : r = s[d] \/ Earlier(s[d], r)
    <3> SUFFICES ASSUME NEW r \in deciders PROVE r = s[d] \/ Earlier(s[d], r)
      OBVIOUS
    <3>1. PICK k \in 1..n : s[k] = r
      BY <1>1, <1>4
    <3>2. ~(k < d)
      <4>1. Decides(k, name, input)
        BY <1>4, <3>1
      <4>2. k < d => k \in 1..(d - 1)
        BY <1>1
      <4>3. QED
        BY <1>7, <4>1, <4>2
    <3>3. k = d \/ d < k
      BY <1>1, <3>1, <3>2
    <3>4. QED
      BY <1>1, <3>1, <3>3
  <2>3. \A r \in deciders : (\A t \in deciders : t = r \/ Earlier(r, t)) => r = s[d]
    BY <1>2, <1>4, <2>1, <2>2
  <2> DEFINE chosen == FirstRule(deciders)
  <2>4. chosen \in deciders /\ \A t \in deciders : t = chosen \/ Earlier(chosen, t)
    BY ONLY <2>1, <2>2 DEF FirstRule
  <2> HIDE DEF chosen
  <2>5. chosen = s[d] /\ deciders # {}
    BY ONLY <2>1, <2>3, <2>4
  <2>6. QED
    BY <2>5 DEF chosen
<1>8. (\A k \in 1..n : ~Decides(k, name, input)) => deciders = {}
  <2>1. ASSUME NEW r \in deciders PROVE \E k \in 1..n : Decides(k, name, input)
    <3>1. PICK k \in 1..n : s[k] = r
      BY <1>1, <1>4
    <3>2. QED
      BY <1>4, <3>1
  <2>2. QED
    BY <2>1
<1>9. \A k \in 1..n : s[k] \in tiers <=> Annotates(k, name, input)
  <2> SUFFICES ASSUME NEW k \in 1..n, s[k].effect = "annotate"
               PROVE  (deciders # {} => Earlier(s[k], FirstRule(deciders)))
                        <=> \A d \in 1..(k - 1) : ~Decides(d, name, input)
    BY <1>4, <1>5
  <2>1. CASE \A d \in 1..n : ~Decides(d, name, input)
    BY <1>1, <1>8, <2>1
  <2>2. CASE \E d \in 1..n : Decides(d, name, input)
    <3> DEFINE D == {d \in 1..n : Decides(d, name, input)}
    <3>1. D \in SUBSET Nat /\ D # {}
      BY <1>1, <2>2
    <3>2. PICK d \in D : \A e \in D : d <= e
      <4> HIDE DEF D
      <4> QED
        BY <3>1, LeastNumber
    <3>3. d \in 1..n /\ Decides(d, name, input) /\ \A e \in 1..(d - 1) : ~Decides(e, name, input)
      BY <1>1, <3>2
    <3>4. deciders # {} /\ FirstRule(deciders) = s[d] /\ k # d
      BY <1>6, <1>7, <3>3
    <3>5. Earlier(s[k], s[d]) <=> k < d
      BY <1>1, <1>2, <3>3, <3>4
    <3>6. k < d <=> \A e \in 1..(k - 1) : ~Decides(e, name, input)
      BY <1>1, <3>3, <3>4
    <3>7. QED
      BY <3>4, <3>5, <3>6
  <2>3. QED
    BY <2>1, <2>2
<1>10. ASSUME NEW t \in 1..n, Annotates(t, name, input), \A k \in 1..n : Annotates(k, name, input) => k <= t
       PROVE  tiers # {} /\ LastRule(tiers) = s[t]
  <2>1. s[t] \in tiers
    BY <1>9, <1>10
  <2>2. \A r \in tiers : r = s[t] \/ Earlier(r, s[t])
    <3> SUFFICES ASSUME NEW r \in tiers PROVE r = s[t] \/ Earlier(r, s[t])
      OBVIOUS
    <3>1. PICK k \in 1..n : s[k] = r
      BY <1>1, <1>4
    <3>2. k <= t
      BY <1>9, <1>10, <3>1
    <3>3. k = t \/ k < t
      BY <1>1, <3>1, <3>2
    <3>4. QED
      BY <1>1, <3>1, <3>3
  <2>3. \A r \in tiers : (\A u \in tiers : u = r \/ Earlier(u, r)) => r = s[t]
    BY <1>2, <1>4, <2>1, <2>2
  <2> DEFINE chosen == LastRule(tiers)
  <2>4. chosen \in tiers /\ \A u \in tiers : u = chosen \/ Earlier(u, chosen)
    BY ONLY <2>1, <2>2 DEF LastRule
  <2> HIDE DEF chosen
  <2>5. chosen = s[t] /\ tiers # {}
    BY ONLY <2>1, <2>3, <2>4
  <2>6. QED
    BY <2>5 DEF chosen
<1>11. (\A k \in 1..n : ~Annotates(k, name, input)) => tiers = {}
  <2>1. ASSUME NEW r \in tiers PROVE \E k \in 1..n : Annotates(k, name, input)
    <3>1. PICK k \in 1..n : s[k] = r
      BY <1>1, <1>4
    <3>2. QED
      BY <1>9, <3>1
  <2>2. QED
    BY <2>1
<1>12. /\ x.decision = IF deciders = {} THEN bundle.defaultEffect ELSE FirstRule(deciders).effect
       /\ x.ruleId = IF deciders = {} THEN 0 ELSE FirstRule(deciders).id
  BY <1>3, <1>7, <1>8 DEF Found, s
<1>13. x.rateTier = IF tiers = {} THEN "" ELSE LastRule(tiers).rateTier
  BY <1>3, <1>10, <1>11 DEF Found, s
<1>14. QED
  BY <1>12, <1>13 DEF SaysTheBundle, deciders, tiers, x

\* A decision that call c has been given is the engine's on its request; tools without one,
\* a list of rules or an error, answer in another form (tools.ts:29-124).
Decided ==
  /\ DOMAIN answer = Call
  /\ \A c \in Call : serves = "policy-engine" /\ "result" \in DOMAIN answer[c] =>
       LET args == request[c].args IN
       args.bundle \in DOMAIN Bundles /\ answer[c].result = Evaluate(args.bundle, args.input)

\* The three tools answer with the decision, or without one (tools.ts:29-124).
LEMMA PolicyAnswers ==
  ASSUME NEW tool \in PolicyTools, NEW args, "result" \in DOMAIN PolicyAnswer(tool, args)
  PROVE  args.bundle \in DOMAIN Bundles /\ PolicyAnswer(tool, args).result = Evaluate(args.bundle, args.input)
<1>1. args.bundle \in DOMAIN Bundles
  BY DEF PolicyAnswer
<1>2. tool # "policy.list_rules"
  BY <1>1 DEF PolicyAnswer
<1>3. CASE tool = "policy.explain"
  BY <1>1, <1>3 DEF PolicyAnswer
<1>4. CASE tool = "policy.evaluate"
  BY <1>1, <1>4 DEF PolicyAnswer
<1>5. QED
  BY <1>1, <1>2, <1>3, <1>4 DEF PolicyTools

\* A call's answer is its tool's, and stays (server.ts:147-199).
LEMMA NextDecided ==
  ASSUME WarehouseInv, Decided, [Next]_vars
  PROVE  Decided'
<1>1. request \in Workload /\ serves \in {request[c].server : c \in Call}
  BY DEF WarehouseInv, Requests
<1>2. UNCHANGED <<serves, request>>
  BY DEF Next, vars, runtimeVars, warehouseVars, Crash, RestartRuntime, Arrive, Step,
     Handle, Authenticated, Rejected, CrmTool, PolicyTool, WarehouseTool, WarehouseStep, Connect,
     ConnectFails, Execute, StatementFails, Rollback, Release
<1>3. CASE UNCHANGED answer
  BY <1>2, <1>3 DEF Decided
<1>4. ASSUME NEW c \in Call, PolicyTool(c)
      PROVE  Decided'
  <2>1. /\ serves = "policy-engine"
        /\ answer' = [answer EXCEPT ![c] = PolicyAnswer(request[c].tool, request[c].args)]
    BY <1>4 DEF PolicyTool
  <2>2. request[c].tool \in PolicyTools
    BY <1>1, <2>1, WorkloadAssumption, PolicyToolsAssumption
  <2>3. DOMAIN answer' = Call /\ \A b \in Call \ {c} : answer'[b] = answer[b]
    BY <2>1 DEF Decided
  <2>4. answer'[c] = PolicyAnswer(request[c].tool, request[c].args)
    BY <2>1 DEF Decided
  <2>5. "result" \in DOMAIN answer'[c] =>
          LET args == request[c].args IN
          args.bundle \in DOMAIN Bundles /\ answer'[c].result = Evaluate(args.bundle, args.input)
    BY <2>2, <2>4, PolicyAnswers
  <2>6. QED
    BY <1>2, <2>3, <2>5 DEF Decided
<1>5. ASSUME NEW c \in Call, CrmTool(c)
      PROVE  Decided'
  <2>1. serves' = "salesforce" /\ DOMAIN answer' = Call
    BY <1>2, <1>5 DEF CrmTool, Decided
  <2>2. QED
    BY <2>1 DEF Decided
<1>6. QED
  BY <1>3, <1>4, <1>5 DEF Next, vars, memoryVars, Crash, Handle, WarehouseTool

\* Whatever the bundles hold, ties of priority, annotations on both sides of the rule that
\* decides, and rules nothing matches, a decision the engine gives is the bundle's: the first
\* rule's, in order of priority and then of id, that matches and decides, with the last
\* annotation before it (evaluate, evaluator.ts:176-226).
THEOREM LoopFollowsTheBundle == Spec => []DecisionsFollowTheBundle
<1>1. Init => WarehouseInv /\ Decided
  <2>1. Init => Decided
    BY DEF Init, Decided, NoAnswer
  <2>2. QED
    BY <2>1, InitWarehouse
<1>2. WarehouseInv /\ Decided /\ [Next]_vars => WarehouseInv' /\ Decided'
  BY NextWarehouse, NextDecided
<1>3. Decided => DecisionsFollowTheBundle
  BY LoopSaysTheBundle DEF Decided, DecisionsFollowTheBundle
<1>4. QED
  BY <1>1, <1>2, <1>3, PTL DEF Spec
===============================================================================
