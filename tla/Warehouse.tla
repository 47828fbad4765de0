------------------------------- MODULE Warehouse --------------------------------
(***************************************************************************)
(* The warehouse server's tools (apps/mcp-servers/postgres/src/            *)
(* warehouse.ts, tools.ts, guard.ts): a pooled database connection is made *)
(* the caller's for one transaction, statement by statement.               *)
(***************************************************************************)
EXTENDS McpServer

CONSTANTS RoleToDbRole,  \* ROLE_TO_DB_ROLE
          Conn,          \* the connections of the pool
          NoConn,
          Table,         \* EXPOSED_TABLES
          Login,         \* settings of a connection nobody has touched: its login role's
          Row,           \* the rows of the tables: table, tenant and territory, or order
          Forbidden      \* words and names FORBIDDEN_KEYWORD and FORBIDDEN_IDENTIFIER match

WarehouseTools == {"pg.query", "pg.list_tables", "pg.describe_table"}

\* The tools of this server; a connection's settings; a territory's roles are not the ones
\* that see their whole tenant; an order's id is its primary key (warehouse.ts:39-44,
\* 0000_warehouse.sql:29-30, 100-135).
ASSUME WarehouseAssumption ==
  /\ \A asked \in Workload, c \in Call : asked[c].server = "postgres" => asked[c].tool \in WarehouseTools
  /\ NoConn \notin Conn /\ IsFiniteSet(Table)
  /\ Login = [tx |-> "none", tenant |-> Login.tenant, territory |-> Login.territory, role |-> Login.role]
  /\ {RoleToDbRole["analyst"], RoleToDbRole["viewer"]} \cap {"app_admin", "app_manager"} = {}
  /\ \A o, p \in Row : o.table = "orders" /\ p.table = "orders" /\ o.id = p.id => o = p

VARIABLES conn,      \* conn[c]: the connection call c holds
          pos,       \* how many statements of its tool are done
          session,   \* session[d]: connection d's transaction and its settings
          read       \* read[c]: the settings its own statements ran under, the rows they
                     \* could see and the words of the query

warehouseVars == <<conn, pos, session, read>>

NoRead == [none |-> TRUE]

\* The settings of the transaction withCallerContext prepares for a caller.
ContextOf(caller) ==
  [tx |-> "open", tenant |-> caller.tenant, territory |-> caller.territory, role |-> RoleToDbRole[caller.role]]

-------------------------------------------------------------------------------
(* The database: which rows the policies show under a connection's settings. *)

TenantWide == {"app_admin", "app_manager"}

AppRole == TenantWide \cup {"app_analyst", "app_viewer"}

\* The policies of customers, orders and products; no policy shows the login role a row.
PolicyShows(row, s) ==
  /\ s.role \in AppRole
  /\ row.tenant = s.tenant
  /\ row.table = "products" \/ s.role \in TenantWide \/ row.territory = s.territory

\* Line items are visible with their order.
Visible(row, s) ==
  IF row.table = "order_items"
  THEN \E o \in Row : o.table = "orders" /\ o.id = row.order /\ PolicyShows(o, s)
  ELSE PolicyShows(row, s)

-------------------------------------------------------------------------------
(* guardStatement *)

\* stripLiteralsAndComments: what is left of a query's words, and what of it is executed.
Scannable(sql) == sql.words \ sql.quoted

Guarded(sql) ==
  /\ sql.statements = 1
  /\ sql.leading \in {"select", "with"}
  /\ Scannable(sql) \cap Forbidden = {}

-------------------------------------------------------------------------------

\* The statements withCallerContext runs before a tool's own.
Prepare == <<"begin", "timeout", "tenant", "territory", "role">>

\* A tool's own: the caller's query, a count of each table, or a look at the catalogue.
Selects(name) == [i \in 1..(IF name = "pg.list_tables" THEN Cardinality(Table) ELSE 1) |-> "select"]

\* describe_table is not run in a transaction.
Statements(name) ==
  IF name = "pg.describe_table" THEN Selects(name) ELSE Prepare \o Selects(name) \o <<"commit">>

Held == {conn[c] : c \in Call} \ {NoConn}

\* A query passes its guard.  pool.connect: a free connection, or a new one, which is the
\* same.
Connect(c) ==
  /\ Step(c, "calling", "running")
  /\ request[c].tool = "pg.query" => Guarded(request[c].args)
  /\ \E d \in Conn \ Held : conn' = [conn EXCEPT ![c] = d]
  /\ UNCHANGED <<pos, session, read, keyVars>>

\* The guard refuses the query before a connection is asked for; or none is free for
\* connectionTimeoutMillis, or the database refuses.
ConnectFails(c) == Step(c, "calling", "answered") /\ UNCHANGED <<warehouseVars, keyVars>>

\* What a statement does to the connection: SET LOCAL and set_config(.., true) last until
\* the transaction ends.
Applied(s, statement, caller) ==
  CASE statement = "begin" -> [s EXCEPT !.tx = "open"]
    [] statement = "tenant" -> [s EXCEPT !.tenant = caller.tenant]
    [] statement = "territory" -> [s EXCEPT !.territory = caller.territory]
    [] statement = "role" -> [s EXCEPT !.role = RoleToDbRole[caller.role]]
    [] statement \in {"commit", "rollback"} -> Login
    [] OTHER -> s

Running(c) == at[c] = "running" /\ pos[c] < Len(Statements(request[c].tool))

\* What a tool's own statement reads: the catalogue, every table's rows, or what the guard
\* left of the caller's query.
Reads(c) ==
  LET s == session[conn[c]] IN
  [under |-> s,
   rows |-> IF request[c].tool = "pg.describe_table" THEN {} ELSE {r \in Row : Visible(r, s)},
   words |-> IF request[c].tool = "pg.query" THEN Scannable(request[c].args) ELSE {}]

Execute(c) ==
  LET statement == Statements(request[c].tool)[pos[c] + 1] IN
  /\ Running(c)
  /\ session' = [session EXCEPT ![conn[c]] = Applied(@, statement, Principal(c))]
  /\ read' = IF statement = "select" THEN [read EXCEPT ![c] = Reads(c)] ELSE read
  /\ pos' = [pos EXCEPT ![c] = @ + 1]
  /\ UNCHANGED <<runtimeVars, conn, keyVars>>

\* A statement fails, for its timeout or any other reason: an open transaction is stuck
\* until its ROLLBACK.  describe_table has none.
StatementFails(c) ==
  /\ Running(c)
  /\ session' = [session EXCEPT ![conn[c]].tx = IF @ = "open" THEN "aborted" ELSE @]
  /\ Step(c, "running", IF request[c].tool = "pg.describe_table" THEN "done" ELSE "failing")
  /\ UNCHANGED <<conn, pos, read, keyVars>>

\* Faulty: only a failure of the tool's own statements is rolled back.
RollbackOnlyReads(c) ==
  /\ Step(c, "failing", "done")
  /\ session' = IF pos[c] < Len(Prepare) THEN session
                ELSE [session EXCEPT ![conn[c]] = Applied(@, "rollback", Principal(c))]
  /\ UNCHANGED <<conn, pos, read, keyVars>>

Rollback(c) ==
  /\ Step(c, "failing", "done")
  /\ session' = [session EXCEPT ![conn[c]] = Applied(@, "rollback", Principal(c))]
  /\ UNCHANGED <<conn, pos, read, keyVars>>

Done(c) ==
  \/ at[c] = "done"
  \/ at[c] = "running" /\ pos[c] = Len(Statements(request[c].tool))

\* The connection goes back as it is, and the answer out.
Release(c) ==
  /\ Done(c)
  /\ conn' = [conn EXCEPT ![c] = NoConn]
  /\ Step(c, at[c], "answered")
  /\ UNCHANGED <<pos, session, read, keyVars>>

WarehouseInit ==
  /\ conn = [c \in Call |-> NoConn] /\ pos = [c \in Call |-> 0]
  /\ session = [d \in Conn |-> Login]
  /\ read = [c \in Call |-> NoRead]

WarehouseStep(c) ==
  \/ Connect(c) \/ ConnectFails(c) \/ Execute(c) \/ StatementFails(c) \/ Rollback(c) \/ Release(c)

\* The process has ended, as it does when a connection it has borrowed is lost, for nobody
\* listens to the client's error event: its connections are gone.
RestartPool ==
  /\ conn' = [c \in Call |-> NoConn] /\ session' = [d \in Conn |-> Login]
  /\ UNCHANGED <<pos, read>>

-------------------------------------------------------------------------------
(* Properties *)

OrderOf(row) == IF row.table = "order_items" THEN CHOOSE o \in Row : o.table = "orders" /\ o.id = row.order ELSE row

\* Rows are read only for a caller whose token names this server and carries the tool's
\* scope, in an open transaction under the database role, tenant and territory of that
\* token, by a statement with no forbidden word in it; the catalogue, under the login role.
\* So every row is of the caller's tenant, a line item through its order, and an analyst's
\* or a viewer's of its own territory, the products apart (authenticate and registerTool,
\* server.ts:132-145, 236-250; withCallerContext, warehouse.ts:94-124; the policies,
\* 0000_warehouse.sql:108-153).
ReadsAsItsCaller ==
  \A c \in Call : read[c] # NoRead =>
    LET caller == Principal(c) IN
    /\ Token(c).aud = serves /\ RequiredScope[request[c].tool] \in Token(c).scopes
    /\ read[c].under = IF request[c].tool = "pg.describe_table" THEN Login ELSE ContextOf(caller)
    /\ read[c].words \cap Forbidden = {}
    /\ \A row \in read[c].rows :
         /\ OrderOf(row).tenant = caller.tenant
         /\ caller.role \in {"analyst", "viewer"} /\ row.table # "products"
              => OrderOf(row).territory = caller.territory

\* A connection in the pool carries nothing of the call that last held it, however that
\* call ended (warehouse.ts:115-123: "a pooled connection can never leak one caller's
\* identity into the next request", 92).
PooledIsClean == \A d \in Conn \ Held : session[d] = Login
===============================================================================
