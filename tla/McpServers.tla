------------------------------- MODULE McpServers -------------------------------
(***************************************************************************)
(* The three MCP servers (apps/mcp-servers/*/src/main.ts, tools.ts), each  *)
(* the shared runtime with tools of its own.  A behaviour is that of one   *)
(* process of one of them, chosen in Init.                                 *)
(***************************************************************************)
EXTENDS Warehouse, PolicyEngine, Crm

CONSTANT Dataset   \* the CRM's fixtures

ASSUME DatasetAssumption ==
  \A r \in Dataset : r.id \in Nat /\ \A s \in Dataset : r.id = s.id => r = s

PolicyTools == {"policy.evaluate", "policy.explain", "policy.list_rules"}

\* The policy server's tools (createPolicyTools, policy-engine/src/tools.ts:29-126).
ASSUME PolicyToolsAssumption ==
  \A asked \in Workload, c \in Call : asked[c].server = "policy-engine" => asked[c].tool \in PolicyTools

VARIABLES tasks,   \* dataset.tasks
          answer   \* answer[c]: what a tool without a database answered call c

NoAnswer == [none |-> TRUE]

memoryVars == <<tasks, answer>>
vars == <<published, publishedFor, retiredFor, keys, sinceFetch, sinceAttempt, lastFailed, inFlight, lookup,
          serves, request, at, conn, pos, session, read, tasks, answer>>

Data == Dataset \cup tasks

\* Ids of tasks come after those of the fixtures.
NextId == 1 + Max({r.id : r \in Data})

\* A CRM tool runs to its end in one go; create_task leaves its task, if it may.
CrmTool(c) ==
  LET args == request[c].args
      result == Answer(request[c].tool, args, Data, Principal(c))
  IN /\ serves = "salesforce"
     /\ Step(c, "calling", "answered")
     /\ answer' = [answer EXCEPT ![c] = result]
     /\ tasks' = IF request[c].tool = "sf.create_task" /\ result # NotFound
                 THEN tasks \cup {NewTask(NextId, args, Principal(c))} ELSE tasks
     /\ UNCHANGED <<keyVars, warehouseVars>>

PolicyTool(c) ==
  /\ serves = "policy-engine"
  /\ Step(c, "calling", "answered")
  /\ answer' = [answer EXCEPT ![c] = PolicyAnswer(request[c].tool, request[c].args)]
  /\ UNCHANGED <<keyVars, warehouseVars, tasks>>

WarehouseTool(c) == serves = "postgres" /\ WarehouseStep(c) /\ UNCHANGED memoryVars

Handle(c) == (Authenticated(c) \/ Rejected(c)) /\ UNCHANGED <<warehouseVars, memoryVars>>

\* The CRM's tasks are in memory.
Crash ==
  /\ RestartRuntime /\ RestartPool
  /\ tasks' = {} /\ UNCHANGED answer

Init ==
  /\ RuntimeInit /\ WarehouseInit
  /\ tasks = {} /\ answer = [c \in Call |-> NoAnswer]

Next ==
  \/ KeyStep /\ UNCHANGED <<runtimeVars, warehouseVars, memoryVars>>
  \/ Crash
  \/ \E c \in Call :
       \/ Arrive(c) /\ UNCHANGED <<warehouseVars, memoryVars>>
       \/ Handle(c)
       \/ CrmTool(c) \/ PolicyTool(c) \/ WarehouseTool(c)

Spec == Init /\ [][Next]_vars

(* Time passes, and at its end a fetch is aborted; the server's own code runs on; a       *)
(* statement ends, at the latest at its timeout, and so does waiting for a connection.    *)
Fairness ==
  /\ WF_vars(KeyStep /\ inFlight' # inFlight /\ UNCHANGED <<runtimeVars, warehouseVars, memoryVars>>)
  /\ \A c \in Call : WF_vars(Handle(c)) /\ WF_vars(CrmTool(c) \/ PolicyTool(c) \/ WarehouseTool(c))

FairSpec == Spec /\ Fairness

-------------------------------------------------------------------------------
(* Properties *)

\* A CRM tool's answer, an error included, is the one it would give if nothing existed but
\* what the caller can see: no answer tells of a record, of any tenant, that the caller has
\* no right to know of (tools.ts:64-66, 166-168: "the success or failure of the link would
\* reveal whether a record exists").
AnswersTellOnlyTheSeen ==
  [][\A c \in Call : serves = "salesforce" /\ answer'[c] # answer[c] =>
       answer'[c] = Answer(request[c].tool, request[c].args, Seen(Data, Principal(c)), Principal(c))]_vars

\* What the engine's loop decides is what the bundle says: the first rule that matches, in
\* order of priority and then of id, with the last annotation before it
\* (evaluator.ts:167-226).
DecisionsFollowTheBundle ==
  \A c \in Call : serves = "policy-engine" /\ "result" \in DOMAIN answer[c] =>
    SaysTheBundle(answer[c].result, Bundles[request[c].args.bundle], request[c].args.input)

\* Every request is answered, whatever its statements, the provider and the pool do
\* (POST /mcp, server.ts:147-199; the fetch's timeout, jwks-cache.ts:97-105).
EveryRequestIsAnswered == \A c \in Call : at[c] # "idle" ~> at[c] = "answered"
===============================================================================
