------------------------------- MODULE McpServer --------------------------------
(***************************************************************************)
(* The runtime every MCP server shares (packages/mcp-runtime/src/          *)
(* server.ts): a request's bearer token is verified with the server's own  *)
(* key cache, its audience and scopes are checked, and its tool is called. *)
(* Nothing of a request outlives it: the transport is stateless.           *)
(***************************************************************************)
EXTENDS KeyCache, Sequences

CONSTANTS Workload,      \* what the calls may ask, in each case all of one server: the
                         \* server, a tool of it, its arguments and a token
          RequiredScope, \* RequiredScope[t]: the scope tool t declares
          Role           \* roleSchema

\* A process is one server, with one audience (main.ts of each); keys are numbered from 1.
ASSUME WorkloadAssumption ==
  \A asked \in Workload, c \in Call :
    asked[c].token.kid \in Nat \ {0} /\ \A d \in Call : asked[c].server = asked[d].server

VARIABLES serves,        \* expectedAudience: the server this process is
          request,       \* request[c]: what call c asks
          at             \* at[c]: where it is

runtimeVars == <<serves, request, at>>

Token(c) == request[c].token

\* toPrincipal: a role nobody knows is the least one.
Principal(c) == [Token(c) EXCEPT !.role = IF @ \in Role THEN @ ELSE "viewer"]

Step(c, from, to) == at[c] = from /\ at' = [at EXCEPT ![c] = to] /\ UNCHANGED <<serves, request>>

\* POST /mcp with a bearer token: its key is looked up.
Arrive(c) ==
  /\ Token(c).kid <= Active
  /\ GetKey(c, Token(c).kid)
  /\ Step(c, "idle", "verifying")

\* Faulty: the audience is left to the gateway.
AllowedAnyAudience(c) == RequiredScope[request[c].tool] \in Token(c).scopes

\* The token names this server and carries what the tool declares.
Allowed(c) ==
  /\ Token(c).aud = serves
  /\ RequiredScope[request[c].tool] \in Token(c).scopes

\* The token is good: the tool is called.
Authenticated(c) ==
  /\ lookup[c].state = "found" /\ Allowed(c)
  /\ Forget(c)
  /\ Step(c, "verifying", "calling")

\* 401 for a token whose key is not there, that has expired or that names another server,
\* and a result that says which scope is missing.
Rejected(c) ==
  /\ lookup[c].state \in {"found", "refused"}
  /\ Forget(c)
  /\ Step(c, "verifying", "answered")

RuntimeInit ==
  /\ KeyInit
  /\ at = [c \in Call |-> "idle"]
  /\ request \in Workload /\ serves \in {request[c].server : c \in Call}

\* What goes on whatever the requests do.
KeyStep ==
  \/ Rotate /\ UNCHANGED <<cacheVars, lookup>>
  \/ RestartProvider /\ UNCHANGED <<cacheVars, lookup>>
  \/ AnswerKeys \/ FetchSucceeds \/ FetchFails \/ KeyTick

\* The process ends and starts again: its requests are cut off.
RestartRuntime ==
  /\ RestartCache
  /\ at' = [c \in Call |-> IF at[c] = "idle" THEN "idle" ELSE "answered"]
  /\ UNCHANGED <<serves, request>>
===============================================================================
