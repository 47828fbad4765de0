------------------------------ MODULE ToolPipeline ------------------------------
(***************************************************************************)
(* The pipeline of one gateway replica for POST /v1/servers/:server/tools/ *)
(* :tool (apps/gateway/src/routes/tools.ts and the stages in plugins/):    *)
(* authenticate, admit, rate-limit, policy, token-exchange, proxy, audit,  *)
(* answer, and the error handler every refusal goes through.  The policy   *)
(* decision point and the tool's server are reached through one shared     *)
(* pool of connections (ClientPool); the tool runs on its server, possibly *)
(* after the gateway has given the call up.  The console's live views are  *)
(* told of the calls of their tenant (stream.ts, GET /api/stream).         *)
(*                                                                         *)
(* One action runs from an await to the next.  What the rate limiter, the  *)
(* policy engine and the identity provider answer is any answer they have. *)
(***************************************************************************)
EXTENDS ClientPool, Sequences

CONSTANTS PolicyUrl,  \* the policy engine, decision point and a tool server itself
          NoServer,   \* the call has not been admitted to a server
          Viewer,     \* live views of the console
          TenantOf,   \* the tenant of a caller's or a viewer's token
          HistorySize, \* events the stream keeps, 200
          Replay      \* events a view is shown when it opens, 30

ASSUME PipelineAssumption ==
  /\ PolicyUrl \in Url /\ NoServer \notin Url
  /\ Caller \X {"policy", "tool"} \subseteq Credential
  /\ HistorySize \in Nat /\ Replay \in Nat \ {0}

VARIABLES call,       \* call[c]: the request, its invocation, how it was answered
          wire,       \* tool calls a server has received and may still run
          ran,        \* tool calls that ran, with the credential they ran under
          rows,       \* rows of the audit log
          lost,       \* calls whose append was rejected and stored nothing
          events,     \* what the live stream was told
          history,    \* InvocationStream.history: the last of it
          live        \* live[v]: view v's connection, since how many events it is open
                      \* and what it was sent

pipelineVars == <<call, wire, ran, rows, lost, events, history, live>>
vars == <<poolVars, pipelineVars>>

Stage == {"auth", "tenant", "admit", "rate", "policyToken", "policy", "exchange", "dispatch",
          "failed", "append", "publish", "answered", "orphan", "gone"}

\* policy is what the policy engine decided; failure the code of the error thrown,
\* "none" on the way to a 200.
NewCall ==
  [stage |-> "auth", server |-> NoServer, decision |-> "allow", denyReason |-> "none",
   policy |-> "none", audited |-> FALSE, failure |-> "none"]

Closed == [open |-> FALSE, since |-> 0, sent |-> <<>>]

Init ==
  /\ PoolInit
  /\ call = [c \in Caller |-> NewCall]
  /\ wire = {} /\ ran = {} /\ lost = {}
  /\ rows = <<>> /\ events = <<>> /\ history = <<>>
  /\ live = [v \in Viewer |-> Closed]

At(c, stage) == call[c].stage = stage

GoOn(c, stage) == call' = [call EXCEPT ![c].stage = stage]

\* A stage throws without having set the decision.
Throw(c, code) == call' = [call EXCEPT ![c].stage = "failed", ![c].failure = code]

\* A stage records its refusal in the invocation, then throws.
Refuse(c, code, reason) ==
  call' = [call EXCEPT ![c].stage = "failed", ![c].failure = code,
                       ![c].decision = "deny", ![c].denyReason = reason]

toolVars == <<wire, ran>>
streamVars == <<events, history, live>>
logVars == <<rows, lost, streamVars>>

-------------------------------------------------------------------------------
(* The stages before the tool *)

\* authenticate and resolveTenant, before there is an invocation.
Authenticate(c) ==
  /\ At(c, "auth")
  /\ GoOn(c, "tenant") \/ \E code \in {"unauthenticated", "internal_error"} : Throw(c, code)
  /\ UNCHANGED <<poolVars, toolVars, logVars>>

\* The tenant's row, kept or read: not there, or not to be had.
ResolveTenant(c) ==
  /\ At(c, "tenant")
  /\ GoOn(c, "admit") \/ \E code \in {"not_found", "internal_error"} : Throw(c, code)
  /\ UNCHANGED <<poolVars, toolVars, logVars>>

\* The tool is looked up and the invocation established; then the scope check.
Admit(c) ==
  /\ At(c, "admit")
  /\ \/ Throw(c, "not_found")
     \/ \E u \in Url :
          \/ call' = [call EXCEPT ![c].server = u, ![c].stage = "rate"]
          \/ call' = [call EXCEPT ![c].server = u, ![c].stage = "failed",
                                  ![c].failure = "scope_denied",
                                  ![c].decision = "deny", ![c].denyReason = "scope"]
  /\ UNCHANGED <<poolVars, toolVars, logVars>>

\* rateLimitStage: both buckets admit, one refuses, or Redis fails.
RateLimit(c) ==
  /\ At(c, "rate")
  /\ \/ GoOn(c, "policyToken")
     \/ Refuse(c, "rate_limited", "rate_limit")
     \/ Throw(c, "internal_error")
  /\ UNCHANGED <<poolVars, toolVars, logVars>>

\* policyStage mints the caller's token for the policy engine and enters the pool.
MintPolicyToken(c) ==
  /\ At(c, "policyToken")
  /\ \/ Take(c, PolicyUrl, <<c, "policy">>) /\ GoOn(c, "policy")
     \/ Throw(c, "permission_mirror_failed") /\ UNCHANGED poolVars
  /\ UNCHANGED <<toolVars, logVars>>

\* Faulty: the decision is recorded but the stage does not throw.
PolicyAnsweredGoesOn(c) ==
  /\ At(c, "policy")
  /\ Answered(c)
  /\ \/ call' = [call EXCEPT ![c].stage = "exchange", ![c].policy = "allow"]
     \/ call' = [call EXCEPT ![c].stage = "exchange", ![c].policy = "deny",
                             ![c].decision = "deny", ![c].denyReason = "policy"]
     \/ Throw(c, "upstream_error")
  /\ UNCHANGED <<toolVars, logVars>>

\* The policy engine answers: allow, deny, or nothing that parses as a decision.
PolicyAnswered(c) ==
  /\ At(c, "policy")
  /\ Answered(c)
  /\ \/ call' = [call EXCEPT ![c].stage = "exchange", ![c].policy = "allow"]
     \/ call' = [call EXCEPT ![c].stage = "failed", ![c].failure = "policy_denied",
                             ![c].policy = "deny",
                             ![c].decision = "deny", ![c].denyReason = "policy"]
     \/ Throw(c, "upstream_error")
  /\ UNCHANGED <<toolVars, logVars>>

\* Faulty: an unreachable policy engine lets the call pass.
PolicyFailsOpen(c) ==
  /\ At(c, "policy")
  /\ Fails(c) \/ ConnectFails(c)
  /\ GoOn(c, "exchange")
  /\ UNCHANGED <<toolVars, logVars>>

\* The policy engine cannot be reached, fails or is too slow: the call is refused.
PolicyFails(c) ==
  /\ At(c, "policy")
  /\ Fails(c) \/ ConnectFails(c)
  /\ \E code \in {"upstream_unavailable", "upstream_error"} : Throw(c, code)
  /\ UNCHANGED <<toolVars, logVars>>

\* tokenExchangeStage: no scope for the server, no token for it, or into the pool
\* with the exchanged token.
Exchange(c) ==
  /\ At(c, "exchange")
  /\ \/ Take(c, call[c].server, <<c, "tool">>) /\ GoOn(c, "dispatch")
     \/ Refuse(c, "permission_mirror_failed", "permission_mirror") /\ UNCHANGED poolVars
  /\ UNCHANGED <<toolVars, logVars>>

-------------------------------------------------------------------------------
(* The tool *)

\* The pool works on a call: a handshake begun, headers written, a policy request sent.
PoolStep(c) ==
  /\ Build(c) \/ Use(c) \/ (At(c, "policy") /\ Send(c))
  /\ UNCHANGED pipelineVars

HandshakeDone(c) == Connected(c) /\ UNCHANGED pipelineVars

\* The tool call leaves; its server has it.
Dispatch(c) ==
  /\ At(c, "dispatch")
  /\ Send(c)
  /\ wire' = wire \cup {[call |-> c, as |-> request'.as]}
  /\ UNCHANGED <<call, ran, logVars>>

\* The server runs the tool under the identity the request carries.
ToolRuns(c) ==
  /\ \E m \in wire :
       /\ m.call = c
       /\ ran' = ran \cup {m}
       /\ wire' = wire \ {m}
  /\ UNCHANGED <<poolVars, call, logVars>>

\* The server answers, with a result or with isError (the tool failed, or its scope
\* check refused it unrun); either way proxy returns and the audit stage starts.
ToolAnswered(c) ==
  /\ At(c, "dispatch")
  /\ Answered(c)
  /\ wire' = {m \in wire : m.call # c}
  /\ call' = [call EXCEPT ![c].stage = "append", ![c].audited = TRUE]
  /\ UNCHANGED <<ran, logVars>>

\* Faulty: the tool call has no timeout.
ToolFailsWithoutTimeout(c) ==
  /\ At(c, "dispatch")
  /\ ConnectFails(c)
  /\ \E code \in {"upstream_unavailable", "upstream_error"} : Throw(c, code)
  /\ UNCHANGED <<toolVars, logVars>>

\* No connection, a transport error, or the 20 s timeout: the tool may run, or have
\* run, all the same.
ToolFails(c) ==
  /\ At(c, "dispatch")
  /\ Fails(c) \/ ConnectFails(c)
  /\ \E code \in {"upstream_unavailable", "upstream_error"} : Throw(c, code)
  /\ UNCHANGED <<toolVars, logVars>>

-------------------------------------------------------------------------------
(* The audit row, the stream, the answer *)

Invoked(c) == call[c].server # NoServer

\* Faulty: the audit stage does not look at audited.
HandleErrorAgain(c) ==
  /\ At(c, "failed")
  /\ \/ ~Invoked(c) /\ GoOn(c, "answered")
     \/ /\ Invoked(c)
        /\ call' = [call EXCEPT ![c].stage = "append", ![c].decision = "deny",
                      ![c].denyReason = IF @ = "none" THEN call[c].failure ELSE @,
                      ![c].audited = TRUE]
  /\ UNCHANGED <<poolVars, toolVars, logVars>>

\* The error handler: without an invocation it answers; with one the decision becomes
\* a denial, the reason the failure's code unless a stage gave one, and the call is
\* audited unless it already was.
HandleError(c) ==
  /\ At(c, "failed")
  /\ \/ ~Invoked(c) /\ GoOn(c, "answered")
     \/ /\ Invoked(c)
        /\ call' = [call EXCEPT ![c].stage = IF call[c].audited THEN "answered" ELSE "append",
                      ![c].decision = "deny",
                      ![c].denyReason = IF @ = "none" THEN call[c].failure ELSE @,
                      ![c].audited = TRUE]
  /\ UNCHANGED <<poolVars, toolVars, logVars>>

RowOf(c) == [call |-> c, decision |-> call[c].decision, reason |-> call[c].denyReason]

\* The append's transaction commits.  Whether it then resolves or its answer is lost
\* and it rejects makes no difference: the audit stage swallows the error.
AppendStores(c) ==
  /\ call[c].stage \in {"append", "orphan"}
  /\ rows' = Append(rows, RowOf(c))
  /\ GoOn(c, IF At(c, "append") THEN "publish" ELSE "gone")
  /\ UNCHANGED <<poolVars, toolVars, lost, streamVars>>

\* The append is rejected: logged as an error, and the call goes on.
AppendRejects(c) ==
  /\ call[c].stage \in {"append", "orphan"}
  /\ lost' = lost \cup {c}
  /\ GoOn(c, IF At(c, "append") THEN "publish" ELSE "gone")
  /\ UNCHANGED <<poolVars, toolVars, rows, streamVars>>

\* The last n of a sequence.
Recent(s, n) == SubSeq(s, IF Len(s) > n THEN Len(s) - n + 1 ELSE 1, Len(s))

\* The events of a viewer's tenant, in their order.
OfTenant(s, v) ==
  LET kept[i \in 0..Len(s)] ==
        IF i = 0 THEN <<>>
        ELSE IF TenantOf[s[i].call] = TenantOf[v] THEN Append(kept[i - 1], s[i]) ELSE kept[i - 1]
  IN kept[Len(s)]

\* InvocationStream.publish: kept, and sent to the views that are open.
PublishEvent(event) ==
  /\ events' = Append(events, event)
  /\ history' = Recent(Append(history, event), HistorySize)
  /\ live' = [v \in Viewer |->
                IF live[v].open THEN [live[v] EXCEPT !.sent = @ \o OfTenant(<<event>>, v)] ELSE live[v]]

\* Faulty: a call whose append was rejected is not shown in the live view, either.
PublishIfStored(c) ==
  /\ At(c, "publish")
  /\ IF c \in lost THEN UNCHANGED streamVars ELSE PublishEvent(RowOf(c))
  /\ \/ GoOn(c, "answered")
     \/ call[c].failure = "none" /\ Throw(c, "internal_error")
  /\ UNCHANGED <<poolVars, toolVars, rows, lost>>

\* The stream is told and the reply sent; sending a result may throw, which is what
\* the flag audited is for.
Publish(c) ==
  /\ At(c, "publish")
  /\ PublishEvent(RowOf(c))
  /\ \/ GoOn(c, "answered")
     \/ call[c].failure = "none" /\ Throw(c, "internal_error")
  /\ UNCHANGED <<poolVars, toolVars, rows, lost>>

\* GET /api/stream: the recent events of the viewer's tenant are sent, and it listens.
OpenStream(v) ==
  /\ ~live[v].open
  /\ live' = [live EXCEPT ![v] = [open |-> TRUE, since |-> Len(events), sent |-> Recent(OfTenant(history, v), Replay)]]
  /\ UNCHANGED <<poolVars, call, toolVars, rows, lost, events, history>>

\* The view goes away.
CloseStream(v) ==
  /\ live[v].open
  /\ live' = [live EXCEPT ![v] = Closed]
  /\ UNCHANGED <<poolVars, call, toolVars, rows, lost, events, history>>

-------------------------------------------------------------------------------

\* The replica dies: its calls are never answered, its connections and views are gone.  An
\* append in flight is the database's to commit or roll back.
Crash ==
  /\ \E c \in Caller : call[c].stage \notin {"answered", "orphan", "gone"}
  /\ call' = [c \in Caller |->
                [call[c] EXCEPT !.stage = CASE @ = "append"                         -> "orphan"
                                            [] @ \in {"answered", "orphan", "gone"} -> @
                                            [] OTHER                                -> "gone"]]
  /\ idle' = [u \in Url |-> {}]
  /\ hold' = [c \in Caller |-> NotHolding]
  /\ Discard(open)
  /\ history' = <<>> /\ live' = [v \in Viewer |-> Closed]
  /\ UNCHANGED <<request, closed, toolVars, rows, lost, events>>

\* What the gateway does by itself: its timeouts are in PolicyFails and ToolFails.
Advance(c) ==
  \/ Authenticate(c) \/ ResolveTenant(c) \/ Admit(c) \/ RateLimit(c)
  \/ MintPolicyToken(c) \/ PolicyFails(c) \/ Exchange(c)
  \/ PoolStep(c) \/ Dispatch(c) \/ ToolFails(c)
  \/ HandleError(c) \/ AppendStores(c) \/ AppendRejects(c) \/ Publish(c)

\* What the upstream servers do.
Upstream(c) == HandshakeDone(c) \/ PolicyAnswered(c) \/ ToolRuns(c) \/ ToolAnswered(c)

Next ==
  \/ Crash
  \/ \E c \in Caller : Advance(c) \/ Upstream(c)
  \/ \E v \in Viewer : OpenStream(v) \/ CloseStream(v)

Spec == Init /\ [][Next]_vars

\* Every await of a call ends: the policy and tool calls by their timeouts (5 s and
\* 20 s), those of Redis, Postgres and the identity provider with an answer or an
\* error.  No upstream server need ever answer.
FairSpec == Spec /\ \A c \in Caller : WF_vars(Advance(c))

-------------------------------------------------------------------------------
(* Properties *)

Elements(s) == {s[i] : i \in DOMAIN s}

RowsFor(c) == {i \in DOMAIN rows : rows[i].call = c}

EventsFor(c) == {i \in DOMAIN events : events[i].call = c}

\* A tool runs under the token exchanged for its own caller, never under another
\* call's and never under the token meant for the policy engine, although all of them
\* share the pool's connections (PERMISSION_MIRRORING.md, client-pool.ts:16-36).
RunsAsItsCaller == \A m \in wire \cup ran : m.as = <<m.call, "tool">>

Refusals == {"scope", "rate_limit", "policy", "permission_mirror"}

\* A tool call leaves only after the policy engine said allow to that very call, not when
\* it was unreachable, too slow or unintelligible, and a call refused by a stage never
\* runs, neither before its row is written nor after; nor does one that was answered
\* before it had an invocation (policy.ts:27-30, "Failure is closed").
RefusedNeverRuns ==
  \A m \in wire \cup ran :
    /\ call[m.call].policy = "allow"
    /\ call[m.call].denyReason \notin Refusals
    /\ \A i \in RowsFor(m.call) : rows[i].reason \notin Refusals

\* A call is answered only after its row is stored or known to be lost, it never has
\* two, and what the row says agrees with the answer: a result is an allow, a failure
\* a deny with its reason, unless it was sending the result that failed (audit.ts:10-18).
AnsweredIsRecorded ==
  \A c \in Caller :
    /\ Cardinality(RowsFor(c)) <= 1
    /\ RowsFor(c) # {} => c \notin lost
    /\ \A i \in RowsFor(c) : rows[i].decision = "allow" <=> rows[i].reason = "none"
    /\ At(c, "answered") /\ Invoked(c) =>
         /\ RowsFor(c) # {} \/ c \in lost
         /\ \A i \in RowsFor(c) :
              /\ call[c].failure = "none" => rows[i].decision = "allow"
              /\ rows[i].decision = "allow" => call[c].failure \in {"none", "internal_error"}

\* The stream is told of a call exactly once before it is answered, and told what its row
\* says, stored or lost.  An open live view was sent the calls of its tenant, of nobody
\* else, one after the other without a gap or a repetition to the last, and all there were
\* since it opened (audit.ts:62-87, stream.ts:35-48, api.ts:379-384).
StreamTellsEveryCall ==
  /\ \A c \in Caller :
       /\ Cardinality(EventsFor(c)) <= 1
       /\ At(c, "answered") /\ Invoked(c) => EventsFor(c) # {}
       /\ \A i \in EventsFor(c), j \in RowsFor(c) : events[i] = rows[j]
  /\ \A v \in Viewer : live[v].open =>
       /\ live[v].sent = Recent(OfTenant(events, v), Len(live[v].sent))
       /\ Len(live[v].sent) >= Len(OfTenant(SubSeq(events, live[v].since + 1, Len(events)), v))

\* Every call is answered, unless the replica dies first.
EveryCallIsAnswered ==
  \A c \in Caller : <>(call[c].stage \in {"answered", "gone"})

\* "Writes exactly one audit row per tool call, whatever the outcome" (audit.ts:10).
ExactlyOneRow ==
  \A c \in Caller : At(c, "answered") /\ Invoked(c) => Cardinality(RowsFor(c)) = 1
===============================================================================
