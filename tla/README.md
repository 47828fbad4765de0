# MCPGateway in TLA+

A verification development of MCPGateway, a gateway between callers and MCP tool
servers: it signs users in, authenticates a call, limits its rate, asks a policy engine,
exchanges the caller's token for one the tool's server accepts, forwards the call, and
writes a hash-chained audit row. The modules here are translations of the sources (paths
below are relative to `src/`); the documentation of the repository is used only to find out
what the code is *meant* to do. `PROJECT.json` maps every definition to the lines it stands
for, and lists the hazards the properties are about.

## Inventory

| Component | State it keeps | Operations | What is hard | What makes it correct |
|---|---|---|---|---|
| Audit writer, hash chain (`packages/audit/src/writer.ts`, `hash.ts`) | `audit_events`, `audit_chain_heads`, `audit_payloads` | `append`, one transaction of up to five statements | concurrent appends of one tenant, rollback at any statement, a lost COMMIT answer, gaps in `seq` | one linear chain per tenant, head = last row, an acknowledged append is stored |
| Audit verifier (`verifier.ts`, `scripts/verify-audit-chain.ts`) | the position of a walk | page, head, next tenant; alter and restore a row | each SELECT sees a different state; page boundaries; every kind of damage | damage is reported, an intact log is valid, what was checked is genuine |
| Audit reader and the console's audit page (`reader.ts`, `routes/api.ts`, `dashboard/src/pages/Audit.tsx`) | the page shown, its rows and total | open, next, previous, retry | rows and total are two statements; rows enter anywhere in the list and age out | paging to the end shows every row that stayed |
| Client pool (`packages/mcp-runtime/src/client-pool.ts`, `client.ts`) | idle entries per destination, one credential cell per entry, `closed` | take, build, use, give, discard, close | callers interleave at each await; credentials are read late; timeouts; close in the middle | no connection shared, no foreign credential, no half-read connection reused, no leak |
| Tool pipeline (`apps/gateway/src/routes/tools.ts`, `plugins/`) | one invocation per request | authenticate, resolve tenant, admit, rate limit, policy, exchange, proxy, audit, error handler | any stage refuses or fails; a tool may run after its call was given up; crash | refused calls never run, tools run under their caller, answers agree with rows |
| Event stream (`apps/gateway/src/stream.ts`, `routes/api.ts`) | ring of recent events, listeners | publish, replay, subscribe | a view opens while calls end; one ring for all tenants; lost rows | one event per call, the same as its row; a view sees all calls of its tenant and no other's |
| Rate limiter (`packages/rate-limit/src/limiter.ts`, `service.ts`, `token-bucket.lua`) | hash per bucket in Redis, script cache, remembered digest | load, consume, check | expiry, clock jumps, NOSCRIPT replay, resent commands | never more calls than the limits allow, exact retry hint |
| Rate limit configuration (`config-store.ts`, PUT in `routes/api.ts`, `services.ts`, `main.ts`) | rows in memory of each replica | start, reload, PUT, publish, resolve, drain, stop | lost and overtaken notifications, overlapping reloads, crashes | a replica shows a whole committed version, and the newest once it has heard all |
| JWKS cache (`packages/auth/src/jwks-cache.ts`) | keys, times, refresh in flight | getKey, refresh | rotation, cooldown, concurrent lookups, provider down | wrong verdicts only while a fetch failed or runs |
| Token exchange (`packages/auth/src/token-exchange.ts`) | shared cache in Redis, exchanges in flight | mint, read, write | joined exchanges, expiry, entitlements that change, restarts | a token is its caller's, for its audience, current |
| Sessions and login (`apps/gateway/src/session.ts`, `routes/bff.ts`) | sessions and login states in Redis, cookies | login, callback, session, logout | two callbacks of one state, redirects opened in another browser, expiry | a code buys one token, a browser acts as its own user |
| Identity provider (`apps/mock-idp/src/`) | codes, keys, directory | authorize, redeem, exchange, rotate, sweep | replay, rotation, restarts | single use, scopes only narrow |
| MCP runtime (`packages/mcp-runtime/src/server.ts`) | per request | verify, check audience and scope, run the tool | keys that rotate under a request, restarts | a tool runs with its token's identity and scopes only |
| Policy engine (`apps/mcp-servers/policy-engine/src/`) | loaded bundles | load, evaluate, explain, list | rule order, annotations, nested conditions, missing paths | the decision is what the bundle says |
| Warehouse (`apps/mcp-servers/postgres/src/`) | pooled database sessions | withCallerContext, query guard, three tools | failures between BEGIN and release, lost connections | every statement under its caller's context, a pooled session clean |
| CRM server (`apps/mcp-servers/salesforce/src/`) | fixtures, created tasks | four tools | three kinds of visibility, links to records | answers tell only what the caller may see |
| Telemetry, health probes, other console pages, scripts, migrations | - | read-only or one-shot | - | - |

How they interact: the pipeline calls the rate limiter (Redis), the token exchange (Redis
and the identity provider), and, through one pool of connections shared by all calls of a
replica, the policy engine and the tool's server; it awaits the audit writer (Postgres)
before it answers, and tells the stream synchronously. Each MCP server verifies the
exchanged token by itself, with its own copy of the provider's keys. Replicas share the
rate limit table and hear of its changes over a Redis channel. The verifier and the reader
read what the writers write, from other processes.

## Modules

| Module | What it is |
|---|---|
| `AuditLog` | abstract: per tenant an append-only history, no entry twice |
| `AuditTables` | the audit tables with one atomic action, a committed append; hashes; chain properties; refinement of `AuditLog` |
| `AuditChain` | the writers' transactions statement by statement; refinement of `AuditTables` |
| `AuditVerifier` | the verifier's walk beside committed appends and the owner's damage (extends `AuditTables`) |
| `AuditReader`, `AuditConsole` | the paged audit list; the audit page: list and verification over the same tables |
| `ClientPool` | the connection pool |
| `ToolPipeline` | the gateway's pipeline and event stream, composed with `ClientPool` |
| `RateLimiter` | the two buckets, the script and the limiter's handling of it |
| `LimitHistory` | abstract: committed versions, each replica showing one of those since its start |
| `RateConfig` | the table, the PUT, the channel and the replicas; refinement of `LimitHistory` |
| `IdpTokens` | what the provider puts into a token |
| `TokenExchange` | mints, the cache in Redis, exchanges in flight, the provider |
| `IdentityProvider`, `ConsoleSignIn` | codes; the gateway's sign-in, sessions and the browsers (extends the provider) |
| `KeyCache`, `McpServer` | a server's copy of the signing keys; the runtime of a server (extends it) |
| `Warehouse`, `PolicyEngine`, `Crm`, `McpServers` | the tools of each server; the three servers together |
| `MC*` | values of constants for TLC |
| `*Proofs` | the theorems: `AuditChain` (with those of `AuditTables`), `AuditConsole`, `ToolPipeline` (with those of `ClientPool`), `RateLimiter`, `RateConfig`, `TokenExchange`, `ConsoleSignIn`, `McpServers` |

Operators whose comment begins with "Faulty" are plausible bugs of the definition they
precede. No specification uses them; each property is shown to fail when one replaces the
real definition (`PROJECT.json`, "mutants").

Times, where nothing depends on their absolute value, are numbers of ticks since something
happened, counted up to the limit beyond which they no longer matter. So `Tick` never ends
and state spaces stay finite without a last instant; `RateLimiter`, whose properties are
about amounts of time, has a last instant instead (`MaxTime`).

### AuditTables and AuditChain

`Row`, `ChainHead` are the columns that matter; a row's other columns are its `body`. A hash
is the sequence of everything that went into it: `ComputeRowHash` appends the canonical row
to the previous hash, so two hashes are equal exactly if all their inputs are. That is
SHA-256 without collisions and `canonicalRow` without ambiguity, the only things the models
assume about either.

`AuditChain` has one action per statement of `append`: `EnsureHead` (INSERT .. ON CONFLICT),
`SelectForUpdate` (which blocks while another transaction holds the row), `InsertEvent`
(takes the next value of the `bigserial`, also when the transaction is rolled back later),
`AdvanceHead`, `InsertPayload`, `Commit`. Uncommitted work is in `draft[w]` and becomes
visible at `Commit`, which is READ COMMITTED for statements that touch only rows their
transaction has locked. `Rollback` may happen before any statement. `Commit` either resolves
or, the answer being lost, rejects: so `failed` does not mean "not stored", and
`AnswersAreTrue` says what it does mean. The first two appends of a tenant racing in
`EnsureHead` are serialised by the lock taken at `SelectForUpdate`.

### AuditVerifier, AuditReader, AuditConsole

`ReadPage` is one SELECT of `BatchSize` rows and the loop over them, `ReadHead` the SELECT of
the head and the result; between them `CommitAppend`, `DamageRow` (alter, alter and rehash,
delete, swap, move to another tenant: the rows of the table in `docs/AUDIT_LOG.md`) and
`Restore`. A commit takes an id and a `seq` nothing was ever written under, damaged rows
included, and an altered body is one no writer writes (`OtherBodyAssumption`). The ghosts
`damaged`, `disturbed`, `raced` record what happened to the tenant's rows before, during and
after the pages, so that the properties can say which walks they speak of. `IntactIsValid`
excludes walks with a commit between the last page and the head: the run
`audit_verifier_live` shows why (see Findings).

`AuditReader` is one operator. A page is two statements on two connections (`SelectPage`,
`SelectCount`), answered in either order; `ShowPage`, `NextPage` and `PreviousPage` are the
component's render and its buttons. The list is ordered by `ts`, the clock of the replica
that served the call, so a committed row may take any place in it (`Listed`); the range of
the query ends now, so rows leave at the far end (`AgeOut`). `torn` marks a page between
whose statements a row entered; `PagingMissesNothing` does not speak of a torn last page,
because there it fails (see Findings). The ten seconds for which the console may show an
answer again without asking are not modelled.

`AuditConsole` takes a walk and a reading one at a time: they share only the tables, which
neither writes. The owner's damage is combined with the walk only.

### ClientPool

One action for what `withClient` does between two awaits: `Take`, `Build` (the handshake goes
out under the builder's credential), `Connected` or `ConnectFails`, `Use` (writes the
credential), `Send` (`fetch` reads it), then `Answered` with `Give`, or `Fails` with
`Discard`. `broken` is the ghost for "an exchange has begun and not ended". `ClosePool` may
come at any time, and callers go on entering a closed pool, as the code lets them.

### ToolPipeline

`call[c].stage` is the stage (or await) a call is at; `decision`, `denyReason`, `audited`
are the invocation's fields, `failure` the code of the error thrown. What the limiter, the
policy engine, the identity provider and Postgres answer is a choice. `wire` holds tool calls
a server has received, `ran` those that ran: a call the gateway gave up may still run.
`Crash` ends the replica; an append in flight is then the database's to finish. The two uses
of the pool by one call (policy engine, tool) are `Take`s with two different credentials
from the same pool the other calls use. `history` is the stream's ring, one for all tenants;
a view that opens is replayed the last events of its tenant in the ring and listens from the
same moment. Abstracted: the tenant cache of `tenant-context.ts` (it only decides between
going on and `not_found`), and the validation of the event in `audit.ts:62`, whose fields are
all built by the gateway and are taken to validate.

### RateLimiter

Tokens are counted in parts of `1/refillIntervalMs`, which makes the continuous refill exact
integer arithmetic; the script's floating point is not modelled. `Run` is the script, atomic
in Redis. A check goes `load` -> `evalsha` -> (`eval`) for the user's bucket, then for the
tenant's. `allowance` is a ghost: a bucket that never expires and is refilled by real time.
`LostReply` is the Redis client (ioredis, `maxRetriesPerRequest: 3` in `services.ts`) sending
a command again although it was executed. `ClockBack` sets Redis' clock back; `ClockForward`,
only in `JumpSpec`, puts it right. Costs other than 1 and the `now` override are not used in
production and left out, as are changes of a limit while its bucket lives.

### RateConfig

`table` is the sequence of committed versions, `shown[r]` the version replica `r` resolves
from. `Update` is the PUT's statement on one replica and `Publish` its announcement, which
may never come; `Message` is the handler of the channel, which starts a reload; `ReadRows`
and `Loaded` are the two ends of a reload, of which several may be under way and be
overtaken. A message sent before `Subscribed`, or while the connection is down
(`ConnectionLost`), is gone. A reload that fails inside the handler is a rejection nobody
handles and ends the process (`Crash`, like any other end). `Lookup` and `Resolve` are
`lookup` and `resolve` with their four candidates.

`SettledIsCurrent` says that a replica with nothing under way, nothing unheard and no newer
version overtaken resolves every call from the most specific row of a version no older than
any announced, in `IsMostSpecific`'s words rather than in `lookup`'s order.

### TokenExchange, IdpTokens

`Mint` takes any token the provider could have issued to a subject at sign-in (`Held`) and
what a stage asks for: a server's share of the caller's scopes, or the policy engine's.
`RedisReads`, `CacheAnswered` are the cache read before and after its await: a fresh token is
handed out, or the exchange under way for the same key is joined, or one begins.
`IdpExchanges` is the provider narrowing the scopes; `ExchangeSettles` and `ExchangeFails`
end it for everyone who waits. `Leave` is a caller that goes away. A restart of the provider
generates a new key and reads a directory file, so what a key's tokens may hold is
`entitledAt[key]`.

### IdentityProvider, ConsoleSignIn

A flow is identified by its state and PKCE challenge, made together by `Login`. A callback
is `Open` (the browser's cookie is compared with the state), `GetLogin` and `DelLogin`, which
are two commands of Redis, `ExchangeCode` (`Redeem` at the provider, whose answer may be
lost), `CreateSession`, `Respond` (both cookies). Any browser may open any redirect, as often
as the bound allows. `GiveUp` is a failure at any await; codes, login states and sessions
expire; both processes restart, the provider forgetting its codes, the gateway its callbacks.

### KeyCache, McpServer, McpServers

`GetKey` is `getKey` to its first await: a hit, a refusal because of the cooldown, or waiting
for the refresh all lookups share. `AnswerKeys` is the provider reading its key set for the
answer, `FetchSucceeds` its arrival, `FetchFails` any failure or the timeout. The runtime's
request is `Arrive`, then `Authenticated` (audience and required scope hold) or `Rejected`.
A behaviour of `McpServers` is one process of one of the three servers.

* `Warehouse`: `Connect`, the statements of `withCallerContext` and of the tool one by one
  (`Execute`, `StatementFails`), `Rollback` (which fails only with its connection, and then
  the process ends: `Crash`), `Release`. `Visible` stands for the row-level policies of the
  schema. A submitted statement is its leading word, how many statements it has, its
  words and those of them that are quoted: what `guard.ts` decides by.
* `PolicyEngine`: operators, conditions (each the sequence of its parts, a combinator after
  what it combines), and the loop over the ordered rules, turn by turn (`Turn`);
  `SaysTheBundle` is the reference, written with sets of matching rules. A pattern is the set
  of strings it matches, or one that does not compile.
* `Crm`: what each tool answers as a function of the data and the caller. A query comes
  parsed; splitting its text into words is not modelled.

## Runs

| Run | Instance | What it shows |
|---|---|---|
| `audit_chain` | 2 writers, 2 tenants, 3 events, 3 sequence numbers | two appends of one tenant can overlap while a third, of either tenant, follows: enough for a fork, a gap in `seq`, a first append racing a second, a row after a rollback |
| `audit_console` | 2 tenants, 4 events, sequence numbers to 5, verifier pages of 2, console pages of 2, one damaged row at a time | logs shorter than, equal to and longer than a page, gaps, damage at each position and a swap across a page boundary; a list of two pages with rows entering on either |
| `audit_verifier_live` | 2 events | expected to fail: see Findings |
| `client_pool` | 2 callers, 2 credentials, 2 destinations, 4 entries, `MaxIdle` 1 | a second caller takes what the first gave back, both give back to a full bucket, close with entries idle and held |
| `tool_pipeline` | 2 calls of 2 tenants, a live view, policy engine and one tool server, `MaxIdle` 1, a ring and a replay of 1 event | the second call reuses the connection the first used, also for the other of the two servers' roles; an event of one tenant pushes the other's out of the ring |
| `pipeline_one_row` | the same | expected to fail: see Findings |
| `rate_limiter` | 2 checks of one caller; user bucket capacity 1, 2 tokens per ms; tenant bucket capacity 1, 1 token per 3 ms; 4 instants, clock back by at most 1, 1 resend | both checks at each bucket at once, a key that expires, a fractional refill, a NOSCRIPT between two checks |
| `rate_limiter_clock` | the same, 7 instants, clock back by at most 2 | expected to fail: see Findings |
| `rate_config` | 2 replicas, 2 PUTs, a tenant with a default row of one tool and a wildcard row of a tier, 3 versions, 3 reloads at once, 2 starts | an older reload overtakes a newer, an announcement is lost in each of the two ways, a replica ends and comes back between two versions |
| `token_exchange` | 2 calls, 2 subjects, a tool server and the policy engine, 2 directories, tokens of 3 ticks handed out to their 2nd, a timeout of 1, 2 keys | a call joins the other's exchange or finds its token, with another token of the same subject or other scopes, before and after the provider rotated or restarted |
| `mcp_servers` | 2 requests of one server at a time, key life and cooldown 2 ticks, fetch timeout 1, 2 keys, a pool of 1 session; callers of 2 tenants, a role nobody knows, a token for another server, a missing scope | the second request inherits the session, the refresh or the tasks of the first, with every failure between |
| `sign_in` | 2 browsers, 2 users, 2 flows, 2 codes, 2 callbacks | one redirect opened twice, in one browser or both, each step of the two callbacks interleaved; a flow with two codes; two flows of one browser |

Two of everything is enough for these properties in the sense that each relates at most two
actors, and the run reaches every action; that it holds for more is what the theorems are
for, where there is one.

Symmetry is used only in `MCAuditConsole` and `MCAuditVerifier` (tenants, events), where
nothing temporal is checked. Deadlock is not checked in the audit runs, `rate_config` and
`sign_in`, where supplies bounded for the run end (events, PUTs, starts, codes). In the other
runs some action is always possible: time passes, or a connection is built.

Fairness.

* `AuditChain`: strong fairness of each writer's next statement; Postgres grants a row lock to
  a waiting transaction when its holder ends, and every statement ends, with an answer or an
  error (the pool sets no statement timeout, so this is Postgres' and TCP's promise).
* `ClientPool` and `ToolPipeline`: weak fairness of what the gateway does by itself, including
  its timeouts (5 s, 20 s, the SDK's for the handshake); none for upstream servers, which may
  stay silent for ever. The pool's run also assumes that the process is told to stop one day.
* `RateLimiter`: Redis answers each command, or the client reports an error; nothing is
  assumed about flushes, which may come before every EVALSHA.
* `RateConfig`: a reload reads its rows and ends, and a message that has arrived is handled.
  Nothing is assumed of publication or delivery.
* `TokenExchange`: time passes, Redis answers, and an exchange is aborted when its time is up
  (`oauth-client.ts:230-240`). The provider need not answer.
* `McpServers`: time passes while a fetch runs, and at its end the fetch is aborted
  (`jwks-cache.ts:97-105`); the server's own code runs on; a statement ends, at the latest at
  its `statement_timeout`, and so does waiting for a connection.
* `ConsoleSignIn`: a callback's awaits end, the provider's sweeper fires, and what has a time
  to live in Redis expires. Nobody need sign in or come back.

## Proofs

The eight proof modules are checked by TLAPS for every value of the constants, assuming only
the named ASSUMEs of the modules, which TLC evaluates in each run: sequence numbers are
positive naturals, a view is shown at least one event when it opens, the "no such thing"
values are none of the things, limits are bucket configurations with a positive capacity, a
mirrored token lives longer than the early-refresh margin and the exchange's timeout
together, flows are numbered, an altered body is not a written one (`OtherBodyAssumption`),
requests are for one server and name tools of it (`WorkloadAssumption`,
`PolicyToolsAssumption`), bundles are those the loader accepts (`BundlesAssumption`), a
territory's database roles are not the tenant-wide ones and an order's id is its key
(`WarehouseAssumption`), and the like.

No property proved is inductive by itself. Along which argument each holds:

* **Chain** (`ChainInv`): the type of the tables; every row's `rowHash` is its `prevHash`
  extended by the row and a prefix of its tenant's head, longer for later `seq`
  (`RowsOnChain`); each position of the head beyond the genesis is some stored row
  (`ChainIsStored`). `LinkedInOrder`, `NoFork`, `HeadIsLastRow` follow because the length of a
  row's hash is its position. A fork needs only a head that is not the last row's hash, which
  is why none of them is inductive alone.
* **Writers** (`IInv`): a writer past its SELECT holds the row lock of its tenant and read
  the head that is still committed, a writer past its INSERT has a `seq` beyond the tenant's
  rows (`LockProtects`), and no open transaction shares its event id with another or with a
  row (`IdsAreFresh`). Only `Commit` changes the tables, and by `LockProtects` it is
  `AppendRow`; so transactions implement the atomic tables, which implement the log.
* **Pool** (`PoolInv`): where each open connection is counted, who holds it, and that a call
  between `Use` and `Send` finds its own credential in its entry.
* **Pipeline** (`PipelineInv`): `PoolInv`, by the pool's own lemmas step by step; the token
  each call holds its connection with (`Tokened`, `Mirrored`); per call, what was decided if
  its tool call left, and how far its row has got (`CallsInv`). `RunsAsItsCaller` is
  then the pool's `OwnCredential` seen by the server.
* **Stream** (`StreamInv`): an event is there from the call's `Publish` on, is its only one
  and says what the row says (`ToldOf`); the ring is the end of all events, and what an open
  view was sent the end of its tenant's, from before it opened on (`SentTo`). What a filter
  keeps of two parts of a log is what it keeps of each (`OfTenantConcat`), for sequences of
  any length: the shortest counterexample stands in for an induction (`LeastNumber`).
* **Limiter** (`LimiterInv`): what the script would find in a bucket is at most what the
  ideal bucket has left (`Covered`), which survives the expiry of a key because `ttlMs` is
  longer than the bucket takes to fill (`FullBeforeExpiry`) and a clock set back because the
  script finds no more at an earlier time (`AvailableGrows`); and what a check under way has
  been charged (`Sound`). `RetryIsExact` is the rounding of `CeilDiv`, for every limit.
* **Configuration** (`ConfigInv`): which numbers of a version can be where (`Numbered`,
  `Grounded`), and an announcement a replica has not missed is on its way to it, being read,
  or shown (`Covered`). With `LookupIsMostSpecific` it gives `SettledIsCurrent`; each step is
  one of `LimitHistory` or a stutter.
* **Exchange** (`ExchangeInv`): every token in Redis, in an exchange or in a call's hands is
  one its key promises, of scopes its subject had when it was signed, with a key withdrawn
  only after that.
* **Sign-in** (`SignInInv`): a code has the flow and the user of its grant, a callback the
  browser of its flow, a session the user of its callback's code, and a spent code is
  forgotten.
* **Answers** (`AnswersSpent`): an answered append's id is spent and no open transaction's,
  so an append is answered once; with the payload and the row stored by one `Commit` this is
  `AnswersAreTrue`.
* **Verifier** (`WalkInv`): a set of rows is a chain to a hash (`ChainTo`) when each row's
  hash is a prefix of that hash that ends with the row and every position is some row's.
  What a walk has behind it is a chain to the hash it expects, and what the writers wrote is
  one to the head (`WalkIsChain`, `WriterInv`), while the table is the written rows but for
  what the owner did to one or two of them (`OwnerInv`). Two chains to the same hash are the
  same rows (`OneHead`), and below a row a chain is a chain to the row's `prevHash`
  (`ChainCut`). So a walk that reaches the head has seen exactly the written rows: damage
  must show (`DamageIsReported`), and without damage nothing can (`IntactIsValid`). A
  damaged row passes only with a recomputed hash, and the row after it breaks the walk
  (`StraysPassLast`), which is `CheckedRowsAreGenuine`. None of this needs to be shown row
  by row: where a loop would call for induction, the least row that breaks (`HasLeast`) or
  the sizes of finite sets are used instead.
* **Paging** (`ReadingInv`): up to the place the operator has come to, each row that was in
  the list at first and still is has been shown (`PageTells`, `Told`); a row that enters
  pushes others to later places only, and one that ages out was the last.
* **Warehouse** (`WarehouseInv`): after each statement, what a borrowed connection carries
  is what the statements so far set (`Settings`); no two calls hold one connection, and a
  free one carries nothing. `ReadsAsItsCaller` follows with the policies' `Visible`.
* **CRM**: each tool looks at the data through `isVisible` only (`AnswersFromTheSeen`), for
  every data and caller; no invariant is needed.
* **Policy** (`Decided`): a decision given is the loop's on the call's request. Rules of
  different ids can be sorted, a rule's place being how many are earlier (`SortedExists`), so
  the loop goes through each once and in order (`OrderedIsSorted`). What its first `i` turns
  have found is the first rule among them that decides and the last tier annotated before it
  (`Found`), and a turn keeps that (`TurnFinds`); the first turn that did not is again used
  where a loop would call for induction (`EvaluateFinds`). The first and the last of a set of
  rules are unique because `Earlier` is a total order (`LoopSaysTheBundle`). What a condition
  holds for stays opaque: the result is about the loop, whatever the conditions mean.
* **Keys** (`KeyInv`): how far the keys a fetch has read, and those of the cache, can be
  behind the provider's, in terms of the fetch's and the cache's age (`FetchInv`); each
  lookup's outcome is then within the promise or excused (`VerdictExcused`).

The results are the 38 entries of `PROJECT.json`, "theorems". `NoFork`, `HeadIsLastRow`,
`PoolTypeOK` and `RateConfig`'s `TypeOK` are proved and not checked by a run of their own.

Only model-checked: all liveness and everything under fairness, which is outside the prover's
reach. Every invariant and every action property a passing run checks is stated by a
theorem.

## Findings

Shown by a run:

* `audit_verifier_live`: the verifier reads the head after the last page in a statement of its
  own. An append that commits in between makes the walk of an untouched log end elsewhere
  than at the head, and the result says rows were removed from the tail.
* `pipeline_one_row`: when the append is rejected, the call is answered without a row, while
  `audit.ts:10` promises exactly one. The stream has it all the same.
* `rate_limiter_clock`: the script stores the earlier time after a backwards jump; when the
  clock is put right the interval is credited twice. Against a clock that stays behind the
  flooring works, which is what `WithinAllowance` shows.

Met while modelling, and modelled as the code has it (quotations in `PROJECT.json`):

* `jwks-cache.ts:85`: a lookup during a refetch is turned away by the cooldown.
* `session.ts:80`: a login state is read and deleted in two commands, so two callbacks can
  take it; the code they carry still buys one token.
* `routes/tools.ts:164`: a call whose tool ran but timed out is recorded as a denial.
* `config-store.ts:77`: an update announced between the first load and the subscription, or
  while the connection is down, is never heard of.
* `reader.ts:85`: the rows and the total of a page are two statements; a stale total hides the
  last page. `Audit.tsx:219`: a page that has become empty offers no way back.
* `guard.ts:138`: the warehouse executes the statement without its literals and quoted names.
* `dataset.ts:170`: managers without a territory see nothing, and a territory's readers do not
  see their own records elsewhere.
* `evaluator.ts:86`: a malformed pattern makes a deny rule not match. `policy-engine/src/tools.ts:112`:
  rules of equal priority are listed in another order than they are evaluated in.
  `loader.ts:55`: a second bundle of the same name replaces the first silently.

Met while reading, of parts only partly modelled or not at all: no refresh token is ever issued
(`mock-idp/src/server.ts:300`); a console session outlives its access token
(`dashboard/src/App.tsx:36`); the overview's top tenants are not filtered by tenant
(`reader.ts:186`); the live page shows replayed events twice after a reconnection
(`Live.tsx:24`).

## Plan

What is left, in this order:

1. The tenant list of `verifyAllChains`, and a log of which every row was deleted.
2. Limits that change while their bucket lives: `RateConfig` composed with `RateLimiter`.
3. `TokenExchange` composed with `KeyCache`: whether a token that was handed out is accepted
   by the server it is for.

## Not modelled

* Telemetry, health probes, the layout and the other pages of the console, the overview's
  aggregates, one-shot scripts and migrations: they keep no state of their own or run once
  from beginning to end.
* The provider's introspection, revocation and userinfo endpoints, which the gateway never
  calls, and its refresh grant, for which no token is ever issued.
* Text processing: JSON and SQL formatting, the splitting of a CRM query into words, regular
  expressions. A model starts from what the parser decides by.
* SHA-256, signatures of tokens, PKCE's hash and the privileges of SQL roles, which are taken
  to do what they promise.
