------------------------------- MODULE RateConfig -------------------------------
(***************************************************************************)
(* The configured rate limits: the table rate_limit_configs, the copy each *)
(* replica of the gateway resolves limits from (packages/rate-limit/src/   *)
(* config-store.ts), the administrator's PUT (apps/gateway/src/routes/     *)
(* api.ts), the invalidation channel between them, and the life of a       *)
(* replica from createServices to its exit (services.ts, main.ts).         *)
(*                                                                         *)
(* Versions of the table are numbered in the order they were committed; a  *)
(* replica's index is the number of the version it was built from.         *)
(***************************************************************************)
EXTENDS Naturals, Sequences, FiniteSets, SequencesExt

CONSTANTS Replica,
          Request,     \* PUT requests that may be under way at once
          Tenant,
          RowKey,      \* keys of index: records of tenant, scope, tool and tier
          SeedRows,    \* the rows an installation may start with
          Limit,       \* bucket configurations
          Fallback,    \* what DEFAULT_FALLBACK gives
          NoReplica,
          MaxVersions, MaxLoads, MaxStarts  \* bounds: versions of the table,
                       \* reloads of a replica under way, starts of all replicas

ASSUME RateConfigAssumption ==
  /\ NoReplica \notin Replica
  /\ RowKey \subseteq [tenant : Tenant, scope : {"tenant", "user_tool"}, tool : STRING, tier : STRING]
  /\ SeedRows \subseteq UNION {[rows -> Limit] : rows \in SUBSET RowKey}
  /\ MaxVersions \in Nat \ {0} /\ MaxLoads \in Nat \ {0} /\ MaxStarts \in Nat

VARIABLES table,     \* table[v]: the rows of version v, the last one committed at the end
          phase,     \* phase[r]: where replica r is between createServices and its exit
          shown,     \* shown[r]: the version index and records of r were built from, 0 for none
          loads,     \* loads[r]: reloads under way: the version each has read, 0 before that
          inbox,     \* inbox[r]: the versions announced by messages on their way to r
          put,       \* put[q]: the replica of a PUT that has committed and not yet published, its version
          since,     \* since[r]: the version current when r started
          uninformed,\* replicas that missed an announcement and have read nothing since
          newest,    \* newest[r]: the newest version r has shown since it started
          starts     \* starts so far

vars == <<table, phase, shown, loads, inbox, put, since, uninformed, newest, starts>>

Latest == Len(table)

NoPut == [replica |-> NoReplica, version |-> 0]

-------------------------------------------------------------------------------
(* Resolution *)

Key(n, s, t, k) == [tenant |-> n, scope |-> s, tool |-> t, tier |-> k]

\* Faulty: a wildcard row of the asked tier is preferred to the tool's own default row.
CandidatesTierFirst(n, s, t, k) ==
  <<Key(n, s, t, k), Key(n, s, "*", k), Key(n, s, t, "default"), Key(n, s, "*", "default")>>

\* lookup's candidates, in the order it tries them.
Candidates(n, s, t, k) ==
  <<Key(n, s, t, k), Key(n, s, t, "default"), Key(n, s, "*", k), Key(n, s, "*", "default")>>

Lookup(index, n, s, t, k) ==
  LET candidates == Candidates(n, s, t, k)
      found == {i \in 1..4 : candidates[i] \in DOMAIN index}
      first == candidates[CHOOSE i \in found : \A j \in found : i <= j]
  IN  IF found = {} THEN [limit |-> Fallback[s], tier |-> "fallback"]
      ELSE [limit |-> index[first], tier |-> first.tier]

\* resolve: the tenant's bucket is looked up for any tool, the caller's for this one.
Resolve(index, n, t, k) ==
  [tenant |-> Lookup(index, n, "tenant", "*", k), userTool |-> Lookup(index, n, "user_tool", t, k)]

Index(r) == IF shown[r] = 0 THEN <<>> ELSE table[shown[r]]

-------------------------------------------------------------------------------
(* A replica's copy *)

Serving(r) == phase[r] \in {"serving", "draining"}

\* createServices runs, up to the first reload of rateLimitConfigs.start.
Start(r) ==
  /\ phase[r] = "down" /\ starts < MaxStarts
  /\ phase' = [phase EXCEPT ![r] = "loading"]
  /\ loads' = [loads EXCEPT ![r] = <<0>>]
  /\ since' = [since EXCEPT ![r] = Latest]
  /\ starts' = starts + 1
  /\ UNCHANGED <<table, shown, inbox, put, uninformed, newest>>

\* The loader's SELECT is executed: it sees what is committed now.
ReadRows(r) == \E i \in DOMAIN loads[r] :
  /\ loads[r][i] = 0
  /\ loads' = [loads EXCEPT ![r][i] = Latest]
  /\ uninformed' = uninformed \ {r}
  /\ UNCHANGED <<table, phase, shown, inbox, put, since, newest, starts>>

\* Its rows arrive: records and index are replaced, whatever was there.
Loaded(r) == \E i \in DOMAIN loads[r] :
  /\ loads[r][i] # 0
  /\ shown' = [shown EXCEPT ![r] = loads[r][i]]
  /\ newest' = [newest EXCEPT ![r] = IF @ < loads[r][i] THEN loads[r][i] ELSE @]
  /\ loads' = [loads EXCEPT ![r] = RemoveAt(@, i)]
  /\ phase' = [phase EXCEPT ![r] = IF @ = "loading" THEN "subscribing" ELSE @]
  /\ UNCHANGED <<table, inbox, put, since, uninformed, starts>>

\* subscribe is acknowledged; the gateway listens and gets traffic.
Subscribed(r) ==
  /\ phase[r] = "subscribing"
  /\ phase' = [phase EXCEPT ![r] = "serving"]
  /\ UNCHANGED <<table, shown, loads, inbox, put, since, uninformed, newest, starts>>

\* Faulty: a message that arrives while a reload is under way counts on that reload.
MessageSharesReload(r) ==
  /\ Serving(r) /\ inbox[r] # {} /\ Len(loads[r]) < MaxLoads
  /\ \E v \in inbox[r] : inbox' = [inbox EXCEPT ![r] = @ \ {v}]
  /\ loads' = [loads EXCEPT ![r] = IF @ = <<>> THEN <<0>> ELSE @]
  /\ UNCHANGED <<table, phase, shown, put, since, uninformed, newest, starts>>

\* Faulty: the message brings the rows, and they are taken as they are.
MessageBringsRows(r) ==
  /\ Serving(r) /\ inbox[r] # {} /\ Len(loads[r]) < MaxLoads
  /\ \E v \in inbox[r] : /\ inbox' = [inbox EXCEPT ![r] = @ \ {v}]
                        /\ loads' = [loads EXCEPT ![r] = Append(@, v)]
  /\ UNCHANGED <<table, phase, shown, put, since, uninformed, newest, starts>>

\* on('message'): every message starts a reload of its own, which nobody awaits.
Message(r) ==
  /\ Serving(r) /\ inbox[r] # {} /\ Len(loads[r]) < MaxLoads
  /\ \E v \in inbox[r] : inbox' = [inbox EXCEPT ![r] = @ \ {v}]
  /\ loads' = [loads EXCEPT ![r] = Append(@, 0)]
  /\ UNCHANGED <<table, phase, shown, put, since, uninformed, newest, starts>>

\* The connection to Redis breaks; what was on its way is lost. ioredis reconnects and
\* subscribes again by itself.
ConnectionLost(r) ==
  /\ Serving(r) /\ inbox[r] # {}
  /\ inbox' = [inbox EXCEPT ![r] = {}]
  /\ uninformed' = uninformed \cup {r}
  /\ UNCHANGED <<table, phase, shown, loads, put, since, newest, starts>>

\* The replica's memory is gone, and requests it was working on never finish: a PUT that
\* had committed is announced to nobody.
Gone(r) ==
  /\ phase' = [phase EXCEPT ![r] = "down"]
  /\ shown' = [shown EXCEPT ![r] = 0]
  /\ loads' = [loads EXCEPT ![r] = <<>>]
  /\ inbox' = [inbox EXCEPT ![r] = {}]
  /\ newest' = [newest EXCEPT ![r] = 0]
  /\ put' = [q \in Request |-> IF put[q].replica = r THEN NoPut ELSE put[q]]
  /\ uninformed' = IF put' = put THEN uninformed \ {r} ELSE Replica \ {r}
  /\ UNCHANGED <<table, since, starts>>

\* A crash; a failed start (main's catch); or a reload begun by a message whose query
\* fails, which no catch handles, so that the process ends as well.
Crash(r) == phase[r] # "down" /\ Gone(r)

\* SIGTERM: app.close takes no more requests and waits for those under way.
Drain(r) ==
  /\ phase[r] = "serving"
  /\ phase' = [phase EXCEPT ![r] = "draining"]
  /\ UNCHANGED <<table, shown, loads, inbox, put, since, uninformed, newest, starts>>

\* services.close, with the store's stop, and the end of the process.
Stop(r) ==
  /\ phase[r] = "draining"
  /\ \A q \in Request : put[q].replica # r
  /\ Gone(r)

-------------------------------------------------------------------------------
(* PUT /api/rate-limits/:id.  A request that is not allowed, not valid or   *)
(* names no row of the tenant changes nothing and is left out.              *)

\* The UPDATE of an existing row, to other values than it had, is committed.  Its answer
\* arrives, and publishReload is next, or is lost, and the request fails without
\* announcing what it changed.
Update(q, r) ==
  /\ phase[r] = "serving" /\ put[q] = NoPut /\ Latest < MaxVersions
  /\ \E key \in DOMAIN Last(table) : \E l \in Limit \ {Last(table)[key]} :
       table' = Append(table, [Last(table) EXCEPT ![key] = l])
  /\ \/ /\ put' = [put EXCEPT ![q] = [replica |-> r, version |-> Latest + 1]]
        /\ UNCHANGED uninformed
     \/ uninformed' = Replica /\ UNCHANGED put
  /\ UNCHANGED <<phase, shown, loads, inbox, since, newest, starts>>

\* publishReload: Redis passes the message to the subscribers it is connected to, all,
\* some or, when it fails, none, and the request is answered.
Publish(q) ==
  /\ put[q] # NoPut
  /\ \E reached \in SUBSET {r \in Replica : Serving(r)} :
       /\ inbox' = [r \in Replica |-> IF r \in reached THEN inbox[r] \cup {put[q].version} ELSE inbox[r]]
       /\ uninformed' = uninformed \cup (Replica \ reached)
  /\ put' = [put EXCEPT ![q] = NoPut]
  /\ UNCHANGED <<table, phase, shown, loads, since, newest, starts>>

-------------------------------------------------------------------------------
RateConfigInit ==
  /\ \E rows \in SeedRows : table = <<rows>>
  /\ phase = [r \in Replica |-> "down"] /\ shown = [r \in Replica |-> 0]
  /\ loads = [r \in Replica |-> <<>>] /\ inbox = [r \in Replica |-> {}]
  /\ put = [q \in Request |-> NoPut]
  /\ since = [r \in Replica |-> 1]
  /\ newest = [r \in Replica |-> 0] /\ uninformed = {} /\ starts = 0

\* What a replica does without being asked to.
Proceed(r) == ReadRows(r) \/ Loaded(r) \/ Subscribed(r) \/ Message(r)

RateConfigNext ==
  \/ \E r \in Replica : Start(r) \/ Proceed(r) \/ ConnectionLost(r) \/ Crash(r) \/ Drain(r) \/ Stop(r)
  \/ \E q \in Request : Publish(q) \/ \E r \in Replica : Update(q, r)

RateConfigSpec == RateConfigInit /\ [][RateConfigNext]_vars

\* Postgres answers the loader's query and Redis delivers what it has sent; requests and
\* operators may come or not.
RateConfigFairSpec ==
  /\ RateConfigSpec
  /\ \A r \in Replica : WF_vars(ReadRows(r)) /\ WF_vars(Loaded(r)) /\ WF_vars(Message(r))

-------------------------------------------------------------------------------
(* Properties *)

TypeOK ==
  /\ table \in Seq(UNION {[rows -> Limit] : rows \in SUBSET RowKey}) /\ Latest \in 1..MaxVersions
  /\ phase \in [Replica -> {"down", "loading", "subscribing", "serving", "draining"}]
  /\ shown \in [Replica -> 0..Latest] /\ since \in [Replica -> 1..Latest]
  /\ loads \in [Replica -> Seq(0..Latest)] /\ inbox \in [Replica -> SUBSET (1..Latest)]
  /\ put \in [Request -> [replica : Replica \cup {NoReplica}, version : 0..Latest]]
  /\ newest \in [Replica -> 0..Latest] /\ uninformed \subseteq Replica /\ starts \in 0..MaxStarts

\* Rows of index that apply to a tool at a tier, and the most specific of them: the
\* tool before the tier (docs/RATE_LIMITING.md, resolve's comment).
Applying(index, n, s, t, k) ==
  {c \in DOMAIN index : c.tenant = n /\ c.scope = s /\ c.tool \in {t, "*"} /\ c.tier \in {k, "default"}}

IsMostSpecific(answer, index, n, s, t, k) ==
  LET applying == Applying(index, n, s, t, k) IN
    IF applying = {} THEN answer = [limit |-> Fallback[s], tier |-> "fallback"]
    ELSE \E c \in applying :
           /\ answer = [limit |-> index[c], tier |-> c.tier]
           /\ \A d \in applying \ {c} : \/ (c.tool = t /\ d.tool # t)
                                       \/ (c.tool = d.tool /\ c.tier = k)

Tiers == {"default"} \cup {key.tier : key \in RowKey}

Announced == {v \in 1..Latest : \A q \in Request : put[q].version # v}

\* Nothing is on its way to r, no announcement passed it by, and no reload of older rows
\* ended after one of newer rows.
Settled(r) ==
  /\ Serving(r) /\ loads[r] = <<>> /\ inbox[r] = {}
  /\ r \notin uninformed /\ shown[r] = newest[r]

\* A settled replica resolves every call from the most specific row of a version that
\* is no older than any announced one: start's reload, the reload per message and
\* lookup's order of candidates (config-store.ts:76-84, 124-148).
SettledIsCurrent ==
  \A r \in Replica : Settled(r) =>
    \E v \in 1..Latest :
      /\ \A a \in Announced : v >= a
      /\ \A n \in Tenant, t \in {"*", "q"}, k \in Tiers :
           /\ IsMostSpecific(Resolve(Index(r), n, t, k).tenant, table[v], n, "tenant", "*", k)
           /\ IsMostSpecific(Resolve(Index(r), n, t, k).userTool, table[v], n, "user_tool", t, k)

\* A message that reaches a replica makes it show that version or a later one
\* (onReload), unless the replica ends or loses the message with its connection.
NoticeIsActedOn ==
  \A r \in Replica : \A v \in 2..MaxVersions :
    v \in inbox[r] ~> shown[r] >= v \/ phase[r] = "down" \/ r \in uninformed

Versions == INSTANCE LimitHistory WITH latest <- Latest

\* A replica shows one whole committed version, never one from before it started
\* (reload builds the index aside and replaces it, config-store.ts:90-98).
ImplementsLimitHistory == Versions!HistorySpec
===============================================================================
