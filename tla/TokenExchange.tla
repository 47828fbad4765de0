----------------------------- MODULE TokenExchange ------------------------------
(***************************************************************************)
(* Permission mirroring (packages/auth/src/token-exchange.ts and the       *)
(* stages that call it): the gateway exchanges a caller's token at the     *)
(* identity provider for one that names the same subject and a single      *)
(* downstream audience.  Tokens are kept in Redis, callers who ask for the *)
(* same one share the exchange under way, and the provider (apps/mock-idp) *)
(* may rotate its keys, or start again with a new key and a new directory, *)
(* between any two steps.                                                  *)
(*                                                                         *)
(* A time is the number of ticks since something happened, counted up to   *)
(* the limit beyond which nothing depends on it.                           *)
(***************************************************************************)
EXTENDS Naturals, FiniteSets, FiniteSetsExt, IdpTokens

CONSTANTS Call,           \* mints, each made once: a bound on how many there are
          Subject,
          Directory,      \* seed files: what each subject is entitled to
          FirstDirectory, \* the one the provider starts with
          SignInScopes,   \* sets of scopes a subject asks for as it signs in
          Server,         \* audiences of tool calls
          FixedAsk,       \* mints that ask for a scope of the stage's choice
          ClientAllowed,  \* scopes the gateway's client may ask for
          MirrorTtl, MaxTtl, Early,  \* life of a mirrored token, maxTtlSeconds, earlyRefreshSeconds
          ExchangeTimeout,
          NoToken,
          MaxKid          \* bound: keys the provider ever generates

ASSUME TokenExchangeAssumption ==
  /\ MirrorTtl \in Nat /\ MaxTtl \in Nat /\ Early \in Nat /\ ExchangeTimeout \in Nat \ {0}
  /\ Early + ExchangeTimeout < MirrorTtl
  /\ MaxKid \in Nat \ {0} /\ FirstDirectory \in Directory
  /\ ClientAllowed \subseteq Scope /\ Server \subseteq DOMAIN Namespaces
  /\ FixedAsk \subseteq [aud : DOMAIN Namespaces, scopes : SUBSET Scope]

VARIABLES published,   \* the provider's signing keys
          entitledAt,  \* entitledAt[k]: what its directory said when it signed with key k
          retiredFor,  \* retiredFor[k]: ticks since k was withdrawn, up to MirrorTtl
          call,        \* call[c]: the mint of call c
          cache,       \* Redis: cache[key], a token and the ticks until it expires
          exchange     \* inFlight: exchange[key], the exchange under way for a key

providerVars == <<published, entitledAt, retiredFor>>
vars == <<published, entitledAt, retiredFor, call, cache, exchange>>

NoCall == [stage |-> "idle", own |-> NoToken, ask |-> NoToken, token |-> NoToken]
Over == [NoCall EXCEPT !.stage = "over"]

\* A mint that has come to a stage, with what it has of a token.
Moved(mint, stage, token) == [stage |-> stage, own |-> mint.own, ask |-> mint.ask, token |-> token]

\* Faulty: the scopes are not part of the key.
CacheKeyWithoutScopes(sub, ask) == [sub |-> sub, aud |-> ask.aud, scopes |-> {}]

CacheKey(sub, ask) == [sub |-> sub, aud |-> ask.aud, scopes |-> ask.scopes]

KeyOf(c) == CacheKey(call[c].own.sub, call[c].ask)

\* What a tool call asks for at a server: the caller's own scopes in its namespace.
ToolAsk(own, server) ==
  [aud |-> server, scopes |-> {s \in own.scopes : s.space \in Namespaces[server]}]

\* Keyring.active
Active == Max(published)

Entitled(sub) == entitledAt[Active][sub]

With(map, key, x) == [k \in DOMAIN map \cup {key} |-> IF k = key THEN x ELSE map[k]]

Without(map, key) == [k \in DOMAIN map \ {key} |-> map[k]]

-------------------------------------------------------------------------------
(* The provider *)

Publish(set) ==
  /\ published' = set
  /\ retiredFor' = [k \in 1..MaxKid |-> IF k \in set \cup published THEN 0 ELSE retiredFor[k]]
  /\ UNCHANGED <<call, cache, exchange>>

\* A new key for the same directory; the key before it stays published.
Rotate ==
  /\ Active < MaxKid
  /\ Publish({Active, Active + 1})
  /\ entitledAt' = [entitledAt EXCEPT ![Active + 1] = entitledAt[Active]]

\* The provider starts again: one new key, and the directory read anew.
RestartProvider ==
  /\ Active < MaxKid
  /\ Publish({Active + 1})
  /\ \E directory \in Directory : entitledAt' = [entitledAt EXCEPT ![Active + 1] = directory]

\* Tokens a subject may present: signed by some key so far, for scopes it had then.
Held == {IssueAccessToken(k, sub, "gateway", NarrowScopes(asked, entitledAt[k][sub], ClientAllowed, {})) :
           k \in 1..Active, sub \in Subject, asked \in SignInScopes}

-------------------------------------------------------------------------------
(* mint *)

\* A verified caller's call asks for a token: for a server with what the caller holds
\* there, if anything, or for the policy engine with a scope of the stage's choice.
Mint(c, own, ask) ==
  /\ call[c].stage = "idle" /\ ask.scopes # {}
  /\ call' = [call EXCEPT ![c] = [stage |-> "reading", own |-> own, ask |-> ask, token |-> NoToken]]
  /\ UNCHANGED <<providerVars, cache, exchange>>

\* Redis answers the GET, or fails, which counts as nothing there.
RedisReads(c) ==
  /\ call[c].stage = "reading"
  /\ \E token \in {NoToken} \cup {cache[key].token : key \in DOMAIN cache \cap {KeyOf(c)}} :
       call' = [call EXCEPT ![c] = Moved(@, "read", token)]
  /\ UNCHANGED <<providerVars, cache, exchange>>

\* Faulty: what Redis still has is good.
FreshIfThere(token) == token # NoToken

Fresh(token) == token # NoToken /\ token.age < MirrorTtl - Early

\* Faulty: a second exchange for the key takes the place of the first.
CacheAnsweredAlone(c) ==
  /\ call[c].stage = "read"
  /\ IF Fresh(call[c].token)
     THEN call' = [call EXCEPT ![c] = Moved(@, "given", @.token)] /\ UNCHANGED exchange
     ELSE /\ call' = [call EXCEPT ![c] = Moved(@, "waiting", NoToken)]
          /\ exchange' = IF KeyOf(c) \in DOMAIN exchange THEN Without(exchange, KeyOf(c))
                         ELSE With(exchange, KeyOf(c), [age |-> 0, own |-> call[c].own, token |-> NoToken])
  /\ UNCHANGED <<providerVars, cache>>

\* The cached token is taken, or the exchange under way for the key is joined, or begun.
CacheAnswered(c) ==
  /\ call[c].stage = "read"
  /\ IF Fresh(call[c].token)
     THEN call' = [call EXCEPT ![c] = Moved(@, "given", @.token)] /\ UNCHANGED exchange
     ELSE /\ call' = [call EXCEPT ![c] = Moved(@, "waiting", NoToken)]
          /\ exchange' = IF KeyOf(c) \in DOMAIN exchange THEN exchange
                         ELSE With(exchange, KeyOf(c), [age |-> 0, own |-> call[c].own, token |-> NoToken])
  /\ UNCHANGED <<providerVars, cache>>

Waiting(key) == {c \in Call : call[c].stage = "waiting" /\ KeyOf(c) = key}

\* handleTokenExchange grants what is asked for, in the token and still in the directory.
Granted(own, key) ==
  NarrowScopes(key.scopes, own.scopes \cap Entitled(own.sub), ClientAllowed, Namespaces[key.aud])

\* The provider checks the subject token with its keys and issues the mirrored one.
IdpExchanges(key) ==
  LET own == exchange[key].own IN
  /\ exchange[key].token = NoToken
  /\ own.kid \in published /\ Granted(own, key) # {}
  /\ exchange' = [exchange EXCEPT ![key].token = IssueAccessToken(Active, own.sub, key.aud, Granted(own, key))]
  /\ UNCHANGED <<providerVars, call, cache>>

\* writeCache: SET with the time the token has left, less the margin; it may fail.
WriteCache(key, token) ==
  LET left == MirrorTtl - Early - token.age
      ttl  == IF left < MaxTtl THEN left ELSE MaxTtl
  IN  \/ UNCHANGED cache
      \/ left > 0 /\ ttl > 0 /\ cache' = With(cache, key, [token |-> token, ttl |-> ttl])

\* performExchange has the answer, which names the caller; it goes to Redis, and everyone
\* who waits for the key is given it.
ExchangeSettles(key) ==
  LET token == exchange[key].token IN
  /\ token # NoToken /\ token.sub = exchange[key].own.sub
  /\ WriteCache(key, token)
  /\ call' = [c \in Call |-> IF c \in Waiting(key)
                             THEN Moved(call[c], "given", token) ELSE call[c]]
  /\ exchange' = Without(exchange, key)
  /\ UNCHANGED providerVars

\* The provider refuses or is not reached, or its answer is lost or late: nobody gets a
\* token, and there is no other credential to fall back to.
ExchangeFails(key) ==
  /\ call' = [c \in Call |-> IF c \in Waiting(key) THEN Over ELSE call[c]]
  /\ exchange' = Without(exchange, key)
  /\ UNCHANGED <<providerVars, cache>>

\* The call goes on with its token.
Leave(c) ==
  /\ call[c].stage = "given"
  /\ call' = [call EXCEPT ![c] = Over]
  /\ UNCHANGED <<providerVars, cache, exchange>>

\* The gateway starts again; what is in Redis stays.
RestartGateway ==
  /\ call' = [c \in Call |-> IF call[c] = NoCall THEN NoCall ELSE Over] /\ exchange' = <<>>
  /\ UNCHANGED <<providerVars, cache>>

Older(token) == IF token = NoToken \/ token.age = MirrorTtl THEN token ELSE [token EXCEPT !.age = @ + 1]

\* An exchange is aborted when its time is up, an entry of Redis when it expires.
Tick ==
  /\ \A key \in DOMAIN exchange : exchange[key].age < ExchangeTimeout
  /\ exchange' = [key \in DOMAIN exchange |->
                    [age |-> exchange[key].age + 1, own |-> exchange[key].own, token |-> Older(exchange[key].token)]]
  /\ cache' = [key \in {k \in DOMAIN cache : cache[k].ttl > 1} |->
                 [token |-> Older(cache[key].token), ttl |-> cache[key].ttl - 1]]
  /\ call' = [c \in Call |-> IF call[c].stage = "read" THEN Moved(call[c], "read", Older(call[c].token)) ELSE call[c]]
  /\ retiredFor' = [k \in 1..MaxKid |-> IF k \in published \/ k > Active THEN 0
                      ELSE IF retiredFor[k] < MirrorTtl THEN retiredFor[k] + 1 ELSE MirrorTtl]
  /\ UNCHANGED <<published, entitledAt>>

-------------------------------------------------------------------------------
Init ==
  /\ published = {1}
  /\ entitledAt = [k \in 1..MaxKid |-> FirstDirectory]
  /\ retiredFor = [k \in 1..MaxKid |-> 0]
  /\ call = [c \in Call |-> NoCall]
  /\ cache = <<>> /\ exchange = <<>>

Next ==
  \/ Rotate \/ RestartProvider \/ RestartGateway \/ Tick
  \/ \E c \in Call :
       \/ \E own \in Held : \/ \E ask \in FixedAsk : Mint(c, own, ask)
                            \/ \E server \in Server : Mint(c, own, ToolAsk(own, server))
       \/ RedisReads(c) \/ CacheAnswered(c) \/ Leave(c)
  \/ \E key \in DOMAIN exchange : IdpExchanges(key) \/ ExchangeSettles(key) \/ ExchangeFails(key)

Spec == Init /\ [][Next]_vars

\* Redis answers, timers fire, and an exchange that is not over when its time is up is
\* aborted.  Callers, restarts and rotations may come or not.
FairSpec ==
  /\ Spec /\ WF_vars(Tick)
  /\ \A c \in Call : WF_vars(RedisReads(c)) /\ WF_vars(CacheAnswered(c))
  /\ WF_vars(\E key \in DOMAIN exchange : exchange[key].age = ExchangeTimeout /\ ExchangeFails(key))

-------------------------------------------------------------------------------
(* Properties *)

\* A call is given a token of its own caller, for its audience and no scope beyond those
\* it asked for, whoever's exchange or cache entry it comes from (cacheKey, mint,
\* performExchange: token-exchange.ts:92-129, 199-232).
MirrorsCaller ==
  \A c \in Call : call[c].stage = "given" =>
    /\ call[c].token.sub = call[c].own.sub
    /\ call[c].token.aud = call[c].ask.aud
    /\ call[c].token.scopes \subseteq call[c].ask.scopes

\* A token is handed out while it has some life left, and one whose key or scopes the
\* provider has withdrawn only within a mirrored token's life of that: the margin of
\* readCache and writeCache (token-exchange.ts:155, 236-238) bounds what a restart of the
\* provider leaves behind in Redis.
HandedOutIsCurrent ==
  [][\A c \in Call : call[c].stage # "given" /\ call'[c].stage = "given" =>
       LET token == call'[c].token IN
       /\ token.age < MirrorTtl - Early
       /\ \/ token.kid \in published /\ token.scopes \subseteq Entitled(token.sub)
          \/ token.kid \notin published /\ retiredFor[token.kid] < MirrorTtl - Early]_vars

\* Every mint ends, one that waits for another call's exchange included (mint's
\* inFlight, the timeout of request: token-exchange.ts:121-128, oauth-client.ts:230-240).
EveryMintSettles ==
  \A c \in Call : call[c].stage \in {"reading", "read", "waiting"} ~> call[c].stage \in {"given", "over"}
===============================================================================
