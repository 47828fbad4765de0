--------------------------- MODULE TokenExchangeProofs ---------------------------
(***************************************************************************)
(* Permission mirroring, for any number of callers, servers, scopes, keys  *)
(* and directories.  ExchangeInv says what every token in Redis, in an     *)
(* exchange under way or in the hands of a call has in common: it is the   *)
(* one its key promises, and it has only scopes its subject had when it    *)
(* was signed, with a key that was withdrawn, if at all, after that.       *)
(***************************************************************************)
EXTENDS TokenExchange, TLAPS

Audience == DOMAIN Namespaces \cup {"gateway"}

Token == [kid : 1..MaxKid, sub : Subject, aud : Audience, scopes : SUBSET Scope, age : 0..MirrorTtl]

Ask == [aud : DOMAIN Namespaces, scopes : SUBSET Scope]

\* A token a key of Redis or of inFlight stands for.
Fits(token, key) == token.sub = key.sub /\ token.aud = key.aud /\ token.scopes \subseteq key.scopes

\* Its scopes were its subject's when it was signed; it is older than its key's withdrawal.
GenuineFor(token, active, keys, entitled, retired) ==
  /\ token \in Token /\ token.kid <= active
  /\ token.scopes \subseteq entitled[token.kid][token.sub]
  /\ token.kid \notin keys => retired[token.kid] <= token.age

Genuine(token) == GenuineFor(token, Active, published, entitledAt, retiredFor)

Kept(token, key) == token = NoToken \/ (Genuine(token) /\ Fits(token, key))

\* The same in the state a step leads to.
KeptNext(token, key) ==
  token = NoToken \/ (GenuineFor(token, Active', published', entitledAt', retiredFor') /\ Fits(token, key))

\* The newest key is the active one, and all that are published sign for one directory.
KeysInOrder ==
  /\ published \subseteq 1..MaxKid /\ Active \in published
  /\ \A k \in published : k <= Active /\ entitledAt[k] = entitledAt[Active]
  /\ DOMAIN entitledAt = 1..MaxKid
  /\ retiredFor \in [1..MaxKid -> 0..MirrorTtl]
  /\ \A k \in published : retiredFor[k] = 0

CallAt(c) ==
  /\ call[c].stage \in {"reading", "read", "waiting", "given"} =>
       /\ call[c].own \in Token /\ call[c].own.kid <= Active
       /\ call[c].ask \in Ask /\ call[c].ask.scopes # {}
  /\ call[c].stage = "read" => Kept(call[c].token, KeyOf(c))
  /\ call[c].stage = "given" => Fits(call[c].token, KeyOf(c))

CallsInOrder ==
  /\ call \in [Call -> [stage : {"idle", "reading", "read", "waiting", "given", "over"},
                        own : Token \cup {NoToken}, ask : Ask \cup {NoToken}, token : Token \cup {NoToken}]]
  /\ \A c \in Call : CallAt(c)

CacheInOrder == \A key \in DOMAIN cache : Kept(cache[key].token, key)

Flight == [age : 0..ExchangeTimeout, own : Token, token : Token \cup {NoToken}]

FlightAt(key) ==
  /\ exchange[key] \in Flight
  /\ exchange[key].own.sub = key.sub /\ key.aud \in DOMAIN Namespaces /\ key.scopes # {}
  /\ Kept(exchange[key].token, key)
  /\ exchange[key].token # NoToken => exchange[key].token.age <= exchange[key].age

ExchangesInOrder == \A key \in DOMAIN exchange : FlightAt(key)

ExchangeInv == KeysInOrder /\ CallsInOrder /\ CacheInOrder /\ ExchangesInOrder

-------------------------------------------------------------------------------
(* Lemmas *)

LEMMA MaxOfNewest == ASSUME NEW k \in Nat PROVE Max({k}) = k /\ Max({k, k + 1}) = k + 1
<1>1. Max({k}) = k
  BY DEF Max
<1>2. Max({k, k + 1}) = k + 1
  <2>1. k + 1 \in {k, k + 1} /\ \A j \in {k, k + 1} : k + 1 >= j
    OBVIOUS
  <2>2. \A x \in {k, k + 1} : (\A j \in {k, k + 1} : x >= j) => x = k + 1
    OBVIOUS
  <2> QED
    BY <2>1, <2>2 DEF Max
<1> QED
  BY <1>1, <1>2

\* narrowScopes grants no more than is asked for, held and allowed (tokens.ts:103-125).
LEMMA Narrowed ==
  ASSUME NEW requested, NEW entitled, NEW allowed, NEW spaces
  PROVE  /\ NarrowScopes(requested, entitled, allowed, spaces) \subseteq entitled \cap allowed
         /\ requested # {} => NarrowScopes(requested, entitled, allowed, spaces) \subseteq requested
  BY DEF NarrowScopes


-------------------------------------------------------------------------------
(* The provider's steps *)

\* A new key, of the same process or of the next, comes after all there were.
LEMMA PublishKeeps ==
  ASSUME ExchangeInv, Rotate \/ RestartProvider
  PROVE  /\ KeysInOrder' /\ Active' = Active + 1
         /\ \A token : Genuine(token) => GenuineFor(token, Active', published', entitledAt', retiredFor')
<1>1. /\ Active \in 1..MaxKid /\ Active < MaxKid /\ published \subseteq 1..MaxKid
      /\ Active \in published /\ \A k \in published : k <= Active
      /\ MirrorTtl \in Nat /\ MaxKid \in Nat
  BY TokenExchangeAssumption DEF ExchangeInv, KeysInOrder, Rotate, RestartProvider
<1>2. PICK keys : /\ keys = {Active, Active + 1} \/ keys = {Active + 1}
                  /\ published' = keys
                  /\ retiredFor' = [k \in 1..MaxKid |-> IF k \in keys \cup published THEN 0 ELSE retiredFor[k]]
  BY DEF Rotate, RestartProvider, Publish
<1>3. Active' = Active + 1
  <2>1. Max(keys) = Active + 1
    <3>1. Active \in Nat /\ Active + 1 \in Nat
      BY <1>1
    <3>2. Max({Active + 1}) = Active + 1 /\ Max({Active, Active + 1}) = Active + 1
      BY <3>1, MaxOfNewest
    <3> QED
      BY <1>2, <3>2
  <2> QED
    BY <1>2, <2>1 DEF Active
<1>4. /\ DOMAIN entitledAt' = 1..MaxKid
      /\ \A k \in 1..Active : entitledAt'[k] = entitledAt[k]
      /\ Active \in keys => entitledAt'[Active + 1] = entitledAt[Active]
  <2>1. DOMAIN entitledAt = 1..MaxKid /\ Active + 1 \in 1..MaxKid
    BY <1>1 DEF ExchangeInv, KeysInOrder
  <2>2. \A k \in 1..Active : k \in 1..MaxKid /\ k # Active + 1
    BY <1>1
  <2>3. CASE Rotate
    <3>1. entitledAt' = [entitledAt EXCEPT ![Active + 1] = entitledAt[Active]]
      BY <2>3 DEF Rotate
    <3> QED
      BY <2>1, <2>2, <3>1
  <2>4. CASE RestartProvider
    <3>1. PICK directory : entitledAt' = [entitledAt EXCEPT ![Active + 1] = directory]
      BY <2>4 DEF RestartProvider
    <3>2. Active \notin keys
      BY <1>1, <1>2, <2>4 DEF RestartProvider, Publish
    <3> QED
      BY <2>1, <2>2, <3>1, <3>2
  <2> QED
    BY <2>3, <2>4
<1>5. KeysInOrder'
  <2>1. published' \subseteq 1..MaxKid /\ Active' \in published' /\ \A k \in published' : k <= Active'
    BY <1>1, <1>2, <1>3
  <2>2. \A k \in published' : entitledAt'[k] = entitledAt'[Active']
    BY <1>1, <1>2, <1>3, <1>4
  <2>3. retiredFor' \in [1..MaxKid -> 0..MirrorTtl] /\ \A k \in published' : retiredFor'[k] = 0
    BY <1>1, <1>2 DEF ExchangeInv, KeysInOrder
  <2> QED
    BY <1>4, <2>1, <2>2, <2>3 DEF KeysInOrder
<1>6. ASSUME NEW token, Genuine(token)
      PROVE  GenuineFor(token, Active', published', entitledAt', retiredFor')
  <2>1. /\ token \in Token /\ token.kid \in 1..MaxKid /\ token.kid <= Active
        /\ token.age \in 0..MirrorTtl
    BY <1>6 DEF Genuine, GenuineFor, Token
  <2>2. token.kid <= Active' /\ entitledAt'[token.kid] = entitledAt[token.kid]
    BY <1>1, <1>3, <1>4, <2>1
  <2>3. token.kid \notin published' => retiredFor'[token.kid] <= token.age
    BY <1>2, <1>6, <2>1 DEF Genuine, GenuineFor
  <2> QED
    BY <1>6, <2>1, <2>2, <2>3 DEF Genuine, GenuineFor
<1> QED
  BY <1>3, <1>5, <1>6

LEMMA ProviderKeepsInv ==
  ASSUME ExchangeInv, Rotate \/ RestartProvider
  PROVE  ExchangeInv'
<1>1. /\ KeysInOrder' /\ Active' = Active + 1 /\ Active \in Nat
      /\ \A token : Genuine(token) => Genuine(token)'
      /\ UNCHANGED <<call, cache, exchange>>
  BY PublishKeeps DEF Genuine, ExchangeInv, KeysInOrder, Rotate, RestartProvider, Publish
<1>2. \A token, key : Kept(token, key) => Kept(token, key)'
  BY <1>1 DEF Kept, Fits
<1>3. CacheInOrder'
  BY <1>1, <1>2 DEF ExchangeInv, CacheInOrder
<1>4. ExchangesInOrder'
  BY <1>1, <1>2 DEF ExchangeInv, ExchangesInOrder, FlightAt
<1>5. CallsInOrder'
  <2>1. ASSUME NEW c \in Call PROVE CallAt(c)'
    <3>1. KeyOf(c)' = KeyOf(c) /\ CallAt(c)
      BY <1>1 DEF KeyOf, ExchangeInv, CallsInOrder
    <3>2. call[c].own \in Token => call[c].own.kid \in Nat
      BY TokenExchangeAssumption DEF Token
    <3>3. \A k \in Nat : k <= Active => k <= Active'
      BY <1>1
    <3> QED
      BY <1>1, <1>2, <3>1, <3>2, <3>3 DEF CallAt
  <2> QED
    BY <1>1, <2>1 DEF ExchangeInv, CallsInOrder
<1> QED
  BY <1>1, <1>3, <1>4, <1>5 DEF ExchangeInv

-------------------------------------------------------------------------------
(* The steps of a mint *)

\* While the provider does nothing, what is true of a token stays so.
LEMMA SameProvider ==
  ASSUME UNCHANGED providerVars
  PROVE  /\ Active' = Active /\ (KeysInOrder => KeysInOrder')
         /\ \A token, key : Kept(token, key) <=> Kept(token, key)'
         /\ \A sub : Entitled(sub)' = Entitled(sub)
  BY DEF providerVars, Active, KeysInOrder, Kept, Fits, Genuine, GenuineFor, Entitled

\* A token a subject may present is one, and its key is not newer than the active one.
LEMMA HeldIsToken ==
  ASSUME ExchangeInv, NEW own \in Held
  PROVE  own \in Token /\ own.kid <= Active
<1>1. PICK k \in 1..Active, sub \in Subject, asked \in SignInScopes :
        own = IssueAccessToken(k, sub, "gateway", NarrowScopes(asked, entitledAt[k][sub], ClientAllowed, {}))
  BY DEF Held
<1>2. Active \in 1..MaxKid
  BY DEF ExchangeInv, KeysInOrder
<1>3. NarrowScopes(asked, entitledAt[k][sub], ClientAllowed, {}) \subseteq Scope
  BY Narrowed, TokenExchangeAssumption
<1> QED
  BY <1>1, <1>2, <1>3, TokenExchangeAssumption DEF IssueAccessToken, Token, Audience

LEMMA MintKeepsInv ==
  ASSUME ExchangeInv, NEW c \in Call, NEW own \in Held, NEW ask \in Ask, Mint(c, own, ask)
  PROVE  ExchangeInv'
<1>1. call' = [call EXCEPT ![c] = [stage |-> "reading", own |-> own, ask |-> ask, token |-> NoToken]]
  BY DEF Mint
<1>2. /\ Active' = Active /\ KeysInOrder' /\ UNCHANGED <<cache, exchange>>
      /\ \A token, key : Kept(token, key) <=> Kept(token, key)'
  BY SameProvider DEF Mint, ExchangeInv
<1>3. CacheInOrder' /\ ExchangesInOrder'
  BY <1>2 DEF ExchangeInv, CacheInOrder, ExchangesInOrder, FlightAt
<1>4. own \in Token /\ own.kid <= Active
  BY HeldIsToken
<1>5. call' \in [Call -> [stage : {"idle", "reading", "read", "waiting", "given", "over"},
                          own : Token \cup {NoToken}, ask : Ask \cup {NoToken}, token : Token \cup {NoToken}]]
  BY <1>1, <1>4 DEF ExchangeInv, CallsInOrder
<1>6. ASSUME NEW d \in Call PROVE CallAt(d)'
  <2>1. CASE d = c
    BY <1>1, <1>2, <1>4, <2>1 DEF Mint, CallAt, ExchangeInv, CallsInOrder
  <2>2. CASE d # c
    <3>1. call'[d] = call[d] /\ KeyOf(d)' = KeyOf(d) /\ CallAt(d)
      BY <1>1, <2>2 DEF ExchangeInv, CallsInOrder, KeyOf
    <3> QED
      BY <1>2, <3>1 DEF CallAt
  <2> QED
    BY <2>1, <2>2
<1> QED
  BY <1>2, <1>3, <1>5, <1>6 DEF ExchangeInv, CallsInOrder

\* What a tool call asks for is for a server.
LEMMA ToolAskIsAsk ==
  ASSUME ExchangeInv, NEW own \in Held, NEW server \in Server
  PROVE  ToolAsk(own, server) \in Ask
<1>1. own.scopes \subseteq Scope
  BY HeldIsToken DEF Token
<1> QED
  BY <1>1, TokenExchangeAssumption DEF ToolAsk, Ask

\* A step of call c that leaves the other calls alone.
LEMMA OthersStay ==
  ASSUME ExchangeInv, UNCHANGED providerVars, NEW c \in Call, NEW mint,
         call' = [call EXCEPT ![c] = mint],
         mint \in [stage : {"idle", "reading", "read", "waiting", "given", "over"},
                   own : Token \cup {NoToken}, ask : Ask \cup {NoToken}, token : Token \cup {NoToken}],
         CallAt(c)'
  PROVE  CallsInOrder'
<1>1. /\ Active' = Active
      /\ \A token, key : Kept(token, key) <=> Kept(token, key)'
  BY SameProvider
<1>2. ASSUME NEW d \in Call, d # c PROVE CallAt(d)'
  <2>1. call'[d] = call[d] /\ KeyOf(d)' = KeyOf(d) /\ CallAt(d)
    BY <1>2 DEF ExchangeInv, CallsInOrder, KeyOf
  <2> QED
    BY <1>1, <2>1 DEF CallAt
<1> QED
  BY <1>2 DEF ExchangeInv, CallsInOrder

LEMMA RedisReadsKeepsInv ==
  ASSUME ExchangeInv, NEW c \in Call, RedisReads(c)
  PROVE  ExchangeInv'
<1>1. PICK token \in {NoToken} \cup {cache[key].token : key \in DOMAIN cache \cap {KeyOf(c)}} :
        call' = [call EXCEPT ![c] = Moved(@, "read", token)]
  BY DEF RedisReads
<1>2. /\ Active' = Active /\ KeysInOrder' /\ UNCHANGED <<cache, exchange>>
      /\ \A t, key : Kept(t, key) <=> Kept(t, key)'
  BY SameProvider DEF RedisReads, ExchangeInv
<1>3. CacheInOrder' /\ ExchangesInOrder'
  BY <1>2 DEF ExchangeInv, CacheInOrder, ExchangesInOrder, FlightAt
<1>4. Kept(token, KeyOf(c))
  BY <1>1 DEF ExchangeInv, CacheInOrder, Kept
<1>5. token \in Token \cup {NoToken}
  BY <1>4 DEF Kept, Genuine, GenuineFor
<1>6. /\ call'[c] = Moved(call[c], "read", token) /\ KeyOf(c)' = KeyOf(c)
      /\ call[c].stage = "reading" /\ CallAt(c)
  BY <1>1 DEF ExchangeInv, CallsInOrder, RedisReads, KeyOf, Moved
<1>7. CallAt(c)'
  BY <1>2, <1>4, <1>6 DEF CallAt, Moved
<1>8. CallsInOrder'
  <2>1. /\ call' = [call EXCEPT ![c] = Moved(call[c], "read", token)]
        /\ Moved(call[c], "read", token) \in
             [stage : {"idle", "reading", "read", "waiting", "given", "over"},
              own : Token \cup {NoToken}, ask : Ask \cup {NoToken}, token : Token \cup {NoToken}]
    BY <1>1, <1>5 DEF Moved, ExchangeInv, CallsInOrder
  <2> QED
    BY <1>7, <2>1, OthersStay DEF RedisReads
<1> QED
  BY <1>2, <1>3, <1>8 DEF ExchangeInv

\* A cached token is taken, or the exchange of the call's key is joined or begun.
LEMMA CacheAnsweredKeepsInv ==
  ASSUME ExchangeInv, NEW c \in Call, CacheAnswered(c)
  PROVE  ExchangeInv'
<1> DEFINE key == KeyOf(c)
           flight == [age |-> 0, own |-> call[c].own, token |-> NoToken]
<1>1. /\ call[c].stage = "read" /\ CallAt(c)
      /\ call[c].own \in Token /\ call[c].own.kid <= Active
      /\ call[c].ask \in Ask /\ call[c].ask.scopes # {}
      /\ Kept(call[c].token, key)
      /\ call[c].token \in Token \cup {NoToken}
  BY DEF CacheAnswered, ExchangeInv, CallsInOrder, CallAt
<1>2. /\ Active' = Active /\ KeysInOrder' /\ UNCHANGED providerVars /\ cache' = cache
      /\ \A t, k : Kept(t, k) <=> Kept(t, k)'
  BY SameProvider DEF CacheAnswered, ExchangeInv
<1>3. CacheInOrder'
  BY <1>2 DEF ExchangeInv, CacheInOrder
<1>4. key.sub = call[c].own.sub /\ key.aud = call[c].ask.aud /\ key.scopes = call[c].ask.scopes
  BY DEF KeyOf, CacheKey
<1>5. CASE Fresh(call[c].token)
  <2>1. call' = [call EXCEPT ![c] = Moved(call[c], "given", call[c].token)] /\ exchange' = exchange
    BY <1>5 DEF CacheAnswered
  <2>2. call'[c] = Moved(call[c], "given", call[c].token) /\ KeyOf(c)' = key
    BY <2>1 DEF ExchangeInv, CallsInOrder, KeyOf, Moved
  <2>3. Fits(call[c].token, key)
    BY <1>1, <1>5 DEF Fresh, Kept
  <2> HIDE DEF key
  <2>4. CallAt(c)'
    BY <1>1, <1>2, <2>2, <2>3 DEF CallAt, Moved
  <2>5. Moved(call[c], "given", call[c].token) \in
          [stage : {"idle", "reading", "read", "waiting", "given", "over"},
           own : Token \cup {NoToken}, ask : Ask \cup {NoToken}, token : Token \cup {NoToken}]
    BY <1>1 DEF Moved
  <2>6. CallsInOrder'
    BY <1>2, <2>1, <2>4, <2>5, OthersStay
  <2>7. ExchangesInOrder'
    BY <1>2, <2>1 DEF ExchangeInv, ExchangesInOrder, FlightAt
  <2> QED
    BY <1>2, <1>3, <2>6, <2>7 DEF ExchangeInv
<1>6. CASE ~Fresh(call[c].token)
  <2>1. /\ call' = [call EXCEPT ![c] = Moved(call[c], "waiting", NoToken)]
        /\ exchange' = IF key \in DOMAIN exchange THEN exchange ELSE With(exchange, key, flight)
    BY <1>6 DEF CacheAnswered
  <2>2. call'[c] = Moved(call[c], "waiting", NoToken)
    BY <2>1 DEF ExchangeInv, CallsInOrder
  <2>3. CallAt(c)'
    BY <1>1, <1>2, <2>2 DEF CallAt, Moved
  <2>4. Moved(call[c], "waiting", NoToken) \in
          [stage : {"idle", "reading", "read", "waiting", "given", "over"},
           own : Token \cup {NoToken}, ask : Ask \cup {NoToken}, token : Token \cup {NoToken}]
    BY <1>1 DEF Moved
  <2>5. CallsInOrder'
    BY <1>2, <2>1, <2>3, <2>4, OthersStay
  <2>6. flight \in Flight
    BY <1>1, TokenExchangeAssumption DEF Flight
  <2> HIDE DEF key
  <2>7. ASSUME NEW k \in DOMAIN exchange' PROVE FlightAt(k)'
    <3>1. CASE k \in DOMAIN exchange
      <4>1. exchange'[k] = exchange[k] /\ FlightAt(k)
        BY <2>1, <3>1 DEF With, ExchangeInv, ExchangesInOrder
      <4> QED
        BY <1>2, <4>1 DEF FlightAt
    <3>2. CASE k \notin DOMAIN exchange
      <4>1. k = key /\ exchange'[k] = flight
        BY <2>1, <3>2 DEF With
      <4>2. key.aud \in DOMAIN Namespaces
        BY <1>1, <1>4 DEF Ask
      <4> QED
        BY <1>1, <1>4, <2>6, <4>1, <4>2 DEF FlightAt, Kept
    <3> QED
      BY <3>1, <3>2
  <2> QED
    BY <1>2, <1>3, <2>5, <2>7 DEF ExchangeInv, ExchangesInOrder
<1> QED
  BY <1>5, <1>6

\* A call that has its token goes on, or is cut off.
LEMMA LeaveKeepsInv ==
  ASSUME ExchangeInv, NEW c \in Call, Leave(c)
  PROVE  ExchangeInv'
<1>1. /\ Active' = Active /\ KeysInOrder' /\ UNCHANGED <<providerVars, cache, exchange>>
      /\ \A t, k : Kept(t, k) <=> Kept(t, k)'
  BY SameProvider DEF Leave, ExchangeInv
<1>2. CacheInOrder' /\ ExchangesInOrder'
  BY <1>1 DEF ExchangeInv, CacheInOrder, ExchangesInOrder, FlightAt
<1>3. call' = [call EXCEPT ![c] = Over] /\ call'[c] = Over
  BY DEF Leave, ExchangeInv, CallsInOrder
<1>4. Over = [stage |-> "over", own |-> NoToken, ask |-> NoToken, token |-> NoToken]
  BY DEF Over, NoCall
<1>5. CallAt(c)'
  BY <1>3, <1>4 DEF CallAt
<1>6. CallsInOrder'
  BY <1>1, <1>3, <1>4, <1>5, OthersStay
<1> QED
  BY <1>1, <1>2, <1>6 DEF ExchangeInv

\* Calls that are over leave nothing behind.
LEMMA OverIsInOrder ==
  ASSUME ExchangeInv, UNCHANGED providerVars, NEW gone \in SUBSET Call,
         call' = [c \in Call |-> IF c \in gone THEN Over ELSE call[c]]
  PROVE  CallsInOrder'
<1>1. /\ Active' = Active
      /\ \A t, k : Kept(t, k) <=> Kept(t, k)'
  BY SameProvider
<1>2. Over = [stage |-> "over", own |-> NoToken, ask |-> NoToken, token |-> NoToken]
  BY DEF Over, NoCall
<1>3. ASSUME NEW c \in Call PROVE CallAt(c)'
  <2>1. CASE c \in gone
    BY <1>2, <2>1 DEF CallAt
  <2>2. CASE c \notin gone
    <3>1. call'[c] = call[c] /\ KeyOf(c)' = KeyOf(c) /\ CallAt(c)
      BY <2>2 DEF ExchangeInv, CallsInOrder, KeyOf
    <3> QED
      BY <1>1, <3>1 DEF CallAt
  <2> QED
    BY <2>1, <2>2
<1>4. call' \in [Call -> [stage : {"idle", "reading", "read", "waiting", "given", "over"},
                          own : Token \cup {NoToken}, ask : Ask \cup {NoToken}, token : Token \cup {NoToken}]]
  BY <1>2 DEF ExchangeInv, CallsInOrder
<1> QED
  BY <1>3, <1>4 DEF CallsInOrder

\* The gateway starts again.
LEMMA RestartGatewayKeepsInv ==
  ASSUME ExchangeInv, RestartGateway
  PROVE  ExchangeInv'
<1>1. /\ Active' = Active /\ KeysInOrder' /\ UNCHANGED <<providerVars, cache>> /\ exchange' = <<>>
      /\ \A t, k : Kept(t, k) <=> Kept(t, k)'
  BY SameProvider DEF RestartGateway, ExchangeInv
<1>2. CacheInOrder' /\ ExchangesInOrder'
  BY <1>1 DEF ExchangeInv, CacheInOrder, ExchangesInOrder
<1> DEFINE gone == {c \in Call : call[c] # NoCall}
<1>3. call' = [c \in Call |-> IF c \in gone THEN Over ELSE call[c]]
  BY DEF RestartGateway
<1>4. CallsInOrder'
  BY <1>1, <1>3, OverIsInOrder
<1> QED
  BY <1>1, <1>2, <1>4 DEF ExchangeInv

\* An exchange that fails leaves its callers without a token, and the others as they are.
LEMMA ExchangeFailsKeepsInv ==
  ASSUME ExchangeInv, NEW key \in DOMAIN exchange, ExchangeFails(key)
  PROVE  ExchangeInv'
<1>1. /\ Active' = Active /\ KeysInOrder' /\ UNCHANGED <<providerVars, cache>>
      /\ \A t, k : Kept(t, k) <=> Kept(t, k)'
  BY SameProvider DEF ExchangeFails, ExchangeInv
<1>2. CacheInOrder' /\ ExchangesInOrder'
  BY <1>1 DEF ExchangeInv, CacheInOrder, ExchangesInOrder, FlightAt, ExchangeFails, Without
<1>3. call' = [c \in Call |-> IF c \in Waiting(key) THEN Over ELSE call[c]] /\ Waiting(key) \subseteq Call
  BY DEF ExchangeFails, Waiting
<1>4. CallsInOrder'
  BY <1>1, <1>3, OverIsInOrder
<1> QED
  BY <1>1, <1>2, <1>4 DEF ExchangeInv

\* The provider issues what it grants: with the active key, to the subject of the
\* exchange, and no more than it asks for or the subject has now.
LEMMA IdpExchangesKeepsInv ==
  ASSUME ExchangeInv, NEW key \in DOMAIN exchange, IdpExchanges(key)
  PROVE  ExchangeInv'
<1> DEFINE own == exchange[key].own
           token == IssueAccessToken(Active, own.sub, key.aud, Granted(own, key))
<1>1. /\ Active' = Active /\ KeysInOrder' /\ UNCHANGED <<providerVars, call, cache>>
      /\ \A t, k : Kept(t, k) <=> Kept(t, k)'
  BY SameProvider DEF IdpExchanges, ExchangeInv
<1>2. exchange' = [exchange EXCEPT ![key].token = token]
  BY DEF IdpExchanges
<1>3. FlightAt(key) /\ exchange[key] \in Flight
  BY DEF ExchangeInv, ExchangesInOrder, FlightAt
<1>4. /\ Granted(own, key) \subseteq own.scopes \cap Entitled(own.sub)
      /\ Granted(own, key) \subseteq Scope
      /\ Granted(own, key) \subseteq key.scopes
  BY <1>3, Narrowed, TokenExchangeAssumption DEF Granted, FlightAt
<1>5. token = [kid |-> Active, sub |-> own.sub, aud |-> key.aud, scopes |-> Granted(own, key), age |-> 0]
  BY DEF IssueAccessToken
<1> HIDE DEF token
<1>6. token \in Token
  BY <1>3, <1>4, <1>5, TokenExchangeAssumption
     DEF Token, Audience, FlightAt, Flight, ExchangeInv, KeysInOrder
<1>7. Kept(token, key)
  <2>1. token.kid = Active /\ Active \in published
    BY <1>5 DEF ExchangeInv, KeysInOrder
  <2>2. token.scopes \subseteq entitledAt[token.kid][token.sub]
    BY <1>4, <1>5 DEF Entitled
  <2>3. Active <= Active
    BY DEF ExchangeInv, KeysInOrder
  <2>4. Fits(token, key)
    BY <1>3, <1>4, <1>5 DEF Fits, FlightAt
  <2> QED
    BY <1>6, <2>1, <2>2, <2>3, <2>4 DEF Kept, Genuine, GenuineFor
<1>8. ASSUME NEW k \in DOMAIN exchange' PROVE FlightAt(k)'
  <2>1. CASE k = key
    <3>1. exchange'[k] = [exchange[key] EXCEPT !.token = token]
      BY <1>2, <2>1
    <3>2. exchange'[k] = [age |-> exchange[key].age, own |-> own, token |-> token]
      BY <1>3, <3>1 DEF Flight
    <3>3. 0 <= exchange[key].age /\ exchange[key].age \in 0..ExchangeTimeout /\ token.age = 0
      BY <1>3, <1>5, TokenExchangeAssumption DEF Flight
    <3>4. exchange'[k] \in Flight
      BY <1>3, <1>6, <3>2 DEF Flight
    <3> QED
      BY <1>1, <1>3, <1>7, <2>1, <3>2, <3>3, <3>4 DEF FlightAt
  <2>2. CASE k # key
    <3>1. exchange'[k] = exchange[k] /\ FlightAt(k)
      BY <1>2, <2>2 DEF ExchangeInv, ExchangesInOrder
    <3> QED
      BY <1>1, <3>1 DEF FlightAt
  <2> QED
    BY <2>1, <2>2
<1>9. CacheInOrder' /\ CallsInOrder'
  BY <1>1 DEF ExchangeInv, CacheInOrder, CallsInOrder, CallAt, KeyOf
<1> QED
  BY <1>1, <1>8, <1>9 DEF ExchangeInv, ExchangesInOrder

\* The answer of an exchange fits its key, in Redis as for everyone who waits.
LEMMA ExchangeSettlesKeepsInv ==
  ASSUME ExchangeInv, NEW key \in DOMAIN exchange, ExchangeSettles(key)
  PROVE  ExchangeInv'
<1> DEFINE token == exchange[key].token
<1>1. /\ Active' = Active /\ KeysInOrder' /\ UNCHANGED providerVars
      /\ \A t, k : Kept(t, k) <=> Kept(t, k)'
  BY SameProvider DEF ExchangeSettles, ExchangeInv
<1>2. /\ token # NoToken /\ Kept(token, key) /\ token \in Token /\ Fits(token, key)
  BY DEF ExchangeSettles, ExchangeInv, ExchangesInOrder, FlightAt, Kept, Genuine, GenuineFor
<1>3. /\ call' = [c \in Call |-> IF c \in Waiting(key) THEN Moved(call[c], "given", token) ELSE call[c]]
      /\ exchange' = Without(exchange, key)
      /\ \/ cache' = cache
         \/ \E ttl : cache' = With(cache, key, [token |-> token, ttl |-> ttl])
  BY DEF ExchangeSettles, WriteCache
<1> HIDE DEF token
<1>4. CacheInOrder'
  <2>1. CASE cache' = cache
    BY <1>1, <2>1 DEF ExchangeInv, CacheInOrder
  <2>2. ASSUME NEW ttl, cache' = With(cache, key, [token |-> token, ttl |-> ttl])
        PROVE  CacheInOrder'
    <3>1. ASSUME NEW k \in DOMAIN cache' PROVE Kept(cache'[k].token, k)
      BY <1>2, <2>2 DEF With, ExchangeInv, CacheInOrder
    <3> QED
      BY <1>1, <3>1 DEF CacheInOrder
  <2> QED
    BY <1>3, <2>1, <2>2
<1>5. ExchangesInOrder'
  BY <1>1, <1>3 DEF ExchangeInv, ExchangesInOrder, FlightAt, Without
<1>6. ASSUME NEW c \in Call PROVE CallAt(c)'
  <2>1. CallAt(c)
    BY DEF ExchangeInv, CallsInOrder
  <2>2. CASE c \in Waiting(key)
    <3>1. call[c].stage = "waiting" /\ KeyOf(c) = key
      BY <2>2 DEF Waiting
    <3>2. call'[c] = Moved(call[c], "given", token)
      BY <1>3, <2>2
    <3>3. KeyOf(c)' = key
      BY <3>1, <3>2 DEF KeyOf, Moved
    <3>4. call'[c].stage = "given" /\ call'[c].token = token
          /\ call'[c].own = call[c].own /\ call'[c].ask = call[c].ask
      BY <3>2 DEF Moved
    <3> QED
      BY <1>1, <1>2, <2>1, <3>1, <3>3, <3>4 DEF CallAt
  <2>3. CASE c \notin Waiting(key)
    <3>1. call'[c] = call[c]
      BY <1>3, <2>3
    <3>2. KeyOf(c)' = KeyOf(c)
      BY <3>1 DEF KeyOf
    <3> QED
      BY <1>1, <2>1, <3>1, <3>2 DEF CallAt
  <2> QED
    BY <2>2, <2>3
<1>7. call' \in [Call -> [stage : {"idle", "reading", "read", "waiting", "given", "over"},
                          own : Token \cup {NoToken}, ask : Ask \cup {NoToken}, token : Token \cup {NoToken}]]
  BY <1>2, <1>3 DEF Moved, ExchangeInv, CallsInOrder
<1> QED
  BY <1>1, <1>4, <1>5, <1>6, <1>7 DEF ExchangeInv, CallsInOrder

\* Time passes for a token as it does for its key.
LEMMA OlderIsKept ==
  ASSUME ExchangeInv, Tick, NEW token, NEW key, Kept(token, key)
  PROVE  /\ Older(token) = NoToken
            \/ (GenuineFor(Older(token), Active, published, entitledAt, retiredFor') /\ Fits(Older(token), key))
         /\ Older(token) # NoToken /\ token \in Token => Older(token).age <= token.age + 1
<1>1. CASE token = NoToken
  BY <1>1 DEF Older
<1>2. CASE token # NoToken
  <2>1. /\ Genuine(token) /\ Fits(token, key) /\ token \in Token
        /\ token.kid \in 1..MaxKid /\ token.age \in 0..MirrorTtl /\ token.kid <= Active
        /\ MirrorTtl \in Nat
    BY <1>2, TokenExchangeAssumption DEF Kept, Genuine, GenuineFor, Token
  <2>2. /\ Older(token) \in Token /\ Older(token).kid = token.kid /\ Older(token).sub = token.sub
        /\ Older(token).aud = token.aud /\ Older(token).scopes = token.scopes
        /\ Older(token).age = IF token.age = MirrorTtl THEN MirrorTtl ELSE token.age + 1
    <3>1. CASE token.age = MirrorTtl
      BY <2>1, <3>1 DEF Older
    <3>2. CASE token.age # MirrorTtl
      <4>1. Older(token) = [token EXCEPT !.age = token.age + 1]
        BY <1>2, <3>2 DEF Older
      <4>2. token.age + 1 \in 0..MirrorTtl
        BY <2>1, <3>2
      <4> QED
        BY <2>1, <3>2, <4>1, <4>2 DEF Token
    <3> QED
      BY <3>1, <3>2
  <2>3. token.kid \notin published => retiredFor'[token.kid] <= Older(token).age
    <3> SUFFICES ASSUME token.kid \notin published
                 PROVE  retiredFor'[token.kid] <= Older(token).age
      OBVIOUS
    <3>1. retiredFor[token.kid] \in 0..MirrorTtl /\ retiredFor[token.kid] <= token.age
      BY <2>1 DEF Genuine, GenuineFor, ExchangeInv, KeysInOrder
    <3>2. ~(token.kid > Active)
      BY <2>1 DEF ExchangeInv, KeysInOrder
    <3>3. retiredFor'[token.kid] =
            IF retiredFor[token.kid] < MirrorTtl THEN retiredFor[token.kid] + 1 ELSE MirrorTtl
      BY <2>1, <3>2 DEF Tick
    <3> QED
      BY <2>1, <2>2, <3>1, <3>3
  <2>4. Older(token).age <= token.age + 1
    BY <2>1, <2>2
  <2> QED
    BY <2>1, <2>2, <2>3, <2>4 DEF Genuine, GenuineFor, Fits
<1> QED
  BY <1>1, <1>2

LEMMA TickKeepsInv ==
  ASSUME ExchangeInv, Tick
  PROVE  ExchangeInv'
<1>1. /\ Active' = Active /\ published' = published /\ entitledAt' = entitledAt
      /\ MirrorTtl \in Nat /\ ExchangeTimeout \in Nat
  BY TokenExchangeAssumption DEF Tick, Active
<1>2. \A token, key : Kept(token, key) => KeptNext(Older(token), key)
  BY <1>1, OlderIsKept DEF KeptNext
<1>3. KeysInOrder'
  <2>1. retiredFor' \in [1..MaxKid -> 0..MirrorTtl] /\ \A k \in published' : retiredFor'[k] = 0
    BY <1>1 DEF Tick, ExchangeInv, KeysInOrder
  <2> QED
    BY <1>1, <2>1 DEF ExchangeInv, KeysInOrder
<1>4. CacheInOrder'
  <2> SUFFICES ASSUME NEW key \in DOMAIN cache' PROVE KeptNext(cache'[key].token, key)
    BY DEF CacheInOrder, Kept, KeptNext, Genuine, Fits
  <2>1. key \in DOMAIN cache /\ cache'[key].token = Older(cache[key].token)
    BY DEF Tick
  <2>2. Kept(cache[key].token, key)
    BY <2>1 DEF ExchangeInv, CacheInOrder
  <2> QED
    BY <1>2, <2>1, <2>2
<1>5. ExchangesInOrder'
  <2> SUFFICES ASSUME NEW key \in DOMAIN exchange' PROVE FlightAt(key)'
    BY DEF ExchangesInOrder
  <2>1. /\ key \in DOMAIN exchange /\ exchange[key].age < ExchangeTimeout
        /\ exchange'[key] = [age |-> exchange[key].age + 1, own |-> exchange[key].own,
                             token |-> Older(exchange[key].token)]
    BY DEF Tick
  <2>2. FlightAt(key) /\ exchange[key].age \in 0..ExchangeTimeout
    BY <2>1 DEF ExchangeInv, ExchangesInOrder, FlightAt, Flight
  <2>3. KeptNext(exchange'[key].token, key)
    BY <2>1, <1>2, <2>2 DEF FlightAt
  <2>4. Older(exchange[key].token) \in Token \cup {NoToken}
    BY <2>2, OlderIsKept DEF FlightAt, GenuineFor
  <2>5. exchange'[key] \in Flight
    BY <1>1, <2>1, <2>2, <2>4 DEF FlightAt, Flight
  <2>6. exchange'[key].token # NoToken => exchange'[key].token.age <= exchange'[key].age
    <3> SUFFICES ASSUME Older(exchange[key].token) # NoToken
                 PROVE  Older(exchange[key].token).age <= exchange[key].age + 1
      BY <2>1
    <3>1. exchange[key].token # NoToken
      BY DEF Older
    <3>2. exchange[key].token \in Token /\ exchange[key].token.age <= exchange[key].age
      BY <2>2, <3>1 DEF FlightAt, Flight
    <3>3. Older(exchange[key].token).age <= exchange[key].token.age + 1
      BY <2>2, <3>2, OlderIsKept DEF FlightAt
    <3>4. Older(exchange[key].token).age \in Nat /\ exchange[key].token.age \in Nat
      BY <1>1, <2>4, <3>2 DEF Token
    <3> QED
      BY <2>2, <3>2, <3>3, <3>4
  <2> QED
    BY <2>1, <2>2, <2>3, <2>5, <2>6 DEF FlightAt, Kept, KeptNext, Genuine, Fits
<1>6. ASSUME NEW c \in Call PROVE CallAt(c)' /\ call'[c].token \in Token \cup {NoToken}
  <2>1. CallAt(c) /\ call[c].token \in Token \cup {NoToken}
    BY DEF ExchangeInv, CallsInOrder
  <2>2. CASE call[c].stage = "read"
    <3>1. call'[c] = Moved(call[c], "read", Older(call[c].token))
      BY <2>2 DEF Tick
    <3>2. /\ call'[c].stage = "read" /\ call'[c].own = call[c].own /\ call'[c].ask = call[c].ask
          /\ call'[c].token = Older(call[c].token)
      BY <3>1 DEF Moved
    <3>3. KeyOf(c)' = KeyOf(c)
      BY <3>2 DEF KeyOf
    <3>4. KeptNext(call'[c].token, KeyOf(c))
      BY <1>2, <2>1, <2>2, <3>2 DEF CallAt
    <3>5. Older(call[c].token) \in Token \cup {NoToken}
      BY <2>1, <2>2, OlderIsKept DEF CallAt, GenuineFor
    <3> QED
      BY <1>1, <2>1, <2>2, <3>2, <3>3, <3>4, <3>5 DEF CallAt, Kept, KeptNext, Genuine, Fits
  <2>3. CASE call[c].stage # "read"
    <3>1. call'[c] = call[c]
      BY <2>3 DEF Tick
    <3>2. KeyOf(c)' = KeyOf(c)
      BY <3>1 DEF KeyOf
    <3> QED
      BY <1>1, <2>1, <2>3, <3>1, <3>2 DEF CallAt
  <2> QED
    BY <2>2, <2>3
<1>7. CallsInOrder'
  <2>1. call' \in [Call -> [stage : {"idle", "reading", "read", "waiting", "given", "over"},
                            own : Token \cup {NoToken}, ask : Ask \cup {NoToken}, token : Token \cup {NoToken}]]
    BY <1>6 DEF Tick, Moved, ExchangeInv, CallsInOrder
  <2> QED
    BY <1>6, <2>1 DEF CallsInOrder
<1> QED
  BY <1>3, <1>4, <1>5, <1>7 DEF ExchangeInv

-------------------------------------------------------------------------------
LEMMA InitExchangeInv == Init => ExchangeInv
<1> SUFFICES ASSUME Init PROVE ExchangeInv
  OBVIOUS
<1>1. Active = 1
  BY MaxOfNewest DEF Init, Active
<1>2. KeysInOrder
  BY <1>1, TokenExchangeAssumption DEF Init, KeysInOrder
<1>3. CallsInOrder
  BY DEF Init, CallsInOrder, CallAt, NoCall
<1>4. CacheInOrder /\ ExchangesInOrder
  BY DEF Init, CacheInOrder, ExchangesInOrder
<1> QED
  BY <1>2, <1>3, <1>4 DEF ExchangeInv

LEMMA StepKeepsExchangeInv == ExchangeInv /\ [Next]_vars => ExchangeInv'
<1> SUFFICES ASSUME ExchangeInv, [Next]_vars PROVE ExchangeInv'
  OBVIOUS
<1>1. CASE UNCHANGED vars
  <2>1. /\ Active' = Active /\ KeysInOrder' /\ UNCHANGED <<call, cache, exchange>>
        /\ \A t, k : Kept(t, k) <=> Kept(t, k)'
    BY <1>1, SameProvider DEF vars, providerVars, ExchangeInv
  <2> QED
    BY <2>1 DEF ExchangeInv, CallsInOrder, CallAt, KeyOf, CacheInOrder, ExchangesInOrder, FlightAt
<1>2. ASSUME NEW c \in Call, NEW own \in Held, NEW ask \in FixedAsk, Mint(c, own, ask)
      PROVE  ExchangeInv'
  <2>1. ask \in Ask
    BY TokenExchangeAssumption DEF Ask
  <2> QED
    BY <1>2, <2>1, MintKeepsInv
<1>3. ASSUME NEW c \in Call, NEW own \in Held, NEW server \in Server, Mint(c, own, ToolAsk(own, server))
      PROVE  ExchangeInv'
  BY <1>3, ToolAskIsAsk, MintKeepsInv
<1> QED
  BY <1>1, <1>2, <1>3, ProviderKeepsInv, RestartGatewayKeepsInv, TickKeepsInv, RedisReadsKeepsInv,
     CacheAnsweredKeepsInv, LeaveKeepsInv, IdpExchangesKeepsInv, ExchangeSettlesKeepsInv,
     ExchangeFailsKeepsInv DEF Next

LEMMA ExchangeInvHolds == Spec => []ExchangeInv
  BY InitExchangeInv, StepKeepsExchangeInv, PTL DEF Spec

-------------------------------------------------------------------------------
(* The theorems *)

\* Whoever's exchange or cache entry a token comes from, it names the caller it is given
\* to, its audience, and nothing the caller did not ask for (token-exchange.ts:92-129).
THEOREM TokensMirrorTheirCaller == Spec => []MirrorsCaller
<1>1. ExchangeInv => MirrorsCaller
  <2> SUFFICES ASSUME ExchangeInv, NEW c \in Call, call[c].stage = "given"
               PROVE  /\ call[c].token.sub = call[c].own.sub
                      /\ call[c].token.aud = call[c].ask.aud
                      /\ call[c].token.scopes \subseteq call[c].ask.scopes
    BY DEF MirrorsCaller
  <2>1. Fits(call[c].token, KeyOf(c))
    BY DEF ExchangeInv, CallsInOrder, CallAt
  <2> QED
    BY <2>1 DEF Fits, KeyOf, CacheKey
<1> QED
  BY <1>1, ExchangeInvHolds, PTL

\* No token is handed out in the last of its life, nor longer than a token's life after
\* its key, or the directory it was issued under, was withdrawn (token-exchange.ts:155,
\* 236-238).
THEOREM TokensHandedOutAreCurrent == Spec => HandedOutIsCurrent
<1>1. ASSUME ExchangeInv, [Next]_vars, NEW c \in Call, call[c].stage # "given", call'[c].stage = "given"
      PROVE  LET token == call'[c].token IN
             /\ token.age < MirrorTtl - Early
             /\ \/ token.kid \in published /\ token.scopes \subseteq Entitled(token.sub)
                \/ token.kid \notin published /\ retiredFor[token.kid] < MirrorTtl - Early
  <2> DEFINE token == call'[c].token
  <2>1. ASSUME token.age < MirrorTtl - Early, Genuine(token)
        PROVE  /\ token.age < MirrorTtl - Early
               /\ \/ token.kid \in published /\ token.scopes \subseteq Entitled(token.sub)
                  \/ token.kid \notin published /\ retiredFor[token.kid] < MirrorTtl - Early
    <3> HIDE DEF token
    <3>1. CASE token.kid \in published
      BY <1>1, <2>1, <3>1 DEF Genuine, GenuineFor, ExchangeInv, KeysInOrder, Entitled
    <3>2. CASE token.kid \notin published
      <4>1. retiredFor[token.kid] \in 0..MirrorTtl /\ retiredFor[token.kid] <= token.age
        BY <1>1, <2>1, <3>2 DEF Genuine, GenuineFor, ExchangeInv, KeysInOrder, Token
      <4>2. token.age \in 0..MirrorTtl /\ MirrorTtl \in Nat /\ Early \in Nat
        BY <2>1, TokenExchangeAssumption DEF Genuine, GenuineFor, Token
      <4> QED
        BY <2>1, <3>2, <4>1, <4>2
    <3> QED
      BY <2>1, <3>1, <3>2
  <2>2. token.age < MirrorTtl - Early /\ Genuine(token)
    <3>1. CASE CacheAnswered(c)
      <4>1. /\ call[c].stage = "read" /\ Fresh(call[c].token)
            /\ call' = [call EXCEPT ![c] = Moved(call[c], "given", call[c].token)]
        BY <1>1, <3>1 DEF CacheAnswered, Moved, ExchangeInv, CallsInOrder
      <4>2. token = call[c].token
        BY <1>1, <4>1 DEF Moved, ExchangeInv, CallsInOrder
      <4>3. Kept(call[c].token, KeyOf(c))
        BY <1>1, <4>1 DEF ExchangeInv, CallsInOrder, CallAt
      <4> QED
        BY <4>1, <4>2, <4>3 DEF Fresh, Kept
    <3>2. ASSUME NEW key \in DOMAIN exchange, ExchangeSettles(key)
          PROVE  token.age < MirrorTtl - Early /\ Genuine(token)
      <4>1. FlightAt(key) /\ exchange[key].token # NoToken
        BY <1>1, <3>2 DEF ExchangeSettles, ExchangeInv, ExchangesInOrder
      <4>2. token = exchange[key].token
        BY <1>1, <3>2 DEF ExchangeSettles, Moved
      <4>3. Genuine(exchange[key].token)
        BY <4>1 DEF FlightAt, Kept
      <4>4. exchange[key].token.age \in Nat /\ exchange[key].age \in 0..ExchangeTimeout
            /\ exchange[key].token.age <= exchange[key].age
            /\ MirrorTtl \in Nat /\ Early \in Nat /\ ExchangeTimeout \in Nat
            /\ Early + ExchangeTimeout < MirrorTtl
        BY <4>1, <4>3, TokenExchangeAssumption DEF FlightAt, Flight, Genuine, GenuineFor, Token
      <4>5. exchange[key].token.age < MirrorTtl - Early
        BY <4>4
      <4> QED
        BY <4>2, <4>3, <4>5
    <3>3. ASSUME NEW d \in Call, RedisReads(d) \/ Leave(d) \/ (CacheAnswered(d) /\ d # c) PROVE FALSE
      BY <1>1, <3>3 DEF RedisReads, Leave, CacheAnswered, Moved, Over, NoCall, ExchangeInv, CallsInOrder
    <3>4. ASSUME NEW d \in Call, NEW own, NEW ask, Mint(d, own, ask) PROVE FALSE
      BY <1>1, <3>4 DEF Mint, ExchangeInv, CallsInOrder
    <3>5. ~ (RestartGateway \/ Tick \/ Rotate \/ RestartProvider)
      BY <1>1 DEF RestartGateway, Tick, Rotate, RestartProvider, Publish, Moved, Over, NoCall
    <3>6. ASSUME NEW key \in DOMAIN exchange, IdpExchanges(key) \/ ExchangeFails(key) PROVE FALSE
      BY <1>1, <3>6 DEF IdpExchanges, ExchangeFails, Over, NoCall
    <3>7. ~ UNCHANGED vars
      BY <1>1 DEF vars
    <3> QED
      BY <1>1, <3>1, <3>2, <3>3, <3>4, <3>5, <3>6, <3>7 DEF Next
  <2> QED
    BY <2>1, <2>2
<1>2. ExchangeInv /\ [Next]_vars =>
        [\A c \in Call : call[c].stage # "given" /\ call'[c].stage = "given" =>
           LET token == call'[c].token IN
           /\ token.age < MirrorTtl - Early
           /\ \/ token.kid \in published /\ token.scopes \subseteq Entitled(token.sub)
              \/ token.kid \notin published /\ retiredFor[token.kid] < MirrorTtl - Early]_vars
  BY <1>1
<1> QED
  BY <1>2, ExchangeInvHolds, PTL DEF Spec, HandedOutIsCurrent
===============================================================================
