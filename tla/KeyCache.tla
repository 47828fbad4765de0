-------------------------------- MODULE KeyCache --------------------------------
(***************************************************************************)
(* A server's copy of the identity provider's signing keys (packages/auth/ *)
(* src/jwks-cache.ts), the provider's key ring (apps/mock-idp/src/keys.ts)  *)
(* and the lookups verifyAccessToken makes.                                *)
(*                                                                         *)
(* Keys are numbered in the order they were generated.  A time is the      *)
(* number of ticks since something happened, counted up to the limit       *)
(* beyond which nothing depends on it.                                     *)
(***************************************************************************)
EXTENDS Naturals, FiniteSets, FiniteSetsExt

CONSTANTS Call,                    \* requests whose token is being verified
          Ttl, Cooldown, Timeout,  \* ttlMs, cooldownMs, timeoutMs
          MaxKid                   \* bound: keys ever generated

ASSUME KeyCacheAssumption ==
  /\ Timeout \in Nat \ {0} /\ Cooldown \in Nat /\ Ttl \in Nat /\ MaxKid \in Nat \ {0}
  /\ Timeout < Cooldown /\ Cooldown <= Ttl

VARIABLES published,     \* the provider's key set
          publishedFor,  \* publishedFor[k]: ticks since k was published, up to Cooldown
          retiredFor,    \* retiredFor[k]: ticks since k left the set, up to Ttl + Timeout
          keys,          \* the cache's keys
          sinceFetch,    \* ticks since fetchedAt, up to Ttl
          sinceAttempt,  \* ticks since lastAttemptAt, up to Cooldown
          lastFailed,    \* whether the last fetch that ended failed
          inFlight,      \* the fetch under way: asked, or answered with the keys read
          lookup         \* lookup[c]: the getKey of call c

providerVars == <<published, publishedFor, retiredFor>>
cacheVars == <<keys, sinceFetch, sinceAttempt, lastFailed, inFlight>>
keyVars == <<published, publishedFor, retiredFor, keys, sinceFetch, sinceAttempt, lastFailed, inFlight, lookup>>

Kid == 1..MaxKid
NoFetch == [state |-> "none", age |-> 0, keys |-> {}]
NoLookup == [state |-> "none", kid |-> 0]

\* Keyring.active
Active == Max(published)

UpTo(limit, n) == IF n < limit THEN n ELSE limit

-------------------------------------------------------------------------------
(* The provider *)

Publish(set) ==
  /\ published' = set
  /\ publishedFor' = [k \in Kid |-> IF k \in set \cap published THEN publishedFor[k] ELSE 0]
  /\ retiredFor' = [k \in Kid |-> IF k \in set \cup published THEN 0 ELSE retiredFor[k]]

\* Keyring.rotate: the new key and the one before it.
Rotate == Active < MaxKid /\ Publish({Active, Active + 1})

\* The provider starts again, with one new key.
RestartProvider == Active < MaxKid /\ Publish({Active + 1})

-------------------------------------------------------------------------------
(* The cache *)

Cooling == sinceAttempt < Cooldown /\ keys # {}

\* Faulty: a cached key is good for ever.
HitUnexpired(kid) == kid \in keys

Hit(kid) == sinceFetch < Ttl /\ kid \in keys

Verdict(set, kid) == [state |-> IF kid \in set THEN "found" ELSE "refused", kid |-> kid]

\* refresh, past the cooldown: the fetch under way is joined, or one begins.
Refresh ==
  IF inFlight.state = "none"
  THEN /\ inFlight' = [state |-> "asked", age |-> 0, keys |-> {}]
       /\ sinceAttempt' = 0
  ELSE UNCHANGED <<inFlight, sinceAttempt>>

\* getKey: a fresh key at once, what is there while refresh is cooling down, and else
\* what is there when the fetch has ended.
GetKey(c, kid) ==
  /\ lookup[c] = NoLookup
  /\ IF Hit(kid) \/ Cooling
     THEN /\ lookup' = [lookup EXCEPT ![c] = Verdict(keys, kid)]
          /\ UNCHANGED <<inFlight, sinceAttempt>>
     ELSE /\ lookup' = [lookup EXCEPT ![c] = [state |-> "waiting", kid |-> kid]]
          /\ Refresh
  /\ UNCHANGED <<providerVars, keys, sinceFetch, lastFailed>>

\* The provider reads its key set for the answer.
AnswerKeys ==
  /\ inFlight.state = "asked"
  /\ inFlight' = [inFlight EXCEPT !.state = "answered", !.keys = published]
  /\ UNCHANGED <<providerVars, keys, sinceFetch, sinceAttempt, lastFailed, lookup>>

\* Everyone who waits looks again in what the fetch left.
Settled(set) ==
  [c \in Call |-> IF lookup[c].state = "waiting" THEN Verdict(set, lookup[c].kid) ELSE lookup[c]]

\* doFetch replaces the keys by the answer's.
FetchSucceeds ==
  /\ inFlight.state = "answered"
  /\ keys' = inFlight.keys /\ sinceFetch' = 0 /\ lastFailed' = FALSE
  /\ lookup' = Settled(keys')
  /\ inFlight' = NoFetch
  /\ UNCHANGED <<providerVars, sinceAttempt>>

\* Faulty: whoever waits is not told of the failure.
FetchFailsSilently ==
  /\ inFlight.state # "none"
  /\ inFlight' = NoFetch /\ lastFailed' = TRUE
  /\ UNCHANGED <<providerVars, keys, sinceFetch, sinceAttempt, lookup>>

\* No answer within the timeout, or none to use: the keys stay, whatever their age.
FetchFails ==
  /\ inFlight.state # "none"
  /\ lookup' = Settled(keys)
  /\ inFlight' = NoFetch /\ lastFailed' = TRUE
  /\ UNCHANGED <<providerVars, keys, sinceFetch, sinceAttempt>>

FetchTimesOut == inFlight.age = Timeout /\ FetchFails

\* The server starts again.
RestartCache ==
  /\ keys' = {} /\ sinceFetch' = Ttl /\ sinceAttempt' = Cooldown /\ lastFailed' = FALSE
  /\ inFlight' = NoFetch
  /\ lookup' = [c \in Call |-> NoLookup]
  /\ UNCHANGED providerVars

\* verifyAccessToken is done with the key.
Forget(c) ==
  /\ lookup[c].state \in {"found", "refused"}
  /\ lookup' = [lookup EXCEPT ![c] = NoLookup]
  /\ UNCHANGED <<providerVars, cacheVars>>

\* A fetch is aborted when its time is up.
KeyTick ==
  /\ inFlight.age < Timeout
  /\ inFlight' = IF inFlight.state = "none" THEN inFlight ELSE [inFlight EXCEPT !.age = @ + 1]
  /\ sinceFetch' = UpTo(Ttl, sinceFetch + 1) /\ sinceAttempt' = UpTo(Cooldown, sinceAttempt + 1)
  /\ publishedFor' = [k \in Kid |-> IF k \in published THEN UpTo(Cooldown, publishedFor[k] + 1) ELSE 0]
  /\ retiredFor' = [k \in Kid |-> IF k \in published \/ k > Active THEN 0
                                  ELSE UpTo(Ttl + Timeout, retiredFor[k] + 1)]
  /\ UNCHANGED <<published, keys, lastFailed, lookup>>

KeyInit ==
  /\ published = {1}
  /\ publishedFor = [k \in Kid |-> 0] /\ retiredFor = [k \in Kid |-> 0]
  /\ keys = {} /\ sinceFetch = Ttl /\ sinceAttempt = Cooldown /\ lastFailed = FALSE
  /\ inFlight = NoFetch
  /\ lookup = [c \in Call |-> NoLookup]

-------------------------------------------------------------------------------
(* Properties *)

KeyTypeOK ==
  /\ published \subseteq Kid /\ published # {}
  /\ publishedFor \in [Kid -> 0..Cooldown] /\ retiredFor \in [Kid -> 0..(Ttl + Timeout)]
  /\ keys \subseteq Kid /\ sinceFetch \in 0..Ttl /\ sinceAttempt \in 0..Cooldown
  /\ lastFailed \in BOOLEAN
  /\ inFlight \in [state : {"none", "asked", "answered"}, age : 0..Timeout, keys : SUBSET Kid]
  /\ lookup \in [Call -> [state : {"none", "waiting", "found", "refused"}, kid : 0..MaxKid]]

\* A key the provider retired longer ago than a fetch and its time to live is still
\* trusted, and one it has published for longer than the cooldown is refused, only if the
\* last fetch failed or one is under way (getKey and doFetch, jwks-cache.ts:59-97, 126-131).
VerdictIsExcused ==
  [][\A c \in Call : lookup'[c] # lookup[c] =>
       \/ lastFailed' \/ inFlight'.state # "none"
       \/ /\ lookup'[c].state = "found" => retiredFor[lookup'[c].kid] < Ttl + Timeout
          /\ lookup'[c].state = "refused" => publishedFor[lookup'[c].kid] < Cooldown]_keyVars
===============================================================================
