------------------------------- MODULE RateLimiter -------------------------------
(***************************************************************************)
(* The rate limit of one tenant: RateLimitService.check (packages/         *)
(* rate-limit/src/service.ts) consumes from the caller's bucket and then   *)
(* from the tenant's, each through TokenBucketLimiter.evaluate             *)
(* (limiter.ts), which runs token-bucket.lua in Redis by its digest or,    *)
(* when Redis has forgotten it, by its text.                               *)
(*                                                                         *)
(* The script is one atomic step of Redis; between the awaits of one check *)
(* others run, time passes, keys expire, the script cache is flushed, a    *)
(* reply is lost and its command sent again, and Redis' clock is set back. *)
(* Tokens are counted in parts of 1/interval, so that the continuous       *)
(* refill stays exact.                                                     *)
(***************************************************************************)
EXTENDS Integers, FiniteSets

CONSTANTS Caller,       \* concurrent checks
          User,         \* (user, tool) pairs of the tenant, a bucket each
          Tenant,       \* the tenant's own bucket
          UserLimit,    \* BucketConfig of the users' buckets
          TenantLimit,  \* BucketConfig of the tenant's bucket
          MinTtl,       \* 60 000 ms in the code
          MaxResends,   \* how often a command is sent again (maxRetriesPerRequest)
          MaxTime,      \* bound: the last instant
          MaxSkew       \* bound: how far the clock is ever set back

BucketConfig == [capacity : Nat \ {0}, refillTokens : Nat, refillIntervalMs : Nat]

ASSUME LimitAssumption ==
  /\ Tenant \notin User
  /\ UserLimit \in BucketConfig /\ TenantLimit \in BucketConfig
  /\ MinTtl \in Nat \ {0} /\ MaxResends \in Nat /\ MaxTime \in Nat /\ MaxSkew \in Nat

VARIABLES time,       \* milliseconds that have really passed
          skew,       \* what Redis' clock lags behind it
          bucket,     \* bucket[k]: the hash at key k, and when it expires
          cached,     \* Redis has the script
          sha,        \* the limiter knows its digest
          loading,    \* a SCRIPT LOAD of the limiter is under way
          call,       \* call[c]: the await of check c is at, and what it was charged
          allowance   \* ghost: what an ideal bucket that never forgets has left

vars == <<time, skew, bucket, cached, sha, loading, call, allowance>>

clockVars == <<time, skew>>

scriptVars == <<cached, sha, loading>>

Key == User \cup {Tenant}

Limit(k) == IF k = Tenant THEN TenantLimit ELSE UserLimit

Refills(l) == l.refillTokens > 0 /\ l.refillIntervalMs > 0

\* One token, and a full bucket, in parts.
Token(l) == IF Refills(l) THEN l.refillIntervalMs ELSE 1

Full(l) == l.capacity * Token(l)

AtLeast(a, b) == IF a < b THEN b ELSE a

AtMost(a, b) == IF a > b THEN b ELSE a

CeilDiv(a, b) == (a + b - 1) \div b

\* No check under way; one that was refused, or failed, leaves nothing behind.
Idle == [at |-> "idle"]

Init ==
  /\ time = MaxSkew /\ skew = 0
  /\ bucket = [k \in Key |-> [exists |-> FALSE, tokens |-> 0, ts |-> 0, expires |-> 0]]
  /\ cached = TRUE /\ sha = TRUE /\ loading = FALSE
  /\ call = [c \in Caller |-> Idle]
  /\ allowance = [k \in Key |-> Full(Limit(k))]

Now == time - skew

-------------------------------------------------------------------------------
(* token-bucket.lua *)

\* Faulty: one expiry for every bucket, however slowly it refills.
TtlFixed(l) == MinTtl

\* Twice the time the bucket takes to refill, and never below the floor (limiter.ts).
Ttl(l) ==
  AtLeast(2 * CeilDiv(l.capacity * l.refillIntervalMs, AtLeast(l.refillTokens, 1)), MinTtl)

Alive(k, now) == bucket[k].exists /\ now <= bucket[k].expires

\* Faulty: a clock that went backwards takes tokens away.
ElapsedUnfloored(k, now) == IF Alive(k, now) THEN now - bucket[k].ts ELSE 0

Elapsed(k, now) == IF Alive(k, now) THEN AtLeast(now - bucket[k].ts, 0) ELSE 0

\* What the bucket holds when the script decides at now: a new one starts full.
Available(k, now) ==
  LET l == Limit(k)
      tokens == IF Alive(k, now) THEN bucket[k].tokens ELSE Full(l)
  IN AtMost(IF Refills(l) THEN tokens + Elapsed(k, now) * l.refillTokens ELSE tokens,
            Full(l))

Admits(k, now) == Available(k, now) >= Token(Limit(k))

\* Faulty: rounded down, the caller is told to come back a moment too early.
RetryAfterRoundedDown(k, now) ==
  LET l == Limit(k) IN
  IF Refills(l) THEN (Token(l) - Available(k, now)) \div l.refillTokens ELSE Ttl(l)

\* retry_after_ms of a refusal at now.
RetryAfter(k, now) ==
  LET l == Limit(k) IN
  IF Refills(l) THEN CeilDiv(Token(l) - Available(k, now), l.refillTokens) ELSE Ttl(l)

\* The script charges one token or refuses; either way it writes the bucket back.
Run(k) ==
  LET charge == IF Admits(k, Now) THEN Token(Limit(k)) ELSE 0
  IN /\ bucket' = [bucket EXCEPT ![k] = [exists |-> TRUE,
                                         tokens |-> Available(k, Now) - charge,
                                         ts |-> Now,
                                         expires |-> Now + Ttl(Limit(k))]]
     /\ allowance' = [allowance EXCEPT ![k] = @ - charge]

-------------------------------------------------------------------------------
(* RateLimitService.check and TokenBucketLimiter.evaluate, await by await *)

Running(c) == call[c].at \in {"load", "evalsha", "eval"}

\* consume: the digest is at hand, or it has to be loaded first.  The ghosts: the
\* buckets charged for this check so far, and how often the present one was.
Consume(u, k, charged) ==
  [at |-> IF sha THEN "evalsha" ELSE "load", user |-> u, key |-> k,
   resent |-> 0, charges |-> 0, charged |-> charged]

Loads == loading' = (loading \/ ~sha)

Start(c, u) ==
  /\ call[c].at \in {"idle", "admitted"}
  /\ call' = [call EXCEPT ![c] = Consume(u, u, {})]
  /\ Loads
  /\ UNCHANGED <<clockVars, bucket, cached, sha, allowance>>

\* The buckets charged for check c once the script has run for it.
Charged(c) ==
  call[c].charged \cup (IF Admits(call[c].key, Now) THEN {call[c].key} ELSE {})

Charges(c) == call[c].charges + (IF Admits(call[c].key, Now) THEN 1 ELSE 0)

Passes(c) == [at |-> "admitted", user |-> call[c].user, charged |-> Charged(c)]

\* Faulty: the tenant's bucket alone decides, a refused user's call goes on to it.
VerdictGoesOn(c) ==
  LET k == call[c].key
      u == call[c].user
  IN call' = [call EXCEPT ![c] =
       IF k = u THEN Consume(u, Tenant, Charged(c))
       ELSE IF Admits(k, Now) THEN Passes(c) ELSE Idle]

\* What check does with a verdict: the user's bucket admitted, on to the tenant's;
\* anything else is the outcome.
Verdict(c) ==
  LET k == call[c].key
      u == call[c].user
  IN call' = [call EXCEPT ![c] =
       IF ~Admits(k, Now) THEN Idle
       ELSE IF k = u THEN Consume(u, Tenant, Charged(c)) ELSE Passes(c)]

\* Faulty: the replay of evaluate is not confined to NOSCRIPT.
EvalShaReplays(c) ==
  /\ call[c].at = "evalsha" /\ cached
  /\ Run(call[c].key)
  /\ call' = [call EXCEPT ![c].at = "eval",
                              ![c].charges = Charges(c), ![c].charged = Charged(c)]
  /\ UNCHANGED <<clockVars, scriptVars>>

\* EVALSHA, and the script is there.
EvalSha(c) ==
  /\ call[c].at = "evalsha" /\ cached
  /\ Run(call[c].key)
  /\ Verdict(c)
  /\ loading' = (loading \/ (Admits(call[c].key, Now) /\ call[c].key # Tenant /\ ~sha))
  /\ UNCHANGED <<clockVars, cached, sha>>

\* Faulty: the script is loaded again and EVALSHA repeated.
NoScriptLoads(c) ==
  /\ call[c].at = "evalsha" /\ ~cached
  /\ sha' = FALSE /\ loading' = TRUE
  /\ call' = [call EXCEPT ![c].at = "load"]
  /\ UNCHANGED <<clockVars, bucket, cached, allowance>>

\* EVALSHA is answered NOSCRIPT: the same arguments go out again as EVAL.
NoScript(c) ==
  /\ call[c].at = "evalsha" /\ ~cached
  /\ sha' = FALSE
  /\ call' = [call EXCEPT ![c].at = "eval"]
  /\ UNCHANGED <<clockVars, bucket, cached, loading, allowance>>

\* EVAL runs the script and leaves it cached; the limiter loads it again on the side.
Eval(c) ==
  /\ call[c].at = "eval"
  /\ Run(call[c].key)
  /\ Verdict(c)
  /\ cached' = TRUE /\ loading' = TRUE
  /\ UNCHANGED <<clockVars, sha>>

\* load: every check that waits for the digest goes on with it.
Load ==
  /\ loading
  /\ loading' = FALSE /\ sha' = TRUE /\ cached' = TRUE
  /\ call' = [c \in Caller |->
                IF call[c].at = "load" THEN [call[c] EXCEPT !.at = "evalsha"] ELSE call[c]]
  /\ UNCHANGED <<clockVars, bucket, allowance>>

\* load rejects: so does every check that waits for it.
LoadFails ==
  /\ loading
  /\ loading' = FALSE
  /\ call' = [c \in Caller |->
                IF call[c].at = "load" THEN Idle ELSE call[c]]
  /\ UNCHANGED <<clockVars, bucket, cached, sha, allowance>>

\* Faulty: a limiter that cannot reach Redis lets the call pass.
ErrorAdmits(c) ==
  /\ call[c].at \in {"evalsha", "eval"}
  /\ call' = [call EXCEPT ![c] = [at |-> "admitted", user |-> call[c].user,
                                  charged |-> call[c].charged]]
  /\ UNCHANGED <<clockVars, bucket, scriptVars, allowance>>

\* The command fails, and so does the check.
Error(c) ==
  /\ call[c].at \in {"evalsha", "eval"}
  /\ call' = [call EXCEPT ![c] = Idle]
  /\ UNCHANGED <<clockVars, bucket, scriptVars, allowance>>

\* The script runs but its reply is lost with the connection; the Redis client sends
\* the command again on the next one.
LostReply(c) ==
  /\ call[c].at = "eval" \/ (call[c].at = "evalsha" /\ cached)
  /\ call[c].resent < MaxResends
  /\ Run(call[c].key)
  /\ call' = [call EXCEPT ![c].resent = @ + 1,
                              ![c].charges = Charges(c), ![c].charged = Charged(c)]
  /\ cached' = TRUE
  /\ UNCHANGED <<clockVars, sha, loading>>

-------------------------------------------------------------------------------
(* Redis and its clock *)

\* SCRIPT FLUSH.
ScriptFlush ==
  /\ cached
  /\ cached' = FALSE
  /\ UNCHANGED <<clockVars, bucket, sha, loading, call, allowance>>

Refilled(k) ==
  LET l == Limit(k) IN AtMost(allowance[k] + (IF Refills(l) THEN l.refillTokens ELSE 0),
                              Full(l))

Tick ==
  /\ time < MaxTime
  /\ time' = time + 1
  /\ allowance' = [k \in Key |-> Refilled(k)]
  /\ UNCHANGED <<skew, bucket, scriptVars, call>>

\* The clock is set back: a correction, or a failover to a replica that lags.
ClockBack ==
  /\ skew < MaxSkew
  /\ skew' = skew + 1
  /\ UNCHANGED <<time, bucket, scriptVars, call, allowance>>

\* It is set right again.
ClockForward ==
  /\ skew > 0
  /\ skew' = 0
  /\ UNCHANGED <<time, bucket, scriptVars, call, allowance>>

Step(c) == EvalSha(c) \/ NoScript(c) \/ Eval(c)

Fault(c) == Error(c) \/ LostReply(c)

Next ==
  \/ \E c \in Caller : (\E u \in User : Start(c, u)) \/ Step(c) \/ Fault(c)
  \/ Load \/ LoadFails \/ ScriptFlush \/ Tick \/ ClockBack

Spec == Init /\ [][Next]_vars

\* Redis answers, or the client gives up on it.
FairSpec == Spec /\ WF_vars(Load \/ LoadFails) /\ \A c \in Caller : WF_vars(Step(c))

\* The clock may also be put right again.
JumpSpec == Init /\ [][Next \/ ClockForward]_vars

-------------------------------------------------------------------------------

\* A refilling bucket never admits more than its capacity plus the refill of the time
\* that really passed: not when its key expires, not when the clock is set back; and no
\* clock takes from a bucket what it held, or fills it past its capacity
\* (token-bucket.lua:52-55, 86 "must not mint tokens", limiter.ts ttlMs).
WithinAllowance ==
  \A k \in Key : /\ Refills(Limit(k)) => allowance[k] >= 0
                 /\ bucket[k].tokens \in 0..Full(Limit(k))

\* A caller refused now is admitted if it comes back after retry_after_ms and nobody
\* else charged the bucket, and still refused a millisecond sooner
\* (docs/RATE_LIMITING.md: computed, not guessed).
RetryIsExact ==
  \A k \in Key :
    (Refills(Limit(k)) /\ ~Admits(k, Now) /\ bucket[k].ts <= Now) =>
       LET r == RetryAfter(k, Now)
       IN r > 0 /\ Admits(k, Now + r) /\ ~Admits(k, Now + r - 1)

\* A call passes only once both its buckets were charged for it, whatever fails in
\* Redis, and the tenant's bucket is charged only for calls the caller's own bucket
\* admitted (service.ts).
AdmittedIsCharged ==
  \A c \in Caller : call[c].at # "idle" =>
     /\ Tenant \in call[c].charged => call[c].user \in call[c].charged
     /\ call[c].at = "admitted" => Tenant \in call[c].charged

\* While a check waits for a verdict its bucket has been charged only by commands the
\* client sent again: replaying the script by its text after NOSCRIPT never charges a
\* second time, so that a check costs one token of a bucket and one per lost reply
\* (limiter.ts evaluate).
ReplayChargesOnce ==
  \A c \in Caller : Running(c) => call[c].charges <= call[c].resent

\* Every check comes to an end however often the script cache is flushed
\* ("a limiter never fails a request over cache state", limiter.ts).
EveryCheckAnswers == \A c \in Caller : Running(c) ~> ~Running(c)

\* What token-bucket.lua and docs/RATE_LIMITING.md say of the clock: no correction of
\* it mints tokens.
ClockMintsNothing == WithinAllowance
===============================================================================
