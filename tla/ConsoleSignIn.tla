------------------------------ MODULE ConsoleSignIn ------------------------------
(***************************************************************************)
(* Signing in to the console (apps/gateway/src/routes/bff.ts, session.ts): *)
(* the gateway starts a flow, keeps its state in Redis and in a cookie of  *)
(* the browser, and when the browser comes back with a code it takes the   *)
(* state, exchanges the code at the identity provider, makes a session in  *)
(* Redis and hands the browser a cookie for it.                            *)
(*                                                                         *)
(* A callback runs from an await to the next.  The address a browser is    *)
(* sent back to may be opened by any browser, and more than once: a reload *)
(* does it, a restored tab, a copied link.                                 *)
(***************************************************************************)
EXTENDS IdentityProvider

CONSTANTS Browser,
          MaxFlow,      \* bound: flows ever begun
          MaxCallback,  \* bound: callbacks ever accepted; each is a session at most
          None

ASSUME SignInAssumption == Challenge = 1..MaxFlow /\ None \notin Nat

VARIABLES owner,     \* owner[f]: the browser that began flow f and was sent to the provider
          logins,    \* Redis: flows whose login state is there
          callback,  \* callback[k]: the k-th accepted callback
          sessions,  \* Redis: sessions by the callback that made them
          cookie     \* cookie[b]: the browser's login and session cookies

consoleVars == <<owner, logins, callback, sessions, cookie>>
vars == <<idpVars, consoleVars>>

NoSession == [id \in {} |-> None]

Live(k) == callback[k].at \notin {"in", "out"}

GoTo(k, stage) == callback' = [callback EXCEPT ![k].at = stage]

\* A callback ends with an error and the browser keeps its cookies.
GiveUp(k) ==
  /\ Live(k)
  /\ GoTo(k, "out")
  /\ UNCHANGED <<idpVars, owner, logins, sessions, cookie>>

-------------------------------------------------------------------------------
(* The browser *)

\* GET /auth/login: the login state is stored and the browser sent to the provider with
\* its cookie.
Login(b) ==
  /\ Len(owner) < MaxFlow
  /\ LET f == Len(owner) + 1 IN
     /\ logins' = logins \cup {f}
     /\ owner' = Append(owner, b) /\ cookie' = [cookie EXCEPT ![b].login = f]
  /\ UNCHANGED <<idpVars, callback, sessions>>

\* The user of the browser signs in at the provider, again and as somebody else if they
\* like.
GiveCredentials(b) ==
  /\ \E u \in User, f \in DOMAIN owner : owner[f] = b /\ Authorize(u, f)
  /\ UNCHANGED consoleVars

\* Faulty: the state need only be known to the gateway.
ComesFromFlowAnyBrowser(b, f) == TRUE

ComesFromFlow(b, f) == cookie[b].login = f

\* GET /auth/callback in some browser with the code and state of a redirect; without the
\* cookie of that state it is refused and nothing changes.
Open(b, code) ==
  /\ Len(callback) < MaxCallback
  /\ ComesFromFlow(b, grant[code].challenge)
  /\ callback' = Append(callback, [at |-> "get", browser |-> b, code |-> code,
                                   flow |-> grant[code].challenge, token |-> NoToken])
  /\ UNCHANGED <<idpVars, owner, logins, sessions, cookie>>

\* POST /auth/logout: the record goes, and the cookie with the answer.
Logout(b) ==
  /\ cookie[b].session # None
  /\ sessions' = [k \in DOMAIN sessions \ {cookie[b].session} |-> sessions[k]]
  /\ cookie' = [cookie EXCEPT ![b].session = None]
  /\ UNCHANGED <<idpVars, owner, logins, callback>>

-------------------------------------------------------------------------------
(* A callback *)

\* takeLoginState reads the state ...
GetLogin(k) ==
  /\ callback[k].at = "get"
  /\ GoTo(k, IF callback[k].flow \in logins THEN "delFound" ELSE "delMissing")
  /\ UNCHANGED <<idpVars, owner, logins, sessions, cookie>>

\* ... and deletes it, found or not.
DelLogin(k) ==
  /\ callback[k].at \in {"delFound", "delMissing"}
  /\ logins' = logins \ {callback[k].flow}
  /\ GoTo(k, IF callback[k].at = "delFound" THEN "exchange" ELSE "out")
  /\ UNCHANGED <<idpVars, owner, sessions, cookie>>

\* The provider redeems the code; its answer may be lost.
ExchangeCode(k) ==
  LET code == callback[k].code IN
  /\ callback[k].at = "exchange"
  /\ \/ /\ Redeemable(code, callback[k].flow)
        /\ callback' = [callback EXCEPT ![k].at = "create", ![k].token = TokenFor(code)]
     \/ GoTo(k, "out")
  /\ Redeem(code, callback[k].flow)
  /\ UNCHANGED <<owner, logins, sessions, cookie>>

\* The token is verified and the session stored; the record may be there although the
\* answer of Redis is lost.  A key that is not at hand is the error of GiveUp.
CreateSession(k) ==
  /\ callback[k].at = "create"
  /\ sessions' = [id \in DOMAIN sessions \cup {k} |->
                    IF id = k THEN [user |-> callback[k].token.sub, scopes |-> callback[k].token.scopes]
                    ELSE sessions[id]]
  /\ \/ GoTo(k, "respond") \/ GoTo(k, "out")
  /\ UNCHANGED <<idpVars, owner, logins, cookie>>

\* The browser is sent to the console with its session cookie and without a login cookie,
\* be that of a flow begun meanwhile.
Respond(k) ==
  /\ callback[k].at = "respond"
  /\ GoTo(k, "in")
  /\ \/ cookie' = [cookie EXCEPT ![callback[k].browser] = [login |-> None, session |-> k]]
     \/ UNCHANGED cookie
  /\ UNCHANGED <<idpVars, owner, logins, sessions>>

-------------------------------------------------------------------------------
(* Time and restarts *)

\* Ten minutes pass over a login state, eight hours over a session.
RedisExpires ==
  /\ \/ /\ \E f \in logins : logins' = logins \ {f}
        /\ UNCHANGED sessions
     \/ /\ \E k \in DOMAIN sessions : sessions' = [id \in DOMAIN sessions \ {k} |-> sessions[id]]
        /\ UNCHANGED logins
  /\ UNCHANGED <<idpVars, owner, callback, cookie>>

\* The gateway ends and starts again: its callbacks are cut off, Redis stays.
RestartGateway ==
  /\ \E k \in DOMAIN callback : Live(k)
  /\ callback' = [k \in DOMAIN callback |->
                    IF Live(k) THEN [callback[k] EXCEPT !.at = "out"] ELSE callback[k]]
  /\ UNCHANGED <<idpVars, owner, logins, sessions, cookie>>

-------------------------------------------------------------------------------
Init ==
  /\ IdpInit
  /\ owner = <<>> /\ logins = {} /\ callback = <<>>
  /\ sessions = NoSession
  /\ cookie = [b \in Browser |-> [login |-> None, session |-> None]]

CallbackStep(k) ==
  GetLogin(k) \/ DelLogin(k) \/ ExchangeCode(k) \/ CreateSession(k) \/ Respond(k)

IdpStep == (Sweep \/ RestartIdp \/ \E c \in codes : ExpireCode(c)) /\ UNCHANGED consoleVars

Next ==
  \/ \E b \in Browser : \/ Login(b) \/ GiveCredentials(b) \/ Logout(b)
                        \/ \E code \in Issued : Open(b, code)
  \/ \E k \in DOMAIN callback : CallbackStep(k) \/ GiveUp(k)
  \/ IdpStep \/ RedisExpires \/ RestartGateway

Spec == Init /\ [][Next]_vars

\* Redis and the provider answer or are given up (5 s, oauth-client.ts:230-240), time
\* passes, and the provider's timer fires.  Nobody need sign in, or come back.
FairSpec ==
  /\ Spec
  /\ \A k \in 1..MaxCallback : WF_vars(k \in DOMAIN callback /\ CallbackStep(k))
  /\ \A c \in 1..MaxCode : WF_vars(ExpireCode(c) /\ UNCHANGED consoleVars)
  /\ WF_vars(Sweep /\ UNCHANGED consoleVars)
  /\ WF_vars(RedisExpires)

-------------------------------------------------------------------------------
(* Properties *)

\* A code buys one access token, whatever is opened twice, answered late or tried again
\* (handleAuthorizationCode, server.ts:273-277: "consume before validating").
CodeIsSpentOnce ==
  \A j, k \in DOMAIN callback :
    /\ callback[j].token # NoToken /\ j # k /\ callback[j].code = callback[k].code
         => callback[k].token = NoToken
    /\ callback[k].token # NoToken => callback[k].code \notin codes

\* SessionStore.get
SessionOf(b) ==
  IF cookie[b].session \in DOMAIN sessions THEN sessions[cookie[b].session] ELSE [user |-> None, scopes |-> {}]

\* authenticate: who a request with the browser's cookie is taken for.
ActsAs(b) == SessionOf(b).user

\* A browser acts as a user who gave their credentials in that very browser, in the flow
\* the session comes from, and with no scope the user's role lacks, whichever browser
\* opened which redirect (the login cookie, bff.ts:82-86).
SessionIsItsBrowsers ==
  \A b \in Browser : ActsAs(b) # None =>
    LET k == cookie[b].session  g == grant[callback[k].code] IN
    /\ callback[k].browser = b /\ owner[g.challenge] = b
    /\ ActsAs(b) = g.user
    /\ SessionOf(b).scopes \subseteq EntitlementsFor(ScopeSets, UserRole[g.user])

\* Every callback ends, and every code is forgotten, used or not, as is the login state
\* of every flow (the sweeper, server.ts:579-585, and the expiry of session.ts:72).
SignInsSettle ==
  /\ \A k \in 1..MaxCallback : k \in DOMAIN callback ~> (k \in DOMAIN callback /\ ~Live(k))
  /\ \A c \in 1..MaxCode : c \in codes ~> c \notin codes
  /\ \A f \in 1..MaxFlow : f \in logins ~> f \notin logins
===============================================================================
