-------------------------- MODULE ConsoleSignInProofs --------------------------
(***************************************************************************)
(* What signing in keeps, for any browsers, users, flows and callbacks.    *)
(* SignInInv follows a code from its grant to the session: a code has the  *)
(* flow and the user of its grant, a callback the browser of its flow, a   *)
(* session the user of its callback's code, and a spent code is forgotten. *)
(***************************************************************************)
EXTENDS ConsoleSignIn, SequenceTheorems, TLAPS

Entitlements == UNION {EntitlementsFor(ScopeSets, UserRole[u]) : u \in User}

Grant == [user : User, challenge : Nat, scopes : SUBSET Entitlements]

AccessToken ==
  [kid : {"active"}, sub : User, aud : {"console"}, scopes : SUBSET Entitlements, age : {0}]

Await == {"get", "delFound", "delMissing", "exchange", "create", "respond", "in", "out"}

Callback ==
  [at : Await, browser : Browser, code : Nat, flow : Nat, token : AccessToken \cup {NoToken}]

Typed ==
  /\ owner \in Seq(Browser) /\ grant \in Seq(Grant) /\ callback \in Seq(Callback)
  /\ cookie \in [Browser -> [login : Nat \cup {None}, session : Nat \cup {None}]]

\* A code belongs to a flow, and to its user's entitlements.
Granted ==
  \A c \in DOMAIN grant :
    /\ grant[c].challenge \in DOMAIN owner
    /\ grant[c].scopes \subseteq EntitlementsFor(ScopeSets, UserRole[grant[c].user])

\* A callback is in the browser that began the flow of its code.
Followed ==
  \A k \in DOMAIN callback :
    /\ callback[k].code \in DOMAIN grant
    /\ callback[k].flow = grant[callback[k].code].challenge
    /\ callback[k].browser = owner[callback[k].flow]

\* A token was bought with its callback's code, by nobody else, and the code is gone.
Spent ==
  \A k \in DOMAIN callback :
    /\ callback[k].at \in {"create", "respond", "in"} => callback[k].token = TokenFor(callback[k].code)
    /\ callback[k].token # NoToken =>
         /\ callback[k].code \notin codes
         /\ \A j \in DOMAIN callback \ {k} :
              callback[j].code = callback[k].code => callback[j].token = NoToken

\* A cookie is of a flow, or of a callback, of its own browser.
Baked ==
  \A b \in Browser :
    /\ cookie[b].login # None => cookie[b].login \in DOMAIN owner /\ owner[cookie[b].login] = b
    /\ cookie[b].session # None =>
         cookie[b].session \in DOMAIN callback /\ callback[cookie[b].session].browser = b

\* A session is of the user its callback's code was granted to.
Recorded ==
  \A k \in DOMAIN sessions :
    /\ k \in DOMAIN callback
    /\ sessions[k].user = grant[callback[k].code].user
    /\ sessions[k].scopes = grant[callback[k].code].scopes

SignInInv == Typed /\ Granted /\ Followed /\ Spent /\ Baked /\ Recorded

-------------------------------------------------------------------------------
\* Nobody has signed in yet.
LEMMA InitSignInInv == Init => SignInInv
  BY DEF Init, IdpInit, NoSession, SignInInv, Typed, Granted, Followed, Spent, Baked, Recorded

\* A callback that moves on keeps what it carries.
LEMMA GoToMoves ==
  ASSUME Typed, NEW k \in DOMAIN callback, NEW stage \in Await, GoTo(k, stage)
  PROVE  /\ callback' \in Seq(Callback) /\ DOMAIN callback' = DOMAIN callback
         /\ \A j \in DOMAIN callback :
              /\ callback'[j].code = callback[j].code /\ callback'[j].flow = callback[j].flow
              /\ callback'[j].browser = callback[j].browser /\ callback'[j].token = callback[j].token
              /\ callback'[j].at = IF j = k THEN stage ELSE callback[j].at
<1> DEFINE moved == [callback[k] EXCEPT !.at = stage]
<1>1. callback \in Seq(Callback) /\ k \in 1..Len(callback) /\ callback[k] \in Callback
  BY ElementOfSeq, LenProperties DEF Typed
<1>2. moved \in Callback
  BY <1>1 DEF Callback
<1>3. callback' = [callback EXCEPT ![k] = moved]
  BY DEF GoTo
<1>4. /\ moved.code = callback[k].code /\ moved.flow = callback[k].flow /\ moved.at = stage
      /\ moved.browser = callback[k].browser /\ moved.token = callback[k].token
  BY <1>1 DEF Callback
<1> HIDE DEF moved
<1>5. callback' \in Seq(Callback)
  BY <1>1, <1>2, <1>3, ExceptSeq
<1> QED
  BY <1>3, <1>4, <1>5

\* A step that only moves a callback from one await to another, to one that asks no more
\* of its token.
LEMMA MovingKeepsSignInInv ==
  ASSUME SignInInv, NEW k \in DOMAIN callback, NEW stage \in Await, GoTo(k, stage),
         stage \in {"create", "respond", "in"} => callback[k].at \in {"create", "respond", "in"},
         codes' \subseteq codes, UNCHANGED <<grant, owner, sessions>>,
         \/ UNCHANGED cookie
         \/ cookie' = [cookie EXCEPT ![callback[k].browser] = [login |-> None, session |-> k]]
  PROVE  SignInInv'
<1>1. /\ callback' \in Seq(Callback) /\ DOMAIN callback' = DOMAIN callback
      /\ \A j \in DOMAIN callback :
           /\ callback'[j].code = callback[j].code /\ callback'[j].flow = callback[j].flow
           /\ callback'[j].browser = callback[j].browser /\ callback'[j].token = callback[j].token
           /\ callback'[j].at = IF j = k THEN stage ELSE callback[j].at
  BY GoToMoves DEF SignInInv
<1>2. k \in Nat /\ callback[k].browser \in Browser
  <2>1. callback \in Seq(Callback) /\ k \in 1..Len(callback)
    BY LenProperties DEF SignInInv, Typed
  <2>2. callback[k] \in Callback
    BY <2>1, ElementOfSeq
  <2> QED
    BY <2>1, <2>2 DEF Callback
<1>3. Typed'
  BY <1>1, <1>2 DEF SignInInv, Typed
<1>4. Granted' /\ Followed'
  BY <1>1 DEF SignInInv, Granted, Followed
<1>5. Spent'
  BY <1>1 DEF SignInInv, Spent, TokenFor
<1>6. Baked'
  <2>1. \A b \in Browser :
          \/ cookie'[b] = cookie[b]
          \/ b = callback[k].browser /\ cookie'[b].login = None /\ cookie'[b].session = k
    BY <1>2 DEF SignInInv, Typed
  <2> QED
    BY <1>1, <2>1 DEF SignInInv, Baked
<1>7. Recorded'
  BY <1>1 DEF SignInInv, Recorded
<1> QED
  BY <1>3, <1>4, <1>5, <1>6, <1>7 DEF SignInInv

\* A flow begins in its browser.
LEMMA LoginKeepsSignInInv ==
  ASSUME SignInInv, NEW b \in Browser, Login(b)
  PROVE  SignInInv'
<1> DEFINE f == Len(owner) + 1
<1>1. /\ owner' \in Seq(Browser) /\ DOMAIN owner' = DOMAIN owner \cup {f} /\ owner'[f] = b
      /\ \A g \in DOMAIN owner : owner'[g] = owner[g]
      /\ cookie' = [cookie EXCEPT ![b].login = f] /\ f \in Nat
  BY DEF SignInInv, Typed, Login
<1>2. grant' = grant /\ callback' = callback /\ sessions' = sessions /\ codes' = codes
  BY DEF Login, idpVars
<1> HIDE DEF f
<1>3. Typed'
  BY <1>1, <1>2 DEF SignInInv, Typed
<1>4. Granted' /\ Followed'
  BY <1>1, <1>2 DEF SignInInv, Granted, Followed
<1>5. Spent' /\ Recorded'
  BY <1>2 DEF SignInInv, Spent, Recorded, TokenFor
<1>6. Baked'
  BY <1>1, <1>2 DEF SignInInv, Typed, Baked
<1> QED
  BY <1>3, <1>4, <1>5, <1>6 DEF SignInInv

\* A code is granted to a user of the directory, for a flow.
LEMMA GiveCredentialsKeepsSignInInv ==
  ASSUME SignInInv, NEW b \in Browser, GiveCredentials(b)
  PROVE  SignInInv'
<1>1. PICK u \in User, f \in DOMAIN owner : Authorize(u, f)
  BY DEF GiveCredentials
<1> DEFINE n == Len(grant) + 1
           g == [user |-> u, challenge |-> f,
                 scopes |-> NarrowScopes(Requested, EntitlementsFor(ScopeSets, UserRole[u]), ClientAllowed, {})]
<1>2. g \in Grant /\ g.challenge = f /\ g.user = u
      /\ g.scopes \subseteq EntitlementsFor(ScopeSets, UserRole[u])
  BY DEF NarrowScopes, Grant, Entitlements, SignInInv, Typed
<1>3. grant' = Append(grant, g) /\ codes' = codes \cup {n}
  BY <1>1 DEF Authorize
<1>4. owner' = owner /\ callback' = callback /\ sessions' = sessions /\ cookie' = cookie
  BY DEF GiveCredentials, consoleVars
<1> HIDE DEF g
<1>5. /\ grant' \in Seq(Grant) /\ DOMAIN grant' = DOMAIN grant \cup {n} /\ grant'[n] = g
      /\ n \notin DOMAIN grant /\ \A c \in DOMAIN grant : grant'[c] = grant[c]
  BY <1>2, <1>3 DEF SignInInv, Typed
<1> HIDE DEF n
<1>6. Typed'
  BY <1>4, <1>5 DEF SignInInv, Typed
<1>7. Granted'
  BY <1>2, <1>4, <1>5 DEF SignInInv, Granted
<1>8. Followed' /\ Recorded'
  BY <1>4, <1>5 DEF SignInInv, Followed, Recorded
<1>9. Spent'
  BY <1>3, <1>4, <1>5 DEF SignInInv, Followed, Spent, TokenFor
<1>10. Baked'
  BY <1>4 DEF SignInInv, Baked
<1> QED
  BY <1>6, <1>7, <1>8, <1>9, <1>10 DEF SignInInv

\* Only the browser with the flow's cookie may open the redirect.
LEMMA OpenKeepsSignInInv ==
  ASSUME SignInInv, NEW b \in Browser, NEW code \in DOMAIN grant, Open(b, code)
  PROVE  SignInInv'
<1> DEFINE n == Len(callback) + 1
           k == [at |-> "get", browser |-> b, code |-> code, flow |-> grant[code].challenge, token |-> NoToken]
<1>1. grant[code].challenge \in DOMAIN owner /\ grant[code].challenge \in Nat /\ code \in Nat
  BY DEF SignInInv, Typed, Granted, Grant
<1>2. owner[grant[code].challenge] = b
  BY <1>1, SignInAssumption DEF Open, ComesFromFlow, SignInInv, Baked
<1>3. k \in Callback
  BY <1>1 DEF Callback, Await
<1>4. callback' = Append(callback, k)
  BY DEF Open
<1>5. /\ callback' \in Seq(Callback) /\ DOMAIN callback' = DOMAIN callback \cup {n} /\ callback'[n] = k
      /\ n \notin DOMAIN callback /\ \A j \in DOMAIN callback : callback'[j] = callback[j]
  BY <1>3, <1>4 DEF SignInInv, Typed
<1>6. grant' = grant /\ codes' = codes /\ owner' = owner /\ sessions' = sessions /\ cookie' = cookie
  BY DEF Open, idpVars
<1> HIDE DEF n
<1>7. Typed' /\ Granted'
  BY <1>5, <1>6 DEF SignInInv, Typed, Granted
<1>8. Followed'
  BY <1>1, <1>2, <1>5, <1>6 DEF SignInInv, Followed
<1>9. Spent'
  BY <1>5, <1>6 DEF SignInInv, Spent, TokenFor
<1>10. Baked' /\ Recorded'
  BY <1>5, <1>6 DEF SignInInv, Baked, Recorded
<1> QED
  BY <1>7, <1>8, <1>9, <1>10 DEF SignInInv

\* A code is good for one token, and gone with it.
LEMMA ExchangeCodeKeepsSignInInv ==
  ASSUME SignInInv, NEW k \in DOMAIN callback, ExchangeCode(k)
  PROVE  SignInInv'
<1> DEFINE code == callback[k].code
<1>1. /\ codes' = codes \ {code} /\ grant' = grant /\ owner' = owner
      /\ sessions' = sessions /\ cookie' = cookie
  BY DEF ExchangeCode, Redeem, Spend
<1>2. CASE GoTo(k, "out")
  BY <1>1, <1>2, MovingKeepsSignInInv DEF Await
<1>3. CASE /\ Redeemable(code, callback[k].flow)
           /\ callback' = [callback EXCEPT ![k].at = "create", ![k].token = TokenFor(code)]
  <2>1. code \in DOMAIN grant /\ grant[code] \in Grant /\ code \in codes
    BY <1>3 DEF SignInInv, Typed, Followed, Redeemable
  <2>2. TokenFor(code) \in AccessToken
    BY <2>1 DEF TokenFor, IssueAccessToken, AccessToken, Grant
  <2> DEFINE token == TokenFor(code)
  <2> HIDE DEF token
  <2>3. callback' = [callback EXCEPT ![k].at = "create", ![k].token = token] /\ token \in AccessToken
    BY <1>3, <2>2 DEF token
  <2>4. /\ callback' \in Seq(Callback) /\ DOMAIN callback' = DOMAIN callback
        /\ \A j \in DOMAIN callback :
             /\ callback'[j].code = callback[j].code /\ callback'[j].flow = callback[j].flow
             /\ callback'[j].browser = callback[j].browser
        /\ \A j \in DOMAIN callback \ {k} : callback'[j] = callback[j]
        /\ callback'[k].at = "create" /\ callback'[k].token = token
    <3> DEFINE bought == [callback[k] EXCEPT !.at = "create", !.token = token]
    <3>1. callback \in Seq(Callback) /\ k \in 1..Len(callback) /\ callback[k] \in Callback
      BY ElementOfSeq, LenProperties DEF SignInInv, Typed
    <3>2. bought \in Callback
      BY <2>3, <3>1 DEF Callback, Await
    <3>3. callback' = [callback EXCEPT ![k] = bought]
      BY <2>3
    <3>4. /\ bought.code = callback[k].code /\ bought.flow = callback[k].flow
          /\ bought.browser = callback[k].browser /\ bought.at = "create" /\ bought.token = token
      BY <3>1 DEF Callback
    <3> HIDE DEF bought
    <3>5. callback' \in Seq(Callback)
      BY <3>1, <3>2, <3>3, ExceptSeq
    <3> QED
      BY <3>3, <3>4, <3>5
  <2>5. Typed' /\ Granted'
    BY <1>1, <2>4 DEF SignInInv, Typed, Granted
  <2>6. Followed' /\ Baked' /\ Recorded'
    BY <1>1, <2>4 DEF SignInInv, Followed, Baked, Recorded
  <2>7. Spent'
    <3>1. \A j \in DOMAIN callback : callback[j].code = code => callback[j].token = NoToken
      BY <2>1 DEF SignInInv, Spent
    <3>2. \A c : TokenFor(c)' = TokenFor(c)
      BY <1>1 DEF TokenFor
    <3> QED
      BY <1>1, <2>4, <3>1, <3>2 DEF SignInInv, Spent, token
  <2> QED
    BY <2>5, <2>6, <2>7 DEF SignInInv
<1> QED
  BY <1>2, <1>3 DEF ExchangeCode

\* The session is stored for the subject of the token.
LEMMA CreateSessionKeepsSignInInv ==
  ASSUME SignInInv, NEW k \in DOMAIN callback, CreateSession(k)
  PROVE  SignInInv'
<1>1. PICK stage \in {"respond", "out"} : GoTo(k, stage)
  BY DEF CreateSession
<1>2. /\ callback' \in Seq(Callback) /\ DOMAIN callback' = DOMAIN callback
      /\ \A j \in DOMAIN callback :
           /\ callback'[j].code = callback[j].code /\ callback'[j].flow = callback[j].flow
           /\ callback'[j].browser = callback[j].browser /\ callback'[j].token = callback[j].token
           /\ callback'[j].at = IF j = k THEN stage ELSE callback[j].at
  BY <1>1, GoToMoves DEF Await, SignInInv
<1>3. grant' = grant /\ codes' = codes /\ owner' = owner /\ cookie' = cookie
  BY DEF CreateSession, idpVars
<1>4. callback[k].at = "create" /\ callback[k].token = TokenFor(callback[k].code)
  BY DEF CreateSession, SignInInv, Spent
<1>5. /\ callback[k].token.sub = grant[callback[k].code].user
      /\ callback[k].token.scopes = grant[callback[k].code].scopes
  BY <1>4 DEF TokenFor, IssueAccessToken
<1>6. Typed' /\ Granted'
  BY <1>2, <1>3 DEF SignInInv, Typed, Granted
<1>7. Followed' /\ Baked'
  BY <1>2, <1>3 DEF SignInInv, Followed, Baked
<1>8. Spent'
  BY <1>2, <1>3, <1>4 DEF SignInInv, Spent, TokenFor
<1>9. Recorded'
  BY <1>2, <1>3, <1>5 DEF SignInInv, Recorded, CreateSession
<1> QED
  BY <1>6, <1>7, <1>8, <1>9 DEF SignInInv

\* A step of neither browser nor callback: codes and records go, callbacks end.
LEMMA ForgettingKeepsSignInInv ==
  ASSUME SignInInv, codes' \subseteq codes, UNCHANGED <<grant, owner>>,
         \/ UNCHANGED sessions
         \/ \E id : sessions' = [k \in DOMAIN sessions \ {id} |-> sessions[k]],
         \/ UNCHANGED callback
         \/ callback' = [k \in DOMAIN callback |->
                           IF Live(k) THEN [callback[k] EXCEPT !.at = "out"] ELSE callback[k]],
         \/ UNCHANGED cookie
         \/ \E b \in Browser : cookie' = [cookie EXCEPT ![b].session = None]
  PROVE  SignInInv'
<1>1. /\ callback' \in Seq(Callback) /\ DOMAIN callback' = DOMAIN callback
      /\ \A j \in DOMAIN callback :
           /\ callback'[j].code = callback[j].code /\ callback'[j].flow = callback[j].flow
           /\ callback'[j].browser = callback[j].browser /\ callback'[j].token = callback[j].token
           /\ callback'[j].at \in {"out", callback[j].at}
  <2>1. CASE UNCHANGED callback
    BY <2>1 DEF SignInInv, Typed
  <2>2. CASE callback' = [k \in DOMAIN callback |->
                            IF Live(k) THEN [callback[k] EXCEPT !.at = "out"] ELSE callback[k]]
    <3>1. \A k \in DOMAIN callback :
            /\ callback[k] \in Callback /\ [callback[k] EXCEPT !.at = "out"] \in Callback
      <4>1. callback \in Seq(Callback) /\ DOMAIN callback = 1..Len(callback)
        BY LenProperties DEF SignInInv, Typed
      <4>2. \A k \in DOMAIN callback : callback[k] \in Callback
        BY <4>1, ElementOfSeq
      <4> QED
        BY <4>2 DEF Callback, Await
    <3>2. DOMAIN callback = 1..Len(callback) /\ Len(callback) \in Nat
      BY LenProperties DEF SignInInv, Typed
    <3>3. callback' \in [1..Len(callback) -> Callback]
      BY <2>2, <3>1, <3>2
    <3>4. callback' \in Seq(Callback)
      BY <3>2, <3>3, SeqDef
    <3> QED
      BY <2>2, <3>1, <3>4 DEF Callback
  <2> QED
    BY <2>1, <2>2
<1>2. Typed'
  BY <1>1 DEF SignInInv, Typed
<1>3. Granted'
  BY DEF SignInInv, Granted
<1>4. Baked'
  <2>1. \A b \in Browser : /\ cookie'[b].login = cookie[b].login
                          /\ cookie'[b].session \in {None, cookie[b].session}
    <3>1. CASE UNCHANGED cookie
      BY <3>1
    <3>2. ASSUME NEW d \in Browser, cookie' = [cookie EXCEPT ![d].session = None],
                 NEW b \in Browser
          PROVE  /\ cookie'[b].login = cookie[b].login
                 /\ cookie'[b].session \in {None, cookie[b].session}
      <4>1. cookie[b] \in [login : Nat \cup {None}, session : Nat \cup {None}]
        BY DEF SignInInv, Typed
      <4>2. cookie'[b] = IF b = d THEN [cookie[b] EXCEPT !.session = None] ELSE cookie[b]
        BY <3>2 DEF SignInInv, Typed
      <4> QED
        BY <4>1, <4>2
    <3> QED
      BY <3>1, <3>2
  <2> QED
    BY <1>1, <2>1 DEF SignInInv, Baked
<1>5. Followed'
  BY <1>1 DEF SignInInv, Followed
<1>6. Spent'
  BY <1>1 DEF SignInInv, Spent, TokenFor
<1>7. Recorded'
  BY <1>1 DEF SignInInv, Recorded
<1> QED
  BY <1>2, <1>3, <1>4, <1>5, <1>6, <1>7 DEF SignInInv

\* Every step keeps it.
LEMMA StepKeepsSignInInv == SignInInv /\ [Next]_vars => SignInInv'
<1> SUFFICES ASSUME SignInInv, [Next]_vars PROVE SignInInv'
  OBVIOUS
<1>1. CASE UNCHANGED vars
  BY <1>1, ForgettingKeepsSignInInv DEF vars, idpVars, consoleVars
<1>2. ASSUME NEW b \in Browser, Logout(b) PROVE SignInInv'
  BY <1>2, ForgettingKeepsSignInInv DEF Logout, idpVars
<1>3. ASSUME NEW k \in DOMAIN callback, CallbackStep(k) \/ GiveUp(k) PROVE SignInInv'
  <2>1. CASE GetLogin(k) \/ DelLogin(k) \/ GiveUp(k)
    <3>1. PICK stage \in {"delFound", "delMissing", "exchange", "out"} : GoTo(k, stage)
      BY <2>1 DEF GetLogin, DelLogin, GiveUp
    <3> QED
      BY <2>1, <3>1, MovingKeepsSignInInv DEF GetLogin, DelLogin, GiveUp, idpVars, Await
  <2>2. CASE Respond(k)
    BY <2>2, MovingKeepsSignInInv DEF Respond, idpVars, Await
  <2> QED
    BY <1>3, <2>1, <2>2, ExchangeCodeKeepsSignInInv, CreateSessionKeepsSignInInv DEF CallbackStep
<1>4. CASE IdpStep
  BY <1>4, ForgettingKeepsSignInInv DEF IdpStep, Sweep, RestartIdp, ExpireCode, consoleVars
<1>5. CASE RedisExpires \/ RestartGateway
  BY <1>5, ForgettingKeepsSignInInv DEF RedisExpires, RestartGateway, idpVars
<1> QED
  BY <1>1, <1>2, <1>3, <1>4, <1>5, LoginKeepsSignInInv, GiveCredentialsKeepsSignInInv,
     OpenKeepsSignInInv DEF Next, Issued

\* It holds throughout.
LEMMA SignInInvHolds == Spec => []SignInInv
  BY InitSignInInv, StepKeepsSignInInv, PTL DEF Spec

-------------------------------------------------------------------------------
(* The properties *)

\* A code buys one access token, whatever is opened twice, answered late or tried again,
\* for any number of flows and callbacks (handleAuthorizationCode, server.ts:273-277).
THEOREM CodesAreSpentOnce == Spec => []CodeIsSpentOnce
<1>1. SignInInv => CodeIsSpentOnce
  BY DEF SignInInv, Spent, CodeIsSpentOnce
<1> QED
  BY <1>1, SignInInvHolds, PTL

\* A browser acts only as a user who gave their credentials in it, in the flow its session
\* comes from, and within that user's entitlements (bff.ts:82-86, session.ts:45-60).
THEOREM SessionsAreTheirBrowsers == Spec => []SessionIsItsBrowsers
<1>1. ASSUME SignInInv, NEW b \in Browser, ActsAs(b) # None
      PROVE  LET k == cookie[b].session  g == grant[callback[k].code] IN
             /\ callback[k].browser = b /\ owner[g.challenge] = b
             /\ ActsAs(b) = g.user
             /\ SessionOf(b).scopes \subseteq EntitlementsFor(ScopeSets, UserRole[g.user])
  <2> DEFINE k == cookie[b].session
  <2>1. k \in DOMAIN sessions
    BY <1>1 DEF ActsAs, SessionOf
  <2>2. k \in DOMAIN callback /\ k # None
    BY <1>1, <2>1, SignInAssumption DEF SignInInv, Recorded, Typed
  <2>3. callback[k].browser = b
    BY <1>1, <2>2 DEF SignInInv, Baked
  <2>4. owner[grant[callback[k].code].challenge] = b
    BY <1>1, <2>2, <2>3 DEF SignInInv, Followed
  <2>5. ActsAs(b) = grant[callback[k].code].user /\ SessionOf(b).scopes = grant[callback[k].code].scopes
    BY <1>1, <2>1 DEF SignInInv, Recorded, ActsAs, SessionOf
  <2>6. SessionOf(b).scopes \subseteq EntitlementsFor(ScopeSets, UserRole[grant[callback[k].code].user])
    BY <1>1, <2>2, <2>5 DEF SignInInv, Followed, Granted
  <2> QED
    BY <2>3, <2>4, <2>5, <2>6
<1>2. SignInInv => SessionIsItsBrowsers
  BY <1>1 DEF SessionIsItsBrowsers
<1> QED
  BY <1>2, SignInInvHolds, PTL
===============================================================================
