---------------------------- MODULE IdentityProvider -----------------------------
(***************************************************************************)
(* The identity provider's sign-in (apps/mock-idp/src/server.ts): a user   *)
(* who gives their credentials is sent back to the client with a code, and *)
(* the client turns the code into an access token.  Codes live in a map of *)
(* the process, for a minute.                                              *)
(*                                                                         *)
(* No refresh token appears: one is issued only with the scope             *)
(* offline_access, which no role of the directory holds.                   *)
(***************************************************************************)
EXTENDS IdpTokens, Sequences

CONSTANTS User, UserRole,  \* the directory: UserRole[u]
          ScopeSets,       \* and what each role may do
          Challenge,       \* PKCE challenges, one per flow of a client
          Requested,       \* scopes the client asks for
          ClientAllowed,   \* and those it may have
          MaxCode,         \* bound: codes ever issued
          NoToken

VARIABLES grant,    \* grant[c]: what code c was issued for
          codes,    \* codes the provider knows
          expired   \* those of them older than their minute

idpVars == <<grant, codes, expired>>

IdpInit == grant = <<>> /\ codes = {} /\ expired = {}

Issued == DOMAIN grant

\* POST /authorize with a user's credentials: the code goes back in the redirect.
Authorize(user, challenge) ==
  /\ Len(grant) < MaxCode
  /\ grant' = Append(grant,
       [user |-> user, challenge |-> challenge,
        scopes |-> NarrowScopes(Requested, EntitlementsFor(ScopeSets, UserRole[user]), ClientAllowed, {})])
  /\ codes' = codes \cup {Len(grant) + 1}
  /\ UNCHANGED expired

\* Faulty: a code that was good is left for the sweeper.
SpendOnFailure(code, ok) == codes' = IF ok THEN codes ELSE codes \ {code}

\* A code is consumed before it is looked at.
Spend(code, ok) == codes' = codes \ {code}

Redeemable(code, verifier) ==
  code \in codes /\ code \notin expired /\ grant[code].challenge = verifier

TokenFor(code) ==
  IssueAccessToken("active", grant[code].user, "console", grant[code].scopes)

\* handleAuthorizationCode; what is awaited after the code is gone changes nothing.
Redeem(code, verifier) ==
  /\ Spend(code, Redeemable(code, verifier))
  /\ expired' = expired \cap codes'
  /\ UNCHANGED grant

\* A minute passes.
ExpireCode(code) ==
  /\ code \in codes \ expired
  /\ expired' = expired \cup {code}
  /\ UNCHANGED <<grant, codes>>

\* Faulty: codes are left to be asked for.
SweepNothing == expired # {} /\ UNCHANGED idpVars

\* Every 30 s what has expired goes.
Sweep ==
  /\ expired # {}
  /\ codes' = codes \ expired /\ expired' = {}
  /\ UNCHANGED grant

\* The process ends and starts again with empty maps.
RestartIdp ==
  /\ codes # {}
  /\ codes' = {} /\ expired' = {}
  /\ UNCHANGED grant
===============================================================================
