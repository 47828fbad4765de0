------------------------------- MODULE IdpTokens --------------------------------
(***************************************************************************)
(* What the identity provider puts into a token (apps/mock-idp/src/        *)
(* tokens.ts, store.ts).  Scopes are records of a namespace and a right,   *)
(* salesforce:read being [space |-> "salesforce", right |-> "read"].       *)
(***************************************************************************)
EXTENDS Naturals, FiniteSets

CONSTANTS Scope,
          Namespaces,    \* Namespaces[a]: the namespaces audience a may receive, {} for any
          AlwaysGranted  \* scopes every subject holds whatever its role

NarrowScopes(requested, entitled, allowed, spaces) ==
  {s \in (IF requested = {} THEN entitled ELSE requested) :
     s \in entitled /\ s \in allowed /\ (spaces = {} \/ s.space \in spaces)}

\* Directory.entitlementsFor a user of a role.
EntitlementsFor(scopeSets, role) == AlwaysGranted \cup scopeSets[role]

\* An access token, as far as anyone decides by it: its signing key, its subject, its
\* audience, its scopes, and how long ago it was issued.
IssueAccessToken(kid, sub, aud, scopes) ==
  [kid |-> kid, sub |-> sub, aud |-> aud, scopes |-> scopes, age |-> 0]
===============================================================================
