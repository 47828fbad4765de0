---------------------------- MODULE MCTokenExchange -----------------------------
(***************************************************************************)
(* TokenExchange for TLC: two calls, two subjects, one server and the      *)
(* policy engine.  One directory lets alice read and write, the other only *)
(* read; bob may read.                                                     *)
(***************************************************************************)
EXTENDS TokenExchange

read == [space |-> "salesforce", right |-> "read"]
write == [space |-> "salesforce", right |-> "write"]
evaluate == [space |-> "policy", right |-> "evaluate"]

MCScope == {read, write, evaluate}
MCNamespaces == [crm |-> {"salesforce"}, engine |-> {"policy"}]
MCAlwaysGranted == {evaluate}
MCFixedAsk == {[aud |-> "engine", scopes |-> {evaluate}]}
MCSignIn == {MCScope, {read}}
MCRoles == [manager |-> {read, write}, viewer |-> {read}]
Entitlements(role) == [sub \in Subject |-> EntitlementsFor(MCRoles, IF sub = "alice" THEN role ELSE "viewer")]
MCDirectory == {Entitlements("manager"), Entitlements("viewer")}
MCFirstDirectory == Entitlements("manager")
===============================================================================
