---------------------------- MODULE MCConsoleSignIn -----------------------------
(***************************************************************************)
(* ConsoleSignIn for TLC: two browsers, two flows, two codes and two       *)
(* callbacks, so that a redirect can be opened twice, in either browser,   *)
(* and a flow can have two codes; an analyst and a manager.                *)
(***************************************************************************)
EXTENDS ConsoleSignIn

openid == [space |-> "openid", right |-> "openid"]
offline == [space |-> "openid", right |-> "offline_access"]
read == [space |-> "salesforce", right |-> "read"]
write == [space |-> "salesforce", right |-> "write"]

MCScope == {openid, offline, read, write}
MCScopeSets == [analyst |-> {read}, manager |-> {read, write}]
MCRoles == [alice |-> "analyst", bob |-> "manager"]
MCAlwaysGranted == {openid}
===============================================================================
