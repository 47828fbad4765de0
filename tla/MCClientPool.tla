------------------------------ MODULE MCClientPool ------------------------------
(***************************************************************************)
(* ClientPool for TLC: two callers with two credentials, two destinations, *)
(* one idle entry kept per destination, and as many entries as callers and *)
(* buckets can have at once, so that Build never waits for one.            *)
(***************************************************************************)
EXTENDS ClientPool
===============================================================================
