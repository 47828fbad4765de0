----------------------------- MODULE MCToolPipeline -----------------------------
(***************************************************************************)
(* ToolPipeline for TLC: two calls at once, each with a token for the      *)
(* policy engine and one for its tool, to one tool server besides the      *)
(* policy engine, over a pool that keeps one idle entry per destination.   *)
(* The callers are of two tenants, the live view of the first's; the       *)
(* stream keeps one event.                                                 *)
(***************************************************************************)
EXTENDS ToolPipeline, TLC

CONSTANTS c1, c2, v1

MCCredential == Caller \X {"policy", "tool"}
MCTenantOf == (c1 :> "acme") @@ (c2 :> "globex") @@ (v1 :> "acme")
===============================================================================
