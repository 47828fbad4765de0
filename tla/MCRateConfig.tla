------------------------------ MODULE MCRateConfig ------------------------------
(***************************************************************************)
(* RateConfig for TLC: two replicas, two PUTs, one tenant whose table has  *)
(* a default row of one tool and a wildcard row for a tier.                *)
(***************************************************************************)
EXTENDS RateConfig

MCRowKey == {Key("acme", "user_tool", "q", "default"), Key("acme", "user_tool", "*", "gold")}
MCSeedRows == {[key \in MCRowKey |-> 1]}
MCFallback == [tenant |-> 600, user_tool |-> 60]
===============================================================================
