--------------------------- MODULE MCRealmLifecycle ---------------------------
(* Instances of RealmLifecycle: a player, whose budget kills it after a    *)
(* grace period, and a judge, whose budget only starves it.                *)
EXTENDS RealmLifecycle

CONSTANTS player, judge

Pair     == <<player, judge>>
Policies == [a \in Agents |-> IF a = judge THEN "starve" ELSE "starve_then_kill"]
===============================================================================
