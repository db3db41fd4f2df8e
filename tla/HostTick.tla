------------------------------ MODULE HostTick ------------------------------
(***************************************************************************)
(* The skeleton of one tick of the host: the stages LiveSnapshot.__call__   *)
(* runs in order, and the exception that ends a tick before its end.        *)
(* gatekeeper/runner.py, __call__.  The warden survives the exception and   *)
(* ticks again (module RealmLifecycle): a stage that raises costs the       *)
(* stages after it one tick.                                                *)
(***************************************************************************)
EXTENDS Naturals, Sequences, FiniteSets

CONSTANTS MaxFaults     \* bound: awaits of the host that raise

VARIABLES
    stage,              \* the stage the tick is in; "rest" between ticks
    faults              \* awaits that have raised so far

tickVars == <<stage, faults>>

Stages == <<"private", "exec", "tools", "mirror", "quota", "observe">>

TickInit == stage = "rest" /\ faults = 0

\* the stage after st; the last one ends the tick
After(st) ==
    LET i == CHOOSE i \in DOMAIN Stages : Stages[i] = st
    IN  IF i = Len(Stages) THEN "rest" ELSE Stages[i + 1]

StageOver(st) == stage = st /\ stage' = After(st) /\ UNCHANGED faults

TickBegins == stage = "rest" /\ stage' = "private" /\ UNCHANGED faults

\* an await of the host raises: nothing later in this tick happens
Raised == faults < MaxFaults /\ faults' = faults + 1 /\ stage' = "rest"
=============================================================================
