----------------------------- MODULE SerialMachine -----------------------------
(***************************************************************************)
(* What the machine service promises, whatever interleaves inside it: the  *)
(* calls of a realm take effect one at a time, in the order of their rows, *)
(* each decided on the state the previous one left, and no seal counts     *)
(* that has not been made.  A game table in play needs no more of it.      *)
(***************************************************************************)
EXTENDS Sequences

CONSTANTS
    Calls, Players, Rounds,
    Start,              \* the state before the first call
    Outcome(_, _, _)    \* what the engine makes of a state, a call and the seals

VARIABLES
    state,      \* the state of the machine
    log,        \* the GAME rows
    sealed      \* round -> who has sealed it

serialVars == <<state, log, sealed>>

SerialInit == state = Start /\ log = <<>> /\ sealed = [r \in Rounds |-> {}]

\* the seals a call may be decided on: each round's as of the call, or of a moment before
Seen == {e \in [Rounds -> SUBSET Players] : \A r \in Rounds : e[r] \subseteq sealed[r]}

Serve(c) ==
    /\ log' # log
    /\ \E e \in Seen : LET out == Outcome(state, c, e) IN
          /\ state' = out.state
          /\ log' = Append(log, out.row)
    /\ UNCHANGED sealed

SealOne(r, a) ==
    /\ sealed' = [sealed EXCEPT ![r] = @ \cup {a}]
    /\ UNCHANGED <<state, log>>

SerialNext == \/ \E c \in Calls : Serve(c)
              \/ \E r \in Rounds, a \in Players : SealOne(r, a)

SerialSpec == SerialInit /\ [][SerialNext]_serialVars
================================================================================
