--------------------------------- MODULE Tally ---------------------------------
(***************************************************************************)
(* The deterministic rulesets of the realm tools (realmtools/tally.py).    *)
(* A round's submissions are a function from the agents that sealed to     *)
(* what they sealed.  Text is one of a few tokens; numbers are the tokens  *)
(* that parse as an integer.  A ruleset gives the winner, an agent or an   *)
(* option, or Tie, or Error where the code raises TallyError.              *)
(***************************************************************************)
EXTENDS Integers, FiniteSets

CONSTANTS Tie, Error

\* the agents and the options of a round, and how often an option was sealed
Options(sub)   == {sub[a] : a \in DOMAIN sub}
For(sub, o)    == {a \in DOMAIN sub : sub[a] = o}
Votes(sub, o)  == Cardinality(For(sub, o))

\* the one element of S, if it has exactly one
TheOne(S) == IF \E x \in S : S = {x} THEN CHOOSE x \in S : TRUE ELSE Tie

\* an agent wins if its token beats every other agent's; a token without an entry
\* in the beat map never wins and is beaten by every one that has
Wins(sub, beats, a) ==
    /\ sub[a] \in DOMAIN beats
    /\ DOMAIN sub # {a}
    /\ \A b \in DOMAIN sub \ {a} : sub[b] \in DOMAIN beats => sub[b] \in beats[sub[a]]

Dominance(sub, beats) ==
    IF DOMAIN beats = {} THEN Error ELSE TheOne({a \in DOMAIN sub : Wins(sub, beats, a)})

\* the bid tallies: sgn 1 looks for the highest bid, -1 for the lowest
Leaders(sub, sgn) ==
    {a \in DOMAIN sub : \A b \in DOMAIN sub : sgn * sub[b] <= sgn * sub[a]}
Bid(sub, sgn, Number) ==
    IF ~(Options(sub) \subseteq Number) THEN Error ELSE TheOne(Leaders(sub, sgn))

HighBid(sub, Number) == Bid(sub, 1, Number)
LowBid(sub, Number)  == Bid(sub, -1, Number)

Plurality(sub) ==
    TheOne({o \in Options(sub) : \A x \in Options(sub) : Votes(sub, x) <= Votes(sub, o)})

\* the option that more than half of the submissions name
Carries(sub, o) == 2 * Votes(sub, o) > Cardinality(DOMAIN sub)
Majority(sub) ==
    IF \E o \in Options(sub) : Carries(sub, o)
    THEN CHOOSE o \in Options(sub) : Carries(sub, o) ELSE Tie

Unanimous(sub) == TheOne(Options(sub))
===============================================================================
