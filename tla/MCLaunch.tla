------------------------------ MODULE MCLaunch ------------------------------
EXTENDS Launch
CONSTANTS n1, project, ada, bob, plain, game, size, who, blank, low, high, r1, r2, azure, plan
Realms == {r1, r2}
Values == {blank, low, high}
Reads == [t \in Values |-> CASE t = low -> 2 [] t = high -> 9 [] OTHER -> Unset]
Bundled == [n \in {n1} |-> game]
Meek == [turns |-> 1, wakes |-> FALSE, effects |-> FALSE, prose |-> <<>>, decl |-> <<>>]
Sized == [turns |-> 0, wakes |-> TRUE, effects |-> TRUE,
          prose |-> <<[name |-> size, default |-> Unset], [name |-> who, default |-> Unset]>>,
          decl |-> [n \in {size, who} |->
              IF n = size
              THEN [default |-> low, type |-> "int", choices |-> Unset, least |-> Unset, most |-> 8]
              ELSE [Undeclared EXCEPT !.choices = {low}]]]
Lead == [cap |-> 1, model |-> "own", risky |-> TRUE, perRound |-> TRUE]
Hand == [cap |-> 1, model |-> None, risky |-> FALSE, perRound |-> FALSE]
Files == {project, ada, bob}
Held == [v \in {plain, game} |-> IF v = plain THEN {project, ada} ELSE Files]
Texts == [v \in {plain, game} |->
    [spec   |-> IF v = plain THEN Meek ELSE Sized,
     agents |-> [a \in {ada, bob} |-> IF v = plain THEN Lead ELSE Hand]]]
Accepted == {d \in [Files -> {plain, game, None}] :
                d[project] # None /\ Integrity(Read(<<>>, d))}
Metered == [model |-> "gpt", flat |-> FALSE, budget |-> 0, turn |-> 0]
Flat    == [model |-> "claude", flat |-> TRUE, budget |-> 3, turn |-> 2]
Profiles == {Metered, Flat}
Seeds == [q \in {azure, plan} |-> IF q = plan THEN Flat ELSE Metered]
Agreed == {{}, {"holes", "provider", "elevated"}}
Some == {<<>>, size :> high, who :> low, who :> blank @@ size :> blank}
Asked == {-1, 0}
Twins == Permutations(Realms)
=============================================================================
