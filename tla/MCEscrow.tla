------------------------------- MODULE MCEscrow -------------------------------
(* Instances of Escrow: two players, one of which may call twice at once,  *)
(* and a referee that may too.                                             *)
EXTENDS Escrow, TLC

CONSTANTS ann, bob, judge, a1, a2, b1, r1, r2

Owners == [s \in Slots |-> IF s \in {a1, a2} THEN ann ELSE IF s = b1 THEN bob ELSE judge]

Doubles == Permutations({a1, a2}) \cup Permutations({r1, r2})
===============================================================================
