--------------------------- MODULE MCTurnManager ---------------------------
(* Instances of TurnManager small enough for TLC. *)
EXTENDS TurnManager

CONSTANTS a, b, c

Order2 == <<a, b>>
Order3 == <<a, b, c>>
============================================================================
