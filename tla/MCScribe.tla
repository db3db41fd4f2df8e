----------------------------- MODULE MCScribe -----------------------------
EXTENDS Scribe, TLC
CONSTANTS x, y, r1, r2
Sessions == {x, y}
Requests == {r1, r2}
Doubles == Permutations(Sessions) \cup Permutations(Requests)
=============================================================================
