----------------------------- MODULE MCPokerTable -----------------------------
(* An instance of PokerTable: three seats that check and fold, two that    *)
(* raise and one that goes all in (the seats are a circle, so they may be  *)
(* any), every move of the dealer on two streets and on to the next hand.  *)
EXTENDS PokerTable

CONSTANTS p, q, r, card1, card2

Circle == <<p, q, r>>

\* a definition of this module, which TLC evaluates once
Declaration == Poker

ActCall(who, name, args) == [op |-> "act", caller |-> who, name |-> name, args |-> args]
SetCall(who, key, value, owner) ==
    [op |-> "set", caller |-> who, key |-> key, value |-> value, owner |-> owner]

Moves     == {ActCall(who, name, Empty) : who \in Seats, name \in {"check", "fold"}}
               \cup {ActCall(who, "raise", "to" :> "0") : who \in {p, q}}
               \cup {ActCall(r, "all_in", Empty)}
Openings  == {ActCall(Dealer, "deal", "first" :> who @@ "bet_level" :> "0") : who \in {p, q}}
               \cup {ActCall(Dealer, "advance", "first" :> who) : who \in Seats}
Rulings   == {ActCall(Dealer, "fold_for", "player" :> r), ActCall(Dealer, "fold_for", Empty),
              ActCall(Dealer, "reopen", "player" :> p)}
Endings   == {ActCall(Dealer, name, Empty) : name \in EndingNames}
Seeding   == {SetCall(Dealer, "seed_commit", card1, None)}
Dealing   == {SetCall(Dealer, "hole", card2, q)}
Refusals  == {ActCall(p, "deal", Empty), SetCall(p, "hole", card1, p)}

TableTalk == Moves \cup Openings \cup Rulings \cup Endings \cup Seeding \cup Dealing \cup Refusals

\* what the theorems ask of a declaration, of its wake rules and of the dealer
ASSUME PokerKeepsRules == MovesOn /\ RolesPlain /\ DealerPoints
================================================================================
