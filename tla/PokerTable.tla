------------------------------ MODULE PokerTable ------------------------------
(***************************************************************************)
(* The poker table of examples/poker-table/project.json: the declaration   *)
(* of its machine, for any seating.                                        *)
(***************************************************************************)
EXTENDS GameTable

CONSTANTS
    Seating,    \* the seats in the order of the roster
    Dealer      \* the referee

Seats   == ToSet(Seating)
Streets == {"preflop", "flop", "turn_st", "river"}

ASSUME SeatingAssumption ==
    /\ IsList(Seating) /\ Seating # <<>> /\ {None, Dealer} \cap Seats = {}
    /\ None # "player"

\* the declaration's short forms
Caller       == [ref |-> "caller"]
Given(name)  == [ref |-> "arg", name |-> name]
Lit(v)       == [ref |-> "lit", value |-> v]
Guard(kind)  == [kind |-> kind]
AddTo(k, v)  == [kind |-> "add_to", key |-> k, value |-> v]
Reset(k)     == [kind |-> "reset", key |-> k]
SetTo(k, v)  == [kind |-> "set", key |-> k, value |-> v]
Advance      == [kind |-> "advance_actor"]
PointTo(arg) == [kind |-> "set_actor", value |-> Given(arg)]
Present(k)   == [kind |-> "data_present", key |-> k]
StreetFull   == [kind |-> "data_set_full", key |-> "acted", over |-> "player",
                 minus |-> {"out", "all_in"}]
OneLeft      == [kind |-> "count_equals", over |-> "player", minus |-> {"out"}, n |-> 1]
TwoLeft      == [kind |-> "count_at_least", over |-> "player", minus |-> {"out"}, n |-> 2]

Trans(from, to, by, guard, effects) ==
    [from |-> from, to |-> to, by |-> by, guard |-> guard, effects |-> effects,
     log |-> "public"]

\* a seat's move, and the dealer's from a street that is full to the next
Move(effects) ==
    Trans(Streets, "same", "player",
          <<Guard("caller_is_actor"), [kind |-> "caller_not_in", key |-> "acted"]>>, effects)
Opening(from, to) ==
    Trans({from}, to, "dealer", <<StreetFull>>,
          <<Reset("acted"), SetTo("bet_level", Lit("0")), PointTo("first")>>)

MoveNames   == {"check", "call", "raise", "fold", "all_in"}
StreetNames == MoveNames \cup {"deal", "fold_for", "reopen", "advance", "advance2", "advance3"}
EndingNames == {"to_showdown", "award", "settle", "next_hand", "finish"}

Declared(name) ==
    CASE name = "deal"   -> Trans({"waiting"}, "preflop", "dealer", <<Present("seed_commit")>>,
                                  <<Reset("out"), Reset("all_in"), Reset("acted"),
                                    SetTo("bet_level", Given("bet_level")), PointTo("first")>>)
      [] name \in {"check", "call"} -> Move(<<AddTo("acted", Caller), Advance>>)
      [] name = "raise"  -> Move(<<Reset("acted"), AddTo("acted", Caller),
                                   SetTo("bet_level", Given("to")), Advance>>)
      [] name = "fold"   -> Move(<<AddTo("out", Caller), AddTo("acted", Caller), Advance>>)
      [] name = "all_in" -> Move(<<AddTo("all_in", Caller), AddTo("acted", Caller), Advance>>)
      [] name = "fold_for" ->
            Trans(Streets, "same", "dealer",
                  <<[kind |-> "data_equals", key |-> "actor", value |-> Given("player")], TwoLeft>>,
                  <<AddTo("out", Given("player")), AddTo("acted", Given("player")), Advance>>)
      [] name = "reopen" ->
            Trans(Streets, "same", "dealer", <<>>,
                  <<[kind |-> "remove_from", key |-> "acted", value |-> Given("player")],
                    PointTo("player")>>)
      [] name = "advance"  -> Opening("preflop", "flop")
      [] name = "advance2" -> Opening("flop", "turn_st")
      [] name = "advance3" -> Opening("turn_st", "river")
      [] name = "to_showdown" ->
            Trans(Streets, "showdown", "dealer", <<>>,
                  <<[kind |-> "reveal", key |-> "hole",
                     owners |-> [ref |-> "members", over |-> "player", minus |-> {"out"}]]>>)
      [] name = "award"  -> Trans(Streets, "settled", "dealer", <<OneLeft>>, <<>>)
      [] name = "settle" -> Trans({"showdown"}, "settled", "dealer", <<>>, <<>>)
      [] name = "next_hand" -> Trans({"settled"}, "waiting", "dealer", <<>>,
                                     <<[kind |-> "unset", key |-> "seed_commit"]>>)
      [] name = "finish" -> Trans({"settled"}, "done", "dealer", <<>>, <<>>)

Poker ==
   [members |-> [role \in {"dealer", "player"} |-> IF role = "dealer" THEN {Dealer} ELSE Seats],
    roster |-> <<Dealer>> \o Seating, refereeRoles |-> {"dealer"}, hiddenRoles |-> {},
    states |-> Streets \cup {"waiting", "showdown", "settled", "done"},
    initial |-> "waiting", terminal |-> {"done"}, optIn |-> {"reset", "set"},
    over |-> "player", skip |-> {"out", "all_in", "acted"},
    sets |-> {"out", "all_in", "acted"}, owners |-> {"hole"},
    values |-> {"board", "pot", "stacks", "bet_level", "hand", "seed_commit"}, hidden |-> {},
    transitions |-> [name \in StreetNames \cup EndingNames |-> Declared(name)],
    wake |-> {[role |-> "actor",  when |-> <<>>, unless |-> <<OneLeft>>],
              [role |-> "dealer", when |-> <<StreetFull>>, unless |-> <<>>],
              [role |-> "dealer", when |-> <<OneLeft>>, unless |-> <<>>]},
    late |-> {"dealer"}]

-----------------------------------------------------------------------------
\* The dealer names a seat wherever the declaration lets it point: a missing argument
\* parks the pointer, in a street that nobody has closed.
DealerPoints ==
    \A c \in TableCalls : c.op = "act" /\ c.caller = Dealer =>
        /\ c.name \in {"deal", "advance", "advance2", "advance3"} => ValueAt(c.args, "first") # None
        /\ c.name = "reopen" => ValueAt(c.args, "player") # None

\* Betting never stops with nobody to move and the street not closed: when the
\* pointer parks, everyone still in has acted, so the dealer's advance is open to it
\* (raise resets acted and re-seats the raiser, reopen and fold_for move the pointer).
ParkedMeansClosed ==
    table.state \in Streets /\ table.actor = None =>
        Holds(StreetFull, table, WakeCtx(Empty))
================================================================================
