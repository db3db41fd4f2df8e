--------------------------- MODULE MCMachineService ---------------------------
(* Instances of MachineService: a two-player game of sealed rounds with a   *)
(* pointer, as rps-machine and the tests' tables have them.                 *)
EXTENDS MachineService

CONSTANTS a, b, judge, w1, w2, h1

Both   == {a, b}
OneRound == {h1}
Pair   == {w1, w2}
Single == {w1}
Judge  == {judge}
Guest  == {b}

Caller      == [ref |-> "caller"]
SealedBy(role) == [kind |-> "escrow_complete", round |-> [ref |-> "data", key |-> "hand"],
                   over |-> role, minus |-> {}]
Trans(from, to, by, guard, effects, log) ==
    [from |-> from, to |-> to, by |-> by, guard |-> guard, effects |-> effects, log |-> log]

Duel ==
    [members |-> "ref" :> {judge} @@ "player" :> {a, b} @@ "first" :> {a} @@ "second" :> {b},
     roster |-> <<a, judge, b>>, refereeRoles |-> {"ref"}, hiddenRoles |-> {},
     states |-> {"sealing", "revealed"}, initial |-> "sealing", terminal |-> {}, optIn |-> {},
     over |-> "player", skip |-> {"acted"},
     sets |-> {"acted"}, owners |-> {"hole"}, values |-> {"hand", "note"}, hidden |-> {"note"},
     transitions |->
        "open"   :> Trans({"sealing"}, "same", "ref", <<>>,
                          <<[kind |-> "set_actor", value |-> [ref |-> "arg", name |-> "first"]]>>,
                          "referee")
     @@ "pass"   :> Trans({"any"}, "same", "player",
                          <<[kind |-> "caller_is_actor"]>>,
                          <<[kind |-> "add_to", key |-> "acted", value |-> Caller],
                            [kind |-> "advance_actor"]>>, "public")
     @@ "reveal" :> Trans({"sealing"}, "revealed", "ref", <<SealedBy("player")>>, <<>>, "public")
     @@ "split"  :> Trans({"sealing"}, "revealed", "ref",
                          <<SealedBy("first"), SealedBy("second")>>, <<>>, "public"),
     wake |-> {[role |-> "actor", when |-> <<>>, unless |-> <<>>]},
     late |-> {}]

Open(who)  == [op |-> "act", caller |-> judge, name |-> "open", args |-> "first" :> who]
Pass(who)  == [op |-> "act", caller |-> who, name |-> "pass", args |-> Empty]
Rule(name) == [op |-> "act", caller |-> judge, name |-> name, args |-> Empty]
Write(who, key, value, owner) ==
    [op |-> "set", caller |-> who, key |-> key, value |-> value, owner |-> owner]
Hand       == Write(judge, "hand", h1, None)

Race     == {Open(a), Pass(a), Hand, Rule("reveal")}
Secrets  == {Open(a), Pass(a), Hand, Write(judge, "note", h1, None),
             Write(judge, "hole", h1, a), Write(judge, "hole", h1, b), Write(a, "hand", h1, None)}
Splits   == {Hand, Rule("split")}
Mixed    == Splits \cup {Write(judge, "note", h1, None), Write(judge, "hole", h1, a)}

\* where no call is lost the game keeps its seals apart
ASSUME DuelSealsApart == ~Cancels => SealsApart
================================================================================
