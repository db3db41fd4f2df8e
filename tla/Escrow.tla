-------------------------------- MODULE Escrow --------------------------------
(***************************************************************************)
(* The sealed submissions of one labelled round: SealedEscrow and          *)
(* EscrowService behind the tools submit_sealed, reveal_status, reveal and *)
(* tally of the realm tools server.                                        *)
(*                                                                         *)
(* A call is a coroutine: it is cut at its awaits, and between two of them *)
(* it runs alone.  Its awaits are the two queries of the lazy load and the *)
(* appends.  An append either becomes durable or raises; the process may   *)
(* be restarted, which forgets the memory and the calls in flight.  The    *)
(* rounds of a realm share nothing but the load, so one is modelled.       *)
(***************************************************************************)
EXTENDS Tally

CONSTANTS
    Players,      \* the roster that every token carries
    Referee,
    Slots,        \* the calls that may be in flight together
    Owner,        \* slot -> who calls
    Payloads,     \* what can be sealed
    Numbers,      \* the payloads that parse as an integer
    Rulesets,     \* the rulesets that the referee asks for
    None,
    MaxRestarts,  \* bound: restarts of the realm tools
    MaxFaults,    \* bound: appends that fail
    MaxCalls      \* bound: tools called

ASSUME EscrowAssumption ==
    /\ Owner \in [Slots -> Players \cup {Referee}]
    /\ Referee \notin Players /\ None \notin Payloads
    /\ Numbers \subseteq Payloads
    /\ {MaxRestarts, MaxFaults, MaxCalls} \subseteq Nat

Shows  == [Players -> Payloads \cup {None}]
Tools  == {"submit", "status", "reveal", "tally"}
Awaits == {"idle", "begin", "seals", "merge", "reveals", "enter", "marker", "opening",
            "outcome"}

VARIABLES
    loaded,     \* the chronicle has been replayed into memory
    sealed,     \* player -> its sealed payload, in memory
    revealed,   \* the round is closed, in memory
    marks,      \* chronicle: player -> the payloads of its sealed_submit markers
    reveals,    \* chronicle: the submissions of the reveal events
    tallies,    \* chronicle: the outcomes of the TALLY events
    pc,         \* slot -> the await its call is at
    tool,       \* slot -> the tool called
    arg,        \* slot -> the payload or the ruleset of the call
    rows,       \* slot -> the markers its load has read
    closed,     \* slot -> whether its load has read a reveal
    held,       \* slot -> the payloads its reveal has collected
    acked,      \* history: player -> the payload it was told is sealed
    shown,      \* history: the payloads the referee was given last
    restarts, faults, made

memory  == <<loaded, sealed, revealed>>
chron   == <<marks, reveals, tallies>>
calls   == <<pc, tool, arg, rows, closed, held>>
history == <<acked, shown>>
bounds  == <<restarts, faults, made>>
vars    == <<memory, chron, calls, history, bounds>>

Nothing == [a \in Players |-> None]
Blank   == [a \in Players |-> {}]

Init ==
    /\ loaded = FALSE /\ sealed = Nothing /\ revealed = FALSE
    /\ marks = Blank /\ reveals = {} /\ tallies = {}
    /\ pc = [s \in Slots |-> "idle"] /\ tool = [s \in Slots |-> "status"]
    /\ arg = [s \in Slots |-> None] /\ rows = [s \in Slots |-> Blank]
    /\ closed = [s \in Slots |-> FALSE] /\ held = [s \in Slots |-> Nothing]
    /\ acked = Nothing /\ shown = None
    /\ restarts = 0 /\ faults = 0 /\ made = 0

Goes(s, to) == pc' = [pc EXCEPT ![s] = to]

\* the call ends; what its frames held goes with it
Ends(s) ==
    /\ Goes(s, "idle")
    /\ tool' = [tool EXCEPT ![s] = "status"] /\ arg' = [arg EXCEPT ![s] = None]
    /\ rows' = [rows EXCEPT ![s] = Blank] /\ closed' = [closed EXCEPT ![s] = FALSE]
    /\ held' = [held EXCEPT ![s] = Nothing]

-----------------------------------------------------------------------------
(* What a call does on a loaded memory, which holds the seals m and the    *)
(* revealed flag r.                                                        *)

\* bug: a second seal overwrites the first
SubmitAgain(s, m, r) ==
    LET a == Owner[s]
    IN  /\ tool[s] = "submit" /\ revealed' = r
        /\ IF r
           THEN sealed' = m /\ Ends(s)
           ELSE /\ sealed' = [m EXCEPT ![a] = arg[s]]
                /\ Goes(s, "marker") /\ UNCHANGED <<tool, arg, rows, closed, held>>

\* SealedEscrow.submit: refused in a closed round and for who has sealed, else sealed
\* in memory before the marker is appended
Submit(s, m, r) ==
    LET a == Owner[s]
    IN  /\ tool[s] = "submit" /\ revealed' = r
        /\ IF r \/ m[a] # None
           THEN sealed' = m /\ Ends(s)
           ELSE /\ sealed' = [m EXCEPT ![a] = arg[s]]
                /\ Goes(s, "marker") /\ UNCHANGED <<tool, arg, rows, closed, held>>

\* SealedEscrow.status: who has sealed, never what
Status(s, m, r) ==
    tool[s] = "status" /\ sealed' = m /\ revealed' = r /\ Ends(s)

\* SealedEscrow.reveal: refused in a closed round, else the round is closed in memory
\* before the payloads are appended
Reveal(s, m, r) ==
    /\ tool[s] \in {"reveal", "tally"}
    /\ sealed' = m /\ revealed' = TRUE
    /\ IF r THEN Ends(s)
       ELSE /\ held' = [held EXCEPT ![s] = m]
            /\ Goes(s, "opening") /\ UNCHANGED <<tool, arg, rows, closed>>

Enter(s, m, r) == Submit(s, m, r) \/ Status(s, m, r) \/ Reveal(s, m, r)

Submissions(m) == [a \in {x \in Players : m[x] # None} |-> m[a]]

Outcome(ruleset, m) ==
    LET sub == Submissions(m)
    IN  CASE ruleset = "high-bid"  -> HighBid(sub, Numbers)
          [] ruleset = "low-bid"   -> LowBid(sub, Numbers)
          [] ruleset = "plurality" -> Plurality(sub)
          [] ruleset = "majority"  -> Majority(sub)
          [] ruleset = "unanimous" -> Unanimous(sub)

\* the payloads m come back to the tool: reveal answers with them, tally scores them
\* and appends the outcome, unless the ruleset refuses them
Given(s, m) ==
    IF tool[s] = "tally" /\ Outcome(arg[s], m) # Error
    THEN /\ held' = [held EXCEPT ![s] = m] /\ Goes(s, "outcome")
         /\ UNCHANGED <<shown, tool, arg, rows, closed>>
    ELSE shown' = (IF tool[s] = "reveal" THEN m ELSE shown) /\ Ends(s)

-----------------------------------------------------------------------------
Asks(s, t) ==
    IF Owner[s] = Referee
    THEN \/ t \in {"status", "reveal"} /\ arg' = [arg EXCEPT ![s] = None]
         \/ t = "tally" /\ \E x \in Rulesets : arg' = [arg EXCEPT ![s] = x]
    ELSE \/ t = "submit" /\ \E p \in Payloads : arg' = [arg EXCEPT ![s] = p]
         \/ t = "status" /\ arg' = [arg EXCEPT ![s] = None]

\* a tool is called; the token decides who calls, and the role what it may call
Call(s) ==
    /\ pc[s] = "idle" /\ Goes(s, "begin")
    /\ made < MaxCalls /\ made' = made + 1
    /\ \E t \in Tools : Asks(s, t) /\ tool' = [tool EXCEPT ![s] = t]
    /\ UNCHANGED <<memory, chron, rows, closed, held, history, restarts, faults>>

\* the service answers a reveal of a round that is closed in memory at once; any
\* other call waits for the load, or runs on to its append
Begin(s) ==
    /\ pc[s] = "begin"
    /\ IF revealed /\ tool[s] \in {"reveal", "tally"}
       THEN Given(s, sealed) /\ UNCHANGED memory
       ELSE /\ UNCHANGED <<shown, loaded>>
            /\ IF loaded THEN Enter(s, sealed, revealed)
               ELSE /\ Goes(s, "seals")
                    /\ UNCHANGED <<sealed, revealed, tool, arg, rows, closed, held>>
    /\ UNCHANGED <<chron, acked, bounds>>

\* the two queries of _load; the database answers each at some moment of its own
ReadSeals(s) ==
    /\ pc[s] = "seals" /\ Goes(s, "merge")
    /\ rows' = [rows EXCEPT ![s] = marks]
    /\ UNCHANGED <<memory, chron, tool, arg, closed, held, history, bounds>>

\* bug: the markers keep no payload, and a restart forgets the seals
Unmerged(found) == sealed

\* setdefault: what is in memory stays
Merged(found) ==
    [a \in Players |-> IF sealed[a] = None /\ found[a] # {}
                       THEN CHOOSE p \in found[a] : TRUE ELSE sealed[a]]

MergeSeals(s) ==
    /\ pc[s] = "merge" /\ Goes(s, "reveals")
    /\ sealed' = Merged(rows[s])
    /\ rows' = [rows EXCEPT ![s] = Blank]
    /\ UNCHANGED <<loaded, revealed, chron, tool, arg, closed, held, history, bounds>>

\* bug: the load counts as done before its second query is answered
LoadedEarly(s) ==
    /\ pc[s] = "reveals" /\ Goes(s, "enter")
    /\ loaded' = TRUE
    /\ closed' = [closed EXCEPT ![s] = (reveals # {})]
    /\ UNCHANGED <<sealed, revealed, chron, tool, arg, rows, held, history, bounds>>

ReadReveals(s) ==
    /\ pc[s] = "reveals" /\ Goes(s, "enter")
    /\ closed' = [closed EXCEPT ![s] = (reveals # {})]
    /\ UNCHANGED <<memory, chron, tool, arg, rows, held, history, bounds>>

\* the load is complete and the call runs on
LoadEnds(s) ==
    /\ pc[s] = "enter" /\ loaded' = TRUE
    /\ Enter(s, sealed, revealed \/ closed[s])
    /\ UNCHANGED <<chron, history, bounds>>

\* the marker is durable and the player is told so
MarkerLands(s) ==
    LET a == Owner[s]
    IN  /\ pc[s] = "marker"
        /\ marks' = [marks EXCEPT ![a] = @ \cup {arg[s]}]
        /\ acked' = [acked EXCEPT ![a] = arg[s]]
        /\ Ends(s)
        /\ UNCHANGED <<memory, reveals, tallies, shown, bounds>>

OpeningLands(s) ==
    /\ pc[s] = "opening"
    /\ reveals' = reveals \cup {held[s]}
    /\ Given(s, held[s])
    /\ UNCHANGED <<memory, marks, tallies, acked, bounds>>

\* a TALLY, never a VERDICT; the referee gets its outcome, and with it the payloads
OutcomeLands(s) ==
    /\ pc[s] = "outcome"
    /\ tallies' = tallies \cup {<<arg[s], Outcome(arg[s], held[s])>>}
    /\ shown' = held[s]
    /\ Ends(s)
    /\ UNCHANGED <<memory, marks, reveals, acked, bounds>>

\* an append raises: the tool answers with an error, the memory keeps what it has
AppendFails(s) ==
    /\ pc[s] \in {"marker", "opening", "outcome"}
    /\ faults < MaxFaults /\ faults' = faults + 1
    /\ Ends(s)
    /\ UNCHANGED <<memory, chron, history, restarts, made>>

\* the operator restarts the realm tools
Restart ==
    /\ restarts < MaxRestarts /\ restarts' = restarts + 1
    /\ loaded' = FALSE /\ sealed' = Nothing /\ revealed' = FALSE
    /\ pc' = [s \in Slots |-> "idle"] /\ tool' = [s \in Slots |-> "status"]
    /\ arg' = [s \in Slots |-> None] /\ rows' = [s \in Slots |-> Blank]
    /\ closed' = [s \in Slots |-> FALSE] /\ held' = [s \in Slots |-> Nothing]
    /\ UNCHANGED <<chron, history, faults, made>>

Step(s) == \/ Begin(s) \/ ReadSeals(s) \/ MergeSeals(s) \/ ReadReveals(s) \/ LoadEnds(s)
           \/ MarkerLands(s) \/ OpeningLands(s) \/ OutcomeLands(s)

Next == (\E s \in Slots : Call(s) \/ Step(s) \/ AppendFails(s)) \/ Restart

Spec == Init /\ [][Next]_vars

-----------------------------------------------------------------------------
(* What the escrow guarantees.                                             *)

TypeOK ==
    /\ sealed \in Shows /\ reveals \subseteq Shows /\ shown \in Shows \cup {None}
    /\ marks \in [Players -> SUBSET Payloads]
    /\ acked \in Shows /\ held \in [Slots -> Shows]
    /\ pc \in [Slots -> Awaits] /\ tool \in [Slots -> Tools]
    /\ tallies \subseteq Rulesets \X (Players \cup Payloads \cup {Tie})

\* Once loaded, the memory has every durable seal and every durable reveal: no call
\* that runs on it can seal twice or reopen a round (escrow.py:54-76).
MemoryCoversChronicle ==
    loaded => /\ \A a \in Players : marks[a] # {} => marks[a] = {sealed[a]}
              /\ reveals # {} => revealed

\* Whatever the referee is given holds every move whose player was told that it is
\* sealed, across restarts, failed appends and calls in flight (escrow.py:54-61).
AckedMovesCount ==
    [][shown' # shown => \A a \in Players : acked[a] # None => shown'[a] = acked[a]]_vars

\* The audited record is the promised one: a move once and for good, one opening, and
\* no contradiction between the two (escrow.py:1-11).
Box == INSTANCE SealedBox WITH box <- marks, opened <- reveals
ImplementsBox == Box!BoxSpec
===============================================================================
