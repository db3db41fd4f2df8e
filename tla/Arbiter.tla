------------------------------ MODULE Arbiter ------------------------------
(***************************************************************************)
(* The referee's tools: scores, flags, penalties, eliminations and the      *)
(* verdict.                                                                 *)
(* realmtools/arbiter.py behind realmtools/server.py.  A referee can have   *)
(* several tool calls in flight; each await on the chronicle is a point     *)
(* where the others run.  The scoreboard is a cache of the realm's score    *)
(* events, filled once per process under a lock.                            *)
(***************************************************************************)
EXTENDS Integers, Sequences, FiniteSets, FiniteSetsExt

CONSTANTS
    Ref,            \* the referee's tool calls that may be in flight at once
    Agent,          \* the participants scores and eliminations name
    Roster,         \* the ids of the caller's token; empty in an old token
    Delta,          \* the amounts scored
    MinRounds,      \* full rounds a verdict must wait for
    None,
    MaxRefCalls,    \* bound: calls of the whole behaviour
    MaxRound,       \* bound: rounds of turns
    MaxRestarts     \* bound: restarts of the realmtools process

ASSUME RefereeAssumption ==
    /\ Delta \subseteq Int /\ Roster \subseteq Agent
    /\ MinRounds \in Nat /\ MaxRound \in Nat /\ IsFiniteSet(Ref)
    /\ None \notin Agent /\ None \notin Ref /\ None \notin [Agent -> Int]

VARIABLES
    board,          \* the cached scoreboard, None while the cache is cold
    fill,           \* the call that holds the fill lock, or None
    call,           \* what each call asks for
    at,             \* the await each call is suspended on
    read,           \* what the query a call is suspended on returned
    scored,         \* sum of the durable score events, per agent
    removals,       \* the durable elimination events: their targets
    flags,          \* violation events per agent
    verdicts,       \* the durable verdicts, oldest first
    round,          \* round of the newest turn event; 0: turns are off
    lost,           \* points on the board whose event the chronicle refused
    refCalls, restarts

arbiterVars == <<board, fill, call, at, read, scored, removals, flags, verdicts,
                 round, lost, refCalls, restarts>>

Zero == [a \in Agent |-> 0]
Board == [Agent -> Int]

\* what the referee may ask for; eliminate also closes a round with nobody
Ask == [op : {"score"}, agent : Agent, by : Delta]
       \cup [op : {"penalize"}, agent : Agent, by : Delta]
       \cup [op : {"flag"}, agent : Agent, by : {0}]
       \cup [op : {"eliminate"}, agent : Agent \cup {None}, by : {0}]
       \cup [op : {"scoreboard", "rule"}, agent : {None}, by : {0}]

NoAsk == [op |-> "none", agent |-> None, by |-> 0]

Init ==
    /\ board = None /\ fill = None
    /\ call = [s \in Ref |-> NoAsk] /\ at = [s \in Ref |-> "idle"]
    /\ read = [s \in Ref |-> None]
    /\ scored = Zero /\ lost = Zero /\ flags = Zero
    /\ removals = <<>> /\ verdicts = <<>>
    /\ round \in {0, 1}
    /\ refCalls = 0 /\ restarts = 0

---------------------------------------------------------------------------
(* One call.  Where(s) is the await it is suspended on.                      *)

Change(ask) == IF ask.op = "penalize" THEN -(IF ask.by < 0 THEN -ask.by ELSE ask.by)
               ELSE ask.by

Added(b, ask) == [b EXCEPT ![ask.agent] = @ + Change(ask)]

\* a call that has its board: a score goes on it at once, a verdict copies it
Use(s, b, ask) ==
    CASE ask.op \in {"score", "penalize"} ->
            /\ board' = Added(b, ask)
            /\ at' = [at EXCEPT ![s] = "append"]
            /\ read' = [read EXCEPT ![s] = None]
      [] ask.op = "rule" ->
            /\ board' = b
            /\ at' = [at EXCEPT ![s] = "append"]
            /\ read' = [read EXCEPT ![s] = b]
      [] OTHER ->
            /\ board' = b
            /\ at' = [at EXCEPT ![s] = "idle"]
            /\ read' = [read EXCEPT ![s] = None]

\* a warm cache answers at once, a cold one queues for the fill lock
NeedBoard(s, ask) ==
    IF board # None
    THEN Use(s, board, ask)
    ELSE /\ at' = [at EXCEPT ![s] = "fill"]
         /\ read' = [read EXCEPT ![s] = None] /\ UNCHANGED board

\* the id of an elimination must be on the roster, when the token has one
Known(agent) == agent = None \/ Roster = {} \/ agent \in Roster

Ends(s) == at' = [at EXCEPT ![s] = "idle"] /\ read' = [read EXCEPT ![s] = None]

\* a tool call of the referee arrives
Asked(s, ask) ==
    /\ at[s] = "idle" /\ refCalls < MaxRefCalls
    /\ refCalls' = refCalls + 1
    /\ call' = [call EXCEPT ![s] = ask]
    /\ CASE ask.op \in {"score", "scoreboard"} -> NeedBoard(s, ask)
         [] ask.op = "penalize" ->
                at' = [at EXCEPT ![s] = "flag"] /\ UNCHANGED <<board, read>>
         [] ask.op = "flag" ->
                at' = [at EXCEPT ![s] = "append"] /\ UNCHANGED <<board, read>>
         [] ask.op = "eliminate" ->
                /\ at' = [at EXCEPT ![s] = IF Known(ask.agent) THEN "append" ELSE "idle"]
                /\ UNCHANGED <<board, read>>
         [] OTHER ->
                at' = [at EXCEPT ![s] = "prior"] /\ UNCHANGED <<board, read>>
    /\ UNCHANGED <<fill, scored, removals, flags, verdicts, round, lost, restarts>>

\* bug: no lock and no second look, every cold call queries for itself
TakeNoLock(s) ==
    /\ at[s] = "fill"
    /\ at' = [at EXCEPT ![s] = "filling"]
    /\ UNCHANGED <<fill, board, read, call, scored, removals, flags, verdicts, round, lost,
                   refCalls, restarts>>

\* the fill lock is free: look again, and query only if the cache is still cold
TakeLock(s) ==
    /\ at[s] = "fill" /\ fill = None
    /\ IF board # None
       THEN Use(s, board, call[s]) /\ UNCHANGED fill
       ELSE /\ fill' = s
            /\ at' = [at EXCEPT ![s] = "filling"]
            /\ UNCHANGED <<board, read>>
    /\ UNCHANGED <<call, scored, removals, flags, verdicts, round, lost, refCalls, restarts>>

\* the query of the score events runs in the database
ScoresRead(s) ==
    /\ at[s] = "filling" /\ read[s] = None
    /\ read' = [read EXCEPT ![s] = scored]
    /\ UNCHANGED <<board, fill, call, at, scored, removals, flags, verdicts, round, lost,
                   refCalls, restarts>>

\* its rows arrive: the board is cached, the lock let go, the call goes on
Filled(s) ==
    /\ at[s] = "filling" /\ read[s] # None
    /\ fill' = None
    /\ Use(s, read[s], call[s])
    /\ UNCHANGED <<call, scored, removals, flags, verdicts, round, lost, refCalls, restarts>>

\* bug: the ruling never looks for an earlier one
PriorSkipped(s) ==
    /\ at[s] = "prior"
    /\ at' = [at EXCEPT ![s] = "turns"]
    /\ UNCHANGED <<read, board, fill, call, scored, removals, flags, verdicts, round, lost,
                   refCalls, restarts>>

\* the verdicts on record: a final one is answered with, and stands
PriorRead(s) ==
    /\ at[s] = "prior"
    /\ IF verdicts # <<>>
       THEN Ends(s)
       ELSE at' = [at EXCEPT ![s] = "turns"] /\ UNCHANGED read
    /\ UNCHANGED <<board, fill, call, scored, removals, flags, verdicts, round, lost,
                   refCalls, restarts>>

\* the newest turn event, which need not carry min_rounds: too early, or on to the
\* scoreboard
TurnsRead(s) ==
    /\ at[s] = "turns"
    /\ \E least \in {0, MinRounds} :
          IF round # 0 /\ round <= least
          THEN Ends(s) /\ UNCHANGED board
          ELSE NeedBoard(s, call[s])
    /\ UNCHANGED <<fill, call, scored, removals, flags, verdicts, round, lost, refCalls,
                   restarts>>

\* the flag of a penalty is durable: the score follows
FlagLands(s) ==
    /\ at[s] = "flag"
    /\ flags' = [flags EXCEPT ![call[s].agent] = @ + 1]
    /\ NeedBoard(s, call[s])
    /\ UNCHANGED <<fill, call, scored, removals, verdicts, round, lost, refCalls, restarts>>

\* the event of the call is durable, and the referee is told
Lands(s) ==
    LET ask == call[s] IN
    /\ at[s] = "append"
    /\ Ends(s)
    /\ scored' = IF ask.op \in {"score", "penalize"}
                 THEN [scored EXCEPT ![ask.agent] = @ + Change(ask)] ELSE scored
    /\ flags' = IF ask.op = "flag"
                THEN [flags EXCEPT ![ask.agent] = @ + 1] ELSE flags
    /\ removals' = IF ask.op = "eliminate" THEN Append(removals, ask.agent) ELSE removals
    /\ verdicts' = IF ask.op = "rule" THEN Append(verdicts, read[s]) ELSE verdicts
    /\ UNCHANGED <<board, fill, call, round, lost, refCalls, restarts>>

\* bug: a call that raises while it fills keeps the lock
CallFailsHolding(s) ==
    /\ at[s] \in {"flag", "append", "filling", "prior", "turns"}
    /\ Ends(s)
    /\ lost' = IF at[s] = "append" /\ call[s].op \in {"score", "penalize"}
               THEN [lost EXCEPT ![call[s].agent] = @ + Change(call[s])] ELSE lost
    /\ UNCHANGED <<board, fill, call, scored, removals, flags, verdicts, round, refCalls,
                   restarts>>

\* the chronicle refuses an event or a query: the call raises where it stands
CallFails(s) ==
    /\ at[s] \in {"flag", "append", "filling", "prior", "turns"}
    /\ Ends(s)
    /\ fill' = IF at[s] = "filling" THEN None ELSE fill
    /\ lost' = IF at[s] = "append" /\ call[s].op \in {"score", "penalize"}
               THEN [lost EXCEPT ![call[s].agent] = @ + Change(call[s])] ELSE lost
    /\ UNCHANGED <<board, call, scored, removals, flags, verdicts, round, refCalls, restarts>>

\* the host opens the next round of turns (external to these tools)
RoundOpens ==
    /\ round \in 1 .. MaxRound - 1
    /\ round' = round + 1
    /\ UNCHANGED <<board, fill, call, at, read, scored, removals, flags, verdicts, lost,
                   refCalls, restarts>>

\* the process goes down with its cache and every call in flight
ArbiterRestart ==
    /\ restarts < MaxRestarts /\ restarts' = restarts + 1
    /\ board' = None /\ fill' = None
    /\ at' = [s \in Ref |-> "idle"] /\ read' = [s \in Ref |-> None]
    /\ lost' = Zero
    /\ UNCHANGED <<call, scored, removals, flags, verdicts, round, refCalls>>

CallStep(s) == TakeLock(s) \/ ScoresRead(s) \/ Filled(s) \/ PriorRead(s) \/ TurnsRead(s)
               \/ FlagLands(s) \/ Lands(s)

Next ==
    \/ \E s \in Ref : \E ask \in Ask : Asked(s, ask)
    \/ \E s \in Ref : CallStep(s) \/ CallFails(s)
    \/ RoundOpens \/ ArbiterRestart

\* the event loop resumes every call whose await completes, and the lock is fair
Fairness == \A s \in Ref : WF_arbiterVars(CallStep(s)) /\ SF_arbiterVars(TakeLock(s))

Spec == Init /\ [][Next]_arbiterVars /\ Fairness

---------------------------------------------------------------------------
(* Properties.                                                               *)

\* the score of an agent that calls have put on the board and not yet recorded
InFlight(a) ==
    MapThenSumSet(LAMBDA s : Change(call[s]),
        {s \in Ref : at[s] = "append" /\ call[s].op \in {"score", "penalize"}
                     /\ call[s].agent = a})

\* The cached board is the score events replayed, plus the increments whose
\* events are on their way, plus those the chronicle refused: no interleaving of
\* calls on a cold or a warm board loses an increment or counts one twice
\* (arbiter.py:47-71, 82).
BoardCoversChronicle ==
    board # None => \A a \in Agent : board[a] = scored[a] + InFlight(a) + lost[a]

\* Two rulings in flight together may both be recorded, but a ruling asked for
\* once a verdict is on record adds none: there are never more verdicts than
\* calls that can overlap (arbiter.py:148-152).
OnlyOverlappingVerdicts == Len(verdicts) <= Cardinality(Ref)

\* Every call of the referee is answered, one way or the other: the fill lock
\* is let go by the call that raises as well (arbiter.py:60-71).
CallsEnd == \A s \in Ref : at[s] # "idle" ~> at[s] = "idle"
=============================================================================
