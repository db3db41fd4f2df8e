---------------------------- MODULE MachineService ----------------------------
(***************************************************************************)
(* The machine service of one realm (realmtools/machine_service.py): one   *)
(* live state in memory, rebuilt from the chronicle when there is none,    *)
(* writers serialised by the realm's lock, and readers that do not take it.*)
(*                                                                         *)
(* Every await is a point where others run.  A query of the chronicle is   *)
(* two steps, the moment the database answers and the moment the coroutine *)
(* goes on; so is an append, the moment the row is durable and the moment  *)
(* the writer goes on.  The lock is asyncio's, first come first served.    *)
(* The MACHINE record is in place before the first call and is not read    *)
(* again here; a write the size limits refuse before the lock is left out. *)
(***************************************************************************)
EXTENDS GameMachine

CONSTANTS
    Writers,    \* the coroutines that serve game_act and game_set
    Readers,    \* the callers of game_state, each paging through the log
    Calls,      \* the calls the agents may make
    Players,    \* who may seal a round
    Rounds,     \* the escrow rounds
    PageLimit,  \* log_limit of a reader
    MaxRows,    \* bound: GAME rows, those still to be appended included
    MaxReads,   \* bound: the pages one reader asks for
    MaxFails,   \* bound: appends that fail and writers that are cancelled
    Restarts,   \* bound: restarts of the process
    Cancels     \* BOOLEAN: a writer may be lost after its row became durable

ASSUME ServiceAssumption ==
    /\ {PageLimit, MaxRows, MaxReads, MaxFails, Restarts} \subseteq Nat /\ PageLimit > 0
    /\ Cancels \in BOOLEAN
    /\ Writers \cap Readers = {} /\ None \notin Writers
    /\ \A c \in Calls : c.op \in {"act", "set"}

VARIABLES
    rows,       \* the GAME rows of the chronicle
    sealed,     \* escrow: round -> who has sealed it
    cached,     \* there is a live state in memory
    live,       \* that state
    queue,      \* the writers waiting for the lock, in order
    holder,     \* the writer that has the lock, None when it is free
    pc,         \* where each writer and reader is
    snap,       \* what a load under way has rebuilt
    job,        \* writer: its call, the seals it has looked up, the outcome decided
    heard,      \* reader: how many rows its log query returned
    since,      \* reader: the cursor of its next page
    got,        \* history: the rows each reader was given
    durable,    \* history: the state after the accepted rows
    reads,      \* bound: pages asked for by each reader
    fails,      \* bound: failed appends and cancelled writers
    starts      \* bound: restarts

chronicle  == <<rows, durable>>
memory     == <<cached, live>>
lock       == <<queue, holder>>
pages      == <<since, got, reads>>
bounds     == <<fails, starts>>
vars == <<chronicle, sealed, memory, lock, pc, snap, job, heard, pages, bounds>>

Actors == Writers \cup Readers
NoJob  == [call |-> None, escrow |-> Empty, out |-> None]

Init ==
    /\ rows = <<>> /\ durable = InitialState
    /\ sealed = [r \in Rounds |-> {}]
    /\ cached = FALSE /\ live = InitialState /\ queue = <<>> /\ holder = None
    /\ pc = [x \in Actors |-> "idle"] /\ snap = [x \in Actors |-> None]
    /\ job = [w \in Writers |-> NoJob]
    /\ heard = [x \in Readers |-> 0] /\ since = [x \in Readers |-> 0]
    /\ got = [x \in Readers |-> {}] /\ reads = [x \in Readers |-> 0]
    /\ fails = 0 /\ starts = 0

Goto(x, label) == pc' = [pc EXCEPT ![x] = label]

Finish(w) == Goto(w, "idle") /\ job' = [job EXCEPT ![w] = NoJob]

-----------------------------------------------------------------------------
(* _get and _load: used by writers, under the lock, and by readers.        *)

\* after _get: a writer looks its seals up, a reader queries the log
Loaded(x) == IF x \in Writers THEN "escrow" ELSE "log"

\* bug: the loader overwrites what was cached while it was loading
CacheLast(x) == cached' = TRUE /\ live' = snap[x].state

\* setdefault: an entry that appeared during the load is never replaced
Cache(x) == cached' = TRUE /\ live' = IF cached THEN live ELSE snap[x].state

\* the database answers with the rows of this moment; replay rebuilds the state
LoadQuery(x) ==
    /\ pc[x] = "load"
    /\ snap' = [snap EXCEPT ![x] = Replay(rows)]
    /\ Goto(x, "loaded")
    /\ UNCHANGED <<chronicle, sealed, memory, lock, job, heard, pages, bounds>>

LoadResume(x) ==
    /\ pc[x] = "loaded" /\ snap[x].ok
    /\ Cache(x)
    /\ snap' = [snap EXCEPT ![x] = None]
    /\ Goto(x, Loaded(x))
    /\ UNCHANGED <<chronicle, sealed, lock, job, heard, pages, bounds>>

\* ReplayError leaves the call, and the lock with it
LoadRaises(x) ==
    /\ pc[x] = "loaded" /\ ~snap[x].ok
    /\ snap' = [snap EXCEPT ![x] = None]
    /\ holder' = IF holder = x THEN None ELSE holder
    /\ job' = [w \in Writers |-> IF w = x THEN NoJob ELSE job[w]]
    /\ Goto(x, "idle")
    /\ UNCHANGED <<chronicle, sealed, memory, queue, heard, pages, bounds>>

-----------------------------------------------------------------------------
(* act and set.                                                            *)

Busy == {w \in Writers : pc[w] # "idle"}

Request(w, c) ==
    /\ pc[w] = "idle" /\ Len(rows) + Cardinality(Busy) < MaxRows
    /\ job' = [job EXCEPT ![w].call = c]
    /\ queue' = Append(queue, w)
    /\ Goto(w, "queued")
    /\ UNCHANGED <<chronicle, sealed, memory, holder, snap, heard, pages, bounds>>

\* bug: the check and the write are not serialised
LockIgnored(w) == TRUE

LockFree(w) == holder = None /\ w = Head(queue)

Acquire(w) ==
    /\ pc[w] = "queued" /\ LockFree(w)
    /\ holder' = w
    /\ queue' = RemoveFirst(queue, w)
    /\ Goto(w, IF ~cached THEN "load" ELSE "escrow")
    /\ UNCHANGED <<chronicle, sealed, memory, snap, job, heard, pages, bounds>>

\* the rounds of the transition's escrow guards and of the wake rules, resolved for the caller
RoundsOf(w) ==
    LET c    == job[w].call
        ctx  == Ctx(c.caller, IF c.op = "act" THEN c.args ELSE Empty, Empty)
        own  == IF c.op = "act" /\ c.name \in DOMAIN Decl.transitions
                THEN ToSet(Decl.transitions[c.name].guard) ELSE {}
        wake == UNION {ToSet(x.when) \cup ToSet(x.unless) : x \in Decl.wake}
    IN  {Resolve(g.round, ctx, live) : g \in {g \in own \cup wake : g.kind = "escrow_complete"}}

\* one lookup per round, each at its own moment
LookUp(w) ==
    /\ pc[w] = "escrow"
    /\ \E r \in RoundsOf(w) \ DOMAIN job[w].escrow :
         job' = [job EXCEPT ![w].escrow = Put(@, r, IF r \in Rounds THEN sealed[r] ELSE {})]
    /\ UNCHANGED <<chronicle, sealed, memory, lock, pc, snap, heard, pages, bounds>>

\* the engine decides on the live state and the append begins
Decide(w) ==
    /\ pc[w] = "escrow" /\ RoundsOf(w) \subseteq DOMAIN job[w].escrow
    /\ job' = [job EXCEPT ![w].out = Apply(live, job[w].call, job[w].escrow)]
    /\ Goto(w, "append")
    /\ UNCHANGED <<chronicle, sealed, memory, lock, snap, heard, pages, bounds>>

\* the row is durable, and the writer does not know it yet
AppendLands(w) ==
    /\ pc[w] = "append"
    /\ rows' = Append(rows, job[w].out.row)
    /\ durable' = IF job[w].out.ok THEN job[w].out.state ELSE durable
    /\ Goto(w, "landed")
    /\ UNCHANGED <<sealed, memory, lock, snap, job, heard, pages, bounds>>

\* bug: a failed append leaves the realm locked
LockKept == UNCHANGED holder

LockReleased == holder' = None

\* the append raises, before the row is durable or (a cancelled call, a connection
\* lost after the commit) once it is; the lock is released and memory is as it was
AppendFails(w) ==
    /\ fails < MaxFails
    /\ pc[w] = "append" \/ (Cancels /\ pc[w] = "landed")
    /\ fails' = fails + 1
    /\ LockReleased
    /\ Finish(w)
    /\ UNCHANGED <<chronicle, sealed, memory, queue, snap, heard, pages, starts>>

\* applied AFTER the append landed
Commit(w) ==
    /\ pc[w] = "landed"
    /\ live' = IF job[w].out.ok THEN job[w].out.state ELSE live
    /\ holder' = None
    /\ Finish(w)
    /\ UNCHANGED <<chronicle, sealed, cached, queue, snap, heard, pages, bounds>>

-----------------------------------------------------------------------------
(* state: the log is fetched before the view is taken.                     *)

Read(x) ==
    /\ pc[x] = "idle" /\ reads[x] < MaxReads
    /\ reads' = [reads EXCEPT ![x] = @ + 1]
    /\ Goto(x, IF ~cached THEN "load" ELSE "log")
    /\ UNCHANGED <<chronicle, sealed, memory, lock, snap, job, heard, since, got, bounds>>

LogQuery(x) ==
    /\ pc[x] = "log"
    /\ heard' = [heard EXCEPT ![x] = Len(rows)]
    /\ Goto(x, "view")
    /\ UNCHANGED <<chronicle, sealed, memory, lock, snap, job, pages, bounds>>

\* the rows after the cursor that the caller may see
Visible(x) == {i \in (since[x] + 1)..heard[x] : RowShown(rows[i], x)}

\* the first of them, up to the limit
Page(x) == {i \in Visible(x) : Cardinality({j \in Visible(x) : j <= i}) <= PageLimit}

\* bug: the result is capped and the cursor runs on to the end of the scan
PageEndLast(x) == heard[x]

\* the scan stops at the row that fills the page
PageEnd(x) ==
    IF Cardinality(Page(x)) = PageLimit THEN CHOOSE i \in Page(x) : \A j \in Page(x) : j <= i
    ELSE heard[x]

Respond(x) ==
    /\ pc[x] = "view"
    /\ got' = [got EXCEPT ![x] = @ \cup Page(x)]
    /\ since' = [since EXCEPT ![x] = PageEnd(x)]
    /\ heard' = [heard EXCEPT ![x] = 0]
    /\ Goto(x, "idle")
    /\ UNCHANGED <<chronicle, sealed, memory, lock, snap, job, reads, bounds>>

-----------------------------------------------------------------------------
(* The other actors.                                                       *)

Seal(r, a) ==
    /\ a \notin sealed[r]
    /\ sealed' = [sealed EXCEPT ![r] = @ \cup {a}]
    /\ UNCHANGED <<chronicle, memory, lock, pc, snap, job, heard, pages, bounds>>

\* the process dies: what is in memory goes, and every call in flight with it
Restart ==
    /\ starts < Restarts
    /\ starts' = starts + 1
    /\ cached' = FALSE /\ live' = InitialState /\ queue' = <<>> /\ holder' = None
    /\ pc' = [x \in Actors |-> "idle"] /\ snap' = [x \in Actors |-> None]
    /\ job' = [w \in Writers |-> NoJob]
    /\ heard' = [x \in Readers |-> 0]
    /\ UNCHANGED <<chronicle, sealed, pages, fails>>

LoadStep(x) == LoadQuery(x) \/ LoadResume(x) \/ LoadRaises(x)

WriterStep(w) == Acquire(w) \/ LoadStep(w) \/ LookUp(w) \/ Decide(w) \/ AppendLands(w) \/ Commit(w)

ReaderStep(x) == Read(x) \/ LoadStep(x) \/ LogQuery(x) \/ Respond(x)

Next == \/ \E w \in Writers : WriterStep(w) \/ AppendFails(w) \/ \E c \in Calls : Request(w, c)
        \/ \E x \in Readers : ReaderStep(x)
        \/ \E r \in Rounds, a \in Players : Seal(r, a)
        \/ Restart

Spec == Init /\ [][Next]_vars

\* every await of a writer comes back: the chronicle answers, and the escrow lookup
\* must not hang (machine_service.py:26-27)
Fairness == \A w \in Writers : WF_vars(WriterStep(w))

FairSpec == Spec /\ Fairness

-----------------------------------------------------------------------------
(* The rule a declaration keeps for its chronicle to replay.               *)

\* Two escrow guards of one transition that is called expect the same players, or name
\* different rounds: replay keeps one set of seals per round.
SealsApart ==
    \A c \in Calls : c.op = "act" /\ c.name \in DOMAIN Decl.transitions =>
        LET guard == Decl.transitions[c.name].guard IN
        \A i, j \in DOMAIN guard :
            guard[i].kind = "escrow_complete" /\ guard[j].kind = "escrow_complete" =>
                \/ guard[i].over = guard[j].over /\ guard[i].minus = guard[j].minus
                \/ /\ guard[i].round.ref = "lit" /\ guard[j].round.ref = "lit"
                   /\ guard[i].round.value # guard[j].round.value

-----------------------------------------------------------------------------
(* What the service must guarantee.                                        *)

\* Memory and chronicle agree whenever no row is durable and not yet applied: a
\* cold reader that loads while a writer appends never clobbers the newer state
\* (setdefault in _get, machine_service.py:121-130).
LiveFollowsLog ==
    cached /\ (\A w \in Writers : pc[w] # "landed") => live = durable

\* Every chronicle the service writes replays, to the state the accepted calls left:
\* rows accepted on seals that replay cannot look up again included
\* (replay and _escrow_that_held, machine.py:434-494).
LogReplays == Replay(rows) = Walked(durable)

\* Paging through the log skips nothing the caller may see: every visible row up to
\* the cursor was in some page (machine_service.py:166-179).
PagingSkipsNothing ==
    \A x \in Readers : \A i \in 1..since[x] : RowShown(rows[i], x) => i \in got[x]

\* The coroutines, the lock and the loads implement a machine that serves one call at a
\* time: no row is decided on a state that has moved on, whatever interleaves with the
\* awaits of its writer, and what becomes durable is, row by row, what the engine makes
\* of the state the row before it left, on seals that were made (the lock around check
\* and append, machine_service.py:192-207).
Serial == INSTANCE SerialMachine
              WITH state <- durable, log <- rows, Start <- InitialState, Outcome <- Apply
ImplementsSerial == Serial!SerialSpec

\* Every call that waits for the lock is answered, whatever fails before it.
CallsAnswered == \A w \in Writers : pc[w] = "queued" ~> pc[w] = "idle"
================================================================================
