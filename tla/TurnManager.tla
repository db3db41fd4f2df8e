----------------------------- MODULE TurnManager -----------------------------
(***************************************************************************)
(* Turn management of a realm: the host's TurnManager (warden/turns.py),   *)
(* the tick that drives it (LiveSnapshot, gatekeeper/runner.py), the gate  *)
(* it works at the Matrix homeserver, and what the referee's tools make of *)
(* it through the chronicle: `eliminate`, and the guard of `rule`.         *)
(*                                                                         *)
(* The host is one coroutine.  What it computes between two awaits is one  *)
(* step; each await that changes something outside (a power-level write, a *)
(* chronicle append, a cue) is a step of its own, named by pc, so agents   *)
(* and referee act in between and any of them may raise.  Prompts to a     *)
(* slow holder and the text of a message change no state and are left out; *)
(* a message that is not speech (a status line, a leaked tool call) is     *)
(* never observed as a post and is not modelled.                           *)
(***************************************************************************)
EXTENDS Integers, Sequences, SequencesExt

CONSTANTS
    InitOrder,    \* the participants in turn order, the referee excluded
    Referee,      \* the referee, outside the rotation
    NoOne,        \* an ELIMINATION that removes nobody: "round closed"
    Nobody,       \* the gate of a muted room
    Everyone,     \* the gate of an open room
    Driving,      \* BOOLEAN: play waits on the referee (referee_opens)
    RetireAfter,  \* consecutive misses that retire a participant, 0 = never
    MinRounds,    \* rounds that must complete before a verdict
    MaxRounds,    \* bound: the host stops ticking past this round
    MaxInbox,     \* bound: posts the host has not observed yet
    MaxElims,     \* bound: ELIMINATION events of the realm
    Faults,       \* BOOLEAN: an await of the host may raise
    Repeats       \* BOOLEAN: an elimination may be repeated before the host sees it

Participants == ToSet(InitOrder)

ASSUME TurnAssumption ==
    /\ InitOrder \in Seq(Participants)
    /\ \A i, j \in 1..Len(InitOrder) : InitOrder[i] = InitOrder[j] => i = j
    /\ {Referee, NoOne, Nobody, Everyone} \cap Participants = {}
    /\ Nobody # Everyone
    /\ {Driving, Faults, Repeats} \subseteq BOOLEAN
    /\ {RetireAfter, MinRounds, MaxRounds, MaxInbox, MaxElims} \subseteq Nat

VARIABLES
    order,      \* participants still in the rotation, in turn order
    position,   \* index of the holder in order, from 0
    round,      \* round in progress, from 1
    misses,     \* participant -> consecutive full-timeout misses
    awaiting,   \* "opener"/"round" while the referee is awaited, else "none"
    started,    \* the rotation is running
    roundMsgs,  \* the posts the referee will be shown for this round
    waited,     \* the silence timeout has run since turn_start
    pc,         \* the await the host is at
    phase,      \* which call the host is in: "start", "observe", "apply"
    completed,  \* the round whose boundary is being worked, 0 = none
    held,       \* apply_resolutions: the holder when it was called
    batch,      \* apply_resolutions: ids of the events still to enforce
    applied,    \* ids of the ELIMINATION events already taken up
    gate,       \* who the homeserver lets post
    inbox,      \* posts that landed and were not observed yet
    elimLog,    \* the ELIMINATION events of the chronicle
    turnLog,    \* [round, min] of the latest TURN event; round 0 = no event
    cued,       \* the last completed round the referee was cued about
    had,        \* history: who was granted the floor in this round
    spoke,      \* history: the one the gate admits has posted since it was granted
    raised      \* history: some step of the host raised

manager == <<order, position, round, misses, awaiting, started, roundMsgs, waited>>
control == <<pc, phase, completed, held, batch, applied>>
bus     == <<gate, inbox>>
log     == <<elimLog, turnLog, cued>>
history == <<had, spoke, raised>>
vars    == <<manager, control, bus, log, history>>

Post   == [from : Participants \cup {Referee}, again : BOOLEAN]
Labels == {"boot", "idle", "retired", "complete", "mute", "cue", "lapse", "grant",
           "turn", "open", "elims", "pop", "removed", "stopped"}

Init ==
    /\ order = InitOrder /\ position = 0 /\ round = 1
    /\ misses = [p \in Participants |-> 0]
    /\ awaiting = "none" /\ started = FALSE /\ roundMsgs = {} /\ waited = FALSE
    /\ pc = "boot" /\ phase = "start" /\ completed = 0
    /\ held = Nobody /\ batch = {} /\ applied = {}
    /\ gate = Nobody /\ inbox = <<>>
    /\ elimLog = <<>> /\ turnLog = [round |-> 0, min |-> 0] /\ cued = 0
    /\ had = {} /\ spoke = FALSE /\ raised = FALSE

-----------------------------------------------------------------------------
(* Shared pieces of the handlers.                                          *)

InRange == position < Len(order)
Holder  == order[position + 1]
Senders(posts) == {m.from : m \in posts}

\* where the host goes when the call it is in returns
Return == IF phase = "observe" THEN "elims" ELSE "idle"

\* the TURN record of an ordinary grant or boundary, and of the others
\* ("removed", "retired", "referee_timeout"), which carry no min_rounds
Full == [round |-> round, min |-> MinRounds]
Bare == [round |-> round, min |-> 0]

\* each sender's first post joins the round unless the sender is already in it
Tallied ==
    LET first(i) == \A j \in 1..(i - 1) : inbox[j].from # inbox[i].from
    IN  roundMsgs \cup {inbox[i] : i \in {k \in DOMAIN inbox :
            first(k) /\ inbox[k].from \notin Senders(roundMsgs)}}

\* _roll_round_if_wrapped at index i, and the await that follows it
PassOn(i) ==
    IF i < Len(order)
    THEN /\ position' = i
         /\ completed' = 0
         /\ pc' = "grant"
         /\ UNCHANGED <<round, had>>
    ELSE /\ position' = 0
         /\ completed' = round
         /\ round' = round + 1
         /\ had' = {}
         /\ pc' = "complete"

\* the exception leaves the call; only the tick loop swallows it
Raise == /\ pc' = IF phase = "start" THEN "stopped" ELSE "idle"
         /\ batch' = {}
         /\ raised' = TRUE

-----------------------------------------------------------------------------
(* start(): after kickoff, before the watch loop.                          *)

Start ==
    /\ pc = "boot"
    /\ started' = (order # <<>>)
    /\ waited' = FALSE
    /\ awaiting' = IF order # <<>> /\ Driving THEN "opener" ELSE "none"
    /\ pc' = IF order = <<>> THEN "idle" ELSE IF Driving THEN "mute" ELSE "grant"
    /\ UNCHANGED <<order, position, round, misses, roundMsgs, phase, completed, held,
                   batch, applied, bus, log, history>>

-----------------------------------------------------------------------------
(* observe(): the posts that landed since the last tick.                   *)

Consume == /\ pc = "idle"
           /\ round <= MaxRounds
           /\ started /\ order # <<>>
           /\ phase' = "observe"
           /\ inbox' = <<>>
           /\ UNCHANGED <<applied, held, gate, log, spoke>>

ObserveLive == /\ Consume
               /\ awaiting = "none"
               /\ roundMsgs' = Tallied
               /\ UNCHANGED <<awaiting, started>>

\* the holder spoke: its miss streak ends and the floor moves on
ObserveSpoke ==
    /\ ObserveLive
    /\ InRange /\ Holder \in Senders(ToSet(inbox))
    /\ misses' = [misses EXCEPT ![Holder] = 0]
    /\ waited' = FALSE
    /\ PassOn(position + 1)
    /\ UNCHANGED <<order, batch, raised>>

\* the holder let the timeout pass: skipped, or retired after enough misses
ObserveTimeout ==
    /\ ObserveLive
    /\ InRange /\ Holder \notin Senders(ToSet(inbox)) /\ waited
    /\ misses' = [misses EXCEPT ![Holder] = @ + 1]
    /\ IF RetireAfter > 0 /\ misses[Holder] + 1 >= RetireAfter
       THEN /\ order' = RemoveAt(order, position + 1)
            /\ pc' = "retired"
            /\ UNCHANGED <<position, round, waited, completed, had>>
       ELSE /\ PassOn(position + 1)
            /\ waited' = FALSE
            /\ UNCHANGED order
    /\ UNCHANGED <<batch, raised>>

ObserveQuiet ==
    /\ ObserveLive
    /\ InRange /\ Holder \notin Senders(ToSet(inbox)) /\ ~waited
    /\ pc' = "elims"
    /\ UNCHANGED <<order, position, round, misses, waited, completed, batch, had, raised>>

\* no holder at this position: order[position] raises IndexError
ObserveOutOfRange ==
    /\ ObserveLive
    /\ ~InRange
    /\ Raise
    /\ UNCHANGED <<order, position, round, misses, waited, completed, had>>

\* bug: the rotation resumes and nobody is granted the floor
ResumeUngranted == /\ awaiting' = "none"
                   /\ position' = IF InRange THEN position ELSE 0
                   /\ waited' = FALSE
                   /\ pc' = Return

\* _resume: the rotation reopens on the current roster
Resume == /\ awaiting' = "none"
          /\ position' = IF InRange THEN position ELSE 0
          /\ waited' = FALSE
          /\ pc' = "grant"

\* _observe_awaiting: the referee's own post, the timeout, or neither
ObserveAwaiting ==
    /\ Consume
    /\ awaiting # "none"
    /\ completed' = 0
    /\ UNCHANGED <<order, round, misses, started, roundMsgs, batch, had, raised>>

ObserveReferee ==
    /\ ObserveAwaiting
    /\ Referee \in Senders(ToSet(inbox))
    /\ Resume

\* bug: a referee that never posts is awaited for ever
NoLapse == FALSE

ObserveLapse ==
    /\ ObserveAwaiting
    /\ Referee \notin Senders(ToSet(inbox)) /\ waited
    /\ pc' = "lapse"
    /\ UNCHANGED <<awaiting, position, waited>>

ObserveWait ==
    /\ ObserveAwaiting
    /\ Referee \notin Senders(ToSet(inbox)) /\ ~waited
    /\ pc' = "elims"
    /\ UNCHANGED <<awaiting, position, waited>>

\* the rotation is not running: observe returns at once
ObserveOver ==
    /\ pc = "idle"
    /\ round <= MaxRounds
    /\ ~started \/ order = <<>>
    /\ pc' = "elims"
    /\ phase' = "observe"
    /\ UNCHANGED <<manager, completed, held, batch, applied, bus, log, history>>

Observe == \/ ObserveSpoke \/ ObserveTimeout \/ ObserveQuiet \/ ObserveOutOfRange
           \/ ObserveReferee \/ ObserveLapse \/ ObserveWait \/ ObserveOver

-----------------------------------------------------------------------------
(* The awaits of _advance, _resume and _grant.                             *)

AppendRetired ==
    /\ pc = "retired"
    /\ turnLog' = Bare
    /\ IF order = <<>>
       THEN /\ started' = FALSE
            /\ pc' = "open"
            /\ UNCHANGED <<position, round, completed, had, waited>>
       ELSE /\ PassOn(position)
            /\ waited' = FALSE
            /\ UNCHANGED started
    /\ UNCHANGED <<order, misses, awaiting, roundMsgs, phase, held, batch, applied, bus,
                   elimLog, cued, spoke, raised>>

AppendLapse ==
    /\ pc = "lapse"
    /\ turnLog' = Bare
    /\ Resume
    /\ UNCHANGED <<order, round, misses, started, roundMsgs, phase, completed, held, batch,
                   applied, bus, elimLog, cued, history>>

\* round_complete is chronicled before any grant or cue.  _advance then pauses
\* for a driving referee; apply_resolutions drops the round's posts and grants.
AppendComplete ==
    /\ pc = "complete"
    /\ turnLog' = Full
    /\ IF phase = "observe"
       THEN /\ awaiting' = IF Driving THEN "round" ELSE awaiting
            /\ pc' = IF Driving THEN "mute" ELSE "grant"
            /\ UNCHANGED <<roundMsgs, completed, waited>>
       ELSE /\ roundMsgs' = {}
            /\ completed' = 0
            /\ waited' = FALSE
            /\ pc' = "grant"
            /\ UNCHANGED awaiting
    /\ UNCHANGED <<order, position, round, misses, started, phase, held, batch, applied, bus,
                   elimLog, cued, had, spoke, raised>>

MuteAll ==
    /\ pc = "mute"
    /\ gate' = Nobody
    /\ pc' = IF completed > 0 THEN "cue" ELSE Return
    /\ UNCHANGED <<manager, phase, completed, held, batch, applied, inbox, log,
                   history>>

Grant ==
    /\ pc = "grant"
    /\ gate' = Holder
    /\ had' = had \cup {Holder}
    /\ spoke' = FALSE
    /\ pc' = "turn"
    /\ UNCHANGED <<manager, phase, completed, held, batch, applied, inbox, log, raised>>

\* the announcement and the TURN event; a failed announcement loses both
AppendTurn ==
    /\ pc = "turn"
    /\ turnLog' = Full
    /\ pc' = IF completed > 0 THEN "cue" ELSE Return
    /\ UNCHANGED <<manager, phase, completed, held, batch, applied, bus, elimLog, cued,
                   history>>

\* the referee is shown the round that completed, and the next one starts clean
CueReferee ==
    /\ pc = "cue"
    /\ cued' = completed
    /\ roundMsgs' = {}
    /\ pc' = Return
    /\ UNCHANGED <<order, position, round, misses, awaiting, started, waited, phase, completed,
                   held, batch, applied, bus, elimLog, turnLog, history>>

OpenAll ==
    /\ pc = "open"
    /\ gate' = Everyone
    /\ pc' = Return
    /\ UNCHANGED <<manager, phase, completed, held, batch, applied, inbox, log,
                   history>>

-----------------------------------------------------------------------------
(* The elimination half of the tick, and apply_resolutions().              *)

Fresh == (1..Len(elimLog)) \ applied

\* the new events are marked applied before they are enforced
ReadEliminations ==
    /\ pc = "elims"
    /\ applied' = applied \cup Fresh
    /\ completed' = 0
    /\ IF Fresh = {} \/ ~started
       THEN /\ pc' = "idle"
            /\ UNCHANGED <<phase, held, batch, raised>>
       ELSE /\ phase' = "apply"
            /\ IF order # <<>> /\ ~InRange
               THEN Raise /\ UNCHANGED held
               ELSE /\ held' = IF order = <<>> THEN Nobody ELSE Holder
                    /\ batch' = {i \in Fresh : elimLog[i] \in ToSet(order)}
                    /\ pc' = "pop"
                    /\ UNCHANGED raised
    /\ UNCHANGED <<manager, bus, log, had, spoke>>

\* bugs: the holder's own removal moves the pointer back, or no removal moves it
ReseatNever(k)    == position
ReseatPastZero(k) == IF k - 1 <= position THEN position - 1 ELSE position

\* keep pointing at the same upcoming holder when index k (from 1) is popped
Reseat(k) == IF k - 1 < position THEN position - 1 ELSE position

\* the next named player leaves the rotation; a name no longer there raises
PopPlayer ==
    /\ pc = "pop"
    /\ \E i \in batch :
         /\ \A j \in batch : i <= j
         /\ IF elimLog[i] \in ToSet(order)
            THEN \E k \in 1..Len(order) :
                    /\ order[k] = elimLog[i]
                    /\ order' = RemoveAt(order, k)
                    /\ position' = Reseat(k)
                    /\ misses' = [misses EXCEPT ![elimLog[i]] = 0]
                    /\ batch' = batch \ {i}
                    /\ pc' = "removed"
                    /\ UNCHANGED raised
            ELSE Raise /\ UNCHANGED <<order, position, misses>>
    /\ UNCHANGED <<round, awaiting, started, roundMsgs, waited, phase, completed, held, applied,
                   bus, log, had, spoke>>

AppendRemoved ==
    /\ pc = "removed"
    /\ turnLog' = Bare
    /\ pc' = "pop"
    /\ UNCHANGED <<manager, phase, completed, held, batch, applied, bus, elimLog, cued,
                   history>>

ResolvedEmpty ==
    /\ order = <<>>
    /\ started' = FALSE
    /\ pc' = "open"
    /\ UNCHANGED <<position, round, awaiting, waited, completed, had>>

ResolvedBoundary ==
    /\ order # <<>> /\ awaiting = "round"
    /\ Resume
    /\ UNCHANGED <<round, started, completed, had>>

ResolvedWrap ==
    /\ order # <<>> /\ awaiting = "none" /\ ~InRange
    /\ PassOn(position)
    /\ UNCHANGED <<awaiting, started, waited>>

\* bug: the floor is handed on although its holder is still in the rotation
HandOnAnyway ==
    /\ order # <<>> /\ awaiting = "none" /\ InRange
    /\ waited' = FALSE
    /\ pc' = "grant"
    /\ UNCHANGED <<position, round, awaiting, started, completed, had>>

ResolvedHandOn ==
    /\ order # <<>> /\ awaiting = "none" /\ InRange /\ Holder # held
    /\ waited' = FALSE
    /\ pc' = "grant"
    /\ UNCHANGED <<position, round, awaiting, started, completed, had>>

ResolvedQuiet ==
    /\ order # <<>>
    /\ awaiting = "opener" \/ (awaiting = "none" /\ InRange /\ Holder = held)
    /\ pc' = "idle"
    /\ UNCHANGED <<position, round, awaiting, started, waited, completed, had>>

ResolveBatch ==
    /\ pc = "pop" /\ batch = {}
    /\ ResolvedEmpty \/ ResolvedBoundary \/ ResolvedWrap \/ ResolvedHandOn \/ ResolvedQuiet
    /\ UNCHANGED <<order, misses, roundMsgs, phase, held, batch, applied, bus, log, spoke, raised>>

-----------------------------------------------------------------------------
(* The other actors.                                                       *)

Running == pc \notin {"boot", "stopped"}

\* the await the host is at raises: the rest of the tick's work is lost
HostFault ==
    /\ Faults
    /\ pc \in {"retired", "complete", "mute", "cue", "lapse", "grant", "turn", "open", "removed"}
    /\ Raise
    /\ UNCHANGED <<manager, phase, completed, held, applied, bus, log, had, spoke>>

\* open_all() when the Warden concludes; no tick follows
Conclude ==
    /\ pc = "idle"
    /\ gate' = Everyone
    /\ pc' = "stopped"
    /\ UNCHANGED <<manager, phase, completed, held, batch, applied, inbox, log,
                   history>>

SilencePasses ==
    /\ started /\ ~waited /\ pc # "stopped"
    /\ waited' = TRUE
    /\ UNCHANGED <<order, position, round, misses, awaiting, started, roundMsgs, control, bus,
                   log, history>>

\* the homeserver accepts a post from the referee, or from whom the gate admits
Speak(p) ==
    /\ Running
    /\ p = Referee \/ gate = p \/ gate = Everyone
    /\ Len(inbox) < MaxInbox
    /\ inbox' = Append(inbox, [from |-> p, again |-> gate = p /\ spoke])
    /\ spoke' = (spoke \/ gate = p)
    /\ UNCHANGED <<manager, control, gate, log, had, raised>>

\* the referee's tool; without Repeats the referee never names a player whose
\* elimination the host has not taken up yet
Eliminate(p) ==
    /\ Running
    /\ Len(elimLog) < MaxElims
    /\ Repeats \/ p = NoOne \/ \A i \in Fresh \cup batch : elimLog[i] # p
    /\ elimLog' = Append(elimLog, p)
    /\ UNCHANGED <<manager, control, bus, turnLog, cued, history>>

\* bug: the guard wants one round more than the host completed
TooEarlyByOne == turnLog.round > 0 /\ turnLog.round <= turnLog.min + 1

\* the Arbiter's guard on a first verdict, read off the latest TURN event
TooEarly == turnLog.round > 0 /\ turnLog.round <= turnLog.min

HostStep == \/ Observe \/ AppendRetired \/ AppendLapse \/ AppendComplete \/ MuteAll \/ Grant
            \/ AppendTurn \/ CueReferee \/ OpenAll \/ ReadEliminations \/ PopPlayer
            \/ AppendRemoved \/ ResolveBatch

Next == \/ Start
        \/ HostStep
        \/ HostFault
        \/ Conclude
        \/ SilencePasses
        \/ \E p \in Participants \cup {Referee} : Speak(p)
        \/ \E p \in Participants \cup {NoOne} : Eliminate(p)

Spec == Init /\ [][Next]_vars

\* the host's loop always runs on and the clock always does; agents and referee
\* owe nothing
Fairness == WF_vars(Start) /\ WF_vars(HostStep) /\ WF_vars(SilencePasses)

FairSpec == Spec /\ Fairness

-----------------------------------------------------------------------------
(* What turn management must guarantee.                                    *)

\* Every variable stays in its domain; position may point one past the end of a
\* rotation that just lost its last member (turns.py, _advance and apply_resolutions).
TypeOK ==
    /\ order \in Seq(Participants)
    /\ position \in Nat /\ position <= Len(order)
    /\ round \in Nat \ {0}
    /\ misses \in [Participants -> Nat]
    /\ awaiting \in {"none", "opener", "round"}
    /\ started \in BOOLEAN /\ waited \in BOOLEAN
    /\ roundMsgs \subseteq Post
    /\ pc \in Labels
    /\ phase \in {"start", "observe", "apply"}
    /\ completed \in Nat
    /\ held \in Participants \cup {Nobody}
    /\ batch \subseteq 1..Len(elimLog) /\ applied \subseteq 1..Len(elimLog)
    /\ gate \in Participants \cup {Nobody, Everyone}
    /\ inbox \in Seq(Post)
    /\ elimLog \in Seq(Participants \cup {NoOne})
    /\ turnLog \in [round : Nat, min : Nat]
    /\ cued \in Nat
    /\ had \subseteq Participants
    /\ spoke \in BOOLEAN /\ raised \in BOOLEAN

\* Whenever the host is between ticks the homeserver's gate is the one the turn
\* manager believes in: the holder's while the floor is live, shut while the
\* referee is awaited, open once the rotation is over (_grant, mute_all, open_all).
GateFollowsFloor ==
    pc = "idle" /\ ~raised /\ InitOrder # <<>> =>
        gate = IF ~started THEN Everyone
               ELSE IF awaiting # "none" THEN Nobody ELSE Holder

\* The bookkeeping of position and round under skips, retirements and
\* eliminations gives the laps of Floor: nobody has the floor twice in a round and
\* no round closes over a participant who was passed over (_advance,
\* apply_resolutions, _roll_round_if_wrapped).
F == INSTANCE Floor WITH speaker <- gate, lap <- round, served <- had,
                         players <- ToSet(order)
ImplementsFloor == F!Spec

\* A referee told that round N is complete can rule on it: the boundary is
\* chronicled before the cue, so the min_rounds guard never answers "too early"
\* (turns.py:453-458, arbiter.py:157-165).
CuedVerdictStands == cued > 0 /\ cued >= MinRounds => ~TooEarly

\* Whatever fails in a tick, the floor is never given twice to one participant in
\* the same round (_grant after a lost append, announce or power-level write).
NoSecondTurn == [][pc = "grant" /\ pc' = "turn" => Holder \notin had]_vars

\* With silent agents and a dead referee the rotation still reaches its last round
\* or runs out of participants (turns.py:295, 327: both timeouts).
RotationProgresses == <>(pc = "stopped" \/ round > MaxRounds \/ (pc = "idle" /\ ~started))
==============================================================================
