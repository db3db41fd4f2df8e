---------------------------- MODULE RealmLifecycle ----------------------------
(***************************************************************************)
(* The life of one realm id on a platform that may fail, stop and restart: *)
(* the background task of RealmManager, Runner.run, the watch loop and the *)
(* concluding sequence of the Warden, the containers of the Forge, the     *)
(* virtual keys and spend samples of the Ledger, and the startup sweep.    *)
(*                                                                         *)
(* The task is one coroutine, pc names the await it is at.  The calls of   *)
(* one loop (the polls of a sample, the revocations of a teardown) are one *)
(* step that may stop half way.  A container is named after its realm and  *)
(* agent, so a second one of that name cannot be created; a key belongs to *)
(* the run that minted it.  Networks, volumes, captured files, token       *)
(* counts and the capacity of the host are left out.                       *)
(***************************************************************************)
EXTENDS Integers, Sequences, SequencesExt

CONSTANTS
    Roster,       \* the agents, in the order they are provisioned
    Referee,      \* the agent that is not a participant
    Policy,       \* agent -> "starve", "starve_then_kill" or "kill"
    Cap,          \* the budget of every key
    TickErrors,   \* failed ticks in a row that wedge a realm
    MaxStarts,    \* bound: runs of this realm id
    MaxFaults,    \* bound: calls to bus, chronicle, proxy or Docker that fail
    MaxCrashes    \* bound: deaths of the platform's process

Agents       == ToSet(Roster)
Participants == Agents \ {Referee}
Runs         == 1..MaxStarts

ASSUME LifecycleAssumption ==
    /\ Roster \in Seq(Agents)
    /\ Policy \in [Agents -> {"starve", "starve_then_kill", "kill"}]
    /\ {Cap, TickErrors, MaxStarts, MaxFaults, MaxCrashes} \subseteq Nat
    /\ Cap > 0 /\ TickErrors > 0

VARIABLES
    server,     \* the platform's process: "down", "reaping", "up" or "closing"
    pc,         \* the await the realm's task is at, "none" when there is no task
    run,        \* the number of the latest run
    handles,    \* how many agents of the roster the Forge has handles for
    errors,     \* failed ticks in a row
    broke,      \* agents over their cap in the sample of the tick under way
    seen,       \* agents whose exhaustion has been noted
    killed,     \* agents killed for their budget
    ledger,     \* agent -> the run whose key the Ledger holds, 0 = none
    last,       \* agent -> the spend of its last sample
    flag,       \* the stop flag's file exists
    status,     \* the latest LIFECYCLE event of the chronicle
    recorded,   \* agent -> the sum of its SPEND events
    box,        \* agent -> the run its container belongs to, 0 = none
    awake,      \* the agents whose container is running
    live,       \* the keys the proxy accepts
    used,       \* key -> what has been spent on it
    stuck,      \* history: a call that cleans up has failed
    faults,     \* bound: failed calls
    crashes     \* bound: deaths of the process

watch   == <<errors, broke, seen, killed>>
purse   == <<ledger, last, recorded>>
docker  == <<box, awake>>
proxy   == <<live, used>>
vars    == <<server, pc, run, handles, watch, purse, flag, status, docker, proxy, stuck,
             faults, crashes>>

Key(a)  == <<a, run>>
Handled == {Roster[i] : i \in 1..handles}
Active  == pc # "none"

Init ==
    /\ server = "up" /\ pc = "none" /\ run = 0 /\ handles = 0
    /\ errors = 0 /\ broke = {} /\ seen = {} /\ killed = {}
    /\ ledger = [a \in Agents |-> 0] /\ last = [a \in Agents |-> 0]
    /\ flag = FALSE /\ status = "none" /\ recorded = [a \in Agents |-> 0]
    /\ box = [a \in Agents |-> 0] /\ awake = {}
    /\ live = {} /\ used = [k \in Agents \X Runs |-> 0]
    /\ stuck = FALSE /\ faults = 0 /\ crashes = 0

\* n calls fail, which the bound pays for
Faults(n) == faults + n <= MaxFaults /\ faults' = faults + n
Fault     == Faults(1)

\* the task passes an await that changes nothing else, or appends a LIFECYCLE event
Pass(from, to) ==
    /\ pc = from /\ pc' = to
    /\ UNCHANGED <<server, run, handles, watch, purse, flag, docker, proxy, stuck, crashes>>

\* the task ends, and what it kept in its frames goes with it
Forgotten == handles' = 0 /\ errors' = 0 /\ broke' = {} /\ seen' = {} /\ killed' = {}
Ends(from) ==
    /\ pc = from /\ pc' = "none" /\ Forgotten
    /\ UNCHANGED <<server, run, purse, flag, docker, proxy, stuck, crashes>>

Chronicled(from, to, event) == Pass(from, to) /\ status' = event /\ UNCHANGED faults

-----------------------------------------------------------------------------
(* RealmManager.start and Runner.run.                                      *)

\* refused while a run of this id is under way; the flag of an earlier run is
\* cleared before the task exists
Launch ==
    /\ server = "up" /\ run < MaxStarts
    /\ pc = "none" /\ pc' = "begin"
    /\ run' = run + 1
    /\ flag' = FALSE
    /\ UNCHANGED <<server, handles, watch, purse, status, docker, proxy, stuck, faults, crashes>>

\* bug: the task clears the flag when it gets to run
BeginClearing ==
    /\ pc = "begin" /\ pc' = "bus"
    /\ status' = "provisioning" /\ flag' = FALSE
    /\ UNCHANGED <<server, run, handles, watch, purse, docker, proxy, stuck, faults, crashes>>

Begin == Chronicled("begin", "bus", "provisioning")

\* the records of the run, its rooms and accounts, its network
ProvisionBus == Pass("bus", IF Roster = <<>> THEN "running" ELSE "mint")
                    /\ UNCHANGED <<status, faults>>

NextAgent == Roster[handles + 1]

MintKey ==
    /\ pc = "mint" /\ pc' = "box"
    /\ live' = live \cup {Key(NextAgent)}
    /\ ledger' = [ledger EXCEPT ![NextAgent] = run]
    /\ UNCHANGED <<server, run, handles, watch, last, recorded, flag, status, docker, used,
                   stuck, faults, crashes>>

RunContainer ==
    /\ pc = "box"
    /\ IF box[NextAgent] = 0
       THEN /\ box' = [box EXCEPT ![NextAgent] = run]
            /\ awake' = awake \cup {NextAgent}
            /\ handles' = handles + 1
            /\ pc' = IF handles' < Len(Roster) THEN "mint" ELSE "running"
       ELSE pc' = "undo" /\ UNCHANGED <<docker, handles>>
    /\ UNCHANGED <<server, run, watch, purse, flag, status, proxy, stuck, faults, crashes>>

\* the Ledger or Docker refuses half way through the roster
ProvisionFails == \E from \in {"mint", "box"} : Pass(from, "undo") /\ Fault /\ UNCHANGED status

AppendRunning == Chronicled("running", "kickoff", "running")

\* the agents are awaited, addressed, and the floor is opened
Kickoff == Pass("kickoff", "tick") /\ UNCHANGED <<status, faults>>

\* an await of Runner.run or of the Warden that nothing guards raises
Raises ==
    \E from \in {"begin", "bus", "running", "kickoff", "conclude", "wrap", "archive", "report"} :
        Pass(from, "raised") /\ Fault /\ UNCHANGED status

\* the exception ends the task, which says so if the chronicle lets it
AppendFailed ==
    \E from \in {"raised", "undone"} :
        Ends(from) /\ \/ status' = "failed" /\ UNCHANGED faults
                      \/ Fault /\ UNCHANGED status

-----------------------------------------------------------------------------
(* Warden.watch and the tick (LiveSnapshot).                               *)

\* what the samples of the agents of S find spent since the last ones
Growth(S) == [a \in Agents |-> IF a \in S /\ ledger[a] # 0 /\ used[<<a, ledger[a]>>] > last[a]
                               THEN used[<<a, ledger[a]>>] - last[a] ELSE 0]

\* bug: what was sampled before is not remembered
PolledAnew(S) ==
    /\ recorded' = [a \in Agents |-> recorded[a] + Growth(S)[a]]
    /\ UNCHANGED last

\* poll_spend over the agents of S: the growth is appended, then remembered
Polled(S) ==
    /\ recorded' = [a \in Agents |-> recorded[a] + Growth(S)[a]]
    /\ last' = [a \in Agents |-> last[a] + Growth(S)[a]]

\* the first n agents of the roster
FirstOf(n) == {Roster[i] : i \in 1..n}

\* one failed tick is ridden out, TickErrors of them in a row conclude the realm
TickLost == /\ errors' = errors + 1 /\ broke' = {}
            /\ pc' = IF errors' >= TickErrors THEN "conclude" ELSE "tick"

\* the spend of every key is sampled, or the tick is lost before or half way
Sample ==
    /\ pc = "tick"
    /\ \E n \in 0..Len(Roster) :
        /\ Polled(FirstOf(n))
        /\ \/ /\ n = Len(Roster)
              /\ pc' = "budget"
              /\ broke' = {a \in Agents : ledger[a] # 0 /\ used[<<a, ledger[a]>>] >= Cap}
              /\ UNCHANGED <<errors, faults>>
           \/ n < Len(Roster) /\ Fault /\ TickLost
    /\ UNCHANGED <<server, run, handles, seen, killed, ledger, flag, status, docker,
                   proxy, stuck, crashes>>

\* _enforce_budgets: the exhaustion is noted once, and noted before it is appended
NoteExhausted(a) ==
    /\ pc = "budget" /\ a \in broke \ seen
    /\ seen' = seen \cup {a}
    /\ \/ status' = "budget_exhausted" /\ UNCHANGED <<pc, errors, broke, faults>>
       \/ Fault /\ TickLost /\ UNCHANGED status
    /\ UNCHANGED <<server, run, handles, killed, purse, flag, docker, proxy, stuck,
                   crashes>>

\* the policies that stop an agent at its cap, and those that do so at once
Deadly == {a \in broke : Policy[a] \in {"kill", "starve_then_kill"}}
Doomed == {a \in broke : Policy[a] = "kill"}

\* bug: an agent is killed without a note of why
KillUnseen(a) ==
    /\ pc = "budget" /\ a \in Deadly \ killed
    /\ killed' = killed \cup {a}
    /\ awake' = awake \ {a} /\ status' = "agent_killed"
    /\ UNCHANGED <<server, pc, run, handles, errors, broke, seen, purse, flag, box, proxy,
                   stuck, faults, crashes>>

\* the grace period, if the policy has one, is over; the agent counts as killed from
\* here on, even when Docker refuses to stop it
Kill(a) ==
    /\ pc = "budget" /\ a \in (Deadly \cap seen) \ killed
    /\ killed' = killed \cup {a}
    /\ \/ /\ awake' = awake \ {a} /\ status' = "agent_killed"
          /\ UNCHANGED <<pc, errors, broke, faults>>
       \/ /\ Fault /\ status' = "agent_killed"
          /\ UNCHANGED <<pc, errors, broke, awake>>
       \/ /\ Fault /\ TickLost /\ awake' = awake \ {a}
          /\ UNCHANGED status
       \/ Faults(2) /\ TickLost /\ UNCHANGED <<awake, status>>
    /\ UNCHANGED <<server, run, handles, seen, purse, flag, box, proxy, stuck, crashes>>

\* the last reads of the tick fail
SnapshotFails ==
    /\ pc = "budget" /\ Fault /\ TickLost
    /\ UNCHANGED <<server, run, handles, seen, killed, purse, flag, status, docker,
                   proxy, stuck, crashes>>

\* bug: a realm that has lost all its participants waits for a declared condition
FiredByFlag == flag

\* the two conditions no project has to declare: the stop flag, and nobody left
Fired == flag \/ (Participants # {} /\ Participants \subseteq killed)

Judged(to) ==
    /\ pc = "budget" /\ broke \subseteq seen /\ Doomed \subseteq killed
    /\ pc' = to
    /\ errors' = 0 /\ broke' = {}
    /\ UNCHANGED <<server, run, handles, seen, killed, purse, flag, status, docker,
                   proxy, stuck, crashes>>

KeepWatching == Judged("tick") /\ ~Fired /\ UNCHANGED faults

\* a condition holds: one of the two above, or one the project declares
Conclude == Judged("conclude") /\ UNCHANGED faults

\* the nudge of a silent realm is outside the guard of the tick
NudgeFails == Judged("raised") /\ ~Fired /\ Fault

-----------------------------------------------------------------------------
(* Warden.conclude, Forge.teardown_realm and Ledger.teardown.              *)

AppendConcluding == Chronicled("conclude", "wrap", "concluding")

\* bug: the wrap-up leaves the agents to themselves
WrapUpOnly == Pass("wrap", "archive") /\ UNCHANGED <<status, faults>>

\* the floor is opened, the ending announced, the grace period waited out
WrapUp == Pass("wrap", "teardown") /\ UNCHANGED <<status, faults>>

\* the containers that have a handle go; what Docker refuses to remove stays
RemoveContainers ==
    /\ pc \in {"teardown", "undo"}
    /\ \E stay \in SUBSET Handled : \E up \in SUBSET (stay \cap awake) :
        /\ box' = [a \in Agents |-> IF a \in Handled \ stay THEN 0 ELSE box[a]]
        /\ awake' = (awake \ Handled) \cup up
        /\ IF stay = {} THEN UNCHANGED <<stuck, faults>> ELSE Fault /\ stuck' = TRUE
    /\ pc' = IF pc = "teardown" THEN "keys" ELSE "undokeys"
    /\ UNCHANGED <<server, run, handles, watch, purse, flag, status, proxy, crashes>>

\* bug: only the keys of agents that have a container are revoked
HeldByHandled == {a \in Handled : ledger[a] # 0}

\* the agents whose key the Ledger still holds, those of earlier runs included
Held == {a \in Agents : ledger[a] # 0}

\* keys are revoked in turn and forgotten; the first refusal ends the loop
RevokeKeys ==
    /\ pc \in {"keys", "undokeys"}
    /\ \E n \in 0..Len(Roster) :
        LET gone == Held \cap FirstOf(n)
        IN  /\ live' = live \ {<<a, ledger[a]>> : a \in gone}
            /\ ledger' = [a \in Agents |-> IF a \in gone THEN 0 ELSE ledger[a]]
            /\ last' = [a \in Agents |-> IF a \in gone THEN 0 ELSE last[a]]
            /\ IF n = Len(Roster) THEN UNCHANGED <<stuck, faults>>
                                  ELSE Fault /\ stuck' = TRUE
    /\ pc' = IF pc = "keys" THEN "settle" ELSE "undone"
    /\ UNCHANGED <<server, run, handles, watch, recorded, flag, status, docker, used, crashes>>

\* the network cannot be removed: the only failure the teardown reports, if the
\* chronicle lets it
TeardownError ==
    /\ status # "teardown_error"
    /\ \/ Pass("settle", "settle") /\ Fault /\ status' = "teardown_error"
       \/ Pass("settle", "raised") /\ Faults(2) /\ UNCHANGED status

\* the last sample, of the keys the Ledger still holds
Settle ==
    /\ pc = "settle" /\ pc' = "archive"
    /\ \E n \in 0..Len(Roster) : /\ Polled(FirstOf(n))
                                 /\ IF n = Len(Roster) THEN UNCHANGED faults ELSE Fault
    /\ UNCHANGED <<server, run, handles, watch, ledger, flag, status, docker, proxy, stuck,
                   crashes>>

AppendArchived == Chronicled("archive", "report", "archived")

FinalReport == Ends("report") /\ UNCHANGED <<status, faults>>

-----------------------------------------------------------------------------
(* The platform's process, the operator and the agents.                    *)

Still == UNCHANGED <<run, recorded, proxy, faults>>

\* the kill switch; `pit stop` and the API only write the file
Stop ==
    /\ Active /\ ~flag
    /\ flag' = TRUE
    /\ Still /\ UNCHANGED <<server, pc, handles, watch, ledger, last, status, docker, stuck,
                            crashes>>

\* the process dies: its tasks and the Ledger's memory go, containers and keys do not
Crash ==
    /\ server # "down" /\ crashes < MaxCrashes
    /\ crashes' = crashes + 1
    /\ server' = "down" /\ pc' = "none" /\ Forgotten
    /\ ledger' = [a \in Agents |-> 0] /\ last' = [a \in Agents |-> 0]
    /\ Still /\ UNCHANGED <<flag, status, docker, stuck>>

NonTerminal == {"provisioning", "running", "concluding"}

\* reconcile_orphans, before anything else at startup
Reconcile ==
    /\ server = "down" /\ server' = "reaping"
    /\ status' = IF status \in NonTerminal THEN "interrupted" ELSE status
    /\ Still /\ UNCHANGED <<pc, handles, watch, ledger, last, flag, docker, stuck, crashes>>

\* reap_orphans with nothing active: every container goes that Docker lets go
Reaped(to) ==
    /\ server' = to
    /\ \E stay \in SUBSET {a \in Agents : box[a] # 0} :
        /\ box' = [a \in Agents |-> IF a \in stay THEN box[a] ELSE 0]
        /\ awake' = awake \cap stay
        /\ IF stay = {} THEN UNCHANGED <<stuck, faults>> ELSE Fault /\ stuck' = TRUE
    /\ UNCHANGED <<pc, run, handles, watch, purse, flag, status, proxy, crashes>>

Reap == server = "reaping" /\ Reaped("up")

\* bug: a shutdown waits for its realms without stopping them
ShutdownWaiting ==
    /\ server = "up" /\ server' = "closing"
    /\ Still /\ UNCHANGED <<pc, handles, watch, ledger, last, flag, status, docker, stuck, crashes>>

\* a clean shutdown stops what is active, waits for it and sweeps
Shutdown ==
    /\ server = "up" /\ server' = "closing"
    /\ flag' = (flag \/ Active)
    /\ Still /\ UNCHANGED <<pc, handles, watch, ledger, last, status, docker, stuck, crashes>>

Close ==
    /\ server = "closing" /\ ~Active
    /\ Reaped("down")

\* an agent calls its model with the key of its container
Spend(a) ==
    /\ a \in awake /\ <<a, box[a]>> \in live /\ used[<<a, box[a]>>] < Cap
    /\ used' = [used EXCEPT ![<<a, box[a]>>] = @ + 1]
    /\ UNCHANGED <<server, pc, run, handles, watch, purse, flag, status, docker, live, stuck,
                   faults, crashes>>

TaskStep ==
    \/ Begin \/ ProvisionBus \/ MintKey \/ RunContainer \/ ProvisionFails \/ AppendRunning
    \/ Kickoff \/ Raises \/ AppendFailed
    \/ Sample \/ SnapshotFails \/ KeepWatching \/ Conclude \/ NudgeFails
    \/ \E a \in Agents : NoteExhausted(a) \/ Kill(a)
    \/ AppendConcluding \/ WrapUp \/ RemoveContainers \/ RevokeKeys \/ TeardownError
    \/ Settle \/ AppendArchived \/ FinalReport

Next == \/ Launch \/ TaskStep
        \/ Stop \/ Crash \/ Reconcile \/ Reap \/ Shutdown \/ Close
        \/ \E a \in Agents : Spend(a)

Spec == Init /\ [][Next]_vars

\* the event loop runs on, every call it makes comes back or raises, and a process
\* that is closing closes
Fairness == WF_vars(TaskStep) /\ WF_vars(Close)

FairSpec == Spec /\ Fairness

-----------------------------------------------------------------------------
(* What the platform must guarantee.                                       *)

\* The tables of the task stay in their domains: nobody is killed whose exhaustion
\* was not noted, and the Ledger holds no key of a run to come.
TypeOK ==
    /\ server \in {"down", "reaping", "up", "closing"}
    /\ Active => server \in {"up", "closing"}
    /\ handles \in 0..Len(Roster) /\ run \in 0..MaxStarts
    /\ killed \subseteq seen
    /\ \A a \in Agents : ledger[a] \in 0..run /\ box[a] \in 0..run
    /\ awake \subseteq {a \in Agents : box[a] # 0}
    /\ live \subseteq Agents \X Runs

\* A provisioning that fails half way leaves no container and no key of its own,
\* unless Docker or the proxy refused to remove them (forge.py:107-125).
RollbackComplete ==
    pc = "undone" /\ ~stuck => \A a \in Agents : box[a] # run /\ Key(a) \notin live

\* An archived run has nothing left that acts or pays, whatever the chronicle, the
\* bus or the proxy did meanwhile (warden.py:76-85).
ArchivedIsClean ==
    status = "archived" /\ ~stuck => \A a \in Agents : box[a] # run /\ Key(a) \notin live

\* The chronicle never charges an agent more than it has spent, across lost samples,
\* runs of one id and keys that could not be revoked (poll_spend's deltas).
Spent(a) == MapThenSumSet(LAMBDA n : used[<<a, n>>], Runs)
NeverOvercharged == \A a \in Agents : recorded[a] <= Spent(a)

\* A stop that lands while the realm is under way ends the run, however early it
\* lands and whatever fails (manager.py:70-75).
StopEndsRun == flag /\ Active ~> ~Active

\* A realm that has lost every participant is not left running (termination.py:136-145).
EmptyRealmEnds ==
    Participants # {} /\ Participants \subseteq killed /\ Active ~> ~Active

\* A clean shutdown comes to its end (manager.py:86-92).
ShutdownEnds == server = "closing" ~> server = "down"
===============================================================================
