# Bearpit: a verification development

Bearpit runs *realms*: a cast of LLM agents, each in a container, that talk in
Matrix rooms under rules the platform enforces. This directory holds TLA+ models
of the platform, TLC runs that check them on small instances, and TLAPS proofs of
the most important results for every instance.

Source paths below are relative to `src/src/bearpit/`. `PROJECT.json` gives, for
every definition, the lines it is translated from; for every property, the mutant
of the model that breaks it; and, for every hazard of the code, the property that
watches it or why none does.

## 1. Inventory

| Part | State it keeps | Operations | Model |
|---|---|---|---|
| **Turn manager** `warden/turns.py` | rotation order, position, round, misses, awaiting | `start`, `observe`, `apply_resolutions`, `_advance`, `open_all` | `TurnManager` |
| **Snapshot tick** `gatekeeper/runner.py` (`LiveSnapshot`) | what of the chronicle has been taken up, allowances, gates, agents killed | one call per tick, stage after stage | `HostTick`, and the stages in `TurnManager`, `GameTable`, `RealmLifecycle`, `PrivateRooms`, `Requests` |
| **Floor gate** `herald/` | power levels of the rooms | grant, mute, open, post, mirror | `TurnManager`, `PrivateRooms` |
| **Arbiter** `realmtools/arbiter.py` | scoreboard, rebuilt from the chronicle | score, flag, penalize, eliminate, rule | `Arbiter` |
| **Game machine engine** `realmtools/machine.py` | none: functions of a declaration and a state | act, set, replay, view, log row, wakes | `GameMachine` |
| **Game machine service** `realmtools/machine_service.py` | one live state and one lock per realm | act, set, state | `MachineService`, `SerialMachine` |
| **Wake deliverer** `runner.py` | newest game row seen, rules fired | per tick | `GameTable` |
| **Sealed escrow** `realmtools/escrow.py` | sealed payloads, closed rounds | submit, status, reveal, tally, load | `Escrow`, `SealedBox` |
| **Tally** `realmtools/tally.py` | none | the rules of a round | `Tally` |
| **Brokers** `realmtools/private.py`, `toolcall.py`, `code.py`, `manifest.py` | events of the chronicle; the host's marks | send, call, wait, perform, answer | `Brokers` |
| **Realm manager, runner, warden** `gatekeeper/manager.py`, `runner.py`, `warden/` | tasks by id, stop-flag files, failed ticks in a row | start, stop, shutdown, run, watch, conclude | `RealmLifecycle`, `Launch` |
| **Forge** `forge/`, **Ledger** `ledger/` | handles and containers; keys and last samples | provision, rollback, teardown, reap; mint, sample, revoke | `RealmLifecycle` |
| **Chronicle** `chronicle/` | the append-only log | append, query | the sequences and sets of events in every module |
| **Scribe** `scribe/` | sessions, conversations, drafts, the stored history, versions | message, tool calls, summary, approve, revert | `Scribe` |
| **Packages** `gatekeeper/scenarios.py`, `core/package.py` | directories on disk | save, upload, delete, load | `Packages` |
| **Parameters** `core/params.py`, **schema** `core/schema.py` | none | scan, validate, bind; the loader's integrity rules | `Params`, `Launch` |
| **Providers, settings** `core/providers.py`, `gatekeeper/appstate.py` | stored choice, stored profiles, discovered plugins | resolve, choose, sync | `Launch` |
| **API and CLI** `gatekeeper/api.py`, `cli/main.py` | the server's process | launch, rerun, boot, close, `pit up`, `pit reap` | `Launch` |
| Runtime adapter, notes, telemetry, read-only endpoints | files, rows | reads and appends | section 6 |

**How they interact.** The host is one asyncio process: between two awaits a coroutine
runs alone, and at every await agents, referee, operator and other realms act.
Bus, chronicle, Docker, model proxy and model backend are remote and may refuse any
call. The host and the tools server share nothing but the chronicle: one appends an
event, the other takes it up a tick later, so each works on what the other has not
seen. The watch loop rides out a failed tick: a handler cut off half way is resumed
by the next tick on what it left behind. A process may die and is rebuilt from the
chronicle, from Docker's labels or from files.

**What makes each part correct.**

* Turn manager: one speaker at a time, each once per round; a gate where the manager
  believes it; the game going on under silence.
* Engine and service: the pointer never rests on someone who cannot move, a secret is
  readable by nobody but its owner until shown, one atomic decision per call, memory =
  replay of the chronicle, whoever must act is told.
* Escrow: a move once and for good; what was acknowledged counts; one opening.
* Arbiter: no point lost or counted twice by concurrent calls on a cold board; every
  call answered; a verdict that is on record stands alone but for those it overlapped.
* Brokers: nothing delivered twice, allowances and quotas kept although they are
  counted in two places, everyone answered.
* Lifecycle: nothing is left running or paying after its realm; nothing charged
  twice; every stop, empty realm and shutdown ends.
* Scribe: the model is asked with well-formed histories, and no version is lost.
* Launch: what loads is of one version; what runs was agreed to, has the parameters its
  package takes, and repeats.

## 2. Modules

Modules named `MC...` give the constants of a run; modules named `...Proofs` hold
theorems; all others are models.

**Turns: `Floor`, `TurnManager`.** `Floor` is what turn management promises: a speaker,
a lap, who has been served in it. `TurnManager` is the code: the manager's fields, the
host coroutine (`pc`, `phase`), the homeserver's `gate`, the events referee and host
exchange. What the host computes between two awaits is one action; an await that
changes something outside is a step of its own, and with `Faults` it may raise there.
`ImplementsFloor` maps `speaker <- gate`, `lap <- round`, `served <- had`. The cue policy
modelled is `round`, the default. Time is one Boolean: the silence timeout has or has
not run since the turn began.

**Game machine: `GameMachine`, `GameTable`, `PokerTable`, `SerialMachine`,
`MachineService`.**
`GameMachine` has no variables: the engine as operators, one for each function of
`machine.py`, and the validators a declaration passes at launch, as `DeclAssumption`: TLC
checks it of the declarations that the runs play. `GameTable` puts the machine in play with the host's deliverer of wakes;
a call is one step there, which `SerialMachine` justifies. Its history variable `owed`
holds who has not been mentioned since a wake rule came to hold for it: the pointer's new
holder, as long as the pointer rests there, or the members of a role. `PokerTable` is the whole declaration of
`examples/poker-table/project.json`, for any seating; `MCPokerTable` seats three players
on two streets. `SerialMachine` is what the service promises: calls one at a time,
each decided on the state that the row before it left and on seals that had been made;
what the engine makes of a call is a parameter. `MachineService` is the concurrency: cache, FIFO lock, escrow look-ups before the
decision, the append as two steps (durable; the writer goes on), readers without the
lock, restarts, failed appends, lost writers. `durable` is a history variable, the state the
recorded rows amount to; `ImplementsSerial` maps `state <- durable`, `log <- rows`.

**Escrow: `Tally`, `SealedBox`, `Escrow`.** `SealedBox` is the promise: a box per
player that takes one payload, and one opening that shows all of them. `Escrow` is one
labelled round behind four tools. A call is a slot whose `pc` is the await it is at;
the lazy load's two queries are awaits, so several calls can load at once. An append
becomes durable or raises, and either way memory keeps what was written to it
before, as in the code. A restart forgets memory and calls, not the chronicle.
`ImplementsBox` maps `box <- marks` and `opened <- reveals`. `Tally` gives every rule as
an operator over the submissions. Rounds of a realm share only the load: one is enough.

**`Arbiter`.** The referee's calls in flight (`Ref`), the board and the lock under
which it is filled, the events, a round counter that goes on by itself. `lost` remembers
points whose event the chronicle refused: the code adds to the board before it
appends, so board and chronicle part there, and `BoardCoversChronicle` says that they
part by nothing else.

**Brokers: `HostTick`, `PrivateRooms`, `Requests`, `Brokers`.** `HostTick` is the
skeleton of a tick: its stages in order, and the exception that costs the later ones
a tick. `PrivateRooms` has the tool `send_private`, the rooms of the pairs, delivery
(marked first, then posted), direct posts past the tool, the mirror, the count and the
gate; `BlockDeclared` is what the loader accepts as a `private` block. `Requests` has the
agent's side (policy, count, append, poll, patience) and the
host's (mark, perform, answer). `Brokers` composes them in one tick: a raise in one
stage takes the others along.

**Lifecycle: `RealmLifecycle`.** One realm id, its task (`pc` names the await of
`Runner.run`, `Warden.watch`, `Warden.conclude`), its process, and what outlives both:
the stop flag's file, the containers, the proxy's keys, the chronicle's last
LIFECYCLE event and sum of SPEND events. `stuck` remembers that a *cleaning* call
failed, which is when containers and keys may outlive their realm. Of the termination
conditions the stop flag and the emptied realm are modelled, the declared ones are a
free choice.

**`Scribe`.** Sessions, their conversations as sequences of messages (role, whose,
open calls), the stored history, drafts, versions. A turn is cut at every model call
and every event it streams, since its client may be gone there. A summary is a request
of its own that replaces a history under a turn that may be running (`stray`).
`cutShort` remembers that a turn died among its calls or was approved amid them, or that
two turns overlapped.

**Launch: `Packages`, `Params`, `Launch`.** `Packages` is the disk: a directory says of
each file (project.json, the folder of an agent) which version it is of, if it is there.
A removal (`shutil.rmtree`) takes one file after the other in any order, an upload brings
them one by one, and a crash may come between any two. `torn` remembers the names where a
removal or an upload has not come to its end, `crossed` those that a write touched amid an
upload of the same name. The loader reads what is there, so a project.json with part
of its agents loads. `Params` is the text of a parameter from scan to
bind. `Launch` composes them with providers, settings, plugins, the manager's cap, the
server's startup and shutdown, and the processes of `pit up` and `pit reap`. `log` is
the chronicle's "running" events: the snapshots that a rerun repeats. Endpoints that
launch hold the event loop and are one step; the task resolves the provider again.

## 3. Runs

| Run | Instance | Shows |
|---|---|---|
| `MCTurnDriving` | 3 participants, a driving referee, 2 eliminations, retirement after 2 misses, 2 rounds, fair | `TypeOK`, `GateFollowsFloor`, refinement `ImplementsFloor`, `RotationProgresses` |
| `MCTurnFaulty` | 2 participants, any await may raise, eliminations repeated | `CuedVerdictStands`, `NoSecondTurn` |
| `MCPokerHand` | hand after hand: 3 players (all check and fold, two raise, one goes all in) and the dealer on two streets and on to the next hand, a card dealt anew, 2 rows per tick, mentions may fail | `ActorCanMove`, `ParkedMeansClosed`, `WakesArrive`, `FreshSecretsHidden` |
| `MCMachineRace` | 2 writers, a cold reader, 3 rows, a failed append, a restart | refinement `ImplementsSerial`, `LiveFollowsLog`, `LogReplays` |
| `MCMachinePages` | pages of one row, hidden rows, lost and failing writers, a restart, fair | `PagingSkipsNothing`, `CallsAnswered` |
| `MCRealmLifecycle` | 2 agents, 2 runs of one id, 2 failing calls, a crash, fair | `TypeOK`, `RollbackComplete`, `ArchivedIsClean`, `NeverOvercharged`, `StopEndsRun`, `EmptyRealmEnds`, `ShutdownEnds` |
| `MCEscrow` | 2 players, 2 payloads, 5 slots, 4 calls, a failed append, a restart | `MemoryCoversChronicle`, `AckedMovesCount`, refinement `ImplementsBox` |
| `MCArbiter` | 2 calls at once, 3 in all, failing queries and appends, a restart, fair | `BoardCoversChronicle`, `OnlyOverlappingVerdicts`, `CallsEnd` |
| `MCBrokers` | 2 agents, one with an allowance, 2 tool slots, 3 tools and code, 3 requests, one raise, fair | `AllowanceHeld`, `BridgedOnce`, `QuotaWithinOverlap`, `GatesReopen`, `RequestsAnswered` |
| `MCScribe` | 2 sessions on one scenario, 2 requests, 2 versions, a restart | `AskedWellFormed`, `NoVersionLost` |
| `MCLaunch` | 2 realms, 2 versions of 2 and of 3 files, 2 providers and a plugin, 2 parameters, 3 launches and changes together, a crash | `LoadsOneVersion`, `NoSilentSubstitute`, `ConsentedOnly`, `ReplayKeepsModels`, `ParametersHold` |
| `MCReap` | the same | **violated** `LiveRealmsSpared` (section 5) |

**Bounds.** `MaxRounds`, `MaxInbox`, `MaxRows`, `MaxFresh`, `MaxFaults`, `MaxCrashes`,
`MaxStarts`, `MaxRestarts`, `MaxCalls`, `MaxRefCalls`, `MaxSends`, `MaxPosts`, `MaxRequests`,
`MaxActs`, `MaxWrites`, `MaxLaunches`, `MaxAsked` are bounds of the models and stand in
the guards. `MaxSteps` and `MaxNudges` of the Scribe, and `Capacity`, are the code's
own limits, made small.

* Turns: three participants are the fewest for which a removal can be before, at and
  after the holder; two rounds the fewest in which a round counter can roll wrongly and
  be seen to.
* Service: three rows are the fewest in which a stale state can be overtaken and then
  used; one row per page makes every page end inside the log.
* Escrow: two slots of one player make doubled calls, two of the referee a reveal
  against a tally, four calls two seals, a reveal and one more; a restart with an
  append in flight is the case that matters, and one fault is enough to part memory
  from the chronicle.
* Arbiter: two calls fill the board at once; a third follows what they left.
* Brokers: one message each way on both paths, an allowance of one, and two rounds; a
  quota of one, of zero and of none, and two slots that pass the count together. Three
  requests are what a quota of one and two slots must not reach: calls that overlap make
  two, and a third would be an overrun. `MaxActs` bounds sends, posts, removals and
  requests together where any of them is not a request; requests alone go on to
  `MaxRequests`. One raise is a tick cut off in any stage with a whole tick after it.
* Lifecycle: two failing calls allow a failure and the failure of its clean-up; two runs
  are what leftovers of the first need to meet the second. `TickErrors = 2` stands for
  the code's 5: the first is ridden out, the second is not.
* Scribe: two requests overlap in one session or two; `Limit` and `KeepTail` are small
  enough that a summary cuts a history within calls and between them.
* Launch: launches and changes share `MaxAsked` = 3: a run, a settings change and its
  replay; two changes before a run; a save and an upload under which a third write
  falls. Both realms compete for `Capacity` 1. One version has an agent the other has
  not, and of the mixtures of the two some load and some do not.

`MCEscrow`, `MCScribe` and `MCLaunch` use symmetry of slots, requests and realms; no
liveness is checked there.

**Deadlock** is not checked: every model stops by design when a bound is reached or a
realm is over. That nothing waits for ever is stated as liveness.

**Fairness.** Only the platform's own coroutines are fair. `TurnManager`: the host
ticks, since the watch loop is `while True` with a sleep, and the clock goes on; agents
and referee may be silent for ever, which is what `RotationProgresses` is about.
`MachineService`: a writer that can go on does; asyncio's lock is FIFO. `RealmLifecycle`:
the task goes on and a closing process closes. `Arbiter`: a call whose await
completes is resumed, and the lock's queue makes `TakeLock` strongly fair. `Brokers`: the
host steps, and a caller polls until it is answered or its patience ends. Nobody is
obliged to speak, stop, spend, crash or restart.

## 4. Proofs

The theorems hold for every value of the constants that satisfies the named
assumptions of the modules (`...Assumption`), which TLC evaluates in the runs.

*Turn manager.* Layers: `TypeInv` gives `TypeCorrect`. `CueInv`: the last TURN event is
never behind the round a referee is cued about, since every path to a cue passes an
append: `VerdictAfterCue`. `AheadInv`: nobody *after* the position has had the floor
this round; it survives every failure, because the position only moves on, or back to 0
with a new round: `OneTurnPerRound`. `FloorInv` ties gate and position at each `pc` as
long as no step has raised: `GateCorrect`. `CalmInv` adds that without faults and
repeats none does, and then every step is one of `Floor` or a stutter:
`TurnManagerImplementsFloor`, under `~Faults` and `~Repeats`.

*Machine service.* The chronicle replays (`ChronicleReplays`): each row, replayed on
what the rows before it give, must give what its call gave when it was accepted. The
engine folds lists of effects and rows, and no induction over data is at hand, so a
fold is described by its trace (the base, then one step per element) and two traces of
the same list are shown to agree by looking at the first index where they differ. A row
does not carry the seals it was accepted on; replay rebuilds them from the players that
the guard expected, which is right when two escrow guards of one transition do not
expect different players of one round. That rule is `SealsApart`, the theorem's
hypothesis, and an assumption of the run. `CacheInv` (memory is the durable state, or
behind it by the row whose writer has not gone on) and `LockInv` (a writer past the
queue holds the lock) then give `MemoryFollowsChronicle`, and with them the
refinement `ServiceImplementsSerial`: a row becomes durable only in the step that serves
its call, and what that step decided on was the durable state. Seals are looked up
before the lock and may have grown since; `SealsInv` says that what a call looked up had
been sealed and stays so, and `SealsMatter` that the engine reads of the seals only the
rounds that a guard of the called action names, which are those that the call looked up.
All three hold for `~Cancels`: a call lost between commit and assignment breaks
them (section 5). Paging needs neither: `PageInv` says that what a reader has been handed
covers every row up to its cursor that it may see, and that a page in flight ends where
the log it was cut from ends: `PagesSkipNothing`.

*Game table.* `Shape` keeps every state of the table inside its declaration; the launch
validators, which `DeclAssumption` states, are what makes it inductive. `Ready` (the
pointer is parked or on someone who may move) is kept by every declaration that obeys
`MovesOn`: a transition that retires a player moves the pointer afterwards. The validators
do not demand that, so it is a hypothesis of `PointerCanMove` and an assumption of the
run, met by the poker table. `SecretsStayHidden` needs `Shown`: whoever is in `revealed`
has a value that some reveal disclosed, since writing a value anew takes its owner out.
`WakesAlwaysArrive` says that when the host has taken up every row and made its mentions, nobody is
owed one, but for those that a refused mention cut off. `WakeInv`: every agent in `owed` is about to be mentioned or stands
in a row not yet taken up, and the newest row of an action holds the pointer. It asks
for `RolesPlain`, no role rule with an `unless`, as the example has none: the engine stamps
a role where `when` comes to hold and `unless` does not, so a rule held back at that
moment is never stamped, whereas `owed` has the role from when the whole rule holds
(section 5). `ParkedStreetIsClosed` is about poker with any number of seats:
when the pointer is parked in a street, everyone left in the hand has acted in
it. Every transition into or within a street ends in `advance_actor` or in a `set_actor`
to the seat the dealer names (`PokerEnds`), and the rotation parks only when it has come
round to every member and found none who may act (`AdvanceParks`). Its hypotheses are that
the declaration is the example's and `DealerPoints`: the dealer's `deal` and `advance`
name whom to start with, as the example's text tells it to. The run evaluates both.

*Realm lifecycle.* `RollbackLeavesNothing` and `ArchivedLeavesNothing` need `OwnInv`: the
Forge has a handle for every container of the run under way and the Ledger holds every
key the proxy accepts, so a teardown that removes what it looks up removes everything.
Both carry the model's proviso that no removal was refused. `ChargesCovered` is about a
sum over all runs of an id. Lemmas about a fold over a finite set say what one changed
summand does to it; `ChargeInv` then says that what is recorded of an agent beyond its
last sample is covered by what its keys of *other* runs have spent, so that a sample of
the present key, or one that starts again at zero, never charges a token twice.

*Escrow.* `MemoryCoversChronicle` is not inductive: a second load may be under way with
rows it read before the first load's caller sealed. `EscrowInv` says what each await
holds: rows read are among the durable marks (`Unloaded`, `Loaded`), a marker in flight
is the memory's payload and the only one of its player (`Appending`), what a reveal
collected agrees with what is durable (`RevealAgrees`), and an acknowledged payload is
its player's one mark. It gives `MemoryCovers`, `AcksCount` and, with the steps mapped
one by one, the refinement `EscrowImplementsBox`. Of the rules of a round, `MajorityDecides`:
a strict majority beats every other choice whatever the tie rule, for any electorate; and
`UnanimityDecides`: one choice of all is the winner, and there is one only if all agree.

*Arbiter.* `RulingInv`: once a verdict is on record, verdicts and rulings past their look
at the record number at most the slots. A ruling can enter that set only while there is
no verdict, which gives `VerdictsOverlap`. `BoardCovers`: the invariant `BoardInv` adds
that a cold board has no increment in flight and nothing lost, and that the one call
that fills it read the sums as they are now. A call is counted into `InFlight` when it
has added to the board and leaves it when its event is durable or refused.

*Brokers.* `RoomsInv` for messages: every bridged post has its send marked and no two
posts share one (`Marked`), and each agent's bridged posts of a round number at most
what is counted and at most its allowance (`Allowed`); the count only grows in a
round, since the mirror adds to it and never takes away. It gives `AllowanceKept` and
`SendsBridgedOnce`. `CallsInv` for requests: requests on record and slots past the
count number less than quota and slots together (`Overlap`); a slot passes the count
only under the quota, when at most all the agent's slots are past it. It gives
`QuotasHold`.

*Launch.* `PackagesInv`: under a name that is not crossed there are, file by file, one
version or nothing, all of it unless the name is torn, and under an upload exactly the
files that have arrived: `OneVersionLoaded`. `RunsInv` says of every task at
every stage, and of every entry of the log, what was checked and with which consent,
which values its parameters got, and that past its start every agent has a model, so that
resolving a replay again changes none: `SubstitutesAgreed`,
`PowersConsented`, `ReplaysRepeat`, `ParametersFilled`. The last is about runs of a
package and their replays; a rerun of the latest package binds nothing (section 5).

*Scribe.* `VersionsKept` is a property of each step. `ConversationsWellFormed` is about
whole conversations, and a well-formed one is a fact about positions: between a message
with calls and the next message that is no answer stand exactly its answers. The lemmas
say what appending an answer, prose or calls, and cutting a tail, do to that. `Inv` has,
until `cutShort`: a session has one turn at a time (`Lone`), its history is well formed
when no turn is at work (`Resting`), a turn's own list is well formed or short of
exactly the answers its state still owes (`Sounds`), the tail that a summary keeps is
well formed (`Tails`), and so is the stored file that an edit session resumes.

*Only model-checked*: all liveness (`RotationProgresses`, `CallsAnswered`, `CallsEnd`,
`GatesReopen`, `RequestsAnswered`, `StopEndsRun`, `EmptyRealmEnds`, `ShutdownEnds`), since
fairness is about ENABLED, which the prover cannot expand. Every invariant and every
action property that a passing run checks is also proved.

## 5. Where code and text disagree

With a run that shows it: `MCReap`. `cli/main.py:57` says that `pit reap` "asks the
control plane which realms are live first and SPARES those". It keeps the entries of
`/api/realms` whose `state` is "running" (`main.py:84-88`), and the entries of that
endpoint have no `state`, only `active`: none is spared, and a realm the server is
running loses its containers.

Met while modelling, without a run of their own. *Turns and machine:*

* posts are de-duplicated per round, so the second of two posts that straddle a tick
  counts in the next round (`turns.py:267-273`); a repeated elimination makes
  `order.index` raise with the position already past the end (`turns.py:378`);
  an elimination that empties the tail of a round skips a pause (`turns.py:397-409`);
* a verdict is possible before the first TURN event, because the guard reads a default
  (`arbiter.py:158`); `removed`, `retired` and `referee_timeout` events carry no
  `min_rounds`, so the guard is off while one is the latest (`turns.py:383`);
* eliminations are marked as applied before they are enforced: a failure in between
  loses the rest of the batch (`runner.py:415`); `_game_seen` moves on before anyone is
  mentioned, so an announcement that raises loses the tick's other wakes
  (`runner.py:704`, against the comment at 364);
* a call lost between commit and assignment leaves memory behind the chronicle until
  a restart (`machine_service.py:213`); a reader may get a view older than the log it
  comes with (`machine_service.py:172`);
* a structural step that leaves the pointer in place wakes nobody (`machine.py:281`): a
  new hand dealt to the seat where the pointer already rests finds its player asleep,
  though the seats of the example are told to wait until the machine wakes them
  (`examples/poker-table/project.json:23`); a role rule whose `unless` lifts later is
  never fired for what had come to hold before; a `deal` or `advance` without `first`
  is accepted and parks the pointer in an open street; two escrow guards on one round replay one set of seals (`machine.py:489`).

*Escrow, arbiter, brokers:*

* after a reveal whose append failed, or a seal whose marker was in flight, a restart
  takes the round back: submissions are accepted again although some call was told
  that it is closed (`server.py:267`); `SealedBox` promises only what the record shows;
* two verdicts in flight both see none and both are recorded (`arbiter.py:150`);
* when opening the rooms for a new round raises, `_dm_round` has moved on already and the
  rooms not yet opened stay closed for that round (`runner.py:661`);
  `GatesReopen` is therefore stated for ticks that do not raise, like `RequestsAnswered`:
  a request is marked before it is performed, and a mark is never taken back
  (`runner.py:519`). It also asks for a container, for `run_code` requests: while a realm
  has none the host does not read them (`runner.py:512`), and the caller waits until its
  patience ends.

*Lifecycle:*

* the "LAST spend reading" comes after the Ledger has forgotten the realm's keys
  and reads nothing (`warden.py:86-95`); whatever raises between provisioning and the
  watch loop (`runner.py:136-168`) or in the announcement of the end (`warden.py:71-74`)
  leaves containers running and keys valid until the next sweep; `reap_orphans` removes
  containers but no keys, and `_last_tok` is not reset by a teardown (`ledger.py:180`);
* `reconcile_orphans` looks for a last LIFECYCLE event among three and misses a realm
  cut off after one of the others (`api.py:159-171`).

*Launch:*

* "the platform is the only thing that can run a realm" is not so: `pit up` runs one in
  its own process; the server's boot marks such a realm interrupted and reaps it, and
  so does its shutdown, which passes no active realms;
* the launch dialog's overrides of turns go through `model_copy`, which skips validation
  (`api.py:1287-1291`), so the stored snapshot may not load on a rerun;
* binding drops a project's source, so "rerun latest" of a realm launched through the API
  is always refused with 409; it never binds parameters (`api.py:1520-1537`), so that a
  package which has gained some since runs with its placeholders in the prose, and so does
  a replay of that run: `ParametersHold` leaves both out; and it takes the first
  project event of a reused id (`api.py:1501`);
* a replay is re-paced and its budget lifted by the provider chosen now, not the one of
  the run it repeats (`api.py:1479-1480` against `gatekeeper/service.py:99-100`);
* `scenarios.py:89` says "Writes to a temp dir then swaps, so a bad edit never corrupts the
  existing package". A bad edit does not, but a death amid the swap does: what
  `shutil.rmtree` has not reached yet stays (`scenarios.py:174-175`, 186 and 259-260;
  `scribe/store.py:127-128`), and if project.json and some of the agents are among it,
  `load_package` (`core/package.py:141-160`) accepts the rest as a package with a smaller
  cast, which can be launched; a death between removal and rename loses the
  scenario. `LoadsOneVersion` promises only that what loads is of one version then;
* an import removes its destination before it validates (`api.py:579-603`), and what has
  arrived so far loads while the upload goes on and after it was cut off; a save or a
  deletion of the same name meanwhile mixes its version with the rest of the upload;
* `pit up` asks for consent to elevated tools but not to machines participants write to
  (`participant_effects`); tables saved with the settings let the provider of a
  removed plugin still resolve; a plugin's removal is seen after a restart only, though
  the docs of `appstate.py` and `api.py:1175` speak of it vanishing at once;
* NaN passes `min` and `max`, "nan" for an int raises uncaught, and defaults are not
  checked against type and bounds (`params.py`);
* a container prefix match may spare another realm whose id extends a live one's.

*Scribe:* a turn that dies among its calls leaves a history the model backend refuses
(`scribe/service.py:94-96`). The same comes of an approval amid a turn: approve saves the
session's history as it stands (`api.py:899` through `bind`, `service.py:144-152`), calls
without answers included, although `service.py:90` says that it is "saved after every
completed turn"; an edit session opened from that file asks the model with them. The
proof of `ConversationsWellFormed` could not be closed without that case, and TLC shows
it with three requests on a model without the exception. This is why `AskedWellFormed`
is stated up to `cutShort`.
`api.py:747` says that the model never writes in UI mode, but the tools it is given are
the same in every mode and only the persona differs.

## 6. Not modelled, and plan

Left out because they change no state another part reads: `notes.py` (an append and a
read of one agent's own rows), `memory.py` and `validate.py` of the Scribe (texts shown to
the model), the skill library and web fetching (reads of files and of the network),
read-only endpoints, authentication, audits and reports, telemetry, spans, the
keystore's file, networks, volumes and captured outputs, rendering of agent homes, the
lifecycle tables (used by tests only), `_check_image`. The validators of machines in
`core/schema.py` are `DeclAssumption` (see section 2), those of private rooms, attention
and references are in `PrivateRooms`, `Launch` and `Packages`; the others are pure checks
of formats and ranges.

Simplified: `Look` merges the discovery of providers and of tools into one step
(the settings page needs both); a launch through the API under an id that a live
`pit up` uses is not modelled; commons and private rooms are joined from the start;
cue policies other than `round` are left out. Further:

* Launch: `pit up` reads a package in one step, though the server may be swapping it
  meanwhile; one folder upload goes on at a time; a file of the model is project.json or
  a whole agent folder (one that has lost its agent.json loads in no package, one that
  has lost its persona or a resource loads without it); placeholders are those of
  project.json's own fields; of `check_grants` the missing key handle and the config
  schema are left out (`core/tools.py:308-319`), which only refuse more.
* Lifecycle: `containers.run` of docker-py creates and starts in one step
  (`forge/container.py:181`); sampled spend is not rounded, and the SPEND event with a
  negative amount, written when tokens grew while spend fell (`ledger.py:156-162`), is
  left out: rounding moves a charge by less than a millionth, and the latter lowers it. Agents that the host eliminates do
  not count among the gone (`runner.py:418`); the declared conditions may end the realm at
  any tick all the same.
* Machine: the roster of the instances holds the referee, which
  `gatekeeper/machine_record.py:17` leaves out of it; no rotation of theirs is over a role
  of the referee, so the pointer moves as in the code. A reader's first call, without
  `since`, gets the tail of the log and is not modelled: paging begins with the next.
  The queries of a reader do not raise.
* Scribe: `Approve` writes a version in one step and under a name of its own, so neither
  a death amid the swap (section 5) nor the shadowing of a bundled example is seen.

Left of the plan, in the order of its worth:

1. `RealmLifecycle` with several ids, composed with `Launch`, so that a reap and a
   rollback meet on the containers of one platform.
2. The other cue policies of the turn manager.
