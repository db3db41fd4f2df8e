-------------------------------- MODULE Launch --------------------------------
(***************************************************************************)
(* From a package to a run: the launch and rerun endpoints and the startup *)
(* of gatekeeper/api.py, RealmManager, Platform.run, the provider tables   *)
(* (core/providers.py, gatekeeper/appstate.py), and the commands `pit up`  *)
(* and `pit reap`, which are processes of their own.                       *)
(*                                                                         *)
(* The endpoints that launch hold the event loop from their first check to *)
(* the task they create (rerun reads the chronicle in between, and every   *)
(* check that could be stale by then is made again by the task), so each   *)
(* is one step.  The task itself resolves the provider again when it runs. *)
(* A process looks for plugins once, when it first needs them: what is     *)
(* installed or removed later it does not see.                             *)
(* Of a project the model keeps what these steps read or change.           *)
(***************************************************************************)
EXTENDS Packages, Params, Sequences, FiniteSets, TLC

CONSTANTS
    Agent,          \* the files that make an agent
    Says,           \* version -> [spec, agents], what its files say
    Provider,       \* provider names
    Default,        \* the built-in one that stands in
    PlugIn,         \* the providers a plugin contributes, together with the risky tool
    Seed,           \* provider -> the profile it comes with
    Profile,        \* the profiles a settings page may store
    Realm,          \* realm ids
    Capacity,       \* realms the server runs at a time
    Supplied,       \* bound: the parameter values a caller gives together
    Consents,       \* bound: the consents a caller gives together
    Overrides,      \* bound: what the launch dialog says of turns
    MaxLaunches, MaxAsked, MaxCrashes      \* bounds: runs, runs and changes together, deaths

ASSUME LaunchAssumption ==
    /\ Agent \subseteq File \ {Manifest}
    /\ Default \in Provider \ PlugIn /\ Seed \in [Provider -> Profile]
    /\ \A values \in Supplied : \A n \in DOMAIN values : values[n] \in Text
    /\ Consents \subseteq SUBSET {"holes", "provider", "elevated"}
    /\ Overrides \subseteq Nat \cup {-1}
    /\ Capacity \in Nat \ {0} /\ {MaxLaunches, MaxAsked, MaxCrashes} \subseteq Nat
    /\ \A f \in Profile : f.model # None

VARIABLES
    server,     \* "up", "closing" or "down"
    task,       \* realm -> the run of that id the server or a `pit up` has under way
    event,      \* realm -> its latest LIFECYCLE event
    log,        \* realm -> its "running" events: the projects that ran
    boxes,      \* realms with containers
    stored,     \* the provider chosen on the settings page, or None
    saved,      \* provider -> the profile stored with the settings, or None
    plugged,    \* the plugin is installed
    found,      \* whether the server's process found it, None before it has looked
    launches, changes, crashes      \* bounds

platform == <<stored, saved, plugged, found>>
records  == <<event, log, boxes>>
vars     == <<packageVars, server, task, records, platform, launches, changes, crashes>>

-----------------------------------------------------------------------------
(* Projects and providers.                                                 *)

\* what the loader reads: the spec of project.json and the agents that are there, the
\* cap and the model of each.  turns is the silence timeout, 0 without turns
Read(path, package) ==
    LET spec   == Says[package[Manifest]].spec
        roster == {a \in Agent : package[a] # None}
        Of(a)  == Says[package[a]].agents[a]
    IN  [turns |-> spec.turns, wakes |-> spec.wakes, effects |-> spec.effects,
         prose |-> spec.prose, decl |-> spec.decl,
         cap |-> [a \in roster |-> Of(a).cap], model |-> [a \in roster |-> Of(a).model],
         risky |-> \E a \in roster : Of(a).risky,
         perRound |-> \E a \in roster : Of(a).perRound, source |-> path]

\* a machine that wakes its players and turns that do would be two attention systems
OneAttention(p) == ~(p.wakes /\ p.turns > 0)

\* Project._integrity: an allowance per round needs rounds
Integrity(p) == OneAttention(p) /\ (p.perRound => p.turns > 0)

\* the seeds and the profiles the process found, overlaid with what the settings stored
Table(q, profiles) ==
    IF saved[q] # None THEN saved[q]
    ELSE IF q \in PlugIn /\ profiles # TRUE THEN None ELSE Seed[q]

\* resolve_provider: the stored choice if there is one and it can be resolved
FellBack(profiles) == stored # None /\ Table(stored, profiles) = None
Chosen(profiles)   == IF stored = None \/ FellBack(profiles) THEN Default ELSE stored

\* bug: the provider's model replaces what the project names
Reresolved(p, profile) == [p EXCEPT !.model = [a \in DOMAIN p.model |-> profile.model]]

\* an agent's own model wins over the provider's
Resolved(p, profile) ==
    [p EXCEPT !.model = [a \in DOMAIN p.model |->
                            IF p.model[a] = None THEN profile.model ELSE p.model[a]]]

\* only a flat-rate profile lifts the caps; a slow one lengthens turns
Lifted(p, profile) ==
    [p EXCEPT !.cap = [a \in DOMAIN p.cap |->
                          IF profile.flat /\ p.cap[a] < profile.budget
                          THEN profile.budget ELSE p.cap[a]]]
Paced(p, profile) ==
    IF p.turns > 0 /\ p.turns < profile.turn THEN [p EXCEPT !.turns = profile.turn] ELSE p

\* what Platform.run makes of a project before it runs
AsRun(p, profile) == Lifted(Paced(Resolved(p, profile), profile), profile)

\* check_grants, elevated_grants: the risky tool is the plugin's
GrantsWork(p, tools) == p.risky => tools = TRUE
Elevated(p, tools)   == p.risky /\ tools = TRUE

\* bug: the machine's effects are forgotten
NeedsConsentTools(p) == Elevated(p, found)

\* only the API asks about participants that write the machine's state
NeedsConsent(p) == Elevated(p, found) \/ p.effects

\* bind: the values go into the prose, and the bound copy no longer knows where it
\* was loaded from
Bound(p) == [p EXCEPT !.prose = <<>>, !.decl = <<>>, !.source = None]

\* _apply_params: a scenario that takes no parameters is not bound, and keeps its source
Applied(p, supplied) == IF p.prose = <<>> /\ supplied = <<>> THEN p ELSE Bound(p)

\* the project of a record, which does not know where it was loaded from
Restored(p) == [p EXCEPT !.source = None]

\* apply_turns_override, on a copy nothing validates again: -1 leaves the scenario's
\* turns, 0 switches them off, more is the silence timeout
Turned(p, override) == IF override = -1 THEN p ELSE [p EXCEPT !.turns = override]

-----------------------------------------------------------------------------
(* Launching.                                                              *)

Active == {r \in Realm : task[r] # None /\ task[r].by = "api"}
Free(r) == task[r] = None /\ Cardinality(Active) < Capacity

\* what the endpoints that launch ask: that nobody is given a substitute provider
\* unasked, that the granted tools work, that powers beyond the realm are agreed to
ProviderAgreed(profiles, yes) == FellBack(profiles) => "provider" \in yes
ToolsWork(p)      == GrantsWork(p, found)
Cleared(p, yes)   == ToolsWork(p) /\ (NeedsConsent(p) => "elevated" \in yes)

\* what `pit up` asks of the tools, in a process that has just looked for them
UpCleared(p, yes) == GrantsWork(p, plugged) /\ (Elevated(p, plugged) => "elevated" \in yes)

\* _confirm_provider: who was not asked has not consented
Confirmed(yes) == IF FellBack(plugged) THEN yes ELSE yes \ {"provider"}

\* the task the server or the command starts; sees are the profiles its process
\* found, asked is the provider that was configured when it resolved one; takes, a
\* history, each parameter of the package, its default and what is declared of it
Takes(p) == [n \in Names(p.prose) |->
                [default |-> DefaultOf(p.prose, p.decl, n), spec |-> Declared(p.decl, n)]]
Task(by, kind, p, values, takes, yes, of, sees) ==
    [by |-> by, kind |-> kind, project |-> p, values |-> values, takes |-> takes,
     yes |-> yes, of |-> of, sees |-> sees,
     at |-> "queued", provider |-> None, asked |-> None]

Start(r, t) ==
    /\ launches' = launches + 1
    /\ task' = [task EXCEPT ![r] = t]
    /\ UNCHANGED <<packageVars, server, records, platform, changes, crashes>>

\* every request that launches: the server is up and has looked for plugins
Asks(yes) ==
    /\ server = "up" /\ saving = None /\ found # None
    /\ ProviderAgreed(found, yes)

\* POST /api/realms
Create(r, path, supplied, override, yes) ==
    /\ Asks(yes) /\ Loads(At(path))
    /\ \E p \in {Read(path, At(path))} :
          /\ Bindable(p.prose, p.decl, supplied, "holes" \in yes)
          /\ Cleared(p, yes) /\ Free(r)
          /\ Start(r, Task("api", "create", Turned(Bound(p), override),
                           Resolve(p.prose, p.decl, supplied), Takes(p), yes, None, found))

\* POST /api/realms/r/rerun, mode snapshot: the first project of the record,
\* validated again
Replay(r, new, yes) ==
    /\ Asks(yes) /\ log[r] # <<>> /\ event[new] = "none"
    /\ \E p \in {Restored(log[r][1].project)} :
          /\ Integrity(p)
          /\ Cleared(p, yes) /\ Free(new)
          /\ Start(new, Task("api", "replay", p, <<>>, Takes(p), yes, r, found))

\* mode latest: the package as it is now, its parameters unbound
Latest(r, new, yes) ==
    /\ Asks(yes) /\ log[r] # <<>> /\ event[new] = "none"
    /\ \E path \in {log[r][1].project.source} \ {None} :
          /\ Loads(At(path))
          /\ \E p \in {Read(path, At(path))} :
                /\ Cleared(p, yes) /\ Free(new)
                /\ Start(new, Task("api", "latest", p, <<>>, Takes(p), yes, r, found))

\* pit up: a process of its own, on a fresh id, that knows no capacity
Up(r, path, supplied, yes) ==
    /\ task[r] = None /\ event[r] = "none"
    /\ Loads(At(path))
    /\ \E p \in {Read(path, At(path))} :
          /\ Bindable(p.prose, p.decl, supplied, "holes" \in yes)
          /\ UpCleared(p, yes) /\ ProviderAgreed(plugged, yes)
          /\ Start(r, Task("cli", "up", Applied(p, supplied),
                           Resolve(p.prose, p.decl, supplied), Takes(p), Confirmed(yes),
                           None, plugged))

-----------------------------------------------------------------------------
(* Platform.run and Runner.run.                                            *)

\* a task goes on; one of the server's waits while a write holds the event loop
GoesOn(r, stage) == task[r] # None /\ task[r].at = stage /\ (task[r].by = "api" => saving = None)

\* bug: the check at launch is taken to hold when the task runs
BeginsUnchecked(r) ==
    /\ GoesOn(r, "queued")
    /\ \E name \in {Chosen(task[r].sees)} :
          task' = [task EXCEPT ![r].at = "provisioning", ![r].provider = name,
                               ![r].asked = stored,
                               ![r].project = AsRun(@, Table(name, task[r].sees))]
    /\ event' = [event EXCEPT ![r] = "provisioning"]
    /\ UNCHANGED <<packageVars, server, log, boxes, platform, launches, changes, crashes>>

\* the provider is resolved when the task runs, and a substitute nobody agreed to
\* is refused
Begins(r) ==
    /\ GoesOn(r, "queued")
    /\ ProviderAgreed(task[r].sees, task[r].yes)
    /\ \E name \in {Chosen(task[r].sees)} :
          task' = [task EXCEPT ![r].at = "provisioning", ![r].provider = name,
                               ![r].asked = stored,
                               ![r].project = AsRun(@, Table(name, task[r].sees))]
    /\ event' = [event EXCEPT ![r] = "provisioning"]
    /\ UNCHANGED <<packageVars, server, log, boxes, platform, launches, changes, crashes>>

\* the manager marks a realm whose task raised; a command only prints what happened
Refused(r) ==
    /\ GoesOn(r, "queued")
    /\ ~ProviderAgreed(task[r].sees, task[r].yes)
    /\ task' = [task EXCEPT ![r] = None]
    /\ event' = IF task[r].by = "api" THEN [event EXCEPT ![r] = "failed"] ELSE event
    /\ UNCHANGED <<packageVars, server, log, boxes, platform, launches, changes, crashes>>

Ran(t) == [project |-> t.project, by |-> t.by, kind |-> t.kind, values |-> t.values,
           takes |-> t.takes, yes |-> t.yes, of |-> t.of, provider |-> t.provider, asked |-> t.asked]

\* the containers of the agents are started
Provisions(r) ==
    /\ GoesOn(r, "provisioning")
    /\ task' = [task EXCEPT ![r].at = "born"]
    /\ boxes' = IF DOMAIN task[r].project.model = {} THEN boxes ELSE boxes \cup {r}
    /\ UNCHANGED <<packageVars, server, event, log, platform, launches, changes, crashes>>

\* the record of the run is written
Runs(r) ==
    /\ GoesOn(r, "born")
    /\ task' = [task EXCEPT ![r].at = "running"]
    /\ log' = [log EXCEPT ![r] = Append(@, Ran(task[r]))]
    /\ event' = [event EXCEPT ![r] = "running"]
    /\ UNCHANGED <<packageVars, server, boxes, platform, launches, changes, crashes>>

\* the realm concludes and is torn down
Concludes(r) ==
    /\ GoesOn(r, "running")
    /\ task' = [task EXCEPT ![r] = None]
    /\ boxes' = boxes \ {r}
    /\ event' = [event EXCEPT ![r] = "archived"]
    /\ UNCHANGED <<packageVars, server, log, platform, launches, changes, crashes>>

-----------------------------------------------------------------------------
(* Settings, the server's life and the reaper.                             *)

Change == /\ launches + changes < MaxAsked /\ changes' = changes + 1
          /\ UNCHANGED <<packageVars, server, task, records, launches, crashes>>

SetProvider(q) ==
    /\ server = "up" /\ saving = None /\ Change
    /\ found # None /\ Table(q, found) # None /\ stored' = q
    /\ UNCHANGED <<saved, plugged, found>>

\* the tables are stored whole, as the page sends them
SetModelConfig(q, profile) ==
    /\ server = "up" /\ saving = None /\ Change
    /\ found # None /\ Table(q, found) # None
    /\ saved' = [p \in Provider |-> IF p = q THEN profile ELSE Table(p, found)]
    /\ UNCHANGED <<stored, plugged, found>>

\* external: the environment is rebuilt, with the plugin or without it
Sync == Change /\ plugged' = ~plugged /\ UNCHANGED <<stored, saved, found>>

\* plugin_profiles and tool_registry look once per process: here at its first request,
\* which the settings page makes and which needs both
Look ==
    /\ server = "up" /\ saving = None /\ found = None
    /\ found' = plugged
    /\ UNCHANGED <<packageVars, server, task, records, stored, saved, plugged,
                   launches, changes, crashes>>

AskForPackages ==
    /\ server = "up" /\ launches + changes < MaxAsked /\ changes' = changes + 1
    /\ AskPackages
    /\ UNCHANGED <<server, task, records, platform, launches, crashes>>

WritesPackages ==
    /\ server # "down" /\ WritePackages
    /\ UNCHANGED <<server, task, records, platform, launches, changes, crashes>>

\* reap_orphans: what belongs to no realm named goes
Swept(active) == boxes \cap active

\* no further request is taken; the tasks are told to stop and waited for
StartClosing ==
    /\ server = "up" /\ saving = None /\ upload = None
    /\ server' = "closing"
    /\ UNCHANGED <<packageVars, task, records, platform, launches, changes, crashes>>

Close ==
    /\ server = "closing" /\ Active = {}
    /\ server' = "down" /\ boxes' = Swept({})
    /\ UNCHANGED <<packageVars, task, event, log, platform, launches, changes, crashes>>

Crash ==
    /\ server # "down" /\ crashes < MaxCrashes /\ crashes' = crashes + 1
    /\ server' = "down"
    /\ task' = [r \in Realm |-> IF r \in Active THEN None ELSE task[r]]
    /\ DropWrites
    /\ UNCHANGED <<records, platform, launches, changes>>

\* the process of a `pit up` dies
Killed(r) ==
    /\ task[r] # None /\ task[r].by = "cli"
    /\ crashes < MaxCrashes /\ crashes' = crashes + 1
    /\ task' = [task EXCEPT ![r] = None]
    /\ UNCHANGED <<packageVars, server, records, platform, launches, changes>>

NonTerminal == {"provisioning", "running"}

\* reconcile_orphans, then the sweep: before anything is served, of every realm the
\* server does not run, which is all of them
Boot ==
    /\ server = "down" /\ server' = "up"
    /\ event' = [r \in Realm |-> IF event[r] \in NonTerminal THEN "interrupted" ELSE event[r]]
    /\ boxes' = Swept({}) /\ found' = None
    /\ UNCHANGED <<packageVars, task, log, stored, saved, plugged,
                   launches, changes, crashes>>

\* the entry of a realm in the answer of /api/realms
Entered(r) == [realm_id |-> r, active |-> r \in Active]

\* `pit reap` spares the realms whose entry has the state "running"
Spared == IF server # "up" THEN {}
          ELSE {r \in Realm : "state" \in DOMAIN Entered(r) /\ Entered(r).state = "running"}

Reap ==
    /\ boxes # {}
    /\ boxes' = Swept(Spared)
    /\ UNCHANGED <<packageVars, server, task, event, log, platform, launches, changes, crashes>>

-----------------------------------------------------------------------------

Init ==
    /\ PackagesInit
    /\ server = "up" /\ task = [r \in Realm |-> None]
    /\ event = [r \in Realm |-> "none"] /\ log = [r \in Realm |-> <<>>] /\ boxes = {}
    /\ stored = None /\ saved = [q \in Provider |-> None] /\ plugged = TRUE /\ found = None
    /\ launches = 0 /\ changes = 0 /\ crashes = 0

Launches ==
    /\ launches < MaxLaunches /\ launches + changes < MaxAsked
    /\ \/ \E r \in Realm, path \in Path, supplied \in Supplied, yes \in Consents :
             \/ \E override \in Overrides : Create(r, path, supplied, override, yes)
             \/ Up(r, path, supplied, yes)
       \/ \E r, new \in Realm, yes \in Consents : Replay(r, new, yes) \/ Latest(r, new, yes)

Steps ==
    \E r \in Realm : Begins(r) \/ Refused(r) \/ Provisions(r) \/ Runs(r) \/ Concludes(r)

Settings ==
    \/ \E q \in Provider : SetProvider(q) \/ (\E f \in Profile : SetModelConfig(q, f))
    \/ Sync \/ Look

Life == StartClosing \/ Close \/ Crash \/ Boot \/ Reap \/ \E r \in Realm : Killed(r)

Next == Launches \/ Steps \/ Settings \/ AskForPackages \/ WritesPackages \/ Life
Spec == Init /\ [][Next]_vars

-----------------------------------------------------------------------------
(* Properties.                                                             *)

Logged == {k \in Realm \X (1..MaxLaunches) : k[2] <= Len(log[k[1]])}
Entry(k) == log[k[1]][k[2]]

\* No run is on a provider other than the one the settings named when it began,
\* unless its caller agreed: "Silence must not be read as agreement to spend"
\* (api.py:124), and the settings may change between the launch and the run, by a
\* process that sees other plugins.
NoSilentSubstitute ==
    \A k \in Logged : Entry(k).asked \notin {None, Entry(k).provider} =>
        "provider" \in Entry(k).yes

\* Whatever way a run came about - the package, a replay, the current file - a tool
\* that reaches past the realm ran by consent, and on the server so did a machine
\* the participants write to (api.py:1216).
ConsentedOnly ==
    \A k \in Logged : Entry(k).project.risky \/ (Entry(k).by = "api" /\ Entry(k).project.effects)
        => "elevated" \in Entry(k).yes

\* A replay runs the models of the run it repeats, whatever provider is chosen by
\* then and whatever became of its tables (api.py:1480).
ReplayKeepsModels ==
    \A k \in Logged : Entry(k).kind = "replay" =>
        Entry(k).project.model = log[Entry(k).of][1].project.model

\* what a parameter may be given: a blank only where the author's default is blank or
\* there is none and the caller agreed to holes, else the default or what passes the
\* checks of its declaration; and one of the choices where there are any
Fits(value, takes, yes) ==
    IF value = Empty
    THEN takes.default = Empty \/ (takes.default = Unset /\ "holes" \in yes)
    ELSE /\ value = takes.default \/ ~Problem(value, takes.spec)
         /\ takes.spec.choices # Unset => value \in takes.spec.choices

\* A run of a package, by the API or `pit up`, has a fitting value for each parameter
\* the package takes and no placeholder left in its prose; a replay has the prose of the
\* run it repeats.  (api.py:115, params.py:297.  A rerun of the latest package binds
\* nothing, api.py:1512, and is left out: it runs with its placeholders, and so does a
\* replay of it.)
ParametersHold ==
    \A k \in Logged :
        LET e == Entry(k)
        IN  /\ e.kind \in {"create", "up"} =>
                  /\ e.project.prose = <<>> /\ DOMAIN e.values = DOMAIN e.takes
                  /\ \A n \in DOMAIN e.takes : Fits(e.values[n], e.takes[n], e.yes)
            /\ e.kind = "replay" => e.project.prose = log[e.of][1].project.prose

-----------------------------------------------------------------------------
(* What the documentation says and the code does not do.                   *)

\* main.py:57, "It asks the control plane which realms are live first and SPARES
\* those": a realm that the server runs has its containers.
LiveRealmsSpared ==
    server = "up" => \A r \in Active :
        task[r].at = "running" /\ DOMAIN task[r].project.model # {} => r \in boxes
===============================================================================
