------------------------- MODULE RealmLifecycleProofs -------------------------
(***************************************************************************)
(* Proofs about RealmLifecycle for every roster, budget policy and bound:  *)
(* its tables stay in their domains, a rollback is complete, an archived   *)
(* run has nothing left that acts or pays, and nobody is charged more than *)
(* its keys have spent.                                                    *)
(***************************************************************************)
EXTENDS RealmLifecycle, FiniteSetTheorems, WellFoundedInduction, TLAPS

LEMMA RosterFacts ==
    /\ Len(Roster) \in Nat
    /\ \A i \in 1..Len(Roster) : Roster[i] \in Agents
    /\ \A n \in 0..Len(Roster) : FirstOf(n) \subseteq Agents
    /\ FirstOf(Len(Roster)) = Agents
    /\ Roster # <<>> => 0 < Len(Roster)
  BY LifecycleAssumption DEF LifecycleAssumption, Agents, ToSet, FirstOf

-----------------------------------------------------------------------------
(* The domains.  A task that is under way has a run of its own, agents are *)
(* left to provision while it provisions, and no key or container belongs  *)
(* to a run to come.                                                       *)

Awaits == {"none", "begin", "bus", "mint", "box", "running", "kickoff", "tick", "budget",
           "conclude", "wrap", "teardown", "keys", "settle", "archive", "report",
           "undo", "undokeys", "undone", "raised"}

TypeInv ==
    /\ server \in {"down", "reaping", "up", "closing"}
    /\ pc \in Awaits
    /\ run \in 0..MaxStarts
    /\ Active => server \in {"up", "closing"} /\ run # 0
    /\ handles \in 0..Len(Roster)
    /\ pc \in {"none", "begin", "bus"} => handles = 0
    /\ pc \in {"mint", "box"} => handles < Len(Roster)
    /\ killed \subseteq seen
    /\ ledger \in [Agents -> 0..run]
    /\ box \in [Agents -> 0..run]
    /\ awake \subseteq {a \in Agents : box[a] # 0}
    /\ live \subseteq Agents \X (1..run)

LEMMA TypeInvTypeOK == TypeInv => TypeOK
<1> SUFFICES ASSUME TypeInv PROVE TypeOK
  OBVIOUS
<1>1. run \in 0..MaxStarts /\ MaxStarts \in Nat
  BY LifecycleAssumption DEF LifecycleAssumption, TypeInv
<1>2. 1..run \subseteq Runs
  BY <1>1 DEF Runs
<1>3. live \subseteq Agents \X Runs
  BY <1>2 DEF TypeInv
<1>4. \A a \in Agents : ledger[a] \in 0..run /\ box[a] \in 0..run
  BY DEF TypeInv
<1>5. QED
  BY ONLY <1>3, <1>4, TypeInv DEF TypeInv, TypeOK

LEMMA InitTypeInv == Init => TypeInv
<1> SUFFICES ASSUME Init PROVE TypeInv
  OBVIOUS
<1>1. 0 \in 0..MaxStarts /\ 0 \in 0..Len(Roster)
  BY LifecycleAssumption, RosterFacts DEF LifecycleAssumption
<1>2. /\ server = "up" /\ pc = "none" /\ run = 0 /\ handles = 0 /\ killed \subseteq seen
      /\ ledger = [a \in Agents |-> 0] /\ box = [a \in Agents |-> 0]
      /\ awake = {} /\ live = {}
  BY DEF Init
<1>3. ledger \in [Agents -> 0..run] /\ box \in [Agents -> 0..run]
  BY ONLY <1>2
<1>4. QED
  BY ONLY <1>1, <1>2, <1>3 DEF TypeInv, Awaits, Active

\* whoever is provisioned next is on the roster
LEMMA ProvisioningHasNext ==
    ASSUME TypeInv, pc \in {"mint", "box"}
    PROVE  /\ NextAgent \in Agents /\ run \in Nat \ {0} /\ server \in {"up", "closing"}
           /\ handles \in Nat /\ handles < Len(Roster) /\ Len(Roster) \in Nat
<1>1. /\ handles \in 0..Len(Roster) /\ handles < Len(Roster) /\ run \in 0..MaxStarts
      /\ server \in {"up", "closing"} /\ run # 0
  BY DEF TypeInv, Active
<1>2. handles + 1 \in 1..Len(Roster) /\ run \in Nat \ {0}
  BY <1>1, RosterFacts, LifecycleAssumption DEF LifecycleAssumption
<1>3. NextAgent \in Agents
  BY <1>2, RosterFacts DEF NextAgent
<1>4. QED
  BY <1>1, <1>2, <1>3, RosterFacts

LEMMA StepTypeInv == TypeInv /\ [Next]_vars => TypeInv'
<1> SUFFICES ASSUME TypeInv, [Next]_vars PROVE TypeInv'
  OBVIOUS
<1> USE LifecycleAssumption, RosterFacts DEF TypeInv, Awaits, Active, watch, purse, docker, proxy
<1>0. CASE UNCHANGED vars
  BY <1>0 DEF vars
<1>1. CASE Launch
  BY <1>1 DEF Launch, LifecycleAssumption
<1>2. CASE Begin \/ AppendRunning \/ AppendConcluding \/ AppendArchived
  BY <1>2 DEF Begin, AppendRunning, AppendConcluding, AppendArchived, Chronicled, Pass
<1>3. CASE ProvisionBus
  BY <1>3 DEF ProvisionBus, Pass
<1>4. CASE MintKey
  <2>1. /\ pc = "mint" /\ pc' = "box" /\ live' = live \cup {<<NextAgent, run>>}
        /\ ledger' = [ledger EXCEPT ![NextAgent] = run]
        /\ UNCHANGED <<server, run, handles, killed, seen, box, awake>>
    BY ONLY <1>4 DEF MintKey, Key
  <2>2. /\ NextAgent \in Agents /\ run \in Nat \ {0} /\ server \in {"up", "closing"}
    BY <2>1, ProvisioningHasNext
  <2>3. ledger' \in [Agents -> 0..run] /\ live' \subseteq Agents \X (1..run)
    BY ONLY <2>1, <2>2, TypeInv
  <2>4. QED
    BY ONLY <2>1, <2>2, <2>3, TypeInv
<1>5. CASE RunContainer
  <2>1. /\ pc = "box" /\ NextAgent \in Agents /\ run \in Nat \ {0}
        /\ UNCHANGED <<server, run, killed, seen, ledger, live>>
    BY <1>5, ProvisioningHasNext DEF RunContainer
  <2>0. \/ handles' = handles + 1 /\ pc' = IF handles' < Len(Roster) THEN "mint" ELSE "running"
        \/ handles' = handles /\ pc' = "undo"
    BY ONLY <1>5 DEF RunContainer
  <2>a. handles \in Nat /\ handles < Len(Roster) /\ Len(Roster) \in Nat
    BY <2>1, ProvisioningHasNext
  <2>2. pc' \in Awaits /\ handles' \in 0..Len(Roster)
    BY ONLY <2>0, <2>a
  <2>3. pc' \in {"mint", "running", "undo"} /\ (pc' = "mint" => handles' < Len(Roster))
    BY ONLY <2>0, <2>a
  <2>4. /\ box \in [Agents -> 0..run] /\ run \in 0..run
        /\ awake \subseteq {a \in Agents : box[a] # 0}
        /\ \/ UNCHANGED <<box, awake>>
           \/ /\ box' = [box EXCEPT ![NextAgent] = run]
              /\ awake' = awake \cup {NextAgent}
    BY ONLY <1>5, <2>1, TypeInv DEF RunContainer
  <2>5. /\ box' \in [Agents -> 0..run]
        /\ awake' \subseteq {a \in Agents : box'[a] # 0}
    BY ONLY <2>1, <2>4
  <2> QED
    BY ONLY <2>1, <2>2, <2>3, <2>5, TypeInv
<1>6. CASE ProvisionFails \/ Kickoff \/ Raises \/ WrapUp \/ TeardownError
  BY <1>6 DEF ProvisionFails, Kickoff, Raises, WrapUp, TeardownError, Pass
<1>7. CASE AppendFailed \/ FinalReport
  BY <1>7 DEF AppendFailed, FinalReport, Ends, Forgotten
<1>8. CASE Sample
  BY <1>8 DEF Sample, TickLost
<1>9. CASE SnapshotFails \/ KeepWatching \/ Conclude \/ NudgeFails
  BY <1>9 DEF SnapshotFails, KeepWatching, Conclude, NudgeFails, Judged, TickLost
<1>10. ASSUME NEW a \in Agents, NoteExhausted(a) PROVE TypeInv'
  BY <1>10 DEF NoteExhausted, TickLost
<1>11. ASSUME NEW a \in Agents, Kill(a) PROVE TypeInv'
  BY <1>11 DEF Kill, TickLost
<1>12. CASE RemoveContainers
  <2>1. /\ pc' \in {"keys", "undokeys"} /\ pc \in {"teardown", "undo"}
        /\ UNCHANGED <<server, run, handles, killed, seen, ledger, live>>
    BY <1>12 DEF RemoveContainers
  <2>2. PICK stay \in SUBSET Handled, up \in SUBSET awake :
            /\ up \subseteq stay
            /\ box' = [a \in Agents |-> IF a \in Handled \ stay THEN 0 ELSE box[a]]
            /\ awake' = (awake \ Handled) \cup up
    BY <1>12 DEF RemoveContainers
  <2>3. box' \in [Agents -> 0..run]
    BY <2>2
  <2>4. awake' \subseteq {a \in Agents : box'[a] # 0}
    BY <2>2
  <2> QED
    BY <2>1, <2>3, <2>4
<1>13. CASE RevokeKeys
  BY <1>13 DEF RevokeKeys
<1>14. CASE Settle
  BY <1>14 DEF Settle
<1>15. CASE Stop \/ Reconcile \/ Shutdown
  BY <1>15 DEF Stop, Reconcile, Shutdown, Still
<1>16. CASE Crash
  BY <1>16 DEF Crash, Still, Forgotten
<1>17. CASE Reap \/ Close
  BY <1>17 DEF Reap, Close, Reaped
<1>18. ASSUME NEW a \in Agents, Spend(a) PROVE TypeInv'
  BY <1>18 DEF Spend
<1> QED
  BY <1>0, <1>1, <1>2, <1>3, <1>4, <1>5, <1>6, <1>7, <1>8, <1>9, <1>10, <1>11, <1>12, <1>13,
     <1>14, <1>15, <1>16, <1>17, <1>18 DEF Next, TaskStep

\* The tables of the lifecycle stay in their domains for every roster and policy,
\* whatever fails and however often the platform restarts.
THEOREM TypeCorrect == Spec => []TypeOK
  BY InitTypeInv, StepTypeInv, TypeInvTypeOK, PTL DEF Spec

-----------------------------------------------------------------------------
(* What a run owns.  The Forge has a handle for every container of the run *)
(* and the Ledger holds every key of it that the proxy accepts, so what a  *)
(* teardown removes is all there is: that is why the last two conjuncts of *)
(* the state after a teardown hold, and why they survive until the next    *)
(* run of the id, whose number is on no container and on no key.           *)

Owned ==
    Active => \A a \in Agents : /\ box[a] = run => a \in Handled
                                /\ Key(a) \in live => ledger[a] = run

\* the awaits after the containers, and after the keys, of the run have gone
Revoked == {"undone", "settle", "archive", "report"}
Removed == Revoked \cup {"keys", "undokeys"}

Cleared ==
    ~stuck => \A a \in Agents : /\ pc \in Removed => box[a] # run
                                /\ pc \in Revoked => Key(a) \notin live

ArchivedAt == status = "archived" => pc \in {"none", "begin", "raised", "report"}

OwnInv == TypeInv /\ Owned /\ Cleared /\ ArchivedAt /\ ArchivedIsClean

LEMMA InitOwnInv == Init => OwnInv
  BY InitTypeInv DEF Init, OwnInv, Owned, Cleared, ArchivedAt, ArchivedIsClean, Active,
                     Removed, Revoked, Key

\* The steps that touch no container and no key: they leave a run what it owns as long
\* as they go past no removal, and archive it only after the removals.
Idle ==
    /\ UNCHANGED <<run, stuck, box, live>>
    /\ \/ pc' = "none"
       \/ pc # "none" /\ UNCHANGED <<handles, ledger>>
    /\ pc' \in Removed => pc \in Removed
    /\ pc' \in Revoked => pc \in Revoked
    /\ status' = "archived" => /\ pc' \in {"none", "begin", "raised", "report"}
                               /\ status = "archived" \/ pc \in Revoked

LEMMA IdleKeeps == OwnInv /\ Idle => Owned' /\ Cleared' /\ ArchivedAt' /\ ArchivedIsClean'
<1> SUFFICES ASSUME OwnInv, Idle PROVE Owned' /\ Cleared' /\ ArchivedAt' /\ ArchivedIsClean'
  OBVIOUS
<1> USE DEF OwnInv, Idle, Key
<1>1. Owned'
  BY DEF Owned, Active, Handled
<1>2. Cleared'
  BY DEF Cleared
<1>3. ArchivedAt'
  BY DEF ArchivedAt
<1>4. ArchivedIsClean'
  BY DEF ArchivedIsClean, Cleared, Removed
<1> QED
  BY <1>1, <1>2, <1>3, <1>4

LEMMA StepOwnInv == OwnInv /\ [Next]_vars => OwnInv'
<1> SUFFICES ASSUME OwnInv, [Next]_vars PROVE OwnInv'
  OBVIOUS
<1>t. TypeInv /\ TypeInv'
  BY StepTypeInv DEF OwnInv
<1> USE DEF OwnInv, Key, docker, proxy, purse, watch
<1>s. SUFFICES Idle \/ (Owned' /\ Cleared' /\ ArchivedAt' /\ ArchivedIsClean')
  BY <1>t, IdleKeeps
<1>0. CASE UNCHANGED vars
  BY <1>0 DEF vars, Idle, ArchivedAt
<1>1. CASE Launch
  <2>1. \A a \in Agents : box'[a] # run' /\ <<a, run'>> \notin live' /\ run' = run + 1
    BY <1>1, <1>t DEF Launch, TypeInv
  <2> QED
    BY <2>1, <1>1 DEF Launch, Owned, Cleared, ArchivedAt, ArchivedIsClean, Removed, Revoked
<1>2. CASE Begin \/ AppendRunning \/ AppendConcluding \/ AppendArchived
  BY <1>2 DEF Begin, AppendRunning, AppendConcluding, AppendArchived, Chronicled, Pass, Idle,
              Removed, Revoked
<1>3. CASE ProvisionBus \/ ProvisionFails \/ Kickoff \/ Raises \/ WrapUp \/ TeardownError
  BY <1>3 DEF ProvisionBus, ProvisionFails, Kickoff, Raises, WrapUp, TeardownError, Pass, Idle,
              Removed, Revoked, ArchivedAt
<1>4. CASE MintKey
  <2>1. /\ pc = "mint" /\ pc' = "box" /\ run' = run /\ NextAgent \in Agents
        /\ UNCHANGED <<handles, box, status>>
        /\ live' = live \cup {Key(NextAgent)}
        /\ ledger' = [ledger EXCEPT ![NextAgent] = run]
        /\ ledger \in [Agents -> 0..run]
    BY <1>4, <1>t, RosterFacts DEF MintKey, NextAgent, TypeInv
  <2> QED
    BY <2>1 DEF Owned, Cleared, ArchivedAt, ArchivedIsClean, Active, Handled, Removed, Revoked
<1>5. CASE RunContainer
  <2>1. /\ pc = "box" /\ pc' \in {"mint", "running", "undo"}
        /\ UNCHANGED <<run, stuck, live, ledger, status>>
    BY <1>5 DEF RunContainer
  <2>2. CASE UNCHANGED <<box, handles>>
    BY <2>1, <2>2 DEF Idle, Removed, Revoked, ArchivedAt
  <2>3. CASE /\ box' = [box EXCEPT ![NextAgent] = run] /\ handles' = handles + 1
    <3>1. /\ box \in [Agents -> 0..run] /\ handles \in 0..Len(Roster) /\ Len(Roster) \in Nat
          /\ handles' \in 0..Len(Roster)
      BY <1>t, RosterFacts DEF TypeInv
    <3>2. Handled' = Handled \cup {NextAgent}
      BY <2>3, <3>1 DEF Handled, NextAgent
    <3> QED
      BY <2>1, <2>3, <3>1, <3>2 DEF Owned, Cleared, ArchivedAt, ArchivedIsClean, Active,
                                    Removed, Revoked
  <2> QED
    BY <1>5, <2>2, <2>3 DEF RunContainer
<1>6. CASE AppendFailed \/ FinalReport
  BY <1>6 DEF AppendFailed, FinalReport, Ends, Idle, Removed, Revoked
<1>7. CASE Sample
  BY <1>7 DEF Sample, TickLost, Polled, Idle, Removed, Revoked, ArchivedAt
<1>8. CASE SnapshotFails \/ KeepWatching \/ Conclude \/ NudgeFails
  BY <1>8 DEF SnapshotFails, KeepWatching, Conclude, NudgeFails, Judged, TickLost, Idle, Removed,
              Revoked, ArchivedAt
<1>9. ASSUME NEW a \in Agents, NoteExhausted(a) \/ Kill(a) PROVE Idle
  BY <1>9 DEF NoteExhausted, Kill, TickLost, Idle, Removed, Revoked, ArchivedAt
<1>10. CASE RemoveContainers
  <2>1. /\ pc \in {"teardown", "undo"} /\ pc' \in {"keys", "undokeys"}
        /\ UNCHANGED <<run, handles, live, ledger, status>>
        /\ \A a \in Agents : box'[a] # 0 => box'[a] = box[a]
        /\ ~stuck' => \A a \in Handled : a \in Agents => box'[a] = 0
        /\ ~stuck' => ~stuck
    BY <1>10 DEF RemoveContainers
  <2>2. run # 0
    BY <2>1, <1>t DEF TypeInv, Active
  <2> QED
    BY <2>1, <2>2 DEF Owned, Cleared, ArchivedAt, ArchivedIsClean, Active, Handled, Removed,
                      Revoked
<1>11. CASE RevokeKeys
  <2>1. /\ pc \in {"keys", "undokeys"} /\ pc' \in {"settle", "undone"}
        /\ UNCHANGED <<run, handles, box, status>> /\ (~stuck' => ~stuck)
    BY <1>11 DEF RevokeKeys
  <2>2. PICK n \in 0..Len(Roster) :
            /\ live' = live \ {<<a, ledger[a]>> : a \in Held \cap FirstOf(n)}
            /\ ledger' = [a \in Agents |-> IF a \in Held \cap FirstOf(n) THEN 0 ELSE ledger[a]]
            /\ ~stuck' => n = Len(Roster)
    BY <1>11 DEF RevokeKeys
  <2>3. Owned'
    BY <2>1, <2>2 DEF Owned, Active, Handled
  <2>4. ~stuck' => \A a \in Agents : Key(a) \notin live'
    <3> SUFFICES ASSUME ~stuck', NEW a \in Agents, Key(a) \in live' PROVE FALSE
      OBVIOUS
    <3>1. ledger[a] = run /\ run # 0
      BY <2>1, <2>2, <1>t DEF Owned, Active, TypeInv
    <3>2. a \in Held \cap FirstOf(n)
      BY <2>2, <3>1, RosterFacts DEF Held
    <3> QED
      BY <2>2, <3>1, <3>2
  <2>5. Cleared' /\ ArchivedAt' /\ ArchivedIsClean'
    BY <2>1, <2>4 DEF Cleared, ArchivedAt, ArchivedIsClean, Removed, Revoked
  <2> QED
    BY <2>3, <2>5
<1>12. CASE Settle
  BY <1>12 DEF Settle, Polled, Idle, Removed, Revoked, ArchivedAt
<1>13. CASE Stop \/ Reconcile \/ Shutdown
  BY <1>13 DEF Stop, Reconcile, Shutdown, Still, Idle, ArchivedAt
<1>14. CASE Crash
  BY <1>14 DEF Crash, Still, Idle, ArchivedAt, Removed, Revoked
<1>15. CASE Reap \/ Close
  <2>1. /\ pc = "none" /\ UNCHANGED <<pc, run, live, status>> /\ (~stuck' => ~stuck)
        /\ \A a \in Agents : box'[a] # 0 => box'[a] = box[a]
    BY <1>15, <1>t DEF Reap, Close, Reaped, TypeInv, Active
  <2>2. \A a \in Agents : run = 0 => box[a] = run
    BY <1>t DEF TypeInv
  <2>3. Owned' /\ Cleared' /\ ArchivedAt'
    BY <2>1 DEF Owned, Cleared, ArchivedAt, Active, Removed, Revoked
  <2>4. ArchivedIsClean'
    BY <2>1, <2>2 DEF ArchivedIsClean
  <2> QED
    BY <2>3, <2>4
<1>16. ASSUME NEW a \in Agents, Spend(a) PROVE Idle
  BY <1>16 DEF Spend, Idle, ArchivedAt
<1> QED
  BY <1>0, <1>1, <1>2, <1>3, <1>4, <1>5, <1>6, <1>7, <1>8, <1>9, <1>10, <1>11, <1>12, <1>13,
     <1>14, <1>15, <1>16 DEF Next, TaskStep

\* A provisioning that fails half way leaves no container and no key of its own, unless
\* Docker or the proxy refused, for every roster and wherever it fails (forge.py:107-125).
THEOREM RollbackLeavesNothing == Spec => []RollbackComplete
<1>1. OwnInv => RollbackComplete
  BY DEF OwnInv, Cleared, RollbackComplete, Removed, Revoked
<1> QED
  BY <1>1, InitOwnInv, StepOwnInv, PTL DEF Spec

\* An archived run has nothing left that acts or pays, however the platform failed on
\* the way and whatever later runs of the id do (warden.py:76-85).
THEOREM ArchivedLeavesNothing == Spec => []ArchivedIsClean
<1>1. OwnInv => ArchivedIsClean
  BY DEF OwnInv
<1> QED
  BY <1>1, InitOwnInv, StepOwnInv, PTL DEF Spec

-----------------------------------------------------------------------------
(* Sums.  The sum over a finite set is any term plus the sum over the rest. *)

Choice(s) == CHOOSE x \in s : TRUE

Sums(it, f, S) ==
    it = [s \in SUBSET S |-> IF s = {} THEN 0 ELSE f[Choice(s)] + it[s \ {Choice(s)}]]

Total(f, S) == (CHOOSE it : Sums(it, f, S))[S]

Adds(g, f, S) ==
    /\ g \in [SUBSET S -> Int] /\ g[{}] = 0
    /\ \A s \in SUBSET S : \A x \in s : g[s] = f[x] + g[s \ {x}]

LEMMA SmallestSubset ==
    ASSUME NEW S, IsFiniteSet(S), NEW T, T \subseteq SUBSET S, T # {}
    PROVE  \E s \in T : \A x \in s : s \ {x} \notin T
<1>1. T \subseteq FiniteSubsetsOf(S)
  BY FS_Subset DEF FiniteSubsetsOf
<1>2. IsWellFoundedOn(StrictSubsetOrdering(S), FiniteSubsetsOf(S))
  BY FS_StrictSubsetOrderingWellFounded
<1>3. PICK s \in T : \A t \in T : ~(<<t, s>> \in StrictSubsetOrdering(S))
  BY ONLY <1>1, <1>2, T # {}, WFMin
<1>4. \A x \in s : <<s \ {x}, s>> \in StrictSubsetOrdering(S)
  BY <1>3 DEF StrictSubsetOrdering
<1>5. QED
  BY <1>3, <1>4

LEMMA AddsExists ==
    ASSUME NEW S, IsFiniteSet(S), NEW f, \A x \in S : f[x] \in Int
    PROVE  \E g : Adds(g, f, S)
<1> DEFINE Bad == {s \in SUBSET S : ~(\E g : Adds(g, f, s))}
<1>1. SUFFICES ASSUME Bad # {} PROVE FALSE
  OBVIOUS
<1>2. PICK s \in Bad : \A x \in s : s \ {x} \notin Bad
  <2>1. Bad \subseteq SUBSET S
    OBVIOUS
  <2> HIDE DEF Bad
  <2>2. QED
    BY ONLY <1>1, <2>1, IsFiniteSet(S), SmallestSubset
<1>3. s \subseteq S /\ ~(\E g : Adds(g, f, s))
  OBVIOUS
<1>4. CASE s = {}
  <2>1. Adds([t \in SUBSET s |-> 0], f, s)
    BY <1>4 DEF Adds
  <2>2. QED
    BY <1>3, <2>1
<1>5. CASE s # {}
  <2>1. PICK y \in s : TRUE
    BY <1>5
  <2>2. PICK h : Adds(h, f, s \ {y})
    BY <1>2, <1>3, <2>1
  <2> DEFINE g == [t \in SUBSET s |-> IF y \in t THEN f[y] + h[t \ {y}] ELSE h[t]]
  <2>3. /\ h \in [SUBSET (s \ {y}) -> Int] /\ h[{}] = 0
        /\ \A t \in SUBSET (s \ {y}) : \A x \in t : h[t] = f[x] + h[t \ {x}]
    BY <2>2 DEF Adds
  <2>4. \A t \in SUBSET s : y \in t => t \ {y} \in SUBSET (s \ {y}) /\ g[t] = f[y] + h[t \ {y}]
    OBVIOUS
  <2>5. \A t \in SUBSET s : y \notin t => t \in SUBSET (s \ {y}) /\ g[t] = h[t]
    OBVIOUS
  <2>6. g \in [SUBSET s -> Int] /\ g[{}] = 0
    <3>1. \A t \in SUBSET s : (IF y \in t THEN f[y] + h[t \ {y}] ELSE h[t]) \in Int
      BY <1>3, <2>3
    <3>2. g[{}] = h[{}]
      BY <2>5
    <3>3. QED
      BY <2>3, <3>1, <3>2
  <2> HIDE DEF g
  <2>7. ASSUME NEW t \in SUBSET s, NEW x \in t PROVE g[t] = f[x] + g[t \ {x}]
    <3>1. f[x] \in Int /\ f[y] \in Int
      BY <1>3
    <3>2. CASE x = y
      BY <2>4, <2>5, <3>2
    <3>3. CASE x # y /\ y \in t
      <4>1. g[t] = f[y] + h[t \ {y}] /\ h[t \ {y}] = f[x] + h[(t \ {y}) \ {x}]
        BY <2>3, <2>4, <3>3
      <4> DEFINE u == (t \ {y}) \ {x}
      <4>2. g[t \ {x}] = f[y] + h[(t \ {x}) \ {y}]
        BY <2>4, <3>3
      <4>3. (t \ {x}) \ {y} = u /\ u \in SUBSET (s \ {y})
        OBVIOUS
      <4> HIDE DEF u
      <4>4. h[u] \in Int
        BY <2>3, <4>3
      <4>5. g[t \ {x}] = f[y] + h[u]
        BY ONLY <4>2, <4>3
      <4>6. g[t] = f[y] + (f[x] + h[u])
        BY ONLY <4>1 DEF u
      <4>7. QED
        BY ONLY <3>1, <4>4, <4>5, <4>6
    <3>4. CASE x # y /\ y \notin t
      <4>0. t \ {x} \in SUBSET s /\ y \notin t \ {x}
        BY <3>4
      <4>1. g[t] = h[t] /\ g[t \ {x}] = h[t \ {x}] /\ t \in SUBSET (s \ {y})
        BY ONLY <2>5, <3>4, <4>0, t \in SUBSET s
      <4>2. QED
        BY <2>3, <4>1
    <3>5. QED
      BY <3>2, <3>3, <3>4
  <2>8. Adds(g, f, s)
    BY <2>6, <2>7 DEF Adds
  <2>9. QED
    BY <1>3, <2>8
<1>6. QED
  BY <1>4, <1>5

\* whatever element the fold takes next, it computes that sum
LEMMA TotalAdds ==
    ASSUME NEW S, IsFiniteSet(S), NEW f, NEW g, Adds(g, f, S)
    PROVE  Total(f, S) = g[S]
<1>1. \A s \in SUBSET S : s # {} => Choice(s) \in s
  BY DEF Choice
<1>2. Sums(g, f, S)
  <2>1. \A s \in SUBSET S : g[s] = IF s = {} THEN 0 ELSE f[Choice(s)] + g[s \ {Choice(s)}]
    BY <1>1 DEF Adds
  <2>2. g = [s \in SUBSET S |-> g[s]]
    BY DEF Adds
  <2>3. QED
    BY ONLY <2>1, <2>2 DEF Sums
<1>3. PICK it : it = CHOOSE i : Sums(i, f, S)
  OBVIOUS
<1>4. Sums(it, f, S)
  BY <1>2, <1>3
<1> DEFINE Bad == {s \in SUBSET S : it[s] # g[s]}
<1>5. Bad = {}
  <2> SUFFICES ASSUME Bad # {} PROVE FALSE
    OBVIOUS
  <2>1. PICK s \in Bad : \A x \in s : s \ {x} \notin Bad
    BY SmallestSubset
  <2>2. s \in SUBSET S /\ it[s] # g[s]
    OBVIOUS
  <2>3. it[s] = IF s = {} THEN 0 ELSE f[Choice(s)] + it[s \ {Choice(s)}]
    BY ONLY <1>4, <2>2 DEF Sums
  <2>4. g[s] = IF s = {} THEN 0 ELSE f[Choice(s)] + g[s \ {Choice(s)}]
    BY ONLY <1>2, <2>2 DEF Sums
  <2>5. s # {} => it[s \ {Choice(s)}] = g[s \ {Choice(s)}]
    BY <1>1, <2>1, <2>2
  <2>6. QED
    BY ONLY <2>2, <2>3, <2>4, <2>5
<1>6. it[S] = g[S]
  BY <1>5
<1>7. QED
  BY <1>3, <1>6 DEF Total

LEMMA TotalIs ==
    ASSUME NEW S, IsFiniteSet(S), NEW f, \A x \in S : f[x] \in Int
    PROVE  /\ Total(f, S) \in Int /\ Total(f, {}) = 0
           /\ \A x \in S : Total(f, S) = f[x] + Total(f, S \ {x})
<1>1. PICK g : Adds(g, f, S)
  BY AddsExists
<1>2. Total(f, S) = g[S] /\ g[S] \in Int
  <2>1. g[S] \in Int
    BY <1>1 DEF Adds
  <2>2. QED
    BY <1>1, <2>1, TotalAdds
<1>3. ASSUME NEW T \in SUBSET S PROVE Total(f, T) = g[T]
  <2> DEFINE h == [s \in SUBSET T |-> g[s]]
  <2>1. Adds(h, f, T) /\ h[T] = g[T]
    BY <1>1 DEF Adds
  <2>2. IsFiniteSet(T)
    BY FS_Subset
  <2> HIDE DEF h
  <2>3. QED
    BY <2>1, <2>2, TotalAdds
<1>4. Total(f, {}) = 0
  BY <1>1, <1>3 DEF Adds
<1>5. ASSUME NEW x \in S PROVE Total(f, S) = f[x] + Total(f, S \ {x})
  <2>1. g[S] = f[x] + g[S \ {x}]
    BY <1>1 DEF Adds
  <2>2. Total(f, S \ {x}) = g[S \ {x}]
    BY <1>3
  <2>3. QED
    BY <1>2, <2>1, <2>2
<1>6. QED
  BY <1>2, <1>4, <1>5

LEMMA TotalSame ==
    ASSUME NEW S, IsFiniteSet(S), NEW f, NEW h, \A x \in S : f[x] \in Int /\ h[x] = f[x]
    PROVE  Total(h, S) = Total(f, S)
<1>1. PICK g : Adds(g, f, S)
  BY AddsExists
<1>2. Adds(g, h, S)
  BY <1>1 DEF Adds
<1>3. QED
  BY <1>1, <1>2, TotalAdds

-----------------------------------------------------------------------------
(* What an agent has spent, over all its keys.                             *)

Uses(a) == [n \in Runs |-> used[<<a, n>>]]

LEMMA SpentIs ==
    ASSUME NEW a
    PROVE  Spent(a) = Total(Uses(a), Runs) /\ Spent(a)' = Total(Uses(a)', Runs)
<1> DEFINE F(u) == [n \in Runs |-> u[<<a, n>>]]
           Is(u, it) == it = [s \in SUBSET Runs |->
                          IF s = {} THEN 0
                          ELSE u[<<a, Choice(s)>>] + it[s \ {Choice(s)}]]
<1>1. /\ Spent(a) = (CHOOSE it : Is(used, it))[Runs]
      /\ Spent(a)' = (CHOOSE it : Is(used', it))[Runs]
  BY DEF Spent, MapThenSumSet, MapThenFoldSet, Choice, Runs
<1>2. ASSUME NEW u PROVE (CHOOSE it : Is(u, it))[Runs] = Total(F(u), Runs)
  <2> DEFINE f == F(u)
  <2>1. \A s \in SUBSET Runs : s # {} => f[Choice(s)] = u[<<a, Choice(s)>>]
    BY DEF Choice
  <2>2. ASSUME NEW it PROVE Is(u, it) <=> Sums(it, f, Runs)
    <3> HIDE DEF f
    <3>1. [s \in SUBSET Runs |->
              IF s = {} THEN 0 ELSE u[<<a, Choice(s)>>] + it[s \ {Choice(s)}]]
          = [s \in SUBSET Runs |->
              IF s = {} THEN 0 ELSE f[Choice(s)] + it[s \ {Choice(s)}]]
      BY ONLY <2>1
    <3>2. QED
      BY ONLY <3>1 DEF Sums
  <2> HIDE DEF Is, f
  <2>3. (CHOOSE it : Is(u, it)) = (CHOOSE it : Sums(it, f, Runs))
    BY <2>2
  <2>4. (CHOOSE it : Is(u, it))[Runs] = Total(f, Runs)
    BY ONLY <2>3 DEF Total
  <2>5. QED
    BY <2>4 DEF f
<1> HIDE DEF Is
<1>3. Uses(a) = F(used) /\ Uses(a)' = F(used')
  BY DEF Uses, Runs
<1> HIDE DEF F
<1>4. QED
  BY <1>1, <1>2, <1>3

\* what a call to the model does to the sums
LEMMA SpentMoves ==
    ASSUME used \in [Agents \X Runs -> Nat], NEW a \in Agents
    PROVE  /\ Spent(a) \in Int /\ (used' = used => Spent(a)' = Spent(a))
           /\ \A b \in Agents, m \in Runs :
                 used' = [used EXCEPT ![<<b, m>>] = @ + 1]
                 => Spent(a)' = IF a = b THEN Spent(a) + 1 ELSE Spent(a)
<1> DEFINE f == Uses(a)
           g == Uses(a)'
<1>0. IsFiniteSet(Runs)
  BY FS_Interval, LifecycleAssumption DEF LifecycleAssumption, Runs
<1>1. \A n \in Runs : f[n] = used[<<a, n>>] /\ f[n] \in Int
  BY DEF Uses
<1>2. \A n \in Runs : g[n] = used'[<<a, n>>]
  BY DEF Uses, Runs
<1>3. Spent(a) = Total(f, Runs) /\ Spent(a)' = Total(g, Runs)
  BY SpentIs
<1> HIDE DEF f, g
<1>4. Spent(a) \in Int
  BY <1>0, <1>1, <1>3, TotalIs
<1>5. ASSUME \A n \in Runs : used'[<<a, n>>] = used[<<a, n>>] PROVE Spent(a)' = Spent(a)
  <2>1. \A n \in Runs : f[n] \in Int /\ g[n] = f[n]
    BY <1>1, <1>2, <1>5
  <2>2. QED
    BY <1>0, <1>3, <2>1, TotalSame
<1>6. ASSUME NEW b \in Agents, NEW m \in Runs, used' = [used EXCEPT ![<<b, m>>] = @ + 1]
      PROVE  Spent(a)' = IF a = b THEN Spent(a) + 1 ELSE Spent(a)
  <2>1. CASE a # b
    BY <1>5, <1>6, <2>1
  <2>2. CASE a = b
    <3>1. g[m] = f[m] + 1 /\ f[m] \in Int /\ g[m] \in Int
      BY <1>1, <1>2, <1>6, <2>2
    <3>2. \A n \in Runs \ {m} : g[n] = f[n] /\ f[n] \in Int
      BY <1>1, <1>2, <1>6, <2>2
    <3>3. \A n \in Runs : f[n] \in Int /\ g[n] \in Int
      BY <3>1, <3>2
    <3>4. IsFiniteSet(Runs \ {m})
      BY <1>0, FS_RemoveElement
    <3>5. Total(g, Runs \ {m}) = Total(f, Runs \ {m}) /\ Total(f, Runs \ {m}) \in Int
      BY <3>2, <3>4, TotalSame, TotalIs
    <3>6. Total(f, Runs) = f[m] + Total(f, Runs \ {m})
      BY <1>0, <3>3, TotalIs
    <3>7. Total(g, Runs) = g[m] + Total(g, Runs \ {m})
      BY <1>0, <3>3, TotalIs
    <3>8. Total(g, Runs) = Total(f, Runs) + 1
      BY ONLY <3>1, <3>5, <3>6, <3>7
    <3>9. QED
      BY <1>3, <2>2, <3>8
  <2>3. QED
    BY <2>1, <2>2
<1>7. QED
  BY <1>4, <1>5, <1>6
-----------------------------------------------------------------------------
(* Charges.  What is recorded beyond the last sample of the key that is    *)
(* held was spent on other keys: a sample that finds growth adds no more   *)
(* than the rest of this key, and a key that is minted over a forgotten    *)
(* sample is one that nobody has spent on yet.                             *)

Provisioning == {"begin", "bus", "mint", "box"}

ChargeInv ==
    /\ used \in [Agents \X Runs -> Nat]
    /\ recorded \in [Agents -> Nat] /\ last \in [Agents -> Nat]
    /\ NeverOvercharged
    /\ \A a \in Agents : ledger[a] # 0 =>
          recorded[a] - last[a] <= Spent(a) - used[<<a, ledger[a]>>]
    /\ \A a \in Agents, n \in Runs : n > run => used[<<a, n>>] = 0
    /\ pc \in Provisioning => \A a \in Agents : ledger[a] # run => used[Key(a)] = 0

LEMMA InitChargeInv == Init => ChargeInv
<1> SUFFICES ASSUME Init PROVE ChargeInv
  OBVIOUS
<1>1. /\ pc = "none" /\ ledger = [a \in Agents |-> 0] /\ last = [a \in Agents |-> 0]
      /\ recorded = [a \in Agents |-> 0] /\ used = [k \in Agents \X Runs |-> 0]
  BY DEF Init
<1>2. used \in [Agents \X Runs -> Nat] /\ \A k \in Agents \X Runs : used[k] = 0
  BY ONLY <1>1
<1>3. IsFiniteSet(Runs)
  BY FS_Interval, LifecycleAssumption DEF LifecycleAssumption, Runs
<1>4. ASSUME NEW a \in Agents PROVE Spent(a) \in Nat
  <2>1. Spent(a) = Total(Uses(a), Runs)
    BY SpentIs
  <2>2. Uses(a) = [n \in Runs |-> 0]
    BY <1>2 DEF Uses
  <2>3. Adds([s \in SUBSET Runs |-> 0], [n \in Runs |-> 0], Runs)
    BY DEF Adds
  <2>4. QED
    BY <1>3, <2>1, <2>2, <2>3, TotalAdds
<1>5. NeverOvercharged
  BY <1>1, <1>4 DEF NeverOvercharged
<1>6. QED
  BY <1>1, <1>2, <1>5 DEF ChargeInv, Provisioning

\* The steps that record and spend nothing: a key is kept with its sample or forgotten
\* with it, and no run begins.
Uncharged ==
    /\ UNCHANGED <<run, recorded, used>>
    /\ ledger' = [a \in Agents |-> ledger'[a]] /\ last' \in [Agents -> Nat]
    /\ \A a \in Agents : \/ ledger'[a] = ledger[a] /\ last'[a] = last[a]
                         \/ ledger'[a] = 0 /\ pc' \notin Provisioning
    /\ pc' \in Provisioning => pc \in Provisioning

LEMMA UnchargedKeeps == ChargeInv /\ Uncharged => ChargeInv'
<1> SUFFICES ASSUME ChargeInv, Uncharged PROVE ChargeInv'
  OBVIOUS
<1>1. used' = used /\ recorded' = recorded /\ run' = run
  BY DEF Uncharged
<1>2. \A a \in Agents : Spent(a)' = Spent(a)
  BY <1>1, SpentMoves DEF ChargeInv
<1>3. NeverOvercharged'
  BY <1>1, <1>2 DEF ChargeInv, NeverOvercharged
<1>4. \A a \in Agents : ledger'[a] # 0 =>
          recorded'[a] - last'[a] <= Spent(a)' - used'[<<a, ledger'[a]>>]
  <2> SUFFICES ASSUME NEW a \in Agents, ledger'[a] # 0
               PROVE  recorded'[a] - last'[a] <= Spent(a)' - used'[<<a, ledger'[a]>>]
    OBVIOUS
  <2>1. ledger'[a] = ledger[a] /\ last'[a] = last[a] /\ Spent(a)' = Spent(a)
    BY <1>2 DEF Uncharged
  <2>2. recorded[a] - last[a] <= Spent(a) - used[<<a, ledger[a]>>]
    BY <2>1 DEF ChargeInv
  <2>3. QED
    BY ONLY <1>1, <2>1, <2>2
<1>5. pc' \in Provisioning => \A a \in Agents : ledger'[a] # run' => used'[Key(a)'] = 0
  BY <1>1 DEF ChargeInv, Uncharged, Key
<1>6. \A a \in Agents, n \in Runs : n > run' => used'[<<a, n>>] = 0
  BY <1>1 DEF ChargeInv
<1>7. QED
  BY <1>1, <1>3, <1>4, <1>5, <1>6 DEF ChargeInv, Uncharged

\* a sample records the growth of the keys it reaches, and remembers it
LEMMA PolledKeeps ==
    ASSUME TypeInv, ChargeInv, NEW S, Polled(S), UNCHANGED <<run, ledger, used>>,
           pc' \notin Provisioning
    PROVE  ChargeInv'
<1>1. /\ used' = used /\ run' = run /\ ledger' = ledger
      /\ recorded' = [a \in Agents |-> recorded[a] + Growth(S)[a]]
      /\ last' = [a \in Agents |-> last[a] + Growth(S)[a]]
  BY DEF Polled
<1>2. ASSUME NEW a \in Agents
      PROVE  /\ recorded'[a] \in Nat /\ last'[a] \in Nat
             /\ recorded'[a] <= Spent(a)'
             /\ ledger'[a] # 0 =>
                   recorded'[a] - last'[a] <= Spent(a)' - used'[<<a, ledger'[a]>>]
  <2> DEFINE k == ledger[a]
             u == used[<<a, k>>]
             d == Growth(S)[a]
             n == Spent(a)
  <2>1. /\ recorded[a] \in Nat /\ last[a] \in Nat /\ recorded[a] <= n
        /\ k # 0 => recorded[a] - last[a] <= n - u
    BY DEF ChargeInv, NeverOvercharged
  <2>2. k # 0 => u \in Nat
    <3>1. k # 0 => k \in Runs
      BY LifecycleAssumption DEF LifecycleAssumption, TypeInv, Runs
    <3>2. QED
      BY <3>1 DEF ChargeInv
  <2>3. n \in Int /\ Spent(a)' = n
    BY <1>1, SpentMoves DEF ChargeInv
  <2>4. d = 0 \/ (k # 0 /\ u > last[a] /\ d = u - last[a])
    BY DEF Growth
  <2>5. recorded'[a] = recorded[a] + d /\ last'[a] = last[a] + d
        /\ used'[<<a, ledger'[a]>>] = u /\ ledger'[a] = k
    BY <1>1
  <2> HIDE DEF k, u, d, n
  <2>6. QED
    BY ONLY <2>1, <2>2, <2>3, <2>4, <2>5
<1>3. recorded' \in [Agents -> Nat] /\ last' \in [Agents -> Nat]
  <2>1. recorded' = [a \in Agents |-> recorded'[a]] /\ last' = [a \in Agents |-> last'[a]]
    BY <1>1
  <2>2. QED
    BY ONLY <1>2, <2>1
<1>4. \A a \in Agents, n \in Runs : n > run' => used'[<<a, n>>] = 0
  BY <1>1 DEF ChargeInv
<1>5. QED
  BY <1>1, <1>2, <1>3, <1>4 DEF ChargeInv, NeverOvercharged

\* a key is minted that nobody has spent on, or the Ledger had it already
LEMMA MintKeeps ==
    ASSUME TypeInv, ChargeInv, MintKey
    PROVE  ChargeInv'
<1>1. /\ pc = "mint" /\ pc' = "box" /\ used' = used /\ run' = run /\ recorded' = recorded
      /\ last' = last /\ ledger' = [ledger EXCEPT ![NextAgent] = run]
  BY DEF MintKey
<1>2. NextAgent \in Agents /\ run \in Runs /\ run # 0
  <2>1. pc \in {"mint", "box"}
    BY <1>1
  <2>2. NextAgent \in Agents /\ run \in Nat \ {0}
    BY <2>1, ProvisioningHasNext
  <2>3. run \in 0..MaxStarts
    BY DEF TypeInv
  <2>4. QED
    BY <2>2, <2>3 DEF Runs
<1>3. ASSUME NEW a \in Agents
      PROVE  /\ recorded'[a] <= Spent(a)'
             /\ ledger'[a] # 0 =>
                   recorded'[a] - last'[a] <= Spent(a)' - used'[<<a, ledger'[a]>>]
             /\ ledger'[a] # run' => used'[<<a, run'>>] = 0
  <2>1. /\ recorded[a] \in Nat /\ last[a] \in Nat /\ recorded[a] <= Spent(a)
        /\ ledger[a] # 0 => recorded[a] - last[a] <= Spent(a) - used[<<a, ledger[a]>>]
        /\ ledger[a] # run => used[<<a, run>>] = 0
    BY <1>1 DEF ChargeInv, NeverOvercharged, Provisioning, Key
  <2>2. Spent(a) \in Int /\ Spent(a)' = Spent(a)
    BY <1>1, SpentMoves DEF ChargeInv
  <2>3. CASE ledger'[a] = ledger[a]
    BY <1>1, <2>1, <2>2, <2>3
  <2>4. CASE ledger'[a] = run /\ ledger[a] # run
    BY <1>1, <2>1, <2>2, <2>4
  <2>5. ledger'[a] = ledger[a] \/ ledger'[a] = run
    BY <1>1, <1>2 DEF TypeInv
  <2>6. QED
    BY <2>3, <2>4, <2>5
<1>4. \A a \in Agents, n \in Runs : n > run' => used'[<<a, n>>] = 0
  BY <1>1 DEF ChargeInv
<1>5. QED
  BY <1>1, <1>3, <1>4 DEF ChargeInv, NeverOvercharged, Key

\* a call to the model is paid with the key of the agent's container
LEMMA SpendKeeps ==
    ASSUME TypeInv, Owned, ChargeInv, NEW b \in Agents, Spend(b)
    PROVE  ChargeInv'
<1> DEFINE m == box[b]
<1>1. /\ <<b, m>> \in live /\ m \in Runs /\ m <= run
  BY LifecycleAssumption DEF LifecycleAssumption, Spend, TypeInv, Runs
<1>2. /\ used' = [used EXCEPT ![<<b, m>>] = @ + 1] /\ run' = run /\ recorded' = recorded
      /\ last' = last /\ ledger' = ledger /\ pc' = pc
  BY DEF Spend, purse
<1>3. pc \in Provisioning /\ m = run => ledger[b] = run
  BY <1>1 DEF Owned, Active, Provisioning, Key
<1>0. used \in [Agents \X Runs -> Nat]
  BY DEF ChargeInv
<1> HIDE DEF m
<1>4. ASSUME NEW a \in Agents, NEW n \in Runs
      PROVE  used'[<<a, n>>] = IF a = b /\ n = m THEN used[<<a, n>>] + 1 ELSE used[<<a, n>>]
  BY <1>0, <1>1, <1>2
<1>5. used' \in [Agents \X Runs -> Nat]
  BY <1>0, <1>1, <1>2
<1>6. ASSUME NEW a \in Agents
      PROVE  /\ recorded'[a] <= Spent(a)'
             /\ ledger'[a] # 0 =>
                   recorded'[a] - last'[a] <= Spent(a)' - used'[<<a, ledger'[a]>>]
  <2> DEFINE k == ledger[a]
             s == Spent(a)
  <2>1. /\ recorded[a] \in Nat /\ last[a] \in Nat /\ recorded[a] <= s
        /\ k # 0 => recorded[a] - last[a] <= s - used[<<a, k>>]
    BY DEF ChargeInv, NeverOvercharged
  <2>2. s \in Int /\ Spent(a)' = IF a = b THEN s + 1 ELSE s
    BY <1>0, <1>1, <1>2, SpentMoves
  <2>3. k # 0 => k \in Runs
    <3>1. k \in 0..run /\ run \in 0..MaxStarts /\ MaxStarts \in Nat
      BY LifecycleAssumption DEF LifecycleAssumption, TypeInv
    <3>2. QED
      BY ONLY <3>1 DEF Runs
  <2>4. k # 0 => /\ used[<<a, k>>] \in Nat
                 /\ used'[<<a, k>>] = IF a = b /\ k = m THEN used[<<a, k>>] + 1 ELSE used[<<a, k>>]
    BY <1>0, <1>4, <2>3
  <2> HIDE DEF k, s
  <2>5. recorded'[a] = recorded[a] /\ last'[a] = last[a] /\ ledger'[a] = k
    BY <1>2 DEF k
  <2>6. QED
    BY ONLY <2>1, <2>2, <2>4, <2>5
<1>7. \A a \in Agents, n \in Runs : n > run' => used'[<<a, n>>] = 0
  <2> SUFFICES ASSUME NEW a \in Agents, NEW n \in Runs, n > run' PROVE used'[<<a, n>>] = 0
    OBVIOUS
  <2>1. n # m /\ used[<<a, n>>] = 0
    BY <1>1, <1>2 DEF ChargeInv, Runs, TypeInv
  <2>2. QED
    BY <1>4, <2>1
<1>8. ASSUME pc' \in Provisioning, NEW a \in Agents, ledger'[a] # run' PROVE used'[<<a, run'>>] = 0
  <2>1. pc \in Provisioning /\ ledger[a] # run
    BY <1>2, <1>8
  <2>2. ~(a = b /\ run = m) /\ used[<<a, run>>] = 0
    BY <1>3, <2>1 DEF ChargeInv, Key
  <2>3. run \in Runs
    BY <2>1, LifecycleAssumption DEF LifecycleAssumption, TypeInv, Active, Provisioning, Runs
  <2>4. QED
    BY <1>2, <1>4, <2>2, <2>3
<1>9. QED
  BY <1>2, <1>5, <1>6, <1>7, <1>8 DEF ChargeInv, NeverOvercharged, Key

LEMMA StepChargeInv == OwnInv /\ ChargeInv /\ [Next]_vars => ChargeInv'
<1> SUFFICES ASSUME OwnInv, ChargeInv, [Next]_vars PROVE ChargeInv'
  OBVIOUS
<1>t. TypeInv /\ Owned /\ recorded \in [Agents -> Nat] /\ last \in [Agents -> Nat]
      /\ ledger = [a \in Agents |-> ledger[a]]
  BY DEF OwnInv, TypeInv, ChargeInv
<1>s. Uncharged => ChargeInv'
  BY UnchargedKeeps
<1>k. ASSUME UNCHANGED <<run, recorded, used, ledger, last>>, pc' \in Provisioning => pc \in Provisioning
      PROVE  ChargeInv'
  BY <1>s, <1>t, <1>k DEF Uncharged
<1>0. CASE UNCHANGED vars
  BY <1>0, <1>k DEF vars, purse, proxy
<1>1. CASE Launch
  <2>1. /\ used' = used /\ run' = run + 1 /\ recorded' = recorded /\ last' = last
        /\ ledger' = ledger /\ run \in Nat /\ run' \in Runs
    BY <1>1, <1>t, LifecycleAssumption
       DEF LifecycleAssumption, Launch, purse, proxy, TypeInv, Runs
  <2>2. \A a \in Agents : Spent(a)' = Spent(a)
    BY <2>1, SpentMoves DEF ChargeInv
  <2>3. NeverOvercharged'
    BY <2>1, <2>2 DEF ChargeInv, NeverOvercharged
  <2>4. \A a \in Agents : used'[<<a, run'>>] = 0
    BY <2>1 DEF ChargeInv
  <2>5. \A a \in Agents, n \in Runs : n > run' => used'[<<a, n>>] = 0
    BY <2>1 DEF ChargeInv, Runs
  <2>6. \A a \in Agents : ledger'[a] # 0 =>
            recorded'[a] - last'[a] <= Spent(a)' - used'[<<a, ledger'[a]>>]
    BY <2>1, <2>2 DEF ChargeInv
  <2>7. QED
    BY <2>1, <2>3, <2>4, <2>5, <2>6 DEF ChargeInv, Key
<1>2. CASE Begin \/ AppendRunning \/ AppendConcluding \/ AppendArchived
  BY <1>2, <1>k DEF Begin, AppendRunning, AppendConcluding, AppendArchived, Chronicled, Pass,
                    Provisioning, purse, proxy
<1>3. CASE ProvisionBus \/ ProvisionFails \/ Kickoff \/ Raises \/ WrapUp \/ TeardownError
  BY <1>3, <1>k DEF ProvisionBus, ProvisionFails, Kickoff, Raises, WrapUp, TeardownError, Pass,
                    Provisioning, purse, proxy
<1>4. CASE MintKey
  BY <1>4, <1>t, MintKeeps
<1>5. CASE RunContainer
  BY <1>5, <1>k DEF RunContainer, Provisioning, purse, proxy
<1>6. CASE AppendFailed \/ FinalReport
  BY <1>6, <1>k DEF AppendFailed, FinalReport, Ends, Provisioning, purse, proxy
<1>7. CASE Sample
  <2>1. PICK n \in 0..Len(Roster) : Polled(FirstOf(n))
    BY <1>7 DEF Sample
  <2>2. UNCHANGED <<run, ledger, used>> /\ pc' \notin Provisioning
    BY <1>7 DEF Sample, TickLost, Provisioning, proxy
  <2>3. QED
    BY <1>t, <2>1, <2>2, PolledKeeps
<1>8. CASE SnapshotFails \/ KeepWatching \/ Conclude \/ NudgeFails
  BY <1>8, <1>k DEF SnapshotFails, KeepWatching, Conclude, NudgeFails, Judged, TickLost,
                    Provisioning, purse, proxy
<1>9. ASSUME NEW a \in Agents, NoteExhausted(a) \/ Kill(a) PROVE ChargeInv'
  BY <1>9, <1>k DEF NoteExhausted, Kill, TickLost, Provisioning, purse, proxy
<1>10. CASE RemoveContainers
  BY <1>10, <1>k DEF RemoveContainers, Provisioning, purse, proxy
<1>11. CASE RevokeKeys
  <2>1. PICK n \in 0..Len(Roster) :
            /\ ledger' = [a \in Agents |-> IF a \in Held \cap FirstOf(n) THEN 0 ELSE ledger[a]]
            /\ last' = [a \in Agents |-> IF a \in Held \cap FirstOf(n) THEN 0 ELSE last[a]]
    BY <1>11 DEF RevokeKeys
  <2>2. UNCHANGED <<run, recorded, used>> /\ pc' \notin Provisioning
    BY <1>11 DEF RevokeKeys, Provisioning
  <2>3. Uncharged
    BY <1>t, <2>1, <2>2 DEF Uncharged
  <2>4. QED
    BY <1>s, <2>3
<1>12. CASE Settle
  <2>1. PICK n \in 0..Len(Roster) : Polled(FirstOf(n))
    BY <1>12 DEF Settle
  <2>2. UNCHANGED <<run, ledger, used>> /\ pc' \notin Provisioning
    BY <1>12 DEF Settle, Provisioning, proxy
  <2>3. QED
    BY <1>t, <2>1, <2>2, PolledKeeps
<1>13. CASE Stop \/ Reconcile \/ Shutdown
  BY <1>13, <1>k DEF Stop, Reconcile, Shutdown, Still, proxy
<1>14. CASE Crash
  <2>1. /\ UNCHANGED <<run, recorded, used>> /\ pc' \notin Provisioning
        /\ ledger' = [a \in Agents |-> 0] /\ last' = [a \in Agents |-> 0]
    BY <1>14 DEF Crash, Still, Provisioning, proxy
  <2>2. Uncharged
    BY <2>1 DEF Uncharged
  <2>3. QED
    BY <1>s, <2>2
<1>15. CASE Reap \/ Close
  BY <1>15, <1>k DEF Reap, Close, Reaped, purse, proxy
<1>16. ASSUME NEW a \in Agents, Spend(a) PROVE ChargeInv'
  BY <1>16, <1>t, SpendKeeps
<1> QED
  BY <1>0, <1>1, <1>2, <1>3, <1>4, <1>5, <1>6, <1>7, <1>8, <1>9, <1>10, <1>11, <1>12, <1>13,
     <1>14, <1>15, <1>16 DEF Next, TaskStep

\* The chronicle never charges an agent more than it has spent, for every number of runs
\* of an id and of samples, keys and revocations lost on the way (poll_spend's deltas).
THEOREM ChargesCovered == Spec => []NeverOvercharged
<1>1. ChargeInv => NeverOvercharged
  BY DEF ChargeInv
<1>2. Init => OwnInv /\ ChargeInv
  BY InitOwnInv, InitChargeInv
<1>3. OwnInv /\ ChargeInv /\ [Next]_vars => (OwnInv /\ ChargeInv)'
  BY StepOwnInv, StepChargeInv
<1> QED
  BY <1>1, <1>2, <1>3, PTL DEF Spec
===============================================================================
