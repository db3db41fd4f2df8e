------------------------------- MODULE GameTable -------------------------------
(***************************************************************************)
(* A game table in play: the machine moved by the calls of its members,    *)
(* and the host that turns the wake stamps of the GAME rows into mentions  *)
(* (LiveSnapshot._deliver_wakes, gatekeeper/runner.py).  A call is one     *)
(* step here; MachineService says why it may be taken as one.  The host    *)
(* reads the rows it has not seen in one step and mentions one agent per   *)
(* step after it, so calls land in between and a mention may raise.        *)
(***************************************************************************)
EXTENDS GameMachine

CONSTANTS
    TableCalls, \* the calls the agents may make
    MaxFresh,   \* bound: rows the host has not seen yet
    Faults      \* BOOLEAN: a mention may raise

ASSUME TableAssumption == MaxFresh \in Nat /\ Faults \in BOOLEAN

VARIABLES
    table,      \* the state of the machine
    fresh,      \* the rows the host has not seen, oldest first
    pending,    \* the agents the host is about to mention
    fired,      \* the after_s rules that fired since the last row
    nudge,      \* the rule whose mentions are under way, if they are an after_s rule's
    owed,       \* history: the agents a role rule or the actor rule came to hold for and
                \* who have not been told yet; a mention that raises is not made good
    disclosed   \* history: the owner values that a reveal has shown

tableVars == <<table, fresh, pending, fired, nudge, owed, disclosed>>

TableInit ==
    /\ table = InitialState
    /\ fresh = <<>> /\ pending = {} /\ fired = {} /\ nudge = {}
    /\ owed = {} /\ disclosed = {}

RoleRules == {w \in Decl.wake : w.role # "actor"}
On(w, m)  == AllHold(w.when, m, WakeCtx(Empty)) /\ ~Blocked(w, m, WakeCtx(Empty))

\* a rule that comes to hold is due to its role, the actor's to whom the pointer moves to
Due(old, new) ==
    ({"role"} \X UNION {Decl.members[w.role] : w \in {w \in RoleRules : On(w, new) /\ ~On(w, old)}})
    \cup {<<"actor", new.actor>> : w \in {w \in Decl.wake \ RoleRules :
             new.actor \notin {None, old.actor} /\ On(w, new)}}

\* ... the actor's for as long as the pointer rests there
StillDue(old, new) == {d \in owed : d[1] = "role" \/ new.actor = old.actor}

\* a member or the referee calls game_act or game_set
Call(c) ==
    /\ Len(fresh) < MaxFresh
    /\ \E out \in {Apply(table, c, Empty)} :
        /\ table' = out.state
        /\ fresh' = Append(fresh, [op |-> out.row.op, actor |-> out.row.actor,
                                   wake |-> out.row.wake, wakeActor |-> out.row.wakeActor])
        /\ owed' = StillDue(table, out.state) \cup Due(table, out.state)
        /\ disclosed' = disclosed \cup
              IF c.op # "act" THEN {}
              ELSE UNION {{<<k, a, out.state.owned[k][a]>> :
                             a \in out.state.revealed[k] \cap DOMAIN out.state.owned[k]} :
                          k \in Decl.owners}
    /\ UNCHANGED <<pending, fired, nudge>>

\* the pointer as of the latest act among the rows
LatestActor ==
    LET acts == {i \in DOMAIN fresh : fresh[i].op = "act"}
    IN  IF acts = {} THEN None ELSE fresh[CHOOSE i \in acts : \A j \in acts : j <= i].actor

\* bug: only the newest row's stamps are delivered
NewestTargets == fresh[Len(fresh)].wake \cup (fresh[Len(fresh)].wakeActor \cap {LatestActor})

\* bug: the actor wake goes to the holder as of the oldest row
OldestTargets == (UNION {fresh[i].wake : i \in DOMAIN fresh}) \cup fresh[1].wakeActor

\* every role stamp, and of the actor stamps the one of the latest actor
Targets ==
    LET stamped == UNION {fresh[i].wakeActor : i \in DOMAIN fresh}
    IN  (UNION {fresh[i].wake : i \in DOMAIN fresh}) \cup (stamped \cap {LatestActor})

\* the tick reads the rows: they count as seen before anyone is mentioned
TakeUp ==
    /\ pending = {} /\ fresh # <<>>
    /\ pending' = Targets
    /\ fresh' = <<>>
    /\ fired' = {} /\ nudge' = {}
    /\ UNCHANGED <<table, owed, disclosed>>

\* no GAME row for after_s seconds: the role of the rule is nudged, once
Nudge(role) ==
    /\ pending = {} /\ fresh = <<>> /\ role \notin fired
    /\ pending' = Decl.members[role]
    /\ fired' = fired \cup {role} /\ nudge' = {role}
    /\ UNCHANGED <<table, fresh, owed, disclosed>>

Mention(who) ==
    /\ who \in pending
    /\ pending' = pending \ {who}
    /\ owed' = {d \in owed : d[2] # who}
    /\ UNCHANGED <<table, fresh, fired, nudge, disclosed>>

\* the announcement raises: the rest of this tick's mentions are never made, and an
\* after_s rule counts as fired only once all of its own were
MentionFails ==
    /\ Faults /\ pending # {}
    /\ pending' = {}
    /\ owed' = {d \in owed : d[2] \notin pending}
    /\ fired' = fired \ nudge
    /\ UNCHANGED <<table, fresh, nudge, disclosed>>

Deliver == TakeUp \/ \E who \in pending : Mention(who)

TableNext ==
    \/ \E c \in TableCalls : Call(c)
    \/ Deliver
    \/ \E role \in Decl.late : Nudge(role)
    \/ MentionFails

TableSpec == TableInit /\ [][TableNext]_tableVars

-----------------------------------------------------------------------------
(* What holds of every declaration that uses the pointer as its floor.     *)

\* the rule such a declaration keeps: a transition that puts someone into a set the
\* pointer skips moves the pointer afterwards (machine.py, advance_actor and set_actor)
MovesOn ==
    \A name \in DOMAIN Decl.transitions :
        LET effects == Decl.transitions[name].effects IN
        \A i \in DOMAIN effects :
            effects[i].kind = "add_to" /\ effects[i].key \in Decl.skip =>
            \E j \in DOMAIN effects : j > i /\ effects[j].kind \in {"advance_actor", "set_actor"}

Members == UNION {Decl.members[r] : r \in DOMAIN Decl.members}

\* The pointer never rests on someone it is meant to skip: whoever holds it can
\* make the move the table waits for (machine.py, advance_actor and set_actor;
\* an add_to of a skip set must move the pointer on in the same transition).
ActorCanMove == table.actor # None => Eligible(table, table.actor)

\* a role rule is not held back: the edge of `when` is missed while `unless` holds
RolesPlain == \A w \in RoleRules : w.unless = <<>>

CaughtUp == fresh = <<>> /\ pending = {}

\* Once the host has caught up, whoever the pointer moved to, and still rests on, has
\* been mentioned since, and so has everyone in a role whose rule came to hold: no
\* stamp is lost in the collapse to the latest actor, under the calls that land between
\* two mentions, or by coming late, but those of the mentions that a raise cuts off
\* (runner.py:704-732).
WakesArrive == CaughtUp => owed = {}

\* A value written after a reveal is a secret again: nobody but its owner and the
\* referee reads a value that no reveal has shown (set_value, machine.py:350-355).
FreshSecretsHidden ==
    \A p \in Members : ~IsReferee(p) =>
        \A k \in Decl.owners : \A a \in DOMAIN View(table, p).owned[k] :
            a # p => <<k, a, table.owned[k][a]>> \in disclosed
================================================================================
