----------------------------- MODULE GameMachine -----------------------------
(***************************************************************************)
(* The engine of the game state machine (realmtools/machine.py): pure      *)
(* functions from a declaration, its bindings and a machine state to the   *)
(* state after a call, or to the check that refused it.                    *)
(*                                                                         *)
(* Decl is the declaration with its bindings resolved: members, roster,    *)
(* refereeRoles and hiddenRoles; states, initial and terminal; over and    *)
(* skip (the pointer); sets, values and owners (the data keys) with hidden *)
(* (those only the referee reads); optIn (what participants may do beyond  *)
(* the safe effects); transitions; wake and late (the roles of the rules   *)
(* the host's clock fires).  A guard or an effect is a record with a kind, *)
(* a value in one is a record with a ref, and literals are opaque.  A key  *)
(* that was never written is not in the domain of data or owned.           *)
(***************************************************************************)
EXTENDS Integers, Sequences, SequencesExt

CONSTANTS
    Decl,       \* the declaration and its bindings
    None,       \* the parked pointer, a missing argument, no pointer, no owner
    Refused     \* what an effect yields when the engine refuses it

IsList(s) == Len(s) \in Nat /\ DOMAIN s = 1 .. Len(s)

-----------------------------------------------------------------------------
(* What a declaration must be to launch (core/machine.py, core/schema.py). *)

GuardKinds == {"caller_is_actor", "caller_in", "caller_not_in", "data_present", "data_equals",
               "data_set_empty", "data_set_full", "count_equals", "count_at_most",
               "count_at_least", "escrow_complete"}

EffectKinds == {"advance_actor", "add_to", "remove_from", "reset", "set", "unset", "set_actor",
                "reveal"}

\* a participant may mark itself, show what is its own, pass; the rest is by opt-in
SafeEffects == {"advance_actor", "add_to", "reveal"}

OfCaller      == {"caller_is_actor", "caller_in", "caller_not_in"}
SetReading    == {"caller_in", "caller_not_in", "data_set_empty", "data_set_full"}
HiddenReading == SetReading \cup {"data_equals"}
KeyReading    == HiddenReading \cup {"data_present"}
Counting      == {"data_set_full", "count_equals", "count_at_most", "count_at_least",
                  "escrow_complete"}

RoleNames  == DOMAIN Decl.members
StateNames == Decl.states
DataKeys   == Decl.sets \cup Decl.values \cup Decl.owners

\* a machine nobody can start and an ending nothing leads to are both refused
Structured ==
    /\ Decl.initial \in StateNames /\ Decl.terminal \subseteq StateNames
    /\ Decl.over # None => Decl.over \in RoleNames
    /\ Decl.skip \subseteq Decl.sets
    /\ Decl.owners \cap Decl.sets = {}
    /\ \E name \in DOMAIN Decl.transitions :
          {"any", Decl.initial} \cap Decl.transitions[name].from # {}
    /\ Decl.terminal # {} =>
          \E name \in DOMAIN Decl.transitions : Decl.transitions[name].to \in Decl.terminal

\* an empty role makes every guard over it true; a member who is no agent of the realm
\* would never be waited for
RolesBound ==
    /\ Decl.refereeRoles \subseteq RoleNames
    /\ IsList(Decl.roster) /\ None \notin ToSet(Decl.roster)
    /\ \A r \in RoleNames : Decl.members[r] # {} /\ Decl.members[r] \subseteq ToSet(Decl.roster)

\* copied from a key that is not everybody's, a value must not become everybody's
CopyDeclared(e) ==
    e.value.ref = "data" /\ e.value.key \in Decl.hidden \cup Decl.owners => e.key \in Decl.hidden

EffectDeclared(e) ==
    /\ e.kind \in EffectKinds
    /\ e.kind \in {"reset", "add_to", "remove_from"} => e.key \in Decl.sets
    /\ e.kind = "unset"  => e.key \notin Decl.sets
    /\ e.kind = "set"    => e.key \in DataKeys \ Decl.owners /\ CopyDeclared(e)
    /\ e.kind = "reveal" => e.key \in Decl.owners

\* open is a public log, where a refusal tells everyone what the guard read
GuardDeclared(g, open) ==
    /\ g.kind \in GuardKinds
    /\ g.kind \in KeyReading =>
          g.key \in DataKeys \/ (g.key = "actor" /\ g.kind \in {"data_equals", "data_present"})
    /\ g.kind \in SetReading => g.key \in Decl.sets
    /\ g.kind = "escrow_complete" /\ g.round.ref = "data" =>
          g.round.key \in DataKeys \cup {"actor"}
    /\ g.kind \in Counting => g.over \in RoleNames /\ g.minus \subseteq Decl.sets
    /\ open /\ g.kind \in HiddenReading => g.key \notin Decl.hidden

MayCarry(role, e) ==
    \/ role \in Decl.refereeRoles
    \/ e.kind \in Decl.optIn
    \/ /\ e.kind \in SafeEffects
       /\ e.kind = "add_to" => e.value.ref = "caller"
       /\ e.kind = "reveal" => e.owners.ref = "caller"

TransitionDeclared(t) ==
    /\ t.from \subseteq StateNames \cup {"any"} /\ t.to \in StateNames \cup {"same"}
    /\ t.by \in RoleNames /\ (t.by \in Decl.hiddenRoles => t.log = "referee")
    /\ \A i \in DOMAIN t.guard : GuardDeclared(t.guard[i], t.log = "public")
    /\ \A i \in DOMAIN t.effects : EffectDeclared(t.effects[i]) /\ MayCarry(t.by, t.effects[i])

WakeDeclared(w) ==
    /\ w.role # "actor" => w.role \in RoleNames \ Decl.hiddenRoles /\ w.when # <<>>
    /\ \A g \in ToSet(w.when) \cup ToSet(w.unless) :
          g.kind \notin OfCaller /\ GuardDeclared(g, FALSE)

ASSUME DeclAssumption ==
    /\ \A name \in DOMAIN Decl.transitions :
          /\ IsList(Decl.transitions[name].guard) /\ IsList(Decl.transitions[name].effects)
          /\ TransitionDeclared(Decl.transitions[name])
    /\ Structured /\ RolesBound
    /\ \A w \in Decl.wake : WakeDeclared(w)
    /\ Decl.late \subseteq RoleNames \ (Decl.hiddenRoles \cup {"actor"})

-----------------------------------------------------------------------------
Empty == [x \in {} |-> None]

RolesOf(agent)   == {r \in DOMAIN Decl.members : agent \in Decl.members[r]}
IsReferee(agent) == RolesOf(agent) \cap Decl.refereeRoles # {}

InitialState ==
    [state    |-> Decl.initial,
     actor    |-> None,
     sets     |-> [k \in Decl.sets |-> {}],
     data     |-> Empty,
     owned    |-> [k \in Decl.owners |-> Empty],
     revealed |-> [k \in Decl.owners |-> {}]]

-----------------------------------------------------------------------------
(* Values, expectations and guards.                                        *)

\* the inputs of one call; a wake rule has no caller and no arguments
Ctx(caller, args, escrow) == [caller |-> caller, args |-> args, escrow |-> escrow]
WakeCtx(escrow) == Ctx(None, Empty, escrow)

Put(f, x, v) == [y \in DOMAIN f \cup {x} |-> IF y = x THEN v ELSE f[y]]

ValueAt(f, x) == IF x \in DOMAIN f THEN f[x] ELSE None

Lookup(key, m) == IF key = "actor" THEN m.actor ELSE ValueAt(m.data, key)

Resolve(v, ctx, m) ==
    CASE v.ref = "caller" -> ctx.caller
      [] v.ref = "arg"    -> ValueAt(ctx.args, v.name)
      [] v.ref = "data"   -> Lookup(v.key, m)
      [] v.ref = "lit"    -> v.value

\* the members of a role who are in none of the given sets
Expected(m, over, minus) == Decl.members[over] \ UNION {m.sets[k] : k \in minus}

\* an unresolved round is a round nobody sealed
Sealed(escrow, round) == IF round \in DOMAIN escrow THEN escrow[round] ELSE {}

Holds(g, m, ctx) ==
    CASE g.kind = "caller_is_actor" -> ctx.caller # None /\ m.actor = ctx.caller
      [] g.kind = "caller_in"       -> ctx.caller \in m.sets[g.key]
      [] g.kind = "caller_not_in"   -> ctx.caller \notin m.sets[g.key]
      [] g.kind = "data_present"    -> IF g.key = "actor" THEN m.actor # None
                                       ELSE g.key \in DOMAIN m.data
      [] g.kind = "data_equals"     -> Lookup(g.key, m) = Resolve(g.value, ctx, m)
      [] g.kind = "data_set_empty"  -> m.sets[g.key] = {}
      [] g.kind = "data_set_full"   -> Expected(m, g.over, g.minus) \subseteq m.sets[g.key]
      [] g.kind = "count_equals"    -> Cardinality(Expected(m, g.over, g.minus)) = g.n
      [] g.kind = "count_at_most"   -> Cardinality(Expected(m, g.over, g.minus)) <= g.n
      [] g.kind = "count_at_least"  -> Cardinality(Expected(m, g.over, g.minus)) >= g.n
      [] g.kind = "escrow_complete" ->
            Expected(m, g.over, g.minus) \subseteq Sealed(ctx.escrow, Resolve(g.round, ctx, m))

AllHold(guards, m, ctx) == \A i \in DOMAIN guards : Holds(guards[i], m, ctx)

-----------------------------------------------------------------------------
(* The pointer.                                                            *)

HasPointer == Decl.over # None

Eligible(m, agent) == HasPointer /\ \A k \in Decl.skip : agent \notin m.sets[k]

\* bug: the rotation does not wrap
AdvanceToEnd(m) ==
    LET n    == Len(Decl.roster)
        over == Decl.members[Decl.over]
        at   == IF m.actor \in over THEN CHOOSE i \in 1..n : Decl.roster[i] = m.actor ELSE 0
        open == {i \in (at + 1)..n : Decl.roster[i] \in over /\ Eligible(m, Decl.roster[i])}
    IN  [m EXCEPT !.actor = IF open = {} THEN None
                            ELSE Decl.roster[CHOOSE i \in open : \A j \in open : i <= j]]

\* the next eligible member after the current one, wrapping; parked if there is none
AdvanceActor(m) ==
    LET n       == Len(Decl.roster)
        over    == Decl.members[Decl.over]
        at      == IF m.actor \in over THEN CHOOSE i \in 1..n : Decl.roster[i] = m.actor ELSE 0
        seat(i) == Decl.roster[((at + i - 1) % n) + 1]
        open    == {i \in 1..n : seat(i) \in over /\ Eligible(m, seat(i))}
    IN  IF ~HasPointer THEN m
        ELSE [m EXCEPT !.actor = IF open = {} THEN None
                                 ELSE seat(CHOOSE i \in open : \A j \in open : i <= j)]

\* bug: the referee may give the floor to someone the pointer skips
SetActorUnchecked(m, who) ==
    IF ~HasPointer \/ (who # None /\ who \notin Decl.members[Decl.over]) THEN Refused
    ELSE [m EXCEPT !.actor = who]

SetActor(m, who) ==
    IF ~HasPointer \/ (who # None /\ ~(who \in Decl.members[Decl.over] /\ Eligible(m, who)))
    THEN Refused
    ELSE [m EXCEPT !.actor = who]

-----------------------------------------------------------------------------
(* Effects.                                                                *)

\* a value that names an agent must name one of the pointer's role
MayName(who) == who \in IF HasPointer THEN Decl.members[Decl.over]
                        ELSE UNION {Decl.members[r] : r \in DOMAIN Decl.members}

OwnersOf(sel, ctx, m) ==
    IF sel.ref = "members" THEN Expected(m, sel.over, sel.minus)
    ELSE {Resolve(sel, ctx, m)} \ {None}

ApplyEffect(e, m, ctx) ==
    LET who == Resolve(e.value, ctx, m) IN
    CASE e.kind = "advance_actor" -> AdvanceActor(m)
      [] e.kind = "add_to"        ->
            IF MayName(who) THEN [m EXCEPT !.sets[e.key] = @ \cup {who}] ELSE Refused
      [] e.kind = "remove_from"   ->
            IF MayName(who) THEN [m EXCEPT !.sets[e.key] = @ \ {who}] ELSE Refused
      [] e.kind = "reset"         -> [m EXCEPT !.sets[e.key] = {}]
      [] e.kind = "set"           -> [m EXCEPT !.data = Put(@, e.key, who)]
      [] e.kind = "unset"         -> [m EXCEPT !.data = Restrict(@, DOMAIN @ \ {e.key})]
      [] e.kind = "set_actor"     -> SetActor(m, who)
      [] e.kind = "reveal"        ->
            [m EXCEPT !.revealed[e.key] = @ \cup OwnersOf(e.owners, ctx, m)]

\* the effects in order on a scratch copy; the first one refused discards it
ApplyAll(effects, m, ctx) ==
    FoldLeft(LAMBDA acc, e : IF acc = Refused THEN Refused ELSE ApplyEffect(e, acc, ctx),
             m, effects)

-----------------------------------------------------------------------------
(* Wake rules: a role rule on the false-to-true edge of `when`, the actor  *)
(* rule on a move of the pointer; neither while `unless` holds.            *)

Blocked(w, new, ctx) == w.unless # <<>> /\ AllHold(w.unless, new, ctx)

RoleWakes(old, new, escrow) ==
    LET ctx == WakeCtx(escrow)
    IN  UNION {Decl.members[w.role] : w \in {w \in Decl.wake :
            /\ w.role # "actor"
            /\ AllHold(w.when, new, ctx) /\ ~AllHold(w.when, old, ctx)
            /\ ~Blocked(w, new, ctx)}}

ActorWakes(old, new, escrow) ==
    LET ctx == WakeCtx(escrow)
    IN  {new.actor : w \in {w \in Decl.wake :
            /\ w.role = "actor"
            /\ new.actor # None /\ new.actor # old.actor
            /\ AllHold(w.when, new, ctx)
            /\ ~Blocked(w, new, ctx)}}

-----------------------------------------------------------------------------
(* The two writes.  A call is [op, caller, name, args] or [op, caller,     *)
(* key, value, owner]; an outcome carries the next state and the GAME row, *)
(* a refusal the check that failed and the row that says so.               *)

Accepted(call, old, new, escrow) ==
    [ok |-> TRUE, state |-> new,
     row |-> [op |-> call.op, call |-> call, check |-> "none", actor |-> new.actor,
              wake |-> RoleWakes(old, new, escrow), wakeActor |-> ActorWakes(old, new, escrow)]]

Rejected(call, old, check) ==
    [ok |-> FALSE, state |-> old,
     row |-> [op |-> "reject", call |-> call, check |-> check, actor |-> None,
              wake |-> {}, wakeActor |-> {}]]

Act(m, call, escrow) ==
    IF call.name \notin DOMAIN Decl.transitions THEN Rejected(call, m, "exists")
    ELSE LET t    == Decl.transitions[call.name]
             ctx  == Ctx(call.caller, call.args, escrow)
             done == ApplyAll(t.effects, m, ctx)
         IN  IF "any" \notin t.from /\ m.state \notin t.from THEN Rejected(call, m, "from")
             ELSE IF t.by \notin RolesOf(call.caller)         THEN Rejected(call, m, "by")
             ELSE IF ~AllHold(t.guard, m, ctx)                THEN Rejected(call, m, "guard")
             ELSE IF done = Refused                           THEN Rejected(call, m, "effect")
             ELSE Accepted(call, m,
                           IF t.to = "same" THEN done ELSE [done EXCEPT !.state = t.to], escrow)

\* bug: a reveal is a standing right to read the key, so the next value is public too
WrittenOpen(m, call) ==
    IF call.owner # None
    THEN [m EXCEPT !.owned[call.key] = Put(@, call.owner, call.value)]
    ELSE [m EXCEPT !.data = Put(@, call.key, call.value)]

\* the state after the referee's write; a fresh owner value conceals what a reveal had shown
Written(m, call) ==
    IF call.owner # None
    THEN [m EXCEPT !.owned[call.key] = Put(@, call.owner, call.value),
                   !.revealed[call.key] = @ \ {call.owner}]
    ELSE [m EXCEPT !.data = Put(@, call.key, call.value)]

SetValue(m, call, escrow) ==
    IF ~IsReferee(call.caller)                             THEN Rejected(call, m, "authority")
    ELSE IF call.key \notin Decl.values \cup Decl.owners   THEN Rejected(call, m, "key")
    ELSE IF (call.key \in Decl.owners) # (call.owner # None) THEN Rejected(call, m, "owner")
    ELSE IF call.owner # None /\ ~MayName(call.owner)      THEN Rejected(call, m, "owner")
    ELSE Accepted(call, m, Written(m, call), escrow)

Apply(m, call, escrow) ==
    IF call.op = "act" THEN Act(m, call, escrow) ELSE SetValue(m, call, escrow)

-----------------------------------------------------------------------------
(* Recovery: the rows of the chronicle applied in order to the initial     *)
(* state.  A row that was accepted is proof that its seals were complete.  *)

\* bug: the seals are not supplied, so no escrow guard passes a second time
NoSeals(m, call) == Empty

\* the sealed sets that make each escrow guard of the transition hold; of two
\* guards on one round the later one's set stands
EscrowThatHeld(m, call) ==
    IF call.op # "act" \/ call.name \notin DOMAIN Decl.transitions THEN Empty
    ELSE LET t     == Decl.transitions[call.name]
             ctx   == Ctx(call.caller, call.args, Empty)
             idx   == {i \in DOMAIN t.guard : t.guard[i].kind = "escrow_complete"}
             round(i) == Resolve(t.guard[i].round, ctx, m)
             last(r)  == CHOOSE i \in idx : round(i) = r /\ \A j \in idx : round(j) = r => j <= i
         IN  [r \in {round(i) : i \in idx} |->
                 Expected(m, t.guard[last(r)].over, t.guard[last(r)].minus)]

\* a walk over the rows: the state so far, as long as every row applied
Walked(m) == [ok |-> TRUE, state |-> m]

\* a row that no longer applies ends the walk: ReplayError
ReplayRow(walk, row) ==
    IF ~walk.ok \/ row.op = "reject" THEN walk
    ELSE LET out == Apply(walk.state, row.call, EscrowThatHeld(walk.state, row.call))
         IN  [ok |-> out.ok, state |-> out.state]

Replay(rows) == FoldLeft(ReplayRow, Walked(InitialState), rows)

-----------------------------------------------------------------------------
(* What a caller is shown.                                                 *)

View(m, caller) ==
    LET ref == IsReferee(caller)
        readable(keys) == {k \in keys : ref \/ k \notin Decl.hidden}
        shown(key) == {o \in DOMAIN m.owned[key] :
                          ref \/ o = caller \/ o \in m.revealed[key]}
    IN  [state |-> m.state, actor |-> m.actor,
         sets  |-> Restrict(m.sets, readable(Decl.sets)),
         data  |-> Restrict(m.data, readable(Decl.values \cap DOMAIN m.data)),
         owned |-> [k \in Decl.owners |-> Restrict(m.owned[k], shown(k))]]

\* the visibility an accepted or refused call is chronicled with
LogOf(row) ==
    LET c == row.call
    IN  IF c.op = "act"
        THEN IF c.name \in DOMAIN Decl.transitions THEN Decl.transitions[c.name].log ELSE "public"
        ELSE IF row.op = "reject" \/ c.key \in Decl.hidden THEN "referee"
        ELSE IF c.key \in Decl.owners THEN "owner" ELSE "public"

RowShown(row, caller) ==
    \/ IsReferee(caller)
    \/ IF row.check = "exists" THEN row.call.caller = caller
       ELSE \/ LogOf(row) = "public"
            \/ LogOf(row) = "owner" /\ row.call.owner = caller
==============================================================================
