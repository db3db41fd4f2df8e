------------------------------- MODULE GameProofs -------------------------------
(***************************************************************************)
(* Proofs about the game machine for every declaration: lemmas about the   *)
(* engine, then its service, with every number of writers and readers and  *)
(* every bound, then a table in play.                                      *)
(***************************************************************************)
EXTENDS MachineService, PokerTable, FiniteSetTheorems, SequenceTheorems, WellFoundedInduction,
        TLAPS

LEMMA LeastExists ==
    ASSUME NEW T, T \subseteq Nat, T # {} PROVE \E x \in T : \A y \in T : x <= y
<1> DEFINE R == OpToRel(<, Nat)
<1>1. IsWellFoundedOn(R, Nat)
  BY NatLessThanWellFounded
<1>2. PICK x \in T : \A y \in T : ~(<<y, x>> \in R)
  BY <1>1, WFMin
<1>3. \A y \in T : ~(y < x)
  BY <1>2 DEF OpToRel
<1>4. QED
  BY <1>3

-----------------------------------------------------------------------------
(* Folds.  What a fold computes is reached by a trace: the base, then one  *)
(* step per element.  The two folds of the engine share one proof: an item *)
(* is a row to replay, or an effect to apply in a context.                 *)

Fold(acc, item) ==
    IF item[1] = "row" THEN ReplayRow(acc, item[2])
    ELSE IF acc = Refused THEN Refused ELSE ApplyEffect(item[2], acc, item[3])

Folds(it, base, items, n) ==
    it = [s \in SUBSET (1 .. n) |->
             IF s = {} THEN base ELSE Fold(it[s \ {Max(s)}], items[Max(s)])]

Trace(st, base, items, n) ==
    st[0] = base /\ \A i \in 1 .. n : st[i] = Fold(st[i - 1], items[i])

LEMMA MaxIs ==
    ASSUME NEW k \in Nat, NEW s \in SUBSET (1 .. (k + 1)), k + 1 \in s
    PROVE  Max(s) = k + 1
<1>1. \A j \in s : j \in Nat /\ k + 1 >= j
  OBVIOUS
<1>2. PICK i \in s : i = Max(s) /\ \A j \in s : i >= j
  BY <1>1 DEF Max
<1>3. QED
  BY <1>1, <1>2

LEMMA MaxIn ==
    ASSUME NEW k \in Nat, NEW s \in SUBSET (1 .. k), s # {}
    PROVE  Max(s) \in s /\ \A j \in s : j <= Max(s)
<1> DEFINE T == {k - i : i \in s}
<1>1. \A i \in s : i \in Nat /\ k - i \in Nat /\ k - i \in T
  OBVIOUS
<1>2. T \subseteq Nat /\ T # {}
  BY <1>1
<1>3. PICK x \in T : \A y \in T : x <= y
  BY ONLY <1>2, LeastExists
<1>4. PICK i \in s : x = k - i
  OBVIOUS
<1> HIDE DEF T
<1>5. \A j \in s : i >= j
  BY <1>1, <1>3, <1>4
<1>6. PICK top \in s : top = Max(s) /\ \A j \in s : top >= j
  BY <1>5 DEF Max
<1>7. QED
  BY <1>1, <1>6

\* a fold over a set of places, whatever the items at them
LEMMA FoldExists ==
    ASSUME NEW base, NEW items, NEW n \in Nat
    PROVE  \E it : Folds(it, base, items, n)
<1> USE DEF Folds
<1> DEFINE E(k) == \E it : it = [s \in SUBSET (1 .. k) |->
              IF s = {} THEN base ELSE Fold(it[s \ {Max(s)}], items[Max(s)])]
           Bad == {k \in Nat : ~E(k)}
<1>1. E(0)
  <2>1. WITNESS [s \in SUBSET (1 .. 0) |-> base]
  <2>2. SUBSET (1 .. 0) = {{}}
    OBVIOUS
  <2>3. QED
    BY <2>2
<1>2. ASSUME NEW k \in Nat, E(k) PROVE E(k + 1)
  <2>1. PICK it : it = [s \in SUBSET (1 .. k) |->
              IF s = {} THEN base ELSE Fold(it[s \ {Max(s)}], items[Max(s)])]
    BY <1>2
  <2> DEFINE nx == [s \in SUBSET (1 .. (k + 1)) |->
                 IF k + 1 \in s THEN Fold(it[s \ {k + 1}], items[k + 1]) ELSE it[s]]
  <2>2. ASSUME NEW s \in SUBSET (1 .. (k + 1))
        PROVE  nx[s] = IF s = {} THEN base ELSE Fold(nx[s \ {Max(s)}], items[Max(s)])
    <3>1. CASE k + 1 \in s
      <4>1. Max(s) = k + 1 /\ s # {}
        BY ONLY <3>1, MaxIs
      <4>2. s \ {k + 1} \in SUBSET (1 .. (k + 1)) /\ k + 1 \notin s \ {k + 1}
        OBVIOUS
      <4>3. nx[s \ {k + 1}] = it[s \ {k + 1}]
        BY <4>2
      <4>4. nx[s] = Fold(it[s \ {k + 1}], items[k + 1])
        BY <3>1
      <4> HIDE DEF nx
      <4>5. QED
        BY <4>1, <4>3, <4>4
    <3>2. CASE k + 1 \notin s
      <4>1. s \in SUBSET (1 .. k)
        BY <3>2
      <4>2. nx[s] = it[s]
        BY <3>2
      <4>3. it[s] = IF s = {} THEN base ELSE Fold(it[s \ {Max(s)}], items[Max(s)])
        BY ONLY <2>1, <4>1
      <4>4. CASE s = {}
        BY <4>2, <4>3, <4>4
      <4>5. CASE s # {}
        <5>1. s \ {Max(s)} \in SUBSET (1 .. (k + 1)) /\ k + 1 \notin s \ {Max(s)}
          BY <3>2
        <5>2. nx[s \ {Max(s)}] = it[s \ {Max(s)}]
          BY <5>1
        <5> HIDE DEF nx
        <5>3. QED
          BY <4>2, <4>3, <4>5, <5>2
      <4>6. QED
        BY <4>4, <4>5
    <3>3. QED
      BY <3>1, <3>2
  <2>3. nx = [s \in SUBSET (1 .. (k + 1)) |->
                IF s = {} THEN base ELSE Fold(nx[s \ {Max(s)}], items[Max(s)])]
    BY ONLY <2>2
  <2>4. QED
    BY ONLY <2>3
<1>3. Bad = {}
  <2> SUFFICES ASSUME Bad # {} PROVE FALSE
    OBVIOUS
  <2> HIDE DEF E
  <2>1. PICK k \in Bad : \A j \in Bad : k <= j
    BY LeastExists
  <2>2. k \in Nat /\ ~E(k)
    OBVIOUS
  <2>3. k # 0
    BY <1>1, <2>2
  <2>4. k - 1 \in Nat /\ ~(k <= k - 1) /\ (k - 1) + 1 = k
    BY <2>2, <2>3
  <2>5. E(k - 1)
    BY <2>1, <2>4
  <2>6. QED
    BY <1>2, <2>2, <2>4, <2>5
<1>4. QED
  BY <1>3

\* ... and the trace it computes over the first n places
LEMMA FoldTrace ==
    ASSUME NEW base, NEW items, NEW n \in Nat, NEW it, Folds(it, base, items, n)
    PROVE  \E st : Trace(st, base, items, n) /\ st[n] = it[1 .. n]
<1> DEFINE st == [i \in 0 .. n |-> it[1 .. i]]
<1>1. st[0] = base /\ st[n] = it[1 .. n]
  <2>1. 1 .. 0 = {} /\ {} \in SUBSET (1 .. n) /\ 0 \in 0 .. n /\ n \in 0 .. n
    OBVIOUS
  <2>2. it[{}] = base
    BY ONLY <2>1, Folds(it, base, items, n) DEF Folds
  <2>3. QED
    BY <2>1, <2>2
<1>2. ASSUME NEW i \in 1 .. n PROVE st[i] = Fold(st[i - 1], items[i])
  <2>0. i \in Nat /\ 1 <= i /\ i <= n /\ i \in 0 .. n /\ i - 1 \in 0 .. n
    OBVIOUS
  <2>1. /\ 1 .. i \in SUBSET (1 .. n) /\ i \in 1 .. i
        /\ (1 .. i) \ {i} = 1 .. (i - 1)
    BY ONLY <2>0
  <2>2. Max(1 .. i) = i
    <3>1. i - 1 \in Nat /\ (i - 1) + 1 = i /\ 1 .. i \in SUBSET (1 .. i) /\ i \in 1 .. i
      BY ONLY <2>0
    <3>2. QED
      BY ONLY <3>1, MaxIs
  <2>3. it[1 .. i] = Fold(it[(1 .. i) \ {Max(1 .. i)}], items[Max(1 .. i)])
    BY ONLY <2>1, Folds(it, base, items, n) DEF Folds
  <2>4. st[i] = it[1 .. i] /\ st[i - 1] = it[1 .. (i - 1)]
    BY <2>0
  <2> HIDE DEF st
  <2>5. QED
    BY <2>1, <2>2, <2>3, <2>4
<1>3. QED
  BY ONLY <1>1, <1>2 DEF Trace

\* replay walks the rows one by one
LEMMA ReplayTrace ==
    ASSUME NEW log, NEW n \in Nat, DOMAIN log = 1 .. n
    PROVE  \E st : /\ st[0] = Walked(InitialState) /\ st[n] = Replay(log)
                   /\ \A i \in 1 .. n : st[i] = ReplayRow(st[i - 1], log[i])
<1> DEFINE items == [i \in 1 .. n |-> <<"row", log[i]>>]
           base  == Walked(InitialState)
           Is(it) == it = [s \in SUBSET DOMAIN log |->
                       IF s = {} THEN base ELSE ReplayRow(it[s \ {Max(s)}], log[Max(s)])]
           Does(it) == Folds(it, base, items, n)
<1>0. \A s \in SUBSET (1 .. n) : s # {} => Max(s) \in 1 .. n
  BY MaxIn
<1>1. \A it : Is(it) <=> Does(it)
  <2> SUFFICES ASSUME NEW it PROVE Is(it) <=> Does(it)
    OBVIOUS
  <2>1. \A s \in SUBSET (1 .. n) : s # {} =>
           ReplayRow(it[s \ {Max(s)}], log[Max(s)]) = Fold(it[s \ {Max(s)}], items[Max(s)])
    BY <1>0 DEF Fold
  <2>2. [s \in SUBSET DOMAIN log |->
            IF s = {} THEN base ELSE ReplayRow(it[s \ {Max(s)}], log[Max(s)])]
        = [s \in SUBSET (1 .. n) |->
            IF s = {} THEN base ELSE Fold(it[s \ {Max(s)}], items[Max(s)])]
    BY ONLY <2>1, DOMAIN log = 1 .. n
  <2>3. QED
    BY ONLY <2>2 DEF Folds
<1>2. Replay(log) = (CHOOSE it : Is(it))[DOMAIN log]
  BY DEF Replay, FoldLeft, MapThenFoldSet
<1>3. PICK it : it = CHOOSE x : Is(x)
  OBVIOUS
<1> HIDE DEF items, base
<1>4. \E x : Does(x)
  BY ONLY FoldExists, n \in Nat
<1> HIDE DEF Is
<1>5. Is(it)
  BY ONLY <1>1, <1>3, <1>4
<1>6. Does(it)
  BY ONLY <1>1, <1>5
<1>7. PICK st : Trace(st, base, items, n) /\ st[n] = it[1 .. n]
  BY ONLY <1>6, FoldTrace, n \in Nat
<1>8. \A i \in 1 .. n : st[i] = ReplayRow(st[i - 1], log[i])
  BY <1>7 DEF Fold, Trace, items
<1>9. st[n] = Replay(log)
  BY ONLY <1>2, <1>3, <1>7, DOMAIN log = 1 .. n
<1>10. QED
  BY <1>7, <1>8, <1>9 DEF base, Trace

\* effects are applied one by one, until one is refused
Applies(st, effects, m, ctx, n) ==
    /\ st[0] = m /\ st[n] = ApplyAll(effects, m, ctx)
    /\ \A i \in 1 .. n : st[i] = IF st[i - 1] = Refused THEN Refused
                                 ELSE ApplyEffect(effects[i], st[i - 1], ctx)

LEMMA AppliedTrace ==
    ASSUME NEW effects, NEW m, NEW ctx, NEW n \in Nat, DOMAIN effects = 1 .. n
    PROVE  \E st : Applies(st, effects, m, ctx, n)
<1> DEFINE items == [i \in 1 .. n |-> <<"effect", effects[i], ctx>>]
           Next1(acc, e) == IF acc = Refused THEN Refused ELSE ApplyEffect(e, acc, ctx)
           Is(it) == it = [s \in SUBSET DOMAIN effects |->
                       IF s = {} THEN m ELSE Next1(it[s \ {Max(s)}], effects[Max(s)])]
           Does(it) == Folds(it, m, items, n)
<1>0. \A s \in SUBSET (1 .. n) : s # {} => Max(s) \in 1 .. n
  BY MaxIn
<1>1. \A it : Is(it) <=> Does(it)
  <2> SUFFICES ASSUME NEW it PROVE Is(it) <=> Does(it)
    OBVIOUS
  <2>1. \A s \in SUBSET (1 .. n) : s # {} =>
           Next1(it[s \ {Max(s)}], effects[Max(s)]) = Fold(it[s \ {Max(s)}], items[Max(s)])
    BY <1>0 DEF Fold
  <2> HIDE DEF Next1
  <2>2. [s \in SUBSET DOMAIN effects |->
            IF s = {} THEN m ELSE Next1(it[s \ {Max(s)}], effects[Max(s)])]
        = [s \in SUBSET (1 .. n) |->
            IF s = {} THEN m ELSE Fold(it[s \ {Max(s)}], items[Max(s)])]
    BY ONLY <2>1, DOMAIN effects = 1 .. n
  <2>3. QED
    BY ONLY <2>2 DEF Folds
<1>2. ApplyAll(effects, m, ctx) = (CHOOSE it : Is(it))[DOMAIN effects]
  BY DEF ApplyAll, FoldLeft, MapThenFoldSet
<1>3. PICK it : it = CHOOSE x : Is(x)
  OBVIOUS
<1> HIDE DEF items
<1>4. \E x : Does(x)
  BY ONLY FoldExists, n \in Nat
<1> HIDE DEF Is
<1>5. Is(it)
  BY ONLY <1>1, <1>3, <1>4
<1>6. Does(it)
  BY ONLY <1>1, <1>5
<1>7. PICK st : Trace(st, m, items, n) /\ st[n] = it[1 .. n]
  BY ONLY <1>6, FoldTrace, n \in Nat
<1>8. \A i \in 1 .. n : st[i] = Next1(st[i - 1], effects[i])
  BY <1>7 DEF Fold, Trace, items
<1>9. st[n] = ApplyAll(effects, m, ctx)
  BY ONLY <1>2, <1>3, <1>7, DOMAIN effects = 1 .. n
<1>10. QED
  BY <1>7, <1>8, <1>9 DEF Trace, Applies

-----------------------------------------------------------------------------
(* Replay.                                                                 *)

LEMMA ReplayAppend ==
    ASSUME NEW S, NEW log \in Seq(S), NEW row \in S
    PROVE  Replay(Append(log, row)) = ReplayRow(Replay(log), row)
<1> DEFINE n == Len(log)
           more == Append(log, row)
<1>1. /\ n \in Nat /\ DOMAIN log = 1 .. n /\ DOMAIN more = 1 .. (n + 1)
      /\ more[n + 1] = row /\ \A i \in 1 .. n : more[i] = log[i]
  BY AppendProperties, LenProperties
<1> HIDE DEF n, more
<1>2. PICK st : /\ st[0] = Walked(InitialState) /\ st[n] = Replay(log)
                /\ \A i \in 1 .. n : st[i] = ReplayRow(st[i - 1], log[i])
  BY <1>1, ReplayTrace
<1>3. PICK tr : /\ tr[0] = Walked(InitialState) /\ tr[n + 1] = Replay(more)
                /\ \A i \in 1 .. (n + 1) : tr[i] = ReplayRow(tr[i - 1], more[i])
  <2>1. n + 1 \in Nat
    BY <1>1
  <2>2. QED
    BY <1>1, <2>1, ReplayTrace
<1> DEFINE Bad == {i \in 0 .. n : st[i] # tr[i]}
<1>4. Bad = {}
  <2> SUFFICES ASSUME Bad # {} PROVE FALSE
    OBVIOUS
  <2>1. Bad \subseteq Nat
    OBVIOUS
  <2>2. PICK i \in Bad : \A j \in Bad : i <= j
    BY <2>1, LeastExists
  <2>3. i \in 0 .. n /\ st[i] # tr[i] /\ i # 0
    BY <1>2, <1>3
  <2>4. i - 1 \in 0 .. n /\ i - 1 \notin Bad /\ i \in 1 .. n /\ i \in 1 .. (n + 1)
    BY <1>1, <2>1, <2>2, <2>3
  <2>5. st[i - 1] = tr[i - 1]
    BY <2>4
  <2>6. st[i] = ReplayRow(st[i - 1], log[i]) /\ tr[i] = ReplayRow(tr[i - 1], log[i])
    BY <1>1, <1>2, <1>3, <2>4
  <2>7. QED
    BY ONLY <2>3, <2>5, <2>6
<1>5. st[n] = tr[n]
  BY <1>1, <1>4
<1>6. tr[n + 1] = ReplayRow(tr[n], row)
  <2>1. n + 1 \in 1 .. (n + 1) /\ (n + 1) - 1 = n
    BY <1>1
  <2>2. tr[n + 1] = ReplayRow(tr[(n + 1) - 1], more[n + 1])
    BY <1>3, <2>1
  <2>3. QED
    BY <1>1, <2>1, <2>2
<1>7. QED
  BY <1>2, <1>3, <1>5, <1>6 DEF more

-----------------------------------------------------------------------------
(* Seals decide guards and nothing else.                                   *)

LEMMA ResolveSame ==
    ASSUME NEW v, NEW m, NEW c, NEW args, NEW e, NEW f
    PROVE  Resolve(v, Ctx(c, args, e), m) = Resolve(v, Ctx(c, args, f), m)
  BY DEF Resolve, Ctx

LEMMA EffectSame ==
    ASSUME NEW eff, NEW m, NEW c, NEW args, NEW e, NEW f
    PROVE  ApplyEffect(eff, m, Ctx(c, args, e)) = ApplyEffect(eff, m, Ctx(c, args, f))
<1>1. Resolve(eff.value, Ctx(c, args, e), m) = Resolve(eff.value, Ctx(c, args, f), m)
  BY ResolveSame
<1>2. OwnersOf(eff.owners, Ctx(c, args, e), m) = OwnersOf(eff.owners, Ctx(c, args, f), m)
  BY ResolveSame DEF OwnersOf
<1>3. QED
  BY ONLY <1>1, <1>2 DEF ApplyEffect

LEMMA AppliedSame ==
    ASSUME NEW effects, NEW n \in Nat, DOMAIN effects = 1 .. n,
           NEW m, NEW c, NEW args, NEW e, NEW f
    PROVE  ApplyAll(effects, m, Ctx(c, args, e)) = ApplyAll(effects, m, Ctx(c, args, f))
<1>1. PICK st : Applies(st, effects, m, Ctx(c, args, e), n)
  BY AppliedTrace
<1>2. PICK tr : Applies(tr, effects, m, Ctx(c, args, f), n)
  BY AppliedTrace
<1> DEFINE Bad == {i \in 0 .. n : st[i] # tr[i]}
<1>3. Bad = {}
  <2> SUFFICES ASSUME Bad # {} PROVE FALSE
    OBVIOUS
  <2>1. Bad \subseteq Nat
    OBVIOUS
  <2>2. PICK i \in Bad : \A j \in Bad : i <= j
    BY <2>1, LeastExists
  <2>3. i \in 0 .. n /\ st[i] # tr[i] /\ i # 0
    BY <1>1, <1>2 DEF Applies
  <2>4. i - 1 \in 0 .. n /\ i - 1 \notin Bad /\ i \in 1 .. n
    BY <2>1, <2>2, <2>3
  <2>5. st[i - 1] = tr[i - 1]
    BY <2>4
  <2>6. ApplyEffect(effects[i], st[i - 1], Ctx(c, args, e))
        = ApplyEffect(effects[i], tr[i - 1], Ctx(c, args, f))
    BY ONLY <2>5, EffectSame
  <2>7. /\ st[i] = IF st[i - 1] = Refused THEN Refused
                   ELSE ApplyEffect(effects[i], st[i - 1], Ctx(c, args, e))
        /\ tr[i] = IF tr[i - 1] = Refused THEN Refused
                   ELSE ApplyEffect(effects[i], tr[i - 1], Ctx(c, args, f))
    BY ONLY <1>1, <1>2, <2>4 DEF Applies
  <2>8. QED
    BY ONLY <2>3, <2>5, <2>6, <2>7
<1>4. n \in 0 .. n
  OBVIOUS
<1>5. QED
  BY <1>1, <1>2, <1>3, <1>4 DEF Applies

LEMMA GuardSame ==
    ASSUME NEW g, g.kind \in GuardKinds, g.kind # "escrow_complete",
           NEW m, NEW c, NEW args, NEW e, NEW f, Holds(g, m, Ctx(c, args, e))
    PROVE  Holds(g, m, Ctx(c, args, f))
<1>1. Resolve(g.value, Ctx(c, args, e), m) = Resolve(g.value, Ctx(c, args, f), m)
  BY ResolveSame
<1>2. Ctx(c, args, e).caller = c /\ Ctx(c, args, f).caller = c
  BY DEF Ctx
<1>3. CASE g.kind = "caller_is_actor"
  BY <1>1, <1>2, <1>3 DEF Holds
<1>4. CASE g.kind = "caller_in"
  BY <1>1, <1>2, <1>4 DEF Holds
<1>5. CASE g.kind = "caller_not_in"
  BY <1>1, <1>2, <1>5 DEF Holds
<1>6. CASE g.kind = "data_present"
  BY <1>1, <1>2, <1>6 DEF Holds
<1>7. CASE g.kind = "data_equals"
  BY <1>1, <1>2, <1>7 DEF Holds
<1>8. CASE g.kind = "data_set_empty"
  BY <1>1, <1>2, <1>8 DEF Holds
<1>9. CASE g.kind = "data_set_full"
  BY <1>1, <1>2, <1>9 DEF Holds
<1>10. CASE g.kind = "count_equals"
  BY <1>1, <1>2, <1>10 DEF Holds
<1>11. CASE g.kind = "count_at_most"
  BY <1>1, <1>2, <1>11 DEF Holds
<1>12. CASE g.kind = "count_at_least"
  BY <1>1, <1>2, <1>12 DEF Holds
<1>13. QED
  BY <1>3, <1>4, <1>5, <1>6, <1>7, <1>8, <1>9, <1>10, <1>11, <1>12 DEF GuardKinds

\* the seals replay supplies satisfy every escrow guard of the transition
LEMMA HeldSeals ==
    ASSUME SealsApart, NEW call \in Calls, call.op = "act", call.name \in DOMAIN Decl.transitions, NEW m,
           NEW i \in DOMAIN Decl.transitions[call.name].guard,
           Decl.transitions[call.name].guard[i].kind = "escrow_complete"
    PROVE  Holds(Decl.transitions[call.name].guard[i], m,
                 Ctx(call.caller, call.args, EscrowThatHeld(m, call)))
<1> DEFINE guard == Decl.transitions[call.name].guard
           ctx == Ctx(call.caller, call.args, Empty)
           idx == {j \in DOMAIN guard : guard[j].kind = "escrow_complete"}
           round(j) == Resolve(guard[j].round, ctx, m)
           same == {j \in idx : round(j) = round(i)}
           last(r) == CHOOSE k \in idx : round(k) = r /\ \A j \in idx : round(j) = r => j <= k
           held == EscrowThatHeld(m, call)
           full == Ctx(call.caller, call.args, held)
<1>1. held = [r \in {round(j) : j \in idx} |-> Expected(m, guard[last(r)].over, guard[last(r)].minus)]
  BY DEF EscrowThatHeld
<1>2. i \in idx /\ i \in same
  OBVIOUS
<1>3. idx \subseteq 1 .. Len(guard) /\ Len(guard) \in Nat
  BY DeclAssumption DEF DeclAssumption, IsList
<1>4. \E k \in idx : round(k) = round(i) /\ \A j \in idx : round(j) = round(i) => j <= k
  <2>1. same \in SUBSET (1 .. Len(guard)) /\ same # {}
    BY <1>2, <1>3
  <2> HIDE DEF same, round, guard, idx
  <2>2. Max(same) \in same
    BY ONLY <1>3, <2>1, MaxIn
  <2>3. \A j \in same : j <= Max(same)
    BY ONLY <1>3, <2>1, MaxIn
  <2>4. QED
    BY <2>2, <2>3 DEF same
<1> HIDE DEF guard, idx, held
<1>5. PICK k : k = last(round(i))
  OBVIOUS
<1>6. k \in idx /\ round(k) = round(i)
  BY <1>4, <1>5
<1> HIDE DEF last
<1>7. round(i) \in DOMAIN held /\ held[round(i)] = Expected(m, guard[k].over, guard[k].minus)
  BY <1>1, <1>2, <1>5
<1>8. guard[i].over = guard[k].over /\ guard[i].minus = guard[k].minus
  <2>1. CASE /\ guard[i].round.ref = "lit" /\ guard[k].round.ref = "lit"
             /\ guard[i].round.value # guard[k].round.value
    BY <1>6, <2>1 DEF Resolve
  <2>2. QED
    BY <1>2, <1>6, <2>1 DEF SealsApart, guard, idx
<1>9. Resolve(guard[i].round, full, m) = round(i)
  BY ResolveSame
<1>10. Expected(m, guard[i].over, guard[i].minus) \subseteq Sealed(held, round(i))
  BY <1>7, <1>8 DEF Sealed
<1>11. full.escrow = held
  BY DEF Ctx
<1>12. QED
  BY <1>2, <1>9, <1>10, <1>11 DEF Holds, guard, idx, held

\* what was accepted on some seals is accepted on those replay supplies, to the same state
LEMMA AcceptedAgain ==
    ASSUME SealsApart, NEW m, NEW call \in Calls, NEW e, Act(m, call, e).ok, call.op = "act"
    PROVE  /\ Act(m, call, EscrowThatHeld(m, call)).ok
           /\ Act(m, call, EscrowThatHeld(m, call)).state = Act(m, call, e).state
<1> DEFINE t == Decl.transitions[call.name]
           held == EscrowThatHeld(m, call)
           old == Ctx(call.caller, call.args, e)
           new == Ctx(call.caller, call.args, held)
           done(ctx) == ApplyAll(t.effects, m, ctx)
           next(d) == IF t.to = "same" THEN d ELSE [d EXCEPT !.state = t.to]
<1>1. \A x, y, z : ~Rejected(x, y, z).ok /\ \A u : Accepted(x, y, z, u).ok
                   /\ Accepted(x, y, z, u).state = z
  BY DEF Rejected, Accepted
<1> HIDE DEF held
<1>2. /\ call.name \in DOMAIN Decl.transitions
      /\ ~("any" \notin t.from /\ m.state \notin t.from) /\ t.by \in RolesOf(call.caller)
      /\ AllHold(t.guard, m, old) /\ done(old) # Refused
      /\ Act(m, call, e).state = next(done(old))
  BY <1>1 DEF Act
<1>3. IsList(t.guard) /\ IsList(t.effects) /\ \A i \in DOMAIN t.guard : t.guard[i].kind \in GuardKinds
  BY <1>2, DeclAssumption DEF DeclAssumption, TransitionDeclared, GuardDeclared
<1>4. done(new) = done(old)
  BY <1>3, AppliedSame DEF IsList
<1>5. AllHold(t.guard, m, new)
  <2> SUFFICES ASSUME NEW i \in DOMAIN t.guard PROVE Holds(t.guard[i], m, new)
    BY DEF AllHold
  <2>1. CASE t.guard[i].kind = "escrow_complete"
    BY <1>2, <2>1, HeldSeals DEF held
  <2>2. CASE t.guard[i].kind # "escrow_complete"
    <3>1. Holds(t.guard[i], m, old)
      BY <1>2 DEF AllHold
    <3>2. QED
      BY <1>3, <2>2, <3>1, GuardSame
  <2>3. QED
    BY <2>1, <2>2
<1>6. Act(m, call, held) = Accepted(call, m, next(done(new)), held)
  BY <1>2, <1>4, <1>5 DEF Act
<1> DEFINE then == next(done(new))
<1>7. then = next(done(old))
  BY <1>4
<1>8. Act(m, call, held) = Accepted(call, m, then, held)
  BY <1>6
<1> HIDE DEF then, next, done
<1>9. Act(m, call, held).ok /\ Act(m, call, held).state = then
  BY ONLY <1>8 DEF Accepted
<1>10. QED
  BY <1>2, <1>7, <1>9 DEF held

\* the row of a call replays to what the call made of the state
LEMMA RowReplays ==
    ASSUME SealsApart, NEW m, NEW call \in Calls, call.op \in {"act", "set"}, NEW e
    PROVE  LET out == Apply(m, call, e)
           IN  ReplayRow(Walked(m), out.row) = Walked(IF out.ok THEN out.state ELSE m)
<1> DEFINE out == Apply(m, call, e)
           held == EscrowThatHeld(m, call)
           again == Apply(m, call, held)
<1>1. \A x, y, z : ~Rejected(x, y, z).ok /\ Rejected(x, y, z).row.op = "reject"
  BY DEF Rejected
<1>2. \A x, y, z, u : /\ Accepted(x, y, z, u).ok = TRUE /\ Accepted(x, y, z, u).state = z
                      /\ Accepted(x, y, z, u).row.op = x.op
                      /\ Accepted(x, y, z, u).row.call = x
  BY DEF Accepted
<1>3. CASE ~out.ok
  <2>1. out.row.op = "reject"
    BY <1>1, <1>2, <1>3 DEF Apply, Act, SetValue
  <2>2. QED
    BY <1>3, <2>1 DEF ReplayRow
<1>4. CASE out.ok
  <2>1. out.row.op = call.op /\ out.row.call = call
    BY <1>1, <1>2, <1>4 DEF Apply, Act, SetValue
  <2>2. again.ok = TRUE /\ again.state = out.state
    <3>1. CASE call.op = "act"
      <4>1. again.ok /\ again.state = out.state
        BY <1>4, <3>1, AcceptedAgain DEF Apply
      <4>2. again.ok \in BOOLEAN
        BY <3>1 DEF Apply, Act, Accepted, Rejected
      <4>3. QED
        BY <4>1, <4>2
    <3>2. CASE call.op = "set"
      <4>1. out = SetValue(m, call, e) /\ again = SetValue(m, call, held)
        BY <3>2 DEF Apply
      <4>2. QED
        BY <1>1, <1>2, <1>4, <4>1 DEF SetValue
    <3>3. QED
      BY <3>1, <3>2
  <2>3. Walked(m).ok /\ Walked(m).state = m
    BY DEF Walked
  <2> HIDE DEF out, again
  <2>4. ReplayRow(Walked(m), out.row) = [ok |-> again.ok, state |-> again.state]
    BY <2>1, <2>3 DEF ReplayRow, again, held
  <2>5. QED
    BY <1>4, <2>2, <2>4 DEF Walked, out
<1>5. QED
  BY <1>3, <1>4

-----------------------------------------------------------------------------
(* The service.                                                            *)

Critical == {"load", "loaded", "escrow", "append", "landed"}

\* The shape of the functions, and the lock: a writer past the queue holds it.
LockInv ==
    /\ pc \in [Actors -> {"idle", "queued", "log", "view"} \cup Critical]
    /\ snap = [x \in Actors |-> snap[x]]
    /\ job = [w \in Writers |-> [call |-> job[w].call, escrow |-> job[w].escrow,
                                 out |-> job[w].out]]
    /\ \A x \in Readers : pc[x] \in {"idle", "load", "loaded", "log", "view"}
    /\ \A w \in Writers : pc[w] \in {"idle", "queued"} \cup Critical
    /\ \A w \in Writers : pc[w] \in Critical => holder = w

\* A writer past its load has the state in memory; what a load is about to put
\* there is current as long as nothing is there; and memory is behind the chronicle
\* by the row of the writer that has not gone on yet, never by more.
CacheInv ==
    /\ \A w \in Writers : pc[w] \in {"escrow", "append", "landed"} => cached
    /\ \A x \in Actors : pc[x] = "loaded" /\ ~cached => snap[x] = Walked(durable)
    /\ cached /\ (\A w \in Writers : pc[w] # "landed") => live = durable
    /\ \A w \in Writers : pc[w] = "landed" =>
            durable = IF job[w].out.ok THEN job[w].out.state ELSE live
    /\ \A w \in Writers : pc[w] = "append" =>
            job[w].out = Apply(live, job[w].call, job[w].escrow)

ServiceInv == LockInv /\ CacheInv

-----------------------------------------------------------------------------

LEMMA InitService == Init => ServiceInv
  BY ServiceAssumption DEF Init, ServiceInv, LockInv, CacheInv, Actors, NoJob, Critical

\* The steps a load takes, for writers and readers alike.
LEMMA LoadKeepsLock ==
  ASSUME LockInv, NEW x \in Actors, LoadStep(x)
  PROVE  LockInv'
PROOF
<1> USE ServiceAssumption DEF LockInv, Actors, Critical, Goto
<1>1. CASE LoadQuery(x)
  BY <1>1 DEF LoadQuery, lock
<1>2. CASE LoadResume(x)
  BY <1>2 DEF LoadResume, Loaded, lock
<1>3. CASE LoadRaises(x)
  BY <1>3 DEF LoadRaises, NoJob
<1> QED BY <1>1, <1>2, <1>3 DEF LoadStep

LEMMA LockStep ==
  ASSUME LockInv, [Next]_vars
  PROVE  LockInv'
PROOF
<1> USE ServiceAssumption DEF LockInv, Actors, Critical, Goto
<1>1. ASSUME NEW w \in Writers, LoadStep(w) PROVE LockInv'
  BY <1>1, LoadKeepsLock
<1>2. ASSUME NEW w \in Writers, Acquire(w) PROVE LockInv'
  BY <1>2 DEF Acquire, LockFree
<1>3. ASSUME NEW w \in Writers, LookUp(w) PROVE LockInv'
  BY <1>3 DEF LookUp, lock
<1>4. ASSUME NEW w \in Writers, Decide(w) PROVE LockInv'
  BY <1>4 DEF Decide, lock
<1>5. ASSUME NEW w \in Writers, AppendLands(w) PROVE LockInv'
  BY <1>5 DEF AppendLands, lock
<1>6. ASSUME NEW w \in Writers, Commit(w) PROVE LockInv'
  BY <1>6 DEF Commit, Finish, NoJob
<1>7. ASSUME NEW w \in Writers, AppendFails(w) PROVE LockInv'
  BY <1>7 DEF AppendFails, LockReleased, Finish, NoJob
<1>8. ASSUME NEW w \in Writers, NEW c \in Calls, Request(w, c) PROVE LockInv'
  <2>0. /\ job = [v \in Writers |-> [call |-> job[v].call, escrow |-> job[v].escrow,
                                     out |-> job[v].out]]
        /\ job' = [job EXCEPT ![w].call = c]
    BY ONLY <1>8, LockInv DEF LockInv, Request
  <2>1. job' = [v \in Writers |-> [call |-> job'[v].call, escrow |-> job'[v].escrow,
                                   out |-> job'[v].out]]
    BY ONLY <2>0
  <2>2. pc' \in [Actors -> {"idle", "queued", "log", "view"} \cup Critical]
    BY <1>8 DEF Request
  <2>3. /\ pc' = [pc EXCEPT ![w] = "queued"] /\ pc[w] = "idle"
        /\ snap' = snap /\ holder' = holder /\ w \in Actors
    BY <1>8 DEF Request
  <2>4. \A x \in Actors : pc'[x] = IF x = w THEN "queued" ELSE pc[x]
    BY ONLY <2>3, LockInv DEF LockInv
  <2> QED
    BY <2>1, <2>2, <2>3, <2>4
<1>9. ASSUME NEW x \in Readers, ReaderStep(x) PROVE LockInv'
  <2>1. CASE Read(x)
    BY <1>9, <2>1 DEF Read, lock
  <2>2. CASE LoadStep(x)
    BY <1>9, <2>2, LoadKeepsLock
  <2>3. CASE LogQuery(x)
    BY <1>9, <2>3 DEF LogQuery, lock
  <2>4. CASE Respond(x)
    BY <1>9, <2>4 DEF Respond, lock
  <2> QED BY <1>9, <2>1, <2>2, <2>3, <2>4 DEF ReaderStep
<1>10. ASSUME NEW r \in Rounds, NEW a \in Players, Seal(r, a) PROVE LockInv'
  BY <1>10 DEF Seal, lock
<1>11. CASE Restart
  BY <1>11 DEF Restart, NoJob
<1>12. CASE UNCHANGED vars
  BY <1>12 DEF vars, lock
<1> QED BY <1>1, <1>2, <1>3, <1>4, <1>5, <1>6, <1>7, <1>8, <1>9, <1>10, <1>11, <1>12
        DEF Next, WriterStep

-----------------------------------------------------------------------------

\* Loads put nothing stale in memory, given that the chronicle replays.
LEMMA LoadKeepsCache ==
  ASSUME ServiceInv, LogReplays, NEW x \in Actors, LoadStep(x)
  PROVE  CacheInv'
PROOF
<1> USE ServiceAssumption DEF ServiceInv, LockInv, CacheInv, Actors, Critical, Goto, chronicle
<1>1. CASE LoadQuery(x)
  BY <1>1 DEF LoadQuery, LogReplays, memory
<1>2. CASE LoadResume(x)
  <2>0. ~cached => snap[x] = Walked(durable)
    BY <1>2 DEF LoadResume
  <2>1. ~cached => snap[x].state = durable
    BY ONLY <2>0 DEF Walked
  <2> DEFINE new == IF cached THEN live ELSE snap[x].state
  <2>2. cached' = TRUE /\ live' = new /\ (~cached => new = durable) /\ (cached => new = live)
    BY <1>2, <2>1 DEF LoadResume, Cache
  <2> HIDE DEF new
  <2>3. QED
    BY <1>2, <2>2 DEF LoadResume, Loaded
<1>3. CASE LoadRaises(x)
  BY <1>3 DEF LoadRaises, NoJob, memory
<1> QED BY <1>1, <1>2, <1>3 DEF LoadStep

LEMMA CacheStep ==
  ASSUME ServiceInv, LogReplays, ~Cancels, [Next]_vars
  PROVE  CacheInv'
PROOF
<1> USE ServiceAssumption DEF ServiceInv, LockInv, CacheInv, Actors, Critical, Goto
<1>1. ASSUME NEW w \in Writers, LoadStep(w) PROVE CacheInv'
  BY <1>1, LoadKeepsCache
<1>2. ASSUME NEW w \in Writers, Acquire(w) PROVE CacheInv'
  BY <1>2 DEF Acquire, LockFree, memory, chronicle
<1>3. ASSUME NEW w \in Writers, LookUp(w) PROVE CacheInv'
  BY <1>3 DEF LookUp, memory, chronicle
<1>4. ASSUME NEW w \in Writers, Decide(w) PROVE CacheInv'
  BY <1>4 DEF Decide, memory, chronicle
<1>5. ASSUME NEW w \in Writers, AppendLands(w) PROVE CacheInv'
  BY <1>5 DEF AppendLands, memory
<1>6. ASSUME NEW w \in Writers, Commit(w) PROVE CacheInv'
  BY <1>6 DEF Commit, Finish, NoJob, chronicle
<1>7. ASSUME NEW w \in Writers, AppendFails(w) PROVE CacheInv'
  BY <1>7 DEF AppendFails, Finish, NoJob, memory, chronicle
<1>8. ASSUME NEW w \in Writers, NEW c \in Calls, Request(w, c) PROVE CacheInv'
  BY <1>8 DEF Request, memory, chronicle
<1>9. ASSUME NEW x \in Readers, ReaderStep(x) PROVE CacheInv'
  <2>1. CASE Read(x)
    BY <1>9, <2>1 DEF Read, memory, chronicle
  <2>2. CASE LoadStep(x)
    BY <1>9, <2>2, LoadKeepsCache
  <2>3. CASE LogQuery(x)
    BY <1>9, <2>3 DEF LogQuery, memory, chronicle
  <2>4. CASE Respond(x)
    BY <1>9, <2>4 DEF Respond, memory, chronicle
  <2> QED BY <1>9, <2>1, <2>2, <2>3, <2>4 DEF ReaderStep
<1>10. ASSUME NEW r \in Rounds, NEW a \in Players, Seal(r, a) PROVE CacheInv'
  BY <1>10 DEF Seal, memory, chronicle
<1>11. CASE Restart
  BY <1>11 DEF Restart, NoJob
<1>12. CASE UNCHANGED vars
  BY <1>12 DEF vars, memory, chronicle
<1> QED BY <1>1, <1>2, <1>3, <1>4, <1>5, <1>6, <1>7, <1>8, <1>9, <1>10, <1>11, <1>12
        DEF Next, WriterStep

-----------------------------------------------------------------------------

\* The chronicle is a list.
RowsInv == rows \in Seq({rows[i] : i \in 1 .. Len(rows)})

\* What a writer carries is a call.
CallsInv == \A w \in Writers : pc[w] # "idle" => job[w].call \in Calls

\* an element appended to a list of its own elements
LEMMA ListGrows ==
    ASSUME NEW s, s \in Seq({s[i] : i \in 1 .. Len(s)}), NEW x, NEW t, t = Append(s, x)
    PROVE  /\ t \in Seq({t[i] : i \in 1 .. Len(t)})
           /\ Len(s) \in Nat /\ Len(t) = Len(s) + 1 /\ t[Len(s) + 1] = x
           /\ \A i \in 1 .. Len(s) : t[i] = s[i]
<1> DEFINE S == {s[i] : i \in 1 .. Len(s)}
<1>1. s \in Seq(S \cup {x}) /\ Len(s) \in Nat
  BY SeqMonotonic, LenProperties
<1>2. /\ t \in Seq(S \cup {x}) /\ Len(t) = Len(s) + 1
      /\ \A i \in 1 .. Len(s) : t[i] = s[i]
      /\ t[Len(s) + 1] = x
  BY ONLY <1>1, AppendProperties, t = Append(s, x)
<1>3. S \cup {x} \subseteq {t[i] : i \in 1 .. Len(t)}
  BY <1>1, <1>2
<1>4. t \in Seq({t[i] : i \in 1 .. Len(t)})
  BY ONLY <1>2, <1>3, SeqMonotonic
<1>5. QED
  BY <1>1, <1>2, <1>4

LEMMA RowsGrow ==
    ASSUME RowsInv, NEW row, rows' = Append(rows, row)
    PROVE  /\ rows' \in Seq({rows'[i] : i \in 1 .. Len(rows')})
           /\ Len(rows) \in Nat /\ Len(rows') = Len(rows) + 1
           /\ \A i \in 1 .. Len(rows) : rows'[i] = rows[i]
  BY ListGrows DEF RowsInv

\* only a row that lands touches the chronicle
LEMMA RowsFrozen ==
    ASSUME [Next]_vars, \A w \in Writers : ~AppendLands(w)
    PROVE  chronicle' = chronicle
<1>1. ASSUME NEW w \in Writers, WriterStep(w) \/ AppendFails(w) PROVE chronicle' = chronicle
  BY <1>1 DEF WriterStep, LoadStep, LoadQuery, LoadResume, LoadRaises, Acquire, LookUp, Decide,
              Commit, AppendFails, chronicle
<1>2. ASSUME NEW w \in Writers, NEW c \in Calls, Request(w, c) PROVE chronicle' = chronicle
  BY <1>2 DEF Request
<1>3. ASSUME NEW x \in Readers, ReaderStep(x) PROVE chronicle' = chronicle
  BY <1>3 DEF ReaderStep, LoadStep, LoadQuery, LoadResume, LoadRaises, Read, LogQuery, Respond
<1>4. ASSUME NEW r \in Rounds, NEW a \in Players, Seal(r, a) PROVE chronicle' = chronicle
  BY <1>4 DEF Seal
<1>5. CASE Restart
  BY <1>5 DEF Restart
<1>6. CASE UNCHANGED vars
  BY <1>6 DEF vars
<1>7. QED
  BY <1>1, <1>2, <1>3, <1>4, <1>5, <1>6 DEF Next

LEMMA RowsStep ==
    ASSUME RowsInv, [Next]_vars
    PROVE  RowsInv'
<1>1. CASE \E w \in Writers : AppendLands(w)
  BY <1>1, RowsGrow DEF AppendLands, RowsInv
<1>2. CASE \A w \in Writers : ~AppendLands(w)
  BY <1>2, RowsFrozen DEF chronicle, RowsInv
<1>3. QED
  BY <1>1, <1>2

LEMMA CallsLoad ==
    ASSUME LockInv, CallsInv, NEW x \in Actors, LoadStep(x)
    PROVE  CallsInv'
<1> USE ServiceAssumption DEF LockInv, CallsInv, Actors, Critical, Goto
<1>1. CASE LoadQuery(x)
  BY <1>1 DEF LoadQuery
<1>2. CASE LoadResume(x)
  BY <1>2 DEF LoadResume, Loaded
<1>3. CASE LoadRaises(x)
  BY <1>3 DEF LoadRaises
<1>4. QED
  BY <1>1, <1>2, <1>3 DEF LoadStep

LEMMA CallsStep ==
    ASSUME LockInv, CallsInv, [Next]_vars
    PROVE  CallsInv'
<1> USE ServiceAssumption DEF LockInv, CallsInv, Actors, Critical, Goto
<1>1. ASSUME NEW w \in Writers, LoadStep(w) PROVE CallsInv'
  BY <1>1, CallsLoad
<1>2. ASSUME NEW w \in Writers, Acquire(w) PROVE CallsInv'
  BY <1>2 DEF Acquire
<1>3. ASSUME NEW w \in Writers, LookUp(w) PROVE CallsInv'
  BY <1>3 DEF LookUp
<1>4. ASSUME NEW w \in Writers, Decide(w) PROVE CallsInv'
  BY <1>4 DEF Decide
<1>5. ASSUME NEW w \in Writers, AppendLands(w) PROVE CallsInv'
  BY <1>5 DEF AppendLands
<1>6. ASSUME NEW w \in Writers, Commit(w) \/ AppendFails(w) PROVE CallsInv'
  BY <1>6 DEF Commit, AppendFails, Finish
<1>7. ASSUME NEW w \in Writers, NEW c \in Calls, Request(w, c) PROVE CallsInv'
  BY <1>7 DEF Request
<1>8. ASSUME NEW x \in Readers, ReaderStep(x) PROVE CallsInv'
  <2>1. CASE LoadStep(x)
    BY <2>1, CallsLoad
  <2>2. CASE Read(x) \/ LogQuery(x) \/ Respond(x)
    BY <2>2 DEF Read, LogQuery, Respond
  <2>3. QED
    BY <1>8, <2>1, <2>2 DEF ReaderStep
<1>9. CASE Restart
  BY <1>9 DEF Restart
<1>10. ASSUME NEW r \in Rounds, NEW a \in Players, Seal(r, a) PROVE CallsInv'
  BY <1>10 DEF Seal
<1>11. CASE UNCHANGED vars
  BY <1>11 DEF vars
<1>12. QED
  BY <1>1, <1>2, <1>3, <1>4, <1>5, <1>6, <1>7, <1>8, <1>9, <1>10, <1>11 DEF Next, WriterStep

-----------------------------------------------------------------------------

\* A row that lands was decided on the durable state, so it replays.
LEMMA LogStep ==
    ASSUME SealsApart, ServiceInv, RowsInv, CallsInv, LogReplays, [Next]_vars
    PROVE  LogReplays'
<1>1. ASSUME NEW w \in Writers, AppendLands(w) PROVE LogReplays'
  <2>1. /\ pc[w] = "append" /\ rows' = Append(rows, job[w].out.row)
        /\ durable' = IF job[w].out.ok THEN job[w].out.state ELSE durable
    BY <1>1 DEF AppendLands
  <2>2. \A v \in Writers : pc[v] # "landed"
    BY <2>1 DEF ServiceInv, LockInv, Critical
  <2>3. live = durable /\ job[w].out = Apply(live, job[w].call, job[w].escrow)
    BY <2>1, <2>2 DEF ServiceInv, CacheInv
  <2>4. job[w].call \in Calls
    BY <2>1 DEF CallsInv
  <2>5. job[w].call.op \in {"act", "set"}
    BY <2>4, ServiceAssumption DEF ServiceAssumption
  <2>6. ReplayRow(Walked(durable), job[w].out.row) = Walked(durable')
    BY <2>1, <2>3, <2>4, <2>5, RowReplays
  <2> DEFINE S == {rows[i] : i \in 1 .. Len(rows)} \cup {job[w].out.row}
  <2>7. rows \in Seq(S) /\ job[w].out.row \in S
    BY SeqMonotonic DEF RowsInv
  <2>8. Replay(rows') = ReplayRow(Replay(rows), job[w].out.row)
    BY ONLY <2>1, <2>7, ReplayAppend
  <2>9. QED
    BY ONLY <2>6, <2>8, LogReplays DEF LogReplays
<1>2. CASE \A w \in Writers : ~AppendLands(w)
  BY <1>2, RowsFrozen DEF chronicle, LogReplays
<1>3. QED
  BY <1>1, <1>2

LEMMA InitLog == Init => RowsInv /\ CallsInv /\ LogReplays
<1> SUFFICES ASSUME Init PROVE RowsInv /\ CallsInv /\ LogReplays
  OBVIOUS
<1>1. rows = <<>> /\ durable = InitialState /\ \A w \in Writers : pc[w] = "idle"
  BY DEF Init, Actors
<1>2. rows \in Seq({rows[i] : i \in 1 .. Len(rows)}) /\ DOMAIN rows = 1 .. 0
  BY ONLY <1>1, EmptySeq
<1>3. PICK st : st[0] = Walked(InitialState) /\ st[0] = Replay(rows)
  BY ONLY <1>2, ReplayTrace, 0 \in Nat
<1>4. QED
  BY <1>1, <1>2, <1>3 DEF RowsInv, CallsInv, LogReplays

\* The service's invariant: what the lock and the cache promise, and the log with them.
MachineInv == ServiceInv /\ RowsInv /\ CallsInv /\ LogReplays

LEMMA MachineStep ==
    ASSUME SealsApart, ~Cancels, MachineInv, [Next]_vars
    PROVE  MachineInv'
  BY LockStep, CacheStep, RowsStep, CallsStep, LogStep DEF MachineInv, ServiceInv

LEMMA MachineInvariant ==
    ASSUME SealsApart, ~Cancels
    PROVE  Spec => []MachineInv
<1>1. Init => MachineInv
  BY InitService, InitLog DEF MachineInv
<1>2. MachineInv /\ [Next]_vars => MachineInv'
  BY MachineStep
<1>3. QED
  BY <1>1, <1>2, PTL DEF Spec

\* Every chronicle the service writes replays to the state its accepted calls left,
\* for every declaration that keeps the seals of a transition apart (machine.py:434-494):
\* a row is decided on the durable state, and what replay supplies for its seals can
\* only decide the guards they were accepted by.  Calls that are lost between their
\* commit and their answer are excluded: a row decided after one need not replay.
THEOREM ChronicleReplays ==
    ASSUME SealsApart, ~Cancels
    PROVE  Spec => []LogReplays
<1>1. MachineInv => LogReplays
  BY DEF MachineInv
<1>2. QED
  BY <1>1, MachineInvariant, PTL

\* Memory is the state of the chronicle whenever no row waits to be applied, whatever
\* loads, failed appends and restarts interleave (machine_service.py:121-130).
THEOREM MemoryFollowsChronicle ==
    ASSUME SealsApart, ~Cancels
    PROVE  Spec => []LiveFollowsLog
<1>1. MachineInv => LiveFollowsLog
  BY DEF MachineInv, ServiceInv, CacheInv, LiveFollowsLog
<1>2. QED
  BY <1>1, MachineInvariant, PTL

LEMMA GuardSealed ==
    ASSUME NEW g, g.kind \in GuardKinds, NEW m, NEW c, NEW args, NEW e, NEW f,
           \A r : Sealed(e, r) = Sealed(f, r)
    PROVE  Holds(g, m, Ctx(c, args, e)) <=> Holds(g, m, Ctx(c, args, f))
<1>1. CASE g.kind # "escrow_complete"
  BY <1>1, GuardSame
<1>2. CASE g.kind = "escrow_complete"
  <2>1. Ctx(c, args, e).escrow = e /\ Ctx(c, args, f).escrow = f
    BY DEF Ctx
  <2>2. Resolve(g.round, Ctx(c, args, e), m) = Resolve(g.round, Ctx(c, args, f), m)
    BY ResolveSame
  <2>3. Sealed(e, Resolve(g.round, Ctx(c, args, e), m))
        = Sealed(f, Resolve(g.round, Ctx(c, args, f), m))
    BY ONLY <2>2, \A r : Sealed(e, r) = Sealed(f, r)
  <2>4. QED
    BY ONLY <1>2, <2>1, <2>3 DEF Holds
<1>3. QED
  BY <1>1, <1>2

\* a wake rule is declared with guards of the known kinds
LEMMA RuleGuards ==
    ASSUME NEW w \in Decl.wake
    PROVE  /\ \A i \in DOMAIN w.when : w.when[i].kind \in GuardKinds
           /\ \A i \in DOMAIN w.unless : w.unless[i].kind \in GuardKinds
<1>1. \A g \in ToSet(w.when) \cup ToSet(w.unless) : g.kind \in GuardKinds
  BY DeclAssumption DEF DeclAssumption, WakeDeclared, GuardDeclared
<1>2. QED
  BY <1>1 DEF ToSet

\* A call takes what it needs of the seals by asking who has sealed a round.
LEMMA SealsMatter ==
    ASSUME NEW m, NEW c, NEW e, NEW f, \A r : Sealed(e, r) = Sealed(f, r)
    PROVE  Apply(m, c, e) = Apply(m, c, f)
<1>1. ASSUME NEW guards, \A i \in DOMAIN guards : guards[i].kind \in GuardKinds,
             NEW x, NEW who, NEW args
      PROVE  AllHold(guards, x, Ctx(who, args, e)) <=> AllHold(guards, x, Ctx(who, args, f))
  BY <1>1, GuardSealed DEF AllHold
<1>2. ASSUME NEW x, NEW w \in Decl.wake
      PROVE  /\ AllHold(w.when, x, WakeCtx(e)) <=> AllHold(w.when, x, WakeCtx(f))
             /\ Blocked(w, x, WakeCtx(e)) <=> Blocked(w, x, WakeCtx(f))
  <2>1. /\ AllHold(w.when, x, WakeCtx(e)) <=> AllHold(w.when, x, WakeCtx(f))
        /\ AllHold(w.unless, x, WakeCtx(e)) <=> AllHold(w.unless, x, WakeCtx(f))
    BY <1>1, RuleGuards DEF WakeCtx
  <2>2. QED
    BY ONLY <2>1 DEF Blocked
<1>3. ASSUME NEW new PROVE Accepted(c, m, new, e) = Accepted(c, m, new, f)
  <2>1. RoleWakes(m, new, e) = RoleWakes(m, new, f)
    <3>1. {w \in Decl.wake : /\ w.role # "actor"
                             /\ AllHold(w.when, new, WakeCtx(e)) /\ ~AllHold(w.when, m, WakeCtx(e))
                             /\ ~Blocked(w, new, WakeCtx(e))}
          = {w \in Decl.wake : /\ w.role # "actor"
                               /\ AllHold(w.when, new, WakeCtx(f)) /\ ~AllHold(w.when, m, WakeCtx(f))
                               /\ ~Blocked(w, new, WakeCtx(f))}
      BY ONLY <1>2
    <3>2. QED
      BY ONLY <3>1 DEF RoleWakes
  <2>2. ActorWakes(m, new, e) = ActorWakes(m, new, f)
    <3>1. {w \in Decl.wake : /\ w.role = "actor" /\ new.actor # None /\ new.actor # m.actor
                             /\ AllHold(w.when, new, WakeCtx(e))
                             /\ ~Blocked(w, new, WakeCtx(e))}
          = {w \in Decl.wake : /\ w.role = "actor" /\ new.actor # None /\ new.actor # m.actor
                               /\ AllHold(w.when, new, WakeCtx(f))
                               /\ ~Blocked(w, new, WakeCtx(f))}
      BY ONLY <1>2
    <3>2. QED
      BY ONLY <3>1 DEF ActorWakes
  <2>3. QED
    BY ONLY <2>1, <2>2 DEF Accepted
<1>4. SetValue(m, c, e) = SetValue(m, c, f)
  BY ONLY <1>3 DEF SetValue
<1>5. Act(m, c, e) = Act(m, c, f)
  <2> DEFINE t == Decl.transitions[c.name]
  <2>1. CASE c.name \in DOMAIN Decl.transitions
    <3>1. /\ Len(t.effects) \in Nat /\ DOMAIN t.effects = 1 .. Len(t.effects)
          /\ \A i \in DOMAIN t.guard : t.guard[i].kind \in GuardKinds
      BY <2>1, DeclAssumption DEF DeclAssumption, IsList, TransitionDeclared, GuardDeclared
    <3>2. ApplyAll(t.effects, m, Ctx(c.caller, c.args, e))
          = ApplyAll(t.effects, m, Ctx(c.caller, c.args, f))
      BY <3>1, AppliedSame
    <3>3. AllHold(t.guard, m, Ctx(c.caller, c.args, e))
          <=> AllHold(t.guard, m, Ctx(c.caller, c.args, f))
      BY <1>1, <3>1
    <3>4. QED
      BY ONLY <1>3, <3>2, <3>3 DEF Act
  <2>2. CASE c.name \notin DOMAIN Decl.transitions
    BY ONLY <2>2 DEF Act
  <2>3. QED
    BY <2>1, <2>2
<1>6. QED
  BY ONLY <1>4, <1>5 DEF Apply

\* What a writer has looked up was sealed by then, and a seal stays.
SealsInv ==
    /\ sealed \in [Rounds -> SUBSET Players]
    /\ \A w \in Writers : \A r \in DOMAIN job[w].escrow :
          job[w].escrow[r] \subseteq IF r \in Rounds THEN sealed[r] ELSE {}

LEMMA SealsStep ==
    ASSUME LockInv, SealsInv, [Next]_vars
    PROVE  SealsInv'
<1>1. ASSUME sealed' = sealed,
             \A w \in Writers : job'[w].escrow \in {job[w].escrow, Empty}
      PROVE  SealsInv'
  <2>1. \A w \in Writers : \A r \in DOMAIN job'[w].escrow : job'[w].escrow = job[w].escrow
    BY <1>1 DEF Empty
  <2>2. QED
    BY <1>1, <2>1 DEF SealsInv
<1>2. job = [w \in Writers |-> [call |-> job[w].call, escrow |-> job[w].escrow,
                                out |-> job[w].out]]
  BY DEF LockInv
<1>3. ASSUME NEW x \in Actors, LoadStep(x) PROVE SealsInv'
  <2>1. sealed' = sealed /\ \A w \in Writers : job'[w] \in {job[w], NoJob}
    BY <1>3 DEF LoadStep, LoadQuery, LoadResume, LoadRaises
  <2>2. QED
    BY <1>1, <2>1 DEF NoJob
<1>4. ASSUME NEW w \in Writers, Acquire(w) \/ AppendLands(w) PROVE SealsInv'
  BY <1>1, <1>4 DEF Acquire, AppendLands
<1>5. ASSUME NEW w \in Writers, LookUp(w) PROVE SealsInv'
  <2> DEFINE new(r) == Put(job[w].escrow, r, IF r \in Rounds THEN sealed[r] ELSE {})
  <2>1. PICK r : job' = [job EXCEPT ![w].escrow = new(r)]
    BY <1>5 DEF LookUp
  <2>2. sealed' = sealed
    BY <1>5 DEF LookUp
  <2>3. /\ job'[w].escrow = new(r)
        /\ \A v \in Writers : v # w => job'[v] = job[v]
    BY ONLY <1>2, <2>1, w \in Writers
  <2>4. \A x \in DOMAIN new(r) :
            \/ x = r /\ new(r)[x] = IF r \in Rounds THEN sealed[r] ELSE {}
            \/ x \in DOMAIN job[w].escrow /\ new(r)[x] = job[w].escrow[x]
    BY DEF Put
  <2> HIDE DEF new
  <2>5. QED
    BY <2>2, <2>3, <2>4 DEF SealsInv
<1>6. ASSUME NEW w \in Writers, Decide(w) PROVE SealsInv'
  <2>1. sealed' = sealed /\ \A v \in Writers : job'[v].escrow = job[v].escrow
    BY <1>2, <1>6 DEF Decide
  <2>2. QED
    BY <1>1, <2>1
<1>7. ASSUME NEW w \in Writers, Commit(w) \/ AppendFails(w) PROVE SealsInv'
  <2>1. sealed' = sealed /\ \A v \in Writers : job'[v].escrow \in {job[v].escrow, Empty}
    BY <1>2, <1>7 DEF Commit, AppendFails, Finish, NoJob
  <2>2. QED
    BY <1>1, <2>1
<1>8. ASSUME NEW w \in Writers, NEW c \in Calls, Request(w, c) PROVE SealsInv'
  <2>1. sealed' = sealed /\ \A v \in Writers : job'[v].escrow = job[v].escrow
    BY <1>2, <1>8 DEF Request
  <2>2. QED
    BY <1>1, <2>1
<1>9. ASSUME NEW x \in Readers, ReaderStep(x) PROVE SealsInv'
  <2>1. CASE LoadStep(x)
    BY <1>3, <2>1 DEF Actors
  <2>2. CASE Read(x) \/ LogQuery(x) \/ Respond(x)
    BY <1>1, <2>2 DEF Read, LogQuery, Respond
  <2>3. QED
    BY <1>9, <2>1, <2>2 DEF ReaderStep
<1>10. CASE Restart
  <2>1. sealed' = sealed /\ \A v \in Writers : job'[v].escrow = Empty
    BY <1>10 DEF Restart, NoJob
  <2>2. QED
    BY <1>1, <2>1
<1>11. ASSUME NEW r \in Rounds, NEW a \in Players, Seal(r, a) PROVE SealsInv'
  <2>1. /\ job' = job /\ sealed' \in [Rounds -> SUBSET Players]
        /\ \A x \in Rounds : sealed[x] \subseteq sealed'[x]
    BY <1>11 DEF Seal, SealsInv
  <2>2. QED
    BY <2>1 DEF SealsInv
<1>12. CASE UNCHANGED vars
  BY <1>1, <1>12 DEF vars
<1>13. QED
  BY <1>3, <1>4, <1>5, <1>6, <1>7, <1>8, <1>9, <1>10, <1>11, <1>12
  DEF Next, WriterStep, Actors

\* a row that lands is the engine's outcome on the durable state, on seals that were made
LEMMA RowServed ==
    ASSUME MachineInv, SealsInv, NEW w \in Writers, AppendLands(w)
    PROVE  Serial!SerialNext
<1> DEFINE c == job[w].call
           e == job[w].escrow
           f == [r \in Rounds |-> IF r \in DOMAIN e THEN e[r] ELSE {}]
<1>1. pc[w] = "append" /\ rows' = Append(rows, job[w].out.row) /\ sealed' = sealed
      /\ durable' = IF job[w].out.ok THEN job[w].out.state ELSE durable
  BY DEF AppendLands
<1>2. job[w].out = Apply(durable, c, e)
  BY <1>1 DEF MachineInv, ServiceInv, LockInv, CacheInv, Critical
<1>3. c \in Calls
  BY <1>1 DEF MachineInv, CallsInv
<1>4. f \in [Rounds -> SUBSET Players] /\ \A r \in Rounds : f[r] \subseteq sealed[r]
  BY DEF SealsInv
<1>5. ASSUME NEW r PROVE Sealed(e, r) = Sealed(f, r)
  <2>1. CASE r \in Rounds
    BY <2>1 DEF Sealed
  <2>2. CASE r \notin Rounds
    BY <2>2 DEF Sealed, SealsInv
  <2>3. QED
    BY <2>1, <2>2
<1> HIDE DEF f
<1>6. Apply(durable, c, e) = Apply(durable, c, f)
  BY ONLY <1>5, SealsMatter
<1>7. durable' = Apply(durable, c, f).state
  <2>1. Apply(durable, c, e).ok \/ Apply(durable, c, e).state = durable
    <3>1. \/ \E check : Apply(durable, c, e) = Rejected(c, durable, check)
          \/ \E new : Apply(durable, c, e) = Accepted(c, durable, new, e)
      BY ONLY DEF Apply, Act, SetValue
    <3>2. ASSUME NEW check, Apply(durable, c, e) = Rejected(c, durable, check)
          PROVE  Apply(durable, c, e).state = durable
      BY ONLY <3>2 DEF Rejected
    <3>3. ASSUME NEW new, Apply(durable, c, e) = Accepted(c, durable, new, e)
          PROVE  Apply(durable, c, e).ok
      BY ONLY <3>3 DEF Accepted
    <3>4. QED
      BY ONLY <3>1, <3>2, <3>3
  <2>2. QED
    BY ONLY <1>1, <1>2, <1>6, <2>1
<1>8. rows' = Append(rows, Apply(durable, c, f).row)
  BY <1>1, <1>2, <1>6
<1>9. rows' # rows
  BY <1>8, RowsGrow DEF MachineInv
<1>10. f \in Serial!Seen
  BY <1>4 DEF Serial!Seen
<1>11. Serial!Serve(c)
  BY ONLY <1>1, <1>7, <1>8, <1>9, <1>10 DEF Serial!Serve
<1>12. QED
  BY ONLY <1>3, <1>11 DEF Serial!SerialNext

\* The coroutines, their lock and their loads implement a machine that serves one call at
\* a time: whatever interleaves, fails or restarts, every row is what the engine makes of
\* the state the row before it left, on seals that were made, so a table may take a call
\* for one step (machine_service.py:192-207).
THEOREM ServiceImplementsSerial ==
    ASSUME SealsApart, ~Cancels
    PROVE  Spec => ImplementsSerial
<1> DEFINE I == MachineInv /\ SealsInv
<1>1. Init => SealsInv /\ Serial!SerialInit
  BY DEF Init, SealsInv, Serial!SerialInit, NoJob, Empty
<1>2. I /\ [Next]_vars => SealsInv'
  BY SealsStep DEF MachineInv, ServiceInv
<1>3. I /\ [Next]_vars => [Serial!SerialNext]_(Serial!serialVars)
  <2> SUFFICES ASSUME I, [Next]_vars PROVE Serial!SerialNext \/ UNCHANGED <<durable, rows, sealed>>
    BY DEF Serial!serialVars
  <2>1. ASSUME NEW w \in Writers, AppendLands(w) PROVE Serial!SerialNext
    BY <2>1, RowServed
  <2>2. ASSUME NEW r \in Rounds, NEW a \in Players, Seal(r, a) PROVE Serial!SerialNext
    <3>1. Serial!SealOne(r, a)
      BY <2>2 DEF Seal, chronicle, Serial!SealOne
    <3>2. QED
      BY <3>1 DEF Serial!SerialNext
  <2>3. CASE /\ \A w \in Writers : ~AppendLands(w)
             /\ \A r \in Rounds, a \in Players : ~Seal(r, a)
    <3>1. chronicle' = chronicle
      BY <2>3, RowsFrozen
    <3>2. sealed' = sealed
      BY <2>3 DEF Next, vars, WriterStep, ReaderStep, LoadStep, LoadQuery, LoadResume, LoadRaises,
                  Acquire, LookUp, Decide, Commit, AppendFails, Request, Read, LogQuery, Respond,
                  Restart
    <3>3. QED
      BY <3>1, <3>2 DEF chronicle
  <2>4. QED
    BY <2>1, <2>2, <2>3
<1>4. Spec => []MachineInv
  BY MachineInvariant
<1>5. QED
  BY <1>1, <1>2, <1>3, <1>4, PTL DEF Spec, ImplementsSerial, Serial!SerialSpec

-----------------------------------------------------------------------------
(* Readers.                                                                *)

\* Cursors and answers never run ahead of the chronicle, and a cursor never passes a
\* row its reader may see and was not given.
PageInv ==
    /\ since \in [Readers -> Nat] /\ heard \in [Readers -> Nat]
    /\ got = [x \in Readers |-> got[x]]
    /\ \A x \in Readers : since[x] <= Len(rows) /\ heard[x] <= Len(rows)
    /\ PagingSkipsNothing

\* Between the cursor and the end of the page, every visible row is on the page.
LEMMA PageComplete ==
    ASSUME NEW x \in Readers, since[x] \in Nat, heard[x] \in Nat,
           NEW i \in Visible(x), i <= PageEnd(x)
    PROVE  i \in Page(x)
<1> DEFINE V == Visible(x)
           upto(j) == {k \in V : k <= j}
<1>1. V \subseteq (since[x] + 1) .. heard[x] /\ V \subseteq Nat /\ IsFiniteSet(V)
  <2>1. V \subseteq (since[x] + 1) .. heard[x] /\ (since[x] + 1) .. heard[x] \subseteq Nat
    BY DEF Visible
  <2>2. IsFiniteSet((since[x] + 1) .. heard[x])
    BY FS_Interval
  <2>3. QED
    BY ONLY <2>1, <2>2, FS_Subset
<1>2. Page(x) = {j \in V : Cardinality(upto(j)) <= PageLimit}
  BY DEF Page
<1> HIDE DEF V
<1>3. \A j : IsFiniteSet(upto(j)) /\ Cardinality(upto(j)) \in Nat
  <2> TAKE j
  <2>1. upto(j) \subseteq V
    OBVIOUS
  <2>2. QED
    BY ONLY <1>1, <2>1, FS_Subset, FS_CardinalityType
<1>4. \A j, k \in V : j <= k => Cardinality(upto(j)) <= Cardinality(upto(k))
  <2> SUFFICES ASSUME NEW j \in V, NEW k \in V, j <= k
               PROVE Cardinality(upto(j)) <= Cardinality(upto(k))
    OBVIOUS
  <2>0. \A y \in V : y <= j => y <= k
    BY <1>1
  <2>1. upto(j) \subseteq upto(k)
    BY ONLY <2>0
  <2>2. QED
    BY ONLY <1>3, <2>1, FS_Subset
<1>5. PageLimit \in Nat /\ PageLimit > 0
  BY ServiceAssumption DEF ServiceAssumption
<1>6. IsFiniteSet(Page(x)) /\ Cardinality(Page(x)) \in Nat /\ Page(x) \subseteq V
  <2>1. Page(x) \subseteq V
    BY <1>2
  <2>2. QED
    BY ONLY <1>1, <2>1, FS_Subset, FS_CardinalityType
<1>7. i \in V
  BY DEF V
<1>11. V \subseteq 1 .. heard[x]
  <2>1. \A y \in (since[x] + 1) .. heard[x] : y \in 1 .. heard[x]
    OBVIOUS
  <2>2. QED
    BY ONLY <1>1, <2>1
<1>8. CASE Cardinality(Page(x)) = PageLimit
  <2>1. Page(x) # {}
    BY ONLY <1>5, <1>8, FS_EmptySet
  <2>2. Page(x) \in SUBSET (1 .. heard[x])
    BY ONLY <1>6, <1>11
  <2>3. Max(Page(x)) \in Page(x) /\ \A j \in Page(x) : j <= Max(Page(x))
    BY ONLY <2>1, <2>2, MaxIn, heard[x] \in Nat
  <2>4. PICK top \in Page(x) : top = PageEnd(x)
    BY <1>8, <2>3 DEF PageEnd
  <2>5. i <= top /\ top \in V /\ Cardinality(upto(top)) <= PageLimit
    BY <1>2, <2>4
  <2>6. Cardinality(upto(i)) <= Cardinality(upto(top))
    BY ONLY <1>4, <1>7, <2>5
  <2>7. Cardinality(upto(i)) <= PageLimit
    BY ONLY <1>3, <1>5, <2>5, <2>6
  <2>8. QED
    BY ONLY <1>2, <1>7, <2>7
<1>9. CASE Cardinality(Page(x)) # PageLimit
  <2> SUFFICES ASSUME i \notin Page(x) PROVE FALSE
    OBVIOUS
  <2> DEFINE Off == V \ Page(x)
  <2>1. Off \subseteq Nat /\ Off # {}
    BY <1>1, <1>7
  <2>2. PICK j \in Off : \A k \in Off : j <= k
    BY ONLY <2>1, LeastExists
  <2>3. j \in V /\ j \notin Page(x) /\ Cardinality(upto(j)) > PageLimit
    BY <1>2, <1>3, <1>5, <2>2
  <2>4. upto(j) = Page(x) \cup {j}
    <3>1. ASSUME NEW k \in V, k <= j, k # j PROVE k \in Page(x)
      BY <1>1, <2>2, <2>3, <3>1
    <3>2. ASSUME NEW k \in Page(x) PROVE k \in V /\ k <= j
      <4>1. k \in V /\ Cardinality(upto(k)) <= PageLimit
        BY <1>2
      <4>2. CASE j <= k
        <5>1. Cardinality(upto(j)) <= Cardinality(upto(k))
          BY ONLY <1>4, <2>3, <4>1, <4>2
        <5>2. QED
          BY ONLY <1>3, <1>5, <2>3, <4>1, <5>1
      <4>3. CASE ~(j <= k)
        BY <1>1, <2>3, <4>1, <4>3
      <4>4. QED
        BY <4>2, <4>3
    <3>3. QED
      BY <1>1, <2>3, <3>1, <3>2
  <2>5. Cardinality(Page(x)) + 1 > PageLimit
    <3>1. Cardinality(Page(x) \cup {j}) = Cardinality(Page(x)) + 1
      BY ONLY <1>6, <2>3, FS_AddElement
    <3>2. QED
      BY <2>3, <2>4, <3>1
  <2>6. Cardinality(Page(x)) <= PageLimit
    <3>1. CASE Page(x) = {}
      BY ONLY <1>5, <3>1, FS_EmptySet
    <3>2. CASE Page(x) # {}
      <4>1. Page(x) \in SUBSET (1 .. heard[x])
        BY ONLY <1>6, <1>11
      <4>2. PICK top \in Page(x) : \A k \in Page(x) : k <= top
        BY ONLY <3>2, <4>1, MaxIn, heard[x] \in Nat
      <4>3. Cardinality(upto(top)) <= PageLimit /\ Page(x) \subseteq upto(top)
        BY <1>2, <1>6, <4>2
      <4>4. Cardinality(Page(x)) <= Cardinality(upto(top))
        BY ONLY <1>3, <4>3, FS_Subset
      <4>5. QED
        BY <1>3, <1>5, <1>6, <4>3, <4>4
    <3>3. QED
      BY <3>1, <3>2
  <2>7. QED
    BY <1>5, <1>6, <1>9, <2>5, <2>6
<1>10. QED
  BY <1>8, <1>9

LEMMA PageEndWithin ==
    ASSUME NEW x \in Readers, since[x] \in Nat, heard[x] \in Nat
    PROVE  PageEnd(x) \in Nat /\ PageEnd(x) <= heard[x]
<1>1. Page(x) \in SUBSET (1 .. heard[x])
  BY DEF Page, Visible
<1>2. CASE Cardinality(Page(x)) = PageLimit
  <2>1. Page(x) # {}
    BY ONLY <1>2, ServiceAssumption, FS_EmptySet DEF ServiceAssumption
  <2>2. Max(Page(x)) \in Page(x) /\ \A j \in Page(x) : j <= Max(Page(x))
    BY ONLY <1>1, <2>1, MaxIn, heard[x] \in Nat
  <2>3. PageEnd(x) \in Page(x)
    BY <1>2, <2>2 DEF PageEnd
  <2>4. QED
    BY <1>1, <2>3
<1>3. CASE Cardinality(Page(x)) # PageLimit
  BY <1>3 DEF PageEnd
<1>4. QED
  BY <1>2, <1>3

\* the cursor moves to the end of a page once the page is given
LEMMA RespondPages ==
    ASSUME PageInv, RowsInv, NEW x \in Readers, Respond(x)
    PROVE  PageInv'
<1>1. /\ got' = [got EXCEPT ![x] = @ \cup Page(x)]
      /\ since' = [since EXCEPT ![x] = PageEnd(x)]
      /\ heard' = [heard EXCEPT ![x] = 0] /\ rows' = rows
  BY DEF Respond, chronicle
<1>2. since[x] \in Nat /\ heard[x] \in Nat
  BY DEF PageInv
<1>3. PageEnd(x) \in Nat /\ PageEnd(x) <= heard[x]
  BY <1>2, PageEndWithin
<1>4. /\ since' \in [Readers -> Nat] /\ heard' \in [Readers -> Nat]
      /\ got' = [y \in Readers |-> got'[y]]
      /\ since'[x] = PageEnd(x) /\ heard'[x] = 0 /\ got'[x] = got[x] \cup Page(x)
      /\ \A y \in Readers \ {x} : since'[y] = since[y] /\ heard'[y] = heard[y] /\ got'[y] = got[y]
  BY ONLY <1>1, <1>3, PageInv DEF PageInv
<1>5. \A y \in Readers : since'[y] <= Len(rows') /\ heard'[y] <= Len(rows')
  <2>1. Len(rows) >= heard[x] /\ rows' = rows
    BY <1>1 DEF PageInv
  <2> SUFFICES ASSUME NEW y \in Readers PROVE since'[y] <= Len(rows') /\ heard'[y] <= Len(rows')
    OBVIOUS
  <2>2. CASE y = x
    <3>1. Len(rows) \in Nat
      BY <2>1, LenProperties DEF RowsInv
    <3>2. QED
      BY <1>2, <1>3, <1>4, <2>1, <2>2, <3>1
  <2>3. CASE y # x
    BY <1>1, <1>4, <2>3 DEF PageInv
  <2>4. QED
    BY <2>2, <2>3
<1>6. PagingSkipsNothing'
  <2> SUFFICES ASSUME NEW y \in Readers, NEW i \in 1 .. since'[y], RowShown(rows'[i], y)
               PROVE  i \in got'[y]
    BY DEF PagingSkipsNothing
  <2>1. CASE y # x
    BY <1>1, <1>4, <2>1 DEF PageInv, PagingSkipsNothing
  <2>2. CASE y = x
    <3>1. i \in Nat /\ 1 <= i /\ i <= PageEnd(x) /\ RowShown(rows[i], x)
      BY <1>1, <1>3, <1>4, <2>2
    <3>2. CASE i <= since[x]
      BY <1>2, <1>4, <2>2, <3>1, <3>2 DEF PageInv, PagingSkipsNothing
    <3>3. CASE ~(i <= since[x])
      <4>1. i \in Visible(x)
        BY <1>2, <1>3, <3>1, <3>3 DEF Visible
      <4>2. i \in Page(x)
        BY <1>2, <3>1, <4>1, PageComplete
      <4>3. QED
        BY <1>4, <2>2, <4>2
    <3>4. QED
      BY <3>2, <3>3
  <2>3. QED
    BY <2>1, <2>2
<1>7. QED
  BY <1>4, <1>5, <1>6 DEF PageInv

\* new rows leave what was given as it was
LEMMA GrowthPages ==
    ASSUME PageInv, RowsInv, pages' = pages,
           NEW row, rows' = rows \/ rows' = Append(rows, row),
           heard' \in [Readers -> Nat], \A x \in Readers : heard'[x] <= Len(rows')
    PROVE  PageInv'
<1>1. Len(rows) \in Nat /\ Len(rows') \in Nat /\ Len(rows) <= Len(rows')
      /\ \A i \in 1 .. Len(rows) : rows'[i] = rows[i]
  <2>1. CASE rows' = rows
    BY <2>1, LenProperties DEF RowsInv
  <2>2. CASE rows' = Append(rows, row)
    BY <2>2, RowsGrow
  <2>3. QED
    BY <2>1, <2>2
<1>2. since' = since /\ got' = got
  BY DEF pages
<1>3. \A x \in Readers : since[x] \in Nat /\ since[x] <= Len(rows)
  BY DEF PageInv
<1>4. \A x \in Readers : since'[x] <= Len(rows')
  BY <1>1, <1>2, <1>3
<1>5. PagingSkipsNothing'
  <2> SUFFICES ASSUME NEW x \in Readers, NEW i \in 1 .. since[x], RowShown(rows'[i], x)
               PROVE  i \in got[x]
    BY <1>2 DEF PagingSkipsNothing
  <2>1. i \in 1 .. Len(rows)
    BY <1>1, <1>3
  <2>2. QED
    BY <1>1, <2>1 DEF PageInv, PagingSkipsNothing
<1>6. QED
  BY <1>2, <1>4, <1>5 DEF PageInv

LEMMA PageStep ==
    ASSUME PageInv, RowsInv, [Next]_vars
    PROVE  PageInv'
<1>1. Len(rows) \in Nat
  BY LenProperties DEF RowsInv
<1>2. CASE UNCHANGED <<rows, heard, pages>>
  BY <1>2 DEF PageInv, PagingSkipsNothing, pages
<1>3. ASSUME NEW x \in Readers, LogQuery(x) PROVE PageInv'
  <2>1. heard' = [heard EXCEPT ![x] = Len(rows)] /\ rows' = rows /\ pages' = pages
    BY <1>3 DEF LogQuery, chronicle
  <2>2. heard' \in [Readers -> Nat] /\ \A y \in Readers : heard'[y] <= Len(rows')
    BY <1>1, <2>1 DEF PageInv
  <2>3. QED
    BY <2>1, <2>2, GrowthPages
<1>4. ASSUME NEW x \in Readers, Respond(x) PROVE PageInv'
  BY <1>4, RespondPages
<1>5. ASSUME NEW w \in Writers, AppendLands(w) PROVE PageInv'
  <2>1. rows' = Append(rows, job[w].out.row) /\ heard' = heard /\ pages' = pages
    BY <1>5 DEF AppendLands
  <2>2. Len(rows') = Len(rows) + 1
    BY <2>1, RowsGrow
  <2>3. heard' \in [Readers -> Nat] /\ \A y \in Readers : heard'[y] <= Len(rows')
    BY <1>1, <2>1, <2>2 DEF PageInv
  <2>4. QED
    BY <2>1, <2>3, GrowthPages
<1>6. CASE Restart
  <2>1. heard' = [y \in Readers |-> 0] /\ rows' = rows /\ pages' = pages
    BY <1>6 DEF Restart, chronicle
  <2>2. heard' \in [Readers -> Nat] /\ \A y \in Readers : heard'[y] <= Len(rows')
    BY <1>1, <2>1
  <2>3. QED
    BY <2>1, <2>2, GrowthPages
<1>7. ASSUME NEW x \in Readers, Read(x) PROVE PageInv'
  BY <1>7 DEF Read, chronicle, pages, PageInv, PagingSkipsNothing
<1>8. ASSUME NEW x, LoadStep(x) PROVE PageInv'
  <2>1. UNCHANGED <<rows, heard, pages>>
    BY <1>8 DEF LoadStep, LoadQuery, LoadResume, LoadRaises, chronicle
  <2>2. QED
    BY <1>2, <2>1
<1>9. ASSUME NEW w \in Writers,
             Acquire(w) \/ LookUp(w) \/ Decide(w) \/ Commit(w) \/ AppendFails(w)
      PROVE  PageInv'
  <2>1. UNCHANGED <<rows, heard, pages>>
    BY <1>9 DEF Acquire, LookUp, Decide, Commit, AppendFails, chronicle
  <2>2. QED
    BY <1>2, <2>1
<1>10. ASSUME NEW w \in Writers, NEW c \in Calls, Request(w, c) PROVE PageInv'
  <2>1. UNCHANGED <<rows, heard, pages>>
    BY <1>10 DEF Request, chronicle
  <2>2. QED
    BY <1>2, <2>1
<1>11. ASSUME NEW r \in Rounds, NEW a \in Players, Seal(r, a) PROVE PageInv'
  <2>1. UNCHANGED <<rows, heard, pages>>
    BY <1>11 DEF Seal, chronicle
  <2>2. QED
    BY <1>2, <2>1
<1>12. CASE UNCHANGED vars
  <2>1. UNCHANGED <<rows, heard, pages>>
    BY <1>12 DEF vars, chronicle
  <2>2. QED
    BY <1>2, <2>1
<1>13. QED
  BY <1>3, <1>4, <1>5, <1>6, <1>7, <1>8, <1>9, <1>10, <1>11, <1>12
     DEF Next, WriterStep, ReaderStep

\* Paging through the log skips nothing its reader may see, whatever page limit, cursor
\* and declaration, and whatever is appended or restarted between the log query and
\* the answer (machine_service.py:166-179).
THEOREM PagesSkipNothing == Spec => []PagingSkipsNothing
<1>1. Init => PageInv /\ RowsInv
  <2> SUFFICES ASSUME Init PROVE PageInv /\ RowsInv
    OBVIOUS
  <2>1. /\ rows = <<>> /\ heard = [x \in Readers |-> 0] /\ since = [x \in Readers |-> 0]
        /\ got = [x \in Readers |-> {}]
    BY DEF Init
  <2>2. RowsInv
    BY InitLog
  <2>3. Len(rows) = 0
    BY ONLY <2>1, EmptySeq
  <2>4. PageInv
    BY <2>1, <2>3 DEF PageInv, PagingSkipsNothing
  <2>5. QED
    BY <2>2, <2>4
<1>2. PageInv /\ RowsInv /\ [Next]_vars => PageInv' /\ RowsInv'
  BY PageStep, RowsStep
<1>3. PageInv => PagingSkipsNothing
  BY DEF PageInv
<1>4. QED
  BY <1>1, <1>2, <1>3, PTL DEF Spec

-----------------------------------------------------------------------------
(* The table.                                                              *)

\* The form of a machine state: every effect leaves it as it is.
Shape(m) ==
    /\ m = [state |-> m.state, actor |-> m.actor, sets |-> m.sets, data |-> m.data,
            owned |-> m.owned, revealed |-> m.revealed]
    /\ m.sets = [k \in Decl.sets |-> m.sets[k]]
    /\ m.owned = [k \in Decl.owners |-> m.owned[k]]
    /\ m.revealed = [k \in Decl.owners |-> m.revealed[k]]

\* The pointer is parked, or rests on someone it does not skip.
Ready(m) == m.actor # None => Eligible(m, m.actor)

Mover(e)  == e.kind \in {"advance_actor", "set_actor"}
Retires(e) == e.kind = "add_to" /\ e.key \in Decl.skip

LEMMA InitialShape == Shape(InitialState) /\ Ready(InitialState)
  BY DEF Shape, Ready, InitialState

LEMMA AdvanceLands ==
    ASSUME NEW m, Shape(m)
    PROVE  /\ AdvanceActor(m) = [m EXCEPT !.actor = AdvanceActor(m).actor]
           /\ HasPointer /\ AdvanceActor(m).actor # None => Eligible(m, AdvanceActor(m).actor)
<1> DEFINE n       == Len(Decl.roster)
           over    == Decl.members[Decl.over]
           at      == IF m.actor \in over
                      THEN CHOOSE i \in 1..n : Decl.roster[i] = m.actor ELSE 0
           seat(i) == Decl.roster[((at + i - 1) % n) + 1]
           open    == {i \in 1..n : seat(i) \in over /\ Eligible(m, seat(i))}
           first   == CHOOSE i \in open : \A j \in open : i <= j
<1>1. AdvanceActor(m) = IF ~HasPointer THEN m
                        ELSE [m EXCEPT !.actor = IF open = {} THEN None ELSE seat(first)]
  BY DEF AdvanceActor
<1>2. open # {} => Eligible(m, seat(first))
  <2> SUFFICES ASSUME open # {} PROVE Eligible(m, seat(first))
    OBVIOUS
  <2>1. open \subseteq Nat
    OBVIOUS
  <2>2. \E i \in open : \A j \in open : i <= j
    BY ONLY <2>1, open # {}, LeastExists
  <2>3. first \in open
    BY ONLY <2>2
  <2>4. QED
    BY <2>3
<1> HIDE DEF open, seat, first
<1>3. m = [m EXCEPT !.actor = m.actor]
  BY DEF Shape
<1>4. \A who : [m EXCEPT !.actor = who].actor = who
  BY DEF Shape
<1>5. QED
  BY <1>1, <1>2, <1>3, <1>4

\* what one effect does to the form and to the pointer
LEMMA SeatsWrap ==
    ASSUME NEW n \in Nat, NEW at \in 0 .. n, NEW j \in 1 .. n
    PROVE  \E i \in 1 .. n : ((at + i - 1) % n) + 1 = j
<1>1. (j - 1) % n = j - 1 /\ (j - 1 + n) % n = j - 1
  OBVIOUS
<1>2. PICK i \in 1 .. n : at + i - 1 \in {j - 1, j - 1 + n}
  <2>1. CASE j > at
    <3>1. j - at \in 1 .. n /\ at + (j - at) - 1 = j - 1
      BY <2>1
    <3>2. QED
      BY <3>1
  <2>2. CASE j <= at
    <3>1. j - at + n \in 1 .. n /\ at + (j - at + n) - 1 = j - 1 + n
      BY <2>2
    <3>2. QED
      BY <3>1
  <2>3. QED
    BY <2>1, <2>2
<1>3. (at + i - 1) % n = j - 1
  BY ONLY <1>1, <1>2
<1>4. ((at + i - 1) % n) + 1 = j
  BY ONLY <1>3, j \in 1 .. n, n \in Nat
<1>5. QED
  BY <1>4

\* The pointer parks only when there is nobody left whom it does not skip: the rotation
\* comes round to every member of its role.
LEMMA AdvanceParks ==
    ASSUME NEW m, Shape(m), HasPointer, AdvanceActor(m).actor = None
    PROVE  \A a \in Decl.members[Decl.over] : ~Eligible(m, a)
<1> DEFINE n       == Len(Decl.roster)
           over    == Decl.members[Decl.over]
           at      == IF m.actor \in over
                      THEN CHOOSE i \in 1..n : Decl.roster[i] = m.actor ELSE 0
           seat(i) == Decl.roster[((at + i - 1) % n) + 1]
           open    == {i \in 1..n : seat(i) \in over /\ Eligible(m, seat(i))}
           first   == CHOOSE i \in open : \A j \in open : i <= j
<1>1. AdvanceActor(m) = [m EXCEPT !.actor = IF open = {} THEN None ELSE seat(first)]
  BY DEF AdvanceActor
<1>2. n \in Nat /\ DOMAIN Decl.roster = 1 .. n
  BY DeclAssumption DEF DeclAssumption, RolesBound, IsList
<1>3. None \notin over /\ \A a \in over : \E j \in 1 .. n : Decl.roster[j] = a
  <2>1. Decl.over \in RoleNames
    BY DeclAssumption DEF DeclAssumption, Structured, HasPointer
  <2>2. over \subseteq ToSet(Decl.roster) /\ None \notin ToSet(Decl.roster)
    BY <2>1, DeclAssumption DEF DeclAssumption, RolesBound
  <2>3. QED
    BY <1>2, <2>2 DEF ToSet
<1>4. at \in 0 .. n
  <2>1. CASE m.actor \in over
    <3>1. \E i \in 1 .. n : Decl.roster[i] = m.actor
      BY <1>3, <2>1
    <3>2. at \in 1 .. n
      BY <2>1, <3>1
    <3>3. QED
      BY <1>2, <3>2
  <2>2. CASE m.actor \notin over
    BY <1>2, <2>2
  <2>3. QED
    BY <2>1, <2>2
<1> HIDE DEF at, over, n
<1>5. open = {}
  <2> SUFFICES ASSUME open # {} PROVE FALSE
    OBVIOUS
  <2>1. open \subseteq Nat
    BY <1>2
  <2>2. \E i \in open : \A j \in open : i <= j
    BY ONLY <2>1, open # {}, LeastExists
  <2>3. first \in open
    BY ONLY <2>2
  <2>4. seat(first) # None
    BY <1>3, <2>3
  <2> HIDE DEF seat, open, first
  <2>5. AdvanceActor(m).actor = seat(first)
    BY <1>1 DEF Shape
  <2>6. QED
    BY <2>4, <2>5
<1>6. ASSUME NEW a \in over, Eligible(m, a) PROVE FALSE
  <2>1. PICK j \in 1 .. n : Decl.roster[j] = a
    BY <1>3
  <2>2. PICK i \in 1 .. n : ((at + i - 1) % n) + 1 = j
    BY <1>2, <1>4, SeatsWrap
  <2>3. seat(i) = a
    BY <2>1, <2>2
  <2>4. i \in open
    BY <1>6, <2>3
  <2>5. QED
    BY <1>5, <2>4
<1>7. QED
  BY <1>6 DEF over

LEMMA EffectMoves ==
    ASSUME NEW m, Shape(m), NEW e, e.kind \in EffectKinds, NEW ctx,
           NEW x, x = ApplyEffect(e, m, ctx), x # Refused
    PROVE  /\ Shape(x)
           /\ Mover(e) /\ HasPointer => Ready(x)
           /\ Ready(m) /\ (~Retires(e) \/ ~HasPointer) => Ready(x)
<1>0. Decl.skip \subseteq Decl.sets
  BY DeclAssumption DEF DeclAssumption, Structured
<1> DEFINE who == Resolve(e.value, ctx, m)
<1>1. CASE e.kind = "advance_actor"
  <2>1. x = AdvanceActor(m)
    BY <1>1 DEF ApplyEffect
  <2>2. x = [m EXCEPT !.actor = x.actor] /\ (HasPointer /\ x.actor # None => Eligible(m, x.actor))
    BY <2>1, AdvanceLands
  <2>3. ~HasPointer => x = m
    BY <2>1 DEF AdvanceActor
  <2>4. Shape(x) /\ x.sets = m.sets
    BY <2>2 DEF Shape
  <2>5. Ready(x) \/ ~HasPointer
    BY <2>2, <2>4 DEF Ready, Eligible
  <2>6. QED
    BY <2>3, <2>4, <2>5
<1>2. CASE e.kind = "set_actor"
  <2>1. x = SetActor(m, who)
    BY <1>2 DEF ApplyEffect
  <2>2. x = [m EXCEPT !.actor = who] /\ (who # None => Eligible(m, who))
    BY <2>1 DEF SetActor
  <2> HIDE DEF who
  <2>3. Shape(x) /\ x.sets = m.sets /\ x.actor = who
    BY <2>2 DEF Shape
  <2>4. Ready(x)
    BY <2>2, <2>3 DEF Ready, Eligible
  <2>5. QED
    BY <2>3, <2>4
<1>3. CASE e.kind = "add_to"
  <2>1. x = [m EXCEPT !.sets[e.key] = @ \cup {who}]
    BY <1>3 DEF ApplyEffect
  <2> HIDE DEF who
  <2>2. /\ x.actor = m.actor
        /\ x.sets = [m.sets EXCEPT ![e.key] = m.sets[e.key] \cup {who}]
    BY <2>1 DEF Shape
  <2>3. Shape(x)
    BY <2>1 DEF Shape
  <2>4. ASSUME Ready(m), ~Retires(e) PROVE Ready(x)
    <3>1. \A k \in Decl.skip : x.sets[k] = m.sets[k]
      BY <1>0, <1>3, <2>2, <2>4 DEF Retires, Shape
    <3>2. QED
      BY <2>2, <2>4, <3>1 DEF Ready, Eligible
  <2>5. Ready(m) /\ ~HasPointer => Ready(x)
    BY <2>2 DEF Ready, Eligible
  <2>6. QED
    BY <1>3, <2>3, <2>4, <2>5 DEF Mover
<1>4. CASE e.kind = "remove_from"
  <2>1. x = [m EXCEPT !.sets[e.key] = @ \ {who}]
    BY <1>4 DEF ApplyEffect
  <2> HIDE DEF who
  <2>2. /\ x.actor = m.actor
        /\ x.sets = [m.sets EXCEPT ![e.key] = m.sets[e.key] \ {who}]
    BY <2>1 DEF Shape
  <2>3. Shape(x)
    BY <2>1 DEF Shape
  <2>4. \A k \in Decl.skip : x.sets[k] \subseteq m.sets[k]
    BY <1>0, <2>2 DEF Shape
  <2>5. Ready(m) => Ready(x)
    BY <2>2, <2>4 DEF Ready, Eligible
  <2>6. QED
    BY <1>4, <2>3, <2>5 DEF Mover
<1>5. CASE e.kind = "reset"
  <2>1. x = [m EXCEPT !.sets[e.key] = {}]
    BY <1>5 DEF ApplyEffect
  <2>2. x.actor = m.actor /\ x.sets = [m.sets EXCEPT ![e.key] = {}]
    BY <2>1 DEF Shape
  <2>3. Shape(x)
    BY <2>1 DEF Shape
  <2>4. \A k \in Decl.skip : x.sets[k] \subseteq m.sets[k]
    BY <1>0, <2>2 DEF Shape
  <2>5. Ready(m) => Ready(x)
    BY <2>2, <2>4 DEF Ready, Eligible
  <2>6. QED
    BY <1>5, <2>3, <2>5 DEF Mover
<1>6. CASE e.kind = "set" \/ e.kind = "unset"
  <2>1. PICK d : x = [m EXCEPT !.data = d]
    <3>1. CASE e.kind = "set"
      <4>1. x = [m EXCEPT !.data = Put(m.data, e.key, who)]
        BY <3>1 DEF ApplyEffect
      <4>2. QED
        BY ONLY <4>1
    <3>2. CASE e.kind = "unset"
      <4>1. x = [m EXCEPT !.data = Restrict(m.data, DOMAIN m.data \ {e.key})]
        BY <3>2 DEF ApplyEffect
      <4>2. QED
        BY ONLY <4>1
    <3>3. QED
      BY <1>6, <3>1, <3>2
  <2>2. Shape(x) /\ x.actor = m.actor /\ x.sets = m.sets
    BY <2>1 DEF Shape
  <2>3. QED
    BY <1>6, <2>2 DEF Ready, Eligible, Mover
<1>7. CASE e.kind = "reveal"
  <2>1. PICK o : x = [m EXCEPT !.revealed[e.key] = o]
    BY <1>7 DEF ApplyEffect
  <2>2. Shape(x)
    BY <2>1 DEF Shape
  <2>3. x.actor = m.actor /\ x.sets = m.sets
    BY <2>1 DEF Shape
  <2>4. QED
    BY <1>7, <2>2, <2>3 DEF Ready, Eligible, Mover
<1>8. QED
  BY <1>1, <1>2, <1>3, <1>4, <1>5, <1>6, <1>7 DEF EffectKinds

\* a transition whose retiring effects are followed by a mover leaves the pointer ready
LEMMA AppliedMoves ==
    ASSUME NEW effects, IsList(effects), \A i \in DOMAIN effects : effects[i].kind \in EffectKinds,
           NEW m, Shape(m), NEW ctx, NEW done, done = ApplyAll(effects, m, ctx), done # Refused
    PROVE  /\ Shape(done)
           /\ Ready(m) /\ (\A i \in DOMAIN effects : Retires(effects[i]) =>
                              \E j \in DOMAIN effects : j > i /\ Mover(effects[j]))
              => Ready(done)
           /\ Len(effects) # 0 =>
                 \E y : Shape(y) /\ done = ApplyEffect(effects[Len(effects)], y, ctx)
<1> DEFINE n == Len(effects)
<1>0. n \in Nat /\ DOMAIN effects = 1 .. n /\ n = Len(effects)
  BY DEF IsList
<1> HIDE DEF n
<1>1. PICK st : Applies(st, effects, m, ctx, n)
  BY <1>0, AppliedTrace
<1>2. /\ st[0] = m /\ st[n] = done
      /\ \A i \in 1 .. n : st[i] # Refused =>
            st[i - 1] # Refused /\ st[i] = ApplyEffect(effects[i], st[i - 1], ctx)
  BY <1>1 DEF Applies
<1> DEFINE Waits(i) == HasPointer /\ \E k \in 1 .. i :
                          Retires(effects[k]) /\ \A j \in (k + 1) .. i : ~Mover(effects[j])
           Good(i) == st[i] # Refused =>
                         Shape(st[i]) /\ (Ready(m) => Ready(st[i]) \/ Waits(i))
           Bad == {i \in 0 .. n : ~Good(i)}
<1>3. Bad = {}
  <2> SUFFICES ASSUME Bad # {} PROVE FALSE
    OBVIOUS
  <2>1. Bad \subseteq Nat
    OBVIOUS
  <2>2. PICK i \in Bad : \A j \in Bad : i <= j
    BY ONLY <2>1, Bad # {}, LeastExists
  <2>3. i \in 0 .. n /\ ~Good(i)
    OBVIOUS
  <2>4. Good(0)
    BY <1>2
  <2>5. i \in Nat /\ i # 0 /\ i \in 1 .. n /\ i - 1 \in Nat /\ i - 1 \in 0 .. n
    BY <1>0, <2>3, <2>4
  <2>6. i - 1 \notin Bad
    BY <2>2, <2>5
  <2>7. Good(i - 1)
    BY ONLY <2>5, <2>6
  <2>8. /\ st[i] # Refused /\ st[i - 1] # Refused /\ Shape(st[i - 1])
        /\ st[i] = ApplyEffect(effects[i], st[i - 1], ctx)
        /\ Ready(m) => Ready(st[i - 1]) \/ Waits(i - 1)
    BY <1>2, <2>3, <2>5, <2>7
  <2> HIDE DEF Waits, Bad
  <2>9. /\ Shape(st[i])
        /\ Mover(effects[i]) /\ HasPointer => Ready(st[i])
        /\ Ready(st[i - 1]) /\ (~Retires(effects[i]) \/ ~HasPointer) => Ready(st[i])
    <3>1. effects[i].kind \in EffectKinds
      BY <1>0, <2>5
    <3>2. QED
      BY ONLY <2>8, <3>1, EffectMoves
  <2>10. Retires(effects[i]) /\ HasPointer => Waits(i)
    BY <2>5 DEF Waits
  <2>11. Waits(i - 1) /\ ~Mover(effects[i]) => Waits(i)
    <3> SUFFICES ASSUME Waits(i - 1), ~Mover(effects[i]) PROVE Waits(i)
      OBVIOUS
    <3>1. PICK k \in 1 .. (i - 1) : /\ Retires(effects[k])
                                    /\ \A j \in (k + 1) .. (i - 1) : ~Mover(effects[j])
      BY DEF Waits
    <3>2. k \in 1 .. i /\ \A j \in (k + 1) .. i : j = i \/ j \in (k + 1) .. (i - 1)
      BY <2>5
    <3>3. QED
      BY <3>1, <3>2 DEF Waits
  <2>12. Waits(i - 1) => HasPointer
    BY DEF Waits
  <2>13. QED
    BY <2>3, <2>8, <2>9, <2>10, <2>11, <2>12
<1>4. Good(n)
  BY <1>0, <1>3
<1>5. ASSUME \A i \in DOMAIN effects : Retires(effects[i]) =>
                \E j \in DOMAIN effects : j > i /\ Mover(effects[j])
      PROVE  ~Waits(n)
  <2> SUFFICES ASSUME Waits(n) PROVE FALSE
    OBVIOUS
  <2>1. PICK k \in 1 .. n : Retires(effects[k]) /\ \A j \in (k + 1) .. n : ~Mover(effects[j])
    OBVIOUS
  <2>2. PICK j \in 1 .. n : j > k /\ Mover(effects[j])
    BY <1>0, <1>5, <2>1
  <2>3. j \in (k + 1) .. n
    BY <1>0, <2>2
  <2>4. QED
    BY <2>1, <2>2, <2>3
<1> HIDE DEF Waits
<1>6. ASSUME n # 0 PROVE Shape(st[n - 1]) /\ done = ApplyEffect(effects[n], st[n - 1], ctx)
  <2>1. n \in 1 .. n /\ n - 1 \in 0 .. n
    BY <1>0, <1>6
  <2>2. Good(n - 1)
    BY <1>3, <2>1
  <2>3. QED
    BY <1>2, <2>1, <2>2
<1>7. QED
  BY <1>0, <1>2, <1>4, <1>5, <1>6

\* what one call does to the form and to the pointer, for the table as for the service
LEMMA ApplyMoves ==
    ASSUME NEW m, Shape(m), NEW call, NEW escrow
    PROVE  /\ Shape(Apply(m, call, escrow).state)
           /\ MovesOn /\ Ready(m) => Ready(Apply(m, call, escrow).state)
<1> DEFINE x == Apply(m, call, escrow).state
<1>1. CASE call.op = "act"
  <2> DEFINE t    == Decl.transitions[call.name]
             done == ApplyAll(t.effects, m, Ctx(call.caller, call.args, escrow))
  <2>1. \/ x = m
        \/ /\ call.name \in DOMAIN Decl.transitions /\ done # Refused
           /\ x = IF t.to = "same" THEN done ELSE [done EXCEPT !.state = t.to]
    BY <1>1 DEF Apply, Act, Rejected, Accepted
  <2> HIDE DEF x
  <2>2. CASE x = m
    BY <2>2 DEF x
  <2>3. CASE call.name \in DOMAIN Decl.transitions /\ done # Refused
             /\ x = IF t.to = "same" THEN done ELSE [done EXCEPT !.state = t.to]
    <3>1. IsList(t.effects) /\ \A i \in DOMAIN t.effects : t.effects[i].kind \in EffectKinds
      BY <2>3, DeclAssumption DEF DeclAssumption, TransitionDeclared, EffectDeclared
    <3>2. MovesOn => \A i \in DOMAIN t.effects : Retires(t.effects[i]) =>
                         \E j \in DOMAIN t.effects : j > i /\ Mover(t.effects[j])
      BY <2>3 DEF MovesOn, Retires, Mover
    <3> HIDE DEF t
    <3>3. Shape(done) /\ (MovesOn /\ Ready(m) => Ready(done))
      BY <2>3, <3>1, <3>2, AppliedMoves
    <3> HIDE DEF done
    <3>4. PICK z : x = done \/ x = [done EXCEPT !.state = z]
      BY <2>3
    <3>5. Shape(x) /\ x.actor = done.actor /\ x.sets = done.sets
      BY <3>3, <3>4 DEF Shape
    <3>6. QED
      BY <3>3, <3>5 DEF Ready, Eligible, x
  <2>4. QED
    BY <2>1, <2>2, <2>3
<1>2. CASE call.op # "act"
  <2>1. x = m \/ x = Written(m, call)
    BY <1>2 DEF Apply, SetValue, Rejected, Accepted
  <2> HIDE DEF x
  <2>2. CASE x = Written(m, call)
    <3>1. PICK o, v, d : \/ x = [m EXCEPT !.data = d]
                         \/ x = [m EXCEPT !.owned[call.key] = o, !.revealed[call.key] = v]
      <4>1. CASE call.owner = None
        <5>1. x = [m EXCEPT !.data = Put(m.data, call.key, call.value)]
          BY <2>2, <4>1 DEF Written
        <5>2. QED
          BY ONLY <5>1
      <4>2. CASE call.owner # None
        <5>1. x = [m EXCEPT
                     !.owned[call.key] = Put(m.owned[call.key], call.owner, call.value),
                     !.revealed[call.key] = m.revealed[call.key] \ {call.owner}]
          BY <2>2, <4>2 DEF Written, Shape
        <5>2. QED
          BY ONLY <5>1
      <4>3. QED
        BY <4>1, <4>2
    <3>2. Shape(x) /\ x.actor = m.actor /\ x.sets = m.sets
      BY <3>1 DEF Shape
    <3>3. QED
      BY <3>2 DEF Ready, Eligible, x
  <2>3. CASE x = m
    BY <2>3 DEF x
  <2>4. QED
    BY <2>1, <2>2, <2>3
<1>3. QED
  BY <1>1, <1>2

\* Only a call moves the table.
LEMMA TableMoves ==
    ASSUME [TableNext]_tableVars
    PROVE  \/ \E c \in TableCalls : Call(c)
           \/ table' = table /\ disclosed' = disclosed
  BY DEF TableNext, Deliver, TakeUp, Mention, Nudge, MentionFails, tableVars

LEMMA CallMoves ==
    ASSUME NEW c \in TableCalls, Call(c)
    PROVE  table' = Apply(table, c, Empty).state
  BY DEF Call

\* The pointer never rests on someone it is meant to skip, for every declaration that
\* moves the pointer after it retires someone: whatever is raised, folded, reopened or
\* written, whoever holds the pointer can move (machine.py, advance_actor, set_actor).
THEOREM PointerCanMove ==
    ASSUME MovesOn
    PROVE  TableSpec => []ActorCanMove
<1> DEFINE I == Shape(table) /\ Ready(table)
<1>1. TableInit => I
  BY InitialShape DEF TableInit
<1>2. I /\ [TableNext]_tableVars => I'
  <2> SUFFICES ASSUME I, [TableNext]_tableVars PROVE I'
    OBVIOUS
  <2>1. CASE table' = table
    BY <2>1 DEF Shape, Ready, Eligible
  <2>2. ASSUME NEW c \in TableCalls, Call(c) PROVE I'
    <3>1. table' = Apply(table, c, Empty).state
      BY <2>2, CallMoves
    <3>2. Shape(Apply(table, c, Empty).state) /\ Ready(Apply(table, c, Empty).state)
      BY ApplyMoves
    <3>3. Shape(table') /\ Ready(table')
      BY ONLY <3>1, <3>2
    <3>4. QED
      BY ONLY <3>3 DEF Shape, Ready, Eligible
  <2>3. QED
    BY <2>1, <2>2, TableMoves
<1>3. I => ActorCanMove
  BY DEF Ready, ActorCanMove
<1>4. QED
  BY <1>1, <1>2, <1>3, PTL DEF TableSpec

\* What is on show was disclosed by a reveal.
Shown == \A k \in Decl.owners : \A a \in table.revealed[k] \cap DOMAIN table.owned[k] :
            <<k, a, table.owned[k][a]>> \in disclosed

LEMMA CallShows ==
    ASSUME Shape(table), Shown, NEW c \in TableCalls, Call(c)
    PROVE  Shown'
<1> DEFINE x == Apply(table, c, Empty).state
<1>1. table' = x
  BY CallMoves
<1>2. CASE c.op = "act"
  <2> DEFINE on(k) == {<<k, a, x.owned[k][a]>> : a \in x.revealed[k] \cap DOMAIN x.owned[k]}
  <2>1. disclosed' = disclosed \cup UNION {on(k) : k \in Decl.owners}
    BY <1>2 DEF Call
  <2> HIDE DEF x
  <2>2. ASSUME NEW k \in Decl.owners, NEW a \in x.revealed[k] \cap DOMAIN x.owned[k]
        PROVE  <<k, a, x.owned[k][a]>> \in disclosed'
    <3>1. <<k, a, x.owned[k][a]>> \in on(k)
      OBVIOUS
    <3> HIDE DEF on
    <3>2. QED
      BY ONLY <2>1, <3>1, k \in Decl.owners
  <2>3. QED
    BY ONLY <1>1, <2>2 DEF Shown
<1>3. CASE c.op # "act"
  <2>1. disclosed' = disclosed \cup {}
    BY <1>3 DEF Call
  <2>2. x = table \/ (x = Written(table, c) /\ (c.owner # None => c.key \in Decl.owners))
    BY <1>3 DEF Apply, SetValue, Rejected, Accepted
  <2> HIDE DEF x
  <2>3. CASE x = table
    BY <1>1, <2>1, <2>3 DEF Shown
  <2>4. CASE x = Written(table, c) /\ c.owner = None
    <3>1. x.owned = table.owned /\ x.revealed = table.revealed
      BY <2>4 DEF Written, Shape
    <3>2. QED
      BY <1>1, <2>1, <3>1 DEF Shown
  <2>5. CASE x = Written(table, c) /\ c.owner # None /\ c.key \in Decl.owners
    <3> DEFINE mine == Put(table.owned[c.key], c.owner, c.value)
    <3>1. /\ x.owned = [table.owned EXCEPT ![c.key] = mine]
          /\ x.revealed = [table.revealed EXCEPT ![c.key] = table.revealed[c.key] \ {c.owner}]
      BY <2>5 DEF Written, Shape
    <3>2. DOMAIN mine = {c.owner} \cup DOMAIN table.owned[c.key]
          /\ \A a \in DOMAIN table.owned[c.key] : a # c.owner => mine[a] = table.owned[c.key][a]
      BY DEF Put
    <3> HIDE DEF mine
    <3>3. ASSUME NEW k \in Decl.owners, NEW a \in x.revealed[k] \cap DOMAIN x.owned[k]
          PROVE  <<k, a, x.owned[k][a]>> \in disclosed
      <4>1. CASE k = c.key
        <5>1. x.owned[k] = mine /\ x.revealed[k] = table.revealed[k] \ {c.owner}
          BY <3>1, <4>1 DEF Shape
        <5>2. a # c.owner /\ a \in table.revealed[k] \cap DOMAIN table.owned[k]
              /\ x.owned[k][a] = table.owned[k][a]
          BY <3>2, <3>3, <4>1, <5>1
        <5>3. QED
          BY <5>2 DEF Shown
      <4>2. CASE k # c.key
        <5>1. x.owned[k] = table.owned[k] /\ x.revealed[k] = table.revealed[k]
          BY <3>1, <4>2 DEF Shape
        <5>2. QED
          BY <3>3, <5>1 DEF Shown
      <4>3. QED
        BY <4>1, <4>2
    <3>4. QED
      BY <1>1, <2>1, <3>3 DEF Shown
  <2>6. QED
    BY <2>2, <2>3, <2>4, <2>5
<1>4. QED
  BY <1>2, <1>3

\* A value written after a reveal is a secret again, for every declaration: nobody but
\* its owner and the referee reads a value that no reveal has shown
\* (set_value, machine.py:350-355).
THEOREM SecretsStayHidden == TableSpec => []FreshSecretsHidden
<1> DEFINE I == Shape(table) /\ Shown
<1>1. TableInit => I
  <2> SUFFICES ASSUME TableInit PROVE Shape(table) /\ Shown
    OBVIOUS
  <2>1. table = InitialState
    BY DEF TableInit
  <2>2. Shape(table)
    BY <2>1, InitialShape
  <2>3. \A k \in Decl.owners : table.revealed[k] = {}
    BY <2>1 DEF InitialState
  <2>4. QED
    BY <2>2, <2>3 DEF Shown
<1>2. I /\ [TableNext]_tableVars => I'
  <2> SUFFICES ASSUME I, [TableNext]_tableVars PROVE I'
    OBVIOUS
  <2>1. CASE table' = table /\ disclosed' = disclosed
    BY <2>1 DEF Shape, Shown
  <2>2. ASSUME NEW c \in TableCalls, Call(c) PROVE I'
    <3>1. table' = Apply(table, c, Empty).state
      BY <2>2, CallMoves
    <3>2. Shape(Apply(table, c, Empty).state)
      BY ApplyMoves
    <3>3. Shape(table')
      BY ONLY <3>1, <3>2
    <3>4. Shown'
      BY <2>2, CallShows
    <3>5. QED
      BY ONLY <3>3, <3>4 DEF Shape
  <2>3. QED
    BY <2>1, <2>2, TableMoves
<1>3. I => FreshSecretsHidden
  <2> SUFFICES ASSUME I, NEW p \in Members, ~IsReferee(p), NEW k \in Decl.owners,
                      NEW a \in DOMAIN View(table, p).owned[k], a # p
               PROVE  <<k, a, table.owned[k][a]>> \in disclosed
    BY DEF FreshSecretsHidden
  <2>1. a \in DOMAIN table.owned[k] /\ a \in table.revealed[k]
    BY DEF View, Restrict
  <2>2. QED
    BY <2>1 DEF Shown
<1>4. QED
  BY <1>1, <1>2, <1>3, PTL DEF TableSpec

-----------------------------------------------------------------------------
(* The wakes.                                                              *)

FreshInv == fresh \in Seq({fresh[i] : i \in 1 .. Len(fresh)})

\* Only an act moves the pointer, and the newest act left it where it is.
ActRows ==
    /\ \A i \in 1 .. Len(fresh) : fresh[i].wakeActor # {} => fresh[i].op = "act"
    /\ \A i \in 1 .. Len(fresh) :
          /\ fresh[i].op = "act"
          /\ \A j \in 1 .. Len(fresh) : fresh[j].op = "act" => j <= i
          => fresh[i].actor = table.actor

\* Whom the host will mention for the stamps of a role rule, and of the actor's.
RoleStamped(a)  == a \in pending \/ \E i \in 1 .. Len(fresh) : a \in fresh[i].wake
ActorStamped(a) == a \in pending \/ \E i \in 1 .. Len(fresh) : a \in fresh[i].wakeActor

Served(d) == IF d[1] = "role" THEN RoleStamped(d[2])
             ELSE d[2] = table.actor /\ ActorStamped(d[2])

OwedInv == \A d \in owed : Served(d)

WakeInv == Shape(table) /\ FreshInv /\ ActRows /\ OwedInv

\* what the row of a call says of the state the call leaves
LEMMA CallRow ==
    ASSUME NEW m, Shape(m), NEW c, NEW out, out = Apply(m, c, Empty)
    PROVE  \/ out.state = m /\ out.row.op = "reject" /\ out.row.wakeActor = {}
           \/ /\ out.row.op = c.op /\ out.row.actor = out.state.actor
              /\ out.row.wake = RoleWakes(m, out.state, Empty)
              /\ out.row.wakeActor = ActorWakes(m, out.state, Empty)
              /\ c.op # "act" => out.state.actor = m.actor
<1>1. \/ \E check : out = Rejected(c, m, check)
      \/ \E new : out = Accepted(c, m, new, Empty) /\ (c.op # "act" => new = Written(m, c))
  <2>1. CASE c.op = "act"
    <3>1. out = Act(m, c, Empty)
      BY <2>1 DEF Apply
    <3>2. \/ \E check : out = Rejected(c, m, check)
          \/ \E new : out = Accepted(c, m, new, Empty)
      BY ONLY <3>1 DEF Act
    <3>3. QED
      BY <2>1, <3>2
  <2>2. CASE c.op # "act"
    <3>1. out = SetValue(m, c, Empty)
      BY <2>2 DEF Apply
    <3>2. QED
      BY ONLY <3>1 DEF SetValue
  <2>3. QED
    BY <2>1, <2>2
<1>2. ASSUME NEW check, out = Rejected(c, m, check)
      PROVE  out.state = m /\ out.row.op = "reject" /\ out.row.wakeActor = {}
  BY <1>2 DEF Rejected
<1>3. ASSUME NEW new, out = Accepted(c, m, new, Empty), c.op # "act" => new = Written(m, c)
      PROVE  /\ out.row.op = c.op /\ out.row.actor = out.state.actor
             /\ out.row.wake = RoleWakes(m, out.state, Empty)
             /\ out.row.wakeActor = ActorWakes(m, out.state, Empty)
             /\ c.op # "act" => out.state.actor = m.actor
  <2>1. Written(m, c).actor = m.actor
    BY DEF Written, Shape
  <2>2. out.state = new /\ out.row.op = c.op /\ out.row.actor = new.actor
        /\ out.row.wake = RoleWakes(m, new, Empty)
        /\ out.row.wakeActor = ActorWakes(m, new, Empty)
    BY ONLY <1>3 DEF Accepted
  <2>3. QED
    BY <1>3, <2>1, <2>2
<1>4. QED
  BY <1>1, <1>2, <1>3

\* the rule whose edge makes someone due is the one whose stamp the row carries
LEMMA DueIsStamped ==
    ASSUME RolesPlain, NEW m, NEW new, NEW d \in Due(m, new)
    PROVE  \/ d[1] = "role" /\ d[2] \in RoleWakes(m, new, Empty) /\ new # m
           \/ d[1] # "role" /\ d[2] = new.actor /\ d[2] \in ActorWakes(m, new, Empty) /\ new # m
<1> DEFINE edges == {w \in RoleRules : On(w, new) /\ ~On(w, m)}
           moves == {w \in Decl.wake \ RoleRules : new.actor \notin {None, m.actor} /\ On(w, new)}
<1>1. \/ d \in {"role"} \X UNION {Decl.members[w.role] : w \in edges}
      \/ d \in {<<"actor", new.actor>> : w \in moves}
  <2> HIDE DEF edges, moves
  <2>1. d \in ({"role"} \X UNION {Decl.members[w.role] : w \in edges})
                  \cup {<<"actor", new.actor>> : w \in moves}
    BY DEF Due, edges, moves
  <2>2. QED
    BY <2>1
<1>2. ASSUME d \in {"role"} \X UNION {Decl.members[w.role] : w \in edges}
      PROVE  d[1] = "role" /\ d[2] \in RoleWakes(m, new, Empty) /\ new # m
  <2>1. d[1] = "role" /\ d[2] \in UNION {Decl.members[w.role] : w \in edges}
    BY ONLY <1>2
  <2>2. PICK w \in edges : d[2] \in Decl.members[w.role]
    BY ONLY <2>1
  <2>3. w \in Decl.wake /\ w.role # "actor" /\ On(w, new) /\ ~On(w, m)
    BY DEF RoleRules
  <2>4. \A z : ~Blocked(w, z, WakeCtx(Empty))
    BY <2>3 DEF RolesPlain, RoleRules, Blocked
  <2>5. AllHold(w.when, new, WakeCtx(Empty)) /\ ~AllHold(w.when, m, WakeCtx(Empty))
    BY <2>3, <2>4 DEF On
  <2>6. d[2] \in RoleWakes(m, new, Empty)
    BY ONLY <2>2, <2>3, <2>4, <2>5 DEF RoleWakes
  <2>7. QED
    BY <2>1, <2>3, <2>6
<1>3. ASSUME d \in {<<"actor", new.actor>> : w \in moves}
      PROVE  d[1] # "role" /\ d[2] = new.actor /\ d[2] \in ActorWakes(m, new, Empty) /\ new # m
  <2>1. PICK w \in moves : d = <<"actor", new.actor>>
    BY ONLY <1>3
  <2>2. /\ w \in Decl.wake /\ w.role = "actor" /\ new.actor # None /\ new.actor # m.actor
        /\ AllHold(w.when, new, WakeCtx(Empty)) /\ ~Blocked(w, new, WakeCtx(Empty))
    BY DEF RoleRules, On
  <2>3. new.actor \in ActorWakes(m, new, Empty)
    BY ONLY <2>2 DEF ActorWakes
  <2>4. QED
    BY <2>1, <2>2, <2>3
<1>4. QED
  BY <1>1, <1>2, <1>3

LEMMA CallKeepsActs ==
    ASSUME WakeInv, NEW c \in TableCalls, Call(c)
    PROVE  FreshInv' /\ ActRows'
<1> DEFINE out == Apply(table, c, Empty)
           row == [op |-> out.row.op, actor |-> out.row.actor,
                   wake |-> out.row.wake, wakeActor |-> out.row.wakeActor]
           k   == Len(fresh)
<1>1. table' = out.state /\ fresh' = Append(fresh, row)
  BY DEF Call
<1>2. \/ out.state = table /\ out.row.op = "reject" /\ out.row.wakeActor = {}
      \/ /\ out.row.op = c.op /\ out.row.actor = out.state.actor
         /\ out.row.wakeActor = ActorWakes(table, out.state, Empty)
         /\ c.op # "act" => out.state.actor = table.actor
  BY CallRow DEF WakeInv
<1>3. \/ row.op # "act" /\ row.wakeActor = {} /\ out.state.actor = table.actor
      \/ row.op = "act" /\ row.actor = out.state.actor
  <2>1. out.state.actor = table.actor => ActorWakes(table, out.state, Empty) = {}
    BY DEF ActorWakes
  <2>2. row.op = out.row.op /\ row.actor = out.row.actor /\ row.wakeActor = out.row.wakeActor
    OBVIOUS
  <2> HIDE DEF out, row
  <2>3. QED
    BY <1>2, <2>1, <2>2
<1> HIDE DEF out, row
<1>4. /\ FreshInv' /\ k \in Nat /\ Len(fresh') = k + 1 /\ fresh'[k + 1] = row
      /\ \A i \in 1 .. k : fresh'[i] = fresh[i]
  BY <1>1, ListGrows DEF WakeInv, FreshInv
<1> HIDE DEF k
<1>5. \A i \in 1 .. (k + 1) : i \in 1 .. k \/ i = k + 1
  BY <1>4
<1>6. \A i \in 1 .. Len(fresh') : fresh'[i].wakeActor # {} => fresh'[i].op = "act"
  <2> SUFFICES ASSUME NEW i \in 1 .. (k + 1), fresh'[i].wakeActor # {} PROVE fresh'[i].op = "act"
    BY <1>4
  <2>1. CASE i = k + 1
    BY <1>3, <1>4, <2>1
  <2>2. CASE i \in 1 .. k
    BY <1>4, <2>2 DEF WakeInv, ActRows, k
  <2>3. QED
    BY <1>5, <2>1, <2>2
<1>7. ASSUME NEW i \in 1 .. (k + 1), fresh'[i].op = "act",
             \A j \in 1 .. (k + 1) : fresh'[j].op = "act" => j <= i
      PROVE  fresh'[i].actor = out.state.actor
  <2>1. CASE i = k + 1
    BY <1>3, <1>4, <1>7, <2>1
  <2>2. CASE i \in 1 .. k
    <3>1. k + 1 \in 1 .. (k + 1) /\ ~(k + 1 <= i)
      BY <1>4, <2>2
    <3>2. row.op # "act"
      BY <1>4, <1>7, <3>1
    <3>3. fresh[i].op = "act" /\ \A j \in 1 .. k : fresh[j].op = "act" => j <= i
      BY <1>4, <1>7, <2>2
    <3>4. fresh[i].actor = table.actor
      BY <2>2, <3>3 DEF WakeInv, ActRows, k
    <3>5. QED
      BY <1>3, <1>4, <2>2, <3>2, <3>4
  <2>3. QED
    BY <1>5, <2>1, <2>2
<1>8. QED
  BY <1>1, <1>4, <1>6, <1>7 DEF ActRows

LEMMA CallKeepsOwed ==
    ASSUME RolesPlain, WakeInv, NEW c \in TableCalls, Call(c)
    PROVE  OwedInv'
<1> DEFINE out == Apply(table, c, Empty)
           row == [op |-> out.row.op, actor |-> out.row.actor,
                   wake |-> out.row.wake, wakeActor |-> out.row.wakeActor]
           k   == Len(fresh)
<1>1. /\ table' = out.state /\ fresh' = Append(fresh, row) /\ pending' = pending
      /\ owed' = StillDue(table, out.state) \cup Due(table, out.state)
  BY DEF Call
<1>2. \/ out.state = table
      \/ /\ out.row.wake = RoleWakes(table, out.state, Empty)
         /\ out.row.wakeActor = ActorWakes(table, out.state, Empty)
  BY CallRow DEF WakeInv
<1>3. row.wake = out.row.wake /\ row.wakeActor = out.row.wakeActor
  OBVIOUS
<1> HIDE DEF out, row
<1>4. /\ k \in Nat /\ Len(fresh') = k + 1 /\ fresh'[k + 1] = row
      /\ \A i \in 1 .. k : fresh'[i] = fresh[i]
  BY <1>1, ListGrows DEF WakeInv, FreshInv
<1>5. \A i \in 1 .. k : i \in 1 .. Len(fresh')
  BY <1>4
<1>6. k + 1 \in 1 .. Len(fresh')
  BY <1>4
<1>7. ASSUME NEW d \in StillDue(table, out.state)
      PROVE  Served(d)'
  <2>1. d \in owed /\ (d[1] = "role" \/ out.state.actor = table.actor)
    BY DEF StillDue
  <2>2. Served(d)
    BY <2>1 DEF WakeInv, OwedInv
  <2>3. RoleStamped(d[2]) => RoleStamped(d[2])'
    BY <1>1, <1>4, <1>5 DEF RoleStamped, k
  <2>4. ActorStamped(d[2]) => ActorStamped(d[2])'
    BY <1>1, <1>4, <1>5 DEF ActorStamped, k
  <2>5. QED
    BY <1>1, <2>1, <2>2, <2>3, <2>4 DEF Served
<1>8. ASSUME NEW d \in Due(table, out.state)
      PROVE  Served(d)'
  <2>1. \/ d[1] = "role" /\ d[2] \in RoleWakes(table, out.state, Empty)
        \/ d[1] # "role" /\ d[2] = out.state.actor
           /\ d[2] \in ActorWakes(table, out.state, Empty)
    BY DueIsStamped
  <2>2. out.state # table
    BY DueIsStamped
  <2>3. \/ d[1] = "role" /\ d[2] \in row.wake
        \/ d[1] # "role" /\ d[2] = out.state.actor /\ d[2] \in row.wakeActor
    BY <1>2, <1>3, <2>1, <2>2
  <2>4. QED
    BY <1>1, <1>4, <1>6, <2>3 DEF Served, RoleStamped, ActorStamped
<1>9. QED
  BY <1>1, <1>7, <1>8 DEF OwedInv

\* the collapse to the latest actor loses no stamp of the seat the pointer rests on
LEMMA TakeUpKeepsWakes ==
    ASSUME WakeInv, TakeUp
    PROVE  WakeInv'
<1> DEFINE k    == Len(fresh)
           acts == {i \in 1 .. k : fresh[i].op = "act"}
<1>1. /\ pending = {} /\ pending' = Targets /\ fresh' = <<>>
      /\ table' = table /\ owed' = owed
  BY DEF TakeUp
<1>2. k \in Nat /\ DOMAIN fresh = 1 .. k
  BY LenProperties DEF WakeInv, FreshInv
<1>3. FreshInv' /\ ActRows' /\ Len(fresh') = 0
  BY <1>1 DEF FreshInv, ActRows
<1> HIDE DEF k
<1>4. ASSUME NEW a, \E i \in 1 .. k : a \in fresh[i].wake PROVE a \in Targets
  BY <1>2, <1>4 DEF Targets
<1>5. ASSUME \E i \in 1 .. k : table.actor \in fresh[i].wakeActor PROVE table.actor \in Targets
  <2>1. PICK i \in 1 .. k : table.actor \in fresh[i].wakeActor
    BY <1>5
  <2>2. i \in acts
    BY <2>1 DEF WakeInv, ActRows, k
  <2>3. PICK top \in acts : \A j \in acts : j <= top
    BY <1>2, <2>2, MaxIn
  <2>4. acts = {j \in DOMAIN fresh : fresh[j].op = "act"}
    BY <1>2
  <2>5. \E top2 \in acts : LatestActor = fresh[top2].actor /\ \A j \in acts : j <= top2
    BY ONLY <2>2, <2>3, <2>4 DEF LatestActor
  <2>6. LatestActor = table.actor
    BY <2>5 DEF WakeInv, ActRows, k
  <2>7. table.actor \in UNION {fresh[j].wakeActor : j \in DOMAIN fresh}
    BY <1>2, <2>1
  <2>8. QED
    BY ONLY <2>6, <2>7 DEF Targets
<1>6. OwedInv'
  <2> SUFFICES ASSUME NEW d \in owed
               PROVE  d[2] \in Targets /\ (d[1] # "role" => d[2] = table.actor)
    BY <1>1 DEF OwedInv, Served, RoleStamped, ActorStamped
  <2>1. Served(d)
    BY DEF WakeInv, OwedInv
  <2>2. RoleStamped(d[2]) => \E i \in 1 .. k : d[2] \in fresh[i].wake
    BY <1>1 DEF RoleStamped, k
  <2>3. ActorStamped(d[2]) => \E i \in 1 .. k : d[2] \in fresh[i].wakeActor
    BY <1>1 DEF ActorStamped, k
  <2>4. QED
    BY <1>4, <1>5, <2>1, <2>2, <2>3 DEF Served
<1>7. Shape(table)'
  BY <1>1 DEF WakeInv, Shape
<1>8. QED
  BY <1>3, <1>6, <1>7 DEF WakeInv

\* Once the host has caught up, everyone a rule came to hold for has been mentioned, for
\* every declaration whose role rules are not held back: whatever calls land before a
\* tick, between two mentions of it or during a nudge, no stamp is lost in the collapse
\* to the latest actor, but those of the mentions that a raise cuts off
\* (runner.py:704-732; machine.py, compute_wakes).
THEOREM WakesAlwaysArrive ==
    ASSUME RolesPlain
    PROVE  TableSpec => []WakesArrive
<1>1. TableInit => WakeInv
  <2> SUFFICES ASSUME TableInit PROVE WakeInv
    OBVIOUS
  <2>1. table = InitialState /\ fresh = <<>> /\ owed = {}
    BY DEF TableInit
  <2>2. Shape(table)
    BY <2>1, InitialShape
  <2>3. FreshInv /\ ActRows /\ OwedInv
    BY <2>1 DEF FreshInv, ActRows, OwedInv
  <2>4. QED
    BY <2>2, <2>3 DEF WakeInv
<1>2. WakeInv /\ [TableNext]_tableVars => WakeInv'
  <2> SUFFICES ASSUME WakeInv, [TableNext]_tableVars PROVE WakeInv'
    OBVIOUS
  <2>1. ASSUME NEW c \in TableCalls, Call(c) PROVE WakeInv'
    <3>1. table' = Apply(table, c, Empty).state
      BY <2>1, CallMoves
    <3>2. Shape(Apply(table, c, Empty).state)
      BY ApplyMoves DEF WakeInv
    <3>3. Shape(table)'
      BY ONLY <3>1, <3>2 DEF Shape
    <3>4. QED
      BY <2>1, <3>3, CallKeepsActs, CallKeepsOwed DEF WakeInv
  <2>2. CASE TakeUp
    BY <2>2, TakeUpKeepsWakes
  <2>3. ASSUME table' = table, fresh' = fresh, owed' \subseteq owed,
               \A d \in owed' : d[2] \in pending => d[2] \in pending'
        PROVE  WakeInv'
    <3>1. Shape(table)' /\ FreshInv' /\ ActRows'
      BY <2>3 DEF WakeInv, Shape, FreshInv, ActRows
    <3>2. OwedInv'
      BY <2>3 DEF WakeInv, OwedInv, Served, RoleStamped, ActorStamped
    <3>3. QED
      BY <3>1, <3>2 DEF WakeInv
  <2>4. ASSUME NEW who \in pending, Mention(who) PROVE WakeInv'
    BY <2>3, <2>4 DEF Mention
  <2>5. ASSUME NEW role \in Decl.late, Nudge(role) PROVE WakeInv'
    BY <2>3, <2>5 DEF Nudge
  <2>6. CASE MentionFails
    BY <2>3, <2>6 DEF MentionFails
  <2>7. CASE UNCHANGED tableVars
    BY <2>3, <2>7 DEF tableVars
  <2>8. QED
    BY <2>1, <2>2, <2>4, <2>5, <2>6, <2>7 DEF TableNext, Deliver
<1>3. WakeInv => WakesArrive
  <2> SUFFICES ASSUME WakeInv, fresh = <<>>, pending = {} PROVE owed = {}
    BY DEF WakesArrive, CaughtUp
  <2>1. Len(fresh) = 0
    OBVIOUS
  <2>2. \A a : ~RoleStamped(a) /\ ~ActorStamped(a)
    BY <2>1 DEF RoleStamped, ActorStamped
  <2>3. QED
    BY <2>2 DEF WakeInv, OwedInv, Served
<1>4. QED
  BY <1>1, <1>2, <1>3, PTL DEF TableSpec

-----------------------------------------------------------------------------
(* The poker table, for any seating.                                       *)

LastOf(effects) == effects[Len(effects)]

\* How a transition leaves the pointer: outside the streets, or moved on as its last
\* effect, or put where the dealer says.
Settles(t, name) ==
    \/ t.to \notin Streets \cup {"same"}
    \/ Len(t.effects) # 0 /\ LastOf(t.effects).kind = "advance_actor"
    \/ /\ Len(t.effects) # 0 /\ t.by = "dealer"
       /\ \/ LastOf(t.effects) = PointTo("first")
             /\ name \in {"deal", "advance", "advance2", "advance3"}
          \/ LastOf(t.effects) = PointTo("player") /\ name = "reopen"

LEMMA PokerEnds ==
    ASSUME NEW name \in StreetNames \cup EndingNames
    PROVE  Settles(Declared(name), name)
<1> DEFINE t == Declared(name)
<1>1. CASE name \in {"check", "call"}
  <2>1. t.effects = <<AddTo("acted", Caller), Advance>>
    BY <1>1 DEF Declared, Move, Trans
  <2> HIDE DEF t
  <2>2. Len(t.effects) = 2 /\ LastOf(t.effects) = Advance
    BY <2>1 DEF LastOf
  <2>3. LastOf(t.effects).kind = "advance_actor"
    BY <2>2 DEF Advance
  <2>4. Settles(t, name)
    BY <2>2, <2>3 DEF Settles
  <2>5. QED
    BY <2>4 DEF t
<1>2. CASE name = "raise"
  <2>1. t.effects = <<Reset("acted"), AddTo("acted", Caller), SetTo("bet_level", Given("to")),
                      Advance>>
    BY <1>2 DEF Declared, Move, Trans
  <2> HIDE DEF t
  <2>2. Len(t.effects) = 4 /\ LastOf(t.effects) = Advance
    BY <2>1 DEF LastOf
  <2>3. LastOf(t.effects).kind = "advance_actor"
    BY <2>2 DEF Advance
  <2>4. Settles(t, name)
    BY <2>2, <2>3 DEF Settles
  <2>5. QED
    BY <2>4 DEF t
<1>3. CASE name = "fold"
  <2>1. t.effects = <<AddTo("out", Caller), AddTo("acted", Caller), Advance>>
    BY <1>3 DEF Declared, Move, Trans
  <2> HIDE DEF t
  <2>2. Len(t.effects) = 3 /\ LastOf(t.effects) = Advance
    BY <2>1 DEF LastOf
  <2>3. LastOf(t.effects).kind = "advance_actor"
    BY <2>2 DEF Advance
  <2>4. Settles(t, name)
    BY <2>2, <2>3 DEF Settles
  <2>5. QED
    BY <2>4 DEF t
<1>4. CASE name = "all_in"
  <2>1. t.effects = <<AddTo("all_in", Caller), AddTo("acted", Caller), Advance>>
    BY <1>4 DEF Declared, Move, Trans
  <2> HIDE DEF t
  <2>2. Len(t.effects) = 3 /\ LastOf(t.effects) = Advance
    BY <2>1 DEF LastOf
  <2>3. LastOf(t.effects).kind = "advance_actor"
    BY <2>2 DEF Advance
  <2>4. Settles(t, name)
    BY <2>2, <2>3 DEF Settles
  <2>5. QED
    BY <2>4 DEF t
<1>5. CASE name = "fold_for"
  <2>1. t.effects = <<AddTo("out", Given("player")), AddTo("acted", Given("player")), Advance>>
    BY <1>5 DEF Declared, Trans
  <2> HIDE DEF t
  <2>2. Len(t.effects) = 3 /\ LastOf(t.effects) = Advance
    BY <2>1 DEF LastOf
  <2>3. LastOf(t.effects).kind = "advance_actor"
    BY <2>2 DEF Advance
  <2>4. Settles(t, name)
    BY <2>2, <2>3 DEF Settles
  <2>5. QED
    BY <2>4 DEF t
<1>6. CASE name = "reopen"
  <2>1. /\ t.by = "dealer"
        /\ t.effects = <<[kind |-> "remove_from", key |-> "acted", value |-> Given("player")],
                         PointTo("player")>>
    BY <1>6 DEF Declared, Trans
  <2> HIDE DEF t
  <2>2. Len(t.effects) = 2 /\ LastOf(t.effects) = PointTo("player")
    BY <2>1 DEF LastOf
  <2>3. Settles(t, name)
    BY <1>6, <2>1, <2>2 DEF Settles
  <2>4. QED
    BY <2>3 DEF t
<1>7. CASE name = "deal"
  <2>1. /\ t.by = "dealer"
        /\ t.effects = <<Reset("out"), Reset("all_in"), Reset("acted"),
                         SetTo("bet_level", Given("bet_level")), PointTo("first")>>
    BY <1>7 DEF Declared, Trans
  <2> HIDE DEF t
  <2>2. Len(t.effects) = 5 /\ LastOf(t.effects) = PointTo("first")
    BY <2>1 DEF LastOf
  <2>3. Settles(t, name)
    BY <1>7, <2>1, <2>2 DEF Settles
  <2>4. QED
    BY <2>3 DEF t
<1>8. CASE name \in {"advance", "advance2", "advance3"}
  <2>1. \E from, to : t = Opening(from, to)
    BY <1>8 DEF Declared
  <2>2. /\ t.by = "dealer"
        /\ t.effects = <<Reset("acted"), SetTo("bet_level", Lit("0")), PointTo("first")>>
    BY <2>1 DEF Opening, Trans
  <2> HIDE DEF t
  <2>3. Len(t.effects) = 3 /\ LastOf(t.effects) = PointTo("first")
    BY <2>2 DEF LastOf
  <2>4. Settles(t, name)
    BY <1>8, <2>2, <2>3 DEF Settles
  <2>5. QED
    BY <2>4 DEF t
<1>9. CASE name \in EndingNames
  <2>1. t.to \in {"showdown", "settled", "waiting", "done"}
    BY <1>9 DEF EndingNames, Declared, Trans
  <2>2. QED
    BY <2>1 DEF Settles, Streets
<1>10. QED
  BY <1>1, <1>2, <1>3, <1>4, <1>5, <1>6, <1>7, <1>8, <1>9 DEF StreetNames, MoveNames

\* Nobody whom the pointer would have stopped at is left in a street it is parked in.
NobodyLeft(m) ==
    m.state \in Streets /\ m.actor = None => \A a \in Seats : ~Eligible(m, a)

LEMMA PokerMoves ==
    ASSUME Decl = Poker, NEW m, Shape(m), NobodyLeft(m), NEW c, NEW x,
           x = Apply(m, c, Empty).state,
           c.op = "act" /\ c.caller = Dealer =>
               /\ c.name \in {"deal", "advance", "advance2", "advance3"} =>
                      ValueAt(c.args, "first") # None
               /\ c.name = "reopen" => ValueAt(c.args, "player") # None
    PROVE  NobodyLeft(x)
<1>1. /\ Decl.over = "player" /\ DOMAIN Decl.members = {"dealer", "player"}
      /\ Decl.members["player"] = Seats /\ Decl.members["dealer"] = {Dealer}
      /\ Decl.transitions = [name \in StreetNames \cup EndingNames |-> Declared(name)]
  BY DEF Poker
<1>2. HasPointer /\ Decl.members[Decl.over] = Seats
  BY <1>1, SeatingAssumption DEF HasPointer, SeatingAssumption
<1>3. CASE c.op # "act"
  <2>1. x = m \/ x = Written(m, c)
    BY <1>3 DEF Apply, SetValue, Rejected, Accepted
  <2>2. Written(m, c).state = m.state /\ Written(m, c).actor = m.actor
        /\ Written(m, c).sets = m.sets
    BY DEF Written, Shape
  <2>3. QED
    BY <2>1, <2>2 DEF NobodyLeft, Eligible
<1>4. CASE c.op = "act"
  <2> DEFINE t    == Decl.transitions[c.name]
             ctx  == Ctx(c.caller, c.args, Empty)
             done == ApplyAll(t.effects, m, ctx)
  <2>1. \/ x = m
        \/ /\ c.name \in DOMAIN Decl.transitions /\ t.by \in RolesOf(c.caller) /\ done # Refused
           /\ x = IF t.to = "same" THEN done ELSE [done EXCEPT !.state = t.to]
    BY <1>4 DEF Apply, Act, Rejected, Accepted
  <2> SUFFICES ASSUME c.name \in DOMAIN Decl.transitions, t.by \in RolesOf(c.caller),
                      done # Refused,
                      x = IF t.to = "same" THEN done ELSE [done EXCEPT !.state = t.to]
               PROVE  NobodyLeft(x)
    BY <2>1 DEF NobodyLeft
  <2>2. c.name \in StreetNames \cup EndingNames /\ t = Declared(c.name)
    BY <1>1
  <2>3. IsList(t.effects) /\ \A i \in DOMAIN t.effects : t.effects[i].kind \in EffectKinds
    BY DeclAssumption DEF DeclAssumption, TransitionDeclared, EffectDeclared
  <2>4. t.by = "dealer" => c.caller = Dealer
    BY <1>1 DEF RolesOf
  <2> HIDE DEF t
  <2>5. /\ Shape(done)
        /\ Len(t.effects) # 0 => \E y : Shape(y) /\ done = ApplyEffect(LastOf(t.effects), y, ctx)
    BY <2>3, AppliedMoves DEF LastOf
  <2>6. \/ t.to \notin Streets \cup {"same"}
        \/ Len(t.effects) # 0 /\ LastOf(t.effects).kind = "advance_actor"
        \/ /\ Len(t.effects) # 0 /\ t.by = "dealer"
           /\ \/ LastOf(t.effects) = PointTo("first")
                 /\ c.name \in {"deal", "advance", "advance2", "advance3"}
              \/ LastOf(t.effects) = PointTo("player") /\ c.name = "reopen"
    BY <2>2, PokerEnds DEF Settles
  <2> HIDE DEF done
  <2>7. x.actor = done.actor /\ x.sets = done.sets /\ (t.to # "same" => x.state = t.to)
    BY <2>5 DEF Shape
  <2>8. CASE t.to \notin Streets \cup {"same"}
    BY <2>7, <2>8 DEF NobodyLeft
  <2>9. CASE Len(t.effects) # 0 /\ LastOf(t.effects).kind = "advance_actor"
    <3>1. PICK y : Shape(y) /\ done = AdvanceActor(y)
      BY <2>5, <2>9 DEF ApplyEffect
    <3>2. done = [y EXCEPT !.actor = done.actor]
      BY <3>1, AdvanceLands
    <3>3. done.sets = y.sets
      BY <3>1, <3>2 DEF Shape
    <3>4. done.actor = None => \A a \in Seats : ~Eligible(y, a)
      BY <1>2, <3>1, AdvanceParks
    <3>5. QED
      BY <2>7, <3>3, <3>4 DEF NobodyLeft, Eligible
  <2>10. ASSUME NEW arg, Len(t.effects) # 0, LastOf(t.effects) = PointTo(arg),
                ValueAt(c.args, arg) # None
         PROVE  NobodyLeft(x)
    <3>1. PICK y : Shape(y) /\ done = ApplyEffect(LastOf(t.effects), y, ctx)
      BY <2>5, <2>10
    <3>2. LastOf(t.effects).kind = "set_actor" /\ LastOf(t.effects).value = Given(arg)
      BY <2>10 DEF PointTo
    <3>3. Resolve(Given(arg), ctx, y) = ValueAt(c.args, arg)
      BY DEF Resolve, Given, Ctx
    <3>4. done = SetActor(y, ValueAt(c.args, arg))
      BY <3>1, <3>2, <3>3 DEF ApplyEffect
    <3>5. done = [y EXCEPT !.actor = ValueAt(c.args, arg)]
      BY <2>5, <3>4 DEF SetActor
    <3>6. done.actor = ValueAt(c.args, arg)
      BY <3>1, <3>5 DEF Shape
    <3>7. QED
      BY <2>7, <2>10, <3>6 DEF NobodyLeft
  <2>11. QED
    BY <1>4, <2>4, <2>6, <2>8, <2>9, <2>10
<1>5. QED
  BY <1>3, <1>4

\* Betting never stops with nobody to move and the street not closed, for any seating and
\* any talk in which the dealer names a seat wherever the declaration lets it point: when
\* the pointer parks, everyone still in has acted, so the dealer's advance is open to it
\* (machine.py, advance_actor; examples/poker-table/project.json, transitions).
THEOREM ParkedStreetIsClosed ==
    ASSUME Decl = Poker, DealerPoints
    PROVE  TableSpec => []ParkedMeansClosed
<1> DEFINE I == Shape(table) /\ NobodyLeft(table)
<1>1. TableInit => I
  <2> SUFFICES ASSUME TableInit PROVE Shape(table) /\ NobodyLeft(table)
    OBVIOUS
  <2>1. table = InitialState /\ InitialState.state = "waiting"
    BY DEF TableInit, InitialState, Poker
  <2>2. QED
    BY <2>1, InitialShape DEF NobodyLeft, Streets
<1>2. I /\ [TableNext]_tableVars => I'
  <2> SUFFICES ASSUME I, [TableNext]_tableVars PROVE I'
    OBVIOUS
  <2>1. CASE table' = table
    BY <2>1 DEF Shape, NobodyLeft, Eligible
  <2>2. ASSUME NEW c \in TableCalls, Call(c) PROVE I'
    <3>1. table' = Apply(table, c, Empty).state
      BY <2>2, CallMoves
    <3>2. Shape(Apply(table, c, Empty).state)
      BY ApplyMoves
    <3>3. NobodyLeft(Apply(table, c, Empty).state)
      BY PokerMoves DEF DealerPoints
    <3>4. Shape(table') /\ NobodyLeft(table')
      BY ONLY <3>1, <3>2, <3>3
    <3>5. QED
      BY ONLY <3>4 DEF Shape, NobodyLeft, Eligible
  <2>3. QED
    BY <2>1, <2>2, TableMoves
<1>3. I => ParkedMeansClosed
  <2> SUFFICES ASSUME I, table.state \in Streets, table.actor = None
               PROVE  Holds(StreetFull, table, WakeCtx(Empty))
    BY DEF ParkedMeansClosed
  <2>1. \A a \in Seats : ~Eligible(table, a)
    BY DEF NobodyLeft
  <2>2. /\ Decl.over = "player" /\ Decl.members["player"] = Seats
        /\ Decl.skip = {"out", "all_in", "acted"}
    BY DEF Poker
  <2>3. HasPointer
    BY <2>2, SeatingAssumption DEF HasPointer, SeatingAssumption
  <2>4. ASSUME NEW a \in Expected(table, "player", {"out", "all_in"})
        PROVE  a \in table.sets["acted"]
    <3>1. a \in Seats /\ a \notin table.sets["out"] /\ a \notin table.sets["all_in"]
      BY <2>2 DEF Expected
    <3>2. QED
      BY <2>1, <2>2, <2>3, <3>1 DEF Eligible
  <2>5. QED
    BY <2>4 DEF Holds, StreetFull
<1>4. QED
  BY <1>1, <1>2, <1>3, PTL DEF TableSpec

====
