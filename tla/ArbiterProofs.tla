----------------------------- MODULE ArbiterProofs -----------------------------
(***************************************************************************)
(* Proofs about Arbiter for any number of calls in flight, agents, rounds  *)
(* and restarts: a ruling asked for once a verdict is on record adds none, *)
(* and the cached board is what the chronicle and the calls account for.   *)
(***************************************************************************)
EXTENDS Arbiter, FiniteSetTheorems, SequenceTheorems, WellFoundedInduction, TLAPS

\* the rulings that have found no verdict on record and may still write one
Ruling == {s \in Ref : call[s].op = "rule" /\ at[s] \in {"turns", "fill", "filling", "append"}}

\* with a verdict on record no ruling joins them, and each that writes one leaves
RulingInv ==
    /\ call = [s \in Ref |-> call[s]] /\ at = [s \in Ref |-> at[s]]
    /\ verdicts \in Seq({verdicts[i] : i \in 1..Len(verdicts)})
    /\ \A s \in Ref : at[s] = "flag" => call[s].op # "rule"
    /\ verdicts # <<>> => Len(verdicts) + Cardinality(Ruling) <= Cardinality(Ref)

LEMMA RulingFinite ==
    /\ IsFiniteSet(Ruling) /\ Cardinality(Ruling) \in Nat
    /\ Cardinality(Ref) \in Nat /\ Cardinality(Ruling) <= Cardinality(Ref)
<1>1. IsFiniteSet(Ref) /\ Ruling \subseteq Ref
  BY RefereeAssumption DEF RefereeAssumption, Ruling
<1>2. QED
  BY <1>1, FS_Subset, FS_CardinalityType

\* fewer rulings and no new verdict keep the invariant
LEMMA FewerRulings ==
    ASSUME RulingInv, verdicts' = verdicts, verdicts # <<>> => Ruling' \subseteq Ruling,
           call' = [s \in Ref |-> call'[s]], at' = [s \in Ref |-> at'[s]],
           \A s \in Ref : at'[s] = "flag" => call'[s].op # "rule"
    PROVE  RulingInv'
<1>1. ASSUME verdicts # <<>> PROVE Cardinality(Ruling') \in Nat
                                   /\ Cardinality(Ruling') <= Cardinality(Ruling)
  <2>1. Ruling' \subseteq Ruling
    BY <1>1
  <2>2. IsFiniteSet(Ruling') /\ Cardinality(Ruling') <= Cardinality(Ruling)
    BY ONLY <2>1, RulingFinite, FS_Subset
  <2>3. QED
    BY <2>2, FS_CardinalityType
<1>2. Len(verdicts) \in Nat
  BY LenProperties DEF RulingInv
<1>3. verdicts' # <<>> => Len(verdicts') + Cardinality(Ruling') <= Cardinality(Ref)
  BY <1>1, <1>2, RulingFinite DEF RulingInv
<1>4. QED
  BY <1>3 DEF RulingInv

\* one call moves on: as a ruling only if it was one, or no verdict is on record
LEMMA CallMoves ==
    ASSUME RulingInv, NEW s \in Ref, NEW x, at' = [at EXCEPT ![s] = x],
           call' = call, verdicts' = verdicts,
           x \in {"turns", "fill", "filling", "append"} =>
               s \in Ruling \/ verdicts = <<>> \/ call[s].op # "rule",
           x # "flag"
    PROVE  RulingInv'
<1>1. /\ at' = [t \in Ref |-> at'[t]] /\ at'[s] = x
      /\ \A t \in Ref \ {s} : at'[t] = at[t]
  BY DEF RulingInv
<1>2. call' = [t \in Ref |-> call'[t]]
  BY DEF RulingInv
<1>3. \A t \in Ref : at'[t] = "flag" => call'[t].op # "rule"
  BY <1>1 DEF RulingInv
<1>4. verdicts # <<>> => Ruling' \subseteq Ruling
  BY <1>1 DEF Ruling
<1>5. QED
  BY <1>1, <1>2, <1>3, <1>4, FewerRulings

\* where a call goes once it has its board, or waits for it
LEMMA UseMoves ==
    ASSUME NEW s, NEW b, NEW ask, Use(s, b, ask)
    PROVE  \E x \in {"append", "idle"} : at' = [at EXCEPT ![s] = x]
<1>1. CASE ask.op \in {"score", "penalize"}
  BY <1>1 DEF Use
<1>2. CASE ask.op = "rule"
  BY <1>2 DEF Use
<1>3. CASE ask.op \notin {"score", "penalize"} /\ ask.op # "rule"
  BY <1>3 DEF Use
<1>4. QED
  BY <1>1, <1>2, <1>3

LEMMA NeedBoardMoves ==
    ASSUME NEW s, NEW ask, NeedBoard(s, ask)
    PROVE  \E x \in {"append", "idle", "fill"} : at' = [at EXCEPT ![s] = x]
  BY UseMoves DEF NeedBoard

\* a new ruling looks for an earlier verdict first
LEMMA AskedMoves ==
    ASSUME NEW s, NEW ask, Asked(s, ask)
    PROVE  \E x : /\ at' = [at EXCEPT ![s] = x]
                  /\ ask.op = "rule" => x = "prior"
<1>1. CASE ask.op \in {"score", "scoreboard"}
  BY <1>1, NeedBoardMoves DEF Asked
<1>2. CASE ask.op \in {"penalize", "flag", "eliminate"}
  <2>1. CASE ask.op = "penalize"
    BY <2>1 DEF Asked
  <2>2. CASE ask.op = "flag"
    BY <2>2 DEF Asked
  <2>3. CASE ask.op = "eliminate"
    BY <2>3 DEF Asked
  <2>4. QED
    BY <1>2, <2>1, <2>2, <2>3
<1>3. CASE ask.op \notin {"score", "scoreboard", "penalize", "flag", "eliminate"}
  BY <1>3 DEF Asked
<1>4. QED
  BY <1>1, <1>2, <1>3

LEMMA AskedInv == ASSUME RulingInv, NEW s \in Ref, NEW ask, Asked(s, ask) PROVE RulingInv'
<1>1. PICK x : at' = [at EXCEPT ![s] = x] /\ (ask.op = "rule" => x = "prior")
  BY AskedMoves
<1>2. call' = [call EXCEPT ![s] = ask] /\ verdicts' = verdicts
  BY DEF Asked
<1>3. /\ at' = [t \in Ref |-> at'[t]] /\ at'[s] = x
      /\ \A t \in Ref \ {s} : at'[t] = at[t]
  BY <1>1 DEF RulingInv
<1>4. /\ call' = [t \in Ref |-> call'[t]] /\ call'[s] = ask
      /\ \A t \in Ref \ {s} : call'[t] = call[t]
  BY <1>2 DEF RulingInv
<1>5. s \notin Ruling'
  BY <1>1, <1>3, <1>4 DEF Ruling
<1>6. Ruling' \subseteq Ruling
  BY <1>3, <1>4, <1>5 DEF Ruling
<1>7. \A t \in Ref : at'[t] = "flag" => call'[t].op # "rule"
  BY <1>1, <1>3, <1>4 DEF RulingInv
<1>8. QED
  BY <1>2, <1>3, <1>4, <1>6, <1>7, FewerRulings

\* a verdict is written by a ruling that then is none
LEMMA LandsInv == ASSUME RulingInv, NEW s \in Ref, Lands(s) PROVE RulingInv'
<1>1. /\ at[s] = "append" /\ at' = [at EXCEPT ![s] = "idle"] /\ call' = call
      /\ verdicts' = IF call[s].op = "rule" THEN Append(verdicts, read[s]) ELSE verdicts
  BY DEF Lands, Ends
<1>2. CASE call[s].op # "rule"
  BY <1>1, <1>2, CallMoves
<1>3. CASE call[s].op = "rule"
  <2>1. /\ at' = [t \in Ref |-> at'[t]] /\ at'[s] = "idle"
        /\ \A t \in Ref \ {s} : at'[t] = at[t]
    BY <1>1 DEF RulingInv
  <2>2. s \in Ruling /\ Ruling' = Ruling \ {s}
    BY <1>1, <1>3, <2>1 DEF Ruling
  <2>3. Cardinality(Ruling') = Cardinality(Ruling) - 1
    BY <2>2, RulingFinite, FS_RemoveElement
  <2> DEFINE S == {verdicts[i] : i \in 1..Len(verdicts)}
  <2>4. verdicts \in Seq(S \cup {read[s]}) /\ Len(verdicts) \in Nat
    BY SeqMonotonic, LenProperties DEF RulingInv
  <2>5. verdicts' = Append(verdicts, read[s])
    BY <1>1, <1>3
  <2>6. /\ verdicts' \in Seq(S \cup {read[s]}) /\ Len(verdicts') = Len(verdicts) + 1
        /\ \A i \in 1..Len(verdicts) : verdicts'[i] = verdicts[i]
        /\ verdicts'[Len(verdicts) + 1] = read[s]
    BY ONLY <2>4, <2>5, AppendProperties
  <2>7. S \cup {read[s]} \subseteq {verdicts'[i] : i \in 1..Len(verdicts')}
    BY <2>4, <2>6
  <2>8. verdicts' \in Seq({verdicts'[i] : i \in 1..Len(verdicts')})
    BY ONLY <2>6, <2>7, SeqMonotonic
  <2>9. Len(verdicts) + Cardinality(Ruling) <= Cardinality(Ref)
    <3>1. CASE verdicts = <<>>
      BY <3>1, EmptySeq, RulingFinite
    <3>2. CASE verdicts # <<>>
      BY <3>2 DEF RulingInv
    <3>3. QED
      BY <3>1, <3>2
  <2>10. Len(verdicts') + Cardinality(Ruling') <= Cardinality(Ref)
    BY <2>3, <2>4, <2>6, <2>9, RulingFinite
  <2>11. \A t \in Ref : at'[t] = "flag" => call'[t].op # "rule"
    BY <1>1, <2>1 DEF RulingInv
  <2>12. call' = [t \in Ref |-> call'[t]]
    BY <1>1 DEF RulingInv
  <2>13. QED
    BY <2>1, <2>8, <2>10, <2>11, <2>12 DEF RulingInv
<1>4. QED
  BY <1>2, <1>3

LEMMA CallStepInv == ASSUME RulingInv, NEW s \in Ref, CallStep(s) PROVE RulingInv'
<1>0. at[s] \in {"fill", "filling", "turns", "append"} /\ call[s].op = "rule" => s \in Ruling
  BY DEF Ruling
<1>1. CASE TakeLock(s)
  <2>1. at[s] = "fill" /\ call' = call /\ verdicts' = verdicts
    BY <1>1 DEF TakeLock
  <2>2. \E x \in {"append", "idle", "filling"} : at' = [at EXCEPT ![s] = x]
    BY <1>1, UseMoves DEF TakeLock
  <2>3. QED
    BY <1>0, <2>1, <2>2, CallMoves
<1>2. CASE ScoresRead(s)
  <2>1. call' = call /\ at' = at /\ verdicts' = verdicts
    BY <1>2 DEF ScoresRead
  <2>2. Ruling' = Ruling
    BY <2>1 DEF Ruling
  <2>3. QED
    BY <2>1, <2>2, FewerRulings DEF RulingInv
<1>3. CASE Filled(s)
  <2>1. at[s] = "filling" /\ call' = call /\ verdicts' = verdicts
    BY <1>3 DEF Filled
  <2>2. \E x \in {"append", "idle"} : at' = [at EXCEPT ![s] = x]
    BY <1>3, UseMoves DEF Filled
  <2>3. QED
    BY <1>0, <2>1, <2>2, CallMoves
<1>4. CASE PriorRead(s)
  <2>1. call' = call /\ verdicts' = verdicts
    BY <1>4 DEF PriorRead
  <2>2. \/ at' = [at EXCEPT ![s] = "idle"]
        \/ verdicts = <<>> /\ at' = [at EXCEPT ![s] = "turns"]
    BY <1>4 DEF PriorRead, Ends
  <2>3. QED
    BY <2>1, <2>2, CallMoves
<1>5. CASE TurnsRead(s)
  <2>1. at[s] = "turns" /\ call' = call /\ verdicts' = verdicts
    BY <1>5 DEF TurnsRead
  <2>2. \E x \in {"append", "idle", "fill"} : at' = [at EXCEPT ![s] = x]
    BY <1>5, NeedBoardMoves DEF TurnsRead, Ends
  <2>3. QED
    BY <1>0, <2>1, <2>2, CallMoves
<1>6. CASE FlagLands(s)
  <2>1. at[s] = "flag" /\ call' = call /\ verdicts' = verdicts
    BY <1>6 DEF FlagLands
  <2>2. call[s].op # "rule"
    BY <2>1 DEF RulingInv
  <2>3. \E x \in {"append", "idle", "fill"} : at' = [at EXCEPT ![s] = x]
    BY <1>6, NeedBoardMoves DEF FlagLands
  <2>4. QED
    BY <2>1, <2>2, <2>3, CallMoves
<1>7. CASE Lands(s)
  BY <1>7, LandsInv
<1>8. QED
  BY <1>1, <1>2, <1>3, <1>4, <1>5, <1>6, <1>7 DEF CallStep

LEMMA RulingStep == RulingInv /\ [Next]_arbiterVars => RulingInv'
<1> SUFFICES ASSUME RulingInv, [Next]_arbiterVars PROVE RulingInv'
  OBVIOUS
<1>1. ASSUME NEW s \in Ref, NEW ask \in Ask, Asked(s, ask) PROVE RulingInv'
  BY <1>1, AskedInv
<1>2. ASSUME NEW s \in Ref, CallStep(s) PROVE RulingInv'
  BY <1>2, CallStepInv
<1>3. ASSUME NEW s \in Ref, CallFails(s) PROVE RulingInv'
  <2>1. at' = [at EXCEPT ![s] = "idle"] /\ call' = call /\ verdicts' = verdicts
    BY <1>3 DEF CallFails, Ends
  <2>2. QED
    BY <2>1, CallMoves
<1>4. CASE ArbiterRestart
  <2>1. at' = [s \in Ref |-> "idle"] /\ call' = call /\ verdicts' = verdicts
    BY <1>4 DEF ArbiterRestart
  <2>2. Ruling' = {}
    BY <2>1 DEF Ruling
  <2>3. QED
    BY <2>1, <2>2, FewerRulings DEF RulingInv
<1>5. CASE RoundOpens \/ UNCHANGED arbiterVars
  <2>1. at' = at /\ call' = call /\ verdicts' = verdicts
    BY <1>5 DEF RoundOpens, arbiterVars
  <2>2. Ruling' = Ruling
    BY <2>1 DEF Ruling
  <2>3. QED
    BY <2>1, <2>2, FewerRulings DEF RulingInv
<1>6. QED
  BY <1>1, <1>2, <1>3, <1>4, <1>5 DEF Next

\* A ruling asked for once a verdict is on record adds none, for any number of calls
\* that overlap: there are never more verdicts than calls that can (arbiter.py:148-152).
THEOREM VerdictsOverlap == Spec => []OnlyOverlappingVerdicts
<1>1. Init => RulingInv
  BY EmptySeq DEF Init, RulingInv
<1>2. RulingInv => OnlyOverlappingVerdicts
  <2> SUFFICES ASSUME RulingInv PROVE Len(verdicts) <= Cardinality(Ref)
    BY DEF OnlyOverlappingVerdicts
  <2>1. Len(verdicts) \in Nat
    BY LenProperties DEF RulingInv
  <2>2. CASE verdicts = <<>>
    BY <2>2, EmptySeq, RulingFinite
  <2>3. CASE verdicts # <<>>
    BY <2>1, <2>3, RulingFinite DEF RulingInv
  <2>4. QED
    BY <2>2, <2>3
<1>3. QED
  BY <1>1, <1>2, RulingStep, PTL DEF Spec

-----------------------------------------------------------------------------
(* Sums.  The sum over a finite set is any term plus the sum over the rest. *)

Choice(s) == CHOOSE x \in s : TRUE

Sums(it, f, S) ==
    it = [s \in SUBSET S |-> IF s = {} THEN 0 ELSE f[Choice(s)] + it[s \ {Choice(s)}]]

Total(f, S) == (CHOOSE it : Sums(it, f, S))[S]

Adds(g, f, S) ==
    /\ g \in [SUBSET S -> Int] /\ g[{}] = 0
    /\ \A s \in SUBSET S : \A x \in s : g[s] = f[x] + g[s \ {x}]

LEMMA SmallestSubset ==
    ASSUME NEW S, IsFiniteSet(S), NEW T, T \subseteq SUBSET S, T # {}
    PROVE  \E s \in T : \A x \in s : s \ {x} \notin T
<1>1. T \subseteq FiniteSubsetsOf(S)
  BY FS_Subset DEF FiniteSubsetsOf
<1>2. IsWellFoundedOn(StrictSubsetOrdering(S), FiniteSubsetsOf(S))
  BY FS_StrictSubsetOrderingWellFounded
<1>3. PICK s \in T : \A t \in T : ~(<<t, s>> \in StrictSubsetOrdering(S))
  BY ONLY <1>1, <1>2, T # {}, WFMin
<1>4. \A x \in s : <<s \ {x}, s>> \in StrictSubsetOrdering(S)
  BY <1>3 DEF StrictSubsetOrdering
<1>5. QED
  BY <1>3, <1>4

LEMMA AddsExists ==
    ASSUME NEW S, IsFiniteSet(S), NEW f, \A x \in S : f[x] \in Int
    PROVE  \E g : Adds(g, f, S)
<1> DEFINE Bad == {s \in SUBSET S : ~(\E g : Adds(g, f, s))}
<1>1. SUFFICES ASSUME Bad # {} PROVE FALSE
  OBVIOUS
<1>2. PICK s \in Bad : \A x \in s : s \ {x} \notin Bad
  <2>1. Bad \subseteq SUBSET S
    OBVIOUS
  <2> HIDE DEF Bad
  <2>2. QED
    BY ONLY <1>1, <2>1, IsFiniteSet(S), SmallestSubset
<1>3. s \subseteq S /\ ~(\E g : Adds(g, f, s))
  OBVIOUS
<1>4. CASE s = {}
  <2>1. Adds([t \in SUBSET s |-> 0], f, s)
    BY <1>4 DEF Adds
  <2>2. QED
    BY <1>3, <2>1
<1>5. CASE s # {}
  <2>1. PICK y \in s : TRUE
    BY <1>5
  <2>2. PICK h : Adds(h, f, s \ {y})
    BY <1>2, <1>3, <2>1
  <2> DEFINE g == [t \in SUBSET s |-> IF y \in t THEN f[y] + h[t \ {y}] ELSE h[t]]
  <2>3. /\ h \in [SUBSET (s \ {y}) -> Int] /\ h[{}] = 0
        /\ \A t \in SUBSET (s \ {y}) : \A x \in t : h[t] = f[x] + h[t \ {x}]
    BY <2>2 DEF Adds
  <2>4. \A t \in SUBSET s : y \in t => t \ {y} \in SUBSET (s \ {y}) /\ g[t] = f[y] + h[t \ {y}]
    OBVIOUS
  <2>5. \A t \in SUBSET s : y \notin t => t \in SUBSET (s \ {y}) /\ g[t] = h[t]
    OBVIOUS
  <2>6. g \in [SUBSET s -> Int] /\ g[{}] = 0
    <3>1. \A t \in SUBSET s : (IF y \in t THEN f[y] + h[t \ {y}] ELSE h[t]) \in Int
      BY <1>3, <2>3
    <3>2. g[{}] = h[{}]
      BY <2>5
    <3>3. QED
      BY <2>3, <3>1, <3>2
  <2> HIDE DEF g
  <2>7. ASSUME NEW t \in SUBSET s, NEW x \in t PROVE g[t] = f[x] + g[t \ {x}]
    <3>1. f[x] \in Int /\ f[y] \in Int
      BY <1>3
    <3>2. CASE x = y
      BY <2>4, <2>5, <3>2
    <3>3. CASE x # y /\ y \in t
      <4>1. g[t] = f[y] + h[t \ {y}] /\ h[t \ {y}] = f[x] + h[(t \ {y}) \ {x}]
        BY <2>3, <2>4, <3>3
      <4> DEFINE u == (t \ {y}) \ {x}
      <4>2. g[t \ {x}] = f[y] + h[(t \ {x}) \ {y}]
        BY <2>4, <3>3
      <4>3. (t \ {x}) \ {y} = u /\ u \in SUBSET (s \ {y})
        OBVIOUS
      <4> HIDE DEF u
      <4>4. h[u] \in Int
        BY <2>3, <4>3
      <4>5. g[t \ {x}] = f[y] + h[u]
        BY ONLY <4>2, <4>3
      <4>6. g[t] = f[y] + (f[x] + h[u])
        BY ONLY <4>1 DEF u
      <4>7. QED
        BY ONLY <3>1, <4>4, <4>5, <4>6
    <3>4. CASE x # y /\ y \notin t
      <4>0. t \ {x} \in SUBSET s /\ y \notin t \ {x}
        BY <3>4
      <4>1. g[t] = h[t] /\ g[t \ {x}] = h[t \ {x}] /\ t \in SUBSET (s \ {y})
        BY ONLY <2>5, <3>4, <4>0, t \in SUBSET s
      <4>2. QED
        BY <2>3, <4>1
    <3>5. QED
      BY <3>2, <3>3, <3>4
  <2>8. Adds(g, f, s)
    BY <2>6, <2>7 DEF Adds
  <2>9. QED
    BY <1>3, <2>8
<1>6. QED
  BY <1>4, <1>5

\* whatever element the fold takes next, it computes that sum
LEMMA TotalAdds ==
    ASSUME NEW S, IsFiniteSet(S), NEW f, NEW g, Adds(g, f, S)
    PROVE  Total(f, S) = g[S]
<1>1. \A s \in SUBSET S : s # {} => Choice(s) \in s
  BY DEF Choice
<1>2. Sums(g, f, S)
  <2>1. \A s \in SUBSET S : g[s] = IF s = {} THEN 0 ELSE f[Choice(s)] + g[s \ {Choice(s)}]
    BY <1>1 DEF Adds
  <2>2. g = [s \in SUBSET S |-> g[s]]
    BY DEF Adds
  <2>3. QED
    BY ONLY <2>1, <2>2 DEF Sums
<1>3. PICK it : it = CHOOSE i : Sums(i, f, S)
  OBVIOUS
<1>4. Sums(it, f, S)
  BY <1>2, <1>3
<1> DEFINE Bad == {s \in SUBSET S : it[s] # g[s]}
<1>5. Bad = {}
  <2> SUFFICES ASSUME Bad # {} PROVE FALSE
    OBVIOUS
  <2>1. PICK s \in Bad : \A x \in s : s \ {x} \notin Bad
    BY SmallestSubset
  <2>2. s \in SUBSET S /\ it[s] # g[s]
    OBVIOUS
  <2>3. it[s] = IF s = {} THEN 0 ELSE f[Choice(s)] + it[s \ {Choice(s)}]
    BY ONLY <1>4, <2>2 DEF Sums
  <2>4. g[s] = IF s = {} THEN 0 ELSE f[Choice(s)] + g[s \ {Choice(s)}]
    BY ONLY <1>2, <2>2 DEF Sums
  <2>5. s # {} => it[s \ {Choice(s)}] = g[s \ {Choice(s)}]
    BY <1>1, <2>1, <2>2
  <2>6. QED
    BY ONLY <2>2, <2>3, <2>4, <2>5
<1>6. it[S] = g[S]
  BY <1>5
<1>7. QED
  BY <1>3, <1>6 DEF Total

LEMMA TotalIs ==
    ASSUME NEW S, IsFiniteSet(S), NEW f, \A x \in S : f[x] \in Int
    PROVE  /\ Total(f, S) \in Int /\ Total(f, {}) = 0
           /\ \A x \in S : Total(f, S) = f[x] + Total(f, S \ {x})
<1>1. PICK g : Adds(g, f, S)
  BY AddsExists
<1>2. Total(f, S) = g[S] /\ g[S] \in Int
  <2>1. g[S] \in Int
    BY <1>1 DEF Adds
  <2>2. QED
    BY <1>1, <2>1, TotalAdds
<1>3. ASSUME NEW T \in SUBSET S PROVE Total(f, T) = g[T]
  <2> DEFINE h == [s \in SUBSET T |-> g[s]]
  <2>1. Adds(h, f, T) /\ h[T] = g[T]
    BY <1>1 DEF Adds
  <2>2. IsFiniteSet(T)
    BY FS_Subset
  <2> HIDE DEF h
  <2>3. QED
    BY <2>1, <2>2, TotalAdds
<1>4. Total(f, {}) = 0
  BY <1>1, <1>3 DEF Adds
<1>5. ASSUME NEW x \in S PROVE Total(f, S) = f[x] + Total(f, S \ {x})
  <2>1. g[S] = f[x] + g[S \ {x}]
    BY <1>1 DEF Adds
  <2>2. Total(f, S \ {x}) = g[S \ {x}]
    BY <1>3
  <2>3. QED
    BY <1>2, <2>1, <2>2
<1>6. QED
  BY <1>2, <1>4, <1>5

LEMMA TotalSame ==
    ASSUME NEW S, IsFiniteSet(S), NEW f, NEW h, \A x \in S : f[x] \in Int /\ h[x] = f[x]
    PROVE  Total(h, S) = Total(f, S)
<1>1. PICK g : Adds(g, f, S)
  BY AddsExists
<1>2. Adds(g, h, S)
  BY <1>1 DEF Adds
<1>3. QED
  BY <1>1, <1>2, TotalAdds

-----------------------------------------------------------------------------
(* The board.  A call that scores puts its change on the board and holds   *)
(* it in flight until its event is on record or refused; before the board  *)
(* is filled there is no such call, and the one that fills it reads what   *)
(* nobody can add to meanwhile.                                            *)

Scoring(s) == at[s] = "append" /\ call[s].op \in {"score", "penalize"}
Scorers(a) == {s \in Ref : Scoring(s) /\ call[s].agent = a}
Changes    == [s \in Ref |-> Change(call[s])]

\* what a call has in flight for an agent
Part(s, a) == IF Scoring(s) /\ call[s].agent = a THEN Change(call[s]) ELSE 0

CallInv ==
    /\ at = [s \in Ref |-> at[s]] /\ read = [s \in Ref |-> read[s]]
    /\ call \in [Ref -> Ask \cup {NoAsk}]
    /\ scored \in Board /\ lost \in Board /\ board \in Board \cup {None}
    /\ \A s \in Ref : /\ at[s] # "idle" => call[s] \in Ask
                      /\ at[s] = "fill" => read[s] = None
                      /\ at[s] = "filling" => fill = s /\ board = None /\ read[s] \in {None, scored}

BoardInv ==
    /\ CallInv /\ BoardCoversChronicle
    /\ board = None => lost = Zero /\ \A s \in Ref : ~Scoring(s)

LEMMA AskIs ==
    ASSUME NEW ask \in Ask, ask.op \in {"score", "penalize"}
    PROVE  ask.agent \in Agent /\ Change(ask) \in Int
<1>1. ask.agent \in Agent /\ ask.by \in Int
  BY RefereeAssumption DEF RefereeAssumption, Ask
<1>2. QED
  BY <1>1 DEF Change

LEMMA InFlightIs ==
    ASSUME NEW a
    PROVE  /\ InFlight(a) = Total([s \in Ref |-> Change(call[s])], Scorers(a))
           /\ InFlight(a)' = Total([s \in Ref |-> Change(call'[s])], Scorers(a)')
<1> DEFINE T(x, c) == {s \in Ref : x[s] = "append" /\ c[s].op \in {"score", "penalize"}
                                   /\ c[s].agent = a}
           F(c) == [s \in Ref |-> Change(c[s])]
           Is(c, S, it) == it = [s \in SUBSET S |->
                             IF s = {} THEN 0
                             ELSE Change(c[Choice(s)]) + it[s \ {Choice(s)}]]
<1>1. /\ InFlight(a) = (CHOOSE it : Is(call, T(at, call), it))[T(at, call)]
      /\ InFlight(a)' = (CHOOSE it : Is(call', T(at', call'), it))[T(at', call')]
  BY DEF InFlight, MapThenSumSet, MapThenFoldSet, Choice, Change
<1>2. ASSUME NEW c, NEW S, S \subseteq Ref
      PROVE  (CHOOSE it : Is(c, S, it))[S] = Total(F(c), S)
  <2> DEFINE f == F(c)
  <2>1. \A s \in SUBSET S : s # {} => f[Choice(s)] = Change(c[Choice(s)])
    BY <1>2 DEF Choice
  <2>2. ASSUME NEW it PROVE Is(c, S, it) <=> Sums(it, f, S)
    <3> HIDE DEF f
    <3>1. [s \in SUBSET S |->
              IF s = {} THEN 0 ELSE Change(c[Choice(s)]) + it[s \ {Choice(s)}]]
          = [s \in SUBSET S |->
              IF s = {} THEN 0 ELSE f[Choice(s)] + it[s \ {Choice(s)}]]
      BY ONLY <2>1
    <3>2. QED
      BY ONLY <3>1 DEF Sums
  <2> HIDE DEF Is, f
  <2>3. (CHOOSE it : Is(c, S, it)) = (CHOOSE it : Sums(it, f, S))
    BY <2>2
  <2>4. (CHOOSE it : Is(c, S, it))[S] = Total(f, S)
    BY ONLY <2>3 DEF Total
  <2>5. QED
    BY <2>4 DEF f
<1> HIDE DEF Is
<1>3. /\ Scorers(a) = T(at, call) /\ Scorers(a)' = T(at', call')
      /\ T(at, call) \subseteq Ref /\ T(at', call') \subseteq Ref
  BY DEF Scorers, Scoring
<1> HIDE DEF T
<1>4. (CHOOSE it : Is(call, T(at, call), it))[T(at, call)] = Total(F(call), T(at, call))
  BY <1>2, <1>3
<1>5. (CHOOSE it : Is(call', T(at', call'), it))[T(at', call')] = Total(F(call'), T(at', call'))
  BY <1>2, <1>3
<1>6. QED
  BY <1>1, <1>3, <1>4, <1>5

\* one call moves: what the others have in flight stays
Only(s) ==
    /\ at' = [t \in Ref |-> at'[t]] /\ read' = [t \in Ref |-> read'[t]]
    /\ call' = [t \in Ref |-> call'[t]]
    /\ \A t \in Ref \ {s} : at'[t] = at[t] /\ call'[t] = call[t] /\ read'[t] = read[t]

LEMMA UseOnly ==
    ASSUME CallInv, NEW s \in Ref, NEW b, NEW ask, Use(s, b, ask),
           call' = [t \in Ref |-> call'[t]], \A t \in Ref \ {s} : call'[t] = call[t]
    PROVE  Only(s)
<1>1. \E x : at' = [at EXCEPT ![s] = x]
  BY UseMoves
<1>2. \E x : read' = [read EXCEPT ![s] = x]
  <2>1. CASE ask.op \in {"score", "penalize"}
    BY <2>1 DEF Use
  <2>2. CASE ask.op = "rule"
    BY <2>2 DEF Use
  <2>3. CASE ask.op \notin {"score", "penalize"} /\ ask.op # "rule"
    BY <2>3 DEF Use
  <2>4. QED
    BY <2>1, <2>2, <2>3
<1>3. QED
  BY <1>1, <1>2 DEF Only, CallInv

LEMMA NeedBoardOnly ==
    ASSUME CallInv, NEW s \in Ref, NEW ask, NeedBoard(s, ask),
           call' = [t \in Ref |-> call'[t]], \A t \in Ref \ {s} : call'[t] = call[t]
    PROVE  Only(s)
<1>1. CASE board # None
  BY <1>1, UseOnly DEF NeedBoard
<1>2. CASE board = None
  BY <1>2 DEF NeedBoard, Only, CallInv
<1>3. QED
  BY <1>1, <1>2

LEMMA InFlightMoves ==
    ASSUME CallInv, NEW s \in Ref, Only(s), at'[s] # "idle" => call'[s] \in Ask, NEW a
    PROVE  /\ InFlight(a) \in Int /\ Part(s, a) \in Int /\ Part(s, a)' \in Int
           /\ InFlight(a)' = (InFlight(a) - Part(s, a)) + Part(s, a)'
<1> DEFINE f == [t \in Ref |-> Change(call[t])]
           g == [t \in Ref |-> Change(call'[t])]
           S == Scorers(a)
           U == Scorers(a)'
           R == S \ {s}
<1>1. S \subseteq Ref /\ U \subseteq Ref /\ U \ {s} = R
  BY DEF Scorers, Scoring, Only
<1>2. IsFiniteSet(S) /\ IsFiniteSet(U) /\ IsFiniteSet(R)
  BY <1>1, RefereeAssumption, FS_Subset DEF RefereeAssumption
<1>3. \A t \in S : f[t] = Change(call[t]) /\ f[t] \in Int
  BY AskIs DEF Scorers, Scoring, CallInv
<1>4. \A t \in U : g[t] = Change(call'[t]) /\ g[t] \in Int
  <2> SUFFICES ASSUME NEW t \in U PROVE g[t] = Change(call'[t]) /\ g[t] \in Int
    OBVIOUS
  <2>1. t \in Ref /\ at'[t] = "append" /\ call'[t].op \in {"score", "penalize"}
    BY DEF Scorers, Scoring
  <2>2. call'[t] \in Ask
    BY <2>1 DEF Only, CallInv
  <2>3. QED
    BY <2>1, <2>2, AskIs
<1>5. \A t \in R : g[t] = f[t] /\ f[t] \in Int
  BY <1>1, <1>3 DEF Only
<1>6. /\ s \in S <=> (Scoring(s) /\ call[s].agent = a)
      /\ s \in U <=> (Scoring(s)' /\ call'[s].agent = a)
  BY DEF Scorers, Scoring
<1>7. /\ s \in S => Part(s, a) = f[s] /\ f[s] \in Int
      /\ s \notin S => Part(s, a) = 0
      /\ s \in U => Part(s, a)' = g[s] /\ g[s] \in Int
      /\ s \notin U => Part(s, a)' = 0
  <2>1. s \in S => f[s] = Change(call[s]) /\ f[s] \in Int
    BY <1>3
  <2>2. s \in U => g[s] = Change(call'[s]) /\ g[s] \in Int
    BY <1>4
  <2> HIDE DEF f, g, S, U
  <2>3. QED
    BY <1>6, <2>1, <2>2 DEF Part, Change
<1>8. InFlight(a) = Total(f, S) /\ InFlight(a)' = Total(g, U)
  BY InFlightIs
<1>9. /\ s \in S => Total(f, S) = f[s] + Total(f, R)
      /\ s \notin S => Total(f, S) = Total(f, R)
  <2> HIDE DEF f
  <2>1. s \notin S => R = S
    OBVIOUS
  <2>2. s \in S => Total(f, S) = f[s] + Total(f, R)
    BY <1>2, <1>3, TotalIs
  <2>3. QED
    BY <2>1, <2>2
<1>10. /\ s \in U => Total(g, U) = g[s] + Total(g, R)
       /\ s \notin U => Total(g, U) = Total(g, R)
  <2> HIDE DEF g, R, U
  <2>1. s \notin U => U \ {s} = U
    OBVIOUS
  <2>2. s \in U => Total(g, U) = g[s] + Total(g, U \ {s})
    BY <1>2, <1>4, TotalIs
  <2>3. QED
    BY <1>1, <2>1, <2>2
<1> HIDE DEF f, g, S, U, R
<1>11. Total(g, R) = Total(f, R) /\ Total(f, R) \in Int
  BY <1>2, <1>5, TotalSame, TotalIs
<1>12. QED
  BY ONLY <1>7, <1>8, <1>9, <1>10, <1>11

LEMMA NothingInFlight ==
    ASSUME CallInv, \A s \in Ref : ~Scoring(s), NEW a
    PROVE  InFlight(a) = 0
<1>1. Scorers(a) = {}
  BY DEF Scorers
<1>2. Total(Changes, {}) = 0
  <2>1. Adds([s \in SUBSET {} |-> 0], Changes, {})
    BY DEF Adds
  <2>2. QED
    BY <2>1, FS_EmptySet, TotalAdds
<1>3. QED
  BY <1>1, <1>2, InFlightIs DEF Changes

\* a call that has nothing in flight goes where it has nothing either
LEMMA ElsewhereKeeps ==
    ASSUME BoardInv, NEW s \in Ref, Only(s), ~Scoring(s), ~Scoring(s)',
           call'[s] \in Ask \cup {NoAsk}, at'[s] # "idle" => call'[s] \in Ask,
           UNCHANGED <<board, scored, lost>>,
           fill' = fill \/ \A t \in Ref \ {s} : at[t] # "filling",
           at'[s] = "fill" => read'[s] = None,
           at'[s] = "filling" => fill' = s /\ board = None /\ read'[s] \in {None, scored}
    PROVE  BoardInv'
<1>0. board' = board /\ scored' = scored /\ lost' = lost /\ CallInv
  BY DEF BoardInv
<1>1. CallInv'
  <2>1. call' \in [Ref -> Ask \cup {NoAsk}]
    BY <1>0 DEF CallInv, Only
  <2>2. ASSUME NEW t \in Ref
        PROVE  /\ at'[t] # "idle" => call'[t] \in Ask
               /\ at'[t] = "fill" => read'[t] = None
               /\ at'[t] = "filling" => fill' = t /\ board' = None /\ read'[t] \in {None, scored'}
    <3>1. CASE t = s
      BY <1>0, <3>1
    <3>2. CASE t # s
      BY <1>0, <3>2 DEF CallInv, Only
    <3>3. QED
      BY <3>1, <3>2
  <2>3. QED
    BY <1>0, <2>1, <2>2 DEF CallInv, Only
<1>2. \A a \in Agent : InFlight(a)' = InFlight(a)
  <2> SUFFICES ASSUME NEW a \in Agent PROVE InFlight(a)' = InFlight(a)
    OBVIOUS
  <2>1. Part(s, a) = 0 /\ Part(s, a)' = 0
    BY DEF Part
  <2>2. InFlight(a) \in Int /\ InFlight(a)' = (InFlight(a) - Part(s, a)) + Part(s, a)'
    BY <1>0, InFlightMoves
  <2>3. QED
    BY ONLY <2>1, <2>2
<1>3. BoardCoversChronicle'
  BY <1>0, <1>2 DEF BoardInv, BoardCoversChronicle
<1>4. board' = None => lost' = Zero /\ \A t \in Ref : ~Scoring(t)'
  BY <1>0 DEF BoardInv, Only, Scoring
<1>5. QED
  BY <1>1, <1>3, <1>4 DEF BoardInv

\* a call with its board: a score goes on it and is in flight
LEMMA UseKeeps ==
    ASSUME BoardInv, NEW s \in Ref, Only(s), ~Scoring(s), NEW b \in Board, NEW ask \in Ask,
           call'[s] = ask, Use(s, b, ask), UNCHANGED <<scored, lost>>,
           \A t \in Ref \ {s} : at[t] # "filling",
           \A a \in Agent : b[a] = (scored[a] + InFlight(a)) + lost[a]
    PROVE  BoardInv'
<1>0. scored' = scored /\ lost' = lost /\ CallInv /\ at = [t \in Ref |-> at[t]]
  BY DEF BoardInv, CallInv
<1>1. at'[s] \in {"append", "idle"}
  BY <1>0 DEF Use
<1>2. IF ask.op \in {"score", "penalize"} THEN board' = Added(b, ask) /\ at'[s] = "append"
                                          ELSE board' = b /\ ~Scoring(s)'
  <2>1. CASE ask.op \in {"score", "penalize"}
    BY <1>0, <2>1 DEF Use
  <2>2. CASE ask.op \notin {"score", "penalize"}
    BY <2>2 DEF Use, Scoring
  <2>3. QED
    BY <2>1, <2>2
<1>3. \A a \in Agent : /\ InFlight(a) \in Int /\ Part(s, a)' \in Int
                       /\ InFlight(a)' = InFlight(a) + Part(s, a)'
  <2> SUFFICES ASSUME NEW a \in Agent
               PROVE  /\ InFlight(a) \in Int /\ Part(s, a)' \in Int
                      /\ InFlight(a)' = InFlight(a) + Part(s, a)'
    OBVIOUS
  <2>1. Part(s, a) = 0
    BY DEF Part
  <2>2. /\ InFlight(a) \in Int /\ Part(s, a)' \in Int
        /\ InFlight(a)' = (InFlight(a) - Part(s, a)) + Part(s, a)'
    BY <1>0, InFlightMoves
  <2>3. QED
    BY ONLY <2>1, <2>2
<1>4. board' \in Board /\ \A a \in Agent : board'[a] = b[a] + Part(s, a)'
  <2>1. CASE ask.op \in {"score", "penalize"}
    <3>1. ask.agent \in Agent /\ Change(ask) \in Int
      BY <2>1, AskIs
    <3>2. board' = [b EXCEPT ![ask.agent] = b[ask.agent] + Change(ask)]
      BY <1>2, <2>1 DEF Added
    <3>3. b \in [Agent -> Int]
      BY DEF Board
    <3>4. \A a \in Agent : Part(s, a)' = IF a = ask.agent THEN Change(ask) ELSE 0
      BY <1>2, <2>1 DEF Part, Scoring, Change
    <3>5. board' \in [Agent -> Int]
      BY ONLY <3>1, <3>2, <3>3
    <3>6. \A a \in Agent : board'[a] = IF a = ask.agent THEN b[a] + Change(ask) ELSE b[a]
      BY ONLY <3>1, <3>2, <3>3
    <3>7. QED
      BY ONLY <3>3, <3>4, <3>5, <3>6 DEF Board
  <2>2. CASE ask.op \notin {"score", "penalize"}
    <3>1. board' = b /\ \A a \in Agent : Part(s, a)' = 0
      BY <1>2, <2>2 DEF Part
    <3>2. \A a \in Agent : b[a] \in Int
      BY DEF Board
    <3>3. QED
      BY <3>1, <3>2
  <2>3. QED
    BY <2>1, <2>2
<1>5. board' # None
  BY <1>4, RefereeAssumption DEF RefereeAssumption, Board
<1>6. CallInv'
  <2>1. call' \in [Ref -> Ask \cup {NoAsk}]
    BY <1>0 DEF CallInv, Only
  <2>2. ASSUME NEW t \in Ref
        PROVE  /\ at'[t] # "filling" /\ (at'[t] # "idle" => call'[t] \in Ask)
               /\ at'[t] = "fill" => read'[t] = None
    BY <1>0, <1>1 DEF CallInv, Only
  <2>3. QED
    BY <1>0, <1>4, <2>1, <2>2 DEF CallInv, Only
<1>7. BoardCoversChronicle'
  <2> SUFFICES ASSUME NEW a \in Agent
               PROVE  board'[a] = scored'[a] + InFlight(a)' + lost'[a]
    BY DEF BoardCoversChronicle
  <2>1. scored[a] \in Int /\ lost[a] \in Int
    BY <1>0 DEF CallInv, Board
  <2>2. b[a] = (scored[a] + InFlight(a)) + lost[a]
    OBVIOUS
  <2>3. /\ InFlight(a) \in Int /\ Part(s, a)' \in Int
        /\ InFlight(a)' = InFlight(a) + Part(s, a)' /\ board'[a] = b[a] + Part(s, a)'
    BY <1>3, <1>4
  <2>4. board'[a] = scored[a] + InFlight(a)' + lost[a]
    BY ONLY <2>1, <2>2, <2>3
  <2>5. QED
    BY <1>0, <2>4
<1>8. QED
  BY <1>5, <1>6, <1>7 DEF BoardInv

\* a warm board is the scores on record, those in flight and those refused
LEMMA WarmBoard ==
    ASSUME BoardInv, board # None
    PROVE  /\ board \in Board /\ \A t \in Ref : at[t] # "filling"
           /\ \A a \in Agent : board[a] = (scored[a] + InFlight(a)) + lost[a]
  BY DEF BoardInv, CallInv, BoardCoversChronicle

LEMMA NeedBoardKeeps ==
    ASSUME BoardInv, NEW s \in Ref, Only(s), ~Scoring(s), NEW ask \in Ask,
           call'[s] = ask, NeedBoard(s, ask), UNCHANGED <<scored, lost, fill>>
    PROVE  BoardInv'
<1>1. CASE board # None
  BY <1>1, WarmBoard, UseKeeps DEF NeedBoard
<1>2. CASE board = None
  <2>1. /\ at' = [at EXCEPT ![s] = "fill"] /\ board' = board /\ at = [t \in Ref |-> at[t]]
        /\ read' = [read EXCEPT ![s] = None] /\ read = [t \in Ref |-> read[t]]
    BY <1>2 DEF NeedBoard, BoardInv, CallInv
  <2>2. at'[s] = "fill" /\ read'[s] = None
    BY <2>1
  <2>3. ~Scoring(s)'
    BY <2>2 DEF Scoring
  <2>4. QED
    BY <2>1, <2>2, <2>3, ElsewhereKeeps
<1>3. QED
  BY <1>1, <1>2

\* the event of a score is on record, or refused
LEMMA SettlesKeeps ==
    ASSUME BoardInv, NEW s \in Ref, Only(s), Scoring(s), at'[s] = "idle", call' = call,
           UNCHANGED <<board, fill>>,
           \/ lost' = lost /\ scored' = [scored EXCEPT ![call[s].agent] = @ + Change(call[s])]
           \/ scored' = scored /\ lost' = [lost EXCEPT ![call[s].agent] = @ + Change(call[s])]
    PROVE  BoardInv'
<1> DEFINE who == call[s].agent
           by == Change(call[s])
<1>0. CallInv /\ board' = board /\ fill' = fill /\ board # None
  BY DEF BoardInv
<1>1. call[s] \in Ask /\ who \in Agent /\ by \in Int
  BY <1>0, AskIs DEF CallInv, Scoring
<1>2. scored \in [Agent -> Int] /\ lost \in [Agent -> Int]
  BY <1>0 DEF CallInv, Board
<1>p. \A a \in Agent : Part(s, a) = (IF a = who THEN by ELSE 0) /\ Part(s, a)' = 0
  BY DEF Part, Scoring
<1> HIDE DEF who, by
<1>3. /\ scored' \in [Agent -> Int] /\ lost' \in [Agent -> Int]
      /\ \A a \in Agent : scored'[a] + lost'[a]
                          = (scored[a] + lost[a]) + (IF a = who THEN by ELSE 0)
  <2>1. CASE lost' = lost /\ scored' = [scored EXCEPT ![who] = @ + by]
    BY <1>1, <1>2, <2>1
  <2>2. CASE scored' = scored /\ lost' = [lost EXCEPT ![who] = @ + by]
    BY <1>1, <1>2, <2>2
  <2>3. QED
    BY <2>1, <2>2 DEF who, by
<1>4. CallInv'
  <2>1. \A t \in Ref : at[t] # "filling"
    BY <1>0 DEF CallInv
  <2>2. ASSUME NEW t \in Ref
        PROVE  /\ at'[t] # "filling" /\ (at'[t] # "idle" => call'[t] \in Ask)
               /\ at'[t] = "fill" => read'[t] = None
    BY <1>0, <2>1 DEF CallInv, Only
  <2>3. QED
    BY <1>0, <1>3, <2>2 DEF CallInv, Only, Board
<1>5. BoardCoversChronicle'
  <2> SUFFICES ASSUME NEW a \in Agent
               PROVE  board'[a] = scored'[a] + InFlight(a)' + lost'[a]
    BY DEF BoardCoversChronicle
  <2>1. /\ scored[a] \in Int /\ lost[a] \in Int /\ scored'[a] \in Int /\ lost'[a] \in Int
        /\ scored'[a] + lost'[a] = (scored[a] + lost[a]) + (IF a = who THEN by ELSE 0)
    BY <1>2, <1>3
  <2>2. board[a] = (scored[a] + InFlight(a)) + lost[a]
    BY <1>0, WarmBoard
  <2>3. InFlight(a) \in Int /\ InFlight(a)' = (InFlight(a) - Part(s, a)) + Part(s, a)'
    BY <1>0, InFlightMoves
  <2>4. Part(s, a) = (IF a = who THEN by ELSE 0) /\ Part(s, a)' = 0
    BY <1>p
  <2>5. QED
    BY ONLY <1>0, <1>1, <2>1, <2>2, <2>3, <2>4
<1>6. QED
  BY <1>0, <1>4, <1>5 DEF BoardInv

-----------------------------------------------------------------------------
(* The steps of a call.                                                    *)

LEMMA AskedBoard == ASSUME BoardInv, NEW s \in Ref, NEW ask \in Ask, Asked(s, ask) PROVE BoardInv'
<1>1. /\ at[s] = "idle" /\ call' = [call EXCEPT ![s] = ask] /\ CallInv
      /\ scored' = scored /\ lost' = lost /\ fill' = fill
  BY DEF Asked, BoardInv
<1>2. call' = [t \in Ref |-> call'[t]] /\ call'[s] = ask /\ ~Scoring(s)
      /\ \A t \in Ref \ {s} : call'[t] = call[t]
  BY <1>1 DEF CallInv, Scoring
<1>3. CASE ask.op \in {"score", "scoreboard"}
  <2>1. NeedBoard(s, ask)
    BY <1>3 DEF Asked
  <2>2. Only(s)
    BY <1>1, <1>2, <2>1, NeedBoardOnly
  <2>3. QED
    BY <1>1, <1>2, <2>1, <2>2, NeedBoardKeeps
<1>4. CASE ask.op \notin {"score", "scoreboard"}
  <2>1. board' = board /\ read' = read
    BY <1>4 DEF Asked
  <2>2. PICK x \in {"flag", "append", "idle", "prior"} :
           at' = [at EXCEPT ![s] = x] /\ (x = "append" => ask.op # "penalize")
    <3>1. CASE ask.op = "penalize"
      BY <3>1 DEF Asked
    <3>2. CASE ask.op = "flag"
      BY <3>2 DEF Asked
    <3>3. CASE ask.op = "eliminate"
      BY <3>3 DEF Asked
    <3>4. CASE ask.op \notin {"score", "scoreboard", "penalize", "flag", "eliminate"}
      BY <3>4 DEF Asked
    <3>5. QED
      BY <1>4, <3>1, <3>2, <3>3, <3>4
  <2>3. at'[s] = x /\ at' = [t \in Ref |-> at'[t]] /\ \A t \in Ref \ {s} : at'[t] = at[t]
    BY <1>1, <2>2 DEF CallInv
  <2>4. Only(s) /\ ~Scoring(s)'
    BY <1>1, <1>2, <1>4, <2>1, <2>2, <2>3 DEF Only, Scoring, CallInv
  <2>5. QED
    BY <1>1, <1>2, <2>1, <2>2, <2>3, <2>4, ElsewhereKeeps
<1>5. QED
  BY <1>3, <1>4

LEMMA CallStepBoard == ASSUME BoardInv, NEW s \in Ref, CallStep(s) PROVE BoardInv'
<1>0. CallInv /\ at = [t \in Ref |-> at[t]] /\ call = [t \in Ref |-> call[t]]
      /\ call[s] \in Ask \cup {NoAsk} /\ (at[s] # "idle" => call[s] \in Ask)
      /\ read = [t \in Ref |-> read[t]]
  BY DEF BoardInv, CallInv
<1>s. at[s] # "append" => ~Scoring(s)
  BY DEF Scoring
<1>1. CASE TakeLock(s)
  <2>1. /\ at[s] = "fill" /\ fill = None /\ call' = call /\ scored' = scored /\ lost' = lost
    BY <1>1 DEF TakeLock
  <2>2. CASE board # None
    <3>1. Use(s, board, call[s])
      BY <1>1, <2>2 DEF TakeLock
    <3>2. Only(s)
      BY <1>0, <2>1, <3>1, UseOnly
    <3>3. QED
      BY <1>0, <1>s, <2>1, <2>2, <3>1, <3>2, WarmBoard, UseKeeps
  <2>3. CASE board = None
    <3>1. fill' = s /\ at' = [at EXCEPT ![s] = "filling"] /\ board' = board /\ read' = read
      BY <1>1, <2>3 DEF TakeLock
    <3>2. Only(s) /\ at'[s] = "filling" /\ read'[s] = read[s]
      BY <1>0, <2>1, <3>1 DEF Only
    <3>3. ~Scoring(s)'
      BY <3>2 DEF Scoring
    <3>4. \A t \in Ref : at[t] # "filling"
      BY <1>0, <2>1, RefereeAssumption DEF CallInv, RefereeAssumption
    <3>5. read[s] = None
      BY <1>0, <2>1 DEF CallInv
    <3>6. QED
      BY <1>0, <1>s, <2>1, <2>3, <3>1, <3>2, <3>3, <3>4, <3>5, ElsewhereKeeps
  <2>4. QED
    BY <2>2, <2>3
<1>2. CASE ScoresRead(s)
  <2>1. /\ at[s] = "filling" /\ call' = call /\ scored' = scored /\ lost' = lost /\ at' = at
        /\ board' = board /\ fill' = fill /\ read' = [read EXCEPT ![s] = scored]
    BY <1>2 DEF ScoresRead
  <2>2. Only(s) /\ read'[s] = scored /\ fill = s /\ board = None
    BY <1>0, <2>1 DEF Only, CallInv
  <2>3. ~Scoring(s)'
    BY <2>1 DEF Scoring
  <2>4. QED
    BY <1>0, <1>s, <2>1, <2>2, <2>3, ElsewhereKeeps
<1>3. CASE Filled(s)
  <2>1. /\ at[s] = "filling" /\ read[s] # None /\ call' = call /\ scored' = scored /\ lost' = lost
        /\ Use(s, read[s], call[s])
    BY <1>3 DEF Filled
  <2>2. fill = s /\ board = None /\ read[s] = scored /\ scored \in Board
    BY <1>0, <2>1 DEF CallInv
  <2>3. \A t \in Ref \ {s} : at[t] # "filling"
    BY <1>0, <2>2 DEF CallInv
  <2>4. Only(s)
    BY <1>0, <2>1, UseOnly
  <2>5. \A a \in Agent : scored[a] = (scored[a] + InFlight(a)) + lost[a]
    <3>1. lost = Zero /\ \A t \in Ref : ~Scoring(t)
      BY <2>2 DEF BoardInv
    <3>2. \A a \in Agent : InFlight(a) = 0
      BY <1>0, <3>1, NothingInFlight
    <3>3. \A a \in Agent : lost[a] = 0 /\ scored[a] \in Int
      BY <2>2, <3>1 DEF Zero, Board
    <3>4. QED
      BY <3>2, <3>3
  <2>6. QED
    BY <1>0, <1>s, <2>1, <2>2, <2>3, <2>4, <2>5, UseKeeps
<1>4. CASE PriorRead(s)
  <2>1. /\ at[s] = "prior" /\ call' = call /\ scored' = scored /\ lost' = lost /\ board' = board
        /\ fill' = fill
    BY <1>4 DEF PriorRead
  <2>2. \/ Ends(s)
        \/ at' = [at EXCEPT ![s] = "turns"] /\ read' = read
    BY <1>4 DEF PriorRead
  <2>3. Only(s) /\ at'[s] \in {"idle", "turns"}
    BY <1>0, <2>1, <2>2 DEF Only, Ends
  <2>4. ~Scoring(s)'
    BY <2>3 DEF Scoring
  <2>5. QED
    BY <1>0, <1>s, <2>1, <2>3, <2>4, ElsewhereKeeps
<1>5. CASE TurnsRead(s)
  <2>1. /\ at[s] = "turns" /\ call' = call /\ scored' = scored /\ lost' = lost /\ fill' = fill
    BY <1>5 DEF TurnsRead
  <2>2. CASE Ends(s) /\ board' = board
    <3>1. Only(s) /\ at'[s] = "idle"
      BY <1>0, <2>1, <2>2 DEF Only, Ends
    <3>2. ~Scoring(s)'
      BY <3>1 DEF Scoring
    <3>3. QED
      BY <1>0, <1>s, <2>1, <2>2, <3>1, <3>2, ElsewhereKeeps
  <2>3. CASE NeedBoard(s, call[s])
    <3>1. Only(s)
      BY <1>0, <2>1, <2>3, NeedBoardOnly
    <3>2. QED
      BY <1>0, <1>s, <2>1, <2>3, <3>1, NeedBoardKeeps
  <2>4. QED
    BY <1>5, <2>2, <2>3 DEF TurnsRead
<1>6. CASE FlagLands(s)
  <2>1. /\ at[s] = "flag" /\ call' = call /\ scored' = scored /\ lost' = lost /\ fill' = fill
        /\ NeedBoard(s, call[s])
    BY <1>6 DEF FlagLands
  <2>2. Only(s)
    BY <1>0, <2>1, NeedBoardOnly
  <2>3. QED
    BY <1>0, <1>s, <2>1, <2>2, NeedBoardKeeps
<1>7. CASE Lands(s)
  <2>1. /\ at[s] = "append" /\ call' = call /\ lost' = lost /\ fill' = fill /\ board' = board
        /\ Ends(s)
        /\ scored' = IF call[s].op \in {"score", "penalize"}
                     THEN [scored EXCEPT ![call[s].agent] = @ + Change(call[s])] ELSE scored
    BY <1>7 DEF Lands
  <2>2. Only(s) /\ at'[s] = "idle"
    BY <1>0, <2>1 DEF Only, Ends
  <2>3. CASE Scoring(s)
    BY <2>1, <2>2, <2>3, SettlesKeeps DEF Scoring
  <2>4. CASE ~Scoring(s)
    <3>1. scored' = scored /\ ~Scoring(s)'
      BY <2>1, <2>2, <2>4 DEF Scoring
    <3>2. QED
      BY <1>0, <2>1, <2>2, <2>4, <3>1, ElsewhereKeeps
  <2>5. QED
    BY <2>3, <2>4
<1>8. QED
  BY <1>1, <1>2, <1>3, <1>4, <1>5, <1>6, <1>7 DEF CallStep

LEMMA CallFailsBoard == ASSUME BoardInv, NEW s \in Ref, CallFails(s) PROVE BoardInv'
<1>0. CallInv /\ at = [t \in Ref |-> at[t]] /\ call = [t \in Ref |-> call[t]]
      /\ call[s] \in Ask \cup {NoAsk} /\ read = [t \in Ref |-> read[t]]
  BY DEF BoardInv, CallInv
<1>1. /\ call' = call /\ scored' = scored /\ board' = board /\ Ends(s)
      /\ fill' = (IF at[s] = "filling" THEN None ELSE fill)
      /\ lost' = IF Scoring(s) THEN [lost EXCEPT ![call[s].agent] = @ + Change(call[s])]
                 ELSE lost
  BY DEF CallFails, Scoring
<1>2. Only(s) /\ at'[s] = "idle"
  BY <1>0, <1>1 DEF Only, Ends
<1>3. CASE Scoring(s)
  <2>1. fill' = fill
    BY <1>1, <1>3 DEF Scoring
  <2>2. QED
    BY <1>1, <1>2, <1>3, <2>1, SettlesKeeps
<1>4. CASE ~Scoring(s)
  <2>1. lost' = lost /\ ~Scoring(s)'
    BY <1>1, <1>2, <1>4 DEF Scoring
  <2>2. fill' = fill \/ \A t \in Ref \ {s} : at[t] # "filling"
    BY <1>0, <1>1 DEF CallInv
  <2>3. QED
    BY <1>0, <1>1, <1>2, <1>4, <2>1, <2>2, ElsewhereKeeps
<1>5. QED
  BY <1>3, <1>4

LEMMA BoardStep == BoardInv /\ [Next]_arbiterVars => BoardInv'
<1> SUFFICES ASSUME BoardInv, [Next]_arbiterVars PROVE BoardInv'
  OBVIOUS
<1>1. ASSUME NEW s \in Ref, NEW ask \in Ask, Asked(s, ask) PROVE BoardInv'
  BY <1>1, AskedBoard
<1>2. ASSUME NEW s \in Ref, CallStep(s) PROVE BoardInv'
  BY <1>2, CallStepBoard
<1>3. ASSUME NEW s \in Ref, CallFails(s) PROVE BoardInv'
  BY <1>3, CallFailsBoard
<1>4. CASE ArbiterRestart
  <2>1. /\ board' = None /\ at' = [s \in Ref |-> "idle"] /\ read' = [s \in Ref |-> None]
        /\ lost' = Zero /\ call' = call /\ scored' = scored
    BY <1>4 DEF ArbiterRestart
  <2>2. lost' \in Board
    BY <2>1 DEF Zero, Board
  <2>3. CallInv'
    BY <2>1, <2>2 DEF BoardInv, CallInv
  <2>4. QED
    BY <2>1, <2>3 DEF BoardInv, BoardCoversChronicle, Scoring
<1>5. CASE RoundOpens \/ UNCHANGED arbiterVars
  <2>1. /\ board' = board /\ at' = at /\ read' = read /\ lost' = lost /\ call' = call
        /\ scored' = scored /\ fill' = fill
    BY <1>5 DEF RoundOpens, arbiterVars
  <2>2. \A a : InFlight(a)' = InFlight(a)
    BY <2>1, InFlightIs DEF Scorers, Scoring
  <2>3. CallInv'
    BY <2>1 DEF BoardInv, CallInv
  <2>4. QED
    BY <2>1, <2>2, <2>3 DEF BoardInv, BoardCoversChronicle, Scoring
<1>6. QED
  BY <1>1, <1>2, <1>3, <1>4, <1>5 DEF Next

\* The cached board is the score events replayed, with the increments in flight and those
\* the chronicle refused, for any number of calls that interleave on a cold or a warm board
\* and of agents, amounts and restarts (arbiter.py:47-71, 82).
THEOREM BoardCovers == Spec => []BoardCoversChronicle
<1>1. Init => BoardInv
  BY DEF Init, BoardInv, CallInv, BoardCoversChronicle, Scoring, Zero, Board
<1>2. BoardInv => BoardCoversChronicle
  BY DEF BoardInv
<1>3. QED
  BY <1>1, <1>2, BoardStep, PTL DEF Spec
=============================================================================
