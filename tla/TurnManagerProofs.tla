-------------------------- MODULE TurnManagerProofs --------------------------
(***************************************************************************)
(* What is proved of TurnManager, for every roster, bound and setting.     *)
(***************************************************************************)
EXTENDS TurnManager, SequenceTheorems, TLAPS

-----------------------------------------------------------------------------
(* Taking one element out of a sequence.                                   *)

LEMMA RemoveAtFacts ==
    ASSUME NEW S, NEW s \in Seq(S), NEW k \in 1..Len(s)
    PROVE  /\ RemoveAt(s, k) \in Seq(S)
           /\ Len(RemoveAt(s, k)) = Len(s) - 1
           /\ \A i \in 1..(Len(s) - 1) :
                 RemoveAt(s, k)[i] = IF i < k THEN s[i] ELSE s[i + 1]
<1> DEFINE front == SubSeq(s, 1, k - 1)
           back  == SubSeq(s, k + 1, Len(s))
<1>1. /\ front \in Seq(S)
      /\ Len(front) = k - 1
      /\ \A i \in 1..(k - 1) : front[i] = s[i]
  BY SubSeqProperties
<1>2. /\ back \in Seq(S)
      /\ Len(back) = Len(s) - k
      /\ \A i \in 1..(Len(s) - k) : back[i] = s[k + i]
  BY SubSeqProperties
<1>4. RemoveAt(s, k) = front \o back
  BY DEF RemoveAt
<1> HIDE DEF front, back
<1>3. /\ front \o back \in Seq(S)
      /\ Len(front \o back) = Len(s) - 1
      /\ \A i \in 1..(Len(s) - 1) :
            (front \o back)[i] = IF i <= k - 1 THEN front[i] ELSE back[i - (k - 1)]
  <2>1. /\ front \o back \in Seq(S)
        /\ Len(front \o back) = Len(front) + Len(back)
        /\ \A i \in 1..(Len(front) + Len(back)) :
              (front \o back)[i] = IF i <= Len(front) THEN front[i] ELSE back[i - Len(front)]
    BY <1>1, <1>2, ConcatProperties
  <2>2. Len(front) + Len(back) = Len(s) - 1
    BY <1>1, <1>2, LenProperties
  <2> QED
    BY <2>1, <2>2, <1>1
<1> QED
  BY <1>1, <1>2, <1>3, <1>4

\* in a sequence without repetition exactly that element goes
LEMMA RemoveAtSet ==
    ASSUME NEW S, NEW s \in Seq(S), NEW k \in 1..Len(s),
           \A i, j \in 1..Len(s) : s[i] = s[j] => i = j
    PROVE  /\ ToSet(RemoveAt(s, k)) = ToSet(s) \ {s[k]}
           /\ \A i, j \in 1..Len(RemoveAt(s, k)) : RemoveAt(s, k)[i] = RemoveAt(s, k)[j] => i = j
<1> DEFINE t == RemoveAt(s, k)
<1>1. /\ t \in Seq(S)
      /\ Len(t) = Len(s) - 1
      /\ \A i \in 1..(Len(s) - 1) : t[i] = IF i < k THEN s[i] ELSE s[i + 1]
  BY RemoveAtFacts
<1> HIDE DEF t
<1>2. \A i, j \in 1..Len(t) : t[i] = t[j] => i = j
  <2> SUFFICES ASSUME NEW i \in 1..Len(t), NEW j \in 1..Len(t), t[i] = t[j]
               PROVE  i = j
    OBVIOUS
  <2> DEFINE up(n) == IF n < k THEN n ELSE n + 1
  <2>1. up(i) \in 1..Len(s) /\ up(j) \in 1..Len(s)
    BY <1>1
  <2>2. s[up(i)] = s[up(j)]
    BY <1>1
  <2>3. up(i) = up(j)
    BY <2>1, <2>2
  <2> QED
    BY <2>3
<1>3. ToSet(t) \subseteq ToSet(s) \ {s[k]}
  <2> SUFFICES ASSUME NEW i \in 1..Len(t)
               PROVE  t[i] \in ToSet(s) \ {s[k]}
    BY <1>1 DEF ToSet
  <2> QED
    BY <1>1 DEF ToSet
<1>4. ToSet(s) \ {s[k]} \subseteq ToSet(t)
  <2> SUFFICES ASSUME NEW i \in 1..Len(s), i # k
               PROVE  s[i] \in ToSet(t)
    BY DEF ToSet
  <2>1. CASE i < k
    BY <2>1, <1>1 DEF ToSet
  <2>2. CASE i > k
    <3>1. i - 1 \in 1..Len(t) /\ t[i - 1] = s[i]
      BY <2>2, <1>1
    <3> QED
      BY <3>1, <1>1 DEF ToSet
  <2> QED
    BY <2>1, <2>2
<1> QED
  BY <1>2, <1>3, <1>4 DEF t

-----------------------------------------------------------------------------
(* Type correctness.  A grant is only ever reached with a holder to grant  *)
(* to, which is what keeps the gate's value a participant.                 *)

TypeInv == /\ TypeOK
           /\ pc \in {"grant", "complete"} => InRange
           /\ pc = "lapse" => order # <<>>
           /\ pc = "boot" => position = 0

LEMMA InRangeFacts ==
    ASSUME TypeOK, InRange
    PROVE  /\ position + 1 \in 1..Len(order)
           /\ Holder \in Participants
           /\ order # <<>>
  BY ElementOfSeq, LenProperties, EmptySeq DEF TypeOK, InRange, Holder

LEMMA NonEmptyFacts ==
    ASSUME TypeOK, order # <<>>
    PROVE  Len(order) > 0
  BY EmptySeq, LenProperties DEF TypeOK

LEMMA TalliedFacts ==
    ASSUME TypeOK
    PROVE  Tallied \subseteq Post
<1>1. \A i \in DOMAIN inbox : inbox[i] \in Post
  BY ElementOfSeq, LenProperties DEF TypeOK
<1> QED
  BY <1>1 DEF TypeOK, Tallied

LEMMA InitTypeInv == Init => TypeInv
<1> SUFFICES ASSUME Init PROVE TypeInv
  OBVIOUS
<1>1. Len(InitOrder) \in Nat
  BY TurnAssumption, LenProperties
<1>2. /\ <<>> \in Seq(Post) /\ <<>> \in Seq(Participants \cup {NoOne})
  BY EmptySeq
<1>3. order \in Seq(Participants) /\ position \in Nat /\ position <= Len(order)
  BY <1>1, TurnAssumption DEF Init
<1>4. round \in Nat \ {0} /\ misses \in [Participants -> Nat] /\ turnLog \in [round : Nat, min : Nat]
  BY DEF Init
<1>5. inbox \in Seq(Post) /\ elimLog \in Seq(Participants \cup {NoOne})
  BY <1>2 DEF Init
<1>6. roundMsgs \subseteq Post /\ had \subseteq Participants
  BY DEF Init
<1>7. batch \subseteq 1..Len(elimLog) /\ applied \subseteq 1..Len(elimLog)
  BY DEF Init
<1>8. cued \in Nat /\ completed \in Nat
  BY DEF Init
<1>9. started \in BOOLEAN /\ waited \in BOOLEAN /\ spoke \in BOOLEAN /\ raised \in BOOLEAN
  BY DEF Init
<1>10. pc \in Labels /\ phase \in {"start", "observe", "apply"} /\ awaiting \in {"none", "opener", "round"}
  BY DEF Init, Labels
<1>11. held \in Participants \cup {Nobody} /\ gate \in Participants \cup {Nobody, Everyone}
  BY DEF Init
<1>12. TypeOK
  BY <1>3, <1>4, <1>5, <1>6, <1>7, <1>8, <1>9, <1>10, <1>11 DEF TypeOK
<1> QED
  BY <1>12 DEF Init, TypeInv

LEMMA StepTypeInv == TypeInv /\ [Next]_vars => TypeInv'
<1> SUFFICES ASSUME TypeInv, [Next]_vars PROVE TypeInv'
  OBVIOUS
<1> USE DEF TypeInv, TypeOK, Labels, manager, control, bus, log, history
<1>0. /\ Len(order) \in Nat
      /\ Len(elimLog) \in Nat
      /\ InRange => Holder \in Participants /\ order # <<>> /\ Len(order) > 0
      /\ order # <<>> => Len(order) > 0
  BY InRangeFacts, NonEmptyFacts, LenProperties DEF InRange
<1>t. Tallied \subseteq Post /\ <<>> \in Seq(Post)
  BY TalliedFacts, EmptySeq
<1>r. Return \in {"idle", "elims"}
  BY DEF Return
<1>n. /\ Full \in [round : Nat, min : Nat]
      /\ Bare \in [round : Nat, min : Nat]
  BY TurnAssumption DEF Full, Bare
<1>p. \A k \in 1..Len(order) : /\ RemoveAt(order, k) \in Seq(Participants)
                               /\ Len(RemoveAt(order, k)) = Len(order) - 1
  BY RemoveAtFacts
<1>m. \A h \in Participants : /\ [misses EXCEPT ![h] = 0] \in [Participants -> Nat]
                              /\ [misses EXCEPT ![h] = @ + 1] \in [Participants -> Nat]
  OBVIOUS
<1>s. ToSet(order) \subseteq Participants
  BY ElementOfSeq, LenProperties DEF ToSet
<1>i. \A q \in Participants \cup {Referee} :
         Append(inbox, [from |-> q, again |-> gate = q /\ spoke]) \in Seq(Post)
  <2> SUFFICES ASSUME NEW q \in Participants \cup {Referee}
               PROVE  Append(inbox, [from |-> q, again |-> gate = q /\ spoke]) \in Seq(Post)
    OBVIOUS
  <2>1. [from |-> q, again |-> gate = q /\ spoke] \in Post
    BY DEF Post
  <2> QED
    BY <2>1, AppendProperties
<1>e. \A q \in Participants \cup {NoOne} :
         /\ Append(elimLog, q) \in Seq(Participants \cup {NoOne})
         /\ Len(Append(elimLog, q)) = Len(elimLog) + 1
  BY AppendProperties
<1> USE <1>0, <1>t, <1>r
<1> HIDE DEF Post
<1> USE DEF Next, HostStep, Observe, Start, ObserveSpoke, ObserveTimeout, ObserveQuiet,
     ObserveOutOfRange, ObserveReferee, ObserveLapse, ObserveWait, ObserveOver, ObserveLive,
     ObserveAwaiting, Consume, AppendRetired, AppendLapse, AppendComplete, MuteAll, Grant,
     AppendTurn, CueReferee, OpenAll, ReadEliminations, PopPlayer, AppendRemoved, ResolveBatch,
     ResolvedEmpty, ResolvedBoundary, ResolvedWrap, ResolvedHandOn, ResolvedQuiet, HostFault,
     Conclude, SilencePasses, Speak, Eliminate, PassOn, Resume, Raise, vars
<1>1. started' \in BOOLEAN /\ waited' \in BOOLEAN
  OBVIOUS
<1>2. awaiting' \in {"none", "opener", "round"}
  OBVIOUS
<1>3. roundMsgs' \subseteq Post
  OBVIOUS
<1>4. pc' \in Labels
  BY ZenonT(60)
<1>5. phase' \in {"start", "observe", "apply"}
  OBVIOUS
<1>7. spoke' \in BOOLEAN /\ raised' \in BOOLEAN
  OBVIOUS
<1>8. had' \subseteq Participants
  OBVIOUS
<1>9. round' = round \/ round' = round + 1
  OBVIOUS
<1>10. completed' \in {completed, 0, round}
  OBVIOUS
<1>11. turnLog' \in {turnLog, Full, Bare}
  OBVIOUS
<1>12. cued' \in {cued, completed}
  OBVIOUS
<1>14. held' \in Participants \cup {Nobody}
  OBVIOUS
<1>15. gate' \in Participants \cup {Nobody, Everyone}
  OBVIOUS
<1>16. inbox' \in Seq(Post)
  BY <1>i
<1>17. elimLog' \in Seq(Participants \cup {NoOne})
  BY <1>e
<1>18. misses' \in [Participants -> Nat]
  <2>1. \/ misses' = misses
        \/ misses' = [misses EXCEPT ![Holder] = 0] /\ InRange
        \/ misses' = [misses EXCEPT ![Holder] = @ + 1] /\ InRange
        \/ \E i \in batch : /\ elimLog[i] \in ToSet(order)
                            /\ misses' = [misses EXCEPT ![elimLog[i]] = 0]
    OBVIOUS
  <2>2. CASE \E i \in batch : /\ elimLog[i] \in ToSet(order)
                              /\ misses' = [misses EXCEPT ![elimLog[i]] = 0]
    BY ONLY <2>2, <1>m, <1>s
  <2>3. CASE misses' = [misses EXCEPT ![Holder] = @ + 1] /\ InRange
    BY ONLY <2>3, <1>m, <1>0
  <2>4. CASE misses' = [misses EXCEPT ![Holder] = 0] /\ InRange
    BY ONLY <2>4, <1>m, <1>0
  <2>5. CASE misses' = misses
    BY <2>5
  <2> QED
    BY ONLY <2>1, <2>2, <2>3, <2>4, <2>5
<1>19. \/ order' = order
       \/ \E k \in 1..Len(order) : order' = RemoveAt(order, k)
  <2>1. ObserveTimeout => InRange /\ position + 1 \in 1..Len(order)
    BY ONLY TypeInv, InRangeFacts DEF TypeInv, ObserveTimeout
  <2> QED
    BY <2>1
<1>20. position' \in Nat /\ position' <= Len(order)'
  <2>1. CASE ObserveSpoke
    BY ONLY TypeInv, <2>1, <1>0, SMTT(30) DEF TypeInv, TypeOK, ObserveSpoke, PassOn, InRange
  <2>2. CASE ObserveTimeout
    <3>1. position + 1 \in 1..Len(order) /\ position \in Nat
      BY ONLY TypeInv, <2>2, InRangeFacts DEF TypeInv, TypeOK, ObserveTimeout
    <3>2. Len(RemoveAt(order, position + 1)) = Len(order) - 1
      BY ONLY <3>1, <1>p
    <3>3. \/ order' = RemoveAt(order, position + 1) /\ position' = position
          \/ order' = order /\ position' = position + 1 /\ position + 1 < Len(order)
          \/ order' = order /\ position' = 0
      BY ONLY <2>2 DEF ObserveTimeout, PassOn
    <3> QED
      BY ONLY <3>1, <3>2, <3>3, <1>0
  <2>3. CASE PopPlayer
    <3>1. position \in Nat /\ position <= Len(order)
      OBVIOUS
    <3>2. CASE UNCHANGED <<order, position>>
      BY <3>1, <3>2
    <3>3. CASE \E k \in 1..Len(order) : order' = RemoveAt(order, k) /\ position' = Reseat(k)
      BY ONLY <3>1, <3>3, <1>0, <1>p DEF Reseat
    <3> QED
      BY ONLY <2>3, <3>2, <3>3 DEF PopPlayer
  <2>4. CASE order' = order /\ position' \in {0, position}
    BY <2>4
  <2>5. \/ order' = order /\ position' \in {0, position}
        \/ ObserveSpoke \/ ObserveTimeout \/ PopPlayer
    OBVIOUS
  <2> QED
    BY ONLY <2>1, <2>2, <2>3, <2>4, <2>5
<1>21. batch' \subseteq 1..Len(elimLog)' /\ applied' \subseteq 1..Len(elimLog)'
  <2>1. elimLog' = elimLog \/ UNCHANGED <<batch, applied>>
    OBVIOUS
  <2>2. CASE UNCHANGED elimLog
    <3>1. batch' \subseteq batch \cup Fresh /\ applied' \subseteq applied \cup Fresh
      BY <2>2
    <3> QED
      BY <3>1, <2>2 DEF Fresh
  <2>3. CASE \E q \in Participants \cup {NoOne} : Eliminate(q)
    <3>1. Len(elimLog') = Len(elimLog) + 1 /\ UNCHANGED <<batch, applied>>
      BY <2>3, <1>e
    <3> QED
      BY ONLY <3>1, <1>0, TypeInv DEF TypeInv, TypeOK
  <2> QED
    BY <2>2, <2>3
<1>22. pc' \in {"grant", "complete"} => InRange'
  <2> SUFFICES ASSUME pc' \in {"grant", "complete"} PROVE InRange'
    OBVIOUS
  <2>1. order' = order
    OBVIOUS
  <2>2. \/ position' = position /\ InRange
        \/ position' = 0 /\ order # <<>>
        \/ position' < Len(order)
    <3>1. CASE ObserveSpoke \/ ObserveTimeout
      BY <3>1
    <3>2. CASE AppendRetired
      BY ONLY <3>2, TypeInv, pc' \in {"grant", "complete"}
         DEF AppendRetired, PassOn, TypeInv, TypeOK, InRange
    <3>3. CASE ResolveBatch
      BY <3>3
    <3>4. CASE Start \/ ObserveReferee \/ AppendLapse
      BY <3>4
    <3>5. CASE UNCHANGED position /\ pc \in {"grant", "complete"}
      BY <3>5
    <3>6. \/ ObserveSpoke \/ ObserveTimeout \/ AppendRetired \/ ResolveBatch
          \/ Start \/ ObserveReferee \/ AppendLapse
          \/ UNCHANGED position /\ pc \in {"grant", "complete"}
      BY ZenonT(60)
    <3> QED
      BY ONLY <3>1, <3>2, <3>3, <3>4, <3>5, <3>6
  <2> QED
    BY ONLY <2>1, <2>2, <1>0 DEF InRange
<1>23. pc' = "lapse" => order' # <<>>
  BY ZenonT(60)
<1>24. pc' = "boot" => position' = 0
  BY ZenonT(60)
<1>25. round' \in Nat \ {0} /\ completed' \in Nat /\ turnLog' \in [round : Nat, min : Nat]
  <2>1. round' \in Nat \ {0}
    BY ONLY <1>9, TypeInv DEF TypeInv, TypeOK
  <2>2. completed' \in Nat
    BY ONLY <1>10, TypeInv DEF TypeInv, TypeOK
  <2>3. turnLog' \in [round : Nat, min : Nat]
    BY ONLY <1>11, <1>n, TypeInv DEF TypeInv, TypeOK
  <2> QED
    BY ONLY <2>1, <2>2, <2>3
<1>26. cued' \in Nat
  BY ONLY <1>12, TypeInv DEF TypeInv, TypeOK
<1>27. order' \in Seq(Participants)
  BY ONLY <1>19, <1>p, TypeInv DEF TypeInv, TypeOK
<1>28. TypeOK'
  BY ONLY <1>1, <1>2, <1>3, <1>4, <1>5, <1>7, <1>8, <1>14, <1>15, <1>16, <1>17, <1>18,
          <1>20, <1>21, <1>25, <1>26, <1>27 DEF TypeOK
<1> QED
  BY ONLY <1>22, <1>23, <1>24, <1>28 DEF TypeInv

\* Every variable of the turn manager, its bus and its log stays in its domain.
THEOREM TypeCorrect == Spec => []TypeOK
<1>1. Init => TypeInv
  BY InitTypeInv
<1>2. TypeInv /\ [Next]_vars => TypeInv'
  BY StepTypeInv
<1>3. TypeInv => TypeOK
  BY DEF TypeInv
<1> QED
  BY <1>1, <1>2, <1>3, PTL DEF Spec

-----------------------------------------------------------------------------
(* The verdict guard.  What the referee was last cued about lies strictly  *)
(* below the round of the latest TURN event, because every path to a cue   *)
(* goes through an append of the round it opens.                           *)

CueInv ==
    /\ turnLog.min \in {0, MinRounds}
    /\ turnLog.round <= round
    /\ cued > 0 => cued < turnLog.round
    /\ pc \in {"complete", "mute", "grant", "turn", "cue"} /\ completed > 0 => completed = round - 1
    /\ pc \in {"boot", "lapse", "pop", "removed"} => completed = 0
    /\ pc = "mute" /\ completed > 0 => turnLog.round = round
    /\ pc = "cue" => completed > 0 /\ turnLog.round = round

LEMMA CueStands == TypeOK /\ CueInv => CuedVerdictStands
<1> SUFFICES ASSUME TypeOK, CueInv, cued > 0, cued >= MinRounds, TooEarly
             PROVE  FALSE
  BY DEF CuedVerdictStands
<1>1. cued \in Nat /\ turnLog.round \in Nat /\ MinRounds \in Nat
  BY TurnAssumption DEF TypeOK
<1> QED
  BY <1>1 DEF CueInv, TooEarly

LEMMA StepCueInv == TypeInv /\ CueInv /\ [Next]_vars => CueInv'
<1> SUFFICES ASSUME TypeInv, CueInv, [Next]_vars PROVE CueInv'
  OBVIOUS
<1>0. /\ round \in Nat \ {0} /\ completed \in Nat /\ cued \in Nat /\ MinRounds \in Nat
      /\ turnLog.round \in Nat
      /\ Full.round = round /\ Full.min = MinRounds
      /\ Bare.round = round /\ Bare.min = 0
      /\ Return \in {"idle", "elims"}
      /\ pc \in Labels
  BY TurnAssumption DEF TypeInv, TypeOK, Full, Bare, Return
<1> USE <1>0 DEF CueInv
<1>1. ASSUME Start PROVE CueInv'
  BY <1>1 DEF Start, log
<1>2. ASSUME ObserveSpoke PROVE CueInv'
  BY <1>2 DEF ObserveSpoke, ObserveLive, Consume, PassOn, log
<1>3. ASSUME ObserveTimeout PROVE CueInv'
  <2>1. CASE pc' = "retired"
    BY <1>3, <2>1 DEF ObserveTimeout, ObserveLive, Consume, PassOn, log
  <2>2. CASE PassOn(position + 1)
    BY <1>3, <2>2 DEF ObserveTimeout, ObserveLive, Consume, PassOn, log
  <2> QED
    BY <1>3, <2>1, <2>2 DEF ObserveTimeout
<1>4. ASSUME ObserveQuiet PROVE CueInv'
  BY <1>4 DEF ObserveQuiet, ObserveLive, Consume, log
<1>5. ASSUME ObserveOutOfRange PROVE CueInv'
  BY <1>5 DEF ObserveOutOfRange, ObserveLive, Consume, Raise, log
<1>6. ASSUME ObserveReferee \/ ObserveLapse \/ ObserveWait PROVE CueInv'
  BY <1>6 DEF ObserveReferee, ObserveLapse, ObserveWait, ObserveAwaiting, Consume, Resume, log
<1>7. ASSUME ObserveOver PROVE CueInv'
  BY <1>7 DEF ObserveOver, log, manager
<1>8. ASSUME AppendRetired PROVE CueInv'
  BY <1>8 DEF AppendRetired, PassOn
<1>9. ASSUME AppendLapse PROVE CueInv'
  BY <1>9 DEF AppendLapse, Resume
<1>10. ASSUME AppendComplete PROVE CueInv'
  BY <1>10 DEF AppendComplete
<1>11. ASSUME MuteAll \/ Grant \/ OpenAll PROVE CueInv'
  BY <1>11 DEF MuteAll, Grant, OpenAll, manager, log
<1>12. ASSUME AppendTurn PROVE CueInv'
  BY <1>12 DEF AppendTurn, manager
<1>13. ASSUME CueReferee PROVE CueInv'
  BY <1>13 DEF CueReferee
<1>14. ASSUME ReadEliminations PROVE CueInv'
  BY <1>14 DEF ReadEliminations, Raise, manager, log
<1>15. ASSUME PopPlayer PROVE CueInv'
  BY <1>15 DEF PopPlayer, Raise, log
<1>16. ASSUME AppendRemoved PROVE CueInv'
  BY <1>16 DEF AppendRemoved, manager
<1>17. ASSUME ResolveBatch PROVE CueInv'
  BY <1>17 DEF ResolveBatch, ResolvedEmpty, ResolvedBoundary, ResolvedWrap, ResolvedHandOn,
     ResolvedQuiet, Resume, PassOn, log
<1>18. ASSUME HostFault PROVE CueInv'
  BY <1>18 DEF HostFault, Raise, manager, log
<1>19. ASSUME Conclude PROVE CueInv'
  BY <1>19 DEF Conclude, manager, log
<1>20. ASSUME UNCHANGED <<pc, round, completed, cued, turnLog>> PROVE CueInv'
  BY <1>20
<1>21. ASSUME \/ SilencePasses \/ UNCHANGED vars
              \/ \E q \in Participants \cup {Referee} : Speak(q)
              \/ \E q \in Participants \cup {NoOne} : Eliminate(q)
       PROVE  UNCHANGED <<pc, round, completed, cued, turnLog>>
  BY <1>21 DEF SilencePasses, Speak, Eliminate, vars, manager, control, log
<1> QED
  BY <1>1, <1>2, <1>3, <1>4, <1>5, <1>6, <1>7, <1>8, <1>9, <1>10, <1>11, <1>12, <1>13, <1>14,
     <1>15, <1>16, <1>17, <1>18, <1>19, <1>20, <1>21 DEF Next, HostStep, Observe

\* Whatever fails and whatever the referee repeats: once the referee has been cued
\* about enough completed rounds, its verdict is never refused as too early.
THEOREM VerdictAfterCue == Spec => []CuedVerdictStands
<1>1. Init => TypeInv /\ CueInv
  BY InitTypeInv, TurnAssumption DEF Init, CueInv
<1>2. TypeInv /\ CueInv /\ [Next]_vars => (TypeInv /\ CueInv)'
  BY StepTypeInv, StepCueInv
<1>3. TypeInv /\ CueInv => CuedVerdictStands
  BY CueStands DEF TypeInv
<1> QED
  BY <1>1, <1>2, <1>3, PTL DEF Spec

-----------------------------------------------------------------------------
(* One turn per round.  Nobody after the holder has had the floor in this  *)
(* round, and neither has a holder who is about to get it: this survives   *)
(* every failure, because position only ever moves forward or back to 0.   *)

Unrepeated == \A i, j \in 1..Len(order) : order[i] = order[j] => i = j

Ahead == \A i \in 1..Len(order) : i > position + 1 => order[i] \notin had

AheadInv ==
    /\ Unrepeated
    /\ Ahead
    /\ awaiting # "none" => had = {}
    /\ pc \in {"boot", "complete"} => had = {}
    /\ pc = "lapse" => awaiting # "none"
    /\ pc \in {"retired", "complete", "grant"} => awaiting = "none"
    /\ pc \in {"retired", "grant"} /\ InRange => Holder \notin had
    /\ pc \in {"pop", "removed"} /\ awaiting = "none" /\ InRange =>
           Holder = held \/ Holder \notin had

LEMMA InitAheadInv == Init => AheadInv
  BY TurnAssumption DEF Init, AheadInv, Unrepeated, Ahead

\* when index k is popped and position reseated, the holder is the same one or
\* the one who was next, and the rest is still ahead
LEMMA ReseatAhead ==
    ASSUME TypeOK, Unrepeated, Ahead, NEW k \in 1..Len(order),
           order' = RemoveAt(order, k), position' = Reseat(k), had' = had
    PROVE  /\ Unrepeated' /\ Ahead'
           /\ InRange' => \/ InRange /\ Holder' = Holder /\ k # position + 1
                          \/ k = position + 1 /\ Holder' \notin had'
<1>1. /\ order \in Seq(Participants) /\ Len(order) \in Nat
      /\ position \in Nat /\ position <= Len(order)
  BY LenProperties DEF TypeOK
<1>2. /\ order' \in Seq(Participants)
      /\ Len(order') = Len(order) - 1
      /\ \A i \in 1..(Len(order) - 1) : order'[i] = IF i < k THEN order[i] ELSE order[i + 1]
  BY ONLY <1>1, RemoveAtFacts, order' = RemoveAt(order, k), k \in 1..Len(order)
<1>3. Unrepeated'
  BY ONLY <1>1, RemoveAtSet, Unrepeated, order' = RemoveAt(order, k), k \in 1..Len(order)
     DEF Unrepeated
<1>r. \/ k <= position /\ position' = position - 1
      \/ k > position /\ position' = position
  BY <1>1 DEF Reseat
<1>4. Ahead'
  <2> SUFFICES ASSUME NEW i \in 1..Len(order'), i > position' + 1
               PROVE  order'[i] \notin had
    BY DEF Ahead
  <2>1. CASE i < k
    <3>1. order'[i] = order[i] /\ i \in 1..Len(order) /\ i > position + 1
      BY <1>1, <1>2, <1>r, <2>1
    <3> QED
      BY <3>1 DEF Ahead
  <2>2. CASE i >= k
    <3>1. order'[i] = order[i + 1] /\ i + 1 \in 1..Len(order) /\ i + 1 > position + 1
      BY <1>1, <1>2, <1>r, <2>2
    <3> QED
      BY <3>1 DEF Ahead
  <2> QED
    BY <2>1, <2>2, <1>1
<1>5. InRange' => \/ InRange /\ Holder' = Holder /\ k # position + 1
                  \/ k = position + 1 /\ Holder' \notin had'
  <2> SUFFICES ASSUME InRange'
               PROVE  \/ InRange /\ Holder' = Holder /\ k # position + 1
                      \/ k = position + 1 /\ Holder' \notin had
    OBVIOUS
  <2>1. position' + 1 \in 1..(Len(order) - 1) /\ Holder' = order'[position' + 1]
    BY <1>1, <1>2, <1>r DEF InRange, Holder
  <2>2. CASE k = position + 1
    <3>1. Holder' = order[position + 2] /\ position + 2 \in 1..Len(order)
      BY <1>1, <1>2, <1>r, <2>1, <2>2
    <3> QED
      BY <3>1, <2>2, <1>1 DEF Ahead
  <2>3. CASE k # position + 1
    BY <1>1, <1>2, <1>r, <2>1, <2>3 DEF InRange, Holder
  <2> QED
    BY <2>2, <2>3
<1> QED
  BY <1>3, <1>4, <1>5

\* retiring the holder leaves position on the one who was next
LEMMA RetireAhead ==
    ASSUME TypeOK, Unrepeated, Ahead, InRange,
           order' = RemoveAt(order, position + 1), position' = position, had' = had
    PROVE  /\ Unrepeated' /\ Ahead'
           /\ InRange' => Holder' \notin had'
<1>1. position + 1 \in 1..Len(order) /\ position' = Reseat(position + 1)
  BY InRangeFacts DEF Reseat, TypeOK
<1>2. /\ Unrepeated' /\ Ahead'
      /\ InRange' => \/ InRange /\ Holder' = Holder /\ position + 1 # position + 1
                     \/ position + 1 = position + 1 /\ Holder' \notin had'
  BY <1>1, ReseatAhead
<1> QED
  BY <1>2

\* the floor passing on from a holder who is done
LEMMA PassOnAhead ==
    ASSUME TypeOK, Unrepeated, Ahead, order' = order, NEW i \in {position, position + 1},
           PassOn(i), i = position /\ InRange => Holder \notin had
    PROVE  /\ Unrepeated' /\ Ahead'
           /\ pc' \in {"grant", "complete"}
           /\ pc' = "complete" => had' = {}
           /\ InRange' => Holder' \notin had'
<1>1. position \in Nat /\ Len(order) \in Nat /\ i \in Nat
  BY LenProperties DEF TypeOK
<1>2. Unrepeated'
  BY DEF Unrepeated
<1>3. CASE i < Len(order)
  <2>1. position' = i /\ had' = had /\ pc' = "grant"
    BY <1>3 DEF PassOn
  <2>2. i + 1 \in 1..Len(order) /\ order[i + 1] \notin had
    <3>1. i + 1 \in 1..Len(order)
      BY <1>1, <1>3
    <3>2. CASE i = position
      BY <1>3, <3>1, <3>2 DEF InRange, Holder
    <3>3. CASE i = position + 1
      BY <1>1, <3>1, <3>3 DEF Ahead
    <3> QED
      BY <3>1, <3>2, <3>3
  <2>3. Ahead'
    <3> SUFFICES ASSUME NEW j \in 1..Len(order), j > i + 1
                 PROVE  order[j] \notin had
      BY <2>1 DEF Ahead
    <3>1. j > position + 1
      BY <1>1
    <3> QED
      BY <3>1 DEF Ahead
  <2>4. Holder' \notin had'
    BY <2>1, <2>2 DEF Holder
  <2> QED
    BY <1>2, <2>1, <2>3, <2>4
<1>4. CASE ~(i < Len(order))
  <2>1. had' = {} /\ pc' = "complete"
    BY <1>4 DEF PassOn
  <2>2. Ahead' /\ Holder' \notin had'
    BY <2>1 DEF Ahead
  <2> QED
    BY <1>2, <2>1, <2>2
<1> QED
  BY <1>3, <1>4

LEMMA StepAheadInv == TypeInv /\ AheadInv /\ [Next]_vars => AheadInv'
<1> SUFFICES ASSUME TypeInv, AheadInv, [Next]_vars PROVE AheadInv'
  OBVIOUS
<1>0. TypeOK /\ Unrepeated /\ Ahead /\ Return \in {"idle", "elims"} /\ pc \in Labels
  BY DEF TypeInv, TypeOK, AheadInv, Return
<1>a. ASSUME UNCHANGED <<order, position, had, awaiting, held>>,
             pc' \in {pc, "idle", "elims", "mute", "cue", "turn", "open", "stopped"}
      PROVE  AheadInv'
  BY <1>0, <1>a DEF AheadInv, Unrepeated, Ahead, InRange, Holder
<1>b. ASSUME order' = order, had = {}, had' = {}, pc' # "lapse",
             pc' \in {"retired", "complete", "grant"} => awaiting' = "none"
      PROVE  AheadInv'
  BY <1>0, <1>b DEF AheadInv, Unrepeated, Ahead, InRange, Holder
<1>c. ASSUME UNCHANGED order, NEW i \in {position, position + 1}, PassOn(i),
             i = position /\ InRange => Holder \notin had, awaiting' = "none"
      PROVE  AheadInv'
  BY <1>0, <1>c, PassOnAhead DEF AheadInv
<1>1. ASSUME Start PROVE AheadInv'
  BY <1>1, <1>b DEF Start, AheadInv, history
<1>2. ASSUME ObserveSpoke PROVE AheadInv'
  BY <1>2, <1>0, <1>c DEF ObserveSpoke, ObserveLive, Consume, TypeOK
<1>3. ASSUME ObserveTimeout PROVE AheadInv'
  <2>1. CASE order' = RemoveAt(order, position + 1) /\ pc' = "retired" /\ UNCHANGED <<position, had>>
    <3>1. awaiting' = "none" /\ InRange
      BY <1>3 DEF ObserveTimeout, ObserveLive, Consume
    <3> QED
      BY <1>0, <2>1, <3>1, RetireAhead DEF AheadInv
  <2>2. CASE PassOn(position + 1) /\ UNCHANGED order
    BY <1>3, <2>2, <1>0, <1>c DEF ObserveTimeout, ObserveLive, Consume, TypeOK
  <2> QED
    BY <1>3, <2>1, <2>2 DEF ObserveTimeout
<1>4. ASSUME ObserveQuiet \/ ObserveOutOfRange \/ ObserveOver PROVE AheadInv'
  BY <1>4, <1>a, <1>0
     DEF ObserveQuiet, ObserveOutOfRange, ObserveOver, ObserveLive, Consume, Raise, manager, history
<1>5. ASSUME ObserveReferee PROVE AheadInv'
  BY <1>5, <1>b DEF ObserveReferee, ObserveAwaiting, Resume, AheadInv
<1>6. ASSUME ObserveWait PROVE AheadInv'
  BY <1>6, <1>a DEF ObserveWait, ObserveAwaiting, Consume
<1>7. ASSUME ObserveLapse PROVE AheadInv'
  BY <1>7, <1>0 DEF ObserveLapse, ObserveAwaiting, Consume, AheadInv, Unrepeated, Ahead
<1>8. ASSUME AppendRetired PROVE AheadInv'
  <2>1. CASE order # <<>>
    <3>1. PassOn(position) /\ order' = order /\ pc = "retired" /\ UNCHANGED awaiting
      BY <1>8, <2>1 DEF AppendRetired
    <3> QED
      BY <3>1, <1>0, <1>c DEF AheadInv
  <2>2. CASE order = <<>>
    BY <1>8, <2>2, <1>a DEF AppendRetired
  <2> QED
    BY <2>1, <2>2
<1>9. ASSUME AppendLapse PROVE AheadInv'
  BY <1>9, <1>b DEF AppendLapse, Resume, AheadInv, history
<1>10. ASSUME AppendComplete PROVE AheadInv'
  BY <1>10, <1>b DEF AppendComplete, AheadInv
<1>11. ASSUME MuteAll \/ OpenAll \/ AppendTurn \/ CueReferee \/ Conclude \/ HostFault
       PROVE  AheadInv'
  BY <1>11, <1>a, <1>0 DEF MuteAll, OpenAll, AppendTurn, CueReferee, Conclude, HostFault, Raise,
     manager, history
<1>12. ASSUME Grant PROVE AheadInv'
  <2>1. InRange /\ pc' = "turn" /\ UNCHANGED <<order, position, awaiting>> /\ had' = had \cup {Holder}
    BY <1>12 DEF Grant, TypeInv, manager
  <2>2. position + 1 \in 1..Len(order) /\ awaiting = "none"
    BY <2>1, <1>0, <1>12, InRangeFacts DEF Grant, AheadInv
  <2>3. Unrepeated'
    BY <2>1, <1>0 DEF Unrepeated
  <2>4. Ahead'
    <3> SUFFICES ASSUME NEW i \in 1..Len(order), i > position + 1
                 PROVE  order[i] \notin had \cup {Holder}
      BY <2>1 DEF Ahead
    <3>1. order[i] # Holder
      BY <2>2, <1>0 DEF Unrepeated, Holder, TypeOK
    <3> QED
      BY <3>1, <1>0 DEF Ahead
  <2>5. awaiting' = "none" /\ pc' = "turn"
    BY <2>1, <2>2
  <2> QED
    BY ONLY <2>3, <2>4, <2>5 DEF AheadInv
<1>13. ASSUME ReadEliminations PROVE AheadInv'
  <2>1. UNCHANGED <<order, position, awaiting, had>>
    BY <1>13 DEF ReadEliminations, manager
  <2>2. \/ pc' \in {"idle", "stopped"}
        \/ pc' = "pop" /\ held' = IF order = <<>> THEN Nobody ELSE Holder
    BY <1>13 DEF ReadEliminations, Raise
  <2>3. CASE pc' \in {"idle", "stopped"}
    BY <2>1, <2>3, <1>0 DEF AheadInv, Unrepeated, Ahead
  <2>4. CASE pc' = "pop" /\ held' = IF order = <<>> THEN Nobody ELSE Holder
    <3>1. InRange => order # <<>>
      BY <1>0, InRangeFacts
    <3> QED
      BY <2>1, <2>4, <3>1, <1>0 DEF AheadInv, Unrepeated, Ahead, InRange, Holder
  <2> QED
    BY <2>2, <2>3, <2>4
<1>14. ASSUME PopPlayer PROVE AheadInv'
  <2>1. UNCHANGED <<had, awaiting, held>> /\ pc = "pop"
    BY <1>14 DEF PopPlayer
  <2>2. CASE Raise /\ UNCHANGED <<order, position>>
    BY <2>1, <2>2, <1>a DEF Raise
  <2>3. CASE \E k \in 1..Len(order) :
                order' = RemoveAt(order, k) /\ position' = Reseat(k) /\ pc' = "removed"
    BY <2>1, <2>3, <1>0, ReseatAhead DEF AheadInv
  <2> QED
    BY <1>14, <2>2, <2>3 DEF PopPlayer
<1>15. ASSUME AppendRemoved PROVE AheadInv'
  BY <1>15, <1>0 DEF AppendRemoved, manager, history, AheadInv, Unrepeated, Ahead, InRange, Holder
<1>16. ASSUME ResolveBatch PROVE AheadInv'
  <2>0. pc = "pop" /\ UNCHANGED <<order, held>>
    BY <1>16 DEF ResolveBatch
  <2>1. CASE ResolvedEmpty \/ ResolvedQuiet
    BY <2>0, <2>1, <1>a DEF ResolvedEmpty, ResolvedQuiet
  <2>2. CASE ResolvedBoundary
    BY <2>0, <2>2, <1>b DEF ResolvedBoundary, Resume, AheadInv
  <2>3. CASE ResolvedWrap
    BY <2>0, <2>3, <1>c DEF ResolvedWrap
  <2>4. CASE ResolvedHandOn
    BY <2>0, <2>4, <1>0 DEF ResolvedHandOn, AheadInv, Unrepeated, Ahead, InRange, Holder
  <2> QED
    BY <1>16, <2>1, <2>2, <2>3, <2>4 DEF ResolveBatch
<1>17. ASSUME \/ SilencePasses \/ UNCHANGED vars
              \/ \E q \in Participants \cup {Referee} : Speak(q)
              \/ \E q \in Participants \cup {NoOne} : Eliminate(q)
       PROVE  UNCHANGED <<order, position, had, awaiting, held, pc>>
  BY <1>17 DEF SilencePasses, Speak, Eliminate, vars, manager, control, history
<1> QED
  BY <1>a, <1>1, <1>2, <1>3, <1>4, <1>5, <1>6, <1>7, <1>8, <1>9, <1>10, <1>11, <1>12, <1>13, <1>14,
     <1>15, <1>16, <1>17 DEF Next, HostStep, Observe

\* Whatever raises in a tick and however often an elimination is repeated, nobody
\* is given the floor twice in one round.
THEOREM OneTurnPerRound == Spec => NoSecondTurn
<1>1. Init => TypeInv /\ AheadInv
  BY InitTypeInv, InitAheadInv
<1>2. TypeInv /\ AheadInv /\ [Next]_vars => (TypeInv /\ AheadInv)'
  BY StepTypeInv, StepAheadInv
<1>3. TypeInv /\ AheadInv => (pc = "grant" /\ pc' = "turn" => Holder \notin had)
  BY DEF TypeInv, AheadInv
<1> QED
  BY <1>1, <1>2, <1>3, PTL DEF Spec, NoSecondTurn

-----------------------------------------------------------------------------
(* The gate.  As long as no step of the host has raised, position splits   *)
(* order into those who have had the floor this round and those who have   *)
(* not, and pc says whether the gate is the holder's yet.                  *)

Behind == \A i \in 1..Len(order) : i <= position => order[i] \in had

Settled == IF awaiting = "none" THEN gate = Holder /\ Holder \in had ELSE gate = Nobody

Resting == IF started THEN InRange /\ Settled ELSE gate = Everyone \/ InitOrder = <<>>

Enforcing == started /\ IF awaiting = "none" THEN gate = held /\ held \in had ELSE gate = Nobody

FloorInv ==
    /\ Behind
    /\ awaiting # "none" => position = 0
    /\ pc = "boot" => order = InitOrder /\ gate = Nobody
    /\ pc \in {"idle", "elims"} => Resting
    /\ pc \in {"retired", "complete", "lapse", "mute", "grant", "turn", "cue"} => started
    /\ pc \in {"lapse", "mute"} => InRange /\ awaiting # "none"
    /\ pc = "complete" => position = 0
    /\ pc \in {"turn", "cue"} => InRange /\ Settled
    /\ pc = "open" => ~started
    /\ pc \in {"pop", "removed"} => Enforcing

RotationInv == TypeInv /\ AheadInv /\ (raised \/ FloorInv)

LEMMA InitFloorInv == Init => FloorInv
  BY TurnAssumption DEF Init, FloorInv, Behind

LEMMA PassOnBehind ==
    ASSUME TypeOK, Behind, order' = order, started' = TRUE, awaiting' = "none",
           NEW i \in {position, position + 1}, PassOn(i),
           i = position + 1 => InRange /\ Holder \in had
    PROVE  FloorInv'
<1>1. order \in Seq(Participants) /\ Len(order) \in Nat /\ position \in Nat
  BY LenProperties DEF TypeOK
<1>2. Behind'
  BY <1>1 DEF Behind, PassOn, InRange, Holder
<1>3. pc' = "grant" \/ (pc' = "complete" /\ position' = 0)
  BY DEF PassOn
<1> QED
  BY <1>2, <1>3 DEF FloorInv

LEMMA ReseatBehind ==
    ASSUME TypeOK, Behind, NEW k \in 1..Len(order),
           order' = RemoveAt(order, k), position' = Reseat(k), had' = had
    PROVE  Behind' /\ (position = 0 => position' = 0)
<1>1. order \in Seq(Participants) /\ Len(order) \in Nat /\ position \in Nat
  BY LenProperties DEF TypeOK
<1>2. /\ Len(order') = Len(order) - 1
      /\ \A i \in 1..(Len(order) - 1) : order'[i] = IF i < k THEN order[i] ELSE order[i + 1]
  BY ONLY <1>1, RemoveAtFacts, order' = RemoveAt(order, k), k \in 1..Len(order)
<1>3. \/ k <= position /\ position' = position - 1
      \/ k > position /\ position' = position
  BY <1>1 DEF Reseat
<1>4. Behind'
  <2> SUFFICES ASSUME NEW i \in 1..Len(order'), i <= position'
               PROVE  order'[i] \in had
    BY DEF Behind
  <2>1. CASE i < k
    <3>1. order'[i] = order[i] /\ i \in 1..Len(order) /\ i <= position
      BY <1>1, <1>2, <1>3, <2>1
    <3> QED
      BY <3>1 DEF Behind
  <2>2. CASE i >= k
    <3>1. order'[i] = order[i + 1] /\ i + 1 \in 1..Len(order) /\ i + 1 <= position
      BY <1>1, <1>2, <1>3, <2>2
    <3> QED
      BY <3>1 DEF Behind
  <2> QED
    BY <2>1, <2>2, <1>1
<1> QED
  BY <1>1, <1>3, <1>4

LEMMA StepFloorInv ==
    TypeInv /\ AheadInv /\ FloorInv /\ [Next]_vars => raised' \/ FloorInv'
<1> SUFFICES ASSUME TypeInv, AheadInv, FloorInv, [Next]_vars, ~raised' PROVE FloorInv'
  OBVIOUS
<1>0. /\ TypeOK /\ Behind /\ Return \in {"idle", "elims"} /\ pc \in Labels
      /\ order # <<>> => 0 < Len(order)
      /\ position \in Nat
  BY NonEmptyFacts DEF TypeInv, TypeOK, FloorInv, Return
<1>a. ASSUME UNCHANGED <<order, position, had, awaiting, gate, started, held, pc>>
      PROVE  FloorInv'
  BY <1>a DEF FloorInv, Behind, Resting, Settled, Enforcing, InRange, Holder
<1>1. ASSUME Start PROVE FloorInv'
  BY <1>1, <1>0 DEF Start, FloorInv, Behind, Resting, Settled, InRange, TypeInv, bus, history
<1>2. ASSUME ObserveSpoke PROVE FloorInv'
  <2>1. /\ InRange /\ Holder \in had /\ PassOn(position + 1)
        /\ order' = order /\ started' = TRUE /\ awaiting' = "none"
    BY <1>2, <1>0 DEF ObserveSpoke, ObserveLive, Consume, FloorInv, Resting, Settled, TypeOK
  <2> QED
    BY <2>1, <1>0, PassOnBehind
<1>3. ASSUME ObserveTimeout PROVE FloorInv'
  <2>1. /\ InRange /\ Holder \in had /\ started' = TRUE /\ awaiting' = "none"
    BY <1>3, <1>0 DEF ObserveTimeout, ObserveLive, Consume, FloorInv, Resting, Settled, TypeOK
  <2>2. CASE order' = RemoveAt(order, position + 1) /\ pc' = "retired" /\ UNCHANGED <<position, had>>
    <3>1. position + 1 \in 1..Len(order) /\ position' = Reseat(position + 1)
      BY <2>1, <2>2, <1>0, InRangeFacts DEF Reseat
    <3>2. Behind'
      BY <3>1, <2>2, <1>0, ReseatBehind
    <3> QED
      BY <2>1, <2>2, <3>2 DEF FloorInv
  <2>3. CASE PassOn(position + 1) /\ UNCHANGED order
    BY <2>1, <2>3, <1>0, PassOnBehind
  <2> QED
    BY <1>3, <2>2, <2>3 DEF ObserveTimeout
<1>4. ASSUME ObserveQuiet \/ ObserveOver PROVE FloorInv'
  BY <1>4, <1>0 DEF ObserveQuiet, ObserveOver, ObserveLive, Consume, manager, history, bus,
     FloorInv, Behind, Resting, Settled, InRange, Holder
<1>5. ASSUME ObserveOutOfRange \/ HostFault PROVE FALSE
  BY <1>5 DEF ObserveOutOfRange, HostFault, Raise
<1>6. ASSUME ObserveReferee \/ ObserveLapse \/ ObserveWait PROVE FloorInv'
  BY <1>6, <1>0 DEF ObserveReferee, ObserveLapse, ObserveWait, ObserveAwaiting, Consume, Resume,
     FloorInv, Behind, Resting, Settled, InRange, Holder
<1>7. ASSUME AppendRetired PROVE FloorInv'
  <2>1. CASE order = <<>>
    BY <1>7, <2>1, <1>0 DEF AppendRetired, FloorInv, AheadInv, Behind
  <2>2. CASE order # <<>>
    <3>1. PassOn(position) /\ order' = order /\ started' = TRUE /\ awaiting' = "none"
      BY <1>7, <2>2, <1>0 DEF AppendRetired, FloorInv, AheadInv, TypeOK
    <3> QED
      BY <3>1, <1>0, PassOnBehind
  <2> QED
    BY <2>1, <2>2
<1>8. ASSUME AppendLapse PROVE FloorInv'
  BY <1>8, <1>0 DEF AppendLapse, Resume, FloorInv, Behind, history
<1>9. ASSUME AppendComplete PROVE FloorInv'
  BY <1>9, <1>0 DEF AppendComplete, FloorInv, Behind, TypeInv, InRange
<1>10. ASSUME MuteAll PROVE FloorInv'
  BY <1>10, <1>0 DEF MuteAll, manager, history, FloorInv, Behind, Resting, Settled, InRange, Holder
<1>11. ASSUME Grant PROVE FloorInv'
  BY <1>11, <1>0 DEF Grant, manager, FloorInv, AheadInv, TypeInv, Behind, Settled, InRange, Holder
<1>12. ASSUME AppendTurn \/ CueReferee PROVE FloorInv'
  BY <1>12, <1>0 DEF AppendTurn, CueReferee, manager, bus, history, FloorInv, Behind, Resting,
     Settled, InRange, Holder
<1>13. ASSUME OpenAll PROVE FloorInv'
  BY <1>13, <1>0 DEF OpenAll, manager, history, FloorInv, Behind, Resting
<1>14. ASSUME ReadEliminations PROVE FloorInv'
  <2>1. /\ UNCHANGED <<order, position, had, awaiting, gate, started>> /\ Resting
        /\ \/ pc' = "idle"
           \/ pc' = "pop" /\ started /\ held' = Holder /\ InRange
           \/ raised'
    BY <1>14, <1>0, InRangeFacts DEF ReadEliminations, Raise, manager, bus, FloorInv, Resting
  <2> QED
    BY <2>1, <1>0 DEF FloorInv, Behind, Resting, Settled, Enforcing, InRange, Holder
<1>15. ASSUME PopPlayer PROVE FloorInv'
  <2>1. /\ UNCHANGED <<had, awaiting, held, gate, started>> /\ Enforcing
        /\ awaiting # "none" => position = 0
    BY <1>15 DEF PopPlayer, bus, FloorInv
  <2>2. \E k \in 1..Len(order) :
           order' = RemoveAt(order, k) /\ position' = Reseat(k) /\ pc' = "removed"
    BY <1>15 DEF PopPlayer, Raise
  <2>3. Behind' /\ (position = 0 => position' = 0)
    BY <2>1, <2>2, <1>0, ReseatBehind
  <2> QED
    BY <2>1, <2>2, <2>3 DEF FloorInv, Enforcing
<1>16. ASSUME AppendRemoved PROVE FloorInv'
  BY <1>16 DEF AppendRemoved, manager, bus, history, FloorInv, Behind, Enforcing
<1>17. ASSUME ResolveBatch PROVE FloorInv'
  <2>0. pc = "pop" /\ UNCHANGED <<order, held, gate>> /\ Enforcing /\ (awaiting # "none" => position = 0)
    BY <1>17 DEF ResolveBatch, bus, FloorInv
  <2>1. CASE ResolvedEmpty
    BY <2>0, <2>1, <1>0 DEF ResolvedEmpty, FloorInv, Behind
  <2>2. CASE ResolvedQuiet
    BY <2>0, <2>2, <1>0 DEF ResolvedQuiet, FloorInv, Behind, Enforcing, Resting, Settled, InRange, Holder
  <2>3. CASE ResolvedBoundary
    BY <2>0, <2>3, <1>0 DEF ResolvedBoundary, Resume, FloorInv, Behind, Enforcing
  <2>4. CASE ResolvedWrap
    <3>1. PassOn(position) /\ started' = TRUE /\ awaiting' = "none"
      BY <2>0, <2>4, <1>0 DEF ResolvedWrap, Enforcing, TypeOK
    <3> QED
      BY <2>0, <3>1, <1>0, PassOnBehind
  <2>5. CASE ResolvedHandOn
    BY <2>0, <2>5, <1>0 DEF ResolvedHandOn, FloorInv, Behind, Enforcing
  <2> QED
    BY <1>17, <2>1, <2>2, <2>3, <2>4, <2>5 DEF ResolveBatch
<1>18. ASSUME Conclude PROVE FloorInv'
  BY <1>18 DEF Conclude, manager, history, FloorInv, Behind
<1>19. ASSUME \/ SilencePasses \/ UNCHANGED vars
              \/ \E q \in Participants \cup {Referee} : Speak(q)
              \/ \E q \in Participants \cup {NoOne} : Eliminate(q)
       PROVE  UNCHANGED <<order, position, had, awaiting, gate, started, held, pc>>
  BY <1>19 DEF SilencePasses, Speak, Eliminate, vars, manager, control, history, bus
<1> QED
  BY <1>a, <1>1, <1>2, <1>3, <1>4, <1>5, <1>6, <1>7, <1>8, <1>9, <1>10, <1>11, <1>12, <1>13, <1>14,
     <1>15, <1>16, <1>17, <1>18, <1>19 DEF Next, HostStep, Observe

\* a failure of the host is never forgotten
LEMMA RaisedStays == raised /\ [Next]_vars => raised'
  BY DEF Next, HostStep, Observe, Start, ObserveSpoke, ObserveTimeout, ObserveQuiet,
     ObserveOutOfRange, ObserveReferee, ObserveLapse, ObserveWait, ObserveOver, ObserveAwaiting,
     AppendRetired, AppendLapse, AppendComplete, MuteAll, Grant, AppendTurn, CueReferee, OpenAll,
     ReadEliminations, PopPlayer, AppendRemoved, ResolveBatch, HostFault, Conclude, SilencePasses,
     Speak, Eliminate, Raise, history, vars

LEMMA InitRotationInv == Init => RotationInv
  BY InitTypeInv, InitAheadInv, InitFloorInv DEF RotationInv

LEMMA StepRotationInv == RotationInv /\ [Next]_vars => RotationInv'
  BY StepTypeInv, StepAheadInv, StepFloorInv, RaisedStays DEF RotationInv

\* For every roster and setting, the gate between two ticks is the one the turn
\* manager believes in, as long as no step of the host has raised.
THEOREM GateCorrect == Spec => []GateFollowsFloor
<1>1. RotationInv => GateFollowsFloor
  BY DEF RotationInv, FloorInv, Resting, Settled, GateFollowsFloor
<1> QED
  BY <1>1, InitRotationInv, StepRotationInv, PTL DEF Spec

-----------------------------------------------------------------------------
(* The turn manager implements Floor when nothing outside the host fails   *)
(* and the referee does not repeat an elimination the host has not seen:   *)
(* then every name the host is still to remove is in the rotation, and no  *)
(* step of it raises.                                                      *)

CalmInv ==
    /\ ~raised
    /\ batch # {} => pc \in {"pop", "removed"}
    /\ \A i \in batch : elimLog[i] \in ToSet(order)
    /\ \A i, j \in Fresh \cup batch : elimLog[i] = elimLog[j] => i = j \/ elimLog[i] = NoOne

LEMMA InitCalmInv == Init => CalmInv
  BY DEF Init, CalmInv, Fresh

LEMMA StepCalmInv ==
    ASSUME ~Faults, ~Repeats
    PROVE  RotationInv /\ CalmInv /\ [Next]_vars => CalmInv'
<1> SUFFICES ASSUME RotationInv, CalmInv, [Next]_vars PROVE CalmInv'
  OBVIOUS
<1>0. /\ TypeOK /\ Unrepeated /\ FloorInv /\ pc \in Labels
      /\ order \in Seq(Participants) /\ Len(order) \in Nat /\ Len(elimLog) \in Nat
      /\ ToSet(order) \subseteq Participants
      /\ batch \subseteq 1..Len(elimLog) /\ applied \subseteq 1..Len(elimLog)
  BY LenProperties, ElementOfSeq DEF RotationInv, CalmInv, TypeInv, TypeOK, AheadInv, ToSet
<1>a. ASSUME UNCHANGED <<order, batch, applied, elimLog, raised>>,
             pc \notin {"pop", "removed"} \/ pc' \in {"pop", "removed"}
      PROVE  CalmInv'
  BY <1>a DEF CalmInv, Fresh
<1>b. ASSUME pc \notin {"pop", "removed"}, UNCHANGED <<batch, applied, elimLog, raised>>
      PROVE  CalmInv'
  BY <1>b DEF CalmInv, Fresh
<1>1. ASSUME \/ Start \/ ObserveSpoke \/ ObserveTimeout \/ ObserveQuiet \/ ObserveReferee
             \/ ObserveLapse \/ ObserveWait \/ ObserveOver
      PROVE  CalmInv'
  BY <1>1, <1>b DEF Start, ObserveSpoke, ObserveTimeout, ObserveQuiet, ObserveReferee, ObserveLapse,
     ObserveWait, ObserveOver, ObserveLive, ObserveAwaiting, Consume, log, history
<1>2. ASSUME ObserveOutOfRange \/ HostFault PROVE FALSE
  BY <1>2, <1>0 DEF ObserveOutOfRange, HostFault, ObserveLive, Consume, FloorInv, Resting
<1>3. ASSUME \/ AppendRetired \/ AppendLapse \/ AppendComplete \/ MuteAll \/ Grant \/ AppendTurn
             \/ CueReferee \/ OpenAll \/ Conclude
      PROVE  CalmInv'
  BY <1>3, <1>b DEF AppendRetired, AppendLapse, AppendComplete, MuteAll, Grant, AppendTurn,
     CueReferee, OpenAll, Conclude, log, history
<1>4. ASSUME ReadEliminations PROVE CalmInv'
  <2>1. /\ applied' = applied \cup Fresh /\ UNCHANGED <<elimLog, order>>
        /\ batch = {} /\ ~raised
    BY <1>4 DEF ReadEliminations, CalmInv, log, manager
  <2>2. \/ batch' = {}
        \/ batch' = {i \in Fresh : elimLog[i] \in ToSet(order)} /\ pc' = "pop"
    BY <1>4, <2>1 DEF ReadEliminations, Raise
  <2>3. ~raised'
    BY <1>4, <1>0, <2>1 DEF ReadEliminations, FloorInv, Resting
  <2>4. Fresh' \cup batch' \subseteq Fresh \cup batch
    BY <2>1, <2>2 DEF Fresh
  <2>5. \A i \in batch' : elimLog'[i] \in ToSet(order')
    BY <2>1, <2>2
  <2>6. batch' # {} => pc' \in {"pop", "removed"}
    BY <2>2
  <2> QED
    BY <2>1, <2>3, <2>4, <2>5, <2>6 DEF CalmInv
<1>5. ASSUME PopPlayer PROVE CalmInv'
  <2>1. PICK i \in batch : /\ elimLog[i] \in ToSet(order)
                           /\ \E k \in 1..Len(order) : /\ order[k] = elimLog[i]
                                                       /\ order' = RemoveAt(order, k)
                           /\ batch' = batch \ {i}
                           /\ pc' = "removed" /\ raised' = raised
    BY <1>5 DEF PopPlayer, CalmInv
  <2>2. UNCHANGED <<applied, elimLog>>
    BY <1>5 DEF PopPlayer, log
  <2>3. ToSet(order') = ToSet(order) \ {elimLog[i]}
    BY ONLY <2>1, <1>0, RemoveAtSet DEF Unrepeated
  <2>4. \A j \in batch' : elimLog[j] \in ToSet(order')
    <3> SUFFICES ASSUME NEW j \in batch, j # i
                 PROVE  elimLog[j] \in ToSet(order')
      BY <2>1
    <3>1. elimLog[j] # elimLog[i]
      BY <1>0, <2>1, TurnAssumption DEF CalmInv
    <3> QED
      BY <2>3, <3>1 DEF CalmInv
  <2>5. Fresh' = Fresh /\ batch' \subseteq batch
    BY <2>1, <2>2 DEF Fresh
  <2> QED
    BY <2>1, <2>2, <2>4, <2>5 DEF CalmInv
<1>6. ASSUME AppendRemoved PROVE CalmInv'
  BY <1>6, <1>a DEF AppendRemoved, manager, history
<1>7. ASSUME ResolveBatch PROVE CalmInv'
  BY <1>7 DEF ResolveBatch, log, CalmInv, Fresh
<1>8. ASSUME NEW q \in Participants \cup {NoOne}, Eliminate(q) PROVE CalmInv'
  <2>1. /\ UNCHANGED <<order, batch, applied, raised, pc>>
        /\ elimLog' = Append(elimLog, q)
        /\ q = NoOne \/ \A i \in Fresh \cup batch : elimLog[i] # q
    BY <1>8 DEF Eliminate, manager, control, history
  <2>2. /\ Len(elimLog') = Len(elimLog) + 1
        /\ \A i \in 1..Len(elimLog) : elimLog'[i] = elimLog[i]
        /\ elimLog'[Len(elimLog) + 1] = q
    BY <2>1, AppendProperties DEF TypeOK, RotationInv, TypeInv
  <2>3. Fresh' = Fresh \cup {Len(elimLog) + 1}
    BY <2>1, <2>2, <1>0 DEF Fresh
  <2>4. \A i \in Fresh \cup batch : i \in 1..Len(elimLog) /\ elimLog'[i] = elimLog[i]
    BY <2>2, <1>0 DEF Fresh
  <2>5. \A i, j \in (Fresh \cup batch)' : elimLog'[i] = elimLog'[j] => i = j \/ elimLog'[i] = NoOne
    BY <2>1, <2>2, <2>3, <2>4 DEF CalmInv
  <2> QED
    BY <2>1, <2>4, <2>5 DEF CalmInv
<1>9. ASSUME \/ SilencePasses \/ UNCHANGED vars
             \/ \E q \in Participants \cup {Referee} : Speak(q)
      PROVE  UNCHANGED <<order, batch, applied, elimLog, raised, pc>>
  BY <1>9 DEF SilencePasses, Speak, vars, manager, control, history, log
<1> QED
  BY <1>a, <1>1, <1>2, <1>3, <1>4, <1>5, <1>6, <1>7, <1>8, <1>9 DEF Next, HostStep, Observe

LEMMA InitFloor == Init => F!Init
  BY DEF Init, F!Init, Participants

\* a wrap closes a lap everyone still in the rotation was served in
LEMMA PassOnFloor ==
    ASSUME TypeOK, Behind, order # <<>>, UNCHANGED <<order, gate>>,
           NEW i \in {position, position + 1}, PassOn(i),
           i = position + 1 => InRange /\ Holder \in had
    PROVE  F!NextLap \/ UNCHANGED F!floorVars
<1>1. order \in Seq(Participants) /\ Len(order) \in Nat /\ position \in Nat /\ 0 < Len(order)
  BY LenProperties, NonEmptyFacts DEF TypeOK
<1>2. CASE i < Len(order)
  BY <1>2 DEF PassOn, F!floorVars
<1>3. CASE ~(i < Len(order))
  <2>1. ToSet(order) \subseteq had
    BY <1>1, <1>3 DEF ToSet, Behind, InRange, Holder
  <2>2. ToSet(order) # {}
    <3>1. order[1] \in ToSet(order)
      BY <1>1 DEF ToSet
    <3> QED
      BY <3>1
  <2> QED
    BY <1>3, <2>1, <2>2 DEF PassOn, F!NextLap
<1> QED
  BY <1>2, <1>3

\* retirement and elimination are the two ways to leave
LEMMA LeaveFloor ==
    ASSUME TypeOK, Unrepeated, NEW k \in 1..Len(order), order' = RemoveAt(order, k),
           UNCHANGED <<gate, round, had>>
    PROVE  F!Next
<1>1. order[k] \in ToSet(order) /\ order[k] \in Participants
  BY ElementOfSeq DEF ToSet, TypeOK
<1>2. ToSet(order') = ToSet(order) \ {order[k]}
  BY ONLY RemoveAtSet, TypeOK, Unrepeated, order' = RemoveAt(order, k), k \in 1..Len(order)
     DEF Unrepeated, TypeOK
<1> QED
  BY <1>1, <1>2 DEF F!Next, F!Leave

LEMMA StepFloor == RotationInv /\ ~raised /\ [Next]_vars => [F!Next]_(F!floorVars)
<1> SUFFICES ASSUME RotationInv, ~raised, [Next]_vars
             PROVE  F!Next \/ UNCHANGED F!floorVars
  OBVIOUS
<1>0. TypeOK /\ Unrepeated /\ Behind /\ FloorInv /\ AheadInv /\ TypeInv
  BY DEF RotationInv, TypeInv, AheadInv, FloorInv
<1>a. ASSUME UNCHANGED <<order, gate, round, had>> PROVE UNCHANGED F!floorVars
  BY <1>a DEF F!floorVars
<1>b. ASSUME order # <<>>, UNCHANGED <<order, gate>>,
             NEW i \in {position, position + 1}, PassOn(i),
             i = position + 1 => InRange /\ Holder \in had
      PROVE  F!Next \/ UNCHANGED F!floorVars
  BY <1>0, <1>b, PassOnFloor DEF F!Next
<1>1. ASSUME \/ Start \/ ObserveQuiet \/ ObserveOutOfRange \/ ObserveReferee \/ ObserveLapse
             \/ ObserveWait \/ ObserveOver \/ AppendLapse \/ AppendComplete \/ AppendTurn
             \/ CueReferee \/ ReadEliminations \/ AppendRemoved \/ HostFault
      PROVE  UNCHANGED <<order, gate, round, had>>
  BY <1>1 DEF Start, ObserveQuiet, ObserveOutOfRange, ObserveReferee, ObserveLapse, ObserveWait,
     ObserveOver, AppendLapse, AppendComplete, AppendTurn, CueReferee, ReadEliminations,
     AppendRemoved, HostFault, ObserveLive, ObserveAwaiting, Consume, bus, manager, history
<1>2. ASSUME \/ SilencePasses \/ UNCHANGED vars
             \/ \E q \in Participants \cup {Referee} : Speak(q)
             \/ \E q \in Participants \cup {NoOne} : Eliminate(q)
      PROVE  UNCHANGED <<order, gate, round, had>>
  BY <1>2 DEF SilencePasses, Speak, Eliminate, vars, bus, manager, history
<1>3. ASSUME ObserveSpoke PROVE F!Next \/ UNCHANGED F!floorVars
  BY <1>3, <1>0, <1>b
     DEF ObserveSpoke, ObserveLive, Consume, FloorInv, Resting, Settled
<1>4. ASSUME ObserveTimeout PROVE F!Next \/ UNCHANGED F!floorVars
  <2>1. InRange /\ Holder \in had /\ order # <<>> /\ UNCHANGED gate
    BY <1>4, <1>0 DEF ObserveTimeout, ObserveLive, Consume, FloorInv, Resting, Settled
  <2>2. CASE order' = RemoveAt(order, position + 1) /\ UNCHANGED <<round, had>>
    BY <2>1, <2>2, <1>0, InRangeFacts, LeaveFloor
  <2>3. CASE PassOn(position + 1) /\ UNCHANGED order
    BY <2>1, <2>3, <1>b
  <2> QED
    BY <1>4, <2>2, <2>3 DEF ObserveTimeout
<1>5. ASSUME AppendRetired PROVE F!Next \/ UNCHANGED F!floorVars
  <2>1. CASE order = <<>>
    BY <1>5, <2>1, <1>a DEF AppendRetired, bus
  <2>2. CASE order # <<>>
    <3>1. PassOn(position) /\ UNCHANGED <<order, gate>> /\ position # position + 1
      BY <1>5, <2>2, <1>0 DEF AppendRetired, bus, TypeOK
    <3> QED
      BY <2>2, <3>1, <1>b
  <2> QED
    BY <2>1, <2>2
<1>6. ASSUME MuteAll PROVE F!Next
  BY <1>6 DEF MuteAll, manager, history, F!Next, F!Mute
<1>7. ASSUME OpenAll \/ Conclude PROVE F!Next
  BY <1>7 DEF OpenAll, Conclude, manager, history, F!Next, F!Open
<1>8. ASSUME Grant PROVE F!Next
  <2>1. /\ UNCHANGED <<order, round>> /\ gate' = Holder /\ had' = had \cup {Holder}
        /\ InRange /\ Holder \notin had
    BY <1>8, <1>0 DEF Grant, manager, AheadInv, TypeInv
  <2>2. Holder \in ToSet(order) /\ Holder \in Participants
    BY <2>1, <1>0, InRangeFacts DEF Holder, ToSet
  <2> QED
    BY <2>1, <2>2 DEF F!Next, F!Give
<1>9. ASSUME PopPlayer PROVE F!Next \/ UNCHANGED F!floorVars
  <2>1. UNCHANGED <<gate, round, had>>
    BY <1>9 DEF PopPlayer, bus
  <2>2. UNCHANGED order \/ \E k \in 1..Len(order) : order' = RemoveAt(order, k)
    BY <1>9 DEF PopPlayer
  <2> QED
    BY <2>1, <2>2, <1>0, <1>a, LeaveFloor
<1>10. ASSUME ResolveBatch PROVE F!Next \/ UNCHANGED F!floorVars
  <2>0. UNCHANGED <<order, gate>>
    BY <1>10 DEF ResolveBatch, bus
  <2>1. CASE ResolvedEmpty \/ ResolvedQuiet \/ ResolvedBoundary \/ ResolvedHandOn
    BY <2>0, <2>1, <1>a DEF ResolvedEmpty, ResolvedQuiet, ResolvedBoundary, ResolvedHandOn
  <2>2. CASE ResolvedWrap
    <3>1. PassOn(position) /\ order # <<>> /\ position # position + 1
      BY <2>2, <1>0 DEF ResolvedWrap, TypeOK
    <3> QED
      BY <2>0, <3>1, <1>b
  <2> QED
    BY <1>10, <2>1, <2>2 DEF ResolveBatch
<1> QED
  BY <1>a, <1>1, <1>2, <1>3, <1>4, <1>5, <1>6, <1>7, <1>8, <1>9, <1>10 DEF Next, HostStep, Observe

\* The turn manager implements Floor: no second turn in a lap, no lap closed over
\* someone passed over, whatever the roster, the retirements and the eliminations.
THEOREM TurnManagerImplementsFloor ==
    ASSUME ~Faults, ~Repeats
    PROVE  Spec => ImplementsFloor
<1>1. Init => RotationInv /\ CalmInv
  BY InitRotationInv, InitCalmInv
<1>2. RotationInv /\ CalmInv /\ [Next]_vars => (RotationInv /\ CalmInv)'
  BY StepRotationInv, StepCalmInv
<1>3. RotationInv /\ CalmInv /\ [Next]_vars => [F!Next]_(F!floorVars)
  BY StepFloor DEF CalmInv
<1> QED
  BY <1>1, <1>2, <1>3, InitFloor, PTL DEF Spec, ImplementsFloor, F!Spec
==============================================================================
