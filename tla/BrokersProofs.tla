----------------------------- MODULE BrokersProofs -----------------------------
(***************************************************************************)
(* Proofs about Brokers for any agents, rooms, allowances, tools, quotas   *)
(* and bounds: a send reaches its room once, nobody's allowance is         *)
(* exceeded by what the host bridges, and a quota only by the calls in     *)
(* flight together.                                                        *)
(***************************************************************************)
EXTENDS Brokers, FiniteSetTheorems, SequenceTheorems, WellFoundedInduction, TLAPS

LEMMA LeastExists ==
    ASSUME NEW T, T \subseteq Nat, T # {} PROVE \E x \in T : \A y \in T : x <= y
<1> DEFINE R == OpToRel(<, Nat)
<1>1. IsWellFoundedOn(R, Nat)
  BY NatLessThanWellFounded
<1>2. PICK x \in T : \A y \in T : ~(<<y, x>> \in R)
  BY <1>1, WFMin
<1>3. \A y \in T : ~(y < x)
  BY <1>2 DEF OpToRel
<1>4. QED
  BY <1>3

-----------------------------------------------------------------------------
(* Private messages.                                                       *)

Author  == Agent \cup {System}
PostRec == [by : Author, id : Nat, round : 0 .. MaxRounds]

RoomsTyped ==
    /\ posts \in [Rooms -> Seq(PostRec)] /\ record \in [Rooms -> Seq(Author)]
    /\ seen \in [Rooms -> Nat] /\ counted \in [Rooms -> Nat]
    /\ sent \in [Agent -> [0 .. MaxRounds -> Nat]] /\ round \in 0 .. MaxRounds
    /\ batch \in Nat /\ batch <= Len(sends)
    /\ sends \in Seq([from : Agent, to : Agent \cup {Stranger}])

\* what is bridged is marked, and no mark is spent twice
Marked ==
    \A room \in Rooms : \A i, j \in 1 .. Len(posts[room]) :
        posts[room][i].id # 0 =>
            /\ posts[room][i].id \in taken
            /\ posts[room][i].id = posts[room][j].id => i = j

\* what is bridged is counted, and within the allowance
Allowed ==
    \A a \in Agent, r \in 0 .. MaxRounds :
        /\ IsFiniteSet(Bridged(a, r))
        /\ DmQuota[a] # 0 => /\ Cardinality(Bridged(a, r)) <= sent[a][r]
                             /\ Cardinality(Bridged(a, r)) <= DmQuota[a]

RoomsInv == RoomsTyped /\ Marked /\ Allowed

\* the messages counted of an agent in a round
LEMMA CountsTyped ==
    ASSUME RoomsTyped
    PROVE  \A a \in Agent, r \in 0 .. MaxRounds : /\ sent[a] \in [0 .. MaxRounds -> Nat]
                                                /\ sent[a][r] \in Nat
                                                /\ sent[a][r] <= sent[a][r]
<1>1. sent \in [Agent -> [0 .. MaxRounds -> Nat]]
  BY DEF RoomsTyped
<1>2. \A a \in Agent : sent[a] \in [0 .. MaxRounds -> Nat]
  BY ONLY <1>1
<1>3. \A a \in Agent, r \in 0 .. MaxRounds : sent[a][r] \in Nat
  BY ONLY <1>2
<1>4. \A k \in Nat : k <= k
  OBVIOUS
<1>5. QED
  BY <1>2, <1>3, <1>4

LEMMA CountAdds ==
    ASSUME RoomsTyped, NEW a \in Agent
    PROVE  /\ Count(a, 1) \in [Agent -> [0 .. MaxRounds -> Nat]]
           /\ \A b \in Agent, r \in 0 .. MaxRounds :
                 Count(a, 1)[b][r] = IF b = a /\ r = round THEN sent[b][r] + 1 ELSE sent[b][r]
<1> DEFINE mine == [sent[a] EXCEPT ![round] = sent[a][round] + 1]
<1>1. /\ sent \in [Agent -> [0 .. MaxRounds -> Nat]] /\ round \in 0 .. MaxRounds
      /\ sent[a] \in [0 .. MaxRounds -> Nat] /\ sent[a][round] \in Nat
  BY CountsTyped DEF RoomsTyped
<1>2. sent[a][round] + 1 \in Nat
  BY <1>1
<1>3. /\ mine \in [0 .. MaxRounds -> Nat]
      /\ \A r \in 0 .. MaxRounds : mine[r] = IF r = round THEN sent[a][r] + 1 ELSE sent[a][r]
  BY ONLY <1>1, <1>2
<1>4. Count(a, 1) = [sent EXCEPT ![a] = mine]
  BY DEF Count
<1> HIDE DEF mine
<1>5. Count(a, 1) \in [Agent -> [0 .. MaxRounds -> Nat]]
  BY ONLY <1>1, <1>3, <1>4
<1>6. ASSUME NEW b \in Agent, NEW r \in 0 .. MaxRounds
      PROVE  Count(a, 1)[b][r] = IF b = a /\ r = round THEN sent[b][r] + 1 ELSE sent[b][r]
  <2>1. CASE b = a
    <3>1. Count(a, 1)[b] = mine
      BY <1>1, <1>4, <2>1
    <3>2. QED
      BY <1>3, <2>1, <3>1
  <2>2. CASE b # a
    <3>1. Count(a, 1)[b] = sent[b]
      BY <1>1, <1>4, <2>2
    <3>2. QED
      BY <2>2, <3>1
  <2>3. QED
    BY <2>1, <2>2
<1>7. QED
  BY <1>5, <1>6

\* what a post does to one room and to what is bridged
LEMMA PostedFacts ==
    ASSUME RoomsTyped, NEW room \in Rooms, NEW by \in Author, NEW id \in Nat,
           Posted(room, by, id)
    PROVE  /\ posts' \in [Rooms -> Seq(PostRec)]
           /\ \A q \in Rooms \ {room} : posts'[q] = posts[q]
           /\ Len(posts[room]) \in Nat /\ Len(posts'[room]) = Len(posts[room]) + 1
           /\ \A i \in 1 .. Len(posts[room]) : posts'[room][i] = posts[room][i]
           /\ posts'[room][Len(posts[room]) + 1] = [by |-> by, id |-> id, round |-> round]
<1> DEFINE m == [by |-> by, id |-> id, round |-> round]
<1>1. m \in PostRec
  BY DEF RoomsTyped, PostRec
<1> HIDE DEF m
<1>2. posts' = [posts EXCEPT ![room] = Append(posts[room], m)]
  BY DEF Posted, m
<1>3. posts[room] \in Seq(PostRec) /\ posts \in [Rooms -> Seq(PostRec)]
  BY DEF RoomsTyped
<1>4. posts'[room] = Append(posts[room], m)
  BY <1>2, <1>3
<1>5. /\ Append(posts[room], m) \in Seq(PostRec) /\ Len(posts[room]) \in Nat
      /\ Len(Append(posts[room], m)) = Len(posts[room]) + 1
      /\ \A i \in 1 .. Len(posts[room]) : Append(posts[room], m)[i] = posts[room][i]
      /\ Append(posts[room], m)[Len(posts[room]) + 1] = m
  BY ONLY <1>1, <1>3, AppendProperties, LenProperties
<1>6. posts' \in [Rooms -> Seq(PostRec)] /\ \A q \in Rooms \ {room} : posts'[q] = posts[q]
  BY ONLY <1>2, <1>3, <1>5
<1>7. QED
  BY <1>4, <1>5, <1>6 DEF m

\* which posts are bridged
LEMMA BridgedIs ==
    ASSUME posts \in [Rooms -> Seq(PostRec)], NEW a, NEW r, NEW x
    PROVE  x \in Bridged(a, r) <=>
              \E room \in Rooms : \E i \in 1 .. Len(posts[room]) :
                 /\ x = <<room, i>> /\ posts[room][i].by = a /\ posts[room][i].id # 0
                 /\ posts[room][i].round = r
<1>1. \A room \in Rooms : DOMAIN posts[room] = 1 .. Len(posts[room])
  BY LenProperties
<1>2. QED
  BY <1>1 DEF Bridged

LEMMA BridgedIsNext ==
    ASSUME posts' \in [Rooms -> Seq(PostRec)], NEW a, NEW r, NEW x
    PROVE  x \in Bridged(a, r)' <=>
              \E room \in Rooms : \E i \in 1 .. Len(posts'[room]) :
                 /\ x = <<room, i>> /\ posts'[room][i].by = a /\ posts'[room][i].id # 0
                 /\ posts'[room][i].round = r
<1>1. \A room \in Rooms : DOMAIN posts'[room] = 1 .. Len(posts'[room])
  BY LenProperties
<1>2. QED
  BY <1>1 DEF Bridged

LEMMA BridgedGrows ==
    ASSUME RoomsTyped, NEW room \in Rooms, NEW by \in Author, NEW id \in Nat,
           Posted(room, by, id), NEW a, NEW r
    PROVE  Bridged(a, r)' = IF id # 0 /\ by = a /\ r = round
                            THEN Bridged(a, r) \cup {<<room, Len(posts[room]) + 1>>}
                            ELSE Bridged(a, r)
<1> DEFINE n == Len(posts[room]) + 1
<1>1. /\ posts \in [Rooms -> Seq(PostRec)] /\ posts' \in [Rooms -> Seq(PostRec)]
      /\ \A q \in Rooms \ {room} : posts'[q] = posts[q]
      /\ Len(posts[room]) \in Nat /\ Len(posts'[room]) = n
      /\ \A i \in 1 .. Len(posts[room]) : posts'[room][i] = posts[room][i]
      /\ posts'[room][n] = [by |-> by, id |-> id, round |-> round]
  BY PostedFacts DEF RoomsTyped
<1>2. \A i : i \in 1 .. Len(posts'[room]) <=> (i \in 1 .. Len(posts[room]) \/ i = n)
  BY <1>1
<1>3. ASSUME NEW x
      PROVE  x \in Bridged(a, r)' <=> \/ x \in Bridged(a, r)
                                      \/ x = <<room, n>> /\ id # 0 /\ by = a /\ r = round
  <2>1. ASSUME x \in Bridged(a, r)
        PROVE  x \in Bridged(a, r)'
    <3>0. x \in Bridged(a, r) <=>
             \E q \in Rooms : \E i \in 1 .. Len(posts[q]) :
                /\ x = <<q, i>> /\ posts[q][i].by = a /\ posts[q][i].id # 0
                /\ posts[q][i].round = r
      BY ONLY <1>1, BridgedIs
    <3>1. PICK q \in Rooms : \E i \in 1 .. Len(posts[q]) :
             /\ x = <<q, i>> /\ posts[q][i].by = a /\ posts[q][i].id # 0
             /\ posts[q][i].round = r
      BY ONLY <2>1, <3>0
    <3>2. PICK i \in 1 .. Len(posts[q]) :
             /\ x = <<q, i>> /\ posts[q][i].by = a /\ posts[q][i].id # 0
             /\ posts[q][i].round = r
      BY <3>1
    <3>3. i \in 1 .. Len(posts'[q]) /\ posts'[q][i] = posts[q][i]
      <4>1. CASE q = room
        BY <1>1, <1>2, <4>1
      <4>2. CASE q # room
        BY <1>1, <4>2
      <4>3. QED
        BY <4>1, <4>2
    <3>4. QED
      BY <1>1, <3>2, <3>3, BridgedIsNext
  <2>2. ASSUME x = <<room, n>>, id # 0, by = a, r = round PROVE x \in Bridged(a, r)'
    <3>1. n \in 1 .. Len(posts'[room])
      BY <1>2
    <3>2. posts'[room][n].by = a /\ posts'[room][n].id # 0 /\ posts'[room][n].round = r
      BY <1>1, <2>2
    <3>3. x = <<room, n>>
      BY <2>2
    <3> HIDE DEF n
    <3>4. \E i \in 1 .. Len(posts'[room]) :
             /\ x = <<room, i>> /\ posts'[room][i].by = a /\ posts'[room][i].id # 0
             /\ posts'[room][i].round = r
      BY <3>1, <3>2, <3>3
    <3>5. QED
      BY <1>1, <3>4, BridgedIsNext
  <2>3. ASSUME x \in Bridged(a, r)', x \notin Bridged(a, r)
        PROVE  x = <<room, n>> /\ id # 0 /\ by = a /\ r = round
    <3>1. PICK q \in Rooms : \E i \in 1 .. Len(posts'[q]) :
             /\ x = <<q, i>> /\ posts'[q][i].by = a /\ posts'[q][i].id # 0
             /\ posts'[q][i].round = r
      BY <1>1, <2>3, BridgedIsNext
    <3>2. PICK i \in 1 .. Len(posts'[q]) :
             /\ x = <<q, i>> /\ posts'[q][i].by = a /\ posts'[q][i].id # 0
             /\ posts'[q][i].round = r
      BY <3>1
    <3>3. ~(i \in 1 .. Len(posts[q]) /\ posts'[q][i] = posts[q][i])
      <4> SUFFICES ASSUME i \in 1 .. Len(posts[q]), posts'[q][i] = posts[q][i]
                   PROVE  FALSE
        OBVIOUS
      <4>1. x \in Bridged(a, r)
        BY <1>1, <3>2, BridgedIs
      <4>2. QED
        BY <2>3, <4>1
    <3>4. q = room
      BY <1>1, <3>2, <3>3
    <3>5. i = n
      BY <1>1, <1>2, <3>2, <3>3, <3>4
    <3>6. QED
      BY <1>1, <3>2, <3>4, <3>5
  <2>4. QED
    BY <2>1, <2>2, <2>3
<1>4. QED
  BY <1>3

-----------------------------------------------------------------------------
(* Steps that post nothing, that post something not bridged, and delivery. *)

LEMMA NothingPosted ==
    ASSUME RoomsInv, RoomsTyped', posts' = posts, taken \subseteq taken',
           \A a \in Agent, r \in 0 .. MaxRounds : sent[a][r] <= sent'[a][r]
    PROVE  RoomsInv'
<1>1. \A a, r : Bridged(a, r)' = Bridged(a, r)
  BY DEF Bridged
<1>2. Marked'
  BY DEF RoomsInv, Marked
<1>3. ASSUME NEW a \in Agent, NEW r \in 0 .. MaxRounds
      PROVE  /\ IsFiniteSet(Bridged(a, r)')
             /\ DmQuota[a] # 0 => /\ Cardinality(Bridged(a, r)') <= sent'[a][r]
                                  /\ Cardinality(Bridged(a, r)') <= DmQuota[a]
  <2>1. IsFiniteSet(Bridged(a, r)) /\ Cardinality(Bridged(a, r)) \in Nat
    BY FS_CardinalityType DEF RoomsInv, Allowed
  <2>2. sent[a][r] \in Nat /\ sent'[a][r] \in Nat /\ sent[a][r] <= sent'[a][r]
    BY DEF RoomsInv, RoomsTyped
  <2>3. DmQuota[a] # 0 => /\ Cardinality(Bridged(a, r)) <= sent[a][r]
                          /\ Cardinality(Bridged(a, r)) <= DmQuota[a]
    BY DEF RoomsInv, Allowed
  <2>4. QED
    BY <1>1, <2>1, <2>2, <2>3
<1>4. Allowed'
  BY <1>3 DEF Allowed
<1>5. QED
  BY <1>2, <1>4 DEF RoomsInv

\* what is told of the rooms, apart from their posts
PostsAside == <<record, seen, counted, round, batch, sends>>

LEMMA NothingChanged ==
    ASSUME RoomsInv, UNCHANGED <<PostsAside, posts, taken, sent>>
    PROVE  RoomsInv'
<1>0. posts' = posts /\ sent' = sent /\ record' = record /\ seen' = seen
      /\ counted' = counted /\ round' = round /\ batch' = batch /\ sends' = sends
  BY DEF PostsAside
<1>1. RoomsTyped'
  BY <1>0 DEF RoomsInv, RoomsTyped
<1>2. \A a \in Agent, r \in 0 .. MaxRounds : sent[a][r] <= sent'[a][r]
  BY <1>0, CountsTyped DEF RoomsInv
<1>3. posts' = posts /\ taken \subseteq taken'
  OBVIOUS
<1>4. QED
  BY <1>1, <1>2, <1>3, NothingPosted

\* an agent's own post or a notice of the host
LEMMA NotBridged ==
    ASSUME RoomsInv, NEW room \in Rooms, NEW by \in Author, Posted(room, by, 0),
           UNCHANGED <<PostsAside, sent>>, taken \subseteq taken'
    PROVE  RoomsInv'
<1> DEFINE n == Len(posts[room]) + 1
<1>1. /\ posts' \in [Rooms -> Seq(PostRec)]
      /\ \A q \in Rooms \ {room} : posts'[q] = posts[q]
      /\ Len(posts[room]) \in Nat /\ Len(posts'[room]) = n
      /\ \A i \in 1 .. Len(posts[room]) : posts'[room][i] = posts[room][i]
      /\ posts'[room][n] = [by |-> by, id |-> 0, round |-> round]
  BY PostedFacts DEF RoomsInv
<1>2. RoomsTyped'
  BY <1>1 DEF RoomsInv, RoomsTyped, PostsAside
<1>3. \A a, r : Bridged(a, r)' = Bridged(a, r)
  BY BridgedGrows DEF RoomsInv
<1>4. ASSUME NEW q \in Rooms, NEW i \in 1 .. Len(posts'[q]), posts'[q][i].id # 0
      PROVE  i \in 1 .. Len(posts[q]) /\ posts'[q][i] = posts[q][i]
  BY <1>1, <1>4
<1>5. Marked'
  <2> SUFFICES ASSUME NEW q \in Rooms, NEW i \in 1 .. Len(posts'[q]),
                      NEW j \in 1 .. Len(posts'[q]), posts'[q][i].id # 0
               PROVE  /\ posts'[q][i].id \in taken'
                      /\ posts'[q][i].id = posts'[q][j].id => i = j
    BY DEF Marked
  <2>1. i \in 1 .. Len(posts[q]) /\ posts'[q][i] = posts[q][i]
    BY <1>4
  <2>2. posts'[q][i].id = posts'[q][j].id => j \in 1 .. Len(posts[q]) /\ posts'[q][j] = posts[q][j]
    BY <1>4
  <2>3. QED
    BY <2>1, <2>2 DEF RoomsInv, Marked
<1>6. Allowed'
  BY <1>3 DEF RoomsInv, Allowed
<1>7. QED
  BY <1>2, <1>5, <1>6 DEF RoomsInv

\* a send delivered in its sender's name
LEMMA DeliveredInv ==
    ASSUME RoomsInv, NEW room \in Rooms, NEW a \in Agent, NEW id \in Nat, id # 0,
           id \notin taken, taken' = taken \cup {id}, Posted(room, a, id), ~Spent(a),
           sent' = IF DmQuota[a] = 0 THEN sent ELSE Count(a, 1), UNCHANGED PostsAside
    PROVE  RoomsInv'
<1> DEFINE n == Len(posts[room]) + 1
<1>0. /\ RoomsTyped /\ a \in Author
      /\ round' = round /\ record' = record /\ seen' = seen
      /\ counted' = counted /\ batch' = batch /\ sends' = sends
  BY DEF RoomsInv, PostsAside, Author
<1>1. /\ posts' \in [Rooms -> Seq(PostRec)]
      /\ \A q \in Rooms \ {room} : posts'[q] = posts[q]
      /\ Len(posts[room]) \in Nat /\ Len(posts'[room]) = n
      /\ \A i \in 1 .. Len(posts[room]) : posts'[room][i] = posts[room][i]
      /\ posts'[room][n] = [by |-> a, id |-> id, round |-> round]
  BY <1>0, PostedFacts
<1>2. sent \in [Agent -> [0 .. MaxRounds -> Nat]] /\ round \in 0 .. MaxRounds
  BY <1>0 DEF RoomsTyped
<1>3. Count(a, 1) \in [Agent -> [0 .. MaxRounds -> Nat]]
  BY <1>0, CountAdds
<1>4. sent' \in [Agent -> [0 .. MaxRounds -> Nat]]
  BY <1>2, <1>3
<1>5. RoomsTyped'
  BY <1>0, <1>1, <1>4 DEF RoomsTyped
<1>6. ASSUME NEW q \in Rooms, NEW i \in 1 .. Len(posts'[q])
      PROVE  \/ q = room /\ i = n
             \/ i \in 1 .. Len(posts[q]) /\ posts'[q][i] = posts[q][i]
  BY <1>1
<1>7. Marked'
  <2> SUFFICES ASSUME NEW q \in Rooms, NEW i \in 1 .. Len(posts'[q]),
                      NEW j \in 1 .. Len(posts'[q]), posts'[q][i].id # 0
               PROVE  /\ posts'[q][i].id \in taken'
                      /\ posts'[q][i].id = posts'[q][j].id => i = j
    BY DEF Marked
  <2>0. \A k \in 1 .. Len(posts[q]) : posts[q][k].id # 0 => posts[q][k].id \in taken
    BY DEF RoomsInv, Marked
  <2>1. CASE q = room /\ i = n
    <3>1. posts'[q][i].id = id
      BY <1>1, <2>1
    <3>2. CASE j = n
      BY <2>1, <3>1, <3>2
    <3>3. CASE j # n
      <4>1. posts'[q][j] = posts[q][j] /\ j \in 1 .. Len(posts[q])
        BY <1>6, <3>3
      <4>2. posts'[q][j].id # id
        BY <2>0, <4>1
      <4>3. QED
        BY <3>1, <4>2
    <3>4. QED
      BY <3>2, <3>3
  <2>2. CASE i \in 1 .. Len(posts[q]) /\ posts'[q][i] = posts[q][i]
    <3>1. posts'[q][i].id \in taken
      BY <2>0, <2>2
    <3>2. CASE q = room /\ j = n
      <4>1. posts'[q][j].id = id
        BY <1>1, <3>2
      <4>2. QED
        BY <3>1, <4>1
    <3>3. CASE j \in 1 .. Len(posts[q]) /\ posts'[q][j] = posts[q][j]
      BY <2>2, <3>1, <3>3 DEF RoomsInv, Marked
    <3>4. QED
      BY <1>6, <3>2, <3>3
  <2>3. QED
    BY <1>6, <2>1, <2>2
<1>8. ASSUME NEW b \in Agent, NEW r \in 0 .. MaxRounds
      PROVE  /\ IsFiniteSet(Bridged(b, r)')
             /\ DmQuota[b] # 0 => /\ Cardinality(Bridged(b, r)') <= sent'[b][r]
                                  /\ Cardinality(Bridged(b, r)') <= DmQuota[b]
  <2>1. /\ IsFiniteSet(Bridged(b, r))
        /\ DmQuota[b] # 0 => /\ Cardinality(Bridged(b, r)) <= sent[b][r]
                             /\ Cardinality(Bridged(b, r)) <= DmQuota[b]
    BY DEF RoomsInv, Allowed
  <2>2. Bridged(b, r)' = IF a = b /\ r = round
                         THEN Bridged(b, r) \cup {<<room, Len(posts[room]) + 1>>}
                         ELSE Bridged(b, r)
    BY <1>0, BridgedGrows
  <2>3. CASE a = b /\ r = round
    <3> DEFINE B == Bridged(b, r)
               x == <<room, Len(posts[room]) + 1>>
    <3>1. x \notin B
      <4> SUFFICES ASSUME x \in B PROVE FALSE
        OBVIOUS
      <4>1. \E q \in Rooms : \E i \in 1 .. Len(posts[q]) : x = <<q, i>>
        BY <1>0, BridgedIs DEF RoomsTyped
      <4>2. QED
        BY <1>1, <4>1
    <3>2. IsFiniteSet(B \cup {x}) /\ Cardinality(B \cup {x}) = Cardinality(B) + 1
      BY <2>1, <3>1, FS_AddElement
    <3>3. Cardinality(B) \in Nat
      BY <2>1, FS_CardinalityType
    <3>4. sent[b][r] \in Nat
      BY <1>0, CountsTyped
    <3>5. DmQuota[b] # 0 => sent'[b][r] = sent[b][r] + 1
      BY <1>0, <2>3, CountAdds
    <3>6. DmQuota[b] # 0 => ~(sent[b][r] >= DmQuota[b])
      BY <2>3 DEF Spent
    <3>7. DmQuota[b] \in Nat
      BY PrivateAssumption
    <3>8. Bridged(b, r)' = B \cup {x}
      BY <2>2, <2>3
    <3> HIDE DEF B, x
    <3>9. DmQuota[b] # 0 => Cardinality(B) <= sent[b][r]
      BY <2>1 DEF B
    <3>10. QED
      BY <3>2, <3>3, <3>4, <3>5, <3>6, <3>7, <3>8, <3>9
  <2>4. CASE ~(a = b /\ r = round)
    <3>1. Bridged(b, r)' = Bridged(b, r)
      BY <2>2, <2>4
    <3>2. sent'[b][r] = sent[b][r]
      BY <1>0, <2>4, CountAdds
    <3>3. QED
      BY <2>1, <3>1, <3>2
  <2>5. QED
    BY <2>3, <2>4
<1>9. Allowed'
  BY <1>8 DEF Allowed
<1>10. QED
  BY <1>5, <1>7, <1>9 DEF RoomsInv

-----------------------------------------------------------------------------
(* The steps.                                                              *)

LEMMA ReadSendsKeeps ==
    ASSUME RoomsInv, ReadSends PROVE RoomsInv'
<1>1. /\ posts' = posts /\ sent' = sent /\ taken' = taken /\ record' = record
      /\ seen' = seen /\ counted' = counted /\ round' = round /\ sends' = sends
      /\ batch' = (IF Rooms = {} THEN 0 ELSE Len(sends))
  BY DEF ReadSends
<1>2. sends \in Seq([from : Agent, to : Agent \cup {Stranger}])
  BY DEF RoomsInv, RoomsTyped
<1>3. Len(sends) \in Nat
  BY <1>2, LenProperties
<1>4. batch' \in Nat /\ batch' <= Len(sends')
  BY <1>1, <1>3
<1>5. RoomsTyped'
  BY <1>1, <1>4 DEF RoomsInv, RoomsTyped
<1>6. \A a \in Agent, r \in 0 .. MaxRounds : sent[a][r] <= sent'[a][r]
  BY <1>1, CountsTyped DEF RoomsInv
<1>7. QED
  BY <1>1, <1>5, <1>6, NothingPosted

LEMMA SendKeeps ==
    ASSUME RoomsInv, NEW a \in Agent, NEW to \in Agent \cup {Stranger}, Send(a, to)
    PROVE  RoomsInv'
<1> DEFINE m == [from |-> a, to |-> to]
           S == [from : Agent, to : Agent \cup {Stranger}]
<1>1. /\ posts' = posts /\ sent' = sent /\ taken' = taken /\ record' = record
      /\ seen' = seen /\ counted' = counted /\ round' = round /\ batch' = batch
      /\ sends' = Append(sends, m)
  BY DEF Send
<1>2. sends \in Seq(S) /\ batch \in Nat /\ batch <= Len(sends) /\ m \in S
  BY DEF RoomsInv, RoomsTyped
<1>3. Append(sends, m) \in Seq(S) /\ Len(Append(sends, m)) = Len(sends) + 1
      /\ Len(sends) \in Nat
  <2> HIDE DEF m, S
  <2>1. QED
    BY <1>2, AppendProperties, LenProperties
<1>4. RoomsTyped'
  BY <1>1, <1>2, <1>3 DEF RoomsInv, RoomsTyped
<1>5. \A b \in Agent, r \in 0 .. MaxRounds : sent[b][r] <= sent'[b][r]
  BY <1>1, CountsTyped DEF RoomsInv
<1>6. QED
  BY <1>1, <1>4, <1>5, NothingPosted

LEMMA NextSendIsPending ==
    ASSUME RoomsTyped, Pending # {} PROVE NextSend \in Pending
<1>1. Pending \subseteq Nat
  BY DEF Pending, RoomsTyped
<1>2. \E i \in Pending : \A j \in Pending : i <= j
  BY <1>1, LeastExists
<1>3. QED
  BY <1>2 DEF NextSend

LEMMA DeliverKeeps ==
    ASSUME RoomsInv, Deliver PROVE RoomsInv'
<1> DEFINE i == NextSend
           m == sends[i]
           room == {m.from, m.to}
<1>1. /\ taken' = taken \cup {i} /\ Pending # {}
      /\ UNCHANGED PostsAside
  BY DEF Deliver, Taken, PostsAside
<1>2. i \in Pending /\ RoomsTyped
  BY <1>1, NextSendIsPending DEF RoomsInv
<1>3. i \in Nat /\ i # 0 /\ i \notin taken /\ i \in 1 .. Len(sends)
  BY <1>2 DEF Pending, RoomsTyped
<1>4. m.from \in Agent
  <2> DEFINE S == [from : Agent, to : Agent \cup {Stranger}]
  <2>1. sends \in Seq(S)
    BY <1>2 DEF RoomsTyped
  <2>2. sends[i] \in S
    <3> HIDE DEF S, i
    <3>1. QED
      BY <1>3, <2>1, ElementOfSeq
  <2>3. QED
    BY <2>2
<1>5. \/ posts' = posts /\ sent' = sent
      \/ Routed(m) /\ Posted(room, System, 0) /\ sent' = sent
      \/ /\ Routed(m) /\ ~Spent(m.from)
         /\ sent' = IF DmQuota[m.from] = 0 THEN sent ELSE Count(m.from, 1)
         /\ Posted(room, m.from, i) \/ posts' = posts
  BY DEF Deliver
<1>6. Routed(m) => room \in Rooms
  BY DEF Routed
<1>7. System \in Author /\ 0 \in Nat
  BY DEF Author
<1> HIDE DEF m, room, i
<1>8. CASE posts' = posts /\ sent' = sent
  <2>1. RoomsTyped'
    BY <1>1, <1>2, <1>8 DEF RoomsTyped, PostsAside
  <2>2. \A a \in Agent, r \in 0 .. MaxRounds : sent[a][r] <= sent'[a][r]
    BY <1>2, <1>8, CountsTyped
  <2>3. QED
    BY <1>1, <1>8, <2>1, <2>2, NothingPosted
<1>9. CASE Routed(m) /\ Posted(room, System, 0) /\ sent' = sent
  BY <1>1, <1>6, <1>7, <1>9, NotBridged
<1>10. CASE /\ Routed(m) /\ ~Spent(m.from)
            /\ sent' = IF DmQuota[m.from] = 0 THEN sent ELSE Count(m.from, 1)
            /\ Posted(room, m.from, i) \/ posts' = posts
  <2>1. CASE Posted(room, m.from, i)
    BY <1>1, <1>3, <1>4, <1>6, <1>10, <2>1, DeliveredInv
  <2>2. CASE posts' = posts
    <3>1. sent \in [Agent -> [0 .. MaxRounds -> Nat]] /\ round \in 0 .. MaxRounds
      BY <1>2 DEF RoomsTyped
    <3>2. /\ Count(m.from, 1) \in [Agent -> [0 .. MaxRounds -> Nat]]
          /\ \A a \in Agent, r \in 0 .. MaxRounds : sent[a][r] <= Count(m.from, 1)[a][r]
      BY <1>2, <1>4, CountAdds, CountsTyped
    <3>3. /\ sent' \in [Agent -> [0 .. MaxRounds -> Nat]]
          /\ \A a \in Agent, r \in 0 .. MaxRounds : sent[a][r] <= sent'[a][r]
      <4>1. CASE DmQuota[m.from] = 0
        BY <1>2, <1>10, <3>1, <4>1, CountsTyped
      <4>2. CASE DmQuota[m.from] # 0
        BY <1>10, <3>2, <4>2
      <4>3. QED
        BY <4>1, <4>2
    <3>4. RoomsTyped'
      BY <1>1, <1>2, <2>2, <3>3 DEF RoomsTyped, PostsAside
    <3>5. QED
      BY <1>1, <2>2, <3>3, <3>4, NothingPosted
  <2>3. QED
    BY <1>10, <2>1, <2>2
<1>11. QED
  BY <1>5, <1>8, <1>9, <1>10

LEMMA MirrorKeeps ==
    ASSUME RoomsInv, NEW q \in Rooms, Mirror(q) PROVE RoomsInv'
<1> DEFINE fresh == SubSeq(posts[q], seen[q] + 1, Len(posts[q]))
           By(n) == [i \in 1 .. n |-> fresh[i].by]
<1>1. /\ posts' = posts /\ sent' = sent /\ taken' = taken /\ sends' = sends
      /\ counted' = counted /\ round' = round /\ batch' = batch
  BY DEF Mirror
<1>2. \/ /\ seen' = [seen EXCEPT ![q] = Len(posts[q])]
         /\ record' = [record EXCEPT ![q] = @ \o By(Len(fresh))]
      \/ \E n \in 1 .. Len(fresh) :
            /\ seen' = [seen EXCEPT ![q] = @ + n]
            /\ record' = [record EXCEPT ![q] = @ \o By(n - 1)]
  BY DEF Mirror
<1>3. /\ posts[q] \in Seq(PostRec) /\ seen[q] \in Nat /\ record[q] \in Seq(Author)
      /\ seen \in [Rooms -> Nat] /\ record \in [Rooms -> Seq(Author)]
      /\ Len(posts[q]) \in Nat
  BY LenProperties DEF RoomsInv, RoomsTyped
<1>4. fresh \in Seq(PostRec) /\ Len(fresh) \in Nat
  BY ONLY <1>3, SubSeqProperties, LenProperties
<1> HIDE DEF fresh
<1>5. \A i \in 1 .. Len(fresh) : fresh[i] \in PostRec
  BY <1>4, ElementOfSeq
<1>6. \A p \in PostRec : p.by \in Author
  BY DEF PostRec
<1>7. ASSUME NEW n \in Nat, n <= Len(fresh) PROVE By(n) \in Seq(Author)
  <2>1. \A i \in 1 .. n : fresh[i].by \in Author
    BY <1>4, <1>5, <1>6, <1>7
  <2>2. QED
    BY ONLY <2>1, n \in Nat, IsASeq
<1>8. PICK n \in Nat, k \in Nat : /\ k <= Len(fresh)
                                 /\ seen' = [seen EXCEPT ![q] = n]
                                 /\ record' = [record EXCEPT ![q] = record[q] \o By(k)]
  <2>1. CASE /\ seen' = [seen EXCEPT ![q] = Len(posts[q])]
             /\ record' = [record EXCEPT ![q] = @ \o By(Len(fresh))]
    <3>1. Len(fresh) <= Len(fresh)
      BY <1>4
    <3> HIDE DEF By
    <3>2. QED
      BY <1>3, <1>4, <2>1, <3>1
  <2>2. CASE \E n \in 1 .. Len(fresh) :
               /\ seen' = [seen EXCEPT ![q] = @ + n]
               /\ record' = [record EXCEPT ![q] = @ \o By(n - 1)]
    <3>1. PICK n \in 1 .. Len(fresh) :
               /\ seen' = [seen EXCEPT ![q] = @ + n]
               /\ record' = [record EXCEPT ![q] = @ \o By(n - 1)]
      BY <2>2
    <3>2. /\ seen[q] + n \in Nat /\ n - 1 \in Nat /\ n - 1 <= Len(fresh)
      BY <1>3, <1>4
    <3> HIDE DEF By
    <3>3. QED
      BY <3>1, <3>2
  <2>3. QED
    BY <1>2, <2>1, <2>2
<1>9. record[q] \o By(k) \in Seq(Author)
  <2>1. By(k) \in Seq(Author)
    BY <1>7, <1>8
  <2> HIDE DEF By
  <2>2. QED
    BY <1>3, <2>1, ConcatProperties
<1> HIDE DEF By
<1>10. seen' \in [Rooms -> Nat] /\ record' \in [Rooms -> Seq(Author)]
  BY <1>3, <1>8, <1>9
<1>11. RoomsTyped'
  BY <1>1, <1>10 DEF RoomsInv, RoomsTyped
<1>12. \A a \in Agent, r \in 0 .. MaxRounds : sent[a][r] <= sent'[a][r]
  BY <1>1, CountsTyped DEF RoomsInv
<1>13. QED
  BY <1>1, <1>11, <1>12, NothingPosted

LEMMA CountRoomKeeps ==
    ASSUME RoomsInv, NEW q \in Rooms, CountRoom(q) PROVE RoomsInv'
<1> DEFINE fresh == SubSeq(record[q], counted[q] + 1, Len(record[q]))
           By(a) == Cardinality({i \in DOMAIN fresh : fresh[i] = a})
<1>1. /\ posts' = posts /\ record' = record /\ taken' = taken /\ sends' = sends
      /\ seen' = seen /\ round' = round /\ batch' = batch
      /\ counted' = [counted EXCEPT ![q] = Len(record[q])]
      /\ sent' = [a \in Agent |-> [sent[a] EXCEPT ![round] = @ + By(a)]]
  BY DEF CountRoom
<1>2. /\ record[q] \in Seq(Author) /\ counted[q] \in Nat /\ Len(record[q]) \in Nat
      /\ counted \in [Rooms -> Nat] /\ round \in 0 .. MaxRounds /\ RoomsTyped
  BY LenProperties DEF RoomsInv, RoomsTyped
<1>3. fresh \in Seq(Author) /\ DOMAIN fresh = 1 .. Len(fresh) /\ Len(fresh) \in Nat
  BY ONLY <1>2, SubSeqProperties, LenProperties
<1> HIDE DEF fresh
<1>4. IsFiniteSet(DOMAIN fresh)
  BY <1>3, FS_Interval
<1>5. ASSUME NEW a PROVE By(a) \in Nat
  <2>1. IsFiniteSet({i \in DOMAIN fresh : fresh[i] = a})
    BY <1>4, FS_Subset
  <2>2. QED
    BY <2>1, FS_CardinalityType
<1> HIDE DEF By
<1>6. ASSUME NEW a \in Agent
      PROVE  /\ sent'[a] \in [0 .. MaxRounds -> Nat]
             /\ \A r \in 0 .. MaxRounds : sent[a][r] <= sent'[a][r]
  <2>1. sent'[a] = [sent[a] EXCEPT ![round] = sent[a][round] + By(a)]
    BY <1>1
  <2>2. /\ sent[a] \in [0 .. MaxRounds -> Nat] /\ By(a) \in Nat
        /\ \A r \in 0 .. MaxRounds : sent[a][r] \in Nat
    BY <1>2, <1>5, CountsTyped
  <2>3. QED
    BY ONLY <1>2, <2>1, <2>2
<1>7. sent' \in [Agent -> [0 .. MaxRounds -> Nat]]
  <2>1. sent' = [a \in Agent |-> sent'[a]]
    BY <1>1
  <2>2. QED
    BY <1>6, <2>1
<1>8. counted' \in [Rooms -> Nat]
  BY <1>1, <1>2
<1>9. RoomsTyped'
  BY <1>1, <1>2, <1>7, <1>8 DEF RoomsTyped
<1>10. QED
  BY <1>1, <1>6, <1>9, NothingPosted

LEMMA ObserveKeeps ==
    ASSUME RoomsInv, Observe PROVE RoomsInv'
<1>1. /\ posts' = posts /\ sent' = sent /\ taken' = taken /\ sends' = sends
      /\ record' = record /\ seen' = seen /\ counted' = counted /\ batch' = batch
      /\ round' \in {round} \cup (IF round < MaxRounds THEN {round + 1} ELSE {})
  BY DEF Observe
<1>2. round \in 0 .. MaxRounds /\ MaxRounds \in Nat
  BY PrivateAssumption DEF RoomsInv, RoomsTyped
<1>3. round' \in 0 .. MaxRounds
  BY <1>1, <1>2
<1>4. RoomsTyped'
  BY <1>1, <1>3 DEF RoomsInv, RoomsTyped
<1>5. \A a \in Agent, r \in 0 .. MaxRounds : sent[a][r] <= sent'[a][r]
  BY <1>1, CountsTyped DEF RoomsInv
<1>6. QED
  BY <1>1, <1>4, <1>5, NothingPosted

LEMMA RoomsStart == Init => RoomsInv
<1> SUFFICES ASSUME Init PROVE RoomsInv
  OBVIOUS
<1>1. /\ sends = <<>> /\ batch = 0 /\ round = 0 /\ posts = [r \in Rooms |-> <<>>]
      /\ record = posts /\ seen = [r \in Rooms |-> 0] /\ counted = seen
      /\ sent = [a \in Agent |-> [r \in 0 .. MaxRounds |-> 0]]
  BY DEF Init, PrivateInit
<1>2. \A S : <<>> \in Seq(S) /\ Len(<<>>) = 0
  OBVIOUS
<1>3. posts \in [Rooms -> Seq(PostRec)] /\ record \in [Rooms -> Seq(Author)]
  BY <1>1, <1>2
<1>4. sent \in [Agent -> [0 .. MaxRounds -> Nat]] /\ round \in 0 .. MaxRounds
  BY <1>1, PrivateAssumption
<1>5. sends \in Seq([from : Agent, to : Agent \cup {Stranger}]) /\ batch <= Len(sends)
  BY <1>1, <1>2
<1>6. RoomsTyped
  BY <1>1, <1>3, <1>4, <1>5 DEF RoomsTyped
<1>7. \A q \in Rooms : 1 .. Len(posts[q]) = {}
  BY <1>1, <1>2
<1>8. Marked
  BY <1>7 DEF Marked
<1>9. ASSUME NEW a \in Agent, NEW r \in 0 .. MaxRounds
      PROVE  /\ IsFiniteSet(Bridged(a, r))
             /\ DmQuota[a] # 0 => /\ Cardinality(Bridged(a, r)) <= sent[a][r]
                                  /\ Cardinality(Bridged(a, r)) <= DmQuota[a]
  <2>1. Bridged(a, r) = {}
    BY <1>3, <1>7, BridgedIs
  <2>2. IsFiniteSet({}) /\ Cardinality({}) = 0
    BY FS_EmptySet
  <2>3. sent[a][r] \in Nat /\ DmQuota[a] \in Nat
    BY <1>6, CountsTyped, PrivateAssumption
  <2>4. QED
    BY <2>1, <2>2, <2>3
<1>10. QED
  BY <1>6, <1>8, <1>9 DEF RoomsInv, Allowed

LEMMA RoomsStep == RoomsInv /\ [Next]_vars => RoomsInv'
<1> SUFFICES ASSUME RoomsInv, [Next]_vars PROVE RoomsInv'
  OBVIOUS
<1>1. CASE ReadSends
  BY <1>1, ReadSendsKeeps
<1>2. CASE Deliver
  BY <1>2, DeliverKeeps
<1>3. CASE \E q \in Rooms : Mirror(q)
  BY <1>3, MirrorKeeps
<1>4. CASE \E q \in Rooms : CountRoom(q)
  BY <1>4, CountRoomKeeps
<1>5. CASE Observe
  BY <1>5, ObserveKeeps
<1>6. CASE \E a \in Agent : \E to \in Agent \cup {Stranger} : Send(a, to)
  BY <1>6, SendKeeps
<1>7. CASE \E a \in Agent : \E q \in Rooms : Post(a, q)
  <2>1. PICK a \in Agent, q \in Rooms : Post(a, q)
    BY <1>7
  <2>2. Posted(q, a, 0) /\ UNCHANGED <<PostsAside, sent>> /\ taken \subseteq taken' /\ a \in Author
    BY <2>1 DEF Post, PostsAside, Author
  <2>3. QED
    BY <2>2, NotBridged
<1>8. CASE UNCHANGED privateVars
  <2>1. UNCHANGED <<PostsAside, posts, taken, sent>>
    BY <1>8 DEF privateVars, PostsAside
  <2>2. QED
    BY <2>1, NothingChanged
<1>9. CASE MirrorOver \/ (\E q \in Rooms : Unmute(q)) \/ (\E a \in Agent : Gate(a) \/ Removed(a))
  <2>1. UNCHANGED <<PostsAside, posts, taken, sent>>
    BY <1>9 DEF MirrorOver, Unmute, Gate, Removed, PostsAside
  <2>2. QED
    BY <2>1, NothingChanged
<1>10. CASE vars' = vars
  <2>1. UNCHANGED <<PostsAside, posts, taken, sent>>
    BY <1>10 DEF vars, privateVars, PostsAside
  <2>2. QED
    BY <2>1, NothingChanged
<1>11. PrivateDone \/ QuotaOver \/ StageRaises => UNCHANGED privateVars
  BY DEF PrivateDone, QuotaOver, StageRaises, PrivateOver
<1>12. QED
  BY <1>1, <1>2, <1>3, <1>4, <1>5, <1>6, <1>7, <1>8, <1>9, <1>10, <1>11
  DEF Next, HostStep, PrivateHostStep, PrivateEnv

\* The host never bridges more private messages of an agent in a round than its
\* allowance, for any allowances, rooms and rounds, whatever raises.
THEOREM AllowanceKept == Spec => []AllowanceHeld
<1>1. RoomsInv => AllowanceHeld
  BY DEF RoomsInv, Allowed, AllowanceHeld
<1>2. QED
  BY <1>1, RoomsStart, RoomsStep, PTL DEF Spec

\* A send reaches its room at most once, even when the post went through and its
\* answer did not.
THEOREM SendsBridgedOnce == Spec => []BridgedOnce
<1>1. RoomsInv => BridgedOnce
  <2> SUFFICES ASSUME RoomsInv, NEW q \in Rooms, NEW i \in DOMAIN posts[q],
                      NEW j \in DOMAIN posts[q], posts[q][i].id # 0,
                      posts[q][i].id = posts[q][j].id
               PROVE  i = j
    BY DEF BridgedOnce
  <2>1. DOMAIN posts[q] = 1 .. Len(posts[q])
    BY LenProperties DEF RoomsInv, RoomsTyped
  <2>2. QED
    BY <2>1 DEF RoomsInv, Marked
<1>2. QED
  BY <1>1, RoomsStart, RoomsStep, PTL DEF Spec

-----------------------------------------------------------------------------
(* Requests: the calls that passed the count and are not yet on record     *)
(* are what a quota can be exceeded by.                                    *)

AnyTool == Tool \cup {RunCode}
ReqRec  == [agent : Callers, tool : AnyTool]

CallsTyped ==
    /\ requests \in Seq(ReqRec)
    /\ want \in [Slot -> AnyTool]
    /\ wait \in [Slot -> {"idle", "policy", "count", "append", "poll"}]

Appending(a, t) == {s \in SlotsOf(a) : wait[s] = "append" /\ want[s] = t}

\* a spent quota lets nobody in, and only the slots of the agent are let in together
Overlap(a, t) ==
    /\ Quota(a, t) = 0 => Used(a, t) = 0 /\ Appending(a, t) = {}
    /\ Quota(a, t) > 0 => Used(a, t) + Cardinality(Appending(a, t))
                             < Quota(a, t) + Cardinality(SlotsOf(a))

CallsInv ==
    /\ CallsTyped
    /\ \A s \in Slot : wait[s] \in {"policy", "count"} => want[s] \in Tool
    /\ \A a \in Callers, t \in Tool : Quota(a, t) # NoQuota => Overlap(a, t)

LEMMA QuotaTyped ==
    ASSUME NEW a \in Callers, NEW t \in Tool, Quota(a, t) # NoQuota
    PROVE  Quota(a, t) \in Nat
BY RequestAssumption DEF Quota

LEMMA SlotsFinite ==
    ASSUME NEW a, NEW A \in SUBSET SlotsOf(a)
    PROVE  /\ IsFiniteSet(A) /\ Cardinality(A) \in Nat /\ Cardinality(SlotsOf(a)) \in Nat
           /\ Cardinality(A) <= Cardinality(SlotsOf(a))
           /\ \A B \in SUBSET A : Cardinality(B) \in Nat /\ Cardinality(B) <= Cardinality(A)
<1>1. IsFiniteSet(Slot) /\ SlotsOf(a) \subseteq Slot
  BY RequestAssumption DEF SlotsOf
<1>2. IsFiniteSet(SlotsOf(a))
  BY <1>1, FS_Subset
<1>3. IsFiniteSet(A) /\ Cardinality(A) <= Cardinality(SlotsOf(a))
  BY <1>2, FS_Subset
<1>4. \A B \in SUBSET A : IsFiniteSet(B) /\ Cardinality(B) <= Cardinality(A)
  BY <1>3, FS_Subset
<1>5. \A S : IsFiniteSet(S) => Cardinality(S) \in Nat
  BY FS_CardinalityType
<1>6. QED
  BY <1>2, <1>3, <1>4, <1>5

LEMMA UsedFinite ==
    ASSUME requests \in Seq(ReqRec), NEW a, NEW t
    PROVE  /\ IsFiniteSet({i \in DOMAIN requests : requests[i] = [agent |-> a, tool |-> t]})
           /\ Used(a, t) \in Nat
<1>1. DOMAIN requests = 1 .. Len(requests) /\ Len(requests) \in Nat
  BY LenProperties
<1>2. IsFiniteSet(DOMAIN requests)
  BY <1>1, FS_Interval
<1>3. IsFiniteSet({i \in DOMAIN requests : requests[i] = [agent |-> a, tool |-> t]})
  BY <1>2, FS_Subset
<1>4. QED
  BY <1>3, FS_CardinalityType DEF Used

\* a request on record raises one count by one
LEMMA UsedGrows ==
    ASSUME requests \in Seq(ReqRec), NEW r \in ReqRec, requests' = Append(requests, r),
           NEW a, NEW t
    PROVE  Used(a, t)' = IF r = [agent |-> a, tool |-> t] THEN Used(a, t) + 1 ELSE Used(a, t)
<1> DEFINE p == [agent |-> a, tool |-> t]
           n == Len(requests) + 1
           U == {i \in DOMAIN requests : requests[i] = p}
           V == {i \in DOMAIN requests' : requests'[i] = p}
<1>1. /\ DOMAIN requests = 1 .. Len(requests) /\ Len(requests) \in Nat
      /\ requests' \in Seq(ReqRec) /\ Len(requests') = n
      /\ \A i \in 1 .. Len(requests) : requests'[i] = requests[i]
      /\ requests'[n] = r
  BY AppendProperties, LenProperties
<1>2. DOMAIN requests' = 1 .. n
  BY <1>1, LenProperties
<1>3. IsFiniteSet(U) /\ Used(a, t) = Cardinality(U) /\ Used(a, t)' = Cardinality(V)
  BY UsedFinite DEF Used
<1>4. n \notin U
  BY <1>1
<1> HIDE DEF p
<1>5. CASE r = p
  <2>1. V = U \cup {n}
    BY <1>1, <1>2, <1>5
  <2> HIDE DEF U, V, n
  <2>2. Cardinality(U \cup {n}) = Cardinality(U) + 1
    BY <1>3, <1>4, FS_AddElement
  <2>3. QED
    BY <1>3, <1>5, <2>1, <2>2 DEF p
<1>6. CASE r # p
  <2>1. V = U
    BY <1>1, <1>2, <1>6
  <2> HIDE DEF U, V, n
  <2>2. QED
    BY <1>3, <1>6, <2>1 DEF p
<1>7. QED
  BY <1>5, <1>6

\* nobody is let in
LEMMA NobodyEnters ==
    ASSUME CallsInv, CallsTyped', requests' = requests,
           \A s \in Slot : wait'[s] \in {"policy", "count"} => want'[s] \in Tool,
           \A a \in Callers, t \in Tool :
              Quota(a, t) # NoQuota => Appending(a, t)' \subseteq Appending(a, t)
    PROVE  CallsInv'
<1>1. ASSUME NEW a \in Callers, NEW t \in Tool, Quota(a, t) # NoQuota
      PROVE  Overlap(a, t)'
  <2>1. Used(a, t)' = Used(a, t) /\ Used(a, t) \in Nat
    BY UsedFinite DEF Used, CallsInv, CallsTyped
  <2>2. Quota(a, t) \in Nat /\ Quota(a, t)' = Quota(a, t) /\ Overlap(a, t)
    BY <1>1, QuotaTyped DEF CallsInv, Quota
  <2>3. Appending(a, t)' \subseteq Appending(a, t) /\ Appending(a, t) \subseteq SlotsOf(a)
    BY <1>1 DEF Appending
  <2>4. /\ Cardinality(Appending(a, t)) \in Nat /\ Cardinality(SlotsOf(a)) \in Nat
        /\ Cardinality(Appending(a, t)') \in Nat
        /\ Cardinality(Appending(a, t)') <= Cardinality(Appending(a, t))
    BY <2>3, SlotsFinite
  <2>5. SlotsOf(a)' = SlotsOf(a)
    BY DEF SlotsOf
  <2>6. Quota(a, t) = 0 => Appending(a, t)' = {}
    BY <2>2, <2>3 DEF Overlap
  <2>7. QED
    BY <2>1, <2>2, <2>4, <2>5, <2>6 DEF Overlap
<1>2. QED
  BY <1>1 DEF CallsInv, Quota

\* a slot whose count allows it is let in
LEMMA CountLetsIn ==
    ASSUME CallsInv, NEW s \in Slot, wait[s] = "count", requests' = requests, want' = want,
           wait' = [wait EXCEPT ![s] = "append"],
           ~(Used(Caller[s], want[s]) >= Quota(Caller[s], want[s]))
    PROVE  CallsInv'
<1>1. CallsTyped /\ CallsTyped' /\ want[s] \in Tool /\ Caller[s] \in Callers
  BY DEF CallsInv, CallsTyped, Callers
<1>2. \A q \in Slot : wait'[q] = IF q = s THEN "append" ELSE wait[q]
  BY <1>1 DEF CallsTyped
<1>3. ASSUME NEW a \in Callers, NEW t \in Tool, Quota(a, t) # NoQuota
      PROVE  Overlap(a, t)'
  <2>1. Used(a, t)' = Used(a, t) /\ Used(a, t) \in Nat
    BY <1>1, UsedFinite DEF Used, CallsTyped
  <2>2. Quota(a, t) \in Nat /\ Quota(a, t)' = Quota(a, t) /\ Overlap(a, t)
    BY <1>3, QuotaTyped DEF CallsInv, Quota
  <2>3. SlotsOf(a)' = SlotsOf(a) /\ SlotsOf(a) \subseteq Slot
    BY DEF SlotsOf
  <2>4. CASE a = Caller[s] /\ t = want[s]
    <3>1. Appending(a, t)' \subseteq SlotsOf(a)
      BY <2>3 DEF Appending
    <3>2. /\ Cardinality(Appending(a, t)') \in Nat /\ Cardinality(SlotsOf(a)) \in Nat
          /\ Cardinality(Appending(a, t)') <= Cardinality(SlotsOf(a))
      BY <3>1, SlotsFinite
    <3>3. Used(a, t) < Quota(a, t)
      BY <2>1, <2>2, <2>4
    <3>4. QED
      BY <2>1, <2>2, <2>3, <3>2, <3>3 DEF Overlap
  <2>5. CASE ~(a = Caller[s] /\ t = want[s])
    <3>1. Appending(a, t)' = Appending(a, t)
      BY <1>2, <2>3, <2>5 DEF Appending, SlotsOf
    <3>2. QED
      BY <2>1, <2>2, <2>3, <3>1 DEF Overlap
  <2>6. QED
    BY <2>4, <2>5
<1>4. \A q \in Slot : wait'[q] \in {"policy", "count"} => want'[q] \in Tool
  BY <1>2 DEF CallsInv
<1>5. QED
  BY <1>1, <1>3, <1>4 DEF CallsInv, Quota

\* a slot that was let in puts its request on record
LEMMA RecordedKeeps ==
    ASSUME CallsInv, NEW s \in Slot, Recorded(s) PROVE CallsInv'
<1> DEFINE r == [agent |-> Caller[s], tool |-> want[s]]
<1>1. /\ wait[s] = "append" /\ requests' = Append(requests, r) /\ want' = want
      /\ wait' = [wait EXCEPT ![s] = "poll"]
  BY DEF Recorded
<1>2. CallsTyped /\ r \in ReqRec
  BY DEF CallsInv, CallsTyped, Callers, ReqRec
<1>3. requests' \in Seq(ReqRec)
  <2> HIDE DEF r
  <2>1. QED
    BY <1>1, <1>2, AppendProperties DEF CallsTyped
<1>4. CallsTyped' /\ \A q \in Slot : wait'[q] = IF q = s THEN "poll" ELSE wait[q]
  BY <1>1, <1>2, <1>3 DEF CallsTyped
<1>5. ASSUME NEW a \in Callers, NEW t \in Tool, Quota(a, t) # NoQuota
      PROVE  Overlap(a, t)'
  <2>1. /\ Used(a, t)' = (IF r = [agent |-> a, tool |-> t] THEN Used(a, t) + 1 ELSE Used(a, t))
        /\ Used(a, t) \in Nat
    <3> HIDE DEF r
    <3>1. QED
      BY <1>1, <1>2, UsedGrows, UsedFinite DEF CallsTyped
  <2>2. Quota(a, t) \in Nat /\ Quota(a, t)' = Quota(a, t) /\ Overlap(a, t)
    BY <1>5, QuotaTyped DEF CallsInv, Quota
  <2>3. SlotsOf(a)' = SlotsOf(a) /\ SlotsOf(a) \subseteq Slot
    BY DEF SlotsOf
  <2>4. CASE a = Caller[s] /\ t = want[s]
    <3> DEFINE P == Appending(a, t)
               Q == Appending(a, t)'
    <3>1. s \in P /\ Q = P \ {s}
      BY <1>1, <1>4, <2>3, <2>4 DEF Appending, SlotsOf
    <3>2. P \subseteq SlotsOf(a)
      BY DEF Appending
    <3>3. IsFiniteSet(P) /\ Cardinality(P) \in Nat /\ Cardinality(SlotsOf(a)) \in Nat
      BY <3>2, SlotsFinite
    <3>4. Quota(a, t) # 0
      BY <2>2, <3>1 DEF Overlap
    <3>5. Used(a, t)' = Used(a, t) + 1
      BY <2>1, <2>4
    <3> HIDE DEF P, Q
    <3>6. Cardinality(Q) = Cardinality(P) - 1
      BY <3>1, <3>3, FS_RemoveElement
    <3>7. Used(a, t) + Cardinality(P) < Quota(a, t) + Cardinality(SlotsOf(a))
      BY <2>2, <3>4 DEF Overlap, P
    <3>8. Used(a, t)' + Cardinality(Q) < Quota(a, t) + Cardinality(SlotsOf(a))
      BY <2>1, <2>2, <3>3, <3>5, <3>6, <3>7
    <3>9. QED
      BY <2>2, <2>3, <3>4, <3>8 DEF Overlap, Q
  <2>5. CASE ~(a = Caller[s] /\ t = want[s])
    <3>1. Appending(a, t)' = Appending(a, t)
      BY <1>1, <1>4, <2>3, <2>5 DEF Appending, SlotsOf
    <3>2. Used(a, t)' = Used(a, t)
      BY <2>1, <2>5
    <3>3. QED
      BY <2>2, <2>3, <3>1, <3>2 DEF Overlap
  <2>6. QED
    BY <2>4, <2>5
<1>6. \A q \in Slot : wait'[q] \in {"policy", "count"} => want'[q] \in Tool
  BY <1>1, <1>4 DEF CallsInv
<1>7. QED
  BY <1>4, <1>5, <1>6 DEF CallsInv, Quota

\* a call begins: a granted one by its policy, run_code by its record
LEMMA CallToolKeeps ==
    ASSUME CallsInv, NEW s \in Slot, NEW u \in AnyTool, CallTool(s, u) PROVE CallsInv'
<1>1. /\ requests' = requests /\ want' = [want EXCEPT ![s] = u]
      /\ wait' = [wait EXCEPT ![s] = IF u = RunCode THEN "append" ELSE "policy"]
  BY DEF CallTool
<1>2. CallsTyped /\ RunCode \notin Tool
  BY RequestAssumption DEF CallsInv
<1>3. CallsTyped'
  BY <1>1, <1>2 DEF CallsTyped
<1>4. \A q \in Slot : /\ want'[q] = IF q = s THEN u ELSE want[q]
                      /\ wait'[q] = IF q = s THEN (IF u = RunCode THEN "append" ELSE "policy")
                                   ELSE wait[q]
  BY <1>1, <1>2 DEF CallsTyped
<1>5. ASSUME NEW q \in Slot, wait'[q] \in {"policy", "count"} PROVE want'[q] \in Tool
  BY <1>4, <1>5 DEF CallsInv, AnyTool
<1>6. ASSUME NEW a, NEW t \in Tool, NEW q \in Appending(a, t)'
      PROVE  q \in Appending(a, t)
  <2>1. q \in SlotsOf(a) /\ q \in Slot /\ wait'[q] = "append" /\ want'[q] = t
    BY <1>6 DEF Appending, SlotsOf
  <2>2. q # s
    BY <1>2, <1>4, <2>1
  <2>3. QED
    BY <1>4, <2>1, <2>2 DEF Appending
<1>7. QED
  BY <1>1, <1>3, <1>5, <1>6, NobodyEnters

\* a call whose tool has no quota goes to its record, another to the count
LEMMA PolicyReadKeeps ==
    ASSUME CallsInv, NEW s \in Slot, PolicyRead(s) PROVE CallsInv'
<1>1. /\ requests' = requests /\ want' = want /\ wait[s] = "policy"
      /\ wait' = [wait EXCEPT ![s] = IF Quota(Caller[s], want[s]) = NoQuota
                                     THEN "append" ELSE "count"]
  BY DEF PolicyRead, Awaits
<1>2. CallsTyped /\ want[s] \in Tool
  BY <1>1 DEF CallsInv
<1>3. CallsTyped'
  BY <1>1, <1>2 DEF CallsTyped
<1>4. \A q \in Slot : wait'[q] = IF q = s THEN (IF Quota(Caller[s], want[s]) = NoQuota
                                               THEN "append" ELSE "count")
                                 ELSE wait[q]
  BY <1>1, <1>2 DEF CallsTyped
<1>5. ASSUME NEW q \in Slot, wait'[q] \in {"policy", "count"} PROVE want'[q] \in Tool
  BY <1>1, <1>2, <1>4, <1>5 DEF CallsInv
<1>6. ASSUME NEW a, NEW t \in Tool, Quota(a, t) # NoQuota, NEW q \in Appending(a, t)'
      PROVE  q \in Appending(a, t)
  <2>1. /\ q \in SlotsOf(a) /\ q \in Slot /\ Caller[q] = a
        /\ wait'[q] = "append" /\ want'[q] = t
    BY <1>6 DEF Appending, SlotsOf
  <2>2. q # s
    BY <1>1, <1>4, <1>6, <2>1
  <2>3. QED
    BY <1>1, <1>4, <2>1, <2>2 DEF Appending
<1>7. QED
  BY <1>1, <1>3, <1>5, <1>6, NobodyEnters

LEMMA EndedKeeps ==
    ASSUME CallsInv, NEW s \in Slot, Ended(s), requests' = requests PROVE CallsInv'
<1>1. wait' = [wait EXCEPT ![s] = "idle"] /\ want' = [want EXCEPT ![s] = RunCode]
  BY DEF Ended
<1>2. CallsTyped /\ RunCode \in AnyTool
  BY DEF CallsInv, AnyTool
<1>3. CallsTyped'
  BY <1>1, <1>2 DEF CallsTyped
<1>4. \A q \in Slot : /\ wait'[q] = IF q = s THEN "idle" ELSE wait[q]
                      /\ want'[q] = IF q = s THEN RunCode ELSE want[q]
  BY <1>1, <1>2 DEF CallsTyped
<1>5. ASSUME NEW q \in Slot, wait'[q] \in {"policy", "count"} PROVE want'[q] \in Tool
  BY <1>4, <1>5 DEF CallsInv
<1>6. ASSUME NEW a, NEW t, NEW q \in Appending(a, t)' PROVE q \in Appending(a, t)
  <2>1. q \in SlotsOf(a) /\ q \in Slot /\ wait'[q] = "append" /\ want'[q] = t
    BY <1>6 DEF Appending, SlotsOf
  <2>2. QED
    BY <1>4, <2>1 DEF Appending
<1>7. QED
  BY <1>3, <1>5, <1>6, NobodyEnters

LEMMA CallsAside ==
    ASSUME CallsInv, UNCHANGED <<requests, want, wait>> PROVE CallsInv'
<1>1. \A a, t : Appending(a, t)' = Appending(a, t)
  BY DEF Appending, SlotsOf
<1>2. CallsTyped'
  BY DEF CallsInv, CallsTyped
<1>3. QED
  BY <1>1, <1>2, NobodyEnters DEF CallsInv

LEMMA SlotStepKeeps ==
    ASSUME CallsInv, NEW s \in Slot, SlotStep(s) \/ CallRaises(s) PROVE CallsInv'
<1>1. CASE PolicyRead(s)
  BY <1>1, PolicyReadKeeps
<1>2. CASE Recorded(s)
  BY <1>2, RecordedKeeps
<1>3. CASE Counted(s)
  <2>1. wait[s] = "count" /\ requests' = requests
    BY <1>3 DEF Counted
  <2>2. CASE Used(Caller[s], want[s]) >= Quota(Caller[s], want[s])
    BY <1>3, <2>1, <2>2, EndedKeeps DEF Counted
  <2>3. CASE ~(Used(Caller[s], want[s]) >= Quota(Caller[s], want[s]))
    <3>1. wait' = [wait EXCEPT ![s] = "append"] /\ want' = want
      BY <1>3, <2>3 DEF Counted, Awaits
    <3>2. QED
      BY <2>1, <2>3, <3>1, CountLetsIn
  <2>4. QED
    BY <2>2, <2>3
<1>4. CASE Polled(s) \/ GivesUp(s) \/ CallRaises(s)
  <2>1. Ended(s) /\ requests' = requests
    BY <1>4 DEF Polled, GivesUp, CallRaises
  <2>2. QED
    BY <2>1, EndedKeeps
<1>5. QED
  BY <1>1, <1>2, <1>3, <1>4 DEF SlotStep

LEMMA CallsStart == Init => CallsInv
<1> SUFFICES ASSUME Init PROVE CallsInv
  OBVIOUS
<1>1. /\ requests = <<>> /\ want = [s \in Slot |-> RunCode]
      /\ wait = [s \in Slot |-> "idle"]
  BY DEF Init, RequestInit
<1>2. CallsTyped /\ \A s \in Slot : wait[s] = "idle"
  BY <1>1 DEF CallsTyped, AnyTool
<1>3. ASSUME NEW a \in Callers, NEW t \in Tool, Quota(a, t) # NoQuota
      PROVE  Overlap(a, t)
  <2>1. Appending(a, t) = {} /\ Appending(a, t) \subseteq SlotsOf(a)
    BY <1>2 DEF Appending, SlotsOf
  <2>2. {i \in DOMAIN requests : requests[i] = [agent |-> a, tool |-> t]} = {}
    BY <1>1
  <2>3. Used(a, t) = 0 /\ Cardinality(Appending(a, t)) = 0
    BY <2>1, <2>2, FS_EmptySet DEF Used
  <2>4. Cardinality(SlotsOf(a)) \in Nat /\ Quota(a, t) \in Nat
    BY <1>3, <2>1, SlotsFinite, QuotaTyped
  <2>5. QED
    BY <2>1, <2>3, <2>4 DEF Overlap
<1>4. QED
  BY <1>2, <1>3 DEF CallsInv

LEMMA CallsStep == CallsInv /\ [Next]_vars => CallsInv'
<1> SUFFICES ASSUME CallsInv, [Next]_vars PROVE CallsInv'
  OBVIOUS
<1>1. CASE \E s \in Slot : SlotStep(s) \/ CallRaises(s)
  BY <1>1, SlotStepKeeps
<1>2. CASE RequestEnv
  BY <1>2, CallToolKeeps DEF RequestEnv, AnyTool
<1>3. CASE UNCHANGED requestVars
  BY <1>3, CallsAside DEF requestVars
<1>4. CASE RequestHost
  <2>1. AgentUnchanged
    BY <1>4 DEF RequestHost, Mark, Answer, AnswerLost, DrainOver
  <2>2. QED
    BY <2>1, CallsAside DEF AgentUnchanged
<1>5. CASE PrivateDone
  BY <1>5, CallsAside DEF PrivateDone
<1>6. CASE vars' = vars
  BY <1>6, CallsAside DEF vars, requestVars
<1>7. StageRaises => UNCHANGED requestVars
  BY DEF StageRaises
<1>8. QED
  BY <1>1, <1>2, <1>3, <1>4, <1>5, <1>6, <1>7 DEF Next, HostStep

\* A quota is exceeded at most by the calls the agent had in flight together, and
\* a quota of zero bars the tool, for any agents, tools, quotas and slots.
THEOREM QuotasHold == Spec => []QuotaWithinOverlap
<1>1. CallsInv => QuotaWithinOverlap
  <2> SUFFICES ASSUME CallsInv, NEW a \in Callers, NEW t \in Tool,
                      Used(a, t) > 0, Quota(a, t) # NoQuota
               PROVE  /\ Quota(a, t) > 0
                      /\ Used(a, t) < Quota(a, t) + Cardinality(SlotsOf(a))
    BY DEF QuotaWithinOverlap
  <2>1. Overlap(a, t) /\ Quota(a, t) \in Nat
    BY QuotaTyped DEF CallsInv
  <2>2. Appending(a, t) \subseteq SlotsOf(a)
    BY DEF Appending
  <2>3. Cardinality(Appending(a, t)) \in Nat /\ Cardinality(SlotsOf(a)) \in Nat
    BY <2>2, SlotsFinite
  <2>4. Used(a, t) \in Nat
    BY UsedFinite DEF CallsInv, CallsTyped
  <2>5. QED
    BY <2>1, <2>3, <2>4 DEF Overlap
<1>2. QED
  BY <1>1, CallsStart, CallsStep, PTL DEF Spec
===============================================================================
