------------------------------ MODULE ScribeProofs ------------------------------
(***************************************************************************)
(* Proofs about the Scribe: no version it replaces is lost, and what the   *)
(* model is asked is a well-formed conversation, for any number of         *)
(* sessions and requests and for every bound.                              *)
(***************************************************************************)
EXTENDS Scribe, SequenceTheorems, WellFoundedInduction, TLAPS

\* A version the Scribe replaces can be brought back: every write of a turn and every
\* approval snapshots the version it replaces (tools.py:176-193, api.py:894-896).
THEOREM VersionsKept == Spec => NoVersionLost
<1> DEFINE Kept == package' # package /\ (req' # req \/ file' # file) => package \in versions'
<1>1. [Next]_vars => Kept
  <2> SUFFICES ASSUME [Next]_vars PROVE Kept
    OBVIOUS
  <2>1. Written => Kept
    BY DEF Written, Snapshot
  <2>2. Packaged => Kept
    BY DEF Packaged
  <2>3. ASSUME NEW s \in Session, OpenCreate(s) \/ OpenEdit(s) \/ Approve(s) PROVE Kept
    BY <2>1, <2>2, <2>3 DEF OpenCreate, OpenEdit, Approve
  <2>4. ASSUME NEW r \in Request, NEW s \in Session, Message(r, s) PROVE Kept
    BY <2>2, <2>4 DEF Message
  <2>5. ASSUME NEW r \in Request, TurnStep(r) \/ Dies(r) \/ Summarize(r) PROVE Kept
    BY <2>1, <2>2, <2>5 DEF TurnStep, Shortened, Prose, CallsTools, RunsCall, Writes, EndsTurn,
          StepLimit, Save, Summarized, Dies, Summarize
  <2>6. HistoryDelete \/ Restart => Kept
    BY <2>2 DEF HistoryDelete, Restart
  <2>7. EditorWrites \/ Revert => Kept
    BY DEF EditorWrites, Revert
  <2>8. UNCHANGED vars => Kept
    BY DEF vars
  <2>9. QED
    BY <2>3, <2>4, <2>5, <2>6, <2>7, <2>8 DEF Next
<1>2. QED
  BY <1>1, PTL DEF Spec, NoVersionLost

-----------------------------------------------------------------------------
(* Conversations.                                                          *)

Msgs  == [role : {"user", "assistant", "tool"}, of : Request \cup {None}, calls : Nat]
Lists == Seq(Msgs)

LEMMA Joined ==
    ASSUME NEW g \in Lists, NEW h \in Lists
    PROVE  /\ g \o h \in Lists /\ Len(g) \in Nat /\ Len(h) \in Nat
           /\ Len(g \o h) = Len(g) + Len(h) /\ DOMAIN (g \o h) = 1 .. (Len(g) + Len(h))
           /\ \A i \in 1 .. Len(g) : (g \o h)[i] = g[i]
           /\ \A i \in (Len(g) + 1) .. (Len(g) + Len(h)) : (g \o h)[i] = h[i - Len(g)]
  BY ConcatProperties, LenProperties DEF Lists

LEMMA AddedOne ==
    ASSUME NEW h \in Lists, NEW m \in Lists, Len(m) = 1
    PROVE  /\ h \o m \in Lists /\ Len(h) \in Nat /\ Len(h \o m) = Len(h) + 1
           /\ (h \o m)[Len(h) + 1] = m[1]
           /\ \A i \in 1 .. Len(h) : (h \o m)[i] = h[i]
<1>1. /\ h \o m \in Lists /\ Len(h) \in Nat /\ Len(h \o m) = Len(h) + 1
      /\ \A i \in 1 .. Len(h) : (h \o m)[i] = h[i]
      /\ \A i \in (Len(h) + 1) .. (Len(h) + 1) : (h \o m)[i] = m[i - Len(h)]
  <2>1. /\ h \o m \in Lists /\ Len(h) \in Nat /\ Len(h \o m) = Len(h) + Len(m)
        /\ \A i \in 1 .. Len(h) : (h \o m)[i] = h[i]
        /\ \A i \in (Len(h) + 1) .. (Len(h) + Len(m)) : (h \o m)[i] = m[i - Len(h)]
    BY Joined
  <2>2. QED
    BY ONLY <2>1, Len(m) = 1
<1>2. Len(h) + 1 \in (Len(h) + 1) .. (Len(h) + 1) /\ (Len(h) + 1) - Len(h) = 1
  BY <1>1
<1>3. QED
  BY ONLY <1>1, <1>2

LEMMA ListHas ==
    ASSUME NEW h \in Lists
    PROVE  Len(h) \in Nat /\ DOMAIN h = 1 .. Len(h)
           /\ \A i \in 1 .. Len(h) : h[i] \in Msgs
  BY LenProperties, ElementOfSeq DEF Lists

LEMMA MsgIs ==
    ASSUME NEW role \in {"user", "assistant", "tool"}, NEW r \in Request \cup {None}, NEW n \in Nat
    PROVE  /\ Msg(role, r, n) \in Msgs /\ <<Msg(role, r, n)>> \in Lists
           /\ Len(<<Msg(role, r, n)>>) = 1 /\ <<Msg(role, r, n)>>[1] = Msg(role, r, n)
           /\ Msg(role, r, n).role = role /\ Msg(role, r, n).of = r /\ Msg(role, r, n).calls = n
  BY DEF Msgs, Lists, Msg

LEMMA AnswersAre ==
    ASSUME NEW r \in Request, NEW n \in Nat
    PROVE  /\ Answers(r, n) \in Lists /\ Len(Answers(r, n)) = n
           /\ \A i \in 1 .. n : /\ Answers(r, n)[i].role = "tool" /\ Answers(r, n)[i].of = r
                                /\ Answers(r, n)[i].calls = 0
<1>1. Msg("tool", r, 0) \in Msgs
  BY MsgIs
<1>2. Answers(r, n) \in Lists /\ Len(Answers(r, n)) = n
  BY <1>1 DEF Answers, Lists
<1>3. QED
  BY <1>2 DEF Answers, Msg

LEMMA NothingSaid == WellFormed(<<>>) /\ <<>> \in Lists /\ WellFormed(<<Summary>>)
<1>1. WellFormed(<<>>) /\ <<>> \in Lists
  BY EmptySeq DEF WellFormed, Lists
<1>2. /\ <<Summary>> \in Lists /\ Len(<<Summary>>) = 1 /\ <<Summary>>[1] = Summary
      /\ Summary.role = "user" /\ Summary.calls = 0
  BY MsgIs DEF Summary
<1>3. WellFormed(<<Summary>>)
  BY <1>2, ListHas DEF WellFormed
<1>4. QED
  BY <1>1, <1>3

\* what well-formedness asks of one message
Fits(h, i) ==
    /\ h[i].calls > 0 =>
          /\ i + h[i].calls <= Len(h)
          /\ \A j \in i + 1 .. i + h[i].calls : h[j].role = "tool" /\ h[j].of = h[i].of
    /\ h[i].role = "tool" => \E j \in 1 .. i - 1 : j + h[j].calls >= i

\* a well-formed conversation stays so when what is added fits
LEMMA LongerFits ==
    ASSUME NEW h \in Lists, WellFormed(h), NEW g \in Lists, Len(h) <= Len(g),
           \A i \in 1 .. Len(h) : g[i] = h[i],
           \A i \in (Len(h) + 1) .. Len(g) : Fits(g, i)
    PROVE  WellFormed(g)
<1> DEFINE n == Len(h)
<1>1. DOMAIN h = 1 .. n /\ n \in Nat /\ Len(g) \in Nat /\ DOMAIN g = 1 .. Len(g)
      /\ \A i \in 1 .. n : h[i].calls \in Nat
  BY ListHas DEF Msgs
<1> SUFFICES ASSUME NEW i \in 1 .. Len(g) PROVE Fits(g, i)
  BY <1>1 DEF WellFormed, Fits
<1>2. CASE ~(i \in 1 .. n)
  BY <1>1, <1>2
<1>3. CASE i \in 1 .. n
  <2>1. i \in Nat /\ i >= 1 /\ i <= n /\ g[i] = h[i] /\ h[i].calls \in Nat
    BY <1>1, <1>3
  <2>2. Fits(h, i)
    BY <1>1, <1>3 DEF WellFormed, Fits
  <2>3. ASSUME h[i].calls > 0
        PROVE  /\ i + h[i].calls <= Len(g)
               /\ \A j \in i + 1 .. i + h[i].calls : g[j].role = "tool" /\ g[j].of = h[i].of
    <3>1. /\ i + h[i].calls <= n
          /\ \A j \in i + 1 .. i + h[i].calls : h[j].role = "tool" /\ h[j].of = h[i].of
      BY <2>2, <2>3 DEF Fits
    <3>2. \A j \in i + 1 .. i + h[i].calls : j \in 1 .. n
      BY <1>1, <2>1, <3>1
    <3>3. QED
      BY <1>1, <2>1, <3>1, <3>2
  <2>4. ASSUME h[i].role = "tool" PROVE \E j \in 1 .. i - 1 : j + g[j].calls >= i
    <3>1. PICK j \in 1 .. i - 1 : j + h[j].calls >= i
      BY <2>2, <2>4 DEF Fits
    <3>2. j \in 1 .. n
      BY <1>1, <2>1
    <3>3. QED
      BY <3>1, <3>2
  <2>5. QED
    BY <2>1, <2>3, <2>4 DEF Fits
<1>4. QED
  BY <1>2, <1>3

\* prose fits anywhere
LEMMA ProseKeeps ==
    ASSUME NEW h \in Lists, WellFormed(h), NEW role \in {"user", "assistant"},
           NEW r \in Request \cup {None}
    PROVE  h \o <<Msg(role, r, 0)>> \in Lists /\ WellFormed(h \o <<Msg(role, r, 0)>>)
<1> DEFINE m == <<Msg(role, r, 0)>>
           g == h \o m
<1>1. m \in Lists /\ Len(m) = 1 /\ m[1].role = role /\ m[1].calls = 0
  BY MsgIs
<1> HIDE DEF m
<1>2. /\ g \in Lists /\ Len(h) \in Nat /\ Len(g) = Len(h) + 1
      /\ \A i \in 1 .. Len(h) : g[i] = h[i]
      /\ g[Len(h) + 1] = m[1]
  BY <1>1, AddedOne
<1> HIDE DEF g
<1>3. \A i \in (Len(h) + 1) .. Len(g) : Fits(g, i)
  BY <1>1, <1>2 DEF Fits
<1>4. WellFormed(g)
  BY <1>2, <1>3, LongerFits
<1>5. QED
  BY <1>2, <1>4 DEF g, m

\* a message with calls fits when its answers follow
LEMMA CallsKeep ==
    ASSUME NEW h \in Lists, WellFormed(h), NEW r \in Request, NEW n \in Nat \ {0}
    PROVE  /\ h \o <<Msg("assistant", r, n)>> \in Lists
           /\ WellFormed((h \o <<Msg("assistant", r, n)>>) \o Answers(r, n))
<1> DEFINE m == <<Msg("assistant", r, n)>>
           a == Answers(r, n)
           l == h \o m
           g == l \o a
           k == Len(h)
<1>1. /\ m \in Lists /\ Len(m) = 1
      /\ m[1].role = "assistant" /\ m[1].calls = n /\ m[1].of = r
  BY MsgIs
<1>2. /\ a \in Lists /\ Len(a) = n
      /\ \A i \in 1 .. n : a[i].role = "tool" /\ a[i].of = r /\ a[i].calls = 0
  BY AnswersAre
<1> HIDE DEF m, a
<1>3. /\ l \in Lists /\ k \in Nat /\ Len(l) = k + 1 /\ l[k + 1] = m[1]
      /\ \A i \in 1 .. k : l[i] = h[i]
  BY <1>1, AddedOne
<1> HIDE DEF l
<1>4. /\ g \in Lists /\ Len(g) = k + 1 + n
      /\ \A i \in 1 .. (k + 1) : g[i] = l[i]
      /\ \A i \in (k + 2) .. (k + 1 + n) : g[i] = a[i - (k + 1)]
  <2>1. /\ g \in Lists /\ Len(g) = Len(l) + Len(a)
        /\ \A i \in 1 .. Len(l) : g[i] = l[i]
        /\ \A i \in (Len(l) + 1) .. (Len(l) + Len(a)) : g[i] = a[i - Len(l)]
    BY <1>2, <1>3, Joined
  <2> HIDE DEF g, k
  <2>2. Len(l) + 1 = k + 2 /\ Len(l) + Len(a) = k + 1 + n
    BY <1>2, <1>3
  <2>3. QED
    BY ONLY <1>2, <1>3, <2>1, <2>2
<1> HIDE DEF g
<1>5. g[k + 1] = m[1] /\ \A i \in 1 .. k : g[i] = h[i]
  BY <1>3, <1>4
<1>6. \A i \in (k + 2) .. (k + 1 + n) : g[i].role = "tool" /\ g[i].of = r /\ g[i].calls = 0
  <2> SUFFICES ASSUME NEW i \in (k + 2) .. (k + 1 + n)
               PROVE  g[i].role = "tool" /\ g[i].of = r /\ g[i].calls = 0
    OBVIOUS
  <2>1. i - (k + 1) \in 1 .. n
    BY <1>3
  <2>2. QED
    BY <1>2, <1>4, <2>1
<1>7. Fits(g, k + 1)
  BY <1>1, <1>3, <1>4, <1>5, <1>6 DEF Fits
<1>8. ASSUME NEW i \in (k + 2) .. (k + 1 + n) PROVE Fits(g, i)
  <2>1. k + 1 \in 1 .. i - 1 /\ (k + 1) + g[k + 1].calls >= i
    BY <1>1, <1>3, <1>5
  <2>2. QED
    BY <1>6, <2>1 DEF Fits
<1>9. \A i \in (k + 1) .. Len(g) : Fits(g, i)
  BY <1>3, <1>4, <1>7, <1>8
<1> HIDE DEF k
<1>10. WellFormed(g)
  <2>1. Len(h) <= Len(g)
    BY <1>3, <1>4 DEF k
  <2>2. QED
    BY <1>4, <1>5, <1>9, <2>1, LongerFits DEF k
<1>11. QED
  BY <1>3, <1>10 DEF g, l, m, a

\* answering some of the calls now and the others later makes no difference
LEMMA AnswersJoin ==
    ASSUME NEW h \in Lists, NEW r \in Request, NEW i \in Nat, NEW j \in Nat
    PROVE  (h \o Answers(r, i)) \o Answers(r, j) = h \o Answers(r, i + j)
<1> DEFINE a == Answers(r, i)
           b == Answers(r, j)
           c == Answers(r, i + j)
<1>1. /\ a = [x \in 1 .. i |-> Msg("tool", r, 0)] /\ b = [x \in 1 .. j |-> Msg("tool", r, 0)]
      /\ c = [x \in 1 .. (i + j) |-> Msg("tool", r, 0)]
  BY DEF Answers
<1>2. a \in Lists /\ b \in Lists /\ c \in Lists /\ Len(a) = i /\ Len(b) = j /\ Len(c) = i + j
  BY AnswersAre
<1> HIDE DEF a, b, c
<1>3. (h \o a) \o b = h \o (a \o b)
  BY <1>2, ConcatAssociative DEF Lists
<1>4. a \o b = c
  <2>1. a \o b \in Lists /\ Len(a \o b) = i + j
    BY <1>2, Joined
  <2>2. \A x \in 1 .. (i + j) : (a \o b)[x] = c[x]
    BY <1>1, <1>2, Joined
  <2>3. QED
    BY <1>2, <2>1, <2>2, SeqEqual DEF Lists
<1>5. QED
  BY <1>3, <1>4 DEF a, b, c

-----------------------------------------------------------------------------
(* Summaries.                                                              *)

LEMMA LeastExists ==
    ASSUME NEW T, T \subseteq Nat, T # {} PROVE \E x \in T : \A y \in T : x <= y
<1> DEFINE R == OpToRel(<, Nat)
<1>1. IsWellFoundedOn(R, Nat)
  BY NatLessThanWellFounded
<1>2. PICK x \in T : \A y \in T : ~(<<y, x>> \in R)
  BY <1>1, WFMin
<1>3. \A y \in T : ~(y < x)
  BY <1>2 DEF OpToRel
<1>4. QED
  BY <1>3

LEMMA MaxIn ==
    ASSUME NEW k \in Nat, NEW s, s \subseteq 0 .. k, s # {}
    PROVE  Max(s) \in s /\ \A j \in s : j <= Max(s)
<1> DEFINE T == {k - i : i \in s}
<1>1. \A i \in s : i \in Nat /\ k - i \in Nat /\ k - i \in T
  OBVIOUS
<1>2. T \subseteq Nat /\ T # {}
  BY <1>1
<1>3. PICK x \in T : \A y \in T : x <= y
  BY ONLY <1>2, LeastExists
<1>4. PICK i \in s : x = k - i
  OBVIOUS
<1> HIDE DEF T
<1>5. \A j \in s : i >= j
  BY <1>1, <1>3, <1>4
<1>6. PICK top \in s : top = Max(s) /\ \A j \in s : top >= j
  BY <1>5 DEF Max
<1>7. QED
  BY <1>1, <1>6

\* where a summary cuts: not before an answer, and at the end when nothing is kept
LEMMA CutWhere ==
    ASSUME NEW h \in Lists, NEW keep \in Nat
    PROVE  /\ Cut(h, keep) \in 0 .. Len(h)
           /\ Cut(h, keep) = 0 \/ Cut(h, keep) = Len(h) \/ h[Cut(h, keep) + 1].role # "tool"
           /\ keep = 0 => Cut(h, keep) = Len(h)
<1> DEFINE k == CutAnywhere(h, keep)
           S == {0} \cup {c \in 1 .. k : c = Len(h) \/ h[c + 1].role # "tool"}
<1>1. Len(h) \in Nat
  BY ListHas
<1>2. k \in Nat /\ k <= Len(h) /\ (keep = 0 => k = Len(h))
  BY <1>1 DEF CutAnywhere
<1>3. Cut(h, keep) = Max(S)
  BY DEF Cut
<1> HIDE DEF k
<1>4. S \subseteq 0 .. k /\ S # {}
  BY <1>2
<1>5. \A c \in S : c = 0 \/ c = Len(h) \/ h[c + 1].role # "tool"
  OBVIOUS
<1>6. keep = 0 /\ Len(h) # 0 => Len(h) \in S
  BY <1>1, <1>2
<1> HIDE DEF S
<1>7. Max(S) \in S /\ \A j \in S : j <= Max(S)
  BY ONLY <1>2, <1>4, MaxIn
<1>8. Max(S) \in 0 .. Len(h)
  <2>1. Max(S) \in 0 .. k
    BY ONLY <1>4, <1>7
  <2>2. QED
    BY ONLY <1>1, <1>2, <2>1
<1>9. keep = 0 => Max(S) = Len(h)
  BY <1>1, <1>6, <1>7, <1>8
<1>10. Max(S) = 0 \/ Max(S) = Len(h) \/ h[Max(S) + 1].role # "tool"
  BY ONLY <1>5, <1>7
<1>11. QED
  BY ONLY <1>3, <1>8, <1>9, <1>10

\* what is left after a clean cut is well-formed
LEMMA SuffixFits ==
    ASSUME NEW h \in Lists, WellFormed(h), NEW c \in 1 .. Len(h),
           c = Len(h) \/ h[c + 1].role # "tool"
    PROVE  /\ <<Summary>> \o SubSeq(h, c + 1, Len(h)) \in Lists
           /\ WellFormed(<<Summary>> \o SubSeq(h, c + 1, Len(h)))
<1> DEFINE n == Len(h)
           t == SubSeq(h, c + 1, n)
           m == <<Summary>>
           g == m \o t
<1>1. /\ n \in Nat /\ DOMAIN h = 1 .. n
      /\ \A i \in 1 .. n : h[i] \in Msgs /\ h[i].calls \in Nat
  BY ListHas DEF Msgs
<1>2. c \in Nat /\ c >= 1 /\ c <= n
  BY <1>1
<1>3. /\ t \in Lists /\ Len(t) = n - c
      /\ \A i \in 1 .. (n - c) : t[i] = h[i + c]
  <2>1. /\ t \in Seq(Msgs)
        /\ Len(t) = IF c + 1 <= n THEN n - (c + 1) + 1 ELSE 0
        /\ \A i \in 1 .. (n - (c + 1) + 1) : t[i] = h[c + 1 + i - 1]
    <3> HIDE DEF n
    <3>1. c + 1 \in Int /\ n \in Int /\ \A i \in (c + 1) .. n : h[i] \in Msgs
      BY <1>1, <1>2
    <3>2. QED
      BY ONLY <3>1, SubSeqProperties
  <2> HIDE DEF t, n
  <2>2. n - (c + 1) + 1 = n - c /\ (c + 1 <= n \/ n - c = 0)
    BY <1>1, <1>2
  <2>3. \A i \in 1 .. (n - c) : c + 1 + i - 1 = i + c
    BY <1>1, <1>2
  <2>4. QED
    BY ONLY <2>1, <2>2, <2>3 DEF Lists
<1>4. /\ m \in Lists /\ Len(m) = 1 /\ m[1].role = "user" /\ m[1].calls = 0
  BY MsgIs DEF Summary
<1> HIDE DEF t, m, n
<1>5. /\ g \in Lists /\ Len(g) = 1 + (n - c)
      /\ g[1] = m[1] /\ \A i \in 2 .. (1 + (n - c)) : g[i] = h[(i - 1) + c]
  <2>1. /\ g \in Lists /\ Len(g) = Len(m) + Len(t)
        /\ \A i \in 1 .. Len(m) : g[i] = m[i]
        /\ \A i \in (Len(m) + 1) .. (Len(m) + Len(t)) : g[i] = t[i - Len(m)]
    BY <1>3, <1>4, Joined
  <2> HIDE DEF g
  <2>2. Len(m) + 1 = 2 /\ Len(m) + Len(t) = 1 + (n - c)
    BY <1>3, <1>4
  <2>3. \A i \in 2 .. (1 + (n - c)) : g[i] = t[i - 1] /\ i - 1 \in 1 .. (n - c)
    BY <1>1, <1>2, <1>4, <2>1, <2>2
  <2>4. QED
    BY <1>3, <1>4, <2>1, <2>2, <2>3
<1> HIDE DEF g
<1>6. ASSUME NEW i \in 2 .. (1 + (n - c)) PROVE Fits(g, i)
  <2> DEFINE k == (i - 1) + c
  <2>1. k \in 1 .. n /\ k > c /\ i \in Nat /\ k = (i - 1) + c /\ i >= 2
    BY <1>1, <1>2
  <2>2. g[i] = h[k] /\ h[k].calls \in Nat /\ Fits(h, k)
    BY <1>1, <1>5, <2>1 DEF WellFormed, Fits
  <2> HIDE DEF k
  <2>3. ASSUME h[k].calls > 0
        PROVE  /\ i + h[k].calls <= 1 + (n - c)
               /\ \A j \in i + 1 .. i + h[k].calls : g[j].role = "tool" /\ g[j].of = h[k].of
    <3>1. /\ k + h[k].calls <= n
          /\ \A j \in k + 1 .. k + h[k].calls : h[j].role = "tool" /\ h[j].of = h[k].of
      BY <2>2, <2>3 DEF Fits, n
    <3>2. i + h[k].calls <= 1 + (n - c)
      BY <1>1, <1>2, <2>1, <2>2, <3>1
    <3>3. ASSUME NEW j \in i + 1 .. i + h[k].calls
          PROVE  g[j].role = "tool" /\ g[j].of = h[k].of
      <4>1. j \in 2 .. (1 + (n - c)) /\ (j - 1) + c \in k + 1 .. k + h[k].calls
        BY <1>1, <1>2, <2>1, <2>2, <3>2
      <4>2. g[j] = h[(j - 1) + c]
        BY <1>5, <4>1
      <4>3. QED
        BY <3>1, <4>1, <4>2
    <3>4. QED
      BY <3>2, <3>3
  <2>4. ASSUME h[k].role = "tool" PROVE \E j \in 1 .. i - 1 : j + g[j].calls >= i
    <3>1. PICK j \in 1 .. k - 1 : j + h[j].calls >= k
      BY <2>2, <2>4 DEF Fits
    <3>2. j \in 1 .. n /\ h[j].calls \in Nat /\ Fits(h, j) /\ j < k
      <4>1. j \in 1 .. n /\ j < k
        BY <1>1, <2>1
      <4>2. QED
        BY <1>1, <4>1 DEF WellFormed, Fits
    <3>3. j > c
      <4> SUFFICES ASSUME ~(j > c) PROVE FALSE
        OBVIOUS
      <4>1. h[j].calls > 0 /\ c + 1 \in j + 1 .. j + h[j].calls
        BY <1>1, <1>2, <2>1, <3>1, <3>2
      <4>2. h[c + 1].role = "tool"
        BY <3>2, <4>1 DEF Fits
      <4>3. c # n
        BY <1>1, <2>1
      <4>4. QED
        BY <4>2, <4>3 DEF n
    <3>4. (j - c) + 1 \in 2 .. (1 + (n - c)) /\ (((j - c) + 1) - 1) + c = j
      BY <1>1, <1>2, <3>2, <3>3
    <3>5. g[(j - c) + 1] = h[j]
      BY <1>5, <3>4
    <3>6. (j - c) + 1 \in 1 .. i - 1 /\ ((j - c) + 1) + g[(j - c) + 1].calls >= i
      BY <1>2, <2>1, <3>1, <3>2, <3>3, <3>5
    <3>7. QED
      BY <3>6
  <2>5. QED
    BY <1>5, <2>2, <2>3, <2>4 DEF Fits
<1>7. Fits(g, 1)
  BY <1>4, <1>5 DEF Fits
<1>8. \A i \in DOMAIN g : Fits(g, i)
  BY <1>1, <1>2, <1>5, <1>6, <1>7, ListHas
<1>9. WellFormed(g)
  BY <1>8 DEF WellFormed, Fits
<1>10. QED
  BY <1>5, <1>9 DEF g, m, t, n

\* a summary of a well-formed conversation is well-formed, and one that keeps nothing
\* is whatever it was made of
LEMMA SummaryFits ==
    ASSUME NEW h \in Lists, NEW keep \in Nat, WellFormed(h) \/ keep = 0
    PROVE  Compacted(h, keep) \in Lists /\ WellFormed(Compacted(h, keep))
<1>1. Len(h) \in Nat
  BY ListHas
<1>2. CASE Cut(h, keep) = 0
  <2>1. Compacted(h, keep) = h
    BY <1>2 DEF Compacted
  <2>2. CASE keep = 0
    <3>1. Len(h) = 0
      BY <1>2, <2>2, CutWhere
    <3>2. h = <<>>
      BY <3>1, EmptySeq DEF Lists
    <3>3. QED
      BY <2>1, <3>2, NothingSaid
  <2>3. QED
    BY <2>1, <2>2
<1>3. CASE Cut(h, keep) # 0
  <2> DEFINE c == Cut(h, keep)
  <2>1. Compacted(h, keep) = <<Summary>> \o SubSeq(h, c + 1, Len(h))
    BY <1>3 DEF Compacted
  <2>2. /\ c \in 0 .. Len(h) /\ c # 0
        /\ c = Len(h) \/ h[c + 1].role # "tool"
        /\ keep = 0 => c = Len(h)
    BY <1>3, CutWhere
  <2> HIDE DEF c
  <2>3. c \in 1 .. Len(h)
    BY <1>1, <2>2
  <2>4. CASE WellFormed(h)
    BY <2>1, <2>2, <2>3, <2>4, SuffixFits
  <2>5. CASE keep = 0
    <3>1. SubSeq(h, c + 1, Len(h)) = <<>>
      BY <1>1, <2>2, <2>5 DEF Lists
    <3>2. <<Summary>> \o <<>> = <<Summary>> /\ <<Summary>> \in Lists
      BY MsgIs, ConcatEmptySeq DEF Lists, Summary
    <3>3. QED
      BY <2>1, <3>1, <3>2, NothingSaid
  <2>6. QED
    BY <2>4, <2>5
<1>4. QED
  BY <1>2, <1>3

\* a summary is a conversation
LEMMA CompactedIs ==
    ASSUME NEW h \in Lists, NEW keep \in Nat
    PROVE  Compacted(h, keep) \in Lists
<1> DEFINE c == Cut(h, keep)
<1>1. Len(h) \in Nat /\ \A i \in 1 .. Len(h) : h[i] \in Msgs
  BY ListHas
<1>2. c \in 0 .. Len(h)
  BY CutWhere
<1> HIDE DEF c
<1>3. SubSeq(h, c + 1, Len(h)) \in Lists
  <2>1. c + 1 \in Int /\ Len(h) \in Int /\ \A i \in (c + 1) .. Len(h) : h[i] \in Msgs
    BY <1>1, <1>2
  <2>2. QED
    BY ONLY <2>1, SubSeqProperties DEF Lists
<1>4. <<Summary>> \in Lists
  BY MsgIs DEF Summary
<1>5. <<Summary>> \o SubSeq(h, c + 1, Len(h)) \in Lists
  BY <1>3, <1>4, Joined
<1>6. QED
  BY <1>5 DEF Compacted, c

-----------------------------------------------------------------------------
(* The invariant.                                                          *)

TurnStates == {"thinking", "compacting", "acting", "limit", "ended"}
States == TurnStates \cup {"idle", "summarizing", "over"}
Reqs == [s : Session \cup {None}, at : States, steps : Nat, nudges : Nat, calls : Nat,
         tail : Lists, own : BOOLEAN, stray : Lists]

TypeInv ==
    /\ history \in [Session -> Lists] /\ file \in Lists \cup {None}
    /\ req \in [Request -> Reqs]
    /\ mode = [s \in Session |-> mode[s]]
    /\ live \subseteq Session /\ \A s \in live : mode[s] # "none"
    /\ \A r \in Request :
          /\ req[r].at \in TurnStates => req[r].s \in Session /\ mode[req[r].s] # "none"
          /\ req[r].at = "acting" => req[r].calls > 0

\* A session has one turn at a time.
Lone == \A q, r \in Request :
            req[q].at \in TurnStates /\ req[r].at \in TurnStates /\ req[q].s = req[r].s => q = r

\* A history is well-formed unless its turn is among its calls.
Resting ==
    \A s \in Session :
        (\A r \in Request : ~(req[r].at = "acting" /\ req[r].own /\ req[r].s = s))
        => WellFormed(history[s])

\* The list of a turn is well-formed, or lacks the answers to the calls that are left.
Sound(at, calls, list, r) ==
    /\ at \in {"thinking", "limit", "ended"} => WellFormed(list)
    /\ at = "acting" => WellFormed(list \o Answers(r, calls))

Sounds == \A r \in Request : Sound(req[r].at, req[r].calls, List(r), r)

\* What a summary under way leaves is well-formed.
Tails == \A r \in Request : req[r].at \in {"compacting", "summarizing"} => WellFormed(req[r].tail)

Good == Lone /\ Resting /\ Sounds /\ Tails

Inv == TypeInv /\ (cutShort \/ (Good /\ WellFormed(Resumed)))

LEMMA ReqIs ==
    ASSUME TypeInv, NEW r \in Request
    PROVE  /\ req[r] \in Reqs
           /\ req[r].at \in States /\ req[r].s \in Session \cup {None} /\ req[r].own \in BOOLEAN
           /\ req[r].steps \in Nat /\ req[r].nudges \in Nat /\ req[r].calls \in Nat
           /\ req[r].tail \in Lists /\ req[r].stray \in Lists
           /\ Active(r) <=> req[r].at \in TurnStates \cup {"summarizing"}
           /\ req[r].at \in TurnStates => List(r) \in Lists
<1>1. req[r] \in Reqs
  BY DEF TypeInv
<1>2. /\ req[r].at \in States /\ req[r].s \in Session \cup {None} /\ req[r].own \in BOOLEAN
      /\ req[r].steps \in Nat /\ req[r].nudges \in Nat /\ req[r].calls \in Nat
      /\ req[r].tail \in Lists /\ req[r].stray \in Lists
  BY <1>1 DEF Reqs
<1>3. Active(r) <=> req[r].at \in TurnStates \cup {"summarizing"}
  BY <1>2 DEF Active, States, TurnStates
<1>4. req[r].at \in TurnStates => List(r) \in Lists
  BY <1>2 DEF TypeInv, List
<1>5. QED
  BY <1>1, <1>2, <1>3, <1>4

LEMMA TurnsAre ==
    ASSUME TypeInv, NEW s, NEW r
    PROVE  r \in Turns(s) <=> r \in Request /\ req[r].s = s /\ req[r].at \in TurnStates
  BY ReqIs DEF Turns, TurnStates

\* what saying something does
LEMMA SaidMoves ==
    ASSUME TypeInv, NEW r \in Request, req[r].at \in TurnStates, NEW msgs \in Lists,
           NEW next \in Reqs, next.s = req[r].s, next.own = req[r].own, next.stray = req[r].stray,
           Said(r, msgs, next)
    PROVE  /\ history' \in [Session -> Lists] /\ req' \in [Request -> Reqs]
           /\ List(r)' = List(r) \o msgs
           /\ req'[r].at = next.at /\ req'[r].calls = next.calls
           /\ req'[r].s = req[r].s /\ req'[r].own = req[r].own
           /\ \A q \in Request \ {r} : req'[q] = req[q]
           /\ \A s \in Session : s # req[r].s \/ ~req[r].own => history'[s] = history[s]
<1>1. /\ req[r].s \in Session /\ history \in [Session -> Lists] /\ req \in [Request -> Reqs]
      /\ List(r) \in Lists
  BY ReqIs DEF TypeInv
<1>2. List(r) \o msgs \in Lists
  BY <1>1, Joined
<1>3. CASE req[r].own
  <2>1. /\ history' = [history EXCEPT ![req[r].s] = history[req[r].s] \o msgs]
        /\ req' = [req EXCEPT ![r] = next] /\ List(r) = history[req[r].s]
    BY <1>3 DEF Said, List
  <2>2. history' \in [Session -> Lists] /\ req' \in [Request -> Reqs] /\ req'[r] = next
    BY <1>1, <1>2, <2>1
  <2>3. List(r)' = history'[req[r].s]
    BY <1>3, <2>2 DEF List
  <2>4. history'[req[r].s] = List(r) \o msgs
    BY <1>1, <2>1
  <2>5. QED
    BY <1>1, <1>3, <2>1, <2>2, <2>3, <2>4
<1>4. CASE ~req[r].own
  <2> DEFINE x == [next EXCEPT !.stray = next.stray \o msgs]
  <2>1. req' = [req EXCEPT ![r] = x] /\ history' = history /\ List(r) = req[r].stray
    BY <1>4 DEF Said, List
  <2>2. /\ x \in Reqs /\ x.at = next.at /\ x.calls = next.calls /\ x.s = next.s
        /\ x.own = next.own /\ x.stray = List(r) \o msgs
    BY <1>2, <2>1 DEF Reqs
  <2> HIDE DEF x
  <2>3. req' \in [Request -> Reqs] /\ req'[r] = x /\ \A q \in Request \ {r} : req'[q] = req[q]
    BY <1>1, <2>1, <2>2
  <2>4. List(r)' = x.stray
    BY <1>4, <2>2, <2>3 DEF List
  <2>5. QED
    BY <1>1, <2>1, <2>2, <2>3, <2>4
<1>5. QED
  BY <1>3, <1>4, ReqIs

\* a turn that says what fits keeps the conversations
LEMMA SaidKeeps ==
    ASSUME TypeInv, NEW r \in Request, req[r].at \in TurnStates, NEW msgs \in Lists,
           NEW next \in Reqs, next.s = req[r].s, next.own = req[r].own, next.stray = req[r].stray,
           next.at \in {"thinking", "acting", "limit", "ended"},
           next.at = "acting" => next.calls > 0,
           Said(r, msgs, next), mode' = mode, live' = live, file' = file, cutShort' = cutShort,
           Inv, Good => Sound(next.at, next.calls, List(r) \o msgs, r)
    PROVE  Inv'
<1>1. /\ history' \in [Session -> Lists] /\ req' \in [Request -> Reqs]
      /\ List(r)' = List(r) \o msgs
      /\ req'[r].at = next.at /\ req'[r].calls = next.calls
      /\ req'[r].s = req[r].s /\ req'[r].own = req[r].own
      /\ \A q \in Request \ {r} : req'[q] = req[q]
      /\ \A s \in Session : s # req[r].s \/ ~req[r].own => history'[s] = history[s]
  BY SaidMoves
<1>2. TypeInv'
  BY <1>1 DEF TypeInv, TurnStates
<1>3. Resumed' = Resumed
  BY DEF Resumed
<1>4. ASSUME Good PROVE Good'
  <2>1. Sound(next.at, next.calls, List(r) \o msgs, r)
    BY <1>4
  <2>2. next.at \in TurnStates /\ next.at \notin {"compacting", "summarizing"}
    BY DEF TurnStates
  <2>3. Lone'
    BY <1>1, <1>4, <2>2 DEF Good, Lone
  <2>4. \A q \in Request \ {r} : req[q].at \in TurnStates => req[q].s # req[r].s
    BY <1>4 DEF Good, Lone
  <2>5. Resting'
    <3> SUFFICES ASSUME NEW s \in Session,
                        \A q \in Request : ~(req'[q].at = "acting" /\ req'[q].own /\ req'[q].s = s)
                 PROVE  WellFormed(history'[s])
      BY DEF Resting
    <3>1. CASE s = req[r].s /\ req[r].own
      <4>1. history'[s] = List(r)'
        BY <1>1, <3>1 DEF List
      <4>2. next.at # "acting"
        BY <1>1, <3>1
      <4>3. QED
        BY <1>1, <2>1, <4>1, <4>2 DEF Sound
    <3>2. CASE ~(s = req[r].s /\ req[r].own)
      <4>1. history'[s] = history[s]
        BY <1>1, <3>2
      <4>2. \A q \in Request : ~(req[q].at = "acting" /\ req[q].own /\ req[q].s = s)
        BY <1>1, <3>2
      <4>3. QED
        BY <1>4, <4>1, <4>2 DEF Good, Resting
    <3>3. QED
      BY <3>1, <3>2
  <2>6. Sounds'
    <3> SUFFICES ASSUME NEW q \in Request
                 PROVE  Sound(req'[q].at, req'[q].calls, List(q)', q)
      BY DEF Sounds
    <3>1. CASE q = r
      BY <1>1, <2>1, <3>1
    <3>2. CASE q # r /\ req[q].at \in TurnStates
      <4>1. req'[q] = req[q] /\ req[q].s # req[r].s /\ req[q].s \in Session
        BY <1>1, <2>4, <3>2 DEF TypeInv
      <4>2. List(q)' = List(q)
        BY <1>1, <4>1 DEF List
      <4>3. QED
        BY <1>4, <4>1, <4>2 DEF Good, Sounds
    <3>3. CASE q # r /\ req[q].at \notin TurnStates
      BY <1>1, <3>3 DEF Sound, TurnStates
    <3>4. QED
      BY <3>1, <3>2, <3>3
  <2>7. Tails'
    BY <1>1, <1>4, <2>2 DEF Good, Tails
  <2>8. QED
    BY <2>3, <2>5, <2>6, <2>7 DEF Good
<1>5. QED
  BY <1>2, <1>3, <1>4 DEF Inv

\* a request that ends, or turns to a summary, leaves the conversations as they are
LEMMA LeavesKeep ==
    ASSUME TypeInv, NEW r \in Request, NEW next \in Reqs,
           next.at \in {"over", "summarizing"}, req' = [req EXCEPT ![r] = next],
           history' = history, mode' = mode, live' = live, file' \in Lists \cup {None},
           Inv, cutShort \/ req[r].at = "acting" => cutShort',
           Good /\ WellFormed(Resumed) => WellFormed(Resumed'),
           Good /\ next.at = "summarizing" => WellFormed(next.tail)
    PROVE  Inv'
<1>1. /\ req \in [Request -> Reqs] /\ req' \in [Request -> Reqs] /\ req'[r] = next
      /\ \A q \in Request \ {r} : req'[q] = req[q]
  BY DEF TypeInv
<1>2. next.at \notin TurnStates /\ next.at # "acting"
  BY DEF TurnStates
<1>3. TypeInv'
  BY <1>1, <1>2 DEF TypeInv
<1>4. ASSUME Good, req[r].at # "acting" PROVE Good'
  <2>1. Lone'
    BY <1>1, <1>2, <1>4 DEF Good, Lone
  <2>2. Resting'
    BY <1>1, <1>2, <1>4 DEF Good, Resting
  <2>3. Sounds'
    <3> SUFFICES ASSUME NEW q \in Request
                 PROVE  Sound(req'[q].at, req'[q].calls, List(q)', q)
      BY DEF Sounds
    <3>1. CASE q = r
      BY <1>1, <1>2, <3>1 DEF Sound
    <3>2. CASE q # r
      <4>1. req'[q] = req[q] /\ List(q)' = List(q)
        BY <1>1, <3>2 DEF List
      <4>2. QED
        BY <1>4, <4>1 DEF Good, Sounds
    <3>3. QED
      BY <3>1, <3>2
  <2>4. Tails'
    BY <1>1, <1>4 DEF Good, Tails
  <2>5. QED
    BY <2>1, <2>2, <2>3, <2>4 DEF Good
<1>5. QED
  BY <1>3, <1>4 DEF Inv

\* what replacing a history does
LEMMA ReplacedMoves ==
    ASSUME TypeInv, NEW s \in Session, NEW h \in Lists, NEW self \in Request, NEW next \in Reqs,
           Replaced(s, h, self, next)
    PROVE  /\ history' \in [Session -> Lists] /\ req' \in [Request -> Reqs]
           /\ history'[s] = h /\ \A x \in Session \ {s} : history'[x] = history[x]
           /\ req'[self] = next
           /\ \A q \in Request \ {self} :
                 /\ req'[q].at = req[q].at /\ req'[q].calls = req[q].calls
                 /\ req'[q].s = req[q].s /\ req'[q].tail = req[q].tail
                 /\ req[q].s # s => req'[q] = req[q]
                 /\ req[q].at \in TurnStates => List(q)' = List(q)
<1>1. history \in [Session -> Lists] /\ req \in [Request -> Reqs] /\ history[s] \in Lists
  BY DEF TypeInv
<1>2. /\ history' = [history EXCEPT ![s] = h]
      /\ req' = [q \in Request |->
                   IF q = self THEN next
                   ELSE IF q \in Turns(s) /\ req[q].own
                        THEN [req[q] EXCEPT !.own = FALSE, !.stray = history[s]] ELSE req[q]]
  BY DEF Replaced
<1>3. ASSUME NEW q \in Request \ {self}
      PROVE  /\ req'[q] \in Reqs
             /\ req'[q].at = req[q].at /\ req'[q].calls = req[q].calls
             /\ req'[q].s = req[q].s /\ req'[q].tail = req[q].tail
             /\ req[q].s # s => req'[q] = req[q]
             /\ req[q].at \in TurnStates => List(q)' = List(q)
  <2> DEFINE y == [req[q] EXCEPT !.own = FALSE, !.stray = history[s]]
  <2>0. req[q] \in Reqs
    BY <1>1
  <2>1. CASE q \in Turns(s) /\ req[q].own
    <3>1. req'[q] = y
      BY <1>2, <2>1
    <3>2. /\ y \in Reqs /\ y.at = req[q].at /\ y.calls = req[q].calls /\ y.s = req[q].s
          /\ y.tail = req[q].tail /\ y.own = FALSE /\ y.stray = history[s]
      BY <1>1, <2>0 DEF Reqs
    <3>3. req[q].s = s
      BY <2>1 DEF Turns
    <3> HIDE DEF y
    <3>4. List(q)' = history[s] /\ List(q) = history[s]
      BY <2>1, <3>1, <3>2, <3>3 DEF List
    <3>5. QED
      BY <2>1, <3>1, <3>2, <3>3, <3>4
  <2>2. CASE ~(q \in Turns(s) /\ req[q].own)
    <3>1. req'[q] = req[q]
      BY <1>2, <2>2
    <3>2. ASSUME req[q].at \in TurnStates, req[q].own PROVE List(q)' = List(q)
      <4>1. req[q].s \in Session /\ req[q].s # s
        BY <2>2, <3>2, TurnsAre DEF TypeInv
      <4>2. history'[req[q].s] = history[req[q].s]
        BY <1>1, <1>2, <4>1
      <4>3. QED
        BY <3>1, <4>2 DEF List
    <3>3. ~req[q].own => List(q)' = List(q)
      BY <3>1 DEF List
    <3>4. QED
      BY <2>0, <3>1, <3>2, <3>3
  <2>3. QED
    BY <2>1, <2>2
<1>4. history' \in [Session -> Lists] /\ history'[s] = h
      /\ \A x \in Session \ {s} : history'[x] = history[x]
  BY <1>1, <1>2
<1>5. req'[self] = next
  BY <1>2
<1>6. \A q \in Request : req'[q] \in Reqs
  BY <1>3, <1>5
<1>7. req' \in [Request -> Reqs]
  <2>1. req' = [q \in Request |-> req'[q]]
    BY <1>2
  <2>2. QED
    BY ONLY <1>6, <2>1
<1>8. QED
  BY <1>3, <1>4, <1>5, <1>7

\* a well-formed history may replace another: the turns in flight keep their lists
LEMMA ReplacedKeeps ==
    ASSUME TypeInv, NEW s \in Session, NEW h \in Lists, NEW self \in Request, NEW next \in Reqs,
           Replaced(s, h, self, next),
           \/ next.at = "over" /\ req[self].at = "summarizing"
           \/ next.at = "thinking" /\ next.s = s /\ next.own
              /\ req[self].at \in TurnStates /\ req[self].s = s,
           mode' = mode, live' = live, cutShort' = cutShort, file' \in Lists \cup {None},
           Inv, Good => WellFormed(h), Good /\ WellFormed(Resumed) => WellFormed(Resumed')
    PROVE  Inv'
<1>1. /\ history' \in [Session -> Lists] /\ req' \in [Request -> Reqs]
      /\ history'[s] = h /\ \A x \in Session \ {s} : history'[x] = history[x]
      /\ req'[self] = next
      /\ \A q \in Request \ {self} :
                 /\ req'[q].at = req[q].at /\ req'[q].calls = req[q].calls
                 /\ req'[q].s = req[q].s /\ req'[q].tail = req[q].tail
                 /\ req[q].s # s => req'[q] = req[q]
                 /\ req[q].at \in TurnStates => List(q)' = List(q)
  BY ReplacedMoves
<1>2. next.at # "acting" /\ next.at \notin {"compacting", "summarizing", "limit", "ended"}
  OBVIOUS
<1>3. next.at \in TurnStates => next.at = "thinking" /\ next.s = s /\ next.own
                                /\ req[self].at \in TurnStates /\ req[self].s = s
  BY DEF TurnStates
<1>4. TypeInv'
  BY <1>1, <1>2, <1>3 DEF TypeInv
<1>5. ASSUME Good PROVE Good'
  <2>1. Lone'
    BY <1>1, <1>3, <1>5 DEF Good, Lone
  <2>2. Resting'
    <3> SUFFICES ASSUME NEW x \in Session,
                        \A q \in Request : ~(req'[q].at = "acting" /\ req'[q].own /\ req'[q].s = x)
                 PROVE  WellFormed(history'[x])
      BY DEF Resting
    <3>1. CASE x = s
      BY <1>1, <1>5, <3>1
    <3>2. CASE x # s
      <4>1. ASSUME NEW q \in Request, req[q].at = "acting", req[q].own, req[q].s = x PROVE FALSE
        <5>1. CASE q = self
          <6>1. req[self].at # "summarizing" /\ req[self].s # s
            BY <3>2, <4>1, <5>1
          <6>2. QED
            BY <6>1
        <5>2. CASE q # self
          BY <1>1, <3>2, <4>1, <5>2
        <5>3. QED
          BY <5>1, <5>2
      <4>2. QED
        BY <1>1, <1>5, <3>2, <4>1 DEF Good, Resting
    <3>3. QED
      BY <3>1, <3>2
  <2>3. Sounds'
    <3> SUFFICES ASSUME NEW q \in Request
                 PROVE  Sound(req'[q].at, req'[q].calls, List(q)', q)
      BY DEF Sounds
    <3>1. CASE q = self /\ next.at = "thinking"
      <4>1. List(q)' = h
        BY <1>1, <3>1, next.s = s /\ next.own DEF List
      <4>2. QED
        BY <1>1, <1>5, <3>1, <4>1 DEF Sound
    <3>2. CASE q = self /\ next.at = "over"
      BY <1>1, <3>2 DEF Sound
    <3>3. CASE q # self /\ req[q].at \in TurnStates
      BY <1>1, <1>5, <3>3 DEF Good, Sounds
    <3>4. CASE q # self /\ req[q].at \notin TurnStates
      BY <1>1, <3>4 DEF Sound, TurnStates
    <3>5. QED
      BY <3>1, <3>2, <3>3, <3>4
  <2>4. Tails'
    BY <1>1, <1>2, <1>5 DEF Good, Tails
  <2>5. QED
    BY <2>1, <2>2, <2>3, <2>4 DEF Good
<1>6. QED
  BY <1>4, <1>5 DEF Inv

-----------------------------------------------------------------------------
(* The steps.                                                              *)

LEMMA TurnKinds ==
    ASSUME TypeInv, NEW r \in Request
    PROVE  /\ Thinking(r) => req[r].at = "thinking" /\ req[r].at \in TurnStates
           /\ Acting(r) => req[r].at = "acting" /\ req[r].at \in TurnStates /\ req[r].calls > 0
  BY DEF Thinking, Acting, TurnStates, TypeInv

\* a turn's next record has its session and its list
Continues(next, r) ==
    /\ next \in Reqs
    /\ next.s = req[r].s /\ next.own = req[r].own /\ next.stray = req[r].stray

LEMMA NextOnward ==
    ASSUME NEW r \in Request, NEW x, Continues(x, r)
    PROVE  Continues(Onward(x), r) /\ Onward(x).at \in {"thinking", "limit"}
  BY DEF Continues, Reqs, Onward, States, TurnStates

LEMMA StepContinues ==
    ASSUME TypeInv, NEW r \in Request
    PROVE  /\ Continues(req[r], r) /\ Continues(Step(r), r)
           /\ req[r].calls > 0 =>
                 /\ Continues([req[r] EXCEPT !.calls = req[r].calls - 1], r)
                 /\ [req[r] EXCEPT !.calls = req[r].calls - 1].calls = req[r].calls - 1
                 /\ [req[r] EXCEPT !.calls = req[r].calls - 1].at = req[r].at
<1>1. req[r] \in Reqs /\ req[r].steps \in Nat /\ req[r].calls \in Nat
  BY ReqIs
<1>2. QED
  BY <1>1 DEF Continues, Reqs, Step

LEMMA ProseStep ==
    ASSUME Inv, NEW r \in Request, Prose(r)
    PROVE  Inv'
<1>1. TypeInv /\ req[r].at = "thinking" /\ req[r].at \in TurnStates /\ List(r) \in Lists
  BY TurnKinds, ReqIs DEF Inv, Prose
<1>2. mode' = mode /\ live' = live /\ file' = file /\ cutShort' = cutShort
  BY DEF Prose
<1>3. Good => WellFormed(List(r))
  BY <1>1 DEF Good, Sounds, Sound
<1>4. Continues(Step(r), r) /\ Step(r) \in Reqs
  BY <1>1, StepContinues DEF Continues
<1>5. CASE Said(r, <<Msg("assistant", r, 0)>>, [Step(r) EXCEPT !.at = "ended"])
  <2> DEFINE x == [Step(r) EXCEPT !.at = "ended"]
             m == <<Msg("assistant", r, 0)>>
  <2>1. Continues(x, r) /\ x.at = "ended"
    BY <1>4 DEF Continues, Reqs, States, TurnStates
  <2>2. m \in Lists
    BY MsgIs
  <2>3. Good => WellFormed(List(r) \o m)
    BY <1>1, <1>3, ProseKeeps
  <2> HIDE DEF x, m
  <2>4. Good => Sound(x.at, x.calls, List(r) \o m, r)
    BY <2>1, <2>3 DEF Sound
  <2>5. Said(r, m, x)
    BY <1>5 DEF x, m
  <2>6. QED
    BY <1>1, <1>2, <2>1, <2>2, <2>4, <2>5, SaidKeeps DEF Continues
<1>6. CASE Said(r, <<Msg("assistant", r, 0), Msg("user", r, 0)>>,
                Onward([Step(r) EXCEPT !.nudges = @ + 1]))
  <2> DEFINE y == [Step(r) EXCEPT !.nudges = Step(r).nudges + 1]
             x == Onward(y)
             a == <<Msg("assistant", r, 0)>>
             u == <<Msg("user", r, 0)>>
             m == <<Msg("assistant", r, 0), Msg("user", r, 0)>>
  <2>0. Step(r).nudges \in Nat
    BY <1>4 DEF Reqs
  <2>1. Continues(y, r) /\ y \in Reqs
    BY <1>4, <2>0 DEF Continues, Reqs
  <2>2. Continues(x, r) /\ x.at \in {"thinking", "limit"}
    BY <2>1, NextOnward
  <2>3. a \in Lists /\ u \in Lists /\ m = a \o u /\ m \in Lists
    <3>1. Msg("assistant", r, 0) \in Msgs /\ Msg("user", r, 0) \in Msgs
      BY MsgIs
    <3>2. QED
      BY <3>1 DEF Lists
  <2>4. List(r) \o m = (List(r) \o a) \o u
    BY <1>1, <2>3, ConcatAssociative DEF Lists
  <2>5. Good => WellFormed((List(r) \o a) \o u)
    BY <1>1, <1>3, ProseKeeps
  <2>6. Said(r, m, x)
    BY <1>6
  <2> HIDE DEF x, y, m, a, u
  <2>7. Good => Sound(x.at, x.calls, List(r) \o m, r)
    BY <2>2, <2>4, <2>5 DEF Sound
  <2>8. QED
    BY <1>1, <1>2, <2>2, <2>3, <2>6, <2>7, SaidKeeps DEF Continues
<1>7. QED
  BY <1>5, <1>6 DEF Prose

LEMMA CallsToolsStep ==
    ASSUME Inv, NEW r \in Request, CallsTools(r)
    PROVE  Inv'
<1>1. TypeInv /\ req[r].at = "thinking" /\ req[r].at \in TurnStates /\ List(r) \in Lists
  BY TurnKinds, ReqIs DEF Inv, CallsTools
<1>2. mode' = mode /\ live' = live /\ file' = file /\ cutShort' = cutShort
  BY DEF CallsTools
<1>3. Good => WellFormed(List(r))
  BY <1>1 DEF Good, Sounds, Sound
<1>4. Continues(Step(r), r) /\ Step(r) \in Reqs
  BY <1>1, StepContinues DEF Continues
<1>5. PICK n \in 1 .. MaxCalls :
         Said(r, <<Msg("assistant", r, n)>>, [Step(r) EXCEPT !.at = "acting", !.calls = n])
  BY DEF CallsTools
<1>6. n \in Nat \ {0} /\ n \in Nat /\ n > 0
  OBVIOUS
<1> DEFINE x == [Step(r) EXCEPT !.at = "acting", !.calls = n]
           m == <<Msg("assistant", r, n)>>
<1>7. Continues(x, r) /\ x.at = "acting" /\ x.calls = n
  BY <1>4, <1>6 DEF Continues, Reqs, States, TurnStates
<1>8. m \in Lists
  BY <1>6, MsgIs
<1>9. Good => WellFormed((List(r) \o m) \o Answers(r, n))
  BY <1>1, <1>3, <1>6, CallsKeep
<1>10. Said(r, m, x)
  BY <1>5
<1> HIDE DEF x, m
<1>11. Good => Sound(x.at, x.calls, List(r) \o m, r)
  BY <1>7, <1>9 DEF Sound
<1>12. QED
  BY <1>1, <1>2, <1>6, <1>7, <1>8, <1>10, <1>11, SaidKeeps DEF Continues

\* one call answered
LEMMA CallAnswered ==
    ASSUME Inv, NEW r \in Request, Acting(r), Said(r, Answers(r, 1), Rest(r)),
           mode' = mode, live' = live, file' = file, cutShort' = cutShort
    PROVE  Inv'
<1>1. TypeInv /\ req[r].at = "acting" /\ req[r].at \in TurnStates /\ List(r) \in Lists
      /\ req[r].calls \in Nat /\ req[r].calls > 0
  BY TurnKinds, ReqIs DEF Inv
<1> DEFINE n == req[r].calls
           y == [req[r] EXCEPT !.calls = n - 1]
           x == Rest(r)
           m == Answers(r, 1)
<1>2. Continues(y, r) /\ y.calls = n - 1 /\ y.at = "acting" /\ y \in Reqs
  BY <1>1, StepContinues DEF Continues
<1>3. x = IF y.calls = 0 THEN Onward(y) ELSE y
  BY DEF Rest
<1>4. Continues(Onward(y), r) /\ Onward(y).at \in {"thinking", "limit"}
  BY <1>2, NextOnward
<1>5. m \in Lists
  BY AnswersAre
<1>6. Good => WellFormed(List(r) \o Answers(r, n))
  BY <1>1 DEF Good, Sounds, Sound
<1>7. (List(r) \o m) \o Answers(r, n - 1) = List(r) \o Answers(r, n)
  <2>1. n - 1 \in Nat /\ 1 \in Nat /\ 1 + (n - 1) = n
    BY <1>1
  <2>2. (List(r) \o m) \o Answers(r, n - 1) = List(r) \o Answers(r, 1 + (n - 1))
    BY <1>1, <2>1, AnswersJoin
  <2>3. QED
    BY ONLY <2>1, <2>2
<1> HIDE DEF x, y, m, n
<1>8. Continues(x, r) /\ x.at \in {"thinking", "limit", "acting"}
      /\ (x.at = "acting" => x.calls = n - 1 /\ n - 1 > 0)
      /\ (x.at # "acting" => n = 1)
  BY <1>1, <1>2, <1>3, <1>4 DEF n
<1>9. Good => Sound(x.at, x.calls, List(r) \o m, r)
  <2>1. CASE x.at = "acting"
    BY <1>6, <1>7, <1>8, <2>1 DEF Sound
  <2>2. CASE x.at # "acting"
    BY <1>6, <1>8, <2>2 DEF Sound, m
  <2>3. QED
    BY <2>1, <2>2
<1>10. Said(r, m, x)
  BY DEF m, x
<1>11. x.at = "acting" => x.calls > 0
  BY <1>8
<1>12. QED
  BY <1>1, <1>5, <1>8, <1>9, <1>10, <1>11, SaidKeeps DEF Continues

LEMMA EndsTurnStep ==
    ASSUME Inv, NEW r \in Request, EndsTurn(r)
    PROVE  Inv'
<1>1. TypeInv /\ req[r].at = "acting" /\ req[r].at \in TurnStates /\ List(r) \in Lists
      /\ req[r].calls \in Nat
  BY TurnKinds, ReqIs DEF Inv, EndsTurn
<1>2. mode' = mode /\ live' = live /\ file' = file /\ cutShort' = cutShort
  BY DEF EndsTurn
<1> DEFINE x == [req[r] EXCEPT !.at = "ended", !.calls = 0]
           m == Answers(r, req[r].calls)
<1>3. Continues(x, r) /\ x.at = "ended"
  BY <1>1, StepContinues DEF Continues, Reqs, States, TurnStates
<1>4. m \in Lists
  BY <1>1, AnswersAre
<1>5. Said(r, m, x)
  BY DEF EndsTurn, Answered
<1>6. Good => WellFormed(List(r) \o m)
  BY <1>1 DEF Good, Sounds, Sound
<1> HIDE DEF x, m
<1>7. Good => Sound(x.at, x.calls, List(r) \o m, r)
  BY <1>3, <1>6 DEF Sound
<1>8. QED
  BY <1>1, <1>2, <1>3, <1>4, <1>5, <1>7, SaidKeeps DEF Continues

LEMMA StepLimitStep ==
    ASSUME Inv, NEW r \in Request, StepLimit(r)
    PROVE  Inv'
<1>1. TypeInv /\ req[r].at = "limit" /\ req[r].at \in TurnStates /\ List(r) \in Lists
  BY ReqIs DEF Inv, StepLimit, TurnStates
<1>2. mode' = mode /\ live' = live /\ file' = file /\ cutShort' = cutShort
  BY DEF StepLimit
<1> DEFINE x == [req[r] EXCEPT !.at = "ended"]
           m == <<Msg("assistant", r, 0)>>
<1>3. Continues(x, r) /\ x.at = "ended"
  BY <1>1, StepContinues DEF Continues, Reqs, States, TurnStates
<1>4. m \in Lists
  BY MsgIs
<1>5. Said(r, m, x)
  BY DEF StepLimit
<1>6. Good => WellFormed(List(r) \o m)
  BY <1>1, ProseKeeps DEF Good, Sounds, Sound
<1> HIDE DEF x, m
<1>7. Good => Sound(x.at, x.calls, List(r) \o m, r)
  BY <1>3, <1>6 DEF Sound
<1>8. QED
  BY <1>1, <1>2, <1>3, <1>4, <1>5, <1>7, SaidKeeps DEF Continues

LEMMA RecordsAre ==
    /\ Idle \in Reqs /\ Idle.own /\ [Idle EXCEPT !.at = "over"] \in Reqs
    /\ [Idle EXCEPT !.at = "over"].at = "over"
  BY NothingSaid DEF Idle, Reqs, States

LEMMA BegunIs ==
    ASSUME NEW r \in Request, NEW s \in Session
    PROVE  /\ Begun(r, s) \in Reqs /\ Begun(r, s).at = "thinking"
           /\ Begun(r, s).s = s /\ Begun(r, s).own
  BY NothingSaid DEF Begun, Idle, Reqs, States, TurnStates

\* what is stored is well-formed when it was, or is a well-formed history
LEMMA StoredKeeps ==
    ASSUME TypeInv, NEW s, NEW h \in Lists, Good => WellFormed(h),
           file' = Stored(s, h) \/ file' = h
    PROVE  /\ file' \in Lists \cup {None}
           /\ Good /\ WellFormed(Resumed) => WellFormed(Resumed')
<1>1. file' = h \/ file' = file
  BY DEF Stored
<1>2. file' = h => Resumed' \in {<<>>, h}
  BY DEF Resumed
<1>3. file' = file => Resumed' = Resumed
  BY DEF Resumed
<1>4. QED
  BY <1>1, <1>2, <1>3, NothingSaid DEF TypeInv

LEMMA ShortenedStep ==
    ASSUME Inv, NEW r \in Request, Shortened(r)
    PROVE  Inv'
<1> DEFINE s == req[r].s
           t == req[r].tail
           h == t \o <<Msg("user", r, 0)>>
<1>1. TypeInv /\ req[r].at = "compacting" /\ req[r].at \in TurnStates
      /\ s \in Session /\ t \in Lists
  BY ReqIs DEF Inv, Shortened, TypeInv, TurnStates
<1>2. Good => WellFormed(t)
  BY <1>1 DEF Good, Tails
<1>3. Append(t, Msg("user", r, 0)) = h /\ h \in Lists
  <2>1. <<Msg("user", r, 0)>> \in Lists /\ Msg("user", r, 0) \in Msgs
    BY MsgIs
  <2>2. t \o <<Msg("user", r, 0)>> \in Lists
    BY <1>1, <2>1, Joined
  <2>3. Append(t, Msg("user", r, 0)) = t \o <<Msg("user", r, 0)>>
    BY <1>1, <2>1, AppendIsConcat DEF Lists
  <2>4. QED
    BY <2>2, <2>3
<1>4. Good => WellFormed(h)
  BY <1>1, <1>2, ProseKeeps
<1>5. Replaced(s, h, r, Begun(r, s)) /\ file' = Stored(s, t)
      /\ mode' = mode /\ live' = live /\ cutShort' = cutShort
  BY <1>3 DEF Shortened
<1> HIDE DEF s, t, h
<1>6. /\ file' \in Lists \cup {None}
      /\ Good /\ WellFormed(Resumed) => WellFormed(Resumed')
  BY <1>1, <1>2, <1>5, StoredKeeps
<1>7. /\ Begun(r, s) \in Reqs /\ Begun(r, s).at = "thinking"
      /\ Begun(r, s).s = s /\ Begun(r, s).own
  BY <1>1, BegunIs
<1>8. QED
  BY <1>1, <1>3, <1>4, <1>5, <1>6, <1>7, ReplacedKeeps DEF s

LEMMA SummarizedStep ==
    ASSUME Inv, NEW r \in Request, Summarized(r)
    PROVE  Inv'
<1> DEFINE s == req[r].s
           t == req[r].tail
           over == [Idle EXCEPT !.at = "over"]
<1>1. TypeInv /\ req[r].at = "summarizing" /\ s \in Session \cup {None} /\ t \in Lists
  BY ReqIs DEF Inv, Summarized
<1>2. Good => WellFormed(t)
  BY <1>1 DEF Good, Tails
<1>3. mode' = mode /\ live' = live /\ cutShort' = cutShort
  BY DEF Summarized
<1>4. over \in Reqs /\ over.at = "over"
  BY RecordsAre
<1>5. \/ s = None /\ file' = t /\ req' = [req EXCEPT ![r] = over] /\ history' = history
      \/ s # None /\ file' = Stored(s, t) /\ Replaced(s, t, r, over)
  BY DEF Summarized
<1> HIDE DEF s, t, over
<1>6. /\ file' \in Lists \cup {None}
      /\ Good /\ WellFormed(Resumed) => WellFormed(Resumed')
  BY <1>1, <1>2, <1>5, StoredKeeps
<1>7. CASE req' = [req EXCEPT ![r] = over] /\ history' = history
  BY <1>1, <1>3, <1>4, <1>6, <1>7, LeavesKeep
<1>8. CASE s # None /\ Replaced(s, t, r, over)
  BY <1>1, <1>2, <1>3, <1>4, <1>6, <1>8, ReplacedKeeps
<1>9. QED
  BY <1>5, <1>7, <1>8

LEMMA SaveStep ==
    ASSUME Inv, NEW r \in Request, Save(r)
    PROVE  Inv'
<1> DEFINE s == req[r].s
           h == history[s]
           over == [Idle EXCEPT !.at = "over"]
<1>1. TypeInv /\ req[r].at = "ended" /\ req[r].at \in TurnStates /\ s \in Session /\ h \in Lists
  BY ReqIs DEF Inv, Save, TypeInv, TurnStates
<1>2. ASSUME Good PROVE WellFormed(h)
  <2>1. ASSUME NEW q \in Request, req[q].at = "acting", req[q].s = s PROVE FALSE
    <3>1. req[q].at \in TurnStates
      BY <2>1 DEF TurnStates
    <3>2. q = r
      BY <1>1, <1>2, <2>1, <3>1 DEF Good, Lone
    <3>3. QED
      BY <1>1, <2>1, <3>2
  <2>2. QED
    BY <1>1, <1>2, <2>1 DEF Good, Resting
<1>3. /\ mode' = mode /\ live' = live /\ cutShort' = cutShort /\ history' = history
      /\ file' = Stored(s, h) /\ req' = [req EXCEPT ![r] = over]
  BY DEF Save
<1>4. over \in Reqs /\ over.at = "over"
  BY RecordsAre
<1> HIDE DEF s, h, over
<1>5. /\ file' \in Lists \cup {None}
      /\ Good /\ WellFormed(Resumed) => WellFormed(Resumed')
  BY <1>1, <1>2, <1>3, StoredKeeps
<1>6. QED
  BY <1>1, <1>3, <1>4, <1>5, LeavesKeep

LEMMA DiesStep ==
    ASSUME Inv, NEW r \in Request, Dies(r)
    PROVE  Inv'
<1> DEFINE over == [Idle EXCEPT !.at = "over"]
<1>1. TypeInv /\ file \in Lists \cup {None}
  BY DEF Inv, TypeInv
<1>2. /\ mode' = mode /\ live' = live /\ cutShort' = (cutShort \/ req[r].at = "acting")
      /\ history' = history /\ file' = file /\ req' = [req EXCEPT ![r] = over]
  BY DEF Dies
<1>3. over \in Reqs /\ over.at = "over"
  BY RecordsAre
<1>4. Resumed' = Resumed
  BY <1>2 DEF Resumed
<1> HIDE DEF over
<1>5. QED
  BY <1>1, <1>2, <1>3, <1>4, LeavesKeep

LEMMA SummarizeStep ==
    ASSUME Inv, NEW r \in Request, Summarize(r)
    PROVE  Inv'
<1>1. TypeInv /\ file \in Lists \cup {None} /\ history \in [Session -> Lists]
      /\ live \subseteq Session /\ req[r].at = "idle"
  BY DEF Inv, TypeInv, Summarize
<1>2. /\ mode' = mode /\ live' = live /\ cutShort' = cutShort /\ history' = history
      /\ file' = file /\ Resumed' = Resumed
  BY DEF Summarize, Resumed
<1>3. ASSUME NEW next \in Reqs, next.at = "summarizing", WellFormed(next.tail),
             req' = [req EXCEPT ![r] = next]
      PROVE  Inv'
  BY <1>1, <1>2, <1>3, LeavesKeep
<1>4. "summarizing" \in States
  BY DEF States
<1>5. ASSUME NEW s \in live,
             req' = [req EXCEPT ![r] = [Idle EXCEPT !.s = s, !.at = "summarizing",
                                                    !.tail = Compacted(history[s], 0)]]
      PROVE  Inv'
  <2> DEFINE t == Compacted(history[s], 0)
             next == [Idle EXCEPT !.s = s, !.at = "summarizing", !.tail = t]
  <2>1. t \in Lists /\ WellFormed(t) /\ s \in Session \cup {None}
    BY <1>1, SummaryFits
  <2>2. req' = [req EXCEPT ![r] = next]
    BY <1>5
  <2> HIDE DEF t
  <2>3. next \in Reqs /\ next.at = "summarizing" /\ next.tail = t
    BY <1>4, <2>1, RecordsAre DEF Reqs
  <2> HIDE DEF next
  <2>4. QED
    BY <1>3, <2>1, <2>2, <2>3
<1>6. ASSUME file # None,
             req' = [req EXCEPT ![r] = [Idle EXCEPT !.at = "summarizing",
                                                    !.tail = Compacted(file, 0)]]
      PROVE  Inv'
  <2> DEFINE t == Compacted(file, 0)
             next == [Idle EXCEPT !.at = "summarizing", !.tail = t]
  <2>1. t \in Lists /\ WellFormed(t)
    BY <1>1, <1>6, SummaryFits
  <2>2. req' = [req EXCEPT ![r] = next]
    BY <1>6
  <2> HIDE DEF t
  <2>3. next \in Reqs /\ next.at = "summarizing" /\ next.tail = t
    BY <1>4, <2>1, RecordsAre DEF Reqs
  <2> HIDE DEF next
  <2>4. QED
    BY <1>3, <2>1, <2>2, <2>3
<1>7. QED
  BY <1>5, <1>6 DEF Summarize

\* a message begins the only turn of its session
LEMMA BeginsKeep ==
    ASSUME Inv, NEW r \in Request, NEW s \in live, NEW next \in Reqs,
           req[r].at = "idle", req' = [req EXCEPT ![r] = next],
           next.s = s, next.own, next.at \in {"thinking", "compacting"},
           history' \in [Session -> Lists], \A x \in Session \ {s} : history'[x] = history[x],
           mode' = mode, live' = live, file' = file, cutShort' = (cutShort \/ Turns(s) # {}),
           Good /\ Turns(s) = {} => WellFormed(history'[s]),
           Good /\ Turns(s) = {} /\ next.at = "compacting" => WellFormed(next.tail)
    PROVE  Inv'
<1>1. /\ TypeInv /\ req \in [Request -> Reqs] /\ history \in [Session -> Lists] /\ s \in Session
      /\ mode[s] # "none" /\ live \subseteq Session
  BY DEF Inv, TypeInv
<1>2. /\ req' \in [Request -> Reqs] /\ req'[r] = next
      /\ \A q \in Request \ {r} : req'[q] = req[q]
  BY <1>1
<1>3. next.at \in TurnStates /\ next.at # "acting" /\ next.at \notin {"limit", "ended"}
      /\ req[r].at \notin TurnStates
  BY DEF TurnStates
<1>4. TypeInv'
  BY <1>1, <1>2, <1>3 DEF TypeInv
<1>5. Resumed' = Resumed
  BY DEF Resumed
<1>6. ASSUME Good, Turns(s) = {} PROVE Good'
  <2>1. \A q \in Request \ {r} : req[q].at \in TurnStates => req[q].s # s
    BY <1>1, <1>6, TurnsAre
  <2>2. Lone'
    BY <1>2, <1>3, <1>6, <2>1 DEF Good, Lone
  <2>3. Resting'
    <3> SUFFICES ASSUME NEW x \in Session,
                        \A q \in Request : ~(req'[q].at = "acting" /\ req'[q].own /\ req'[q].s = x)
                 PROVE  WellFormed(history'[x])
      BY DEF Resting
    <3>1. CASE x = s
      BY <1>6, <3>1
    <3>2. CASE x # s
      <4>1. \A q \in Request : ~(req[q].at = "acting" /\ req[q].own /\ req[q].s = x)
        BY <1>2
      <4>2. QED
        BY <1>6, <3>2, <4>1 DEF Good, Resting
    <3>3. QED
      BY <3>1, <3>2
  <2>4. Sounds'
    <3> SUFFICES ASSUME NEW q \in Request
                 PROVE  Sound(req'[q].at, req'[q].calls, List(q)', q)
      BY DEF Sounds
    <3>1. CASE q = r
      <4>1. List(q)' = history'[s]
        BY <1>2, <3>1 DEF List
      <4>2. QED
        BY <1>2, <1>3, <1>6, <3>1, <4>1 DEF Sound
    <3>2. CASE q # r /\ req[q].at \in TurnStates
      <4>1. req'[q] = req[q] /\ req[q].s # s /\ req[q].s \in Session
        BY <1>1, <1>2, <2>1, <3>2 DEF TypeInv
      <4>2. List(q)' = List(q)
        BY <4>1 DEF List
      <4>3. QED
        BY <1>6, <4>1, <4>2 DEF Good, Sounds
    <3>3. CASE q # r /\ req[q].at \notin TurnStates
      BY <1>2, <3>3 DEF Sound, TurnStates
    <3>4. QED
      BY <3>1, <3>2, <3>3
  <2>5. Tails'
    BY <1>2, <1>3, <1>6 DEF Good, Tails
  <2>6. QED
    BY <2>2, <2>3, <2>4, <2>5 DEF Good
<1>7. QED
  BY <1>4, <1>5, <1>6 DEF Inv

\* a session with no turn has a well-formed history
LEMMA IdleHistory ==
    ASSUME TypeInv, Good, NEW s \in Session, Turns(s) = {} PROVE WellFormed(history[s])
<1>1. ASSUME NEW r \in Request PROVE ~(req[r].at = "acting" /\ req[r].own /\ req[r].s = s)
  BY TurnsAre DEF TurnStates
<1>2. QED
  BY <1>1 DEF Good, Resting

LEMMA MessageStep ==
    ASSUME Inv, NEW r \in Request, NEW s \in Session, Message(r, s)
    PROVE  Inv'
<1>1. TypeInv /\ history \in [Session -> Lists] /\ history[s] \in Lists /\ s \in live
      /\ req[r].at = "idle"
  BY DEF Inv, TypeInv, Message
<1>2. /\ mode' = mode /\ live' = live /\ file' = file
      /\ cutShort' = (cutShort \/ Turns(s) # {})
  BY DEF Message
<1>3. Good /\ Turns(s) = {} => WellFormed(history[s])
  BY <1>1, IdleHistory
<1>4. CASE /\ history' = [history EXCEPT ![s] = Append(@, Msg("user", r, 0))]
           /\ req' = [req EXCEPT ![r] = Begun(r, s)]
  <2> DEFINE h == history[s] \o <<Msg("user", r, 0)>>
  <2>1. <<Msg("user", r, 0)>> \in Lists /\ Msg("user", r, 0) \in Msgs
    BY MsgIs
  <2>2. Append(history[s], Msg("user", r, 0)) = h
    BY <1>1, <2>1, AppendIsConcat DEF Lists
  <2>3. h \in Lists
    BY <1>1, <2>1, Joined
  <2>4. Good /\ Turns(s) = {} => WellFormed(h)
    BY <1>1, <1>3, ProseKeeps
  <2> HIDE DEF h
  <2>5. /\ history' \in [Session -> Lists] /\ history'[s] = h
        /\ \A x \in Session \ {s} : history'[x] = history[x]
    BY <1>1, <1>4, <2>2, <2>3
  <2>6. /\ Begun(r, s) \in Reqs /\ Begun(r, s).at = "thinking"
        /\ Begun(r, s).s = s /\ Begun(r, s).own
    BY <1>1, BegunIs
  <2>7. QED
    BY <1>1, <1>2, <1>4, <2>4, <2>5, <2>6, BeginsKeep
<1>5. CASE /\ req' = [req EXCEPT ![r] = [Idle EXCEPT !.s = s, !.at = "compacting",
                                           !.tail = Compacted(history[s], KeepTail)]]
           /\ history' = history
  <2> DEFINE t == Compacted(history[s], KeepTail)
             next == [Idle EXCEPT !.s = s, !.at = "compacting", !.tail = t]
  <2>1. req' = [req EXCEPT ![r] = next]
    BY <1>5
  <2>2. Good /\ Turns(s) = {} => WellFormed(t)
    BY <1>1, <1>3, SummaryFits, ScribeAssumption
  <2>3. t \in Lists
    BY <1>1, CompactedIs, ScribeAssumption
  <2> HIDE DEF t
  <2>4. /\ next \in Reqs /\ next.at = "compacting" /\ next.s = s /\ next.own /\ next.tail = t
    BY <1>1, <2>3, RecordsAre DEF Reqs, States, TurnStates
  <2> HIDE DEF next
  <2>5. QED
    BY <1>1, <1>2, <1>3, <1>5, <2>1, <2>2, <2>4, BeginsKeep
<1>6. QED
  BY <1>4, <1>5 DEF Message

LEMMA OpenCreateStep ==
    ASSUME Inv, NEW s \in Session, OpenCreate(s)
    PROVE  Inv'
<1>1. /\ TypeInv /\ history' = history /\ req' = req /\ file' = file /\ cutShort' = cutShort
      /\ mode' = [mode EXCEPT ![s] = "create"] /\ live' = live \cup {s}
  BY DEF Inv, OpenCreate
<1>2. \A x \in Session : mode[x] # "none" => mode'[x] # "none"
  BY <1>1 DEF TypeInv
<1>3. mode'[s] # "none" /\ mode' = [x \in Session |-> mode'[x]]
  BY <1>1 DEF TypeInv
<1>4. TypeInv'
  BY <1>1, <1>2, <1>3 DEF TypeInv
<1>5. Good => Good'
  BY <1>1 DEF Good, Lone, Resting, Sounds, Tails, List
<1>6. Resumed' = Resumed
  BY <1>1 DEF Resumed
<1>7. QED
  BY <1>1, <1>4, <1>5, <1>6 DEF Inv

LEMMA OpenEditStep ==
    ASSUME Inv, NEW s \in Session, OpenEdit(s)
    PROVE  Inv'
<1>1. /\ TypeInv /\ req' = req /\ file' = file /\ cutShort' = cutShort
      /\ mode' = [mode EXCEPT ![s] = "edit"] /\ live' = live \cup {s} /\ mode[s] = "none"
      /\ history' = [history EXCEPT ![s] = Resumed]
  BY DEF Inv, OpenEdit
<1>2. \A x \in Session : mode[x] # "none" => mode'[x] # "none"
  BY <1>1 DEF TypeInv
<1>3. mode'[s] # "none" /\ mode' = [x \in Session |-> mode'[x]]
  BY <1>1 DEF TypeInv
<1>4. Resumed \in Lists
  BY <1>1, NothingSaid DEF Resumed, TypeInv
<1>5. /\ history' \in [Session -> Lists] /\ history'[s] = Resumed
      /\ \A x \in Session \ {s} : history'[x] = history[x]
  BY <1>1, <1>4 DEF TypeInv
<1>6. TypeInv'
  BY <1>1, <1>2, <1>3, <1>5 DEF TypeInv
<1>7. Resumed' = Resumed
  BY <1>1 DEF Resumed
<1>8. ASSUME Good, WellFormed(Resumed) PROVE Good'
  <2>1. Lone' /\ Tails'
    BY <1>1, <1>8 DEF Good, Lone, Tails
  <2>2. Resting'
    BY <1>1, <1>5, <1>8 DEF Good, Resting
  <2>3. Sounds'
    <3> SUFFICES ASSUME NEW q \in Request
                 PROVE  Sound(req'[q].at, req'[q].calls, List(q)', q)
      BY DEF Sounds
    <3>1. CASE req[q].at \in TurnStates
      <4>1. req[q].s \in Session /\ req[q].s # s
        BY <1>1, <3>1 DEF TypeInv
      <4>2. List(q)' = List(q)
        BY <1>1, <1>5, <4>1 DEF List
      <4>3. QED
        BY <1>1, <1>8, <4>2 DEF Good, Sounds
    <3>2. CASE req[q].at \notin TurnStates
      BY <1>1, <3>2 DEF Sound, TurnStates
    <3>3. QED
      BY <3>1, <3>2
  <2>4. QED
    BY <2>1, <2>2, <2>3 DEF Good
<1>9. QED
  BY <1>1, <1>6, <1>7, <1>8 DEF Inv

LEMMA ApproveStep ==
    ASSUME Inv, NEW s \in Session, Approve(s)
    PROVE  Inv'
<1>1. /\ TypeInv /\ history' = history /\ req' = req /\ mode' = mode /\ live' = live
      /\ file' = history[s] /\ cutShort' = (cutShort \/ Amid(s))
  BY DEF Inv, Approve
<1>2. history[s] \in Lists
  BY <1>1 DEF TypeInv
<1>3. TypeInv'
  BY <1>1, <1>2 DEF TypeInv
<1>4. Good => Good'
  BY <1>1 DEF Good, Lone, Resting, Sounds, Tails, List
<1>5. ASSUME Good, ~Amid(s) PROVE WellFormed(history[s])
  <2>1. ASSUME NEW r \in Request PROVE ~(req[r].at = "acting" /\ req[r].own /\ req[r].s = s)
    BY <1>1, <1>5, TurnsAre DEF Amid, TurnStates
  <2>2. QED
    BY <1>5, <2>1 DEF Good, Resting
<1>6. WellFormed(history[s]) => WellFormed(Resumed')
  BY <1>1, NothingSaid DEF Resumed
<1>7. QED
  BY <1>1, <1>3, <1>4, <1>5, <1>6 DEF Inv

LEMMA HistoryDeleteStep ==
    ASSUME Inv, HistoryDelete
    PROVE  Inv'
<1>1. /\ TypeInv /\ history' = history /\ req' = req /\ mode' = mode /\ live' \subseteq live
      /\ file' = None /\ cutShort' = cutShort
  BY DEF Inv, HistoryDelete
<1>2. TypeInv'
  BY <1>1 DEF TypeInv
<1>3. Good => Good'
  BY <1>1 DEF Good, Lone, Resting, Sounds, Tails, List
<1>4. WellFormed(Resumed')
  BY <1>1, NothingSaid DEF Resumed
<1>5. QED
  BY <1>1, <1>2, <1>3, <1>4 DEF Inv

\* what touches no conversation
LEMMA ElsewhereStep ==
    ASSUME Inv, UNCHANGED <<mode, live, history, file, req, cutShort>>
    PROVE  Inv'
<1>1. /\ TypeInv /\ history' = history /\ req' = req /\ mode' = mode /\ live' = live
      /\ file' = file /\ cutShort' = cutShort
  BY DEF Inv
<1>2. TypeInv'
  BY <1>1 DEF TypeInv
<1>3. Good => Good'
  BY <1>1 DEF Good, Lone, Resting, Sounds, Tails, List
<1>4. Resumed' = Resumed
  BY <1>1 DEF Resumed
<1>5. QED
  BY <1>1, <1>2, <1>3, <1>4 DEF Inv

LEMMA RestartStep ==
    ASSUME Inv, Restart
    PROVE  Inv'
<1> DEFINE over == [Idle EXCEPT !.at = "over"]
<1>1. /\ TypeInv /\ mode' = mode /\ live' = {} /\ file' = file /\ cutShort' = cutShort
      /\ history' = [s \in Session |-> <<>>]
      /\ req' = [r \in Request |-> IF Active(r) THEN over ELSE req[r]]
  BY DEF Inv, Restart
<1>2. over \in Reqs /\ over.at = "over"
  BY RecordsAre
<1> HIDE DEF over
<1>3. ASSUME NEW r \in Request
      PROVE  req'[r] \in Reqs /\ req'[r].at \notin TurnStates \cup {"summarizing"}
  <2>1. CASE Active(r)
    BY <1>1, <1>2, <2>1 DEF TurnStates
  <2>2. CASE ~Active(r)
    BY <1>1, <2>2, ReqIs
  <2>3. QED
    BY <2>1, <2>2
<1>4. req' \in [Request -> Reqs]
  BY <1>1, <1>3
<1>5. \A r \in Request : req'[r].at \notin {"thinking", "compacting", "acting", "limit", "ended",
                                           "summarizing"}
  BY <1>3 DEF TurnStates
<1>6. TypeInv'
  BY <1>1, <1>4, <1>5, NothingSaid DEF TypeInv, TurnStates
<1>7. Good'
  BY <1>1, <1>5, NothingSaid DEF Good, Lone, Resting, Sounds, Sound, Tails, TurnStates
<1>8. Resumed' = Resumed
  BY <1>1 DEF Resumed
<1>9. QED
  BY <1>1, <1>6, <1>7, <1>8 DEF Inv

-----------------------------------------------------------------------------
(* The theorem.                                                            *)

LEMMA InvStarts == Init => Inv
<1> SUFFICES ASSUME Init PROVE Inv
  OBVIOUS
<1>1. \A r \in Request : req[r] = Idle
  BY DEF Init
<1>2. Idle \in Reqs /\ Idle.at = "idle"
  BY RecordsAre DEF Idle
<1>3. TypeInv
  BY <1>1, <1>2, NothingSaid DEF Init, TypeInv, TurnStates
<1>4. Good
  BY <1>1, <1>2, NothingSaid DEF Init, Good, Lone, Resting, Sounds, Sound, Tails, TurnStates
<1>5. WellFormed(Resumed)
  BY NothingSaid DEF Init, Resumed
<1>6. QED
  BY <1>3, <1>4, <1>5 DEF Inv

LEMMA InvKept == Inv /\ [Next]_vars => Inv'
<1> SUFFICES ASSUME Inv, [Next]_vars PROVE Inv'
  OBVIOUS
<1>1. ASSUME NEW s \in Session, OpenCreate(s) \/ OpenEdit(s) \/ Approve(s) PROVE Inv'
  BY <1>1, OpenCreateStep, OpenEditStep, ApproveStep
<1>2. ASSUME NEW r \in Request, NEW s \in Session, Message(r, s) PROVE Inv'
  BY <1>2, MessageStep
<1>3. ASSUME NEW r \in Request, TurnStep(r) PROVE Inv'
  <2>1. RunsCall(r) => Inv'
    BY CallAnswered DEF RunsCall
  <2>2. Writes(r) => Inv'
    BY CallAnswered DEF Writes
  <2>3. QED
    BY <1>3, <2>1, <2>2, ShortenedStep, ProseStep, CallsToolsStep, EndsTurnStep, StepLimitStep,
       SaveStep, SummarizedStep DEF TurnStep
<1>4. ASSUME NEW r \in Request, Dies(r) \/ Summarize(r) PROVE Inv'
  BY <1>4, DiesStep, SummarizeStep
<1>5. HistoryDelete \/ Restart => Inv'
  BY HistoryDeleteStep, RestartStep
<1>6. EditorWrites \/ Revert => Inv'
  BY ElsewhereStep DEF EditorWrites, Revert
<1>7. UNCHANGED vars => Inv'
  BY ElsewhereStep DEF vars
<1>8. QED
  BY <1>1, <1>2, <1>3, <1>4, <1>5, <1>6, <1>7 DEF Next

\* Whatever sessions, turns, summaries, approvals, deletions and restarts do, the model is
\* only asked to continue a conversation whose tool calls are all answered in place, as
\* long as no turn is cut off or approved among its calls and none overlap
\* (loop.py:114-119, history.py:149-151, service.py:90-91).
THEOREM ConversationsWellFormed == Spec => []AskedWellFormed
<1>1. Inv => AskedWellFormed
  <2> SUFFICES ASSUME Inv, ~cutShort, NEW r \in Request, Thinking(r) PROVE WellFormed(List(r))
    BY DEF AskedWellFormed
  <2>1. Sound(req[r].at, req[r].calls, List(r), r)
    BY DEF Inv, Good, Sounds
  <2>2. QED
    BY <2>1 DEF Sound, Thinking
<1>2. QED
  BY <1>1, InvStarts, InvKept, PTL DEF Spec

=============================================================================
