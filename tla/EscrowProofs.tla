----------------------------- MODULE EscrowProofs -----------------------------
(***************************************************************************)
(* Proofs about Escrow for every roster, set of payloads, number of calls  *)
(* in flight, restarts and failed appends: the memory covers the           *)
(* chronicle, who was told of a seal is counted, and the audited record is *)
(* that of SealedBox.                                                      *)
(***************************************************************************)
EXTENDS Escrow, FiniteSetTheorems, TLAPS

-----------------------------------------------------------------------------
(* The inductive invariant.  While nothing is loaded nothing is appended,  *)
(* so that what one load reads is the chronicle when the memory is filled  *)
(* from it; once it is, a load still under way brings nothing new.         *)

Typed ==
    /\ {loaded, revealed} \subseteq BOOLEAN
    /\ sealed \in Shows /\ reveals \subseteq Shows /\ acked \in Shows
    /\ marks \in [Players -> SUBSET Payloads]
    /\ pc \in [Slots -> Awaits] /\ tool \in [Slots -> Tools]
    /\ arg = [s \in Slots |-> arg[s]] /\ held \in [Slots -> Shows]
    /\ rows \in [Slots -> [Players -> SUBSET Payloads]] /\ closed \in [Slots -> BOOLEAN]

Submits(s) == tool[s] = "submit" => Owner[s] \in Players /\ arg[s] \in Payloads

\* the durable seals are in memory
Covered == \A a \in Players : marks[a] # {} => marks[a] = {sealed[a]}

\* a durable reveal agrees with the seals, durable or in memory
RevealAgrees ==
    \A m \in reveals, a \in Players : /\ sealed[a] # None => m[a] = sealed[a]
                                      /\ marks[a] # {} => marks[a] = {m[a]}

\* before the load ends, the memory is the part of the chronicle read so far
Unloaded ==
    /\ revealed = FALSE
    /\ \A a \in Players : sealed[a] # None => marks[a] = {sealed[a]}
    /\ \A s \in Slots : /\ pc[s] \notin {"marker", "opening", "outcome"}
                        /\ pc[s] = "merge" => rows[s] = marks
                        /\ pc[s] \in {"reveals", "enter"} => Covered
                        /\ pc[s] = "enter" => (closed[s] <=> reveals # {})

\* afterwards it covers the chronicle, and a late load brings nothing that is new
Loaded ==
    /\ Covered
    /\ reveals # {} => revealed = TRUE
    /\ \A s \in Slots : /\ pc[s] = "merge" => \A a \in Players : rows[s][a] \subseteq marks[a]
                        /\ pc[s] = "enter" /\ closed[s] = TRUE => revealed = TRUE

\* an append under way brings what the memory holds, and no other brings it too
Appending ==
    /\ \A s \in Slots :
          /\ pc[s] = "marker" => /\ tool[s] = "submit" /\ marks[Owner[s]] = {}
                                 /\ sealed[Owner[s]] = arg[s]
          /\ pc[s] \in {"opening", "outcome"} => revealed = TRUE /\ held[s] = sealed
          /\ pc[s] = "opening" => reveals = {}
    /\ \A s, t \in Slots :
          /\ pc[s] = "marker" /\ pc[t] = "marker" /\ Owner[s] = Owner[t] => s = t
          /\ pc[s] = "opening" /\ pc[t] = "opening" => s = t

EscrowInv ==
    /\ Typed
    /\ \A s \in Slots : Submits(s)
    /\ \A a \in Players, p, q \in Payloads : p \in marks[a] /\ q \in marks[a] => p = q
    /\ RevealAgrees
    /\ loaded = FALSE => Unloaded
    /\ loaded = TRUE => Loaded
    /\ Appending
    /\ \A a \in Players : acked[a] # None => marks[a] = {acked[a]}

-----------------------------------------------------------------------------
(* One call moves and nothing it shares with the others changes.           *)

OthersStay(s) ==
    \A t \in Slots \ {s} :
        /\ pc'[t] = pc[t] /\ tool'[t] = tool[t] /\ arg'[t] = arg[t]
        /\ rows'[t] = rows[t] /\ closed'[t] = closed[t] /\ held'[t] = held[t]

CallsTyped ==
    /\ pc \in [Slots -> Awaits] /\ tool \in [Slots -> Tools]
    /\ arg = [s \in Slots |-> arg[s]] /\ held \in [Slots -> Shows]
    /\ rows \in [Slots -> [Players -> SUBSET Payloads]] /\ closed \in [Slots -> BOOLEAN]

\* what the invariant asks of one call that is not about to append
SlotOK(s) ==
    /\ Submits(s)
    /\ pc[s] \notin {"marker", "opening"}
    /\ loaded = FALSE => /\ pc[s] # "outcome"
                         /\ pc[s] = "merge" => rows[s] = marks
                         /\ pc[s] \in {"reveals", "enter"} => Covered
                         /\ pc[s] = "enter" => (closed[s] <=> reveals # {})
    /\ loaded = TRUE  => /\ pc[s] = "merge" => \A a \in Players : rows[s][a] \subseteq marks[a]
                         /\ pc[s] = "enter" /\ closed[s] = TRUE => revealed = TRUE
    /\ pc[s] = "outcome" => revealed = TRUE /\ held[s] = sealed

LEMMA Moves ==
    ASSUME EscrowInv, NEW s \in Slots, OthersStay(s), CallsTyped', SlotOK(s)',
           loaded' = loaded, sealed' = sealed, revealed' = revealed,
           marks' = marks, reveals' = reveals, acked' = acked
    PROVE  EscrowInv'
<1>1. Typed'
  BY DEF EscrowInv, Typed, CallsTyped
<1>2. \A t \in Slots : Submits(t)'
  BY DEF EscrowInv, OthersStay, SlotOK, Submits
<1>3. RevealAgrees' /\ (Covered <=> Covered')
  BY DEF EscrowInv, RevealAgrees, Covered
<1>4. loaded' = FALSE => Unloaded'
  BY <1>3 DEF EscrowInv, Unloaded, OthersStay, SlotOK
<1>5. loaded' = TRUE => Loaded'
  BY <1>3 DEF EscrowInv, Loaded, OthersStay, SlotOK
<1>6. Appending'
  BY DEF EscrowInv, Appending, OthersStay, SlotOK
<1>7. /\ \A a \in Players, p, q \in Payloads : p \in marks'[a] /\ q \in marks'[a] => p = q
      /\ \A a \in Players : acked'[a] # None => marks'[a] = {acked'[a]}
  BY DEF EscrowInv
<1>8. QED
  BY ONLY <1>1, <1>2, <1>3, <1>4, <1>5, <1>6, <1>7 DEF EscrowInv

\* a call that ends
LEMMA EndsFacts ==
    ASSUME Typed, NEW s \in Slots, Ends(s)
    PROVE  /\ OthersStay(s) /\ CallsTyped'
           /\ pc'[s] = "idle" /\ tool'[s] = "status" /\ Submits(s)'
<1>1. Nothing \in Shows /\ Blank \in [Players -> SUBSET Payloads]
  BY DEF Nothing, Shows, Blank
<1>2. pc'[s] = "idle" /\ tool'[s] = "status"
  BY DEF Typed, Ends, Goes
<1>3. OthersStay(s)
  BY DEF Typed, Ends, Goes, OthersStay
<1>4. CallsTyped'
  BY <1>1 DEF Typed, Ends, Goes, CallsTyped, Awaits, Tools
<1>5. QED
  BY <1>2, <1>3, <1>4 DEF Submits

LEMMA EndsInv ==
    ASSUME EscrowInv, NEW s \in Slots, Ends(s),
           loaded' = loaded, sealed' = sealed, revealed' = revealed,
           marks' = marks, reveals' = reveals, acked' = acked
    PROVE  EscrowInv'
<1>1. OthersStay(s) /\ CallsTyped' /\ pc'[s] = "idle" /\ Submits(s)'
  BY EndsFacts DEF EscrowInv
<1>2. SlotOK(s)'
  BY <1>1 DEF SlotOK
<1>3. QED
  BY <1>1, <1>2, Moves

LEMMA CallInv == ASSUME EscrowInv, NEW s \in Slots, Call(s) PROVE EscrowInv'
<1>1. /\ pc' = [pc EXCEPT ![s] = "begin"] /\ UNCHANGED <<rows, closed, held>>
      /\ loaded' = loaded /\ sealed' = sealed /\ revealed' = revealed
      /\ marks' = marks /\ reveals' = reveals /\ acked' = acked
  BY DEF Call, Goes, memory, chron, history
<1>2. PICK t \in Tools : Asks(s, t) /\ tool' = [tool EXCEPT ![s] = t]
  BY DEF Call
<1>3. PICK x : arg' = [arg EXCEPT ![s] = x] /\ (t = "submit" => Owner[s] # Referee /\ x \in Payloads)
  BY <1>2 DEF Asks
<1>4. OthersStay(s)
  BY <1>1, <1>2, <1>3 DEF EscrowInv, Typed, OthersStay
<1>5. CallsTyped'
  BY <1>1, <1>2, <1>3 DEF EscrowInv, Typed, CallsTyped, Awaits
<1>6. pc'[s] = "begin" /\ tool'[s] = t /\ arg'[s] = x
  BY <1>1, <1>2, <1>3 DEF EscrowInv, Typed
<1>7. t = "submit" => Owner[s] \in Players
  BY <1>3, EscrowAssumption DEF EscrowAssumption
<1>8. SlotOK(s)'
  BY <1>3, <1>6, <1>7 DEF SlotOK, Submits
<1>9. QED
  BY <1>1, <1>4, <1>5, <1>8, Moves

LEMMA ReadSealsInv == ASSUME EscrowInv, NEW s \in Slots, ReadSeals(s) PROVE EscrowInv'
<1>1. /\ pc' = [pc EXCEPT ![s] = "merge"] /\ rows' = [rows EXCEPT ![s] = marks]
      /\ UNCHANGED <<tool, arg, closed, held>>
      /\ loaded' = loaded /\ sealed' = sealed /\ revealed' = revealed
      /\ marks' = marks /\ reveals' = reveals /\ acked' = acked
  BY DEF ReadSeals, Goes, memory, chron, history
<1>2. OthersStay(s)
  BY <1>1 DEF EscrowInv, Typed, OthersStay
<1>3. CallsTyped'
  BY <1>1 DEF EscrowInv, Typed, CallsTyped, Awaits
<1>4. pc'[s] = "merge" /\ rows'[s] = marks
  BY <1>1 DEF EscrowInv, Typed
<1>5. Submits(s)'
  BY <1>1 DEF EscrowInv, Submits
<1>6. SlotOK(s)'
  BY <1>1, <1>4, <1>5 DEF SlotOK
<1>7. QED
  BY <1>1, <1>2, <1>3, <1>6, Moves

LEMMA ReadRevealsInv == ASSUME EscrowInv, NEW s \in Slots, ReadReveals(s) PROVE EscrowInv'
<1>1. /\ pc' = [pc EXCEPT ![s] = "enter"] /\ closed' = [closed EXCEPT ![s] = (reveals # {})]
      /\ UNCHANGED <<tool, arg, rows, held>> /\ pc[s] = "reveals"
      /\ loaded' = loaded /\ sealed' = sealed /\ revealed' = revealed
      /\ marks' = marks /\ reveals' = reveals /\ acked' = acked
  BY DEF ReadReveals, Goes, memory, chron, history
<1>2. OthersStay(s)
  BY <1>1 DEF EscrowInv, Typed, OthersStay
<1>3. CallsTyped'
  BY <1>1 DEF EscrowInv, Typed, CallsTyped, Awaits
<1>4. pc'[s] = "enter" /\ closed'[s] = (reveals # {})
  BY <1>1 DEF EscrowInv, Typed
<1>5. Submits(s)'
  BY <1>1 DEF EscrowInv, Submits
<1>6. loaded = FALSE => Covered'
  BY <1>1 DEF EscrowInv, Unloaded, Covered
<1>7. loaded = TRUE => (reveals # {} => revealed = TRUE)
  BY DEF EscrowInv, Loaded
<1>8. SlotOK(s)'
  BY <1>1, <1>4, <1>5, <1>6, <1>7 DEF SlotOK
<1>9. QED
  BY <1>1, <1>2, <1>3, <1>8, Moves

-----------------------------------------------------------------------------
(* Payloads that come back to a tool, and appends that change no record of *)
(* the round.                                                              *)

LEMMA GivenFacts ==
    ASSUME Typed, NEW s \in Slots, NEW m \in Shows, Given(s, m)
    PROVE  /\ OthersStay(s) /\ CallsTyped' /\ Submits(s)'
           /\ pc'[s] \in {"idle", "outcome"}
           /\ pc'[s] = "outcome" => held'[s] = m
           /\ shown' \in {shown, m}
<1>1. CASE tool[s] = "tally" /\ Outcome(arg[s], m) # Error
  <2>1. /\ held' = [held EXCEPT ![s] = m] /\ pc' = [pc EXCEPT ![s] = "outcome"]
        /\ UNCHANGED <<shown, tool, arg, rows, closed>>
    BY <1>1 DEF Given, Goes
  <2>2. OthersStay(s)
    BY <2>1 DEF Typed, OthersStay
  <2>3. CallsTyped'
    BY <2>1 DEF Typed, CallsTyped, Awaits
  <2>4. pc'[s] = "outcome" /\ held'[s] = m /\ tool'[s] = "tally"
    BY <1>1, <2>1 DEF Typed
  <2>5. QED
    BY <2>1, <2>2, <2>3, <2>4 DEF Submits
<1>2. CASE ~(tool[s] = "tally" /\ Outcome(arg[s], m) # Error)
  <2>1. Ends(s) /\ shown' \in {shown, m}
    BY <1>2 DEF Given
  <2>2. QED
    BY <2>1, EndsFacts
<1>3. QED
  BY <1>1, <1>2

\* a closed round is answered from memory
LEMMA GivenInv ==
    ASSUME EscrowInv, NEW s \in Slots, revealed = TRUE, Given(s, sealed),
           loaded' = loaded, sealed' = sealed, revealed' = revealed,
           marks' = marks, reveals' = reveals, acked' = acked
    PROVE  EscrowInv'
<1>1. Typed /\ sealed \in Shows
  BY DEF EscrowInv, Typed
<1>2. /\ OthersStay(s) /\ CallsTyped' /\ Submits(s)' /\ pc'[s] \in {"idle", "outcome"}
      /\ pc'[s] = "outcome" => held'[s] = sealed
  BY <1>1, GivenFacts
<1>3. loaded # FALSE
  BY DEF EscrowInv, Unloaded
<1>4. SlotOK(s)'
  BY <1>2, <1>3 DEF SlotOK
<1>5. QED
  BY <1>2, <1>4, Moves

LEMMA OutcomeLandsInv ==
    ASSUME EscrowInv, NEW s \in Slots, OutcomeLands(s) PROVE EscrowInv'
  BY EndsInv DEF OutcomeLands, memory

LEMMA AppendFailsInv ==
    ASSUME EscrowInv, NEW s \in Slots, AppendFails(s) PROVE EscrowInv'
  BY EndsInv DEF AppendFails, memory, chron, history

-----------------------------------------------------------------------------
(* Loading.                                                                *)

\* the markers read are merged: nothing changes when the memory is loaded already,
\* and otherwise the memory covers the markers afterwards
LEMMA MergeSealsInv == ASSUME EscrowInv, NEW s \in Slots, MergeSeals(s) PROVE EscrowInv'
<1>1. /\ pc[s] = "merge" /\ pc' = [pc EXCEPT ![s] = "reveals"]
      /\ sealed' = Merged(rows[s]) /\ rows' = [rows EXCEPT ![s] = Blank]
      /\ UNCHANGED <<tool, arg, closed, held>>
      /\ loaded' = loaded /\ revealed' = revealed
      /\ marks' = marks /\ reveals' = reveals /\ acked' = acked
  BY DEF MergeSeals, Goes, chron, history
<1>2. Blank \in [Players -> SUBSET Payloads]
  BY DEF Blank
<1>3. OthersStay(s)
  BY <1>1 DEF EscrowInv, Typed, OthersStay
<1>4. CallsTyped'
  BY <1>1, <1>2 DEF EscrowInv, Typed, CallsTyped, Awaits
<1>5. pc'[s] = "reveals"
  BY <1>1 DEF EscrowInv, Typed
<1>6. Submits(s)'
  BY <1>1 DEF EscrowInv, Submits
<1>7. \A a \in Players : marks[a] \subseteq Payloads /\ None \notin marks[a]
  BY EscrowAssumption DEF EscrowAssumption, EscrowInv, Typed
<1>8. CASE loaded = TRUE
  <2>1. \A a \in Players : rows[s][a] \subseteq marks[a]
    BY <1>1, <1>8 DEF EscrowInv, Loaded
  <2>2. \A a \in Players : marks[a] # {} => marks[a] = {sealed[a]}
    BY <1>8 DEF EscrowInv, Loaded, Covered
  <2>3. \A a \in Players : ~(sealed[a] = None /\ rows[s][a] # {})
    BY <1>7, <2>1, <2>2
  <2>4. sealed' = [a \in Players |-> sealed[a]]
    BY <1>1, <2>3 DEF Merged
  <2>5. sealed' = sealed
    BY <2>4 DEF EscrowInv, Typed, Shows
  <2>6. SlotOK(s)'
    BY <1>1, <1>5, <1>6, <1>8 DEF SlotOK
  <2>7. QED
    BY <1>1, <1>3, <1>4, <2>5, <2>6, Moves
<1>9. CASE loaded = FALSE
  <2>1. Unloaded /\ rows[s] = marks
    BY <1>1, <1>9 DEF EscrowInv, Unloaded
  <2>2. \A a \in Players : sealed'[a] = IF sealed[a] = None /\ marks[a] # {}
                                        THEN CHOOSE p \in marks[a] : TRUE ELSE sealed[a]
    BY <1>1, <2>1 DEF Merged
  <2>3. \A a \in Players : sealed[a] # None => marks[a] = {sealed[a]}
    BY <2>1 DEF Unloaded
  <2>4. ASSUME NEW a \in Players, marks[a] # {} PROVE marks[a] = {sealed'[a]}
    <3>1. CASE sealed[a] = None
      <4>1. sealed'[a] \in marks[a]
        BY <2>2, <2>4, <3>1
      <4>2. \A p, q \in marks[a] : p = q
        BY <1>7 DEF EscrowInv
      <4>3. QED
        BY ONLY <4>1, <4>2
    <3>2. CASE sealed[a] # None
      BY <2>2, <2>3, <3>2
    <3>3. QED
      BY <3>1, <3>2
  <2>5. \A a \in Players : sealed'[a] # None => marks[a] # {}
    BY <2>2, <2>3
  <2>6. Covered'
    BY <1>1, <2>4 DEF Covered
  <2>7. sealed' \in Shows
    <3>1. sealed' = [a \in Players |-> sealed'[a]]
      BY <1>1 DEF Merged
    <3>2. \A a \in Players : sealed'[a] \in Payloads \cup {None}
      <4> SUFFICES ASSUME NEW a \in Players, sealed'[a] # None
                   PROVE  sealed'[a] \in Payloads
        OBVIOUS
      <4>1. marks[a] = {sealed'[a]}
        BY <2>4, <2>5
      <4>2. QED
        BY <1>7, <4>1
    <3>3. QED
      BY ONLY <3>1, <3>2 DEF Shows
  <2>8. Typed'
    BY <1>1, <1>4, <2>7 DEF EscrowInv, Typed, CallsTyped
  <2>9. \A t \in Slots : Submits(t)'
    BY <1>3, <1>6 DEF EscrowInv, OthersStay, Submits
  <2>10. RevealAgrees'
    BY <1>1, <2>4, <2>5 DEF EscrowInv, RevealAgrees
  <2>11. Unloaded'
    <3>1. \A a \in Players : sealed'[a] # None => marks'[a] = {sealed'[a]}
      BY <1>1, <2>4, <2>5
    <3>2. QED
      BY <1>1, <1>3, <1>5, <2>1, <2>6, <3>1 DEF Unloaded, OthersStay
  <2>12. Appending'
    BY <1>1, <1>3, <1>5, <2>1 DEF Unloaded, Appending, OthersStay
  <2>13. QED
    BY <1>1, <1>9, <2>8, <2>9, <2>10, <2>11, <2>12 DEF EscrowInv
<1>10. QED
  BY <1>8, <1>9 DEF EscrowInv, Typed

-----------------------------------------------------------------------------
(* A call that runs on: r is what it takes the round to be.                *)

LEMMA EnterInv ==
    ASSUME EscrowInv, NEW s \in Slots, pc[s] \in {"begin", "enter"}, Covered,
           NEW r \in BOOLEAN, revealed = TRUE => r = TRUE, reveals # {} => r = TRUE,
           loaded = TRUE => r = revealed, loaded' = TRUE, Enter(s, sealed, r),
           marks' = marks, reveals' = reveals, acked' = acked
    PROVE  EscrowInv'
<1>1. /\ \A t \in Slots : pc[t] = "merge" => \A a \in Players : rows[t][a] \subseteq marks[a]
      /\ \A t \in Slots : pc[t] = "enter" /\ closed[t] = TRUE => r = TRUE
  <2>1. CASE loaded = TRUE
    BY <2>1 DEF EscrowInv, Loaded
  <2>2. CASE loaded = FALSE
    BY <2>2 DEF EscrowInv, Unloaded
  <2>3. QED
    BY <2>1, <2>2 DEF EscrowInv, Typed
<1>2. Typed /\ Submits(s)
  BY DEF EscrowInv
<1>3. ASSUME Ends(s), sealed' = sealed, revealed' = r PROVE EscrowInv'
  <2>1. OthersStay(s) /\ CallsTyped' /\ pc'[s] = "idle" /\ Submits(s)'
    BY <1>2, <1>3, EndsFacts
  <2>2. Typed'
    BY <1>2, <1>3, <2>1 DEF Typed, CallsTyped
  <2>3. \A t \in Slots : Submits(t)'
    BY <2>1 DEF EscrowInv, OthersStay, Submits
  <2>4. RevealAgrees' /\ Covered'
    BY <1>3 DEF EscrowInv, RevealAgrees, Covered
  <2>5. Loaded'
    BY <1>1, <1>3, <2>1, <2>4 DEF Loaded, OthersStay
  <2>6. Appending'
    BY <1>3, <2>1 DEF EscrowInv, Appending, OthersStay
  <2>7. QED
    BY <2>2, <2>3, <2>4, <2>5, <2>6 DEF EscrowInv
<1>4. CASE Submit(s, sealed, r)
  <2> DEFINE a == Owner[s]
  <2>1. CASE r \/ sealed[a] # None
    BY <1>3, <1>4, <2>1 DEF Submit
  <2>2. CASE ~(r \/ sealed[a] # None)
    <3>1. /\ sealed' = [sealed EXCEPT ![a] = arg[s]] /\ revealed' = FALSE
          /\ pc' = [pc EXCEPT ![s] = "marker"] /\ UNCHANGED <<tool, arg, rows, closed, held>>
          /\ tool[s] = "submit" /\ r = FALSE /\ sealed[a] = None
      BY <1>4, <2>2 DEF Submit, Goes
    <3>2. a \in Players /\ arg[s] \in Payloads /\ arg[s] # None
      BY <1>2, <3>1, EscrowAssumption DEF Submits, EscrowAssumption
    <3>3. revealed = FALSE /\ reveals = {}
      BY <1>2, <3>1 DEF Typed
    <3>4. marks[a] = {}
      BY <1>2, <3>1, <3>2, EscrowAssumption DEF Covered, Typed, EscrowAssumption
    <3>5. /\ sealed' \in Shows /\ sealed'[a] = arg[s]
          /\ \A x \in Players \ {a} : sealed'[x] = sealed[x]
      BY <1>2, <3>1, <3>2 DEF Typed, Shows
    <3>6. OthersStay(s) /\ pc'[s] = "marker"
      BY <1>2, <3>1 DEF Typed, OthersStay
    <3>7. Typed'
      BY <1>2, <3>1, <3>5 DEF Typed, Awaits
    <3>8. \A t \in Slots : Submits(t)'
      BY <3>1 DEF EscrowInv, Submits
    <3>9. Covered' /\ RevealAgrees'
      BY <3>3, <3>4, <3>5 DEF Covered, RevealAgrees
    <3>10. Loaded'
      BY <1>1, <3>1, <3>3, <3>6, <3>9 DEF Loaded, OthersStay
    <3>11. \A t \in Slots : pc[t] \notin {"opening", "outcome"}
      BY <3>3 DEF EscrowInv, Appending
    <3>12. \A t \in Slots : pc[t] = "marker" =>
              /\ tool[t] = "submit" /\ marks[Owner[t]] = {} /\ sealed[Owner[t]] = arg[t]
              /\ Owner[t] \in Players /\ Owner[t] # a
      BY <3>1, EscrowAssumption DEF EscrowInv, Appending, Submits, EscrowAssumption
    <3>13. \A t \in Slots :
              /\ pc'[t] = "marker" => /\ tool'[t] = "submit" /\ marks'[Owner[t]] = {}
                                      /\ sealed'[Owner[t]] = arg'[t]
              /\ pc'[t] \notin {"opening", "outcome"}
      BY <3>1, <3>4, <3>5, <3>6, <3>11, <3>12 DEF OthersStay
    <3>14. \A t, u \in Slots :
              pc'[t] = "marker" /\ pc'[u] = "marker" /\ Owner[t] = Owner[u] => t = u
      BY <3>6, <3>12 DEF EscrowInv, Appending, OthersStay
    <3>15. Appending'
      BY <3>13, <3>14 DEF Appending
    <3>16. QED
      BY <3>7, <3>8, <3>9, <3>10, <3>15 DEF EscrowInv
  <2>3. QED
    BY <2>1, <2>2
<1>5. CASE Status(s, sealed, r)
  BY <1>3, <1>5 DEF Status
<1>6. CASE Reveal(s, sealed, r)
  <2>1. CASE r
    BY <1>3, <1>6, <2>1 DEF Reveal
  <2>2. CASE ~r
    <3>1. /\ sealed' = sealed /\ revealed' = TRUE /\ tool[s] \in {"reveal", "tally"}
          /\ held' = [held EXCEPT ![s] = sealed] /\ pc' = [pc EXCEPT ![s] = "opening"]
          /\ UNCHANGED <<tool, arg, rows, closed>> /\ r = FALSE
      BY <1>6, <2>2 DEF Reveal, Goes
    <3>2. revealed = FALSE /\ reveals = {}
      BY <1>2, <3>1 DEF Typed
    <3>3. OthersStay(s) /\ pc'[s] = "opening" /\ held'[s] = sealed
      BY <1>2, <3>1 DEF Typed, OthersStay
    <3>4. Typed'
      BY <1>2, <3>1 DEF Typed, Awaits
    <3>5. \A t \in Slots : Submits(t)'
      BY <3>1 DEF EscrowInv, Submits
    <3>6. Covered' /\ RevealAgrees'
      BY <3>1, <3>2 DEF Covered, RevealAgrees
    <3>7. Loaded'
      BY <1>1, <3>1, <3>2, <3>3, <3>6 DEF Loaded, OthersStay
    <3>8. \A t \in Slots : pc[t] \notin {"opening", "outcome"}
      BY <3>2 DEF EscrowInv, Appending
    <3>9. Appending'
      BY <3>1, <3>2, <3>3, <3>8 DEF EscrowInv, Appending, OthersStay
    <3>10. QED
      BY <3>4, <3>5, <3>6, <3>7, <3>9 DEF EscrowInv
  <2>3. QED
    BY <2>1, <2>2
<1>7. QED
  BY <1>4, <1>5, <1>6 DEF Enter

LEMMA LoadEndsInv == ASSUME EscrowInv, NEW s \in Slots, LoadEnds(s) PROVE EscrowInv'
<1>1. /\ pc[s] = "enter" /\ loaded' = TRUE /\ Enter(s, sealed, revealed \/ closed[s])
      /\ marks' = marks /\ reveals' = reveals /\ acked' = acked
  BY DEF LoadEnds, chron, history
<1>2. Covered
  BY <1>1 DEF EscrowInv, Typed, Unloaded, Loaded
<1>3. (revealed \/ closed[s]) \in BOOLEAN /\ (revealed = TRUE => (revealed \/ closed[s]) = TRUE)
  BY DEF EscrowInv, Typed
<1>4. reveals # {} => (revealed \/ closed[s]) = TRUE
  BY <1>1 DEF EscrowInv, Typed, Unloaded, Loaded
<1>5. loaded = TRUE => (revealed \/ closed[s]) = revealed
  BY <1>1 DEF EscrowInv, Typed, Loaded
<1>6. QED
  BY ONLY <1>1, <1>2, <1>3, <1>4, <1>5, EscrowInv, s \in Slots, EnterInv

LEMMA BeginInv == ASSUME EscrowInv, NEW s \in Slots, Begin(s) PROVE EscrowInv'
<1>1. /\ pc[s] = "begin" /\ marks' = marks /\ reveals' = reveals /\ acked' = acked
  BY DEF Begin, chron
<1>2. CASE revealed /\ tool[s] \in {"reveal", "tally"}
  <2>1. Given(s, sealed) /\ loaded' = loaded /\ sealed' = sealed /\ revealed' = revealed
    BY <1>2 DEF Begin, memory
  <2>2. revealed = TRUE
    BY <1>2 DEF EscrowInv, Typed
  <2>3. QED
    BY <1>1, <2>1, <2>2, GivenInv
<1>3. CASE ~(revealed /\ tool[s] \in {"reveal", "tally"}) /\ loaded = TRUE
  <2>1. loaded' = TRUE /\ Enter(s, sealed, revealed)
    BY <1>3 DEF Begin
  <2>2. Covered /\ (reveals # {} => revealed = TRUE) /\ revealed \in BOOLEAN
    BY <1>3 DEF EscrowInv, Typed, Loaded
  <2>3. QED
    BY <1>1, <2>1, <2>2, EnterInv
<1>4. CASE ~(revealed /\ tool[s] \in {"reveal", "tally"}) /\ loaded = FALSE
  <2>1. /\ pc' = [pc EXCEPT ![s] = "seals"] /\ UNCHANGED <<tool, arg, rows, closed, held>>
        /\ loaded' = loaded /\ sealed' = sealed /\ revealed' = revealed
    BY <1>4 DEF Begin, Goes
  <2>2. OthersStay(s)
    BY <2>1 DEF EscrowInv, Typed, OthersStay
  <2>3. CallsTyped'
    BY <2>1 DEF EscrowInv, Typed, CallsTyped, Awaits
  <2>4. pc'[s] = "seals" /\ Submits(s)'
    BY <2>1 DEF EscrowInv, Typed, Submits
  <2>5. SlotOK(s)'
    BY <2>4 DEF SlotOK
  <2>6. QED
    BY <1>1, <2>1, <2>2, <2>3, <2>5, Moves
<1>5. QED
  BY <1>2, <1>3, <1>4 DEF EscrowInv, Typed

-----------------------------------------------------------------------------
(* Appends that change the record of the round, and restarts.              *)

LEMMA MarkerFacts ==
    ASSUME EscrowInv, NEW s \in Slots, MarkerLands(s)
    PROVE  /\ Owner[s] \in Players /\ arg[s] \in Payloads /\ arg[s] # None
           /\ loaded = TRUE /\ sealed[Owner[s]] = arg[s] /\ marks[Owner[s]] = {}
           /\ marks' \in [Players -> SUBSET Payloads] /\ marks'[Owner[s]] = {arg[s]}
           /\ marks' = [marks EXCEPT ![Owner[s]] = {arg[s]}]
           /\ \A a \in Players \ {Owner[s]} : marks'[a] = marks[a]
<1>1. pc[s] = "marker"
  BY DEF MarkerLands
<1>2. tool[s] = "submit" /\ sealed[Owner[s]] = arg[s] /\ marks[Owner[s]] = {}
  BY <1>1 DEF EscrowInv, Appending
<1>3. Owner[s] \in Players /\ arg[s] \in Payloads /\ arg[s] # None
  BY <1>2, EscrowAssumption DEF EscrowInv, Submits, EscrowAssumption
<1>4. loaded = TRUE
  BY <1>1 DEF EscrowInv, Typed, Unloaded
<1>5. marks' = [marks EXCEPT ![Owner[s]] = {arg[s]}]
  BY <1>2 DEF MarkerLands
<1>6. QED
  BY <1>2, <1>3, <1>4, <1>5 DEF EscrowInv, Typed

LEMMA MarkerLandsInv == ASSUME EscrowInv, NEW s \in Slots, MarkerLands(s) PROVE EscrowInv'
<1> DEFINE a == Owner[s]
<1>1. /\ a \in Players /\ arg[s] \in Payloads /\ arg[s] # None
      /\ loaded = TRUE /\ sealed[a] = arg[s] /\ marks[a] = {}
      /\ marks' \in [Players -> SUBSET Payloads] /\ marks'[a] = {arg[s]}
      /\ \A x \in Players \ {a} : marks'[x] = marks[x]
  BY MarkerFacts
<1>2. /\ pc[s] = "marker" /\ acked' = [acked EXCEPT ![a] = arg[s]] /\ Ends(s)
      /\ loaded' = loaded /\ sealed' = sealed /\ revealed' = revealed /\ reveals' = reveals
  BY DEF MarkerLands, memory
<1>3. OthersStay(s) /\ CallsTyped' /\ pc'[s] = "idle" /\ Submits(s)'
  BY <1>2, EndsFacts DEF EscrowInv
<1> HIDE DEF a
<1>4. Typed'
  BY <1>1, <1>2, <1>3 DEF EscrowInv, Typed, CallsTyped, Shows
<1>5. \A t \in Slots : Submits(t)'
  BY <1>3 DEF EscrowInv, OthersStay, Submits
<1>6. Covered'
  BY <1>1, <1>2 DEF EscrowInv, Loaded, Covered
<1>7. RevealAgrees'
  BY <1>1, <1>2 DEF EscrowInv, RevealAgrees
<1>8. Loaded'
  <2>1. \A x \in Players : marks[x] \subseteq marks'[x]
    BY <1>1
  <2>2. QED
    BY <1>1, <1>2, <1>3, <1>6, <2>1 DEF EscrowInv, Loaded, OthersStay
<1>9. Appending'
  <2>1. \A t \in Slots \ {s} : pc[t] = "marker" => Owner[t] \in Players \ {a}
    BY <1>2, EscrowAssumption DEF EscrowInv, Appending, Submits, EscrowAssumption, a
  <2>2. QED
    BY <1>1, <1>2, <1>3, <2>1 DEF EscrowInv, Appending, OthersStay
<1>10. \A x \in Players : acked'[x] # None => marks'[x] = {acked'[x]}
  BY <1>1, <1>2 DEF EscrowInv, Typed, Shows
<1>11. \A x \in Players, p, q \in Payloads : p \in marks'[x] /\ q \in marks'[x] => p = q
  BY <1>1 DEF EscrowInv
<1>12. QED
  BY <1>1, <1>2, <1>4, <1>5, <1>7, <1>8, <1>9, <1>10, <1>11 DEF EscrowInv

LEMMA OpeningLandsInv == ASSUME EscrowInv, NEW s \in Slots, OpeningLands(s) PROVE EscrowInv'
<1>1. /\ pc[s] = "opening" /\ reveals' = reveals \cup {held[s]} /\ Given(s, held[s])
      /\ loaded' = loaded /\ sealed' = sealed /\ revealed' = revealed
      /\ marks' = marks /\ acked' = acked
  BY DEF OpeningLands, memory
<1>2. held[s] = sealed /\ revealed = TRUE /\ reveals = {} /\ loaded = TRUE
  BY <1>1 DEF EscrowInv, Typed, Appending, Unloaded
<1>3. sealed \in Shows /\ reveals' = {sealed} /\ Given(s, sealed)
  BY <1>1, <1>2 DEF EscrowInv, Typed
<1>4. /\ OthersStay(s) /\ CallsTyped' /\ Submits(s)' /\ pc'[s] \in {"idle", "outcome"}
      /\ pc'[s] = "outcome" => held'[s] = sealed
  BY <1>3, GivenFacts DEF EscrowInv
<1>5. Typed'
  BY <1>1, <1>3, <1>4 DEF EscrowInv, Typed, CallsTyped
<1>6. \A t \in Slots : Submits(t)'
  BY <1>4 DEF EscrowInv, OthersStay, Submits
<1>7. Covered /\ Covered'
  BY <1>1, <1>2 DEF EscrowInv, Loaded, Covered
<1>8. RevealAgrees'
  BY <1>1, <1>3, <1>7 DEF Covered, RevealAgrees
<1>9. Loaded'
  BY <1>1, <1>2, <1>4, <1>7 DEF EscrowInv, Loaded, OthersStay
<1>10. Appending'
  <2>1. \A t \in Slots \ {s} : pc[t] # "opening"
    BY <1>1 DEF EscrowInv, Appending
  <2>2. QED
    BY <1>1, <1>2, <1>4, <2>1 DEF EscrowInv, Appending, OthersStay
<1>11. QED
  BY <1>1, <1>2, <1>5, <1>6, <1>8, <1>9, <1>10 DEF EscrowInv

LEMMA RestartInv == ASSUME EscrowInv, Restart PROVE EscrowInv'
<1>1. /\ loaded' = FALSE /\ sealed' = Nothing /\ revealed' = FALSE
      /\ pc' = [s \in Slots |-> "idle"] /\ tool' = [s \in Slots |-> "status"]
      /\ arg' = [s \in Slots |-> None] /\ rows' = [s \in Slots |-> Blank]
      /\ closed' = [s \in Slots |-> FALSE] /\ held' = [s \in Slots |-> Nothing]
      /\ marks' = marks /\ reveals' = reveals /\ acked' = acked
  BY DEF Restart, chron, history
<1>2. /\ Nothing \in Shows /\ Blank \in [Players -> SUBSET Payloads]
      /\ \A a \in Players : Nothing[a] = None
  BY DEF Nothing, Shows, Blank
<1>3. Typed'
  BY <1>1, <1>2 DEF EscrowInv, Typed, Awaits, Tools
<1>4. \A t \in Slots : Submits(t)'
  BY <1>1 DEF Submits
<1>5. RevealAgrees'
  BY <1>1, <1>2 DEF EscrowInv, RevealAgrees
<1>6. Unloaded'
  BY <1>1, <1>2 DEF Unloaded
<1>7. Appending'
  BY <1>1 DEF Appending
<1>8. QED
  BY <1>1, <1>3, <1>4, <1>5, <1>6, <1>7 DEF EscrowInv

LEMMA EscrowStep == EscrowInv /\ [Next]_vars => EscrowInv'
<1> SUFFICES ASSUME EscrowInv, [Next]_vars PROVE EscrowInv'
  OBVIOUS
<1>1. CASE Restart
  BY <1>1, RestartInv
<1>2. ASSUME NEW s \in Slots, Call(s) \/ Step(s) \/ AppendFails(s) PROVE EscrowInv'
  BY <1>2, CallInv, BeginInv, ReadSealsInv, MergeSealsInv, ReadRevealsInv, LoadEndsInv,
     MarkerLandsInv, OpeningLandsInv, OutcomeLandsInv, AppendFailsInv DEF Step
<1>3. CASE UNCHANGED vars
  <2>1. /\ loaded' = loaded /\ sealed' = sealed /\ revealed' = revealed
        /\ marks' = marks /\ reveals' = reveals /\ acked' = acked
        /\ pc' = pc /\ tool' = tool /\ arg' = arg /\ rows' = rows /\ closed' = closed
        /\ held' = held
    BY <1>3 DEF vars, memory, chron, calls, history
  <2>2. Typed'
    BY <2>1 DEF EscrowInv, Typed
  <2>3. \A s \in Slots : Submits(s)'
    BY <2>1 DEF EscrowInv, Submits
  <2>4. RevealAgrees' /\ (Covered <=> Covered')
    BY <2>1 DEF EscrowInv, RevealAgrees, Covered
  <2>5. Unloaded <=> Unloaded'
    BY <2>1, <2>4 DEF Unloaded
  <2>6. Loaded <=> Loaded'
    BY <2>1, <2>4 DEF Loaded
  <2>7. Appending'
    BY <2>1 DEF EscrowInv, Appending
  <2>8. QED
    BY <2>1, <2>2, <2>3, <2>4, <2>5, <2>6, <2>7 DEF EscrowInv
<1>4. QED
  BY <1>1, <1>2, <1>3 DEF Next

LEMMA EscrowAlways == Spec => []EscrowInv
<1>1. Init => EscrowInv
  <2> SUFFICES ASSUME Init PROVE EscrowInv
    OBVIOUS
  <2>1. /\ Nothing \in Shows /\ Blank \in [Players -> SUBSET Payloads]
        /\ \A a \in Players : Nothing[a] = None /\ Blank[a] = {}
    BY DEF Nothing, Shows, Blank
  <2>2. Typed
    BY <2>1 DEF Init, Typed, Awaits, Tools
  <2>3. QED
    BY <2>1, <2>2 DEF Init, EscrowInv, Submits, RevealAgrees, Unloaded, Appending
<1>2. QED
  BY <1>1, EscrowStep, PTL DEF Spec

-----------------------------------------------------------------------------
\* Once loaded the memory has every durable seal and every durable reveal, for any
\* number of calls that load at once, restarts and failed appends (escrow.py:54-76).
THEOREM MemoryCovers == Spec => []MemoryCoversChronicle
<1>1. EscrowInv => MemoryCoversChronicle
  BY DEF EscrowInv, Typed, Loaded, Covered, MemoryCoversChronicle
<1>2. QED
  BY <1>1, EscrowAlways, PTL

\* What the referee is given holds every move whose player was told that it is sealed
\* (escrow.py:54-61).
THEOREM AcksCount == Spec => AckedMovesCount
<1>1. EscrowInv /\ [Next]_vars =>
        [shown' # shown => \A a \in Players : acked[a] # None => shown'[a] = acked[a]]_vars
  <2> SUFFICES ASSUME EscrowInv, [Next]_vars, shown' # shown, NEW a \in Players,
                      acked[a] # None
               PROVE  shown'[a] = acked[a]
    OBVIOUS
  <2>1. revealed = TRUE => sealed[a] = acked[a]
    <3>1. marks[a] = {acked[a]}
      BY DEF EscrowInv
    <3>2. revealed = TRUE => loaded = TRUE
      BY DEF EscrowInv, Typed, Unloaded
    <3>3. loaded = TRUE => marks[a] = {sealed[a]}
      BY <3>1 DEF EscrowInv, Loaded, Covered
    <3>4. QED
      BY <3>1, <3>2, <3>3
  <2>2. ASSUME NEW s \in Slots, Begin(s) PROVE shown'[a] = acked[a]
    <3>1. revealed = TRUE /\ Given(s, sealed)
      BY <2>2 DEF Begin, EscrowInv, Typed
    <3>2. shown' \in {shown, sealed}
      BY <3>1, GivenFacts DEF EscrowInv, Typed
    <3>3. QED
      BY <2>1, <3>1, <3>2
  <2>3. ASSUME NEW s \in Slots, OpeningLands(s) PROVE shown'[a] = acked[a]
    <3>1. pc[s] = "opening" /\ Given(s, held[s])
      BY <2>3 DEF OpeningLands
    <3>2. held[s] = sealed /\ revealed = TRUE /\ sealed \in Shows
      BY <3>1 DEF EscrowInv, Typed, Appending
    <3>3. shown' \in {shown, sealed}
      BY <3>1, <3>2, GivenFacts DEF EscrowInv
    <3>4. QED
      BY <2>1, <3>2, <3>3
  <2>4. ASSUME NEW s \in Slots, OutcomeLands(s) PROVE shown'[a] = acked[a]
    <3>1. pc[s] = "outcome" /\ shown' = held[s]
      BY <2>4 DEF OutcomeLands
    <3>2. held[s] = sealed /\ revealed = TRUE
      BY <3>1 DEF EscrowInv, Appending
    <3>3. QED
      BY <2>1, <3>1, <3>2
  <2>5. \/ \E s \in Slots : Begin(s) \/ OpeningLands(s) \/ OutcomeLands(s)
        \/ shown' = shown
    BY DEF Next, Step, Call, ReadSeals, MergeSeals, ReadReveals, LoadEnds, MarkerLands,
       AppendFails, Restart, history, vars
  <2>6. QED
    BY <2>2, <2>3, <2>4, <2>5
<1>2. QED
  BY <1>1, EscrowAlways, PTL DEF Spec, AckedMovesCount

\* The audited record is the promised one: a move once and for good, one opening,
\* and no contradiction between the two (escrow.py:1-11).
THEOREM EscrowImplementsBox == Spec => ImplementsBox
<1>1. Init => Box!BoxInit
  BY DEF Init, Blank, Box!BoxInit
<1>2. EscrowInv /\ [Next]_vars => [Box!BoxNext]_<<marks, reveals>>
  <2> SUFFICES ASSUME EscrowInv, [Next]_vars, <<marks, reveals>>' # <<marks, reveals>>
               PROVE  Box!BoxNext
    OBVIOUS
  <2>1. ASSUME NEW s \in Slots, MarkerLands(s) PROVE Box!BoxNext
    <3>1. /\ Owner[s] \in Players /\ arg[s] \in Payloads /\ arg[s] # None
          /\ sealed[Owner[s]] = arg[s] /\ marks[Owner[s]] = {}
          /\ marks' = [marks EXCEPT ![Owner[s]] = {arg[s]}]
      BY <2>1, MarkerFacts
    <3>2. \A m \in reveals : m[Owner[s]] = arg[s]
      BY <3>1 DEF EscrowInv, RevealAgrees
    <3>3. reveals' = reveals
      BY <2>1 DEF MarkerLands
    <3>4. Box!Put(Owner[s], arg[s])
      BY <3>1, <3>2, <3>3 DEF Box!Put
    <3>5. QED
      BY <3>1, <3>4 DEF Box!BoxNext
  <2>2. ASSUME NEW s \in Slots, OpeningLands(s) PROVE Box!BoxNext
    <3>1. /\ pc[s] = "opening" /\ reveals' = reveals \cup {held[s]} /\ marks' = marks
      BY <2>2 DEF OpeningLands
    <3>2. held[s] = sealed /\ revealed = TRUE /\ reveals = {} /\ sealed \in Box!Shows
      BY <3>1 DEF EscrowInv, Typed, Appending, Shows, Box!Shows
    <3>3. \A a \in Players : marks[a] # {} => marks[a] = {sealed[a]}
      BY <3>2 DEF EscrowInv, Typed, Unloaded, Loaded, Covered
    <3>4. Box!Open(sealed)
      BY <3>1, <3>2, <3>3 DEF Box!Open
    <3>5. QED
      BY <3>2, <3>4 DEF Box!BoxNext
  <2>3. \/ \E s \in Slots : MarkerLands(s) \/ OpeningLands(s)
        \/ marks' = marks /\ reveals' = reveals
    BY DEF Next, Step, Call, Begin, ReadSeals, MergeSeals, ReadReveals, LoadEnds,
       OutcomeLands, AppendFails, Restart, chron, vars
  <2>4. QED
    BY <2>1, <2>2, <2>3
<1>3. QED
  BY <1>1, <1>2, EscrowAlways, PTL DEF Spec, ImplementsBox, Box!BoxSpec

-----------------------------------------------------------------------------
(* The tallies.                                                            *)

\* the submissions for two options are counted apart, within the round
LEMMA VotesApart ==
    ASSUME NEW sub, IsFiniteSet(DOMAIN sub), NEW o, NEW x, x # o
    PROVE  /\ {Votes(sub, o), Votes(sub, x), Cardinality(DOMAIN sub)} \subseteq Nat
           /\ Votes(sub, o) + Votes(sub, x) <= Cardinality(DOMAIN sub)
<1>1. For(sub, o) \in SUBSET DOMAIN sub /\ For(sub, x) \in SUBSET DOMAIN sub
  BY DEF For
<1>2. IsFiniteSet(For(sub, o)) /\ IsFiniteSet(For(sub, x))
  BY <1>1, FS_Subset
<1>3. For(sub, o) \cap For(sub, x) = {} /\ For(sub, o) \cup For(sub, x) \in SUBSET DOMAIN sub
  BY <1>1 DEF For
<1>4. Cardinality(For(sub, o) \cap For(sub, x)) = 0
  BY <1>3, FS_EmptySet
<1>5. /\ Cardinality(For(sub, o)) \in Nat /\ Cardinality(For(sub, x)) \in Nat
      /\ Cardinality(DOMAIN sub) \in Nat
  BY <1>2, FS_CardinalityType
<1>6. Cardinality(For(sub, o) \cup For(sub, x))
      = Cardinality(For(sub, o)) + Cardinality(For(sub, x)) - 0
  BY <1>2, <1>4, FS_Union
<1>7. Cardinality(For(sub, o) \cup For(sub, x)) <= Cardinality(DOMAIN sub)
  BY <1>3, FS_Subset
<1>8. QED
  BY <1>5, <1>6, <1>7 DEF Votes

\* An option that more than half of the submissions name is the result of both option
\* tallies, in whatever order the submissions are counted: the code stops at the first
\* option that carries the round (_majority and _plurality, tally.py:98-117).
THEOREM MajorityDecides ==
    ASSUME NEW sub, IsFiniteSet(DOMAIN sub), NEW o, Carries(sub, o)
    PROVE  Majority(sub) = o /\ Plurality(sub) = o
<1>1. o \in Options(sub)
  <2>1. Votes(sub, o) # 0
    <3>1. Cardinality(DOMAIN sub) \in Nat
      BY FS_CardinalityType
    <3>2. QED
      BY <3>1 DEF Carries
  <2>2. For(sub, o) # {}
    BY <2>1, FS_EmptySet DEF Votes
  <2>3. QED
    BY <2>2 DEF For, Options
<1>2. ASSUME NEW x, x # o PROVE Votes(sub, x) < Votes(sub, o) /\ ~Carries(sub, x)
  BY <1>2, VotesApart DEF Carries
<1>3. Votes(sub, o) \in Nat
  <2>1. For(sub, o) \in SUBSET DOMAIN sub
    BY DEF For
  <2>2. QED
    BY <2>1, FS_Subset, FS_CardinalityType DEF Votes
<1>4. Majority(sub) = o
  BY <1>1, <1>2 DEF Majority
<1>5. {y \in Options(sub) : \A x \in Options(sub) : Votes(sub, x) <= Votes(sub, y)} = {o}
  <2>1. \A x \in Options(sub) : Votes(sub, x) <= Votes(sub, o)
    <3> SUFFICES ASSUME NEW x \in Options(sub), x # o PROVE Votes(sub, x) <= Votes(sub, o)
      BY <1>3
    <3>1. Votes(sub, x) < Votes(sub, o) /\ Votes(sub, x) \in Nat
      BY <1>2, VotesApart
    <3>2. QED
      BY <1>3, <3>1
  <2>2. ASSUME NEW y \in Options(sub), y # o PROVE ~(Votes(sub, o) <= Votes(sub, y))
    BY <1>2, <1>3, <2>2, VotesApart
  <2>3. QED
    BY <1>1, <2>1, <2>2
<1>6. Plurality(sub) = o
  BY <1>5 DEF Plurality, TheOne
<1>7. QED
  BY <1>4, <1>6

\* A unanimous round is decided the same way by all three option tallies
\* (_unanimous, tally.py:120-124).
THEOREM UnanimityDecides ==
    ASSUME NEW sub, IsFiniteSet(DOMAIN sub), DOMAIN sub # {}, NEW o, Options(sub) = {o}
    PROVE  Unanimous(sub) = o /\ Majority(sub) = o /\ Plurality(sub) = o
<1>1. For(sub, o) = DOMAIN sub
  BY DEF For, Options
<1>2. Cardinality(DOMAIN sub) \in Nat /\ Cardinality(DOMAIN sub) # 0
  BY FS_CardinalityType, FS_EmptySet
<1>3. Carries(sub, o)
  BY <1>1, <1>2 DEF Carries, Votes
<1>4. Unanimous(sub) = o
  BY DEF Unanimous, TheOne
<1>5. QED
  BY <1>3, <1>4, MajorityDecides
================================================================================
