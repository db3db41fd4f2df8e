------------------------------- MODULE SealedBox -------------------------------
(***************************************************************************)
(* What the escrow promises of one labelled round, as its chronicle can be *)
(* audited: a move is sealed once and for good, the round is opened once,  *)
(* and the opening and the seals never contradict each other, although a   *)
(* seal may become durable after the opening that already shows it.        *)
(***************************************************************************)
CONSTANTS Players, Payloads, None

VARIABLES
    box,        \* player -> the payloads of its durable markers
    opened      \* the submissions of the durable reveals

Shows == [Players -> Payloads \cup {None}]

BoxInit == box = [a \in Players |-> {}] /\ opened = {}

Put(a, p) ==
    /\ box[a] = {}
    /\ \A m \in opened : m[a] = p
    /\ box' = [box EXCEPT ![a] = {p}]
    /\ UNCHANGED opened

Open(m) ==
    /\ opened = {}
    /\ \A a \in Players : box[a] # {} => box[a] = {m[a]}
    /\ opened' = {m}
    /\ UNCHANGED box

BoxNext == \/ \E a \in Players, p \in Payloads : Put(a, p)
           \/ \E m \in Shows : Open(m)

BoxSpec == BoxInit /\ [][BoxNext]_<<box, opened>>
===============================================================================
