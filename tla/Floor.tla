-------------------------------- MODULE Floor --------------------------------
(***************************************************************************)
(* What turn management promises a realm, with nothing about how the host  *)
(* does it: at any moment the commons is open to one participant, to       *)
(* nobody, or (once the rotation is over) to everyone; in one lap nobody   *)
(* has the floor twice, and a lap ends only when everybody still in the    *)
(* rotation has had it.                                                    *)
(***************************************************************************)
EXTENDS Naturals

CONSTANTS Participants, \* who may take a turn
          Nobody,       \* the floor of a muted room
          Everyone      \* the floor of an open room

VARIABLES speaker,      \* who the homeserver lets post
          lap,          \* the lap of the rotation in progress, from 1
          served,       \* those who have had the floor in this lap
          players       \* those still in the rotation

floorVars == <<speaker, lap, served, players>>

Init == /\ speaker = Nobody
        /\ lap = 1
        /\ served = {}
        /\ players = Participants

\* The floor passes to someone who has not had it in this lap.
Give(p) == /\ p \in players \ served
           /\ speaker' = p
           /\ served' = served \cup {p}
           /\ UNCHANGED <<lap, players>>

\* The room is muted while the rotation waits.
Mute == /\ speaker' = Nobody
        /\ UNCHANGED <<lap, served, players>>

\* A lap closes over everyone still in it.
NextLap == /\ players # {}
           /\ players \subseteq served
           /\ lap' = lap + 1
           /\ served' = {}
           /\ UNCHANGED <<speaker, players>>

\* A participant leaves for good: eliminated, or retired for staying silent.
Leave(p) == /\ p \in players
            /\ players' = players \ {p}
            /\ UNCHANGED <<speaker, lap, served>>

\* The gate is lifted, after an empty rotation or for the wrap-up.
Open == /\ speaker' = Everyone
        /\ UNCHANGED <<lap, served, players>>

Next == \/ \E p \in Participants : Give(p) \/ Leave(p)
        \/ Mute
        \/ NextLap
        \/ Open

Spec == Init /\ [][Next]_floorVars
==============================================================================
