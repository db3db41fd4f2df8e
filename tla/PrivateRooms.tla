---------------------------- MODULE PrivateRooms ----------------------------
(***************************************************************************)
(* Private messages: the send_private tool, the rooms the host bridges them *)
(* into, the per-round allowance and its gate at the homeserver.            *)
(* realmtools/private.py, herald/herald.py (_provision_dm_rooms, mirror,    *)
(* mute_in_room, unmute_room), gatekeeper/runner.py (_deliver_private,      *)
(* _enforce_dm_quota).  An agent can also post into its room directly, past *)
(* the tool; the mirror brings those posts to the chronicle.                *)
(***************************************************************************)
EXTENDS HostTick

CONSTANTS
    Agent, None, System,
    Stranger,       \* an id no agent of the realm has
    RefereeId,      \* the referee, or None
    Messaging,      \* each agent's private_messaging block
    DmQuota,        \* private messages an agent may send per round; 0: no limit
    MaxSends,       \* bound: calls of send_private
    MaxPosts,       \* bound: direct posts into a room
    MaxRounds       \* bound: rounds of turns

\* an agent's block reaches every agent, or the peers it lists; the referee
\* only when the block includes it
Reaches(a, b) ==
    /\ Messaging[a].enabled /\ a # b
    /\ IF b = RefereeId THEN Messaging[a].include_referee
       ELSE Messaging[a].peers = {} \/ b \in Messaging[a].peers

\* one room per pair of which either side may reach the other
Rooms == {p \in SUBSET Agent : \E a, b \in p : p = {a, b} /\ Reaches(a, b)}

\* an agent that may not write privately has no peers, no line to the referee and no
\* allowance
BlockDeclared(a) ==
    \/ Messaging[a].enabled
    \/ ~Messaging[a].include_referee /\ Messaging[a].peers = {} /\ DmQuota[a] = 0

ASSUME PrivateAssumption ==
    /\ Messaging \in [Agent -> [enabled : BOOLEAN, include_referee : BOOLEAN,
                                peers : SUBSET Agent]]
    /\ DmQuota \in [Agent -> Nat] /\ MaxRounds \in Nat
    /\ \A a \in Agent : BlockDeclared(a)
    /\ {None, System, Stranger} \cap Agent = {} /\ System # None

VARIABLES
    sends,          \* the PRIVATE events, oldest first
    batch,          \* sends the delivery of this tick has read
    taken,          \* sends marked as delivered
    posts,          \* per room, the homeserver's timeline
    seen,           \* per room, posts the mirror has marked as seen
    record,         \* per room, the messages in the chronicle
    counted,        \* per room, messages counted toward an allowance
    sent,           \* messages counted per agent and round
    gated,          \* agents on the host's list of closed gates, with the round
    warned,         \* agents told their allowance is spent, with the round
    gateRound,      \* the round the gates belong to
    muted,          \* per room, whom the homeserver refuses
    work,           \* what is left to do of the stage: rooms or agents to gate
    round,          \* the open round of the turn manager
    removals,       \* agents with an elimination event
    eliminated,     \* those the host has acted on
    deadTold        \* senders told that the peer is gone

privateVars == <<sends, batch, taken, posts, seen, record, counted, sent, gated, warned,
                 gateRound, muted, work, round, removals, eliminated, deadTold>>

Nothing == [mirror |-> {}, open |-> {}, count |-> {}]

\* without a room, or an allowance, there is no gate to keep
Enforced == Rooms # {} /\ \E a \in Agent : DmQuota[a] # 0

PrivateInit ==
    /\ sends = <<>> /\ batch = 0 /\ taken = {}
    /\ posts = [r \in Rooms |-> <<>>] /\ record = posts
    /\ seen = [r \in Rooms |-> 0] /\ counted = seen
    /\ sent = [a \in Agent |-> [r \in 0 .. MaxRounds |-> 0]]
    /\ gated = {} /\ warned = {} /\ gateRound = 0
    /\ muted = [r \in Rooms |-> {}] /\ work = Nothing
    /\ round = 0 /\ removals = {} /\ eliminated = {} /\ deadTold = {}

---------------------------------------------------------------------------
(* Agents and the other components.                                          *)

Live(a) == a \notin removals

\* send_private: any id but one's own is accepted, and "Delivered" is the answer
Send(a, to) ==
    /\ Live(a) /\ Len(sends) < MaxSends /\ to # a
    /\ sends' = Append(sends, [from |-> a, to |-> to])
    /\ UNCHANGED <<tickVars, batch, taken, posts, seen, record, counted, sent, gated, warned,
                   gateRound, muted, work, round, removals, eliminated, deadTold>>

Posted(r, by, id) == posts' = [posts EXCEPT ![r] = Append(@, [by |-> by, id |-> id,
                                                                round |-> round])]

\* an agent posts into its room itself; the homeserver refuses a muted one
Post(a, r) ==
    /\ Live(a) /\ a \in r /\ a \notin muted[r]
    /\ Cardinality({i \in DOMAIN posts[r] : posts[r][i].id = 0 /\ posts[r][i].by # System}) < MaxPosts
    /\ Posted(r, a, 0)
    /\ UNCHANGED <<tickVars, sends, batch, taken, seen, record, counted, sent, gated, warned,
                   gateRound, muted, work, round, removals, eliminated, deadTold>>

\* the referee removes an agent: the event only, the host reads it later
Removed(a) ==
    /\ Live(a) /\ removals' = removals \cup {a}
    /\ UNCHANGED <<tickVars, sends, batch, taken, posts, seen, record, counted, sent, gated,
                   warned, gateRound, muted, work, round, eliminated, deadTold>>

---------------------------------------------------------------------------
(* Delivery: every send not yet marked, in order.                            *)

\* the events of the tick are read once, when the stage begins
ReadSends ==
    /\ stage = "rest" /\ TickBegins
    /\ batch' = IF Rooms = {} THEN 0 ELSE Len(sends)
    /\ work' = [Nothing EXCEPT !.mirror = Rooms]
    /\ UNCHANGED <<sends, taken, posts, seen, record, counted, sent, gated, warned, gateRound,
                   muted, round, removals, eliminated, deadTold>>

Pending == {i \in 1 .. batch : i \notin taken}
NextSend == CHOOSE i \in Pending : \A j \in Pending : i <= j

Spent(a) == DmQuota[a] # 0 /\ sent[a][round] >= DmQuota[a]

\* bug: a delivery is not counted, only what the mirror brings back
Uncounted(a, n) == sent

\* a message counts in the open round
Count(a, n) == [sent EXCEPT ![a][round] = @ + n]

Routed(m) == m.to \in Agent /\ {m.from, m.to} \in Rooms

\* bug: only a delivery that returns is marked
TakenLate(i) == IF stage' = stage THEN taken \cup {i} ELSE taken

\* the mark goes first: whatever raises after it, this send is not taken again
Taken(i) == taken \cup {i}

\* one send: dropped, answered by a notice, or posted in its sender's name
Deliver ==
    LET i == NextSend
        m == sends[i]
        room == {m.from, m.to}
        dead == m.to \in eliminated /\ Routed(m) /\ <<m.from, m.to>> \notin deadTold
        drop == \/ m.from \in eliminated \/ ~Routed(m)
                \/ m.to \in eliminated /\ ~dead
        tell == Spent(m.from) /\ <<m.from, round>> \notin warned
        refused == m.from \in muted[room]
    IN
    /\ stage = "private" /\ Pending # {}
    /\ \/ drop /\ UNCHANGED <<tickVars, posts, sent, warned, deadTold>>
       \/ /\ ~drop /\ dead
          /\ deadTold' = deadTold \cup {<<m.from, m.to>>}
          /\ \/ Posted(room, System, 0) /\ UNCHANGED tickVars
             \/ Raised /\ UNCHANGED posts
          /\ UNCHANGED <<sent, warned>>
       \/ /\ ~drop /\ ~dead /\ Spent(m.from) /\ ~tell
          /\ UNCHANGED <<tickVars, posts, sent, warned, deadTold>>
       \/ /\ ~drop /\ ~dead /\ tell
          /\ warned' = warned \cup {<<m.from, round>>}
          /\ \/ Posted(room, System, 0) /\ UNCHANGED tickVars
             \/ Raised /\ UNCHANGED posts
          /\ UNCHANGED <<sent, deadTold>>
       \/ /\ ~drop /\ ~dead /\ ~Spent(m.from)
          /\ sent' = IF DmQuota[m.from] = 0 THEN sent ELSE Count(m.from, 1)
          /\ \/ ~refused /\ Posted(room, m.from, i) /\ UNCHANGED tickVars
             \/ refused /\ stage' = "rest" /\ UNCHANGED <<faults, posts>>
             \/ ~refused /\ Raised
                /\ (Posted(room, m.from, i) \/ UNCHANGED posts)
          /\ UNCHANGED <<warned, deadTold>>
    /\ taken' = Taken(i)
    /\ UNCHANGED <<sends, batch, seen, record, counted, gated, gateRound, muted, work, round,
                   removals, eliminated>>

PrivateOver ==
    /\ Pending = {} /\ StageOver("private") /\ UNCHANGED privateVars

---------------------------------------------------------------------------
(* The mirror, and the gate of a spent allowance.                            *)

\* one room's timeline is read; a post is marked seen before it is recorded, so the
\* one whose record fails is in no chronicle
Mirror(r) ==
    LET fresh == SubSeq(posts[r], seen[r] + 1, Len(posts[r]))
        By(n) == [i \in 1 .. n |-> fresh[i].by]
    IN
    /\ stage = "mirror" /\ r \in work.mirror
    /\ work' = [work EXCEPT !.mirror = @ \ {r}]
    /\ \/ /\ seen' = [seen EXCEPT ![r] = Len(posts[r])]
          /\ record' = [record EXCEPT ![r] = @ \o By(Len(fresh))]
          /\ UNCHANGED tickVars
       \/ \E n \in 1 .. Len(fresh) :
             /\ Raised
             /\ seen' = [seen EXCEPT ![r] = @ + n]
             /\ record' = [record EXCEPT ![r] = @ \o By(n - 1)]
    /\ UNCHANGED <<sends, batch, taken, posts, counted, sent, gated, warned, gateRound, muted,
                   round, removals, eliminated, deadTold>>

Stale == {g \in gated : g[2] # round}

\* the quota stage begins: when a round has turned, the rooms are to be opened
MirrorOver ==
    /\ work.mirror = {} /\ StageOver("mirror")
    /\ gateRound' = IF Enforced THEN round ELSE gateRound
    /\ work' = IF ~Enforced THEN Nothing
               ELSE [mirror |-> {}, count |-> Rooms,
                     open |-> IF gateRound # round /\ Stale # {} THEN Rooms ELSE {}]
    /\ UNCHANGED <<sends, batch, taken, posts, seen, record, counted, sent, gated, warned,
                   muted, round, removals, eliminated, deadTold>>

\* bug: the rooms stay closed when a round turns
UnmuteForgot(r) ==
    /\ stage = "quota" /\ r \in work.open
    /\ work' = [work EXCEPT !.open = @ \ {r}]
    /\ gated' = IF work.open = {r} THEN gated \ Stale ELSE gated
    /\ UNCHANGED <<tickVars, muted, sends, batch, taken, posts, seen, record, counted, sent,
                   warned, gateRound, round, removals, eliminated, deadTold>>

\* a new round returns everyone's allowance; the list is cleared after the last room
Unmute(r) ==
    /\ stage = "quota" /\ r \in work.open
    /\ \/ /\ muted' = [muted EXCEPT ![r] = {}]
          /\ work' = [work EXCEPT !.open = @ \ {r}]
          /\ gated' = IF work.open = {r} THEN gated \ Stale ELSE gated
          /\ UNCHANGED tickVars
       \/ Raised /\ UNCHANGED <<muted, work, gated>>
    /\ UNCHANGED <<sends, batch, taken, posts, seen, record, counted, sent, warned, gateRound,
                   round, removals, eliminated, deadTold>>

\* a room's new messages count for whoever posted them, delivered ones included
CountRoom(r) ==
    LET fresh == SubSeq(record[r], counted[r] + 1, Len(record[r]))
        By(a) == Cardinality({i \in DOMAIN fresh : fresh[i] = a})
    IN
    /\ stage = "quota" /\ work.open = {} /\ r \in work.count
    /\ work' = [work EXCEPT !.count = @ \ {r}]
    /\ counted' = [counted EXCEPT ![r] = Len(record[r])]
    /\ sent' = [a \in Agent |-> [sent[a] EXCEPT ![round] = @ + By(a)]]
    /\ UNCHANGED <<tickVars, sends, batch, taken, posts, seen, record, gated, warned,
                   gateRound, muted, round, removals, eliminated, deadTold>>

ToGate == {a \in Agent : Spent(a) /\ <<a, round>> \notin gated}

\* the power levels of a room are replaced as a whole: one name is muted in it
OnlyMuted(a, rooms) == [r \in Rooms |-> IF r \in rooms THEN {a} ELSE muted[r]]

\* the agent goes on the list first, then its rooms are closed to it
Gate(a) ==
    /\ stage = "quota" /\ Enforced /\ work.open = {} /\ work.count = {} /\ a \in ToGate
    /\ gated' = gated \cup {<<a, round>>}
    /\ LET mine == {r \in Rooms : a \in r} IN
       \/ muted' = OnlyMuted(a, mine) /\ UNCHANGED tickVars
       \/ Raised /\ \E done \in SUBSET mine : muted' = OnlyMuted(a, done)
    /\ UNCHANGED <<sends, batch, taken, posts, seen, record, counted, sent, warned, gateRound,
                   work, round, removals, eliminated, deadTold>>

QuotaOver ==
    /\ ~Enforced \/ (work.open = {} /\ work.count = {} /\ ToGate = {})
    /\ StageOver("quota") /\ UNCHANGED privateVars

\* the turn manager and the eliminations of the tick (modules TurnManager, RealmLifecycle)
Observe ==
    /\ StageOver("observe")
    /\ eliminated' = removals
    /\ round' \in {round} \cup (IF round < MaxRounds THEN {round + 1} ELSE {})
    /\ UNCHANGED <<sends, batch, taken, posts, seen, record, counted, sent, gated, warned,
                   gateRound, muted, work, removals, deadTold>>

PrivateEnv ==
    \/ \E a \in Agent : \E to \in Agent \cup {Stranger} : Send(a, to)
    \/ \E a \in Agent : \E r \in Rooms : Post(a, r)
    \/ \E a \in Agent : Removed(a)

PrivateHostStep ==
    \/ Deliver \/ MirrorOver \/ QuotaOver \/ Observe
    \/ \E r \in Rooms : Mirror(r) \/ Unmute(r) \/ CountRoom(r)
    \/ \E a \in Agent : Gate(a)
=============================================================================
