------------------------------ MODULE Brokers ------------------------------
(***************************************************************************)
(* The host's brokers composed: private messages and requests share one     *)
(* tick, whose stages run in the order of LiveSnapshot.__call__, and one    *)
(* that raises takes the later ones with it.                                *)
(***************************************************************************)
EXTENDS PrivateRooms, Requests

\* bound: sends, direct posts, removals and requests together, where there are any but
\* requests; requests alone have their own bound
CONSTANT MaxActs

vars == <<tickVars, privateVars, requestVars>>

Init == TickInit /\ PrivateInit /\ RequestInit

\* the deliveries are over: the run_code requests are read
PrivateDone == PrivateOver /\ ReadRequests("exec")
               /\ UNCHANGED <<requests, answers, done, inHand, performed, want, wait, ticket>>

\* an await of a stage that keeps no note of its progress raises
StageRaises == /\ stage \in {"private", "mirror", "quota", "observe"} /\ Raised
               /\ UNCHANGED <<privateVars, requestVars>>

HostStep ==
    \/ ReadSends /\ UNCHANGED requestVars
    \/ PrivateDone
    \/ PrivateHostStep /\ UNCHANGED requestVars
    \/ RequestHost /\ UNCHANGED privateVars

Direct(room) == {i \in DOMAIN posts[room] : posts[room][i].id = 0
                                           /\ posts[room][i].by # System}
PrivateActs == Len(sends) + Cardinality(removals)
        + Cardinality(UNION {{<<room, i>> : i \in Direct(room)} : room \in Rooms})
Acts == PrivateActs + Len(requests) + Cardinality(Asking)

Next ==
    \/ HostStep
    \/ StageRaises
    \/ Acts < MaxActs /\ PrivateEnv /\ UNCHANGED requestVars
    \/ (PrivateActs = 0 \/ Acts < MaxActs) /\ RequestEnv /\ UNCHANGED privateVars
    \/ \E s \in Slot : (SlotStep(s) \/ CallRaises(s)) /\ UNCHANGED privateVars

\* the warden keeps ticking, and a caller polls until it is answered or gives up
Fairness ==
    /\ WF_vars(HostStep)
    /\ \A s \in Slot : WF_vars(SlotStep(s) /\ UNCHANGED privateVars)

Spec == Init /\ [][Next]_vars /\ Fairness

---------------------------------------------------------------------------
(* Properties.                                                               *)

Bridged(a, r) == UNION {{<<room, i>> : i \in {j \in DOMAIN posts[room] :
                            posts[room][j].by = a /\ posts[room][j].id # 0
                            /\ posts[room][j].round = r}} : room \in Rooms}

\* The host never bridges more private messages of an agent in a round than its
\* allowance, though deliveries and mirrored posts are counted at two stages of
\* the tick and rounds turn between them (runner.py:809-824, 677).
AllowanceHeld ==
    \A a \in Agent, r \in 0 .. MaxRounds :
        DmQuota[a] # 0 => Cardinality(Bridged(a, r)) <= DmQuota[a]

\* A send reaches its room at most once, even when the post went through and its
\* answer did not: the mark is set first (runner.py:783).
BridgedOnce ==
    \A room \in Rooms : \A i, j \in DOMAIN posts[room] :
        posts[room][i].id # 0 /\ posts[room][i].id = posts[room][j].id => i = j

\* As long as no await of the host raises, a gate closed in one round opens in a
\* later one, unless its agent has spent that round's allowance too
\* (runner.py:661-666).
GatesReopen ==
    [](faults = 0) =>
        \A a \in Agent, room \in Rooms, k \in 1 .. MaxRounds :
            (a \in muted[room] /\ round = k)
                ~> (a \notin muted[room] \/ <<a, k>> \in gated \/ round > k)

SlotsOf(a) == {s \in Slot : Caller[s] = a}

\* A quota is exceeded at most by the calls the agent had in flight together:
\* the count and the record of a call are two moments (toolcall.py:107-125).
\* A quota of zero bars the tool.
QuotaWithinOverlap ==
    \A a \in Callers, t \in Tool :
        Used(a, t) > 0 /\ Quota(a, t) # NoQuota =>
            /\ Quota(a, t) > 0
            /\ Used(a, t) < Quota(a, t) + Cardinality(SlotsOf(a))

\* Every recorded request is answered as long as no await raises, also the ones
\* no handler and no container can run (runner.py:521-527, 565-570) - but for code in a
\* realm without containers, which the host does not look at (runner.py:512).
RequestsAnswered ==
    [](faults = 0) =>
        \A i \in 1 .. MaxRequests :
            (i \in DOMAIN requests /\ (requests[i].tool # RunCode \/ HasContainer # {}))
                ~> (i \in answers)

=============================================================================
