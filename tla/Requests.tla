------------------------------ MODULE Requests ------------------------------
(***************************************************************************)
(* Granted tools and run_code: the agent's side writes a request into the   *)
(* chronicle and polls for its answer, the host performs it on its tick.    *)
(* realmtools/toolcall.py, code.py, manifest.py, server.py                  *)
(* (call_tool_for_caller, run_code); core/tools.py (tool_registry,          *)
(* grant_manifest); gatekeeper/runner.py (_run_exec_requests,               *)
(* _run_tool_requests).                                                     *)
(***************************************************************************)
EXTENDS HostTick

CONSTANTS
    Slot,           \* tool calls of the agents that may be in flight at once
    Caller,         \* the agent that makes the calls of a slot
    Tool,           \* names of granted tools
    RunCode,        \* the run_code verb; not a granted tool
    Grants,         \* the tools each agent's token names
    Installed,      \* tools the platform has a handler for
    QuotaOf,        \* max_calls_per_agent of each tool's policy, or None
    QuotaBy,        \* max_calls_by_agent of each tool: the agents it singles out
    HasContainer,   \* agents with a container of their own
    NoQuota,
    MaxRequests     \* bound: requests recorded or on their way

Callers == {Caller[s] : s \in Slot}

ASSUME RequestAssumption ==
    /\ RunCode \notin Tool /\ Installed \subseteq Tool
    /\ IsFiniteSet(Slot)
    /\ Grants \in [Callers -> SUBSET Tool]
    /\ QuotaOf \in [Tool -> Nat \cup {NoQuota}] /\ NoQuota \notin Nat
    /\ \A t \in Tool : DOMAIN QuotaBy[t] \subseteq Callers
                       /\ \A a \in DOMAIN QuotaBy[t] : QuotaBy[t][a] \in Nat \cup {NoQuota}

VARIABLES
    requests,       \* the TOOL_CALL and EXEC events, oldest first
    answers,        \* the requests with a TOOL_RESULT or EXEC_RESULT event, whatever it says
    done,           \* requests the host has marked
    inHand,         \* the request the host is performing, or 0
    drain,          \* requests the stage has read and not yet looked at
    performed,      \* how often each request's work was started
    want,           \* the tool each slot calls
    wait,           \* the await the slot is suspended on
    ticket          \* the request a slot waits for, 0 if none

requestVars == <<requests, answers, done, inHand, drain, performed, want, wait, ticket>>

RequestInit ==
    /\ requests = <<>> /\ answers = {} /\ done = {} /\ inHand = 0 /\ drain = {}
    /\ performed = <<>>
    /\ want = [s \in Slot |-> RunCode] /\ wait = [s \in Slot |-> "idle"]
    /\ ticket = [s \in Slot |-> 0]

---------------------------------------------------------------------------
(* The agent's side.                                                         *)

\* how a call ends (a result, an error, a refusal) matters to the agent only
Ended(s) == /\ wait' = [wait EXCEPT ![s] = "idle"] /\ ticket' = [ticket EXCEPT ![s] = 0]
            /\ want' = [want EXCEPT ![s] = RunCode]
Awaits(s, what) == wait' = [wait EXCEPT ![s] = what] /\ UNCHANGED <<ticket, want>>
HostUnchanged == UNCHANGED <<answers, done, inHand, drain>>

\* the quota that binds an agent: its own entry, or the tool's
Quota(a, t) == IF a \in DOMAIN QuotaBy[t] THEN QuotaBy[t][a] ELSE QuotaOf[t]

\* the calls on their way into the chronicle
Asking == {s \in Slot : wait[s] \in {"policy", "count", "append"}}

\* only a tool the token names; run_code has no policy to look up
CallTool(s, t) ==
    /\ wait[s] = "idle" /\ Len(requests) + Cardinality(Asking) < MaxRequests
    /\ t = RunCode \/ t \in Grants[Caller[s]]
    /\ want' = [want EXCEPT ![s] = t]
    /\ wait' = [wait EXCEPT ![s] = IF t = RunCode THEN "append" ELSE "policy"]
    /\ HostUnchanged /\ UNCHANGED <<tickVars, requests, performed, ticket>>

\* the manifest's policy arrives: without a quota the call is recorded at once
PolicyRead(s) ==
    /\ wait[s] = "policy"
    /\ Awaits(s, IF Quota(Caller[s], want[s]) = NoQuota THEN "append" ELSE "count")
    /\ HostUnchanged /\ UNCHANGED <<tickVars, requests, performed>>

Used(a, t) == Cardinality({i \in DOMAIN requests : requests[i] = [agent |-> a, tool |-> t]})

\* bug: a call counts from when it is answered
CountedAnswers(s) ==
    /\ wait[s] = "count"
    /\ IF Cardinality({i \in answers : requests[i] = [agent |-> Caller[s], tool |-> want[s]]})
          >= Quota(Caller[s], want[s])
       THEN Ended(s) ELSE Awaits(s, "append")
    /\ HostUnchanged /\ UNCHANGED <<tickVars, requests, performed>>

\* the calls on record are counted; a spent quota ends the call
Counted(s) ==
    /\ wait[s] = "count"
    /\ IF Used(Caller[s], want[s]) >= Quota(Caller[s], want[s])
       THEN Ended(s) ELSE Awaits(s, "append")
    /\ HostUnchanged /\ UNCHANGED <<tickVars, requests, performed>>

\* the request is durable: poll for its answer
Recorded(s) ==
    /\ wait[s] = "append"
    /\ requests' = Append(requests, [agent |-> Caller[s], tool |-> want[s]])
    /\ performed' = Append(performed, 0)
    /\ ticket' = [ticket EXCEPT ![s] = Len(requests) + 1]
    /\ wait' = [wait EXCEPT ![s] = "poll"]
    /\ HostUnchanged /\ UNCHANGED <<tickVars, want>>

\* an answer to this very request is on record
Polled(s) ==
    /\ wait[s] = "poll"
    /\ ticket[s] \in answers
    /\ Ended(s)
    /\ HostUnchanged /\ UNCHANGED <<tickVars, requests, performed>>

\* no answer within the caller's patience; a late one finds nobody
GivesUp(s) ==
    /\ wait[s] = "poll" /\ ticket[s] \notin answers
    /\ Ended(s)
    /\ HostUnchanged /\ UNCHANGED <<tickVars, requests, performed>>

\* a query or an append of the agent's side raises
CallRaises(s) ==
    /\ wait[s] # "idle" /\ faults < MaxFaults /\ faults' = faults + 1 /\ UNCHANGED stage
    /\ Ended(s)
    /\ HostUnchanged /\ UNCHANGED <<requests, performed>>

---------------------------------------------------------------------------
(* The host's side: one stage for run_code, one for the granted tools.       *)

AgentUnchanged == UNCHANGED <<requests, want, wait, ticket>>

Kind(st) == {i \in DOMAIN requests : (requests[i].tool = RunCode) = (st = "exec")}

\* a stage begins by reading its requests; the ones marked are passed over, and those
\* of run_code are not looked at when the realm has no containers
ReadRequests(st) ==
    drain' = IF st = "exec" /\ HasContainer = {} THEN {} ELSE Kind(st) \ done

\* the next request is marked, then its work begins, if there is a handler
Mark ==
    LET i == CHOOSE i \in drain : \A j \in drain : i <= j
        r == requests[i]
        able == IF stage = "exec" THEN r.agent \in HasContainer ELSE r.tool \in Installed
    IN
    /\ stage \in {"exec", "tools"} /\ inHand = 0 /\ drain # {}
    /\ drain' = drain \ {i} /\ inHand' = i /\ done' = done \cup {i}
    /\ performed' = IF able THEN [performed EXCEPT ![i] = @ + 1] ELSE performed
    /\ UNCHANGED tickVars /\ AgentUnchanged /\ UNCHANGED answers

\* bug: a request nothing can run is passed over without an answer
AnswerIfAble ==
    /\ inHand # 0 /\ inHand' = 0
    /\ answers' = IF performed[inHand] = 0 THEN answers ELSE answers \cup {inHand}
    /\ UNCHANGED <<tickVars, done, drain, performed>> /\ AgentUnchanged

\* it answers whatever happened: a result, an error, a timeout, nothing to run it
Answer ==
    /\ inHand # 0 /\ inHand' = 0
    /\ answers' = answers \cup {inHand}
    /\ UNCHANGED tickVars /\ AgentUnchanged /\ UNCHANGED <<done, drain, performed>>

\* the answer cannot be recorded: the tick ends, the mark stays
AnswerLost ==
    /\ inHand # 0 /\ Raised
    /\ inHand' = 0 /\ drain' = {}
    /\ AgentUnchanged /\ UNCHANGED <<answers, done, performed>>

DrainOver(st) ==
    /\ st \in {"exec", "tools"} /\ inHand = 0 /\ drain = {}
    /\ StageOver(st)
    /\ IF st = "exec" THEN ReadRequests("tools") ELSE UNCHANGED drain
    /\ AgentUnchanged /\ UNCHANGED <<answers, done, inHand, performed>>

RequestEnv == \E s \in Slot : \E t \in Tool \cup {RunCode} : CallTool(s, t)

SlotStep(s) == PolicyRead(s) \/ Counted(s) \/ Recorded(s) \/ Polled(s) \/ GivesUp(s)

RequestHost == Mark \/ Answer \/ AnswerLost \/ \E st \in {"exec", "tools"} : DrainOver(st)
=============================================================================
