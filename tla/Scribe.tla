------------------------------- MODULE Scribe -------------------------------
(***************************************************************************)
(* The Scribe: authoring sessions on one scenario, their conversation and   *)
(* its stored history, and the writes of the scenario.                      *)
(* scribe/loop.py, service.py, history.py, tools.py, versions.py and the    *)
(* scribe endpoints of gatekeeper/api.py.  A turn streams its events: every *)
(* model call and every event sent is a point where other requests run and  *)
(* where the client may be gone.                                            *)
(***************************************************************************)
EXTENDS Naturals, Sequences, FiniteSets, FiniteSetsExt

CONSTANTS
    Session,        \* session ids
    Request,        \* requests that take model calls: messages and summaries
    None,
    MaxSteps,       \* model calls of one turn
    MaxNudges,      \* corrective retries of one turn
    MaxCalls,       \* bound: tool calls of one completion
    KeepTail,       \* messages a summary leaves in place
    Limit,          \* messages beyond which a history is summarized
    MaxWrites       \* bound: versions of the scenario

ASSUME ScribeAssumption ==
    /\ MaxSteps \in Nat \ {0} /\ MaxNudges \in Nat /\ KeepTail \in Nat /\ Limit \in Nat
    /\ MaxCalls \in Nat /\ MaxWrites \in Nat /\ None \notin Session

VARIABLES
    mode,           \* "create" or "edit", or "none" for an id not handed out
    live,           \* sessions the server knows
    editor,         \* the live edit session of the scenario, or None
    bound,          \* sessions attached to the scenario's history
    history,        \* each session's conversation
    draft,          \* sessions with a draft to approve
    file,           \* the stored history, or None
    package,        \* the scenario's current version, 0 when there is none
    written,        \* versions written so far
    versions,       \* versions the snapshots hold; 0 stands for "before create"
    req,            \* what each request is doing
    cutShort        \* a turn died or was approved between its calls, or two turns overlapped

vars == <<mode, live, editor, bound, history, draft, file, package, written, versions, req,
          cutShort>>

Msg(role, r, n) == [role |-> role, of |-> r, calls |-> n]
Summary == Msg("user", None, 0)

\* calls: those of the completion that have not run; tail: the history after the
\* summary under way; own: the turn's list is its session's history; stray: the list it
\* has when that was replaced
Idle == [s |-> None, at |-> "idle", steps |-> 0, nudges |-> 0, calls |-> 0, tail |-> <<>>,
         own |-> TRUE, stray |-> <<>>]

Init ==
    /\ mode = [s \in Session |-> "none"] /\ live = {} /\ editor = None /\ bound = {}
    /\ history = [s \in Session |-> <<>>] /\ draft = {} /\ file = None
    /\ package \in {0, 1} /\ written = package /\ versions = {}
    /\ req = [r \in Request |-> Idle] /\ cutShort = FALSE

---------------------------------------------------------------------------
(* Histories.                                                                *)

\* every tool call of an assistant message is answered before anything else is said
WellFormed(h) ==
    \A i \in DOMAIN h :
        /\ h[i].calls > 0 =>
              /\ i + h[i].calls <= Len(h)
              /\ \A j \in i + 1 .. i + h[i].calls : h[j].role = "tool" /\ h[j].of = h[i].of
        /\ h[i].role = "tool" => \E j \in 1 .. i - 1 : j + h[j].calls >= i

\* bug: a summary cuts anywhere
CutAnywhere(h, keep) == IF Len(h) > keep THEN Len(h) - keep ELSE 0

\* a summary never parts a message from the answers to its calls
Cut(h, keep) ==
    Max({0} \cup {c \in 1 .. CutAnywhere(h, keep) : c = Len(h) \/ h[c + 1].role # "tool"})

Compacted(h, keep) ==
    IF Cut(h, keep) = 0 THEN h ELSE <<Summary>> \o SubSeq(h, Cut(h, keep) + 1, Len(h))

Active(r) == req[r].at \notin {"idle", "over"}
Turns(s) == {r \in Request : Active(r) /\ req[r].s = s /\ req[r].at # "summarizing"}

\* a turn appends to the list it was given, which may no longer be its session's
List(r) == IF req[r].own THEN history[req[r].s] ELSE req[r].stray

\* the session's history waits for the answers to a message's calls
Amid(s) == \E r \in Turns(s) : req[r].at = "acting" /\ req[r].own

Said(r, msgs, next) ==
    IF req[r].own
    THEN /\ history' = [history EXCEPT ![req[r].s] = @ \o msgs]
         /\ req' = [req EXCEPT ![r] = next]
    ELSE /\ req' = [req EXCEPT ![r] = [next EXCEPT !.stray = @ \o msgs]]
         /\ UNCHANGED history

\* a session's history is replaced: the turns in flight keep the list they had
Replaced(s, h, self, next) ==
    /\ history' = [history EXCEPT ![s] = h]
    /\ req' = [r \in Request |->
                 IF r = self THEN next
                 ELSE IF r \in Turns(s) /\ req[r].own
                      THEN [req[r] EXCEPT !.own = FALSE, !.stray = history[s]] ELSE req[r]]

TooLong(h) == Len(h) > Limit

\* what is stored of a session's history, and what a later session begins with
Resumed == IF file = None THEN <<>> ELSE file
Stored(s, h) == IF s \in bound THEN h ELSE file

---------------------------------------------------------------------------
(* Sessions.                                                                 *)

Packaged == UNCHANGED <<package, written, versions>>

OpenCreate(s) ==
    /\ mode[s] = "none"
    /\ mode' = [mode EXCEPT ![s] = "create"] /\ live' = live \cup {s}
    /\ Packaged /\ UNCHANGED <<editor, bound, history, draft, file, req, cutShort>>

\* a live edit session is handed out again; otherwise the stored history resumes
OpenEdit(s) ==
    /\ mode[s] = "none" /\ package # 0 /\ editor \notin live
    /\ mode' = [mode EXCEPT ![s] = "edit"] /\ live' = live \cup {s}
    /\ editor' = s /\ bound' = bound \cup {s}
    /\ history' = [history EXCEPT ![s] = Resumed]
    /\ Packaged /\ UNCHANGED <<draft, file, req, cutShort>>

\* bug: the snapshot is taken after the write
SnapshotAfter(v) == versions \cup {package'}

\* the version about to be replaced is kept
Snapshot(v) == versions \cup {v}

Written == /\ written < MaxWrites /\ written' = written + 1 /\ package' = written + 1
           /\ versions' = Snapshot(package)

\* a create session's draft becomes the scenario, unless one has the name already; the
\* history is stored as it is, the calls of a turn that is still running included
Approve(s) ==
    /\ s \in live /\ mode[s] = "create" /\ s \in draft /\ package = 0
    /\ Written
    /\ bound' = bound \cup {s} /\ file' = history[s]
    /\ cutShort' = (cutShort \/ Amid(s))
    /\ UNCHANGED <<mode, live, editor, history, draft, req>>

\* "start fresh": the stored history goes, and the sessions attached to it
HistoryDelete ==
    /\ file # None \/ live \cap bound # {}
    /\ live' = live \ bound /\ editor' = None /\ file' = None
    /\ Packaged /\ UNCHANGED <<mode, bound, history, draft, req, cutShort>>

\* the editor saves or deletes the scenario itself, without a snapshot
EditorWrites ==
    /\ \/ written < MaxWrites /\ written' = written + 1 /\ package' = written + 1
       \/ package # 0 /\ package' = 0 /\ UNCHANGED written
    /\ UNCHANGED <<versions, mode, live, editor, bound, history, draft, file, req, cutShort>>

\* a snapshot is written back; what it replaces is not kept
Revert ==
    /\ \E v \in versions \ {0} : package' = v
    /\ UNCHANGED <<written, versions, mode, live, editor, bound, history, draft, file, req,
                   cutShort>>

---------------------------------------------------------------------------
(* A turn.                                                                   *)

Begun(r, s) == [Idle EXCEPT !.s = s, !.at = "thinking"]

\* a message to a session: a long history is summarized first
Message(r, s) ==
    /\ req[r].at = "idle" /\ s \in live
    /\ cutShort' = (cutShort \/ Turns(s) # {})
    /\ IF TooLong(history[s]) /\ Cut(history[s], KeepTail) > 0
       THEN /\ req' = [req EXCEPT ![r] = [Idle EXCEPT !.s = s, !.at = "compacting",
                                            !.tail = Compacted(history[s], KeepTail)]]
            /\ UNCHANGED history
       ELSE /\ history' = [history EXCEPT ![s] = Append(@, Msg("user", r, 0))]
            /\ req' = [req EXCEPT ![r] = Begun(r, s)]
    /\ Packaged /\ UNCHANGED <<mode, live, editor, bound, draft, file>>

\* the summary of the head arrives: the session's history is replaced and saved
Shortened(r) ==
    LET s == req[r].s IN
    /\ req[r].at = "compacting"
    /\ Replaced(s, Append(req[r].tail, Msg("user", r, 0)), r, Begun(r, s))
    /\ file' = Stored(s, req[r].tail)
    /\ Packaged /\ UNCHANGED <<mode, live, editor, bound, draft, cutShort>>

Thinking(r) == req[r].at = "thinking" /\ req[r].steps < MaxSteps
Step(r) == [req[r] EXCEPT !.steps = @ + 1]

\* where a turn stands after a step that did not end it
Onward(x) == [x EXCEPT !.at = IF x.steps < MaxSteps THEN "thinking" ELSE "limit"]

\* prose the user will see, or that the model is told to make up for: a broken call,
\* a denial of its tools, a change it claims without having called any tool
Prose(r) ==
    /\ Thinking(r)
    /\ \/ Said(r, <<Msg("assistant", r, 0)>>, [Step(r) EXCEPT !.at = "ended"])
       \/ /\ req[r].nudges < MaxNudges
          /\ Said(r, <<Msg("assistant", r, 0), Msg("user", r, 0)>>,
                  Onward([Step(r) EXCEPT !.nudges = @ + 1]))
    /\ Packaged /\ UNCHANGED <<mode, live, editor, bound, draft, file, cutShort>>

\* the model calls tools
CallsTools(r) ==
    /\ Thinking(r)
    /\ \E n \in 1 .. MaxCalls :
          Said(r, <<Msg("assistant", r, n)>>, [Step(r) EXCEPT !.at = "acting", !.calls = n])
    /\ Packaged /\ UNCHANGED <<mode, live, editor, bound, draft, file, cutShort>>

Acting(r) == req[r].at = "acting"
Answers(r, n) == [i \in 1 .. n |-> Msg("tool", r, 0)]
Rest(r) == LET left == [req[r] EXCEPT !.calls = @ - 1]
           IN  IF left.calls = 0 THEN Onward(left) ELSE left

\* a call that changes nothing: reading, a proposal sent back, a refused write
RunsCall(r) ==
    /\ Acting(r)
    /\ Said(r, Answers(r, 1), Rest(r))
    /\ Packaged /\ UNCHANGED <<mode, live, editor, bound, draft, file, cutShort>>

\* create_scenario, edit_scenario: the version replaced is snapshotted first
Writes(r) ==
    /\ Acting(r) /\ Written
    /\ Said(r, Answers(r, 1), Rest(r))
    /\ UNCHANGED <<mode, live, editor, bound, draft, file, cutShort>>

\* bug: the calls behind a question or a draft stay unanswered
AnsweredFirst(r) == 1

\* a question or a valid draft ends the turn: the calls behind it are answered as skipped
Answered(r) == req[r].calls

EndsTurn(r) ==
    /\ Acting(r)
    /\ Said(r, Answers(r, Answered(r)), [req[r] EXCEPT !.at = "ended", !.calls = 0])
    /\ draft' \in {draft, draft \cup {req[r].s}}
    /\ Packaged /\ UNCHANGED <<mode, live, editor, bound, file, cutShort>>

\* the model kept calling tools to the last step
StepLimit(r) ==
    /\ req[r].at = "limit"
    /\ Said(r, <<Msg("assistant", r, 0)>>, [req[r] EXCEPT !.at = "ended"])
    /\ Packaged /\ UNCHANGED <<mode, live, editor, bound, draft, file, cutShort>>

\* the last event is out: the session's history is saved, whichever list it is now
Save(r) ==
    /\ req[r].at = "ended"
    /\ file' = Stored(req[r].s, history[req[r].s])
    /\ req' = [req EXCEPT ![r] = [Idle EXCEPT !.at = "over"]]
    /\ Packaged /\ UNCHANGED <<mode, live, editor, bound, history, draft, cutShort>>

\* the client leaves, or something raises: nothing is undone, nothing is saved
Dies(r) ==
    /\ Active(r)
    /\ req' = [req EXCEPT ![r] = [Idle EXCEPT !.at = "over"]]
    /\ cutShort' = (cutShort \/ req[r].at = "acting")
    /\ Packaged /\ UNCHANGED <<mode, live, editor, bound, history, draft, file>>

---------------------------------------------------------------------------
(* Summarize now.                                                            *)

\* of a live session, or of the stored file when there is none
Summarize(r) ==
    /\ req[r].at = "idle"
    /\ IF live \cap bound # {}
       THEN \E s \in live \cap bound :
              req' = [req EXCEPT ![r] = [Idle EXCEPT !.s = s, !.at = "summarizing",
                                           !.tail = Compacted(history[s], 0)]]
       ELSE /\ file # None
            /\ req' = [req EXCEPT ![r] = [Idle EXCEPT !.at = "summarizing",
                                            !.tail = Compacted(file, 0)]]
    /\ Packaged /\ UNCHANGED <<mode, live, editor, bound, history, draft, file, cutShort>>

Summarized(r) ==
    LET s == req[r].s
        over == [Idle EXCEPT !.at = "over"]
    IN
    /\ req[r].at = "summarizing"
    /\ IF s = None
       THEN /\ file' = req[r].tail
            /\ req' = [req EXCEPT ![r] = over] /\ UNCHANGED history
       ELSE /\ file' = Stored(s, req[r].tail)
            /\ Replaced(s, req[r].tail, r, over)
    /\ Packaged /\ UNCHANGED <<mode, live, editor, bound, draft, cutShort>>

Restart ==
    /\ live # {}
    /\ live' = {} /\ editor' = None /\ bound' = {}
    /\ history' = [s \in Session |-> <<>>] /\ draft' = {}
    /\ req' = [r \in Request |-> IF Active(r) THEN [Idle EXCEPT !.at = "over"] ELSE req[r]]
    /\ Packaged /\ UNCHANGED <<mode, file, cutShort>>

TurnStep(r) ==
    \/ Shortened(r) \/ Prose(r) \/ CallsTools(r) \/ RunsCall(r) \/ Writes(r) \/ EndsTurn(r)
    \/ StepLimit(r) \/ Save(r) \/ Summarized(r)

Next ==
    \/ \E s \in Session : OpenCreate(s) \/ OpenEdit(s) \/ Approve(s)
    \/ \E r \in Request, s \in Session : Message(r, s)
    \/ \E r \in Request : TurnStep(r) \/ Dies(r) \/ Summarize(r)
    \/ HistoryDelete \/ EditorWrites \/ Revert \/ Restart

Spec == Init /\ [][Next]_vars

---------------------------------------------------------------------------
(* Properties.                                                               *)

\* A history is well-formed whenever the model is asked: each tool call is
\* followed by its answer, across early ends, retries, summaries and resumed
\* files - as long as no turn is cut off or approved among its calls and a session
\* has one turn at a time (loop.py:114-119, history.py:149-151).
AskedWellFormed ==
    ~cutShort => \A r \in Request : Thinking(r) => WellFormed(List(r))

\* A version the Scribe replaces can be brought back: it was snapshotted, in
\* whatever order sessions, approvals and the editor write (tools.py:176-193,
\* api.py:894-896).
NoVersionLost ==
    [][package' # package /\ (req' # req \/ file' # file) => package \in versions']_vars

=============================================================================
