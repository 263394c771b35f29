------------------------------- MODULE Server -------------------------------
(***************************************************************************)
(* The protocol server of one grist-kernel process                         *)
(* (crates/orchestrator/src/acp/agent.rs and session.rs): the registry of  *)
(* open sessions, the handlers of session/new, load, resume, prompt,       *)
(* cancel, close and _grist/status, the tasks the handlers spawn, and the  *)
(* driver that owns a session's kernel behind a bounded command channel.   *)
(*                                                                         *)
(* Handlers run one at a time, in the order requests arrive; the tasks     *)
(* they spawn, the drivers and the kernels interleave freely.              *)
(*                                                                         *)
(* What is abstract.  Requests are numbered in order of arrival.  A live   *)
(* session (the code's Arc<Live>) is named by the request that opened it,  *)
(* so that two kernels opened for one session id stay apart.  Of a kernel  *)
(* only what the server can observe remains: its status, whether its turn  *)
(* token exists and has fired, whether its inbox holds the prompt's        *)
(* message, whether a waker will resume it, whether a task waits for the   *)
(* waker of an earlier process, and how `run` returns (Kernel models the   *)
(* rest).  Of a log only the status in its latest checkpoint remains.      *)
(***************************************************************************)
EXTENDS Naturals, Sequences, FiniteSets

CONSTANTS
    Sid,           \* session ids
    None,          \* no session, no request
    MaxRequests,   \* bound on the requests of the client
    MaxCancels,    \* bound on the cancels of the client, all before its last request
    MaxTurns,      \* bound on the turns that do not end the run they are in
    Cap,           \* capacity of a driver's channel
    Left,          \* statuses earlier processes may have left in a log
    Single         \* ServerOptions.single_session

ASSUME ServerBounds ==
    /\ MaxRequests \in Nat /\ MaxCancels \in Nat /\ MaxTurns \in Nat
    /\ Cap \in Nat \ {0} /\ Single \in BOOLEAN /\ None \notin Sid
    /\ Left \subseteq {"none", "created", "idle", "running", "suspended", "failed", "done"}

Request == 1 .. MaxRequests

VARIABLES
    req,       \* what each request asks, where it is, and its answer
    reg,       \* Server.sessions: the live session registered under an id
    live,      \* Live and its kernel, by the request that opened it
    queue,     \* the command channel of each driver
    stored,    \* the status in the latest checkpoint of each session's log
    sent,      \* number of requests received
    cancels, turns,           \* counters for the bounds
    asked,     \* history: prompts a cancel reached before their answer
    cut,       \* history: prompts whose turn ended as cancelled
    crowded    \* history: prompts another prompt of the session overtook

vars == <<req, reg, live, queue, stored, sent, cancels, turns, asked, cut, crowded>>

history == <<asked, cut, crowded>>
bounds == <<cancels, turns>>

-----------------------------------------------------------------------------
(* State *)

Unsent == [kind |-> "none", sid |-> None, at |-> "unsent", to |-> 0, out |-> "none"]

NotLive == [sid |-> None, up |-> FALSE, status |-> "none", token |-> "none",
            cancel_requested |-> FALSE, message |-> FALSE, waker |-> FALSE, lost |-> FALSE,
            serving |-> 0]

count == Cardinality({s \in Sid : reg[s] # None})

\* Request r is answered with o.
Answer(r, o) == [req EXCEPT ![r].at = "answered", ![r].out = o, ![r].sid = None]

\* The token of a kernel whose status has just been set (Kernel::set_status).
TokenFor(status) == IF status = "running" THEN "armed" ELSE "none"

\* Server::adopt: the kernel gets its driver and its place in the registry; a
\* live session already registered under the id is dropped from it.
Adopt(r, s, status, token, lost) ==
    /\ live' = [live EXCEPT ![r] = [NotLive EXCEPT !.sid = s, !.up = TRUE, !.lost = lost,
                                        !.status = status, !.token = token]]
    /\ reg' = [reg EXCEPT ![s] = r]
    /\ stored' = [stored EXCEPT ![s] = status]
    /\ req' = Answer(r, "ok")

-----------------------------------------------------------------------------
(* The handlers.  Each runs as a whole: nothing in it awaits. *)

Receives(r, kind, s, at, to, out) ==
    /\ r = sent + 1 /\ sent < MaxRequests
    /\ sent' = r
    /\ req' = [req EXCEPT ![r] = [kind |-> kind, sid |-> s, at |-> at, to |-> to, out |-> out]]
    /\ UNCHANGED <<queue, stored, bounds>>

\* session/new: the check is made here, the session is opened by a task.
ReceiveNew(r) ==
    /\ \/ /\ Single /\ count > 0
          /\ Receives(r, "new", None, "answered", 0, "error")
       \/ \E s \in Sid :
             /\ ~ (Single /\ count > 0)
             /\ stored[s] = "none" /\ \A q \in Request : req[q].at = "launch" => req[q].sid # s
             /\ Receives(r, "new", s, "launch", 0, "none")
    /\ UNCHANGED <<reg, live, history>>

\* session/load and session/resume: everything is left to a task.
ReceiveLoad(r) ==
    \E s \in Sid :
        /\ Receives(r, "load", s, "check", 0, "none")
        /\ UNCHANGED <<reg, live, history>>

Unknown(r, kind, s) ==
    /\ reg[s] = None
    /\ Receives(r, kind, None, "answered", 0, "unknown")
    /\ UNCHANGED <<reg, live, history>>

Unanswered(i) == {q \in Request : req[q].kind = "prompt" /\ req[q].to = i
                                      /\ req[q].at # "answered"}

\* A prompt without text.
ReceiveEmptyPrompt(r) ==
    \E s \in Sid :
        /\ reg[s] # None
        /\ Receives(r, "prompt", None, "answered", 0, "error")
        /\ UNCHANGED <<reg, live, history>>

ReceivePrompt_KeepFlag(r) ==
    \E s \in Sid :
        \/ Unknown(r, "prompt", s)
        \/ LET i == reg[s] IN
           /\ i # None
           /\ Receives(r, "prompt", s, "send", i, "none")
           /\ crowded' = crowded \cup Unanswered(i)
           /\ UNCHANGED <<reg, live, asked, cut>>

\* session/prompt: forgets earlier cancels, then a task sends the command.
ReceivePrompt(r) ==
    \E s \in Sid :
        \/ Unknown(r, "prompt", s)
        \/ LET i == reg[s] IN
           /\ i # None
           /\ Receives(r, "prompt", s, "send", i, "none")
           /\ live' = [live EXCEPT ![i].cancel_requested = FALSE]
           /\ crowded' = crowded \cup Unanswered(i)
           /\ UNCHANGED <<reg, asked, cut>>

\* session/close: the session leaves the registry at once, a task ends it.
ReceiveClose(r) ==
    \E s \in Sid :
        \/ Unknown(r, "close", s)
        \/ /\ reg[s] # None
           /\ Receives(r, "close", s, "send", reg[s], "none")
           /\ reg' = [reg EXCEPT ![s] = None]
           /\ UNCHANGED <<live, history>>

\* _grist/status.
ReceiveStatus(r) ==
    \E s \in Sid :
        \/ Unknown(r, "status", s)
        \/ /\ reg[s] # None
           /\ Receives(r, "status", s, "send", reg[s], "none")
           /\ UNCHANGED <<reg, live, history>>

Fire(token) == IF token = "none" THEN "none" ELSE "fired"

ReceiveCancel_NoFlag ==
    \E s \in Sid :
        LET i == reg[s] IN
        /\ i # None /\ cancels < MaxCancels /\ sent < MaxRequests
        /\ live' = [live EXCEPT ![i].token = Fire(@)]
        /\ cancels' = cancels + 1
        /\ asked' = asked \cup Unanswered(i)
        /\ UNCHANGED <<req, reg, queue, stored, sent, turns, cut, crowded>>

\* session/cancel and _grist/cancel of the turn: note the request, fire the
\* turn's token if there is one.  An unknown session is ignored.
ReceiveCancel ==
    \E s \in Sid :
        LET i == reg[s] IN
        /\ i # None /\ cancels < MaxCancels /\ sent < MaxRequests
        /\ live' = [live EXCEPT ![i].cancel_requested = TRUE, ![i].token = Fire(@)]
        /\ cancels' = cancels + 1
        /\ asked' = asked \cup Unanswered(i)
        /\ UNCHANGED <<req, reg, queue, stored, sent, turns, cut, crowded>>

-----------------------------------------------------------------------------
(* The tasks the handlers spawn. *)

\* The record, the profile, the endpoint or the log is unusable: an error.
LaunchFails(r) ==
    /\ req[r].at = "launch"
    /\ req' = Answer(r, "error")
    /\ UNCHANGED <<reg, live, queue, stored, sent, bounds, history>>

\* session/new: create_session, then adopt.
CreateSession(r) ==
    /\ req[r].kind = "new" /\ req[r].at = "launch"
    /\ Adopt(r, req[r].sid, "created", "none", FALSE)
    /\ UNCHANGED <<queue, sent, bounds, history>>

\* reopen's checks, up to the first await.
ReopenCheck(r) ==
    /\ req[r].at = "check"
    /\ req' = IF reg[req[r].sid] # None \/ (Single /\ count > 0)
              THEN Answer(r, "error") ELSE [req EXCEPT ![r].at = "launch"]
    /\ UNCHANGED <<reg, live, queue, stored, sent, bounds, history>>

\* Kernel::open for ResumeCause::Operator: a session without a checkpoint or
\* with a final one is refused, a suspended or failed one goes on.  If its log
\* ends cleanly, which one left running does not, a task it left open on an
\* in-process waker stays open, and its future died with that process.
Reopen(r) ==
    LET s == req[r].sid
        status == stored[s] IN
    /\ req[r].kind = "load" /\ req[r].at = "launch"
    /\ \/ /\ status \in {"none", "created", "done"}
          /\ req' = Answer(r, "error")
          /\ UNCHANGED <<reg, live, stored>>
       \/ /\ status \in {"suspended", "failed"}
          /\ \E lost \in BOOLEAN : Adopt(r, s, "running", "armed", lost)
       \/ /\ status = "idle"
          /\ \E lost \in BOOLEAN : Adopt(r, s, "idle", "none", lost)
       \/ /\ status = "running"
          /\ Adopt(r, s, "running", "none", FALSE)
    /\ UNCHANGED <<queue, sent, bounds, history>>

\* Driver::send: the command waits for a place in the channel; if the driver
\* is gone the answer is None.
SendCmd(r) ==
    LET i == req[r].to IN
    /\ req[r].at = "send"
    /\ \/ /\ live[i].up /\ Len(queue[i]) < Cap
          /\ queue' = [queue EXCEPT ![i] = Append(@, r)]
          /\ req' = [req EXCEPT ![r].at = "queued"]
       \/ /\ ~ live[i].up
          /\ req' = [req EXCEPT ![r].at = "replied", ![r].out = "gone"]
          /\ UNCHANGED queue
    /\ UNCHANGED <<reg, live, stored, sent, bounds, history>>

\* How the end of a run is told to the client.
stop_response(stop, cancelled) ==
    CASE stop = "idle"      -> IF cancelled THEN "cancelled" ELSE "end_turn"
      [] stop = "suspended" -> "end_turn"
      [] stop = "failed"    -> "failed"

\* The task that awaits the driver answers the client; a prompt's task reads
\* cancel_requested only now.
TaskAnswers(r) ==
    LET o == req[r].out
        kind == req[r].kind
        i == req[r].to IN
    /\ req[r].at = "replied"
    /\ req' = Answer(r,
           IF o = "error" THEN "error"
           ELSE IF o = "gone" THEN IF kind = "close" THEN "ok" ELSE "ended"
           ELSE IF kind = "prompt" THEN stop_response(o, live[i].cancel_requested)
           ELSE "ok")
    /\ UNCHANGED <<reg, live, queue, stored, sent, bounds, history>>

-----------------------------------------------------------------------------
(* The driver (session.rs, drive) and what it sees of its kernel. *)

\* The driver of i takes the next command.  A prompt's message goes to the
\* inbox; a session that is already running starts its turn right away.
DriverTakes(i) ==
    LET r == Head(queue[i]) IN
    /\ live[i].up /\ live[i].serving = 0 /\ queue[i] # <<>>
    /\ queue' = [queue EXCEPT ![i] = Tail(@)]
    /\ \/ /\ req[r].kind = "status"
          /\ req' = [req EXCEPT ![r].at = "replied", ![r].out = "value"]
          /\ UNCHANGED live
       \/ /\ req[r].kind = "close"
          /\ live' = [live EXCEPT ![i].serving = r]
          /\ UNCHANGED req
       \/ /\ req[r].kind = "prompt"
          /\ live' = [live EXCEPT ![i].serving = r, ![i].message = TRUE,
                          ![i].token = IF live[i].status = "running" /\ @ = "none"
                                       THEN "armed" ELSE @]
          /\ UNCHANGED req
    /\ UNCHANGED <<reg, stored, sent, bounds, history>>

Prompting(i) == live[i].up /\ live[i].serving # 0 /\ req[live[i].serving].kind = "prompt"

\* The kernel of i has status s in memory and in a checkpoint.
SetStatus(i, s, message, waker) ==
    /\ live' = [live EXCEPT ![i].status = s, ![i].token = TokenFor(s),
                    ![i].message = message, ![i].waker = waker]
    /\ stored' = [stored EXCEPT ![live[i].sid] = s]

\* `run` returns: the driver replies and is ready for the next command.
Stops(i, s, stop) ==
    /\ live' = [live EXCEPT ![i].status = s, ![i].token = TokenFor(s),
                    ![i].message = FALSE, ![i].waker = FALSE, ![i].serving = 0]
    /\ stored' = [stored EXCEPT ![live[i].sid] = s]
    /\ req' = [req EXCEPT ![live[i].serving].at = "replied", ![live[i].serving].out = stop]

\* The message starts a session that is not running.
KernelStarts(i) ==
    /\ Prompting(i) /\ live[i].message /\ live[i].status # "running"
    /\ SetStatus(i, "running", FALSE, FALSE)
    /\ UNCHANGED <<req, reg, queue, sent, bounds, history>>

\* A terminal update from a waker of this process resumes a suspended session.
KernelWakes(i) ==
    /\ Prompting(i) /\ ~ live[i].message /\ live[i].status = "suspended" /\ live[i].waker
    /\ SetStatus(i, "running", FALSE, FALSE)
    /\ UNCHANGED <<req, reg, queue, sent, bounds, history>>

Turning(i) == Prompting(i) /\ live[i].status = "running"

\* A turn ends and another follows (tool results, or a message drained at its
\* end); the next turn has a fresh token.
TurnContinues(i) ==
    /\ Turning(i) /\ (live[i].message \/ turns < MaxTurns)
    /\ turns' = IF live[i].message THEN turns ELSE turns + 1
    /\ SetStatus(i, "running", FALSE, FALSE)
    /\ UNCHANGED <<req, reg, queue, sent, cancels, history>>

\* A turn suspends the session on an in-process waker, its own or one of a dead
\* process (the flag of the task does not tell them apart): run_through goes on.
TurnSuspends(i) ==
    /\ Turning(i) /\ ~ live[i].message
    /\ \E own \in BOOLEAN :
          /\ IF own THEN turns < MaxTurns /\ turns' = turns + 1
                    ELSE live[i].lost /\ turns' = turns
          /\ SetStatus(i, "suspended", FALSE, own)
    /\ UNCHANGED <<req, reg, queue, sent, cancels, history>>

\* A turn sees its fired token; cancel_turn drains the inbox and goes idle.
TurnCut(i) ==
    /\ Turning(i) /\ live[i].token = "fired"
    /\ Stops(i, "idle", "idle")
    /\ cut' = cut \cup {live[i].serving}
    /\ UNCHANGED <<reg, queue, sent, bounds, asked, crowded>>

\* A turn ends the run: idle if no task is open, suspended if all that are wait
\* for an external waker, or failed.
TurnStops(i) ==
    /\ Turning(i)
    /\ \/ /\ ~ live[i].message /\ ~ live[i].lost
          /\ Stops(i, "idle", "idle") \/ Stops(i, "suspended", "suspended")
       \/ Stops(i, "failed", "failed")
    /\ UNCHANGED <<reg, queue, sent, bounds, history>>

\* The log refuses an append: `run` returns an error and the kernel stays in
\* the status it had.  The rest of its batch is gone, and what the waker of a
\* task delivered may have been in it.
RunFails(i) ==
    /\ Prompting(i)
    /\ \E lost \in {live[i].lost, TRUE} :
          live' = [live EXCEPT ![i].token = TokenFor(live[i].status), ![i].message = FALSE,
                      ![i].lost = lost, ![i].serving = 0]
    /\ req' = [req EXCEPT ![live[i].serving].at = "replied", ![live[i].serving].out = "error"]
    /\ UNCHANGED <<reg, queue, stored, sent, bounds, history>>

\* The driver replies o and returns: the commands behind are dropped, and
\* with them the channels their senders wait on.
DriverReturns(i, o) ==
    /\ queue' = [queue EXCEPT ![i] = <<>>]
    /\ req' = [r \in Request |->
          IF r = live[i].serving THEN [req[r] EXCEPT !.at = "replied", !.out = o]
          ELSE IF \E n \in DOMAIN queue[i] : queue[i][n] = r
          THEN [req[r] EXCEPT !.at = "replied", !.out = "gone"]
          ELSE req[r]]

DriverEnds_KeepQueue(i) ==
    /\ live[i].up /\ live[i].serving # 0 /\ req[live[i].serving].kind = "close"
    /\ req' = [req EXCEPT ![live[i].serving].at = "replied", ![live[i].serving].out = "ended"]
    /\ live' = [live EXCEPT ![i].status = "done", ![i].token = "none", ![i].up = FALSE]
    /\ stored' = [stored EXCEPT ![live[i].sid] = "done"]
    /\ UNCHANGED <<reg, queue, sent, bounds, history>>

DriverEnds_IgnoreError(i) ==
    /\ live[i].up /\ live[i].serving # 0 /\ req[live[i].serving].kind = "close"
    /\ DriverReturns(i, "ended")
    /\ \/ /\ live' = [live EXCEPT ![i].status = "done", ![i].token = "none", ![i].up = FALSE]
          /\ stored' = [stored EXCEPT ![live[i].sid] = "done"]
       \/ /\ live' = [live EXCEPT ![i].up = FALSE]
          /\ UNCHANGED stored
    /\ UNCHANGED <<reg, sent, bounds, history>>

\* Cmd::End: Kernel::end writes the final checkpoint, or the log refuses it;
\* either way the driver returns.
DriverEnds(i) ==
    /\ live[i].up /\ live[i].serving # 0 /\ req[live[i].serving].kind = "close"
    /\ \/ /\ DriverReturns(i, "ended")
          /\ live' = [live EXCEPT ![i].status = "done", ![i].token = "none", ![i].up = FALSE]
          /\ stored' = [stored EXCEPT ![live[i].sid] = "done"]
       \/ /\ DriverReturns(i, "error")
          /\ live' = [live EXCEPT ![i].up = FALSE]
          /\ UNCHANGED stored
    /\ UNCHANGED <<reg, sent, bounds, history>>

\* No sender is left (the registry dropped the session for another and every
\* task that used it is through): recv returns None and the driver returns.
DriverDropped(i) ==
    /\ live[i].up /\ live[i].serving = 0 /\ queue[i] = <<>>
    /\ \A s \in Sid : reg[s] # i
    /\ \A r \in Request : req[r].to = i => req[r].at = "answered"
    /\ live' = [live EXCEPT ![i].up = FALSE]
    /\ UNCHANGED <<req, reg, queue, stored, sent, bounds, history>>

-----------------------------------------------------------------------------

\* Earlier processes may have left sessions behind.
Init ==
    /\ req = [r \in Request |-> Unsent]
    /\ reg = [s \in Sid |-> None]
    /\ live = [r \in Request |-> NotLive]
    /\ queue = [r \in Request |-> <<>>]
    /\ stored \in [Sid -> Left]
    /\ sent = 0 /\ cancels = 0 /\ turns = 0
    /\ asked = {} /\ cut = {} /\ crowded = {}

Client ==
    \/ \E r \in Request :
          \/ ReceiveNew(r) \/ ReceiveLoad(r) \/ ReceivePrompt(r) \/ ReceiveEmptyPrompt(r)
          \/ ReceiveClose(r) \/ ReceiveStatus(r)
    \/ ReceiveCancel

Task(r) ==
    CreateSession(r) \/ ReopenCheck(r) \/ Reopen(r) \/ SendCmd(r) \/ TaskAnswers(r)

Run(i) == KernelStarts(i) \/ TurnContinues(i) \/ TurnSuspends(i) \/ TurnCut(i) \/ TurnStops(i)

Drive(i) == DriverTakes(i) \/ Run(i) \/ DriverEnds(i) \/ DriverDropped(i)

Next ==
    \/ Client
    \/ \E r \in Request : Task(r) \/ LaunchFails(r) \/ Drive(r) \/ KernelWakes(r) \/ RunFails(r)

Spec == Init /\ [][Next]_vars

\* Spawned tasks and drivers are polled as long as they can go on (tokio), and
\* the model and the tools of a turn answer.  A future this process watches
\* resolves: the supervisor behind it reports (ToolProcess, TaskReported).  No
\* waker is assumed for a task that is lost.
FairSpec ==
    /\ Spec
    /\ \A r \in Request : WF_vars(Task(r)) /\ WF_vars(Drive(r)) /\ WF_vars(KernelWakes(r))

-----------------------------------------------------------------------------
(* Properties *)

Statuses == {"none", "created", "idle", "running", "suspended", "failed", "done"}

\* Every variable of the server has its type.
TypeOK ==
    /\ req \in [Request -> [kind : {"none", "new", "load", "prompt", "close", "status"},
                            sid : Sid \cup {None},
                            at : {"unsent", "check", "launch", "send", "queued", "replied", "answered"},
                            to : 0 .. MaxRequests,
                            out : {"none", "ok", "error", "unknown", "gone", "value", "ended", "idle",
                                   "suspended", "failed", "end_turn", "cancelled"}]]
    /\ \A s \in Sid : reg[s] = None \/ reg[s] \in Request
    /\ live \in [Request -> [sid : Sid \cup {None}, up : BOOLEAN, status : Statuses,
                             token : {"none", "armed", "fired"}, cancel_requested : BOOLEAN,
                             message : BOOLEAN, waker : BOOLEAN, lost : BOOLEAN,
                             serving : 0 .. MaxRequests]]
    /\ \A i \in Request : Len(queue[i]) <= Cap
    /\ stored \in [Sid -> Statuses]
    /\ asked \subseteq Request /\ cut \subseteq Request /\ crowded \subseteq Request

Answered(r, o) == req[r].at = "answered" /\ req[r].out = o

\* A prompt is answered `cancelled` only if a cancel reached the server between
\* the prompt and its answer: a cancel meant for an earlier prompt, however
\* late its turn ends, is never charged to a later one (the store of FALSE in
\* the prompt handler against the loads in the tasks).
CancelledWasAsked == \A r \in Request : Answered(r, "cancelled") => r \in asked

\* A prompt whose turn was cut after a cancel that reached it is answered
\* `cancelled`, not end_turn, unless a later prompt of the session came
\* before the answer and reset the flag.
CutSaysCancelled ==
    \A r \in (cut \cap asked) \ crowded :
        req[r].at = "answered" => req[r].out = "cancelled"

\* session/close answers ok only once Kernel::end has made the session final,
\* although the close waits behind other commands, and the driver may be gone.
ClosedMeansEnded ==
    \A r \in Request :
        req[r].kind = "close" /\ Answered(r, "ok") => live[req[r].to].status = "done"

\* The driver of i waits for a waker that died with an earlier process.
Stranded(i) ==
    /\ Prompting(i) /\ ~ live[i].message
    /\ live[i].status = "suspended" /\ live[i].lost /\ ~ live[i].waker

\* Every request is answered in the end: those queued behind a close, those
\* that find the channel full and those whose driver is gone too.  Excepted is
\* what waits for a stranded driver, and nothing else: run_through has no way
\* out of a suspension whose waker is gone.
AllAnswered ==
    []<>(\A r \in Request :
            \/ req[r].at \in {"unsent", "answered"}
            \/ \E i \in Request : req[r].to = i /\ Stranded(i))
=============================================================================
