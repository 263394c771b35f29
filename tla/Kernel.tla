------------------------------- MODULE Kernel -------------------------------
(***************************************************************************)
(* One session of grist-agent's kernel (crates/kernel/src/loop_): the      *)
(* status machine, the turn, the tool calls it makes, the tasks they start *)
(* and the in-process wakers that complete them, the inbox, cancellation,  *)
(* turn failure, checkpoints, and the processes that die and reopen the    *)
(* session.                                                                *)
(*                                                                         *)
(* The kernel is one sequential process (`&mut self`); its program counter *)
(* is pc, and every `.await` that another party can use is a step of its   *)
(* own.  Handles, wakers and the operating system run between its steps.   *)
(*                                                                         *)
(* What is abstract.  A message is its role and what it answers.  A call   *)
(* and the task it starts are <<turn, index of the call>>.  Pending and    *)
(* running tasks are "open", succeeded and failed ones "finished".  Of the *)
(* log only the last checkpoint and whether the log ends cleanly remain    *)
(* (EventLog models the rest).  Model, tools and middleware are external:  *)
(* they may answer, fail or never return.                                  *)
(***************************************************************************)
EXTENDS Naturals, Sequences, FiniteSets

CONSTANTS
    User,         \* the user messages of the session
    MaxTurns,     \* bound on State.turn
    MaxCalls,     \* bound on the tool calls of one response
    MaxDeaths,    \* bound on the processes that die
    MaxFaults,    \* bound on the appends the log refuses
    MaxOutside,   \* bound on cancels, external updates and caller operations
    HasChain      \* whether a middleware is configured

ASSUME KernelBounds ==
    /\ MaxTurns \in Nat /\ MaxCalls \in Nat /\ MaxDeaths \in Nat
    /\ MaxFaults \in Nat /\ MaxOutside \in Nat
    /\ HasChain \in BOOLEAN

Status == {"created", "running", "idle", "suspended", "failed", "done"}
Task == (1 .. MaxTurns) \X (1 .. MaxCalls)

VARIABLES
    st,        \* Kernel.state: turn, status, msgs, tasks, waker
    snap,      \* run_turn's snapshot
    pc,        \* where the kernel is; "out": in no method; "down": no process
    path,      \* why the turn drains its inbox: "end", "cancel" or "fail"
    calls,     \* the number of tool calls of this turn's response
    cur,       \* the call being handled
    out,       \* its outcome: "none", "value", "task" or "cancelled"
    anyUser,   \* a user message was drained or is in the batch
    changed,   \* the batch changed the state
    woke,      \* the batch held a terminal update
    inbox,     \* the handle's channel
    batch,     \* input taken from the channel and not applied yet
    turnTok,   \* CancelState.turn: "none", "armed" or "fired"
    toolTok,   \* the token of the running tool, likewise
    ended,     \* CancelState.session is cancelled: `end` has been called
    wakers,    \* tasks whose completion future is live
    firing,    \* futures that have resolved and are about to deliver
    watched,   \* tasks ever watched by this process
    ck,        \* the latest checkpoint of the log
    clean,     \* the log ends cleanly (reader::ends_cleanly)
    seen,      \* history: user messages logged since the latest checkpoint
    kept,      \* history: those that a checkpoint has followed
    unsent,    \* user messages not sent yet
    deaths, faults, outside    \* counters for the bounds

loopVars == <<snap, pc, path, calls, cur, out, anyUser, changed, woke, batch>>
tokVars  == <<turnTok, toolTok, ended>>
wakeVars == <<wakers, firing, watched>>
logVars  == <<ck, clean, seen, kept>>
envVars  == <<unsent, deaths, faults, outside>>
vars == <<st, loopVars, inbox, tokVars, wakeVars, logVars, envVars>>

-----------------------------------------------------------------------------
(* State *)

NoTasks == [t \in Task |-> "none"]

Created == [turn |-> 0, status |-> "created", msgs |-> <<>>,
            tasks |-> NoTasks, waker |-> {}]

\* Kernel::create writes no checkpoint: ck is this value until the first one.
NoCheckpoint == [Created EXCEPT !.status = "none"]

open_tasks(s) == {t \in Task : s.tasks[t] = "open"}

Push(s, m) == [s EXCEPT !.msgs = Append(@, m)]

\* The terminal transition: the task closes and a synthetic result is pushed.
Close(s, t, how) == Push([s EXCEPT !.tasks[t] = how], <<"result", t>>)

cancel_task_in_state(s, t) == IF t \in open_tasks(s) THEN Close(s, t, "cancelled") ELSE s

ThisTask == <<st.turn, cur>>

-----------------------------------------------------------------------------
(* Applying input: apply_user_message, apply_task_update, apply_cancel_task *)

Item == ({"user"} \X User) \cup ({"progress", "final", "bad", "cancel"} \X Task)

\* Mutant: an update is refused only if the task is unknown.
Effect_Known(s, i) ==
    CASE i[1] = "user" -> "user"
      [] i[1] = "cancel" -> IF i[2] \in open_tasks(s) THEN "terminal" ELSE "nothing"
      [] OTHER -> IF s.tasks[i[2]] = "none" \/ i[1] = "bad" THEN "ignored"
                  ELSE IF i[1] = "final" THEN "terminal" ELSE "progress"

\* What an item does to state s.  "bad" is a terminal update with no outcome.
Effect(s, i) ==
    CASE i[1] = "user" -> "user"
      [] i[1] = "cancel" -> IF i[2] \in open_tasks(s) THEN "terminal" ELSE "nothing"
      [] OTHER -> IF i[2] \notin open_tasks(s) \/ i[1] = "bad" THEN "ignored"
                  ELSE IF i[1] = "final" THEN "terminal" ELSE "progress"

Apply(s, i) ==
    CASE i[1] = "user" -> Push(s, i)
      [] i[1] = "cancel" -> cancel_task_in_state(s, i[2])
      [] i[1] = "final" /\ Effect(s, i) = "terminal" -> Close(s, i[2], "finished")
      [] OTHER -> s

\* Mutant: a progress report drops the future too.
Aborts_AnyUpdate(s, i) == IF i[1] = "user" THEN {} ELSE {i[2]}

\* registrar.abort: always by a cancel, and by an update that is terminal.
Aborts(s, i) ==
    IF i[1] = "cancel" \/ (i[1] = "final" /\ Effect(s, i) = "terminal") THEN {i[2]} ELSE {}

\* One item applied to the kernel's state, with its events logged.
Take(i) ==
    /\ st' = Apply(st, i)
    /\ wakers' = wakers \ Aborts(st, i)
    /\ seen' = IF i[1] = "user" THEN seen \cup {i[2]} ELSE seen
    /\ clean' = IF Effect(st, i) = "nothing" THEN clean ELSE FALSE
    /\ UNCHANGED <<firing, watched, ck, kept>>

\* The same item when the log refuses its event: a user message is not pushed,
\* a task has already changed.
TakeUnlogged(i) ==
    /\ Effect(st, i) # "nothing"
    /\ faults < MaxFaults
    /\ faults' = faults + 1
    /\ st' = IF i[1] = "user" THEN st ELSE Apply(st, i)
    /\ wakers' = wakers \ Aborts(st, i)
    /\ UNCHANGED <<firing, watched, unsent, deaths, outside>>

-----------------------------------------------------------------------------
(* set_status and checkpoint *)

WithStatus(s, status) == [s EXCEPT !.status = status]

\* A child of the session token is born cancelled once that one is.
child_token == IF ended THEN "fired" ELSE "armed"

\* The turn token exists for the whole running span.
TokenFor(status) ==
    IF status # "running" THEN "none" ELSE IF turnTok = "none" THEN child_token ELSE turnTok

\* checkpoint: state s is the latest checkpoint of the log.
Checkpoint(s) ==
    /\ ck' = s
    /\ clean' = (s.status = "idle")
    /\ kept' = kept \cup seen
    /\ seen' = {}

\* The same, when a cause c with its event comes right before it.
CheckpointWith(s, c) ==
    /\ ck' = s
    /\ clean' = (s.status = "idle")
    /\ kept' = kept \cup seen \cup {u \in User : c = <<<<"user", u>>>>}
    /\ seen' = {}

\* Any other event.
Log == clean' = FALSE /\ UNCHANGED <<ck, seen, kept>>

LogRefuses == faults < MaxFaults /\ faults' = faults + 1 /\ UNCHANGED <<unsent, deaths, outside>>

Goto(l) == pc' = l /\ UNCHANGED <<snap, path, calls, cur, out, anyUser, changed, woke, batch>>

\* The locals of a method are gone when control leaves it for location l.
FreshOn(l, p) ==
    /\ pc' = l /\ path' = p /\ calls' = 0 /\ cur' = 1 /\ out' = "none"
    /\ anyUser' = FALSE /\ changed' = FALSE /\ woke' = FALSE /\ batch' = <<>>
    /\ snap' = Created

Fresh(l) == FreshOn(l, "end")

\* A method of the kernel returns (Ok or Err) to its caller.
Return == Fresh("out")

-----------------------------------------------------------------------------
(* run, apply_queued_input and apply_inbound_batch *)

Outside == outside < MaxOutside /\ outside' = outside + 1 /\ UNCHANGED <<unsent, deaths, faults>>

Run == /\ pc = "out" /\ st.status # "done"
       /\ Goto("run")
       /\ UNCHANGED <<st, inbox, tokVars, wakeVars, logVars, envVars>>

\* Mutant: only the first item of the channel is applied.
TakeBatch_FirstOnly ==
    /\ pc \in {"run", "out"} /\ st.status \notin {"running", "done"}
    /\ inbox # <<>>
    /\ batch' = <<Head(inbox)>> /\ inbox' = <<>>
    /\ pc' = "batch" /\ path' = IF pc = "run" THEN "run" ELSE "once"
    /\ UNCHANGED <<st, snap, calls, cur, out, anyUser, changed, woke, tokVars, wakeVars, logVars,
                   envVars>>

\* run in created, idle, suspended or failed: the channel yields an item and
\* the batch is everything it holds.  apply_queued_input is the same from
\* "out" without waiting, and does not go on to a turn.
TakeBatch ==
    /\ pc \in {"run", "out"} /\ st.status \notin {"running", "done"}
    /\ inbox # <<>>
    /\ batch' = inbox /\ inbox' = <<>>
    /\ pc' = "batch" /\ path' = IF pc = "run" THEN "run" ELSE "once"
    /\ UNCHANGED <<st, snap, calls, cur, out, anyUser, changed, woke, tokVars, wakeVars, logVars,
                   envVars>>

ApplyBatched ==
    /\ pc = "batch" /\ batch # <<>>
    /\ LET i == Head(batch) e == Effect(st, i) IN
          /\ Take(i)
          /\ anyUser' = (anyUser \/ e = "user")
          /\ changed' = (changed \/ e \in {"user", "progress", "terminal"})
          /\ woke' = (woke \/ e = "terminal")
    /\ batch' = Tail(batch)
    /\ UNCHANGED <<snap, pc, path, calls, cur, out, inbox, tokVars, envVars>>

\* An item's event is refused: the method returns Err and the rest of the
\* batch is gone.
ApplyBatchedFault ==
    /\ pc = "batch" /\ batch # <<>>
    /\ TakeUnlogged(Head(batch))
    /\ Return
    /\ UNCHANGED <<inbox, tokVars, logVars>>

\* Mutant: only user input is checkpointed.
EndBatch_UserOnly ==
    /\ pc = "batch" /\ batch = <<>>
    /\ LET s == IF anyUser \/ (woke /\ st.status = "suspended")
                THEN "running" ELSE st.status IN
          /\ st' = WithStatus(st, s)
          /\ turnTok' = TokenFor(s)
          /\ IF anyUser THEN Checkpoint(st') ELSE UNCHANGED logVars
          /\ Fresh(IF path = "run" /\ s \in {"running", "created"} THEN "run" ELSE "out")
    /\ UNCHANGED <<inbox, toolTok, ended, wakeVars, envVars>>

\* The batch is applied: a user message, or a terminal update of a suspended
\* session, starts a turn; one checkpoint if anything changed.
EndBatch ==
    /\ pc = "batch" /\ batch = <<>>
    /\ LET s == IF anyUser \/ (woke /\ st.status = "suspended")
                THEN "running" ELSE st.status IN
          /\ st' = WithStatus(st, s)
          /\ turnTok' = TokenFor(s)
          /\ IF changed THEN Checkpoint(st') ELSE UNCHANGED logVars
          /\ Fresh(IF path = "run" /\ s \in {"running", "created"} THEN "run" ELSE "out")
    /\ UNCHANGED <<inbox, toolTok, ended, wakeVars, envVars>>

\* ... or its checkpoint is refused.
EndBatchFault ==
    /\ pc = "batch" /\ batch = <<>> /\ changed
    /\ LogRefuses
    /\ LET s == IF anyUser \/ (woke /\ st.status = "suspended")
                THEN "running" ELSE st.status IN
          st' = WithStatus(st, s) /\ turnTok' = TokenFor(s)
    /\ Return
    /\ UNCHANGED <<inbox, toolTok, ended, wakeVars, logVars>>

-----------------------------------------------------------------------------
(* run_turn and turn_body *)

\* turn_body is left: tool tokens are dropped, a running session gets a fresh
\* turn token, and fail_turn or cancel_turn follows.
Leave(l) ==
    /\ Goto(l)
    /\ toolTok' = "none"
    /\ turnTok' = IF st.status = "running" THEN child_token ELSE "none"
    /\ UNCHANGED ended

Fired == turnTok = "fired"

\* A check point finds the turn token cancelled.
Cancelled ==
    /\ Fired
    /\ Leave("cancel")
    /\ UNCHANGED <<st, inbox, wakeVars, logVars, envVars>>

\* Mutant: the snapshot is the one taken when the session was created.
StartTurn_StaleSnapshot ==
    /\ pc = "run" /\ st.status = "running" /\ st.turn < MaxTurns
    /\ st' = [st EXCEPT !.turn = @ + 1]
    /\ turnTok' = TokenFor("running")
    /\ pc' = "before" /\ calls' = 0 /\ cur' = 1 /\ out' = "none" /\ anyUser' = FALSE
    /\ UNCHANGED <<snap, path, changed, woke, batch, inbox, toolTok, ended, wakeVars, logVars, envVars>>

StartTurn ==
    /\ pc = "run" /\ st.status = "running" /\ st.turn < MaxTurns
    /\ st' = [st EXCEPT !.turn = @ + 1]
    /\ snap' = st'
    /\ turnTok' = TokenFor("running")
    /\ pc' = "before" /\ calls' = 0 /\ cur' = 1 /\ out' = "none" /\ anyUser' = FALSE
    /\ UNCHANGED <<path, changed, woke, batch, inbox, toolTok, ended, wakeVars, logVars, envVars>>

\* B. A before_model hook asked for a compaction: the on_compact chain runs
\* (no hook of the repository changes the messages) and checkpoints.
MidTurnCompaction ==
    /\ pc = "before" /\ HasChain /\ ~ Fired
    /\ Outside
    /\ Checkpoint(st)
    /\ UNCHANGED <<st, loopVars, inbox, tokVars, wakeVars>>

\* Its checkpoint is refused, which is fatal: run returns Err in mid-turn.
MidTurnCompactionFault ==
    /\ pc = "before" /\ HasChain /\ ~ Fired
    /\ LogRefuses
    /\ turnTok' = child_token
    /\ Return
    /\ Log
    /\ UNCHANGED <<st, inbox, toolTok, ended, wakeVars>>

\* Past the last hook the request is logged, without another check point.
LogRequest ==
    /\ pc = "before" /\ ~ Fired
    /\ Goto("send")
    /\ Log
    /\ UNCHANGED <<st, inbox, tokVars, wakeVars, envVars>>

\* The request is sent: the select of call_with_retry polls the provider only
\* if the token has not fired.
SendRequest ==
    /\ pc = "send" /\ ~ Fired
    /\ Goto("request")
    /\ UNCHANGED <<st, inbox, tokVars, wakeVars, logVars, envVars>>

\* C. The provider answers before the token fires.
ModelAnswers ==
    /\ pc = "request" /\ ~ Fired
    /\ Goto("respond")
    /\ UNCHANGED <<st, inbox, tokVars, wakeVars, logVars, envVars>>

\* D. The response is logged and the assistant message with n calls pushed.
AfterModel ==
    /\ pc = "respond" /\ ~ Fired
    /\ \E n \in 0 .. MaxCalls :
          /\ st' = Push(st, <<"assistant", st.turn, n>>)
          /\ calls' = n
          /\ pc' = IF n = 0 THEN "drain" ELSE "tool"
    /\ path' = "end"
    /\ Log
    /\ UNCHANGED <<snap, cur, out, anyUser, changed, woke, batch, inbox, tokVars, wakeVars, envVars>>

\* A middleware, the provider (after its retries), redaction or a replay miss
\* fails the turn, or the log refuses one of its events.
TurnFails ==
    /\ pc \in {"before", "request", "respond", "tool", "after"}
    /\ pc = "request" => ~ Fired
    /\ Leave("fail")
    /\ UNCHANGED <<st, inbox, wakeVars, logVars, envVars>>

-----------------------------------------------------------------------------
(* run_tool_calls *)

\* append_tool_output: the result is logged and pushed, a task registered.
WithOutput(o) ==
    LET s == Push(st, <<"tool", ThisTask>>) IN
    IF o # "task" THEN s
    ELSE [s EXCEPT !.tasks[ThisTask] = "open",
                   !.waker = IF ThisTask \in watched THEN @ \cup {ThisTask} ELSE @]

AppendOutput(o) ==
    /\ st' = WithOutput(o)
    /\ cur' = cur + 1
    /\ out' = "none"
    /\ pc' = IF cur = calls THEN "drain" ELSE "tool"
    /\ Log
    /\ UNCHANGED <<snap, path, calls, anyUser, changed, woke, batch, inbox, tokVars, wakeVars, envVars>>

\* E2. The tool is not in the registry.
Unregistered == pc = "tool" /\ ~ Fired /\ AppendOutput("value")

\* E3. A before_tool hook replaces the call.
Replaced ==
    /\ pc = "tool" /\ ~ Fired /\ HasChain
    /\ \E o \in {"value", "task", "cancelled"} : out' = o
    /\ pc' = "after"
    /\ Log
    /\ UNCHANGED <<st, snap, path, calls, cur, anyUser, changed, woke, batch, inbox, tokVars,
                   wakeVars, envVars>>

\* E4, E5. Past the last hook the call is logged, without another check point,
\* and the tool gets its token.
LogCall ==
    /\ pc = "tool" /\ ~ Fired
    /\ Goto("launch")
    /\ toolTok' = "armed"
    /\ Log
    /\ UNCHANGED <<st, inbox, turnTok, ended, wakeVars, envVars>>

\* ensure_session_process looks at no token: a cancel that comes meanwhile is
\* seen by the select of invoke_tool, which polls the tool only without one.
Invoke ==
    /\ pc = "launch" /\ ~ Fired /\ toolTok = "armed"
    /\ Goto("invoke")
    /\ UNCHANGED <<st, inbox, tokVars, wakeVars, logVars, envVars>>

\* The session process does not start: an error result, also after a cancel.
LaunchFails ==
    /\ pc = "launch"
    /\ pc' = "after" /\ out' = "value"
    /\ toolTok' = "none"
    /\ UNCHANGED <<st, snap, path, calls, cur, anyUser, changed, woke, batch, inbox, turnTok, ended,
                   wakeVars, logVars, envVars>>

\* The running tool registers the future that completes its task (at most
\* once: run_script, the tool of the repository that does, watches once).
ToolWatches ==
    /\ pc = "invoke" /\ ThisTask \notin watched
    /\ wakers' = wakers \cup {ThisTask}
    /\ watched' = watched \cup {ThisTask}
    /\ UNCHANGED <<st, loopVars, inbox, tokVars, firing, logVars, envVars>>

\* E6. The tool returns a value, an error or a timeout ("value"), a task, or
\* reports that it was cancelled.  Without a task its future is dropped.
ToolReturns ==
    /\ pc = "invoke" /\ ~ Fired /\ toolTok = "armed"
    /\ \E o \in {"value", "task", "cancelled"} :
          /\ out' = o
          /\ wakers' = IF o = "task" THEN wakers ELSE wakers \ {ThisTask}
    /\ pc' = "after"
    /\ toolTok' = "none"
    /\ UNCHANGED <<st, snap, path, calls, cur, anyUser, changed, woke, batch, inbox, turnTok, ended,
                   firing, watched, logVars, envVars>>

\* Mutant: the tool's token is not a child of the turn's.
ToolCancelled_ToolOnly ==
    /\ pc \in {"launch", "invoke"} /\ toolTok = "fired"
    /\ wakers' = wakers \ {ThisTask}
    /\ pc' = "after" /\ out' = "cancelled" /\ toolTok' = "none"
    /\ Log
    /\ UNCHANGED <<turnTok, ended, snap, path, calls, cur, anyUser, changed, woke, batch>>
    /\ UNCHANGED <<st, inbox, firing, watched, envVars>>

\* The tool's token, or the turn's, wins the race.
ToolCancelled ==
    /\ pc \in {"launch", "invoke"} /\ (Fired \/ toolTok = "fired")
    /\ wakers' = wakers \ {ThisTask}
    /\ IF Fired
       THEN Leave("cancel") /\ UNCHANGED logVars
       ELSE /\ pc' = "after" /\ out' = "cancelled" /\ toolTok' = "none"
            /\ Log
            /\ UNCHANGED <<turnTok, ended, snap, path, calls, cur, anyUser, changed, woke, batch>>
    /\ UNCHANGED <<st, inbox, firing, watched, envVars>>

\* E7-E10. after_tool hooks, with a check point before each, then the output.
AfterTool == pc = "after" /\ ~ (HasChain /\ Fired) /\ AppendOutput(out)

\* The log refuses task_started, the last event of append_tool_output: the
\* task is already registered.
TaskStartedFault ==
    /\ pc = "after" /\ ~ (HasChain /\ Fired) /\ out = "task"
    /\ LogRefuses
    /\ st' = WithOutput("task")
    /\ Leave("fail")
    /\ UNCHANGED <<inbox, wakeVars, logVars>>

\* The check points at which the kernel can find the token cancelled.
CheckPoint ==
    /\ \/ pc \in {"before", "send", "request", "respond", "tool"}
       \/ pc = "after" /\ HasChain
    /\ Cancelled

-----------------------------------------------------------------------------
(* The end of a turn: drain_inbox_end_of_turn, then its three continuations *)

DrainOne ==
    /\ pc = "drain" /\ inbox # <<>>
    /\ Take(Head(inbox))
    /\ anyUser' = (anyUser \/ Effect(st, Head(inbox)) = "user")
    /\ inbox' = Tail(inbox)
    /\ UNCHANGED <<snap, pc, path, calls, cur, out, changed, woke, batch, tokVars, envVars>>

\* The item is out of the channel when its event is refused.  That fails the
\* turn at its normal end; in cancel_turn and fail_turn it is an Err of run.
DrainFault ==
    /\ pc = "drain" /\ inbox # <<>>
    /\ TakeUnlogged(Head(inbox))
    /\ inbox' = Tail(inbox)
    /\ IF path = "end" THEN Leave("fail") ELSE Return /\ UNCHANGED tokVars
    /\ UNCHANGED logVars

Drained == pc = "drain" /\ inbox = <<>>

\* F2: the status a turn ends with.
NextStatus ==
    IF anyUser \/ calls > 0 THEN "running"
    ELSE IF open_tasks(st) # {} THEN "suspended" ELSE "idle"

\* F3, F4.  A running session goes on with a fresh turn token.
TurnEnd ==
    /\ Drained /\ path = "end"
    /\ st' = WithStatus(st, NextStatus)
    /\ Checkpoint(st')
    /\ turnTok' = IF NextStatus = "running" THEN child_token ELSE "none"
    /\ IF NextStatus = "suspended" THEN Goto("suspending")
       ELSE Fresh(IF NextStatus = "running" THEN "run" ELSE "out")
    /\ UNCHANGED <<inbox, toolTok, ended, wakeVars, envVars>>

\* F5, and the last step of an explicit suspend.
LogSuspended ==
    /\ pc = "suspending"
    /\ Return
    /\ clean' = TRUE
    /\ UNCHANGED <<st, inbox, tokVars, wakeVars, ck, seen, kept, envVars>>

LogSuspendedFault ==
    /\ pc = "suspending"
    /\ LogRefuses
    /\ IF path = "end" THEN Leave("fail") ELSE Return /\ UNCHANGED tokVars
    /\ UNCHANGED <<st, inbox, wakeVars, logVars>>

\* Mutant: only the futures of the skipped calls are dropped.
Unanswered_SkipInFlight(k) == {<<st.turn, i>> : i \in (cur + 1) .. k}

\* cancel_turn: one `cancelled` event; every call without a result gets a
\* synthetic one, in order, and loses its future.  If the log refuses the
\* event or one of the results, run returns Err.
Unanswered(k) == {<<st.turn, i>> : i \in cur .. k}

\* Mutant: the call in flight gets no synthetic result.
AnswerUpTo_SkipInFlight(k) ==
    st' = [st EXCEPT !.msgs = @ \o [i \in 1 .. (k - cur) |-> <<"tool", <<st.turn, cur + i>>>>]]

AnswerUpTo(k) ==
    st' = [st EXCEPT !.msgs = @ \o [i \in 1 .. (k + 1 - cur) |-> <<"tool", <<st.turn, cur + i - 1>>>>]]

CancelTurnBody ==
    /\ pc = "cancel"
    /\ AnswerUpTo(calls)
    /\ wakers' = wakers \ Unanswered(calls)
    /\ Log
    /\ FreshOn("drain", "cancel")
    /\ UNCHANGED <<inbox, tokVars, firing, watched, envVars>>

CancelTurnFault ==
    /\ pc = "cancel"
    /\ \/ UNCHANGED <<st, wakers>>
       \/ \E k \in (cur - 1) .. (calls - 1) :
             AnswerUpTo(k) /\ wakers' = wakers \ Unanswered(k + 1)
    /\ LogRefuses
    /\ Return
    /\ Log
    /\ UNCHANGED <<inbox, tokVars, firing, watched>>

CancelTurnEnd ==
    /\ Drained /\ path = "cancel"
    /\ st' = WithStatus(st, "idle")
    /\ Checkpoint(st')
    /\ turnTok' = "none"
    /\ Return
    /\ UNCHANGED <<inbox, toolTok, ended, wakeVars, envVars>>

\* fail_turn: the futures of tasks the turn registered are dropped and the
\* state is the snapshot again.
StartedHere == {t \in Task : st.tasks[t] # "none" /\ snap.tasks[t] = "none"}

FailTurnBody ==
    /\ pc = "fail"
    /\ st' = snap
    /\ wakers' = wakers \ StartedHere
    /\ Log
    /\ FreshOn("drain", "fail")
    /\ UNCHANGED <<inbox, tokVars, firing, watched, envVars>>

FailTurnFault ==
    /\ pc = "fail"
    /\ st' = snap
    /\ wakers' = wakers \ StartedHere
    /\ LogRefuses
    /\ Return
    /\ UNCHANGED <<inbox, tokVars, firing, watched, logVars>>

FailTurnEnd ==
    /\ Drained /\ path = "fail"
    /\ st' = WithStatus(st, "failed")
    /\ Checkpoint(st')
    /\ turnTok' = "none"
    /\ Goto("failing")
    /\ UNCHANGED <<inbox, toolTok, ended, wakeVars, envVars>>

LogFailed ==
    /\ pc = "failing"
    /\ Return
    /\ clean' = TRUE
    /\ UNCHANGED <<st, inbox, tokVars, wakeVars, ck, seen, kept, envVars>>

\* The checkpoint that ends a turn, or session_failed, is refused: run
\* returns Err with the new status in memory only.
TurnEndFault ==
    /\ \/ Drained /\ path \in {"end", "cancel", "fail"}
       \/ pc = "failing"
    /\ LogRefuses
    /\ LET s == CASE pc = "failing" -> "failed" [] path = "end" -> NextStatus
                  [] path = "cancel" -> "idle" [] OTHER -> "failed" IN
          /\ st' = WithStatus(st, s)
          /\ turnTok' = IF s = "running" THEN child_token ELSE "none"
    /\ Return
    /\ UNCHANGED <<inbox, toolTok, ended, wakeVars, logVars>>

-----------------------------------------------------------------------------
(* suspend, resume, compact and end, called between runs *)

\* Suspend and Resume count as outside steps; so do the rest.
Suspend ==
    /\ pc = "out" /\ st.status \in {"running", "idle"} /\ open_tasks(st) # {}
    /\ Outside
    /\ st' = WithStatus(st, "suspended")
    /\ Checkpoint(st')
    /\ turnTok' = "none"
    /\ FreshOn("suspending", "suspend")
    /\ UNCHANGED <<inbox, toolTok, ended, wakeVars>>

\* The causes of a resume or an open: an operator, or an item.
Cause == {<<>>} \cup {<<i>> : i \in ({"user"} \X unsent) \cup ({"progress", "final", "bad"} \X Task)}

Spend(c) == unsent' = unsent \ (IF c # <<>> /\ c[1][1] = "user" THEN {c[1][2]} ELSE {})

Resume ==
    /\ pc = "out" /\ st.status \in {"suspended", "failed"}
    /\ outside < MaxOutside /\ outside' = outside + 1 /\ UNCHANGED <<deaths, faults>>
    /\ \E c \in Cause : batch' = c /\ Spend(c)
    /\ pc' = "resuming"
    /\ Log
    /\ UNCHANGED <<st, snap, path, calls, cur, out, anyUser, changed, woke, inbox, tokVars, wakeVars>>

\* The cause is applied (even an ignored one) and the session runs.
Resumed == WithStatus(IF batch = <<>> THEN st ELSE Apply(st, batch[1]), "running")

ResumeAborts == IF batch = <<>> THEN {} ELSE Aborts(st, batch[1])

ResumeApply ==
    /\ pc = "resuming"
    /\ st' = Resumed
    /\ CheckpointWith(Resumed, batch)
    /\ wakers' = wakers \ ResumeAborts
    /\ turnTok' = TokenFor("running")
    /\ Return
    /\ UNCHANGED <<inbox, toolTok, ended, firing, watched, envVars>>

Compact ==
    /\ pc = "out" /\ st.status # "done" /\ ~ (HasChain /\ ended)
    /\ Outside
    /\ Checkpoint(st)
    /\ UNCHANGED <<st, loopVars, inbox, tokVars, wakeVars>>

\* end: every future is dropped, every open task cancelled with an event, then
\* the final checkpoint and session_ended.
End ==
    /\ pc = "out" /\ st.status # "done"
    /\ Outside
    /\ wakers' = {}
    /\ turnTok' = IF turnTok = "none" THEN "none" ELSE "fired"
    /\ ended' = TRUE
    /\ Goto("ending")
    /\ UNCHANGED <<st, inbox, toolTok, firing, watched, logVars>>

EndOne ==
    /\ pc = "ending"
    /\ \E t \in open_tasks(st) : st' = cancel_task_in_state(st, t)
    /\ Log
    /\ UNCHANGED <<loopVars, inbox, tokVars, wakeVars, envVars>>

EndCommit ==
    /\ pc = "ending" /\ open_tasks(st) = {}
    /\ st' = WithStatus(st, "done")
    /\ Checkpoint(st')
    /\ turnTok' = "none"
    /\ Goto("ended")
    /\ UNCHANGED <<inbox, toolTok, ended, wakeVars, envVars>>

LogEnded ==
    /\ pc = "ended"
    /\ Return
    /\ clean' = TRUE
    /\ UNCHANGED <<st, inbox, tokVars, wakeVars, ck, seen, kept, envVars>>

\* The log refuses an event of one of these methods: it returns Err with what
\* it has done in memory so far.
SuspendFault ==
    /\ pc = "out" /\ st.status \in {"running", "idle"} /\ open_tasks(st) # {}
    /\ LogRefuses
    /\ st' = WithStatus(st, "suspended")
    /\ turnTok' = "none"
    /\ UNCHANGED <<loopVars, inbox, toolTok, ended, wakeVars, logVars>>

ResumeFault ==
    /\ pc = "resuming"
    /\ \/ /\ batch # <<>>                  \* the cause's event
          /\ TakeUnlogged(batch[1])
          /\ UNCHANGED turnTok
       \/ /\ LogRefuses                    \* the checkpoint
          /\ st' = Resumed
          /\ wakers' = wakers \ ResumeAborts
          /\ turnTok' = TokenFor("running")
          /\ UNCHANGED <<firing, watched>>
    /\ Return
    /\ UNCHANGED <<inbox, toolTok, ended, logVars>>

EndFault ==
    /\ pc \in {"ending", "ended"}
    /\ LogRefuses
    /\ \/ pc = "ending" /\ UNCHANGED turnTok /\ \E t \in open_tasks(st) : st' = cancel_task_in_state(st, t)
       \/ pc = "ending" /\ turnTok' = "none" /\ open_tasks(st) = {} /\ st' = WithStatus(st, "done")
       \/ pc = "ended" /\ UNCHANGED <<st, turnTok>>
    /\ Return
    /\ UNCHANGED <<inbox, toolTok, ended, wakeVars, logVars>>

-----------------------------------------------------------------------------
(* KernelHandle and the wakers, between any two steps of the kernel *)

Up == pc \notin {"down", "losing", "opening"}

Send(i) == inbox' = Append(inbox, i)

EnqueueUserMessage ==
    /\ Up /\ st.status # "done"
    /\ \E u \in unsent : Send(<<"user", u>>) /\ unsent' = unsent \ {u}
    /\ UNCHANGED <<st, loopVars, tokVars, wakeVars, logVars, deaths, faults, outside>>

CancelTurn ==
    /\ Up /\ turnTok = "armed" /\ Outside
    /\ turnTok' = "fired"
    /\ UNCHANGED <<st, loopVars, inbox, toolTok, ended, wakeVars, logVars>>

CancelTool ==
    /\ Up /\ toolTok = "armed" /\ Outside
    /\ toolTok' = "fired"
    /\ UNCHANGED <<st, loopVars, inbox, turnTok, ended, wakeVars, logVars>>

\* cancel(Task): the future is dropped at once, the rest is queued.
CancelTask ==
    /\ Up /\ Outside
    /\ \E t \in watched \cup {x \in Task : st.tasks[x] # "none"} :
          /\ wakers' = wakers \ {t}
          /\ IF st.status # "done" THEN Send(<<"cancel", t>>) ELSE UNCHANGED inbox
    /\ UNCHANGED <<st, loopVars, tokVars, firing, watched, logVars>>

\* deliver_task_update by an external waker.
DeliverTaskUpdate ==
    /\ Up /\ st.status \notin {"done", "created"} /\ Outside
    /\ \E t \in {x \in Task : st.tasks[x] # "none"}, k \in {"progress", "final", "bad"} :
          Send(<<k, t>>)
    /\ UNCHANGED <<st, loopVars, tokVars, wakeVars, logVars>>

\* A watched future resolves and leaves the map; from here no abort stops it.
WakerResolves(t) ==
    /\ t \in wakers
    /\ wakers' = wakers \ {t}
    /\ firing' = firing \cup {t}
    /\ UNCHANGED <<st, loopVars, inbox, tokVars, watched, logVars, envVars>>

WakerDelivers(t) ==
    /\ t \in firing
    /\ firing' = firing \ {t}
    /\ IF st.status \in {"done", "created"} THEN UNCHANGED inbox ELSE Send(<<"final", t>>)
    /\ UNCHANGED <<st, loopVars, tokVars, wakers, watched, logVars, envVars>>

-----------------------------------------------------------------------------
(* Processes: a death, and Kernel::open by the next one *)

Die ==
    /\ pc # "down" /\ deaths < MaxDeaths
    /\ deaths' = deaths + 1
    /\ Fresh("down")
    /\ st' = Created /\ inbox' = <<>> /\ seen' = {}
    /\ turnTok' = "none" /\ toolTok' = "none" /\ ended' = FALSE
    /\ wakers' = {} /\ firing' = {} /\ watched' = {}
    /\ UNCHANGED <<ck, clean, kept, unsent, faults, outside>>

UsersIn(s) == {u \in User : \E i \in DOMAIN s.msgs : s.msgs[i] = <<"user", u>>}

\* The latest checkpoint is restored.  A log that ended cleanly gives
\* `resumed`, any other one, or cause recovery, gives `recovered`: the events
\* after the checkpoint are void and tasks that waited for a future of the
\* dead process are cancelled.
Open ==
    /\ pc = "down" /\ ck.status \notin {"none", "done"}
    /\ st' = ck
    /\ \E c \in Cause, recovery \in BOOLEAN :
          /\ recovery => c = <<>>
          /\ batch' = c /\ Spend(c)
          /\ path' = IF recovery THEN "recovery" ELSE "cause"
          /\ pc' = IF clean /\ ~ recovery THEN "opening" ELSE "losing"
    /\ clean' = (clean /\ pc' = "losing")
    /\ UNCHANGED <<snap, calls, cur, out, anyUser, changed, woke, inbox, tokVars, wakeVars,
                   ck, seen, kept, deaths, faults, outside>>

Lost == open_tasks(st) \cap st.waker

LoseOne ==
    /\ pc = "losing"
    /\ \E t \in Lost : st' = cancel_task_in_state(st, t)
    /\ changed' = TRUE
    /\ UNCHANGED <<snap, pc, path, calls, cur, out, anyUser, woke, batch, inbox, tokVars, wakeVars,
                   logVars, envVars>>

LoggedOpen ==
    /\ pc = "losing" /\ Lost = {}
    /\ Goto("opening")
    /\ Log
    /\ UNCHANGED <<st, inbox, tokVars, wakeVars, envVars>>

\* The cause is a message, or an update that changes its task.
Applied == batch # <<>> /\ Effect(st, batch[1]) # "ignored"

\* Whether the cause runs the session: a message always, an update that was
\* applied and an operator if it is suspended or failed.
CauseRuns ==
    /\ path # "recovery"
    /\ \/ batch # <<>> /\ batch[1][1] = "user"
       \/ st.status \in {"suspended", "failed"} /\ (batch = <<>> \/ Applied)

\* Mutant: the cancelled tasks of a recovery are not checkpointed.
OpenApply_NoRecoveryCheckpoint ==
    /\ pc = "opening"
    /\ LET s == IF batch = <<>> THEN st ELSE Apply(st, batch[1]) IN
          /\ st' = IF CauseRuns THEN WithStatus(s, "running") ELSE s
          /\ IF Applied \/ st' # st THEN CheckpointWith(st', batch) ELSE Log
          /\ turnTok' = IF CauseRuns THEN "armed" ELSE "none"
    /\ Return
    /\ UNCHANGED <<inbox, toolTok, ended, wakeVars, envVars>>

OpenApply ==
    /\ pc = "opening"
    /\ LET s == IF batch = <<>> THEN st ELSE Apply(st, batch[1]) IN
          /\ st' = IF CauseRuns THEN WithStatus(s, "running") ELSE s
          /\ IF changed \/ Applied \/ st' # st THEN CheckpointWith(st', batch) ELSE Log
          /\ turnTok' = IF CauseRuns THEN "armed" ELSE "none"
    /\ Return
    /\ UNCHANGED <<inbox, toolTok, ended, wakeVars, envVars>>

-----------------------------------------------------------------------------

Init ==
    /\ st = Created /\ snap = Created
    /\ pc = "out" /\ path = "end" /\ calls = 0 /\ cur = 1 /\ out = "none"
    /\ anyUser = FALSE /\ changed = FALSE /\ woke = FALSE /\ batch = <<>>
    /\ inbox = <<>> /\ turnTok = "none" /\ toolTok = "none" /\ ended = FALSE
    /\ wakers = {} /\ firing = {} /\ watched = {}
    /\ ck = NoCheckpoint /\ clean = FALSE /\ seen = {} /\ kept = {}
    /\ unsent = User /\ deaths = 0 /\ faults = 0 /\ outside = 0

\* The steps the kernel takes by itself once a method is called.
LoopStep ==
    \/ TakeBatch \/ ApplyBatched \/ EndBatch
    \/ StartTurn \/ LogRequest \/ SendRequest \/ AfterModel \/ CheckPoint
    \/ Unregistered \/ Replaced \/ LogCall \/ Invoke \/ ToolCancelled \/ AfterTool
    \/ DrainOne \/ TurnEnd \/ LogSuspended
    \/ CancelTurnBody \/ CancelTurnEnd
    \/ FailTurnBody \/ FailTurnEnd \/ LogFailed
    \/ ResumeApply \/ EndOne \/ EndCommit \/ LogEnded
    \/ LoseOne \/ LoggedOpen \/ OpenApply

\* What the model, the tools and the middleware do.
Reply ==
    \/ ModelAnswers \/ LaunchFails \/ ToolWatches \/ ToolReturns
    \/ TurnFails \/ MidTurnCompaction

Fault ==
    \/ ApplyBatchedFault \/ EndBatchFault \/ DrainFault \/ TurnEndFault
    \/ LogSuspendedFault \/ CancelTurnFault \/ FailTurnFault
    \/ MidTurnCompactionFault \/ TaskStartedFault
    \/ SuspendFault \/ ResumeFault \/ EndFault

Caller == Run \/ Suspend \/ Resume \/ Compact \/ End

Handle == EnqueueUserMessage \/ CancelTurn \/ CancelTool \/ CancelTask \/ DeliverTaskUpdate

Waker == \E t \in Task : WakerResolves(t) \/ WakerDelivers(t)

Process == Die \/ Open

Next == LoopStep \/ Reply \/ Fault \/ Caller \/ Handle \/ Waker \/ Process

Spec == Init /\ [][Next]_vars

\* The kernel's task is polled as long as it can go on; nothing is assumed of
\* the model, the tools, the callers or the wakers.
FairSpec == Spec /\ WF_vars(LoopStep)

-----------------------------------------------------------------------------
(* Properties *)

Msg == ({"user"} \X User) \cup ({"tool", "result"} \X Task)
           \cup ({"assistant"} \X (0 .. MaxTurns) \X (0 .. MaxCalls))

State == [turn : 0 .. MaxTurns, status : Status \cup {"none"}, msgs : Seq(Msg),
          tasks : [Task -> {"none", "open", "finished", "cancelled"}], waker : SUBSET Task]

Pcs == {"out", "run", "batch", "before", "send", "request", "respond", "tool", "launch", "invoke",
        "after", "drain", "cancel", "fail", "suspending", "failing", "resuming", "ending", "ended",
        "down", "losing", "opening"}

Paths == {"end", "cancel", "fail", "run", "once", "suspend", "cause", "recovery"}

Tokens == {"none", "armed", "fired"}

\* Every variable of the kernel has its type.
TypeOK ==
    /\ st \in State /\ snap \in State /\ ck \in State
    /\ pc \in Pcs /\ path \in Paths
    /\ calls \in 0 .. MaxCalls /\ cur \in 1 .. (MaxCalls + 1)
    /\ out \in {"none", "value", "task", "cancelled"}
    /\ anyUser \in BOOLEAN /\ changed \in BOOLEAN /\ woke \in BOOLEAN
    /\ inbox \in Seq(Item) /\ batch \in Seq(Item)
    /\ turnTok \in Tokens /\ toolTok \in Tokens /\ ended \in BOOLEAN
    /\ wakers \subseteq Task /\ firing \subseteq Task /\ watched \subseteq Task
    /\ clean \in BOOLEAN /\ seen \subseteq User /\ kept \subseteq User /\ unsent \subseteq User
    /\ deaths \in Nat /\ faults \in Nat /\ outside \in Nat

\* Every call of an assistant message is answered by the messages right after
\* it, in order, and nothing else is a tool message (kernel-interface.md 6,
\* invariant 2): what a provider accepts as a conversation.
Answered(m) ==
    /\ \A i \in DOMAIN m : m[i][1] = "assistant" =>
          \A k \in 1 .. m[i][3] : i + k <= Len(m) /\ m[i + k] = <<"tool", <<m[i][2], k>>>>
    /\ \A j \in DOMAIN m : m[j][1] = "tool" =>
          \E i \in 1 .. (j - 1) :
             m[i][1] = "assistant" /\ j - i <= m[i][3] /\ m[j] = <<"tool", <<m[i][2], j - i>>>>

\* Every request sent and every checkpoint written holds an answered history,
\* through cancels, failed turns, deaths and late updates, as long as the log
\* accepts appends (a refused one can stop cancel_turn half way).
HistoryAnswered ==
    faults = 0 => Answered(ck.msgs) /\ (pc \in {"send", "request"} => Answered(st.msgs))

\* A task has one synthetic result if it is closed and none before: a cancel
\* and a waker's update that race close it once.
OneResultPerTask ==
    \A s \in {st, ck}, t \in Task :
        Cardinality({i \in DOMAIN s.msgs : s.msgs[i] = <<"result", t>>})
            = IF s.tasks[t] \in {"finished", "cancelled"} THEN 1 ELSE 0

\* A request is computed from the last checkpoint (kernel-interface.md 6,
\* invariant 1), so that the replay key (checkpoint_hash, request_hash) is
\* complete.  A refused append is excepted: the loop then goes on with a state
\* that has no checkpoint.
RequestFromCheckpoint ==
    faults = 0 /\ pc \in {"send", "request"} =>
        st.msgs = ck.msgs /\ st.tasks = ck.tasks /\ st.waker = ck.waker

Queued(i) == \E q \in {inbox, batch} : \E n \in DOMAIN q : q[n] = i

\* A message the handle accepted is never lost while its process lives: it is
\* queued or in the state, also when the turn fails and is rolled back.  (An
\* append that the log refuses loses its message: apply_user_message logs
\* before it pushes, and the rest of a batch goes with it.)
AcceptedNotLost ==
    deaths = 0 /\ faults = 0 =>
        \A u \in User \ unsent : Queued(<<"user", u>>) \/ u \in UsersIn(st)

\* A user message is durably part of the session once a checkpoint follows
\* its user_message event (event-schema.md 6.2), through rollbacks, deaths and
\* recoveries, as long as the log accepts appends (apply_user_message,
\* drain_inbox_end_of_turn, fail_turn, open).  With a refused append it does
\* not hold: fail_turn rolls back what the drain had taken out of the inbox.
UserMessagesKept == faults = 0 => kept \subseteq UsersIn(ck)

\* Something will close the open task t: its future, its delivery, or input.
Awaited(t) == t \in wakers \cup firing \/ Queued(<<"final", t>>) \/ Queued(<<"cancel", t>>)

\* An open task whose future this process registered is never stranded (end
\* drops all futures first and closes the tasks itself), as long as the log
\* accepts appends: a refused one drops the rest of a batch.
OwnTasksAwaited ==
    faults = 0 /\ pc # "ending" => \A t \in open_tasks(st) \cap st.waker \cap watched : Awaited(t)

\* A session that counts on an in-process waker has one (session.rs,
\* run_through: "the waker delivers, the kernel resumes"), whichever process
\* registered it.
InProcessTasksAwaited ==
    Up /\ pc # "ending" => \A t \in open_tasks(st) \cap st.waker : Awaited(t)

\* The turn of task t is in the history: its response was not rolled back.
TurnKept(t) == \E i \in DOMAIN st.msgs : st.msgs[i][1] = "assistant" /\ st.msgs[i][2] = t[1]

\* Between turns every future that lives belongs to an open task, or was left
\* by a turn that failed: a call that is cancelled before its task is in the
\* state, and a task that is closed by whoever is first, loses its future on
\* every way out (invoke_tool's arms, cancel_turn, cancel_task_in_state and
\* apply_task_update each call registrar.abort).
FuturesAreOpenTasks ==
    faults = 0 /\ pc \in {"out", "run"} => \A t \in wakers : t \in open_tasks(st) \/ ~ TurnKept(t)

\* A turn that is cancelled while it works comes to its end, whether or not the
\* model or the tool ever answers (D15: cancellation is noticed at every check
\* point, and races the model call and the tool).
CancelTakesHold ==
    (Fired /\ pc \in {"before", "send", "request", "respond", "tool", "launch", "invoke", "after"})
        ~> (pc \in {"out", "run", "down"})
=============================================================================
