--------------------------- MODULE Kernel_proofs ---------------------------
(***************************************************************************)
(* Proofs about Kernel, for any user messages and any bounds on turns,     *)
(* calls, deaths, refused appends and events from outside.                 *)
(*                                                                         *)
(* OneResultPerTask is not inductive: that a task is closed once rests on  *)
(* where the kernel is.  A call registers a task that must not be there    *)
(* yet (Unstarted), which needs the turn and the index of the call to be   *)
(* in step with the place in the loop (Shape), and tasks to be of turns    *)
(* that have begun (Good).  A rollback and a reopening bring back another  *)
(* state, so Good is kept of the snapshot and of the checkpoint too.       *)
(* KernelInv is the conjunction; its parts are preserved one by one below, *)
(* each with one step per action of the kernel.                            *)
(***************************************************************************)
EXTENDS Kernel, FiniteSetTheorems, TLAPS

\* Where the kernel is while a turn works, and until it is left.
Working == {"before", "send", "request", "respond", "tool", "launch", "invoke", "after"}
InTurn == Working \cup {"cancel", "fail"}

Closed == {"finished", "cancelled"}

\* The places of the synthetic results of task t.
Results(m, t) == {i \in DOMAIN m : m[i] = <<"result", t>>}

\* What is true of the state in memory, of a snapshot and of a checkpoint by
\* itself: tasks are of turns that have begun, there is none before the first
\* turn, none is open at the end, and each has one result if it is closed.
Good(s) ==
    /\ s \in State
    /\ \A t \in Task : s.tasks[t] # "none" => t[1] <= s.turn
    /\ s.status \in {"created", "none"} => s.tasks = NoTasks
    /\ s.status = "done" => open_tasks(s) = {}
    /\ \A t \in Task : IF s.tasks[t] \in Closed THEN \E i : Results(s.msgs, t) = {i}
                       ELSE Results(s.msgs, t) = {}

-----------------------------------------------------------------------------
(* What the operations do to a state *)

\* The fields of a state have their types.
LEMMA StateFields ==
    ASSUME NEW s \in State
    PROVE  /\ s.turn \in 0 .. MaxTurns /\ s.status \in Status \cup {"none"} /\ s.msgs \in Seq(Msg)
           /\ s.tasks \in [Task -> {"none", "open", "finished", "cancelled"}]
           /\ s.waker \in SUBSET Task
  BY DEF State

\* set_status changes the status and nothing else.
LEMMA WithStatusFields ==
    ASSUME NEW s \in State, NEW x \in Status
    PROVE  /\ WithStatus(s, x) \in State /\ WithStatus(s, x).status = x
           /\ WithStatus(s, x).turn = s.turn /\ WithStatus(s, x).msgs = s.msgs
           /\ WithStatus(s, x).tasks = s.tasks /\ WithStatus(s, x).waker = s.waker
  BY DEF State, WithStatus

\* A message that is pushed comes last, and nothing else changes.
LEMMA PushFields ==
    ASSUME NEW s \in State, NEW m \in Msg
    PROVE  /\ Push(s, m) \in State /\ Push(s, m).msgs = Append(s.msgs, m)
           /\ Push(s, m).turn = s.turn /\ Push(s, m).status = s.status
           /\ Push(s, m).tasks = s.tasks /\ Push(s, m).waker = s.waker
<1>1. Append(s.msgs, m) \in Seq(Msg)
  BY StateFields
<1>2. QED
  BY <1>1 DEF State, Push

\* The terminal transition closes one task and pushes its result.
LEMMA CloseFields ==
    ASSUME NEW s \in State, NEW t \in Task, NEW how \in Closed
    PROVE  /\ Close(s, t, how) \in State /\ Close(s, t, how).msgs = Append(s.msgs, <<"result", t>>)
           /\ Close(s, t, how).turn = s.turn /\ Close(s, t, how).status = s.status
           /\ Close(s, t, how).tasks = [s.tasks EXCEPT ![t] = how] /\ Close(s, t, how).waker = s.waker
<1> DEFINE z == [s EXCEPT !.tasks[t] = how]
<1>1. /\ z \in State /\ z.msgs = s.msgs /\ z.turn = s.turn /\ z.status = s.status
      /\ z.tasks = [s.tasks EXCEPT ![t] = how] /\ z.waker = s.waker
  BY DEF State, Closed
<1> DEFINE m == <<"result", t>>
<1>2. Close(s, t, how) = Push(z, m) /\ m \in Msg
  BY DEF Close, Msg
<1> HIDE DEF z, m
<1>3. /\ Push(z, m) \in State /\ Push(z, m).msgs = Append(z.msgs, m)
      /\ Push(z, m).turn = z.turn /\ Push(z, m).status = z.status
      /\ Push(z, m).tasks = z.tasks /\ Push(z, m).waker = z.waker
  BY <1>1, <1>2, PushFields
<1>4. QED
  BY <1>1, <1>2, <1>3 DEF m

\* An open task that is cancelled closes.
LEMMA CancelOpen ==
    ASSUME NEW s, NEW t \in open_tasks(s)
    PROVE  cancel_task_in_state(s, t) = Close(s, t, "cancelled")
  BY DEF cancel_task_in_state

\* Messages at the end of a history are results only where they say so.
LEMMA ResultsOfAppend ==
    ASSUME NEW m \in Seq(Msg), NEW x \in Msg, NEW t \in Task
    PROVE  /\ x # <<"result", t>> => Results(Append(m, x), t) = Results(m, t)
           /\ x = <<"result", t>> => Results(Append(m, x), t) = Results(m, t) \cup {Len(m) + 1}
<1> DEFINE n == Append(m, x)
           r == <<"result", t>>
<1>1. /\ DOMAIN m = 1 .. Len(m) /\ DOMAIN n = 1 .. Len(m) + 1 /\ Len(m) \in Nat
      /\ n[Len(m) + 1] = x /\ \A i \in 1 .. Len(m) : n[i] = m[i]
  OBVIOUS
<1> HIDE DEF n, r
<1>2. \A i \in 1 .. Len(m) + 1 : i \in 1 .. Len(m) \/ i = Len(m) + 1
  BY <1>1
<1>3. x # r => {i \in DOMAIN n : n[i] = r} = {i \in DOMAIN m : m[i] = r}
  BY <1>1, <1>2
<1>4. x = r => {i \in DOMAIN n : n[i] = r} = {i \in DOMAIN m : m[i] = r} \cup {Len(m) + 1}
  BY <1>1, <1>2
<1>5. QED
  BY <1>3, <1>4 DEF Results, n, r

\* The same for several messages, none of which is a result.
LEMMA ResultsOfConcat ==
    ASSUME NEW m \in Seq(Msg), NEW k \in Seq(Msg), NEW t \in Task,
           \A i \in DOMAIN k : k[i] # <<"result", t>>
    PROVE  m \o k \in Seq(Msg) /\ Results(m \o k, t) = Results(m, t)
<1> DEFINE n == m \o k
           r == <<"result", t>>
<1>1. /\ n \in Seq(Msg) /\ DOMAIN m = 1 .. Len(m) /\ DOMAIN n = 1 .. Len(m) + Len(k)
      /\ Len(m) \in Nat /\ Len(k) \in Nat /\ DOMAIN k = 1 .. Len(k)
      /\ \A i \in 1 .. Len(m) + Len(k) : n[i] = IF i <= Len(m) THEN m[i] ELSE k[i - Len(m)]
  OBVIOUS
<1>2. \A i \in DOMAIN k : k[i] # r
  OBVIOUS
<1> HIDE DEF n, r
<1>3. ASSUME NEW i \in DOMAIN n, n[i] = r
      PROVE  i \in DOMAIN m /\ m[i] = r
  <2>1. CASE i <= Len(m)
    BY <1>1, <1>3, <2>1
  <2>2. CASE i > Len(m)
    <3>1. i - Len(m) \in DOMAIN k
      BY <1>1, <1>3, <2>2
    <3>2. n[i] = k[i - Len(m)]
      BY <1>1, <1>3, <2>2
    <3>3. QED
      BY <1>2, <1>3, <3>1, <3>2
  <2>3. QED
    BY <1>1, <1>3, <2>1, <2>2
<1>4. \A i \in DOMAIN m : i \in DOMAIN n /\ n[i] = m[i]
  BY <1>1
<1>5. {i \in DOMAIN n : n[i] = r} = {i \in DOMAIN m : m[i] = r}
  BY <1>3, <1>4
<1>6. QED
  BY <1>1, <1>5 DEF Results, n, r

\* A new session is good, and so is one that has no checkpoint yet.
LEMMA GoodCreated == Good(Created) /\ Good(NoCheckpoint)
<1>1. NoTasks \in [Task -> {"none", "open", "finished", "cancelled"}] /\ \A t \in Task : NoTasks[t] = "none"
  BY DEF NoTasks
<1>2. Created \in State /\ Created.tasks = NoTasks /\ Created.msgs = <<>> /\ Created.status = "created"
  BY <1>1, KernelBounds DEF Created, State, Status
<1>3. NoCheckpoint \in State /\ NoCheckpoint.tasks = NoTasks /\ NoCheckpoint.msgs = <<>> /\ NoCheckpoint.status = "none"
  BY <1>2 DEF NoCheckpoint, State
<1>4. \A t \in Task : Results(<<>>, t) = {}
  BY DEF Results
<1>5. QED
  BY <1>1, <1>2, <1>3, <1>4 DEF Good, Closed

\* A change of status keeps a state good: back to created never, and to done
\* only when no task is open.
LEMMA GoodWithStatus ==
    ASSUME NEW s, Good(s), NEW x \in Status,
           x \in {"created", "done"} => x = s.status \/ (x = "done" /\ open_tasks(s) = {})
    PROVE  Good(WithStatus(s, x))
<1> DEFINE z == WithStatus(s, x)
<1>1. s \in State
  BY DEF Good
<1>2. /\ z \in State /\ z.status = x /\ z.turn = s.turn /\ z.msgs = s.msgs
      /\ z.tasks = s.tasks /\ z.waker = s.waker
  BY <1>1, WithStatusFields
<1> HIDE DEF z
<1>3. /\ z.status \in {"created", "none"} => s.status \in {"created", "none"}
      /\ z.status = "done" => open_tasks(s) = {}
  BY <1>2 DEF Good, Status
<1>4. Good(z)
  BY <1>2, <1>3 DEF Good, open_tasks
<1>5. QED
  BY <1>4 DEF z

\* A message that is no result keeps a state good.
LEMMA GoodPush ==
    ASSUME NEW s, Good(s), NEW m \in Msg, m[1] # "result"
    PROVE  Good(Push(s, m))
<1>1. s \in State /\ s.msgs \in Seq(Msg)
  BY StateFields DEF Good
<1>2. \A t \in Task : m # <<"result", t>>
  OBVIOUS
<1>3. \A t \in Task : Results(Append(s.msgs, m), t) = Results(s.msgs, t)
  BY <1>1, <1>2, ResultsOfAppend
<1>4. QED
  BY <1>1, <1>3, PushFields DEF Good, open_tasks

\* Closing an open task keeps a state good: its first result comes with it.
LEMMA GoodClose ==
    ASSUME NEW s, Good(s), NEW t \in open_tasks(s), NEW how \in Closed
    PROVE  Good(Close(s, t, how))
<1> DEFINE z == Close(s, t, how)
<1>1. s \in State /\ s.msgs \in Seq(Msg) /\ t \in Task /\ s.tasks[t] = "open" /\ <<"result", t>> \in Msg
      /\ s.tasks \in [Task -> {"none", "open", "finished", "cancelled"}]
  BY StateFields DEF Good, open_tasks, Msg
<1>2. /\ z \in State /\ z.msgs = Append(s.msgs, <<"result", t>>)
      /\ z.turn = s.turn /\ z.status = s.status
      /\ z.tasks = [s.tasks EXCEPT ![t] = how]
  BY <1>1, CloseFields
<1> HIDE DEF z
<1>3. z.tasks[t] = how /\ \A u \in Task \ {t} : z.tasks[u] = s.tasks[u]
  BY <1>1, <1>2
<1>4. \A u \in Task : z.tasks[u] # "none" => u[1] <= z.turn
  BY <1>1, <1>2, <1>3 DEF Good
<1>5. s.status \notin {"created", "none", "done"}
  BY <1>1 DEF Good, NoTasks, open_tasks
<1>6. \A u \in Task : IF z.tasks[u] \in Closed THEN \E i : Results(z.msgs, u) = {i}
                      ELSE Results(z.msgs, u) = {}
  <2>1. ASSUME NEW u \in Task, u # t
        PROVE  Results(z.msgs, u) = Results(s.msgs, u) /\ z.tasks[u] = s.tasks[u]
    <3>1. <<"result", t>> # <<"result", u>>
      BY <2>1
    <3>2. QED
      BY <1>1, <1>2, <1>3, <2>1, <3>1, ResultsOfAppend
  <2>2. Results(s.msgs, t) = {}
    BY <1>1 DEF Good, Closed
  <2>3. Results(z.msgs, t) = {Len(s.msgs) + 1}
    BY <1>1, <1>2, <2>2, ResultsOfAppend
  <2>4. QED
    BY <1>3, <2>1, <2>3 DEF Good
<1>7. QED
  BY <1>2, <1>4, <1>5, <1>6 DEF Good, z

\* What an item does: it is a message, or closes an open task, or nothing.
LEMMA ApplyCases ==
    ASSUME NEW s \in State, NEW i \in Item
    PROVE  \/ i[1] = "user" /\ i[2] \in User /\ i = <<"user", i[2]>> /\ Apply(s, i) = Push(s, i)
              /\ Effect(s, i) = "user" /\ Aborts(s, i) = {}
           \/ /\ i[1] \in {"final", "cancel"} /\ i[2] \in open_tasks(s) /\ Effect(s, i) = "terminal"
              /\ \E how \in Closed : Apply(s, i) = Close(s, i[2], how)
              /\ Aborts(s, i) = {i[2]}
           \/ /\ i[1] # "user" /\ Apply(s, i) = s /\ Effect(s, i) \in {"nothing", "ignored", "progress"}
              /\ i[1] \in {"final", "cancel"} => i[2] \notin open_tasks(s)
              /\ Aborts(s, i) \subseteq {i[2]}
              /\ Aborts(s, i) # {} => i[1] = "cancel"
<1>1. CASE i \in {"user"} \X User
  <2>1. i[1] = "user" /\ i[2] \in User /\ i = <<"user", i[2]>>
    BY <1>1
  <2>2. QED
    BY <2>1 DEF Apply, Effect, Aborts
<1>2. CASE i \in {"progress", "final", "bad", "cancel"} \X Task
  <2>1. i[1] \in {"progress", "final", "bad", "cancel"} /\ i[2] \in Task
    BY <1>2
  <2>2. QED
    BY <2>1 DEF Apply, Effect, Aborts, Closed, cancel_task_in_state
<1>3. QED
  BY <1>1, <1>2 DEF Item

\* An item of input keeps a state good: it closes open tasks only.
LEMMA GoodApply ==
    ASSUME NEW s, Good(s), NEW i \in Item
    PROVE  Good(Apply(s, i)) /\ Apply(s, i).turn = s.turn /\ Apply(s, i).status = s.status
<1>1. s \in State
  BY DEF Good
<1>2. CASE i[1] = "user" /\ i[2] \in User /\ i = <<"user", i[2]>> /\ Apply(s, i) = Push(s, i)
  <2>1. i \in Msg /\ i[1] # "result"
    BY <1>2 DEF Msg
  <2>2. QED
    BY <1>1, <1>2, <2>1, GoodPush, PushFields
<1>3. ASSUME i[2] \in open_tasks(s), NEW how \in Closed, Apply(s, i) = Close(s, i[2], how)
      PROVE  Good(Apply(s, i)) /\ Apply(s, i).turn = s.turn /\ Apply(s, i).status = s.status
  <2> DEFINE t == i[2]
  <2>1. t \in open_tasks(s) /\ t \in Task /\ Apply(s, i) = Close(s, t, how)
    BY <1>3 DEF open_tasks
  <2> HIDE DEF t
  <2>2. Good(Close(s, t, how))
    BY <2>1, GoodClose
  <2>3. Close(s, t, how).turn = s.turn /\ Close(s, t, how).status = s.status
    BY <1>1, <2>1, CloseFields
  <2>4. QED
    BY <2>1, <2>2, <2>3
<1>4. CASE Apply(s, i) = s
  BY <1>4
<1>5. QED
  BY <1>1, <1>2, <1>3, <1>4, ApplyCases
-----------------------------------------------------------------------------
(* The types of everything but the states *)

\* The types of the locals of the methods, of the tokens and of the counters.
Locals ==
    /\ pc \in Pcs /\ path \in Paths
    /\ calls \in 0 .. MaxCalls /\ cur \in 1 .. (MaxCalls + 1)
    /\ out \in {"none", "value", "task", "cancelled"}
    /\ turnTok \in Tokens /\ toolTok \in Tokens
    /\ deaths \in Nat /\ faults \in Nat /\ outside \in Nat

\* The types of the flags.
Flags ==
    /\ anyUser \in BOOLEAN /\ changed \in BOOLEAN /\ woke \in BOOLEAN
    /\ ended \in BOOLEAN /\ clean \in BOOLEAN

\* The types of the queues and of the sets.
Collections ==
    /\ inbox \in Seq(Item) /\ batch \in Seq(Item)
    /\ wakers \subseteq Task /\ firing \subseteq Task /\ watched \subseteq Task
    /\ seen \subseteq User /\ kept \subseteq User /\ unsent \subseteq User

\* What the place of the kernel says of the turn and of its calls.
Shape ==
    /\ pc \in Working \cup {"cancel"} => st.turn >= 1 /\ st.status = "running"
    /\ pc \in {"before", "send", "request", "respond"} => calls = 0 /\ cur = 1
    /\ pc \in {"tool", "launch", "invoke", "after"} => cur <= calls
    /\ pc = "cancel" => cur <= calls \/ (calls = 0 /\ cur = 1)
    /\ pc \notin {"batch", "resuming", "losing", "opening"} => batch = <<>>

\* The calls of the turn that have not been answered have no task.
Unstarted ==
    pc \in Working \cup {"cancel"} =>
        \A t \in Task : t[1] = st.turn /\ t[2] >= cur => st.tasks[t] = "none"

\* The inductive invariant.
KernelInv ==
    /\ Locals /\ Flags /\ Collections
    /\ Good(st) /\ Good(snap) /\ Good(ck)
    /\ Shape /\ Unstarted
\* Every action keeps the types of the locals, tokens and counters.
LEMMA LocalsNext ==
    ASSUME KernelInv, Next
    PROVE  Locals'
<1>1. Locals /\ Shape
  BY DEF KernelInv
<1>2. CASE LoopStep
  <2>1. CASE TakeBatch
    BY <1>1, <2>1, KernelBounds DEF TakeBatch, tokVars, wakeVars, logVars, envVars, Locals, Pcs,
      Paths, Tokens, Shape
  <2>2. CASE ApplyBatched
    BY <1>1, <2>2, KernelBounds DEF ApplyBatched, Take, tokVars, envVars, Locals, Pcs, Paths,
      Tokens, Shape
  <2>3. CASE EndBatch
    BY <1>1, <2>3, KernelBounds DEF EndBatch, TokenFor, child_token, Checkpoint, Fresh, FreshOn,
      wakeVars, logVars, envVars, Locals, Pcs, Paths, Tokens
  <2>4. CASE StartTurn
    BY <1>1, <2>4, KernelBounds DEF StartTurn, TokenFor, child_token, wakeVars, logVars, envVars,
      Locals, Pcs, Paths, Tokens, Shape
  <2>5. CASE LogRequest
    BY <1>1, <2>5, KernelBounds DEF LogRequest, Fired, Goto, Log, tokVars, wakeVars, envVars,
      Locals, Pcs, Paths, Tokens
  <2>6. CASE SendRequest
    BY <1>1, <2>6, KernelBounds DEF SendRequest, Fired, Goto, logVars, tokVars, wakeVars, envVars,
      Locals, Pcs, Paths, Tokens
  <2>7. CASE AfterModel
    BY <1>1, <2>7, KernelBounds DEF AfterModel, Fired, Log, tokVars, wakeVars, envVars, Locals, Pcs,
      Paths, Tokens, Shape
  <2>8. CASE CheckPoint
    BY <1>1, <2>8, KernelBounds DEF CheckPoint, Cancelled, Fired, Leave, Goto, child_token,
      wakeVars, logVars, envVars, Locals, Pcs, Paths, Tokens
  <2>9. CASE Unregistered
    BY <1>1, <2>9, KernelBounds DEF Unregistered, Fired, AppendOutput, Log, tokVars, wakeVars,
      envVars, Locals, Pcs, Paths, Tokens, Shape
  <2>10. CASE Replaced
    BY <1>1, <2>10, KernelBounds DEF Replaced, Fired, Log, tokVars, wakeVars, envVars, Locals, Pcs,
      Paths, Tokens, Shape
  <2>11. CASE LogCall
    BY <1>1, <2>11, KernelBounds DEF LogCall, Fired, Goto, Log, wakeVars, envVars, Locals, Pcs,
      Paths, Tokens
  <2>12. CASE Invoke
    BY <1>1, <2>12, KernelBounds DEF Invoke, Fired, Goto, tokVars, logVars, wakeVars, envVars, Locals, Pcs,
      Paths, Tokens
  <2>13. CASE ToolCancelled
    BY <1>1, <2>13, KernelBounds DEF ToolCancelled, Fired, Leave, Goto, child_token, Log, logVars,
      envVars, Locals, Pcs, Paths, Tokens, Shape
  <2>14. CASE AfterTool
    BY <1>1, <2>14, KernelBounds DEF AfterTool, Fired, AppendOutput, Log, tokVars, wakeVars,
      envVars, Locals, Pcs, Paths, Tokens, Shape
  <2>15. CASE DrainOne
    BY <1>1, <2>15, KernelBounds DEF DrainOne, Take, tokVars, envVars, Locals, Pcs, Paths, Tokens,
      Shape
  <2>16. CASE TurnEnd
    BY <1>1, <2>16, KernelBounds DEF TurnEnd, Drained, NextStatus, Checkpoint, child_token, Goto,
      Fresh, FreshOn, wakeVars, envVars, Locals, Pcs, Paths, Tokens
  <2>17. CASE LogSuspended
    BY <1>1, <2>17, KernelBounds DEF LogSuspended, Return, Fresh, FreshOn, tokVars, wakeVars,
      envVars, Locals, Pcs, Paths, Tokens
  <2>18. CASE CancelTurnBody
    BY <1>1, <2>18, KernelBounds DEF CancelTurnBody, Log, FreshOn, tokVars, envVars, Locals, Pcs,
      Paths, Tokens
  <2>19. CASE CancelTurnEnd
    BY <1>1, <2>19, KernelBounds DEF CancelTurnEnd, Drained, Checkpoint, Return, Fresh, FreshOn,
      wakeVars, envVars, Locals, Pcs, Paths, Tokens
  <2>20. CASE FailTurnBody
    BY <1>1, <2>20, KernelBounds DEF FailTurnBody, Log, FreshOn, tokVars, envVars, Locals, Pcs,
      Paths, Tokens
  <2>21. CASE FailTurnEnd
    BY <1>1, <2>21, KernelBounds DEF FailTurnEnd, Drained, Checkpoint, Goto, wakeVars, envVars,
      Locals, Pcs, Paths, Tokens
  <2>22. CASE LogFailed
    BY <1>1, <2>22, KernelBounds DEF LogFailed, Return, Fresh, FreshOn, tokVars, wakeVars, envVars,
      Locals, Pcs, Paths, Tokens
  <2>23. CASE ResumeApply
    BY <1>1, <2>23, KernelBounds DEF ResumeApply, CheckpointWith, TokenFor, child_token, Return,
      Fresh, FreshOn, envVars, Locals, Pcs, Paths, Tokens
  <2>24. CASE EndOne
    BY <1>1, <2>24, KernelBounds DEF EndOne, Log, loopVars, tokVars, wakeVars, envVars, Locals, Pcs,
      Paths, Tokens
  <2>25. CASE EndCommit
    BY <1>1, <2>25, KernelBounds DEF EndCommit, Checkpoint, Goto, wakeVars, envVars, Locals, Pcs,
      Paths, Tokens
  <2>26. CASE LogEnded
    BY <1>1, <2>26, KernelBounds DEF LogEnded, Return, Fresh, FreshOn, tokVars, wakeVars, envVars,
      Locals, Pcs, Paths, Tokens
  <2>27. CASE LoseOne
    BY <1>1, <2>27, KernelBounds DEF LoseOne, tokVars, wakeVars, logVars, envVars, Locals, Pcs,
      Paths, Tokens, Shape
  <2>28. CASE LoggedOpen
    BY <1>1, <2>28, KernelBounds DEF LoggedOpen, Goto, Log, tokVars, wakeVars, envVars, Locals, Pcs,
      Paths, Tokens
  <2>29. CASE OpenApply
    BY <1>1, <2>29, KernelBounds DEF OpenApply, CheckpointWith, Log, Return, Fresh, FreshOn,
      wakeVars, envVars, Locals, Pcs, Paths, Tokens
  <2>30. QED
    BY <1>2, <2>1, <2>2, <2>3, <2>4, <2>6, <2>7, <2>8, <2>9, <2>10, <2>12, <2>13, <2>14,
      <2>15, <2>16, <2>17, <2>18, <2>19, <2>20, <2>21, <2>22, <2>23, <2>24, <2>25, <2>26, <2>27,
      <2>28, <2>29, <2>5, <2>11 DEF LoopStep
<1>3. CASE Reply
  <2>1. CASE ModelAnswers
    BY <1>1, <2>1, KernelBounds DEF ModelAnswers, Fired, Goto, tokVars, wakeVars, logVars, envVars,
      Locals, Pcs, Paths, Tokens
  <2>2. CASE LaunchFails
    BY <1>1, <2>2, KernelBounds DEF LaunchFails, wakeVars, logVars, envVars,
      Locals, Pcs, Paths, Tokens
  <2>3. CASE ToolWatches
    BY <1>1, <2>3, KernelBounds DEF ToolWatches, loopVars, tokVars, logVars, envVars, Locals, Pcs,
      Paths, Tokens
  <2>4. CASE ToolReturns
    BY <1>1, <2>4, KernelBounds DEF ToolReturns, Fired, logVars, envVars, Locals, Pcs, Paths,
      Tokens, Shape
  <2>5. CASE TurnFails
    BY <1>1, <2>5, KernelBounds DEF TurnFails, Fired, Leave, Goto, child_token, wakeVars, logVars,
      envVars, Locals, Pcs, Paths, Tokens
  <2>6. CASE MidTurnCompaction
    BY <1>1, <2>6, KernelBounds DEF MidTurnCompaction, Fired, Outside, Checkpoint, loopVars,
      tokVars, wakeVars, Locals, Pcs, Paths, Tokens
  <2>7. QED
    BY <1>3, <2>1, <2>3, <2>4, <2>5, <2>6, <2>2 DEF Reply
<1>4. CASE Fault
  <2>1. CASE ApplyBatchedFault
    BY <1>1, <2>1, KernelBounds DEF ApplyBatchedFault, TakeUnlogged, Return, Fresh, FreshOn,
      tokVars, logVars, Locals, Pcs, Paths, Tokens
  <2>2. CASE EndBatchFault
    BY <1>1, <2>2, KernelBounds DEF EndBatchFault, LogRefuses, TokenFor, child_token, Return, Fresh,
      FreshOn, wakeVars, logVars, Locals, Pcs, Paths, Tokens
  <2>3. CASE DrainFault
    BY <1>1, <2>3, KernelBounds DEF DrainFault, TakeUnlogged, Leave, Goto, child_token, Return,
      Fresh, FreshOn, tokVars, logVars, Locals, Pcs, Paths, Tokens
  <2>4. CASE TurnEndFault
    BY <1>1, <2>4, KernelBounds DEF TurnEndFault, Drained, LogRefuses, NextStatus, child_token,
      Return, Fresh, FreshOn, wakeVars, logVars, Locals, Pcs, Paths, Tokens
  <2>5. CASE LogSuspendedFault
    BY <1>1, <2>5, KernelBounds DEF LogSuspendedFault, LogRefuses, Leave, Goto, child_token, Return,
      Fresh, FreshOn, tokVars, wakeVars, logVars, Locals, Pcs, Paths, Tokens
  <2>6. CASE CancelTurnFault
    BY <1>1, <2>6, KernelBounds DEF CancelTurnFault, LogRefuses, Return, Fresh, FreshOn, Log,
      tokVars, Locals, Pcs, Paths, Tokens, Shape
  <2>7. CASE FailTurnFault
    BY <1>1, <2>7, KernelBounds DEF FailTurnFault, LogRefuses, Return, Fresh, FreshOn, tokVars,
      logVars, Locals, Pcs, Paths, Tokens
  <2>8. CASE MidTurnCompactionFault
    BY <1>1, <2>8, KernelBounds DEF MidTurnCompactionFault, Fired, LogRefuses, child_token, Return,
      Fresh, FreshOn, Log, wakeVars, Locals, Pcs, Paths, Tokens
  <2>9. CASE TaskStartedFault
    BY <1>1, <2>9, KernelBounds DEF TaskStartedFault, Fired, LogRefuses, Leave, Goto, child_token,
      wakeVars, logVars, Locals, Pcs, Paths, Tokens
  <2>10. CASE SuspendFault
    BY <1>1, <2>10, KernelBounds DEF SuspendFault, LogRefuses, loopVars, wakeVars, logVars, Locals,
      Pcs, Paths, Tokens
  <2>11. CASE ResumeFault
    BY <1>1, <2>11, KernelBounds DEF ResumeFault, TakeUnlogged, LogRefuses, TokenFor, child_token,
      Return, Fresh, FreshOn, logVars, Locals, Pcs, Paths, Tokens
  <2>12. CASE EndFault
    BY <1>1, <2>12, KernelBounds DEF EndFault, LogRefuses, Return, Fresh, FreshOn, wakeVars,
      logVars, Locals, Pcs, Paths, Tokens
  <2>13. QED
    BY <1>4, <2>1, <2>2, <2>3, <2>4, <2>5, <2>6, <2>7, <2>8, <2>9, <2>10, <2>11, <2>12 DEF Fault
<1>5. CASE Caller
  <2>1. CASE Run
    BY <1>1, <2>1, KernelBounds DEF Run, Goto, tokVars, wakeVars, logVars, envVars, Locals, Pcs,
      Paths, Tokens
  <2>2. CASE Suspend
    BY <1>1, <2>2, KernelBounds DEF Suspend, Outside, Checkpoint, FreshOn, wakeVars, Locals, Pcs,
      Paths, Tokens
  <2>3. CASE Resume
    BY <1>1, <2>3, KernelBounds DEF Resume, Log, tokVars, wakeVars, Locals, Pcs, Paths, Tokens,
      Shape
  <2>4. CASE Compact
    BY <1>1, <2>4, KernelBounds DEF Compact, Outside, Checkpoint, loopVars, tokVars, wakeVars,
      Locals, Pcs, Paths, Tokens
  <2>5. CASE End
    BY <1>1, <2>5, KernelBounds DEF End, Outside, Goto, logVars, Locals, Pcs, Paths, Tokens
  <2>6. QED
    BY <1>5, <2>1, <2>2, <2>3, <2>4, <2>5 DEF Caller
<1>6. CASE Handle
  <2>1. CASE EnqueueUserMessage
    BY <1>1, <2>1, KernelBounds DEF EnqueueUserMessage, Up, loopVars, tokVars, wakeVars, logVars,
      Locals, Pcs, Paths, Tokens
  <2>2. CASE CancelTurn
    BY <1>1, <2>2, KernelBounds DEF CancelTurn, Up, Outside, loopVars, wakeVars, logVars, Locals,
      Pcs, Paths, Tokens
  <2>3. CASE CancelTool
    BY <1>1, <2>3, KernelBounds DEF CancelTool, Up, Outside, loopVars, wakeVars, logVars, Locals,
      Pcs, Paths, Tokens
  <2>4. CASE CancelTask
    BY <1>1, <2>4, KernelBounds DEF CancelTask, Up, Outside, loopVars, tokVars, logVars, Locals,
      Pcs, Paths, Tokens
  <2>5. CASE DeliverTaskUpdate
    BY <1>1, <2>5, KernelBounds DEF DeliverTaskUpdate, Up, Outside, loopVars, tokVars, wakeVars,
      logVars, Locals, Pcs, Paths, Tokens
  <2>6. QED
    BY <1>6, <2>1, <2>2, <2>3, <2>4, <2>5 DEF Handle
<1>7. CASE Waker
  BY <1>1, <1>7 DEF Waker, WakerResolves, WakerDelivers, loopVars, tokVars, envVars, Locals
<1>8. CASE Process
  <2>1. CASE Die
    BY <1>1, <2>1, KernelBounds DEF Die, Fresh, FreshOn, Locals, Pcs, Paths, Tokens
  <2>2. CASE Open
    BY <1>1, <2>2, KernelBounds DEF Open, tokVars, wakeVars, Locals, Pcs, Paths, Tokens, Shape
  <2>3. QED
    BY <1>8, <2>1, <2>2 DEF Process
<1>9. QED
  BY <1>2, <1>3, <1>4, <1>5, <1>6, <1>7, <1>8 DEF Next

\* Every action keeps the types of the flags.
LEMMA FlagsNext ==
    ASSUME KernelInv, Next
    PROVE  Flags'
<1>1. Flags
  BY DEF KernelInv
<1>2. CASE LoopStep
  <2>1. CASE TakeBatch
    BY <1>1, <2>1 DEF TakeBatch, tokVars, wakeVars, logVars, envVars, Flags
  <2>2. CASE ApplyBatched
    BY <1>1, <2>2 DEF ApplyBatched, Take, tokVars, envVars, Flags
  <2>3. CASE EndBatch
    BY <1>1, <2>3 DEF EndBatch, TokenFor, child_token, Checkpoint, Fresh, FreshOn, wakeVars,
      logVars, envVars, Flags
  <2>4. CASE StartTurn
    BY <1>1, <2>4 DEF StartTurn, TokenFor, child_token, wakeVars, logVars, envVars, Flags
  <2>5. CASE LogRequest
    BY <1>1, <2>5 DEF LogRequest, Fired, Goto, Log, tokVars, wakeVars, envVars, Flags
  <2>6. CASE SendRequest
    BY <1>1, <2>6 DEF SendRequest, Fired, Goto, logVars, tokVars, wakeVars, envVars, Flags
  <2>7. CASE AfterModel
    BY <1>1, <2>7 DEF AfterModel, Fired, Log, tokVars, wakeVars, envVars, Flags
  <2>8. CASE CheckPoint
    BY <1>1, <2>8 DEF CheckPoint, Cancelled, Fired, Leave, Goto, child_token, wakeVars, logVars,
      envVars, Flags
  <2>9. CASE Unregistered
    BY <1>1, <2>9 DEF Unregistered, Fired, AppendOutput, Log, tokVars, wakeVars, envVars, Flags
  <2>10. CASE Replaced
    BY <1>1, <2>10 DEF Replaced, Fired, Log, tokVars, wakeVars, envVars, Flags
  <2>11. CASE LogCall
    BY <1>1, <2>11 DEF LogCall, Fired, Goto, Log, wakeVars, envVars, Flags
  <2>12. CASE Invoke
    BY <1>1, <2>12 DEF Invoke, Fired, Goto, tokVars, logVars, wakeVars, envVars, Flags
  <2>13. CASE ToolCancelled
    BY <1>1, <2>13 DEF ToolCancelled, Fired, Leave, Goto, child_token, Log, logVars, envVars, Flags
  <2>14. CASE AfterTool
    BY <1>1, <2>14 DEF AfterTool, Fired, AppendOutput, Log, tokVars, wakeVars, envVars, Flags
  <2>15. CASE DrainOne
    BY <1>1, <2>15 DEF DrainOne, Take, tokVars, envVars, Flags
  <2>16. CASE TurnEnd
    BY <1>1, <2>16 DEF TurnEnd, Drained, Checkpoint, child_token, Goto, Fresh, FreshOn, wakeVars,
      envVars, Flags
  <2>17. CASE LogSuspended
    BY <1>1, <2>17 DEF LogSuspended, Return, Fresh, FreshOn, tokVars, wakeVars, envVars, Flags
  <2>18. CASE CancelTurnBody
    BY <1>1, <2>18 DEF CancelTurnBody, Log, FreshOn, tokVars, envVars, Flags
  <2>19. CASE CancelTurnEnd
    BY <1>1, <2>19 DEF CancelTurnEnd, Drained, Checkpoint, Return, Fresh, FreshOn, wakeVars,
      envVars, Flags
  <2>20. CASE FailTurnBody
    BY <1>1, <2>20 DEF FailTurnBody, Log, FreshOn, tokVars, envVars, Flags
  <2>21. CASE FailTurnEnd
    BY <1>1, <2>21 DEF FailTurnEnd, Drained, Checkpoint, Goto, wakeVars, envVars, Flags
  <2>22. CASE LogFailed
    BY <1>1, <2>22 DEF LogFailed, Return, Fresh, FreshOn, tokVars, wakeVars, envVars, Flags
  <2>23. CASE ResumeApply
    BY <1>1, <2>23 DEF ResumeApply, CheckpointWith, TokenFor, child_token, Return, Fresh, FreshOn,
      envVars, Flags
  <2>24. CASE EndOne
    BY <1>1, <2>24 DEF EndOne, Log, loopVars, tokVars, wakeVars, envVars, Flags
  <2>25. CASE EndCommit
    BY <1>1, <2>25 DEF EndCommit, Checkpoint, Goto, wakeVars, envVars, Flags
  <2>26. CASE LogEnded
    BY <1>1, <2>26 DEF LogEnded, Return, Fresh, FreshOn, tokVars, wakeVars, envVars, Flags
  <2>27. CASE LoseOne
    BY <1>1, <2>27 DEF LoseOne, tokVars, wakeVars, logVars, envVars, Flags
  <2>28. CASE LoggedOpen
    BY <1>1, <2>28 DEF LoggedOpen, Goto, Log, tokVars, wakeVars, envVars, Flags
  <2>29. CASE OpenApply
    BY <1>1, <2>29 DEF OpenApply, CheckpointWith, Log, Return, Fresh, FreshOn, wakeVars, envVars,
      Flags
  <2>30. QED
    BY <1>2, <2>1, <2>2, <2>3, <2>4, <2>6, <2>7, <2>8, <2>9, <2>10, <2>12, <2>13, <2>14,
      <2>15, <2>16, <2>17, <2>18, <2>19, <2>20, <2>21, <2>22, <2>23, <2>24, <2>25, <2>26, <2>27,
      <2>28, <2>29, <2>5, <2>11 DEF LoopStep
<1>3. CASE Reply
  <2>1. CASE ModelAnswers
    BY <1>1, <2>1 DEF ModelAnswers, Fired, Goto, tokVars, wakeVars, logVars, envVars, Flags
  <2>2. CASE LaunchFails
    BY <1>1, <2>2 DEF LaunchFails, wakeVars, logVars, envVars, Flags
  <2>3. CASE ToolWatches
    BY <1>1, <2>3 DEF ToolWatches, loopVars, tokVars, logVars, envVars, Flags
  <2>4. CASE ToolReturns
    BY <1>1, <2>4 DEF ToolReturns, Fired, logVars, envVars, Flags
  <2>5. CASE TurnFails
    BY <1>1, <2>5 DEF TurnFails, Fired, Leave, Goto, child_token, wakeVars, logVars, envVars, Flags
  <2>6. CASE MidTurnCompaction
    BY <1>1, <2>6 DEF MidTurnCompaction, Fired, Outside, Checkpoint, loopVars, tokVars, wakeVars,
      Flags
  <2>7. QED
    BY <1>3, <2>1, <2>3, <2>4, <2>5, <2>6, <2>2 DEF Reply
<1>4. CASE Fault
  <2>1. CASE ApplyBatchedFault
    BY <1>1, <2>1 DEF ApplyBatchedFault, TakeUnlogged, Return, Fresh, FreshOn, tokVars, logVars,
      Flags
  <2>2. CASE EndBatchFault
    BY <1>1, <2>2 DEF EndBatchFault, LogRefuses, TokenFor, child_token, Return, Fresh, FreshOn,
      wakeVars, logVars, Flags
  <2>3. CASE DrainFault
    BY <1>1, <2>3 DEF DrainFault, TakeUnlogged, Leave, Goto, child_token, Return, Fresh, FreshOn,
      tokVars, logVars, Flags
  <2>4. CASE TurnEndFault
    BY <1>1, <2>4 DEF TurnEndFault, Drained, LogRefuses, child_token, Return, Fresh, FreshOn,
      wakeVars, logVars, Flags
  <2>5. CASE LogSuspendedFault
    BY <1>1, <2>5 DEF LogSuspendedFault, LogRefuses, Leave, Goto, child_token, Return, Fresh,
      FreshOn, tokVars, wakeVars, logVars, Flags
  <2>6. CASE CancelTurnFault
    BY <1>1, <2>6 DEF CancelTurnFault, LogRefuses, Return, Fresh, FreshOn, Log, tokVars, Flags
  <2>7. CASE FailTurnFault
    BY <1>1, <2>7 DEF FailTurnFault, LogRefuses, Return, Fresh, FreshOn, tokVars, logVars, Flags
  <2>8. CASE MidTurnCompactionFault
    BY <1>1, <2>8 DEF MidTurnCompactionFault, Fired, LogRefuses, child_token, Return, Fresh,
      FreshOn, Log, wakeVars, Flags
  <2>9. CASE TaskStartedFault
    BY <1>1, <2>9 DEF TaskStartedFault, Fired, LogRefuses, Leave, Goto, child_token, wakeVars,
      logVars, Flags
  <2>10. CASE SuspendFault
    BY <1>1, <2>10 DEF SuspendFault, LogRefuses, loopVars, wakeVars, logVars, Flags
  <2>11. CASE ResumeFault
    BY <1>1, <2>11 DEF ResumeFault, TakeUnlogged, LogRefuses, TokenFor, child_token, Return, Fresh,
      FreshOn, logVars, Flags
  <2>12. CASE EndFault
    BY <1>1, <2>12 DEF EndFault, LogRefuses, Return, Fresh, FreshOn, wakeVars, logVars, Flags
  <2>13. QED
    BY <1>4, <2>1, <2>2, <2>3, <2>4, <2>5, <2>6, <2>7, <2>8, <2>9, <2>10, <2>11, <2>12 DEF Fault
<1>5. CASE Caller
  <2>1. CASE Run
    BY <1>1, <2>1 DEF Run, Goto, tokVars, wakeVars, logVars, envVars, Flags
  <2>2. CASE Suspend
    BY <1>1, <2>2 DEF Suspend, Outside, Checkpoint, FreshOn, wakeVars, Flags
  <2>3. CASE Resume
    BY <1>1, <2>3 DEF Resume, Log, tokVars, wakeVars, Flags
  <2>4. CASE Compact
    BY <1>1, <2>4 DEF Compact, Outside, Checkpoint, loopVars, tokVars, wakeVars, Flags
  <2>5. CASE End
    BY <1>1, <2>5 DEF End, Outside, Goto, logVars, Flags
  <2>6. QED
    BY <1>5, <2>1, <2>2, <2>3, <2>4, <2>5 DEF Caller
<1>6. CASE Handle
  <2>1. CASE EnqueueUserMessage
    BY <1>1, <2>1 DEF EnqueueUserMessage, Up, loopVars, tokVars, wakeVars, logVars, Flags
  <2>2. CASE CancelTurn
    BY <1>1, <2>2 DEF CancelTurn, Up, Outside, loopVars, wakeVars, logVars, Flags
  <2>3. CASE CancelTool
    BY <1>1, <2>3 DEF CancelTool, Up, Outside, loopVars, wakeVars, logVars, Flags
  <2>4. CASE CancelTask
    BY <1>1, <2>4 DEF CancelTask, Up, Outside, loopVars, tokVars, logVars, Flags
  <2>5. CASE DeliverTaskUpdate
    BY <1>1, <2>5 DEF DeliverTaskUpdate, Up, Outside, loopVars, tokVars, wakeVars, logVars, Flags
  <2>6. QED
    BY <1>6, <2>1, <2>2, <2>3, <2>4, <2>5 DEF Handle
<1>7. CASE Waker
  BY <1>1, <1>7 DEF Waker, WakerResolves, WakerDelivers, loopVars, tokVars, logVars, Flags
<1>8. CASE Process
  <2>1. CASE Die
    BY <1>1, <2>1 DEF Die, Fresh, FreshOn, Flags
  <2>2. CASE Open
    BY <1>1, <2>2 DEF Open, tokVars, wakeVars, Flags
  <2>3. QED
    BY <1>8, <2>1, <2>2 DEF Process
<1>9. QED
  BY <1>2, <1>3, <1>4, <1>5, <1>6, <1>7, <1>8 DEF Next

\* A task is a pair of numbers.
LEMMA TaskFields == \A t \in Task : t[1] \in Nat /\ t[2] \in Nat /\ t = <<t[1], t[2]>>
  BY DEF Task

\* What is in the queues, and what the causes of a resume or an open are.
LEMMA Items ==
    /\ \A q \in Seq(Item) : q # <<>> => Head(q) \in Item /\ Tail(q) \in Seq(Item)
    /\ \A q \in Seq(Item), i \in Item : Append(q, i) \in Seq(Item)
    /\ \A i \in Item : i[1] = "user" => i[2] \in User
    /\ <<>> \in Seq(Item)
    /\ \A u \in User : <<"user", u>> \in Item
    /\ \A t \in Task : \A k \in {"progress", "final", "bad", "cancel"} : <<k, t>> \in Item
<1>1. \A i \in Item : i[1] = "user" => i[2] \in User
  BY DEF Item
<1>2. \A u \in User : <<"user", u>> \in Item
  BY DEF Item
<1>3. \A t \in Task : \A k \in {"progress", "final", "bad", "cancel"} : <<k, t>> \in Item
  BY DEF Item
<1>4. \A q \in Seq(Item) : q # <<>> => Head(q) \in Item /\ Tail(q) \in Seq(Item)
  OBVIOUS
<1>5. \A q \in Seq(Item), i \in Item : Append(q, i) \in Seq(Item)
  OBVIOUS
<1>6. QED
  BY <1>1, <1>2, <1>3, <1>4, <1>5

\* A cause is nothing or one item, a message or a final update.
LEMMA CauseFacts ==
    ASSUME Collections, NEW c \in Cause
    PROVE  /\ c \in Seq(Item)
           /\ c = <<>> \/ \E i \in Item : c = <<i>> /\ c[1] = i /\ i[1] # "cancel"
           /\ c # <<>> => c[1] \in Item
<1>1. CASE c = <<>>
  BY <1>1
<1>2. ASSUME NEW i \in ({"user"} \X unsent) \cup ({"progress", "final", "bad"} \X Task), c = <<i>>
      PROVE  i \in Item /\ c[1] = i /\ i[1] # "cancel"
  BY <1>2 DEF Item, Collections
<1>3. \A i \in Item : <<i>> \in Seq(Item) /\ <<i>>[1] = i
  OBVIOUS
<1>4. CASE c # <<>>
  <2>1. PICK i \in ({"user"} \X unsent) \cup ({"progress", "final", "bad"} \X Task) : c = <<i>>
    BY <1>4 DEF Cause
  <2>2. QED
    BY <1>2, <1>3, <2>1
<1>5. QED
  BY <1>1, <1>4

\* The call that is handled is of a turn and of a response that may be.
LEMMA ThisTaskFacts ==
    ASSUME KernelInv, pc \in {"tool", "launch", "invoke", "after"}
    PROVE  /\ ThisTask \in Task /\ ThisTask[1] = st.turn /\ ThisTask[2] = cur /\ st.tasks[ThisTask] = "none"
           /\ cur \in 1 .. calls /\ calls \in 1 .. MaxCalls /\ st.turn \in 1 .. MaxTurns
<1>1. st \in State /\ st.turn \in 0 .. MaxTurns /\ st.turn >= 1 /\ cur <= calls /\ calls \in 0 .. MaxCalls
      /\ cur \in 1 .. (MaxCalls + 1)
  BY StateFields DEF KernelInv, Good, Shape, Locals, Working
<1>2. st.turn \in 1 .. MaxTurns /\ cur \in 1 .. MaxCalls /\ cur \in 1 .. calls /\ calls \in 1 .. MaxCalls
  BY <1>1, KernelBounds
<1>3. ThisTask \in Task /\ ThisTask[1] = st.turn /\ ThisTask[2] = cur
  BY <1>2 DEF ThisTask, Task
<1>4. st.tasks[ThisTask] = "none"
  BY <1>2, <1>3 DEF KernelInv, Unstarted, Working
<1>5. QED
  BY <1>2, <1>3, <1>4

\* Every action keeps the types of the queues and the sets.
LEMMA CollectionsNext ==
    ASSUME KernelInv, Next
    PROVE  Collections'
<1>1. Collections
  BY DEF KernelInv
<1>2. CASE LoopStep
  <2>1. CASE TakeBatch
    BY <1>1, <2>1, Items DEF TakeBatch, tokVars, wakeVars, logVars, envVars, Collections
  <2>2. CASE ApplyBatched
    BY <1>1, <2>2, Items DEF ApplyBatched, Take, tokVars, envVars, Collections
  <2>3. CASE EndBatch
    BY <1>1, <2>3, Items DEF EndBatch, TokenFor, child_token, Checkpoint, Fresh, FreshOn, wakeVars,
      logVars, envVars, Collections
  <2>4. CASE StartTurn
    BY <1>1, <2>4, Items DEF StartTurn, TokenFor, child_token, wakeVars, logVars, envVars,
      Collections
  <2>5. CASE LogRequest
    BY <1>1, <2>5, Items DEF LogRequest, Fired, Goto, Log, tokVars, wakeVars, envVars, Collections
  <2>6. CASE SendRequest
    BY <1>1, <2>6, Items DEF SendRequest, Fired, Goto, logVars, tokVars, wakeVars, envVars, Collections
  <2>7. CASE AfterModel
    BY <1>1, <2>7, Items DEF AfterModel, Fired, Log, tokVars, wakeVars, envVars, Collections
  <2>8. CASE CheckPoint
    BY <1>1, <2>8, Items DEF CheckPoint, Cancelled, Fired, Leave, Goto, child_token, wakeVars,
      logVars, envVars, Collections
  <2>9. CASE Unregistered
    BY <1>1, <2>9, Items DEF Unregistered, Fired, AppendOutput, Log, tokVars, wakeVars, envVars,
      Collections
  <2>10. CASE Replaced
    BY <1>1, <2>10, Items DEF Replaced, Fired, Log, tokVars, wakeVars, envVars, Collections
  <2>11. CASE LogCall
    BY <1>1, <2>11, Items DEF LogCall, Fired, Goto, Log, wakeVars, envVars, Collections
  <2>12. CASE Invoke
    BY <1>1, <2>12, Items DEF Invoke, Fired, Goto, tokVars, logVars, wakeVars, envVars, Collections
  <2>13. CASE ToolCancelled
    BY <1>1, <2>13, Items DEF ToolCancelled, Fired, Leave, Goto, child_token, Log, logVars, envVars,
      Collections
  <2>14. CASE AfterTool
    BY <1>1, <2>14, Items DEF AfterTool, Fired, AppendOutput, Log, tokVars, wakeVars, envVars,
      Collections
  <2>15. CASE DrainOne
    BY <1>1, <2>15, Items DEF DrainOne, Take, tokVars, envVars, Collections
  <2>16. CASE TurnEnd
    BY <1>1, <2>16, Items DEF TurnEnd, Drained, Checkpoint, child_token, Goto, Fresh, FreshOn,
      wakeVars, envVars, Collections
  <2>17. CASE LogSuspended
    BY <1>1, <2>17, Items DEF LogSuspended, Return, Fresh, FreshOn, tokVars, wakeVars, envVars,
      Collections
  <2>18. CASE CancelTurnBody
    BY <1>1, <2>18, Items DEF CancelTurnBody, Log, FreshOn, tokVars, envVars, Collections
  <2>19. CASE CancelTurnEnd
    BY <1>1, <2>19, Items DEF CancelTurnEnd, Drained, Checkpoint, Return, Fresh, FreshOn, wakeVars,
      envVars, Collections
  <2>20. CASE FailTurnBody
    BY <1>1, <2>20, Items DEF FailTurnBody, Log, FreshOn, tokVars, envVars, Collections
  <2>21. CASE FailTurnEnd
    BY <1>1, <2>21, Items DEF FailTurnEnd, Drained, Checkpoint, Goto, wakeVars, envVars, Collections
  <2>22. CASE LogFailed
    BY <1>1, <2>22, Items DEF LogFailed, Return, Fresh, FreshOn, tokVars, wakeVars, envVars,
      Collections
  <2>23. CASE ResumeApply
    BY <1>1, <2>23, Items DEF ResumeApply, CheckpointWith, TokenFor, child_token, Return, Fresh,
      FreshOn, envVars, Collections
  <2>24. CASE EndOne
    BY <1>1, <2>24, Items DEF EndOne, Log, loopVars, tokVars, wakeVars, envVars, Collections
  <2>25. CASE EndCommit
    BY <1>1, <2>25, Items DEF EndCommit, Checkpoint, Goto, wakeVars, envVars, Collections
  <2>26. CASE LogEnded
    BY <1>1, <2>26, Items DEF LogEnded, Return, Fresh, FreshOn, tokVars, wakeVars, envVars,
      Collections
  <2>27. CASE LoseOne
    BY <1>1, <2>27, Items DEF LoseOne, tokVars, wakeVars, logVars, envVars, Collections
  <2>28. CASE LoggedOpen
    BY <1>1, <2>28, Items DEF LoggedOpen, Goto, Log, tokVars, wakeVars, envVars, Collections
  <2>29. CASE OpenApply
    BY <1>1, <2>29, Items DEF OpenApply, CheckpointWith, Log, Return, Fresh, FreshOn, wakeVars,
      envVars, Collections
  <2>30. QED
    BY <1>2, <2>1, <2>2, <2>3, <2>4, <2>6, <2>7, <2>8, <2>9, <2>10, <2>12, <2>13, <2>14,
      <2>15, <2>16, <2>17, <2>18, <2>19, <2>20, <2>21, <2>22, <2>23, <2>24, <2>25, <2>26, <2>27,
      <2>28, <2>29, <2>5, <2>11 DEF LoopStep
<1>3. CASE Reply
  <2>1. CASE ModelAnswers
    BY <1>1, <2>1, Items DEF ModelAnswers, Fired, Goto, tokVars, wakeVars, logVars, envVars,
      Collections
  <2>2. CASE LaunchFails
    BY <1>1, <2>2, Items DEF LaunchFails, wakeVars, logVars, envVars,
      Collections
  <2>3. CASE ToolWatches
    BY <1>1, <2>3, ThisTaskFacts DEF ToolWatches, loopVars, tokVars, logVars, envVars, Collections
  <2>4. CASE ToolReturns
    BY <1>1, <2>4, Items DEF ToolReturns, Fired, logVars, envVars, Collections
  <2>5. CASE TurnFails
    BY <1>1, <2>5, Items DEF TurnFails, Fired, Leave, Goto, child_token, wakeVars, logVars, envVars,
      Collections
  <2>6. CASE MidTurnCompaction
    BY <1>1, <2>6, Items DEF MidTurnCompaction, Fired, Outside, Checkpoint, loopVars, tokVars,
      wakeVars, Collections
  <2>7. QED
    BY <1>3, <2>1, <2>3, <2>4, <2>5, <2>6, <2>2 DEF Reply
<1>4. CASE Fault
  <2>1. CASE ApplyBatchedFault
    BY <1>1, <2>1, Items DEF ApplyBatchedFault, TakeUnlogged, Return, Fresh, FreshOn, tokVars,
      logVars, Collections
  <2>2. CASE EndBatchFault
    BY <1>1, <2>2, Items DEF EndBatchFault, LogRefuses, TokenFor, child_token, Return, Fresh,
      FreshOn, wakeVars, logVars, Collections
  <2>3. CASE DrainFault
    BY <1>1, <2>3, Items DEF DrainFault, TakeUnlogged, Leave, Goto, child_token, Return, Fresh,
      FreshOn, tokVars, logVars, Collections
  <2>4. CASE TurnEndFault
    BY <1>1, <2>4, Items DEF TurnEndFault, Drained, LogRefuses, child_token, Return, Fresh, FreshOn,
      wakeVars, logVars, Collections
  <2>5. CASE LogSuspendedFault
    BY <1>1, <2>5, Items DEF LogSuspendedFault, LogRefuses, Leave, Goto, child_token, Return, Fresh,
      FreshOn, tokVars, wakeVars, logVars, Collections
  <2>6. CASE CancelTurnFault
    BY <1>1, <2>6, Items DEF CancelTurnFault, LogRefuses, Return, Fresh, FreshOn, Log, tokVars,
      Collections
  <2>7. CASE FailTurnFault
    BY <1>1, <2>7, Items DEF FailTurnFault, LogRefuses, Return, Fresh, FreshOn, tokVars, logVars,
      Collections
  <2>8. CASE MidTurnCompactionFault
    BY <1>1, <2>8, Items DEF MidTurnCompactionFault, Fired, LogRefuses, child_token, Return, Fresh,
      FreshOn, Log, wakeVars, Collections
  <2>9. CASE TaskStartedFault
    BY <1>1, <2>9, Items DEF TaskStartedFault, Fired, LogRefuses, Leave, Goto, child_token,
      wakeVars, logVars, Collections
  <2>10. CASE SuspendFault
    BY <1>1, <2>10, Items DEF SuspendFault, LogRefuses, loopVars, wakeVars, logVars, Collections
  <2>11. CASE ResumeFault
    BY <1>1, <2>11, Items DEF ResumeFault, TakeUnlogged, LogRefuses, TokenFor, child_token, Return,
      Fresh, FreshOn, logVars, Collections
  <2>12. CASE EndFault
    BY <1>1, <2>12, Items DEF EndFault, LogRefuses, Return, Fresh, FreshOn, wakeVars, logVars,
      Collections
  <2>13. QED
    BY <1>4, <2>1, <2>2, <2>3, <2>4, <2>5, <2>6, <2>7, <2>8, <2>9, <2>10, <2>11, <2>12 DEF Fault
<1>5. CASE Caller
  <2>1. CASE Run
    BY <1>1, <2>1, Items DEF Run, Goto, tokVars, wakeVars, logVars, envVars, Collections
  <2>2. CASE Suspend
    BY <1>1, <2>2, Items DEF Suspend, Outside, Checkpoint, FreshOn, wakeVars, Collections
  <2>3. CASE Resume
    BY <1>1, <2>3, CauseFacts DEF Resume, Spend, Log, tokVars, wakeVars, Collections
  <2>4. CASE Compact
    BY <1>1, <2>4, Items DEF Compact, Outside, Checkpoint, loopVars, tokVars, wakeVars, Collections
  <2>5. CASE End
    BY <1>1, <2>5, Items DEF End, Outside, Goto, logVars, Collections
  <2>6. QED
    BY <1>5, <2>1, <2>2, <2>3, <2>4, <2>5 DEF Caller
<1>6. CASE Handle
  <2>1. CASE EnqueueUserMessage
    BY <1>1, <2>1, Items DEF EnqueueUserMessage, Up, Send, loopVars, tokVars, wakeVars, logVars,
      Collections
  <2>2. CASE CancelTurn
    BY <1>1, <2>2, Items DEF CancelTurn, Up, Outside, loopVars, wakeVars, logVars, Collections
  <2>3. CASE CancelTool
    BY <1>1, <2>3, Items DEF CancelTool, Up, Outside, loopVars, wakeVars, logVars, Collections
  <2>4. CASE CancelTask
    BY <1>1, <2>4, Items DEF CancelTask, Up, Outside, Send, loopVars, tokVars, logVars, Collections
  <2>5. CASE DeliverTaskUpdate
    BY <1>1, <2>5, Items DEF DeliverTaskUpdate, Up, Outside, Send, loopVars, tokVars, wakeVars,
      logVars, Collections
  <2>6. QED
    BY <1>6, <2>1, <2>2, <2>3, <2>4, <2>5 DEF Handle
<1>7. CASE Waker
  BY <1>1, <1>7, Items DEF Waker, WakerResolves, WakerDelivers, loopVars, logVars, envVars, Send, Collections
<1>8. CASE Process
  <2>1. CASE Die
    BY <1>1, <2>1, Items DEF Die, Fresh, FreshOn, Collections
  <2>2. CASE Open
    BY <1>1, <2>2, CauseFacts DEF Open, Spend, tokVars, wakeVars, Collections
  <2>3. QED
    BY <1>8, <2>1, <2>2 DEF Process
<1>9. QED
  BY <1>2, <1>3, <1>4, <1>5, <1>6, <1>7, <1>8 DEF Next

-----------------------------------------------------------------------------
(* The state, the snapshot and the checkpoint *)

\* To set the status that a state has changes nothing.
LEMMA SameStatus ==
    ASSUME NEW s \in State
    PROVE  WithStatus(s, s.status) = s
  BY DEF State, WithStatus

\* A turn begins.
LEMMA GoodTurn ==
    ASSUME NEW s, Good(s), s.turn < MaxTurns
    PROVE  Good([s EXCEPT !.turn = @ + 1])
<1> DEFINE z == [s EXCEPT !.turn = @ + 1]
<1>1. s \in State /\ s.turn \in 0 .. MaxTurns
  BY StateFields DEF Good
<1>2. s.turn + 1 \in 0 .. MaxTurns
  BY <1>1, KernelBounds
<1>3. /\ z \in State /\ z.turn = s.turn + 1 /\ z.status = s.status /\ z.msgs = s.msgs /\ z.tasks = s.tasks
  BY <1>1, <1>2 DEF State
<1> HIDE DEF z
<1>4. \A t \in Task : t[1] <= s.turn => t[1] <= z.turn
  BY <1>1, <1>3 DEF Task
<1>5. Good(z)
  BY <1>3, <1>4 DEF Good, open_tasks
<1>6. QED
  BY <1>5 DEF z

\* append_tool_output: a message, and a task if there is one.
LEMMA WithOutputFields ==
    ASSUME KernelInv, pc \in {"tool", "launch", "invoke", "after"}, NEW o
    PROVE  /\ WithOutput(o) \in State
           /\ WithOutput(o).msgs = Append(st.msgs, <<"tool", ThisTask>>)
           /\ WithOutput(o).turn = st.turn /\ WithOutput(o).status = st.status
           /\ WithOutput(o).tasks = IF o = "task" THEN [st.tasks EXCEPT ![ThisTask] = "open"] ELSE st.tasks
           /\ WithOutput(o).waker = IF o = "task" /\ ThisTask \in watched THEN st.waker \cup {ThisTask}
                                    ELSE st.waker
<1> DEFINE m == <<"tool", ThisTask>>
           s == Push(st, m)
<1>1. m \in Msg /\ ThisTask \in Task
  BY ThisTaskFacts DEF Msg
<1>2. st \in State
  BY DEF KernelInv, Good
<1> HIDE DEF m
<1>3. /\ s \in State /\ s.msgs = Append(st.msgs, m)
      /\ s.turn = st.turn /\ s.status = st.status /\ s.tasks = st.tasks /\ s.waker = st.waker
  BY <1>1, <1>2, PushFields
<1>4. WithOutput(o) = IF o # "task" THEN s
                      ELSE [s EXCEPT !.tasks[ThisTask] = "open",
                                     !.waker = IF ThisTask \in watched THEN @ \cup {ThisTask} ELSE @]
  BY DEF WithOutput, m
<1> HIDE DEF s
<1>5. CASE o # "task"
  BY <1>3, <1>4, <1>5 DEF m
<1>6. CASE o = "task"
  <2> DEFINE y == [s EXCEPT !.tasks[ThisTask] = "open"]
             z == [y EXCEPT !.waker = IF ThisTask \in watched THEN @ \cup {ThisTask} ELSE @]
  <2>1. WithOutput(o) = z
    BY <1>4, <1>6
  <2>2. /\ y \in State /\ y.msgs = s.msgs /\ y.turn = s.turn /\ y.status = s.status
        /\ y.tasks = [s.tasks EXCEPT ![ThisTask] = "open"] /\ y.waker = s.waker
    BY <1>1, <1>3 DEF State
  <2> HIDE DEF y
  <2>3. /\ z \in State /\ z.msgs = y.msgs /\ z.turn = y.turn /\ z.status = y.status /\ z.tasks = y.tasks
        /\ z.waker = IF ThisTask \in watched THEN y.waker \cup {ThisTask} ELSE y.waker
    BY <1>1, <2>2 DEF State
  <2> HIDE DEF z
  <2>4. QED
    BY <1>3, <1>6, <2>1, <2>2, <2>3 DEF m
<1>7. QED
  BY <1>5, <1>6

\* The output of a call keeps the state good: its task was not there before.
LEMMA GoodOutput ==
    ASSUME KernelInv, pc \in {"tool", "launch", "invoke", "after"}, NEW o
    PROVE  Good(WithOutput(o))
<1> DEFINE z == WithOutput(o)
           m == <<"tool", ThisTask>>
<1>1. /\ z \in State /\ z.msgs = Append(st.msgs, m) /\ z.turn = st.turn /\ z.status = st.status
      /\ z.tasks = IF o = "task" THEN [st.tasks EXCEPT ![ThisTask] = "open"] ELSE st.tasks
  BY WithOutputFields
<1>2. /\ ThisTask \in Task /\ ThisTask[1] = st.turn /\ st.tasks[ThisTask] = "none"
      /\ st.turn \in 1 .. MaxTurns
  BY ThisTaskFacts
<1>3. st.status = "running" /\ Good(st) /\ st \in State /\ st.msgs \in Seq(Msg)
      /\ st.tasks \in [Task -> {"none", "open", "finished", "cancelled"}]
  BY StateFields DEF KernelInv, Shape, Working, Good
<1>4. m \in Msg /\ \A t \in Task : m # <<"result", t>>
  BY <1>2 DEF Msg
<1> HIDE DEF z, m
<1>5. \A t \in Task : Results(z.msgs, t) = Results(st.msgs, t)
  BY <1>1, <1>3, <1>4, ResultsOfAppend
<1>6. \A t \in Task : z.tasks[t] = st.tasks[t] \/ (t = ThisTask /\ z.tasks[t] = "open")
  BY <1>1, <1>2, <1>3
<1>7. \A t \in Task : z.tasks[t] # "none" => t[1] <= z.turn
  BY <1>1, <1>2, <1>3, <1>6 DEF Good
<1>8. \A t \in Task : IF z.tasks[t] \in Closed THEN \E i : Results(z.msgs, t) = {i}
                      ELSE Results(z.msgs, t) = {}
  BY <1>2, <1>3, <1>5, <1>6 DEF Good, Closed
<1>9. Good(z)
  BY <1>1, <1>3, <1>7, <1>8 DEF Good
<1>10. QED
  BY <1>9 DEF z

\* cancel_turn answers the calls from cur to k.
Answers(k) == [i \in 1 .. (k + 1 - cur) |-> <<"tool", <<st.turn, cur + i - 1>>>>]

\* The synthetic answers are well-typed and change the messages only.
LEMMA AnswerFacts ==
    ASSUME KernelInv, pc = "cancel", NEW k \in (cur - 1) .. calls, AnswerUpTo(k)
    PROVE  /\ Answers(k) \in Seq(Msg) /\ Len(Answers(k)) = k + 1 - cur
           /\ st' \in State /\ st'.msgs = st.msgs \o Answers(k) /\ st'.turn = st.turn
           /\ st'.status = st.status /\ st'.tasks = st.tasks /\ st'.waker = st.waker
<1>1. st \in State /\ st.turn \in 0 .. MaxTurns /\ st.turn >= 1 /\ calls \in 0 .. MaxCalls
      /\ cur \in 1 .. (MaxCalls + 1) /\ st.msgs \in Seq(Msg)
  BY StateFields DEF KernelInv, Good, Shape, Locals
<1>2. k + 1 - cur \in Nat
  BY <1>1
<1>3. \A i \in 1 .. (k + 1 - cur) : <<"tool", <<st.turn, cur + i - 1>>>> \in Msg
  <2>1. ASSUME NEW i \in 1 .. (k + 1 - cur)
        PROVE  <<st.turn, cur + i - 1>> \in Task
    <3>1. st.turn \in 1 .. MaxTurns /\ cur + i - 1 \in 1 .. MaxCalls
      BY <1>1, KernelBounds
    <3>2. QED
      BY <3>1 DEF Task
  <2>2. QED
    BY <2>1 DEF Msg
<1>4. Answers(k) \in Seq(Msg) /\ Len(Answers(k)) = k + 1 - cur
  BY <1>2, <1>3 DEF Answers
<1>5. st' = [st EXCEPT !.msgs = st.msgs \o Answers(k)]
  BY DEF AnswerUpTo, Answers
<1>6. st.msgs \o Answers(k) \in Seq(Msg)
  BY <1>1, <1>4
<1> HIDE DEF Answers
<1>7. QED
  BY <1>1, <1>4, <1>5, <1>6 DEF State

\* The synthetic answers of a cancelled turn keep the state good.
LEMMA GoodAnswer ==
    ASSUME KernelInv, pc = "cancel", NEW k \in (cur - 1) .. calls, AnswerUpTo(k)
    PROVE  Good(st')
<1>1. /\ Answers(k) \in Seq(Msg)
      /\ st' \in State /\ st'.msgs = st.msgs \o Answers(k) /\ st'.turn = st.turn
      /\ st'.status = st.status /\ st'.tasks = st.tasks
  BY AnswerFacts
<1>2. Good(st) /\ st.msgs \in Seq(Msg)
  BY StateFields DEF KernelInv, Good
<1>3. \A t \in Task, i \in DOMAIN Answers(k) : Answers(k)[i] # <<"result", t>>
  BY DEF Answers
<1>4. \A t \in Task : Results(st.msgs \o Answers(k), t) = Results(st.msgs, t)
  BY <1>1, <1>2, <1>3, ResultsOfConcat
<1>5. QED
  BY <1>1, <1>2, <1>4 DEF Good, open_tasks

\* The states that a step can lead to.
LEMMA GoodStates ==
    ASSUME KernelInv
    PROVE  /\ Good(st) /\ Good(snap) /\ Good(ck) /\ Good(Created)
           /\ \A x \in {"running", "idle", "suspended", "failed"} : Good(WithStatus(st, x))
           /\ Good(WithStatus(st, st.status))
           /\ open_tasks(st) = {} => Good(WithStatus(st, "done"))
           /\ \A t \in open_tasks(st) : Good(cancel_task_in_state(st, t))
           /\ \A i \in Item : Good(Apply(st, i)) /\ Good(WithStatus(Apply(st, i), "running"))
           /\ \A n \in 0 .. MaxCalls : Good(Push(st, <<"assistant", st.turn, n>>))
<1>1. Good(st) /\ Good(snap) /\ Good(ck) /\ Good(Created) /\ st \in State
  BY GoodCreated DEF KernelInv, Good
<1>2. \A s : Good(s) => \A x \in {"running", "idle", "suspended", "failed"} : Good(WithStatus(s, x))
  BY GoodWithStatus DEF Status
<1>3. open_tasks(st) = {} => Good(WithStatus(st, "done"))
  BY <1>1, GoodWithStatus DEF Status
<1>4. \A t \in open_tasks(st) : Good(cancel_task_in_state(st, t))
  BY <1>1, GoodClose, CancelOpen DEF Closed
<1>5. \A i \in Item : Good(Apply(st, i)) /\ Good(WithStatus(Apply(st, i), "running"))
  BY <1>1, <1>2, GoodApply
<1>6. ASSUME NEW n \in 0 .. MaxCalls
      PROVE  Good(Push(st, <<"assistant", st.turn, n>>))
  <2>1. <<"assistant", st.turn, n>> \in Msg /\ <<"assistant", st.turn, n>>[1] # "result"
    BY <1>1, StateFields DEF Msg
  <2>2. QED
    BY <1>1, <2>1, GoodPush
<1>7. Good(WithStatus(st, st.status))
  BY <1>1, SameStatus
<1>8. QED
  BY <1>1, <1>2, <1>3, <1>4, <1>5, <1>6, <1>7

\* The snapshot and the checkpoint only take values that the state has, or
\* the snapshot that of a new session.
LEMMA SnapshotAndCheckpoint ==
    ASSUME KernelInv, Next
    PROVE  snap' \in {snap, Created, st'} /\ ck' \in {ck, st, st'}
<1>1. Collections
  BY DEF KernelInv
<1>2. CASE LoopStep
  <2>1. CASE TakeBatch
    BY <1>1, <2>1 DEF TakeBatch, tokVars, wakeVars, logVars, envVars
  <2>2. CASE ApplyBatched
    BY <1>1, <2>2 DEF ApplyBatched, Take, tokVars, envVars
  <2>3. CASE EndBatch
    BY <1>1, <2>3 DEF EndBatch, TokenFor, child_token, Checkpoint, Fresh, FreshOn, wakeVars,
      logVars, envVars
  <2>4. CASE StartTurn
    BY <1>1, <2>4 DEF StartTurn, TokenFor, child_token, wakeVars, logVars, envVars
  <2>5. CASE LogRequest
    BY <1>1, <2>5 DEF LogRequest, Fired, Goto, Log, tokVars, wakeVars, envVars
  <2>6. CASE SendRequest
    BY <1>1, <2>6 DEF SendRequest, Fired, Goto, logVars, tokVars, wakeVars, envVars
  <2>7. CASE AfterModel
    BY <1>1, <2>7 DEF AfterModel, Fired, Log, tokVars, wakeVars, envVars
  <2>8. CASE CheckPoint
    BY <1>1, <2>8 DEF CheckPoint, Cancelled, Fired, Leave, Goto, child_token, wakeVars, logVars,
      envVars
  <2>9. CASE Unregistered
    BY <1>1, <2>9 DEF Unregistered, Fired, AppendOutput, Log, tokVars, wakeVars, envVars
  <2>10. CASE Replaced
    BY <1>1, <2>10 DEF Replaced, Fired, Log, tokVars, wakeVars, envVars
  <2>11. CASE LogCall
    BY <1>1, <2>11 DEF LogCall, Fired, Goto, Log, wakeVars, envVars
  <2>12. CASE Invoke
    BY <1>1, <2>12 DEF Invoke, Fired, Goto, tokVars, logVars, wakeVars, envVars
  <2>13. CASE ToolCancelled
    BY <1>1, <2>13 DEF ToolCancelled, Fired, Leave, Goto, child_token, Log, logVars, envVars
  <2>14. CASE AfterTool
    BY <1>1, <2>14 DEF AfterTool, Fired, AppendOutput, Log, tokVars, wakeVars, envVars
  <2>15. CASE DrainOne
    BY <1>1, <2>15 DEF DrainOne, Take, tokVars, envVars
  <2>16. CASE TurnEnd
    BY <1>1, <2>16 DEF TurnEnd, Drained, Checkpoint, child_token, Goto, Fresh, FreshOn, wakeVars,
      envVars
  <2>17. CASE LogSuspended
    BY <1>1, <2>17 DEF LogSuspended, Return, Fresh, FreshOn, tokVars, wakeVars, envVars
  <2>18. CASE CancelTurnBody
    BY <1>1, <2>18 DEF CancelTurnBody, Log, FreshOn, tokVars, envVars
  <2>19. CASE CancelTurnEnd
    BY <1>1, <2>19 DEF CancelTurnEnd, Drained, Checkpoint, Return, Fresh, FreshOn, wakeVars, envVars
  <2>20. CASE FailTurnBody
    BY <1>1, <2>20 DEF FailTurnBody, Log, FreshOn, tokVars, envVars
  <2>21. CASE FailTurnEnd
    BY <1>1, <2>21 DEF FailTurnEnd, Drained, Checkpoint, Goto, wakeVars, envVars
  <2>22. CASE LogFailed
    BY <1>1, <2>22 DEF LogFailed, Return, Fresh, FreshOn, tokVars, wakeVars, envVars
  <2>23. CASE ResumeApply
    BY <1>1, <2>23 DEF ResumeApply, CheckpointWith, TokenFor, child_token, Return, Fresh, FreshOn,
      envVars
  <2>24. CASE EndOne
    BY <1>1, <2>24 DEF EndOne, Log, loopVars, tokVars, wakeVars, envVars
  <2>25. CASE EndCommit
    BY <1>1, <2>25 DEF EndCommit, Checkpoint, Goto, wakeVars, envVars
  <2>26. CASE LogEnded
    BY <1>1, <2>26 DEF LogEnded, Return, Fresh, FreshOn, tokVars, wakeVars, envVars
  <2>27. CASE LoseOne
    BY <1>1, <2>27 DEF LoseOne, tokVars, wakeVars, logVars, envVars
  <2>28. CASE LoggedOpen
    BY <1>1, <2>28 DEF LoggedOpen, Goto, Log, tokVars, wakeVars, envVars
  <2>29. CASE OpenApply
    BY <1>1, <2>29 DEF OpenApply, CheckpointWith, Log, Return, Fresh, FreshOn, wakeVars, envVars
  <2>30. QED
    BY <1>2, <2>1, <2>2, <2>3, <2>4, <2>6, <2>7, <2>8, <2>9, <2>10, <2>12, <2>13, <2>14,
      <2>15, <2>16, <2>17, <2>18, <2>19, <2>20, <2>21, <2>22, <2>23, <2>24, <2>25, <2>26, <2>27,
      <2>28, <2>29, <2>5, <2>11 DEF LoopStep
<1>3. CASE Reply
  <2>1. CASE ModelAnswers
    BY <1>1, <2>1 DEF ModelAnswers, Fired, Goto, tokVars, wakeVars, logVars, envVars
  <2>2. CASE LaunchFails
    BY <1>1, <2>2 DEF LaunchFails, wakeVars, logVars, envVars
  <2>3. CASE ToolWatches
    BY <1>1, <2>3 DEF ToolWatches, loopVars, tokVars, logVars, envVars
  <2>4. CASE ToolReturns
    BY <1>1, <2>4 DEF ToolReturns, Fired, logVars, envVars
  <2>5. CASE TurnFails
    BY <1>1, <2>5 DEF TurnFails, Fired, Leave, Goto, child_token, wakeVars, logVars, envVars
  <2>6. CASE MidTurnCompaction
    BY <1>1, <2>6 DEF MidTurnCompaction, Fired, Outside, Checkpoint, loopVars, tokVars, wakeVars
  <2>7. QED
    BY <1>3, <2>1, <2>3, <2>4, <2>5, <2>6, <2>2 DEF Reply
<1>4. CASE Fault
  <2>1. CASE ApplyBatchedFault
    BY <1>1, <2>1 DEF ApplyBatchedFault, TakeUnlogged, Return, Fresh, FreshOn, tokVars, logVars
  <2>2. CASE EndBatchFault
    BY <1>1, <2>2 DEF EndBatchFault, LogRefuses, TokenFor, child_token, Return, Fresh, FreshOn,
      wakeVars, logVars
  <2>3. CASE DrainFault
    BY <1>1, <2>3 DEF DrainFault, TakeUnlogged, Leave, Goto, child_token, Return, Fresh, FreshOn,
      tokVars, logVars
  <2>4. CASE TurnEndFault
    BY <1>1, <2>4 DEF TurnEndFault, Drained, LogRefuses, child_token, Return, Fresh, FreshOn,
      wakeVars, logVars
  <2>5. CASE LogSuspendedFault
    BY <1>1, <2>5 DEF LogSuspendedFault, LogRefuses, Leave, Goto, child_token, Return, Fresh,
      FreshOn, tokVars, wakeVars, logVars
  <2>6. CASE CancelTurnFault
    BY <1>1, <2>6 DEF CancelTurnFault, LogRefuses, Return, Fresh, FreshOn, Log, tokVars
  <2>7. CASE FailTurnFault
    BY <1>1, <2>7 DEF FailTurnFault, LogRefuses, Return, Fresh, FreshOn, tokVars, logVars
  <2>8. CASE MidTurnCompactionFault
    BY <1>1, <2>8 DEF MidTurnCompactionFault, Fired, LogRefuses, child_token, Return, Fresh,
      FreshOn, Log, wakeVars
  <2>9. CASE TaskStartedFault
    BY <1>1, <2>9 DEF TaskStartedFault, Fired, LogRefuses, Leave, Goto, child_token, wakeVars,
      logVars
  <2>10. CASE SuspendFault
    BY <1>1, <2>10 DEF SuspendFault, LogRefuses, loopVars, wakeVars, logVars
  <2>11. CASE ResumeFault
    BY <1>1, <2>11 DEF ResumeFault, TakeUnlogged, LogRefuses, TokenFor, child_token, Return, Fresh,
      FreshOn, logVars
  <2>12. CASE EndFault
    BY <1>1, <2>12 DEF EndFault, LogRefuses, Return, Fresh, FreshOn, wakeVars, logVars
  <2>13. QED
    BY <1>4, <2>1, <2>2, <2>3, <2>4, <2>5, <2>6, <2>7, <2>8, <2>9, <2>10, <2>11, <2>12 DEF Fault
<1>5. CASE Caller
  <2>1. CASE Run
    BY <1>1, <2>1 DEF Run, Goto, tokVars, wakeVars, logVars, envVars
  <2>2. CASE Suspend
    BY <1>1, <2>2 DEF Suspend, Outside, Checkpoint, FreshOn, wakeVars
  <2>3. CASE Resume
    BY <1>1, <2>3 DEF Resume, Log, tokVars, wakeVars
  <2>4. CASE Compact
    BY <1>1, <2>4 DEF Compact, Outside, Checkpoint, loopVars, tokVars, wakeVars
  <2>5. CASE End
    BY <1>1, <2>5 DEF End, Outside, Goto, logVars
  <2>6. QED
    BY <1>5, <2>1, <2>2, <2>3, <2>4, <2>5 DEF Caller
<1>6. CASE Handle
  <2>1. CASE EnqueueUserMessage
    BY <1>1, <2>1 DEF EnqueueUserMessage, Up, loopVars, tokVars, wakeVars, logVars
  <2>2. CASE CancelTurn
    BY <1>1, <2>2 DEF CancelTurn, Up, Outside, loopVars, wakeVars, logVars
  <2>3. CASE CancelTool
    BY <1>1, <2>3 DEF CancelTool, Up, Outside, loopVars, wakeVars, logVars
  <2>4. CASE CancelTask
    BY <1>1, <2>4 DEF CancelTask, Up, Outside, loopVars, tokVars, logVars
  <2>5. CASE DeliverTaskUpdate
    BY <1>1, <2>5 DEF DeliverTaskUpdate, Up, Outside, loopVars, tokVars, wakeVars, logVars
  <2>6. QED
    BY <1>6, <2>1, <2>2, <2>3, <2>4, <2>5 DEF Handle
<1>7. CASE Waker
  BY <1>1, <1>7 DEF Waker, WakerResolves, WakerDelivers, loopVars, logVars
<1>8. CASE Process
  <2>1. CASE Die
    BY <1>1, <2>1 DEF Die, Fresh, FreshOn
  <2>2. CASE Open
    BY <1>1, <2>2 DEF Open, tokVars, wakeVars
  <2>3. QED
    BY <1>8, <2>1, <2>2 DEF Process
<1>9. QED
  BY <1>2, <1>3, <1>4, <1>5, <1>6, <1>7, <1>8 DEF Next

\* Every action leads to a good state.
LEMMA GoodNext ==
    ASSUME KernelInv, Next
    PROVE  Good(st')
<1>1. Good(st) /\ Collections
  BY DEF KernelInv
<1>2. CASE LoopStep
  <2>1. CASE TakeBatch
    BY <1>1, <2>1, GoodStates DEF TakeBatch, tokVars, wakeVars, logVars, envVars
  <2>2. CASE ApplyBatched
    BY <1>1, <2>2, GoodStates, Items DEF ApplyBatched, Take, tokVars, envVars, Collections
  <2>3. CASE EndBatch
    BY <1>1, <2>3, GoodStates DEF EndBatch, TokenFor, child_token, Checkpoint, Fresh, FreshOn,
      wakeVars, logVars, envVars
  <2>4. CASE StartTurn
    BY <1>1, <2>4, GoodTurn DEF StartTurn, TokenFor, child_token, wakeVars, logVars, envVars
  <2>5. CASE LogRequest
    BY <1>1, <2>5, GoodStates DEF LogRequest, Fired, Goto, Log, tokVars, wakeVars, envVars
  <2>6. CASE SendRequest
    BY <1>1, <2>6, GoodStates DEF SendRequest, Fired, Goto, logVars, tokVars, wakeVars, envVars
  <2>7. CASE AfterModel
    BY <1>1, <2>7, GoodStates DEF AfterModel, Fired, Log, tokVars, wakeVars, envVars
  <2>8. CASE CheckPoint
    BY <1>1, <2>8, GoodStates DEF CheckPoint, Cancelled, Fired, Leave, Goto, child_token, wakeVars,
      logVars, envVars
  <2>9. CASE Unregistered
    BY <1>1, <2>9, GoodOutput DEF Unregistered, Fired, AppendOutput, Log, tokVars, wakeVars, envVars
  <2>10. CASE Replaced
    BY <1>1, <2>10, GoodStates DEF Replaced, Fired, Log, tokVars, wakeVars, envVars
  <2>11. CASE LogCall
    BY <1>1, <2>11, GoodStates DEF LogCall, Fired, Goto, Log, wakeVars, envVars
  <2>12. CASE Invoke
    BY <1>1, <2>12, GoodStates DEF Invoke, Fired, Goto, tokVars, logVars, wakeVars, envVars
  <2>13. CASE ToolCancelled
    BY <1>1, <2>13, GoodStates DEF ToolCancelled, Fired, Leave, Goto, child_token, Log, logVars,
      envVars
  <2>14. CASE AfterTool
    BY <1>1, <2>14, GoodOutput DEF AfterTool, Fired, AppendOutput, Log, tokVars, wakeVars, envVars
  <2>15. CASE DrainOne
    BY <1>1, <2>15, GoodStates, Items DEF DrainOne, Take, tokVars, envVars, Collections
  <2>16. CASE TurnEnd
    BY <1>1, <2>16, GoodStates DEF TurnEnd, Drained, NextStatus, Checkpoint, child_token, Goto,
      Fresh, FreshOn, wakeVars, envVars
  <2>17. CASE LogSuspended
    BY <1>1, <2>17, GoodStates DEF LogSuspended, Return, Fresh, FreshOn, tokVars, wakeVars, envVars
  <2>18. CASE CancelTurnBody
    <3>1. pc = "cancel" /\ AnswerUpTo(calls)
      BY <2>18 DEF CancelTurnBody
    <3>2. calls \in (cur - 1) .. calls
      BY <3>1 DEF KernelInv, Shape, Locals
    <3>3. QED
      BY <3>1, <3>2, GoodAnswer
  <2>19. CASE CancelTurnEnd
    BY <1>1, <2>19, GoodStates DEF CancelTurnEnd, Drained, Checkpoint, Return, Fresh, FreshOn,
      wakeVars, envVars
  <2>20. CASE FailTurnBody
    BY <1>1, <2>20, GoodStates DEF FailTurnBody, Log, FreshOn, tokVars, envVars
  <2>21. CASE FailTurnEnd
    BY <1>1, <2>21, GoodStates DEF FailTurnEnd, Drained, Checkpoint, Goto, wakeVars, envVars
  <2>22. CASE LogFailed
    BY <1>1, <2>22, GoodStates DEF LogFailed, Return, Fresh, FreshOn, tokVars, wakeVars, envVars
  <2>23. CASE ResumeApply
    BY <1>1, <2>23, GoodStates, Items DEF ResumeApply, Resumed, CheckpointWith, TokenFor,
      child_token, Return, Fresh, FreshOn, envVars, Collections
  <2>24. CASE EndOne
    BY <1>1, <2>24, GoodStates DEF EndOne, Log, loopVars, tokVars, wakeVars, envVars
  <2>25. CASE EndCommit
    BY <1>1, <2>25, GoodStates DEF EndCommit, Checkpoint, Goto, wakeVars, envVars
  <2>26. CASE LogEnded
    BY <1>1, <2>26, GoodStates DEF LogEnded, Return, Fresh, FreshOn, tokVars, wakeVars, envVars
  <2>27. CASE LoseOne
    BY <1>1, <2>27, GoodStates DEF LoseOne, Lost, tokVars, wakeVars, logVars, envVars
  <2>28. CASE LoggedOpen
    BY <1>1, <2>28, GoodStates DEF LoggedOpen, Lost, Goto, Log, tokVars, wakeVars, envVars
  <2>29. CASE OpenApply
    BY <1>1, <2>29, GoodStates, Items DEF OpenApply, CheckpointWith, Log, Return, Fresh, FreshOn,
      wakeVars, envVars, Collections
  <2>30. QED
    BY <1>2, <2>1, <2>2, <2>3, <2>4, <2>6, <2>7, <2>8, <2>9, <2>10, <2>12, <2>13, <2>14,
      <2>15, <2>16, <2>17, <2>18, <2>19, <2>20, <2>21, <2>22, <2>23, <2>24, <2>25, <2>26, <2>27,
      <2>28, <2>29, <2>5, <2>11 DEF LoopStep
<1>3. CASE Reply
  <2>1. CASE ModelAnswers
    BY <1>1, <2>1, GoodStates DEF ModelAnswers, Fired, Goto, tokVars, wakeVars, logVars, envVars
  <2>2. CASE LaunchFails
    BY <1>1, <2>2, GoodStates DEF LaunchFails, wakeVars, logVars, envVars
  <2>3. CASE ToolWatches
    BY <1>1, <2>3, GoodStates DEF ToolWatches, loopVars, tokVars, logVars, envVars
  <2>4. CASE ToolReturns
    BY <1>1, <2>4, GoodStates DEF ToolReturns, Fired, logVars, envVars
  <2>5. CASE TurnFails
    BY <1>1, <2>5, GoodStates DEF TurnFails, Fired, Leave, Goto, child_token, wakeVars, logVars,
      envVars
  <2>6. CASE MidTurnCompaction
    BY <1>1, <2>6, GoodStates DEF MidTurnCompaction, Fired, Outside, Checkpoint, loopVars, tokVars,
      wakeVars
  <2>7. QED
    BY <1>3, <2>1, <2>3, <2>4, <2>5, <2>6, <2>2 DEF Reply
<1>4. CASE Fault
  <2>1. CASE ApplyBatchedFault
    BY <1>1, <2>1, GoodStates, Items DEF ApplyBatchedFault, TakeUnlogged, Return, Fresh, FreshOn,
      tokVars, logVars, Collections
  <2>2. CASE EndBatchFault
    BY <1>1, <2>2, GoodStates DEF EndBatchFault, LogRefuses, TokenFor, child_token, Return, Fresh,
      FreshOn, wakeVars, logVars
  <2>3. CASE DrainFault
    BY <1>1, <2>3, GoodStates, Items DEF DrainFault, TakeUnlogged, Leave, Goto, child_token, Return,
      Fresh, FreshOn, tokVars, logVars, Collections
  <2>4. CASE TurnEndFault
    BY <1>1, <2>4, GoodStates DEF TurnEndFault, Drained, LogRefuses, NextStatus, child_token,
      Return, Fresh, FreshOn, wakeVars, logVars
  <2>5. CASE LogSuspendedFault
    BY <1>1, <2>5, GoodStates DEF LogSuspendedFault, LogRefuses, Leave, Goto, child_token, Return,
      Fresh, FreshOn, tokVars, wakeVars, logVars
  <2>6. CASE CancelTurnFault
    <3>1. pc = "cancel" /\ (UNCHANGED st \/ \E k \in (cur - 1) .. (calls - 1) : AnswerUpTo(k))
      BY <2>6 DEF CancelTurnFault
    <3>2. \A k \in (cur - 1) .. (calls - 1) : k \in (cur - 1) .. calls
      BY DEF KernelInv, Locals
    <3>3. QED
      BY <1>1, <3>1, <3>2, GoodAnswer
  <2>7. CASE FailTurnFault
    BY <1>1, <2>7, GoodStates DEF FailTurnFault, LogRefuses, Return, Fresh, FreshOn, tokVars,
      logVars
  <2>8. CASE MidTurnCompactionFault
    BY <1>1, <2>8, GoodStates DEF MidTurnCompactionFault, Fired, LogRefuses, child_token, Return,
      Fresh, FreshOn, Log, wakeVars
  <2>9. CASE TaskStartedFault
    BY <1>1, <2>9, GoodOutput DEF TaskStartedFault, Fired, LogRefuses, Leave, Goto, child_token,
      wakeVars, logVars
  <2>10. CASE SuspendFault
    BY <1>1, <2>10, GoodStates DEF SuspendFault, LogRefuses, loopVars, wakeVars, logVars
  <2>11. CASE ResumeFault
    BY <1>1, <2>11, GoodStates, Items DEF ResumeFault, TakeUnlogged, LogRefuses, Resumed, TokenFor,
      child_token, Return, Fresh, FreshOn, logVars, Collections
  <2>12. CASE EndFault
    BY <1>1, <2>12, GoodStates DEF EndFault, LogRefuses, Return, Fresh, FreshOn, wakeVars, logVars
  <2>13. QED
    BY <1>4, <2>1, <2>2, <2>3, <2>4, <2>5, <2>6, <2>7, <2>8, <2>9, <2>10, <2>11, <2>12 DEF Fault
<1>5. CASE Caller
  <2>1. CASE Run
    BY <1>1, <2>1, GoodStates DEF Run, Goto, tokVars, wakeVars, logVars, envVars
  <2>2. CASE Suspend
    BY <1>1, <2>2, GoodStates DEF Suspend, Outside, Checkpoint, FreshOn, wakeVars
  <2>3. CASE Resume
    BY <1>1, <2>3, GoodStates DEF Resume, Log, tokVars, wakeVars
  <2>4. CASE Compact
    BY <1>1, <2>4, GoodStates DEF Compact, Outside, Checkpoint, loopVars, tokVars, wakeVars
  <2>5. CASE End
    BY <1>1, <2>5, GoodStates DEF End, Outside, Goto, logVars
  <2>6. QED
    BY <1>5, <2>1, <2>2, <2>3, <2>4, <2>5 DEF Caller
<1>6. CASE Handle
  <2>1. CASE EnqueueUserMessage
    BY <1>1, <2>1, GoodStates DEF EnqueueUserMessage, Up, loopVars, tokVars, wakeVars, logVars
  <2>2. CASE CancelTurn
    BY <1>1, <2>2, GoodStates DEF CancelTurn, Up, Outside, loopVars, wakeVars, logVars
  <2>3. CASE CancelTool
    BY <1>1, <2>3, GoodStates DEF CancelTool, Up, Outside, loopVars, wakeVars, logVars
  <2>4. CASE CancelTask
    BY <1>1, <2>4, GoodStates DEF CancelTask, Up, Outside, loopVars, tokVars, logVars
  <2>5. CASE DeliverTaskUpdate
    BY <1>1, <2>5, GoodStates DEF DeliverTaskUpdate, Up, Outside, loopVars, tokVars, wakeVars,
      logVars
  <2>6. QED
    BY <1>6, <2>1, <2>2, <2>3, <2>4, <2>5 DEF Handle
<1>7. CASE Waker
  BY <1>1, <1>7, GoodStates DEF Waker, WakerResolves, WakerDelivers, logVars
<1>8. CASE Process
  <2>1. CASE Die
    BY <1>1, <2>1, GoodStates DEF Die, Fresh, FreshOn
  <2>2. CASE Open
    BY <1>1, <2>2, GoodStates DEF Open, tokVars, wakeVars
  <2>3. QED
    BY <1>8, <2>1, <2>2 DEF Process
<1>9. QED
  BY <1>2, <1>3, <1>4, <1>5, <1>6, <1>7, <1>8 DEF Next

-----------------------------------------------------------------------------
(* The place of the kernel *)

\* The turn that begins has no tasks yet.
LEMMA TurnFields ==
    ASSUME KernelInv, StartTurn
    PROVE  /\ st'.turn = st.turn + 1 /\ st'.turn >= 1 /\ st'.status = "running"
           /\ st'.msgs = st.msgs /\ st'.tasks = st.tasks /\ st'.waker = st.waker /\ snap' = st'
           /\ \A t \in Task : t[1] = st'.turn => st'.tasks[t] = "none"
<1>1. st \in State /\ st.turn \in 0 .. MaxTurns /\ st.status = "running" /\ st' = [st EXCEPT !.turn = @ + 1] /\ snap' = st'
  BY StateFields DEF KernelInv, Good, StartTurn
<1>2. /\ st'.turn = st.turn + 1 /\ st'.turn >= 1 /\ st'.status = "running"
      /\ st'.msgs = st.msgs /\ st'.tasks = st.tasks /\ st'.waker = st.waker
  BY <1>1 DEF State
<1>3. \A t \in Task : st.tasks[t] # "none" => t[1] <= st.turn
  BY DEF KernelInv, Good
<1>4. \A t \in Task : t[1] \in Nat
  BY DEF Task
<1>5. QED
  BY <1>1, <1>2, <1>3, <1>4

\* The model's response comes last, and nothing else changes.
LEMMA AssistantFields ==
    ASSUME KernelInv, NEW n \in 0 .. MaxCalls
    PROVE  LET z == Push(st, <<"assistant", st.turn, n>>)
           IN  /\ z.msgs = Append(st.msgs, <<"assistant", st.turn, n>>) /\ z.turn = st.turn
               /\ z.status = st.status /\ z.tasks = st.tasks /\ z.waker = st.waker
<1> DEFINE m == <<"assistant", st.turn, n>>
<1>1. st \in State /\ m \in Msg
  BY StateFields DEF KernelInv, Good, Msg
<1> HIDE DEF m
<1>2. /\ Push(st, m).msgs = Append(st.msgs, m) /\ Push(st, m).turn = st.turn
      /\ Push(st, m).status = st.status /\ Push(st, m).tasks = st.tasks /\ Push(st, m).waker = st.waker
  BY <1>1, PushFields
<1>3. QED
  BY <1>2 DEF m

\* Every action keeps the turn and the call in step with the place.
LEMMA ShapeNext ==
    ASSUME KernelInv, Next
    PROVE  Shape'
<1>1. Shape /\ Locals
  BY DEF KernelInv
<1>2. CASE LoopStep
  <2>1. CASE TakeBatch
    BY <1>1, <2>1 DEF TakeBatch, tokVars, wakeVars, logVars, envVars, Shape, Working, Locals
  <2>2. CASE ApplyBatched
    BY <1>1, <2>2 DEF ApplyBatched, Take, tokVars, envVars, Shape, Working, Locals
  <2>3. CASE EndBatch
    BY <1>1, <2>3 DEF EndBatch, TokenFor, child_token, Checkpoint, Fresh, FreshOn, wakeVars,
      logVars, envVars, Shape, Working, Locals
  <2>4. CASE StartTurn
    BY <1>1, <2>4, TurnFields DEF StartTurn, TokenFor, child_token, wakeVars, logVars, envVars,
      Shape, Working, Locals
  <2>5. CASE LogRequest
    BY <1>1, <2>5 DEF LogRequest, Fired, Goto, Log, tokVars, wakeVars, envVars, Shape, Working,
      Locals
  <2>6. CASE SendRequest
    BY <1>1, <2>6 DEF SendRequest, Fired, Goto, logVars, tokVars, wakeVars, envVars, Shape, Working,
      Locals
  <2>7. CASE AfterModel
    <3>1. PICK n \in 0 .. MaxCalls : /\ st' = Push(st, <<"assistant", st.turn, n>>)
                                     /\ calls' = n /\ pc' = IF n = 0 THEN "drain" ELSE "tool"
      BY <2>7 DEF AfterModel
    <3>2. st'.turn = st.turn /\ st'.status = st.status /\ st'.tasks = st.tasks
      BY <3>1, AssistantFields
    <3>3. QED
      BY <1>1, <2>7, <3>1, <3>2 DEF AfterModel, Shape, Working, Locals
  <2>8. CASE CheckPoint
    BY <1>1, <2>8 DEF CheckPoint, Cancelled, Fired, Leave, Goto, child_token, wakeVars, logVars,
      envVars, Shape, Working, Locals
  <2>9. CASE Unregistered
    BY <1>1, <2>9, WithOutputFields DEF Unregistered, Fired, AppendOutput, Log, tokVars, wakeVars,
      envVars, Shape, Working, Locals
  <2>10. CASE Replaced
    BY <1>1, <2>10 DEF Replaced, Fired, Log, tokVars, wakeVars, envVars, Shape, Working, Locals
  <2>11. CASE LogCall
    BY <1>1, <2>11 DEF LogCall, Fired, Goto, Log, wakeVars, envVars, Shape, Working, Locals
  <2>12. CASE Invoke
    BY <1>1, <2>12 DEF Invoke, Fired, Goto, tokVars, logVars, wakeVars, envVars, Shape, Working, Locals
  <2>13. CASE ToolCancelled
    BY <1>1, <2>13 DEF ToolCancelled, Fired, Leave, Goto, child_token, Log, logVars, envVars, Shape,
      Working, Locals
  <2>14. CASE AfterTool
    BY <1>1, <2>14, WithOutputFields DEF AfterTool, Fired, AppendOutput, Log, tokVars, wakeVars,
      envVars, Shape, Working, Locals
  <2>15. CASE DrainOne
    BY <1>1, <2>15 DEF DrainOne, Take, tokVars, envVars, Shape, Working, Locals
  <2>16. CASE TurnEnd
    BY <1>1, <2>16 DEF TurnEnd, Drained, Checkpoint, child_token, Goto, Fresh, FreshOn, wakeVars,
      envVars, Shape, Working, Locals
  <2>17. CASE LogSuspended
    BY <1>1, <2>17 DEF LogSuspended, Return, Fresh, FreshOn, tokVars, wakeVars, envVars, Shape,
      Working, Locals
  <2>18. CASE CancelTurnBody
    BY <1>1, <2>18 DEF CancelTurnBody, Log, FreshOn, tokVars, envVars, Shape, Working, Locals
  <2>19. CASE CancelTurnEnd
    BY <1>1, <2>19 DEF CancelTurnEnd, Drained, Checkpoint, Return, Fresh, FreshOn, wakeVars,
      envVars, Shape, Working, Locals
  <2>20. CASE FailTurnBody
    BY <1>1, <2>20 DEF FailTurnBody, Log, FreshOn, tokVars, envVars, Shape, Working, Locals
  <2>21. CASE FailTurnEnd
    BY <1>1, <2>21 DEF FailTurnEnd, Drained, Checkpoint, Goto, wakeVars, envVars, Shape, Working,
      Locals
  <2>22. CASE LogFailed
    BY <1>1, <2>22 DEF LogFailed, Return, Fresh, FreshOn, tokVars, wakeVars, envVars, Shape,
      Working, Locals
  <2>23. CASE ResumeApply
    BY <1>1, <2>23 DEF ResumeApply, CheckpointWith, TokenFor, child_token, Return, Fresh, FreshOn,
      envVars, Shape, Working, Locals
  <2>24. CASE EndOne
    BY <1>1, <2>24 DEF EndOne, Log, loopVars, tokVars, wakeVars, envVars, Shape, Working, Locals
  <2>25. CASE EndCommit
    BY <1>1, <2>25 DEF EndCommit, Checkpoint, Goto, wakeVars, envVars, Shape, Working, Locals
  <2>26. CASE LogEnded
    BY <1>1, <2>26 DEF LogEnded, Return, Fresh, FreshOn, tokVars, wakeVars, envVars, Shape, Working,
      Locals
  <2>27. CASE LoseOne
    BY <1>1, <2>27 DEF LoseOne, tokVars, wakeVars, logVars, envVars, Shape, Working, Locals
  <2>28. CASE LoggedOpen
    BY <1>1, <2>28 DEF LoggedOpen, Goto, Log, tokVars, wakeVars, envVars, Shape, Working, Locals
  <2>29. CASE OpenApply
    BY <1>1, <2>29 DEF OpenApply, CheckpointWith, Log, Return, Fresh, FreshOn, wakeVars, envVars,
      Shape, Working, Locals
  <2>30. QED
    BY <1>2, <2>1, <2>2, <2>3, <2>4, <2>6, <2>7, <2>8, <2>9, <2>10, <2>12, <2>13, <2>14,
      <2>15, <2>16, <2>17, <2>18, <2>19, <2>20, <2>21, <2>22, <2>23, <2>24, <2>25, <2>26, <2>27,
      <2>28, <2>29, <2>5, <2>11 DEF LoopStep
<1>3. CASE Reply
  <2>1. CASE ModelAnswers
    BY <1>1, <2>1 DEF ModelAnswers, Fired, Goto, tokVars, wakeVars, logVars, envVars, Shape,
      Working, Locals
  <2>2. CASE LaunchFails
    BY <1>1, <2>2 DEF LaunchFails, wakeVars, logVars, envVars, Shape,
      Working, Locals
  <2>3. CASE ToolWatches
    BY <1>1, <2>3 DEF ToolWatches, loopVars, tokVars, logVars, envVars, Shape, Working, Locals
  <2>4. CASE ToolReturns
    BY <1>1, <2>4 DEF ToolReturns, Fired, logVars, envVars, Shape, Working, Locals
  <2>5. CASE TurnFails
    BY <1>1, <2>5 DEF TurnFails, Fired, Leave, Goto, child_token, wakeVars, logVars, envVars, Shape,
      Working, Locals
  <2>6. CASE MidTurnCompaction
    BY <1>1, <2>6 DEF MidTurnCompaction, Fired, Outside, Checkpoint, loopVars, tokVars, wakeVars,
      Shape, Working, Locals
  <2>7. QED
    BY <1>3, <2>1, <2>3, <2>4, <2>5, <2>6, <2>2 DEF Reply
<1>4. CASE Fault
  <2>1. CASE ApplyBatchedFault
    BY <1>1, <2>1 DEF ApplyBatchedFault, TakeUnlogged, Return, Fresh, FreshOn, tokVars, logVars,
      Shape, Working, Locals
  <2>2. CASE EndBatchFault
    BY <1>1, <2>2 DEF EndBatchFault, LogRefuses, TokenFor, child_token, Return, Fresh, FreshOn,
      wakeVars, logVars, Shape, Working, Locals
  <2>3. CASE DrainFault
    BY <1>1, <2>3 DEF DrainFault, TakeUnlogged, Leave, Goto, child_token, Return, Fresh, FreshOn,
      tokVars, logVars, Shape, Working, Locals
  <2>4. CASE TurnEndFault
    BY <1>1, <2>4 DEF TurnEndFault, Drained, LogRefuses, child_token, Return, Fresh, FreshOn,
      wakeVars, logVars, Shape, Working, Locals
  <2>5. CASE LogSuspendedFault
    BY <1>1, <2>5 DEF LogSuspendedFault, LogRefuses, Leave, Goto, child_token, Return, Fresh,
      FreshOn, tokVars, wakeVars, logVars, Shape, Working, Locals
  <2>6. CASE CancelTurnFault
    BY <1>1, <2>6 DEF CancelTurnFault, LogRefuses, Return, Fresh, FreshOn, Log, tokVars, Shape,
      Working, Locals
  <2>7. CASE FailTurnFault
    BY <1>1, <2>7 DEF FailTurnFault, LogRefuses, Return, Fresh, FreshOn, tokVars, logVars, Shape,
      Working, Locals
  <2>8. CASE MidTurnCompactionFault
    BY <1>1, <2>8 DEF MidTurnCompactionFault, Fired, LogRefuses, child_token, Return, Fresh,
      FreshOn, Log, wakeVars, Shape, Working, Locals
  <2>9. CASE TaskStartedFault
    BY <1>1, <2>9 DEF TaskStartedFault, Fired, LogRefuses, Leave, Goto, child_token, wakeVars,
      logVars, Shape, Working, Locals
  <2>10. CASE SuspendFault
    BY <1>1, <2>10 DEF SuspendFault, LogRefuses, loopVars, wakeVars, logVars, Shape, Working, Locals
  <2>11. CASE ResumeFault
    BY <1>1, <2>11 DEF ResumeFault, TakeUnlogged, LogRefuses, TokenFor, child_token, Return, Fresh,
      FreshOn, logVars, Shape, Working, Locals
  <2>12. CASE EndFault
    BY <1>1, <2>12 DEF EndFault, LogRefuses, Return, Fresh, FreshOn, wakeVars, logVars, Shape,
      Working, Locals
  <2>13. QED
    BY <1>4, <2>1, <2>2, <2>3, <2>4, <2>5, <2>6, <2>7, <2>8, <2>9, <2>10, <2>11, <2>12 DEF Fault
<1>5. CASE Caller
  <2>1. CASE Run
    BY <1>1, <2>1 DEF Run, Goto, tokVars, wakeVars, logVars, envVars, Shape, Working, Locals
  <2>2. CASE Suspend
    BY <1>1, <2>2 DEF Suspend, Outside, Checkpoint, FreshOn, wakeVars, Shape, Working, Locals
  <2>3. CASE Resume
    BY <1>1, <2>3 DEF Resume, Log, tokVars, wakeVars, Shape, Working, Locals
  <2>4. CASE Compact
    BY <1>1, <2>4 DEF Compact, Outside, Checkpoint, loopVars, tokVars, wakeVars, Shape, Working,
      Locals
  <2>5. CASE End
    BY <1>1, <2>5 DEF End, Outside, Goto, logVars, Shape, Working, Locals
  <2>6. QED
    BY <1>5, <2>1, <2>2, <2>3, <2>4, <2>5 DEF Caller
<1>6. CASE Handle
  <2>1. CASE EnqueueUserMessage
    BY <1>1, <2>1 DEF EnqueueUserMessage, Up, loopVars, tokVars, wakeVars, logVars, Shape, Working,
      Locals
  <2>2. CASE CancelTurn
    BY <1>1, <2>2 DEF CancelTurn, Up, Outside, loopVars, wakeVars, logVars, Shape, Working, Locals
  <2>3. CASE CancelTool
    BY <1>1, <2>3 DEF CancelTool, Up, Outside, loopVars, wakeVars, logVars, Shape, Working, Locals
  <2>4. CASE CancelTask
    BY <1>1, <2>4 DEF CancelTask, Up, Outside, loopVars, tokVars, logVars, Shape, Working, Locals
  <2>5. CASE DeliverTaskUpdate
    BY <1>1, <2>5 DEF DeliverTaskUpdate, Up, Outside, loopVars, tokVars, wakeVars, logVars, Shape,
      Working, Locals
  <2>6. QED
    BY <1>6, <2>1, <2>2, <2>3, <2>4, <2>5 DEF Handle
<1>7. CASE Waker
  BY <1>1, <1>7 DEF Waker, WakerResolves, WakerDelivers, loopVars, logVars, Shape
<1>8. CASE Process
  <2>1. CASE Die
    BY <1>1, <2>1 DEF Die, Fresh, FreshOn, Shape, Working, Locals
  <2>2. CASE Open
    BY <1>1, <2>2 DEF Open, tokVars, wakeVars, Shape, Working, Locals
  <2>3. QED
    BY <1>8, <2>1, <2>2 DEF Process
<1>9. QED
  BY <1>2, <1>3, <1>4, <1>5, <1>6, <1>7, <1>8 DEF Next

\* Every action keeps the calls still to be answered without tasks.
LEMMA UnstartedNext ==
    ASSUME KernelInv, Next
    PROVE  Unstarted'
<1>1. Unstarted
  BY DEF KernelInv
<1>2. CASE LoopStep
  <2>1. CASE TakeBatch
    BY <1>1, <2>1 DEF TakeBatch, tokVars, wakeVars, logVars, envVars, Unstarted, Working
  <2>2. CASE ApplyBatched
    BY <1>1, <2>2 DEF ApplyBatched, Take, tokVars, envVars, Unstarted, Working
  <2>3. CASE EndBatch
    BY <1>1, <2>3 DEF EndBatch, TokenFor, child_token, Checkpoint, Fresh, FreshOn, wakeVars,
      logVars, envVars, Unstarted, Working
  <2>4. CASE StartTurn
    BY <1>1, <2>4, TurnFields DEF StartTurn, TokenFor, child_token, wakeVars, logVars, envVars,
      Unstarted, Working
  <2>5. CASE LogRequest
    BY <1>1, <2>5 DEF LogRequest, Fired, Goto, Log, tokVars, wakeVars, envVars, Unstarted, Working
  <2>6. CASE SendRequest
    BY <1>1, <2>6 DEF SendRequest, Fired, Goto, logVars, tokVars, wakeVars, envVars, Unstarted, Working
  <2>7. CASE AfterModel
    <3>1. PICK n \in 0 .. MaxCalls : /\ st' = Push(st, <<"assistant", st.turn, n>>)
                                     /\ calls' = n /\ pc' = IF n = 0 THEN "drain" ELSE "tool"
      BY <2>7 DEF AfterModel
    <3>2. st'.turn = st.turn /\ st'.status = st.status /\ st'.tasks = st.tasks
      BY <3>1, AssistantFields
    <3>3. QED
      BY <1>1, <2>7, <3>1, <3>2 DEF AfterModel, Unstarted, Working
  <2>8. CASE CheckPoint
    BY <1>1, <2>8 DEF CheckPoint, Cancelled, Fired, Leave, Goto, child_token, wakeVars, logVars,
      envVars, Unstarted, Working
  <2>9. CASE Unregistered
    <3>1. pc \in {"tool", "after"} /\ cur' = cur + 1 /\ \E o : st' = WithOutput(o)
      BY <2>9 DEF Unregistered, AppendOutput
    <3>2. ThisTask \in Task /\ ThisTask[2] = cur /\ cur \in Nat
      BY <3>1, ThisTaskFacts
    <3>3. st'.turn = st.turn /\ (st'.tasks = st.tasks \/ st'.tasks = [st.tasks EXCEPT ![ThisTask] = "open"])
      BY <3>1, WithOutputFields
    <3>4. st.tasks \in [Task -> {"none", "open", "finished", "cancelled"}] /\ \A t \in Task : t[2] \in Nat
      BY StateFields, TaskFields DEF KernelInv, Good
    <3>5. \A t \in Task : t[1] = st.turn /\ t[2] >= cur => st.tasks[t] = "none"
      BY <1>1, <3>1 DEF Unstarted, Working
    <3>6. \A t \in Task : t[1] = st'.turn /\ t[2] >= cur' => st'.tasks[t] = "none"
      BY <3>1, <3>2, <3>3, <3>4, <3>5
    <3>7. QED
      BY <3>6 DEF Unstarted
  <2>10. CASE Replaced
    BY <1>1, <2>10 DEF Replaced, Fired, Log, tokVars, wakeVars, envVars, Unstarted, Working
  <2>11. CASE LogCall
    BY <1>1, <2>11 DEF LogCall, Fired, Goto, Log, wakeVars, envVars, Unstarted, Working
  <2>12. CASE Invoke
    BY <1>1, <2>12 DEF Invoke, Fired, Goto, tokVars, logVars, wakeVars, envVars, Unstarted, Working
  <2>13. CASE ToolCancelled
    BY <1>1, <2>13 DEF ToolCancelled, Fired, Leave, Goto, child_token, Log, logVars, envVars,
      Unstarted, Working
  <2>14. CASE AfterTool
    <3>1. pc \in {"tool", "after"} /\ cur' = cur + 1 /\ \E o : st' = WithOutput(o)
      BY <2>14 DEF AfterTool, AppendOutput
    <3>2. ThisTask \in Task /\ ThisTask[2] = cur /\ cur \in Nat
      BY <3>1, ThisTaskFacts
    <3>3. st'.turn = st.turn /\ (st'.tasks = st.tasks \/ st'.tasks = [st.tasks EXCEPT ![ThisTask] = "open"])
      BY <3>1, WithOutputFields
    <3>4. st.tasks \in [Task -> {"none", "open", "finished", "cancelled"}] /\ \A t \in Task : t[2] \in Nat
      BY StateFields, TaskFields DEF KernelInv, Good
    <3>5. \A t \in Task : t[1] = st.turn /\ t[2] >= cur => st.tasks[t] = "none"
      BY <1>1, <3>1 DEF Unstarted, Working
    <3>6. \A t \in Task : t[1] = st'.turn /\ t[2] >= cur' => st'.tasks[t] = "none"
      BY <3>1, <3>2, <3>3, <3>4, <3>5
    <3>7. QED
      BY <3>6 DEF Unstarted
  <2>15. CASE DrainOne
    BY <1>1, <2>15 DEF DrainOne, Take, tokVars, envVars, Unstarted, Working
  <2>16. CASE TurnEnd
    BY <1>1, <2>16 DEF TurnEnd, Drained, Checkpoint, child_token, Goto, Fresh, FreshOn, wakeVars,
      envVars, Unstarted, Working
  <2>17. CASE LogSuspended
    BY <1>1, <2>17 DEF LogSuspended, Return, Fresh, FreshOn, tokVars, wakeVars, envVars, Unstarted,
      Working
  <2>18. CASE CancelTurnBody
    BY <1>1, <2>18 DEF CancelTurnBody, Log, FreshOn, tokVars, envVars, Unstarted, Working
  <2>19. CASE CancelTurnEnd
    BY <1>1, <2>19 DEF CancelTurnEnd, Drained, Checkpoint, Return, Fresh, FreshOn, wakeVars,
      envVars, Unstarted, Working
  <2>20. CASE FailTurnBody
    BY <1>1, <2>20 DEF FailTurnBody, Log, FreshOn, tokVars, envVars, Unstarted, Working
  <2>21. CASE FailTurnEnd
    BY <1>1, <2>21 DEF FailTurnEnd, Drained, Checkpoint, Goto, wakeVars, envVars, Unstarted, Working
  <2>22. CASE LogFailed
    BY <1>1, <2>22 DEF LogFailed, Return, Fresh, FreshOn, tokVars, wakeVars, envVars, Unstarted,
      Working
  <2>23. CASE ResumeApply
    BY <1>1, <2>23 DEF ResumeApply, CheckpointWith, TokenFor, child_token, Return, Fresh, FreshOn,
      envVars, Unstarted, Working
  <2>24. CASE EndOne
    BY <1>1, <2>24 DEF EndOne, Log, loopVars, tokVars, wakeVars, envVars, Unstarted, Working
  <2>25. CASE EndCommit
    BY <1>1, <2>25 DEF EndCommit, Checkpoint, Goto, wakeVars, envVars, Unstarted, Working
  <2>26. CASE LogEnded
    BY <1>1, <2>26 DEF LogEnded, Return, Fresh, FreshOn, tokVars, wakeVars, envVars, Unstarted,
      Working
  <2>27. CASE LoseOne
    BY <1>1, <2>27 DEF LoseOne, tokVars, wakeVars, logVars, envVars, Unstarted, Working
  <2>28. CASE LoggedOpen
    BY <1>1, <2>28 DEF LoggedOpen, Goto, Log, tokVars, wakeVars, envVars, Unstarted, Working
  <2>29. CASE OpenApply
    BY <1>1, <2>29 DEF OpenApply, CheckpointWith, Log, Return, Fresh, FreshOn, wakeVars, envVars,
      Unstarted, Working
  <2>30. QED
    BY <1>2, <2>1, <2>2, <2>3, <2>4, <2>6, <2>7, <2>8, <2>9, <2>10, <2>12, <2>13, <2>14,
      <2>15, <2>16, <2>17, <2>18, <2>19, <2>20, <2>21, <2>22, <2>23, <2>24, <2>25, <2>26, <2>27,
      <2>28, <2>29, <2>5, <2>11 DEF LoopStep
<1>3. CASE Reply
  <2>1. CASE ModelAnswers
    BY <1>1, <2>1 DEF ModelAnswers, Fired, Goto, tokVars, wakeVars, logVars, envVars, Unstarted,
      Working
  <2>2. CASE LaunchFails
    BY <1>1, <2>2 DEF LaunchFails, wakeVars, logVars, envVars, Unstarted,
      Working
  <2>3. CASE ToolWatches
    BY <1>1, <2>3 DEF ToolWatches, loopVars, tokVars, logVars, envVars, Unstarted, Working
  <2>4. CASE ToolReturns
    BY <1>1, <2>4 DEF ToolReturns, Fired, logVars, envVars, Unstarted, Working
  <2>5. CASE TurnFails
    BY <1>1, <2>5 DEF TurnFails, Fired, Leave, Goto, child_token, wakeVars, logVars, envVars,
      Unstarted, Working
  <2>6. CASE MidTurnCompaction
    BY <1>1, <2>6 DEF MidTurnCompaction, Fired, Outside, Checkpoint, loopVars, tokVars, wakeVars,
      Unstarted, Working
  <2>7. QED
    BY <1>3, <2>1, <2>3, <2>4, <2>5, <2>6, <2>2 DEF Reply
<1>4. CASE Fault
  <2>1. CASE ApplyBatchedFault
    BY <1>1, <2>1 DEF ApplyBatchedFault, TakeUnlogged, Return, Fresh, FreshOn, tokVars, logVars,
      Unstarted, Working
  <2>2. CASE EndBatchFault
    BY <1>1, <2>2 DEF EndBatchFault, LogRefuses, TokenFor, child_token, Return, Fresh, FreshOn,
      wakeVars, logVars, Unstarted, Working
  <2>3. CASE DrainFault
    BY <1>1, <2>3 DEF DrainFault, TakeUnlogged, Leave, Goto, child_token, Return, Fresh, FreshOn,
      tokVars, logVars, Unstarted, Working
  <2>4. CASE TurnEndFault
    BY <1>1, <2>4 DEF TurnEndFault, Drained, LogRefuses, child_token, Return, Fresh, FreshOn,
      wakeVars, logVars, Unstarted, Working
  <2>5. CASE LogSuspendedFault
    BY <1>1, <2>5 DEF LogSuspendedFault, LogRefuses, Leave, Goto, child_token, Return, Fresh,
      FreshOn, tokVars, wakeVars, logVars, Unstarted, Working
  <2>6. CASE CancelTurnFault
    BY <1>1, <2>6 DEF CancelTurnFault, LogRefuses, Return, Fresh, FreshOn, Log, tokVars, Unstarted,
      Working
  <2>7. CASE FailTurnFault
    BY <1>1, <2>7 DEF FailTurnFault, LogRefuses, Return, Fresh, FreshOn, tokVars, logVars,
      Unstarted, Working
  <2>8. CASE MidTurnCompactionFault
    BY <1>1, <2>8 DEF MidTurnCompactionFault, Fired, LogRefuses, child_token, Return, Fresh,
      FreshOn, Log, wakeVars, Unstarted, Working
  <2>9. CASE TaskStartedFault
    BY <1>1, <2>9 DEF TaskStartedFault, Fired, LogRefuses, Leave, Goto, child_token, wakeVars,
      logVars, Unstarted, Working
  <2>10. CASE SuspendFault
    BY <1>1, <2>10 DEF SuspendFault, LogRefuses, loopVars, wakeVars, logVars, Unstarted, Working
  <2>11. CASE ResumeFault
    BY <1>1, <2>11 DEF ResumeFault, TakeUnlogged, LogRefuses, TokenFor, child_token, Return, Fresh,
      FreshOn, logVars, Unstarted, Working
  <2>12. CASE EndFault
    BY <1>1, <2>12 DEF EndFault, LogRefuses, Return, Fresh, FreshOn, wakeVars, logVars, Unstarted,
      Working
  <2>13. QED
    BY <1>4, <2>1, <2>2, <2>3, <2>4, <2>5, <2>6, <2>7, <2>8, <2>9, <2>10, <2>11, <2>12 DEF Fault
<1>5. CASE Caller
  <2>1. CASE Run
    BY <1>1, <2>1 DEF Run, Goto, tokVars, wakeVars, logVars, envVars, Unstarted, Working
  <2>2. CASE Suspend
    BY <1>1, <2>2 DEF Suspend, Outside, Checkpoint, FreshOn, wakeVars, Unstarted, Working
  <2>3. CASE Resume
    BY <1>1, <2>3 DEF Resume, Log, tokVars, wakeVars, Unstarted, Working
  <2>4. CASE Compact
    BY <1>1, <2>4 DEF Compact, Outside, Checkpoint, loopVars, tokVars, wakeVars, Unstarted, Working
  <2>5. CASE End
    BY <1>1, <2>5 DEF End, Outside, Goto, logVars, Unstarted, Working
  <2>6. QED
    BY <1>5, <2>1, <2>2, <2>3, <2>4, <2>5 DEF Caller
<1>6. CASE Handle
  <2>1. CASE EnqueueUserMessage
    BY <1>1, <2>1 DEF EnqueueUserMessage, Up, loopVars, tokVars, wakeVars, logVars, Unstarted,
      Working
  <2>2. CASE CancelTurn
    BY <1>1, <2>2 DEF CancelTurn, Up, Outside, loopVars, wakeVars, logVars, Unstarted, Working
  <2>3. CASE CancelTool
    BY <1>1, <2>3 DEF CancelTool, Up, Outside, loopVars, wakeVars, logVars, Unstarted, Working
  <2>4. CASE CancelTask
    BY <1>1, <2>4 DEF CancelTask, Up, Outside, loopVars, tokVars, logVars, Unstarted, Working
  <2>5. CASE DeliverTaskUpdate
    BY <1>1, <2>5 DEF DeliverTaskUpdate, Up, Outside, loopVars, tokVars, wakeVars, logVars,
      Unstarted, Working
  <2>6. QED
    BY <1>6, <2>1, <2>2, <2>3, <2>4, <2>5 DEF Handle
<1>7. CASE Waker
  BY <1>1, <1>7 DEF Waker, WakerResolves, WakerDelivers, loopVars, logVars, Unstarted
<1>8. CASE Process
  <2>1. CASE Die
    BY <1>1, <2>1 DEF Die, Fresh, FreshOn, Unstarted, Working
  <2>2. CASE Open
    BY <1>1, <2>2 DEF Open, tokVars, wakeVars, Unstarted, Working
  <2>3. QED
    BY <1>8, <2>1, <2>2 DEF Process
<1>9. QED
  BY <1>2, <1>3, <1>4, <1>5, <1>6, <1>7, <1>8 DEF Next

-----------------------------------------------------------------------------
(* Theorems *)

\* The invariant holds at first.
LEMMA KernelInvInit == Init => KernelInv
<1> SUFFICES ASSUME Init PROVE KernelInv
  OBVIOUS
<1>1. Locals
  BY KernelBounds DEF Init, Locals, Pcs, Paths, Tokens
<1>2. Flags
  BY DEF Init, Flags
<1>3. Collections
  BY DEF Init, Collections
<1>4. Good(st) /\ Good(snap) /\ Good(ck)
  BY GoodCreated DEF Init
<1>5. Shape /\ Unstarted
  BY DEF Init, Shape, Unstarted, Working
<1>6. QED
  BY <1>1, <1>2, <1>3, <1>4, <1>5 DEF KernelInv

\* The invariant is inductive.
LEMMA KernelInvNext ==
    ASSUME KernelInv, [Next]_vars
    PROVE  KernelInv'
<1>1. CASE Next
  <2>1. Good(st') /\ Good(snap') /\ Good(ck')
    BY <1>1, GoodNext, GoodCreated, SnapshotAndCheckpoint DEF KernelInv
  <2>2. QED
    BY <1>1, <2>1, LocalsNext, FlagsNext, CollectionsNext, ShapeNext, UnstartedNext DEF KernelInv
<1>2. CASE UNCHANGED vars
  <2>1. UNCHANGED <<st, snap, ck>>
    BY <1>2 DEF vars, loopVars, logVars
  <2>2. Locals'
    BY <1>2 DEF vars, loopVars, tokVars, envVars, KernelInv, Locals
  <2>3. Flags'
    BY <1>2 DEF vars, loopVars, tokVars, logVars, KernelInv, Flags
  <2>4. Collections'
    BY <1>2 DEF vars, loopVars, wakeVars, logVars, envVars, KernelInv, Collections
  <2>5. Shape' /\ Unstarted'
    BY <1>2 DEF vars, loopVars, KernelInv, Shape, Unstarted
  <2>6. QED
    BY <2>1, <2>2, <2>3, <2>4, <2>5 DEF KernelInv
<1>3. QED
  BY <1>1, <1>2

\* The invariant holds in every reachable state, with any deaths, refused
\* appends, cancels and late updates.
THEOREM KernelInvariant == Spec => []KernelInv
<1>1. QED
  BY KernelInvInit, KernelInvNext, PTL DEF Spec

\* Every variable of the kernel has its type in every reachable state.
THEOREM KernelTypeCorrect == Spec => []TypeOK
<1>1. KernelInv => TypeOK
  <2>1. KernelInv => st \in State /\ snap \in State /\ ck \in State
    BY DEF KernelInv, Good
  <2>2. QED
    BY <2>1 DEF KernelInv, Locals, Flags, Collections, TypeOK
<1>2. QED
  BY <1>1, KernelInvariant, PTL

\* A task has one synthetic result if it is closed and none before, in memory
\* and in the latest checkpoint: a cancel, a waker's update and the losses of
\* a recovery that race for a task close it once.
THEOREM TaskResultsOnce == Spec => []OneResultPerTask
<1>1. ASSUME KernelInv
      PROVE  OneResultPerTask
  <2>1. ASSUME NEW s, Good(s), NEW t \in Task
        PROVE  Cardinality(Results(s.msgs, t)) = IF s.tasks[t] \in {"finished", "cancelled"} THEN 1 ELSE 0
    <3>1. CASE s.tasks[t] \in {"finished", "cancelled"}
      <4>1. PICK i : Results(s.msgs, t) = {i}
        BY <2>1, <3>1 DEF Good, Closed
      <4>2. QED
        BY <3>1, <4>1, FS_Singleton
    <3>2. CASE s.tasks[t] \notin {"finished", "cancelled"}
      BY <2>1, <3>2, FS_EmptySet DEF Good, Closed
    <3>3. QED
      BY <3>1, <3>2
  <2>2. Good(st) /\ Good(ck)
    BY <1>1 DEF KernelInv
  <2>3. QED
    BY <2>1, <2>2 DEF OneResultPerTask, Results
<1>2. QED
  BY <1>1, KernelInvariant, PTL

-----------------------------------------------------------------------------
(***************************************************************************)
(* Proofs about the messages, the checkpoints and the tasks of Kernel, for *)
(* behaviours in which the log accepts every append (faults = 0), with any *)
(* number of deaths, cancels, failed turns and late updates.               *)
(*                                                                         *)
(* The properties are about the latest checkpoint, the request and the     *)
(* open tasks.  What they rest on is what holds between those moments:     *)
(*   Single    the cause of a resume or an open is at most one item        *)
(*   Calm      which user messages are in the state, in the snapshot and   *)
(*             in the checkpoint, and where the state is the checkpoint's  *)
(*   Accepted  every accepted message is queued or in the state            *)
(*   History   every call is answered, but those the turn is still at      *)
(*   Turns     which tasks can be watched, and what a rollback gives back  *)
(*   Waiting   what each open task that is watched waits for               *)
(*   Responses which turns have a response, and that a rollback undoes it  *)
(*   Futures   what each future that runs belongs to                       *)
(* LoggedInv is their conjunction.  Each is kept by every action, given    *)
(* KernelInv and the ones before it.                                       *)
(***************************************************************************)

-----------------------------------------------------------------------------
(* The user messages of a state *)

\* States with the same messages hold the same user messages.
LEMMA UsersSame ==
    ASSUME NEW s, NEW z, s.msgs = z.msgs
    PROVE  UsersIn(s) = UsersIn(z)
  BY DEF UsersIn

\* A push adds a user message if it is one.
LEMMA UsersPush ==
    ASSUME NEW s \in State, NEW z, NEW x \in Msg, z.msgs = Append(s.msgs, x)
    PROVE  \A u \in User : u \in UsersIn(z) <=> u \in UsersIn(s) \/ x = <<"user", u>>
<1> DEFINE m == s.msgs
           n == Append(m, x)
<1>1. m \in Seq(Msg)
  BY StateFields
<1> HIDE DEF m
<1>2. /\ DOMAIN m = 1 .. Len(m) /\ DOMAIN n = 1 .. Len(m) + 1 /\ Len(m) \in Nat
      /\ n[Len(m) + 1] = x /\ \A i \in 1 .. Len(m) : n[i] = m[i]
  BY <1>1
<1> HIDE DEF n
<1>3. \A i \in 1 .. Len(m) + 1 : i \in 1 .. Len(m) \/ i = Len(m) + 1
  BY <1>2
<1>4. \A r : (\E i \in DOMAIN n : n[i] = r) <=> (x = r \/ \E i \in DOMAIN m : m[i] = r)
  BY <1>2, <1>3
<1>5. UsersIn(z) = {u \in User : \E i \in DOMAIN n : n[i] = <<"user", u>>}
  BY DEF UsersIn, n, m
<1>6. UsersIn(s) = {u \in User : \E i \in DOMAIN m : m[i] = <<"user", u>>}
  BY DEF UsersIn, m
<1>7. QED
  BY <1>4, <1>5, <1>6

\* ... and adds none if it is another message.
LEMMA UsersPushOther ==
    ASSUME NEW s \in State, NEW z, NEW x \in Msg, z.msgs = Append(s.msgs, x), x[1] # "user"
    PROVE  UsersIn(z) = UsersIn(s)
<1>1. \A u \in User : x # <<"user", u>>
  OBVIOUS
<1>2. UsersIn(z) \subseteq User /\ UsersIn(s) \subseteq User
  BY DEF UsersIn
<1>3. \A u \in User : u \in UsersIn(z) <=> u \in UsersIn(s)
  BY <1>1, UsersPush
<1>4. QED
  BY <1>2, <1>3

\* States that hold the same but for the turn and the status.
Same(s, z) == s.msgs = z.msgs /\ s.tasks = z.tasks /\ s.waker = z.waker

\* What an item adds to a state: its message if it is one, and nothing at all
\* if it has no effect.
LEMMA ApplyFacts ==
    ASSUME NEW s \in State, NEW i \in Item
    PROVE  /\ Apply(s, i) \in State
           /\ UsersIn(Apply(s, i)) = UsersIn(s) \cup {u \in User : i = <<"user", u>>}
           /\ Effect(s, i) \notin {"user", "terminal"} => Apply(s, i) = s
           /\ i[1] = "user" => Effect(s, i) = "user" /\ i[2] \in User /\ i = <<"user", i[2]>>
<1>1. CASE i[1] = "user"
  <2>1. i \in Msg /\ i[2] \in User /\ i = <<"user", i[2]>>
    BY <1>1 DEF Item, Msg
  <2>2. Apply(s, i) = Push(s, i) /\ Effect(s, i) = "user"
    BY <1>1 DEF Apply, Effect
  <2>3. Push(s, i) \in State /\ Push(s, i).msgs = Append(s.msgs, i)
    BY <2>1, PushFields
  <2>4. \A u \in User : u \in UsersIn(Push(s, i)) <=> u \in UsersIn(s) \/ i = <<"user", u>>
    BY <2>1, <2>3, UsersPush
  <2>5. UsersIn(Push(s, i)) \subseteq User /\ UsersIn(s) \subseteq User
    BY DEF UsersIn
  <2>6. QED
    BY <2>1, <2>2, <2>3, <2>4, <2>5
<1>2. CASE i[1] # "user"
  <2>1. \A u \in User : i # <<"user", u>>
    BY <1>2
  <2>2. CASE Apply(s, i) = s
    BY <1>2, <2>1, <2>2
  <2>3. CASE Apply(s, i) # s
    <3>1. PICK t \in Task, how \in Closed : Apply(s, i) = Close(s, t, how) /\ Effect(s, i) = "terminal"
      BY <1>2, <2>3 DEF Apply, Effect, Item, Closed, open_tasks, cancel_task_in_state
    <3>2. Close(s, t, how) \in State /\ Close(s, t, how).msgs = Append(s.msgs, <<"result", t>>)
      BY CloseFields
    <3>3. <<"result", t>> \in Msg /\ <<"result", t>>[1] # "user"
      BY DEF Msg
    <3>4. UsersIn(Close(s, t, how)) = UsersIn(s)
      BY <3>2, <3>3, UsersPushOther
    <3>5. QED
      BY <1>2, <2>1, <3>1, <3>2, <3>4
  <2>4. QED
    BY <2>2, <2>3
<1>3. QED
  BY <1>1, <1>2

\* The user messages of the states that a step can lead to.
LEMMA UsersNext ==
    ASSUME KernelInv
    PROVE  /\ st \in State
           /\ WithStatus(st, st.status) = st
           /\ \A x \in Status : Same(WithStatus(st, x), st) /\ UsersIn(WithStatus(st, x)) = UsersIn(st)
           /\ \A t \in open_tasks(st) : UsersIn(cancel_task_in_state(st, t)) = UsersIn(st)
           /\ \A n \in 0 .. MaxCalls : UsersIn(Push(st, <<"assistant", st.turn, n>>)) = UsersIn(st)
           /\ \A i \in Item : LET z == WithStatus(Apply(st, i), "running")
                              IN  Same(z, Apply(st, i)) /\ UsersIn(z) = UsersIn(Apply(st, i))
<1>1. st \in State /\ "running" \in Status
  BY DEF KernelInv, Good, Status
<1>2. \A s \in State, x \in Status : /\ Same(WithStatus(s, x), s)
                                     /\ UsersIn(WithStatus(s, x)) = UsersIn(s)
  BY WithStatusFields, UsersSame DEF Same
<1>3. ASSUME NEW t \in open_tasks(st)
      PROVE  UsersIn(cancel_task_in_state(st, t)) = UsersIn(st)
  <2>1. t \in Task /\ "cancelled" \in Closed
    BY DEF open_tasks, Closed
  <2>2. Close(st, t, "cancelled").msgs = Append(st.msgs, <<"result", t>>)
    BY <1>1, <2>1, CloseFields
  <2>3. <<"result", t>> \in Msg /\ <<"result", t>>[1] # "user"
    BY <2>1 DEF Msg
  <2>4. cancel_task_in_state(st, t).msgs = Append(st.msgs, <<"result", t>>)
    BY <2>2, CancelOpen
  <2>5. QED
    BY <1>1, <2>3, <2>4, UsersPushOther
<1>4. ASSUME NEW n \in 0 .. MaxCalls
      PROVE  UsersIn(Push(st, <<"assistant", st.turn, n>>)) = UsersIn(st)
  <2>1. <<"assistant", st.turn, n>> \in Msg
    BY <1>1, StateFields DEF Msg
  <2>2. <<"assistant", st.turn, n>>[1] # "user"
    BY <2>1
  <2>3. Push(st, <<"assistant", st.turn, n>>).msgs = Append(st.msgs, <<"assistant", st.turn, n>>)
    BY AssistantFields
  <2>4. QED
    BY <1>1, <2>1, <2>2, <2>3, UsersPushOther
<1>5. \A i \in Item : Apply(st, i) \in State
  BY <1>1, ApplyFacts
<1>6. QED
  BY <1>1, <1>2, <1>3, <1>4, <1>5, SameStatus

\* A change of status changes no message.
LEMMA UsersStatus ==
    ASSUME KernelInv
    PROVE  \A x \in {"running", "idle", "suspended", "failed", "done", st.status} :
               UsersIn(WithStatus(st, x)) = UsersIn(st)
<1>1. "running" \in Status /\ "idle" \in Status /\ "suspended" \in Status /\ "failed" \in Status /\ "done" \in Status
  BY DEF Status
<1>2. QED
  BY <1>1, UsersNext

\* The output of a call is no user message.
LEMMA UsersOutput ==
    ASSUME KernelInv, pc \in {"tool", "launch", "invoke", "after"}, NEW o
    PROVE  UsersIn(WithOutput(o)) = UsersIn(st)
<1>1. WithOutput(o).msgs = Append(st.msgs, <<"tool", ThisTask>>)
  BY WithOutputFields
<1>2. <<"tool", ThisTask>> \in Msg /\ <<"tool", ThisTask>>[1] # "user"
  BY ThisTaskFacts DEF Msg
<1>3. st \in State
  BY DEF KernelInv, Good
<1>4. QED
  BY <1>1, <1>2, <1>3, UsersPushOther

\* Nor are the synthetic answers of a cancelled turn.
LEMMA UsersAnswer ==
    ASSUME KernelInv, pc = "cancel", AnswerUpTo(calls)
    PROVE  UsersIn(st') = UsersIn(st)
<1> DEFINE m == st.msgs
           k == Answers(calls)
           n == m \o k
<1>1. calls \in (cur - 1) .. calls
  BY DEF KernelInv, Locals, Shape
<1>2. k \in Seq(Msg) /\ st'.msgs = n /\ m \in Seq(Msg)
  BY <1>1, AnswerFacts, StateFields DEF KernelInv, Good
<1>3. \A i \in DOMAIN k : \A u \in User : k[i] # <<"user", u>>
  BY DEF Answers
<1> HIDE DEF m, k
<1>4. /\ DOMAIN m = 1 .. Len(m) /\ DOMAIN n = 1 .. Len(m) + Len(k)
      /\ Len(m) \in Nat /\ Len(k) \in Nat /\ DOMAIN k = 1 .. Len(k)
      /\ \A i \in 1 .. Len(m) + Len(k) : n[i] = IF i <= Len(m) THEN m[i] ELSE k[i - Len(m)]
  BY <1>2
<1> HIDE DEF n
<1>5. \A i \in DOMAIN n : \/ i \in DOMAIN m /\ n[i] = m[i]
                          \/ i - Len(m) \in DOMAIN k /\ n[i] = k[i - Len(m)]
  BY <1>4
<1>6. \A i \in DOMAIN m : i \in DOMAIN n /\ n[i] = m[i]
  BY <1>4
<1>7. \A u \in User : (\E i \in DOMAIN n : n[i] = <<"user", u>>) <=> \E i \in DOMAIN m : m[i] = <<"user", u>>
  BY <1>3, <1>5, <1>6
<1>8. UsersIn(st') = {u \in User : \E i \in DOMAIN n : n[i] = <<"user", u>>}
  BY <1>2 DEF UsersIn
<1>9. UsersIn(st) = {u \in User : \E i \in DOMAIN m : m[i] = <<"user", u>>}
  BY DEF UsersIn, m
<1>10. QED
  BY <1>7, <1>8, <1>9

-----------------------------------------------------------------------------
(* What every proof below uses *)

\* A refused append is counted.
LEMMA FaultCounted ==
    ASSUME KernelInv, Fault
    PROVE  faults' # 0
<1>1. faults \in Nat
  BY DEF KernelInv, Locals
<1>2. CASE ApplyBatchedFault
  BY <1>1, <1>2 DEF ApplyBatchedFault, TakeUnlogged
<1>3. CASE EndBatchFault
  BY <1>1, <1>3 DEF EndBatchFault, LogRefuses
<1>4. CASE DrainFault
  BY <1>1, <1>4 DEF DrainFault, TakeUnlogged
<1>5. CASE TurnEndFault
  BY <1>1, <1>5 DEF TurnEndFault, LogRefuses
<1>6. CASE LogSuspendedFault
  BY <1>1, <1>6 DEF LogSuspendedFault, LogRefuses
<1>7. CASE CancelTurnFault
  BY <1>1, <1>7 DEF CancelTurnFault, LogRefuses
<1>8. CASE FailTurnFault
  BY <1>1, <1>8 DEF FailTurnFault, LogRefuses
<1>9. CASE MidTurnCompactionFault
  BY <1>1, <1>9 DEF MidTurnCompactionFault, LogRefuses
<1>10. CASE TaskStartedFault
  BY <1>1, <1>10 DEF TaskStartedFault, LogRefuses
<1>11. CASE SuspendFault
  BY <1>1, <1>11 DEF SuspendFault, LogRefuses
<1>12. CASE ResumeFault
  BY <1>1, <1>12 DEF ResumeFault, LogRefuses, TakeUnlogged
<1>13. CASE EndFault
  BY <1>1, <1>13 DEF EndFault, LogRefuses
<1>14. QED
  BY <1>2, <1>3, <1>4, <1>5, <1>6, <1>7, <1>8, <1>9, <1>10, <1>11, <1>12, <1>13 DEF Fault

\* Handles and wakers touch neither the kernel's state nor its log.
LEMMA HandleKeeps ==
    ASSUME Handle \/ Waker
    PROVE  UNCHANGED <<st, loopVars, logVars, watched, ended, deaths, faults>>
<1>1. CASE Waker
  BY <1>1 DEF Waker, WakerResolves, WakerDelivers, loopVars, logVars, wakeVars, tokVars, envVars
<1>2. CASE EnqueueUserMessage
  BY <1>2 DEF EnqueueUserMessage, loopVars, logVars, wakeVars, tokVars, envVars
<1>3. CASE CancelTurn
  BY <1>3 DEF CancelTurn, Outside, loopVars, logVars, wakeVars, tokVars, envVars
<1>4. CASE CancelTool
  BY <1>4 DEF CancelTool, Outside, loopVars, logVars, wakeVars, tokVars, envVars
<1>5. CASE CancelTask
  BY <1>5 DEF CancelTask, Outside, loopVars, logVars, wakeVars, tokVars, envVars
<1>6. CASE DeliverTaskUpdate
  BY <1>6 DEF DeliverTaskUpdate, Outside, loopVars, logVars, wakeVars, tokVars, envVars
<1>7. QED
  BY <1>1, <1>2, <1>3, <1>4, <1>5, <1>6 DEF Handle

\* The log is never seen to refuse less.
LEMMA FaultsKept ==
    ASSUME KernelInv, Next, faults' = 0
    PROVE  faults = 0
<1>1. CASE LoopStep
  BY <1>1 DEF LoopStep, TakeBatch, ApplyBatched, EndBatch, StartTurn, LogRequest,
    SendRequest, AfterModel, CheckPoint, Unregistered, Replaced, LogCall, Invoke, ToolCancelled, AfterTool, DrainOne, TurnEnd,
    LogSuspended, CancelTurnBody, CancelTurnEnd, FailTurnBody, FailTurnEnd, LogFailed, ResumeApply,
    EndOne, EndCommit, LogEnded, LoseOne, LoggedOpen, OpenApply, envVars, Cancelled, AppendOutput
<1>2. CASE Reply
  BY <1>2 DEF Reply, ModelAnswers, LaunchFails, ToolWatches, ToolReturns, TurnFails, MidTurnCompaction, envVars,
    Outside
<1>3. CASE Fault
  BY <1>3, FaultCounted
<1>4. CASE Caller
  BY <1>4 DEF Caller, Run, Suspend, Resume, Compact, End, envVars, Outside
<1>5. CASE Handle \/ Waker
  BY <1>5, HandleKeeps
<1>6. CASE Process
  BY <1>6 DEF Process, Die, Open
<1>7. QED
  BY <1>1, <1>2, <1>3, <1>4, <1>5, <1>6 DEF Next

-----------------------------------------------------------------------------
(* Messages and checkpoints *)

\* Where the state is what the latest checkpoint holds.
Saved == {"out", "run", "before", "send", "request", "respond", "suspending", "resuming", "failing", "ended"}

\* The user messages whose events no checkpoint follows yet are those of the
\* batch or the drain; what a checkpoint followed is in it, in the state and,
\* in a turn, in the snapshot.
Calm ==
    /\ pc \notin {"batch", "drain"} => seen = {}
    /\ pc = "batch" /\ ~ changed => seen = {}
    /\ kept \subseteq UsersIn(ck)
    /\ pc # "down" => kept \cup seen \subseteq UsersIn(st)
    /\ pc \in InTurn => UsersIn(st) \subseteq UsersIn(snap)
    /\ pc \in Saved => Same(st, ck)
    /\ pc \in {"batch", "losing", "opening"} /\ ~ changed => Same(st, ck)

\* A step that ends with a checkpoint keeps it, if all the user messages of
\* the state and of the event before the checkpoint (X) are in the new state.
LEMMA CalmSaved ==
    ASSUME Calm, pc # "down", pc' \in {"out", "run", "suspending", "failing", "ended"},
           NEW X, UsersIn(st) \cup X \subseteq UsersIn(st'),
           ck' = st', kept' = kept \cup seen \cup X, seen' = {}
    PROVE  Calm'
<1>1. kept \cup seen \subseteq UsersIn(st)
  BY DEF Calm
<1>2. kept' \subseteq UsersIn(st')
  BY <1>1
<1>3. Same(st', ck')
  BY DEF Same
<1>4. QED
  BY <1>2, <1>3 DEF Calm, InTurn, Working, Saved, Same

\* ... as when only the status changes.
LEMMA CalmStatus ==
    ASSUME KernelInv, Calm, pc # "down", pc' \in {"out", "run", "suspending", "failing", "ended"},
           NEW x \in Status, st' = WithStatus(st, x), Checkpoint(st')
    PROVE  Calm'
<1>1. UsersIn(st) \cup {} \subseteq UsersIn(st') /\ kept' = kept \cup seen \cup {}
  BY UsersNext DEF Checkpoint
<1>2. QED
  BY <1>1, CalmSaved DEF Checkpoint

\* ... or when a cause is applied.
LEMMA CalmCause ==
    ASSUME KernelInv, Calm, pc # "down", pc' \in {"out", "run"}, CheckpointWith(st', batch),
           batch = <<>> \/ \E i \in Item : batch = <<i>>,
           LET s == IF batch = <<>> THEN st ELSE Apply(st, batch[1])
           IN  st' = s \/ st' = WithStatus(s, "running")
    PROVE  Calm'
<1> DEFINE X == {u \in User : batch = <<<<"user", u>>>>}
<1>1. "running" \in Status /\ st \in State
  BY DEF Status, KernelInv, Good
<1>2. UsersIn(st) \cup X \subseteq UsersIn(st')
  <2>1. CASE batch = <<>>
    <3>1. X = {}
      BY <2>1
    <3>2. st' = st \/ st' = WithStatus(st, "running")
      BY <2>1
    <3>3. QED
      BY <1>1, <3>1, <3>2, UsersNext
  <2>2. ASSUME NEW i \in Item, batch = <<i>>
        PROVE  UsersIn(st) \cup X \subseteq UsersIn(st')
    <3>1. st' = Apply(st, i) \/ st' = WithStatus(Apply(st, i), "running")
      BY <2>2
    <3>2. UsersIn(st') = UsersIn(Apply(st, i))
      BY <3>1, UsersNext
    <3>3. \A u \in X : i = <<"user", u>>
      BY <2>2
    <3>4. UsersIn(Apply(st, i)) = UsersIn(st) \cup {u \in User : i = <<"user", u>>}
      BY <1>1, ApplyFacts
    <3>5. QED
      BY <3>2, <3>3, <3>4
  <2>3. QED
    BY <2>1, <2>2
<1>3. ck' = st' /\ kept' = kept \cup seen \cup X /\ seen' = {}
  BY DEF CheckpointWith
<1> HIDE DEF X
<1>4. QED
  BY <1>2, <1>3, CalmSaved

\* The cause of a resume or an open is at most one item.
Single == pc \in {"resuming", "losing", "opening"} => batch = <<>> \/ \E i \in Item : batch = <<i>>

\* Every action keeps it.
LEMMA SingleNext ==
    ASSUME KernelInv, Single, Next, faults' = 0
    PROVE  Single'
<1>1. Single /\ Collections
  BY DEF KernelInv
<1>2. CASE LoopStep
  <2>1. CASE TakeBatch
    BY <1>1, <2>1 DEF TakeBatch, tokVars, wakeVars, logVars, envVars, Single
  <2>2. CASE ApplyBatched
    BY <1>1, <2>2 DEF ApplyBatched, Take, tokVars, envVars, Single
  <2>3. CASE EndBatch
    BY <1>1, <2>3 DEF EndBatch, TokenFor, child_token, Checkpoint, Fresh, FreshOn, wakeVars,
      logVars, envVars, Single
  <2>4. CASE StartTurn
    BY <1>1, <2>4 DEF StartTurn, TokenFor, child_token, wakeVars, logVars, envVars, Single
  <2>5. CASE LogRequest
    BY <1>1, <2>5 DEF LogRequest, Fired, Goto, Log, tokVars, wakeVars, envVars, Single
  <2>6. CASE SendRequest
    BY <1>1, <2>6 DEF SendRequest, Fired, Goto, logVars, tokVars, wakeVars, envVars, Single
  <2>7. CASE AfterModel
    BY <1>1, <2>7 DEF AfterModel, Fired, Log, tokVars, wakeVars, envVars, Single
  <2>8. CASE CheckPoint
    BY <1>1, <2>8 DEF CheckPoint, Cancelled, Fired, Leave, Goto, child_token, wakeVars, logVars,
      envVars, Single
  <2>9. CASE Unregistered
    BY <1>1, <2>9 DEF Unregistered, Fired, AppendOutput, Log, tokVars, wakeVars, envVars, Single
  <2>10. CASE Replaced
    BY <1>1, <2>10 DEF Replaced, Fired, Log, tokVars, wakeVars, envVars, Single
  <2>11. CASE LogCall
    BY <1>1, <2>11 DEF LogCall, Fired, Goto, Log, wakeVars, envVars, Single
  <2>12. CASE Invoke
    BY <1>1, <2>12 DEF Invoke, Fired, Goto, tokVars, logVars, wakeVars, envVars, Single
  <2>13. CASE ToolCancelled
    BY <1>1, <2>13 DEF ToolCancelled, Fired, Leave, Goto, child_token, Log, logVars, envVars, Single
  <2>14. CASE AfterTool
    BY <1>1, <2>14 DEF AfterTool, Fired, AppendOutput, Log, tokVars, wakeVars, envVars, Single
  <2>15. CASE DrainOne
    BY <1>1, <2>15 DEF DrainOne, Take, tokVars, envVars, Single
  <2>16. CASE TurnEnd
    BY <1>1, <2>16 DEF TurnEnd, Drained, Checkpoint, child_token, Goto, Fresh, FreshOn, wakeVars,
      envVars, Single
  <2>17. CASE LogSuspended
    BY <1>1, <2>17 DEF LogSuspended, Return, Fresh, FreshOn, tokVars, wakeVars, envVars, Single
  <2>18. CASE CancelTurnBody
    BY <1>1, <2>18 DEF CancelTurnBody, Log, FreshOn, tokVars, envVars, Single
  <2>19. CASE CancelTurnEnd
    BY <1>1, <2>19 DEF CancelTurnEnd, Drained, Checkpoint, Return, Fresh, FreshOn, wakeVars,
      envVars, Single
  <2>20. CASE FailTurnBody
    BY <1>1, <2>20 DEF FailTurnBody, Log, FreshOn, tokVars, envVars, Single
  <2>21. CASE FailTurnEnd
    BY <1>1, <2>21 DEF FailTurnEnd, Drained, Checkpoint, Goto, wakeVars, envVars, Single
  <2>22. CASE LogFailed
    BY <1>1, <2>22 DEF LogFailed, Return, Fresh, FreshOn, tokVars, wakeVars, envVars, Single
  <2>23. CASE ResumeApply
    BY <1>1, <2>23 DEF ResumeApply, CheckpointWith, TokenFor, child_token, Return, Fresh, FreshOn,
      envVars, Single
  <2>24. CASE EndOne
    BY <1>1, <2>24 DEF EndOne, Log, loopVars, tokVars, wakeVars, envVars, Single
  <2>25. CASE EndCommit
    BY <1>1, <2>25 DEF EndCommit, Checkpoint, Goto, wakeVars, envVars, Single
  <2>26. CASE LogEnded
    BY <1>1, <2>26 DEF LogEnded, Return, Fresh, FreshOn, tokVars, wakeVars, envVars, Single
  <2>27. CASE LoseOne
    BY <1>1, <2>27 DEF LoseOne, tokVars, wakeVars, logVars, envVars, Single
  <2>28. CASE LoggedOpen
    BY <1>1, <2>28 DEF LoggedOpen, Goto, Log, tokVars, wakeVars, envVars, Single
  <2>29. CASE OpenApply
    BY <1>1, <2>29 DEF OpenApply, CheckpointWith, Log, Return, Fresh, FreshOn, wakeVars, envVars,
      Single
  <2>30. QED
    BY <1>2, <2>1, <2>2, <2>3, <2>4, <2>6, <2>7, <2>8, <2>9, <2>10, <2>12, <2>13, <2>14,
      <2>15, <2>16, <2>17, <2>18, <2>19, <2>20, <2>21, <2>22, <2>23, <2>24, <2>25, <2>26, <2>27,
      <2>28, <2>29, <2>5, <2>11 DEF LoopStep
<1>3. CASE Reply
  <2>1. CASE ModelAnswers
    BY <1>1, <2>1 DEF ModelAnswers, Fired, Goto, tokVars, wakeVars, logVars, envVars, Single
  <2>2. CASE LaunchFails
    BY <1>1, <2>2 DEF LaunchFails, wakeVars, logVars, envVars, Single
  <2>3. CASE ToolWatches
    BY <1>1, <2>3 DEF ToolWatches, loopVars, tokVars, logVars, envVars, Single
  <2>4. CASE ToolReturns
    BY <1>1, <2>4 DEF ToolReturns, Fired, logVars, envVars, Single
  <2>5. CASE TurnFails
    BY <1>1, <2>5 DEF TurnFails, Fired, Leave, Goto, child_token, wakeVars, logVars, envVars, Single
  <2>6. CASE MidTurnCompaction
    BY <1>1, <2>6 DEF MidTurnCompaction, Fired, Outside, Checkpoint, loopVars, tokVars, wakeVars,
      Single
  <2>7. QED
    BY <1>3, <2>1, <2>3, <2>4, <2>5, <2>6, <2>2 DEF Reply
<1>4. CASE Fault
  BY <1>4, FaultCounted
<1>5. CASE Caller
  <2>1. CASE Run
    BY <1>1, <2>1 DEF Run, Goto, tokVars, wakeVars, logVars, envVars, Single
  <2>2. CASE Suspend
    BY <1>1, <2>2 DEF Suspend, Outside, Checkpoint, FreshOn, wakeVars, Single
  <2>3. CASE Resume
    BY <1>1, <2>3, CauseFacts DEF Resume, Log, tokVars, wakeVars, Single
  <2>4. CASE Compact
    BY <1>1, <2>4 DEF Compact, Outside, Checkpoint, loopVars, tokVars, wakeVars, Single
  <2>5. CASE End
    BY <1>1, <2>5 DEF End, Outside, Goto, logVars, Single
  <2>6. QED
    BY <1>5, <2>1, <2>2, <2>3, <2>4, <2>5 DEF Caller
<1>6. CASE Handle \/ Waker
  BY <1>1, <1>6, HandleKeeps DEF loopVars, Single
<1>7. CASE Process
  <2>1. CASE Die
    BY <1>1, <2>1 DEF Die, Fresh, FreshOn, Single
  <2>2. CASE Open
    BY <1>1, <2>2, CauseFacts DEF Open, tokVars, wakeVars, Single
  <2>3. QED
    BY <1>7, <2>1, <2>2 DEF Process
<1>8. QED
  BY <1>2, <1>3, <1>4, <1>5, <1>6, <1>7 DEF Next

\* Every action keeps the messages and the checkpoint as Calm says, unless the
\* log refuses.
LEMMA CalmNext ==
    ASSUME KernelInv, Single, Calm, Next, faults' = 0
    PROVE  Calm'
<1>1. Calm /\ Collections
  BY DEF KernelInv
<1>2. CASE LoopStep
  <2>1. CASE TakeBatch
    BY <1>1, <2>1, UsersNext DEF TakeBatch, tokVars, wakeVars, logVars, envVars, Calm, Saved,
      InTurn, Working, Same
  <2>2. CASE ApplyBatched
    <3>1. batch # <<>> /\ Head(batch) \in Item /\ st \in State
      BY <1>1, <2>2, Items DEF ApplyBatched, Collections, KernelInv, Good
    <3> DEFINE i == Head(batch)
    <3>2. /\ st' = Apply(st, i) /\ seen' = IF i[1] = "user" THEN seen \cup {i[2]} ELSE seen
          /\ UNCHANGED <<ck, kept, snap, pc>>
      BY <2>2 DEF ApplyBatched, Take
    <3>3. UsersIn(st') = UsersIn(st) \cup {u \in User : i = <<"user", u>>}
      BY <3>1, <3>2, ApplyFacts
    <3>4. /\ Effect(st, i) \notin {"user", "terminal"} => st' = st
          /\ i[1] = "user" => Effect(st, i) = "user" /\ i[2] \in User /\ i = <<"user", i[2]>>
      BY <3>1, <3>2, ApplyFacts
    <3>5. pc = "batch" /\ (~ changed' => ~ changed /\ Effect(st, i) \notin {"user", "progress", "terminal"})
      BY <2>2 DEF ApplyBatched
    <3> HIDE DEF i
    <3>6. seen' \subseteq UsersIn(st') /\ kept' \subseteq UsersIn(st')
      BY <1>1, <3>2, <3>3, <3>4, <3>5 DEF Calm
    <3>7. ~ changed' => seen' = {} /\ Same(st', ck')
      BY <1>1, <3>2, <3>4, <3>5 DEF Calm
    <3>8. QED
      BY <1>1, <3>2, <3>5, <3>6, <3>7 DEF Calm, InTurn, Working, Saved, Same
  <2>3. CASE EndBatch
    <3>1. PICK x \in {"running", st.status} :
            /\ st' = WithStatus(st, x)
            /\ IF changed THEN Checkpoint(st') ELSE UNCHANGED logVars
            /\ pc = "batch" /\ pc' \in {"run", "out"}
      BY <2>3 DEF EndBatch, Fresh, FreshOn
    <3>2. st \in State /\ st.status \in Status \cup {"none"} /\ "running" \in Status
      BY StateFields DEF KernelInv, Good, Status
    <3>3. /\ Same(st', st) /\ UsersIn(st') = UsersIn(st)
      BY <3>1, <3>2, UsersNext DEF Same
    <3>4. CASE changed
      <4>1. Checkpoint(st') /\ UsersIn(st) \cup {} \subseteq UsersIn(st')
        BY <3>1, <3>3, <3>4
      <4>2. ck' = st' /\ kept' = kept \cup seen \cup {} /\ seen' = {} /\ pc # "down"
        BY <3>1, <4>1 DEF Checkpoint
      <4>3. pc' \in {"out", "run", "suspending", "failing", "ended"}
        BY <3>1
      <4>4. QED
        BY <1>1, <4>1, <4>2, <4>3, CalmSaved
    <3>5. CASE ~ changed
      BY <1>1, <3>1, <3>3, <3>5 DEF logVars, Calm, InTurn, Working, Saved, Same
    <3>6. QED
      BY <3>4, <3>5
  <2>4. CASE StartTurn
    <3>1. /\ pc = "run" /\ pc' = "before" /\ UNCHANGED <<ck, seen, kept>>
          /\ st'.msgs = st.msgs /\ st'.tasks = st.tasks /\ st'.waker = st.waker /\ snap' = st'
      BY <2>4, TurnFields DEF StartTurn, logVars
    <3>2. UsersIn(st') = UsersIn(st) /\ UsersIn(snap') = UsersIn(st)
      BY <3>1, UsersSame
    <3>3. QED
      BY <1>1, <3>1, <3>2 DEF Calm, InTurn, Working, Saved, Same
  <2>5. CASE LogRequest
    BY <1>1, <2>5, UsersNext DEF LogRequest, Fired, Goto, Log, tokVars, wakeVars, envVars, Calm,
      Saved, InTurn, Working, Same
  <2>6. CASE SendRequest
    BY <1>1, <2>6, UsersNext DEF SendRequest, Fired, Goto, logVars, tokVars, wakeVars, envVars, Calm,
      Saved, InTurn, Working, Same
  <2>7. CASE AfterModel
    BY <1>1, <2>7, UsersNext DEF AfterModel, Fired, Log, tokVars, wakeVars, envVars, Calm, Saved,
      InTurn, Working, Same
  <2>8. CASE CheckPoint
    BY <1>1, <2>8, UsersNext DEF CheckPoint, Cancelled, Fired, Leave, Goto, child_token, wakeVars,
      logVars, envVars, Calm, Saved, InTurn, Working, Same
  <2>9. CASE Unregistered
    <3>1. /\ pc \in {"tool", "after"} /\ pc' \in {"drain", "tool"} /\ UNCHANGED <<ck, seen, kept, snap>>
          /\ \E o : st' = WithOutput(o)
      BY <2>9 DEF Unregistered, AppendOutput, Log
    <3>2. UsersIn(st') = UsersIn(st)
      BY <3>1, UsersOutput
    <3>3. QED
      BY <1>1, <3>1, <3>2 DEF Calm, InTurn, Working, Saved, Same
  <2>10. CASE Replaced
    BY <1>1, <2>10, UsersNext DEF Replaced, Fired, Log, tokVars, wakeVars, envVars, Calm, Saved,
      InTurn, Working, Same
  <2>11. CASE LogCall
    BY <1>1, <2>11, UsersNext DEF LogCall, Fired, Goto, Log, wakeVars, envVars, Calm, Saved, InTurn,
      Working, Same
  <2>12. CASE Invoke
    BY <1>1, <2>12, UsersNext DEF Invoke, Fired, Goto, tokVars, logVars, wakeVars, envVars, Calm, Saved, InTurn,
      Working, Same
  <2>13. CASE ToolCancelled
    BY <1>1, <2>13, UsersNext DEF ToolCancelled, Fired, Leave, Goto, child_token, Log, logVars,
      envVars, Calm, Saved, InTurn, Working, Same
  <2>14. CASE AfterTool
    <3>1. /\ pc \in {"tool", "after"} /\ pc' \in {"drain", "tool"} /\ UNCHANGED <<ck, seen, kept, snap>>
          /\ \E o : st' = WithOutput(o)
      BY <2>14 DEF AfterTool, AppendOutput, Log
    <3>2. UsersIn(st') = UsersIn(st)
      BY <3>1, UsersOutput
    <3>3. QED
      BY <1>1, <3>1, <3>2 DEF Calm, InTurn, Working, Saved, Same
  <2>15. CASE DrainOne
    <3>1. inbox # <<>> /\ Head(inbox) \in Item /\ st \in State
      BY <1>1, <2>15, Items DEF DrainOne, Collections, KernelInv, Good
    <3> DEFINE i == Head(inbox)
    <3>2. /\ st' = Apply(st, i) /\ seen' = IF i[1] = "user" THEN seen \cup {i[2]} ELSE seen
          /\ UNCHANGED <<ck, kept, snap, pc>>
      BY <2>15 DEF DrainOne, Take
    <3>3. UsersIn(st') = UsersIn(st) \cup {u \in User : i = <<"user", u>>}
      BY <3>1, <3>2, ApplyFacts
    <3>4. /\ Effect(st, i) \notin {"user", "terminal"} => st' = st
          /\ i[1] = "user" => Effect(st, i) = "user" /\ i[2] \in User /\ i = <<"user", i[2]>>
      BY <3>1, <3>2, ApplyFacts
    <3>5. pc = "drain"
      BY <2>15 DEF DrainOne
    <3> HIDE DEF i
    <3>6. seen' \subseteq UsersIn(st') /\ kept' \subseteq UsersIn(st')
      BY <1>1, <3>2, <3>3, <3>4, <3>5 DEF Calm
    <3>7. QED
      BY <1>1, <3>2, <3>5, <3>6 DEF Calm, InTurn, Working, Saved, Same
  <2>16. CASE TurnEnd
    <3>1. /\ st' = WithStatus(st, NextStatus) /\ Checkpoint(st') /\ NextStatus \in Status
          /\ pc # "down" /\ pc' \in {"out", "run", "suspending", "failing", "ended"}
      BY <2>16 DEF TurnEnd, Drained, NextStatus, Goto, Fresh, FreshOn, Status
    <3>2. QED
      BY <1>1, <3>1, CalmStatus
  <2>17. CASE LogSuspended
    BY <1>1, <2>17, UsersNext DEF LogSuspended, Return, Fresh, FreshOn, tokVars, wakeVars, envVars,
      Calm, Saved, InTurn, Working, Same
  <2>18. CASE CancelTurnBody
    <3>1. UsersIn(st') = UsersIn(st)
      BY <2>18, UsersAnswer DEF CancelTurnBody
    <3>2. pc = "cancel" /\ pc' = "drain" /\ UNCHANGED <<ck, seen, kept>>
      BY <2>18 DEF CancelTurnBody, FreshOn, Log
    <3>3. QED
      BY <1>1, <3>1, <3>2 DEF Calm, InTurn, Working, Saved, Same
  <2>19. CASE CancelTurnEnd
    <3>1. /\ st' = WithStatus(st, "idle") /\ Checkpoint(st') /\ "idle" \in Status
          /\ pc # "down" /\ pc' \in {"out", "run", "suspending", "failing", "ended"}
      BY <2>19 DEF CancelTurnEnd, Drained, Return, Fresh, FreshOn, Status
    <3>2. QED
      BY <1>1, <3>1, CalmStatus
  <2>20. CASE FailTurnBody
    BY <1>1, <2>20, UsersNext DEF FailTurnBody, Log, FreshOn, tokVars, envVars, Calm, Saved, InTurn,
      Working, Same
  <2>21. CASE FailTurnEnd
    <3>1. /\ st' = WithStatus(st, "failed") /\ Checkpoint(st') /\ "failed" \in Status
          /\ pc # "down" /\ pc' \in {"out", "run", "suspending", "failing", "ended"}
      BY <2>21 DEF FailTurnEnd, Drained, Goto, Status
    <3>2. QED
      BY <1>1, <3>1, CalmStatus
  <2>22. CASE LogFailed
    BY <1>1, <2>22, UsersNext DEF LogFailed, Return, Fresh, FreshOn, tokVars, wakeVars, envVars,
      Calm, Saved, InTurn, Working, Same
  <2>23. CASE ResumeApply
    <3>1. batch = <<>> \/ \E i \in Item : batch = <<i>>
      BY <2>23 DEF Single, ResumeApply
    <3>2. /\ pc = "resuming" /\ pc' = "out" /\ CheckpointWith(st', batch)
          /\ st' = WithStatus(IF batch = <<>> THEN st ELSE Apply(st, batch[1]), "running")
      BY <2>23 DEF ResumeApply, Return, Fresh, FreshOn, Resumed
    <3>3. QED
      BY <1>1, <3>1, <3>2, CalmCause
  <2>24. CASE EndOne
    BY <1>1, <2>24, UsersNext DEF EndOne, Log, loopVars, tokVars, wakeVars, envVars, Calm, Saved,
      InTurn, Working, Same
  <2>25. CASE EndCommit
    <3>1. /\ st' = WithStatus(st, "done") /\ Checkpoint(st') /\ "done" \in Status
          /\ pc # "down" /\ pc' \in {"out", "run", "suspending", "failing", "ended"}
      BY <2>25 DEF EndCommit, Goto, Status
    <3>2. QED
      BY <1>1, <3>1, CalmStatus
  <2>26. CASE LogEnded
    BY <1>1, <2>26, UsersNext DEF LogEnded, Return, Fresh, FreshOn, tokVars, wakeVars, envVars,
      Calm, Saved, InTurn, Working, Same
  <2>27. CASE LoseOne
    <3>1. /\ pc = "losing" /\ pc' = pc /\ changed' /\ UNCHANGED logVars
          /\ \E t \in open_tasks(st) : st' = cancel_task_in_state(st, t)
      BY <2>27 DEF LoseOne, Lost
    <3>2. UsersIn(st') = UsersIn(st)
      BY <3>1, UsersNext
    <3>3. QED
      BY <1>1, <3>1, <3>2 DEF logVars, Calm, InTurn, Working, Saved, Same
  <2>28. CASE LoggedOpen
    BY <1>1, <2>28, UsersNext DEF LoggedOpen, Goto, Log, tokVars, wakeVars, envVars, Calm, Saved,
      InTurn, Working, Same
  <2>29. CASE OpenApply
    <3> DEFINE s == IF batch = <<>> THEN st ELSE Apply(st, batch[1])
    <3>1. batch = <<>> \/ \E i \in Item : batch = <<i>>
      BY <2>29 DEF Single, OpenApply
    <3>2. /\ pc = "opening" /\ pc' = "out" /\ (st' = s \/ st' = WithStatus(s, "running"))
          /\ IF changed \/ Applied \/ st' # st THEN CheckpointWith(st', batch) ELSE Log
      BY <2>29 DEF OpenApply, Return, Fresh, FreshOn
    <3>3. CASE changed \/ Applied \/ st' # st
      BY <1>1, <3>1, <3>2, <3>3, CalmCause
    <3>4. CASE ~ (changed \/ Applied) /\ st' = st
      BY <1>1, <3>2, <3>4 DEF Log, Calm, InTurn, Working, Saved, Same
    <3>5. QED
      BY <3>3, <3>4
  <2>30. QED
    BY <1>2, <2>1, <2>2, <2>3, <2>4, <2>6, <2>7, <2>8, <2>9, <2>10, <2>12, <2>13, <2>14,
      <2>15, <2>16, <2>17, <2>18, <2>19, <2>20, <2>21, <2>22, <2>23, <2>24, <2>25, <2>26, <2>27,
      <2>28, <2>29, <2>5, <2>11 DEF LoopStep
<1>3. CASE Reply
  <2>1. CASE ModelAnswers
    BY <1>1, <2>1, UsersNext DEF ModelAnswers, Fired, Goto, tokVars, wakeVars, logVars, envVars,
      Calm, Saved, InTurn, Working, Same
  <2>2. CASE LaunchFails
    BY <1>1, <2>2, UsersNext DEF LaunchFails, wakeVars, logVars, envVars,
      Calm, Saved, InTurn, Working, Same
  <2>3. CASE ToolWatches
    BY <1>1, <2>3, UsersNext DEF ToolWatches, loopVars, tokVars, logVars, envVars, Calm, Saved,
      InTurn, Working, Same
  <2>4. CASE ToolReturns
    BY <1>1, <2>4, UsersNext DEF ToolReturns, Fired, logVars, envVars, Calm, Saved, InTurn, Working,
      Same
  <2>5. CASE TurnFails
    BY <1>1, <2>5, UsersNext DEF TurnFails, Fired, Leave, Goto, child_token, wakeVars, logVars,
      envVars, Calm, Saved, InTurn, Working, Same
  <2>6. CASE MidTurnCompaction
    BY <1>1, <2>6, UsersNext DEF MidTurnCompaction, Fired, Outside, Checkpoint, loopVars, tokVars,
      wakeVars, Calm, Saved, InTurn, Working, Same
  <2>7. QED
    BY <1>3, <2>1, <2>3, <2>4, <2>5, <2>6, <2>2 DEF Reply
<1>4. CASE Fault
  BY <1>4, FaultCounted
<1>5. CASE Caller
  <2>1. CASE Run
    BY <1>1, <2>1, UsersNext DEF Run, Goto, tokVars, wakeVars, logVars, envVars, Calm, Saved,
      InTurn, Working, Same
  <2>2. CASE Suspend
    <3>1. /\ st' = WithStatus(st, "suspended") /\ Checkpoint(st') /\ "suspended" \in Status
          /\ pc # "down" /\ pc' \in {"out", "run", "suspending", "failing", "ended"}
      BY <2>2 DEF Suspend, FreshOn, Status
    <3>2. QED
      BY <1>1, <3>1, CalmStatus
  <2>3. CASE Resume
    BY <1>1, <2>3, UsersNext DEF Resume, Log, tokVars, wakeVars, Calm, Saved, InTurn, Working, Same
  <2>4. CASE Compact
    BY <1>1, <2>4, UsersNext DEF Compact, Outside, Checkpoint, loopVars, tokVars, wakeVars, Calm,
      Saved, InTurn, Working, Same
  <2>5. CASE End
    BY <1>1, <2>5, UsersNext DEF End, Outside, Goto, logVars, Calm, Saved, InTurn, Working, Same
  <2>6. QED
    BY <1>5, <2>1, <2>2, <2>3, <2>4, <2>5 DEF Caller
<1>6. CASE Handle \/ Waker
  BY <1>1, <1>6, HandleKeeps DEF loopVars, logVars, Calm, Same
<1>7. CASE Process
  <2>1. CASE Die
    BY <1>1, <2>1, UsersNext DEF Die, Fresh, FreshOn, Calm, Saved, InTurn, Working, Same
  <2>2. CASE Open
    BY <1>1, <2>2, UsersNext DEF Open, tokVars, wakeVars, Calm, Saved, InTurn, Working, Same
  <2>3. QED
    BY <1>7, <2>1, <2>2 DEF Process
<1>8. QED
  BY <1>2, <1>3, <1>4, <1>5, <1>6, <1>7 DEF Next

-----------------------------------------------------------------------------
(* The messages that a handle has accepted *)

\* Item i is in queue q.
In(q, i) == \E n \in DOMAIN q : q[n] = i

\* What the operations on a queue do to what is in it.
LEMMA InQueue ==
    /\ \A q \in Seq(Item), x \in Item : \A i : In(Append(q, x), i) <=> In(q, i) \/ i = x
    /\ \A q \in Seq(Item) : q # <<>> => \A i : In(q, i) <=> i = Head(q) \/ In(Tail(q), i)
    /\ \A i : ~ In(<<>>, i)
    /\ \A x \in Item : \A i : In(<<x>>, i) <=> i = x
<1>1. ASSUME NEW q \in Seq(Item), NEW x \in Item, NEW i
      PROVE  In(Append(q, x), i) <=> In(q, i) \/ i = x
  <2> DEFINE r == Append(q, x)
  <2>1. /\ DOMAIN q = 1 .. Len(q) /\ DOMAIN r = 1 .. Len(q) + 1 /\ Len(q) \in Nat
        /\ r[Len(q) + 1] = x /\ \A n \in 1 .. Len(q) : r[n] = q[n]
    OBVIOUS
  <2> HIDE DEF r
  <2>2. \A n \in DOMAIN r : n \in DOMAIN q \/ n = Len(q) + 1
    BY <2>1
  <2>3. (\E n \in DOMAIN r : r[n] = i) <=> (\E n \in DOMAIN q : q[n] = i) \/ i = x
    BY <2>1, <2>2
  <2>4. QED
    BY <2>3 DEF In, r
<1>2. ASSUME NEW q \in Seq(Item), q # <<>>, NEW i
      PROVE  In(q, i) <=> i = Head(q) \/ In(Tail(q), i)
  <2> DEFINE r == Tail(q)
  <2>1. /\ DOMAIN q = 1 .. Len(q) /\ DOMAIN r = 1 .. Len(q) - 1 /\ Len(q) \in Nat /\ Len(q) >= 1
        /\ Head(q) = q[1] /\ \A n \in 1 .. Len(q) - 1 : r[n] = q[n + 1]
    BY <1>2
  <2> HIDE DEF r
  <2>2. ASSUME NEW n \in DOMAIN q, q[n] = i
        PROVE  i = Head(q) \/ \E k \in DOMAIN r : r[k] = i
    <3>1. CASE n = 1
      BY <2>1, <2>2, <3>1
    <3>2. CASE n # 1
      <4>1. n - 1 \in DOMAIN r /\ r[n - 1] = q[n]
        BY <2>1, <2>2, <3>2
      <4>2. QED
        BY <2>2, <4>1
    <3>3. QED
      BY <3>1, <3>2
  <2>3. ASSUME NEW n \in DOMAIN r, r[n] = i
        PROVE  \E k \in DOMAIN q : q[k] = i
    <3>1. n + 1 \in DOMAIN q /\ q[n + 1] = i
      BY <2>1, <2>3
    <3>2. QED
      BY <3>1
  <2>4. 1 \in DOMAIN q /\ q[1] = Head(q)
    BY <2>1
  <2>5. QED
    BY <2>2, <2>3, <2>4 DEF In, r
<1>3. ASSUME NEW x \in Item, NEW i
      PROVE  In(<<x>>, i) <=> i = x
  <2>1. DOMAIN <<x>> = {1} /\ <<x>>[1] = x
    OBVIOUS
  <2>2. QED
    BY <2>1 DEF In
<1>4. \A i : ~ In(<<>>, i)
  BY DEF In
<1>5. QED
  BY <1>1, <1>2, <1>3, <1>4

\* AcceptedNotLost, and that a process has died before there is none.
Accepted ==
    /\ pc = "down" => deaths # 0
    /\ deaths = 0 => \A u \in User \ unsent :
          In(inbox, <<"user", u>>) \/ In(batch, <<"user", u>>) \/ u \in UsersIn(st)

\* Every action keeps the accepted messages, unless the log refuses.
LEMMA AcceptedNext ==
    ASSUME KernelInv, Calm, Single, Accepted, Next, faults' = 0
    PROVE  Accepted'
<1>1. Accepted /\ Collections /\ Shape
  BY DEF KernelInv
<1>2. CASE LoopStep
  <2>1. CASE TakeBatch
    BY <1>1, <2>1, UsersNext DEF TakeBatch, tokVars, wakeVars, logVars, envVars, Accepted, Shape,
      Working
  <2>2. CASE ApplyBatched
    <3> DEFINE i == Head(batch)
    <3>1. batch # <<>> /\ i \in Item /\ st \in State /\ batch \in Seq(Item)
      BY <1>1, <2>2, Items DEF ApplyBatched, Collections, KernelInv, Good
    <3>2. st' = Apply(st, i) /\ batch' = Tail(batch) /\ UNCHANGED <<inbox, unsent, deaths, pc>>
      BY <2>2 DEF ApplyBatched, Take, envVars
    <3>3. UsersIn(st') = UsersIn(st) \cup {u \in User : i = <<"user", u>>}
      BY <3>1, <3>2, ApplyFacts
    <3>4. \A x : In(batch, x) <=> x = i \/ In(batch', x)
      BY <3>1, <3>2, InQueue
    <3> HIDE DEF i
    <3>5. QED
      BY <1>1, <3>2, <3>3, <3>4 DEF Accepted
  <2>3. CASE EndBatch
    <3>1. UsersIn(st) \subseteq UsersIn(st') /\ UNCHANGED <<inbox, batch, unsent, deaths>> /\ pc' # "down"
      BY <1>1, <2>3, UsersStatus DEF EndBatch, Fresh, FreshOn, Shape, envVars
    <3>2. QED
      BY <1>1, <3>1 DEF Accepted
  <2>4. CASE StartTurn
    <3>1. UsersIn(st) \subseteq UsersIn(st') /\ UNCHANGED <<inbox, batch, unsent, deaths>> /\ pc' # "down"
      BY <2>4, TurnFields, UsersSame DEF StartTurn, envVars
    <3>2. QED
      BY <1>1, <3>1 DEF Accepted
  <2>5. CASE LogRequest
    BY <1>1, <2>5, UsersNext DEF LogRequest, Fired, Goto, Log, tokVars, wakeVars, envVars,
      Accepted, Shape, Working
  <2>6. CASE SendRequest
    BY <1>1, <2>6, UsersNext DEF SendRequest, Fired, Goto, logVars, tokVars, wakeVars, envVars,
      Accepted, Shape, Working
  <2>7. CASE AfterModel
    <3>1. UsersIn(st) \subseteq UsersIn(st') /\ UNCHANGED <<inbox, batch, unsent, deaths>> /\ pc' # "down"
      BY <2>7, UsersNext DEF AfterModel, envVars
    <3>2. QED
      BY <1>1, <3>1 DEF Accepted
  <2>8. CASE CheckPoint
    BY <1>1, <2>8, UsersNext DEF CheckPoint, Cancelled, Fired, Leave, Goto, child_token, wakeVars,
      logVars, envVars, Accepted, Shape, Working
  <2>9. CASE Unregistered
    <3>1. UsersIn(st) \subseteq UsersIn(st') /\ UNCHANGED <<inbox, batch, unsent, deaths>> /\ pc' # "down"
      BY <2>9, UsersOutput DEF Unregistered, AppendOutput, envVars
    <3>2. QED
      BY <1>1, <3>1 DEF Accepted
  <2>10. CASE Replaced
    BY <1>1, <2>10, UsersNext DEF Replaced, Fired, Log, tokVars, wakeVars, envVars, Accepted, Shape,
      Working
  <2>11. CASE LogCall
    BY <1>1, <2>11, UsersNext DEF LogCall, Fired, Goto, Log, wakeVars, envVars, Accepted, Shape,
      Working
  <2>12. CASE Invoke
    BY <1>1, <2>12, UsersNext DEF Invoke, Fired, Goto, tokVars, logVars, wakeVars, envVars, Accepted, Shape,
      Working
  <2>13. CASE ToolCancelled
    BY <1>1, <2>13, UsersNext DEF ToolCancelled, Fired, Leave, Goto, child_token, Log, logVars,
      envVars, Accepted, Shape, Working
  <2>14. CASE AfterTool
    <3>1. UsersIn(st) \subseteq UsersIn(st') /\ UNCHANGED <<inbox, batch, unsent, deaths>> /\ pc' # "down"
      BY <2>14, UsersOutput DEF AfterTool, AppendOutput, envVars
    <3>2. QED
      BY <1>1, <3>1 DEF Accepted
  <2>15. CASE DrainOne
    <3> DEFINE i == Head(inbox)
    <3>1. inbox # <<>> /\ i \in Item /\ st \in State /\ inbox \in Seq(Item)
      BY <1>1, <2>15, Items DEF DrainOne, Collections, KernelInv, Good
    <3>2. st' = Apply(st, i) /\ inbox' = Tail(inbox) /\ UNCHANGED <<batch, unsent, deaths, pc>>
      BY <2>15 DEF DrainOne, Take, envVars
    <3>3. UsersIn(st') = UsersIn(st) \cup {u \in User : i = <<"user", u>>}
      BY <3>1, <3>2, ApplyFacts
    <3>4. \A x : In(inbox, x) <=> x = i \/ In(inbox', x)
      BY <3>1, <3>2, InQueue
    <3> HIDE DEF i
    <3>5. QED
      BY <1>1, <3>2, <3>3, <3>4 DEF Accepted
  <2>16. CASE TurnEnd
    <3>1. UsersIn(st) \subseteq UsersIn(st') /\ UNCHANGED <<inbox, batch, unsent, deaths>> /\ pc' # "down"
      BY <1>1, <2>16, UsersStatus DEF TurnEnd, NextStatus, Drained, Goto, Fresh, FreshOn, Shape, envVars
    <3>2. QED
      BY <1>1, <3>1 DEF Accepted
  <2>17. CASE LogSuspended
    BY <1>1, <2>17, UsersNext DEF LogSuspended, Return, Fresh, FreshOn, tokVars, wakeVars, envVars,
      Accepted, Shape, Working
  <2>18. CASE CancelTurnBody
    <3>1. UsersIn(st) \subseteq UsersIn(st') /\ UNCHANGED <<inbox, batch, unsent, deaths>> /\ pc' # "down"
      BY <1>1, <2>18, UsersAnswer DEF CancelTurnBody, FreshOn, Shape, envVars
    <3>2. QED
      BY <1>1, <3>1 DEF Accepted
  <2>19. CASE CancelTurnEnd
    <3>1. UsersIn(st) \subseteq UsersIn(st') /\ UNCHANGED <<inbox, batch, unsent, deaths>> /\ pc' # "down"
      BY <1>1, <2>19, UsersStatus DEF CancelTurnEnd, Drained, Return, Fresh, FreshOn, Shape, envVars
    <3>2. QED
      BY <1>1, <3>1 DEF Accepted
  <2>20. CASE FailTurnBody
    <3>1. UsersIn(st) \subseteq UsersIn(st') /\ UNCHANGED <<inbox, batch, unsent, deaths>> /\ pc' # "down"
      BY <1>1, <2>20 DEF FailTurnBody, FreshOn, Shape, envVars, Calm, InTurn
    <3>2. QED
      BY <1>1, <3>1 DEF Accepted
  <2>21. CASE FailTurnEnd
    <3>1. UsersIn(st) \subseteq UsersIn(st') /\ UNCHANGED <<inbox, batch, unsent, deaths>> /\ pc' # "down"
      BY <1>1, <2>21, UsersStatus DEF FailTurnEnd, Goto, envVars
    <3>2. QED
      BY <1>1, <3>1 DEF Accepted
  <2>22. CASE LogFailed
    BY <1>1, <2>22, UsersNext DEF LogFailed, Return, Fresh, FreshOn, tokVars, wakeVars, envVars,
      Accepted, Shape, Working
  <2>23. CASE ResumeApply
    <3> DEFINE s == IF batch = <<>> THEN st ELSE Apply(st, batch[1])
    <3>1. batch = <<>> \/ \E i \in Item : batch = <<i>>
      BY <2>23 DEF Single, ResumeApply
    <3>2. /\ UNCHANGED <<inbox, unsent, deaths>> /\ (st' = s \/ st' = WithStatus(s, "running")) /\ pc' = "out"
      BY <2>23 DEF ResumeApply, envVars, Return, Fresh, FreshOn, Resumed
    <3>3. st \in State /\ "running" \in Status
      BY DEF KernelInv, Good, Status
    <3>4. CASE batch = <<>>
      <4>1. st' = st \/ st' = WithStatus(st, "running")
        BY <3>2, <3>4
      <4>2. UsersIn(st') = UsersIn(st) /\ \A x : ~ In(batch, x)
        BY <3>3, <3>4, <4>1, UsersNext, InQueue
      <4>3. QED
        BY <1>1, <3>2, <4>2 DEF Accepted
    <3>5. ASSUME NEW i \in Item, batch = <<i>>
          PROVE  Accepted'
      <4>1. st' = Apply(st, i) \/ st' = WithStatus(Apply(st, i), "running")
        BY <3>2, <3>5
      <4>2. UsersIn(st') = UsersIn(Apply(st, i))
        BY <4>1, UsersNext
      <4>3. UsersIn(st') = UsersIn(st) \cup {u \in User : i = <<"user", u>>}
        BY <3>3, <4>2, ApplyFacts
      <4>4. \A x : In(batch, x) <=> x = i
        BY <3>5, InQueue
      <4>5. QED
        BY <1>1, <3>2, <4>3, <4>4 DEF Accepted
    <3>6. QED
      BY <3>1, <3>4, <3>5
  <2>24. CASE EndOne
    BY <1>1, <2>24, UsersNext DEF EndOne, Log, loopVars, tokVars, wakeVars, envVars, Accepted,
      Shape, Working
  <2>25. CASE EndCommit
    <3>1. UsersIn(st) \subseteq UsersIn(st') /\ UNCHANGED <<inbox, batch, unsent, deaths>> /\ pc' # "down"
      BY <1>1, <2>25, UsersStatus DEF EndCommit, Goto, envVars
    <3>2. QED
      BY <1>1, <3>1 DEF Accepted
  <2>26. CASE LogEnded
    BY <1>1, <2>26, UsersNext DEF LogEnded, Return, Fresh, FreshOn, tokVars, wakeVars, envVars,
      Accepted, Shape, Working
  <2>27. CASE LoseOne
    <3>1. UsersIn(st) \subseteq UsersIn(st') /\ UNCHANGED <<inbox, batch, unsent, deaths>> /\ pc' # "down"
      BY <2>27, UsersNext DEF LoseOne, Lost, envVars
    <3>2. QED
      BY <1>1, <3>1 DEF Accepted
  <2>28. CASE LoggedOpen
    BY <1>1, <2>28, UsersNext DEF LoggedOpen, Goto, Log, tokVars, wakeVars, envVars, Accepted,
      Shape, Working
  <2>29. CASE OpenApply
    <3> DEFINE s == IF batch = <<>> THEN st ELSE Apply(st, batch[1])
    <3>1. batch = <<>> \/ \E i \in Item : batch = <<i>>
      BY <2>29 DEF Single, OpenApply
    <3>2. /\ UNCHANGED <<inbox, unsent, deaths>> /\ (st' = s \/ st' = WithStatus(s, "running")) /\ pc' = "out"
      BY <2>29 DEF OpenApply, envVars, Return, Fresh, FreshOn
    <3>3. st \in State /\ "running" \in Status
      BY DEF KernelInv, Good, Status
    <3>4. CASE batch = <<>>
      <4>1. st' = st \/ st' = WithStatus(st, "running")
        BY <3>2, <3>4
      <4>2. UsersIn(st') = UsersIn(st) /\ \A x : ~ In(batch, x)
        BY <3>3, <3>4, <4>1, UsersNext, InQueue
      <4>3. QED
        BY <1>1, <3>2, <4>2 DEF Accepted
    <3>5. ASSUME NEW i \in Item, batch = <<i>>
          PROVE  Accepted'
      <4>1. st' = Apply(st, i) \/ st' = WithStatus(Apply(st, i), "running")
        BY <3>2, <3>5
      <4>2. UsersIn(st') = UsersIn(Apply(st, i))
        BY <4>1, UsersNext
      <4>3. UsersIn(st') = UsersIn(st) \cup {u \in User : i = <<"user", u>>}
        BY <3>3, <4>2, ApplyFacts
      <4>4. \A x : In(batch, x) <=> x = i
        BY <3>5, InQueue
      <4>5. QED
        BY <1>1, <3>2, <4>3, <4>4 DEF Accepted
    <3>6. QED
      BY <3>1, <3>4, <3>5
  <2>30. QED
    BY <1>2, <2>1, <2>2, <2>3, <2>4, <2>6, <2>7, <2>8, <2>9, <2>10, <2>12, <2>13, <2>14,
      <2>15, <2>16, <2>17, <2>18, <2>19, <2>20, <2>21, <2>22, <2>23, <2>24, <2>25, <2>26, <2>27,
      <2>28, <2>29, <2>5, <2>11 DEF LoopStep
<1>3. CASE Reply
  <2>1. CASE ModelAnswers
    BY <1>1, <2>1, UsersNext DEF ModelAnswers, Fired, Goto, tokVars, wakeVars, logVars, envVars,
      Accepted, Shape, Working
  <2>2. CASE LaunchFails
    BY <1>1, <2>2, UsersNext DEF LaunchFails, wakeVars, logVars, envVars,
      Accepted, Shape, Working
  <2>3. CASE ToolWatches
    BY <1>1, <2>3, UsersNext DEF ToolWatches, loopVars, tokVars, logVars, envVars, Accepted, Shape,
      Working
  <2>4. CASE ToolReturns
    BY <1>1, <2>4, UsersNext DEF ToolReturns, Fired, logVars, envVars, Accepted, Shape, Working
  <2>5. CASE TurnFails
    BY <1>1, <2>5, UsersNext DEF TurnFails, Fired, Leave, Goto, child_token, wakeVars, logVars,
      envVars, Accepted, Shape, Working
  <2>6. CASE MidTurnCompaction
    BY <1>1, <2>6, UsersNext DEF MidTurnCompaction, Fired, Outside, Checkpoint, loopVars, tokVars,
      wakeVars, Accepted, Shape, Working
  <2>7. QED
    BY <1>3, <2>1, <2>3, <2>4, <2>5, <2>6, <2>2 DEF Reply
<1>4. CASE Fault
  BY <1>4, FaultCounted
<1>5. CASE Caller
  <2>1. CASE Run
    BY <1>1, <2>1, UsersNext DEF Run, Goto, tokVars, wakeVars, logVars, envVars, Accepted, Shape,
      Working
  <2>2. CASE Suspend
    <3>1. UsersIn(st) \subseteq UsersIn(st') /\ UNCHANGED <<inbox, batch, unsent, deaths>> /\ pc' # "down"
      BY <1>1, <2>2, UsersStatus DEF Suspend, Outside, FreshOn, Shape
    <3>2. QED
      BY <1>1, <3>1 DEF Accepted
  <2>3. CASE Resume
    <3>1. PICK c \in Cause : batch' = c /\ Spend(c)
      BY <2>3 DEF Resume
    <3>2. UNCHANGED <<st, inbox, deaths>> /\ pc = "out" /\ pc' = "resuming" /\ batch = <<>>
      BY <1>1, <2>3 DEF Resume, Shape
    <3>3. \A u \in User : u \in unsent \ unsent' => In(batch', <<"user", u>>)
      <4>1. CASE c = <<>>
        BY <3>1, <4>1 DEF Spend
      <4>2. CASE c # <<>>
        <5>1. PICK i \in Item : c = <<i>> /\ c[1] = i
          BY <1>1, <4>2, CauseFacts
        <5>2. i[1] = "user" => i = <<"user", i[2]>>
          BY DEF Item
        <5>3. \A u \in User : u \in unsent \ unsent' => i = <<"user", u>>
          BY <3>1, <5>1, <5>2 DEF Spend
        <5>4. QED
          BY <3>1, <5>1, <5>3, InQueue
      <4>3. QED
        BY <4>1, <4>2
    <3>4. \A x : ~ In(batch, x)
      BY <3>2, InQueue
    <3>5. QED
      BY <1>1, <3>2, <3>3, <3>4 DEF Accepted
  <2>4. CASE Compact
    BY <1>1, <2>4, UsersNext DEF Compact, Outside, Checkpoint, loopVars, tokVars, wakeVars,
      Accepted, Shape, Working
  <2>5. CASE End
    BY <1>1, <2>5, UsersNext DEF End, Outside, Goto, logVars, Accepted, Shape, Working
  <2>6. QED
    BY <1>5, <2>1, <2>2, <2>3, <2>4, <2>5 DEF Caller
<1>6. CASE Handle \/ Waker
  <2>1. CASE EnqueueUserMessage
    <3>1. PICK u \in unsent : inbox' = Append(inbox, <<"user", u>>) /\ unsent' = unsent \ {u}
      BY <2>1 DEF EnqueueUserMessage, Send
    <3>2. <<"user", u>> \in Item /\ inbox \in Seq(Item)
      BY <1>1, Items DEF Collections
    <3>3. \A x : In(inbox', x) <=> In(inbox, x) \/ x = <<"user", u>>
      BY <3>1, <3>2, InQueue
    <3>4. QED
      BY <1>1, <1>6, <3>1, <3>3, HandleKeeps DEF loopVars, Accepted
  <2>2. ASSUME UNCHANGED unsent, \A x : In(inbox, x) => In(inbox', x)
        PROVE  Accepted'
    BY <1>1, <1>6, <2>2, HandleKeeps DEF loopVars, Accepted
  <2>3. \A i \in Item : Send(i) => \A x : In(inbox, x) => In(inbox', x)
    BY <1>1, InQueue DEF Send, Collections
  <2>4. \A t \in Task, k \in {"progress", "final", "bad", "cancel"} : <<k, t>> \in Item
    BY Items
  <2>5. CASE CancelTurn \/ CancelTool
    BY <2>2, <2>5 DEF CancelTurn, CancelTool, Outside
  <2>6. CASE CancelTask
    BY <1>1, <2>2, <2>3, <2>4, <2>6 DEF CancelTask, Outside, Collections
  <2>7. CASE DeliverTaskUpdate
    BY <2>2, <2>3, <2>4, <2>7 DEF DeliverTaskUpdate, Outside
  <2>8. CASE Waker
    BY <2>2, <2>3, <2>4, <2>8 DEF Waker, WakerResolves, WakerDelivers, envVars
  <2>9. QED
    BY <1>6, <2>1, <2>5, <2>6, <2>7, <2>8 DEF Handle
<1>7. CASE Process
  <2>1. CASE Die
    <3>1. deaths \in Nat /\ deaths' = deaths + 1
      BY <2>1 DEF Die, KernelInv, Locals
    <3>2. QED
      BY <3>1 DEF Accepted
  <2>2. CASE Open
    BY <1>1, <2>2, UsersNext DEF Open, tokVars, wakeVars, Accepted, Shape, Working
  <2>3. QED
    BY <1>7, <2>1, <2>2 DEF Process
<1>8. QED
  BY <1>2, <1>3, <1>4, <1>5, <1>6, <1>7 DEF Next

-----------------------------------------------------------------------------
(* Histories in which every call is answered *)

\* The calls of the assistant message at i are answered right after it, and
\* the tool message at j answers a call of an assistant message before it.
Follows(m, i) ==
    \A k \in 1 .. m[i][3] : i + k <= Len(m) /\ m[i + k] = <<"tool", <<m[i][2], k>>>>
Belongs(m, j) ==
    \E i \in 1 .. (j - 1) :
       m[i][1] = "assistant" /\ j - i <= m[i][3] /\ m[j] = <<"tool", <<m[i][2], j - i>>>>

\* A history is answered if both hold everywhere.
LEMMA AnsweredParts ==
    ASSUME NEW m
    PROVE  Answered(m) <=> /\ \A i \in DOMAIN m : m[i][1] = "assistant" => Follows(m, i)
                           /\ \A j \in DOMAIN m : m[j][1] = "tool" => Belongs(m, j)
  BY DEF Answered, Follows, Belongs

\* The history while call c of the n calls of turn T is handled: the calls
\* before it are answered, all others of the history too.
PendingFrom(m, T, n, c, a) ==
    /\ c \in 1 .. n /\ a \in DOMAIN m /\ m[a] = <<"assistant", T, n>>
    /\ \A k \in 1 .. (c - 1) : m[a + k] = <<"tool", <<T, k>>>>
    /\ \A i \in DOMAIN m \ {a} : m[i][1] = "assistant" => Follows(m, i)
    /\ \A j \in DOMAIN m : m[j][1] = "tool" => Belongs(m, j)
Pending(m, T, n, c) == PendingFrom(m, T, n, c, Len(m) - (c - 1))

\* q goes on where m ends.
Extends(q, m) == Len(q) >= Len(m) /\ \A i \in DOMAIN m : i \in DOMAIN q /\ q[i] = m[i]

\* The number of calls of a response is a number.
LEMMA MessageTypes ==
    ASSUME NEW m \in Seq(Msg), NEW i \in DOMAIN m
    PROVE  m[i][1] = "assistant" => m[i][3] \in Nat
<1>1. m[i] \in Msg
  OBVIOUS
<1> DEFINE x == m[i]
<1> HIDE DEF x
<1>2. ASSUME x \in Msg, x[1] = "assistant"
      PROVE  x[3] \in Nat
  <2>1. x \in {"assistant"} \X (0 .. MaxTurns) \X (0 .. MaxCalls)
    BY <1>2 DEF Msg
  <2>2. QED
    BY <2>1
<1>3. QED
  BY <1>1, <1>2 DEF x

\* What more messages at the end leave as it is.
LEMMA ExtendKeeps ==
    ASSUME NEW m \in Seq(Msg), NEW q \in Seq(Msg), Extends(q, m), NEW i \in DOMAIN m
    PROVE  /\ m[i][1] = "assistant" /\ Follows(m, i) => Follows(q, i)
           /\ m[i][1] = "tool" /\ Belongs(m, i) => Belongs(q, i)
<1>1. /\ Len(m) \in Nat /\ Len(q) \in Nat /\ DOMAIN m = 1 .. Len(m) /\ DOMAIN q = 1 .. Len(q)
      /\ Len(q) >= Len(m) /\ \A k \in DOMAIN m : q[k] = m[k]
  BY DEF Extends
<1>2. ASSUME m[i][1] = "assistant", Follows(m, i)
      PROVE  Follows(q, i)
  <2>1. q[i] = m[i] /\ m[i][3] \in Nat
    BY <1>1, <1>2, MessageTypes
  <2>2. ASSUME NEW k \in 1 .. m[i][3]
        PROVE  i + k <= Len(q) /\ q[i + k] = <<"tool", <<m[i][2], k>>>>
    <3>1. i + k <= Len(m) /\ m[i + k] = <<"tool", <<m[i][2], k>>>>
      BY <1>2, <2>2 DEF Follows
    <3>2. i + k \in DOMAIN m /\ i + k <= Len(q)
      BY <1>1, <2>1, <3>1
    <3>3. QED
      BY <1>1, <3>1, <3>2
  <2>3. QED
    BY <2>1, <2>2 DEF Follows
<1>3. ASSUME m[i][1] = "tool", Belongs(m, i)
      PROVE  Belongs(q, i)
  <2>1. PICK h \in 1 .. (i - 1) :
            m[h][1] = "assistant" /\ i - h <= m[h][3] /\ m[i] = <<"tool", <<m[h][2], i - h>>>>
    BY <1>3 DEF Belongs
  <2>2. q[h] = m[h] /\ q[i] = m[i]
    BY <1>1
  <2>3. QED
    BY <2>1, <2>2 DEF Belongs
<1>4. QED
  BY <1>2, <1>3

\* A message that is appended comes last, after all others.
LEMMA AppendFacts ==
    ASSUME NEW m \in Seq(Msg), NEW x \in Msg
    PROVE  LET q == Append(m, x)
           IN  /\ q \in Seq(Msg) /\ Len(m) \in Nat /\ Len(q) = Len(m) + 1
               /\ DOMAIN m = 1 .. Len(m) /\ DOMAIN q = 1 .. Len(m) + 1 /\ q[Len(m) + 1] = x
               /\ \A i \in DOMAIN q : i \in DOMAIN m \/ i = Len(m) + 1
               /\ \A i \in DOMAIN m : q[i] = m[i]
               /\ Extends(q, m)
<1> DEFINE q == Append(m, x)
<1>1. /\ q \in Seq(Msg) /\ Len(m) \in Nat /\ Len(q) = Len(m) + 1
      /\ DOMAIN m = 1 .. Len(m) /\ DOMAIN q = 1 .. Len(m) + 1 /\ q[Len(m) + 1] = x
      /\ \A i \in DOMAIN m : q[i] = m[i]
  OBVIOUS
<1> HIDE DEF q
<1>2. \A i \in DOMAIN q : i \in DOMAIN m \/ i = Len(m) + 1
  BY <1>1
<1>3. Extends(q, m)
  BY <1>1 DEF Extends
<1>4. QED
  BY <1>1, <1>2, <1>3 DEF q

\* A user message or a synthetic result keeps a history answered.
LEMMA AnsweredPush ==
    ASSUME NEW m \in Seq(Msg), NEW x \in Msg, Answered(m), x[1] \in {"user", "result"}
    PROVE  Answered(Append(m, x))
<1> DEFINE q == Append(m, x)
<1>1. /\ q \in Seq(Msg) /\ Extends(q, m) /\ q[Len(m) + 1] = x
      /\ \A i \in DOMAIN q : i \in DOMAIN m \/ i = Len(m) + 1
      /\ \A i \in DOMAIN m : q[i] = m[i]
  BY AppendFacts
<1> HIDE DEF q
<1>2. ASSUME NEW i \in DOMAIN q
      PROVE  (q[i][1] = "assistant" => Follows(q, i)) /\ (q[i][1] = "tool" => Belongs(q, i))
  <2>1. CASE i \in DOMAIN m
    BY <1>1, <2>1, ExtendKeeps, AnsweredParts
  <2>2. CASE i = Len(m) + 1
    BY <1>1, <2>2
  <2>3. QED
    BY <1>1, <1>2, <2>1, <2>2
<1>3. QED
  BY <1>2, AnsweredParts DEF q

\* A response with no calls keeps it answered; one with calls has them pending.
LEMMA PendingStart ==
    ASSUME NEW m \in Seq(Msg), Answered(m), NEW T, NEW n \in Nat, <<"assistant", T, n>> \in Msg
    PROVE  IF n = 0 THEN Answered(Append(m, <<"assistant", T, n>>))
           ELSE Pending(Append(m, <<"assistant", T, n>>), T, n, 1)
<1> DEFINE x == <<"assistant", T, n>>
           q == Append(m, x)
           a == Len(m) + 1
<1>1. x \in Msg /\ x[1] = "assistant" /\ x[3] = n
  OBVIOUS
<1>x. x = <<"assistant", T, n>>
  OBVIOUS
<1> HIDE DEF x
<1>2. /\ q \in Seq(Msg) /\ Extends(q, m) /\ q[a] = x /\ Len(m) \in Nat /\ Len(q) = a
      /\ DOMAIN q = 1 .. a
      /\ \A i \in DOMAIN q : i \in DOMAIN m \/ i = a
      /\ \A i \in DOMAIN m : q[i] = m[i]
  BY <1>1, AppendFacts
<1> HIDE DEF q
<1>3. \A i \in DOMAIN q \ {a} : (q[i][1] = "assistant" => Follows(q, i)) /\ (q[i][1] = "tool" => Belongs(q, i))
  BY <1>2, ExtendKeeps, AnsweredParts
<1>4. q[a][1] # "tool" /\ a \in DOMAIN q
  BY <1>1, <1>2
<1>5. CASE n = 0
  <2>1. Follows(q, a)
    BY <1>1, <1>2, <1>5 DEF Follows
  <2>2. Answered(q)
    BY <1>3, <1>4, <2>1, AnsweredParts
  <2>3. QED
    BY <1>5, <2>2 DEF q, x
<1>6. CASE n # 0
  <2>1. Len(q) - (1 - 1) = a /\ 1 \in 1 .. n /\ 1 .. (1 - 1) = {}
    BY <1>2, <1>6
  <2>2. Pending(q, T, n, 1)
    BY <1>2, <1>3, <1>4, <1>x, <2>1 DEF Pending, PendingFrom
  <2>3. QED
    BY <1>6, <2>2 DEF q, x
<1>7. QED
  BY <1>5, <1>6

\* The output of a call: the next one is pending, or all are answered.
LEMMA PendingTool ==
    ASSUME NEW m \in Seq(Msg), NEW T, NEW n \in Nat, NEW c \in Nat, Pending(m, T, n, c),
           <<"tool", <<T, c>>>> \in Msg
    PROVE  IF c = n THEN Answered(Append(m, <<"tool", <<T, c>>>>))
           ELSE Pending(Append(m, <<"tool", <<T, c>>>>), T, n, c + 1)
<1> DEFINE x == <<"tool", <<T, c>>>>
           q == Append(m, x)
           l == Len(m) + 1
<1>1. x \in Msg /\ x[1] = "tool" /\ x = <<"tool", <<T, c>>>>
  OBVIOUS
<1> HIDE DEF x
<1>2. /\ q \in Seq(Msg) /\ Extends(q, m) /\ q[l] = x /\ Len(m) \in Nat /\ Len(q) = l
      /\ DOMAIN q = 1 .. l /\ DOMAIN m = 1 .. Len(m)
      /\ \A i \in DOMAIN q : i \in DOMAIN m \/ i = l
      /\ \A i \in DOMAIN m : q[i] = m[i]
  BY <1>1, AppendFacts
<1> HIDE DEF q
<1>3. PICK a : a = Len(m) - (c - 1) /\ PendingFrom(m, T, n, c, a)
  BY DEF Pending
<1>4. /\ c \in 1 .. n /\ a \in DOMAIN m /\ m[a] = <<"assistant", T, n>>
      /\ \A k \in 1 .. (c - 1) : m[a + k] = <<"tool", <<T, k>>>>
      /\ \A i \in DOMAIN m \ {a} : m[i][1] = "assistant" => Follows(m, i)
      /\ \A j \in DOMAIN m : m[j][1] = "tool" => Belongs(m, j)
  BY <1>3 DEF PendingFrom
<1>5. a + c = l /\ a \in DOMAIN q /\ a \in 1 .. (l - 1) /\ l - a = c /\ l # a /\ a \in Nat
  BY <1>2, <1>3, <1>4
<1>6. ASSUME NEW k \in 1 .. c
      PROVE  q[a + k] = <<"tool", <<T, k>>>> /\ a + k <= Len(q)
  <2>1. CASE k = c
    BY <1>1, <1>2, <1>5, <2>1
  <2>2. CASE k # c
    <3>1. k \in 1 .. (c - 1) /\ a + k \in DOMAIN m /\ a + k <= Len(q)
      BY <1>2, <1>4, <1>5, <2>2
    <3>2. QED
      BY <1>2, <1>4, <3>1
  <2>3. QED
    BY <2>1, <2>2
<1>7. q[a] = <<"assistant", T, n>>
  BY <1>2, <1>4
<1>8. Belongs(q, l)
  <2>1. q[a][1] = "assistant" /\ l - a <= q[a][3] /\ q[l] = <<"tool", <<q[a][2], l - a>>>>
    BY <1>1, <1>2, <1>4, <1>5, <1>7
  <2>2. QED
    BY <1>5, <2>1 DEF Belongs
<1>9. \A j \in DOMAIN q : q[j][1] = "tool" => Belongs(q, j)
  BY <1>2, <1>4, <1>8, ExtendKeeps
<1>10. \A i \in DOMAIN q \ {a} : q[i][1] = "assistant" => Follows(q, i)
  BY <1>1, <1>2, <1>4, ExtendKeeps
<1>11. CASE c = n
  <2>1. q[a][3] = c /\ q[a][2] = T
    BY <1>7, <1>11
  <2>2. Follows(q, a)
    BY <1>6, <2>1 DEF Follows
  <2>3. Answered(q)
    BY <1>9, <1>10, <2>2, AnsweredParts
  <2>4. QED
    BY <1>11, <2>3 DEF q, x
<1>12. CASE c # n
  <2>1. PICK d \in 1 .. n : d = c + 1
    BY <1>4, <1>12
  <2>2. Len(q) - (d - 1) = a /\ 1 .. (d - 1) = 1 .. c
    BY <1>2, <1>3, <1>4, <2>1
  <2>3. \A k \in 1 .. (d - 1) : q[a + k] = <<"tool", <<T, k>>>>
    BY <1>6, <2>2
  <2>4. PendingFrom(q, T, n, d, a)
    BY <1>5, <1>7, <1>9, <1>10, <2>3, Zenon DEF PendingFrom
  <2>5. Pending(q, T, n, d)
    BY <2>2, <2>4 DEF Pending
  <2>6. QED
    BY <1>12, <2>1, <2>5 DEF q, x
<1>13. QED
  BY <1>11, <1>12

\* Messages that are appended come last, in order, after all others.
LEMMA ConcatFacts ==
    ASSUME NEW m \in Seq(Msg), NEW r \in Seq(Msg)
    PROVE  LET q == m \o r
           IN  /\ q \in Seq(Msg) /\ Len(m) \in Nat /\ Len(r) \in Nat /\ Len(q) = Len(m) + Len(r)
               /\ DOMAIN q = 1 .. Len(m) + Len(r) /\ DOMAIN m = 1 .. Len(m)
               /\ \A i \in DOMAIN m : i \in DOMAIN q /\ q[i] = m[i]
               /\ \A j \in 1 .. Len(r) : q[Len(m) + j] = r[j]
<1> DEFINE q == m \o r
<1>1. /\ q \in Seq(Msg) /\ DOMAIN m = 1 .. Len(m) /\ DOMAIN q = 1 .. Len(m) + Len(r)
      /\ Len(m) \in Nat /\ Len(r) \in Nat /\ Len(q) = Len(m) + Len(r)
      /\ \A i \in 1 .. Len(m) + Len(r) : q[i] = IF i <= Len(m) THEN m[i] ELSE r[i - Len(m)]
  OBVIOUS
<1> HIDE DEF q
<1>2. ASSUME NEW j \in 1 .. Len(r)
      PROVE  q[Len(m) + j] = r[j]
  <2>1. PICK i \in 1 .. Len(m) + Len(r) : i = Len(m) + j
    BY <1>1
  <2>2. ~ (i <= Len(m)) /\ i - Len(m) = j
    BY <1>1, <2>1
  <2>3. QED
    BY <1>1, <2>1, <2>2
<1>3. \A i \in DOMAIN m : i \in DOMAIN q /\ q[i] = m[i]
  BY <1>1
<1>4. QED
  BY <1>1, <1>2, <1>3 DEF q

\* The synthetic answers to the calls from c on: all are answered.
LEMMA PendingAnswers ==
    ASSUME NEW m \in Seq(Msg), NEW T, NEW n \in Nat, NEW c \in Nat, Pending(m, T, n, c),
           NEW r \in Seq(Msg), Len(r) = n + 1 - c,
           \A i \in 1 .. (n + 1 - c) : r[i] = <<"tool", <<T, c + i - 1>>>>
    PROVE  Answered(m \o r)
<1> DEFINE q == m \o r
<1>1. /\ q \in Seq(Msg) /\ Len(m) \in Nat /\ Len(r) \in Nat /\ Len(q) = Len(m) + Len(r)
      /\ DOMAIN q = 1 .. Len(m) + Len(r) /\ DOMAIN m = 1 .. Len(m)
  BY ConcatFacts
<1>2. /\ \A i \in DOMAIN m : i \in DOMAIN q /\ q[i] = m[i]
      /\ \A j \in 1 .. Len(r) : q[Len(m) + j] = r[j]
  BY ConcatFacts
<1> HIDE DEF q
<1>3. PICK a : a = Len(m) - (c - 1) /\ PendingFrom(m, T, n, c, a)
  BY DEF Pending
<1>4. /\ c \in 1 .. n /\ a \in DOMAIN m /\ m[a] = <<"assistant", T, n>>
      /\ \A k \in 1 .. (c - 1) : m[a + k] = <<"tool", <<T, k>>>>
      /\ \A i \in DOMAIN m \ {a} : m[i][1] = "assistant" => Follows(m, i)
      /\ \A j \in DOMAIN m : m[j][1] = "tool" => Belongs(m, j)
  BY <1>3 DEF PendingFrom
<1>5. /\ a \in Nat /\ a >= 1 /\ Len(m) = a + (c - 1) /\ Len(q) = a + n /\ DOMAIN q = 1 .. a + n
      /\ DOMAIN m = 1 .. a + (c - 1) /\ Len(r) = n + 1 - c
  BY <1>1, <1>3, <1>4
<1>6. Extends(q, m)
  BY <1>1, <1>2 DEF Extends
<1>7. ASSUME NEW k \in 1 .. n
      PROVE  q[a + k] = <<"tool", <<T, k>>>> /\ a + k <= Len(q)
  <2>1. a + k <= Len(q)
    BY <1>5
  <2>2. CASE k < c
    <3>1. k \in 1 .. (c - 1) /\ a + k \in DOMAIN m
      BY <1>4, <1>5, <2>2, SMTT(30)
    <3>2. QED
      BY <1>2, <1>4, <2>1, <3>1
  <2>3. CASE k >= c
    <3>1. PICK j \in 1 .. (n + 1 - c) : j = k + 1 - c
      BY <1>4, <2>3
    <3>2. a + k = Len(m) + j /\ c + j - 1 = k
      BY <1>4, <1>5, <3>1
    <3>3. q[Len(m) + j] = r[j] /\ r[j] = <<"tool", <<T, c + j - 1>>>>
      BY <1>2, <1>5, <3>1
    <3>4. QED
      BY <2>1, <3>2, <3>3
  <2>4. QED
    BY <1>4, <2>2, <2>3
<1>8. q[a] = <<"assistant", T, n>>
  BY <1>2, <1>4
<1>9. \A i \in DOMAIN q : i \in DOMAIN m \/ \E k \in 1 .. n : i = a + k
  <2>1. ASSUME NEW i \in DOMAIN q, i \notin DOMAIN m
        PROVE  i - a \in 1 .. n /\ i = a + (i - a)
    BY <1>4, <1>5, <2>1, SMTT(30)
  <2>2. QED
    BY <2>1
<1>10. ASSUME NEW k \in 1 .. n
       PROVE  Belongs(q, a + k) /\ q[a + k][1] # "assistant"
  <2>1. PICK j \in Nat : j = a + k
    BY <1>5
  <2>2. j - a = k /\ a \in 1 .. (j - 1)
    BY <1>5, <2>1
  <2>3. q[j] = <<"tool", <<T, k>>>>
    BY <1>7, <2>1
  <2>4. q[a][1] = "assistant" /\ q[a][2] = T /\ k <= q[a][3]
    BY <1>8
  <2>5. Belongs(q, j)
    BY <2>2, <2>3, <2>4 DEF Belongs
  <2>6. QED
    BY <2>1, <2>3, <2>5
<1>11. Follows(q, a)
  <2>1. q[a][2] = T /\ q[a][3] = n
    BY <1>8
  <2>2. QED
    BY <1>7, <2>1 DEF Follows
<1>12. ASSUME NEW i \in DOMAIN q
       PROVE  (q[i][1] = "assistant" => Follows(q, i)) /\ (q[i][1] = "tool" => Belongs(q, i))
  <2>1. CASE i \in DOMAIN m
    <3>1. q[i] = m[i]
      BY <1>2, <2>1
    <3>2. /\ m[i][1] = "assistant" /\ i # a => Follows(m, i)
          /\ m[i][1] = "tool" => Belongs(m, i)
      BY <1>4, <2>1
    <3>3. QED
      BY <1>1, <1>6, <1>11, <2>1, <3>1, <3>2, ExtendKeeps
  <2>2. CASE i \notin DOMAIN m
    BY <1>9, <1>10, <2>2
  <2>3. QED
    BY <2>1, <2>2
<1>13. QED
  BY <1>12, AnsweredParts DEF q

\* The histories are answered, except for the calls that the turn is at.
History ==
    /\ Answered(ck.msgs)
    /\ pc \in InTurn => Answered(snap.msgs)
    /\ pc \notin {"tool", "launch", "invoke", "after", "cancel", "fail"} => Answered(st.msgs)
    /\ pc \in {"tool", "launch", "invoke", "after"} => Pending(st.msgs, st.turn, calls, cur)
    /\ pc = "cancel" => IF calls = 0 THEN Answered(st.msgs)
                        ELSE Pending(st.msgs, st.turn, calls, cur)

\* What a change of status, the end of a task and an item do to a history.
LEMMA AnsweredNext ==
    ASSUME KernelInv
    PROVE  /\ Answered(Created.msgs)
           /\ \A x \in {"running", "idle", "suspended", "failed", "done", st.status} :
                 WithStatus(st, x).msgs = st.msgs
           /\ Answered(st.msgs) => \A t \in open_tasks(st) : Answered(cancel_task_in_state(st, t).msgs)
           /\ Answered(st.msgs) =>
                 \A i \in Item : LET z == Apply(st, i)
                                 IN  Answered(z.msgs) /\ Answered(WithStatus(z, "running").msgs)
<1>1. st \in State /\ st.msgs \in Seq(Msg)
  BY StateFields DEF KernelInv, Good
<1>2. /\ "running" \in Status /\ "idle" \in Status /\ "suspended" \in Status /\ "failed" \in Status
      /\ "done" \in Status
  BY DEF Status
<1>3. Answered(Created.msgs)
  <2>1. Created.msgs = <<>> /\ DOMAIN <<>> = {}
    BY DEF Created
  <2>2. QED
    BY <2>1 DEF Answered
<1>4. \A x \in {"running", "idle", "suspended", "failed", "done", st.status} :
         WithStatus(st, x).msgs = st.msgs
  <2>1. WithStatus(st, st.status) = st
    BY <1>1, SameStatus
  <2>2. \A x \in Status : WithStatus(st, x).msgs = st.msgs
    BY <1>1, WithStatusFields
  <2>3. QED
    BY <1>2, <2>1, <2>2
<1>5. ASSUME Answered(st.msgs), NEW t \in Task, NEW how \in Closed
      PROVE  Close(st, t, how) \in State /\ Answered(Close(st, t, how).msgs)
  <2>1. <<"result", t>> \in Msg /\ <<"result", t>>[1] = "result"
    BY DEF Msg
  <2>2. Close(st, t, how) \in State /\ Close(st, t, how).msgs = Append(st.msgs, <<"result", t>>)
    BY <1>1, CloseFields
  <2>3. QED
    BY <1>1, <1>5, <2>1, <2>2, AnsweredPush
<1>6. Answered(st.msgs) => \A t \in open_tasks(st) : Answered(cancel_task_in_state(st, t).msgs)
  BY <1>5, CancelOpen DEF open_tasks, Closed
<1>7. ASSUME Answered(st.msgs), NEW i \in Item
      PROVE  LET z == Apply(st, i) IN Answered(z.msgs) /\ Answered(WithStatus(z, "running").msgs)
  <2>1. Apply(st, i) \in State
    BY <1>1, ApplyFacts
  <2>2. CASE i[1] = "user"
    <3>1. i \in Msg /\ Apply(st, i) = Push(st, i)
      BY <2>2 DEF Item, Msg, Apply
    <3>2. Push(st, i).msgs = Append(st.msgs, i)
      BY <1>1, <3>1, PushFields
    <3>3. Answered(Apply(st, i).msgs)
      BY <1>1, <1>7, <2>2, <3>1, <3>2, AnsweredPush
    <3>4. QED
      BY <1>2, <2>1, <3>3, WithStatusFields
  <2>3. CASE i[1] # "user"
    <3>1. Apply(st, i) = st \/ \E t \in Task, how \in Closed : Apply(st, i) = Close(st, t, how)
      BY <2>3 DEF Apply, Effect, Item, Closed, open_tasks, cancel_task_in_state
    <3>2. Answered(Apply(st, i).msgs)
      BY <1>5, <1>7, <3>1
    <3>3. QED
      BY <1>2, <2>1, <3>2, WithStatusFields
  <2>4. QED
    BY <2>2, <2>3
<1>8. QED
  BY <1>3, <1>4, <1>6, <1>7


\* Every action keeps the histories as History says, unless the log refuses.
LEMMA HistoryNext ==
    ASSUME KernelInv, Single, History, Next, faults' = 0
    PROVE  History'
<1>1. History /\ Collections /\ Shape
  BY DEF KernelInv
<1>2. CASE LoopStep
  <2>1. CASE TakeBatch
    BY <1>1, <2>1, AnsweredNext DEF TakeBatch, tokVars, wakeVars, logVars, envVars, History, InTurn,
      Working, Shape
  <2>2. CASE ApplyBatched
    <3>1. batch # <<>> /\ Head(batch) \in Item
      BY <1>1, <2>2, Items DEF ApplyBatched, Collections
    <3>2. st' = Apply(st, Head(batch)) /\ UNCHANGED <<ck, snap, pc>> /\ pc \in {"batch", "drain"}
      BY <2>2 DEF ApplyBatched, Take
    <3>3. Answered(st'.msgs)
      BY <1>1, <3>1, <3>2, AnsweredNext DEF History
    <3>4. QED
      BY <1>1, <3>2, <3>3 DEF History, InTurn, Working
  <2>3. CASE EndBatch
    <3>1. /\ pc \in {"batch"} /\ pc' \in {"out", "run", "suspending", "failing", "ended"} /\ ck' \in {ck, st'}
          /\ st'.msgs = st.msgs
      BY <2>3, AnsweredNext DEF EndBatch, Fresh, FreshOn, Checkpoint, logVars
    <3>2. QED
      BY <1>1, <3>1 DEF History, InTurn, Working
  <2>4. CASE StartTurn
    <3>1. pc = "run" /\ pc' = "before" /\ UNCHANGED ck /\ st'.msgs = st.msgs /\ snap' = st'
      BY <2>4, TurnFields DEF StartTurn, logVars
    <3>2. QED
      BY <1>1, <3>1 DEF History, InTurn, Working
  <2>5. CASE LogRequest
    BY <1>1, <2>5, AnsweredNext DEF LogRequest, Fired, Goto, Log, tokVars, wakeVars, envVars,
      History, InTurn, Working, Shape
  <2>6. CASE SendRequest
    BY <1>1, <2>6, AnsweredNext DEF SendRequest, Fired, Goto, logVars, tokVars, wakeVars, envVars,
      History, InTurn, Working, Shape
  <2>7. CASE AfterModel
    <3>1. PICK n \in 0 .. MaxCalls : /\ st' = Push(st, <<"assistant", st.turn, n>>)
                                     /\ calls' = n /\ pc' = IF n = 0 THEN "drain" ELSE "tool"
      BY <2>7 DEF AfterModel
    <3>2. pc = "respond" /\ cur = 1 /\ cur' = 1 /\ UNCHANGED <<ck, snap>>
      BY <1>1, <2>7 DEF AfterModel, Log, Shape
    <3>3. st'.msgs = Append(st.msgs, <<"assistant", st.turn, n>>) /\ st'.turn = st.turn
      BY <3>1, AssistantFields
    <3>4. st.msgs \in Seq(Msg) /\ n \in Nat /\ <<"assistant", st.turn, n>> \in Msg
      BY StateFields DEF KernelInv, Good, Msg
    <3>5. IF n = 0 THEN Answered(st'.msgs) ELSE Pending(st'.msgs, st'.turn, calls', cur')
      BY <1>1, <3>1, <3>2, <3>3, <3>4, PendingStart DEF History
    <3>6. QED
      BY <1>1, <3>1, <3>2, <3>5 DEF History, InTurn, Working
  <2>8. CASE CheckPoint
    <3>1. /\ pc \in {"before", "send", "request", "respond", "tool", "after"} /\ pc' = "cancel"
          /\ UNCHANGED <<st, ck, snap, calls, cur>>
      BY <2>8 DEF CheckPoint, Cancelled, Leave, Goto, logVars
    <3>2. IF pc \in {"tool", "after"} THEN calls # 0 ELSE calls = 0
      BY <1>1, <3>1 DEF KernelInv, Locals, Shape
    <3>3. QED
      BY <1>1, <3>1, <3>2 DEF History, InTurn, Working
  <2>9. CASE Unregistered
    <3>1. /\ pc \in {"tool", "after"} /\ cur' = cur + 1 /\ UNCHANGED <<ck, snap, calls>>
          /\ pc' = IF cur = calls THEN "drain" ELSE "tool"
          /\ \E o : st' = WithOutput(o)
      BY <2>9 DEF Unregistered, AppendOutput, Log
    <3>2. st'.msgs = Append(st.msgs, <<"tool", <<st.turn, cur>>>>) /\ st'.turn = st.turn
      BY <3>1, WithOutputFields DEF ThisTask
    <3>3. <<"tool", <<st.turn, cur>>>> \in Msg /\ cur \in Nat /\ calls \in Nat
      BY <3>1, ThisTaskFacts DEF Msg, ThisTask
    <3>4. Pending(st.msgs, st.turn, calls, cur) /\ st.msgs \in Seq(Msg)
      BY <1>1, <3>1, StateFields DEF History, KernelInv, Good
    <3>5. IF cur = calls THEN Answered(st'.msgs) ELSE Pending(st'.msgs, st'.turn, calls', cur')
      BY <3>1, <3>2, <3>3, <3>4, PendingTool
    <3>6. QED
      BY <1>1, <3>1, <3>5 DEF History, InTurn, Working
  <2>10. CASE Replaced
    BY <1>1, <2>10, AnsweredNext DEF Replaced, Fired, Log, tokVars, wakeVars, envVars, History,
      InTurn, Working, Shape
  <2>11. CASE LogCall
    BY <1>1, <2>11, AnsweredNext DEF LogCall, Fired, Goto, Log, wakeVars, envVars, History, InTurn,
      Working, Shape
  <2>12. CASE Invoke
    BY <1>1, <2>12, AnsweredNext DEF Invoke, Fired, Goto, tokVars, logVars, wakeVars, envVars, History, InTurn,
      Working, Shape
  <2>13. CASE ToolCancelled
    <3>1. pc \in {"launch", "invoke"} /\ pc' \in {"cancel", "after"} /\ UNCHANGED <<st, ck, snap, calls, cur>>
      BY <2>13 DEF ToolCancelled, Leave, Goto, Log, logVars
    <3>2. calls # 0
      BY <1>1, <3>1 DEF KernelInv, Locals, Shape
    <3>3. QED
      BY <1>1, <3>1, <3>2 DEF History, InTurn, Working
  <2>14. CASE AfterTool
    <3>1. /\ pc \in {"tool", "after"} /\ cur' = cur + 1 /\ UNCHANGED <<ck, snap, calls>>
          /\ pc' = IF cur = calls THEN "drain" ELSE "tool"
          /\ \E o : st' = WithOutput(o)
      BY <2>14 DEF AfterTool, AppendOutput, Log
    <3>2. st'.msgs = Append(st.msgs, <<"tool", <<st.turn, cur>>>>) /\ st'.turn = st.turn
      BY <3>1, WithOutputFields DEF ThisTask
    <3>3. <<"tool", <<st.turn, cur>>>> \in Msg /\ cur \in Nat /\ calls \in Nat
      BY <3>1, ThisTaskFacts DEF Msg, ThisTask
    <3>4. Pending(st.msgs, st.turn, calls, cur) /\ st.msgs \in Seq(Msg)
      BY <1>1, <3>1, StateFields DEF History, KernelInv, Good
    <3>5. IF cur = calls THEN Answered(st'.msgs) ELSE Pending(st'.msgs, st'.turn, calls', cur')
      BY <3>1, <3>2, <3>3, <3>4, PendingTool
    <3>6. QED
      BY <1>1, <3>1, <3>5 DEF History, InTurn, Working
  <2>15. CASE DrainOne
    <3>1. inbox # <<>> /\ Head(inbox) \in Item
      BY <1>1, <2>15, Items DEF DrainOne, Collections
    <3>2. st' = Apply(st, Head(inbox)) /\ UNCHANGED <<ck, snap, pc>> /\ pc \in {"batch", "drain"}
      BY <2>15 DEF DrainOne, Take
    <3>3. Answered(st'.msgs)
      BY <1>1, <3>1, <3>2, AnsweredNext DEF History
    <3>4. QED
      BY <1>1, <3>2, <3>3 DEF History, InTurn, Working
  <2>16. CASE TurnEnd
    <3>1. /\ pc \in {"drain"} /\ pc' \in {"out", "run", "suspending", "failing", "ended"} /\ ck' \in {ck, st'}
          /\ st'.msgs = st.msgs
      BY <2>16, AnsweredNext DEF TurnEnd, Drained, NextStatus, Goto, Fresh, FreshOn, Checkpoint
    <3>2. QED
      BY <1>1, <3>1 DEF History, InTurn, Working
  <2>17. CASE LogSuspended
    BY <1>1, <2>17, AnsweredNext DEF LogSuspended, Return, Fresh, FreshOn, tokVars, wakeVars,
      envVars, History, InTurn, Working, Shape
  <2>18. CASE CancelTurnBody
    <3>1. /\ pc = "cancel" /\ pc' = "drain" /\ UNCHANGED ck /\ AnswerUpTo(calls)
      BY <2>18 DEF CancelTurnBody, FreshOn, Log
    <3>2. calls \in (cur - 1) .. calls /\ calls \in Nat /\ cur \in Nat /\ cur >= 1
      BY <1>1, <3>1 DEF KernelInv, Locals, Shape
    <3>3. /\ Answers(calls) \in Seq(Msg) /\ Len(Answers(calls)) = calls + 1 - cur
          /\ st'.msgs = st.msgs \o Answers(calls) /\ st.msgs \in Seq(Msg)
      BY <3>1, <3>2, AnswerFacts, StateFields DEF KernelInv, Good
    <3>4. CASE calls = 0
      <4>1. Len(Answers(calls)) = 0
        BY <1>1, <3>1, <3>2, <3>3, <3>4 DEF Shape
      <4>2. Answers(calls) = <<>>
        BY <3>3, <4>1
      <4>3. st'.msgs = st.msgs
        BY <3>3, <4>2
      <4>4. QED
        BY <1>1, <3>1, <3>4, <4>3 DEF History, InTurn, Working
    <3>5. CASE calls # 0
      <4>1. \A i \in 1 .. (calls + 1 - cur) : Answers(calls)[i] = <<"tool", <<st.turn, cur + i - 1>>>>
        BY DEF Answers
      <4>2. Pending(st.msgs, st.turn, calls, cur)
        BY <1>1, <3>1, <3>5 DEF History
      <4>3. Answered(st'.msgs)
        BY <3>2, <3>3, <4>1, <4>2, PendingAnswers
      <4>4. QED
        BY <1>1, <3>1, <4>3 DEF History, InTurn, Working
    <3>6. QED
      BY <3>4, <3>5
  <2>19. CASE CancelTurnEnd
    <3>1. /\ pc \in {"drain"} /\ pc' \in {"out", "run", "suspending", "failing", "ended"} /\ ck' \in {ck, st'}
          /\ st'.msgs = st.msgs
      BY <2>19, AnsweredNext DEF CancelTurnEnd, Drained, Return, Fresh, FreshOn, Checkpoint
    <3>2. QED
      BY <1>1, <3>1 DEF History, InTurn, Working
  <2>20. CASE FailTurnBody
    BY <1>1, <2>20, AnsweredNext DEF FailTurnBody, Log, FreshOn, tokVars, envVars, History, InTurn,
      Working, Shape
  <2>21. CASE FailTurnEnd
    <3>1. /\ pc \in {"drain"} /\ pc' \in {"out", "run", "suspending", "failing", "ended"} /\ ck' \in {ck, st'}
          /\ st'.msgs = st.msgs
      BY <2>21, AnsweredNext DEF FailTurnEnd, Drained, Goto, Checkpoint
    <3>2. QED
      BY <1>1, <3>1 DEF History, InTurn, Working
  <2>22. CASE LogFailed
    BY <1>1, <2>22, AnsweredNext DEF LogFailed, Return, Fresh, FreshOn, tokVars, wakeVars, envVars,
      History, InTurn, Working, Shape
  <2>23. CASE ResumeApply
    <3> DEFINE s == IF batch = <<>> THEN st ELSE Apply(st, batch[1])
    <3>1. batch = <<>> \/ \E i \in Item : batch = <<i>>
      BY <2>23 DEF Single, ResumeApply
    <3>2. /\ (st' = s \/ st' = WithStatus(s, "running")) /\ pc = "resuming" /\ pc' = "out" /\ ck' \in {ck, st'}
      BY <2>23 DEF ResumeApply, Return, Fresh, FreshOn, CheckpointWith, Resumed
    <3>3. Answered(st.msgs)
      BY <1>1, <3>2 DEF History
    <3>4. CASE batch = <<>>
      BY <1>1, <3>2, <3>3, <3>4, AnsweredNext DEF History, InTurn, Working
    <3>5. ASSUME NEW i \in Item, batch = <<i>>
          PROVE  History'
      <4>1. st' = Apply(st, i) \/ st' = WithStatus(Apply(st, i), "running")
        BY <3>2, <3>5
      <4>2. Answered(st'.msgs)
        BY <3>3, <4>1, AnsweredNext
      <4>3. QED
        BY <1>1, <3>2, <4>2 DEF History, InTurn, Working
    <3>6. QED
      BY <3>1, <3>4, <3>5
  <2>24. CASE EndOne
    BY <1>1, <2>24, AnsweredNext DEF EndOne, Log, loopVars, tokVars, wakeVars, envVars, History,
      InTurn, Working, Shape
  <2>25. CASE EndCommit
    <3>1. /\ pc \in {"ending"} /\ pc' \in {"out", "run", "suspending", "failing", "ended"} /\ ck' \in {ck, st'}
          /\ st'.msgs = st.msgs
      BY <2>25, AnsweredNext DEF EndCommit, Goto, Checkpoint
    <3>2. QED
      BY <1>1, <3>1 DEF History, InTurn, Working
  <2>26. CASE LogEnded
    BY <1>1, <2>26, AnsweredNext DEF LogEnded, Return, Fresh, FreshOn, tokVars, wakeVars, envVars,
      History, InTurn, Working, Shape
  <2>27. CASE LoseOne
    <3>1. /\ pc = "losing" /\ UNCHANGED <<pc, ck>> /\ \E t \in open_tasks(st) : st' = cancel_task_in_state(st, t)
      BY <2>27 DEF LoseOne, Lost, logVars
    <3>2. Answered(st'.msgs)
      BY <1>1, <3>1, AnsweredNext DEF History
    <3>3. QED
      BY <1>1, <3>1, <3>2 DEF History, InTurn, Working
  <2>28. CASE LoggedOpen
    BY <1>1, <2>28, AnsweredNext DEF LoggedOpen, Goto, Log, tokVars, wakeVars, envVars, History,
      InTurn, Working, Shape
  <2>29. CASE OpenApply
    <3> DEFINE s == IF batch = <<>> THEN st ELSE Apply(st, batch[1])
    <3>1. batch = <<>> \/ \E i \in Item : batch = <<i>>
      BY <2>29 DEF Single, OpenApply
    <3>2. /\ (st' = s \/ st' = WithStatus(s, "running")) /\ pc = "opening" /\ pc' = "out" /\ ck' \in {ck, st'}
      BY <2>29 DEF OpenApply, Return, Fresh, FreshOn, CheckpointWith, Log
    <3>3. Answered(st.msgs)
      BY <1>1, <3>2 DEF History
    <3>4. CASE batch = <<>>
      BY <1>1, <3>2, <3>3, <3>4, AnsweredNext DEF History, InTurn, Working
    <3>5. ASSUME NEW i \in Item, batch = <<i>>
          PROVE  History'
      <4>1. st' = Apply(st, i) \/ st' = WithStatus(Apply(st, i), "running")
        BY <3>2, <3>5
      <4>2. Answered(st'.msgs)
        BY <3>3, <4>1, AnsweredNext
      <4>3. QED
        BY <1>1, <3>2, <4>2 DEF History, InTurn, Working
    <3>6. QED
      BY <3>1, <3>4, <3>5
  <2>30. QED
    BY <1>2, <2>1, <2>2, <2>3, <2>4, <2>6, <2>7, <2>8, <2>9, <2>10, <2>12, <2>13, <2>14,
      <2>15, <2>16, <2>17, <2>18, <2>19, <2>20, <2>21, <2>22, <2>23, <2>24, <2>25, <2>26, <2>27,
      <2>28, <2>29, <2>5, <2>11 DEF LoopStep
<1>3. CASE Reply
  <2>1. CASE ModelAnswers
    BY <1>1, <2>1, AnsweredNext DEF ModelAnswers, Fired, Goto, tokVars, wakeVars, logVars, envVars,
      History, InTurn, Working, Shape
  <2>2. CASE LaunchFails
    BY <1>1, <2>2, AnsweredNext DEF LaunchFails, wakeVars, logVars, envVars,
      History, InTurn, Working, Shape
  <2>3. CASE ToolWatches
    BY <1>1, <2>3, AnsweredNext DEF ToolWatches, loopVars, tokVars, logVars, envVars, History,
      InTurn, Working, Shape
  <2>4. CASE ToolReturns
    BY <1>1, <2>4, AnsweredNext DEF ToolReturns, Fired, logVars, envVars, History, InTurn, Working,
      Shape
  <2>5. CASE TurnFails
    BY <1>1, <2>5, AnsweredNext DEF TurnFails, Fired, Leave, Goto, child_token, wakeVars, logVars,
      envVars, History, InTurn, Working, Shape
  <2>6. CASE MidTurnCompaction
    BY <1>1, <2>6, AnsweredNext DEF MidTurnCompaction, Fired, Outside, Checkpoint, loopVars,
      tokVars, wakeVars, History, InTurn, Working, Shape
  <2>7. QED
    BY <1>3, <2>1, <2>3, <2>4, <2>5, <2>6, <2>2 DEF Reply
<1>4. CASE Fault
  BY <1>4, FaultCounted
<1>5. CASE Caller
  <2>1. CASE Run
    BY <1>1, <2>1, AnsweredNext DEF Run, Goto, tokVars, wakeVars, logVars, envVars, History, InTurn,
      Working, Shape
  <2>2. CASE Suspend
    <3>1. /\ pc \in {"out"} /\ pc' \in {"out", "run", "suspending", "failing", "ended"} /\ ck' \in {ck, st'}
          /\ st'.msgs = st.msgs
      BY <2>2, AnsweredNext DEF Suspend, FreshOn, Checkpoint
    <3>2. QED
      BY <1>1, <3>1 DEF History, InTurn, Working
  <2>3. CASE Resume
    BY <1>1, <2>3, AnsweredNext DEF Resume, Log, tokVars, wakeVars, History, InTurn, Working, Shape
  <2>4. CASE Compact
    BY <1>1, <2>4, AnsweredNext DEF Compact, Outside, Checkpoint, loopVars, tokVars, wakeVars,
      History, InTurn, Working, Shape
  <2>5. CASE End
    BY <1>1, <2>5, AnsweredNext DEF End, Outside, Goto, logVars, History, InTurn, Working, Shape
  <2>6. QED
    BY <1>5, <2>1, <2>2, <2>3, <2>4, <2>5 DEF Caller
<1>6. CASE Handle \/ Waker
  BY <1>1, <1>6, HandleKeeps DEF loopVars, logVars, History
<1>7. CASE Process
  <2>1. CASE Die
    BY <1>1, <2>1, AnsweredNext DEF Die, Fresh, FreshOn, History, InTurn, Working, Shape
  <2>2. CASE Open
    BY <1>1, <2>2, AnsweredNext DEF Open, tokVars, wakeVars, History, InTurn, Working, Shape
  <2>3. QED
    BY <1>7, <2>1, <2>2 DEF Process
<1>8. QED
  BY <1>2, <1>3, <1>4, <1>5, <1>6, <1>7 DEF Next

-----------------------------------------------------------------------------
(* The tasks that this process watches *)

\* The watched tasks are of the turns so far and, in a turn, of the calls so
\* far; what the snapshot holds is still so.
Turns ==
    /\ pc \in {"down", "losing", "opening"} => watched = {}
    /\ \A t \in watched : t[1] <= st.turn
    /\ pc \in Working \cup {"cancel"} => \A t \in watched : t[1] = st.turn => t[2] <= cur
    /\ pc \in {"before", "send", "request", "respond", "tool", "launch"} =>
          \A t \in watched : t[1] = st.turn => t[2] < cur
    /\ pc \in InTurn => /\ snap.turn = st.turn /\ snap.waker \subseteq st.waker
                        /\ \A t \in Task : snap.tasks[t] # "none" => st.tasks[t] = snap.tasks[t]

\* What closes task t is on its way: Awaited, queue by queue.
Waits(t) ==
    \/ t \in wakers \cup firing
    \/ In(inbox, <<"final", t>>) \/ In(inbox, <<"cancel", t>>)
    \/ In(batch, <<"final", t>>) \/ In(batch, <<"cancel", t>>)

\* OwnTasksAwaited, and the same of the task that the call in hand may start.
Waiting ==
    /\ pc # "ending" => \A t \in open_tasks(st) \cap st.waker \cap watched : Waits(t)
    /\ pc \in {"invoke", "after"} /\ ThisTask \in watched /\ (pc = "after" => out = "task") =>
          Waits(ThisTask)

\* The task that a final update or a cancel names.
Names(i) == IF i[1] \in {"final", "cancel"} THEN {i[2]} ELSE {}

\* An item closes the task that it names, if it is open.
LEMMA ApplyTasks ==
    ASSUME NEW s \in State, NEW i \in Item
    PROVE  /\ Apply(s, i) \in State /\ Apply(s, i).turn = s.turn /\ Apply(s, i).waker = s.waker
           /\ open_tasks(Apply(s, i)) = open_tasks(s) \ Names(i)
           /\ Aborts(s, i) \subseteq Names(i)
<1>1. Aborts(s, i) \subseteq Names(i)
  BY DEF Aborts, Names
<1>2. s.tasks \in [Task -> {"none", "open", "finished", "cancelled"}]
  BY StateFields
<1>3. CASE i[1] = "user"
  <2>1. i \in Msg /\ Apply(s, i) = Push(s, i) /\ Names(i) = {}
    BY <1>3 DEF Item, Msg, Apply, Names
  <2>2. /\ Push(s, i) \in State /\ Push(s, i).turn = s.turn
        /\ Push(s, i).waker = s.waker /\ Push(s, i).tasks = s.tasks
    BY <2>1, PushFields
  <2>3. open_tasks(Push(s, i)) = open_tasks(s)
    BY <2>2 DEF open_tasks
  <2>4. QED
    BY <1>1, <2>1, <2>2, <2>3
<1>4. CASE i[1] # "user"
  <2>1. i[2] \in Task /\ i[1] \in {"progress", "final", "bad", "cancel"}
    BY <1>4 DEF Item
  <2>2. CASE i[1] \in {"final", "cancel"} /\ i[2] \in open_tasks(s)
    <3>1. PICK how \in Closed : Apply(s, i) = Close(s, i[2], how)
      BY <2>2 DEF Apply, Effect, Closed, cancel_task_in_state
    <3>2. /\ Close(s, i[2], how) \in State /\ Close(s, i[2], how).turn = s.turn
          /\ Close(s, i[2], how).waker = s.waker
          /\ Close(s, i[2], how).tasks = [s.tasks EXCEPT ![i[2]] = how]
      BY <2>1, CloseFields
    <3>3. open_tasks(Close(s, i[2], how)) = open_tasks(s) \ {i[2]}
      BY <1>2, <2>1, <3>2 DEF open_tasks, Closed
    <3>4. QED
      BY <1>1, <2>2, <3>1, <3>2, <3>3 DEF Names
  <2>3. CASE ~ (i[1] \in {"final", "cancel"} /\ i[2] \in open_tasks(s))
    <3>1. Apply(s, i) = s
      BY <1>4, <2>3 DEF Apply, Effect, cancel_task_in_state
    <3>2. QED
      BY <1>1, <2>3, <3>1 DEF Names
  <2>4. QED
    BY <2>2, <2>3
<1>5. QED
  BY <1>3, <1>4

\* What the steps do to the turn and to the tasks.
LEMMA TasksNext ==
    ASSUME KernelInv
    PROVE  /\ st \in State /\ st.turn \in Nat /\ cur \in Nat
           /\ \A x \in {"running", "idle", "suspended", "failed", "done", st.status} :
                 LET z == WithStatus(st, x)
                 IN  z.turn = st.turn /\ z.waker = st.waker /\ open_tasks(z) = open_tasks(st)
           /\ \A t \in open_tasks(st) :
                 LET z == cancel_task_in_state(st, t)
                 IN  z.turn = st.turn /\ z.waker = st.waker /\ open_tasks(z) \subseteq open_tasks(st)
           /\ \A i \in Item :
                 LET z == WithStatus(Apply(st, i), "running")
                 IN  /\ z.turn = st.turn /\ z.waker = st.waker
                     /\ open_tasks(z) = open_tasks(Apply(st, i))
<1>1. st \in State /\ st.turn \in Nat /\ cur \in Nat
  BY StateFields DEF KernelInv, Good, Locals
<1>2. /\ "running" \in Status /\ "idle" \in Status /\ "suspended" \in Status /\ "failed" \in Status
      /\ "done" \in Status
  BY DEF Status
<1>3. \A s \in State, x \in Status :
         LET z == WithStatus(s, x) IN z.turn = s.turn /\ z.waker = s.waker /\ open_tasks(z) = open_tasks(s)
  BY WithStatusFields DEF open_tasks
<1>4. WithStatus(st, st.status) = st
  BY <1>1, SameStatus
<1>5. ASSUME NEW t \in open_tasks(st)
      PROVE  LET z == cancel_task_in_state(st, t)
             IN  z.turn = st.turn /\ z.waker = st.waker /\ open_tasks(z) \subseteq open_tasks(st)
  <2> DEFINE z == cancel_task_in_state(st, t)
  <2>1. t \in Task /\ "cancelled" \in Closed
    BY DEF open_tasks, Closed
  <2>2. z.turn = st.turn /\ z.waker = st.waker /\ z.tasks = [st.tasks EXCEPT ![t] = "cancelled"]
    BY <1>1, <2>1, CloseFields, CancelOpen
  <2> HIDE DEF z
  <2>3. open_tasks(z) \subseteq open_tasks(st)
    BY <1>1, <2>1, <2>2, StateFields DEF open_tasks
  <2>4. QED
    BY <2>2, <2>3 DEF z
<1>6. ASSUME NEW i \in Item
      PROVE  LET z == WithStatus(Apply(st, i), "running")
             IN  z.turn = st.turn /\ z.waker = st.waker /\ open_tasks(z) = open_tasks(Apply(st, i))
  <2>1. Apply(st, i) \in State /\ Apply(st, i).turn = st.turn /\ Apply(st, i).waker = st.waker
    BY <1>1, ApplyTasks
  <2>2. QED
    BY <1>2, <1>3, <2>1
<1>7. \A x \in {"running", "idle", "suspended", "failed", "done", st.status} :
         LET z == WithStatus(st, x)
         IN  z.turn = st.turn /\ z.waker = st.waker /\ open_tasks(z) = open_tasks(st)
  BY <1>1, <1>2, <1>3, <1>4
<1>8. QED
  BY <1>1, <1>5, <1>6, <1>7

\* Out of a turn, a step that changes neither the turn nor what is watched
\* keeps it.
LEMMA TurnsOut ==
    ASSUME Turns, UNCHANGED watched, st'.turn = st.turn, pc' \notin InTurn,
           pc' \in {"down", "losing", "opening"} => watched = {}
    PROVE  Turns'
  BY DEF Turns, InTurn, Working

\* Every action keeps the watched tasks within the turns and the calls so far.
LEMMA TurnsNext ==
    ASSUME KernelInv, Single, Turns, Next, faults' = 0
    PROVE  Turns'
<1>1. Turns /\ Collections
  BY DEF KernelInv
<1>2. CASE LoopStep
  <2>1. CASE TakeBatch
    BY <1>1, <2>1, TasksNext DEF TakeBatch, tokVars, wakeVars, logVars, envVars, Turns, InTurn,
      Working
  <2>2. CASE ApplyBatched
    <3>1. batch # <<>> /\ Head(batch) \in Item /\ st \in State
      BY <1>1, <2>2, Items DEF ApplyBatched, Collections, KernelInv, Good
    <3>2. st' = Apply(st, Head(batch)) /\ UNCHANGED <<watched, pc>> /\ pc \in {"batch", "drain"}
      BY <2>2 DEF ApplyBatched, Take
    <3>3. st'.turn = st.turn
      BY <3>1, <3>2, ApplyTasks
    <3>4. QED
      BY <1>1, <3>2, <3>3, TurnsOut DEF InTurn, Working
  <2>3. CASE EndBatch
    <3>1. /\ UNCHANGED watched /\ st'.turn = st.turn /\ pc' \notin InTurn
          /\ pc' \in {"down", "losing", "opening"} => watched = {}
      BY <2>3, TasksNext DEF EndBatch, Fresh, FreshOn, wakeVars, InTurn, Working
    <3>2. QED
      BY <1>1, <3>1, TurnsOut
  <2>4. CASE StartTurn
    <3>1. /\ st'.turn = st.turn + 1 /\ snap' = st' /\ pc' = "before" /\ cur' = 1 /\ UNCHANGED watched
      BY <2>4, TurnFields DEF StartTurn, wakeVars
    <3>2. \A t \in watched : t[1] \in Nat /\ t[1] <= st.turn /\ st.turn \in Nat
      BY <1>1, TasksNext, TaskFields DEF Turns, Collections
    <3>3. \A t \in watched : t[1] <= st'.turn /\ t[1] # st'.turn
      BY <3>1, <3>2
    <3>4. QED
      BY <3>1, <3>3 DEF Turns, InTurn, Working
  <2>5. CASE LogRequest
    BY <1>1, <2>5, TasksNext DEF LogRequest, Fired, Goto, Log, tokVars, wakeVars, envVars, Turns,
      InTurn, Working
  <2>6. CASE SendRequest
    BY <1>1, <2>6, TasksNext DEF SendRequest, Fired, Goto, logVars, tokVars, wakeVars, envVars, Turns,
      InTurn, Working
  <2>7. CASE AfterModel
    <3>1. PICK n \in 0 .. MaxCalls : /\ st' = Push(st, <<"assistant", st.turn, n>>)
                                     /\ pc' = IF n = 0 THEN "drain" ELSE "tool"
      BY <2>7 DEF AfterModel
    <3>2. st'.turn = st.turn /\ st'.tasks = st.tasks /\ st'.waker = st.waker
      BY <3>1, AssistantFields
    <3>3. QED
      BY <1>1, <2>7, <3>1, <3>2 DEF AfterModel, wakeVars, Turns, InTurn, Working
  <2>8. CASE CheckPoint
    BY <1>1, <2>8, TasksNext DEF CheckPoint, Cancelled, Fired, Leave, Goto, child_token, wakeVars,
      logVars, envVars, Turns, InTurn, Working
  <2>9. CASE Unregistered
    <3>1. /\ pc \in {"tool", "after"} /\ cur' = cur + 1 /\ UNCHANGED <<watched, snap>>
          /\ pc' \in {"drain", "tool"} /\ \E o : st' = WithOutput(o)
      BY <2>9 DEF Unregistered, AppendOutput, wakeVars
    <3>2. /\ ThisTask \in Task /\ st.tasks[ThisTask] = "none"
          /\ st.tasks \in [Task -> {"none", "open", "finished", "cancelled"}]
      BY <3>1, ThisTaskFacts, StateFields DEF KernelInv, Good
    <3>3. /\ st'.turn = st.turn /\ st.waker \subseteq st'.waker
          /\ st'.tasks = st.tasks \/ st'.tasks = [st.tasks EXCEPT ![ThisTask] = "open"]
      BY <3>1, WithOutputFields
    <3>4. \A t \in Task : st.tasks[t] # "none" => st'.tasks[t] = st.tasks[t]
      BY <3>2, <3>3
    <3>5. \A t \in watched : t[1] = st.turn => t[2] < cur'
      BY <1>1, <3>1, TasksNext, TaskFields DEF Turns, Working, Collections
    <3>6. \A t \in Task : snap.tasks[t] # "none" => st'.tasks[t] = snap.tasks[t]
      BY <1>1, <3>1, <3>4 DEF Turns, InTurn, Working
    <3>7. \A t \in watched : t[1] = st.turn => t[2] <= cur'
      BY <1>1, <3>1, <3>5, TasksNext, TaskFields DEF Collections
    <3>8. QED
      BY <1>1, <3>1, <3>3, <3>5, <3>6, <3>7 DEF Turns, InTurn, Working
  <2>10. CASE Replaced
    BY <1>1, <2>10, TasksNext DEF Replaced, Fired, Log, tokVars, wakeVars, envVars, Turns, InTurn,
      Working
  <2>11. CASE LogCall
    BY <1>1, <2>11, TasksNext DEF LogCall, Fired, Goto, Log, wakeVars, envVars, Turns, InTurn,
      Working
  <2>12. CASE Invoke
    BY <1>1, <2>12, TasksNext DEF Invoke, Fired, Goto, tokVars, logVars, wakeVars, envVars, Turns, InTurn,
      Working
  <2>13. CASE ToolCancelled
    BY <1>1, <2>13, TasksNext DEF ToolCancelled, Fired, Leave, Goto, child_token, Log, logVars,
      envVars, Turns, InTurn, Working
  <2>14. CASE AfterTool
    <3>1. /\ pc \in {"tool", "after"} /\ cur' = cur + 1 /\ UNCHANGED <<watched, snap>>
          /\ pc' \in {"drain", "tool"} /\ \E o : st' = WithOutput(o)
      BY <2>14 DEF AfterTool, AppendOutput, wakeVars
    <3>2. /\ ThisTask \in Task /\ st.tasks[ThisTask] = "none"
          /\ st.tasks \in [Task -> {"none", "open", "finished", "cancelled"}]
      BY <3>1, ThisTaskFacts, StateFields DEF KernelInv, Good
    <3>3. /\ st'.turn = st.turn /\ st.waker \subseteq st'.waker
          /\ st'.tasks = st.tasks \/ st'.tasks = [st.tasks EXCEPT ![ThisTask] = "open"]
      BY <3>1, WithOutputFields
    <3>4. \A t \in Task : st.tasks[t] # "none" => st'.tasks[t] = st.tasks[t]
      BY <3>2, <3>3
    <3>5. \A t \in watched : t[1] = st.turn => t[2] < cur'
      BY <1>1, <3>1, TasksNext, TaskFields DEF Turns, Working, Collections
    <3>6. \A t \in Task : snap.tasks[t] # "none" => st'.tasks[t] = snap.tasks[t]
      BY <1>1, <3>1, <3>4 DEF Turns, InTurn, Working
    <3>7. \A t \in watched : t[1] = st.turn => t[2] <= cur'
      BY <1>1, <3>1, <3>5, TasksNext, TaskFields DEF Collections
    <3>8. QED
      BY <1>1, <3>1, <3>3, <3>5, <3>6, <3>7 DEF Turns, InTurn, Working
  <2>15. CASE DrainOne
    <3>1. inbox # <<>> /\ Head(inbox) \in Item /\ st \in State
      BY <1>1, <2>15, Items DEF DrainOne, Collections, KernelInv, Good
    <3>2. st' = Apply(st, Head(inbox)) /\ UNCHANGED <<watched, pc>> /\ pc \in {"batch", "drain"}
      BY <2>15 DEF DrainOne, Take
    <3>3. st'.turn = st.turn
      BY <3>1, <3>2, ApplyTasks
    <3>4. QED
      BY <1>1, <3>2, <3>3, TurnsOut DEF InTurn, Working
  <2>16. CASE TurnEnd
    <3>1. /\ UNCHANGED watched /\ st'.turn = st.turn /\ pc' \notin InTurn
          /\ pc' \in {"down", "losing", "opening"} => watched = {}
      BY <2>16, TasksNext DEF TurnEnd, Drained, NextStatus, Goto, Fresh, FreshOn, wakeVars, InTurn, Working
    <3>2. QED
      BY <1>1, <3>1, TurnsOut
  <2>17. CASE LogSuspended
    BY <1>1, <2>17, TasksNext DEF LogSuspended, Return, Fresh, FreshOn, tokVars, wakeVars, envVars,
      Turns, InTurn, Working
  <2>18. CASE CancelTurnBody
    <3>1. calls \in (cur - 1) .. calls
      BY <2>18 DEF KernelInv, Locals, Shape, CancelTurnBody
    <3>2. st'.turn = st.turn
      BY <2>18, <3>1, AnswerFacts DEF CancelTurnBody
    <3>3. QED
      BY <1>1, <2>18, <3>2, TurnsOut DEF CancelTurnBody, FreshOn, InTurn, Working
  <2>19. CASE CancelTurnEnd
    <3>1. /\ UNCHANGED watched /\ st'.turn = st.turn /\ pc' \notin InTurn
          /\ pc' \in {"down", "losing", "opening"} => watched = {}
      BY <2>19, TasksNext DEF CancelTurnEnd, Return, Fresh, FreshOn, wakeVars, InTurn, Working
    <3>2. QED
      BY <1>1, <3>1, TurnsOut
  <2>20. CASE FailTurnBody
    <3>1. /\ UNCHANGED watched /\ st'.turn = st.turn /\ pc' \notin InTurn
          /\ pc' \in {"down", "losing", "opening"} => watched = {}
      BY <1>1, <2>20 DEF FailTurnBody, FreshOn, Turns, InTurn, Working
    <3>2. QED
      BY <1>1, <3>1, TurnsOut
  <2>21. CASE FailTurnEnd
    <3>1. /\ UNCHANGED watched /\ st'.turn = st.turn /\ pc' \notin InTurn
          /\ pc' \in {"down", "losing", "opening"} => watched = {}
      BY <2>21, TasksNext DEF FailTurnEnd, Goto, wakeVars, InTurn, Working
    <3>2. QED
      BY <1>1, <3>1, TurnsOut
  <2>22. CASE LogFailed
    BY <1>1, <2>22, TasksNext DEF LogFailed, Return, Fresh, FreshOn, tokVars, wakeVars, envVars,
      Turns, InTurn, Working
  <2>23. CASE ResumeApply
    <3> DEFINE s == IF batch = <<>> THEN st ELSE Apply(st, batch[1])
    <3>1. batch = <<>> \/ \E i \in Item : batch = <<i>>
      BY <2>23 DEF Single, ResumeApply
    <3>2. /\ (st' = s \/ st' = WithStatus(s, "running")) /\ pc' = "out" /\ UNCHANGED watched
      BY <2>23 DEF ResumeApply, Return, Fresh, FreshOn, wakeVars, Resumed
    <3>3. st'.turn = st.turn
      <4>1. CASE batch = <<>>
        BY <3>2, <4>1, TasksNext
      <4>2. ASSUME NEW i \in Item, batch = <<i>>
            PROVE  st'.turn = st.turn
        <5>1. st' = Apply(st, i) \/ st' = WithStatus(Apply(st, i), "running")
          BY <3>2, <4>2
        <5>2. QED
          BY <5>1, ApplyTasks, TasksNext
      <4>3. QED
        BY <3>1, <4>1, <4>2
    <3>4. QED
      BY <1>1, <3>2, <3>3, TurnsOut DEF InTurn, Working
  <2>24. CASE EndOne
    <3>1. /\ UNCHANGED watched /\ st'.turn = st.turn /\ pc' \notin InTurn
          /\ pc' \in {"down", "losing", "opening"} => watched = {}
      BY <2>24, TasksNext DEF EndOne, loopVars, wakeVars, InTurn, Working
    <3>2. QED
      BY <1>1, <3>1, TurnsOut
  <2>25. CASE EndCommit
    <3>1. /\ UNCHANGED watched /\ st'.turn = st.turn /\ pc' \notin InTurn
          /\ pc' \in {"down", "losing", "opening"} => watched = {}
      BY <2>25, TasksNext DEF EndCommit, Goto, wakeVars, InTurn, Working
    <3>2. QED
      BY <1>1, <3>1, TurnsOut
  <2>26. CASE LogEnded
    BY <1>1, <2>26, TasksNext DEF LogEnded, Return, Fresh, FreshOn, tokVars, wakeVars, envVars,
      Turns, InTurn, Working
  <2>27. CASE LoseOne
    <3>1. /\ UNCHANGED watched /\ st'.turn = st.turn /\ pc' \notin InTurn
          /\ pc' \in {"down", "losing", "opening"} => watched = {}
      BY <1>1, <2>27, TasksNext DEF LoseOne, Lost, wakeVars, Turns, InTurn, Working
    <3>2. QED
      BY <1>1, <3>1, TurnsOut
  <2>28. CASE LoggedOpen
    BY <1>1, <2>28, TasksNext DEF LoggedOpen, Goto, Log, tokVars, wakeVars, envVars, Turns, InTurn,
      Working
  <2>29. CASE OpenApply
    <3> DEFINE s == IF batch = <<>> THEN st ELSE Apply(st, batch[1])
    <3>1. batch = <<>> \/ \E i \in Item : batch = <<i>>
      BY <2>29 DEF Single, OpenApply
    <3>2. /\ (st' = s \/ st' = WithStatus(s, "running")) /\ pc' = "out" /\ UNCHANGED watched
      BY <2>29 DEF OpenApply, Return, Fresh, FreshOn, wakeVars
    <3>3. st'.turn = st.turn
      <4>1. CASE batch = <<>>
        BY <3>2, <4>1, TasksNext
      <4>2. ASSUME NEW i \in Item, batch = <<i>>
            PROVE  st'.turn = st.turn
        <5>1. st' = Apply(st, i) \/ st' = WithStatus(Apply(st, i), "running")
          BY <3>2, <4>2
        <5>2. QED
          BY <5>1, ApplyTasks, TasksNext
      <4>3. QED
        BY <3>1, <4>1, <4>2
    <3>4. QED
      BY <1>1, <3>2, <3>3, TurnsOut DEF InTurn, Working
  <2>30. QED
    BY <1>2, <2>1, <2>2, <2>3, <2>4, <2>6, <2>7, <2>8, <2>9, <2>10, <2>12, <2>13, <2>14,
      <2>15, <2>16, <2>17, <2>18, <2>19, <2>20, <2>21, <2>22, <2>23, <2>24, <2>25, <2>26, <2>27,
      <2>28, <2>29, <2>5, <2>11 DEF LoopStep
<1>3. CASE Reply
  <2>1. CASE ModelAnswers
    BY <1>1, <2>1, TasksNext DEF ModelAnswers, Fired, Goto, tokVars, wakeVars, logVars, envVars,
      Turns, InTurn, Working
  <2>2. CASE LaunchFails
    BY <1>1, <2>2, TasksNext DEF LaunchFails, wakeVars, logVars, envVars,
      Turns, InTurn, Working
  <2>3. CASE ToolWatches
    <3>1. /\ pc = "invoke" /\ watched' = watched \cup {ThisTask} /\ UNCHANGED <<st, pc, cur, snap>>
      BY <2>3 DEF ToolWatches, loopVars
    <3>2. ThisTask[1] = st.turn /\ ThisTask[2] = cur /\ st.turn \in Nat /\ cur \in Nat
      BY <3>1, ThisTaskFacts, TasksNext
    <3>3. QED
      BY <1>1, <3>1, <3>2 DEF Turns, InTurn, Working
  <2>4. CASE ToolReturns
    BY <1>1, <2>4, TasksNext DEF ToolReturns, Fired, logVars, envVars, Turns, InTurn, Working
  <2>5. CASE TurnFails
    BY <1>1, <2>5, TasksNext DEF TurnFails, Fired, Leave, Goto, child_token, wakeVars, logVars,
      envVars, Turns, InTurn, Working
  <2>6. CASE MidTurnCompaction
    BY <1>1, <2>6, TasksNext DEF MidTurnCompaction, Fired, Outside, Checkpoint, loopVars, tokVars,
      wakeVars, Turns, InTurn, Working
  <2>7. QED
    BY <1>3, <2>1, <2>3, <2>4, <2>5, <2>6, <2>2 DEF Reply
<1>4. CASE Fault
  BY <1>4, FaultCounted
<1>5. CASE Caller
  <2>1. CASE Run
    BY <1>1, <2>1, TasksNext DEF Run, Goto, tokVars, wakeVars, logVars, envVars, Turns, InTurn,
      Working
  <2>2. CASE Suspend
    <3>1. /\ UNCHANGED watched /\ st'.turn = st.turn /\ pc' \notin InTurn
          /\ pc' \in {"down", "losing", "opening"} => watched = {}
      BY <2>2, TasksNext DEF Suspend, FreshOn, wakeVars, InTurn, Working
    <3>2. QED
      BY <1>1, <3>1, TurnsOut
  <2>3. CASE Resume
    BY <1>1, <2>3, TasksNext DEF Resume, Log, tokVars, wakeVars, Turns, InTurn, Working
  <2>4. CASE Compact
    BY <1>1, <2>4, TasksNext DEF Compact, Outside, Checkpoint, loopVars, tokVars, wakeVars, Turns,
      InTurn, Working
  <2>5. CASE End
    BY <1>1, <2>5, TasksNext DEF End, Outside, Goto, logVars, Turns, InTurn, Working
  <2>6. QED
    BY <1>5, <2>1, <2>2, <2>3, <2>4, <2>5 DEF Caller
<1>6. CASE Handle \/ Waker
  BY <1>1, <1>6, HandleKeeps DEF loopVars, Turns
<1>7. CASE Process
  <2>1. CASE Die
    BY <1>1, <2>1, TasksNext DEF Die, Fresh, FreshOn, Turns, InTurn, Working
  <2>2. CASE Open
    BY <1>1, <2>2, TasksNext DEF Open, tokVars, wakeVars, Turns, InTurn, Working
  <2>3. QED
    BY <1>7, <2>1, <2>2 DEF Process
<1>8. QED
  BY <1>2, <1>3, <1>4, <1>5, <1>6, <1>7 DEF Next

\* A step that opens no task and loses nothing that an open one waits for.
LEMMA WaitingKept ==
    ASSUME Waiting, pc # "ending", UNCHANGED watched, pc' \notin {"invoke", "after"},
           open_tasks(st') \subseteq open_tasks(st), st'.waker = st.waker,
           \A t \in open_tasks(st') : Waits(t) => Waits(t)'
    PROVE  Waiting'
  BY DEF Waiting

\* No task is open before the first turn and after the end, and the task of the
\* call in hand is not.
LEMMA NoneOpen ==
    ASSUME KernelInv
    PROVE  /\ st.status \in {"created", "done"} => open_tasks(st) = {}
           /\ pc \in {"tool", "launch", "invoke", "after"} => ThisTask \notin open_tasks(st) /\ st.status = "running"
<1>1. st.status \in {"created", "done"} => open_tasks(st) = {}
  BY DEF KernelInv, Good, open_tasks, NoTasks
<1>2. pc \in {"tool", "launch", "invoke", "after"} => ThisTask \notin open_tasks(st)
  BY ThisTaskFacts DEF open_tasks
<1>3. pc \in {"tool", "launch", "invoke", "after"} => st.status = "running"
  BY DEF KernelInv, Shape, Working
<1>4. QED
  BY <1>1, <1>2, <1>3

\* The call in hand is not watched before its tool runs.
LEMMA NotWatchedYet ==
    ASSUME KernelInv, Turns, pc \in {"tool", "launch"}
    PROVE  ThisTask \notin watched
<1>1. ThisTask[1] = st.turn /\ ThisTask[2] = cur /\ cur \in Nat
  BY ThisTaskFacts, TasksNext
<1>2. QED
  BY <1>1 DEF Turns

\* Every action keeps what the open tasks wait for, unless the log refuses.
LEMMA WaitingNext ==
    ASSUME KernelInv, Single, Turns, Waiting, Next, faults' = 0
    PROVE  Waiting'
<1>1. Waiting /\ Turns /\ Collections /\ Shape
  BY DEF KernelInv
<1>2. CASE LoopStep
  <2>1. CASE TakeBatch
    <3>1. /\ pc # "ending" /\ UNCHANGED <<watched, wakers, firing, st>> /\ pc' \notin {"invoke", "after"}
          /\ batch' = inbox /\ batch = <<>>
      BY <1>1, <2>1 DEF TakeBatch, wakeVars, Shape
    <3>2. \A x : ~ In(batch, x)
      BY <3>1, InQueue
    <3>3. QED
      BY <1>1, <3>1, <3>2, WaitingKept DEF Waits
  <2>2. CASE ApplyBatched
    <3> DEFINE i == Head(batch)
    <3>1. batch # <<>> /\ i \in Item /\ st \in State /\ batch \in Seq(Item)
      BY <1>1, <2>2, Items DEF ApplyBatched, Collections, KernelInv, Good
    <3>2. /\ st' = Apply(st, i) /\ batch' = Tail(batch) /\ wakers' = wakers \ Aborts(st, i)
          /\ UNCHANGED <<inbox, watched, firing, pc>> /\ pc \in {"batch", "drain"}
      BY <2>2 DEF ApplyBatched, Take
    <3>3. /\ open_tasks(st') = open_tasks(st) \ Names(i) /\ Aborts(st, i) \subseteq Names(i)
          /\ st'.waker = st.waker
      BY <3>1, <3>2, ApplyTasks
    <3>4. \A x : In(batch, x) => x = i \/ In(batch', x)
      BY <3>1, <3>2, InQueue
    <3>5. \A t : t \notin Names(i) => i # <<"final", t>> /\ i # <<"cancel", t>>
      BY DEF Names
    <3> HIDE DEF i
    <3>6. \A t \in open_tasks(st') : Waits(t) => Waits(t)'
      BY <3>2, <3>3, <3>4, <3>5 DEF Waits
    <3>7. QED
      BY <1>1, <3>2, <3>3, <3>6, WaitingKept
  <2>3. CASE EndBatch
    <3>1. /\ pc # "ending" /\ UNCHANGED <<watched, wakers, firing, inbox>> /\ pc' \notin {"invoke", "after"}
          /\ open_tasks(st') \subseteq open_tasks(st) /\ st'.waker = st.waker /\ batch' = batch
      BY <1>1, <2>3, TasksNext DEF EndBatch, Fresh, FreshOn, wakeVars
    <3>2. QED
      BY <1>1, <3>1, WaitingKept DEF Waits
  <2>4. CASE StartTurn
    <3>1. /\ pc # "ending" /\ UNCHANGED <<watched, wakers, firing, inbox>> /\ pc' \notin {"invoke", "after"}
          /\ open_tasks(st') \subseteq open_tasks(st) /\ st'.waker = st.waker /\ batch' = batch
      BY <1>1, <2>4, TurnFields DEF StartTurn, wakeVars, open_tasks
    <3>2. QED
      BY <1>1, <3>1, WaitingKept DEF Waits
  <2>5. CASE LogRequest
    BY <1>1, <2>5, TasksNext DEF LogRequest, Fired, Goto, Log, tokVars, wakeVars, envVars, Waiting,
      Waits, Shape
  <2>6. CASE SendRequest
    BY <1>1, <2>6, TasksNext DEF SendRequest, Fired, Goto, logVars, tokVars, wakeVars, envVars, Waiting,
      Waits, Shape
  <2>7. CASE AfterModel
    <3>1. /\ pc # "ending" /\ UNCHANGED <<watched, wakers, firing, inbox>> /\ pc' \notin {"invoke", "after"}
          /\ open_tasks(st') \subseteq open_tasks(st) /\ st'.waker = st.waker /\ batch' = batch
      BY <1>1, <2>7, AssistantFields DEF AfterModel, wakeVars, open_tasks
    <3>2. QED
      BY <1>1, <3>1, WaitingKept DEF Waits
  <2>8. CASE CheckPoint
    BY <1>1, <2>8, TasksNext DEF CheckPoint, Cancelled, Fired, Leave, Goto, child_token, wakeVars,
      logVars, envVars, Waiting, Waits, Shape
  <2>9. CASE Unregistered
    <3>1. /\ pc = "tool" /\ UNCHANGED <<watched, wakers, firing, inbox, batch>> /\ pc' \in {"drain", "tool"}
          /\ st' = WithOutput("value")
      BY <2>9 DEF Unregistered, AppendOutput, wakeVars
    <3>2. st'.tasks = st.tasks /\ st'.waker = st.waker
      BY <3>1, WithOutputFields
    <3>3. QED
      BY <1>1, <3>1, <3>2, WaitingKept DEF Waits, open_tasks
  <2>10. CASE Replaced
    <3>1. pc = "tool" /\ pc' = "after" /\ UNCHANGED <<st, cur, wakers, firing, watched, inbox, batch>>
      BY <2>10 DEF Replaced, wakeVars
    <3>2. QED
      BY <1>1, <3>1, NotWatchedYet DEF Waiting, Waits, ThisTask
  <2>11. CASE LogCall
    <3>1. pc = "tool" /\ pc' = "launch" /\ UNCHANGED <<st, cur, wakers, firing, watched, inbox, batch>>
      BY <2>11 DEF LogCall, Goto, wakeVars
    <3>2. QED
      BY <1>1, <3>1, NotWatchedYet DEF Waiting, Waits, ThisTask
  <2>12. CASE Invoke
    <3>1. pc = "launch" /\ pc' = "invoke" /\ UNCHANGED <<st, cur, wakers, firing, watched, inbox, batch>>
      BY <2>12 DEF Invoke, Goto, wakeVars
    <3>2. QED
      BY <1>1, <3>1, NotWatchedYet DEF Waiting, Waits, ThisTask
  <2>13. CASE ToolCancelled
    <3>1. /\ pc \in {"launch", "invoke"} /\ wakers' = wakers \ {ThisTask}
          /\ UNCHANGED <<st, inbox, batch, firing, watched>>
          /\ pc' = "cancel" \/ (pc' = "after" /\ out' = "cancelled")
      BY <2>13 DEF ToolCancelled, Leave, Goto
    <3>2. ThisTask \notin open_tasks(st)
      BY <3>1, NoneOpen
    <3>3. QED
      BY <1>1, <3>1, <3>2 DEF Waiting, Waits
  <2>14. CASE AfterTool
    <3>1. /\ pc = "after" /\ UNCHANGED <<watched, wakers, firing, inbox, batch>> /\ pc' \in {"drain", "tool"}
          /\ st' = WithOutput(out)
      BY <2>14 DEF AfterTool, AppendOutput, wakeVars
    <3>2. /\ st'.tasks = IF out = "task" THEN [st.tasks EXCEPT ![ThisTask] = "open"] ELSE st.tasks
          /\ st'.waker = IF out = "task" /\ ThisTask \in watched THEN st.waker \cup {ThisTask} ELSE st.waker
      BY <3>1, WithOutputFields
    <3>3. st.tasks \in [Task -> {"none", "open", "finished", "cancelled"}]
      BY StateFields DEF KernelInv, Good
    <3>4. \A t \in open_tasks(st') : t \in open_tasks(st) \/ (t = ThisTask /\ out = "task")
      BY <3>2, <3>3 DEF open_tasks
    <3>5. \A t \in st'.waker : t \in st.waker \/ t = ThisTask
      BY <3>2
    <3>6. ThisTask \notin open_tasks(st)
      BY <3>1, NoneOpen
    <3>7. ASSUME NEW t \in open_tasks(st') \cap st'.waker \cap watched'
          PROVE  Waits(t)
      BY <1>1, <3>1, <3>4, <3>5, <3>6 DEF Waiting
    <3>8. \A t : Waits(t) => Waits(t)'
      BY <3>1 DEF Waits
    <3>9. QED
      BY <3>1, <3>7, <3>8 DEF Waiting
  <2>15. CASE DrainOne
    <3> DEFINE i == Head(inbox)
    <3>1. inbox # <<>> /\ i \in Item /\ st \in State /\ inbox \in Seq(Item)
      BY <1>1, <2>15, Items DEF DrainOne, Collections, KernelInv, Good
    <3>2. /\ st' = Apply(st, i) /\ inbox' = Tail(inbox) /\ wakers' = wakers \ Aborts(st, i)
          /\ UNCHANGED <<batch, watched, firing, pc>> /\ pc \in {"batch", "drain"}
      BY <2>15 DEF DrainOne, Take
    <3>3. /\ open_tasks(st') = open_tasks(st) \ Names(i) /\ Aborts(st, i) \subseteq Names(i)
          /\ st'.waker = st.waker
      BY <3>1, <3>2, ApplyTasks
    <3>4. \A x : In(inbox, x) => x = i \/ In(inbox', x)
      BY <3>1, <3>2, InQueue
    <3>5. \A t : t \notin Names(i) => i # <<"final", t>> /\ i # <<"cancel", t>>
      BY DEF Names
    <3> HIDE DEF i
    <3>6. \A t \in open_tasks(st') : Waits(t) => Waits(t)'
      BY <3>2, <3>3, <3>4, <3>5 DEF Waits
    <3>7. QED
      BY <1>1, <3>2, <3>3, <3>6, WaitingKept
  <2>16. CASE TurnEnd
    <3>1. /\ pc # "ending" /\ UNCHANGED <<watched, wakers, firing, inbox>> /\ pc' \notin {"invoke", "after"}
          /\ open_tasks(st') \subseteq open_tasks(st) /\ st'.waker = st.waker /\ batch' = batch
      BY <1>1, <2>16, TasksNext DEF TurnEnd, Drained, NextStatus, Goto, Fresh, FreshOn, wakeVars, Shape
    <3>2. QED
      BY <1>1, <3>1, WaitingKept DEF Waits
  <2>17. CASE LogSuspended
    <3>1. /\ pc # "ending" /\ UNCHANGED <<watched, wakers, firing, inbox>> /\ pc' \notin {"invoke", "after"}
          /\ open_tasks(st') \subseteq open_tasks(st) /\ st'.waker = st.waker /\ batch' = batch
      BY <1>1, <2>17, TasksNext DEF LogSuspended, Return, Fresh, FreshOn, wakeVars, Shape
    <3>2. QED
      BY <1>1, <3>1, WaitingKept DEF Waits
  <2>18. CASE CancelTurnBody
    <3>1. /\ pc = "cancel" /\ pc' = "drain" /\ wakers' = wakers \ Unanswered(calls)
          /\ UNCHANGED <<inbox, firing, watched>> /\ batch' = batch
      BY <1>1, <2>18 DEF CancelTurnBody, FreshOn, Shape
    <3>2. calls \in (cur - 1) .. calls
      BY <3>1 DEF KernelInv, Locals, Shape
    <3>3. st'.tasks = st.tasks /\ st'.waker = st.waker
      BY <2>18, <3>2, AnswerFacts DEF CancelTurnBody
    <3>4. \A t \in open_tasks(st) : t \notin Unanswered(calls)
      <4>1. ASSUME NEW i \in cur .. calls, <<st.turn, i>> \in Task
            PROVE  st.tasks[<<st.turn, i>>] = "none"
        BY <3>1, <4>1 DEF KernelInv, Locals, Unstarted, Working
      <4>2. QED
        BY <4>1 DEF Unanswered, open_tasks
    <3>5. open_tasks(st') = open_tasks(st)
      BY <3>3 DEF open_tasks
    <3>6. QED
      BY <1>1, <3>1, <3>3, <3>4, <3>5, WaitingKept DEF Waits
  <2>19. CASE CancelTurnEnd
    <3>1. /\ pc # "ending" /\ UNCHANGED <<watched, wakers, firing, inbox>> /\ pc' \notin {"invoke", "after"}
          /\ open_tasks(st') \subseteq open_tasks(st) /\ st'.waker = st.waker /\ batch' = batch
      BY <1>1, <2>19, TasksNext DEF CancelTurnEnd, Drained, Return, Fresh, FreshOn, wakeVars, Shape
    <3>2. QED
      BY <1>1, <3>1, WaitingKept DEF Waits
  <2>20. CASE FailTurnBody
    <3>1. /\ pc = "fail" /\ pc' = "drain" /\ wakers' = wakers \ StartedHere /\ st' = snap
          /\ UNCHANGED <<inbox, firing, watched>> /\ batch' = batch
      BY <1>1, <2>20 DEF FailTurnBody, FreshOn, Shape
    <3>2. /\ snap.waker \subseteq st.waker
          /\ \A t \in Task : snap.tasks[t] # "none" => st.tasks[t] = snap.tasks[t]
      BY <1>1, <3>1 DEF Turns, InTurn
    <3>3. \A t \in open_tasks(snap) : t \in open_tasks(st) /\ t \notin StartedHere
      BY <3>2 DEF open_tasks, StartedHere
    <3>4. \A t \in open_tasks(snap) : Waits(t) => Waits(t)'
      BY <3>1, <3>3 DEF Waits
    <3>5. QED
      BY <1>1, <3>1, <3>2, <3>3, <3>4 DEF Waiting
  <2>21. CASE FailTurnEnd
    <3>1. /\ pc # "ending" /\ UNCHANGED <<watched, wakers, firing, inbox>> /\ pc' \notin {"invoke", "after"}
          /\ open_tasks(st') \subseteq open_tasks(st) /\ st'.waker = st.waker /\ batch' = batch
      BY <1>1, <2>21, TasksNext DEF FailTurnEnd, Drained, Goto, wakeVars
    <3>2. QED
      BY <1>1, <3>1, WaitingKept DEF Waits
  <2>22. CASE LogFailed
    <3>1. /\ pc # "ending" /\ UNCHANGED <<watched, wakers, firing, inbox>> /\ pc' \notin {"invoke", "after"}
          /\ open_tasks(st') \subseteq open_tasks(st) /\ st'.waker = st.waker /\ batch' = batch
      BY <1>1, <2>22, TasksNext DEF LogFailed, Return, Fresh, FreshOn, wakeVars, Shape
    <3>2. QED
      BY <1>1, <3>1, WaitingKept DEF Waits
  <2>23. CASE ResumeApply
    <3>1. /\ pc = "resuming" /\ pc' = "out" /\ UNCHANGED <<inbox, firing, watched>> /\ batch' = <<>>
          /\ st' = Resumed /\ wakers' = wakers \ ResumeAborts
      BY <2>23 DEF ResumeApply, Return, Fresh, FreshOn
    <3>2. batch = <<>> \/ \E i \in Item : batch = <<i>>
      BY <3>1 DEF Single
    <3>3. CASE batch = <<>>
      <4>1. st' = WithStatus(st, "running") /\ wakers' = wakers
        BY <3>1, <3>3 DEF Resumed, ResumeAborts
      <4>2. open_tasks(st') = open_tasks(st) /\ st'.waker = st.waker
        BY <4>1, TasksNext
      <4>3. QED
        BY <1>1, <3>1, <3>3, <4>1, <4>2, WaitingKept DEF Waits
    <3>4. ASSUME NEW i \in Item, batch = <<i>>
          PROVE  Waiting'
      <4>1. st' = WithStatus(Apply(st, i), "running") /\ wakers' = wakers \ Aborts(st, i) /\ st \in State
        BY <3>1, <3>4 DEF Resumed, ResumeAborts, KernelInv, Good
      <4>2. /\ open_tasks(st') = open_tasks(st) \ Names(i) /\ st'.waker = st.waker
            /\ Aborts(st, i) \subseteq Names(i)
        BY <4>1, ApplyTasks, TasksNext
      <4>3. \A x : In(batch, x) <=> x = i
        BY <3>4, InQueue
      <4>4. \A t : t \notin Names(i) => i # <<"final", t>> /\ i # <<"cancel", t>>
        BY DEF Names
      <4>5. \A t \in open_tasks(st') : Waits(t) => Waits(t)'
        BY <3>1, <4>1, <4>2, <4>3, <4>4 DEF Waits
      <4>6. QED
        BY <1>1, <3>1, <4>2, <4>5, WaitingKept
    <3>5. QED
      BY <3>2, <3>3, <3>4
  <2>24. CASE EndOne
    BY <1>1, <2>24, TasksNext DEF EndOne, Log, loopVars, tokVars, wakeVars, envVars, Waiting, Waits,
      Shape
  <2>25. CASE EndCommit
    <3>1. open_tasks(st) = {} /\ pc' = "ended"
      BY <2>25 DEF EndCommit, Goto
    <3>2. open_tasks(st') = {}
      BY <2>25, <3>1, TasksNext DEF EndCommit
    <3>3. QED
      BY <3>1, <3>2 DEF Waiting
  <2>26. CASE LogEnded
    <3>1. /\ pc # "ending" /\ UNCHANGED <<watched, wakers, firing, inbox>> /\ pc' \notin {"invoke", "after"}
          /\ open_tasks(st') \subseteq open_tasks(st) /\ st'.waker = st.waker /\ batch' = batch
      BY <1>1, <2>26, TasksNext DEF LogEnded, Return, Fresh, FreshOn, wakeVars, Shape
    <3>2. QED
      BY <1>1, <3>1, WaitingKept DEF Waits
  <2>27. CASE LoseOne
    <3>1. watched = {} /\ UNCHANGED watched /\ pc' \notin {"invoke", "after"}
      BY <1>1, <2>27 DEF LoseOne, wakeVars, Turns
    <3>2. QED
      BY <3>1 DEF Waiting
  <2>28. CASE LoggedOpen
    <3>1. watched = {} /\ UNCHANGED watched /\ pc' \notin {"invoke", "after"}
      BY <1>1, <2>28 DEF LoggedOpen, Goto, wakeVars, Turns
    <3>2. QED
      BY <3>1 DEF Waiting
  <2>29. CASE OpenApply
    <3>1. watched = {} /\ UNCHANGED watched /\ pc' \notin {"invoke", "after"}
      BY <1>1, <2>29 DEF OpenApply, Return, Fresh, FreshOn, wakeVars, Turns
    <3>2. QED
      BY <3>1 DEF Waiting
  <2>30. QED
    BY <1>2, <2>1, <2>2, <2>3, <2>4, <2>6, <2>7, <2>8, <2>9, <2>10, <2>12, <2>13, <2>14,
      <2>15, <2>16, <2>17, <2>18, <2>19, <2>20, <2>21, <2>22, <2>23, <2>24, <2>25, <2>26, <2>27,
      <2>28, <2>29, <2>5, <2>11 DEF LoopStep
<1>3. CASE Reply
  <2>1. CASE ModelAnswers
    BY <1>1, <2>1, TasksNext DEF ModelAnswers, Fired, Goto, tokVars, wakeVars, logVars, envVars,
      Waiting, Waits, Shape
  <2>2. CASE LaunchFails
    BY <1>1, <2>2, TasksNext DEF LaunchFails, wakeVars, logVars, envVars,
      Waiting, Waits, Shape
  <2>3. CASE ToolWatches
    <3>1. /\ pc = "invoke" /\ wakers' = wakers \cup {ThisTask} /\ watched' = watched \cup {ThisTask}
          /\ UNCHANGED <<st, pc, cur, inbox, batch, firing>>
      BY <2>3 DEF ToolWatches, loopVars
    <3>2. ThisTask' = ThisTask /\ \A t : Waits(t) \/ t = ThisTask => Waits(t)'
      BY <3>1 DEF Waits, ThisTask
    <3>3. QED
      BY <1>1, <3>1, <3>2 DEF Waiting
  <2>4. CASE ToolReturns
    <3>1. PICK o : /\ pc = "invoke" /\ pc' = "after" /\ out' = o
                   /\ wakers' = IF o = "task" THEN wakers ELSE wakers \ {ThisTask}
      BY <2>4 DEF ToolReturns
    <3>2. UNCHANGED <<st, cur, inbox, batch, firing, watched>>
      BY <2>4 DEF ToolReturns
    <3>3. ThisTask \notin open_tasks(st) /\ ThisTask' = ThisTask
      BY <3>1, <3>2, NoneOpen DEF ThisTask
    <3>4. \A t : t # ThisTask \/ o = "task" => (Waits(t) => Waits(t)')
      BY <3>1, <3>2 DEF Waits
    <3>5. QED
      BY <1>1, <3>1, <3>2, <3>3, <3>4 DEF Waiting
  <2>5. CASE TurnFails
    BY <1>1, <2>5, TasksNext DEF TurnFails, Fired, Leave, Goto, child_token, wakeVars, logVars,
      envVars, Waiting, Waits, Shape
  <2>6. CASE MidTurnCompaction
    BY <1>1, <2>6, TasksNext DEF MidTurnCompaction, Fired, Outside, Checkpoint, loopVars, tokVars,
      wakeVars, Waiting, Waits, Shape
  <2>7. QED
    BY <1>3, <2>1, <2>3, <2>4, <2>5, <2>6, <2>2 DEF Reply
<1>4. CASE Fault
  BY <1>4, FaultCounted
<1>5. CASE Caller
  <2>1. CASE Run
    BY <1>1, <2>1, TasksNext DEF Run, Goto, tokVars, wakeVars, logVars, envVars, Waiting, Waits,
      Shape
  <2>2. CASE Suspend
    <3>1. /\ pc # "ending" /\ UNCHANGED <<watched, wakers, firing, inbox>> /\ pc' \notin {"invoke", "after"}
          /\ open_tasks(st') \subseteq open_tasks(st) /\ st'.waker = st.waker /\ batch' = batch
      BY <1>1, <2>2, TasksNext DEF Suspend, FreshOn, wakeVars, Shape
    <3>2. QED
      BY <1>1, <3>1, WaitingKept DEF Waits
  <2>3. CASE Resume
    <3>1. /\ pc = "out" /\ pc' = "resuming" /\ UNCHANGED <<st, wakers, firing, watched, inbox>>
      BY <2>3 DEF Resume, wakeVars
    <3>2. \A x : ~ In(batch, x)
      BY <1>1, <3>1, InQueue DEF Shape
    <3>3. QED
      BY <1>1, <3>1, <3>2, WaitingKept DEF Waits
  <2>4. CASE Compact
    BY <1>1, <2>4, TasksNext DEF Compact, Outside, Checkpoint, loopVars, tokVars, wakeVars, Waiting,
      Waits, Shape
  <2>5. CASE End
    BY <1>1, <2>5, TasksNext DEF End, Outside, Goto, logVars, Waiting, Waits, Shape
  <2>6. QED
    BY <1>5, <2>1, <2>2, <2>3, <2>4, <2>5 DEF Caller
<1>6. CASE Handle \/ Waker
  <2>1. UNCHANGED <<st, pc, cur, out, batch, watched>>
    BY <1>6, HandleKeeps DEF loopVars
  <2>2. ASSUME \A t \in Task : Waits(t) => Waits(t)'
        PROVE  Waiting'
    BY <1>1, <2>1, <2>2 DEF Waiting, ThisTask, Collections, open_tasks
  <2>3. ASSUME NEW i \in Item, Send(i)
        PROVE  \A x : In(inbox', x) <=> In(inbox, x) \/ x = i
    BY <1>1, <2>3, InQueue DEF Send, Collections
  <2>4. \A t \in Task, k \in {"progress", "final", "bad", "cancel"} : <<k, t>> \in Item
    BY Items
  <2>5. CASE EnqueueUserMessage
    <3>1. PICK u \in unsent : Send(<<"user", u>>)
      BY <2>5 DEF EnqueueUserMessage
    <3>2. <<"user", u>> \in Item
      BY <1>1, Items DEF Collections
    <3>3. UNCHANGED <<wakers, firing>>
      BY <2>5 DEF EnqueueUserMessage, wakeVars
    <3>4. QED
      BY <2>1, <2>2, <2>3, <3>1, <3>2, <3>3 DEF Waits
  <2>6. CASE CancelTurn \/ CancelTool
    BY <2>1, <2>2, <2>6 DEF CancelTurn, CancelTool, wakeVars, Waits
  <2>7. CASE CancelTask
    <3>1. PICK t \in Task : /\ wakers' = wakers \ {t} /\ UNCHANGED firing
                            /\ IF st.status # "done" THEN Send(<<"cancel", t>>) ELSE UNCHANGED inbox
      BY <1>1, <2>7 DEF CancelTask, Collections
    <3>2. CASE st.status = "done"
      BY <2>1, <3>2, NoneOpen DEF Waiting
    <3>3. CASE st.status # "done"
      <4>1. \A x : In(inbox', x) <=> In(inbox, x) \/ x = <<"cancel", t>>
        BY <2>3, <2>4, <3>1, <3>3
      <4>2. QED
        BY <2>1, <2>2, <3>1, <4>1 DEF Waits
    <3>4. QED
      BY <3>2, <3>3
  <2>8. CASE DeliverTaskUpdate
    <3>1. PICK t \in Task, k \in {"progress", "final", "bad"} : Send(<<k, t>>)
      BY <2>8 DEF DeliverTaskUpdate
    <3>2. UNCHANGED <<wakers, firing>>
      BY <2>8 DEF DeliverTaskUpdate, wakeVars
    <3>3. QED
      BY <2>1, <2>2, <2>3, <2>4, <3>1, <3>2 DEF Waits
  <2>9. ASSUME NEW t \in Task, WakerResolves(t)
        PROVE  Waiting'
    BY <2>1, <2>2, <2>9 DEF WakerResolves, Waits
  <2>10. ASSUME NEW t \in Task, WakerDelivers(t)
         PROVE  Waiting'
    <3>1. /\ firing' = firing \ {t} /\ UNCHANGED wakers
          /\ IF st.status \in {"done", "created"} THEN UNCHANGED inbox ELSE Send(<<"final", t>>)
      BY <2>10 DEF WakerDelivers
    <3>2. CASE st.status \in {"done", "created"}
      BY <2>1, <3>2, NoneOpen DEF Waiting
    <3>3. CASE st.status \notin {"done", "created"}
      <4>1. \A x : In(inbox', x) <=> In(inbox, x) \/ x = <<"final", t>>
        BY <2>3, <2>4, <3>1, <3>3
      <4>2. QED
        BY <2>1, <2>2, <3>1, <4>1 DEF Waits
    <3>4. QED
      BY <3>2, <3>3
  <2>11. QED
    BY <1>6, <2>5, <2>6, <2>7, <2>8, <2>9, <2>10 DEF Handle, Waker
<1>7. CASE Process
  <2>1. CASE Die
    BY <1>1, <2>1, TasksNext DEF Die, Fresh, FreshOn, Waiting, Waits, Shape
  <2>2. CASE Open
    <3>1. watched = {} /\ UNCHANGED watched /\ pc' \notin {"invoke", "after"}
      BY <1>1, <2>2 DEF Open, wakeVars, Turns
    <3>2. QED
      BY <3>1 DEF Waiting
  <2>3. QED
    BY <1>7, <2>1, <2>2 DEF Process
<1>8. QED
  BY <1>2, <1>3, <1>4, <1>5, <1>6, <1>7 DEF Next

-----------------------------------------------------------------------------
(* The turns that have a response *)

TurnsIn(s) == {n \in 0 .. MaxTurns : \E i \in DOMAIN s.msgs : s.msgs[i][1] = "assistant" /\ s.msgs[i][2] = n}

\* Only turns that have begun have a response.
Begun(s) == \A n \in TurnsIn(s) : n <= s.turn

\* States with the same messages hold the same responses.
LEMMA TurnsSame ==
    ASSUME NEW s, NEW z, s.msgs = z.msgs
    PROVE  TurnsIn(s) = TurnsIn(z)
  BY DEF TurnsIn

\* A push adds a response if it is one.
LEMMA TurnsPush ==
    ASSUME NEW s \in State, NEW z, NEW x \in Msg, z.msgs = Append(s.msgs, x)
    PROVE  /\ \A n \in TurnsIn(z) : n \in TurnsIn(s) \/ (x[1] = "assistant" /\ x[2] = n)
           /\ TurnsIn(s) \subseteq TurnsIn(z)
<1> DEFINE m == s.msgs
           k == Append(m, x)
<1>1. m \in Seq(Msg)
  BY StateFields
<1> HIDE DEF m
<1>2. /\ DOMAIN m = 1 .. Len(m) /\ DOMAIN k = 1 .. Len(m) + 1 /\ Len(m) \in Nat
      /\ k[Len(m) + 1] = x /\ \A i \in 1 .. Len(m) : k[i] = m[i]
  BY <1>1
<1> HIDE DEF k
<1>3. \A i \in DOMAIN k : (i \in DOMAIN m /\ k[i] = m[i]) \/ k[i] = x
  BY <1>2
<1>4. \A i \in DOMAIN m : i \in DOMAIN k /\ k[i] = m[i]
  BY <1>2
<1>5. TurnsIn(z) = {n \in 0 .. MaxTurns : \E i \in DOMAIN k : k[i][1] = "assistant" /\ k[i][2] = n}
  BY DEF TurnsIn, k, m
<1>6. TurnsIn(s) = {n \in 0 .. MaxTurns : \E i \in DOMAIN m : m[i][1] = "assistant" /\ m[i][2] = n}
  BY DEF TurnsIn, m
<1>7. QED
  BY <1>3, <1>4, <1>5, <1>6

\* ... and none if it is another message.
LEMMA TurnsPushOther ==
    ASSUME NEW s \in State, NEW z, NEW x \in Msg, z.msgs = Append(s.msgs, x), x[1] # "assistant"
    PROVE  TurnsIn(z) = TurnsIn(s)
<1>1. TurnsIn(s) \subseteq TurnsIn(z) /\ \A n \in TurnsIn(z) : n \in TurnsIn(s)
  BY TurnsPush
<1>2. QED
  BY <1>1

\* Closing a task, the output of a call and the synthetic answers of a
\* cancelled turn are no responses.
LEMMA TurnsClose ==
    ASSUME NEW s \in State, NEW t \in Task, NEW how \in Closed
    PROVE  TurnsIn(Close(s, t, how)) = TurnsIn(s)
<1>1. Close(s, t, how).msgs = Append(s.msgs, <<"result", t>>)
  BY CloseFields
<1>2. <<"result", t>> \in Msg /\ <<"result", t>>[1] # "assistant"
  BY DEF Msg
<1>3. QED
  BY <1>1, <1>2, TurnsPushOther

LEMMA TurnsOutput ==
    ASSUME KernelInv, pc \in {"tool", "launch", "invoke", "after"}, NEW o
    PROVE  TurnsIn(WithOutput(o)) = TurnsIn(st)
<1>1. WithOutput(o).msgs = Append(st.msgs, <<"tool", ThisTask>>)
  BY WithOutputFields
<1>2. <<"tool", ThisTask>> \in Msg /\ <<"tool", ThisTask>>[1] # "assistant"
  BY ThisTaskFacts DEF Msg
<1>3. st \in State
  BY DEF KernelInv, Good
<1>4. QED
  BY <1>1, <1>2, <1>3, TurnsPushOther

LEMMA TurnsAnswer ==
    ASSUME KernelInv, pc = "cancel", AnswerUpTo(calls)
    PROVE  TurnsIn(st') = TurnsIn(st)
<1> DEFINE m == st.msgs
           k == Answers(calls)
           n == m \o k
<1>1. calls \in (cur - 1) .. calls
  BY DEF KernelInv, Locals, Shape
<1>2. k \in Seq(Msg) /\ st'.msgs = n /\ m \in Seq(Msg)
  BY <1>1, AnswerFacts, StateFields DEF KernelInv, Good
<1>3. \A i \in DOMAIN k : k[i][1] # "assistant"
  BY DEF Answers
<1> HIDE DEF m, k
<1>4. /\ DOMAIN m = 1 .. Len(m) /\ DOMAIN n = 1 .. Len(m) + Len(k)
      /\ Len(m) \in Nat /\ Len(k) \in Nat /\ DOMAIN k = 1 .. Len(k)
      /\ \A i \in 1 .. Len(m) + Len(k) : n[i] = IF i <= Len(m) THEN m[i] ELSE k[i - Len(m)]
  BY <1>2
<1> HIDE DEF n
<1>5. \A i \in DOMAIN n : \/ i \in DOMAIN m /\ n[i] = m[i]
                          \/ i - Len(m) \in DOMAIN k /\ n[i] = k[i - Len(m)]
  BY <1>4
<1>6. \A i \in DOMAIN m : i \in DOMAIN n /\ n[i] = m[i]
  BY <1>4
<1>7. \A t : (\E i \in DOMAIN n : n[i][1] = "assistant" /\ n[i][2] = t)
             <=> \E i \in DOMAIN m : m[i][1] = "assistant" /\ m[i][2] = t
  BY <1>3, <1>5, <1>6
<1>8. TurnsIn(st') = {t \in 0 .. MaxTurns : \E i \in DOMAIN n : n[i][1] = "assistant" /\ n[i][2] = t}
  BY <1>2 DEF TurnsIn
<1>9. TurnsIn(st) = {t \in 0 .. MaxTurns : \E i \in DOMAIN m : m[i][1] = "assistant" /\ m[i][2] = t}
  BY DEF TurnsIn, m
<1>10. QED
  BY <1>7, <1>8, <1>9

\* Nor is input; and an open task that an item closes loses its future.
LEMMA TurnsApply ==
    ASSUME NEW s \in State, NEW i \in Item
    PROVE  /\ Apply(s, i) \in State /\ Apply(s, i).turn = s.turn /\ TurnsIn(Apply(s, i)) = TurnsIn(s)
           /\ \A t \in open_tasks(s) : t \in open_tasks(Apply(s, i)) \/ t \in Aborts(s, i)
<1>1. /\ Apply(s, i) \in State /\ Apply(s, i).turn = s.turn
      /\ open_tasks(Apply(s, i)) = open_tasks(s) \ Names(i)
  BY ApplyTasks
<1>2. CASE i[1] = "user" /\ i[2] \in User /\ i = <<"user", i[2]>> /\ Apply(s, i) = Push(s, i)
  <2>1. i \in Msg /\ i[1] # "assistant" /\ Names(i) = {}
    BY <1>2 DEF Msg, Names
  <2>2. Apply(s, i).msgs = Append(s.msgs, i)
    BY <1>2, <2>1, PushFields
  <2>3. QED
    BY <1>1, <2>1, <2>2, TurnsPushOther
<1>3. CASE /\ i[2] \in open_tasks(s) /\ Aborts(s, i) = {i[2]}
           /\ \E how \in Closed : Apply(s, i) = Close(s, i[2], how)
  <2>1. i[2] \in Task
    BY <1>3 DEF open_tasks
  <2>2. TurnsIn(Apply(s, i)) = TurnsIn(s)
    BY <1>3, <2>1, TurnsClose
  <2>3. Names(i) \subseteq Aborts(s, i)
    BY <1>3 DEF Names
  <2>4. QED
    BY <1>1, <2>2, <2>3
<1>4. CASE Apply(s, i) = s
  BY <1>1, <1>4
<1>5. QED
  BY <1>2, <1>3, <1>4, ApplyCases

\* What the steps do to the responses and to the open tasks.
LEMMA TurnsStates ==
    ASSUME KernelInv
    PROVE  /\ st \in State
           /\ \A x \in {"running", "idle", "suspended", "failed", "done", st.status} :
                 LET z == WithStatus(st, x)
                 IN  z.turn = st.turn /\ TurnsIn(z) = TurnsIn(st) /\ open_tasks(z) = open_tasks(st)
           /\ \A t \in open_tasks(st) :
                 LET z == cancel_task_in_state(st, t) IN z.turn = st.turn /\ TurnsIn(z) = TurnsIn(st)
           /\ \A i \in Item :
                 LET a == Apply(st, i)
                     z == WithStatus(a, "running")
                 IN  /\ a.turn = st.turn /\ TurnsIn(a) = TurnsIn(st)
                     /\ z.turn = st.turn /\ TurnsIn(z) = TurnsIn(st) /\ open_tasks(z) = open_tasks(a)
                     /\ \A t \in open_tasks(st) : t \in open_tasks(a) \/ t \in Aborts(st, i)
<1>1. st \in State
  BY DEF KernelInv, Good
<1>2. "running" \in Status /\ "idle" \in Status /\ "suspended" \in Status /\ "failed" \in Status /\ "done" \in Status
  BY DEF Status
<1>3. \A s \in State, x \in Status :
         LET z == WithStatus(s, x)
         IN  z.turn = s.turn /\ TurnsIn(z) = TurnsIn(s) /\ open_tasks(z) = open_tasks(s)
  BY WithStatusFields, TurnsSame DEF open_tasks
<1>4. WithStatus(st, st.status) = st
  BY <1>1, SameStatus
<1>5. ASSUME NEW t \in open_tasks(st)
      PROVE  LET z == cancel_task_in_state(st, t) IN z.turn = st.turn /\ TurnsIn(z) = TurnsIn(st)
  <2>1. t \in Task /\ "cancelled" \in Closed /\ cancel_task_in_state(st, t) = Close(st, t, "cancelled")
    BY CancelOpen DEF open_tasks, Closed
  <2>2. Close(st, t, "cancelled").turn = st.turn /\ TurnsIn(Close(st, t, "cancelled")) = TurnsIn(st)
    BY <1>1, <2>1, CloseFields, TurnsClose
  <2>3. QED
    BY <2>1, <2>2
<1>6. ASSUME NEW i \in Item
      PROVE  LET a == Apply(st, i)
                 z == WithStatus(a, "running")
             IN  /\ a.turn = st.turn /\ TurnsIn(a) = TurnsIn(st)
                 /\ z.turn = st.turn /\ TurnsIn(z) = TurnsIn(st) /\ open_tasks(z) = open_tasks(a)
                 /\ \A t \in open_tasks(st) : t \in open_tasks(a) \/ t \in Aborts(st, i)
  BY <1>1, <1>2, <1>3, TurnsApply
<1>7. \A x \in {"running", "idle", "suspended", "failed", "done", st.status} :
         LET z == WithStatus(st, x)
         IN  z.turn = st.turn /\ TurnsIn(z) = TurnsIn(st) /\ open_tasks(z) = open_tasks(st)
  BY <1>1, <1>2, <1>3, <1>4
<1>8. QED
  BY <1>1, <1>5, <1>6, <1>7

\* A step that changes neither the turn nor the responses, nor the snapshot of a
\* turn that goes on.
Stays ==
    /\ st'.turn = st.turn /\ TurnsIn(st') = TurnsIn(st)
    /\ pc' \in InTurn => pc \in InTurn /\ snap' = snap

\* Such are all actions but those that begin a turn, answer or roll it back,
\* and the death and the start of a process.
LEMMA StaysNext ==
    ASSUME KernelInv, Single, Next, faults' = 0
    PROVE  Stays \/ StartTurn \/ AfterModel \/ FailTurnBody \/ Die \/ Open
<1>1. Collections /\ Shape /\ st \in State
  BY DEF KernelInv, Good
<1>2. CASE LoopStep
  <2>1. CASE TakeBatch
    BY <1>1, <2>1 DEF TakeBatch, wakeVars, Stays, InTurn, Working
  <2>2. CASE ApplyBatched
    <3>1. batch # <<>> /\ Head(batch) \in Item
      BY <1>1, <2>2, Items DEF ApplyBatched, Collections
    <3>2. st' = Apply(st, Head(batch)) /\ UNCHANGED pc /\ pc \in {"batch", "drain"}
      BY <2>2 DEF ApplyBatched, Take
    <3>3. QED
      BY <3>1, <3>2, TurnsStates DEF Stays, InTurn, Working
  <2>3. CASE EndBatch
    BY <1>1, <2>3, TurnsStates DEF EndBatch, Fresh, FreshOn, Stays, InTurn, Working
  <2>4. CASE LogRequest
    BY <1>1, <2>4 DEF LogRequest, Goto, wakeVars, Stays, InTurn, Working
  <2>5. CASE SendRequest
    BY <1>1, <2>5 DEF SendRequest, Goto, wakeVars, Stays, InTurn, Working
  <2>6. CASE CheckPoint
    BY <1>1, <2>6 DEF CheckPoint, Cancelled, Leave, Goto, wakeVars, Stays, InTurn, Working
  <2>7. CASE Unregistered
    <3>1. /\ pc \in {"tool", "after"} /\ UNCHANGED snap /\ \E o : st' = WithOutput(o)
      BY <2>7 DEF Unregistered, AppendOutput
    <3>2. QED
      BY <3>1, TurnsOutput, WithOutputFields DEF Stays, InTurn, Working
  <2>8. CASE Replaced
    BY <1>1, <2>8 DEF Replaced, wakeVars, Stays, InTurn, Working
  <2>9. CASE LogCall
    BY <1>1, <2>9 DEF LogCall, Goto, wakeVars, Stays, InTurn, Working
  <2>10. CASE Invoke
    BY <1>1, <2>10 DEF Invoke, Goto, wakeVars, Stays, InTurn, Working
  <2>11. CASE ToolCancelled
    BY <1>1, <2>11 DEF ToolCancelled, Leave, Goto, wakeVars, Stays, InTurn, Working
  <2>12. CASE AfterTool
    <3>1. /\ pc \in {"tool", "after"} /\ UNCHANGED snap /\ \E o : st' = WithOutput(o)
      BY <2>12 DEF AfterTool, AppendOutput
    <3>2. QED
      BY <3>1, TurnsOutput, WithOutputFields DEF Stays, InTurn, Working
  <2>13. CASE DrainOne
    <3>1. inbox # <<>> /\ Head(inbox) \in Item
      BY <1>1, <2>13, Items DEF DrainOne, Collections
    <3>2. st' = Apply(st, Head(inbox)) /\ UNCHANGED pc /\ pc \in {"batch", "drain"}
      BY <2>13 DEF DrainOne, Take
    <3>3. QED
      BY <3>1, <3>2, TurnsStates DEF Stays, InTurn, Working
  <2>14. CASE TurnEnd
    BY <1>1, <2>14, TurnsStates DEF TurnEnd, NextStatus, Goto, Fresh, FreshOn, Stays, InTurn, Working
  <2>15. CASE LogSuspended
    BY <1>1, <2>15 DEF LogSuspended, Return, Fresh, FreshOn, wakeVars, Stays, InTurn, Working
  <2>16. CASE CancelTurnBody
    <3>1. pc = "cancel" /\ AnswerUpTo(calls) /\ pc' = "drain"
      BY <2>16 DEF CancelTurnBody, FreshOn
    <3>2. calls \in (cur - 1) .. calls
      BY <3>1 DEF KernelInv, Locals, Shape
    <3>3. QED
      BY <3>1, <3>2, AnswerFacts, TurnsAnswer DEF Stays, InTurn, Working
  <2>17. CASE CancelTurnEnd
    BY <1>1, <2>17, TurnsStates DEF CancelTurnEnd, Return, Fresh, FreshOn, Stays, InTurn, Working
  <2>18. CASE FailTurnEnd
    BY <1>1, <2>18, TurnsStates DEF FailTurnEnd, Goto, Stays, InTurn, Working
  <2>19. CASE LogFailed
    BY <1>1, <2>19 DEF LogFailed, Return, Fresh, FreshOn, wakeVars, Stays, InTurn, Working
  <2>20. CASE ResumeApply
    <3> DEFINE s == IF batch = <<>> THEN st ELSE Apply(st, batch[1])
    <3>1. batch = <<>> \/ \E i \in Item : batch = <<i>>
      BY <2>20 DEF Single, ResumeApply
    <3>2. (st' = s \/ st' = WithStatus(s, "running")) /\ pc' = "out"
      BY <2>20 DEF ResumeApply, Resumed, Return, Fresh, FreshOn
    <3>3. CASE batch = <<>>
      BY <3>2, <3>3, TurnsStates DEF Stays, InTurn, Working
    <3>4. ASSUME NEW i \in Item, batch = <<i>>
          PROVE  Stays
      <4>1. st' = Apply(st, i) \/ st' = WithStatus(Apply(st, i), "running")
        BY <3>2, <3>4
      <4>2. QED
        BY <3>2, <4>1, TurnsStates DEF Stays, InTurn, Working
    <3>5. QED
      BY <3>1, <3>3, <3>4
  <2>21. CASE EndOne
    BY <1>1, <2>21, TurnsStates DEF EndOne, loopVars, Stays, InTurn, Working
  <2>22. CASE EndCommit
    BY <1>1, <2>22, TurnsStates DEF EndCommit, Goto, Stays, InTurn, Working
  <2>23. CASE LogEnded
    BY <1>1, <2>23 DEF LogEnded, Return, Fresh, FreshOn, wakeVars, Stays, InTurn, Working
  <2>24. CASE LoseOne
    BY <1>1, <2>24, TurnsStates DEF LoseOne, Lost, Stays, InTurn, Working
  <2>25. CASE LoggedOpen
    BY <1>1, <2>25 DEF LoggedOpen, Goto, wakeVars, Stays, InTurn, Working
  <2>26. CASE OpenApply
    <3> DEFINE s == IF batch = <<>> THEN st ELSE Apply(st, batch[1])
    <3>1. batch = <<>> \/ \E i \in Item : batch = <<i>>
      BY <2>26 DEF Single, OpenApply
    <3>2. (st' = s \/ st' = WithStatus(s, "running")) /\ pc' = "out"
      BY <2>26 DEF OpenApply, Return, Fresh, FreshOn
    <3>3. CASE batch = <<>>
      BY <3>2, <3>3, TurnsStates DEF Stays, InTurn, Working
    <3>4. ASSUME NEW i \in Item, batch = <<i>>
          PROVE  Stays
      <4>1. st' = Apply(st, i) \/ st' = WithStatus(Apply(st, i), "running")
        BY <3>2, <3>4
      <4>2. QED
        BY <3>2, <4>1, TurnsStates DEF Stays, InTurn, Working
    <3>5. QED
      BY <3>1, <3>3, <3>4
  <2>27. QED
    BY <1>2, <2>1, <2>2, <2>3, <2>4, <2>5, <2>6, <2>7, <2>8, <2>9, <2>10, <2>11, <2>12, <2>13, <2>14, <2>15, <2>16, <2>17, <2>18, <2>19, <2>20, <2>21, <2>22, <2>23, <2>24, <2>25, <2>26 DEF LoopStep
<1>3. CASE Reply
  BY <1>1, <1>3 DEF Reply, ModelAnswers, LaunchFails, ToolWatches, ToolReturns, TurnFails, MidTurnCompaction,
    Leave, Goto, loopVars, wakeVars, Stays, InTurn, Working
<1>4. CASE Fault
  BY <1>4, FaultCounted
<1>5. CASE Caller
  <2>1. CASE Suspend
    BY <1>1, <2>1, TurnsStates DEF Suspend, FreshOn, Stays, InTurn, Working
  <2>2. CASE Run \/ Resume \/ Compact \/ End
    BY <1>1, <2>2 DEF Run, Resume, Compact, End, Goto, loopVars, Stays, InTurn, Working
  <2>3. QED
    BY <1>5, <2>1, <2>2 DEF Caller
<1>6. CASE Handle \/ Waker
  BY <1>1, <1>6, HandleKeeps DEF loopVars, Stays
<1>7. QED
  BY <1>2, <1>3, <1>4, <1>5, <1>6 DEF Next, Process

\* What is true of the responses of a state in memory, of a snapshot and of a
\* checkpoint; the turn in hand has none in its snapshot.
Responses ==
    /\ Begun(st) /\ Begun(snap) /\ Begun(ck)
    /\ pc \in InTurn => TurnsIn(snap) \subseteq TurnsIn(st) /\ st.turn \notin TurnsIn(snap)

\* Every action keeps it.
LEMMA ResponsesNext ==
    ASSUME KernelInv, Single, Responses, Next, faults' = 0
    PROVE  Responses'
<1>1. Begun(st) /\ Begun(snap) /\ Begun(ck) /\ st.turn \in Nat
  BY TasksNext DEF Responses
<1>2. Begun(Created) /\ Begun(NoCheckpoint)
  BY DEF Begun, TurnsIn, Created, NoCheckpoint
<1>3. ASSUME Begun(st'),
             pc' \in InTurn => TurnsIn(snap') \subseteq TurnsIn(st') /\ st'.turn \notin TurnsIn(snap')
      PROVE  Responses'
  <2>1. Begun(snap') /\ Begun(ck')
    BY <1>1, <1>2, <1>3, SnapshotAndCheckpoint
  <2>2. QED
    BY <1>3, <2>1 DEF Responses, Begun, TurnsIn
<1>4. CASE Stays
  <2>1. Begun(st')
    BY <1>1, <1>4 DEF Stays, Begun
  <2>2. pc' \in InTurn => TurnsIn(snap') \subseteq TurnsIn(st') /\ st'.turn \notin TurnsIn(snap')
    BY <1>4 DEF Stays, Responses
  <2>3. QED
    BY <1>3, <2>1, <2>2
<1>5. CASE StartTurn
  <2>1. st'.turn = st.turn + 1 /\ st'.msgs = st.msgs /\ snap' = st'
    BY <1>5, TurnFields
  <2>2. TurnsIn(st') = TurnsIn(st)
    BY <2>1, TurnsSame
  <2>3. \A n \in TurnsIn(st) : n \in Nat /\ n <= st.turn
    BY <1>1 DEF Begun, TurnsIn
  <2>4. \A n \in TurnsIn(st') : n <= st'.turn /\ n # st'.turn
    BY <1>1, <2>1, <2>2, <2>3
  <2>5. Begun(st') /\ st'.turn \notin TurnsIn(st')
    BY <2>4 DEF Begun
  <2>6. QED
    BY <1>3, <2>1, <2>5
<1>6. CASE AfterModel
  <2>1. PICK n \in 0 .. MaxCalls : st' = Push(st, <<"assistant", st.turn, n>>)
    BY <1>6 DEF AfterModel
  <2>2. /\ st'.msgs = Append(st.msgs, <<"assistant", st.turn, n>>) /\ st'.turn = st.turn
        /\ snap' = snap /\ pc \in InTurn
    BY <1>6, <2>1, AssistantFields DEF AfterModel, InTurn, Working
  <2>3. <<"assistant", st.turn, n>> \in Msg /\ st \in State
    BY StateFields DEF KernelInv, Good, Msg
  <2>4. TurnsIn(st) \subseteq TurnsIn(st') /\ \A k \in TurnsIn(st') : k \in TurnsIn(st) \/ k = st.turn
    BY <2>2, <2>3, TurnsPush
  <2>5. Begun(st')
    BY <1>1, <2>2, <2>4 DEF Begun
  <2>6. QED
    BY <1>3, <2>2, <2>4, <2>5 DEF Responses
<1>7. CASE FailTurnBody
  BY <1>1, <1>3, <1>7 DEF FailTurnBody, FreshOn, InTurn, Working
<1>8. CASE Die
  BY <1>2, <1>3, <1>8 DEF Die, Fresh, FreshOn, InTurn, Working
<1>9. CASE Open
  BY <1>1, <1>3, <1>9 DEF Open, InTurn, Working
<1>10. QED
  BY <1>4, <1>5, <1>6, <1>7, <1>8, <1>9, StaysNext

\* The call in hand may have registered a future whose task is not there yet.
InHand(t) ==
    /\ t = ThisTask /\ cur <= calls
    /\ pc \in {"invoke", "cancel", "fail"} \/ (pc = "after" /\ out = "task")

\* A future is alive for a task that is open, or for one of a turn that was
\* rolled back.
Alive(t) == t \in open_tasks(st) \/ t[1] \notin TurnsIn(st)

\* FuturesAreOpenTasks, at every place of the kernel.
Futures ==
    /\ wakers \subseteq watched
    /\ pc \in {"ending", "down", "losing", "opening"} => wakers = {}
    /\ \A t \in wakers : Alive(t) \/ InHand(t)

\* A step that drops futures at most keeps it if it leaves alive what is alive.
LEMMA FuturesKept ==
    ASSUME Futures, wakers' \subseteq wakers, UNCHANGED watched,
           pc' \in {"ending", "down", "losing", "opening"} => wakers' = {},
           \A t \in wakers' : Alive(t) => Alive(t)',
           \A t \in wakers' : InHand(t) => InHand(t)' \/ Alive(t)'
    PROVE  Futures'
  BY DEF Futures

\* ... as when neither the open tasks nor the responses change.
LEMMA FuturesSame ==
    ASSUME Futures, wakers' \subseteq wakers, UNCHANGED watched,
           pc' \in {"ending", "down", "losing", "opening"} => wakers' = {},
           open_tasks(st') = open_tasks(st), TurnsIn(st') = TurnsIn(st),
           \A t \in wakers' : InHand(t) => InHand(t)'
    PROVE  Futures'
  BY FuturesKept DEF Alive

\* Every action keeps it, unless the log refuses.
LEMMA FuturesNext ==
    ASSUME KernelInv, Single, Turns, Responses, Futures, Next, faults' = 0
    PROVE  Futures'
<1>1. Futures /\ Turns /\ Collections /\ Shape /\ st \in State
  BY DEF KernelInv, Good
<1>2. CASE LoopStep
  <2>1. CASE TakeBatch
    <3>1. /\ UNCHANGED <<st, wakers, watched>>
          /\ pc' \in {"ending", "down", "losing", "opening"} => wakers' = {}
          /\ \A t : InHand(t) => InHand(t)'
      BY <1>1, <2>1 DEF TakeBatch, wakeVars, Futures, InHand, ThisTask
    <3>2. QED
      BY <1>1, <3>1, FuturesSame
  <2>2. CASE ApplyBatched
    <3> DEFINE i == Head(batch)
    <3>1. batch # <<>> /\ i \in Item
      BY <1>1, <2>2, Items DEF ApplyBatched, Collections
    <3>2. /\ st' = Apply(st, i) /\ wakers' = wakers \ Aborts(st, i) /\ UNCHANGED <<pc, watched>>
          /\ pc \in {"batch", "drain"}
      BY <2>2 DEF ApplyBatched, Take
    <3> HIDE DEF i
    <3>3. \A t \in wakers' : Alive(t) => Alive(t)'
      BY <3>1, <3>2, TurnsStates DEF Alive
    <3>4. QED
      BY <1>1, <3>2, <3>3, FuturesKept DEF InHand
  <2>3. CASE EndBatch
    <3>1. /\ UNCHANGED <<wakers, watched>> /\ pc \in {"batch", "drain"}
          /\ pc' \notin {"ending", "down", "losing", "opening"}
          /\ open_tasks(st') = open_tasks(st) /\ TurnsIn(st') = TurnsIn(st)
      BY <2>3, TurnsStates DEF EndBatch, Fresh, FreshOn, Drained, wakeVars
    <3>2. QED
      BY <1>1, <3>1, FuturesSame DEF InHand
  <2>4. CASE StartTurn
    <3>1. /\ st'.msgs = st.msgs /\ st'.tasks = st.tasks /\ UNCHANGED <<wakers, watched>>
          /\ pc = "run" /\ pc' = "before"
      BY <2>4, TurnFields DEF StartTurn, wakeVars
    <3>2. open_tasks(st') = open_tasks(st) /\ TurnsIn(st') = TurnsIn(st)
      BY <3>1, TurnsSame DEF open_tasks
    <3>3. QED
      BY <1>1, <3>1, <3>2, FuturesSame DEF InHand
  <2>5. CASE LogRequest
    <3>1. /\ UNCHANGED <<st, wakers, watched>>
          /\ pc' \in {"ending", "down", "losing", "opening"} => wakers' = {}
          /\ \A t : InHand(t) => InHand(t)'
      BY <1>1, <2>5 DEF LogRequest, Goto, wakeVars, Futures, InHand, ThisTask
    <3>2. QED
      BY <1>1, <3>1, FuturesSame
  <2>6. CASE SendRequest
    <3>1. /\ UNCHANGED <<st, wakers, watched>>
          /\ pc' \in {"ending", "down", "losing", "opening"} => wakers' = {}
          /\ \A t : InHand(t) => InHand(t)'
      BY <1>1, <2>6 DEF SendRequest, Goto, wakeVars, Futures, InHand, ThisTask
    <3>2. QED
      BY <1>1, <3>1, FuturesSame
  <2>7. CASE AfterModel
    <3>1. PICK n \in 0 .. MaxCalls : /\ st' = Push(st, <<"assistant", st.turn, n>>)
                                     /\ pc = "respond" /\ pc' \in {"drain", "tool"}
      BY <2>7 DEF AfterModel
    <3>2. UNCHANGED <<wakers, watched>> /\ cur = 1
      BY <1>1, <2>7, <3>1 DEF AfterModel, wakeVars, Shape
    <3>3. /\ st'.msgs = Append(st.msgs, <<"assistant", st.turn, n>>) /\ st'.tasks = st.tasks
          /\ <<"assistant", st.turn, n>> \in Msg
      BY <1>1, <3>1, AssistantFields, StateFields DEF Msg
    <3>4. open_tasks(st') = open_tasks(st) /\ \A k \in TurnsIn(st') : k \in TurnsIn(st) \/ k = st.turn
      BY <1>1, <3>3, TurnsPush DEF open_tasks
    <3>5. \A t \in wakers : t[1] # st.turn
      <4>1. \A t \in wakers : t \in watched /\ t[2] \in 1 .. MaxCalls
        BY <1>1 DEF Futures, Collections, Task
      <4>2. QED
        BY <1>1, <3>1, <3>2, <4>1 DEF Turns
    <3>6. \A t \in wakers' : Alive(t) => Alive(t)'
      BY <3>2, <3>4, <3>5 DEF Alive
    <3>7. QED
      BY <1>1, <3>1, <3>2, <3>6, FuturesKept DEF InHand
  <2>8. CASE CheckPoint
    <3>1. /\ UNCHANGED <<st, wakers, watched>>
          /\ pc' \in {"ending", "down", "losing", "opening"} => wakers' = {}
          /\ \A t : InHand(t) => InHand(t)'
      BY <1>1, <2>8 DEF CheckPoint, Cancelled, Leave, Goto, wakeVars, Futures, InHand, ThisTask
    <3>2. QED
      BY <1>1, <3>1, FuturesSame
  <2>9. CASE Unregistered
    <3>1. /\ pc = "tool" /\ pc' \in {"tool", "drain"} /\ st' = WithOutput("value") /\ UNCHANGED <<wakers, watched>>
      BY <2>9 DEF Unregistered, AppendOutput, wakeVars
    <3>2. /\ TurnsIn(st') = TurnsIn(st) /\ ThisTask \in Task
          /\ st'.tasks = IF "value" = "task" THEN [st.tasks EXCEPT ![ThisTask] = "open"] ELSE st.tasks
      BY <3>1, TurnsOutput, WithOutputFields, ThisTaskFacts
    <3>3. st.tasks \in [Task -> {"none", "open", "finished", "cancelled"}]
      BY <1>1, StateFields
    <3>4. open_tasks(st) \subseteq open_tasks(st') /\ ("value" = "task" => ThisTask \in open_tasks(st'))
      BY <3>2, <3>3 DEF open_tasks
    <3>5. \A t \in wakers : Alive(t) => Alive(t)'
      BY <3>2, <3>4 DEF Alive
    <3>6. \A t : InHand(t) => Alive(t)'
      BY <3>1, <3>4 DEF InHand, Alive
    <3>7. QED
      BY <1>1, <3>1, <3>5, <3>6, FuturesKept
  <2>10. CASE Replaced
    <3>1. /\ UNCHANGED <<st, wakers, watched>>
          /\ pc' \in {"ending", "down", "losing", "opening"} => wakers' = {}
          /\ \A t : InHand(t) => InHand(t)'
      BY <1>1, <2>10 DEF Replaced, wakeVars, Futures, InHand, ThisTask
    <3>2. QED
      BY <1>1, <3>1, FuturesSame
  <2>11. CASE LogCall
    <3>1. /\ UNCHANGED <<st, wakers, watched>>
          /\ pc' \in {"ending", "down", "losing", "opening"} => wakers' = {}
          /\ \A t : InHand(t) => InHand(t)'
      BY <1>1, <2>11 DEF LogCall, Goto, wakeVars, Futures, InHand, ThisTask
    <3>2. QED
      BY <1>1, <3>1, FuturesSame
  <2>12. CASE Invoke
    <3>1. /\ UNCHANGED <<st, wakers, watched>>
          /\ pc' \in {"ending", "down", "losing", "opening"} => wakers' = {}
          /\ \A t : InHand(t) => InHand(t)'
      BY <1>1, <2>12 DEF Invoke, Goto, wakeVars, Futures, InHand, ThisTask
    <3>2. QED
      BY <1>1, <3>1, FuturesSame
  <2>13. CASE ToolCancelled
    <3>1. /\ UNCHANGED <<st, watched>> /\ wakers' = wakers \ {ThisTask} /\ pc' \in {"cancel", "after"}
      BY <2>13 DEF ToolCancelled, Leave, Goto
    <3>2. QED
      BY <1>1, <3>1, FuturesSame DEF InHand
  <2>14. CASE AfterTool
    <3>1. /\ pc = "after" /\ pc' \in {"tool", "drain"} /\ st' = WithOutput(out) /\ UNCHANGED <<wakers, watched>>
      BY <2>14 DEF AfterTool, AppendOutput, wakeVars
    <3>2. /\ TurnsIn(st') = TurnsIn(st) /\ ThisTask \in Task
          /\ st'.tasks = IF out = "task" THEN [st.tasks EXCEPT ![ThisTask] = "open"] ELSE st.tasks
      BY <3>1, TurnsOutput, WithOutputFields, ThisTaskFacts
    <3>3. st.tasks \in [Task -> {"none", "open", "finished", "cancelled"}]
      BY <1>1, StateFields
    <3>4. open_tasks(st) \subseteq open_tasks(st') /\ (out = "task" => ThisTask \in open_tasks(st'))
      BY <3>2, <3>3 DEF open_tasks
    <3>5. \A t \in wakers : Alive(t) => Alive(t)'
      BY <3>2, <3>4 DEF Alive
    <3>6. \A t : InHand(t) => Alive(t)'
      BY <3>1, <3>4 DEF InHand, Alive
    <3>7. QED
      BY <1>1, <3>1, <3>5, <3>6, FuturesKept
  <2>15. CASE DrainOne
    <3> DEFINE i == Head(inbox)
    <3>1. inbox # <<>> /\ i \in Item
      BY <1>1, <2>15, Items DEF DrainOne, Collections
    <3>2. /\ st' = Apply(st, i) /\ wakers' = wakers \ Aborts(st, i) /\ UNCHANGED <<pc, watched>>
          /\ pc \in {"batch", "drain"}
      BY <2>15 DEF DrainOne, Take
    <3> HIDE DEF i
    <3>3. \A t \in wakers' : Alive(t) => Alive(t)'
      BY <3>1, <3>2, TurnsStates DEF Alive
    <3>4. QED
      BY <1>1, <3>2, <3>3, FuturesKept DEF InHand
  <2>16. CASE TurnEnd
    <3>1. /\ UNCHANGED <<wakers, watched>> /\ pc \in {"batch", "drain"}
          /\ pc' \notin {"ending", "down", "losing", "opening"}
          /\ open_tasks(st') = open_tasks(st) /\ TurnsIn(st') = TurnsIn(st)
      BY <2>16, TurnsStates DEF TurnEnd, NextStatus, Goto, Fresh, FreshOn, Drained, wakeVars
    <3>2. QED
      BY <1>1, <3>1, FuturesSame DEF InHand
  <2>17. CASE LogSuspended
    <3>1. /\ UNCHANGED <<st, wakers, watched>>
          /\ pc' \in {"ending", "down", "losing", "opening"} => wakers' = {}
          /\ \A t : InHand(t) => InHand(t)'
      BY <1>1, <2>17 DEF LogSuspended, Return, Fresh, FreshOn, wakeVars, Futures, InHand, ThisTask
    <3>2. QED
      BY <1>1, <3>1, FuturesSame
  <2>18. CASE CancelTurnBody
    <3>1. /\ pc = "cancel" /\ AnswerUpTo(calls) /\ pc' = "drain" /\ UNCHANGED watched
          /\ wakers' = wakers \ Unanswered(calls)
      BY <2>18 DEF CancelTurnBody, FreshOn
    <3>2. calls \in (cur - 1) .. calls /\ cur \in Nat /\ calls \in Nat
      BY <3>1 DEF KernelInv, Locals, Shape
    <3>3. st'.tasks = st.tasks /\ TurnsIn(st') = TurnsIn(st)
      BY <3>1, <3>2, AnswerFacts, TurnsAnswer
    <3>4. \A t : InHand(t) => t \in Unanswered(calls)
      BY <3>2 DEF InHand, ThisTask, Unanswered
    <3>5. open_tasks(st') = open_tasks(st)
      BY <3>3 DEF open_tasks
    <3>6. QED
      BY <1>1, <3>1, <3>3, <3>4, <3>5, FuturesSame
  <2>19. CASE CancelTurnEnd
    <3>1. /\ UNCHANGED <<wakers, watched>> /\ pc \in {"batch", "drain"}
          /\ pc' \notin {"ending", "down", "losing", "opening"}
          /\ open_tasks(st') = open_tasks(st) /\ TurnsIn(st') = TurnsIn(st)
      BY <2>19, TurnsStates DEF CancelTurnEnd, Return, Fresh, FreshOn, Drained, wakeVars
    <3>2. QED
      BY <1>1, <3>1, FuturesSame DEF InHand
  <2>20. CASE FailTurnBody
    <3>1. /\ pc = "fail" /\ pc' = "drain" /\ st' = snap /\ UNCHANGED watched
          /\ wakers' = wakers \ StartedHere
      BY <2>20 DEF FailTurnBody, FreshOn
    <3>2. /\ TurnsIn(snap) \subseteq TurnsIn(st) /\ st.turn \notin TurnsIn(snap)
          /\ \A t \in Task : snap.tasks[t] # "none" => st.tasks[t] = snap.tasks[t]
      BY <1>1, <3>1 DEF Responses, Turns, InTurn
    <3>3. \A t \in open_tasks(st) : t \in StartedHere \/ t \in open_tasks(snap)
      BY <3>2 DEF open_tasks, StartedHere
    <3>4. \A t \in wakers' : Alive(t) => Alive(t)'
      BY <3>1, <3>2, <3>3 DEF Alive
    <3>5. \A t : InHand(t) => Alive(t)'
      BY <3>1, <3>2 DEF InHand, ThisTask, Alive
    <3>6. QED
      BY <1>1, <3>1, <3>4, <3>5, FuturesKept
  <2>21. CASE FailTurnEnd
    <3>1. /\ UNCHANGED <<wakers, watched>> /\ pc \in {"batch", "drain"}
          /\ pc' \notin {"ending", "down", "losing", "opening"}
          /\ open_tasks(st') = open_tasks(st) /\ TurnsIn(st') = TurnsIn(st)
      BY <2>21, TurnsStates DEF FailTurnEnd, Goto, Drained, wakeVars
    <3>2. QED
      BY <1>1, <3>1, FuturesSame DEF InHand
  <2>22. CASE LogFailed
    <3>1. /\ UNCHANGED <<st, wakers, watched>>
          /\ pc' \in {"ending", "down", "losing", "opening"} => wakers' = {}
          /\ \A t : InHand(t) => InHand(t)'
      BY <1>1, <2>22 DEF LogFailed, Return, Fresh, FreshOn, wakeVars, Futures, InHand, ThisTask
    <3>2. QED
      BY <1>1, <3>1, FuturesSame
  <2>23. CASE ResumeApply
    <3>1. /\ pc = "resuming" /\ pc' = "out" /\ UNCHANGED watched
          /\ st' = Resumed /\ wakers' = wakers \ ResumeAborts
      BY <2>23 DEF ResumeApply, Return, Fresh, FreshOn
    <3>2. batch = <<>> \/ \E i \in Item : batch = <<i>>
      BY <3>1 DEF Single
    <3>3. CASE batch = <<>>
      <4>1. st' = WithStatus(st, "running") /\ wakers' = wakers
        BY <3>1, <3>3 DEF Resumed, ResumeAborts
      <4>2. QED
        BY <1>1, <3>1, <4>1, TurnsStates, FuturesSame DEF InHand
    <3>4. ASSUME NEW i \in Item, batch = <<i>>
          PROVE  Futures'
      <4>1. st' = WithStatus(Apply(st, i), "running") /\ wakers' = wakers \ Aborts(st, i)
        BY <3>1, <3>4 DEF Resumed, ResumeAborts
      <4>2. \A t \in wakers' : Alive(t) => Alive(t)'
        BY <4>1, TurnsStates DEF Alive
      <4>3. QED
        BY <1>1, <3>1, <4>1, <4>2, FuturesKept DEF InHand
    <3>5. QED
      BY <3>2, <3>3, <3>4
  <2>24. CASE EndOne
    <3>1. pc = "ending" /\ UNCHANGED <<wakers, watched>>
      BY <2>24 DEF EndOne, wakeVars
    <3>2. QED
      BY <1>1, <3>1 DEF Futures
  <2>25. CASE EndCommit
    <3>1. pc = "ending" /\ pc' = "ended" /\ UNCHANGED <<wakers, watched>>
      BY <2>25 DEF EndCommit, Goto, wakeVars
    <3>2. QED
      BY <1>1, <3>1 DEF Futures
  <2>26. CASE LogEnded
    <3>1. /\ UNCHANGED <<st, wakers, watched>>
          /\ pc' \in {"ending", "down", "losing", "opening"} => wakers' = {}
          /\ \A t : InHand(t) => InHand(t)'
      BY <1>1, <2>26 DEF LogEnded, Return, Fresh, FreshOn, wakeVars, Futures, InHand, ThisTask
    <3>2. QED
      BY <1>1, <3>1, FuturesSame
  <2>27. CASE LoseOne
    <3>1. pc = "losing" /\ UNCHANGED <<wakers, watched>>
      BY <2>27 DEF LoseOne, wakeVars
    <3>2. QED
      BY <1>1, <3>1 DEF Futures
  <2>28. CASE LoggedOpen
    <3>1. /\ UNCHANGED <<st, wakers, watched>>
          /\ pc' \in {"ending", "down", "losing", "opening"} => wakers' = {}
          /\ \A t : InHand(t) => InHand(t)'
      BY <1>1, <2>28 DEF LoggedOpen, Goto, wakeVars, Futures, InHand, ThisTask
    <3>2. QED
      BY <1>1, <3>1, FuturesSame
  <2>29. CASE OpenApply
    <3>1. pc = "opening" /\ UNCHANGED <<wakers, watched>>
      BY <2>29 DEF OpenApply, wakeVars
    <3>2. QED
      BY <1>1, <3>1 DEF Futures
  <2>30. QED
    BY <1>2, <2>1, <2>2, <2>3, <2>4, <2>5, <2>6, <2>7, <2>8, <2>9, <2>10, <2>11, <2>12, <2>13, <2>14, <2>15, <2>16, <2>17, <2>18, <2>19, <2>20, <2>21, <2>22, <2>23, <2>24, <2>25, <2>26, <2>27, <2>28, <2>29 DEF LoopStep
<1>3. CASE Reply
  <2>1. CASE ToolWatches
    <3>1. /\ pc = "invoke" /\ UNCHANGED <<st, pc, cur, calls, out>>
          /\ wakers' = wakers \cup {ThisTask} /\ watched' = watched \cup {ThisTask}
      BY <2>1 DEF ToolWatches, loopVars
    <3>2. cur <= calls
      BY <1>1, <3>1 DEF Shape
    <3>3. \A t \in wakers' : Alive(t)' \/ InHand(t)'
      BY <1>1, <3>1, <3>2 DEF Futures, Alive, InHand, ThisTask
    <3>4. QED
      BY <1>1, <3>1, <3>3 DEF Futures
  <2>2. CASE ToolReturns
    <3>1. PICK o : /\ pc = "invoke" /\ pc' = "after" /\ out' = o
                   /\ wakers' = IF o = "task" THEN wakers ELSE wakers \ {ThisTask}
      BY <2>2 DEF ToolReturns
    <3>2. UNCHANGED <<st, cur, calls, watched>>
      BY <2>2 DEF ToolReturns
    <3>3. \A t \in wakers' : InHand(t) => InHand(t)'
      BY <3>1, <3>2 DEF InHand, ThisTask
    <3>4. QED
      BY <1>1, <3>1, <3>2, <3>3, FuturesSame
  <2>3. CASE ModelAnswers
    <3>1. /\ UNCHANGED <<st, wakers, watched>> /\ pc' = "respond" /\ pc = "request"
      BY <2>3 DEF ModelAnswers, Goto, wakeVars
    <3>2. QED
      BY <1>1, <3>1, FuturesSame DEF InHand
  <2>4. CASE LaunchFails
    <3>1. /\ UNCHANGED <<st, wakers, watched>> /\ pc' = "after" /\ pc = "launch"
      BY <2>4 DEF LaunchFails, wakeVars
    <3>2. QED
      BY <1>1, <3>1, FuturesSame DEF InHand
  <2>5. CASE TurnFails
    <3>1. /\ UNCHANGED <<st, cur, calls, wakers, watched>> /\ pc' = "fail"
      BY <2>5 DEF TurnFails, Leave, Goto, wakeVars
    <3>2. \A t : InHand(t) => InHand(t)'
      BY <3>1 DEF InHand, ThisTask
    <3>3. QED
      BY <1>1, <3>1, <3>2, FuturesSame
  <2>6. CASE MidTurnCompaction
    <3>1. UNCHANGED <<st, loopVars, wakers, watched>> /\ pc = "before"
      BY <2>6 DEF MidTurnCompaction, wakeVars
    <3>2. QED
      BY <1>1, <3>1, FuturesSame DEF loopVars, InHand
  <2>7. QED
    BY <1>3, <2>1, <2>2, <2>3, <2>4, <2>5, <2>6 DEF Reply
<1>4. CASE Fault
  BY <1>4, FaultCounted
<1>5. CASE Caller
  <2>1. CASE Run
    <3>1. UNCHANGED <<st, wakers, watched>> /\ pc = "out" /\ pc' = "run"
      BY <2>1 DEF Run, Goto, wakeVars
    <3>2. QED
      BY <1>1, <3>1, FuturesSame DEF InHand
  <2>2. CASE Suspend
    <3>1. UNCHANGED <<wakers, watched>> /\ pc = "out" /\ pc' = "suspending" /\ st' = WithStatus(st, "suspended")
      BY <2>2 DEF Suspend, FreshOn, wakeVars
    <3>2. QED
      BY <1>1, <3>1, TurnsStates, FuturesSame DEF InHand
  <2>3. CASE Resume
    <3>1. UNCHANGED <<st, wakers, watched>> /\ pc = "out" /\ pc' = "resuming"
      BY <2>3 DEF Resume, wakeVars
    <3>2. QED
      BY <1>1, <3>1, FuturesSame DEF InHand
  <2>4. CASE Compact
    <3>1. UNCHANGED <<st, loopVars, wakers, watched>> /\ pc = "out"
      BY <2>4 DEF Compact, wakeVars
    <3>2. QED
      BY <1>1, <3>1, FuturesSame DEF loopVars, InHand
  <2>5. CASE End
    BY <2>5 DEF End, Futures
  <2>6. QED
    BY <1>5, <2>1, <2>2, <2>3, <2>4, <2>5 DEF Caller
<1>6. CASE Handle \/ Waker
  <2>1. UNCHANGED <<st, pc, cur, calls, out, watched>>
    BY <1>6, HandleKeeps DEF loopVars
  <2>2. wakers' \subseteq wakers
    BY <1>6 DEF Handle, EnqueueUserMessage, CancelTurn, CancelTool, CancelTask, DeliverTaskUpdate, Waker,
      WakerResolves, WakerDelivers, wakeVars
  <2>3. \A t : InHand(t) => InHand(t)'
    BY <2>1 DEF InHand, ThisTask
  <2>4. pc \in {"ending", "down", "losing", "opening"} => wakers' = {}
    BY <1>1, <2>2 DEF Futures
  <2>5. QED
    BY <1>1, <2>1, <2>2, <2>3, <2>4, FuturesSame
<1>7. CASE Process
  <2>1. CASE Die
    BY <2>1 DEF Die, Futures
  <2>2. CASE Open
    <3>1. pc = "down" /\ UNCHANGED <<wakers, watched>>
      BY <2>2 DEF Open, wakeVars
    <3>2. QED
      BY <1>1, <3>1 DEF Futures
  <2>3. QED
    BY <1>7, <2>1, <2>2 DEF Process
<1>8. QED
  BY <1>2, <1>3, <1>4, <1>5, <1>6, <1>7 DEF Next

-----------------------------------------------------------------------------
(* Theorems *)

\* The inductive invariant of the behaviours without a refused append.
LoggedInv ==
    faults = 0 => /\ Single /\ Calm /\ Accepted /\ History /\ Turns /\ Waiting
                  /\ Responses /\ Futures

\* It holds at first.
LEMMA LoggedInvInit == Init => LoggedInv
<1> SUFFICES ASSUME Init PROVE LoggedInv
  OBVIOUS
<1>1. Created.msgs = <<>> /\ NoCheckpoint.msgs = <<>> /\ DOMAIN <<>> = {} /\ Created.turn = 0
      /\ Created.tasks = NoCheckpoint.tasks /\ Created.waker = NoCheckpoint.waker
  BY DEF Created, NoCheckpoint
<1>2. Single /\ Accepted
  BY DEF Init, Single, Accepted
<1>3. Calm
  BY <1>1 DEF Init, Calm, InTurn, Working, Same
<1>4. History
  BY <1>1 DEF Init, History, InTurn, Working, Answered
<1>5. Turns
  BY DEF Init, Turns, InTurn, Working
<1>6. Waiting
  BY DEF Init, Waiting
<1>7. TurnsIn(Created) = {} /\ TurnsIn(NoCheckpoint) = {}
  BY <1>1 DEF TurnsIn
<1>8. Responses
  BY <1>7 DEF Init, Responses, Begun, InTurn, Working
<1>9. Futures
  BY DEF Init, Futures
<1>10. QED
  BY <1>2, <1>3, <1>4, <1>5, <1>6, <1>8, <1>9 DEF LoggedInv

\* Every step keeps it.
LEMMA LoggedInvNext ==
    ASSUME KernelInv, LoggedInv, [Next]_vars
    PROVE  LoggedInv'
<1>1. CASE Next
  <2> SUFFICES ASSUME faults' = 0
               PROVE  (/\ Single /\ Calm /\ Accepted /\ History /\ Turns /\ Waiting
                       /\ Responses /\ Futures)'
    BY DEF LoggedInv
  <2>1. Single /\ Calm /\ Accepted /\ History /\ Turns /\ Waiting /\ Responses /\ Futures
    BY <1>1, FaultsKept DEF LoggedInv
  <2>2. Single' /\ Calm'
    BY <1>1, <2>1, SingleNext, CalmNext
  <2>3. Accepted' /\ History'
    BY <1>1, <2>1, AcceptedNext, HistoryNext
  <2>4. Turns' /\ Waiting'
    BY <1>1, <2>1, TurnsNext, WaitingNext
  <2>5. Responses' /\ Futures'
    BY <1>1, <2>1, ResponsesNext, FuturesNext
  <2>6. QED
    BY <2>2, <2>3, <2>4, <2>5
<1>2. CASE UNCHANGED vars
  <2>1. UNCHANGED <<st, snap, pc, calls, cur, out, changed, batch, inbox, wakers, firing, watched,
                    ck, seen, kept, unsent, deaths, faults>>
    BY <1>2 DEF vars, loopVars, wakeVars, logVars, envVars
  <2>2. Single' <=> Single
    BY <2>1 DEF Single
  <2>3. Calm' <=> Calm
    BY <2>1 DEF Calm, Same
  <2>4. Accepted' <=> Accepted
    BY <2>1 DEF Accepted
  <2>5. History' <=> History
    BY <2>1 DEF History
  <2>6. Turns' <=> Turns
    BY <2>1 DEF Turns
  <2>7. Waiting' <=> Waiting
    BY <2>1 DEF Waiting, Waits, ThisTask
  <2>8. Responses' <=> Responses
    BY <2>1 DEF Responses
  <2>9. Futures' <=> Futures
    BY <2>1 DEF Futures, Alive, InHand, ThisTask
  <2>10. QED
    BY <2>1, <2>2, <2>3, <2>4, <2>5, <2>6, <2>7, <2>8, <2>9 DEF LoggedInv
<1>3. QED
  BY <1>1, <1>2

\* The invariant holds in every reachable state.
THEOREM LoggedInvariant == Spec => []LoggedInv
<1>1. Init => LoggedInv
  BY LoggedInvInit
<1>2. KernelInv /\ LoggedInv /\ [Next]_vars => LoggedInv'
  BY LoggedInvNext
<1>3. QED
  BY <1>1, <1>2, KernelInvariant, PTL DEF Spec

\* A request is computed from the last checkpoint: between the checkpoint that
\* ends a batch, a turn or a resume and the request of the next turn, nothing
\* that a handle, a waker, a death or a reopening does changes the messages or
\* the tasks in memory.
THEOREM RequestsReplayable == Spec => []RequestFromCheckpoint
<1>1. LoggedInv => RequestFromCheckpoint
  BY DEF LoggedInv, Calm, Saved, Same, RequestFromCheckpoint
<1>2. QED
  BY <1>1, LoggedInvariant, PTL

\* A user message whose event a checkpoint follows is in every later
\* checkpoint, through failed turns that are rolled back, deaths and
\* recoveries.
THEOREM MessagesDurable == Spec => []UserMessagesKept
<1>1. LoggedInv => UserMessagesKept
  BY DEF LoggedInv, Calm, UserMessagesKept
<1>2. QED
  BY <1>1, LoggedInvariant, PTL

\* A message that a handle accepted is queued or in the state as long as its
\* process lives, also after the turn that drained it was rolled back.
THEOREM MessagesNotLost == Spec => []AcceptedNotLost
<1>1. LoggedInv => AcceptedNotLost
  BY DEF LoggedInv, Accepted, AcceptedNotLost, Queued, In
<1>2. QED
  BY <1>1, LoggedInvariant, PTL

\* Every request and every checkpoint holds a history in which each call is
\* answered in order and nothing else is a tool message, through cancels, failed
\* turns, deaths and late updates.
THEOREM HistoriesAnswered == Spec => []HistoryAnswered
<1>1. LoggedInv => HistoryAnswered
  BY DEF LoggedInv, History, HistoryAnswered
<1>2. QED
  BY <1>1, LoggedInvariant, PTL

\* An open task whose future this process registered has its future, a
\* delivery or a queued update or cancel that will close it, whatever aborts
\* and races come between.
THEOREM TasksAwaited == Spec => []OwnTasksAwaited
<1>1. ASSUME LoggedInv
      PROVE  OwnTasksAwaited
  <2>1. \A t : Waits(t) => Awaited(t)
    BY DEF Waits, Awaited, Queued, In
  <2>2. QED
    BY <1>1, <2>1 DEF LoggedInv, Waiting, OwnTasksAwaited
<1>2. QED
  BY <1>1, LoggedInvariant, PTL

\* Between turns a future that lives belongs to an open task, or was left by a
\* turn that failed: in the middle of a turn a call may have registered a future
\* whose task is not in the state yet, and every way out of the turn but the
\* rollback aborts it or records the task.
THEOREM FuturesBounded == Spec => []FuturesAreOpenTasks
<1>1. ASSUME KernelInv, LoggedInv
      PROVE  FuturesAreOpenTasks
  <2> SUFFICES ASSUME faults = 0, pc \in {"out", "run"}, NEW t \in wakers, TurnKept(t)
               PROVE  t \in open_tasks(st)
    BY DEF FuturesAreOpenTasks
  <2>1. Alive(t) /\ t \in Task
    BY <1>1 DEF LoggedInv, Futures, InHand, KernelInv, Collections
  <2>2. t[1] \in 0 .. MaxTurns
    BY <2>1, KernelBounds DEF Task
  <2>3. t[1] \in TurnsIn(st)
    BY <2>2 DEF TurnKept, TurnsIn
  <2>4. QED
    BY <2>1, <2>3 DEF Alive
<1>2. QED
  BY <1>1, KernelInvariant, LoggedInvariant, PTL

=============================================================================
