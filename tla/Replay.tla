------------------------------- MODULE Replay -------------------------------
(***************************************************************************)
(* Record and replay (crates/kernel/src/replay/mod.rs): a session is       *)
(* recorded, its cassette is built from the log, and a second kernel is    *)
(* driven through the recorded inputs with the recorded answers.           *)
(*                                                                         *)
(* Both kernels take the same steps; a turn is reduced to what its events  *)
(* and the hooks of the Recorder see (Kernel has the rest of its control). *)
(* A hash is the value it is taken of.  The recording is made by one       *)
(* process whose log accepts every append (see EventLog for the others),   *)
(* and the Recorder keeps up with the broadcast of events.                 *)
(***************************************************************************)
EXTENDS Integers, FiniteSets, SequencesExt

CONSTANTS Setups,      \* [unique, compact, fail, attempts]: whether tool_use_ids are unique, the turns
                       \* the middleware compacts or fails in, the attempts of a model call
          Responses,   \* the names of the tools a response calls, in order
          Values,      \* what a tool returns
          MaxTurns,    \* bound: turns of the recording
          MaxUsers,    \* bound: user messages
          MaxUpdates,  \* bound: task updates
          MaxCancels   \* bound: cancels of the turn, a tool or a task

ASSUME ReplayAssumption == /\ {MaxTurns, MaxUsers, MaxUpdates, MaxCancels} \subseteq Nat
                           /\ \A s \in Setups : s.attempts \in Nat \ {0}
                           /\ Responses \subseteq Seq(STRING)

VARIABLES phase,     \* "record", "replay" or "done"
          setup,     \* how the session is set up, for both kernels
          k,         \* the kernel at work
          rec,       \* its Recorder: [model, tools, pending]
          drv,       \* the driver: [recorded, tape, queue, tracker, result]
          env        \* what has come from outside: [users, updates, cancels]

vars == <<phase, setup, k, rec, drv, env>>

Live == phase = "record"

Open == {"pending", "running"}
IsOpen(st, id) == id \in DOMAIN st.tasks /\ st.tasks[id].status \in Open
OpenTasks(st)  == {id \in DOMAIN st.tasks : st.tasks[id].status \in Open}

(* FoldLeft as a recursive function, which can be reasoned about.          *)
Folded(Op(_, _), base, s) ==
  LET f[n \in 0 .. Len(s)] == IF n = 0 THEN base ELSE Op(f[n - 1], s[n])
  IN  f[Len(s)]

(* The map f with an entry for x.                                          *)
With(f, x, v) == [y \in DOMAIN f \cup {x} |-> IF y = x THEN v ELSE f[y]]

(* State::state_hash leaves out what differs from run to run.              *)
state_hash(st) == [f \in DOMAIN st \ {"session"} |-> st[f]]

-----------------------------------------------------------------------------
(* The kernel: each operator takes it and returns it.                      *)

Log(kk, events) == [kk EXCEPT !.log = @ \o events]

Said(kk, msg) == [kk EXCEPT !.st.msgs = Append(@, msg)]

checkpoint(kk, reason) ==
  [Log(kk, <<[kind |-> "checkpoint", turn |-> kk.st.turn, reason |-> reason, state |-> kk.st]>>)
     EXCEPT !.ck = state_hash(kk.st)]

set_status(kk, s) == [kk EXCEPT !.st.status = s, !.fired = @ /\ s = "running"]

apply_user_message(kk, n, at) ==
  Said(Log(kk, <<[kind |-> "user_message", turn |-> kk.st.turn, at |-> at, n |-> n]>>), <<"user", n>>)

TaskUpdate(kk, u, at) ==
  [kind |-> "task_update", turn |-> kk.st.turn, at |-> at, id |-> u.id, status |-> u.status, waker |-> u.waker]

(* An update of a task that is not open is logged as ignored.              *)
apply_task_update(kk, u, at) ==
  IF ~IsOpen(kk.st, u.id)
    THEN Log(kk, <<[kind |-> "warning", turn |-> kk.st.turn], TaskUpdate(kk, u, "ignored")>>)
    ELSE LET told == [kk EXCEPT !.st.tasks[u.id].status = u.status]
         IN  Log(IF u.status \in Open THEN told ELSE Said(told, <<"result", u.id, u.status>>),
                 <<TaskUpdate(kk, u, at)>>)

apply_cancel_task(kk, id) ==
  IF ~IsOpen(kk.st, id) THEN kk
  ELSE Log(Said([kk EXCEPT !.st.tasks[id].status = "cancelled"], <<"result", id, "cancelled">>),
           <<[kind |-> "cancelled", turn |-> kk.st.turn, scope |-> "task", id |-> id]>>)

Apply(kk, i, at) ==
  CASE i.t = "user"   -> apply_user_message(kk, i.n, at)
    [] i.t = "update" -> apply_task_update(kk, i, at)
    [] i.t = "cancel" -> apply_cancel_task(kk, i.id)

(* The inbox is applied in order and is empty after it.                    *)
Drained(kk, at) == [Folded(LAMBDA x, i : Apply(x, i, at), kk, kk.inbox) EXCEPT !.inbox = <<>>]

HasUser(kk)   == \E n \in DOMAIN kk.inbox : kk.inbox[n].t = "user"
Closed(kk, x) == OpenTasks(x.st) # OpenTasks(kk.st)

apply_inbound_batch(kk) ==
  LET x    == Drained(kk, kk.st.status)
      wake == HasUser(kk) \/ (Closed(kk, x) /\ kk.st.status = "suspended")
      y    == IF wake THEN set_status(x, "running") ELSE x
      real == \E n \in DOMAIN kk.inbox : kk.inbox[n].t = "user" \/ IsOpen(kk.st, kk.inbox[n].id)
  IN  IF real THEN checkpoint(y, IF HasUser(kk) THEN "user_input" ELSE "task_update") ELSE y

AtBoundary(kk) == [kk EXCEPT !.pc = "out", !.calls = <<>>, !.cur = 1, !.out = <<>>, !.toolFired = FALSE]

fail_turn(kk, class, attempts) ==
  LET t == kk.st.turn
      x == Drained(Log([kk EXCEPT !.st = kk.snap],
                       <<[kind |-> "turn_failed", turn |-> t, class |-> class, attempts |-> attempts]>>),
                   "end_of_turn")
  IN  AtBoundary(Log(checkpoint(set_status(x, "failed"), "failure"),
                     <<[kind |-> "session_failed", turn |-> t, class |-> class]>>))

TaskId(kk, call) == <<kk.st.turn, call.id>>

append_tool_output(kk, call, out) ==
  LET x == Said(Log(kk, <<[kind |-> "tool_result", turn |-> kk.st.turn, id |-> call.id, content |-> out.content,
                           origin |-> out.origin, task |-> out.task, duration |-> kk.st.session]>>),
                <<"tool", call.id, out.content>>)
  IN  IF out.task = <<>> THEN x
      ELSE Log([x EXCEPT !.st.tasks = With(@, out.task[1], [status |-> "running", waker |-> out.waker])],
               <<[kind |-> "task_started", turn |-> kk.st.turn, task |-> out.task[1], waker |-> out.waker]>>)

Output(content, origin) == [content |-> content, origin |-> origin, task |-> <<>>, waker |-> FALSE]

(* The calls from the current one on get a synthetic result.               *)
cancel_turn(kk) ==
  LET x == Log(kk, <<[kind |-> "cancelled", turn |-> kk.st.turn, scope |-> "turn", id |-> <<>>]>>)
      y == Folded(LAMBDA z, c : append_tool_output(z, c, Output("cancelled", "Cancelled")), x,
                  SubSeq(kk.calls, kk.cur, Len(kk.calls)))
  IN  AtBoundary(checkpoint(set_status(Drained(y, "end_of_turn"), "idle"), "cancel"))

(* F. Turn boundary.                                                       *)
end_turn(kk) ==
  LET x    == Drained(kk, "end_of_turn")
      next == IF HasUser(kk) \/ kk.calls # <<>> THEN "running"
              ELSE IF OpenTasks(x.st) # {} THEN "suspended" ELSE "idle"
      y    == checkpoint(set_status(x, next), "turn_end")
  IN  [AtBoundary(IF next # "suspended" THEN y
                  ELSE Log(y, <<[kind |-> "suspended", turn |-> y.st.turn, tasks |-> OpenTasks(y.st),
                                 wakers |-> {id \in OpenTasks(y.st) : y.st.tasks[id].waker}]>>))
         EXCEPT !.fired = FALSE]

(* on_compact of the middleware: the last message stays.                   *)
run_compaction(kk) ==
  checkpoint(Log([kk EXCEPT !.st.msgs = <<Last(@)>>], <<[kind |-> "compaction", turn |-> kk.st.turn]>>),
             "compaction")

(* Kernel::create.                                                         *)
NewKernel(session) ==
  LET st == [session |-> session, turn |-> 0, status |-> "created", msgs |-> <<>>, tasks |-> <<>>]
  IN  checkpoint([pc |-> "out", st |-> st, snap |-> st, ck |-> <<>>, inbox |-> <<>>, calls |-> <<>>, cur |-> 1,
                  out |-> <<>>, fired |-> FALSE, toolFired |-> FALSE,
                  log |-> <<[kind |-> "log_opened", turn |-> 0, mode |-> session]>>], "created")

-----------------------------------------------------------------------------
(* The cassette.                                                           *)

Key(ck, request) == [ck |-> ck, request |-> request]
ToolRequest(call) == [id |-> call.id, name |-> call.name]

input_of_event(e) ==
  CASE e.kind = "user_message" -> <<[t |-> "user", turn |-> e.turn, at |-> e.at, n |-> e.n]>>
    [] e.kind = "task_update" /\ e.at # "ignored" ->
         <<[t |-> "update", turn |-> e.turn, at |-> e.at, id |-> e.id, status |-> e.status]>>
    [] e.kind = "user_answer"  -> <<[t |-> "answer", turn |-> e.turn, answer |-> e.answer]>>
    [] OTHER -> <<>>

Inputs(log) == Folded(LAMBDA inputs, e : inputs \o input_of_event(e), <<>>, log)

(* Mutant: what a failed or cancelled turn left pending stays pending.     *)
FromEvent_KeepPending(c, e) ==
  CASE e.kind = "model_request"  -> [c EXCEPT !.pm = <<Key(e.ck, e.request)>>, !.pt = <<>>]
    [] e.kind = "model_response" ->
         IF c.pm = <<>> \/ c.pm[1].request # e.request THEN c
         ELSE [c EXCEPT !.model = With(@, c.pm[1], e.content), !.pm = <<>>]
    [] e.kind = "tool_call" -> IF ~e.registered THEN c
                               ELSE [c EXCEPT !.pt = With(@, e.id, Key(e.ck, e.request))]
    [] e.kind = "tool_result" ->
         IF e.id \notin DOMAIN c.pt THEN c
         ELSE [c EXCEPT !.tools = With(@, c.pt[e.id], [Output(e.content, e.origin) EXCEPT !.task = e.task]),
                        !.pt = [i \in DOMAIN @ \ {e.id} |-> @[i]],
                        !.ptask = IF e.task = <<>> THEN <<>> ELSE <<c.pt[e.id], e.task[1]>>]
    [] e.kind = "task_started" ->
         IF c.ptask = <<>> \/ c.ptask[2] # e.task THEN c
         ELSE [c EXCEPT !.tools[c.ptask[1]].waker = e.waker, !.ptask = <<>>]
    [] OTHER -> c

(* pm, pt, ptask: pending_model, pending_tools and pending_task.           *)
FromEvent(c, e) ==
  CASE e.kind = "model_request"  -> [c EXCEPT !.pm = <<Key(e.ck, e.request)>>, !.pt = <<>>]
    [] e.kind = "model_response" ->
         IF c.pm = <<>> \/ c.pm[1].request # e.request THEN c
         ELSE [c EXCEPT !.model = With(@, c.pm[1], e.content), !.pm = <<>>]
    [] e.kind = "tool_call" -> IF ~e.registered THEN c
                               ELSE [c EXCEPT !.pt = With(@, e.id, Key(e.ck, e.request))]
    [] e.kind = "tool_result" ->
         IF e.id \notin DOMAIN c.pt THEN c
         ELSE [c EXCEPT !.tools = With(@, c.pt[e.id], [Output(e.content, e.origin) EXCEPT !.task = e.task]),
                        !.pt = [i \in DOMAIN @ \ {e.id} |-> @[i]],
                        !.ptask = IF e.task = <<>> THEN <<>> ELSE <<c.pt[e.id], e.task[1]>>]
    [] e.kind = "task_started" ->
         IF c.ptask = <<>> \/ c.ptask[2] # e.task THEN c
         ELSE [c EXCEPT !.tools[c.ptask[1]].waker = e.waker, !.ptask = <<>>]
    [] e.kind = "cancelled"   -> IF e.scope = "turn" THEN [c EXCEPT !.pt = <<>>] ELSE c
    [] e.kind = "turn_failed" -> [c EXCEPT !.pm = <<>>, !.pt = <<>>]
    [] OTHER -> c

Scanned(log) ==
  Folded(FromEvent, [model |-> <<>>, tools |-> <<>>, pm |-> <<>>, pt |-> <<>>, ptask |-> <<>>], log)

from_log(log) == [model |-> Scanned(log).model, tools |-> Scanned(log).tools, inputs |-> Inputs(log)]

-----------------------------------------------------------------------------
(* The Recorder, whose hooks run last.  A compaction between its           *)
(* before_model and the call has changed the request.                      *)
NewRecorder == [model |-> <<>>, tools |-> <<>>, pending |-> <<>>]

after_model(r, kk, content) ==
  LET request == IF r.pending[1] # kk.ck THEN kk.st.msgs ELSE r.pending[2]
  IN  [r EXCEPT !.model = With(@, Key(kk.ck, request), content), !.pending = <<>>]

after_tool(r, kk, call, out) == [r EXCEPT !.tools = With(@, Key(kk.ck, ToolRequest(call)), out)]

RecorderCassette == [model |-> rec.model, tools |-> rec.tools, inputs |-> Inputs(k.log)]

-----------------------------------------------------------------------------
(* The turn.                                                               *)
Id(turn, i) == <<IF setup.unique THEN turn ELSE 0, i>>

CallsOf(turn, names) == [i \in DOMAIN names |-> [id |-> Id(turn, i), name |-> names[i]]]

ModelRequest(kk) == [kind |-> "model_request", turn |-> kk.st.turn, request |-> kk.st.msgs, ck |-> kk.ck]

BeginTurn ==
  /\ k.st.status = "running"
  /\ IF Live THEN k.pc = "out" /\ k.st.turn < MaxTurns ELSE k.pc = "driven"
  /\ LET x == [k EXCEPT !.st.turn = @ + 1, !.snap = [k.st EXCEPT !.turn = @ + 1]]
         y == IF x.st.turn \in setup.compact THEN run_compaction(x) ELSE x
     IN  IF k.fired THEN k' = cancel_turn(x) /\ UNCHANGED rec
         ELSE IF x.st.turn \in setup.fail THEN k' = fail_turn(x, "middleware", 1) /\ UNCHANGED rec
         ELSE /\ k' = [Log(y, <<ModelRequest(y)>>) EXCEPT !.pc = "called"]
              /\ rec' = [rec EXCEPT !.pending = <<x.ck, x.st.msgs>>]
  /\ UNCHANGED <<phase, setup, drv, env>>

(* The attempts of a live call before its last one.                        *)
Retried(kk) == Log(kk, [i \in 1 .. setup.attempts - 1 |-> [kind |-> "provider_retry", turn |-> kk.st.turn]])

(* The response is logged and becomes the message of the assistant.        *)
Responded(kk, content) ==
  LET x == Log(kk, <<[kind |-> "model_response", turn |-> kk.st.turn, request |-> kk.st.msgs,
                      content |-> content, attempts |-> IF Live THEN setup.attempts ELSE 1]>>)
  IN  [Said(x, <<"assistant", content>>) EXCEPT !.pc = "tools", !.calls = content, !.cur = 1]

(* A live model answers or fails; ReplayProvider::complete looks it up.    *)
Respond ==
  /\ k.pc = "called"
  /\ \/ k.fired /\ k' = cancel_turn(k) /\ UNCHANGED rec
     \/ /\ Live /\ ~k.fired
        /\ \/ \E names \in Responses :
                LET c == CallsOf(k.st.turn, names) IN k' = Responded(Retried(k), c) /\ rec' = after_model(rec, k, c)
           \/ k' = fail_turn(Retried(k), "server", setup.attempts) /\ UNCHANGED rec
     \/ /\ ~Live
        /\ LET key == Key(k.ck, k.st.msgs)
           IN  IF key \in DOMAIN drv.tape.model
                 THEN k' = Responded(k, drv.tape.model[key]) /\ rec' = after_model(rec, k, drv.tape.model[key])
                 ELSE k' = fail_turn(k, "replay_miss", 1) /\ UNCHANGED rec
  /\ UNCHANGED <<phase, setup, drv, env>>

Call(kk) == kk.calls[kk.cur]

ToolCall(kk, registered) ==
  [kind |-> "tool_call", turn |-> kk.st.turn, id |-> Call(kk).id, request |-> ToolRequest(Call(kk)),
   ck |-> kk.ck, registered |-> registered]

(* E1 to E4.                                                               *)
StartTool ==
  /\ k.pc = "tools" /\ k.cur <= Len(k.calls)
  /\ k' = IF k.fired THEN cancel_turn(k)
          ELSE IF Call(k).name = "unknown"
            THEN [append_tool_output(Log(k, <<ToolCall(k, FALSE), [kind |-> "warning", turn |-> k.st.turn]>>),
                                     Call(k), Output("unknown tool", "Unregistered"))
                    EXCEPT !.cur = @ + 1]
          ELSE [Log(k, <<ToolCall(k, TRUE)>> \o IF Call(k).name # "ask" THEN <<>>
                       ELSE <<[kind |-> "ask_user", turn |-> k.st.turn, id |-> Call(k).id]>>)
                  EXCEPT !.pc = "invoke"]
  /\ UNCHANGED <<phase, setup, rec, drv, env>>

(* Mutant: the checkpoint is left out of the key.                          *)
lookup_ByRequest(call) ==
  {drv.tape.tools[x] : x \in {y \in DOMAIN drv.tape.tools : y.request = ToolRequest(call)}}

(* ReplayTool::lookup: by the checkpoint the driver has published, or by   *)
(* the request alone where all entries agree.                              *)
lookup(call) ==
  LET key == Key(drv.tracker, ToolRequest(call))
  IN  IF key \in DOMAIN drv.tape.tools THEN {drv.tape.tools[key]}
      ELSE {drv.tape.tools[x] : x \in {y \in DOMAIN drv.tape.tools : y.request = ToolRequest(call)}}

(* What a live tool returns: a value, or a task with or without a waker of *)
(* this process.                                                           *)
LiveOutputs(kk) ==
  IF Call(kk).name = "job"
    THEN {[Output("task", "Invoke") EXCEPT !.task = <<TaskId(kk, Call(kk))>>, !.waker = w] : w \in BOOLEAN}
    ELSE {Output(v, "Invoke") : v \in Values}

(* E5 and E6: what is logged before the hooks see the output.              *)
Returned(kk, out) ==
  [Log(kk, (IF out.origin # "Cancelled" THEN <<>>
            ELSE <<[kind |-> "cancelled", turn |-> kk.st.turn, scope |-> "tool", id |-> Call(kk).id]>>)
           \o IF Call(kk).name # "ask" THEN <<>>
              ELSE <<[kind |-> "user_answer", turn |-> kk.st.turn, id |-> Call(kk).id, answer |-> out.content]>>)
     EXCEPT !.pc = "after", !.out = <<out>>, !.toolFired = FALSE]

InvokeTool ==
  /\ k.pc = "invoke"
  /\ \/ k.fired /\ k' = cancel_turn(k)
     \/ ~k.fired /\ k.toolFired /\ k' = Returned(k, Output("cancelled", "Cancelled"))
     \/ Live /\ ~k.fired /\ ~k.toolFired /\ \E out \in LiveOutputs(k) : k' = Returned(k, out)
     \/ /\ ~Live
        /\ LET found == lookup(Call(k))
           IN  k' = IF Cardinality(found) = 1 THEN Returned(k, CHOOSE out \in found : TRUE)
                    ELSE fail_turn(k, "replay_miss", 1)
  /\ UNCHANGED <<phase, setup, rec, drv, env>>

(* E7 to E10.                                                              *)
AfterTool ==
  /\ k.pc = "after"
  /\ IF k.fired THEN k' = cancel_turn(k) /\ UNCHANGED rec
     ELSE /\ rec' = after_tool(rec, k, Call(k), k.out[1])
          /\ k' = [append_tool_output(k, Call(k), k.out[1]) EXCEPT !.pc = "tools", !.cur = @ + 1, !.out = <<>>]
  /\ UNCHANGED <<phase, setup, drv, env>>

EndTurn ==
  /\ k.pc = "tools" /\ k.cur > Len(k.calls)
  /\ k' = end_turn(k)
  /\ UNCHANGED <<phase, setup, rec, drv, env>>

-----------------------------------------------------------------------------
(* What comes from outside while the session is recorded.                  *)
Enqueue(item) == k' = [k EXCEPT !.inbox = Append(@, item)] /\ UNCHANGED <<phase, setup, rec, drv>>

UserMessage ==
  /\ Live /\ env.users < MaxUsers
  /\ Enqueue([t |-> "user", n |-> env.users + 1])
  /\ env' = [env EXCEPT !.users = @ + 1]

Update ==
  /\ Live /\ env.updates < MaxUpdates
  /\ \E id \in DOMAIN k.st.tasks, s \in {"running", "succeeded"} :
       Enqueue([t |-> "update", id |-> id, status |-> s, waker |-> "live"])
  /\ env' = [env EXCEPT !.updates = @ + 1]

CancelTask ==
  /\ Live /\ env.cancels < MaxCancels
  /\ \E id \in DOMAIN k.st.tasks : Enqueue([t |-> "cancel", id |-> id])
  /\ env' = [env EXCEPT !.cancels = @ + 1]

CancelTurn ==
  /\ Live /\ env.cancels < MaxCancels /\ k.st.status = "running"
  /\ k' = [k EXCEPT !.fired = TRUE]
  /\ env' = [env EXCEPT !.cancels = @ + 1]
  /\ UNCHANGED <<phase, setup, rec, drv>>

CancelTool ==
  /\ Live /\ env.cancels < MaxCancels /\ k.pc = "invoke"
  /\ k' = [k EXCEPT !.toolFired = TRUE]
  /\ env' = [env EXCEPT !.cancels = @ + 1]
  /\ UNCHANGED <<phase, setup, rec, drv>>

(* run and apply_queued_input outside a turn.                              *)
ApplyInput ==
  /\ k.pc = "out" /\ k.st.status # "running" /\ k.inbox # <<>>
  /\ k' = apply_inbound_batch(k)
  /\ UNCHANGED <<phase, setup, rec, drv, env>>

-----------------------------------------------------------------------------
(* ReplayDriver::drive.                                                    *)
Deliverable(i) == i.t # "answer"

Queue(inputs) == Folded(LAMBDA q, i : IF Deliverable(i) THEN Append(q, i) ELSE q, <<>>, inputs)

(* The run has stopped with nothing queued; a second kernel is created.    *)
StartReplay ==
  /\ Live /\ k.pc = "out" /\ k.st.status # "running" /\ k.inbox = <<>>
  /\ phase' = "replay"
  /\ LET tape == from_log(k.log)
     IN  drv' = [recorded |-> k.log, tape |-> tape, queue |-> Queue(tape.inputs),
                 tracker |-> <<>>, result |-> "none"]
  /\ k' = NewKernel("replay") /\ rec' = NewRecorder
  /\ UNCHANGED <<setup, env>>

(* deliver_matching: how many inputs at the head belong to this point.     *)
matching(at, turn) ==
  CHOOSE n \in 0 .. Len(drv.queue) :
    /\ \A i \in 1 .. n : drv.queue[i].at = at /\ drv.queue[i].turn = turn
    /\ n < Len(drv.queue) => ~(drv.queue[n + 1].at = at /\ drv.queue[n + 1].turn = turn)

AsInbound(i) == IF i.t = "user" THEN [t |-> "user", n |-> i.n]
                ELSE [t |-> "update", id |-> i.id, status |-> i.status, waker |-> "replay"]

Delivered(n) == [i \in 1 .. n |-> AsInbound(drv.queue[i])]

(* Before every turn, and while inputs match.                              *)
DriveOn ==
  /\ phase = "replay" /\ k.pc = "out" /\ k.inbox = <<>>
  /\ LET run == k.st.status = "running"
         n   == IF run THEN matching("end_of_turn", k.st.turn + 1) ELSE matching(k.st.status, k.st.turn)
     IN  /\ run \/ n > 0
         /\ k' = [k EXCEPT !.inbox = Delivered(n), !.pc = IF run THEN "driven" ELSE "out"]
         /\ drv' = [drv EXCEPT !.queue = SubSeq(@, n + 1, Len(@)), !.tracker = k.ck]
  /\ UNCHANGED <<phase, setup, rec, env>>

DriveEnds ==
  /\ phase = "replay" /\ k.pc = "out" /\ k.inbox = <<>> /\ k.st.status # "running"
  /\ matching(k.st.status, k.st.turn) = 0
  /\ phase' = "done"
  /\ drv' = [drv EXCEPT !.result = IF k.st.status = "created" THEN "incomplete"
                                   ELSE IF drv.queue = <<>> THEN k.st.status ELSE "early"]
  /\ UNCHANGED <<setup, k, rec, env>>

-----------------------------------------------------------------------------
Init ==
  /\ phase = "record" /\ setup \in Setups
  /\ k = NewKernel("live") /\ rec = NewRecorder
  /\ drv = [recorded |-> <<>>, tape |-> <<>>, queue |-> <<>>, tracker |-> <<>>, result |-> "none"]
  /\ env = [users |-> 0, updates |-> 0, cancels |-> 0]

Next == \/ UserMessage \/ Update \/ CancelTask \/ CancelTurn \/ CancelTool
        \/ ApplyInput \/ BeginTurn \/ Respond \/ StartTool \/ InvokeTool \/ AfterTool \/ EndTurn
        \/ StartReplay \/ DriveOn \/ DriveEnds

Spec == Init /\ [][Next]_vars

-----------------------------------------------------------------------------
(* diff_logs.                                                              *)
VOLATILE_KINDS  == {"provider_retry", "warning", "recovered"}
VOLATILE_FIELDS == [log_opened |-> {"mode"}, model_response |-> {"attempts"}, tool_result |-> {"duration"},
                    task_update |-> {"waker"}, turn_failed |-> {"attempts"}]

strip_volatile(e) ==
  LET gone == IF e.kind \in DOMAIN VOLATILE_FIELDS THEN VOLATILE_FIELDS[e.kind] ELSE {}
  IN  [f \in DOMAIN e \ gone |-> IF f = "state" THEN state_hash(e[f]) ELSE e[f]]

comparable(log) ==
  LET kept == SelectSeq(log, LAMBDA e : e.kind \notin VOLATILE_KINDS)
  IN  [i \in DOMAIN kept |-> strip_volatile(kept[i])]

-----------------------------------------------------------------------------
(* Properties.                                                             *)

(* The cassette of the Recorder is the one that is read from the log, at   *)
(* every turn boundary of a recording and of a replay, whatever was        *)
(* cancelled, failed, compacted or unknown: the log is a complete cassette *)
(* (event-schema.md 5.1).                                                  *)
RecorderAgrees == k.pc = "out" => RecorderCassette = from_log(k.log)

(* What a replay cannot reproduce: cancels of a turn or a task, answers    *)
(* that never came, updates that were ignored, and inputs that were taken  *)
(* in two batches at one point.                                            *)
IsInput(e) == e.kind \in {"user_message", "task_update"}

Irreproducible(log) ==
  {i \in DOMAIN log :
     \/ log[i].kind = "cancelled" /\ log[i].scope \in {"turn", "task"}
     \/ log[i].kind = "turn_failed" /\ log[i].class # "middleware"
     \/ log[i].kind = "task_update" /\ log[i].at = "ignored"
     \/ /\ log[i].kind = "checkpoint" /\ i > 1 /\ i < Len(log)
        /\ IsInput(log[i - 1]) /\ IsInput(log[i + 1])
        /\ log[i - 1].at = log[i + 1].at /\ log[i - 1].turn = log[i + 1].turn}

(* A recording without such an event is reproduced: the log of the replay  *)
(* is the recorded one but for what differs from run to run (D16), nothing *)
(* is missed, every input is delivered, and the cassette of the replay is  *)
(* the recorded one.  With such an event, all turns before it are.         *)
ReplayFaithful ==
  phase = "done" =>
    LET a   == comparable(drv.recorded)
        b   == comparable(k.log)
        odd == {a[i].turn : i \in Irreproducible(a)}
    IN  IF odd = {}
          THEN /\ a = b /\ drv.result \notin {"early"}
               /\ RecorderCassette = drv.tape
          ELSE LET t == CHOOSE x \in odd : \A y \in odd : x <= y
               IN  \A i \in DOMAIN a : a[i].turn < t => i \in DOMAIN b /\ b[i] = a[i]
=============================================================================
