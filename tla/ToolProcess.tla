---------------------------- MODULE ToolProcess ----------------------------
(***************************************************************************)
(* The processes of tools: invoke_tool() and ensure_session_process() of   *)
(* the kernel, the session transport (crates/sandbox/src/session.rs), the  *)
(* supervisor of one-shot launches (launch.rs) on the children of the      *)
(* native host (host/src/native/process.rs), and run_script, whose launch  *)
(* is a task of its own.                                                   *)
(*                                                                         *)
(* A future that is dropped stops where it is: what it would have done     *)
(* next is done by nobody, unless a guard does it.                         *)
(***************************************************************************)
EXTENDS Sandbox

CONSTANTS Tools,       \* name -> [kind, program, policy]; kind is "session", "stateless" or "script"
          MaxCalls,    \* bound: calls of a session
          MaxCancels,  \* bound: cancels by the user
          MaxStops     \* bound: how often the session suspends

ASSUME CallsAssumption ==
  /\ MaxCalls \in Nat /\ MaxCancels \in Nat /\ MaxStops \in Nat
  /\ \A t \in DOMAIN Tools : Tools[t].kind \in {"session", "stateless", "script"}

VARIABLES pc,        \* where the kernel is
          call,      \* the call: [n, tool, pid, id]
          token,     \* the token of the call is cancelled
          cancels, stops,
          procs,     \* all processes, in the order they were started
          session,   \* Kernel.session_procs: tool -> process, or 0
          tasks,     \* run_script calls: [st, pid]
          ending,    \* terminate_session_processes runs: to go on, or for good
          result     \* what the last call returned, or "none" while it runs: [n, kind, of]

vars == <<pc, call, token, cancels, stops, procs, session, tasks, ending, result>>

Pids     == DOMAIN procs
SessionTools == {t \in DOMAIN Tools : Tools[t].kind = "session"}
NoToolCall == [n |-> 0, tool |-> "none", pid |-> 0, id |-> 0]
Garbled  == 0     \* a request line that is no JSON, its answer has the id null
TooLong  == -1    \* a line beyond MAX_LINE_BYTES

(* st: "running", "zombie" (it has exited), "reaped".  sig: the strongest  *)
(* signal that was sent to the running process.  sup: where the supervisor *)
(* of a one-shot launch is: it waits for the exit ("wait"), for the end of *)
(* the output ("drain"), through the grace of a timeout ("term"), or the   *)
(* guard of the dropped supervisor has a termination spawned ("bgq") and   *)
(* under way ("bg").  dead to torn: JsonRpcSession; a request is [id, n].  *)
NewProc(tool) ==
  [tool |-> tool, st |-> "running", sig |-> "none",
   sup |-> IF Tools[tool].kind = "session" THEN "none" ELSE "wait",
   dead |-> FALSE, next |-> 0, in |-> <<>>, out |-> <<>>, torn |-> FALSE]

Running(p) == procs[p].st = "running"

(* kill(2).  To a process that was reaped it fails, or it hits another.    *)
Signalled(proc, sig) ==
  IF proc.st # "running" \/ proc.sig = "kill" THEN proc ELSE [proc EXCEPT !.sig = sig]

Return(kind, of) ==
  /\ pc' = "idle" /\ token' = FALSE /\ call' = NoToolCall
  /\ result' = [n |-> call.n, kind |-> kind, of |-> of]

-----------------------------------------------------------------------------
(* The kernel starts a call.                                               *)
Call ==
  /\ pc = "idle" /\ result.n < MaxCalls
  /\ \E t \in DOMAIN Tools :
       /\ call' = [NoToolCall EXCEPT !.n = result.n + 1, !.tool = t]
       /\ pc' = IF Tools[t].kind = "session" THEN "ensure" ELSE "launch"
  /\ result' = [n |-> result.n + 1, kind |-> "none", of |-> 0]
  /\ UNCHANGED <<token, cancels, stops, procs, session, tasks, ending>>

(* reaped() collects the exit; is_alive() is false after it.               *)
Polled(proc) == IF proc.st = "zombie" THEN [proc EXCEPT !.st = "reaped"] ELSE proc
is_alive(proc) == ~proc.dead /\ Polled(proc).st # "reaped"

(* kill_process() up to its first sleep.                                   *)
KillStarts(proc) ==
  LET q == [Polled(proc) EXCEPT !.dead = TRUE]
  IN  IF q.st = "reaped" THEN q ELSE Signalled(q, "term")

(* ensure_session_process(): a live one is kept, a dead one removed and    *)
(* terminated before the launch.                                           *)
Ensure ==
  /\ pc = "ensure"
  /\ LET p == session[call.tool]
     IN  IF p = 0 THEN pc' = "relaunch" /\ UNCHANGED <<call, procs, session>>
         ELSE IF is_alive(procs[p]) THEN
              /\ pc' = "call" /\ call' = [call EXCEPT !.pid = p] /\ UNCHANGED <<procs, session>>
         ELSE LET q == KillStarts(procs[p])
              IN  /\ procs' = [procs EXCEPT ![p] = q]
                  /\ session' = [session EXCEPT ![call.tool] = 0]
                  /\ pc' = IF q.st = "reaped" THEN "relaunch" ELSE "killing"
                  /\ call' = [call EXCEPT !.pid = p]
  /\ UNCHANGED <<token, cancels, stops, tasks, ending, result>>

(* kill_process() goes on: it polls for the exit, kills after the grace    *)
(* and polls again.  It runs in ensure ("killing"), in terminate ("down")  *)
(* and in a call whose answer could not be read ("broken").                *)
Killer == pc \in {"killing", "down", "broken"}

KillPolls ==
  /\ Killer /\ (pc = "broken" => ~token) /\ procs[call.pid].st = "zombie"
  /\ procs' = [procs EXCEPT ![call.pid] = Polled(@)]
  /\ CASE pc = "killing" -> pc' = "relaunch" /\ UNCHANGED <<call, token, result>>
       [] pc = "down"    -> pc' = "ending" /\ call' = NoToolCall /\ UNCHANGED <<token, result>>
       [] pc = "broken"  -> Return("Failed", 0)
  /\ UNCHANGED <<cancels, stops, session, tasks, ending>>

KillGraceOver ==
  /\ Killer /\ (pc = "broken" => ~token) /\ Running(call.pid) /\ procs[call.pid].sig # "kill"
  /\ procs' = [procs EXCEPT ![call.pid] = Signalled(@, "kill")]
  /\ UNCHANGED <<pc, call, token, cancels, stops, session, tasks, ending, result>>

Fresh == Len(procs) + 1

(* launch_session(); a process that has exited by then is terminated and   *)
(* not tried again.                                                        *)
LaunchSession ==
  /\ pc = "relaunch"
  /\ \/ /\ Return("Failed", 0) /\ UNCHANGED <<procs, session>>       \* prepare or spawn fails
     \/ /\ prepare(Tools[call.tool].policy, Tools[call.tool].program)
        /\ procs' = Append(procs, NewProc(call.tool))
        /\ session' = [session EXCEPT ![call.tool] = Fresh]
        /\ pc' = "call" /\ call' = [call EXCEPT !.pid = Fresh] /\ UNCHANGED <<token, result>>
     \/ /\ prepare(Tools[call.tool].policy, Tools[call.tool].program)
        /\ procs' = Append(procs, [NewProc(call.tool) EXCEPT !.st = "reaped", !.dead = TRUE])
        /\ Return("Failed", 0) /\ UNCHANGED session
  /\ UNCHANGED <<cancels, stops, tasks, ending>>

-----------------------------------------------------------------------------
(* JsonRpcSession::call().                                                 *)
StartCall ==
  /\ pc = "call" /\ ~token
  /\ IF is_alive(procs[call.pid])
       THEN /\ procs' = [procs EXCEPT ![call.pid].next = @ + 1]
            /\ call' = [call EXCEPT !.id = procs[call.pid].next + 1]
            /\ pc' = "write" /\ UNCHANGED <<token, result>>
       ELSE /\ procs' = [procs EXCEPT ![call.pid] = [Polled(@) EXCEPT !.dead = TRUE]]
            /\ Return("Failed", 0)
  /\ UNCHANGED <<cancels, stops, session, tasks, ending>>

(* The request goes out after what a cut write has left in the pipe.       *)
Write ==
  /\ pc = "write" /\ ~token
  /\ IF Running(call.pid)
       THEN /\ procs' = [procs EXCEPT ![call.pid].in =
                           Append(@, [id |-> IF procs[call.pid].torn THEN Garbled ELSE call.id, n |-> call.n]),
                                      ![call.pid].torn = FALSE]
            /\ pc' = "read" /\ UNCHANGED <<call, token, result>>
       ELSE /\ procs' = [procs EXCEPT ![call.pid].dead = TRUE]
            /\ Return("Failed", 0)
  /\ UNCHANGED <<cancels, stops, session, tasks, ending>>

(* The kind of result that a line is.                                      *)
parse_response_AnyId(line, id) == IF line.id = Garbled THEN "Error" ELSE "Value"

parse_response(line, id) ==
  IF line.id = Garbled THEN "Error" ELSE IF line.id = id THEN "Value" ELSE "Mismatch"

Read ==
  /\ pc = "read" /\ ~token /\ procs[call.pid].out # <<>>
  /\ LET line == Head(procs[call.pid].out)
     IN  IF line.id = TooLong
           THEN /\ procs' = [procs EXCEPT ![call.pid] = KillStarts([@ EXCEPT !.out = Tail(procs[call.pid].out)])]
                /\ IF procs'[call.pid].st = "reaped" THEN Return("Failed", 0)
                   ELSE pc' = "broken" /\ UNCHANGED <<call, token, result>>
           ELSE /\ procs' = [procs EXCEPT ![call.pid].out = Tail(@)]
                /\ Return(parse_response(line, call.id), line.n)
  /\ UNCHANGED <<cancels, stops, session, tasks, ending>>

ReadEof ==
  /\ pc = "read" /\ ~token /\ procs[call.pid].out = <<>> /\ ~Running(call.pid)
  /\ procs' = [procs EXCEPT ![call.pid].dead = TRUE]
  /\ Return("Failed", 0)
  /\ UNCHANGED <<cancels, stops, session, tasks, ending>>

-----------------------------------------------------------------------------
(* launch_stateless() and supervise().                                     *)

(* The supervising future is dropped: TerminateOnDrop.                     *)
Dropped_KillOnDrop(proc) ==
  IF proc.sup \in {"wait", "drain", "term"}
    THEN [Signalled(proc, "kill") EXCEPT !.sup = "dropped"] ELSE proc

Dropped(proc) == IF proc.sup \in {"wait", "drain", "term"} THEN [proc EXCEPT !.sup = "bgq"] ELSE proc

Supervises(p, set) == p \in Pids /\ procs[p].sup \in set

(* The call that waits for p, if it is not a script of the background.     *)
Awaits(p) == pc = "wait" /\ call.pid = p

(* What the end of the supervision of p gives: to the call, or to the      *)
(* future of the task, which delivers it (Registrar::watch).               *)
Report_NotTimeouts(p, kind) ==
  IF Awaits(p) THEN Return(kind, call.n) /\ UNCHANGED tasks
  ELSE /\ tasks' = [k \in DOMAIN tasks |->
                      IF tasks[k].pid = p /\ tasks[k].st = "watched" /\ kind # "Timeout"
                        THEN [tasks[k] EXCEPT !.st = "reported"] ELSE tasks[k]]
       /\ UNCHANGED <<pc, token, call, result>>

Report(p, kind) ==
  IF Awaits(p) THEN Return(kind, call.n) /\ UNCHANGED tasks
  ELSE /\ tasks' = [k \in DOMAIN tasks |->
                      IF tasks[k].pid = p /\ tasks[k].st = "watched"
                        THEN [tasks[k] EXCEPT !.st = "reported"] ELSE tasks[k]]
       /\ UNCHANGED <<pc, token, call, result>>

LaunchStateless ==
  /\ pc = "launch" /\ ~token /\ Tools[call.tool].kind = "stateless"
  /\ \/ /\ Return("Failed", 0) /\ UNCHANGED procs          \* prepare or spawn fails
     \/ /\ prepare(Tools[call.tool].policy, Tools[call.tool].program)
        /\ procs' = Append(procs, NewProc(call.tool))
        /\ pc' = "wait" /\ call' = [call EXCEPT !.pid = Fresh] /\ UNCHANGED <<token, result>>
  /\ UNCHANGED <<cancels, stops, session, tasks, ending>>

(* child.wait() returns and the output is read to its end.  exited.send()  *)
(* reaches nobody: no terminate() is subscribed while wait() is polled,    *)
(* and a watch channel without receivers keeps its value.                  *)
ExitSeen(p) ==
  /\ Supervises(p, {"wait"}) /\ procs[p].st = "zombie" /\ (Awaits(p) => ~token)
  /\ procs' = [procs EXCEPT ![p].st = "reaped", ![p].sup = "drain"]
  /\ UNCHANGED <<pc, call, token, cancels, stops, session, tasks, ending, result>>

(* The output has ended, or READER_DRAIN is over while somebody else holds *)
(* it open.                                                                *)
DrainEnds(p) ==
  /\ Supervises(p, {"drain"}) /\ (Awaits(p) => ~token)
  /\ procs' = [procs EXCEPT ![p].sup = "done"]
  /\ Report(p, "Output")
  /\ UNCHANGED <<cancels, stops, session, ending>>

(* The deadline of collect(), which counts from the spawn: escalate()      *)
(* sends SIGTERM, and SIGKILL if the child has not exited after its grace. *)
HostDeadline(p) ==
  /\ Supervises(p, {"wait"}) /\ procs[p].sig = "none" /\ (Awaits(p) => ~token)
  /\ procs' = [procs EXCEPT ![p] = Signalled(@, "term")]
  /\ UNCHANGED <<pc, call, token, cancels, stops, session, tasks, ending, result>>

HostKill(p) ==
  /\ Supervises(p, {"wait"}) /\ Running(p) /\ procs[p].sig = "term" /\ (Awaits(p) => ~token)
  /\ procs' = [procs EXCEPT ![p] = Signalled(@, "kill")]
  /\ UNCHANGED <<pc, call, token, cancels, stops, session, tasks, ending, result>>

(* The timeout of supervise(): terminate(), on what may have been reaped.  *)

SupTimeout(p) ==
  /\ Supervises(p, {"wait", "drain"}) /\ (Awaits(p) => ~token)
  /\ procs' = [procs EXCEPT ![p] = [Signalled(@, "term") EXCEPT !.sup = "term"]]
  /\ UNCHANGED <<pc, call, token, cancels, stops, session, tasks, ending, result>>

(* terminate() in the background, after the supervisor was dropped.        *)
BgTerm(p) ==
  /\ Supervises(p, {"bgq"})
  /\ procs' = [procs EXCEPT ![p] = [Signalled(@, "term") EXCEPT !.sup = "bg"]]
  /\ UNCHANGED <<pc, call, token, cancels, stops, session, tasks, ending, result>>

(* The grace of terminate() is over; the last reference to the child goes. *)
GraceOver_NoKill(p) ==
  /\ Supervises(p, {"term", "bg"}) /\ (Awaits(p) => ~token)
  /\ procs' = [procs EXCEPT ![p].sup = "dropped"]
  /\ Report(p, "Timeout")
  /\ UNCHANGED <<cancels, stops, session, ending>>

GraceOver(p) ==
  /\ Supervises(p, {"term", "bg"}) /\ (Awaits(p) => ~token)
  /\ procs' = [procs EXCEPT ![p] = [Signalled(@, "kill") EXCEPT !.sup = "dropped"]]
  /\ Report(p, "Timeout")
  /\ UNCHANGED <<cancels, stops, session, ending>>

(* tokio reaps what was dropped.                                           *)
Reap(p) ==
  /\ Supervises(p, {"dropped"}) /\ procs[p].st = "zombie"
  /\ procs' = [procs EXCEPT ![p].st = "reaped"]
  /\ UNCHANGED <<pc, call, token, cancels, stops, session, tasks, ending, result>>

-----------------------------------------------------------------------------
(* The races of invoke_tool().                                             *)
Invoking == pc \in {"call", "write", "read", "broken", "launch", "wait"}

Cancel ==
  /\ pc \notin {"idle", "ending", "down", "ended"} /\ ~token /\ cancels < MaxCancels
  /\ token' = TRUE /\ cancels' = cancels + 1
  /\ UNCHANGED <<pc, call, stops, procs, session, tasks, ending, result>>

(* The future of the call is dropped where it is.  The timeout of          *)
(* invoke_tool() began before the one inside, which has the same length,   *)
(* and its select! looks at the token first: JsonRpcSession::call() sees   *)
(* neither, or sees it in the same poll, and then its kill_process() is    *)
(* dropped at its first sleep.  A write may be cut in the middle of the    *)
(* line.                                                                   *)
DropCall(kind) ==
  /\ \/ pc # "write" /\ procs' = [p \in Pids |-> IF p = call.pid THEN Dropped(procs[p]) ELSE procs[p]]
     \/ pc = "write" /\ UNCHANGED procs
     \/ pc = "write" /\ procs' = [procs EXCEPT ![call.pid].torn = TRUE]
     \/ pc = "read" /\ procs' = [procs EXCEPT ![call.pid] = KillStarts(@)]
  /\ Return(kind, 0)

CancelSeen ==
  /\ Invoking /\ token
  /\ DropCall("Cancelled")
  /\ UNCHANGED <<cancels, stops, session, tasks, ending>>

Timeout_NotReading ==
  /\ pc \in {"write", "broken", "wait"} /\ ~token
  /\ DropCall("Timeout")
  /\ UNCHANGED <<cancels, stops, session, tasks, ending>>

Timeout ==
  /\ pc \in {"write", "read", "broken", "wait"} /\ ~token
  /\ DropCall("Timeout")
  /\ UNCHANGED <<cancels, stops, session, tasks, ending>>

-----------------------------------------------------------------------------
(* run_script: the launch is a task, watched by the registrar.             *)
InvokeScript ==
  /\ pc = "launch" /\ ~token /\ Tools[call.tool].kind = "script"
  /\ tasks' = Append(tasks, [st |-> "watched", pid |-> 0, tool |-> call.tool])
  /\ Return("Task", call.n)
  /\ UNCHANGED <<cancels, stops, procs, session, ending>>

LaunchScript(k) ==
  /\ k \in DOMAIN tasks /\ tasks[k].st = "watched" /\ tasks[k].pid = 0
  /\ \/ tasks' = [tasks EXCEPT ![k].st = "reported"] /\ UNCHANGED procs
     \/ /\ prepare(Tools[tasks[k].tool].policy, Tools[tasks[k].tool].program)
        /\ procs' = Append(procs, NewProc(tasks[k].tool))
        /\ tasks' = [tasks EXCEPT ![k].pid = Fresh]
  /\ UNCHANGED <<pc, call, token, cancels, stops, session, ending, result>>

(* The processes of tasks that are aborted (StopOnDrop): the launch is     *)
(* dropped, wherever it is.                                                *)
Aborted_Detached(set) == procs

Aborted(set) ==
  [p \in Pids |-> IF \E k \in set : tasks[k].pid = p THEN Dropped(procs[p]) ELSE procs[p]]

Watched == {k \in DOMAIN tasks : tasks[k].st = "watched"}

AbortTask(k) ==
  /\ k \in Watched
  /\ procs' = Aborted({k}) /\ tasks' = [tasks EXCEPT ![k].st = "stopped"]
  /\ UNCHANGED <<pc, call, token, cancels, stops, session, ending, result>>

-----------------------------------------------------------------------------
(* suspend() and end(): terminate_session_processes(), one by one.         *)
Suspend ==
  /\ pc = "idle" /\ Watched # {} /\ stops < MaxStops
  /\ pc' = "ending" /\ ending' = "suspend" /\ stops' = stops + 1
  /\ UNCHANGED <<call, token, cancels, procs, session, tasks, result>>

End ==
  /\ pc = "idle"
  /\ pc' = "ending" /\ ending' = "end"
  /\ UNCHANGED <<call, token, cancels, stops, procs, session, tasks, result>>

terminate_session_processes ==
  /\ pc = "ending"
  /\ \E t \in DOMAIN session :
       LET p == session[t]
       IN  /\ p # 0
           /\ session' = [session EXCEPT ![t] = 0]
           /\ procs' = [procs EXCEPT ![p] = KillStarts(@)]
           /\ IF procs'[p].st = "reaped" THEN UNCHANGED <<pc, call>>
              ELSE pc' = "down" /\ call' = [NoToolCall EXCEPT !.pid = p]
  /\ UNCHANGED <<token, cancels, stops, tasks, ending, result>>

(* end() aborts the tasks (abort_all); a suspended session is resumed.     *)
Terminated ==
  /\ pc = "ending" /\ \A t \in DOMAIN session : session[t] = 0
  /\ \/ /\ ending = "suspend" /\ pc' = "idle" /\ UNCHANGED <<procs, tasks>>
     \/ /\ ending = "end" /\ pc' = "ended"
        /\ procs' = Aborted(Watched)
        /\ tasks' = [k \in DOMAIN tasks |-> IF k \in Watched THEN [tasks[k] EXCEPT !.st = "stopped"] ELSE tasks[k]]
  /\ ending' = "none"
  /\ UNCHANGED <<call, token, cancels, stops, session, result>>

-----------------------------------------------------------------------------
(* The processes themselves.  A session process answers one line with one  *)
(* line, in order.                                                         *)
GuestAnswers(p) ==
  /\ Running(p) /\ procs[p].in # <<>>
  /\ LET line == Head(procs[p].in)
     IN  \E id \in {line.id, TooLong} :
           procs' = [procs EXCEPT ![p].in = Tail(@), ![p].out = Append(@, [line EXCEPT !.id = id])]
  /\ UNCHANGED <<pc, call, token, cancels, stops, session, tasks, ending, result>>

(* A process may exit at any time; SIGTERM it may also ignore.             *)
Exits(p) ==
  /\ Running(p)
  /\ procs' = [procs EXCEPT ![p].st = "zombie", ![p].sig = "none", ![p].in = <<>>]
  /\ UNCHANGED <<pc, call, token, cancels, stops, session, tasks, ending, result>>

(* SIGKILL ends it.                                                        *)
Dies(p) == p \in Pids /\ procs[p].sig = "kill" /\ Exits(p)

-----------------------------------------------------------------------------
ToolInit ==
  /\ pc = "idle" /\ call = NoToolCall /\ token = FALSE /\ cancels = 0 /\ stops = 0
  /\ procs = <<>> /\ session = [t \in SessionTools |-> 0]
  /\ tasks = <<>> /\ ending = "none" /\ result = [n |-> 0, kind |-> "none", of |-> 0]

(* What the kernel does by itself: it is at one place at a time.           *)
KernelStep ==
  \/ Ensure \/ KillPolls \/ LaunchSession \/ StartCall \/ Write \/ Read \/ ReadEof
  \/ LaunchStateless \/ InvokeScript \/ CancelSeen \/ terminate_session_processes \/ Terminated

Next ==
  \/ Call \/ Cancel \/ Suspend \/ End \/ KernelStep \/ KillGraceOver \/ Timeout
  \/ \E k \in DOMAIN tasks : LaunchScript(k) \/ AbortTask(k)
  \/ \E p \in Pids : \/ ExitSeen(p) \/ DrainEnds(p) \/ HostDeadline(p) \/ HostKill(p)
                     \/ SupTimeout(p) \/ BgTerm(p) \/ GraceOver(p) \/ Reap(p)
                     \/ GuestAnswers(p) \/ Exits(p)

(* The tasks of the runtime run, its timers fire, a signal takes effect.   *)
(* No process has to answer, to exit or to close its output.               *)
Fairness ==
  /\ WF_vars(KernelStep) /\ WF_vars(KillGraceOver) /\ WF_vars(Timeout)
  /\ \A k \in 1 .. MaxCalls : WF_vars(LaunchScript(k))
  /\ \A p \in 1 .. MaxCalls : /\ WF_vars(ExitSeen(p)) /\ WF_vars(DrainEnds(p))
                              /\ WF_vars(HostDeadline(p)) /\ WF_vars(HostKill(p))
                              /\ WF_vars(SupTimeout(p)) /\ WF_vars(BgTerm(p))
                              /\ WF_vars(GraceOver(p)) /\ WF_vars(Dies(p))

Spec == ToolInit /\ [][Next]_vars /\ Fairness

-----------------------------------------------------------------------------
(* Properties.                                                             *)

CallPlaces == {"idle", "ensure", "killing", "relaunch", "call", "write", "read", "broken",
               "launch", "wait", "ending", "down", "ended"}
CallType == [n : Nat, tool : DOMAIN Tools \cup {"none"}, pid : Nat, id : Nat]
Message == [id : Int, n : Nat]
ProcType ==
  [tool : DOMAIN Tools, st : {"running", "zombie", "reaped"}, sig : {"none", "term", "kill"},
   sup : {"none", "wait", "drain", "term", "bgq", "bg", "dropped", "done"},
   dead : BOOLEAN, next : Nat, in : Seq(Message), out : Seq(Message), torn : BOOLEAN]
ScriptTask == [st : {"watched", "reported", "stopped"}, pid : Nat,
               tool : {t \in DOMAIN Tools : Tools[t].kind = "script"}]
Kinds == {"none", "Value", "Error", "Mismatch", "Output", "Task", "Failed", "Cancelled", "Timeout"}
ResultType == [n : Nat, kind : Kinds, of : Nat]

(* The types of the state: only the processes of one-shot launches have a  *)
(* supervisor, and a tool is in the map with a process of its own.         *)
TypeOK ==
  /\ pc \in CallPlaces /\ call \in CallType
  /\ token \in BOOLEAN /\ ending \in {"none", "suspend", "end"}
  /\ procs \in Seq(ProcType)
  /\ \A p \in Pids : procs[p].sup = "none" <=> Tools[procs[p].tool].kind = "session"
  /\ session \in [SessionTools -> 0 .. Len(procs)]
  /\ \A t \in SessionTools : session[t] # 0 => procs[session[t]].tool = t
  /\ tasks \in Seq(ScriptTask) /\ \A k \in DOMAIN tasks : tasks[k].pid \in 0 .. Len(procs)
  /\ result \in ResultType

(* A process that runs is held by something that will end it: it is in the *)
(* map of the session, the kernel is killing it or waits for it, its task  *)
(* can still be aborted, or its termination is under way.  No cut call, no *)
(* aborted task and no relaunch leaves one behind.                         *)
Owned ==
  \A p \in Pids : Running(p) /\ procs[p].sig # "kill" =>
    \/ \E t \in DOMAIN session : session[t] = p
    \/ Killer /\ call.pid = p
    \/ Awaits(p)
    \/ \E k \in Watched : tasks[k].pid = p
    \/ procs[p].sup \in {"bgq", "bg"}

(* SIGKILL comes after SIGTERM, whichever timeout, cancel or end stops the *)
(* process, and also where a dropped future does: as long as its kernel    *)
(* lives, a script can clean up.  (A kernel that is dropped without `end`  *)
(* leaves its children to kill_on_drop, which sends SIGKILL at once.)      *)
GraceBeforeKill ==
  [][\A p \in Pids : procs'[p].sig = "kill" => procs[p].sig \in {"term", "kill"}]_vars

(* A value that the model sees is the answer to its own request, whatever  *)
(* was cut before it.  Errors are not compared: one without an id is taken *)
(* by whichever call reads it, also by a later one (parse_response).       *)
OwnAnswer == result.kind = "Value" => result.of = result.n

(* A call returns, whatever the process does.                              *)
CallReturns == (pc \notin {"idle", "ended"}) ~> (pc \in {"idle", "ended"})

(* A script in the background is reported or stopped, even if it ignores   *)
(* SIGTERM and somebody else holds its output open.                        *)
TaskReported ==
  \A k \in 1 .. MaxCalls : (k \in DOMAIN tasks /\ tasks[k].st = "watched") ~>
                          (k \in DOMAIN tasks /\ tasks[k].st # "watched")

(* A session that has ended leaves no process behind.                      *)
EndedLeavesNothing == (pc = "ended") ~> (\A p \in Pids : ~Running(p))

(* A session process that answers every request is never asked for the     *)
(* answer to another one.                                                  *)
InSync == result.kind # "Mismatch"
=============================================================================
