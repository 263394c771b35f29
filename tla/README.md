# grist-agent: a TLA+ verification development

grist-agent is an agent harness. A *kernel* process runs one *session*: a
conversation between a user, a model and tools. Everything the session does is an
append-only *event log*; a session survives the death of its process because the
next process restores the latest checkpoint of that log. A protocol server and a
daemon drive kernels on behalf of editors.

This directory holds the TLA+ modules that model the system, the TLC
configurations that check them, and the proofs that TLAPS checks.
`PROJECT.json` maps every definition to the lines it models.

## 1. Inventory

| Component | State it keeps | Operations | Talks to |
|---|---|---|---|
| Event log (`kernel/src/log`) | the file, the in-memory lines | create, open (parse, cut the torn tail), append (stage, write, flush, fsync, extend), effective / latest_checkpoint / restore / ends_cleanly | called by the session loop |
| Session loop (`kernel/src/loop_`) | `State` (turn, status, messages, tasks), checkpoint hash, inbox, cancel tokens, map of wakers, session processes | create, open, run, run_turn, apply_queued_input, suspend, resume, compact, end; handle: enqueue_user_message, deliver_task_update, cancel | provider, tools, middleware (calls); wakers and handles (channel, tokens) |
| Provider retry (`loop_/retry.rs`) | attempt counter | attempts, back-off, cancellation of a call or a sleep, forwarding of deltas | provider |
| Replay (`kernel/src/replay`) | cassette, Recorder, queue of inputs, checkpoint tracker | record, build a cassette from a log, serve answers by key, deliver inputs again, compare two logs | the loop, through the provider, tool and middleware traits |
| Spill, redaction, hashing | secrets, thresholds | pure functions on results, strings, JSON | the loop and the log |
| Capabilities and policy (`capability.rs`, `sandbox.rs`) | none | order on atoms, coverage, normalisation, derivation of a policy, `FsPolicy::check` | profiles, sandbox, host |
| Session driver and server (`orchestrator/src/acp/{session,agent,project}.rs`) | command channel, registry of open sessions, `cancel_requested`, the projector | prompt, cancel, close, load, resume, status; projection of events and deltas | one kernel per session, the client |
| Daemon and connector (`acp/{daemon,connect}.rs`) | sessions of a connection, kernel processes | spawn, route, kill | kernel processes over stdio, clients over a socket |
| Profiles (`profiles/src`) | memo and stack of one resolution | validate files, expand atoms and paths, merge layers, narrow by the project, resolve sub-agents, build the chain | launcher, extension loader, kernel |
| Providers (`providers/src`) | the partial response | SSE parsing, accumulation of chunks, error classes, timeouts, rendering of the history | HTTP endpoint, retry |
| Sandbox and tools (`sandbox/src`) | session process, supervisor, script tasks | launch, call, kill, terminate, watch; read, write, edit | host, kernel |
| Host (`host/src`) | child processes, question queue | spawn, wait, terminate, resolve and check a path, ask | operating system |
| Extensions (`ext/src`) | loaded tools | load, refuse collisions | launcher, sandbox |

What is hard in it:

* *concurrency*: the loop is one sequential task, but user messages, task
  updates, cancels of a turn, a tool or a task, and the futures of in-process
  tasks happen between any two of its steps; a future that is dropped stops at its
  last await, and only a guard does what it would have done next;
* *failure*: a process dies anywhere, also inside an append and while it recovers
  from an earlier death; power goes; an append is refused; a model, a tool or a
  hook fails or never answers; a stream breaks off; a child ignores SIGTERM;
* *ordering*: inbox batches mix messages, progress, results and cancels; updates
  arrive for tasks that are already closed; chunks of several calls interleave;
* *rollback*: a failed turn restores a snapshot while input has moved on;
* *time*: time-outs race answers, cancels race completions;
* *trust*: the agent may write its own project file, and agents spawn each other.

What makes it correct: a checkpoint that was acknowledged is never lost, and what a
dead process did after it is never taken for part of the session; every call of the
model is answered exactly once and in order; a task is closed exactly once and
never left without somebody who will close it; accepted input is not lost; a
cancelled turn comes to its end. What the endpoint said is what
the session keeps, shows and echoes. No agent gets more than the root was granted,
and no tool more than the session. No child process is left behind or killed without
notice. A recorded session replays to the same log.

## 2. Modules

| Module | Models |
|---|---|
| `CheckpointStore` | what the log promises: acknowledged checkpoints survive, one in doubt may or may not, nothing else is restored |
| `EventLog` | the log in detail, as the processes that work on it see it; implements `CheckpointStore` |
| `Kernel` | one session: status machine, turn, tool calls, tasks, wakers, inbox, cancellation, failure, deaths |
| `Server` | the protocol server of one kernel process: registry, handlers, the tasks they spawn, the driver and its command channel |
| `Daemon` | connections, the map from session to kernel process, opening tasks, forwarding, killing and dying |
| `Provider` | pure: SSE parser, accumulator, error classes, rendering of a request |
| `ModelCall` | one model call after another: retry over the streaming client, and the projection to the user's client; extends `Provider` |
| `Capabilities` | pure: atoms, their order, coverage, derivation of a policy |
| `Profiles` | pure: validation of files, merge, expansion, the steps of a resolution; extends `Capabilities` |
| `Resolver` | the walk over the graph of sub-agents, the comparison with the project file, assembly and launch; extends `Profiles` |
| `Sandbox` | pure: path resolution and check of the host, mounts of bubblewrap, checks before a launch, what edit does; extends `Capabilities` |
| `FileTools` | read, write and edit in two steps each, against a script that changes the tree; extends `Sandbox` |
| `ToolProcess` | the processes of session tools, one-shot tools and background scripts; extends `Sandbox` |
| `Replay` | a recorded session, its cassette and its replay |
| `EventLog_proofs` | theorems about `EventLog`: types, no checkpoint is voided, no stale tail, readability, the refinement of `CheckpointStore` |
| `Kernel_proofs` | theorems about `Kernel`: types, results of tasks, and, while the log accepts appends, messages, history, checkpoints, tasks |
| `Tools_proofs` | theorems about `ToolProcess`: types, owners of processes, answers, SIGTERM before SIGKILL; and about `FileTools` and the operators of `Sandbox`: what is opened is what was checked; bubblewrap and the host agree |
| `ModelCall_proofs` | theorems about `ModelCall` and the operators of `Provider`: types, and that the client is shown the text of each response |
| `Replay_proofs` | theorems about `Replay`: the cassette of the log is the one of the Recorder |
| `Server_proofs`, `Daemon_proofs`, `Resolver_proofs` | theorems about the module each is named after |
| `MCEventLog`, `MCKernel`, `MCServer`, `MCDaemon`, `MCResolver`, `MCModelCall`, `MCToolProcess`, `MCReplay` | the instances TLC checks; `MCToolProcess` also puts `ToolProcess` and `FileTools` side by side |

Each state module has a `TypeOK` that documents its variables, but for `Replay` and `FileTools`, whose
records are documented where they are built (the proofs about `FileTools` have `FilesTyped`). Those of `EventLog`, `Kernel`, `Server`,
`Daemon`, `ToolProcess` and `ModelCall` are proved; that of `Resolver` is not, because its proofs
need something else of the data (see below).

### EventLog

`file`, `torn` and `synced` are the disk: complete lines, whether bytes without a
newline follow, and how many lines an fsync has covered. `lines` is the process's
own copy, from which `append` takes the next seq. `op` is the append in progress:
`FileEventLog::append` is a lock, a `write_all`, a `flush`, perhaps a `sync_all` and the
extension of `lines`, and a process can die or fail in between, so it is the actions
`Stage`, `Write`, `Sync`, `Extend`, with `ShortWrite` and `SyncFail` for errors. The
file is opened for appending, so bytes left by a short write become the beginning of the
next line (`Written`). `Crash` cuts a write anywhere; `PowerLoss` takes unsynced
lines. `Open` is `FileEventLog::open` followed by the part of `Kernel::open` that
reads the log: it refuses, or stages `resumed` or `recovered` with the range it voids.

Payloads are abstracted to what a reader looks at: kind, status in a checkpoint,
voided range, whether late redaction changed the line, and (a history variable) which
process wrote it. The kinds `suspended`, `session_ended` and `session_failed` are one
kind `end`. `base` is `Kernel.checkpoint_hash`, named by the seq of its checkpoint;
`acked` is history.

### Kernel

`pc` is where the loop is; each `.await` at which somebody else can act is a step.
`st` is `Kernel.state`, `snap` the snapshot of `run_turn`. `inbox` is the unbounded
channel of the handle and `batch` what `apply_inbound_batch` took from it. `turnTok`,
`toolTok` and `ended` are `CancelState`. `wakers` is the map of live futures; a future
that resolves first leaves the map (`WakerResolves`: from here no abort reaches it)
and then delivers (`WakerDelivers`); `watched` is `Registrar.watched`. Of the log
the module keeps the latest checkpoint `ck` and whether the log ends cleanly;
`seen` and `kept` are history.

A message is its role and what it answers; a task is named by turn and index of
its call. Model, tools and middleware are external: `Reply` lets them answer, fail,
or do nothing. The actions follow the code's own order: run (`Run`, `TakeBatch`,
`ApplyBatched`, `EndBatch`), the turn phases A to F of `turn_body` (`StartTurn`,
`MidTurnCompaction`, `LogRequest`, `SendRequest`, `ModelAnswers`, `AfterModel`, the tool calls,
`DrainOne`, `TurnEnd`, `LogSuspended`), `cancel_turn`, `fail_turn`, the caller's
operations (`Suspend`, `Resume`, `Compact`, `End`), the handle, the wakers, death and
`Kernel::open`. An action whose name ends in `Fault` is the same code when the log
refuses one of its appends.

The token is looked at before the event of a request or a call is logged (`LogRequest`, `LogCall`),
and again by the selects of `call_with_retry` and `invoke_tool`, which are biased towards it: `SendRequest` and
`Invoke` are their first polls. A cancel can come in between, and between the second check and the
answer. `ensure_session_process` looks at no token (`LaunchFails` happens also after a cancel).
`cancel_task_in_state` and `apply_task_update` ask again whether the task is open, whoever calls them.

Abstracted: attempts of one request; what session processes do; the content of messages;
spill; extension events; hooks that change the state (none in the repository does in
`on_resume` or `on_compact`).

### Server

Handlers (`Receive...`) run one at a time inside the dispatch loop and never await; what
they spawn runs later: `CreateSession`, `ReopenCheck` and `Reopen` for the requests that
open a session, `SendCmd` and `TaskAnswers` for those that talk to a driver. `reg` is
`Server.sessions`, `live` the `Live` records with their kernels, `queue` the channel of each
driver. A live session is named by the request that opened it, because two requests can
open the same session id. Of the kernel the module keeps status, turn token, whether the
prompt's message is still in the inbox and whether an in-process waker is awaited; the
actions `KernelStarts` to `RunFails` are the ways `Kernel::run` moves and returns, as
`Kernel` has them in detail. `stored` is the status in the latest checkpoint, from which a
session is reopened. `lost` says that the state of the session counts an in-process waker whose process is gone, which a
clean reopening of a session left suspended or failed may find. `asked`, `cut` and `crowded` are history. session/resume differs from
session/load only in the replayed history, which is not modelled: both are `load`.

### Daemon

`sessions` is `Conn.sessions`; a process is named by the request that spawned it. The
opening task is `SpawnKernel` (with the check of session/load), `Initialized`, the kernel's
`KernelOpens`, `InsertProcess`, and `OpenFails` for every way it can end without a session.
Ownership is modelled as in the code: a process is killed when it is replaced in the map,
when its task or its close is through, when its connection closes, and when the last task
of a closed connection drops the `Conn` with its map (`DroppedWith`). That the connection to
a kernel process ends with the client's connection that carries it is taken from how
`spawn_connection` is used.

### Provider and ModelCall

A text is a sequence of pieces, and a line of the stream travels as a head, a tail and a
newline, so that a portion of bytes can end in the middle of a line. `push` and `finish`
are the SSE parser, `SlotOf` and the operators around it the accumulator (which call a
chunk belongs to, by index, by id or by neither; which block of deltas is open), `finalize`
the response, `render_assistant` and its neighbours the next request. A reply carries what
the endpoint *means* (`text`, `thinking`, `calls`) next to the lines it writes, and
`AssembledAsMeant` compares the two.

`ModelCall` is `call_with_retry`: `Send` (an attempt, under `request_timeout`), `Answer`,
`Deliver` any portion, `Eof` (which parses what is left of a line, unless the cut is inside its `data:`) or `BodyError` anywhere, also in the body of an error answer (`read_bounded`), `Forward` a delta to the sink,
`AfterError` (class, attempts, back-off, `Retry-After`), `Wake`, `Cancel` and `CancelSeen`.
Two bounded broadcast channels lead to the projector, which drops what it was too slow for.
The history of earlier turns is rendered into the request of the next.

### Capabilities, Profiles and Resolver

A file is a partial function from dotted keys to values plus its middleware; the errors
of a check are the set of its diagnostic codes. `Profiles` follows `schema.rs`, `atom.rs`, `merge.rs`
and the numbered steps of `resolve.rs`; every value is merged with the layer it came from,
and a relative path with the directory of its file. The names of `env_allow` are checked where the code does, in the
validation of the file; the expansion has no check of them.
`Resolver` keeps the recursion of `resolve_entry` as an explicit `stack` over the shared `memo`,
because what a memo entry in progress counts for depends on the order of the walk. The
resolution runs twice, with and without the project file, and is compared
(`check_project_narrowing`); then come `assemble`, the extension loader, the registry and the
chain of `Kernel::create`. `Reopen` resolves again with another project file.

Grants are compared by what they permit: `Accesses` is a set of single accesses (a
file for reading or writing, a host and port, a program, a secret, a tool, a spawn), and the
properties say of each whether it is permitted, independently of the order on atoms that the code uses.

`Worlds` is any set of worlds (the files on disk, the built-in table, the registry of tools, the
extensions) that satisfy `WorldOK`, which says what the code has made sure of before the resolution begins, or
is compiled into it: keys hold the types `schema.rs` reads them with (`TableOK`); the built-in table
is there for whatever is read without asking, and names no sub-agent (`DefaultsOK`); built-in tools ask for
concrete atoms and no secret, and a tool of an extension is named after its extension, so that
it is neither a built-in one nor one of another extension's (`BuildOK`). Everything else, in particular
what the files grant, spawn, name and leave out, is free. `SpawnedBy` is the least set of agents
that contains the children of the root and is closed under spawning.

### Sandbox, FileTools and ToolProcess

`Walk` is how the system resolves a path, the reference for `resolve_symlinks` of the host. `build_args`
is the list of mounts in the order bubblewrap applies them, `Shows` what a path then leads to.
`Names` are the names a component of a path may have, all strings in the run. A tree (`IsTree`) maps
paths to directories, files and links; what exists is in a directory that exists, and a link may
lead anywhere. The loops of the walk and of `resolve_symlinks` are repeated `Fuel` times, which in the run is more than any
of its paths needs; a walk that would need more is an error, as a path that is too long is for the system.
`FileTools` splits every host call into the check and the access.

`ToolProcess` has one kernel task (`pc`), the processes it has started (`procs`, zombies and reaped
ones included), the map `session` and the script tasks. The future of a call stops where it is
when the token fires or the timeout elapses (`DropCall`); what happens to its process depends on
where that was: nothing for a session process, the guard `TerminateOnDrop` for a supervised one
(`Dropped`), `StopOnDrop` for a script (`Aborted`). A supervisor waits for the exit, then for the end of
the output or of `READER_DRAIN`, or goes through the grace of a timeout. `HostDeadline` and `HostKill` are `escalate` of the host,
`BgTerm` and `GraceOver` its `terminate`. `KillStarts`, `KillPolls` and `KillGraceOver` are
`kill_process` of a session. A process answers, garbles, exits and ignores SIGTERM as it likes.
A request line that was cut is glued to the next one (`torn`).

### Replay

Both kernels, the recorded and the replaying one, are `k`: each operator of the kernel takes it and returns
it, with the events it logs. The control of a turn is that of `Kernel`, in fewer steps: a check point is
kept where the Recorder or the log can tell the difference. A hash is the value it is taken
of. `rec` is the Recorder, `drv` the driver with the cassette of the recorded log
(`from_log`, a fold of `FromEvent`), the inputs left and the checkpoint it has published to the
tools. When a recording has stopped, `StartReplay` begins the second session, in which `Respond` and
`InvokeTool` look their answers up. `comparable` is what `diff_logs` compares.

`Irreproducible` names the events after which no replay is promised: cancels of a turn or a
task, model calls that failed, ignored updates, and two batches at one point. All earlier turns are
still compared.

## 3. What is checked

Every run but `profiles` sets `CHECK_DEADLOCK FALSE`: a session that is done, a log that is
refused and a spent bound really stop. In `profiles` the end is a stuttering action of its own,
and deadlock is checked: a resolution is never stuck.

| Run | Instance | Shows |
|---|---|---|
| `event_log` | 6 lines, 3 processes, 1 failed append | with deaths and power losses anywhere: no checkpoint is voided, no stale tail, the file parses unless an append failed, the log implements `CheckpointStore`; `VoidsBehind` is the inductive invariant of the proof |
| `kernel_calls` | 2 messages, 1 turn, 2 calls, 2 outside events, fair | cancellation inside a list of calls; pairs of cancels, updates and caller operations against the wakers; a cancelled turn ends, and leaves no future behind |
| `kernel_failures` | 1 message, 2 turns, 2 deaths, 1 refused append, 2 outside events | recovery, also of a recovery; what still holds when the log refuses an append |
| `kernel_reopen` | 1 message, 2 turns, 1 death | *violation*: a session waits for the waker of a dead process |
| `server` | 1 session id, 4 requests, 1 cancel, 1 further turn, channel of 1, fair | whom a cancel is told to; close means ended; every request is answered, but those behind a driver that waits for a lost waker |
| `daemon` | 1 connection, 2 session ids, 3 requests, 1 death, fair | no process is left over; all is answered |
| `daemon_two_kernels` | 2 connections, 2 requests | *violation*: two processes write one log |
| `profiles` | some 14000 worlds, 2 openings | ceilings hold around cycles and along several parents; a project file only narrows; policies stay within the grants; what is accepted can be launched; the walk ends |
| `model_call` | 5 endpoints, 2 turns, 2 attempts, 1 cancel, channels of 1 and 2, fair | what is assembled, streamed, shown and echoed is what was meant; the call ends |
| `tool_process` | 3 tools, 2 calls, 1 cancel, 1 suspension; 5 trees with links, 1 file call, 1 change; fair | no process is left behind or killed unwarned; answers belong to their calls; calls return, scripts are reported; files are opened where the policy permits; bubblewrap and the host agree |
| `session_after_cancel` | 3 tools, 2 calls, 1 cancel | *violation*: a cut call leaves its answer to the next one |
| `replay` | 3 set-ups, 2 turns, 2 messages, 1 update, 1 cancel | the Recorder and the log agree on the cassette; a replay reproduces the log |

*Bounds.* With three processes a recovered line is itself voided by a later recovery, and six
lines leave room for events and a checkpoint on either side of it. Two calls are
needed for an answered call next to one in flight and one never started (with the
cursor at either); two turns let a task of the first be closed by input that the second
drains; two deaths make a death during recovery. An outside event is a cancel, an
external update or an operation of the caller; wakers, the loop, the model and the
tools are not counted. In `server` one request opens the session (or two compete for it) and the
others fill the channel of capacity 1 behind a running prompt, so that a full channel, an
overtaking close and dropped commands all occur; the sessions found on disk are absent,
running or suspended (`Left`), which are the three ways of reopening: none, the unclean one, and the
clean one, where the waker may be lost. (One that was left failed reopens cleanly too, and idle
is reached by running.) The cancel comes before the last request: what it sets is the flag a later prompt resets, and a
cancel that nothing follows is in the instance, as the client may stop at any point. In `daemon` connections share nothing but the logs, so one is enough for
properties that speak of one; three requests are two competing loads and a close.

The worlds of `profiles` are five families: graphs of three agents with every mix of narrow and wide
grants, ceilings and spawn lists, cycles and self-loops among them; project files and overrides
over two models and agents; middleware of three layers; one fault in a file; tools, servers, extensions
and evaluation sets over several grants. Three agents make a cycle that does not pass the root and an
agent with two parents. The endpoints of `model_call` write calls in the three ways the client reads
(by index, by id alone, whole), think in a field or in the text, and fail in each class; two turns are
needed for a response to be echoed. In `tool_process` two calls are a cut one and the one after it, on the
same process or on a new one, or a script beside a call; the link bound of 40 is 3. In `replay` two turns
with repeated tool_use_ids have the same request and different answers, and the second
turn compacts or fails in the other set-ups.

*Fairness.* `FairSpec` of `Kernel` assumes weak fairness of `LoopStep`, the steps the kernel task takes
by itself: tokio polls a task that is ready. Nothing is assumed of the model, the tools,
the hooks, the callers or the futures of tasks, so `CancelTakesHold` says that the
kernel needs none of them to end a cancelled turn. A hook that never returns would hold
the turn up (hooks are not raced against the token); in the model a hook returns.
The `FairSpec` of `Server` assumes the same of every spawned task and driver, and also that
turns end and that an in-process waker that *exists* delivers: a request behind a prompt can only be answered
if the prompt ends. It assumes nothing of a waker that was lost with its process: there `run_through` waits for
ever, and `AllAnswered` excepts what is queued behind it (`Stranded`), and nothing else. The `FairSpec` of `Daemon` assumes tasks are polled and that a kernel
process that is alive answers; that is what `Server` shows, again except for a stranded session. `ModelCall` assumes that the task of the
call goes on and its timers fire (`Proceed`), and nothing of the endpoint. `ToolProcess` assumes that the
kernel's task and spawned tasks run, timers fire (`READER_DRAIN`, which ends the wait for the output of a reaped child, among them) and SIGKILL takes effect, and not that a process
answers, exits, heeds SIGTERM or closes its output; that a killed process is gone within the ten
seconds `KILL_WAIT` gives it is taken for granted. `Terminates` of `Resolver` needs no fairness: every step
lowers a well-founded measure.

*Properties that hold only while the log accepts appends* say so (`faults = 0 => ...`):
otherwise the loop's state and its last checkpoint part
ways, the specification asks the process to exit (`kernel-interface.md` 7.2), and the
driver keeps it. In particular a cancellation that the log interrupts leaves a call
unanswered, and a message the log refused after it was taken from the inbox is gone. `OwnTasksAwaited` says
nothing of a session that is ending either: `end` aborts the wakers before it logs.

*What some properties do not say.* `OwnAnswer` compares values: an error without an id that a glued request left in
the pipe is an error to whichever call reads it, and nothing in it tells whose it is. `GraceBeforeKill` is about a kernel that
lives: one that is dropped without `end` leaves its children to `kill_on_drop`, which sends SIGKILL at once.
`DeltasAgree` compares the deltas of the last attempt with its `Complete` block by block (kind, id, name, text,
arguments, one start for each); that a block is not reopened after its stop is not so
(section 4). `FuturesAreOpenTasks` excepts the futures of a turn that failed, for the same reason.

*Hazards beyond the list.* `PROJECT.json` lists the hazards that matter most. Known and not among them:
redaction that changes a checkpoint after its hash was taken; task names that are used again
after a death; entries of dead processes in the daemon's map; commands queued behind a suspended
prompt; two requests of one server that open a session at once; history sent from voided
lines; the floating-point back-off.

## 4. Where code and documents disagree

Three runs are expected to fail; each states a sentence of the repository's documents.

1. `InProcessTasksAwaited` (`kernel_reopen`): `Kernel::open` cancels tasks of a dead process only on the
   unclean path, and a suspended session is clean. The driver then waits for a waker
   that is gone.
2. `OneKernelPerSession` (`daemon_two_kernels`): the check for an open session covers one connection and
   is made long before the process is in the map; a close leaves the map long before its kernel
   has ended.
3. `InSync` (`session_after_cancel`): a call of a session tool that is cut by a cancel or its timeout is
   dropped before the transport can kill the process; the next call reads the old answer
   and fails with an id mismatch, as does every one after it.

Met while modelling, by reading or in earlier instances of these models, and not kept as runs:

* *Log and loop.* An append that fails part way leaves bytes the process does not count, and the
  log becomes unreadable when the next line repeats a seq (`Readable` without its
  premise; `log/file.rs:345` against `kernel-interface.md:1922`). The snapshot of a failed turn lacks messages that were
  drained at its end (`turn.rs:906` against `event-schema.md:883`). `fail_turn` aborts only futures of registered tasks, and a
  task is registered after its `after_tool` hooks: a hook that fails the turn leaves the future running (`turn.rs:897`
  against `kernel-interface.md:1915`); `FuturesAreOpenTasks` excepts it.
* *Stranded sessions.* A prompt on a session whose waker is gone is not answered when it is cancelled either, because
  there is no turn to cancel (`session.rs:75` against `protocol.md:34`).
* *Streams.* Text or thinking that comes back after something else goes on in the block that was
  stopped (`accumulate.rs:160` against `provider.rs:239`); `DeltasAgree` therefore does not say that a stopped block is over.
* *Server.* The flag behind `stopReason: cancelled` says that a cancel was asked for, not that it cut
  anything (`agent.rs:431` against `protocol.md:34`). `create_session` writes the record and the log before `assemble`
  can fail. A partial stream is not retracted when its attempt is retried (`kernel-interface.md:1923`). A
  lagging delta channel loses text, because the event that holds it is suppressed once anything was
  streamed; and the biased select of `project_task` can show a text twice (`agent.rs:178`, `project.rs:150`).
* *Profiles.* "Per-tool policies are by construction narrower than the envelope" does not hold
  literally: a tool without program atoms has an empty program list, and a read-only path
  below a writable one is refused in one and not in the other. A middleware of a model file at
  priority 100 is accepted by the profile and refused by the chain. The check of the hidden
  evaluation set asks only whether the set itself is covered. A project file may widen
  the ceiling of a sub-agent, up to the grants of its parent. A child in progress, in a
  cycle, counts as holding nothing (`resolve.rs:1494`, `profile-schema.md:411`); `CeilingsHold` says what still holds.
* *Providers.* Calls
  with and without an index in one stream can collide; deltas parsed in the same read before an error
  are not forwarded.
* *Host.* A child that was reaped can be sent a signal once more (`process.rs:187`).
* *Replay.* A cancel of a task is no input and does not replay, though the module's
  documentation names only cancels of a turn. An ignored update is logged under a kind that is
  compared, and is no input, so the logs differ (`event-schema.md:856`: "Nothing else is tolerated"). That
  each terminal update "makes the session `Running`" is not so in `Idle` and `Failed`: two batches there
  are replayed as one, with one checkpoint less.

## 5. What is proved

A theorem holds for all values of the constants: any number of lines, processes, requests, calls,
tasks or agents, any graph, any bound on failures. TLC was asked first, on the instances of section 3, whether each
inductive invariant holds. "Type correctness" below is `Spec => []TypeOK`.

| Module | Theorem | States |
|---|---|---|
| `EventLog_proofs` | `LogTypeCorrect`, `CheckpointsNeverVoided`, `LogInvariant` | `TypeOK`, `NoCheckpointVoided`, the invariant of both |
| | `TailsFresh`, `LogsReadable`, `LogImplementsStore`, `LogShape` | `NoStaleTail`, `ReadableUnlessFailed`, the refinement of `CheckpointStore` |
| `Kernel_proofs` | `KernelTypeCorrect`, `TaskResultsOnce`, `KernelInvariant` | `TypeOK`, `OneResultPerTask` |
| | `RequestsReplayable`, `MessagesDurable`, `MessagesNotLost`, `HistoriesAnswered`, `TasksAwaited`, `FuturesBounded`, `LoggedInvariant` | `RequestFromCheckpoint`, `UserMessagesKept`, `AcceptedNotLost`, `HistoryAnswered`, `OwnTasksAwaited`, `FuturesAreOpenTasks` |
| `Server_proofs` | `ServerTypeCorrect`, `CancelsCharged`, `CutsTold`, `ClosesEnd`, `ServerInvariant` | `TypeOK`, `CancelledWasAsked`, `CutSaysCancelled`, `ClosedMeansEnded` |
| `Daemon_proofs` | `DaemonTypeCorrect`, `NoProcessOrphaned` | `TypeOK`, `NoOrphan` |
| `Tools_proofs` | `ToolTypeCorrect`, `ProcessesOwned`, `AnswersOwn`, `TermBeforeKill` | `TypeOK`, `Owned`, `OwnAnswer`, the action property `GraceBeforeKill` |
| | `AccessIsAsChecked`, `SandboxAgreement`, `FileInvariant` | `AccessAsChecked`, `SandboxAgrees` |
| `Resolver_proofs` | `AcceptedProfilesDerive`, `ToolsAreConfined`, `ProjectsNarrow`, `SpawnsAreCovered`, `LaunchesEnd`, `Invariants` | `AcceptedPolicyDerives`, `PolicyWithinGrants`, `ProjectOnlyNarrows`, `CeilingsHold`, the action property `Terminates` |
| `Replay_proofs` | `CassetteComplete`, `RecorderInvariant` | `RecorderAgrees` |
| `ModelCall_proofs` | `ResponseShown`, `CallTyped`, `CallInvariant` | `TextShown`, `TypeOK` |

The assumptions used are those the modules name. `LogBounds`, `KernelBounds`, `ServerBounds`, `DaemonBounds`,
`CallsAssumption` and `OpensAssumption` say that bounds are naturals and that `None` is no session;
`TimeoutAssumption` orders the shortest and the longest timeout; `WorldsAssumption` is described under
Resolver in section 2, and `AccessesAssumption` says that an access is of one of the kinds of atoms and
that a path is a sequence of names. `SandboxAssumption` says that the bounds on links and steps are naturals and that `tmp`, `proc` and `dev`
are names, `FileAssumption` that a session begins on a tree, with mounts that have a path and a mode, and that calls and
changes name paths; `ReplayAssumption` that a model call has an attempt and that a response is a sequence of
names of tools. `PolicyAssumption` says that bounds and delays are naturals and that each channel holds something, and
`EndpointsAssumption` that a reply is of one of the four kinds and a stream a sequence of lines as the parser can
cut and read them (`Line`), in any order. TLC evaluates them on every instance. The theorems in the second row of `Tools_proofs`
are about `FileSpec`; the run puts its steps beside those of `ToolProcess`, on other variables.

### Event log

`NoCheckpointVoided` is not inductive. It speaks of the lines in the file, and the danger
is in the lines about to be written: a checkpoint whose seq falls into a range that is
already void. `VoidsBehind` therefore counts staged lines too (`AllLines`), and adds
that every range ends before its own recovered line and, while a process runs, before
`lines.len()`, from which every new seq is taken. `Open` re-establishes it: it voids what
lies after the last *effective* checkpoint, and a checkpoint that is not effective would
have to lie in an older range, which `Apart` excludes; so the last effective checkpoint
is the last one of the file, and the new range holds none (`LatestIsLast`,
`DiscardedProperties`). That step needs the least element of a set of naturals, taken
from the well-foundedness of `<`. `Create` needs that an absent log has no lines.

The failed appends are inside the theorem: although such a log may become
unreadable, no recovery of it ever voids a checkpoint.

The refinement needs to know what a process holds against its file. After a failed append the two
may differ for good, so `Shape` says what is so whatever failed: the staged lines continue the lines
in memory (`Staged`); if the file is in order it is the lines in memory and those just written (`Memory`);
the acknowledged checkpoint is in the synced part (`Durable`), and everything still to be written is behind it
(`Ahead`); an end stands right behind its checkpoint (`EndsFollow`); what the process has restored is
followed by nothing stale (`Fresh`). A file that is not in order is refused by the next `Open`, which
then restores nothing. `Intact` adds, while no append failed, that the file *is* in order.
Each action then maps to `Begin`, `Ack`, `Lose`, `Restart` or a stutter.

### Kernel

That a task is closed once rests on where the loop is: a call registers a task that must not be there yet
(`Unstarted`), for which turn and cursor must agree with `pc` (`Shape`), and tasks belong to turns that have begun
(`Good`). A rollback and a reopening bring back another state, so `Good` is kept of the snapshot
and of the checkpoint as well. The invariant, `KernelInv`, holds with refused appends, and so does
`OneResultPerTask`.

The six properties that hold while the log accepts appends are about a few moments: a checkpoint, a request, an open task.
`LoggedInv` says what holds between these moments, while `faults = 0`: which user messages are in the state, in the
snapshot and in the checkpoint, and where the state *is* the checkpoint (`Calm`); where an accepted message is
(`Accepted`); that all calls are answered but those the cursor has not passed (`History`); what a rollback gives back
(`Turns`); what each open task waits for, the task of the call in hand included (`Waiting`);
which turns have a response, and that a rollback undoes it (`Responses`); and whose each running future is, that of the
call in hand included, whose task may not be in the state yet (`Futures`). The history of a message list
is not recursive in the model: an answer stands at a position that its call determines, which is what makes
the proof possible without an induction.

### Server and daemon

`ClosedMeansEnded` rests on `Closing`: one close at most reaches a live session, because it takes the session out of the
registry first, so its driver cannot have gone for another reason before it replies.
`CancelledWasAsked` and `CutSaysCancelled` rest on `Charged`, which relates the flag
`cancel_requested` of a session to *all* its unanswered prompts, in whatever stage they are. `CutShort` says that
a prompt whose turn was cut is replied to as idle, the only reply that consults the flag.

`NoOrphan` is inductive together with `Requests`: what is known of a request at each of its stages, and that only
the request that spawned a process has one.

### Session tools

`Owned` lists who may hold a running process. That the list is closed under a cut needs to know of each process what its
supervisor has done (`Sound`), and of the kernel which process the call in hand has (`AtItsPlace`), since a cut at each of these places
leaves the process to somebody else. `OwnAnswer` needs `OwnIds`: pipes may hold answers of cut calls, but none with
the id of the request under way that is not its own.

### Profiles

Two facts about atoms carry the rest: `narrower_than` is transitive (`NarrowerTransitive`), and it is *sound*, so that what is
covered permits no access that its cover does not (`NarrowerPermitsLess`). The properties compare
accesses, the code compares atoms; these lemmas are the bridge.

`Inv` says of each call on the stack and each entry of the memo what `resolve_entry` has made of its
files, and of an accepted profile that all checks passed. It gives `AcceptedPolicyDerives`, `PolicyWithinGrants` and
`ProjectOnlyNarrows`. `CeilingsHold` needs the walk. An agent in progress counts as holding nothing, so a check against it
proves nothing at that moment. `Walking` says what is true instead: an agent that is done
holds no more than *some call that is still active*, and when that call is done in its turn, no more than the one below it,
down to the root. `Descended` says that a call is below all that led to it, so an agent
found in progress is on a cycle, and of the ceilings along a cycle `CeilingsHold` says nothing. When the root is
done the memo is closed under spawning (`Walked`), and `SpawnedBy` is the least such set.

`Terminates` says that each step lowers a measure, so it needs no fairness. One part of the measure, `Unlooked`, is a sum over
the stack. What the proof needs of it (sums exist, are naturals, grow, and agree where the stacks do)
is shown by the least-number principle: at the first position where it fails it does not.

### File tools

`AccessAsChecked` speaks of the moment of an access, and of the walk of the system; what the code has checked is the path
that `resolve_symlinks` returned, earlier. `FileInv` adds `CheckHolds`: unless a script changed the tree,
the path to be opened leads where the path of the call leads, and below a mount that permits the
access. That is so when `resolve` returns ok (`ResolveOpens`), and a write moves no walk (`WriteMovesNothing`).

The heart is `ResolvedIs`: whatever `resolve_symlinks` returns leads to the same place and ends in the same way as
what it was given. The code canonicalizes the path it probes; if that fails it drops a component, or
puts the target of a dangling link in place of it, and tries again, with a link bound of its own. `Probing` says what holds
at each turn: what is probed, with what was dropped behind it, leads where the path leads. To show it,
walks of different paths have to be compared, step by step, and the links they have followed counted:
a walk along a path is a walk along its beginning with more to do (`Frame`), a path without links is walked in as many steps as it has
components (`CanonWay`), two walks at one place with the same to do end alike if the second has
followed no more links (`SameFrom`), and a walk that has nothing left, or nowhere to go on to, has its end (`Settles`). All of it holds for any bound `Fuel` on the steps. A link bound that differed
between the system and the code would break the argument where a dangling link is met.

`SandboxAgrees` is about two orders. bubblewrap applies the mounts from the shallowest and the last that covers a path decides;
`FsPolicy::check` takes the deepest above it, and of equals the last. `Place` counts the mounts before one; the mount with the
greatest place above a path answers both.

### Replay

The scan of the log (`from_log`) and the hooks of the Recorder meet only at turn boundaries. In between the scan has requests
pending that a cancel, a failure or an unregistered tool may leave without an answer, and the Recorder has calls
of its own pending. `IInv` says for each point of the turn which of both are pending and that the
cassettes agree otherwise (`AtPoint`, `Agreed`). The kernel logs through
nested operators and folds over its inbox; lemmas say of each which events it logs and what the scan
makes of them: nothing, for most. The folds are recursive functions, whose existence is shown by the
least-number principle.

### Model call

`TextShown` compares the two ends of a long way: the response that `Accumulator::finish` puts together in the end, and the
deltas that went, one at a time, through the pending queue of the stream, the caller's channel and the projection to the client, or got
lost with an attempt. Three facts hold it together.

* The accumulator says in its deltas what it keeps (`Gains`): whatever a chunk holds, the text in the deltas it
  causes is what is added to the text kept, however it opens, closes and reopens blocks. A step of the stream has the same
  of all lines it completes (`StreamOK`), and the text of the response is an end (`Ending`) of the text kept: all
  of it, or what follows the thinking if that came inline.
* A `Complete` stands last among the pending deltas, behind everything that was said (`StreamOK`), so that an attempt that
  returns it has forwarded the rest. A stream that is done has one (`Closes`), so `one_attempt` cannot return
  without; this is the part of `TypeOK` that is not plain.
* What the client has got, with what is still in the channel for this turn (`Way`), ends with the text of the attempt under
  way, and once the turn has its response, with the text of that (`ShownShape`). An attempt that fails leaves its text in
  front; the next begins with nothing. The event of the response repeats its text or nothing, and comes after
  the deltas.

That deltas one behind the other have the text of both, and that sorting the blocks loses none and adds none, are lemmas about folds
and rankings of any data (`TextConcat`, `SortedText`), shown by the least-number principle.

### Only model-checked

* *Liveness*: `CancelTakesHold`, the answers of `Server` and `Daemon`, the end of calls, scripts and model calls. Fairness and
  `ENABLED` are out of the prover's reach.
* *What an endpoint meant*: `AssembledAsMeant`, `DeltasAgree` and `HistoryEchoed`. The first two compare a response, and its
  deltas, with what the reply of the endpoint is said to mean, which is data of the instance: a theorem for every endpoint would first
  have to define that meaning for every stream, and that definition would be the accumulator again. `HistoryEchoed` rests on the
  conversation growing by what the stream was assembled to, block by block, and on its rendering, a fold of a map over both.
* `ReplayFaithful` compares two runs of the kernel, the recorded one and the replay, of which only the logs are left to compare. A proof
  needs the first run as a second copy of the state, in step with the replay.
* `TypeOK` of `Resolver`.

## 6. Plan

1. *Profiles*: that a tool's policy lies within its envelope up to the two exceptions of section 4.
2. *Provider retry*: that a cancelled call sends nothing.
3. *Sandbox*: what `FsPolicy::check` permits, as a lemma on the atoms of a policy.
4. *Replay*: the recorded kernel in step with the replaying one, for `ReplayFaithful`.
5. *Migration* of the log; subscriptions, the history sent on session/load, and the question task of ask_user.

Not modelled: canonical JSON and hashing (cryptography and formatting), spill and redaction
(sizes and searches of text), HTTP, TOML and manifest parsing, the wording of diagnostics, the
Python side of the REPL, network access and secrets of the host (I/O), migration of old state
schemas, the stand-in services, spikes and examples; `provenance` and `evolve` are empty.
