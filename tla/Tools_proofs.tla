----------------------------- MODULE Tools_proofs -----------------------------
(***************************************************************************)
(* Proofs about the two sides of the sandbox.                              *)
(*                                                                         *)
(* ToolProcess, for any tools and any number of calls, cancels and         *)
(* suspensions: the types, that every running process is held by something *)
(* that will end it (Owned), that SIGKILL never comes first                *)
(* (GraceBeforeKill), and that a result is the answer to its own request   *)
(* (OwnAnswer).  The inductive invariant is Inv: types, what is true of    *)
(* each process by itself (Sound), what the place of the kernel says of    *)
(* the call (AtItsPlace), Owned and OwnAnswer.                             *)
(*                                                                         *)
(* Sandbox and FileTools, for every tree with links of any kind, every     *)
(* policy, every path and any bound on the links followed.                 *)
(*                                                                         *)
(* SandboxAgrees is about two orders: bubblewrap applies the mounts from   *)
(* the shallowest and lets the last that covers a path decide, FsPolicy    *)
(* takes the deepest above it.  Place counts the mounts before one, and    *)
(* the mount with the greatest Place above a path is the answer of both.   *)
(*                                                                         *)
(* AccessAsChecked is not inductive: it rests on what the check has found  *)
(* until the access comes (CheckHolds), and that on resolve_symlinks       *)
(* returning a path that leads where the given one leads (Resolved).       *)
(* Walks are compared step by step: a walk along a path is a walk along    *)
(* its beginning with more to do (Frame); along a path without links it    *)
(* takes a component a step (CanonWay); two walks at one place with the    *)
(* same to do end alike, if the second has followed no more links          *)
(* (SameFrom).  So what a turn leaves to probe leads where the path leads  *)
(* (Probing).  A write moves no walk (WriteMovesNothing).                  *)
(***************************************************************************)
EXTENDS ToolProcess, FileTools, SequenceTheorems, FiniteSetTheorems, WellFoundedInduction, TLAPS

\* The messages of a pipe, as a set, and those of both pipes of a process.
Lines(s) == {s[i] : i \in DOMAIN s}
InFlight(x) == Lines(x.in) \cup Lines(x.out)

\* What is true of a process by itself: its supervisor waits for the output
\* only after the exit and lets go only of what has exited or was killed, the
\* grace of a termination begins with SIGTERM, and no message has an id that
\* was not given yet.
Sound(x) ==
    /\ x.sup \in {"drain", "done"} => x.st = "reaped"
    /\ x.sup = "dropped" /\ x.st = "running" => x.sig = "kill"
    /\ x.sup \in {"term", "bg"} /\ x.st = "running" => x.sig # "none"
    /\ \A m \in InFlight(x) : m.id <= x.next

AtTool == {"ensure", "killing", "relaunch", "call", "write", "read", "broken"}
AtProcess == {"call", "write", "read", "broken"}

\* What the place of the kernel says of the call, its tool and its process.
AtItsPlace ==
    /\ pc \in AtTool => call.tool \in SessionTools
    /\ pc \in {"killing", "relaunch"} => session[call.tool] = 0
    /\ pc \in AtProcess => call.pid \in Pids /\ session[call.tool] = call.pid
    /\ pc \in {"killing", "down"} => call.pid \in Pids
    /\ Killer /\ Running(call.pid) => procs[call.pid].sig # "none"
    /\ pc = "launch" => call.tool \in DOMAIN Tools \ SessionTools
    /\ pc = "wait" => call.pid \in Pids /\ procs[call.pid].sup # "none"

\* The id of the request under way is the last one given, and a message that
\* carries it is of this call.
OwnIds ==
    /\ pc \in {"write", "read"} => call.id = procs[call.pid].next /\ call.id > 0
    /\ pc = "write" => \A m \in InFlight(procs[call.pid]) : m.id # call.id
    /\ pc = "read" => \A m \in InFlight(procs[call.pid]) : m.id = call.id => m.n = call.n

\* The process of a script has a supervisor.
ScriptsSupervised == \A k \in DOMAIN tasks : tasks[k].pid # 0 => procs[tasks[k].pid].sup # "none"

Inv ==
    /\ TypeOK
    /\ \A p \in Pids : Sound(procs[p])
    /\ AtItsPlace /\ OwnIds /\ ScriptsSupervised
    /\ Owned /\ OwnAnswer
-----------------------------------------------------------------------------
(* Messages *)

\* What is read from a pipe, left in it, or put into it.
LEMMA LinesOfPipe ==
    ASSUME NEW s \in Seq(Message), NEW m \in Message
    PROVE  /\ Append(s, m) \in Seq(Message) /\ Lines(Append(s, m)) \subseteq Lines(s) \cup {m}
           /\ s # <<>> => /\ Head(s) \in Message /\ Head(s) \in Lines(s)
                          /\ Tail(s) \in Seq(Message) /\ Lines(Tail(s)) \subseteq Lines(s)
           /\ <<>> \in Seq(Message) /\ Lines(<<>>) = {}
<1>1. Append(s, m) \in Seq(Message) /\ Lines(Append(s, m)) \subseteq Lines(s) \cup {m}
  BY DEF Lines
<1>2. ASSUME s # <<>>
      PROVE  /\ Head(s) \in Message /\ Head(s) \in Lines(s)
             /\ Tail(s) \in Seq(Message) /\ Lines(Tail(s)) \subseteq Lines(s)
  <2>1. Len(s) >= 1 /\ 1 \in DOMAIN s /\ Head(s) = s[1]
    BY <1>2
  <2>2. Head(s) \in Message /\ Head(s) \in Lines(s)
    BY <2>1 DEF Lines
  <2>3. /\ Tail(s) \in Seq(Message) /\ Len(Tail(s)) = Len(s) - 1
        /\ \A i \in 1 .. Len(s) - 1 : Tail(s)[i] = s[i + 1]
    BY <1>2
  <2>4. Lines(Tail(s)) \subseteq Lines(s)
    BY <2>1, <2>3 DEF Lines
  <2>5. QED
    BY <2>2, <2>3, <2>4
<1>3. <<>> \in Seq(Message) /\ Lines(<<>>) = {}
  BY DEF Lines
<1>4. QED
  BY <1>1, <1>2, <1>3

-----------------------------------------------------------------------------
(* Processes *)

\* A process and the same process one step later: it stays what it is, does
\* not start again, keeps the signals it has, and is not killed without
\* SIGTERM; a termination in the background is not given up.
Later(x, y) ==
    /\ y \in ProcType /\ Sound(y)
    /\ y.tool = x.tool /\ (y.sup = "none" <=> x.sup = "none")
    /\ y.st = "running" => x.st = "running"
    /\ y.st = "running" /\ x.sig # "none" => y.sig # "none"
    /\ y.st = "running" /\ x.sig = "kill" => y.sig = "kill"
    /\ y.sig = "kill" => x.sig # "none"
    /\ y.st = "running" /\ y.sig # "kill" /\ x.sup \in {"bgq", "bg"} => y.sup \in {"bgq", "bg"}

\* Nothing was sent to it or given an id.
Quiet(x, y) ==
    /\ y.next = x.next
    /\ \A m \in InFlight(y) : m \in InFlight(x) \/ m.id = TooLong

LEMMA LaterReflexive ==
    ASSUME NEW x \in ProcType, Sound(x)
    PROVE  Later(x, x) /\ Quiet(x, x)
  BY DEF Later, Quiet

\* A process of which the fields that matter are known one by one.
LEMMA LaterByFields ==
    ASSUME NEW x \in ProcType, Sound(x), NEW y \in ProcType,
           y.tool = x.tool, y.sup = x.sup, y.next = x.next, y.in = x.in, y.out = x.out,
           \/ y.st = x.st /\ y.sig = x.sig
           \/ x.st # "running" /\ y.st = "reaped" /\ y.sig = x.sig
           \/ x.st = "running" /\ y.st = "running" /\ x.sig # "kill" /\ y.sig = "term"
           \/ x.st = "running" /\ y.st = "running" /\ x.sig # "none" /\ y.sig = "kill"
    PROVE  Later(x, y) /\ Quiet(x, y)
<1>1. InFlight(y) = InFlight(x)
  BY DEF InFlight
<1>2. Sound(y)
  BY <1>1 DEF Sound, ProcType
<1>3. QED
  BY <1>1, <1>2 DEF Later, Quiet, ProcType

\* kill(2): SIGTERM at any time, SIGKILL after it.
LEMMA SignalledProperties ==
    ASSUME NEW x \in ProcType, Sound(x), NEW sig \in {"term", "kill"},
           sig = "kill" /\ x.st = "running" => x.sig # "none"
    PROVE  /\ Later(x, Signalled(x, sig)) /\ Quiet(x, Signalled(x, sig))
           /\ Signalled(x, sig).st = x.st /\ Signalled(x, sig).sup = x.sup
           /\ Signalled(x, sig).st = "running" => Signalled(x, sig).sig # "none"
           /\ Signalled(x, sig).st = "running" /\ sig = "kill" => Signalled(x, sig).sig = "kill"
<1>1. CASE x.st # "running" \/ x.sig = "kill"
  <2>1. Signalled(x, sig) = x
    BY <1>1 DEF Signalled
  <2>2. QED
    BY <1>1, <2>1, LaterReflexive
<1>2. CASE x.st = "running" /\ x.sig # "kill"
  <2> DEFINE y == [x EXCEPT !.sig = sig]
  <2>1. Signalled(x, sig) = y
    BY <1>2 DEF Signalled
  <2>2. y \in ProcType /\ y.tool = x.tool /\ y.sup = x.sup /\ y.next = x.next /\ y.in = x.in
        /\ y.out = x.out /\ y.st = x.st /\ y.sig = sig
    BY DEF ProcType
  <2> HIDE DEF y
  <2>3. Later(x, y) /\ Quiet(x, y)
    BY <1>2, <2>2, LaterByFields
  <2>4. QED
    BY <1>2, <2>1, <2>2, <2>3
<1>3. QED
  BY <1>1, <1>2

\* reaped(): an exit is collected, and nothing else happens.
LEMMA PolledProperties ==
    ASSUME NEW x \in ProcType, Sound(x)
    PROVE  /\ Later(x, Polled(x)) /\ Quiet(x, Polled(x))
           /\ Polled(x).st # "zombie" /\ Polled(x).sig = x.sig
           /\ Later(x, [Polled(x) EXCEPT !.dead = TRUE]) /\ Quiet(x, [Polled(x) EXCEPT !.dead = TRUE])
           /\ Later(x, [x EXCEPT !.dead = TRUE]) /\ Quiet(x, [x EXCEPT !.dead = TRUE])
           /\ Later(x, [x EXCEPT !.torn = TRUE]) /\ Quiet(x, [x EXCEPT !.torn = TRUE])
<1> DEFINE y == Polled(x)
           z == [y EXCEPT !.dead = TRUE]
           d == [x EXCEPT !.dead = TRUE]
           t == [x EXCEPT !.torn = TRUE]
<1>1. /\ y \in ProcType /\ y.tool = x.tool /\ y.sup = x.sup /\ y.next = x.next /\ y.in = x.in
      /\ y.out = x.out /\ y.sig = x.sig /\ y.st # "zombie"
      /\ y.st = x.st \/ (x.st # "running" /\ y.st = "reaped")
  BY DEF ProcType, Polled
<1>2. /\ d \in ProcType /\ d.tool = x.tool /\ d.sup = x.sup /\ d.next = x.next /\ d.in = x.in
      /\ d.out = x.out /\ d.sig = x.sig /\ d.st = x.st
  BY DEF ProcType
<1>3. /\ t \in ProcType /\ t.tool = x.tool /\ t.sup = x.sup /\ t.next = x.next /\ t.in = x.in
      /\ t.out = x.out /\ t.sig = x.sig /\ t.st = x.st
  BY DEF ProcType
<1> HIDE DEF y
<1>4. /\ z \in ProcType /\ z.tool = x.tool /\ z.sup = x.sup /\ z.next = x.next /\ z.in = x.in
      /\ z.out = x.out /\ z.sig = x.sig
      /\ z.st = x.st \/ (x.st # "running" /\ z.st = "reaped")
  BY <1>1 DEF ProcType
<1> HIDE DEF z, d, t
<1>5. /\ Later(x, y) /\ Quiet(x, y) /\ Later(x, z) /\ Quiet(x, z)
  BY <1>1, <1>4, LaterByFields
<1>6. Later(x, d) /\ Quiet(x, d) /\ Later(x, t) /\ Quiet(x, t)
  BY <1>2, <1>3, LaterByFields
<1>7. QED
  BY <1>1, <1>5, <1>6 DEF y, z, d, t

\* Two changes of a process that happen in one step.
LEMMA LaterTransitive ==
    ASSUME NEW x \in ProcType, NEW y \in ProcType, NEW z, Later(x, y), Quiet(x, y),
           Later(y, z), Quiet(y, z), y.sig = x.sig
    PROVE  Later(x, z) /\ Quiet(x, z)
  BY DEF Later, Quiet, ProcType

\* kill_process() up to its first sleep: the process has exited, or has
\* SIGTERM.
LEMMA KillStartsProperties ==
    ASSUME NEW x \in ProcType, Sound(x)
    PROVE  /\ Later(x, KillStarts(x)) /\ Quiet(x, KillStarts(x))
           /\ KillStarts(x).st \in {"running", "reaped"}
           /\ KillStarts(x).st = "running" => KillStarts(x).sig # "none"
<1> DEFINE q == [Polled(x) EXCEPT !.dead = TRUE]
<1>1. Later(x, q) /\ Quiet(x, q)
  BY PolledProperties
<1>2. q \in ProcType /\ Sound(q)
  BY <1>1 DEF Later
<1>3. q.st # "zombie" /\ q.sig = x.sig
  BY DEF Polled, ProcType
<1>4. KillStarts(x) = IF q.st = "reaped" THEN q ELSE Signalled(q, "term")
  BY DEF KillStarts
<1> HIDE DEF q
<1>5. CASE q.st = "reaped"
  BY <1>1, <1>4, <1>5
<1>6. CASE q.st # "reaped"
  <2>1. KillStarts(x) = Signalled(q, "term") /\ q.st = "running"
    BY <1>2, <1>3, <1>4, <1>6 DEF ProcType
  <2>2. /\ Later(q, Signalled(q, "term")) /\ Quiet(q, Signalled(q, "term"))
        /\ Signalled(q, "term").st = q.st
        /\ Signalled(q, "term").st = "running" => Signalled(q, "term").sig # "none"
    BY <1>2, SignalledProperties
  <2>3. QED
    BY <1>1, <1>2, <1>3, <2>1, <2>2, LaterTransitive
<1>7. QED
  BY <1>5, <1>6

\* The supervisor moves on: to the end of the output, to SIGTERM and its
\* grace, to the background.
LEMMA SupervisorProperties ==
    ASSUME NEW x \in ProcType, Sound(x), x.sup # "none",
           NEW sup \in {"drain", "term", "bgq", "bg", "dropped", "done"},
           sup \in {"drain", "done"} => x.st = "reaped",
           sup = "dropped" /\ x.st = "running" => x.sig = "kill",
           sup \in {"term", "bg"} /\ x.st = "running" => x.sig # "none",
           x.sup \in {"bgq", "bg"} /\ x.st = "running" /\ x.sig # "kill" => sup \in {"bgq", "bg"}
    PROVE  Later(x, [x EXCEPT !.sup = sup]) /\ Quiet(x, [x EXCEPT !.sup = sup])
<1> DEFINE y == [x EXCEPT !.sup = sup]
<1>1. /\ y \in ProcType /\ y.tool = x.tool /\ y.sup = sup /\ y.next = x.next /\ y.in = x.in
      /\ y.out = x.out /\ y.sig = x.sig /\ y.st = x.st
  BY DEF ProcType
<1> HIDE DEF y
<1>2. InFlight(y) = InFlight(x)
  BY <1>1 DEF InFlight
<1>3. Sound(y)
  BY <1>1, <1>2 DEF Sound
<1>4. Later(x, y) /\ Quiet(x, y)
  BY <1>1, <1>2, <1>3 DEF Later, Quiet
<1>5. QED
  BY <1>4 DEF y

\* TerminateOnDrop: what runs without SIGKILL is left to the background, the
\* process of a session is left alone.
LEMMA DroppedProperties ==
    ASSUME NEW x \in ProcType, Sound(x)
    PROVE  /\ Later(x, Dropped(x)) /\ Quiet(x, Dropped(x))
           /\ Dropped(x).st = x.st /\ Dropped(x).sig = x.sig
           /\ x.sup = "none" => Dropped(x) = x
           /\ x.sup # "none" /\ x.st = "running" /\ x.sig # "kill"
                 => Dropped(x).sup \in {"bgq", "bg"}
<1>1. CASE x.sup \in {"wait", "drain", "term"}
  <2>1. Dropped(x) = [x EXCEPT !.sup = "bgq"]
    BY <1>1 DEF Dropped
  <2>2. Later(x, [x EXCEPT !.sup = "bgq"]) /\ Quiet(x, [x EXCEPT !.sup = "bgq"])
    BY <1>1, SupervisorProperties
  <2>3. QED
    BY <1>1, <2>1, <2>2 DEF ProcType
<1>2. CASE x.sup \notin {"wait", "drain", "term"}
  <2>1. Dropped(x) = x
    BY <1>2 DEF Dropped
  <2>2. QED
    BY <1>2, <2>1, LaterReflexive DEF Sound, ProcType
<1>3. QED
  BY <1>1, <1>2

\* A process that is started runs, has no signal and no messages, and has a
\* supervisor unless it is of a session.
LEMMA NewProcProperties ==
    ASSUME NEW t \in DOMAIN Tools
    PROVE  /\ NewProc(t) \in ProcType /\ Sound(NewProc(t))
           /\ NewProc(t).tool = t /\ (NewProc(t).sup = "none" <=> Tools[t].kind = "session")
           /\ [NewProc(t) EXCEPT !.st = "reaped", !.dead = TRUE] \in ProcType
           /\ Sound([NewProc(t) EXCEPT !.st = "reaped", !.dead = TRUE])
           /\ [NewProc(t) EXCEPT !.st = "reaped", !.dead = TRUE].tool = t
           /\ [NewProc(t) EXCEPT !.st = "reaped", !.dead = TRUE].sup = NewProc(t).sup
           /\ [NewProc(t) EXCEPT !.st = "reaped", !.dead = TRUE].st = "reaped"
<1> DEFINE x == NewProc(t)
           y == [x EXCEPT !.st = "reaped", !.dead = TRUE]
<1>1. <<>> \in Seq(Message) /\ Lines(<<>>) = {}
  BY DEF Lines
<1>2. /\ x \in ProcType /\ x.tool = t /\ (x.sup = "none" <=> Tools[t].kind = "session")
      /\ x.sup \in {"none", "wait"} /\ x.in = <<>> /\ x.out = <<>>
  BY <1>1 DEF NewProc, ProcType
<1> HIDE DEF x
<1>3. /\ y \in ProcType /\ y.tool = t /\ y.sup = x.sup /\ y.in = <<>> /\ y.out = <<>>
      /\ y.st = "reaped"
  BY <1>2 DEF ProcType
<1>4. Sound(x)
  BY <1>1, <1>2 DEF Sound, InFlight
<1> HIDE DEF y
<1>5. Sound(y)
  BY <1>1, <1>2, <1>3 DEF Sound, InFlight
<1>6. QED
  BY <1>2, <1>3, <1>4, <1>5 DEF x, y

-----------------------------------------------------------------------------
(* Steps of the state *)

\* Something will end process p.
Held(p) ==
    \/ \E t \in DOMAIN session : session[t] = p
    \/ Killer /\ call.pid = p
    \/ Awaits(p)
    \/ \E k \in Watched : tasks[k].pid = p
    \/ procs[p].sup \in {"bgq", "bg"}

\* It runs, and has not been sent SIGKILL.
Lives(p) == Running(p) /\ procs[p].sig # "kill"

\* Every process goes on, and what is new is well formed.
ProcsOnward ==
    /\ procs' \in Seq(ProcType) /\ Len(procs') >= Len(procs)
    /\ \A p \in Pids : Later(procs[p], procs'[p])
    /\ \A p \in Pids' : /\ Sound(procs'[p])
                        /\ procs'[p].sup = "none" <=> Tools[procs'[p].tool].kind = "session"

\* The tasks stay well formed, and let go only of what is ended otherwise.
TasksOnward ==
    /\ tasks' \in Seq(ScriptTask)
    /\ \A k \in DOMAIN tasks' : /\ tasks'[k].pid \in 0 .. Len(procs')
                                /\ tasks'[k].pid # 0 => procs'[tasks'[k].pid].sup # "none"
    /\ \A p \in Pids : (\E k \in Watched : tasks[k].pid = p) /\ Lives(p)' =>
           (\E k \in Watched' : tasks'[k].pid = p) \/ procs'[p].sup \in {"bgq", "bg"}

\* What Inv says of the processes.
LEMMA ProcsFacts ==
    ASSUME Inv
    PROVE  /\ procs \in Seq(ProcType) /\ Pids = 1 .. Len(procs) /\ Len(procs) \in Nat
           /\ \A p \in Pids : /\ procs[p] \in ProcType /\ Sound(procs[p])
                              /\ procs[p].sup = "none" <=> Tools[procs[p].tool].kind = "session"
  BY DEF Inv, TypeOK, Pids

\* A step that leaves all processes alone.
LEMMA ProcsUnchanged ==
    ASSUME Inv, procs' = procs
    PROVE  ProcsOnward /\ (\A p \in Pids : Quiet(procs[p], procs'[p])) /\ Pids' = Pids
<1>1. \A p \in Pids : procs[p] \in ProcType /\ Sound(procs[p])
  BY ProcsFacts
<1>2. \A p \in Pids : Later(procs[p], procs[p]) /\ Quiet(procs[p], procs[p])
  BY <1>1, LaterReflexive
<1>3. QED
  BY <1>2, ProcsFacts DEF ProcsOnward, Pids

\* A step of one process.
LEMMA OneProcChanges ==
    ASSUME Inv, NEW p \in Pids, NEW y, procs' = [procs EXCEPT ![p] = y], Later(procs[p], y)
    PROVE  /\ ProcsOnward /\ Pids' = Pids /\ Len(procs') = Len(procs)
           /\ procs'[p] = y /\ \A q \in Pids \ {p} : procs'[q] = procs[q]
           /\ \A q \in Pids \ {p} : Quiet(procs[q], procs'[q])
<1>1. /\ procs \in Seq(ProcType) /\ Pids = 1 .. Len(procs) /\ Len(procs) \in Nat
      /\ \A q \in Pids : /\ procs[q] \in ProcType /\ Sound(procs[q])
                         /\ procs[q].sup = "none" <=> Tools[procs[q].tool].kind = "session"
  BY ProcsFacts
<1>2. y \in ProcType /\ Sound(y) /\ y.tool = procs[p].tool /\ (y.sup = "none" <=> procs[p].sup = "none")
  BY DEF Later
<1>3. /\ procs' \in Seq(ProcType) /\ Len(procs') = Len(procs)
      /\ procs'[p] = y /\ \A q \in Pids \ {p} : procs'[q] = procs[q]
  BY <1>1, <1>2
<1>4. Pids' = Pids
  BY <1>1, <1>3 DEF Pids
<1>5. \A q \in Pids \ {p} : Later(procs[q], procs'[q]) /\ Quiet(procs[q], procs'[q])
  BY <1>1, <1>3, LaterReflexive
<1>6. \A q \in Pids' : /\ Sound(procs'[q])
                       /\ procs'[q].sup = "none" <=> Tools[procs'[q].tool].kind = "session"
  BY <1>1, <1>2, <1>3, <1>4
<1>7. QED
  BY <1>1, <1>3, <1>4, <1>5, <1>6 DEF ProcsOnward

\* A step of some processes, each dropped by its supervisor.
LEMMA ProcsDropped ==
    ASSUME Inv, NEW ps, procs' = [p \in Pids |-> IF p \in ps THEN Dropped(procs[p]) ELSE procs[p]]
    PROVE  /\ ProcsOnward /\ Pids' = Pids /\ Len(procs') = Len(procs)
           /\ \A p \in Pids : Quiet(procs[p], procs'[p])
           /\ \A p \in Pids : p \in ps /\ procs[p].sup # "none" /\ Lives(p)' =>
                                procs'[p].sup \in {"bgq", "bg"}
<1>1. /\ procs \in Seq(ProcType) /\ Pids = 1 .. Len(procs) /\ Len(procs) \in Nat
      /\ \A q \in Pids : /\ procs[q] \in ProcType /\ Sound(procs[q])
                         /\ procs[q].sup = "none" <=> Tools[procs[q].tool].kind = "session"
  BY ProcsFacts
<1>2. \A p \in Pids : /\ Later(procs[p], procs'[p]) /\ Quiet(procs[p], procs'[p])
                      /\ p \in ps => procs'[p] = Dropped(procs[p])
  BY <1>1, LaterReflexive, DroppedProperties
<1>3. \A p \in Pids : procs'[p] \in ProcType
  BY <1>2 DEF Later
<1>4. procs' \in [1 .. Len(procs) -> ProcType]
  BY <1>1, <1>3
<1>5. procs' \in Seq(ProcType) /\ Len(procs') = Len(procs) /\ Pids' = Pids
  BY <1>1, <1>4 DEF Pids
<1>6. \A q \in Pids' : /\ Sound(procs'[q])
                       /\ procs'[q].sup = "none" <=> Tools[procs'[q].tool].kind = "session"
  BY <1>1, <1>2, <1>5 DEF Later
<1>7. ASSUME NEW p \in Pids, p \in ps, procs[p].sup # "none", Lives(p)'
      PROVE  procs'[p].sup \in {"bgq", "bg"}
  BY <1>1, <1>2, <1>7, DroppedProperties DEF Lives, Running
<1>8. QED
  BY <1>1, <1>2, <1>5, <1>6, <1>7 DEF ProcsOnward

\* A process is started.
LEMMA ProcStarts ==
    ASSUME Inv, NEW y \in ProcType, procs' = Append(procs, y), Sound(y),
           y.sup = "none" <=> Tools[y.tool].kind = "session"
    PROVE  /\ ProcsOnward /\ Pids' = Pids \cup {Fresh} /\ Fresh \notin Pids
           /\ Fresh \in Nat /\ Fresh > 0 /\ Len(procs') = Fresh
           /\ procs'[Fresh] = y /\ \A p \in Pids : procs'[p] = procs[p]
           /\ \A p \in Pids : Quiet(procs[p], procs'[p])
<1>1. /\ procs \in Seq(ProcType) /\ Pids = 1 .. Len(procs) /\ Len(procs) \in Nat
      /\ \A q \in Pids : /\ procs[q] \in ProcType /\ Sound(procs[q])
                         /\ procs[q].sup = "none" <=> Tools[procs[q].tool].kind = "session"
  BY ProcsFacts
<1>2. /\ procs' \in Seq(ProcType) /\ Len(procs') = Fresh /\ Fresh \in Nat /\ Fresh > 0
      /\ procs'[Fresh] = y /\ \A p \in Pids : procs'[p] = procs[p]
  BY <1>1 DEF Fresh
<1>3. Pids' = Pids \cup {Fresh} /\ Fresh \notin Pids
  BY <1>1, <1>2 DEF Pids, Fresh
<1>4. \A p \in Pids : Later(procs[p], procs'[p]) /\ Quiet(procs[p], procs'[p])
  BY <1>1, <1>2, LaterReflexive
<1>5. \A q \in Pids' : /\ Sound(procs'[q])
                       /\ procs'[q].sup = "none" <=> Tools[procs'[q].tool].kind = "session"
  BY <1>1, <1>2, <1>3
<1>6. QED
  BY <1>1, <1>2, <1>3, <1>4, <1>5 DEF ProcsOnward, Fresh

\* What goes on keeps its tool, its kind of supervisor and its place.
LEMMA OnwardFacts ==
    ASSUME Inv, ProcsOnward
    PROVE  /\ Pids \subseteq Pids' /\ Pids' = 1 .. Len(procs') /\ Len(procs') \in Nat
           /\ 0 .. Len(procs) \subseteq 0 .. Len(procs')
           /\ \A p \in Pids : /\ procs'[p].tool = procs[p].tool
                              /\ procs'[p].sup = "none" <=> procs[p].sup = "none"
                              /\ Lives(p)' => Lives(p)
                              /\ Running(p)' => Running(p)
                              /\ Running(p)' /\ procs[p].sig # "none" => procs'[p].sig # "none"
                              /\ Lives(p)' /\ procs[p].sup \in {"bgq", "bg"}
                                    => procs'[p].sup \in {"bgq", "bg"}
<1>1. procs' \in Seq(ProcType) /\ Len(procs') >= Len(procs)
  BY DEF ProcsOnward
<1>2. /\ Pids \subseteq Pids' /\ Pids' = 1 .. Len(procs') /\ Len(procs') \in Nat
      /\ 0 .. Len(procs) \subseteq 0 .. Len(procs')
  BY <1>1, ProcsFacts DEF Pids
<1>3. ASSUME NEW p \in Pids
      PROVE  /\ procs'[p].tool = procs[p].tool
             /\ procs'[p].sup = "none" <=> procs[p].sup = "none"
             /\ Lives(p)' => Lives(p)
             /\ Running(p)' => Running(p)
             /\ Running(p)' /\ procs[p].sig # "none" => procs'[p].sig # "none"
             /\ Lives(p)' /\ procs[p].sup \in {"bgq", "bg"} => procs'[p].sup \in {"bgq", "bg"}
  <2>1. Later(procs[p], procs'[p])
    BY DEF ProcsOnward
  <2>2. QED
    BY <2>1 DEF Later, Lives, Running
<1>4. QED
  BY <1>2, <1>3

\* Inv, said of the tasks.
LEMMA TasksFacts ==
    ASSUME Inv
    PROVE  /\ tasks \in Seq(ScriptTask)
           /\ \A k \in DOMAIN tasks :
                 /\ tasks[k] \in ScriptTask /\ tasks[k].pid \in 0 .. Len(procs)
                 /\ tasks[k].pid # 0 => tasks[k].pid \in Pids /\ procs[tasks[k].pid].sup # "none"
<1>1. tasks \in Seq(ScriptTask)
  BY DEF Inv, TypeOK
<1>2. \A k \in DOMAIN tasks : tasks[k].pid \in 0 .. Len(procs)
  BY DEF Inv, TypeOK
<1>3. QED
  BY <1>1, <1>2, ProcsFacts DEF Inv, ScriptsSupervised

\* A step that leaves all tasks alone.
LEMMA TasksUnchanged ==
    ASSUME Inv, ProcsOnward, tasks' = tasks
    PROVE  TasksOnward
<1>1. \A k \in DOMAIN tasks' : /\ tasks'[k].pid \in 0 .. Len(procs')
                               /\ tasks'[k].pid # 0 => procs'[tasks'[k].pid].sup # "none"
  BY TasksFacts, OnwardFacts
<1>2. QED
  BY <1>1, TasksFacts DEF TasksOnward, Watched

\* A step that leaves the map of the session alone.
LEMMA SessionUnchanged ==
    ASSUME Inv, ProcsOnward, session' = session
    PROVE  /\ session' \in [SessionTools -> 0 .. Len(procs')]
           /\ \A t \in SessionTools : session'[t] # 0 => procs'[session'[t]].tool = t
<1>1. /\ session \in [SessionTools -> 0 .. Len(procs)]
      /\ \A t \in SessionTools : session[t] # 0 => procs[session[t]].tool = t
  BY DEF Inv, TypeOK
<1>2. \A t \in SessionTools : session[t] # 0 => session[t] \in Pids
  BY <1>1, ProcsFacts
<1>3. QED
  BY <1>1, <1>2, OnwardFacts

\* The parts of Inv after a step.
LEMMA InvFromParts ==
    ASSUME Inv, ProcsOnward, TasksOnward,
           pc' \in CallPlaces, call' \in CallType, token' \in BOOLEAN, ending' \in {"none", "suspend", "end"},
           session' \in [SessionTools -> 0 .. Len(procs')],
           \A t \in SessionTools : session'[t] # 0 => procs'[session'[t]].tool = t,
           result' \in ResultType,
           OwnAnswer', AtItsPlace', OwnIds',
           \A p \in Pids : Held(p) /\ procs[p].sup \notin {"bgq", "bg"} /\ Lives(p) /\ Lives(p)'
               /\ ~ (\E k \in Watched : tasks[k].pid = p) => Held(p)',
           \A p \in Pids' \ Pids : Lives(p)' => Held(p)'
    PROVE  Inv'
<1>1. TypeOK'
  BY DEF TypeOK, ProcsOnward, TasksOnward
<1>2. (\A p \in Pids : Sound(procs[p]))'
  BY DEF ProcsOnward
<1>3. ScriptsSupervised'
  BY DEF TasksOnward, ScriptsSupervised
<1>4. Owned'
  <2>1. SUFFICES ASSUME NEW p \in Pids', Lives(p)'
                 PROVE  Held(p)'
    BY DEF Owned, Lives, Held
  <2>2. CASE p \notin Pids
    BY <2>1, <2>2
  <2>3. CASE p \in Pids
    <3>1. Lives(p)
      BY <2>1, <2>3, OnwardFacts
    <3>2. Held(p)
      BY <2>3, <3>1 DEF Inv, Owned, Lives, Held
    <3>3. CASE procs[p].sup \in {"bgq", "bg"}
      BY <2>1, <2>3, <3>3, OnwardFacts DEF Held
    <3>4. CASE \E k \in Watched : tasks[k].pid = p
      BY <2>1, <2>3, <3>4 DEF TasksOnward, Held
    <3>5. QED
      BY <2>1, <2>3, <3>1, <3>2, <3>3, <3>4
  <2>4. QED
    BY <2>2, <2>3
<1>5. QED
  BY <1>1, <1>2, <1>3, <1>4 DEF Inv

\* A call that returns: the kernel lets go of the process, so it must be in
\* the map of the session, have ended, or be left to the background.
LEMMA ReturnKeepsInv ==
    ASSUME Inv, ProcsOnward, TasksOnward, NEW kind \in Kinds, NEW of \in Nat, Return(kind, of),
           kind = "Value" => of = call.n, UNCHANGED <<session, ending>>,
           pc \notin {"killing", "down"},
           \A p \in Pids : Awaits(p) /\ Lives(p)' => procs'[p].sup \in {"bgq", "bg"},
           \A p \in Pids' \ Pids : procs'[p].st # "running"
    PROVE  Inv'
<1>1. /\ pc' = "idle" /\ token' = FALSE /\ call' = NoToolCall
      /\ result' = [n |-> call.n, kind |-> kind, of |-> of]
  BY DEF Return
<1>2. call \in CallType
      /\ ending' \in {"none", "suspend", "end"}
  BY DEF Inv, TypeOK
<1>3. /\ call' \in CallType
      /\ result' \in ResultType
  BY <1>1, <1>2 DEF NoToolCall, CallType, ResultType
<1>4. OwnAnswer'
  BY <1>1 DEF OwnAnswer
<1>5. AtItsPlace' /\ OwnIds'
  BY <1>1 DEF AtItsPlace, OwnIds, AtTool, AtProcess, Killer
<1>6. ASSUME NEW p \in Pids, Held(p), procs[p].sup \notin {"bgq", "bg"}, Lives(p)',
             ~ (\E k \in Watched : tasks[k].pid = p)
      PROVE  Held(p)'
  <2>1. CASE \E t \in DOMAIN session : session[t] = p
    BY <2>1 DEF Held
  <2>2. CASE Killer /\ call.pid = p
    <3>1. pc = "broken"
      BY <2>2 DEF Killer
    <3>2. session[call.tool] = p /\ call.tool \in SessionTools
      BY <2>2, <3>1 DEF Inv, AtItsPlace, AtProcess, AtTool
    <3>3. QED
      BY <3>2 DEF Held, Inv, TypeOK
  <2>3. CASE Awaits(p)
    BY <1>6, <2>3 DEF Held
  <2>4. QED
    BY <1>6, <2>1, <2>2, <2>3 DEF Held
<1>7. \A p \in Pids' \ Pids : Lives(p)' => Held(p)'
  BY DEF Lives, Running
<1>8. QED
  BY <1>1, <1>2, <1>3, <1>4, <1>5, <1>6, <1>7, SessionUnchanged, InvFromParts DEF CallPlaces

\* A step of processes, supervisors or tasks, the kernel staying where it is.
LEMMA ProcStepKeepsInv ==
    ASSUME Inv, ProcsOnward, TasksOnward, UNCHANGED <<pc, call, session, ending, result>>,
           token' \in BOOLEAN, \A p \in Pids : Quiet(procs[p], procs'[p]),
           \A p \in Pids' \ Pids : \E k \in Watched' : tasks'[k].pid = p
    PROVE  Inv'
<1>1. TypeOK /\ AtItsPlace /\ OwnIds
  BY DEF Inv
<1>2. AtItsPlace'
  <2>1. \A p \in Pids : /\ p \in Pids'
                        /\ procs'[p].sup = "none" <=> procs[p].sup = "none"
                        /\ Running(p)' => Running(p)
                        /\ Running(p)' /\ procs[p].sig # "none" => procs'[p].sig # "none"
    BY OnwardFacts
  <2>2. Killer => call.pid \in Pids
    BY <1>1 DEF Killer, AtItsPlace, AtProcess
  <2>3. Killer' /\ Running(call.pid)' => procs'[call'.pid].sig # "none"
    BY <1>1, <2>1, <2>2 DEF Killer, AtItsPlace, Running
  <2>4. QED
    BY <1>1, <2>1, <2>3 DEF AtItsPlace, AtTool, AtProcess
<1>3. OwnIds'
  <2>1. SUFFICES ASSUME pc \in {"write", "read"}
                 PROVE  OwnIds'
    BY DEF OwnIds
  <2>2. call.pid \in Pids /\ call.id = procs[call.pid].next /\ call.id > 0
    BY <1>1, <2>1 DEF AtItsPlace, AtProcess, OwnIds
  <2>3. /\ procs'[call.pid].next = procs[call.pid].next
        /\ \A m \in InFlight(procs'[call.pid]) : m \in InFlight(procs[call.pid]) \/ m.id = TooLong
    BY <2>2 DEF Quiet
  <2>4. TooLong # call.id
    BY <1>1, <2>2 DEF TooLong, TypeOK
  <2>5. QED
    BY <1>1, <2>1, <2>2, <2>3, <2>4 DEF OwnIds
<1>4. ASSUME NEW p \in Pids, Held(p), procs[p].sup \notin {"bgq", "bg"},
             ~ (\E k \in Watched : tasks[k].pid = p)
      PROVE  Held(p)'
  BY <1>4 DEF Held, Killer, Awaits
<1>5. \A p \in Pids' \ Pids : Lives(p)' => Held(p)'
  BY DEF Held
<1>6. OwnAnswer'
  BY DEF Inv, OwnAnswer
<1>7. /\ call' \in CallType
      /\ result' \in ResultType /\ ending' \in {"none", "suspend", "end"}
      /\ pc' \in CallPlaces
  BY <1>1 DEF TypeOK
<1>8. QED
  BY <1>2, <1>3, <1>4, <1>5, <1>6, <1>7, SessionUnchanged, InvFromParts

-----------------------------------------------------------------------------
(* The processes and their supervisors *)

\* A step of one process alone.
LEMMA OneProcKeepsInv ==
    ASSUME Inv, NEW p \in Pids, NEW y, procs' = [procs EXCEPT ![p] = y],
           Later(procs[p], y), Quiet(procs[p], y),
           UNCHANGED <<pc, call, token, session, tasks, ending, result>>
    PROVE  Inv' /\ ProcsOnward
<1>1. ProcsOnward /\ Pids' = Pids /\ \A q \in Pids : Quiet(procs[q], procs'[q])
  BY OneProcChanges
<1>2. token' \in BOOLEAN
  BY DEF Inv, TypeOK
<1>3. QED
  BY <1>1, <1>2, TasksUnchanged, ProcStepKeepsInv

LEMMA ExitSeenKeepsInv ==
    ASSUME Inv, NEW p \in Pids, ExitSeen(p)
    PROVE  Inv' /\ ProcsOnward
<1> DEFINE x == procs[p]
           z == [x EXCEPT !.st = "reaped"]
           y == [z EXCEPT !.sup = "drain"]
<1>1. x \in ProcType /\ Sound(x) /\ x.sup = "wait" /\ x.st = "zombie"
  BY ProcsFacts DEF ExitSeen, Supervises
<1>2. /\ z \in ProcType /\ z.tool = x.tool /\ z.sup = x.sup /\ z.next = x.next /\ z.in = x.in
      /\ z.out = x.out /\ z.sig = x.sig /\ z.st = "reaped"
  BY <1>1 DEF ProcType
<1>3. procs' = [procs EXCEPT ![p] = y]
  BY ProcsFacts DEF ExitSeen
<1> HIDE DEF x, z
<1>4. Later(x, z) /\ Quiet(x, z)
  BY <1>1, <1>2, LaterByFields
<1>5. Sound(z)
  BY <1>4 DEF Later
<1>6. Later(z, y) /\ Quiet(z, y)
  BY <1>1, <1>2, <1>5, SupervisorProperties
<1>7. Later(x, y) /\ Quiet(x, y)
  BY <1>1, <1>2, <1>4, <1>6, LaterTransitive
<1>8. QED
  BY <1>3, <1>7, OneProcKeepsInv DEF ExitSeen, x

\* SIGTERM, or SIGKILL after it, and what the supervisor does then.
LEMMA SignalAndSupervise ==
    ASSUME NEW x \in ProcType, Sound(x), x.sup # "none", NEW sig \in {"term", "kill"},
           NEW sup \in {"term", "bg", "dropped"},
           sig = "kill" /\ x.st = "running" => x.sig # "none",
           sup = "dropped" <=> sig = "kill",
           x.sup \in {"bgq", "bg"} => sup \in {"bg", "dropped"}
    PROVE  /\ Later(x, [Signalled(x, sig) EXCEPT !.sup = sup])
           /\ Quiet(x, [Signalled(x, sig) EXCEPT !.sup = sup])
           /\ [Signalled(x, sig) EXCEPT !.sup = sup].st = "running" /\ sig = "kill"
                 => [Signalled(x, sig) EXCEPT !.sup = sup].sig = "kill"
<1> DEFINE z == Signalled(x, sig)
           y == [z EXCEPT !.sup = sup]
<1>1. /\ Later(x, z) /\ Quiet(x, z) /\ z.st = x.st /\ z.sup = x.sup
      /\ z.st = "running" => z.sig # "none"
      /\ z.st = "running" /\ sig = "kill" => z.sig = "kill"
  BY SignalledProperties
<1>2. z \in ProcType /\ Sound(z)
  BY <1>1 DEF Later
<1> HIDE DEF z
<1>3. Later(z, y) /\ Quiet(z, y)
  BY <1>1, <1>2, SupervisorProperties
<1>4. y.st = z.st /\ y.sig = z.sig
  BY <1>2 DEF ProcType
<1>5. Later(x, y) /\ Quiet(x, y)
  BY <1>1, <1>2, <1>3, <1>4 DEF Later, Quiet, ProcType
<1>6. QED
  BY <1>1, <1>4, <1>5 DEF z

LEMMA SignalsKeepInv ==
    ASSUME Inv, NEW p \in Pids, HostDeadline(p) \/ HostKill(p) \/ SupTimeout(p) \/ BgTerm(p)
    PROVE  Inv' /\ ProcsOnward
<1>1. procs[p] \in ProcType /\ Sound(procs[p])
  BY ProcsFacts
<1>2. CASE HostDeadline(p)
  <2>1. procs' = [procs EXCEPT ![p] = Signalled(procs[p], "term")]
    BY <1>2 DEF HostDeadline
  <2>2. Later(procs[p], Signalled(procs[p], "term")) /\ Quiet(procs[p], Signalled(procs[p], "term"))
    BY <1>1, SignalledProperties
  <2>3. QED
    BY <1>2, <2>1, <2>2, OneProcKeepsInv DEF HostDeadline
<1>3. CASE SupTimeout(p)
  <2> DEFINE y == [Signalled(procs[p], "term") EXCEPT !.sup = "term"]
  <2>1. procs' = [procs EXCEPT ![p] = y] /\ procs[p].sup \in {"wait", "drain"}
    BY <1>3 DEF SupTimeout, Supervises
  <2>2. Later(procs[p], y) /\ Quiet(procs[p], y)
    BY <1>1, <2>1, SignalAndSupervise
  <2>3. QED
    BY <1>3, <2>1, <2>2, OneProcKeepsInv DEF SupTimeout
<1>4. CASE BgTerm(p)
  <2> DEFINE y == [Signalled(procs[p], "term") EXCEPT !.sup = "bg"]
  <2>1. procs' = [procs EXCEPT ![p] = y] /\ procs[p].sup = "bgq"
    BY <1>4 DEF BgTerm, Supervises
  <2>2. Later(procs[p], y) /\ Quiet(procs[p], y)
    BY <1>1, <2>1, SignalAndSupervise
  <2>3. QED
    BY <1>4, <2>1, <2>2, OneProcKeepsInv DEF BgTerm
<1>5. CASE HostKill(p)
  <2>1. procs' = [procs EXCEPT ![p] = Signalled(procs[p], "kill")] /\ procs[p].sig # "none"
    BY <1>5 DEF HostKill
  <2>2. Later(procs[p], Signalled(procs[p], "kill")) /\ Quiet(procs[p], Signalled(procs[p], "kill"))
    BY <1>1, <2>1, SignalledProperties
  <2>3. QED
    BY <1>5, <2>1, <2>2, OneProcKeepsInv DEF HostKill
<1>6. QED
  BY <1>2, <1>3, <1>4, <1>5

LEMMA ReapKeepsInv ==
    ASSUME Inv, NEW p \in Pids, Reap(p)
    PROVE  Inv' /\ ProcsOnward
<1> DEFINE y == [procs[p] EXCEPT !.st = "reaped"]
<1>1. procs[p] \in ProcType /\ Sound(procs[p]) /\ procs[p].st = "zombie"
  BY ProcsFacts DEF Reap
<1>2. /\ y \in ProcType /\ y.tool = procs[p].tool /\ y.sup = procs[p].sup
      /\ y.next = procs[p].next /\ y.in = procs[p].in /\ y.out = procs[p].out
      /\ y.sig = procs[p].sig /\ y.st = "reaped"
  BY <1>1 DEF ProcType
<1>3. procs' = [procs EXCEPT ![p] = y]
  BY DEF Reap
<1> HIDE DEF y
<1>4. Later(procs[p], y) /\ Quiet(procs[p], y)
  BY <1>1, <1>2, LaterByFields
<1>5. QED
  BY <1>3, <1>4, OneProcKeepsInv DEF Reap

\* The exit of a process ends its supervision, its signals and its requests.
LEMMA ExitsKeepsInv ==
    ASSUME Inv, NEW p \in Pids, Exits(p)
    PROVE  Inv' /\ ProcsOnward
<1> DEFINE x == procs[p]
           y == [x EXCEPT !.st = "zombie", !.sig = "none", !.in = <<>>]
<1>1. x \in ProcType /\ Sound(x) /\ x.st = "running"
  BY ProcsFacts DEF Exits, Running
<1>2. <<>> \in Seq(Message) /\ Lines(<<>>) = {}
  BY DEF Lines
<1>3. /\ y \in ProcType /\ y.tool = x.tool /\ y.sup = x.sup /\ y.next = x.next
      /\ y.in = <<>> /\ y.out = x.out /\ y.sig = "none" /\ y.st = "zombie"
  BY <1>1, <1>2 DEF ProcType
<1>4. procs' = [procs EXCEPT ![p] = y]
  BY ProcsFacts DEF Exits
<1> HIDE DEF x, y
<1>5. InFlight(y) \subseteq InFlight(x)
  BY <1>2, <1>3 DEF InFlight
<1>6. Sound(y)
  BY <1>1, <1>3, <1>5 DEF Sound
<1>7. Later(x, y) /\ Quiet(x, y)
  BY <1>1, <1>3, <1>5, <1>6 DEF Later, Quiet
<1>8. QED
  BY <1>4, <1>7, OneProcKeepsInv DEF Exits, x

\* An answer has the id of its request, or is too long to have one.
LEMMA GuestAnswersKeepsInv ==
    ASSUME Inv, NEW p \in Pids, GuestAnswers(p)
    PROVE  Inv' /\ ProcsOnward
<1> DEFINE x == procs[p]
           line == Head(x.in)
<1>1. x \in ProcType /\ Sound(x) /\ x.in \in Seq(Message) /\ x.out \in Seq(Message)
  BY ProcsFacts DEF ProcType
<1>2. PICK id \in {line.id, TooLong} :
         procs' = [procs EXCEPT ![p].in = Tail(@), ![p].out = Append(@, [line EXCEPT !.id = id])]
  BY DEF GuestAnswers
<1> DEFINE m == [line EXCEPT !.id = id]
           y == [x EXCEPT !.in = Tail(x.in), !.out = Append(x.out, m)]
<1>3. /\ line \in Message /\ line \in Lines(x.in)
      /\ Tail(x.in) \in Seq(Message) /\ Lines(Tail(x.in)) \subseteq Lines(x.in)
  <2>1. x.in # <<>>
    BY DEF GuestAnswers
  <2>2. [id |-> 0, n |-> 0] \in Message
    BY DEF Message
  <2>3. QED
    BY <1>1, <2>1, <2>2, LinesOfPipe
<1>4. m \in Message /\ (m.id = TooLong \/ m = line)
  BY <1>3 DEF Message, TooLong
<1>5. Append(x.out, m) \in Seq(Message) /\ Lines(Append(x.out, m)) \subseteq Lines(x.out) \cup {m}
  BY <1>1, <1>4, LinesOfPipe
<1>6. procs' = [procs EXCEPT ![p] = y]
  BY <1>2, ProcsFacts
<1> HIDE DEF x, m, line
<1>7. /\ y \in ProcType /\ y.tool = x.tool /\ y.sup = x.sup /\ y.next = x.next
      /\ y.in = Tail(x.in) /\ y.out = Append(x.out, m) /\ y.sig = x.sig /\ y.st = x.st
  BY <1>1, <1>3, <1>5 DEF ProcType
<1> HIDE DEF y
<1>8. \A k \in InFlight(y) : k \in InFlight(x) \/ k.id = TooLong
  BY <1>3, <1>4, <1>5, <1>7 DEF InFlight
<1>9. Sound(y)
  <2>1. TooLong <= x.next
    BY <1>1 DEF TooLong, ProcType
  <2>2. QED
    BY <1>1, <1>7, <1>8, <2>1 DEF Sound
<1>10. Later(x, y) /\ Quiet(x, y)
  BY <1>1, <1>7, <1>8, <1>9 DEF Later, Quiet
<1>11. QED
  BY <1>6, <1>10, OneProcKeepsInv DEF GuestAnswers, x

\* kill_process() after its grace: SIGTERM came before.
LEMMA KillGraceOverKeepsInv ==
    ASSUME Inv, KillGraceOver
    PROVE  Inv' /\ ProcsOnward
<1> DEFINE p == call.pid
<1>1. p \in Pids /\ procs[p].sig # "none"
  BY DEF Inv, AtItsPlace, AtProcess, KillGraceOver, Killer
<1>2. procs[p] \in ProcType /\ Sound(procs[p])
  BY <1>1, ProcsFacts
<1>3. Later(procs[p], Signalled(procs[p], "kill")) /\ Quiet(procs[p], Signalled(procs[p], "kill"))
  BY <1>1, <1>2, SignalledProperties
<1>4. QED
  BY <1>1, <1>3, OneProcKeepsInv DEF KillGraceOver

\* A cancel by the user changes the token alone.
LEMMA CancelKeepsInv ==
    ASSUME Inv, Cancel
    PROVE  Inv' /\ ProcsOnward
<1>1. ProcsOnward /\ Pids' = Pids /\ \A p \in Pids : Quiet(procs[p], procs'[p])
  BY ProcsUnchanged DEF Cancel
<1>2. TasksOnward
  BY <1>1, TasksUnchanged DEF Cancel
<1>3. QED
  BY <1>1, <1>2, ProcStepKeepsInv DEF Cancel

-----------------------------------------------------------------------------
(* The ends of supervisions, and the tasks *)

\* Tasks are reported or stopped: their processes must have ended or be left
\* to the background.
LEMMA TasksMarked ==
    ASSUME Inv, ProcsOnward, NEW ks, NEW st \in {"reported", "stopped"},
           tasks' = [k \in DOMAIN tasks |-> IF k \in ks THEN [tasks[k] EXCEPT !.st = st] ELSE tasks[k]],
           \A p \in Pids : (\E k \in ks \cap Watched : tasks[k].pid = p) /\ Lives(p)' =>
               procs'[p].sup \in {"bgq", "bg"}
    PROVE  TasksOnward
<1>1. /\ tasks \in Seq(ScriptTask)
      /\ \A k \in DOMAIN tasks :
            /\ tasks[k] \in ScriptTask /\ tasks[k].pid \in 0 .. Len(procs)
            /\ tasks[k].pid # 0 => tasks[k].pid \in Pids /\ procs[tasks[k].pid].sup # "none"
  BY TasksFacts
<1>2. \A k \in DOMAIN tasks : /\ tasks'[k] \in ScriptTask /\ tasks'[k].pid = tasks[k].pid
                              /\ k \in ks \/ tasks'[k] = tasks[k]
  BY <1>1 DEF ScriptTask
<1>3. DOMAIN tasks = 1 .. Len(tasks) /\ DOMAIN tasks' = DOMAIN tasks /\ Len(tasks) \in Nat
  BY <1>1
<1>4. tasks' \in [1 .. Len(tasks) -> ScriptTask]
  BY <1>2, <1>3
<1>5. tasks' \in Seq(ScriptTask)
  BY <1>3, <1>4
<1>6. \A k \in DOMAIN tasks' : /\ tasks'[k].pid \in 0 .. Len(procs')
                               /\ tasks'[k].pid # 0 => procs'[tasks'[k].pid].sup # "none"
  BY <1>1, <1>2, <1>3, OnwardFacts
<1>7. ASSUME NEW p \in Pids, NEW k \in Watched, tasks[k].pid = p, Lives(p)'
      PROVE  (\E j \in Watched' : tasks'[j].pid = p) \/ procs'[p].sup \in {"bgq", "bg"}
  <2>1. CASE k \in ks
    BY <1>7, <2>1
  <2>2. CASE k \notin ks
    <3>1. k \in Watched' /\ tasks'[k].pid = p
      BY <1>2, <1>3, <1>7, <2>2 DEF Watched
    <3>2. QED
      BY <3>1
  <2>3. QED
    BY <2>1, <2>2
<1>8. QED
  BY <1>5, <1>6, <1>7 DEF TasksOnward

\* The end of a supervision goes to the call that waits for it, or to the
\* task: the process has exited or has SIGKILL.
LEMMA ReportKeepsInv ==
    ASSUME Inv, NEW p \in Pids, NEW y, procs' = [procs EXCEPT ![p] = y],
           Later(procs[p], y), Quiet(procs[p], y), y.st = "running" => y.sig = "kill",
           NEW kind \in Kinds \ {"Value"}, Report(p, kind), UNCHANGED <<session, ending>>
    PROVE  Inv' /\ ProcsOnward
<1>1. /\ ProcsOnward /\ Pids' = Pids /\ procs'[p] = y
      /\ \A q \in Pids : Quiet(procs[q], procs'[q])
  BY OneProcChanges
<1>2. ~ Lives(p)'
  BY <1>1 DEF Lives, Running
<1>3. CASE Awaits(p)
  <2>1. Return(kind, call.n) /\ tasks' = tasks /\ call.n \in Nat
    BY <1>3 DEF Report, Inv, TypeOK, CallType
  <2>2. pc \notin {"killing", "down"} /\ \A q \in Pids : Awaits(q) => q = p
    BY <1>3 DEF Awaits
  <2>3. TasksOnward
    BY <1>1, <2>1, TasksUnchanged
  <2>4. QED
    BY <1>1, <1>2, <2>1, <2>2, <2>3, ReturnKeepsInv
<1>4. CASE ~ Awaits(p)
  <2> DEFINE ks == {k \in DOMAIN tasks : tasks[k].pid = p /\ tasks[k].st = "watched"}
  <2>1. /\ tasks' = [k \in DOMAIN tasks |->
                      IF k \in ks THEN [tasks[k] EXCEPT !.st = "reported"] ELSE tasks[k]]
        /\ UNCHANGED <<pc, token, call, result>>
    BY <1>4 DEF Report
  <2>2. \A q \in Pids : (\E k \in ks \cap Watched : tasks[k].pid = q) => q = p
    OBVIOUS
  <2> HIDE DEF ks
  <2>3. TasksOnward
    BY <1>1, <1>2, <2>1, <2>2, TasksMarked
  <2>4. token' \in BOOLEAN
    BY <2>1 DEF Inv, TypeOK
  <2>5. QED
    BY <1>1, <2>1, <2>3, <2>4, ProcStepKeepsInv
<1>5. QED
  BY <1>3, <1>4

LEMMA DrainEndsKeepsInv ==
    ASSUME Inv, NEW p \in Pids, DrainEnds(p)
    PROVE  Inv' /\ ProcsOnward
<1> DEFINE y == [procs[p] EXCEPT !.sup = "done"]
<1>1. procs[p] \in ProcType /\ Sound(procs[p]) /\ procs[p].sup = "drain"
  BY ProcsFacts DEF DrainEnds, Supervises
<1>2. procs[p].st = "reaped" /\ y.st = "reaped"
  BY <1>1 DEF Sound, ProcType
<1>3. Later(procs[p], y) /\ Quiet(procs[p], y)
  BY <1>1, <1>2, SupervisorProperties
<1>4. procs' = [procs EXCEPT ![p] = y] /\ Report(p, "Output") /\ UNCHANGED <<session, ending>>
  BY DEF DrainEnds
<1> HIDE DEF y
<1>5. QED
  BY <1>2, <1>3, <1>4, ReportKeepsInv DEF Kinds

LEMMA GraceOverKeepsInv ==
    ASSUME Inv, NEW p \in Pids, GraceOver(p)
    PROVE  Inv' /\ ProcsOnward
<1> DEFINE y == [Signalled(procs[p], "kill") EXCEPT !.sup = "dropped"]
<1>1. procs[p] \in ProcType /\ Sound(procs[p]) /\ procs[p].sup \in {"term", "bg"}
  BY ProcsFacts DEF GraceOver, Supervises
<1>2. procs[p].st = "running" => procs[p].sig # "none"
  BY <1>1 DEF Sound
<1>3. Later(procs[p], y) /\ Quiet(procs[p], y) /\ (y.st = "running" => y.sig = "kill")
  BY <1>1, <1>2, SignalAndSupervise
<1>4. procs' = [procs EXCEPT ![p] = y] /\ Report(p, "Timeout") /\ UNCHANGED <<session, ending>>
  BY DEF GraceOver
<1> HIDE DEF y
<1>5. QED
  BY <1>3, <1>4, ReportKeepsInv DEF Kinds

\* The launch of a script: it fails and is reported, or the task holds the
\* process from its start.
LEMMA LaunchScriptKeepsInv ==
    ASSUME Inv, NEW k \in DOMAIN tasks, LaunchScript(k)
    PROVE  Inv' /\ ProcsOnward
<1>1. /\ tasks \in Seq(ScriptTask) /\ tasks[k] \in ScriptTask
      /\ \A j \in DOMAIN tasks :
            /\ tasks[j] \in ScriptTask /\ tasks[j].pid \in 0 .. Len(procs)
            /\ tasks[j].pid # 0 => tasks[j].pid \in Pids /\ procs[tasks[j].pid].sup # "none"
  BY TasksFacts
<1>2. /\ tasks[k].st = "watched" /\ tasks[k].pid = 0
      /\ UNCHANGED <<pc, call, token, session, ending, result>>
  BY DEF LaunchScript
<1>3. token' \in BOOLEAN
  BY <1>2 DEF Inv, TypeOK
<1>4. CASE tasks' = [tasks EXCEPT ![k].st = "reported"] /\ procs' = procs
  <2>1. ProcsOnward /\ Pids' = Pids /\ \A p \in Pids : Quiet(procs[p], procs'[p])
    BY <1>4, ProcsUnchanged
  <2>2. tasks' = [j \in DOMAIN tasks |->
                    IF j \in {k} THEN [tasks[j] EXCEPT !.st = "reported"] ELSE tasks[j]]
    BY <1>1, <1>4
  <2>3. 0 \notin Pids
    BY ProcsFacts
  <2>4. TasksOnward
    <3>1. \A p \in Pids : ~ (\E j \in {k} \cap Watched : tasks[j].pid = p)
      BY <1>2, <2>3
    <3>2. QED
      BY <2>1, <2>2, <3>1, TasksMarked
  <2>5. QED
    BY <1>2, <1>3, <2>1, <2>4, ProcStepKeepsInv
<1>5. CASE procs' = Append(procs, NewProc(tasks[k].tool)) /\ tasks' = [tasks EXCEPT ![k].pid = Fresh]
  <2> DEFINE y == NewProc(tasks[k].tool)
  <2>1. tasks[k].tool \in DOMAIN Tools /\ Tools[tasks[k].tool].kind = "script"
    BY <1>1 DEF ScriptTask
  <2>2. /\ y \in ProcType /\ Sound(y) /\ y.tool = tasks[k].tool
        /\ y.sup = "none" <=> Tools[tasks[k].tool].kind = "session"
    BY <2>1, NewProcProperties
  <2> HIDE DEF y
  <2>3. /\ ProcsOnward /\ Pids' = Pids \cup {Fresh} /\ Fresh \notin Pids
        /\ Fresh \in Nat /\ Fresh > 0 /\ Len(procs') = Fresh
        /\ procs'[Fresh] = y /\ \A p \in Pids : procs'[p] = procs[p]
        /\ \A p \in Pids : Quiet(procs[p], procs'[p])
    BY <1>5, <2>2, ProcStarts DEF y
  <2>4. /\ tasks' \in Seq(ScriptTask) /\ DOMAIN tasks' = DOMAIN tasks
        /\ tasks'[k] = [tasks[k] EXCEPT !.pid = Fresh]
        /\ \A j \in DOMAIN tasks \ {k} : tasks'[j] = tasks[j]
    <3>1. [tasks[k] EXCEPT !.pid = Fresh] \in ScriptTask
      BY <1>1, <2>3 DEF ScriptTask
    <3>2. QED
      BY <1>1, <1>5, <3>1
  <2>5. tasks'[k].pid = Fresh /\ tasks'[k].st = "watched"
    BY <1>1, <1>2, <2>4 DEF ScriptTask
  <2>6. \A j \in DOMAIN tasks' : /\ tasks'[j].pid \in 0 .. Len(procs')
                                 /\ tasks'[j].pid # 0 => procs'[tasks'[j].pid].sup # "none"
    <3>1. \A j \in DOMAIN tasks \ {k} : /\ tasks'[j].pid \in 0 .. Len(procs')
                                        /\ tasks'[j].pid # 0 => procs'[tasks'[j].pid].sup # "none"
      BY <1>1, <2>3, <2>4, OnwardFacts
    <3>2. Fresh \in 0 .. Len(procs') /\ procs'[Fresh].sup # "none"
      BY <2>1, <2>2, <2>3
    <3>3. QED
      BY <2>4, <2>5, <3>1, <3>2
  <2>7. \A p \in Pids : (\E j \in Watched : tasks[j].pid = p) => \E j \in Watched' : tasks'[j].pid = p
    <3>1. ASSUME NEW p \in Pids, NEW j \in Watched, tasks[j].pid = p
          PROVE  j \in Watched' /\ tasks'[j].pid = p
      <4>1. j # k
        BY <1>2, <3>1, ProcsFacts
      <4>2. QED
        BY <2>4, <3>1, <4>1 DEF Watched
    <3>2. QED
      BY <3>1
  <2>8. TasksOnward
    BY <2>4, <2>6, <2>7 DEF TasksOnward
  <2>9. k \in Watched'
    BY <2>4, <2>5 DEF Watched
  <2>10. QED
    BY <1>2, <1>3, <2>3, <2>5, <2>8, <2>9, ProcStepKeepsInv
<1>6. QED
  BY <1>4, <1>5 DEF LaunchScript

\* A task that is aborted drops the launch, which leaves the process to the
\* background.
LEMMA AbortTaskKeepsInv ==
    ASSUME Inv, NEW k \in DOMAIN tasks, AbortTask(k)
    PROVE  Inv' /\ ProcsOnward
<1> DEFINE ps == {p \in Pids : tasks[k].pid = p}
<1>1. /\ tasks \in Seq(ScriptTask)
      /\ tasks[k].pid # 0 => tasks[k].pid \in Pids /\ procs[tasks[k].pid].sup # "none"
  BY TasksFacts
<1>2. procs' = [p \in Pids |-> IF p \in ps THEN Dropped(procs[p]) ELSE procs[p]]
  BY DEF AbortTask, Aborted
<1>3. /\ ProcsOnward /\ Pids' = Pids
      /\ \A p \in Pids : Quiet(procs[p], procs'[p])
      /\ \A p \in Pids : p \in ps /\ procs[p].sup # "none" /\ Lives(p)' =>
                           procs'[p].sup \in {"bgq", "bg"}
  BY <1>2, ProcsDropped
<1>4. tasks' = [j \in DOMAIN tasks |->
                  IF j \in {k} THEN [tasks[j] EXCEPT !.st = "stopped"] ELSE tasks[j]]
  BY <1>1 DEF AbortTask
<1>5. \A p \in Pids : (\E j \in {k} \cap Watched : tasks[j].pid = p) =>
                      p \in ps /\ procs[p].sup # "none"
  BY <1>1, ProcsFacts
<1> HIDE DEF ps
<1>6. TasksOnward
  BY <1>3, <1>4, <1>5, TasksMarked
<1>7. UNCHANGED <<pc, call, token, session, ending, result>> /\ token' \in BOOLEAN
  BY DEF AbortTask, Inv, TypeOK
<1>8. QED
  BY <1>3, <1>6, <1>7, ProcStepKeepsInv

-----------------------------------------------------------------------------
(* The kernel *)

\* The kernel goes to another place, and the map, the tasks and the result
\* stay: it must not let go of the process it kills or waits for.
LEMMA KernelMoves ==
    ASSUME Inv, ProcsOnward, tasks' = tasks, UNCHANGED <<token, ending>>,
           pc' \in CallPlaces, call' \in CallType, result' \in ResultType, OwnAnswer',
           session' \in [SessionTools -> 0 .. Len(procs')],
           \A t \in SessionTools : session'[t] # 0 => procs'[session'[t]].tool = t,
           AtItsPlace', OwnIds',
           \A p \in Pids : Lives(p)' /\ (\E t \in SessionTools : session[t] = p) => Held(p)',
           \A p \in Pids : Lives(p)' /\ Killer /\ call.pid = p => Held(p)',
           pc # "wait",
           \A p \in Pids' \ Pids : Lives(p)' => Held(p)'
    PROVE  Inv'
<1>1. token' \in BOOLEAN /\ ending' \in {"none", "suspend", "end"} /\ DOMAIN session = SessionTools
  BY DEF Inv, TypeOK
<1>2. ASSUME NEW p \in Pids, Held(p), procs[p].sup \notin {"bgq", "bg"}, Lives(p)',
             ~ (\E k \in Watched : tasks[k].pid = p)
      PROVE  Held(p)'
  BY <1>1, <1>2 DEF Held, Awaits
<1>3. QED
  BY <1>1, <1>2, TasksUnchanged, InvFromParts

\* What Inv says of the call.
LEMMA CallFacts ==
    ASSUME Inv
    PROVE  /\ pc \in CallPlaces /\ call \in CallType /\ result \in ResultType /\ token \in BOOLEAN
           /\ session \in [SessionTools -> 0 .. Len(procs)]
           /\ \A t \in SessionTools : session[t] # 0 => session[t] \in Pids /\ procs[session[t]].tool = t
           /\ AtItsPlace /\ OwnIds /\ OwnAnswer
<1>1. /\ pc \in CallPlaces /\ call \in CallType /\ result \in ResultType /\ token \in BOOLEAN
      /\ session \in [SessionTools -> 0 .. Len(procs)]
      /\ \A t \in SessionTools : session[t] # 0 => procs[session[t]].tool = t
      /\ AtItsPlace /\ OwnIds /\ OwnAnswer
  BY DEF Inv, TypeOK
<1>2. QED
  BY <1>1, ProcsFacts

LEMMA CallKeepsInv ==
    ASSUME Inv, Call
    PROVE  Inv' /\ ProcsOnward
<1>1. ProcsOnward
  BY ProcsUnchanged DEF Call
<1>2. PICK t \in DOMAIN Tools :
         /\ call' = [NoToolCall EXCEPT !.n = result.n + 1, !.tool = t]
         /\ pc' = IF Tools[t].kind = "session" THEN "ensure" ELSE "launch"
  BY DEF Call
<1>3. /\ pc = "idle" /\ result' = [n |-> result.n + 1, kind |-> "none", of |-> 0]
      /\ UNCHANGED <<token, procs, session, tasks, ending>>
  BY DEF Call
<1>4. result.n + 1 \in Nat
  BY CallFacts DEF ResultType
<1>5. call' \in CallType /\ call'.tool = t /\ result' \in ResultType
  BY <1>2, <1>3, <1>4 DEF NoToolCall, CallType, ResultType, Kinds
<1>6. OwnAnswer'
  BY <1>3 DEF OwnAnswer
<1>7. AtItsPlace' /\ OwnIds'
  BY <1>2, <1>5 DEF AtItsPlace, OwnIds, AtTool, AtProcess, Killer, SessionTools
<1>8. \A p \in Pids : (\E u \in SessionTools : session[u] = p) => Held(p)'
  BY <1>3, CallFacts DEF Held
<1>9. ~ Killer /\ Pids' = Pids
  BY <1>3 DEF Killer, Pids
<1>10. QED
  BY <1>1, <1>2, <1>3, <1>5, <1>6, <1>7, <1>8, <1>9, SessionUnchanged, KernelMoves DEF CallPlaces

\* ensure_session_process(): a dead process leaves the map and is killed.
LEMMA EnsureKeepsInv ==
    ASSUME Inv, Ensure
    PROVE  Inv' /\ ProcsOnward
<1> DEFINE p == session[call.tool]
<1>1. /\ pc = "ensure" /\ UNCHANGED <<token, tasks, ending, result>>
      /\ call.tool \in SessionTools /\ ~ Killer
  BY CallFacts DEF Ensure, AtItsPlace, AtTool, Killer
<1>2. result' \in ResultType /\ OwnAnswer' /\ call \in CallType
  BY <1>1, CallFacts DEF OwnAnswer
<1>3. /\ session \in [SessionTools -> 0 .. Len(procs)]
      /\ \A t \in SessionTools : session[t] # 0 => session[t] \in Pids /\ procs[session[t]].tool = t
  BY CallFacts
<1>4. CASE p = 0
  <2>1. pc' = "relaunch" /\ UNCHANGED <<call, procs, session>>
    BY <1>4 DEF Ensure
  <2>2. ProcsOnward /\ Pids' = Pids
    BY <2>1, ProcsUnchanged
  <2>3. AtItsPlace' /\ OwnIds'
    BY <1>1, <1>4, <2>1 DEF AtItsPlace, OwnIds, AtTool, AtProcess, Killer
  <2>4. \A q \in Pids : (\E u \in SessionTools : session[u] = q) => Held(q)'
    BY <1>3, <2>1 DEF Held
  <2>5. QED
    BY <1>1, <1>2, <2>1, <2>2, <2>3, <2>4, SessionUnchanged, KernelMoves DEF CallPlaces
<1>5. CASE p # 0 /\ is_alive(procs[p])
  <2>1. pc' = "call" /\ call' = [call EXCEPT !.pid = p] /\ UNCHANGED <<procs, session>>
    BY <1>5 DEF Ensure
  <2>2. ProcsOnward /\ Pids' = Pids
    BY <2>1, ProcsUnchanged
  <2>3. p \in Pids /\ p \in Nat
    BY <1>1, <1>3, <1>5, ProcsFacts
  <2>4. call' \in CallType /\ call'.pid = p /\ call'.tool = call.tool
    BY <1>2, <2>1, <2>3 DEF CallType
  <2>5. AtItsPlace' /\ OwnIds'
    BY <1>1, <2>1, <2>2, <2>3, <2>4 DEF AtItsPlace, OwnIds, AtTool, AtProcess, Killer
  <2>6. \A q \in Pids : (\E u \in SessionTools : session[u] = q) => Held(q)'
    BY <1>3, <2>1 DEF Held
  <2>7. QED
    BY <1>1, <1>2, <2>1, <2>2, <2>4, <2>5, <2>6, SessionUnchanged, KernelMoves DEF CallPlaces
<1>6. CASE p # 0 /\ ~ is_alive(procs[p])
  <2> DEFINE q == KillStarts(procs[p])
  <2>1. /\ procs' = [procs EXCEPT ![p] = q]
        /\ session' = [session EXCEPT ![call.tool] = 0]
        /\ pc' = IF q.st = "reaped" THEN "relaunch" ELSE "killing"
        /\ call' = [call EXCEPT !.pid = p]
    BY <1>6 DEF Ensure
  <2>2. p \in Pids /\ p \in Nat /\ procs[p] \in ProcType /\ Sound(procs[p])
    BY <1>1, <1>3, <1>6, ProcsFacts
  <2>3. /\ Later(procs[p], q) /\ q.st \in {"running", "reaped"}
        /\ q.st = "running" => q.sig # "none"
    BY <2>2, KillStartsProperties
  <2> HIDE DEF q
  <2>4. /\ ProcsOnward /\ Pids' = Pids /\ procs'[p] = q /\ Len(procs') = Len(procs)
    BY <2>1, <2>2, <2>3, OneProcChanges
  <2>5. call' \in CallType /\ call'.pid = p /\ call'.tool = call.tool
    BY <1>2, <2>1, <2>2 DEF CallType
  <2>6. /\ session' \in [SessionTools -> 0 .. Len(procs')] /\ session'[call.tool] = 0
        /\ \A t \in SessionTools \ {call.tool} : session'[t] = session[t]
    BY <1>1, <1>3, <2>1, <2>4, ProcsFacts
  <2>7. \A t \in SessionTools : session'[t] # 0 => procs'[session'[t]].tool = t
    BY <1>3, <2>4, <2>6, OnwardFacts
  <2>8. AtItsPlace' /\ OwnIds'
    BY <1>1, <2>1, <2>2, <2>3, <2>4, <2>5, <2>6
       DEF AtItsPlace, OwnIds, AtTool, AtProcess, Killer, Running
  <2>9. ASSUME NEW r \in Pids, Lives(r)', NEW u \in SessionTools, session[u] = r
        PROVE  Held(r)'
    <3>1. CASE u # call.tool
      BY <2>6, <2>9, <3>1 DEF Held
    <3>2. CASE u = call.tool
      <4>1. r = p /\ q.st = "running"
        BY <2>3, <2>4, <2>9, <3>2 DEF Lives, Running
      <4>2. pc' = "killing"
        BY <2>1, <4>1
      <4>3. QED
        BY <2>5, <4>1, <4>2 DEF Held, Killer
    <3>3. QED
      BY <3>1, <3>2
  <2>10. pc' \in CallPlaces
    BY <2>1 DEF CallPlaces
  <2>11. QED
    BY <1>1, <1>2, <2>4, <2>5, <2>6, <2>7, <2>8, <2>9, <2>10, KernelMoves
<1>7. QED
  BY <1>4, <1>5, <1>6

\* A call of a session process that returns after at most one change of it.
LEMMA CallReturnsInv ==
    ASSUME Inv, NEW kind \in Kinds, NEW of \in Nat, Return(kind, of), kind = "Value" => of = call.n,
           UNCHANGED <<session, tasks, ending>>, pc \notin {"killing", "down", "wait"},
           procs' = procs \/ \E p \in Pids, y \in ProcType : procs' = [procs EXCEPT ![p] = y] /\ Later(procs[p], y)
    PROVE  Inv' /\ ProcsOnward
<1>1. ProcsOnward /\ Pids' = Pids
  <2>1. CASE procs' = procs
    BY <2>1, ProcsUnchanged
  <2>2. ASSUME NEW p \in Pids, NEW y \in ProcType, procs' = [procs EXCEPT ![p] = y], Later(procs[p], y)
        PROVE  ProcsOnward /\ Pids' = Pids
    BY <2>2, OneProcChanges
  <2>3. QED
    BY <2>1, <2>2
<1>2. TasksOnward
  BY <1>1, TasksUnchanged
<1>3. QED
  BY <1>1, <1>2, ReturnKeepsInv DEF Awaits

\* kill_process() sees the exit: nothing is left to hold.
LEMMA KillPollsKeepsInv ==
    ASSUME Inv, KillPolls
    PROVE  Inv' /\ ProcsOnward
<1> DEFINE p == call.pid
           y == Polled(procs[p])
<1>1. /\ Killer /\ procs[p].st = "zombie" /\ procs' = [procs EXCEPT ![p] = y]
      /\ UNCHANGED <<session, tasks, ending>>
  BY DEF KillPolls
<1>2. p \in Pids
  BY <1>1, CallFacts DEF Killer, AtItsPlace, AtProcess
<1>3. procs[p] \in ProcType /\ Sound(procs[p])
  BY <1>2, ProcsFacts
<1>4. Later(procs[p], y) /\ y \in ProcType
  BY <1>3, PolledProperties DEF Later
<1>5. ProcsOnward /\ Pids' = Pids /\ procs'[p] = y
  BY <1>1, <1>2, <1>4, OneProcChanges
<1>6. y.st # "running"
  BY <1>1, <1>4 DEF Later
<1> HIDE DEF y
<1>7. \A q \in Pids : Lives(q)' => q # p
  BY <1>5, <1>6 DEF Lives, Running
<1>8. \A q \in Pids : (\E u \in SessionTools : session[u] = q) => Held(q)'
  BY <1>1, CallFacts DEF Held
<1>9. CASE pc = "broken"
  <2>1. Return("Failed", 0)
    BY <1>9 DEF KillPolls
  <2>2. QED
    BY <1>1, <1>2, <1>4, <1>9, <2>1, CallReturnsInv DEF Kinds
<1>10. CASE pc = "killing"
  <2>1. pc' = "relaunch" /\ UNCHANGED <<call, token, result>>
    BY <1>10 DEF KillPolls
  <2>2. AtItsPlace' /\ OwnIds'
    BY <1>1, <1>10, <2>1, CallFacts DEF AtItsPlace, OwnIds, AtTool, AtProcess, Killer
  <2>3. OwnAnswer' /\ result' \in ResultType /\ call' \in CallType /\ pc' \in CallPlaces
    BY <2>1, CallFacts DEF OwnAnswer, CallPlaces
  <2>4. QED
    BY <1>1, <1>5, <1>7, <1>8, <1>10, <2>1, <2>2, <2>3, SessionUnchanged, KernelMoves
<1>11. CASE pc = "down"
  <2>1. pc' = "ending" /\ call' = NoToolCall /\ UNCHANGED <<token, result>>
    BY <1>11 DEF KillPolls
  <2>2. AtItsPlace' /\ OwnIds'
    BY <2>1 DEF AtItsPlace, OwnIds, AtTool, AtProcess, Killer
  <2>3. OwnAnswer' /\ result' \in ResultType /\ call' \in CallType /\ pc' \in CallPlaces
    BY <2>1, CallFacts DEF OwnAnswer, CallPlaces, CallType, NoToolCall
  <2>4. QED
    BY <1>1, <1>5, <1>7, <1>8, <1>11, <2>1, <2>2, <2>3, SessionUnchanged, KernelMoves
<1>12. QED
  BY <1>1, <1>9, <1>10, <1>11 DEF Killer

\* launch_session(): the new process takes a place in the map that is free.
LEMMA LaunchSessionKeepsInv ==
    ASSUME Inv, LaunchSession
    PROVE  Inv' /\ ProcsOnward
<1> DEFINE t == call.tool
           x == NewProc(t)
           z == [x EXCEPT !.st = "reaped", !.dead = TRUE]
<1>1. /\ pc = "relaunch" /\ t \in SessionTools /\ session[t] = 0 /\ UNCHANGED <<tasks, ending>>
      /\ ~ Killer /\ t \in DOMAIN Tools /\ Tools[t].kind = "session"
  BY CallFacts DEF LaunchSession, AtItsPlace, AtTool, Killer, SessionTools
<1>2. /\ x \in ProcType /\ Sound(x) /\ x.tool = t /\ x.sup = "none"
      /\ z \in ProcType /\ Sound(z) /\ z.tool = t /\ z.sup = "none" /\ z.st = "reaped"
  BY <1>1, NewProcProperties
<1>3. CASE Return("Failed", 0) /\ UNCHANGED <<procs, session>>
  BY <1>1, <1>3, CallReturnsInv DEF Kinds
<1>4. CASE /\ procs' = Append(procs, x)
           /\ session' = [session EXCEPT ![t] = Fresh]
           /\ pc' = "call" /\ call' = [call EXCEPT !.pid = Fresh] /\ UNCHANGED <<token, result>>
  <2> HIDE DEF x, z
  <2>1. /\ ProcsOnward /\ Pids' = Pids \cup {Fresh} /\ Fresh \notin Pids
        /\ Fresh \in Nat /\ Fresh > 0 /\ Len(procs') = Fresh /\ procs'[Fresh] = x
    BY <1>1, <1>2, <1>4, ProcStarts
  <2>2. /\ session \in [SessionTools -> 0 .. Len(procs)]
        /\ \A u \in SessionTools : session[u] # 0 => session[u] \in Pids /\ procs[session[u]].tool = u
    BY CallFacts
  <2>3. /\ session' \in [SessionTools -> 0 .. Len(procs')] /\ session'[t] = Fresh
        /\ \A u \in SessionTools \ {t} : session'[u] = session[u]
    BY <1>1, <1>4, <2>1, <2>2, OnwardFacts
  <2>4. \A u \in SessionTools : session'[u] # 0 => procs'[session'[u]].tool = u
    BY <1>2, <2>1, <2>2, <2>3, OnwardFacts
  <2>5. call' \in CallType /\ call'.pid = Fresh /\ call'.tool = t
    BY <1>4, <2>1, CallFacts DEF CallType
  <2>6. AtItsPlace' /\ OwnIds'
    BY <1>1, <1>4, <2>1, <2>3, <2>5 DEF AtItsPlace, OwnIds, AtTool, AtProcess, Killer
  <2>7. OwnAnswer' /\ result' \in ResultType /\ pc' \in CallPlaces
    BY <1>4, CallFacts DEF OwnAnswer, CallPlaces
  <2>8. \A q \in Pids : (\E u \in SessionTools : session[u] = q) => Held(q)'
    <3>1. ASSUME NEW q \in Pids, NEW u \in SessionTools, session[u] = q
          PROVE  session'[u] = q /\ u \in DOMAIN session'
      BY <1>1, <2>3, <3>1, ProcsFacts
    <3>2. QED
      BY <3>1 DEF Held
  <2>9. \A q \in Pids' \ Pids : Held(q)'
    <3>1. ASSUME NEW q, q = Fresh
          PROVE  Held(q)'
      BY <1>1, <2>3, <3>1 DEF Held
    <3>2. QED
      BY <2>1, <3>1
  <2>10. QED
    BY <1>1, <1>4, <2>1, <2>3, <2>4, <2>5, <2>6, <2>7, <2>8, <2>9, KernelMoves
<1>5. CASE procs' = Append(procs, z) /\ Return("Failed", 0) /\ UNCHANGED session
  <2> HIDE DEF x, z
  <2>1. ProcsOnward /\ Pids' = Pids \cup {Fresh} /\ procs'[Fresh] = z
    BY <1>1, <1>2, <1>5, ProcStarts
  <2>2. TasksOnward
    BY <1>1, <2>1, TasksUnchanged
  <2>3. \A q \in Pids' \ Pids : procs'[q].st # "running"
    BY <1>2, <2>1
  <2>4. /\ pc \notin {"killing", "down"} /\ (\A q \in Pids : ~ Awaits(q)) /\ "Failed" \in Kinds
        /\ Return("Failed", 0) /\ UNCHANGED <<session, ending>>
    BY <1>1, <1>5 DEF Awaits, Kinds
  <2>5. QED
    BY <2>1, <2>2, <2>3, <2>4, ReturnKeepsInv
<1>6. QED
  BY <1>3, <1>4, <1>5 DEF LaunchSession

\* What a call has at hand: its process, which is in the map.
LEMMA AtProcessFacts ==
    ASSUME Inv, pc \in AtProcess
    PROVE  /\ call.pid \in Pids /\ call.tool \in SessionTools /\ session[call.tool] = call.pid
           /\ procs[call.pid] \in ProcType /\ Sound(procs[call.pid])
           /\ \A p \in Pids : (\E t \in SessionTools : session[t] = p) \/ (Killer /\ call.pid = p) =>
                 \E t \in SessionTools : session[t] = p
<1>1. call.pid \in Pids /\ call.tool \in SessionTools /\ session[call.tool] = call.pid
  BY CallFacts DEF AtItsPlace, AtTool, AtProcess
<1>2. QED
  BY <1>1, ProcsFacts

\* The kernel goes on with the call of a session process, which stays in the
\* map.
LEMMA CallGoesOn ==
    ASSUME Inv, pc \in AtProcess, NEW y, procs' = [procs EXCEPT ![call.pid] = y],
           Later(procs[call.pid], y), pc' \in AtProcess, call' \in CallType, call'.pid = call.pid,
           call'.tool = call.tool, UNCHANGED <<token, session, tasks, ending, result>>,
           pc' = "broken" /\ y.st = "running" => y.sig # "none", OwnIds'
    PROVE  Inv' /\ ProcsOnward
<1>1. /\ call.pid \in Pids /\ call.tool \in SessionTools /\ session[call.tool] = call.pid
      /\ \A p \in Pids : (\E t \in SessionTools : session[t] = p) \/ (Killer /\ call.pid = p) =>
            \E t \in SessionTools : session[t] = p
  BY AtProcessFacts
<1>2. ProcsOnward /\ Pids' = Pids /\ procs'[call.pid] = y
  BY <1>1, OneProcChanges
<1>3. AtItsPlace'
  BY <1>1, <1>2 DEF AtItsPlace, AtTool, AtProcess, Killer, Running
<1>4. OwnAnswer' /\ result' \in ResultType /\ pc' \in CallPlaces /\ pc # "wait"
  BY CallFacts DEF OwnAnswer, CallPlaces, AtProcess
<1>5. \A p \in Pids : (\E t \in SessionTools : session[t] = p) => Held(p)'
  BY CallFacts DEF Held
<1>6. QED
  BY <1>1, <1>2, <1>3, <1>4, <1>5, SessionUnchanged, KernelMoves

LEMMA StartCallKeepsInv ==
    ASSUME Inv, StartCall
    PROVE  Inv' /\ ProcsOnward
<1> DEFINE p == call.pid
           x == procs[p]
<1>1. pc = "call" /\ pc \in AtProcess /\ UNCHANGED <<session, tasks, ending>>
  BY DEF StartCall, AtProcess
<1>2. p \in Pids /\ x \in ProcType /\ Sound(x)
  BY <1>1, AtProcessFacts
<1>3. CASE is_alive(x)
  <2> DEFINE y == [x EXCEPT !.next = x.next + 1]
  <2>1. /\ procs' = [procs EXCEPT ![p] = y] /\ call' = [call EXCEPT !.id = x.next + 1]
        /\ pc' = "write" /\ UNCHANGED <<token, result>>
    BY <1>3 DEF StartCall
  <2>2. /\ y \in ProcType /\ y.tool = x.tool /\ y.sup = x.sup /\ y.next = x.next + 1
        /\ y.in = x.in /\ y.out = x.out /\ y.sig = x.sig /\ y.st = x.st /\ x.next \in Nat
    BY <1>2 DEF ProcType
  <2> HIDE DEF x, y
  <2>3. InFlight(y) = InFlight(x) /\ \A m \in InFlight(y) : m \in Message
    BY <1>2, <2>2 DEF InFlight, Lines, ProcType
  <2>4. \A m \in InFlight(y) : m.id <= x.next /\ m.id \in Int
    BY <1>2, <2>3 DEF Sound, Message
  <2>5. Sound(y)
    BY <1>2, <2>2, <2>4 DEF Sound
  <2>6. Later(x, y)
    BY <1>2, <2>2, <2>5 DEF Later
  <2>7. /\ call' \in CallType /\ call'.pid = p /\ call'.tool = call.tool
        /\ call'.id = x.next + 1
    BY <2>1, <2>2, CallFacts DEF CallType
  <2>8. procs'[p] = y
    BY <1>2, <2>1, ProcsFacts
  <2>9. OwnIds'
    BY <2>1, <2>2, <2>4, <2>7, <2>8 DEF OwnIds
  <2>10. QED
    BY <1>1, <2>1, <2>6, <2>7, <2>9, CallGoesOn DEF AtProcess, x
<1>4. CASE ~ is_alive(x)
  <2> DEFINE y == [Polled(x) EXCEPT !.dead = TRUE]
  <2>1. procs' = [procs EXCEPT ![p] = y] /\ Return("Failed", 0)
    BY <1>4 DEF StartCall
  <2>2. Later(x, y) /\ y \in ProcType
    BY <1>2, PolledProperties DEF Later
  <2> HIDE DEF y
  <2>3. QED
    BY <1>1, <1>2, <2>1, <2>2, CallReturnsInv DEF Kinds
<1>5. QED
  BY <1>3, <1>4

\* The request has the id of the call, or none that can be read.
LEMMA WriteKeepsInv ==
    ASSUME Inv, Write
    PROVE  Inv' /\ ProcsOnward
<1> DEFINE p == call.pid
           x == procs[p]
<1>1. pc = "write" /\ pc \in AtProcess /\ UNCHANGED <<session, tasks, ending>>
  BY DEF Write, AtProcess
<1>2. p \in Pids /\ x \in ProcType /\ Sound(x) /\ x.in \in Seq(Message) /\ x.out \in Seq(Message)
  BY <1>1, AtProcessFacts DEF ProcType
<1>3. CASE Running(p)
  <2> DEFINE m == [id |-> IF x.torn THEN Garbled ELSE call.id, n |-> call.n]
             y == [x EXCEPT !.in = Append(x.in, m), !.torn = FALSE]
  <2>1. pc' = "read" /\ UNCHANGED <<call, token, result>>
    BY <1>3 DEF Write
  <2>2. procs' = [procs EXCEPT ![p] = y]
    BY <1>2, <1>3, ProcsFacts DEF Write
  <2>3. call \in CallType /\ call.id = x.next /\ call.id > 0 /\ call.n \in Nat /\ call.id \in Nat
    BY <1>1, CallFacts DEF OwnIds, CallType
  <2>4. m \in Message /\ m.id <= call.id /\ m.n = call.n
    BY <2>3 DEF Message, Garbled
  <2>5. Append(x.in, m) \in Seq(Message) /\ Lines(Append(x.in, m)) \subseteq Lines(x.in) \cup {m}
    BY <1>2, <2>4, LinesOfPipe
  <2> HIDE DEF m, x
  <2>6. /\ y \in ProcType /\ y.tool = x.tool /\ y.sup = x.sup /\ y.next = x.next
        /\ y.in = Append(x.in, m) /\ y.out = x.out /\ y.sig = x.sig /\ y.st = x.st
    BY <1>2, <2>5 DEF ProcType
  <2> HIDE DEF y
  <2>7. InFlight(y) \subseteq InFlight(x) \cup {m}
    BY <2>5, <2>6 DEF InFlight
  <2>8. Sound(y)
    BY <1>2, <2>3, <2>4, <2>6, <2>7 DEF Sound
  <2>9. Later(x, y)
    BY <1>2, <2>6, <2>8 DEF Later
  <2>10. procs'[p] = y
    BY <1>2, <2>2, ProcsFacts
  <2>11. \A k \in InFlight(x) : k.id # call.id
    BY <1>1, CallFacts DEF OwnIds, x
  <2>12. OwnIds'
    BY <2>1, <2>3, <2>4, <2>6, <2>7, <2>10, <2>11 DEF OwnIds
  <2>13. QED
    BY <1>1, <2>1, <2>2, <2>3, <2>9, <2>12, CallGoesOn DEF AtProcess, x
<1>4. CASE ~ Running(p)
  <2> DEFINE y == [x EXCEPT !.dead = TRUE]
  <2>1. procs' = [procs EXCEPT ![p] = y] /\ Return("Failed", 0)
    BY <1>4 DEF Write
  <2>2. Later(x, y) /\ y \in ProcType
    BY <1>2, PolledProperties DEF Later
  <2> HIDE DEF y
  <2>3. QED
    BY <1>1, <1>2, <2>1, <2>2, CallReturnsInv DEF Kinds
<1>5. QED
  BY <1>3, <1>4

\* A line is read.  If its id is that of the call, OwnIds says whose answer it
\* is.
LEMMA ReadKeepsInv ==
    ASSUME Inv, Read
    PROVE  Inv' /\ ProcsOnward
<1> DEFINE p == call.pid
           x == procs[p]
           line == Head(x.out)
           w == [x EXCEPT !.out = Tail(x.out)]
<1>1. pc = "read" /\ pc \in AtProcess /\ UNCHANGED <<session, tasks, ending>> /\ x.out # <<>>
  BY DEF Read, AtProcess
<1>2. p \in Pids /\ x \in ProcType /\ Sound(x) /\ x.out \in Seq(Message)
  BY <1>1, AtProcessFacts DEF ProcType
<1>3. /\ line \in Message /\ line \in Lines(x.out)
      /\ Tail(x.out) \in Seq(Message) /\ Lines(Tail(x.out)) \subseteq Lines(x.out)
  <2>1. [id |-> 0, n |-> 0] \in Message
    BY DEF Message
  <2>2. QED
    BY <1>1, <1>2, <2>1, LinesOfPipe
<1>4. /\ w \in ProcType /\ w.tool = x.tool /\ w.sup = x.sup /\ w.next = x.next
      /\ w.in = x.in /\ w.out = Tail(x.out) /\ w.sig = x.sig /\ w.st = x.st
  BY <1>2, <1>3 DEF ProcType
<1>5. Later(x, w) /\ Quiet(x, w) /\ Sound(w)
  <2>1. InFlight(w) \subseteq InFlight(x)
    BY <1>3, <1>4 DEF InFlight
  <2> HIDE DEF w, x
  <2>2. Sound(w)
    BY <1>2, <1>4, <2>1 DEF Sound
  <2>3. QED
    BY <1>2, <1>4, <2>1, <2>2 DEF Later, Quiet
<1>6. CASE line.id = TooLong
  <2> DEFINE y == KillStarts(w)
  <2>1. /\ procs' = [procs EXCEPT ![p] = y]
        /\ procs'[p].st = "reaped" => Return("Failed", 0)
        /\ procs'[p].st # "reaped" => pc' = "broken" /\ UNCHANGED <<call, token, result>>
    <3>1. procs' = [procs EXCEPT ![p] = y]
      BY <1>6 DEF Read
    <3>2. procs'[p].st = "reaped" => Return("Failed", 0)
      BY <1>6 DEF Read
    <3>3. procs'[p].st # "reaped" => pc' = "broken" /\ UNCHANGED <<call, token, result>>
      BY <1>6 DEF Read
    <3>4. QED
      BY <3>1, <3>2, <3>3
  <2>2. /\ Later(w, y) /\ Quiet(w, y) /\ y.st \in {"running", "reaped"}
        /\ y.st = "running" => y.sig # "none"
    BY <1>4, <1>5, KillStartsProperties
  <2> HIDE DEF y, w
  <2>3. Later(x, y) /\ y \in ProcType
    BY <1>2, <1>4, <1>5, <2>2, LaterTransitive DEF Later
  <2>4. procs'[p] = y
    BY <1>2, <2>1, ProcsFacts
  <2>5. CASE y.st = "reaped"
    <3>1. Return("Failed", 0)
      BY <2>1, <2>4, <2>5
    <3>2. QED
      BY <1>1, <1>2, <2>1, <2>3, <3>1, CallReturnsInv DEF Kinds
  <2>6. CASE y.st # "reaped"
    <3>1. pc' = "broken" /\ UNCHANGED <<call, token, result>>
      BY <2>1, <2>4, <2>6
    <3>2. OwnIds'
      BY <3>1 DEF OwnIds
    <3>3. QED
      BY <1>1, <2>1, <2>2, <2>3, <3>1, <3>2, CallFacts, CallGoesOn DEF AtProcess
  <2>7. QED
    BY <2>5, <2>6
<1>7. CASE line.id # TooLong
  <2> DEFINE kind == parse_response(line, call.id)
  <2>1. procs' = [procs EXCEPT ![p] = w] /\ Return(kind, line.n)
    BY <1>7 DEF Read
  <2>2. kind \in Kinds /\ line.n \in Nat /\ (kind = "Value" => line.id = call.id)
    BY <1>3 DEF parse_response, Kinds, Message
  <2>3. line.id = call.id => line.n = call.n
    BY <1>1, <1>3, CallFacts DEF OwnIds, InFlight
  <2> HIDE DEF kind, w
  <2>4. QED
    BY <1>1, <1>2, <1>4, <1>5, <2>1, <2>2, <2>3, CallReturnsInv
<1>8. QED
  BY <1>6, <1>7

LEMMA ReadEofKeepsInv ==
    ASSUME Inv, ReadEof
    PROVE  Inv' /\ ProcsOnward
<1> DEFINE p == call.pid
           y == [procs[p] EXCEPT !.dead = TRUE]
<1>1. /\ pc = "read" /\ pc \in AtProcess /\ UNCHANGED <<session, tasks, ending>>
      /\ procs' = [procs EXCEPT ![p] = y] /\ Return("Failed", 0)
  BY DEF ReadEof, AtProcess
<1>2. p \in Pids /\ procs[p] \in ProcType /\ Sound(procs[p])
  BY <1>1, AtProcessFacts
<1>3. Later(procs[p], y) /\ y \in ProcType
  BY <1>2, PolledProperties DEF Later
<1> HIDE DEF y
<1>4. QED
  BY <1>1, <1>2, <1>3, CallReturnsInv DEF Kinds

\* launch_stateless(): the call waits for the new process.
LEMMA LaunchStatelessKeepsInv ==
    ASSUME Inv, LaunchStateless
    PROVE  Inv' /\ ProcsOnward
<1> DEFINE t == call.tool
           x == NewProc(t)
<1>1. /\ pc = "launch" /\ t \in DOMAIN Tools \ SessionTools /\ UNCHANGED <<session, tasks, ending>>
      /\ ~ Killer /\ Tools[t].kind # "session"
  BY CallFacts DEF LaunchStateless, AtItsPlace, Killer, SessionTools
<1>2. x \in ProcType /\ Sound(x) /\ x.tool = t /\ x.sup # "none"
  BY <1>1, NewProcProperties
<1>3. CASE Return("Failed", 0) /\ UNCHANGED procs
  BY <1>1, <1>3, CallReturnsInv DEF Kinds
<1>4. CASE /\ procs' = Append(procs, x)
           /\ pc' = "wait" /\ call' = [call EXCEPT !.pid = Fresh] /\ UNCHANGED <<token, result>>
  <2> HIDE DEF x
  <2>1. /\ ProcsOnward /\ Pids' = Pids \cup {Fresh} /\ Fresh \in Nat /\ procs'[Fresh] = x
    BY <1>1, <1>2, <1>4, ProcStarts
  <2>2. call' \in CallType /\ call'.pid = Fresh
    BY <1>4, <2>1, CallFacts DEF CallType
  <2>3. AtItsPlace' /\ OwnIds'
    <3>1. /\ pc' \notin AtTool /\ pc' \notin AtProcess /\ pc' # "launch" /\ ~ Killer'
          /\ pc' \notin {"killing", "relaunch", "down", "write", "read"}
      BY <1>4 DEF AtTool, AtProcess, Killer
    <3>2. call'.pid \in Pids' /\ procs'[call'.pid].sup # "none"
      BY <1>2, <2>1, <2>2
    <3>3. AtItsPlace'
      BY <3>1, <3>2 DEF AtItsPlace
    <3>4. OwnIds'
      BY <3>1 DEF OwnIds
    <3>5. QED
      BY <3>3, <3>4
  <2>4. OwnAnswer' /\ result' \in ResultType /\ pc' \in CallPlaces
    BY <1>4, CallFacts DEF OwnAnswer, CallPlaces
  <2>5. \A q \in Pids : (\E u \in SessionTools : session[u] = q) => Held(q)'
    BY <1>1, CallFacts DEF Held
  <2>6. \A q \in Pids' \ Pids : Held(q)'
    BY <1>4, <2>1, <2>2 DEF Held, Awaits
  <2>7. QED
    BY <1>1, <1>4, <2>1, <2>2, <2>3, <2>4, <2>5, <2>6, SessionUnchanged, KernelMoves
<1>5. QED
  BY <1>3, <1>4 DEF LaunchStateless

\* run_script leaves a task behind that has no process yet.
LEMMA InvokeScriptKeepsInv ==
    ASSUME Inv, InvokeScript
    PROVE  Inv' /\ ProcsOnward
<1> DEFINE k == [st |-> "watched", pid |-> 0, tool |-> call.tool]
<1>1. /\ pc = "launch" /\ Return("Task", call.n) /\ tasks' = Append(tasks, k)
      /\ UNCHANGED <<procs, session, ending>> /\ Tools[call.tool].kind = "script"
      /\ call.tool \in DOMAIN Tools /\ call.n \in Nat
  BY CallFacts DEF InvokeScript, AtItsPlace, CallType
<1>2. ProcsOnward /\ Pids' = Pids
  BY <1>1, ProcsUnchanged
<1>3. /\ tasks \in Seq(ScriptTask)
      /\ \A j \in DOMAIN tasks :
            /\ tasks[j].pid \in 0 .. Len(procs)
            /\ tasks[j].pid # 0 => tasks[j].pid \in Pids /\ procs[tasks[j].pid].sup # "none"
  BY TasksFacts
<1>4. k \in ScriptTask
  BY <1>1 DEF ScriptTask
<1>5. /\ tasks' \in Seq(ScriptTask) /\ DOMAIN tasks \subseteq DOMAIN tasks'
      /\ \A j \in DOMAIN tasks : tasks'[j] = tasks[j]
      /\ \A j \in DOMAIN tasks' : j \in DOMAIN tasks \/ tasks'[j] = k
  BY <1>1, <1>3, <1>4
<1>6. \A j \in DOMAIN tasks' : /\ tasks'[j].pid \in 0 .. Len(procs')
                               /\ tasks'[j].pid # 0 => procs'[tasks'[j].pid].sup # "none"
  BY <1>1, <1>3, <1>5, ProcsFacts
<1>7. \A p \in Pids : (\E j \in Watched : tasks[j].pid = p) => \E j \in Watched' : tasks'[j].pid = p
  BY <1>5 DEF Watched
<1>8. TasksOnward
  BY <1>5, <1>6, <1>7 DEF TasksOnward
<1>9. (\A p \in Pids : ~ Awaits(p)) /\ "Task" \in Kinds
  BY <1>1 DEF Awaits, Kinds
<1>10. QED
  BY <1>1, <1>2, <1>8, <1>9, ReturnKeepsInv

-----------------------------------------------------------------------------
(* Cut calls *)

\* The future of a call is dropped: the process of a session stays in the map,
\* that of a one-shot launch is left to the guard of its supervisor.
LEMMA DropCallKeepsInv ==
    ASSUME Inv, Invoking, NEW kind \in Kinds \ {"Value"}, DropCall(kind),
           UNCHANGED <<session, tasks, ending>>
    PROVE  Inv' /\ ProcsOnward
<1>1. Return(kind, 0) /\ pc \notin {"killing", "down"}
  BY DEF DropCall, Invoking
<1>2. CASE procs' = [p \in Pids |-> IF p = call.pid THEN Dropped(procs[p]) ELSE procs[p]]
  <2> DEFINE ps == {call.pid}
  <2>1. procs' = [p \in Pids |-> IF p \in ps THEN Dropped(procs[p]) ELSE procs[p]]
    BY <1>2
  <2>2. /\ ProcsOnward /\ Pids' = Pids
        /\ \A p \in Pids : p \in ps /\ procs[p].sup # "none" /\ Lives(p)' =>
                             procs'[p].sup \in {"bgq", "bg"}
    BY <2>1, ProcsDropped
  <2>3. TasksOnward
    BY <2>2, TasksUnchanged
  <2>4. \A p \in Pids : Awaits(p) /\ Lives(p)' => procs'[p].sup \in {"bgq", "bg"}
    BY <2>2, CallFacts DEF Awaits, AtItsPlace
  <2>5. QED
    BY <1>1, <2>2, <2>3, <2>4, ReturnKeepsInv
<1>3. CASE procs' = procs /\ pc = "write"
  BY <1>1, <1>3, CallReturnsInv
<1>4. ASSUME pc \in {"write", "read"}, NEW y, procs' = [procs EXCEPT ![call.pid] = y],
             Later(procs[call.pid], y)
      PROVE  Inv' /\ ProcsOnward
  <2>1. call.pid \in Pids /\ y \in ProcType
    BY <1>4, AtProcessFacts DEF AtProcess, Later
  <2>2. QED
    BY <1>1, <1>4, <2>1, CallReturnsInv
<1>5. CASE pc = "write" /\ procs' = [procs EXCEPT ![call.pid].torn = TRUE]
  <2> DEFINE y == [procs[call.pid] EXCEPT !.torn = TRUE]
  <2>1. Later(procs[call.pid], y)
    BY <1>5, AtProcessFacts, PolledProperties DEF AtProcess
  <2>2. procs' = [procs EXCEPT ![call.pid] = y]
    BY <1>5
  <2> HIDE DEF y
  <2>3. QED
    BY <1>4, <1>5, <2>1, <2>2
<1>6. CASE pc = "read" /\ procs' = [procs EXCEPT ![call.pid] = KillStarts(@)]
  <2> DEFINE y == KillStarts(procs[call.pid])
  <2>1. Later(procs[call.pid], y)
    BY <1>6, AtProcessFacts, KillStartsProperties DEF AtProcess
  <2>2. procs' = [procs EXCEPT ![call.pid] = y]
    BY <1>6
  <2> HIDE DEF y
  <2>3. QED
    BY <1>4, <1>6, <2>1, <2>2
<1>7. QED
  BY <1>2, <1>3, <1>5, <1>6 DEF DropCall

LEMMA CutsKeepInv ==
    ASSUME Inv, CancelSeen \/ Timeout
    PROVE  Inv' /\ ProcsOnward
<1>1. CASE CancelSeen
  BY <1>1, DropCallKeepsInv DEF CancelSeen, Kinds
<1>2. CASE Timeout
  <2>1. Invoking
    BY <1>2 DEF Timeout, Invoking
  <2>2. QED
    BY <1>2, <2>1, DropCallKeepsInv DEF Timeout, Kinds
<1>3. QED
  BY <1>1, <1>2

-----------------------------------------------------------------------------
(* The end of the session *)

LEMMA StopsKeepInv ==
    ASSUME Inv, Suspend \/ End
    PROVE  Inv' /\ ProcsOnward
<1>1. /\ pc = "idle" /\ pc' = "ending" /\ ending' \in {"suspend", "end"}
      /\ UNCHANGED <<call, token, procs, session, tasks, result>>
  BY DEF Suspend, End
<1>2. ProcsOnward /\ Pids' = Pids
  BY <1>1, ProcsUnchanged
<1>3. TasksOnward
  BY <1>1, <1>2, TasksUnchanged
<1>4. AtItsPlace' /\ OwnIds'
  BY <1>1 DEF AtItsPlace, OwnIds, AtTool, AtProcess, Killer
<1>5. /\ OwnAnswer' /\ result' \in ResultType /\ pc' \in CallPlaces /\ call' \in CallType
      /\ token' \in BOOLEAN
  BY <1>1, CallFacts DEF OwnAnswer, CallPlaces
<1>6. \A p \in Pids : Held(p) => Held(p)'
  BY <1>1 DEF Held, Killer, Awaits, Watched
<1>7. QED
  BY <1>1, <1>2, <1>3, <1>4, <1>5, <1>6, SessionUnchanged, InvFromParts

\* A process leaves the map of the session only to be killed.
LEMMA TerminateKeepsInv ==
    ASSUME Inv, terminate_session_processes
    PROVE  Inv' /\ ProcsOnward
<1>1. /\ pc = "ending" /\ UNCHANGED <<token, tasks, ending, result>> /\ ~ Killer
      /\ session \in [SessionTools -> 0 .. Len(procs)]
      /\ \A t \in SessionTools : session[t] # 0 => session[t] \in Pids /\ procs[session[t]].tool = t
  BY CallFacts DEF terminate_session_processes, Killer
<1>2. PICK t \in SessionTools :
         /\ session[t] # 0
         /\ session' = [session EXCEPT ![t] = 0]
         /\ procs' = [procs EXCEPT ![session[t]] = KillStarts(@)]
         /\ procs'[session[t]].st = "reaped" => UNCHANGED <<pc, call>>
         /\ procs'[session[t]].st # "reaped" =>
               pc' = "down" /\ call' = [NoToolCall EXCEPT !.pid = session[t]]
  <2>1. DOMAIN session = SessionTools
    BY <1>1
  <2>2. QED
    BY <2>1 DEF terminate_session_processes
<1> DEFINE p == session[t]
           q == KillStarts(procs[p])
<1>3. p \in Pids /\ p \in Nat /\ procs[p] \in ProcType /\ Sound(procs[p])
  BY <1>1, <1>2, ProcsFacts
<1>4. /\ Later(procs[p], q) /\ q.st \in {"running", "reaped"}
      /\ q.st = "running" => q.sig # "none"
  BY <1>3, KillStartsProperties
<1>5. procs' = [procs EXCEPT ![p] = q]
  BY <1>2
<1> HIDE DEF q
<1>6. ProcsOnward /\ Pids' = Pids /\ procs'[p] = q /\ Len(procs') = Len(procs)
  BY <1>3, <1>4, <1>5, OneProcChanges
<1>7. /\ session' \in [SessionTools -> 0 .. Len(procs')] /\ session'[t] = 0
      /\ \A u \in SessionTools \ {t} : session'[u] = session[u]
  BY <1>1, <1>2, <1>6, ProcsFacts
<1>8. \A u \in SessionTools : session'[u] # 0 => procs'[session'[u]].tool = u
  BY <1>1, <1>6, <1>7, OnwardFacts
<1>9. OwnAnswer' /\ result' \in ResultType
  BY <1>1, CallFacts DEF OwnAnswer
<1>10. CASE q.st = "reaped"
  <2>1. pc' = "ending" /\ call' \in CallType
    BY <1>1, <1>2, <1>6, <1>10, CallFacts
  <2>2. AtItsPlace' /\ OwnIds' /\ pc' \in CallPlaces
    BY <2>1 DEF AtItsPlace, OwnIds, AtTool, AtProcess, Killer, CallPlaces
  <2>3. ASSUME NEW r \in Pids, Lives(r)', NEW u \in SessionTools, session[u] = r
        PROVE  Held(r)'
    <3>1. u # t
      BY <1>6, <1>10, <2>3 DEF Lives, Running
    <3>2. QED
      BY <1>7, <2>3, <3>1 DEF Held
  <2>4. QED
    BY <1>1, <1>6, <1>7, <1>8, <1>9, <2>1, <2>2, <2>3, KernelMoves
<1>11. CASE q.st # "reaped"
  <2>1. pc' = "down" /\ call' = [NoToolCall EXCEPT !.pid = p]
    BY <1>2, <1>6, <1>11
  <2>2. call' \in CallType /\ call'.pid = p
    BY <1>3, <2>1 DEF CallType, NoToolCall
  <2>3. AtItsPlace' /\ OwnIds' /\ pc' \in CallPlaces
    BY <1>3, <1>4, <1>6, <2>1, <2>2 DEF AtItsPlace, OwnIds, AtTool, AtProcess, Running, CallPlaces
  <2>4. ASSUME NEW r \in Pids, NEW u \in SessionTools, session[u] = r
        PROVE  Held(r)'
    <3>1. CASE u # t
      BY <1>7, <2>4, <3>1 DEF Held
    <3>2. CASE u = t
      BY <2>1, <2>2, <2>4, <3>2 DEF Held, Killer
    <3>3. QED
      BY <3>1, <3>2
  <2>5. QED
    BY <1>1, <1>6, <1>7, <1>8, <1>9, <2>2, <2>3, <2>4, KernelMoves
<1>12. QED
  BY <1>10, <1>11

\* abort_all: the processes of scripts that are watched are left to the
\* background.
LEMMA TerminatedKeepsInv ==
    ASSUME Inv, Terminated
    PROVE  Inv' /\ ProcsOnward
<1>1. /\ pc = "ending" /\ pc' \in {"idle", "ended"} /\ ending' = "none"
      /\ UNCHANGED <<call, token, session, result>>
  BY DEF Terminated
<1>2. /\ AtItsPlace' /\ OwnIds' /\ OwnAnswer' /\ result' \in ResultType /\ pc' \in CallPlaces
      /\ call' \in CallType /\ token' \in BOOLEAN
  <2>1. AtItsPlace' /\ OwnIds'
    BY <1>1 DEF AtItsPlace, OwnIds, AtTool, AtProcess, Killer
  <2>2. QED
    BY <1>1, <2>1, CallFacts DEF OwnAnswer, CallPlaces
<1>3. \A p \in Pids : Held(p) /\ procs[p].sup \notin {"bgq", "bg"}
          /\ ~ (\E k \in Watched : tasks[k].pid = p) => Held(p)'
  BY <1>1 DEF Held, Killer, Awaits
<1>4. CASE UNCHANGED <<procs, tasks>>
  <2>1. ProcsOnward /\ Pids' = Pids
    BY <1>4, ProcsUnchanged
  <2>2. TasksOnward
    BY <1>4, <2>1, TasksUnchanged
  <2>3. QED
    BY <1>1, <1>2, <1>3, <2>1, <2>2, SessionUnchanged, InvFromParts
<1>5. CASE /\ procs' = Aborted(Watched)
           /\ tasks' = [k \in DOMAIN tasks |-> IF k \in Watched THEN [tasks[k] EXCEPT !.st = "stopped"] ELSE tasks[k]]
  <2> DEFINE ps == {p \in Pids : \E k \in Watched : tasks[k].pid = p}
  <2>1. procs' = [p \in Pids |-> IF p \in ps THEN Dropped(procs[p]) ELSE procs[p]]
    BY <1>5 DEF Aborted
  <2>2. /\ ProcsOnward /\ Pids' = Pids
        /\ \A p \in Pids : p \in ps /\ procs[p].sup # "none" /\ Lives(p)' =>
                             procs'[p].sup \in {"bgq", "bg"}
    BY <2>1, ProcsDropped
  <2>3. \A k \in DOMAIN tasks : tasks[k].pid # 0 => procs[tasks[k].pid].sup # "none"
    BY TasksFacts
  <2>4. \A p \in Pids : (\E k \in Watched : tasks[k].pid = p) /\ Lives(p)' =>
            procs'[p].sup \in {"bgq", "bg"}
    BY <2>2, <2>3, ProcsFacts DEF Watched
  <2>5. TasksOnward
    BY <1>5, <2>2, <2>4, TasksMarked
  <2>6. QED
    BY <1>1, <1>2, <1>3, <2>2, <2>5, SessionUnchanged, InvFromParts
<1>6. QED
  BY <1>4, <1>5 DEF Terminated

-----------------------------------------------------------------------------
(* Theorems *)

LEMMA InitInv == ToolInit => Inv
<1> SUFFICES ASSUME ToolInit PROVE Inv
  OBVIOUS
<1>1. procs \in Seq(ProcType) /\ tasks \in Seq(ScriptTask) /\ Pids = {} /\ DOMAIN tasks = {} /\ Len(procs) = 0
  BY DEF ToolInit, Pids
<1>2. /\ pc \in CallPlaces /\ call \in CallType /\ token \in BOOLEAN /\ ending \in {"none", "suspend", "end"}
      /\ result \in ResultType /\ OwnAnswer
  BY DEF ToolInit, CallPlaces, CallType, NoToolCall, ResultType, Kinds, OwnAnswer
<1>3. /\ session \in [SessionTools -> 0 .. Len(procs)]
      /\ \A t \in SessionTools : session[t] = 0
  BY <1>1 DEF ToolInit
<1>4. TypeOK
  BY <1>1, <1>2, <1>3 DEF TypeOK
<1>5. AtItsPlace /\ OwnIds /\ pc = "idle"
  BY DEF ToolInit, AtItsPlace, OwnIds, AtTool, AtProcess, Killer
<1>6. QED
  BY <1>1, <1>2, <1>4, <1>5 DEF Inv, ScriptsSupervised, Owned

LEMMA NextInv == ASSUME Inv, Next PROVE Inv' /\ ProcsOnward
<1>1. CASE KernelStep
  BY <1>1, EnsureKeepsInv, KillPollsKeepsInv, LaunchSessionKeepsInv, StartCallKeepsInv, WriteKeepsInv,
     ReadKeepsInv, ReadEofKeepsInv, LaunchStatelessKeepsInv, InvokeScriptKeepsInv, CutsKeepInv,
     TerminateKeepsInv, TerminatedKeepsInv DEF KernelStep
<1>2. CASE Call \/ Cancel \/ Suspend \/ End \/ KillGraceOver \/ Timeout
  BY <1>2, CallKeepsInv, CancelKeepsInv, StopsKeepInv, KillGraceOverKeepsInv, CutsKeepInv
<1>3. CASE \E k \in DOMAIN tasks : LaunchScript(k) \/ AbortTask(k)
  BY <1>3, LaunchScriptKeepsInv, AbortTaskKeepsInv
<1>4. ASSUME NEW p \in Pids,
             \/ ExitSeen(p) \/ DrainEnds(p) \/ HostDeadline(p) \/ HostKill(p)
             \/ SupTimeout(p) \/ BgTerm(p) \/ GraceOver(p) \/ Reap(p)
             \/ GuestAnswers(p) \/ Exits(p)
      PROVE  Inv' /\ ProcsOnward
  BY <1>4, ExitSeenKeepsInv, DrainEndsKeepsInv, SignalsKeepInv, GraceOverKeepsInv, ReapKeepsInv,
     GuestAnswersKeepsInv, ExitsKeepsInv
<1>5. QED
  BY <1>1, <1>2, <1>3, <1>4 DEF Next

\* A step that changes nothing keeps the invariant.
LEMMA StutterInv == ASSUME Inv, UNCHANGED vars PROVE Inv'
<1>1. ProcsOnward /\ Pids' = Pids /\ \A p \in Pids : Quiet(procs[p], procs'[p])
  BY ProcsUnchanged DEF vars
<1>2. QED
  BY <1>1, TasksUnchanged, CallFacts, ProcStepKeepsInv DEF vars

\* The inductive invariant holds at every step of every session.
THEOREM ToolProcessInvariant == Spec => []Inv
<1>1. Inv /\ [Next]_vars => Inv'
  BY NextInv, StutterInv
<1>2. QED
  BY <1>1, InitInv, PTL DEF Spec

\* The state has its types: only one-shot launches are supervised, and the
\* map of the session has for a tool a process of that tool.
THEOREM ToolTypeCorrect == Spec => []TypeOK
<1>1. Inv => TypeOK
  BY DEF Inv
<1>2. QED
  BY <1>1, ToolProcessInvariant, PTL

\* A process that runs is held by something that will end it, whatever cuts
\* the call, the task or the session it is of.
THEOREM ProcessesOwned == Spec => []Owned
<1>1. Inv => Owned
  BY DEF Inv
<1>2. QED
  BY <1>1, ToolProcessInvariant, PTL

\* A result that the model sees is the answer to its own request, whatever cut
\* calls have left in the pipes of the process.
THEOREM AnswersOwn == Spec => []OwnAnswer
<1>1. Inv => OwnAnswer
  BY DEF Inv
<1>2. QED
  BY <1>1, ToolProcessInvariant, PTL

\* No process is sent SIGKILL that was not sent SIGTERM before.
THEOREM TermBeforeKill == Spec => GraceBeforeKill
<1> DEFINE Grace == \A p \in Pids : procs'[p].sig = "kill" => procs[p].sig \in {"term", "kill"}
<1>1. ASSUME Inv, [Next]_vars PROVE [Grace]_vars
  <2>1. CASE Next
    <3>1. \A p \in Pids : Later(procs[p], procs'[p]) /\ procs[p] \in ProcType
      BY <1>1, <2>1, NextInv, ProcsFacts DEF ProcsOnward
    <3>2. QED
      BY <3>1 DEF Later, ProcType
  <2>2. QED
    BY <1>1, <2>1
<1>2. QED
  BY <1>1, ToolProcessInvariant, PTL DEF Spec, GraceBeforeKill

-----------------------------------------------------------------------------
(* Paths *)

\* The length, the domain and the components of a path.
LEMMA PathLen ==
    ASSUME NEW p \in Paths
    PROVE  /\ Len(p) \in Nat /\ DOMAIN p = 1 .. Len(p)
           /\ \A i \in 1 .. Len(p) : p[i] \in Names
           /\ (p = <<>>) <=> (Len(p) = 0)
<1>1. Len(p) \in Nat /\ DOMAIN p = 1 .. Len(p) /\ \A i \in 1 .. Len(p) : p[i] \in Names
  BY LenProperties, ElementOfSeq DEF Paths
<1>2. p # <<>> => Len(p) \in Nat \ {0}
  BY EmptySeq DEF Paths
<1>3. QED
  BY <1>1, <1>2, EmptySeq

\* Two paths with the same components are one.
LEMMA PathEqual ==
    ASSUME NEW p \in Paths, NEW q \in Paths, Len(p) = Len(q), \A i \in 1 .. Len(p) : p[i] = q[i]
    PROVE  p = q
  BY SeqEqual DEF Paths

\* One path behind another.
LEMMA PathConcat ==
    ASSUME NEW p \in Paths, NEW q \in Paths
    PROVE  /\ p \o q \in Paths /\ Len(p \o q) = Len(p) + Len(q)
           /\ \A i \in 1 .. Len(p) + Len(q) : (p \o q)[i] = IF i <= Len(p) THEN p[i] ELSE q[i - Len(p)]
           /\ \A r \in Paths : (p \o q) \o r = p \o (q \o r)
           /\ p \o <<>> = p /\ <<>> \o p = p
<1>1. /\ p \o q \in Paths /\ Len(p \o q) = Len(p) + Len(q)
      /\ \A i \in 1 .. Len(p) + Len(q) : (p \o q)[i] = IF i <= Len(p) THEN p[i] ELSE q[i - Len(p)]
  BY ConcatProperties DEF Paths
<1>2. \A r \in Paths : (p \o q) \o r = p \o (q \o r)
  BY ConcatAssociative DEF Paths
<1>3. p \o <<>> = p /\ <<>> \o p = p
  BY ConcatEmptySeq DEF Paths
<1>4. QED
  BY <1>1, <1>2, <1>3

\* Three paths, one behind the other.
LEMMA PathAssoc ==
    \A p, q, r \in Paths : (p \o q) \o r = p \o (q \o r)
  BY PathConcat

\* The root, and a path of one component.
LEMMA PathOne ==
    /\ <<>> \in Paths /\ Len(<<>>) = 0
    /\ \A x \in Names : <<x>> \in Paths /\ Len(<<x>>) = 1 /\ <<x>>[1] = x
<1>1. <<>> \in Paths /\ Len(<<>>) = 0
  BY EmptySeq DEF Paths
<1>2. ASSUME NEW x \in Names
      PROVE  <<x>> \in Paths /\ Len(<<x>>) = 1 /\ <<x>>[1] = x
  <2>1. <<x>> \in Seq(Names)
    OBVIOUS
  <2>2. Len(<<x>>) = 1 /\ <<x>>[1] = x
    OBVIOUS
  <2>3. QED
    BY <2>1, <2>2 DEF Paths
<1>3. QED
  BY <1>1, <1>2

\* A path and one component more.
LEMMA PathAppend ==
    ASSUME NEW p \in Paths, NEW x \in Names
    PROVE  /\ Append(p, x) \in Paths /\ Append(p, x) = p \o <<x>> /\ Len(Append(p, x)) = Len(p) + 1
           /\ Append(p, x) # <<>>
           /\ \A i \in 1 .. Len(p) : Append(p, x)[i] = p[i]
           /\ Append(p, x)[Len(p) + 1] = x
<1>1. p \in Seq(Names)
  BY DEF Paths
<1>2. Append(p, x) = p \o <<x>>
  BY <1>1, AppendIsConcat
<1>3. /\ Append(p, x) \in Seq(Names) /\ Append(p, x) # <<>> /\ Len(Append(p, x)) = Len(p) + 1
      /\ \A i \in 1 .. Len(p) : Append(p, x)[i] = p[i]
      /\ Append(p, x)[Len(p) + 1] = x
  BY <1>1, AppendProperties
<1>4. QED
  BY <1>2, <1>3 DEF Paths

\* The beginning of a path.
LEMMA PathPart ==
    ASSUME NEW p \in Paths, NEW n \in 0 .. Len(p)
    PROVE  /\ SubSeq(p, 1, n) \in Paths /\ Len(SubSeq(p, 1, n)) = n
           /\ \A i \in 1 .. n : SubSeq(p, 1, n)[i] = p[i]
<1>1. Len(p) \in Nat /\ \A i \in 1 .. n : p[i] \in Names
  BY PathLen
<1>2. /\ SubSeq(p, 1, n) \in Seq(Names)
      /\ Len(SubSeq(p, 1, n)) = IF 1 <= n THEN n - 1 + 1 ELSE 0
      /\ \A i \in 1 .. n - 1 + 1 : SubSeq(p, 1, n)[i] = p[1 + i - 1]
  BY <1>1, SubSeqProperties
<1>3. QED
  BY <1>1, <1>2 DEF Paths

\* A path without its last component, and that component.
LEMMA PathFront ==
    ASSUME NEW p \in Paths, p # <<>>
    PROVE  /\ Front(p) \in Paths /\ Last(p) \in Names /\ Len(Front(p)) = Len(p) - 1
           /\ p = Append(Front(p), Last(p)) /\ p = Front(p) \o <<Last(p)>>
<1>1. Len(p) \in Nat /\ Len(p) > 0 /\ Last(p) \in Names
  BY PathLen DEF Last
<1>2. /\ Front(p) \in Paths /\ Len(Front(p)) = Len(p) - 1
      /\ \A i \in 1 .. Len(p) - 1 : Front(p)[i] = p[i]
  <2>1. Len(p) - 1 \in 0 .. Len(p)
    BY <1>1
  <2>2. QED
    BY <2>1, PathPart DEF Front
<1>3. p = Append(Front(p), Last(p))
  <2>1. /\ Append(Front(p), Last(p)) \in Paths /\ Len(Append(Front(p), Last(p))) = Len(p)
        /\ \A i \in 1 .. Len(p) - 1 : Append(Front(p), Last(p))[i] = Front(p)[i]
        /\ Append(Front(p), Last(p))[Len(p)] = p[Len(p)]
    <3>1. Len(Front(p)) + 1 = Len(p) /\ Last(p) = p[Len(p)]
      BY <1>1, <1>2 DEF Last
    <3>2. /\ Append(Front(p), Last(p)) \in Paths /\ Len(Append(Front(p), Last(p))) = Len(Front(p)) + 1
          /\ \A i \in 1 .. Len(Front(p)) : Append(Front(p), Last(p))[i] = Front(p)[i]
          /\ Append(Front(p), Last(p))[Len(Front(p)) + 1] = Last(p)
      BY <1>1, <1>2, PathAppend
    <3>3. QED
      BY <1>2, <3>1, <3>2
  <2>2. \A i \in 1 .. Len(p) : p[i] = Append(Front(p), Last(p))[i]
    BY <1>1, <1>2, <2>1
  <2>3. QED
    BY <2>1, <2>2, PathEqual
<1>4. QED
  BY <1>1, <1>2, <1>3, PathAppend

\* And the other way round.
LEMMA FrontOf ==
    ASSUME NEW p \in Paths, NEW x \in Names
    PROVE  Front(Append(p, x)) = p /\ Last(Append(p, x)) = x
<1> DEFINE a == Append(p, x)
<1>1. a \in Paths /\ a # <<>> /\ Len(a) = Len(p) + 1 /\ a[Len(a)] = x /\ \A i \in 1 .. Len(p) : a[i] = p[i]
  <2>1. /\ a \in Paths /\ a # <<>> /\ Len(a) = Len(p) + 1 /\ a[Len(p) + 1] = x
        /\ \A i \in 1 .. Len(p) : a[i] = p[i]
    BY PathAppend
  <2>2. QED
    BY <2>1
<1> HIDE DEF a
<1>2. Len(p) \in Nat /\ Len(p) \in 0 .. Len(a) /\ Len(a) - 1 = Len(p)
  BY <1>1, PathLen
<1>3. /\ Front(a) \in Paths /\ Len(Front(a)) = Len(p)
      /\ \A i \in 1 .. Len(p) : Front(a)[i] = p[i]
  BY <1>1, <1>2, PathPart DEF Front
<1>4. Front(a) = p /\ Last(a) = x
  BY <1>1, <1>3, PathEqual DEF Last
<1>5. QED
  BY <1>4 DEF a

\* The root has nothing before it.
LEMMA FrontOfRoot == Front(<<>>) = <<>>
  BY SubSeqEmpty DEF Front

\* The first component of a path and the rest.
LEMMA PathHead ==
    ASSUME NEW p \in Paths, p # <<>>
    PROVE  /\ Head(p) \in Names /\ Head(p) = p[1] /\ Tail(p) \in Paths /\ Len(Tail(p)) = Len(p) - 1
           /\ p = <<Head(p)>> \o Tail(p)
           /\ \A q \in Paths : /\ p \o q # <<>> /\ Head(p \o q) = Head(p)
                               /\ Tail(p \o q) = Tail(p) \o q
<1>1. Len(p) \in Nat /\ Len(p) > 0
  BY PathLen
<1>2. /\ Head(p) \in Names /\ Tail(p) \in Paths /\ Len(Tail(p)) = Len(p) - 1
      /\ \A i \in 1 .. Len(p) - 1 : Tail(p)[i] = p[i + 1]
  BY HeadTailProperties DEF Paths
<1>3. Head(p) = p[1]
  BY DEF Paths
<1>4. p = <<Head(p)>> \o Tail(p)
  <2> DEFINE a == <<Head(p)>> \o Tail(p)
  <2>1. /\ a \in Paths /\ Len(a) = Len(p)
        /\ \A i \in 1 .. Len(p) : a[i] = IF i <= 1 THEN <<Head(p)>>[i] ELSE Tail(p)[i - 1]
    <3>1. <<Head(p)>> \in Paths /\ Len(<<Head(p)>>) = 1
      BY <1>2, PathOne
    <3>2. 1 + Len(Tail(p)) = Len(p)
      BY <1>1, <1>2
    <3>3. /\ a \in Paths /\ Len(a) = Len(<<Head(p)>>) + Len(Tail(p))
          /\ \A i \in 1 .. Len(<<Head(p)>>) + Len(Tail(p)) :
               a[i] = IF i <= Len(<<Head(p)>>) THEN <<Head(p)>>[i] ELSE Tail(p)[i - Len(<<Head(p)>>)]
      BY <1>2, <3>1, PathConcat
    <3> HIDE DEF a
    <3>4. QED
      BY <3>1, <3>2, <3>3
  <2> HIDE DEF a
  <2>2. \A i \in 1 .. Len(p) : p[i] = a[i]
    <3>1. <<Head(p)>>[1] = p[1]
      BY <1>2, <1>3, PathOne
    <3>2. TAKE i \in 1 .. Len(p)
    <3>3. CASE i = 1
      BY <2>1, <3>1, <3>3
    <3>4. CASE i > 1
      <4>1. i - 1 \in 1 .. Len(p) - 1 /\ i - 1 + 1 = i
        BY <1>1, <3>4
      <4>2. Tail(p)[i - 1] = p[i]
        BY <1>2, <4>1
      <4>3. QED
        BY <2>1, <3>4, <4>2
    <3>5. QED
      BY <3>3, <3>4
  <2>3. p = a
    BY <2>1, <2>2, PathEqual
  <2>4. QED
    BY <2>3 DEF a
<1>5. ASSUME NEW q \in Paths
      PROVE  p \o q # <<>> /\ Head(p \o q) = Head(p) /\ Tail(p \o q) = Tail(p) \o q
  <2> DEFINE a == p \o q
  <2>1. /\ a \in Paths /\ Len(q) \in Nat /\ Len(a) = Len(p) + Len(q)
        /\ \A i \in 1 .. Len(p) + Len(q) : a[i] = IF i <= Len(p) THEN p[i] ELSE q[i - Len(p)]
    BY PathConcat, PathLen
  <2>2. /\ Tail(p) \o q \in Paths /\ Len(Tail(p) \o q) = Len(p) - 1 + Len(q)
        /\ \A i \in 1 .. Len(p) - 1 + Len(q) :
             (Tail(p) \o q)[i] = IF i <= Len(p) - 1 THEN Tail(p)[i] ELSE q[i - (Len(p) - 1)]
    BY <1>2, PathConcat
  <2> HIDE DEF a
  <2>3. a # <<>>
    BY <1>1, <2>1, PathLen
  <2>4. /\ Tail(a) \in Paths /\ Len(Tail(a)) = Len(a) - 1 /\ Head(a) = a[1]
        /\ \A i \in 1 .. Len(Tail(a)) : Tail(a)[i] = a[i + 1]
    BY <2>1, <2>3, HeadTailProperties DEF Paths
  <2>5. Head(a) = Head(p)
    BY <1>1, <1>3, <2>1, <2>4
  <2>6. \A i \in 1 .. Len(Tail(a)) : Tail(a)[i] = (Tail(p) \o q)[i]
    <3>1. TAKE i \in 1 .. Len(Tail(a))
    <3>2. i \in 1 .. Len(p) - 1 + Len(q) /\ i + 1 \in 1 .. Len(p) + Len(q)
      BY <1>1, <2>1, <2>4
    <3>3. Tail(a)[i] = a[i + 1]
      BY <2>4
    <3>4. CASE i <= Len(p) - 1
      <4>1. i \in 1 .. Len(p) - 1 /\ i + 1 <= Len(p)
        BY <1>1, <3>2, <3>4
      <4>2. QED
        BY <1>2, <2>1, <2>2, <3>2, <3>3, <3>4, <4>1
    <3>5. CASE ~ (i <= Len(p) - 1)
      <4>1. ~ (i + 1 <= Len(p)) /\ i + 1 - Len(p) = i - (Len(p) - 1)
        BY <1>1, <3>2, <3>5
      <4>2. QED
        BY <2>1, <2>2, <3>2, <3>3, <3>5, <4>1
    <3>6. QED
      BY <3>4, <3>5
  <2>7. Tail(a) = Tail(p) \o q
    <3>1. Len(Tail(a)) = Len(Tail(p) \o q)
      BY <1>1, <2>1, <2>2, <2>4
    <3>2. QED
      BY <2>2, <2>4, <2>6, <3>1, PathEqual
  <2>8. QED
    BY <2>3, <2>5, <2>7 DEF a
<1>6. QED
  BY <1>2, <1>3, <1>4, <1>5

\* A prefix, component by component.
LEMMA PrefixIs ==
    ASSUME NEW p \in Paths, NEW q \in Paths
    PROVE  IsPrefix(p, q) <=> (Len(p) <= Len(q) /\ \A i \in 1 .. Len(p) : p[i] = q[i])
<1>1. Len(p) \in Nat /\ Len(q) \in Nat
  BY PathLen
<1>2. SUFFICES ASSUME Len(p) <= Len(q)
               PROVE  (SubSeq(p, 1, Len(p)) = SubSeq(q, 1, Len(p))) <=> \A i \in 1 .. Len(p) : p[i] = q[i]
  BY DEF IsPrefix
<1>3. /\ SubSeq(p, 1, Len(p)) \in Paths /\ Len(SubSeq(p, 1, Len(p))) = Len(p)
      /\ \A i \in 1 .. Len(p) : SubSeq(p, 1, Len(p))[i] = p[i]
  BY <1>1, PathPart
<1>4. /\ SubSeq(q, 1, Len(p)) \in Paths /\ Len(SubSeq(q, 1, Len(p))) = Len(p)
      /\ \A i \in 1 .. Len(p) : SubSeq(q, 1, Len(p))[i] = q[i]
  BY <1>1, <1>2, PathPart
<1>5. (\A i \in 1 .. Len(p) : p[i] = q[i]) => SubSeq(p, 1, Len(p)) = SubSeq(q, 1, Len(p))
  BY <1>3, <1>4, PathEqual
<1>6. QED
  BY <1>3, <1>4, <1>5

\* A prefix is what another path was put behind, and a path of paths is one.
LEMMA PrefixLaws ==
    /\ \A p, q \in Paths : IsPrefix(p, p \o q) /\ IsPrefix(p, p)
    /\ \A p, q, r \in Paths : IsPrefix(p, q) /\ IsPrefix(q, r) => IsPrefix(p, r)
<1>1. ASSUME NEW p \in Paths, NEW q \in Paths
      PROVE  IsPrefix(p, p \o q) /\ IsPrefix(p, p)
  <2>1. /\ p \o q \in Paths /\ Len(p) \in Nat /\ Len(q) \in Nat /\ Len(p \o q) = Len(p) + Len(q)
        /\ \A i \in 1 .. Len(p) : (p \o q)[i] = p[i]
    BY PathConcat, PathLen
  <2>2. Len(p) <= Len(p \o q) /\ Len(p) <= Len(p)
    BY <2>1
  <2>3. QED
    BY <2>1, <2>2, PrefixIs
<1>2. ASSUME NEW p \in Paths, NEW q \in Paths, NEW r \in Paths, IsPrefix(p, q), IsPrefix(q, r)
      PROVE  IsPrefix(p, r)
  <2>1. Len(p) \in Nat /\ Len(q) \in Nat /\ Len(r) \in Nat
    BY PathLen
  <2>2. QED
    BY <1>2, <2>1, PrefixIs
<1>3. \A p, q \in Paths : IsPrefix(p, p \o q) /\ IsPrefix(p, p)
  BY <1>1
<1>4. \A p, q, r \in Paths : IsPrefix(p, q) /\ IsPrefix(q, r) => IsPrefix(p, r)
  BY <1>2
<1>5. QED
  BY <1>3, <1>4

\* A path of one component, and one with more behind it.
LEMMA OneThen ==
    ASSUME NEW x \in Names
    PROVE  /\ <<x>> \in Paths /\ <<x>> # <<>> /\ Head(<<x>>) = x /\ Tail(<<x>>) = <<>>
           /\ \A b \in Paths : /\ <<x>> \o b \in Paths /\ <<x>> \o b # <<>>
                               /\ Head(<<x>> \o b) = x /\ Tail(<<x>> \o b) = b
           /\ \A a \in Paths : a \o <<x>> = Append(a, x) /\ a \o <<x>> # <<>>
                               /\ Front(a \o <<x>>) = a /\ Last(a \o <<x>>) = x
           /\ \A a, b \in Paths : (a \o <<x>>) \o b = a \o (<<x>> \o b)
<1> DEFINE unit == <<x>>
<1>1. unit \in Paths /\ Len(unit) = 1 /\ unit[1] = x /\ Len(unit) # 0
  <2>1. unit \in Paths /\ Len(unit) = 1 /\ unit[1] = x
    BY PathOne
  <2>2. QED
    BY <2>1
<1>2. \A a \in Paths : /\ a \o unit = Append(a, x) /\ Append(a, x) # <<>>
                       /\ Front(Append(a, x)) = a /\ Last(Append(a, x)) = x
  BY PathAppend, FrontOf
<1> HIDE DEF unit
<1>3. unit # <<>>
  <2>1. (unit = <<>>) <=> (Len(unit) = 0)
    BY <1>1, PathLen
  <2>2. QED
    BY <1>1, <2>1
<1>4. Head(unit) = x /\ Tail(unit) \in Paths /\ Len(Tail(unit)) = 0
  <2>1. Head(unit) = unit[1] /\ Tail(unit) \in Paths /\ Len(Tail(unit)) = Len(unit) - 1
    BY <1>1, <1>3, PathHead
  <2>2. QED
    BY <1>1, <2>1
<1>5. Tail(unit) = <<>>
  BY <1>4, PathLen
<1>6. \A b \in Paths : unit \o b # <<>> /\ Head(unit \o b) = x /\ Tail(unit \o b) = <<>> \o b
  <2>1. TAKE b \in Paths
  <2>2. unit \o b # <<>> /\ Head(unit \o b) = Head(unit) /\ Tail(unit \o b) = Tail(unit) \o b
    BY <1>1, <1>3, PathHead
  <2>3. QED
    BY <1>4, <1>5, <2>2
<1>7. \A b \in Paths : unit \o b \in Paths /\ <<>> \o b = b
  BY <1>1, PathConcat
<1>8. \A a \in Paths : a \o unit = Append(a, x) /\ a \o unit # <<>>
                       /\ Front(a \o unit) = a /\ Last(a \o unit) = x
  BY <1>2
<1>9. \A a, b \in Paths : (a \o unit) \o b = a \o (unit \o b)
  BY <1>1, PathAssoc
<1>10. QED
  BY <1>1, <1>3, <1>4, <1>5, <1>6, <1>7, <1>8, <1>9 DEF unit

-----------------------------------------------------------------------------
(* Numbers *)

\* A set of numbers that is not empty has a least one.
LEMMA Least ==
    ASSUME NEW T \in SUBSET Nat, NEW n \in T
    PROVE  \E m \in T : \A i \in T : m <= i
<1> DEFINE R == {ss \in Nat \X Nat : ss[1] < ss[2]}
<1>1. IsWellFoundedOn(R, Nat)
  BY NatLessThanWellFounded DEF OpToRel
<1>2. PICK m \in T : \A i \in T : <<i, m>> \notin R
  BY <1>1, WFMin
<1>3. \A i \in T : ~ (i < m)
  BY <1>2
<1>4. QED
  BY <1>3

\* A set of numbers below a bound that is not empty has a greatest one.
LEMMA Greatest ==
    ASSUME NEW b \in Nat, NEW T \in SUBSET (0 .. b), NEW n \in T
    PROVE  \E m \in T : \A i \in T : i <= m
<1> DEFINE U == {k \in 0 .. b : b - k \in T}
<1>1. U \in SUBSET Nat /\ b - n \in U
  <2>1. b - n \in 0 .. b /\ b - (b - n) = n
    OBVIOUS
  <2>2. QED
    BY <2>1
<1>2. \A k \in U : k \in 0 .. b /\ b - k \in T
  OBVIOUS
<1>3. \A i \in T : b - i \in U
  <2>1. \A i \in T : b - i \in 0 .. b /\ b - (b - i) = i
    OBVIOUS
  <2>2. QED
    BY <2>1
<1> HIDE DEF U
<1>4. PICK k \in U : \A i \in U : k <= i
  BY <1>1, Least
<1>5. \A i \in T : i <= b - k
  BY <1>2, <1>3, <1>4
<1>6. QED
  BY <1>2, <1>5

\* What holds at first and is kept by every step holds in the end.
LEMMA Steps ==
    ASSUME NEW n \in Nat, NEW Good, 0 \in Good, \A i \in 1 .. n : i - 1 \in Good => i \in Good
    PROVE  \A k \in 0 .. n : k \in Good
<1> DEFINE T == {i \in 0 .. n : i \notin Good}
<1>1. SUFFICES ASSUME NEW k \in T PROVE FALSE
  OBVIOUS
<1>2. T \in SUBSET Nat
  OBVIOUS
<1> HIDE DEF T
<1>3. PICK j \in T : \A i \in T : j <= i
  BY <1>1, <1>2, Least
<1>4. j \in 0 .. n /\ j \notin Good
  BY <1>3 DEF T
<1>5. j # 0
  BY <1>4
<1>6. j - 1 \in 0 .. n /\ j - 1 \notin T /\ j \in 1 .. n
  BY <1>3, <1>4, <1>5
<1>7. j - 1 \in Good
  BY <1>6 DEF T
<1>8. QED
  BY <1>4, <1>6, <1>7

-----------------------------------------------------------------------------
(* The order of the mounts *)

\* Mount j comes before mount i in the arguments of bubblewrap, and the
\* place of mount i among them.
Before(mounts, i, j) ==
    \/ Len(mounts[i].path) < Len(mounts[j].path)
    \/ Len(mounts[i].path) = Len(mounts[j].path) /\ i < j

Place(mounts, i) == Cardinality({j \in DOMAIN mounts : Before(mounts, j, i)}) + 1

\* The mounts of a session and their number.
LEMMA MountsLen ==
    ASSUME NEW mounts, IsMounts(mounts)
    PROVE  /\ Len(mounts) \in Nat /\ DOMAIN mounts = 1 .. Len(mounts)
           /\ \A i \in DOMAIN mounts : /\ mounts[i].path \in Paths /\ Len(mounts[i].path) \in Nat
                                       /\ mounts[i].mode \in {"ro", "rw"}
<1>1. /\ Len(mounts) \in Nat /\ DOMAIN mounts = 1 .. Len(mounts)
      /\ \A i \in 1 .. Len(mounts) : mounts[i] \in [path : Paths, mode : {"ro", "rw"}]
  <2> DEFINE S == [path : Paths, mode : {"ro", "rw"}]
  <2>1. mounts \in Seq(S)
    BY DEF IsMounts
  <2> HIDE DEF S
  <2>2. /\ Len(mounts) \in Nat /\ DOMAIN mounts = 1 .. Len(mounts)
        /\ \A i \in 1 .. Len(mounts) : mounts[i] \in S
    BY <2>1, LenProperties, ElementOfSeq
  <2>3. QED
    BY <2>2 DEF S
<1>2. QED
  BY <1>1, PathLen

\* Of two mounts the one that comes before has the smaller place.
LEMMA PlaceType ==
    ASSUME NEW mounts, IsMounts(mounts)
    PROVE  /\ \A i \in DOMAIN mounts : Place(mounts, i) \in 1 .. Len(mounts)
           /\ \A i, j \in DOMAIN mounts : Before(mounts, i, j) => Place(mounts, i) < Place(mounts, j)
           /\ \A i, j \in DOMAIN mounts : i # j => Before(mounts, i, j) \/ Before(mounts, j, i)
<1> DEFINE D == DOMAIN mounts
           B(i) == {j \in D : Before(mounts, j, i)}
<1>1. Len(mounts) \in Nat /\ D = 1 .. Len(mounts) /\ \A i \in D : Len(mounts[i].path) \in Nat
  BY MountsLen
<1>2. IsFiniteSet(D) /\ Cardinality(D) = Len(mounts)
  BY <1>1, FS_Interval
<1>3. \A i \in D : B(i) \subseteq D /\ i \notin B(i)
  BY <1>1 DEF Before
<1>4. \A i \in D : IsFiniteSet(B(i)) /\ Cardinality(B(i)) \in Nat
  BY <1>2, <1>3, FS_Subset, FS_CardinalityType
<1>5. \A i \in D : Cardinality(B(i)) < Len(mounts)
  <2>1. TAKE i \in D
  <2>2. B(i) \in SUBSET D /\ D # B(i)
    BY <1>3
  <2> HIDE DEF B
  <2>3. Cardinality(B(i)) <= Cardinality(D) /\ Cardinality(B(i)) # Cardinality(D)
    BY <1>2, <2>2, FS_Subset
  <2>4. QED
    BY <1>1, <1>2, <1>4, <2>3
<1>6. ASSUME NEW i \in D, NEW j \in D, Before(mounts, i, j)
      PROVE  Cardinality(B(i)) < Cardinality(B(j))
  <2>1. B(i) \in SUBSET B(j)
    BY <1>1, <1>6 DEF Before
  <2>2. i \in B(j) /\ i \notin B(i)
    BY <1>3, <1>6
  <2>3. IsFiniteSet(B(j)) /\ Cardinality(B(i)) \in Nat /\ Cardinality(B(j)) \in Nat
    BY <1>4
  <2> HIDE DEF B
  <2>4. Cardinality(B(i)) <= Cardinality(B(j)) /\ Cardinality(B(i)) # Cardinality(B(j))
    BY <2>1, <2>2, <2>3, FS_Subset
  <2>5. QED
    BY <2>3, <2>4
<1>7. \A i, j \in D : i # j => Before(mounts, i, j) \/ Before(mounts, j, i)
  BY <1>1 DEF Before
<1>8. \A i \in D : Place(mounts, i) = Cardinality(B(i)) + 1
  BY DEF Place
<1>9. \A i \in D : Place(mounts, i) \in 1 .. Len(mounts)
  <2> HIDE DEF B
  <2>1. QED
    BY <1>1, <1>4, <1>5, <1>8
<1>10. \A i, j \in D : Before(mounts, i, j) => Place(mounts, i) < Place(mounts, j)
  <2> HIDE DEF B
  <2>1. QED
    BY <1>4, <1>6, <1>8
<1>11. QED
  BY <1>7, <1>9, <1>10

\* Each mount stands in Shallowest at its place, and nothing else does.
LEMMA ShallowestIs ==
    ASSUME NEW mounts, IsMounts(mounts)
    PROVE  /\ DOMAIN Shallowest(mounts) = DOMAIN mounts
           /\ \A i \in DOMAIN mounts : Shallowest(mounts)[Place(mounts, i)] = mounts[i]
           /\ \A r \in DOMAIN mounts :
                \E i \in DOMAIN mounts : Place(mounts, i) = r /\ Shallowest(mounts)[r] = mounts[i]
<1> DEFINE D == DOMAIN mounts
           f == [i \in D |-> Place(mounts, i)]
<1>1. Len(mounts) \in Nat /\ D = 1 .. Len(mounts)
  BY MountsLen
<1>2. IsFiniteSet(D)
  BY <1>1, FS_Interval
<1>3. \A i, j \in D : Place(mounts, i) = Place(mounts, j) => i = j
  BY <1>1, PlaceType
<1>4. f \in Injection(D, D)
  <2>1. f \in [D -> D]
    BY <1>1, PlaceType
  <2>2. QED
    BY <1>3, <2>1 DEF Injection, IsInjective
<1>5. f \in Surjection(D, D)
  <2> HIDE DEF f
  <2>1. QED
    BY <1>2, <1>4, FS_Injection
<1>6. \A r \in D : \E i \in D : Place(mounts, i) = r
  BY <1>5 DEF Surjection
<1>7. Shallowest(mounts) = [r \in D |-> mounts[CHOOSE i \in D : Place(mounts, i) = r]]
  BY DEF Shallowest, Place, Before
<1>8. \A r \in D : (CHOOSE i \in D : Place(mounts, i) = r) \in D
                   /\ Place(mounts, CHOOSE i \in D : Place(mounts, i) = r) = r
  BY <1>6
<1>9. \A i \in D : (CHOOSE j \in D : Place(mounts, j) = Place(mounts, i)) = i
  BY <1>3
<1>10. \A i \in D : Place(mounts, i) \in D
  BY <1>1, PlaceType
<1>11. \A r \in D : Shallowest(mounts)[r] = mounts[CHOOSE i \in D : Place(mounts, i) = r]
  BY <1>7
<1>12. \A i \in D : Shallowest(mounts)[Place(mounts, i)] = mounts[i]
  BY <1>9, <1>10, <1>11
<1>13. \A r \in D : \E i \in D : Place(mounts, i) = r /\ Shallowest(mounts)[r] = mounts[i]
  BY <1>8, <1>11
<1>14. DOMAIN Shallowest(mounts) = D
  BY <1>7
<1>15. QED
  BY <1>12, <1>13, <1>14

\* The mount that FsPolicy::check asks: the last of those above the path.
LEMMA CheckIs ==
    ASSUME NEW mounts, IsMounts(mounts), NEW p, NEW mode
    PROVE  \/ /\ \A i \in DOMAIN mounts : ~ IsPrefix(mounts[i].path, p)
              /\ check(mounts, p, mode) = FALSE
           \/ \E b \in DOMAIN mounts :
                 /\ IsPrefix(mounts[b].path, p)
                 /\ \A i \in DOMAIN mounts : IsPrefix(mounts[i].path, p) => i = b \/ Before(mounts, i, b)
                 /\ check(mounts, p, mode) = ModeLeq(mode, mounts[b].mode)
<1> DEFINE D == DOMAIN mounts
           above == {i \in D : IsPrefix(mounts[i].path, p)}
           Best(i) == \A j \in above : \/ Len(mounts[j].path) < Len(mounts[i].path)
                                       \/ Len(mounts[j].path) = Len(mounts[i].path) /\ j <= i
           best == CHOOSE i \in above : Best(i)
<1>1. check(mounts, p, mode) = (above # {} /\ ModeLeq(mode, mounts[best].mode))
  BY DEF check
<1>2. Len(mounts) \in Nat /\ D = 1 .. Len(mounts) /\ \A i \in D : Len(mounts[i].path) \in Nat
  BY MountsLen
<1>3. CASE above = {}
  BY <1>1, <1>3
<1>4. CASE above # {}
  <2> DEFINE T == {Place(mounts, i) : i \in above}
  <2>1. T \in SUBSET (0 .. Len(mounts)) /\ T # {}
    BY <1>2, <1>4, PlaceType
  <2>2. PICK m \in T : \A k \in T : k <= m
    <3> HIDE DEF T
    <3>1. QED
      BY <1>2, <2>1, Greatest
  <2>3. PICK i \in above : m = Place(mounts, i)
    OBVIOUS
  <2>4. \A j \in above : j = i \/ Before(mounts, j, i)
    <3>1. TAKE j \in above
    <3>2. Place(mounts, j) <= Place(mounts, i)
      BY <2>2, <2>3
    <3>3. i \in D /\ j \in D
      OBVIOUS
    <3>4. CASE Before(mounts, i, j)
      <4>1. Place(mounts, i) < Place(mounts, j)
        BY <3>3, <3>4, PlaceType
      <4>2. Place(mounts, i) \in Nat /\ Place(mounts, j) \in Nat
        BY <1>2, <3>3, PlaceType
      <4>3. QED
        BY <3>2, <4>1, <4>2
    <3>5. CASE ~ Before(mounts, i, j)
      BY <3>3, <3>5, PlaceType
    <3>6. QED
      BY <3>4, <3>5
  <2>5. Best(i)
    BY <1>2, <2>4 DEF Before
  <2>6. best \in above /\ Best(best)
    <3> HIDE DEF above, Best
    <3>1. QED
      BY <2>5
  <2>7. \A j \in D : IsPrefix(mounts[j].path, p) => j = best \/ Before(mounts, j, best)
    <3> HIDE DEF best
    <3>1. QED
      BY <1>2, <2>6 DEF Before
  <2>8. best \in D /\ IsPrefix(mounts[best].path, p) /\ above # {}
    <3> HIDE DEF best
    <3>1. QED
      BY <2>6
  <2> HIDE DEF best, above
  <2>9. check(mounts, p, mode) = ModeLeq(mode, mounts[best].mode)
    BY <1>1, <2>8 DEF ModeLeq
  <2>10. QED
    BY <2>7, <2>8, <2>9
<1>5. QED
  BY <1>3, <1>4

-----------------------------------------------------------------------------
(* The sandbox and the file tools *)

MountOp(m) == Op(IF m.mode = "rw" THEN "bind" ELSE "ro-bind", m.path)

\* The arguments of bubblewrap, one by one.
LEMMA ArgsAre ==
    ASSUME NEW mounts, IsMounts(mounts)
    PROVE  LET args == build_args(mounts)
               n    == Len(mounts)
           IN  /\ DOMAIN args = 1 .. n + 4
               /\ args[1] = Op("ro-bind", <<>>) /\ args[2] = Op("tmpfs", <<"tmp">>)
               /\ \A r \in 1 .. n : args[r + 2] = MountOp(Shallowest(mounts)[r])
               /\ args[n + 3] = Op("proc", <<"proc">>) /\ args[n + 4] = Op("dev", <<"dev">>)
<1> DEFINE n    == Len(mounts)
           S    == [flag : {"ro-bind", "bind", "tmpfs", "proc", "dev"}, path : Paths]
           low  == <<Op("ro-bind", <<>>), Op("tmpfs", <<"tmp">>)>>
           mid  == [i \in DOMAIN mounts |-> MountOp(Shallowest(mounts)[i])]
           high == <<Op("proc", <<"proc">>), Op("dev", <<"dev">>)>>
<1>1. n \in Nat /\ DOMAIN mounts = 1 .. n
  BY MountsLen
<1>2. build_args(mounts) = (low \o mid) \o high
  BY DEF build_args, SANDBOX_HOME, MountOp
<1>3. /\ <<>> \in Paths /\ <<"tmp">> \in Paths /\ <<"proc">> \in Paths /\ <<"dev">> \in Paths
  BY PathOne, SandboxAssumption
<1>4. low \in Seq(S) /\ Len(low) = 2 /\ low[1] = Op("ro-bind", <<>>) /\ low[2] = Op("tmpfs", <<"tmp">>)
  <2>1. Op("ro-bind", <<>>) \in S /\ Op("tmpfs", <<"tmp">>) \in S
    BY <1>3 DEF Op
  <2> HIDE DEF S
  <2>2. QED
    BY <2>1
<1>5. high \in Seq(S) /\ Len(high) = 2 /\ high[1] = Op("proc", <<"proc">>) /\ high[2] = Op("dev", <<"dev">>)
  <2>1. Op("proc", <<"proc">>) \in S /\ Op("dev", <<"dev">>) \in S
    BY <1>3 DEF Op
  <2> HIDE DEF S
  <2>2. QED
    BY <2>1
<1>6. mid \in Seq(S) /\ Len(mid) = n /\ \A r \in 1 .. n : mid[r] = MountOp(Shallowest(mounts)[r])
  <2>1. \A r \in 1 .. n : MountOp(Shallowest(mounts)[r]) \in S
    <3>1. TAKE r \in 1 .. n
    <3>2. PICK i \in DOMAIN mounts : Shallowest(mounts)[r] = mounts[i]
      BY <1>1, ShallowestIs
    <3>3. mounts[i].path \in Paths
      BY MountsLen
    <3>4. QED
      BY <3>2, <3>3 DEF MountOp, Op
  <2> HIDE DEF S
  <2>2. mid \in [1 .. n -> S]
    BY <1>1, <2>1
  <2>3. mid \in Seq(S)
    BY <1>1, <2>2, SeqDef
  <2>4. Len(mid) \in Nat /\ DOMAIN mid = 1 .. Len(mid) /\ DOMAIN mid = 1 .. n
    BY <2>2, <2>3, LenProperties
  <2>5. QED
    BY <1>1, <2>3, <2>4
<1> HIDE DEF S, low, mid, high
<1>7. /\ low \o mid \in Seq(S) /\ Len(low \o mid) = 2 + n
      /\ \A i \in 1 .. 2 + n : (low \o mid)[i] = IF i <= 2 THEN low[i] ELSE mid[i - 2]
  <2>1. /\ low \o mid \in Seq(S) /\ Len(low \o mid) = Len(low) + Len(mid)
        /\ \A i \in 1 .. Len(low) + Len(mid) :
             (low \o mid)[i] = IF i <= Len(low) THEN low[i] ELSE mid[i - Len(low)]
    <3>1. low \in Seq(S) /\ mid \in Seq(S)
      BY <1>4, <1>6
    <3>2. QED
      BY <3>1, ConcatProperties
  <2>2. QED
    BY <1>4, <1>6, <2>1
<1> DEFINE args == (low \o mid) \o high
<1>8. /\ DOMAIN args = 1 .. n + 4
      /\ \A i \in 1 .. n + 4 : args[i] = IF i <= n + 2 THEN (low \o mid)[i] ELSE high[i - (n + 2)]
  <2>1. /\ args \in Seq(S) /\ Len(args) = Len(low \o mid) + Len(high)
        /\ \A i \in 1 .. Len(low \o mid) + Len(high) :
             args[i] = IF i <= Len(low \o mid) THEN (low \o mid)[i] ELSE high[i - Len(low \o mid)]
    <3>1. low \o mid \in Seq(S) /\ high \in Seq(S)
      BY <1>5, <1>7
    <3> DEFINE l == low \o mid
    <3> HIDE DEF l
    <3>2. l \in Seq(S)
      BY <3>1 DEF l
    <3>3. /\ l \o high \in Seq(S) /\ Len(l \o high) = Len(l) + Len(high)
          /\ \A i \in 1 .. Len(l) + Len(high) :
               (l \o high)[i] = IF i <= Len(l) THEN l[i] ELSE high[i - Len(l)]
      BY <3>1, <3>2, ConcatProperties
    <3>4. QED
      BY <3>3 DEF l
  <2>2. DOMAIN args = 1 .. Len(args)
    BY <2>1, LenProperties
  <2> HIDE DEF args
  <2>3. Len(low \o mid) + Len(high) = n + 4 /\ Len(low \o mid) = n + 2
    BY <1>1, <1>5, <1>7
  <2>4. QED
    BY <2>1, <2>2, <2>3
<1> HIDE DEF args
<1>9. args[1] = low[1] /\ args[2] = low[2]
  BY <1>1, <1>7, <1>8
<1>10. \A r \in 1 .. n : args[r + 2] = mid[r]
  <2>1. TAKE r \in 1 .. n
  <2>2. /\ r + 2 \in 1 .. n + 4 /\ r + 2 \in 1 .. 2 + n /\ r + 2 <= n + 2
        /\ ~ (r + 2 <= 2) /\ r + 2 - 2 = r
    BY <1>1
  <2>3. QED
    BY <1>7, <1>8, <2>2
<1>11. args[n + 3] = high[1] /\ args[n + 4] = high[2]
  <2>1. /\ n + 3 \in 1 .. n + 4 /\ n + 4 \in 1 .. n + 4 /\ ~ (n + 3 <= n + 2) /\ ~ (n + 4 <= n + 2)
        /\ n + 3 - (n + 2) = 1 /\ n + 4 - (n + 2) = 2
    BY <1>1
  <2>2. QED
    BY <1>8, <2>1
<1>12. build_args(mounts) = args
  BY <1>2 DEF args
<1>13. QED
  BY <1>4, <1>5, <1>6, <1>8, <1>9, <1>10, <1>11, <1>12

\* A path that is not below a directory at the root has no such prefix.
LEMMA NotBelow ==
    ASSUME NEW p \in Paths, NEW x \in Names, p = <<>> \/ Head(p) # x
    PROVE  ~ IsPrefix(<<x>>, p)
<1>1. SUFFICES ASSUME IsPrefix(<<x>>, p) PROVE FALSE
  OBVIOUS
<1>2. <<x>> \in Paths /\ Len(<<x>>) = 1 /\ <<x>>[1] = x
  BY PathOne
<1>3. Len(p) \in Nat /\ 1 <= Len(p) /\ p[1] = x
  BY <1>1, <1>2, PrefixIs, PathLen
<1>4. p # <<>>
  BY <1>3, PathOne
<1>5. QED
  BY <1>3, <1>4, PathHead

\* The greatest of a set of positions.
LEMMA MaxIs ==
    ASSUME NEW T \in SUBSET Nat, NEW m \in T, \A i \in T : i <= m
    PROVE  Max(T) = m
<1>1. \A i \in T : i = m \/ ~ (m <= i)
  OBVIOUS
<1>2. Max(T) = CHOOSE x \in T : \A y \in T : x >= y
  BY DEF Max
<1>3. \A x \in T : (\A y \in T : x >= y) <=> x = m
  OBVIOUS
<1>4. QED
  BY <1>2, <1>3

\* What bubblewrap shows writable is what FsPolicy::check lets be written,
\* for any mounts and any path but those of /proc and /dev.
LEMMA SandboxAgreesOn ==
    ASSUME NEW mounts, IsMounts(mounts), NEW p \in Paths, p = <<>> \/ Head(p) \notin {"proc", "dev"}
    PROVE  (Shows(build_args(mounts), p) = "bind") <=> check(mounts, p, "rw")
<1> DEFINE n    == Len(mounts)
           args == build_args(mounts)
           over == {i \in DOMAIN args : IsPrefix(args[i].path, p)}
<1>1. n \in Nat /\ DOMAIN mounts = 1 .. n
  BY MountsLen
<1>2. /\ DOMAIN args = 1 .. n + 4
      /\ args[1] = Op("ro-bind", <<>>) /\ args[2] = Op("tmpfs", <<"tmp">>)
      /\ \A r \in 1 .. n : args[r + 2] = MountOp(Shallowest(mounts)[r])
      /\ args[n + 3] = Op("proc", <<"proc">>) /\ args[n + 4] = Op("dev", <<"dev">>)
  BY ArgsAre
<1>3. Shows(args, p) = args[Max(over)].flag
  BY DEF Shows
<1> HIDE DEF args
<1>4. 1 \in over
  <2>1. IsPrefix(<<>>, p)
    BY PathOne, PathLen, PrefixIs
  <2>2. QED
    BY <1>1, <1>2, <2>1 DEF Op
<1>5. n + 3 \notin over /\ n + 4 \notin over
  <2>1. "proc" \in Names /\ "dev" \in Names
    BY SandboxAssumption
  <2>2. ~ IsPrefix(<<"proc">>, p) /\ ~ IsPrefix(<<"dev">>, p)
    BY <2>1, NotBelow
  <2>3. QED
    BY <1>2, <2>2 DEF Op
<1>6. \A i \in over : i \in Nat /\ i <= n + 2
  BY <1>1, <1>2, <1>5
<1>7. \A i \in DOMAIN mounts :
        /\ Place(mounts, i) \in 1 .. n
        /\ args[Place(mounts, i) + 2] = MountOp(mounts[i])
        /\ (Place(mounts, i) + 2 \in over) <=> IsPrefix(mounts[i].path, p)
  <2>1. TAKE i \in DOMAIN mounts
  <2>2. Place(mounts, i) \in 1 .. n
    BY <1>1, PlaceType
  <2>3. args[Place(mounts, i) + 2] = MountOp(mounts[i])
    BY <1>2, <2>2, ShallowestIs
  <2>4. Place(mounts, i) + 2 \in 1 .. n + 4
    BY <1>1, <2>2
  <2>5. QED
    BY <1>2, <2>2, <2>3, <2>4 DEF MountOp, Op
<1>8. \A k \in over : k > 2 => \E i \in DOMAIN mounts : k = Place(mounts, i) + 2
  <2>1. TAKE k \in over
  <2>2. HAVE k > 2
  <2>3. k - 2 \in DOMAIN mounts
    BY <1>1, <1>6, <2>2
  <2>4. PICK i \in DOMAIN mounts : Place(mounts, i) = k - 2
    BY <2>3, ShallowestIs
  <2>5. QED
    BY <1>6, <2>4
<1> HIDE DEF over
<1>9. CASE /\ \A i \in DOMAIN mounts : ~ IsPrefix(mounts[i].path, p)
           /\ check(mounts, p, "rw") = FALSE
  <2>1. \A k \in over : k \in {1, 2}
    <3>1. TAKE k \in over
    <3>2. ~ (k > 2)
      BY <1>7, <1>8, <1>9
    <3>3. k \in 1 .. n + 4
      BY <1>2 DEF over
    <3>4. QED
      BY <1>1, <3>2, <3>3
  <2>2. Max(over) \in {1, 2}
    <3>1. CASE 2 \in over
      <4>1. over \in SUBSET Nat /\ \A i \in over : i <= 2
        BY <2>1
      <4>2. QED
        BY <3>1, <4>1, MaxIs
    <3>2. CASE 2 \notin over
      <4>1. over \in SUBSET Nat /\ \A i \in over : i <= 1
        BY <2>1, <3>2
      <4>2. QED
        BY <1>4, <4>1, MaxIs
    <3>3. QED
      BY <3>1, <3>2
  <2>3. args[Max(over)].flag # "bind"
    BY <1>2, <2>2 DEF Op
  <2>4. QED
    BY <1>3, <1>9, <2>3 DEF args
<1>10. ASSUME NEW b \in DOMAIN mounts,
              IsPrefix(mounts[b].path, p),
              \A i \in DOMAIN mounts : IsPrefix(mounts[i].path, p) => i = b \/ Before(mounts, i, b),
              check(mounts, p, "rw") = ModeLeq("rw", mounts[b].mode)
       PROVE  (Shows(args, p) = "bind") <=> check(mounts, p, "rw")
  <2> DEFINE k == Place(mounts, b) + 2
  <2>1. k \in over /\ Place(mounts, b) \in Nat
    BY <1>1, <1>7, <1>10
  <2>2. \A j \in over : j <= k
    <3>1. TAKE j \in over
    <3>2. j \in Nat
      BY <1>6
    <3>3. CASE j <= 2
      BY <2>1, <3>2, <3>3
    <3>4. CASE j > 2
      <4>1. PICK i \in DOMAIN mounts : j = Place(mounts, i) + 2
        BY <1>8, <3>4
      <4>2. i = b \/ Before(mounts, i, b)
        BY <1>7, <1>10, <4>1
      <4>3. i = b \/ Place(mounts, i) < Place(mounts, b)
        BY <4>2, PlaceType
      <4>4. Place(mounts, i) \in Nat
        BY <1>1, <1>7
      <4>5. QED
        BY <2>1, <4>1, <4>3, <4>4
    <3>5. QED
      BY <3>2, <3>3, <3>4
  <2>3. Max(over) = k
    <3>1. over \in SUBSET Nat
      BY <1>6
    <3> HIDE DEF k
    <3>2. QED
      BY <2>1, <2>2, <3>1, MaxIs
  <2>4. args[k] = MountOp(mounts[b])
    BY <1>7
  <2>5. (args[k].flag = "bind") <=> (mounts[b].mode = "rw")
    BY <2>4 DEF MountOp, Op
  <2>6. ModeLeq("rw", mounts[b].mode) <=> mounts[b].mode = "rw"
    BY DEF ModeLeq
  <2> HIDE DEF k
  <2>7. QED
    BY <1>3, <1>10, <2>3, <2>5, <2>6
<1>11. QED
  BY <1>9, <1>10, CheckIs DEF args

-----------------------------------------------------------------------------
(* Walks, step by step *)

\* The operators that are repeated, under a name each.
Walking(tr)   == [op |-> "walk", tree |-> tr]
Resolution(tr) == [op |-> "resolve", tree |-> tr]
Lexical(path)   == [op |-> "normalize", path |-> path]

Step(w, x, i) ==
  CASE w.op = "walk"      -> WalkStep(w.tree, x)
    [] w.op = "resolve"   -> resolve_step(w.tree, x)
    [] w.op = "normalize" -> Normalized(x, w.path[i])

IsRun(w, f, base, n) == f = [i \in 0 .. n |-> IF i = 0 THEN base ELSE Step(w, f[i - 1], i)]

\* A run and one step more.
LEMMA RunExtends ==
    ASSUME NEW w, NEW base, NEW n \in Nat, n > 0, NEW g, IsRun(w, g, base, n - 1)
    PROVE  \E f : IsRun(w, f, base, n)
<1> DEFINE f == [i \in 0 .. n |-> IF i < n THEN g[i] ELSE Step(w, g[n - 1], n)]
<1>1. \A i \in 0 .. n : i < n => f[i] = g[i]
  OBVIOUS
<1>2. f[n] = Step(w, g[n - 1], n)
  OBVIOUS
<1>3. DOMAIN f = 0 .. n /\ f = [i \in 0 .. n |-> f[i]]
  OBVIOUS
<1>4. \A i \in 0 .. n - 1 : g[i] = IF i = 0 THEN base ELSE Step(w, g[i - 1], i)
  BY DEF IsRun
<1> HIDE DEF f
<1>5. ASSUME NEW i \in 0 .. n
      PROVE  f[i] = IF i = 0 THEN base ELSE Step(w, f[i - 1], i)
  <2>1. CASE i < n
    <3>1. i \in 0 .. n - 1 /\ f[i] = g[i] /\ (i # 0 => f[i - 1] = g[i - 1])
      BY <1>1, <2>1
    <3>2. QED
      BY <1>4, <3>1
  <2>2. CASE i = n
    <3>1. f[i - 1] = g[n - 1] /\ i # 0
      BY <1>1, <2>2
    <3>2. QED
      BY <1>2, <2>2, <3>1
  <2>3. QED
    BY <2>1, <2>2
<1>6. QED
  BY <1>3, <1>5 DEF IsRun

\* There is a run of any length.
LEMMA RunExists ==
    ASSUME NEW w, NEW base, NEW n \in Nat
    PROVE  \E f : IsRun(w, f, base, n)
<1> DEFINE Good == {m \in Nat : \E f : IsRun(w, f, base, m)}
<1>1. 0 \in Good
  <2> DEFINE f == [i \in 0 .. 0 |-> base]
  <2>1. f = [i \in 0 .. 0 |-> IF i = 0 THEN base ELSE Step(w, f[i - 1], i)]
    OBVIOUS
  <2>2. IsRun(w, f, base, 0)
    BY <2>1 DEF IsRun
  <2>3. QED
    BY <2>2
<1>2. \A m \in 1 .. n : m - 1 \in Good => m \in Good
  <2>1. TAKE m \in 1 .. n
  <2>2. HAVE m - 1 \in Good
  <2>3. PICK g : IsRun(w, g, base, m - 1)
    BY <2>2
  <2>4. \E f : IsRun(w, f, base, m)
    BY <2>3, RunExtends
  <2>5. QED
    BY <2>4
<1> HIDE DEF Good
<1>3. n \in Good
  BY <1>1, <1>2, Steps
<1>4. QED
  BY <1>3 DEF Good

\* The bound on the steps.
LEMMA FuelIs == Fuel \in Nat /\ Fuel > 0
  BY SandboxAssumption

\* Where a walk is: the states of the walk along a path, from the first one.
At(at, todo, hops, end) == [at |-> at, todo |-> todo, hops |-> hops, end |-> end]

Way(tr, path) == CHOOSE f : IsRun(Walking(tr), f, At(<<>>, path, 0, "on"), Fuel)

\* The walk is the last of its states.
LEMMA WayIs ==
    ASSUME NEW tr, NEW path
    PROVE  /\ Way(tr, path)[0] = At(<<>>, path, 0, "on")
           /\ \A i \in 1 .. Fuel : Way(tr, path)[i] = WalkStep(tr, Way(tr, path)[i - 1])
           /\ Walk(tr, path) = Way(tr, path)[Fuel]
<1> DEFINE s    == At(<<>>, path, 0, "on")
           R(f) == f = [n \in 0 .. Fuel |-> IF n = 0 THEN s ELSE WalkStep(tr, f[n - 1])]
<1>1. \A x, i : Step(Walking(tr), x, i) = WalkStep(tr, x)
  BY DEF Step, Walking
<1>2. \A f : IsRun(Walking(tr), f, s, Fuel) <=> R(f)
  BY <1>1 DEF IsRun
<1>3. \E f : IsRun(Walking(tr), f, s, Fuel)
  BY FuelIs, RunExists
<1>4. IsRun(Walking(tr), Way(tr, path), s, Fuel)
  BY <1>3 DEF Way
<1>5. (CHOOSE f : R(f)) = Way(tr, path)
  <2>1. R(Way(tr, path))
    BY <1>2, <1>4
  <2>2. ASSUME NEW f, R(f) PROVE IsRun(Walking(tr), f, s, Fuel)
    BY <1>2, <2>2
  <2>3. QED
    BY <1>2 DEF Way
<1>6. Walk(tr, path) = (CHOOSE f : R(f))[Fuel]
  BY DEF Walk, Repeat, At
<1>7. \A i \in 0 .. Fuel : Way(tr, path)[i] = IF i = 0 THEN s ELSE WalkStep(tr, Way(tr, path)[i - 1])
  <2>1. R(Way(tr, path))
    BY <1>2, <1>4
  <2> DEFINE f == Way(tr, path)
  <2> HIDE DEF f
  <2>2. R(f)
    BY <2>1 DEF f
  <2>3. \A i \in 0 .. Fuel : f[i] = IF i = 0 THEN s ELSE WalkStep(tr, f[i - 1])
    BY <2>2
  <2>4. QED
    BY <2>3 DEF f
<1>8. Way(tr, path)[0] = s
  <2>1. 0 \in 0 .. Fuel
    BY FuelIs
  <2> HIDE DEF s
  <2>2. QED
    BY <1>7, <2>1
<1>9. \A i \in 1 .. Fuel : Way(tr, path)[i] = WalkStep(tr, Way(tr, path)[i - 1])
  <2>1. \A i \in 1 .. Fuel : i \in 0 .. Fuel /\ i # 0
    BY FuelIs
  <2> HIDE DEF s
  <2>2. QED
    BY <1>7, <2>1
<1>10. QED
  BY <1>5, <1>6, <1>8, <1>9

\* A walk that has ended takes no step.
LEMMA StepEnded ==
    ASSUME NEW tr, NEW s, s.end # "on"
    PROVE  WalkStep(tr, s) = s
  BY DEF WalkStep

\* What a state of a walk says, and a state with one field changed.
LEMMA AtFields ==
    \A at, todo, hops, end :
        /\ At(at, todo, hops, end).at = at /\ At(at, todo, hops, end).todo = todo
        /\ At(at, todo, hops, end).hops = hops /\ At(at, todo, hops, end).end = end
  BY DEF At

LEMMA AtExcept ==
    \A at, todo, hops, end, x :
        /\ [At(at, todo, hops, end) EXCEPT !.at = x] = At(x, todo, hops, end)
        /\ [At(at, todo, hops, end) EXCEPT !.todo = x] = At(at, x, hops, end)
        /\ [At(at, todo, hops, end) EXCEPT !.hops = x] = At(at, todo, x, end)
        /\ [At(at, todo, hops, end) EXCEPT !.end = x] = At(at, todo, hops, x)
<1>1. SUFFICES ASSUME NEW at, NEW todo, NEW hops, NEW end, NEW x
               PROVE  /\ [At(at, todo, hops, end) EXCEPT !.at = x] = At(x, todo, hops, end)
                      /\ [At(at, todo, hops, end) EXCEPT !.todo = x] = At(at, x, hops, end)
                      /\ [At(at, todo, hops, end) EXCEPT !.hops = x] = At(at, todo, x, end)
                      /\ [At(at, todo, hops, end) EXCEPT !.end = x] = At(at, todo, hops, x)
  BY Zenon
<1> DEFINE s == At(at, todo, hops, end)
<1>2. s.at = at /\ s.todo = todo /\ s.hops = hops /\ s.end = end
  BY AtFields
<1>3. DOMAIN s = {"at", "todo", "hops", "end"}
  BY DEF At
<1> HIDE DEF s
<1>4. [s EXCEPT !.at = x] = At(x, todo, hops, end)
  <2>1. [s EXCEPT !.at = x] = [at |-> x, todo |-> s.todo, hops |-> s.hops, end |-> s.end]
    BY <1>3
  <2>2. QED
    BY <1>2, <2>1 DEF At
<1>5. [s EXCEPT !.todo = x] = At(at, x, hops, end)
  <2>1. [s EXCEPT !.todo = x] = [at |-> s.at, todo |-> x, hops |-> s.hops, end |-> s.end]
    BY <1>3
  <2>2. QED
    BY <1>2, <2>1 DEF At
<1>6. [s EXCEPT !.hops = x] = At(at, todo, x, end)
  <2>1. [s EXCEPT !.hops = x] = [at |-> s.at, todo |-> s.todo, hops |-> x, end |-> s.end]
    BY <1>3
  <2>2. QED
    BY <1>2, <2>1 DEF At
<1>7. [s EXCEPT !.end = x] = At(at, todo, hops, x)
  <2>1. [s EXCEPT !.end = x] = [at |-> s.at, todo |-> s.todo, hops |-> s.hops, end |-> x]
    BY <1>3
  <2>2. QED
    BY <1>2, <2>1 DEF At
<1>8. QED
  BY <1>4, <1>5, <1>6, <1>7 DEF s

\* One step of a walk.
LEMMA StepIs ==
    ASSUME NEW tr, NEW at, NEW todo, NEW hops
    PROVE  LET next  == WalkStep(tr, At(at, todo, hops, "on"))
               name  == Head(todo)
               child == Append(at, name)
               rest  == Tail(todo)
           IN  /\ todo = <<>> => next = At(at, todo, hops, "found")
               /\ todo # <<>> /\ tr[at].t # "dir" => next = At(at, todo, hops, "NotADirectory")
               /\ todo # <<>> /\ tr[at].t = "dir" =>
                    /\ name = ".." => next = At(IF at = <<>> THEN at ELSE Front(at), rest, hops, "on")
                    /\ name # ".." /\ child \notin DOMAIN tr =>
                         next = At(child, todo, hops, IF rest = <<>> THEN "missing" ELSE "NotFound")
                    /\ name # ".." /\ child \in DOMAIN tr /\ tr[child].t # "link" =>
                         next = At(child, rest, hops, "on")
                    /\ name # ".." /\ child \in DOMAIN tr /\ tr[child].t = "link" =>
                         next = IF hops = MaxHops THEN At(at, todo, hops, "loop")
                                ELSE At(IF tr[child].abs THEN <<>> ELSE at,
                                        tr[child].to \o rest, hops + 1, "on")
<1> DEFINE s     == At(at, todo, hops, "on")
           name  == Head(todo)
           child == Append(at, name)
           rest  == Tail(todo)
<1>1. s.at = at /\ s.todo = todo /\ s.hops = hops /\ s.end = "on"
  BY AtFields
<1>2. \A e : [s EXCEPT !.end = e] = At(at, todo, hops, e)
  BY AtExcept
<1>3. \A e, c : [s EXCEPT !.end = e, !.at = c] = At(c, todo, hops, e)
  <2>1. TAKE e, c
  <2>2. [s EXCEPT !.end = e, !.at = c] = [[s EXCEPT !.end = e] EXCEPT !.at = c]
    OBVIOUS
  <2>3. [s EXCEPT !.end = e] = At(at, todo, hops, e)
    BY AtExcept
  <2>4. [At(at, todo, hops, e) EXCEPT !.at = c] = At(c, todo, hops, e)
    BY AtExcept
  <2> HIDE DEF s
  <2>5. QED
    BY <2>2, <2>3, <2>4
<1>4. \A c, d : [s EXCEPT !.at = c, !.todo = d] = At(c, d, hops, "on")
  <2>1. TAKE c, d
  <2>2. [s EXCEPT !.at = c, !.todo = d] = [[s EXCEPT !.at = c] EXCEPT !.todo = d]
    OBVIOUS
  <2>3. [s EXCEPT !.at = c] = At(c, todo, hops, "on")
    BY AtExcept
  <2>4. [At(c, todo, hops, "on") EXCEPT !.todo = d] = At(c, d, hops, "on")
    BY AtExcept
  <2> HIDE DEF s
  <2>5. QED
    BY <2>2, <2>3, <2>4
<1>5. \A c, d, h : [s EXCEPT !.hops = h, !.todo = d, !.at = c] = At(c, d, h, "on")
  <2>1. TAKE c, d, h
  <2>2. [s EXCEPT !.hops = h, !.todo = d, !.at = c]
          = [[[s EXCEPT !.hops = h] EXCEPT !.todo = d] EXCEPT !.at = c]
    OBVIOUS
  <2>3. [s EXCEPT !.hops = h] = At(at, todo, h, "on")
    BY AtExcept
  <2>4. [At(at, todo, h, "on") EXCEPT !.todo = d] = At(at, d, h, "on")
    BY AtExcept
  <2>5. [At(at, d, h, "on") EXCEPT !.at = c] = At(c, d, h, "on")
    BY AtExcept
  <2> HIDE DEF s
  <2>6. QED
    BY <2>2, <2>3, <2>4, <2>5
<1> HIDE DEF s
<1>6. todo = <<>> => WalkStep(tr, s) = At(at, todo, hops, "found")
  BY <1>1, <1>2 DEF WalkStep
<1>7. todo # <<>> /\ tr[at].t # "dir" => WalkStep(tr, s) = At(at, todo, hops, "NotADirectory")
  BY <1>1, <1>2 DEF WalkStep
<1>8. ASSUME todo # <<>>, tr[at].t = "dir"
      PROVE  /\ name = ".." => WalkStep(tr, s) = At(IF at = <<>> THEN at ELSE Front(at), rest, hops, "on")
             /\ name # ".." /\ child \notin DOMAIN tr =>
                  WalkStep(tr, s) = At(child, todo, hops, IF rest = <<>> THEN "missing" ELSE "NotFound")
             /\ name # ".." /\ child \in DOMAIN tr /\ tr[child].t # "link" =>
                  WalkStep(tr, s) = At(child, rest, hops, "on")
             /\ name # ".." /\ child \in DOMAIN tr /\ tr[child].t = "link" =>
                  WalkStep(tr, s) = IF hops = MaxHops THEN At(at, todo, hops, "loop")
                                    ELSE At(IF tr[child].abs THEN <<>> ELSE at,
                                            tr[child].to \o rest, hops + 1, "on")
  <2>1. CASE name = ".."
    BY <1>1, <1>4, <1>8, <2>1 DEF WalkStep
  <2>2. CASE name # ".." /\ child \notin DOMAIN tr
    BY <1>1, <1>3, <1>8, <2>2 DEF WalkStep
  <2>3. CASE name # ".." /\ child \in DOMAIN tr /\ tr[child].t # "link"
    BY <1>1, <1>4, <1>8, <2>3 DEF WalkStep
  <2>4. CASE name # ".." /\ child \in DOMAIN tr /\ tr[child].t = "link" /\ hops = MaxHops
    BY <1>1, <1>2, <1>8, <2>4 DEF WalkStep
  <2>5. CASE name # ".." /\ child \in DOMAIN tr /\ tr[child].t = "link" /\ hops # MaxHops
    <3> DEFINE new == [s EXCEPT !.hops = @ + 1, !.todo = tr[child].to \o rest,
                                !.at = IF tr[child].abs THEN <<>> ELSE @]
    <3>1. WalkStep(tr, s) = new
      BY <1>1, <1>8, <2>5 DEF WalkStep
    <3>2. new = [s EXCEPT !.hops = hops + 1, !.todo = tr[child].to \o rest,
                          !.at = IF tr[child].abs THEN <<>> ELSE at]
      <4> HIDE DEF child, rest
      <4>1. QED
        BY <1>1
    <3> HIDE DEF new
    <3>3. QED
      BY <1>5, <2>5, <3>1, <3>2
  <2>6. QED
    BY <2>1, <2>2, <2>3, <2>4, <2>5
<1>9. QED
  BY <1>6, <1>7, <1>8 DEF s

-----------------------------------------------------------------------------
(* Where a walk can be *)

\* A path without links and without `..` that exists.
Canon(tr, c) == \A p \in Paths : p # <<>> /\ IsPrefix(p, c) =>
                                   p \in DOMAIN tr /\ tr[p].t # "link" /\ Last(p) # ".."

\* What is known of a walk after i steps, and of a state as a whole.
Placed(tr, at, todo, hops, end, i) ==
  /\ at \in Paths /\ todo \in Paths /\ hops \in 0 .. MaxHops /\ Len(at) <= i
  /\ end \in {"on", "found", "NotADirectory", "loop", "missing", "NotFound"}
  /\ end \notin {"missing", "NotFound"} => at \in DOMAIN tr /\ Canon(tr, at)
  /\ end \in {"missing", "NotFound"} =>
       /\ at # <<>> /\ at \notin DOMAIN tr /\ Last(at) # ".." /\ Canon(tr, Front(at))
       /\ Front(at) \in DOMAIN tr /\ tr[Front(at)].t = "dir"
       /\ todo # <<>> /\ (end = "missing" <=> Tail(todo) = <<>>)
  /\ end = "found" => todo = <<>>

IsAt(tr, s, i) == /\ s = At(s.at, s.todo, s.hops, s.end)
                  /\ Placed(tr, s.at, s.todo, s.hops, s.end, i)

LEMMA IsAtIs ==
    ASSUME NEW tr, NEW at, NEW todo, NEW hops, NEW end, NEW i, Placed(tr, at, todo, hops, end, i)
    PROVE  IsAt(tr, At(at, todo, hops, end), i)
<1> DEFINE s == At(at, todo, hops, end)
<1>1. s.at = at /\ s.todo = todo /\ s.hops = hops /\ s.end = end
  BY AtFields
<1>2. s = At(at, todo, hops, end)
  OBVIOUS
<1> HIDE DEF s
<1>3. IsAt(tr, s, i)
  BY <1>1, <1>2 DEF IsAt
<1>4. QED
  BY <1>3 DEF s

\* The prefixes of a path with one component more.
LEMMA PrefixOfAppend ==
    ASSUME NEW p \in Paths, NEW q \in Paths, NEW x \in Names, IsPrefix(p, Append(q, x))
    PROVE  p = Append(q, x) \/ IsPrefix(p, q)
<1> DEFINE a == Append(q, x)
<1>1. a \in Paths /\ Len(a) = Len(q) + 1 /\ \A i \in 1 .. Len(q) : a[i] = q[i]
  BY PathAppend
<1>2. IsPrefix(p, a)
  OBVIOUS
<1> HIDE DEF a
<1>3. Len(p) \in Nat /\ Len(q) \in Nat /\ Len(p) <= Len(a) /\ \A i \in 1 .. Len(p) : p[i] = a[i]
  BY <1>1, <1>2, PathLen, PrefixIs
<1>4. CASE Len(p) = Len(a)
  <2>1. p = a
    BY <1>1, <1>3, <1>4, PathEqual
  <2>2. QED
    BY <2>1 DEF a
<1>5. CASE Len(p) # Len(a)
  <2>1. Len(p) <= Len(q)
    BY <1>1, <1>3, <1>5
  <2>2. \A i \in 1 .. Len(p) : p[i] = q[i]
    BY <1>1, <1>3, <2>1
  <2>3. QED
    BY <2>1, <2>2, PrefixIs
<1>6. QED
  BY <1>4, <1>5

\* The root, the directory above and an entry that is no link.
LEMMA CanonLaws ==
    ASSUME NEW tr
    PROVE  /\ Canon(tr, <<>>)
           /\ \A c \in Paths : c # <<>> /\ Canon(tr, c) => Canon(tr, Front(c))
           /\ \A c \in Paths, x \in Names :
                /\ Canon(tr, c) /\ Append(c, x) \in DOMAIN tr /\ tr[Append(c, x)].t # "link" /\ x # ".."
                => Canon(tr, Append(c, x))
<1>1. Canon(tr, <<>>)
  <2>1. SUFFICES ASSUME NEW p \in Paths, p # <<>>, IsPrefix(p, <<>>) PROVE FALSE
    BY DEF Canon
  <2>2. Len(p) <= 0
    BY <2>1, PathOne, PrefixIs
  <2>3. QED
    BY <2>1, <2>2, PathLen
<1>2. ASSUME NEW c \in Paths, c # <<>>, Canon(tr, c)
      PROVE  Canon(tr, Front(c))
  <2>1. SUFFICES ASSUME NEW p \in Paths, p # <<>>, IsPrefix(p, Front(c)) PROVE IsPrefix(p, c)
    BY <1>2 DEF Canon
  <2>2. Front(c) \in Paths /\ Last(c) \in Names /\ c = Front(c) \o <<Last(c)>>
    BY <1>2, PathFront
  <2>3. IsPrefix(Front(c), c)
    <3>1. <<Last(c)>> \in Paths
      BY <2>2, PathOne
    <3>2. IsPrefix(Front(c), Front(c) \o <<Last(c)>>)
      BY <2>2, <3>1, PrefixLaws
    <3>3. QED
      BY <2>2, <3>2
  <2>4. QED
    BY <2>1, <2>2, <2>3, PrefixLaws
<1>3. ASSUME NEW c \in Paths, NEW x \in Names,
             Canon(tr, c), Append(c, x) \in DOMAIN tr, tr[Append(c, x)].t # "link", x # ".."
      PROVE  Canon(tr, Append(c, x))
  <2>1. SUFFICES ASSUME NEW p \in Paths, p # <<>>, IsPrefix(p, Append(c, x))
                 PROVE  p \in DOMAIN tr /\ tr[p].t # "link" /\ Last(p) # ".."
    BY DEF Canon
  <2>2. Last(Append(c, x)) = x
    BY FrontOf
  <2>3. p = Append(c, x) \/ IsPrefix(p, c)
    BY <2>1, PrefixOfAppend
  <2>4. CASE p = Append(c, x)
    BY <1>3, <2>2, <2>4
  <2>5. CASE IsPrefix(p, c)
    BY <1>3, <2>1, <2>5 DEF Canon
  <2>6. QED
    BY <2>3, <2>4, <2>5
<1>4. QED
  BY <1>1, <1>2, <1>3

\* What a tree says of its nodes.
LEMMA TreeIs ==
    ASSUME NEW tr, IsTree(tr)
    PROVE  /\ DOMAIN tr \subseteq Paths /\ <<>> \in DOMAIN tr
           /\ \A p \in DOMAIN tr : /\ p \in Paths
                                   /\ tr[p].t = "link" => tr[p].abs \in BOOLEAN /\ tr[p].to \in Paths
                                   /\ p # <<>> => Front(p) \in DOMAIN tr /\ tr[Front(p)].t = "dir"
  BY DEF IsTree, IsNode

\* One step keeps what is known of a walk.
LEMMA StepType ==
    ASSUME NEW tr, IsTree(tr), NEW at, NEW todo, NEW hops, NEW i \in Nat,
           Placed(tr, at, todo, hops, "on", i)
    PROVE  IsAt(tr, WalkStep(tr, At(at, todo, hops, "on")), i + 1)
<1> DEFINE next  == WalkStep(tr, At(at, todo, hops, "on"))
           name  == Head(todo)
           child == Append(at, name)
           rest  == Tail(todo)
<1>1. /\ at \in Paths /\ todo \in Paths /\ hops \in 0 .. MaxHops /\ Len(at) <= i /\ Len(at) \in Nat
      /\ at \in DOMAIN tr /\ Canon(tr, at)
  BY PathLen DEF Placed
<1>2. MaxHops \in Nat
  BY SandboxAssumption
<1>3. CASE todo = <<>>
  <2>1. next = At(at, todo, hops, "found")
    BY <1>3, StepIs
  <2>2. Placed(tr, at, todo, hops, "found", i + 1)
    BY <1>1, <1>3 DEF Placed
  <2>3. QED
    BY <2>1, <2>2, IsAtIs
<1>4. CASE todo # <<>> /\ tr[at].t # "dir"
  <2>1. next = At(at, todo, hops, "NotADirectory")
    BY <1>4, StepIs
  <2>2. Placed(tr, at, todo, hops, "NotADirectory", i + 1)
    BY <1>1 DEF Placed
  <2>3. QED
    BY <2>1, <2>2, IsAtIs
<1>5. CASE todo # <<>> /\ tr[at].t = "dir"
  <2>1. name \in Names /\ rest \in Paths
    BY <1>1, <1>5, PathHead
  <2>2. child \in Paths /\ Len(child) = Len(at) + 1 /\ child # <<>> /\ Front(child) = at /\ Last(child) = name
    BY <1>1, <2>1, PathAppend, FrontOf
  <2>3. CASE name = ".."
    <3>1. next = At(IF at = <<>> THEN at ELSE Front(at), rest, hops, "on")
      BY <1>5, <2>3, StepIs
    <3>2. CASE at = <<>>
      <4>1. Placed(tr, at, rest, hops, "on", i + 1)
        BY <1>1, <2>1 DEF Placed
      <4>2. QED
        BY <3>1, <3>2, <4>1, IsAtIs
    <3>3. CASE at # <<>>
      <4>1. Front(at) \in Paths /\ Len(Front(at)) = Len(at) - 1
        BY <1>1, <3>3, PathFront
      <4>2. Front(at) \in DOMAIN tr /\ Canon(tr, Front(at))
        BY <1>1, <3>3, TreeIs, CanonLaws
      <4>3. Placed(tr, Front(at), rest, hops, "on", i + 1)
        BY <1>1, <2>1, <4>1, <4>2 DEF Placed
      <4>4. QED
        BY <3>1, <3>3, <4>3, IsAtIs
    <3>4. QED
      BY <3>2, <3>3
  <2>4. CASE name # ".." /\ child \notin DOMAIN tr
    <3> DEFINE end == IF rest = <<>> THEN "missing" ELSE "NotFound"
    <3>1. next = At(child, todo, hops, end)
      BY <1>5, <2>4, StepIs
    <3>2. Placed(tr, child, todo, hops, end, i + 1)
      <4> HIDE DEF child, name
      <4>1. QED
        BY <1>1, <1>5, <2>2, <2>4 DEF Placed
    <3>3. QED
      BY <3>1, <3>2, IsAtIs
  <2>5. CASE name # ".." /\ child \in DOMAIN tr /\ tr[child].t # "link"
    <3>1. next = At(child, rest, hops, "on")
      BY <1>5, <2>5, StepIs
    <3>2. Canon(tr, child)
      BY <1>1, <2>1, <2>5, CanonLaws
    <3>3. Placed(tr, child, rest, hops, "on", i + 1)
      <4> HIDE DEF child, rest
      <4>1. QED
        BY <1>1, <2>1, <2>2, <2>5, <3>2 DEF Placed
    <3>4. QED
      BY <3>1, <3>3, IsAtIs
  <2>6. CASE name # ".." /\ child \in DOMAIN tr /\ tr[child].t = "link"
    <3> DEFINE from == IF tr[child].abs THEN <<>> ELSE at
               more == tr[child].to \o rest
    <3>1. next = IF hops = MaxHops THEN At(at, todo, hops, "loop") ELSE At(from, more, hops + 1, "on")
      BY <1>5, <2>6, StepIs
    <3>2. CASE hops = MaxHops
      <4>1. Placed(tr, at, todo, hops, "loop", i + 1)
        BY <1>1 DEF Placed
      <4>2. QED
        BY <3>1, <3>2, <4>1, IsAtIs
    <3>3. CASE hops # MaxHops
      <4>1. tr[child].to \in Paths
        BY <2>6, TreeIs
      <4>2. more \in Paths
        BY <2>1, <4>1, PathConcat
      <4>3. from \in Paths /\ from \in DOMAIN tr /\ Canon(tr, from) /\ Len(from) <= i + 1
        BY <1>1, TreeIs, CanonLaws, PathOne
      <4>4. hops + 1 \in 0 .. MaxHops
        BY <1>1, <1>2, <3>3
      <4>5. Placed(tr, from, more, hops + 1, "on", i + 1)
        <5> HIDE DEF from, more
        <5>1. QED
          BY <4>2, <4>3, <4>4 DEF Placed
      <4>6. QED
        BY <3>1, <3>3, <4>5, IsAtIs
    <3>4. QED
      BY <3>2, <3>3
  <2>7. QED
    BY <2>3, <2>4, <2>5, <2>6
<1>6. QED
  BY <1>3, <1>4, <1>5

\* What is known of a walk after any number of steps.
LEMMA WayType ==
    ASSUME NEW tr, IsTree(tr), NEW path \in Paths
    PROVE  \A i \in 0 .. Fuel : IsAt(tr, Way(tr, path)[i], i)
<1> DEFINE f    == Way(tr, path)
           Good == {i \in Nat : IsAt(tr, f[i], i)}
<1>1. 0 \in Good
  <2>1. f[0] = At(<<>>, path, 0, "on")
    BY WayIs
  <2>2. Placed(tr, <<>>, path, 0, "on", 0)
    BY SandboxAssumption, PathOne, TreeIs, CanonLaws DEF Placed
  <2>3. IsAt(tr, f[0], 0)
    BY <2>1, <2>2, IsAtIs
  <2> HIDE DEF f
  <2>4. QED
    BY <2>3
<1>2. \A i \in 1 .. Fuel : i - 1 \in Good => i \in Good
  <2>1. TAKE i \in 1 .. Fuel
  <2>2. HAVE i - 1 \in Good
  <2>3. f[i] = WalkStep(tr, f[i - 1])
    BY WayIs
  <2> DEFINE s == f[i - 1]
  <2>4. IsAt(tr, s, i - 1)
    BY <2>2
  <2>5. f[i] = WalkStep(tr, s)
    BY <2>3
  <2> HIDE DEF f, s
  <2>6. s = At(s.at, s.todo, s.hops, s.end) /\ Placed(tr, s.at, s.todo, s.hops, s.end, i - 1)
    BY <2>4 DEF IsAt
  <2>7. CASE s.end = "on"
    <3>1. Placed(tr, s.at, s.todo, s.hops, "on", i - 1)
      BY <2>6, <2>7
    <3>2. i - 1 \in Nat /\ i - 1 + 1 = i
      OBVIOUS
    <3>3. IsAt(tr, WalkStep(tr, At(s.at, s.todo, s.hops, "on")), i - 1 + 1)
      BY <3>1, <3>2, StepType
    <3>4. IsAt(tr, f[i], i)
      BY <2>5, <2>6, <2>7, <3>2, <3>3
    <3>5. QED
      BY <3>4
  <2>8. CASE s.end # "on"
    <3>1. f[i] = s
      BY <2>5, <2>8, StepEnded
    <3>2. Placed(tr, s.at, s.todo, s.hops, s.end, i)
      <4>1. Len(s.at) \in Nat
        BY <2>6, PathLen DEF Placed
      <4>2. QED
        BY <2>6, <4>1 DEF Placed
    <3>3. IsAt(tr, f[i], i)
      BY <2>6, <3>1, <3>2 DEF IsAt
    <3>4. QED
      BY <3>3
  <2>9. QED
    BY <2>7, <2>8
<1> HIDE DEF Good
<1>3. \A i \in 0 .. Fuel : i \in Good
  BY <1>1, <1>2, FuelIs, Steps
<1>4. QED
  BY <1>3 DEF Good

\* A walk that has ended stays where it is.
LEMMA Stays ==
    ASSUME NEW tr, NEW path, NEW i \in 0 .. Fuel, Way(tr, path)[i].end # "on"
    PROVE  \A l \in i .. Fuel : Way(tr, path)[l] = Way(tr, path)[i]
<1> DEFINE f    == Way(tr, path)
           Good == {m \in Nat : f[i + m] = f[i]}
<1>1. \A l \in 1 .. Fuel : f[l] = WalkStep(tr, f[l - 1])
  BY WayIs
<1>2. f[i].end # "on"
  OBVIOUS
<1> HIDE DEF f
<1>3. Fuel \in Nat /\ Fuel - i \in Nat /\ 0 \in Good
  BY FuelIs
<1>4. \A m \in 1 .. Fuel - i : m - 1 \in Good => m \in Good
  <2>1. TAKE m \in 1 .. Fuel - i
  <2>2. HAVE m - 1 \in Good
  <2>3. i + m \in 1 .. Fuel /\ i + m - 1 = i + (m - 1)
    BY <1>3
  <2>4. f[i + m] = WalkStep(tr, f[i + (m - 1)])
    BY <1>1, <2>3
  <2>5. f[i + m] = WalkStep(tr, f[i])
    BY <2>2, <2>4
  <2>6. f[i + m] = f[i]
    BY <1>2, <2>5, StepEnded
  <2>7. QED
    BY <2>6
<1> HIDE DEF Good
<1>5. \A m \in 0 .. Fuel - i : m \in Good
  BY <1>3, <1>4, Steps
<1>6. \A m \in 0 .. Fuel - i : f[i + m] = f[i]
  BY <1>5 DEF Good
<1>7. \A l \in i .. Fuel : f[l] = f[i]
  <2>1. TAKE l \in i .. Fuel
  <2>2. l - i \in 0 .. Fuel - i /\ i + (l - i) = l
    BY <1>3
  <2>3. QED
    BY <1>6, <2>2
<1>8. QED
  BY <1>7 DEF f

-----------------------------------------------------------------------------
(* Two walks *)

\* The end of a walk: the step at which it stops.
LEMMA EndOf ==
    ASSUME NEW tr, NEW path, Walk(tr, path).end # "on"
    PROVE  \E k \in 1 .. Fuel : /\ Way(tr, path)[k - 1].end = "on"
                                /\ Way(tr, path)[k] = Walk(tr, path)
<1> DEFINE f == Way(tr, path)
           T == {i \in 0 .. Fuel : f[i].end # "on"}
<1>1. /\ f[0] = At(<<>>, path, 0, "on") /\ Walk(tr, path) = f[Fuel]
      /\ \A i \in 0 .. Fuel : f[i].end # "on" => \A l \in i .. Fuel : f[l] = f[i]
  BY WayIs, Stays
<1> HIDE DEF f
<1>2. T \in SUBSET Nat /\ Fuel \in T
  BY <1>1, FuelIs
<1>3. \A i \in T : i \in 0 .. Fuel /\ f[i].end # "on"
  OBVIOUS
<1>4. \A i \in 0 .. Fuel : i \notin T => f[i].end = "on"
  OBVIOUS
<1> HIDE DEF T
<1>5. PICK k \in T : \A i \in T : k <= i
  BY <1>2, Least
<1>6. f[0].end = "on"
  BY <1>1, AtFields
<1>7. k \in 1 .. Fuel
  BY <1>3, <1>6, FuelIs
<1>8. k - 1 \in 0 .. Fuel /\ k - 1 \notin T
  BY <1>5, <1>7, FuelIs
<1>9. f[k - 1].end = "on" /\ f[Fuel] = f[k]
  BY <1>1, <1>3, <1>4, <1>7, <1>8, FuelIs
<1>10. QED
  BY <1>1, <1>7, <1>9 DEF f

\* A walk that is at an end after k steps ends there.
LEMMA EndsAt ==
    ASSUME NEW tr, NEW path, NEW k \in 0 .. Fuel, Way(tr, path)[k].end # "on"
    PROVE  Walk(tr, path) = Way(tr, path)[k]
<1>1. Fuel \in k .. Fuel
  BY FuelIs
<1>2. QED
  BY <1>1, Stays, WayIs

\* A step that goes on does the same whatever comes behind.
LEMMA FrameStep ==
    ASSUME NEW tr, IsTree(tr), NEW at \in Paths, NEW todo \in Paths, NEW hops, NEW b \in Paths,
           WalkStep(tr, At(at, todo, hops, "on")).end = "on"
    PROVE  \E at2, todo2, hops2 :
             /\ WalkStep(tr, At(at, todo, hops, "on")) = At(at2, todo2, hops2, "on")
             /\ todo2 \in Paths
             /\ WalkStep(tr, At(at, todo \o b, hops, "on")) = At(at2, todo2 \o b, hops2, "on")
<1> DEFINE next  == WalkStep(tr, At(at, todo, hops, "on"))
           name  == Head(todo)
           child == Append(at, name)
           rest  == Tail(todo)
           long  == todo \o b
           along == WalkStep(tr, At(at, long, hops, "on"))
<1>1. next.end = "on"
  OBVIOUS
<1>2. todo # <<>> /\ tr[at].t = "dir"
  <2>1. At(at, todo, hops, "found").end = "found"
        /\ At(at, todo, hops, "NotADirectory").end = "NotADirectory"
    BY AtFields
  <2>2. QED
    BY <1>1, <2>1, StepIs
<1>3. long # <<>> /\ Head(long) = name /\ Tail(long) = rest \o b /\ rest \in Paths
  BY <1>2, PathHead
<1> HIDE DEF long
<1>4. CASE name = ".."
  <2> DEFINE up == IF at = <<>> THEN at ELSE Front(at)
  <2>1. next = At(up, rest, hops, "on")
    BY <1>2, <1>4, StepIs
  <2>2. along = At(up, Tail(long), hops, "on")
    <3>1. Head(long) = ".."
      BY <1>3, <1>4
    <3>2. QED
      BY <1>2, <1>3, <3>1, StepIs
  <2>3. QED
    BY <1>3, <2>1, <2>2 DEF long
<1>5. CASE name # ".." /\ child \notin DOMAIN tr
  <2>1. next.end \in {"missing", "NotFound"}
    <3>1. next = At(child, todo, hops, IF rest = <<>> THEN "missing" ELSE "NotFound")
      BY <1>2, <1>5, StepIs
    <3>2. next.end = IF rest = <<>> THEN "missing" ELSE "NotFound"
      BY <3>1, AtFields
    <3>3. QED
      BY <3>2
  <2>2. QED
    BY <1>1, <2>1
<1>6. CASE name # ".." /\ child \in DOMAIN tr /\ tr[child].t # "link"
  <2>1. next = At(child, rest, hops, "on")
    BY <1>2, <1>6, StepIs
  <2>2. along = At(Append(at, Head(long)), Tail(long), hops, "on")
    <3>1. Head(long) # ".." /\ Append(at, Head(long)) \in DOMAIN tr
          /\ tr[Append(at, Head(long))].t # "link"
      BY <1>3, <1>6
    <3>2. QED
      BY <1>2, <1>3, <3>1, StepIs
  <2>3. QED
    BY <1>3, <2>1, <2>2 DEF long
<1>7. CASE name # ".." /\ child \in DOMAIN tr /\ tr[child].t = "link"
  <2> DEFINE from == IF tr[child].abs THEN <<>> ELSE at
             to   == tr[child].to
  <2>1. next = IF hops = MaxHops THEN At(at, todo, hops, "loop") ELSE At(from, to \o rest, hops + 1, "on")
    BY <1>2, <1>7, StepIs
  <2>2. At(at, todo, hops, "loop").end = "loop"
    BY AtFields
  <2>3. hops # MaxHops /\ next = At(from, to \o rest, hops + 1, "on")
    <3> HIDE DEF next, from
    <3>1. QED
      BY <1>1, <2>1, <2>2
  <2>4. along = At(from, to \o Tail(long), hops + 1, "on")
    <3>1. /\ Head(long) # ".." /\ Append(at, Head(long)) = child
          /\ Append(at, Head(long)) \in DOMAIN tr /\ tr[Append(at, Head(long))].t = "link"
      BY <1>3, <1>7
    <3>2. along = At(IF tr[Append(at, Head(long))].abs THEN <<>> ELSE at,
                     tr[Append(at, Head(long))].to \o Tail(long), hops + 1, "on")
      BY <1>2, <1>3, <2>3, <3>1, StepIs
    <3> HIDE DEF along, child
    <3>3. QED
      BY <3>1, <3>2
  <2>5. to \in Paths
    BY <1>7, TreeIs
  <2>6. to \o rest \in Paths /\ (to \o rest) \o b = to \o (rest \o b)
    <3> HIDE DEF to, rest
    <3>1. to \o rest \in Paths
      BY <1>3, <2>5, PathConcat
    <3>2. (to \o rest) \o b = to \o (rest \o b)
      BY <1>3, <2>5, PathAssoc
    <3>3. QED
      BY <3>1, <3>2
  <2> HIDE DEF next, along, from, to
  <2>7. next = At(from, to \o rest, hops + 1, "on") /\ along = At(from, (to \o rest) \o b, hops + 1, "on")
    BY <1>3, <2>3, <2>4, <2>6
  <2>8. QED
    BY <2>6, <2>7 DEF next, along, long
<1>8. QED
  BY <1>4, <1>5, <1>6, <1>7

\* As long as the walk along a goes on, the walk along a and b goes with it.
LEMMA Frame ==
    ASSUME NEW tr, IsTree(tr), NEW a \in Paths, NEW b \in Paths
    PROVE  \A k \in 0 .. Fuel :
             Way(tr, a)[k].end = "on" =>
               Way(tr, a \o b)[k] = At(Way(tr, a)[k].at, Way(tr, a)[k].todo \o b, Way(tr, a)[k].hops, "on")
<1> DEFINE f == Way(tr, a)
           g == Way(tr, a \o b)
           Good == {k \in Nat : f[k].end = "on" => g[k] = At(f[k].at, f[k].todo \o b, f[k].hops, "on")}
<1>1. /\ f[0] = At(<<>>, a, 0, "on") /\ g[0] = At(<<>>, a \o b, 0, "on")
      /\ \A i \in 1 .. Fuel : f[i] = WalkStep(tr, f[i - 1]) /\ g[i] = WalkStep(tr, g[i - 1])
      /\ \A i \in 0 .. Fuel : IsAt(tr, f[i], i)
  BY WayIs, WayType
<1> HIDE DEF f, g
<1>2. 0 \in Good
  <2>1. f[0].at = <<>> /\ f[0].todo = a /\ f[0].hops = 0
    BY <1>1, AtFields
  <2>2. QED
    BY <1>1, <2>1
<1>3. \A k \in 1 .. Fuel : k - 1 \in Good => k \in Good
  <2>1. TAKE k \in 1 .. Fuel
  <2>2. HAVE k - 1 \in Good
  <2> DEFINE s == f[k - 1]
  <2>3. k - 1 \in 0 .. Fuel
    BY FuelIs
  <2>4. IsAt(tr, s, k - 1) /\ f[k] = WalkStep(tr, s) /\ g[k] = WalkStep(tr, g[k - 1])
    BY <1>1, <2>3
  <2>5. s.end = "on" => g[k - 1] = At(s.at, s.todo \o b, s.hops, "on")
    BY <2>2
  <2> HIDE DEF s
  <2>6. SUFFICES ASSUME f[k].end = "on"
                 PROVE  g[k] = At(f[k].at, f[k].todo \o b, f[k].hops, "on")
    OBVIOUS
  <2>7. s.end = "on"
    BY <2>4, <2>6, StepEnded
  <2>8. s = At(s.at, s.todo, s.hops, "on") /\ s.at \in Paths /\ s.todo \in Paths
    BY <2>4, <2>7 DEF IsAt, Placed
  <2>9. WalkStep(tr, At(s.at, s.todo, s.hops, "on")).end = "on"
    BY <2>4, <2>6, <2>8
  <2>10. PICK at2, todo2, hops2 :
             /\ WalkStep(tr, At(s.at, s.todo, s.hops, "on")) = At(at2, todo2, hops2, "on")
             /\ WalkStep(tr, At(s.at, s.todo \o b, s.hops, "on")) = At(at2, todo2 \o b, hops2, "on")
    BY <2>8, <2>9, FrameStep
  <2>11. f[k] = At(at2, todo2, hops2, "on") /\ g[k] = At(at2, todo2 \o b, hops2, "on")
    BY <2>4, <2>5, <2>7, <2>8, <2>10
  <2>12. f[k].at = at2 /\ f[k].todo = todo2 /\ f[k].hops = hops2
    BY <2>11, AtFields
  <2>13. QED
    BY <2>11, <2>12
<1> HIDE DEF Good
<1>4. \A k \in 0 .. Fuel : k \in Good
  BY <1>2, <1>3, FuelIs, Steps
<1>5. QED
  BY <1>4 DEF Good, f, g

\* A walk that finds something stands there with nothing left to walk, and a
\* longer path passes the same place.
LEMMA Reaches ==
    ASSUME NEW tr, IsTree(tr), NEW a \in Paths, Walk(tr, a).end = "found"
    PROVE  \E k \in 0 .. Fuel - 1, h \in 0 .. MaxHops :
             /\ Len(Walk(tr, a).at) <= k
             /\ \A b \in Paths : Way(tr, a \o b)[k] = At(Walk(tr, a).at, b, h, "on")
<1>1. PICK m \in 1 .. Fuel : Way(tr, a)[m - 1].end = "on" /\ Way(tr, a)[m] = Walk(tr, a)
  BY EndOf
<1> DEFINE s == Way(tr, a)[m - 1]
           w == Walk(tr, a)
<1>2. m - 1 \in 0 .. Fuel - 1 /\ m - 1 \in 0 .. Fuel
  BY FuelIs
<1>3. IsAt(tr, s, m - 1) /\ s.end = "on" /\ w = WalkStep(tr, s) /\ w.end = "found"
  BY <1>1, <1>2, WayType, WayIs
<1>4. \A b \in Paths : Way(tr, a \o b)[m - 1] = At(s.at, s.todo \o b, s.hops, "on")
  BY <1>1, <1>2, Frame
<1> HIDE DEF s, w
<1>5. /\ s = At(s.at, s.todo, s.hops, "on") /\ s.at \in Paths /\ s.todo \in Paths
      /\ s.hops \in 0 .. MaxHops /\ Len(s.at) <= m - 1
  BY <1>3 DEF IsAt, Placed
<1> DEFINE name  == Head(s.todo)
           child == Append(s.at, name)
<1>6. w = WalkStep(tr, At(s.at, s.todo, s.hops, "on"))
  BY <1>3, <1>5
<1>7. s.todo = <<>>
  <2>1. SUFFICES ASSUME s.todo # <<>> PROVE w.end # "found"
    BY <1>3
  <2>2. CASE tr[s.at].t # "dir"
    <3>1. w = At(s.at, s.todo, s.hops, "NotADirectory")
      BY <1>6, <2>1, <2>2, StepIs
    <3>2. QED
      BY <3>1, AtFields
  <2>3. CASE tr[s.at].t = "dir" /\ name = ".."
    <3>1. w = At(IF s.at = <<>> THEN s.at ELSE Front(s.at), Tail(s.todo), s.hops, "on")
      BY <1>6, <2>1, <2>3, StepIs
    <3>2. w.end = "on"
      BY <3>1, AtFields
    <3>3. QED
      BY <3>2
  <2>4. CASE tr[s.at].t = "dir" /\ name # ".." /\ child \notin DOMAIN tr
    <3>1. w = At(child, s.todo, s.hops, IF Tail(s.todo) = <<>> THEN "missing" ELSE "NotFound")
      BY <1>6, <2>1, <2>4, StepIs
    <3>2. w.end = IF Tail(s.todo) = <<>> THEN "missing" ELSE "NotFound"
      BY <3>1, AtFields
    <3>3. QED
      BY <3>2
  <2>5. CASE tr[s.at].t = "dir" /\ name # ".." /\ child \in DOMAIN tr /\ tr[child].t # "link"
    <3>1. w = At(child, Tail(s.todo), s.hops, "on")
      BY <1>6, <2>1, <2>5, StepIs
    <3>2. QED
      BY <3>1, AtFields
  <2>6. CASE tr[s.at].t = "dir" /\ name # ".." /\ child \in DOMAIN tr /\ tr[child].t = "link"
    <3>1. w = IF s.hops = MaxHops THEN At(s.at, s.todo, s.hops, "loop")
              ELSE At(IF tr[child].abs THEN <<>> ELSE s.at, tr[child].to \o Tail(s.todo), s.hops + 1, "on")
      BY <1>6, <2>1, <2>6, StepIs
    <3>2. w.end \in {"loop", "on"}
      <4>1. CASE s.hops = MaxHops
        BY <3>1, <4>1, AtFields
      <4>2. CASE s.hops # MaxHops
        <5>1. w = At(IF tr[child].abs THEN <<>> ELSE s.at, tr[child].to \o Tail(s.todo), s.hops + 1, "on")
          BY <3>1, <4>2
        <5>2. w.end = "on"
          BY <5>1, AtFields
        <5>3. QED
          BY <5>2
      <4>3. QED
        BY <4>1, <4>2
    <3>3. QED
      BY <3>2
  <2>7. QED
    BY <2>2, <2>3, <2>4, <2>5, <2>6
<1>8. w.at = s.at
  <2>1. w = At(s.at, s.todo, s.hops, "found")
    BY <1>6, <1>7, StepIs
  <2>2. QED
    BY <2>1, AtFields
<1>9. \A b \in Paths : Way(tr, a \o b)[m - 1] = At(w.at, b, s.hops, "on")
  <2>1. TAKE b \in Paths
  <2>2. <<>> \o b = b
    BY PathConcat
  <2>3. QED
    BY <1>4, <1>7, <1>8, <2>2
<1>10. QED
  BY <1>2, <1>5, <1>8, <1>9 DEF w

\* The walk along a path without links takes one component in a step.
LEMMA CanonWay ==
    ASSUME NEW tr, IsTree(tr), NEW c \in Paths, Canon(tr, c), Len(c) <= Fuel, NEW b \in Paths
    PROVE  Way(tr, c \o b)[Len(c)] = At(c, b, 0, "on")
<1> DEFINE f == Way(tr, c \o b)
           On(k) == \E d, q \in Paths : c = d \o q /\ Len(d) = k /\ f[k] = At(d, q \o b, 0, "on")
           Good == {k \in Nat : On(k)}
<1>1. /\ f[0] = At(<<>>, c \o b, 0, "on")
      /\ \A i \in 1 .. Fuel : f[i] = WalkStep(tr, f[i - 1])
  BY WayIs
<1> HIDE DEF f
<1>2. Len(c) \in Nat /\ Fuel \in Nat
  BY PathLen, FuelIs
<1>3. 0 \in Good
  <2>1. <<>> \in Paths /\ Len(<<>>) = 0 /\ <<>> \o c = c
    BY PathOne, PathConcat
  <2>2. On(0)
    BY <1>1, <2>1
  <2>3. QED
    BY <2>2
<1>4. \A k \in 1 .. Len(c) : k - 1 \in Good => k \in Good
  <2>1. TAKE k \in 1 .. Len(c)
  <2>2. HAVE k - 1 \in Good
  <2>3. PICK d, q \in Paths : c = d \o q /\ Len(d) = k - 1 /\ f[k - 1] = At(d, q \o b, 0, "on")
    BY <2>2
  <2>4. q # <<>>
    <3>1. Len(c) = Len(d) + Len(q) /\ Len(q) \in Nat
      BY <2>3, PathConcat, PathLen
    <3>2. Len(q) # 0
      BY <1>2, <2>3, <3>1
    <3>3. QED
      BY <3>2, PathLen
  <2> DEFINE x == Head(q)
             e == Append(d, x)
  <2>5. /\ x \in Names /\ Tail(q) \in Paths /\ q = <<x>> \o Tail(q)
        /\ q \o b # <<>> /\ Head(q \o b) = x /\ Tail(q \o b) = Tail(q) \o b
    BY <2>4, PathHead
  <2>6. /\ e \in Paths /\ e = d \o <<x>> /\ Len(e) = k /\ e # <<>> /\ Front(e) = d /\ Last(e) = x
    <3>1. Len(d) + 1 = k
      BY <1>2, <2>3
    <3>2. QED
      BY <2>5, <3>1, PathAppend, FrontOf
  <2>7. c = e \o Tail(q)
    <3>1. <<x>> \in Paths
      BY <2>5, PathOne
    <3>2. (d \o <<x>>) \o Tail(q) = d \o (<<x>> \o Tail(q))
      <4> DEFINE unit  == <<x>>
                 rest == Tail(q)
      <4>1. unit \in Paths /\ rest \in Paths
        BY <2>5, <3>1
      <4> HIDE DEF unit, rest
      <4>2. (d \o unit) \o rest = d \o (unit \o rest)
        BY <4>1, PathAssoc
      <4>3. QED
        BY <4>2 DEF unit, rest
    <3>3. QED
      BY <2>3, <2>5, <2>6, <3>2
  <2>8. e \in DOMAIN tr /\ tr[e].t # "link" /\ x # ".."
    <3>1. IsPrefix(e, c)
      BY <2>5, <2>6, <2>7, PrefixLaws
    <3>2. QED
      BY <2>6, <3>1 DEF Canon
  <2>9. tr[d].t = "dir"
    BY <2>6, <2>8, TreeIs
  <2>10. f[k] = At(e, Tail(q) \o b, 0, "on")
    <3>1. f[k] = WalkStep(tr, At(d, q \o b, 0, "on"))
      BY <1>1, <1>2, <2>3
    <3>2. WalkStep(tr, At(d, q \o b, 0, "on")) = At(e, Tail(q) \o b, 0, "on")
      <4> DEFINE todo == q \o b
      <4>1. todo # <<>> /\ Head(todo) = x /\ Tail(todo) = Tail(q) \o b
        BY <2>5
      <4> HIDE DEF todo, x
      <4>2. WalkStep(tr, At(d, todo, 0, "on")) = At(Append(d, Head(todo)), Tail(todo), 0, "on")
        BY <2>8, <2>9, <4>1, StepIs
      <4>3. QED
        BY <4>1, <4>2 DEF todo
    <3>3. QED
      BY <3>1, <3>2
  <2>11. On(k)
    BY <2>5, <2>6, <2>7, <2>10
  <2> HIDE DEF On
  <2>12. QED
    BY <2>11
<1> HIDE DEF Good
<1>5. \A k \in 0 .. Len(c) : k \in Good
  BY <1>2, <1>3, <1>4, Steps
<1>6. Len(c) \in Good
  BY <1>2, <1>5
<1>7. PICK d, q \in Paths : c = d \o q /\ Len(d) = Len(c) /\ f[Len(c)] = At(d, q \o b, 0, "on")
  BY <1>6 DEF Good
<1>8. q = <<>> /\ d = c
  <2>1. Len(c) = Len(d) + Len(q) /\ Len(q) \in Nat
    BY <1>7, PathConcat, PathLen
  <2>2. Len(q) = 0
    BY <1>2, <1>7, <2>1
  <2>3. q = <<>>
    BY <2>2, PathLen
  <2>4. QED
    BY <1>7, <2>3, PathConcat
<1>9. q \o b = b
  BY <1>8, PathConcat
<1>10. QED
  BY <1>7, <1>8, <1>9 DEF f

\* With fewer links behind it, a step does the same.
LEMMA SameStep ==
    ASSUME NEW tr, NEW at, NEW todo, NEW h1 \in 0 .. MaxHops, NEW h2 \in 0 .. h1,
           WalkStep(tr, At(at, todo, h1, "on")).end # "loop"
    PROVE  \E at2, todo2, end2 : \E k1 \in 0 .. MaxHops : \E k2 \in 0 .. k1 :
             /\ WalkStep(tr, At(at, todo, h1, "on")) = At(at2, todo2, k1, end2)
             /\ WalkStep(tr, At(at, todo, h2, "on")) = At(at2, todo2, k2, end2)
<1> DEFINE one   == WalkStep(tr, At(at, todo, h1, "on"))
           two   == WalkStep(tr, At(at, todo, h2, "on"))
           name  == Head(todo)
           child == Append(at, name)
           rest  == Tail(todo)
           Both(at2, todo2, end2) == \E k1 \in 0 .. MaxHops : \E k2 \in 0 .. k1 :
                                       one = At(at2, todo2, k1, end2) /\ two = At(at2, todo2, k2, end2)
<1>1. MaxHops \in Nat /\ one.end # "loop"
  BY SandboxAssumption
<1>2. SUFFICES \E at2, todo2, end2 : Both(at2, todo2, end2)
  OBVIOUS
<1>3. CASE todo = <<>>
  <2>1. one = At(at, todo, h1, "found") /\ two = At(at, todo, h2, "found")
    BY <1>3, StepIs
  <2> HIDE DEF one, two
  <2>2. Both(at, todo, "found")
    BY <2>1
  <2>3. QED
    BY <2>2
<1>4. CASE todo # <<>> /\ tr[at].t # "dir"
  <2>1. one = At(at, todo, h1, "NotADirectory") /\ two = At(at, todo, h2, "NotADirectory")
    BY <1>4, StepIs
  <2> HIDE DEF one, two
  <2>2. Both(at, todo, "NotADirectory")
    BY <2>1
  <2>3. QED
    BY <2>2
<1>5. CASE todo # <<>> /\ tr[at].t = "dir" /\ name = ".."
  <2> DEFINE up == IF at = <<>> THEN at ELSE Front(at)
  <2>1. one = At(up, rest, h1, "on") /\ two = At(up, rest, h2, "on")
    BY <1>5, StepIs
  <2> HIDE DEF one, two, up, rest
  <2>2. Both(up, rest, "on")
    BY <2>1
  <2>3. QED
    BY <2>2
<1>6. CASE todo # <<>> /\ tr[at].t = "dir" /\ name # ".." /\ child \notin DOMAIN tr
  <2> DEFINE end == IF rest = <<>> THEN "missing" ELSE "NotFound"
  <2>1. one = At(child, todo, h1, end) /\ two = At(child, todo, h2, end)
    BY <1>6, StepIs
  <2> HIDE DEF one, two, child, end
  <2>2. Both(child, todo, end)
    BY <2>1
  <2>3. QED
    BY <2>2
<1>7. CASE todo # <<>> /\ tr[at].t = "dir" /\ name # ".." /\ child \in DOMAIN tr /\ tr[child].t # "link"
  <2>1. one = At(child, rest, h1, "on") /\ two = At(child, rest, h2, "on")
    BY <1>7, StepIs
  <2> HIDE DEF one, two, child, rest
  <2>2. Both(child, rest, "on")
    BY <2>1
  <2>3. QED
    BY <2>2
<1>8. CASE todo # <<>> /\ tr[at].t = "dir" /\ name # ".." /\ child \in DOMAIN tr /\ tr[child].t = "link"
  <2> DEFINE from == IF tr[child].abs THEN <<>> ELSE at
             more == tr[child].to \o rest
  <2>1. one = IF h1 = MaxHops THEN At(at, todo, h1, "loop") ELSE At(from, more, h1 + 1, "on")
    BY <1>8, StepIs
  <2>2. two = IF h2 = MaxHops THEN At(at, todo, h2, "loop") ELSE At(from, more, h2 + 1, "on")
    BY <1>8, StepIs
  <2>3. At(at, todo, h1, "loop").end = "loop"
    BY AtFields
  <2> HIDE DEF one, two, from, more
  <2>4. h1 # MaxHops
    BY <1>1, <2>1, <2>3
  <2>5. h2 # MaxHops /\ h1 + 1 \in 0 .. MaxHops /\ h2 + 1 \in 0 .. h1 + 1
    BY <1>1, <2>4
  <2>6. Both(from, more, "on")
    BY <2>1, <2>2, <2>4, <2>5
  <2>7. QED
    BY <2>6
<1>9. QED
  BY <1>3, <1>4, <1>5, <1>6, <1>7, <1>8

\* Two walks that pass the same place with the same left to walk end alike,
\* if the second comes there no later and over no more links.
LEMMA SameFrom ==
    ASSUME NEW tr, NEW x, NEW y, NEW at, NEW todo, NEW h1 \in 0 .. MaxHops, NEW h2 \in 0 .. h1,
           NEW k \in 0 .. Fuel, NEW j \in 0 .. k,
           Way(tr, x)[k] = At(at, todo, h1, "on"), Way(tr, y)[j] = At(at, todo, h2, "on"),
           Walk(tr, x).end \notin {"on", "loop"}
    PROVE  Walk(tr, y).at = Walk(tr, x).at /\ Walk(tr, y).end = Walk(tr, x).end
<1> DEFINE f == Way(tr, x)
           g == Way(tr, y)
           Alike(m) == \E at2, todo2, end2 : \E k1 \in 0 .. MaxHops : \E k2 \in 0 .. k1 :
                         f[k + m] = At(at2, todo2, k1, end2) /\ g[j + m] = At(at2, todo2, k2, end2)
           Good == {m \in Nat : Alike(m)}
<1>1. /\ \A i \in 1 .. Fuel : f[i] = WalkStep(tr, f[i - 1]) /\ g[i] = WalkStep(tr, g[i - 1])
      /\ \A i \in 0 .. Fuel : f[i].end # "on" => Walk(tr, x) = f[i]
      /\ \A i \in 0 .. Fuel : g[i].end # "on" => Walk(tr, y) = g[i]
      /\ Walk(tr, x) = f[Fuel] /\ f[k] = At(at, todo, h1, "on") /\ g[j] = At(at, todo, h2, "on")
  BY WayIs, EndsAt
<1> HIDE DEF f, g
<1>2. Fuel \in Nat /\ MaxHops \in Nat
  BY FuelIs, SandboxAssumption
<1>3. 0 \in Good
  <2>1. k + 0 = k /\ j + 0 = j
    BY <1>2
  <2>2. Alike(0)
    BY <1>1, <2>1
  <2>3. QED
    BY <2>2
<1>4. \A m \in 1 .. Fuel - k : m - 1 \in Good => m \in Good
  <2>1. TAKE m \in 1 .. Fuel - k
  <2>2. HAVE m - 1 \in Good
  <2>3. PICK at2, todo2, end2 : \E k1 \in 0 .. MaxHops : \E k2 \in 0 .. k1 :
             f[k + (m - 1)] = At(at2, todo2, k1, end2) /\ g[j + (m - 1)] = At(at2, todo2, k2, end2)
    BY <2>2
  <2>4. PICK k1 \in 0 .. MaxHops : \E k2 \in 0 .. k1 :
             f[k + (m - 1)] = At(at2, todo2, k1, end2) /\ g[j + (m - 1)] = At(at2, todo2, k2, end2)
    BY <2>3
  <2>5. PICK k2 \in 0 .. k1 :
             f[k + (m - 1)] = At(at2, todo2, k1, end2) /\ g[j + (m - 1)] = At(at2, todo2, k2, end2)
    BY <2>4
  <2>6. /\ k + m \in 1 .. Fuel /\ j + m \in 1 .. Fuel
        /\ k + m - 1 = k + (m - 1) /\ j + m - 1 = j + (m - 1)
    BY <1>2
  <2>7. /\ f[k + m] = WalkStep(tr, At(at2, todo2, k1, end2))
        /\ g[j + m] = WalkStep(tr, At(at2, todo2, k2, end2))
    BY <1>1, <2>5, <2>6
  <2>8. CASE end2 = "on"
    <3>1. f[k + m].end # "loop"
      <4>1. k + m \in 0 .. Fuel
        BY <2>6
      <4>2. f[k + m].end # "on" => Walk(tr, x) = f[k + m]
        BY <1>1, <4>1
      <4>3. QED
        BY <4>2
    <3>2. WalkStep(tr, At(at2, todo2, k1, "on")).end # "loop"
      BY <2>7, <2>8, <3>1
    <3>3. \E at3, todo3, end3 : \E l1 \in 0 .. MaxHops : \E l2 \in 0 .. l1 :
             /\ WalkStep(tr, At(at2, todo2, k1, "on")) = At(at3, todo3, l1, end3)
             /\ WalkStep(tr, At(at2, todo2, k2, "on")) = At(at3, todo3, l2, end3)
      BY <3>2, SameStep
    <3>4. Alike(m)
      BY <2>7, <2>8, <3>3
    <3>5. QED
      BY <3>4
  <2>9. CASE end2 # "on"
    <3>1. At(at2, todo2, k1, end2).end # "on" /\ At(at2, todo2, k2, end2).end # "on"
      BY <2>9, AtFields
    <3>2. f[k + m] = At(at2, todo2, k1, end2) /\ g[j + m] = At(at2, todo2, k2, end2)
      BY <2>7, <3>1, StepEnded
    <3>3. Alike(m)
      BY <3>2
    <3>4. QED
      BY <3>3
  <2>10. QED
    BY <2>8, <2>9
<1> HIDE DEF Good
<1>5. Fuel - k \in Nat
  BY <1>2
<1>6. Fuel - k \in Good
  <2>1. \A m \in 0 .. Fuel - k : m \in Good
    BY <1>3, <1>4, <1>5, Steps
  <2>2. QED
    BY <1>5, <2>1
<1>7. PICK at2, todo2, end2, k1, k2 :
         f[k + (Fuel - k)] = At(at2, todo2, k1, end2) /\ g[j + (Fuel - k)] = At(at2, todo2, k2, end2)
  BY <1>6 DEF Good
<1>8. k + (Fuel - k) = Fuel /\ j + (Fuel - k) \in 0 .. Fuel
  BY <1>2
<1>9. Walk(tr, x) = At(at2, todo2, k1, end2)
  BY <1>1, <1>7, <1>8
<1>10. Walk(tr, x).at = at2 /\ Walk(tr, x).end = end2
  BY <1>9, AtFields
<1>11. end2 # "on" /\ g[j + (Fuel - k)].at = at2 /\ g[j + (Fuel - k)].end = end2
  BY <1>7, <1>10, AtFields
<1>12. Walk(tr, y) = g[j + (Fuel - k)]
  BY <1>1, <1>8, <1>11
<1>13. QED
  BY <1>10, <1>11, <1>12

\* A walk that stands somewhere with nothing left finds it, and one before a
\* name that is not there misses it.
LEMMA Settles ==
    ASSUME NEW tr, NEW x, NEW k \in 0 .. Fuel - 1, NEW c, NEW b, NEW h, Way(tr, x)[k] = At(c, b, h, "on")
    PROVE  /\ b = <<>> => Walk(tr, x).at = c /\ Walk(tr, x).end = "found"
           /\ b # <<>> /\ tr[c].t # "dir" => Walk(tr, x).end = "NotADirectory"
           /\ b # <<>> /\ tr[c].t = "dir" /\ Head(b) # ".." /\ Append(c, Head(b)) \notin DOMAIN tr =>
                /\ Walk(tr, x).at = Append(c, Head(b))
                /\ Walk(tr, x).end = IF Tail(b) = <<>> THEN "missing" ELSE "NotFound"
<1>1. k + 1 \in 1 .. Fuel /\ k + 1 \in 0 .. Fuel /\ k + 1 - 1 = k
  BY FuelIs
<1> DEFINE s == Way(tr, x)[k + 1]
<1>2. s = WalkStep(tr, At(c, b, h, "on"))
  BY <1>1, WayIs
<1>3. s.end # "on" => Walk(tr, x) = s
  BY <1>1, EndsAt
<1> HIDE DEF s
<1>4. CASE b = <<>>
  <2>1. s = At(c, b, h, "found")
    BY <1>2, <1>4, StepIs
  <2>2. s.at = c /\ s.end = "found"
    BY <2>1, AtFields
  <2>3. QED
    BY <1>3, <1>4, <2>2
<1>5. CASE b # <<>> /\ tr[c].t # "dir"
  <2>1. s = At(c, b, h, "NotADirectory")
    BY <1>2, <1>5, StepIs
  <2>2. s.end = "NotADirectory"
    BY <2>1, AtFields
  <2>3. QED
    BY <1>3, <1>5, <2>2
<1>6. CASE b # <<>> /\ tr[c].t = "dir" /\ Head(b) # ".." /\ Append(c, Head(b)) \notin DOMAIN tr
  <2> DEFINE end == IF Tail(b) = <<>> THEN "missing" ELSE "NotFound"
  <2>1. s = At(Append(c, Head(b)), b, h, end)
    BY <1>2, <1>6, StepIs
  <2>2. end # "on"
    OBVIOUS
  <2> DEFINE child == Append(c, Head(b))
  <2>3. s = At(child, b, h, end)
    BY <2>1
  <2> HIDE DEF end, child
  <2>4. s.at = child /\ s.end = end
    BY <2>3, AtFields
  <2>5. Walk(tr, x) = s
    BY <1>3, <2>2, <2>4
  <2>6. QED
    BY <1>6, <2>4, <2>5 DEF end, child
<1>7. QED
  BY <1>4, <1>5, <1>6

-----------------------------------------------------------------------------
(* The resolution of links *)

\* The turns of resolve_symlinks.
Turns(tr, path) ==
  CHOOSE f : IsRun(Resolution(tr), f, [probe |-> path, rest |-> <<>>, hops |-> 0, out |-> "on", path |-> <<>>],
                   Fuel)

\* The resolution is the last of its turns.
LEMMA TurnsAre ==
    ASSUME NEW tr, NEW path
    PROVE  /\ Turns(tr, path)[0] = [probe |-> path, rest |-> <<>>, hops |-> 0, out |-> "on", path |-> <<>>]
           /\ \A i \in 1 .. Fuel : Turns(tr, path)[i] = resolve_step(tr, Turns(tr, path)[i - 1])
           /\ resolve_symlinks(tr, path) = Turns(tr, path)[Fuel]
<1> DEFINE s    == [probe |-> path, rest |-> <<>>, hops |-> 0, out |-> "on", path |-> <<>>]
           R(f) == f = [n \in 0 .. Fuel |-> IF n = 0 THEN s ELSE resolve_step(tr, f[n - 1])]
<1>1. \A x, i : Step(Resolution(tr), x, i) = resolve_step(tr, x)
  BY DEF Step, Resolution
<1>2. \A f : IsRun(Resolution(tr), f, s, Fuel) <=> R(f)
  BY <1>1 DEF IsRun
<1>3. \E f : IsRun(Resolution(tr), f, s, Fuel)
  BY FuelIs, RunExists
<1>4. IsRun(Resolution(tr), Turns(tr, path), s, Fuel)
  <2> HIDE DEF s
  <2>1. Turns(tr, path) = CHOOSE f : IsRun(Resolution(tr), f, s, Fuel)
    BY DEF Turns, s
  <2>2. QED
    BY <1>3, <2>1
<1>5. (CHOOSE f : R(f)) = Turns(tr, path)
  <2>1. R(Turns(tr, path))
    BY <1>2, <1>4
  <2>2. ASSUME NEW f, R(f) PROVE IsRun(Resolution(tr), f, s, Fuel)
    BY <1>2, <2>2
  <2>3. QED
    BY <1>2 DEF Turns
<1>6. resolve_symlinks(tr, path) = (CHOOSE f : R(f))[Fuel]
  BY DEF resolve_symlinks, Repeat
<1> DEFINE f == Turns(tr, path)
<1>7. R(f)
  BY <1>2, <1>4
<1> HIDE DEF f, s
<1>8. \A i \in 0 .. Fuel : f[i] = IF i = 0 THEN s ELSE resolve_step(tr, f[i - 1])
  BY <1>7
<1>9. 0 \in 0 .. Fuel /\ \A i \in 1 .. Fuel : i \in 0 .. Fuel /\ i # 0
  BY FuelIs
<1>10. f[0] = s /\ \A i \in 1 .. Fuel : f[i] = resolve_step(tr, f[i - 1])
  BY <1>8, <1>9
<1>11. QED
  BY <1>5, <1>6, <1>10 DEF f, s

\* One turn: the probe exists, or is a dangling link that is followed, or
\* gives its last component to the rest.
LEMMA TurnIs ==
    ASSUME NEW tr, NEW s, s.out = "on", DOMAIN s = {"probe", "rest", "hops", "out", "path"}
    PROVE  LET next == resolve_step(tr, s)
               w    == Walk(tr, s.probe)
               l    == LinkAt(tr, s.probe)
           IN  /\ DOMAIN next = {"probe", "rest", "hops", "out", "path"}
               /\ next.out = "ok" =>
                    w.end = "found" /\ next.path = w.at \o s.rest
               /\ next.out = "on" =>
                    /\ w.end \in {"missing", "NotFound"}
                    /\ \/ /\ IsLink(tr, s.probe)
                          /\ next.rest = <<>>
                          /\ next.probe = (IF l.abs THEN l.to ELSE Front(s.probe) \o l.to) \o s.rest
                       \/ /\ ~ IsLink(tr, s.probe)
                          /\ s.probe # <<>> /\ Last(s.probe) # ".."
                          /\ next.rest = <<Last(s.probe)>> \o s.rest /\ next.probe = Front(s.probe)
<1> DEFINE next == resolve_step(tr, s)
           w    == Walk(tr, s.probe)
           l    == LinkAt(tr, s.probe)
           c    == canonicalize(tr, s.probe)
<1>1. c.path = w.at /\ (c.kind = "found" <=> w.end = "found")
      /\ (c.kind = "NotFound" <=> w.end \in {"missing", "NotFound"})
  BY DEF canonicalize
<1> HIDE DEF c, w, l
<1>2. CASE c.kind = "found"
  <2>1. next = [s EXCEPT !.out = IF normalize_has_dotdot(s.rest) THEN "Io" ELSE "ok",
                         !.path = c.path \o s.rest]
    BY <1>2 DEF resolve_step, c
  <2> HIDE DEF next
  <2>2. DOMAIN next = DOMAIN s /\ next.out \in {"Io", "ok"} /\ next.path = c.path \o s.rest
    BY <2>1
  <2>3. QED
    BY <1>1, <1>2, <2>2 DEF next, w
<1>3. CASE c.kind = "NotFound" /\ IsLink(tr, s.probe)
  <2> DEFINE to == (IF l.abs THEN l.to ELSE Front(s.probe) \o l.to) \o s.rest
  <2>1. next = IF s.hops = MaxHops THEN [s EXCEPT !.out = "Io"]
               ELSE [s EXCEPT !.hops = s.hops + 1, !.rest = <<>>, !.probe = to]
    <3>1. next = IF s.hops = MaxHops THEN [s EXCEPT !.out = "Io"]
                 ELSE [s EXCEPT !.hops = @ + 1, !.rest = <<>>,
                                !.probe = (IF l.abs THEN l.to ELSE Front(@) \o l.to) \o s.rest]
      BY <1>3 DEF resolve_step, c, l
    <3>2. QED
      BY <3>1
  <2> HIDE DEF next, to
  <2>2. DOMAIN next = DOMAIN s /\ (next.out = "Io" \/ (next.rest = <<>> /\ next.probe = to))
        /\ next.out \in {"Io", "on"}
    BY <2>1
  <2>3. QED
    BY <1>1, <1>3, <2>2 DEF next, to, w, l
<1>4. CASE c.kind = "NotFound" /\ ~ IsLink(tr, s.probe)
  <2> DEFINE more == <<Last(s.probe)>> \o s.rest
             less == Front(s.probe)
  <2>1. next = IF s.probe = <<>> \/ Last(s.probe) = ".." THEN [s EXCEPT !.out = "NotFound"]
               ELSE [s EXCEPT !.rest = more, !.probe = less]
    <3>1. next = IF s.probe = <<>> \/ Last(s.probe) = ".." THEN [s EXCEPT !.out = "NotFound"]
                 ELSE [s EXCEPT !.rest = <<Last(s.probe)>> \o @, !.probe = Front(@)]
      BY <1>4 DEF resolve_step, c
    <3>2. QED
      BY <3>1
  <2> HIDE DEF next, more, less
  <2>2. DOMAIN next = DOMAIN s /\ next.out \in {"NotFound", "on"}
        /\ (next.out = "on" => s.probe # <<>> /\ Last(s.probe) # ".." /\ next.rest = more /\ next.probe = less)
    BY <2>1
  <2>3. QED
    BY <1>1, <1>4, <2>2 DEF next, more, less, w
<1>5. CASE c.kind \notin {"found", "NotFound"}
  <2>1. next = [s EXCEPT !.out = "Io"]
    BY <1>5 DEF resolve_step, c
  <2> HIDE DEF next
  <2>2. DOMAIN next = DOMAIN s /\ next.out = "Io"
    BY <2>1
  <2>3. QED
    BY <2>2 DEF next
<1>6. QED
  BY <1>2, <1>3, <1>4, <1>5

\* The name x below a path is not there: the walk misses it, and it is no link.
Gone(tr, a, x) == /\ x # ".."
                  /\ Walk(tr, a \o <<x>>).end \in {"missing", "NotFound"}
                  /\ ~ IsLink(tr, a \o <<x>>)

\* What a name that is not there says of the directory that the path leads to.
LEMMA GoneIs ==
    ASSUME NEW tr, IsTree(tr), NEW a \in Paths, NEW x \in Names, Gone(tr, a, x), Walk(tr, a).end = "found"
    PROVE  tr[Walk(tr, a).at].t = "dir" /\ Append(Walk(tr, a).at, x) \notin DOMAIN tr
<1> DEFINE c     == Walk(tr, a).at
           p     == a \o <<x>>
           unit   == <<x>>
           child == Append(c, x)
<1>1. unit \in Paths /\ unit # <<>> /\ Head(unit) = x /\ Tail(unit) = <<>>
  BY OneThen
<1>2. p = a \o unit /\ p = Append(a, x) /\ p # <<>> /\ Front(p) = a /\ Last(p) = x
  BY OneThen
<1>3. PICK k \in 0 .. Fuel - 1, h \in 0 .. MaxHops : \A b \in Paths : Way(tr, a \o b)[k] = At(c, b, h, "on")
  BY Reaches
<1>4. Way(tr, p)[k] = At(c, unit, h, "on")
  BY <1>1, <1>2, <1>3
<1>5. Walk(tr, p).end \in {"missing", "NotFound"} /\ x # ".." /\ ~ IsLink(tr, p)
  BY DEF Gone
<1>6. ~ (child \in DOMAIN tr /\ tr[child].t = "link")
  BY <1>2, <1>5 DEF IsLink
<1> HIDE DEF unit, p, c
<1>7. tr[c].t = "dir"
  BY <1>1, <1>4, <1>5, Settles
<1>8. child \notin DOMAIN tr
  <2>1. SUFFICES ASSUME child \in DOMAIN tr PROVE Walk(tr, p).end \in {"on", "found"}
    BY <1>5
  <2>2. tr[child].t # "link"
    BY <1>6, <2>1
  <2>3. k + 1 \in 1 .. Fuel /\ k + 1 - 1 = k
    BY FuelIs
  <2>4. Way(tr, p)[k + 1] = WalkStep(tr, At(c, unit, h, "on"))
    BY <1>4, <2>3, WayIs
  <2>5. WalkStep(tr, At(c, unit, h, "on")) = At(child, <<>>, h, "on")
    <3>1. Append(c, Head(unit)) = child /\ Head(unit) # ".."
      BY <1>1, <1>5
    <3> HIDE DEF child
    <3>2. Append(c, Head(unit)) \in DOMAIN tr /\ tr[Append(c, Head(unit))].t # "link"
      BY <2>1, <2>2, <3>1
    <3>3. WalkStep(tr, At(c, unit, h, "on")) = At(Append(c, Head(unit)), Tail(unit), h, "on")
      BY <1>1, <1>7, <3>1, <3>2, StepIs
    <3>4. QED
      BY <1>1, <3>1, <3>3, Zenon
  <2>6. Way(tr, p)[k + 1] = At(child, <<>>, h, "on")
    BY <2>4, <2>5
  <2> HIDE DEF child
  <2>7. CASE k + 1 = Fuel
    <3>1. Walk(tr, p) = At(child, <<>>, h, "on")
      BY <2>6, <2>7, WayIs
    <3>2. QED
      BY <3>1, AtFields
  <2>8. CASE k + 1 # Fuel
    <3>1. k + 1 \in 0 .. Fuel - 1
      BY <2>8, FuelIs
    <3>2. QED
      BY <2>6, <3>1, Settles
  <2>9. QED
    BY <2>7, <2>8
<1>9. QED
  BY <1>7, <1>8 DEF c

\* Where two paths lead is one place.
SameEnd(tr, p, q) == Walk(tr, p).at = Walk(tr, q).at /\ Walk(tr, p).end = Walk(tr, q).end

\* What resolve_symlinks promises of the path it returns: it leads where the
\* path that was asked for leads, and no link and no `..` is on the way.
Resolved(tr, p, t) ==
  /\ t \in Paths /\ SameEnd(tr, t, p) /\ IsPrefix(Walk(tr, t).at, t)
  /\ Walk(tr, t).end \in {"found", "missing"} => Walk(tr, t).at = t

\* The turn that finds the probe.
LEMMA TurnFinds ==
    ASSUME NEW tr, IsTree(tr), NEW a \in Paths, NEW b \in Paths, Walk(tr, a).end = "found",
           b # <<>> => Gone(tr, a, Head(b))
    PROVE  Resolved(tr, a \o b, Walk(tr, a).at \o b)
<1> DEFINE c == Walk(tr, a).at
           t == c \o b
           p == a \o b
<1>1. PICK k \in 0 .. Fuel - 1, h \in 0 .. MaxHops :
         Len(c) <= k /\ \A d \in Paths : Way(tr, a \o d)[k] = At(c, d, h, "on")
  BY Reaches
<1>2. c \in Paths /\ Canon(tr, c)
  <2>1. Fuel \in 0 .. Fuel /\ Walk(tr, a) = Way(tr, a)[Fuel]
    BY FuelIs, WayIs
  <2>2. IsAt(tr, Walk(tr, a), Fuel)
    BY <2>1, WayType
  <2>3. QED
    BY <2>2 DEF IsAt, Placed
<1>3. Way(tr, p)[k] = At(c, b, h, "on")
  BY <1>1
<1>4. Len(c) \in 0 .. Fuel - 1 /\ Len(c) <= Fuel
  BY <1>1, <1>2, FuelIs, PathLen
<1> HIDE DEF c
<1>5. Way(tr, t)[Len(c)] = At(c, b, 0, "on") /\ t \in Paths
  BY <1>2, <1>4, CanonWay, PathConcat
<1> HIDE DEF p
<1>6. CASE b = <<>>
  <2>1. t = c
    BY <1>2, <1>6, PathConcat
  <2> HIDE DEF t
  <2>2. Walk(tr, p).at = c /\ Walk(tr, p).end = "found"
    BY <1>3, <1>6, Settles
  <2>3. Walk(tr, t).at = c /\ Walk(tr, t).end = "found"
    BY <1>4, <1>5, <1>6, Settles
  <2>4. IsPrefix(c, t)
    BY <1>2, <2>1, PrefixLaws
  <2>5. QED
    BY <1>5, <2>1, <2>2, <2>3, <2>4 DEF Resolved, SameEnd, p, t, c
<1>7. CASE b # <<>>
  <2> DEFINE x     == Head(b)
             child == Append(c, x)
             end   == IF Tail(b) = <<>> THEN "missing" ELSE "NotFound"
  <2>1. x \in Names /\ b = <<x>> \o Tail(b) /\ Tail(b) \in Paths
    BY <1>7, PathHead
  <2>2. x # ".." /\ tr[c].t = "dir" /\ child \notin DOMAIN tr
    BY <1>7, <2>1, GoneIs DEF c, Gone
  <2>3. child \in Paths /\ t = child \o Tail(b)
    <3> DEFINE unit == <<x>>
               rest == Tail(b)
    <3>1. unit \in Paths /\ rest \in Paths
      BY <2>1, PathOne
    <3>2. child \in Paths /\ child = c \o unit
      BY <1>2, <2>1, PathAppend
    <3>3. t = c \o (unit \o rest)
      BY <2>1
    <3> HIDE DEF unit, rest, child, t
    <3>4. (c \o unit) \o rest = c \o (unit \o rest)
      BY <1>2, <3>1, PathAssoc
    <3>5. t = child \o rest
      BY <3>2, <3>3, <3>4
    <3>6. QED
      BY <3>2, <3>5 DEF rest
  <2> HIDE DEF t
  <2>4. Walk(tr, p).at = child /\ Walk(tr, p).end = end
    BY <1>3, <1>7, <2>2, Settles
  <2>5. Walk(tr, t).at = child /\ Walk(tr, t).end = end
    BY <1>4, <1>5, <1>7, <2>2, Settles
  <2>6. IsPrefix(child, t)
    <3> HIDE DEF child
    <3>1. QED
      BY <2>1, <2>3, PrefixLaws
  <2>7. end \in {"found", "missing"} => child = t
    <3>1. Tail(b) = <<>> => child = t
      <4> HIDE DEF child
      <4>1. QED
        BY <2>3, PathConcat
    <3>2. QED
      BY <3>1
  <2> HIDE DEF child, end
  <2>8. Resolved(tr, p, t)
    BY <1>5, <2>4, <2>5, <2>6, <2>7 DEF Resolved, SameEnd
  <2>9. QED
    BY <2>8 DEF p, t, c
<1>8. QED
  BY <1>6, <1>7

\* The turn that follows a dangling link: the new path leads where the old
\* one led, over a link less.
LEMMA TurnFollows ==
    ASSUME NEW tr, IsTree(tr), NEW a \in Paths, NEW b \in Paths, IsLink(tr, a),
           Walk(tr, a \o b).end \notin {"on", "loop"}
    PROVE  LET l == LinkAt(tr, a)
               q == (IF l.abs THEN l.to ELSE Front(a) \o l.to) \o b
           IN  q \in Paths /\ SameEnd(tr, q, a \o b)
<1> DEFINE l == LinkAt(tr, a)
           q == (IF l.abs THEN l.to ELSE Front(a) \o l.to) \o b
           p == a \o b
           d == Front(a)
           x == Last(a)
           c == Walk(tr, d).at
           child == Append(c, x)
<1>1. /\ a # <<>> /\ x # ".." /\ Walk(tr, d).end = "found"
      /\ child \in DOMAIN tr /\ tr[child].t = "link" /\ l = tr[child]
  BY DEF IsLink, LinkAt
<1>2. d \in Paths /\ x \in Names /\ a = d \o <<x>>
  BY <1>1, PathFront
<1> HIDE DEF d, x
<1>3. PICK k \in 0 .. Fuel - 1, h \in 0 .. MaxHops : \A e \in Paths : Way(tr, d \o e)[k] = At(c, e, h, "on")
  BY <1>1, <1>2, Reaches
<1>4. c \in Paths /\ l.to \in Paths /\ l.abs \in BOOLEAN
  <2>1. Fuel \in 0 .. Fuel /\ Walk(tr, d) = Way(tr, d)[Fuel]
    BY FuelIs, WayIs
  <2>2. IsAt(tr, Walk(tr, d), Fuel)
    BY <1>2, <2>1, WayType
  <2>3. c \in Paths
    BY <2>2 DEF IsAt, Placed
  <2> HIDE DEF l, child, c
  <2>4. QED
    BY <1>1, <2>3, TreeIs
<1> HIDE DEF l, c
<1>5. tr[c].t = "dir"
  <2>1. child # <<>> /\ Front(child) = c
    BY <1>2, <1>4, PathAppend, FrontOf
  <2> HIDE DEF child
  <2>2. QED
    BY <1>1, <2>1, TreeIs
<1> DEFINE unit  == <<x>>
           todo == unit \o b
<1>6. /\ unit \in Paths /\ p = d \o todo /\ todo \in Paths /\ todo # <<>>
      /\ Head(todo) = x /\ Tail(todo) = b
  <2>1. unit \in Paths /\ todo \in Paths /\ todo # <<>> /\ Head(todo) = x /\ Tail(todo) = b
    BY <1>2, OneThen
  <2>2. p = (d \o unit) \o b
    BY <1>2
  <2>3. (d \o unit) \o b = d \o (unit \o b)
    BY <1>2, OneThen
  <2> HIDE DEF unit
  <2>4. QED
    BY <2>1, <2>2, <2>3
<1> HIDE DEF unit, todo
<1> DEFINE from == IF l.abs THEN <<>> ELSE c
           more == l.to \o b
<1>7. Way(tr, p)[k] = At(c, todo, h, "on")
  BY <1>3, <1>6
<1>8. k + 1 \in 1 .. Fuel /\ k + 1 \in 0 .. Fuel /\ k + 1 - 1 = k /\ k \in 0 .. k + 1 /\ 0 \in 0 .. k + 1
  BY FuelIs
<1>9. Way(tr, p)[k + 1] = WalkStep(tr, At(c, todo, h, "on"))
  BY <1>7, <1>8, WayIs
<1>10. WalkStep(tr, At(c, todo, h, "on"))
         = IF h = MaxHops THEN At(c, todo, h, "loop") ELSE At(from, more, h + 1, "on")
  <2>1. Append(c, Head(todo)) = child /\ Head(todo) # ".."
    BY <1>1, <1>6
  <2> HIDE DEF child
  <2>2. Append(c, Head(todo)) \in DOMAIN tr /\ tr[Append(c, Head(todo))].t = "link"
    BY <1>1, <2>1
  <2>3. WalkStep(tr, At(c, todo, h, "on"))
          = IF h = MaxHops THEN At(c, todo, h, "loop")
            ELSE At(IF tr[Append(c, Head(todo))].abs THEN <<>> ELSE c,
                    tr[Append(c, Head(todo))].to \o Tail(todo), h + 1, "on")
    BY <1>5, <1>6, <2>1, <2>2, StepIs
  <2>4. l = tr[Append(c, Head(todo))] /\ Tail(todo) = b
    BY <1>1, <1>6, <2>1
  <2>5. QED
    BY <2>3, <2>4, Zenon
<1> HIDE DEF child
<1>11. Walk(tr, p).end \notin {"on", "loop"}
  OBVIOUS
<1> HIDE DEF p
<1>12. h # MaxHops
  <2>1. SUFFICES ASSUME h = MaxHops PROVE Walk(tr, p).end = "loop"
    BY <1>11
  <2>2. Way(tr, p)[k + 1] = At(c, todo, h, "loop")
    BY <1>9, <1>10, <2>1
  <2>3. Way(tr, p)[k + 1].end = "loop"
    BY <2>2, AtFields
  <2>4. QED
    BY <1>8, <2>3, EndsAt
<1> HIDE DEF from, more
<1>13. Way(tr, p)[k + 1] = At(from, more, h + 1, "on")
  BY <1>9, <1>10, <1>12
<1>14. h + 1 \in 0 .. MaxHops /\ h \in 0 .. h + 1 /\ 0 \in 0 .. h + 1
  BY <1>12, SandboxAssumption
<1>15. more \in Paths
  BY <1>4, PathConcat DEF more
<1>16. CASE l.abs
  <2>1. q = more /\ from = <<>>
    BY <1>16 DEF from, more
  <2> HIDE DEF q
  <2>2. Way(tr, q)[0] = At(from, more, 0, "on")
    BY <2>1, WayIs
  <2>3. SameEnd(tr, q, p)
    BY <1>8, <1>11, <1>13, <1>14, <2>2, SameFrom DEF SameEnd
  <2>4. QED
    BY <1>15, <2>1, <2>3 DEF q, p, l
<1>17. CASE ~ l.abs
  <2>1. q = (d \o l.to) \o b /\ from = c
    BY <1>17 DEF from, d
  <2>2. q = d \o more /\ q \in Paths
    <3> DEFINE to == l.to
    <3>1. to \in Paths
      BY <1>4
    <3>2. q = (d \o to) \o b /\ more = to \o b
      BY <2>1 DEF more
    <3> HIDE DEF to, q
    <3>3. q = d \o more
      BY <1>2, <3>1, <3>2, PathAssoc
    <3>4. QED
      BY <1>2, <1>15, <3>3, PathConcat
  <2> HIDE DEF q
  <2>3. Way(tr, q)[k] = At(from, more, h, "on")
    BY <1>3, <1>15, <2>1, <2>2
  <2>4. SameEnd(tr, q, p)
    BY <1>8, <1>11, <1>13, <1>14, <2>3, SameFrom DEF SameEnd
  <2>5. QED
    BY <2>2, <2>4 DEF q, p, l
<1>18. QED
  BY <1>16, <1>17

\* A turn of the resolution of p: what is left to probe leads where p leads.
Probing(tr, p, s) ==
  /\ DOMAIN s = {"probe", "rest", "hops", "out", "path"}
  /\ s.out = "on" =>
       /\ s.probe \in Paths /\ s.rest \in Paths /\ SameEnd(tr, s.probe \o s.rest, p)
       /\ (s.probe = p /\ s.rest = <<>>) \/ Walk(tr, p).end \in {"found", "missing", "NotFound"}
       /\ s.rest # <<>> => Gone(tr, s.probe, Head(s.rest))
  /\ s.out = "ok" => Resolved(tr, p, s.path)

\* Every turn keeps this.
LEMMA TurnKeeps ==
    ASSUME NEW tr, IsTree(tr), NEW p \in Paths, NEW s, Probing(tr, p, s), s.out = "on"
    PROVE  Probing(tr, p, resolve_step(tr, s))
<1> DEFINE next == resolve_step(tr, s)
           a    == s.probe
           b    == s.rest
           l    == LinkAt(tr, a)
           q    == (IF l.abs THEN l.to ELSE Front(a) \o l.to) \o b
<1>1. DOMAIN s = {"probe", "rest", "hops", "out", "path"}
  BY DEF Probing
<1>2. /\ a \in Paths /\ b \in Paths /\ SameEnd(tr, a \o b, p)
      /\ (a = p /\ b = <<>>) \/ Walk(tr, p).end \in {"found", "missing", "NotFound"}
      /\ b # <<>> => Gone(tr, a, Head(b))
  BY DEF Probing
<1>3. /\ DOMAIN next = {"probe", "rest", "hops", "out", "path"}
      /\ next.out = "ok" => Walk(tr, a).end = "found" /\ next.path = Walk(tr, a).at \o b
      /\ next.out = "on" =>
           /\ Walk(tr, a).end \in {"missing", "NotFound"}
           /\ \/ IsLink(tr, a) /\ next.rest = <<>> /\ next.probe = q
              \/ /\ ~ IsLink(tr, a) /\ a # <<>> /\ Last(a) # ".."
                 /\ next.rest = <<Last(a)>> \o b /\ next.probe = Front(a)
  BY <1>1, TurnIs
<1> HIDE DEF next, a, b, q
<1>4. CASE next.out = "ok"
  <2>1. Resolved(tr, a \o b, next.path)
    BY <1>2, <1>3, <1>4, TurnFinds
  <2>2. Resolved(tr, p, next.path)
    BY <1>2, <2>1 DEF Resolved, SameEnd
  <2>3. QED
    BY <1>3, <1>4, <2>2 DEF Probing, next
<1>5. CASE next.out = "on"
  <2>1. Walk(tr, p).end \in {"found", "missing", "NotFound"}
    BY <1>2, <1>3, <1>5
  <2>2. Walk(tr, a \o b).end = Walk(tr, p).end
    BY <1>2 DEF SameEnd
  <2>3. CASE IsLink(tr, a) /\ next.rest = <<>> /\ next.probe = q
    <3>1. Walk(tr, a \o b).end \notin {"on", "loop"}
      BY <2>1, <2>2
    <3>2. q \in Paths /\ SameEnd(tr, q, a \o b)
      BY <1>2, <2>3, <3>1, TurnFollows DEF q
    <3>3. SameEnd(tr, q, p)
      BY <1>2, <3>2 DEF SameEnd
    <3>4. q \o <<>> = q /\ <<>> \in Paths
      BY <3>2, PathConcat, PathOne
    <3>5. QED
      BY <1>3, <1>5, <2>1, <2>3, <3>2, <3>3, <3>4 DEF Probing, next
  <2>4. CASE /\ ~ IsLink(tr, a) /\ a # <<>> /\ Last(a) # ".."
             /\ next.rest = <<Last(a)>> \o b /\ next.probe = Front(a)
    <3> DEFINE d == Front(a)
               x == Last(a)
               e == <<x>> \o b
    <3>1. d \in Paths /\ x \in Names /\ a = d \o <<x>>
      BY <1>2, <2>4, PathFront
    <3> HIDE DEF d, x
    <3>2. e \in Paths /\ e # <<>> /\ Head(e) = x
      BY <1>2, <3>1, OneThen
    <3>3. (d \o <<x>>) \o b = d \o e
      BY <1>2, <3>1, OneThen
    <3> HIDE DEF e
    <3>4. SameEnd(tr, d \o e, p)
      BY <1>2, <3>1, <3>3
    <3>5. Gone(tr, d, Head(e))
      <4>1. Gone(tr, d, x)
        BY <1>3, <1>5, <2>4, <3>1 DEF Gone, x
      <4>2. QED
        BY <3>2, <4>1
    <3>6. next.rest = e /\ next.probe = d
      BY <2>4 DEF e, d, x
    <3>7. QED
      BY <1>3, <1>5, <2>1, <3>1, <3>2, <3>4, <3>5, <3>6 DEF Probing, next
  <2>5. QED
    BY <1>3, <1>5, <2>3, <2>4
<1>6. CASE next.out \notin {"ok", "on"}
  BY <1>3, <1>6 DEF Probing, next
<1>7. QED
  BY <1>4, <1>5, <1>6

\* What resolve_symlinks returns leads where the path leads that it was given.
LEMMA ResolvedIs ==
    ASSUME NEW tr, IsTree(tr), NEW p \in Paths, resolve_symlinks(tr, p).out = "ok"
    PROVE  Resolved(tr, p, resolve_symlinks(tr, p).path)
<1> DEFINE f    == Turns(tr, p)
           Good == {i \in Nat : Probing(tr, p, f[i])}
<1>1. /\ f[0] = [probe |-> p, rest |-> <<>>, hops |-> 0, out |-> "on", path |-> <<>>]
      /\ \A i \in 1 .. Fuel : f[i] = resolve_step(tr, f[i - 1])
      /\ resolve_symlinks(tr, p) = f[Fuel]
  BY TurnsAre
<1> HIDE DEF f
<1>2. 0 \in Good
  <2>1. p \o <<>> = p /\ <<>> \in Paths
    BY PathConcat, PathOne
  <2>2. /\ DOMAIN f[0] = {"probe", "rest", "hops", "out", "path"}
        /\ f[0].out = "on" /\ f[0].probe = p /\ f[0].rest = <<>>
    BY <1>1
  <2>3. Probing(tr, p, f[0])
    BY <2>1, <2>2 DEF Probing, SameEnd
  <2>4. QED
    BY <2>3
<1>3. \A i \in 1 .. Fuel : i - 1 \in Good => i \in Good
  <2>1. TAKE i \in 1 .. Fuel
  <2>2. HAVE i - 1 \in Good
  <2>3. Probing(tr, p, f[i - 1])
    BY <2>2
  <2>4. f[i] = resolve_step(tr, f[i - 1])
    BY <1>1
  <2>5. CASE f[i - 1].out = "on"
    <3>1. Probing(tr, p, f[i])
      BY <2>3, <2>4, <2>5, TurnKeeps
    <3>2. QED
      BY <3>1
  <2>6. CASE f[i - 1].out # "on"
    <3>1. f[i] = f[i - 1]
      BY <2>4, <2>6 DEF resolve_step
    <3>2. Probing(tr, p, f[i])
      BY <2>3, <3>1
    <3>3. QED
      BY <3>2
  <2>7. QED
    BY <2>5, <2>6
<1> HIDE DEF Good
<1>4. Fuel \in Good
  <2>1. \A i \in 0 .. Fuel : i \in Good
    BY <1>2, <1>3, FuelIs, Steps
  <2>2. QED
    BY <2>1, FuelIs
<1>5. Probing(tr, p, f[Fuel])
  BY <1>4 DEF Good
<1>6. QED
  BY <1>1, <1>5 DEF Probing

\* A path that may be opened leads where the path leads that was asked for,
\* and below a mount that permits the access.
Opened(tr, mounts, path, to, mode) ==
  /\ Resolved(tr, path, to)
  /\ \E i \in DOMAIN mounts : /\ IsPrefix(Walk(tr, mounts[i].path).at, to)
                              /\ ModeLeq(mode, mounts[i].mode)

\* The checks of resolve are enough.
LEMMA ResolveOpens ==
    ASSUME NEW tr, IsTree(tr), NEW mounts, IsMounts(mounts), NEW path \in Paths, NEW mode,
           resolve(tr, mounts, path, mode).out = "ok"
    PROVE  Opened(tr, mounts, path, resolve(tr, mounts, path, mode).path, mode)
<1> DEFINE r   == resolve_symlinks(tr, path)
           at  == [i \in DOMAIN mounts |-> resolve_symlinks(tr, mounts[i].path)]
           bad == {i \in DOMAIN mounts : at[i].out # "ok"}
           res == [i \in DOMAIN mounts |-> [path |-> at[i].path, mode |-> mounts[i].mode]]
           out == IF normalize_has_dotdot(path) \/ ~check(mounts, path, mode) THEN "Denied"
                  ELSE IF r.out # "ok" THEN r.out
                  ELSE IF bad # {} THEN at[Min(bad)].out
                  ELSE IF ~check(res, r.path, mode) THEN "Denied" ELSE "ok"
<1>1. resolve(tr, mounts, path, mode) = [path |-> r.path, out |-> out]
  BY DEF resolve
<1>2. out = "ok" /\ resolve(tr, mounts, path, mode).path = r.path
  <2> HIDE DEF out, r
  <2>1. QED
    BY <1>1
<1>3. /\ Len(mounts) \in Nat /\ DOMAIN mounts = 1 .. Len(mounts)
      /\ \A i \in DOMAIN mounts : mounts[i].path \in Paths /\ mounts[i].mode \in {"ro", "rw"}
  BY MountsLen
<1>4. \A i \in DOMAIN mounts : /\ at[i] = resolve_symlinks(tr, mounts[i].path)
                               /\ res[i] = [path |-> at[i].path, mode |-> mounts[i].mode]
                               /\ res[i].path = at[i].path /\ res[i].mode = mounts[i].mode
  OBVIOUS
<1>5. DOMAIN res = DOMAIN mounts
  OBVIOUS
<1>6. \A i \in bad : i \in DOMAIN mounts /\ at[i].out # "ok"
  OBVIOUS
<1>7. \A i \in DOMAIN mounts : i \notin bad => at[i].out = "ok"
  OBVIOUS
<1>8. bad \in SUBSET Nat
  BY <1>3
<1> HIDE DEF at, bad, res, r
<1>9. bad = {}
  <2>1. SUFFICES ASSUME NEW n \in bad PROVE at[Min(bad)].out # "ok"
    BY <1>2
  <2>2. \E m \in bad : \A i \in bad : m <= i
    BY <1>8, Least
  <2>3. Min(bad) \in bad
    BY <2>2 DEF Min
  <2>4. QED
    BY <1>6, <2>3
<1>10. r.out = "ok" /\ check(res, r.path, mode)
  BY <1>2, <1>9
<1>11. Resolved(tr, path, r.path)
  BY <1>10, ResolvedIs DEF r
<1>12. \A i \in DOMAIN mounts : Resolved(tr, mounts[i].path, at[i].path)
  <2>1. TAKE i \in DOMAIN mounts
  <2>2. resolve_symlinks(tr, mounts[i].path).out = "ok"
    BY <1>4, <1>7, <1>9
  <2>3. Resolved(tr, mounts[i].path, resolve_symlinks(tr, mounts[i].path).path)
    BY <1>3, <2>2, ResolvedIs
  <2>4. QED
    BY <1>4, <2>3
<1>13. IsMounts(res)
  <2> DEFINE Mount == [path : Paths, mode : {"ro", "rw"}]
  <2>1. \A i \in DOMAIN mounts : res[i] \in Mount
    <3>1. TAKE i \in DOMAIN mounts
    <3>2. at[i].path \in Paths /\ mounts[i].mode \in {"ro", "rw"}
      BY <1>3, <1>12 DEF Resolved
    <3>3. res[i] = [path |-> at[i].path, mode |-> mounts[i].mode]
      BY <1>4
    <3>4. QED
      BY <3>2, <3>3
  <2> HIDE DEF Mount
  <2>2. res = [i \in 1 .. Len(mounts) |-> res[i]]
    BY <1>3 DEF res
  <2>3. res \in [1 .. Len(mounts) -> Mount]
    BY <1>3, <2>1, <2>2
  <2>4. res \in Seq(Mount)
    BY <1>3, <2>3
  <2>5. QED
    BY <2>4 DEF IsMounts, Mount
<1>14. PICK i \in DOMAIN mounts : IsPrefix(res[i].path, r.path) /\ ModeLeq(mode, res[i].mode)
  <2>1. \/ check(res, r.path, mode) = FALSE
        \/ \E b \in DOMAIN res : /\ IsPrefix(res[b].path, r.path)
                                 /\ check(res, r.path, mode) = ModeLeq(mode, res[b].mode)
    BY <1>13, CheckIs
  <2>2. QED
    BY <1>5, <1>10, <2>1
<1>15. res[i].path = at[i].path /\ res[i].mode = mounts[i].mode
  <2>1. i \in DOMAIN mounts
    OBVIOUS
  <2>2. QED
    BY <1>4, <2>1
<1>16. IsPrefix(Walk(tr, mounts[i].path).at, r.path)
  <2> DEFINE t == at[i].path
             w == Walk(tr, mounts[i].path).at
  <2>1. t \in Paths /\ Walk(tr, t).at = w /\ IsPrefix(Walk(tr, t).at, t)
    BY <1>12 DEF Resolved, SameEnd
  <2>2. Walk(tr, t).at \in Paths
    <3>1. Fuel \in 0 .. Fuel /\ Walk(tr, t) = Way(tr, t)[Fuel]
      BY FuelIs, WayIs
    <3>2. IsAt(tr, Walk(tr, t), Fuel)
      BY <2>1, <3>1, WayType
    <3>3. QED
      BY <3>2 DEF IsAt, Placed
  <2>3. r.path \in Paths /\ IsPrefix(t, r.path)
    BY <1>11, <1>14, <1>15 DEF Resolved
  <2>4. QED
    BY <2>1, <2>2, <2>3, PrefixLaws
<1>17. \E j \in DOMAIN mounts : IsPrefix(Walk(tr, mounts[j].path).at, r.path) /\ ModeLeq(mode, mounts[j].mode)
  BY <1>14, <1>15, <1>16
<1>18. QED
  BY <1>2, <1>11, <1>17 DEF Opened

-----------------------------------------------------------------------------
(* A file that is written *)

\* The tree with a file of this text at a place.
With(tr, w, words) == [p \in DOMAIN tr \cup {w} |-> IF p = w THEN File(words) ELSE tr[p]]

\* A place where a file may be written: a file, or a name that is not there in
\* a directory that is.
Writable(tr, w) ==
  /\ w \in Paths
  /\ \/ w \in DOMAIN tr /\ tr[w].t = "file"
     \/ w \notin DOMAIN tr /\ w # <<>> /\ Front(w) \in DOMAIN tr /\ tr[Front(w)].t = "dir"

\* What a write leaves as it was.
Kept(tr, w, new) ==
  /\ IsTree(new)
  /\ DOMAIN new = DOMAIN tr \cup {w} /\ new[w].t = "file"
  /\ \A p \in DOMAIN tr : new[p].t = tr[p].t /\ (tr[p].t = "link" => new[p] = tr[p])

\* The nodes of the tree that was written.
LEMMA WithIs ==
    ASSUME NEW tr, IsTree(tr), NEW w, Writable(tr, w), NEW words
    PROVE  Kept(tr, w, With(tr, w, words))
<1> DEFINE new == With(tr, w, words)
<1>1. /\ DOMAIN new = DOMAIN tr \cup {w} /\ new[w] = File(words)
      /\ \A p \in DOMAIN tr : p # w => new[p] = tr[p]
  BY DEF With
<1> HIDE DEF new
<1>2. new[w].t = "file"
  BY <1>1 DEF File
<1>3. \A p \in DOMAIN tr : new[p].t = tr[p].t /\ (tr[p].t = "link" => new[p] = tr[p])
  BY <1>1, <1>2 DEF Writable
<1>4. IsTree(new)
  <2>1. DOMAIN new \subseteq Paths /\ <<>> \in DOMAIN new
    BY <1>1, TreeIs DEF Writable
  <2>2. ASSUME NEW p \in DOMAIN new
        PROVE  /\ new[p].t = "link" => new[p].abs \in BOOLEAN /\ new[p].to \in Paths
               /\ p # <<>> => Front(p) \in DOMAIN new /\ new[Front(p)].t = "dir"
    <3>1. CASE p \in DOMAIN tr
      <4>1. new[p].t = "link" => tr[p].t = "link" /\ new[p] = tr[p]
        BY <1>3, <3>1
      <4>2. /\ tr[p].t = "link" => tr[p].abs \in BOOLEAN /\ tr[p].to \in Paths
            /\ p # <<>> => Front(p) \in DOMAIN tr /\ tr[Front(p)].t = "dir"
        BY <3>1, TreeIs
      <4>3. QED
        BY <1>1, <1>3, <4>1, <4>2
    <3>2. CASE p \notin DOMAIN tr
      <4>1. p = w /\ Front(w) \in DOMAIN tr /\ tr[Front(w)].t = "dir"
        BY <1>1, <3>2 DEF Writable
      <4>2. QED
        BY <1>1, <1>2, <1>3, <4>1
    <3>3. QED
      BY <3>1, <3>2
  <2>3. QED
    BY <2>1, <2>2 DEF IsTree, IsNode
<1>5. QED
  BY <1>1, <1>2, <1>3, <1>4 DEF new, Kept

\* A walk before the write and one after it: the same, until the first stops
\* at the name that was not there and the second at the new file.
Along(tr, w, s, s2) ==
  \/ s2 = s
  \/ /\ w \notin DOMAIN tr /\ s.end \in {"missing", "NotFound"} /\ s.at = w
     /\ \E todo, hops : \E end \in {"on", "found", "NotADirectory"} : s2 = At(w, todo, hops, end)

LEMMA StepAlong ==
    ASSUME NEW tr, IsTree(tr), NEW w, Writable(tr, w), NEW words,
           NEW at \in DOMAIN tr, NEW todo, NEW hops
    PROVE  Along(tr, w, WalkStep(tr, At(at, todo, hops, "on")),
                        WalkStep(With(tr, w, words), At(at, todo, hops, "on")))
<1> DEFINE new   == With(tr, w, words)
           one   == WalkStep(tr, At(at, todo, hops, "on"))
           two   == WalkStep(new, At(at, todo, hops, "on"))
           name  == Head(todo)
           child == Append(at, name)
           rest  == Tail(todo)
<1>1. /\ DOMAIN new = DOMAIN tr \cup {w} /\ new[w].t = "file"
      /\ \A p \in DOMAIN tr : new[p].t = tr[p].t /\ (tr[p].t = "link" => new[p] = tr[p])
  <2>1. Kept(tr, w, new)
    BY WithIs
  <2> HIDE DEF new
  <2>2. QED
    BY <2>1 DEF Kept
<1> HIDE DEF new
<1>2. new[at].t = tr[at].t
  BY <1>1
<1>3. CASE todo = <<>>
  <2>1. one = At(at, todo, hops, "found") /\ two = At(at, todo, hops, "found")
    BY <1>3, StepIs
  <2>2. QED
    BY <2>1 DEF Along, new
<1>4. CASE todo # <<>> /\ tr[at].t # "dir"
  <2>1. one = At(at, todo, hops, "NotADirectory") /\ two = At(at, todo, hops, "NotADirectory")
    BY <1>2, <1>4, StepIs
  <2>2. QED
    BY <2>1 DEF Along, new
<1>5. CASE todo # <<>> /\ tr[at].t = "dir" /\ name = ".."
  <2>1. /\ one = At(IF at = <<>> THEN at ELSE Front(at), rest, hops, "on")
        /\ two = At(IF at = <<>> THEN at ELSE Front(at), rest, hops, "on")
    BY <1>2, <1>5, StepIs
  <2>2. QED
    BY <2>1 DEF Along, new
<1>6. CASE todo # <<>> /\ tr[at].t = "dir" /\ name # ".." /\ child \notin DOMAIN tr
  <2> DEFINE end == IF rest = <<>> THEN "missing" ELSE "NotFound"
  <2>1. one = At(child, todo, hops, end)
    BY <1>6, StepIs
  <2>2. CASE child # w
    <3>1. child \notin DOMAIN new
      BY <1>1, <1>6, <2>2
    <3>2. two = At(child, todo, hops, end)
      BY <1>2, <1>6, <3>1, StepIs
    <3>3. QED
      BY <2>1, <3>2 DEF Along, new
  <2>3. CASE child = w
    <3>1. child \in DOMAIN new /\ new[child].t # "link"
      BY <1>1, <2>3
    <3>2. two = At(child, rest, hops, "on")
      BY <1>2, <1>6, <3>1, StepIs
    <3>3. one.at = child /\ one.end = end
      <4> HIDE DEF child, end, one
      <4>1. QED
        BY <2>1, AtFields
    <3>4. end \in {"missing", "NotFound"} /\ w \notin DOMAIN tr
      BY <1>6, <2>3
    <3> HIDE DEF one, two, child, rest, end
    <3>5. Along(tr, w, one, two)
      BY <2>3, <3>2, <3>3, <3>4 DEF Along
    <3>6. QED
      BY <3>5 DEF one, two, new
  <2>4. QED
    BY <2>2, <2>3
<1>7. CASE todo # <<>> /\ tr[at].t = "dir" /\ name # ".." /\ child \in DOMAIN tr /\ tr[child].t # "link"
  <2>1. child \in DOMAIN new /\ new[child].t # "link"
    BY <1>1, <1>7
  <2>2. one = At(child, rest, hops, "on")
    BY <1>7, StepIs
  <2>3. two = At(child, rest, hops, "on")
    BY <1>2, <1>7, <2>1, StepIs
  <2>4. QED
    BY <2>2, <2>3 DEF Along, new
<1>8. CASE todo # <<>> /\ tr[at].t = "dir" /\ name # ".." /\ child \in DOMAIN tr /\ tr[child].t = "link"
  <2>1. child \in DOMAIN new /\ new[child].t = "link" /\ new[child] = tr[child]
    BY <1>1, <1>8
  <2>2. one = IF hops = MaxHops THEN At(at, todo, hops, "loop")
              ELSE At(IF tr[child].abs THEN <<>> ELSE at, tr[child].to \o rest, hops + 1, "on")
    BY <1>8, StepIs
  <2>3. two = IF hops = MaxHops THEN At(at, todo, hops, "loop")
              ELSE At(IF new[child].abs THEN <<>> ELSE at, new[child].to \o rest, hops + 1, "on")
    BY <1>2, <1>8, <2>1, StepIs
  <2>4. one = two
    <3> HIDE DEF one, two, child, rest
    <3>1. QED
      BY <2>1, <2>2, <2>3
  <2>5. QED
    BY <2>4 DEF Along, new
<1>9. QED
  BY <1>3, <1>4, <1>5, <1>6, <1>7, <1>8

\* A write moves nothing: every path leads where it led.
LEMMA WriteMovesNothing ==
    ASSUME NEW tr, IsTree(tr), NEW w, Writable(tr, w), NEW words, NEW path \in Paths
    PROVE  Walk(With(tr, w, words), path).at = Walk(tr, path).at
<1> DEFINE new == With(tr, w, words)
           f   == Way(tr, path)
           g   == Way(new, path)
           Good == {i \in Nat : Along(tr, w, f[i], g[i])}
<1>1. /\ f[0] = At(<<>>, path, 0, "on") /\ g[0] = At(<<>>, path, 0, "on")
      /\ \A i \in 1 .. Fuel : f[i] = WalkStep(tr, f[i - 1]) /\ g[i] = WalkStep(new, g[i - 1])
      /\ Walk(tr, path) = f[Fuel] /\ Walk(new, path) = g[Fuel]
      /\ \A i \in 0 .. Fuel : IsAt(tr, f[i], i)
  BY WayIs, WayType
<1>2. new[w].t = "file"
  <2>1. Kept(tr, w, new)
    BY WithIs
  <2> HIDE DEF new
  <2>2. QED
    BY <2>1 DEF Kept
<1>4. ASSUME NEW at \in DOMAIN tr, NEW todo, NEW hops
      PROVE  Along(tr, w, WalkStep(tr, At(at, todo, hops, "on")), WalkStep(new, At(at, todo, hops, "on")))
  BY StepAlong
<1> HIDE DEF f, g, new
<1>5. 0 \in Good
  <2>1. Along(tr, w, f[0], g[0])
    BY <1>1 DEF Along
  <2>2. QED
    BY <2>1
<1>6. \A i \in 1 .. Fuel : i - 1 \in Good => i \in Good
  <2>1. TAKE i \in 1 .. Fuel
  <2>2. HAVE i - 1 \in Good
  <2> DEFINE s == f[i - 1]
             t == g[i - 1]
  <2>3. i - 1 \in 0 .. Fuel
    BY FuelIs
  <2>4. /\ Along(tr, w, s, t) /\ f[i] = WalkStep(tr, s) /\ g[i] = WalkStep(new, t)
        /\ IsAt(tr, s, i - 1)
    BY <1>1, <2>2, <2>3
  <2> HIDE DEF s, t
  <2>5. s = At(s.at, s.todo, s.hops, s.end)
        /\ (s.end \notin {"missing", "NotFound"} => s.at \in DOMAIN tr)
    BY <2>4 DEF IsAt, Placed
  <2>6. CASE t = s /\ s.end = "on"
    <3>1. s = At(s.at, s.todo, s.hops, "on") /\ s.at \in DOMAIN tr
      BY <2>5, <2>6
    <3>2. Along(tr, w, WalkStep(tr, At(s.at, s.todo, s.hops, "on")),
                       WalkStep(new, At(s.at, s.todo, s.hops, "on")))
      BY <1>4, <3>1
    <3>3. Along(tr, w, f[i], g[i])
      BY <2>4, <2>6, <3>1, <3>2
    <3>4. QED
      BY <3>3
  <2>7. CASE t = s /\ s.end # "on"
    <3>1. f[i] = s /\ g[i] = s
      BY <2>4, <2>7, StepEnded
    <3>2. Along(tr, w, f[i], g[i])
      BY <3>1 DEF Along
    <3>3. QED
      BY <3>2
  <2>8. CASE t # s
    <3>1. w \notin DOMAIN tr /\ s.end \in {"missing", "NotFound"} /\ s.at = w
      BY <2>4, <2>8 DEF Along
    <3>2. PICK todo, hops : \E end \in {"on", "found", "NotADirectory"} : t = At(w, todo, hops, end)
      BY <2>4, <2>8 DEF Along
    <3>3. PICK end \in {"on", "found", "NotADirectory"} : t = At(w, todo, hops, end)
      BY <3>2
    <3>4. f[i] = s
      BY <2>4, <3>1, StepEnded
    <3>5. \E end2 \in {"on", "found", "NotADirectory"} : g[i] = At(w, todo, hops, end2)
      <4>1. CASE end = "on"
        <5>1. g[i] = WalkStep(new, At(w, todo, hops, "on"))
          BY <2>4, <3>3, <4>1
        <5>2. new[w].t # "dir"
          BY <1>2, <3>1
        <5>3. g[i] = At(w, todo, hops, IF todo = <<>> THEN "found" ELSE "NotADirectory")
          BY <5>1, <5>2, StepIs
        <5>4. QED
          BY <5>3
      <4>2. CASE end # "on"
        <5>1. t.end # "on"
          BY <3>3, <4>2, AtFields
        <5>2. g[i] = t
          BY <2>4, <5>1, StepEnded
        <5>3. QED
          BY <3>3, <5>2
      <4>3. QED
        BY <4>1, <4>2
    <3>6. Along(tr, w, f[i], g[i])
      BY <3>1, <3>4, <3>5 DEF Along
    <3>7. QED
      BY <3>6
  <2>9. QED
    BY <2>6, <2>7, <2>8
<1> HIDE DEF Good
<1>7. Fuel \in Good
  <2>1. \A i \in 0 .. Fuel : i \in Good
    BY <1>5, <1>6, FuelIs, Steps
  <2>2. QED
    BY <2>1, FuelIs
<1>8. Along(tr, w, f[Fuel], g[Fuel])
  BY <1>7 DEF Good
<1>9. f[Fuel].at = g[Fuel].at
  <2>1. CASE g[Fuel] = f[Fuel]
    BY <2>1
  <2>2. CASE g[Fuel] # f[Fuel]
    <3>1. f[Fuel].at = w /\ \E todo, hops, end : g[Fuel] = At(w, todo, hops, end)
      BY <1>8, <2>2 DEF Along
    <3>2. QED
      BY <3>1, AtFields
  <2>3. QED
    BY <2>1, <2>2
<1>10. QED
  BY <1>1, <1>9 DEF new

-----------------------------------------------------------------------------
(* The path of a call *)

\* The components of a path, `..` taken lexically, are names.
LEMMA NormalizedType ==
    ASSUME NEW path \in Paths
    PROVE  lexical_normalize(path) \in Paths
<1> DEFINE R(f) == f = [n \in 0 .. Len(path) |-> IF n = 0 THEN <<>> ELSE Normalized(f[n - 1], path[n])]
           f    == CHOOSE f : R(f)
           Good == {n \in Nat : f[n] \in Paths}
<1>1. Len(path) \in Nat /\ \A n \in 1 .. Len(path) : path[n] \in Names
  BY PathLen
<1>2. \A x, i : Step(Lexical(path), x, i) = Normalized(x, path[i])
  BY DEF Step, Lexical
<1>3. \A g : IsRun(Lexical(path), g, <<>>, Len(path)) <=> R(g)
  BY <1>2 DEF IsRun
<1>4. \E g : R(g)
  BY <1>1, <1>3, RunExists
<1>5. R(f)
  BY <1>4
<1>6. lexical_normalize(path) = f[Len(path)]
  BY DEF lexical_normalize
<1> HIDE DEF f
<1>7. \A n \in 0 .. Len(path) : f[n] = IF n = 0 THEN <<>> ELSE Normalized(f[n - 1], path[n])
  BY <1>5
<1>8. 0 \in Good
  <2>1. f[0] = <<>>
    BY <1>1, <1>7
  <2>2. f[0] \in Paths
    BY <2>1, PathOne
  <2>3. QED
    BY <2>2
<1>9. \A n \in 1 .. Len(path) : n - 1 \in Good => n \in Good
  <2>1. TAKE n \in 1 .. Len(path)
  <2>2. HAVE n - 1 \in Good
  <2> DEFINE out == f[n - 1]
  <2>3. out \in Paths /\ path[n] \in Names
    BY <1>1, <2>2
  <2>4. f[n] = Normalized(out, path[n])
    BY <1>1, <1>7
  <2> HIDE DEF out
  <2>5. out # <<>> => Front(out) \in Paths
    BY <2>3, PathFront
  <2>6. Append(out, path[n]) \in Paths
    BY <2>3, PathAppend
  <2>7. f[n] \in Paths
    BY <2>3, <2>4, <2>5, <2>6 DEF Normalized
  <2>8. QED
    BY <2>7
<1> HIDE DEF Good
<1>10. Len(path) \in Good
  <2>1. \A n \in 0 .. Len(path) : n \in Good
    BY <1>1, <1>8, <1>9, Steps
  <2>2. QED
    BY <1>1, <2>1
<1>11. QED
  BY <1>6, <1>10 DEF Good

\* The path that a call names, made absolute.
LEMMA PathType ==
    ASSUME NEW c \in FileCalls, place.workdir \in Paths
    PROVE  Path(c) \in Paths
<1>1. c.path.abs \in BOOLEAN /\ c.path.to \in Paths
  BY FileAssumption
<1>2. place.workdir \o c.path.to \in Paths
  BY <1>1, PathConcat
<1> DEFINE p == IF c.path.abs THEN c.path.to ELSE place.workdir \o c.path.to
<1>3. p \in Paths
  BY <1>1, <1>2
<1>4. Path(c) = lexical_normalize(p)
  BY DEF Path, resolve_path
<1> HIDE DEF p
<1>5. QED
  BY <1>3, <1>4, NormalizedType

-----------------------------------------------------------------------------
(* The file tools *)

\* The tree and the policy of the session.
FilesTyped == IsTree(tree) /\ IsMounts(place.mounts) /\ place.workdir \in Paths

\* Between the check and the access, the path that was resolved leads where
\* the call's path leads and may be accessed in the way that is next, unless
\* the tree was changed.
CheckHolds ==
  /\ fpc \in {"idle", "read", "edit", "write"}
  /\ fpc # "idle" => fcall \in FileCalls
  /\ fpc \in {"read", "write"} => target \in Paths
  /\ fpc = "read" /\ ~ moved => Opened(tree, place.mounts, Path(fcall), target, "ro")
  /\ fpc = "write" /\ ~ moved => Opened(tree, place.mounts, Path(fcall), target, "rw")

FileInv == FilesTyped /\ CheckHolds /\ AccessAsChecked

\* A call of resolve that lets the tool go on.
LEMMA ResolvingOpens ==
    ASSUME FilesTyped, NEW c \in FileCalls, NEW mode, NEW next, Resolving(c, mode, next)
    PROVE  \/ fpc' = "idle"
           \/ /\ fpc' = next /\ target' \in Paths
              /\ Opened(tree, place.mounts, Path(c), target', mode)
<1> DEFINE r == resolve(tree, place.mounts, Path(c), mode)
<1>1. CASE r.out = "ok"
  <2>1. fpc' = next /\ target' = r.path
    BY <1>1 DEF Resolving
  <2>2. Path(c) \in Paths
    BY PathType DEF FilesTyped
  <2> DEFINE p == Path(c)
             mounts == place.mounts
  <2>3. Opened(tree, mounts, p, resolve(tree, mounts, p, mode).path, mode)
    <3>1. p \in Paths /\ IsTree(tree) /\ IsMounts(mounts) /\ resolve(tree, mounts, p, mode).out = "ok"
      BY <1>1, <2>2 DEF FilesTyped
    <3> HIDE DEF p, mounts
    <3>2. QED
      BY <3>1, ResolveOpens
  <2>4. r.path \in Paths
    BY <2>3 DEF Opened, Resolved
  <2>5. QED
    BY <2>1, <2>3, <2>4
<1>2. CASE r.out # "ok"
  BY <1>2 DEF Resolving, FileIdle
<1>3. QED
  BY <1>1, <1>2

\* Where an access goes by a path that was checked.
LEMMA OpenedAccess ==
    ASSUME NEW tr, NEW mounts, NEW path, NEW to, NEW mode, Opened(tr, mounts, path, to, mode),
           Walk(tr, to).end \in {"found", "missing"}
    PROVE  /\ Walk(tr, path).at = Walk(tr, to).at
           /\ \E i \in DOMAIN mounts : /\ IsPrefix(Walk(tr, mounts[i].path).at, Walk(tr, to).at)
                                       /\ ModeLeq(mode, mounts[i].mode)
  BY DEF Opened, Resolved, SameEnd

\* A script puts a node where the sandbox lets it.
LEMMA ScriptTree ==
    ASSUME NEW tr, IsTree(tr), NEW w \in Paths, NEW node, IsNode(node),
           Front(w) \in DOMAIN tr, tr[Front(w)].t = "dir",
           ~\E p \in DOMAIN tr : p # w /\ IsPrefix(w, p)
    PROVE  IsTree([p \in DOMAIN tr \cup {w} |-> IF p = w THEN node ELSE tr[p]])
<1> DEFINE new == [p \in DOMAIN tr \cup {w} |-> IF p = w THEN node ELSE tr[p]]
<1>1. DOMAIN new = DOMAIN tr \cup {w} /\ new[w] = node /\ \A p \in DOMAIN tr : p # w => new[p] = tr[p]
  OBVIOUS
<1> HIDE DEF new
<1>2. ASSUME NEW p \in DOMAIN new
      PROVE  /\ p \in Paths /\ IsNode(new[p])
             /\ p # <<>> => Front(p) \in DOMAIN new /\ new[Front(p)].t = "dir"
  <2>1. p \in Paths /\ IsNode(new[p])
    BY <1>1, <1>2 DEF IsTree
  <2>2. SUFFICES ASSUME p # <<>> PROVE Front(p) \in DOMAIN new /\ new[Front(p)].t = "dir"
    BY <2>1
  <2>3. Front(p) \in DOMAIN tr /\ tr[Front(p)].t = "dir"
    <3>1. CASE p = w
      BY <3>1
    <3>2. CASE p # w
      <4>1. p \in DOMAIN tr
        BY <1>1, <1>2, <3>2
      <4>2. QED
        BY <2>2, <4>1, TreeIs
    <3>3. QED
      BY <3>1, <3>2
  <2>4. Front(p) # w
    <3>1. SUFFICES ASSUME Front(p) = w PROVE FALSE
      OBVIOUS
    <3>2. /\ w \in Paths /\ Last(p) \in Names /\ Len(w) = Len(p) - 1 /\ p = w \o <<Last(p)>>
      BY <2>1, <2>2, <3>1, PathFront
    <3>3. p # w
      <4>1. Len(p) \in Nat
        BY <2>1, PathLen
      <4>2. QED
        BY <3>2, <4>1
    <3>4. IsPrefix(w, p)
      <4>1. <<Last(p)>> \in Paths
        BY <3>2, PathOne
      <4>2. IsPrefix(w, w \o <<Last(p)>>)
        BY <4>1, PrefixLaws
      <4>3. QED
        BY <3>2, <4>2
    <3>5. p \in DOMAIN tr
      BY <1>1, <1>2, <3>3
    <3>6. QED
      BY <3>3, <3>4, <3>5
  <2>5. QED
    BY <1>1, <2>3, <2>4
<1>3. <<>> \in DOMAIN new
  BY <1>1, TreeIs
<1>4. IsTree(new)
  BY <1>2, <1>3 DEF IsTree
<1>5. QED
  BY <1>4 DEF new

\* The target of an access, when there is one, is where a file may be.
LEMMA TargetWritable ==
    ASSUME NEW tr, IsTree(tr), NEW to \in Paths,
           LET w == Walk(tr, to) IN w.end = "missing" \/ (w.end = "found" /\ tr[w.at].t = "file")
    PROVE  Writable(tr, Walk(tr, to).at)
<1> DEFINE w == Walk(tr, to)
<1>1. Fuel \in 0 .. Fuel /\ w = Way(tr, to)[Fuel]
  BY FuelIs, WayIs
<1>2. IsAt(tr, w, Fuel)
  BY <1>1, WayType
<1>3. w.end = "missing" \/ (w.end = "found" /\ tr[w.at].t = "file")
  OBVIOUS
<1> HIDE DEF w
<1>4. /\ w.at \in Paths
      /\ w.end = "found" => w.at \in DOMAIN tr
      /\ w.end = "missing" => /\ w.at # <<>> /\ w.at \notin DOMAIN tr
                              /\ Front(w.at) \in DOMAIN tr /\ tr[Front(w.at)].t = "dir"
  BY <1>2 DEF IsAt, Placed
<1>5. Writable(tr, w.at)
  BY <1>3, <1>4 DEF Writable
<1>6. QED
  BY <1>5 DEF w

\* At first nothing was accessed.
LEMMA FileStart == FileInit => FileInv
<1> SUFFICES ASSUME FileInit PROVE FileInv
  OBVIOUS
<1>1. PICK p \in Places : place = [mounts |-> p.mounts, workdir |-> p.workdir] /\ tree = p.tree
  BY DEF FileInit
<1>2. FilesTyped
  BY <1>1, FileAssumption DEF FilesTyped
<1>3. fpc = "idle" /\ access = NoAccess
  BY DEF FileInit
<1>4. CheckHolds
  BY <1>3 DEF CheckHolds
<1>5. access.mode = "none"
  BY <1>3 DEF NoAccess
<1>6. AccessAsChecked
  BY <1>5 DEF AccessAsChecked
<1>7. QED
  BY <1>2, <1>4, <1>6 DEF FileInv

\* Every step keeps the invariant.
LEMMA FileStep == FileInv /\ [FileNext]_fvars => FileInv'
<1> SUFFICES ASSUME FileInv, [FileNext]_fvars PROVE FileInv'
  OBVIOUS
<1> USE DEF FileInv
<1>1. ASSUME tree' = tree, place' = place PROVE FilesTyped'
  BY <1>1 DEF FilesTyped
<1>2. ASSUME tree' = tree, place' = place, access' = access, moved' = moved PROVE AccessAsChecked'
  BY <1>2 DEF AccessAsChecked, MountedAt, Path
<1>3. CASE StartFileCall
  <2>1. PICK c \in FileCalls : fcall' = c /\ Resolving(c, IF c.tool = "write" THEN "rw" ELSE "ro",
                                                      IF c.tool = "write" THEN "write" ELSE "read")
    BY <1>3 DEF StartFileCall
  <2>2. moved' = FALSE /\ access' = NoAccess /\ tree' = tree /\ place' = place
    BY <1>3 DEF StartFileCall
  <2>3. Path(fcall)' = Path(c)
    BY <2>1, <2>2 DEF Path
  <2>4. CheckHolds'
    <3>1. CASE c.tool = "write"
      <4>1. Resolving(c, "rw", "write")
        BY <2>1, <3>1
      <4>2. \/ fpc' = "idle"
            \/ /\ fpc' = "write" /\ target' \in Paths
               /\ Opened(tree, place.mounts, Path(c), target', "rw")
        BY <4>1, ResolvingOpens
      <4>3. QED
        BY <2>1, <2>2, <2>3, <4>2 DEF CheckHolds
    <3>2. CASE c.tool # "write"
      <4>1. Resolving(c, "ro", "read")
        BY <2>1, <3>2
      <4>2. \/ fpc' = "idle"
            \/ /\ fpc' = "read" /\ target' \in Paths
               /\ Opened(tree, place.mounts, Path(c), target', "ro")
        BY <4>1, ResolvingOpens
      <4>3. QED
        BY <2>1, <2>2, <2>3, <4>2 DEF CheckHolds
    <3>3. QED
      BY <3>1, <3>2
  <2>5. AccessAsChecked'
    <3>1. access'.mode = "none"
      BY <2>2 DEF NoAccess
    <3>2. QED
      BY <3>1 DEF AccessAsChecked
  <2>6. QED
    BY <1>1, <2>2, <2>4, <2>5
<1>4. CASE ReadFile
  <2> DEFINE w == Walk(tree, target)
  <2>1. fpc = "read" /\ tree' = tree /\ place' = place /\ fcall' = fcall /\ moved' = moved
    BY <1>4 DEF ReadFile
  <2>2. fpc' \in {"idle", "edit"}
    BY <1>4 DEF ReadFile, FileIdle
  <2>3. CheckHolds'
    BY <2>1, <2>2 DEF CheckHolds
  <2>4. CASE access' = access
    BY <1>1, <1>2, <2>1, <2>3, <2>4
  <2>5. CASE access' # access
    <3>1. /\ w.end = "found"
          /\ access' = [at |-> w.at, mode |-> "ro", call |-> fcall,
                        old |-> tree[w.at].text, new |-> tree[w.at].text]
      BY <1>4, <2>5 DEF ReadFile
    <3>2. access'.at = w.at /\ access'.mode = "ro" /\ access'.call = fcall
      BY <3>1
    <3>3. SUFFICES ASSUME ~ moved'
                   PROVE  /\ Walk(tree, Path(fcall)).at = w.at
                          /\ \E i \in DOMAIN place.mounts :
                               /\ IsPrefix(Walk(tree, place.mounts[i].path).at, w.at)
                               /\ ModeLeq("ro", place.mounts[i].mode)
      BY <1>1, <2>1, <2>3, <3>2 DEF AccessAsChecked, MountedAt, Path
    <3>4. Opened(tree, place.mounts, Path(fcall), target, "ro")
      BY <2>1, <3>3 DEF CheckHolds
    <3>5. QED
      BY <3>1, <3>4, OpenedAccess
  <2>6. QED
    BY <2>4, <2>5
<1>5. CASE EditFile
  <2>1. /\ fpc = "edit" /\ Resolving(fcall, "rw", "write")
        /\ tree' = tree /\ place' = place /\ fcall' = fcall /\ moved' = moved /\ access' = access
    BY <1>5 DEF EditFile
  <2>2. fcall \in FileCalls
    BY <2>1 DEF CheckHolds
  <2>3. \/ fpc' = "idle"
        \/ /\ fpc' = "write" /\ target' \in Paths
           /\ Opened(tree, place.mounts, Path(fcall), target', "rw")
    BY <2>1, <2>2, ResolvingOpens
  <2>4. Path(fcall)' = Path(fcall)
    BY <2>1 DEF Path
  <2>5. CheckHolds'
    BY <2>1, <2>2, <2>3, <2>4 DEF CheckHolds
  <2>6. QED
    BY <1>1, <1>2, <2>1, <2>5
<1>6. CASE WriteFile
  <2> DEFINE w == Walk(tree, target)
  <2>1. fpc = "write" /\ fpc' = "idle" /\ place' = place /\ fcall' = fcall /\ moved' = moved
    BY <1>6 DEF WriteFile, FileIdle
  <2>2. CheckHolds'
    BY <2>1 DEF CheckHolds
  <2>3. CASE tree' = tree /\ access' = access
    BY <1>1, <1>2, <2>1, <2>2, <2>3
  <2>4. CASE ~ (tree' = tree /\ access' = access)
    <3>1. /\ w.end = "missing" \/ (w.end = "found" /\ tree[w.at].t = "file")
          /\ tree' = With(tree, w.at, NewText)
          /\ access' = [at |-> w.at, mode |-> "rw", call |-> fcall,
                        old |-> IF w.end = "found" THEN tree[w.at].text ELSE <<>>,
                        new |-> NewText]
      BY <1>6, <2>4 DEF WriteFile, With
    <3>2. access'.at = w.at /\ access'.mode = "rw" /\ access'.call = fcall
      BY <3>1
    <3>3. target \in Paths /\ IsTree(tree)
      BY <2>1 DEF CheckHolds, FilesTyped
    <3>4. Writable(tree, w.at)
      BY <3>1, <3>3, TargetWritable
    <3>5. IsTree(tree')
      <4>1. Kept(tree, w.at, With(tree, w.at, NewText))
        BY <3>3, <3>4, WithIs
      <4>2. QED
        BY <3>1, <4>1 DEF Kept
    <3>6. FilesTyped'
      BY <2>1, <3>5 DEF FilesTyped
    <3>7. \A q \in Paths : Walk(tree', q).at = Walk(tree, q).at
      <4>1. TAKE q \in Paths
      <4>2. Walk(With(tree, w.at, NewText), q).at = Walk(tree, q).at
        BY <3>3, <3>4, WriteMovesNothing
      <4>3. QED
        BY <3>1, <4>2
    <3>8. fcall \in FileCalls /\ Path(fcall) \in Paths
      BY <2>1, PathType DEF CheckHolds, FilesTyped
    <3>9. \A i \in DOMAIN place.mounts : place.mounts[i].path \in Paths
      BY MountsLen DEF FilesTyped
    <3>10. AccessAsChecked'
      <4>1. SUFFICES ASSUME ~ moved'
                     PROVE  /\ Walk(tree', Path(fcall)).at = w.at
                            /\ \E i \in DOMAIN place.mounts :
                                 /\ IsPrefix(Walk(tree', place.mounts[i].path).at, w.at)
                                 /\ ModeLeq("rw", place.mounts[i].mode)
        BY <2>1, <3>2 DEF AccessAsChecked, MountedAt, Path
      <4>2. Opened(tree, place.mounts, Path(fcall), target, "rw")
        BY <2>1, <4>1 DEF CheckHolds
      <4>3. /\ Walk(tree, Path(fcall)).at = w.at
            /\ \E i \in DOMAIN place.mounts : /\ IsPrefix(Walk(tree, place.mounts[i].path).at, w.at)
                                              /\ ModeLeq("rw", place.mounts[i].mode)
        BY <3>1, <4>2, OpenedAccess
      <4>4. QED
        BY <3>7, <3>8, <3>9, <4>3
    <3>11. QED
      BY <2>2, <3>6, <3>10
  <2>5. QED
    BY <2>3, <2>4
<1>7. CASE ScriptWrites
  <2>1. PICK c \in Changes :
          /\ Front(c.path) \in DOMAIN tree /\ tree[Front(c.path)].t = "dir"
          /\ ~\E p \in DOMAIN tree : p # c.path /\ IsPrefix(c.path, p)
          /\ tree' = [p \in DOMAIN tree \cup {c.path} |-> IF p = c.path THEN c.node ELSE tree[p]]
    BY <1>7 DEF ScriptWrites
  <2>2. moved' = TRUE /\ place' = place /\ fpc' = fpc /\ fcall' = fcall /\ target' = target
    BY <1>7 DEF ScriptWrites
  <2>3. IsTree(tree')
    <3>1. c.path \in Paths /\ IsNode(c.node)
      BY FileAssumption
    <3>2. IsTree([p \in DOMAIN tree \cup {c.path} |-> IF p = c.path THEN c.node ELSE tree[p]])
      BY <2>1, <3>1, ScriptTree DEF FilesTyped
    <3>3. QED
      BY <2>1, <3>2
  <2>4. FilesTyped'
    BY <2>2, <2>3 DEF FilesTyped
  <2>5. CheckHolds'
    BY <2>2 DEF CheckHolds
  <2>6. AccessAsChecked'
    BY <2>2 DEF AccessAsChecked
  <2>7. QED
    BY <2>4, <2>5, <2>6
<1>8. CASE UNCHANGED fvars
  <2>1. /\ tree' = tree /\ place' = place /\ fpc' = fpc /\ fcall' = fcall /\ target' = target
        /\ moved' = moved /\ access' = access
    BY <1>8 DEF fvars
  <2>2. CheckHolds'
    BY <2>1 DEF CheckHolds, Path
  <2>3. QED
    BY <1>1, <1>2, <2>1, <2>2
<1>9. QED
  BY <1>3, <1>4, <1>5, <1>6, <1>7, <1>8 DEF FileNext

\* The invariant of the file tools: the tree stays a tree and, unless a script
\* changed it, a path that passed the checks of native/fs.rs leads where the
\* call's own path leads until it is opened.
THEOREM FileInvariant == FileSpec => []FileInv
<1>1. FileInit => FileInv
  BY FileStart
<1>2. FileInv /\ [FileNext]_fvars => FileInv'
  BY FileStep
<1>3. QED
  BY <1>1, <1>2, PTL DEF FileSpec

\* A file tool opens the very file that its path names, below a mount that
\* permits the access, whatever links, mounts and dangling names the tree has:
\* resolve and check of native/fs.rs miss nothing while nobody changes the tree
\* between check and access.
THEOREM AccessIsAsChecked == FileSpec => []AccessAsChecked
<1>1. FileInv => AccessAsChecked
  BY DEF FileInv
<1>2. QED
  BY <1>1, FileInvariant, PTL

\* A process in the sandbox and a file tool may write the same files, for every
\* policy: build_args lets the same mount decide as FsPolicy::check.
THEOREM SandboxAgreement == FileSpec => []SandboxAgrees
<1>1. FileInv => SandboxAgrees
  <2>1. SUFFICES ASSUME FileInv, NEW p \in DOMAIN tree, p = <<>> \/ Head(p) \notin {"proc", "dev"}
                 PROVE  (Shows(build_args(place.mounts), p) = "bind") <=> check(place.mounts, p, "rw")
    BY DEF SandboxAgrees
  <2>2. p \in Paths /\ IsMounts(place.mounts)
    BY <2>1 DEF FileInv, FilesTyped, IsTree
  <2>3. QED
    BY <2>1, <2>2, SandboxAgreesOn
<1>2. QED
  BY <1>1, FileInvariant, PTL
=============================================================================
