------------------------------- MODULE Daemon -------------------------------
(***************************************************************************)
(* grist-daemon (crates/orchestrator/src/acp/daemon.rs): the connections   *)
(* of clients, the map from session id to kernel process that each keeps,  *)
(* the tasks that open sessions, the forwarding of requests, and the       *)
(* processes that are spawned, killed, dropped or die.                     *)
(*                                                                         *)
(* Handlers run one at a time per connection.  The tasks that open a       *)
(* session are spawned with tokio::spawn and outlive the connection.       *)
(*                                                                         *)
(* What is abstract.  Requests are numbered in order of arrival, and a     *)
(* process is named by the request that spawned it.  Of a kernel process   *)
(* only the session whose log it writes remains (Server models what is in  *)
(* it).  session/prompt, cancel and the _grist requests are forwarded      *)
(* alike: they are one kind.  Killing a process (SIGKILL) stops it at once. *)
(***************************************************************************)
EXTENDS Naturals, FiniteSets

CONSTANTS
    Conn,          \* client connections
    Sid,           \* session ids
    None,          \* no session, no process
    MaxRequests,   \* bound on the requests of the clients
    MaxDeaths      \* bound on the processes that die by themselves

ASSUME DaemonBounds ==
    /\ MaxRequests \in Nat /\ MaxDeaths \in Nat
    /\ None \notin Sid /\ None \notin Conn /\ None \notin Nat

Request == 1 .. MaxRequests

VARIABLES
    open,       \* connections that are open
    sessions,   \* Conn.sessions of each connection
    proc,       \* the processes: whether they run, and the log they write
    req,        \* what each request asks, where it is, and how it went
    stored,     \* sessions with a log that can be reopened
    sent, deaths    \* counters for the bounds

vars == <<open, sessions, proc, req, stored, sent, deaths>>

-----------------------------------------------------------------------------
(* State *)

Unsent == [kind |-> "none", conn |-> None, sid |-> None, at |-> "unsent", to |-> 0]
NoProcess == [up |-> FALSE, kernel |-> None]

Answered(r) == [req EXCEPT ![r].at = "answered"]

\* The processes of ps are killed (KernelProc::kill, or the drop of the last
\* reference to them).
Killed(ps) == [p \in Request |-> IF p \in ps THEN NoProcess ELSE proc[p]]

Mapped(c) == {sessions[c][s] : s \in Sid} \ {None}

\* The tasks of connection c that open a session: each holds the Conn.
Opening(c) == {r \in Request : req[r].conn = c /\ req[r].at \in {"task", "init", "wait", "result"}
                                   /\ req[r].kind \in {"new", "load"}}

\* What goes with the end of the opening task of r: of a closed connection the
\* last task drops the Conn, and with it every process in its map.
DroppedWith(r, m) ==
    LET c == req[r].conn IN
    IF c \notin open /\ Opening(c) = {r} THEN {m[c][s] : s \in Sid} \ {None} ELSE {}

-----------------------------------------------------------------------------
(* The handlers *)

Receives(r, c, kind, s, at, to) ==
    /\ c \in open /\ r = sent + 1 /\ sent < MaxRequests
    /\ sent' = r
    /\ req' = [req EXCEPT ![r] = [kind |-> kind, conn |-> c, sid |-> s, at |-> at, to |-> to]]
    /\ UNCHANGED <<open, proc, stored, deaths>>

\* session/new, session/load, session/resume: left to a spawned task.
ReceiveOpen(r, c) ==
    /\ \/ Receives(r, c, "new", None, "task", 0)
       \/ \E s \in Sid : Receives(r, c, "load", s, "task", 0)
    /\ UNCHANGED sessions

\* session/prompt, session/cancel and the _grist requests: forwarded to the
\* process of the session, refused if there is none.
ReceiveForward(r, c) ==
    \E s \in Sid :
        /\ IF sessions[c][s] = None
           THEN Receives(r, c, "forward", s, "answered", 0)
           ELSE Receives(r, c, "forward", s, "wait", sessions[c][s])
        /\ UNCHANGED sessions

\* session/close: the process leaves the map at once; the handler of the
\* result holds it from now on.
ReceiveClose(r, c) ==
    \E s \in Sid :
        /\ IF sessions[c][s] = None
           THEN Receives(r, c, "close", s, "answered", 0)
           ELSE Receives(r, c, "close", s, "wait", sessions[c][s])
        /\ sessions' = [sessions EXCEPT ![c][s] = None]

\* The client goes away: on_close kills every process in the map.
CloseConnection(c) ==
    /\ c \in open
    /\ open' = open \ {c}
    /\ proc' = Killed(Mapped(c))
    /\ sessions' = [sessions EXCEPT ![c] = [s \in Sid |-> None]]
    /\ UNCHANGED <<req, stored, sent, deaths>>

-----------------------------------------------------------------------------
(* The task that opens a session *)

\* The check of session/load, then spawn_kernel.
SpawnKernel(r) ==
    LET c == req[r].conn IN
    /\ req[r].at = "task"
    /\ IF req[r].kind = "load" /\ sessions[c][req[r].sid] # None
       THEN req' = Answered(r) /\ proc' = Killed(DroppedWith(r, sessions))
       ELSE /\ req' = [req EXCEPT ![r].at = "init", ![r].to = r]
            /\ proc' = [proc EXCEPT ![r].up = TRUE]
    /\ UNCHANGED <<open, sessions, stored, sent, deaths>>

\* kernel_ready: initialize is answered, the client's request goes out.
Initialized(r) ==
    /\ req[r].at = "init" /\ proc[r].up /\ req[r].conn \in open
    /\ req' = [req EXCEPT ![r].at = "wait"]
    /\ UNCHANGED <<open, sessions, proc, stored, sent, deaths>>

InsertProcess_KeepOld(r) ==
    LET c == req[r].conn
        m == [sessions EXCEPT ![c][req[r].sid] = r] IN
    /\ req[r].at = "result" /\ req[r].kind \in {"new", "load"}
    /\ sessions' = m
    /\ proc' = Killed(DroppedWith(r, m))
    /\ req' = Answered(r)
    /\ UNCHANGED <<open, stored, sent, deaths>>

\* The kernel has the session open: the process enters the map.  One that was
\* there under the id is dropped, and so killed.
InsertProcess(r) ==
    LET c == req[r].conn
        s == req[r].sid
        m == [sessions EXCEPT ![c][s] = r] IN
    /\ req[r].at = "result" /\ req[r].kind \in {"new", "load"}
    /\ sessions' = m
    /\ proc' = Killed((DroppedWith(r, m) \cup {sessions[c][s]}) \ {None})
    /\ req' = Answered(r)
    /\ UNCHANGED <<open, stored, sent, deaths>>

OpenFails_IgnoreDeath(r) ==
    /\ req[r].kind \in {"new", "load"}
    /\ \/ req[r].at \in {"task", "wait"} /\ (req[r].at = "task" \/ proc[r].up)
       \/ req[r].at \in {"init", "result"} /\ req[r].conn \notin open
    /\ req' = Answered(r)
    /\ proc' = Killed({r} \cup DroppedWith(r, sessions))
    /\ UNCHANGED <<open, sessions, stored, sent, deaths>>

\* The process cannot be started or refuses the session, it is gone, or the
\* client's connection, which carries the one to the process, is closed: the
\* task drops the process and answers with an error.
OpenFails(r) ==
    /\ req[r].kind \in {"new", "load"}
    /\ \/ req[r].at \in {"task", "wait"}
       \/ req[r].at \in {"init", "result"} /\ (~ proc[r].up \/ req[r].conn \notin open)
    /\ req' = Answered(r)
    /\ proc' = Killed({r} \cup DroppedWith(r, sessions))
    /\ UNCHANGED <<open, sessions, stored, sent, deaths>>

-----------------------------------------------------------------------------
(* The kernel processes, and their answers *)

\* The process creates or reopens the session and says so.
KernelOpens(r) ==
    /\ req[r].at = "wait" /\ proc[r].up
    /\ \E s \in Sid :
          /\ \/ req[r].kind = "new" /\ s \notin stored
             \/ req[r].kind = "load" /\ s \in stored /\ s = req[r].sid
          /\ proc' = [proc EXCEPT ![r].kernel = s]
          /\ req' = [req EXCEPT ![r].at = "result", ![r].sid = s]
          /\ stored' = stored \cup {s}
    /\ UNCHANGED <<open, sessions, sent, deaths>>

\* A forwarded request is answered by its process, or fails because the
\* process or the connection is gone.
ForwardAnswered(r) ==
    /\ req[r].kind = "forward" /\ req[r].at = "wait"
    /\ req' = Answered(r)
    /\ UNCHANGED <<open, sessions, proc, stored, sent, deaths>>

\* The kernel ends the session for session/close; its log is final.
KernelEnds(r) ==
    LET p == req[r].to IN
    /\ req[r].kind = "close" /\ req[r].at = "wait" /\ proc[p].up
    /\ req' = [req EXCEPT ![r].at = "result"]
    /\ proc' = [proc EXCEPT ![p].kernel = None]
    /\ stored' = stored \ {req[r].sid}
    /\ UNCHANGED <<open, sessions, sent, deaths>>

\* The result of session/close, or the loss of the process or the connection:
\* the client is answered and the process killed.
CloseAnswered(r) ==
    /\ req[r].kind = "close" /\ req[r].at \in {"wait", "result"}
    /\ req[r].at = "wait" => ~ proc[req[r].to].up \/ req[r].conn \notin open
    /\ req' = Answered(r)
    /\ proc' = Killed({req[r].to})
    /\ UNCHANGED <<open, sessions, stored, sent, deaths>>

\* A process dies by itself.  Its entry in the map stays.
ProcessDies(p) ==
    /\ proc[p].up /\ deaths < MaxDeaths
    /\ deaths' = deaths + 1
    /\ proc' = Killed({p})
    /\ UNCHANGED <<open, sessions, req, stored, sent>>

-----------------------------------------------------------------------------

Init ==
    /\ open = Conn
    /\ sessions = [c \in Conn |-> [s \in Sid |-> None]]
    /\ proc = [r \in Request |-> NoProcess]
    /\ req = [r \in Request |-> Unsent]
    /\ stored \in SUBSET Sid
    /\ sent = 0 /\ deaths = 0

Client ==
    \E c \in Conn :
        \/ \E r \in Request : ReceiveOpen(r, c) \/ ReceiveForward(r, c) \/ ReceiveClose(r, c)
        \/ CloseConnection(c)

Serve(r) ==
    \/ SpawnKernel(r) \/ Initialized(r) \/ InsertProcess(r) \/ OpenFails(r)
    \/ KernelOpens(r) \/ KernelEnds(r) \/ ForwardAnswered(r) \/ CloseAnswered(r)

Next == Client \/ \E r \in Request : Serve(r) \/ ProcessDies(r)

Spec == Init /\ [][Next]_vars

\* Tasks are polled as long as they can go on (tokio), and a kernel process
\* answers or goes away.
FairSpec == Spec /\ \A r \in Request : WF_vars(Serve(r))

-----------------------------------------------------------------------------
(* Properties *)

\* Every variable of the daemon has its type; a process that is not running
\* writes no log.
TypeOK ==
    /\ open \subseteq Conn
    /\ sessions \in [Conn -> [Sid -> Request \cup {None}]]
    /\ proc \in [Request -> [up : {TRUE}, kernel : Sid \cup {None}] \cup {NoProcess}]
    /\ req \in [Request -> [kind : {"none", "new", "load", "forward", "close"},
                            conn : Conn \cup {None}, sid : Sid \cup {None},
                            at : {"unsent", "task", "init", "wait", "result", "answered"},
                            to : 0 .. MaxRequests]]
    /\ stored \subseteq Sid
    /\ sent \in 0 .. MaxRequests /\ deaths \in 0 .. MaxDeaths

Pending(r) == req[r].at \notin {"unsent", "answered"}

\* Every running process is in the map of the open connection that asked for
\* it, or held by the task that opens it, by the close that ends it, or, of a
\* closed connection, by the map another task still keeps: none is left that
\* nothing would ever kill, however loads, closes, deaths and the end of the
\* connection interleave.
NoOrphan ==
    \A p \in Request : proc[p].up =>
        \/ Pending(p)
        \/ \E r \in Request : Pending(r) /\ req[r].kind = "close" /\ req[r].to = p
        \/ LET c == req[p].conn IN p \in Mapped(c) /\ (c \in open \/ Opening(c) # {})

\* The daemon always comes to rest with every request answered, whatever dies.
AllAnswered == []<>(\A r \in Request : ~ Pending(r))

\* The daemon serves a session by one kernel process (docs/specs/protocol.md
\* 1): no two processes write one log.
OneKernelPerSession ==
    \A p, q \in Request :
        proc[p].up /\ proc[q].up /\ proc[p].kernel # None /\ proc[p].kernel = proc[q].kernel
            => p = q
=============================================================================
