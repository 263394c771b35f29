--------------------------- MODULE Daemon_proofs ---------------------------
(***************************************************************************)
(* Proofs about Daemon, for any connections, sessions and number of        *)
(* requests: every variable keeps its type, and no kernel process is left  *)
(* running that nothing would ever kill.                                   *)
(*                                                                         *)
(* The inductive invariant is TypeOK /\ Requests /\ NoOrphan.              *)
(***************************************************************************)
EXTENDS Daemon, TLAPS

Opens == {"new", "load"}

\* How far each request has come: what is known of its connection, session and
\* process at each stage, and that only the request that spawned a process has
\* one running.
Requests ==
    \A r \in Request :
        /\ r > sent => req[r] = Unsent
        /\ r <= sent => req[r].conn \in Conn /\ req[r].kind # "none" /\ req[r].at # "unsent"
        /\ req[r].at \in {"task", "init"} => req[r].kind \in Opens
        /\ req[r].at = "result" \/ req[r].kind \in {"load", "forward", "close"} => req[r].sid \in Sid
        /\ req[r].kind = "close" /\ Pending(r) => req[r].to \in Request
        /\ proc[r].up => req[r].kind \in Opens /\ req[r].at \notin {"unsent", "task"}

Inv == TypeOK /\ Requests /\ NoOrphan

Process == [up : {TRUE}, kernel : Sid \cup {None}] \cup {NoProcess}

RequestType == [kind : {"none", "new", "load", "forward", "close"},
                conn : Conn \cup {None}, sid : Sid \cup {None},
                at : {"unsent", "task", "init", "wait", "result", "answered"},
                to : 0 .. MaxRequests]

-----------------------------------------------------------------------------
(* What the handlers do to requests and processes *)

\* KernelProc::kill and drop: a process still runs only if it did and was not
\* among the killed.
LEMMA KilledProperties ==
    ASSUME TypeOK, NEW ps
    PROVE  /\ Killed(ps) \in [Request -> Process]
           /\ \A p \in Request : Killed(ps)[p].up <=> proc[p].up /\ p \notin ps
  BY DEF TypeOK, Killed, Process, NoProcess

\* Answering a request changes nothing but where it is.
LEMMA AnsweredProperties ==
    ASSUME TypeOK, NEW r \in Request
    PROVE  /\ Answered(r) \in [Request -> RequestType]
           /\ \A q \in Request \ {r} : Answered(r)[q] = req[q]
           /\ Answered(r)[r].at = "answered"
           /\ Answered(r)[r].kind = req[r].kind
           /\ Answered(r)[r].conn = req[r].conn
           /\ Answered(r)[r].sid = req[r].sid
           /\ Answered(r)[r].to = req[r].to
  BY DEF TypeOK, Answered, RequestType

\* Starting a process, and naming the log a running one writes.
LEMMA ProcessChanges ==
    ASSUME NEW x \in Process, NEW k \in Sid \cup {None}
    PROVE  /\ [x EXCEPT !.up = TRUE] \in Process
           /\ x.up => [x EXCEPT !.kernel = k] \in Process /\ [x EXCEPT !.kernel = k].up
<1>1. CASE x \in [up : {TRUE}, kernel : Sid \cup {None}]
  <2>1. [x EXCEPT !.up = TRUE] \in [up : {TRUE}, kernel : Sid \cup {None}]
    BY <1>1
  <2>2. [x EXCEPT !.kernel = k] \in [up : {TRUE}, kernel : Sid \cup {None}]
    BY <1>1
  <2>3. [x EXCEPT !.kernel = k].up
    BY <1>1
  <2>4. QED
    BY <2>1, <2>2, <2>3 DEF Process
<1>2. CASE x = NoProcess
  <2>1. x \in [up : {FALSE}, kernel : Sid \cup {None}]
    BY <1>2 DEF NoProcess
  <2>2. [x EXCEPT !.up = TRUE] \in [up : {TRUE}, kernel : Sid \cup {None}]
    BY <2>1
  <2>3. ~ x.up
    BY <1>2 DEF NoProcess
  <2>4. QED
    BY <2>2, <2>3 DEF Process
<1>3. QED
  BY <1>1, <1>2 DEF Process

\* A request moves on.
LEMMA RequestChanges ==
    ASSUME NEW x \in RequestType,
           NEW at \in {"unsent", "task", "init", "wait", "result", "answered"},
           NEW s \in Sid \cup {None}, NEW to \in 0 .. MaxRequests
    PROVE  /\ [x EXCEPT !.at = at] \in RequestType
           /\ [x EXCEPT !.at = at, !.to = to] \in RequestType
           /\ [x EXCEPT !.at = at, !.sid = s] \in RequestType
  BY DEF RequestType

\* Answering a request, and killing any processes, keeps the record of the
\* requests.
LEMMA AnsweringKeepsRequests ==
    ASSUME TypeOK, Requests, NEW r \in Request, req[r].at \notin {"unsent", "answered"}, NEW ps,
           req' = Answered(r), proc' = Killed(ps), sent' = sent
    PROVE  Requests'
  BY AnsweredProperties, KilledProperties DEF Requests, Pending, Opens, Unsent

-----------------------------------------------------------------------------
(* Types and requests *)

\* A request that arrives is the next one: it was not sent, and spawned
\* nothing.
LEMMA ReceivesProperties ==
    ASSUME TypeOK, Requests, NEW r \in Request, NEW c \in Conn,
           NEW kind \in {"new", "load", "forward", "close"}, NEW s \in Sid \cup {None},
           NEW at \in {"task", "wait", "answered"}, NEW to \in 0 .. MaxRequests,
           Receives(r, c, kind, s, at, to),
           at = "task" <=> kind \in Opens, s = None => kind = "new",
           kind = "close" /\ at = "wait" => to \in Request
    PROVE  /\ req' \in [Request -> RequestType] /\ sent' \in 0 .. MaxRequests
           /\ Requests'
           /\ ~ Pending(r) /\ ~ proc[r].up
           /\ \A q \in Request \ {r} : req'[q] = req[q]
           /\ req'[r].kind = kind /\ req'[r].at = at /\ req'[r].conn = c /\ req'[r].to = to
<1>1. r = sent + 1 /\ sent' = r /\ proc' = proc /\ sent \in Nat /\ MaxRequests \in Nat
  BY DaemonBounds DEF Receives, TypeOK
<1>2. req' = [req EXCEPT ![r] = [kind |-> kind, conn |-> c, sid |-> s, at |-> at, to |-> to]]
  BY DEF Receives
<1>3. req' \in [Request -> RequestType] /\ \A q \in Request \ {r} : req'[q] = req[q]
  BY <1>2 DEF TypeOK, RequestType
<1>4. req'[r] = [kind |-> kind, conn |-> c, sid |-> s, at |-> at, to |-> to]
  BY <1>2 DEF TypeOK
<1>5. req[r] = Unsent
  BY <1>1 DEF Requests, Request
<1>6. ~ Pending(r) /\ ~ proc[r].up
  BY <1>5 DEF Pending, Unsent, Requests
<1>7. Requests'
  <2> SUFFICES ASSUME NEW q \in Request
               PROVE  /\ q > sent' => req'[q] = Unsent
                      /\ q <= sent' => req'[q].conn \in Conn /\ req'[q].kind # "none"
                                          /\ req'[q].at # "unsent"
                      /\ req'[q].at \in {"task", "init"} => req'[q].kind \in Opens
                      /\ req'[q].at = "result" \/ req'[q].kind \in {"load", "forward", "close"}
                            => req'[q].sid \in Sid
                      /\ req'[q].kind = "close" /\ Pending(q)' => req'[q].to \in Request
                      /\ proc'[q].up => req'[q].kind \in Opens
                                          /\ req'[q].at \notin {"unsent", "task"}
    BY DEF Requests
  <2>1. CASE q = r
    BY <2>1, <1>1, <1>4, <1>6 DEF Pending, Opens
  <2>2. CASE q # r
    BY <2>2, <1>1, <1>3 DEF Requests, Pending, Request
  <2>3. QED
    BY <2>1, <2>2
<1>8. QED
  BY <1>1, <1>3, <1>4, <1>6, <1>7 DEF Request

\* What a request that is received has to do with the map: sessions, prompts
\* and closes alike.
LEMMA ReceiveKeepsTypes ==
    ASSUME TypeOK, Requests, NEW r \in Request, NEW c \in Conn,
           ReceiveOpen(r, c) \/ ReceiveForward(r, c) \/ ReceiveClose(r, c)
    PROVE  /\ TypeOK' /\ Requests' /\ proc' = proc /\ open' = open
           /\ ~ Pending(r) /\ ~ proc[r].up
           /\ \A q \in Request \ {r} : req'[q] = req[q]
           /\ \A d \in Conn, s \in Sid :
                 \/ sessions'[d][s] = sessions[d][s]
                 \/ /\ req'[r].kind = "close" /\ req'[r].at = "wait"
                    /\ req'[r].to = sessions[d][s] 
<1> DEFINE Result ==
       /\ req' \in [Request -> RequestType] /\ sent' \in 0 .. MaxRequests
       /\ Requests' /\ ~ Pending(r) /\ ~ proc[r].up
       /\ UNCHANGED <<open, proc, stored, deaths>>
       /\ \A q \in Request \ {r} : req'[q] = req[q]
<1>1. CASE ReceiveOpen(r, c)
  <2>1. sessions' = sessions
    BY <1>1 DEF ReceiveOpen
  <2>2. CASE Receives(r, c, "new", None, "task", 0)
    <3>1. UNCHANGED <<open, proc, stored, deaths>>
      BY <2>2 DEF Receives
    <3>2. Result
      BY <2>2, <3>1, ReceivesProperties, DaemonBounds DEF Opens
    <3>3. QED
      BY <2>1, <3>2 DEF TypeOK, RequestType
  <2>3. ASSUME NEW s \in Sid, Receives(r, c, "load", s, "task", 0)
        PROVE  Result
    <3>1. UNCHANGED <<open, proc, stored, deaths>>
      BY <2>3 DEF Receives
    <3>2. QED
      BY <2>3, <3>1, ReceivesProperties, DaemonBounds DEF Opens
  <2>4. CASE \E s \in Sid : Receives(r, c, "load", s, "task", 0)
    BY <2>1, <2>3, <2>4 DEF TypeOK, RequestType
  <2>5. QED
    BY <1>1, <2>2, <2>4 DEF ReceiveOpen
<1>2. ASSUME NEW kind \in {"forward", "close"}, NEW s \in Sid,
             IF sessions[c][s] = None
             THEN Receives(r, c, kind, s, "answered", 0)
             ELSE Receives(r, c, kind, s, "wait", sessions[c][s])
      PROVE  /\ Result /\ req'[r].kind = kind
             /\ sessions[c][s] # None => req'[r].at = "wait" /\ req'[r].to = sessions[c][s]
  <2>1. sessions[c][s] # None => sessions[c][s] \in Request
    BY DEF TypeOK
  <2>2. s # None /\ Request \subseteq 0 .. MaxRequests /\ 0 \in 0 .. MaxRequests
    BY DaemonBounds DEF Request
  <2>3. CASE sessions[c][s] = None
    <3>1. Receives(r, c, kind, s, "answered", 0)
      BY <1>2, <2>3
    <3>2. UNCHANGED <<open, proc, stored, deaths>>
      BY <3>1 DEF Receives
    <3>3. QED
      BY <2>2, <2>3, <3>1, <3>2, ReceivesProperties DEF Opens
  <2>4. CASE sessions[c][s] # None
    <3>1. PICK p \in Request : p = sessions[c][s]
      BY <2>1, <2>4
    <3>2. Receives(r, c, kind, s, "wait", p)
      BY <1>2, <2>4, <3>1
    <3>3. UNCHANGED <<open, proc, stored, deaths>>
      BY <3>2 DEF Receives
    <3>4. /\ Result /\ req'[r].kind = kind
          /\ req'[r].at = "wait" /\ req'[r].to = p
      BY <2>2, <3>2, <3>3, ReceivesProperties DEF Opens
    <3>5. QED
      BY <3>1, <3>4
  <2>5. QED
    BY <2>3, <2>4
<1>3. CASE ReceiveForward(r, c)
  <2>1. Result /\ sessions' = sessions
    BY <1>2, <1>3 DEF ReceiveForward
  <2>2. QED
    BY <2>1 DEF TypeOK, RequestType
<1>4. CASE ReceiveClose(r, c)
  <2>1. PICK s \in Sid :
           /\ IF sessions[c][s] = None
              THEN Receives(r, c, "close", s, "answered", 0)
              ELSE Receives(r, c, "close", s, "wait", sessions[c][s])
           /\ sessions' = [sessions EXCEPT ![c][s] = None]
    BY <1>4 DEF ReceiveClose
  <2>2. /\ Result /\ req'[r].kind = "close"
        /\ sessions[c][s] # None => req'[r].at = "wait" /\ req'[r].to = sessions[c][s]
    BY <1>2, <2>1
  <2>3. sessions' \in [Conn -> [Sid -> Request \cup {None}]]
    BY <2>1 DEF TypeOK
  <2>4. \A d \in Conn, t \in Sid : sessions'[d][t] = sessions[d][t] \/ (d = c /\ t = s)
    BY <2>1 DEF TypeOK
  <2>5. sessions'[c][s] = None
    BY <2>1 DEF TypeOK
  <2>6. TypeOK'
    BY <2>2, <2>3 DEF TypeOK, RequestType
  <2>7. QED
    BY <2>2, <2>4, <2>5, <2>6
<1>5. QED
  BY <1>1, <1>3, <1>4

\* The connection of a request that is pending, the sid of an opened session
\* and the process of a close are there to be used.
LEMMA PendingIsTyped ==
    ASSUME TypeOK, Requests, NEW r \in Request, Pending(r)
    PROVE  /\ req[r].conn \in Conn /\ r <= sent
           /\ req[r].kind = "close" => req[r].to \in Request
           /\ req[r].at = "result" => req[r].sid \in Sid
<1>1. r <= sent
  BY DaemonBounds DEF Requests, Pending, Unsent, TypeOK, Request
<1>2. QED
  BY <1>1 DEF Requests

\* Every step of the daemon and of the processes keeps the types and the
\* record of the requests.
LEMMA StepKeepsTypes ==
    ASSUME TypeOK, Requests, [Next]_vars
    PROVE  TypeOK' /\ Requests'
<1>1. CASE UNCHANGED vars
  BY <1>1 DEF vars, TypeOK, Requests, Pending
<1>2. ASSUME NEW c \in Conn, NEW r \in Request,
             ReceiveOpen(r, c) \/ ReceiveForward(r, c) \/ ReceiveClose(r, c)
      PROVE  TypeOK' /\ Requests'
  BY <1>2, ReceiveKeepsTypes
<1>3. ASSUME NEW c \in Conn, CloseConnection(c)
      PROVE  TypeOK' /\ Requests'
  <2>1. /\ proc' \in [Request -> Process]
        /\ \A p \in Request : proc'[p].up => proc[p].up
    BY <1>3, KilledProperties DEF CloseConnection
  <2>2. sessions' \in [Conn -> [Sid -> Request \cup {None}]]
    BY <1>3 DEF CloseConnection, TypeOK
  <2>3. TypeOK'
    BY <1>3, <2>1, <2>2 DEF CloseConnection, TypeOK, Process, NoProcess
  <2>4. QED
    BY <1>3, <2>1, <2>3 DEF CloseConnection, Requests, Pending
<1>4. ASSUME NEW r \in Request, Pending(r), NEW ps,
             req' = Answered(r), proc' = Killed(ps), UNCHANGED <<open, stored, sent, deaths>>,
             sessions' \in [Conn -> [Sid -> Request \cup {None}]]
      PROVE  TypeOK' /\ Requests'
  <2>1. proc' \in [Request -> Process] /\ req' \in [Request -> RequestType]
    BY <1>4, KilledProperties, AnsweredProperties
  <2>2. TypeOK'
    BY <1>4, <2>1 DEF TypeOK, Process, RequestType, NoProcess
  <2>3. Requests'
    BY <1>4, AnsweringKeepsRequests DEF Pending
  <2>4. QED
    BY <2>2, <2>3
<1>5. ASSUME NEW r \in Request, SpawnKernel(r)
      PROVE  TypeOK' /\ Requests'
  <2>1. CASE req' = Answered(r) /\ proc' = Killed(DroppedWith(r, sessions))
    BY <1>4, <1>5, <2>1 DEF SpawnKernel, Pending, TypeOK
  <2>2. CASE /\ req' = [req EXCEPT ![r].at = "init", ![r].to = r]
             /\ proc' = [proc EXCEPT ![r].up = TRUE]
    <3>1. r \in 0 .. MaxRequests
      BY DaemonBounds DEF Request
    <3>2. req \in [Request -> RequestType] /\ proc \in [Request -> Process]
      BY DEF TypeOK, Process, RequestType
    <3>3. [req[r] EXCEPT !.at = "init", !.to = r] \in RequestType
      BY <3>1, <3>2, RequestChanges
    <3>4. req' \in [Request -> RequestType]
      BY <2>2, <3>2, <3>3
    <3>5. proc' \in [Request -> Process]
      BY <2>2, <3>2, ProcessChanges
    <3>6. TypeOK'
      BY <1>5, <3>4, <3>5 DEF SpawnKernel, TypeOK, Process, RequestType, NoProcess
    <3>7. req[r].kind \in Opens
      BY <1>5 DEF SpawnKernel, Requests
    <3>8. Requests'
      BY <1>5, <2>2, <3>7 DEF SpawnKernel, Requests, TypeOK, Pending, Opens, Unsent
    <3>9. QED
      BY <3>6, <3>8
  <2>3. QED
    BY <1>5, <2>1, <2>2 DEF SpawnKernel
<1>6. ASSUME NEW r \in Request, Initialized(r)
      PROVE  TypeOK' /\ Requests'
  <2>1. req \in [Request -> RequestType]
    BY DEF TypeOK, RequestType
  <2>2. [req[r] EXCEPT !.at = "wait"] \in RequestType
    BY <2>1 DEF RequestType
  <2>3. req' \in [Request -> RequestType]
    BY <1>6, <2>1, <2>2 DEF Initialized
  <2>4. TypeOK'
    BY <1>6, <2>3 DEF Initialized, TypeOK, RequestType
  <2>5. Requests'
    BY <1>6 DEF Initialized, Requests, TypeOK, Pending, Opens, Unsent
  <2>6. QED
    BY <2>4, <2>5
<1>7. ASSUME NEW r \in Request, InsertProcess(r)
      PROVE  TypeOK' /\ Requests'
  <2>1. Pending(r)
    BY <1>7 DEF InsertProcess, Pending
  <2>2. req[r].conn \in Conn /\ req[r].sid \in Sid
    BY <1>7, <2>1, PendingIsTyped DEF InsertProcess
  <2>3. sessions' \in [Conn -> [Sid -> Request \cup {None}]]
    BY <1>7, <2>2 DEF InsertProcess, TypeOK
  <2>4. QED
    BY <1>4, <1>7, <2>1, <2>3 DEF InsertProcess
<1>8. ASSUME NEW r \in Request, OpenFails(r)
      PROVE  TypeOK' /\ Requests'
  BY <1>4, <1>8 DEF OpenFails, Pending, TypeOK
<1>9. ASSUME NEW r \in Request, KernelOpens(r)
      PROVE  TypeOK' /\ Requests'
  <2> 0 \in 0 .. MaxRequests
    BY DaemonBounds
  <2>1. PICK s \in Sid :
           /\ req[r].kind \in Opens
           /\ proc' = [proc EXCEPT ![r].kernel = s]
           /\ req' = [req EXCEPT ![r].at = "result", ![r].sid = s]
           /\ stored' = stored \cup {s}
    BY <1>9 DEF KernelOpens, Opens
  <2> req \in [Request -> RequestType] /\ proc \in [Request -> Process]
    BY DEF TypeOK, Process, RequestType
  <2>2. /\ proc' \in [Request -> Process]
        /\ \A p \in Request : proc'[p].up => proc[p].up
    BY <1>9, <2>1, ProcessChanges DEF KernelOpens
  <2>3. req' \in [Request -> RequestType]
    <3>1. [req[r] EXCEPT !.at = "result", !.sid = s] \in RequestType
      BY RequestChanges, 0 \in 0 .. MaxRequests
    <3>2. QED
      BY <2>1, <3>1
  <2>4. TypeOK'
    BY <1>9, <2>1, <2>2, <2>3 DEF KernelOpens, TypeOK, Process, RequestType, NoProcess
  <2>5. Requests'
    BY <1>9, <2>1, <2>2 DEF KernelOpens, Requests, TypeOK, Pending, Opens, Unsent
  <2>6. QED
    BY <2>4, <2>5
<1>10. ASSUME NEW r \in Request, KernelEnds(r)
       PROVE  TypeOK' /\ Requests'
  <2>1. req[r].to \in Request /\ req[r].sid \in Sid \cup {None}
    BY <1>10, PendingIsTyped DEF KernelEnds, Pending, TypeOK
  <2> req \in [Request -> RequestType] /\ proc \in [Request -> Process]
    BY DEF TypeOK, Process, RequestType
  <2>2. /\ proc' \in [Request -> Process]
        /\ \A p \in Request : proc'[p].up => proc[p].up
    BY <1>10, <2>1, ProcessChanges DEF KernelEnds
  <2>3. req' \in [Request -> RequestType]
    BY <1>10, ZenonT(30) DEF KernelEnds, TypeOK, RequestType
  <2>4. TypeOK'
    BY <1>10, <2>2, <2>3 DEF KernelEnds, TypeOK, Process, RequestType, NoProcess
  <2>5. Requests'
    BY <1>10, <2>2 DEF KernelEnds, Requests, TypeOK, Pending, Opens, Unsent
  <2>6. QED
    BY <2>4, <2>5
<1>11. ASSUME NEW r \in Request, ForwardAnswered(r)
       PROVE  TypeOK' /\ Requests'
  <2>1. Killed({}) = proc
    BY DEF Killed, TypeOK
  <2>2. QED
    BY <1>4, <1>11, <2>1 DEF ForwardAnswered, Pending, TypeOK
<1>12. ASSUME NEW r \in Request, CloseAnswered(r)
       PROVE  TypeOK' /\ Requests'
  BY <1>4, <1>12 DEF CloseAnswered, Pending, TypeOK
<1>13. ASSUME NEW p \in Request, ProcessDies(p)
       PROVE  TypeOK' /\ Requests'
  <2>1. /\ proc' \in [Request -> Process]
        /\ \A q \in Request : proc'[q].up => proc[q].up
    BY <1>13, KilledProperties DEF ProcessDies
  <2>2. deaths' \in 0 .. MaxDeaths
    BY <1>13, DaemonBounds DEF ProcessDies, TypeOK
  <2>3. TypeOK'
    BY <1>13, <2>1, <2>2 DEF ProcessDies, TypeOK, Process, NoProcess
  <2>4. QED
    BY <1>13, <2>1, <2>3 DEF ProcessDies, Requests, Pending
<1>14. QED
  BY <1>1, <1>2, <1>3, <1>5, <1>6, <1>7, <1>8, <1>9, <1>10, <1>11, <1>12, <1>13
     DEF Next, Client, Serve

-----------------------------------------------------------------------------
(* Somebody holds every process *)

\* A close that is under way holds process p.
Closing(p) == \E r \in Request : Pending(r) /\ req[r].kind = "close" /\ req[r].to = p

\* Process p is in the map of its connection, which is open or still kept by a
\* task.
InMap(p) == p \in Mapped(req[p].conn) /\ (req[p].conn \in open \/ Opening(req[p].conn) # {})

\* The connection of a request that spawned a process is known.
LEMMA SpawnerHasConnection ==
    ASSUME TypeOK, Requests, NEW p \in Request, proc[p].up
    PROVE  req[p].conn \in Conn /\ p # None
  BY DaemonBounds DEF Requests, Unsent, TypeOK, Request

\* Receiving a request: a close takes over the process it removes.
LEMMA ReceiveKeepsHolders ==
    ASSUME Inv, NEW r \in Request, NEW c \in Conn,
           ReceiveOpen(r, c) \/ ReceiveForward(r, c) \/ ReceiveClose(r, c)
    PROVE  NoOrphan'
<1> DEFINE taken == {p \in Request : req'[r].kind = "close" /\ req'[r].at = "wait" /\ req'[r].to = p}
<1>1. /\ TypeOK /\ Requests /\ proc' = proc /\ open' = open
      /\ ~ Pending(r) /\ ~ proc[r].up
      /\ \A q \in Request \ {r} : req'[q] = req[q]
      /\ \A d \in Conn, s \in Sid :
            sessions'[d][s] = sessions[d][s] \/ sessions[d][s] = None \/ sessions[d][s] \in taken
  <2>1. TypeOK /\ Requests
    BY DEF Inv
  <2>2. \A d \in Conn, s \in Sid : sessions[d][s] = None \/ sessions[d][s] \in Request
    BY <2>1 DEF TypeOK
  <2>3. QED
    BY <2>1, <2>2, ReceiveKeepsTypes
<1>2. SUFFICES ASSUME NEW p \in Request, proc'[p].up
               PROVE  Pending(p)' \/ Closing(p)' \/ InMap(p)'
  BY DEF NoOrphan, Closing, InMap
<1>3. p # r /\ req'[p] = req[p] /\ proc[p].up
  BY <1>1, <1>2
<1>4. CASE Pending(p)
  BY <1>3, <1>4 DEF Pending
<1>5. CASE Closing(p)
  BY <1>1, <1>5 DEF Closing, Pending
<1>6. CASE InMap(p) /\ p \in taken
  BY <1>6 DEF Closing, Pending
<1>7. CASE InMap(p) /\ p \notin taken
  <2>1. req[p].conn \in Conn
    BY <1>1, <1>3, SpawnerHasConnection
  <2>2. p # None
    BY <1>1, <1>3, SpawnerHasConnection
  <2>3. PICK s \in Sid : sessions[req[p].conn][s] = p
    BY <1>7 DEF InMap, Mapped
  <2>4. sessions'[req[p].conn][s] = p
    BY <1>1, <1>7, <2>1, <2>2, <2>3
  <2>5. p \in Mapped(req[p].conn)'
    BY <1>3, <2>2, <2>4 DEF Mapped
  <2>6. Opening(req[p].conn) # {} => Opening(req[p].conn)' # {}
    BY <1>1, <1>3 DEF Opening, Pending
  <2>7. QED
    BY <1>1, <1>3, <1>7, <2>5, <2>6 DEF InMap
<1>8. QED
  BY <1>3, <1>4, <1>5, <1>6, <1>7 DEF Inv, NoOrphan, Closing, InMap

\* The end of a request r that kills the processes ps loses no other process:
\* a close must kill the one it holds, the last task of a closed connection
\* those in the map it drops, and what leaves the map must be killed.
LEMMA AnswerKeepsHolders ==
    ASSUME Inv, NEW r \in Request, Pending(r), NEW ps,
           req' = Answered(r), proc' = Killed(ps), open' = open,
           proc'[r].up => InMap(r)',
           req[r].kind = "close" => req[r].to \in ps,
           req[r].kind \in Opens => DroppedWith(r, sessions') \subseteq ps,
           \A d \in Conn, s \in Sid :
               sessions'[d][s] = sessions[d][s] \/ sessions[d][s] = None \/ sessions[d][s] \in ps
    PROVE  NoOrphan'
<1>1. TypeOK /\ Requests
  BY DEF Inv
<1>2. /\ \A q \in Request \ {r} : req'[q] = req[q]
      /\ \A p \in Request : proc'[p].up <=> proc[p].up /\ p \notin ps
      /\ req'[r].conn = req[r].conn /\ req'[r].kind = req[r].kind
  BY <1>1, AnsweredProperties, KilledProperties
<1>3. SUFFICES ASSUME NEW p \in Request, p # r, proc'[p].up
               PROVE  Pending(p)' \/ Closing(p)' \/ InMap(p)'
  BY DEF NoOrphan, Closing, InMap
<1>4. req'[p] = req[p] /\ proc[p].up /\ p \notin ps
  BY <1>2, <1>3
<1>5. CASE Pending(p)
  BY <1>4, <1>5 DEF Pending
<1>6. CASE Closing(p)
  <2>1. PICK q \in Request : Pending(q) /\ req[q].kind = "close" /\ req[q].to = p
    BY <1>6 DEF Closing
  <2>2. q # r
    BY <1>4, <2>1
  <2>3. QED
    BY <1>2, <2>1, <2>2 DEF Closing, Pending
<1>7. CASE InMap(p)
  <2> DEFINE c == req[p].conn
  <2>1. c \in Conn /\ p # None
    BY <1>1, <1>4, SpawnerHasConnection
  <2>2. PICK s \in Sid : sessions[c][s] = p
    BY <1>7 DEF InMap, Mapped
  <2>3. sessions'[c][s] = p
    BY <1>4, <2>1, <2>2
  <2>4. p \in Mapped(c)'
    BY <1>4, <2>1, <2>3 DEF Mapped
  <2>5. c \in open \/ Opening(c)' # {}
    <3>1. SUFFICES ASSUME c \notin open
                   PROVE  \E q \in Opening(c) : q # r
      BY <1>2, <1>4 DEF Opening
    <3>2. Opening(c) # {}
      BY <1>7, <3>1 DEF InMap
    <3>3. CASE Opening(c) = {r}
      <4>1. req[r].conn = c /\ req[r].kind \in Opens
        BY <3>3 DEF Opening, Opens
      <4>2. p \in DroppedWith(r, sessions')
        BY <2>1, <2>3, <3>1, <3>3, <4>1 DEF DroppedWith
      <4>3. QED
        BY <1>4, <4>1, <4>2
    <3>4. QED
      BY <3>2, <3>3
  <2>6. QED
    BY <1>4, <2>4, <2>5 DEF InMap
<1>8. QED
  BY <1>4, <1>5, <1>6, <1>7 DEF Inv, NoOrphan, Closing, InMap

\* A step that leaves the map, the connections and every pending request where
\* they are, and starts no process but that of a pending request, loses none.
LEMMA OtherStepsKeepHolders ==
    ASSUME Inv, TypeOK', UNCHANGED <<open, sessions>>,
           \A q \in Request : /\ req'[q].conn = req[q].conn /\ req'[q].kind = req[q].kind
                              /\ Pending(q) => Pending(q)'
                              /\ req[q].kind = "close" => req'[q].to = req[q].to
                              /\ proc'[q].up => proc[q].up \/ Pending(q)
    PROVE  NoOrphan'
<1>1. SUFFICES ASSUME NEW p \in Request, proc'[p].up
               PROVE  Pending(p)' \/ Closing(p)' \/ InMap(p)'
  BY DEF NoOrphan, Closing, InMap
<1>2. Pending(p) \/ Closing(p) \/ InMap(p)
  BY <1>1 DEF Inv, NoOrphan, Closing, InMap
<1>3. CASE Pending(p)
  BY <1>3
<1>4. CASE Closing(p)
  BY <1>4 DEF Closing
<1>5. CASE InMap(p)
  <2>1. \A c : Opening(c) # {} => Opening(c)' # {}
    <3>1. ASSUME NEW c, NEW q \in Opening(c)
          PROVE  q \in Opening(c)'
      <4>1. q \in Request /\ Pending(q) /\ req[q].kind \in Opens /\ req[q].conn = c
        BY DEF Opening, Pending, Opens
      <4>2. Pending(q)' /\ req'[q].kind \in Opens /\ req'[q].conn = c
        BY <4>1
      <4>3. req'[q].at \in {"task", "init", "wait", "result"}
        BY <4>1, <4>2 DEF Pending, TypeOK
      <4>4. QED
        BY <4>1, <4>2, <4>3 DEF Opening, Opens
    <3>2. QED
      BY <3>1
  <2>2. QED
    BY <1>5, <2>1 DEF InMap, Mapped
<1>6. QED
  BY <1>2, <1>3, <1>4, <1>5

\* Every step keeps somebody to kill each running process.
LEMMA StepKeepsHolders ==
    ASSUME Inv, [Next]_vars
    PROVE  NoOrphan'
<1>1. TypeOK /\ Requests /\ TypeOK' /\ Requests'
  BY StepKeepsTypes DEF Inv
<1>2. CASE UNCHANGED vars
  BY <1>1, <1>2, OtherStepsKeepHolders DEF vars, Pending
<1>3. ASSUME NEW c \in Conn, NEW r \in Request,
             ReceiveOpen(r, c) \/ ReceiveForward(r, c) \/ ReceiveClose(r, c)
      PROVE  NoOrphan'
  BY <1>3, ReceiveKeepsHolders
<1>4. ASSUME NEW c \in Conn, CloseConnection(c)
      PROVE  NoOrphan'
  <2>1. SUFFICES ASSUME NEW p \in Request, proc'[p].up
                 PROVE  Pending(p)' \/ Closing(p)' \/ InMap(p)'
    BY DEF NoOrphan, Closing, InMap
  <2>2. proc[p].up /\ p \notin Mapped(c) /\ req' = req
    BY <1>1, <1>4, <2>1, KilledProperties DEF CloseConnection
  <2>3. CASE InMap(p)
    <3>1. req[p].conn # c /\ req[p].conn \in Conn
      BY <1>1, <2>2, <2>3, SpawnerHasConnection DEF InMap
    <3>2. /\ sessions'[req[p].conn] = sessions[req[p].conn]
          /\ req[p].conn \in open => req[p].conn \in open'
      BY <1>1, <1>4, <3>1 DEF CloseConnection, TypeOK
    <3>3. QED
      BY <2>2, <2>3, <3>2 DEF InMap, Mapped, Opening
  <2>4. CASE Pending(p) \/ Closing(p)
    BY <2>2, <2>4 DEF Pending, Closing
  <2>5. QED
    BY <2>2, <2>3, <2>4 DEF Inv, NoOrphan, Closing, InMap
<1>5. ASSUME NEW r \in Request, SpawnKernel(r)
      PROVE  NoOrphan'
  <2>1. Pending(r) /\ ~ proc[r].up
    BY <1>1, <1>5 DEF SpawnKernel, Pending, Requests
  <2>2. CASE req' = Answered(r) /\ proc' = Killed(DroppedWith(r, sessions))
    <3>1. ~ proc'[r].up /\ req[r].kind # "close"
      BY <1>1, <1>5, <2>1, <2>2, KilledProperties DEF SpawnKernel, Requests, Opens
    <3>2. sessions' = sessions /\ open' = open
      BY <1>5 DEF SpawnKernel
    <3>3. QED
      BY <2>1, <2>2, <3>1, <3>2, AnswerKeepsHolders
  <2>3. CASE /\ req' = [req EXCEPT ![r].at = "init", ![r].to = r]
             /\ proc' = [proc EXCEPT ![r].up = TRUE]
    <3>1. req[r].kind # "close" /\ UNCHANGED <<open, sessions>>
      BY <1>1, <1>5 DEF SpawnKernel, Requests, Opens
    <3>2. \A q \in Request : /\ req'[q].conn = req[q].conn /\ req'[q].kind = req[q].kind
                             /\ Pending(q) => Pending(q)'
                             /\ req[q].kind = "close" => req'[q].to = req[q].to
      BY <1>1, <2>3, <3>1 DEF TypeOK, Pending
    <3>3. \A q \in Request : proc'[q].up => proc[q].up \/ Pending(q)
      BY <1>1, <2>1, <2>3 DEF TypeOK
    <3>4. QED
      BY <1>1, <3>1, <3>2, <3>3, OtherStepsKeepHolders
  <2>4. QED
    BY <1>5, <2>2, <2>3 DEF SpawnKernel
<1>6. ASSUME NEW r \in Request, Initialized(r)
      PROVE  NoOrphan'
  <2>1. \A q \in Request : /\ req'[q].conn = req[q].conn /\ req'[q].kind = req[q].kind
                           /\ req'[q].to = req[q].to
                           /\ Pending(q) => Pending(q)'
    BY <1>1, <1>6 DEF Initialized, TypeOK, Pending
  <2>2. QED
    BY <1>1, <1>6, <2>1, OtherStepsKeepHolders DEF Initialized
<1>7. ASSUME NEW r \in Request, InsertProcess(r)
      PROVE  NoOrphan'
  <2> DEFINE c == req[r].conn
             s == req[r].sid
             ps == (DroppedWith(r, sessions') \cup {sessions[c][s]}) \ {None}
  <2>1. /\ Pending(r) /\ req[r].kind \in Opens /\ c \in Conn /\ s \in Sid
        /\ sessions' = [sessions EXCEPT ![c][s] = r]
        /\ req' = Answered(r) /\ proc' = Killed(ps) /\ open' = open
    BY <1>1, <1>7, PendingIsTyped DEF InsertProcess, Pending, Opens
  <2>2. r # None
    BY DaemonBounds DEF Request
  <2>3. \A d \in Conn, t \in Sid :
           sessions'[d][t] = sessions[d][t] \/ sessions[d][t] = None \/ sessions[d][t] \in ps
    BY <1>1, <2>1 DEF TypeOK
  <2>4. sessions'[c][s] = r
    BY <1>1, <2>1 DEF TypeOK
  <2>5. DroppedWith(r, sessions') \subseteq ps
    BY DEF DroppedWith
  <2>6. proc'[r].up => InMap(r)'
    <3>1. SUFFICES ASSUME r \notin ps
                   PROVE  InMap(r)'
      BY <1>1, <2>1, KilledProperties
    <3>2. r \in Mapped(c)' /\ req'[r].conn = c
      BY <1>1, <2>1, <2>2, <2>4, AnsweredProperties DEF Mapped
    <3>3. ASSUME c \notin open
          PROVE  Opening(c)' # {}
      <4>1. r \in Opening(c)
        BY <1>7, <2>1 DEF Opening, InsertProcess, Opens
      <4>2. Opening(c) # {r}
        BY <2>2, <2>1, <2>4, <2>5, <3>1, <3>3 DEF DroppedWith
      <4>3. PICK q \in Opening(c) : q # r
        BY <4>1, <4>2
      <4>4. q \in Opening(c)'
        BY <1>1, <2>1, <4>3, AnsweredProperties DEF Opening
      <4>5. QED
        BY <4>4
    <3>4. QED
      BY <2>1, <3>2, <3>3 DEF InMap
  <2> HIDE DEF ps
  <2>7. QED
    BY <2>1, <2>3, <2>5, <2>6, AnswerKeepsHolders DEF Opens
<1>8. ASSUME NEW r \in Request, OpenFails(r)
      PROVE  NoOrphan'
  <2>1. Pending(r) /\ req[r].kind # "close" /\ ~ proc'[r].up
    BY <1>1, <1>8, KilledProperties DEF OpenFails, Pending
  <2>2. QED
    BY <1>8, <2>1, AnswerKeepsHolders DEF OpenFails
<1>9. ASSUME NEW r \in Request, KernelOpens(r)
      PROVE  NoOrphan'
  <2>1. PICK s \in Sid : /\ proc' = [proc EXCEPT ![r].kernel = s]
                         /\ req' = [req EXCEPT ![r].at = "result", ![r].sid = s]
    BY <1>9 DEF KernelOpens
  <2>2. \A q \in Request : /\ req'[q].conn = req[q].conn /\ req'[q].kind = req[q].kind
                           /\ req'[q].to = req[q].to
                           /\ Pending(q) => Pending(q)'
    BY <1>1, <2>1 DEF TypeOK, Pending
  <2>3. \A q \in Request : proc'[q].up => proc[q].up \/ Pending(q)
    BY <1>1, <1>9, <2>1 DEF TypeOK, Pending, KernelOpens
  <2>4. UNCHANGED <<open, sessions>>
    BY <1>9 DEF KernelOpens
  <2>5. QED
    BY <1>1, <2>2, <2>3, <2>4, OtherStepsKeepHolders
<1>10. ASSUME NEW r \in Request, KernelEnds(r)
       PROVE  NoOrphan'
  <2>1. \A q \in Request : /\ req'[q].conn = req[q].conn /\ req'[q].kind = req[q].kind
                           /\ req'[q].to = req[q].to
                           /\ Pending(q) => Pending(q)'
    BY <1>1, <1>10 DEF KernelEnds, TypeOK, Pending
  <2>2. \A q \in Request : proc'[q].up => proc[q].up
    BY <1>1, <1>10 DEF KernelEnds, TypeOK
  <2>3. QED
    BY <1>1, <1>10, <2>1, <2>2, OtherStepsKeepHolders DEF KernelEnds
<1>11. ASSUME NEW r \in Request, ForwardAnswered(r)
       PROVE  NoOrphan'
  <2>1. Killed({}) = proc
    BY <1>1 DEF Killed, TypeOK
  <2>2. Pending(r) /\ req[r].kind \notin Opens \cup {"close"} /\ ~ proc'[r].up
    BY <1>1, <1>11 DEF ForwardAnswered, Pending, Opens, Requests
  <2>3. QED
    BY <1>11, <2>1, <2>2, AnswerKeepsHolders DEF ForwardAnswered
<1>12. ASSUME NEW r \in Request, CloseAnswered(r)
       PROVE  NoOrphan'
  <2>1. Pending(r) /\ req[r].kind = "close" /\ req[r].kind \notin Opens
    BY <1>12 DEF CloseAnswered, Pending, Opens
  <2>2. ~ proc'[r].up
    BY <1>1, <1>12, <2>1, KilledProperties DEF CloseAnswered, Requests
  <2>3. QED
    BY <1>12, <2>1, <2>2, AnswerKeepsHolders DEF CloseAnswered
<1>13. ASSUME NEW p \in Request, ProcessDies(p)
       PROVE  NoOrphan'
  <2>1. \A q \in Request : proc'[q].up => proc[q].up
    BY <1>1, <1>13, KilledProperties DEF ProcessDies
  <2>2. QED
    BY <1>1, <1>13, <2>1, OtherStepsKeepHolders DEF ProcessDies, Pending
<1>14. QED
  BY <1>2, <1>3, <1>4, <1>5, <1>6, <1>7, <1>8, <1>9, <1>10, <1>11, <1>12, <1>13
     DEF Next, Client, Serve

-----------------------------------------------------------------------------
(* The theorems *)

\* TypeOK, the record of the requests and NoOrphan are together inductive.
THEOREM DaemonInvariant == Spec => []Inv
<1>1. Init => Inv
  <2>1. ASSUME Init
        PROVE  Inv
    <3>1. TypeOK
      BY <2>1, DaemonBounds DEF Init, TypeOK, NoProcess, Unsent
    <3>2. \A r \in Request : ~ proc[r].up /\ req[r] = Unsent /\ r > sent
      BY <2>1, DaemonBounds DEF Init, NoProcess, Request
    <3>3. Requests
      BY <3>1, <3>2, DaemonBounds DEF Requests, Unsent, Pending, Opens, TypeOK, Request
    <3>4. NoOrphan
      BY <3>2 DEF NoOrphan
    <3>5. QED
      BY <3>1, <3>3, <3>4 DEF Inv
  <2>2. QED
    BY <2>1
<1>2. Inv /\ [Next]_vars => Inv'
  <2>1. ASSUME Inv, [Next]_vars
        PROVE  Inv'
    <3>1. TypeOK' /\ Requests'
      BY <2>1, StepKeepsTypes DEF Inv
    <3>2. NoOrphan'
      BY <2>1, StepKeepsHolders
    <3>3. QED
      BY <3>1, <3>2 DEF Inv
  <2>2. QED
    BY <2>1
<1>3. QED
  BY <1>1, <1>2, PTL DEF Spec

\* Every variable of the daemon keeps its type, for any number of requests.
THEOREM DaemonTypeCorrect == Spec => []TypeOK
<1>1. Inv => TypeOK
  BY DEF Inv
<1>2. QED
  BY <1>1, DaemonInvariant, PTL

\* No kernel process is left running that nothing would ever kill, however the
\* opening tasks, closes, deaths of processes and ends of connections
\* interleave, with or without fairness.
THEOREM NoProcessOrphaned == Spec => []NoOrphan
<1>1. Inv => NoOrphan
  BY DEF Inv
<1>2. QED
  BY <1>1, DaemonInvariant, PTL
=============================================================================
