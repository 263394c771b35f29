---------------------------- MODULE Server_proofs ----------------------------
(***************************************************************************)
(* Proofs about Server, for any session ids, requests, cancels, turns and  *)
(* channel capacity: what the answers to a prompt and to a close mean.     *)
(*                                                                         *)
(* The inductive invariant Inv relates a command on its way to the live    *)
(* session it goes to: where it is (Formed, Lined, Served), that a close   *)
(* is the last to reach a session and never finds its driver gone          *)
(* (Closing), and what the cancel flag says of the unanswered prompts      *)
(* (Charged, CutShort).                                                    *)
(***************************************************************************)
EXTENDS Server, TLAPS

At == {"unsent", "check", "launch", "send", "queued", "replied", "answered"}
Kind == {"none", "new", "load", "prompt", "close", "status"}
Out == {"none", "ok", "error", "unknown", "gone", "value", "ended", "idle", "suspended", "failed",
        "end_turn", "cancelled"}

RequestType == [kind : Kind, sid : Sid \cup {None}, at : At, to : 0 .. MaxRequests, out : Out]

LiveType == [sid : Sid \cup {None}, up : BOOLEAN, status : Statuses,
             token : {"none", "armed", "fired"}, cancel_requested : BOOLEAN,
             message : BOOLEAN, waker : BOOLEAN, lost : BOOLEAN, serving : 0 .. MaxRequests]

\* The types, with those TypeOK leaves open: the registry, the channels and
\* the number of requests.
Typed ==
    /\ req \in [Request -> RequestType]
    /\ reg \in [Sid -> Request \cup {None}]
    /\ live \in [Request -> LiveType]
    /\ queue \in [Request -> Seq(Request)]
    /\ \A i \in Request : Len(queue[i]) <= Cap
    /\ stored \in [Sid -> Statuses]
    /\ sent \in 0 .. MaxRequests
    /\ asked \subseteq Request /\ cut \subseteq Request /\ crowded \subseteq Request

\* A command is on its way from the handler that took it to its answer.
Pending == {"send", "queued", "replied"}

\* The replies a driver gives to a command, or its going away.
Replies(kind) ==
    IF kind = "prompt" THEN {"idle", "suspended", "failed", "error", "gone"}
    ELSE IF kind = "close" THEN {"ended", "error"}
    ELSE {"value", "gone"}

\* How far each request has come: only a command has a live session to go to,
\* which the request that opened it was answered for before.
Formed ==
    \A r \in Request :
        /\ r > sent => req[r].at = "unsent" /\ req[r].to = 0
        /\ req[r].at = "unsent" => r > sent
        /\ req[r].at \in {"check", "launch"} =>
              req[r].kind \in {"new", "load"} /\ req[r].to = 0 /\ req[r].sid \in Sid
        /\ req[r].at \in Pending => req[r].to # 0
        /\ req[r].to # 0 =>
              /\ req[r].at \in Pending \cup {"answered"}
              /\ req[r].kind \in {"prompt", "close", "status"}
              /\ req[r].to \in Request /\ req[req[r].to].at = "answered"
        /\ req[r].at = "replied" => req[r].out \in Replies(req[r].kind)
        /\ req[r].at = "answered" /\ req[r].to = 0 =>
              ~ (req[r].kind = "close" /\ req[r].out = "ok") /\ req[r].out # "cancelled"
        /\ req[r].at = "answered" /\ req[r].out = "cancelled" => req[r].kind = "prompt"

\* A registered session is up, and registered under its own id only.
Registered ==
    \A s \in Sid : reg[s] # None =>
        req[reg[s]].at = "answered" /\ live[reg[s]].sid = s /\ live[reg[s]].up

\* A command that waits in a channel waits there once, for that driver.
Lined ==
    \A i \in Request : \A n \in DOMAIN queue[i] :
        /\ req[queue[i][n]].at = "queued" /\ req[queue[i][n]].to = i
        /\ live[i].up /\ queue[i][n] # live[i].serving
        /\ \A m \in DOMAIN queue[i] : queue[i][m] = queue[i][n] => m = n

\* The command a driver works on has no reply yet.
Served ==
    \A i \in Request : live[i].up /\ live[i].serving # 0 =>
        /\ req[live[i].serving].at = "queued" /\ req[live[i].serving].to = i
        /\ req[live[i].serving].kind \in {"prompt", "close"}

\* One close at most reaches a live session, out of the registry by then; the
\* driver is up until it has replied, so that the close never finds it gone.
Closing ==
    \A r \in Request : req[r].kind = "close" /\ req[r].to # 0 =>
        /\ \A s \in Sid : reg[s] # None => reg[s] # req[r].to
        /\ \A q \in Request : req[q].kind = "close" /\ req[q].to = req[r].to => q = r
        /\ live[req[r].to].up <=> req[r].at \in {"send", "queued"}
        /\ req[r].at = "replied" /\ req[r].out = "ended" => live[req[r].to].status = "done"
        /\ Answered(r, "ok") => live[req[r].to].status = "done"

\* The flag of a live session against its unanswered prompts: it is up only if
\* a cancel reached them all, and, once one did, down only if another prompt
\* came since.
Charged ==
    \A r \in Request :
        /\ r \in asked => req[r].to # 0
        /\ req[r].kind = "prompt" /\ req[r].to # 0 =>
              /\ req[r].at # "answered" /\ live[req[r].to].cancel_requested => r \in asked
              /\ req[r].at # "answered" /\ r \in asked \ crowded => live[req[r].to].cancel_requested
              /\ Answered(r, "cancelled") => r \in asked

\* A prompt whose turn was cut is replied to as idle.
CutShort ==
    \A r \in cut :
        /\ req[r].kind = "prompt" /\ req[r].to # 0
        /\ \/ req[r].at = "replied" /\ req[r].out = "idle"
           \/ req[r].at = "answered"
        /\ req[r].at = "answered" /\ r \in asked \ crowded => req[r].out = "cancelled"

Inv == Typed /\ Formed /\ Registered /\ Lined /\ Served /\ Closing /\ Charged /\ CutShort

USE ServerBounds

-----------------------------------------------------------------------------
(* What keeps each part of the invariant *)

\* A request goes on by one stage, or stays.
Moves(q) ==
    /\ req'[q].kind = req[q].kind /\ req'[q].to = req[q].to
    /\ \/ req'[q].at = req[q].at /\ req'[q].out = req[q].out /\ req'[q].sid = req[q].sid
       \/ req[q].at = "check" /\ req'[q].at = "launch" /\ req'[q].sid = req[q].sid
       \/ req[q].at \in {"check", "launch"} /\ req'[q].at = "answered" /\ req'[q].out \in {"ok", "error"}
       \/ req[q].at = "send" /\ req'[q].at = "queued"
       \/ req[q].at \in {"send", "queued"} /\ req'[q].at = "replied" /\ req'[q].out \in Replies(req[q].kind)
       \/ /\ req[q].at = "replied" /\ req'[q].at = "answered"
          /\ req'[q].out = "cancelled" => req[q].kind = "prompt"

\* The driver of a live session goes on, of one not yet opened does not work.
SameDriver(i) ==
    \/ /\ live'[i].up = live[i].up /\ live'[i].serving = live[i].serving
       /\ live'[i].sid = live[i].sid
    \/ req[i].at # "answered" /\ live'[i].serving = 0

\* Every stage implies what is known of a request at it.
LEMMA FormedKept ==
    ASSUME Formed, sent' = sent, \A q \in Request : Moves(q)
    PROVE  Formed'
  BY DEF Formed, Moves, Pending, Replies, Request

\* The registry changes only if a session leaves it.
LEMMA RegisteredKept ==
    ASSUME Typed, Registered,
           \A s \in Sid : reg'[s] \in {reg[s], None},
           \A q \in Request : req[q].at = "answered" =>
               req'[q].at = "answered" /\ live'[q].up = live[q].up /\ live'[q].sid = live[q].sid
    PROVE  Registered'
<1>1. \A s \in Sid : reg[s] # None => reg[s] \in Request
  BY DEF Typed
<1>2. QED
  BY <1>1 DEF Registered

\* No command enters or leaves a channel.
LEMMA LinedKept ==
    ASSUME Typed, Formed, Lined, queue' = queue,
           \A i \in Request : SameDriver(i),
           \A q \in Request : req[q].at = "queued" => req'[q].at = "queued" /\ req'[q].to = req[q].to
    PROVE  Lined'
<1>1. \A i \in Request : \A n \in DOMAIN queue[i] : queue[i][n] \in Request
  BY DEF Typed
<1>2. \A q \in Request : req[q].at = "queued" => req[req[q].to].at = "answered"
  BY DEF Formed, Pending
<1>3. SUFFICES ASSUME NEW i \in Request, NEW n \in DOMAIN queue[i]
               PROVE  /\ req'[queue[i][n]].at = "queued" /\ req'[queue[i][n]].to = i
                      /\ live'[i].up /\ queue[i][n] # live'[i].serving
                      /\ \A m \in DOMAIN queue[i] : queue[i][m] = queue[i][n] => m = n
  BY DEF Lined
<1>4. /\ req[queue[i][n]].at = "queued" /\ req[queue[i][n]].to = i
      /\ live[i].up /\ queue[i][n] # live[i].serving
      /\ \A m \in DOMAIN queue[i] : queue[i][m] = queue[i][n] => m = n
  BY DEF Lined
<1>5. req[i].at = "answered"
  BY <1>1, <1>2, <1>4
<1>6. live'[i].up = live[i].up /\ live'[i].serving = live[i].serving
  BY <1>5 DEF SameDriver
<1>7. QED
  BY <1>1, <1>4, <1>6

\* The drivers work on what they did.
LEMMA ServedKept ==
    ASSUME Typed, Served, \A i \in Request : SameDriver(i),
           \A q \in Request : req[q].at = "queued" =>
               req'[q].at = "queued" /\ req'[q].to = req[q].to /\ req'[q].kind = req[q].kind
    PROVE  Served'
<1>1. SUFFICES ASSUME NEW i \in Request, live'[i].up, live'[i].serving # 0
               PROVE  /\ req'[live'[i].serving].at = "queued" /\ req'[live'[i].serving].to = i
                      /\ req'[live'[i].serving].kind \in {"prompt", "close"}
  BY DEF Served
<1>2. live[i].up /\ live[i].serving # 0 /\ live'[i].serving = live[i].serving
  BY <1>1 DEF SameDriver
<1>3. live[i].serving \in Request
  BY <1>2 DEF Typed, LiveType, Request
<1>4. QED
  BY <1>2, <1>3 DEF Served

\* No close is replied to or answered, and a driver that is gone keeps its
\* status.
LEMMA ClosingKept ==
    ASSUME Typed, Formed, Closing,
           \A s \in Sid : \/ reg'[s] \in {reg[s], None}
                          \/ reg'[s] \in Request /\ req[reg'[s]].at # "answered",
           \A q \in Request : req'[q].kind = req[q].kind /\ req'[q].to = req[q].to,
           \A q \in Request : req[q].kind = "close" =>
               \/ req'[q].at = req[q].at /\ req'[q].out = req[q].out
               \/ req[q].at = "send" /\ req'[q].at = "queued",
           \A i \in Request : req[i].at = "answered" =>
               live'[i].up = live[i].up /\ (live[i].up \/ live'[i].status = live[i].status)
    PROVE  Closing'
<1>1. SUFFICES ASSUME NEW r \in Request, req'[r].kind = "close", req'[r].to # 0
               PROVE  /\ \A s \in Sid : reg'[s] # None => reg'[s] # req'[r].to
                      /\ \A q \in Request : req'[q].kind = "close" /\ req'[q].to = req'[r].to => q = r
                      /\ live'[req'[r].to].up <=> req'[r].at \in {"send", "queued"}
                      /\ req'[r].at = "replied" /\ req'[r].out = "ended" =>
                            live'[req'[r].to].status = "done"
                      /\ req'[r].at = "answered" /\ req'[r].out = "ok" =>
                            live'[req'[r].to].status = "done"
  BY DEF Closing, Answered
<1> DEFINE i == req[r].to
<1>2. req[r].kind = "close" /\ req'[r].to = i /\ i # 0
  BY <1>1
<1>3. i \in Request /\ req[i].at = "answered"
  BY <1>2 DEF Formed
<1>4. /\ \A s \in Sid : reg[s] # None => reg[s] # i
      /\ \A q \in Request : req[q].kind = "close" /\ req[q].to = i => q = r
      /\ live[i].up <=> req[r].at \in {"send", "queued"}
      /\ req[r].at = "replied" /\ req[r].out = "ended" => live[i].status = "done"
      /\ req[r].at = "answered" /\ req[r].out = "ok" => live[i].status = "done"
  BY <1>2 DEF Closing, Answered
<1>5. live'[i].up = live[i].up /\ (live[i].up \/ live'[i].status = live[i].status)
  BY <1>3
<1>6. \/ req'[r].at = req[r].at /\ req'[r].out = req[r].out
      \/ req[r].at = "send" /\ req'[r].at = "queued"
  BY <1>2
<1> HIDE DEF i
<1>7. \A s \in Sid : reg'[s] # None => reg'[s] # i
  BY <1>3, <1>4
<1>8. \A q \in Request : req'[q].kind = "close" /\ req'[q].to = i => q = r
  BY <1>4
<1>9. QED
  BY <1>2, <1>4, <1>5, <1>6, <1>7, <1>8

\* No prompt is answered, and the flags of the live sessions stay.
LEMMA ChargedKept ==
    ASSUME Formed, Charged, asked' = asked, crowded' = crowded,
           \A q \in Request : req'[q].kind = req[q].kind /\ req'[q].to = req[q].to,
           \A q \in Request : req[q].kind = "prompt" =>
               IF req[q].at = "answered" THEN req'[q].at = "answered" /\ req'[q].out = req[q].out
               ELSE req'[q].at # "answered",
           \A i \in Request : req[i].at = "answered" =>
               live'[i].cancel_requested = live[i].cancel_requested
    PROVE  Charged'
<1>1. \A r \in Request : req[r].to # 0 => req[r].to \in Request /\ req[req[r].to].at = "answered"
  BY DEF Formed
<1>2. QED
  BY <1>1 DEF Charged, Answered

\* No prompt that was cut is answered; prompts may be crowded.
LEMMA CutShortKept ==
    ASSUME Typed, CutShort, asked' = asked, cut' = cut,
           \A q \in Request : q \in crowded => q \in crowded',
           \A q \in cut : /\ req'[q].kind = req[q].kind /\ req'[q].to = req[q].to
                          /\ req'[q].at = req[q].at /\ req'[q].out = req[q].out
    PROVE  CutShort'
<1>1. cut \subseteq Request
  BY DEF Typed
<1>2. QED
  BY <1>1 DEF CutShort

-----------------------------------------------------------------------------
(* The handlers *)

\* A request arrives; nothing else changes for the requests and drivers there
\* are, but a session may leave the registry.
LEMMA ArrivalKeeps ==
    ASSUME Inv, NEW r \in Request, NEW kind \in Kind, NEW s \in Sid \cup {None}, NEW at \in At,
           NEW to \in 0 .. MaxRequests, NEW out \in Out, Receives(r, kind, s, at, to, out),
           \A t \in Sid : reg'[t] \in {reg[t], None},
           \A i \in Request : live'[i].up = live[i].up /\ live'[i].serving = live[i].serving
                                 /\ live'[i].sid = live[i].sid,
           \/ at = "send" /\ to # 0 /\ kind \in {"prompt", "close", "status"} /\ req[to].at = "answered"
           \/ at \in {"check", "launch"} /\ to = 0 /\ kind \in {"new", "load"} /\ s \in Sid
           \/ at = "answered" /\ to = 0 /\ out \in {"error", "unknown"}
    PROVE  /\ req' \in [Request -> RequestType] /\ sent' \in 0 .. MaxRequests
           /\ queue' = queue /\ stored' = stored
           /\ \A q \in Request \ {r} : req'[q] = req[q]
           /\ req'[r].kind = kind /\ req'[r].at = at /\ req'[r].to = to /\ req'[r].out = out
           /\ req[r].at = "unsent" /\ req[r].to = 0
           /\ Formed' /\ Registered' /\ Lined' /\ Served'
<1>1. Typed /\ Formed /\ Registered /\ Lined /\ Served
  BY DEF Inv
<1>2. /\ r = sent + 1 /\ sent' = r /\ queue' = queue /\ stored' = stored
      /\ req' = [req EXCEPT ![r] = [kind |-> kind, sid |-> s, at |-> at, to |-> to, out |-> out]]
  BY DEF Receives
<1>3. req[r].at = "unsent" /\ req[r].to = 0
  BY <1>1, <1>2 DEF Formed, Typed, Request
<1>4. req' \in [Request -> RequestType] /\ sent' \in 0 .. MaxRequests
  BY <1>1, <1>2 DEF Typed, RequestType, Request
<1>5. /\ \A q \in Request \ {r} : req'[q] = req[q]
      /\ req'[r].kind = kind /\ req'[r].at = at /\ req'[r].to = to /\ req'[r].out = out
      /\ req'[r].sid = s
  BY <1>1, <1>2 DEF Typed
<1>6. \A i \in Request : SameDriver(i)
  BY DEF SameDriver
<1>7. Registered'
  BY <1>1, <1>3, <1>5, RegisteredKept
<1>8. Lined'
  BY <1>1, <1>2, <1>3, <1>5, <1>6, LinedKept
<1>9. Served'
  BY <1>1, <1>3, <1>5, <1>6, ServedKept
<1>10. Formed'
  <2>1. SUFFICES ASSUME NEW q \in Request
                 PROVE  /\ q > r => req'[q].at = "unsent" /\ req'[q].to = 0
                        /\ req'[q].at = "unsent" => q > r
                        /\ req'[q].at \in {"check", "launch"} =>
                              req'[q].kind \in {"new", "load"} /\ req'[q].to = 0 /\ req'[q].sid \in Sid
                        /\ req'[q].at \in Pending => req'[q].to # 0
                        /\ req'[q].to # 0 =>
                              /\ req'[q].at \in Pending \cup {"answered"}
                              /\ req'[q].kind \in {"prompt", "close", "status"}
                              /\ req'[q].to \in Request /\ req'[req'[q].to].at = "answered"
                        /\ req'[q].at = "replied" => req'[q].out \in Replies(req'[q].kind)
                        /\ req'[q].at = "answered" /\ req'[q].to = 0 =>
                              /\ ~ (req'[q].kind = "close" /\ req'[q].out = "ok")
                              /\ req'[q].out # "cancelled"
                        /\ req'[q].at = "answered" /\ req'[q].out = "cancelled" =>
                              req'[q].kind = "prompt"
    BY <1>2 DEF Formed
  <2>2. CASE q # r
    <3>1. req'[q] = req[q]
      BY <2>2, <1>5
    <3>2. req[q].to # 0 => req'[req[q].to].at = "answered"
      BY <1>1, <1>3, <1>5 DEF Formed
    <3>3. (q > r => q > sent) /\ (q > sent => q > r)
      BY <1>1, <1>2, <2>2 DEF Request, Typed
    <3>4. QED
      BY <1>1, <3>1, <3>2, <3>3 DEF Formed
  <2>3. CASE q = r
    <3>1. to # 0 => to \in Request /\ (req[to].at = "answered" => req'[to].at = "answered")
      BY <1>3, <1>5 DEF Request
    <3>2. ~ (r > r)
      BY DEF Request
    <3>3. QED
      BY <1>5, <2>3, <3>1, <3>2 DEF Pending
  <2>4. QED
    BY <2>2, <2>3
<1>11. QED
  BY <1>2, <1>3, <1>4, <1>5, <1>7, <1>8, <1>9, <1>10

\* A request that is not a command of a live session.
LEMMA OutsiderKeeps ==
    ASSUME Inv, NEW r \in Request, NEW kind \in Kind, NEW s \in Sid \cup {None}, NEW at \in At,
           NEW out \in Out, Receives(r, kind, s, at, 0, out),
           UNCHANGED <<reg, live, history>>,
           \/ at \in {"check", "launch"} /\ kind \in {"new", "load"} /\ s \in Sid
           \/ at = "answered" /\ out \in {"error", "unknown"}
    PROVE  Inv'
<1>1. /\ req' \in [Request -> RequestType] /\ sent' \in 0 .. MaxRequests
      /\ queue' = queue /\ stored' = stored
      /\ \A q \in Request \ {r} : req'[q] = req[q]
      /\ req'[r].kind = kind /\ req'[r].at = at /\ req'[r].to = 0 /\ req'[r].out = out
      /\ req[r].at = "unsent" /\ req[r].to = 0
      /\ Formed' /\ Registered' /\ Lined' /\ Served'
  <2>1. 0 \in 0 .. MaxRequests
    OBVIOUS
  <2>2. reg' = reg /\ live' = live
    OBVIOUS
  <2>3. QED
    BY <2>1, <2>2, ArrivalKeeps
<1>2. Typed'
  BY <1>1 DEF Inv, Typed, history
<1>3. Closing'
  BY <1>1 DEF Inv, Closing, Answered
<1>4. Charged'
  BY <1>1 DEF Inv, Charged, Answered, history
<1>5. CutShort'
  <2>1. r \notin cut
    BY <1>1 DEF Inv, CutShort
  <2>2. QED
    BY <1>1, <2>1 DEF Inv, CutShort, history, Typed
<1>6. QED
  BY <1>1, <1>2, <1>3, <1>4, <1>5 DEF Inv

\* A command for a session that is not registered.
LEMMA UnknownKeeps ==
    ASSUME Inv, NEW r \in Request, NEW kind \in Kind, NEW s \in Sid, Unknown(r, kind, s)
    PROVE  Inv'
<1>1. "answered" \in At /\ "unknown" \in Out /\ None \in Sid \cup {None}
  BY DEF At, Out
<1>2. QED
  BY <1>1, OutsiderKeeps DEF Unknown

\* session/new.
LEMMA ReceiveNewKeeps ==
    ASSUME Inv, NEW r \in Request, ReceiveNew(r)
    PROVE  Inv'
<1>1. "answered" \in At /\ "launch" \in At /\ "error" \in Out /\ "none" \in Out /\ "new" \in Kind
  BY DEF At, Out, Kind
<1>2. CASE Receives(r, "new", None, "answered", 0, "error")
  BY <1>1, <1>2, OutsiderKeeps DEF ReceiveNew
<1>3. CASE \E s \in Sid : Receives(r, "new", s, "launch", 0, "none")
  BY <1>1, <1>3, OutsiderKeeps DEF ReceiveNew
<1>4. QED
  BY <1>2, <1>3 DEF ReceiveNew

\* session/load and session/resume.
LEMMA ReceiveLoadKeeps ==
    ASSUME Inv, NEW r \in Request, ReceiveLoad(r)
    PROVE  Inv'
<1>1. "check" \in At /\ "none" \in Out /\ "load" \in Kind
  BY DEF At, Out, Kind
<1>2. QED
  BY <1>1, OutsiderKeeps DEF ReceiveLoad

\* A prompt without text.
LEMMA ReceiveEmptyPromptKeeps ==
    ASSUME Inv, NEW r \in Request, ReceiveEmptyPrompt(r)
    PROVE  Inv'
<1>1. "answered" \in At /\ "error" \in Out /\ "prompt" \in Kind
  BY DEF At, Out, Kind
<1>2. QED
  BY <1>1, OutsiderKeeps DEF ReceiveEmptyPrompt

\* A command for the live session that is registered under s.
LEMMA CommandArrives ==
    ASSUME Inv, NEW r \in Request, NEW s \in Sid, NEW kind \in {"prompt", "close", "status"},
           reg[s] # None, Receives(r, kind, s, "send", reg[s], "none"),
           \A t \in Sid : reg'[t] \in {reg[t], None},
           \A i \in Request : live'[i].up = live[i].up /\ live'[i].serving = live[i].serving
                                 /\ live'[i].sid = live[i].sid
    PROVE  /\ reg[s] \in Request /\ reg[s] # 0 /\ req[reg[s]].at = "answered" /\ live[reg[s]].up
           /\ req' \in [Request -> RequestType] /\ sent' \in 0 .. MaxRequests
           /\ queue' = queue /\ stored' = stored
           /\ \A q \in Request \ {r} : req'[q] = req[q]
           /\ req'[r].kind = kind /\ req'[r].at = "send" /\ req'[r].to = reg[s]
           /\ req[r].at = "unsent" /\ req[r].to = 0 /\ r \notin cut
           /\ Formed' /\ Registered' /\ Lined' /\ Served'
<1>1. reg[s] \in Request /\ req[reg[s]].at = "answered" /\ live[reg[s]].up
  BY DEF Inv, Typed, Registered
<1>2. reg[s] \in 0 .. MaxRequests /\ reg[s] # 0
  BY <1>1 DEF Request
<1>3. "send" \in At /\ "none" \in Out /\ kind \in Kind
  BY DEF At, Out, Kind
<1>4. /\ req' \in [Request -> RequestType] /\ sent' \in 0 .. MaxRequests
      /\ queue' = queue /\ stored' = stored
      /\ \A q \in Request \ {r} : req'[q] = req[q]
      /\ req'[r].kind = kind /\ req'[r].at = "send" /\ req'[r].to = reg[s]
      /\ req[r].at = "unsent" /\ req[r].to = 0
      /\ Formed' /\ Registered' /\ Lined' /\ Served'
  BY <1>1, <1>2, <1>3, ArrivalKeeps
<1>5. r \notin cut
  BY <1>4 DEF Inv, CutShort
<1>6. QED
  BY <1>1, <1>2, <1>4, <1>5

\* The commands that are not closes find the registry as they leave it.
LEMMA ClosingKeptByCommand ==
    ASSUME Inv, NEW r \in Request, req'[r].kind # "close", req[r].to = 0,
           \A q \in Request \ {r} : req'[q] = req[q], reg' = reg,
           \A i \in Request : live'[i].up = live[i].up /\ live'[i].status = live[i].status
    PROVE  Closing'
<1>1. \A q \in Request : req[q].to # 0 => req[q].to \in Request
  BY DEF Inv, Formed
<1>2. QED
  BY <1>1 DEF Inv, Closing, Answered

\* A new prompt comes to a flag that is down, and crowds the ones before it.
LEMMA ReceivePromptKeeps ==
    ASSUME Inv, NEW r \in Request, ReceivePrompt(r)
    PROVE  Inv'
<1>1. PICK s \in Sid :
        \/ Unknown(r, "prompt", s)
        \/ /\ reg[s] # None
           /\ Receives(r, "prompt", s, "send", reg[s], "none")
           /\ live' = [live EXCEPT ![reg[s]].cancel_requested = FALSE]
           /\ crowded' = crowded \cup Unanswered(reg[s])
           /\ UNCHANGED <<reg, asked, cut>>
  BY DEF ReceivePrompt
<1>2. CASE Unknown(r, "prompt", s)
  BY <1>2, UnknownKeeps DEF Kind
<1>3. CASE /\ reg[s] # None
           /\ Receives(r, "prompt", s, "send", reg[s], "none")
           /\ live' = [live EXCEPT ![reg[s]].cancel_requested = FALSE]
           /\ crowded' = crowded \cup Unanswered(reg[s])
           /\ UNCHANGED <<reg, asked, cut>>
  <2> DEFINE i == reg[s]
  <2>1. /\ live' \in [Request -> LiveType]
        /\ \A j \in Request : live'[j].up = live[j].up /\ live'[j].serving = live[j].serving
               /\ live'[j].sid = live[j].sid /\ live'[j].status = live[j].status
        /\ \A j \in Request \ {i} : live'[j] = live[j]
        /\ i \in Request => ~ live'[i].cancel_requested
    <3>1. \A x \in LiveType : [x EXCEPT !.cancel_requested = FALSE] \in LiveType
      BY DEF LiveType
    <3>2. live' \in [Request -> LiveType]
      BY <1>3, <3>1 DEF Inv, Typed
    <3>3. QED
      BY <1>3, <3>2 DEF Inv, Typed, LiveType
  <2>2. /\ i \in Request /\ i # 0 /\ req[i].at = "answered" /\ live[i].up
        /\ req' \in [Request -> RequestType] /\ sent' \in 0 .. MaxRequests
        /\ queue' = queue /\ stored' = stored
        /\ \A q \in Request \ {r} : req'[q] = req[q]
        /\ req'[r].kind = "prompt" /\ req'[r].at = "send" /\ req'[r].to = i
        /\ req[r].at = "unsent" /\ req[r].to = 0 /\ r \notin cut
        /\ Formed' /\ Registered' /\ Lined' /\ Served'
    BY <1>3, <2>1, CommandArrives
  <2>3. Unanswered(i) = {q \in Request : req[q].kind = "prompt" /\ req[q].to = i
                                             /\ req[q].at # "answered"}
    BY DEF Unanswered
  <2>4. Typed'
    BY <1>3, <2>1, <2>2, <2>3 DEF Inv, Typed
  <2>5. Closing'
    BY <1>3, <2>1, <2>2, ClosingKeptByCommand
  <2>6. \A q \in Request : req[q].to # 0 => req[q].to \in Request
    BY DEF Inv, Formed
  <2>7. Charged'
    <3>1. SUFFICES ASSUME NEW q \in Request, req'[q].kind = "prompt", req'[q].to # 0
                   PROVE  /\ req'[q].at # "answered" /\ live'[req'[q].to].cancel_requested =>
                                q \in asked'
                          /\ req'[q].at # "answered" /\ q \in asked' \ crowded' =>
                                live'[req'[q].to].cancel_requested
                          /\ req'[q].at = "answered" /\ req'[q].out = "cancelled" => q \in asked'
      <4>1. \A q \in Request : q \in asked' => req'[q].to # 0
        BY <1>3, <2>2 DEF Inv, Charged
      <4>2. QED
        BY <4>1 DEF Charged, Answered
    <3>2. CASE q = r
      <4>1. r \notin asked
        BY <2>2 DEF Inv, Charged
      <4>2. QED
        BY <1>3, <2>1, <2>2, <3>2, <4>1 DEF Inv, Typed
    <3>3. CASE q # r /\ req[q].to = i
      BY <1>3, <2>1, <2>2, <2>3, <3>1, <3>3 DEF Inv, Charged, Answered
    <3>4. CASE q # r /\ req[q].to # i
      BY <1>3, <2>1, <2>2, <2>3, <2>6, <3>1, <3>4 DEF Inv, Charged, Answered
    <3>5. QED
      BY <3>2, <3>3, <3>4
  <2>8. CutShort'
    BY <1>3, <2>2, CutShortKept DEF Inv, Typed
  <2>9. QED
    BY <2>2, <2>4, <2>5, <2>7, <2>8 DEF Inv
<1>4. QED
  BY <1>1, <1>2, <1>3

\* A close takes the session out of the registry: it is the only one.
LEMMA ReceiveCloseKeeps ==
    ASSUME Inv, NEW r \in Request, ReceiveClose(r)
    PROVE  Inv'
<1>1. PICK s \in Sid :
        \/ Unknown(r, "close", s)
        \/ /\ reg[s] # None
           /\ Receives(r, "close", s, "send", reg[s], "none")
           /\ reg' = [reg EXCEPT ![s] = None]
           /\ UNCHANGED <<live, history>>
  BY DEF ReceiveClose
<1>2. CASE Unknown(r, "close", s)
  BY <1>2, UnknownKeeps DEF Kind
<1>3. CASE /\ reg[s] # None
           /\ Receives(r, "close", s, "send", reg[s], "none")
           /\ reg' = [reg EXCEPT ![s] = None]
           /\ UNCHANGED <<live, history>>
  <2> DEFINE i == reg[s]
  <2>1. \A t \in Sid : reg'[t] = IF t = s THEN None ELSE reg[t]
    BY <1>3 DEF Inv, Typed
  <2>2. /\ i \in Request /\ i # 0 /\ req[i].at = "answered" /\ live[i].up
        /\ req' \in [Request -> RequestType] /\ sent' \in 0 .. MaxRequests
        /\ queue' = queue /\ stored' = stored
        /\ \A q \in Request \ {r} : req'[q] = req[q]
        /\ req'[r].kind = "close" /\ req'[r].at = "send" /\ req'[r].to = i
        /\ req[r].at = "unsent" /\ req[r].to = 0 /\ r \notin cut
        /\ Formed' /\ Registered' /\ Lined' /\ Served'
    BY <1>3, <2>1, CommandArrives
  <2>3. reg' \in [Sid -> Request \cup {None}]
    BY <1>3 DEF Inv, Typed
  <2>4. Typed'
    BY <1>3, <2>2, <2>3 DEF Inv, Typed, history
  <2>5. \A t \in Sid : reg'[t] # None => reg'[t] # i /\ reg'[t] = reg[t]
    BY <1>3, <2>1 DEF Inv, Registered
  <2>6. \A q \in Request : req[q].kind = "close" => req[q].to # i
    BY <1>3, <2>2 DEF Inv, Closing
  <2>7. Closing'
    BY <1>3, <2>2, <2>5, <2>6 DEF Inv, Closing, Answered
  <2>8. Charged'
    BY <1>3, <2>2 DEF Inv, Charged, Answered, history
  <2>9. CutShort'
    BY <1>3, <2>2, CutShortKept DEF Inv, Typed, history
  <2>10. QED
    BY <2>2, <2>4, <2>7, <2>8, <2>9 DEF Inv
<1>4. QED
  BY <1>1, <1>2, <1>3

\* _grist/status.
LEMMA ReceiveStatusKeeps ==
    ASSUME Inv, NEW r \in Request, ReceiveStatus(r)
    PROVE  Inv'
<1>1. PICK s \in Sid :
        \/ Unknown(r, "status", s)
        \/ /\ reg[s] # None
           /\ Receives(r, "status", s, "send", reg[s], "none")
           /\ UNCHANGED <<reg, live, history>>
  BY DEF ReceiveStatus
<1>2. CASE Unknown(r, "status", s)
  BY <1>2, UnknownKeeps DEF Kind
<1>3. CASE /\ reg[s] # None
           /\ Receives(r, "status", s, "send", reg[s], "none")
           /\ UNCHANGED <<reg, live, history>>
  <2>1. reg' = reg /\ live' = live
    BY <1>3
  <2>2. /\ req' \in [Request -> RequestType] /\ sent' \in 0 .. MaxRequests
        /\ queue' = queue /\ stored' = stored
        /\ \A q \in Request \ {r} : req'[q] = req[q]
        /\ req'[r].kind = "status" /\ req'[r].at = "send" /\ req'[r].to = reg[s]
        /\ req[r].at = "unsent" /\ req[r].to = 0 /\ r \notin cut
        /\ Formed' /\ Registered' /\ Lined' /\ Served'
    BY <1>3, <2>1, CommandArrives
  <2>3. Typed'
    BY <1>3, <2>2 DEF Inv, Typed, history
  <2>4. Closing'
    BY <2>1, <2>2, ClosingKeptByCommand
  <2>5. Charged'
    BY <1>3, <2>2 DEF Inv, Charged, Answered, history
  <2>6. CutShort'
    BY <1>3, <2>2, CutShortKept DEF Inv, Typed, history
  <2>7. QED
    BY <2>2, <2>3, <2>4, <2>5, <2>6 DEF Inv
<1>4. QED
  BY <1>1, <1>2, <1>3

\* A cancel raises the flag of the session and reaches its unanswered prompts.
LEMMA ReceiveCancelKeeps ==
    ASSUME Inv, ReceiveCancel
    PROVE  Inv'
<1>1. PICK s \in Sid :
        /\ reg[s] # None
        /\ live' = [live EXCEPT ![reg[s]].cancel_requested = TRUE, ![reg[s]].token = Fire(@)]
        /\ asked' = asked \cup Unanswered(reg[s])
        /\ UNCHANGED <<req, reg, queue, stored, sent, cut, crowded>>
  BY DEF ReceiveCancel
<1> DEFINE i == reg[s]
<1>2. i \in Request
  BY <1>1 DEF Inv, Typed
<1>3. /\ live' \in [Request -> LiveType]
      /\ \A j \in Request : live'[j].up = live[j].up /\ live'[j].serving = live[j].serving
             /\ live'[j].sid = live[j].sid /\ live'[j].status = live[j].status
      /\ \A j \in Request \ {i} : live'[j] = live[j]
      /\ live'[i].cancel_requested
  <2>1. \A x \in LiveType :
            [x EXCEPT !.cancel_requested = TRUE, !.token = Fire(x.token)] \in LiveType
    BY DEF LiveType, Fire
  <2>2. live' \in [Request -> LiveType]
    BY <1>1, <1>2, <2>1 DEF Inv, Typed
  <2>3. QED
    BY <1>1, <1>2, <2>2 DEF Inv, Typed, LiveType
<1>4. Unanswered(i) = {q \in Request : req[q].kind = "prompt" /\ req[q].to = i
                                           /\ req[q].at # "answered"}
  BY DEF Unanswered
<1>5. Typed'
  BY <1>1, <1>3, <1>4 DEF Inv, Typed
<1>6. Formed'
  BY <1>1 DEF Inv, Formed
<1>7. \A j \in Request : SameDriver(j)
  BY <1>3 DEF SameDriver
<1>8. Registered' /\ Lined' /\ Served'
  BY <1>1, <1>3, <1>7, RegisteredKept, LinedKept, ServedKept DEF Inv
<1>9. Closing'
  BY <1>1, <1>3, ClosingKept DEF Inv
<1>10. \A q \in Request : req[q].to # 0 => req[q].to \in Request
  BY DEF Inv, Formed
<1>11. Charged'
  <2>1. SUFFICES ASSUME NEW q \in Request
                 PROVE  /\ q \in asked' => req[q].to # 0
                        /\ req[q].kind = "prompt" /\ req[q].to # 0 =>
                              /\ req[q].at # "answered" /\ live'[req[q].to].cancel_requested =>
                                    q \in asked'
                              /\ req[q].at # "answered" /\ q \in asked' \ crowded =>
                                    live'[req[q].to].cancel_requested
                              /\ req[q].at = "answered" /\ req[q].out = "cancelled" => q \in asked'
    BY <1>1 DEF Charged, Answered
  <2>2. i # 0
    BY <1>2 DEF Request
  <2>3. CASE req[q].to = i
    BY <1>1, <1>3, <1>4, <2>2, <2>3 DEF Inv, Charged, Answered
  <2>4. CASE req[q].to # i
    BY <1>1, <1>3, <1>4, <1>10, <2>4 DEF Inv, Charged, Answered
  <2>5. QED
    BY <2>3, <2>4
<1>12. CutShort'
  BY <1>1, <1>4 DEF Inv, Typed, CutShort
<1>13. QED
  BY <1>5, <1>6, <1>8, <1>9, <1>11, <1>12 DEF Inv

-----------------------------------------------------------------------------
(* The tasks *)

\* Request r goes on by itself: no driver had it, none has it now.
LEMMA RequestMovesKeeps ==
    ASSUME Inv, NEW r \in Request, Moves(r), req[r].at # "queued",
           req' \in [Request -> RequestType], \A q \in Request \ {r} : req'[q] = req[q],
           UNCHANGED <<reg, live, stored, sent, history>>
    PROVE  /\ Formed' /\ Registered' /\ Served'
           /\ queue' = queue => Typed' /\ Lined'
           /\ req[r].at # "replied" =>
                 CutShort' /\ (req'[r].at # "replied" \/ req[r].kind # "close" => Closing' /\ Charged')
<1>1. \A q \in Request : Moves(q)
  BY DEF Moves
<1>2. queue' = queue => Typed'
  BY DEF Inv, Typed, history
<1>3. Formed'
  BY <1>1, FormedKept DEF Inv
<1>4. \A i \in Request : SameDriver(i)
  BY DEF SameDriver
<1>5. \A q \in Request : req[q].at = "answered" => req'[q].at = "answered"
  BY <1>1 DEF Moves
<1>6. \A q \in Request : req'[q].kind = req[q].kind /\ req'[q].to = req[q].to
  BY <1>1 DEF Moves
<1>7. Registered'
  BY <1>5, RegisteredKept DEF Inv
<1>8. Served' /\ (queue' = queue => Lined')
  <2>1. \A q \in Request : req[q].at = "queued" => req'[q].at = "queued"
    OBVIOUS
  <2>2. QED
    BY <1>4, <1>6, <2>1, LinedKept, ServedKept DEF Inv
<1>9. ASSUME req[r].at # "replied"
      PROVE  CutShort' /\ (req'[r].at # "replied" \/ req[r].kind # "close" => Closing' /\ Charged')
  <2>1. CutShort'
    <3>1. r \in cut => req[r].at = "answered"
      BY <1>9 DEF Inv, CutShort
    <3>2. \A q \in cut : req'[q].at = req[q].at /\ req'[q].out = req[q].out
      BY <3>1 DEF Inv, Typed, Moves
    <3>3. \A q \in cut : req'[q].kind = req[q].kind /\ req'[q].to = req[q].to
      BY <1>6 DEF Inv, Typed
    <3>4. QED
      BY <3>2, <3>3, CutShortKept DEF Inv, history
  <2>2. ASSUME req'[r].at # "replied" \/ req[r].kind # "close"
        PROVE  Closing' /\ Charged'
    <3>1. req[r].at \in {"check", "launch"} => req[r].kind \in {"new", "load"}
      BY DEF Inv, Formed
    <3>2. \A q \in Request : req[q].kind = "close" =>
              \/ req'[q].at = req[q].at /\ req'[q].out = req[q].out
              \/ req[q].at = "send" /\ req'[q].at = "queued"
      BY <1>9, <2>2, <3>1 DEF Moves
    <3>3. Closing'
      BY <1>6, <3>2, ClosingKept DEF Inv
    <3>4. \A q \in Request : req[q].kind = "prompt" =>
              IF req[q].at = "answered" THEN req'[q].at = "answered" /\ req'[q].out = req[q].out
              ELSE req'[q].at # "answered"
      BY <1>9, <3>1 DEF Moves
    <3>5. Charged'
      BY <1>6, <3>4, ChargedKept DEF Inv, history
    <3>6. QED
      BY <3>3, <3>5
  <2>3. QED
    BY <2>1, <2>2
<1>10. QED
  BY <1>2, <1>3, <1>7, <1>8, <1>9

\* Answer writes one request.
LEMMA AnswerProperties ==
    ASSUME Typed, NEW r \in Request, NEW o \in Out, req' = Answer(r, o)
    PROVE  /\ req' \in [Request -> RequestType]
           /\ \A q \in Request \ {r} : req'[q] = req[q]
           /\ req'[r].at = "answered" /\ req'[r].out = o
           /\ req'[r].kind = req[r].kind /\ req'[r].to = req[r].to
<1>1. \A x \in RequestType :
          [x EXCEPT !.at = "answered", !.out = o, !.sid = None] \in RequestType
  BY DEF RequestType, At
<1>2. req' \in [Request -> RequestType]
  BY <1>1 DEF Answer, Typed
<1>3. QED
  BY <1>2 DEF Answer, Typed, RequestType

\* So does a reply.
LEMMA ReplyProperties ==
    ASSUME Typed, NEW r \in Request, NEW o \in Out,
           req' = [req EXCEPT ![r].at = "replied", ![r].out = o]
    PROVE  /\ req' \in [Request -> RequestType]
           /\ \A q \in Request \ {r} : req'[q] = req[q]
           /\ req'[r].at = "replied" /\ req'[r].out = o
           /\ req'[r].kind = req[r].kind /\ req'[r].to = req[r].to
<1>1. \A x \in RequestType : [x EXCEPT !.at = "replied", !.out = o] \in RequestType
  BY DEF RequestType, At
<1>2. req' \in [Request -> RequestType]
  BY <1>1 DEF Typed
<1>3. QED
  BY <1>2 DEF Typed, RequestType

\* A session that cannot be opened.
LEMMA LaunchFailsKeeps ==
    ASSUME Inv, NEW r \in Request, LaunchFails(r)
    PROVE  Inv'
<1>1. /\ req' \in [Request -> RequestType]
      /\ \A q \in Request \ {r} : req'[q] = req[q]
      /\ req'[r].at = "answered" /\ req'[r].out = "error"
      /\ req'[r].kind = req[r].kind /\ req'[r].to = req[r].to
  BY AnswerProperties DEF LaunchFails, Inv, Out
<1>2. Moves(r)
  BY <1>1 DEF Moves, LaunchFails
<1>3. QED
  BY <1>1, <1>2, RequestMovesKeeps DEF LaunchFails, Inv, history

\* The checks of reopen.
LEMMA ReopenCheckKeeps ==
    ASSUME Inv, NEW r \in Request, ReopenCheck(r)
    PROVE  Inv'
<1>1. CASE req' = Answer(r, "error")
  <2>1. /\ req' \in [Request -> RequestType]
        /\ \A q \in Request \ {r} : req'[q] = req[q]
        /\ req'[r].at = "answered" /\ req'[r].out = "error"
        /\ req'[r].kind = req[r].kind /\ req'[r].to = req[r].to
    BY <1>1, AnswerProperties DEF Inv, Out
  <2>2. Moves(r)
    BY <2>1 DEF Moves, ReopenCheck
  <2>3. QED
    BY <2>1, <2>2, RequestMovesKeeps DEF ReopenCheck, Inv, history
<1>2. CASE req' = [req EXCEPT ![r].at = "launch"]
  <2>1. \A x \in RequestType : [x EXCEPT !.at = "launch"] \in RequestType
    BY DEF RequestType, At
  <2>2. req' \in [Request -> RequestType]
    BY <1>2, <2>1 DEF Inv, Typed
  <2>3. /\ \A q \in Request \ {r} : req'[q] = req[q]
        /\ req'[r].at = "launch" /\ req'[r].kind = req[r].kind /\ req'[r].to = req[r].to
        /\ req'[r].sid = req[r].sid
    BY <1>2, <2>2 DEF Inv, Typed, RequestType
  <2>4. Moves(r)
    BY <2>3 DEF Moves, ReopenCheck
  <2>5. QED
    BY <2>2, <2>3, <2>4, RequestMovesKeeps DEF ReopenCheck, Inv, history
<1>3. QED
  BY <1>1, <1>2 DEF ReopenCheck

\* A new live session: nothing was addressed to it before.
LEMMA AdoptKeeps ==
    ASSUME Inv, NEW r \in Request, req[r].at = "launch", NEW status \in Statuses,
           NEW token \in {"none", "armed"}, NEW lost \in BOOLEAN,
           Adopt(r, req[r].sid, status, token, lost),
           UNCHANGED <<queue, sent, history>>
    PROVE  Inv'
<1> DEFINE s == req[r].sid
           new == [NotLive EXCEPT !.sid = s, !.up = TRUE, !.lost = lost, !.status = status,
                                  !.token = token]
<1>1. s \in Sid /\ req[r].kind \in {"new", "load"} /\ req[r].to = 0
  BY DEF Inv, Formed
<1>2. /\ live' = [live EXCEPT ![r] = new]
      /\ reg' = [reg EXCEPT ![s] = r]
      /\ stored' = [stored EXCEPT ![s] = status]
      /\ req' = Answer(r, "ok")
  BY DEF Adopt
<1>3. /\ new \in LiveType
      /\ new.sid = s /\ new.up /\ new.serving = 0
  <2>1. NotLive \in LiveType /\ NotLive.serving = 0
    BY DEF NotLive, LiveType, Statuses
  <2>2. \A x \in LiveType :
            LET y == [x EXCEPT !.sid = s, !.up = TRUE, !.lost = lost, !.status = status,
                               !.token = token] IN
            y \in LiveType /\ y.sid = s /\ y.up /\ y.serving = x.serving
    BY <1>1 DEF LiveType
  <2>3. QED
    BY <2>1, <2>2
<1> HIDE DEF new
<1>4. /\ live' \in [Request -> LiveType] /\ live'[r] = new
      /\ \A i \in Request \ {r} : live'[i] = live[i]
  BY <1>2, <1>3 DEF Inv, Typed
<1>5. /\ reg' \in [Sid -> Request \cup {None}] /\ stored' \in [Sid -> Statuses] /\ reg'[s] = r
      /\ \A t \in Sid \ {s} : reg'[t] = reg[t]
  BY <1>1, <1>2 DEF Inv, Typed
<1>6. /\ req' \in [Request -> RequestType]
      /\ \A q \in Request \ {r} : req'[q] = req[q]
      /\ req'[r].at = "answered" /\ req'[r].out = "ok"
      /\ req'[r].kind = req[r].kind /\ req'[r].to = req[r].to
  BY <1>2, AnswerProperties DEF Inv, Out
<1>7. \A q \in Request : Moves(q)
  BY <1>6 DEF Moves
<1>8. Typed'
  BY <1>4, <1>5, <1>6 DEF Inv, Typed, history
<1>9. Formed'
  BY <1>7, FormedKept DEF Inv
<1>10. Registered'
  <2>1. \A t \in Sid : reg[t] # None => reg[t] \in Request \ {r}
    BY DEF Inv, Typed, Registered
  <2>2. ASSUME NEW t \in Sid, reg'[t] # None
        PROVE  req'[reg'[t]].at = "answered" /\ live'[reg'[t]].sid = t /\ live'[reg'[t]].up
    <3>1. CASE t = s
      BY <1>3, <1>4, <1>5, <1>6, <3>1
    <3>2. CASE t # s
      BY <1>4, <1>5, <1>6, <2>1, <2>2, <3>2 DEF Inv, Registered
    <3>3. QED
      BY <3>1, <3>2
  <2>3. QED
    BY <2>2 DEF Registered
<1>11. \A i \in Request : SameDriver(i)
  BY <1>3, <1>4 DEF SameDriver
<1>12. Lined' /\ Served'
  BY <1>6, <1>11, LinedKept, ServedKept DEF Inv
<1>13. Closing'
  <2>1. \A q \in Request : req[q].kind = "close" => req'[q].at = req[q].at /\ req'[q].out = req[q].out
    BY <1>1, <1>6
  <2>2. \A t \in Sid : \/ reg'[t] \in {reg[t], None}
                       \/ reg'[t] \in Request /\ req[reg'[t]].at # "answered"
    BY <1>5
  <2>3. QED
    BY <1>4, <1>6, <2>1, <2>2, ClosingKept DEF Inv
<1>14. Charged'
  BY <1>1, <1>4, <1>6, ChargedKept DEF Inv, history
<1>15. CutShort'
  <2>1. \A q \in cut : q # r
    BY <1>1 DEF Inv, CutShort
  <2>2. QED
    BY <1>6, <2>1, CutShortKept DEF Inv, Typed, history
<1>16. QED
  BY <1>8, <1>9, <1>10, <1>12, <1>13, <1>14, <1>15 DEF Inv

\* create_session.
LEMMA CreateSessionKeeps ==
    ASSUME Inv, NEW r \in Request, CreateSession(r)
    PROVE  Inv'
  BY AdoptKeeps DEF CreateSession, Statuses, history

\* Kernel::open, refused or not.
LEMMA ReopenKeeps ==
    ASSUME Inv, NEW r \in Request, Reopen(r)
    PROVE  Inv'
<1> DEFINE s == req[r].sid
<1>1. req[r].at = "launch" /\ UNCHANGED <<queue, sent, history>>
  BY DEF Reopen, history
<1>2. CASE req' = Answer(r, "error") /\ UNCHANGED <<reg, live, stored>>
  <2>1. /\ req' \in [Request -> RequestType]
        /\ \A q \in Request \ {r} : req'[q] = req[q]
        /\ req'[r].at = "answered" /\ req'[r].out = "error"
        /\ req'[r].kind = req[r].kind /\ req'[r].to = req[r].to
    BY <1>2, AnswerProperties DEF Inv, Out
  <2>2. Moves(r)
    BY <1>1, <2>1 DEF Moves
  <2>3. QED
    BY <1>1, <1>2, <2>1, <2>2, RequestMovesKeeps DEF Inv, history
<1>3. ASSUME NEW lost \in BOOLEAN, Adopt(r, s, "running", "armed", lost) PROVE Inv'
  BY <1>1, <1>3, AdoptKeeps DEF Statuses
<1>4. ASSUME NEW lost \in BOOLEAN, Adopt(r, s, "idle", "none", lost) PROVE Inv'
  BY <1>1, <1>4, AdoptKeeps DEF Statuses
<1>5. CASE Adopt(r, s, "running", "none", FALSE)
  BY <1>1, <1>5, AdoptKeeps DEF Statuses
<1>6. QED
  BY <1>2, <1>3, <1>4, <1>5 DEF Reopen

\* A command gets its place in the channel, behind those it finds there; only
\* a close cannot find the driver gone.
LEMMA SendCmdKeeps ==
    ASSUME Inv, NEW r \in Request, SendCmd(r)
    PROVE  Inv'
<1> DEFINE i == req[r].to
<1>1. /\ req[r].at = "send" /\ i \in Request /\ req[r].kind \in {"prompt", "close", "status"}
      /\ UNCHANGED <<reg, live, stored, sent, history>>
  BY DEF SendCmd, Inv, Formed, Pending, history
<1>2. CASE /\ live[i].up /\ Len(queue[i]) < Cap
           /\ queue' = [queue EXCEPT ![i] = Append(@, r)]
           /\ req' = [req EXCEPT ![r].at = "queued"]
  <2>1. \A x \in RequestType : [x EXCEPT !.at = "queued"] \in RequestType
    BY DEF RequestType, At
  <2>2. req' \in [Request -> RequestType]
    BY <1>2, <2>1 DEF Inv, Typed
  <2>3. /\ \A q \in Request \ {r} : req'[q] = req[q]
        /\ req'[r].at = "queued" /\ req'[r].kind = req[r].kind /\ req'[r].to = i
    BY <1>2, <2>2 DEF Inv, Typed, RequestType
  <2>4. Moves(r)
    BY <1>1, <2>3 DEF Moves
  <2>5. /\ Formed' /\ Registered' /\ Served' /\ Closing' /\ Charged' /\ CutShort'
    BY <1>1, <2>2, <2>3, <2>4, RequestMovesKeeps
  <2> HIDE DEF i
  <2>6. queue[i] \in Seq(Request) /\ Len(queue[i]) \in Nat
    BY <1>1 DEF Inv, Typed
  <2>7. /\ queue'[i] \in Seq(Request) /\ Len(queue'[i]) = Len(queue[i]) + 1
        /\ queue'[i][Len(queue[i]) + 1] = r
        /\ \A n \in 1 .. Len(queue[i]) : queue'[i][n] = queue[i][n]
        /\ \A j \in Request \ {i} : queue'[j] = queue[j]
    BY <1>1, <1>2, <2>6 DEF Inv, Typed
  <2>8. Typed'
    <3>1. queue' \in [Request -> Seq(Request)]
      BY <1>2, <2>6, <2>7 DEF Inv, Typed
    <3>2. \A j \in Request : Len(queue'[j]) <= Cap
      BY <1>2, <2>6, <2>7 DEF Inv, Typed
    <3>3. QED
      BY <1>1, <2>2, <3>1, <3>2 DEF Inv, Typed, history
  <2>9. \A j \in Request : \A n \in DOMAIN queue[j] : queue[j][n] \in Request \ {r}
    BY <1>1 DEF Inv, Typed, Lined
  <2>10. r # live[i].serving
    BY <1>1, <1>2 DEF Inv, Served, Request
  <2>11. Lined'
    <3>1. SUFFICES ASSUME NEW j \in Request, NEW n \in DOMAIN queue'[j]
                   PROVE  /\ req'[queue'[j][n]].at = "queued" /\ req'[queue'[j][n]].to = j
                          /\ live'[j].up /\ queue'[j][n] # live'[j].serving
                          /\ \A m \in DOMAIN queue'[j] : queue'[j][m] = queue'[j][n] => m = n
      BY DEF Lined
    <3>2. CASE j # i
      BY <1>1, <2>3, <2>7, <2>9, <3>1, <3>2 DEF Inv, Lined
    <3>3. CASE j = i
      <4>1. DOMAIN queue'[i] = 1 .. (Len(queue[i]) + 1) /\ DOMAIN queue[i] = 1 .. Len(queue[i])
        BY <2>6, <2>7
      <4>2. CASE n = Len(queue[i]) + 1
        BY <1>1, <1>2, <2>3, <2>6, <2>7, <2>9, <2>10, <3>3, <4>1, <4>2
      <4>3. CASE n \in 1 .. Len(queue[i])
        <5>1. queue'[i][n] = queue[i][n] /\ queue[i][n] # r /\ queue[i][n] \in Request
          BY <1>1, <2>7, <2>9, <4>1, <4>3
        <5> n \in DOMAIN queue[i]
          BY <4>1, <4>3
        <5>2. /\ req[queue[i][n]].at = "queued" /\ req[queue[i][n]].to = i
              /\ live[i].up /\ queue[i][n] # live[i].serving
              /\ \A m \in DOMAIN queue[i] : queue[i][m] = queue[i][n] => m = n
          BY <1>1 DEF Inv, Lined
        <5>3. \A m \in DOMAIN queue'[i] : queue'[i][m] = queue'[i][n] => m = n
          BY <2>6, <2>7, <4>1, <5>1, <5>2
        <5>4. QED
          BY <1>1, <2>3, <3>3, <5>1, <5>2, <5>3
      <4>4. QED
        BY <2>6, <3>1, <3>3, <4>1, <4>2, <4>3
    <3>4. QED
      BY <3>2, <3>3
  <2>12. QED
    BY <2>5, <2>8, <2>11 DEF Inv
<1>3. CASE /\ ~ live[i].up
           /\ req' = [req EXCEPT ![r].at = "replied", ![r].out = "gone"]
           /\ queue' = queue
  <2>1. "gone" \in Out
    BY DEF Out
  <2>2. req' \in [Request -> RequestType]
    BY <1>3, <2>1, ReplyProperties DEF Inv
  <2>3. /\ \A q \in Request \ {r} : req'[q] = req[q]
        /\ req'[r].at = "replied" /\ req'[r].out = "gone"
        /\ req'[r].kind = req[r].kind /\ req'[r].to = i
    BY <1>3, <2>1, ReplyProperties DEF Inv
  <2>4. req[r].kind # "close"
    BY <1>1, <1>3 DEF Inv, Closing, Request
  <2>5. Moves(r)
    BY <1>1, <2>3, <2>4 DEF Moves, Replies
  <2>6. QED
    BY <1>1, <1>3, <2>2, <2>3, <2>4, <2>5, RequestMovesKeeps DEF Inv
<1>4. QED
  BY <1>2, <1>3 DEF SendCmd

\* The answer: here the flag of the session decides what a prompt is told.
LEMMA TaskAnswersKeeps ==
    ASSUME Inv, NEW r \in Request, TaskAnswers(r)
    PROVE  Inv'
<1> DEFINE o == req[r].out
           kind == req[r].kind
           i == req[r].to
           v == IF o = "error" THEN "error"
                ELSE IF o = "gone" THEN IF kind = "close" THEN "ok" ELSE "ended"
                ELSE IF kind = "prompt" THEN stop_response(o, live[i].cancel_requested)
                ELSE "ok"
<1>1. /\ req[r].at = "replied" /\ i # 0 /\ i \in Request /\ kind \in {"prompt", "close", "status"}
      /\ o \in Replies(kind)
      /\ UNCHANGED <<reg, live, queue, stored, sent, history>>
  BY DEF TaskAnswers, Inv, Formed, Pending, history
<1>2. req' = Answer(r, v)
  BY DEF TaskAnswers
<1>3. /\ v \in {"error", "ended", "ok", "cancelled", "end_turn", "failed"}
      /\ kind = "close" /\ v = "ok" => o = "ended"
      /\ v = "cancelled" => kind = "prompt" /\ live[i].cancel_requested
      /\ kind = "prompt" /\ o = "idle" /\ live[i].cancel_requested => v = "cancelled"
  <2>1. CASE kind = "prompt"
    <3>1. o \in {"idle", "suspended", "failed", "error", "gone"}
      BY <1>1, <2>1 DEF Replies
    <3>2. CASE o = "idle"
      BY <2>1, <3>2 DEF stop_response
    <3>3. CASE o = "suspended"
      BY <2>1, <3>3 DEF stop_response
    <3>4. CASE o = "failed"
      BY <2>1, <3>4 DEF stop_response
    <3>5. CASE o \in {"error", "gone"}
      BY <2>1, <3>5
    <3>6. QED
      BY <3>1, <3>2, <3>3, <3>4, <3>5
  <2>2. CASE kind # "prompt"
    BY <1>1, <2>2 DEF Replies
  <2>3. QED
    BY <2>1, <2>2
<1>4. v \in Out
  BY <1>3 DEF Out
<1> HIDE DEF v
<1>5. /\ req' \in [Request -> RequestType]
      /\ \A q \in Request \ {r} : req'[q] = req[q]
      /\ req'[r].at = "answered" /\ req'[r].out = v
      /\ req'[r].kind = kind /\ req'[r].to = i
  BY <1>2, <1>4, AnswerProperties DEF Inv
<1>6. Moves(r)
  BY <1>1, <1>3, <1>5 DEF Moves
<1>7. Typed' /\ Formed' /\ Registered' /\ Lined' /\ Served'
  BY <1>1, <1>5, <1>6, RequestMovesKeeps
<1>8. Closing'
  <2>1. kind = "close" => ~ live[i].up /\ (v = "ok" => live[i].status = "done")
    BY <1>1, <1>3 DEF Inv, Closing
  <2>2. QED
    BY <1>1, <1>5, <2>1 DEF Inv, Closing, Answered
<1>9. Charged'
  <2>1. kind = "prompt" /\ v = "cancelled" => r \in asked
    BY <1>1, <1>3 DEF Inv, Charged
  <2>2. QED
    BY <1>1, <1>5, <2>1 DEF Inv, Charged, Answered, history
<1>10. CutShort'
  <2>1. r \in cut => kind = "prompt" /\ o = "idle"
    BY <1>1 DEF Inv, CutShort
  <2>2. r \in cut /\ r \in asked \ crowded => v = "cancelled"
    BY <1>1, <1>3, <2>1 DEF Inv, Charged
  <2>3. QED
    BY <1>1, <1>5, <2>1, <2>2 DEF Inv, Typed, CutShort, history
<1>11. QED
  BY <1>7, <1>8, <1>9, <1>10 DEF Inv

-----------------------------------------------------------------------------
(* The driver and its kernel *)

\* r is the command at the head of i's channel.
Taken(r, i) ==
    r = Head(queue[i]) /\ req[r].at = "queued" /\ req[r].to = i /\ r # live[i].serving

\* What the channels hold once r has left them.
Rest(r) ==
    /\ queue' \in [Request -> Seq(Request)]
    /\ \A j \in Request : Len(queue'[j]) <= Cap
    /\ \A j \in Request : \A n \in DOMAIN queue'[j] :
          /\ queue'[j][n] \in Request \ {r}
          /\ req[queue'[j][n]].at = "queued" /\ req[queue'[j][n]].to = j
          /\ live[j].up /\ queue'[j][n] # live[j].serving
          /\ \A m \in DOMAIN queue'[j] : queue'[j][m] = queue'[j][n] => m = n

\* A driver that takes a command leaves the others where they are.
LEMMA HeadProperties ==
    ASSUME Typed, Lined, NEW i \in Request, queue[i] # <<>>,
           queue' = [queue EXCEPT ![i] = Tail(@)]
    PROVE  \E r \in Request : Taken(r, i) /\ Rest(r)
<1> DEFINE q == queue[i]
<1>1. q \in Seq(Request) /\ q # <<>> /\ Len(q) <= Cap /\ Len(q) \in Nat
  BY DEF Typed
<1>2. queue'[i] = Tail(q) /\ \A j \in Request \ {i} : queue'[j] = queue[j]
  BY DEF Typed
<1>3. \A n \in DOMAIN q : q[n] \in Request /\ req[q[n]].at = "queued" /\ req[q[n]].to = i
          /\ live[i].up /\ q[n] # live[i].serving /\ \A m \in DOMAIN q : q[m] = q[n] => m = n
  BY <1>1 DEF Lined
<1> HIDE DEF q
<1>4. /\ 1 \in DOMAIN q /\ Head(q) = q[1] /\ Tail(q) \in Seq(Request) /\ Len(Tail(q)) = Len(q) - 1
      /\ \A n \in DOMAIN Tail(q) : n + 1 \in DOMAIN q /\ n \in Nat /\ n + 1 # 1
                                       /\ Tail(q)[n] = q[n + 1]
  BY <1>1
<1>5. PICK r \in Request : r = Head(q) /\ req[r].at = "queued" /\ req[r].to = i /\ r # live[i].serving /\ r = q[1]
  BY <1>3, <1>4 DEF q
<1>6. queue' \in [Request -> Seq(Request)]
  BY <1>4 DEF Typed, q
<1>7. \A j \in Request : Len(queue'[j]) <= Cap
  BY <1>1, <1>2, <1>4 DEF Typed
<1>8. ASSUME NEW j \in Request, NEW n \in DOMAIN queue'[j]
      PROVE  /\ queue'[j][n] \in Request \ {r}
             /\ req[queue'[j][n]].at = "queued" /\ req[queue'[j][n]].to = j
             /\ live[j].up /\ queue'[j][n] # live[j].serving
             /\ \A m \in DOMAIN queue'[j] : queue'[j][m] = queue'[j][n] => m = n
  <2>1. CASE j = i
    <3>1. n \in DOMAIN Tail(q) /\ queue'[j] = Tail(q)
      BY <1>2, <1>8, <2>1
    <3>2. Tail(q)[n] = q[n + 1] /\ n + 1 \in DOMAIN q /\ n + 1 # 1
      BY <1>4, <3>1
    <3>3. q[n + 1] \in Request \ {r}
      BY <1>3, <1>4, <1>5, <3>2
    <3>4. \A m \in DOMAIN Tail(q) : Tail(q)[m] = Tail(q)[n] => m = n
      <4>1. ASSUME NEW m \in DOMAIN Tail(q), Tail(q)[m] = Tail(q)[n]
            PROVE  m = n
        <5>1. m + 1 \in DOMAIN q /\ q[m + 1] = q[n + 1] /\ m \in Nat /\ n \in Nat
          BY <1>4, <3>1, <3>2, <4>1
        <5>2. m + 1 = n + 1
          BY <1>3, <3>2, <5>1
        <5>3. QED
          BY <5>1, <5>2
      <4>2. QED
        BY <4>1
    <3>5. QED
      BY <1>3, <2>1, <3>1, <3>2, <3>3, <3>4
  <2>2. CASE j # i
    <3>1. queue'[j] = queue[j]
      BY <1>2, <2>2
    <3>2. /\ req[queue[j][n]].at = "queued" /\ req[queue[j][n]].to = j
          /\ live[j].up /\ queue[j][n] # live[j].serving
          /\ \A m \in DOMAIN queue[j] : queue[j][m] = queue[j][n] => m = n
      BY <1>8, <3>1 DEF Lined
    <3>3. queue[j][n] \in Request
      BY <1>8, <3>1 DEF Typed
    <3>4. QED
      BY <1>5, <2>2, <3>1, <3>2, <3>3
  <2>3. QED
    BY <2>1, <2>2
<1>9. QED
  BY <1>5, <1>6, <1>7, <1>8 DEF q, Taken, Rest

\* The driver takes the command at the head of its channel.
LEMMA DriverTakesKeeps ==
    ASSUME Inv, NEW i \in Request, DriverTakes(i)
    PROVE  Inv'
<1>1. /\ live[i].up /\ live[i].serving = 0 /\ queue[i] # <<>>
      /\ queue' = [queue EXCEPT ![i] = Tail(@)]
      /\ UNCHANGED <<reg, stored, sent, history>>
  BY DEF DriverTakes, history
<1>2. PICK r \in Request : Taken(r, i) /\ Rest(r)
  BY <1>1, HeadProperties DEF Inv
<1>3. /\ req[r].at = "queued" /\ req[r].to = i /\ r # live[i].serving
      /\ queue' \in [Request -> Seq(Request)]
      /\ \A j \in Request : Len(queue'[j]) <= Cap
  BY <1>2 DEF Taken, Rest
<1>4. \A j \in Request : \A n \in DOMAIN queue'[j] :
          /\ queue'[j][n] \in Request \ {r}
          /\ req[queue'[j][n]].at = "queued" /\ req[queue'[j][n]].to = j
          /\ live[j].up /\ queue'[j][n] # live[j].serving
          /\ \A m \in DOMAIN queue'[j] : queue'[j][m] = queue'[j][n] => m = n
  BY <1>2 DEF Rest
<1>5. r # 0 /\ r \in 0 .. MaxRequests
  BY <1>3 DEF Request
<1>6. r \notin cut
  BY <1>3 DEF Inv, CutShort
<1>7. CASE req[r].kind = "status" /\ req' = [req EXCEPT ![r].at = "replied", ![r].out = "value"]
           /\ live' = live
  <2>1. "value" \in Out
    BY DEF Out
  <2>2. req' \in [Request -> RequestType]
    BY <1>7, <2>1, ReplyProperties DEF Inv
  <2>3. /\ \A q \in Request \ {r} : req'[q] = req[q]
        /\ req'[r].at = "replied" /\ req'[r].out = "value"
        /\ req'[r].kind = req[r].kind /\ req'[r].to = req[r].to
        /\ req[r].kind = "status" /\ live' = live
    BY <1>7, <2>1, ReplyProperties DEF Inv
  <2>4. \A q \in Request : Moves(q)
    <3>1. "value" \in Replies(req[r].kind)
      BY <1>7 DEF Replies
    <3>2. Moves(r)
      BY <1>3, <2>3, <3>1 DEF Moves
    <3>3. \A q \in Request \ {r} : Moves(q)
      BY <2>3 DEF Moves
    <3>4. QED
      BY <3>2, <3>3
  <2>5. Typed'
    BY <1>1, <1>3, <1>7, <2>2 DEF Inv, Typed, history
  <2>6. Formed'
    BY <1>1, <2>4, FormedKept DEF Inv
  <2>7. Registered'
    BY <1>1, <1>3, <1>7, <2>3, RegisteredKept DEF Inv
  <2>8. Lined'
    <3>1. SUFFICES ASSUME NEW j \in Request, NEW n \in DOMAIN queue'[j]
                   PROVE  /\ req'[queue'[j][n]].at = "queued" /\ req'[queue'[j][n]].to = j
                          /\ live'[j].up /\ queue'[j][n] # live'[j].serving
                          /\ \A m \in DOMAIN queue'[j] : queue'[j][m] = queue'[j][n] => m = n
      BY DEF Lined
    <3>2. req'[queue'[j][n]] = req[queue'[j][n]]
      BY <1>4, <2>3
    <3>3. QED
      BY <1>4, <2>3, <3>2
  <2>9. Served'
    <3>1. \A j \in Request : live[j].up /\ live[j].serving # 0 => live[j].serving \in Request \ {r}
      <4>1. \A j \in Request : live[j].serving # 0 => live[j].serving \in Request
        BY DEF Inv, Typed, LiveType, Request
      <4>2. QED
        BY <1>7, <4>1 DEF Inv, Served
    <3>2. QED
      BY <2>3, <3>1 DEF Inv, Served
  <2>10. Closing'
    BY <1>1, <1>3, <1>7, <2>3, ClosingKept DEF Inv
  <2>11. Charged'
    BY <1>1, <1>3, <1>7, <2>3, ChargedKept DEF Inv, history
  <2>12. CutShort'
    BY <1>1, <1>6, <2>3, CutShortKept DEF Inv, Typed, history
  <2>13. QED
    BY <2>5, <2>6, <2>7, <2>8, <2>9, <2>10, <2>11, <2>12 DEF Inv
<1>8. ASSUME req[r].kind \in {"prompt", "close"}, req' = req, live' \in [Request -> LiveType],
             \A j \in Request \ {i} : live'[j] = live[j], live'[i].serving = r,
             live'[i].up = live[i].up, live'[i].sid = live[i].sid,
             live'[i].status = live[i].status,
             live'[i].cancel_requested = live[i].cancel_requested
      PROVE  Inv'
  <2>1. Typed'
    BY <1>1, <1>3, <1>8 DEF Inv, Typed, history
  <2>2. Formed'
    BY <1>1, <1>8 DEF Inv, Formed
  <2>3. Registered'
    BY <1>1, <1>8, RegisteredKept DEF Inv
  <2>4. Lined'
    <3>1. \A j \in Request : live'[j].up = live[j].up /\ live'[j].serving \in {live[j].serving, r}
      BY <1>8
    <3>2. QED
      BY <1>4, <1>8, <3>1 DEF Lined
  <2>5. Served'
    <3>1. \A j \in Request : j # i /\ live'[j].up /\ live'[j].serving # 0 =>
              /\ req[live[j].serving].at = "queued" /\ req[live[j].serving].to = j
              /\ req[live[j].serving].kind \in {"prompt", "close"}
              /\ live'[j].serving = live[j].serving
      BY <1>8 DEF Inv, Served
    <3>2. \A j \in Request \ {i} : live'[j].up /\ live'[j].serving # 0 =>
              /\ req'[live'[j].serving].at = "queued" /\ req'[live'[j].serving].to = j
              /\ req'[live'[j].serving].kind \in {"prompt", "close"}
      BY <1>8, <3>1
    <3>3. /\ req'[live'[i].serving].at = "queued" /\ req'[live'[i].serving].to = i
          /\ req'[live'[i].serving].kind \in {"prompt", "close"}
      BY <1>3, <1>8
    <3>4. QED
      BY <3>2, <3>3 DEF Served
  <2>6. Closing'
    BY <1>1, <1>8, ClosingKept DEF Inv
  <2>7. Charged'
    BY <1>1, <1>8, ChargedKept DEF Inv, history
  <2>8. CutShort'
    BY <1>1, <1>8 DEF Inv, CutShort, history
  <2>9. QED
    BY <2>1, <2>2, <2>3, <2>4, <2>5, <2>6, <2>7, <2>8 DEF Inv
<1>9. CASE req[r].kind = "close" /\ live' = [live EXCEPT ![i].serving = r] /\ req' = req
  <2>1. \A x \in LiveType : [x EXCEPT !.serving = r] \in LiveType
    BY <1>5 DEF LiveType
  <2>2. live' \in [Request -> LiveType]
    BY <1>9, <2>1 DEF Inv, Typed
  <2>3. /\ \A j \in Request \ {i} : live'[j] = live[j]
        /\ live'[i].serving = r /\ live'[i].up = live[i].up /\ live'[i].sid = live[i].sid
        /\ live'[i].status = live[i].status
        /\ live'[i].cancel_requested = live[i].cancel_requested
    BY <1>9, <2>2 DEF Inv, Typed, LiveType
  <2>4. QED
    BY <1>8, <1>9, <2>2, <2>3
<1>10. CASE /\ req[r].kind = "prompt" /\ req' = req
           /\ live' = [live EXCEPT ![i].serving = r, ![i].message = TRUE,
                           ![i].token = IF live[i].status = "running" /\ @ = "none"
                                        THEN "armed" ELSE @]
  <2> DEFINE token == IF live[i].status = "running" /\ live[i].token = "none"
                      THEN "armed" ELSE live[i].token
  <2>1. token \in {"none", "armed", "fired"}
    BY DEF Inv, Typed, LiveType
  <2>2. live' = [live EXCEPT ![i] = [live[i] EXCEPT !.serving = r, !.message = TRUE, !.token = token]]
    BY <1>10 DEF Inv, Typed, LiveType
  <2> HIDE DEF token
  <2>3. \A x \in LiveType :
            LET y == [x EXCEPT !.serving = r, !.message = TRUE, !.token = token] IN
            /\ y \in LiveType /\ y.serving = r /\ y.up = x.up /\ y.sid = x.sid
            /\ y.status = x.status /\ y.cancel_requested = x.cancel_requested
    BY <1>5, <2>1 DEF LiveType
  <2>4. /\ live' \in [Request -> LiveType]
        /\ \A j \in Request \ {i} : live'[j] = live[j]
        /\ live'[i].serving = r /\ live'[i].up = live[i].up /\ live'[i].sid = live[i].sid
        /\ live'[i].status = live[i].status
        /\ live'[i].cancel_requested = live[i].cancel_requested
    BY <2>2, <2>3 DEF Inv, Typed
  <2>5. QED
    BY <1>8, <1>10, <2>4
<1>11. QED
  BY <1>2, <1>7, <1>9, <1>10 DEF DriverTakes, Taken

\* What the kernel of i does while its driver waits for it leaves the driver,
\* the session and its flag alone.
LEMMA TurnKeeps ==
    ASSUME Inv, NEW i \in Request, live[i].up, live' \in [Request -> LiveType],
           \A j \in Request \ {i} : live'[j] = live[j],
           live'[i].up = live[i].up, live'[i].sid = live[i].sid,
           live'[i].serving = live[i].serving,
           live'[i].cancel_requested = live[i].cancel_requested,
           stored' \in [Sid -> Statuses], UNCHANGED <<req, reg, queue, sent, history>>
    PROVE  Inv'
<1>1. Typed'
  BY DEF Inv, Typed, history
<1>2. Formed'
  BY DEF Inv, Formed
<1>3. Registered'
  BY RegisteredKept DEF Inv
<1>4. \A j \in Request : SameDriver(j)
  BY DEF SameDriver
<1>5. Lined' /\ Served'
  BY <1>4, LinedKept, ServedKept DEF Inv
<1>6. Closing'
  BY ClosingKept DEF Inv
<1>7. Charged'
  BY ChargedKept DEF Inv, history
<1>8. CutShort'
  BY DEF Inv, CutShort, history
<1>9. QED
  BY <1>1, <1>2, <1>3, <1>5, <1>6, <1>7, <1>8 DEF Inv

\* A new status gives the kernel a new token, and leaves its driver alone.
LEMMA SetStatusKeeps ==
    ASSUME Inv, NEW i \in Request, live[i].up, NEW s \in Statuses, NEW waker \in BOOLEAN,
           SetStatus(i, s, FALSE, waker), UNCHANGED <<req, reg, queue, sent, history>>
    PROVE  Inv'
<1>1. \A x \in LiveType :
          LET y == [x EXCEPT !.status = s, !.token = TokenFor(s), !.message = FALSE, !.waker = waker] IN
          /\ y \in LiveType /\ y.up = x.up /\ y.sid = x.sid /\ y.serving = x.serving
          /\ y.cancel_requested = x.cancel_requested
  BY DEF LiveType, TokenFor
<1>2. /\ live' \in [Request -> LiveType]
      /\ \A j \in Request \ {i} : live'[j] = live[j]
      /\ live'[i].up = live[i].up /\ live'[i].sid = live[i].sid
      /\ live'[i].serving = live[i].serving
      /\ live'[i].cancel_requested = live[i].cancel_requested
  BY <1>1, ZenonT(30) DEF SetStatus, Inv, Typed
<1>3. stored' \in [Sid -> Statuses]
  BY DEF SetStatus, Inv, Typed
<1>4. QED
  BY <1>2, <1>3, TurnKeeps

\* The message starts the session.
LEMMA KernelStartsKeeps ==
    ASSUME Inv, NEW i \in Request, KernelStarts(i)
    PROVE  Inv'
  BY SetStatusKeeps DEF KernelStarts, Prompting, Statuses, history

\* A waker resumes it.
LEMMA KernelWakesKeeps ==
    ASSUME Inv, NEW i \in Request, KernelWakes(i)
    PROVE  Inv'
  BY SetStatusKeeps DEF KernelWakes, Prompting, Statuses, history

\* Another turn follows.
LEMMA TurnContinuesKeeps ==
    ASSUME Inv, NEW i \in Request, TurnContinues(i)
    PROVE  Inv'
  BY SetStatusKeeps DEF TurnContinues, Turning, Prompting, Statuses, history

\* A turn suspends the session on an in-process waker.
LEMMA TurnSuspendsKeeps ==
    ASSUME Inv, NEW i \in Request, TurnSuspends(i)
    PROVE  Inv'
  BY SetStatusKeeps DEF TurnSuspends, Turning, Prompting, Statuses, history

\* `run` returns: the prompt r the driver of i works on is replied to.
LEMMA RunReturnsKeeps ==
    ASSUME Inv, NEW i \in Request, NEW o \in Replies("prompt"), NEW r \in Request,
           Prompting(i), r = live[i].serving, req' \in [Request -> RequestType],
           \A q \in Request \ {r} : req'[q] = req[q],
           req'[r].at = "replied", req'[r].out = o,
           req'[r].kind = req[r].kind, req'[r].to = req[r].to,
           live' \in [Request -> LiveType],
           \A j \in Request \ {i} : live'[j] = live[j],
           live'[i].up = live[i].up, live'[i].sid = live[i].sid, live'[i].serving = 0,
           live'[i].cancel_requested = live[i].cancel_requested,
           stored' \in [Sid -> Statuses], UNCHANGED <<reg, queue, sent, asked, crowded>>,
           cut' = cut \/ (o = "idle" /\ cut' = cut \cup {r})
    PROVE  Inv'
<1>1. /\ live[i].up /\ req[r].kind = "prompt" /\ req[r].at = "queued" /\ req[r].to = i /\ r # 0
      /\ r \notin cut
  <2>1. live[i].up /\ r # 0 /\ req[r].kind = "prompt"
    BY DEF Prompting
  <2>2. req[r].at = "queued" /\ req[r].to = i
    BY <2>1 DEF Inv, Served
  <2>3. QED
    BY <2>1, <2>2 DEF Inv, CutShort
<1>2. \A q \in Request : Moves(q)
  <2>1. Moves(r)
    BY <1>1 DEF Moves
  <2>2. \A q \in Request \ {r} : Moves(q)
    BY DEF Moves
  <2>3. QED
    BY <2>1, <2>2
<1>3. Typed'
  BY DEF Inv, Typed
<1>4. Formed'
  BY <1>2, FormedKept DEF Inv
<1>5. Registered'
  BY <1>1, RegisteredKept DEF Inv
<1>6. Lined'
  <2>1. \A j \in Request : \A n \in DOMAIN queue[j] : queue[j][n] \in Request \ {r}
    <3>1. \A j \in Request : \A n \in DOMAIN queue[j] : queue[j][n] \in Request
      BY DEF Inv, Typed
    <3>2. QED
      BY <1>1, <3>1 DEF Inv, Lined
  <2>2. \A q \in Request : q # 0
    BY DEF Request
  <2>3. SUFFICES ASSUME NEW j \in Request, NEW n \in DOMAIN queue[j]
                 PROVE  /\ req'[queue[j][n]].at = "queued" /\ req'[queue[j][n]].to = j
                        /\ live'[j].up /\ queue[j][n] # live'[j].serving
                        /\ \A m \in DOMAIN queue[j] : queue[j][m] = queue[j][n] => m = n
    BY DEF Lined
  <2>4. /\ req[queue[j][n]].at = "queued" /\ req[queue[j][n]].to = j
        /\ live[j].up /\ queue[j][n] # live[j].serving
        /\ \A m \in DOMAIN queue[j] : queue[j][m] = queue[j][n] => m = n
    BY DEF Inv, Lined
  <2>5. req'[queue[j][n]] = req[queue[j][n]]
    BY <2>1
  <2>6. live'[j].up = live[j].up /\ live'[j].serving \in {live[j].serving, 0}
    BY <1>1
  <2>7. QED
    BY <2>1, <2>2, <2>4, <2>5, <2>6
<1>7. Served'
  <2>1. \A j \in Request : live[j].serving # 0 => live[j].serving \in Request
    <3>1. \A x \in LiveType : x.serving \in 0 .. MaxRequests
      BY DEF LiveType
    <3>2. QED
      BY <3>1 DEF Inv, Typed, Request
  <2>2. \A j \in Request \ {i} : live[j].up /\ live[j].serving # 0 => live[j].serving \in Request \ {r}
    BY <1>1, <2>1 DEF Inv, Served
  <2>3. QED
    BY <2>2 DEF Inv, Served
<1>8. Closing'
  BY <1>1, ClosingKept, ZenonT(30) DEF Inv
<1>9. Charged'
  <2>1. \A q \in Request : req'[q].kind = req[q].kind /\ req'[q].to = req[q].to
    BY <1>2 DEF Moves
  <2>2. \A q \in Request :
            IF req[q].at = "answered" THEN req'[q].at = "answered" /\ req'[q].out = req[q].out
            ELSE req'[q].at # "answered"
    BY <1>1
  <2>3. QED
    BY <2>1, <2>2, ChargedKept DEF Inv
<1>10. CutShort'
  <2>1. \A q \in cut : /\ q \in Request /\ req'[q].kind = req[q].kind /\ req'[q].to = req[q].to
                       /\ req'[q].at = req[q].at /\ req'[q].out = req[q].out
    BY <1>1 DEF Inv, Typed
  <2>2. CASE cut' = cut
    BY <2>1, <2>2, CutShortKept DEF Inv
  <2>3. CASE o = "idle" /\ cut' = cut \cup {r}
    <3>1. i # 0
      BY DEF Request
    <3>2. QED
      BY <1>1, <2>1, <2>3, <3>1 DEF Inv, CutShort
  <2>4. QED
    BY <2>2, <2>3
<1>11. QED
  BY <1>3, <1>4, <1>5, <1>6, <1>7, <1>8, <1>9, <1>10 DEF Inv

\* The run ends with a new status.
LEMMA StopsKeeps ==
    ASSUME Inv, NEW i \in Request, Prompting(i), NEW s \in Statuses, NEW o \in Replies("prompt"),
           Stops(i, s, o), UNCHANGED <<reg, queue, sent, asked, crowded>>,
           cut' = cut \/ (o = "idle" /\ cut' = cut \cup {live[i].serving})
    PROVE  Inv'
<1>1. live[i].serving \in Request
  BY DEF Prompting, Inv, Typed, LiveType, Request
<1>2. \A x \in LiveType :
          LET y == [x EXCEPT !.status = s, !.token = TokenFor(s), !.message = FALSE,
                        !.waker = FALSE, !.serving = 0] IN
          /\ y \in LiveType /\ y.up = x.up /\ y.sid = x.sid /\ y.serving = 0
          /\ y.cancel_requested = x.cancel_requested
  <2>1. 0 \in 0 .. MaxRequests /\ TokenFor(s) \in {"none", "armed", "fired"}
    BY DEF TokenFor
  <2>2. QED
    BY <2>1 DEF LiveType
<1>3. /\ live' \in [Request -> LiveType]
      /\ \A j \in Request \ {i} : live'[j] = live[j]
      /\ live'[i].up = live[i].up /\ live'[i].sid = live[i].sid /\ live'[i].serving = 0
      /\ live'[i].cancel_requested = live[i].cancel_requested
  <2>1. live' = [live EXCEPT ![i] = [live[i] EXCEPT !.status = s, !.token = TokenFor(s),
                                          !.message = FALSE, !.waker = FALSE, !.serving = 0]]
    BY DEF Stops
  <2>2. live \in [Request -> LiveType]
    BY DEF Inv, Typed
  <2>3. QED
    BY <1>2, <2>1, <2>2
<1>4. stored' \in [Sid -> Statuses]
  BY DEF Stops, Inv, Typed
<1>5. PICK r \in Request : r = live[i].serving
  BY <1>1
<1>6. o \in Out
  BY DEF Replies, Out
<1>7. /\ req' \in [Request -> RequestType]
      /\ \A q \in Request \ {r} : req'[q] = req[q]
      /\ req'[r].at = "replied" /\ req'[r].out = o
      /\ req'[r].kind = req[r].kind /\ req'[r].to = req[r].to
  BY <1>5, <1>6, ReplyProperties, ZenonT(30) DEF Stops, Inv
<1>8. QED
  BY <1>3, <1>4, <1>5, <1>7, RunReturnsKeeps

\* The turn sees its fired token.
LEMMA TurnCutKeeps ==
    ASSUME Inv, NEW i \in Request, TurnCut(i)
    PROVE  Inv'
  BY StopsKeeps DEF TurnCut, Turning, Statuses, Replies

\* The turn ends the run.
LEMMA TurnStopsKeeps ==
    ASSUME Inv, NEW i \in Request, TurnStops(i)
    PROVE  Inv'
<1>1. Prompting(i) /\ cut' = cut /\ UNCHANGED <<reg, queue, sent, asked, crowded>>
  BY DEF TurnStops, Turning, history
<1>2. {"idle", "suspended", "failed"} \subseteq Statuses \cap Replies("prompt")
  BY DEF Statuses, Replies
<1>3. CASE Stops(i, "idle", "idle")
  BY <1>1, <1>2, <1>3, StopsKeeps
<1>4. CASE Stops(i, "suspended", "suspended")
  BY <1>1, <1>2, <1>4, StopsKeeps
<1>5. CASE Stops(i, "failed", "failed")
  BY <1>1, <1>2, <1>5, StopsKeeps
<1>6. QED
  BY <1>3, <1>4, <1>5 DEF TurnStops

\* The log refuses an append.
LEMMA RunFailsKeeps ==
    ASSUME Inv, NEW i \in Request, RunFails(i)
    PROVE  Inv'
<1>1. Prompting(i) /\ \E r \in Request : r = live[i].serving
  BY DEF RunFails, Prompting, Inv, Typed, LiveType, Request
<1>2. PICK token \in {"none", "armed", "fired"} : token = TokenFor(live[i].status)
  BY DEF TokenFor
<1>3. \A x \in LiveType, lost \in BOOLEAN :
          LET y == [x EXCEPT !.token = token, !.message = FALSE, !.lost = lost, !.serving = 0] IN
          /\ y \in LiveType /\ y.up = x.up /\ y.sid = x.sid /\ y.serving = 0
          /\ y.cancel_requested = x.cancel_requested
  <2>1. 0 \in 0 .. MaxRequests
    OBVIOUS
  <2>2. QED
    BY <2>1 DEF LiveType
<1>4. PICK lost \in BOOLEAN :
          live' = [live EXCEPT ![i] = [live[i] EXCEPT !.token = token, !.message = FALSE,
                                           !.lost = lost, !.serving = 0]]
  <2>1. {live[i].lost, TRUE} \subseteq BOOLEAN
    BY DEF Inv, Typed, LiveType
  <2>2. QED
    BY <1>2, <2>1 DEF RunFails, Inv, Typed
<1>5. /\ live' \in [Request -> LiveType]
      /\ \A j \in Request \ {i} : live'[j] = live[j]
      /\ live'[i].up = live[i].up /\ live'[i].sid = live[i].sid /\ live'[i].serving = 0
      /\ live'[i].cancel_requested = live[i].cancel_requested
  <2>1. live \in [Request -> LiveType]
    BY DEF Inv, Typed
  <2>2. PICK y \in LiveType :
            /\ y = [live[i] EXCEPT !.token = token, !.message = FALSE, !.lost = lost, !.serving = 0]
            /\ y.up = live[i].up /\ y.sid = live[i].sid /\ y.serving = 0
            /\ y.cancel_requested = live[i].cancel_requested
    BY <1>3, <2>1
  <2>3. live' = [live EXCEPT ![i] = y]
    BY <1>4, <2>2
  <2>4. QED
    BY <2>1, <2>2, <2>3
<1>6. stored' \in [Sid -> Statuses] /\ "error" \in Replies("prompt")
  BY DEF RunFails, Inv, Typed, Replies
<1>7. PICK r \in Request : r = live[i].serving
  BY <1>1
<1>8. "error" \in Out
  BY DEF Out
<1>9. /\ req' \in [Request -> RequestType]
      /\ \A q \in Request \ {r} : req'[q] = req[q]
      /\ req'[r].at = "replied" /\ req'[r].out = "error"
      /\ req'[r].kind = req[r].kind /\ req'[r].to = req[r].to
  BY <1>7, <1>8, ReplyProperties, ZenonT(30) DEF RunFails, Inv
<1>10. UNCHANGED <<reg, queue, sent, asked, crowded, cut>>
  BY DEF RunFails, history
<1>11. QED
  BY <1>1, <1>5, <1>6, <1>7, <1>9, <1>10, RunReturnsKeeps

\* The requests after o was replied to c and the senders in B found the driver
\* gone.
RepliedTo(c, B, o) ==
    [q \in Request |->
        IF q = c THEN [req[q] EXCEPT !.at = "replied", !.out = o]
        ELSE IF q \in B THEN [req[q] EXCEPT !.at = "replied", !.out = "gone"]
        ELSE req[q]]

\* A driver that returns replies to its close and to those behind it.
LEMMA RepliesProperties ==
    ASSUME Typed, NEW c \in Request, NEW B \in SUBSET Request, NEW o \in Out, "gone" \in Out,
           \A q \in B : q # c,
           req' = RepliedTo(c, B, o)
    PROVE  /\ req' \in [Request -> RequestType]
           /\ req'[c].at = "replied" /\ req'[c].out = o
           /\ req'[c].kind = req[c].kind /\ req'[c].to = req[c].to
           /\ \A q \in B : /\ req'[q].at = "replied" /\ req'[q].out = "gone"
                           /\ req'[q].kind = req[q].kind /\ req'[q].to = req[q].to
           /\ \A q \in Request \ (B \cup {c}) : req'[q] = req[q]
<1>1. /\ \A q \in Request : req[q] \in RequestType
      /\ \A x \in RequestType : [x EXCEPT !.at = "replied", !.out = o] \in RequestType
  BY DEF Typed, RequestType, At
<1>2. ASSUME NEW q \in Request
      PROVE  /\ req'[q] \in RequestType
             /\ q = c => /\ req'[c].at = "replied" /\ req'[c].out = o
                         /\ req'[c].kind = req[c].kind /\ req'[c].to = req[c].to
             /\ q \in B => /\ req'[q].at = "replied" /\ req'[q].out = "gone"
                           /\ req'[q].kind = req[q].kind /\ req'[q].to = req[q].to
             /\ q \in Request \ (B \cup {c}) => req'[q] = req[q]
  <2>1. CASE q = c
    <3>1. req'[q] = [req[q] EXCEPT !.at = "replied", !.out = o]
      BY <2>1 DEF RepliedTo
    <3>2. req'[q] \in RequestType
      BY <1>1, <3>1, ZenonT(30)
    <3>3. /\ req'[q].at = "replied" /\ req'[q].out = o
          /\ req'[q].kind = req[q].kind /\ req'[q].to = req[q].to
      BY <1>1, <3>1 DEF RequestType
    <3>4. QED
      BY <2>1, <3>2, <3>3
  <2>2. CASE q \in B
    <3>1. req'[q] = [req[q] EXCEPT !.at = "replied", !.out = "gone"]
      BY <2>2 DEF RepliedTo
    <3>2. req'[q] \in RequestType
      BY <1>1, <3>1 DEF RequestType, At
    <3>3. /\ req'[q].at = "replied" /\ req'[q].out = "gone"
          /\ req'[q].kind = req[q].kind /\ req'[q].to = req[q].to
      BY <1>1, <3>1 DEF RequestType
    <3>4. QED
      BY <2>2, <3>2, <3>3
  <2>3. CASE q \in Request \ (B \cup {c})
    BY <1>1, <2>3 DEF RepliedTo
  <2>4. QED
    BY <2>1, <2>2, <2>3
<1>3. req' \in [Request -> RequestType]
  BY <1>2 DEF RepliedTo
<1>4. QED
  BY <1>2, <1>3

\* The driver of i replies o to its close and is gone, with its channel: the
\* commands behind it are no closes, for no other close was ever sent to i.
LEMMA DriverReturnsKeeps ==
    ASSUME Inv, NEW i \in Request, NEW o \in {"ended", "error"},
           live[i].up, live[i].serving # 0, req[live[i].serving].kind = "close",
           DriverReturns(i, o), live' \in [Request -> LiveType],
           \A j \in Request \ {i} : live'[j] = live[j],
           ~ live'[i].up, live'[i].sid = live[i].sid,
           live'[i].cancel_requested = live[i].cancel_requested,
           o = "ended" => live'[i].status = "done",
           stored' \in [Sid -> Statuses], UNCHANGED <<reg, sent, history>>
    PROVE  Inv'
<1>1. PICK c \in Request : c = live[i].serving
  BY DEF Inv, Typed, LiveType, Request
<1>2. /\ req[c].kind = "close" /\ req[c].at = "queued" /\ req[c].to = i /\ i # 0
  BY <1>1 DEF Inv, Served, Request
<1>3. /\ \A s \in Sid : reg[s] # None => reg[s] # i
      /\ \A q \in Request : req[q].kind = "close" /\ req[q].to = i => q = c
  BY <1>2 DEF Inv, Closing
<1>4. PICK B \in SUBSET Request : B = {q \in Request : \E n \in DOMAIN queue[i] : queue[i][n] = q}
  OBVIOUS
<1>5. \A q \in B : /\ q # c /\ req[q].at = "queued" /\ req[q].to = i
                   /\ req[q].kind \in {"prompt", "status"}
  <2>1. \A q \in B : q # c /\ req[q].at = "queued" /\ req[q].to = i
    BY <1>1, <1>4 DEF Inv, Lined
  <2>2. \A q \in B : req[q].kind \in {"prompt", "close", "status"}
    BY <1>2, <2>1 DEF Inv, Formed
  <2>3. QED
    BY <1>3, <2>1, <2>2
<1>6. req' = RepliedTo(c, B, o) /\ queue' = [queue EXCEPT ![i] = <<>>]
  BY <1>1, <1>4 DEF DriverReturns, RepliedTo
<1>7. o \in Out /\ "gone" \in Out
  BY DEF Out
<1>8. /\ req' \in [Request -> RequestType]
      /\ req'[c].at = "replied" /\ req'[c].out = o
      /\ req'[c].kind = req[c].kind /\ req'[c].to = req[c].to
      /\ \A q \in B : /\ req'[q].at = "replied" /\ req'[q].out = "gone"
                      /\ req'[q].kind = req[q].kind /\ req'[q].to = req[q].to
      /\ \A q \in Request \ (B \cup {c}) : req'[q] = req[q]
  <2>1. Typed /\ \A q \in B : q # c
    BY <1>5 DEF Inv
  <2>2. QED
    BY <1>6, <1>7, <2>1, RepliesProperties
<1>9. \A q \in Request : Moves(q)
  <2>1. Moves(c)
    <3>1. o \in Replies(req[c].kind)
      BY <1>2 DEF Replies
    <3>2. QED
      BY <1>2, <1>8, <3>1 DEF Moves
  <2>2. \A q \in B : Moves(q)
    <3>1. \A q \in B : "gone" \in Replies(req[q].kind)
      BY <1>5 DEF Replies
    <3>2. QED
      BY <1>5, <1>8, <3>1 DEF Moves
  <2>3. \A q \in Request \ (B \cup {c}) : Moves(q)
    BY <1>8 DEF Moves
  <2>4. QED
    BY <2>1, <2>2, <2>3
<1>10. /\ queue' \in [Request -> Seq(Request)] /\ queue'[i] = <<>>
       /\ \A j \in Request \ {i} : queue'[j] = queue[j]
       /\ \A j \in Request : Len(queue'[j]) <= Cap
  <2>1. queue \in [Request -> Seq(Request)] /\ \A j \in Request : Len(queue[j]) <= Cap
    BY DEF Inv, Typed
  <2>2. queue' = [queue EXCEPT ![i] = <<>>]
    BY <1>6
  <2>3. queue' \in [Request -> Seq(Request)]
    BY <2>1, <2>2
  <2>4. queue'[i] = <<>> /\ \A j \in Request \ {i} : queue'[j] = queue[j]
    BY <2>1, <2>2
  <2>5. Len(queue'[i]) <= Cap
    BY <2>4
  <2>6. QED
    BY <2>1, <2>3, <2>4, <2>5
<1>11. Typed'
  BY <1>8, <1>10 DEF Inv, Typed, history
<1>12. Formed'
  BY <1>9, FormedKept DEF Inv
<1>13. Registered'
  <2>1. \A s \in Sid : reg[s] # None => reg[s] \in Request \ {i}
    BY <1>3 DEF Inv, Typed
  <2>2. \A q \in Request : req[q].at = "answered" => req'[q].at = "answered"
    BY <1>9 DEF Moves
  <2>3. QED
    BY <2>1, <2>2 DEF Inv, Registered
<1>14. \A q \in Request : req[q].at = "queued" /\ req[q].to # i => req'[q] = req[q]
  BY <1>2, <1>5, <1>8
<1>15. Lined'
  <2>1. SUFFICES ASSUME NEW j \in Request, NEW n \in DOMAIN queue'[j]
                 PROVE  /\ req'[queue'[j][n]].at = "queued" /\ req'[queue'[j][n]].to = j
                        /\ live'[j].up /\ queue'[j][n] # live'[j].serving
                        /\ \A m \in DOMAIN queue'[j] : queue'[j][m] = queue'[j][n] => m = n
    BY DEF Lined
  <2>2. j # i /\ queue'[j] = queue[j] /\ n \in DOMAIN queue[j]
    BY <1>10, <2>1
  <2>3. queue[j][n] \in Request
    BY <2>2 DEF Inv, Typed
  <2>4. /\ req[queue[j][n]].at = "queued" /\ req[queue[j][n]].to = j
        /\ live[j].up /\ queue[j][n] # live[j].serving
        /\ \A m \in DOMAIN queue[j] : queue[j][m] = queue[j][n] => m = n
    BY <2>2 DEF Inv, Lined
  <2>5. QED
    BY <1>14, <2>2, <2>3, <2>4
<1>16. Served'
  <2>1. \A j \in Request : live[j].serving # 0 => live[j].serving \in Request
    <3>1. \A x \in LiveType : x.serving \in 0 .. MaxRequests
      BY DEF LiveType
    <3>2. QED
      BY <3>1 DEF Inv, Typed, Request
  <2>2. SUFFICES ASSUME NEW j \in Request, live'[j].up, live'[j].serving # 0
                 PROVE  /\ req'[live'[j].serving].at = "queued" /\ req'[live'[j].serving].to = j
                        /\ req'[live'[j].serving].kind \in {"prompt", "close"}
    BY DEF Served
  <2>3. j # i /\ live'[j] = live[j]
    BY <2>2
  <2>4. /\ req[live[j].serving].at = "queued" /\ req[live[j].serving].to = j
        /\ req[live[j].serving].kind \in {"prompt", "close"}
    BY <2>2, <2>3 DEF Inv, Served
  <2>5. QED
    BY <1>14, <2>1, <2>2, <2>3, <2>4
<1>17. \A q \in Request : req'[q].kind = req[q].kind /\ req'[q].to = req[q].to
  BY <1>9 DEF Moves
<1>18. Closing'
  <2>1. \A q \in Request \ {c} : req[q].kind = "close" => req'[q] = req[q] /\ req[q].to # i
    BY <1>3, <1>5, <1>8
  <2>2. SUFFICES ASSUME NEW q \in Request, req[q].kind = "close", req[q].to # 0
                 PROVE  /\ \A s \in Sid : reg[s] # None => reg[s] # req[q].to
                        /\ \A p \in Request : req[p].kind = "close" /\ req[p].to = req[q].to => p = q
                        /\ live'[req[q].to].up <=> req'[q].at \in {"send", "queued"}
                        /\ req'[q].at = "replied" /\ req'[q].out = "ended" =>
                              live'[req[q].to].status = "done"
                        /\ req'[q].at = "answered" /\ req'[q].out = "ok" =>
                              live'[req[q].to].status = "done"
    BY <1>17 DEF Closing, Answered
  <2>3. CASE q = c
    BY <1>2, <1>3, <1>8, <2>3
  <2>4. CASE q # c
    <3>1. req[q].to \in Request \ {i} /\ req'[q] = req[q]
      BY <2>1, <2>2, <2>4 DEF Inv, Formed
    <3>2. live'[req[q].to] = live[req[q].to]
      BY <3>1
    <3>3. QED
      BY <2>2, <3>1, <3>2 DEF Inv, Closing, Answered
  <2>5. QED
    BY <2>3, <2>4
<1>19. Charged'
  <2>1. \A q \in Request :
            IF req[q].at = "answered" THEN req'[q].at = "answered" /\ req'[q].out = req[q].out
            ELSE req'[q].at # "answered"
    BY <1>2, <1>5, <1>8
  <2>2. \A j \in Request : live'[j].cancel_requested = live[j].cancel_requested
    OBVIOUS
  <2>3. QED
    BY <1>17, <2>1, <2>2, ChargedKept DEF Inv, history
<1>20. CutShort'
  <2>1. \A q \in cut : q \in Request /\ req[q].at # "queued"
    BY DEF Inv, Typed, CutShort
  <2>2. \A q \in cut : req'[q] = req[q]
    BY <1>2, <1>5, <1>8, <2>1
  <2>3. QED
    BY <2>2, CutShortKept DEF Inv, history
<1>21. QED
  BY <1>11, <1>12, <1>13, <1>15, <1>16, <1>18, <1>19, <1>20 DEF Inv

\* Kernel::end, whether or not the log accepts the final checkpoint.
LEMMA DriverEndsKeeps ==
    ASSUME Inv, NEW i \in Request, DriverEnds(i)
    PROVE  Inv'
<1>1. /\ live[i].up /\ live[i].serving # 0 /\ req[live[i].serving].kind = "close"
      /\ UNCHANGED <<reg, sent, history>>
  BY DEF DriverEnds, history
<1>2. CASE /\ DriverReturns(i, "ended")
           /\ live' = [live EXCEPT ![i].status = "done", ![i].token = "none", ![i].up = FALSE]
           /\ stored' = [stored EXCEPT ![live[i].sid] = "done"]
  <2>1. "done" \in Statuses
    BY DEF Statuses
  <2>2. \A x \in LiveType :
            LET y == [x EXCEPT !.status = "done", !.token = "none", !.up = FALSE] IN
            /\ y \in LiveType /\ ~ y.up /\ y.sid = x.sid /\ y.status = "done"
            /\ y.cancel_requested = x.cancel_requested
    BY <2>1 DEF LiveType
  <2>3. live \in [Request -> LiveType] /\ stored \in [Sid -> Statuses]
    BY DEF Inv, Typed
  <2>4. /\ live' \in [Request -> LiveType]
        /\ \A j \in Request \ {i} : live'[j] = live[j]
        /\ ~ live'[i].up /\ live'[i].sid = live[i].sid /\ live'[i].status = "done"
        /\ live'[i].cancel_requested = live[i].cancel_requested
    <3>1. live' = [live EXCEPT ![i] = [live[i] EXCEPT !.status = "done", !.token = "none",
                                           !.up = FALSE]]
      BY <1>2
    <3>2. QED
      BY <2>2, <2>3, <3>1
  <2>5. stored' \in [Sid -> Statuses]
    BY <1>2, <2>1, <2>3
  <2>6. DriverReturns(i, "ended")
    BY <1>2
  <2>7. QED
    BY <1>1, <2>4, <2>5, <2>6, DriverReturnsKeeps
<1>3. CASE /\ DriverReturns(i, "error")
           /\ live' = [live EXCEPT ![i].up = FALSE]
           /\ stored' = stored
  <2>1. \A x \in LiveType :
            LET y == [x EXCEPT !.up = FALSE] IN
            /\ y \in LiveType /\ ~ y.up /\ y.sid = x.sid
            /\ y.cancel_requested = x.cancel_requested
    BY DEF LiveType
  <2>2. live \in [Request -> LiveType] /\ stored' \in [Sid -> Statuses]
    BY <1>3 DEF Inv, Typed
  <2>3. /\ live' \in [Request -> LiveType]
        /\ \A j \in Request \ {i} : live'[j] = live[j]
        /\ ~ live'[i].up /\ live'[i].sid = live[i].sid
        /\ live'[i].cancel_requested = live[i].cancel_requested
    <3>1. live' = [live EXCEPT ![i] = [live[i] EXCEPT !.up = FALSE]]
      BY <1>3
    <3>2. QED
      BY <2>1, <2>2, <3>1
  <2>4. DriverReturns(i, "error")
    BY <1>3
  <2>5. QED
    BY <1>1, <2>2, <2>3, <2>4, DriverReturnsKeeps
<1>4. QED
  BY <1>2, <1>3 DEF DriverEnds

\* A driver that no sender is left for was sent no close.
LEMMA DriverDroppedKeeps ==
    ASSUME Inv, NEW i \in Request, DriverDropped(i)
    PROVE  Inv'
<1>1. /\ live[i].up /\ live[i].serving = 0 /\ queue[i] = <<>>
      /\ \A s \in Sid : reg[s] # i
      /\ \A r \in Request : req[r].to = i => req[r].at = "answered"
      /\ UNCHANGED <<req, reg, queue, stored, sent, history>>
  BY DEF DriverDropped, history
<1>2. \A x \in LiveType :
          LET y == [x EXCEPT !.up = FALSE] IN
          /\ y \in LiveType /\ ~ y.up /\ y.cancel_requested = x.cancel_requested
  BY DEF LiveType
<1>3. /\ live' \in [Request -> LiveType]
      /\ \A j \in Request \ {i} : live'[j] = live[j]
      /\ ~ live'[i].up /\ live'[i].cancel_requested = live[i].cancel_requested
  <2>1. live \in [Request -> LiveType]
    BY DEF Inv, Typed
  <2>2. live' = [live EXCEPT ![i] = [live[i] EXCEPT !.up = FALSE]]
    BY DEF DriverDropped
  <2>3. QED
    BY <1>2, <2>1, <2>2
<1>4. Typed'
  BY <1>1, <1>3 DEF Inv, Typed, history
<1>5. Formed'
  BY <1>1 DEF Inv, Formed
<1>6. Registered'
  <2>1. \A s \in Sid : reg[s] # None => reg[s] \in Request \ {i}
    BY <1>1 DEF Inv, Typed
  <2>2. QED
    BY <1>1, <1>3, <2>1 DEF Inv, Registered
<1>7. Lined'
  <2>1. \A j \in Request : DOMAIN queue[j] # {} => j # i
    BY <1>1
  <2>2. QED
    BY <1>1, <1>3, <2>1 DEF Inv, Lined
<1>8. Served'
  BY <1>1, <1>3 DEF Inv, Served
<1>9. Closing'
  <2>1. i # 0
    BY DEF Request
  <2>2. \A q \in Request : req[q].kind = "close" => req[q].to # i
    BY <1>1, <2>1 DEF Inv, Closing
  <2>3. \A q \in Request : req[q].to # 0 => req[q].to \in Request
    BY DEF Inv, Formed
  <2>4. QED
    BY <1>1, <1>3, <2>2, <2>3 DEF Inv, Closing, Answered
<1>10. Charged'
  <2>1. \A j \in Request : live'[j].cancel_requested = live[j].cancel_requested
    BY <1>3
  <2>2. QED
    BY <1>1, <2>1, ChargedKept DEF Inv, history
<1>11. CutShort'
  BY <1>1 DEF Inv, CutShort, history
<1>12. QED
  BY <1>4, <1>5, <1>6, <1>7, <1>8, <1>9, <1>10, <1>11 DEF Inv

-----------------------------------------------------------------------------
(* The theorems *)

\* Nothing is live at first.
LEMMA InitInv == Init => Inv
<1>1. SUFFICES ASSUME Init PROVE Inv
  OBVIOUS
<1>2. /\ \A r \in Request : req[r] = Unsent /\ live[r] = NotLive /\ queue[r] = <<>>
      /\ \A s \in Sid : reg[s] = None
      /\ sent = 0 /\ asked = {} /\ cut = {} /\ crowded = {}
  BY <1>1 DEF Init
<1>3. Typed
  <2>1. Unsent \in RequestType
    BY DEF Unsent, RequestType, At, Kind, Out
  <2>2. NotLive \in LiveType
    BY DEF NotLive, LiveType, Statuses
  <2>3. req \in [Request -> RequestType] /\ live \in [Request -> LiveType]
    BY <1>1, <2>1, <2>2 DEF Init
  <2>4. stored \in [Sid -> Statuses]
    <3>1. Left \subseteq Statuses
      BY DEF Statuses
    <3>2. QED
      BY <1>1, <3>1 DEF Init
  <2>5. queue \in [Request -> Seq(Request)] /\ \A r \in Request : Len(queue[r]) <= Cap
    BY <1>1 DEF Init
  <2>6. reg \in [Sid -> Request \cup {None}]
    BY <1>1 DEF Init
  <2>7. QED
    BY <1>2, <2>3, <2>4, <2>5, <2>6 DEF Typed
<1>4. Formed
  BY <1>2 DEF Formed, Unsent, Pending, Request
<1>5. Registered /\ Lined /\ Served
  BY <1>2 DEF Registered, Lined, Served, NotLive
<1>6. Closing /\ Charged /\ CutShort
  BY <1>2 DEF Closing, Charged, CutShort, Unsent
<1>7. QED
  BY <1>3, <1>4, <1>5, <1>6 DEF Inv

\* Every handler, task and driver step keeps the invariant.
LEMMA NextInv == Inv /\ [Next]_vars => Inv'
<1>1. SUFFICES ASSUME Inv, [Next]_vars PROVE Inv'
  OBVIOUS
<1>2. CASE Client
  BY <1>1, <1>2, ReceiveNewKeeps, ReceiveLoadKeeps, ReceivePromptKeeps, ReceiveEmptyPromptKeeps,
     ReceiveCloseKeeps, ReceiveStatusKeeps, ReceiveCancelKeeps DEF Client
<1>3. ASSUME NEW r \in Request, Task(r) \/ LaunchFails(r) PROVE Inv'
  BY <1>1, <1>3, CreateSessionKeeps, ReopenCheckKeeps, ReopenKeeps, SendCmdKeeps,
     TaskAnswersKeeps, LaunchFailsKeeps DEF Task
<1>4. ASSUME NEW i \in Request, Drive(i) \/ KernelWakes(i) \/ RunFails(i) PROVE Inv'
  BY <1>1, <1>4, DriverTakesKeeps, KernelStartsKeeps, KernelWakesKeeps, TurnContinuesKeeps,
     TurnSuspendsKeeps, TurnCutKeeps, TurnStopsKeeps, DriverEndsKeeps, DriverDroppedKeeps,
     RunFailsKeeps DEF Drive, Run
<1>5. CASE UNCHANGED vars
  BY <1>1, <1>5 DEF vars, Inv, Typed, Formed, Registered, Lined, Served, Closing, Charged, CutShort,
     Answered
<1>6. QED
  BY <1>1, <1>2, <1>3, <1>4, <1>5 DEF Next

\* The inductive invariant.
THEOREM ServerInvariant == Spec => []Inv
  BY InitInv, NextInv, PTL DEF Spec

\* What the invariant says of the answers.
LEMMA InvImplies == Inv => TypeOK /\ CancelledWasAsked /\ CutSaysCancelled /\ ClosedMeansEnded
<1>1. SUFFICES ASSUME Inv PROVE TypeOK /\ CancelledWasAsked /\ CutSaysCancelled /\ ClosedMeansEnded
  OBVIOUS
<1>2. TypeOK
  BY <1>1 DEF Inv, Typed, TypeOK, RequestType, LiveType, Kind, At, Out
<1>3. \A r \in Request : Answered(r, "cancelled") => req[r].to # 0 /\ req[r].kind = "prompt"
  BY <1>1 DEF Inv, Formed, Answered
<1>4. CancelledWasAsked
  BY <1>1, <1>3 DEF CancelledWasAsked, Inv, Charged
<1>5. CutSaysCancelled
  BY <1>1 DEF CutSaysCancelled, Inv, CutShort
<1>6. ClosedMeansEnded
  BY <1>1 DEF ClosedMeansEnded, Inv, Closing, Formed, Answered
<1>7. QED
  BY <1>2, <1>4, <1>5, <1>6

\* Every variable of the server has its type in every reachable state.
THEOREM ServerTypeCorrect == Spec => []TypeOK
  BY ServerInvariant, InvImplies, PTL

\* A prompt is answered `cancelled` only if a cancel reached the server between
\* the prompt and its answer, however late the turn of an earlier prompt ends.
THEOREM CancelsCharged == Spec => []CancelledWasAsked
  BY ServerInvariant, InvImplies, PTL

\* A prompt whose turn was cut after a cancel that reached it is answered
\* `cancelled`, unless a later prompt of its session reset the flag.
THEOREM CutsTold == Spec => []CutSaysCancelled
  BY ServerInvariant, InvImplies, PTL

\* session/close answers ok only once Kernel::end has made the session final.
THEOREM ClosesEnd == Spec => []ClosedMeansEnded
  BY ServerInvariant, InvImplies, PTL
=============================================================================
