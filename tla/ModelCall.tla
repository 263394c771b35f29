------------------------------ MODULE ModelCall ------------------------------
(***************************************************************************)
(* The model call of a turn: call_with_retry of the kernel (loop_/retry.rs)*)
(* over the streaming client (Provider), and the projection of deltas and  *)
(* events to the user's client (acp/project.rs, acp/agent.rs).             *)
(*                                                                         *)
(* The endpoint may answer with any of its replies, deliver the bytes of its   *)
(* stream in any portions, stop anywhere, fail or hang.                    *)
(***************************************************************************)
EXTENDS Provider

CONSTANTS Endpoints,      \* name -> its quirks and the replies it may give
          Fallback,       \* slot -> the id of a call that came without one
          MaxAttempts, BaseDelay, Multiplier, MaxDelay, Jitter,   \* RetryPolicy
          DeltaCapacity, EventCapacity,   \* of the two broadcast channels
          MaxTurns,       \* bound: turns
          MaxCancels      \* bound: cancellations

ASSUME PolicyAssumption ==
  /\ {MaxAttempts, BaseDelay, Multiplier, MaxDelay, MaxTurns, MaxCancels} \subseteq Nat
  /\ {DeltaCapacity, EventCapacity} \subseteq Nat \ {0} /\ Jitter \in BOOLEAN

ASSUME EndpointsAssumption ==
  \A e \in DOMAIN Endpoints : \A r \in Endpoints[e].replies :
    /\ r.k \in {"prepare", "host", "status", "stream"}
    /\ r.k = "stream" => r.lines \in Seq(Line)

VARIABLES ep,        \* the endpoint of the session
          pc,        \* where the call is
          turn, attempt, token, cancels,
          reply,     \* the answer to this attempt
          rest,      \* the bytes of it that have not arrived
          st,        \* StreamState
          error, delay,
          result,    \* the response
          messages,  \* State.messages
          wire,      \* the body of the last request
          sink,      \* the delta channel
          events,    \* the event channel
          streamed,  \* Projector
          shown,     \* the text of this turn that the client has got, or Gap
          sent,      \* the deltas of this attempt
          outcome    \* how the last turn ended

channels == <<sink, events, streamed, shown, outcome>>
vars == <<ep, pc, turn, attempt, token, cancels, reply, rest, st, error, delay, result,
          messages, wire, sink, events, streamed, shown, sent, outcome>>

(* A broadcast channel overwrites what its receiver has not taken.         *)
Offer(queue, item, capacity) ==
  IF Len(queue) < capacity THEN Append(queue, item) ELSE Append(Tail(queue), item)

(* Something of this turn that the client has not seen is gone.            *)
Gap == <<"gap">>
After(text, queue, capacity) ==
  IF Len(queue) = capacity /\ Head(queue).turn = turn THEN Gap ELSE text

(* To the projection an event is a request, a response with its text, or   *)
(* something that has no update.                                           *)
EventOf(kind, n, content) ==
  [kind |-> IF kind \in {"model_request", "model_response"} THEN kind ELSE "other",
   turn |-> n, text |-> TextOf(content)]

(* So is a delta, of which the text is shown.                              *)
DeltaOf(n, d) ==
  [kind |-> IF d.t \in Kinds THEN d.t ELSE "other", turn |-> n,
   text |-> IF d.t = "text" THEN d.text ELSE <<>>]

Log(kind, content) ==
  /\ events' = Offer(events, EventOf(kind, turn, content), EventCapacity)
  /\ shown' = After(shown, events, EventCapacity)
  /\ outcome' = kind
  /\ UNCHANGED <<sink, streamed>>

quirks == Endpoints[ep]

NoReply    == [k |-> "none", after |-> None]
NoResponse == [content |-> <<>>, stop |-> Empty, usage |-> FALSE]

(* The stream of an attempt is dropped with it.                            *)
Drop == rest' = <<>> /\ st' = StreamState("none") /\ sent' = <<>>

-----------------------------------------------------------------------------
(* The kernel.                                                             *)

(* Steps B of a turn that bear on the call: the request is logged.         *)
Request ==
  /\ pc = "idle" /\ turn < MaxTurns
  /\ turn' = turn + 1 /\ attempt' = 1 /\ pc' = "send"
  /\ messages' = IF messages # <<>> /\ Last(messages).role = "tool" THEN messages
                 ELSE Append(messages, [role |-> "user", content |-> <<[t |-> "text", text |-> <<"u">>]>>])
  /\ reply' = NoReply /\ result' = NoResponse
  /\ events' = Offer(events, EventOf("model_request", turn + 1, <<>>), EventCapacity)
  /\ shown' = <<>> /\ outcome' = Empty /\ UNCHANGED <<sink, streamed>>
  /\ UNCHANGED <<ep, token, cancels, rest, st, error, delay, wire, sent>>

(* The user cancels the turn.                                              *)
Cancel ==
  /\ pc # "idle" /\ ~token /\ cancels < MaxCancels
  /\ token' = TRUE /\ cancels' = cancels + 1
  /\ UNCHANGED <<ep, pc, turn, attempt, reply, rest, st, error, delay, result, messages, wire, sent>>
  /\ UNCHANGED channels

(* The biased selects look at the token first.                             *)
CancelSeen ==
  /\ token /\ pc \in {"send", "sent", "body", "backoff"}
  /\ pc' = "cancelled" /\ Drop
  /\ UNCHANGED <<ep, turn, attempt, token, cancels, reply, error, delay, result, messages, wire>>
  /\ UNCHANGED channels

(* One attempt: build_request, then NetHandle::send.                       *)
Send ==
  /\ pc = "send" /\ ~token
  /\ pc' = "sent"
  /\ wire' = render_body(messages, quirks, TRUE)
  /\ UNCHANGED <<ep, turn, attempt, token, cancels, reply, rest, st, error, delay, result,
                 messages, sent>>
  /\ UNCHANGED channels

Fails(e) == pc' = "err" /\ error' = e /\ Drop

BodyErrors == {"timed out", "reset"}

(* The answer: nothing could be sent, or no connection, or a status (whose *)
(* body may break off while read_bounded takes it), or a stream.           *)
Answer ==
  /\ pc = "sent"
  /\ \E r \in quirks.replies :
       /\ reply' = r
       /\ CASE r.k = "prepare" -> Fails(r.error)
            [] r.k = "host"    -> Fails(classify_host_error(r.error))
            [] r.k = "status"  -> \/ Fails(classify_status(r.status, r.overflow))
                                  \/ \E e \in BodyErrors : Fails(classify_host_error(e))
            [] r.k = "stream"  -> /\ pc' = "body" /\ st' = StreamState(quirks.field)
                                  /\ rest' = FlattenSeq([i \in DOMAIN r.lines |-> Bytes(r.lines[i])])
                                  /\ UNCHANGED <<error, sent>>
  /\ UNCHANGED <<ep, turn, attempt, token, cancels, delay, result, messages, wire>>
  /\ UNCHANGED channels

Reading == pc = "body" /\ st.pending = <<>> /\ ~st.done

(* What a read has made of the stream, of which `left` is still to come.   *)
Takes(next, left) ==
  IF next.error # Empty THEN Fails(next.error)
  ELSE st' = next /\ rest' = left /\ UNCHANGED <<pc, error, sent>>

Deliver ==
  /\ Reading
  /\ \E n \in 1 .. Len(rest) :
       Takes(StepBytes(st, SubSeq(rest, 1, n), Fallback), SubSeq(rest, n + 1, Len(rest)))
  /\ UNCHANGED <<ep, turn, attempt, token, cancels, reply, delay, result, messages, wire>>
  /\ UNCHANGED channels

(* The body ends, after the last byte or before.                           *)
Eof ==
  /\ Reading
  /\ \E behindPrefix \in BOOLEAN : Takes(StepEof(st, behindPrefix, Fallback), <<>>)
  /\ UNCHANGED <<ep, turn, attempt, token, cancels, reply, delay, result, messages, wire>>
  /\ UNCHANGED channels

BodyError ==
  /\ Reading
  /\ \E e \in BodyErrors : Fails(classify_host_error(e))
  /\ UNCHANGED <<ep, turn, attempt, token, cancels, reply, delay, result, messages, wire>>
  /\ UNCHANGED channels

(* request_timeout of the kernel, or the timeouts of the client.           *)
Timeout_HeadersOnly ==
  /\ pc = "sent"
  /\ Fails("Timeout")
  /\ UNCHANGED <<ep, turn, attempt, token, cancels, reply, delay, result, messages, wire>>
  /\ UNCHANGED channels

Timeout ==
  /\ pc \in {"sent", "body"}
  /\ Fails("Timeout")
  /\ UNCHANGED <<ep, turn, attempt, token, cancels, reply, delay, result, messages, wire>>
  /\ UNCHANGED channels

(* one_attempt hands a delta to the sink; Complete ends the attempt.       *)
Forward ==
  /\ pc = "body" /\ st.pending # <<>>
  /\ LET d == Head(st.pending)
     IN  /\ st' = [st EXCEPT !.pending = Tail(@)]
         /\ sink' = Offer(sink, DeltaOf(turn, d), DeltaCapacity)
         /\ shown' = After(shown, sink, DeltaCapacity)
         /\ sent' = Append(sent, d)
         /\ IF d.t = "complete" THEN pc' = "ok" /\ result' = d.response
            ELSE UNCHANGED <<pc, result>>
  /\ UNCHANGED <<ep, turn, attempt, token, cancels, reply, rest, error, delay, messages, wire,
                 events, streamed, outcome>>

(* delay = min(max_delay, base * multiplier^(attempt-1)), less the jitter, *)
(* but no shorter than what a rate limit asks for, capped as well.         *)
Power[n \in Nat] == IF n = 0 THEN 1 ELSE Multiplier * Power[n - 1]

backoff_delay(n, e, after) ==
  LET capped == Min({BaseDelay * Power[n - 1], MaxDelay})
      floor  == IF e = "RateLimited" /\ after # None THEN Min({after, MaxDelay}) ELSE 0
  IN  {Max({d, floor}) : d \in IF Jitter THEN 0 .. capped ELSE {capped}}

(* The attempt has failed: cancelled, retried after a delay, or given up.  *)
AfterError ==
  /\ pc = "err"
  /\ IF ~token /\ retryable(error) /\ attempt < MaxAttempts
       THEN /\ pc' = "backoff" /\ delay' \in backoff_delay(attempt, error, reply.after)
            /\ Log("provider_retry", <<>>)
       ELSE /\ pc' = IF token THEN "cancelled" ELSE "failed"
            /\ UNCHANGED delay /\ UNCHANGED channels
  /\ UNCHANGED <<ep, turn, attempt, token, cancels, reply, rest, st, error, result, messages, wire, sent>>

(* provider_retry could not be written: CallFailure::Log fails the turn     *)
(* like a call that was given up (Abort::fail), and fail_turn logs that.   *)
RetryNotLogged ==
  /\ pc = "err" /\ ~token /\ retryable(error) /\ attempt < MaxAttempts
  /\ pc' = "failed"
  /\ UNCHANGED <<ep, turn, attempt, token, cancels, reply, rest, st, error, delay, result,
                 messages, wire, sent>>
  /\ UNCHANGED channels

Wake ==
  /\ pc = "backoff" /\ ~token
  /\ attempt' = attempt + 1 /\ pc' = "send" /\ reply' = NoReply /\ error' = Empty /\ delay' = 0
  /\ UNCHANGED <<ep, turn, token, cancels, rest, st, result, messages, wire, sent>>
  /\ UNCHANGED channels

(* The turn goes on with the response, is cancelled or has failed.  Each   *)
(* call is answered in a Tool message of its own.                          *)
Answers(content) ==
  [i \in DOMAIN CallsOf(content) |-> [role |-> "tool", content |-> <<[id |-> CallsOf(content)[i].id]>>]]

Conclude ==
  /\ pc \in {"ok", "failed", "cancelled"}
  /\ pc' = "idle" /\ token' = FALSE /\ attempt' = 0 /\ reply' = NoReply /\ Drop
  /\ error' = Empty /\ delay' = 0
  /\ IF pc = "ok" /\ ~token
       THEN /\ messages' = Append(messages, [role |-> "assistant", content |-> result.content])
                           \o Answers(result.content)
            /\ Log("model_response", result.content)
            /\ UNCHANGED result
       ELSE /\ result' = NoResponse /\ UNCHANGED messages
            /\ Log(IF pc = "failed" THEN "turn_failed" ELSE "cancelled", <<>>)
  /\ UNCHANGED <<ep, turn, cancels, wire>>

-----------------------------------------------------------------------------
(* project_task: deltas before events, whenever there is one.              *)
Show(t, text) == shown' = IF t = turn /\ shown # Gap THEN shown \o text ELSE shown

ProjectDelta ==
  /\ sink # <<>>
  /\ streamed' = (streamed \/ Head(sink).kind \in Kinds)
  /\ Show(Head(sink).turn, Head(sink).text)
  /\ sink' = Tail(sink)
  /\ UNCHANGED <<ep, pc, turn, attempt, token, cancels, reply, rest, st, error, delay, result,
                 messages, wire, events, sent, outcome>>

ProjectEvent ==
  /\ sink = <<>> /\ events # <<>>
  /\ LET e == Head(events)
     IN  /\ streamed' = (streamed /\ e.kind \notin {"model_request", "model_response"})
         /\ IF e.kind = "model_response" /\ ~streamed THEN Show(e.turn, e.text)
            ELSE UNCHANGED shown
  /\ events' = Tail(events)
  /\ UNCHANGED <<ep, pc, turn, attempt, token, cancels, reply, rest, st, error, delay, result,
                 messages, wire, sink, sent, outcome>>

-----------------------------------------------------------------------------
Init ==
  /\ ep \in DOMAIN Endpoints /\ pc = "idle" /\ turn = 0 /\ attempt = 0 /\ token = FALSE /\ cancels = 0
  /\ reply = NoReply /\ rest = <<>> /\ st = StreamState("none") /\ error = Empty /\ delay = 0
  /\ result = NoResponse /\ messages = <<>> /\ wire = render_body(<<>>, quirks, FALSE)
  /\ sink = <<>> /\ events = <<>> /\ streamed = FALSE /\ shown = <<>>
  /\ sent = <<>> /\ outcome = Empty

Next == \/ Request \/ Cancel \/ CancelSeen \/ Send \/ Answer \/ Deliver \/ Eof \/ BodyError
        \/ Timeout \/ Forward \/ AfterError \/ RetryNotLogged \/ Wake \/ Conclude
        \/ ProjectDelta \/ ProjectEvent

(* Timers fire and the task of the call runs on; nothing is asked of the   *)
(* endpoint.                                                               *)
Proceed == Send \/ Timeout \/ AfterError \/ Wake \/ CancelSeen \/ Conclude

Spec == Init /\ [][Next]_vars /\ WF_vars(Proceed)

-----------------------------------------------------------------------------
(* Properties.                                                             *)

(* The call is somewhere, its counters are within their bounds, and a      *)
(* stream that is done still has its Complete to hand on: the error        *)
(* "stream ended without a Complete item" of one_attempt is never reached. *)
TypeOK ==
  /\ pc \in {"idle", "send", "sent", "body", "err", "backoff", "ok", "failed", "cancelled"}
  /\ turn \in 0 .. MaxTurns /\ attempt \in 0 .. Max({1, MaxAttempts})
  /\ Len(sink) <= DeltaCapacity /\ Len(events) <= EventCapacity
  /\ pc = "body" /\ st.done => st.pending # <<>> /\ Last(st.pending).t = "complete"

(* What the endpoint meant to say, as far as the configured field shows it.*)
Heard(r, field) ==
  [text     |-> IF r.inline # <<>> /\ field # "inline_think" THEN r.inline ELSE r.text,
   thinking |-> IF r.field = field THEN r.thinking ELSE <<>>]

(* A response is what the endpoint meant: its text, its thinking and its   *)
(* calls, none merged, split, lost or out of order, whatever portions the  *)
(* bytes arrive in, however the endpoint writes its calls, and wherever    *)
(* the stream stops (sse.rs, accumulate.rs, step of openai_compat.rs).     *)
AssembledAsMeant ==
  pc = "ok" =>
    LET c == result.content
        h == Heard(reply, quirks.field)
        calls == CallsOf(c)
    IN  /\ TextOf(c) = h.text /\ ThinkOf(c) = h.thinking
        /\ Len(calls) = Len(reply.calls)
        /\ \A i \in DOMAIN calls :
             /\ calls[i].name = reply.calls[i].name /\ calls[i].input = reply.calls[i].input
             /\ reply.calls[i].id # Empty => calls[i].id = reply.calls[i].id
             /\ \A j \in DOMAIN calls : calls[i].id = calls[j].id => i = j
        /\ (calls # <<>> /\ reply.finish \in {Empty, "stop", "tool_calls"}) <=> (result.stop = "ToolUse")

(* What the deltas say, block by block in the order of their indices.      *)
Of(deltas, i) == SelectSeq(deltas, LAMBDA d : d.index = i)
TextIn(deltas) == FlattenSeq([j \in DOMAIN deltas |->
                                IF deltas[j].t \in Kinds \cup {"input"} THEN deltas[j].text ELSE <<>>])
BlocksOf(deltas) ==
  LET indices == SetToSortSeq({deltas[j].index : j \in DOMAIN deltas}, <)
  IN  [n \in DOMAIN indices |-> Of(deltas, indices[n])]

(* The deltas of one block say b: pieces of its kind only, which put        *)
(* together are its text, or the start of its call and then its input, and *)
(* the last of them is a stop.                                             *)
Tells(deltas, b) ==
  LET body == SelectSeq(deltas, LAMBDA d : d.t # "stop")
  IN  /\ body # <<>> /\ Last(deltas).t = "stop"
      /\ IF b.t = "tool_use"
           THEN /\ body[1].t = "tool" /\ body[1].name = b.name /\ body[1].id \in {b.id, Empty}
                /\ \A j \in 2 .. Len(body) : body[j].t = "input"
                /\ TextIn(body) = b.input
           ELSE /\ \A j \in DOMAIN body : body[j].t = b.t
                /\ TextIn(body) = b.text

(* Thinking inside the text is split off only in the Complete.             *)
AsStreamed(content) ==
  IF quirks.field = "inline_think" /\ reply.inline # <<>>
    THEN <<[t |-> "text", text |-> reply.inline]>> \o CallsOf(content)
    ELSE content

(* The deltas of the attempt that succeeded tell its Complete, which is the *)
(* last of them and the only one, block by block and in order: one block of *)
(* thinking and one of text however often the stream goes back and forth    *)
(* between them, and every call with its name, its id once it is known and *)
(* its whole input; the last delta of every block is its stop (push_chunk  *)
(* against finish, which compute the two separately).                      *)
DeltasAgree ==
  pc = "ok" =>
    LET body   == SubSeq(sent, 1, Len(sent) - 1)
        told   == BlocksOf(body)
        blocks == AsStreamed(result.content)
    IN  /\ Last(sent) = [t |-> "complete", response |-> result]
        /\ \A j \in DOMAIN body : body[j].t # "complete"
        /\ Len(told) = Len(blocks)
        /\ \A n \in DOMAIN blocks : Tells(told[n], blocks[n])

(* What the next request says of earlier responses: parsed back as the     *)
(* client parses a response, each assistant message has the text and the   *)
(* calls that were received, and every tool message answers a call of the  *)
(* assistant message before it (render_message against push_chunk).        *)
ParsedBack(m) ==
  finish(push_chunk(Accumulator("none"),
           [field |-> "none", thinking |-> <<>>, text |-> m.text, signature |-> FALSE, usage |-> FALSE,
            finish |-> "stop",
            calls |-> [i \in DOMAIN m.calls |-> [index |-> None, id |-> m.calls[i].id, whole |-> FALSE,
                                                 name |-> m.calls[i].name, args |-> m.calls[i].input]]]),
         Fallback).response.content

Spoken(ms, role) == SelectSeq(ms, LAMBDA m : m.role = role)

HistoryEchoed ==
  LET ours   == Spoken(messages, "assistant")
      theirs == Spoken(wire.messages, "assistant")
  IN  pc \in {"sent", "body"} =>
        /\ Len(ours) = Len(theirs)
        /\ \A i \in DOMAIN ours :
             /\ TextOf(ParsedBack(theirs[i])) = TextOf(ours[i].content)
             /\ CallsOf(ParsedBack(theirs[i])) = CallsOf(ours[i].content)
        /\ \A i \in DOMAIN wire.messages :
             wire.messages[i].role = "tool" =>
               \E j \in 1 .. (i - 1) :
                 /\ wire.messages[j].role = "assistant"
                 /\ \A n \in (j + 1) .. (i - 1) : wire.messages[n].role = "tool"
                 /\ wire.messages[i].id \in {c.id : c \in ToSet(wire.messages[j].calls)}

(* The text of a response reaches the client, as deltas or with the event, *)
(* unless a channel has overrun in this turn (Projector.streamed).         *)
AllProjected == pc = "idle" /\ sink = <<>> /\ events = <<>>

TextShown ==
  AllProjected /\ shown # Gap /\ outcome = "model_response" => IsSuffix(TextOf(result.content), shown)

(* Every turn ends, whatever the endpoint does: attempts are bounded and   *)
(* each is under request_timeout.                                          *)
CallEnds == (pc # "idle") ~> (pc = "idle")
=============================================================================
