------------------------------ MODULE Provider ------------------------------
(***************************************************************************)
(* The client of a chat-completions endpoint (crates/providers): the       *)
(* parser of server-sent events, the accumulator of streamed chunks, the   *)
(* classes of errors and the rendering of a request.                       *)
(*                                                                         *)
(* A text is a sequence of pieces.  A line of the stream is a record with  *)
(* t = "data" and its payload, "blank" or "comment"; it travels as its     *)
(* head, its tail and the newline.  A payload is a chunk (with             *)
(* the choice's thinking, text, calls and finish reason), the sentinel     *)
(* "done", an "error" object, or "bad", which is no JSON.                  *)
(***************************************************************************)
EXTENDS Integers, Sequences, FiniteSets, SequencesExt

None  == -1
Empty == ""     \* no id, name, error or reason

Text     == Seq(STRING)
Fragment == [index : Nat \cup {None}, id : STRING, name : STRING, args : Text, whole : BOOLEAN]
Payload  == [t : {"done", "error", "bad"}]
              \cup [t : {"chunk"}, field : STRING, thinking : Text, text : Text, calls : Seq(Fragment),
                    finish : STRING, usage : BOOLEAN, signature : BOOLEAN]
Line     == [t : {"data"}, payload : Payload] \cup [t : {"blank", "comment"}]

(* FoldLeft as a recursive function, which can be reasoned about.          *)
Folded(Op(_, _), base, s) ==
  LET f[n \in 0 .. Len(s)] == IF n = 0 THEN base ELSE Op(f[n - 1], s[n])
  IN  f[Len(s)]

(* The elements of a finite set, each behind those that come before it.    *)
Ranked(S, Before(_, _)) ==
  [r \in 1 .. Cardinality(S) |-> CHOOSE x \in S : Cardinality({y \in S : Before(y, x)}) = r - 1]

-----------------------------------------------------------------------------
(* sse.rs.  The state of the parser is [buf, data]: the bytes of a line    *)
(* that is not complete and the data lines of an event that is not.        *)
SseParser == [buf |-> <<>>, data |-> <<>>]

Bytes(line) ==
  (IF line.t = "blank" THEN <<>>
   ELSE <<[line |-> line, part |-> "head"], [line |-> line, part |-> "tail"]>>)
  \o <<[line |-> line, part |-> "nl"]>>

(* A line that the end of the stream cuts is whole only if it lacks no     *)
(* more than its newline.  Cut behind "data:" its payload is bad JSON, cut  *)
(* before, it is ignored like a comment.                                   *)
CutLine(buf, behindPrefix) ==
  IF Len(buf) = 2 \/ buf[1].line.t # "data" THEN buf[1].line
  ELSE IF behindPrefix THEN [t |-> "data", payload |-> [t |-> "bad"]]
  ELSE [t |-> "comment"]

(* Data lines of one event are joined: two payloads are no JSON together.  *)
Join(data) == IF Len(data) = 1 THEN data[1] ELSE [t |-> "bad"]

(* One line, on [data, out].                                               *)
take_line(s, line) ==
  CASE line.t = "blank" -> IF s.data = <<>> THEN s
                           ELSE [data |-> <<>>, out |-> Append(s.out, Join(s.data))]
    [] line.t = "data"  -> [s EXCEPT !.data = Append(@, line.payload)]
    [] OTHER            -> s

push(p, bytes) ==
  LET buf   == p.buf \o bytes
      ends  == {i \in DOMAIN buf : buf[i].part = "nl"}
      last  == IF ends = {} THEN 0 ELSE Max(ends)
      r     == Folded(LAMBDA s, b : IF b.part = "nl" THEN take_line(s, b.line) ELSE s,
                      [data |-> p.data, out |-> <<>>], buf)
  IN  [parser |-> [buf |-> SubSeq(buf, last + 1, Len(buf)), data |-> r.data], events |-> r.out]

sse_finish(p, behindPrefix) ==
  LET r == IF p.buf = <<>> THEN [data |-> p.data, out |-> <<>>]
           ELSE take_line([data |-> p.data, out |-> <<>>], CutLine(p.buf, behindPrefix))
  IN  take_line(r, [t |-> "blank"]).out

-----------------------------------------------------------------------------
(* accumulate.rs.                                                          *)
Kinds == {"thinking", "text"}

ToolAcc == [block |-> None, id |-> Empty, name |-> Empty, args |-> <<>>, emitted |-> 0]

(* `out` holds the deltas of the current call.                             *)
Accumulator(field) ==
  [field |-> field, next |-> 0, block |-> [k \in Kinds |-> None], open |-> None,
   said |-> [k \in Kinds |-> <<>>], signature |-> FALSE, tools |-> <<>>, last |-> None,
   usage |-> FALSE, finish |-> Empty, chunks |-> 0, out |-> <<>>]

BlockStop(i) == [t |-> "stop", index |-> i]

close_open_stream_block_NoStop(s) ==
  [s EXCEPT !.open = None]

close_open_stream_block(s) ==
  IF s.open = None THEN s ELSE [s EXCEPT !.out = Append(@, BlockStop(s.open)), !.open = None]

(* start_text and start_thinking: the block of this kind, which is the     *)
(* same one however often the stream comes back to it.                     *)
start(s, kind) ==
  IF s.block[kind] = None
    THEN [close_open_stream_block(s) EXCEPT !.block[kind] = s.next, !.open = s.next,
                                            !.next = @ + 1]
    ELSE IF s.open = s.block[kind] THEN s
    ELSE [close_open_stream_block(s) EXCEPT !.open = s.block[kind]]

take_pieces(s, kind, pieces) ==
  IF pieces = <<>> THEN s
  ELSE LET r == start(s, kind)
       IN  [r EXCEPT !.said[kind] = @ \o pieces,
                     !.out = Append(@, [t |-> kind, index |-> r.block[kind], text |-> pieces])]

(* Reasoning is read from the field the quirks name, the signature from    *)
(* wherever it is.                                                         *)
take_reasoning(s, ch) ==
  LET r == IF s.field = ch.field THEN take_pieces(s, "thinking", ch.thinking) ELSE s
  IN  [r EXCEPT !.signature = @ \/ ch.signature]

(* A fragment is [index, id, name, args, whole]; without an index, an id   *)
(* starts a call and no id continues the last one.                         *)
SlotOf_Position(s, c, pos) ==
  IF c.index # None THEN c.index ELSE IF c.id # Empty THEN pos
  ELSE IF s.last # None THEN s.last ELSE 0

SlotOf(s, c, pos) ==
  IF c.index # None THEN c.index
  ELSE IF c.id # Empty THEN Max({Cardinality(DOMAIN s.tools), pos})
  ELSE IF s.last # None THEN s.last ELSE 0

Put(f, k, v) == [x \in DOMAIN f \cup {k} |-> IF x = k THEN v ELSE f[x]]

take_tool_call(s, c, pos) ==
  LET k     == SlotOf(s, c, pos)
      old   == IF k \in DOMAIN s.tools THEN s.tools[k] ELSE ToolAcc
      fed   == [old EXCEPT !.id = IF c.id # Empty THEN c.id ELSE @,
                           !.name = IF c.name # Empty THEN c.name ELSE @,
                           !.args = IF c.whole THEN c.args ELSE @ \o c.args,
                           !.emitted = IF c.whole THEN 0 ELSE @]
      fresh == fed.block = None /\ fed.name # Empty
      e     == IF fresh THEN [fed EXCEPT !.block = s.next] ELSE fed
      news  == e.block # None /\ Len(e.args) > e.emitted
  IN  [s EXCEPT
         !.last = k,
         !.next = IF fresh THEN @ + 1 ELSE @,
         !.tools = Put(@, k, IF news THEN [e EXCEPT !.emitted = Len(e.args)] ELSE e),
         !.out = @ \o (IF fresh THEN <<[t |-> "tool", index |-> e.block, id |-> e.id, name |-> e.name]>>
                       ELSE <<>>)
                   \o (IF news THEN <<[t |-> "input", index |-> e.block,
                                       text |-> SubSeq(e.args, e.emitted + 1, Len(e.args))]>>
                       ELSE <<>>)]

take_tool_calls(s, ch) ==
  Folded(LAMBDA r, i : take_tool_call(r, ch.calls[i], i - 1), s, [i \in DOMAIN ch.calls |-> i])

push_chunk(s, ch) ==
  LET r == take_tool_calls(take_pieces(take_reasoning([s EXCEPT !.out = <<>>], ch), "text", ch.text), ch)
  IN  [r EXCEPT !.chunks = @ + 1, !.usage = @ \/ ch.usage,
                !.finish = IF ch.finish # Empty THEN ch.finish ELSE @]

(* The text up to the first closing tag is thinking, also when the opening *)
(* tag is missing.                                                         *)
First(text, tag) == CHOOSE i \in DOMAIN text :
                      text[i] = tag /\ \A j \in 1 .. (i - 1) : text[j] # tag

split_inline_think(text) ==
  IF "</think>" \notin ToSet(text) THEN [think |-> <<>>, rest |-> text]
  ELSE LET close == First(text, "</think>")
           head  == SubSeq(text, 1, close - 1)
           open  == IF "<think>" \in ToSet(head) THEN First(head, "<think>") ELSE 0
       IN  [think |-> SubSeq(head, open + 1, Len(head)), rest |-> SubSeq(text, close + 1, Len(text))]

(* Blocks by the index their deltas had, equal ones as they were pushed.   *)
SortBySlot(blocks) ==
  LET before(i, j) == \/ blocks[i].slot < blocks[j].slot
                      \/ blocks[i].slot = blocks[j].slot /\ i < j
      order == Ranked(DOMAIN blocks, before)
  IN  [r \in DOMAIN order |-> blocks[order[r]].block]

StopReasonOf(finish, calls) ==
  CASE finish = "tool_calls"     -> "ToolUse"
    [] finish = "length"         -> "MaxTokens"
    [] finish = "content_filter" -> "ContentFilter"
    [] finish \in {"stop", Empty} -> IF calls THEN "ToolUse" ELSE "EndTurn"
    [] OTHER                     -> "Other"

(* A call without an id is named after its slot: `fallback` is call_<k>.   *)
finish(s, fallback) ==
  LET split    == IF s.field = "inline_think" THEN split_inline_think(s.said["text"])
                  ELSE [think |-> <<>>, rest |-> s.said["text"]]
      thinking == s.said["thinking"] \o split.think
      end      == s.next + 1
      slotOf(i, default) == IF i = None THEN default ELSE i
      calls    == Ranked({k \in DOMAIN s.tools : s.tools[k].name # Empty \/ s.tools[k].args # <<>>}, <)
      blocks   ==
        (IF thinking # <<>> \/ s.signature
           THEN <<[slot |-> slotOf(s.block["thinking"], slotOf(s.block["text"], 0)),
                   block |-> [t |-> "thinking", text |-> thinking, signature |-> s.signature]]>>
           ELSE <<>>)
        \o (IF split.rest # <<>>
              THEN <<[slot |-> slotOf(s.block["text"], end),
                      block |-> [t |-> "text", text |-> split.rest]]>> ELSE <<>>)
        \o [i \in DOMAIN calls |->
              LET e == s.tools[calls[i]]
              IN  [slot |-> slotOf(e.block, end),
                   block |-> [t |-> "tool_use", id |-> IF e.id = Empty THEN fallback[calls[i]] ELSE e.id,
                              name |-> e.name, input |-> e.args]]]
      response == [content |-> SortBySlot(blocks), stop |-> StopReasonOf(s.finish, calls # <<>>),
                   usage |-> s.usage]
      started  == Ranked({k \in DOMAIN s.tools : s.tools[k].block # None}, <)
  IN  [response |-> response,
       out |-> close_open_stream_block([s EXCEPT !.out = <<>>]).out
               \o [i \in DOMAIN started |-> BlockStop(s.tools[started[i]].block)]
               \o <<[t |-> "complete", response |-> response]>>]

-----------------------------------------------------------------------------
(* error.rs and ProviderError::retryable.                                  *)
classify_status(status, overflow) ==
  CASE status = 429              -> "RateLimited"
    [] status \in {401, 403}     -> "Auth"
    [] status = 400 /\ overflow  -> "ContextTooLong"
    [] status \in {501, 505}     -> "ServerFinal"
    [] status \in 500 .. 599     -> "Server"
    [] OTHER                     -> "Client"

classify_host_error(e) ==
  CASE e = "Cancelled" -> "Cancelled" [] e = "timed out" -> "Timeout" [] OTHER -> "Transport"

retryable(error) == error \in {"RateLimited", "Timeout", "Transport", "Server"}

-----------------------------------------------------------------------------
(* openai_compat.rs: the stream of deltas.  `acc` is consumed by finalize, *)
(* which `live` records.                                                   *)
StreamState(field) ==
  [parser |-> SseParser, acc |-> Accumulator(field), live |-> TRUE, pending |-> <<>>,
   done |-> FALSE, error |-> Empty]

finalize_Replaces(st, fallback) ==
  [st EXCEPT !.pending = IF st.live THEN finish(st.acc, fallback).out ELSE @,
             !.live = FALSE, !.done = TRUE]

finalize(st, fallback) ==
  [st EXCEPT !.pending = IF st.live THEN @ \o finish(st.acc, fallback).out ELSE @,
             !.live = FALSE, !.done = TRUE]

handle_event(st, ev, fallback) ==
  IF ~st.live \/ st.error # Empty THEN st
  ELSE CASE ev.t = "done"  -> finalize(st, fallback)
         [] ev.t = "bad"   -> [st EXCEPT !.error = "InvalidResponse", !.done = TRUE]
         [] ev.t = "error" -> [st EXCEPT !.error = "Server", !.done = TRUE]
         [] OTHER          -> LET a == push_chunk(st.acc, ev)
                              IN  [st EXCEPT !.acc = a, !.pending = @ \o a.out]

handle_events(st, events, fallback) ==
  Folded(LAMBDA r, ev : handle_event(r, ev, fallback), st, events)

(* One read of the body.                                                   *)
StepBytes(st, bytes, fallback) ==
  LET p == push(st.parser, bytes)
  IN  handle_events([st EXCEPT !.parser = p.parser], p.events, fallback)

(* The end of the body stands for the sentinel once a choice is finished.  *)
StepEof(st, behindPrefix, fallback) ==
  LET r == handle_events(st, sse_finish(st.parser, behindPrefix), fallback)
  IN  IF r.error # Empty \/ ~r.live THEN r
      ELSE IF r.acc.finish # Empty THEN finalize(r, fallback)
      ELSE [r EXCEPT !.error = "InvalidResponse", !.done = TRUE]

-----------------------------------------------------------------------------
(* request.rs: the messages of a request on the wire.  A message of the    *)
(* session is [role, content]; images are their artifact.                  *)
TextOf(content)  == FlattenSeq([i \in DOMAIN content |->
                                  IF content[i].t = "text" THEN content[i].text ELSE <<>>])
ThinkOf(content) == FlattenSeq([i \in DOMAIN content |->
                                  IF content[i].t = "thinking" THEN content[i].text ELSE <<>>])
CallsOf(content) == SelectSeq(content, LAMBDA b : b.t = "tool_use")
Signed(content)  == \E i \in DOMAIN content : content[i].t = "thinking" /\ content[i].signature

(* Where reasoning is sent back, or Empty for dropped.                     *)
EchoField(field) ==
  CASE field \in {"reasoning_content", "provider_specific_fields"} -> "reasoning_content"
    [] field = "reasoning" -> "reasoning"
    [] OTHER -> Empty

render_assistant_NoIds(content, field) ==
  [role |-> "assistant", text |-> TextOf(content),
   thinking |-> IF EchoField(field) = Empty THEN <<>> ELSE ThinkOf(content),
   signature |-> EchoField(field) # Empty /\ Signed(content),
   calls |-> [i \in DOMAIN CallsOf(content) |-> [CallsOf(content)[i] EXCEPT !.id = Empty]]]

render_assistant(content, field) ==
  [role |-> "assistant", text |-> TextOf(content),
   thinking |-> IF EchoField(field) = Empty THEN <<>> ELSE ThinkOf(content),
   signature |-> EchoField(field) # Empty /\ Signed(content),
   calls |-> CallsOf(content)]

render_message(m, field) ==
  CASE m.role = "assistant" -> <<render_assistant(m.content, field)>>
    [] m.role = "tool"      -> [i \in DOMAIN m.content |-> [role |-> "tool", id |-> m.content[i].id]]
    [] m.role = "user"      -> <<[role |-> "user", text |-> TextOf(m.content)]>>

(* Tool definitions go into `tools`, or into the system message when the   *)
(* model writes its calls as text.                                         *)
render_body(messages, quirks, hasTools) ==
  [messages |-> (IF quirks.parsed /\ hasTools THEN <<[role |-> "system", tools |-> TRUE]>> ELSE <<>>)
                \o FlattenSeq([i \in DOMAIN messages |-> render_message(messages[i], quirks.field)]),
   tools    |-> hasTools /\ ~quirks.parsed]
=============================================================================
