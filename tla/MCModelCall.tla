----------------------------- MODULE MCModelCall -----------------------------
(***************************************************************************)
(* Replies of endpoints in the dialects that the client reads.             *)
(***************************************************************************)
EXTENDS ModelCall

Chunk == [t |-> "chunk", field |-> "none", thinking |-> <<>>, text |-> <<>>, calls |-> <<>>,
          finish |-> Empty, usage |-> FALSE, signature |-> FALSE]

Thinks(p) == [Chunk EXCEPT !.field = "reasoning_content", !.thinking = <<p>>]
Says(p)   == [Chunk EXCEPT !.text = <<p>>]
Calls(cs) == [Chunk EXCEPT !.calls = cs]
Ends(f)   == [Chunk EXCEPT !.finish = f, !.usage = TRUE]

Call(i, id, name, args) == [index |-> i, id |-> id, name |-> name, args |-> args, whole |-> FALSE]
WholeCall(i, id, name, args) == [Call(i, id, name, args) EXCEPT !.whole = TRUE]

Event(p) == <<[t |-> "data", payload |-> p], [t |-> "blank"]>>
Done     == [t |-> "done"]
Stream(payloads) == FlattenSeq([i \in DOMAIN payloads |-> Event(payloads[i])])

Reply == [k |-> "stream", lines |-> <<>>, inline |-> <<>>, text |-> <<>>, thinking |-> <<>>,
          field |-> "reasoning_content", calls |-> <<>>, finish |-> "stop", after |-> None]

Means(id, name, input) == [id |-> id, name |-> name, input |-> input]

(* Thinking and text that alternate, a comment between two events.         *)
Talk == [Reply EXCEPT
  !.lines = Event(Thinks("a")) \o Event(Says("b")) \o <<[t |-> "comment"]>>
            \o Stream(<<Thinks("c"), [Ends("stop") EXCEPT !.text = <<"d">>], Done>>),
  !.text = <<"b", "d">>, !.thinking = <<"a", "c">>]

(* Calls by index whose fragments interleave; no sentinel at the end.      *)
Indexed == [Reply EXCEPT
  !.lines = Stream(<<Says("b"), Calls(<<Call(0, "i", "f", <<>>), Call(1, "j", "g", <<"x">>)>>),
                     Calls(<<Call(0, Empty, Empty, <<"y">>), Call(1, Empty, Empty, <<"z">>)>>), Ends("tool_calls")>>),
  !.text = <<"b">>, !.finish = "tool_calls",
  !.calls = <<Means("i", "f", <<"y">>), Means("j", "g", <<"x", "z">>)>>]

(* No index: an id starts a call, also two in a chunk.                     *)
Unindexed == [Reply EXCEPT
  !.lines = Stream(<<Calls(<<Call(None, "i", "f", <<"x">>)>>), Calls(<<Call(None, Empty, Empty, <<"y">>)>>),
                     Calls(<<Call(None, "j", "g", <<"z">>), Call(None, "k", "f", <<>>)>>), Ends("stop"), Done>>),
  !.calls = <<Means("i", "f", <<"x", "y">>), Means("j", "g", <<"z">>), Means("k", "f", <<>>)>>]

(* Whole objects, by index, without ids.                                   *)
Whole == [Reply EXCEPT
  !.lines = Stream(<<Calls(<<WholeCall(0, Empty, "f", <<"x">>), WholeCall(1, Empty, "f", <<"x">>)>>), Ends("tool_calls"), Done>>),
  !.finish = "tool_calls", !.calls = <<Means(Empty, "f", <<"x">>), Means(Empty, "f", <<"x">>)>>]

(* Thinking in the text.                                                   *)
Inline == [Reply EXCEPT
  !.lines = Stream(<<[Says("<think>") EXCEPT !.text = <<"<think>", "a">>], Says("</think>"), Says("b"), Ends("length"), Done>>),
  !.inline = <<"<think>", "a", "</think>", "b">>, !.text = <<"b">>, !.thinking = <<"a">>,
  !.field = "inline_think", !.finish = "length"]

(* Streams that go wrong after something was said.                         *)
Broken(p) == [Reply EXCEPT !.lines = Stream(<<Says("b"), p>>)]

Status(n, overflow, after) == [k |-> "status", status |-> n, overflow |-> overflow, after |-> after]
Refuses(k, e) == [k |-> k, error |-> e, after |-> None]

Endpoint(field, parsed, replies) == [field |-> field, parsed |-> parsed, replies |-> replies]

MCEndpoints ==
  [reasons |-> Endpoint("reasoning_content", FALSE, {Talk, Status(429, FALSE, 9)}),
   ids     |-> Endpoint("none", FALSE, {Unindexed, Broken([t |-> "error"])}),
   plain   |-> Endpoint("none", FALSE, {Indexed}),
   wholes  |-> Endpoint("none", FALSE, {Whole, Broken([t |-> "bad"]), Status(503, FALSE, 2),
                                        Refuses("prepare", "Auth"), Refuses("host", "reset")}),
   inline  |-> Endpoint("inline_think", TRUE, {Inline, Status(400, TRUE, None)})]

MCFallback == <<>> @@ (0 :> "call_0") @@ (1 :> "call_1") @@ (2 :> "call_2")
=============================================================================
