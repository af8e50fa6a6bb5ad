----------------------------- MODULE Translators -----------------------------
(***************************************************************************)
(* What the translate crate makes of the stream of each kind of provider,  *)
(* event by event: chunks of the chat format (claude.rs, gemini.rs,        *)
(* responses.rs), and what the pump does to every chunk before it sends it *)
(* on (backend.rs).                                                        *)
(*                                                                         *)
(* Text is a number that names the piece, 0 is none; the arguments of a    *)
(* call are the sequence of the pieces they are made of.  Ids and names    *)
(* are strings, "" where the wire has none.  Identity, model name and time *)
(* stamps of a chunk are left out, and the counts of reasoning tokens.     *)
(***************************************************************************)
EXTENDS Integers, Sequences, FiniteSets, SequencesExt, TLC

NoUsage == [prompt |-> 0, completion |-> 0, cached |-> 0]

\* One entry of a tool_calls delta.
Call(index, id, name, args) == [index |-> index, id |-> id, name |-> name, args |-> args]

Empty == [content |-> 0, reasoning |-> 0, calls |-> <<>>, finish |-> "",
          usage |-> NoUsage]

Text(piece) == [Empty EXCEPT !.content = piece]
Thought(piece) == [Empty EXCEPT !.reasoning = piece]
Tool(call) == [Empty EXCEPT !.calls = <<call>>]
Finish(reason, usage) == [Empty EXCEPT !.finish = reason, !.usage = usage]

\* A state with the chunks of one event.
Emit(state, chunks) == [state |-> state, chunks |-> chunks, failed |-> FALSE]
Ignore(state) == Emit(state, <<>>)
Fail(state) == [Ignore(state) EXCEPT !.failed = TRUE]

-----------------------------------------------------------------------------
(* Claude: a tool_use block is told whole, when it stops.                  *)

ClaudeStart == [tools |-> <<>>, next |-> 0, sent |-> FALSE, finish |-> "stop",
                usage |-> [input |-> 0, output |-> 0, read |-> 0]]

ClaudeStopReason(reason) ==
    CASE reason = "max_tokens" -> "length"
      [] reason = "tool_use" -> "tool_calls"
      [] OTHER -> "stop"

ClaudeFinish(s) ==
    Finish(s.finish, [prompt |-> s.usage.input, completion |-> s.usage.output,
                      cached |-> s.usage.read])

MergeUsageAdds(old, new) ==
    [input |-> old.input + new.input + new.read,
     output |-> new.output,
     read |-> IF new.read > 0 THEN new.read ELSE old.read]

\* Counts in the closing event replace those of the opening one, and then the
\* tokens read from the cache are counted in.
MergeUsage(old, new) ==
    [input |-> IF new.input > 0 \/ new.read > 0 THEN new.input + new.read ELSE old.input,
     output |-> new.output,
     read |-> IF new.read > 0 THEN new.read ELSE old.read]

\* The block an argument fragment belongs to: the last one of that index, or
\* the last one at all when the event names no index (-1).
OpenTool(s, index) ==
    SelectLastInSeq(s.tools, LAMBDA t : index = -1 \/ t.block = index)

ClaudeDelta(s, e) ==
    CASE e.kind = "text" -> Emit(s, <<Text(e.piece)>>)
      [] e.kind = "thinking" -> Emit(s, <<Thought(e.piece)>>)
      [] e.kind = "tool" /\ OpenTool(s, e.index) # 0 ->
            Ignore([s EXCEPT !.tools[OpenTool(s, e.index)].args = Append(@, e.piece)])
      [] OTHER -> Ignore(s)

ClaudeBlockStop(s, e) ==
    LET at == SelectInSeq(s.tools, LAMBDA t : t.block = e.index) IN
    IF at = 0 THEN Ignore(s)
    ELSE Emit([s EXCEPT !.tools = RemoveAt(@, at), !.next = @ + 1],
              <<Tool(Call(s.next, s.tools[at].id, s.tools[at].name, s.tools[at].args))>>)

ClaudeConvert(s, e) ==
    CASE e.type = "message_start" -> Emit([s EXCEPT !.usage = e.usage], <<Empty>>)
      [] e.type = "content_block_start" /\ e.kind = "tool" ->
            Ignore([s EXCEPT !.tools = Append(@, [block |-> e.index, id |-> e.id,
                                                  name |-> e.name, args |-> <<>>])])
      [] e.type = "content_block_delta" -> ClaudeDelta(s, e)
      [] e.type = "content_block_stop" -> ClaudeBlockStop(s, e)
      [] e.type = "message_delta" /\ e.reason = "" ->
            Ignore([s EXCEPT !.usage = MergeUsage(@, e.usage)])
      [] e.type = "message_delta" /\ e.reason # "" ->
            LET t == [s EXCEPT !.usage = MergeUsage(@, e.usage), !.sent = TRUE,
                               !.finish = ClaudeStopReason(e.reason)]
            IN  Emit(t, <<ClaudeFinish(t)>>)
      [] e.type = "message_stop" /\ ~s.sent ->
            Emit([s EXCEPT !.sent = TRUE], <<ClaudeFinish(s)>>)
      [] OTHER -> Ignore(s)

-----------------------------------------------------------------------------
(* Gemini: a payload carries whole parts, and calls without an id.         *)

GeminiStart == [started |-> FALSE, sent |-> FALSE, next |-> 0, saw |-> FALSE,
                usage |-> NoUsage]

GeminiId(index) == "m-" \o ToString(index)

GeminiPart(out, part) ==
    CASE part.kind = "call" /\ part.name # "" ->
            [next |-> out.next + 1,
             chunks |-> Append(out.chunks,
                               Tool(Call(out.next, GeminiId(out.next), part.name,
                                         part.args)))]
      [] part.kind = "text" -> [out EXCEPT !.chunks = Append(@, Text(part.piece))]
      [] part.kind = "thought" -> [out EXCEPT !.chunks = Append(@, Thought(part.piece))]
      [] OTHER -> out

NormalizeFinish(reason) ==
    CASE reason = "STOP" -> "stop"
      [] reason = "MAX_TOKENS" -> "length"
      [] reason = "SAFETY" -> "content_filter"
      [] OTHER -> "other"

NoMeta == [prompt |-> 0, candidates |-> 0, thoughts |-> 0, total |-> 0, cached |-> 0]

Less(a, b) == IF a > b THEN a - b ELSE 0

\* Thoughts are part of the completion; candidates left out are what remains of
\* the total.
CaptureUsage(old, meta) ==
    LET candidates == IF meta.candidates = 0 /\ meta.total > 0
                      THEN Less(Less(meta.total, meta.prompt), meta.thoughts)
                      ELSE meta.candidates
    IN  IF meta = NoMeta THEN old
        ELSE [prompt |-> meta.prompt, completion |-> candidates + meta.thoughts,
              cached |-> meta.cached]

GeminiReason(s, e) == IF s.saw THEN "tool_calls" ELSE NormalizeFinish(e.finish)

GeminiConvert(s, e) ==
    IF e.type = "error" THEN Fail(s)
    ELSE
    LET role == IF s.started THEN <<>> ELSE <<Empty>>
        out == FoldLeft(GeminiPart, [next |-> s.next, chunks |-> role], e.parts)
        t == [s EXCEPT !.started = TRUE, !.next = out.next,
                       !.saw = @ \/ out.next > s.next,
                       !.usage = CaptureUsage(@, e.usage)]
    IN  IF e.finish # "" /\ ~s.sent
        THEN Emit([t EXCEPT !.sent = TRUE],
                  Append(out.chunks, Finish(GeminiReason(t, e), t.usage)))
        ELSE Emit(t, out.chunks)

-----------------------------------------------------------------------------
(* Responses: a call is announced, its arguments are buffered, and told    *)
(* when its item is done.                                                  *)

ResponsesStart == [sent |-> FALSE, next |-> 0, calls |-> <<>>, items |-> <<>>,
                   outputs |-> <<>>, current |-> "", fallbacks |-> 0]

Known(function, key) == key \in DOMAIN function

With(function, key, value) ==
    [k \in {key} \union DOMAIN function |-> IF k = key THEN value ELSE function[k]]

FallbackId(s) == "call_fallback_" \o ToString(s.fallbacks + 1)

\* A name that is missing keeps the call back until its item is done.
Announce(s, e) ==
    LET id == IF e.id = "" THEN FallbackId(s) ELSE e.id
        entry == IF Known(s.calls, id) THEN s.calls[id] ELSE [index |-> -1, args |-> <<>>]
        fresh == e.name # "" /\ entry.index = -1
        index == IF fresh THEN s.next ELSE entry.index
        t == [s EXCEPT
                !.items = With(@, e.item, id),
                !.outputs = With(@, e.output, id),
                !.current = id,
                !.calls = With(@, id, [entry EXCEPT !.index = index]),
                !.next = IF fresh THEN @ + 1 ELSE @,
                !.fallbacks = IF e.id = "" THEN @ + 1 ELSE @]
    IN  IF e.name = "" THEN Ignore(t) ELSE Emit(t, <<Tool(Call(index, id, e.name, <<>>))>>)

\* item_id, then output_index, then the only open call, then the last opened.
CallOf(s, e) ==
    IF Known(s.items, e.item) THEN s.items[e.item]
    ELSE IF Known(s.outputs, e.output) THEN s.outputs[e.output]
    ELSE IF \E id \in DOMAIN s.calls : DOMAIN s.calls = {id}
         THEN CHOOSE id \in DOMAIN s.calls : TRUE
    ELSE s.current

Buffer(s, e) ==
    IF Known(s.calls, CallOf(s, e))
    THEN Ignore([s EXCEPT !.calls[CallOf(s, e)].args = Append(@, e.piece)])
    ELSE Ignore(s)

\* call_id, then item_id, then the last opened call.
DoneId(s, e) ==
    IF e.id # "" THEN e.id
    ELSE IF Known(s.items, e.item) THEN s.items[e.item]
    ELSE IF s.current # "" THEN s.current
    ELSE FallbackId(s)

ItemDoneKeepsCurrent(s, e) ==
    LET id == DoneId(s, e)
        entry == IF Known(s.calls, id) THEN s.calls[id] ELSE [index |-> -1, args |-> <<>>]
        fresh == e.name # "" /\ entry.index = -1
        index == IF fresh THEN s.next ELSE entry.index
        args == IF e.args # <<>> THEN e.args ELSE entry.args
        t == [s EXCEPT !.calls = [other \in DOMAIN @ \ {id} |-> @[other]],
                       !.next = IF fresh THEN @ + 1 ELSE @]
    IN  IF index = -1 THEN Ignore(t) ELSE Emit(t, <<Tool(Call(index, "", "", args))>>)

\* The chunk carries the arguments, and nothing that says whose they are but the
\* index.
ItemDone(s, e) ==
    LET id == DoneId(s, e)
        entry == IF Known(s.calls, id) THEN s.calls[id] ELSE [index |-> -1, args |-> <<>>]
        fresh == e.name # "" /\ entry.index = -1
        index == IF fresh THEN s.next ELSE entry.index
        args == IF e.args # <<>> THEN e.args ELSE entry.args
        t == [s EXCEPT
                !.calls = [other \in DOMAIN @ \ {id} |-> @[other]],
                !.current = IF @ = id THEN "" ELSE @,
                !.next = IF fresh THEN @ + 1 ELSE @]
    IN  IF index = -1 THEN Ignore(t) ELSE Emit(t, <<Tool(Call(index, "", "", args))>>)

ResponsesReason(s) == IF s.next > 0 \/ s.current # "" THEN "tool_calls" ELSE "stop"

\* Counts in Claude's spelling leave the cache out of the input.
ResponsesUsage(counts) ==
    [prompt |-> counts.input + (IF counts.claude THEN counts.cached ELSE 0),
     completion |-> counts.output, cached |-> counts.cached]

ResponsesConvert(s, e) ==
    CASE e.type = "text" -> Emit(s, <<Text(e.piece)>>)
      [] e.type = "reasoning" -> Emit(s, <<Thought(e.piece)>>)
      [] e.type = "added" -> Announce(s, e)
      [] e.type = "arguments" -> Buffer(s, e)
      [] e.type = "done" -> ItemDone(s, e)
      [] e.type = "completed" /\ ~s.sent ->
            Emit([s EXCEPT !.sent = TRUE], <<Finish(ResponsesReason(s), ResponsesUsage(e.usage))>>)
      [] e.type = "incomplete" /\ ~s.sent ->
            Emit([s EXCEPT !.sent = TRUE], <<Finish("length", ResponsesUsage(e.usage))>>)
      [] e.type = "failed" -> Fail([s EXCEPT !.sent = TRUE])
      [] OTHER -> Ignore(s)

-----------------------------------------------------------------------------
(* The pump: every call gets an id and a name, and a chunk with nothing in *)
(* it is dropped.                                                          *)

FirstGiven(a, b, c) == IF a # "" THEN a ELSE IF b # "" THEN b ELSE c

\* What the opening fragment said of a call is repeated on every later one; a
\* call nobody introduced is given a stand-in.
NormalizeCall(acc, call) ==
    LET known == IF Known(acc.seen, call.index) THEN acc.seen[call.index]
                 ELSE [id |-> "", name |-> ""]
        meta == [id |-> FirstGiven(call.id, known.id, "call_" \o ToString(call.index)),
                 name |-> FirstGiven(call.name, known.name, "tool_" \o ToString(call.index))]
    IN  [seen |-> With(acc.seen, call.index, meta),
         calls |-> Append(acc.calls, [call EXCEPT !.id = meta.id, !.name = meta.name])]

Normalize(seen, chunk) ==
    FoldLeft(NormalizeCall, [seen |-> seen, calls |-> <<>>], chunk.calls)

Reducible(chunk) == chunk # Empty

=============================================================================
