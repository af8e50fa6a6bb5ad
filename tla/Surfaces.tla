------------------------------ MODULE Surfaces ------------------------------
(***************************************************************************)
(* What a client is told: the chunks of a stream in each of the three      *)
(* dialects the gateway speaks (chat, Responses, Claude), and a finished   *)
(* answer of each kind of provider as one completion.                      *)
(***************************************************************************)
EXTENDS Translators

-----------------------------------------------------------------------------
(* The Claude dialect: one block open at a time, every frame of it under   *)
(* its index.  A frame is [type, index, kind, id, name, value].            *)

Frame(type, index, kind, id, name, value) ==
    [type |-> type, index |-> index, kind |-> kind, id |-> id, name |-> name,
     value |-> value]

NoBlock == [index |-> -1, kind |-> "", part |-> 0]

DialectStart ==
    [next |-> 0, open |-> NoBlock, stopped |-> FALSE, failed |-> FALSE,
     usage |-> NoUsage,
     frames |-> <<Frame("message_start", -1, "", "", "", <<>>)>>]

Told(d, frame) == [d EXCEPT !.frames = Append(@, frame)]

CloseBlock(d) ==
    IF d.open = NoBlock THEN d
    ELSE Told([d EXCEPT !.open = NoBlock],
              Frame("content_block_stop", d.open.index, "", "", "", <<>>))

BeginLeavesOpen(d, kind, part, id, name) ==
    Told([d EXCEPT !.next = @ + 1,
                   !.open = [index |-> d.next, kind |-> kind, part |-> part]],
         Frame("content_block_start", d.next, kind, id, name, <<>>))

Begin(d, kind, part, id, name) ==
    LET c == CloseBlock(d) IN
    Told([c EXCEPT !.next = @ + 1,
                   !.open = [index |-> c.next, kind |-> kind, part |-> part]],
         Frame("content_block_start", c.next, kind, id, name, <<>>))

ContinueBlock(d, kind) == IF d.open.kind = kind THEN d ELSE Begin(d, kind, 0, "", "")

BlockDelta(d, kind, value) ==
    Told(d, Frame("content_block_delta", d.open.index, kind, "", "", value))

TextDelta(d, kind, piece) ==
    IF piece = 0 THEN d ELSE BlockDelta(ContinueBlock(d, kind), kind, <<piece>>)

ToolUseContinues(d, call) ==
    LET b == IF d.open.kind = "tool_use" THEN d
             ELSE Begin(d, "tool_use", call.index, call.id, call.name)
    IN  BlockDelta(b, "tool_use", call.args)

\* A fragment of the call whose block is open continues it, any other begins a
\* block.
ToolUse(d, call) ==
    LET continues == d.open.kind = "tool_use" /\ d.open.part = call.index
        b == IF continues THEN d
             ELSE Begin(d, "tool_use", call.index, call.id, call.name)
    IN  BlockDelta(b, "tool_use", call.args)

ClaudeReason(finish) ==
    CASE finish = "length" -> "max_tokens"
      [] finish = "tool_calls" -> "tool_use"
      [] finish = "content_filter" -> "refusal"
      [] OTHER -> "end_turn"

StopMessage(d, reason) ==
    Told(Told(CloseBlock([d EXCEPT !.stopped = TRUE]),
              Frame("message_delta", -1, reason, "", "", d.usage)),
         Frame("message_stop", -1, "", "", "", <<>>))

DialectChunk(d, chunk) ==
    LET texts == TextDelta(TextDelta(d, "text", chunk.content), "thinking", chunk.reasoning)
        tools == FoldLeft(ToolUse, texts, chunk.calls)
        counted == IF chunk.usage = NoUsage THEN tools
                   ELSE [tools EXCEPT !.usage = chunk.usage]
    IN  IF chunk.finish = "" THEN counted
        ELSE StopMessage(CloseBlock(counted), ClaudeReason(chunk.finish))

DialectRefusal(d) ==
    Told([d EXCEPT !.failed = TRUE], Frame("error", -1, "", "", "", <<>>))

\* The upstream is through; a message that was not ended yet is.
DialectFinish(d) ==
    IF d.failed \/ d.stopped THEN d ELSE StopMessage(d, "end_turn")

-----------------------------------------------------------------------------
(* The Responses dialect.                                                  *)

ResponsesEvents(chunk) ==
    (IF chunk.reasoning = 0 THEN <<>> ELSE <<"response.reasoning_text.delta">>)
    \o (IF chunk.content = 0 THEN <<>> ELSE <<"response.output_text.delta">>)
    \o (IF chunk.calls = <<>> THEN <<>> ELSE <<"response.output_item.added">>)
    \o (IF chunk.finish = "" THEN <<>> ELSE <<"response.completed">>)

-----------------------------------------------------------------------------
(* The chat dialect passes chunks on; its client puts calls together by    *)
(* their index.                                                            *)

NoAnswer == [text |-> <<>>, thoughts |-> <<>>, calls |-> <<>>, finish |-> "",
             usage |-> NoUsage]

Piece(piece) == IF piece = 0 THEN <<>> ELSE <<piece>>

AssembleCall(calls, call) ==
    LET at == SelectInSeq(calls, LAMBDA c : c.index = call.index) IN
    IF at = 0 THEN Append(calls, call)
    ELSE [calls EXCEPT ![at].args = @ \o call.args]

Assemble(answer, chunk) ==
    [text |-> answer.text \o Piece(chunk.content),
     thoughts |-> answer.thoughts \o Piece(chunk.reasoning),
     calls |-> FoldLeft(AssembleCall, answer.calls, chunk.calls),
     finish |-> IF chunk.finish = "" THEN answer.finish ELSE chunk.finish,
     usage |-> IF chunk.usage = NoUsage THEN answer.usage ELSE chunk.usage]

-----------------------------------------------------------------------------
(* The same answers when they are asked for in one piece.  An upstream's   *)
(* answer is [parts, stop, usage], its parts [kind, piece, id, name, args].*)

Pieces(parts, kind) ==
    LET ofKind == SelectSeq(parts, LAMBDA p : p.kind = kind)
    IN  [i \in DOMAIN ofKind |-> ofKind[i].piece]

CallsOf(parts) ==
    LET calls == SelectSeq(parts, LAMBDA p : p.kind = "call" /\ p.name # "")
    IN  [i \in DOMAIN calls |-> Call(i - 1, calls[i].id, calls[i].name, calls[i].args)]

ClaudeWhole(answer) ==
    [text |-> Pieces(answer.parts, "text"), thoughts |-> Pieces(answer.parts, "thought"),
     calls |-> CallsOf(answer.parts), finish |-> ClaudeStopReason(answer.stop),
     usage |-> [prompt |-> answer.usage.input, completion |-> answer.usage.output,
                cached |-> 0]]

\* Through the translator of the stream, in one payload.
GeminiWhole(answer) ==
    FoldLeft(Assemble, [NoAnswer EXCEPT !.finish = "stop"],
             GeminiConvert(GeminiStart,
                           [type |-> "payload", parts |-> answer.parts,
                            finish |-> answer.stop, usage |-> answer.usage]).chunks)

ResponsesWhole(answer) ==
    LET calls == CallsOf(answer.parts) IN
    [text |-> Pieces(answer.parts, "text"), thoughts |-> <<>>, calls |-> calls,
     finish |-> IF calls # <<>> THEN "tool_calls"
                ELSE IF answer.stop = "incomplete" THEN "length" ELSE "stop",
     usage |-> [prompt |-> answer.usage.input, completion |-> answer.usage.output,
                cached |-> answer.usage.cached]]

OpenAiWhole(answer) ==
    [text |-> Pieces(answer.parts, "text"), thoughts |-> Pieces(answer.parts, "thought"),
     calls |-> CallsOf(answer.parts),
     finish |-> IF answer.stop # "" THEN answer.stop
                ELSE IF CallsOf(answer.parts) # <<>> THEN "tool_calls" ELSE "stop",
     usage |-> answer.usage]

\* A completion as a Claude message, which has no place for thoughts.
ClaudeMessage(whole) ==
    [content |->
        (IF whole.text = <<>> THEN <<>>
         ELSE <<[kind |-> "text", id |-> "", value |-> whole.text]>>)
        \o [i \in DOMAIN whole.calls |->
                [kind |-> "tool_use", id |-> whole.calls[i].id, value |-> whole.calls[i].args]],
     stop |-> ClaudeReason(whole.finish)]

=============================================================================
