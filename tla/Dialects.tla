------------------------------ MODULE Dialects ------------------------------
(***************************************************************************)
(* A streamed answer translated twice: from the dialect of its provider    *)
(* into chunks, and from chunks into what a chat, a Responses and a Claude *)
(* client are told, which are all kept here side by side.                  *)
(*                                                                         *)
(* The upstream keeps to its protocol, and may break off anywhere.  What   *)
(* it said is kept as the answer it would have given in one piece.         *)
(***************************************************************************)
EXTENDS Surfaces

CONSTANTS
    Providers,      \* dialects of upstreams
    MaxEvents,      \* bound: events of one stream
    MaxParts        \* bound: parts of one answer

ASSUME ProvidersAssumption == Providers \subseteq {"openai", "claude", "gemini", "responses"}
ASSUME BoundsAssumption == MaxEvents \in Nat /\ MaxParts \in Nat

\* The names an upstream gives to its n-th call, and to the item of a call.
CallName(n) == "f" \o ToString(n)
CallId(n) == "c" \o ToString(n)
ItemId(id) == "item-" \o id

\* They are names, and tell the calls apart.
ASSUME NamesAssumption ==
    \A m, n \in 0 .. MaxParts :
        /\ CallName(n) # "" /\ CallId(n) # ""
        /\ ItemId(CallId(m)) = ItemId(CallId(n)) => m = n

VARIABLES
    provider,
    wire,           \* external: how far the upstream is
    said,           \* external: the answer so far, [parts, stop, usage]
    translator,     \* state of the provider's translator
    seen,           \* what the pump remembers of calls, by index
    dialect,        \* ClaudeDialect, with the frames it told
    events,         \* what the Responses client was told
    chat            \* what the chat client put together

dialectsVars == <<provider, wire, said, translator, seen, dialect, events, chat>>

TranslatorStart(p) ==
    CASE p = "claude" -> ClaudeStart
      [] p = "gemini" -> GeminiStart
      [] p = "responses" -> ResponsesStart
      [] p = "openai" -> NoUsage

\* The chunks of an OpenAI upstream are chunks already.
Convert(state, e) ==
    CASE provider = "claude" -> ClaudeConvert(state, e)
      [] provider = "gemini" -> GeminiConvert(state, e)
      [] provider = "responses" -> ResponsesConvert(state, e)
      [] provider = "openai" -> IF e.type = "error" THEN Fail(state)
                                ELSE Emit(state, <<e.chunk>>)

NoCounts ==
    CASE provider = "claude" -> [input |-> 0, output |-> 0, read |-> 0]
      [] provider = "gemini" -> NoMeta
      [] provider = "responses" -> [input |-> 0, output |-> 0, cached |-> 0, claude |-> FALSE]
      [] provider = "openai" -> NoUsage

DialectsInit ==
    /\ provider \in Providers
    /\ wire = [phase |-> "start", events |-> 0, kind |-> "", open |-> {}, block |-> 0]
    /\ said = [parts |-> <<>>, stop |-> "", usage |-> NoCounts]
    /\ translator = TranslatorStart(provider)
    /\ seen = <<>>
    /\ dialect = DialectStart
    /\ events = <<>>
    /\ chat = NoAnswer

-----------------------------------------------------------------------------
(* The gateway's side of one event.                                        *)

Relay(acc, chunk) ==
    LET n == Normalize(acc.seen, chunk)
        c == [chunk EXCEPT !.calls = n.calls]
    IN  IF ~Reducible(c) THEN acc
        ELSE [seen |-> n.seen,
              dialect |-> DialectChunk(acc.dialect, c),
              events |-> acc.events \o ResponsesEvents(c),
              chat |-> Assemble(acc.chat, c)]

Surfaces(chunks) ==
    LET all == FoldLeft(Relay, [seen |-> seen, dialect |-> dialect,
                                events |-> events, chat |-> chat], chunks)
    IN  /\ seen' = all.seen
        /\ dialect' = all.dialect
        /\ events' = all.events
        /\ chat' = all.chat

Refuse ==
    /\ dialect' = DialectFinish(DialectRefusal(dialect))
    /\ events' = Append(events, "error")
    /\ UNCHANGED <<seen, chat>>

Feed(e) ==
    LET out == Convert(translator, e) IN
    /\ translator' = out.state
    /\ IF out.failed THEN Refuse ELSE Surfaces(out.chunks)
    /\ UNCHANGED provider

\* What an upstream may do next: an event, how far it is then, and what it has
\* said with it.
Sends(e, w, s) ==
    /\ wire.events < MaxEvents
    /\ Feed(e)
    /\ wire' = [w EXCEPT !.events = @ + 1, !.phase = IF Convert(translator, e).failed
                                                     THEN "closed" ELSE @]
    /\ said' = s

\* The piece an event brings is named after the event.
Now == wire.events + 1

SaysPart(part) == [said EXCEPT !.parts = Append(@, part)]

Part(kind, piece) ==
    [kind |-> kind, piece |-> piece, id |-> "", name |-> "", args |-> <<>>, announced |-> TRUE]

\* The places of the calls among the parts of the answer.
Calls == {j \in DOMAIN said.parts : said.parts[j].kind = "call" /\ said.parts[j].name # ""}

\* The next call of the answer.
CallPart(args, announced) ==
    LET n == Cardinality(Calls) IN
    [kind |-> "call", piece |-> 0, name |-> CallName(n), announced |-> announced,
     id |-> IF provider = "gemini" THEN GeminiId(n) ELSE CallId(n), args |-> args]

Says(i, piece) == [said EXCEPT !.parts[i].args = Append(@, piece)]

\* The index of the i-th part among the calls.
IndexOf(i) == Cardinality({j \in Calls : j < i})

MoreParts == Len(said.parts) < MaxParts

-----------------------------------------------------------------------------
(* A Claude upstream.                                                      *)

ClaudeBegins ==
    /\ provider = "claude" /\ wire.phase = "start"
    /\ \E read \in {0, 2} :
          LET usage == [input |-> 1, output |-> 0, read |-> read] IN
          Sends([type |-> "message_start", usage |-> usage],
                [wire EXCEPT !.phase = "body"], [said EXCEPT !.usage = usage])

ClaudeOpensBlock ==
    /\ provider = "claude" /\ wire.phase = "body" /\ wire.kind = "" /\ MoreParts
    /\ \E kind \in {"text", "thinking", "tool"} :
          LET part == CallPart(<<>>, TRUE) IN
          Sends([type |-> "content_block_start", kind |-> kind, index |-> wire.block,
                 id |-> part.id, name |-> part.name],
                [wire EXCEPT !.kind = kind],
                IF kind = "tool" THEN SaysPart(part) ELSE said)

ClaudeSendsDelta ==
    /\ provider = "claude" /\ wire.phase = "body" /\ wire.kind # ""
    /\ wire.kind # "tool" => MoreParts
    /\ \E index \in {wire.block, -1} :
          Sends([type |-> "content_block_delta", kind |-> wire.kind, index |-> index,
                 piece |-> Now],
                wire,
                CASE wire.kind = "text" -> SaysPart(Part("text", Now))
                  [] wire.kind = "thinking" -> SaysPart(Part("thought", Now))
                  [] wire.kind = "tool" -> Says(Len(said.parts), Now))

ClaudeStopsBlock ==
    /\ provider = "claude" /\ wire.phase = "body" /\ wire.kind # ""
    /\ Sends([type |-> "content_block_stop", index |-> wire.block],
             [wire EXCEPT !.kind = "", !.block = @ + 1], said)

ClaudeStops ==
    /\ provider = "claude" /\ wire.phase = "body" /\ wire.kind = ""
    /\ \E again \in BOOLEAN :
          LET counts == IF again THEN [said.usage EXCEPT !.output = 1]
                        ELSE [input |-> 0, output |-> 1, read |-> 0]
              reason == IF Calls # {} THEN {"tool_use", "max_tokens"}
                        ELSE {"end_turn", "max_tokens"}
          IN \E r \in reason :
                Sends([type |-> "message_delta", reason |-> r, usage |-> counts],
                      [wire EXCEPT !.phase = "stopped"],
                      [said EXCEPT !.stop = r, !.usage.output = 1])

ClaudeSaysStop ==
    /\ provider = "claude" /\ wire.phase = "stopped"
    /\ Sends([type |-> "message_stop"], [wire EXCEPT !.phase = "over"], said)

-----------------------------------------------------------------------------
(* A Gemini upstream.                                                      *)

GeminiSends ==
    /\ provider = "gemini" /\ wire.phase \in {"start", "body"}
    /\ \E parts \in {<<>>, <<Part("text", Now)>>, <<Part("thought", Now)>>,
                     <<CallPart(<<Now>>, TRUE)>>,
                     <<[CallPart(<<>>, TRUE) EXCEPT !.name = ""], Part("text", Now)>>} :
       \E finish \in {"", "STOP", "MAX_TOKENS", "SAFETY"} :
          LET meta == IF finish = "" THEN NoMeta
                      ELSE [prompt |-> 1, candidates |-> 0, thoughts |-> 1,
                            total |-> 3, cached |-> 1]
          IN  /\ Len(said.parts) + Len(parts) <= MaxParts
              /\ Sends([type |-> "payload", parts |-> parts, finish |-> finish,
                        usage |-> meta],
                       [wire EXCEPT !.phase = IF finish = "" THEN "body" ELSE "over"],
                       [parts |-> said.parts \o parts, stop |-> finish, usage |-> meta])

GeminiFails ==
    /\ provider = "gemini" /\ wire.phase # "closed"
    /\ Sends([type |-> "error"], wire, said)

-----------------------------------------------------------------------------
(* A Responses upstream: calls may be open side by side.                   *)

Talking(p) == provider = p /\ wire.phase \in {"start", "body"}

ResponsesSendsText ==
    /\ Talking("responses") /\ MoreParts
    /\ \/ Sends([type |-> "text", piece |-> Now], wire, SaysPart(Part("text", Now)))
       \/ Sends([type |-> "reasoning", piece |-> Now], wire, SaysPart(Part("thought", Now)))

ResponsesAddsCall ==
    /\ Talking("responses") /\ MoreParts
    /\ \E announced \in BOOLEAN :
          LET part == CallPart(<<>>, announced) IN
          Sends([type |-> "added", id |-> part.id, item |-> ItemId(part.id),
                 output |-> Len(said.parts),
                 name |-> IF announced THEN part.name ELSE ""],
                [wire EXCEPT !.open = @ \union {Len(said.parts) + 1}], SaysPart(part))

\* A fragment may leave out whose it is while only one call is open.
ResponsesSendsArguments ==
    /\ Talking("responses")
    /\ \E i \in wire.open : \E by \in {"item", "output", "none"} :
          /\ by = "none" => wire.open = {i}
          /\ Sends([type |-> "arguments", piece |-> Now,
                    item |-> IF by = "item" THEN ItemId(said.parts[i].id) ELSE "",
                    output |-> IF by = "output" THEN i - 1 ELSE -1],
                   wire, Says(i, Now))

\* The item that is done repeats the arguments or leaves them to the fragments.
ResponsesEndsCall ==
    /\ Talking("responses")
    /\ \E i \in wire.open : \E repeats, identified, named \in BOOLEAN :
       /\ said.parts[i].announced => named
       /\ Sends([type |-> "done", item |-> ItemId(said.parts[i].id),
                 id |-> IF identified THEN said.parts[i].id ELSE "",
                 name |-> IF named THEN said.parts[i].name ELSE "",
                 args |-> IF repeats THEN said.parts[i].args ELSE <<>>],
                [wire EXCEPT !.open = @ \ {i}], said)

ResponsesStops ==
    /\ Talking("responses") /\ wire.open = {}
    /\ \E type \in {"completed", "incomplete", "failed"} :
          LET counts == [input |-> 2, output |-> 1, cached |-> 1, claude |-> FALSE] IN
          Sends([type |-> type, usage |-> counts], [wire EXCEPT !.phase = "over"],
                [said EXCEPT !.stop = type, !.usage = counts])

-----------------------------------------------------------------------------
(* An OpenAI upstream: fragments of calls, by index, in any order.         *)

OpenAiSendsText ==
    /\ Talking("openai") /\ MoreParts
    /\ \/ Sends([type |-> "chunk", chunk |-> Text(Now)], wire, SaysPart(Part("text", Now)))
       \/ Sends([type |-> "chunk", chunk |-> Thought(Now)], wire,
                SaysPart(Part("thought", Now)))

OpenAiOpensCall ==
    /\ Talking("openai") /\ MoreParts
    /\ \E args \in {<<>>, <<Now>>} :
          LET part == CallPart(args, TRUE)
              index == Cardinality(Calls)
          IN  Sends([type |-> "chunk", chunk |-> Tool(Call(index, part.id, part.name, args))],
                    [wire EXCEPT !.open = @ \union {Len(said.parts) + 1}], SaysPart(part))

\* Later fragments leave out the id and the name.
OpenAiSendsArguments ==
    /\ Talking("openai")
    /\ \E i \in wire.open :
          Sends([type |-> "chunk", chunk |-> Tool(Call(IndexOf(i), "", "", <<Now>>))],
                wire, Says(i, Now))

\* The counts come with the finish, or in a chunk without choices after it.
OpenAiStops ==
    /\ Talking("openai")
    /\ \E reason \in (IF wire.open = {} THEN {"stop", "length"} ELSE {"tool_calls", "length"}) :
       \E counts \in {NoUsage, [prompt |-> 2, completion |-> 1, cached |-> 1]} :
          Sends([type |-> "chunk", chunk |-> Finish(reason, counts)],
                [wire EXCEPT !.phase = "over"], [said EXCEPT !.stop = reason, !.usage = counts])

OpenAiCounts ==
    /\ provider = "openai" /\ wire.phase = "over"
    /\ Sends([type |-> "chunk", chunk |-> Empty], wire, said)

OpenAiFails ==
    /\ provider = "openai" /\ wire.phase # "closed"
    /\ Sends([type |-> "error"], wire, said)

-----------------------------------------------------------------------------
(* The end of the body.                                                    *)

Closed == wire' = [wire EXCEPT !.phase = "closed"] /\ UNCHANGED <<provider, said, translator>>

\* The connection breaks, or the body ends before a finish did.
Break ==
    /\ wire.phase # "closed"
    /\ Refuse
    /\ Closed

\* [DONE] without a finish: some executors put one in its place.
DoneEarly ==
    /\ provider \in {"openai", "responses"}
    /\ wire.phase # "closed" /\ chat.finish = ""
    /\ LET n == Relay([seen |-> seen, dialect |-> dialect, events |-> events, chat |-> chat],
                      Finish("stop", NoUsage))
       IN  /\ dialect' = DialectFinish(n.dialect)
           /\ events' = n.events
           /\ chat' = n.chat
    /\ UNCHANGED seen
    /\ Closed

End ==
    /\ wire.phase # "closed" /\ chat.finish # ""
    /\ dialect' = DialectFinish(dialect)
    /\ UNCHANGED <<seen, events, chat>>
    /\ Closed

DialectsNext ==
    \/ ClaudeBegins \/ ClaudeOpensBlock \/ ClaudeSendsDelta \/ ClaudeStopsBlock
    \/ ClaudeStops \/ ClaudeSaysStop
    \/ GeminiSends \/ GeminiFails
    \/ ResponsesSendsText \/ ResponsesAddsCall \/ ResponsesSendsArguments
    \/ ResponsesEndsCall \/ ResponsesStops
    \/ OpenAiSendsText \/ OpenAiOpensCall \/ OpenAiSendsArguments \/ OpenAiStops
    \/ OpenAiCounts \/ OpenAiFails
    \/ Break \/ DoneEarly \/ End

DialectsSpec == DialectsInit /\ [][DialectsNext]_dialectsVars

-----------------------------------------------------------------------------
(* Properties.                                                             *)

\* How a Claude client reads one more frame: which block is open, and whether
\* the message is over.
ReadFrame(state, f) ==
    CASE state = "bad" -> "bad"
      [] f.type = "error" -> IF state \in {"idle", "open", "over"} THEN "failed" ELSE "bad"
      [] f.type = "message_start" /\ state = "new" -> "idle"
      [] f.type = "content_block_start" /\ state = "idle" -> "open"
      [] f.type = "content_block_delta" /\ state = "open" -> "open"
      [] f.type = "content_block_stop" /\ state = "open" -> "idle"
      [] f.type = "message_delta" /\ state = "idle" -> "ending"
      [] f.type = "message_stop" /\ state = "ending" -> "over"
      [] OTHER -> "bad"

StartsIn(frames) ==
    LET first[n \in 0 .. Len(frames)] ==
            IF n = 0 THEN <<>>
            ELSE IF frames[n].type = "content_block_start"
            THEN Append(first[n - 1], frames[n])
            ELSE first[n - 1]
    IN  first[Len(frames)]

Starts == StartsIn(dialect.frames)

\* The start a frame of a block belongs to.
StartOf(f) == Starts[f.index + 1]

\* Whatever the order in which texts, thoughts and the fragments of calls come
\* in, a Claude client can read what it is told: a message opened once, one block
\* at a time, deltas of the kind of the block they name, a closing pair that is
\* the last word unless the connection breaks after it; a Responses client is
\* told at most once that its answer is completed.
WellFormed ==
    LET end == FoldLeft(ReadFrame, "new", dialect.frames)
        completed == {i \in DOMAIN events : events[i] = "response.completed"}
    IN  /\ end # "bad"
        /\ wire.phase = "closed" => end \in {"over", "failed"}
        /\ \A i \in DOMAIN Starts : Starts[i].index = i - 1
        /\ \A i \in DOMAIN dialect.frames :
              LET f == dialect.frames[i] IN
              f.type = "content_block_delta" =>
                  f.index < Len(Starts) /\ StartOf(f).kind = f.kind
        /\ \A i \in completed : \A j \in DOMAIN events : j > i => events[j] = "error"

\* The pieces of the arguments told under the blocks of one call.
ToldArguments(id) ==
    FlattenSeq([i \in DOMAIN dialect.frames |->
        LET f == dialect.frames[i] IN
        IF f.type = "content_block_delta" /\ f.kind = "tool_use" /\ StartOf(f).id = id
        THEN f.value ELSE <<>>])

Finished == chat.finish # "" /\ said.stop # ""

\* A finished answer has told every call that was announced by name under its own
\* id and name with all its arguments, to the chat client as one call and to the
\* Claude client under blocks of that id, even if the calls came side by side.
CallsArriveWhole ==
    Finished =>
        \A i \in DOMAIN CallsOf(said.parts) :
            LET call == CallsOf(said.parts)[i] IN
            \A p \in DOMAIN said.parts :
                said.parts[p].kind = "call" /\ said.parts[p].id = call.id
                        /\ said.parts[p].announced =>
                    /\ \E j \in DOMAIN chat.calls :
                          chat.calls[j].id = call.id /\ chat.calls[j].name = call.name
                              /\ chat.calls[j].args = call.args
                    /\ ToldArguments(call.id) = call.args

\* A Claude client that is told to run a tool has been shown one, and no client
\* is shown a call the upstream did not make.
ToolUseShown ==
    /\ \A i \in DOMAIN dialect.frames :
          dialect.frames[i].type = "message_delta" /\ dialect.frames[i].kind = "tool_use" =>
              \E j \in DOMAIN Starts : Starts[j].kind = "tool_use"
    /\ Len(chat.calls) <= Cardinality(Calls)

Whole ==
    CASE provider = "claude" -> ClaudeWhole(said)
      [] provider = "gemini" -> GeminiWhole(said)
      [] provider = "responses" -> ResponsesWhole(said)
      [] provider = "openai" -> OpenAiWhole(said)

Announced == \A p \in DOMAIN said.parts : said.parts[p].announced

\* An answer is the same whether it is asked for in one piece or as a stream: the
\* text, the calls, how it finished and its counts, to a Claude client too.  The code differs in three
\* places, which are excepted here: a Responses answer asked for whole has no
\* reasoning, and is not "length" when it was cut after a call; a Claude answer's
\* prompt counts the cache only in the stream, and only if its closing event
\* repeats the counts.
SameAnswer ==
    Finished /\ Announced =>
        /\ chat.text = Whole.text
        /\ provider # "responses" => chat.thoughts = Whole.thoughts
        /\ [i \in DOMAIN chat.calls |-> <<chat.calls[i].id, chat.calls[i].args>>]
               = [i \in DOMAIN Whole.calls |-> <<Whole.calls[i].id, Whole.calls[i].args>>]
        /\ ~(provider = "responses" /\ said.stop = "incomplete" /\ Whole.calls # <<>>) =>
               chat.finish = Whole.finish
        /\ (provider = "claude" => said.usage.read = 0) =>
               chat.usage.prompt = Whole.usage.prompt
        /\ chat.usage.completion = Whole.usage.completion
        /\ \A block \in Range(ClaudeMessage(Whole).content) :
              block.kind = "tool_use" => ToldArguments(block.id) = block.value
        /\ chat.finish = Whole.finish =>
              \E f \in Range(dialect.frames) :
                  f.type = "message_delta" /\ f.kind = ClaudeMessage(Whole).stop

=============================================================================
