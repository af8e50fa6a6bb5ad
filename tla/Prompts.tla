-------------------------------- MODULE Prompts --------------------------------
(***************************************************************************)
(* What a request of each client dialect becomes for each kind of          *)
(* upstream: the chat messages the gateway makes of it                     *)
(* (claude_endpoint.rs, lib.rs), and the body made of those                *)
(* (backend.rs and the translate crate's claude_request.rs,                *)
(* gemini_request.rs, requests.rs).                                        *)
(*                                                                         *)
(* A text is a sequence of numbers, one for each piece, so that joining    *)
(* two is concatenation; <<>> is the empty text, and the separator of a    *)
(* join is left out.  A call is [id, name, args, sig]: args is a number    *)
(* that tells calls apart, sig its thought signature or NoSig.  Ids are no *)
(* longer than a Responses upstream allows and carry no blanks.  Sampling  *)
(* parameters, schemas and cache marks are left out.                       *)
(***************************************************************************)
EXTENDS Integers, Sequences, FiniteSets, SequencesExt

NoSig == 0
NoId == <<>>

TextPart(text) == [kind |-> "text", text |-> text]
Picture(text) == [kind |-> "picture", text |-> text]

\* A ChatMessage; callId is NoId but for the answer to a call.
Message(role, parts, calls) == [role |-> role, parts |-> parts, calls |-> calls, callId |-> NoId]
ToolMessage(id, text) == [Message("tool", <<TextPart(text)>>, <<>>) EXCEPT !.callId = id]

TextOf(parts) == FlattenSeq([i \in DOMAIN parts |->
                   IF parts[i].kind = "text" THEN parts[i].text ELSE <<>>])
TextsIn(parts) == SelectSeq(parts, LAMBDA p : p.kind = "text" /\ p.text # <<>>)
MapFlat(Op(_), s) == FlattenSeq([i \in DOMAIN s |-> Op(s[i])])

-----------------------------------------------------------------------------
(* Anthropic Messages to chat.  A block is a part, a tool_use with its     *)
(* call, a tool_result with the id it answers, or of a kind nobody serves. *)

Blocks(turn, kinds) == SelectSeq(turn.blocks, LAMBDA b : b.kind \in kinds)

Results(turn) ==
    LET answers == Blocks(turn, {"tool_result"})
    IN [i \in DOMAIN answers |-> ToolMessage(answers[i].id, answers[i].text)]

Rest(turn) ==
    LET parts == Blocks(turn, {"text", "picture"})
        uses == Blocks(turn, {"tool_use"})
    IN IF parts = <<>> /\ uses = <<>> THEN <<>>
       ELSE <<Message(turn.role, parts,
                      [i \in DOMAIN uses |-> [uses[i].call EXCEPT !.sig = NoSig]])>>

RestFirst(turn) == Rest(turn) \o Results(turn)

\* The results first, each a message of its own, then what is left.
push_claude_turn(turn) == Results(turn) \o Rest(turn)

System(text) == IF text = <<>> THEN <<>> ELSE <<Message("system", <<TextPart(text)>>, <<>>)>>

claude_request_to_chat(system, turns) == System(system) \o MapFlat(push_claude_turn, turns)

\* The spelling of the choice, in chat's words.
claude_tool_choice(choice) ==
    CASE choice = "any" -> "required" [] choice = "tool" -> "named" [] OTHER -> choice

-----------------------------------------------------------------------------
(* Responses to chat, item by item.  Pictures in an item are not text.     *)

ItemMessages(item) ==
    CASE item.kind = "message" ->
            IF TextOf(item.parts) = <<>> THEN <<>>
            ELSE <<Message(item.role, <<TextPart(TextOf(item.parts))>>, <<>>)>>
      [] item.kind = "function_call" /\ item.call.name # "" ->
            <<Message("assistant", <<>>, <<[item.call EXCEPT !.sig = NoSig]>>)>>
      [] item.kind = "function_call_output" -> <<ToolMessage(item.id, item.text)>>
      [] OTHER -> <<>>

responses_to_chat(instructions, items) == System(instructions) \o MapFlat(ItemMessages, items)

-----------------------------------------------------------------------------
(* A trailing assistant turn, for the upstreams that refuse it.            *)

Continuation == <<0>>

adapt(messages) ==
    IF messages # <<>> /\ Last(messages).role = "assistant" /\ Last(messages).calls = <<>>
       /\ TextOf(Last(messages).parts) # <<>>
    THEN Append(messages, Message("user", <<TextPart(Continuation)>>, <<>>))
    ELSE messages

-----------------------------------------------------------------------------
(* Chat to Gemini.  The body is the system text and the turns.             *)

NeverMerged(contents, role, parts) == Append(contents, [role |-> role, parts |-> parts])

push_turn(contents, role, parts) ==
    IF contents # <<>> /\ Last(contents).role = role
    THEN [contents EXCEPT ![Len(contents)].parts = @ \o parts]
    ELSE Append(contents, [role |-> role, parts |-> parts])

\* A picture travels inline; an empty text does not travel.
content_parts(parts) == SelectSeq(parts, LAMBDA p : p.kind = "picture" \/ p.text # <<>>)

\* Without its signature the upstream would refuse a call: it is told as text.
function_call_part(call) ==
    [kind |-> IF call.sig = NoSig THEN "callText" ELSE "functionCall", call |-> call]

\* The name of the call a result answers: the last one of that id so far.
CallName(messages, id) ==
    LET calls == MapFlat(LAMBDA m : SelectSeq(m.calls, LAMBDA c : c.name # ""), messages)
        at == SelectLastInSeq(calls, LAMBDA c : c.id = id)
    IN IF at = 0 THEN "tool" ELSE calls[at].name

GeminiTurn(messages, contents, i) ==
    LET m == messages[i]
        named == SelectSeq(m.calls, LAMBDA c : c.name # "")
        said == content_parts(m.parts)
        parts == said \o [j \in DOMAIN named |-> function_call_part(named[j])]
    IN CASE m.role = "system" -> contents
         [] m.role = "assistant" ->
               IF parts = <<>> THEN contents ELSE push_turn(contents, "model", parts)
         [] m.role = "tool" ->
               push_turn(contents, "user",
                         <<[kind |-> "functionResponse", text |-> TextOf(m.parts),
                            name |-> CallName(SubSeq(messages, 1, i), m.callId)]>>)
         [] OTHER -> IF said = <<>> THEN contents ELSE push_turn(contents, "user", said)

SystemText(messages) ==
    MapFlat(LAMBDA m : IF m.role = "system" THEN TextOf(m.parts) ELSE <<>>, messages)

openai_to_gemini(messages) ==
    [system |-> SystemText(messages),
     turns |-> FoldLeft(LAMBDA contents, i : GeminiTurn(messages, contents, i),
                        <<>>, [i \in DOMAIN messages |-> i])]

-----------------------------------------------------------------------------
(* Chat to Claude.  Text and calls; a turn of the same role goes on, but a *)
(* result never follows text in its turn.  A turn without blocks is left   *)
(* out when the role changes.                                              *)

\* The turn that is open last: of `role`, with these blocks.
Joined(turns, role, blocks) ==
    IF turns # <<>> /\ Last(turns).role = role
    THEN [turns EXCEPT ![Len(turns)].parts = @ \o blocks]
    ELSE Append(SelectSeq(turns, LAMBDA t : t.parts # <<>>), [role |-> role, parts |-> blocks])

tool_use_blocks(m) == [i \in DOMAIN m.calls |-> [kind |-> "tool_use",
                                                 call |-> [m.calls[i] EXCEPT !.sig = NoSig]]]

ClaudeTurn(turns, m) ==
    CASE m.role = "system" -> turns
      [] m.role = "tool" ->
            LET result == <<[kind |-> "tool_result", id |-> m.callId, text |-> TextOf(m.parts)]>>
            IN IF turns # <<>> /\ Last(turns).role = "user" /\ Last(turns).parts # <<>>
                  /\ Last(Last(turns).parts).kind = "text"
               THEN Append(turns, [role |-> "user", parts |-> result])
               ELSE Joined(turns, "user", result)
      [] m.role = "user" -> Joined(turns, "user", TextsIn(m.parts))
      [] OTHER -> Joined(turns, "assistant", TextsIn(m.parts) \o tool_use_blocks(m))

openai_to_claude(messages) ==
    LET turns == SelectSeq(FoldLeft(ClaudeTurn, <<>>, messages), LAMBDA t : t.parts # <<>>)
    IN [system |-> SystemText(messages),
        turns |-> IF turns # <<>> THEN turns
                  ELSE <<[role |-> "user", parts |-> <<TextPart(Continuation)>>]>>]

-----------------------------------------------------------------------------
(* Chat to Responses: a list of items.                                     *)

\* The first system message is the instructions, and only that one.
SystemItems(messages, i) ==
    IF \A j \in 1..i - 1 : messages[j].role # "system" THEN <<>>
    ELSE <<[kind |-> "message", role |-> "developer", parts |-> messages[i].parts]>>

AssistantItems(m) ==
    LET named == SelectSeq(m.calls, LAMBDA c : c.name # "") IN
    (IF TextsIn(m.parts) = <<>> THEN <<>>
     ELSE <<[kind |-> "message", role |-> "assistant", parts |-> TextsIn(m.parts)]>>)
    \o [j \in DOMAIN named |-> [kind |-> "function_call", call |-> [named[j] EXCEPT !.sig = NoSig]]]

Items(messages, i) ==
    LET m == messages[i] IN
    CASE m.role = "system" -> SystemItems(messages, i)
      [] m.role = "assistant" -> AssistantItems(m)
      [] m.role = "tool" -> <<[kind |-> "function_call_output", id |-> m.callId,
                               text |-> TextOf(m.parts)]>>
      [] OTHER -> <<[kind |-> "message", role |-> "user", parts |-> m.parts]>>

\* Only the results that stand right behind a call.
AnswersNeighbour(items) ==
    LET kept == {i \in DOMAIN items :
                   items[i].kind = "function_call_output"
                   => i > 1 /\ items[i - 1].kind = "function_call"}
    IN MapFlat(LAMBDA i : IF i \in kept THEN <<items[i]>> ELSE <<>>, [i \in DOMAIN items |-> i])

\* A result whose call is not in the list is dropped.
DropOrphans(items) ==
    LET known == {items[i].call.id : i \in {j \in DOMAIN items : items[j].kind = "function_call"}}
    IN SelectSeq(items, LAMBDA item : item.kind = "function_call_output" => item.id \in known)

openai_to_responses(messages) ==
    LET first == SelectInSeq(messages, LAMBDA m : m.role = "system") IN
    [system |-> IF first = 0 THEN <<>> ELSE TextOf(messages[first].parts),
     turns |-> DropOrphans(MapFlat(LAMBDA i : Items(messages, i), [i \in DOMAIN messages |-> i]))]

-----------------------------------------------------------------------------
(* The tools a request offers and whether one must be called.  tools is    *)
(* "unset", "empty" or "functions"; choice "unset", "auto", "none",        *)
(* "required" or "named".                                                  *)

\* openai_request_body: a model that would answer in prose is pinned, unless
\* the client chose.
Pinned(tools, choice, prose) ==
    IF choice = "unset" /\ tools = "functions" /\ prose THEN "required" ELSE choice

ClaudeChoice(tools, choice) ==
    IF tools # "functions" \/ choice = "unset" THEN "unset"
    ELSE CASE choice = "required" -> "any" [] choice = "named" -> "tool" [] OTHER -> choice

GeminiMode(choice) ==
    CASE choice = "unset" -> "unset" [] choice = "none" -> "NONE" [] choice = "auto" -> "AUTO"
      [] OTHER -> "ANY"

=============================================================================
