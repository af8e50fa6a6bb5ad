----------------------------- MODULE Conversations -----------------------------
(***************************************************************************)
(* Agent conversations through the gateway: each client keeps its history  *)
(* in its own dialect and sends all of it every time, the gateway turns it *)
(* into the body of whatever upstream the turn is routed to, the upstream  *)
(* answers with text or calls, the client answers the calls.  Turns of one *)
(* conversation may go to different upstreams, and all conversations with  *)
(* Gemini share one store of thought signatures and one last message id    *)
(* (gemini.rs).                                                            *)
(***************************************************************************)
EXTENDS Prompts, ThoughtSignatures

CONSTANTS
    Chats,              \* conversations
    Casts,              \* who holds each conversation: [surface, keeps, offers]
    Upstreams,          \* of "gemini", "claude", "responses", "openai"
    MaxAnswers,         \* bound: answers of upstreams
    MaxTurns            \* bound: turns of one history

\* The dialect; what the client sends back of a call: all of it, its id, or
\* none of it when the client gives it an id of its own; the tools it offers
\* and the choice, and whether the model it asks would answer in prose.
ASSUME ConversationAssumption ==
    /\ \A k \in Casts : \A c \in Chats :
         /\ k[c].surface \in {"chat", "claude", "responses"}
         /\ k[c].keeps \in {"all", "id", "none"}
    /\ MaxAnswers \in Nat /\ MaxTurns \in Nat

VARIABLES
    cast,               \* the clients
    history,            \* of each client: what it said and was told
    phase,              \* "client", "calls" (open ones), "ready", "sent"
    prompt,             \* the body that waits for its answer, and its upstream
    store,              \* ThoughtSignatures
    last_message_id,    \* of the last Gemini answer with signed calls
    second,             \* the message id the clock makes in this second
    answers             \* answers given so far

vars == <<cast, history, phase, prompt, store, last_message_id, second, answers>>

NoMessage == 0
NoPrompt == [upstream |-> "none"]
SystemPiece == <<99>>

Init ==
    /\ cast \in Casts
    /\ history = [c \in Chats |-> <<>>]
    /\ phase = [c \in Chats |-> "client"]
    /\ prompt = [c \in Chats |-> NoPrompt]
    /\ store = Empty
    /\ last_message_id = NoMessage
    /\ second = NoMessage
    /\ answers = 0

-----------------------------------------------------------------------------
(* The client.  A turn of its history is "user" with parts, "assistant"    *)
(* with parts and calls, or "results" with the calls they answer, in some  *)
(* order, and the text the user adds.                                      *)

\* The result of a call, and the id and the signature it is sent with.
ResultOf(call) == <<100 + call.args>>
SentId(c, call) == IF cast[c].keeps = "none" THEN <<"own", call.args>> ELSE call.id
SentCall(c, call) == [call EXCEPT !.id = SentId(c, call),
                                  !.sig = IF cast[c].keeps = "all" THEN @ ELSE NoSig]
SentCalls(c, calls) == [i \in DOMAIN calls |-> SentCall(c, calls[i])]

ChatMessages(c, t) ==
    IF t.who # "results" THEN <<Message(t.who, t.parts, SentCalls(c, t.calls))>>
    ELSE [i \in DOMAIN t.calls |-> ToolMessage(SentId(c, t.calls[i]), ResultOf(t.calls[i]))]
         \o (IF t.parts = <<>> THEN <<>> ELSE <<Message("user", t.parts, <<>>)>>)

\* A client of the Messages dialect may put its text before its results.
ClaudeBlocks(c, t) ==
    IF t.who = "results"
    THEN t.parts \o [i \in DOMAIN t.calls |->
                       [kind |-> "tool_result", id |-> SentId(c, t.calls[i]),
                        text |-> ResultOf(t.calls[i])]]
    ELSE t.parts \o [i \in DOMAIN t.calls |->
                       [kind |-> "tool_use", call |-> SentCall(c, t.calls[i])]]
ClaudeTurns(c) ==
    [i \in DOMAIN history[c] |->
       [role |-> IF history[c][i].who = "assistant" THEN "assistant" ELSE "user",
        blocks |-> ClaudeBlocks(c, history[c][i])]]

ResponsesItems(c, t) ==
    LET said == IF t.parts = <<>> THEN <<>>
                ELSE <<[kind |-> "message", parts |-> t.parts,
                        role |-> IF t.who = "assistant" THEN "assistant" ELSE "user"]>>
    IN IF t.who = "results"
       THEN [i \in DOMAIN t.calls |->
               [kind |-> "function_call_output", id |-> SentId(c, t.calls[i]),
                text |-> ResultOf(t.calls[i])]] \o said
       ELSE said \o [i \in DOMAIN t.calls |->
               [kind |-> "function_call", call |-> SentCall(c, t.calls[i])]]
RawInput(c) == MapFlat(LAMBDA t : ResponsesItems(c, t), history[c])

-----------------------------------------------------------------------------
(* The gateway.                                                            *)

Messages(c) ==
    CASE cast[c].surface = "chat" ->
            System(SystemPiece) \o MapFlat(LAMBDA t : ChatMessages(c, t), history[c])
      [] cast[c].surface = "claude" -> claude_request_to_chat(SystemPiece, ClaudeTurns(c))
      [] OTHER -> responses_to_chat(SystemPiece, RawInput(c))

\* inject_signatures: the signature kept for the id, and for want of one that
\* of the call at the same place of the last answer.
Kept(id) == IF id \in DOMAIN store.values THEN store.values[id] ELSE NoSig
AtPlace(i) == Kept(<<"m", last_message_id, i>>)

InjectedByPlace(call, i) ==
    IF call.sig # NoSig THEN call
    ELSE [call EXCEPT !.sig = IF AtPlace(i) # NoSig THEN AtPlace(i) ELSE Kept(call.id)]

Injected(call, i) ==
    IF call.sig # NoSig THEN call
    ELSE [call EXCEPT !.sig = IF Kept(call.id) # NoSig THEN Kept(call.id) ELSE AtPlace(i)]

inject_signatures(messages) ==
    [m \in DOMAIN messages |->
       [messages[m] EXCEPT !.calls = [i \in DOMAIN @ |-> Injected(@[i], i)]]]

\* The body for each upstream; a Responses client's input reaches a Responses
\* upstream as it is, and chat messages an OpenAI-compatible one.
Body(c, upstream) ==
    CASE upstream = "gemini" -> openai_to_gemini(inject_signatures(adapt(Messages(c))))
      [] upstream = "claude" -> openai_to_claude(Messages(c))
      [] upstream = "responses" ->
            IF cast[c].surface = "responses"
            THEN [openai_to_responses(Messages(c)) EXCEPT !.turns = RawInput(c)]
            ELSE openai_to_responses(Messages(c))
      [] OTHER -> [system |-> SystemText(Messages(c)),
                   turns |-> SelectSeq(Messages(c), LAMBDA m : m.role # "system")]

\* Whether the model may, must or must not call, as the upstream is told it.
ToldChoice(c, upstream) ==
    LET tools == cast[c].offers.tools
        choice == Pinned(tools, IF cast[c].surface = "claude" THEN claude_tool_choice(cast[c].offers.choice)
                                ELSE cast[c].offers.choice, cast[c].offers.prose)
    IN CASE upstream = "gemini" -> GeminiMode(choice)
         [] upstream = "claude" -> ClaudeChoice(tools, choice)
         [] OTHER -> choice

Meaning(choice) ==
    CASE choice \in {"unset", "auto", "AUTO"} -> "may"
      [] choice \in {"none", "NONE"} -> "must not"
      [] OTHER -> "must"

-----------------------------------------------------------------------------
(* Steps.                                                                  *)

Turn(who, parts, calls) == [who |-> who, parts |-> parts, calls |-> calls]
Says(c, turn) == history' = [history EXCEPT ![c] = Append(@, turn)]
Becomes(c, p) == phase' = [phase EXCEPT ![c] = p]
\* Every text of a history is another number.
Piece(c) == <<Len(history[c]) + 1>>

\* The user writes, or sends a picture and nothing else.
UserWrites(c, part) ==
    /\ phase[c] = "client" /\ Len(history[c]) < MaxTurns
    /\ Says(c, Turn("user", <<part>>, <<>>))
    /\ Becomes(c, "ready")
    /\ UNCHANGED <<cast, prompt, store, last_message_id, second, answers>>

\* The client begins the answer itself.
Prefills(c) ==
    /\ phase[c] = "ready" /\ Len(history[c]) < MaxTurns
    /\ Last(history[c]).who = "user"
    /\ Says(c, Turn("assistant", <<TextPart(Piece(c))>>, <<>>))
    /\ UNCHANGED <<cast, phase, prompt, store, last_message_id, second, answers>>

Send(c, upstream) ==
    /\ phase[c] = "ready"
    /\ prompt' = [prompt EXCEPT ![c] = Body(c, upstream) @@ [upstream |-> upstream,
                                                            choice |-> ToldChoice(c, upstream)]]
    /\ Becomes(c, "sent")
    /\ UNCHANGED <<cast, history, store, last_message_id, second, answers>>

\* The id of Gemini's n-th answer: the upstream's, or one made of the clock's
\* second, which other answers of that second get as well.
MessageIds(n) == {n, second} \ {NoMessage}

\* The ids of the n-th answer's calls.  For Gemini they are made of its id; the
\* others give their own, and where one gives none it is the call's place.
IdsOfCalls(n, upstream, message) ==
    CASE upstream = "gemini" -> {[i \in 1..2 |-> <<"m", message, i>>]}
      [] upstream = "claude" -> {[i \in 1..2 |-> <<"o", n, i>>]}
      [] OTHER -> {[i \in 1..2 |-> <<"o", n, i>>], [i \in 1..2 |-> <<"call", i>>]}

\* Gemini signs its calls.
NewCalls(n, count, gemini, ids) ==
    [i \in 1..count |->
       [id |-> ids[i], name |-> IF i = 1 THEN "f" ELSE "g",
        args |-> 10 * n + i, sig |-> IF gemini THEN 10 * n + i ELSE NoSig]]

\* Text, or one call, or text and two calls: record_signatures and the last
\* message id, then the client has the turn.
Answer(c, count, message, ids) ==
    LET n == answers + 1
        said == count # 1
        gemini == prompt[c].upstream = "gemini"
        calls == NewCalls(n, count, gemini, ids)
    IN /\ phase[c] = "sent" /\ n <= MaxAnswers
       /\ Meaning(prompt[c].choice) = "must not" => count = 0
       /\ answers' = n
       /\ Says(c, Turn("assistant", IF said THEN <<TextPart(Piece(c))>> ELSE <<>>, calls))
       /\ Becomes(c, IF count = 0 THEN "client" ELSE "calls")
       /\ IF gemini /\ count > 0
          THEN /\ store' = FoldLeft(LAMBDA s, call : record(s, call.id, call.sig), store, calls)
               /\ last_message_id' = message
               /\ second' \in {second, message}
          ELSE UNCHANGED <<store, last_message_id, second>>
       /\ prompt' = [prompt EXCEPT ![c] = NoPrompt]
       /\ UNCHANGED cast

\* The client answers every open call, in their order or in another, with a
\* text of the user's.
AnswersCalls(c, parts) ==
    LET open == Last(history[c]).calls IN
    /\ phase[c] = "calls" /\ Len(history[c]) < MaxTurns
    /\ Says(c, Turn("results", parts, IF parts = <<>> THEN open ELSE Reverse(open)))
    /\ Becomes(c, "ready")
    /\ UNCHANGED <<cast, prompt, store, last_message_id, second, answers>>

\* The signatures come back from their file (Startup), the message id does not.
Restart ==
    /\ last_message_id # NoMessage
    /\ last_message_id' = NoMessage
    /\ UNCHANGED <<cast, history, phase, prompt, store, second, answers>>

Next ==
    \/ \E c \in Chats :
         \/ UserWrites(c, TextPart(Piece(c))) \/ UserWrites(c, Picture(Piece(c)))
         \/ Prefills(c)
         \/ \E upstream \in Upstreams : Send(c, upstream)
         \/ \E count \in 0..2, message \in MessageIds(answers + 1) :
              \E ids \in IdsOfCalls(answers + 1, prompt[c].upstream, message) :
                Answer(c, count, message, ids)
         \/ \E parts \in {<<>>, <<TextPart(Piece(c))>>} : AnswersCalls(c, parts)
    \/ Restart

Spec == Init /\ [][Next]_vars

-----------------------------------------------------------------------------
(* What a body says.  One for Gemini or Claude is turns of parts, one for  *)
(* a Responses upstream a list of items, one for OpenAI messages.          *)

CallKinds == {"functionCall", "callText", "tool_use", "function_call"}
Turned(c) == prompt[c].upstream \in {"gemini", "claude"}
Parts(turn) == {turn.parts[i] : i \in DOMAIN turn.parts}
Calls(turn) == {p \in Parts(turn) : p.kind \in CallKinds}

PartToken(p) ==
    CASE p.kind \in {"text", "picture"} -> <<p.kind, p.text>>
      [] p.kind \in CallKinds -> <<"call", p.call.args>>
      [] OTHER -> <<"result", p.text>>
PartTokens(parts) == [i \in DOMAIN parts |-> PartToken(parts[i])]
CallTokens(calls) == [i \in DOMAIN calls |-> <<"call", calls[i].args>>]

TurnTokens(upstream, t) ==
    CASE upstream = "openai" ->
            IF t.role = "tool" THEN <<<<"result", TextOf(t.parts)>>>>
            ELSE PartTokens(t.parts) \o CallTokens(t.calls)
      [] upstream = "responses" /\ t.kind # "message" -> <<PartToken(t)>>
      [] OTHER -> PartTokens(t.parts)
Told(c) == MapFlat(LAMBDA t : TurnTokens(prompt[c].upstream, t), prompt[c].turns)

\* A Claude upstream gets no pictures, and of a Responses client's items only
\* another Responses upstream does.
CarriesPictures(c) ==
    /\ prompt[c].upstream # "claude"
    /\ cast[c].surface = "responses" => prompt[c].upstream = "responses"

SaidTokens(t) ==
    IF t.who = "results"
    THEN [i \in DOMAIN t.calls |-> <<"result", ResultOf(t.calls[i])>>] \o PartTokens(t.parts)
    ELSE PartTokens(t.parts) \o CallTokens(t.calls)
Heard(c, t) == SelectSeq(SaidTokens(t), LAMBDA token : token[1] = "picture" => CarriesPictures(c))
Said(c) == MapFlat(LAMBDA t : Heard(c, t), history[c])

\* The last turn that is told is one of the assistant.
Continued(c) ==
    LET last == SelectLastInSeq(history[c], LAMBDA t : Heard(c, t) # <<>>)
    IN prompt[c].upstream = "gemini" /\ last > 0 /\ history[c][last].who = "assistant"
Placeholder(c) == prompt[c].upstream = "claude" /\ Said(c) = <<>>

\* No turn of the user is lost as a whole.
EveryTurnCarried(c) ==
    \/ CarriesPictures(c)
    \/ \A i \in DOMAIN history[c] : \A p \in Parts(history[c][i]) : p.kind # "picture"

-----------------------------------------------------------------------------
(***************************************************************************)
(* Properties.                                                             *)
(***************************************************************************)
\* Whatever dialect the client speaks and whatever upstream its turns went to
\* before, the body of a turn tells its whole history: every text, call and
\* result once and in its order, but for pictures where none can travel, and
\* the turn that asks to go on (claude_endpoint.rs:262-333, lib.rs:1910-2008,
\* gemini_request.rs:26-103, claude_request.rs:219-273, requests.rs:196-381).
EverythingIsTold ==
    \A c \in Chats : phase[c] = "sent" =>
      Told(c) = Said(c) \o (IF Continued(c) \/ Placeholder(c)
                            THEN <<<<"text", Continuation>>>> ELSE <<>>)

\* A result stands where the upstream looks for it: in the turn right behind
\* the one of its call, before any text, and under that call's id or name; in
\* a list of items, anywhere behind its call; one that Gemini is told as text
\* for want of a signature counts as its call (claude_request.rs:232-249,
\* gemini_request.rs:67-94, requests.rs:364-381).
ResultsFollowTheirCalls ==
    \A c \in Chats : phase[c] = "sent" =>
      LET turns == prompt[c].turns
          answers_(result, call) ==
            /\ result.text = ResultOf(call)
            /\ prompt[c].upstream = "gemini" => result.name = call.name
            /\ prompt[c].upstream # "gemini" => result.id = call.id
          isResult(p) == p.kind \in {"functionResponse", "tool_result", "function_call_output"}
      IN /\ Turned(c) => \A i \in DOMAIN turns :
              /\ \A j \in DOMAIN turns[i].parts : isResult(turns[i].parts[j]) =>
                   /\ i > 1 /\ \E p \in Calls(turns[i - 1]) : answers_(turns[i].parts[j], p.call)
                   /\ \A k \in 1..j - 1 : isResult(turns[i].parts[k])
              /\ i < Len(turns) => \A p \in Calls(turns[i]) :
                   \E q \in Parts(turns[i + 1]) : isResult(q) /\ answers_(q, p.call)
         /\ prompt[c].upstream = "responses" => \A i \in DOMAIN turns : isResult(turns[i]) =>
              \E j \in 1..i - 1 : turns[j].kind = "function_call" /\ answers_(turns[i], turns[j].call)

\* The turns for Gemini alternate and end with the user's; those for Claude
\* alternate in every history whose user turns can all be told
\* (gemini_request.rs:459-470, claude_request.rs:79-89, continuation.rs:59-87).
TurnsAlternate ==
    \A c \in Chats : phase[c] = "sent" /\ Turned(c) =>
      LET turns == prompt[c].turns
          gemini == prompt[c].upstream = "gemini"
      IN /\ gemini \/ EveryTurnCarried(c) =>
              \A i \in 1..Len(turns) - 1 : turns[i].role # turns[i + 1].role
         /\ gemini /\ turns # <<>> => Last(turns).role = "user"

\* A call whose signature the client sent back is replayed to Gemini as a call
\* with exactly that signature; one whose id the client sent back, and the
\* store holds, with the signature made last under that id, whatever else
\* other conversations, evictions and restarts did in between.  That is its
\* own, unless an answer of the same second got the same id (gemini.rs:331-370).
Namesakes(call) ==
    {d \in UNION {UNION {ToSet(t.calls) : t \in ToSet(history[c])} : c \in Chats} : d.id = call.id}

OwnSignatureIsReplayed ==
    [][ \A c \in Chats :
          phase[c] = "ready" /\ phase'[c] = "sent" /\ prompt'[c].upstream = "gemini" =>
            \A i \in DOMAIN history[c] : \A call \in ToSet(history[c][i].calls) :
              LET carried == cast[c].surface = "chat" /\ cast[c].keeps = "all"
                  held == cast[c].keeps # "none" /\ call.id \in DOMAIN store.values
                  signature == IF carried THEN call.sig ELSE Max({d.sig : d \in Namesakes(call)})
              IN call.sig # NoSig /\ (carried \/ held) =>
                   \E t \in DOMAIN prompt'[c].turns : \E p \in Parts(prompt'[c].turns[t]) :
                     p.kind = "functionCall" /\ p.call.args = call.args /\ p.call.sig = signature
      ]_vars

=============================================================================
