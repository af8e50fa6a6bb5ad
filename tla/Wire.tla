--------------------------------- MODULE Wire ---------------------------------
(***************************************************************************)
(* An upstream's answer on its way through the gateway: its bytes, cut     *)
(* anywhere, to the decoder of pump_sse_stream (gateway/src/responses.rs), *)
(* the text of each event to the repetition guard (guard_stream), and from *)
(* there to the client.  The tasks between them, and the ways a stream may *)
(* end, are the subject of Streams; here nothing is lost on the way.       *)
(*                                                                         *)
(* An event that is named carries reasoning, one without a name content.   *)
(***************************************************************************)
EXTENDS ServerSentEvents, Repetition

CONSTANTS
    Styles,         \* how an upstream may end its lines
    Frames,         \* what it may send, as sequences of lines
    MaxFrames,      \* bound: frames of an answer
    MaxChunk        \* bound: bytes that arrive at once

VARIABLES
    style,          \* how this upstream ends its lines
    sent,           \* the frames it has sent
    coming,         \* the bytes of them that have not arrived
    decoder,
    decoded,        \* the events that were decoded
    guards,         \* the guard of each kind of text
    told,           \* the pieces the client was sent
    cut             \* the piece that made the answer a loop

vars == <<style, sent, coming, decoder, decoded, guards, told, cut>>

Kinds == {"content", "reasoning"}

Encoded(lines, ending) ==
    FlattenSeq([i \in DOMAIN lines |-> lines[i] \o ending]) \o ending

Init ==
    /\ style \in Styles
    /\ sent = <<>> /\ coming = <<>>
    /\ decoder = new /\ decoded = <<>>
    /\ guards = [k \in Kinds |-> fresh]
    /\ told = <<>> /\ cut = <<>>

Failed == \E i \in DOMAIN decoded : decoded[i] = Overflow

Send(lines) ==
    /\ Len(sent) < MaxFrames /\ Len(coming) < MaxChunk
    /\ sent' = Append(sent, lines)
    /\ coming' = coming \o Encoded(lines, style)
    /\ UNCHANGED <<style, decoder, decoded, guards, told, cut>>

\* The lines of an event's data are joined.
Piece(event) ==
    [kind |-> IF event.event = "none" THEN "content" ELSE "reasoning",
     text |-> FlattenSeq([i \in DOMAIN event.data |->
                IF i = 1 THEN event.data[i] ELSE <<"\n">> \o event.data[i]])]

\* One piece past the guard of its kind, if nothing was cut before it; a piece
\* that makes a loop is not passed on.
Guarded(state, event) ==
    LET piece == Piece(event)
        guard == push(state.guards[piece.kind], piece.text)
    IN IF state.cut # <<>> \/ event = Overflow THEN state
       ELSE [guards |-> [state.guards EXCEPT ![piece.kind] = guard],
             told   |-> IF guard.triggered THEN state.told ELSE Append(state.told, piece),
             cut    |-> IF guard.triggered THEN <<piece>> ELSE <<>>]

\* A chunk arrives; after a cut or a failure nobody reads on.
Arrive(n) ==
    LET pushed == push_bytes(decoder, SubSeq(coming, 1, n))
        after == FoldLeft(Guarded, [guards |-> guards, told |-> told, cut |-> cut],
                          pushed.events)
    IN /\ cut = <<>> /\ ~Failed
       /\ coming' = SubSeq(coming, n + 1, Len(coming))
       /\ decoder' = pushed.decoder
       /\ decoded' = decoded \o pushed.events
       /\ guards' = after.guards /\ told' = after.told /\ cut' = after.cut
       /\ UNCHANGED <<style, sent>>

Next ==
    \/ \E lines \in Frames : Send(lines)
    \/ \E n \in 1 .. MaxChunk : n <= Len(coming) /\ Arrive(n)

Spec == Init /\ [][Next]_vars

-----------------------------------------------------------------------------
(* Properties *)

\* What a frame means: its last name, and its data without the one space that
\* may follow the colon; a frame of comments means nothing.
Meaning(lines) ==
    LET data == SelectSeq(lines, LAMBDA line : line[1] = Data)
        names == {i \in DOMAIN lines : lines[i][1] = Event}
        Value(line) == SubSeq(line, IF Len(line) > 1 /\ line[2] = Space THEN 3 ELSE 2, Len(line))
    IN IF names = {} /\ data = <<>> THEN <<>>
       ELSE <<[event |-> IF names = {} THEN "none" ELSE Last(lines[Max(names)]),
               data |-> [i \in DOMAIN data |-> Value(data[i])]]>>

Meanings(frames) == FlattenSeq([i \in DOMAIN frames |-> Meaning(frames[i])])

\* The frames whose last byte has arrived.
Arrived ==
    LET Size(n) == Len(FlattenSeq([i \in 1 .. n |-> Encoded(sent[i], style)]))
        n == Max({i \in 0 .. Len(sent) : Size(i) + Len(coming) <= Size(Len(sent))})
    IN SubSeq(sent, 1, n)

Small(lines) == Len(Encoded(lines, style)) <= MAX_SSE_EVENT_BYTES

\* However the bytes are cut, inside a line, a line's end or a frame's end, the
\* events are those that were sent, each as soon as its frame is there: but for
\* one whose last CR may still be half of a line's end.  Only an event beyond
\* the limit fails the stream, once, and after all that came before it
\* (sse.rs:62-130).
EventsSurviveCuts ==
    LET whole == SelectSeq(decoded, LAMBDA e : e # Overflow)
    IN /\ IsPrefix(whole, Meanings(sent))
       /\ Failed => /\ Last(decoded) = Overflow /\ Len(decoded) = Len(whole) + 1
                    /\ \E i \in DOMAIN sent : ~Small(sent[i])
       /\ ~Failed =>
            \/ whole = Meanings(Arrived)
            \/ Last(style) = CR /\ whole = Meanings(Front(Arrived))

\* The text of a kind in these pieces, with something behind each of them.
TextOf(kind, pieces, behind) ==
    FlattenSeq([i \in DOMAIN pieces |->
                  IF pieces[i].kind = kind THEN pieces[i].text \o behind ELSE <<>>])

\* No word goes on from one piece into the next.
WholeWords(pieces) ==
    \A i \in DOMAIN pieces : pieces[i].text # <<>> => Last(pieces[i].text) \in Blanks

\* The answer of these pieces, as one that was not streamed.
Whole(pieces) ==
    [words  |-> [kind \in Kinds |-> split_whitespace(TextOf(kind, pieces, <<>>))],
     finish |-> "stop"]

\* However the text is cut into pieces, the guard cuts at the first piece whose
\* end is a loop, the words of a piece and of the next being counted apart:
\* also the halves of one word, which the text as a whole has once, so that the
\* two may then disagree (repetition_guard.rs:185-211).  Where no word is cut
\* they agree: the answer that was not streamed is cut if this one is, whichever
\* kind it was, and said to be if it was content (218-286).
CutAtTheFirstLoop ==
    LET all == told \o cut
        kept == apply_to_response(Whole(all))
        Apart(n) == split_whitespace(TextOf(all[n].kind, SubSeq(all, 1, n), <<" ">>))
    IN /\ \A n \in DOMAIN all : analyze(Apart(n)) <=> n > Len(told)
       /\ WholeWords(all) =>
            /\ kept.finish = "length" <=> cut # <<>> /\ cut[1].kind = "content"
            /\ kept # Whole(all) <=> cut # <<>>

=============================================================================
