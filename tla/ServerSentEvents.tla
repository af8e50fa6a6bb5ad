--------------------------- MODULE ServerSentEvents ---------------------------
(***************************************************************************)
(* The decoder of an upstream's event stream, crates/heterion-router-http/ *)
(* src/sse.rs.  It is fed bytes as the network cuts them, and gives the    *)
(* events they complete.                                                   *)
(*                                                                         *)
(* A field name and its colon are one letter here, and so is a character;  *)
(* what the decoder does with a half of either is what it does with a half *)
(* of a line.                                                              *)
(***************************************************************************)
EXTENDS Integers, Sequences, SequencesExt, FiniteSetsExt

CONSTANT MAX_SSE_EVENT_BYTES

ASSUME LimitAssumption == MAX_SSE_EVENT_BYTES \in Nat \ {0}

LF == "\n"
CR == "\r"
Event == "event:"
Data == "data:"
Comment == ":"
Space == " "

\* The event that is given when one outgrows the limit.
Overflow == [event |-> "error", data |-> <<>>]

new == [buffer |-> <<>>, frame |-> <<>>, overflowed |-> FALSE]

\* What is held for the event being assembled; each line of it has its end.
buffered(decoder) ==
    Len(decoder.buffer) + FoldSeq(LAMBDA line, sum : sum + Len(line) + 1, 0, decoder.frame)

LineEnds(bytes) == {i \in DOMAIN bytes : bytes[i] \in {LF, CR}}

\* Mutated form: a CR ends a line although nothing is known of what follows it.
next_line_at_once(bytes) ==
    IF LineEnds(bytes) = {} THEN {}
    ELSE LET i == Min(LineEnds(bytes))
             crlf == bytes[i] = CR /\ i < Len(bytes) /\ bytes[i + 1] = LF
         IN {[end |-> i, next |-> IF crlf THEN i + 2 ELSE i + 1]}

\* Where the first line ends and the next begins, or nothing: a CR at the end
\* of what has come may be half of a line's end.
next_line(bytes) ==
    IF LineEnds(bytes) = {} THEN {}
    ELSE LET i == Min(LineEnds(bytes)) IN
         IF bytes[i] = LF THEN {[end |-> i, next |-> i + 1]}
         ELSE IF i = Len(bytes) THEN {}
         ELSE {[end |-> i, next |-> IF bytes[i + 1] = LF THEN i + 2 ELSE i + 1]}

Stripped(text) == IF text # <<>> /\ Head(text) = Space THEN Tail(text) ELSE text

\* The last name and all the data lines; comments and other fields are dropped,
\* and a frame with neither name nor data is no event.
parse_frame(frame) ==
    LET Of(field) == SelectSeq(frame, LAMBDA line : Head(line) = field)
        names == Of(Event)
        lines == Of(Data)
    IN IF names = <<>> /\ lines = <<>> THEN <<>>
       ELSE <<[event |-> IF names = <<>> THEN "none" ELSE Last(Stripped(Tail(Last(names)))),
               data  |-> [i \in DOMAIN lines |-> Stripped(Tail(lines[i]))]]>>

\* Every whole line of the buffer is taken; an empty one ends a frame.
RECURSIVE Drained(_, _)
Drained(decoder, events) ==
    IF next_line(decoder.buffer) = {} THEN [decoder |-> decoder, events |-> events]
    ELSE LET found == CHOOSE f \in next_line(decoder.buffer) : TRUE
             line == SubSeq(decoder.buffer, 1, found.end - 1)
             rest == SubSeq(decoder.buffer, found.next, Len(decoder.buffer))
         IN IF line = <<>>
            THEN Drained([decoder EXCEPT !.buffer = rest, !.frame = <<>>],
                         events \o parse_frame(decoder.frame))
            ELSE Drained([decoder EXCEPT !.buffer = rest, !.frame = Append(@, line)], events)

\* What is held is measured after the chunk, and a decoder that gave up is deaf.
push_bytes(decoder, chunk) ==
    IF decoder.overflowed THEN [decoder |-> decoder, events |-> <<>>]
    ELSE LET drained == Drained([decoder EXCEPT !.buffer = @ \o chunk], <<>>)
         IN IF buffered(drained.decoder) <= MAX_SSE_EVENT_BYTES THEN drained
            ELSE [decoder |-> [buffer |-> <<>>, frame |-> <<>>, overflowed |-> TRUE],
                  events  |-> Append(drained.events, Overflow)]

=============================================================================
