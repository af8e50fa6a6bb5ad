--------------------------- MODULE ThoughtSignatures ---------------------------
(***************************************************************************)
(* ThoughtSignatures, crates/heterion-router-gateway/src/gemini.rs: the    *)
(* signature of every tool call Gemini makes, by the id the gateway gave   *)
(* the call; bounded, oldest out first; and the file that lets them        *)
(* outlive the process.                                                    *)
(*                                                                         *)
(* A stream records into memory and hands a line to a bounded queue, whose *)
(* writer thread appends it to the file.  A start reads the file, keeps    *)
(* the newest, and writes the file anew: the writing first empties it.  A  *)
(* line is appended whole.  An id comes from one answer of the upstream,   *)
(* or from those of one second, so it is recorded again only while it is   *)
(* held.                                                                   *)
(***************************************************************************)
EXTENDS Integers, Sequences, SequencesExt, Functions, TLC

CONSTANTS
    SIGNATURE_CAPACITY,
    WRITE_QUEUE_DEPTH

ASSUME SignatureAssumption ==
    SIGNATURE_CAPACITY \in Nat \ {0} /\ WRITE_QUEUE_DEPTH \in Nat \ {0}

Line(id, value) == [id |-> id, value |-> value]

Empty == [order |-> <<>>, values |-> [id \in {} |-> {}]]

\* record, in memory, and load for one line of the file: an id that is held
\* gets the new value and keeps its place.
Inserted(store, id, value) ==
    [order |-> IF id \in DOMAIN store.values THEN store.order ELSE Append(store.order, id),
     values |-> [x \in DOMAIN store.values \cup {id} |->
                   IF x = id THEN value ELSE store.values[x]]]

\* The newest find no room.
TrimmedAtTheEnd(store) ==
    LET kept == SubSeq(store.order, 1, IF Len(store.order) > SIGNATURE_CAPACITY
                                       THEN SIGNATURE_CAPACITY ELSE Len(store.order))
    IN [order |-> kept, values |-> Restrict(store.values, ToSet(kept))]

\* The oldest fall out.
Trimmed(store) ==
    LET over == Len(store.order) - SIGNATURE_CAPACITY
        kept == IF over > 0 THEN SubSeq(store.order, over + 1, Len(store.order))
                ELSE store.order
    IN [order |-> kept, values |-> Restrict(store.values, ToSet(kept))]

record(store, id, value) == Trimmed(Inserted(store, id, value))

\* load: every line, then the trimming.
Replayed(lines) ==
    FoldLeft(LAMBDA store, l : Inserted(store, l.id, l.value), Empty, lines)

load(lines) == Trimmed(Replayed(lines))

\* rewrite: one line for each that is held.
rewrite(store) == [i \in DOMAIN store.order |->
                     Line(store.order[i], store.values[store.order[i]])]

\* append: try_send, which drops the line when the queue is full.
Queued(queue, line) == IF Len(queue) < WRITE_QUEUE_DEPTH THEN Append(queue, line) ELSE queue

=============================================================================
