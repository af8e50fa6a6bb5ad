------------------------------- MODULE Embeddings -------------------------------
(***************************************************************************)
(* POST /v1/embeddings: where a request goes, and what is made of the      *)
(* answer.  crates/heterion-router-gateway/src/embeddings.rs.              *)
(*                                                                         *)
(* An input is its number, and a vector is the number of the input it was  *)
(* computed from; `wide` says whether the vectors have the width the       *)
(* request names.  An answer is a list of vectors, each with the index the *)
(* upstream gave it, or Unplaced.                                          *)
(***************************************************************************)
EXTENDS Combos, Integers

CONSTANT Unplaced

NoConnection == 0

\* The provider's endpoint speaks this API.
embedding_support(provider) == get(provider).format = "openai" /\ get(provider).url

\* The first credential the table has now, whatever the pools were built with.
credential(table, provider) ==
    LET loaded == load_credentials(table, provider)
    IN  IF loaded = <<>> THEN NoConnection ELSE Head(loaded)

NoTarget == [provider |-> Unnamed, connection |-> NoConnection]

\* A model must name its provider; no rule, combo or backend is asked.
resolve_target(table, model) ==
    LET provider == IF Len(model) < 2 THEN Unnamed ELSE canonical_id(Head(model))
        key == credential(table, provider)
    IN  IF /\ provider # Unnamed /\ embedding_support(provider)
           /\ key # NoConnection \/ get(provider).keyless
        THEN [provider |-> provider, connection |-> key] ELSE NoTarget

\* The index of a vector; one without takes its place's.
PlaceOf(data, i) == IF data[i].index = Unplaced THEN i - 1 ELSE data[i].index

\* The vectors in the order of their indexes; of two with one index, the first.
Placed(data) ==
    Sorted(DOMAIN data,
           {pair \in (DOMAIN data) \X (DOMAIN data) :
               LET before == PlaceOf(data, pair[1])
                   after  == PlaceOf(data, pair[2])
               IN  before < after \/ (before = after /\ pair[1] < pair[2])})

Ordered(data) == LET places == Placed(data) IN [n \in DOMAIN places |-> data[places[n]].vector]

\* What is told to the client: the vectors, or nothing of an answer that is refused.
parse_response(payload, expected, dimensions) ==
    IF \/ payload.refused \/ payload.data = <<>> \/ Len(payload.data) # expected
       \/ dimensions /\ ~payload.wide
    THEN <<>> ELSE Ordered(payload.data)

-----------------------------------------------------------------------------
(***************************************************************************)
(* How a vector is spelt: floats, or the base64 of their bytes.  A float   *)
(* is its four bytes.  A base64 text is a sequence of its symbols: 0 to 63 *)
(* in the order of the alphabet, padding, white space, or another.         *)
(***************************************************************************)
Padding == 64
Space == 65
Foreign == 66

NoVector == [known |-> FALSE, floats |-> <<>>]
Vector(floats) == [known |-> TRUE, floats |-> floats]

ByteAt(bytes, i) == IF i \in DOMAIN bytes THEN bytes[i] ELSE 0

\* Three bytes are four symbols; what the last ones lack is padding.
base64_encode(bytes) ==
    [j \in 1 .. 4 * ((Len(bytes) + 2) \div 3) |->
        LET first == 3 * ((j - 1) \div 4)
            place == (j - 1) % 4
            packed == 65536 * ByteAt(bytes, first + 1) + 256 * ByteAt(bytes, first + 2)
                        + ByteAt(bytes, first + 3)
        IN  IF first + place <= Len(bytes) THEN (packed \div 64 ^ (3 - place)) % 64
            ELSE Padding]

\* Six bits more, and a byte off the front when there are eight.  Bits above
\* those that wait are never read again.
Packed(state, symbol) ==
    LET packed == (state.packed % 2 ^ state.bits) * 64 + symbol
        bits == state.bits + 6
    IN  IF bits < 8 THEN [state EXCEPT !.packed = packed, !.bits = bits]
        ELSE [packed |-> packed, bits |-> bits - 8,
              bytes |-> Append(state.bytes, packed \div 2 ^ (bits - 8))]

\* Padding and white space are skipped wherever they stand.
Symbols(text) == SelectSeq(text, LAMBDA s : s \notin {Padding, Space})
base64_decode(text) ==
    FoldLeft(Packed, [packed |-> 0, bits |-> 0, bytes |-> <<>>], Symbols(text)).bytes

floats_from_bytes(bytes) ==
    IF Len(bytes) % 4 # 0 THEN NoVector
    ELSE Vector([f \in 1 .. Len(bytes) \div 4 |-> SubSeq(bytes, 4 * f - 3, 4 * f)])

\* A value of a payload is an array of floats, some of which may be no numbers, a
\* base64 text, or neither.
parse_vector(value) ==
    CASE value.kind = "array" -> IF value.numbers THEN Vector(value.floats) ELSE NoVector
      [] value.kind = "text" -> IF Foreign \in {value.text[i] : i \in DOMAIN value.text}
                                THEN NoVector ELSE floats_from_bytes(base64_decode(value.text))
      [] value.kind = "other" -> NoVector

\* How a vector is told to a client that asked for a format.
client_value(format, floats) ==
    IF format = "float" THEN [kind |-> "array", numbers |-> TRUE, floats |-> floats]
    ELSE [kind |-> "text", text |-> base64_encode(FlattenSeq(floats))]

=============================================================================
