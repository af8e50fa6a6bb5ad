------------------------------ MODULE Repetition ------------------------------
(***************************************************************************)
(* The repetition guard, crates/heterion-router-gateway/src/               *)
(* repetition_guard.rs: when is an answer a loop, and where does it begin. *)
(* A text is a sequence of letters and blanks, a word a sequence of        *)
(* letters.                                                                *)
(***************************************************************************)
EXTENDS Integers, Sequences, SequencesExt, FiniteSets, FiniteSetsExt

CONSTANTS
    NGRAM,              \* the words that are compared at once
    WINDOW_WORDS,       \* how many words at the end are looked at
    REPEAT_PERCENT,     \* REPEAT_RATIO
    MIN_REPEATS,
    MAX_DISTINCT_WORDS,
    LARGE_ANSWER_WORDS

ASSUME GuardAssumption ==
    /\ {NGRAM, WINDOW_WORDS, REPEAT_PERCENT, MIN_REPEATS} \subseteq Nat \ {0}
    /\ MAX_DISTINCT_WORDS \in Nat /\ LARGE_ANSWER_WORDS \in Nat
    /\ NGRAM <= WINDOW_WORDS

Blanks == {" ", "\n"}

\* The maximal runs of letters, in order.
split_whitespace(text) ==
    LET Letter(i) == i \in DOMAIN text /\ text[i] \notin Blanks
        starts == {i \in DOMAIN text : Letter(i) /\ ~Letter(i - 1)}
        End(i) == Min({j \in i .. Len(text) : ~Letter(j + 1)})
        Nth(n) == CHOOSE i \in starts : Cardinality({j \in starts : j <= i}) = n
    IN [n \in 1 .. Cardinality(starts) |-> SubSeq(text, Nth(n), End(Nth(n)))]

tail_window(words) ==
    IF Len(words) > WINDOW_WORDS
    THEN SubSeq(words, Len(words) - WINDOW_WORDS + 1, Len(words)) ELSE words

\* Where an n-gram of these words begins, and the n-gram there.
Places(words) == 1 .. Len(words) - NGRAM + 1
Gram(words, i) == SubSeq(words, i, i + NGRAM - 1)
Occurrences(words, i) == {j \in Places(words) : Gram(words, j) = Gram(words, i)}

\* The n-grams that have occurred before, how often the commonest occurs, and
\* how many different words there are.
window_repetition(words) ==
    [repeats  |-> Cardinality({i \in Places(words) :
                                 \E j \in Places(words) : j < i /\ Gram(words, j) = Gram(words, i)}),
     total    |-> Cardinality(Places(words)),
     best     |-> Max({0} \union {Cardinality(Occurrences(words, i)) : i \in Places(words)}),
     distinct |-> Cardinality(ToSet(words))]

\* Two families: few words for ever, or a list in an answer that is too long.
is_loop(found, total_words) ==
    /\ found.total > 0 /\ found.repeats * 100 >= REPEAT_PERCENT * found.total
    /\ found.best >= MIN_REPEATS
    /\ found.distinct <= MAX_DISTINCT_WORDS \/ total_words >= LARGE_ANSWER_WORDS

\* Is the end of this text a loop?
analyze(words) ==
    words # <<>> /\ is_loop(window_repetition(tail_window(words)), Len(words))

\* The n-gram that is first to reach the highest count, and the words before
\* its first occurrence.
loop_start(words) ==
    LET UpTo(i) == Cardinality({j \in Occurrences(words, i) : j <= i})
        best == Max({0} \union {UpTo(i) : i \in Places(words)})
    IN IF best = 0 THEN 0
       ELSE Min(Occurrences(words, Min({i \in Places(words) : UpTo(i) = best}))) - 1

\* What is kept of a whole answer.
trim(words) == IF analyze(words) THEN SubSeq(words, 1, loop_start(words)) ELSE words

\* Content and reasoning are cut each for itself, but only an answer whose
\* content was cut is said to be cut.
apply_to_response(answer) ==
    [words  |-> [kind \in DOMAIN answer.words |-> trim(answer.words[kind])],
     finish |-> IF analyze(answer.words["content"]) THEN "length" ELSE answer.finish]

-----------------------------------------------------------------------------
(* A guard that is fed a stream. *)

fresh == [words |-> <<>>, triggered |-> FALSE]

\* Mutated form: the length is that of the window.
push_window_long(guard, text) ==
    LET words == guard.words \o split_whitespace(text)
        window == tail_window(words)
    IN IF guard.triggered THEN guard
       ELSE [words |-> words,
             triggered |-> /\ Len(words) >= NGRAM
                           /\ is_loop(window_repetition(window), Len(window))]

\* The words of a piece are counted as they are, also if the next one goes on
\* with the last of them.
push(guard, text) ==
    LET words == guard.words \o split_whitespace(text)
    IN IF guard.triggered THEN guard
       ELSE [words |-> words,
             triggered |-> /\ Len(words) >= NGRAM
                           /\ is_loop(window_repetition(tail_window(words)), Len(words))]

=============================================================================
