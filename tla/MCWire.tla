-------------------------------- MODULE MCWire --------------------------------
(***************************************************************************)
(* Instances of Wire for TLC: line ends, and what an upstream sends.       *)
(***************************************************************************)
EXTENDS Wire

AllStyles == {<<LF>>, <<CR, LF>>, <<CR>>}

x == <<"x", " ">>
y == <<"y", " ">>

\* A word, two of them, two lines, and half a word; a named event; a comment;
\* and one beyond the limit.
SomeFrames ==
    { <<<<Data, Space>> \o x>>, <<<<Data>> \o x \o y>>, <<<<Data, "x">>, <<Data>> \o y>>,
      <<<<Data, "y">>>>, <<<<Event, Space, "r">>, <<Data>> \o x>>, <<<<Comment>>>>,
      <<<<Data>> \o x \o x \o x \o x>> }

\* The halves of a word, counted apart, may be a loop where the whole is one
\* word; and what is kept of a text with two loops may end in the first.
Times(n, word) == [i \in 1 .. n |-> word]

ASSUME HalvesAreCounted ==
    LET halves == Times(4, <<"y">>)
    IN /\ FoldLeft(push, fresh, halves).triggered
       /\ ~analyze(split_whitespace(FlattenSeq(halves)))

ASSUME KeptMayBeALoop ==
    LET loop == Times(4, <<"x">>)
    IN trim(loop \o Times(5, <<"y">>)) = loop /\ analyze(loop)

=============================================================================
