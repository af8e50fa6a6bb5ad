-------------------------------- MODULE MCEdge --------------------------------
(***************************************************************************)
(* Instances of Edge for TLC: tables, bodies and policies.  Before them,   *)
(* what the detectors of Scanners find, against what they are meant to     *)
(* find, over every text of a few characters: TLC evaluates the            *)
(* assumptions before a run starts.                                        *)
(***************************************************************************)
EXTENDS Edge

(***************************************************************************)
(* What the detectors of Scanners find, against what they are meant to     *)
(* find, over every text of a few characters.                              *)
(***************************************************************************)
TextsOver(alphabet, n) == BoundedSeq(alphabet, n)
Address == <<"b", "@", "c", ".", "d", "e">>
Key == <<"s", "k", "-", "a", "1">>
Token == <<"e", "y", "J", ".", "a", "1", ".", "b">>
Around == TextsOver({"1", " ", ",", "("}, 2)

\* A text starts or ends a word at its edge.
Apart(text) == text = <<>> \/ Last(text) \notin Alphanumeric

\* The spans of a text are apart and in order, and hold every letter, digit
\* and @ of it: nothing a value is made of is skipped.
ASSUME SpansCoverTheText ==
    \A text \in TextsOver({"a", "1", "@", ".", "-", "+"}, 5) :
      LET places == SpanPlaces(text) IN
      /\ \A i \in 1..Len(places) : /\ places[i][1] <= places[i][2]
                                   /\ i > 1 => places[i - 1][2] < places[i][1]
      /\ \A i \in 1..Len(text) :
           text[i] \in Alphanumeric \cup {"@"} =>
             \E p \in ToSet(places) : p[1] <= i /\ i <= p[2]

\* An address in a sentence is found unless a number is what comes next: then
\* the two are one run, and the run is no address.
ASSUME AddressFoundUnlessANumberFollows ==
    \A pre, post \in {t \in Around : Apart(t)} :
      LET text == pre \o Address \o post
          NumberFollows == \/ post # <<>> /\ Head(post) \in Digits
                           \/ /\ post # <<>> /\ Head(post) \in Separators
                              /\ digit_follows(post, 1)
      IN "email" \in pii(text) <=> ~NumberFollows

\* A prefixed key is found wherever it stands.
ASSUME KeyFoundAnywhere ==
    \A pre, post \in Around : "openai-style-key" \in secrets(pre \o Key \o post)

\* A token is found only where the text ends with it: after anything that
\* is no part of one it goes unseen.
ASSUME TokenFoundAtTheEndOnly ==
    \A pre, post \in Around :
      "jwt" \in secrets(pre \o Token \o post) <=> Within(post, Alphanumeric)

\* A card number with one digit wrong fails its checksum.
ASSUME LuhnCatchesOneWrongDigit ==
    \A card \in TextsOver(Digits, 4) : luhn(card) =>
      \A i \in 1..Len(card), d \in Digits \ {"0"} :
        d # card[i] => ~luhn([card EXCEPT ![i] = d])

\* Letters alone are never a blob unless they are hexadecimal.
ASSUME WordsAreNoBlobs ==
    \A text \in TextsOver({"a", "k", "s", "i"}, 4) :
      ~Within(text, Hex) => entropy_secret(text) = {}

\* A listed word fires as a word and not inside another; a listed phrase
\* fires anywhere.
ASSUME TermsFireAsWords ==
    \A pre, post \in TextsOver({"a", "1", " ", "."}, 2) :
      LET text == pre \o <<"b", "c">> \o post IN
      /\ <<" ", "b", "c">> \in keywords(text, {<<" ", "b", "c">>}) <=>
           Apart(pre) /\ (post = <<>> \/ Head(post) \notin Alphanumeric)
      /\ keywords(text, {<<"b", ".", "c">>, <<" ">>}) = {}
      /\ keywords(pre \o <<"b", ".", "c">> \o post, {<<"b", ".", "c">>}) # {}

SomeWords ==
    { [script |-> "Latin", letters |-> 2, of |-> {"en"}],
      [script |-> "Latin", letters |-> 2, of |-> {"en", "de"}],
      [script |-> "Latin", letters |-> 2, of |-> {}],
      [script |-> "Cyrillic", letters |-> 3, of |-> {}],
      [script |-> "Han", letters |-> 1, of |-> {}],
      [script |-> "Kana", letters |-> 1, of |-> {}],
      [script |-> "none", letters |-> 0, of |-> {}] }

\* While one foreign script is used, or the two of Japanese, the verdict
\* does not depend on the order of the words.
ASSUME OrderDoesNotMatter ==
    \A words \in TextsOver(SomeWords, 4) :
      LET scripts == {w.script : w \in ToSet(words)} IN
      "Cyrillic" \notin scripts \/ scripts \cap {"Han", "Kana"} = {} =>
        language(words) = language(Reverse(words))

\* A text whose words all belong to a wanted language is never reported, whatever
\* other languages they belong to.
ASSUME OwnWordsAreNoFinding ==
    \A words \in TextsOver({w \in SomeWords : "en" \in w.of}, 6) :
      language_findings(words, {"en"}) = {}

\* A script names the language only when half of all letters are foreign,
\* and two languages with the same evidence are no verdict.
ASSUME NoVerdictWithoutEvidence ==
    \A words \in TextsOver(SomeWords, 4) :
      /\ language(words) \in {"ru", "ja", "zh"} =>
           2 * Lettered(words, Foreign) >= Lettered(words, Foreign \cup {"Latin"})
      /\ (\A w \in ToSet(words) : w.of # {"en"}) =>
           language(words) \notin {"en", "de"}

-----------------------------------------------------------------------------
CONSTANTS k1, k2, chat, m, other, hi, secret, term, blank

Letters ==
    [w \in {hi, secret, term, blank} |->
       CASE w = hi -> <<"h", "i">> [] w = secret -> Key
         [] w = term -> <<"b", "c">> [] w = blank -> <<" ">>]

Symmetry == Permutations(Requests)

Never == [spelt |-> "never", at |-> 0]
Issued == [stored |-> "hash", hashed |-> TRUE, revoked |-> FALSE, off |-> FALSE,
           manages |-> TRUE, models |-> {}, expires |-> Never]
\* A row of the JS server, with an end.
Legacy == [Issued EXCEPT !.stored = "plain", !.hashed = FALSE,
                         !.expires = [spelt |-> "iso", at |-> 1]]

\* One key of the JS server, beside one yet to be issued; a revoked key,
\* beside one for another model.
TwoTables == { [k \in {k1, k2} |-> IF k = k1 THEN Legacy ELSE Absent],
               [k \in {k1, k2} |-> IF k = k1 THEN [Issued EXCEPT !.revoked = TRUE]
                                   ELSE [Issued EXCEPT !.models = {other}]] }

Secret(k) == [text |-> "secret", key |-> k]
SomeTokens == {NoToken, Secret(k1), Secret(k2)}

Ask(model, tools, stream, chunks) ==
    [verb |-> chat, model |-> model, tools |-> tools, stream |-> stream, chunks |-> chunks]

\* A text, a near one, the near one with tools, and one whose secret lies in
\* the chunk that crosses the scan limit.
SomeBodies == { Ask(m, FALSE, FALSE, <<<<hi>>>>),
                Ask(m, FALSE, FALSE, <<<<term>>>>),
                Ask(m, TRUE, FALSE, <<<<term>>>>),
                Ask(m, FALSE, FALSE, <<<<hi>>, <<secret, hi>>>>) }
NearPairs == {{<<hi>>, <<term>>}}

Reply(kind, words, usage) == [kind |-> kind, body |-> <<words>>, usage |-> usage]
SomeReplies == {Reply("json", <<secret>>, 1), Reply("error", <<hi>>, 0)}

\* Every check warns; then secrets are refused, and a blank term is listed.
Warns == [action |-> [c \in Checks |-> "warn"], terms |-> {term}, scan_response |-> TRUE]
OnePolicy == {Warns}
OnePatch == {[action |-> [secrets |-> "block"], terms |-> {term, blank}]}

=============================================================================
