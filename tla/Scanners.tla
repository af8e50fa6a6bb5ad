------------------------------- MODULE Scanners -------------------------------
(***************************************************************************)
(* The detectors of crates/heterion-router-gateway/src/guardrails.rs: what *)
(* makes a text hold a credential, a person's data or a listed term, and   *)
(* what language it is in.                                                 *)
(*                                                                         *)
(* A text is a sequence of characters and a character a string of one.     *)
(* The lengths that separate a credential from a word are CONSTANTS, so    *)
(* that the shapes fit into texts of a few characters.  Languages looks at *)
(* words instead of characters, see there.                                 *)
(***************************************************************************)
EXTENDS Integers, Sequences, SequencesExt, FiniteSets, FiniteSetsExt, Folds

CONSTANTS
    MIN_BLOB_LEN,       \* shortest blob the entropy rule looks at
    MIN_HEX_LEN,        \* shortest hexadecimal one
    MIN_SECRET_TAIL,    \* shortest tail of an "sk-" key, and JWT segment
    AWS_KEY_TAIL,       \* length of an AWS key id after its prefix
    CARD_DIGITS,        \* the digit counts of a card
    PHONE_DIGITS,       \* the digit counts of a phone number
    BlobBar, HexBar,    \* entropy bars, in thousandths of a bit
    TLD_LETTERS,        \* the lengths of a top-level domain
    MIN_SCRIPT_LETTERS, \* letters before a script names the language
    MIN_LATIN_TOKENS    \* words before stopwords may

ASSUME ScannersAssumption ==
    /\ {MIN_BLOB_LEN, MIN_HEX_LEN, MIN_SECRET_TAIL, AWS_KEY_TAIL} \subseteq Nat \ {0}
    /\ {BlobBar, HexBar} \subseteq Nat \ {0}
    /\ {MIN_SCRIPT_LETTERS, MIN_LATIN_TOKENS} \subseteq Nat \ {0}
    /\ CARD_DIGITS \cup PHONE_DIGITS \cup TLD_LETTERS \subseteq Nat \ {0}

Digits == {"0", "1", "2", "3", "4", "5", "6", "7", "8", "9"}
Lower == {"a", "b", "c", "d", "e", "f", "g", "h", "i", "j", "k", "l", "m",
          "n", "o", "p", "q", "r", "s", "t", "u", "v", "w", "x", "y", "z"}
Upper == {"A", "B", "C", "D", "E", "F", "G", "H", "I", "J", "K", "L", "M",
          "N", "O", "P", "Q", "R", "S", "T", "U", "V", "W", "X", "Y", "Z"}
Alphanumeric == Digits \cup Lower \cup Upper
Hex == Digits \cup {"a", "b", "c", "d", "e", "f", "A", "B", "C", "D", "E", "F"}
Separators == {" ", "-", "(", ")"}

From(text, i) == SubSeq(text, i, Len(text))
Holds(text, chars) == ToSet(text) \cap chars # {}
Within(text, chars) == ToSet(text) \subseteq chars
\* The places where a pattern occurs, as str::match_indices finds them.
Places(text, pattern) == {i \in 1..Len(text) : IsPrefix(pattern, From(text, i))}
\* How many characters at the start are of a kind.
RunLength(text, chars) == Max({n \in 0..Len(text) : Within(SubSeq(text, 1, n), chars)})

-----------------------------------------------------------------------------
(***************************************************************************)
(* Spans: the runs of characters a value could live in.                    *)
(***************************************************************************)
starts_span(text, i) ==
    \/ text[i] \in Alphanumeric \cup {"@"}
    \/ text[i] = "+" /\ i < Len(text) /\ text[i + 1] \in Digits

\* The first character after the separators is a digit.
digit_follows(text, i) ==
    \E j \in (i + 1)..Len(text) :
      text[j] \in Digits /\ \A k \in (i + 1)..(j - 1) : text[k] \in Separators

continues_span(text, i) ==
    \/ text[i] \in Alphanumeric \cup {"@"}
    \/ /\ text[i] \in {".", "_", "%", "+"}
       /\ i < Len(text) /\ text[i + 1] \in Alphanumeric \cup {"@"}
    \/ text[i] \in Separators /\ digit_follows(text, i)

\* Where the span that starts at i ends, before its last marks are dropped.
SpanEnd(text, i) ==
    Max({j \in i..Len(text) : \A k \in (i + 1)..j : continues_span(text, k)})

\* Sentence punctuation at the end is no part of a value; the first
\* character stays whatever it is.
Trimmed(text, first, last) ==
    Max({first} \cup {j \in first..last : text[j] \notin {".", ",", ";", ":", "!", "?"}})

\* The spans as pairs of places: from each start to its end, then on.
SpanPlaces(text) ==
    LET spansTo[n \in 0..Len(text)] ==
          IF n = 0 THEN [out |-> <<>>, next |-> 1]
          ELSE LET before == spansTo[n - 1] IN
               IF n < before.next \/ ~starts_span(text, n) THEN before
               ELSE [out |-> Append(before.out, <<n, Trimmed(text, n, SpanEnd(text, n))>>),
                     next |-> SpanEnd(text, n) + 1]
    IN spansTo[Len(text)].out

spans(text) == {SubSeq(text, p[1], p[2]) : p \in ToSet(SpanPlaces(text))}

-----------------------------------------------------------------------------
(***************************************************************************)
(* Credentials.  The entropy of a text of N characters in which c occurs   *)
(* n(c) times is log2 N less the mean of log2 n(c), in bits per character. *)
(* The logarithms are in thousandths, for texts of up to sixteen.          *)
(***************************************************************************)
Count(text, c) == Cardinality({i \in 1..Len(text) : text[i] = c})
Log2 == <<0, 1000, 1585, 2000, 2322, 2585, 2807, 3000,
          3170, 3322, 3459, 3585, 3700, 3807, 3907, 4000>>

shannon_entropy(text) ==
    LET N == Len(text)
        logs == FoldFunction(+, 0, [i \in 1..N |-> Log2[Count(text, text[i])]])
    IN IF N = 0 THEN 0 ELSE Log2[N] - logs \div N

\* A blob of letters and digits; a run of letters alone is never one.
entropy_secret(span) ==
    IF /\ Len(span) >= MIN_HEX_LEN /\ Within(span, Hex)
       /\ shannon_entropy(span) >= HexBar
    THEN {"hex-blob"}
    ELSE IF /\ Len(span) >= MIN_BLOB_LEN
            /\ Holds(span, Digits) /\ Holds(span, Lower \cup Upper)
            /\ shannon_entropy(span) >= BlobBar
         THEN {"high-entropy-blob"} ELSE {}

SECRET_PREFIXES == { [prefix |-> <<"s", "k", "-">>, kind |-> "openai-style-key"],
                     [prefix |-> <<"A", "K", "I", "A">>, kind |-> "aws-access-key-id"],
                     [prefix |-> <<"A", "S", "I", "A">>, kind |-> "aws-session-key-id"] }

\* The key that starts at i has a tail long enough, whatever follows it.
prefixed_secret(text, i, s) ==
    LET tail == From(text, i + Len(s.prefix)) IN
    IF s.kind = "openai-style-key"
    THEN RunLength(tail, Alphanumeric \cup {"-", "_"}) >= MIN_SECRET_TAIL
    ELSE RunLength(tail, Upper \cup Digits) >= AWS_KEY_TAIL

\* Three segments that reach to the end of the text, the first two long.
jwt_len(text) ==
    LET dots == {i \in 1..Len(text) : text[i] = "."}
        first == Min(dots)
        second == Max(dots)
    IN /\ Within(text, Alphanumeric \cup {".", "-", "_", "="})
       /\ Cardinality(dots) = 2
       /\ first - 1 >= MIN_SECRET_TAIL /\ second - first - 1 >= MIN_SECRET_TAIL
       /\ second < Len(text)

\* The kinds of credential in a text.
secrets(text) ==
    {"jwt" : i \in {j \in Places(text, <<"e", "y", "J">>) : jwt_len(From(text, j))}}
    \cup {s.kind : s \in {t \in SECRET_PREFIXES :
                           \E i \in Places(text, t.prefix) : prefixed_secret(text, i, t)}}
    \cup UNION {entropy_secret(span) : span \in spans(text)}

-----------------------------------------------------------------------------
(***************************************************************************)
(* A person's data.                                                        *)
(***************************************************************************)
DigitsOf(span) == SelectSeq(span, LAMBDA c : c \in Digits)
digits(span) == Len(DigitsOf(span))
Value(c) == CHOOSE v \in 0..9 : <<"0", "1", "2", "3", "4", "5", "6", "7", "8", "9">>[v + 1] = c

\* Every second digit from the right is doubled, and its digits added up.
luhn(span) ==
    LET ds == DigitsOf(span)
        weighed(i) == LET v == Value(ds[i])
                          doubled == IF 2 * v > 9 THEN 2 * v - 9 ELSE 2 * v
                      IN IF (Len(ds) - i) % 2 = 1 THEN doubled ELSE v
        sum == FoldFunction(+, 0, [i \in 1..Len(ds) |-> weighed(i)])
    IN sum # 0 /\ sum % 10 = 0

is_issuer_ish(span) == digits(span) > 0 /\ Head(DigitsOf(span)) \in {"3", "4", "5", "6"}

is_aws_key_id(span) ==
    /\ IsPrefix(<<"A", "K", "I", "A">>, span)
    /\ Len(span) = 4 + AWS_KEY_TAIL
    /\ Within(From(span, 5), Upper \cup Digits)

is_email(span) ==
    \E at, dot \in 1..Len(span) :
      LET local == SubSeq(span, 1, at - 1)
          host == SubSeq(span, at + 1, dot - 1)
          tld == From(span, dot + 1)
      IN /\ Places(span, <<"@">>) = {at} /\ at < dot
         /\ dot = Max(Places(span, <<".">>))
         /\ local # <<>> /\ Within(local, Alphanumeric \cup {".", "_", "%", "+", "-"})
         /\ host # <<>> /\ Within(host, Alphanumeric \cup {".", "-"})
         /\ Head(host) # "." /\ Last(host) # "."
         /\ Len(tld) \in TLD_LETTERS /\ Within(tld, Lower \cup Upper)

\* The most specific kind a span is of, or none.
pii_kind(span) ==
    CASE is_email(span) -> {"email"}
      [] ~is_email(span) /\ is_aws_key_id(span) -> {"aws-access-key-id"}
      [] OTHER ->
         IF digits(span) \in CARD_DIGITS /\ luhn(span) /\ is_issuer_ish(span)
         THEN {"credit-card"}
         ELSE IF digits(span) \in PHONE_DIGITS /\ Holds(span, Separators \cup {"+"})
              THEN {"phone"} ELSE {}

pii(text) == UNION {pii_kind(span) : span \in spans(text)}

-----------------------------------------------------------------------------
(***************************************************************************)
(* Listed terms.  A term of one word is looked for among the words, one    *)
(* with a separator anywhere.                                              *)
(***************************************************************************)
Words(text) ==
    {SubSeq(text, p[1], p[2]) : p \in
       {p \in (1..Len(text)) \X (1..Len(text)) :
          /\ p[1] <= p[2] /\ Within(SubSeq(text, p[1], p[2]), Alphanumeric)
          /\ p[1] > 1 => text[p[1] - 1] \notin Alphanumeric
          /\ p[2] < Len(text) => text[p[2] + 1] \notin Alphanumeric}}

trim(term) ==
    LET inked == {i \in 1..Len(term) : term[i] # " "} IN
    IF inked = {} THEN <<>> ELSE SubSeq(term, Min(inked), Max(inked))

\* The terms that fire; letter case is left out.
keywords(text, terms) ==
    {t \in terms :
       LET needle == trim(t) IN
       /\ needle # <<>>
       /\ IF Within(needle, Alphanumeric) THEN needle \in Words(text)
          ELSE Places(text, needle) # {}}

-----------------------------------------------------------------------------
(***************************************************************************)
(* Languages.  A word is a record: its script, "none" if it is a number,   *)
(* how many letters it has, and the languages whose stopwords it is among. *)
(* A stopword with a letter outside ASCII is never counted, so a word of   *)
(* which that is true is among none.                                       *)
(***************************************************************************)
Lettered(words, scripts) ==
    FoldFunction(+, 0, [i \in 1..Len(words) |->
                        IF words[i].script \in scripts THEN words[i].letters ELSE 0])

Foreign == {"Cyrillic", "Greek", "Arabic", "Hebrew", "Han", "Kana"}

\* The language of a script; the two of Japanese and Chinese go together.
CodeOf(script, kana) ==
    CASE script = "Cyrillic" -> "ru" [] script = "Greek" -> "el"
      [] script = "Arabic" -> "ar" [] script = "Hebrew" -> "he"
      [] script \in {"Han", "Kana"} -> IF kana THEN "ja" ELSE "zh"

\* When letters that are not Latin are half of all, the last of them names
\* the language.
script_language(words) ==
    LET letters == Lettered(words, Foreign \cup {"Latin"})
        foreign == SelectSeq(words, LAMBDA w : w.script \in Foreign)
        dominant_letters == Lettered(words, Foreign)
    IN IF letters < MIN_SCRIPT_LETTERS \/ 2 * dominant_letters < letters
       THEN "unknown"
       ELSE CodeOf(Last(foreign).script, Lettered(words, {"Kana"}) > 0)

\* The languages a text has stopwords of.
STOPWORDS(words) == UNION {words[i].of : i \in 1..Len(words)}

\* The language with most stopwords, if one has most and they are a fifth.
latin_language(words) ==
    LET hits(l) == Cardinality({i \in 1..Len(words) : l \in words[i].of})
        known == STOPWORDS(words)
        best == {l \in known : \A k \in known : hits(k) <= hits(l)}
    IN IF /\ Len(words) >= MIN_LATIN_TOKENS /\ Cardinality(best) = 1
          /\ \A l \in best : 5 * hits(l) >= Len(words)
       THEN CHOOSE l \in best : TRUE ELSE "unknown"

language(words) ==
    LET told == script_language(words) IN
    IF told # "unknown" THEN told ELSE latin_language(words)

\* What the check reports: a language that is known and not wanted.
language_findings(words, wanted) ==
    {l \in {language(words)} : wanted # {} /\ l # "unknown" /\ l \notin wanted}

=============================================================================
