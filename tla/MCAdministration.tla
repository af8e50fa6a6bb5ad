--------------------------- MODULE MCAdministration ---------------------------
(***************************************************************************)
(* A small instance: an OpenAI provider with a key, whose second entry has *)
(* the id another one has as alias, a keyless one, Gemini, and one nobody  *)
(* speaks to; three connections, one of them stored under an alias.  TLC   *)
(* evaluates the assumptions on it and on the spelling of vectors first.   *)
(***************************************************************************)
EXTENDS Administration

MCRegistry == <<
    [id |-> "deep", alias |-> "ds", format |-> "openai", executor |-> "default",
     keyless |-> FALSE, url |-> TRUE, models |-> {<<"chat">>, <<"maker", "chat">>}],
    [id |-> "free", alias |-> "gem", format |-> "openai", executor |-> "default",
     keyless |-> TRUE, url |-> TRUE, models |-> {<<"chat">>}],
    [id |-> "gem", alias |-> "g", format |-> "gemini", executor |-> "default",
     keyless |-> FALSE, url |-> TRUE, models |-> {<<"pro">>}],
    [id |-> "odd", alias |-> Unnamed, format |-> "other", executor |-> "default",
     keyless |-> TRUE, url |-> TRUE, models |-> {<<"chat">>}]>>

Row(provider, active, usable) ==
    [provider |-> provider, priority |-> 1, active |-> active, usable |-> usable]

MCTables == {
    <<Row("deep", TRUE, TRUE), Row("deep", TRUE, TRUE), Row("gem", TRUE, TRUE)>>,
    <<Row("deep", TRUE, FALSE), Row("ds", TRUE, TRUE), Row("free", FALSE, TRUE)>>,
    <<Row("free", TRUE, FALSE), Row("deep", FALSE, TRUE), Row("odd", TRUE, TRUE)>>}

Item(id, provider, model, weight) ==
    [id |-> <<id>>, kind |-> "model", provider |-> provider, ref |-> model,
     weight |-> weight, label |-> id]

Bare(model) == [id |-> NoId, kind |-> "none", provider |-> Unnamed, ref |-> model,
                weight |-> 0, label |-> Unnamed]

Other(id) == [id |-> <<id>>, kind |-> "group", provider |-> Unnamed, ref |-> <<>>,
              weight |-> 0, label |-> id]

Data(hidden, models) ==
    [readable |-> TRUE, hidden |-> hidden, strategy |-> "priority", models |-> models]

Fast == <<Item("a", "deep", <<"deep", "maker", "chat">>, 50),
          Item("b", "gem", <<"gem", "pro">>, 10), Other("c")>>
Mixed == <<Bare(<<"ds", "chat">>), Item("a", "odd", <<"odd", "chat">>, 50),
           Bare(<<"chat">>), Bare(<<"gem", "pro">>), Other("a")>>

MCComboTables == {
    <<[name |-> <<"fast">>, active |-> TRUE, data |-> Data(FALSE, Fast)],
      [name |-> <<"deep", "chat">>, active |-> TRUE, data |-> Data(FALSE, Mixed)]>>,
    <<[name |-> <<"fast">>, active |-> FALSE, data |-> Data(TRUE, Mixed)],
      [name |-> <<"slow">>, active |-> TRUE,
       data |-> [readable |-> FALSE, hidden |-> FALSE, strategy |-> "priority",
                 models |-> <<>>]]>>}

New(id, provider, model, weight) ==
    [id |-> id, provider |-> provider, model |-> model, weight |-> weight]

MCComboPatches == {
    [name |-> <<"slow">>], [name |-> <<"gem", "pro">>],
    [active |-> FALSE], [active |-> TRUE, hidden |-> FALSE], [hidden |-> TRUE],
    [strategy |-> "fastest"], [models |-> <<>>],
    [models |-> <<New(NoId, "deep", <<"chat">>, 101)>>],
    [models |-> <<New(<<"b">>, "ds", <<"maker", "chat">>, 0), New(NoId, "odd", <<"chat">>, 50),
                  New(<<"b">>, "free", <<"chat">>, 100)>>],
    [models |-> <<New(<<"c">>, "deep", <<"chat">>, 50)>>, name |-> <<"slow">>]}

MCAsked == {<<"chat">>, <<"ds", "chat">>, <<"gem", "pro">>, <<"free", "chat">>,
            <<"odd", "chat">>, <<"none", "chat">>}

Entry(index, vector) == [index |-> index, vector |-> vector]

\* Two vectors in either order, with any indexes, and answers to be refused.
MCPayloads ==
    {[refused |-> FALSE, wide |-> TRUE, data |-> <<Entry(i, v), Entry(j, 3 - v)>>] :
        i \in {0, 1, Unplaced}, j \in {0, 1, Unplaced}, v \in 1 .. 2}
    \union {[refused |-> TRUE, wide |-> TRUE, data |-> <<>>],
            [refused |-> FALSE, wide |-> FALSE, data |-> <<Entry(0, 1), Entry(1, 2)>>],
            [refused |-> FALSE, wide |-> TRUE, data |-> <<Entry(1, 2)>>],
            [refused |-> FALSE, wide |-> TRUE, data |-> <<Entry(0, 1), Entry(1, 2), Entry(2, 2)>>]}

MCEnvironments == {{}, {Compatible}}

\* Every connection a backend was built with is told servable, and no backend
\* has more connections than the overview counts active (admin.rs:54-90, 139-196).
ASSUME PooledConnectionsAreServable ==
    \A table \in MCTables, set \in MCEnvironments :
      LET built == select_backend(table, set)
          shown == connections_shown(table, DOMAIN built)
          counts == overview(table, <<>>, DOMAIN built, 0)
      IN \A b \in DOMAIN built :
           /\ \A i \in DOMAIN built[b] :
                shown[built[b][i]].servable /\ shown[built[b][i]].row.active
           /\ Len(built[b]) <= counts.connections_active
           /\ b \in counts.backends

\* A connection stored under an alias is told servable, though no name is
\* routed to the backend that was built of it (admin.rs:147-165, routing.rs:304-323).
ASSUME AnAliasRowIsServableInNameOnly ==
    \E table \in MCTables, set \in MCEnvironments :
      LET built == select_backend(table, set) IN
      \E c \in DOMAIN table :
        /\ connections_shown(table, DOMAIN built)[c].servable
        /\ \E b \in DOMAIN built : c \in {built[b][i] : i \in DOMAIN built[b]}
        /\ \A name \in MCAsked, isGrok \in BOOLEAN :
             LET steps == resolve(name, isGrok, <<>>, DOMAIN built) IN
             \A i \in DOMAIN steps : c \notin
               {built[steps[i].backend][n] : n \in DOMAIN built[steps[i].backend]}

\* The list of connections has no two of a provider in the wrong order, and
\* an inactive one never stands above an active one (repos.rs:897-903).
ASSUME ListedInAnOrder ==
    \A table \in MCTables : \A c, d, e \in DOMAIN table :
      /\ ~(ListedBefore(table[c], table[d]) /\ ListedBefore(table[d], table[c]))
      /\ ListedBefore(table[c], table[d]) /\ ListedBefore(table[d], table[e])
           => ListedBefore(table[c], table[e])

-----------------------------------------------------------------------------
(***************************************************************************)
(* Vectors over short vectors and texts.                                   *)
(***************************************************************************)
SomeFloats == {<<0, 0, 128, 63>>, <<255, 254, 1, 191>>, <<252, 0, 63, 3>>}
SomeVectors == UNION {[1..n -> SomeFloats] : n \in 0..3}

\* A vector that is told in either format is the same vector to a client, or to
\* a gateway behind this one, that reads it as this gateway does, with its
\* padding or without, and however its lines are broken
\* (embeddings.rs:439-462, 651-706).
ASSUME VectorsSurviveTheWire ==
    \A v \in SomeVectors :
      /\ parse_vector(client_value("float", v)) = Vector(v)
      /\ LET spelling == client_value("base64", v) IN
         /\ Len(spelling.text) % 4 = 0
         /\ parse_vector(spelling) = Vector(v)
         /\ parse_vector([spelling EXCEPT !.text = Symbols(@)]) = Vector(v)
         /\ \A i \in 0..Len(spelling.text) :
              parse_vector([spelling EXCEPT !.text = SubSeq(@, 1, i) \o <<Space>>
                                                   \o SubSeq(@, i + 1, Len(@))]) = Vector(v)

\* A text that lost a few of its symbols is refused, unless all that is left is
\* whole floats: then it is read as a shorter vector.
ASSUME ACutTextIsRefusedOrShorter ==
    \A v \in SomeVectors : \A lost \in 1..6 :
      LET symbols == Symbols(base64_encode(FlattenSeq(v)))
          read == parse_vector([kind |-> "text",
                                text |-> SubSeq(symbols, 1, Len(symbols) - lost)])
      IN lost <= Len(symbols) =>
           \/ read = NoVector
           \/ Len(read.floats) < Len(v) /\ IsPrefix(read.floats, v)

\* What is neither numbers nor base64 is refused.
ASSUME OthersAreRefused ==
    /\ parse_vector([kind |-> "other"]) = NoVector
    /\ parse_vector([kind |-> "text", text |-> <<0, Foreign>>]) = NoVector
    /\ parse_vector([kind |-> "array", numbers |-> FALSE, floats |-> <<>>]) = NoVector

=============================================================================
