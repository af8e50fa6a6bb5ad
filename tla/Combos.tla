-------------------------------- MODULE Combos --------------------------------
(***************************************************************************)
(* What a gateway can serve: the registry of providers, the rows of        *)
(* provider_connections and the backends that are built of both when the   *)
(* process starts; and combos: how a row is parsed and planned, what the   *)
(* dashboard is shown of it, and what a PATCH makes of it.                 *)
(* crates/heterion-router-providers/src/registry.rs, gw/combos.rs,         *)
(* gw/routing.rs, gw/admin.rs, gw/main.rs, gw/credentials.rs,              *)
(* crates/heterion-router-db/src/repos.rs.                                 *)
(* gw/ is crates/heterion-router-gateway/src/.                             *)
(*                                                                         *)
(* The id of a connection is a number, for `id ASC`.  Whether a row's      *)
(* secret can be used is one bit of it; CredentialPool has the reasons.    *)
(* A backend is the pool of connections it was built with.                 *)
(*                                                                         *)
(* A name or a model is the sequence of the segments its slashes separate. *)
(* The id of an entry is a tuple: one of its own, one derived from where   *)
(* the entry stands, or another one with a number behind it.  `label` is   *)
(* whatever else the dashboard keeps with an entry.  Slugs that make two   *)
(* names one, and blanks around a name, are left out.                      *)
(***************************************************************************)
EXTENDS Naturals, Sequences, FiniteSets, SequencesExt

-----------------------------------------------------------------------------
(* The catalogue *)

CONSTANT Registry   \* the entries of registry.json, in its order

Unnamed == ""

\* An entry has an id, and models with names.
ProviderEntry ==
    [id : STRING \ {Unnamed}, alias : STRING, format : STRING, executor : STRING,
     keyless : BOOLEAN, url : BOOLEAN, models : SUBSET (Seq(STRING) \ {<<>>})]

\* No two entries have one id.
ASSUME RegistryAssumption ==
    /\ Registry \in Seq(ProviderEntry)
    /\ \A i, j \in DOMAIN Registry : Registry[i].id = Registry[j].id => i = j

NoEntry == [id |-> Unnamed, alias |-> Unnamed, format |-> "none", executor |-> "default",
            keyless |-> FALSE, url |-> FALSE, models |-> {}]

\* Where an entry is found: under its id, or as the first with that alias.
by_id ==
    LET Named(name)   == {i \in DOMAIN Registry : Registry[i].id = name}
        Aliased(name) == {i \in DOMAIN Registry : Registry[i].alias = name}
        names == UNION {{Registry[i].id, Registry[i].alias} : i \in DOMAIN Registry}
    IN  [name \in names \ {Unnamed} |->
            Min(IF Named(name) # {} THEN Named(name) ELSE Aliased(name))]

get(provider) == IF provider \in DOMAIN by_id THEN Registry[by_id[provider]] ELSE NoEntry

\* Unnamed when the registry does not know the provider.
canonical_id(provider) == get(provider).id

-----------------------------------------------------------------------------
(* The connections *)

\* The members of a set, one after the other as the pairs say.
Sorted(set, pairs) ==
    CHOOSE seq \in [1 .. Cardinality(set) -> set] :
        \A i, j \in DOMAIN seq : i < j => <<seq[i], seq[j]>> \in pairs

\* ORDER BY priority DESC, id ASC
RankedBefore(table, ids) ==
    {pair \in ids \X ids :
        LET before == table[pair[1]].priority
            after  == table[pair[2]].priority
        IN  before > after \/ (before = after /\ pair[1] < pair[2])}

Ranked(table, ids) == Sorted(ids, RankedBefore(table, ids))

Active(table, provider) ==
    {c \in DOMAIN table : table[c].active /\ table[c].provider = provider}

load_credentials(table, provider) ==
    Ranked(table, {c \in Active(table, provider) : table[c].usable})

-----------------------------------------------------------------------------
(* The backends *)

Grok == "grok-cli"
Compatible == "openai-compatible"

\* The formats there is an executor for.
Spoken(entry) ==
    \/ entry.format \in {"gemini", "openai-responses", "claude", "openai"}
    \/ entry.executor = "exa"

\* Gemini's executor cannot do without a key.
Keyless(entry) == entry.keyless /\ entry.format # "gemini"

Servable(table, provider) ==
    LET entry == get(provider)
    IN  /\ entry.url /\ Spoken(entry)
        /\ load_credentials(table, provider) # <<>> \/ Keyless(entry)

\* Backends are keyed by what the rows call their provider.  The echo and the
\* shared endpoint come from the environment, and stand before rows of their name.
select_backend(table, env) ==
    LET providers == {table[c].provider : c \in {d \in DOMAIN table : table[d].active}}
        own  == {p \in providers \ env : Servable(table, p)}
        grok == IF load_credentials(table, Grok) = <<>> THEN {} ELSE {Grok}
    IN  [b \in env \union own \union grok |->
            IF b \in env THEN <<>> ELSE load_credentials(table, b)]

\* The route rules: grok's models to grok, and all others to what is left.
route(grokModel, backends) ==
    IF grokModel /\ Grok \in backends THEN <<Grok>>
    ELSE SelectSeq(<<Compatible, "echo">>, LAMBDA b : b \in backends)

-----------------------------------------------------------------------------
(* Combos *)

NoId == <<>>

\* "provider/model"; a bare model has no provider.
split_model_ref(ref) ==
    IF Len(ref) > 1 THEN [provider |-> Head(ref), model |-> Tail(ref)]
    ELSE [provider |-> Unnamed, model |-> ref]

IsModel(item) == item.kind \in {"model", "none"}

EntryOf(item) ==
    LET split == split_model_ref(item.ref)
    IN  [id       |-> item.id,
         provider |-> IF item.provider = Unnamed THEN split.provider ELSE item.provider,
         model    |-> split.model,
         weight   |-> item.weight]

\* The entries of a combo that can be used, in order.
parse_combo_rich(data) ==
    LET items == IF data.readable THEN SelectSeq(data.models, IsModel) ELSE <<>>
        entries == [i \in DOMAIN items |-> EntryOf(items[i])]
    IN  SelectSeq(entries, LAMBDA e : e.provider # Unnamed /\ e.model # <<>>)

\* The backend an entry is served by, or Unnamed.
dispatch_backend(entry, available) ==
    LET known == get(entry.provider)
        provider == IF known = NoEntry THEN entry.provider ELSE known.id
    IN  IF provider \in available THEN provider
        ELSE IF known.format = "openai" /\ Compatible \in available THEN Compatible
        ELSE Unnamed

\* Mutated form: an entry that is not served ends the plan.
plan_steps_to_the_gap(data, available) ==
    LET entries == parse_combo_rich(data)
        gaps == {i \in DOMAIN entries : dispatch_backend(entries[i], available) = Unnamed}
        last == IF gaps = {} THEN Len(entries) ELSE (CHOOSE i \in gaps : \A j \in gaps : i <= j) - 1
    IN  [i \in 1 .. last |->
            [backend |-> dispatch_backend(entries[i], available), model |-> entries[i].model]]

\* Those of a list of steps that a backend serves.
Served(steps) == SelectSeq(steps, LAMBDA s : s.backend # Unnamed)

plan_steps(data, available) ==
    LET entries == parse_combo_rich(data)
    IN  Served([i \in DOMAIN entries |->
            [backend |-> dispatch_backend(entries[i], available), model |-> entries[i].model]])

\* The combos that may route, by name.
load_combos(combos, name) ==
    {c \in DOMAIN combos : combos[c].active /\ combos[c].name = name}

prefix_plan(name, isGrok, available) ==
    LET chain == route(isGrok, available)
    IN  [i \in DOMAIN chain |-> [backend |-> chain[i], model |-> name]]

\* Is the name a provider's, whose backend is running?
DirectProvider(name, available) ==
    IF Len(name) < 2 THEN Unnamed
    ELSE LET known == canonical_id(Head(name))
             provider == IF known = Unnamed THEN Head(name) ELSE known
         IN  IF provider \in available THEN provider ELSE Unnamed

\* `provider/model`, then a combo, then the rules; a combo none of whose entries
\* is served counts as no combo.
resolve(name, isGrok, combos, available) ==
    LET direct == DirectProvider(name, available)
        rows   == load_combos(combos, name)
        steps  == IF rows = {} THEN <<>>
                  ELSE plan_steps(combos[CHOOSE c \in rows : TRUE].data, available)
    IN  IF direct # Unnamed THEN <<[backend |-> direct, model |-> Tail(name)]>>
        ELSE IF steps # <<>> THEN steps
        ELSE prefix_plan(name, isGrok, available)

-----------------------------------------------------------------------------
(* The dashboard *)

\* GET /api/combos: the entries of a row, each with its backend.
Shown(row, available) ==
    LET entries == parse_combo_rich(row.data)
    IN  [i \in DOMAIN entries |->
            [entry |-> entries[i], backend |-> dispatch_backend(entries[i], available)]]

\* GET /api/connections: active rows first, then by provider; of two that are
\* equal in both, the one with the higher priority.  Servable is a row whose
\* provider is a running backend, or the alias of one.
ServableNames(running) ==
    running \union {Registry[i].alias : i \in {j \in DOMAIN Registry : Registry[j].id \in running}}

ListedBefore(c, d) ==
    \/ c.active /\ ~d.active
    \/ c.active = d.active /\ c.provider = d.provider /\ c.priority > d.priority

connections_shown(table, running) ==
    [c \in DOMAIN table |->
        [row |-> table[c],
         servable |-> table[c].provider \in ServableNames(running) \ {Unnamed}]]

\* GET /api/overview: what runs, and how many rows there are.
overview(table, combos, running, keys) ==
    [backends |-> running,
     combos |-> Cardinality({c \in DOMAIN combos : combos[c].active}),
     connections_active |-> Cardinality({c \in DOMAIN table : table[c].active}),
     connections_total |-> Cardinality(DOMAIN table), api_keys |-> keys]

\* An id that is not taken yet.
Distinct(id, taken) ==
    IF id \notin taken THEN id
    ELSE LET free == {n \in 2 .. Cardinality(taken) + 2 : <<id, n>> \notin taken}
         IN  <<id, CHOOSE n \in free : \A k \in free : n <= k>>

\* What is kept of the previous item with that id.
Carried(id, previous) ==
    LET same == SelectSeq(previous, LAMBDA item : item.id = id)
    IN  IF same # <<>> /\ IsModel(Head(same)) THEN Head(same).label ELSE Unnamed

\* Mutated form: a model that names a maker is not given its provider again.
ref_bare(spec) == IF Len(spec.model) > 1 THEN spec.model ELSE <<spec.provider>> \o spec.model

\* A model's own slashes are kept behind its provider's.
ref(spec) == <<spec.provider>> \o spec.model

Rendered(name, specs, previous, out, i) ==
    LET spec == specs[i]
        base == IF spec.id = NoId THEN <<name, i, spec.provider, spec.model>> ELSE spec.id
        id   == Distinct(base, {out[j].id : j \in DOMAIN out})
    IN  Append(out, [id |-> id, kind |-> "model", provider |-> spec.provider,
                     ref |-> ref(spec), weight |-> spec.weight,
                     label |-> Carried(id, previous)])

\* The models array of a combo that is rewritten: items of another kind stay, at
\* the end, unless an entry has their id now.
render_model_items(name, specs, previous) ==
    LET models == FoldLeft(LAMBDA out, i : Rendered(name, specs, previous, out, i),
                           <<>>, [i \in DOMAIN specs |-> i])
        taken  == {models[i].id : i \in DOMAIN models}
    IN  models \o SelectSeq(previous, LAMBDA item : ~IsModel(item) /\ item.id \notin taken)

NoData == [readable |-> TRUE, hidden |-> FALSE, strategy |-> "priority", models |-> <<>>]

Given(patch, field, kept) == IF field \in DOMAIN patch THEN patch[field] ELSE kept

\* What a PATCH leaves of a row; data that cannot be read is begun anew.
update_combo_meta(row, patch) ==
    LET data == IF row.data.readable THEN row.data ELSE NoData
        name == Given(patch, "name", row.name)
        models == IF "models" \in DOMAIN patch
                  THEN render_model_items(name, patch.models, data.models) ELSE data.models
    IN  [name   |-> name,
         active |-> Given(patch, "active", row.active),
         data   |-> [readable |-> TRUE, hidden |-> Given(patch, "hidden", data.hidden),
                     strategy |-> Given(patch, "strategy", data.strategy), models |-> models]]

\* A body that is refused before the row is looked for.  `active` alone counts as
\* nothing to update.
Refused(patch) ==
    \/ "strategy" \in DOMAIN patch /\ patch.strategy \notin {"priority", "auto"}
    \/ "models" \in DOMAIN patch /\
          \/ patch.models = <<>>
          \/ \E i \in DOMAIN patch.models : patch.models[i].weight \notin 0 .. 100
    \/ DOMAIN patch \subseteq {"active"}

\* `name` is UNIQUE, archived rows included.
NameTaken(combos, c, patch) ==
    "name" \in DOMAIN patch /\ \E d \in DOMAIN combos \ {c} : combos[d].name = patch.name

=============================================================================
