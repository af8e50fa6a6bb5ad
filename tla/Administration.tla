---------------------------- MODULE Administration ----------------------------
(***************************************************************************)
(* A running gateway and its dashboard: connections and combos are edited  *)
(* under it, it is restarted, and embeddings are asked of it meanwhile.    *)
(* gw/admin.rs, gw/restart.rs, gw/embeddings.rs.                           *)
(* gw/ is crates/heterion-router-gateway/src/.                             *)
(*                                                                         *)
(* Chat is served by the backends of the last start, combos and embeddings *)
(* are read from the tables at each request.  Every PATCH holds the one    *)
(* database lock from its read to its write.                               *)
(***************************************************************************)
EXTENDS Embeddings

CONSTANTS
    Tables,          \* the connections there may be at first
    ComboTables,     \* and the combos
    Environments,    \* which backends the environment configures
    ComboPatches,    \* bodies of PATCH /api/combos/:id
    Priorities,      \* priorities a PATCH may set
    Asked,           \* models an embedding is asked of
    Payloads,        \* what an upstream may answer
    Inputs,          \* how many inputs an embedding request has
    MaxPatches       \* bound: edits in a behaviour

\* The columns of a row are of their types.
ASSUME TablesAssumption ==
    /\ Priorities \subseteq Int
    /\ \A table \in Tables :
          table \in Seq([provider : STRING, priority : Int, active : BOOLEAN, usable : BOOLEAN])

\* `name` is UNIQUE.
ASSUME CombosAssumption ==
    \A table \in ComboTables :
        \A c, d \in DOMAIN table : table[c].name = table[d].name => c = d

\* An answer is a list of vectors, some of which have an index, or is refused.
ASSUME PayloadsAssumption ==
    \A payload \in Payloads :
        payload \in [refused : BOOLEAN, wide : BOOLEAN,
                     data : Seq([index : Nat \union {Unplaced}, vector : Nat])]

VARIABLES
    connections,     \* provider_connections
    combos,          \* combos
    env,             \* the environment of the process
    running,         \* the backends, as the last start built them
    told,            \* has the dashboard been told, since then, to restart?
    restarting,      \* has a restart been promised?
    call,            \* the embedding request in flight, or the last one answered
    patches          \* edits so far

administrationVars == <<connections, combos, env, running, told, restarting, call, patches>>

NoCall == [stage |-> "none"]

AdministrationInit ==
    /\ connections \in Tables /\ combos \in ComboTables /\ env \in Environments
    /\ running = select_backend(connections, env)
    /\ told = FALSE /\ restarting = FALSE /\ call = NoCall /\ patches = 0

Edits == patches < MaxPatches /\ patches' = patches + 1

-----------------------------------------------------------------------------
(* PATCH /api/connections/:id *)

update_connection_meta(c, patch) ==
    [connections EXCEPT ![c].active = Given(patch, "active", @),
                        ![c].priority = Given(patch, "priority", @)]

\* Mutated form: the row is looked at after it was written.
restart_required_late(before, after, c) == after[c].active # after[c].active

restart_required(before, after, c) == before[c].active # after[c].active

\* A body with no field is a 400 and an unknown id a 404; neither changes anything.
PatchConnection(c, patch) ==
    /\ Edits
    /\ connections' = update_connection_meta(c, patch)
    /\ told' = (told \/ restart_required(connections, connections', c))
    /\ UNCHANGED <<combos, env, running, restarting, call>>

(* PATCH /api/combos/:id *)

PatchCombo(c, patch) ==
    /\ ~Refused(patch) /\ ~NameTaken(combos, c, patch)
    /\ Edits
    /\ combos' = [combos EXCEPT ![c] = update_combo_meta(@, patch)]
    /\ UNCHANGED <<connections, env, running, told, restarting, call>>

(* POST /api/restart: the promise, and two seconds later the end of the process *)

RestartService ==
    /\ ~restarting /\ restarting' = TRUE
    /\ UNCHANGED <<connections, combos, env, running, told, call, patches>>

\* launchd starts the same binary again; the calls in flight are lost, without a row.
Kickstart ==
    /\ restarting /\ restarting' = FALSE
    /\ running' = select_backend(connections, env)
    /\ told' = FALSE
    /\ call' = NoCall
    /\ UNCHANGED <<connections, combos, env, patches>>

-----------------------------------------------------------------------------
(* POST /v1/embeddings *)

Embed(model, dimensions) ==
    LET target == resolve_target(connections, model)
    IN  /\ call.stage # "sent" /\ target # NoTarget
        /\ call' = [stage |-> "sent", target |-> target, dimensions |-> dimensions]
        /\ UNCHANGED <<connections, combos, env, running, told, restarting, patches>>

\* Mutated form: the row names the credential the table has when it is written.
booked_now(target) == [target EXCEPT !.connection = credential(connections, target.provider)]

\* The row names what the request was resolved to.
booked(target) == target

\* The answer, or the refusal, and the usage row; a key that must not be logged
\* has none.
Answer(payload, logged) ==
    LET vectors == parse_response(payload, Inputs, call.dimensions)
    IN  /\ call.stage = "sent"
        /\ call' = [stage |-> "answered", payload |-> payload, vectors |-> vectors,
                    sent |-> call.target, logged |-> logged,
                    row |-> IF logged THEN booked(call.target) ELSE NoTarget,
                    success |-> vectors # <<>>]
        /\ UNCHANGED <<connections, combos, env, running, told, restarting, patches>>

\* The client goes away: the handler is dropped where it stands.
EmbeddingDropped ==
    /\ call.stage = "sent" /\ call' = NoCall
    /\ UNCHANGED <<connections, combos, env, running, told, restarting, patches>>

ConnectionPatches ==
    [{"active"} -> BOOLEAN] \union [{"priority"} -> Priorities]

AdministrationNext ==
    \/ \E c \in DOMAIN connections, p \in ConnectionPatches : PatchConnection(c, p)
    \/ \E c \in DOMAIN combos, p \in ComboPatches : PatchCombo(c, p)
    \/ RestartService
    \/ Kickstart
    \/ \E model \in Asked, dimensions \in BOOLEAN : Embed(model, dimensions)
    \/ \E p \in Payloads, logged \in BOOLEAN : Answer(p, logged)
    \/ EmbeddingDropped

AdministrationSpec == AdministrationInit /\ [][AdministrationNext]_administrationVars

-----------------------------------------------------------------------------
(* GET /v1/models *)

Available == DOMAIN running

\* Combos that are not archived and not hidden.
ListedCombos ==
    {c \in DOMAIN combos :
        combos[c].active /\ ~(combos[c].data.readable /\ combos[c].data.hidden)}

\* `provider/model` of every provider with a backend of its id.
ListedEntries == {i \in DOMAIN Registry : Registry[i].id \in Available}

PoolsOf(backends) == [b \in DOMAIN backends |-> {backends[b][i] : i \in DOMAIN backends[b]}]

(***************************************************************************)
(* As long as no PATCH has answered restart_required since the last start, *)
(* a restart would build the same backends of the same connections: the    *)
(* dashboard never leaves an operator with a gateway that serves other     *)
(* credentials than the table shows active.  (admin.rs, update_connection) *)
(***************************************************************************)
TellsWhenToRestart ==
    told \/ PoolsOf(running) = PoolsOf(select_backend(connections, env))

ServableEntries(c) ==
    LET shown == Shown(combos[c], Available)
    IN  Served([i \in DOMAIN shown |->
            [backend |-> shown[i].backend, model |-> shown[i].entry.model]])

(***************************************************************************)
(* What /v1/models lists is what is routed.  A provider's model goes to    *)
(* that provider's own backend, under its own name; a combo goes to the    *)
(* entries the dashboard shows as servable, all of them, in that order,    *)
(* unless its name is that of a running provider's model.                  *)
(* (lib.rs list_models, admin.rs combos, routing.rs resolve)               *)
(***************************************************************************)
ListedModelsAreRouted ==
    /\ \A i \in ListedEntries : \A model \in Registry[i].models : \A isGrok \in BOOLEAN :
          resolve(<<Registry[i].id>> \o model, isGrok, combos, Available)
             = <<[backend |-> Registry[i].id, model |-> model]>>
    /\ \A c \in ListedCombos : \A isGrok \in BOOLEAN :
          \/ DirectProvider(combos[c].name, Available) # Unnamed
          \/ ServableEntries(c) = <<>>
          \/ resolve(combos[c].name, isGrok, combos, Available) = ServableEntries(c)

SentBack(row) ==
    LET entries == parse_combo_rich(row.data)
    IN  [models |-> [i \in DOMAIN entries |->
            [id |-> entries[i].id, provider |-> entries[i].provider,
             model |-> entries[i].model, weight |-> entries[i].weight]]]

Routed(row) ==
    LET entries == parse_combo_rich(row.data)
    IN  [i \in DOMAIN entries |-> <<entries[i].provider, entries[i].model, entries[i].weight>>]

OthersOf(items) == {items[i] : i \in {j \in DOMAIN items : ~IsModel(items[j])}}

EntryIds(items) == {items[i].id : i \in {j \in DOMAIN items : IsModel(items[j])}}

(***************************************************************************)
(* What the dashboard was shown of a combo may be sent back: the row that  *)
(* the PATCH leaves has the same entries with the same weights, and no two *)
(* of them have one id.  An item of another kind is lost exactly if an     *)
(* entry has its id now, against repos.rs:681-682, which promises to keep  *)
(* every one: `consumed` asks for the id alone, also of a row that was not *)
(* edited.  (admin.rs combos and update_combo, repos.rs                    *)
(* render_model_items)                                                     *)
(***************************************************************************)
RoundTripKeepsRouting ==
    \A c \in DOMAIN combos :
        LET again == update_combo_meta(combos[c], SentBack(combos[c]))
            items == again.data.models
        IN  parse_combo_rich(combos[c].data) = <<>> \/
            /\ Routed(again) = Routed(combos[c])
            /\ OthersOf(items) =
                  {item \in OthersOf(combos[c].data.models) : item.id \notin EntryIds(items)}
            /\ \A i, j \in DOMAIN items :
                  IsModel(items[i]) /\ IsModel(items[j]) /\ items[i].id = items[j].id => i = j

Honest(data) ==
    /\ \A i \in DOMAIN data : data[i].index # Unplaced /\ data[i].vector = data[i].index + 1
    /\ {data[i].vector : i \in DOMAIN data} = 1 .. Inputs

(***************************************************************************)
(* Embeddings add up: an answer has one vector for each input, and when    *)
(* the upstream placed one vector for each input it is the input's own, in *)
(* whatever order they arrived; and the usage row names the connection     *)
(* whose credential was sent, though the table has changed since.          *)
(* (embeddings.rs dispatch, parse_response, record)                        *)
(***************************************************************************)
EmbeddingsAddUp ==
    call.stage = "answered" =>
        /\ call.success => Len(call.vectors) = Inputs
        /\ call.success /\ Honest(call.payload.data) => call.vectors = [n \in 1 .. Inputs |-> n]
        /\ call.logged => call.row = call.sent

=============================================================================
