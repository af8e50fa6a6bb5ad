---------------------------- MODULE ResponseCache ----------------------------
(***************************************************************************)
(* The table semantic_cache, crates/heterion-router-db/src/cache_repos.rs, *)
(* and the keys it is read and written under, crates/heterion-router-      *)
(* gateway/src/cache.rs.  An answer is stored under the namespace of its   *)
(* caller, the verb and the prompt; in semantic mode the vector of the     *)
(* prompt is stored beside it, under the same signature but for its first  *)
(* letter, and the answer of a near prompt may be served.                  *)
(*                                                                         *)
(* A prompt is a canonical body: the hash of one is the hash of no other.  *)
(* A vector is the prompt it was made from, two of one embedding model; of *)
(* cosines only the order is kept, and which of them reach the threshold.  *)
(***************************************************************************)
EXTENDS Integers, FiniteSets, Functions

CONSTANTS
    NearTexts,      \* pairs {s, t} of texts whose vectors are near
    Ttl             \* CacheLayer.ttl_seconds

VARIABLE rows       \* the table, by signature

Signature(mode, namespace, verb, prompt) ==
    [mode |-> mode, namespace |-> namespace, verb |-> verb, prompt |-> prompt]

answer_signature(key) == Signature("x", key.namespace, key.verb, key.prompt)
vector_signature(key) == Signature("v", key.namespace, key.verb, key.prompt)
answer_signature_of(sig) == [sig EXCEPT !.mode = "x"]

\* LIVE.
Live(sig, time) == sig \in DOMAIN rows /\ rows[sig].expires > time

-----------------------------------------------------------------------------
(***************************************************************************)
(* Statements, each a table made from a table.                             *)
(***************************************************************************)
\* INSERT ... ON CONFLICT DO UPDATE: a row that is there keeps its hit_count.
put(table, sig, model, response, tokens, time) ==
    LET row == [model |-> model, response |-> response, tokens_saved |-> tokens,
                hit_count |-> IF sig \in DOMAIN table THEN table[sig].hit_count ELSE 0,
                expires |-> time + Ttl]
    IN [s \in DOMAIN table \cup {sig} |-> IF s = sig THEN row ELSE table[s]]

record_hit(table, sig, tokens) ==
    [table EXCEPT ![sig].hit_count = @ + 1, ![sig].tokens_saved = @ + tokens]

sweep_expired(table, time) ==
    Restrict(table, {sig \in DOMAIN table : table[sig].expires > time})

-----------------------------------------------------------------------------
(***************************************************************************)
(* The nearest stored prompt of a namespace, a verb and a model.           *)
(***************************************************************************)
cosine(p, q) ==
    IF p.text = q.text THEN 2 ELSE IF {p.text, q.text} \in NearTexts THEN 1 ELSE 0

\* A scan over every caller's vectors.
AnyVectors(key, time) ==
    {sig \in DOMAIN rows : /\ sig.mode = "v" /\ sig.verb = key.verb
                           /\ rows[sig].model = key.prompt.model
                           /\ Live(sig, time)}

vectors_in(key, time) ==
    {sig \in DOMAIN rows : /\ sig.mode = "v" /\ sig.namespace = key.namespace
                           /\ sig.verb = key.verb
                           /\ rows[sig].model = key.prompt.model
                           /\ Live(sig, time)}

\* nearest: the best of those at the threshold or above it, any of several.
nearest(sigs, prompt) ==
    {s \in sigs : /\ cosine(s.prompt, prompt) > 0
                  /\ \A t \in sigs : cosine(t.prompt, prompt) <= cosine(s.prompt, prompt)}

\* tokens_saved_by: what the answer says it used.
tokens_saved_by(answer) == answer.usage

CacheInit == rows = [s \in {} |-> {}]

=============================================================================
