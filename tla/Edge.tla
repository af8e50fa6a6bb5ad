--------------------------------- MODULE Edge ---------------------------------
(***************************************************************************)
(* A completion request on its way through the layers of the gateway,      *)
(* build_router_with_state of crates/heterion-router-gateway/src/lib.rs:   *)
(* the guardrails, the response cache, the handler with its key check, the *)
(* upstream call, and back.  The budget layer between the guardrails and   *)
(* the cache is Budgets.  While one request is between two of its steps    *)
(* others run, keys are issued, revoked, restored and expire, and the      *)
(* guardrail policy is replaced.                                           *)
(*                                                                         *)
(* A step ends where the connection's lock is released or a call goes out: *)
(* to the embedding model, before the scan and before the write, and to    *)
(* the upstream.  A database call may fail in any of them.                 *)
(***************************************************************************)
EXTENDS KeyGate, Guardrails, ResponseCache

CONSTANTS
    Requests,       \* requests in flight at once
    Tokens,         \* what clients present
    Bodies,         \* the bodies clients send
    Replies,        \* the bodies upstreams answer with
    Secrets,        \* the words a text must not hold
    Blank,          \* a term of white space alone
    SemanticMode,   \* an embedding model is configured
    MaxArrivals,    \* bound: requests
    MaxFaults       \* bound: database calls that fail

Verbs == {body.verb : body \in Bodies}
BodiesOfClients == [verb : Verbs, model : Models, tools : BOOLEAN, stream : BOOLEAN,
                    chunks : Seq(Seq(DOMAIN Spelling))]
RepliesOfUpstreams == [kind : {"json", "error"}, body : Seq(Seq(DOMAIN Spelling)), usage : Nat]

ASSUME EdgeAssumption ==
    /\ Tokens \subseteq Texts \cup {NoToken}
    /\ Bodies \subseteq BodiesOfClients
    /\ Replies \subseteq RepliesOfUpstreams
    /\ SemanticMode \in BOOLEAN
    /\ MaxArrivals \in Nat /\ MaxFaults \in Nat

\* What a text must not hold is what the detectors fire on; a term fires on
\* itself, unless it is blank, and on no other word.
ASSUME WordsAssumption ==
    /\ Detected = Secrets
    /\ Listed = {<<w, w>> : w \in DOMAIN Spelling \ {Blank}}

VARIABLES
    req,            \* every request slot
    arrivals,       \* how many requests there have been
    faults,         \* how many database calls have failed
    admitted        \* history: requests whose caller could have been let in
                    \* at some moment since they arrived

reqVars == <<req, arrivals>>
vars == <<keyVars, guardVars, rows, reqVars, faults, admitted>>

Open == [text |-> "open"]       \* OPEN_NAMESPACE
NoNamespace == [text |-> "noNamespace"]
Nothing == [how |-> "nothing"]
Idle == [pc |-> "idle", out |-> Nothing]

Text(body) == FlattenSeq(body.chunks)
Prompt(body) == [model |-> body.model, tools |-> body.tools, text |-> Text(body)]
CacheKey(r) == [namespace |-> req[r].namespace, verb |-> req[r].body.verb,
                prompt |-> Prompt(req[r].body)]

InFlight(r) == req[r].pc # "idle"
At(r, pc) == req[r].pc = pc

\* The database answers, or fails once more.
Works == UNCHANGED faults
Fails == faults < MaxFaults /\ faults' = faults + 1

Goes(r, pc) == req' = [req EXCEPT ![r].pc = pc]
\* The request is over; out says what its caller was given, and with what header.
Ends(r, how, answer) ==
    req' = [req EXCEPT ![r] =
              [pc |-> "idle", token |-> req[r].token, sent |-> req[r].sent,
               policy |-> req[r].policy,
               out |-> [how |-> how, answer |-> answer,
                        header |-> AnswerHeader(req[r].findings, answer, req[r].policy)]]]

\* A reply the gateway makes itself: a small JSON body about nothing.
Own == [kind |-> "failed", body |-> <<>>, sse |-> FALSE, usage |-> 0]

-----------------------------------------------------------------------------
(***************************************************************************)
(* guardrails::middleware up to the next layer.  The policy is read once.  *)
(* The layers inside see the body that read_prefix put together again.     *)
(***************************************************************************)
Arrive(r, token, body, p) ==
    LET taken == read_prefix(body.chunks)
        findings == inspect(taken.scanned, p)
        passed == [body EXCEPT !.chunks = taken.rebuilt]
        refused == blocking(findings, p) # {}
    IN /\ ~InFlight(r) /\ arrivals < MaxArrivals
       /\ arrivals' = arrivals + 1
       /\ req' = [req EXCEPT ![r] =
                    IF refused
                    THEN [pc |-> "idle", token |-> token, sent |-> body, policy |-> p,
                          out |-> [how |-> "refused", answer |-> Own,
                                   header |-> blocking(findings, p)]]
                    ELSE [pc |-> IF body.stream THEN "handler" ELSE "namespace",
                          token |-> token, sent |-> body, policy |-> p,
                          body |-> passed, findings |-> findings,
                          namespace |-> NoNamespace, out |-> Nothing]]
       /\ UNCHANGED <<keyVars, guardVars, rows>>

\* load: a row that cannot be read means the defaults.
ArriveAny(r) ==
    \E token \in Tokens, body \in Bodies :
      \/ Arrive(r, token, body, load) /\ Works
      \/ Arrive(r, token, body, DefaultPolicy) /\ Fails

-----------------------------------------------------------------------------
(***************************************************************************)
(* cache::dispatch, which a stream passes by.                              *)
(***************************************************************************)
\* The namespace of what is presented, whether its key can be used or not.
NamespaceOfText(token) ==
    IF token # NoToken THEN token
    ELSE IF has_usable_api_key \/ RequireAuth THEN NoNamespace ELSE Open

\* Whose answers the caller may be given: its own if its key can be used,
\* those of the open gateway if nobody needs one, or nobody's.
NamespaceOf(token) ==
    IF token # NoToken
    THEN IF find_usable_api_key(token) # {} THEN token ELSE NoNamespace
    ELSE IF has_usable_api_key \/ RequireAuth THEN NoNamespace ELSE Open

Namespace(r) ==
    /\ At(r, "namespace")
    /\ \/ /\ Works
          /\ LET ns == NamespaceOf(req[r].token)
             IN req' = [req EXCEPT ![r] =
                          [@ EXCEPT !.namespace = ns,
                                    !.pc = IF ns = NoNamespace THEN "handler" ELSE "exact"]]
       \/ Fails /\ Goes(r, "handler")
    /\ UNCHANGED <<keyVars, guardVars, rows, arrivals>>

\* A hit that leaves the gateway without passing the guardrails again.
ServedPastTheGuard(r, how, sig) ==
    /\ req' = [req EXCEPT ![r] =
                 [pc |-> "idle", token |-> req[r].token, sent |-> req[r].sent,
                  policy |-> req[r].policy,
                  out |-> [how |-> how, answer |-> rows[sig].response, header |-> {}]]]
    /\ \/ rows' = record_hit(rows, sig, rows[sig].tokens_saved) /\ Works
       \/ rows' = rows /\ Fails

\* A row is served and the hit booked; the booking alone may fail.
Served(r, how, sig) ==
    /\ Ends(r, how, rows[sig].response)
    /\ \/ rows' = record_hit(rows, sig, rows[sig].tokens_saved) /\ Works
       \/ rows' = rows /\ Fails

exact_hit(r) ==
    LET sig == answer_signature(CacheKey(r)) IN
    /\ At(r, "exact")
    /\ \/ Live(sig, now) /\ Served(r, "hit", sig)
       \/ ~Live(sig, now) /\ Goes(r, "near") /\ rows' = rows /\ Works
       \/ Goes(r, "near") /\ rows' = rows /\ Fails
    /\ UNCHANGED <<keyVars, guardVars, arrivals>>

\* The vectors are scanned after the embedding call, which may fail, and
\* never for a request with tools.
Comparable(body) == SemanticMode /\ ~body.tools

semantic_hit(r) ==
    LET best == nearest(vectors_in(CacheKey(r), now), Prompt(req[r].body)) IN
    /\ At(r, "near")
    /\ \/ /\ Comparable(req[r].body)
          /\ \E v \in best : /\ Live(answer_signature_of(v), now)
                             /\ Served(r, "near", answer_signature_of(v))
       \/ Goes(r, "handler") /\ rows' = rows /\ Works
       \/ Goes(r, "handler") /\ rows' = rows /\ Fails
    /\ UNCHANGED <<keyVars, guardVars, arrivals>>

-----------------------------------------------------------------------------
(***************************************************************************)
(* The handler: the key check, the model check, the upstream.              *)
(***************************************************************************)
Handler(r) ==
    /\ At(r, "handler")
    /\ \/ /\ Works
          /\ IF Authenticated(req[r].token) /\ allows_model(req[r].token, req[r].body.model)
             THEN Goes(r, "upstream") ELSE Ends(r, "denied", Own)
       \/ Ends(r, "denied", Own) /\ Fails
    /\ UNCHANGED <<keyVars, guardVars, rows, arrivals>>

\* What an upstream answers: the answer to this caller and this prompt.
Upstream(r, reply) ==
    LET answer == [kind |-> reply.kind, body |-> reply.body, usage |-> reply.usage,
                   sse |-> req[r].body.stream, caller |-> req[r].token,
                   verb |-> req[r].body.verb, prompt |-> Prompt(req[r].body)]
    IN /\ At(r, "upstream")
       /\ IF req[r].namespace = NoNamespace THEN Ends(r, "upstream", answer)
          ELSE req' = [req EXCEPT ![r] = [@ EXCEPT !.pc = "store", !.out = answer]]
       /\ UNCHANGED <<keyVars, guardVars, rows, arrivals, faults>>

\* store and write_entry: only a whole answer without an error is kept; the
\* vector was asked for before the lock and may be missing; a failed write of
\* the answer ends it, expired rows go in the end.
Storable(answer) == answer.kind = "json"

write_entry(r, withVector) ==
    LET key == CacheKey(r)
        answer == req[r].out
        stored == put(rows, answer_signature(key), key.prompt.model, answer,
                      tokens_saved_by(answer), now)
        both == IF withVector
                THEN put(stored, vector_signature(key), key.prompt.model, answer, 0, now)
                ELSE stored
    IN rows' = sweep_expired(both, now)

Store(r) ==
    /\ At(r, "store")
    /\ Ends(r, "upstream", req[r].out)
    /\ IF ~Storable(req[r].out) THEN rows' = rows /\ Works
       ELSE \/ write_entry(r, FALSE) /\ Works
            \/ Comparable(req[r].body) /\ write_entry(r, TRUE) /\ Works
            \/ rows' = rows /\ Fails
    /\ UNCHANGED <<keyVars, guardVars, arrivals>>

-----------------------------------------------------------------------------
(***************************************************************************)
(* The operator, and time.                                                 *)
(***************************************************************************)
Keyed == KeyNext /\ UNCHANGED <<guardVars, rows, reqVars, faults>>

Patch(update) ==
    /\ \/ update_settings(update, TRUE) /\ Works
       \/ update_settings(update, FALSE) /\ Fails
    /\ Manageable
    /\ UNCHANGED <<keyVars, rows, reqVars>>

\* Who a key check may let in: anybody while the gate is open, else who
\* presents the secret of a key that is neither revoked, off, nor at its end.
MayEnter(token) ==
    \/ GateOpen
    \/ /\ token \in Texts /\ token.text = "secret"
       /\ LET row == keys[token.key]
          IN /\ row # Absent
             /\ ~row.revoked /\ ~row.off
             /\ \/ row.expires.spelt = "never"
                \/ row.expires.spelt # "junk" /\ row.expires.at > now

Observe ==
    admitted' = {r \in Requests :
                   \/ InFlight(r) /\ r \in admitted
                   \/ /\ InFlight(r) \/ req'[r].pc # "idle"
                      /\ MayEnter(req'[r].token)
                   \/ ~InFlight(r) /\ req'[r] = req[r] /\ r \in admitted}

Init ==
    /\ KeyInit /\ GuardInit /\ CacheInit
    /\ req = [r \in Requests |-> Idle]
    /\ arrivals = 0 /\ faults = 0 /\ admitted = {}

Next ==
    /\ \/ \E r \in Requests :
            \/ ArriveAny(r) \/ Namespace(r) \/ exact_hit(r) \/ semantic_hit(r)
            \/ Handler(r) \/ (\E reply \in Replies : Upstream(r, reply)) \/ Store(r)
       \/ Keyed
       \/ \E update \in Patches : Patch(update)
    /\ Observe

Spec == Init /\ [][Next]_vars

-----------------------------------------------------------------------------
(***************************************************************************)
(* Properties.                                                             *)
(***************************************************************************)
Done(r) == ~InFlight(r) /\ req[r].out # Nothing
GivenAnAnswer(r) == Done(r) /\ req[r].out.how \in {"hit", "near", "upstream"}

\* A cached answer that is served was made whole by an upstream for the same
\* caller, verb and model, and for the very prompt of this request or, when
\* neither has tools, for one whose vector is near.  The prompt is what the
\* client sent, before any layer read it (cache.rs:1-118, guardrails.rs:1054).
HitsMatchTheirRequest ==
    \A r \in Requests :
      Done(r) /\ req[r].out.how \in {"hit", "near"} =>
        LET answer == req[r].out.answer
            asked == Prompt(req[r].sent)
        IN /\ answer.kind = "json" /\ ~answer.sse
           /\ answer.caller = req[r].token
           /\ answer.verb = req[r].sent.verb
           /\ answer.prompt.model = asked.model
           /\ \/ answer.prompt = asked
              \/ /\ req[r].out.how = "near"
                 /\ ~answer.prompt.tools /\ ~asked.tools
                 /\ {answer.prompt.text, asked.text} \in NearTexts

\* Whoever is given an answer, of the cache or of an upstream, could have been
\* let in at some moment since the request arrived: a key that was revoked or
\* had expired before gets nothing (cache.rs:110-114, auth.rs:125-166).
ServedOnlyIfAdmitted == \A r \in Requests : GivenAnAnswer(r) => r \in admitted

\* What a text holds that a check looks for, under the policy's terms.
Offends(c, text, p) ==
    IF c = "secrets" THEN ToSet(text) \cap Secrets # {}
    ELSE ToSet(text) \cap (p.terms \ {Blank}) # {}

Scanned(text) == SubSeq(text, 1, IF Len(text) < SCAN_LIMIT THEN Len(text) ELSE SCAN_LIMIT)

\* A request is refused for what its text holds within the scan limit, however
\* it is cut into chunks, and for a check that blocks; and then always
\* (guardrails.rs:907-936, 961-978, 1054).
RefusedExactlyForCause ==
    \A r \in Requests : Done(r) =>
      (req[r].out.how = "refused" <=>
         \E c \in Checks : /\ req[r].policy.action[c] = "block"
                           /\ Offends(c, Scanned(Text(req[r].sent)), req[r].policy))

\* The texts of a request and of its answer that are scanned.
ScannedTexts(r) ==
    {Scanned(Text(req[r].sent))} \cup
    IF req[r].policy.scan_response /\ ~req[r].out.answer.sse
    THEN {Scanned(FlattenSeq(req[r].out.answer.body))} ELSE {}

\* What a warning check saw, in the request or in the answer, shows in the
\* answer's header, wherever the answer came from (guardrails.rs:898, 984-1036).
WarningsReachTheClient ==
    \A r \in Requests : Done(r) /\ req[r].out.how # "refused" =>
      \A c \in Checks, text \in ScannedTexts(r) :
        req[r].policy.action[c] = "warn" /\ Offends(c, text, req[r].policy)
          => req[r].out.header # {}

=============================================================================
