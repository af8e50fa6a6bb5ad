------------------------------ MODULE Guardrails ------------------------------
(***************************************************************************)
(* The guardrail layer, crates/heterion-router-gateway/src/guardrails.rs:  *)
(* a policy in the key-value table, a scan of each request body before     *)
(* anything else sees it, and a scan of each answer on its way out.        *)
(*                                                                         *)
(* A body is a sequence of chunks, a chunk a sequence of words, and a word *)
(* has a spelling the detectors of Scanners read.  The four checks are two *)
(* kinds: one that fires on what a body holds whatever the policy says     *)
(* (secrets, PII; "secrets" here), and one that fires on what the policy   *)
(* lists (the blocklist, the languages; "keywords" here).                  *)
(***************************************************************************)
EXTENDS Scanners

CONSTANTS
    Spelling,       \* the words of bodies and policies, and how they are spelt
    SCAN_LIMIT,     \* SCAN_LIMIT_BYTES, in words
    FirstPolicies,  \* the policies the process may find
    Patches,        \* the updates an operator may send
    MaxPatches      \* bound: updates

VARIABLES
    policy,         \* the row "guardrails" / "config" of key_value
    patched         \* how many updates there have been

guardVars == <<policy, patched>>

Checks == {"secrets", "keywords"}
\* A check that is not enabled is "off".
Settings == {"off", "block", "warn", "log"}

\* Config::default: every check warns, and nothing is listed.
DefaultPolicy ==
    [action |-> [c \in Checks |-> "warn"], terms |-> {}, scan_response |-> TRUE]

Policies == [action : [Checks -> Settings], terms : SUBSET DOMAIN Spelling,
             scan_response : BOOLEAN]

ASSUME GuardAssumption ==
    /\ FirstPolicies \subseteq Policies
    /\ \A update \in Patches :
         /\ "action" \in DOMAIN update =>
              \A c \in Checks \cap DOMAIN update.action : update.action[c] \in Settings
         /\ "terms" \in DOMAIN update => update.terms \subseteq DOMAIN Spelling
         /\ "scan_response" \in DOMAIN update => update.scan_response \in BOOLEAN
    /\ SCAN_LIMIT \in Nat \ {0} /\ MaxPatches \in Nat

-----------------------------------------------------------------------------
(***************************************************************************)
(* The policy.  sanitize runs when it is read and when it is written.  An  *)
(* update replaces the fields it names, under one hold of the lock.        *)
(***************************************************************************)
sanitize(p) == [p EXCEPT !.terms = {t \in @ : trim(Spelling[t]) # <<>>}]

load == sanitize(policy)

\* A patch is a record of the fields it names, and the actions of the checks it names.
Merged(p, update) ==
    [action |-> [c \in Checks |->
                   IF "action" \in DOMAIN update /\ c \in DOMAIN update.action
                   THEN update.action[c] ELSE p.action[c]],
     terms |-> IF "terms" \in DOMAIN update THEN update.terms ELSE p.terms,
     scan_response |-> IF "scan_response" \in DOMAIN update THEN update.scan_response
                       ELSE p.scan_response]

\* PATCH /api/guardrails: load, merge, save.  The write may fail, and the
\* caller is told of the merged policy all the same.
update_settings(update, written) ==
    /\ patched < MaxPatches
    /\ policy' = IF written THEN sanitize(Merged(load, update)) ELSE policy
    /\ patched' = patched + 1

-----------------------------------------------------------------------------
(***************************************************************************)
(* Reading.  read_prefix takes chunks until the limit is reached.  The     *)
(* chunk that crosses it is scanned up to the limit and goes back whole,   *)
(* between what was read and what was not.                                 *)
(***************************************************************************)
\* How many chunks are read whole.
WholeChunks(body) ==
    CHOOSE n \in 0..Len(body) :
      \A i \in 0..Len(body) : Len(FlattenSeq(SubSeq(body, 1, i))) <= SCAN_LIMIT <=> i <= n

\* The chunk that crosses the limit is not scanned at all.
WholeChunksOnly(body) ==
    LET n == WholeChunks(body)
        consumed == FlattenSeq(SubSeq(body, 1, n))
    IN [scanned |-> consumed, rebuilt |-> <<consumed>> \o SubSeq(body, n + 1, Len(body))]

\* A body that is read to its end.
read_prefix(body) ==
    LET n == WholeChunks(body)
        consumed == FlattenSeq(SubSeq(body, 1, n))
        crosses == n < Len(body) /\ Len(consumed) < SCAN_LIMIT
        carry == IF crosses THEN <<body[n + 1]>> ELSE <<>>
        rest == SubSeq(body, n + Len(carry) + 1, Len(body))
    IN [scanned |-> IF crosses THEN SubSeq(consumed \o body[n + 1], 1, SCAN_LIMIT)
                    ELSE consumed,
        rebuilt |-> <<consumed>> \o carry \o rest]

-----------------------------------------------------------------------------
(***************************************************************************)
(* Inspecting and deciding.                                                *)
(***************************************************************************)
\* The words that hold a credential or a person's data.
Detected ==
    {w \in DOMAIN Spelling : secrets(Spelling[w]) \cup pii(Spelling[w]) # {}}

\* The words and the terms that fire on them; a blank term never does.
Listed ==
    {p \in (DOMAIN Spelling) \X (DOMAIN Spelling) :
       keywords(Spelling[p[1]], {Spelling[p[2]]}) # {}}

\* The checks that fire.
inspect(text, p) ==
    {c \in Checks :
       /\ p.action[c] # "off"
       /\ \/ c = "secrets" /\ ToSet(text) \cap Detected # {}
          \/ c = "keywords" /\ (ToSet(text) \X p.terms) \cap Listed # {}}

\* What a request is refused for.
blocking(findings, p) == {c \in findings : p.action[c] = "block"}

\* The checks the answer's header names: none unless one of them warns.
annotate(findings, p) ==
    LET noted == {c \in findings : p.action[c] # "block"}
    IN IF \E c \in noted : p.action[c] = "warn" THEN noted ELSE {}

\* scan_response, then annotate for the request: a header written twice
\* keeps the second value.
AnswerHeader(requestFindings, answer, p) ==
    LET asked == annotate(requestFindings, p)
        answered == IF p.scan_response /\ ~answer.sse
                    THEN annotate(inspect(read_prefix(answer.body).scanned, p), p)
                    ELSE {}
    IN IF asked # {} THEN asked ELSE answered

GuardInit == policy \in FirstPolicies /\ patched = 0

=============================================================================
