--------------------------- MODULE RoutingBackend ---------------------------
(***************************************************************************)
(* The routing backend, crates/heterion-router-gateway/src/routing.rs:     *)
(* concurrent requests walk the candidates of their plan, ask each         *)
(* candidate's breaker, retry or fail over, and leave in a bounded ring    *)
(* who served them, for the usage row that is written afterwards.          *)
(*                                                                         *)
(* A step ends where the task waits, or takes the breakers' mutex again.   *)
(* What an answer does to the breaker and, under another mutex, to the     *)
(* ring is one step: no step reads both, and a task is not cancelled       *)
(* between them.  A complete() is a future of the client's connection and  *)
(* dies with it at an await; a stream() is a spawned task that outlives    *)
(* its client.                                                             *)
(*                                                                         *)
(* Left out: payloads, which model each candidate is asked for, and the    *)
(* connection and combo names stored beside the provider.  How resolve     *)
(* computes a plan is left out too: a request starts with any of Plans, or *)
(* learns that the combo store cannot be read.                             *)
(***************************************************************************)
EXTENDS CircuitBreaker, Sequences, FiniteSets

CONSTANTS
    Requests,       \* request tokens; a token is used once
    Backends,       \* backend names a plan may hold
    Configured,     \* the names there is a backend for
    Plans,          \* what resolve may return
    Slots,          \* ATTRIBUTION_SLOTS
    Nobody          \* no backend

ASSUME BackendsAssumption ==
    Configured \subseteq Backends /\ Backends \intersect {Nobody, "unbooked"} = {}
ASSUME PlansAssumption ==
    Plans \subseteq [steps : Seq(Backends), maxRetries : Nat,
                     failoverFirst : BOOLEAN, delay : BOOLEAN]
ASSUME SlotsAssumption == Slots \in Nat \ {0}

(***************************************************************************)
(* How an attempt may end badly: "outage" is a status of 500 and above, or *)
(* no status at all; "throttled" is a 429; "refused" is any other 4xx and  *)
(* what never was an upstream's fault.                                     *)
(***************************************************************************)
Errors == {"outage", "throttled", "refused"}

Kinds == {"complete", "stream"}

Phases == {"idle", "choose", "await", "sleep", "forward", "done"}

Verdicts == {"none", "served", "empty", "cancelled", "store_unavailable",
             "all_tripped", "no_candidate"} \union Errors

VARIABLES
    breakers,       \* Backends -> CircuitBreaker record
    attributions,   \* the ring: <<[token, provider], ...>>, oldest first
    pc,             \* where the task of each request is
    plan,           \* its resolved plan
    kind,           \* complete or stream
    client,         \* "here" or "gone"
    step,           \* index of the candidate being tried
    retries,        \* retry_count of that candidate
    lastError,      \* last_error, "none" before the first
    shed,           \* the steps a breaker refused; the code's `tripped` is shed # {}
    verdict,        \* what the request was answered
    booked,         \* provider its usage row names; "unbooked" before it is written
    calls,          \* history: upstream calls made at each step
    answeredBy,     \* history: backend of the last upstream answer
    faulted         \* history: backends that have answered with an outage

requestVars == <<pc, plan, kind, client, step, retries, lastError, shed, verdict,
                 calls, answeredBy>>
vars == <<breakers, attributions, booked, faulted, requestVars>>

NoPlan == [steps |-> <<>>, maxRetries |-> 0, failoverFirst |-> TRUE, delay |-> FALSE]

Init ==
    /\ breakers = [b \in Backends |-> NewBreaker]
    /\ attributions = <<>>
    /\ pc = [r \in Requests |-> "idle"]
    /\ plan = [r \in Requests |-> NoPlan]
    /\ kind = [r \in Requests |-> "complete"]
    /\ client = [r \in Requests |-> "here"]
    /\ step = [r \in Requests |-> 1]
    /\ retries = [r \in Requests |-> 0]
    /\ lastError = [r \in Requests |-> "none"]
    /\ shed = [r \in Requests |-> {}]
    /\ verdict = [r \in Requests |-> "none"]
    /\ booked = [r \in Requests |-> "unbooked"]
    /\ calls = [r \in Requests |-> <<>>]
    /\ answeredBy = [r \in Requests |-> Nobody]
    /\ faulted = {}

-----------------------------------------------------------------------------
(* Helpers *)

Steps(r) == plan[r].steps

\* The candidate r is at.
Candidate(r) == Steps(r)[step[r]]

\* Mutated form: a status of 400 and above is an outage.
IsOutageAnyStatus(e) == TRUE

IsOutage(e) == e = "outage"

IsTransient(e) == e \in {"outage", "throttled"}

Tokens(ring) == {ring[i].token : i \in DOMAIN ring}

\* Where in the ring r is; a token is there once at most.
SlotOf(ring, r) == CHOOSE i \in DOMAIN ring : ring[i].token = r

Without(ring, r) ==
    IF r \notin Tokens(ring) THEN ring
    ELSE SubSeq(ring, 1, SlotOf(ring, r) - 1)
            \o SubSeq(ring, SlotOf(ring, r) + 1, Len(ring))

\* The oldest entry makes room before the token's own entry is taken out.
Attribute(ring, r, b) ==
    LET room == IF Len(ring) >= Slots THEN Tail(ring) ELSE ring
    IN  Append(Without(room, r), [token |-> r, provider |-> b])

\* Mutated form: one slot for whoever was served last.
AttributionOfLastServed(ring, r) ==
    IF ring = <<>> THEN Nobody ELSE ring[Len(ring)].provider

Attribution(ring, r) ==
    IF r \in Tokens(ring) THEN ring[SlotOf(ring, r)].provider ELSE Nobody

-----------------------------------------------------------------------------
(* The request's task *)

\* The request arrives and resolve returns p.
Start(r, k, p) ==
    /\ pc[r] = "idle"
    /\ pc' = [pc EXCEPT ![r] = "choose"]
    /\ plan' = [plan EXCEPT ![r] = p]
    /\ kind' = [kind EXCEPT ![r] = k]
    /\ calls' = [calls EXCEPT ![r] = [i \in DOMAIN p.steps |-> 0]]
    /\ UNCHANGED <<breakers, attributions, booked, faulted, client, step, retries,
                   lastError, shed, verdict, answeredBy>>

\* The combo store cannot be read: the request fails before any candidate.
StoreUnavailable(r, k) ==
    /\ pc[r] = "idle"
    /\ pc' = [pc EXCEPT ![r] = "done"]
    /\ kind' = [kind EXCEPT ![r] = k]
    /\ verdict' = [verdict EXCEPT ![r] = "store_unavailable"]
    /\ UNCHANGED <<breakers, attributions, booked, faulted, plan, client, step,
                   retries, lastError, shed, calls, answeredBy>>

\* The plan moves on to its next candidate.
Advance(r) ==
    /\ step' = [step EXCEPT ![r] = @ + 1]
    /\ retries' = [retries EXCEPT ![r] = 0]

AtCandidate(r) == pc[r] = "choose" /\ step[r] <= Len(Steps(r))

\* Mutated form: the walk waits at a tripped candidate.
ShedWaits(r) ==
    /\ AtCandidate(r)
    /\ ~Allows(breakers[Candidate(r)])
    /\ shed' = [shed EXCEPT ![r] = @ \union {step[r]}]
    /\ UNCHANGED <<breakers, attributions, booked, faulted, pc, plan, kind, client,
                   step, retries, lastError, verdict, calls, answeredBy>>

\* The candidate's breaker refuses.
Shed(r) ==
    /\ AtCandidate(r)
    /\ ~Allows(breakers[Candidate(r)])
    /\ shed' = [shed EXCEPT ![r] = @ \union {step[r]}]
    /\ Advance(r)
    /\ UNCHANGED <<breakers, attributions, booked, faulted, pc, plan, kind, client,
                   lastError, verdict, calls, answeredBy>>

\* The breaker admits, but no backend has that name.
Skip(r) ==
    /\ AtCandidate(r)
    /\ Candidate(r) \notin Configured
    /\ Allows(breakers[Candidate(r)])
    /\ breakers' = [breakers EXCEPT ![Candidate(r)] = AfterAllow(@)]
    /\ Advance(r)
    /\ UNCHANGED <<attributions, booked, faulted, pc, plan, kind, client, lastError,
                   shed, verdict, calls, answeredBy>>

\* The breaker admits and the request goes upstream.
Dispatch(r) ==
    /\ AtCandidate(r)
    /\ Candidate(r) \in Configured
    /\ Allows(breakers[Candidate(r)])
    /\ breakers' = [breakers EXCEPT ![Candidate(r)] = AfterAllow(@)]
    /\ pc' = [pc EXCEPT ![r] = "await"]
    /\ calls' = [calls EXCEPT ![r][step[r]] = @ + 1]
    /\ UNCHANGED <<attributions, booked, faulted, plan, kind, client, step, retries,
                   lastError, shed, verdict, answeredBy>>

Answer(r, health, v) ==
    /\ breakers' = [breakers EXCEPT ![Candidate(r)] = health]
    /\ attributions' = Attribute(attributions, r, Candidate(r))
    /\ answeredBy' = [answeredBy EXCEPT ![r] = Candidate(r)]
    /\ verdict' = [verdict EXCEPT ![r] = v]
    /\ UNCHANGED <<booked, plan, kind, client, shed, calls>>

\* A completion, or the first chunk of a stream.  A first chunk that finds the
\* client gone ends the task.
AnswerOk(r) ==
    /\ pc[r] = "await"
    /\ Answer(r, AfterSuccess(breakers[Candidate(r)]), "served")
    /\ pc' = [pc EXCEPT ![r] =
                 IF kind[r] = "stream" /\ client[r] = "here" THEN "forward" ELSE "done"]
    /\ UNCHANGED <<faulted, step, retries, lastError>>

\* A stream that ends before its first chunk counts as a success.
AnswerEmpty(r) ==
    /\ pc[r] = "await" /\ kind[r] = "stream"
    /\ Answer(r, AfterSuccess(breakers[Candidate(r)]), "empty")
    /\ pc' = [pc EXCEPT ![r] = "done"]
    /\ UNCHANGED <<faulted, step, retries, lastError>>

MayRetry(r, e) == IsTransient(e) /\ retries[r] < plan[r].maxRetries

\* An error: told to the breaker when it is an outage, then retried at the same
\* candidate, or the next candidate's turn.
AnswerError(r, e) ==
    /\ pc[r] = "await"
    /\ Answer(r, IF IsOutage(e) THEN AfterFailure(breakers[Candidate(r)])
                 ELSE breakers[Candidate(r)], "none")
    /\ faulted' = IF e = "outage" THEN faulted \union {Candidate(r)} ELSE faulted
    /\ lastError' = [lastError EXCEPT ![r] = e]
    /\ IF MayRetry(r, e) /\ ~plan[r].failoverFirst
       THEN /\ retries' = [retries EXCEPT ![r] = @ + 1]
            /\ pc' = [pc EXCEPT ![r] = IF plan[r].delay THEN "sleep" ELSE "choose"]
            /\ UNCHANGED step
       ELSE /\ pc' = [pc EXCEPT ![r] = "choose"]
            /\ Advance(r)

\* The retry delay is over.
Wake(r) ==
    /\ pc[r] = "sleep"
    /\ pc' = [pc EXCEPT ![r] = "choose"]
    /\ UNCHANGED <<breakers, attributions, booked, faulted, plan, kind, client, step,
                   retries, lastError, shed, verdict, calls, answeredBy>>

GiveUpBlamesBreaker(r) ==
    /\ pc[r] = "choose" /\ step[r] > Len(Steps(r))
    /\ pc' = [pc EXCEPT ![r] = "done"]
    /\ verdict' = [verdict EXCEPT ![r] =
                      IF shed[r] # {} THEN "all_tripped"
                      ELSE IF lastError[r] # "none" THEN lastError[r] ELSE "no_candidate"]
    /\ UNCHANGED <<breakers, attributions, booked, faulted, plan, kind, client, step,
                   retries, lastError, shed, calls, answeredBy>>

\* No candidate is left: the last error is the answer, and without one whether
\* a breaker was in the way decides.
GiveUp(r) ==
    /\ pc[r] = "choose" /\ step[r] > Len(Steps(r))
    /\ pc' = [pc EXCEPT ![r] = "done"]
    /\ verdict' = [verdict EXCEPT ![r] =
                      IF lastError[r] # "none" THEN lastError[r]
                      ELSE IF shed[r] # {} THEN "all_tripped" ELSE "no_candidate"]
    /\ UNCHANGED <<breakers, attributions, booked, faulted, plan, kind, client, step,
                   retries, lastError, shed, calls, answeredBy>>

\* The rest of a stream has been forwarded, or its client found gone.  How the
\* upstream ended it is not told to the breaker.
EndForward(r) ==
    /\ pc[r] = "forward"
    /\ pc' = [pc EXCEPT ![r] = "done"]
    /\ UNCHANGED <<breakers, attributions, booked, faulted, plan, kind, client, step,
                   retries, lastError, shed, verdict, calls, answeredBy>>

-----------------------------------------------------------------------------
(* The client, the books and time *)

\* The client of a completion goes away: its future is dropped at an await and
\* tells nobody anything.
Cancel(r) ==
    /\ kind[r] = "complete" /\ pc[r] \in {"await", "sleep"}
    /\ pc' = [pc EXCEPT ![r] = "done"]
    /\ client' = [client EXCEPT ![r] = "gone"]
    /\ verdict' = [verdict EXCEPT ![r] = "cancelled"]
    /\ UNCHANGED <<breakers, attributions, booked, faulted, plan, kind, step, retries,
                   lastError, shed, calls, answeredBy>>

\* The client of a stream goes away; the task learns of it when it next sends.
HangUp(r) ==
    /\ kind[r] = "stream" /\ pc[r] \notin {"idle", "done"}
    /\ client[r] = "here"
    /\ client' = [client EXCEPT ![r] = "gone"]
    /\ UNCHANGED <<breakers, attributions, booked, faulted, pc, plan, kind, step,
                   retries, lastError, shed, verdict, calls, answeredBy>>

\* The usage row is written: after a completion, and for a stream on a chunk,
\* at the end or when its client is gone, the task running or not.
MayBook(r) ==
    IF kind[r] = "complete"
    THEN pc[r] = "done" /\ verdict[r] # "cancelled"
    ELSE pc[r] \in {"forward", "done"} \/ client[r] = "gone"

Book(r) ==
    /\ booked[r] = "unbooked" /\ MayBook(r)
    /\ booked' = [booked EXCEPT ![r] = Attribution(attributions, r)]
    /\ UNCHANGED <<breakers, attributions, faulted, requestVars>>

Tick ==
    /\ breakers' = [b \in Backends |-> Aged(breakers[b])]
    /\ UNCHANGED <<attributions, booked, faulted, requestVars>>

-----------------------------------------------------------------------------

\* What the task does of its own accord.
Walk(r) == Shed(r) \/ Skip(r) \/ Dispatch(r) \/ GiveUp(r) \/ Wake(r)

Upstream(r) == AnswerOk(r) \/ AnswerEmpty(r) \/ \E e \in Errors : AnswerError(r, e)

Next ==
    \/ \E r \in Requests :
          \/ \E k \in Kinds : StoreUnavailable(r, k) \/ \E p \in Plans : Start(r, k, p)
          \/ Shed(r) \/ Skip(r) \/ Dispatch(r) \/ GiveUp(r) \/ Wake(r)
          \/ AnswerOk(r) \/ AnswerEmpty(r) \/ \E e \in Errors : AnswerError(r, e)
          \/ EndForward(r) \/ Cancel(r) \/ HangUp(r) \/ Book(r)
    \/ Tick

Spec == Init /\ [][Next]_vars

\* A task that can run does, and an upstream call ends: by an answer, or by the
\* response and idle timeouts of the shared HTTP client, which are outages.
Fairness == \A r \in Requests : WF_vars(Walk(r)) /\ WF_vars(Upstream(r))

FairSpec == Spec /\ Fairness

(* Properties *)

TypeOK ==
    /\ breakers \in [Backends -> Breakers]
    /\ attributions \in Seq([token : Requests, provider : Backends])
    /\ Len(attributions) <= Slots
    /\ pc \in [Requests -> Phases]
    /\ plan \in [Requests -> Plans \union {NoPlan}]
    /\ kind \in [Requests -> Kinds]
    /\ client \in [Requests -> {"here", "gone"}]
    /\ step \in [Requests -> Nat \ {0}]
    /\ retries \in [Requests -> Nat]
    /\ lastError \in [Requests -> Errors \union {"none"}]
    /\ shed \in [Requests -> SUBSET Nat]
    /\ verdict \in [Requests -> Verdicts]
    /\ booked \in [Requests -> Backends \union {Nobody, "unbooked"}]
    /\ calls \in [Requests -> Seq(Nat)]
    /\ answeredBy \in [Requests -> Backends \union {Nobody}]
    /\ faulted \subseteq Configured
    /\ \A r \in Requests :
          /\ step[r] <= Len(Steps(r)) + 1
          /\ shed[r] \subseteq DOMAIN Steps(r)
          /\ Len(calls[r]) = Len(Steps(r))

Asked(r) == \E i \in DOMAIN Steps(r) : calls[r][i] > 0

\* The error a request ends with is true of what happened to it: the last
\* upstream error if there was any; a cooldown only when a breaker stood in the
\* way and nobody was asked; an unknown model only when no candidate of the
\* plan is configured at all, never because the candidates were tripped.
VerdictMatchesHistory ==
    \A r \in Requests :
        /\ verdict[r] \in Errors => Asked(r) /\ verdict[r] = lastError[r]
        /\ verdict[r] = "all_tripped" =>
              ~Asked(r) /\ \E i \in DOMAIN Steps(r) : Steps(r)[i] \in Configured
        /\ verdict[r] = "no_candidate" =>
              \A i \in DOMAIN Steps(r) : Steps(r)[i] \notin Configured

\* A request is answered with an error only after every configured candidate of
\* its plan was asked or was refused by its breaker.
GivesUpOnlyAfterAll ==
    \A r \in Requests :
        verdict[r] \in Errors \union {"all_tripped", "no_candidate"} =>
            \A i \in DOMAIN Steps(r) :
                Steps(r)[i] \in Configured => calls[r][i] > 0 \/ i \in shed[r]

\* No candidate is asked more than once plus its retries, and not more than
\* once when the combo fails over first.
BoundedAttempts ==
    \A r \in Requests : \A i \in DOMAIN Steps(r) :
        calls[r][i] <= IF plan[r].failoverFirst THEN 1 ELSE 1 + plan[r].maxRetries

\* A backend is taken out of rotation only if it has itself failed: refusals
\* and rate limits, and the failures of other backends, never open its breaker.
OpenOnlyIfFaulted ==
    \A b \in Backends : breakers[b].opened # Never => b \in faulted

\* The usage row of a request whose client stayed names the backend that gave
\* the request's last answer, or nobody: never the backend of another request
\* that was served at the same time.
BooksNameTheServer ==
    \A r \in Requests :
        booked[r] \in Backends /\ client[r] = "here" => booked[r] = answeredBy[r]

\* Every request that arrives is answered, or starts to be: no breaker, retry
\* or failover keeps it for ever.
EveryRequestAnswered ==
    \A r \in Requests : pc[r] = "choose" ~> pc[r] \in {"forward", "done"}

-----------------------------------------------------------------------------
(***************************************************************************)
(* What the safety properties above rest on: the parts of an invariant     *)
(* that every step preserves.                                              *)
(***************************************************************************)

\* A token is in the ring once, and names who answered it last.
RingIsTrue ==
    /\ \A i, j \in DOMAIN attributions :
          attributions[i].token = attributions[j].token => i = j
    /\ \A i \in DOMAIN attributions :
          attributions[i].provider = answeredBy[attributions[i].token]

\* The usage row of a client that stayed is written when no answer can come any more.
BookedLast ==
    \A r \in Requests :
        booked[r] # "unbooked" /\ client[r] = "here" => pc[r] \in {"forward", "done"}

\* A call is out, or about to be repeated, at a candidate there is a backend for.
CallsAreConfigured ==
    \A r \in Requests : pc[r] \in {"await", "sleep"} =>
        step[r] <= Len(Steps(r)) /\ Candidate(r) \in Configured

\* A name without a backend never fails, so its breaker never refuses.
ShedsAreConfigured ==
    \A r \in Requests : \A i \in shed[r] : Steps(r)[i] \in Configured

\* Upstream calls of r at the candidate it is at, while it is being tried.
CallsHere(r) == retries[r] + (IF pc[r] = "await" THEN 1 ELSE 0)

\* Retries are counted from zero at every candidate, and only where they are allowed.
RetriesAllowed ==
    \A r \in Requests :
        retries[r] <= IF plan[r].failoverFirst THEN 0 ELSE plan[r].maxRetries

\* Candidates are tried in their order: those ahead are untouched, the one r is
\* at has been called once per retry, and those behind were called or shed.
WalksInOrder ==
    \A r \in Requests : \A i \in DOMAIN Steps(r) :
        /\ i > step[r] => calls[r][i] = 0
        /\ i >= step[r] => i \notin shed[r]
        /\ i = step[r] /\ pc[r] \in {"choose", "await", "sleep"} =>
              calls[r][i] = CallsHere(r)
        /\ i < step[r] /\ Steps(r)[i] \in Configured => calls[r][i] > 0 \/ i \in shed[r]

\* There is a last error exactly when a call at this or an earlier candidate failed.
ErrorsAreRemembered ==
    \A r \in Requests :
        /\ lastError[r] # "none" => Asked(r)
        /\ retries[r] > 0 => lastError[r] # "none"
        /\ \A i \in DOMAIN Steps(r) :
              i < step[r] /\ calls[r][i] > 0 => lastError[r] # "none"

\* A request that is not over has no verdict.
VerdictsAreFinal ==
    \A r \in Requests : pc[r] \notin {"forward", "done"} => verdict[r] = "none"

\* What is untouched is as it was at the start.
IdleIsFresh ==
    \A r \in Requests : pc[r] = "idle" =>
        /\ plan[r] = NoPlan /\ step[r] = 1 /\ retries[r] = 0
        /\ lastError[r] = "none" /\ shed[r] = {} /\ calls[r] = <<>>

\* The inductive invariant: the walk of every request, the breakers, the ring and
\* the usage rows agree with each other and with what was called and answered.
IInv ==
    /\ TypeOK
    /\ CallsAreConfigured
    /\ OpenOnlyIfFaulted
    /\ RingIsTrue
    /\ BooksNameTheServer
    /\ BookedLast
    /\ ShedsAreConfigured
    /\ RetriesAllowed
    /\ WalksInOrder
    /\ BoundedAttempts
    /\ ErrorsAreRemembered
    /\ VerdictsAreFinal
    /\ VerdictMatchesHistory
    /\ GivesUpOnlyAfterAll
    /\ IdleIsFresh

=============================================================================
