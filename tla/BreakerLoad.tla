----------------------------- MODULE BreakerLoad -----------------------------
(***************************************************************************)
(* One breaker under concurrent requests.  A request asks the breaker, and *)
(* if it is admitted its answer comes back any time later: a success, an   *)
(* outage, or nothing the breaker is told of (a 4xx of a healthy backend,  *)
(* or a client that went away and took the request's future with it).      *)
(* Neither the breaker nor the caller keeps anything that says which       *)
(* admission an answer belongs to; all but breaker and inFlight is         *)
(* history, and no action reads it in a guard.  A request that is refused  *)
(* changes nothing here: it moves on to another backend.                   *)
(***************************************************************************)
EXTENDS CircuitBreaker

CONSTANTS
    Requests,   \* callers; one may ask again once it has been answered
    NoRequest   \* no caller

ASSUME NoRequestAssumption == NoRequest \notin Requests

VARIABLES
    breaker,        \* the CircuitBreaker record
    inFlight,       \* the requests admitted and not yet answered
    holder,         \* history: the request whose probe is outstanding
    streak,         \* history: outages reported since the last success
    sinceFailure,   \* history: age of the last outage reported
    sinceProbe,     \* history: age of the last probe admitted
    trialUnbroken   \* history: no outage was reported since that admission

vars == <<breaker, inFlight, holder, streak, sinceFailure, sinceProbe,
          trialUnbroken>>

TypeOK ==
    /\ breaker \in Breakers
    /\ inFlight \in SUBSET Requests
    /\ holder \in Requests \union {NoRequest}
    /\ streak \in 0 .. Limit
    /\ sinceFailure \in Ages
    /\ sinceProbe \in Ages
    /\ trialUnbroken \in BOOLEAN

Init ==
    /\ breaker = NewBreaker
    /\ inFlight = {}
    /\ holder = NoRequest
    /\ streak = 0
    /\ sinceFailure = Never
    /\ sinceProbe = Never
    /\ trialUnbroken = FALSE

-----------------------------------------------------------------------------
(* Actions *)

\* A closed breaker lets r through.
AdmitPlain(r) ==
    /\ r \notin inFlight
    /\ Allows(breaker) /\ breaker.opened = Never
    /\ breaker' = AfterAllow(breaker)
    /\ inFlight' = inFlight \union {r}
    /\ UNCHANGED <<holder, streak, sinceFailure, sinceProbe, trialUnbroken>>

\* An open breaker whose cooldown is over takes r as its probe.
AdmitProbe(r) ==
    /\ r \notin inFlight
    /\ Allows(breaker) /\ breaker.opened # Never
    /\ breaker' = AfterAllow(breaker)
    /\ inFlight' = inFlight \union {r}
    /\ holder' = r
    /\ sinceProbe' = 0
    /\ trialUnbroken' = TRUE
    /\ UNCHANGED <<streak, sinceFailure>>

HolderAfter(b) == IF b.probe = Never THEN NoRequest ELSE holder

Succeed(r) ==
    /\ r \in inFlight
    /\ breaker' = AfterSuccess(breaker)
    /\ inFlight' = inFlight \ {r}
    /\ holder' = HolderAfter(breaker')
    /\ streak' = 0
    /\ UNCHANGED <<sinceFailure, sinceProbe, trialUnbroken>>

Fail(r) ==
    /\ r \in inFlight
    /\ breaker' = AfterFailure(breaker)
    /\ inFlight' = inFlight \ {r}
    /\ holder' = HolderAfter(breaker')
    /\ streak' = IF streak < Limit THEN streak + 1 ELSE Limit
    /\ sinceFailure' = 0
    /\ trialUnbroken' = FALSE
    /\ UNCHANGED <<sinceProbe>>

\* Refused by a healthy backend, or dropped: the breaker hears nothing.
ReportNothing(r) ==
    /\ r \in inFlight
    /\ inFlight' = inFlight \ {r}
    /\ UNCHANGED <<breaker, holder, streak, sinceFailure, sinceProbe,
                   trialUnbroken>>

Tick ==
    /\ breaker' = Aged(breaker)
    /\ sinceFailure' = Older(sinceFailure)
    /\ sinceProbe' = Older(sinceProbe)
    /\ UNCHANGED <<inFlight, holder, streak, trialUnbroken>>

Next ==
    \/ \E r \in Requests :
          AdmitPlain(r) \/ AdmitProbe(r) \/ Succeed(r) \/ Fail(r) \/ ReportNothing(r)
    \/ Tick

Spec == Init /\ [][Next]_vars

\* Time passes; nothing obliges a client to ask or an upstream to answer.
FairSpec == Spec /\ WF_vars(Tick)

-----------------------------------------------------------------------------
(* Properties *)

\* While closed, the counter is the number of outages reported in a row: a
\* success clears it, and nothing that happened before a trip is left in it.
CountsConsecutive == breaker.opened = Never => breaker.failures = streak

\* The parts of the inductive invariant.  A closed breaker has no probe out
\* and has not reached its limit;
ClosedIsClean ==
    breaker.opened = Never =>
        /\ breaker.probe = Never
        /\ breaker.failures < Limit

\* an open one keeps a full count, and its cooldown runs from the last outage;
OpenIsRecent ==
    breaker.opened # Never =>
        /\ breaker.failures = Limit
        /\ breaker.opened = sinceFailure

\* the probe on record is the last one admitted, and nothing interrupted it;
ProbeIsLatest ==
    breaker.probe # Never => breaker.probe = sinceProbe /\ trialUnbroken

\* the cooldown of an open breaker without a probe began after the last probe.
RestCoversProbe ==
    (breaker.opened # Never /\ breaker.probe = Never) =>
        sinceProbe = Never \/ sinceProbe >= sinceFailure

\* The breaker's fields and the reports made to it agree in every state: what
\* the single-flight trial and the shedding below rest on.
IInv ==
    /\ TypeOK
    /\ CountsConsecutive
    /\ ClosedIsClean
    /\ OpenIsRecent
    /\ ProbeIsLatest
    /\ RestCoversProbe

\* r goes upstream in this step.
Admitted(r) == r \notin inFlight /\ r \in inFlight'

\* Admissions that were not made by a closed breaker are at least a whole
\* cooldown apart, across every close, trip and late answer in between: the
\* half-open trial is single-flight.
ProbesAreSpaced ==
    [][\A r \in Requests :
          Admitted(r) /\ breaker.opened # Never => sinceProbe \in {Never, Cooldown}]_vars

\* An open breaker admits nobody until a whole cooldown has passed since the
\* last outage reported to it, the late ones of old requests included.
ShedsUntilCooled ==
    [][\A r \in Requests :
          Admitted(r) /\ breaker.opened # Never => sinceFailure = Cooldown]_vars

\* An outage reported while a probe is out, by whichever request, ends that
\* trial: the breaker closes only on a trial no outage has interrupted.
ClosesOnUnbrokenTrial ==
    [][breaker.opened # Never /\ breaker'.opened = Never => trialUnbroken]_vars

\* A breaker opens from closed only on the Limit-th outage in a row.
OpensOnStreak ==
    [][breaker.opened = Never /\ breaker'.opened # Never => streak' = Limit]_vars

\* A lost probe does not keep the backend out of rotation: again and again
\* there comes a time when the breaker would admit a request.
NeverPinned == []<>Allows(breaker)

\* How a breaker shows itself to BreakerPromise.
Promise == INSTANCE BreakerPromise WITH
    mode   <- State(breaker),
    misses <- IF breaker.opened = Never THEN breaker.failures ELSE 0,
    rest   <- breaker.opened,
    trial  <- breaker.probe

\* The breaker keeps the promise of BreakerPromise under concurrent callers: what
\* may open it, what may close it, how long it stays shut and how far apart its
\* trials are (breaker.rs:70-129).
KeepsPromise == Promise!Spec

=============================================================================
