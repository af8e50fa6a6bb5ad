------------------------ MODULE RoutingBackendProofs ------------------------
(***************************************************************************)
(* Theorems about RoutingBackend for any number of requests, backends,     *)
(* plans and slots.                                                        *)
(***************************************************************************)
EXTENDS RoutingBackend, SequenceTheorems, TLAPS

-----------------------------------------------------------------------------
(***************************************************************************)
(* The methods of one breaker.                                             *)
(***************************************************************************)
\* The limit is a positive natural number, whatever the configured threshold.
LEMMA LimitType == Limit \in Nat \ {0}
  BY ThresholdAssumption DEF Limit

\* Each method maps a breaker to a breaker.
LEMMA MethodTypes ==
  ASSUME NEW b \in Breakers
  PROVE  /\ AfterAllow(b) \in Breakers
         /\ AfterSuccess(b) \in Breakers
         /\ AfterFailure(b) \in Breakers
         /\ Aged(b) \in Breakers
<1> USE LimitType, CooldownAssumption DEF Breakers, Ages, Never
<1>1. AfterAllow(b) \in Breakers
  BY DEF AfterAllow
<1>2. AfterSuccess(b) \in Breakers
  BY DEF AfterSuccess
<1>3. AfterFailure(b) \in Breakers
  <2>1. \A n \in 0 .. Limit, o \in Ages :
           [failures |-> n, opened |-> o, probe |-> Never] \in Breakers
    OBVIOUS
  <2>2. /\ (IF b.failures < Limit THEN b.failures + 1 ELSE Limit) \in 0 .. Limit
        /\ 0 \in Ages /\ b.opened \in Ages
    OBVIOUS
  <2> QED
    BY <2>1, <2>2 DEF AfterFailure
<1>4. Aged(b) \in Breakers
  <2>1. Older(b.opened) \in Ages /\ Older(b.probe) \in Ages
    BY DEF Older
  <2> QED
    BY <2>1 DEF Aged
<1> QED
  BY <1>1, <1>2, <1>3, <1>4

\* Growing older keeps the order of two ages and the ages that are unset.
LEMMA OlderMonotone ==
  ASSUME NEW x \in Ages, NEW y \in Ages
  PROVE  /\ x >= y /\ y # Never => Older(x) >= Older(y)
         /\ Older(x) = Never <=> x = Never
  BY CooldownAssumption DEF Ages, Never, Older

-----------------------------------------------------------------------------
Entries == [token : Requests, provider : Backends]

\* A token that is in the ring is where SlotOf says.
LEMMA SlotOfType ==
  ASSUME NEW ring \in Seq(Entries), NEW r \in Tokens(ring)
  PROVE  /\ SlotOf(ring, r) \in 1 .. Len(ring)
         /\ ring[SlotOf(ring, r)].token = r
<1>1. \E i \in DOMAIN ring : ring[i].token = r
  BY DEF Tokens
<1>2. SlotOf(ring, r) \in DOMAIN ring /\ ring[SlotOf(ring, r)].token = r
  BY <1>1 DEF SlotOf
<1> QED
  BY <1>2

\* The ring without a token is a ring, and no longer.
LEMMA WithoutType ==
  ASSUME NEW ring \in Seq(Entries), NEW r \in Requests
  PROVE  /\ Without(ring, r) \in Seq(Entries)
         /\ Len(Without(ring, r)) <= Len(ring)
<1>1. CASE r \notin Tokens(ring)
  BY <1>1 DEF Without
<1>2. CASE r \in Tokens(ring)
  <2> DEFINE i == SlotOf(ring, r)
  <2>1. i \in 1 .. Len(ring)
    BY <1>2, SlotOfType
  <2>2. /\ SubSeq(ring, 1, i - 1) \in Seq(Entries)
        /\ Len(SubSeq(ring, 1, i - 1)) = i - 1
    BY <2>1
  <2>3. /\ SubSeq(ring, i + 1, Len(ring)) \in Seq(Entries)
        /\ Len(SubSeq(ring, i + 1, Len(ring))) = Len(ring) - i
    BY <2>1
  <2>4. Without(ring, r) = SubSeq(ring, 1, i - 1) \o SubSeq(ring, i + 1, Len(ring))
    BY <1>2 DEF Without
  <2>5. \A s, t \in Seq(Entries) : s \o t \in Seq(Entries) /\ Len(s \o t) = Len(s) + Len(t)
    OBVIOUS
  <2>6. /\ Without(ring, r) \in Seq(Entries)
        /\ Len(Without(ring, r)) = (i - 1) + (Len(ring) - i)
    BY ONLY <2>2, <2>3, <2>4, <2>5
  <2> QED
    BY ONLY <2>1, <2>6
<1> QED
  BY <1>1, <1>2

\* An attribution keeps the ring a ring, within its slots.
LEMMA AttributeType ==
  ASSUME NEW ring \in Seq(Entries), Len(ring) <= Slots,
         NEW r \in Requests, NEW b \in Backends
  PROVE  /\ Attribute(ring, r, b) \in Seq(Entries)
         /\ Len(Attribute(ring, r, b)) <= Slots
<1> DEFINE room == IF Len(ring) >= Slots THEN Tail(ring) ELSE ring
<1>1. room \in Seq(Entries) /\ Len(room) < Slots
  BY SlotsAssumption
<1> HIDE DEF room
<1>2. /\ Without(room, r) \in Seq(Entries)
      /\ Len(Without(room, r)) < Slots
  BY <1>1, WithoutType, SlotsAssumption
<1>3. [token |-> r, provider |-> b] \in Entries
  BY DEF Entries
<1>4. Attribute(ring, r, b) = Append(Without(room, r), [token |-> r, provider |-> b])
  BY DEF Attribute, room
<1> QED
  BY <1>2, <1>3, <1>4, SlotsAssumption

-----------------------------------------------------------------------------
(* Types *)

\* The steps of a plan are backends' names.
LEMMA PlanType ==
  ASSUME NEW p \in Plans \union {NoPlan}
  PROVE  /\ p.steps \in Seq(Backends)
         /\ p.maxRetries \in Nat
         /\ p.failoverFirst \in BOOLEAN
<1>1. CASE p \in Plans
  BY <1>1, PlansAssumption
<1>2. CASE p = NoPlan
  BY <1>2 DEF NoPlan
<1> QED
  BY <1>1, <1>2

\* A request at a candidate is at one of its plan's backends.
LEMMA CandidateType ==
  ASSUME TypeOK, NEW r \in Requests, step[r] <= Len(Steps(r))
  PROVE  /\ step[r] \in DOMAIN Steps(r)
         /\ Candidate(r) \in Backends
         /\ breakers[Candidate(r)] \in Breakers
<1>1. Steps(r) \in Seq(Backends) /\ step[r] \in Nat \ {0}
  BY PlanType DEF TypeOK, Steps
<1>2. step[r] \in 1 .. Len(Steps(r))
  BY <1>1
<1>3. Candidate(r) \in Backends
  BY <1>1, <1>2 DEF Candidate
<1> QED
  BY <1>1, <1>2, <1>3 DEF TypeOK

\* Counting one more call keeps the counts a sequence of the same length.
LEMMA CountType ==
  ASSUME NEW s \in Seq(Nat), NEW i \in DOMAIN s
  PROVE  /\ [s EXCEPT ![i] = @ + 1] \in Seq(Nat)
         /\ Len([s EXCEPT ![i] = @ + 1]) = Len(s)
<1>1. s[i] + 1 \in Nat
  OBVIOUS
<1> QED
  BY <1>1, ExceptSeq

\* No call has been made yet at any of the steps of a plan.
LEMMA ZeroType ==
  ASSUME NEW s \in Seq(Backends)
  PROVE  /\ [i \in DOMAIN s |-> 0] \in Seq(Nat)
         /\ Len([i \in DOMAIN s |-> 0]) = Len(s)
<1>1. DOMAIN s = 1 .. Len(s) /\ Len(s) \in Nat
  OBVIOUS
<1>2. [i \in 1 .. Len(s) |-> 0] \in [1 .. Len(s) -> Nat]
  OBVIOUS
<1> QED
  BY <1>1, <1>2

\* Moving on from a candidate of the plan stays within it, or ends just behind it.
LEMMA AdvanceType ==
  ASSUME TypeOK, NEW r \in Requests, step[r] <= Len(Steps(r)), Advance(r)
  PROVE  /\ step' \in [Requests -> Nat \ {0}]
         /\ retries' \in [Requests -> Nat]
         /\ \A q \in Requests : step'[q] <= Len(Steps(q)) + 1
<1>1. /\ step \in [Requests -> Nat \ {0}] /\ retries \in [Requests -> Nat]
      /\ \A q \in Requests : step[q] <= Len(Steps(q)) + 1
  BY DEF TypeOK
<1>2. Len(Steps(r)) \in Nat
  BY PlanType DEF TypeOK, Steps
<1>3. step' = [step EXCEPT ![r] = @ + 1] /\ retries' = [retries EXCEPT ![r] = 0]
  BY DEF Advance
<1> HIDE DEF Steps
<1> QED
  BY <1>1, <1>2, <1>3

\* Every step keeps every variable in its type.
LEMMA TypeStep ==
  ASSUME TypeOK, CallsAreConfigured, IdleIsFresh, [Next]_vars
  PROVE  TypeOK'
<1> USE DEF TypeOK, Errors, Kinds, Phases, Verdicts
<1>1. ASSUME NEW r \in Requests, NEW k \in Kinds, StoreUnavailable(r, k)
      PROVE  TypeOK'
  BY <1>1 DEF StoreUnavailable, Steps
<1>2. ASSUME NEW r \in Requests, NEW k \in Kinds, NEW p \in Plans, Start(r, k, p)
      PROVE  TypeOK'
  <2>1. /\ [i \in DOMAIN p.steps |-> 0] \in Seq(Nat)
        /\ Len([i \in DOMAIN p.steps |-> 0]) = Len(p.steps)
    BY PlanType, ZeroType
  <2>2. /\ calls' \in [Requests -> Seq(Nat)]
        /\ plan' \in [Requests -> Plans \union {NoPlan}]
        /\ pc' \in [Requests -> Phases]
        /\ kind' \in [Requests -> Kinds]
    BY <1>2, <2>1 DEF Start
  <2>3. ASSUME NEW q \in Requests
        PROVE  /\ step[q] <= Len(plan'[q].steps) + 1
               /\ shed[q] \subseteq DOMAIN plan'[q].steps
               /\ Len(calls'[q]) = Len(plan'[q].steps)
    <3>1. CASE q = r
      BY <1>2, <2>1, <3>1, PlanType DEF Start, IdleIsFresh
    <3>2. CASE q # r
      BY <1>2, <3>2 DEF Start, Steps
    <3> QED
      BY <3>1, <3>2
  <2> QED
    BY <1>2, <2>2, <2>3 DEF Start, Steps
<1>3. ASSUME NEW r \in Requests, Shed(r) PROVE TypeOK'
  <2>1. step[r] \in DOMAIN Steps(r)
    BY <1>3, CandidateType DEF Shed, AtCandidate
  <2>2. /\ step' \in [Requests -> Nat \ {0}]
        /\ retries' \in [Requests -> Nat]
        /\ \A q \in Requests : step'[q] <= Len(Steps(q)) + 1
    BY <1>3, AdvanceType DEF Shed, AtCandidate
  <2>3. step[r] \in Nat
    OBVIOUS
  <2> QED
    BY <1>3, <2>1, <2>2, <2>3, ZenonT(60) DEF Shed, Steps
<1>4. ASSUME NEW r \in Requests, Skip(r) PROVE TypeOK'
  <2>1. AfterAllow(breakers[Candidate(r)]) \in Breakers
    BY <1>4, CandidateType, MethodTypes DEF Skip, AtCandidate
  <2>2. /\ step' \in [Requests -> Nat \ {0}]
        /\ retries' \in [Requests -> Nat]
        /\ \A q \in Requests : step'[q] <= Len(Steps(q)) + 1
    BY <1>4, AdvanceType DEF Skip, AtCandidate
  <2> QED
    BY <1>4, <2>1, <2>2 DEF Skip, Steps
<1>5. ASSUME NEW r \in Requests, Dispatch(r) PROVE TypeOK'
  <2>1. AfterAllow(breakers[Candidate(r)]) \in Breakers
    BY <1>5, CandidateType, MethodTypes DEF Dispatch, AtCandidate
  <2>2. step[r] \in DOMAIN calls[r]
    BY <1>5, CandidateType, PlanType DEF Dispatch, AtCandidate, Steps
  <2>3. /\ [calls[r] EXCEPT ![step[r]] = @ + 1] \in Seq(Nat)
        /\ Len([calls[r] EXCEPT ![step[r]] = @ + 1]) = Len(calls[r])
    BY <2>2, CountType
  <2> QED
    BY <1>5, <2>1, <2>3 DEF Dispatch, Steps
<1>6. ASSUME NEW r \in Requests, NEW h \in Breakers, NEW v \in Verdicts,
             pc[r] = "await", Answer(r, h, v)
      PROVE  /\ Candidate(r) \in Configured
             /\ step[r] <= Len(Steps(r))
             /\ breakers' \in [Backends -> Breakers]
             /\ attributions' \in Seq([token : Requests, provider : Backends])
             /\ Len(attributions') <= Slots
             /\ plan' = plan /\ kind' = kind /\ client' = client
             /\ shed' = shed /\ calls' = calls /\ booked' = booked
             /\ verdict' \in [Requests -> Verdicts]
             /\ answeredBy' \in [Requests -> Backends \union {Nobody}]
  <2>1. Candidate(r) \in Configured /\ step[r] <= Len(Steps(r))
    BY <1>6 DEF CallsAreConfigured
  <2>2. Candidate(r) \in Backends
    BY <2>1, BackendsAssumption
  <2>3. /\ attributions' \in Seq(Entries)
        /\ Len(attributions') <= Slots
    BY <1>6, <2>2, AttributeType DEF Answer, Entries
  <2> QED
    BY <1>6, <2>1, <2>2, <2>3 DEF Answer, Entries
<1>7. ASSUME NEW r \in Requests, AnswerOk(r) PROVE TypeOK'
  <2>1. AfterSuccess(breakers[Candidate(r)]) \in Breakers
    BY <1>7, CandidateType, MethodTypes DEF AnswerOk, CallsAreConfigured
  <2> QED
    BY <1>6, <1>7, <2>1, ZenonT(60) DEF AnswerOk, Steps
<1>8. ASSUME NEW r \in Requests, AnswerEmpty(r) PROVE TypeOK'
  <2>1. AfterSuccess(breakers[Candidate(r)]) \in Breakers
    BY <1>8, CandidateType, MethodTypes DEF AnswerEmpty, CallsAreConfigured
  <2> QED
    BY <1>6, <1>8, <2>1 DEF AnswerEmpty, Steps
<1>9. ASSUME NEW r \in Requests, NEW e \in Errors, AnswerError(r, e) PROVE TypeOK'
  <2> DEFINE h == IF IsOutage(e) THEN AfterFailure(breakers[Candidate(r)])
                  ELSE breakers[Candidate(r)]
  <2>1. h \in Breakers
    BY <1>9, CandidateType, MethodTypes DEF AnswerError, CallsAreConfigured
  <2>2. pc[r] = "await" /\ Answer(r, h, "none")
    BY <1>9 DEF AnswerError
  <2> HIDE DEF h
  <2>3. /\ Candidate(r) \in Configured
        /\ step[r] <= Len(Steps(r))
        /\ breakers' \in [Backends -> Breakers]
        /\ attributions' \in Seq([token : Requests, provider : Backends])
        /\ Len(attributions') <= Slots
        /\ plan' = plan /\ kind' = kind /\ client' = client
        /\ shed' = shed /\ calls' = calls /\ booked' = booked
        /\ verdict' \in [Requests -> Verdicts]
        /\ answeredBy' \in [Requests -> Backends \union {Nobody}]
    BY <1>6, <2>1, <2>2
  <2>4. faulted' \subseteq Configured /\ lastError' \in [Requests -> Errors \union {"none"}]
    BY <1>9, <2>3 DEF AnswerError
  <2>5. CASE MayRetry(r, e) /\ ~plan[r].failoverFirst
    <3> DEFINE next == IF plan[r].delay THEN "sleep" ELSE "choose"
    <3>1. next \in Phases
      OBVIOUS
    <3>2. /\ retries' = [retries EXCEPT ![r] = @ + 1]
          /\ pc' = [pc EXCEPT ![r] = next]
          /\ step' = step
      BY <1>9, <2>5 DEF AnswerError
    <3> HIDE DEF next
    <3>3. retries' \in [Requests -> Nat] /\ pc' \in [Requests -> Phases]
      BY <3>1, <3>2
    <3> QED
      BY <2>3, <2>4, <3>2, <3>3 DEF Steps
  <2>6. CASE ~(MayRetry(r, e) /\ ~plan[r].failoverFirst)
    <3>1. Advance(r) /\ pc' \in [Requests -> Phases]
      BY <1>9, <2>6, ZenonT(60) DEF AnswerError
    <3>2. /\ step' \in [Requests -> Nat \ {0}]
          /\ retries' \in [Requests -> Nat]
          /\ \A q \in Requests : step'[q] <= Len(Steps(q)) + 1
      BY <2>3, <3>1, AdvanceType
    <3> QED
      BY <2>3, <2>4, <3>1, <3>2 DEF Steps
  <2> QED
    BY <2>5, <2>6
<1>10. ASSUME NEW r \in Requests,
              Wake(r) \/ EndForward(r) \/ Cancel(r) \/ HangUp(r)
       PROVE  TypeOK'
  <2>1. CASE Wake(r)
    BY <2>1 DEF Wake, Steps
  <2>4. CASE EndForward(r)
    BY <2>4 DEF EndForward, Steps
  <2>2. CASE Cancel(r)
    BY <2>2 DEF Cancel, Steps
  <2>3. CASE HangUp(r)
    BY <2>3 DEF HangUp, Steps
  <2> QED
    BY <1>10, <2>1, <2>2, <2>3, <2>4
<1>11. ASSUME NEW r \in Requests, GiveUp(r) PROVE TypeOK'
  BY <1>11 DEF GiveUp, Steps
<1>12. ASSUME NEW r \in Requests, Book(r) PROVE TypeOK'
  <2>1. Attribution(attributions, r) \in Backends \union {Nobody}
    <3>1. CASE r \in Tokens(attributions)
      <4>1. attributions \in Seq(Entries)
        BY DEF Entries
      <4>2. SlotOf(attributions, r) \in 1 .. Len(attributions)
        BY <3>1, <4>1, SlotOfType
      <4>3. attributions[SlotOf(attributions, r)] \in Entries
        BY <4>1, <4>2
      <4> QED
        BY <3>1, <4>3 DEF Attribution, Entries
    <3>2. CASE r \notin Tokens(attributions)
      BY <3>2 DEF Attribution
    <3> QED
      BY <3>1, <3>2
  <2> QED
    BY <1>12, <2>1 DEF Book, requestVars, Steps
<1>13. CASE Tick
  BY <1>13, MethodTypes DEF Tick, requestVars, Steps
<1>14. CASE UNCHANGED vars
  BY <1>14 DEF vars, requestVars, Steps
<1> QED
  BY <1>1, <1>2, <1>3, <1>4, <1>5, <1>7, <1>8, <1>9, <1>10, <1>11, <1>12, <1>13, <1>14, ZenonT(60)
  DEF Next

-----------------------------------------------------------------------------
(***************************************************************************)
(* One step, one request: a step is the clock's or one request's, and the  *)
(* others' walks stand still.                                              *)
(***************************************************************************)

ActsFor(r) ==
    \/ \E k \in Kinds : StoreUnavailable(r, k) \/ \E p \in Plans : Start(r, k, p)
    \/ Shed(r) \/ Skip(r) \/ Dispatch(r) \/ GiveUp(r) \/ Wake(r)
    \/ AnswerOk(r) \/ AnswerEmpty(r) \/ \E e \in Errors : AnswerError(r, e)
    \/ EndForward(r) \/ Cancel(r) \/ HangUp(r) \/ Book(r)

SameWalk(r) ==
    /\ pc'[r] = pc[r] /\ plan'[r] = plan[r] /\ step'[r] = step[r]
    /\ retries'[r] = retries[r] /\ lastError'[r] = lastError[r]
    /\ shed'[r] = shed[r] /\ verdict'[r] = verdict[r] /\ calls'[r] = calls[r]

\* What a step for r does not change about another request.
LEMMA OthersStandStill ==
  ASSUME TypeOK, NEW r \in Requests, NEW q \in Requests \ {r}, ActsFor(r)
  PROVE  /\ SameWalk(q)
         /\ kind'[q] = kind[q] /\ client'[q] = client[q]
         /\ answeredBy'[q] = answeredBy[q] /\ booked'[q] = booked[q]
<1> USE DEF TypeOK, SameWalk
<1>1. ASSUME NEW k \in Kinds, StoreUnavailable(r, k) \/ \E p \in Plans : Start(r, k, p)
      PROVE  /\ SameWalk(q)
             /\ kind'[q] = kind[q] /\ client'[q] = client[q]
             /\ answeredBy'[q] = answeredBy[q] /\ booked'[q] = booked[q]
  BY <1>1 DEF StoreUnavailable, Start
<1>2. CASE Shed(r) \/ Skip(r) \/ Dispatch(r) \/ GiveUp(r) \/ Wake(r)
  BY <1>2 DEF Shed, Skip, Dispatch, GiveUp, Wake, Advance
<1>3. CASE AnswerOk(r) \/ AnswerEmpty(r)
  BY <1>3 DEF AnswerOk, AnswerEmpty, Answer
<1>4. ASSUME NEW e \in Errors, AnswerError(r, e)
      PROVE  /\ SameWalk(q)
             /\ kind'[q] = kind[q] /\ client'[q] = client[q]
             /\ answeredBy'[q] = answeredBy[q] /\ booked'[q] = booked[q]
  BY <1>4 DEF AnswerError, Answer, Advance
<1>5. CASE EndForward(r) \/ Cancel(r) \/ HangUp(r) \/ Book(r)
  BY <1>5 DEF EndForward, Cancel, HangUp, Book, requestVars
<1> QED
  BY <1>1, <1>2, <1>3, <1>4, <1>5 DEF ActsFor

\* A request whose walk a step changes is the one the step acts for.
LEMMA OneActor ==
  ASSUME TypeOK, [Next]_vars, NEW r \in Requests, ~SameWalk(r)
  PROVE  ActsFor(r)
<1>1. CASE \E q \in Requests : ActsFor(q)
  BY <1>1, OthersStandStill
<1>2. CASE Tick \/ UNCHANGED vars
  BY <1>2 DEF Tick, vars, requestVars, SameWalk
<1> QED
  BY <1>1, <1>2 DEF Next, ActsFor

\* A call goes out only at a candidate there is a backend for.
LEMMA CallsStep ==
  ASSUME TypeOK, CallsAreConfigured, [Next]_vars
  PROVE  CallsAreConfigured'
<1> SUFFICES ASSUME NEW r \in Requests, pc'[r] \in {"await", "sleep"}
             PROVE  step'[r] <= Len(Steps(r)') /\ Candidate(r)' \in Configured
  BY DEF CallsAreConfigured
<1> USE DEF Candidate, Steps
<1>1. CASE SameWalk(r)
  BY <1>1 DEF SameWalk, CallsAreConfigured
<1>2. CASE ActsFor(r)
  <2> USE DEF TypeOK
  <2>1. ASSUME NEW k \in Kinds, StoreUnavailable(r, k) \/ \E p \in Plans : Start(r, k, p)
        PROVE  FALSE
    BY <2>1 DEF StoreUnavailable, Start
  <2>2. CASE Shed(r) \/ Skip(r) \/ GiveUp(r) \/ Wake(r)
    BY <2>2 DEF Shed, Skip, GiveUp, Wake, AtCandidate
  <2>3. CASE Dispatch(r)
    BY <2>3 DEF Dispatch, AtCandidate
  <2>4. CASE AnswerOk(r) \/ AnswerEmpty(r)
    BY <2>4 DEF AnswerOk, AnswerEmpty
  <2>5. ASSUME NEW e \in Errors, AnswerError(r, e)
        PROVE  step'[r] <= Len(Steps(r)') /\ Candidate(r)' \in Configured
    BY <2>5 DEF AnswerError, Answer, CallsAreConfigured
  <2>6. CASE EndForward(r) \/ Cancel(r) \/ HangUp(r) \/ Book(r)
    BY <2>6 DEF EndForward, Cancel, HangUp, Book, requestVars, CallsAreConfigured
  <2> QED
    BY <1>2, <2>1, <2>2, <2>3, <2>4, <2>5, <2>6 DEF ActsFor
<1> QED
  BY <1>1, <1>2, OneActor

\* A request that has not arrived has done nothing.
LEMMA IdleStep ==
  ASSUME TypeOK, IdleIsFresh, [Next]_vars
  PROVE  IdleIsFresh'
<1> SUFFICES ASSUME NEW r \in Requests, pc'[r] = "idle"
             PROVE  /\ plan'[r] = NoPlan /\ step'[r] = 1 /\ retries'[r] = 0
                    /\ lastError'[r] = "none" /\ shed'[r] = {} /\ calls'[r] = <<>>
  BY DEF IdleIsFresh
<1>1. CASE SameWalk(r)
  BY <1>1 DEF SameWalk, IdleIsFresh
<1>2. CASE ActsFor(r)
  <2> USE DEF TypeOK
  <2>1. ASSUME NEW k \in Kinds, StoreUnavailable(r, k) \/ \E p \in Plans : Start(r, k, p)
        PROVE  FALSE
    BY <2>1 DEF StoreUnavailable, Start
  <2>2. CASE Shed(r) \/ Skip(r) \/ Dispatch(r) \/ GiveUp(r) \/ Wake(r)
    BY <2>2 DEF Shed, Skip, Dispatch, GiveUp, Wake, AtCandidate
  <2>3. CASE AnswerOk(r) \/ AnswerEmpty(r) \/ \E e \in Errors : AnswerError(r, e)
    BY <2>3 DEF AnswerOk, AnswerEmpty, AnswerError
  <2>4. CASE EndForward(r) \/ Cancel(r) \/ HangUp(r)
    BY <2>4 DEF EndForward, Cancel, HangUp
  <2>5. CASE Book(r)
    BY <2>5 DEF Book, requestVars, IdleIsFresh
  <2> QED
    BY <1>2, <2>1, <2>2, <2>3, <2>4, <2>5 DEF ActsFor
<1> QED
  BY <1>1, <1>2, OneActor

\* A request gets its verdict in the step that ends its walk.
LEMMA FinalStep ==
  ASSUME TypeOK, VerdictsAreFinal, [Next]_vars
  PROVE  VerdictsAreFinal'
<1> SUFFICES ASSUME NEW r \in Requests, pc'[r] \notin {"forward", "done"}
             PROVE  verdict'[r] = "none"
  BY DEF VerdictsAreFinal
<1>1. CASE SameWalk(r)
  BY <1>1 DEF SameWalk, VerdictsAreFinal
<1>2. CASE ActsFor(r)
  <2> USE DEF TypeOK, VerdictsAreFinal
  <2>1. ASSUME NEW k \in Kinds, StoreUnavailable(r, k) \/ \E p \in Plans : Start(r, k, p)
        PROVE  verdict'[r] = "none"
    BY <2>1 DEF StoreUnavailable, Start
  <2>2. CASE Shed(r) \/ Skip(r) \/ Dispatch(r) \/ GiveUp(r) \/ Wake(r)
    BY <2>2 DEF Shed, Skip, Dispatch, GiveUp, Wake, AtCandidate
  <2>3. CASE AnswerOk(r) \/ AnswerEmpty(r) \/ \E e \in Errors : AnswerError(r, e)
    BY <2>3 DEF AnswerOk, AnswerEmpty, AnswerError, Answer
  <2>4. CASE EndForward(r) \/ Cancel(r) \/ HangUp(r)
    BY <2>4 DEF EndForward, Cancel, HangUp
  <2>5. CASE Book(r)
    BY <2>5 DEF Book, requestVars
  <2> QED
    BY <1>2, <2>1, <2>2, <2>3, <2>4, <2>5 DEF ActsFor
<1> QED
  BY <1>1, <1>2, OneActor

-----------------------------------------------------------------------------
(* The breakers *)

\* Only a failure opens a breaker.
LEMMA MethodsOpen ==
  ASSUME NEW b \in Breakers
  PROVE  /\ AfterAllow(b).opened = b.opened
         /\ AfterSuccess(b).opened # Never => b.opened # Never
         /\ Aged(b).opened # Never => b.opened # Never
<1>1. b.opened \in Ages
  BY DEF Breakers
<1>2. Aged(b).opened = Older(b.opened)
  BY DEF Aged, Breakers
<1>3. AfterAllow(b).opened = b.opened
  BY DEF AfterAllow, Breakers
<1>4. AfterSuccess(b).opened # Never => b.opened # Never
  BY DEF AfterSuccess
<1> QED
  BY <1>1, <1>2, <1>3, <1>4, OlderMonotone

\* A breaker is opened by an outage of its own backend.
LEMMA OpenStep ==
  ASSUME TypeOK, CallsAreConfigured, OpenOnlyIfFaulted, [Next]_vars
  PROVE  OpenOnlyIfFaulted'
<1> SUFFICES ASSUME NEW b \in Backends, breakers'[b].opened # Never
             PROVE  b \in faulted'
  BY DEF OpenOnlyIfFaulted
<1>1. breakers \in [Backends -> Breakers] /\ breakers[b] \in Breakers
  BY DEF TypeOK
<1>2. faulted \subseteq faulted'
  <2>1. ASSUME NEW r \in Requests, ActsFor(r) PROVE faulted \subseteq faulted'
    <3>1. CASE \E e \in Errors : AnswerError(r, e)
      BY <3>1 DEF AnswerError
    <3>2. CASE ~ \E e \in Errors : AnswerError(r, e)
      BY <2>1, <3>2
      DEF ActsFor, StoreUnavailable, Start, Shed, Skip, Dispatch, GiveUp, Wake, AnswerOk,
          AnswerEmpty, EndForward, Cancel, HangUp, Book
    <3> QED
      BY <3>1, <3>2
  <2>2. CASE Tick \/ UNCHANGED vars
    BY <2>2 DEF Tick, vars
  <2> QED
    BY <2>1, <2>2 DEF Next, ActsFor
<1>3. CASE breakers[b].opened # Never
  BY <1>2, <1>3 DEF OpenOnlyIfFaulted
<1>4. CASE breakers[b].opened = Never
  <2>1. ASSUME NEW r \in Requests, Skip(r) \/ Dispatch(r) PROVE FALSE
    <3>1. breakers' = [breakers EXCEPT ![Candidate(r)] = AfterAllow(@)]
      BY <2>1 DEF Skip, Dispatch
    <3> QED
      BY <1>1, <1>4, <3>1, MethodsOpen
  <2>2. ASSUME NEW r \in Requests, AnswerOk(r) \/ AnswerEmpty(r) PROVE FALSE
    <3>1. breakers' = [breakers EXCEPT ![Candidate(r)] = AfterSuccess(breakers[Candidate(r)])]
      BY <2>2 DEF AnswerOk, AnswerEmpty, Answer
    <3> QED
      BY <1>1, <1>4, <3>1, MethodsOpen
  <2>3. ASSUME NEW r \in Requests, NEW e \in Errors, AnswerError(r, e)
        PROVE  b \in faulted'
    <3>1. CASE e = "outage" /\ b = Candidate(r)
      BY <2>3, <3>1 DEF AnswerError
    <3>2. CASE e = "outage" /\ b # Candidate(r)
      BY <1>1, <1>4, <2>3, <3>2 DEF AnswerError, Answer
    <3>3. CASE e # "outage"
      BY <1>1, <1>4, <2>3, <3>3 DEF AnswerError, Answer, IsOutage
    <3> QED
      BY <3>1, <3>2, <3>3
  <2>4. ASSUME NEW r \in Requests,
               \/ \E k \in Kinds : StoreUnavailable(r, k) \/ \E p \in Plans : Start(r, k, p)
               \/ Shed(r) \/ GiveUp(r) \/ Wake(r)
               \/ EndForward(r) \/ Cancel(r) \/ HangUp(r) \/ Book(r)
        PROVE  FALSE
    BY <1>4, <2>4
    DEF StoreUnavailable, Start, Shed, GiveUp, Wake, EndForward, Cancel, HangUp, Book
  <2>5. CASE Tick
    BY <1>1, <1>4, <2>5, MethodsOpen DEF Tick
  <2>6. CASE UNCHANGED vars
    BY <1>4, <2>6 DEF vars
  <2> QED
    BY <2>1, <2>2, <2>3, <2>4, <2>5, <2>6 DEF Next
<1> QED
  BY <1>3, <1>4

-----------------------------------------------------------------------------
(* The walk of one request *)

\* Only a candidate that has a backend is ever refused.
LEMMA ShedsStep ==
  ASSUME TypeOK, OpenOnlyIfFaulted, ShedsAreConfigured, IdleIsFresh, [Next]_vars
  PROVE  ShedsAreConfigured'
<1> SUFFICES ASSUME NEW r \in Requests, NEW i \in shed'[r]
             PROVE  Steps(r)'[i] \in Configured
  BY DEF ShedsAreConfigured
<1> USE DEF TypeOK, Steps
<1>1. CASE SameWalk(r)
  BY <1>1 DEF SameWalk, ShedsAreConfigured
<1>2. CASE ActsFor(r)
  <2>1. ASSUME NEW k \in Kinds, StoreUnavailable(r, k) PROVE Steps(r)'[i] \in Configured
    BY <2>1 DEF StoreUnavailable, ShedsAreConfigured
  <2>2. ASSUME NEW k \in Kinds, NEW p \in Plans, Start(r, k, p) PROVE FALSE
    BY <2>2 DEF Start, IdleIsFresh
  <2>3. CASE Shed(r)
    <3>1. Candidate(r) \in Configured
      BY <2>3, CandidateType DEF Shed, AtCandidate, Allows, OpenOnlyIfFaulted
    <3>2. i = step[r] \/ i \in shed[r]
      BY <2>3 DEF Shed
    <3>3. plan' = plan
      BY <2>3 DEF Shed
    <3> QED
      BY <3>1, <3>2, <3>3 DEF Candidate, ShedsAreConfigured
  <2>4. CASE Skip(r) \/ Dispatch(r) \/ GiveUp(r) \/ Wake(r)
    BY <2>4 DEF Skip, Dispatch, GiveUp, Wake, ShedsAreConfigured
  <2>5. CASE AnswerOk(r) \/ AnswerEmpty(r) \/ \E e \in Errors : AnswerError(r, e)
    BY <2>5 DEF AnswerOk, AnswerEmpty, AnswerError, Answer, ShedsAreConfigured
  <2>6. CASE EndForward(r) \/ Cancel(r) \/ HangUp(r) \/ Book(r)
    BY <2>6 DEF EndForward, Cancel, HangUp, Book, requestVars, ShedsAreConfigured
  <2> QED
    BY <1>2, <2>1, <2>2, <2>3, <2>4, <2>5, <2>6 DEF ActsFor
<1> QED
  BY <1>1, <1>2, OneActor

\* Retries are counted up to what the plan allows.
LEMMA RetriesStep ==
  ASSUME TypeOK, RetriesAllowed, IdleIsFresh, [Next]_vars
  PROVE  RetriesAllowed'
<1> SUFFICES ASSUME NEW r \in Requests
             PROVE  retries'[r] <= IF plan'[r].failoverFirst THEN 0 ELSE plan'[r].maxRetries
  BY DEF RetriesAllowed
<1> DEFINE Goal == retries'[r] <= IF plan'[r].failoverFirst THEN 0 ELSE plan'[r].maxRetries
<1> USE DEF TypeOK
<1>1. CASE SameWalk(r)
  BY <1>1 DEF SameWalk, RetriesAllowed
<1>2. CASE ActsFor(r)
  <2>1. ASSUME NEW k \in Kinds, StoreUnavailable(r, k) PROVE Goal
    BY <2>1 DEF StoreUnavailable, RetriesAllowed
  <2>2. ASSUME NEW k \in Kinds, NEW p \in Plans, Start(r, k, p) PROVE Goal
    <3>1. retries'[r] = 0 /\ plan'[r] = p
      BY <2>2 DEF Start, IdleIsFresh
    <3> QED
      BY <3>1, PlanType
  <2>3. CASE Shed(r) \/ Skip(r)
    <3>1. retries'[r] = 0 /\ plan' = plan
      BY <2>3 DEF Shed, Skip, Advance
    <3>2. plan[r].maxRetries \in Nat
      BY PlanType
    <3> QED
      BY <3>1, <3>2
  <2>4. CASE Dispatch(r) \/ GiveUp(r) \/ Wake(r)
    BY <2>4 DEF Dispatch, GiveUp, Wake, RetriesAllowed
  <2>5. CASE AnswerOk(r) \/ AnswerEmpty(r)
    BY <2>5 DEF AnswerOk, AnswerEmpty, Answer, RetriesAllowed
  <2>6. ASSUME NEW e \in Errors, AnswerError(r, e) PROVE Goal
    <3>1. plan[r].maxRetries \in Nat /\ plan' = plan
      BY <2>6, PlanType DEF AnswerError, Answer
    <3>2. CASE MayRetry(r, e) /\ ~plan[r].failoverFirst
      <4>1. retries'[r] = retries[r] + 1
        BY <2>6, <3>2 DEF AnswerError
      <4>2. retries[r] < plan[r].maxRetries /\ retries[r] \in Nat
        BY <3>2 DEF MayRetry
      <4> QED
        BY <3>1, <3>2, <4>1, <4>2
    <3>3. CASE ~(MayRetry(r, e) /\ ~plan[r].failoverFirst)
      <4>1. retries'[r] = 0
        BY <2>6, <3>3 DEF AnswerError, Advance
      <4> QED
        BY <3>1, <4>1
    <3> QED
      BY <3>2, <3>3
  <2>7. CASE EndForward(r) \/ Cancel(r) \/ HangUp(r) \/ Book(r)
    BY <2>7 DEF EndForward, Cancel, HangUp, Book, requestVars, RetriesAllowed
  <2> QED
    BY <1>2, <2>1, <2>2, <2>3, <2>4, <2>5, <2>6, <2>7 DEF ActsFor
<1> QED
  BY <1>1, <1>2, OneActor

\* Of a request's calls a step counts one more, at the candidate a call goes to.
LEMMA CallsCounted ==
  ASSUME TypeOK, NEW r \in Requests, Dispatch(r), NEW i \in DOMAIN Steps(r)
  PROVE  /\ calls'[r][i] = IF i = step[r] THEN calls[r][i] + 1 ELSE calls[r][i]
         /\ calls[r][i] \in Nat
<1>1. calls[r] \in Seq(Nat) /\ Len(calls[r]) = Len(Steps(r)) /\ Steps(r) \in Seq(Backends)
  BY PlanType DEF TypeOK, Steps
<1>2. i \in DOMAIN calls[r]
  BY <1>1
<1>3. calls' = [calls EXCEPT ![r] = [calls[r] EXCEPT ![step[r]] = @ + 1]]
  BY DEF Dispatch
<1>4. calls'[r] = [calls[r] EXCEPT ![step[r]] = @ + 1]
  BY <1>3 DEF TypeOK
<1> QED
  BY <1>1, <1>2, <1>4

\* What WalksInOrder says of one request and one of its steps.
InOrder(r, i) ==
    /\ i > step[r] => calls[r][i] = 0
    /\ i >= step[r] => i \notin shed[r]
    /\ i = step[r] /\ pc[r] \in {"choose", "await", "sleep"} => calls[r][i] = CallsHere(r)
    /\ i < step[r] /\ Steps(r)[i] \in Configured => calls[r][i] > 0 \/ i \in shed[r]

\* A walk leaves each candidate behind called, shed or without a backend.
LEMMA OrderStep ==
  ASSUME TypeOK, CallsAreConfigured, WalksInOrder, IdleIsFresh, [Next]_vars
  PROVE  WalksInOrder'
<1> SUFFICES ASSUME NEW r \in Requests, NEW i \in DOMAIN Steps(r)'
             PROVE  InOrder(r, i)'
  BY DEF WalksInOrder, InOrder
<1>1. ASSUME i \in DOMAIN Steps(r) PROVE InOrder(r, i)
  BY <1>1 DEF WalksInOrder, InOrder
<1>2. /\ step[r] \in Nat \ {0} /\ retries[r] \in Nat
      /\ i \in DOMAIN Steps(r) => calls[r][i] \in Nat /\ i \in Nat
  <2>1. calls[r] \in Seq(Nat) /\ Len(calls[r]) = Len(Steps(r)) /\ Steps(r) \in Seq(Backends)
    BY PlanType DEF TypeOK, Steps
  <2> QED
    BY <2>1 DEF TypeOK
<1>3. CASE SameWalk(r)
  BY <1>1, <1>3 DEF SameWalk, InOrder, Steps, CallsHere
<1>4. CASE ActsFor(r) /\ plan'[r] # plan[r]
  <2>1. PICK k \in Kinds, p \in Plans : Start(r, k, p)
    BY <1>4
    DEF ActsFor, StoreUnavailable, Shed, Skip, Dispatch, GiveUp, Wake, AnswerOk, AnswerEmpty,
        AnswerError, Answer, EndForward, Cancel, HangUp, Book, requestVars
  <2>2. /\ step'[r] = 1 /\ retries'[r] = 0 /\ shed'[r] = {} /\ pc'[r] = "choose"
        /\ plan'[r] = p
        /\ calls'[r] = [j \in DOMAIN p.steps |-> 0]
    BY <2>1 DEF Start, IdleIsFresh, TypeOK
  <2>3. i \in DOMAIN p.steps /\ p.steps \in Seq(Backends)
    BY <2>2, PlanType DEF Steps
  <2>4. i \in Nat \ {0} /\ calls'[r][i] = 0
    BY <2>2, <2>3
  <2> QED
    BY <2>2, <2>4 DEF InOrder, CallsHere
<1>5. CASE ActsFor(r) /\ plan'[r] = plan[r]
  <2>1. i \in DOMAIN Steps(r) /\ Steps(r)' = Steps(r) /\ InOrder(r, i)
    BY <1>1, <1>5 DEF Steps
  <2>2. /\ calls[r][i] \in Nat /\ i \in Nat
        /\ step[r] \in Nat \ {0} /\ retries[r] \in Nat
    BY <1>2, <2>1
  <2> USE DEF TypeOK, InOrder, CallsHere
  <2>3. ASSUME NEW k \in Kinds, StoreUnavailable(r, k) PROVE InOrder(r, i)'
    BY <2>1, <2>2, <2>3 DEF StoreUnavailable
  <2>4. ASSUME NEW k \in Kinds, NEW p \in Plans, Start(r, k, p) PROVE InOrder(r, i)'
    <3>1. Steps(r) = <<>>
      BY <2>4 DEF Start, IdleIsFresh, Steps, NoPlan
    <3> QED
      BY <2>1, <3>1
  <2>5. CASE Shed(r)
    <3>1. /\ step'[r] = step[r] + 1 /\ retries'[r] = 0 /\ pc'[r] = "choose"
          /\ shed'[r] = shed[r] \union {step[r]} /\ calls'[r] = calls[r]
      BY <2>5 DEF Shed, Advance, AtCandidate
    <3> QED
      BY <2>1, <2>2, <3>1
  <2>6. CASE Skip(r)
    <3>1. /\ step'[r] = step[r] + 1 /\ retries'[r] = 0 /\ pc'[r] = "choose"
          /\ shed'[r] = shed[r] /\ calls'[r] = calls[r]
          /\ Steps(r)[step[r]] \notin Configured
      BY <2>6 DEF Skip, Advance, AtCandidate, Candidate
    <3> QED
      BY <2>1, <2>2, <3>1
  <2>7. CASE Dispatch(r)
    <3>1. /\ step'[r] = step[r] /\ retries'[r] = retries[r]
          /\ pc[r] = "choose" /\ pc'[r] = "await" /\ shed'[r] = shed[r]
      BY <2>7 DEF Dispatch, AtCandidate
    <3>2. calls'[r][i] = IF i = step[r] THEN calls[r][i] + 1 ELSE calls[r][i]
      BY <2>1, <2>7, CallsCounted
    <3> QED
      BY <2>1, <2>2, <3>1, <3>2
  <2>8. CASE AnswerOk(r) \/ AnswerEmpty(r) \/ GiveUp(r) \/ EndForward(r)
    <3>1. /\ step'[r] = step[r] /\ shed'[r] = shed[r] /\ calls'[r] = calls[r]
          /\ pc'[r] \in {"forward", "done"}
      BY <2>8 DEF AnswerOk, AnswerEmpty, Answer, GiveUp, EndForward
    <3> QED
      BY <2>1, <2>2, <3>1
  <2>9. ASSUME NEW e \in Errors, AnswerError(r, e) PROVE InOrder(r, i)'
    <3>1. /\ pc[r] = "await" /\ shed'[r] = shed[r] /\ calls'[r] = calls[r]
      BY <2>9 DEF AnswerError, Answer
    <3>2. CASE MayRetry(r, e) /\ ~plan[r].failoverFirst
      <4>1. /\ step'[r] = step[r] /\ retries'[r] = retries[r] + 1
            /\ pc'[r] # "await"
        BY <2>9, <3>2 DEF AnswerError
      <4> QED
        BY <2>1, <2>2, <3>1, <4>1
    <3>3. CASE ~(MayRetry(r, e) /\ ~plan[r].failoverFirst)
      <4>1. /\ step'[r] = step[r] + 1 /\ retries'[r] = 0
            /\ pc'[r] = "choose"
        BY <2>9, <3>3 DEF AnswerError, Advance
      <4> QED
        BY <2>1, <2>2, <3>1, <4>1
    <3> QED
      BY <3>2, <3>3
  <2>10. CASE Wake(r)
    <3>1. /\ step'[r] = step[r] /\ retries'[r] = retries[r] /\ shed'[r] = shed[r]
          /\ calls'[r] = calls[r] /\ pc[r] = "sleep" /\ pc'[r] = "choose"
      BY <2>10 DEF Wake
    <3> QED
      BY <2>1, <2>2, <3>1
  <2>11. CASE Cancel(r) \/ HangUp(r) \/ Book(r)
    <3>1. /\ step'[r] = step[r] /\ retries'[r] = retries[r] /\ shed'[r] = shed[r]
          /\ calls'[r] = calls[r] /\ pc'[r] \in {pc[r], "done"}
      BY <2>11 DEF Cancel, HangUp, Book, requestVars
    <3> QED
      BY <2>1, <2>2, <3>1
  <2> QED
    BY <1>5, <2>3, <2>4, <2>5, <2>6, <2>7, <2>8, <2>9, <2>10, <2>11 DEF ActsFor
<1> QED
  BY <1>3, <1>4, <1>5, OneActor

\* A candidate is called again only while its retries last.
LEMMA AttemptsStep ==
  ASSUME TypeOK, WalksInOrder, RetriesAllowed, BoundedAttempts, IdleIsFresh, [Next]_vars
  PROVE  BoundedAttempts'
<1> DEFINE Bound(r) == IF plan[r].failoverFirst THEN 1 ELSE 1 + plan[r].maxRetries
<1> SUFFICES ASSUME NEW r \in Requests, NEW i \in DOMAIN Steps(r)'
             PROVE  calls'[r][i] <= Bound(r)'
  BY DEF BoundedAttempts
<1>1. plan'[r] = plan[r] /\ calls'[r] = calls[r] => calls'[r][i] <= Bound(r)'
  BY DEF BoundedAttempts, Steps
<1>2. CASE SameWalk(r)
  BY <1>1, <1>2 DEF SameWalk
<1>3. CASE ActsFor(r)
  <2>1. ASSUME NEW k \in Kinds, StoreUnavailable(r, k) PROVE calls'[r][i] <= Bound(r)'
    BY <1>1, <2>1 DEF StoreUnavailable
  <2>2. ASSUME NEW k \in Kinds, NEW p \in Plans, Start(r, k, p)
        PROVE  calls'[r][i] <= Bound(r)'
    <3>1. plan'[r] = p /\ calls'[r] = [j \in DOMAIN p.steps |-> 0]
      BY <2>2 DEF Start, TypeOK
    <3>2. i \in DOMAIN p.steps /\ p.maxRetries \in Nat
      BY <3>1, PlanType DEF Steps
    <3> QED
      BY <3>1, <3>2
  <2>3. CASE Dispatch(r)
    <3>1. plan'[r] = plan[r] /\ i \in DOMAIN Steps(r)
      BY <2>3 DEF Dispatch, Steps
    <3>2. /\ calls'[r][i] = IF i = step[r] THEN calls[r][i] + 1 ELSE calls[r][i]
          /\ calls[r][i] <= Bound(r)
      BY <2>3, <3>1, CallsCounted DEF BoundedAttempts
    <3>3. /\ retries[r] \in Nat
          /\ retries[r] <= IF plan[r].failoverFirst THEN 0 ELSE plan[r].maxRetries
          /\ plan[r].maxRetries \in Nat
      BY PlanType DEF RetriesAllowed, TypeOK
    <3>4. i = step[r] => calls[r][i] = retries[r]
      <4>1. i = step[r] => calls[r][i] = retries[r] + 0
        BY <2>3, <3>1 DEF WalksInOrder, CallsHere, Dispatch, AtCandidate
      <4> QED
        BY <3>3, <4>1
    <3> QED
      BY <3>1, <3>2, <3>3, <3>4
  <2>4. CASE \/ Shed(r) \/ Skip(r) \/ GiveUp(r) \/ Wake(r)
             \/ AnswerOk(r) \/ AnswerEmpty(r) \/ \E e \in Errors : AnswerError(r, e)
             \/ EndForward(r) \/ Cancel(r) \/ HangUp(r) \/ Book(r)
    BY <1>1, <2>4
    DEF Shed, Skip, GiveUp, Wake, AnswerOk, AnswerEmpty, AnswerError, Answer, EndForward,
        Cancel, HangUp, Book, requestVars
  <2> QED
    BY <1>3, <2>1, <2>2, <2>3, <2>4 DEF ActsFor
<1> QED
  BY <1>2, <1>3, OneActor

\* What ErrorsAreRemembered says of one request.
Remembered(r) ==
    /\ lastError[r] # "none" => Asked(r)
    /\ retries[r] > 0 => lastError[r] # "none"
    /\ \A i \in DOMAIN Steps(r) : i < step[r] /\ calls[r][i] > 0 => lastError[r] # "none"

\* A failed call is remembered when the walk goes on.
LEMMA ErrorsStep ==
  ASSUME TypeOK, CallsAreConfigured, WalksInOrder, ErrorsAreRemembered, IdleIsFresh,
         [Next]_vars
  PROVE  ErrorsAreRemembered'
<1> SUFFICES ASSUME NEW r \in Requests PROVE Remembered(r)'
  BY DEF ErrorsAreRemembered, Remembered
<1>1. Remembered(r)
  BY DEF ErrorsAreRemembered, Remembered
<1>2. /\ step[r] \in Nat \ {0} /\ retries[r] \in Nat
      /\ \A i \in DOMAIN Steps(r) : i \in Nat /\ calls[r][i] \in Nat
  <2>1. calls[r] \in Seq(Nat) /\ Len(calls[r]) = Len(Steps(r)) /\ Steps(r) \in Seq(Backends)
    BY PlanType DEF TypeOK, Steps
  <2> QED
    BY <2>1 DEF TypeOK
<1>3. CASE SameWalk(r)
  BY <1>1, <1>3 DEF SameWalk, Remembered, Asked, Steps
<1>4. CASE ActsFor(r)
  <2> USE DEF TypeOK, Remembered, Asked
  <2>1. ASSUME NEW k \in Kinds, StoreUnavailable(r, k) PROVE Remembered(r)'
    BY <1>1, <2>1 DEF StoreUnavailable, Steps
  <2>2. ASSUME NEW k \in Kinds, NEW p \in Plans, Start(r, k, p) PROVE Remembered(r)'
    <3>1. /\ lastError'[r] = "none" /\ retries'[r] = 0 /\ step'[r] = 1
          /\ calls'[r] = [j \in DOMAIN p.steps |-> 0] /\ Steps(r)' = p.steps
      BY <2>2 DEF Start, IdleIsFresh, Steps
    <3> QED
      BY <3>1
  <2>3. CASE Shed(r) \/ Skip(r)
    <3>1. /\ pc[r] = "choose" /\ lastError' = lastError /\ calls' = calls
          /\ retries'[r] = 0 /\ step'[r] = step[r] + 1 /\ Steps(r)' = Steps(r)
      BY <2>3 DEF Shed, Skip, Advance, AtCandidate, Steps
    <3>2. \A i \in DOMAIN Steps(r) : i = step[r] => calls[r][i] = retries[r]
      <4>1. \A i \in DOMAIN Steps(r) : i = step[r] => calls[r][i] = CallsHere(r)
        BY ONLY <3>1, WalksInOrder, r \in Requests DEF WalksInOrder
      <4>2. CallsHere(r) = retries[r]
        BY ONLY <1>2, <3>1 DEF CallsHere
      <4> QED
        BY ONLY <4>1, <4>2
    <3>3. \A i \in DOMAIN Steps(r) :
             i < step[r] + 1 /\ calls[r][i] > 0 => lastError[r] # "none"
      BY <1>1, <1>2, <3>2
    <3> QED
      BY <1>1, <3>1, <3>3
  <2>4. CASE Dispatch(r)
    <3>1. /\ lastError' = lastError /\ retries' = retries /\ step' = step
          /\ Steps(r)' = Steps(r)
      BY <2>4 DEF Dispatch, Steps
    <3>2. \A i \in DOMAIN Steps(r) :
             /\ i # step[r] => calls'[r][i] = calls[r][i]
             /\ calls[r][i] > 0 => calls'[r][i] > 0
      <4> SUFFICES ASSUME NEW i \in DOMAIN Steps(r)
                   PROVE  /\ i # step[r] => calls'[r][i] = calls[r][i]
                          /\ calls[r][i] > 0 => calls'[r][i] > 0
        OBVIOUS
      <4>1. /\ calls'[r][i] = IF i = step[r] THEN calls[r][i] + 1 ELSE calls[r][i]
            /\ calls[r][i] \in Nat
        BY <2>4, CallsCounted
      <4> QED
        BY ONLY <4>1
    <3>3. Asked(r) => Asked(r)'
      BY ONLY <3>1, <3>2 DEF Asked
    <3>4. \A i \in DOMAIN Steps(r)' :
             i < step'[r] /\ calls'[r][i] > 0 => lastError'[r] # "none"
      <4>1. /\ step'[r] = step[r] /\ lastError'[r] = lastError[r]
            /\ \A i \in DOMAIN Steps(r) : i < step[r] => calls'[r][i] = calls[r][i]
        BY <1>2, <3>1, <3>2
      <4> QED
        BY ONLY <1>1, <3>1, <4>1 DEF Remembered
    <3> QED
      BY ONLY <1>1, <3>1, <3>3, <3>4 DEF Remembered
  <2>5. ASSUME NEW e \in Errors, AnswerError(r, e) PROVE Remembered(r)'
    <3>1. /\ pc[r] = "await" /\ lastError'[r] = e /\ calls' = calls
          /\ Steps(r)' = Steps(r)
      BY <2>5 DEF AnswerError, Answer, Steps
    <3>2. step[r] \in DOMAIN Steps(r)
      BY <3>1, CandidateType DEF CallsAreConfigured
    <3>3. calls[r][step[r]] = retries[r] + 1
      BY <3>1, <3>2 DEF WalksInOrder, CallsHere
    <3>4. calls[r][step[r]] > 0
      BY <1>2, <3>3
    <3> QED
      BY <3>1, <3>2, <3>4 DEF Errors
  <2>6. CASE \/ GiveUp(r) \/ Wake(r) \/ AnswerOk(r) \/ AnswerEmpty(r)
             \/ EndForward(r) \/ Cancel(r) \/ HangUp(r) \/ Book(r)
    BY <1>1, <2>6
    DEF GiveUp, Wake, AnswerOk, AnswerEmpty, Answer, EndForward, Cancel, HangUp, Book,
        requestVars, Steps
  <2> QED
    BY <1>4, <2>1, <2>2, <2>3, <2>4, <2>5, <2>6 DEF ActsFor
<1> QED
  BY <1>3, <1>4, OneActor

-----------------------------------------------------------------------------
(* The end of a walk *)

\* At the end of a walk every configured candidate was asked or refused.
LEMMA AllTried ==
  ASSUME TypeOK, WalksInOrder, NEW r \in Requests, step[r] > Len(Steps(r)),
         NEW i \in DOMAIN Steps(r), Steps(r)[i] \in Configured
  PROVE  /\ i < step[r]
         /\ calls[r][i] > 0 \/ i \in shed[r]
<1>1. step[r] \in Nat /\ Steps(r) \in Seq(Backends)
  BY PlanType DEF TypeOK, Steps
<1>2. i < step[r]
  BY <1>1
<1> QED
  BY <1>2 DEF WalksInOrder

\* What VerdictMatchesHistory and GivesUpOnlyAfterAll say of one request.
TrueVerdict(r) ==
    /\ verdict[r] \in Errors => Asked(r) /\ verdict[r] = lastError[r]
    /\ verdict[r] = "all_tripped" =>
          ~Asked(r) /\ \E i \in DOMAIN Steps(r) : Steps(r)[i] \in Configured
    /\ verdict[r] = "no_candidate" =>
          \A i \in DOMAIN Steps(r) : Steps(r)[i] \notin Configured
    /\ verdict[r] \in Errors \union {"all_tripped", "no_candidate"} =>
          \A i \in DOMAIN Steps(r) :
              Steps(r)[i] \in Configured => calls[r][i] > 0 \/ i \in shed[r]

\* The verdict of a request that gives up is true.
LEMMA GiveUpIsTrue ==
  ASSUME TypeOK, ShedsAreConfigured, WalksInOrder, ErrorsAreRemembered,
         NEW r \in Requests, GiveUp(r)
  PROVE  TrueVerdict(r)'
<1>1. /\ step[r] > Len(Steps(r))
      /\ Steps(r)' = Steps(r) /\ calls' = calls /\ shed' = shed /\ lastError' = lastError
  BY DEF GiveUp, Steps
<1>2. verdict'[r] = IF lastError[r] # "none" THEN lastError[r]
                    ELSE IF shed[r] # {} THEN "all_tripped" ELSE "no_candidate"
  BY DEF GiveUp, TypeOK
<1>3. \A i \in DOMAIN Steps(r) :
         Steps(r)[i] \in Configured => calls[r][i] > 0 \/ i \in shed[r]
  BY <1>1, AllTried
<1>4. lastError[r] # "none" => Asked(r)
  BY DEF ErrorsAreRemembered
<1>5. Asked(r) => lastError[r] # "none"
  <2> SUFFICES ASSUME NEW i \in DOMAIN Steps(r), calls[r][i] > 0
               PROVE  lastError[r] # "none"
    BY DEF Asked
  <2>1. step[r] \in Nat /\ Steps(r) \in Seq(Backends)
    BY PlanType DEF TypeOK, Steps
  <2>2. i < step[r]
    BY <1>1, <2>1
  <2> QED
    BY <2>2 DEF ErrorsAreRemembered
<1>6. Asked(r)' <=> Asked(r)
  BY <1>1 DEF Asked
<1>7. CASE lastError[r] # "none"
  <2>1. verdict'[r] = lastError[r] /\ lastError[r] \in Errors
    BY <1>2, <1>7 DEF TypeOK
  <2> QED
    BY <1>1, <1>3, <1>4, <1>6, <1>7, <2>1 DEF TrueVerdict, Errors
<1>8. CASE lastError[r] = "none" /\ shed[r] # {}
  <2>1. verdict'[r] = "all_tripped"
    BY <1>2, <1>8
  <2>2. \E i \in DOMAIN Steps(r) : Steps(r)[i] \in Configured
    BY <1>8 DEF ShedsAreConfigured, TypeOK
  <2> QED
    BY <1>1, <1>3, <1>5, <1>6, <1>8, <2>1, <2>2 DEF TrueVerdict, Errors
<1>9. CASE lastError[r] = "none" /\ shed[r] = {}
  <2>1. verdict'[r] = "no_candidate"
    BY <1>2, <1>9
  <2>2. \A i \in DOMAIN Steps(r) : Steps(r)[i] \notin Configured
    BY <1>3, <1>5, <1>9 DEF Asked
  <2> QED
    BY <1>1, <1>3, <2>1, <2>2 DEF TrueVerdict, Errors
<1> QED
  BY <1>7, <1>8, <1>9

\* A verdict is true when it is given, and of what no longer changes.
LEMMA VerdictStep ==
  ASSUME TypeOK, ShedsAreConfigured, WalksInOrder, ErrorsAreRemembered, VerdictsAreFinal,
         VerdictMatchesHistory, GivesUpOnlyAfterAll, [Next]_vars
  PROVE  VerdictMatchesHistory' /\ GivesUpOnlyAfterAll'
<1> SUFFICES ASSUME NEW r \in Requests PROVE TrueVerdict(r)'
  BY DEF VerdictMatchesHistory, GivesUpOnlyAfterAll, TrueVerdict
<1>1. TrueVerdict(r)
  BY DEF VerdictMatchesHistory, GivesUpOnlyAfterAll, TrueVerdict
<1>2. CASE SameWalk(r)
  <2>1. Steps(r)' = Steps(r) /\ (Asked(r)' <=> Asked(r))
    BY <1>2 DEF SameWalk, Steps, Asked
  <2> QED
    BY <1>1, <1>2, <2>1 DEF SameWalk, TrueVerdict
<1>3. CASE verdict'[r] \notin Errors \union {"all_tripped", "no_candidate"}
  BY <1>3 DEF TrueVerdict
<1>4. CASE ActsFor(r)
  <2> USE DEF TypeOK
  <2>1. ASSUME NEW k \in Kinds, StoreUnavailable(r, k) PROVE TrueVerdict(r)'
    BY <1>3, <2>1 DEF StoreUnavailable, Errors
  <2>2. ASSUME \/ \E k \in Kinds, p \in Plans : Start(r, k, p)
               \/ Shed(r) \/ Skip(r) \/ Dispatch(r) \/ Wake(r)
        PROVE  TrueVerdict(r)'
    <3>1. verdict' = verdict /\ pc[r] \notin {"forward", "done"}
      BY <2>2 DEF Start, Shed, Skip, Dispatch, Wake, AtCandidate
    <3>2. verdict'[r] = "none"
      BY <3>1 DEF VerdictsAreFinal
    <3> QED
      BY <1>3, <3>2 DEF Errors
  <2>3. CASE AnswerOk(r) \/ AnswerEmpty(r) \/ \E e \in Errors : AnswerError(r, e)
    <3>1. verdict'[r] \in {"served", "empty", "none"}
      BY <2>3 DEF AnswerOk, AnswerEmpty, AnswerError, Answer
    <3> QED
      BY <1>3, <3>1 DEF Errors
  <2>4. CASE GiveUp(r)
    BY <2>4, GiveUpIsTrue
  <2>5. CASE Cancel(r)
    BY <1>3, <2>5 DEF Cancel, Errors
  <2>6. CASE EndForward(r) \/ HangUp(r) \/ Book(r)
    <3>1. /\ plan' = plan /\ calls' = calls /\ shed' = shed
          /\ lastError' = lastError /\ verdict' = verdict
      BY <2>6 DEF EndForward, HangUp, Book, requestVars
    <3>2. Steps(r)' = Steps(r) /\ (Asked(r)' <=> Asked(r))
      BY <3>1 DEF Steps, Asked
    <3> QED
      BY <1>1, <3>1, <3>2 DEF TrueVerdict
  <2> QED
    BY <1>4, <2>1, <2>2, <2>3, <2>4, <2>5, <2>6 DEF ActsFor
<1> QED
  BY <1>2, <1>4, OneActor

-----------------------------------------------------------------------------
(* The ring and the books *)

\* What RingIsTrue says of a ring and of who answered whom.
TrueRing(ring, who) ==
    /\ \A i, j \in DOMAIN ring : ring[i].token = ring[j].token => i = j
    /\ \A i \in DOMAIN ring : ring[i].provider = who[ring[i].token]

\* The oldest entry may be forgotten.
LEMMA TailIsTrue ==
  ASSUME NEW ring \in Seq(Entries), ring # <<>>, NEW who, TrueRing(ring, who)
  PROVE  TrueRing(Tail(ring), who)
<1>1. /\ Len(Tail(ring)) = Len(ring) - 1
      /\ \A i \in 1 .. Len(Tail(ring)) : i + 1 \in 1 .. Len(ring) /\ Tail(ring)[i] = ring[i + 1]
  OBVIOUS
<1>2. Tail(ring) \in Seq(Entries)
  OBVIOUS
<1>3. DOMAIN ring = 1 .. Len(ring) /\ DOMAIN Tail(ring) = 1 .. Len(Tail(ring))
  BY <1>2
<1> QED
  BY <1>1, <1>3, SMTT(60) DEF TrueRing

\* A token's entry may be taken out, and it was the only one of the token.
LEMMA WithoutIsTrue ==
  ASSUME NEW ring \in Seq(Entries), NEW r \in Requests, NEW who, TrueRing(ring, who)
  PROVE  /\ TrueRing(Without(ring, r), who)
         /\ \A i \in DOMAIN Without(ring, r) : Without(ring, r)[i].token # r
<1>1. CASE r \notin Tokens(ring)
  <2>1. Without(ring, r) = ring
    BY <1>1 DEF Without
  <2>2. \A i \in DOMAIN ring : ring[i].token # r
    BY <1>1 DEF Tokens
  <2> QED
    BY <2>1, <2>2
<1>2. CASE r \in Tokens(ring)
  <2> DEFINE n == SlotOf(ring, r)
             s == SubSeq(ring, 1, n - 1)
             t == SubSeq(ring, n + 1, Len(ring))
             old(i) == IF i < n THEN i ELSE i + 1
  <2>1. n \in 1 .. Len(ring) /\ ring[n].token = r
    BY <1>2, SlotOfType
  <2> HIDE DEF n
  <2>2. /\ s \in Seq(Entries) /\ Len(s) = n - 1
        /\ \A i \in 1 .. n - 1 : s[i] = ring[i]
    BY <2>1
  <2>3. /\ t \in Seq(Entries) /\ Len(t) = Len(ring) - n
        /\ \A i \in 1 .. Len(ring) - n : t[i] = ring[n + i]
    BY <2>1
  <2> HIDE DEF s, t
  <2>4. Without(ring, r) = s \o t
    BY <1>2 DEF Without, n, s, t
  <2>5. /\ s \o t \in Seq(Entries) /\ Len(s \o t) = Len(ring) - 1
        /\ \A i \in 1 .. Len(ring) - 1 :
              (s \o t)[i] = IF i <= n - 1 THEN s[i] ELSE t[i - (n - 1)]
    <3>1. /\ s \o t \in Seq(Entries) /\ Len(s \o t) = Len(s) + Len(t)
          /\ \A i \in 1 .. Len(s) + Len(t) :
                (s \o t)[i] = IF i <= Len(s) THEN s[i] ELSE t[i - Len(s)]
      BY <2>2, <2>3, ConcatProperties
    <3>2. Len(s) + Len(t) = Len(ring) - 1 /\ Len(s) = n - 1
      BY <2>1, <2>2, <2>3
    <3> QED
      BY ONLY <3>1, <3>2
  <2>6. DOMAIN (s \o t) = 1 .. Len(ring) - 1 /\ DOMAIN ring = 1 .. Len(ring)
    BY <2>5
  <2>7. ASSUME NEW i \in 1 .. Len(ring) - 1
        PROVE  /\ old(i) \in 1 .. Len(ring) /\ old(i) # n
               /\ (s \o t)[i] = ring[old(i)]
    <3>1. CASE i < n
      BY <2>1, <2>2, <2>5, <3>1
    <3>2. CASE i >= n
      <4>1. i - (n - 1) \in 1 .. Len(ring) - n /\ n + (i - (n - 1)) = i + 1
        BY <2>1, <3>2
      <4> QED
        BY <2>1, <2>3, <2>5, <3>2, <4>1, SMTT(60)
    <3>3. i < n \/ i >= n
      BY <2>1
    <3> QED
      BY ONLY <3>1, <3>2, <3>3
  <2>8. \A i, j \in 1 .. Len(ring) - 1 : old(i) = old(j) => i = j
    BY <2>1, SMTT(60)
  <2> HIDE DEF old
  <2>9. TrueRing(s \o t, who)
    <3>1. ASSUME NEW i \in 1 .. Len(ring) - 1, NEW j \in 1 .. Len(ring) - 1,
                 (s \o t)[i].token = (s \o t)[j].token
          PROVE  i = j
      <4>1. ring[old(i)].token = ring[old(j)].token
        BY <2>7, <3>1
      <4>2. old(i) = old(j)
        BY <2>6, <2>7, <4>1, ZenonT(60) DEF TrueRing
      <4> QED
        BY <2>8, <4>2
    <3>2. ASSUME NEW i \in 1 .. Len(ring) - 1
          PROVE  (s \o t)[i].provider = who[(s \o t)[i].token]
      <4>1. old(i) \in DOMAIN ring /\ (s \o t)[i] = ring[old(i)]
        BY <2>6, <2>7, ZenonT(60)
      <4>2. ring[old(i)].provider = who[ring[old(i)].token]
        BY ONLY <4>1, TrueRing(ring, who), SMTT(60) DEF TrueRing
      <4> QED
        BY ONLY <4>1, <4>2, SMTT(60)
    <3> QED
      BY <2>6, <3>1, <3>2 DEF TrueRing
  <2>10. \A i \in DOMAIN (s \o t) : (s \o t)[i].token # r
    <3>1. ASSUME NEW i \in 1 .. Len(ring) - 1, (s \o t)[i].token = r
          PROVE  FALSE
      <4>1. ring[old(i)].token = ring[n].token
        BY <2>1, <2>7, <3>1
      <4> QED
        BY <2>1, <2>6, <2>7, <4>1 DEF TrueRing
    <3> QED
      BY <2>6, <3>1, ZenonT(60)
  <2> QED
    BY <2>4, <2>9, <2>10
<1> QED
  BY <1>1, <1>2

\* After an attribution the ring names the request's last answerer too.
LEMMA AttributeIsTrue ==
  ASSUME NEW ring \in Seq(Entries), NEW r \in Requests, NEW b \in Backends,
         NEW who \in [Requests -> Backends \union {Nobody}], TrueRing(ring, who)
  PROVE  TrueRing(Attribute(ring, r, b), [who EXCEPT ![r] = b])
<1> DEFINE room == IF Len(ring) >= Slots THEN Tail(ring) ELSE ring
           rest == Without(room, r)
           own == [token |-> r, provider |-> b]
<1>1. room \in Seq(Entries) /\ TrueRing(room, who)
  <2>1. CASE Len(ring) >= Slots
    <3>1. ring # <<>>
      BY <2>1, SlotsAssumption
    <3>2. Tail(ring) \in Seq(Entries)
      BY <3>1
    <3> QED
      BY <2>1, <3>1, <3>2, TailIsTrue
  <2>2. CASE ~(Len(ring) >= Slots)
    BY <2>2
  <2> QED
    BY <2>1, <2>2
<1> HIDE DEF room
<1>2. /\ rest \in Seq(Entries)
      /\ TrueRing(rest, who)
      /\ \A i \in DOMAIN rest : rest[i].token # r
  BY <1>1, WithoutType, WithoutIsTrue
<1>3. Attribute(ring, r, b) = Append(rest, own)
  BY DEF Attribute, room
<1> HIDE DEF rest
<1>4. /\ DOMAIN Append(rest, own) = 1 .. Len(rest) + 1 /\ DOMAIN rest = 1 .. Len(rest)
      /\ \A i \in 1 .. Len(rest) : Append(rest, own)[i] = rest[i] /\ rest[i].token \in Requests
      /\ Append(rest, own)[Len(rest) + 1] = own
      /\ Len(rest) \in Nat
  <2>1. own \in Entries
    BY DEF Entries
  <2>2. \A i \in 1 .. Len(rest) : rest[i] \in Entries
    BY <1>2
  <2>3. \A i \in 1 .. Len(rest) : rest[i].token \in Requests
    BY <2>2 DEF Entries
  <2> HIDE DEF own
  <2> QED
    BY <1>2, <2>1, <2>3
<1>5. own.token = r /\ own.provider = b
  OBVIOUS
<1> HIDE DEF own
<1>6. TrueRing(Append(rest, own), [who EXCEPT ![r] = b])
  BY <1>2, <1>4, <1>5 DEF TrueRing
<1> QED
  BY <1>3, <1>6

\* An answer is the only step that attributes, and it leaves the books alone.
LEMMA Attributes ==
  ASSUME TypeOK, CallsAreConfigured, NEW r \in Requests,
         AnswerOk(r) \/ AnswerEmpty(r) \/ \E e \in Errors : AnswerError(r, e)
  PROVE  /\ pc[r] = "await" /\ Candidate(r) \in Backends
         /\ attributions' = Attribute(attributions, r, Candidate(r))
         /\ answeredBy' = [answeredBy EXCEPT ![r] = Candidate(r)]
         /\ booked' = booked /\ client' = client
<1>1. pc[r] = "await"
  BY DEF AnswerOk, AnswerEmpty, AnswerError
<1>2. Candidate(r) \in Backends
  BY <1>1, CandidateType DEF CallsAreConfigured
<1> QED
  BY <1>1, <1>2 DEF AnswerOk, AnswerEmpty, AnswerError, Answer

\* No other step touches the ring.
LEMMA OthersDoNotAttribute ==
  ASSUME NEW r \in Requests,
         \/ \E k \in Kinds : StoreUnavailable(r, k) \/ \E p \in Plans : Start(r, k, p)
         \/ Shed(r) \/ Skip(r) \/ Dispatch(r) \/ GiveUp(r) \/ Wake(r)
         \/ EndForward(r) \/ Cancel(r) \/ HangUp(r) \/ Book(r)
  PROVE  attributions' = attributions /\ answeredBy' = answeredBy
  BY DEF StoreUnavailable, Start, Shed, Skip, Dispatch, GiveUp, Wake, EndForward, Cancel,
         HangUp, Book, requestVars

\* The ring goes on to name who answered last.
LEMMA RingStep ==
  ASSUME TypeOK, CallsAreConfigured, RingIsTrue, [Next]_vars
  PROVE  RingIsTrue'
<1> SUFFICES TrueRing(attributions, answeredBy)'
  BY DEF RingIsTrue, TrueRing
<1>1. TrueRing(attributions, answeredBy)
  BY DEF RingIsTrue, TrueRing
<1>2. CASE attributions' = attributions /\ answeredBy' = answeredBy
  BY <1>1, <1>2
<1>3. ASSUME NEW r \in Requests,
             AnswerOk(r) \/ AnswerEmpty(r) \/ \E e \in Errors : AnswerError(r, e)
      PROVE  TrueRing(attributions, answeredBy)'
  <2>1. /\ attributions \in Seq(Entries)
        /\ answeredBy \in [Requests -> Backends \union {Nobody}]
    BY DEF TypeOK, Entries
  <2>2. TrueRing(Attribute(attributions, r, Candidate(r)),
                 [answeredBy EXCEPT ![r] = Candidate(r)])
    BY <1>1, <1>3, <2>1, Attributes, AttributeIsTrue
  <2> QED
    BY <1>3, <2>2, Attributes
<1>4. CASE Tick \/ UNCHANGED vars
  BY <1>2, <1>4 DEF Tick, vars, requestVars
<1> QED
  BY <1>2, <1>3, <1>4, OthersDoNotAttribute DEF Next

\* A usage row is written when its request can be answered no more.
LEMMA BookedStep ==
  ASSUME TypeOK, BookedLast, [Next]_vars
  PROVE  BookedLast'
<1> SUFFICES ASSUME NEW r \in Requests, booked'[r] # "unbooked", client'[r] = "here"
             PROVE  pc'[r] \in {"forward", "done"}
  BY DEF BookedLast
<1> USE DEF TypeOK, BookedLast
<1>1. CASE pc'[r] = pc[r] /\ client'[r] = client[r] /\ booked'[r] = booked[r]
  BY <1>1
<1>2. CASE ActsFor(r)
  <2>1. CASE \E k \in Kinds : StoreUnavailable(r, k) \/ \E p \in Plans : Start(r, k, p)
    BY <2>1 DEF StoreUnavailable, Start
  <2>2. CASE Shed(r) \/ Skip(r) \/ Dispatch(r) \/ GiveUp(r) \/ Wake(r)
    BY <2>2 DEF Shed, Skip, Dispatch, GiveUp, Wake, AtCandidate
  <2>3. CASE AnswerOk(r) \/ AnswerEmpty(r) \/ \E e \in Errors : AnswerError(r, e)
    BY <2>3 DEF AnswerOk, AnswerEmpty, AnswerError, Answer
  <2>4. CASE EndForward(r) \/ Cancel(r) \/ HangUp(r)
    BY <2>4 DEF EndForward, Cancel, HangUp
  <2>5. CASE Book(r)
    BY <2>5 DEF Book, MayBook, requestVars
  <2> QED
    BY <1>2, <2>1, <2>2, <2>3, <2>4, <2>5 DEF ActsFor
<1>3. ASSUME NEW q \in Requests \ {r}, ActsFor(q)
      PROVE  pc'[r] = pc[r] /\ client'[r] = client[r] /\ booked'[r] = booked[r]
  BY <1>3, OthersStandStill DEF SameWalk
<1>4. CASE \E q \in Requests : ActsFor(q)
  BY <1>1, <1>2, <1>3, <1>4
<1>5. CASE Tick \/ UNCHANGED vars
  BY <1>1, <1>5 DEF Tick, vars, requestVars
<1> QED
  BY <1>4, <1>5 DEF Next, ActsFor

\* The row names the request's last answerer.
LEMMA BooksStep ==
  ASSUME TypeOK, CallsAreConfigured, RingIsTrue, BookedLast, BooksNameTheServer,
         [Next]_vars
  PROVE  BooksNameTheServer'
<1> SUFFICES ASSUME NEW r \in Requests, booked'[r] \in Backends, client'[r] = "here"
             PROVE  booked'[r] = answeredBy'[r]
  BY DEF BooksNameTheServer
<1> USE DEF TypeOK, BooksNameTheServer
<1>1. CASE /\ client'[r] = client[r] /\ booked'[r] = booked[r]
           /\ answeredBy'[r] = answeredBy[r]
  BY <1>1
<1>2. CASE ActsFor(r)
  <2>1. CASE Book(r)
    <3>1. booked'[r] = Attribution(attributions, r) /\ answeredBy' = answeredBy
      BY <2>1 DEF Book, requestVars
    <3>2. r \in Tokens(attributions)
      BY <3>1, BackendsAssumption DEF Attribution
    <3>3. /\ SlotOf(attributions, r) \in 1 .. Len(attributions)
          /\ attributions[SlotOf(attributions, r)].token = r
      BY <3>2, SlotOfType DEF Entries
    <3>4. attributions[SlotOf(attributions, r)].provider = answeredBy[r]
      <4>1. DOMAIN attributions = 1 .. Len(attributions)
        BY DEF TypeOK
      <4>2. \A i \in DOMAIN attributions :
               attributions[i].provider = answeredBy[attributions[i].token]
        BY DEF RingIsTrue
      <4> QED
        BY ONLY <3>3, <4>1, <4>2
    <3> QED
      BY <3>1, <3>2, <3>4 DEF Attribution
  <2>2. CASE AnswerOk(r) \/ AnswerEmpty(r) \/ \E e \in Errors : AnswerError(r, e)
    <3>1. pc[r] = "await" /\ booked' = booked /\ client' = client
      BY <2>2, Attributes
    <3>2. booked[r] = "unbooked"
      BY <3>1 DEF BookedLast
    <3> QED
      BY <3>1, <3>2, BackendsAssumption
  <2>3. CASE \/ \E k \in Kinds : StoreUnavailable(r, k) \/ \E p \in Plans : Start(r, k, p)
             \/ Shed(r) \/ Skip(r) \/ Dispatch(r) \/ GiveUp(r) \/ Wake(r) \/ EndForward(r)
    BY <1>1, <2>3
    DEF StoreUnavailable, Start, Shed, Skip, Dispatch, GiveUp, Wake, EndForward
  <2>4. CASE Cancel(r) \/ HangUp(r)
    BY <2>4 DEF Cancel, HangUp
  <2> QED
    BY <1>2, <2>1, <2>2, <2>3, <2>4 DEF ActsFor
<1>3. ASSUME NEW q \in Requests \ {r}, ActsFor(q)
      PROVE  /\ client'[r] = client[r] /\ booked'[r] = booked[r]
             /\ answeredBy'[r] = answeredBy[r]
  BY <1>3, OthersStandStill
<1>4. CASE \E q \in Requests : ActsFor(q)
  BY <1>1, <1>2, <1>3, <1>4
<1>5. CASE Tick \/ UNCHANGED vars
  BY <1>1, <1>5 DEF Tick, vars, requestVars
<1> QED
  BY <1>4, <1>5 DEF Next, ActsFor

-----------------------------------------------------------------------------
(***************************************************************************)
(* The inductive invariant, and the safety properties that follow from it. *)
(***************************************************************************)

\* Before any request arrives everything agrees.
LEMMA InitInv == Init => IInv
<1> SUFFICES ASSUME Init PROVE IInv
  OBVIOUS
<1> USE DEF Init
<1>1. NewBreaker \in Breakers
  BY LimitType DEF NewBreaker, Breakers, Ages, Never
<1>2. TypeOK
  <2>1. /\ attributions \in Seq([token : Requests, provider : Backends])
        /\ Len(attributions) <= Slots
    BY SlotsAssumption
  <2>2. /\ calls \in [Requests -> Seq(Nat)]
        /\ \A r \in Requests : Steps(r) = <<>> /\ Len(calls[r]) = Len(Steps(r))
    BY DEF Steps, NoPlan
  <2> QED
    BY <1>1, <2>1, <2>2 DEF TypeOK, Phases, Kinds, Verdicts
<1>3. \A r \in Requests : Steps(r) = <<>> /\ verdict[r] = "none" /\ booked[r] = "unbooked"
  BY DEF Steps, NoPlan
<1>4. CallsAreConfigured /\ OpenOnlyIfFaulted /\ BookedLast /\ BooksNameTheServer
  BY <1>3, BackendsAssumption
  DEF CallsAreConfigured, OpenOnlyIfFaulted, BookedLast, BooksNameTheServer, NewBreaker
<1>5. RingIsTrue /\ ShedsAreConfigured /\ RetriesAllowed /\ IdleIsFresh
  BY DEF RingIsTrue, ShedsAreConfigured, RetriesAllowed, IdleIsFresh, NoPlan
<1>6. WalksInOrder /\ BoundedAttempts /\ ErrorsAreRemembered
  BY <1>3 DEF WalksInOrder, BoundedAttempts, ErrorsAreRemembered
<1>7. VerdictsAreFinal /\ VerdictMatchesHistory /\ GivesUpOnlyAfterAll
  BY <1>3 DEF VerdictsAreFinal, VerdictMatchesHistory, GivesUpOnlyAfterAll, Errors
<1> QED
  BY <1>2, <1>4, <1>5, <1>6, <1>7 DEF IInv

\* IInv is inductive: one lemma above per part.
LEMMA StepInv == IInv /\ [Next]_vars => IInv'
<1> SUFFICES ASSUME IInv, [Next]_vars PROVE IInv'
  OBVIOUS
<1> QED
  BY TypeStep, CallsStep, OpenStep, RingStep, BooksStep, BookedStep, ShedsStep,
     RetriesStep, OrderStep, AttemptsStep, ErrorsStep, FinalStep, VerdictStep, IdleStep
  DEF IInv

\* The walk of every request and the ring agree with what has happened to it.
THEOREM RoutingInvariance == Spec => []IInv
<1>1. Init => IInv
  BY InitInv
<1>2. IInv /\ [Next]_vars => IInv'
  BY StepInv
<1> QED
  BY <1>1, <1>2, PTL DEF Spec

\* Type correctness; the ring never holds more than its slots.
THEOREM RoutingTypeCorrect == Spec => []TypeOK
<1>1. IInv => TypeOK
  BY DEF IInv
<1> QED
  BY <1>1, RoutingInvariance, PTL

\* The error a request ends with is true of what happened to it.
THEOREM TrueVerdicts == Spec => []VerdictMatchesHistory
<1>1. IInv => VerdictMatchesHistory
  BY DEF IInv
<1> QED
  BY <1>1, RoutingInvariance, PTL

\* No request gives up with a configured candidate neither asked nor refused.
THEOREM TriesEveryCandidate == Spec => []GivesUpOnlyAfterAll
<1>1. IInv => GivesUpOnlyAfterAll
  BY DEF IInv
<1> QED
  BY <1>1, RoutingInvariance, PTL

\* No candidate is asked more often than its plan's retries allow.
THEOREM AttemptsBounded == Spec => []BoundedAttempts
<1>1. IInv => BoundedAttempts
  BY DEF IInv
<1> QED
  BY <1>1, RoutingInvariance, PTL

\* A backend leaves the rotation only through an outage of its own.
THEOREM NoCollateralTrip == Spec => []OpenOnlyIfFaulted
<1>1. IInv => OpenOnlyIfFaulted
  BY DEF IInv
<1> QED
  BY <1>1, RoutingInvariance, PTL

\* The usage row names the backend that answered the request, or nobody.
THEOREM TrueBooks == Spec => []BooksNameTheServer
<1>1. IInv => BooksNameTheServer
  BY DEF IInv
<1> QED
  BY <1>1, RoutingInvariance, PTL

=============================================================================
