-------------------------- MODULE BreakerLoadProofs --------------------------
(***************************************************************************)
(* Theorems about BreakerLoad for every threshold, cooldown and set of     *)
(* requests.  The properties are facts about one step of the breaker in a  *)
(* state that satisfies IInv, so IInv is proved first and each property    *)
(* follows from it and from the operators of CircuitBreaker.               *)
(***************************************************************************)
EXTENDS BreakerLoad, TLAPS

-----------------------------------------------------------------------------
(***************************************************************************)
(* The methods of one breaker.                                             *)
(***************************************************************************)
\* The limit is a positive natural number, whatever the configured threshold.
LEMMA LimitType == Limit \in Nat \ {0}
  BY ThresholdAssumption DEF Limit

\* Each method maps a breaker to a breaker.
LEMMA MethodTypes ==
  ASSUME NEW b \in Breakers
  PROVE  /\ AfterAllow(b) \in Breakers
         /\ AfterSuccess(b) \in Breakers
         /\ AfterFailure(b) \in Breakers
         /\ Aged(b) \in Breakers
<1> USE LimitType, CooldownAssumption DEF Breakers, Ages, Never
<1>1. AfterAllow(b) \in Breakers
  BY DEF AfterAllow
<1>2. AfterSuccess(b) \in Breakers
  BY DEF AfterSuccess
<1>3. AfterFailure(b) \in Breakers
  <2>1. \A n \in 0 .. Limit, o \in Ages :
           [failures |-> n, opened |-> o, probe |-> Never] \in Breakers
    OBVIOUS
  <2>2. /\ (IF b.failures < Limit THEN b.failures + 1 ELSE Limit) \in 0 .. Limit
        /\ 0 \in Ages /\ b.opened \in Ages
    OBVIOUS
  <2> QED
    BY <2>1, <2>2 DEF AfterFailure
<1>4. Aged(b) \in Breakers
  <2>1. Older(b.opened) \in Ages /\ Older(b.probe) \in Ages
    BY DEF Older
  <2> QED
    BY <2>1 DEF Aged
<1> QED
  BY <1>1, <1>2, <1>3, <1>4

\* One tick keeps an age an age.
LEMMA OlderType ==
  ASSUME NEW age \in Ages
  PROVE  Older(age) \in Ages
  BY CooldownAssumption DEF Ages, Never, Older

\* Growing older keeps the order of two ages and the ages that are unset.
LEMMA OlderMonotone ==
  ASSUME NEW x \in Ages, NEW y \in Ages
  PROVE  /\ x >= y /\ y # Never => Older(x) >= Older(y)
         /\ Older(x) = Never <=> x = Never
  BY CooldownAssumption DEF Ages, Never, Older

-----------------------------------------------------------------------------
\* The initial breaker is closed and clean.
LEMMA InitInv == Init => IInv
<1> SUFFICES ASSUME Init PROVE IInv
  OBVIOUS
<1>1. breaker \in Breakers
  BY LimitType, CooldownAssumption DEF Init, NewBreaker, Breakers, Ages, Never
<1>2. TypeOK
  <2>1. streak \in 0 .. Limit /\ sinceFailure \in Ages /\ sinceProbe \in Ages
    BY LimitType DEF Init, Ages
  <2>2. inFlight \in SUBSET Requests /\ trialUnbroken \in BOOLEAN
    BY DEF Init
  <2> QED
    BY <1>1, <2>1, <2>2 DEF Init, TypeOK
<1> QED
  BY <1>2, LimitType
  DEF Init, IInv, NewBreaker, CountsConsecutive, ClosedIsClean, OpenIsRecent,
      ProbeIsLatest, RestCoversProbe

\* IInv is inductive: one case per action of BreakerLoad.
LEMMA StepInv == IInv /\ [Next]_vars => IInv'
<1> SUFFICES ASSUME IInv, [Next]_vars PROVE IInv'
  OBVIOUS
<1> USE LimitType, CooldownAssumption
    DEF IInv, TypeOK, CountsConsecutive, ClosedIsClean, OpenIsRecent,
        ProbeIsLatest, RestCoversProbe
<1>1. ASSUME NEW r \in Requests, AdmitPlain(r) PROVE IInv'
  BY <1>1 DEF AdmitPlain, AfterAllow
<1>2. ASSUME NEW r \in Requests, AdmitProbe(r) PROVE IInv'
  <2>1. breaker' = [breaker EXCEPT !.probe = 0]
    BY <1>2 DEF AdmitProbe, AfterAllow
  <2>2. breaker' \in Breakers
    BY <1>2, MethodTypes DEF AdmitProbe
  <2>3. /\ breaker'.opened = breaker.opened
        /\ breaker'.failures = breaker.failures
        /\ breaker'.probe = 0
    BY <2>1 DEF Breakers
  <2> QED
    BY <1>2, <2>2, <2>3 DEF AdmitProbe, Ages, Never
<1>3. ASSUME NEW r \in Requests, Succeed(r) PROVE IInv'
  <2>1. breaker' \in Breakers
    BY <1>3, MethodTypes DEF Succeed
  <2>2. holder' \in Requests \union {NoRequest}
    BY <1>3 DEF Succeed, HolderAfter
  <2>3. CASE breaker.probe # Never \/ breaker.opened = Never
    <3>1. breaker' = [failures |-> 0, opened |-> Never, probe |-> Never]
      BY <1>3, <2>3 DEF Succeed, AfterSuccess
    <3> QED
      BY <1>3, <2>1, <2>2, <3>1 DEF Succeed
  <2>4. CASE ~(breaker.probe # Never \/ breaker.opened = Never)
    <3>1. breaker' = breaker
      BY <1>3, <2>4 DEF Succeed, AfterSuccess
    <3> QED
      BY <1>3, <2>1, <2>2, <2>4, <3>1 DEF Succeed
  <2> QED
    BY <2>3, <2>4
<1>4. ASSUME NEW r \in Requests, Fail(r) PROVE IInv'
  <2>1. breaker' \in Breakers
    BY <1>4, MethodTypes DEF Fail
  <2>2. holder' \in Requests \union {NoRequest}
    BY <1>4 DEF Fail, HolderAfter
  <2> DEFINE n == IF breaker.failures < Limit THEN breaker.failures + 1 ELSE Limit
  <2>3. breaker' = [failures |-> n,
                    opened   |-> IF n >= Limit THEN 0 ELSE breaker.opened,
                    probe    |-> Never]
    BY <1>4 DEF Fail, AfterFailure
  <2>4. breaker.failures \in 0 .. Limit
    BY DEF Breakers
  <2>5. streak' \in 0 .. Limit /\ sinceFailure' = 0 /\ 0 \in Ages
    BY <1>4 DEF Fail, Ages
  <2>6. TypeOK'
    BY <1>4, <2>1, <2>2, <2>5 DEF Fail
  <2>7. breaker'.failures = n /\ breaker'.probe = Never
    BY <2>3
  <2>8. CASE n >= Limit
    <3>1. breaker'.opened = 0 /\ n = Limit
      BY <2>3, <2>4, <2>8
    <3> QED
      BY <1>4, <2>5, <2>6, <2>7, <3>1 DEF Fail, Never, Ages
  <2>9. CASE n < Limit
    <3>1. breaker'.opened = breaker.opened /\ n = breaker.failures + 1
      BY <2>3, <2>4, <2>9
    <3>2. breaker.opened = Never
      BY <2>4, <2>9
    <3> QED
      BY <1>4, <2>6, <2>7, <2>9, <3>1, <3>2 DEF Fail
  <2> QED
    BY <2>4, <2>8, <2>9
<1>5. ASSUME NEW r \in Requests, ReportNothing(r) PROVE IInv'
  BY <1>5 DEF ReportNothing
<1>6. CASE Tick
  <2>1. breaker' \in Breakers
    BY <1>6, MethodTypes DEF Tick
  <2>2. /\ breaker'.failures = breaker.failures
        /\ breaker'.opened = Older(breaker.opened)
        /\ breaker'.probe = Older(breaker.probe)
    BY <1>6 DEF Tick, Aged, Breakers
  <2>3. sinceFailure' \in Ages /\ sinceProbe' \in Ages
    BY <1>6, OlderType DEF Tick
  <2>4. breaker.opened \in Ages /\ breaker.probe \in Ages
    BY DEF Breakers
  <2>5. RestCoversProbe'
    <3>1. sinceFailure # Never /\ sinceProbe >= sinceFailure =>
             sinceProbe' >= sinceFailure'
      BY <1>6, OlderMonotone DEF Tick
    <3>2. /\ sinceProbe = Never => sinceProbe' = Never
          /\ breaker'.opened # Never => breaker.opened # Never
          /\ breaker'.probe = Never => breaker.probe = Never
      BY <1>6, <2>2, <2>4, OlderMonotone DEF Tick
    <3> QED
      BY <3>1, <3>2
  <2>6. /\ breaker'.opened = Never => breaker.opened = Never
        /\ breaker'.opened # Never => breaker.opened # Never
        /\ breaker'.probe # Never => breaker.probe # Never
        /\ breaker.probe = Never => breaker'.probe = Never
    BY <2>2, <2>4, OlderMonotone
  <2> QED
    BY <1>6, <2>1, <2>2, <2>3, <2>5, <2>6 DEF Tick
<1>7. CASE UNCHANGED vars
  BY <1>7 DEF vars
<1> QED
  BY <1>1, <1>2, <1>3, <1>4, <1>5, <1>6, <1>7 DEF Next

-----------------------------------------------------------------------------
(***************************************************************************)
(* The invariants.                                                         *)
(***************************************************************************)

\* The fields of the breaker and the reports made to it agree in every state.
THEOREM Invariance == Spec => []IInv
<1>1. Init => IInv
  BY InitInv
<1>2. IInv /\ [Next]_vars => IInv'
  BY StepInv
<1> QED
  BY <1>1, <1>2, PTL DEF Spec

\* Type correctness.
THEOREM TypeCorrect == Spec => []TypeOK
<1>1. IInv => TypeOK
  BY DEF IInv
<1> QED
  BY <1>1, Invariance, PTL

\* While the breaker is closed, what it counts is the outages in a row.
THEOREM ConsecutiveCount == Spec => []CountsConsecutive
<1>1. IInv => CountsConsecutive
  BY DEF IInv
<1> QED
  BY <1>1, Invariance, PTL

-----------------------------------------------------------------------------
(***************************************************************************)
(* The action properties.  Only AdmitPlain and AdmitProbe add a request to *)
(* inFlight, and of the two only AdmitProbe does with an open breaker.     *)
(***************************************************************************)

\* While a breaker is open, who is let through probes.
LEMMA OnlyProbesWhileOpen ==
  ASSUME [Next]_vars, NEW r \in Requests, Admitted(r), breaker.opened # Never
  PROVE  AdmitProbe(r)
<1>1. ASSUME NEW q \in Requests, AdmitPlain(q) PROVE FALSE
  BY <1>1 DEF AdmitPlain
<1>2. ASSUME NEW q \in Requests, AdmitProbe(q) PROVE AdmitProbe(r)
  BY <1>2 DEF AdmitProbe, Admitted
<1>3. ASSUME NEW q \in Requests, Succeed(q) \/ Fail(q) \/ ReportNothing(q)
      PROVE  FALSE
  BY <1>3 DEF Succeed, Fail, ReportNothing, Admitted
<1>4. CASE Tick
  BY <1>4 DEF Tick, Admitted
<1>5. CASE UNCHANGED vars
  BY <1>5 DEF vars, Admitted
<1> QED
  BY <1>1, <1>2, <1>3, <1>4, <1>5 DEF Next

\* The half-open trial is single-flight: between two requests admitted by a
\* breaker that is not closed lies a whole cooldown.
THEOREM SpacedProbes == Spec => ProbesAreSpaced
<1>1. IInv /\ [Next]_vars =>
        [\A r \in Requests :
          Admitted(r) /\ breaker.opened # Never => sinceProbe \in {Never, Cooldown}]_vars
  <2> SUFFICES ASSUME IInv, [Next]_vars, NEW r \in Requests,
                      Admitted(r), breaker.opened # Never
               PROVE  sinceProbe \in {Never, Cooldown}
    OBVIOUS
  <2>1. /\ breaker.opened >= Cooldown
        /\ breaker.probe = Never \/ breaker.probe >= Cooldown
    BY OnlyProbesWhileOpen DEF AdmitProbe, Allows
  <2>2. breaker.probe # Never => sinceProbe >= Cooldown
    BY <2>1 DEF IInv, ProbeIsLatest
  <2>3. breaker.probe = Never => sinceProbe = Never \/ sinceProbe >= Cooldown
    BY <2>1, CooldownAssumption
    DEF IInv, TypeOK, Breakers, Ages, Never, RestCoversProbe, OpenIsRecent
  <2> QED
    BY <2>2, <2>3, CooldownAssumption DEF IInv, TypeOK, Ages, Never
<1> QED
  BY <1>1, Invariance, PTL DEF Spec, ProbesAreSpaced

\* Nobody is admitted by an open breaker sooner than a cooldown after the last
\* outage it was told of.
THEOREM Shedding == Spec => ShedsUntilCooled
<1>1. IInv /\ [Next]_vars =>
        [\A r \in Requests :
          Admitted(r) /\ breaker.opened # Never => sinceFailure = Cooldown]_vars
  <2> SUFFICES ASSUME IInv, [Next]_vars, NEW r \in Requests,
                      Admitted(r), breaker.opened # Never
               PROVE  sinceFailure = Cooldown
    OBVIOUS
  <2>1. breaker.opened >= Cooldown
    BY OnlyProbesWhileOpen DEF AdmitProbe, Allows
  <2> QED
    BY <2>1, CooldownAssumption DEF IInv, TypeOK, OpenIsRecent, Ages, Never
<1> QED
  BY <1>1, Invariance, PTL DEF Spec, ShedsUntilCooled

\* The breaker closes only while the last probe admitted is out and no outage
\* was reported since its admission.
THEOREM UnbrokenTrial == Spec => ClosesOnUnbrokenTrial
<1>1. IInv /\ [Next]_vars =>
        [breaker.opened # Never /\ breaker'.opened = Never => trialUnbroken]_vars
  <2> SUFFICES ASSUME IInv, [Next]_vars,
                      breaker.opened # Never, breaker'.opened = Never
               PROVE  trialUnbroken
    OBVIOUS
  <2>1. ASSUME NEW r \in Requests, AdmitPlain(r) \/ ReportNothing(r) PROVE FALSE
    BY <2>1 DEF AdmitPlain, ReportNothing
  <2>2. ASSUME NEW r \in Requests, AdmitProbe(r) PROVE FALSE
    BY <2>2 DEF AdmitProbe, AfterAllow, IInv, TypeOK, Breakers
  <2>3. ASSUME NEW r \in Requests, Succeed(r) PROVE trialUnbroken
    BY <2>3 DEF Succeed, AfterSuccess, IInv, ProbeIsLatest
  <2>4. ASSUME NEW r \in Requests, Fail(r) PROVE FALSE
    BY <2>4 DEF Fail, AfterFailure, IInv, TypeOK, OpenIsRecent, Never
  <2>5. CASE Tick
    BY <2>5, OlderMonotone DEF Tick, Aged, IInv, TypeOK, Breakers
  <2>6. CASE UNCHANGED vars
    BY <2>6 DEF vars
  <2> QED
    BY <2>1, <2>2, <2>3, <2>4, <2>5, <2>6 DEF Next
<1> QED
  BY <1>1, Invariance, PTL DEF Spec, ClosesOnUnbrokenTrial

\* A breaker opens from closed only when the outages in a row reach the limit.
THEOREM StreakOpens == Spec => OpensOnStreak
<1>1. IInv /\ [Next]_vars =>
        [breaker.opened = Never /\ breaker'.opened # Never => streak' = Limit]_vars
  <2> SUFFICES ASSUME IInv, [Next]_vars,
                      breaker.opened = Never, breaker'.opened # Never
               PROVE  streak' = Limit
    OBVIOUS
  <2>1. ASSUME NEW r \in Requests, AdmitPlain(r) \/ AdmitProbe(r) PROVE FALSE
    BY <2>1 DEF AdmitPlain, AdmitProbe, AfterAllow
  <2>2. ASSUME NEW r \in Requests, Succeed(r) \/ ReportNothing(r) PROVE FALSE
    BY <2>2 DEF Succeed, ReportNothing, AfterSuccess
  <2>3. ASSUME NEW r \in Requests, Fail(r) PROVE streak' = Limit
    <3>1. breaker.failures = streak /\ streak < Limit /\ streak \in 0 .. Limit
      BY DEF IInv, TypeOK, CountsConsecutive, ClosedIsClean
    <3>2. streak' = streak + 1
      BY <2>3, <3>1 DEF Fail
    <3>3. breaker'.opened = IF streak + 1 >= Limit THEN 0 ELSE Never
      BY <2>3, <3>1 DEF Fail, AfterFailure
    <3> QED
      BY <3>1, <3>2, <3>3, LimitType
  <2>4. CASE Tick
    BY <2>4, OlderMonotone DEF Tick, Aged, IInv, TypeOK, Breakers
  <2>5. CASE UNCHANGED vars
    BY <2>5 DEF vars
  <2> QED
    BY <2>1, <2>2, <2>3, <2>4, <2>5 DEF Next
<1> QED
  BY <1>1, Invariance, PTL DEF Spec, OpensOnStreak

-----------------------------------------------------------------------------
(***************************************************************************)
(* Refinement.  Under IInv an admission of a closed breaker and a success  *)
(* an open one drops are stutters of the promise; every other step is one  *)
(* of its actions.                                                         *)
(***************************************************************************)

\* Every step of a breaker under load is a step of the promise or a stutter.
LEMMA PromiseStep == IInv /\ [Next]_vars => [Promise!Next]_(Promise!promiseVars)
<1> SUFFICES ASSUME IInv, [Next]_vars
             PROVE  [Promise!Next]_(Promise!promiseVars)
  OBVIOUS
<1> USE DEF IInv, TypeOK, Promise!Next, Promise!promiseVars, Promise!Unset, State
<1>1. ASSUME NEW r \in Requests, AdmitPlain(r) \/ ReportNothing(r)
      PROVE  UNCHANGED Promise!promiseVars
  BY <1>1 DEF AdmitPlain, ReportNothing, AfterAllow
<1>2. ASSUME NEW r \in Requests, AdmitProbe(r) PROVE Promise!Trial
  <2>1. /\ breaker'.opened = breaker.opened
        /\ breaker'.failures = breaker.failures
        /\ breaker'.probe = 0
    BY <1>2 DEF AdmitProbe, AfterAllow, Breakers
  <2> QED
    BY <1>2, <2>1 DEF AdmitProbe, Allows, Promise!Trial, Never
<1>3. ASSUME NEW r \in Requests, Succeed(r) PROVE [Promise!Next]_(Promise!promiseVars)
  <2>1. CASE breaker.opened = Never
    <3>1. breaker' = [failures |-> 0, opened |-> Never, probe |-> Never]
      BY <1>3, <2>1 DEF Succeed, AfterSuccess
    <3> QED
      BY <2>1, <3>1 DEF ClosedIsClean, Promise!Forgive, Never
  <2>2. CASE breaker.opened # Never /\ breaker.probe # Never
    <3>1. breaker' = [failures |-> 0, opened |-> Never, probe |-> Never]
      BY <1>3, <2>2 DEF Succeed, AfterSuccess
    <3> QED
      BY <2>2, <3>1 DEF Promise!Close, Never
  <2>3. CASE breaker.opened # Never /\ breaker.probe = Never
    BY <1>3, <2>3 DEF Succeed, AfterSuccess
  <2> QED
    BY <2>1, <2>2, <2>3
<1>4. ASSUME NEW r \in Requests, Fail(r) PROVE Promise!Miss \/ Promise!Trip
  <2> DEFINE n == IF breaker.failures < Limit THEN breaker.failures + 1 ELSE Limit
  <2>1. breaker' = [failures |-> n,
                    opened   |-> IF n >= Limit THEN 0 ELSE breaker.opened,
                    probe    |-> Never]
    BY <1>4 DEF Fail, AfterFailure
  <2>2. breaker.failures \in 0 .. Limit
    BY DEF Breakers
  <2>3. CASE n >= Limit
    <3>1. breaker'.opened = 0 /\ breaker'.probe = Never
      BY <2>1, <2>3
    <3>2. breaker.opened = Never => breaker.failures + 1 >= Limit
      BY <2>2, <2>3, LimitType DEF ClosedIsClean
    <3> QED
      BY <3>1, <3>2 DEF Promise!Trip, Never
  <2>4. CASE n < Limit
    <3>1. /\ breaker'.opened = breaker.opened /\ breaker'.probe = Never
          /\ breaker'.failures = breaker.failures + 1
          /\ breaker.failures + 1 < Limit
      <4>1. n = breaker.failures + 1 /\ ~(n >= Limit)
        BY <2>2, <2>4, LimitType
      <4>2. breaker' = [failures |-> breaker.failures + 1,
                        opened   |-> breaker.opened,
                        probe    |-> Never]
        BY ONLY <2>1, <4>1
      <4>3. breaker.failures + 1 < Limit
        BY <2>4, <4>1
      <4> QED
        BY ONLY <4>2, <4>3
    <3>2. breaker.opened = Never
      BY <2>2, <3>1, LimitType DEF OpenIsRecent
    <3> QED
      BY <3>1, <3>2 DEF ClosedIsClean, Promise!Miss, Never
  <2> QED
    BY <2>2, <2>3, <2>4, LimitType
<1>5. CASE Tick
  <2>1. /\ breaker'.failures = breaker.failures
        /\ breaker'.opened = Older(breaker.opened)
        /\ breaker'.probe = Older(breaker.probe)
    BY <1>5 DEF Tick, Aged, Breakers
  <2>2. /\ Older(breaker.opened) = Never <=> breaker.opened = Never
        /\ Older(breaker.probe) = Never <=> breaker.probe = Never
    BY OlderMonotone DEF Breakers
  <2> QED
    BY <2>1, <2>2 DEF Promise!Tick, Promise!Grown, Older, Never
<1>6. CASE UNCHANGED vars
  BY <1>6 DEF vars
<1> QED
  BY <1>1, <1>2, <1>3, <1>4, <1>5, <1>6 DEF Next

\* The breaker under load implements the promise of a circuit breaker.
THEOREM Refinement == Spec => KeepsPromise
<1>1. Init => Promise!Init
  BY DEF Init, NewBreaker, State, Never, Promise!Init, Promise!Unset
<1>2. IInv /\ [Next]_vars => [Promise!Next]_(Promise!promiseVars)
  BY PromiseStep
<1> QED
  BY <1>1, <1>2, Invariance, PTL DEF Spec, KeepsPromise, Promise!Spec

=============================================================================
