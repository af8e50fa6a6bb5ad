--------------------------- MODULE CircuitBreaker ---------------------------
(***************************************************************************)
(* The breaker of one backend, crates/heterion-router-routing/src/         *)
(* breaker.rs, as operators on its record: one operator per method, mapping *)
(* the record before the call to the record after it.  Every method runs    *)
(* under the mutex of the breaker set, so a caller's step applies one of    *)
(* them atomically.                                                        *)
(*                                                                         *)
(* Instants are kept as ages.  The code reads an instant t only through    *)
(* `now.duration_since(t) < cooldown`, so an age that stops growing at     *)
(* Cooldown tells apart exactly what the code tells apart, and time may go *)
(* on for ever in a finite model.  For the same reason `failures`, read    *)
(* only through `failures >= threshold`, stops at Limit.                   *)
(***************************************************************************)
EXTENDS Integers

CONSTANTS
    Threshold,  \* consecutive failures that open the breaker
    Cooldown    \* ticks an open breaker sheds before it admits a trial

ASSUME ThresholdAssumption == Threshold \in Nat
ASSUME CooldownAssumption == Cooldown \in Nat

\* `threshold.max(1)`: zero would be a breaker that is open before any failure.
Limit == IF Threshold = 0 THEN 1 ELSE Threshold

\* An Option<Instant> that is None.
Never == -1

Ages == {Never} \union 0 .. Cooldown

Breakers == [failures : 0 .. Limit, opened : Ages, probe : Ages]

NewBreaker == [failures |-> 0, opened |-> Never, probe |-> Never]

State(b) ==
    IF b.opened = Never THEN "closed"
    ELSE IF b.probe = Never THEN "open" ELSE "half_open"

-----------------------------------------------------------------------------
(***************************************************************************)
(* Mutated forms of the methods below, each one edit away from the code.   *)
(***************************************************************************)

\* A probe that reports nothing is never forgotten.
AllowsOneProbeForever(b) ==
    b.opened = Never \/ (b.opened >= Cooldown /\ b.probe = Never)

\* A success closes whether or not a probe is out.
SuccessAlwaysCloses(b) == NewBreaker

-----------------------------------------------------------------------------
(***************************************************************************)
(* allow: a closed breaker admits everybody.  An open one admits nobody    *)
(* while its cooldown runs, nor while a probe younger than a cooldown is   *)
(* out; otherwise the caller becomes the probe.                            *)
(***************************************************************************)
Allows(b) ==
    \/ b.opened = Never
    \/ /\ b.opened >= Cooldown
       /\ b.probe = Never \/ b.probe >= Cooldown

AfterAllow(b) ==
    IF Allows(b) /\ b.opened # Never THEN [b EXCEPT !.probe = 0] ELSE b

(***************************************************************************)
(* record_success: any success closes a breaker that has a probe out; the  *)
(* failure count is cleared only when the breaker is, or has just been,    *)
(* closed.                                                                 *)
(***************************************************************************)
AfterSuccess(b) ==
    IF b.probe # Never \/ b.opened = Never
    THEN [failures |-> 0,
          opened   |-> Never,
          probe    |-> Never]
    ELSE b

(***************************************************************************)
(* record_failure: counts, revokes the probe, and (re)opens once the count *)
(* has reached the threshold.                                              *)
(***************************************************************************)
AfterFailure(b) ==
    LET n == IF b.failures < Limit THEN b.failures + 1 ELSE Limit
    IN  [failures |-> n,
         opened   |-> IF n >= Limit THEN 0 ELSE b.opened,
         probe    |-> Never]

\* One tick older, up to the age at which the code stops looking.
Older(age) == IF age = Never \/ age >= Cooldown THEN age ELSE age + 1

Aged(b) == [b EXCEPT !.opened = Older(@), !.probe = Older(@)]

=============================================================================
