--------------------------- MODULE BreakerPromise ---------------------------
(***************************************************************************)
(* What a circuit breaker promises to the requests that ask it, whatever   *)
(* the order in which their answers come back: three modes, the reasons    *)
(* for which it may leave each, and the time it must stay.  It knows       *)
(* nothing of requests; BreakerLoad and RoutingBackend implement it.       *)
(***************************************************************************)
EXTENDS Integers

CONSTANTS Limit, Cooldown

VARIABLES
    mode,    \* "closed", "open" or "half_open"
    misses,  \* failures in a row while closed, 0 in the other modes
    rest,    \* age of the last trip, -1 while closed
    trial    \* age of the outstanding trial, -1 outside half_open

promiseVars == <<mode, misses, rest, trial>>

Unset == -1

Init ==
    /\ mode = "closed" /\ misses = 0
    /\ rest = Unset /\ trial = Unset

\* A failure short of the limit.
Miss ==
    /\ mode = "closed" /\ misses + 1 < Limit
    /\ misses' = misses + 1
    /\ UNCHANGED <<mode, rest, trial>>

\* A closed breaker opens on the Limit-th failure in a row; an open one is
\* set back by every failure, and a failure ends the trial.
Trip ==
    /\ mode = "closed" => misses + 1 >= Limit
    /\ mode' = "open" /\ misses' = 0
    /\ rest' = 0 /\ trial' = Unset

\* The trial is for one request at a time, after a whole cooldown since the
\* last failure; the next one waits for a whole cooldown without an answer.
Trial ==
    /\ mode # "closed" /\ rest >= Cooldown
    /\ mode = "half_open" => trial >= Cooldown
    /\ mode' = "half_open" /\ trial' = 0
    /\ UNCHANGED <<misses, rest>>

\* Only a trial may be followed by normal service.
Close ==
    /\ mode = "half_open"
    /\ mode' = "closed" /\ misses' = 0
    /\ rest' = Unset /\ trial' = Unset

Forgive ==
    /\ mode = "closed"
    /\ misses' = 0
    /\ UNCHANGED <<mode, rest, trial>>

Grown(age) == IF age = Unset \/ age >= Cooldown THEN age ELSE age + 1

Tick ==
    /\ rest' = Grown(rest) /\ trial' = Grown(trial)
    /\ UNCHANGED <<mode, misses>>

Next == Miss \/ Trip \/ Trial \/ Close \/ Forgive \/ Tick

Spec == Init /\ [][Next]_promiseVars

=============================================================================
