--------------------------- MODULE MCRoutingBackend ---------------------------
(***************************************************************************)
(* Instances of RoutingBackend for TLC: the plans its requests start with. *)
(***************************************************************************)
EXTENDS RoutingBackend

CONSTANTS b1, b2, b3

Step(steps, maxRetries, failoverFirst, delay) ==
    [steps |-> steps, maxRetries |-> maxRetries,
     failoverFirst |-> failoverFirst, delay |-> delay]

\* A combo over both backends, one that retries after a delay, and a route rule
\* that leads to a name without a backend.
WalkPlans ==
    { Step(<<b1, b2>>, 1, TRUE, FALSE), Step(<<b2>>, 1, FALSE, TRUE),
      Step(<<b3>>, 0, TRUE, FALSE) }

=============================================================================
