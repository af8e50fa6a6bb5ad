--------------------------- MODULE MCResponseStore ---------------------------
(***************************************************************************)
(* Instances of ResponseStore for TLC: names and what callers may use.     *)
(***************************************************************************)
EXTENDS ResponseStore, TLC

CONSTANTS key, Nobody, m, served

Symmetry == Permutations(Ids) \union Permutations(Callers)

\* One model, which answers under a name of its own.
OtherName == [n \in Names |-> served]

\* A key that may use anything, beside the caller of an open gateway.
Anything == [c \in Callers |-> Names]

=============================================================================
