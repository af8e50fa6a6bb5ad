--------------------------- MODULE MCCredentialPool ---------------------------
(***************************************************************************)
(* Instances of CredentialPool for TLC: what provider_connections holds.   *)
(***************************************************************************)
EXTENDS CredentialPool, TLC

Symmetry == Permutations(Requests)

Row(access, refresh, sealed, expiry) ==
    [active |-> TRUE, access |-> access, refresh |-> refresh, sealed |-> sealed,
     expiry |-> expiry]

Renewable == Row(1, 1, "sealed", "live")
Plain == Row(1, 1, "plain", "none")
Bare == Row(1, None, "plain", "live")
Archived == [Plain EXCEPT !.active = FALSE]

\* One account; one that can be renewed and one that cannot, beside one that is
\* archived; none that can be used.
Tables ==
    { <<Plain>>, <<Renewable, Archived, Bare>>,
      <<[Bare EXCEPT !.expiry = "past"], [Plain EXCEPT !.expiry = "odd"]>> }

=============================================================================
