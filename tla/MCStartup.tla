------------------------------- MODULE MCStartup -------------------------------
(***************************************************************************)
(* Instances of Startup for TLC.                                           *)
(***************************************************************************)
EXTENDS Startup

CONSTANTS gateway, sidecar, prefix, hash

TwoColumns == <<prefix, hash>>

\* No file; a database of the JS server, which has every key column and no
\* ledger; one from before the combos could be archived.
ThreeDatabases ==
    { Fresh,
      [ledger |-> {}, combos |-> TRUE, active |-> FALSE, keys |-> TRUE,
       columns |-> {prefix, hash}, emptyCombo |-> "active"],
      [ledger |-> {"001"}, combos |-> TRUE, active |-> FALSE, keys |-> TRUE,
       columns |-> {}, emptyCombo |-> "active"] }

=============================================================================
