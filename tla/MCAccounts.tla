----------------------------- MODULE MCAccounts -----------------------------
(***************************************************************************)
(* The requests are interchangeable.                                       *)
(***************************************************************************)
EXTENDS Accounts, TLC

Symmetry == Permutations(Workers)

=============================================================================
