-------------------------- MODULE MCConfigApproval --------------------------
(***************************************************************************)
(* Model values are interchangeable: the specification names none of them. *)
(***************************************************************************)
EXTENDS ConfigApproval, TLC

Symmetry ==
    Permutations(Configs) \cup Permutations(Proxies) \cup Permutations(Users)
    \cup Permutations(Workers) \cup Permutations(Heads) \cup Permutations(Bodies)

=============================================================================
