------------------------------ MODULE MCStore ------------------------------
(***************************************************************************)
(* Instances of Store for TLC.                                             *)
(***************************************************************************)
EXTENDS Store, TLC

Symmetry ==
    Permutations(Thread) \cup Permutations(Namespace) \cup Permutations(Id) \cup Permutations(Value)

=============================================================================
