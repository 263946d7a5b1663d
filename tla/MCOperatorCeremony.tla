-------------------------- MODULE MCOperatorCeremony --------------------------
(* Symmetry for model checking OperatorCeremony. *)
EXTENDS OperatorCeremony, TLC

Symmetry == Permutations(Request) \cup Permutations(Operator)
=============================================================================
