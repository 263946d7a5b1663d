--------------------------- MODULE MCFederationBus ---------------------------
(* Symmetry for model checking FederationBus. *)
EXTENDS FederationBusProofs, TLC

Symmetry == Permutations(Node) \cup Permutations(Request)
=============================================================================
