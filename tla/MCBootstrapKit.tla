---------------------------- MODULE MCBootstrapKit ----------------------------
(* Symmetry for model checking BootstrapKit. *)
EXTENDS BootstrapKitProofs, TLC

Symmetry == Permutations(Kit) \cup Permutations(Tenant) \cup Permutations(Request)
=============================================================================
