-------------------------- MODULE MCFederationAuth --------------------------
(* Values and symmetry for model checking FederationAuth. *)
EXTENDS FederationAuthProofs, TLC

Symmetry == Permutations(Request) \cup Permutations(Fingerprint) \cup Permutations(Tenant)
=============================================================================
