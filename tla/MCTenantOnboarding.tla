-------------------------- MODULE MCTenantOnboarding --------------------------
(* Symmetry for model checking TenantOnboarding. *)
EXTENDS TenantOnboarding, TLC

Symmetry == Permutations(Company) \cup Permutations(Request)
=============================================================================
