----------------------------- MODULE MCArcBridge -----------------------------
(* Symmetry for model checking ArcBridge; a blank name is not like the others. *)
EXTENDS ArcBridge, TLC

Symmetry == Permutations(Id \ Blank) \cup Permutations(OperatorId)
=============================================================================
