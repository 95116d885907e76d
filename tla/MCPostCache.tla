----------------------------- MODULE MCPostCache -----------------------------
(* Instances of the endpoint cache for TLC. *)
EXTENDS PostCache, TLC

Alike == Permutations(Workers)
=============================================================================
