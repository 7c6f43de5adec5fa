----------------------------- MODULE MCDatabaseOps -----------------------------
(* DatabaseOps on a small instance: calls and keys are interchangeable. *)
EXTENDS DatabaseOps, TLC

MCSymmetry == Permutations(Calls) \cup Permutations(Keys)

=============================================================================
