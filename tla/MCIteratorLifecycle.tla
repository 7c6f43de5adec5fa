------------------------ MODULE MCIteratorLifecycle ------------------------
(* IteratorLifecycle for TLC; the bounds are in the configurations. *)
EXTENDS IteratorLifecycle, TLC

\* The close() calls are interchangeable: a sound symmetry for safety.
CloseSymmetry == Permutations(Closes)

\* Every iterator with either mark, and, where that is too many states, the
\* first with a positive one and the second with 0.
EitherMark == [i \in Ids |-> {0, 1}]
OneOfEach  == [i \in Ids |-> IF i = 1 THEN {0} ELSE {1}]

=============================================================================
