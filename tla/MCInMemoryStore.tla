-------------------------- MODULE MCInMemoryStore --------------------------
(***************************************************************************)
(* InMemoryStore on small instances.                                       *)
(***************************************************************************)
EXTENDS InMemoryStore, TLC

Symmetry == Permutations(Goroutines) \cup Permutations(Events)

=============================================================================
