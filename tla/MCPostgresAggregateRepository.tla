-------------------- MODULE MCPostgresAggregateRepository --------------------
(***************************************************************************)
(* PostgresAggregateRepository on small instances.                         *)
(***************************************************************************)
EXTENDS PostgresAggregateRepository

Symmetry == Permutations(Clients) \cup Permutations(Events \ Unappliable)

=============================================================================
