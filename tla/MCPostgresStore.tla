--------------------------- MODULE MCPostgresStore ---------------------------
(***************************************************************************)
(* PostgresStore on small instances.                                       *)
(***************************************************************************)
EXTENDS PostgresStore

Symmetry == Permutations(Clients) \cup Permutations(Events)

=============================================================================
