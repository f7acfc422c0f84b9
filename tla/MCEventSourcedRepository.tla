---------------------- MODULE MCEventSourcedRepository ----------------------
(***************************************************************************)
(* EventSourcedRepository on small instances.                              *)
(***************************************************************************)
EXTENDS EventSourcedRepository

Symmetry == Permutations(Clients)

=============================================================================
