--------------------------- MODULE MCTrackingStore ---------------------------
(***************************************************************************)
(* TrackingStore on small instances.                                       *)
(***************************************************************************)
EXTENDS TrackingStore

Symmetry == Permutations(Clients) \cup Permutations(Events)

=============================================================================
