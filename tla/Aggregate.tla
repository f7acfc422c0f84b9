------------------------------ MODULE Aggregate ------------------------------
(***************************************************************************)
(* Aggregate Roots (aggregate/aggregate.go and the rehydration functions   *)
(* of aggregate/event_sourced_repository.go), as values.                   *)
(*                                                                         *)
(* The state of a Root is the left fold of Apply over Domain Events.  It   *)
(* is kept as the sequence of the events applied, the fold that forgets    *)
(* nothing: two roots have equal states only if every Apply agrees.        *)
(***************************************************************************)
EXTENDS Event

CONSTANT Unappliable  \* the events for which Apply returns an error

ASSUME UnappliableAssumption == Unappliable \subseteq Events

Roots ==
  [id : StreamIDs, state : Seq(Events), version : Nat, recorded : Seq(Events)]

NoRoot == [id |-> "none"]

(***************************************************************************)
(* What Type.Factory and a constructor give before the first RecordThat.   *)
(***************************************************************************)
NewRoot(id) == [id |-> id, state |-> <<>>, version |-> 0, recorded |-> <<>>]

(***************************************************************************)
(* Apply succeeds on the first n events, and n is all of them or Apply     *)
(* returns an error for the next.                                          *)
(***************************************************************************)
AppliesUpTo(n, batch) ==
  /\ n \in 0 .. Len(batch)
  /\ \A k \in 1 .. n : batch[k] \notin Unappliable
  /\ n < Len(batch) => batch[n + 1] \in Unappliable

RecordThat_OneIncrement(root, batch, n) ==
  [root EXCEPT !.state    = @ \o SubSeq(batch, 1, n),
               !.version  = @ + 1,
               !.recorded = @ \o SubSeq(batch, 1, n)]

(***************************************************************************)
(* BaseRoot.recordThat when Apply succeeds on the first n events: those    *)
(* are recorded, each with its version increment, even if the next fails.  *)
(***************************************************************************)
RecordThat(root, batch, n) ==
  [id       |-> root.id,
   state    |-> root.state \o SubSeq(batch, 1, n),
   version  |-> root.version + n,
   recorded |-> root.recorded \o SubSeq(batch, 1, n)]

FlushRecordedEvents(root) == [root EXCEPT !.recorded = <<>>]

(***************************************************************************)
(* The state a root was in before it recorded what it has recorded.        *)
(***************************************************************************)
Base(r) == SubSeq(r.state, 1, Len(r.state) - Len(r.recorded))

(***************************************************************************)
(* The version a repository expects the stream to be at when saving.       *)
(***************************************************************************)
ExpectedVersion(root) == Minus(root.version, Len(root.recorded))

(***************************************************************************)
(* RehydrateFromEvents on a complete Stream of an Event Stream, when Apply *)
(* accepts every event: setVersion is last called with the last version.   *)
(***************************************************************************)
RehydrateFromEvents(id, stream) ==
  [id |-> id, state |-> stream, version |-> Len(stream), recorded |-> <<>>]

Rehydrates(stream) == AppliesUpTo(Len(stream), stream)

(***************************************************************************)
(* RehydrateFromState: the deserialized state, and setVersion.             *)
(***************************************************************************)
RehydrateFromState(id, v, state) ==
  [id |-> id, state |-> state, version |-> v, recorded |-> <<>>]

=============================================================================
