-------------------------------- MODULE Event --------------------------------
(***************************************************************************)
(* The event package's vocabulary: what can be asked of an event.Store and *)
(* what it may answer.  An event.Envelope is a member of Events; the       *)
(* StreamID of a Persisted event is the one of the call that returned it.  *)
(***************************************************************************)
EXTENDS Version, Sequences

CONSTANTS
  StreamIDs,  \* event.StreamID values in use
  Events,     \* Domain Event envelopes
  MaxVersion, \* bound: the longest Event Stream explored
  MaxBatch    \* bound: the most events one Append is given

ASSUME BoundsAssumption ==
  /\ MaxVersion \in Nat
  /\ MaxBatch \in Nat
  /\ MaxVersion + 1 < VersionSpace

(***************************************************************************)
(* The variadic events argument of Append, empty included.                 *)
(***************************************************************************)
Batches == UNION {[1 .. n -> Events] : n \in 0 .. MaxBatch}

AppendCall(id, expected, events) ==
  [op |-> "append", id |-> id, expected |-> expected, events |-> events]

StreamCall(id, from) == [op |-> "stream", id |-> id, from |-> from]

NoCall == [op |-> "none"]

AppendCalls ==
  [op : {"append"}, id : StreamIDs,
   expected : {CheckAny} \cup (0 .. MaxVersion), events : Batches]

StreamCalls == [op : {"stream"}, id : StreamIDs, from : 0 .. (MaxVersion + 1)]

Persisted == [version : Nat, event : Events]

(***************************************************************************)
(* Answers.  "failed" is an error other than version.ConflictError.  How a *)
(* streaming ended: the range loop ran to completion with a nil Err, the   *)
(* consumer broke out of it (also a nil Err), or Err is not nil.           *)
(***************************************************************************)
Pending == [kind |-> "pending"]

Appended(v) == [kind |-> "appended", version |-> v]

Conflict(expected, actual) ==
  [kind |-> "conflict", expected |-> expected, actual |-> actual]

Failed == [kind |-> "failed"]

Streamed(events, end) == [kind |-> "streamed", events |-> events, end |-> end]

Ends == {"complete", "abandoned", "error"}

Replies ==
  {Pending, Failed}
    \cup [kind : {"appended"}, version : Nat]
    \cup [kind : {"conflict"}, expected : Nat, actual : Nat]
    \cup [kind : {"streamed"}, events : Seq(Persisted), end : Ends]

(***************************************************************************)
(* version.Check: CheckAny accepts every stream, an exact version only a   *)
(* stream of that length.                                                  *)
(***************************************************************************)
Accepts(expected, actual) == expected = CheckAny \/ expected = actual

(***************************************************************************)
(* What a version.Selector selects: versions count from 1, so From = 0     *)
(* (version.SelectFromBeginning) and From = 1 select the whole stream.     *)
(***************************************************************************)
First(from) == IF from = 0 THEN 1 ELSE from

Selected(stream, from) ==
  [k \in 1 .. (Len(stream) + 1 - First(from)) |->
     [version |-> First(from) + k - 1, event |-> stream[First(from) + k - 1]]]

=============================================================================
