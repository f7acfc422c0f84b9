----------------------------- MODULE EventStore -----------------------------
(***************************************************************************)
(* The contract of the event.Store interface (event/store.go, and the      *)
(* doc comments of its implementations), as an abstract specification: an  *)
(* atomic object.  Every call takes effect at one instant between its      *)
(* invocation and its return, an Append only when its version.Check        *)
(* accepts the length of the stream at that very instant, and a Stream     *)
(* delivers consecutive events of one state of the stream.                 *)
(*                                                                         *)
(* The stores of the repository are shown to implement this module; the    *)
(* repositories are specified on top of it.                                *)
(***************************************************************************)
EXTENDS Event

CONSTANTS
  Clients,  \* the callers
  MayFail   \* whether Append can fail for reasons other than its check

VARIABLES
  log,   \* log[id]: the events of the stream, in version order
  call,  \* call[c]: the call in progress, or NoCall
  reply  \* reply[c]: the answer c is about to get, Pending until it is known

vars == <<log, call, reply>>

Init ==
  /\ log = [id \in StreamIDs |-> <<>>]
  /\ call = [c \in Clients |-> NoCall]
  /\ reply = [c \in Clients |-> Pending]

Request(c, request) ==
  /\ call[c] = NoCall
  /\ call' = [call EXCEPT ![c] = request]
  /\ UNCHANGED <<log, reply>>

Invoke(c) == \E request \in AppendCalls \cup StreamCalls : Request(c, request)

Extended(c) ==
  log' = [log EXCEPT ![call[c].id] = @ \o call[c].events]

PerformAppend(c) ==
  LET actual == Len(log[call[c].id])
  IN  /\ call[c].op = "append"
      /\ reply[c] = Pending
      /\ \/ /\ Accepts(call[c].expected, actual)
            /\ Extended(c)
            /\ reply' = [reply EXCEPT ![c] =
                           Appended(actual + Len(call[c].events))]
         \/ /\ ~ Accepts(call[c].expected, actual)
            /\ reply' = [reply EXCEPT ![c] = Conflict(call[c].expected, actual)]
            /\ UNCHANGED log
      /\ UNCHANGED call

(***************************************************************************)
(* A store behind a network may answer an Append with an error, having     *)
(* done nothing, or having committed before the answer was lost.           *)
(***************************************************************************)
FailAppend(c) ==
  /\ MayFail
  /\ call[c].op = "append"
  /\ reply[c] = Pending
  /\ \/ UNCHANGED log
     \/ /\ Accepts(call[c].expected, Len(log[call[c].id]))
        /\ Extended(c)
  /\ reply' = [reply EXCEPT ![c] = Failed]
  /\ UNCHANGED call

PerformStream(c) ==
  /\ call[c].op = "stream"
  /\ reply[c] = Pending
  /\ LET selected == Selected(log[call[c].id], call[c].from)
     IN  \E n \in 0 .. Len(selected), end \in Ends :
           /\ end = "complete" => n = Len(selected)
           /\ reply' = [reply EXCEPT ![c] =
                          Streamed(SubSeq(selected, 1, n), end)]
  /\ UNCHANGED <<log, call>>

Return(c) ==
  /\ call[c] # NoCall
  /\ reply[c] # Pending
  /\ call' = [call EXCEPT ![c] = NoCall]
  /\ reply' = [reply EXCEPT ![c] = Pending]
  /\ UNCHANGED log

Next ==
  \E c \in Clients :
    \/ Invoke(c)
    \/ PerformAppend(c)
    \/ FailAppend(c)
    \/ PerformStream(c)
    \/ Return(c)

Spec == Init /\ [][Next]_vars

=============================================================================
