---------------------------- MODULE MessageStream ----------------------------
(***************************************************************************)
(* message.Stream (message/stream.go) and its wrapping by                  *)
(* InstrumentedEventStore.Stream (opentelemetry/event_store.go).           *)
(*                                                                         *)
(* A consumer ranges over the Stream of layer Depth.  The producer of each *)
(* layer k > 1 opens a span and ranges over a new Stream of layer k - 1;   *)
(* the producer of layer 1 is the store, which pushes its events and       *)
(* may fail on the way.  Everything runs on the consumer's goroutine: the  *)
(* control goes down to layer 1, up to the loop's body and back for each   *)
(* event, and up through the layers when the producers return.             *)
(***************************************************************************)
EXTENDS Naturals, Sequences

CONSTANTS
  Depth,      \* layers: 1 + how often the store is wrapped
  NumValues,  \* bound: how many events the store has to deliver
  MaxIters,   \* bound: calls of Iter by the consumer
  MaxRanges   \* bound: loops over the sequence that the first Iter gave

ASSUME StreamAssumption ==
  /\ {Depth, NumValues, MaxIters, MaxRanges} \subseteq Nat
  /\ Depth > 0

VARIABLES
  iterated,   \* iterated[k]: Stream.iterated, of layer k
  err,        \* err[k]: Stream.err, of layer k
  span,       \* span[k]: the span of the wrapper at layer k
  pc,         \* where the control is
  layer,      \* the layer that opens or returns, when pc says so
  available,  \* how many events the store has to deliver
  delivered,  \* events the current loop has been given
  measured,   \* the durations recorded: the operation, and the attribute error
  broke,      \* the consumer has left the current loop
  iters,      \* calls of Iter so far
  ranges      \* loops so far

streamVars == <<iterated, err, span, pc, layer, available, delivered, measured,
                broke, iters, ranges>>

aside == <<available, measured>>

Layers == 1 .. Depth

Operations == {"stream", "append", "get", "save"}

Measure(op, failed) ==
  measured' = Append(measured, [op |-> op, error |-> failed])

SpanStatus(e) == IF e = "nil" THEN "ended" ELSE "ended with error"

Errors == {"nil", "already iterated", "failure"}

Init ==
  /\ available \in 0 .. NumValues
  /\ measured = <<>>
  /\ iterated = [k \in Layers |-> FALSE]
  /\ err = [k \in Layers |-> "nil"]
  /\ span = [k \in Layers |-> "none"]
  /\ pc = "outside"
  /\ layer = Depth
  /\ delivered = 0
  /\ broke = FALSE
  /\ iters = 0
  /\ ranges = 0

(***************************************************************************)
(* NewStream, once more: another Stream, of a store that may have changed. *)
(***************************************************************************)
NewStream ==
  /\ available' \in 0 .. NumValues
  /\ measured' = <<>>
  /\ iterated' = [k \in Layers |-> FALSE]
  /\ err' = [k \in Layers |-> "nil"]
  /\ span' = [k \in Layers |-> "none"]
  /\ pc' = "outside"
  /\ layer' = Depth
  /\ delivered' = 0
  /\ broke' = FALSE
  /\ iters' = 0
  /\ ranges' = 0

(***************************************************************************)
(* The consumer calls Iter, outside of its loop or in the body.  All but   *)
(* the first call return an empty sequence: a loop over it does nothing.   *)
(***************************************************************************)
Iter ==
  /\ pc \in {"outside", "body"}
  /\ iters < MaxIters
  /\ iters' = iters + 1
  /\ iterated' = [iterated EXCEPT ![Depth] = TRUE]
  /\ err' = [err EXCEPT ![Depth] =
               IF iterated[Depth] THEN "already iterated" ELSE @]
  /\ UNCHANGED <<span, pc, layer, delivered, broke, ranges, aside>>

(***************************************************************************)
(* A loop over the sequence of the first Iter calls the producer, at every *)
(* loop anew.                                                              *)
(***************************************************************************)
RangeLoop ==
  /\ pc = "outside"
  /\ iterated[Depth]
  /\ ranges < MaxRanges
  /\ ranges' = ranges + 1
  /\ delivered' = 0
  /\ broke' = FALSE
  /\ layer' = Depth
  /\ pc' = "opening"
  /\ UNCHANGED <<iterated, err, span, iters, aside>>

OpenWrapper ==
  /\ pc = "opening"
  /\ layer > 1
  /\ span' = [span EXCEPT ![layer] = "open"]
  /\ iterated' = [iterated EXCEPT ![layer - 1] = TRUE]
  /\ err' = [err EXCEPT ![layer - 1] = "nil"]
  /\ layer' = layer - 1
  /\ UNCHANGED <<pc, delivered, broke, iters, ranges, aside>>

OpenStore ==
  /\ pc = "opening"
  /\ layer = 1
  /\ pc' = "producing"
  /\ UNCHANGED <<iterated, err, span, layer, delivered, broke, iters, ranges, aside>>

Yield ==
  /\ pc = "producing"
  /\ delivered < available
  /\ delivered' = delivered + 1
  /\ pc' = "body"
  /\ UNCHANGED <<iterated, err, span, layer, broke, iters, ranges, aside>>

Continue ==
  /\ pc = "body"
  /\ pc' = "producing"
  /\ UNCHANGED <<iterated, err, span, layer, delivered, broke, iters, ranges, aside>>

(***************************************************************************)
(* The store's producer returns: yield said to stop, there is no event     *)
(* left, or the query failed or the context was cancelled.                 *)
(***************************************************************************)
StoreReturns(e) ==
  /\ err' = [err EXCEPT ![1] = e]
  /\ layer' = 2
  /\ pc' = "returning"
  /\ UNCHANGED <<iterated, span, delivered, iters, ranges, aside>>

Break == pc = "body" /\ broke' = TRUE /\ StoreReturns("nil")

Exhausted ==
  /\ pc = "producing"
  /\ delivered = available
  /\ StoreReturns("nil")
  /\ UNCHANGED broke

StoreFails == pc = "producing" /\ StoreReturns("failure") /\ UNCHANGED broke

(***************************************************************************)
(* A wrapper's producer returns: nil if its yield said to stop, otherwise  *)
(* the Err of the Stream below.  The deferred function records the         *)
(* duration and ends the span with what was assigned to producerErr.       *)
(***************************************************************************)
ProducerErr == IF broke THEN "nil" ELSE err[layer - 1]

WrapperReturnsWith(e, reported) ==
  /\ pc = "returning"
  /\ layer \in Layers
  /\ err' = [err EXCEPT ![layer] = e]
  /\ span' = [span EXCEPT ![layer] = SpanStatus(reported)]
  /\ Measure("stream", reported # "nil")
  /\ layer' = layer + 1
  /\ UNCHANGED <<iterated, pc, available, delivered, broke, iters, ranges>>

WrapperReturns_ErrUnread == WrapperReturnsWith("nil", "nil")

WrapperReturns_NotAssigned == WrapperReturnsWith(ProducerErr, "nil")

WrapperReturns == WrapperReturnsWith(ProducerErr, ProducerErr)

LoopEnds ==
  /\ pc = "returning"
  /\ layer = Depth + 1
  /\ pc' = "outside"
  /\ layer' = Depth
  /\ UNCHANGED <<iterated, err, span, delivered, broke, iters, ranges, aside>>

-----------------------------------------------------------------------------

Consumer == Iter \/ RangeLoop \/ Continue \/ Break

Producers ==
  \/ OpenWrapper
  \/ OpenStore
  \/ Yield
  \/ Exhausted
  \/ StoreFails
  \/ WrapperReturns
  \/ LoopEnds

-----------------------------------------------------------------------------

(***************************************************************************)
(* The type invariant.  The producer never yields more events than there   *)
(* are, and the control never leaves the layers.                           *)
(***************************************************************************)
TypeOK ==
  /\ iterated \in [Layers -> BOOLEAN]
  /\ err \in [Layers -> Errors]
  /\ span \in [Layers -> {"none", "open", "ended", "ended with error"}]
  /\ pc \in {"outside", "opening", "producing", "body", "returning"}
  /\ layer \in 1 .. (Depth + 1)
  /\ available \in 0 .. NumValues
  /\ delivered \in 0 .. available
  /\ measured \in Seq([op : Operations, error : BOOLEAN])
  /\ broke \in BOOLEAN
  /\ iters \in 0 .. MaxIters
  /\ ranges \in 0 .. MaxRanges

(***************************************************************************)
(* No truncation passes for the end: when a loop has run out by itself and *)
(* Err is nil, the consumer has been given every event, through however    *)
(* many wrappers the stream came.                                          *)
(***************************************************************************)
NoSilentTruncation ==
  pc = "outside" /\ ranges > 0 /\ ~ broke /\ err[Depth] = "nil" =>
    delivered = available

(***************************************************************************)
(* Once the loop is over no span is left open, and while Err is not        *)
(* overwritten by another call of Iter the spans tell what Err tells: an   *)
(* error if and only if the consumer sees one.                             *)
(***************************************************************************)
SpansTellErr ==
  pc = "outside" /\ ranges > 0 =>
    \A k \in 2 .. Depth :
      /\ span[k] # "open"
      /\ err[Depth] # "already iterated" =>
           (span[k] = "ended with error" <=> err[Depth] # "nil")

=============================================================================
