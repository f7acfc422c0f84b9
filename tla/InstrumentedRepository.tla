----------------------- MODULE InstrumentedRepository -----------------------
(***************************************************************************)
(* The OpenTelemetry wrappers around a repository and its Event Store: an  *)
(* InstrumentedRepository (opentelemetry/repository.go) over an            *)
(* EventSourcedRepository over an Event Store that is wrapped Depth - 1    *)
(* times by InstrumentedEventStore (opentelemetry/event_store.go).         *)
(*                                                                         *)
(* Get ranges over the Stream of MessageStream; Save calls Append, which   *)
(* goes down the layers and up again.  An application may also use the     *)
(* Stream itself.  Calls are made one after the other.                     *)
(***************************************************************************)
EXTENDS MessageStream

CONSTANT MaxCalls  \* bound: calls made

VARIABLES
  registered,  \* how many histograms the Meter has given
  call,        \* the call in progress: "none", "stream", "get" or "save"
  calls,       \* calls so far
  callSpan,    \* the span of the InstrumentedRepository
  appendSpan,  \* appendSpan[k]: the span of Append at layer k
  applyErr,    \* Apply has returned an error to RehydrateFromEvents
  answer,      \* what the store answered to Append, "none" before
  result       \* the error that the last call returned

callVars == <<call, calls, callSpan, appendSpan, applyErr, answer, result>>

vars == <<streamVars, registered, callVars>>

Results == {"none", "nil", "failure", "apply", "not found", "conflict"}

-----------------------------------------------------------------------------
(***************************************************************************)
(* The constructors register the histograms one by one: each wrapper of    *)
(* the Event Store those of Stream and Append, the InstrumentedRepository  *)
(* those of Get and Save.  If the Meter refuses one the constructor        *)
(* returns an error, and there is nothing to call.                         *)
(***************************************************************************)
Histograms == 2 * Depth

InstrumentedInit ==
  /\ Init
  /\ registered = 0
  /\ call = "constructing"
  /\ calls = 0
  /\ callSpan = "none"
  /\ appendSpan = [k \in Layers |-> "none"]
  /\ applyErr = FALSE
  /\ answer = "none"
  /\ result = "none"

RegisterMetric ==
  /\ call = "constructing"
  /\ registered < Histograms
  /\ registered' = registered + 1
  /\ UNCHANGED <<streamVars, callVars>>

RegisterMetricFails ==
  /\ call = "constructing"
  /\ registered < Histograms
  /\ call' = "failed to construct"
  /\ UNCHANGED <<streamVars, registered, calls, callSpan, appendSpan, applyErr,
                 answer, result>>

Constructed ==
  /\ call = "constructing"
  /\ registered = Histograms
  /\ call' = "none"
  /\ UNCHANGED <<streamVars, registered, calls, callSpan, appendSpan, applyErr,
                 answer, result>>

-----------------------------------------------------------------------------
(***************************************************************************)
(* A call starts with a Stream of its own, and spans that are not there.   *)
(***************************************************************************)
Start(op) ==
  /\ call = "none"
  /\ calls < MaxCalls
  /\ NewStream
  /\ call' = op
  /\ calls' = calls + 1
  /\ callSpan' = IF op = "stream" THEN "none" ELSE "open"
  /\ appendSpan' = [k \in Layers |-> "none"]
  /\ applyErr' = FALSE
  /\ answer' = "none"
  /\ result' = "none"
  /\ UNCHANGED registered

(***************************************************************************)
(* An application that uses the Stream is done at any time.                *)
(***************************************************************************)
Application ==
  /\ call = "stream"
  /\ \/ (Consumer \/ Producers) /\ UNCHANGED callVars
     \/ /\ pc = "outside"
        /\ call' = "none"
        /\ UNCHANGED <<streamVars, calls, callSpan, appendSpan, applyErr,
                       answer, result>>
  /\ UNCHANGED registered

(***************************************************************************)
(* The deferred functions of InstrumentedRepository: duration, then span.  *)
(***************************************************************************)
Returns_SpanIgnoresError(e) ==
  /\ Measure(call, e # "nil")
  /\ callSpan' = "ended"
  /\ result' = e
  /\ call' = "none"
  /\ UNCHANGED <<iterated, err, span, pc, layer, available, delivered, broke,
                 iters, ranges>>
  /\ UNCHANGED <<registered, calls, appendSpan, applyErr, answer>>

Returns(e) ==
  /\ Measure(call, e # "nil")
  /\ callSpan' = SpanStatus(e)
  /\ result' = e
  /\ call' = "none"
  /\ UNCHANGED <<iterated, err, span, pc, layer, available, delivered, broke,
                 iters, ranges>>
  /\ UNCHANGED <<registered, calls, appendSpan, applyErr, answer>>

(***************************************************************************)
(* Get: RehydrateFromEvents loops once over the Stream and applies each    *)
(* event, until Apply fails.                                               *)
(***************************************************************************)
Rehydrate ==
  /\ call = "get"
  /\ \/ iters = 0 /\ Iter /\ UNCHANGED applyErr
     \/ ranges = 0 /\ RangeLoop /\ UNCHANGED applyErr
     \/ Producers /\ UNCHANGED applyErr
     \/ Continue /\ UNCHANGED applyErr
     \/ Break /\ applyErr' = TRUE
  /\ UNCHANGED <<registered, call, calls, callSpan, appendSpan, answer, result>>

GetError_ErrUnread ==
  CASE applyErr -> "apply"
    [] ~ applyErr /\ delivered = 0 -> "not found"
    [] OTHER -> "nil"

GetError ==
  CASE applyErr -> "apply"
    [] ~ applyErr /\ err[Depth] # "nil" -> err[Depth]
    [] ~ applyErr /\ err[Depth] = "nil" /\ delivered = 0 -> "not found"
    [] OTHER -> "nil"

GetReturns ==
  /\ call = "get"
  /\ pc = "outside"
  /\ ranges > 0
  /\ Returns(GetError)

(***************************************************************************)
(* Save: Append at layer Depth, unless nothing was recorded.               *)
(***************************************************************************)
saving == <<iterated, err, span, available, delivered, broke, iters, ranges>>

SaveNothing ==
  /\ call = "save"
  /\ pc = "outside"
  /\ answer = "none"
  /\ Returns("nil")

SaveAppends ==
  /\ call = "save"
  /\ pc = "outside"
  /\ answer = "none"
  /\ pc' = "opening"
  /\ UNCHANGED <<saving, layer, measured, registered, callVars>>

AppendOpens ==
  /\ call = "save"
  /\ pc = "opening"
  /\ layer > 1
  /\ appendSpan' = [appendSpan EXCEPT ![layer] = "open"]
  /\ layer' = layer - 1
  /\ UNCHANGED <<saving, pc, measured, registered, call, calls, callSpan,
                 applyErr, answer, result>>

StoreAppends(e) ==
  /\ call = "save"
  /\ pc = "opening"
  /\ layer = 1
  /\ answer' = e
  /\ layer' = 2
  /\ pc' = "returning"
  /\ UNCHANGED <<saving, measured, registered, call, calls, callSpan,
                 appendSpan, applyErr, result>>

AppendReturns ==
  /\ call = "save"
  /\ pc = "returning"
  /\ layer \in Layers
  /\ appendSpan' = [appendSpan EXCEPT ![layer] = SpanStatus(answer)]
  /\ Measure("append", answer # "nil")
  /\ layer' = layer + 1
  /\ UNCHANGED <<saving, pc, registered, call, calls, callSpan, applyErr,
                 answer, result>>

SaveReturns ==
  /\ call = "save"
  /\ pc = "returning"
  /\ layer = Depth + 1
  /\ Returns(answer)

-----------------------------------------------------------------------------

Next ==
  \/ RegisterMetric
  \/ RegisterMetricFails
  \/ Constructed
  \/ \E op \in {"stream", "get", "save"} : Start(op)
  \/ Application
  \/ Rehydrate
  \/ GetReturns
  \/ SaveNothing
  \/ SaveAppends
  \/ AppendOpens
  \/ \E e \in {"nil", "conflict", "failure"} : StoreAppends(e)
  \/ AppendReturns
  \/ SaveReturns

Spec == InstrumentedInit /\ [][Next]_vars

-----------------------------------------------------------------------------

(***************************************************************************)
(* The type invariant, with the one of the Stream.                         *)
(***************************************************************************)
InstrumentedTypeOK ==
  /\ TypeOK
  /\ registered \in 0 .. Histograms
  /\ call \in {"constructing", "failed to construct", "none", "stream", "get",
               "save"}
  /\ calls \in 0 .. MaxCalls
  /\ callSpan \in {"none", "open", "ended", "ended with error"}
  /\ appendSpan \in [Layers -> {"none", "open", "ended", "ended with error"}]
  /\ answer \in {"none", "nil", "conflict", "failure"}
  /\ result \in Results

(***************************************************************************)
(* A root that Get returns has gone through its whole Event Stream: no     *)
(* failure of the store, of a wrapper's loop or of Apply leaves a root     *)
(* that looks like an earlier version of itself.                           *)
(***************************************************************************)
GetSeesWholeStream ==
  call = "none" /\ callSpan # "none" /\ answer = "none" /\ ranges > 0 =>
    /\ result = "nil" => available > 0 /\ delivered = available /\ ~ applyErr
    /\ result = "not found" => available = 0

(***************************************************************************)
(* Telemetry tells what happened.  Once a call on the repository is over   *)
(* there is no open span; the span and the last measurement of the call    *)
(* carry an error if and only if the caller got one; and an operation of   *)
(* the store that failed is the reason of a failed call, never hidden in a *)
(* successful one.                                                         *)
(***************************************************************************)
Inner == SubSeq(measured, 1, Len(measured) - 1)

TelemetryTellsResult ==
  call = "none" /\ callSpan # "none" =>
    /\ callSpan # "open"
    /\ \A k \in Layers : span[k] # "open" /\ appendSpan[k] # "open"
    /\ measured # <<>>
    /\ measured[Len(measured)].op \in {"get", "save"}
    /\ measured[Len(measured)].error <=> result # "nil"
    /\ callSpan = "ended with error" <=> result # "nil"
    /\ \A m \in DOMAIN Inner :
         /\ Inner[m].op \in {"stream", "append"}
         /\ Inner[m].error => result \in {"failure", "conflict"}
    /\ Len(Inner) \in {0, Depth - 1}
    /\ result \in {"failure", "conflict"} /\ Depth > 1 =>
         \A k \in 2 .. Depth :
           span[k] = "ended with error" \/ appendSpan[k] = "ended with error"

=============================================================================
