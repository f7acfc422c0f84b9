-------------------- MODULE InstrumentedRepository_proofs --------------------
(***************************************************************************)
(* Proofs about InstrumentedRepository and the MessageStream it uses, for  *)
(* any number of wrappers and events: no truncated stream passes for a     *)
(* complete one, and spans and measurements tell what the caller is told.  *)
(***************************************************************************)
EXTENDS InstrumentedRepository, SequenceTheorems, TLAPS

SpanStates == {"none", "open", "ended", "ended with error"}

Measurements == [op : Operations, error : BOOLEAN]

(***************************************************************************)
(* The types, in three parts: those of the Stream and of the calls, and    *)
(* the Boolean-valued ones, which other provers take.                      *)
(***************************************************************************)
StreamTypes ==
  /\ err \in [Layers -> Errors]
  /\ span \in [Layers -> SpanStates]
  /\ pc \in {"outside", "opening", "producing", "body", "returning"}
  /\ layer \in 1 .. (Depth + 1)
  /\ available \in 0 .. NumValues
  /\ delivered \in 0 .. available
  /\ iters \in Nat
  /\ ranges \in Nat

BooleanTypes ==
  /\ iterated \in [Layers -> BOOLEAN]
  /\ broke \in BOOLEAN

CallTypes ==
  /\ call \in {"constructing", "failed to construct", "none", "stream", "get",
               "save"}
  /\ appendSpan \in [Layers -> SpanStates]
  /\ applyErr \in BOOLEAN
  /\ answer \in {"none", "nil", "conflict", "failure"}
  /\ measured \in Seq(Measurements)

(***************************************************************************)
(* Where the control is, and that layer 1 has no wrapper.                  *)
(***************************************************************************)
Position ==
  /\ pc = "outside" => layer = Depth
  /\ pc = "opening" => layer \in Layers
  /\ pc \in {"producing", "body"} => layer = 1
  /\ pc = "returning" => layer \in 2 .. (Depth + 1)
  /\ span[1] = "none"
  /\ appendSpan[1] = "none"

(***************************************************************************)
(* How a loop ended, when the store's producer returned e.                 *)
(***************************************************************************)
Outcome(e) ==
  /\ e \in {"nil", "failure"}
  /\ broke => e = "nil"
  /\ ~ broke /\ e = "nil" => delivered = available

(***************************************************************************)
(* A loop in progress: the spans of the layers it went through are open    *)
(* until their producer returns, and every producer passes on the error of *)
(* the one below.                                                          *)
(***************************************************************************)
Looping ==
  /\ pc # "outside" => ranges > 0
  /\ pc = "opening" =>
       ~ broke /\ \A k \in 2 .. Depth : k > layer => span[k] = "open"
  /\ pc \in {"producing", "body"} =>
       ~ broke /\ \A k \in 2 .. Depth : span[k] = "open"
  /\ pc = "returning" =>
       LET e == err[layer - 1]
       IN  /\ Outcome(e)
           /\ \A k \in 2 .. Depth :
                span[k] = IF k < layer THEN SpanStatus(e) ELSE "open"

(***************************************************************************)
(* A loop that is over.  A later call of Iter may have replaced the Err.   *)
(***************************************************************************)
LoopIsOver ==
  pc = "outside" /\ ranges > 0 =>
    \E e \in {"nil", "failure"} :
      /\ Outcome(e)
      /\ err[Depth] \in {e, "already iterated"}
      /\ \A k \in 2 .. Depth : span[k] = SpanStatus(e)

MeasuredSoFar(n, op, e) ==
  /\ Len(measured) = n
  /\ \A m \in 1 .. n : measured[m] = [op |-> op, error |-> (e # "nil")]

(***************************************************************************)
(* Get has one loop over its Stream, which it leaves early only when Apply *)
(* fails.                                                                  *)
(***************************************************************************)
Getting ==
  /\ callSpan = "open"
  /\ answer = "none"
  /\ \A k \in Layers : appendSpan[k] = "none"
  /\ applyErr = broke
  /\ iters = 0 => ~ iterated[Depth]
  /\ err[Depth] # "already iterated"
  /\ ranges = 0 => measured = <<>> /\ ~ broke
  /\ pc \in {"opening", "producing", "body"} => measured = <<>>
  /\ pc = "returning" => MeasuredSoFar(layer - 2, "stream", err[layer - 1])
  /\ pc = "outside" /\ ranges > 0 =>
       MeasuredSoFar(Depth - 1, "stream", err[Depth])

(***************************************************************************)
(* Save goes down the layers and up again, without a Stream.               *)
(***************************************************************************)
Saving ==
  /\ callSpan = "open"
  /\ ranges = 0
  /\ \A k \in Layers : span[k] = "none"
  /\ pc \in {"outside", "opening", "returning"}
  /\ pc # "returning" => answer = "none" /\ measured = <<>>
  /\ pc = "outside" => \A k \in Layers : appendSpan[k] = "none"
  /\ pc = "opening" =>
       \A k \in 2 .. Depth : k > layer => appendSpan[k] = "open"
  /\ pc = "returning" =>
       /\ answer # "none"
       /\ MeasuredSoFar(layer - 2, "append", answer)
       /\ \A k \in 2 .. Depth :
            appendSpan[k] = IF k < layer THEN SpanStatus(answer) ELSE "open"

TelemetryInv ==
  /\ StreamTypes /\ BooleanTypes /\ CallTypes
  /\ Position
  /\ LoopIsOver
  /\ call \in {"constructing", "failed to construct"} => callSpan = "none"
  /\ call \in {"stream", "get"} => Looping
  /\ call = "stream" => callSpan = "none"
  /\ call = "get" => Getting
  /\ call = "save" => Saving
  /\ GetSeesWholeStream
  /\ TelemetryTellsResult

-----------------------------------------------------------------------------

LEMMA LayerTypes ==
  /\ Depth \in Nat /\ Depth > 0 /\ 1 \in Layers /\ Depth \in Layers
  /\ \A k \in 2 .. Depth : k \in Layers
  /\ \A k \in Layers : k \in Nat /\ k <= Depth /\ k >= 1
  /\ \A k \in Layers : k # 1 => k \in 2 .. Depth
  BY StreamAssumption DEF Layers

LEMMA MeasureTypes ==
  ASSUME measured \in Seq(Measurements), NEW op \in Operations,
         NEW failed \in BOOLEAN, Measure(op, failed)
  PROVE  LET n == Len(measured)
         IN  /\ measured' \in Seq(Measurements)
             /\ n \in Nat /\ Len(measured') = n + 1
             /\ measured'[n + 1] = [op |-> op, error |-> failed]
             /\ \A m \in 1 .. n : measured'[m] = measured[m]
<1>1. [op |-> op, error |-> failed] \in Measurements
  BY DEF Measurements
<1> QED BY <1>1, AppendProperties, LenProperties DEF Measure

(***************************************************************************)
(* One more measurement of the same outcome.                               *)
(***************************************************************************)
LEMMA MeasuredOneMore ==
  ASSUME measured \in Seq(Measurements), NEW n \in Nat, NEW op \in Operations,
         NEW e, MeasuredSoFar(n, op, e), Measure(op, e # "nil")
  PROVE  /\ Len(measured') = n + 1
         /\ \A m \in 1 .. (n + 1) :
              measured'[m] = [op |-> op, error |-> (e # "nil")]
<1>1. (e # "nil") \in BOOLEAN
  OBVIOUS
<1>2. /\ Len(measured) = n /\ Len(measured') = n + 1
      /\ measured'[n + 1] = [op |-> op, error |-> (e # "nil")]
      /\ \A m \in 1 .. n : measured'[m] = measured[m]
  BY <1>1, MeasureTypes DEF MeasuredSoFar
<1>3. ASSUME NEW m \in 1 .. (n + 1)
      PROVE  measured'[m] = [op |-> op, error |-> (e # "nil")]
  <2>1. m \in 1 .. n \/ m = n + 1
    OBVIOUS
  <2> QED BY <1>2, <2>1 DEF MeasuredSoFar
<1> QED BY <1>2, <1>3

LEMMA EmptyMeasured ==
  ASSUME measured = <<>>, NEW op, NEW e
  PROVE  MeasuredSoFar(0, op, e)
  BY EmptySeq DEF MeasuredSoFar

LEMMA InitTelemetryInv == InstrumentedInit => TelemetryInv
<1> SUFFICES ASSUME InstrumentedInit PROVE TelemetryInv
  OBVIOUS
<1> USE StreamAssumption, LayerTypes DEF InstrumentedInit, Init
<1>1. StreamTypes
  BY DEF StreamTypes, SpanStates, Errors, Layers
<1>2. BooleanTypes /\ CallTypes
  <2>1. measured \in Seq(Measurements)
    BY EmptySeq
  <2>2. iterated \in [Layers -> BOOLEAN]
    OBVIOUS
  <2> QED BY <2>1, <2>2 DEF BooleanTypes, CallTypes, SpanStates
<1>3. Position
  BY DEF Position, Layers
<1>4. LoopIsOver /\ GetSeesWholeStream /\ TelemetryTellsResult
  BY DEF LoopIsOver, GetSeesWholeStream, TelemetryTellsResult
<1> QED BY <1>1, <1>2, <1>3, <1>4 DEF TelemetryInv

-----------------------------------------------------------------------------

(***************************************************************************)
(* The steps of the Stream, whoever ranges over it.                        *)
(***************************************************************************)
StreamInv ==
  StreamTypes /\ BooleanTypes /\ Position /\ Looping /\ LoopIsOver

LEMMA IterStep ==
  ASSUME StreamInv, Iter, UNCHANGED appendSpan
  PROVE  StreamInv'
<1> USE DEF StreamInv, Iter, aside
<1>1. StreamTypes'
  <2>1. \E e \in Errors : err' = [err EXCEPT ![Depth] = e]
    BY LayerTypes DEF StreamTypes, Errors
  <2>2. err' \in [Layers -> Errors]
    <3> HIDE DEF Iter
    <3> QED BY <2>1 DEF StreamTypes
  <2>3. iters' \in Nat
    <3>1. iters' = iters + 1
      OBVIOUS
    <3> HIDE DEF Iter
    <3> QED BY <3>1 DEF StreamTypes
  <2> QED BY <2>2, <2>3 DEF StreamTypes
<1>2. BooleanTypes'
  BY DEF BooleanTypes
<1>3. Position'
  BY DEF Position
<1>4. err' = err \/ err'[Depth] = "already iterated"
  BY LayerTypes DEF StreamTypes
<1>5. Looping'
  BY DEF Looping, Outcome
<1>6. LoopIsOver'
  BY <1>4 DEF LoopIsOver, Outcome
<1> QED BY <1>1, <1>2, <1>3, <1>5, <1>6

LEMMA RangeLoopStep ==
  ASSUME StreamInv, RangeLoop, UNCHANGED appendSpan
  PROVE  StreamInv'
<1> USE DEF StreamInv, RangeLoop, aside
<1>1. StreamTypes'
  BY LayerTypes DEF StreamTypes
<1>2. BooleanTypes'
  BY DEF BooleanTypes
<1>3. Position'
  BY LayerTypes DEF Position
<1>4. Looping'
  BY LayerTypes DEF Looping, StreamTypes
<1>5. LoopIsOver'
  BY DEF LoopIsOver
<1> QED BY <1>1, <1>2, <1>3, <1>4, <1>5

LEMMA OpenWrapperStep ==
  ASSUME StreamInv, OpenWrapper, UNCHANGED appendSpan
  PROVE  StreamInv'
<1> USE DEF StreamInv, OpenWrapper, aside
<1>1. layer \in Layers /\ layer - 1 \in Layers /\ layer \in 2 .. Depth
  BY LayerTypes DEF Position, Layers
<1>2. StreamTypes'
  <2>1. "nil" \in Errors /\ "open" \in SpanStates
    BY DEF Errors, SpanStates
  <2>2. err' \in [Layers -> Errors] /\ span' \in [Layers -> SpanStates]
    BY <2>1 DEF StreamTypes
  <2>3. layer' \in 1 .. (Depth + 1)
    BY <1>1, LayerTypes
  <2> QED BY <2>2, <2>3 DEF StreamTypes
<1>3. BooleanTypes'
  BY <1>1 DEF BooleanTypes
<1>4. Position'
  BY <1>1, LayerTypes DEF Position, StreamTypes
<1>5. Looping'
  <2>1. pc' = "opening" /\ broke' = broke /\ ranges' = ranges
    OBVIOUS
  <2>2. ASSUME NEW k \in 2 .. Depth, k > layer'
        PROVE  span'[k] = "open"
    BY <1>1, <2>2, LayerTypes DEF Looping, StreamTypes
  <2> QED BY <2>1, <2>2 DEF Looping
<1>6. LoopIsOver'
  BY DEF LoopIsOver
<1> QED BY <1>2, <1>3, <1>4, <1>5, <1>6

LEMMA OpenStoreStep ==
  ASSUME StreamInv, OpenStore, UNCHANGED appendSpan
  PROVE  StreamInv'
<1> USE DEF StreamInv, OpenStore, aside
<1>1. StreamTypes' /\ Position'
  BY DEF StreamTypes, Position
<1>2. BooleanTypes'
  BY DEF BooleanTypes
<1>3. Looping' /\ LoopIsOver'
  BY LayerTypes DEF Looping, LoopIsOver
<1> QED BY <1>1, <1>2, <1>3

LEMMA YieldStep ==
  ASSUME StreamInv, Yield, UNCHANGED appendSpan
  PROVE  StreamInv'
<1> USE DEF StreamInv, Yield, aside
<1>1. StreamTypes' /\ Position'
  BY StreamAssumption DEF StreamTypes, Position
<1>2. BooleanTypes'
  BY DEF BooleanTypes
<1>3. Looping' /\ LoopIsOver'
  BY DEF Looping, LoopIsOver
<1> QED BY <1>1, <1>2, <1>3

LEMMA ContinueStep ==
  ASSUME StreamInv, Continue, UNCHANGED appendSpan
  PROVE  StreamInv'
<1> USE DEF StreamInv, Continue, aside
<1>1. StreamTypes' /\ Position'
  BY DEF StreamTypes, Position
<1>2. BooleanTypes'
  BY DEF BooleanTypes
<1>3. Looping' /\ LoopIsOver'
  BY DEF Looping, LoopIsOver
<1> QED BY <1>1, <1>2, <1>3

LEMMA StoreReturnsStep ==
  ASSUME StreamInv, NEW e \in {"nil", "failure"}, StoreReturns(e),
         pc \in {"producing", "body"}, broke' \in BOOLEAN,
         broke' => e = "nil",
         ~ broke' /\ e = "nil" => delivered = available,
         UNCHANGED appendSpan
  PROVE  StreamInv'
<1> USE DEF StreamInv, StoreReturns, aside
<1>1. StreamTypes'
  <2>1. e \in Errors
    BY DEF Errors
  <2>2. err' \in [Layers -> Errors]
    BY <2>1 DEF StreamTypes
  <2>3. layer' \in 1 .. (Depth + 1)
    BY LayerTypes
  <2> QED BY <2>2, <2>3 DEF StreamTypes
<1>2. BooleanTypes'
  BY DEF BooleanTypes
<1>3. Position'
  BY LayerTypes DEF Position
<1>4. layer' = 2 /\ err'[layer' - 1] = e
  BY LayerTypes DEF StreamTypes
<1>5. Outcome(e)'
  BY DEF Outcome
<1>6. \A k \in 2 .. Depth : span'[k] = "open" /\ ~ (k < 2)
  BY DEF Looping
<1>7. Looping'
  BY <1>4, <1>5, <1>6 DEF Looping
<1>8. LoopIsOver'
  BY DEF LoopIsOver
<1> QED BY <1>1, <1>2, <1>3, <1>7, <1>8

LEMMA StreamEndsStep ==
  ASSUME StreamInv, Break \/ Exhausted \/ StoreFails, UNCHANGED appendSpan
  PROVE  StreamInv'
<1>1. CASE Break
  BY <1>1, StoreReturnsStep DEF Break
<1>2. CASE Exhausted
  BY <1>2, StoreReturnsStep DEF Exhausted, StreamInv, BooleanTypes, Looping
<1>3. CASE StoreFails
  BY <1>3, StoreReturnsStep DEF StoreFails, StreamInv, BooleanTypes, Looping
<1> QED BY <1>1, <1>2, <1>3

LEMMA WrapperReturnsStep ==
  ASSUME StreamInv, WrapperReturns, UNCHANGED appendSpan
  PROVE  StreamInv' /\ err'[layer' - 1] = err[layer - 1]
<1> USE DEF StreamInv
<1> PICK e : e = err[layer - 1]
  OBVIOUS
<1>1. /\ pc = "returning" /\ layer \in 2 .. Depth /\ layer \in Layers
      /\ layer - 1 \in Layers
  BY LayerTypes DEF WrapperReturns, WrapperReturnsWith, Position, Layers
<1>2. /\ Outcome(e)
      /\ \A k \in 2 .. Depth :
           span[k] = IF k < layer THEN SpanStatus(e) ELSE "open"
  BY <1>1 DEF Looping
<1>3. ProducerErr = e
  BY <1>2 DEF ProducerErr, Outcome
<1>4. /\ err' = [err EXCEPT ![layer] = e]
      /\ span' = [span EXCEPT ![layer] = SpanStatus(e)]
      /\ layer' = layer + 1
      /\ UNCHANGED <<iterated, pc, available, delivered, broke, iters, ranges>>
  BY <1>3 DEF WrapperReturns, WrapperReturnsWith
<1>5. e \in Errors /\ SpanStatus(e) \in SpanStates
  BY <1>2 DEF Outcome, Errors, SpanStatus, SpanStates
<1>6. StreamTypes'
  <2>1. err' \in [Layers -> Errors] /\ span' \in [Layers -> SpanStates]
    BY <1>4, <1>5 DEF StreamTypes
  <2>2. layer' \in 1 .. (Depth + 1)
    BY <1>1, <1>4, LayerTypes
  <2> QED BY <1>4, <2>1, <2>2 DEF StreamTypes
<1>7. BooleanTypes'
  BY <1>4 DEF BooleanTypes
<1>8. Position'
  BY <1>1, <1>4, LayerTypes DEF Position, StreamTypes
<1>9. layer' - 1 = layer /\ err'[layer' - 1] = e
  BY <1>1, <1>4, LayerTypes DEF StreamTypes
<1>10. Outcome(e)'
  BY <1>2, <1>4 DEF Outcome
<1>11. ASSUME NEW k \in 2 .. Depth
       PROVE  span'[k] = IF k < layer' THEN SpanStatus(e) ELSE "open"
  BY <1>1, <1>2, <1>4, LayerTypes DEF StreamTypes
<1>12. Looping'
  BY <1>1, <1>4, <1>9, <1>10, <1>11 DEF Looping
<1>13. LoopIsOver'
  BY <1>1, <1>4 DEF LoopIsOver
<1> QED BY <1>6, <1>7, <1>8, <1>9, <1>12, <1>13

LEMMA LoopEndsStep ==
  ASSUME StreamInv, LoopEnds, UNCHANGED appendSpan
  PROVE  StreamInv' /\ err'[Depth] = err[layer - 1]
<1> USE DEF StreamInv, LoopEnds, aside
<1>1. StreamTypes' /\ Position'
  BY LayerTypes DEF StreamTypes, Position
<1>2. BooleanTypes'
  BY DEF BooleanTypes
<1>3. Looping'
  BY DEF Looping
<1>4. layer - 1 = Depth
  BY LayerTypes
<1>5. /\ Outcome(err[Depth])
      /\ \A k \in 2 .. Depth : span[k] = SpanStatus(err[Depth])
  BY <1>4, LayerTypes DEF Looping
<1>6. LoopIsOver'
  BY <1>5 DEF LoopIsOver, Outcome
<1> QED BY <1>1, <1>2, <1>3, <1>4, <1>6

-----------------------------------------------------------------------------

(***************************************************************************)
(* An application that ranges over the Stream.                             *)
(***************************************************************************)
LEMMA StreamStep ==
  ASSUME StreamInv, Consumer \/ Producers, UNCHANGED appendSpan
  PROVE  StreamInv'
  BY IterStep, RangeLoopStep, OpenWrapperStep, OpenStoreStep, YieldStep,
     ContinueStep, StreamEndsStep, WrapperReturnsStep, LoopEndsStep
     DEF Consumer, Producers

LEMMA MeasuredTypes ==
  ASSUME measured \in Seq(Measurements), Consumer \/ Producers
  PROVE  measured' \in Seq(Measurements)
<1>1. CASE WrapperReturns
  <2>1. Measure("stream", ProducerErr # "nil")
    BY <1>1 DEF WrapperReturns, WrapperReturnsWith
  <2>2. (ProducerErr # "nil") \in BOOLEAN /\ "stream" \in Operations
    BY DEF Operations
  <2> QED BY <2>1, <2>2, MeasureTypes
<1>2. CASE ~ WrapperReturns
  <2>1. measured' = measured
    BY <1>2 DEF Consumer, Producers, Iter, RangeLoop, Continue, Break,
                OpenWrapper, OpenStore, Yield, Exhausted, StoreFails, LoopEnds,
                StoreReturns, aside
  <2> QED BY <2>1
<1> QED BY <1>1, <1>2

(***************************************************************************)
(* What the invariant asks for after a step that leaves a call in progress *)
(* and of a step that starts or ends one.                                  *)
(***************************************************************************)
LEMMA CallGoesOn ==
  ASSUME StreamTypes', BooleanTypes', CallTypes', Position', LoopIsOver',
         \/ call' = "stream" /\ Looping' /\ callSpan' = "none"
         \/ call' = "get" /\ Looping' /\ Getting'
         \/ call' = "save" /\ Saving'
  PROVE  TelemetryInv'
  BY DEF TelemetryInv, GetSeesWholeStream, TelemetryTellsResult

LEMMA ConstructionStep ==
  ASSUME TelemetryInv, RegisterMetric \/ RegisterMetricFails \/ Constructed
  PROVE  TelemetryInv'
<1>1. /\ UNCHANGED <<streamVars, calls, callSpan, appendSpan, applyErr, answer,
                     result>>
      /\ call = "constructing" /\ callSpan = "none"
      /\ \/ call' \in {"constructing", "failed to construct"}
         \/ call' = "none"
  BY DEF RegisterMetric, RegisterMetricFails, Constructed, callVars,
         TelemetryInv
<1>2. StreamTypes' /\ Position' /\ LoopIsOver'
  BY <1>1 DEF TelemetryInv, StreamTypes, Position, LoopIsOver, Outcome,
              streamVars
<1>3. BooleanTypes'
  BY <1>1 DEF TelemetryInv, BooleanTypes, streamVars
<1>4. CallTypes'
  BY <1>1 DEF TelemetryInv, CallTypes, streamVars
<1>5. GetSeesWholeStream' /\ TelemetryTellsResult'
  BY <1>1 DEF GetSeesWholeStream, TelemetryTellsResult
<1> QED BY <1>1, <1>2, <1>3, <1>4, <1>5 DEF TelemetryInv

LEMMA StartStep ==
  ASSUME TelemetryInv, NEW op \in {"stream", "get", "save"}, Start(op)
  PROVE  TelemetryInv'
<1> USE DEF Start, NewStream
<1>1. StreamTypes'
  BY LayerTypes, StreamAssumption DEF StreamTypes, Errors, SpanStates
<1>2. BooleanTypes'
  BY DEF BooleanTypes
<1>3. CallTypes'
  <2>1. measured' \in Seq(Measurements)
    BY EmptySeq
  <2>2. appendSpan' \in [Layers -> SpanStates]
    BY DEF SpanStates
  <2> QED BY <2>1, <2>2 DEF CallTypes
<1>4. Position' /\ LoopIsOver' /\ Looping'
  BY LayerTypes DEF Position, LoopIsOver, Looping
<1>5. CASE op = "stream"
  BY <1>1, <1>2, <1>3, <1>4, <1>5, CallGoesOn
<1>6. CASE op = "get"
  <2>1. /\ callSpan' = "open" /\ answer' = "none" /\ measured' = <<>>
        /\ pc' = "outside" /\ ~ (ranges' > 0)
        /\ err'[Depth] = "nil" /\ \A k \in Layers : appendSpan'[k] = "none"
    BY <1>6, LayerTypes
  <2>2. ~ iterated'[Depth] /\ ~ broke' /\ applyErr' = broke'
    BY LayerTypes
  <2>3. Getting'
    <3> HIDE DEF Start, NewStream
    <3> QED BY <2>1, <2>2 DEF Getting
  <2> QED BY <1>1, <1>2, <1>3, <1>4, <1>6, <2>3, CallGoesOn
<1>7. CASE op = "save"
  <2>1. Saving'
    BY <1>7, LayerTypes DEF Saving
  <2> QED BY <1>1, <1>2, <1>3, <1>4, <1>7, <2>1, CallGoesOn
<1> QED BY <1>5, <1>6, <1>7

LEMMA ApplicationStep ==
  ASSUME TelemetryInv, Application
  PROVE  TelemetryInv'
<1>1. /\ StreamInv /\ call = "stream" /\ callSpan = "none"
  BY DEF TelemetryInv, Application, StreamInv
<1>2. CASE (Consumer \/ Producers) /\ UNCHANGED callVars
  <2>1. /\ UNCHANGED <<call, callSpan, appendSpan, applyErr, answer>>
    BY <1>2 DEF callVars
  <2>2. StreamInv'
    BY <1>1, <1>2, <2>1, StreamStep
  <2>3. CallTypes'
    <3>1. measured' \in Seq(Measurements)
      BY <1>2, MeasuredTypes DEF TelemetryInv, CallTypes
    <3> QED BY <2>1, <3>1 DEF TelemetryInv, CallTypes
  <2> QED BY <1>1, <2>1, <2>2, <2>3, CallGoesOn DEF StreamInv
<1>3. CASE /\ call' = "none"
           /\ UNCHANGED <<streamVars, calls, callSpan, appendSpan, applyErr,
                          answer, result>>
  <2>1. StreamTypes' /\ Position' /\ LoopIsOver'
    BY <1>1, <1>3 DEF StreamInv, StreamTypes, Position, LoopIsOver, Outcome,
                      streamVars
  <2>2. BooleanTypes'
    BY <1>1, <1>3 DEF StreamInv, BooleanTypes, streamVars
  <2>3. CallTypes'
    BY <1>3 DEF TelemetryInv, CallTypes, streamVars
  <2>4. GetSeesWholeStream' /\ TelemetryTellsResult'
    BY <1>1, <1>3 DEF GetSeesWholeStream, TelemetryTellsResult
  <2> QED BY <1>1, <1>3, <2>1, <2>2, <2>3, <2>4 DEF TelemetryInv
<1> QED BY <1>2, <1>3 DEF Application

-----------------------------------------------------------------------------

(***************************************************************************)
(* Get, step by step: what the steps of its Stream do to Getting.          *)
(***************************************************************************)
getFrame == <<callSpan, appendSpan, answer>>

LEMMA GetIter ==
  ASSUME StreamInv, Getting, iters = 0, Iter, UNCHANGED applyErr,
         UNCHANGED getFrame
  PROVE  Getting'
<1>1. /\ UNCHANGED <<callSpan, appendSpan, answer, pc, broke, ranges, measured,
                     layer>>
      /\ ~ iterated[Depth] /\ iters' = iters + 1
  BY DEF Getting, Iter, aside, getFrame
<1>2. err' = err
  <2>1. err' = [err EXCEPT ![Depth] = err[Depth]]
    BY <1>1 DEF Iter
  <2> QED BY <2>1 DEF StreamInv, StreamTypes
<1>3. iters' # 0
  BY <1>1
<1> QED BY <1>1, <1>2, <1>3 DEF Getting, MeasuredSoFar

LEMMA GetRangeLoop ==
  ASSUME StreamInv, Getting, ranges = 0, RangeLoop, UNCHANGED applyErr,
         UNCHANGED getFrame
  PROVE  Getting'
<1>1. /\ UNCHANGED <<callSpan, appendSpan, answer, measured, iterated, err,
                     iters>>
      /\ measured = <<>> /\ ~ broke /\ pc' = "opening"
  BY DEF Getting, RangeLoop, aside, getFrame
<1>2. broke' = FALSE /\ applyErr' = FALSE
  <2>1. broke \in BOOLEAN /\ applyErr' = broke
    BY DEF StreamInv, BooleanTypes, Getting
  <2> QED BY <1>1, <2>1 DEF RangeLoop
<1> QED BY <1>1, <1>2 DEF Getting

LEMMA GetOpenWrapper ==
  ASSUME StreamInv, Getting, OpenWrapper, UNCHANGED applyErr,
         UNCHANGED getFrame
  PROVE  Getting'
<1>1. /\ UNCHANGED <<callSpan, appendSpan, answer, measured, pc, broke, ranges,
                     iters>>
      /\ pc = "opening" /\ layer \in Layers /\ layer > 1
  BY DEF OpenWrapper, aside, getFrame, StreamInv, Position
<1>2. layer - 1 \in Layers /\ layer - 1 # Depth
  BY <1>1, LayerTypes DEF Layers
<1>3. err'[Depth] = err[Depth]
  BY <1>2, LayerTypes DEF OpenWrapper, StreamInv, StreamTypes
<1>4. iterated'[Depth] = iterated[Depth]
  BY <1>2, LayerTypes DEF OpenWrapper, StreamInv, BooleanTypes
<1> QED BY <1>1, <1>3, <1>4 DEF Getting

LEMMA GetProduces ==
  ASSUME StreamInv, Getting, OpenStore \/ Yield \/ Continue,
         UNCHANGED applyErr, UNCHANGED getFrame
  PROVE  Getting'
<1>1. /\ UNCHANGED <<callSpan, appendSpan, answer, measured, iterated, err,
                     broke, iters, ranges>>
      /\ pc \in {"opening", "producing", "body"}
      /\ pc' \in {"producing", "body"}
  BY DEF OpenStore, Yield, Continue, aside, getFrame
<1> QED BY <1>1 DEF Getting

LEMMA GetStoreReturns ==
  ASSUME StreamInv, Getting, NEW e \in {"nil", "failure"}, StoreReturns(e),
         pc \in {"producing", "body"}, applyErr' = broke',
         UNCHANGED getFrame
  PROVE  Getting'
<1>1. /\ UNCHANGED <<callSpan, appendSpan, answer, measured, iterated, iters,
                     ranges>>
      /\ measured = <<>> /\ pc' = "returning" /\ layer' = 2
      /\ err' = [err EXCEPT ![1] = e]
  BY DEF StoreReturns, aside, getFrame, Getting
<1>2. err'[Depth] # "already iterated"
  BY <1>1, LayerTypes DEF Getting, StreamInv, StreamTypes
<1>3. ranges' # 0
  BY <1>1 DEF StreamInv, Looping
<1>4. layer' - 2 = 0
  BY <1>1
<1>5. MeasuredSoFar(layer - 2, "stream", err[layer - 1])'
  BY <1>1, <1>4, EmptySeq DEF MeasuredSoFar
<1> QED BY <1>1, <1>2, <1>3, <1>5 DEF Getting

LEMMA GetWrapperReturns ==
  ASSUME StreamInv, Getting, WrapperReturns, measured \in Seq(Measurements),
         UNCHANGED applyErr, UNCHANGED getFrame
  PROVE  Getting'
<1> PICK e : e = err[layer - 1]
  OBVIOUS
<1> PICK n : n = layer - 2
  OBVIOUS
<1>1. /\ UNCHANGED <<callSpan, appendSpan, answer, pc, broke, iterated, iters,
                     ranges>>
      /\ pc = "returning" /\ layer' = layer + 1 /\ layer \in 2 .. Depth
      /\ err' = [err EXCEPT ![layer] = ProducerErr]
      /\ Measure("stream", ProducerErr # "nil")
  BY LayerTypes DEF WrapperReturns, WrapperReturnsWith, getFrame, Layers,
                    StreamInv, Position
<1>2. e \in {"nil", "failure"} /\ ProducerErr = e
  BY <1>1 DEF StreamInv, Looping, Outcome, ProducerErr
<1>3. err'[layer' - 1] = e
  BY WrapperReturnsStep DEF getFrame
<1>4. n \in Nat /\ layer' - 2 = n + 1
  BY <1>1, LayerTypes
<1>5. MeasuredSoFar(n, "stream", e)
  BY <1>1 DEF Getting
<1>6. /\ Len(measured') = n + 1
      /\ \A m \in 1 .. (n + 1) :
           measured'[m] = [op |-> "stream", error |-> (e # "nil")]
  BY <1>1, <1>2, <1>4, <1>5, MeasuredOneMore DEF Operations
<1>7. MeasuredSoFar(layer - 2, "stream", err[layer - 1])'
  BY <1>3, <1>4, <1>6 DEF MeasuredSoFar
<1>8. err'[Depth] # "already iterated"
  BY <1>1, <1>2, LayerTypes DEF Getting, StreamInv, StreamTypes
<1>9. ranges' # 0
  BY <1>1 DEF StreamInv, Looping
<1> QED BY <1>1, <1>7, <1>8, <1>9 DEF Getting

LEMMA GetLoopEnds ==
  ASSUME StreamInv, Getting, LoopEnds, UNCHANGED applyErr, UNCHANGED getFrame
  PROVE  Getting'
<1>1. /\ UNCHANGED <<callSpan, appendSpan, answer, measured, iterated, err,
                     broke, iters, ranges>>
      /\ pc = "returning" /\ layer = Depth + 1 /\ pc' = "outside"
  BY DEF LoopEnds, aside, getFrame
<1>2. layer - 2 = Depth - 1 /\ layer - 1 = Depth
  BY <1>1, LayerTypes
<1>3. MeasuredSoFar(Depth - 1, "stream", err[Depth])
  BY <1>1, <1>2 DEF Getting
<1>4. ranges' # 0
  BY <1>1 DEF StreamInv, Looping
<1> QED BY <1>1, <1>3, <1>4 DEF Getting, MeasuredSoFar

LEMMA RehydrateStep ==
  ASSUME TelemetryInv, Rehydrate
  PROVE  TelemetryInv'
<1>1. /\ StreamInv /\ Getting /\ call = "get" /\ CallTypes
      /\ measured \in Seq(Measurements)
      /\ UNCHANGED <<call, callSpan, appendSpan, answer>>
  BY DEF TelemetryInv, Rehydrate, StreamInv, CallTypes
<1>2. UNCHANGED getFrame
  BY <1>1 DEF getFrame
<1>3. ASSUME Break \/ Exhausted \/ StoreFails, applyErr' = broke'
      PROVE  Getting'
  <2>1. \E e \in {"nil", "failure"} : StoreReturns(e)
    BY <1>3 DEF Break, Exhausted, StoreFails
  <2>2. pc \in {"producing", "body"}
    BY <1>3 DEF Break, Exhausted, StoreFails
  <2> QED BY <1>1, <1>2, <1>3, <2>1, <2>2, GetStoreReturns
<1>4. Getting' /\ applyErr' \in BOOLEAN
  <2>1. applyErr = broke /\ applyErr \in BOOLEAN
    BY <1>1 DEF Getting, CallTypes
  <2>2. CASE iters = 0 /\ Iter /\ UNCHANGED applyErr
    BY <1>1, <1>2, <2>1, <2>2, GetIter
  <2>3. CASE ranges = 0 /\ RangeLoop /\ UNCHANGED applyErr
    BY <1>1, <1>2, <2>1, <2>3, GetRangeLoop
  <2>4. CASE Continue /\ UNCHANGED applyErr
    BY <1>1, <1>2, <2>1, <2>4, GetProduces
  <2>5. CASE Break /\ applyErr' = TRUE
    BY <1>3, <2>5 DEF Break
  <2>6. CASE Producers /\ UNCHANGED applyErr
    BY <1>1, <1>2, <1>3, <2>1, <2>6, GetOpenWrapper, GetProduces,
       GetWrapperReturns, GetLoopEnds
       DEF Producers, Exhausted, StoreFails
  <2> QED BY <2>2, <2>3, <2>4, <2>5, <2>6 DEF Rehydrate
<1>5. Consumer \/ Producers
  BY DEF Rehydrate, Consumer
<1>6. StreamInv' /\ measured' \in Seq(Measurements)
  BY <1>1, <1>5, StreamStep, MeasuredTypes
<1>7. CallTypes'
  BY <1>1, <1>4, <1>6 DEF CallTypes
<1> QED BY <1>1, <1>4, <1>6, <1>7, CallGoesOn DEF StreamInv

-----------------------------------------------------------------------------

LEMMA FrontOfAppend ==
  ASSUME NEW s \in Seq(Measurements), NEW x \in Measurements,
         NEW t, t = Append(s, x)
  PROVE  /\ t # <<>> /\ t[Len(t)] = x
         /\ SubSeq(t, 1, Len(t) - 1) = s
<1> DEFINE n == Len(s)
           f == SubSeq(t, 1, n)
<1>1. /\ n \in Nat /\ t \in Seq(Measurements) /\ Len(t) = n + 1 /\ t[n + 1] = x
      /\ \A k \in 1 .. n : t[k] = s[k]
  BY AppendProperties, LenProperties
<1> HIDE DEF n
<1>2. /\ 1 \in Int /\ n \in Int /\ n + 1 - 1 = n
      /\ \A k \in 1 .. n : k \in 1 .. (n + 1)
  BY <1>1
<1>3. \A k \in 1 .. n : t[k] \in Measurements
  BY <1>1, <1>2, ElementOfSeq
<1>4. f \in Seq(Measurements) /\ Len(f) = n /\ \A k \in 1 .. n : f[k] = t[k]
  BY <1>1, <1>2, <1>3, SubSeqProperties
<1> HIDE DEF f
<1>5. f = s
  BY <1>1, <1>4, SeqEqual DEF n
<1>6. t # <<>>
  BY <1>1, EmptySeq
<1> QED BY <1>1, <1>2, <1>5, <1>6 DEF n, f

LEMMA MeasuredFields ==
  ASSUME measured \in Seq(Measurements), NEW n, NEW op, NEW x,
         MeasuredSoFar(n, op, x), NEW m \in DOMAIN measured
  PROVE  n # 0 /\ measured[m].op = op /\ (measured[m].error <=> x # "nil")
<1>1. Len(measured) = n
  BY DEF MeasuredSoFar
<1>2. m \in 1 .. n /\ n # 0
  BY <1>1
<1>3. measured[m] = [op |-> op, error |-> (x # "nil")]
  BY <1>2 DEF MeasuredSoFar
<1>4. measured[m].op = op
  BY <1>3
<1>5. measured[m].error = (x # "nil")
  BY <1>3
<1> QED BY <1>2, <1>4, <1>5

(***************************************************************************)
(* A call on the repository returns e, when the store's wrappers have all  *)
(* measured x: telemetry tells e if x is an error only when e is one.      *)
(***************************************************************************)
LEMMA ReturnsTells ==
  ASSUME TelemetryInv, call \in {"get", "save"},
         NEW e \in {"nil", "failure", "apply", "not found", "conflict"},
         NEW x, NEW n \in {0, Depth - 1}, NEW op \in {"stream", "append"},
         MeasuredSoFar(n, op, x),
         n # 0 /\ x # "nil" => e \in {"failure", "conflict"},
         \A k \in Layers : span[k] # "open" /\ appendSpan[k] # "open",
         e \in {"failure", "conflict"} =>
           \A k \in 2 .. Depth :
             \/ span[k] = "ended with error"
             \/ appendSpan[k] = "ended with error",
         Returns(e)
  PROVE  TelemetryTellsResult'
<1> DEFINE entry == [op |-> call, error |-> (e # "nil")]
<1>1. measured \in Seq(Measurements) /\ entry \in Measurements
  <2>1. (e # "nil") \in BOOLEAN
    OBVIOUS
  <2>2. call \in Operations
    BY DEF Operations
  <2>3. entry \in Measurements
    BY <2>1, <2>2 DEF Measurements
  <2> QED BY <2>3 DEF TelemetryInv, CallTypes
<1>2. measured' = Append(measured, entry)
  BY DEF Returns, Measure
<1>3. entry.op \in {"get", "save"} /\ (entry.error <=> e # "nil")
  <2>1. entry.op = call
    OBVIOUS
  <2>2. entry.error = (e # "nil")
    OBVIOUS
  <2> HIDE DEF entry
  <2> QED BY <2>1, <2>2
<1> HIDE DEF entry
<1>4. /\ measured' # <<>> /\ measured'[Len(measured')] = entry
      /\ Inner' = measured
  <2>1. Inner' = SubSeq(measured', 1, Len(measured') - 1)
    BY DEF Inner
  <2> QED BY <1>1, <1>2, <2>1, FrontOfAppend
<1>5. /\ callSpan' = SpanStatus(e) /\ result' = e /\ call' = "none"
      /\ UNCHANGED <<span, appendSpan>>
  BY DEF Returns
<1>6. callSpan' # "open" /\ (callSpan' = "ended with error" <=> e # "nil")
  BY <1>5 DEF SpanStatus
<1>7. DOMAIN measured = 1 .. n /\ Len(measured) = n /\ n \in Nat
  <2>1. Len(measured) = n
    BY DEF MeasuredSoFar
  <2>2. DOMAIN measured = 1 .. Len(measured) /\ Len(measured) \in Nat
    BY <1>1, LenProperties
  <2> QED BY <2>1, <2>2
<1>8. ASSUME NEW m \in DOMAIN measured
      PROVE  /\ measured[m].op \in {"stream", "append"}
             /\ measured[m].error => e \in {"failure", "conflict"}
  BY <1>1, MeasuredFields
<1>9. \A k \in Layers : span'[k] # "open" /\ appendSpan'[k] # "open"
  BY <1>5
<1>10. /\ measured'[Len(measured')].op \in {"get", "save"}
       /\ measured'[Len(measured')].error <=> result' # "nil"
  BY <1>3, <1>4, <1>5
<1>11. \A m \in DOMAIN Inner' :
         /\ Inner'[m].op \in {"stream", "append"}
         /\ Inner'[m].error => result' \in {"failure", "conflict"}
  BY <1>4, <1>5, <1>8
<1>12. Len(Inner') \in {0, Depth - 1}
  BY <1>4, <1>7
<1>13. result' \in {"failure", "conflict"} /\ Depth > 1 =>
         \A k \in 2 .. Depth :
           span'[k] = "ended with error" \/ appendSpan'[k] = "ended with error"
  BY <1>5
<1> QED BY <1>4, <1>5, <1>6, <1>9, <1>10, <1>11, <1>12, <1>13
        DEF TelemetryTellsResult

(***************************************************************************)
(* The other conjuncts of the invariant, when a call returns.              *)
(***************************************************************************)
LEMMA ReturnsStep ==
  ASSUME TelemetryInv, call \in {"get", "save"}, NEW e, Returns(e),
         GetSeesWholeStream', TelemetryTellsResult'
  PROVE  TelemetryInv'
<1>1. /\ UNCHANGED <<iterated, err, span, pc, layer, available, delivered,
                     broke, iters, ranges, registered, appendSpan, applyErr,
                     answer>>
      /\ call' = "none"
  BY DEF Returns, TelemetryInv
<1>2. StreamTypes' /\ Position' /\ LoopIsOver'
  BY <1>1 DEF TelemetryInv, StreamTypes, Position, LoopIsOver, Outcome
<1>3. BooleanTypes'
  BY <1>1 DEF TelemetryInv, BooleanTypes
<1>4. CallTypes'
  <2>1. measured' \in Seq(Measurements)
    <3>1. (e # "nil") \in BOOLEAN /\ call \in Operations
      BY DEF Operations
    <3> QED BY <3>1, MeasureTypes DEF Returns, TelemetryInv, CallTypes
  <2> QED BY <1>1, <2>1 DEF TelemetryInv, CallTypes
<1> QED BY <1>1, <1>2, <1>3, <1>4 DEF TelemetryInv

LEMMA GetReturnsStep ==
  ASSUME TelemetryInv, GetReturns
  PROVE  TelemetryInv'
<1> PICK x : x = err[Depth]
  OBVIOUS
<1> PICK e : e = GetError
  OBVIOUS
<1>1. /\ call = "get" /\ pc = "outside" /\ ranges > 0 /\ Returns(e)
      /\ Getting /\ LoopIsOver
  BY DEF GetReturns, TelemetryInv
<1>2. /\ Outcome(x) /\ \A k \in 2 .. Depth : span[k] = SpanStatus(x)
  BY <1>1 DEF Getting, LoopIsOver
<1>3. applyErr = broke /\ applyErr \in BOOLEAN
  BY <1>1 DEF Getting, TelemetryInv, CallTypes
<1>4. \/ e = "apply" /\ applyErr /\ x = "nil"
      \/ e = "failure" /\ ~ applyErr /\ x = "failure"
      \/ e = "not found" /\ ~ applyErr /\ x = "nil" /\ delivered = 0
      \/ e = "nil" /\ ~ applyErr /\ x = "nil" /\ delivered # 0
  <2>1. x \in {"nil", "failure"} /\ (applyErr => x = "nil")
    BY <1>2, <1>3 DEF Outcome
  <2>2. CASE applyErr
    <3>1. GetError = "apply"
      BY <2>2 DEF GetError
    <3> QED BY <2>1, <2>2, <3>1
  <2>3. CASE ~ applyErr /\ x = "failure"
    <3>1. GetError = err[Depth]
      BY <2>3 DEF GetError
    <3> QED BY <2>3, <3>1
  <2>4. CASE ~ applyErr /\ x = "nil" /\ delivered = 0
    <3>1. GetError = "not found"
      BY <2>4 DEF GetError
    <3> QED BY <2>4, <3>1
  <2>5. CASE ~ applyErr /\ x = "nil" /\ delivered # 0
    BY <2>5 DEF GetError
  <2> QED BY <2>1, <2>2, <2>3, <2>4, <2>5
<1>5. \A k \in Layers : appendSpan[k] # "open" /\ span[k] # "open"
  <2>1. \A k \in 2 .. Depth : span[k] # "open"
    BY <1>2 DEF SpanStatus
  <2>2. span[1] # "open"
    BY DEF TelemetryInv, Position
  <2> QED BY <1>1, <2>1, <2>2, LayerTypes DEF Getting
<1>6. TelemetryTellsResult'
  <2>1. e \in {"nil", "failure", "apply", "not found", "conflict"}
    BY <1>4
  <2>2. e \in {"failure", "conflict"} => x = "failure"
    BY <1>4
  <2>3. x # "nil" => e \in {"failure", "conflict"}
    BY <1>4
  <2>4. e \in {"failure", "conflict"} =>
          \A k \in 2 .. Depth : span[k] = "ended with error"
    BY <1>2, <2>2 DEF SpanStatus
  <2>5. MeasuredSoFar(Depth - 1, "stream", x)
    BY <1>1 DEF Getting
  <2> QED BY <1>1, <1>5, <2>1, <2>3, <2>4, <2>5, ReturnsTells
<1>7. GetSeesWholeStream'
  <2>1. /\ result' = e /\ UNCHANGED <<available, delivered, applyErr>>
    BY <1>1 DEF Returns
  <2>2. available \in Nat /\ delivered \in 0 .. available
    <3>1. available \in 0 .. NumValues /\ delivered \in 0 .. available
      BY DEF TelemetryInv, StreamTypes
    <3>2. NumValues \in Nat
      BY StreamAssumption
    <3> QED BY <3>1, <3>2
  <2>3. x = "nil" /\ ~ applyErr => delivered = available
    BY <1>2, <1>3 DEF Outcome
  <2>4. e = "nil" => available > 0 /\ delivered = available /\ ~ applyErr
    <3>1. e = "nil" => delivered # 0 /\ delivered = available /\ ~ applyErr
      BY <1>4, <2>3
    <3>2. delivered # 0 /\ delivered = available => available > 0
      BY <2>2
    <3> QED BY <3>1, <3>2
  <2>5. e = "not found" => available = 0
    BY <1>4, <2>3
  <2> QED BY <2>1, <2>4, <2>5 DEF GetSeesWholeStream
<1> QED BY <1>1, <1>6, <1>7, ReturnsStep

-----------------------------------------------------------------------------

(***************************************************************************)
(* Save.  The Stream is not used: its part of the invariant is kept.       *)
(***************************************************************************)
LEMMA SavingFrame ==
  ASSUME TelemetryInv, call = "save", UNCHANGED saving, call' = call,
         layer' \in 1 .. (Depth + 1), applyErr' = applyErr,
         pc' \in {"opening", "returning"},
         pc' = "opening" => layer' \in Layers,
         pc' = "returning" => layer' \in 2 .. (Depth + 1),
         appendSpan' \in [Layers -> SpanStates], appendSpan'[1] = "none",
         answer' \in {"none", "nil", "conflict", "failure"},
         measured' \in Seq(Measurements), Saving'
  PROVE  TelemetryInv'
<1> USE DEF TelemetryInv, saving
<1>1. StreamTypes'
  BY DEF StreamTypes
<1>2. BooleanTypes'
  BY DEF BooleanTypes
<1>3. CallTypes'
  BY DEF CallTypes
<1>4. Position' /\ LoopIsOver'
  BY DEF Position, LoopIsOver
<1> HIDE DEF TelemetryInv
<1> QED BY <1>1, <1>2, <1>3, <1>4, CallGoesOn

LEMMA SaveNothingStep ==
  ASSUME TelemetryInv, SaveNothing
  PROVE  TelemetryInv'
<1>1. /\ call = "save" /\ Returns("nil") /\ Saving /\ pc = "outside"
  BY DEF SaveNothing, TelemetryInv
<1>2. /\ MeasuredSoFar(0, "append", "nil")
      /\ \A k \in Layers : span[k] # "open" /\ appendSpan[k] # "open"
  BY <1>1, EmptyMeasured DEF Saving
<1>3. TelemetryTellsResult'
  BY <1>1, <1>2, ReturnsTells
<1>4. GetSeesWholeStream'
  BY <1>1 DEF Saving, Returns, GetSeesWholeStream
<1> QED BY <1>1, <1>3, <1>4, ReturnsStep

LEMMA SaveAppendsStep ==
  ASSUME TelemetryInv, SaveAppends
  PROVE  TelemetryInv'
<1>1. /\ call = "save" /\ pc = "outside" /\ pc' = "opening" /\ answer = "none"
      /\ UNCHANGED <<saving, registered, layer, measured, call, callSpan,
                     appendSpan, applyErr, answer>>
      /\ Saving
  BY DEF SaveAppends, TelemetryInv, callVars
<1>2. layer = Depth
  BY <1>1 DEF TelemetryInv, Position
<1>3. Saving'
  BY <1>1, <1>2, LayerTypes DEF Saving, saving
<1>4. /\ layer' \in Layers /\ layer' \in 1 .. (Depth + 1)
      /\ appendSpan'[1] = "none" /\ appendSpan' \in [Layers -> SpanStates]
      /\ measured' \in Seq(Measurements)
  BY <1>1, <1>2, LayerTypes
     DEF TelemetryInv, Position, CallTypes
<1> QED BY <1>1, <1>3, <1>4, SavingFrame

LEMMA AppendOpensStep ==
  ASSUME TelemetryInv, AppendOpens
  PROVE  TelemetryInv'
<1>1. /\ call = "save" /\ pc = "opening" /\ pc' = pc /\ layer' = layer - 1
      /\ appendSpan' = [appendSpan EXCEPT ![layer] = "open"]
      /\ UNCHANGED <<saving, registered, measured, call, callSpan, applyErr,
                     answer>>
      /\ Saving /\ layer > 1
  BY DEF AppendOpens, TelemetryInv
<1>2. layer \in Layers
  BY <1>1 DEF TelemetryInv, Position
<1>3. /\ layer' \in Layers /\ layer' \in 1 .. (Depth + 1)
  BY <1>1, <1>2, LayerTypes DEF Layers
<1>4. appendSpan \in [Layers -> SpanStates] /\ "open" \in SpanStates
  BY DEF TelemetryInv, CallTypes, SpanStates
<1>5. appendSpan' \in [Layers -> SpanStates] /\ appendSpan'[1] = "none"
  BY <1>1, <1>2, <1>4, LayerTypes DEF TelemetryInv, Position
<1>6. ASSUME NEW k \in 2 .. Depth, k > layer' PROVE appendSpan'[k] = "open"
  <2>1. k = layer \/ k > layer
    BY <1>1, <1>2, <1>6, LayerTypes
  <2> QED BY <1>1, <1>4, <2>1, LayerTypes DEF Saving
<1>7. Saving'
  BY <1>1, <1>6 DEF Saving, saving
<1>8. measured' \in Seq(Measurements)
  BY <1>1 DEF TelemetryInv, CallTypes
<1>9. answer' = "none"
  BY <1>1 DEF Saving
<1> QED BY <1>1, <1>3, <1>5, <1>7, <1>8, <1>9, SavingFrame

LEMMA StoreAppendsStep ==
  ASSUME TelemetryInv, NEW e \in {"nil", "conflict", "failure"},
         StoreAppends(e)
  PROVE  TelemetryInv'
<1>1. /\ call = "save" /\ pc = "opening" /\ pc' = "returning" /\ layer = 1
      /\ layer' = 2 /\ answer' = e
      /\ UNCHANGED <<saving, registered, measured, call, callSpan, appendSpan,
                     applyErr>>
      /\ Saving
  BY DEF StoreAppends, TelemetryInv
<1>2. layer' \in 2 .. (Depth + 1) /\ layer' \in 1 .. (Depth + 1)
      /\ layer' - 2 = 0
  BY <1>1, LayerTypes
<1>3. appendSpan' \in [Layers -> SpanStates] /\ appendSpan'[1] = "none"
      /\ measured' \in Seq(Measurements)
  BY <1>1 DEF TelemetryInv, CallTypes, Position
<1>4. ASSUME NEW k \in 2 .. Depth
      PROVE  appendSpan'[k] = "open" /\ ~ (k < layer')
  BY <1>1 DEF Saving
<1>5. MeasuredSoFar(layer - 2, "append", answer)'
  BY <1>1, <1>2, EmptySeq DEF Saving, MeasuredSoFar
<1>6. Saving'
  BY <1>1, <1>4, <1>5 DEF Saving, saving
<1> QED BY <1>1, <1>2, <1>3, <1>6, SavingFrame

LEMMA AppendReturnsStep ==
  ASSUME TelemetryInv, AppendReturns
  PROVE  TelemetryInv'
<1> PICK x : x = answer
  OBVIOUS
<1> PICK n : n = layer - 2
  OBVIOUS
<1>1. /\ call = "save" /\ pc = "returning" /\ pc' = pc /\ layer' = layer + 1
      /\ appendSpan' = [appendSpan EXCEPT ![layer] = SpanStatus(x)]
      /\ Measure("append", x # "nil") /\ layer \in Layers
      /\ UNCHANGED <<saving, registered, call, callSpan, applyErr, answer>>
      /\ Saving
  BY DEF AppendReturns, TelemetryInv
<1>2. layer \in 2 .. Depth /\ n \in Nat /\ layer' - 2 = n + 1
  <2>1. layer \in 2 .. (Depth + 1)
    BY <1>1 DEF TelemetryInv, Position
  <2> QED BY <1>1, <2>1, LayerTypes
<1>3. layer' \in 2 .. (Depth + 1) /\ layer' \in 1 .. (Depth + 1)
  BY <1>1, <1>2, LayerTypes
<1>4. /\ appendSpan \in [Layers -> SpanStates]
      /\ measured \in Seq(Measurements)
      /\ answer \in {"none", "nil", "conflict", "failure"}
  BY DEF TelemetryInv, CallTypes
<1>5. SpanStatus(x) \in SpanStates
  BY DEF SpanStatus, SpanStates
<1>6. appendSpan' \in [Layers -> SpanStates] /\ appendSpan'[1] = "none"
  <2>1. layer # 1
    BY <1>2
  <2> QED BY <1>1, <1>4, <1>5, <2>1, LayerTypes DEF TelemetryInv, Position
<1>7. ASSUME NEW k \in 2 .. Depth
      PROVE  appendSpan'[k] = IF k < layer' THEN SpanStatus(x) ELSE "open"
  <2>1. k < layer' <=> k < layer \/ k = layer
    BY <1>1, <1>2, LayerTypes
  <2>2. appendSpan[k] = IF k < layer THEN SpanStatus(x) ELSE "open"
    BY <1>1 DEF Saving
  <2> QED BY <1>1, <1>4, <2>1, <2>2, LayerTypes
<1>8. MeasuredSoFar(n, "append", x) /\ x # "none"
  BY <1>1 DEF Saving
<1>9. /\ Len(measured') = n + 1
      /\ \A m \in 1 .. (n + 1) :
           measured'[m] = [op |-> "append", error |-> (x # "nil")]
  BY <1>1, <1>2, <1>4, <1>8, MeasuredOneMore DEF Operations
<1>10. MeasuredSoFar(layer - 2, "append", answer)'
  BY <1>1, <1>2, <1>9 DEF MeasuredSoFar
<1>11. Saving'
  BY <1>1, <1>7, <1>8, <1>10 DEF Saving, saving
<1>12. measured' \in Seq(Measurements)
  <2>1. (x # "nil") \in BOOLEAN /\ "append" \in Operations
    BY DEF Operations
  <2> QED BY <1>1, <1>4, <2>1, MeasureTypes
<1> QED BY <1>1, <1>3, <1>4, <1>6, <1>11, <1>12, SavingFrame

LEMMA SaveReturnsStep ==
  ASSUME TelemetryInv, SaveReturns
  PROVE  TelemetryInv'
<1> PICK x : x = answer
  OBVIOUS
<1>1. /\ call = "save" /\ pc = "returning" /\ layer = Depth + 1 /\ Saving
      /\ Returns(x)
  BY DEF SaveReturns, TelemetryInv
<1>2. x \in {"nil", "conflict", "failure"}
  BY <1>1 DEF Saving, TelemetryInv, CallTypes
<1>3. layer - 2 = Depth - 1 /\ \A k \in 2 .. Depth : k < layer
  BY <1>1, LayerTypes
<1>4. \A k \in 2 .. Depth : appendSpan[k] = SpanStatus(x)
  BY <1>1, <1>3 DEF Saving
<1>5. MeasuredSoFar(Depth - 1, "append", x)
  BY <1>1, <1>3 DEF Saving
<1>6. \A k \in Layers : span[k] # "open" /\ appendSpan[k] # "open"
  <2>1. \A k \in 2 .. Depth : appendSpan[k] # "open"
    BY <1>4 DEF SpanStatus
  <2>2. appendSpan[1] # "open"
    BY DEF TelemetryInv, Position
  <2> QED BY <1>1, <2>1, <2>2, LayerTypes DEF Saving
<1>7. x \in {"failure", "conflict"} =>
        \A k \in 2 .. Depth : appendSpan[k] = "ended with error"
  BY <1>4 DEF SpanStatus
<1>8. TelemetryTellsResult'
  BY <1>1, <1>2, <1>5, <1>6, <1>7, ReturnsTells
<1>9. GetSeesWholeStream'
  BY <1>1 DEF Saving, Returns, GetSeesWholeStream
<1> QED BY <1>1, <1>8, <1>9, ReturnsStep

LEMMA StutterStep ==
  ASSUME TelemetryInv, UNCHANGED vars
  PROVE  TelemetryInv'
<1> USE DEF vars, streamVars, callVars
<1>1. StreamTypes' /\ Position' /\ LoopIsOver'
  BY DEF TelemetryInv, StreamTypes, Position, LoopIsOver, Outcome
<1>2. BooleanTypes' /\ CallTypes'
  BY DEF TelemetryInv, BooleanTypes, CallTypes
<1>3. Looping = Looping' /\ Getting = Getting' /\ Saving = Saving'
  BY DEF Looping, Getting, Saving, MeasuredSoFar, Outcome
<1>4. GetSeesWholeStream' /\ TelemetryTellsResult'
  BY DEF TelemetryInv, GetSeesWholeStream, TelemetryTellsResult, Inner
<1>5. UNCHANGED <<call, callSpan, registered>>
  OBVIOUS
<1> QED BY <1>1, <1>2, <1>3, <1>4, <1>5 DEF TelemetryInv

-----------------------------------------------------------------------------

LEMMA Invariance == Spec => []TelemetryInv
<1>1. TelemetryInv /\ [Next]_vars => TelemetryInv'
  BY StutterStep, ConstructionStep, StartStep, ApplicationStep, RehydrateStep,
     GetReturnsStep, SaveNothingStep, SaveAppendsStep, AppendOpensStep,
     StoreAppendsStep, AppendReturnsStep, SaveReturnsStep
     DEF Next
<1> QED BY <1>1, InitTelemetryInv, PTL DEF Spec

(***************************************************************************)
(* Through any number of wrappers, a loop over a message.Stream that ran   *)
(* out by itself with a nil Err has delivered every event.                 *)
(***************************************************************************)
THEOREM NoTruncation == Spec => []NoSilentTruncation
<1>1. TelemetryInv => NoSilentTruncation
  BY DEF TelemetryInv, LoopIsOver, Outcome, NoSilentTruncation
<1> QED BY <1>1, Invariance, PTL

(***************************************************************************)
(* After the loop the spans of all InstrumentedEventStore wrappers are     *)
(* ended, with an error exactly when Stream.Err returns one.               *)
(***************************************************************************)
THEOREM SpansAgreeWithErr == Spec => []SpansTellErr
<1>1. TelemetryInv => SpansTellErr
  BY DEF TelemetryInv, LoopIsOver, Outcome, SpansTellErr, SpanStatus
<1> QED BY <1>1, Invariance, PTL

(***************************************************************************)
(* A root that Get returned without an error has gone through its whole    *)
(* Event Stream, and ErrRootNotFound means an empty one.                   *)
(***************************************************************************)
THEOREM GetIsWhole == Spec => []GetSeesWholeStream
<1>1. TelemetryInv => GetSeesWholeStream
  BY DEF TelemetryInv
<1> QED BY <1>1, Invariance, PTL

(***************************************************************************)
(* The spans and the measurements of a call on the InstrumentedRepository  *)
(* tell the result that its caller got, whatever happened below.           *)
(***************************************************************************)
THEOREM TelemetryIsTrue == Spec => []TelemetryTellsResult
<1>1. TelemetryInv => TelemetryTellsResult
  BY DEF TelemetryInv
<1> QED BY <1>1, Invariance, PTL

=============================================================================
