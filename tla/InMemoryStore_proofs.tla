------------------------ MODULE InMemoryStore_proofs ------------------------
(***************************************************************************)
(* Proofs about InMemoryStore, for any number of goroutines, streams and   *)
(* events: the types, the exclusion the RWMutex gives, and that the store  *)
(* implements the contract of event.Store.                                 *)
(***************************************************************************)
EXTENDS InMemoryStore, SequenceTheorems, TLAPS

(***************************************************************************)
(* Who holds the lock: the next writer is unique, a granted writer has no  *)
(* readers beside it, and an iteration holds the read lock throughout.     *)
(***************************************************************************)
LockInv ==
  \A g \in Goroutines :
    /\ pc[g] \in {"wait", "check", "extend", "unlock"} => mx.writer = g
    /\ pc[g] \in {"check", "extend", "unlock"} => mx.readers = {}
    /\ pc[g] \in {"range", "yield", "runlock"} => g \in mx.readers

(***************************************************************************)
(* Which call a goroutine is in, and when its answer is known.             *)
(***************************************************************************)
CallInv ==
  \A g \in Goroutines :
    /\ pc[g] = "idle" => call[g] = NoCall
    /\ pc[g] \in AppendLabels => call[g] \in AppendCalls
    /\ pc[g] \in StreamLabels => call[g] \in StreamCalls
    /\ pc[g] \in {"unlock", "runlock"} <=> reply[g] # Pending

(***************************************************************************)
(* The version check that Append made still holds when it extends.         *)
(***************************************************************************)
CheckInv ==
  \A g \in Goroutines :
    pc[g] = "extend" =>
      ~ VersionConflicts(call[g].expected, Len(events[call[g].id]))

(***************************************************************************)
(* What an iteration has delivered: the selected events before next.       *)
(***************************************************************************)
Delivered(g) ==
  LET first  == First(call[g].from)
      stream == events[call[g].id]
  IN  /\ next[g] \in 1 .. (Len(stream) + 1)
      /\ pc[g] = "range" =>
           Len(got[g]) = IF next[g] <= first THEN 0 ELSE next[g] - first
      /\ pc[g] = "yield" =>
           /\ first <= next[g]
           /\ next[g] <= Len(stream)
           /\ Len(got[g]) = next[g] + 1 - first
      /\ \A k \in 1 .. Len(got[g]) :
           /\ first + k - 1 <= Len(stream)
           /\ got[g][k] = [version |-> first + k - 1,
                           event |-> stream[first + k - 1]]

IterOf(g) ==
  /\ pc[g] \in {"range", "yield"} => Delivered(g)
  /\ pc[g] \in {"idle", "rlock"} \cup AppendLabels => got[g] = <<>>

IterInv == \A g \in Goroutines : IterOf(g)

IInv == TypeOK /\ LockInv /\ CallInv /\ CheckInv /\ IterInv

(***************************************************************************)
(* What Batches and the calls made of them are.                            *)
(***************************************************************************)
LEMMA BatchesAreSequences == Batches \subseteq Seq(Events)
  BY BoundsAssumption DEF Batches

LEMMA AppendCallTypes ==
  ASSUME NEW c \in AppendCalls
  PROVE  /\ c.op = "append" /\ c # NoCall /\ c \notin StreamCalls
         /\ c.id \in StreamIDs /\ c.expected \in Int
         /\ c.expected # CheckAny => c.expected \in Nat
         /\ c.events \in Seq(Events)
  BY BatchesAreSequences, BoundsAssumption
     DEF AppendCalls, StreamCalls, NoCall, CheckAny

LEMMA StreamCallTypes ==
  ASSUME NEW c \in StreamCalls
  PROVE  /\ c.op = "stream" /\ c # NoCall
         /\ c.id \in StreamIDs /\ c.from \in Nat
         /\ First(c.from) \in Nat \ {0}
  BY BoundsAssumption DEF StreamCalls, NoCall, First

(***************************************************************************)
(* Selected is the part of the stream that starts at First(from).          *)
(***************************************************************************)
LEMMA SelectedProperties ==
  ASSUME NEW stream \in Seq(Events), NEW from \in Nat
  PROVE  LET selected == Selected(stream, from)
             first    == First(from)
         IN  /\ selected \in Seq(Persisted)
             /\ Len(selected) = IF first <= Len(stream)
                                  THEN Len(stream) + 1 - first ELSE 0
             /\ \A k \in 1 .. Len(selected) :
                  selected[k] = [version |-> first + k - 1,
                                 event |-> stream[first + k - 1]]
<1> DEFINE first == First(from)
           n == IF first <= Len(stream) THEN Len(stream) + 1 - first ELSE 0
           entry(k) == [version |-> first + k - 1,
                        event |-> stream[first + k - 1]]
<1>1. first \in Nat \ {0} /\ Len(stream) \in Nat /\ n \in Nat
  BY DEF First
<1>2. 1 .. (Len(stream) + 1 - first) = 1 .. n
  BY <1>1
<1>3. Selected(stream, from) = [k \in 1 .. n |-> entry(k)]
  BY <1>2 DEF Selected
<1>4. \A k \in 1 .. n : entry(k) \in Persisted
  <2> TAKE k \in 1 .. n
  <2>1. first + k - 1 \in 1 .. Len(stream)
    BY <1>1
  <2>2. stream[first + k - 1] \in Events
    BY <2>1, ElementOfSeq
  <2> QED BY <2>1, <2>2 DEF Persisted
<1> HIDE DEF n, entry
<1>5. /\ [k \in 1 .. n |-> entry(k)] \in Seq(Persisted)
      /\ Len([k \in 1 .. n |-> entry(k)]) = n
  BY <1>1, <1>4
<1> QED BY <1>3, <1>5 DEF n, entry

-----------------------------------------------------------------------------

LEMMA InitIInv == Init => IInv
  BY EmptySeq, NoOneAssumption
     DEF Init, IInv, TypeOK, LockInv, CallInv, CheckInv, IterInv, IterOf,
         Unlocked, AppendLabels, StreamLabels, Replies, Pending

(***************************************************************************)
(* The lock discipline is preserved: it depends on mx and pc alone.        *)
(***************************************************************************)
LEMMA LockStep == TypeOK /\ LockInv /\ [Next]_storeVars => LockInv'
<1> SUFFICES ASSUME TypeOK, LockInv, [Next]_storeVars PROVE LockInv'
  OBVIOUS
<1> USE DEF TypeOK, LockInv, Goto, AppendLabels, StreamLabels
<1>1. ASSUME NEW g \in Goroutines, StartAppend(g) PROVE LockInv'
  BY <1>1 DEF StartAppend, CallAppend
<1>2. ASSUME NEW g \in Goroutines, AnnounceLock(g) PROVE LockInv'
  BY <1>2, NoOneAssumption DEF AnnounceLock, CanAnnounce, Announce
<1>3. ASSUME NEW g \in Goroutines, AcquireLock(g) PROVE LockInv'
  BY <1>3 DEF AcquireLock, Granted
<1>4. ASSUME NEW g \in Goroutines, CheckVersion(g) PROVE LockInv'
  BY <1>4 DEF CheckVersion
<1>5. ASSUME NEW g \in Goroutines, ExtendStream(g) PROVE LockInv'
  BY <1>5 DEF ExtendStream
<1>6. ASSUME NEW g \in Goroutines, ReturnAppend(g) PROVE LockInv'
  BY <1>6, NoOneAssumption DEF ReturnAppend, Unlock
<1>7. ASSUME NEW g \in Goroutines, StartStream(g) PROVE LockInv'
  BY <1>7, NoOneAssumption DEF StartStream, CallStream, RLock
<1>8. ASSUME NEW g \in Goroutines, StartIteration(g) PROVE LockInv'
  BY <1>8 DEF StartIteration, RLocked
<1>9. ASSUME NEW g \in Goroutines, CancelIteration(g) PROVE LockInv'
  BY <1>9 DEF CancelIteration, EndStream, InRange
<1>10. ASSUME NEW g \in Goroutines, SkipEvent(g) PROVE LockInv'
  BY <1>10 DEF SkipEvent, InRange
<1>11. ASSUME NEW g \in Goroutines, YieldEvent(g) PROVE LockInv'
  BY <1>11 DEF YieldEvent, InRange
<1>12. ASSUME NEW g \in Goroutines, FinishIteration(g) PROVE LockInv'
  BY <1>12 DEF FinishIteration, EndStream
<1>13. ASSUME NEW g \in Goroutines, ReturnStream(g) PROVE LockInv'
  BY <1>13 DEF ReturnStream, ForgetIteration, RUnlock
<1>14. ASSUME NEW g \in Goroutines, ResumeIteration(g) PROVE LockInv'
  BY <1>14 DEF ResumeIteration
<1>15. ASSUME NEW g \in Goroutines, AbandonIteration(g) PROVE LockInv'
  BY <1>15 DEF AbandonIteration, EndStream
<1>16. ASSUME NEW g \in Goroutines, CancelContext(g) PROVE LockInv'
  BY <1>16 DEF CancelContext
<1>17. CASE UNCHANGED storeVars
  BY <1>17 DEF storeVars
<1> QED
  BY <1>1, <1>2, <1>3, <1>4, <1>5, <1>6, <1>7, <1>8, <1>9, <1>10, <1>11,
     <1>12, <1>13, <1>14, <1>15, <1>16, <1>17
     DEF Next, Internal, AppendStep, StreamStep, ConsumerStep

(***************************************************************************)
(* A goroutine at a label is in the matching call.                         *)
(***************************************************************************)
LEMMA CallStep == TypeOK /\ CallInv /\ [Next]_storeVars => CallInv'
<1> SUFFICES ASSUME TypeOK, CallInv, [Next]_storeVars PROVE CallInv'
  OBVIOUS
<1> USE DEF TypeOK, CallInv, Goto, AppendLabels, StreamLabels
<1>1. ASSUME NEW g \in Goroutines, StartAppend(g) PROVE CallInv'
  <2>1. PICK id \in StreamIDs, expected \in {CheckAny} \cup (0 .. MaxVersion),
            batch \in Batches : CallAppend(g, id, expected, batch)
    BY <1>1 DEF StartAppend
  <2>2. AppendCall(id, expected, batch) \in AppendCalls
    BY DEF AppendCall, AppendCalls
  <2> QED BY <2>1, <2>2 DEF CallAppend
<1>2. ASSUME NEW g \in Goroutines, AnnounceLock(g) PROVE CallInv'
  BY <1>2 DEF AnnounceLock
<1>3. ASSUME NEW g \in Goroutines, AcquireLock(g) PROVE CallInv'
  BY <1>3 DEF AcquireLock
<1>4. ASSUME NEW g \in Goroutines, CheckVersion(g) PROVE CallInv'
  BY <1>4 DEF CheckVersion, Conflict, Pending
<1>5. ASSUME NEW g \in Goroutines, ExtendStream(g) PROVE CallInv'
  BY <1>5 DEF ExtendStream, Appended, Pending
<1>6. ASSUME NEW g \in Goroutines, ReturnAppend(g) PROVE CallInv'
  BY <1>6 DEF ReturnAppend
<1>7. ASSUME NEW g \in Goroutines, StartStream(g) PROVE CallInv'
  BY <1>7 DEF StartStream, CallStream, StreamCall, StreamCalls
<1>8. ASSUME NEW g \in Goroutines, StartIteration(g) PROVE CallInv'
  BY <1>8 DEF StartIteration
<1>9. ASSUME NEW g \in Goroutines, CancelIteration(g) PROVE CallInv'
  BY <1>9 DEF CancelIteration, EndStream, InRange, Streamed, Pending
<1>10. ASSUME NEW g \in Goroutines, SkipEvent(g) PROVE CallInv'
  BY <1>10 DEF SkipEvent, InRange
<1>11. ASSUME NEW g \in Goroutines, YieldEvent(g) PROVE CallInv'
  BY <1>11 DEF YieldEvent, InRange
<1>12. ASSUME NEW g \in Goroutines, FinishIteration(g) PROVE CallInv'
  BY <1>12 DEF FinishIteration, EndStream, Streamed, Pending
<1>13. ASSUME NEW g \in Goroutines, ReturnStream(g) PROVE CallInv'
  BY <1>13 DEF ReturnStream, ForgetIteration
<1>14. ASSUME NEW g \in Goroutines, ResumeIteration(g) PROVE CallInv'
  BY <1>14 DEF ResumeIteration
<1>15. ASSUME NEW g \in Goroutines, AbandonIteration(g) PROVE CallInv'
  BY <1>15 DEF AbandonIteration, EndStream, Streamed, Pending
<1>16. ASSUME NEW g \in Goroutines, CancelContext(g) PROVE CallInv'
  BY <1>16 DEF CancelContext
<1>17. CASE UNCHANGED storeVars
  BY <1>17 DEF storeVars
<1> QED
  BY <1>1, <1>2, <1>3, <1>4, <1>5, <1>6, <1>7, <1>8, <1>9, <1>10, <1>11,
     <1>12, <1>13, <1>14, <1>15, <1>16, <1>17
     DEF Next, Internal, AppendStep, StreamStep, ConsumerStep

(***************************************************************************)
(* Types are preserved: the calls and the answers are well formed.         *)
(***************************************************************************)
LEMMA TypeStep == TypeOK /\ CallInv /\ IterInv /\ [Next]_storeVars => TypeOK'
<1> SUFFICES ASSUME TypeOK, CallInv, IterInv, [Next]_storeVars PROVE TypeOK'
  OBVIOUS
<1> USE DEF TypeOK, Goto, AppendLabels, StreamLabels
<1>1. ASSUME NEW g \in Goroutines, StartAppend(g) PROVE TypeOK'
  <2>1. PICK id \in StreamIDs, expected \in {CheckAny} \cup (0 .. MaxVersion),
            batch \in Batches : CallAppend(g, id, expected, batch)
    BY <1>1 DEF StartAppend
  <2>2. AppendCall(id, expected, batch) \in AppendCalls
    BY DEF AppendCall, AppendCalls
  <2> QED BY <2>1, <2>2 DEF CallAppend
<1>2. ASSUME NEW g \in Goroutines, AnnounceLock(g) PROVE TypeOK'
  BY <1>2 DEF AnnounceLock, Announce
<1>3. ASSUME NEW g \in Goroutines, AcquireLock(g) PROVE TypeOK'
  BY <1>3 DEF AcquireLock
<1>4. ASSUME NEW g \in Goroutines, CheckVersion(g) PROVE TypeOK'
  <2> DEFINE currentVersion == Len(events[call[g].id])
  <2>1. /\ call[g] \in AppendCalls
        /\ events[call[g].id] \in Seq(Events)
    BY <1>4, AppendCallTypes DEF CallInv, CheckVersion
  <2>2. currentVersion \in Nat
    BY <2>1, LenProperties
  <2>3. CASE VersionConflicts(call[g].expected, currentVersion)
    <3>1. call[g].expected \in Nat
      BY <2>1, <2>3, AppendCallTypes DEF VersionConflicts
    <3>2. Conflict(call[g].expected, currentVersion) \in Replies
      BY <2>2, <3>1 DEF Conflict, Replies
    <3> QED BY <1>4, <2>3, <3>2 DEF CheckVersion
  <2>4. CASE ~ VersionConflicts(call[g].expected, currentVersion)
    BY <1>4, <2>4 DEF CheckVersion
  <2> QED BY <2>3, <2>4
<1>5. ASSUME NEW g \in Goroutines, ExtendStream(g) PROVE TypeOK'
  <2> DEFINE extended == events[call[g].id] \o call[g].events
  <2>1. /\ call[g].id \in StreamIDs
        /\ call[g].events \in Seq(Events)
    BY <1>5, AppendCallTypes DEF CallInv, ExtendStream
  <2>2. extended \in Seq(Events) /\ Len(extended) \in Nat
    BY <2>1, ConcatProperties, LenProperties
  <2>3. Appended(Len(extended)) \in Replies
    BY <2>2 DEF Appended, Replies
  <2> QED BY <1>5, <2>1, <2>2, <2>3 DEF ExtendStream
<1>6. ASSUME NEW g \in Goroutines, ReturnAppend(g) PROVE TypeOK'
  BY <1>6 DEF ReturnAppend, Unlock, Replies
<1>7. ASSUME NEW g \in Goroutines, StartStream(g) PROVE TypeOK'
  <2>1. PICK id \in StreamIDs, from \in 0 .. (MaxVersion + 1) :
          CallStream(g, id, from)
    BY <1>7 DEF StartStream
  <2>2. StreamCall(id, from) \in StreamCalls
    BY DEF StreamCall, StreamCalls
  <2> QED BY <2>1, <2>2 DEF CallStream, RLock
<1>8. ASSUME NEW g \in Goroutines, StartIteration(g) PROVE TypeOK'
  BY <1>8 DEF StartIteration
<1>9. ASSUME NEW g \in Goroutines, CancelIteration(g) PROVE TypeOK'
  BY <1>9 DEF CancelIteration, EndStream, Streamed, Ends, Replies
<1>10. ASSUME NEW g \in Goroutines, SkipEvent(g) PROVE TypeOK'
  <2>1. /\ next' = [next EXCEPT ![g] = next[g] + 1]
        /\ UNCHANGED <<events, mx, pc, call, cancelled, got, reply>>
    BY <1>10 DEF SkipEvent
  <2> QED BY <2>1
<1>11. ASSUME NEW g \in Goroutines, YieldEvent(g) PROVE TypeOK'
  <2> DEFINE stream == events[call[g].id]
            item == [version |-> next[g], event |-> stream[next[g]]]
  <2>1. stream \in Seq(Events) /\ next[g] \in 1 .. Len(stream)
    BY <1>11, StreamCallTypes
       DEF CallInv, IterInv, IterOf, Delivered, YieldEvent, InRange
  <2>2. item \in Persisted
    BY <2>1, ElementOfSeq DEF Persisted
  <2>3. Append(got[g], item) \in Seq(Persisted)
    BY <2>2, AppendProperties
  <2>4. /\ got' = [got EXCEPT ![g] = Append(got[g], item)]
        /\ pc' = [pc EXCEPT ![g] = "yield"]
        /\ UNCHANGED <<events, mx, call, cancelled, next, reply>>
    BY <1>11 DEF YieldEvent
  <2> QED BY <2>3, <2>4
<1>12. ASSUME NEW g \in Goroutines, FinishIteration(g) PROVE TypeOK'
  BY <1>12 DEF FinishIteration, EndStream, Streamed, Ends, Replies
<1>13. ASSUME NEW g \in Goroutines, ReturnStream(g) PROVE TypeOK'
  BY <1>13, EmptySeq DEF ReturnStream, ForgetIteration, RUnlock, Replies
<1>14. ASSUME NEW g \in Goroutines, ResumeIteration(g) PROVE TypeOK'
  BY <1>14 DEF ResumeIteration
<1>15. ASSUME NEW g \in Goroutines, AbandonIteration(g) PROVE TypeOK'
  BY <1>15 DEF AbandonIteration, EndStream, Streamed, Ends, Replies
<1>16. ASSUME NEW g \in Goroutines, CancelContext(g) PROVE TypeOK'
  BY <1>16 DEF CancelContext
<1>17. CASE UNCHANGED storeVars
  BY <1>17 DEF storeVars
<1> QED
  BY <1>1, <1>2, <1>3, <1>4, <1>5, <1>6, <1>7, <1>8, <1>9, <1>10, <1>11,
     <1>12, <1>13, <1>14, <1>15, <1>16, <1>17
     DEF Next, Internal, AppendStep, StreamStep, ConsumerStep

(***************************************************************************)
(* No other goroutine can invalidate a version check that has been made.   *)
(***************************************************************************)
LEMMA CheckStep ==
  TypeOK /\ LockInv /\ CallInv /\ CheckInv /\ [Next]_storeVars => CheckInv'
<1> SUFFICES ASSUME TypeOK, LockInv, CallInv, CheckInv, [Next]_storeVars
             PROVE  CheckInv'
  OBVIOUS
<1> USE DEF TypeOK, LockInv, CheckInv, Goto, AppendLabels, StreamLabels
<1>1. ASSUME NEW g \in Goroutines, StartAppend(g) PROVE CheckInv'
  BY <1>1 DEF StartAppend, CallAppend
<1>2. ASSUME NEW g \in Goroutines, AnnounceLock(g) PROVE CheckInv'
  BY <1>2 DEF AnnounceLock
<1>3. ASSUME NEW g \in Goroutines, AcquireLock(g) PROVE CheckInv'
  BY <1>3 DEF AcquireLock
<1>4. ASSUME NEW g \in Goroutines, CheckVersion(g) PROVE CheckInv'
  BY <1>4 DEF CheckVersion
<1>5. ASSUME NEW g \in Goroutines, ExtendStream(g) PROVE CheckInv'
  BY <1>5, AppendCallTypes DEF ExtendStream, CallInv
<1>6. ASSUME NEW g \in Goroutines, ReturnAppend(g) PROVE CheckInv'
  BY <1>6 DEF ReturnAppend
<1>7. ASSUME NEW g \in Goroutines, StartStream(g) PROVE CheckInv'
  BY <1>7 DEF StartStream, CallStream
<1>8. ASSUME NEW g \in Goroutines, StartIteration(g) PROVE CheckInv'
  BY <1>8 DEF StartIteration
<1>9. ASSUME NEW g \in Goroutines, CancelIteration(g) PROVE CheckInv'
  BY <1>9 DEF CancelIteration, EndStream, InRange
<1>10. ASSUME NEW g \in Goroutines, SkipEvent(g) PROVE CheckInv'
  BY <1>10 DEF SkipEvent, InRange
<1>11. ASSUME NEW g \in Goroutines, YieldEvent(g) PROVE CheckInv'
  BY <1>11 DEF YieldEvent, InRange
<1>12. ASSUME NEW g \in Goroutines, FinishIteration(g) PROVE CheckInv'
  BY <1>12 DEF FinishIteration, EndStream
<1>13. ASSUME NEW g \in Goroutines, ReturnStream(g) PROVE CheckInv'
  BY <1>13 DEF ReturnStream, ForgetIteration
<1>14. ASSUME NEW g \in Goroutines, ResumeIteration(g) PROVE CheckInv'
  BY <1>14 DEF ResumeIteration
<1>15. ASSUME NEW g \in Goroutines, AbandonIteration(g) PROVE CheckInv'
  BY <1>15 DEF AbandonIteration, EndStream
<1>16. ASSUME NEW g \in Goroutines, CancelContext(g) PROVE CheckInv'
  BY <1>16 DEF CancelContext
<1>17. CASE UNCHANGED storeVars
  BY <1>17 DEF storeVars
<1> QED
  BY <1>1, <1>2, <1>3, <1>4, <1>5, <1>6, <1>7, <1>8, <1>9, <1>10, <1>11,
     <1>12, <1>13, <1>14, <1>15, <1>16, <1>17
     DEF Next, Internal, AppendStep, StreamStep, ConsumerStep

(***************************************************************************)
(* An iteration sees the same stream throughout, and delivers it in order. *)
(* What another goroutine does leaves an iteration as it was (Kept).       *)
(***************************************************************************)
LEMMA IterStep ==
  TypeOK /\ LockInv /\ CallInv /\ IterInv /\ [Next]_storeVars => IterInv'
<1> SUFFICES ASSUME TypeOK, LockInv, CallInv, IterInv, [Next]_storeVars
             PROVE  IterInv'
  OBVIOUS
<1> DEFINE Kept(h) ==
             /\ pc'[h] = pc[h] /\ call'[h] = call[h]
             /\ next'[h] = next[h] /\ got'[h] = got[h]
             /\ pc[h] \in {"range", "yield"} => events' = events
<1> USE DEF TypeOK, Goto, AppendLabels, StreamLabels
<1>1. ASSUME NEW h \in Goroutines, Kept(h) PROVE IterOf(h)'
  BY <1>1 DEF IterInv, IterOf, Delivered
<1>2. ASSUME NEW g \in Goroutines, StartAppend(g) PROVE IterInv'
  <2>1. \A h \in Goroutines \ {g} : Kept(h)
    BY <1>2 DEF StartAppend, CallAppend
  <2>2. IterOf(g)'
    BY <1>2 DEF IterInv, IterOf, StartAppend, CallAppend
  <2> QED BY <1>1, <2>1, <2>2 DEF IterInv
<1>3. ASSUME NEW g \in Goroutines, AnnounceLock(g) PROVE IterInv'
  <2>1. \A h \in Goroutines \ {g} : Kept(h)
    BY <1>3 DEF AnnounceLock
  <2>2. IterOf(g)'
    BY <1>3 DEF IterInv, IterOf, AnnounceLock
  <2> QED BY <1>1, <2>1, <2>2 DEF IterInv
<1>4. ASSUME NEW g \in Goroutines, AcquireLock(g) PROVE IterInv'
  <2>1. \A h \in Goroutines \ {g} : Kept(h)
    BY <1>4 DEF AcquireLock
  <2>2. IterOf(g)'
    BY <1>4 DEF IterInv, IterOf, AcquireLock
  <2> QED BY <1>1, <2>1, <2>2 DEF IterInv
<1>5. ASSUME NEW g \in Goroutines, CheckVersion(g) PROVE IterInv'
  <2>1. \A h \in Goroutines \ {g} : Kept(h)
    BY <1>5 DEF CheckVersion
  <2>2. IterOf(g)'
    BY <1>5 DEF IterInv, IterOf, CheckVersion
  <2> QED BY <1>1, <2>1, <2>2 DEF IterInv
<1>6. ASSUME NEW g \in Goroutines, ExtendStream(g) PROVE IterInv'
  <2>1. \A h \in Goroutines \ {g} : Kept(h)
    BY <1>6 DEF ExtendStream, LockInv
  <2>2. IterOf(g)'
    BY <1>6 DEF IterInv, IterOf, ExtendStream, LockInv
  <2> QED BY <1>1, <2>1, <2>2 DEF IterInv
<1>7. ASSUME NEW g \in Goroutines, ReturnAppend(g) PROVE IterInv'
  <2>1. \A h \in Goroutines \ {g} : Kept(h)
    BY <1>7 DEF ReturnAppend
  <2>2. IterOf(g)'
    BY <1>7 DEF IterInv, IterOf, ReturnAppend
  <2> QED BY <1>1, <2>1, <2>2 DEF IterInv
<1>8. ASSUME NEW g \in Goroutines, StartStream(g) PROVE IterInv'
  <2>1. \A h \in Goroutines \ {g} : Kept(h)
    BY <1>8 DEF StartStream, CallStream
  <2>2. IterOf(g)'
    BY <1>8 DEF IterInv, IterOf, StartStream, CallStream
  <2> QED BY <1>1, <2>1, <2>2 DEF IterInv
<1>9. ASSUME NEW g \in Goroutines, StartIteration(g) PROVE IterInv'
  <2>1. \A h \in Goroutines \ {g} : Kept(h)
    BY <1>9 DEF StartIteration
  <2>2. IterOf(g)'
    <3>1. /\ pc'[g] = "range" /\ next'[g] = 1 /\ got'[g] = <<>>
          /\ call'[g] = call[g] /\ events' = events
      BY <1>9 DEF StartIteration, IterInv, IterOf
    <3>2. First(call[g].from) \in Nat \ {0} /\ Len(events[call[g].id]) \in Nat
      BY <1>9, StreamCallTypes, LenProperties DEF CallInv, StartIteration
    <3> QED BY <3>1, <3>2 DEF IterOf, Delivered
  <2> QED BY <1>1, <2>1, <2>2 DEF IterInv
<1>10. ASSUME NEW g \in Goroutines, CancelIteration(g) PROVE IterInv'
  <2>1. \A h \in Goroutines \ {g} : Kept(h)
    BY <1>10 DEF CancelIteration, EndStream, InRange
  <2>2. IterOf(g)'
    BY <1>10 DEF IterInv, IterOf, CancelIteration, EndStream, InRange
  <2> QED BY <1>1, <2>1, <2>2 DEF IterInv
<1>11. ASSUME NEW g \in Goroutines, SkipEvent(g) PROVE IterInv'
  <2>1. \A h \in Goroutines \ {g} : Kept(h)
    BY <1>11 DEF SkipEvent
  <2>2. IterOf(g)'
    <3>1. /\ pc[g] = "range" /\ pc'[g] = pc[g] /\ got'[g] = got[g]
          /\ next'[g] = next[g] + 1 /\ next[g] < call[g].from
          /\ next[g] <= Len(events[call[g].id])
          /\ call'[g] = call[g] /\ events' = events
      BY <1>11 DEF SkipEvent, InRange, Skips
    <3>2. /\ call[g].from \in Nat /\ Len(events[call[g].id]) \in Nat
          /\ next[g] \in Nat
      BY <3>1, StreamCallTypes, LenProperties DEF CallInv
    <3>3. next[g] + 1 <= First(call[g].from) /\ Delivered(g)
      BY <3>1, <3>2 DEF First, IterInv, IterOf
    <3>4. Len(got[g]) = 0
      BY <3>1, <3>2, <3>3 DEF Delivered, First
    <3> QED BY <3>1, <3>2, <3>3, <3>4 DEF IterOf, Delivered
  <2> QED BY <1>1, <2>1, <2>2 DEF IterInv
<1>12. ASSUME NEW g \in Goroutines, YieldEvent(g) PROVE IterInv'
  <2>1. \A h \in Goroutines \ {g} : Kept(h)
    BY <1>12 DEF YieldEvent
  <2>2. IterOf(g)'
    <3> DEFINE stream == events[call[g].id]
               item == [version |-> next[g], event |-> stream[next[g]]]
    <3>1. /\ pc[g] = "range" /\ pc'[g] = "yield" /\ next'[g] = next[g]
          /\ got'[g] = Append(got[g], item) /\ ~ (next[g] < call[g].from)
          /\ next[g] <= Len(stream)
          /\ call'[g] = call[g] /\ events' = events
      BY <1>12 DEF YieldEvent, InRange, Skips
    <3>2. /\ call[g].from \in Nat /\ Len(stream) \in Nat /\ next[g] \in Nat
          /\ got[g] \in Seq(Persisted)
      BY <3>1, StreamCallTypes, LenProperties DEF CallInv
    <3>3. Delivered(g) /\ First(call[g].from) <= next[g]
      BY <3>1, <3>2 DEF First, IterInv, IterOf, Delivered
    <3>4. Len(got[g]) = next[g] - First(call[g].from)
      BY <3>1, <3>2, <3>3 DEF Delivered, First
    <3> HIDE DEF item
    <3>5. /\ Len(got'[g]) = Len(got[g]) + 1
          /\ got'[g][Len(got[g]) + 1] = item
          /\ \A k \in 1 .. Len(got[g]) : got'[g][k] = got[g][k]
      BY <3>1, <3>2
    <3> DEFINE first == First(call[g].from)
    <3>6. /\ first \in Nat \ {0} /\ Len(got[g]) \in Nat
      BY <3>2, LenProperties DEF First
    <3>7. ASSUME NEW k \in 1 .. Len(got'[g])
          PROVE  /\ first + k - 1 <= Len(stream)
                 /\ got'[g][k] = [version |-> first + k - 1,
                                  event |-> stream[first + k - 1]]
      <4>1. CASE k \in 1 .. Len(got[g])
        BY <3>3, <3>5, <4>1 DEF Delivered
      <4>2. CASE k = Len(got[g]) + 1
        <5>1. first + k - 1 = next[g]
          BY <3>2, <3>4, <3>6, <4>2
        <5> QED BY <3>1, <3>5, <4>2, <5>1 DEF item
      <4> QED BY <3>5, <3>6, <4>1, <4>2
    <3>8. /\ next'[g] \in 1 .. (Len(stream) + 1)
          /\ Len(got'[g]) = next'[g] + 1 - first
      BY <3>1, <3>2, <3>3, <3>4, <3>5, <3>6
    <3> QED BY <3>1, <3>3, <3>7, <3>8 DEF IterOf, Delivered
  <2> QED BY <1>1, <2>1, <2>2 DEF IterInv
<1>13. ASSUME NEW g \in Goroutines, FinishIteration(g) PROVE IterInv'
  <2>1. \A h \in Goroutines \ {g} : Kept(h)
    BY <1>13 DEF FinishIteration, EndStream
  <2>2. IterOf(g)'
    BY <1>13 DEF IterInv, IterOf, FinishIteration, EndStream
  <2> QED BY <1>1, <2>1, <2>2 DEF IterInv
<1>14. ASSUME NEW g \in Goroutines, ReturnStream(g) PROVE IterInv'
  <2>1. \A h \in Goroutines \ {g} : Kept(h)
    BY <1>14 DEF ReturnStream, ForgetIteration
  <2>2. IterOf(g)'
    BY <1>14 DEF IterInv, IterOf, ReturnStream, ForgetIteration
  <2> QED BY <1>1, <2>1, <2>2 DEF IterInv
<1>15. ASSUME NEW g \in Goroutines, ResumeIteration(g) PROVE IterInv'
  <2>1. \A h \in Goroutines \ {g} : Kept(h)
    BY <1>15 DEF ResumeIteration
  <2>2. IterOf(g)'
    <3>1. /\ pc[g] = "yield" /\ pc'[g] = "range" /\ got'[g] = got[g]
          /\ next'[g] = next[g] + 1
          /\ call'[g] = call[g] /\ events' = events
      BY <1>15 DEF ResumeIteration
    <3>2. /\ First(call[g].from) \in Nat /\ Len(events[call[g].id]) \in Nat
          /\ next[g] \in Nat
      BY <3>1, StreamCallTypes, LenProperties DEF CallInv
    <3>3. Delivered(g)
      BY <3>1 DEF IterInv, IterOf
    <3> QED BY <3>1, <3>2, <3>3 DEF IterOf, Delivered
  <2> QED BY <1>1, <2>1, <2>2 DEF IterInv
<1>16. ASSUME NEW g \in Goroutines, AbandonIteration(g) PROVE IterInv'
  <2>1. \A h \in Goroutines \ {g} : Kept(h)
    BY <1>16 DEF AbandonIteration, EndStream
  <2>2. IterOf(g)'
    BY <1>16 DEF IterInv, IterOf, AbandonIteration, EndStream
  <2> QED BY <1>1, <2>1, <2>2 DEF IterInv
<1>17. ASSUME NEW g \in Goroutines, CancelContext(g) PROVE IterInv'
  <2>1. \A h \in Goroutines \ {g} : Kept(h)
    BY <1>17 DEF CancelContext
  <2>2. Kept(g)
    BY <1>17 DEF CancelContext
  <2> QED BY <1>1, <2>1, <2>2 DEF IterInv
<1>18. CASE UNCHANGED storeVars
  BY <1>1, <1>18 DEF storeVars, IterInv
<1> QED
  BY <1>2, <1>3, <1>4, <1>5, <1>6, <1>7, <1>8, <1>9, <1>10, <1>11, <1>12,
     <1>13, <1>14, <1>15, <1>16, <1>17, <1>18
     DEF Next, Internal, AppendStep, StreamStep, ConsumerStep

LEMMA NextIInv == IInv /\ [Next]_storeVars => IInv'
  BY TypeStep, LockStep, CallStep, CheckStep, IterStep DEF IInv

LEMMA AlwaysIInv == Spec => []IInv
<1>1. IInv /\ [Next]_storeVars => IInv'
  BY NextIInv
<1> QED BY InitIInv, <1>1, PTL DEF Spec

-----------------------------------------------------------------------------

(***************************************************************************)
(* Types: in particular no Append made with CheckAny reports a conflict.   *)
(***************************************************************************)
THEOREM TypeCorrectness == Spec => []TypeOK
  BY AlwaysIInv, PTL DEF IInv

(***************************************************************************)
(* The lock is enough: an Append between its check and its return is alone *)
(* with the map, for any number of goroutines.                             *)
(***************************************************************************)
THEOREM DataRaceFreedom == Spec => []NoDataRace
<1>1. IInv => NoDataRace
  BY DEF IInv, TypeOK, LockInv, NoDataRace, Writing, Accessing
<1> QED BY AlwaysIInv, <1>1, PTL

(***************************************************************************)
(* What an iteration hands over is an initial part of what was selected.   *)
(***************************************************************************)
LEMMA DeliveredIsSelected ==
  ASSUME TypeOK, CallInv, NEW g \in Goroutines,
         pc[g] \in {"range", "yield"}, Delivered(g)
  PROVE  LET selected == Selected(events[call[g].id], call[g].from)
         IN  /\ Len(got[g]) \in 0 .. Len(selected)
             /\ got[g] = SubSeq(selected, 1, Len(got[g]))
             /\ next[g] = Len(events[call[g].id]) + 1 /\ pc[g] = "range"
                  => Len(got[g]) = Len(selected)
<1> DEFINE stream == events[call[g].id]
           first == First(call[g].from)
           selected == Selected(stream, call[g].from)
           n == Len(got[g])
           part == SubSeq(selected, 1, n)
<1>1. /\ stream \in Seq(Events) /\ Len(stream) \in Nat
      /\ call[g].from \in Nat /\ first \in Nat \ {0}
      /\ got[g] \in Seq(Persisted) /\ n \in Nat /\ next[g] \in Nat
  BY StreamCallTypes, LenProperties DEF TypeOK, CallInv, StreamLabels
<1>2. /\ selected \in Seq(Persisted)
      /\ Len(selected) = IF first <= Len(stream)
                           THEN Len(stream) + 1 - first ELSE 0
      /\ \A k \in 1 .. Len(selected) :
           selected[k] = [version |-> first + k - 1,
                          event |-> stream[first + k - 1]]
  BY <1>1, SelectedProperties
<1> HIDE DEF selected
<1>3. n <= Len(selected)
  BY <1>1, <1>2 DEF Delivered
<1>4. next[g] = Len(stream) + 1 /\ pc[g] = "range" => n = Len(selected)
  BY <1>1, <1>2 DEF Delivered
<1>5. ASSUME NEW k \in 1 .. n PROVE got[g][k] = selected[k]
  <2>1. got[g][k] = [version |-> first + k - 1,
                     event |-> stream[first + k - 1]]
    BY DEF Delivered
  <2>2. k \in 1 .. Len(selected)
    BY <1>1, <1>2, <1>3
  <2> QED BY <1>2, <2>1, <2>2
<1> HIDE DEF stream, first, n
<1>6. \A k \in 1 .. n : selected[k] \in Persisted
  BY <1>1, <1>2, <1>3, ElementOfSeq
<1>7. /\ part \in Seq(Persisted) /\ Len(part) = n
      /\ \A k \in 1 .. n : part[k] = selected[k]
  BY <1>1, <1>2, <1>3, <1>6, SubSeqProperties
<1>8. got[g] = part
  BY <1>1, <1>5, <1>7, SeqEqual DEF n
<1> QED BY <1>1, <1>2, <1>3, <1>4, <1>8 DEF selected, stream, n

(***************************************************************************)
(* The contract's instance speaks of the same calls and answers.           *)
(***************************************************************************)
LEMMA SameVocabulary ==
  /\ Contract!NoCall = NoCall
  /\ Contract!Pending = Pending
  /\ Contract!Ends = Ends
  /\ Contract!AppendCalls = AppendCalls
  /\ Contract!StreamCalls = StreamCalls
  /\ \A v : Contract!Appended(v) = Appended(v)
  /\ \A e, v : Contract!Conflict(e, v) = Conflict(e, v)
  /\ \A es, end : Contract!Streamed(es, end) = Streamed(es, end)
  /\ \A stream, from :
       Contract!Selected(stream, from) = Selected(stream, from)
  BY DEF Contract!NoCall, NoCall, Contract!Pending, Pending, Contract!Ends,
         Ends, Contract!AppendCalls, AppendCalls, Contract!StreamCalls,
         StreamCalls, Contract!Batches, Batches, Contract!CheckAny, CheckAny,
         Contract!Appended, Appended, Contract!Conflict, Conflict,
         Contract!Streamed, Streamed, Contract!Selected, Selected,
         Contract!First, First

LEMMA EndStreamRefines ==
  ASSUME IInv, NEW g \in Goroutines, NEW end \in Ends, EndStream(g, end),
         pc[g] \in {"range", "yield"},
         end = "complete" =>
           pc[g] = "range" /\ next[g] = Len(events[call[g].id]) + 1
  PROVE  Contract!PerformStream(g)
<1> DEFINE selected == Selected(events[call[g].id], call[g].from)
<1>1. Delivered(g) /\ call[g].op = "stream" /\ reply[g] = Pending
  BY StreamCallTypes DEF IInv, CallInv, IterInv, IterOf, StreamLabels
<1>2. /\ Len(got[g]) \in 0 .. Len(selected)
      /\ got[g] = SubSeq(selected, 1, Len(got[g]))
      /\ end = "complete" => Len(got[g]) = Len(selected)
  BY <1>1, DeliveredIsSelected DEF IInv
<1>3. /\ reply' = [reply EXCEPT ![g] = Streamed(got[g], end)]
      /\ UNCHANGED <<events, call>>
  BY DEF EndStream
<1> HIDE DEF selected
<1>4. \E n \in 0 .. Len(selected), e \in Ends :
        /\ e = "complete" => n = Len(selected)
        /\ reply' = [reply EXCEPT ![g] = Streamed(SubSeq(selected, 1, n), e)]
  BY <1>2, <1>3
<1> QED
  BY <1>1, <1>3, <1>4, SameVocabulary DEF Contract!PerformStream, selected

(***************************************************************************)
(* Every step of the store is a step of the contract or leaves the         *)
(* contract's variables alone.                                             *)
(***************************************************************************)
LEMMA StepRefines == IInv /\ [Next]_storeVars => [Contract!Next]_Contract!vars
<1> SUFFICES ASSUME IInv, [Next]_storeVars
             PROVE  Contract!Next \/ UNCHANGED <<events, call, reply>>
  BY DEF Contract!vars
<1> DEFINE Idle == UNCHANGED <<events, call, reply>>
<1>1. ASSUME NEW g \in Goroutines, StartAppend(g) PROVE Contract!Invoke(g)
  <2>1. PICK id \in StreamIDs, expected \in {CheckAny} \cup (0 .. MaxVersion),
             batch \in Batches : CallAppend(g, id, expected, batch)
    BY <1>1 DEF StartAppend
  <2>2. AppendCall(id, expected, batch) \in AppendCalls
    BY DEF AppendCall, AppendCalls
  <2> QED BY <2>1, <2>2, SameVocabulary
          DEF CallAppend, Contract!Invoke, Contract!Request, IInv, CallInv
<1>2. ASSUME NEW g \in Goroutines, StartStream(g) PROVE Contract!Invoke(g)
  <2>1. PICK id \in StreamIDs, from \in 0 .. (MaxVersion + 1) :
          CallStream(g, id, from)
    BY <1>2 DEF StartStream
  <2>2. StreamCall(id, from) \in StreamCalls
    BY DEF StreamCall, StreamCalls
  <2> QED BY <2>1, <2>2, SameVocabulary
          DEF CallStream, Contract!Invoke, Contract!Request, IInv, CallInv
<1>3. ASSUME NEW g \in Goroutines, CheckVersion(g)
      PROVE  Contract!PerformAppend(g) \/ Idle
  <2>1. call[g].op = "append" /\ reply[g] = Pending
    BY <1>3, AppendCallTypes DEF CheckVersion, IInv, CallInv, AppendLabels
  <2> QED BY <1>3, <2>1, SameVocabulary
          DEF CheckVersion, VersionConflicts, Contract!PerformAppend,
              Contract!Accepts, Contract!CheckAny, CheckAny
<1>4. ASSUME NEW g \in Goroutines, ExtendStream(g)
      PROVE  Contract!PerformAppend(g)
  <2> DEFINE stream == events[call[g].id]
  <2>1. /\ pc[g] = "extend" /\ call[g] \in AppendCalls /\ reply[g] = Pending
        /\ ~ VersionConflicts(call[g].expected, Len(stream))
    BY <1>4 DEF ExtendStream, IInv, CallInv, CheckInv, AppendLabels
  <2>2. /\ call[g].op = "append" /\ call[g].id \in StreamIDs
        /\ stream \in Seq(Events) /\ call[g].events \in Seq(Events)
    BY <2>1, AppendCallTypes DEF IInv, TypeOK
  <2>3. Len(stream \o call[g].events) = Len(stream) + Len(call[g].events)
    BY <2>2, ConcatProperties
  <2>4. Contract!Accepts(call[g].expected, Len(stream))
    BY <2>1 DEF VersionConflicts, Contract!Accepts, Contract!CheckAny, CheckAny
  <2> QED BY <1>4, <2>1, <2>2, <2>3, <2>4, SameVocabulary
          DEF ExtendStream, Contract!PerformAppend, Contract!Extended
<1>5. ASSUME NEW g \in Goroutines, ReturnAppend(g) PROVE Contract!Return(g)
  BY <1>5, AppendCallTypes, SameVocabulary
     DEF ReturnAppend, Contract!Return, IInv, CallInv, AppendLabels
<1>6. ASSUME NEW g \in Goroutines, ReturnStream(g) PROVE Contract!Return(g)
  BY <1>6, StreamCallTypes, SameVocabulary
     DEF ReturnStream, ForgetIteration, Contract!Return, IInv, CallInv,
         StreamLabels
<1>7. ASSUME NEW g \in Goroutines, CancelIteration(g)
      PROVE  Contract!PerformStream(g)
  BY <1>7, EndStreamRefines DEF CancelIteration, InRange, Ends
<1>8. ASSUME NEW g \in Goroutines, FinishIteration(g)
      PROVE  Contract!PerformStream(g)
  <2>1. /\ pc[g] = "range" /\ Delivered(g)
        /\ Len(events[call[g].id]) \in Nat /\ next[g] \in Nat
        /\ ~ (next[g] <= Len(events[call[g].id]))
    BY <1>8, StreamCallTypes, LenProperties
       DEF FinishIteration, InRange, IInv, TypeOK, CallInv, IterInv, IterOf,
           StreamLabels
  <2>2. next[g] = Len(events[call[g].id]) + 1
    BY <2>1 DEF Delivered
  <2> QED BY <1>8, <2>1, <2>2, EndStreamRefines DEF FinishIteration, Ends
<1>9. ASSUME NEW g \in Goroutines, AbandonIteration(g)
      PROVE  Contract!PerformStream(g)
  BY <1>9, EndStreamRefines DEF AbandonIteration, Ends
<1>10. ASSUME NEW g \in Goroutines,
              \/ AnnounceLock(g) \/ AcquireLock(g) \/ StartIteration(g)
              \/ SkipEvent(g) \/ YieldEvent(g) \/ ResumeIteration(g)
              \/ CancelContext(g)
       PROVE  Idle
  BY <1>10 DEF AnnounceLock, AcquireLock, StartIteration, SkipEvent,
               YieldEvent, ResumeIteration, CancelContext
<1>11. CASE UNCHANGED storeVars
  BY <1>11 DEF storeVars
<1> HIDE DEF Idle
<1>12. ASSUME NEW g \in Goroutines,
              Internal(g) \/ StartAppend(g) \/ StartStream(g)
       PROVE  Contract!Next \/ Idle
  BY <1>1, <1>2, <1>3, <1>4, <1>5, <1>6, <1>7, <1>8, <1>9, <1>10, <1>12
     DEF Internal, AppendStep, StreamStep, ConsumerStep, Contract!Next
<1> QED BY <1>11, <1>12 DEF Next, Idle

(***************************************************************************)
(* The in-memory store implements the contract of event.Store: every       *)
(* Append and Stream is atomic, for any number of goroutines and streams.  *)
(***************************************************************************)
THEOREM Implementation == Spec => ImplementsEventStore
<1>1. Init => Contract!Init
  BY SameVocabulary DEF Init, Contract!Init
<1>2. IInv /\ [Next]_storeVars => [Contract!Next]_Contract!vars
  BY StepRefines
<1> QED BY AlwaysIInv, <1>1, <1>2, PTL
        DEF Spec, ImplementsEventStore, Contract!Spec

=============================================================================
