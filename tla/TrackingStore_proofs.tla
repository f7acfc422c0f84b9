------------------------- MODULE TrackingStore_proofs -------------------------
(***************************************************************************)
(* Proofs about TrackingStore, for any number of goroutines, streams and   *)
(* events, and whatever others append to the wrapped store meanwhile: what *)
(* is recorded is what the store holds, in version order, and nothing that *)
(* an Append acknowledged is missing from what a caller of Recorded reads. *)
(***************************************************************************)
EXTENDS TrackingStore, SequenceTheorems, TLAPS

Labels == {"idle", "lock", "wait", "inner", "record", "unlock", "rlock",
           "read", "direct"}

(***************************************************************************)
(* The types without the bounds of the exploration.                        *)
(***************************************************************************)
Types ==
  /\ log \in [StreamIDs -> Seq(Events)]
  /\ call \in [Clients -> {NoCall} \cup AppendCalls]
  /\ reply \in [Clients -> Replies]
  /\ mx \in [writer : Clients \cup {NoOne}, readers : SUBSET Clients,
             blocked : SUBSET Clients]
  /\ recorded \in Seq([id : StreamIDs, version : Nat, event : Events])
  /\ pc \in [Clients -> Labels]
  /\ args \in [Clients -> {NoCall} \cup AppendCalls]
  /\ v \in [Clients -> Nat]
  /\ i \in [Clients -> Nat]

(***************************************************************************)
(* Who holds the lock.                                                     *)
(***************************************************************************)
LockOf(c) ==
  /\ pc[c] \in {"wait", "inner", "record", "unlock"} => mx.writer = c
  /\ pc[c] \in {"inner", "record", "unlock"} => mx.readers = {}
  /\ pc[c] = "read" => c \in mx.readers

(***************************************************************************)
(* Which call a goroutine is in.                                           *)
(***************************************************************************)
CallOf(c) ==
  /\ pc[c] \in {"lock", "wait", "inner", "record", "unlock", "direct"} =>
       args[c] \in AppendCalls
  /\ pc[c] \in {"inner", "direct"} => call[c] = args[c]
  /\ pc[c] \notin {"inner", "direct"} => call[c] = NoCall /\ reply[c] = Pending
  /\ pc[c] # "record" => i[c] = 0

(***************************************************************************)
(* From the moment the wrapped store has answered until the last event is  *)
(* recorded: the batch ends at the version last(c), and done(c) is the     *)
(* version before the next one to record.                                  *)
(***************************************************************************)
Answered(c) ==
  pc[c] = "record" \/ (pc[c] = "inner" /\ reply[c].kind = "appended")

last(c) == IF pc[c] = "record" THEN v[c] ELSE reply[c].version

done(c) == last(c) - Len(args[c].events) + i[c]

(***************************************************************************)
(* The batch is where the answer says, and nothing recorded of its stream  *)
(* is newer than what was there before it.                                 *)
(***************************************************************************)
BatchOf(c) ==
  LET batch  == args[c].events
      stream == log[args[c].id]
  IN  Answered(c) =>
        /\ i[c] <= Len(batch)
        /\ Len(batch) <= last(c)
        /\ last(c) <= Len(stream)
        /\ \A k \in 1 .. Len(batch) :
             stream[last(c) - Len(batch) + k] = batch[k]
        /\ \A k \in DOMAIN recorded :
             recorded[k].id = args[c].id => recorded[k].version <= done(c)

(***************************************************************************)
(* What is recorded, and what the recording loop has still to record.      *)
(***************************************************************************)
Noted ==
  {[id |-> recorded[k].id, version |-> recorded[k].version] :
     k \in DOMAIN recorded}

Remaining(c) ==
  {[id |-> args[c].id, version |-> n] : n \in (done(c) + 1) .. last(c)}

NothingMissing ==
  /\ (\A c \in Clients : pc[c] # "record") => acknowledged = Noted
  /\ \A c \in Clients :
       pc[c] = "record" => acknowledged = Noted \cup Remaining(c)

TrackingInv ==
  /\ Types
  /\ \A c \in Clients : LockOf(c) /\ CallOf(c) /\ BatchOf(c)
  /\ RecordedIsCommitted
  /\ RecordedInOrder
  /\ NothingMissing

-----------------------------------------------------------------------------

(***************************************************************************)
(* The instance of EventStore speaks the vocabulary of Event.              *)
(***************************************************************************)
LEMMA SameVocabulary ==
  /\ Inner!NoCall = NoCall /\ Inner!Pending = Pending
  /\ Inner!Failed = Failed
  /\ \A a, b : Inner!Accepts(a, b) <=> Accepts(a, b)
  /\ \A a : Inner!Appended(a) = Appended(a)
  /\ \A a, b : Inner!Conflict(a, b) = Conflict(a, b)
  BY DEF Inner!NoCall, NoCall, Inner!Pending, Pending, Inner!Failed, Failed,
         Inner!Accepts, Accepts, Inner!CheckAny, CheckAny, Inner!Appended,
         Appended, Inner!Conflict, Conflict

LEMMA AppendCallTypes ==
  ASSUME NEW r \in AppendCalls
  PROVE  /\ r.op = "append" /\ r # NoCall
         /\ r.id \in StreamIDs
         /\ r.expected # CheckAny => r.expected \in Nat
         /\ r.events \in Seq(Events) /\ Len(r.events) \in Nat
<1>1. Batches \subseteq Seq(Events)
  BY BoundsAssumption DEF Batches
<1> QED BY <1>1, BoundsAssumption, LenProperties
        DEF AppendCalls, NoCall, CheckAny

LEMMA AppendedVersion ==
  ASSUME NEW r \in Replies, r.kind = "appended"
  PROVE  r.version \in Nat
  BY DEF Replies, Pending, Failed

LEMMA RecordedTypes ==
  ASSUME Types, NEW k \in DOMAIN recorded
  PROVE  /\ recorded[k].id \in StreamIDs
         /\ recorded[k].version \in Nat
         /\ recorded[k].event \in Events
<1>1. k \in 1 .. Len(recorded)
  BY DEF Types
<1>2. recorded[k] \in [id : StreamIDs, version : Nat, event : Events]
  BY <1>1, ElementOfSeq DEF Types
<1> QED BY <1>2

LEMMA InitTrackingInv == Init => TrackingInv
<1> SUFFICES ASSUME Init PROVE TrackingInv
  OBVIOUS
<1> USE SameVocabulary DEF Init, Inner!Init
<1>1. Types
  BY TrackingAssumption, EmptySeq
     DEF Types, Unlocked, Labels, Replies, Pending
<1>2. ASSUME NEW c \in Clients PROVE LockOf(c) /\ CallOf(c) /\ BatchOf(c)
  BY DEF LockOf, CallOf, BatchOf, Answered
<1>3. recorded = <<>> /\ DOMAIN recorded = {}
  BY EmptySeq
<1>4. RecordedIsCommitted /\ RecordedInOrder
  BY <1>3 DEF RecordedIsCommitted, RecordedInOrder
<1>5. NothingMissing
  BY <1>3 DEF NothingMissing, Noted
<1> QED BY <1>1, <1>2, <1>4, <1>5 DEF TrackingInv

(***************************************************************************)
(* A goroutine that a step leaves alone.                                   *)
(***************************************************************************)
Untouched(c) ==
  /\ pc'[c] = pc[c] /\ args'[c] = args[c] /\ call'[c] = call[c]
  /\ reply'[c] = reply[c] /\ v'[c] = v[c] /\ i'[c] = i[c]

OthersUntouched(c) == \A d \in Clients \ {c} : Untouched(d)

(***************************************************************************)
(* A step that does not touch the streams or what is recorded, by a        *)
(* goroutine that does not enter the recording loop, nor leave it early.   *)
(***************************************************************************)
LEMMA QuietStep ==
  ASSUME TrackingInv, NEW c \in Clients, OthersUntouched(c),
         UNCHANGED <<log, recorded, acknowledged>>,
         pc[c] = "record" => Remaining(c) = {},
         ~ Answered(c)'
  PROVE  /\ \A d \in Clients : BatchOf(d)'
         /\ RecordedIsCommitted'
         /\ RecordedInOrder'
         /\ NothingMissing'
<1>1. ASSUME NEW d \in Clients PROVE BatchOf(d)'
  BY <1>1 DEF TrackingInv, OthersUntouched, Untouched, BatchOf, Answered,
              last, done
<1>2. RecordedIsCommitted' /\ RecordedInOrder'
  BY DEF TrackingInv, RecordedIsCommitted, RecordedInOrder
<1>3. NothingMissing'
  <2>1. Noted' = Noted
    BY DEF Noted
  <2>2. pc'[c] # "record"
    BY DEF Answered
  <2>3. ASSUME NEW d \in Clients, pc'[d] = "record"
        PROVE  acknowledged' = Noted' \cup Remaining(d)'
    <3>1. d # c
      BY <2>2, <2>3
    <3>2. Untouched(d)
      BY <3>1 DEF OthersUntouched
    <3>3. Remaining(d)' = Remaining(d)
      BY <3>2 DEF Untouched, Remaining, done, last
    <3> QED BY <2>1, <2>3, <3>2, <3>3
            DEF TrackingInv, NothingMissing, Untouched
  <2>4. ASSUME \A d \in Clients : pc'[d] # "record"
        PROVE  acknowledged' = Noted'
    <3>1. \A d \in Clients \ {c} : pc[d] # "record"
      BY <2>4 DEF OthersUntouched, Untouched
    <3>2. CASE pc[c] = "record"
      BY <2>1, <3>2 DEF TrackingInv, NothingMissing
    <3>3. CASE pc[c] # "record"
      BY <2>1, <3>1, <3>3 DEF TrackingInv, NothingMissing
    <3> QED BY <3>2, <3>3
  <2> QED BY <2>3, <2>4 DEF NothingMissing
<1> QED BY <1>1, <1>2, <1>3

-----------------------------------------------------------------------------

(***************************************************************************)
(* The lock: taken before the inner Append, kept until the loop is over.   *)
(***************************************************************************)
Locks == \A c \in Clients : LockOf(c)

LEMMA LockStep ==
  ASSUME Types, Locks, Next
  PROVE  Locks'
<1> USE TrackingAssumption DEF Types, Locks, LockOf, Goto, Labels
<1>1. PICK c \in Clients : Start(c) \/ AnnounceLock(c) \/ Step(c)
  BY DEF Next
<1>2. ASSUME NEW r \in AppendCalls, CallAppend(c, r) PROVE Locks'
  BY <1>2 DEF CallAppend
<1>3. ASSUME NEW r \in AppendCalls, CallDirect(c, r) PROVE Locks'
  BY <1>3 DEF CallDirect
<1>4. CASE CallRecorded(c)
  BY <1>4 DEF CallRecorded, RLock
<1>5. CASE AnnounceLock(c)
  BY <1>5 DEF AnnounceLock, CanAnnounce, Announce
<1>6. CASE ForwardAppend(c)
  BY <1>6 DEF ForwardAppend, Granted
<1>7. CASE InnerAppend(c)
  BY <1>7 DEF InnerAppend
<1>8. CASE InnerReturns(c)
  BY <1>8 DEF InnerReturns
<1>9. CASE RecordEvent(c)
  BY <1>9 DEF RecordEvent
<1>10. CASE ReturnAppend(c)
  BY <1>10 DEF ReturnAppend, Unlock
<1>11. CASE ReadRecorded(c)
  BY <1>11 DEF ReadRecorded, RLocked
<1>12. CASE ReturnRecorded(c)
  BY <1>12 DEF ReturnRecorded, RUnlock
<1>13. CASE DirectReturns(c)
  BY <1>13 DEF DirectReturns
<1> QED BY <1>1, <1>2, <1>3, <1>4, <1>5, <1>6, <1>7, <1>8, <1>9, <1>10,
           <1>11, <1>12, <1>13 DEF Start, Step

(***************************************************************************)
(* At most one goroutine is past the lock, and then nobody reads.          *)
(***************************************************************************)
LEMMA Exclusion ==
  ASSUME TrackingInv, NEW c \in Clients, pc[c] \in {"inner", "record"},
         NEW d \in Clients \ {c}
  PROVE  pc[d] \notin {"inner", "record", "read"}
  BY DEF TrackingInv, LockOf

(***************************************************************************)
(* The wrapped store answers an Append: conflict, failure, or a batch at   *)
(* the end of the stream.                                                  *)
(***************************************************************************)
LEMMA InnerAppendEffect ==
  ASSUME TrackingInv, NEW c \in Clients, InnerAppend(c)
  PROVE  /\ pc[c] \in {"inner", "direct"}
         /\ call[c] = args[c] /\ args[c] \in AppendCalls
         /\ reply[c] = Pending
         /\ call' = call
         /\ \E r \in Replies :
              /\ r # Pending
              /\ reply' = [reply EXCEPT ![c] = r]
              /\ \/ log' = log /\ r.kind # "appended"
                 \/ /\ log' = [log EXCEPT ![args[c].id] =
                                  @ \o args[c].events]
                    /\ r.kind = "appended" =>
                         r.version = Len(log[args[c].id])
                                       + Len(args[c].events)
<1>1. call[c].op = "append" /\ reply[c] = Pending /\ call' = call
  BY SameVocabulary DEF InnerAppend, Inner!PerformAppend, Inner!FailAppend
<1>2. pc[c] \in {"inner", "direct"}
  BY <1>1 DEF TrackingInv, CallOf, NoCall
<1>3. call[c] = args[c] /\ args[c] \in AppendCalls
  BY <1>2 DEF TrackingInv, CallOf
<1> DEFINE stream == log[args[c].id]
           n == Len(stream)
           m == Len(args[c].events)
<1>4. /\ args[c].id \in StreamIDs /\ stream \in Seq(Events) /\ n \in Nat
      /\ m \in Nat
      /\ args[c].expected # CheckAny => args[c].expected \in Nat
  BY <1>3, AppendCallTypes, LenProperties DEF TrackingInv, Types
<1>5. CASE Inner!FailAppend(c)
  <2>1. /\ Failed \in Replies /\ Failed # Pending
        /\ Failed.kind # "appended"
    BY DEF Failed, Replies, Pending
  <2> QED BY <1>1, <1>2, <1>3, <1>5, <2>1, SameVocabulary
          DEF Inner!FailAppend, Inner!Extended
<1>6. CASE Inner!PerformAppend(c) /\ Accepts(args[c].expected, n)
  <2>1. /\ log' = [log EXCEPT ![args[c].id] = @ \o args[c].events]
        /\ reply' = [reply EXCEPT ![c] = Appended(n + m)]
    BY <1>3, <1>6, SameVocabulary
       DEF Inner!PerformAppend, Inner!Extended
  <2> HIDE DEF n, m
  <2>2. n + m \in Nat
    BY <1>4
  <2>3. ASSUME NEW k \in Nat
        PROVE  /\ Appended(k) \in Replies /\ Appended(k) # Pending
               /\ Appended(k).version = k
    BY DEF Appended, Replies, Pending
  <2> QED BY <1>1, <1>2, <1>3, <2>1, <2>2, <2>3 DEF n, m
<1>7. CASE Inner!PerformAppend(c) /\ ~ Accepts(args[c].expected, n)
  <2>1. /\ log' = log
        /\ reply' = [reply EXCEPT ![c] = Conflict(args[c].expected, n)]
    BY <1>3, <1>7, SameVocabulary DEF Inner!PerformAppend
  <2>2. args[c].expected \in Nat
    BY <1>4, <1>7 DEF Accepts
  <2> HIDE DEF n
  <2>3. /\ Conflict(args[c].expected, n) \in Replies
        /\ Conflict(args[c].expected, n) # Pending
        /\ Conflict(args[c].expected, n).kind # "appended"
    BY <1>4, <2>2 DEF Conflict, Replies, Pending
  <2> QED BY <1>1, <1>2, <1>3, <2>1, <2>3
<1> QED BY <1>5, <1>6, <1>7 DEF InnerAppend

(***************************************************************************)
(* A stream only grows at its end.                                         *)
(***************************************************************************)
LEMMA StreamsGrow ==
  ASSUME TrackingInv, NEW r \in AppendCalls,
         \/ log' = log
         \/ log' = [log EXCEPT ![r.id] = @ \o r.events]
  PROVE  /\ log' \in [StreamIDs -> Seq(Events)]
         /\ \A id \in StreamIDs :
              /\ Len(log[id]) \in Nat /\ Len(log'[id]) \in Nat
              /\ Len(log[id]) <= Len(log'[id])
              /\ \A k \in 1 .. Len(log[id]) : log'[id][k] = log[id][k]
<1>1. /\ log \in [StreamIDs -> Seq(Events)]
      /\ r.id \in StreamIDs /\ r.events \in Seq(Events)
      /\ Len(r.events) \in Nat
  BY AppendCallTypes DEF TrackingInv, Types
<1>2. \A id \in StreamIDs : log[id] \in Seq(Events) /\ Len(log[id]) \in Nat
  BY <1>1, LenProperties
<1>3. CASE log' = log
  BY <1>1, <1>2, <1>3
<1>4. CASE log' = [log EXCEPT ![r.id] = @ \o r.events]
  <2> DEFINE s == log[r.id]
             b == r.events
             t == s \o b
             n == Len(s)
             m == Len(b)
  <2>1. s \in Seq(Events) /\ b \in Seq(Events) /\ n \in Nat /\ m \in Nat
    BY <1>1, <1>2
  <2>2. /\ t \in Seq(Events) /\ Len(t) = n + m
        /\ \A k \in 1 .. n + m :
             t[k] = IF k <= n THEN s[k] ELSE b[k - n]
    <3> HIDE DEF s, b
    <3> QED BY <2>1, ConcatProperties
  <2>3. log'[r.id] = t /\ \A id \in StreamIDs \ {r.id} : log'[id] = log[id]
    BY <1>1, <1>4
  <2>4. log' \in [StreamIDs -> Seq(Events)]
    <3> HIDE DEF t
    <3>1. log' = [log EXCEPT ![r.id] = t]
      BY <1>4 DEF t
    <3> QED BY <1>1, <2>2, <3>1
  <2> HIDE DEF t, n, m
  <2>5. /\ n <= Len(t) /\ Len(t) \in Nat
        /\ \A k \in 1 .. n : t[k] = s[k]
    BY <2>1, <2>2
  <2> QED BY <1>2, <2>3, <2>4, <2>5 DEF n, s
<1> QED BY <1>3, <1>4

-----------------------------------------------------------------------------

(***************************************************************************)
(* The wrapped store's step: streams grow, and the goroutine whose Append  *)
(* was accepted gets a version that is above all that is recorded.         *)
(***************************************************************************)
LEMMA InnerAppendStep ==
  ASSUME TrackingInv, NEW c \in Clients, InnerAppend(c)
  PROVE  TrackingInv'
<1> DEFINE id == args[c].id
           batch == args[c].events
           n == Len(log[id])
           m == Len(batch)
<1>1. /\ UNCHANGED <<mx, recorded, pc, args, v, i, acknowledged, call>>
      /\ pc[c] \in {"inner", "direct"} /\ args[c] \in AppendCalls
      /\ call[c] = args[c]
  BY InnerAppendEffect DEF InnerAppend
<1>2. PICK r \in Replies :
        /\ r # Pending
        /\ reply' = [reply EXCEPT ![c] = r]
        /\ \/ log' = log /\ r.kind # "appended"
           \/ /\ log' = [log EXCEPT ![id] = @ \o batch]
              /\ r.kind = "appended" => r.version = n + m
  BY InnerAppendEffect
<1>3. /\ log' \in [StreamIDs -> Seq(Events)]
      /\ \A s \in StreamIDs :
           /\ Len(log[s]) \in Nat /\ Len(log'[s]) \in Nat
           /\ Len(log[s]) <= Len(log'[s])
           /\ \A k \in 1 .. Len(log[s]) : log'[s][k] = log[s][k]
  BY <1>1, <1>2, StreamsGrow
<1>4. /\ id \in StreamIDs /\ batch \in Seq(Events)
      /\ log[id] \in Seq(Events) /\ n \in Nat /\ m \in Nat
  BY <1>1, AppendCallTypes, LenProperties DEF TrackingInv, Types
<1>5. Types'
  BY <1>1, <1>2, <1>3 DEF TrackingInv, Types
<1>6. ASSUME NEW d \in Clients PROVE LockOf(d)' /\ CallOf(d)'
  BY <1>1, <1>2 DEF TrackingInv, Types, LockOf, CallOf
<1>7. /\ reply'[c] = r
      /\ \A d \in Clients \ {c} : reply'[d] = reply[d]
  BY <1>2 DEF TrackingInv, Types
<1>8. ASSUME NEW d \in Clients, d # c PROVE BatchOf(d)'
  <2> SUFFICES ASSUME Answered(d)' PROVE BatchOf(d)'
    BY DEF BatchOf
  <2> DEFINE l == last(d)
             b == args[d].events
             s == args[d].id
  <2>1. Answered(d) /\ last(d)' = l /\ done(d)' = done(d)
    BY <1>1, <1>7, <1>8 DEF Answered, last, done
  <2>2. /\ args[d] \in AppendCalls /\ s \in StreamIDs /\ Len(b) \in Nat
        /\ l \in Nat
    <3>1. args[d] \in AppendCalls
      BY <2>1 DEF TrackingInv, CallOf, Answered
    <3>2. l \in Nat
      BY <2>1, AppendedVersion DEF Answered, last, TrackingInv, Types
    <3> QED BY <3>1, <3>2, AppendCallTypes
  <2>3. /\ i[d] <= Len(b) /\ Len(b) <= l /\ l <= Len(log[s])
        /\ \A k \in 1 .. Len(b) : log[s][l - Len(b) + k] = b[k]
        /\ \A k \in DOMAIN recorded :
             recorded[k].id = s => recorded[k].version <= done(d)
    BY <2>1 DEF TrackingInv, BatchOf
  <2> HIDE DEF l, b, s
  <2>4. \A k \in 1 .. Len(b) : l - Len(b) + k \in 1 .. Len(log[s])
    BY <1>3, <2>2, <2>3
  <2>5. /\ l <= Len(log'[s])
        /\ \A k \in 1 .. Len(b) : log'[s][l - Len(b) + k] = b[k]
    BY <1>3, <2>2, <2>3, <2>4
  <2>6. args'[d].events = b /\ args'[d].id = s /\ recorded' = recorded
        /\ i'[d] = i[d]
    BY <1>1 DEF b, s
  <2> QED BY <2>1, <2>3, <2>5, <2>6 DEF BatchOf
<1>9. BatchOf(c)'
  <2> SUFFICES ASSUME Answered(c)' PROVE BatchOf(c)'
    BY DEF BatchOf
  <2>1. pc[c] = "inner" /\ r.kind = "appended" /\ i[c] = 0
    BY <1>1, <1>7 DEF Answered, TrackingInv, CallOf
  <2>2. /\ log' = [log EXCEPT ![id] = @ \o batch] /\ r.version = n + m
    BY <1>2, <2>1
  <2>3. /\ log'[id] = log[id] \o batch
        /\ Len(log'[id]) = n + m
        /\ \A k \in 1 .. n + m :
             log'[id][k] = IF k <= n THEN log[id][k] ELSE batch[k - n]
    <3> DEFINE s == log[id]
    <3>1. log'[id] = s \o batch
      BY <1>4, <2>2 DEF TrackingInv, Types
    <3> HIDE DEF s, batch, id
    <3> QED BY <1>4, <3>1, ConcatProperties DEF s
  <2>4. last(c)' = n + m /\ done(c)' = n
    <3>1. last(c)' = n + m
      BY <1>1, <1>7, <2>1, <2>2 DEF last
    <3>2. done(c)' = n + m - m + 0
      BY <1>1, <2>1, <3>1 DEF done
    <3> HIDE DEF n, m
    <3> QED BY <1>4, <3>1, <3>2
  <2>5. \A k \in DOMAIN recorded :
          recorded[k].id = id => recorded[k].version <= n
    BY <1>4 DEF TrackingInv, RecordedIsCommitted
  <2> HIDE DEF n, m, id, batch
  <2>6. /\ 0 <= m /\ m <= n + m /\ n + m <= n + m
        /\ \A k \in 1 .. m : log'[id][(n + m) - m + k] = batch[k]
    <3>1. ASSUME NEW k \in 1 .. m PROVE log'[id][(n + m) - m + k] = batch[k]
      <4> DEFINE j == (n + m) - m + k
      <4>1. j \in 1 .. n + m /\ ~ (j <= n) /\ j - n = k
        BY <1>4
      <4> HIDE DEF j
      <4>2. log'[id][j] = batch[k]
        BY <2>3, <4>1, Zenon
      <4> QED BY <4>2 DEF j
    <3> QED BY <1>4, <3>1
  <2>7. /\ args'[c].events = batch /\ args'[c].id = id
        /\ recorded' = recorded /\ i'[c] = 0
    BY <1>1, <2>1 DEF batch, id
  <2> QED BY <2>3, <2>4, <2>5, <2>6, <2>7 DEF BatchOf, m
<1>10. RecordedIsCommitted'
  <2> SUFFICES ASSUME NEW k \in DOMAIN recorded
               PROVE  LET e == recorded[k]
                      IN  /\ e.version \in DOMAIN log'[e.id]
                          /\ log'[e.id][e.version] = e.event
    BY <1>1 DEF RecordedIsCommitted
  <2> DEFINE e == recorded[k]
  <2>1. e.id \in StreamIDs
    BY RecordedTypes DEF TrackingInv
  <2>2. e.version \in DOMAIN log[e.id] /\ log[e.id][e.version] = e.event
    BY DEF TrackingInv, RecordedIsCommitted
  <2>3. log[e.id] \in Seq(Events) /\ log'[e.id] \in Seq(Events)
    BY <1>3, <2>1 DEF TrackingInv, Types
  <2>4. DOMAIN log[e.id] = 1 .. Len(log[e.id])
        /\ DOMAIN log'[e.id] = 1 .. Len(log'[e.id])
    BY <2>3
  <2> HIDE DEF e
  <2>5. e.version \in DOMAIN log'[e.id] /\ log'[e.id][e.version] = e.event
    BY <1>3, <2>1, <2>2, <2>4
  <2> QED BY <2>5 DEF e
<1>11. RecordedInOrder'
  BY <1>1 DEF TrackingInv, RecordedInOrder
<1>12. NothingMissing'
  <2>1. Noted' = Noted
    BY <1>1 DEF Noted
  <2>2. \A d \in Clients : pc[d] = "record" => Remaining(d)' = Remaining(d)
    BY <1>1 DEF Remaining, done, last
  <2> QED BY <1>1, <2>1, <2>2 DEF TrackingInv, NothingMissing
<1> QED BY <1>5, <1>6, <1>8, <1>9, <1>10, <1>11, <1>12 DEF TrackingInv

-----------------------------------------------------------------------------

(***************************************************************************)
(* The wrapped Append returns a version: its batch is acknowledged, and    *)
(* all of it remains to be recorded.                                       *)
(***************************************************************************)
LEMMA EnterLoopStep ==
  ASSUME TrackingInv, NEW c \in Clients, InnerReturns(c),
         reply[c].kind = "appended"
  PROVE  /\ \A d \in Clients : BatchOf(d)'
         /\ RecordedIsCommitted' /\ RecordedInOrder' /\ NothingMissing'
<1>1. /\ pc[c] = "inner" /\ pc'[c] = "record" /\ v'[c] = reply[c].version
      /\ i[c] = 0 /\ i'[c] = 0 /\ args' = args /\ OthersUntouched(c)
      /\ UNCHANGED <<log, recorded>>
      /\ acknowledged' = acknowledged \cup Assigned(c)
  BY DEF InnerReturns, Inner!Return, Goto, TrackingInv, Types, CallOf,
         OthersUntouched, Untouched
<1>2. Answered(c) /\ last(c)' = last(c) /\ done(c)' = done(c)
  BY <1>1 DEF Answered, last, done
<1>3. BatchOf(c)'
  BY <1>1, <1>2 DEF TrackingInv, BatchOf
<1>4. ASSUME NEW d \in Clients \ {c} PROVE BatchOf(d)' /\ pc'[d] # "record"
  <2>1. Untouched(d)
    BY <1>1 DEF OthersUntouched
  <2>2. BatchOf(d)'
    BY <1>1, <2>1 DEF TrackingInv, Untouched, BatchOf, Answered, last, done
  <2> QED BY <1>1, <2>1, <2>2, Exclusion DEF Untouched
<1>5. RecordedIsCommitted' /\ RecordedInOrder'
  BY <1>1 DEF TrackingInv, RecordedIsCommitted, RecordedInOrder
<1>6. NothingMissing'
  <2>1. Noted' = Noted
    BY <1>1 DEF Noted
  <2>2. acknowledged = Noted
    BY <1>1, Exclusion DEF TrackingInv, NothingMissing
  <2>3. Assigned(c) = Remaining(c)'
    <3> DEFINE l == last(c)
               m == Len(args[c].events)
    <3>1. l = reply[c].version /\ done(c) = l - m + 0
      BY <1>1 DEF last, done
    <3>2. l \in Nat /\ m \in Nat
      <4>1. args[c] \in AppendCalls
        BY <1>1 DEF TrackingInv, CallOf
      <4> QED BY <3>1, <4>1, AppendedVersion, AppendCallTypes
              DEF TrackingInv, Types
    <3>3. Assigned(c) = {[id |-> args[c].id, version |-> n] :
                           n \in (l - m + 1) .. l}
      BY <3>1 DEF Assigned
    <3>4. Remaining(c)' = {[id |-> args[c].id, version |-> n] :
                             n \in (done(c) + 1) .. l}
      BY <1>1, <1>2 DEF Remaining
    <3> HIDE DEF l, m
    <3>5. done(c) + 1 = l - m + 1
      BY <3>1, <3>2
    <3> QED BY <3>3, <3>4, <3>5
  <2> QED BY <1>1, <1>4, <2>1, <2>2, <2>3 DEF NothingMissing
<1> QED BY <1>3, <1>4, <1>5, <1>6

(***************************************************************************)
(* One turn of the recording loop: the version it computes is the next     *)
(* one, the unsigned subtraction does not wrap, and the event it records   *)
(* is the one the stream holds there.                                      *)
(***************************************************************************)
LEMMA RecordEventEffect ==
  ASSUME TrackingInv, NEW c \in Clients, RecordEvent(c)
  PROVE  LET n == done(c) + 1
             e == [id |-> args[c].id, version |-> n,
                   event |-> args[c].events[i[c] + 1]]
         IN  /\ args[c] \in AppendCalls
             /\ args[c].id \in StreamIDs
             /\ n \in 1 .. last(c) /\ last(c) \in 1 .. Len(log[args[c].id])
             /\ n \in 1 .. Len(log[args[c].id])
             /\ args[c].events[i[c] + 1] \in Events
             /\ log[args[c].id][n] = args[c].events[i[c] + 1]
             /\ recorded' = Append(recorded, e)
             /\ last(c)' = last(c) /\ done(c)' = n
<1> DEFINE b == args[c].events
           m == Len(b)
           k == i[c]
           l == last(c)
           s == log[args[c].id]
<1>1. /\ pc[c] = "record" /\ k < m /\ args[c] \in AppendCalls
      /\ l = v[c] /\ l \in Nat /\ k \in Nat
  BY DEF RecordEvent, TrackingInv, Types, CallOf, last
<1>2. /\ args[c].id \in StreamIDs /\ b \in Seq(Events) /\ m \in Nat
      /\ s \in Seq(Events) /\ Len(s) \in Nat
  BY <1>1, AppendCallTypes, LenProperties DEF TrackingInv, Types
<1>3. /\ m <= l /\ l <= Len(s) /\ \A j \in 1 .. m : s[l - m + j] = b[j]
  BY <1>1 DEF TrackingInv, BatchOf, Answered
<1>4. done(c) = l - m + k
  BY DEF done
<1>5. recorded' = Append(recorded, [id |-> args[c].id,
                                    version |-> Minus(l, m) + k + 1,
                                    event |-> b[k + 1]])
  BY <1>1 DEF RecordEvent, RecordedVersion
<1>6. pc' = pc /\ v' = v /\ args' = args /\ i'[c] = k + 1
  BY DEF RecordEvent, TrackingInv, Types
<1>7. last(c)' = l /\ done(c)' = l - m + (k + 1)
  <2>1. last(c)' = l
    BY <1>1, <1>6 DEF last
  <2> HIDE DEF l
  <2> QED BY <1>6, <2>1 DEF done
<1> HIDE DEF b, m, k, l, s
<1>8. /\ Minus(l, m) + k + 1 = done(c) + 1
      /\ done(c) + 1 = l - m + (k + 1)
      /\ done(c) + 1 \in 1 .. l /\ l \in 1 .. Len(s)
      /\ done(c) + 1 \in 1 .. Len(s)
      /\ k + 1 \in 1 .. m
  <2> DEFINE n == Len(s)
  <2>1. /\ m \in Nat /\ n \in Nat /\ l \in Nat /\ k \in Nat
        /\ k < m /\ m <= l /\ l <= n
    BY <1>1, <1>2, <1>3
  <2> HIDE DEF n
  <2>2. Minus(l, m) = l - m
    BY <2>1 DEF Minus
  <2>3. /\ l - m + k + 1 = l - m + (k + 1)
        /\ l - m + k + 1 \in 1 .. l /\ l \in 1 .. n
        /\ l - m + k + 1 \in 1 .. n
        /\ k + 1 \in 1 .. m
    BY <2>1
  <2> QED BY <1>4, <2>2, <2>3 DEF n
<1>9. b[k + 1] \in Events
  BY <1>2, <1>8, ElementOfSeq DEF m
<1>10. s[done(c) + 1] = b[k + 1]
  BY <1>3, <1>8
<1> QED BY <1>1, <1>2, <1>5, <1>7, <1>8, <1>9, <1>10 DEF b, k, l, s

LEMMA RecordEventStep ==
  ASSUME TrackingInv, NEW c \in Clients, RecordEvent(c)
  PROVE  /\ \A d \in Clients : BatchOf(d)'
         /\ RecordedIsCommitted' /\ RecordedInOrder' /\ NothingMissing'
         /\ recorded' \in Seq([id : StreamIDs, version : Nat, event : Events])
<1> DEFINE n == done(c) + 1
           l == last(c)
           s == args[c].id
           e == [id |-> s, version |-> n,
                 event |-> args[c].events[i[c] + 1]]
           z == Len(recorded)
           R == [id : StreamIDs, version : Nat, event : Events]
<1>1. /\ s \in StreamIDs /\ n \in Nat /\ n \in 1 .. l /\ l \in Nat
      /\ n \in 1 .. Len(log[s]) /\ log[s][n] = e.event
      /\ e \in R /\ recorded' = Append(recorded, e)
      /\ last(c)' = l /\ done(c)' = n
  BY RecordEventEffect
<1>2. /\ pc[c] = "record" /\ OthersUntouched(c) /\ i'[c] = i[c] + 1
      /\ i[c] < Len(args[c].events) /\ i[c] \in Nat
      /\ UNCHANGED <<log, pc, args, acknowledged>>
  BY DEF RecordEvent, innerVars, TrackingInv, Types, OthersUntouched, Untouched
<1>3. recorded \in Seq(R) /\ z \in Nat
  BY LenProperties DEF TrackingInv, Types
<1>4. /\ \A k \in DOMAIN recorded :
           recorded[k].version \in Nat /\ recorded[k].id \in StreamIDs
      /\ \A k \in DOMAIN recorded :
           recorded[k].id = s => recorded[k].version < n
  <2>1. \A k \in DOMAIN recorded :
          recorded[k].version \in Nat /\ recorded[k].id \in StreamIDs
    BY RecordedTypes DEF TrackingInv
  <2>2. \A k \in DOMAIN recorded :
          recorded[k].id = s => recorded[k].version <= done(c)
    BY <1>2 DEF TrackingInv, BatchOf, Answered
  <2>3. done(c) \in Int
    <3>1. args[c] \in AppendCalls
      BY RecordEventEffect
    <3>2. Len(args[c].events) \in Nat
      BY <3>1, AppendCallTypes
    <3> QED BY <1>1, <1>2, <3>2 DEF done
  <2> QED BY <2>1, <2>2, <2>3
<1> HIDE DEF n, l, s, e, z, R
<1>5. /\ recorded' \in Seq(R) /\ DOMAIN recorded' = 1 .. z + 1
      /\ DOMAIN recorded = 1 .. z
      /\ recorded'[z + 1] = e
      /\ \A k \in 1 .. z : recorded'[k] = recorded[k]
  BY <1>1, <1>3, AppendProperties DEF z
<1>6. e.id = s /\ e.version = n
  BY DEF e
<1>7. ASSUME NEW k \in DOMAIN recorded'
      PROVE  \/ k \in DOMAIN recorded /\ recorded'[k] = recorded[k]
             \/ k = z + 1 /\ recorded'[k] = e
  BY <1>3, <1>5
<1>8. ASSUME NEW d \in Clients \ {c} PROVE ~ Answered(d)'
  <2>1. Untouched(d)
    BY <1>2 DEF OthersUntouched
  <2> QED BY <1>2, <2>1, Exclusion DEF Untouched, Answered
<1>9. BatchOf(c)'
  <2>1. \A k \in DOMAIN recorded' :
          recorded'[k].id = s => recorded'[k].version <= n
    BY <1>1, <1>4, <1>6, <1>7
  <2>2. i'[c] <= Len(args[c].events)
    <3>1. args[c] \in AppendCalls
      BY RecordEventEffect
    <3>2. Len(args[c].events) \in Nat
      BY <3>1, AppendCallTypes
    <3> QED BY <1>2, <3>2
  <2>3. Answered(c)
    BY <1>2 DEF Answered
  <2>4. /\ Len(args[c].events) <= l
        /\ l <= Len(log[s])
        /\ \A k \in 1 .. Len(args[c].events) :
             log[s][l - Len(args[c].events) + k] = args[c].events[k]
    BY <2>3 DEF TrackingInv, BatchOf, l, s
  <2> QED BY <1>1, <1>2, <2>1, <2>2, <2>4 DEF BatchOf, s
<1>10. ASSUME NEW d \in Clients PROVE BatchOf(d)'
  BY <1>8, <1>9 DEF BatchOf
<1>11. RecordedIsCommitted'
  <2> SUFFICES ASSUME NEW k \in DOMAIN recorded'
               PROVE  LET r == recorded'[k]
                      IN  /\ r.version \in DOMAIN log[r.id]
                          /\ log[r.id][r.version] = r.event
    BY <1>2 DEF RecordedIsCommitted
  <2>1. DOMAIN log[s] = 1 .. Len(log[s])
    BY <1>1 DEF TrackingInv, Types
  <2>2. CASE recorded'[k] = e
    BY <1>1, <1>6, <2>1, <2>2
  <2>3. CASE k \in DOMAIN recorded /\ recorded'[k] = recorded[k]
    BY <2>3 DEF TrackingInv, RecordedIsCommitted
  <2> QED BY <1>7, <2>2, <2>3
<1>12. RecordedInOrder'
  <2> SUFFICES ASSUME NEW j \in DOMAIN recorded', NEW k \in DOMAIN recorded',
                      j < k, recorded'[j].id = recorded'[k].id
               PROVE  recorded'[j].version < recorded'[k].version
    BY DEF RecordedInOrder
  <2>1. j \in DOMAIN recorded /\ recorded'[j] = recorded[j]
    BY <1>3, <1>5
  <2>2. CASE k = z + 1 /\ recorded'[k] = e
    BY <1>4, <1>6, <2>1, <2>2
  <2>3. CASE k \in DOMAIN recorded /\ recorded'[k] = recorded[k]
    BY <2>1, <2>3 DEF TrackingInv, RecordedInOrder
  <2> QED BY <1>7, <2>2, <2>3
<1>13. NothingMissing'
  <2> DEFINE x == [id |-> s, version |-> n]
  <2>1. Noted' = Noted \cup {x}
    <3>1. ASSUME NEW y \in Noted' PROVE y \in Noted \cup {x}
      <4>1. PICK k \in DOMAIN recorded' :
              y = [id |-> recorded'[k].id, version |-> recorded'[k].version]
        BY DEF Noted
      <4> QED BY <1>6, <1>7, <4>1 DEF Noted
    <3>2. x \in Noted'
      <4>1. z + 1 \in DOMAIN recorded'
        BY <1>3, <1>5
      <4> QED BY <1>5, <1>6, <4>1 DEF Noted
    <3>3. ASSUME NEW y \in Noted PROVE y \in Noted'
      <4>1. PICK k \in DOMAIN recorded :
              y = [id |-> recorded[k].id, version |-> recorded[k].version]
        BY DEF Noted
      <4>2. k \in DOMAIN recorded' /\ recorded'[k] = recorded[k]
        BY <1>3, <1>5
      <4> QED BY <4>1, <4>2 DEF Noted
    <3> QED BY <3>1, <3>2, <3>3
  <2>2. Remaining(c) = {x} \cup Remaining(c)'
    <3>1. Remaining(c) = {[id |-> s, version |-> k] : k \in n .. l}
      BY DEF Remaining, n, l, s
    <3>2. Remaining(c)' = {[id |-> s, version |-> k] : k \in (n + 1) .. l}
      BY <1>1, <1>2 DEF Remaining, s
    <3>3. n .. l = {n} \cup ((n + 1) .. l)
      BY <1>1
    <3> QED BY <3>1, <3>2, <3>3
  <2>3. acknowledged = Noted \cup Remaining(c)
    BY <1>2 DEF TrackingInv, NothingMissing
  <2>4. acknowledged' = Noted' \cup Remaining(c)'
    BY <1>2, <2>1, <2>2, <2>3
  <2>5. pc'[c] = "record"
    BY <1>2
  <2> QED BY <1>8, <2>4, <2>5 DEF NothingMissing, Answered
<1> QED BY <1>5, <1>10, <1>11, <1>12, <1>13 DEF R

-----------------------------------------------------------------------------

Calls == \A c \in Clients : CallOf(c)

(***************************************************************************)
(* Types and calls, for the steps that leave the streams alone.            *)
(***************************************************************************)
LEMMA CallAppendStep ==
  ASSUME TrackingInv, NEW c \in Clients, NEW r \in AppendCalls,
         CallAppend(c, r)
  PROVE  TrackingInv'
<1>1. /\ OthersUntouched(c) /\ UNCHANGED <<log, recorded, acknowledged>>
      /\ pc[c] = "idle" /\ pc'[c] = "lock"
  BY DEF CallAppend, innerVars, Goto, TrackingInv, Types, OthersUntouched,
         Untouched
<1>2. ~ Answered(c)'
  BY <1>1 DEF Answered
<1>3. Types' /\ Calls'
  BY DEF CallAppend, innerVars, Goto, TrackingInv, Types, Calls, CallOf, Labels
<1>4. Locks'
  BY LockStep DEF TrackingInv, Locks, Next, Start
<1> QED BY <1>1, <1>2, <1>3, <1>4, QuietStep DEF TrackingInv, Calls, Locks

LEMMA CallDirectStep ==
  ASSUME TrackingInv, NEW c \in Clients, NEW r \in AppendCalls,
         CallDirect(c, r)
  PROVE  TrackingInv'
<1>1. /\ OthersUntouched(c) /\ UNCHANGED <<log, recorded, acknowledged>>
      /\ pc[c] = "idle" /\ pc'[c] = "direct"
  BY DEF CallDirect, Inner!Request, Goto, TrackingInv, Types,
         OthersUntouched, Untouched
<1>2. ~ Answered(c)'
  BY <1>1 DEF Answered
<1>3. Types' /\ Calls'
  BY DEF CallDirect, Inner!Request, Goto, TrackingInv, Types, Calls, CallOf,
         Labels
<1>4. Locks'
  BY LockStep DEF TrackingInv, Locks, Next, Start
<1> QED BY <1>1, <1>2, <1>3, <1>4, QuietStep DEF TrackingInv, Calls, Locks

LEMMA ForwardAppendStep ==
  ASSUME TrackingInv, NEW c \in Clients, ForwardAppend(c)
  PROVE  TrackingInv'
<1>1. /\ OthersUntouched(c) /\ UNCHANGED <<log, recorded, acknowledged>>
      /\ pc[c] = "wait" /\ pc'[c] = "inner" /\ reply' = reply
  BY DEF ForwardAppend, Inner!Request, Goto, TrackingInv, Types,
         OthersUntouched, Untouched
<1>2. ~ Answered(c)'
  <2>1. reply[c] = Pending
    BY <1>1 DEF TrackingInv, CallOf
  <2> QED BY <1>1, <2>1 DEF Answered, Pending
<1>3. Types' /\ Calls'
  BY DEF ForwardAppend, Inner!Request, Goto, TrackingInv, Types, Calls,
         CallOf, Labels
<1>4. Locks'
  BY LockStep DEF TrackingInv, Locks, Next, Step
<1> QED BY <1>1, <1>2, <1>3, <1>4, QuietStep DEF TrackingInv, Calls, Locks

(***************************************************************************)
(* The steps of Append and Recorded that only take or leave the lock.      *)
(***************************************************************************)
LEMMA LockingStep ==
  ASSUME TrackingInv, NEW c \in Clients,
         \/ CallRecorded(c) \/ AnnounceLock(c) \/ ReadRecorded(c)
         \/ ReturnRecorded(c)
  PROVE  TrackingInv'
<1> USE DEF CallRecorded, AnnounceLock, ReadRecorded, ReturnRecorded,
            innerVars, Goto, TrackingInv, Types
<1>1. /\ OthersUntouched(c) /\ UNCHANGED <<log, recorded, acknowledged>>
      /\ pc[c] # "record" /\ pc'[c] \notin {"inner", "record"}
  BY DEF OthersUntouched, Untouched
<1>2. ~ Answered(c)'
  BY <1>1 DEF Answered
<1>3. mx' \in [writer : Clients \cup {NoOne}, readers : SUBSET Clients,
               blocked : SUBSET Clients]
  <2>1. CASE CallRecorded(c)
    BY <2>1 DEF RLock
  <2>2. CASE AnnounceLock(c)
    BY <2>2 DEF Announce
  <2>3. CASE ReadRecorded(c)
    BY <2>3
  <2>4. CASE ReturnRecorded(c)
    BY <2>4 DEF RUnlock
  <2> QED BY <2>1, <2>2, <2>3, <2>4
<1>4. Types' /\ Calls'
  BY <1>3 DEF Calls, CallOf, Labels
<1>5. Locks'
  BY LockStep DEF Locks, Next, Start, Step
<1> QED BY <1>1, <1>2, <1>4, <1>5, QuietStep DEF Calls, Locks

(***************************************************************************)
(* The deferred Unlock: after an error, or when the whole batch has been   *)
(* recorded.                                                               *)
(***************************************************************************)
LEMMA ReturnAppendStep ==
  ASSUME TrackingInv, NEW c \in Clients, ReturnAppend(c)
  PROVE  TrackingInv'
<1>1. /\ OthersUntouched(c) /\ UNCHANGED <<log, recorded, acknowledged>>
      /\ pc'[c] = "idle"
  BY DEF ReturnAppend, innerVars, Goto, TrackingInv, Types, OthersUntouched,
         Untouched
<1>2. ~ Answered(c)'
  BY <1>1 DEF Answered
<1>3. ASSUME pc[c] = "record" PROVE Remaining(c) = {}
  <2> DEFINE l == last(c)
             m == Len(args[c].events)
  <2>1. l \in Nat /\ m \in Nat /\ i[c] = m /\ done(c) = l - m + i[c]
    <3>1. args[c] \in AppendCalls /\ last(c) \in Nat
      BY <1>3 DEF TrackingInv, CallOf, Types, last
    <3> QED BY <1>3, <3>1, AppendCallTypes DEF ReturnAppend, done
  <2>2. Remaining(c) = {[id |-> args[c].id, version |-> n] :
                          n \in (done(c) + 1) .. l}
    BY DEF Remaining
  <2> HIDE DEF l, m
  <2>3. (done(c) + 1) .. l = {}
    BY <2>1
  <2> QED BY <2>2, <2>3
<1>4. mx' \in [writer : Clients \cup {NoOne}, readers : SUBSET Clients,
               blocked : SUBSET Clients]
  BY DEF ReturnAppend, Unlock, TrackingInv, Types
<1>5. Types' /\ Calls'
  BY <1>4 DEF ReturnAppend, innerVars, Goto, TrackingInv, Types, Calls, CallOf,
              Labels
<1>6. Locks'
  BY LockStep DEF TrackingInv, Locks, Next, Step
<1> QED BY <1>1, <1>2, <1>3, <1>5, <1>6, QuietStep
        DEF TrackingInv, Calls, Locks

LEMMA DirectReturnsStep ==
  ASSUME TrackingInv, NEW c \in Clients, DirectReturns(c)
  PROVE  TrackingInv'
<1>1. /\ OthersUntouched(c) /\ UNCHANGED <<log, recorded, acknowledged>>
      /\ pc[c] = "direct" /\ pc'[c] = "idle"
  BY DEF DirectReturns, Inner!Return, Goto, TrackingInv, Types,
         OthersUntouched, Untouched
<1>2. ~ Answered(c)'
  BY <1>1 DEF Answered
<1>3. Types' /\ Calls'
  BY SameVocabulary
     DEF DirectReturns, Inner!Return, Goto, TrackingInv, Types, Calls, CallOf,
         Labels, Replies
<1>4. Locks'
  BY LockStep DEF TrackingInv, Locks, Next, Step
<1> QED BY <1>1, <1>2, <1>3, <1>4, QuietStep DEF TrackingInv, Calls, Locks

LEMMA InnerReturnsStep ==
  ASSUME TrackingInv, NEW c \in Clients, InnerReturns(c)
  PROVE  TrackingInv'
<1>1. v' \in [Clients -> Nat]
  BY AppendedVersion DEF InnerReturns, TrackingInv, Types
<1>2. Types' /\ Calls'
  BY <1>1, SameVocabulary
     DEF InnerReturns, Inner!Return, Goto, TrackingInv, Types, Calls, CallOf,
         Labels, Replies
<1>3. Locks'
  BY LockStep DEF TrackingInv, Locks, Next, Step
<1>4. CASE reply[c].kind = "appended"
  BY <1>2, <1>3, <1>4, EnterLoopStep DEF TrackingInv, Calls, Locks
<1>5. CASE reply[c].kind # "appended"
  <2>1. /\ OthersUntouched(c) /\ UNCHANGED <<log, recorded, acknowledged>>
        /\ pc[c] = "inner" /\ pc'[c] = "unlock"
    BY <1>5 DEF InnerReturns, Inner!Return, Goto, TrackingInv, Types,
                OthersUntouched, Untouched
  <2>2. ~ Answered(c)'
    BY <2>1 DEF Answered
  <2> QED BY <1>2, <1>3, <2>1, <2>2, QuietStep DEF TrackingInv, Calls, Locks
<1> QED BY <1>4, <1>5

LEMMA RecordingStep ==
  ASSUME TrackingInv, NEW c \in Clients, RecordEvent(c)
  PROVE  TrackingInv'
<1>1. recorded' \in Seq([id : StreamIDs, version : Nat, event : Events])
  BY RecordEventStep
<1>2. Types'
  BY <1>1 DEF RecordEvent, innerVars, TrackingInv, Types
<1>3. Calls'
  BY DEF RecordEvent, innerVars, TrackingInv, Types, Calls, CallOf
<1>4. Locks'
  BY LockStep DEF TrackingInv, Locks, Next, Step
<1> QED BY <1>2, <1>3, <1>4, RecordEventStep DEF TrackingInv, Calls, Locks

LEMMA StutterStep ==
  ASSUME TrackingInv, UNCHANGED vars
  PROVE  TrackingInv'
  BY DEF vars, TrackingInv, Types, LockOf, CallOf, BatchOf, Answered, last,
         done, RecordedIsCommitted, RecordedInOrder, NothingMissing, Noted,
         Remaining

-----------------------------------------------------------------------------

LEMMA Invariance == Spec => []TrackingInv
<1>1. TrackingInv /\ [Next]_vars => TrackingInv'
  <2> SUFFICES ASSUME TrackingInv, Next PROVE TrackingInv'
    BY StutterStep
  <2>1. PICK c \in Clients : Start(c) \/ AnnounceLock(c) \/ Step(c)
    BY DEF Next
  <2>2. CASE Start(c)
    BY <2>2, CallAppendStep, CallDirectStep, LockingStep DEF Start
  <2>3. CASE AnnounceLock(c)
    BY <2>3, LockingStep
  <2>4. CASE Step(c)
    BY <2>4, ForwardAppendStep, InnerAppendStep, InnerReturnsStep,
       RecordingStep, ReturnAppendStep, LockingStep, DirectReturnsStep
       DEF Step
  <2> QED BY <2>1, <2>2, <2>3, <2>4
<1> QED BY <1>1, InitTrackingInv, PTL DEF Spec

(***************************************************************************)
(* Every event that TrackingStore.Append has recorded is the event that    *)
(* the wrapped store holds at that version of that stream.                 *)
(***************************************************************************)
THEOREM RecordedAreCommitted == Spec => []RecordedIsCommitted
<1>1. TrackingInv => RecordedIsCommitted
  BY DEF TrackingInv
<1> QED BY <1>1, Invariance, PTL

(***************************************************************************)
(* The recorded events of a stream are in version order, each once.        *)
(***************************************************************************)
THEOREM RecordedAreInOrder == Spec => []RecordedInOrder
<1>1. TrackingInv => RecordedInOrder
  BY DEF TrackingInv
<1> QED BY <1>1, Invariance, PTL

(***************************************************************************)
(* What a caller of TrackingStore.Recorded reads is all that the wrapped   *)
(* store has acknowledged to appends through the wrapper, and no more.     *)
(***************************************************************************)
THEOREM RecordedAreComplete == Spec => []RecordedIsComplete
<1>1. TrackingInv => RecordedIsComplete
  <2> SUFFICES ASSUME TrackingInv, NEW c \in Clients, pc[c] = "read"
               PROVE  acknowledged = Noted
    BY DEF RecordedIsComplete, Noted
  <2>1. \A d \in Clients : pc[d] # "record"
    BY DEF TrackingInv, LockOf
  <2> QED BY <2>1 DEF TrackingInv, NothingMissing
<1> QED BY <1>1, Invariance, PTL

=============================================================================
