-------------------------- MODULE Aggregate_proofs --------------------------
(***************************************************************************)
(* What RecordThat, FlushRecordedEvents and the rehydration functions do   *)
(* to a root, and what it means that a root extends a sequence of events:  *)
(* the lemmas that the proofs about both repositories rest on.             *)
(***************************************************************************)
EXTENDS Aggregate, SequencesExt, SequenceTheorems, TLAPS

(***************************************************************************)
(* A root is an initial part of a stream, and then what it has recorded,   *)
(* entry by entry.                                                         *)
(***************************************************************************)
Fresh(r) == Len(r.state) - Len(r.recorded)

Extends(r, stream) ==
  /\ r.version = Len(r.state)
  /\ Len(r.recorded) <= Len(r.state)
  /\ \A k \in 1 .. Len(r.recorded) : r.state[Fresh(r) + k] = r.recorded[k]
  /\ Fresh(r) <= Len(stream)
  /\ \A k \in 1 .. Fresh(r) : r.state[k] = stream[k]

-----------------------------------------------------------------------------

LEMMA RootTypes ==
  ASSUME NEW r \in Roots
  PROVE  /\ r # NoRoot
         /\ r.id \in StreamIDs /\ r.version \in Nat
         /\ r.state \in Seq(Events) /\ Len(r.state) \in Nat
         /\ r.recorded \in Seq(Events) /\ Len(r.recorded) \in Nat
         /\ r = [id |-> r.id, state |-> r.state, version |-> r.version,
                 recorded |-> r.recorded]
  BY LenProperties DEF Roots, NoRoot

(***************************************************************************)
(* What appending does to a stream a root extends: the old entries stay.   *)
(***************************************************************************)
LEMMA ExtendsLonger ==
  ASSUME NEW r \in Roots, NEW s \in Seq(Events), NEW t \in Seq(Events),
         Extends(r, s)
  PROVE  Extends(r, s \o t)
<1>1. /\ Len(s) \in Nat /\ Len(t) \in Nat
      /\ Len(s \o t) = Len(s) + Len(t)
      /\ \A k \in 1 .. Len(s) : (s \o t)[k] = s[k]
  BY ConcatProperties, LenProperties
<1>2. Fresh(r) \in Nat /\ Fresh(r) <= Len(s)
  BY RootTypes DEF Extends, Fresh
<1> QED BY <1>1, <1>2 DEF Extends

(***************************************************************************)
(* RecordThat with the first n events of a batch.                          *)
(***************************************************************************)
LEMMA RecordThatProperties ==
  ASSUME NEW r \in Roots, NEW batch \in Seq(Events), NEW n \in 0 .. Len(batch)
  PROVE  /\ RecordThat(r, batch, n) \in Roots
         /\ RecordThat(r, batch, n).id = r.id
         /\ \A stream \in Seq(Events) :
              Extends(r, stream) => Extends(RecordThat(r, batch, n), stream)
<1> DEFINE part == SubSeq(batch, 1, n)
           state == r.state \o part
           recorded == r.recorded \o part
           q == RecordThat(r, batch, n)
<1>1. part \in Seq(Events) /\ Len(part) = n /\ n \in Nat
  <2>1. n \in Nat /\ Len(batch) \in Nat
    BY LenProperties
  <2>2. \A k \in 1 .. n : batch[k] \in Events
    BY <2>1, ElementOfSeq
  <2> QED BY <2>1, <2>2, SubSeqProperties
<1>2. /\ q.id = r.id /\ q.version = r.version + n
      /\ q.state = state /\ q.recorded = recorded
      /\ q = [id |-> r.id, state |-> state,
              version |-> r.version + n, recorded |-> recorded]
  BY DEF RecordThat
<1> HIDE DEF part, q
<1>3. /\ state \in Seq(Events) /\ recorded \in Seq(Events)
      /\ Len(state) = Len(r.state) + n /\ Len(recorded) = Len(r.recorded) + n
  BY <1>1, RootTypes, ConcatProperties
<1>4. \A k \in 1 .. Len(r.state) + n : state[k] =
        IF k <= Len(r.state) THEN r.state[k] ELSE part[k - Len(r.state)]
  BY <1>1, RootTypes, ConcatProperties
<1>5. \A k \in 1 .. Len(r.recorded) + n : recorded[k] =
        IF k <= Len(r.recorded) THEN r.recorded[k]
                                ELSE part[k - Len(r.recorded)]
  BY <1>1, RootTypes, ConcatProperties
<1> HIDE DEF state, recorded
<1>6. q \in Roots
  BY <1>1, <1>2, <1>3, RootTypes DEF Roots
<1>7. ASSUME NEW stream \in Seq(Events), Extends(r, stream)
      PROVE  Extends(q, stream)
  <2>1. /\ Len(r.state) \in Nat /\ Len(r.recorded) \in Nat
        /\ Len(r.recorded) <= Len(r.state) /\ r.version = Len(r.state)
    BY <1>7, RootTypes DEF Extends
  <2>2. /\ Fresh(q) = Fresh(r) /\ Fresh(r) \in Nat
        /\ Fresh(r) + Len(r.recorded) = Len(r.state)
    BY <1>1, <1>2, <1>3, <2>1 DEF Fresh
  <2>3. ASSUME NEW k \in 1 .. (Len(r.recorded) + n)
        PROVE  state[Fresh(r) + k] = recorded[k]
    <3> DEFINE m == Fresh(r) + k
    <3>0. m \in 1 .. (Len(r.state) + n) /\ k \in Nat /\ m - k = Fresh(r)
      BY <1>1, <2>1, <2>2
    <3>1. CASE k <= Len(r.recorded)
      <4>1. r.state[m] = r.recorded[k]
        BY <1>7, <3>1 DEF Extends
      <4>2. m <= Len(r.state)
        BY <2>1, <2>2, <3>1
      <4>3. state[m] = r.state[m] /\ recorded[k] = r.recorded[k]
        BY <1>4, <1>5, <3>0, <3>1, <4>2
      <4> QED BY <4>1, <4>3
    <3>2. CASE Len(r.recorded) < k
      <4>1. ~ (m <= Len(r.state)) /\ m - Len(r.state) = k - Len(r.recorded)
        BY <2>1, <2>2, <3>2
      <4>2. ~ (k <= Len(r.recorded))
        BY <2>1, <3>0, <3>2
      <4> HIDE DEF m
      <4>3. state[m] = part[m - Len(r.state)]
        BY <1>4, <3>0, <4>1
      <4>4. recorded[k] = part[k - Len(r.recorded)]
        BY <1>5, <4>2
      <4> QED BY <4>1, <4>3, <4>4 DEF m
    <3> QED BY <2>1, <3>1, <3>2
  <2>4. ASSUME NEW k \in 1 .. Fresh(r) PROVE state[k] = stream[k]
    <3>1. r.state[k] = stream[k]
      BY <1>7 DEF Extends
    <3> QED BY <1>1, <1>4, <2>1, <2>2, <3>1
  <2>5. Fresh(r) <= Len(stream)
    BY <1>7 DEF Extends
  <2> QED BY <1>1, <1>2, <1>3, <2>1, <2>2, <2>3, <2>4, <2>5 DEF Extends
<1> QED BY <1>2, <1>6, <1>7 DEF q

LEMMA BatchTypes == Batches \subseteq Seq(Events)
  BY BoundsAssumption DEF Batches

LEMMA NewRootProperties ==
  ASSUME NEW id \in StreamIDs
  PROVE  /\ NewRoot(id) \in Roots /\ NewRoot(id).id = id
         /\ \A s \in Seq(Events) : Extends(NewRoot(id), s)
  BY EmptySeq, LenProperties DEF NewRoot, Roots, Extends, Fresh

LEMMA RehydrateProperties ==
  ASSUME NEW id \in StreamIDs, NEW s \in Seq(Events)
  PROVE  /\ RehydrateFromEvents(id, s) \in Roots
         /\ RehydrateFromEvents(id, s).id = id
         /\ Extends(RehydrateFromEvents(id, s), s)
<1>1. Len(s) \in Nat /\ <<>> \in Seq(Events) /\ Len(<<>>) = 0
  BY EmptySeq, LenProperties
<1> QED BY <1>1 DEF RehydrateFromEvents, Roots, Extends, Fresh

LEMMA FlushProperties ==
  ASSUME NEW r \in Roots
  PROVE  LET q == FlushRecordedEvents(r)
         IN  q \in Roots /\ q.id = r.id /\ q.recorded = <<>>
               /\ q.state = r.state /\ q.version = r.version
  BY EmptySeq DEF FlushRecordedEvents, Roots

(***************************************************************************)
(* The subtraction in Save does not wrap, and an accepted commit makes the *)
(* stream equal to the root's state: this is optimistic concurrency.       *)
(***************************************************************************)
LEMMA CommitProperties ==
  ASSUME NEW r \in Roots, NEW s \in Seq(Events), Extends(r, s)
  PROVE  /\ ExpectedVersion(r) = Fresh(r) /\ Fresh(r) \in Nat
         /\ Accepts(ExpectedVersion(r), Len(s)) =>
              /\ s \o r.recorded = r.state
              /\ Extends(FlushRecordedEvents(r), r.state)
<1>1. /\ Len(r.state) \in Nat /\ Len(r.recorded) \in Nat /\ Len(s) \in Nat
      /\ Len(r.recorded) <= Len(r.state) /\ r.version = Len(r.state)
      /\ r.state \in Seq(Events) /\ r.recorded \in Seq(Events)
  BY RootTypes, LenProperties DEF Extends
<1>2. ExpectedVersion(r) = Fresh(r) /\ Fresh(r) \in Nat
  BY <1>1 DEF ExpectedVersion, Minus, Fresh
<1>3. ASSUME Accepts(ExpectedVersion(r), Len(s))
      PROVE  s \o r.recorded = r.state
  <2> DEFINE t == s \o r.recorded
  <2>1. Len(s) = Fresh(r)
    BY <1>1, <1>2, <1>3 DEF Accepts, CheckAny
  <2>2. /\ t \in Seq(Events) /\ Len(t) = Len(s) + Len(r.recorded)
    BY <1>1, ConcatProperties
  <2>3. \A k \in 1 .. Len(s) + Len(r.recorded) :
          t[k] = IF k <= Len(s) THEN s[k] ELSE r.recorded[k - Len(s)]
    BY <1>1, ConcatProperties
  <2> HIDE DEF t
  <2>4. Len(t) = Len(r.state)
    BY <1>1, <2>1, <2>2 DEF Fresh
  <2>5. ASSUME NEW k \in 1 .. Len(t) PROVE t[k] = r.state[k]
    <3>1. CASE k <= Len(s)
      BY <1>1, <2>1, <2>2, <2>3, <3>1 DEF Extends
    <3>2. CASE ~ (k <= Len(s))
      <4>1. k - Len(s) \in 1 .. Len(r.recorded)
        BY <1>1, <2>2, <3>2
      <4>2. r.state[Fresh(r) + (k - Len(s))] = r.recorded[k - Len(s)]
        BY <4>1 DEF Extends
      <4>3. Fresh(r) + (k - Len(s)) = k
        BY <1>1, <2>1, <2>2
      <4>4. t[k] = r.recorded[k - Len(s)]
        BY <2>2, <2>3, <3>2
      <4> QED BY <4>2, <4>3, <4>4
    <3> QED BY <3>1, <3>2
  <2>6. t = r.state
    BY <1>1, <2>2, <2>4, <2>5, SeqEqual
  <2> QED BY <2>6 DEF t
<1>4. Extends(FlushRecordedEvents(r), r.state)
  <2> DEFINE q == FlushRecordedEvents(r)
  <2>1. /\ q.recorded = <<>> /\ q.state = r.state /\ q.version = r.version
        /\ Len(<<>>) = 0
    BY FlushProperties, EmptySeq
  <2> HIDE DEF q
  <2>2. Fresh(q) = Len(r.state) /\ Len(q.recorded) = 0
    BY <1>1, <2>1 DEF Fresh
  <2>3. Extends(q, r.state)
    BY <1>1, <2>1, <2>2 DEF Extends
  <2> QED BY <2>3 DEF q
<1> QED BY <1>2, <1>3, <1>4

(***************************************************************************)
(* An initial part of a batch is a batch.                                  *)
(***************************************************************************)
LEMMA PartOfBatch ==
  ASSUME NEW batch \in Batches, NEW n \in 0 .. Len(batch)
  PROVE  SubSeq(batch, 1, n) \in Batches
<1>1. PICK m \in 0 .. MaxBatch : batch \in [1 .. m -> Events]
  BY DEF Batches
<1>2. m \in Nat /\ Len(batch) = m /\ n \in 0 .. m /\ m <= MaxBatch
  BY <1>1, BoundsAssumption, LenProperties
<1>3. \A k \in 1 .. n : batch[k] \in Events
  BY <1>1, <1>2
<1>4. SubSeq(batch, 1, n) \in Seq(Events) /\ Len(SubSeq(batch, 1, n)) = n
  <2>1. n \in Int /\ 1 \in Int /\ n \in Nat
    BY <1>2
  <2>2. /\ SubSeq(batch, 1, n) \in Seq(Events)
        /\ Len(SubSeq(batch, 1, n)) = IF 1 <= n THEN n - 1 + 1 ELSE 0
    BY <1>3, <2>1, SubSeqProperties
  <2> QED BY <2>1, <2>2
<1>5. n \in 0 .. MaxBatch
  BY <1>2, BoundsAssumption
<1>6. SubSeq(batch, 1, n) \in [1 .. n -> Events]
  BY <1>4, LenProperties
<1> QED BY <1>5, <1>6 DEF Batches

(***************************************************************************)
(* The entry-wise facts say what the sequences are.                        *)
(***************************************************************************)
LEMMA PrefixOfSubSeq ==
  ASSUME NEW s \in Seq(Events), NEW t \in Seq(Events), Len(s) <= Len(t),
         \A k \in 1 .. Len(s) : s[k] = t[k]
  PROVE  IsPrefix(s, t)
<1> DEFINE n == Len(s)
           p == SubSeq(s, 1, n)
           q == SubSeq(t, 1, n)
<1>1. n \in Nat /\ Len(t) \in Nat
  BY LenProperties
<1>2. /\ \A k \in 1 .. n : s[k] \in Events
      /\ \A k \in 1 .. n : t[k] \in Events
  BY <1>1, ElementOfSeq
<1>3. /\ p \in Seq(Events) /\ Len(p) = n
      /\ \A k \in 1 .. n : p[k] = s[k]
  BY <1>1, <1>2, SubSeqProperties
<1>4. /\ q \in Seq(Events) /\ Len(q) = n
      /\ \A k \in 1 .. n : q[k] = t[k]
  BY <1>1, <1>2, SubSeqProperties
<1> HIDE DEF p, q
<1>5. p = q
  BY <1>3, <1>4, SeqEqual
<1> QED BY <1>5 DEF IsPrefix, p, q

LEMMA SuffixOfEntries ==
  ASSUME NEW s \in Seq(Events), NEW t \in Seq(Events), Len(s) <= Len(t),
         \A k \in 1 .. Len(s) : t[(Len(t) - Len(s)) + k] = s[k]
  PROVE  IsSuffix(s, t)
<1> DEFINE n == Len(s)
           m == Len(t)
           p == Reverse(s)
           q == Reverse(t)
<1>1. /\ n \in Nat /\ m \in Nat
      /\ \A k \in 1 .. n : s[k] \in Events
      /\ \A k \in 1 .. m : t[k] \in Events
  BY LenProperties, ElementOfSeq
<1>2. /\ p = [i \in 1 .. n |-> s[(n - i) + 1]]
      /\ q = [i \in 1 .. m |-> t[(m - i) + 1]]
  BY DEF Reverse
<1> HIDE DEF n, m, p, q
<1>3. /\ \A i \in 1 .. n : (n - i) + 1 \in 1 .. n
      /\ \A i \in 1 .. m : (m - i) + 1 \in 1 .. m
  BY <1>1
<1>4. /\ p \in Seq(Events) /\ Len(p) = n
      /\ q \in Seq(Events) /\ Len(q) = m
  BY <1>1, <1>2, <1>3
<1>5. ASSUME NEW i \in 1 .. n PROVE p[i] = q[i]
  <2>1. (n - i) + 1 \in 1 .. n
    BY <1>3
  <2>2. i \in 1 .. m /\ (m - n) + ((n - i) + 1) = (m - i) + 1
    BY <1>1 DEF n, m
  <2>3. t[(m - n) + ((n - i) + 1)] = s[(n - i) + 1]
    BY <2>1 DEF n, m
  <2> QED BY <1>2, <2>2, <2>3
<1>6. IsPrefix(p, q)
  BY <1>4, <1>5, PrefixOfSubSeq DEF n, m
<1> QED BY <1>6 DEF IsSuffix, p, q

LEMMA ExtendsMeaning ==
  ASSUME NEW r \in Roots, NEW s \in Seq(Events), Extends(r, s)
  PROVE  /\ r.version = Len(r.state)
         /\ Len(r.recorded) <= Len(r.state)
         /\ r.state = Base(r) \o r.recorded
         /\ IsPrefix(Base(r), s)
         /\ Base(r) \in Seq(Events) /\ Len(Base(r)) = Fresh(r)
         /\ r.recorded = <<>> => Base(r) = r.state
<1> DEFINE b == Base(r)
           n == Fresh(r)
<1>1. /\ r.state \in Seq(Events) /\ r.recorded \in Seq(Events)
      /\ Len(r.state) \in Nat /\ Len(r.recorded) \in Nat /\ Len(s) \in Nat
      /\ Len(r.recorded) <= Len(r.state) /\ r.version = Len(r.state)
      /\ n \in Nat /\ n <= Len(r.state) /\ n <= Len(s)
      /\ n + Len(r.recorded) = Len(r.state)
  <2>1. /\ r.state \in Seq(Events) /\ r.recorded \in Seq(Events)
        /\ Len(r.state) \in Nat /\ Len(r.recorded) \in Nat /\ Len(s) \in Nat
    BY RootTypes, LenProperties
  <2>2. /\ Len(r.recorded) <= Len(r.state) /\ r.version = Len(r.state)
        /\ n <= Len(s)
    BY DEF Extends
  <2>3. n = Len(r.state) - Len(r.recorded)
    BY DEF Fresh
  <2> HIDE DEF n
  <2>4. \A x, y \in Nat : y <= x =>
          x - y \in Nat /\ x - y <= x /\ (x - y) + y = x
    OBVIOUS
  <2>5. n \in Nat /\ n <= Len(r.state) /\ n + Len(r.recorded) = Len(r.state)
    BY <2>1, <2>2, <2>3, <2>4
  <2> QED BY <2>1, <2>2, <2>5
<1>2. \A k \in 1 .. n : r.state[k] \in Events
  BY <1>1, ElementOfSeq
<1>3. b \in Seq(Events) /\ Len(b) = n /\ \A k \in 1 .. n : b[k] = r.state[k]
  <2>1. b = SubSeq(r.state, 1, n)
    BY DEF Base, Fresh
  <2> HIDE DEF b, n
  <2>2. /\ SubSeq(r.state, 1, n) \in Seq(Events)
        /\ Len(SubSeq(r.state, 1, n)) = n
        /\ \A k \in 1 .. n : SubSeq(r.state, 1, n)[k] = r.state[k]
    BY <1>1, <1>2, SubSeqProperties
  <2> QED BY <2>1, <2>2
<1> HIDE DEF b
<1>4. IsPrefix(b, s)
  BY <1>1, <1>3, PrefixOfSubSeq DEF Extends
<1>5. b \o r.recorded = r.state
  <2> DEFINE t == b \o r.recorded
  <2>1. t \in Seq(Events) /\ Len(t) = Len(r.state)
    <3>1. t \in Seq(Events) /\ Len(t) = Len(b) + Len(r.recorded)
      BY <1>1, <1>3, ConcatProperties
    <3> QED BY <1>1, <1>3, <3>1
  <2>2. \A k \in 1 .. n + Len(r.recorded) :
          t[k] = IF k <= n THEN b[k] ELSE r.recorded[k - n]
    BY <1>1, <1>3, ConcatProperties
  <2> HIDE DEF t
  <2>3. ASSUME NEW k \in 1 .. Len(t) PROVE t[k] = r.state[k]
    <3>1. CASE k <= n
      BY <1>1, <1>3, <2>1, <2>2, <3>1
    <3>2. CASE ~ (k <= n)
      <4>1. k - n \in 1 .. Len(r.recorded) /\ n + (k - n) = k
        BY <1>1, <2>1, <3>2
      <4>2. r.state[n + (k - n)] = r.recorded[k - n]
        BY <4>1 DEF Extends
      <4>3. t[k] = r.recorded[k - n]
        BY <1>1, <2>1, <2>2, <3>2
      <4> QED BY <4>1, <4>2, <4>3
    <3> QED BY <3>1, <3>2
  <2>4. t = r.state
    BY <1>1, <2>1, <2>3, SeqEqual
  <2> QED BY <2>4 DEF t
<1>6. r.recorded = <<>> => b = r.state
  BY <1>3, <1>5, ConcatEmptySeq
<1> QED BY <1>1, <1>3, <1>4, <1>5, <1>6 DEF b

=============================================================================
