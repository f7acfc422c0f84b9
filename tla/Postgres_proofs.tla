---------------------------- MODULE Postgres_proofs ----------------------------
(***************************************************************************)
(* Proofs about package postgres, for any number of clients, streams and   *)
(* events: that PostgresStore implements the contract of event.Store,      *)
(* through every conflict, fault and lost answer, and what the repository  *)
(* that shares its transactions keeps, when clients let go of a root whose *)
(* Save has failed.                                                        *)
(***************************************************************************)
EXTENDS PostgresAggregateRepository, Aggregate_proofs, FiniteSetTheorems

(***************************************************************************)
(* The types without the bounds of the exploration: what has to be proved  *)
(* about a stream is that its rows are a sequence, not how many they are.  *)
(***************************************************************************)
AnyAppend ==
  [op : {"append"}, id : StreamIDs, expected : {CheckAny} \cup Nat,
   events : Seq(Events)]

AppendLabels == {"begin", "select", "upsert", "insert", "rollback"}

Labels == AppendLabels \cup {"idle", "query", "return"}

Types ==
  /\ streams \in [StreamIDs -> Nat]
  /\ rows \in [StreamIDs -> Seq(Events)]
  /\ holder \in [StreamIDs -> Clients \cup {NoOne}]
  /\ pc \in [Clients -> Labels]
  /\ call \in [Clients -> {NoCall} \cup AnyAppend \cup StreamCalls]
  /\ oldVersion \in [Clients -> Nat]
  /\ overwritten \in [Clients -> BOOLEAN]
  /\ inserted \in [Clients -> Nat]
  /\ reply \in [Clients -> Replies]

(***************************************************************************)
(* The version in event_streams is the number of rows in events.           *)
(***************************************************************************)
TablesAgree == \A id \in StreamIDs : Len(rows[id]) = streams[id]

(***************************************************************************)
(* Which call a client is in, and when its answer is known.                *)
(***************************************************************************)
CallOf(c) ==
  /\ pc[c] = "idle" => call[c] = NoCall
  /\ pc[c] \in AppendLabels => call[c] \in AnyAppend
  /\ pc[c] = "query" => call[c] \in StreamCalls
  /\ pc[c] = "return" => call[c] # NoCall
  /\ reply[c] # Pending <=> pc[c] \in {"rollback", "return"}

(***************************************************************************)
(* Who holds a row is past its upsert, and the other way round.            *)
(***************************************************************************)
HoldsRow(c) ==
  /\ \A id \in StreamIDs :
       holder[id] = c => pc[c] \in {"insert", "rollback"} /\ call[c].id = id
  /\ pc[c] = "insert" => holder[call[c].id] = c

(***************************************************************************)
(* What the SELECT has read: the check was made on it, and as long as the  *)
(* snapshot is not out of date it is the version of the stream.  It cannot *)
(* get out of date once the row is held.                                   *)
(***************************************************************************)
SnapshotOf(c) ==
  /\ pc[c] \in {"upsert", "insert"} =>
       ~ VersionConflicts(call[c].expected, oldVersion[c])
  /\ pc[c] = "upsert" /\ ~ overwritten[c] =>
       oldVersion[c] = streams[call[c].id]
  /\ pc[c] = "insert" => oldVersion[c] = streams[call[c].id]

StoreInv ==
  /\ Types
  /\ TablesAgree
  /\ \A c \in Clients : CallOf(c) /\ HoldsRow(c) /\ SnapshotOf(c)

-----------------------------------------------------------------------------

LEMMA BatchesAreSequences == Batches \subseteq Seq(Events)
  BY BoundsAssumption DEF Batches

LEMMA AppendTypes ==
  ASSUME NEW r \in AnyAppend
  PROVE  /\ r.op = "append" /\ r # NoCall /\ r \notin StreamCalls
         /\ r.id \in StreamIDs /\ r.expected \in {CheckAny} \cup Nat
         /\ r.events \in Seq(Events) /\ Len(r.events) \in Nat
  BY LenProperties DEF AnyAppend, StreamCalls, NoCall

LEMMA StreamTypes ==
  ASSUME NEW r \in StreamCalls
  PROVE  /\ r.op = "stream" /\ r # NoCall
         /\ r.id \in StreamIDs /\ r.from \in Nat
         /\ First(r.from) \in Nat \ {0}
  BY BoundsAssumption DEF StreamCalls, NoCall, First

LEMMA RequestsAreAppends == AppendCalls \subseteq AnyAppend
  BY BatchesAreSequences, BoundsAssumption DEF AppendCalls, AnyAppend

LEMMA InitStoreInv == Init => StoreInv
  BY PostgresAssumption, EmptySeq
     DEF Init, StoreInv, Types, TablesAgree, CallOf, HoldsRow, SnapshotOf,
         AppendLabels, Labels, Replies, Pending

(***************************************************************************)
(* What a COMMIT writes: the batch after the rows that are there.          *)
(***************************************************************************)
LEMMA WritesExtend ==
  ASSUME StoreInv, NEW c \in Clients, pc[c] = "insert", Writes(c)
  PROVE  LET id == call[c].id
         IN  /\ call[c] \in AnyAppend
             /\ rows' = [rows EXCEPT ![id] = rows[id] \o call[c].events]
             /\ streams' = [streams EXCEPT ![id] =
                              Len(rows[id]) + Len(call[c].events)]
             /\ oldVersion[c] = Len(rows[id])
             /\ newVersion(c) = Len(rows[id]) + Len(call[c].events)
<1> DEFINE id == call[c].id
           s == rows[id]
           batch == call[c].events
           n == Len(s)
           m == Len(batch)
           new == {EventVersion(c, i) : i \in 0 .. Len(batch) - 1}
           written == [v \in DOMAIN s \cup new |->
              IF v \in new THEN batch[v - EventVersion(c, 0) + 1] ELSE s[v]]
<1>1. /\ call[c] \in AnyAppend /\ id \in StreamIDs
      /\ batch \in Seq(Events) /\ m \in Nat
  BY AppendTypes DEF StoreInv, CallOf, AppendLabels
<1>2. /\ s \in Seq(Events) /\ n \in Nat
      /\ oldVersion[c] = n /\ newVersion(c) = n + m
  BY <1>1, LenProperties
     DEF StoreInv, Types, TablesAgree, SnapshotOf, newVersion
<1> HIDE DEF s, batch, n, m
<1>3. new = (n + 1) .. (n + m) /\ EventVersion(c, 0) = n + 1
  <2>1. new = {n + i + 1 : i \in 0 .. m - 1}
    BY <1>2 DEF EventVersion, m
  <2> HIDE DEF new
  <2>2. ASSUME NEW v \in (n + 1) .. (n + m) PROVE v \in new
    <3>1. v - n - 1 \in 0 .. m - 1 /\ n + (v - n - 1) + 1 = v
      BY <1>1, <1>2
    <3> QED BY <2>1, <3>1
  <2>3. ASSUME NEW v \in new PROVE v \in (n + 1) .. (n + m)
    <3>1. PICK i \in 0 .. m - 1 : v = n + i + 1
      BY <2>1
    <3> QED BY <1>1, <1>2, <3>1
  <2>4. EventVersion(c, 0) = n + 1
    BY <1>2 DEF EventVersion
  <2> QED BY <2>2, <2>3, <2>4
<1>4. DOMAIN s = 1 .. n
  BY <1>2 DEF n
<1>5. written = s \o batch
  <2> DEFINE t == s \o batch
  <2>1. /\ t \in Seq(Events) /\ Len(t) = n + m
        /\ \A k \in 1 .. n + m :
             t[k] = IF k <= n THEN s[k] ELSE batch[k - n]
    BY <1>1, <1>2, ConcatProperties DEF n, m
  <2> HIDE DEF t, new
  <2>2. t = [k \in 1 .. n + m |-> t[k]]
    BY <2>1
  <2>3. DOMAIN s \cup new = 1 .. n + m
    BY <1>1, <1>2, <1>3, <1>4
  <2>4. ASSUME NEW v \in 1 .. n + m
        PROVE  t[v] = IF v \in new THEN batch[v - (n + 1) + 1] ELSE s[v]
    <3>1. v \in new <=> ~ (v <= n)
      BY <1>1, <1>2, <1>3
    <3>2. v - (n + 1) + 1 = v - n
      BY <1>2
    <3> QED BY <2>1, <3>1, <3>2
  <2>5. written = [v \in 1 .. n + m |->
                     IF v \in new THEN batch[v - (n + 1) + 1] ELSE s[v]]
    BY <1>3, <2>3
  <2>6. written = t
    BY <2>2, <2>4, <2>5
  <2> QED BY <2>6 DEF t
<1>6. rows' = [rows EXCEPT ![id] = written]
  BY DEF Writes, s, batch
<1> HIDE DEF written
<1>7. streams' = [streams EXCEPT ![id] = n + m]
  BY <1>2 DEF Writes
<1> QED BY <1>1, <1>2, <1>5, <1>6, <1>7 DEF s, batch, n, m

-----------------------------------------------------------------------------

(***************************************************************************)
(* The invariant is preserved, action by action.                           *)
(***************************************************************************)
LEMMA StartTransactionStep ==
  ASSUME StoreInv, NEW c \in Clients, NEW request \in AnyAppend,
         StartTransaction(c, request)
  PROVE  StoreInv'
  BY PostgresAssumption
     DEF StartTransaction, StoreInv, Types, TablesAgree, CallOf, HoldsRow,
         SnapshotOf, Goto, tables, AppendLabels, Labels

LEMMA CallStreamStep ==
  ASSUME StoreInv, NEW c \in Clients, NEW request \in StreamCalls,
         CallStream(c, request)
  PROVE  StoreInv'
<1>1. request # NoCall
  BY StreamTypes
<1> QED BY <1>1, PostgresAssumption
        DEF CallStream, StoreInv, Types, TablesAgree, CallOf, HoldsRow,
            SnapshotOf, Goto, tables, AppendLabels, Labels

LEMMA BeginTxStep ==
  ASSUME StoreInv, NEW c \in Clients, BeginTx(c)
  PROVE  StoreInv'
  BY PostgresAssumption
     DEF BeginTx, StoreInv, Types, TablesAgree, CallOf, HoldsRow, SnapshotOf,
         Goto, tables, AppendLabels, Labels

LEMMA BeginFailsStep ==
  ASSUME StoreInv, NEW c \in Clients, BeginFails(c)
  PROVE  StoreInv'
  BY PostgresAssumption, AppendTypes
     DEF BeginFails, StoreInv, Types, TablesAgree, CallOf, HoldsRow,
         SnapshotOf, Goto, Answer, tables, AppendLabels, Labels, Replies,
         Failed, Pending

LEMMA SelectStreamStep ==
  ASSUME StoreInv, NEW c \in Clients, SelectStream(c)
  PROVE  StoreInv'
<1> DEFINE old == streams[call[c].id]
<1>1. call[c] \in AnyAppend /\ old \in Nat
  BY AppendTypes DEF SelectStream, StoreInv, Types, CallOf, AppendLabels
<1>2. CASE VersionConflicts(call[c].expected, old)
  <2>1. call[c].expected \in Nat
    BY <1>1, <1>2, AppendTypes DEF VersionConflicts
  <2>2. /\ Conflict(call[c].expected, old) \in Replies
        /\ Conflict(call[c].expected, old) # Pending
    BY <1>1, <2>1 DEF Conflict, Replies, Pending
  <2>3. /\ pc[c] = "select"
        /\ pc' = [pc EXCEPT ![c] = "rollback"]
        /\ reply' = [reply EXCEPT ![c] = Conflict(call[c].expected, old)]
        /\ oldVersion' = [oldVersion EXCEPT ![c] = old]
        /\ overwritten' = [overwritten EXCEPT ![c] = FALSE]
        /\ UNCHANGED <<streams, rows, holder, call, inserted>>
    BY <1>2 DEF SelectStream, Goto, Answer, tables
  <2> QED BY <1>1, <2>2, <2>3, PostgresAssumption
          DEF StoreInv, Types, TablesAgree, CallOf, HoldsRow, SnapshotOf,
              AppendLabels, Labels
<1>3. CASE ~ VersionConflicts(call[c].expected, old)
  <2>1. /\ pc[c] = "select"
        /\ pc' = [pc EXCEPT ![c] = "upsert"]
        /\ oldVersion' = [oldVersion EXCEPT ![c] = old]
        /\ overwritten' = [overwritten EXCEPT ![c] = FALSE]
        /\ UNCHANGED <<streams, rows, holder, call, inserted, reply>>
    BY <1>3 DEF SelectStream, Goto, tables
  <2> QED BY <1>1, <1>3, <2>1, PostgresAssumption
          DEF StoreInv, Types, TablesAgree, CallOf, HoldsRow, SnapshotOf,
              AppendLabels, Labels
<1> QED BY <1>2, <1>3

LEMMA UpsertStreamStep ==
  ASSUME StoreInv, NEW c \in Clients, UpsertStream(c)
  PROVE  StoreInv'
  BY PostgresAssumption, AppendTypes
     DEF UpsertStream, RowIsStale, StoreInv, Types, TablesAgree, CallOf,
         HoldsRow, SnapshotOf, Goto, tables, AppendLabels, Labels

LEMMA InsertEventStep ==
  ASSUME StoreInv, NEW c \in Clients, InsertEvent(c)
  PROVE  StoreInv'
  BY PostgresAssumption
     DEF InsertEvent, StoreInv, Types, TablesAgree, CallOf, HoldsRow,
         SnapshotOf, tables

(***************************************************************************)
(* A statement that fails, for whatever reason.                            *)
(***************************************************************************)
LEMMA GiveUpStep ==
  ASSUME StoreInv, NEW c \in Clients, pc[c] \in {"select", "upsert", "insert"},
         Answer(c, Failed), Goto(c, "rollback"),
         UNCHANGED <<tables, holder, call, oldVersion, overwritten, inserted>>
  PROVE  StoreInv'
  BY PostgresAssumption
     DEF StoreInv, Types, TablesAgree, CallOf, HoldsRow, SnapshotOf, Goto,
         Answer, tables, AppendLabels, Labels, Replies, Failed, Pending

LEMMA CommitStep ==
  ASSUME StoreInv, NEW c \in Clients, Commit(c), Goto(c, "return"),
         NEW r \in Replies, r # Pending, Answer(c, r)
  PROVE  StoreInv'
<1> DEFINE id == call[c].id
           n == Len(rows[id]) + Len(call[c].events)
<1>1. pc[c] = "insert" /\ Writes(c)
  BY DEF Commit
<1>2. /\ call[c] \in AnyAppend
      /\ rows' = [rows EXCEPT ![id] = rows[id] \o call[c].events]
      /\ streams' = [streams EXCEPT ![id] = n]
  BY <1>1, WritesExtend
<1>3. /\ id \in StreamIDs /\ call[c] # NoCall
      /\ n \in Nat /\ rows[id] \o call[c].events \in Seq(Events)
      /\ Len(rows[id] \o call[c].events) = n
  <2>1. /\ id \in StreamIDs /\ call[c] # NoCall
        /\ call[c].events \in Seq(Events)
    BY <1>2, AppendTypes
  <2>2. rows[id] \in Seq(Events)
    BY <2>1 DEF StoreInv, Types
  <2> HIDE DEF id
  <2>3. Len(rows[id]) \in Nat /\ Len(call[c].events) \in Nat
    BY <2>1, <2>2, LenProperties
  <2>4. /\ rows[id] \o call[c].events \in Seq(Events)
        /\ Len(rows[id] \o call[c].events) = n
    BY <2>1, <2>2, ConcatProperties
  <2>5. n \in Nat
    <3>1. \A x, y \in Nat : x + y \in Nat
      OBVIOUS
    <3> QED BY <2>3, <3>1
  <2> HIDE DEF n
  <2> QED BY <2>1, <2>4, <2>5 DEF id
<1> HIDE DEF n
<1>4. Types'
  BY <1>2, <1>3, PostgresAssumption
     DEF StoreInv, Types, Commit, Writes, ReleaseRow, Goto, Answer, Labels
<1>5. TablesAgree'
  BY <1>2, <1>3 DEF StoreInv, Types, TablesAgree
<1>6. ASSUME NEW d \in Clients PROVE (CallOf(d) /\ HoldsRow(d))'
  <2>1. /\ call' = call
        /\ holder' = [i \in StreamIDs |->
                        IF holder[i] = c THEN NoOne ELSE holder[i]]
    BY DEF Commit, ReleaseRow
  <2>2. CASE d = c
    <3>1. pc'[c] = "return" /\ reply'[c] = r
      BY DEF Goto, Answer, StoreInv, Types
    <3> QED BY <1>3, <2>1, <2>2, <3>1, PostgresAssumption
            DEF CallOf, HoldsRow, AppendLabels
  <2>3. CASE d # c
    <3>1. pc'[d] = pc[d] /\ reply'[d] = reply[d]
      BY <2>3 DEF Goto, Answer, StoreInv, Types
    <3>2. pc[d] = "insert" => call[d].id \in StreamIDs
      BY AppendTypes DEF StoreInv, CallOf, AppendLabels
    <3> QED BY <2>1, <2>3, <3>1, <3>2, PostgresAssumption
            DEF StoreInv, CallOf, HoldsRow
  <2> QED BY <2>2, <2>3
<1>7. ASSUME NEW d \in Clients PROVE SnapshotOf(d)'
  <2>1. CASE d = c
    BY <2>1 DEF StoreInv, Types, SnapshotOf, Goto
  <2>2. CASE d # c /\ pc[d] \in {"upsert", "insert"}
    <3>1. call[d] \in AnyAppend /\ call[d].id \in StreamIDs
      BY <2>2, AppendTypes DEF StoreInv, CallOf, AppendLabels
    <3>2. /\ pc'[d] = pc[d] /\ call' = call /\ oldVersion' = oldVersion
          /\ overwritten'[d] = (overwritten[d]
                               \/ (pc[d] = "upsert" /\ call[d].id = id))
      BY <2>2 DEF Commit, Writes, Goto, StoreInv, Types
    <3>3. pc[d] = "insert" => call[d].id # id
      BY <1>1, <2>2 DEF StoreInv, HoldsRow
    <3>4. call[d].id # id => streams'[call[d].id] = streams[call[d].id]
      BY <1>2, <3>1 DEF StoreInv, Types
    <3> QED BY <2>2, <3>2, <3>3, <3>4 DEF StoreInv, SnapshotOf
  <2>3. CASE d # c /\ pc[d] \notin {"upsert", "insert"}
    BY <2>3 DEF StoreInv, Types, SnapshotOf, Goto
  <2> QED BY <2>1, <2>2, <2>3
<1> QED BY <1>4, <1>5, <1>6, <1>7 DEF StoreInv

LEMMA RollbackStep ==
  ASSUME StoreInv, NEW c \in Clients, Rollback(c)
  PROVE  StoreInv'
  BY PostgresAssumption, AppendTypes
     DEF Rollback, ReleaseRow, StoreInv, Types, TablesAgree, CallOf, HoldsRow,
         SnapshotOf, Goto, tables, AppendLabels, Labels

LEMMA ReturnStep ==
  ASSUME StoreInv, NEW c \in Clients, Return(c)
  PROVE  StoreInv'
  BY PostgresAssumption
     DEF Return, StoreInv, Types, TablesAgree, CallOf, HoldsRow,
         SnapshotOf, Goto, Answer, tables, AppendLabels, Labels, Replies

(***************************************************************************)
(* An ORDER BY of consecutive versions gives each its place.               *)
(***************************************************************************)
LEMMA OrderedInterval ==
  ASSUME NEW a \in Nat, NEW b \in Nat
  PROVE  OrderedByVersion(a .. b) = [k \in 1 .. (b + 1 - a) |-> a + k - 1]
<1> DEFINE S == a .. b
           n == Cardinality(S)
<1>1. 1 .. n = 1 .. (b + 1 - a)
  <2>1. n = IF a > b THEN 0 ELSE b - a + 1
    BY FS_Interval
  <2> HIDE DEF n
  <2> QED BY <2>1
<1>2. ASSUME NEW v \in S PROVE Cardinality({w \in S : w <= v}) = v + 1 - a
  <2>1. {w \in S : w <= v} = a .. v
    OBVIOUS
  <2>2. v \in Int /\ ~ (a > v)
    OBVIOUS
  <2>3. Cardinality(a .. v) = v - a + 1
    BY <2>2, FS_Interval
  <2>4. v - a + 1 = v + 1 - a
    BY <2>2
  <2> QED BY <2>1, <2>3, <2>4
<1>3. ASSUME NEW k \in 1 .. n
      PROVE  (CHOOSE v \in S : Cardinality({w \in S : w <= v}) = k) = a + k - 1
  <2>1. a + k - 1 \in S
    <3>1. k \in 1 .. (b + 1 - a)
      BY <1>1
    <3> HIDE DEF n
    <3> QED BY <3>1
  <2>2. Cardinality({w \in S : w <= a + k - 1}) = k
    <3>1. Cardinality({w \in S : w <= a + k - 1}) = (a + k - 1) + 1 - a
      BY <1>2, <2>1
    <3> QED BY <3>1, <1>1
  <2>3. ASSUME NEW v \in S, Cardinality({w \in S : w <= v}) = k
        PROVE  v = a + k - 1
    <3>1. v + 1 - a = k
      BY <1>2, <2>3
    <3> QED BY <3>1
  <2> HIDE DEF S
  <2> QED BY <2>1, <2>2, <2>3
<1> HIDE DEF S, n
<1>4. OrderedByVersion(S) =
        [k \in 1 .. n |->
           CHOOSE v \in S : Cardinality({w \in S : w <= v}) = k]
  BY DEF OrderedByVersion, n
<1>5. OrderedByVersion(S) = [k \in 1 .. n |-> a + k - 1]
  BY <1>3, <1>4
<1> QED BY <1>1, <1>5 DEF S

(***************************************************************************)
(* The query returns what the selector selects, in order.                  *)
(***************************************************************************)
LEMMA QueriedIsSelected ==
  ASSUME NEW id \in StreamIDs, rows[id] \in Seq(Events), NEW from \in Nat
  PROVE  QueriedRows(id, from) = Selected(rows[id], from)
<1> DEFINE s == rows[id]
           a == First(from)
           n == Len(s)
           ordered == [k \in 1 .. (n + 1 - a) |-> a + k - 1]
<1>1. a \in Nat /\ n \in Nat /\ DOMAIN s = 1 .. n
  BY LenProperties DEF First
<1>2. {v \in DOMAIN s : v >= from} = a .. n
  BY <1>1 DEF First
<1> HIDE DEF s, a, n
<1>3. OrderedByVersion(a .. n) = ordered
  BY <1>1, OrderedInterval
<1>4. QueriedRows(id, from) = Rows(id, ordered)
  BY <1>2, <1>3 DEF QueriedRows, s
<1>5. Rows(id, ordered) =
        [k \in 1 .. (n + 1 - a) |->
           [version |-> a + k - 1, event |-> s[a + k - 1]]]
  BY DEF Rows, s
<1> QED BY <1>4, <1>5 DEF Selected, s, a, n

LEMMA SelectedIsPersisted ==
  ASSUME NEW stream \in Seq(Events), NEW from \in Nat
  PROVE  LET selected == Selected(stream, from)
         IN  /\ selected \in Seq(Persisted)
             /\ \A n \in 0 .. Len(selected) :
                  SubSeq(selected, 1, n) \in Seq(Persisted)
<1> DEFINE first == First(from)
           n == IF first <= Len(stream) THEN Len(stream) + 1 - first ELSE 0
           selected == Selected(stream, from)
           entry(k) == [version |-> first + k - 1,
                        event |-> stream[first + k - 1]]
<1>1. first \in Nat \ {0} /\ Len(stream) \in Nat /\ n \in Nat
  BY DEF First
<1>2. 1 .. (Len(stream) + 1 - first) = 1 .. n
  BY <1>1
<1>3. selected = [k \in 1 .. n |-> entry(k)]
  BY <1>2 DEF Selected
<1>4. \A k \in 1 .. n : entry(k) \in Persisted
  <2> TAKE k \in 1 .. n
  <2>1. first + k - 1 \in 1 .. Len(stream)
    BY <1>1
  <2>2. stream[first + k - 1] \in Events
    BY <2>1, ElementOfSeq
  <2> QED BY <2>1, <2>2 DEF Persisted
<1> HIDE DEF n, entry, selected
<1>5. selected \in Seq(Persisted)
  BY <1>1, <1>3, <1>4
<1>6. ASSUME NEW m \in 0 .. Len(selected)
      PROVE  SubSeq(selected, 1, m) \in Seq(Persisted)
  <2>1. m \in Int /\ 1 \in Int /\ Len(selected) \in Nat
    BY <1>5, LenProperties
  <2>2. \A k \in 1 .. m : selected[k] \in Persisted
    BY <1>5, <2>1, ElementOfSeq
  <2> QED BY <2>1, <2>2, SubSeqProperties
<1> QED BY <1>5, <1>6 DEF selected

LEMMA QueryEventsStep ==
  ASSUME StoreInv, NEW c \in Clients, QueryEvents(c)
  PROVE  StoreInv'
<1> DEFINE selected == QueriedRows(call[c].id, call[c].from)
<1>1. call[c] \in StreamCalls /\ call[c] # NoCall
  BY StreamTypes DEF QueryEvents, StoreInv, CallOf
<1>2. /\ call[c].id \in StreamIDs /\ call[c].from \in Nat
      /\ rows[call[c].id] \in Seq(Events)
  BY <1>1, StreamTypes DEF StoreInv, Types
<1>3. \A n \in 0 .. Len(selected) : SubSeq(selected, 1, n) \in Seq(Persisted)
  BY <1>2, QueriedIsSelected, SelectedIsPersisted
<1>4. PICK n \in 0 .. Len(selected), end \in Ends :
        Answer(c, Streamed(SubSeq(selected, 1, n), end))
  BY DEF QueryEvents
<1> HIDE DEF selected
<1> DEFINE r == Streamed(SubSeq(selected, 1, n), end)
<1>5. r \in Replies /\ r # Pending
  BY <1>3 DEF Streamed, Replies, Pending
<1>6. reply' = [reply EXCEPT ![c] = r]
  BY <1>4 DEF Answer
<1> HIDE DEF r
<1>7. /\ pc[c] = "query" /\ pc' = [pc EXCEPT ![c] = "return"]
      /\ UNCHANGED <<streams, rows, holder, call, oldVersion, overwritten,
                      inserted>>
  BY DEF QueryEvents, Goto, tables
<1> QED BY <1>1, <1>5, <1>6, <1>7, PostgresAssumption
        DEF StoreInv, Types, TablesAgree, CallOf, HoldsRow, SnapshotOf,
            AppendLabels, Labels

LEMMA StepStoreInv ==
  ASSUME StoreInv, NEW c \in Clients, Step(c)
  PROVE  StoreInv'
<1>1. CASE UpsertFails(c) \/ StatementFails(c)
  BY <1>1, GiveUpStep DEF UpsertFails, StatementFails, Inserting
<1>2. CASE CommitSucceeds(c)
  <2>1. Commit(c) /\ Goto(c, "return") /\ Answer(c, Appended(newVersion(c)))
    BY <1>2 DEF CommitSucceeds
  <2>2. newVersion(c) \in Nat
    <3>1. call[c] \in AnyAppend
      BY <2>1 DEF Commit, StoreInv, CallOf, AppendLabels
    <3>2. Len(call[c].events) \in Nat
      BY <3>1, AppendTypes
    <3> QED BY <3>2 DEF newVersion, StoreInv, Types
  <2>3. /\ Appended(newVersion(c)) \in Replies
        /\ Appended(newVersion(c)) # Pending
    BY <2>2 DEF Appended, Replies, Pending
  <2> QED BY <2>1, <2>3, CommitStep
<1>3. CASE CommitAnswerLost(c)
  <2>1. Failed \in Replies /\ Failed # Pending
    BY DEF Failed, Replies, Pending
  <2> QED BY <1>3, <2>1, CommitStep DEF CommitAnswerLost
<1> QED
  BY <1>1, <1>2, <1>3, BeginTxStep, BeginFailsStep, SelectStreamStep,
     UpsertStreamStep, InsertEventStep, RollbackStep, ReturnStep,
     QueryEventsStep
     DEF Step, Healthy, RowTurn, Fault

LEMMA NextStoreInv == StoreInv /\ [Next]_storeVars => StoreInv'
<1> SUFFICES ASSUME StoreInv, [Next]_storeVars PROVE StoreInv'
  OBVIOUS
<1>1. ASSUME NEW c \in Clients, Start(c) PROVE StoreInv'
  BY <1>1, StartTransactionStep, CallStreamStep, RequestsAreAppends
     DEF Start, CallAppend
<1>2. CASE UNCHANGED storeVars
  BY <1>2 DEF storeVars, tables, txVars, StoreInv, Types, TablesAgree, CallOf,
              HoldsRow, SnapshotOf
<1> QED BY <1>1, <1>2, StepStoreInv DEF Next

LEMMA AlwaysStoreInv == Spec => []StoreInv
  BY InitStoreInv, NextStoreInv, PTL DEF Spec

(***************************************************************************)
(* At every instant the version in event_streams is the number of rows in  *)
(* events, and these have no gaps: no interleaving of transactions, and no *)
(* fault, leaves one table ahead of the other.                             *)
(***************************************************************************)
THEOREM TablesInStep == Spec => []StreamsCountEvents
<1>1. StoreInv => StreamsCountEvents
  <2> SUFFICES ASSUME StoreInv, NEW id \in StreamIDs
               PROVE  DOMAIN rows[id] = 1 .. streams[id]
    BY DEF StreamsCountEvents
  <2>1. rows[id] \in Seq(Events) /\ Len(rows[id]) = streams[id]
    BY DEF StoreInv, Types, TablesAgree
  <2> QED BY <2>1
<1> QED BY AlwaysStoreInv, <1>1, PTL

-----------------------------------------------------------------------------

(***************************************************************************)
(* The contract's instance speaks of the same calls and answers.           *)
(***************************************************************************)
LEMMA SameVocabulary ==
  /\ Contract!NoCall = NoCall
  /\ Contract!Pending = Pending
  /\ Contract!Failed = Failed
  /\ Contract!Ends = Ends
  /\ Contract!AppendCalls = AppendCalls
  /\ Contract!StreamCalls = StreamCalls
  /\ \A v : Contract!Appended(v) = Appended(v)
  /\ \A e, v : Contract!Conflict(e, v) = Conflict(e, v)
  /\ \A es, end : Contract!Streamed(es, end) = Streamed(es, end)
  /\ \A e, v : Contract!Accepts(e, v) <=> ~ VersionConflicts(e, v)
  /\ \A stream, from :
       Contract!Selected(stream, from) = Selected(stream, from)
  BY DEF Contract!NoCall, NoCall, Contract!Pending, Pending, Contract!Failed,
         Failed, Contract!Ends, Ends, Contract!AppendCalls, AppendCalls,
         Contract!StreamCalls, StreamCalls, Contract!Batches, Batches,
         Contract!CheckAny, CheckAny, Contract!Accepts, VersionConflicts,
         Contract!Appended, Appended, Contract!Conflict, Conflict,
         Contract!Streamed, Streamed, Contract!Selected, Selected,
         Contract!First, First

(***************************************************************************)
(* Every step of the store is a step of the contract or leaves the         *)
(* contract's variables alone.                                             *)
(***************************************************************************)
LEMMA StepRefines ==
  StoreInv /\ [Next]_storeVars => [Contract!Next]_Contract!vars
<1> SUFFICES ASSUME StoreInv, [Next]_storeVars
             PROVE  Contract!Next \/ UNCHANGED <<rows, call, reply>>
  BY DEF Contract!vars
<1> DEFINE Idle == UNCHANGED <<rows, call, reply>>
<1>1. ASSUME NEW c \in Clients, Start(c) PROVE Contract!Invoke(c)
  <2>1. PICK request \in AppendCalls \cup StreamCalls :
          /\ pc[c] = "idle"
          /\ call' = [call EXCEPT ![c] = request]
          /\ UNCHANGED <<rows, reply>>
    BY <1>1 DEF Start, CallAppend, StartTransaction, CallStream, tables
  <2>2. call[c] = NoCall
    BY <2>1 DEF StoreInv, CallOf
  <2> QED BY <2>1, <2>2, SameVocabulary DEF Contract!Invoke, Contract!Request
<1>2. ASSUME NEW c \in Clients, pc[c] \in AppendLabels \ {"rollback"}
      PROVE  call[c].op = "append" /\ reply[c] = Pending
  BY <1>2, AppendTypes DEF StoreInv, CallOf, AppendLabels
<1>3. ASSUME NEW c \in Clients, SelectStream(c)
      PROVE  Contract!PerformAppend(c) \/ Idle
  <2>1. CASE VersionConflicts(call[c].expected, streams[call[c].id])
    <3>1. call[c].op = "append" /\ reply[c] = Pending /\ call[c] \in AnyAppend
      BY <1>2, <1>3 DEF SelectStream, StoreInv, CallOf, AppendLabels
    <3>2. streams[call[c].id] = Len(rows[call[c].id])
      BY <3>1, AppendTypes DEF StoreInv, TablesAgree
    <3> QED BY <1>3, <2>1, <3>1, <3>2, SameVocabulary
            DEF SelectStream, Answer, tables, Contract!PerformAppend
  <2>2. CASE ~ VersionConflicts(call[c].expected, streams[call[c].id])
    BY <1>3, <2>2 DEF SelectStream, tables
  <2> QED BY <2>1, <2>2
<1>4. ASSUME NEW c \in Clients,
             BeginFails(c) \/ UpsertFails(c) \/ StatementFails(c)
      PROVE  Contract!FailAppend(c)
  <2>1. /\ pc[c] \in AppendLabels \ {"rollback"}
        /\ Answer(c, Failed) /\ UNCHANGED <<rows, call>>
    BY <1>4 DEF BeginFails, UpsertFails, StatementFails, Inserting, tables,
                AppendLabels
  <2> QED BY <1>2, <2>1, SameVocabulary DEF Answer, Contract!FailAppend
<1>5. ASSUME NEW c \in Clients, Commit(c)
      PROVE  /\ call[c].op = "append" /\ reply[c] = Pending
             /\ Contract!Accepts(call[c].expected, Len(rows[call[c].id]))
             /\ Contract!Extended(c) /\ UNCHANGED call
             /\ newVersion(c) = Len(rows[call[c].id]) + Len(call[c].events)
  <2>1. pc[c] = "insert" /\ Writes(c) /\ UNCHANGED call
    BY <1>5 DEF Commit
  <2>2. /\ rows' = [rows EXCEPT ![call[c].id] =
                      rows[call[c].id] \o call[c].events]
        /\ oldVersion[c] = Len(rows[call[c].id])
        /\ newVersion(c) = Len(rows[call[c].id]) + Len(call[c].events)
    BY <2>1, WritesExtend
  <2>3. ~ VersionConflicts(call[c].expected, Len(rows[call[c].id]))
    BY <2>1, <2>2 DEF StoreInv, SnapshotOf
  <2> QED BY <1>2, <2>1, <2>2, <2>3, SameVocabulary
          DEF Contract!Extended, AppendLabels
<1>6. ASSUME NEW c \in Clients, CommitSucceeds(c)
      PROVE  Contract!PerformAppend(c)
  BY <1>5, <1>6, SameVocabulary
     DEF CommitSucceeds, Answer, Contract!PerformAppend
<1>7. ASSUME NEW c \in Clients, CommitAnswerLost(c)
      PROVE  Contract!FailAppend(c)
  BY <1>5, <1>7, SameVocabulary
     DEF CommitAnswerLost, Answer, Contract!FailAppend
<1>8. ASSUME NEW c \in Clients, QueryEvents(c)
      PROVE  Contract!PerformStream(c)
  <2> DEFINE selected == Selected(rows[call[c].id], call[c].from)
  <2>1. call[c] \in StreamCalls /\ reply[c] = Pending
    BY <1>8 DEF QueryEvents, StoreInv, CallOf
  <2>2. /\ call[c].op = "stream" /\ call[c].id \in StreamIDs
        /\ call[c].from \in Nat /\ rows[call[c].id] \in Seq(Events)
    BY <2>1, StreamTypes DEF StoreInv, Types
  <2>3. QueriedRows(call[c].id, call[c].from) = selected
    BY <2>2, QueriedIsSelected
  <2>4. /\ UNCHANGED <<rows, call>>
        /\ \E n \in 0 .. Len(selected), end \in Ends :
             /\ end = "complete" => n = Len(selected)
             /\ reply' = [reply EXCEPT ![c] =
                            Streamed(SubSeq(selected, 1, n), end)]
    BY <1>8, <2>3 DEF QueryEvents, Answer, tables
  <2> QED BY <2>1, <2>2, <2>4, SameVocabulary DEF Contract!PerformStream
<1>9. ASSUME NEW c \in Clients, Return(c) PROVE Contract!Return(c)
  BY <1>9, SameVocabulary
     DEF Return, Answer, tables, Contract!Return, StoreInv, CallOf
<1>10. ASSUME NEW c \in Clients,
              \/ BeginTx(c) \/ UpsertStream(c) \/ InsertEvent(c)
              \/ Rollback(c)
       PROVE  Idle
  BY <1>10 DEF BeginTx, UpsertStream, InsertEvent, Rollback, tables
<1>11. CASE UNCHANGED storeVars
  BY <1>11 DEF storeVars, tables, txVars
<1> HIDE DEF Idle
<1>12. ASSUME NEW c \in Clients, Start(c) \/ Step(c)
       PROVE  Contract!Next \/ Idle
  BY <1>1, <1>3, <1>4, <1>6, <1>7, <1>8, <1>9, <1>10, <1>12
     DEF Step, Healthy, RowTurn, Fault, Contract!Next
<1> QED BY <1>11, <1>12 DEF Next, Idle

(***************************************************************************)
(* The Postgres store implements the contract of event.Store: an Append    *)
(* takes effect at its COMMIT as a whole or not at all, against a version  *)
(* its check accepts at that instant, also when the answer to the COMMIT   *)
(* is lost; a conflict it reports is one; a Stream reads one state.        *)
(***************************************************************************)
THEOREM Implementation == Spec => ImplementsEventStore
<1>1. Init => Contract!Init
  BY SameVocabulary DEF Init, Contract!Init
<1> QED BY AlwaysStoreInv, StepRefines, <1>1, PTL
        DEF Spec, ImplementsEventStore, Contract!Spec

-----------------------------------------------------------------------------
(***************************************************************************)
(* The repository.  The invariant of the transactions is the one above.    *)
(***************************************************************************)
RepositoryTypes ==
  /\ aggregates \in [StreamIDs -> [version : Nat, state : Seq(Events)]]
  /\ root \in [Clients -> Roots \cup {NoRoot}]
  /\ failed \in [Clients -> BOOLEAN]
  /\ stateSaved \in [Clients -> BOOLEAN]
  /\ bypassed \in [StreamIDs -> BOOLEAN]

(***************************************************************************)
(* SnapshotMatchesEvents, entry by entry.                                  *)
(***************************************************************************)
RowOf(id) ==
  LET row == aggregates[id]
  IN  /\ row.version = Len(row.state)
      /\ Len(row.state) <= Len(rows[id])
      /\ \A v \in 1 .. Len(row.state) : rows[id][v] = row.state[v]
      /\ ~ bypassed[id] => row.version = streams[id]

(***************************************************************************)
(* The root that c holds, with the events that a Save under way has        *)
(* flushed.  It extends the snapshot, which is more than to extend the     *)
(* events: nobody has ever got hold of an event that bypassed the          *)
(* repository.                                                             *)
(***************************************************************************)
Current(c) ==
  [id |-> root[c].id, state |-> root[c].state, version |-> root[c].version,
   recorded |-> IF Saving(c) THEN call[c].events ELSE root[c].recorded]

Sound(c) ==
  /\ root[c] # NoRoot
  /\ ~ failed[c]
  /\ reply[c].kind \in {"pending", "appended"}

RootOf(c) ==
  /\ pc[c] # "query"
  /\ root[c] = NoRoot => pc[c] = "idle"
  /\ root[c] = NoRoot \/ pc[c] # "idle" => ~ failed[c]
  /\ pc[c] \in {"begin", "select", "upsert", "insert"} =>
       call[c].id = root[c].id /\ call[c].expected = Fresh(Current(c))
  /\ pc[c] = "begin" => call[c].events = root[c].recorded
  /\ pc[c] \in {"select", "upsert", "insert", "rollback"} =>
       root[c].recorded = <<>>
  /\ reply[c].kind = "appended" => root[c].recorded = <<>>
  /\ Sound(c) => Extends(Current(c), aggregates[root[c].id].state)

RepositoryInv ==
  /\ StoreInv
  /\ RepositoryTypes
  /\ \A id \in StreamIDs : RowOf(id)
  /\ \A c \in Clients : RootOf(c)

-----------------------------------------------------------------------------

LEMMA ReplyKinds ==
  ASSUME NEW r \in Replies
  PROVE  /\ r.kind = "pending" <=> r = Pending
         /\ r.kind \in {"pending", "failed", "appended", "conflict",
                       "streamed"}
  BY DEF Replies, Pending, Failed

(***************************************************************************)
(* Current(c) is a root, and outside Save it is the one c holds.           *)
(***************************************************************************)
LEMMA CurrentTypes ==
  ASSUME StoreInv, RepositoryTypes, NEW c \in Clients, root[c] # NoRoot
  PROVE  /\ root[c] \in Roots /\ Current(c) \in Roots
         /\ root[c].id \in StreamIDs
         /\ aggregates[root[c].id].state \in Seq(Events)
         /\ Current(c).id = root[c].id
         /\ Current(c).state = root[c].state
         /\ Current(c).version = root[c].version
         /\ Saving(c) => Current(c).recorded = call[c].events
         /\ ~ Saving(c) => Current(c) = root[c]
<1>1. root[c] \in Roots /\ root[c].id \in StreamIDs
  BY RootTypes DEF RepositoryTypes
<1>2. aggregates[root[c].id].state \in Seq(Events)
  BY <1>1 DEF RepositoryTypes
<1>3. CASE Saving(c)
  <2>1. call[c].events \in Seq(Events)
    BY <1>3, AppendTypes DEF Saving, StoreInv, CallOf, AppendLabels
  <2>2. Current(c) = [id |-> root[c].id, state |-> root[c].state,
                      version |-> root[c].version,
                      recorded |-> call[c].events]
    BY <1>3 DEF Current
  <2> QED BY <1>1, <1>2, <1>3, <2>1, <2>2, RootTypes DEF Roots
<1>4. CASE ~ Saving(c)
  <2>1. Current(c) = [id |-> root[c].id, state |-> root[c].state,
                      version |-> root[c].version,
                      recorded |-> root[c].recorded]
    BY <1>4 DEF Current
  <2>2. Current(c) = root[c]
    BY <1>1, <2>1, RootTypes
  <2> QED BY <1>1, <1>2, <1>4, <2>2
<1> QED BY <1>3, <1>4

(***************************************************************************)
(* Once all the checks have been passed the snapshot is the whole stream,  *)
(* and the batch leads from it to the state of the root.                   *)
(***************************************************************************)
LEMMA CommitFacts ==
  ASSUME RepositoryInv, NEW c \in Clients, pc[c] = "insert"
  PROVE  LET id == root[c].id
         IN  /\ Sound(c) /\ root[c] \in Roots /\ id \in StreamIDs
             /\ call[c].id = id /\ call[c].events \in Seq(Events)
             /\ root[c].recorded = <<>>
             /\ rows[id] \in Seq(Events)
             /\ aggregates[id].state = rows[id]
             /\ rows[id] \o call[c].events = root[c].state
             /\ root[c].version = Len(root[c].state)
             /\ newVersion(c) = root[c].version
             /\ Base(Current(c)) = rows[id]
             /\ Extends(root[c], root[c].state)
<1> DEFINE id == root[c].id
           cell == aggregates[id].state
           s == rows[id]
           r == Current(c)
<1>1. /\ root[c] # NoRoot /\ ~ failed[c] /\ reply[c] = Pending
      /\ call[c] \in AnyAppend /\ call[c].id = id
      /\ call[c].expected = Fresh(r) /\ root[c].recorded = <<>>
  BY DEF RepositoryInv, RootOf, StoreInv, CallOf, AppendLabels
<1>2. Sound(c) /\ Extends(r, cell)
  BY <1>1 DEF Pending, Sound, RepositoryInv, RootOf
<1>3. /\ root[c] \in Roots /\ r \in Roots /\ id \in StreamIDs
      /\ cell \in Seq(Events) /\ r.state = root[c].state
      /\ r.version = root[c].version /\ r.recorded = call[c].events
  BY <1>1, CurrentTypes DEF RepositoryInv, Saving
<1>4. call[c].events \in Seq(Events) /\ Len(call[c].events) \in Nat
  BY <1>1, AppendTypes
<1>5. /\ s \in Seq(Events) /\ Len(s) \in Nat /\ Len(cell) \in Nat
      /\ oldVersion[c] = Len(s) /\ newVersion(c) = Len(s) + Len(call[c].events)
  BY <1>1, <1>3, LenProperties
     DEF RepositoryInv, StoreInv, Types, TablesAgree, SnapshotOf, newVersion
<1>6. /\ Len(cell) <= Len(s) /\ \A v \in 1 .. Len(cell) : s[v] = cell[v]
  BY <1>3 DEF RepositoryInv, RowOf
<1>7. /\ ExpectedVersion(r) = Fresh(r) /\ Fresh(r) \in Nat
      /\ Fresh(r) <= Len(cell)
  BY <1>2, <1>3, CommitProperties DEF Extends
<1>8. Fresh(r) = Len(s)
  <2>1. ~ VersionConflicts(Fresh(r), Len(s))
    BY <1>1, <1>5 DEF RepositoryInv, StoreInv, SnapshotOf
  <2> QED BY <1>5, <1>7, <2>1 DEF VersionConflicts, CheckAny
<1> HIDE DEF id, cell, s, r
<1>9. Len(cell) = Len(s)
  BY <1>5, <1>6, <1>7, <1>8
<1>10. cell = s
  BY <1>3, <1>5, <1>6, <1>9, SeqEqual
<1>11. /\ s \o call[c].events = root[c].state
       /\ Extends(FlushRecordedEvents(r), root[c].state)
  BY <1>2, <1>3, <1>7, <1>8, <1>10, CommitProperties DEF Accepts
<1>12. root[c].version = Len(root[c].state)
  BY <1>2, <1>3 DEF Extends
<1>13. newVersion(c) = root[c].version
  <2>1. Len(s \o call[c].events) = Len(s) + Len(call[c].events)
    BY <1>4, <1>5, ConcatProperties
  <2> QED BY <1>5, <1>11, <1>12, <2>1
<1>14. Base(r) = s
  <2>1. /\ Base(r) \in Seq(Events) /\ Len(Base(r)) = Len(s)
        /\ IsPrefix(Base(r), s)
    BY <1>2, <1>3, <1>8, <1>10, ExtendsMeaning
  <2>2. \A t \in Seq(Events) : SubSeq(t, 1, Len(t)) = t
    BY SubSeqFull
  <2> QED BY <1>5, <2>1, <2>2 DEF IsPrefix
<1>15. FlushRecordedEvents(r) = root[c]
  <2>1. r = [id |-> root[c].id, state |-> root[c].state,
             version |-> root[c].version, recorded |-> call[c].events]
    BY DEF r, Current, Saving
  <2>2. root[c] = [id |-> root[c].id, state |-> root[c].state,
                   version |-> root[c].version, recorded |-> <<>>]
    BY <1>1, <1>3, RootTypes
  <2> QED BY <2>1, <2>2 DEF FlushRecordedEvents
<1> QED BY <1>1, <1>2, <1>3, <1>4, <1>5, <1>10, <1>11, <1>12, <1>13, <1>14,
           <1>15
        DEF id, cell, s, r

-----------------------------------------------------------------------------

LEMMA InitRepositoryInv == RepositoryInit => RepositoryInv
<1> SUFFICES ASSUME RepositoryInit PROVE RepositoryInv
  OBVIOUS
<1>1. StoreInv
  BY InitStoreInv DEF RepositoryInit
<1>2. <<>> \in Seq(Events) /\ Len(<<>>) = 0
  BY EmptySeq
<1>3. RepositoryTypes
  BY <1>2 DEF RepositoryInit, RepositoryTypes, NoRow
<1>4. \A id \in StreamIDs : RowOf(id)
  BY <1>2 DEF RepositoryInit, Init, RowOf, NoRow
<1>5. \A c \in Clients : RootOf(c)
  BY DEF RepositoryInit, Init, RootOf, Sound, Pending
<1> QED BY <1>1, <1>3, <1>4, <1>5 DEF RepositoryInv

(***************************************************************************)
(* What a step that is not its own may do to a client: snapshots grow.     *)
(***************************************************************************)
CellsGrow ==
  \A id \in StreamIDs :
    \/ aggregates'[id].state = aggregates[id].state
    \/ \E t \in Seq(Events) : aggregates'[id].state = aggregates[id].state \o t

Untouched(d) ==
  /\ pc'[d] = pc[d] /\ call'[d] = call[d] /\ reply'[d] = reply[d]
  /\ root'[d] = root[d] /\ failed'[d] = failed[d]

LEMMA OthersKeep ==
  ASSUME RepositoryInv, CellsGrow, NEW d \in Clients, Untouched(d)
  PROVE  RootOf(d)'
<1>1. RootOf(d)
  BY DEF RepositoryInv
<1>2. /\ Current(d)' = Current(d) /\ Saving(d)' = Saving(d)
      /\ Sound(d)' = Sound(d)
  BY DEF Untouched, Current, Saving, Sound
<1>3. ASSUME Sound(d)
      PROVE  Extends(Current(d), aggregates'[root[d].id].state)
  <2>1. /\ Current(d) \in Roots /\ root[d].id \in StreamIDs
        /\ aggregates[root[d].id].state \in Seq(Events)
        /\ Extends(Current(d), aggregates[root[d].id].state)
    BY <1>1, <1>3, CurrentTypes DEF RepositoryInv, RootOf, Sound
  <2> QED BY <2>1, ExtendsLonger DEF CellsGrow
<1> QED BY <1>1, <1>2, <1>3 DEF Untouched, RootOf

LEMMA SameStore ==
  ASSUME StoreInv, UNCHANGED storeVars
  PROVE  StoreInv'
  BY DEF storeVars, tables, txVars, StoreInv, Types, TablesAgree, CallOf,
         HoldsRow, SnapshotOf

LEMMA SameRows ==
  ASSUME RepositoryInv, UNCHANGED <<tables, aggregates, bypassed>>
  PROVE  CellsGrow /\ \A id \in StreamIDs : RowOf(id)'
  BY DEF RepositoryInv, CellsGrow, RowOf, tables

(***************************************************************************)
(* The steps of a client that has no Save under way.                       *)
(***************************************************************************)
LEMMA IdleStep ==
  ASSUME RepositoryInv, NEW c \in Clients, UNCHANGED <<storeVars, bypassed>>,
         UNCHANGED <<aggregates, stateSaved>>, pc[c] = "idle",
         NEW r \in Roots \cup {NoRoot},
         root' = [root EXCEPT ![c] = r],
         NEW f \in BOOLEAN, r = NoRoot => ~ f,
         failed' = [failed EXCEPT ![c] = f],
         r # NoRoot /\ ~ f => Extends(r, aggregates[r.id].state)
  PROVE  RepositoryInv'
<1>1. StoreInv'
  BY SameStore DEF RepositoryInv
<1>2. RepositoryTypes'
  BY DEF RepositoryInv, RepositoryTypes
<1>3. CellsGrow /\ \A id \in StreamIDs : RowOf(id)'
  BY SameRows DEF storeVars
<1>4. ASSUME NEW d \in Clients, d # c PROVE RootOf(d)'
  BY <1>3, <1>4, OthersKeep
     DEF Untouched, storeVars, txVars, RepositoryInv, RepositoryTypes
<1>5. RootOf(c)'
  <2>1. /\ pc'[c] = "idle" /\ root'[c] = r /\ failed'[c] = f
        /\ reply'[c] = Pending /\ aggregates' = aggregates
    BY DEF storeVars, txVars, RepositoryInv, RepositoryTypes, StoreInv, CallOf
  <2>2. reply'[c].kind = "pending" /\ ~ Saving(c)'
    BY <2>1 DEF Pending, Saving
  <2>3. r # NoRoot => Current(c)' = r
    <3>1. Current(c)' = [id |-> r.id, state |-> r.state,
                         version |-> r.version, recorded |-> r.recorded]
      BY <2>1, <2>2 DEF Current
    <3> QED BY <3>1, RootTypes
  <2> QED BY <2>1, <2>2, <2>3 DEF RootOf, Sound
<1> QED BY <1>1, <1>2, <1>3, <1>4, <1>5 DEF RepositoryInv

(***************************************************************************)
(* The steps of a Save that leave the tables alone: it is enough to say    *)
(* what they do to the client itself.                                      *)
(***************************************************************************)
LEMMA SaveStep ==
  ASSUME RepositoryInv, StoreInv', RepositoryTypes', NEW c \in Clients,
         UNCHANGED <<tables, aggregates, bypassed>>,
         \A d \in Clients \ {c} : Untouched(d),
         RootOf(c)'
  PROVE  RepositoryInv'
<1>1. CellsGrow /\ \A id \in StreamIDs : RowOf(id)'
  BY SameRows
<1>2. ASSUME NEW d \in Clients, d # c PROVE RootOf(d)'
  BY <1>1, <1>2, OthersKeep
<1> QED BY <1>1, <1>2 DEF RepositoryInv

LEMMA CallSaveStep ==
  ASSUME ~ ReuseFailedRoots, RepositoryInv, NEW c \in Clients, CallSave(c),
         UNCHANGED bypassed
  PROVE  RepositoryInv'
<1> DEFINE r == root[c]
           request == AppendCall(r.id, SaveCheck(r), r.recorded)
<1>1. /\ pc[c] = "idle" /\ r # NoRoot /\ ~ failed[c] /\ reply[c] = Pending
      /\ StartTransaction(c, request)
      /\ UNCHANGED <<aggregates, root, failed, stateSaved>>
  BY DEF CallSave, Usable, Holds, rootVars, RepositoryInv, StoreInv, CallOf
<1>2. Sound(c) /\ ~ Saving(c)
  BY <1>1 DEF Sound, Saving, Pending
<1>3. /\ r \in Roots /\ r.id \in StreamIDs /\ r.recorded \in Seq(Events)
      /\ aggregates[r.id].state \in Seq(Events)
      /\ Current(c) = r /\ Extends(r, aggregates[r.id].state)
  BY <1>1, <1>2, CurrentTypes, RootTypes DEF RepositoryInv, RootOf
<1>4. SaveCheck(r) = Fresh(r) /\ Fresh(r) \in Nat
  BY <1>3, CommitProperties DEF SaveCheck
<1>5. /\ request \in AnyAppend /\ request.id = r.id
      /\ request.expected = Fresh(r) /\ request.events = r.recorded
  BY <1>3, <1>4 DEF AppendCall, AnyAppend
<1> HIDE DEF request
<1>6. StoreInv'
  BY <1>1, <1>5, StartTransactionStep DEF RepositoryInv
<1>7. /\ pc' = [pc EXCEPT ![c] = "begin"]
      /\ call' = [call EXCEPT ![c] = request]
      /\ UNCHANGED <<tables, reply>>
  BY <1>1 DEF StartTransaction, Goto
<1>8. RepositoryTypes'
  BY <1>1 DEF RepositoryInv, RepositoryTypes
<1>9. \A d \in Clients \ {c} : Untouched(d)
  BY <1>1, <1>7 DEF RepositoryInv, StoreInv, Types, Untouched
<1>10. /\ pc'[c] = "begin" /\ call'[c] = request /\ reply'[c] = Pending
       /\ root'[c] = r /\ failed'[c] = failed[c] /\ aggregates' = aggregates
  BY <1>1, <1>7 DEF RepositoryInv, StoreInv, Types
<1>11. Current(c)' = r /\ reply'[c].kind = "pending"
  <2>1. Current(c)' = [id |-> r.id, state |-> r.state,
                       version |-> r.version, recorded |-> r.recorded]
    BY <1>10 DEF Current, Saving
  <2> QED BY <1>3, <1>10, <2>1, RootTypes DEF Pending
<1>12. RootOf(c)'
  BY <1>1, <1>3, <1>5, <1>10, <1>11 DEF RootOf
<1> QED BY <1>1, <1>6, <1>7, <1>8, <1>9, <1>12, SaveStep

LEMMA BeginSaveStep ==
  ASSUME RepositoryInv, NEW c \in Clients, BeginSave(c), UNCHANGED bypassed
  PROVE  RepositoryInv'
<1> DEFINE r == root[c]
           q == FlushRecordedEvents(r)
<1>1. /\ pc[c] = "begin" /\ reply[c] = Pending /\ r # NoRoot /\ ~ failed[c]
      /\ call[c].id = r.id /\ call[c].events = r.recorded
      /\ call[c].expected = Fresh(Current(c)) /\ BeginTx(c)
  BY DEF BeginSave, BeginTx, RepositoryInv, RootOf, StoreInv, CallOf
<1>2. Sound(c) /\ ~ Saving(c)
  BY <1>1 DEF Sound, Saving, Pending
<1>3. /\ r \in Roots /\ Current(c) = r
      /\ Extends(r, aggregates[r.id].state)
  BY <1>1, <1>2, CurrentTypes DEF RepositoryInv, RootOf
<1>4. /\ q \in Roots /\ q.id = r.id /\ q.recorded = <<>>
      /\ q.state = r.state /\ q.version = r.version /\ q # NoRoot
  BY <1>3, FlushProperties, RootTypes
<1> HIDE DEF q
<1>5. /\ pc' = [pc EXCEPT ![c] = "select"]
      /\ root' = [root EXCEPT ![c] = q]
      /\ UNCHANGED <<tables, call, reply, aggregates, failed, stateSaved>>
  BY <1>1 DEF BeginTx, BeginSave, Goto, q
<1>6. StoreInv'
  BY <1>1, BeginTxStep DEF RepositoryInv
<1>7. RepositoryTypes'
  BY <1>4, <1>5 DEF RepositoryInv, RepositoryTypes
<1>8. \A d \in Clients \ {c} : Untouched(d)
  BY <1>5 DEF RepositoryInv, StoreInv, Types, RepositoryTypes, Untouched
<1>9. /\ pc'[c] = "select" /\ call'[c] = call[c] /\ reply'[c] = Pending
      /\ root'[c] = q /\ failed'[c] = failed[c] /\ aggregates' = aggregates
  BY <1>1, <1>5 DEF RepositoryInv, StoreInv, Types, RepositoryTypes
<1>10. Current(c)' = r /\ reply'[c].kind = "pending"
  <2>1. Current(c)' = [id |-> r.id, state |-> r.state,
                       version |-> r.version, recorded |-> r.recorded]
    BY <1>1, <1>4, <1>9 DEF Current, Saving
  <2> QED BY <1>3, <1>9, <2>1, RootTypes DEF Pending
<1>11. RootOf(c)'
  BY <1>1, <1>3, <1>4, <1>9, <1>10 DEF RootOf
<1> QED BY <1>5, <1>6, <1>7, <1>8, <1>11, SaveStep

(***************************************************************************)
(* A statement succeeds, without effect on the tables yet.                 *)
(***************************************************************************)
LEMMA StatementStep ==
  ASSUME RepositoryInv, StoreInv', RepositoryTypes', NEW c \in Clients,
         Saving(c), Saving(c)', UNCHANGED <<tables, aggregates, bypassed>>,
         UNCHANGED <<call, reply, root, failed>>,
         \A d \in Clients \ {c} : pc'[d] = pc[d]
  PROVE  RepositoryInv'
<1>1. \A d \in Clients \ {c} : Untouched(d)
  BY DEF Untouched
<1>2. Current(c)' = Current(c) /\ Sound(c)' = Sound(c)
  BY DEF Current, Sound
<1>3. RootOf(c)'
  BY <1>2 DEF RepositoryInv, RootOf, Saving
<1> QED BY <1>1, <1>3, SaveStep

(***************************************************************************)
(* Save gives up: nothing is claimed of the root any more.                 *)
(***************************************************************************)
LEMMA SaveFailsStep ==
  ASSUME RepositoryInv, StoreInv', NEW c \in Clients,
         UNCHANGED <<tables, aggregates, bypassed>>,
         UNCHANGED <<call, root, failed, stateSaved>>,
         NEW r \in Replies, r.kind \notin {"pending", "appended"},
         Answer(c, r),
         NEW label, Goto(c, label),
         \/ pc[c] = "begin" /\ label = "return"
         \/ Saving(c) /\ label = "rollback"
  PROVE  RepositoryInv'
<1>1. \A d \in Clients \ {c} : Untouched(d)
  BY DEF Untouched, Answer, Goto, RepositoryInv, StoreInv, Types
<1>2. RepositoryTypes'
  BY DEF RepositoryInv, RepositoryTypes
<1>3. pc'[c] = label /\ reply'[c] = r
  BY DEF Answer, Goto, RepositoryInv, StoreInv, Types
<1>4. RootOf(c)'
  BY <1>3 DEF RepositoryInv, RootOf, Sound, Saving
<1> QED BY <1>1, <1>2, <1>4, SaveStep

LEMMA AppendStatementStep ==
  ASSUME RepositoryInv, NEW c \in Clients, AppendStatement(c),
         UNCHANGED bypassed
  PROVE  RepositoryInv'
<1>1. /\ StoreInv
      /\ UNCHANGED <<aggregates, root, failed, stateSaved>>
      /\ Failed \in Replies /\ Failed.kind \notin {"pending", "appended"}
  BY DEF RepositoryInv, AppendStatement, rootVars, Failed, Replies
<1>2. RepositoryTypes'
  BY <1>1 DEF RepositoryInv, RepositoryTypes
<1>3. CASE SelectStream(c)
  <2> DEFINE old == streams[call[c].id]
             answer == Conflict(call[c].expected, old)
  <2>1. StoreInv' /\ pc[c] = "select" /\ Saving(c)
    BY <1>1, <1>3, SelectStreamStep DEF SelectStream, Saving
  <2>2. CASE VersionConflicts(call[c].expected, old)
    <3>1. /\ Answer(c, answer) /\ Goto(c, "rollback")
          /\ UNCHANGED <<tables, call>>
      BY <1>3, <2>2 DEF SelectStream
    <3>2. answer \in Replies
      <4>1. reply'[c] = answer /\ reply'[c] \in Replies
        BY <2>1, <3>1 DEF Answer, StoreInv, Types, RepositoryInv
      <4> QED BY <4>1
    <3>3. answer.kind \notin {"pending", "appended"}
      BY DEF Conflict
    <3> HIDE DEF answer
    <3> QED BY <1>1, <2>1, <3>1, <3>2, <3>3, SaveFailsStep
  <2>3. CASE ~ VersionConflicts(call[c].expected, old)
    <3>1. Goto(c, "upsert") /\ UNCHANGED <<tables, call, reply>>
      BY <1>3, <2>3 DEF SelectStream
    <3>2. Saving(c)' /\ \A d \in Clients \ {c} : pc'[d] = pc[d]
      BY <1>1, <3>1 DEF Goto, Saving, StoreInv, Types
    <3> QED BY <1>1, <1>2, <2>1, <3>1, <3>2, StatementStep
  <2> QED BY <2>2, <2>3
<1>4. CASE UpsertStream(c)
  <2>1. StoreInv' /\ pc[c] = "upsert" /\ Saving(c)
    BY <1>1, <1>4, UpsertStreamStep DEF UpsertStream, Saving
  <2>2. Goto(c, "insert") /\ UNCHANGED <<tables, call, reply>>
    BY <1>4 DEF UpsertStream
  <2>3. Saving(c)' /\ \A d \in Clients \ {c} : pc'[d] = pc[d]
    BY <1>1, <2>2 DEF Goto, Saving, StoreInv, Types
  <2> QED BY <1>1, <1>2, <2>1, <2>2, <2>3, StatementStep
<1>5. CASE InsertEvent(c)
  <2>1. /\ StoreInv' /\ Saving(c) /\ Saving(c)'
        /\ UNCHANGED <<tables, call, reply, pc>>
    BY <1>1, <1>5, InsertEventStep DEF InsertEvent, Inserting, Saving
  <2> QED BY <1>1, <1>2, <2>1, StatementStep
<1>6. CASE UpsertFails(c) \/ StatementFails(c)
  <2>1. /\ Saving(c) /\ Answer(c, Failed) /\ Goto(c, "rollback")
        /\ UNCHANGED <<tables, call>>
    BY <1>6 DEF UpsertFails, StatementFails, Inserting, Saving
  <2>2. StoreInv'
    BY <1>1, <1>6, GiveUpStep DEF UpsertFails, StatementFails, Inserting
  <2> QED BY <1>1, <2>1, <2>2, SaveFailsStep
<1>7. CASE BeginFails(c)
  <2>1. /\ pc[c] = "begin" /\ Answer(c, Failed) /\ Goto(c, "return")
        /\ UNCHANGED <<tables, call>> /\ StoreInv'
    BY <1>1, <1>7, BeginFailsStep DEF BeginFails
  <2> QED BY <1>1, <2>1, SaveFailsStep
<1> QED BY <1>3, <1>4, <1>5, <1>6, <1>7 DEF AppendStatement

LEMMA SaveAggregateStateStep ==
  ASSUME RepositoryInv, NEW c \in Clients, SaveAggregateState(c),
         UNCHANGED bypassed
  PROVE  RepositoryInv'
<1>1. /\ pc[c] = "insert" /\ UNCHANGED <<storeVars, aggregates, root, failed>>
      /\ UNCHANGED <<tables, call, reply, pc>>
      /\ stateSaved' = [stateSaved EXCEPT ![c] = TRUE]
  BY DEF SaveAggregateState, AllInserted, rootVars, storeVars, txVars
<1>2. StoreInv' /\ RepositoryTypes'
  BY <1>1, SameStore DEF RepositoryInv, RepositoryTypes
<1>3. Saving(c) /\ Saving(c)'
  BY <1>1 DEF Saving
<1> QED BY <1>1, <1>2, <1>3, StatementStep

LEMMA SaveStateFailsStep ==
  ASSUME RepositoryInv, NEW c \in Clients, SaveStateFails(c),
         UNCHANGED bypassed
  PROVE  RepositoryInv'
<1>1. /\ Saving(c) /\ pc[c] = "insert"
      /\ Answer(c, Failed) /\ Goto(c, "rollback")
      /\ UNCHANGED <<tables, holder, call, oldVersion, overwritten, inserted>>
      /\ UNCHANGED <<aggregates, root, failed, stateSaved>>
  BY DEF SaveStateFails, AllInserted, Saving, rootVars
<1>2. StoreInv'
  BY <1>1, GiveUpStep DEF RepositoryInv
<1>3. Failed \in Replies /\ Failed.kind \notin {"pending", "appended"}
  BY DEF Failed, Replies
<1> QED BY <1>1, <1>2, <1>3, SaveFailsStep

(***************************************************************************)
(* The COMMIT replaces the snapshot by the state of the root, which is the *)
(* events there were and the batch.                                        *)
(***************************************************************************)
LEMMA CommitSaveStep ==
  ASSUME RepositoryInv, NEW c \in Clients, CommitSave(c), UNCHANGED bypassed
  PROVE  RepositoryInv'
<1> DEFINE id == root[c].id
           batch == call[c].events
           row == [version |-> root[c].version, state |-> root[c].state]
<1>1. /\ Commit(c) /\ pc[c] = "insert" /\ Writes(c) /\ Goto(c, "return")
      /\ CommitSucceeds(c) \/ CommitAnswerLost(c)
      /\ UNCHANGED <<call, root, failed, stateSaved>>
  BY DEF CommitSave, CommitSucceeds, CommitAnswerLost, Commit, rootVars
<1>2. /\ Sound(c) /\ root[c] \in Roots /\ id \in StreamIDs
      /\ call[c].id = id /\ batch \in Seq(Events)
      /\ root[c].recorded = <<>> /\ rows[id] \in Seq(Events)
      /\ aggregates[id].state = rows[id]
      /\ rows[id] \o batch = root[c].state
      /\ root[c].version = Len(root[c].state)
      /\ Extends(root[c], root[c].state)
  BY <1>1, CommitFacts
<1>3. /\ rows' = [rows EXCEPT ![id] = root[c].state]
      /\ streams' = [streams EXCEPT ![id] = root[c].version]
  <2>1. /\ rows' = [rows EXCEPT ![id] = rows[id] \o batch]
        /\ streams' = [streams EXCEPT ![id] = Len(rows[id]) + Len(batch)]
    BY <1>1, <1>2, WritesExtend DEF RepositoryInv
  <2>2. Len(rows[id] \o batch) = Len(rows[id]) + Len(batch)
    BY <1>2, ConcatProperties
  <2> QED BY <1>2, <2>1, <2>2
<1>4. aggregates' = [aggregates EXCEPT ![id] = row]
  BY <1>2 DEF CommitSave
<1>5. StoreInv'
  BY <1>1, StepStoreInv DEF RepositoryInv, Step, Healthy, Fault
<1>6. RepositoryTypes'
  <2>1. row \in [version : Nat, state : Seq(Events)]
    BY <1>2, RootTypes
  <2> QED BY <1>1, <1>4, <2>1 DEF RepositoryInv, RepositoryTypes
<1>7. CellsGrow
  BY <1>2, <1>4 DEF CellsGrow, RepositoryInv, RepositoryTypes
<1>8. ASSUME NEW i \in StreamIDs PROVE RowOf(i)'
  <2>1. CASE i = id
    <3>1. /\ aggregates'[i].version = root[c].version
          /\ aggregates'[i].state = root[c].state
          /\ rows'[i] = root[c].state /\ streams'[i] = root[c].version
      BY <1>2, <1>3, <1>4, <2>1
         DEF RepositoryInv, RepositoryTypes, StoreInv, Types
    <3>2. Len(root[c].state) \in Nat
      BY <1>2, RootTypes
    <3> QED BY <1>2, <3>1, <3>2 DEF RowOf
  <2>2. CASE i # id
    <3>1. /\ aggregates'[i] = aggregates[i] /\ rows'[i] = rows[i]
          /\ streams'[i] = streams[i]
      BY <1>2, <1>3, <1>4, <2>2
         DEF RepositoryInv, RepositoryTypes, StoreInv, Types
    <3> QED BY <3>1 DEF RepositoryInv, RowOf
  <2> QED BY <2>1, <2>2
<1>9. \A d \in Clients \ {c} : Untouched(d)
  BY <1>1 DEF Untouched, CommitSucceeds, CommitAnswerLost, Answer, Goto,
              RepositoryInv, StoreInv, Types
<1>10. ASSUME NEW d \in Clients, d # c PROVE RootOf(d)'
  BY <1>7, <1>9, <1>10, OthersKeep
<1>11. RootOf(c)'
  <2>1. /\ pc'[c] = "return" /\ root'[c] = root[c] /\ failed'[c] = failed[c]
        /\ aggregates'[id].state = root[c].state
    BY <1>1, <1>2, <1>4
       DEF Goto, RepositoryInv, RepositoryTypes, StoreInv, Types
  <2>2. Current(c)' = root[c]
    <3>1. Current(c)' = [id |-> id, state |-> root[c].state,
                         version |-> root[c].version,
                         recorded |-> root[c].recorded]
      BY <2>1 DEF Current, Saving
    <3> QED BY <1>2, <3>1, RootTypes
  <2> QED BY <1>2, <2>1, <2>2 DEF RootOf, Sound
<1> QED BY <1>5, <1>6, <1>8, <1>10, <1>11 DEF RepositoryInv

LEMMA RollbackSaveStep ==
  ASSUME RepositoryInv, NEW c \in Clients, RollbackSave(c), UNCHANGED bypassed
  PROVE  RepositoryInv'
<1>1. /\ Rollback(c) /\ pc[c] = "rollback"
      /\ pc' = [pc EXCEPT ![c] = "return"]
      /\ UNCHANGED <<tables, call, reply>>
      /\ UNCHANGED <<aggregates, root, failed, stateSaved>>
  BY DEF RollbackSave, Rollback, rootVars, Goto
<1>2. StoreInv' /\ RepositoryTypes'
  BY <1>1, RollbackStep DEF RepositoryInv, RepositoryTypes
<1>3. \A d \in Clients \ {c} : Untouched(d)
  BY <1>1 DEF Untouched, RepositoryInv, StoreInv, Types
<1>4. pc'[c] = "return"
  BY <1>1 DEF RepositoryInv, StoreInv, Types
<1>5. Current(c)' = Current(c) /\ Sound(c)' = Sound(c)
  BY <1>1, <1>4 DEF Current, Sound, Saving
<1>6. RootOf(c)'
  BY <1>1, <1>4, <1>5 DEF RepositoryInv, RootOf
<1> QED BY <1>1, <1>2, <1>3, <1>6, SaveStep

LEMMA ReturnSaveStep ==
  ASSUME RepositoryInv, NEW c \in Clients, ReturnSave(c), UNCHANGED bypassed
  PROVE  RepositoryInv'
<1>1. /\ Return(c) /\ pc[c] = "return"
      /\ pc' = [pc EXCEPT ![c] = "idle"]
      /\ reply' = [reply EXCEPT ![c] = Pending]
      /\ call' = [call EXCEPT ![c] = NoCall]
      /\ failed' = [failed EXCEPT ![c] = (reply[c].kind # "appended")]
      /\ stateSaved' = [stateSaved EXCEPT ![c] = FALSE]
      /\ UNCHANGED <<tables, aggregates, root>>
  BY DEF ReturnSave, Return, Goto, Answer
<1>2. StoreInv' /\ RepositoryTypes'
  BY <1>1, ReturnStep DEF RepositoryInv, RepositoryTypes
<1>3. \A d \in Clients \ {c} : Untouched(d)
  BY <1>1 DEF Untouched, RepositoryInv, RepositoryTypes, StoreInv, Types
<1>4. /\ pc'[c] = "idle" /\ reply'[c].kind = "pending"
      /\ root' = root /\ aggregates' = aggregates
      /\ failed'[c] = (reply[c].kind # "appended")
      /\ root[c] # NoRoot /\ ~ failed[c]
  BY <1>1 DEF RepositoryInv, RepositoryTypes, StoreInv, Types, RootOf, Pending
<1>5. Current(c)' = Current(c)
  BY <1>1, <1>4 DEF Current, Saving
<1>6. RootOf(c)'
  BY <1>4, <1>5 DEF RepositoryInv, RootOf, Sound
<1> QED BY <1>1, <1>2, <1>3, <1>6, SaveStep

(***************************************************************************)
(* An Append that bypasses the repository: the snapshot stays behind, and  *)
(* who has read the old version of the stream cannot write the row.        *)
(***************************************************************************)
LEMMA BypassStep ==
  ASSUME RepositoryInv, NEW id \in StreamIDs, NEW evt \in Events,
         Bypass(id, evt)
  PROVE  RepositoryInv'
<1> DEFINE s == rows[id]
           t == Append(rows[id], evt)
<1>1. /\ holder[id] = NoOne
      /\ streams' = [streams EXCEPT ![id] = streams[id] + 1]
      /\ rows' = [rows EXCEPT ![id] = t]
      /\ overwritten' = [c \in Clients |->
           overwritten[c] \/ (pc[c] = "upsert" /\ call[c].id = id)]
      /\ bypassed' = [bypassed EXCEPT ![id] = TRUE]
      /\ UNCHANGED <<holder, pc, call, oldVersion, inserted, reply>>
      /\ UNCHANGED <<aggregates, root, failed, stateSaved>>
  BY DEF Bypass, rootVars
<1>2. /\ s \in Seq(Events) /\ Len(s) \in Nat /\ Len(s) = streams[id]
  BY LenProperties DEF RepositoryInv, StoreInv, Types, TablesAgree
<1>3. /\ t \in Seq(Events) /\ Len(t) = Len(s) + 1
      /\ \A v \in 1 .. Len(s) : t[v] = s[v]
  BY <1>2, AppendProperties
<1> HIDE DEF t
<1>4. Types'
  <2>1. streams' \in [StreamIDs -> Nat] /\ rows' \in [StreamIDs -> Seq(Events)]
    BY <1>1, <1>2, <1>3 DEF RepositoryInv, StoreInv, Types
  <2> QED BY <1>1, <2>1 DEF RepositoryInv, StoreInv, Types
<1>5. TablesAgree'
  BY <1>1, <1>2, <1>3 DEF RepositoryInv, StoreInv, Types, TablesAgree
<1>6. ASSUME NEW c \in Clients PROVE (CallOf(c) /\ HoldsRow(c))'
  BY <1>1 DEF RepositoryInv, StoreInv, CallOf, HoldsRow
<1>7. ASSUME NEW c \in Clients PROVE SnapshotOf(c)'
  <2>1. CASE pc[c] \notin {"upsert", "insert"}
    BY <1>1, <2>1 DEF SnapshotOf
  <2>2. CASE pc[c] \in {"upsert", "insert"}
    <3>1. call[c].id \in StreamIDs
      BY <2>2, AppendTypes DEF RepositoryInv, StoreInv, CallOf, AppendLabels
    <3>2. pc[c] = "insert" => call[c].id # id
      BY <1>1, PostgresAssumption DEF RepositoryInv, StoreInv, HoldsRow
    <3>3. call[c].id # id => streams'[call[c].id] = streams[call[c].id]
      BY <1>1, <3>1 DEF RepositoryInv, StoreInv, Types
    <3>4. overwritten'[c] = (overwritten[c]
                               \/ (pc[c] = "upsert" /\ call[c].id = id))
      BY <1>1
    <3> QED BY <1>1, <2>2, <3>2, <3>3, <3>4
            DEF RepositoryInv, StoreInv, SnapshotOf
  <2> QED BY <2>1, <2>2
<1>8. StoreInv'
  BY <1>4, <1>5, <1>6, <1>7 DEF StoreInv
<1>9. RepositoryTypes'
  BY <1>1 DEF RepositoryInv, RepositoryTypes
<1>10. ASSUME NEW i \in StreamIDs PROVE RowOf(i)'
  <2>1. CASE i = id
    <3>1. /\ rows'[i] = t /\ aggregates' = aggregates /\ bypassed'[i] = TRUE
      BY <1>1, <2>1 DEF RepositoryInv, RepositoryTypes, StoreInv, Types
    <3>2. /\ aggregates[i].version = Len(aggregates[i].state)
          /\ Len(aggregates[i].state) <= Len(s)
          /\ \A v \in 1 .. Len(aggregates[i].state) :
               s[v] = aggregates[i].state[v]
      BY <2>1 DEF RepositoryInv, RowOf
    <3>3. Len(aggregates[i].state) \in Nat
      BY LenProperties DEF RepositoryInv, RepositoryTypes
    <3> HIDE DEF s
    <3>4. /\ Len(aggregates[i].state) <= Len(t)
          /\ \A v \in 1 .. Len(aggregates[i].state) :
               t[v] = aggregates[i].state[v]
      BY <1>2, <1>3, <3>2, <3>3
    <3> QED BY <3>1, <3>2, <3>4 DEF RowOf
  <2>2. CASE i # id
    <3>1. /\ rows'[i] = rows[i] /\ streams'[i] = streams[i]
          /\ aggregates' = aggregates /\ bypassed'[i] = bypassed[i]
      BY <1>1, <2>2 DEF RepositoryInv, RepositoryTypes, StoreInv, Types
    <3> QED BY <3>1 DEF RepositoryInv, RowOf
  <2> QED BY <2>1, <2>2
<1>11. ASSUME NEW d \in Clients PROVE RootOf(d)'
  BY <1>1, OthersKeep DEF Untouched, CellsGrow
<1> QED BY <1>8, <1>9, <1>10, <1>11 DEF RepositoryInv

LEMMA NextRepositoryInv ==
  ASSUME ~ ReuseFailedRoots, RepositoryInv, [RepositoryNext]_repositoryVars
  PROVE  RepositoryInv'
<1>1. /\ failed \in [Clients -> BOOLEAN]
      /\ root \in [Clients -> Roots \cup {NoRoot}]
  BY DEF RepositoryInv, RepositoryTypes
<1>2. ASSUME NEW c \in Clients, NEW id \in StreamIDs, Create(c, id),
             UNCHANGED bypassed
      PROVE  RepositoryInv'
  <2>1. pc[c] = "idle" /\ failed' = [failed EXCEPT ![c] = failed[c]]
    BY <1>1, <1>2 DEF Create, RepositoryInv, RootOf
  <2>2. aggregates[id].state \in Seq(Events)
    BY DEF RepositoryInv, RepositoryTypes
  <2>3. /\ NewRoot(id) \in Roots /\ NewRoot(id) # NoRoot /\ NewRoot(id).id = id
        /\ Extends(NewRoot(id), aggregates[id].state)
    BY <2>2, NewRootProperties, RootTypes
  <2> QED BY <1>1, <1>2, <2>1, <2>3, IdleStep DEF Create
<1>3. ASSUME NEW c \in Clients, NEW id \in StreamIDs, Get(c, id),
             UNCHANGED bypassed
      PROVE  RepositoryInv'
  <2> DEFINE s == aggregates[id].state
             r == RehydrateFromState(id, aggregates[id].version, s)
  <2>1. pc[c] = "idle" /\ failed' = [failed EXCEPT ![c] = failed[c]]
    BY <1>1, <1>3 DEF Get, RepositoryInv, RootOf
  <2>2. s \in Seq(Events) /\ aggregates[id].version = Len(s)
    BY DEF RepositoryInv, RepositoryTypes, RowOf
  <2>3. r = RehydrateFromEvents(id, s)
    BY <2>2 DEF RehydrateFromState, RehydrateFromEvents
  <2>4. r \in Roots /\ r # NoRoot /\ r.id = id /\ Extends(r, s)
    BY <2>2, <2>3, RehydrateProperties, RootTypes
  <2>5. root' = [root EXCEPT ![c] = r]
    BY <1>3 DEF Get
  <2> HIDE DEF r
  <2> QED BY <1>1, <1>3, <2>1, <2>4, <2>5, IdleStep DEF Get
<1>4. ASSUME NEW c \in Clients, NEW batch \in Batches, Record(c, batch),
             UNCHANGED bypassed
      PROVE  RepositoryInv'
  <2>1. PICK n \in 0 .. Len(batch) :
          root' = [root EXCEPT ![c] = RecordThat(root[c], batch, n)]
    BY <1>4 DEF Record
  <2>2. /\ pc[c] = "idle" /\ root[c] # NoRoot /\ ~ failed[c]
        /\ reply[c] = Pending
        /\ failed' = [failed EXCEPT ![c] = failed[c]]
    BY <1>1, <1>4
       DEF Record, Usable, Holds, RepositoryInv, StoreInv, CallOf
  <2>3. Sound(c) /\ ~ Saving(c)
    BY <2>2 DEF Sound, Saving, Pending
  <2>4. /\ root[c] \in Roots /\ aggregates[root[c].id].state \in Seq(Events)
        /\ Extends(root[c], aggregates[root[c].id].state)
    BY <2>2, <2>3, CurrentTypes DEF RepositoryInv, RootOf
  <2> DEFINE r == RecordThat(root[c], batch, n)
  <2>5. /\ r \in Roots /\ r # NoRoot /\ r.id = root[c].id
        /\ Extends(r, aggregates[root[c].id].state)
    BY <2>4, BatchTypes, RecordThatProperties, RootTypes
  <2> HIDE DEF r
  <2>6. root' = [root EXCEPT ![c] = r]
    BY <2>1 DEF r
  <2> QED BY <1>1, <1>4, <2>2, <2>5, <2>6, IdleStep DEF Record
<1>5. ASSUME NEW c \in Clients, Drop(c), UNCHANGED bypassed
      PROVE  RepositoryInv'
  BY <1>5, IdleStep DEF Drop, Holds
<1>6. ASSUME NEW c \in Clients, Save(c), UNCHANGED bypassed
      PROVE  RepositoryInv'
  BY <1>6, CallSaveStep, BeginSaveStep, AppendStatementStep,
     SaveAggregateStateStep, SaveStateFailsStep, CommitSaveStep,
     RollbackSaveStep, ReturnSaveStep
     DEF Save
<1>7. CASE UNCHANGED repositoryVars
  <2>1. StoreInv' /\ RepositoryTypes'
    BY <1>7, SameStore
       DEF repositoryVars, rootVars, RepositoryInv, RepositoryTypes
  <2>2. CellsGrow /\ \A id \in StreamIDs : RowOf(id)'
    BY <1>7, SameRows DEF repositoryVars, storeVars
  <2>3. ASSUME NEW d \in Clients PROVE RootOf(d)'
    BY <1>7, <2>2, OthersKeep
       DEF Untouched, repositoryVars, rootVars, storeVars, txVars
  <2> QED BY <2>1, <2>2, <2>3 DEF RepositoryInv
<1> QED BY <1>2, <1>3, <1>4, <1>5, <1>6, <1>7, BypassStep
        DEF RepositoryNext, Use

LEMMA AlwaysRepositoryInv ==
  ASSUME ~ ReuseFailedRoots PROVE RepositorySpec => []RepositoryInv
<1>1. RepositoryInv /\ [RepositoryNext]_repositoryVars => RepositoryInv'
  BY NextRepositoryInv
<1> QED BY InitRepositoryInv, <1>1, PTL DEF RepositorySpec

-----------------------------------------------------------------------------

(***************************************************************************)
(* The snapshot is what the events lead to, in every state that another    *)
(* connection can see and whatever bypasses the repository.                *)
(***************************************************************************)
THEOREM SnapshotsAreConsistent ==
  ASSUME ~ ReuseFailedRoots PROVE RepositorySpec => []SnapshotMatchesEvents
<1>1. RepositoryInv => SnapshotMatchesEvents
  <2> SUFFICES ASSUME RepositoryInv, NEW id \in StreamIDs
               PROVE  LET row == aggregates[id]
                      IN  /\ row.version = Len(row.state)
                          /\ \A v \in 1 .. row.version :
                               /\ v \in DOMAIN rows[id]
                               /\ rows[id][v] = row.state[v]
                          /\ ~ bypassed[id] => row.version = streams[id]
    BY DEF SnapshotMatchesEvents
  <2>1. RowOf(id)
    BY DEF RepositoryInv
  <2>2. rows[id] \in Seq(Events) /\ aggregates[id].state \in Seq(Events)
    BY DEF RepositoryInv, RepositoryTypes, StoreInv, Types
  <2>3. /\ DOMAIN rows[id] = 1 .. Len(rows[id]) /\ Len(rows[id]) \in Nat
        /\ Len(aggregates[id].state) \in Nat
    BY <2>2, LenProperties
  <2> QED BY <2>1, <2>3 DEF RowOf
<1> QED BY AlwaysRepositoryInv, <1>1, PTL

(***************************************************************************)
(* Save never finds the stream it has appended to at another version than  *)
(* the root's: that branch of the code is dead.                            *)
(***************************************************************************)
THEOREM MismatchIsDeadCode ==
  ASSUME ~ ReuseFailedRoots PROVE RepositorySpec => []NoVersionMismatch
<1>1. RepositoryInv => NoVersionMismatch
  BY CommitFacts DEF NoVersionMismatch, AllInserted
<1> QED BY AlwaysRepositoryInv, <1>1, PTL

(***************************************************************************)
(* A root whose Save has not failed is an initial part of the audit log    *)
(* and then what it has not saved yet, however many clients save meanwhile.*)
(***************************************************************************)
THEOREM RootsAreConsistent ==
  ASSUME ~ ReuseFailedRoots PROVE RepositorySpec => []RootsExtendEvents
<1>1. ASSUME RepositoryInv, NEW c \in Clients, root[c] # NoRoot, ~ failed[c],
             pc[c] \notin {"rollback", "return"}
      PROVE  /\ IsSuffix(Unsaved(c), root[c].state)
             /\ root[c].version = Len(root[c].state)
             /\ \A v \in 1 .. (root[c].version - Len(Unsaved(c))) :
                  /\ v \in DOMAIN rows[root[c].id]
                  /\ rows[root[c].id][v] = root[c].state[v]
  <2> DEFINE r == Current(c)
             cell == aggregates[root[c].id].state
             s == rows[root[c].id]
  <2>1. Sound(c) /\ RootOf(c) /\ pc[c] \in Labels /\ pc[c] # "query"
    BY <1>1 DEF RepositoryInv, StoreInv, Types, CallOf, Sound, Pending, RootOf
  <2>2. /\ r \in Roots /\ root[c].id \in StreamIDs /\ cell \in Seq(Events)
        /\ r.state = root[c].state /\ r.version = root[c].version
        /\ Extends(r, cell)
    BY <1>1, <2>1, CurrentTypes DEF RepositoryInv, RootOf
  <2>3. r.recorded = Unsaved(c)
    BY <1>1, <2>1 DEF RootOf, Current, Unsaved, Saving, Labels, AppendLabels
  <2>4. /\ s \in Seq(Events) /\ DOMAIN s = 1 .. Len(s) /\ Len(s) \in Nat
    BY <1>1, <2>2, LenProperties DEF RepositoryInv, StoreInv, Types
  <2>5. /\ Len(cell) <= Len(s) /\ Len(cell) \in Nat
        /\ \A v \in 1 .. Len(cell) : s[v] = cell[v]
    BY <1>1, <2>2, LenProperties DEF RepositoryInv, RowOf
  <2> HIDE DEF r, cell, s
  <2>6. /\ Len(r.state) \in Nat /\ Len(r.recorded) \in Nat
        /\ Len(r.recorded) <= Len(r.state) /\ r.version = Len(r.state)
        /\ Fresh(r) = Len(r.state) - Len(r.recorded) /\ Fresh(r) \in Nat
        /\ Fresh(r) <= Len(cell)
    BY <2>2, RootTypes DEF Extends, Fresh
  <2>7. IsSuffix(r.recorded, r.state)
    BY <2>2, <2>6, RootTypes, SuffixOfEntries DEF Extends
  <2>8. ASSUME NEW v \in 1 .. Fresh(r)
        PROVE  v \in DOMAIN s /\ s[v] = r.state[v]
    <3>1. v \in 1 .. Len(cell) /\ v \in 1 .. Len(s)
      BY <2>4, <2>5, <2>6
    <3>2. r.state[v] = cell[v]
      BY <2>2 DEF Extends
    <3> QED BY <2>4, <2>5, <3>1, <3>2
  <2> QED BY <2>2, <2>3, <2>6, <2>7, <2>8 DEF s
<1>2. RepositoryInv => RootsExtendEvents
  BY <1>1 DEF RootsExtendEvents
<1> QED BY AlwaysRepositoryInv, <1>2, PTL

-----------------------------------------------------------------------------

(***************************************************************************)
(* The contract's instance speaks of the same roots and batches.           *)
(***************************************************************************)
LEMMA RepositoryVocabulary ==
  /\ RepositoryContract!Nothing = NoRoot
  /\ RepositoryContract!Batches = Batches
  /\ \A r : RepositoryContract!Base(r) = Base(r)
  /\ \A id, state, recorded, spoiled :
       RepositoryContract!Root(id, state, recorded, spoiled) =
         [id |-> id, state |-> state, recorded |-> recorded,
          spoiled |-> spoiled]
  BY DEF RepositoryContract!Nothing, NoRoot, RepositoryContract!Batches,
         Batches, RepositoryContract!Base, Base, RepositoryContract!Root

(***************************************************************************)
(* What the contract's held and log are, field by field.                   *)
(***************************************************************************)
LEMMA HeldProperties ==
  ASSUME RepositoryInv, NEW c \in Clients
  PROVE  /\ root[c] = NoRoot <=> Holdings[c] = NoRoot
         /\ root[c] # NoRoot =>
              /\ Holdings[c].id = root[c].id
              /\ Holdings[c].state = root[c].state
              /\ Holdings[c].recorded = Current(c).recorded
              /\ Holdings[c].spoiled = ~ Sound(c)
         /\ Base(Holdings[c]) = Base(Current(c)) \/ root[c] = NoRoot
<1>1. Holdings[c] = Held(c)
  BY DEF Holdings
<1>2. CASE root[c] = NoRoot
  BY <1>1, <1>2 DEF Held
<1>3. CASE root[c] # NoRoot
  <2>1. Holdings[c] =
          [id |-> root[c].id, state |-> root[c].state,
           recorded |-> IF Saving(c) THEN call[c].events ELSE root[c].recorded,
           spoiled |-> \/ failed[c]
                      \/ reply[c].kind \notin {"pending", "appended"}]
    BY <1>1, <1>3 DEF Held
  <2>2. Holdings[c] # NoRoot
    BY <2>1 DEF NoRoot
  <2>3. /\ Holdings[c].id = root[c].id
        /\ Holdings[c].state = root[c].state
        /\ Holdings[c].recorded = Current(c).recorded
        /\ Current(c).state = root[c].state
    BY <2>1 DEF Current
  <2>4. Holdings[c].spoiled = ~ Sound(c)
    BY <1>3, <2>1 DEF Sound
  <2>5. Base(Holdings[c]) = Base(Current(c))
    BY <2>3 DEF Base
  <2> QED BY <1>3, <2>2, <2>3, <2>4, <2>5
<1> QED BY <1>2, <1>3

(***************************************************************************)
(* A step of client c does to the contract's held what it does to the root *)
(* of c.                                                                   *)
(***************************************************************************)
LEMMA HoldingsStep ==
  ASSUME NEW c \in Clients, \A d \in Clients \ {c} : Untouched(d),
         root'[c] # NoRoot,
         NEW recorded, recorded = Current(c)'.recorded,
         NEW spoiled \in BOOLEAN, spoiled = ~ Sound(c)'
  PROVE  Holdings' =
           [Holdings EXCEPT ![c] =
              RepositoryContract!Root(root'[c].id, root'[c].state, recorded,
                                      spoiled)]
<1>1. ASSUME NEW d \in Clients, d # c PROVE Held(d)' = Held(d)
  BY <1>1 DEF Untouched, Held, Saving
<1>2. Held(c)' = RepositoryContract!Root(root'[c].id, root'[c].state, recorded,
                                         spoiled)
  <2>1. recorded = IF Saving(c)' THEN call'[c].events ELSE root'[c].recorded
    BY DEF Current
  <2>2. spoiled = (failed'[c] \/ reply'[c].kind \notin {"pending", "appended"})
    BY DEF Sound
  <2> QED BY <2>1, <2>2 DEF Held, RepositoryContract!Root
<1> QED BY <1>1, <1>2 DEF Holdings

LEMMA RefinesNothing ==
  ASSUME NEW c \in Clients, \A d \in Clients \ {c} : Untouched(d),
         root[c] # NoRoot, root'[c] # NoRoot,
         root'[c].id = root[c].id, root'[c].state = root[c].state,
         Current(c)'.recorded = Current(c).recorded, Sound(c)' = Sound(c)
  PROVE  Holdings' = Holdings
<1>1. ASSUME NEW d \in Clients, d # c PROVE Held(d)' = Held(d)
  BY <1>1 DEF Untouched, Held, Saving
<1>2. Held(c)' = Held(c)
  <2>1. (IF Saving(c) THEN call[c].events ELSE root[c].recorded)'
          = IF Saving(c) THEN call[c].events ELSE root[c].recorded
    BY DEF Current
  <2>2. (failed[c] \/ reply[c].kind \notin {"pending", "appended"})'
          = (failed[c] \/ reply[c].kind \notin {"pending", "appended"})
    BY DEF Sound
  <2> QED BY <2>1, <2>2 DEF Held
<1> QED BY <1>1, <1>2 DEF Holdings

LEMMA RefinesSaveFails ==
  ASSUME RepositoryInv, NEW c \in Clients, Sound(c),
         \A d \in Clients \ {c} : Untouched(d), root'[c] = root[c],
         ~ Sound(c)', Current(c)'.recorded \in {<<>>, Current(c).recorded},
         RepositoryContract!CompareAndSet(c) \/ Cells' = Cells
  PROVE  RepositoryContract!SaveFails(c)
<1> DEFINE rest == Current(c)'.recorded
<1>1. /\ root[c] # NoRoot /\ Holdings[c] # NoRoot
      /\ Holdings[c].spoiled = FALSE
      /\ Holdings[c].id = root[c].id /\ Holdings[c].state = root[c].state
      /\ Holdings[c].recorded = Current(c).recorded
  BY HeldProperties DEF Sound
<1>2. Holdings' =
        [Holdings EXCEPT ![c] =
           RepositoryContract!Root(root[c].id, root[c].state, rest, TRUE)]
  BY <1>1, HoldingsStep
<1>3. rest \in {<<>>, Holdings[c].recorded}
  BY <1>1
<1> HIDE DEF rest
<1>4. RepositoryContract!Valid(c)
  BY <1>1, RepositoryVocabulary DEF RepositoryContract!Valid
<1>5. Holdings' =
        [Holdings EXCEPT ![c] =
           RepositoryContract!Root(@.id, @.state, rest, TRUE)]
  BY <1>1, <1>2
<1> QED BY <1>3, <1>4, <1>5 DEF RepositoryContract!SaveFails

(***************************************************************************)
(* The COMMIT is the compare-and-set of the contract.                      *)
(***************************************************************************)
LEMMA CommitRefines ==
  ASSUME RepositoryInv, NEW c \in Clients, CommitSave(c)
  PROVE  /\ RepositoryContract!CompareAndSet(c)
         /\ Sound(c) /\ root'[c] = root[c] /\ Current(c)'.recorded = <<>>
<1> DEFINE id == root[c].id
<1>1. /\ pc[c] = "insert" /\ UNCHANGED <<root, call>>
      /\ pc' = [pc EXCEPT ![c] = "return"]
      /\ aggregates' = [aggregates EXCEPT ![call[c].id] =
                          [version |-> root[c].version,
                           state |-> root[c].state]]
  BY DEF CommitSave, CommitSucceeds, CommitAnswerLost, Commit, Goto, rootVars
<1>2. /\ Sound(c) /\ root[c] # NoRoot /\ id \in StreamIDs
      /\ call[c].id = id /\ root[c].recorded = <<>>
      /\ aggregates[id].state = rows[id] /\ Base(Current(c)) = rows[id]
  BY <1>1, CommitFacts DEF Sound
<1>3. Cells[id] = Base(Current(c))
  BY <1>2 DEF Cells
<1>4. Cells' = [Cells EXCEPT ![id] = root[c].state]
  BY <1>1, <1>2 DEF Cells, RepositoryInv, RepositoryTypes
<1>5. /\ Holdings[c].id = id /\ Holdings[c].state = root[c].state
      /\ RepositoryContract!Base(Holdings[c]) = Base(Current(c))
  BY <1>2, HeldProperties, RepositoryVocabulary
<1>6. RepositoryContract!CompareAndSet(c)
  BY <1>3, <1>4, <1>5 DEF RepositoryContract!CompareAndSet
<1>7. pc'[c] = "return"
  BY <1>1 DEF RepositoryInv, StoreInv, Types
<1>8. Current(c)'.recorded = <<>>
  BY <1>1, <1>2, <1>7 DEF Current, Saving
<1> QED BY <1>1, <1>2, <1>6, <1>8

(***************************************************************************)
(* Every step of the repository is a step of the contract or leaves the    *)
(* contract's variables alone.                                             *)
(***************************************************************************)
LEMMA SaveRefines ==
  ASSUME ~ ReuseFailedRoots, RepositoryInv, NEW c \in Clients, Save(c)
  PROVE  \/ RepositoryContract!Save(c) \/ RepositoryContract!SaveFails(c)
         \/ Cells' = Cells /\ Holdings' = Holdings
<1> DEFINE Idle == Cells' = Cells /\ Holdings' = Holdings
           Others == \A d \in Clients \ {c} : Untouched(d)
<1> USE DEF rootVars
<1>1. /\ StoreInv /\ Types /\ RepositoryTypes /\ CallOf(c) /\ RootOf(c)
  BY DEF RepositoryInv, StoreInv
<1>2. ASSUME pc[c] \in {"begin", "select", "upsert", "insert"} PROVE Sound(c)
  <2>1. reply[c] = Pending /\ root[c] # NoRoot /\ ~ failed[c]
    BY <1>1, <1>2 DEF CallOf, RootOf
  <2> QED BY <2>1 DEF Sound, Pending
<1>3. CASE CallSave(c)
  <2>1. /\ pc[c] = "idle" /\ root[c] # NoRoot
        /\ pc' = [pc EXCEPT ![c] = "begin"]
        /\ call' = [call EXCEPT ![c] =
                      AppendCall(root[c].id, SaveCheck(root[c]),
                                 root[c].recorded)]
        /\ UNCHANGED <<reply, root, failed, aggregates>>
    BY <1>3 DEF CallSave, Usable, Holds, StartTransaction, Goto
  <2>2. Others /\ ~ Saving(c) /\ ~ Saving(c)'
    BY <1>1, <2>1 DEF Untouched, Types, Saving
  <2>3. Current(c)'.recorded = Current(c).recorded /\ Sound(c)' = Sound(c)
    BY <2>1, <2>2 DEF Current, Sound
  <2> QED BY <2>1, <2>2, <2>3, RefinesNothing DEF Cells
<1>4. CASE BeginSave(c)
  <2>1. /\ pc[c] = "begin" /\ root[c] # NoRoot
        /\ pc' = [pc EXCEPT ![c] = "select"]
        /\ root' = [root EXCEPT ![c] = FlushRecordedEvents(root[c])]
        /\ call[c].events = root[c].recorded
        /\ UNCHANGED <<call, reply, failed, aggregates>>
    BY <1>1, <1>4 DEF BeginSave, BeginTx, Goto, RootOf
  <2>2. Others /\ ~ Saving(c) /\ Saving(c)'
    BY <1>1, <2>1 DEF Untouched, Types, RepositoryTypes, Saving
  <2>3. /\ root'[c] # NoRoot /\ root'[c].id = root[c].id
        /\ root'[c].state = root[c].state
    BY <1>1, <2>1, FlushProperties, RootTypes DEF RepositoryTypes
  <2>4. Current(c)'.recorded = Current(c).recorded
    BY <2>1, <2>2 DEF Current
  <2>5. Sound(c)' = Sound(c)
    BY <2>1, <2>3 DEF Sound
  <2> QED BY <2>1, <2>2, <2>3, <2>4, <2>5, RefinesNothing DEF Cells
<1>5. ASSUME NEW label, NEW r,
             \/ pc[c] = "begin" /\ label = "return"
             \/ Saving(c) /\ label = "rollback",
             Goto(c, label), Answer(c, r),
             r.kind \notin {"pending", "appended"},
             UNCHANGED <<call, aggregates, root, failed>>
      PROVE  RepositoryContract!SaveFails(c)
  <2>1. pc'[c] = label /\ reply'[c] = r
    BY <1>1, <1>5 DEF Goto, Answer, Types
  <2>2. Others
    BY <1>1, <1>5 DEF Untouched, Goto, Answer, Types
  <2>3. Sound(c) /\ ~ Sound(c)'
    BY <1>2, <1>5, <2>1 DEF Sound, Saving
  <2>4. Current(c)'.recorded \in {<<>>, Current(c).recorded}
    BY <1>1, <1>5, <2>1 DEF Current, Saving, RootOf
  <2>5. Cells' = Cells
    BY <1>5 DEF Cells
  <2> QED BY <1>5, <2>2, <2>3, <2>4, <2>5, RefinesSaveFails
<1>6. ASSUME Saving(c), Saving(c)', \A d \in Clients \ {c} : pc'[d] = pc[d],
             UNCHANGED <<call, reply, aggregates, root, failed>>
      PROVE  Idle
  <2>1. Others /\ root[c] # NoRoot
    BY <1>1, <1>6 DEF Untouched, Saving, RootOf
  <2>2. Current(c)'.recorded = Current(c).recorded /\ Sound(c)' = Sound(c)
    BY <1>6 DEF Current, Sound
  <2> QED BY <1>6, <2>1, <2>2, RefinesNothing DEF Cells
<1>7. Failed.kind \notin {"pending", "appended"}
  BY DEF Failed
<1>8. CASE AppendStatement(c)
  <2>1. UNCHANGED <<aggregates, root, failed>>
    BY <1>8 DEF AppendStatement
  <2>2. CASE SelectStream(c)
    <3> DEFINE old == streams[call[c].id]
               answer == Conflict(call[c].expected, old)
    <3>1. CASE VersionConflicts(call[c].expected, old)
      <4>1. answer.kind \notin {"pending", "appended"}
        BY DEF Conflict
      <4>2. /\ Saving(c) /\ Goto(c, "rollback") /\ Answer(c, answer)
            /\ UNCHANGED call
        BY <2>2, <3>1 DEF SelectStream, Saving
      <4> HIDE DEF answer
      <4> QED BY <1>5, <2>1, <4>1, <4>2
    <3>2. CASE ~ VersionConflicts(call[c].expected, old)
      <4>1. /\ pc[c] = "select" /\ pc' = [pc EXCEPT ![c] = "upsert"]
            /\ UNCHANGED <<call, reply>>
        BY <2>2, <3>2 DEF SelectStream, Goto
      <4>2. /\ Saving(c) /\ Saving(c)'
            /\ \A d \in Clients \ {c} : pc'[d] = pc[d]
        BY <1>1, <4>1 DEF Types, Saving
      <4> QED BY <1>6, <2>1, <4>1, <4>2
    <3> QED BY <3>1, <3>2
  <2>3. CASE UpsertStream(c)
    <3>1. /\ pc[c] = "upsert" /\ pc' = [pc EXCEPT ![c] = "insert"]
          /\ UNCHANGED <<call, reply>>
      BY <2>3 DEF UpsertStream, Goto
    <3>2. /\ Saving(c) /\ Saving(c)'
          /\ \A d \in Clients \ {c} : pc'[d] = pc[d]
      BY <1>1, <3>1 DEF Types, Saving
    <3> QED BY <1>6, <2>1, <3>1, <3>2
  <2>4. CASE InsertEvent(c)
    BY <1>6, <2>1, <2>4 DEF InsertEvent, Inserting, Saving
  <2>5. CASE UpsertFails(c) \/ StatementFails(c)
    <3>1. /\ Saving(c) /\ Goto(c, "rollback") /\ Answer(c, Failed)
          /\ UNCHANGED call
      BY <2>5 DEF UpsertFails, StatementFails, Inserting, Saving
    <3> QED BY <1>5, <1>7, <2>1, <3>1
  <2>6. CASE BeginFails(c)
    <3>1. /\ pc[c] = "begin" /\ Goto(c, "return") /\ Answer(c, Failed)
          /\ UNCHANGED call
      BY <2>6 DEF BeginFails
    <3> QED BY <1>5, <1>7, <2>1, <3>1
  <2> QED BY <1>8, <2>2, <2>3, <2>4, <2>5, <2>6 DEF AppendStatement
<1>9. CASE SaveAggregateState(c)
  BY <1>6, <1>9
     DEF SaveAggregateState, AllInserted, Saving, storeVars, txVars
<1>10. CASE SaveStateFails(c)
  <2>1. /\ Saving(c) /\ Goto(c, "rollback") /\ Answer(c, Failed)
        /\ UNCHANGED <<call, aggregates, root, failed>>
    BY <1>10 DEF SaveStateFails, AllInserted, Saving
  <2> QED BY <1>5, <1>7, <2>1
<1>11. CASE CommitSave(c)
  <2>1. /\ RepositoryContract!CompareAndSet(c)
        /\ Sound(c) /\ root'[c] = root[c] /\ Current(c)'.recorded = <<>>
        /\ failed'[c] = failed[c]
    BY <1>11, CommitRefines DEF CommitSave
  <2>2. Others
    BY <1>1, <1>11 DEF CommitSave, CommitSucceeds, CommitAnswerLost, Commit,
                       Untouched, Goto, Answer, Types
  <2>3. CASE CommitAnswerLost(c)
    <3>1. reply'[c] = Failed
      BY <1>1, <2>3 DEF CommitAnswerLost, Answer, Types
    <3>2. ~ Sound(c)'
      BY <1>7, <3>1 DEF Sound
    <3> QED BY <2>1, <2>2, <3>2, RefinesSaveFails
  <2>4. CASE CommitSucceeds(c)
    <3>1. reply'[c] = Appended(newVersion(c))
      BY <1>1, <2>4 DEF CommitSucceeds, Answer, Types
    <3>2. Sound(c)'
      BY <2>1, <3>1 DEF Sound, Appended
    <3>3. /\ root[c] # NoRoot /\ Holdings[c] # NoRoot
          /\ Holdings[c].spoiled = FALSE
          /\ Holdings[c].id = root[c].id /\ Holdings[c].state = root[c].state
      BY <2>1, HeldProperties DEF Sound
    <3>4. Holdings' =
            [Holdings EXCEPT ![c] =
               RepositoryContract!Root(root[c].id, root[c].state, <<>>, FALSE)]
      BY <2>1, <2>2, <3>2, <3>3, HoldingsStep
    <3>5. Holdings' =
            [Holdings EXCEPT ![c] =
               RepositoryContract!Root(@.id, @.state, <<>>, FALSE)]
      BY <3>3, <3>4
    <3>6. RepositoryContract!Valid(c)
      BY <3>3, RepositoryVocabulary DEF RepositoryContract!Valid
    <3> QED BY <2>1, <3>5, <3>6 DEF RepositoryContract!Save
  <2> QED BY <1>11, <2>3, <2>4 DEF CommitSave
<1>12. CASE RollbackSave(c)
  <2>1. /\ pc[c] = "rollback" /\ pc' = [pc EXCEPT ![c] = "return"]
        /\ UNCHANGED <<call, reply, root, failed, aggregates>>
    BY <1>12 DEF RollbackSave, Rollback, Goto
  <2>2. Others /\ ~ Saving(c) /\ ~ Saving(c)' /\ root[c] # NoRoot
    BY <1>1, <2>1 DEF Untouched, Types, Saving, RootOf
  <2>3. Current(c)'.recorded = Current(c).recorded /\ Sound(c)' = Sound(c)
    BY <2>1, <2>2 DEF Current, Sound
  <2> QED BY <2>1, <2>2, <2>3, RefinesNothing DEF Cells
<1>13. CASE ReturnSave(c)
  <2>1. /\ pc[c] = "return" /\ pc' = [pc EXCEPT ![c] = "idle"]
        /\ call' = [call EXCEPT ![c] = NoCall]
        /\ reply' = [reply EXCEPT ![c] = Pending]
        /\ failed' = [failed EXCEPT ![c] = (reply[c].kind # "appended")]
        /\ UNCHANGED <<root, aggregates>>
    BY <1>13 DEF ReturnSave, Return, Answer, Goto
  <2>2. Others /\ ~ Saving(c) /\ ~ Saving(c)' /\ root[c] # NoRoot
    BY <1>1, <2>1 DEF Untouched, Types, RepositoryTypes, Saving, RootOf
  <2>3. Current(c)'.recorded = Current(c).recorded
    BY <2>1, <2>2 DEF Current
  <2>4. Sound(c)' = Sound(c)
    <3>1. /\ ~ failed[c] /\ reply[c] # Pending /\ reply[c] \in Replies
          /\ failed'[c] = (reply[c].kind # "appended")
          /\ reply'[c] = Pending
      BY <1>1, <2>1, <2>2 DEF RootOf, CallOf, Types, RepositoryTypes
    <3>2. reply[c].kind # "pending" /\ reply'[c].kind = "pending"
      BY <3>1, ReplyKinds DEF Pending
    <3> QED BY <2>1, <2>2, <3>1, <3>2 DEF Sound
  <2> QED BY <2>1, <2>2, <2>3, <2>4, RefinesNothing DEF Cells
<1> QED BY <1>3, <1>4, <1>8, <1>9, <1>10, <1>11, <1>12, <1>13 DEF Save

LEMMA RepositoryStepRefines ==
  ASSUME ~ ReuseFailedRoots, RepositoryInv, [RepositoryNext]_repositoryVars
  PROVE  [RepositoryContract!Next]_RepositoryContract!vars
<1> DEFINE Idle == Cells' = Cells /\ Holdings' = Holdings
           Kept(c) == /\ \A d \in Clients \ {c} : Untouched(d)
                      /\ pc' = pc /\ call' = call /\ reply' = reply
                      /\ Cells' = Cells
<1> USE DEF rootVars
<1>1. Types /\ RepositoryTypes /\ \A d \in Clients : CallOf(d) /\ RootOf(d)
  BY DEF RepositoryInv, StoreInv
<1>2. ASSUME NEW c \in Clients, pc[c] = "idle"
      PROVE  /\ ~ Saving(c) /\ reply[c].kind = "pending"
             /\ root[c] # NoRoot => Current(c) = root[c]
             /\ root[c] # NoRoot /\ ~ failed[c] => Sound(c)
  <2>1. reply[c] = Pending /\ ~ Saving(c)
    BY <1>1, <1>2 DEF CallOf, Saving
  <2> QED BY <2>1, CurrentTypes DEF Sound, Pending, RepositoryInv
<1>3. ASSUME NEW c \in Clients, NEW id \in StreamIDs, NEW state,
             root[c] = NoRoot, Kept(c), failed' = failed,
             root'[c] # NoRoot, root'[c].id = id, root'[c].state = state,
             root'[c].recorded = <<>>
      PROVE  RepositoryContract!Hold(c, id, state)
  <2>1. pc[c] = "idle" /\ ~ failed[c]
    BY <1>1, <1>3 DEF RootOf
  <2>2. Current(c)'.recorded = <<>> /\ Sound(c)'
    BY <1>2, <1>3, <2>1 DEF Current, Saving, Sound
  <2>3. Holdings' =
          [Holdings EXCEPT ![c] =
             RepositoryContract!Root(id, state, <<>>, FALSE)]
    BY <1>3, <2>2, HoldingsStep
  <2>4. Holdings[c] = NoRoot
    BY <1>3, HeldProperties
  <2> QED BY <1>3, <2>3, <2>4, RepositoryVocabulary
          DEF RepositoryContract!Hold
<1>4. ASSUME NEW c \in Clients, NEW id \in StreamIDs, Create(c, id)
      PROVE  RepositoryContract!Create(c, id)
  <2>1. root[c] = NoRoot /\ Kept(c) /\ failed' = failed
        /\ root'[c] = NewRoot(id)
    BY <1>1, <1>4 DEF Create, Untouched, RepositoryTypes, Cells, storeVars,
                      txVars
  <2>2. /\ root'[c] # NoRoot /\ root'[c].id = id /\ root'[c].state = <<>>
        /\ root'[c].recorded = <<>>
    BY <2>1, NewRootProperties, RootTypes DEF NewRoot
  <2> QED BY <1>3, <2>1, <2>2 DEF RepositoryContract!Create
<1>5. ASSUME NEW c \in Clients, NEW id \in StreamIDs, Get(c, id)
      PROVE  RepositoryContract!Get(c, id)
  <2> DEFINE s == aggregates[id].state
  <2>1. /\ root[c] = NoRoot /\ Kept(c) /\ failed' = failed
        /\ root'[c] = RehydrateFromState(id, aggregates[id].version, s)
        /\ aggregates[id] # NoRow
    BY <1>1, <1>5 DEF Get, Untouched, RepositoryTypes, Cells, storeVars,
                      txVars
  <2>2. s \in Seq(Events) /\ aggregates[id].version = Len(s)
    BY <1>1 DEF RepositoryInv, RepositoryTypes, RowOf
  <2>3. root'[c] = RehydrateFromEvents(id, s)
    BY <2>1, <2>2 DEF RehydrateFromState, RehydrateFromEvents
  <2>4. /\ root'[c] # NoRoot /\ root'[c].id = id /\ root'[c].state = s
        /\ root'[c].recorded = <<>>
    BY <2>2, <2>3, RehydrateProperties, RootTypes DEF RehydrateFromEvents
  <2>5. Cells[id] = s
    BY DEF Cells
  <2>6. s # <<>>
    <3>1. aggregates[id] = [version |-> aggregates[id].version, state |-> s]
      BY <1>1 DEF RepositoryTypes
    <3>2. Len(<<>>) = 0
      BY EmptySeq
    <3> QED BY <2>1, <2>2, <3>1, <3>2 DEF NoRow
  <2>7. RepositoryContract!Hold(c, id, s)
    BY <1>3, <2>1, <2>4
  <2> QED BY <2>5, <2>6, <2>7 DEF RepositoryContract!Get
<1>6. ASSUME NEW c \in Clients, NEW batch \in Batches, Record(c, batch)
      PROVE  \E part \in Batches : RepositoryContract!Record(c, part)
  <2>1. PICK n \in 0 .. Len(batch) :
          root' = [root EXCEPT ![c] = RecordThat(root[c], batch, n)]
    BY <1>6 DEF Record
  <2> DEFINE part == SubSeq(batch, 1, n)
  <2>2. part \in Batches
    BY PartOfBatch
  <2>3. /\ pc[c] = "idle" /\ root[c] # NoRoot /\ ~ failed[c] /\ Kept(c)
        /\ failed' = failed
    BY <1>1, <1>6, <2>1
       DEF Record, Usable, Holds, Untouched, RepositoryTypes, Cells,
           storeVars, txVars
  <2>4. root[c] \in Roots /\ batch \in Seq(Events)
    BY <1>1, <2>3, BatchTypes DEF RepositoryTypes
  <2>5. /\ root'[c] = RecordThat(root[c], batch, n) /\ root'[c] # NoRoot
    BY <1>1, <2>1, <2>4, RecordThatProperties, RootTypes DEF RepositoryTypes
  <2>6. /\ root'[c].id = root[c].id
        /\ root'[c].state = root[c].state \o part
        /\ root'[c].recorded = root[c].recorded \o part
    <3>1. LET r == RecordThat(root[c], batch, n)
          IN  /\ r.id = root[c].id /\ r.state = root[c].state \o part
              /\ r.recorded = root[c].recorded \o part
      BY DEF RecordThat
    <3> QED BY <2>5, <3>1
  <2> HIDE DEF part
  <2>7. /\ Sound(c) /\ Sound(c)' /\ Current(c).recorded = root[c].recorded
        /\ Current(c)'.recorded = root[c].recorded \o part
    <3>1. ~ Saving(c)' /\ reply'[c].kind = "pending" /\ ~ failed'[c]
      BY <1>2, <2>3 DEF Saving
    <3> QED BY <1>2, <2>3, <2>5, <2>6, <3>1 DEF Sound, Current
  <2>8. Holdings' =
          [Holdings EXCEPT ![c] =
             RepositoryContract!Root(root[c].id, root[c].state \o part,
                                     root[c].recorded \o part, FALSE)]
    BY <2>3, <2>5, <2>6, <2>7, HoldingsStep
  <2>9. /\ Holdings[c] # NoRoot /\ Holdings[c].spoiled = FALSE
        /\ Holdings[c].id = root[c].id /\ Holdings[c].state = root[c].state
        /\ Holdings[c].recorded = root[c].recorded
    BY <2>3, <2>7, HeldProperties
  <2>10. Holdings' =
           [Holdings EXCEPT ![c] =
              RepositoryContract!Root(@.id, @.state \o part,
                                      @.recorded \o part, FALSE)]
    BY <2>8, <2>9
  <2>11. RepositoryContract!Record(c, part)
    BY <2>3, <2>9, <2>10, RepositoryVocabulary
       DEF RepositoryContract!Record, RepositoryContract!Valid
  <2> QED BY <2>2, <2>11
<1>7. ASSUME NEW c \in Clients, Drop(c) PROVE RepositoryContract!Drop(c)
  <2>1. /\ root[c] # NoRoot /\ root'[c] = NoRoot /\ Kept(c)
    BY <1>1, <1>7 DEF Drop, Holds, Untouched, RepositoryTypes, Cells,
                      storeVars, txVars
  <2>2. \A d \in Clients \ {c} : Held(d)' = Held(d)
    BY <2>1 DEF Untouched, Held, Saving
  <2>3. Held(c)' = NoRoot
    BY <2>1 DEF Held
  <2>4. Holdings' = [Holdings EXCEPT ![c] = NoRoot]
    BY <2>2, <2>3 DEF Holdings
  <2>5. Holdings[c] # NoRoot
    BY <2>1, HeldProperties
  <2> QED BY <2>1, <2>4, <2>5, RepositoryVocabulary
          DEF RepositoryContract!Drop
<1>8. ASSUME NEW id \in StreamIDs, NEW evt \in Events, Bypass(id, evt)
      PROVE  Idle
  BY <1>8 DEF Bypass, Cells, Holdings, Held, Saving
<1>9. ASSUME UNCHANGED repositoryVars PROVE Idle
  BY <1>9 DEF repositoryVars, storeVars, txVars, Cells, Holdings, Held, Saving
<1> HIDE DEF Idle
<1>10. ASSUME NEW c \in Clients, Use(c) PROVE RepositoryContract!Next \/ Idle
  BY <1>4, <1>5, <1>6, <1>7, <1>10, SaveRefines, RepositoryVocabulary
     DEF Use, RepositoryContract!Next, Idle
<1>11. RepositoryContract!Next \/ Idle
  BY <1>8, <1>9, <1>10 DEF RepositoryNext
<1> QED BY <1>11 DEF Idle, RepositoryContract!vars

(***************************************************************************)
(* The repository implements the contract of aggregate.Repository: Save is *)
(* a compare-and-set on the snapshot, for any number of clients, whatever  *)
(* fails, and whoever appends to the streams beside the repository.        *)
(***************************************************************************)
THEOREM RepositoryImplementation ==
  ASSUME ~ ReuseFailedRoots PROVE RepositorySpec => ImplementsRepository
<1>1. RepositoryInit => RepositoryContract!Init
  <2> SUFFICES ASSUME RepositoryInit PROVE RepositoryContract!Init
    OBVIOUS
  <2>1. Cells = [id \in StreamIDs |-> <<>>]
    BY DEF RepositoryInit, Cells, NoRow
  <2>2. Holdings = [c \in Clients |-> NoRoot]
    BY DEF RepositoryInit, Holdings, Held
  <2> QED BY <2>1, <2>2, RepositoryVocabulary DEF RepositoryContract!Init
<1>2. RepositoryInv /\ [RepositoryNext]_repositoryVars
        => [RepositoryContract!Next]_RepositoryContract!vars
  BY RepositoryStepRefines
<1> QED BY AlwaysRepositoryInv, <1>1, <1>2, PTL
        DEF RepositorySpec, ImplementsRepository, RepositoryContract!Spec

=============================================================================
