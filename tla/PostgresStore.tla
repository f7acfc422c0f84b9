---------------------------- MODULE PostgresStore ----------------------------
(***************************************************************************)
(* postgres.EventStore: Append and Stream over the tables event_streams    *)
(* and events (postgres/event_store.go, postgres/append_domain_events.go,  *)
(* postgres/internal/transaction.go, postgres/migrations).                 *)
(*                                                                         *)
(* Append is one SERIALIZABLE transaction of several statements.  The      *)
(* database (external) is modelled by what those statements rely on: the   *)
(* first SELECT takes the snapshot; a write to a row waits for the         *)
(* transaction that holds the row; it fails with a serialization error if  *)
(* another transaction changed the row after the snapshot; a COMMIT makes  *)
(* all the writes visible at once, a rollback none.                        *)
(*                                                                         *)
(* Faults stands for everything else that can fail a statement: a lost     *)
(* connection, a cancelled context, a serde error, a conflict the          *)
(* database suspects.  A COMMIT whose answer is lost may have succeeded.   *)
(***************************************************************************)
EXTENDS Event, SequencesExt

CONSTANTS
  Clients,
  NoOne,
  Faults

ASSUME PostgresAssumption == NoOne \notin Clients /\ Faults \in BOOLEAN

VARIABLES
  streams,      \* event_streams: streams[id] is the version, 0 if no row
  rows,         \* events: rows[id][version], the primary key
  holder,       \* holder[id]: the client whose transaction wrote the
                \*   event_streams row and has not ended, or NoOne
  pc,           \* pc[c]: the next statement of c
  call,         \* call[c]: the call c is in, or NoCall
  oldVersion,   \* oldVersion[c]: what the SELECT of appendDomainEvents read
  overwritten,  \* overwritten[c]: c's snapshot of the row is out of date
  inserted,     \* inserted[c]: how many events c's transaction has inserted
  reply         \* reply[c]: what the call of c is about to return

tables == <<streams, rows>>

txVars == <<holder, pc, call, oldVersion, overwritten, inserted, reply>>

storeVars == <<tables, txVars>>

Init ==
  /\ streams = [id \in StreamIDs |-> 0]
  /\ rows = [id \in StreamIDs |-> <<>>]
  /\ holder = [id \in StreamIDs |-> NoOne]
  /\ pc = [c \in Clients |-> "idle"]
  /\ call = [c \in Clients |-> NoCall]
  /\ oldVersion = [c \in Clients |-> 0]
  /\ overwritten = [c \in Clients |-> FALSE]
  /\ inserted = [c \in Clients |-> 0]
  /\ reply = [c \in Clients |-> Pending]

Goto(c, label) == pc' = [pc EXCEPT ![c] = label]

Answer(c, r) == reply' = [reply EXCEPT ![c] = r]

newVersion(c) == oldVersion[c] + Len(call[c].events)

(***************************************************************************)
(* The bound on the length of a stream, counting the batches under way.    *)
(***************************************************************************)
OnTheWay(id) ==
  {c \in Clients : pc[c] \in {"begin", "select", "upsert", "insert"}
                     /\ call[c].id = id}

Fits(request) ==
  Len(rows[request.id]) + Len(request.events)
    + MapThenSumSet(LAMBDA c : Len(call[c].events), OnTheWay(request.id))
  <= MaxVersion

-----------------------------------------------------------------------------

StartTransaction(c, request) ==
  /\ pc[c] = "idle"
  /\ call' = [call EXCEPT ![c] = request]
  /\ Goto(c, "begin")
  /\ UNCHANGED <<tables, holder, oldVersion, overwritten, inserted, reply>>

CallAppend(c, request) == Fits(request) /\ StartTransaction(c, request)

BeginTx(c) ==
  /\ pc[c] = "begin"
  /\ Goto(c, "select")
  /\ UNCHANGED <<tables, holder, call, oldVersion, overwritten, inserted,
                 reply>>

BeginFails(c) ==
  /\ Faults
  /\ pc[c] = "begin"
  /\ Answer(c, Failed)
  /\ Goto(c, "return")
  /\ UNCHANGED <<tables, holder, call, oldVersion, overwritten, inserted>>

(***************************************************************************)
(* SELECT version: takes the snapshot.  The check is made on what it read. *)
(***************************************************************************)
VersionConflicts(expected, old) == expected # CheckAny /\ old # expected

SelectStream(c) ==
  LET old == streams[call[c].id]
  IN  /\ pc[c] = "select"
      /\ oldVersion' = [oldVersion EXCEPT ![c] = old]
      /\ overwritten' = [overwritten EXCEPT ![c] = FALSE]
      /\ \/ /\ VersionConflicts(call[c].expected, old)
            /\ Answer(c, Conflict(call[c].expected, old))
            /\ Goto(c, "rollback")
         \/ /\ ~ VersionConflicts(call[c].expected, old)
            /\ Goto(c, "upsert")
            /\ UNCHANGED reply
      /\ UNCHANGED <<tables, holder, call, inserted>>

(***************************************************************************)
(* INSERT INTO event_streams ... ON CONFLICT DO UPDATE.  The column has    *)
(* CHECK (version > 0), so that a stream cannot be created empty.          *)
(***************************************************************************)
RowIsStale_ReadCommitted(c) == FALSE

RowIsStale(c) == overwritten[c]

UpsertStream(c) ==
  /\ pc[c] = "upsert"
  /\ holder[call[c].id] = NoOne
  /\ ~ RowIsStale(c)
  /\ newVersion(c) > 0
  /\ holder' = [holder EXCEPT ![call[c].id] = c]
  /\ Goto(c, "insert")
  /\ UNCHANGED <<tables, call, oldVersion, overwritten, inserted, reply>>

UpsertFails(c) ==
  /\ pc[c] = "upsert"
  /\ holder[call[c].id] = NoOne
  /\ RowIsStale(c) \/ newVersion(c) = 0
  /\ Answer(c, Failed)
  /\ Goto(c, "rollback")
  /\ UNCHANGED <<tables, holder, call, oldVersion, overwritten, inserted>>

(***************************************************************************)
(* INSERT INTO events, for each event; the key is (stream, version).       *)
(***************************************************************************)
EventVersion(c, i) == oldVersion[c] + i + 1

KeyTaken(c) == EventVersion(c, inserted[c]) \in DOMAIN rows[call[c].id]

Inserting(c) == pc[c] = "insert" /\ inserted[c] < Len(call[c].events)

InsertEvent(c) ==
  /\ Inserting(c)
  /\ ~ KeyTaken(c)
  /\ inserted' = [inserted EXCEPT ![c] = @ + 1]
  /\ UNCHANGED <<tables, holder, pc, call, oldVersion, overwritten, reply>>

StatementFails(c) ==
  /\ \/ Faults /\ pc[c] \in {"select", "upsert", "insert"}
     \/ Inserting(c) /\ KeyTaken(c)
  /\ Answer(c, Failed)
  /\ Goto(c, "rollback")
  /\ UNCHANGED <<tables, holder, call, oldVersion, overwritten, inserted>>

(***************************************************************************)
(* The end of a transaction lets the next writer of the row go on.  The    *)
(* writes become visible, or do not.                                       *)
(***************************************************************************)
ReleaseRow(c) ==
  holder' = [id \in StreamIDs |-> IF holder[id] = c THEN NoOne ELSE holder[id]]

Writes(c) ==
  LET id    == call[c].id
      batch == call[c].events
      new   == {EventVersion(c, i) : i \in 0 .. Len(batch) - 1}
  IN  /\ streams' = [streams EXCEPT ![id] = newVersion(c)]
      /\ rows' = [rows EXCEPT ![id] =
           [v \in DOMAIN @ \cup new |->
              IF v \in new THEN batch[v - EventVersion(c, 0) + 1] ELSE @[v]]]
      /\ overwritten' = [d \in Clients |->
           overwritten[d] \/ (d # c /\ pc[d] = "upsert" /\ call[d].id = id)]

Commit(c) ==
  /\ pc[c] = "insert"
  /\ inserted[c] = Len(call[c].events)
  /\ Writes(c)
  /\ ReleaseRow(c)
  /\ UNCHANGED <<call, oldVersion, inserted>>

CommitSucceeds(c) ==
  /\ Commit(c)
  /\ Answer(c, Appended(newVersion(c)))
  /\ Goto(c, "return")

CommitAnswerLost(c) ==
  /\ Faults
  /\ Commit(c)
  /\ Answer(c, Failed)
  /\ Goto(c, "return")

Rollback_RowKept(c) ==
  /\ pc[c] = "rollback"
  /\ Goto(c, "return")
  /\ UNCHANGED <<tables, holder, call, oldVersion, overwritten, inserted,
                 reply>>

Rollback(c) ==
  /\ pc[c] = "rollback"
  /\ ReleaseRow(c)
  /\ Goto(c, "return")
  /\ UNCHANGED <<tables, call, oldVersion, overwritten, inserted, reply>>

Return(c) ==
  /\ pc[c] = "return"
  /\ call' = [call EXCEPT ![c] = NoCall]
  /\ oldVersion' = [oldVersion EXCEPT ![c] = 0]
  /\ overwritten' = [overwritten EXCEPT ![c] = FALSE]
  /\ inserted' = [inserted EXCEPT ![c] = 0]
  /\ Answer(c, Pending)
  /\ Goto(c, "idle")
  /\ UNCHANGED <<tables, holder>>

(***************************************************************************)
(* Stream: one query, hence one snapshot of the table; the rows that the   *)
(* consumer then iterates over are its own.                                *)
(***************************************************************************)
CallStream(c, request) ==
  /\ pc[c] = "idle"
  /\ call' = [call EXCEPT ![c] = request]
  /\ Goto(c, "query")
  /\ UNCHANGED <<tables, holder, oldVersion, overwritten, inserted, reply>>

OrderedByVersion(versions) ==
  [k \in 1 .. Cardinality(versions) |->
     CHOOSE v \in versions : Cardinality({w \in versions : w <= v}) = k]

Rows(id, versions) ==
  [k \in DOMAIN versions |->
     [version |-> versions[k], event |-> rows[id][versions[k]]]]

QueriedRows_StrictlyAfter(id, from) ==
  Rows(id, OrderedByVersion({v \in DOMAIN rows[id] : v > from}))

QueriedRows(id, from) ==
  Rows(id, OrderedByVersion({v \in DOMAIN rows[id] : v >= from}))

QueryEvents(c) ==
  LET selected == QueriedRows(call[c].id, call[c].from)
  IN  /\ pc[c] = "query"
      /\ \E n \in 0 .. Len(selected), end \in Ends :
           /\ end = "complete" => n = Len(selected)
           /\ end = "abandoned" => n > 0
           /\ end = "error" => Faults
           /\ Answer(c, Streamed(SubSeq(selected, 1, n), end))
      /\ Goto(c, "return")
      /\ UNCHANGED <<tables, holder, call, oldVersion, overwritten, inserted>>

-----------------------------------------------------------------------------

RowTurn(c) == UpsertStream(c) \/ UpsertFails(c)

Healthy(c) ==
  \/ BeginTx(c)
  \/ SelectStream(c)
  \/ InsertEvent(c)
  \/ CommitSucceeds(c)
  \/ Rollback(c)
  \/ Return(c)
  \/ QueryEvents(c)

Fault(c) ==
  \/ BeginFails(c)
  \/ StatementFails(c)
  \/ CommitAnswerLost(c)

Step(c) == Healthy(c) \/ RowTurn(c) \/ Fault(c)

Start(c) ==
  \/ \E request \in AppendCalls : CallAppend(c, request)
  \/ \E request \in StreamCalls : CallStream(c, request)

Next == \E c \in Clients : Start(c) \/ Step(c)

Spec == Init /\ [][Next]_storeVars

(***************************************************************************)
(* The database answers, though nothing says that a fault ever comes to    *)
(* the help of a call that waits.  Transactions queue for a row, so one    *)
(* that waits for it gets its turn even if the row is soon taken again.    *)
(***************************************************************************)
Fairness ==
  \A c \in Clients : WF_storeVars(Healthy(c)) /\ SF_storeVars(RowTurn(c))

FairSpec == Spec /\ Fairness

-----------------------------------------------------------------------------

(***************************************************************************)
(* The type invariant.  The versions of the rows in events start at 1, as  *)
(* the CHECK constraint of the table demands.                              *)
(***************************************************************************)
TypeOK ==
  /\ streams \in [StreamIDs -> 0 .. MaxVersion]
  /\ rows \in [StreamIDs ->
                  UNION {[D -> Events] : D \in SUBSET (1 .. MaxVersion)}]
  /\ holder \in [StreamIDs -> Clients \cup {NoOne}]
  /\ pc \in [Clients -> {"idle", "begin", "select", "upsert", "insert",
                         "rollback", "return", "query"}]
  /\ call \in [Clients -> {NoCall} \cup AppendCalls \cup StreamCalls]
  /\ oldVersion \in [Clients -> 0 .. MaxVersion]
  /\ overwritten \in [Clients -> BOOLEAN]
  /\ inserted \in [Clients -> 0 .. MaxBatch]
  /\ reply \in [Clients -> Replies]

(***************************************************************************)
(* The two tables agree at every instant: the version in event_streams is  *)
(* the number of the stream's rows in events, which have no gaps.          *)
(***************************************************************************)
StreamsCountEvents ==
  \A id \in StreamIDs : DOMAIN rows[id] = 1 .. streams[id]

(***************************************************************************)
(* The store implements the contract of event.Store.  Append may fail with *)
(* an error that is no conflict, but never appends in part, in the middle  *)
(* of another Append, or against a version its check does not accept.      *)
(***************************************************************************)
Contract == INSTANCE EventStore WITH log <- rows, MayFail <- TRUE

ImplementsEventStore == Contract!Spec

(***************************************************************************)
(* Every call returns: transactions that wait for a row are not forgotten, *)
(* whatever the outcome of the one they wait for.                          *)
(***************************************************************************)
EveryCallReturns == \A c \in Clients : pc[c] # "idle" ~> pc[c] = "idle"

(***************************************************************************)
(* "ConflictError is an error returned by an Event Store when appending    *)
(* some events using an expected Event Stream version that does not match  *)
(* the current state of the Event Stream" (version/check.go): an Append    *)
(* of some events that fails, while its expected version is not the        *)
(* stream's, says so with a ConflictError.  (Without faults, events are    *)
(* only refused for the sake of others in the stream.)                     *)
(***************************************************************************)
MismatchIsConflict ==
  \A c \in Clients :
    pc[c] = "return" /\ reply[c] = Failed /\ call[c].events # <<>> =>
      Accepts(call[c].expected, streams[call[c].id])

=============================================================================
