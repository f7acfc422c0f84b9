--------------------- MODULE PostgresAggregateRepository ---------------------
(***************************************************************************)
(* postgres.AggregateRepository (postgres/aggregate_repository.go): Get    *)
(* reads the snapshot in the table aggregates, Save appends the recorded   *)
(* events and replaces the snapshot in one transaction.                    *)
(*                                                                         *)
(* The transaction is the one of PostgresStore, whose statements this      *)
(* module takes over; the aggregates all have one type.                    *)
(***************************************************************************)
EXTENDS PostgresStore, Aggregate

CONSTANTS
  ReuseFailedRoots,  \* clients go on using a root whose Save has failed
  MayBypass          \* events are also appended without the repository

ASSUME ReuseAssumption ==
  /\ ReuseFailedRoots \in BOOLEAN
  /\ MayBypass \in BOOLEAN

VARIABLES
  aggregates,  \* aggregates[id]: the row, or NoRow
  root,        \* root[c]: the Aggregate Root that c holds, or NoRoot
  failed,      \* failed[c]: the last Save of root[c] returned an error
  stateSaved,  \* stateSaved[c]: c's transaction has written the snapshot
  bypassed     \* bypassed[id]: an EventStore has appended to the stream

rootVars == <<root, failed>>

repositoryVars == <<storeVars, aggregates, rootVars, stateSaved, bypassed>>

NoRow == [version |-> 0, state |-> <<>>]

RepositoryInit ==
  /\ Init
  /\ aggregates = [id \in StreamIDs |-> NoRow]
  /\ root = [c \in Clients |-> NoRoot]
  /\ failed = [c \in Clients |-> FALSE]
  /\ stateSaved = [c \in Clients |-> FALSE]
  /\ bypassed = [id \in StreamIDs |-> FALSE]

Holds(c) == pc[c] = "idle" /\ root[c] # NoRoot

Usable(c) == Holds(c) /\ (failed[c] => ReuseFailedRoots)

-----------------------------------------------------------------------------

Create(c, id) ==
  /\ root[c] = NoRoot
  /\ root' = [root EXCEPT ![c] = NewRoot(id)]
  /\ UNCHANGED <<storeVars, aggregates, failed, stateSaved>>

Record(c, batch) ==
  /\ Usable(c)
  /\ root[c].version + Len(batch) <= MaxVersion
  /\ Len(root[c].recorded) + Len(batch) <= MaxBatch
  /\ \E n \in 0 .. Len(batch) :
       /\ AppliesUpTo(n, batch)
       /\ root' = [root EXCEPT ![c] = RecordThat(@, batch, n)]
  /\ UNCHANGED <<storeVars, aggregates, failed, stateSaved>>

(***************************************************************************)
(* Get is one query.  Without a row (ErrRootNotFound), and when the query  *)
(* or the serde fails, the client gets no root and nothing changes.        *)
(***************************************************************************)
Get(c, id) ==
  /\ root[c] = NoRoot
  /\ aggregates[id] # NoRow
  /\ root' = [root EXCEPT ![c] = RehydrateFromState(id, aggregates[id].version,
                                                    aggregates[id].state)]
  /\ UNCHANGED <<storeVars, aggregates, failed, stateSaved>>

Drop(c) ==
  /\ Holds(c)
  /\ root' = [root EXCEPT ![c] = NoRoot]
  /\ failed' = [failed EXCEPT ![c] = FALSE]
  /\ UNCHANGED <<storeVars, aggregates, stateSaved>>

(***************************************************************************)
(* Save.  The events are flushed once the transaction has begun, so they   *)
(* are kept if it never begins and gone in every other case.  There is no  *)
(* short cut for a root that has recorded nothing.                         *)
(***************************************************************************)
SaveCheck_Unchecked(r) == CheckAny

SaveCheck(r) == ExpectedVersion(r)

CallSave(c) ==
  /\ Usable(c)
  /\ StartTransaction(c,
       AppendCall(root[c].id, SaveCheck(root[c]), root[c].recorded))
  /\ UNCHANGED <<aggregates, rootVars, stateSaved>>

BeginSave(c) ==
  /\ BeginTx(c)
  /\ root' = [root EXCEPT ![c] = FlushRecordedEvents(@)]
  /\ UNCHANGED <<aggregates, failed, stateSaved>>

(***************************************************************************)
(* The statements of appendDomainEvents, until all events are inserted.    *)
(***************************************************************************)
AppendStatement(c) ==
  /\ \/ SelectStream(c)
     \/ UpsertStream(c)
     \/ UpsertFails(c)
     \/ InsertEvent(c)
     \/ StatementFails(c)
     \/ BeginFails(c)
  /\ UNCHANGED <<aggregates, rootVars, stateSaved>>

AllInserted(c) ==
  pc[c] = "insert" /\ inserted[c] = Len(call[c].events) /\ ~ stateSaved[c]

(***************************************************************************)
(* saveAggregateState.  The row needs no lock of its own: who writes it    *)
(* holds the row of event_streams.  Save gives up if the version of the    *)
(* stream is not the root's, or if the state cannot be serialized or       *)
(* written.                                                                *)
(***************************************************************************)
SaveAggregateState(c) ==
  /\ AllInserted(c)
  /\ newVersion(c) = root[c].version
  /\ stateSaved' = [stateSaved EXCEPT ![c] = TRUE]
  /\ UNCHANGED <<storeVars, aggregates, rootVars>>

SaveStateFails(c) ==
  /\ AllInserted(c)
  /\ Faults \/ newVersion(c) # root[c].version
  /\ Answer(c, Failed)
  /\ Goto(c, "rollback")
  /\ UNCHANGED <<tables, holder, call, oldVersion, overwritten, inserted>>
  /\ UNCHANGED <<aggregates, rootVars, stateSaved>>

CommitSave_EventsOnly(c) ==
  /\ stateSaved[c]
  /\ CommitSucceeds(c) \/ CommitAnswerLost(c)
  /\ aggregates' = [aggregates EXCEPT ![call[c].id] =
                      [version |-> Len(call[c].events), state |-> call[c].events]]
  /\ UNCHANGED <<rootVars, stateSaved>>

CommitSave_StateLeftOut(c) ==
  /\ CommitSucceeds(c) \/ CommitAnswerLost(c)
  /\ UNCHANGED <<aggregates, rootVars, stateSaved>>

CommitSave(c) ==
  /\ stateSaved[c]
  /\ CommitSucceeds(c) \/ CommitAnswerLost(c)
  /\ aggregates' = [aggregates EXCEPT ![call[c].id] =
                      [version |-> root[c].version, state |-> root[c].state]]
  /\ UNCHANGED <<rootVars, stateSaved>>

RollbackSave(c) ==
  /\ Rollback(c)
  /\ UNCHANGED <<aggregates, rootVars, stateSaved>>

ReturnSave(c) ==
  /\ Return(c)
  /\ failed' = [failed EXCEPT ![c] = reply[c].kind # "appended"]
  /\ stateSaved' = [stateSaved EXCEPT ![c] = FALSE]
  /\ UNCHANGED <<aggregates, root>>

-----------------------------------------------------------------------------

Save(c) ==
  \/ CallSave(c)
  \/ BeginSave(c)
  \/ AppendStatement(c)
  \/ SaveAggregateState(c)
  \/ SaveStateFails(c)
  \/ CommitSave(c)
  \/ RollbackSave(c)
  \/ ReturnSave(c)

Use(c) ==
  \/ \E id \in StreamIDs : Create(c, id) \/ Get(c, id)
  \/ \E batch \in Batches : Record(c, batch)
  \/ Save(c)
  \/ Drop(c)

(***************************************************************************)
(* An EventStore over the same tables appends an event to the stream of an *)
(* aggregate, with version.Any: its transaction changes the row, and has   *)
(* to wait for one that holds it.  (At most once per stream.)              *)
(***************************************************************************)
Bypass(id, evt) ==
  /\ MayBypass
  /\ ~ bypassed[id]
  /\ holder[id] = NoOne
  /\ streams[id] < MaxVersion
  /\ streams' = [streams EXCEPT ![id] = @ + 1]
  /\ rows' = [rows EXCEPT ![id] = Append(@, evt)]
  /\ overwritten' = [c \in Clients |->
       overwritten[c] \/ (pc[c] = "upsert" /\ call[c].id = id)]
  /\ bypassed' = [bypassed EXCEPT ![id] = TRUE]
  /\ UNCHANGED <<holder, pc, call, oldVersion, inserted, reply>>
  /\ UNCHANGED <<aggregates, rootVars, stateSaved>>

RepositoryNext ==
  \/ \E c \in Clients : Use(c) /\ UNCHANGED bypassed
  \/ \E id \in StreamIDs, evt \in Events : Bypass(id, evt)

RepositorySpec == RepositoryInit /\ [][RepositoryNext]_repositoryVars

-----------------------------------------------------------------------------

(***************************************************************************)
(* The type invariant of the repository, with the one of the tables: no    *)
(* Save writes a row outside the versions of a stream.                     *)
(***************************************************************************)
RepositoryTypeOK ==
  /\ TypeOK
  /\ aggregates \in [StreamIDs -> [version : Nat, state : Seq(Events)]]
  /\ root \in [Clients -> Roots \cup {NoRoot}]
  /\ failed \in [Clients -> BOOLEAN]
  /\ stateSaved \in [Clients -> BOOLEAN]
  /\ bypassed \in [StreamIDs -> BOOLEAN]

(***************************************************************************)
(* "The recorded Domain Events are persisted in the same transaction ...   *)
(* acting as an append-only audit log alongside the snapshot" (README.md): *)
(* in every state another connection can see, the snapshot is exactly what *)
(* the events of the stream lead to, at the version of the stream.  Where  *)
(* the repository has been bypassed the snapshot stays behind, but is that *)
(* of an earlier version: no Save hides or skips the foreign event.        *)
(***************************************************************************)
SnapshotMatchesEvents ==
  \A id \in StreamIDs :
    LET row == aggregates[id]
    IN  /\ row.version = Len(row.state)
        /\ \A v \in 1 .. row.version :
             v \in DOMAIN rows[id] /\ rows[id][v] = row.state[v]
        /\ ~ bypassed[id] => row.version = streams[id]

(***************************************************************************)
(* The branch of Save that reports a version mismatch between stream and   *)
(* aggregate is never taken: after a successful append the stream is at    *)
(* the version of the root.                                                *)
(***************************************************************************)
NoVersionMismatch ==
  \A c \in Clients : AllInserted(c) => newVersion(c) = root[c].version

(***************************************************************************)
(* A root whose Save has not failed tells the truth: what it has not just  *)
(* recorded is an initial part of the audit log, however many clients save *)
(* meanwhile.  (While a Save runs, the events are in its call.)            *)
(***************************************************************************)
Unsaved(c) == IF pc[c] = "idle" THEN root[c].recorded ELSE call[c].events

RootsExtendEvents ==
  \A c \in Clients :
    LET r == root[c]
    IN  r # NoRoot /\ ~ failed[c] /\ pc[c] \notin {"rollback", "return"} =>
          /\ IsSuffix(Unsaved(c), r.state)
          /\ r.version = Len(r.state)
          /\ \A v \in 1 .. (r.version - Len(Unsaved(c))) :
               v \in DOMAIN rows[r.id] /\ rows[r.id][v] = r.state[v]

(***************************************************************************)
(* The repository keeps the contract of aggregate.Repository: the cell of  *)
(* a root is its snapshot, a Save that commits replaces it as a whole, and *)
(* only if it is the one the root was fetched from.  An event that gets    *)
(* into the stream by another way changes no cell: it makes Saves fail.    *)
(***************************************************************************)
Cells == [id \in StreamIDs |-> aggregates[id].state]

Saving(c) == pc[c] \in {"select", "upsert", "insert"}

Held(c) ==
  IF root[c] = NoRoot
  THEN NoRoot
  ELSE [id       |-> root[c].id,
        state    |-> root[c].state,
        recorded |-> IF Saving(c) THEN call[c].events ELSE root[c].recorded,
        spoiled  |-> failed[c] \/ reply[c].kind \notin {"pending", "appended"}]

Holdings == [c \in Clients |-> Held(c)]

RepositoryContract ==
  INSTANCE Repository WITH log <- Cells, held <- Holdings

ImplementsRepository == RepositoryContract!Spec

=============================================================================
