# go-eventually in TLA+

A verification project for `go-eventually`, a Go library for Domain-Driven
Design and Event Sourcing. It holds TLA+ modules that model the library's
stores, repositories, streams, wrappers, envelopes and test harnesses (and the
two applications in its tree), TLC configurations that model-check them on small
instances, and TLAPS proofs, for every size, of every safety property, action
property and refinement that the passing runs check, and of what one component
keeps where a run shows that it does not keep all that is said of it.

- [The system](#the-system)
- [Modules and the code they model](#modules-and-the-code-they-model)
- [What the runs check](#what-the-runs-check)
- [Bounds](#bounds)
- [Fairness](#fairness)
- [What is proved](#what-is-proved)
- [What is only model-checked](#what-is-only-model-checked)
- [Disagreements with the documentation](#disagreements-with-the-documentation)
- [What is not modelled](#what-is-not-modelled)
- [Plan](#plan)

## The system

An application keeps its data as *Event Streams*. Commands load an *Aggregate
Root* through a repository, call a method that records *Domain Events*, and
save the root; the repository appends the events to the Event Store under an
optimistic concurrency check on the version of the stream. Query handlers may
process the events into read models.

| Component | State | Operations | Interacts with |
|---|---|---|---|
| `version` | none | `CheckAny`, `CheckExact`, `Selector`, unsigned arithmetic | every store and repository |
| `event.Store` | the streams (abstractly) | `Append`, `Stream` | the contract between stores and repositories |
| `event.InMemoryStore` | a map of slices, a `sync.RWMutex` | `Append`, `Stream` (lazy, read lock held while the consumer's loop body runs) | goroutines; the consumer runs inside `Stream` |
| `event.TrackingStore` | the recorded events, a `sync.RWMutex` | `Append`, `Recorded` | wraps a store, which others may share |
| `message.Stream` | `iterated`, `err` | `Iter`, the loop over it, `Err` | producer and consumer alternate; streams wrap streams |
| `aggregate.BaseRoot` | version, recorded events | `RecordThat`, `FlushRecordedEvents`, rehydration | the repositories |
| `aggregate.Repository` | the history of each root (abstractly) | `Get`, `Save` | the contract between command handlers and repositories |
| `aggregate.EventSourcedRepository` | none of its own | `Get`, `Save` | store, roots of concurrent clients |
| `postgres.EventStore` | tables `event_streams`, `events` | `Append` (a serializable transaction), `Stream` (a query) | PostgreSQL |
| `postgres.AggregateRepository` | table `aggregates` and the two above | `Get`, `Save` (one transaction over three tables) | PostgreSQL, roots; others may append to the streams directly |
| `opentelemetry` | the histograms, the open spans | wrappers for `Append`, `Stream`, `Get`, `Save`; constructors | wraps streams, stores and repositories |
| `message.Metadata`, envelopes | maps, held by reference | `With`, `Merge`, the conversions of command envelopes | commands, recorded events, in-memory streams, rows |
| `serde` | none | `Serialize`, `Deserialize`, chains of them | the PostgreSQL tables |
| `internal/user` | a view of users by email; the `User` aggregate | `Process`, `Handle`; `Create`, `UpdateEmail` | fed with events; its serdes |
| `examples/todolist` | event-sourced lists | Connect handlers, commands, a query | repository, in-memory store |
| `examples/todolist/main.go` | the server's goroutine and channel | `run` | signals, `http.Server`, the requests in flight |
| test scenarios | a tracked in-memory store | `Given`, `When`, `Then...`, `AssertOn` | the code under test |
| handler interfaces, migrations | none | adapters, table definitions | |

What is hard to test in it:

- **Concurrency.** Appends race with appends and with iterations. In memory the
  lock is held across the consumer's loop body; in PostgreSQL the check and
  the write are two statements of a transaction. Command handlers check a rule
  on a root that they loaded before another request saved.
- **Failure in the middle.** Both repositories take the events out of the root
  before they know whether they can be stored. A `COMMIT` whose answer is lost
  may have succeeded. A stream may end early because of an error, a cancelled
  context or a `break`, and only `Err` tells which.
- **Order and repetition.** A stream may be iterated twice, a command sent
  again, an event delivered again to a query handler.
- **Unsigned arithmetic.** Expected versions are computed as `version - len`,
  in `uint32`.
- **Shared references.** Metadata are Go maps; the PostgreSQL store writes into
  those of the events it is given, and the application may share one map between
  commands, events and goroutines.
- **Nested wrappers.** What a consumer, a wrapped store, two wrappers and a
  repository each make of an error or of a `break` must agree.
- **The end of the process.** A signal, a failing listener, a shutdown with a
  timeout and requests in flight race with each other.

What makes each component correct:

- a store: `Append` is atomic, appends only to the version it was asked for,
  and gives consecutive versions; `Stream` delivers a contiguous part of one
  state of the stream; no call waits for ever;
- `TrackingStore`: what it has recorded is what the wrapped store committed, in
  order, with the right versions, and whole batches of it;
- `message.Stream`: a loop that ran out with a nil `Err` has seen everything;
- a repository: a root always is a prefix of its stream plus what it recorded;
  a nil error means stored; nothing is committed on a stale decision; a
  conflict means that somebody else made progress; a snapshot is what the
  events lead to;
- `opentelemetry`: spans are closed and tell, with the measurements, what the
  caller was told;
- envelopes: a row holds the metadata of its own event and `Save`, and can be
  read; the snapshot and the events lead to the same user;
- a query handler: the read model tells what the events tell;
- a test scenario: the test passes exactly if the code under test did what the
  expectation says, on a history that can exist;
- the todo-list service: a stream can always be replayed, items are unique, and
  success means that the command was valid at the moment it took effect; a signal
  ends the process, and a graceful end cuts off no request.

`PROJECT.json` lists the hazards one by one, each at its line and with the
properties that guard it.

## Modules and the code they model

`PROJECT.json` maps every definition to its lines. The modules build on each
other like this:

```
Version -- Event --+-- EventStore (the contract of stores, abstract)
                   |      ^ implemented by InMemoryStore and PostgresStore
                   |      ^ instantiated by TrackingStore as the wrapped store
                   +-- Repository (the contract of repositories, abstract)
                   |      ^ implemented by EventSourcedRepository and
                   |        PostgresAggregateRepository
                   +-- InMemoryStore ---- RWMutex (external: Go's sync)
                   +-- TrackingStore ---- RWMutex
                   +-- PostgresStore --+
                   +-- Aggregate ------+-- PostgresAggregateRepository
                           +-- EventSourcedRepository
                           +-- Scenario
MessageStream -- InstrumentedRepository
Chained -- Serde -- Envelopes
TodoList -- TodoServer
UserByEmail
```

- **`Version`, `Event`**: the vocabulary. A version is a natural number below
  `VersionSpace` (2^32 in Go) and `Minus` is the wrapping subtraction. An
  envelope is a member of `Events`; calls and replies are records.
- **`RWMutex`**: `sync.RWMutex` as a value. `Lock` is two steps, so that a
  writer that waits blocks new readers, as in Go. External: modelled from the
  way the two in-memory stores use it.
- **`EventStore`**: the abstract specification. A client invokes, the call
  takes effect in one step (`PerformAppend`, `PerformStream`, or `FailAppend`,
  which may have appended if the store is behind a network), and returns.
- **`InMemoryStore`**: one action per step between lock, check, extension,
  yield and unlock (`store_inmemory.go`). The consumer's loop body is the label
  `yield`: there it goes on (`ResumeIteration`) or breaks (`AbandonIteration`);
  its context may be cancelled at any time. `events` is total because the code
  treats an absent key like an empty slice.
- **`TrackingStore`**: `Append` (lock, wrapped `Append`, recording loop) and
  `Recorded`. The wrapped store is an instance of `EventStore`, so it is any
  store that meets the contract; clients also append to it
  directly, as the `FusedStore` of the test scenarios makes possible.
  `acknowledged` is a history variable: what the wrapped `Append` returned nil
  for.
- **`Aggregate`**: roots as values. The state of a root is the sequence of the
  events that were applied: the fold that forgets nothing. `Unappliable` events
  are those for which `Apply` returns an error.
- **`Repository`**: the second abstract specification. `Get` reads the history of
  a root, `Save` replaces it by a longer one if it still is the one the root was
  loaded with, or returns an error having done everything or nothing. A root
  whose `Save` has failed is spoiled: the contract promises nothing about it.
- **`EventSourcedRepository`**: clients that create, get, record, save and
  drop. `Get` makes one `Stream` call and `Save` one `Append` call, which are
  atomic by the contract, so each is one action per outcome. `failed[c]` notes
  that the last `Save` of the root failed; `ReuseFailedRoots` says whether
  clients go on with such a root. The repository's own command handlers do not.
- **`PostgresStore`**: `Append` statement by statement (`BEGIN`, `SELECT`,
  upsert of `event_streams`, an `INSERT` per event, `COMMIT` or rollback), with
  a failure possible at each. The database is external and modelled by what the
  statements rely on: snapshot at the first `SELECT`, the wait for a row that
  another transaction has written, the serialization error if the row changed
  after the snapshot, visibility at commit. `Stream` is one query, hence one
  snapshot.
- **`PostgresAggregateRepository`**: extends the transaction of `PostgresStore`
  by the flush of the root at its beginning and the snapshot at its end. With
  `MayBypass`, the store's own `Append` is also called on the stream of an
  aggregate, between any two statements: the snapshot falls behind, and every
  `Save` of a root that was loaded from it conflicts.
- **`MessageStream`**: a stack of `Depth` streams, each wrapping the one below
  as `InstrumentedEventStore.Stream` does; all on one goroutine, so the state is
  where the control is and what each layer's `iterated`, `err` and span hold.
- **`InstrumentedRepository`**: the rest of `opentelemetry` around that stack. The
  constructors register two histograms for each wrapper of the store and two for
  the repository, one by one, and give up at the first refusal. `Get` loops over the stream and rehydrates, `Save` calls `Append`
  through the layers; on the way up the deferred function of each layer ends
  its span and takes its measurement.
- **`UserByEmail`**: `GetByEmailHandler.Process` and the events of the `User`
  aggregate, fed in order by a feed that may go back (`from` is where it last
  began, `processed` how far it has ever come). The feed is not in the
  repository (external). `data` and `idToEmail` are functions on the keys that
  the Go maps have. Users take any email, since no `User` can check that it is
  free; that no two have one email at a time is a hypothesis of the properties
  that need it (`EmailsAreUnique`).
- **`TodoList`**: the aggregate (`Apply`, the methods' checks in their order),
  the command handlers (load, method, save) and the Connect codes, for requests
  that run concurrently. Requests may be malformed or empty, and one may come
  that was served before.

- **`TodoServer`**: `run` of `main.go` around `TodoList`: the goroutine that
  listens, its channel, the `select` between the channel and the signal, and
  `Shutdown`, which completes or times out. `http.Server` is external and
  modelled by what `run` relies on.
- **`Scenario`**: the harnesses of `aggregate`, `command` and `query`. A state is
  a scenario (given events, an expectation), a behaviour of the code under test
  (what it records, which error it returns and when), and how far `AssertOn`
  has come. The aggregate's harness runs in one step of its own, so its verdict
  is an operator that is compared with the other's.
- **`Chained`, `Serde`**: a chain of two serdes, and the chains of the Protobuf
  format of users and their events with the Protobuf JSON serde, as operators. A conversion does what the code does: a
  birth date loses its clock and its location, a text can only be read as the
  message it is, a malformed id is an error.
- **`Envelopes`**: a heap of maps. Commands, recorded events and in-memory streams
  hold references into it, and `With` and `Merge` write through them; only a
  row holds a copy. `Save` enriches the metadata of each event in place before
  it inserts the row. Users pass through `Serde` on the way to their rows, and
  `Get` reads them back. Each goroutine has a user of its own (conflicts are the
  subject of `PostgresAggregateRepository`): what they share is maps.

The `*_proofs` modules extend the modules they prove about and hold the inductive
invariants and theorems. `Aggregate_proofs` has the lemmas about roots that both
repositories need, `Repository_proofs` covers `EventSourcedRepository` and the
`Scenario`s that test handlers around one, `Postgres_proofs` covers
`PostgresStore` and the repository that extends it,
`InstrumentedRepository_proofs` also `MessageStream`, `Envelopes_proofs` also
`Serde`, and `Applications_proofs` the two applications: `UserByEmail`, and
`TodoServer` with `TodoList`.

The `MC*` modules only add the symmetry sets, and for `Envelopes` the users that
are created, the bounds and a view. Definitions with a suffix such as
`Skips_OffByOne` are mutants: plausible mistakes, each of which makes a property
fail. They show that the properties can fail, and the specifications do not use
them.

## What the runs check

| Run | Module, configuration | Properties | Result |
|---|---|---|---|
| `in_memory` | `MCInMemoryStore`, `InMemoryStore.cfg` | `TypeOK`, `NoDataRace`, `ImplementsEventStore`, `EveryCallReturns` | holds, 116,992 states |
| `tracking` | `MCTrackingStore`, `TrackingStore.cfg` | `RecordedIsCommitted`, `RecordedInOrder`, `RecordedIsComplete`, `EveryCallReturns` | holds, 222,501 |
| `repository_handlers` | `MCEventSourcedRepository`, `EventSourcedRepository_handlers.cfg` | `RootsExtendStreams`, `SavedMeansStored`, `NoStaleDecision`, `ConflictMeansProgress`, `ImplementsRepository` | holds, 88,677 |
| `repository_retry` | same, `EventSourcedRepository_retry.cfg` | `SavedMeansStored` | violated |
| `postgres` | `MCPostgresStore`, `PostgresStore.cfg` | `StreamsCountEvents`, `ImplementsEventStore`, `EveryCallReturns` | holds, 124,144 |
| `postgres_race` | same, `PostgresStore_race.cfg` | `MismatchIsConflict` | violated |
| `snapshot_save` | `MCPostgresAggregateRepository`, `PostgresAggregateRepository_save.cfg` | `SnapshotMatchesEvents`, `NoVersionMismatch`, `RootsExtendEvents`, `ImplementsRepository` | holds, 390,560 |
| `instrumented` | `InstrumentedRepository`, `InstrumentedRepository.cfg` | `NoSilentTruncation`, `SpansTellErr`, `GetSeesWholeStream`, `TelemetryTellsResult` | holds, 1,596 |
| `user_replay` | `UserByEmail`, `UserByEmail_replay.cfg` | `QueriesFindTheUser` | violated |
| `todolist` | `TodoServer`, `TodoServer.cfg` | `ListStaysLoadable`, `ItemsAreDistinct`, `NilMeansGraceful`, `SuccessIsCurrent`, `SignalEndsProcess`, `RequestsAreAnswered` | holds, 312,711 |
| `scenario` | `Scenario`, `Scenario.cfg` | `VerdictTellsOutcome`, `ScenariosAgree`, `QueryRanOnAHistory` | holds, 1,320,839 |
| `envelopes` | `MCEnvelopes`, `Envelopes.cfg` | `RowsTellTheirSave`, `RowsAreReadable`, `SnapshotIsItsHistory`, `LoadedEqualsSaved` | holds, 737,800 |

Run one with `tlc -workers 2 -config InMemoryStore.cfg MCInMemoryStore`.

Every module with variables states its type invariant. It is part of a run where
a mistake in the code could break it; the others hold on the same instances, and adding
`INVARIANT TypeOK` (or `RepositoryTypeOK`, `InstrumentedTypeOK`, `ListTypeOK`,
`ServerTypeOK`, `ScenarioTypeOK`) to the configuration checks them.

What they show, in words:

- *Stores.* Whatever the interleaving, the in-memory store and the PostgreSQL
  store are linearizable objects with an exact optimistic check. For PostgreSQL
  that rests on the isolation level: with `READ COMMITTED` instead of
  `SERIALIZABLE` (the mutant `RowIsStale_ReadCommitted`) the two tables stop
  agreeing. Faults may make an `Append` fail but never make it partial.
- *TrackingStore.* The versions that it computes are the ones the wrapped store
  assigned, also when others use the wrapped store, and a caller of `Recorded`
  sees exactly what the wrapped store has acknowledged. An `Append` that
  committed and then lost its answer is not recorded.
- *Repositories.* With clients that drop a root after a failed `Save`, all
  promises hold, and both repositories implement the one contract of
  `Repository`: a compare-and-set on the history of the root. For the
  PostgreSQL repository that includes faults at every statement, lost answers
  to `COMMIT`, and appends that bypass it. With clients that try again the
  promises do not hold.
- *Streams and telemetry.* Through any of the wrappers the error arrives, a `Get`
  that succeeds has seen the whole stream, and spans and measurements tell what
  the caller was told.
- *Envelopes.* The maps that a `Save` leaves enriched behind do no harm: a later
  `Save` writes its own values over them, and no row has a NULL for metadata,
  which `Stream` could not read. This holds as long as no other goroutine
  writes a map of the batch while the `Save` is under way. `raced` notes that
  one has, and `RowsTellTheirSave` excludes those: without the exclusion it
  does not hold, and in Go such writes may even abort the process.
- *Serdes.* The clock of a birth date is lost in the tables, by the snapshot and by
  the events alike, so the two still agree; a saved root equals what `Get`
  returns for it if the birth date is a midnight UTC, as in the repository's
  tests.
- *Query handler.* The run shows where the index is wrong: after an email has
  changed hands and the feed has gone back to an event in between, a query by
  that email finds its former user, for good. Three theorems say what is right.
  `Process` never fails on an event (`UpdatesFindTheirView`); a feed that starts
  from the first event, for the first time or again, has users found by their
  emails at every point, also when emails change hands (`RebuildIsRight`); and
  if no email changes hands, going back to any event does no harm
  (`RedeliveryIsHarmless`). They have no run of their own; TLC finds them to
  hold with the same configuration (`INVARIANTS TypeOK UpdatesFindTheirView
  RebuildIsRight RedeliveryIsHarmless`, 62,407 states).
- *Todo lists.* The optimistic check is what keeps lists loadable: without it an
  item could be marked after its deletion, and no handler could load the list.
- *Server.* Whatever wins the `select`, a signal ends the process; `run` returns
  nil only if no request was cut off; a request is answered or the process is
  over.
- *Scenarios.* A `Then` that passes means that the code under test produced exactly
  those events; an error expectation passes exactly for the errors it names. The
  aggregate's and the command handler's harness agree on what can be said in
  both. The query harness refuses a history that no store could hold.

Deadlock is checked in all runs but four, whose models really stop:
`instrumented` (the calls have been made, or the constructor failed), `user_replay` (the
bounded log has been processed), `todolist` (the process has ended) and
`scenario` (the test has ended).

## Bounds

| Bound | Where | Why it is enough |
|---|---|---|
| `MaxVersion` | longest stream, 1 to 4 | Two batches, one of them of two events, fit into 3: a stale root, a winner and a loser. `in_memory` has 1, for the size of its third goroutine: starvation needs only that calls contend, with conflicting appends too, and its safety properties are proved for every bound. |
| `MaxBatch` | events per `Append`, 1 or 2 | 2 separates versions that are counted from those that are copied; 0 (an empty call) is always included. |
| `Events` | 1 to 3 | Two tell whose event was stored; a third is one that `Apply` refuses. The runs `in_memory` and `postgres` have one, for their size: the first is proved for every set, and `snapshot_save` makes the transactions of the second with two. |
| `VersionSpace` | 16 | Larger than any version reached, so that a wrapped subtraction is seen as one. |
| `Goroutines`, `Clients`, `Requests` | 2, or 3 in `in_memory` | Two race; three show a waiting writer between two readers that could keep the lock between them for ever. |
| `Depth`, `NumValues` | 3, 2 | The store, a wrapper, and a wrapper of a wrapper, under the repository and its wrapper; first and last event, and a stream that ends in between. |
| `MaxIters`, `MaxRanges` | 2, 2 | A second call of `Iter`, and a second loop over the first sequence. |
| `MaxCalls` | 2 | A call after one that failed or succeeded. |
| `MaxGiven`, `Mistakes` | 2, 2 | Two given events can have the same version, or the wrong order, or belong to two streams; two errors can be joined, and one of them be missing. |
| `Refs`, `Traces` | 3, 1 | A map for each of two commands and one that comes from elsewhere; unused maps are reused, like garbage. |
| `MaxEvents` | 4 | Two users created, one that gives up its email, and the other that takes it over. |

The bounds on the length of a stream count the batches that are under way, so
that a call that has begun is never cut off by a bound. `Symmetry` permutes
clients, events, streams or items in runs that check no liveness property;
no specification orders or names their elements. In `envelopes` the view
`LiveState` leaves out what unused addresses hold: no step reads it.

## Fairness

- `InMemoryStore`: weak fairness of a goroutine's steps (Go's scheduler runs
  every goroutine that can run) and of the consumer's loop body: the comment on
  `Stream` warns that a consumer that never finishes blocks the writers. Strong
  fairness of `AnnounceLock`: writers queue on the `sync.Mutex` inside the
  `RWMutex`, whose starvation mode hands it to the one that has waited longest.
  No fairness for cancellation or for starting a call.
- `TrackingStore`: the same, and the wrapped store answers.
- `PostgresStore`: weak fairness of the statements that succeed; strong fairness
  of the turn at a row, for which PostgreSQL keeps a queue. No fairness for
  faults: no call relies on one to get free.
- `TodoServer`: weak fairness of the goroutine of `run`, which includes that the
  timer of the shutdown's context fires, and of the goroutine of each request.
  None for the arrival of signals and requests, for the listener, or for its
  failure.

## What is proved

All theorems hold for every set of clients, streams, events, users, emails, items
and requests, every number of wrappers, every expectation, and every bound. The assumptions on constants are the
named `ASSUME`s of the modules that declare them, which TLC evaluates in the
runs. Each inductive invariant was checked by TLC on the instances of the runs
before it was proved.

| Module | Theorem | States |
|---|---|---|
| `InMemoryStore_proofs` | `TypeCorrectness` | `[]TypeOK` |
| | `DataRaceFreedom` | `[]NoDataRace` |
| | `Implementation` | `ImplementsEventStore` |
| `TrackingStore_proofs` | `RecordedAreCommitted` | `[]RecordedIsCommitted` |
| | `RecordedAreInOrder` | `[]RecordedInOrder` |
| | `RecordedAreComplete` | `[]RecordedIsComplete` |
| `Repository_proofs` | `RootsAreConsistent` (*) | `[]RootsExtendStreams` |
| | `SaveIsDurable` (*) | `[]SavedMeansStored` |
| | `OptimisticConcurrency` (*) | `NoStaleDecision` |
| | `ConflictsAreGenuine` (*) | `ConflictMeansProgress` |
| | `Implementation` (*) | `ImplementsRepository` |
| | `CommandVerdict` | `[]VerdictTellsOutcome` |
| | `HarnessesAgree` | `[]ScenariosAgree` |
| | `QueryHistory` | `[]QueryRanOnAHistory` |
| `Postgres_proofs` | `TablesInStep` | `[]StreamsCountEvents` |
| | `Implementation` | `ImplementsEventStore` |
| | `SnapshotsAreConsistent` (*) | `[]SnapshotMatchesEvents` |
| | `MismatchIsDeadCode` (*) | `[]NoVersionMismatch` |
| | `RootsAreConsistent` (*) | `[]RootsExtendEvents` |
| | `RepositoryImplementation` (*) | `ImplementsRepository` |
| `InstrumentedRepository_proofs` | `NoTruncation` | `[]NoSilentTruncation` |
| | `SpansAgreeWithErr` | `[]SpansTellErr` |
| | `GetIsWhole` | `[]GetSeesWholeStream` |
| | `TelemetryIsTrue` | `[]TelemetryTellsResult` |
| `Envelopes_proofs` | `EnvelopeTypes` | `[]TypeOK` |
| | `RowsOfTheSave` | `[]RowsTellTheirSave` |
| | `ReadableRows` | `[]RowsAreReadable` |
| | `SnapshotAgrees` | `[]SnapshotIsItsHistory` |
| | `SavedIsLoaded` | `[]LoadedEqualsSaved` |
| `Applications_proofs` | `UpdatesAreApplied` | `[]UpdatesFindTheirView` |
| | `IndexIsRebuilt` | `[]RebuildIsRight` |
| | `RedeliveryDoesNoHarm` | `[]RedeliveryIsHarmless` |
| | `Loadable` | `[]ListStaysLoadable` |
| | `UniqueItems` | `[]ItemsAreDistinct` |
| | `NoStaleSuccess` | `SuccessIsCurrent` |
| | `GracefulShutdown` | `[]NilMeansGraceful` |

(*) under `~ ReuseFailedRoots`: clients let go of a root whose `Save` failed. That
is needed: the run `repository_retry` shows what happens without.

**`InMemoryStore_proofs`.** The inductive invariant is `TypeOK` with four parts.
`LockInv` ties the lock to where the goroutines are (who is past `wait` is the
writer and there are no readers; who iterates is a reader): neither the data-race
property nor the refinement is inductive without it. `CallInv` says which call a
label belongs to. `CheckInv` says that between check and extension the check
still accepts the stream: this is what the lock is for. `IterInv` says that what
an iteration has delivered is exactly the selected part of the stream up to its
position, which is preserved because no `Append` can extend the stream
meanwhile. The refinement maps `events` to the contract's `log`, and `call` and
`reply` to themselves; `ExtendStream`, a refusing `CheckVersion` and the end of
an iteration are the contract's atomic steps, and all others stutter.

**`TrackingStore_proofs`.** `TrackingInv` has again who holds the lock (`LockOf`)
and which call a goroutine is in (`CallOf`). `BatchOf` is the point of it: from
the answer of the wrapped store until the last event of the batch is recorded,
the batch lies in the stream where `version - len + i` says it does, and nothing
recorded of that stream is newer. The wrapped store may append for others
meanwhile, but only at the end, and nobody else records, because the lock is
held. `NothingMissing` says that what has been acknowledged is what has been
recorded plus what the loop under way has still to record; a reader has the lock,
so for it there is no such loop.

**`Repository_proofs`, the repository.** The invariant says of every root that has not
failed that its version counts its state, and that its state without the
recorded events is a prefix of its stream; streams only grow, so other clients
cannot break it. From it follow that the unsigned subtraction in `Save` never
wraps, and that the check accepts exactly when the stream *is* that prefix: then
the commit makes the stream equal to the root's history, and otherwise the
stream is longer. For the refinement, `Holdings` maps a root to what the contract
knows of it: state, recorded events, and whether its `Save` has failed. `Get`,
`Save` and recording are the contract's steps of the same name. `DroppedOK`, that
nobody has failed with no root, makes the two ways of holding nothing one.

**`Repository_proofs`, the scenarios.** `ScenarioInv` says what is known at each
point of `AssertOn`. `CommandInv`: until the handler saves, the stream of the root
is as long as the number of events given to it and nothing is tracked; from then
on what the `TrackingStore` has recorded is what the stream holds beyond the given
events. `AgreeInv` carries the outcome of the aggregate's harness, which is known
from the start, along the steps of the command handler: with given events that
are a stream, what the repository loads from the store is the root that the
harness has built, so the method decides alike on both, and the version that the
root then has makes the check in `Save` pass. `QueryInv` says that the first given
events are the history in the store, each at its place. Its step is where the
subtraction in `evt.Version-1` matters: for the version 0 it wraps around to a
version that no stream of so few events has, so the check accepts the next
version and no other. This needs fewer given events than there are versions
(`ScenarioAssumption`).

**`Postgres_proofs`, the store.** `StoreInv`: `HoldsRow` says that a row is held exactly
by the transaction that has passed its upsert, and `SnapshotOf` that what a
transaction has read still is the version of the stream, unless its snapshot was
overwritten, and without exception once it holds the row. So the version written
at `COMMIT` is the number of rows, and the check made on the snapshot is a check
on the stream at the moment of the commit. The refinement maps the rows to the
contract's `log`; the commit is the contract's atomic `Append` (or, if its answer
is lost, a failure that has appended), the statements before it stutter. `Stream`
needs a lemma of its own: a query for versions from `n` on, in their order,
returns the part of the rows from `n` on.

**`Postgres_proofs`, the repository.** `RepositoryInv` adds the snapshot
(`RowOf`: an initial part of the rows, and all of them if nobody has bypassed the
repository) and the roots (`RootOf`). A root extends the *snapshot*, not only the
rows: every `Get` reads the snapshot, so no root has ever seen an event that
bypassed the repository. The property for which this is needed, that roots
extend the rows, follows but is not inductive: a commit replaces the snapshot by
the state of the root, and only a root that extends the old snapshot makes that
the next one. While `Save` is under way the flushed events count as recorded
(`Current`). Since the version the stream was checked for is that of the root
before its recorded events, the version after the append is the root's own: the
branch of `Save` that reports a mismatch is never taken. The refinement maps the
history of a root to its snapshot (`Cells`), and the commit to the contract's
compare-and-set; an append that bypasses the repository stutters.

**`InstrumentedRepository_proofs`.** `TelemetryInv` follows one value through the
layers: the error `e` with which the store's producer returned. `Outcome(e)` ties
it to the loop (a break means no error, no error and no break means that
everything was delivered); `Looping` says that the layers below the one that is
returning have ended their spans with `e` and the others are open; `LoopIsOver`
keeps this afterwards, when a second `Iter` may have put `ErrAlreadyIterated` in
the place of `Err`. `Getting` and `Saving` say how many measurements there are at
each point of the way up, and what they tell.

**`Envelopes_proofs`.** `MapInv` is about references. `References` says that every
reference leads to a map, `Progress` how far a `Save` is, and `Batch`, for a `Save`
that nobody raced, what the maps of its batch hold at each point relative to what
they held when it was called (`handed`): the same entries, and perhaps the two
keys that a `Save` writes (`Grown`). Events of a batch may share a map, so nothing
stronger survives the step for an earlier event. A nil map is replaced by a new
one, to which nothing else refers (`Private`). `RootInv` is about values:
the user that a goroutine holds, *read back as `Get` would read it*, is what the
replay of its history leads to, the history being the persisted events as they
deserialize followed by the recorded ones as they will. That alone is not
inductive, for `Get` replaces the user by the one that was read: reading that back
once more has to change nothing, which is the second half of `Root`. `Apart` says
that an in-memory goroutine never reaches the tables.

**`Applications_proofs`, the query handler.** `UserInv` says of the log that
`WasCreated` is the first event of its user and has version 1 (`Histories`). Of the
maps it says that their keys are those that the processed events name (`Keys`),
which gives `UpdatesFindTheirView`. For a pass from the first event on it says
that the index has the emails that the pass has come to (`IndexOfPass`), and the
view of each email is that of its last user (`ViewsOfPass`), whatever the maps
held before the pass. An update copies the view that the index leads to; that it
is a view of the same user (`OwnView`) follows because that email has not gone to
another user, who would have shared it (`NeverShared`). For events without a
handover `ViewsKept` says that every view belongs to the only user its email has
had, which no redelivery can change, wherever the feed goes back to. The proof
also shows that the version check never skips an event (`UpdateMoves`): every
view has version 1.

**`Applications_proofs`, the todo lists.** `ListInv` says that the replay of the
whole stream gives a list without an error and without duplicates (`Sound`), that
the list is created by its first event and no other, and, of a handler that is
about to save (`Handler`), that the method has succeeded on the replay of the first
`loaded` events. The optimistic check then makes these all the events there are,
so the recorded event is appended to the very list it was decided on: from this
follow `SuccessIsCurrent` and, by one step of `Apply`, that the longer stream is
sound. Rejecting a request, or losing the race, changes nothing.

**`Applications_proofs`, the process.** `ProcessInv` says that an exit status is
there exactly when `run` has returned, that it waits for the requests only after a
signal, and that nil was returned with no request in flight; no request is
accepted after that.

**Replays.** `Rehydrate` and `RehydrateFromEvents` are recursive functions on the
length of a stream. The library's induction theorems take an operator, which the
provers cannot instantiate; that every nonempty set of naturals has a least
member (`WFMin`) can be cited, and is enough. `InductionOnSet` of
`Applications_proofs` states induction for a set of naturals, `RecursionExists`
that a recursion of some length has a solution, and `SameRecursion` that it has
only one. What is proved about a replay is then its single step: the replay of a
longer stream is `Apply` on that of the shorter one, and does not depend on what
follows. The least refused event of a batch, up to which a method records,
is found in the same way (`AppliedSomewhere`).

Where a model bounds its exploration, the proofs about PostgreSQL and
`TrackingStore` use types without the bound: it is no part of what the code
does, and the theorems do not depend on it.

## What is only model-checked

- Liveness (`EveryCallReturns` of three modules, `SignalEndsProcess`,
  `RequestsAreAnswered`): the proof system has no rules for fairness and
  `ENABLED`.
- The type invariants that no theorem states by itself. Those of the proofs are
  as strong where they need to be, and without the bounds.

## Disagreements with the documentation

Three runs show that the code does something else than a comment says;
`PROJECT.json` quotes the lines.

1. `repository_retry`: `Save` after a failed `Save` returns nil though the
   events are not stored; they were flushed before the first attempt. The
   PostgreSQL repository has the same cause and a further effect: with
   `ReuseFailedRoots = TRUE` in `PostgresAggregateRepository_save.cfg`,
   `SnapshotMatchesEvents` is violated, because a `Save` that lost with a
   conflict and is called again succeeds, and overwrites the snapshot with a
   state whose event is not in the log. No passing run has such clients.
2. `postgres_race`: an `Append` that loses a race on its expected version gets
   the database's error instead of a `ConflictError`.
3. `user_replay`: the version of a `View` is "used to avoid re-processing of
   already-processed events" (`user_by_email.go:25`), but it is never advanced,
   so everything that is delivered again is applied again. u1 is created with
   e1, u2 with e2; u2 changes to e3 and u1 to e2; the feed then goes back to the
   creation of u2. That puts the view of u2 under e2 again, and the update of u1
   takes it for its own: a query by e2, the email of u1, answers u2.

Two more were met and need no run, as a single step shows them:

4. `GetByEmail` fetches a user "given its email" and the handler keeps users
   "indexed by their email" (`user_by_email.go:36` and `:42-43`). `Process` leaves
   the view under the former email in place (`:113-115`): a query by an email
   that its user has given up still finds the user, with that email.
5. `Metadata.With` "returns a new Metadata reference" (`message.go:20`). It writes
   into the map of the receiver and returns that, unless the receiver is nil; so
   do `Envelopes!With` and `Write`, and what comes of it is the subject of that
   module.

## What is not modelled

- The wire format of the todo lists (`proto.go`) and all generated code: field by
  field, and nothing is read back.
- The JSON, Protobuf and bytes serdes: one library call and its error each, like
  the Protobuf JSON serde, and without a use in the modelled parts. Their
  failures are among the faults of the PostgreSQL modules.
- The function adapters, configuration options and log lines; attributes and
  durations of spans and measurements.
- Running the migrations (golang-migrate) and the stored procedures that the last
  migration drops.
- PostgreSQL beyond what the statements rely on; spurious serialization failures
  count as faults.
- A consumer that appends to the in-memory store it is iterating over: it waits
  for its own read lock, as the comment on `Stream` warns.
- That Go may abort the process on unsynchronised map accesses: `Envelopes` only
  notes that they happened.
- Two aggregate types with one id in the table `aggregates`: the primary key does
  not tell them apart, and nothing says that an id may be shared.

## Plan

Modelled: the contracts, the stores, the repositories, the wrappers, envelopes and
serdes, the harnesses and the two applications. Proved: every invariant, action
property and refinement of a run that passes. What could come next:

1. A lossless account of the todo lists' wire format, once something reads it back.
2. The three hazards that no property covers: clients of the PostgreSQL repository
   that go on with a root whose `Save` failed (item 1 of the disagreements), a loop body that appends to the store it
   iterates over, which needs a consumer with calls of its own, and the abort of
   the process on racing map accesses, which is a matter of Go's runtime.
3. Liveness with a prover that has rules for fairness.
