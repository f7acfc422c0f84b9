----------------------------- MODULE Envelopes -----------------------------
(***************************************************************************)
(* Envelopes and their message.Metadata (message/message.go), from the     *)
(* command that brings them to the tables or the in-memory store that      *)
(* keeps them, and the user aggregate whose events they carry.             *)
(*                                                                         *)
(* A Metadata is a Go map, a reference: envelopes, recorded events and     *)
(* in-memory streams hold references, and With and Merge write through     *)
(* the one they are given.  Only a row of Postgres holds a copy.           *)
(*                                                                         *)
(* Each goroutine handles commands for a user of its own, so the versions  *)
(* never conflict (PostgresAggregateRepository has those): what the        *)
(* goroutines share is maps.  Map operations are atomic steps here; in Go  *)
(* those that `raced' tells of may also abort the process.                 *)
(***************************************************************************)
EXTENDS Serde, Naturals, Sequences

CONSTANTS
  Goroutines,
  InMemory,   \* those that save to an in-memory store, the others to Postgres
  Refs,       \* the addresses of maps
  Nil,        \* the nil Metadata
  NoUser,
  Traces,     \* what an application writes into Metadata
  Now,        \* what time.Now returns
  NewUsers,   \* the birth dates and emails users are created with
  Emails,     \* the emails they change to
  MaxVersion, \* bound: MaxVersion[g] events of the user of g
  MaxBatch    \* bound: events recorded between two Saves

(***************************************************************************)
(* A moment is a date and a clock, a user has an id and the fields that    *)
(* its events give it, and a map holds what applications and Save write.   *)
(***************************************************************************)
Moments ==
  [date  : {new.birthDate.date : new \in NewUsers},
   clock : {new.birthDate.clock : new \in NewUsers} \cup {Midnight}]

AnyEmail == Emails \cup {new.email : new \in NewUsers}

Users == [id : Goroutines, birthDate : Moments, email : AnyEmail]

Keys == {"Trace", "Recorded-At", "Recorded-With-New-Overall-Version"}

MapsWith(keys) == [keys -> Traces \cup {Now} \cup Nat]

ASSUME EnvelopesAssumption ==
  /\ InMemory \subseteq Goroutines
  /\ Error \notin Goroutines
  /\ \A new \in NewUsers : new.birthDate \in Moments
  /\ NoUser \notin Users
  /\ Nil \notin Refs
  /\ \A keys \in SUBSET Keys : Nil \notin MapsWith(keys)
  /\ MaxVersion \in [Goroutines -> Nat] /\ MaxBatch \in Nat

VARIABLES
  heap,        \* heap[r]: the map at the address r
  metadata,    \* metadata[g]: that of the command g is handling
  user,        \* user[g]: the root g holds, or NoUser
  recorded,    \* recorded[g]: its recorded events, as envelopes
  memory,      \* memory[g]: the in-memory stream of the user of g
  rows,        \* rows[g]: the rows of the table events
  aggregates,  \* aggregates[g]: its row in the table aggregates, or NoUser
  pc,          \* pc[g]: "idle", or the next step of the Save of g
  inserted,    \* inserted[g]: the rows of its transaction
  enriched,    \* enriched[g]: the Metadata appendDomainEvent is writing
  handed,      \* handed[g]: the maps of the recorded events as Save began
  raced        \* the goroutines whose maps another wrote during their Save

commandVars == <<metadata, user, recorded>>
tables == <<rows, aggregates>>
saveVars == <<pc, inserted, enriched, handed>>
vars == <<heap, commandVars, memory, tables, saveVars, raced>>

Init ==
  /\ heap = [r \in Refs |-> <<>>]
  /\ metadata = [g \in Goroutines |-> Nil]
  /\ user = [g \in Goroutines |-> NoUser]
  /\ recorded = [g \in Goroutines |-> <<>>]
  /\ memory = [g \in Goroutines |-> <<>>]
  /\ rows = [g \in Goroutines |-> <<>>]
  /\ aggregates = [g \in Goroutines |-> NoUser]
  /\ pc = [g \in Goroutines |-> "idle"]
  /\ inserted = [g \in Goroutines |-> <<>>]
  /\ enriched = [g \in Goroutines |-> Nil]
  /\ handed = [g \in Goroutines |-> <<>>]
  /\ raced = {}

MapsOf(envelopes) == {envelopes[k].metadata : k \in DOMAIN envelopes}

Held(g) ==
  {metadata[g], enriched[g]} \cup MapsOf(recorded[g]) \cup MapsOf(memory[g])

(***************************************************************************)
(* The allocator: an address that nothing refers to (external).            *)
(***************************************************************************)
Unused == Refs \ UNION {Held(g) : g \in Goroutines}

New == CHOOSE r \in Unused : TRUE

Content(r) == IF r = Nil THEN <<>> ELSE heap[r]

-----------------------------------------------------------------------------
(* Metadata.With and Metadata.Merge: the map that is written, and where.   *)

Over(new, old) ==
  [key \in DOMAIN new \cup DOMAIN old |->
     IF key \in DOMAIN new THEN new[key] ELSE old[key]]

Entry(key, value) == [k \in {key} |-> value]

With_NilStaysNil(m, key, value) ==
  [at |-> m.at, map |-> Over(Entry(key, value), m.map)]

With_KeepsFirst(m, key, value) ==
  [at  |-> IF m.at = Nil THEN New ELSE m.at,
   map |-> Over(m.map, Entry(key, value))]

With(m, key, value) ==
  [at  |-> IF m.at = Nil THEN New ELSE m.at,
   map |-> Over(Entry(key, value), m.map)]

Merge(m, other) ==
  IF m.at = Nil THEN other ELSE [at |-> m.at, map |-> Over(other.map, m.map)]

At(r) == [at |-> r, map |-> Content(r)]

(***************************************************************************)
(* g writes a map.  A Save that is under way, and whose events hold it,    *)
(* has been raced.                                                         *)
(***************************************************************************)
Write(g, m) ==
  /\ heap' = IF m.at = Nil THEN heap ELSE [heap EXCEPT ![m.at] = m.map]
  /\ raced' = raced \cup
       {h \in Goroutines \ {g} : pc[h] # "idle" /\ m.at \in MapsOf(recorded[h])}

-----------------------------------------------------------------------------
(* Envelopes of commands and events.                                       *)

ToEnvelope(message) == [message |-> message, metadata |-> Nil]

ToGenericEnvelope(cmd) == [message |-> cmd.message, metadata |-> cmd.metadata]

FromGenericEnvelope(type, cmd) ==
  IF cmd.message = type
  THEN [envelope |-> [message |-> type, metadata |-> cmd.metadata], ok |-> TRUE]
  ELSE [envelope |-> ToEnvelope("zero"), ok |-> FALSE]

(***************************************************************************)
(* A command reaches g: without metadata, with a map of its own, or with   *)
(* the map of the command that another goroutine is handling.              *)
(***************************************************************************)
Handle(g, cmd) ==
  LET received == FromGenericEnvelope("ChangeUser", ToGenericEnvelope(cmd))
  IN  /\ pc[g] = "idle"
      /\ received.ok
      /\ metadata' = [metadata EXCEPT ![g] = received.envelope.metadata]
      /\ UNCHANGED <<user, recorded, memory, tables, saveVars>>

HandleBare(g) == Handle(g, ToEnvelope("ChangeUser")) /\ UNCHANGED <<heap, raced>>

HandleTraced(g, trace) ==
  /\ Unused # {}
  /\ Handle(g, [message |-> "ChangeUser", metadata |-> New])
  /\ heap' = [heap EXCEPT ![New] = Entry("Trace", trace)]
  /\ UNCHANGED raced

HandleShared(g, h) ==
  /\ metadata[h] # Nil
  /\ Handle(g, [message |-> "ChangeUser", metadata |-> metadata[h]])
  /\ UNCHANGED <<heap, raced>>

(***************************************************************************)
(* The handler adds to the metadata of its command, or merges into it that *)
(* of an event it has streamed from the in-memory store.                   *)
(***************************************************************************)
AddTrace(g, trace) ==
  LET m == With(At(metadata[g]), "Trace", trace)
  IN  /\ pc[g] = "idle"
      /\ Unused # {}
      /\ Write(g, m)
      /\ metadata' = [metadata EXCEPT ![g] = m.at]
      /\ UNCHANGED <<user, recorded, memory, tables, saveVars>>

MergeStreamed(g, h, k) ==
  LET m == Merge(At(metadata[g]), At(memory[h][k].metadata))
  IN  /\ pc[g] = "idle"
      /\ IF metadata[g] = Nil THEN UNCHANGED <<heap, raced>> ELSE Write(g, m)
      /\ metadata' = [metadata EXCEPT ![g] = m.at]
      /\ UNCHANGED <<user, recorded, memory, tables, saveVars>>

-----------------------------------------------------------------------------
(* The user aggregate.                                                     *)

Apply(state, evt) ==
  IF evt.kind = "WasCreated"
  THEN [id |-> evt.id, birthDate |-> evt.birthDate, email |-> evt.email]
  ELSE [state EXCEPT !.email = evt.email]

Stored(g) == IF g \in InMemory THEN memory[g] ELSE rows[g]

Record(g, state, envelope) ==
  /\ pc[g] = "idle"
  /\ Len(recorded[g]) < MaxBatch
  /\ Len(Stored(g)) + Len(recorded[g]) < MaxVersion[g]
  /\ user' = [user EXCEPT ![g] = Apply(state, envelope.message)]
  /\ recorded' = [recorded EXCEPT ![g] = Append(@, envelope)]
  /\ UNCHANGED <<heap, metadata, memory, tables, saveVars, raced>>

Create(g, birthDate, email) ==
  /\ user[g] = NoUser
  /\ Stored(g) = <<>>
  /\ Record(g, NoUser, ToEnvelope([id        |-> g,
                                   kind      |-> "WasCreated",
                                   birthDate |-> birthDate,
                                   email     |-> email]))

UpdateEmail(g, email) ==
  /\ user[g] # NoUser
  /\ Record(g, user[g], [message  |-> [id    |-> user[g].id,
                                       kind  |-> "EmailWasUpdated",
                                       email |-> email],
                         metadata |-> metadata[g]])

Messages(envelopes) == [k \in DOMAIN envelopes |-> envelopes[k].message]

RehydrateFromEvents(events) ==
  LET root[k \in 0 .. Len(events)] ==
        IF k = 0 THEN NoUser ELSE Apply(root[k - 1], events[k])
  IN  root[Len(events)]

(***************************************************************************)
(* Get: RehydrateFromEvents of the in-memory stream, or RehydrateFromState *)
(* of the row in the table aggregates.                                     *)
(***************************************************************************)
Get(g) ==
  /\ pc[g] = "idle"
  /\ user[g] = NoUser
  /\ Stored(g) # <<>>
  /\ user' = [user EXCEPT ![g] =
       IF g \in InMemory
       THEN RehydrateFromEvents(Messages(memory[g]))
       ELSE DeserializeUser(aggregates[g])]
  /\ UNCHANGED <<heap, metadata, recorded, memory, tables, saveVars, raced>>

-----------------------------------------------------------------------------
(* Save.  In the in-memory store: the envelopes as they are.               *)

SaveInMemory(g) ==
  /\ g \in InMemory
  /\ recorded[g] # <<>>
  /\ memory' = [memory EXCEPT ![g] = @ \o recorded[g]]
  /\ recorded' = [recorded EXCEPT ![g] = <<>>]
  /\ UNCHANGED <<heap, metadata, user, tables, saveVars, raced>>

(***************************************************************************)
(* In Postgres: the transaction begins; every event is serialized, its     *)
(* metadata enriched, marshalled and inserted; the aggregate's state is    *)
(* written; the transaction commits.                                       *)
(***************************************************************************)
BeginSave(g) ==
  /\ g \notin InMemory
  /\ pc[g] = "idle"
  /\ recorded[g] # <<>>
  /\ pc' = [pc EXCEPT ![g] = "enrich"]
  /\ handed' = [handed EXCEPT ![g] =
       [k \in DOMAIN recorded[g] |-> Content(recorded[g][k].metadata)]]
  /\ UNCHANGED <<heap, commandVars, memory, tables, inserted, enriched, raced>>

newVersion(g) == Len(rows[g]) + Len(recorded[g])

Enriched(m, v) ==
  LET recordedAt == With(m, "Recorded-At", Now)
  IN  With(recordedAt, "Recorded-With-New-Overall-Version", v)

NextEvent(g) == recorded[g][Len(inserted[g]) + 1]

EnrichMetadata(g) ==
  /\ pc[g] = "enrich"
  /\ Len(inserted[g]) < Len(recorded[g])
  /\ SerializeEvent(NextEvent(g).message) # Error
  /\ Unused # {}
  /\ LET m == Enriched(At(NextEvent(g).metadata), newVersion(g))
     IN  /\ Write(g, m)
         /\ enriched' = [enriched EXCEPT ![g] = m.at]
  /\ pc' = [pc EXCEPT ![g] = "insert"]
  /\ UNCHANGED <<commandVars, memory, tables, inserted, handed>>

serializeMetadata(r) == IF r = Nil THEN Nil ELSE heap[r]

InsertEvent(g) ==
  /\ pc[g] = "insert"
  /\ inserted' = [inserted EXCEPT ![g] =
       Append(@, [event    |-> SerializeEvent(NextEvent(g).message),
                  metadata |-> serializeMetadata(enriched[g])])]
  /\ enriched' = [enriched EXCEPT ![g] = Nil]
  /\ pc' = [pc EXCEPT ![g] = "enrich"]
  /\ UNCHANGED <<heap, commandVars, memory, tables, handed, raced>>

EndSave(g) ==
  /\ pc' = [pc EXCEPT ![g] = "idle"]
  /\ recorded' = [recorded EXCEPT ![g] = <<>>]
  /\ inserted' = [inserted EXCEPT ![g] = <<>>]
  /\ enriched' = [enriched EXCEPT ![g] = Nil]
  /\ handed' = [handed EXCEPT ![g] = <<>>]
  /\ raced' = raced \ {g}
  /\ UNCHANGED <<heap, metadata, memory>>

saveAggregateState(g) ==
  aggregates' = [aggregates EXCEPT ![g] = SerializeUser(user[g])]

CommitSave(g) ==
  /\ pc[g] = "enrich"
  /\ Len(inserted[g]) = Len(recorded[g])
  /\ rows' = [rows EXCEPT ![g] = @ \o inserted[g]]
  /\ saveAggregateState(g)
  /\ EndSave(g)
  /\ UNCHANGED user

(***************************************************************************)
(* A statement or a serde fails: the tables are as before, the maps are    *)
(* not, and the caller drops the root, whose recorded events are gone.     *)
(***************************************************************************)
SaveFails(g) ==
  /\ pc[g] # "idle"
  /\ EndSave(g)
  /\ user' = [user EXCEPT ![g] = NoUser]
  /\ UNCHANGED tables

-----------------------------------------------------------------------------

Next ==
  \E g \in Goroutines :
    \/ HandleBare(g)
    \/ \E trace \in Traces : HandleTraced(g, trace) \/ AddTrace(g, trace)
    \/ \E h \in Goroutines \ {g} : HandleShared(g, h)
    \/ \E h \in Goroutines : \E k \in DOMAIN memory[h] : MergeStreamed(g, h, k)
    \/ \E new \in NewUsers : Create(g, new.birthDate, new.email)
    \/ \E email \in Emails : UpdateEmail(g, email)
    \/ Get(g)
    \/ SaveInMemory(g)
    \/ BeginSave(g)
    \/ EnrichMetadata(g)
    \/ InsertEvent(g)
    \/ CommitSave(g)
    \/ SaveFails(g)

Spec == Init /\ [][Next]_vars

-----------------------------------------------------------------------------

(***************************************************************************)
(* The type invariant.  A conversion that failed is never kept, and a      *)
(* goroutine that saves to one store never reaches the other.              *)
(***************************************************************************)
TypeOK ==
  /\ \A r \in Refs : \E keys \in SUBSET Keys : heap[r] \in MapsWith(keys)
  /\ metadata \in [Goroutines -> Refs \cup {Nil}]
  /\ \A g \in Goroutines :
       /\ user[g] # NoUser => user[g] \in Users /\ user[g].id = g
       /\ MapsOf(recorded[g]) \cup MapsOf(memory[g]) \subseteq Refs \cup {Nil}
       /\ g \in InMemory => rows[g] = <<>> /\ aggregates[g] = NoUser
       /\ g \notin InMemory => memory[g] = <<>>
       /\ pc[g] = "idle" => inserted[g] = <<>> /\ enriched[g] = Nil
  /\ pc \in [Goroutines -> {"idle", "enrich", "insert"}]
  /\ raced \subseteq Goroutines \ InMemory

(***************************************************************************)
(* What appendDomainEvent inserts is the metadata the event had when Save  *)
(* was called, with the keys of this very Save: neither what an earlier    *)
(* event of the batch, an earlier Save or a failed one has left in the     *)
(* same map, nor what the application writes into it afterwards, gets into *)
(* the row.  The one way to another row is a goroutine that writes a map   *)
(* of the batch while the Save is under way.                               *)
(***************************************************************************)
RowsTellTheirSave ==
  \A g \in Goroutines \ raced : \A k \in DOMAIN inserted[g] :
    LET before == handed[g][k]
        row    == inserted[g][k].metadata
    IN  /\ row # Nil
        /\ DOMAIN row = DOMAIN before \cup (Keys \ {"Trace"})
        /\ "Trace" \in DOMAIN row => row["Trace"] = before["Trace"]
        /\ row["Recorded-With-New-Overall-Version"] = newVersion(g)

(***************************************************************************)
(* Stream can read whatever Save has written: the event deserializes, and  *)
(* the metadata is no NULL, which json.Unmarshal would refuse, although    *)
(* most events are recorded without metadata.                              *)
(***************************************************************************)
RowsAreReadable ==
  \A g \in Goroutines : \A k \in DOMAIN rows[g] :
    /\ rows[g][k].metadata # Nil
    /\ DeserializeEvent(rows[g][k].event) # Error

(***************************************************************************)
(* The two ways to a user agree: what the snapshot deserializes to is what *)
(* its events, deserialized and applied one by one, lead to.  Both lose    *)
(* the clock of the birth date.                                            *)
(***************************************************************************)
SnapshotIsItsHistory ==
  \A g \in Goroutines :
    rows[g] # <<>> =>
      DeserializeUser(aggregates[g]) =
        RehydrateFromEvents(
          [k \in DOMAIN rows[g] |-> DeserializeEvent(rows[g][k].event)])

(***************************************************************************)
(* "assert.Equal(t, usr, got)" (internal/user/suite_aggregate_             *)
(* repository.go:50): a user that has been saved, and holds no new events, *)
(* equals what Get returns for it, if its birth date is a midnight UTC.    *)
(* Only the clock can differ otherwise, and only until the first Get.      *)
(***************************************************************************)
LoadedEqualsSaved ==
  \A g \in Goroutines \ InMemory :
    user[g] # NoUser /\ recorded[g] = <<>> =>
      LET got == DeserializeUser(aggregates[g])
      IN  /\ got = [user[g] EXCEPT !.birthDate.clock = Midnight]
          /\ user[g].birthDate.clock = Midnight => got = user[g]

=============================================================================
