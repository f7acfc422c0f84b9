----------------------- MODULE EventSourcedRepository -----------------------
(***************************************************************************)
(* aggregate.EventSourcedRepository (aggregate/event_sourced_repository.go)*)
(* used by concurrent clients, each with an Aggregate Root of its own: a   *)
(* root is created or fetched, records Domain Events, and is saved.        *)
(*                                                                         *)
(* The Event Store is any store that meets the contract of EventStore, so  *)
(* the stream that Get reads and the Append that Save makes are each       *)
(* atomic, and nothing else in Get and Save touches shared state.          *)
(***************************************************************************)
EXTENDS Aggregate, SequencesExt

CONSTANTS
  Clients,
  StoreMayFail,     \* the store may fail for reasons other than its check
  ReuseFailedRoots  \* clients go on using a root whose Save has failed

ASSUME RepositoryAssumption ==
  /\ StoreMayFail \in BOOLEAN
  /\ ReuseFailedRoots \in BOOLEAN

VARIABLES
  log,     \* log[id]: the Event Stream, in the Event Store
  root,    \* root[c]: the Aggregate Root that c holds, or NoRoot
  failed,  \* failed[c]: the last Save of root[c] returned an error
  result   \* result[c]: what c's last call returned

vars == <<log, root, failed, result>>

Init ==
  /\ log = [id \in StreamIDs |-> <<>>]
  /\ root = [c \in Clients |-> NoRoot]
  /\ failed = [c \in Clients |-> FALSE]
  /\ result = [c \in Clients |-> "none"]

Returns(c, r) == result' = [result EXCEPT ![c] = r]

Usable(c) == root[c] # NoRoot /\ (failed[c] => ReuseFailedRoots)

Create(c, id) ==
  /\ root[c] = NoRoot
  /\ root' = [root EXCEPT ![c] = NewRoot(id)]
  /\ Returns(c, "created")
  /\ UNCHANGED <<log, failed>>

Record(c, batch) ==
  /\ Usable(c)
  /\ root[c].version + Len(batch) <= MaxVersion
  /\ \E n \in 0 .. Len(batch) :
       /\ AppliesUpTo(n, batch)
       /\ root' = [root EXCEPT ![c] = RecordThat(@, batch, n)]
       /\ Returns(c, IF n = Len(batch) THEN "recorded" ELSE "apply error")
  /\ UNCHANGED <<log, failed>>

(***************************************************************************)
(* Get.  The Stream may end with an error, Apply may reject an event, and  *)
(* a stream without events means ErrRootNotFound.                          *)
(***************************************************************************)
GetFound(c, id) ==
  /\ root[c] = NoRoot
  /\ Rehydrates(log[id])
  /\ RehydrateFromEvents(id, log[id]).version # 0
  /\ root' = [root EXCEPT ![c] = RehydrateFromEvents(id, log[id])]
  /\ Returns(c, "found")
  /\ UNCHANGED <<log, failed>>

GetNotFound(c, id) ==
  /\ root[c] = NoRoot
  /\ Rehydrates(log[id])
  /\ RehydrateFromEvents(id, log[id]).version = 0
  /\ Returns(c, "not found")
  /\ UNCHANGED <<log, root, failed>>

GetFailed(c, id) ==
  /\ root[c] = NoRoot
  /\ StoreMayFail \/ ~ Rehydrates(log[id])
  /\ Returns(c, "error")
  /\ UNCHANGED <<log, root, failed>>

(***************************************************************************)
(* Save.  The events are flushed before the store is asked to append them, *)
(* so they are gone from the root whatever Append answers.                 *)
(***************************************************************************)
SaveCheck_Unchecked(r) == CheckAny

SaveCheck_NoSubtraction(r) == r.version

SaveCheck(r) == ExpectedVersion(r)

SaveNothing(c) ==
  /\ Usable(c)
  /\ root[c].recorded = <<>>
  /\ Returns(c, "saved")
  /\ failed' = [failed EXCEPT ![c] = FALSE]
  /\ UNCHANGED <<log, root>>

Appends(c) ==
  LET r == root[c]
  IN  /\ Accepts(SaveCheck(r), Len(log[r.id]))
      /\ log' = [log EXCEPT ![r.id] = @ \o r.recorded]

SaveCommitted(c) ==
  /\ Usable(c)
  /\ root[c].recorded # <<>>
  /\ Appends(c)
  /\ root' = [root EXCEPT ![c] = FlushRecordedEvents(@)]
  /\ Returns(c, "saved")
  /\ failed' = [failed EXCEPT ![c] = FALSE]

SaveConflict(c) ==
  /\ Usable(c)
  /\ root[c].recorded # <<>>
  /\ ~ Accepts(SaveCheck(root[c]), Len(log[root[c].id]))
  /\ root' = [root EXCEPT ![c] = FlushRecordedEvents(@)]
  /\ Returns(c, "conflict")
  /\ failed' = [failed EXCEPT ![c] = TRUE]
  /\ UNCHANGED log

SaveFailed_Swallowed(c) ==
  /\ StoreMayFail
  /\ Usable(c)
  /\ root[c].recorded # <<>>
  /\ UNCHANGED log
  /\ root' = [root EXCEPT ![c] = FlushRecordedEvents(@)]
  /\ Returns(c, "saved")
  /\ UNCHANGED failed

SaveFailed(c) ==
  /\ StoreMayFail
  /\ Usable(c)
  /\ root[c].recorded # <<>>
  /\ Appends(c) \/ UNCHANGED log
  /\ root' = [root EXCEPT ![c] = FlushRecordedEvents(@)]
  /\ Returns(c, "error")
  /\ failed' = [failed EXCEPT ![c] = TRUE]

(***************************************************************************)
(* The client lets go of its root: what every command handler of the       *)
(* repository does when it returns.                                        *)
(***************************************************************************)
Drop(c) ==
  /\ root[c] # NoRoot
  /\ root' = [root EXCEPT ![c] = NoRoot]
  /\ failed' = [failed EXCEPT ![c] = FALSE]
  /\ Returns(c, "none")
  /\ UNCHANGED log

(***************************************************************************)
(* Somebody else appends to the same stream, with version.Any.             *)
(***************************************************************************)
ForeignAppend(id, batch) ==
  /\ Len(log[id]) + Len(batch) <= MaxVersion
  /\ log' = [log EXCEPT ![id] = @ \o batch]
  /\ UNCHANGED <<root, failed, result>>

-----------------------------------------------------------------------------

Save(c) ==
  \/ SaveNothing(c)
  \/ SaveCommitted(c)
  \/ SaveConflict(c)
  \/ SaveFailed(c)

Get(c, id) == GetFound(c, id) \/ GetNotFound(c, id) \/ GetFailed(c, id)

Use(c) ==
  \/ \E id \in StreamIDs : Create(c, id) \/ Get(c, id)
  \/ \E batch \in Batches : Record(c, batch)
  \/ Save(c)
  \/ Drop(c)

Next ==
  \/ \E c \in Clients : Use(c)
  \/ \E id \in StreamIDs, batch \in Batches : ForeignAppend(id, batch)

Spec == Init /\ [][Next]_vars

-----------------------------------------------------------------------------

(***************************************************************************)
(* The type invariant: a root that Get or RecordThat produced has a        *)
(* version that is no less than 0, and every call returns one of its       *)
(* outcomes.                                                               *)
(***************************************************************************)
TypeOK ==
  /\ log \in [StreamIDs -> Seq(Events)]
  /\ root \in [Clients -> Roots \cup {NoRoot}]
  /\ failed \in [Clients -> BOOLEAN]
  /\ result \in [Clients -> {"none", "created", "recorded", "apply error",
                             "found", "not found", "saved", "conflict",
                             "error"}]

(***************************************************************************)
(* A root is its committed part, then what it has recorded: without the    *)
(* recorded events its state is an initial part of the Event Stream, which *)
(* its version counts.  Other clients may have moved the stream on, but    *)
(* never under the root's feet; so the subtraction in Save cannot wrap.    *)
(***************************************************************************)
RootsExtendStreams ==
  \A c \in Clients :
    LET r == root[c]
    IN  r # NoRoot /\ ~ failed[c] =>
          /\ r.version = Len(r.state)
          /\ Len(r.recorded) <= Len(r.state)
          /\ r.state = Base(r) \o r.recorded
          /\ IsPrefix(Base(r), log[r.id])

(***************************************************************************)
(* "Save stores the Aggregate Root to the Event Store, by adding the new,  *)
(* uncommitted Domain Events recorded through the Root": once Save has     *)
(* returned nil, every event the root went through is in the Event Stream. *)
(***************************************************************************)
SavedMeansStored ==
  \A c \in Clients :
    root[c] # NoRoot /\ result[c] = "saved" =>
      IsPrefix(root[c].state, log[root[c].id])

(***************************************************************************)
(* Optimistic concurrency: the events that a Save commits were decided on  *)
(* the very state they are appended to.  At the commit the stream becomes  *)
(* exactly the root's history, never a mix of it with other commits.       *)
(***************************************************************************)
NoStaleDecision ==
  [][\A c \in Clients :
       /\ root[c] # NoRoot
       /\ root[c].recorded # <<>>
       /\ result'[c] = "saved"
       /\ root'[c].recorded # root[c].recorded
       => log'[root[c].id] = root[c].state]_vars

(***************************************************************************)
(* A ConflictError is never spurious: the stream really holds events that  *)
(* the root has not seen, so some other append made progress.              *)
(***************************************************************************)
ConflictMeansProgress ==
  [][\A c \in Clients :
       result'[c] = "conflict" /\ ~ failed[c] /\ failed'[c] =>
         Len(log[root[c].id]) > Len(Base(root[c]))]_vars

(***************************************************************************)
(* "Repository is an interface used to get Aggregate Roots from and save   *)
(* them to some kind of storage": as long as clients let go of a root when *)
(* its Save has failed, Get reads all that was saved, and Save is a        *)
(* compare-and-set on the history of the root, for any number of clients.  *)
(***************************************************************************)
Held(c) ==
  IF root[c] = NoRoot
  THEN NoRoot
  ELSE [id       |-> root[c].id,
        state    |-> root[c].state,
        recorded |-> root[c].recorded,
        spoiled  |-> failed[c]]

Holdings == [c \in Clients |-> Held(c)]

Contract == INSTANCE Repository WITH held <- Holdings

ImplementsRepository == Contract!Spec

=============================================================================
