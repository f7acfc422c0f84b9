---------------------------- MODULE TrackingStore ----------------------------
(***************************************************************************)
(* event.TrackingStore (event/store_tracking.go): a wrapper that records   *)
(* what is appended through it.  The wrapped Store is any store that meets *)
(* the contract of EventStore; clients may also hold the wrapped store     *)
(* itself and append to it directly.  Stream is the wrapped store's own,   *)
(* promoted by embedding, and does not touch what is recorded.             *)
(*                                                                         *)
(* The wrapper's lock is held across the inner Append and the recording    *)
(* loop.  The slice that Recorded returns shares its array with the store, *)
(* which only ever writes past its end: the reader's view is a value.      *)
(***************************************************************************)
EXTENDS Event, FiniteSetsExt, SequencesExt

CONSTANTS
  Clients,
  NoOne,
  MayFail  \* whether the wrapped store's Append can fail

ASSUME TrackingAssumption ==
  /\ NoOne \notin Clients
  /\ MayFail \in BOOLEAN

VARIABLES
  log, call, reply,  \* the wrapped store (EventStore)
  mx,                \* TrackingStore.mx
  recorded,          \* TrackingStore.recorded
  pc,                \* pc[c]: where c is in TrackingStore.Append or Recorded
  args,              \* args[c]: the arguments of c's Append
  v,                 \* v[c]: the version the wrapped Append returned
  i,                 \* i[c]: the index of the recording loop
  acknowledged       \* what the wrapped Append has returned nil for

vars == <<log, call, reply, mx, recorded, pc, args, v, i,
          acknowledged>>

INSTANCE RWMutex

Inner == INSTANCE EventStore

innerVars == <<log, call, reply>>

Init ==
  /\ Inner!Init
  /\ mx = Unlocked
  /\ recorded = <<>>
  /\ pc = [c \in Clients |-> "idle"]
  /\ args = [c \in Clients |-> NoCall]
  /\ v = [c \in Clients |-> 0]
  /\ i = [c \in Clients |-> 0]
  /\ acknowledged = {}

Goto(c, label) == pc' = [pc EXCEPT ![c] = label]

(***************************************************************************)
(* The bound on the length of a stream, counting the batches of the calls  *)
(* that have not been answered.                                            *)
(***************************************************************************)
OnTheWay(id) ==
  {c \in Clients : args[c] # NoCall /\ args[c].id = id
                     /\ pc[c] \in {"lock", "wait", "inner", "direct"}
                     /\ reply[c] = Pending}

Fits(request) ==
  Len(log[request.id]) + Len(request.events)
    + MapThenSumSet(LAMBDA c : Len(args[c].events), OnTheWay(request.id))
  <= MaxVersion

(***************************************************************************)
(* Append: lock, forward, record, unlock.                                  *)
(***************************************************************************)
CallAppend(c, request) ==
  /\ pc[c] = "idle"
  /\ Fits(request)
  /\ args' = [args EXCEPT ![c] = request]
  /\ Goto(c, "lock")
  /\ UNCHANGED <<innerVars, mx, recorded, v, i, acknowledged>>

AnnounceLock(c) ==
  /\ pc[c] = "lock"
  /\ CanAnnounce(mx)
  /\ mx' = Announce(mx, c)
  /\ Goto(c, "wait")
  /\ UNCHANGED <<innerVars, recorded, args, v, i, acknowledged>>

ForwardAppend(c) ==
  /\ pc[c] = "wait"
  /\ Granted(mx, c)
  /\ Inner!Request(c, args[c])
  /\ Goto(c, "inner")
  /\ UNCHANGED <<mx, recorded, args, v, i, acknowledged>>

InnerAppend(c) ==
  /\ Inner!PerformAppend(c) \/ Inner!FailAppend(c)
  /\ UNCHANGED <<mx, recorded, pc, args, v, i, acknowledged>>

(***************************************************************************)
(* What a successful Append has been given: versions up to the returned.   *)
(***************************************************************************)
Assigned(c) ==
  LET last == reply[c].version
  IN  {[id |-> args[c].id, version |-> n] :
         n \in (last - Len(args[c].events) + 1) .. last}

InnerReturns_UnlockedEarly(c) ==
  /\ pc[c] = "inner"
  /\ Inner!Return(c)
  /\ \/ /\ reply[c].kind = "appended"
        /\ v' = [v EXCEPT ![c] = reply[c].version]
        /\ acknowledged' = acknowledged \cup Assigned(c)
        /\ mx' = Unlock(mx)
        /\ Goto(c, "record")
     \/ /\ reply[c].kind # "appended"
        /\ Goto(c, "unlock")
        /\ UNCHANGED <<mx, v, acknowledged>>
  /\ UNCHANGED <<recorded, args, i>>

InnerReturns(c) ==
  /\ pc[c] = "inner"
  /\ Inner!Return(c)
  /\ \/ /\ reply[c].kind = "appended"
        /\ v' = [v EXCEPT ![c] = reply[c].version]
        /\ acknowledged' = acknowledged \cup Assigned(c)
        /\ Goto(c, "record")
     \/ /\ reply[c].kind # "appended"
        /\ Goto(c, "unlock")
        /\ UNCHANGED <<v, acknowledged>>
  /\ UNCHANGED <<mx, recorded, args, i>>

RecordedVersion_Returned(c) == v[c]

RecordedVersion(c) == Minus(v[c], Len(args[c].events)) + i[c] + 1

RecordEvent(c) ==
  /\ pc[c] = "record"
  /\ i[c] < Len(args[c].events)
  /\ recorded' = Append(recorded,
       [id |-> args[c].id, version |-> RecordedVersion(c),
        event |-> args[c].events[i[c] + 1]])
  /\ i' = [i EXCEPT ![c] = @ + 1]
  /\ UNCHANGED <<innerVars, mx, pc, args, v, acknowledged>>

ReturnAppend_NoUnlockOnError(c) ==
  /\ pc[c] = "unlock" \/ (pc[c] = "record" /\ i[c] = Len(args[c].events))
  /\ mx' = IF pc[c] = "record" THEN Unlock(mx) ELSE mx
  /\ args' = [args EXCEPT ![c] = NoCall]
  /\ v' = [v EXCEPT ![c] = 0]
  /\ i' = [i EXCEPT ![c] = 0]
  /\ Goto(c, "idle")
  /\ UNCHANGED <<innerVars, recorded, acknowledged>>

ReturnAppend(c) ==
  /\ pc[c] = "unlock" \/ (pc[c] = "record" /\ i[c] = Len(args[c].events))
  /\ mx' = Unlock(mx)
  /\ args' = [args EXCEPT ![c] = NoCall]
  /\ v' = [v EXCEPT ![c] = 0]
  /\ i' = [i EXCEPT ![c] = 0]
  /\ Goto(c, "idle")
  /\ UNCHANGED <<innerVars, recorded, acknowledged>>

(***************************************************************************)
(* Recorded: the slice is read at label "read", under the read lock.       *)
(***************************************************************************)
CallRecorded(c) ==
  /\ pc[c] = "idle"
  /\ mx' = RLock(mx, c)
  /\ Goto(c, "rlock")
  /\ UNCHANGED <<innerVars, recorded, args, v, i, acknowledged>>

ReadRecorded_NoLock(c) ==
  /\ pc[c] = "rlock"
  /\ Goto(c, "read")
  /\ UNCHANGED <<innerVars, mx, recorded, args, v, i, acknowledged>>

ReadRecorded(c) ==
  /\ pc[c] = "rlock"
  /\ RLocked(mx, c)
  /\ Goto(c, "read")
  /\ UNCHANGED <<innerVars, mx, recorded, args, v, i, acknowledged>>

ReturnRecorded(c) ==
  /\ pc[c] = "read"
  /\ mx' = RUnlock(mx, c)
  /\ Goto(c, "idle")
  /\ UNCHANGED <<innerVars, recorded, args, v, i, acknowledged>>

(***************************************************************************)
(* A client that appends to the wrapped store.                             *)
(***************************************************************************)
CallDirect(c, request) ==
  /\ pc[c] = "idle"
  /\ Fits(request)
  /\ Inner!Request(c, request)
  /\ args' = [args EXCEPT ![c] = request]
  /\ Goto(c, "direct")
  /\ UNCHANGED <<mx, recorded, v, i, acknowledged>>

DirectReturns(c) ==
  /\ pc[c] = "direct"
  /\ Inner!Return(c)
  /\ args' = [args EXCEPT ![c] = NoCall]
  /\ Goto(c, "idle")
  /\ UNCHANGED <<mx, recorded, v, i, acknowledged>>

-----------------------------------------------------------------------------

Step(c) ==
  \/ ForwardAppend(c)
  \/ InnerAppend(c)
  \/ InnerReturns(c)
  \/ RecordEvent(c)
  \/ ReturnAppend(c)
  \/ ReadRecorded(c)
  \/ ReturnRecorded(c)
  \/ DirectReturns(c)

Start(c) ==
  \/ \E request \in AppendCalls :
       CallAppend(c, request) \/ CallDirect(c, request)
  \/ CallRecorded(c)

Next == \E c \in Clients : Start(c) \/ AnnounceLock(c) \/ Step(c)

Spec == Init /\ [][Next]_vars

(***************************************************************************)
(* Goroutines that can run do, a waiting writer gets the lock in the end   *)
(* (see InMemoryStore), and the wrapped store answers.                     *)
(***************************************************************************)
Fairness ==
  \A c \in Clients : WF_vars(Step(c)) /\ SF_vars(AnnounceLock(c))

FairSpec == Spec /\ Fairness

-----------------------------------------------------------------------------

(***************************************************************************)
(* The type invariant.  The versions of recorded events count from 1,      *)
(* which the unsigned subtraction in Append could get wrong.               *)
(***************************************************************************)
TypeOK ==
  /\ log \in [StreamIDs -> Seq(Events)]
  /\ call \in [Clients -> {NoCall} \cup AppendCalls]
  /\ reply \in [Clients -> Replies]
  /\ mx \in [writer : Clients \cup {NoOne}, readers : SUBSET Clients,
             blocked : SUBSET Clients]
  /\ recorded \in Seq([id : StreamIDs, version : 1 .. MaxVersion,
                       event : Events])
  /\ pc \in [Clients -> {"idle", "lock", "wait", "inner", "record", "unlock",
                         "rlock", "read", "direct"}]
  /\ args \in [Clients -> {NoCall} \cup AppendCalls]
  /\ v \in [Clients -> 0 .. MaxVersion]
  /\ i \in [Clients -> 0 .. MaxBatch]
  /\ acknowledged \in SUBSET [id : StreamIDs, version : 1 .. MaxVersion]

(***************************************************************************)
(* "Each returned Persisted event carries the Version assigned by the      *)
(* wrapped Event Store": every recorded event is the event the wrapped     *)
(* store holds at that version of that stream, also when others append to  *)
(* the wrapped store between the inner Append and the recording loop.      *)
(***************************************************************************)
RecordedIsCommitted ==
  \A k \in DOMAIN recorded :
    LET r == recorded[k]
    IN  r.version \in DOMAIN log[r.id] /\ log[r.id][r.version] = r.event

(***************************************************************************)
(* Recorded lists the events of a stream in version order, each once, even *)
(* when several goroutines append through the wrapper at the same time.    *)
(***************************************************************************)
RecordedInOrder ==
  \A k, m \in DOMAIN recorded :
    k < m /\ recorded[k].id = recorded[m].id =>
      recorded[k].version < recorded[m].version

(***************************************************************************)
(* A caller of Recorded never sees an Append half recorded, nor misses one *)
(* that has returned: what is read is exactly what the wrapped store has   *)
(* acknowledged to appends through the wrapper.  (An Append that the store *)
(* committed but answered with an error is not in it.)                     *)
(***************************************************************************)
RecordedIsComplete ==
  (\E c \in Clients : pc[c] = "read") =>
    acknowledged = {[id |-> recorded[k].id, version |-> recorded[k].version] :
                      k \in DOMAIN recorded}

(***************************************************************************)
(* Every call returns, the calls that fail included: nobody leaves the     *)
(* wrapper's lock behind.                                                  *)
(***************************************************************************)
EveryCallReturns == \A c \in Clients : pc[c] # "idle" ~> pc[c] = "idle"

=============================================================================
