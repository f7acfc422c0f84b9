---------------------------- MODULE InMemoryStore ----------------------------
(***************************************************************************)
(* event.InMemoryStore (event/store_inmemory.go): a map of slices behind   *)
(* a sync.RWMutex, used by any number of goroutines.                       *)
(*                                                                         *)
(* Append locks, compares, extends and unlocks; those are separate steps,  *)
(* so that the lock is what makes Append atomic.  Stream is iterated by    *)
(* its consumer: between two yields control is in the consumer's loop      *)
(* body, with the read lock held, and the consumer may break out of the    *)
(* loop or its context may be cancelled.  A map key that is absent and one *)
(* that holds no events behave alike, so events is total.                  *)
(***************************************************************************)
EXTENDS Event, FiniteSetsExt

CONSTANTS Goroutines, NoOne

ASSUME NoOneAssumption == NoOne \notin Goroutines

VARIABLES
  events,     \* InMemoryStore.events
  mx,         \* InMemoryStore.mx
  pc,         \* pc[g]: where goroutine g is
  call,       \* call[g]: the arguments of the call g is in, or NoCall
  cancelled,  \* cancelled[g]: ctx.Err() is not nil for g's Stream
  next,       \* next[g]: the version the range loop of g looks at next
  got,        \* got[g]: what g's consumer has been given so far
  reply       \* reply[g]: what the call of g is about to return

storeVars == <<events, mx, pc, call, cancelled, next, got, reply>>

INSTANCE RWMutex

Init ==
  /\ events = [id \in StreamIDs |-> <<>>]
  /\ mx = Unlocked
  /\ pc = [g \in Goroutines |-> "idle"]
  /\ call = [g \in Goroutines |-> NoCall]
  /\ cancelled = [g \in Goroutines |-> FALSE]
  /\ next = [g \in Goroutines |-> 0]
  /\ got = [g \in Goroutines |-> <<>>]
  /\ reply = [g \in Goroutines |-> Pending]

Goto(g, label) == pc' = [pc EXCEPT ![g] = label]

(***************************************************************************)
(* Append.  The first conjunct of CallAppend is the bound on the length of *)
(* a stream: it counts the batches that are still on their way.            *)
(***************************************************************************)
OnTheWay(id) ==
  {g \in Goroutines : pc[g] \in {"lock", "wait", "check", "extend"}
                        /\ call[g].id = id}

CallAppend(g, id, expected, batch) ==
  /\ Len(events[id]) + Len(batch)
       + MapThenSumSet(LAMBDA h : Len(call[h].events), OnTheWay(id))
     <= MaxVersion
  /\ pc[g] = "idle"
  /\ Goto(g, "lock")
  /\ call' = [call EXCEPT ![g] = AppendCall(id, expected, batch)]
  /\ UNCHANGED <<events, mx, cancelled, next, got, reply>>

AnnounceLock(g) ==
  /\ pc[g] = "lock"
  /\ CanAnnounce(mx)
  /\ mx' = Announce(mx, g)
  /\ Goto(g, "wait")
  /\ UNCHANGED <<events, call, cancelled, next, got, reply>>

AcquireLock_ReadersIgnored(g) ==
  /\ pc[g] = "wait"
  /\ Goto(g, "check")
  /\ UNCHANGED <<events, mx, call, cancelled, next, got, reply>>

AcquireLock(g) ==
  /\ pc[g] = "wait"
  /\ Granted(mx, g)
  /\ Goto(g, "check")
  /\ UNCHANGED <<events, mx, call, cancelled, next, got, reply>>

VersionConflicts_AnyIsExact(expected, currentVersion) ==
  currentVersion # expected

VersionConflicts(expected, currentVersion) ==
  expected # CheckAny /\ currentVersion # expected

CheckVersion(g) ==
  LET currentVersion == Len(events[call[g].id])
  IN  /\ pc[g] = "check"
      /\ \/ /\ VersionConflicts(call[g].expected, currentVersion)
            /\ reply' = [reply EXCEPT ![g] =
                           Conflict(call[g].expected, currentVersion)]
            /\ Goto(g, "unlock")
         \/ /\ ~ VersionConflicts(call[g].expected, currentVersion)
            /\ Goto(g, "extend")
            /\ UNCHANGED reply
      /\ UNCHANGED <<events, mx, call, cancelled, next, got>>

ExtendStream(g) ==
  LET extended == events[call[g].id] \o call[g].events
  IN  /\ pc[g] = "extend"
      /\ events' = [events EXCEPT ![call[g].id] = extended]
      /\ reply' = [reply EXCEPT ![g] = Appended(Len(extended))]
      /\ Goto(g, "unlock")
      /\ UNCHANGED <<mx, call, cancelled, next, got>>

ReturnAppend(g) ==
  /\ pc[g] = "unlock"
  /\ mx' = Unlock(mx)
  /\ call' = [call EXCEPT ![g] = NoCall]
  /\ Goto(g, "idle")
  /\ reply' = [reply EXCEPT ![g] = Pending]
  /\ UNCHANGED <<events, cancelled, next, got>>

(***************************************************************************)
(* Stream.  The producer runs when the consumer ranges over the Stream.    *)
(***************************************************************************)
CallStream(g, id, from) ==
  /\ pc[g] = "idle"
  /\ mx' = RLock(mx, g)
  /\ Goto(g, "rlock")
  /\ call' = [call EXCEPT ![g] = StreamCall(id, from)]
  /\ UNCHANGED <<events, cancelled, next, got, reply>>

StartIteration(g) ==
  /\ pc[g] = "rlock"
  /\ RLocked(mx, g)
  /\ next' = [next EXCEPT ![g] = 1]
  /\ Goto(g, "range")
  /\ UNCHANGED <<events, mx, call, cancelled, got, reply>>

InRange(g) == pc[g] = "range" /\ next[g] <= Len(events[call[g].id])

EndStream(g, end) ==
  /\ reply' = [reply EXCEPT ![g] = Streamed(got[g], end)]
  /\ Goto(g, "runlock")
  /\ UNCHANGED <<events, mx, call, cancelled, next, got>>

CancelIteration(g) == InRange(g) /\ cancelled[g] /\ EndStream(g, "error")

Skips_OffByOne(g) == next[g] <= call[g].from

Skips(g) == next[g] < call[g].from

SkipEvent(g) ==
  /\ InRange(g)
  /\ ~ cancelled[g]
  /\ Skips(g)
  /\ next' = [next EXCEPT ![g] = @ + 1]
  /\ UNCHANGED <<events, mx, pc, call, cancelled, got, reply>>

YieldEvent(g) ==
  /\ InRange(g)
  /\ ~ cancelled[g]
  /\ ~ Skips(g)
  /\ got' = [got EXCEPT ![g] = Append(@,
               [version |-> next[g], event |-> events[call[g].id][next[g]]])]
  /\ Goto(g, "yield")
  /\ UNCHANGED <<events, mx, call, cancelled, next, reply>>

FinishIteration(g) ==
  /\ pc[g] = "range"
  /\ ~ InRange(g)
  /\ EndStream(g, "complete")

ForgetIteration(g) ==
  /\ cancelled' = [cancelled EXCEPT ![g] = FALSE]
  /\ next' = [next EXCEPT ![g] = 0]
  /\ got' = [got EXCEPT ![g] = <<>>]
  /\ reply' = [reply EXCEPT ![g] = Pending]

ReturnStream_LockLeaked(g) ==
  /\ pc[g] = "runlock"
  /\ call' = [call EXCEPT ![g] = NoCall]
  /\ Goto(g, "idle")
  /\ ForgetIteration(g)
  /\ UNCHANGED <<events, mx>>

ReturnStream(g) ==
  /\ pc[g] = "runlock"
  /\ mx' = RUnlock(mx, g)
  /\ call' = [call EXCEPT ![g] = NoCall]
  /\ Goto(g, "idle")
  /\ ForgetIteration(g)
  /\ UNCHANGED events

(***************************************************************************)
(* The consumer: its loop body ends, or it breaks; and its context may be  *)
(* cancelled at any time.                                                  *)
(***************************************************************************)
ResumeIteration(g) ==
  /\ pc[g] = "yield"
  /\ next' = [next EXCEPT ![g] = @ + 1]
  /\ Goto(g, "range")
  /\ UNCHANGED <<events, mx, call, cancelled, got, reply>>

AbandonIteration(g) == pc[g] = "yield" /\ EndStream(g, "abandoned")

CancelContext(g) ==
  /\ pc[g] \in {"rlock", "range", "yield"}
  /\ ~ cancelled[g]
  /\ cancelled' = [cancelled EXCEPT ![g] = TRUE]
  /\ UNCHANGED <<events, mx, pc, call, next, got, reply>>

-----------------------------------------------------------------------------

(***************************************************************************)
(* The steps a goroutine takes on its own once it is in a call.            *)
(***************************************************************************)
AppendStep(g) ==
  \/ AcquireLock(g)
  \/ CheckVersion(g)
  \/ ExtendStream(g)
  \/ ReturnAppend(g)

StreamStep(g) ==
  \/ StartIteration(g)
  \/ CancelIteration(g)
  \/ SkipEvent(g)
  \/ YieldEvent(g)
  \/ FinishIteration(g)
  \/ ReturnStream(g)

ConsumerStep(g) == ResumeIteration(g) \/ AbandonIteration(g)

Internal(g) ==
  \/ AnnounceLock(g)
  \/ AppendStep(g)
  \/ StreamStep(g)
  \/ ConsumerStep(g)
  \/ CancelContext(g)

StartAppend(g) ==
  \E id \in StreamIDs, expected \in {CheckAny} \cup (0 .. MaxVersion),
     batch \in Batches : CallAppend(g, id, expected, batch)

StartStream(g) ==
  \E id \in StreamIDs, from \in 0 .. (MaxVersion + 1) : CallStream(g, id, from)

Next == \E g \in Goroutines : Internal(g) \/ StartAppend(g) \/ StartStream(g)

Spec == Init /\ [][Next]_storeVars

(***************************************************************************)
(* Go runs every goroutine that can run, so each takes its next step       *)
(* eventually; consumers are assumed to finish their loop bodies (the doc  *)
(* comment of Stream warns that one that does not blocks the writers).     *)
(* Writers queue on the sync.Mutex inside the RWMutex, whose starvation    *)
(* mode hands it to the one that has waited longest: strong fairness.      *)
(***************************************************************************)
Fairness ==
  \A g \in Goroutines :
    /\ WF_storeVars(AppendStep(g))
    /\ WF_storeVars(StreamStep(g))
    /\ WF_storeVars(ConsumerStep(g))
    /\ SF_storeVars(AnnounceLock(g))

FairSpec == Spec /\ Fairness

-----------------------------------------------------------------------------

AppendLabels == {"lock", "wait", "check", "extend", "unlock"}

StreamLabels == {"rlock", "range", "yield", "runlock"}

(***************************************************************************)
(* The type invariant.  A conflict that Append reports carries a version   *)
(* that was really asked for: CheckAny never conflicts.                    *)
(***************************************************************************)
TypeOK ==
  /\ events \in [StreamIDs -> Seq(Events)]
  /\ mx \in [writer : Goroutines \cup {NoOne}, readers : SUBSET Goroutines,
             blocked : SUBSET Goroutines]
  /\ pc \in [Goroutines -> {"idle"} \cup AppendLabels \cup StreamLabels]
  /\ call \in [Goroutines -> {NoCall} \cup AppendCalls \cup StreamCalls]
  /\ cancelled \in [Goroutines -> BOOLEAN]
  /\ next \in [Goroutines -> Nat]
  /\ got \in [Goroutines -> Seq(Persisted)]
  /\ reply \in [Goroutines -> Replies]

(***************************************************************************)
(* The map and its slices are never accessed by an Append that is between  *)
(* its version check and its return while another goroutine reads or       *)
(* writes them: neither a second Append nor a Stream that is being         *)
(* iterated, a consumer paused in its loop body included.                  *)
(***************************************************************************)
Writing(g) == pc[g] \in {"check", "extend"}

Accessing(g) == pc[g] \in {"check", "extend", "range", "yield"}

NoDataRace ==
  \A g, h \in Goroutines : Writing(g) /\ Accessing(h) => g = h

(***************************************************************************)
(* The store implements the contract of event.Store without ever failing:  *)
(* whatever the interleaving, every Append and every Stream takes effect   *)
(* atomically between call and return, the optimistic concurrency check    *)
(* included.  The contract's instant is the slice's extension, the         *)
(* conflict's detection, or the end of the iteration.                      *)
(***************************************************************************)
Contract ==
  INSTANCE EventStore
    WITH log <- events, Clients <- Goroutines, MayFail <- FALSE

ImplementsEventStore == Contract!Spec

(***************************************************************************)
(* Every call returns: readers and writers cannot starve each other,       *)
(* however long the queue of either (the read lock is held across yields). *)
(***************************************************************************)
EveryCallReturns ==
  \A g \in Goroutines : call[g] # NoCall ~> call[g] = NoCall

=============================================================================
