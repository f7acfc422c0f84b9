-------------------------- MODULE Repository_proofs --------------------------
(***************************************************************************)
(* Proofs about EventSourcedRepository, for any number of clients, streams *)
(* and events, when clients let go of a root whose Save has failed; and    *)
(* about the scenarios that test methods of aggregates, command handlers   *)
(* around such a repository and query handlers, for any given events and   *)
(* any code under test.                                                    *)
(***************************************************************************)
EXTENDS EventSourcedRepository, Scenario, Aggregate_proofs, FiniteSetTheorems,
        WellFoundedInduction

-----------------------------------------------------------------------------
(***************************************************************************)
(* The event-sourced repository.                                           *)
(***************************************************************************)
(***************************************************************************)
(* RootsExtendStreams, entry by entry.                                     *)
(***************************************************************************)
RootOK(c) ==
  root[c] # NoRoot /\ ~ failed[c] => Extends(root[c], log[root[c].id])

(***************************************************************************)
(* A root whose last call was a successful Save has nothing left to save.  *)
(***************************************************************************)
SavedOK(c) ==
  root[c] # NoRoot /\ result[c] = "saved" =>
    ~ failed[c] /\ root[c].recorded = <<>>

(***************************************************************************)
(* A client without a root has let go of the failure too.                  *)
(***************************************************************************)
DroppedOK(c) == root[c] = NoRoot => ~ failed[c]

IInv == TypeOK /\ \A c \in Clients : RootOK(c) /\ SavedOK(c) /\ DroppedOK(c)

-----------------------------------------------------------------------------

LEMMA InitIInv == Init => IInv
  BY DEF Init, IInv, TypeOK, RootOK, SavedOK, DroppedOK, NoRoot

(***************************************************************************)
(* Streams only grow, by appending.                                        *)
(***************************************************************************)
Grows ==
  \A id \in StreamIDs :
    \/ log'[id] = log[id]
    \/ \E t \in Seq(Events) : log'[id] = log[id] \o t

LEMMA AppendsGrows ==
  ASSUME TypeOK, NEW c \in Clients, root[c] # NoRoot, Appends(c)
  PROVE  /\ log' \in [StreamIDs -> Seq(Events)]
         /\ log'[root[c].id] = log[root[c].id] \o root[c].recorded
         /\ Grows
<1>1. /\ root[c] \in Roots /\ root[c].id \in StreamIDs
      /\ root[c].recorded \in Seq(Events)
  BY RootTypes DEF TypeOK
<1>2. log[root[c].id] \o root[c].recorded \in Seq(Events)
  BY <1>1, ConcatProperties DEF TypeOK
<1> QED BY <1>1, <1>2 DEF Appends, Grows, TypeOK

LEMMA NextIInv ==
  ASSUME ~ ReuseFailedRoots, IInv, [Next]_vars
  PROVE  IInv'
<1> DEFINE Kept(d) ==
             /\ root'[d] = root[d] /\ failed'[d] = failed[d]
             /\ result'[d] = result[d]
           OK(d) == (RootOK(d) /\ SavedOK(d) /\ DroppedOK(d))'
<1> USE DEF TypeOK, Returns
<1>1. TypeOK /\ \A d \in Clients : RootOK(d) /\ SavedOK(d) /\ DroppedOK(d)
  BY DEF IInv
<1>2. ASSUME Grows, NEW d \in Clients, Kept(d) PROVE OK(d)
  <2>1. CASE root[d] = NoRoot \/ failed[d]
    BY <1>1, <1>2, <2>1 DEF RootOK, SavedOK, DroppedOK
  <2>2. CASE root[d] # NoRoot /\ ~ failed[d]
    <3>1. /\ root[d] \in Roots /\ root[d].id \in StreamIDs
          /\ log[root[d].id] \in Seq(Events)
      BY <1>1, <2>2, RootTypes
    <3>2. Extends(root[d], log'[root[d].id])
      BY <1>1, <1>2, <2>2, <3>1, ExtendsLonger DEF Grows, RootOK
    <3> QED BY <1>1, <1>2, <2>2, <3>2 DEF RootOK, SavedOK, DroppedOK
  <2> QED BY <2>1, <2>2
<1>3. ASSUME NEW c \in Clients, NEW id \in StreamIDs, Create(c, id)
      PROVE  IInv'
  <2>1. TypeOK' /\ Grows /\ \A d \in Clients \ {c} : Kept(d)
    BY <1>1, <1>3, NewRootProperties DEF Create, Grows
  <2>2. OK(c)
    BY <1>1, <1>3, NewRootProperties DEF Create, RootOK, SavedOK, DroppedOK
  <2> QED BY <1>2, <2>1, <2>2 DEF IInv
<1>4. ASSUME NEW c \in Clients, NEW batch \in Batches, Record(c, batch)
      PROVE  IInv'
  <2>1. PICK n \in 0 .. Len(batch) :
          /\ root' = [root EXCEPT ![c] = RecordThat(root[c], batch, n)]
          /\ result' = [result EXCEPT ![c] =
               IF n = Len(batch) THEN "recorded" ELSE "apply error"]
    BY <1>4 DEF Record
  <2>2. /\ root[c] # NoRoot /\ ~ failed[c] /\ root[c] \in Roots
        /\ log' = log /\ failed' = failed
    BY <1>1, <1>4 DEF Record, Usable
  <2>3. root[c].id \in StreamIDs /\ batch \in Seq(Events)
    BY <2>2, RootTypes, BatchTypes
  <2>4. /\ RecordThat(root[c], batch, n) \in Roots
        /\ RecordThat(root[c], batch, n).id = root[c].id
        /\ Extends(RecordThat(root[c], batch, n), log[root[c].id])
    BY <1>1, <2>2, <2>3, RecordThatProperties DEF RootOK
  <2>5. TypeOK' /\ Grows /\ \A d \in Clients \ {c} : Kept(d)
    BY <1>1, <2>1, <2>2, <2>4 DEF Grows
  <2>6. OK(c)
    BY <1>1, <2>1, <2>2, <2>4 DEF RootOK, SavedOK, DroppedOK
  <2> QED BY <1>2, <2>5, <2>6 DEF IInv
<1>5. ASSUME NEW c \in Clients, NEW id \in StreamIDs, GetFound(c, id)
      PROVE  IInv'
  <2>1. /\ RehydrateFromEvents(id, log[id]) \in Roots
        /\ RehydrateFromEvents(id, log[id]).id = id
        /\ Extends(RehydrateFromEvents(id, log[id]), log[id])
    BY <1>1, RehydrateProperties
  <2>2. TypeOK' /\ Grows /\ \A d \in Clients \ {c} : Kept(d)
    BY <1>1, <1>5, <2>1 DEF GetFound, Grows
  <2>3. OK(c)
    BY <1>1, <1>5, <2>1 DEF GetFound, RootOK, SavedOK, DroppedOK
  <2> QED BY <1>2, <2>2, <2>3 DEF IInv
<1>6. ASSUME NEW c \in Clients, NEW id \in StreamIDs,
             GetNotFound(c, id) \/ GetFailed(c, id)
      PROVE  IInv'
  <2>1. /\ root[c] = NoRoot /\ UNCHANGED <<log, root, failed>>
        /\ \/ result' = [result EXCEPT ![c] = "not found"]
           \/ result' = [result EXCEPT ![c] = "error"]
    BY <1>6 DEF GetNotFound, GetFailed
  <2>2. TypeOK' /\ Grows /\ \A d \in Clients \ {c} : Kept(d)
    BY <1>1, <2>1 DEF Grows
  <2>3. OK(c)
    BY <1>1, <2>1 DEF RootOK, SavedOK, DroppedOK
  <2> QED BY <1>2, <2>2, <2>3 DEF IInv
<1>7. ASSUME NEW c \in Clients, SaveNothing(c) PROVE IInv'
  <2>1. /\ root[c] # NoRoot /\ ~ failed[c] /\ root[c].recorded = <<>>
        /\ log' = log /\ root' = root
        /\ failed' = [failed EXCEPT ![c] = FALSE]
        /\ result' = [result EXCEPT ![c] = "saved"]
    BY <1>7 DEF SaveNothing, Usable
  <2>2. TypeOK' /\ Grows /\ \A d \in Clients \ {c} : Kept(d)
    BY <1>1, <2>1 DEF Grows
  <2>3. OK(c)
    BY <1>1, <2>1 DEF RootOK, SavedOK, DroppedOK
  <2> QED BY <1>2, <2>2, <2>3 DEF IInv
<1>8. ASSUME NEW c \in Clients, SaveCommitted(c) PROVE IInv'
  <2> DEFINE q == FlushRecordedEvents(root[c])
  <2>1. /\ root[c] # NoRoot /\ ~ failed[c] /\ root[c] \in Roots
        /\ Appends(c)
        /\ root' = [root EXCEPT ![c] = q]
        /\ failed' = [failed EXCEPT ![c] = FALSE]
        /\ result' = [result EXCEPT ![c] = "saved"]
    BY <1>1, <1>8 DEF SaveCommitted, Usable
  <2>2. /\ q \in Roots /\ q.id = root[c].id /\ q.recorded = <<>>
    BY <2>1, FlushProperties
  <2>3. /\ log' \in [StreamIDs -> Seq(Events)]
        /\ log'[root[c].id] = log[root[c].id] \o root[c].recorded
        /\ Grows
    BY <1>1, <2>1, AppendsGrows
  <2>4. /\ Extends(root[c], log[root[c].id])
        /\ log[root[c].id] \in Seq(Events)
        /\ Accepts(SaveCheck(root[c]), Len(log[root[c].id]))
    BY <1>1, <2>1, RootTypes DEF RootOK, Appends
  <2>5. Extends(q, log'[root[c].id])
    BY <2>1, <2>3, <2>4, CommitProperties DEF SaveCheck
  <2> HIDE DEF q
  <2>6. TypeOK' /\ \A d \in Clients \ {c} : Kept(d)
    BY <1>1, <2>1, <2>2, <2>3
  <2>7. OK(c)
    BY <1>1, <2>1, <2>2, <2>5 DEF RootOK, SavedOK, DroppedOK
  <2> QED BY <1>2, <2>3, <2>6, <2>7 DEF IInv
<1>9. ASSUME NEW c \in Clients, SaveConflict(c) \/ SaveFailed(c) PROVE IInv'
  <2> DEFINE q == FlushRecordedEvents(root[c])
  <2>1. /\ root[c] # NoRoot /\ root[c] \in Roots
        /\ Appends(c) \/ log' = log
        /\ root' = [root EXCEPT ![c] = q]
        /\ failed' = [failed EXCEPT ![c] = TRUE]
        /\ \/ result' = [result EXCEPT ![c] = "conflict"]
           \/ result' = [result EXCEPT ![c] = "error"]
    BY <1>1, <1>9 DEF SaveConflict, SaveFailed, Usable
  <2>2. q \in Roots
    BY <2>1, FlushProperties
  <2>3. log' \in [StreamIDs -> Seq(Events)] /\ Grows
    BY <1>1, <2>1, AppendsGrows DEF Grows
  <2> HIDE DEF q
  <2>4. TypeOK' /\ \A d \in Clients \ {c} : Kept(d)
    BY <1>1, <2>1, <2>2, <2>3
  <2>5. OK(c)
    BY <1>1, <2>1, <2>2, RootTypes DEF RootOK, SavedOK, DroppedOK
  <2> QED BY <1>2, <2>3, <2>4, <2>5 DEF IInv
<1>10. ASSUME NEW c \in Clients, Drop(c) PROVE IInv'
  <2>1. TypeOK' /\ Grows /\ \A d \in Clients \ {c} : Kept(d)
    BY <1>1, <1>10 DEF Drop, Grows
  <2>2. OK(c)
    BY <1>1, <1>10 DEF Drop, RootOK, SavedOK, DroppedOK
  <2> QED BY <1>2, <2>1, <2>2 DEF IInv
<1>11. ASSUME NEW id \in StreamIDs, NEW batch \in Batches,
              ForeignAppend(id, batch)
       PROVE  IInv'
  <2>1. batch \in Seq(Events) /\ log[id] \o batch \in Seq(Events)
    BY <1>1, BatchTypes, ConcatProperties
  <2>2. TypeOK' /\ Grows /\ \A d \in Clients : Kept(d)
    BY <1>1, <1>11, <2>1 DEF ForeignAppend, Grows
  <2> QED BY <1>2, <2>2 DEF IInv
<1>12. CASE UNCHANGED vars
  <2>1. TypeOK' /\ Grows /\ \A d \in Clients : Kept(d)
    BY <1>1, <1>12 DEF vars, Grows
  <2> QED BY <1>2, <2>1 DEF IInv
<1> QED
  BY <1>3, <1>4, <1>5, <1>6, <1>7, <1>8, <1>9, <1>10, <1>11, <1>12
     DEF Next, Use, Get, Save

LEMMA AlwaysIInv == ASSUME ~ ReuseFailedRoots PROVE Spec => []IInv
<1>1. IInv /\ [Next]_vars => IInv'
  BY NextIInv
<1> QED BY InitIInv, <1>1, PTL DEF Spec

-----------------------------------------------------------------------------

(***************************************************************************)
(* Type correctness.                                                       *)
(***************************************************************************)
THEOREM TypeCorrectness == ASSUME ~ ReuseFailedRoots PROVE Spec => []TypeOK
  BY AlwaysIInv, PTL DEF IInv

(***************************************************************************)
(* A root in use is an initial part of its stream followed by what it has  *)
(* recorded, whatever the other clients have committed meanwhile.          *)
(***************************************************************************)
THEOREM RootsAreConsistent ==
  ASSUME ~ ReuseFailedRoots PROVE Spec => []RootsExtendStreams
<1>1. IInv => RootsExtendStreams
  <2> SUFFICES ASSUME IInv, NEW c \in Clients, root[c] # NoRoot, ~ failed[c]
               PROVE  /\ root[c].version = Len(root[c].state)
                      /\ Len(root[c].recorded) <= Len(root[c].state)
                      /\ root[c].state = Base(root[c]) \o root[c].recorded
                      /\ IsPrefix(Base(root[c]), log[root[c].id])
    BY DEF RootsExtendStreams
  <2>1. root[c] \in Roots /\ root[c].id \in StreamIDs
    BY RootTypes DEF IInv, TypeOK
  <2>2. log[root[c].id] \in Seq(Events) /\ Extends(root[c], log[root[c].id])
    BY <2>1 DEF IInv, TypeOK, RootOK
  <2> QED BY <2>1, <2>2, ExtendsMeaning
<1> QED BY AlwaysIInv, <1>1, PTL

(***************************************************************************)
(* After a Save that returned nil, all the events of the root are stored.  *)
(***************************************************************************)
THEOREM SaveIsDurable ==
  ASSUME ~ ReuseFailedRoots PROVE Spec => []SavedMeansStored
<1>1. IInv => SavedMeansStored
  <2> SUFFICES ASSUME IInv, NEW c \in Clients, root[c] # NoRoot,
                      result[c] = "saved"
               PROVE  IsPrefix(root[c].state, log[root[c].id])
    BY DEF SavedMeansStored
  <2>1. /\ root[c] \in Roots /\ root[c].id \in StreamIDs
        /\ ~ failed[c] /\ root[c].recorded = <<>>
    BY RootTypes DEF IInv, TypeOK, SavedOK
  <2>2. log[root[c].id] \in Seq(Events) /\ Extends(root[c], log[root[c].id])
    BY <2>1 DEF IInv, TypeOK, RootOK
  <2> QED BY <2>1, <2>2, ExtendsMeaning
<1> QED BY AlwaysIInv, <1>1, PTL

(***************************************************************************)
(* Whose step it was: only a client's own call changes its root, its       *)
(* failed flag and its result.                                             *)
(***************************************************************************)
LEMMA OwnStep ==
  ASSUME TypeOK, [Next]_vars, NEW c \in Clients,
         <<root[c], failed[c]>>' # <<root[c], failed[c]>>
  PROVE  Use(c)
<1>1. ~ UNCHANGED vars
  BY DEF vars
<1>2. ASSUME NEW id \in StreamIDs, NEW batch \in Batches,
             ForeignAppend(id, batch)
      PROVE  FALSE
  BY <1>2 DEF ForeignAppend
<1>3. ASSUME NEW d \in Clients, Use(d), d # c PROVE FALSE
  BY <1>3 DEF TypeOK, Use, Create, Record, Get, GetFound, GetNotFound,
              GetFailed, Save, SaveNothing, SaveCommitted, SaveConflict,
              SaveFailed, Drop
<1> QED BY <1>1, <1>2, <1>3 DEF Next

(***************************************************************************)
(* Optimistic concurrency control: a Save that commits leaves the stream   *)
(* equal to the state its events were decided on.                          *)
(***************************************************************************)
THEOREM OptimisticConcurrency ==
  ASSUME ~ ReuseFailedRoots PROVE Spec => NoStaleDecision
<1>1. ASSUME IInv, [Next]_vars, NEW c \in Clients, root[c] # NoRoot,
             root[c].recorded # <<>>, result'[c] = "saved",
             root'[c].recorded # root[c].recorded
      PROVE  log'[root[c].id] = root[c].state
  <2>1. TypeOK /\ RootOK(c)
    BY <1>1 DEF IInv
  <2>2. Use(c)
    BY <1>1, <2>1, OwnStep
  <2>3. SaveCommitted(c)
    BY <1>1, <2>1, <2>2
       DEF TypeOK, Use, Returns, Create, Record, Get, GetFound, GetNotFound,
           GetFailed, Save, SaveNothing, SaveConflict, SaveFailed, Drop
  <2>4. /\ root[c] \in Roots /\ root[c].id \in StreamIDs /\ ~ failed[c]
        /\ Appends(c) /\ Accepts(SaveCheck(root[c]), Len(log[root[c].id]))
    BY <1>1, <2>1, <2>3, RootTypes DEF SaveCommitted, Usable, Appends, TypeOK
  <2>5. log[root[c].id] \in Seq(Events) /\ Extends(root[c], log[root[c].id])
    BY <1>1, <2>1, <2>4 DEF TypeOK, RootOK
  <2>6. log'[root[c].id] = log[root[c].id] \o root[c].recorded
    BY <1>1, <2>1, <2>4, AppendsGrows
  <2> QED BY <2>4, <2>5, <2>6, CommitProperties DEF SaveCheck
<1>2. IInv /\ [Next]_vars => [\A c \in Clients :
        /\ root[c] # NoRoot
        /\ root[c].recorded # <<>>
        /\ result'[c] = "saved"
        /\ root'[c].recorded # root[c].recorded
        => log'[root[c].id] = root[c].state]_vars
  BY <1>1
<1> QED BY AlwaysIInv, <1>2, PTL DEF Spec, NoStaleDecision

(***************************************************************************)
(* No spurious conflicts: a Save that reports a ConflictError was          *)
(* overtaken by an append to the same stream.                              *)
(***************************************************************************)
THEOREM ConflictsAreGenuine ==
  ASSUME ~ ReuseFailedRoots PROVE Spec => ConflictMeansProgress
<1>1. ASSUME IInv, [Next]_vars, NEW c \in Clients, result'[c] = "conflict",
             ~ failed[c], failed'[c]
      PROVE  Len(log[root[c].id]) > Len(Base(root[c]))
  <2>1. TypeOK /\ RootOK(c)
    BY <1>1 DEF IInv
  <2>2. Use(c)
    BY <1>1, <2>1, OwnStep
  <2>3. SaveConflict(c)
    BY <1>1, <2>1, <2>2
       DEF TypeOK, Use, Returns, Create, Record, Get, GetFound, GetNotFound,
           GetFailed, Save, SaveNothing, SaveCommitted, SaveFailed, Drop
  <2>4. /\ root[c] # NoRoot /\ root[c] \in Roots /\ root[c].id \in StreamIDs
        /\ ~ Accepts(SaveCheck(root[c]), Len(log[root[c].id]))
    BY <2>1, <2>3, RootTypes DEF SaveConflict, Usable, TypeOK
  <2>5. log[root[c].id] \in Seq(Events) /\ Extends(root[c], log[root[c].id])
    BY <1>1, <2>1, <2>4 DEF TypeOK, RootOK
  <2>6. /\ SaveCheck(root[c]) = Fresh(root[c]) /\ Fresh(root[c]) \in Nat
        /\ Len(Base(root[c])) = Fresh(root[c])
        /\ Fresh(root[c]) <= Len(log[root[c].id])
        /\ Len(log[root[c].id]) \in Nat
    BY <2>4, <2>5, CommitProperties, ExtendsMeaning, LenProperties
       DEF Extends, SaveCheck
  <2> QED BY <2>4, <2>6 DEF Accepts
<1>2. IInv /\ [Next]_vars => [\A c \in Clients :
        result'[c] = "conflict" /\ ~ failed[c] /\ failed'[c] =>
          Len(log[root[c].id]) > Len(Base(root[c]))]_vars
  BY <1>1
<1> QED BY AlwaysIInv, <1>2, PTL DEF Spec, ConflictMeansProgress

-----------------------------------------------------------------------------

(***************************************************************************)
(* The contract's instance speaks of the same batches.                     *)
(***************************************************************************)
LEMMA SameVocabulary ==
  /\ Contract!Nothing = NoRoot
  /\ Contract!Batches = Batches
  /\ \A r : Contract!Base(r) = Base(r)
  /\ \A id, state, batch, spoiled :
       Contract!Root(id, state, batch, spoiled) =
         [id |-> id, state |-> state, recorded |-> batch,
          spoiled |-> spoiled]
  BY DEF Contract!Nothing, NoRoot, Contract!Batches, Batches, Contract!Base,
         Base, Contract!Root

LEMMA HeldProperties ==
  ASSUME TypeOK, NEW c \in Clients
  PROVE  /\ root[c] = NoRoot => Held(c) = NoRoot
         /\ root[c] # NoRoot =>
              /\ Held(c) # NoRoot
              /\ Held(c) = [id |-> root[c].id, state |-> root[c].state,
                            recorded |-> root[c].recorded,
                            spoiled |-> failed[c]]
<1>1. ASSUME NEW id, NEW state, NEW batch, NEW spoiled
      PROVE  [id |-> id, state |-> state, recorded |-> batch,
              spoiled |-> spoiled] # NoRoot
  BY DEF NoRoot
<1> QED BY <1>1 DEF Held

(***************************************************************************)
(* What the contract's held is.  A step of client c that leaves the other  *)
(* clients' roots alone does to it what it does to Held(c).                *)
(***************************************************************************)
LEMMA HoldingsStep ==
  ASSUME TypeOK, TypeOK', NEW c \in Clients,
         \A d \in Clients \ {c} : root'[d] = root[d] /\ failed'[d] = failed[d]
  PROVE  Holdings' = [Holdings EXCEPT ![c] = Held(c)']
  BY DEF Held, Holdings

(***************************************************************************)
(* Every step of the repository is a step of the contract or leaves the    *)
(* contract's variables alone.                                             *)
(***************************************************************************)
LEMMA StepRefines ==
  ASSUME ~ ReuseFailedRoots, IInv, IInv', [Next]_vars
  PROVE  [Contract!Next]_Contract!vars
<1> DEFINE Kept(c) == \A d \in Clients \ {c} :
                        root'[d] = root[d] /\ failed'[d] = failed[d]
           Idle == log' = log /\ Holdings' = Holdings
<1>1. /\ TypeOK /\ TypeOK'
      /\ \A d \in Clients : RootOK(d) /\ DroppedOK(d)
  BY DEF IInv
<1>2. ASSUME NEW c \in Clients
      PROVE  /\ root[c] = NoRoot => Holdings[c] = NoRoot /\ failed[c] = FALSE
             /\ root[c] # NoRoot /\ ~ failed[c] =>
                  /\ root[c] \in Roots /\ Holdings[c] # NoRoot
                  /\ ~ Holdings[c].spoiled
                  /\ Holdings[c].id = root[c].id
                  /\ Holdings[c].state = root[c].state
                  /\ Holdings[c].recorded = root[c].recorded
             /\ root[c] # NoRoot => Holdings[c] # NoRoot
  <2>1. failed[c] \in BOOLEAN /\ root[c] \in Roots \cup {NoRoot}
    BY <1>1 DEF TypeOK
  <2>2. CASE root[c] = NoRoot
    BY <1>1, <2>1, <2>2, HeldProperties DEF DroppedOK, Holdings
  <2>3. CASE root[c] # NoRoot
    BY <1>1, <2>1, <2>3, HeldProperties DEF Holdings
  <2> QED BY <2>2, <2>3
<1>3. ASSUME NEW c \in Clients
      PROVE  /\ root'[c] = NoRoot => Held(c)' = NoRoot
             /\ root'[c] # NoRoot =>
                  Held(c)' = [id |-> root'[c].id, state |-> root'[c].state,
                              recorded |-> root'[c].recorded,
                              spoiled |-> failed'[c]]
  BY DEF Held
<1>4. ASSUME NEW c \in Clients, Kept(c)
      PROVE  Holdings' = [Holdings EXCEPT ![c] = Held(c)']
  BY <1>1, <1>4, HoldingsStep
<1>5. ASSUME NEW c \in Clients, NEW id \in StreamIDs, Create(c, id)
      PROVE  Contract!Create(c, id)
  <2>1. /\ root[c] = NoRoot /\ root'[c] = NewRoot(id) /\ Kept(c)
        /\ log' = log /\ failed'[c] = FALSE
    BY <1>1, <1>2, <1>5 DEF Create, TypeOK
  <2>2. NewRoot(id) # NoRoot
    BY RootTypes, NewRootProperties
  <2>3. Held(c)' = [id |-> id, state |-> <<>>, recorded |-> <<>>,
                    spoiled |-> FALSE]
    BY <1>3, <2>1, <2>2 DEF NewRoot
  <2>4. Holdings' = [Holdings EXCEPT ![c] = [id |-> id, state |-> <<>>,
                                     recorded |-> <<>>, spoiled |-> FALSE]]
    BY <1>4, <2>1, <2>3
  <2> QED BY <1>2, <2>1, <2>4, SameVocabulary
          DEF Contract!Create, Contract!Hold
<1>6. ASSUME NEW c \in Clients, NEW id \in StreamIDs, GetFound(c, id)
      PROVE  Contract!Get(c, id)
  <2> DEFINE r == RehydrateFromEvents(id, log[id])
  <2>1. /\ root[c] = NoRoot /\ root'[c] = r /\ Kept(c) /\ r.version # 0
        /\ log' = log /\ failed'[c] = FALSE
    BY <1>1, <1>2, <1>6 DEF GetFound, TypeOK
  <2>2. r # NoRoot /\ log[id] # <<>>
    BY <1>1, <2>1, RootTypes, RehydrateProperties, EmptySeq
       DEF RehydrateFromEvents, TypeOK
  <2>3. Held(c)' = [id |-> id, state |-> log[id], recorded |-> <<>>,
                    spoiled |-> FALSE]
    BY <1>3, <2>1, <2>2 DEF RehydrateFromEvents
  <2>4. Holdings' = [Holdings EXCEPT ![c] = [id |-> id, state |-> log[id],
                                     recorded |-> <<>>, spoiled |-> FALSE]]
    BY <1>4, <2>1, <2>3
  <2> QED BY <1>2, <2>1, <2>2, <2>4, SameVocabulary
          DEF Contract!Get, Contract!Hold
<1>7. ASSUME NEW c \in Clients, NEW batch \in Batches, Record(c, batch)
      PROVE  \E part \in Batches : Contract!Record(c, part)
  <2>1. PICK n \in 0 .. Len(batch) :
          root' = [root EXCEPT ![c] = RecordThat(root[c], batch, n)]
    BY <1>7 DEF Record
  <2> DEFINE part == SubSeq(batch, 1, n)
             r == RecordThat(root[c], batch, n)
  <2>2. part \in Batches
    BY PartOfBatch
  <2>3. /\ root[c] # NoRoot /\ root[c] \in Roots /\ ~ failed[c] /\ Kept(c)
        /\ log' = log /\ root'[c] = r /\ failed'[c] = FALSE
    BY <1>1, <1>2, <1>7, <2>1 DEF Record, Usable, TypeOK
  <2>4. r # NoRoot
    BY <2>3, RecordThatProperties, RootTypes, BatchTypes
  <2>5. /\ r.id = root[c].id /\ r.state = root[c].state \o part
        /\ r.recorded = root[c].recorded \o part
    BY DEF RecordThat
  <2> HIDE DEF part, r
  <2>6. Held(c)' = [id |-> root[c].id, state |-> root[c].state \o part,
                    recorded |-> root[c].recorded \o part,
                    spoiled |-> FALSE]
    BY <1>3, <2>3, <2>4, <2>5
  <2>7. Holdings' = [Holdings EXCEPT ![c] = Held(c)']
    BY <1>4, <2>3
  <2>8. Holdings' = [Holdings EXCEPT ![c] =
          Contract!Root(@.id, @.state \o part, @.recorded \o part, FALSE)]
    BY <1>2, <2>3, <2>6, <2>7, SameVocabulary
  <2>9. Contract!Record(c, part)
    BY <1>2, <2>3, <2>8, SameVocabulary
       DEF Contract!Record, Contract!Valid
  <2> QED BY <2>2, <2>9
<1>8. ASSUME NEW c \in Clients, root[c] # NoRoot, ~ failed[c], Appends(c)
      PROVE  /\ log[root[c].id] = Base(root[c])
             /\ log' = [log EXCEPT ![root[c].id] = root[c].state]
  <2>1. /\ root[c] \in Roots /\ root[c].id \in StreamIDs
        /\ log[root[c].id] \in Seq(Events)
        /\ Extends(root[c], log[root[c].id])
        /\ Accepts(SaveCheck(root[c]), Len(log[root[c].id]))
    BY <1>1, <1>2, <1>8, RootTypes DEF Appends, RootOK, TypeOK
  <2>2. log[root[c].id] \o root[c].recorded = root[c].state
    BY <2>1, CommitProperties DEF SaveCheck
  <2>3. /\ Len(log[root[c].id]) = Len(Base(root[c]))
        /\ IsPrefix(Base(root[c]), log[root[c].id])
        /\ Base(root[c]) \in Seq(Events)
    BY <2>1, CommitProperties, ExtendsMeaning, LenProperties
       DEF SaveCheck, Accepts, CheckAny
  <2>4. log[root[c].id] = Base(root[c])
    <3>1. \A s \in Seq(Events) : SubSeq(s, 1, Len(s)) = s
      BY SubSeqFull
    <3> QED BY <2>1, <2>3, <3>1 DEF IsPrefix
  <2> QED BY <1>8, <2>2, <2>4 DEF Appends
<1>9. ASSUME NEW c \in Clients,
             SaveCommitted(c) \/ SaveConflict(c) \/ SaveFailed(c)
      PROVE  /\ root[c] # NoRoot /\ ~ failed[c]
             /\ Appends(c) \/ log' = log
             /\ Holdings' = [Holdings EXCEPT ![c] =
                  [id |-> root[c].id, state |-> root[c].state,
                   recorded |-> <<>>, spoiled |-> failed'[c]]]
  <2>1. /\ root[c] # NoRoot /\ ~ failed[c] /\ Kept(c)
        /\ root'[c] = FlushRecordedEvents(root[c])
        /\ Appends(c) \/ log' = log
    BY <1>1, <1>9 DEF SaveCommitted, SaveConflict, SaveFailed, Usable, TypeOK
  <2>2. /\ root'[c] # NoRoot /\ root'[c].id = root[c].id
        /\ root'[c].state = root[c].state /\ root'[c].recorded = <<>>
    BY <1>2, <2>1, FlushProperties, RootTypes
  <2> QED BY <1>3, <1>4, <2>1, <2>2
<1>10. ASSUME NEW c \in Clients, root[c] # NoRoot, ~ failed[c], Appends(c)
       PROVE  Contract!CompareAndSet(c)
  <2>1. /\ Holdings[c].id = root[c].id /\ Holdings[c].state = root[c].state
        /\ Contract!Base(Holdings[c]) = Base(root[c])
    BY <1>2, <1>10 DEF Contract!Base, Base
  <2>2. /\ log[root[c].id] = Base(root[c])
        /\ log' = [log EXCEPT ![root[c].id] = root[c].state]
    BY <1>8, <1>10
  <2> QED BY <2>1, <2>2 DEF Contract!CompareAndSet
<1>11. ASSUME NEW c \in Clients, SaveCommitted(c) PROVE Contract!Save(c)
  <2>1. Appends(c) /\ failed'[c] = FALSE
    BY <1>1, <1>11 DEF SaveCommitted, TypeOK
  <2>2. /\ root[c] # NoRoot /\ ~ failed[c]
        /\ Holdings' = [Holdings EXCEPT ![c] =
             [id |-> root[c].id, state |-> root[c].state,
              recorded |-> <<>>, spoiled |-> FALSE]]
    BY <1>9, <1>11, <2>1
  <2>3. Contract!Valid(c) /\ Contract!CompareAndSet(c)
    BY <1>2, <1>10, <2>1, <2>2, SameVocabulary DEF Contract!Valid
  <2>4. Holdings' = [Holdings EXCEPT ![c] =
          Contract!Root(@.id, @.state, <<>>, FALSE)]
    BY <1>2, <2>2, SameVocabulary
  <2> QED BY <2>3, <2>4 DEF Contract!Save
<1>12. ASSUME NEW c \in Clients, SaveConflict(c) \/ SaveFailed(c)
       PROVE  Contract!SaveFails(c)
  <2>1. failed'[c] = TRUE
    BY <1>1, <1>12 DEF SaveConflict, SaveFailed, TypeOK
  <2>2. /\ root[c] # NoRoot /\ ~ failed[c]
        /\ Appends(c) \/ log' = log
        /\ Holdings' = [Holdings EXCEPT ![c] =
             [id |-> root[c].id, state |-> root[c].state,
              recorded |-> <<>>, spoiled |-> TRUE]]
    BY <1>9, <1>12, <2>1
  <2>3. Contract!Valid(c) /\ (Contract!CompareAndSet(c) \/ UNCHANGED log)
    BY <1>2, <1>10, <2>1, <2>2, SameVocabulary DEF Contract!Valid
  <2>4. Holdings' = [Holdings EXCEPT ![c] =
          Contract!Root(@.id, @.state, <<>>, TRUE)]
    BY <1>2, <2>2, SameVocabulary
  <2> QED BY <2>3, <2>4 DEF Contract!SaveFails
<1>13. ASSUME NEW c \in Clients, Drop(c) PROVE Contract!Drop(c)
  <2>1. root[c] # NoRoot /\ root'[c] = NoRoot /\ Kept(c) /\ log' = log
    BY <1>1, <1>13 DEF Drop, TypeOK
  <2> QED BY <1>2, <1>3, <1>4, <2>1, SameVocabulary DEF Contract!Drop
<1>14. ASSUME NEW c \in Clients,
              \/ \E id \in StreamIDs : GetNotFound(c, id) \/ GetFailed(c, id)
              \/ SaveNothing(c)
       PROVE  Idle
  <2>1. root' = root /\ log' = log /\ failed' = failed
    <3>1. CASE SaveNothing(c)
      BY <1>1, <3>1 DEF SaveNothing, Usable, TypeOK
    <3> QED BY <1>14, <3>1 DEF GetNotFound, GetFailed
  <2> QED BY <2>1 DEF Holdings, Held
<1>15. ASSUME NEW id \in StreamIDs, NEW batch \in Batches,
              ForeignAppend(id, batch)
       PROVE  Contract!Others(id, batch)
  BY <1>15 DEF ForeignAppend, Contract!Others, Holdings, Held
<1>16. ASSUME UNCHANGED vars PROVE Idle
  BY <1>16 DEF vars, Holdings, Held
<1> HIDE DEF Idle
<1>17. ASSUME NEW c \in Clients, Use(c) PROVE Contract!Next \/ Idle
  BY <1>5, <1>6, <1>7, <1>11, <1>12, <1>13, <1>14, <1>17, SameVocabulary
     DEF Use, Get, Save, Contract!Next
<1>18. Contract!Next \/ Idle
  BY <1>15, <1>16, <1>17, SameVocabulary DEF Next, Contract!Next
<1> QED BY <1>18 DEF Idle, Contract!vars

(***************************************************************************)
(* The repository implements the contract of aggregate.Repository: Save is *)
(* a compare-and-set on the history of a root, for any number of clients   *)
(* and over any store that meets the contract of event.Store.              *)
(***************************************************************************)
THEOREM Implementation ==
  ASSUME ~ ReuseFailedRoots PROVE Spec => ImplementsRepository
<1>1. Init => Contract!Init
  BY SameVocabulary DEF Init, Contract!Init, Holdings, Held
<1>2. IInv /\ IInv' /\ [Next]_vars => [Contract!Next]_Contract!vars
  BY StepRefines
<1> QED BY AlwaysIInv, <1>1, <1>2, PTL
        DEF Spec, ImplementsRepository, Contract!Spec

-----------------------------------------------------------------------------
(***************************************************************************)
(* The test scenarios.                                                     *)
(*                                                                         *)
(* ScenarioInv says what is known at each point of AssertOn: of a command  *)
(* scenario, of the run of the same scenario by the aggregate's harness,   *)
(* and of a query scenario.                                                *)
(***************************************************************************)
InputTypes ==
  /\ harness \in {"command", "query"}
  /\ given \in Seq(PersistedIn(StreamIDs))
  /\ Len(given) <= MaxGiven
  /\ subject \in Subjects

StepTypes ==
  /\ store \in [StreamIDs -> Seq(Events)]
  /\ next \in 1 .. (Len(given) + 1)
  /\ pc \in {"given", "method", "save", "process", "assert", "done"}
  /\ pc \in {"method", "save"} => harness = "command" /\ held \in Roots
  /\ pc = "process" => harness = "query" /\ next <= Len(given)
  /\ pc # "done" => verdict = "none"

(***************************************************************************)
(* A command scenario.  Until the handler saves, the stream of the root    *)
(* holds what was given to it and nothing has been tracked.                *)
(***************************************************************************)
CommandInv ==
  harness = "command" =>
    /\ pc = "given" => Len(store[Root]) = GivenTo(Root, next - 1)
    /\ pc \in {"method", "save"} => Len(store[Root]) = Before
    /\ pc \in {"given", "method", "save"} => recorded = <<>>
    /\ pc \in {"assert", "done"} => recorded = Produced
    /\ pc = "done" =>
         sc \in CommandExpectations /\ (verdict = "pass" <=> CommandMatches(sc))

(***************************************************************************)
(* The same scenario run by the aggregate's harness, whose outcome is      *)
(* known from the start, at each point of the command handler.             *)
(***************************************************************************)
Outcome == AggregateWhen(given, subject)

GivenStored ==
  /\ Len(store[Root]) = next - 1
  /\ \A k \in 1 .. (next - 1) : store[Root][k] = given[k].event

SameOutcome ==
  /\ Outcome.err = err
  /\ err = NoError =>
       /\ Outcome.root \in Roots
       /\ Outcome.root.version = Len(given) + Len(Outcome.root.recorded)
       /\ recorded = Tracked(Outcome.root.version, Outcome.root.recorded)

AgreeInv ==
  harness = "command" /\ GivenIsAStream =>
    /\ pc = "given" => GivenStored
    /\ pc \in {"method", "save"} => Len(store[Root]) = Len(given)
    /\ pc = "method" =>
         /\ Outcome = Method(held, subject)
         /\ held.version = Len(given) /\ held.recorded = <<>>
    /\ pc = "save" =>
         /\ Outcome.root = held /\ Outcome.err = subject.err
         /\ held.version = Len(given) + Len(held.recorded)
    /\ pc \in {"assert", "done"} => SameOutcome

(***************************************************************************)
(* A query scenario that has not failed: the first n given events are the  *)
(* history in the store.                                                   *)
(***************************************************************************)
StoredTo(n) ==
  /\ \A id \in StreamIDs : Len(store[id]) = GivenTo(id, n)
  /\ \A k \in 1 .. n :
       /\ given[k].version = GivenTo(given[k].id, k)
       /\ given[k].version \in 1 .. Len(store[given[k].id])
       /\ store[given[k].id][given[k].version] = given[k].event

QueryInv ==
  harness = "query" /\ verdict # "fail" =>
    /\ handled \in Seq(PersistedIn(StreamIDs))
    /\ Len(handled) = next - 1
    /\ \A k \in 1 .. (next - 1) : handled[k] = given[k]
    /\ pc \in {"given", "assert", "done"} => StoredTo(next - 1)
    /\ pc = "process" => StoredTo(next)
    /\ pc \in {"assert", "done"} => next = Len(given) + 1

ScenarioInv == InputTypes /\ StepTypes /\ CommandInv /\ AgreeInv /\ QueryInv

-----------------------------------------------------------------------------
(***************************************************************************)
(* Counting the given events of a stream.                                  *)
(***************************************************************************)
CountTo(g, id, n) == Cardinality({k \in 1 .. n : g[k].id = id})

LEMMA CountStep ==
  ASSUME NEW g, NEW id
  PROVE  /\ CountTo(g, id, 0) = 0
         /\ \A n \in Nat : CountTo(g, id, n) \in 0 .. n
         /\ \A n \in Nat \ {0} :
              CountTo(g, id, n) =
                IF g[n].id = id THEN CountTo(g, id, n - 1) + 1
                                ELSE CountTo(g, id, n - 1)
<1> DEFINE At(n) == {k \in 1 .. n : g[k].id = id}
<1>1. At(0) = {} /\ Cardinality({}) = 0
  BY FS_EmptySet
<1>2. ASSUME NEW n \in Nat
      PROVE  /\ IsFiniteSet(At(n))
             /\ Cardinality(At(n)) \in 0 .. n
  <2>1. /\ IsFiniteSet(1 .. n)
        /\ Cardinality(1 .. n) = n
    BY FS_Interval
  <2>2. At(n) \in SUBSET (1 .. n)
    OBVIOUS
  <2>3. IsFiniteSet(At(n)) /\ Cardinality(At(n)) <= Cardinality(1 .. n)
    BY <2>1, <2>2, FS_Subset
  <2>4. Cardinality(At(n)) \in Nat
    BY <2>3, FS_CardinalityType
  <2> QED BY <2>1, <2>3, <2>4
<1>3. ASSUME NEW n \in Nat \ {0}
      PROVE  Cardinality(At(n)) =
                IF g[n].id = id THEN Cardinality(At(n - 1)) + 1
                                ELSE Cardinality(At(n - 1))
  <2>1. n - 1 \in Nat /\ n \notin At(n - 1)
    OBVIOUS
  <2>2. CASE g[n].id # id
    <3>1. At(n) = At(n - 1)
      BY <2>2
    <3> QED BY <2>2, <3>1
  <2>3. CASE g[n].id = id
    <3>1. At(n) = At(n - 1) \cup {n}
      BY <2>3
    <3>2. IsFiniteSet(At(n - 1))
      BY <1>2, <2>1
    <3>3. Cardinality(At(n - 1) \cup {n}) = Cardinality(At(n - 1)) + 1
      <4> HIDE DEF At
      <4> QED BY <2>1, <3>2, FS_AddElement
    <3> QED BY <2>3, <3>1, <3>3
  <2> QED BY <2>2, <2>3
<1>4. \A n : CountTo(g, id, n) = Cardinality(At(n))
  BY DEF CountTo
<1> HIDE DEF At
<1> QED BY <1>1, <1>2, <1>3, <1>4

(***************************************************************************)
(* Every batch is applied up to somewhere: the first event that Apply      *)
(* refuses, or its end.                                                    *)
(***************************************************************************)
LEMMA AppliedSomewhere ==
  ASSUME NEW batch \in Seq(Events)
  PROVE  \E n \in 0 .. Len(batch) : AppliesUpTo(n, batch)
<1> DEFINE S == {n \in Nat : n < Len(batch) /\ batch[n + 1] \in Unappliable}
<1>1. Len(batch) \in Nat
  BY LenProperties
<1>2. CASE S = {}
  <2>1. \A k \in 1 .. Len(batch) : batch[k] \notin Unappliable
    <3> SUFFICES ASSUME NEW k \in 1 .. Len(batch), batch[k] \in Unappliable
                 PROVE  FALSE
      OBVIOUS
    <3>1. k - 1 \in Nat /\ k - 1 < Len(batch) /\ (k - 1) + 1 = k
      BY <1>1
    <3> QED BY <1>2, <3>1
  <2>2. AppliesUpTo(Len(batch), batch)
    BY <1>1, <2>1 DEF AppliesUpTo
  <2> QED BY <1>1, <2>2
<1>3. CASE S # {}
  <2> DEFINE R == {p \in Nat \X Nat : p[1] < p[2]}
  <2>1. IsWellFoundedOn(R, Nat)
    BY NatLessThanWellFounded DEF OpToRel
  <2>2. S \subseteq Nat
    OBVIOUS
  <2>3. \E t \in S : \A y \in S : ~ (<<y, t>> \in R)
    <3> HIDE DEF R, S
    <3> QED BY <1>3, <2>1, <2>2, WFMin
  <2>4. PICK t \in S : \A y \in S : ~ (<<y, t>> \in R)
    BY <2>3
  <2>5. t \in Nat /\ t < Len(batch) /\ batch[t + 1] \in Unappliable
    OBVIOUS
  <2>6. ASSUME NEW k \in 1 .. t PROVE batch[k] \notin Unappliable
    <3>1. /\ k - 1 \in Nat /\ k - 1 < Len(batch) /\ (k - 1) + 1 = k
          /\ k - 1 < t
      BY <1>1, <2>5
    <3>2. <<k - 1, t>> \in R
      BY <2>5, <3>1
    <3>3. k - 1 \notin S
      <4> HIDE DEF R, S
      <4> QED BY <2>4, <3>2
    <3> QED BY <3>1, <3>3
  <2>7. t \in 0 .. Len(batch)
    BY <1>1, <2>5
  <2>8. AppliesUpTo(t, batch)
    BY <2>5, <2>6, <2>7 DEF AppliesUpTo
  <2> QED BY <2>7, <2>8
<1> QED BY <1>2, <1>3

(***************************************************************************)
(* The method of an aggregate that has loaded and recorded nothing yet.    *)
(***************************************************************************)
LEMMA MethodProperties ==
  ASSUME NEW r \in Roots, NEW s \in Subjects
  PROVE  LET outcome == Method(r, s)
         IN  /\ outcome.root \in Roots
             /\ outcome.err = {"apply"} \/ outcome.err = s.err
             /\ r.recorded = <<>> =>
                  outcome.root.version =
                    r.version + Len(outcome.root.recorded)
<1> DEFINE n == CHOOSE n \in 0 .. Len(s.batch) : AppliesUpTo(n, s.batch)
           after == RecordThat(r, s.batch, n)
           o == Method(r, s)
<1>1. s.batch \in Seq(Events)
  BY BatchTypes DEF Subjects
<1>2. n \in 0 .. Len(s.batch)
  BY <1>1, AppliedSomewhere
<1>3. o = [root |-> after,
           err  |-> IF n < Len(s.batch) THEN {"apply"} ELSE s.err]
  BY DEF Method
<1> HIDE DEF n
<1>4. after \in Roots
  BY <1>1, <1>2, RecordThatProperties
<1>5. ASSUME r.recorded = <<>>
      PROVE  after.version = r.version + Len(after.recorded)
  <2> DEFINE part == SubSeq(s.batch, 1, n)
  <2>1. Len(s.batch) \in Nat /\ n \in Int /\ 1 \in Int
    BY <1>1, <1>2, LenProperties
  <2>2. part \in Seq(Events) /\ Len(part) = n
    BY <1>1, <1>2, <2>1, SubSeqProperties
  <2>3. <<>> \o part = part
    BY <2>2, ConcatProperties, EmptySeq
  <2>4. after.version = r.version + n /\ after.recorded = r.recorded \o part
    BY DEF RecordThat
  <2> QED BY <1>5, <2>2, <2>3, <2>4
<1> HIDE DEF after
<1>6. o.root = after /\ (o.err = {"apply"} \/ o.err = s.err)
  BY <1>3
<1> HIDE DEF o
<1> QED BY <1>4, <1>5, <1>6 DEF o

-----------------------------------------------------------------------------
LEMMA StoreProperties ==
  ASSUME NEW s \in [StreamIDs -> Seq(Events)], NEW id \in StreamIDs,
         NEW events \in Seq(Events), NEW t, t = [s EXCEPT ![id] = @ \o events]
  PROVE  /\ t \in [StreamIDs -> Seq(Events)]
         /\ \A j \in StreamIDs : j # id => t[j] = s[j]
         /\ Len(s[id]) \in Nat /\ Len(events) \in Nat
         /\ Len(t[id]) = Len(s[id]) + Len(events)
         /\ \A k \in 1 .. Len(s[id]) : t[id][k] = s[id][k]
         /\ \A k \in 1 .. Len(events) : t[id][Len(s[id]) + k] = events[k]
<1>1. s[id] \in Seq(Events)
  OBVIOUS
<1>2. Len(s[id]) \in Nat /\ Len(events) \in Nat
  BY <1>1, LenProperties
<1>3. PICK c : c = s[id] \o events
  OBVIOUS
<1>4. /\ c \in Seq(Events)
      /\ Len(c) = Len(s[id]) + Len(events)
      /\ \A k \in 1 .. (Len(s[id]) + Len(events)) :
           c[k] = IF k <= Len(s[id]) THEN s[id][k] ELSE events[k - Len(s[id])]
  BY <1>1, <1>3, ConcatProperties
<1>5. t = [s EXCEPT ![id] = c]
  BY <1>3
<1>6. t[id] = c
  BY <1>5
<1>7. \A k \in 1 .. Len(s[id]) : c[k] = s[id][k]
  BY <1>2, <1>4
<1>8. \A k \in 1 .. Len(events) : c[Len(s[id]) + k] = events[k]
  <2> TAKE k \in 1 .. Len(events)
  <2>1. /\ Len(s[id]) + k \in 1 .. (Len(s[id]) + Len(events))
        /\ ~ (Len(s[id]) + k <= Len(s[id]))
        /\ (Len(s[id]) + k) - Len(s[id]) = k
    BY <1>2
  <2> QED BY <1>4, <2>1
<1> QED BY <1>2, <1>4, <1>5, <1>6, <1>7, <1>8

LEMMA StoreOneProperties ==
  ASSUME NEW s \in [StreamIDs -> Seq(Events)], NEW id \in StreamIDs,
         NEW e \in Events, NEW t, t = [s EXCEPT ![id] = @ \o <<e>>]
  PROVE  /\ t \in [StreamIDs -> Seq(Events)]
         /\ \A j \in StreamIDs : j # id => t[j] = s[j]
         /\ Len(s[id]) \in Nat
         /\ Len(t[id]) = Len(s[id]) + 1
         /\ \A k \in 1 .. Len(s[id]) : t[id][k] = s[id][k]
         /\ t[id][Len(s[id]) + 1] = e
<1>1. <<e>> \in Seq(Events) /\ Len(<<e>>) = 1 /\ <<e>>[1] = e
  OBVIOUS
<1>2. PICK b : b = <<e>>
  OBVIOUS
<1>3. b \in Seq(Events) /\ t = [s EXCEPT ![id] = @ \o b] /\ Len(b) = 1 /\ b[1] = e
  BY <1>1, <1>2
<1>4. /\ t \in [StreamIDs -> Seq(Events)]
      /\ \A j \in StreamIDs : j # id => t[j] = s[j]
      /\ Len(s[id]) \in Nat
      /\ Len(t[id]) = Len(s[id]) + Len(b)
      /\ \A k \in 1 .. Len(s[id]) : t[id][k] = s[id][k]
      /\ \A k \in 1 .. Len(b) : t[id][Len(s[id]) + k] = b[k]
  BY <1>3, StoreProperties
<1> QED BY <1>3, <1>4

(***************************************************************************)
(* A given event, and the counts of the given events of its stream.        *)
(***************************************************************************)
LEMMA GivenTypes ==
  ASSUME InputTypes, NEW k \in 1 .. Len(given)
  PROVE  /\ given[k].id \in StreamIDs
         /\ given[k].event \in Events
         /\ given[k].version \in 0 .. MaxGiven
<1>1. given[k] \in PersistedIn(StreamIDs)
  BY ElementOfSeq DEF InputTypes
<1> QED BY <1>1 DEF PersistedIn

LEMMA InputsKept ==
  ASSUME InputTypes, UNCHANGED inputs
  PROVE  /\ InputTypes'
         /\ harness' = harness /\ given' = given /\ subject' = subject
         /\ Outcome' = Outcome
         /\ GivenIsAStream' <=> GivenIsAStream
  BY DEF inputs, InputTypes, Outcome, GivenIsAStream

LEMMA NothingProduced ==
  ASSUME NEW n \in Nat, NEW s, Len(s[Root]) = n
  PROVE  [k \in 1 .. (Len(s[Root]) - n) |->
            [id |-> Root, version |-> n + k, event |-> s[Root][n + k]]] = <<>>
<1>1. 1 .. (Len(s[Root]) - n) = {}
  OBVIOUS
<1> QED BY <1>1

-----------------------------------------------------------------------------
(***************************************************************************)
(* The actions of a command scenario.                                      *)
(***************************************************************************)
LEMMA CommandGivenKeeps ==
  ASSUME ScenarioInv, CommandGiven
  PROVE  ScenarioInv'
<1> DEFINE id == given[next].id
           e == given[next].event
<1>1. /\ InputTypes /\ StepTypes /\ CommandInv /\ AgreeInv
      /\ harness = "command" /\ pc = "given" /\ pc' = "given"
      /\ next \in 1 .. Len(given) /\ next' = next + 1
      /\ UNCHANGED inputs /\ recorded' = recorded /\ verdict' = verdict
      /\ store' = [store EXCEPT ![id] = @ \o <<e>>]
  BY DEF ScenarioInv, CommandGiven, StepTypes, Store
<1>2. id \in StreamIDs /\ e \in Events /\ Len(given) \in Nat
  BY <1>1, GivenTypes, LenProperties DEF InputTypes
<1>3. /\ InputTypes'
      /\ harness' = harness /\ given' = given /\ subject' = subject
      /\ Outcome' = Outcome /\ (GivenIsAStream' <=> GivenIsAStream)
  BY <1>1, InputsKept
<1>4. store \in [StreamIDs -> Seq(Events)] /\ Root \in StreamIDs
  BY <1>1, ScenarioAssumption DEF StepTypes
<1>5. PICK t : t = store'
  OBVIOUS
<1>6. /\ t \in [StreamIDs -> Seq(Events)]
      /\ \A j \in StreamIDs : j # id => t[j] = store[j]
      /\ Len(store[id]) \in Nat
      /\ Len(t[id]) = Len(store[id]) + 1
      /\ \A k \in 1 .. Len(store[id]) : t[id][k] = store[id][k]
      /\ t[id][Len(store[id]) + 1] = e
  <2> HIDE DEF id, e
  <2> QED BY <1>1, <1>2, <1>4, <1>5, StoreOneProperties
<1>7. StepTypes'
  BY <1>1, <1>2, <1>3, <1>5, <1>6 DEF StepTypes
<1>8. CommandInv'
  <2>1. Len(store[Root]) = CountTo(given, Root, next - 1) /\ recorded = <<>>
    BY <1>1 DEF CommandInv, GivenTo, CountTo
  <2>2. CountTo(given, Root, next) =
          IF id = Root THEN CountTo(given, Root, next - 1) + 1
                       ELSE CountTo(given, Root, next - 1)
    <3>1. next \in Nat \ {0}
      BY <1>1, <1>2
    <3>2. \A n \in Nat \ {0} :
            CountTo(given, Root, n) =
              IF given[n].id = Root THEN CountTo(given, Root, n - 1) + 1
                                    ELSE CountTo(given, Root, n - 1)
      BY ONLY CountStep, Zenon
    <3> QED BY <3>1, <3>2
  <2>3. Len(t[Root]) = CountTo(given, Root, next)
    BY <1>4, <1>6, <2>1, <2>2
  <2>4. GivenTo(Root, next - 1)' = CountTo(given, Root, next)
    <3>1. next' - 1 = next
      BY <1>1
    <3> QED BY <1>3, <3>1 DEF GivenTo, CountTo
  <2> QED BY <1>1, <1>3, <1>5, <2>1, <2>3, <2>4 DEF CommandInv
<1>9. AgreeInv'
  <2>1. ASSUME GivenIsAStream PROVE GivenStored'
    <3>1. id = Root
      BY <1>1, <1>2, <2>1, LenProperties DEF GivenIsAStream, InputTypes
    <3>2. GivenStored
      BY <1>1, <2>1 DEF AgreeInv
    <3>3. /\ Len(store[Root]) = next - 1 /\ next' - 1 = next
          /\ (next - 1) + 1 = next
      BY <1>1, <3>2 DEF GivenStored
    <3>4. Len(t[Root]) = next
      BY <1>1, <1>6, <3>1, <3>3
    <3>5. ASSUME NEW k \in 1 .. next PROVE t[Root][k] = given[k].event
      <4>1. CASE k = next
        BY <1>6, <3>1, <3>3, <4>1
      <4>2. CASE k # next
        <5>1. k \in 1 .. (next - 1)
          BY <1>1, <4>2
        <5> QED BY <1>6, <3>1, <3>2, <3>3, <5>1 DEF GivenStored
      <4> QED BY <4>1, <4>2
    <3> QED BY <1>3, <1>5, <3>3, <3>4, <3>5 DEF GivenStored
  <2> QED BY <1>1, <1>3, <2>1 DEF AgreeInv
<1>10. QueryInv'
  BY <1>1, <1>3 DEF QueryInv
<1> QED BY <1>3, <1>7, <1>8, <1>9, <1>10 DEF ScenarioInv

(***************************************************************************)
(* A handler that returns early has saved nothing.  For the two harnesses  *)
(* to agree it has to return the error of the method.                      *)
(***************************************************************************)
LEMMA EarlyReturnKeeps ==
  ASSUME ScenarioInv, harness = "command", pc # "done",
         Len(store[Root]) = Before, recorded = <<>>,
         NEW e, HandlerReturns(e),
         GivenIsAStream => Outcome.err = e /\ e # NoError
  PROVE  ScenarioInv'
<1>1. /\ InputTypes /\ StepTypes /\ pc' = "assert" /\ err' = e
      /\ UNCHANGED <<inputs, store, recorded, next, verdict>>
  BY DEF ScenarioInv, HandlerReturns
<1>2. /\ InputTypes'
      /\ harness' = harness /\ given' = given /\ subject' = subject
      /\ Outcome' = Outcome /\ (GivenIsAStream' <=> GivenIsAStream)
  BY <1>1, InputsKept
<1>3. StepTypes'
  BY <1>1, <1>2 DEF StepTypes
<1>4. Produced' = <<>>
  <2>1. Len(given) \in Nat
    BY <1>1, LenProperties DEF InputTypes
  <2>2. Before = CountTo(given, Root, Len(given)) /\ Before \in Nat
    BY <2>1, CountStep DEF Before, GivenTo, CountTo
  <2>3. Before' = Before
    BY <1>2 DEF Before, GivenTo
  <2>4. PICK n \in Nat : n = Before
    BY <2>2
  <2>5. [k \in 1 .. (Len(store[Root]) - n) |->
            [id |-> Root, version |-> n + k, event |-> store[Root][n + k]]] = <<>>
    BY <2>4, NothingProduced
  <2> QED BY <1>1, <2>3, <2>4, <2>5 DEF Produced
<1>5. CommandInv'
  BY <1>1, <1>2, <1>4 DEF CommandInv
<1>6. AgreeInv'
  <2>1. GivenIsAStream => SameOutcome'
    BY <1>1, <1>2 DEF SameOutcome
  <2> QED BY <1>1, <1>2, <2>1 DEF AgreeInv
<1>7. QueryInv'
  BY <1>2 DEF QueryInv
<1> QED BY <1>2, <1>3, <1>5, <1>6, <1>7 DEF ScenarioInv

(***************************************************************************)
(* Loading the given events from the store and having the aggregate's      *)
(* harness apply them is the same if they are a stream.                    *)
(***************************************************************************)
LEMMA OutcomeOfStream ==
  ASSUME InputTypes, GivenIsAStream, ~ subject.create, NEW s \in Seq(Events),
         Len(s) = Len(given), \A k \in 1 .. Len(s) : s[k] = given[k].event
  PROVE  /\ given # <<>> /\ s # <<>>
         /\ ~ Rehydrates(s) => Outcome.err = {"apply"}
         /\ Rehydrates(s) =>
              Outcome = Method(RehydrateFromEvents(Root, s), subject)
<1>1. /\ Len(given) \in Nat /\ Len(s) \in Nat
      /\ DOMAIN given = 1 .. Len(given) /\ DOMAIN s = 1 .. Len(s)
  BY LenProperties DEF InputTypes
<1>2. given # <<>>
  BY DEF GivenIsAStream
<1>3. Len(given) # 0
  BY <1>2, EmptySeq DEF InputTypes
<1>4. s # <<>>
  BY <1>3, EmptySeq
<1>5. Rehydrates(s) <=> ~ \E k \in DOMAIN given : given[k].event \in Unappliable
  BY <1>1 DEF Rehydrates, AppliesUpTo
<1>6. ASSUME ~ Rehydrates(s) PROVE Outcome.err = {"apply"}
  <2>1. AggregateGiven(given) = [err |-> {"apply"}, root |-> NoRoot]
    BY <1>5, <1>6 DEF AggregateGiven
  <2>2. [err |-> {"apply"}, root |-> NoRoot].err # NoError
    BY DEF NoError
  <2>3. Outcome = [err |-> {"apply"}, root |-> NoRoot]
    BY <2>1, <2>2 DEF Outcome, AggregateWhen
  <2> QED BY <2>3
<1>7. ASSUME Rehydrates(s)
      PROVE  Outcome = Method(RehydrateFromEvents(Root, s), subject)
  <2>1. [k \in DOMAIN given |-> given[k].event] = s
    BY <1>1
  <2>2. given[Len(given)].version = Len(s)
    BY <1>1, <1>3 DEF GivenIsAStream
  <2>3. AggregateGiven(given) =
          [err |-> NoError, root |-> RehydrateFromEvents(Root, s)]
    BY <1>2, <1>5, <1>7, <2>1, <2>2 DEF AggregateGiven, RehydrateFromEvents
  <2> QED BY <2>3 DEF Outcome, AggregateWhen
<1> QED BY <1>2, <1>4, <1>6, <1>7

LEMMA HandlerLoadsKeeps ==
  ASSUME ScenarioInv, HandlerLoads
  PROVE  ScenarioInv'
<1> DEFINE s == store[Root]
           loads == Rehydrates(s) /\ s # <<>>
<1>1. /\ InputTypes /\ StepTypes /\ CommandInv /\ AgreeInv
      /\ harness = "command" /\ pc = "given" /\ next > Len(given)
  BY DEF ScenarioInv, HandlerLoads
<1>2. /\ Len(given) \in Nat /\ next - 1 = Len(given)
      /\ Root \in StreamIDs /\ s \in Seq(Events)
  <2>1. Len(given) \in Nat /\ next \in 1 .. (Len(given) + 1)
    BY <1>1, LenProperties DEF InputTypes, StepTypes
  <2>2. next > Len(given)
    BY <1>1
  <2>3. next - 1 = Len(given)
    BY ONLY <2>1, <2>2
  <2> QED BY <1>1, <2>1, <2>3, ScenarioAssumption DEF StepTypes
<1>3. Len(s) = Before /\ recorded = <<>>
  BY <1>1, <1>2 DEF CommandInv, Before
<1>4. ASSUME GivenIsAStream
      PROVE  Len(s) = Len(given) /\ \A k \in 1 .. Len(s) : s[k] = given[k].event
  BY <1>1, <1>2, <1>4 DEF AgreeInv, GivenStored
<1>5. ASSUME GivenIsAStream, ~ subject.create
      PROVE  /\ s # <<>>
             /\ ~ Rehydrates(s) => Outcome.err = {"apply"}
             /\ Rehydrates(s) =>
                  Outcome = Method(RehydrateFromEvents(Root, s), subject)
  <2> HIDE DEF s
  <2> QED BY <1>1, <1>2, <1>4, <1>5, OutcomeOfStream
<1>6. CASE ~ subject.create /\ ~ loads /\ HandlerReturns(NotLoaded)
  <2>1. ASSUME GivenIsAStream
        PROVE  Outcome.err = NotLoaded /\ NotLoaded # NoError
    <3>1. ~ Rehydrates(s)
      BY <1>5, <1>6, <2>1
    <3> QED BY <1>5, <1>6, <2>1, <3>1 DEF NotLoaded, NoError
  <2> QED BY <1>1, <1>3, <1>6, <2>1, EarlyReturnKeeps
<1>7. CASE /\ subject.create \/ loads
           /\ held' = IF subject.create THEN NewRoot(Root)
                                        ELSE RehydrateFromEvents(Root, s)
           /\ pc' = "method"
           /\ UNCHANGED <<inputs, store, recorded, handled, next, err, sc,
                          verdict>>
  <2>1. /\ InputTypes'
        /\ harness' = harness /\ given' = given /\ subject' = subject
        /\ Outcome' = Outcome /\ (GivenIsAStream' <=> GivenIsAStream)
    BY <1>1, <1>7, InputsKept
  <2>2. held' \in Roots
    BY <1>2, <1>7, NewRootProperties, RehydrateProperties
  <2>3. StepTypes'
    BY <1>1, <1>7, <2>1, <2>2 DEF StepTypes
  <2>4. CommandInv'
    <3>1. Before' = Before
      BY <2>1 DEF Before, GivenTo
    <3> QED BY <1>3, <1>7, <2>1, <3>1 DEF CommandInv
  <2>5. ASSUME GivenIsAStream
        PROVE  /\ Outcome = Method(held', subject)
               /\ held'.version = Len(given) /\ held'.recorded = <<>>
    <3>1. CASE subject.create
      <4>1. held' = NewRoot(Root)
        BY <1>7, <3>1
      <4>2. Outcome = Method(NewRoot(Root), subject)
        BY <3>1 DEF Outcome, AggregateWhen
      <4>3. Len(given) = 0
        BY <2>5, <3>1 DEF GivenIsAStream
      <4> QED BY <4>1, <4>2, <4>3 DEF NewRoot
    <3>2. CASE ~ subject.create
      <4>1. held' = RehydrateFromEvents(Root, s) /\ Rehydrates(s)
        BY <1>7, <3>2
      <4>2. Outcome = Method(RehydrateFromEvents(Root, s), subject)
        BY <1>5, <2>5, <3>2, <4>1
      <4> QED BY <1>4, <2>5, <4>1, <4>2 DEF RehydrateFromEvents
    <3> QED BY <3>1, <3>2
  <2>6. AgreeInv'
    <3>1. Method(held, subject)' = Method(held', subject)
      BY <2>1 DEF Method
    <3> QED BY <1>4, <1>7, <2>1, <2>5, <3>1 DEF AgreeInv
  <2>7. QueryInv'
    BY <1>1, <2>1 DEF QueryInv
  <2> QED BY <2>1, <2>3, <2>4, <2>6, <2>7 DEF ScenarioInv
<1> QED BY <1>6, <1>7 DEF HandlerLoads

LEMMA HandlerDecidesKeeps ==
  ASSUME ScenarioInv, HandlerDecides
  PROVE  ScenarioInv'
<1> DEFINE o == Method(held, subject)
           goesOn == o.err = NoError \/ (o.err = subject.err /\ subject.late)
<1>1. /\ InputTypes /\ StepTypes /\ CommandInv /\ AgreeInv /\ pc = "method"
  BY DEF ScenarioInv, HandlerDecides
<1>2. /\ harness = "command" /\ held \in Roots /\ subject \in Subjects
      /\ Len(store[Root]) = Before /\ recorded = <<>>
  BY <1>1 DEF StepTypes, CommandInv, InputTypes
<1>3. /\ o.root \in Roots
      /\ o.err = {"apply"} \/ o.err = subject.err
      /\ held.recorded = <<>> =>
           o.root.version = held.version + Len(o.root.recorded)
  BY <1>2, MethodProperties
<1>4. ASSUME GivenIsAStream
      PROVE  /\ Outcome = o /\ held.version = Len(given) /\ held.recorded = <<>>
             /\ Len(store[Root]) = Len(given)
  BY <1>1, <1>2, <1>4 DEF AgreeInv
<1>5. CASE ~ goesOn /\ HandlerReturns(o.err)
  <2>1. GivenIsAStream => Outcome.err = o.err /\ o.err # NoError
    BY <1>4, <1>5
  <2> HIDE DEF o
  <2> QED BY <1>1, <1>2, <1>5, <2>1, EarlyReturnKeeps
<1>6. CASE /\ goesOn
           /\ held' = o.root
           /\ pc' = "save"
           /\ UNCHANGED <<inputs, store, recorded, handled, next, err, sc,
                          verdict>>
  <2> HIDE DEF o
  <2>1. /\ InputTypes'
        /\ harness' = harness /\ given' = given /\ subject' = subject
        /\ Outcome' = Outcome /\ (GivenIsAStream' <=> GivenIsAStream)
    BY <1>1, <1>6, InputsKept
  <2>2. StepTypes'
    BY <1>1, <1>2, <1>3, <1>6, <2>1 DEF StepTypes
  <2>3. CommandInv'
    <3>1. Before' = Before
      BY <2>1 DEF Before, GivenTo
    <3> QED BY <1>2, <1>6, <2>1, <3>1 DEF CommandInv
  <2>4. o.err = subject.err
    BY <1>3, <1>6 DEF NoError
  <2>5. AgreeInv'
    BY <1>3, <1>4, <1>6, <2>1, <2>4 DEF AgreeInv
  <2>6. QueryInv'
    BY <1>2, <2>1 DEF QueryInv
  <2> QED BY <2>1, <2>2, <2>3, <2>5, <2>6 DEF ScenarioInv
<1> QED BY <1>5, <1>6 DEF HandlerDecides

(***************************************************************************)
(* The save.  A version that runs ahead of the stream by what is recorded  *)
(* makes the check pass.                                                   *)
(***************************************************************************)
LEMMA TrackedTypes ==
  ASSUME NEW v \in Nat, NEW events \in Seq(Events), Len(events) <= v
  PROVE  /\ <<>> \o Tracked(v, events) = Tracked(v, events)
         /\ DOMAIN Tracked(v, events) = 1 .. Len(events)
         /\ \A k \in 1 .. Len(events) :
              Tracked(v, events)[k] =
                [id |-> Root, event |-> events[k], version |-> (v - Len(events)) + k]
<1> DEFINE T == [id : {Root}, event : Events, version : Nat]
<1>1. DOMAIN events = 1 .. Len(events) /\ Len(events) \in Nat
  BY LenProperties
<1>2. PICK t : t = Tracked(v, events)
  OBVIOUS
<1>3. t = [k \in 1 .. Len(events) |->
             [id |-> Root, event |-> events[k], version |-> (v - Len(events)) + k]]
  BY <1>1, <1>2 DEF Tracked
<1>4. \A k \in 1 .. Len(events) : events[k] \in Events
  BY ElementOfSeq
<1>5. \A k \in 1 .. Len(events) :
        [id |-> Root, event |-> events[k], version |-> (v - Len(events)) + k] \in T
  BY <1>1, <1>4
<1>6. t \in [1 .. Len(events) -> T]
  <2> HIDE DEF T
  <2> QED BY <1>3, <1>5
<1>7. t \in Seq(T)
  <2> HIDE DEF T
  <2> QED BY <1>1, <1>6
<1>8. <<>> \o t = t
  <2> HIDE DEF T
  <2> QED BY <1>7, ConcatProperties, EmptySeq
<1> QED BY <1>2, <1>3, <1>8

LEMMA HandlerSavesKeeps ==
  ASSUME ScenarioInv, HandlerSaves
  PROVE  ScenarioInv'
<1> DEFINE accepted == \/ held.recorded = <<>>
                       \/ Accepts(ExpectedVersion(held), Len(store[Root]))
           n == Before
           m == Len(held.recorded)
<1>1. InputTypes /\ StepTypes /\ CommandInv /\ AgreeInv /\ pc = "save"
  BY DEF ScenarioInv, HandlerSaves
<1>2. /\ harness = "command" /\ held \in Roots
      /\ store \in [StreamIDs -> Seq(Events)]
      /\ Len(store[Root]) = n /\ recorded = <<>>
      /\ Root \in StreamIDs
  BY <1>1, ScenarioAssumption DEF StepTypes, CommandInv
<1>3. /\ held.recorded \in Seq(Events) /\ m \in Nat /\ held.version \in Nat
      /\ store[Root] \in Seq(Events) /\ n \in Nat
  BY <1>2, RootTypes, LenProperties
<1>4. ASSUME GivenIsAStream
      PROVE  /\ Outcome.root = held /\ Outcome.err = subject.err
             /\ held.version = Len(given) + m /\ n = Len(given)
  BY <1>1, <1>2, <1>4 DEF AgreeInv
<1> HIDE DEF n, m
<1>5. CASE ~ accepted /\ HandlerReturns({"conflict"})
  <2>1. ~ GivenIsAStream
    <3> SUFFICES ASSUME GivenIsAStream PROVE FALSE
      OBVIOUS
    <3>1. held.version = n + m
      BY <1>4
    <3>2. Minus(held.version, m) = n
      BY <1>3, <3>1 DEF Minus
    <3>3. accepted
      BY <1>2, <3>2 DEF Accepts, ExpectedVersion, m
    <3> QED BY <1>5, <3>3
  <2> QED BY <1>1, <1>2, <1>5, <2>1, EarlyReturnKeeps DEF n
<1>6. CASE /\ Store(Root, held.recorded)
           /\ recorded' = recorded \o
                Tracked(Len(store[Root]) + Len(held.recorded), held.recorded)
           /\ held' = FlushRecordedEvents(held)
           /\ err' = subject.err
           /\ pc' = "assert"
           /\ UNCHANGED <<inputs, handled, next, sc, verdict>>
  <2> DEFINE tracked == Tracked(n + m, held.recorded)
  <2>1. /\ InputTypes'
        /\ harness' = harness /\ given' = given /\ subject' = subject
        /\ Outcome' = Outcome /\ (GivenIsAStream' <=> GivenIsAStream)
    BY <1>1, <1>6, InputsKept
  <2>2. n + m \in Nat /\ m <= n + m
    BY <1>3
  <2>3. /\ recorded' = tracked
        /\ DOMAIN tracked = 1 .. m
        /\ \A k \in 1 .. m :
             tracked[k] = [id |-> Root, event |-> held.recorded[k],
                           version |-> ((n + m) - m) + k]
    <3>1. recorded' = <<>> \o tracked
      BY <1>2, <1>6 DEF m
    <3> HIDE DEF tracked
    <3>2. /\ <<>> \o tracked = tracked
          /\ DOMAIN tracked = 1 .. Len(held.recorded)
          /\ \A k \in 1 .. Len(held.recorded) :
               tracked[k] = [id |-> Root, event |-> held.recorded[k],
                             version |-> ((n + m) - Len(held.recorded)) + k]
      BY <1>3, <2>2, TrackedTypes DEF tracked, m
    <3> QED BY <3>1, <3>2 DEF m
  <2>4. PICK t : t = store'
    OBVIOUS
  <2>5. t = [store EXCEPT ![Root] = @ \o held.recorded]
    BY <1>6, <2>4 DEF Store
  <2>6. /\ t \in [StreamIDs -> Seq(Events)]
        /\ Len(t[Root]) = n + m
        /\ \A k \in 1 .. m : t[Root][n + k] = held.recorded[k]
    <3>1. PICK b : b = held.recorded
      OBVIOUS
    <3>2. /\ b \in Seq(Events) /\ t = [store EXCEPT ![Root] = @ \o b]
          /\ Len(b) = m
      BY <1>3, <2>5, <3>1 DEF m
    <3>3. /\ t \in [StreamIDs -> Seq(Events)]
          /\ Len(t[Root]) = Len(store[Root]) + Len(b)
          /\ \A k \in 1 .. Len(b) : t[Root][Len(store[Root]) + k] = b[k]
      <4>1. PICK u : u = store
        OBVIOUS
      <4>2. u \in [StreamIDs -> Seq(Events)] /\ t = [u EXCEPT ![Root] = @ \o b]
        BY <1>2, <3>2, <4>1
      <4>3. /\ t \in [StreamIDs -> Seq(Events)]
            /\ Len(t[Root]) = Len(u[Root]) + Len(b)
            /\ \A k \in 1 .. Len(b) : t[Root][Len(u[Root]) + k] = b[k]
        <5>1. Root \in StreamIDs /\ b \in Seq(Events)
          BY <1>2, <3>2
        <5> QED BY ONLY <4>2, <5>1, StoreProperties
      <4> QED BY <4>1, <4>3
    <3> QED BY <1>2, <3>1, <3>2, <3>3
  <2>7. StepTypes'
    BY <1>1, <1>6, <2>1, <2>4, <2>6 DEF StepTypes
  <2>8. Produced' = tracked
    <3>1. Before' = n
      BY <2>1 DEF Before, GivenTo, n
    <3>2. (n + m) - n = m /\ (n + m) - m = n
      BY <1>3
    <3>3. Produced' = [k \in 1 .. m |->
                         [id |-> Root, version |-> n + k, event |-> t[Root][n + k]]]
      BY <2>4, <2>6, <3>1, <3>2 DEF Produced
    <3>4. \A k \in 1 .. m :
            tracked[k] = [id |-> Root, version |-> n + k, event |-> t[Root][n + k]]
      <4> HIDE DEF tracked
      <4> QED BY <2>3, <2>6, <3>2
    <3>5. DOMAIN tracked = 1 .. m
      BY <2>3
    <3>6. tracked = [k \in 1 .. m |-> tracked[k]]
      BY <1>3, <3>5 DEF Tracked
    <3> HIDE DEF tracked
    <3> QED BY <3>3, <3>4, <3>6
  <2>9. CommandInv'
    BY <1>6, <2>1, <2>3, <2>8 DEF CommandInv
  <2>10. AgreeInv'
    <3>1. ASSUME GivenIsAStream PROVE SameOutcome'
      <4>1. held.version = n + m /\ n = Len(given)
        BY <1>4, <3>1
      <4>2. recorded' = Tracked(held.version, held.recorded)
        BY <2>3, <4>1
      <4> HIDE DEF tracked
      <4> QED BY <1>2, <1>4, <1>6, <2>1, <3>1, <4>1, <4>2 DEF SameOutcome, Tracked, m
    <3> QED BY <1>6, <2>1, <3>1 DEF AgreeInv
  <2>11. QueryInv'
    BY <1>2, <2>1 DEF QueryInv
  <2> QED BY <2>1, <2>7, <2>9, <2>10, <2>11 DEF ScenarioInv
<1> QED BY <1>5, <1>6 DEF HandlerSaves

LEMMA CommandAssertOnKeeps ==
  ASSUME ScenarioInv, CommandAssertOn
  PROVE  ScenarioInv'
<1>1. PICK then \in CommandExpectations : Judge(then, CommandMatches(then))
  BY DEF CommandAssertOn
<1>2. /\ InputTypes /\ StepTypes /\ CommandInv /\ AgreeInv
      /\ harness = "command" /\ pc = "assert"
  BY DEF ScenarioInv, CommandAssertOn
<1>3. /\ sc' = then /\ pc' = "done"
      /\ verdict' = IF CommandMatches(then) THEN "pass" ELSE "fail"
      /\ UNCHANGED <<inputs, store, recorded, handled, next, held, err>>
  BY <1>1 DEF Judge
<1>4. /\ InputTypes'
      /\ harness' = harness /\ given' = given /\ subject' = subject
      /\ Outcome' = Outcome /\ (GivenIsAStream' <=> GivenIsAStream)
  BY <1>2, <1>3, InputsKept
<1>5. StepTypes'
  BY <1>2, <1>3, <1>4 DEF StepTypes
<1>6. CommandInv'
  <2>1. recorded = Produced
    BY <1>2 DEF CommandInv
  <2>2. Produced' = Produced
    BY <1>3, <1>4 DEF Produced, Before, GivenTo
  <2>3. CommandMatches(sc)' <=> CommandMatches(then)
    BY <1>3 DEF CommandMatches
  <2> QED BY <1>1, <1>3, <1>4, <2>1, <2>2, <2>3 DEF CommandInv
<1>7. AgreeInv'
  <2>1. SameOutcome' <=> SameOutcome
    BY <1>3, <1>4 DEF SameOutcome, Tracked
  <2> QED BY <1>2, <1>3, <1>4, <2>1 DEF AgreeInv
<1>8. QueryInv'
  BY <1>2, <1>4 DEF QueryInv
<1> QED BY <1>4, <1>5, <1>6, <1>7, <1>8 DEF ScenarioInv

-----------------------------------------------------------------------------
(***************************************************************************)
(* The actions of a query scenario.                                        *)
(***************************************************************************)
LEMMA FailNowKeeps ==
  ASSUME ScenarioInv, harness = "query", FailNow
  PROVE  ScenarioInv'
<1>1. /\ InputTypes /\ StepTypes
      /\ UNCHANGED inputs /\ store' = store /\ next' = next
      /\ pc' = "done" /\ verdict' = "fail"
  BY DEF ScenarioInv, FailNow
<1>2. InputTypes' /\ harness' = harness /\ given' = given
  BY <1>1, InputsKept
<1>3. StepTypes'
  BY <1>1, <1>2 DEF StepTypes
<1>4. CommandInv' /\ AgreeInv' /\ QueryInv'
  BY <1>1, <1>2 DEF CommandInv, AgreeInv, QueryInv
<1> QED BY <1>2, <1>3, <1>4 DEF ScenarioInv

(***************************************************************************)
(* version - 1 wraps around for the version 0, to a version that no stream *)
(* of given events has: the check accepts the next version only.           *)
(***************************************************************************)
LEMMA QueryCheckProperties ==
  ASSUME NEW v \in 0 .. MaxGiven, NEW n \in Nat, n < MaxGiven,
         Accepts(Minus(v, 1), n)
  PROVE  v = n + 1
<1>1. VersionSpace \in Nat /\ MaxGiven \in Nat /\ MaxGiven < VersionSpace
  BY ScenarioAssumption, VersionSpaceAssumption
<1>2. Minus(v, 1) = -1 \/ Minus(v, 1) = n
  BY DEF Accepts, CheckAny
<1>3. CASE v = 0
  <2>1. Minus(v, 1) = VersionSpace - 1
    BY <1>1, <1>3 DEF Minus
  <2> QED BY <1>1, <1>2, <1>3, <2>1
<1>4. CASE v # 0
  <2>1. Minus(v, 1) = v - 1 /\ v \in Nat \ {0}
    BY <1>1, <1>4 DEF Minus
  <2> QED BY <1>2, <2>1
<1> QED BY <1>3, <1>4

LEMMA QueryGivenKeeps ==
  ASSUME ScenarioInv, QueryGiven
  PROVE  ScenarioInv'
<1> DEFINE evt == given[next]
           id == evt.id
           v == evt.version
           e == evt.event
<1>1. /\ InputTypes /\ StepTypes /\ QueryInv
      /\ harness = "query" /\ pc = "given" /\ next <= Len(given)
  BY DEF ScenarioInv, QueryGiven
<1>2. CASE ~ QueryCheck(evt) /\ FailNow
  BY <1>1, <1>2, FailNowKeeps
<1>3. CASE /\ QueryCheck(evt)
           /\ Store(id, <<e>>)
           /\ pc' = "process"
           /\ UNCHANGED <<inputs, recorded, handled, next, held, err, sc,
                          verdict>>
  <2>1. Len(given) \in Nat /\ Len(given) <= MaxGiven
    BY <1>1, LenProperties DEF InputTypes
  <2>2. next \in 1 .. Len(given) /\ next \in Nat \ {0} /\ next - 1 \in Nat
    <3>1. next \in 1 .. (Len(given) + 1) /\ next <= Len(given)
      BY <1>1 DEF StepTypes
    <3> QED BY ONLY <2>1, <3>1
  <2>3. id \in StreamIDs /\ e \in Events /\ v \in 0 .. MaxGiven
    BY <1>1, <2>2, GivenTypes
  <2>4. /\ InputTypes'
        /\ harness' = harness /\ given' = given /\ subject' = subject
    BY <1>1, <1>3, InputsKept
  <2>5. store \in [StreamIDs -> Seq(Events)]
    BY <1>1 DEF StepTypes
  <2>6. PICK t : t = store'
    OBVIOUS
  <2> HIDE DEF evt
  <2>7. /\ t \in [StreamIDs -> Seq(Events)]
        /\ \A j \in StreamIDs : j # id => t[j] = store[j]
        /\ Len(store[id]) \in Nat
        /\ Len(t[id]) = Len(store[id]) + 1
        /\ \A k \in 1 .. Len(store[id]) : t[id][k] = store[id][k]
        /\ t[id][Len(store[id]) + 1] = e
    <3>1. t = [store EXCEPT ![id] = @ \o <<e>>]
      BY <1>3, <2>6 DEF Store
    <3> HIDE DEF id, e
    <3> QED BY <2>3, <2>5, <3>1, StoreOneProperties
  <2>8. StepTypes'
    BY <1>1, <1>3, <2>4, <2>6, <2>7 DEF StepTypes
  <2>9. CommandInv' /\ AgreeInv'
    BY <1>1, <2>4 DEF CommandInv, AgreeInv
  <2>10. /\ verdict = "none" /\ handled \in Seq(PersistedIn(StreamIDs))
         /\ Len(handled) = next - 1
         /\ \A k \in 1 .. (next - 1) : handled[k] = given[k]
         /\ StoredTo(next - 1)
    BY <1>1 DEF StepTypes, QueryInv
  <2>11. /\ \A j \in StreamIDs : Len(store[j]) = CountTo(given, j, next - 1)
         /\ \A k \in 1 .. (next - 1) :
              /\ given[k].version = CountTo(given, given[k].id, k)
              /\ given[k].version \in 1 .. Len(store[given[k].id])
              /\ store[given[k].id][given[k].version] = given[k].event
    BY <2>10 DEF StoredTo, GivenTo, CountTo
  <2>12. /\ \A j : \A n \in Nat : CountTo(given, j, n) \in 0 .. n
         /\ \A j : \A n \in Nat \ {0} :
              CountTo(given, j, n) =
                IF given[n].id = j THEN CountTo(given, j, n - 1) + 1
                                   ELSE CountTo(given, j, n - 1)
    BY ONLY CountStep, Zenon
  <2>13. \A j \in StreamIDs : Len(t[j]) = CountTo(given, j, next)
    <3> TAKE j \in StreamIDs
    <3>1. CountTo(given, j, next) =
            IF id = j THEN CountTo(given, j, next - 1) + 1
                      ELSE CountTo(given, j, next - 1)
      BY <2>2, <2>12 DEF evt
    <3>2. Len(store[j]) = CountTo(given, j, next - 1)
      BY <2>11
    <3> HIDE DEF id
    <3> QED BY <2>7, <3>1, <3>2
  <2>14. v = Len(store[id]) + 1
    <3>1. Accepts(Minus(v, 1), Len(store[id]))
      BY <1>3 DEF QueryCheck
    <3>2. Len(store[id]) \in 0 .. (next - 1)
      BY <2>2, <2>3, <2>11, <2>12
    <3>3. MaxGiven \in Nat
      BY ScenarioAssumption
    <3> HIDE DEF v, id
    <3>4. Len(store[id]) < MaxGiven
      BY <2>1, <2>2, <3>2, <3>3
    <3> QED BY <2>3, <2>7, <3>1, <3>4, QueryCheckProperties
  <2>15. ASSUME NEW k \in 1 .. next
         PROVE  /\ given[k].version = CountTo(given, given[k].id, k)
                /\ given[k].version \in 1 .. Len(t[given[k].id])
                /\ t[given[k].id][given[k].version] = given[k].event
    <3>1. CASE k = next
      <4>1. given[k].id = id /\ given[k].version = v /\ given[k].event = e
        BY <3>1 DEF evt
      <4> HIDE DEF id, v, e
      <4>2. Len(t[id]) = CountTo(given, id, next)
        BY <2>3, <2>13
      <4> QED BY <2>7, <2>14, <3>1, <4>1, <4>2
    <3>2. CASE k # next
      <4>1. k \in 1 .. (next - 1)
        BY <2>2, <3>2
      <4>2. k \in 1 .. Len(given)
        BY <2>1, <2>2
      <4>3. given[k].id \in StreamIDs
        BY <1>1, <4>2, GivenTypes
      <4>4. PICK j \in StreamIDs : j = given[k].id
        BY <4>3
      <4>5. PICK w : w = given[k].version
        OBVIOUS
      <4>6. /\ w = CountTo(given, given[k].id, k)
            /\ w \in 1 .. Len(store[j]) /\ store[j][w] = given[k].event
        BY <2>11, <4>1, <4>4, <4>5
      <4>7. w \in 1 .. Len(t[j]) /\ t[j][w] = store[j][w]
        <5> HIDE DEF id, e
        <5> QED BY <2>7, <4>6
      <4> QED BY <4>4, <4>5, <4>6, <4>7
    <3> QED BY <3>1, <3>2
  <2>16. StoredTo(next)'
    <3>1. next' = next
      BY <1>3
    <3> QED BY <2>4, <2>6, <2>13, <2>15, <3>1 DEF StoredTo, GivenTo, CountTo
  <2>17. QueryInv'
    BY <1>3, <2>4, <2>10, <2>16 DEF QueryInv
  <2> QED BY <2>4, <2>8, <2>9, <2>17 DEF ScenarioInv
<1> QED BY <1>2, <1>3 DEF QueryGiven

LEMMA QueryProcessKeeps ==
  ASSUME ScenarioInv, QueryProcess
  PROVE  ScenarioInv'
<1> DEFINE evt == given[next]
<1>1. /\ InputTypes /\ StepTypes /\ QueryInv /\ pc = "process"
  BY DEF ScenarioInv, QueryProcess
<1>2. harness = "query" /\ next <= Len(given) /\ verdict = "none"
  BY <1>1 DEF StepTypes
<1>3. CASE FailNow
  BY <1>2, <1>3, FailNowKeeps
<1>4. CASE /\ handled' = Append(handled, evt)
           /\ next' = next + 1
           /\ pc' = "given"
           /\ UNCHANGED <<inputs, store, recorded, held, err, sc, verdict>>
  <2>1. next \in 1 .. Len(given) /\ next \in Nat \ {0} /\ Len(given) \in Nat
    <3>1. next \in 1 .. (Len(given) + 1) /\ Len(given) \in Nat
      BY <1>1, LenProperties DEF StepTypes, InputTypes
    <3> QED BY ONLY <1>2, <3>1
  <2>2. /\ InputTypes'
        /\ harness' = harness /\ given' = given /\ subject' = subject
    BY <1>1, <1>4, InputsKept
  <2>3. next' \in 1 .. (Len(given) + 1) /\ next' - 1 = next
    BY <1>4, <2>1
  <2>4. StepTypes'
    BY <1>1, <1>4, <2>2, <2>3 DEF StepTypes
  <2>5. CommandInv' /\ AgreeInv'
    BY <1>2, <2>2 DEF CommandInv, AgreeInv
  <2>6. /\ handled \in Seq(PersistedIn(StreamIDs)) /\ Len(handled) = next - 1
        /\ \A k \in 1 .. (next - 1) : handled[k] = given[k]
        /\ StoredTo(next)
    BY <1>1, <1>2 DEF QueryInv
  <2>7. evt \in PersistedIn(StreamIDs)
    BY <1>1, <2>1, ElementOfSeq DEF InputTypes
  <2>8. PICK h : h = handled'
    OBVIOUS
  <2> HIDE DEF evt
  <2>9. /\ h \in Seq(PersistedIn(StreamIDs)) /\ Len(h) = Len(handled) + 1
        /\ \A k \in 1 .. Len(handled) : h[k] = handled[k]
        /\ h[Len(handled) + 1] = evt
    BY <1>4, <2>6, <2>7, <2>8, AppendProperties
  <2>10. /\ Len(h) = next /\ \A k \in 1 .. next : h[k] = given[k]
    <3>1. (next - 1) + 1 = next
      BY <2>1
    <3>2. Len(h) = next /\ h[next] = given[next]
      BY <2>6, <2>9, <3>1 DEF evt
    <3>3. \A k \in 1 .. (next - 1) : h[k] = given[k]
      BY <2>6, <2>9
    <3>4. \A k \in 1 .. next : k = next \/ k \in 1 .. (next - 1)
      BY <2>1
    <3> QED BY <3>2, <3>3, <3>4
  <2>11. StoredTo(next - 1)'
    <3>1. PICK n : n = next
      OBVIOUS
    <3>2. StoredTo(n) /\ next' - 1 = n /\ store' = store
      BY <1>4, <2>3, <2>6, <3>1
    <3>3. (StoredTo(next - 1))' <=> StoredTo(n)
      BY <2>2, <3>2 DEF StoredTo, GivenTo
    <3> QED BY <3>2, <3>3
  <2>12. QueryInv'
    BY <1>4, <2>2, <2>3, <2>8, <2>9, <2>10, <2>11 DEF QueryInv
  <2> QED BY <2>2, <2>4, <2>5, <2>12 DEF ScenarioInv
<1> QED BY <1>3, <1>4 DEF QueryProcess

LEMMA QueryHandleKeeps ==
  ASSUME ScenarioInv, QueryHandle \/ QueryAssertOn
  PROVE  ScenarioInv'
<1>1. InputTypes /\ StepTypes /\ QueryInv /\ harness = "query"
  BY DEF ScenarioInv, QueryHandle, QueryAssertOn
<1>2. /\ UNCHANGED <<inputs, store, handled, next>>
      /\ \/ pc = "given" /\ next > Len(given) /\ pc' = "assert" /\ verdict' = verdict
         \/ pc = "assert" /\ pc' = "done"
  BY DEF QueryHandle, QueryAssertOn, HandlerReturns, Judge
<1>3. /\ InputTypes'
      /\ harness' = harness /\ given' = given /\ subject' = subject
  BY <1>1, <1>2, InputsKept
<1>4. StepTypes' /\ verdict = "none"
  BY <1>1, <1>2, <1>3 DEF StepTypes
<1>5. CommandInv' /\ AgreeInv'
  BY <1>1, <1>3 DEF CommandInv, AgreeInv
<1>6. /\ handled \in Seq(PersistedIn(StreamIDs)) /\ Len(handled) = next - 1
      /\ \A k \in 1 .. (next - 1) : handled[k] = given[k]
      /\ StoredTo(next - 1)
  BY <1>1, <1>2, <1>4 DEF QueryInv
<1>7. next = Len(given) + 1
  <2>1. next \in 1 .. (Len(given) + 1) /\ Len(given) \in Nat
    BY <1>1, LenProperties DEF StepTypes, InputTypes
  <2>2. CASE next > Len(given)
    BY ONLY <2>1, <2>2
  <2>3. CASE pc = "assert"
    BY <1>1, <1>4, <2>3 DEF QueryInv
  <2> QED BY <1>2, <2>2, <2>3
<1>8. StoredTo(next - 1)'
  BY <1>2, <1>3, <1>6 DEF StoredTo, GivenTo
<1>9. QueryInv'
  BY <1>2, <1>3, <1>6, <1>7, <1>8 DEF QueryInv
<1> QED BY <1>3, <1>4, <1>5, <1>9 DEF ScenarioInv

-----------------------------------------------------------------------------

LEMMA InitScenarioInv ==
  ASSUME ScenarioInit
  PROVE  ScenarioInv
<1>1. InputTypes
  <2>1. PICK n \in 0 .. MaxGiven : given \in [1 .. n -> PersistedIn(StreamIDs)]
    BY DEF ScenarioInit, SeqsUpTo
  <2>2. n \in Nat /\ n <= MaxGiven
    <3>1. MaxGiven \in Nat
      BY ScenarioAssumption
    <3> QED BY <3>1
  <2>3. given \in Seq(PersistedIn(StreamIDs)) /\ Len(given) = n
    BY <2>1, <2>2
  <2> QED BY <2>2, <2>3 DEF InputTypes, ScenarioInit
<1>2. Len(given) \in Nat
  BY <1>1, LenProperties DEF InputTypes
<1>3. /\ store = [id \in StreamIDs |-> <<>>] /\ recorded = <<>> /\ handled = <<>>
      /\ next = 1 /\ pc = "given" /\ verdict = "none"
  BY DEF ScenarioInit
<1>4. \A id \in StreamIDs : Len(store[id]) = 0 /\ GivenTo(id, 0) = 0
  <2>1. \A id : CountTo(given, id, 0) = 0
    BY ONLY CountStep, Zenon
  <2> QED BY <1>3, <2>1 DEF GivenTo, CountTo
<1>5. StepTypes
  BY <1>2, <1>3, EmptySeq DEF StepTypes
<1>6. next - 1 = 0 /\ Len(store[Root]) = 0 /\ GivenTo(Root, 0) = 0
  <2>1. Root \in StreamIDs
    BY ScenarioAssumption
  <2> QED BY <1>3, <1>4, <2>1
<1>7. CommandInv
  BY <1>3, <1>6 DEF CommandInv
<1>8. AgreeInv
  BY <1>3, <1>6 DEF AgreeInv, GivenStored
<1>9. QueryInv
  <2>1. handled \in Seq(PersistedIn(StreamIDs)) /\ Len(handled) = 0
    BY <1>3, EmptySeq
  <2> QED BY <1>3, <1>4, <1>6, <2>1 DEF QueryInv, StoredTo
<1> QED BY <1>1, <1>5, <1>7, <1>8, <1>9 DEF ScenarioInv

LEMMA NextScenarioInv ==
  ASSUME ScenarioInv, [ScenarioNext]_scenarioVars
  PROVE  ScenarioInv'
<1>1. CASE UNCHANGED scenarioVars
  <2>1. InputTypes /\ StepTypes /\ CommandInv /\ AgreeInv /\ QueryInv
    BY DEF ScenarioInv
  <2>2. /\ harness' = harness /\ given' = given /\ subject' = subject
        /\ store' = store /\ recorded' = recorded /\ handled' = handled
        /\ next' = next /\ held' = held /\ err' = err /\ pc' = pc
        /\ sc' = sc /\ verdict' = verdict
    BY <1>1 DEF scenarioVars
  <2>3. InputTypes' /\ StepTypes'
    BY <2>1, <2>2 DEF InputTypes, StepTypes
  <2>4. CommandInv'
    <3>1. /\ GivenTo(Root, next - 1)' = GivenTo(Root, next - 1)
          /\ Before' = Before /\ Produced' = Produced
      BY <2>2 DEF GivenTo, Before, Produced
    <3>2. CommandMatches(sc)' <=> CommandMatches(sc)
      BY <2>2 DEF CommandMatches
    <3> QED BY <2>1, <2>2, <3>1, <3>2 DEF CommandInv
  <2>5. AgreeInv'
    <3>1. /\ Outcome' = Outcome /\ (GivenIsAStream' <=> GivenIsAStream)
          /\ GivenStored' <=> GivenStored
          /\ Method(held, subject)' = Method(held, subject)
      BY <2>2 DEF Outcome, GivenIsAStream, GivenStored, Method
    <3>2. SameOutcome' <=> SameOutcome
      BY <2>2, <3>1 DEF SameOutcome, Tracked
    <3> QED BY <2>1, <2>2, <3>1, <3>2 DEF AgreeInv
  <2>6. QueryInv'
    <3>1. (StoredTo(next - 1)' <=> StoredTo(next - 1))
      BY <2>2 DEF StoredTo, GivenTo
    <3>2. (StoredTo(next)' <=> StoredTo(next))
      BY <2>2 DEF StoredTo, GivenTo
    <3> QED BY <2>1, <2>2, <3>1, <3>2 DEF QueryInv
  <2> QED BY <2>3, <2>4, <2>5, <2>6 DEF ScenarioInv
<1>2. CASE ScenarioNext
  BY <1>2, CommandGivenKeeps, HandlerLoadsKeeps, HandlerDecidesKeeps,
     HandlerSavesKeeps, CommandAssertOnKeeps, QueryGivenKeeps,
     QueryProcessKeeps, QueryHandleKeeps DEF ScenarioNext
<1> QED BY <1>1, <1>2

LEMMA ScenarioInvAlways == ScenarioSpec => []ScenarioInv
<1>1. ScenarioInit => ScenarioInv
  BY InitScenarioInv
<1>2. ScenarioInv /\ [ScenarioNext]_scenarioVars => ScenarioInv'
  BY NextScenarioInv
<1> QED BY <1>1, <1>2, PTL DEF ScenarioSpec

(***************************************************************************)
(* VerdictTellsOutcome: whatever is given and whatever the command handler *)
(* does, command.Scenario passes a positive expectation exactly if the     *)
(* handler succeeded and the Event Stream grew by the expected events, and *)
(* a negative one only if the error matches all that were asked for.       *)
(***************************************************************************)
THEOREM CommandVerdict == ScenarioSpec => []VerdictTellsOutcome
<1>1. ScenarioInv => VerdictTellsOutcome
  <2> SUFFICES ASSUME ScenarioInv, harness = "command", pc = "done"
               PROVE  ThenMeansProduced /\ ThenErrorsMatchesAll
    BY DEF VerdictTellsOutcome
  <2>1. recorded = Produced /\ (verdict = "pass" <=> CommandMatches(sc))
    BY DEF ScenarioInv, CommandInv
  <2>2. ThenMeansProduced
    BY <2>1 DEF ThenMeansProduced, CommandMatches
  <2>3. ASSUME sc.wantErr, verdict = "pass"
        PROVE  err # NoError /\ sc.errors \ {"nil"} \subseteq err
    BY <2>1, <2>3 DEF CommandMatches, Is
  <2>4. ASSUME sc.wantErr, err # NoError, sc.errors \subseteq err
        PROVE  verdict = "pass"
    BY <2>1, <2>4 DEF CommandMatches, Is
  <2> QED BY <2>2, <2>3, <2>4 DEF ThenErrorsMatchesAll
<1> QED BY <1>1, ScenarioInvAlways, PTL

(***************************************************************************)
(* An expectation of events of a command scenario.                         *)
(***************************************************************************)
LEMMA ExpectationTypes ==
  ASSUME NEW c \in CommandExpectations
  PROVE  /\ c.wantErr \in BOOLEAN
         /\ ~ c.wantErr =>
              /\ DOMAIN c.then = 1 .. Len(c.then) /\ Len(c.then) \in Nat
              /\ c.then = [k \in 1 .. Len(c.then) |-> c.then[k]]
              /\ \A k \in 1 .. Len(c.then) :
                   c.then[k] = [id |-> Root, event |-> c.then[k].event,
                                version |-> c.then[k].version]
<1> DEFINE P == [id : {Root}, version : 1 .. (MaxGiven + MaxBatch), event : Events]
<1>1. CASE \E errs \in SUBSET (Mistakes \cup {"nil"}) : c = CommandThenErrors(errs)
  BY <1>1 DEF CommandThenErrors
<1>2. CASE \E events \in SeqsUpTo(P, MaxBatch) : c = CommandThen(events)
  <2>1. PICK events \in SeqsUpTo(P, MaxBatch) : c = CommandThen(events)
    BY <1>2
  <2>2. c.then = events /\ c.wantErr = FALSE
    BY <2>1 DEF CommandThen
  <2>3. PICK n \in 0 .. MaxBatch : events \in [1 .. n -> P]
    BY <2>1 DEF SeqsUpTo
  <2>4. n \in Nat
    BY BoundsAssumption
  <2>5. \A p \in P : p = [id |-> Root, event |-> p.event, version |-> p.version]
    OBVIOUS
  <2> HIDE DEF P
  <2>6. /\ events \in Seq(P) /\ Len(events) = n
        /\ DOMAIN events = 1 .. n /\ events = [k \in 1 .. n |-> events[k]]
        /\ \A k \in 1 .. n : events[k] \in P
    BY <2>3, <2>4
  <2> QED BY <2>2, <2>4, <2>5, <2>6
<1> QED BY <1>1, <1>2 DEF CommandExpectations

(***************************************************************************)
(* Events that follow the given ones are expected of the handler exactly   *)
(* if the aggregate's harness expects them at the version they end at.     *)
(***************************************************************************)
EventsOf(then) == [k \in DOMAIN then |-> then[k].event]

Follow(then, n) ==
  /\ DOMAIN then = 1 .. Len(then) /\ Len(then) \in Nat
  /\ then = [k \in 1 .. Len(then) |-> then[k]]
  /\ \A k \in 1 .. Len(then) :
       then[k] = [id |-> Root, event |-> then[k].event, version |-> n + k]

LEMMA SameExpectation ==
  ASSUME NEW n \in Nat, NEW r \in Seq(Events), NEW then, NEW v,
         v = n + Len(r), Follow(then, n)
  PROVE  then = Tracked(v, r) <=> r = EventsOf(then) /\ v = n + Len(then)
<1> DEFINE m == Len(r)
           t == Tracked(v, r)
<1> USE DEF Follow, EventsOf
<1>1. m \in Nat /\ DOMAIN r = 1 .. m /\ r = [k \in 1 .. m |-> r[k]]
  BY LenProperties
<1>2. v = n + m /\ v - m = n
  BY <1>1
<1>3. t = [k \in 1 .. m |-> [id |-> Root, event |-> r[k], version |-> n + k]]
  BY <1>1, <1>2 DEF Tracked
<1> HIDE DEF m, t
<1>4. ASSUME then = t
      PROVE  r = EventsOf(then) /\ v = n + Len(then)
  <2>1. DOMAIN then = 1 .. m
    BY <1>3, <1>4
  <2>2. Len(then) = m
    BY <1>1, <2>1
  <2>3. \A k \in 1 .. m : then[k].event = r[k]
    BY <1>3, <1>4
  <2> QED BY <1>1, <2>1, <2>2, <2>3 DEF m
<1>5. ASSUME r = EventsOf(then), v = n + Len(then)
      PROVE  then = t
  <2>1. Len(then) = m
    <3>1. v = n + Len(then)
      BY <1>5
    <3>2. Len(then) \in Nat
      OBVIOUS
    <3> QED BY ONLY <1>1, <1>2, <3>1, <3>2, n \in Nat
  <2>2. \A k \in 1 .. m : r[k] = then[k].event
    BY <1>5, <2>1
  <2>3. \A k \in 1 .. m :
          then[k] = [id |-> Root, event |-> r[k], version |-> n + k]
    BY <2>1, <2>2
  <2>4. then = [k \in 1 .. m |-> then[k]]
    BY <2>1
  <2> QED BY <1>3, <2>3, <2>4
<1> QED BY <1>4, <1>5 DEF t

(***************************************************************************)
(* ScenariosAgree: for given events that are a stream, command.Scenario    *)
(* around a handler and aggregate.Scenario around the method it calls give *)
(* the same verdict on the same expectation.                               *)
(***************************************************************************)
THEOREM HarnessesAgree == ScenarioSpec => []ScenariosAgree
<1>1. ScenarioInv => ScenariosAgree
  <2> SUFFICES ASSUME ScenarioInv, harness = "command", pc = "done",
                      GivenIsAStream, ThenFollows
               PROVE  verdict = "pass" <=>
                        AggregateAssertOn(Outcome, AggregateReading)
    BY DEF ScenariosAgree, Outcome
  <2>1. /\ sc \in CommandExpectations
        /\ verdict = "pass" <=> CommandMatches(sc)
        /\ SameOutcome
    BY DEF ScenarioInv, CommandInv, AgreeInv
  <2>2. Outcome.err = err
    BY <2>1 DEF SameOutcome
  <2>3. CASE sc.wantErr
    BY <2>1, <2>2, <2>3
       DEF AggregateAssertOn, AggregateReading, AggregateThenErrors, CommandMatches
  <2>4. CASE ~ sc.wantErr
    <3> DEFINE events == EventsOf(sc.then)
               r == Outcome.root
    <3>1. AggregateReading = AggregateThen(Len(given) + Len(sc.then), events)
      BY <2>4 DEF AggregateReading, EventsOf
    <3>2. AggregateAssertOn(Outcome, AggregateReading) <=>
            /\ err = NoError
            /\ r.recorded = events
            /\ r.version = Len(given) + Len(sc.then)
      <4> HIDE DEF events
      <4> QED BY <2>2, <3>1 DEF AggregateAssertOn, AggregateThen
    <3>3. CommandMatches(sc) <=> err = NoError /\ sc.then = recorded
      BY <2>4 DEF CommandMatches
    <3>4. ASSUME err = NoError
          PROVE  sc.then = recorded <=>
                   r.recorded = events /\ r.version = Len(given) + Len(sc.then)
      <4> HIDE DEF r
      <4>1. /\ r \in Roots /\ r.version = Len(given) + Len(r.recorded)
            /\ recorded = Tracked(r.version, r.recorded)
        BY <2>1, <3>4 DEF SameOutcome, r
      <4>2. PICK then : then = sc.then
        OBVIOUS
      <4>3. /\ DOMAIN then = 1 .. Len(then) /\ Len(then) \in Nat
            /\ then = [k \in 1 .. Len(then) |-> then[k]]
            /\ \A k \in 1 .. Len(then) :
                 then[k] = [id |-> Root, event |-> then[k].event,
                            version |-> then[k].version]
        BY <2>1, <2>4, <4>2, ExpectationTypes
      <4>4. PICK n \in Nat : n = Len(given)
        BY LenProperties DEF ScenarioInv, InputTypes
      <4>5. Follow(then, n)
        <5>1. \A k \in 1 .. Len(then) : then[k].version = n + k
          BY <4>2, <4>3, <4>4 DEF ThenFollows
        <5> QED BY <4>3, <5>1 DEF Follow
      <4>6. r.recorded \in Seq(Events)
        BY <4>1, RootTypes
      <4>7. PICK q \in Seq(Events) : q = r.recorded
        BY <4>6
      <4>8. PICK v : v = r.version
        OBVIOUS
      <4>9. v = n + Len(q)
        BY <4>1, <4>4, <4>7, <4>8
      <4>10. then = Tracked(v, q) <=> q = EventsOf(then) /\ v = n + Len(then)
        BY <4>5, <4>9, SameExpectation
      <4> QED BY <4>1, <4>2, <4>4, <4>7, <4>8, <4>10
    <3> HIDE DEF events, r
    <3> QED BY <2>1, <3>2, <3>3, <3>4
  <2> QED BY <2>3, <2>4
<1> QED BY <1>1, ScenarioInvAlways, PTL

(***************************************************************************)
(* QueryRanOnAHistory: a query.Scenario that passes has stored and         *)
(* processed every given event, at the version it carries, on streams that *)
(* hold nothing else.                                                      *)
(***************************************************************************)
THEOREM QueryHistory == ScenarioSpec => []QueryRanOnAHistory
<1>1. ScenarioInv => QueryRanOnAHistory
  <2> SUFFICES ASSUME ScenarioInv, harness = "query", verdict = "pass"
               PROVE  /\ handled = given
                      /\ \A id \in StreamIDs : Len(store[id]) = GivenTo(id, Len(given))
                      /\ \A k \in DOMAIN given :
                           /\ given[k].version = GivenTo(given[k].id, k)
                           /\ store[given[k].id][given[k].version] = given[k].event
    BY DEF QueryRanOnAHistory
  <2>1. InputTypes /\ StepTypes /\ QueryInv
    BY DEF ScenarioInv
  <2>2. pc = "done"
    BY <2>1 DEF StepTypes
  <2>3. /\ given \in Seq(PersistedIn(StreamIDs)) /\ Len(given) \in Nat
        /\ DOMAIN given = 1 .. Len(given)
    BY <2>1, LenProperties DEF InputTypes
  <2>4. next - 1 = Len(given)
    BY <2>1, <2>2, <2>3 DEF QueryInv
  <2>5. /\ handled \in Seq(PersistedIn(StreamIDs)) /\ Len(handled) = Len(given)
        /\ \A k \in 1 .. Len(given) : handled[k] = given[k]
        /\ StoredTo(Len(given))
    BY <2>1, <2>2, <2>4 DEF QueryInv
  <2>6. handled = given
    BY <2>3, <2>5, SeqEqual
  <2> QED BY <2>3, <2>5, <2>6 DEF StoredTo
<1> QED BY <1>1, ScenarioInvAlways, PTL

=============================================================================
