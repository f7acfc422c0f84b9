----------------------------- MODULE Repository -----------------------------
(***************************************************************************)
(* The contract of the aggregate.Repository interface                      *)
(* (aggregate/repository.go), as an abstract specification: a cell for     *)
(* each Aggregate Root, holding the events the root has gone through.  Get *)
(* reads the cell, Save is a compare-and-set on it that succeeds, or       *)
(* returns an error having done everything or nothing.                     *)
(*                                                                         *)
(* A client that got an error from Save lets go of the root: what the root *)
(* says about itself then is not what the storage holds.                   *)
(***************************************************************************)
EXTENDS Event

CONSTANT Clients

VARIABLES
  log,  \* log[id]: the events of the root, <<>> if there is no such root
  held  \* held[c]: the root that c has, or Nothing

vars == <<log, held>>

Nothing == [id |-> "none"]

Init ==
  /\ log = [id \in StreamIDs |-> <<>>]
  /\ held = [c \in Clients |-> Nothing]

Root(id, state, recorded, spoiled) ==
  [id |-> id, state |-> state, recorded |-> recorded, spoiled |-> spoiled]

Hold(c, id, state) ==
  /\ held[c] = Nothing
  /\ held' = [held EXCEPT ![c] = Root(id, state, <<>>, FALSE)]
  /\ UNCHANGED log

Create(c, id) == Hold(c, id, <<>>)

Get(c, id) == log[id] # <<>> /\ Hold(c, id, log[id])

Valid(c) == held[c] # Nothing /\ ~ held[c].spoiled

Record(c, batch) ==
  /\ Valid(c)
  /\ held' = [held EXCEPT ![c] =
                 Root(@.id, @.state \o batch, @.recorded \o batch, FALSE)]
  /\ UNCHANGED log

(***************************************************************************)
(* Save takes effect only on the state that the client has started from.   *)
(***************************************************************************)
Base(r) == SubSeq(r.state, 1, Len(r.state) - Len(r.recorded))

CompareAndSet(c) ==
  LET r == held[c]
  IN  /\ log[r.id] = Base(r)
      /\ log' = [log EXCEPT ![r.id] = r.state]

Save(c) ==
  /\ Valid(c)
  /\ CompareAndSet(c)
  /\ held' = [held EXCEPT ![c] = Root(@.id, @.state, <<>>, FALSE)]

SaveFails(c) ==
  /\ Valid(c)
  /\ CompareAndSet(c) \/ UNCHANGED log
  /\ \E rest \in {<<>>, held[c].recorded} :
       held' = [held EXCEPT ![c] = Root(@.id, @.state, rest, TRUE)]

Drop(c) ==
  /\ held[c] # Nothing
  /\ held' = [held EXCEPT ![c] = Nothing]
  /\ UNCHANGED log

(***************************************************************************)
(* Others may write to the storage too.                                    *)
(***************************************************************************)
Others(id, batch) ==
  /\ log' = [log EXCEPT ![id] = @ \o batch]
  /\ UNCHANGED held

Next ==
  \/ \E c \in Clients :
       \/ \E id \in StreamIDs : Create(c, id) \/ Get(c, id)
       \/ \E batch \in Batches : Record(c, batch)
       \/ Save(c)
       \/ SaveFails(c)
       \/ Drop(c)
  \/ \E id \in StreamIDs, batch \in Batches : Others(id, batch)

Spec == Init /\ [][Next]_vars

=============================================================================
