------------------------------ MODULE TodoList ------------------------------
(***************************************************************************)
(* The TodoList aggregate of examples/todolist and the service around it,  *)
(* wired as main.go does: Connect handlers on concurrent requests, command *)
(* handlers (Get, a method of the aggregate, Save), one event-sourced      *)
(* repository over one Event Store, whose Stream and Append are atomic.    *)
(*                                                                         *)
(* Of the events only what Apply distinguishes is kept: kind and item id.  *)
(***************************************************************************)
EXTENDS Naturals, SequencesExt

CONSTANTS
  Requests,   \* the goroutines that serve requests
  Items,      \* item ids that clients generate
  NoItem,     \* in place of an item id, in requests without one
  MaxVersion  \* bound: events of the list

ASSUME TodoListAssumption == NoItem \notin Items /\ MaxVersion \in Nat

VARIABLES
  stream,  \* the Event Stream of the list
  pc,      \* pc[r]: where the handler of r is
  req,     \* req[r]: the request being served
  loaded,  \* loaded[r]: the version of the root the handler has
  code     \* code[r]: the Connect code of the response

listVars == <<stream, pc, req, loaded, code>>

ItemOps == {"add", "done", "pending", "delete"}

(***************************************************************************)
(* A request's fields are fine, or are not UUIDs ("malformed"), or are the *)
(* nil UUID or an empty title ("empty").                                   *)
(***************************************************************************)
Inputs == {"fine", "malformed", "empty"}

Incoming ==
  [op : {"create", "get"}, item : {NoItem}, input : Inputs]
    \cup [op : ItemOps, item : Items, input : Inputs]

NoRequest == [op |-> "none"]

Codes == {"none", "ok", "invalid argument", "already exists", "not found",
          "internal"}

-----------------------------------------------------------------------------
(***************************************************************************)
(* The aggregate.                                                          *)
(***************************************************************************)
DomainEvents ==
  [kind : {"create"}, item : {NoItem}] \cup [kind : ItemOps, item : Items]

Has(list, id) == \E k \in DOMAIN list.items : list.items[k].id = id

ItemApply(item, evt) ==
  CASE evt.kind = "add"     -> [id |-> evt.item, completed |-> FALSE]
    [] evt.kind = "done"    -> [item EXCEPT !.completed = TRUE]
    [] evt.kind = "pending" -> [item EXCEPT !.completed = FALSE]

itemByID(list, id) ==
  Min({k \in DOMAIN list.items : list.items[k].id = id})

applyItemEvent(list, evt) ==
  LET k == itemByID(list, evt.item)
  IN  IF Has(list, evt.item)
      THEN [list EXCEPT !.items = [@ EXCEPT ![k] = ItemApply(list.items[k], evt)]]
      ELSE [list EXCEPT !.error = TRUE]

Without(items, id) ==
  LET kept[k \in 0 .. Len(items)] ==
        IF k = 0 THEN <<>>
        ELSE IF items[k].id = id
             THEN kept[k - 1]
             ELSE Append(kept[k - 1], items[k])
  IN  kept[Len(items)]

Apply(list, evt) ==
  CASE evt.kind = "create" -> list
    [] evt.kind = "add"    ->
         [list EXCEPT !.items = Append(@, ItemApply(NoItem, evt))]
    [] evt.kind \in {"done", "pending"} -> applyItemEvent(list, evt)
    [] evt.kind = "delete" ->
         [list EXCEPT !.items = Without(@, evt.item)]

(***************************************************************************)
(* RehydrateFromEvents: error says that Apply failed on the way.           *)
(***************************************************************************)
NewList == [items |-> <<>>, error |-> FALSE]

Rehydrate(events) ==
  LET root[k \in 0 .. Len(events)] ==
        IF k = 0 THEN NewList ELSE Apply(root[k - 1], events[k])
  IN  root[Len(events)]

(***************************************************************************)
(* The methods of TodoList, as the code they fail with, or "ok" when they  *)
(* record the event Recorded.  AddItem looks for the id after it has       *)
(* checked its arguments, and recordItemEvent likewise.                    *)
(***************************************************************************)
Recorded(request) ==
  [kind |-> request.op,
   item |-> IF request.input = "empty" THEN NoItem ELSE request.item]

Method_NoDuplicateCheck(list, request) ==
  CASE request.input = "empty" -> "invalid argument"
    [] request.input # "empty" /\ request.op \in {"create", "add"} -> "ok"
    [] OTHER -> IF Has(list, request.item) THEN "ok" ELSE "not found"

CreateList(request) == IF request.input = "empty" THEN "invalid argument" ELSE "ok"

AddItem(list, request) ==
  IF request.input = "empty"
  THEN "invalid argument"
  ELSE IF Has(list, request.item) THEN "already exists" ELSE "ok"

recordItemEvent(list, request) ==
  IF request.input = "empty"
  THEN "invalid argument"
  ELSE IF Has(list, request.item) THEN "ok" ELSE "not found"

Method(list, request) ==
  CASE request.op = "create" -> CreateList(request)
    [] request.op = "add"    -> AddItem(list, request)
    [] OTHER                 -> recordItemEvent(list, request)

-----------------------------------------------------------------------------

ListInit ==
  /\ stream = <<>>
  /\ pc = [r \in Requests |-> "idle"]
  /\ req = [r \in Requests |-> NoRequest]
  /\ loaded = [r \in Requests |-> 0]
  /\ code = [r \in Requests |-> "none"]

Respond(r, c) ==
  /\ code' = [code EXCEPT ![r] = c]
  /\ req' = [req EXCEPT ![r] = NoRequest]
  /\ loaded' = [loaded EXCEPT ![r] = 0]
  /\ pc' = [pc EXCEPT ![r] = "answered"]

(***************************************************************************)
(* Commands are served while they cannot exceed the bound on the stream.   *)
(***************************************************************************)
Fits ==
  LET serving == {r \in Requests : pc[r] \in {"get", "method", "save"}}
  IN  Len(stream) + Cardinality(serving) < MaxVersion

Receive(r, request) ==
  /\ pc[r] \in {"idle", "answered"}
  /\ Fits \/ request.op = "get"
  /\ req' = [req EXCEPT ![r] = request]
  /\ pc' = [pc EXCEPT ![r] = IF request.op = "create" THEN "method" ELSE "get"]
  /\ code' = [code EXCEPT ![r] = "none"]
  /\ UNCHANGED <<stream, loaded>>

(***************************************************************************)
(* Any request may come next: also one that was served before, because its *)
(* response did not reach the client.                                      *)
(***************************************************************************)
Send(r) == \E request \in Incoming : Receive(r, request)

Parse(r) ==
  /\ pc[r] \in {"get", "method"}
  /\ req[r].input = "malformed"
  /\ Respond(r, "invalid argument")
  /\ UNCHANGED stream

(***************************************************************************)
(* Repository.Get, which the Get query makes only with a non-empty id.  It *)
(* fails if the list has no events, or on one of them: the context of the  *)
(* request is done, or Apply returns an error.                             *)
(***************************************************************************)
EmptyQuery(r) == req[r].op = "get" /\ req[r].input = "empty"

GetFails(r) ==
  /\ pc[r] = "get"
  /\ req[r].input # "malformed"
  /\ \/ EmptyQuery(r) /\ Respond(r, "invalid argument")
     \/ ~ EmptyQuery(r) /\ stream = <<>> /\ Respond(r, "not found")
     \/ ~ EmptyQuery(r) /\ stream # <<>> /\ Respond(r, "internal")
  /\ UNCHANGED stream

GetLoads(r) ==
  /\ pc[r] = "get"
  /\ req[r].input # "malformed"
  /\ ~ EmptyQuery(r)
  /\ stream # <<>>
  /\ ~ Rehydrate(stream).error
  /\ IF req[r].op = "get"
     THEN Respond(r, "ok")
     ELSE /\ loaded' = [loaded EXCEPT ![r] = Len(stream)]
          /\ pc' = [pc EXCEPT ![r] = "method"]
          /\ UNCHANGED <<code, req>>
  /\ UNCHANGED stream

(***************************************************************************)
(* The method runs on the root as it was loaded.                           *)
(***************************************************************************)
CallMethod(r) ==
  LET outcome == Method(Rehydrate(SubSeq(stream, 1, loaded[r])), req[r])
  IN  /\ pc[r] = "method"
      /\ req[r].input # "malformed"
      /\ IF outcome = "ok"
         THEN pc' = [pc EXCEPT ![r] = "save"] /\ UNCHANGED <<code, loaded, req>>
         ELSE Respond(r, outcome)
      /\ UNCHANGED stream

(***************************************************************************)
(* Save: version.CheckExact of the version the root was loaded at.         *)
(* mapCommandError has no case for a conflict, which is thus internal.     *)
(***************************************************************************)
Unchanged_Unchecked(r) == TRUE

Unchanged(r) == Len(stream) = loaded[r]

SaveCommits(r) ==
  /\ pc[r] = "save"
  /\ Unchanged(r)
  /\ stream' = Append(stream, Recorded(req[r]))
  /\ Respond(r, "ok")

SaveConflicts_SavesAgain(r) ==
  /\ pc[r] = "save"
  /\ ~ Unchanged(r)
  /\ UNCHANGED listVars

SaveConflicts(r) ==
  /\ pc[r] = "save"
  /\ ~ Unchanged(r)
  /\ Respond(r, "internal")
  /\ UNCHANGED stream

(***************************************************************************)
(* The handlers, as the steps each of them takes.  A new list is created   *)
(* without a look into the repository.                                     *)
(***************************************************************************)
Save(r) == SaveCommits(r) \/ SaveConflicts(r)

GetMethodSave(r) == GetFails(r) \/ GetLoads(r) \/ CallMethod(r) \/ Save(r)

CreateCommandHandler(r) == req[r].op = "create" /\ (CallMethod(r) \/ Save(r))

AddItemCommandHandler(r) == req[r].op = "add" /\ GetMethodSave(r)

MarkItemAsDoneCommandHandler(r) == req[r].op = "done" /\ GetMethodSave(r)

MarkItemAsPendingCommandHandler(r) == req[r].op = "pending" /\ GetMethodSave(r)

DeleteItemCommandHandler(r) == req[r].op = "delete" /\ GetMethodSave(r)

GetQueryHandler(r) == req[r].op = "get" /\ (GetFails(r) \/ GetLoads(r))

Step(r) ==
  \/ Parse(r)
  \/ CreateCommandHandler(r)
  \/ AddItemCommandHandler(r)
  \/ MarkItemAsDoneCommandHandler(r)
  \/ MarkItemAsPendingCommandHandler(r)
  \/ DeleteItemCommandHandler(r)
  \/ GetQueryHandler(r)

-----------------------------------------------------------------------------

(***************************************************************************)
(* The type invariant.  An event in the stream always names an item that a *)
(* client generated: empty ids never get that far.                         *)
(***************************************************************************)
ListTypeOK ==
  /\ stream \in Seq(DomainEvents)
  /\ Len(stream) <= MaxVersion
  /\ pc \in [Requests -> {"idle", "get", "method", "save", "answered"}]
  /\ req \in [Requests -> Incoming \cup {NoRequest}]
  /\ loaded \in [Requests -> 0 .. MaxVersion]
  /\ code \in [Requests -> Codes]

(***************************************************************************)
(* No interleaving of requests writes a stream that Apply rejects (an item *)
(* marked after it was deleted): such a list could never be loaded again,  *)
(* by any handler.                                                         *)
(***************************************************************************)
ListStaysLoadable == ~ Rehydrate(stream).error

(***************************************************************************)
(* "if the specified id is already being used by another Todo item, the    *)
(* method will return ErrItemAlreadyExists": two items never share an id,  *)
(* nor is a list created on top of another.                                *)
(***************************************************************************)
ItemsAreDistinct ==
  /\ IsInjective([k \in DOMAIN Rehydrate(stream).items |->
                    Rehydrate(stream).items[k].id])
  /\ \A k \in DOMAIN stream : stream[k].kind = "create" <=> k = 1

(***************************************************************************)
(* A command that is answered with success was valid when it took effect,  *)
(* not only when its handler looked: run on the very list it is appended   *)
(* to, its method succeeds.                                                *)
(***************************************************************************)
SuccessIsCurrent ==
  [][\A r \in Requests :
       pc[r] = "save" /\ code'[r] = "ok" =>
         Method(Rehydrate(stream), req[r]) = "ok"]_listVars

=============================================================================
