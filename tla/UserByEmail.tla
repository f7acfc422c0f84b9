----------------------------- MODULE UserByEmail -----------------------------
(***************************************************************************)
(* user.GetByEmailHandler (internal/user/user_by_email.go), the stateful   *)
(* query handler: Process folds the events of the User aggregate           *)
(* (internal/user/aggregate.go) into a view of users indexed by email.     *)
(*                                                                         *)
(* Process holds the handler's mutex from its first to its last statement  *)
(* and Handle its read lock, so each is one step: a query is answered from *)
(* the map data as it is between two events.  What feeds Process is not in *)
(* the repository but for query.Scenario: the feed delivers the events of  *)
(* all users in the order they were appended, and may go back and deliver  *)
(* them again, as a feed does that resumes from a checkpoint.              *)
(***************************************************************************)
EXTENDS Naturals, Sequences, FiniteSetsExt

CONSTANTS
  Users,
  Emails,
  MaxEvents   \* bound: events of all users together

VARIABLES
  log,        \* the users' events, in the order they were appended
  next,       \* the position in log that the feed delivers next
  from,       \* the position the feed last started or went back to
  processed,  \* how much of log has been processed at least once
  data,       \* the map from email to View
  idToEmail   \* the map from id to email

vars == <<log, next, from, processed, data, idToEmail>>

UserEvents ==
  [id : Users, version : Nat \ {0},
   kind : {"WasCreated", "EmailWasUpdated"}, email : Emails]

Views == [id : Users, email : Emails, version : Nat \ {0}]

(***************************************************************************)
(* A Go map is a function on its keys; this is an assignment to an entry.  *)
(***************************************************************************)
Put(map, key, value) ==
  [k \in DOMAIN map \cup {key} |-> IF k = key THEN value ELSE map[k]]

Init ==
  /\ log = <<>>
  /\ next = 1
  /\ from = 1
  /\ processed = 0
  /\ data = <<>>
  /\ idToEmail = <<>>

(***************************************************************************)
(* A user after the first n events of the log: whether it has been         *)
(* created, its version and its email.                                     *)
(***************************************************************************)
EventsOf(id, n) == {k \in 1 .. n : log[k].id = id}

Exists(id, n) == EventsOf(id, n) # {}

VersionOf(id, n) == Cardinality(EventsOf(id, n))

EmailOf(id, n) == log[Max(EventsOf(id, n))].email

(***************************************************************************)
(* User.Create and User.UpdateEmail, and the Save of the user.  Neither    *)
(* looks at other users: any email will do.                                *)
(***************************************************************************)
SaveEvent(id, kind, email) ==
  /\ Len(log) < MaxEvents
  /\ log' = Append(log, [id |-> id, version |-> VersionOf(id, Len(log)) + 1,
                         kind |-> kind, email |-> email])
  /\ UNCHANGED <<next, from, processed, data, idToEmail>>

Create(id, email) ==
  /\ ~ Exists(id, Len(log))
  /\ SaveEvent(id, "WasCreated", email)

UpdateEmail(id, email) ==
  /\ Exists(id, Len(log))
  /\ SaveEvent(id, "EmailWasUpdated", email)

-----------------------------------------------------------------------------

(***************************************************************************)
(* The feed hands the next event to Process, or goes back.                 *)
(***************************************************************************)
Deliver ==
  /\ next <= Len(log)
  /\ next' = next + 1
  /\ processed' = Max({processed, next})
  /\ UNCHANGED <<log, from>>

GoBack(n) ==
  /\ n < next
  /\ next' = n
  /\ from' = n
  /\ UNCHANGED <<log, processed, data, idToEmail>>

NewView(evt) == [id |-> evt.id, email |-> evt.email, version |-> evt.version]

ProcessWasCreated ==
  LET evt == log[next]
  IN  /\ Deliver
      /\ evt.kind = "WasCreated"
      /\ idToEmail' = Put(idToEmail, evt.id, evt.email)
      /\ data' = Put(data, evt.email, NewView(evt))

(***************************************************************************)
(* The view that is stored under the new email keeps its version, and the  *)
(* old email keeps its view.  Nothing changes if the view is not found (an *)
(* error is returned) or is not older than the event.                      *)
(***************************************************************************)
Found(id) == id \in DOMAIN idToEmail /\ idToEmail[id] \in DOMAIN data

AlreadySeen(evt) == data[idToEmail[evt.id]].version >= evt.version

Move(evt) ==
  /\ idToEmail' = Put(idToEmail, evt.id, evt.email)
  /\ data' = Put(data, evt.email,
                 [data[idToEmail[evt.id]] EXCEPT !.email = evt.email])

ProcessEmailWasUpdated ==
  LET evt == log[next]
  IN  /\ Deliver
      /\ evt.kind = "EmailWasUpdated"
      /\ IF Found(evt.id) /\ ~ AlreadySeen(evt)
         THEN Move(evt)
         ELSE UNCHANGED <<data, idToEmail>>

Next ==
  \/ \E id \in Users, email \in Emails : Create(id, email)
  \/ \E id \in Users, email \in Emails : UpdateEmail(id, email)
  \/ ProcessWasCreated
  \/ ProcessEmailWasUpdated
  \/ \E n \in 1 .. next : GoBack(n)

Spec == Init /\ [][Next]_vars

-----------------------------------------------------------------------------

(***************************************************************************)
(* The type invariant.  A View carries the version of the event that       *)
(* created it, which is never 0.                                           *)
(***************************************************************************)
TypeOK ==
  /\ log \in Seq(UserEvents)
  /\ next \in 1 .. (Len(log) + 1)
  /\ from \in 1 .. next
  /\ processed \in 0 .. Len(log)
  /\ DOMAIN data \subseteq Emails
  /\ data \in [DOMAIN data -> Views]
  /\ DOMAIN idToEmail \subseteq Users
  /\ idToEmail \in [DOMAIN idToEmail -> Emails]

(***************************************************************************)
(* Process never gets stuck on an event: whatever is delivered, and        *)
(* delivered again, an EmailWasUpdated finds the id registered and the     *)
(* view in place, so that neither of its two errors is ever returned.      *)
(***************************************************************************)
UpdatesFindTheirView ==
  next <= Len(log) /\ log[next].kind = "EmailWasUpdated" =>
    Found(log[next].id)

(***************************************************************************)
(* No two users have had one email at the same time, in the first n        *)
(* events.  Without that, which no User can check, there is no index by    *)
(* email.                                                                  *)
(***************************************************************************)
EmailsAreUnique(n) ==
  \A m \in 1 .. n : \A id1, id2 \in Users :
    Exists(id1, m) /\ Exists(id2, m) /\ EmailOf(id1, m) = EmailOf(id2, m) =>
      id1 = id2

(***************************************************************************)
(* No processed email has ever changed hands.                              *)
(***************************************************************************)
EmailsKeepTheirUser ==
  \A k, m \in 1 .. processed :
    log[k].email = log[m].email => log[k].id = log[m].id

(***************************************************************************)
(* Handle, asked for the email that a user has after the first n events,   *)
(* answers with the View of that user.                                     *)
(***************************************************************************)
UsersAreFound(n) ==
  \A id \in Users :
    LET email == EmailOf(id, n)
    IN  Exists(id, n) =>
          /\ email \in DOMAIN data
          /\ data[email].id = id
          /\ data[email].email = email

(***************************************************************************)
(* What the comments of user_by_email.go say: GetByEmail "can be used to   *)
(* fetch a specific User given its email", and the Version of a View is    *)
(* "used to avoid re-processing of already-processed events".  Once the    *)
(* feed has delivered, and maybe delivered again, all that it has ever     *)
(* reached, a query by the email of a user finds that user.                *)
(*                                                                         *)
(* It does not hold.  The version of a View stays that of the creation of  *)
(* its user, so every event that is delivered again is applied again, and  *)
(* a late event of the former user of an email overwrites the view of the  *)
(* present one, which its own next event then takes for its own.           *)
(***************************************************************************)
QueriesFindTheUser ==
  EmailsAreUnique(processed) /\ next = processed + 1 =>
    UsersAreFound(processed)

(***************************************************************************)
(* A feed that starts from the first event, or starts over from there,     *)
(* builds the index up again whatever Process has left in the maps before: *)
(* at every point users are found by the emails that the events delivered  *)
(* since then give them.                                                   *)
(***************************************************************************)
RebuildIsRight ==
  from = 1 /\ EmailsAreUnique(next - 1) => UsersAreFound(next - 1)

(***************************************************************************)
(* If no email ever changes hands the feed may go back anywhere and as     *)
(* often as it likes: users are found by the latest emails that any        *)
(* delivery has given them, also in the middle of going through the events *)
(* again.                                                                  *)
(***************************************************************************)
RedeliveryIsHarmless == EmailsKeepTheirUser => UsersAreFound(processed)

=============================================================================
