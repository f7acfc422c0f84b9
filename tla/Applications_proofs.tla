-------------------------- MODULE Applications_proofs --------------------------
(***************************************************************************)
(* Proofs about the applications of the library, for any number of users,  *)
(* items and requests and for logs of any length.                          *)
(*                                                                         *)
(* UserByEmail: Process never returns an error; a feed that starts over    *)
(* from the first event builds a right index, whatever it was before; and  *)
(* one that goes back elsewhere does no harm as long as no email changes   *)
(* hands.                                                                  *)
(*                                                                         *)
(* TodoServer: concurrent requests never write a stream that cannot be     *)
(* loaded, success is never told of a stale list, and the process ends     *)
(* gracefully only when every request has its answer.                      *)
(***************************************************************************)
EXTENDS UserByEmail, TodoServer, SequenceTheorems, FiniteSetTheorems,
        WellFoundedInduction, TLAPS

-----------------------------------------------------------------------------
(***************************************************************************)
(* The query handler of users.                                             *)
(***************************************************************************)
(***************************************************************************)
(* The event at k is the last of its user, or the last to name its email,  *)
(* among the first n.                                                      *)
(***************************************************************************)
LastOfUser(k, n) == \A m \in (k + 1) .. n : log[m].id # log[k].id

LastOfEmail(k, n) == \A m \in (k + 1) .. n : log[m].email # log[k].email

(***************************************************************************)
(* EmailsAreUnique in terms of events: two users' last events up to any    *)
(* point do not name one email.                                            *)
(***************************************************************************)
NeverShared(n) ==
  \A m \in 1 .. n : \A j, k \in 1 .. m :
    LastOfUser(j, m) /\ LastOfUser(k, m) /\ log[j].email = log[k].email =>
      log[j].id = log[k].id

(***************************************************************************)
(* What User.Create and User.UpdateEmail append: a WasCreated is the first *)
(* event of its user and has version 1, any other event is neither.        *)
(***************************************************************************)
Histories ==
  \A k \in DOMAIN log :
    \/ /\ log[k].kind = "WasCreated"
       /\ log[k].version = 1
       /\ \A j \in 1 .. (k - 1) : log[j].id # log[k].id
    \/ /\ log[k].kind = "EmailWasUpdated"
       /\ log[k].version > 1
       /\ \E j \in 1 .. (k - 1) : log[j].id = log[k].id

Feed == next <= processed + 1

(***************************************************************************)
(* A View keeps the version of the WasCreated it stems from.               *)
(***************************************************************************)
ViewsAreNew ==
  \A email \in DOMAIN data :
    data[email].version = 1 /\ data[email].email = email

(***************************************************************************)
(* The maps have the keys that the processed events name, and the index    *)
(* only values that they name.                                             *)
(***************************************************************************)
Keys ==
  /\ \A k \in 1 .. processed :
       log[k].id \in DOMAIN idToEmail /\ log[k].email \in DOMAIN data
  /\ \A id \in DOMAIN idToEmail :
       \E k \in 1 .. processed :
         log[k].id = id /\ log[k].email = idToEmail[id]

(***************************************************************************)
(* Since the feed started over from the first event, the index has the     *)
(* last email of each user it has come across, and the view under an email *)
(* is that of the last user it has come across with it.                    *)
(***************************************************************************)
IndexOfPass ==
  from = 1 =>
    \A k \in 1 .. (next - 1) :
      LastOfUser(k, next - 1) => idToEmail[log[k].id] = log[k].email

ViewsOfPass ==
  from = 1 /\ NeverShared(next - 1) =>
    \A k \in 1 .. (next - 1) :
      LastOfEmail(k, next - 1) => data[log[k].email].id = log[k].id

(***************************************************************************)
(* If no email changes hands, former emails lead to their user as well.    *)
(***************************************************************************)
ViewsKept ==
  EmailsKeepTheirUser =>
    \A k \in 1 .. processed : data[log[k].email].id = log[k].id

UserInv ==
  /\ TypeOK
  /\ Histories
  /\ Feed
  /\ ViewsAreNew
  /\ Keys
  /\ IndexOfPass
  /\ ViewsOfPass
  /\ ViewsKept

-----------------------------------------------------------------------------

(***************************************************************************)
(* A bounded set of naturals that is not empty has a maximum: what is the  *)
(* minimum of the distances to the bound.                                  *)
(***************************************************************************)
LEMMA MaxProperties ==
  ASSUME NEW n \in Nat, NEW S \in SUBSET (1 .. n), S # {}
  PROVE  /\ Max(S) \in S
         /\ \A y \in S : y <= Max(S)
<1> DEFINE T == {n - x : x \in S}
           R == {ss \in Nat \X Nat : ss[1] < ss[2]}
<1>1. T \subseteq Nat /\ T # {}
  <2>1. PICK x : x \in S
    OBVIOUS
  <2>2. \A y \in S : n - y \in Nat
    OBVIOUS
  <2>3. n - x \in T
    BY <2>1
  <2> QED BY <2>2, <2>3
<1>2. IsWellFoundedOn(R, Nat)
  BY NatLessThanWellFounded DEF OpToRel
<1>3. \E t \in T : \A y \in T : ~ (<<y, t>> \in R)
  <2> HIDE DEF T, R
  <2> QED BY <1>1, <1>2, WFMin
<1>4. PICK t \in T : \A y \in T : t <= y
  <2>1. PICK t \in T : \A y \in T : ~ (<<y, t>> \in R)
    BY <1>3
  <2>2. ASSUME NEW y \in T PROVE t <= y
    <3>1. <<y, t>> \notin R
      BY <2>1, <2>2
    <3> HIDE DEF T
    <3>2. t \in Nat /\ y \in Nat
      BY <1>1
    <3> QED BY <3>1, <3>2
  <2> QED BY <2>2
<1>5. PICK x \in S : t = n - x
  OBVIOUS
<1>6. \A y \in S : x >= y
  <2> TAKE y \in S
  <2>1. n - y \in T
    OBVIOUS
  <2> QED BY <1>4, <1>5, <2>1
<1>7. Max(S) \in S /\ \A y \in S : Max(S) >= y
  BY <1>6 DEF Max
<1> QED BY <1>7

LEMMA Successor == \A a, b \in Nat : a <= b => a + 1 <= b + 1
  OBVIOUS

LEMMA LengthTypes ==
  ASSUME TypeOK
  PROVE  /\ Len(log) \in Nat /\ DOMAIN log = 1 .. Len(log)
         /\ next \in Nat /\ next >= 1 /\ next <= Len(log) + 1
         /\ processed \in Nat /\ processed <= Len(log)
<1>1. Len(log) \in Nat /\ DOMAIN log = 1 .. Len(log)
  BY LenProperties DEF TypeOK
<1> QED BY <1>1 DEF TypeOK

LEMMA EventTypes ==
  ASSUME TypeOK, NEW k \in 1 .. Len(log)
  PROVE  /\ log[k] \in UserEvents
         /\ log[k].id \in Users
         /\ log[k].email \in Emails
         /\ log[k].version \in Nat \ {0}
<1>1. log[k] \in UserEvents
  BY ElementOfSeq DEF TypeOK
<1> QED BY <1>1 DEF UserEvents

LEMMA ViewTypes ==
  ASSUME TypeOK, NEW email \in DOMAIN data
  PROVE  data[email] \in Views
  BY DEF TypeOK

(***************************************************************************)
(* An assignment to an entry keeps the types of a map.                     *)
(***************************************************************************)
LEMMA PutTypes ==
  ASSUME NEW S, NEW T, NEW map, DOMAIN map \subseteq S,
         map \in [DOMAIN map -> T], NEW key \in S, NEW value \in T
  PROVE  /\ DOMAIN Put(map, key, value) \subseteq S
         /\ Put(map, key, value) \in [DOMAIN Put(map, key, value) -> T]
  BY DEF Put

(***************************************************************************)
(* EmailOf is the email of the last event of the user.                     *)
(***************************************************************************)
LEMMA EmailOfUser ==
  ASSUME TypeOK, NEW n \in 0 .. Len(log), NEW id, Exists(id, n)
  PROVE  \E k \in 1 .. n : /\ log[k].id = id
                           /\ LastOfUser(k, n)
                           /\ EmailOf(id, n) = log[k].email
<1>0. Len(log) \in Nat
  BY LengthTypes
<1>1. EventsOf(id, n) # {}
  BY DEF Exists
<1>2. EventsOf(id, n) \in SUBSET (1 .. n) /\ n \in Nat
  BY <1>0 DEF EventsOf
<1> DEFINE k == Max(EventsOf(id, n))
<1>3. k \in EventsOf(id, n) /\ \A y \in EventsOf(id, n) : y <= k
  BY <1>1, <1>2, MaxProperties
<1>4. EmailOf(id, n) = log[k].email
  BY DEF EmailOf
<1> HIDE DEF k
<1>5. k \in 1 .. n /\ log[k].id = id
  BY <1>3 DEF EventsOf
<1>6. LastOfUser(k, n)
  BY <1>2, <1>3, <1>5 DEF LastOfUser, EventsOf
<1> QED BY <1>4, <1>5, <1>6

LEMMA EmailOfLast ==
  ASSUME TypeOK, NEW n \in 0 .. Len(log), NEW k \in 1 .. n, LastOfUser(k, n)
  PROVE  Exists(log[k].id, n) /\ EmailOf(log[k].id, n) = log[k].email
<1>0. Len(log) \in Nat
  BY LengthTypes
<1>1. Exists(log[k].id, n)
  BY DEF Exists, EventsOf
<1>2. PICK j \in 1 .. n : /\ log[j].id = log[k].id
                          /\ LastOfUser(j, n)
                          /\ EmailOf(log[k].id, n) = log[j].email
  BY <1>1, EmailOfUser
<1>3. j = k
  BY <1>0, <1>2 DEF LastOfUser
<1> QED BY <1>1, <1>2, <1>3

LEMMA UniqueIsDistinct ==
  ASSUME TypeOK, NEW n \in 0 .. Len(log), EmailsAreUnique(n)
  PROVE  NeverShared(n)
<1>0. Len(log) \in Nat
  BY LengthTypes
<1> SUFFICES ASSUME NEW m \in 1 .. n, NEW j \in 1 .. m, NEW k \in 1 .. m,
                    LastOfUser(j, m), LastOfUser(k, m),
                    log[j].email = log[k].email
             PROVE  log[j].id = log[k].id
  BY DEF NeverShared
<1>1. m \in 0 .. Len(log) /\ j \in 1 .. Len(log) /\ k \in 1 .. Len(log)
  BY <1>0
<1>2. log[j].id \in Users /\ log[k].id \in Users
  BY <1>1, EventTypes
<1>3. /\ Exists(log[j].id, m) /\ EmailOf(log[j].id, m) = log[j].email
      /\ Exists(log[k].id, m) /\ EmailOf(log[k].id, m) = log[k].email
  BY <1>1, EmailOfLast
<1> QED BY <1>2, <1>3 DEF EmailsAreUnique

LEMMA VersionBounds ==
  ASSUME TypeOK, NEW id
  PROVE  /\ VersionOf(id, Len(log)) \in Nat
         /\ VersionOf(id, Len(log)) = 0 <=> ~ Exists(id, Len(log))
<1>0. Len(log) \in Nat
  BY LengthTypes
<1> DEFINE S == EventsOf(id, Len(log))
<1>1. S \in SUBSET (1 .. Len(log))
  BY DEF EventsOf
<1>2. IsFiniteSet(1 .. Len(log))
  <2>1. 1 \in Int /\ Len(log) \in Int
    BY <1>0
  <2> QED BY <2>1, FS_Interval
<1>3. Cardinality(S) \in Nat /\ (Cardinality(S) = 0 <=> S = {})
  <2> HIDE DEF S
  <2>1. IsFiniteSet(S)
    BY <1>1, <1>2, FS_Subset
  <2> QED BY <2>1, FS_CardinalityType, FS_EmptySet
<1> QED BY <1>3 DEF VersionOf, Exists

-----------------------------------------------------------------------------

LEMMA InitUserInv == Init => UserInv
<1> SUFFICES ASSUME Init PROVE UserInv
  OBVIOUS
<1>1. Len(log) = 0 /\ DOMAIN log = {} /\ log \in Seq(UserEvents)
  BY EmptySeq DEF Init
<1>2. DOMAIN data = {} /\ DOMAIN idToEmail = {}
  BY EmptySeq DEF Init
<1>3. /\ data \in [DOMAIN data -> Views]
      /\ idToEmail \in [DOMAIN idToEmail -> Emails]
  BY <1>2 DEF Init
<1>4. next = 1 /\ from = 1 /\ processed = 0
  BY DEF Init
<1>5. TypeOK
  BY <1>1, <1>2, <1>3, <1>4 DEF TypeOK
<1>6. Histories /\ Feed
  BY <1>1, <1>4 DEF Histories, Feed
<1>7. ViewsAreNew /\ Keys /\ IndexOfPass /\ ViewsOfPass /\ ViewsKept
  BY <1>2, <1>4 DEF ViewsAreNew, Keys, IndexOfPass, ViewsOfPass, ViewsKept
<1> QED BY <1>5, <1>6, <1>7 DEF UserInv

(***************************************************************************)
(* The email a user has leads to its view, in a pass from the first event. *)
(***************************************************************************)
LEMMA OwnView ==
  ASSUME UserInv, from = 1, NeverShared(next - 1), NEW k \in 1 .. (next - 1),
         LastOfUser(k, next - 1)
  PROVE  data[log[k].email].id = log[k].id
<1> DEFINE n == next - 1
<1>0. n \in Nat /\ k \in 1 .. n /\ ViewsOfPass
  BY LengthTypes DEF UserInv
<1> DEFINE S == {m \in 1 .. n : log[m].email = log[k].email}
<1>1. k \in S /\ S \in SUBSET (1 .. n) /\ S # {}
  OBVIOUS
<1>2. PICK j \in S : \A y \in S : y <= j
  <2> HIDE DEF n, S
  <2> QED BY <1>0, <1>1, MaxProperties
<1>3. j \in 1 .. n /\ log[j].email = log[k].email /\ k <= j
  BY <1>1, <1>2
<1>4. LastOfEmail(j, n)
  BY <1>0, <1>2, <1>3 DEF LastOfEmail
<1>5. data[log[k].email].id = log[j].id
  BY <1>3, <1>4 DEF UserInv, ViewsOfPass
<1> HIDE DEF S, n
<1>6. LastOfUser(j, j) /\ LastOfUser(k, j) /\ k \in 1 .. j /\ j \in 1 .. j
  <2>1. LastOfUser(k, n)
    BY DEF n
  <2> QED BY <1>0, <1>3, <2>1 DEF LastOfUser
<1>7. NeverShared(n)
  BY DEF n
<1>8. log[j].id = log[k].id
  BY <1>3, <1>6, <1>7 DEF NeverShared
<1> QED BY <1>5, <1>8

(***************************************************************************)
(* Neither of the two errors, and never the check on the version.          *)
(***************************************************************************)
LEMMA UpdateMoves ==
  ASSUME UserInv, next <= Len(log), log[next].kind = "EmailWasUpdated"
  PROVE  Found(log[next].id) /\ ~ AlreadySeen(log[next])
<1>0. /\ TypeOK /\ Histories /\ Feed /\ Keys /\ ViewsAreNew
      /\ Len(log) \in Nat /\ DOMAIN log = 1 .. Len(log)
      /\ next \in Nat /\ next >= 1 /\ processed \in Nat
      /\ processed <= Len(log)
  BY LengthTypes DEF UserInv
<1>1. next \in 1 .. Len(log)
  BY <1>0
<1> DEFINE evt == log[next]
<1>2. evt.id \in Users /\ evt.version \in Nat
  BY <1>0, <1>1, EventTypes
<1>3. evt.version > 1 /\ \E j \in 1 .. (next - 1) : log[j].id = evt.id
  BY <1>0, <1>1 DEF Histories
<1>4. PICK j \in 1 .. processed : log[j].id = evt.id
  BY <1>0, <1>3 DEF Feed
<1>5. evt.id \in DOMAIN idToEmail
  BY <1>0, <1>4 DEF Keys
<1>6. PICK k \in 1 .. processed :
        log[k].id = evt.id /\ log[k].email = idToEmail[evt.id]
  BY <1>0, <1>5 DEF Keys
<1>7. idToEmail[evt.id] \in DOMAIN data
  BY <1>0, <1>6 DEF Keys
<1>8. data[idToEmail[evt.id]].version = 1
  BY <1>0, <1>7 DEF ViewsAreNew
<1> QED BY <1>2, <1>3, <1>5, <1>7, <1>8 DEF Found, AlreadySeen

(***************************************************************************)
(* User.Create and User.UpdateEmail.                                       *)
(***************************************************************************)
LEMMA SaveUserInv ==
  ASSUME UserInv, NEW id \in Users, NEW email \in Emails,
         Create(id, email) \/ UpdateEmail(id, email)
  PROVE  UserInv'
<1>0. /\ TypeOK /\ Histories
      /\ Len(log) \in Nat /\ DOMAIN log = 1 .. Len(log)
      /\ next \in Nat /\ next >= 1 /\ next <= Len(log) + 1
      /\ processed \in Nat /\ processed <= Len(log)
  BY LengthTypes DEF UserInv
<1> DEFINE N   == Len(log)
           ver == VersionOf(id, N) + 1
<1>1. PICK kind \in {"WasCreated", "EmailWasUpdated"} :
        /\ SaveEvent(id, kind, email)
        /\ kind = "WasCreated" => ~ Exists(id, N)
        /\ kind = "EmailWasUpdated" => Exists(id, N)
  BY DEF Create, UpdateEmail
<1> DEFINE evt == [id |-> id, version |-> ver, kind |-> kind, email |-> email]
<1>2. /\ log' = Append(log, evt)
      /\ next' = next /\ processed' = processed /\ from' = from
      /\ data' = data /\ idToEmail' = idToEmail
  BY <1>1 DEF SaveEvent
<1>3. /\ VersionOf(id, N) \in Nat
      /\ VersionOf(id, N) = 0 <=> ~ Exists(id, N)
  BY <1>0, VersionBounds
<1>4. ver \in Nat \ {0}
  BY <1>3
<1>5. evt \in UserEvents
  BY <1>4 DEF UserEvents
<1>6. /\ log' \in Seq(UserEvents)
      /\ Len(log') = N + 1 /\ DOMAIN log' = 1 .. (N + 1)
      /\ log'[N + 1] = evt
      /\ \A k \in 1 .. N : log'[k] = log[k]
  <2> HIDE DEF evt
  <2>1. log \in Seq(UserEvents)
    BY <1>0 DEF TypeOK
  <2> QED BY <1>0, <1>2, <1>5, <2>1, AppendProperties, LenProperties
<1>7. /\ evt.id = id /\ evt.version = ver /\ evt.kind = kind
      /\ evt.email = email
  OBVIOUS
<1> HIDE DEF evt
<1>8. TypeOK'
  <2>1. next' \in 1 .. (Len(log') + 1) /\ processed' \in 0 .. Len(log')
    BY <1>0, <1>2, <1>6
  <2>2. from' \in 1 .. next'
    BY <1>0, <1>2 DEF TypeOK
  <2>3. /\ DOMAIN data' \subseteq Emails
        /\ data' \in [DOMAIN data' -> Views]
        /\ DOMAIN idToEmail' \subseteq Users
        /\ idToEmail' \in [DOMAIN idToEmail' -> Emails]
    BY <1>0, <1>2 DEF TypeOK
  <2> QED BY <1>6, <2>1, <2>2, <2>3 DEF TypeOK
<1>9. kind = "WasCreated" => \A k \in 1 .. N : log[k].id # id
  BY <1>1 DEF Exists, EventsOf
<1>10. kind = "EmailWasUpdated" => \E k \in 1 .. N : log[k].id = id
  BY <1>1 DEF Exists, EventsOf
<1>11. Histories'
  <2> SUFFICES ASSUME NEW k \in 1 .. (N + 1)
               PROVE  \/ /\ log'[k].kind = "WasCreated"
                         /\ log'[k].version = 1
                         /\ \A j \in 1 .. (k - 1) : log'[j].id # log'[k].id
                      \/ /\ log'[k].kind = "EmailWasUpdated"
                         /\ log'[k].version > 1
                         /\ \E j \in 1 .. (k - 1) : log'[j].id = log'[k].id
    BY <1>6 DEF Histories
  <2> HIDE DEF ver
  <2>1. CASE k \in 1 .. N
    <3>1. \A j \in 1 .. (k - 1) : log'[j] = log[j]
      BY <1>0, <1>6, <2>1
    <3> QED BY <1>0, <1>6, <2>1, <3>1 DEF Histories
  <2>2. CASE k = N + 1
    <3>1. 1 .. (k - 1) = 1 .. N
      BY <1>0, <2>2
    <3>2. kind = "WasCreated" => ver = 1
      BY <1>1, <1>3 DEF ver
    <3>3. kind = "EmailWasUpdated" => ver > 1
      BY <1>1, <1>3 DEF ver
    <3> QED BY <1>6, <1>7, <1>9, <1>10, <2>2, <3>1, <3>2, <3>3
  <2> QED BY <1>0, <2>1, <2>2
<1>12. Feed' /\ ViewsAreNew'
  BY <1>2 DEF UserInv, Feed, ViewsAreNew
<1>13. \A k \in 1 .. processed : log'[k] = log[k]
  BY <1>0, <1>6
<1>14. Keys'
  <2>0. /\ Keys
        /\ processed' = processed /\ data' = data /\ idToEmail' = idToEmail
    BY <1>2 DEF UserInv
  <2>1. ASSUME NEW k \in 1 .. processed
        PROVE  log'[k].id \in DOMAIN idToEmail /\ log'[k].email \in DOMAIN data
    BY <1>13, <2>0 DEF Keys
  <2>2. ASSUME NEW u \in DOMAIN idToEmail
        PROVE  \E k \in 1 .. processed :
                 log'[k].id = u /\ log'[k].email = idToEmail[u]
    <3>1. PICK k \in 1 .. processed :
            log[k].id = u /\ log[k].email = idToEmail[u]
      BY <2>0, <2>2 DEF Keys
    <3> QED BY <1>13, <3>1
  <2> QED BY <2>0, <2>1, <2>2 DEF Keys
<1>15. ASSUME NEW n \in 0 .. N, NEW k \in 1 .. n
       PROVE  /\ log'[k] = log[k]
              /\ LastOfUser(k, n)' <=> LastOfUser(k, n)
              /\ LastOfEmail(k, n)' <=> LastOfEmail(k, n)
  <2>1. \A m \in k .. n : m \in 1 .. N
    BY <1>0
  <2>2. k \in k .. n /\ \A m \in (k + 1) .. n : m \in k .. n
    BY <1>0
  <2> QED BY <1>6, <2>1, <2>2 DEF LastOfUser, LastOfEmail
<1>16. next - 1 \in 0 .. N /\ (next - 1)' = next - 1
  BY <1>0, <1>2
<1>17. IndexOfPass'
  BY <1>2, <1>15, <1>16 DEF UserInv, IndexOfPass
<1>18. NeverShared(next - 1)' => NeverShared(next - 1)
  <2> SUFFICES ASSUME NeverShared(next - 1)', NEW m \in 1 .. (next - 1),
                      NEW j \in 1 .. m, NEW k \in 1 .. m,
                      LastOfUser(j, m), LastOfUser(k, m),
                      log[j].email = log[k].email
               PROVE  log[j].id = log[k].id
    BY DEF NeverShared
  <2>1. m \in 0 .. N
    BY <1>0
  <2>2. /\ LastOfUser(j, m)' /\ LastOfUser(k, m)'
        /\ log'[j] = log[j] /\ log'[k] = log[k]
    BY <1>15, <2>1
  <2> QED BY <1>16, <2>2 DEF NeverShared
<1>19. ViewsOfPass'
  BY <1>2, <1>15, <1>16, <1>18 DEF UserInv, ViewsOfPass
<1>20. ViewsKept'
  <2>1. processed' = processed /\ data' = data
    BY <1>2
  <2> QED BY <1>13, <2>1 DEF UserInv, ViewsKept, EmailsKeepTheirUser
<1> QED BY <1>8, <1>11, <1>12, <1>14, <1>17, <1>19, <1>20 DEF UserInv

(***************************************************************************)
(* The feed goes back.  To the first event: nothing is said of the pass    *)
(* that begins.  Elsewhere: it is not a pass from the first event.         *)
(***************************************************************************)
LEMMA GoBackUserInv ==
  ASSUME UserInv, NEW n \in 1 .. next, GoBack(n)
  PROVE  UserInv'
<1>0. /\ n < next /\ next' = n /\ from' = n
      /\ log' = log /\ processed' = processed
      /\ data' = data /\ idToEmail' = idToEmail
  BY DEF GoBack
<1>1. /\ TypeOK /\ Len(log) \in Nat /\ next \in Nat /\ next <= Len(log) + 1
      /\ processed \in Nat /\ n \in Nat /\ n >= 1
  BY LengthTypes DEF UserInv
<1>2. TypeOK'
  <2>1. next' \in 1 .. (Len(log) + 1) /\ from' \in 1 .. next'
    BY <1>0, <1>1
  <2> QED BY <1>0, <1>1, <2>1 DEF TypeOK
<1>3. Histories'
  BY <1>0 DEF UserInv, Histories
<1>4. Feed'
  BY <1>0, <1>1 DEF UserInv, Feed
<1>5. ViewsAreNew' /\ Keys'
  BY <1>0 DEF UserInv, ViewsAreNew, Keys
<1>6. from' = 1 => 1 .. (next' - 1) = {}
  BY <1>0
<1>7. IndexOfPass' /\ ViewsOfPass'
  BY <1>6 DEF IndexOfPass, ViewsOfPass
<1>8. ViewsKept'
  BY <1>0 DEF UserInv, ViewsKept, EmailsKeepTheirUser
<1> QED BY <1>2, <1>3, <1>4, <1>5, <1>7, <1>8 DEF UserInv

(***************************************************************************)
(* What both cases of Process do: they put a view under the email that the *)
(* event names, and index it there.                                        *)
(***************************************************************************)
LEMMA ProcessUserInv ==
  ASSUME UserInv, Deliver, NEW view \in Views,
         view.version = 1, view.email = log[next].email,
         from = 1 /\ NeverShared(next - 1) => view.id = log[next].id,
         EmailsKeepTheirUser' => view.id = log[next].id,
         idToEmail' = Put(idToEmail, log[next].id, log[next].email),
         data' = Put(data, log[next].email, view)
  PROVE  UserInv'
<1>0. /\ TypeOK /\ Histories /\ Feed /\ ViewsAreNew /\ Keys
      /\ IndexOfPass /\ ViewsOfPass /\ ViewsKept
  BY DEF UserInv
<1>1. /\ Len(log) \in Nat /\ next \in Nat /\ next >= 1 /\ next <= Len(log)
      /\ processed \in Nat /\ processed <= Len(log)
      /\ next <= processed + 1
  BY <1>0, LengthTypes DEF Deliver, Feed
<1>2. log' = log /\ next' = next + 1 /\ from' = from
  BY DEF Deliver
<1>3. /\ processed' \in Nat /\ processed <= processed'
      /\ next <= processed' /\ processed' <= Len(log)
      /\ \A k \in 1 .. processed' : k \in 1 .. processed \/ k = next
  <2> DEFINE S == {processed, next}
  <2>1. processed' = Max(S)
    BY DEF Deliver
  <2>2. Max(S) \in S /\ \A y \in S : Max(S) >= y
    <3>1. \E x \in S : \A y \in S : x >= y
      BY <1>1
    <3> QED BY <3>1 DEF Max
  <2>3. processed' \in {processed, next}
        /\ processed' >= processed /\ processed' >= next
    BY <2>1, <2>2
  <2> QED BY <1>1, <2>3
<1> DEFINE evt == log[next]
<1>4. next \in 1 .. Len(log)
  BY <1>1
<1>5. evt.id \in Users /\ evt.email \in Emails
  BY <1>0, <1>4, EventTypes
<1>6. /\ DOMAIN idToEmail' = DOMAIN idToEmail \cup {evt.id}
      /\ idToEmail'[evt.id] = evt.email
      /\ \A id \in DOMAIN idToEmail :
           id # evt.id => idToEmail'[id] = idToEmail[id]
  BY DEF Put
<1>7. /\ DOMAIN data' = DOMAIN data \cup {evt.email}
      /\ data'[evt.email] = view
      /\ \A email \in DOMAIN data :
           email # evt.email => data'[email] = data[email]
  BY DEF Put
<1>8. 1 .. processed \subseteq 1 .. processed' /\ next \in 1 .. processed'
  BY <1>1, <1>3
<1>9. TypeOK'
  <2>1. next' \in 1 .. (Len(log) + 1) /\ processed' \in 0 .. Len(log)
    BY <1>1, <1>2, <1>3
  <2>2. from' \in 1 .. next'
    BY <1>0, <1>1, <1>2 DEF TypeOK
  <2>3. DOMAIN data' \subseteq Emails /\ data' \in [DOMAIN data' -> Views]
    BY <1>0, <1>5, PutTypes DEF TypeOK
  <2>4. /\ DOMAIN idToEmail' \subseteq Users
        /\ idToEmail' \in [DOMAIN idToEmail' -> Emails]
    BY <1>0, <1>5, PutTypes DEF TypeOK
  <2> QED BY <1>0, <1>2, <2>1, <2>2, <2>3, <2>4 DEF TypeOK
<1>10. Histories'
  BY <1>0, <1>2 DEF Histories
<1>11. Feed'
  <2>0. /\ next' = next + 1 /\ next <= processed'
        /\ next \in Nat /\ processed' \in Nat
    BY <1>1, <1>2, <1>3
  <2> QED BY <2>0, Successor DEF Feed
<1>12. ViewsAreNew'
  BY <1>0, <1>7 DEF ViewsAreNew
<1>13. Keys'
  <2>1. ASSUME NEW k \in 1 .. processed'
        PROVE  log[k].id \in DOMAIN idToEmail' /\ log[k].email \in DOMAIN data'
    <3>1. k = next \/ (log[k].id \in DOMAIN idToEmail
                       /\ log[k].email \in DOMAIN data)
      BY <1>0, <1>3 DEF Keys
    <3> QED BY <1>6, <1>7, <3>1
  <2>2. ASSUME NEW id \in DOMAIN idToEmail'
        PROVE  \E k \in 1 .. processed' :
                 log[k].id = id /\ log[k].email = idToEmail'[id]
    <3>1. CASE id = evt.id
      BY <1>6, <1>8, <3>1
    <3>2. CASE id # evt.id
      <4>0. id \in DOMAIN idToEmail
        BY <1>6, <3>2
      <4>1. PICK k \in 1 .. processed :
              log[k].id = id /\ log[k].email = idToEmail[id]
        BY <1>0, <4>0 DEF Keys
      <4> QED BY <1>6, <1>8, <3>2, <4>0, <4>1
    <3> QED BY <3>1, <3>2
  <2> QED BY <1>2, <2>1, <2>2 DEF Keys
<1>14. next' - 1 = next /\ \A k \in 1 .. next : k \in 1 .. (next - 1) \/ k = next
  BY <1>1, <1>2
<1>15. \A k \in 1 .. (next - 1) :
         log[k].id \in DOMAIN idToEmail /\ log[k].email \in DOMAIN data
  BY <1>0, <1>1 DEF Keys
<1>16. IndexOfPass'
  <2> SUFFICES ASSUME from = 1, NEW k \in 1 .. next,
                      \A m \in (k + 1) .. next : log[m].id # log[k].id
               PROVE  idToEmail'[log[k].id] = log[k].email
    BY <1>2, <1>14 DEF IndexOfPass, LastOfUser
  <2>1. CASE k = next
    BY <1>6, <2>1
  <2>2. CASE k # next
    <3>1. k \in 1 .. (next - 1) /\ next \in (k + 1) .. next
      BY <1>1, <2>2
    <3>2. log[k].id # evt.id /\ log[k].id \in DOMAIN idToEmail
      BY <1>15, <3>1
    <3>3. LastOfUser(k, next - 1)
      BY <1>1, <3>1 DEF LastOfUser
    <3> QED BY <1>0, <1>6, <3>1, <3>2, <3>3 DEF IndexOfPass
  <2> QED BY <2>1, <2>2
<1>17. NeverShared(next - 1)' => NeverShared(next - 1)
  <2>1. NeverShared(next - 1)' => NeverShared(next)
    BY <1>2, <1>14 DEF NeverShared, LastOfUser
  <2>2. NeverShared(next) => NeverShared(next - 1)
    <3>1. \A m \in 1 .. (next - 1) : m \in 1 .. next
      BY <1>1
    <3> QED BY <3>1 DEF NeverShared
  <2> QED BY <2>1, <2>2
<1>18. ViewsOfPass'
  <2> SUFFICES ASSUME from = 1, NeverShared(next - 1), NEW k \in 1 .. next,
                      \A m \in (k + 1) .. next : log[m].email # log[k].email
               PROVE  data'[log[k].email].id = log[k].id
    BY <1>2, <1>14, <1>17 DEF ViewsOfPass, LastOfEmail
  <2>1. CASE k = next
    BY <1>7, <2>1
  <2>2. CASE k # next
    <3>1. k \in 1 .. (next - 1) /\ next \in (k + 1) .. next
      BY <1>1, <2>2
    <3>2. log[k].email # evt.email /\ log[k].email \in DOMAIN data
      BY <1>15, <3>1
    <3>3. LastOfEmail(k, next - 1)
      BY <1>1, <3>1 DEF LastOfEmail
    <3> QED BY <1>0, <1>7, <3>1, <3>2, <3>3 DEF ViewsOfPass
  <2> QED BY <2>1, <2>2
<1>19. ViewsKept'
  <2> SUFFICES ASSUME EmailsKeepTheirUser', NEW k \in 1 .. processed'
               PROVE  data'[log[k].email].id = log[k].id
    BY <1>2 DEF ViewsKept
  <2>1. \A i, m \in 1 .. processed' :
          log[i].email = log[m].email => log[i].id = log[m].id
    BY <1>2 DEF EmailsKeepTheirUser
  <2>2. CASE log[k].email = evt.email
    BY <1>7, <1>8, <2>1, <2>2
  <2>3. CASE log[k].email # evt.email
    <3>1. k \in 1 .. processed
      BY <1>3, <2>3
    <3>2. EmailsKeepTheirUser
      BY <1>8, <2>1 DEF EmailsKeepTheirUser
    <3>3. data[log[k].email].id = log[k].id /\ log[k].email \in DOMAIN data
      BY <1>0, <3>1, <3>2 DEF ViewsKept, Keys
    <3> QED BY <1>7, <2>3, <3>3
  <2> QED BY <2>2, <2>3
<1> QED BY <1>9, <1>10, <1>11, <1>12, <1>13, <1>16, <1>18, <1>19 DEF UserInv

LEMMA ProcessWasCreatedUserInv ==
  ASSUME UserInv, ProcessWasCreated
  PROVE  UserInv'
<1>0. Deliver /\ log[next].kind = "WasCreated"
  BY DEF ProcessWasCreated
<1>1. /\ TypeOK /\ Histories /\ next \in 1 .. Len(log)
      /\ DOMAIN log = 1 .. Len(log)
  BY <1>0, LengthTypes DEF UserInv, Deliver
<1>2. log[next].version = 1
  BY <1>0, <1>1 DEF Histories
<1> DEFINE view == NewView(log[next])
<1>3. /\ view \in Views /\ view.version = 1 /\ view.email = log[next].email
      /\ view.id = log[next].id
  BY <1>1, <1>2, EventTypes DEF NewView, Views
<1>4. /\ idToEmail' = Put(idToEmail, log[next].id, log[next].email)
      /\ data' = Put(data, log[next].email, view)
  BY DEF ProcessWasCreated
<1> HIDE DEF view
<1> QED BY <1>0, <1>3, <1>4, ProcessUserInv

LEMMA ProcessEmailWasUpdatedUserInv ==
  ASSUME UserInv, ProcessEmailWasUpdated
  PROVE  UserInv'
<1> DEFINE evt == log[next]
           old == idToEmail[evt.id]
<1>0. Deliver /\ log[next].kind = "EmailWasUpdated" /\ next <= Len(log)
  BY DEF ProcessEmailWasUpdated, Deliver
<1>1. /\ TypeOK /\ Histories /\ Feed /\ Keys /\ ViewsAreNew
      /\ IndexOfPass /\ ViewsKept
      /\ next \in 1 .. Len(log) /\ DOMAIN log = 1 .. Len(log)
      /\ Len(log) \in Nat /\ next \in Nat
      /\ processed \in Nat /\ processed <= Len(log)
  BY <1>0, LengthTypes DEF UserInv
<1>2. Found(evt.id) /\ ~ AlreadySeen(evt)
  BY <1>0, UpdateMoves
<1>3. Move(evt)
  BY <1>2 DEF ProcessEmailWasUpdated
<1>4. evt.id \in Users /\ evt.email \in Emails
  BY <1>1, EventTypes
<1>5. evt.id \in DOMAIN idToEmail /\ old \in DOMAIN data
  BY <1>2 DEF Found
<1>6. data[old] \in Views /\ data[old].version = 1
  BY <1>1, <1>5, ViewTypes DEF ViewsAreNew
<1> DEFINE view == [data[old] EXCEPT !.email = evt.email]
<1>7. /\ view \in Views /\ view.version = 1 /\ view.email = evt.email
      /\ view.id = data[old].id
  <2> HIDE DEF old
  <2> QED BY <1>4, <1>6 DEF Views
<1>8. from = 1 /\ NeverShared(next - 1) => data[old].id = evt.id
  <2> SUFFICES ASSUME from = 1, NeverShared(next - 1)
               PROVE  data[old].id = evt.id
    OBVIOUS
  <2>1. \E j \in 1 .. (next - 1) : log[j].id = evt.id
    BY <1>0, <1>1 DEF Histories
  <2>2. next - 1 \in 0 .. Len(log)
    BY <1>1
  <2>3. Exists(evt.id, next - 1)
    BY <2>1 DEF Exists, EventsOf
  <2>4. PICK k \in 1 .. (next - 1) :
          log[k].id = evt.id /\ LastOfUser(k, next - 1)
    BY <1>1, <2>2, <2>3, EmailOfUser
  <2>5. old = log[k].email
    BY <1>1, <2>4 DEF IndexOfPass
  <2>6. data[log[k].email].id = log[k].id
    BY <2>4, OwnView
  <2> QED BY <2>4, <2>5, <2>6
<1>9. EmailsKeepTheirUser' => data[old].id = evt.id
  <2> SUFFICES ASSUME EmailsKeepTheirUser' PROVE data[old].id = evt.id
    OBVIOUS
  <2>1. EmailsKeepTheirUser
    <3>1. 1 .. processed \subseteq 1 .. processed'
      <4> DEFINE S == {processed, next}
      <4>1. processed' = Max(S)
        BY <1>0 DEF Deliver
      <4>2. \E x \in S : \A y \in S : x >= y
        BY <1>1
      <4>3. Max(S) \in S /\ \A y \in S : Max(S) >= y
        BY <4>2 DEF Max
      <4> QED BY <1>1, <4>1, <4>3
    <3>2. log' = log
      BY <1>0 DEF Deliver
    <3> QED BY <3>1, <3>2 DEF EmailsKeepTheirUser
  <2>2. PICK k \in 1 .. processed :
          log[k].id = evt.id /\ log[k].email = old
    BY <1>1, <1>5 DEF Keys
  <2>3. data[log[k].email].id = log[k].id
    BY <1>1, <2>1 DEF ViewsKept
  <2> QED BY <2>2, <2>3
<1>10. /\ idToEmail' = Put(idToEmail, log[next].id, log[next].email)
       /\ data' = Put(data, log[next].email, view)
  BY <1>3 DEF Move
<1> HIDE DEF view, old
<1> QED BY <1>0, <1>7, <1>8, <1>9, <1>10, ProcessUserInv

LEMMA StepUserInv == UserInv /\ [Next]_vars => UserInv'
<1> SUFFICES ASSUME UserInv, [Next]_vars PROVE UserInv'
  OBVIOUS
<1>1. CASE \E id \in Users, email \in Emails :
             Create(id, email) \/ UpdateEmail(id, email)
  BY <1>1, SaveUserInv
<1>2. CASE ProcessWasCreated
  BY <1>2, ProcessWasCreatedUserInv
<1>3. CASE ProcessEmailWasUpdated
  BY <1>3, ProcessEmailWasUpdatedUserInv
<1>4. CASE \E n \in 1 .. next : GoBack(n)
  BY <1>4, GoBackUserInv
<1>5. CASE UNCHANGED vars
  <2>0. /\ log' = log /\ next' = next /\ processed' = processed
        /\ from' = from /\ data' = data /\ idToEmail' = idToEmail
    BY <1>5 DEF vars
  <2>1. TypeOK'
    BY <2>0 DEF UserInv, TypeOK
  <2>2. Histories' /\ Feed'
    BY <2>0 DEF UserInv, Histories, Feed
  <2>3. ViewsAreNew' /\ Keys'
    BY <2>0 DEF UserInv, ViewsAreNew, Keys
  <2>4. IndexOfPass'
    BY <2>0 DEF UserInv, IndexOfPass, LastOfUser
  <2>5. ViewsOfPass'
    BY <2>0 DEF UserInv, ViewsOfPass, LastOfEmail, LastOfUser, NeverShared
  <2>6. ViewsKept'
    BY <2>0 DEF UserInv, ViewsKept, EmailsKeepTheirUser
  <2> QED BY <2>1, <2>2, <2>3, <2>4, <2>5, <2>6 DEF UserInv
<1> QED BY <1>1, <1>2, <1>3, <1>4, <1>5 DEF Next

LEMMA AlwaysUserInv == Spec => []UserInv
  BY InitUserInv, StepUserInv, PTL DEF Spec

-----------------------------------------------------------------------------

(***************************************************************************)
(* Process never returns an error: an EmailWasUpdated finds the id in the  *)
(* index and the view in the data, whenever it is delivered and however    *)
(* often.                                                                  *)
(***************************************************************************)
THEOREM UpdatesAreApplied == Spec => []UpdatesFindTheirView
<1>1. UserInv => UpdatesFindTheirView
  BY UpdateMoves DEF UpdatesFindTheirView
<1> QED BY <1>1, AlwaysUserInv, PTL

(***************************************************************************)
(* A query by the email of a user finds that user, at every point of a     *)
(* pass of the feed from the first event, whatever the passes before have  *)
(* left in the maps.  Emails may change hands, but no two users have one   *)
(* at the same time.                                                       *)
(***************************************************************************)
THEOREM IndexIsRebuilt == Spec => []RebuildIsRight
<1>1. UserInv => RebuildIsRight
  <2> SUFFICES ASSUME UserInv, from = 1, EmailsAreUnique(next - 1),
                      NEW id \in Users, Exists(id, next - 1)
               PROVE  LET email == EmailOf(id, next - 1)
                      IN  /\ email \in DOMAIN data
                          /\ data[email].id = id
                          /\ data[email].email = email
    BY DEF RebuildIsRight, UsersAreFound
  <2>0. /\ TypeOK /\ Keys /\ ViewsAreNew /\ Feed
        /\ next \in Nat /\ next >= 1 /\ processed \in Nat
        /\ next - 1 \in 0 .. Len(log)
    BY LengthTypes DEF UserInv
  <2>1. PICK k \in 1 .. (next - 1) :
          /\ log[k].id = id /\ LastOfUser(k, next - 1)
          /\ EmailOf(id, next - 1) = log[k].email
    BY <2>0, EmailOfUser
  <2>2. k \in 1 .. processed
    BY <2>0 DEF Feed
  <2>3. log[k].email \in DOMAIN data
    BY <2>0, <2>2 DEF Keys
  <2>4. data[log[k].email].id = id
    BY <2>0, <2>1, UniqueIsDistinct, OwnView
  <2>5. data[log[k].email].email = log[k].email
    BY <2>0, <2>3 DEF ViewsAreNew
  <2> QED BY <2>1, <2>3, <2>4, <2>5
<1> QED BY <1>1, AlwaysUserInv, PTL

(***************************************************************************)
(* A query by the email of a user finds that user at all times, wherever   *)
(* and however often the feed goes back, if no email changes hands.        *)
(***************************************************************************)
THEOREM RedeliveryDoesNoHarm == Spec => []RedeliveryIsHarmless
<1>1. UserInv => RedeliveryIsHarmless
  <2> SUFFICES ASSUME UserInv, EmailsKeepTheirUser,
                      NEW id \in Users, Exists(id, processed)
               PROVE  LET email == EmailOf(id, processed)
                      IN  /\ email \in DOMAIN data
                          /\ data[email].id = id
                          /\ data[email].email = email
    BY DEF RedeliveryIsHarmless, UsersAreFound
  <2>0. /\ TypeOK /\ Keys /\ ViewsAreNew /\ ViewsKept
        /\ processed \in 0 .. Len(log)
    BY LengthTypes DEF UserInv
  <2>1. PICK k \in 1 .. processed :
          log[k].id = id /\ EmailOf(id, processed) = log[k].email
    BY <2>0, EmailOfUser
  <2>2. log[k].email \in DOMAIN data /\ data[log[k].email].id = id
    BY <2>0, <2>1 DEF Keys, ViewsKept
  <2>3. data[log[k].email].email = log[k].email
    BY <2>0, <2>2 DEF ViewsAreNew
  <2> QED BY <2>1, <2>2, <2>3
<1> QED BY <1>1, AlwaysUserInv, PTL

-----------------------------------------------------------------------------
(***************************************************************************)
(* The TodoList service.  What Rehydrate and Without compute is defined by *)
(* recursion over the events and the items: the first lemmas are induction *)
(* and the existence of such functions.                                    *)
(***************************************************************************)

(***************************************************************************)
(* Induction over the naturals, for a set in place of a predicate.         *)
(***************************************************************************)
LEMMA InductionOnSet ==
  ASSUME NEW S, 0 \in S, \A n \in Nat : n \in S => n + 1 \in S
  PROVE  Nat \subseteq S
<1> DEFINE T == Nat \ S
           R == {ss \in Nat \X Nat : ss[1] < ss[2]}
<1>1. SUFFICES ASSUME T # {} PROVE FALSE
  OBVIOUS
<1>2. IsWellFoundedOn(R, Nat)
  BY NatLessThanWellFounded DEF OpToRel
<1>3. T \subseteq Nat
  OBVIOUS
<1>4. \E t \in T : \A y \in T : ~ (<<y, t>> \in R)
  <2> HIDE DEF T, R
  <2> QED BY <1>1, <1>2, <1>3, WFMin
<1>5. PICK t \in T : \A y \in T : ~ (<<y, t>> \in R)
  BY <1>4
<1>6. t \in Nat \ {0} /\ t - 1 \in Nat
  OBVIOUS
<1>7. <<t - 1, t>> \in R
  BY <1>6
<1>8. t - 1 \in S
  <2> HIDE DEF R
  <2> QED BY <1>5, <1>6, <1>7
<1> QED BY <1>6, <1>8

(***************************************************************************)
(* Two functions that start alike, and of which each step is the same      *)
(* whenever the one before was, are the same.                              *)
(***************************************************************************)
LEMMA SameRecursion ==
  ASSUME NEW n \in Nat, NEW f, NEW g, f[0] = g[0],
         \A k \in 1 .. n : f[k - 1] = g[k - 1] => f[k] = g[k]
  PROVE  \A k \in 0 .. n : f[k] = g[k]
<1> DEFINE S == {k \in Nat : k <= n => f[k] = g[k]}
<1>1. 0 \in S
  OBVIOUS
<1>2. \A k \in Nat : k \in S => k + 1 \in S
  <2> SUFFICES ASSUME NEW k \in Nat, k \in S, k + 1 <= n
               PROVE  f[k + 1] = g[k + 1]
    OBVIOUS
  <2>1. k + 1 \in 1 .. n /\ (k + 1) - 1 = k /\ k <= n
    OBVIOUS
  <2> QED BY <2>1
<1>3. Nat \subseteq S
  <2> HIDE DEF S
  <2> QED BY <1>1, <1>2, InductionOnSet
<1> QED BY <1>3

(***************************************************************************)
(* A recursion over 1 .. n defines a function.                             *)
(***************************************************************************)
Steps(n, S) == [1 .. n -> [S -> S]]

Recursion(f, S, base, n, step) ==
  /\ f \in [0 .. n -> S]
  /\ f[0] = base
  /\ \A k \in 1 .. n : f[k] = step[k][f[k - 1]]

LEMMA RecursionExists ==
  ASSUME NEW S, NEW base \in S, NEW n \in Nat, NEW step \in Steps(n, S)
  PROVE  \E f : Recursion(f, S, base, n, step)
<1> USE DEF Steps, Recursion
<1> DEFINE Upto(f, m) ==
             f[0] = base /\ \A k \in 1 .. m : f[k] = step[k][f[k - 1]]
           T == {m \in Nat : m <= n => \E f \in [0 .. m -> S] : Upto(f, m)}
<1>1. 0 \in T
  <2>1. [k \in 0 .. 0 |-> base] \in [0 .. 0 -> S]
    OBVIOUS
  <2>2. Upto([k \in 0 .. 0 |-> base], 0)
    OBVIOUS
  <2> QED BY <2>1, <2>2
<1>2. ASSUME NEW m \in Nat, m \in T PROVE m + 1 \in T
  <2> SUFFICES ASSUME m + 1 <= n
               PROVE  \E f \in [0 .. (m + 1) -> S] : Upto(f, m + 1)
    OBVIOUS
  <2>1. PICK f \in [0 .. m -> S] : Upto(f, m)
    BY <1>2
  <2> DEFINE g == [k \in 0 .. (m + 1) |->
                     IF k = m + 1 THEN step[m + 1][f[m]] ELSE f[k]]
  <2>2. step[m + 1] \in [S -> S] /\ f[m] \in S
    OBVIOUS
  <2>3. g \in [0 .. (m + 1) -> S]
    BY <2>2
  <2>4. g[0] = base
    BY <2>1
  <2>5. ASSUME NEW k \in 1 .. (m + 1) PROVE g[k] = step[k][g[k - 1]]
    <3>1. CASE k = m + 1
      <4>1. k - 1 = m /\ m \in 0 .. (m + 1) /\ m # m + 1
        BY <3>1
      <4> QED BY <3>1, <4>1
    <3>2. CASE k \in 1 .. m
      <4>1. k - 1 \in 0 .. (m + 1) /\ k - 1 # m + 1 /\ k # m + 1
        BY <3>2
      <4> QED BY <2>1, <3>2, <4>1
    <3> QED BY <3>1, <3>2
  <2> HIDE DEF g
  <2> QED BY <2>3, <2>4, <2>5
<1>3. Nat \subseteq T
  <2> HIDE DEF T
  <2> QED BY <1>1, <1>2, InductionOnSet
<1> QED BY <1>3

LEMMA MinProperty ==
  ASSUME NEW S \in SUBSET Nat, S # {}
  PROVE  Min(S) \in S
<1> DEFINE R == {ss \in Nat \X Nat : ss[1] < ss[2]}
<1>1. IsWellFoundedOn(R, Nat)
  BY NatLessThanWellFounded DEF OpToRel
<1>2. \E t \in S : \A y \in S : ~ (<<y, t>> \in R)
  <2> HIDE DEF R
  <2> QED BY <1>1, WFMin
<1>3. PICK t \in S : \A y \in S : ~ (<<y, t>> \in R)
  BY <1>2
<1>4. ASSUME NEW y \in S PROVE t <= y
  <2>1. <<y, t>> \notin R
    BY <1>3
  <2>2. y \in Nat /\ t \in Nat
    OBVIOUS
  <2> QED BY <2>1, <2>2
<1> QED BY <1>4 DEF Min

-----------------------------------------------------------------------------
(***************************************************************************)
(* The list, and what the methods keep true of it.                         *)
(***************************************************************************)
ItemRecords == [id : Items, completed : BOOLEAN]

Lists == [items : Seq(ItemRecords), error : BOOLEAN]

Distinct(items) ==
  \A i, j \in 1 .. Len(items) : items[i].id = items[j].id => i = j

(***************************************************************************)
(* The loop over the items that Apply makes for ItemWasDeleted.            *)
(***************************************************************************)
Kept(f, items, id) ==
  f = [k \in 0 .. Len(items) |->
         IF k = 0 THEN <<>>
         ELSE IF items[k].id = id
              THEN f[k - 1]
              ELSE Append(f[k - 1], items[k])]

LEMMA SameKept ==
  ASSUME NEW items, Len(items) \in Nat, NEW id, NEW f, NEW g,
         Kept(f, items, id), Kept(g, items, id)
  PROVE  \A k \in 0 .. Len(items) : f[k] = g[k]
<1>1. f[0] = g[0]
  BY DEF Kept
<1>2. \A k \in 1 .. Len(items) : f[k - 1] = g[k - 1] => f[k] = g[k]
  <2> TAKE k \in 1 .. Len(items)
  <2>1. k \in 0 .. Len(items) /\ k # 0
    OBVIOUS
  <2>2. /\ f[k] = IF items[k].id = id THEN f[k - 1] ELSE Append(f[k - 1], items[k])
        /\ g[k] = IF items[k].id = id THEN g[k - 1] ELSE Append(g[k - 1], items[k])
    BY <2>1 DEF Kept
  <2> QED BY <2>2
<1> QED BY ONLY Len(items) \in Nat, <1>1, <1>2, SameRecursion, Zenon

LEMMA WithoutIsKept ==
  ASSUME NEW items \in Seq(ItemRecords), NEW id
  PROVE  \E f \in [0 .. Len(items) -> Seq(ItemRecords)] :
           Kept(f, items, id) /\ Without(items, id) = f[Len(items)]
<1> DEFINE S == Seq(ItemRecords)
           n == Len(items)
           none == <<>>
           step == [k \in 1 .. n |->
                      [s \in S |-> IF items[k].id = id THEN s ELSE Append(s, items[k])]]
<1>0. step \in Steps(n, S)
  BY DEF Steps
<1>1. n \in Nat /\ none \in S
  OBVIOUS
<1>2. \E f : Recursion(f, S, none, n, step)
  <2> HIDE DEF S, n, none, step
  <2> QED BY <1>0, <1>1, RecursionExists
<1>3. PICK f \in [0 .. n -> S] :
        f[0] = none /\ \A k \in 1 .. n : f[k] = step[k][f[k - 1]]
  BY <1>2 DEF Recursion
<1>4. ASSUME NEW k \in 0 .. n
      PROVE  f[k] = IF k = 0 THEN <<>>
                    ELSE IF items[k].id = id
                         THEN f[k - 1]
                         ELSE Append(f[k - 1], items[k])
  <2>1. CASE k = 0
    BY <1>3, <2>1
  <2>2. CASE k \in 1 .. n
    <3>1. k - 1 \in 0 .. n
      BY <1>1, <2>2
    <3>2. f[k - 1] \in S
      BY <3>1
    <3> QED BY <1>3, <2>2, <3>2
  <2> QED BY <1>1, <2>1, <2>2
<1>5. Kept(f, items, id)
  <2> HIDE DEF step, S
  <2> QED BY <1>4 DEF Kept
<1> DEFINE g == CHOOSE g : Kept(g, items, id)
<1>6. Kept(g, items, id)
  BY <1>5
<1>7. Without(items, id) = g[n]
  BY DEF Without, Kept
<1>8. f[n] = g[n]
  <2> HIDE DEF g, step
  <2>1. \A k \in 0 .. n : f[k] = g[k]
    BY <1>1, <1>5, <1>6, SameKept
  <2> QED BY <1>1, <2>1
<1> QED BY <1>5, <1>7, <1>8

(***************************************************************************)
(* Deleting keeps ids distinct: every item that is kept is one of those    *)
(* the loop has passed.                                                    *)
(***************************************************************************)
LEMMA WithoutKeepsDistinct ==
  ASSUME NEW items \in Seq(ItemRecords), NEW id, Distinct(items)
  PROVE  Without(items, id) \in Seq(ItemRecords) /\ Distinct(Without(items, id))
<1> DEFINE n == Len(items)
<1>1. PICK f \in [0 .. n -> Seq(ItemRecords)] :
        Kept(f, items, id) /\ Without(items, id) = f[n]
  BY WithoutIsKept
<1>2. n \in Nat /\ n \in 0 .. n
  OBVIOUS
<1> DEFINE Passed(k) ==
             /\ Distinct(f[k])
             /\ \A i \in 1 .. Len(f[k]) : \E j \in 1 .. k : f[k][i] = items[j]
           T == {k \in Nat : k <= n => Passed(k)}
<1>3. 0 \in T
  <2>1. f[0] = <<>>
    BY <1>1, <1>2 DEF Kept
  <2>2. Passed(0)
    BY <2>1 DEF Distinct
  <2> QED BY <2>2
<1>4. ASSUME NEW k \in Nat, k \in T PROVE k + 1 \in T
  <2> SUFFICES ASSUME k + 1 <= n PROVE Passed(k + 1)
    OBVIOUS
  <2>1. k + 1 \in 0 .. n /\ k \in 0 .. n /\ k + 1 # 0 /\ (k + 1) - 1 = k /\ k <= n
    BY <1>2
  <2>2. Passed(k)
    BY <1>4, <2>1
  <2>3. f[k + 1] = IF items[k + 1].id = id
                   THEN f[k] ELSE Append(f[k], items[k + 1])
    BY <1>1, <2>1 DEF Kept
  <2>4. f[k] \in Seq(ItemRecords) /\ items[k + 1] \in ItemRecords
    BY <2>1
  <2> HIDE DEF T, n
  <2>5. CASE items[k + 1].id = id
    <3>1. f[k + 1] = f[k]
      BY <2>3, <2>5
    <3> QED BY <2>2, <3>1
  <2>6. CASE items[k + 1].id # id
    <3> PICK s : s = f[k]
      OBVIOUS
    <3> PICK t : t = f[k + 1]
      OBVIOUS
    <3>1. /\ Len(t) = Len(s) + 1 /\ Len(s) \in Nat
          /\ t[Len(s) + 1] = items[k + 1]
          /\ \A i \in 1 .. Len(s) : t[i] = s[i]
      BY <2>3, <2>4, <2>6
    <3>2. \A i \in 1 .. Len(s) : \E j \in 1 .. k : t[i] = items[j]
      BY <2>2, <3>1
    <3>3. \A i \in 1 .. Len(t) : \E j \in 1 .. (k + 1) : t[i] = items[j]
      BY <3>1, <3>2
    <3>4. \A i \in 1 .. Len(s) : t[i].id # t[Len(s) + 1].id
      <4> TAKE i \in 1 .. Len(s)
      <4>1. PICK j \in 1 .. k : t[i] = items[j]
        BY <3>2
      <4>2. j \in 1 .. n /\ k + 1 \in 1 .. n /\ j # k + 1
        BY <1>2, <2>1
      <4>3. items[j].id # items[k + 1].id
        BY <4>2 DEF Distinct, n
      <4> QED BY <3>1, <4>1, <4>3
    <3>5. Distinct(s)
      BY <2>2
    <3>6. \A i, j \in 1 .. Len(s) : t[i].id = t[j].id => i = j
      BY <3>1, <3>5 DEF Distinct
    <3>7. Distinct(t)
      <4> SUFFICES ASSUME NEW i \in 1 .. Len(t), NEW j \in 1 .. Len(t),
                          t[i].id = t[j].id
                   PROVE  i = j
        BY DEF Distinct
      <4>1. (i \in 1 .. Len(s) \/ i = Len(s) + 1) /\ (j \in 1 .. Len(s) \/ j = Len(s) + 1)
        BY <3>1
      <4> QED BY <4>1, <3>4, <3>6
    <3> QED BY <3>3, <3>7
  <2> QED BY <2>5, <2>6
<1>5. Nat \subseteq T
  <2> HIDE DEF T
  <2> QED BY <1>3, <1>4, InductionOnSet
<1> QED BY <1>1, <1>2, <1>5

LEMMA ItemFound ==
  ASSUME NEW list \in Lists, NEW id, Has(list, id)
  PROVE  /\ itemByID(list, id) \in 1 .. Len(list.items)
         /\ list.items[itemByID(list, id)].id = id
<1> DEFINE S == {k \in DOMAIN list.items : list.items[k].id = id}
<1>1. list.items \in Seq(ItemRecords) /\ DOMAIN list.items = 1 .. Len(list.items)
  BY DEF Lists
<1>2. S \in SUBSET Nat /\ S # {}
  BY <1>1 DEF Has
<1>3. Min(S) \in S
  <2> HIDE DEF S
  <2> QED BY <1>2, MinProperty
<1> QED BY <1>1, <1>3 DEF itemByID

LEMMA ApplyTypes ==
  ASSUME NEW list \in Lists, NEW evt \in DomainEvents
  PROVE  Apply(list, evt) \in Lists
<1>1. /\ list.items \in Seq(ItemRecords) /\ list.error \in BOOLEAN
      /\ list = [items |-> list.items, error |-> list.error]
  BY DEF Lists
<1>2. \/ evt.kind = "create"
      \/ evt.item \in Items /\ evt.kind \in ItemOps
  BY DEF DomainEvents
<1>3. CASE evt.kind = "create"
  BY <1>3 DEF Apply
<1>4. CASE evt.kind = "add" /\ evt.item \in Items
  <2>1. ItemApply(NoItem, evt) \in ItemRecords
    BY <1>4 DEF ItemApply, ItemRecords
  <2>2. Append(list.items, ItemApply(NoItem, evt)) \in Seq(ItemRecords)
    BY <1>1, <2>1
  <2> QED BY <1>1, <1>4, <2>2 DEF Apply, Lists
<1>5. CASE evt.kind \in {"done", "pending"} /\ evt.item \in Items
  <2>1. CASE Has(list, evt.item)
    <3> DEFINE k == itemByID(list, evt.item)
    <3>1. k \in 1 .. Len(list.items)
      BY <2>1, ItemFound
    <3> HIDE DEF k
    <3>2. ItemApply(list.items[k], evt) \in ItemRecords
      <4>1. list.items[k] \in ItemRecords
        BY <1>1, <3>1
      <4>2. PICK item : item = list.items[k]
        OBVIOUS
      <4>3. item \in ItemRecords /\ item.id \in Items
        BY <4>1, <4>2 DEF ItemRecords
      <4>4. ItemApply(item, evt) = [item EXCEPT !.completed = (evt.kind = "done")]
        BY <1>5 DEF ItemApply
      <4> QED BY <4>2, <4>3, <4>4 DEF ItemRecords
    <3>3. [list.items EXCEPT ![k] = ItemApply(@, evt)] \in Seq(ItemRecords)
      BY <1>1, <3>1, <3>2
    <3> QED BY <1>1, <1>5, <2>1, <3>3 DEF Apply, applyItemEvent, Lists, k
  <2>2. CASE ~ Has(list, evt.item)
    BY <1>1, <1>5, <2>2 DEF Apply, applyItemEvent, Lists
  <2> QED BY <2>1, <2>2
<1>6. CASE evt.kind = "delete"
  <2>1. Without(list.items, evt.item) \in Seq(ItemRecords)
    <3>1. PICK f \in [0 .. Len(list.items) -> Seq(ItemRecords)] :
            Without(list.items, evt.item) = f[Len(list.items)]
      BY <1>1, WithoutIsKept
    <3>2. Len(list.items) \in 0 .. Len(list.items)
      BY <1>1
    <3> QED BY <3>1, <3>2
  <2> QED BY <1>1, <1>6, <2>1 DEF Apply, Lists
<1> QED BY <1>2, <1>3, <1>4, <1>5, <1>6 DEF ItemOps

-----------------------------------------------------------------------------
(***************************************************************************)
(* The roots that the prefixes of a history lead to.                       *)
(***************************************************************************)
Replay(f, events) ==
  f = [k \in 0 .. Len(events) |->
         IF k = 0 THEN NewList ELSE Apply(f[k - 1], events[k])]

LEMMA SameReplay ==
  ASSUME NEW n \in Nat, NEW f, NEW g, NEW events, NEW others,
         n <= Len(events), n <= Len(others),
         Len(events) \in Nat, Len(others) \in Nat,
         \A k \in 1 .. n : events[k] = others[k],
         Replay(f, events), Replay(g, others)
  PROVE  \A k \in 0 .. n : f[k] = g[k]
<1>1. f[0] = g[0]
  BY DEF Replay
<1>2. \A k \in 1 .. n : f[k - 1] = g[k - 1] => f[k] = g[k]
  <2> TAKE k \in 1 .. n
  <2>1. k \in 0 .. Len(events) /\ k \in 0 .. Len(others) /\ k # 0
    OBVIOUS
  <2>2. f[k] = Apply(f[k - 1], events[k]) /\ g[k] = Apply(g[k - 1], others[k])
    BY <2>1 DEF Replay
  <2> QED BY <2>2
<1> QED BY ONLY n \in Nat, <1>1, <1>2, SameRecursion, Zenon

LEMMA RehydrateIsReplay ==
  ASSUME NEW events \in Seq(DomainEvents)
  PROVE  \E f \in [0 .. Len(events) -> Lists] :
           Replay(f, events) /\ Rehydrate(events) = f[Len(events)]
<1> DEFINE n == Len(events)
           step == [k \in 1 .. n |-> [list \in Lists |-> Apply(list, events[k])]]
<1>1. n \in Nat /\ NewList \in Lists
  BY DEF NewList, Lists
<1>2. step \in Steps(n, Lists)
  <2>1. \A k \in 1 .. n : \A list \in Lists : Apply(list, events[k]) \in Lists
    BY ApplyTypes
  <2> QED BY <2>1 DEF Steps
<1>3. \E f : Recursion(f, Lists, NewList, n, step)
  <2> HIDE DEF n, step
  <2> QED BY <1>1, <1>2, RecursionExists
<1>4. PICK f \in [0 .. n -> Lists] :
        f[0] = NewList /\ \A k \in 1 .. n : f[k] = step[k][f[k - 1]]
  BY <1>3 DEF Recursion
<1>5. ASSUME NEW k \in 0 .. n
      PROVE  f[k] = IF k = 0 THEN NewList ELSE Apply(f[k - 1], events[k])
  <2>1. CASE k = 0
    BY <1>4, <2>1
  <2>2. CASE k \in 1 .. n
    <3>1. k - 1 \in 0 .. n
      BY <1>1, <2>2
    <3>2. f[k - 1] \in Lists
      BY <3>1
    <3> QED BY <1>4, <2>2, <3>2
  <2> QED BY <1>1, <2>1, <2>2
<1>6. Replay(f, events)
  <2> HIDE DEF step
  <2> QED BY <1>5 DEF Replay
<1> DEFINE g == CHOOSE g : Replay(g, events)
<1>7. Replay(g, events)
  BY <1>6
<1>8. Rehydrate(events) = g[n]
  BY DEF Rehydrate, Replay
<1>9. f[n] = g[n]
  <2> HIDE DEF g, step
  <2>1. \A k \in 0 .. n : f[k] = g[k]
    BY <1>1, <1>6, <1>7, SameReplay
  <2> QED BY <1>1, <2>1
<1> QED BY <1>6, <1>8, <1>9

LEMMA RehydrateTypes ==
  ASSUME NEW events \in Seq(DomainEvents)
  PROVE  Rehydrate(events) \in Lists
<1>1. PICK f \in [0 .. Len(events) -> Lists] : Rehydrate(events) = f[Len(events)]
  BY RehydrateIsReplay
<1>2. Len(events) \in 0 .. Len(events)
  OBVIOUS
<1> QED BY <1>1, <1>2

LEMMA RehydrateEmpty == Rehydrate(<<>>) = NewList
<1>1. Len(<<>>) = 0 /\ 0 \in 0 .. 0 /\ <<>> \in Seq(DomainEvents)
  OBVIOUS
<1>2. PICK f \in [0 .. Len(<<>>) -> Lists] :
        Replay(f, <<>>) /\ Rehydrate(<<>>) = f[Len(<<>>)]
  BY <1>1, RehydrateIsReplay
<1> QED BY <1>1, <1>2 DEF Replay

(***************************************************************************)
(* A root that is loaded from one more event has applied that one.         *)
(***************************************************************************)
LEMMA RehydrateAppend ==
  ASSUME NEW events \in Seq(DomainEvents), NEW e \in DomainEvents
  PROVE  Rehydrate(Append(events, e)) = Apply(Rehydrate(events), e)
<1> DEFINE longer == Append(events, e)
           n == Len(events)
<1>1. /\ n \in Nat
      /\ longer \in Seq(DomainEvents)
      /\ Len(longer) = n + 1
      /\ longer[n + 1] = e
      /\ \A k \in 1 .. n : longer[k] = events[k]
  OBVIOUS
<1> HIDE DEF longer
<1>2. PICK f : Replay(f, events) /\ Rehydrate(events) = f[n]
  BY RehydrateIsReplay
<1>3. PICK g : Replay(g, longer) /\ Rehydrate(longer) = g[n + 1]
  BY <1>1, RehydrateIsReplay
<1>4. f[n] = g[n]
  <2>1. \A k \in 0 .. n : f[k] = g[k]
    <3>1. n <= Len(events) /\ n <= Len(longer) /\ Len(longer) \in Nat
      BY <1>1
    <3> QED BY <3>1, <1>1, <1>2, <1>3, SameReplay
  <2> QED BY <1>1, <2>1
<1>5. g[n + 1] = Apply(g[n], longer[n + 1])
  <2>1. n + 1 \in 0 .. (n + 1) /\ n + 1 # 0 /\ (n + 1) - 1 = n
    BY <1>1
  <2> QED BY <1>1, <1>3, <2>1 DEF Replay
<1> QED BY <1>1, <1>2, <1>3, <1>4, <1>5 DEF longer

-----------------------------------------------------------------------------
(***************************************************************************)
(* The inductive invariant of the service.  A handler that is about to     *)
(* save has run its method on a prefix of the stream, and a command that   *)
(* needs a list has found one.                                             *)
(***************************************************************************)
Sound(list) == list \in Lists /\ ~ list.error /\ Distinct(list.items)

ListTypes ==
  /\ stream \in Seq(DomainEvents)
  /\ pc \in [Requests -> {"idle", "get", "method", "save", "answered"}]
  /\ req \in [Requests -> Incoming \cup {NoRequest}]
  /\ loaded \in [Requests -> Nat]
  /\ code \in [Requests -> Codes]

CreatedOnce == \A k \in 1 .. Len(stream) : stream[k].kind = "create" <=> k = 1

Handler(r) ==
  /\ loaded[r] <= Len(stream)
  /\ pc[r] \in {"idle", "get", "answered"} => loaded[r] = 0
  /\ pc[r] \in {"get", "method", "save"} =>
       req[r] \in Incoming /\ code[r] = "none"
  /\ pc[r] = "get" => req[r].op # "create"
  /\ pc[r] \in {"method", "save"} =>
       req[r].op # "get" /\ (req[r].op = "create" <=> loaded[r] = 0)
  /\ pc[r] = "save" =>
       Method(Rehydrate(SubSeq(stream, 1, loaded[r])), req[r]) = "ok"

ListInv ==
  /\ ListTypes
  /\ Sound(Rehydrate(stream))
  /\ CreatedOnce
  /\ \A r \in Requests : Handler(r)

(***************************************************************************)
(* The process: run has returned when it has an exit, waits for the        *)
(* requests only after a signal, and cannot have seen the listener closed  *)
(* before.                                                                 *)
(***************************************************************************)
ProcessInv ==
  /\ serverErrs \in {"empty", "nil", "error"}
  /\ exit # "none" <=> main = "returned"
  /\ main = "select" => serverErrs # "nil"
  /\ main = "shutdown" => signalled
  /\ exit = "nil" => signalled /\ InFlight = {}

(***************************************************************************)
(* An event whose method has succeeded on a list leaves it sound.          *)
(***************************************************************************)
LEMMA RecordedIsEvent ==
  ASSUME NEW list, NEW request \in Incoming, request.op # "get",
         Method(list, request) = "ok"
  PROVE  /\ Recorded(request) \in DomainEvents
         /\ Recorded(request).kind = request.op
         /\ Recorded(request).item = request.item
<1>1. request.input # "empty"
  BY DEF Method, CreateList, AddItem, recordItemEvent
<1>2. Recorded(request) = [kind |-> request.op, item |-> request.item]
  BY <1>1 DEF Recorded
<1> QED BY <1>2 DEF Incoming, DomainEvents

LEMMA MethodKeepsSound ==
  ASSUME NEW list, Sound(list), NEW request \in Incoming, request.op # "get",
         Method(list, request) = "ok"
  PROVE  Sound(Apply(list, Recorded(request)))
<1> DEFINE evt == Recorded(request)
<1>1. /\ evt \in DomainEvents
      /\ evt.kind = request.op
      /\ evt.item = request.item
  BY RecordedIsEvent
<1> SUFFICES Sound(Apply(list, evt))
  OBVIOUS
<1> HIDE DEF evt
<1>2. Apply(list, evt) \in Lists
  BY <1>1, ApplyTypes DEF Sound
<1>3. /\ list.items \in Seq(ItemRecords) /\ ~ list.error
      /\ list = [items |-> list.items, error |-> list.error]
      /\ Distinct(list.items)
  BY DEF Lists, Sound
<1>4. evt.kind = "create" \/ evt.kind \in ItemOps
  BY <1>1 DEF DomainEvents
<1>5. CASE evt.kind = "create"
  BY <1>5 DEF Apply, Sound
<1>6. CASE evt.kind = "add"
  <2>1. ~ Has(list, evt.item)
    BY <1>1, <1>6 DEF Method, AddItem
  <2> DEFINE new == ItemApply(NoItem, evt)
  <2>2. Apply(list, evt) = [list EXCEPT !.items = Append(list.items, new)]
    BY <1>6 DEF Apply
  <2>3. new.id = evt.item
    BY <1>6 DEF ItemApply
  <2> HIDE DEF new
  <2>4. /\ ~ Apply(list, evt).error
        /\ Apply(list, evt).items = Append(list.items, new)
    BY <1>3, <2>2
  <2>5. Distinct(Append(list.items, new))
    <3>1. \A i \in 1 .. Len(list.items) : list.items[i].id # new.id
      BY <1>3, <2>1, <2>3 DEF Has
    <3> PICK s : s = list.items
      OBVIOUS
    <3>2. /\ Len(s) \in Nat /\ Len(Append(s, new)) = Len(s) + 1
          /\ Append(s, new)[Len(s) + 1] = new
          /\ \A i \in 1 .. Len(s) : Append(s, new)[i] = s[i]
      BY <1>3
    <3> QED BY <1>3, <3>1, <3>2 DEF Distinct
  <2> QED BY <1>2, <2>4, <2>5 DEF Sound
<1>7. CASE evt.kind \in {"done", "pending"}
  <2>1. Has(list, evt.item)
    BY <1>1, <1>7 DEF Method, recordItemEvent
  <2> DEFINE k == itemByID(list, evt.item)
             new == ItemApply(list.items[k], evt)
             items == [list.items EXCEPT ![k] = new]
  <2>2. k \in 1 .. Len(list.items)
    BY <1>3, <2>1, ItemFound DEF Sound
  <2>3. new.id = list.items[k].id
    <3> HIDE DEF k
    <3>1. list.items[k] \in ItemRecords
      BY <1>3, <2>2
    <3> QED BY <1>7, <3>1 DEF ItemApply, ItemRecords
  <2>4. Apply(list, evt) = [list EXCEPT !.items = items]
    BY <1>7, <2>1 DEF Apply, applyItemEvent
  <2> HIDE DEF k, new
  <2>5. /\ Len(items) = Len(list.items)
        /\ \A i \in 1 .. Len(items) : items[i].id = list.items[i].id
    BY <1>3, <2>2, <2>3
  <2> HIDE DEF items
  <2>6. ~ Apply(list, evt).error /\ Apply(list, evt).items = items
    BY <1>3, <2>4
  <2>7. Distinct(items)
    BY <1>3, <2>5 DEF Distinct
  <2> QED BY <1>2, <2>6, <2>7 DEF Sound
<1>8. CASE evt.kind = "delete"
  <2>1. Apply(list, evt) = [list EXCEPT !.items = Without(list.items, evt.item)]
    BY <1>8 DEF Apply
  <2>2. /\ ~ Apply(list, evt).error
        /\ Apply(list, evt).items = Without(list.items, evt.item)
    BY <1>3, <2>1
  <2> QED BY <1>2, <1>3, <2>2, WithoutKeepsDistinct DEF Sound
<1> QED BY <1>4, <1>5, <1>6, <1>7, <1>8 DEF ItemOps

LEMMA PrefixKept ==
  ASSUME NEW S, NEW s \in Seq(S), NEW e \in S, NEW n \in 0 .. Len(s)
  PROVE  SubSeq(Append(s, e), 1, n) = SubSeq(s, 1, n)
<1>1. n \in Int /\ 1 \in Int
  OBVIOUS
<1> DEFINE t == Append(s, e)
<1>2. t \in Seq(S) /\ Len(t) = Len(s) + 1 /\ \A i \in 1 .. Len(s) : t[i] = s[i]
  OBVIOUS
<1> HIDE DEF t
<1>3. SubSeq(t, 1, n) = [i \in 1 .. n |-> t[i]] /\ SubSeq(s, 1, n) = [i \in 1 .. n |-> s[i]]
  BY <1>1, <1>2
<1>4. \A i \in 1 .. n : t[i] = s[i]
  BY <1>2
<1> QED BY <1>3, <1>4 DEF t

-----------------------------------------------------------------------------

LEMMA InitListInv == ListInit => ListInv
<1> SUFFICES ASSUME ListInit PROVE ListInv
  OBVIOUS
<1>1. ListTypes
  BY DEF ListInit, ListTypes, Codes
<1>2. Sound(Rehydrate(stream))
  <2>1. Rehydrate(stream) = NewList
    BY RehydrateEmpty DEF ListInit
  <2>2. Distinct(<<>>) /\ <<>> \in Seq(ItemRecords)
    BY DEF Distinct
  <2> QED BY <2>1, <2>2 DEF NewList, Sound, Lists
<1>3. CreatedOnce
  BY DEF ListInit, CreatedOnce
<1>4. \A r \in Requests : Handler(r)
  BY DEF ListInit, Handler
<1> QED BY <1>1, <1>2, <1>3, <1>4 DEF ListInv

(***************************************************************************)
(* A step of r that leaves the stream alone keeps what is true of the      *)
(* other handlers.                                                         *)
(***************************************************************************)
LEMMA OwnStep ==
  ASSUME ListInv, NEW r \in Requests, UNCHANGED stream, ListTypes',
         \A q \in Requests \ {r} :
           /\ pc'[q] = pc[q] /\ req'[q] = req[q]
           /\ loaded'[q] = loaded[q] /\ code'[q] = code[q],
         Handler(r)'
  PROVE  ListInv'
<1>1. Sound(Rehydrate(stream))' /\ CreatedOnce'
  BY DEF ListInv, CreatedOnce
<1>2. ASSUME NEW q \in Requests \ {r} PROVE Handler(q)'
  <2>1. Handler(q)
    BY DEF ListInv
  <2> QED BY <2>1 DEF Handler
<1> QED BY <1>1, <1>2 DEF ListInv

LEMMA RespondStep ==
  ASSUME ListInv, NEW r \in Requests, NEW c \in Codes, Respond(r, c),
         UNCHANGED stream
  PROVE  ListInv'
<1>1. ListTypes'
  BY DEF ListInv, ListTypes, Respond
<1>2. \A q \in Requests \ {r} :
        /\ pc'[q] = pc[q] /\ req'[q] = req[q]
        /\ loaded'[q] = loaded[q] /\ code'[q] = code[q]
  BY DEF ListInv, ListTypes, Respond
<1>3. pc'[r] = "answered" /\ loaded'[r] = 0 /\ Len(stream) \in Nat
  BY DEF ListInv, ListTypes, Respond
<1>4. Handler(r)'
  BY <1>3 DEF Handler
<1> QED BY <1>1, <1>2, <1>4, OwnStep

LEMMA SendStep ==
  ASSUME ListInv, NEW r \in Requests, Send(r)
  PROVE  ListInv'
<1>1. PICK request \in Incoming : Receive(r, request)
  BY DEF Send
<1>2. ListTypes'
  BY <1>1 DEF ListInv, ListTypes, Receive, Codes
<1>3. \A q \in Requests \ {r} :
        /\ pc'[q] = pc[q] /\ req'[q] = req[q]
        /\ loaded'[q] = loaded[q] /\ code'[q] = code[q]
  BY <1>1 DEF ListInv, ListTypes, Receive
<1>4. /\ pc'[r] = IF request.op = "create" THEN "method" ELSE "get"
      /\ req'[r] = request /\ loaded'[r] = loaded[r] /\ UNCHANGED stream
      /\ code'[r] = "none"
  BY <1>1 DEF ListInv, ListTypes, Receive
<1>5. loaded[r] = 0 /\ Len(stream) \in Nat
  BY <1>1 DEF ListInv, Handler, Receive, ListTypes
<1>6. Handler(r)'
  BY <1>4, <1>5 DEF Handler
<1> QED BY <1>2, <1>3, <1>4, <1>6, OwnStep

LEMMA ParseStep ==
  ASSUME ListInv, NEW r \in Requests, Parse(r)
  PROVE  ListInv'
  BY RespondStep DEF Parse, Codes

LEMMA GetFailsStep ==
  ASSUME ListInv, NEW r \in Requests, GetFails(r)
  PROVE  ListInv'
  BY RespondStep DEF GetFails, Codes

LEMMA GetLoadsStep ==
  ASSUME ListInv, NEW r \in Requests, GetLoads(r)
  PROVE  ListInv'
<1>1. CASE req[r].op = "get"
  BY <1>1, RespondStep DEF GetLoads, Codes
<1>2. CASE req[r].op # "get"
  <2>1. /\ loaded' = [loaded EXCEPT ![r] = Len(stream)]
        /\ pc' = [pc EXCEPT ![r] = "method"]
        /\ UNCHANGED <<code, req, stream>>
        /\ pc[r] = "get" /\ stream # <<>>
    BY <1>2 DEF GetLoads
  <2>2. Len(stream) \in Nat /\ Len(stream) # 0
    BY <2>1 DEF ListInv, ListTypes
  <2>3. ListTypes'
    BY <2>1, <2>2 DEF ListInv, ListTypes
  <2>4. \A q \in Requests \ {r} :
          /\ pc'[q] = pc[q] /\ req'[q] = req[q]
        /\ loaded'[q] = loaded[q] /\ code'[q] = code[q]
    BY <2>1 DEF ListInv, ListTypes
  <2>5. pc'[r] = "method" /\ loaded'[r] = Len(stream) /\ req'[r] = req[r]
    BY <2>1 DEF ListInv, ListTypes
  <2>6. Handler(r)
    BY DEF ListInv
  <2>7. Handler(r)'
    BY <1>2, <2>1, <2>2, <2>5, <2>6 DEF Handler
  <2> QED BY <2>1, <2>3, <2>4, <2>7, OwnStep
<1> QED BY <1>1, <1>2

LEMMA CallMethodStep ==
  ASSUME ListInv, NEW r \in Requests, CallMethod(r)
  PROVE  ListInv'
<1> DEFINE outcome == Method(Rehydrate(SubSeq(stream, 1, loaded[r])), req[r])
<1>1. CASE outcome # "ok"
  <2>1. outcome \in Codes
    BY DEF Method, CreateList, AddItem, recordItemEvent, Codes
  <2>2. Respond(r, outcome) /\ UNCHANGED stream
    BY <1>1 DEF CallMethod
  <2> HIDE DEF outcome
  <2> QED BY <2>1, <2>2, RespondStep
<1>2. CASE outcome = "ok"
  <2>1. /\ pc' = [pc EXCEPT ![r] = "save"]
        /\ UNCHANGED <<code, loaded, req, stream>>
        /\ pc[r] = "method"
    BY <1>2 DEF CallMethod
  <2>2. ListTypes'
    BY <2>1 DEF ListInv, ListTypes
  <2>3. \A q \in Requests \ {r} :
          /\ pc'[q] = pc[q] /\ req'[q] = req[q]
        /\ loaded'[q] = loaded[q] /\ code'[q] = code[q]
    BY <2>1 DEF ListInv, ListTypes
  <2>4. pc'[r] = "save"
    BY <2>1 DEF ListInv, ListTypes
  <2>5. Handler(r)
    BY DEF ListInv
  <2>6. Handler(r)'
    BY <1>2, <2>1, <2>4, <2>5 DEF Handler
  <2> QED BY <2>1, <2>2, <2>3, <2>6, OwnStep
<1> QED BY <1>1, <1>2

(***************************************************************************)
(* Save appends to the very list the method was run on: the version the    *)
(* root was loaded at is still the length of the stream.                   *)
(***************************************************************************)
LEMMA SavedIsCurrent ==
  ASSUME ListInv, NEW r \in Requests, SaveCommits(r)
  PROVE  /\ Method(Rehydrate(stream), req[r]) = "ok"
         /\ req[r] \in Incoming /\ req[r].op # "get"
         /\ req[r].op = "create" <=> Len(stream) = 0
<1>1. Handler(r) /\ pc[r] = "save" /\ Len(stream) = loaded[r]
  BY DEF ListInv, SaveCommits, Unchanged
<1>2. SubSeq(stream, 1, Len(stream)) = stream
  BY SubSeqFull DEF ListInv, ListTypes
<1> QED BY <1>1, <1>2 DEF Handler

LEMMA SaveCommitsStep ==
  ASSUME ListInv, NEW r \in Requests, SaveCommits(r)
  PROVE  ListInv'
<1> DEFINE evt == Recorded(req[r])
           n == Len(stream)
<1>1. /\ Method(Rehydrate(stream), req[r]) = "ok"
      /\ req[r] \in Incoming /\ req[r].op # "get"
      /\ req[r].op = "create" <=> n = 0
  BY SavedIsCurrent
<1>2. evt \in DomainEvents /\ evt.kind = req[r].op
  BY <1>1, RecordedIsEvent
<1>3. stream' = Append(stream, evt) /\ Respond(r, "ok") /\ stream \in Seq(DomainEvents)
  BY DEF SaveCommits, ListInv, ListTypes
<1>4. Sound(Rehydrate(stream))'
  <2>1. Rehydrate(Append(stream, evt)) = Apply(Rehydrate(stream), evt)
    BY <1>2, <1>3, RehydrateAppend
  <2>2. Sound(Apply(Rehydrate(stream), evt))
    BY <1>1, MethodKeepsSound DEF ListInv
  <2> QED BY <1>3, <2>1, <2>2
<1>5. /\ n \in Nat /\ Len(stream') = n + 1
      /\ stream'[n + 1] = evt /\ \A k \in 1 .. n : stream'[k] = stream[k]
      /\ stream' \in Seq(DomainEvents)
  BY <1>2, <1>3
<1> HIDE DEF evt
<1>6. ListTypes'
  BY <1>3, <1>5 DEF ListInv, ListTypes, Respond, Codes
<1>7. CreatedOnce'
  <2>1. \A k \in 1 .. n : stream'[k].kind = "create" <=> k = 1
    BY <1>5 DEF ListInv, CreatedOnce
  <2>2. stream'[n + 1].kind = "create" <=> n + 1 = 1
    BY <1>1, <1>2, <1>5
  <2>3. \A k \in 1 .. (n + 1) : k \in 1 .. n \/ k = n + 1
    BY <1>5
  <2> QED BY <1>5, <2>1, <2>2, <2>3 DEF CreatedOnce
<1>8. ASSUME NEW q \in Requests PROVE Handler(q)'
  <2>1. CASE q = r
    <3>1. pc'[r] = "answered" /\ loaded'[r] = 0
      BY <1>3 DEF ListInv, ListTypes, Respond
    <3> QED BY <1>5, <2>1, <3>1 DEF Handler
  <2>2. CASE q # r
    <3>1. /\ pc'[q] = pc[q] /\ loaded'[q] = loaded[q]
          /\ req'[q] = req[q] /\ code'[q] = code[q]
      BY <1>3, <2>2 DEF ListInv, ListTypes, Respond
    <3>2. Handler(q) /\ loaded[q] \in Nat
      BY DEF ListInv, ListTypes
    <3>3. loaded[q] \in 0 .. n /\ loaded[q] <= n + 1
      BY <1>5, <3>2 DEF Handler
    <3>4. SubSeq(stream', 1, loaded[q]) = SubSeq(stream, 1, loaded[q])
      BY <1>2, <1>3, <3>3, PrefixKept
    <3> HIDE DEF n
    <3> QED BY <1>5, <3>1, <3>2, <3>3, <3>4 DEF Handler
  <2> QED BY <2>1, <2>2
<1> QED BY <1>4, <1>6, <1>7, <1>8 DEF ListInv

LEMMA StepListInv ==
  ASSUME ListInv, NEW r \in Requests, Step(r)
  PROVE  ListInv'
<1>1. CASE Parse(r)
  BY <1>1, ParseStep
<1>2. CASE GetFails(r)
  BY <1>2, GetFailsStep
<1>3. CASE GetLoads(r)
  BY <1>3, GetLoadsStep
<1>4. CASE CallMethod(r)
  BY <1>4, CallMethodStep
<1>5. CASE SaveCommits(r)
  BY <1>5, SaveCommitsStep
<1>6. CASE SaveConflicts(r)
  BY <1>6, RespondStep DEF SaveConflicts, Codes
<1> QED
  BY <1>1, <1>2, <1>3, <1>4, <1>5, <1>6
  DEF Step, CreateCommandHandler, AddItemCommandHandler,
      MarkItemAsDoneCommandHandler, MarkItemAsPendingCommandHandler,
      DeleteItemCommandHandler, GetQueryHandler, GetMethodSave, Save

LEMMA UnchangedListInv == ListInv /\ UNCHANGED listVars => ListInv'
  BY DEF ListInv, ListTypes, CreatedOnce, Handler, listVars

LEMMA NextListInv == ListInv /\ [ServerNext]_serverVars => ListInv'
<1> SUFFICES ASSUME ListInv, [ServerNext]_serverVars PROVE ListInv'
  OBVIOUS
<1>1. CASE UNCHANGED listVars
  BY <1>1, UnchangedListInv
<1>2. CASE \E r \in Requests : Accept(r)
  BY <1>2, SendStep DEF Accept
<1>3. CASE \E r \in Requests : Serve(r)
  BY <1>3, StepListInv DEF Serve
<1> QED
  BY <1>1, <1>2, <1>3
  DEF ServerNext, serverVars, Listen, ListenAndServeFails, ListenAndServeCloses,
      Signal, Run, SelectDone, SelectServerErr, ShutdownCompletes,
      ShutdownTimesOut, RunReturns

LEMMA AlwaysListInv == ServerSpec => []ListInv
<1>1. ServerInit => ListInv
  BY InitListInv DEF ServerInit
<1> QED BY <1>1, NextListInv, PTL DEF ServerSpec

(***************************************************************************)
(* Whatever requests interleave, the stream of a list can be loaded: Apply *)
(* rejects none of the events that handlers save.                          *)
(***************************************************************************)
THEOREM Loadable == ServerSpec => []ListStaysLoadable
<1>1. ListInv => ListStaysLoadable
  BY DEF ListInv, Sound, ListStaysLoadable
<1> QED BY <1>1, AlwaysListInv, PTL

(***************************************************************************)
(* No two items of a list have one id, and a list is created once: AddItem *)
(* and Create look at a list that may be stale, but do not save then.      *)
(***************************************************************************)
THEOREM UniqueItems == ServerSpec => []ItemsAreDistinct
<1>1. ListInv => ItemsAreDistinct
  <2> SUFFICES ASSUME ListInv PROVE ItemsAreDistinct
    OBVIOUS
  <2>1. Rehydrate(stream).items \in Seq(ItemRecords) /\ Distinct(Rehydrate(stream).items)
    BY DEF ListInv, Sound, Lists
  <2>2. stream \in Seq(DomainEvents)
    BY DEF ListInv, ListTypes
  <2>3. \A k \in DOMAIN stream : stream[k].kind = "create" <=> k = 1
    BY <2>2 DEF ListInv, CreatedOnce
  <2> PICK items : items = Rehydrate(stream).items
    OBVIOUS
  <2>4. IsInjective([k \in DOMAIN items |-> items[k].id])
    BY <2>1 DEF IsInjective, Distinct
  <2> QED BY <2>3, <2>4 DEF ItemsAreDistinct
<1> QED BY <1>1, AlwaysListInv, PTL

(***************************************************************************)
(* A command that is answered with success has its effect on the very list *)
(* its method succeeded on, whatever other requests did in between.        *)
(***************************************************************************)
THEOREM NoStaleSuccess == ServerSpec => SuccessIsCurrent
<1> DEFINE Current ==
             \A r \in Requests :
               pc[r] = "save" /\ code'[r] = "ok" =>
                 Method(Rehydrate(stream), req[r]) = "ok"
<1>1. ListInv /\ [ServerNext]_serverVars => [Current]_listVars
  <2> SUFFICES ASSUME ListInv, [ServerNext]_serverVars,
                      NEW r \in Requests, pc[r] = "save", code'[r] = "ok",
                      ~ UNCHANGED listVars
               PROVE  Method(Rehydrate(stream), req[r]) = "ok"
    OBVIOUS
  <2>1. Handler(r) /\ code[r] = "none"
    BY DEF ListInv, Handler
  <2>2. CASE \E q \in Requests : Step(q)
    <3>1. PICK q \in Requests : Step(q)
      BY <2>2
    <3>2. CASE SaveCommits(q)
      <4>1. q = r
        BY <2>1, <3>2 DEF SaveCommits, Respond, ListInv, ListTypes
      <4> QED BY <3>2, <4>1, SavedIsCurrent
    <3>3. CASE ~ SaveCommits(q)
      <4>1. code'[r] # "ok"
        BY <2>1, <3>1, <3>3
        DEF Step, CreateCommandHandler, AddItemCommandHandler,
            MarkItemAsDoneCommandHandler, MarkItemAsPendingCommandHandler,
            DeleteItemCommandHandler, GetQueryHandler, GetMethodSave, Save,
            Parse, GetFails, GetLoads, CallMethod, SaveConflicts, Respond,
            ListInv, ListTypes
      <4> QED BY <4>1
    <3> QED BY <3>2, <3>3
  <2>3. CASE \E q \in Requests : Send(q)
    BY <2>1, <2>3 DEF Send, Receive, ListInv, ListTypes
  <2> QED
    BY <2>2, <2>3
    DEF ServerNext, serverVars, Accept, Serve, Listen, ListenAndServeFails,
        ListenAndServeCloses, Signal, Run, SelectDone, SelectServerErr,
        ShutdownCompletes, ShutdownTimesOut, RunReturns
<1>2. QED BY <1>1, AlwaysListInv, PTL DEF ServerSpec, SuccessIsCurrent

-----------------------------------------------------------------------------

LEMMA InitProcessInv == ServerInit => ProcessInv
  BY DEF ServerInit, ProcessInv

LEMMA NextProcessInv == ProcessInv /\ [ServerNext]_serverVars => ProcessInv'
<1> SUFFICES ASSUME ProcessInv, [ServerNext]_serverVars PROVE ProcessInv'
  OBVIOUS
<1> USE DEF ProcessInv, InFlight
<1>1. CASE UNCHANGED serverVars
  BY <1>1 DEF serverVars, listVars, processVars
<1>2. CASE Listen
  BY <1>2 DEF Listen, listVars
<1>3. CASE ListenAndServeFails
  BY <1>3 DEF ListenAndServeFails, listVars
<1>4. CASE ListenAndServeCloses
  BY <1>4 DEF ListenAndServeCloses, listVars
<1>5. CASE Signal
  BY <1>5 DEF Signal, listVars
<1>6. CASE SelectDone
  BY <1>6 DEF SelectDone, listVars
<1>7. CASE SelectServerErr
  BY <1>7 DEF SelectServerErr, RunReturns, listVars
<1>8. CASE ShutdownCompletes
  BY <1>8 DEF ShutdownCompletes, RunReturns, listVars
<1>9. CASE ShutdownTimesOut
  BY <1>9 DEF ShutdownTimesOut, RunReturns, listVars
<1>10. CASE \E r \in Requests : Accept(r) \/ Serve(r)
  BY <1>10 DEF Accept, Serve, Running, processVars
<1> QED
  BY <1>1, <1>2, <1>3, <1>4, <1>5, <1>6, <1>7, <1>8, <1>9, <1>10
  DEF ServerNext, Run

(***************************************************************************)
(* run returns nil only after a signal, with every request answered, and   *)
(* nothing that happens later changes that.                                *)
(***************************************************************************)
THEOREM GracefulShutdown == ServerSpec => []NilMeansGraceful
<1>1. ProcessInv => NilMeansGraceful
  BY DEF ProcessInv, NilMeansGraceful
<1> QED BY <1>1, InitProcessInv, NextProcessInv, PTL DEF ServerSpec

=============================================================================
