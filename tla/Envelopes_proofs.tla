--------------------------- MODULE Envelopes_proofs ---------------------------
(***************************************************************************)
(* Proofs about Envelopes, for any number of goroutines, maps and events:  *)
(* the rows of a Save that nobody raced tell the metadata its events had,  *)
(* every row can be read back, and the snapshot of a user, the replay of   *)
(* its rows and the root it was saved from agree.                          *)
(***************************************************************************)
EXTENDS Envelopes, SequenceTheorems, WellFoundedInduction, TLAPS

AnyMap == UNION {MapsWith(keys) : keys \in SUBSET Keys}

AnyRef == Refs \cup {Nil}

UsersOf(g) == [id : {g}, birthDate : Moments, email : AnyEmail]

EventsOf(g) ==
  [id : {g}, kind : {"WasCreated"}, birthDate : Moments, email : AnyEmail]
    \cup [id : {g}, kind : {"EmailWasUpdated"}, email : AnyEmail]

EnvelopesOf(g) == [message : EventsOf(g), metadata : AnyRef]

RowsOf(g) == [event : {SerializeEvent(evt) : evt \in EventsOf(g)}, metadata : AnyMap]

(***************************************************************************)
(* Types.  The variables other than the three of references are functions  *)
(* over the goroutines.                                                    *)
(***************************************************************************)
Domains ==
  /\ DOMAIN user = Goroutines
  /\ DOMAIN recorded = Goroutines
  /\ DOMAIN memory = Goroutines
  /\ DOMAIN rows = Goroutines
  /\ DOMAIN aggregates = Goroutines
  /\ DOMAIN inserted = Goroutines
  /\ DOMAIN handed = Goroutines

References ==
  /\ heap \in [Refs -> AnyMap]
  /\ metadata \in [Goroutines -> AnyRef]
  /\ enriched \in [Goroutines -> AnyRef]
  /\ pc \in [Goroutines -> {"idle", "enrich", "insert"}]

Contents(g) ==
  /\ recorded[g] \in Seq(EnvelopesOf(g))
  /\ memory[g] \in Seq(EnvelopesOf(g))
  /\ rows[g] \in Seq(RowsOf(g))
  /\ inserted[g] \in Seq(RowsOf(g))

(***************************************************************************)
(* Where the Save of g is.                                                 *)
(***************************************************************************)
Progress(g) ==
  /\ g \in InMemory => rows[g] = <<>> /\ pc[g] = "idle"
  /\ g \notin InMemory => memory[g] = <<>>
  /\ pc[g] = "idle" => inserted[g] = <<>>
  /\ pc[g] # "insert" => enriched[g] = Nil
  /\ pc[g] = "insert" =>
       Len(inserted[g]) < Len(recorded[g]) /\ enriched[g] # Nil
  /\ pc[g] # "idle" =>
       /\ recorded[g] # <<>>
       /\ Len(inserted[g]) <= Len(recorded[g])
       /\ \A k \in 1 .. Len(inserted[g]) :
            inserted[g][k].event = SerializeEvent(recorded[g][k].message)

(***************************************************************************)
(* The map that appendDomainEvent is writing is the one of the event, or   *)
(* one that it has made itself, to which nothing else refers.              *)
(***************************************************************************)
Referred(g) == {metadata[g]} \cup MapsOf(recorded[g]) \cup MapsOf(memory[g])

Private(g) ==
  pc[g] = "insert" /\ enriched[g] # NextEvent(g).metadata =>
    \A h \in Goroutines :
      enriched[g] \notin Referred(h) /\ (h # g => enriched[g] # enriched[h])

(***************************************************************************)
(* What a Save has done to a map: nothing, or to add the two keys.         *)
(***************************************************************************)
Grown(before, after) ==
  /\ DOMAIN before \subseteq DOMAIN after
  /\ DOMAIN after \subseteq DOMAIN before \cup (Keys \ {"Trace"})
  /\ "Trace" \in DOMAIN after => after["Trace"] = before["Trace"]

Tells(before, row, v) ==
  /\ DOMAIN row = DOMAIN before \cup (Keys \ {"Trace"})
  /\ "Trace" \in DOMAIN row => row["Trace"] = before["Trace"]
  /\ row["Recorded-With-New-Overall-Version"] = v

Batch(g) ==
  pc[g] # "idle" /\ g \notin raced =>
    /\ \A k \in 1 .. Len(recorded[g]) :
         Grown(handed[g][k], Content(recorded[g][k].metadata))
    /\ \A k \in 1 .. Len(inserted[g]) :
         Tells(handed[g][k], inserted[g][k].metadata, newVersion(g))
    /\ pc[g] = "insert" =>
         Tells(handed[g][Len(inserted[g]) + 1], heap[enriched[g]], newVersion(g))

MapInv ==
  /\ Domains
  /\ References
  /\ \A g \in Goroutines :
       Contents(g) /\ Progress(g) /\ Private(g) /\ Batch(g)

(***************************************************************************)
(* The events of the user of g, as Get or Stream returns them or will      *)
(* return them, and the user.                                              *)
(***************************************************************************)
AsRead(g, evt) ==
  IF g \in InMemory THEN evt ELSE DeserializeEvent(SerializeEvent(evt))

Persisted(g) ==
  IF g \in InMemory
  THEN Messages(memory[g])
  ELSE [k \in DOMAIN rows[g] |-> DeserializeEvent(rows[g][k].event)]

Pending(g) == [k \in DOMAIN recorded[g] |-> AsRead(g, recorded[g][k].message)]

History(g) == Persisted(g) \o Pending(g)

UserAsRead(g, u) ==
  IF g \in InMemory THEN u ELSE DeserializeUser(SerializeUser(u))

Root(g) ==
  /\ recorded[g] # <<>> => user[g] # NoUser
  /\ user[g] # NoUser =>
       /\ user[g] \in UsersOf(g)
       /\ History(g) # <<>>
       /\ UserAsRead(g, user[g]) = RehydrateFromEvents(History(g))
  /\ Persisted(g) # <<>> =>
       /\ RehydrateFromEvents(Persisted(g)) \in UsersOf(g)
       /\ UserAsRead(g, RehydrateFromEvents(Persisted(g))) =
            RehydrateFromEvents(Persisted(g))
  /\ rows[g] # <<>> =>
       DeserializeUser(aggregates[g]) = RehydrateFromEvents(Persisted(g))

RootInv == \A g \in Goroutines : Root(g)

-----------------------------------------------------------------------------
(***************************************************************************)
(* Maps.                                                                   *)
(***************************************************************************)
LEMMA PutProperties ==
  ASSUME NEW f \in AnyMap, NEW key \in Keys, NEW v \in Traces \cup {Now} \cup Nat
  PROVE  LET p == Over(Entry(key, v), f)
         IN  /\ p \in AnyMap
             /\ DOMAIN p = DOMAIN f \cup {key}
             /\ p[key] = v
             /\ \A k \in DOMAIN f \ {key} : p[k] = f[k]
<1>1. PICK keys \in SUBSET Keys : f \in MapsWith(keys)
  BY DEF AnyMap
<1> DEFINE p == Over(Entry(key, v), f)
<1>2. p = [k \in keys \cup {key} |-> IF k = key THEN v ELSE f[k]]
  BY <1>1 DEF MapsWith, Over, Entry
<1> HIDE DEF p
<1>3. p \in MapsWith(keys \cup {key})
  BY <1>1, <1>2 DEF MapsWith
<1>4. keys \cup {key} \in SUBSET Keys
  OBVIOUS
<1>5. p \in AnyMap
  BY <1>3, <1>4 DEF AnyMap
<1> QED BY <1>1, <1>2, <1>5 DEF MapsWith, p

LEMMA MergeProperties ==
  ASSUME NEW f \in AnyMap, NEW g \in AnyMap
  PROVE  Over(f, g) \in AnyMap
<1>1. PICK fs \in SUBSET Keys : f \in MapsWith(fs)
  BY DEF AnyMap
<1>2. PICK gs \in SUBSET Keys : g \in MapsWith(gs)
  BY DEF AnyMap
<1>3. Over(f, g) \in MapsWith(fs \cup gs)
  BY <1>1, <1>2 DEF MapsWith, Over
<1>4. fs \cup gs \in SUBSET Keys
  OBVIOUS
<1> QED BY <1>3, <1>4 DEF AnyMap

LEMMA MapDomains ==
  ASSUME NEW f \in AnyMap
  PROVE  DOMAIN f \subseteq Keys /\ f # Nil
<1>1. PICK keys \in SUBSET Keys : f \in MapsWith(keys)
  BY DEF AnyMap
<1> QED BY <1>1, EnvelopesAssumption DEF MapsWith

LEMMA EmptyMap == <<>> \in AnyMap /\ DOMAIN <<>> = {}
<1>1. <<>> \in MapsWith({})
  BY DEF MapsWith
<1> QED BY <1>1 DEF AnyMap

LEMMA EntryProperties ==
  ASSUME NEW v \in Traces \cup {Now} \cup Nat, NEW key \in Keys
  PROVE Entry(key, v) \in AnyMap
<1>1. Entry(key, v) \in MapsWith({key}) /\ {key} \in SUBSET Keys
  BY DEF MapsWith, Entry
<1> QED BY <1>1 DEF AnyMap

-----------------------------------------------------------------------------
(***************************************************************************)
(* Serdes: events and users lose the clock of a birth date on their way to *)
(* the tables and back, and nothing else.                                  *)
(***************************************************************************)
LEMMA EventRoundTrip ==
  ASSUME NEW g \in Goroutines, NEW evt \in EventsOf(g)
  PROVE  /\ SerializeEvent(evt) # Error
         /\ DeserializeEvent(SerializeEvent(evt)) # Error
         /\ DeserializeEvent(SerializeEvent(evt)) =
              IF evt.kind = "WasCreated"
              THEN [id        |-> g,
                    kind      |-> "WasCreated",
                    birthDate |-> dateToTime(evt.birthDate.date),
                    email     |-> evt.email]
              ELSE evt
<1>0. g # Error /\ evt.id = g
  BY EnvelopesAssumption DEF EventsOf
<1> DEFINE id == UUIDString(g)
<1>1. UUIDParse(id) = g
  BY DEF UUIDParse, UUIDString
<1> HIDE DEF id
<1> DEFINE kind == IF evt.kind = "WasCreated"
                   THEN [name      |-> "WasCreated",
                         birthDate |-> evt.birthDate.date,
                         email     |-> evt.email]
                   ELSE [name |-> "EmailWasUpdated", email |-> evt.email]
           message == [message |-> "Event", id |-> id, kind |-> kind]
<1>2. protoEventSerializer(evt) = message
  BY <1>0 DEF protoEventSerializer, timeToDate, EventsOf, id
<1>3. message # Error /\ [text |-> message] # Error
  BY DEF Error
<1>4. SerializeEvent(evt) = [text |-> message]
  <2> HIDE DEF message
  <2> QED BY <1>2, <1>3 DEF SerializeEvent, EventSerde!Serialize, NewProtoJSONSerializer
<1>5. ParseEvent([text |-> message]) = message
  BY DEF ParseEvent, NewProtoJSONDeserializer
<1>6. DeserializeEvent(SerializeEvent(evt)) = protoEventDeserializer(message)
  <2> HIDE DEF message
  <2> QED BY <1>3, <1>4, <1>5 DEF DeserializeEvent, EventSerde!Deserialize
<1>7. CASE evt.kind = "WasCreated"
  <2>1. protoEventDeserializer(message) =
          [id        |-> g,
           kind      |-> "WasCreated",
           birthDate |-> dateToTime(evt.birthDate.date),
           email     |-> evt.email]
    BY <1>0, <1>1, <1>7 DEF protoEventDeserializer
  <2> HIDE DEF message
  <2> QED BY <1>3, <1>4, <1>6, <1>7, <2>1 DEF Error
<1>8. CASE evt.kind # "WasCreated"
  <2>1. evt = [id |-> g, kind |-> "EmailWasUpdated", email |-> evt.email]
    BY <1>8 DEF EventsOf
  <2>2. protoEventDeserializer(message) =
          [id |-> g, kind |-> "EmailWasUpdated", email |-> evt.email]
    BY <1>0, <1>1, <1>8 DEF protoEventDeserializer
  <2> HIDE DEF message
  <2> QED BY <1>3, <1>4, <1>6, <1>8, <2>1, <2>2 DEF Error
<1> QED BY <1>7, <1>8

LEMMA EventAsRead ==
  ASSUME NEW g \in Goroutines, NEW evt \in EventsOf(g)
  PROVE  AsRead(g, evt) \in EventsOf(g)
<1>1. CASE evt.kind # "WasCreated"
  BY <1>1, EventRoundTrip DEF AsRead
<1>2. CASE evt.kind = "WasCreated"
  <2>1. dateToTime(evt.birthDate.date) \in Moments /\ evt.email \in AnyEmail
    BY <1>2 DEF EventsOf, Moments, dateToTime
  <2> QED BY <1>2, <2>1, EventRoundTrip DEF AsRead, EventsOf
<1> QED BY <1>1, <1>2

LEMMA UserRoundTrip ==
  ASSUME NEW g \in Goroutines, NEW u \in UsersOf(g)
  PROVE  DeserializeUser(SerializeUser(u)) =
           [id        |-> g,
            birthDate |-> dateToTime(u.birthDate.date),
            email     |-> u.email]
<1>0. g # Error /\ u.id = g
  BY EnvelopesAssumption DEF UsersOf
<1> DEFINE id == UUIDString(g)
<1>1. UUIDParse(id) = g
  BY DEF UUIDParse, UUIDString
<1> HIDE DEF id
<1> DEFINE message == [message   |-> "User",
                       id        |-> id,
                       birthDate |-> u.birthDate.date,
                       email     |-> u.email]
<1>2. protoSerializer(u) = message
  BY <1>0 DEF protoSerializer, timeToDate, id
<1>3. message # Error
  BY DEF Error
<1>4. SerializeUser(u) = [text |-> message]
  <2> HIDE DEF message
  <2> QED BY <1>2, <1>3 DEF SerializeUser, UserSerde!Serialize, NewProtoJSONSerializer
<1>5. ParseUser([text |-> message]) = message
  BY DEF ParseUser, NewProtoJSONDeserializer
<1>6. DeserializeUser(SerializeUser(u)) = protoDeserializer(message)
  <2> HIDE DEF message
  <2> QED BY <1>3, <1>4, <1>5 DEF DeserializeUser, UserSerde!Deserialize
<1>7. protoDeserializer(message) =
        [id        |-> g,
         birthDate |-> dateToTime(u.birthDate.date),
         email     |-> u.email]
  BY <1>0, <1>1 DEF protoDeserializer
<1> QED BY <1>6, <1>7

LEMMA UserAsReadProperties ==
  ASSUME NEW g \in Goroutines, NEW u \in UsersOf(g)
  PROVE  /\ UserAsRead(g, u) \in UsersOf(g)
         /\ UserAsRead(g, UserAsRead(g, u)) = UserAsRead(g, u)
<1>1. CASE g \in InMemory
  BY <1>1 DEF UserAsRead
<1>2. CASE g \notin InMemory
  <2> DEFINE v == [id        |-> g,
                   birthDate |-> dateToTime(u.birthDate.date),
                   email     |-> u.email]
  <2>1. UserAsRead(g, u) = v
    BY <1>2, UserRoundTrip DEF UserAsRead
  <2>2. dateToTime(u.birthDate.date) \in Moments /\ u.email \in AnyEmail
    BY DEF UsersOf, Moments, dateToTime
  <2>3. v \in UsersOf(g)
    BY <2>2 DEF UsersOf
  <2>4. dateToTime(v.birthDate.date) = v.birthDate
    BY DEF dateToTime
  <2>5. UserAsRead(g, v) = v
    BY <1>2, <2>3, <2>4, UserRoundTrip DEF UserAsRead
  <2> QED BY <2>1, <2>3, <2>5
<1> QED BY <1>1, <1>2

(***************************************************************************)
(* To apply an event and to write and read the user is to write and read   *)
(* both and to apply them then.                                            *)
(***************************************************************************)
LEMMA CreatedAsRead ==
  ASSUME NEW g \in Goroutines, NEW evt \in EventsOf(g), evt.kind = "WasCreated"
  PROVE  /\ Apply(NoUser, evt) \in UsersOf(g)
         /\ UserAsRead(g, Apply(NoUser, evt)) = Apply(NoUser, AsRead(g, evt))
<1>1. Apply(NoUser, evt) =
        [id |-> g, birthDate |-> evt.birthDate, email |-> evt.email]
  BY DEF Apply, EventsOf
<1>2. evt.birthDate \in Moments /\ evt.email \in AnyEmail
  BY DEF EventsOf
<1>3. Apply(NoUser, evt) \in UsersOf(g)
  BY <1>1, <1>2 DEF UsersOf
<1>4. CASE g \in InMemory
  BY <1>3, <1>4 DEF UserAsRead, AsRead
<1>5. CASE g \notin InMemory
  <2>1. UserAsRead(g, Apply(NoUser, evt)) =
          [id        |-> g,
           birthDate |-> dateToTime(evt.birthDate.date),
           email     |-> evt.email]
    BY <1>1, <1>3, <1>5, UserRoundTrip DEF UserAsRead
  <2>2. AsRead(g, evt) = [id        |-> g,
                          kind      |-> "WasCreated",
                          birthDate |-> dateToTime(evt.birthDate.date),
                          email     |-> evt.email]
    BY <1>5, EventRoundTrip DEF AsRead
  <2> QED BY <1>3, <2>1, <2>2 DEF Apply
<1> QED BY <1>3, <1>4, <1>5

LEMMA UpdatedAsRead ==
  ASSUME NEW g \in Goroutines, NEW u \in UsersOf(g),
         NEW evt \in EventsOf(g), evt.kind = "EmailWasUpdated"
  PROVE  /\ Apply(u, evt) \in UsersOf(g)
         /\ UserAsRead(g, Apply(u, evt)) = Apply(UserAsRead(g, u), AsRead(g, evt))
<1>1. /\ u = [id |-> g, birthDate |-> u.birthDate, email |-> u.email]
      /\ u.birthDate \in Moments
      /\ evt.email \in AnyEmail
  BY DEF UsersOf, EventsOf
<1>2. Apply(u, evt) = [id |-> g, birthDate |-> u.birthDate, email |-> evt.email]
  BY <1>1 DEF Apply
<1>3. Apply(u, evt) \in UsersOf(g)
  BY <1>1, <1>2 DEF UsersOf
<1>4. CASE g \in InMemory
  BY <1>3, <1>4 DEF UserAsRead, AsRead
<1>5. CASE g \notin InMemory
  <2> DEFINE v == [id        |-> g,
                   birthDate |-> dateToTime(u.birthDate.date),
                   email     |-> u.email]
  <2>1. UserAsRead(g, Apply(u, evt)) =
          [id        |-> g,
           birthDate |-> dateToTime(u.birthDate.date),
           email     |-> evt.email]
    BY <1>2, <1>3, <1>5, UserRoundTrip DEF UserAsRead
  <2>2. AsRead(g, evt) = evt
    BY <1>5, EventRoundTrip DEF AsRead
  <2>3. UserAsRead(g, u) = v
    BY <1>5, UserRoundTrip DEF UserAsRead
  <2>4. Apply(v, evt) = [v EXCEPT !.email = evt.email]
    BY DEF Apply
  <2>5. Apply(v, evt) = [id        |-> g,
                         birthDate |-> dateToTime(u.birthDate.date),
                         email     |-> evt.email]
    BY <2>4
  <2> QED BY <1>3, <2>1, <2>2, <2>3, <2>5
<1> QED BY <1>3, <1>4, <1>5

-----------------------------------------------------------------------------
(***************************************************************************)
(* Induction over the naturals, for a set in place of a predicate.         *)
(***************************************************************************)
LEMMA InductionOnSet ==
  ASSUME NEW S, 0 \in S, \A n \in Nat : n \in S => n + 1 \in S
  PROVE  Nat \subseteq S
<1> DEFINE T == Nat \ S
           R == {ss \in Nat \X Nat : ss[1] < ss[2]}
<1>1. SUFFICES ASSUME T # {} PROVE FALSE
  OBVIOUS
<1>2. IsWellFoundedOn(R, Nat)
  BY NatLessThanWellFounded DEF OpToRel
<1>3. T \subseteq Nat
  OBVIOUS
<1>4. \E t \in T : \A y \in T : ~ (<<y, t>> \in R)
  <2> HIDE DEF T, R
  <2> QED BY <1>1, <1>2, <1>3, WFMin
<1>5. PICK t \in T : \A y \in T : ~ (<<y, t>> \in R)
  BY <1>4
<1>6. t \in Nat \ {0} /\ t - 1 \in Nat
  OBVIOUS
<1>7. <<t - 1, t>> \in R
  BY <1>6
<1>8. t - 1 \in S
  <2> HIDE DEF R
  <2> QED BY <1>5, <1>6, <1>7
<1> QED BY <1>6, <1>8

(***************************************************************************)
(* Two functions that start alike, and of which each step is the same      *)
(* whenever the one before was, are the same.                              *)
(***************************************************************************)
LEMMA SameRecursion ==
  ASSUME NEW n \in Nat, NEW f, NEW g, f[0] = g[0],
         \A k \in 1 .. n : f[k - 1] = g[k - 1] => f[k] = g[k]
  PROVE  \A k \in 0 .. n : f[k] = g[k]
<1> DEFINE S == {k \in Nat : k <= n => f[k] = g[k]}
<1>1. 0 \in S
  OBVIOUS
<1>2. \A k \in Nat : k \in S => k + 1 \in S
  <2> SUFFICES ASSUME NEW k \in Nat, k \in S, k + 1 <= n
               PROVE  f[k + 1] = g[k + 1]
    OBVIOUS
  <2>1. k + 1 \in 1 .. n /\ (k + 1) - 1 = k /\ k <= n
    OBVIOUS
  <2> QED BY <2>1
<1>3. Nat \subseteq S
  <2> HIDE DEF S
  <2> QED BY <1>1, <1>2, InductionOnSet
<1> QED BY <1>3

(***************************************************************************)
(* The users that the prefixes of a history lead to.                       *)
(***************************************************************************)
Replay(f, events, n) ==
  f = [k \in 0 .. n |->
         IF k = 0 THEN NoUser ELSE Apply(f[k - 1], events[k])]

LEMMA ReplayExists ==
  ASSUME NEW events, NEW n \in Nat
  PROVE  \E f : Replay(f, events, n)
<1> DEFINE S == {m \in Nat : \E f : Replay(f, events, m)}
<1>1. 0 \in S
  <2>1. Replay([k \in 0 .. 0 |-> NoUser], events, 0)
    BY DEF Replay
  <2> QED BY <2>1
<1>2. ASSUME NEW m \in Nat, m \in S PROVE m + 1 \in S
  <2>1. PICK f : Replay(f, events, m)
    BY <1>2
  <2> DEFINE g == [k \in 0 .. (m + 1) |->
                     IF k = m + 1 THEN Apply(f[m], events[m + 1]) ELSE f[k]]
             h == [k \in 0 .. (m + 1) |->
                     IF k = 0 THEN NoUser ELSE Apply(g[k - 1], events[k])]
  <2>2. \A k \in 0 .. m : f[k] = IF k = 0 THEN NoUser ELSE Apply(f[k - 1], events[k])
    BY <2>1 DEF Replay
  <2>3. ASSUME NEW k \in 0 .. (m + 1) PROVE g[k] = h[k]
    <3>1. CASE k = m + 1
      <4>1. k # 0 /\ k - 1 = m /\ m \in 0 .. (m + 1) /\ m # m + 1
        BY <3>1
      <4> QED BY <3>1, <4>1
    <3>2. CASE k = 0
      BY <2>2, <3>2
    <3>3. CASE k \in 1 .. m
      <4>1. k - 1 \in 0 .. (m + 1) /\ k - 1 # m + 1 /\ k # m + 1 /\ k # 0
        BY <3>3
      <4> QED BY <2>2, <3>3, <4>1
    <3> QED BY <3>1, <3>2, <3>3
  <2>4. g = h
    BY <2>3
  <2>5. Replay(g, events, m + 1)
    <3> HIDE DEF g
    <3> QED BY <2>4 DEF Replay
  <2> QED BY <2>5
<1>3. Nat \subseteq S
  <2> HIDE DEF S
  <2> QED BY <1>1, <1>2, InductionOnSet
<1> QED BY <1>3

LEMMA RehydrateIsReplay ==
  ASSUME NEW events, Len(events) \in Nat
  PROVE  \E f : /\ Replay(f, events, Len(events))
                /\ RehydrateFromEvents(events) = f[Len(events)]
<1> DEFINE n == Len(events)
           f == CHOOSE f : Replay(f, events, n)
<1>1. Replay(f, events, n)
  BY ReplayExists
<1>2. RehydrateFromEvents(events) = f[n]
  BY DEF RehydrateFromEvents, Replay
<1> QED BY <1>1, <1>2

LEMMA RehydrateEmpty == RehydrateFromEvents(<<>>) = NoUser
<1>1. Len(<<>>) = 0 /\ 0 \in 0 .. 0
  OBVIOUS
<1>2. PICK f : Replay(f, <<>>, 0) /\ RehydrateFromEvents(<<>>) = f[0]
  BY <1>1, RehydrateIsReplay
<1> QED BY <1>1, <1>2 DEF Replay

(***************************************************************************)
(* A root that is loaded from one more event has applied that one.         *)
(***************************************************************************)
LEMMA RehydrateAppend ==
  ASSUME NEW S, NEW events \in Seq(S), NEW e \in S
  PROVE  RehydrateFromEvents(Append(events, e)) =
           Apply(RehydrateFromEvents(events), e)
<1> DEFINE longer == Append(events, e)
           n == Len(events)
<1>1. /\ n \in Nat
      /\ Len(longer) = n + 1
      /\ longer[n + 1] = e
      /\ \A k \in 1 .. n : longer[k] = events[k]
  OBVIOUS
<1> HIDE DEF longer, n
<1>2. PICK f : Replay(f, events, n) /\ RehydrateFromEvents(events) = f[n]
  BY <1>1, RehydrateIsReplay DEF n
<1>3. PICK g : Replay(g, longer, n + 1) /\ RehydrateFromEvents(longer) = g[n + 1]
  BY <1>1, RehydrateIsReplay
<1>4. f[0] = g[0]
  BY <1>1, <1>2, <1>3 DEF Replay
<1>5. \A k \in 1 .. n : f[k - 1] = g[k - 1] => f[k] = g[k]
  <2> TAKE k \in 1 .. n
  <2>1. k \in 0 .. n /\ k \in 0 .. (n + 1) /\ k # 0
    BY <1>1
  <2>2. f[k] = Apply(f[k - 1], events[k])
    BY <1>2, <2>1 DEF Replay
  <2>3. g[k] = Apply(g[k - 1], longer[k])
    BY <1>3, <2>1 DEF Replay
  <2> QED BY <2>2, <2>3, <1>1
<1>6. f[n] = g[n]
  <2>1. n \in Nat
    BY <1>1
  <2>2. \A k \in 0 .. n : f[k] = g[k]
    BY ONLY <2>1, <1>4, <1>5, SameRecursion, Zenon
  <2> QED BY <2>1, <2>2
<1>7. g[n + 1] = Apply(g[n], longer[n + 1])
  <2>1. n + 1 \in 0 .. (n + 1) /\ n + 1 # 0 /\ (n + 1) - 1 = n
    BY <1>1
  <2> QED BY <1>3, <2>1 DEF Replay
<1> QED BY <1>1, <1>2, <1>3, <1>6, <1>7 DEF longer

-----------------------------------------------------------------------------
(***************************************************************************)
(* What a step of another goroutine leaves of h: all that h has, and the   *)
(* maps of its Save, unless it has been raced.                             *)
(***************************************************************************)
Same(h) ==
  /\ metadata'[h] = metadata[h] /\ recorded'[h] = recorded[h]
  /\ memory'[h] = memory[h] /\ rows'[h] = rows[h]
  /\ pc'[h] = pc[h] /\ inserted'[h] = inserted[h]
  /\ enriched'[h] = enriched[h] /\ handed'[h] = handed[h]

Quiet(h) ==
  pc[h] # "idle" /\ h \notin raced' =>
    /\ h \notin raced
    /\ \A r \in MapsOf(recorded[h]) \cup {enriched[h]} :
         r # Nil => heap'[r] = heap[r]

Known(r) ==
  r = Nil \/ r \in Unused \/ \E h \in Goroutines : r \in Referred(h)

LEMMA InitMapInv == Init => MapInv
<1> SUFFICES ASSUME Init PROVE MapInv
  OBVIOUS
<1>1. Domains
  BY DEF Init, Domains
<1>2. References
  BY EmptyMap DEF Init, References, AnyRef
<1>3. ASSUME NEW g \in Goroutines
      PROVE  Contents(g) /\ Progress(g) /\ Private(g) /\ Batch(g)
  BY DEF Init, Contents, Progress, Private, Batch
<1> QED BY <1>1, <1>2, <1>3 DEF MapInv

LEMMA NewIsUnused ==
  ASSUME Unused # {}
  PROVE  /\ New \in Refs /\ New # Nil /\ New \in Unused
         /\ \A h \in Goroutines : New \notin Held(h)
<1>1. New \in Unused
  BY DEF New
<1> QED BY <1>1, EnvelopesAssumption DEF Unused

LEMMA ContentIsMap ==
  ASSUME References, NEW r \in AnyRef
  PROVE  Content(r) \in AnyMap
  BY EmptyMap DEF References, AnyRef, Content

LEMMA MapsOfContents ==
  ASSUME MapInv, NEW g \in Goroutines
  PROVE  /\ MapsOf(recorded[g]) = {recorded[g][k].metadata : k \in 1 .. Len(recorded[g])}
         /\ MapsOf(memory[g]) = {memory[g][k].metadata : k \in 1 .. Len(memory[g])}
         /\ \A k \in 1 .. Len(recorded[g]) : recorded[g][k] \in EnvelopesOf(g)
         /\ Referred(g) \subseteq AnyRef
         /\ Len(recorded[g]) \in Nat /\ Len(inserted[g]) \in Nat
<1>1. recorded[g] \in Seq(EnvelopesOf(g)) /\ memory[g] \in Seq(EnvelopesOf(g))
  BY DEF MapInv, Contents
<1>2. inserted[g] \in Seq(RowsOf(g)) /\ metadata[g] \in AnyRef
  BY DEF MapInv, Contents, References
<1>3. MapsOf(recorded[g]) = {recorded[g][k].metadata : k \in 1 .. Len(recorded[g])}
  BY <1>1 DEF MapsOf
<1>4. MapsOf(memory[g]) = {memory[g][k].metadata : k \in 1 .. Len(memory[g])}
  BY <1>1 DEF MapsOf
<1>5. \A k \in 1 .. Len(recorded[g]) : recorded[g][k] \in EnvelopesOf(g)
  BY <1>1
<1>6. \A k \in 1 .. Len(memory[g]) : memory[g][k] \in EnvelopesOf(g)
  BY <1>1
<1>7. Referred(g) \subseteq AnyRef
  BY <1>2, <1>3, <1>4, <1>5, <1>6 DEF Referred, EnvelopesOf
<1> QED BY <1>1, <1>2, <1>3, <1>4, <1>5, <1>7

LEMMA OtherKeeps ==
  ASSUME MapInv, NEW h \in Goroutines, Same(h), Quiet(h)
  PROVE  Contents(h)' /\ Progress(h)' /\ Batch(h)'
<1>1. Contents(h) /\ Progress(h) /\ Batch(h)
  BY DEF MapInv
<1>2. Contents(h)'
  BY <1>1 DEF Contents, Same
<1>3. Progress(h)'
  BY <1>1 DEF Progress, Same
<1>4. Batch(h)'
  <2> SUFFICES ASSUME pc[h] # "idle", h \notin raced' PROVE Batch(h)'
    BY DEF Batch, Same
  <2>1. /\ h \notin raced
        /\ \A r \in MapsOf(recorded[h]) \cup {enriched[h]} :
             r # Nil => heap'[r] = heap[r]
    BY DEF Quiet
  <2>2. ASSUME NEW k \in 1 .. Len(recorded[h])
        PROVE  Content(recorded[h][k].metadata)' = Content(recorded[h][k].metadata)
    <3>1. recorded[h][k].metadata \in MapsOf(recorded[h])
      BY MapsOfContents
    <3>2. recorded'[h][k].metadata = recorded[h][k].metadata
      BY DEF Same
    <3> QED BY <2>1, <3>1, <3>2 DEF Content
  <2>3. newVersion(h)' = newVersion(h)
    BY DEF newVersion, Same
  <2>4. pc[h] = "insert" => heap'[enriched[h]] = heap[enriched[h]]
    BY <1>1, <2>1 DEF Progress
  <2>5. /\ \A k \in 1 .. Len(recorded[h]) :
             Grown(handed[h][k], Content(recorded[h][k].metadata))
        /\ \A k \in 1 .. Len(inserted[h]) :
             Tells(handed[h][k], inserted[h][k].metadata, newVersion(h))
        /\ pc[h] = "insert" =>
             Tells(handed[h][Len(inserted[h]) + 1], heap[enriched[h]], newVersion(h))
    BY <1>1, <2>1 DEF Batch
  <2>6. \A k \in 1 .. Len(recorded'[h]) :
          Grown(handed'[h][k], Content(recorded[h][k].metadata)')
    BY <2>2, <2>5 DEF Same
  <2>7. \A k \in 1 .. Len(inserted'[h]) :
          Tells(handed'[h][k], inserted'[h][k].metadata, newVersion(h)')
    BY <2>3, <2>5 DEF Same
  <2>8. pc'[h] = "insert" =>
          Tells(handed'[h][Len(inserted'[h]) + 1], heap'[enriched'[h]], newVersion(h)')
    BY <2>3, <2>4, <2>5 DEF Same
  <2> QED BY <2>6, <2>7, <2>8 DEF Batch
<1> QED BY <1>2, <1>3, <1>4

LEMMA PrivateKept ==
  ASSUME MapInv, NEW h \in Goroutines,
         pc'[h] = "insert" => pc[h] = "insert",
         enriched'[h] = enriched[h], NextEvent(h)' = NextEvent(h),
         \A q \in Goroutines : \A r \in Referred(q)' : Known(r),
         \A q \in Goroutines \ {h} :
           enriched'[q] = enriched[q] \/ Known(enriched'[q])
  PROVE  Private(h)'
<1> SUFFICES ASSUME pc[h] = "insert", enriched[h] # NextEvent(h).metadata,
                    NEW q \in Goroutines
             PROVE  /\ enriched[h] \notin Referred(q)'
                    /\ q # h => enriched[h] # enriched'[q]
  BY DEF Private
<1>1. \A p \in Goroutines :
        enriched[h] \notin Referred(p) /\ (p # h => enriched[h] # enriched[p])
  BY DEF MapInv, Private
<1>2. enriched[h] # Nil
  BY DEF MapInv, Progress
<1>3. enriched[h] \notin Unused
  BY DEF Unused, Held
<1>4. ~ Known(enriched[h])
  BY <1>1, <1>2, <1>3 DEF Known
<1> QED BY <1>1, <1>4

LEMMA SameReferred ==
  ASSUME NEW h \in Goroutines, Same(h)
  PROVE  Referred(h)' = Referred(h) /\ NextEvent(h)' = NextEvent(h)
<1>1. MapsOf(recorded[h])' = MapsOf(recorded[h]) /\ MapsOf(memory[h])' = MapsOf(memory[h])
  BY DEF Same, MapsOf
<1>2. NextEvent(h)' = NextEvent(h)
  BY DEF Same, NextEvent
<1> QED BY <1>1, <1>2 DEF Referred, Same

(***************************************************************************)
(* A step of g outside of its Save.                                        *)
(***************************************************************************)
LEMMA IdleStep ==
  ASSUME MapInv, NEW g \in Goroutines, pc[g] = "idle",
         UNCHANGED <<rows, saveVars>>, Domains', References',
         \A h \in Goroutines \ {g} : Same(h) /\ Quiet(h),
         \A r \in Referred(g)' : Known(r),
         Contents(g)', g \notin InMemory => memory'[g] = <<>>
  PROVE  MapInv'
<1>1. UNCHANGED <<pc, rows, inserted, enriched, handed>>
  BY DEF saveVars
<1>2. ASSUME NEW h \in Goroutines \ {g}
      PROVE  Contents(h)' /\ Progress(h)' /\ Batch(h)'
  BY <1>2, OtherKeeps
<1>3. Progress(g)'
  BY <1>1 DEF MapInv, Progress
<1>4. Batch(g)' /\ Private(g)'
  BY <1>1 DEF Batch, Private
<1>5. ASSUME NEW h \in Goroutines \ {g} PROVE Private(h)'
  <2>1. NextEvent(h)' = NextEvent(h)
    BY SameReferred
  <2>2. \A q \in Goroutines : \A r \in Referred(q)' : Known(r)
    <3> SUFFICES ASSUME NEW q \in Goroutines \ {g}, NEW r \in Referred(q)'
                 PROVE  Known(r)
      OBVIOUS
    <3> QED BY SameReferred DEF Known
  <2> QED BY <1>1, <2>1, <2>2, PrivateKept
<1> QED BY <1>2, <1>3, <1>4, <1>5 DEF MapInv

(***************************************************************************)
(* A write to a map that g refers to, or to a new one.                     *)
(***************************************************************************)
LEMMA WriteStep ==
  ASSUME MapInv, NEW g \in Goroutines, NEW m, Write(g, m),
         m.map \in AnyMap, m.at \in Refs, m.at \in Unused \/ m.at \in Referred(g)
  PROVE  /\ heap' = [heap EXCEPT ![m.at] = m.map]
         /\ heap' \in [Refs -> AnyMap]
         /\ \A h \in Goroutines \ {g} : Quiet(h)
<1>1. m.at # Nil
  BY EnvelopesAssumption
<1>2. heap' = [heap EXCEPT ![m.at] = m.map] /\ heap \in [Refs -> AnyMap]
  BY <1>1 DEF Write, MapInv, References
<1>3. ASSUME NEW h \in Goroutines \ {g}, pc[h] # "idle", h \notin raced'
      PROVE  /\ h \notin raced
             /\ \A r \in MapsOf(recorded[h]) \cup {enriched[h]} :
                  r # Nil => heap'[r] = heap[r]
  <2>1. h \notin raced /\ m.at \notin MapsOf(recorded[h])
    BY <1>3 DEF Write
  <2>2. MapsOf(recorded[h]) \subseteq AnyRef /\ enriched[h] \in AnyRef
    BY MapsOfContents DEF Referred, MapInv, References
  <2>3. enriched[h] # Nil => enriched[h] # m.at
    <3> SUFFICES ASSUME enriched[h] = m.at PROVE FALSE
      BY <1>1
    <3>1. pc[h] = "insert" /\ Len(inserted[h]) < Len(recorded[h])
      BY <1>1 DEF MapInv, Progress
    <3>2. enriched[h] # NextEvent(h).metadata
      <4>1. Len(inserted[h]) + 1 \in 1 .. Len(recorded[h])
        BY <3>1, MapsOfContents
      <4>2. NextEvent(h).metadata \in MapsOf(recorded[h])
        BY <4>1, MapsOfContents DEF NextEvent
      <4> QED BY <2>1, <4>2
    <3>3. m.at \notin Referred(g)
      BY <3>1, <3>2 DEF MapInv, Private
    <3>4. m.at \notin Unused
      BY DEF Unused, Held
    <3> QED BY <3>3, <3>4
  <2>4. \A r \in Refs : r # m.at => heap'[r] = heap[r]
    BY <1>2
  <2> QED BY <2>1, <2>2, <2>3, <2>4 DEF AnyRef
<1> QED BY <1>2, <1>3 DEF Quiet

-----------------------------------------------------------------------------
(* The steps of a handler.                                                 *)

LEMMA MetadataStep ==
  ASSUME MapInv, NEW g \in Goroutines, pc[g] = "idle", NEW r \in AnyRef, Known(r),
         metadata' = [metadata EXCEPT ![g] = r],
         UNCHANGED <<user, recorded, memory, tables, saveVars>>,
         heap' \in [Refs -> AnyMap],
         \A h \in Goroutines \ {g} : Quiet(h)
  PROVE  MapInv'
<1>1. UNCHANGED <<recorded, memory, rows, aggregates, user, pc, inserted, enriched,
                  handed>>
  BY DEF tables, saveVars
<1>2. metadata \in [Goroutines -> AnyRef]
  BY DEF MapInv, References
<1>3. \A h \in Goroutines \ {g} : Same(h)
  BY <1>1, <1>2 DEF Same
<1>4. Domains' /\ References'
  BY <1>1, <1>2 DEF MapInv, Domains, References
<1>5. Contents(g)' /\ (g \notin InMemory => memory'[g] = <<>>)
  BY <1>1 DEF MapInv, Contents, Progress
<1>6. Referred(g)' \subseteq Referred(g) \cup {r}
  BY <1>1, <1>2 DEF Referred, MapsOf
<1>7. \A q \in Referred(g)' : Known(q)
  BY <1>6 DEF Known
<1> QED BY <1>1, <1>3, <1>4, <1>5, <1>7, IdleStep

LEMMA SameHeapQuiet ==
  ASSUME UNCHANGED <<heap, raced>>, NEW h
  PROVE  Quiet(h)
  BY DEF Quiet

LEMMA HandleStep ==
  ASSUME MapInv, NEW g \in Goroutines, NEW r \in AnyRef, Known(r),
         Handle(g, [message |-> "ChangeUser", metadata |-> r]),
         heap' \in [Refs -> AnyMap],
         \A h \in Goroutines \ {g} : Quiet(h)
  PROVE  MapInv'
<1>1. /\ pc[g] = "idle"
      /\ metadata' = [metadata EXCEPT ![g] = r]
      /\ UNCHANGED <<user, recorded, memory, tables, saveVars>>
  BY DEF Handle, FromGenericEnvelope, ToGenericEnvelope
<1> QED BY <1>1, MetadataStep

LEMMA HandleBareStep ==
  ASSUME MapInv, NEW g \in Goroutines, HandleBare(g)
  PROVE  MapInv'
<1>1. Handle(g, [message |-> "ChangeUser", metadata |-> Nil]) /\ UNCHANGED <<heap, raced>>
  BY DEF HandleBare, ToEnvelope
<1>2. Nil \in AnyRef /\ Known(Nil) /\ heap' \in [Refs -> AnyMap]
  BY <1>1 DEF AnyRef, Known, MapInv, References
<1> QED BY <1>1, <1>2, SameHeapQuiet, HandleStep

LEMMA HandleSharedStep ==
  ASSUME MapInv, NEW g \in Goroutines, NEW h \in Goroutines, HandleShared(g, h)
  PROVE  MapInv'
<1> DEFINE r == metadata[h]
<1>1. Handle(g, [message |-> "ChangeUser", metadata |-> r]) /\ UNCHANGED <<heap, raced>>
  BY DEF HandleShared
<1>2. r \in AnyRef /\ Known(r) /\ heap' \in [Refs -> AnyMap]
  BY <1>1 DEF Known, Referred, MapInv, References
<1> HIDE DEF r
<1> QED BY <1>1, <1>2, SameHeapQuiet, HandleStep

LEMMA HandleTracedStep ==
  ASSUME MapInv, NEW g \in Goroutines, NEW trace \in Traces, HandleTraced(g, trace)
  PROVE  MapInv'
<1> DEFINE r == New
<1>1. /\ Handle(g, [message |-> "ChangeUser", metadata |-> r])
      /\ heap' = [heap EXCEPT ![r] = Entry("Trace", trace)]
      /\ UNCHANGED raced
      /\ Unused # {}
  BY DEF HandleTraced
<1>2. /\ r \in Refs /\ r # Nil /\ r \in Unused
      /\ \A h \in Goroutines : r \notin Held(h)
  BY <1>1, NewIsUnused
<1> HIDE DEF r
<1>3. Entry("Trace", trace) \in AnyMap /\ heap \in [Refs -> AnyMap]
  BY EntryProperties DEF Keys, MapInv, References
<1>4. heap' \in [Refs -> AnyMap] /\ \A q \in Refs : q # r => heap'[q] = heap[q]
  BY <1>1, <1>2, <1>3
<1>5. ASSUME NEW h \in Goroutines PROVE Quiet(h)
  <2>1. r \notin MapsOf(recorded[h]) \cup {enriched[h]}
    BY <1>2 DEF Held
  <2>2. MapsOf(recorded[h]) \cup {enriched[h]} \subseteq AnyRef
    BY MapsOfContents DEF Referred, MapInv, References
  <2> QED BY <1>1, <1>4, <2>1, <2>2 DEF Quiet, AnyRef
<1>6. r \in AnyRef /\ Known(r)
  BY <1>2 DEF AnyRef, Known
<1> QED BY <1>1, <1>4, <1>5, <1>6, HandleStep

LEMMA AddTraceStep ==
  ASSUME MapInv, NEW g \in Goroutines, NEW trace \in Traces, AddTrace(g, trace)
  PROVE  MapInv'
<1> DEFINE m == With(At(metadata[g]), "Trace", trace)
<1>1. /\ pc[g] = "idle" /\ Unused # {} /\ Write(g, m)
      /\ metadata' = [metadata EXCEPT ![g] = m.at]
      /\ UNCHANGED <<user, recorded, memory, tables, saveVars>>
  BY DEF AddTrace
<1>2. metadata[g] \in AnyRef /\ metadata[g] \in Referred(g)
  BY DEF MapInv, References, Referred
<1>3. /\ m.at = IF metadata[g] = Nil THEN New ELSE metadata[g]
      /\ m.map = Over(Entry("Trace", trace), Content(metadata[g]))
  BY DEF With, At
<1>4. Content(metadata[g]) \in AnyMap /\ "Trace" \in Keys
  BY <1>2, ContentIsMap DEF MapInv, Keys
<1>5. m.map \in AnyMap
  <2>1. Over(Entry("Trace", trace), Content(metadata[g])) \in AnyMap
    BY <1>4, PutProperties
  <2> QED BY <1>3, <2>1
<1>6. m.at \in Refs /\ (m.at \in Unused \/ m.at \in Referred(g))
  BY <1>1, <1>2, <1>3, NewIsUnused DEF AnyRef
<1> HIDE DEF m
<1>7. heap' \in [Refs -> AnyMap] /\ \A h \in Goroutines \ {g} : Quiet(h)
  BY <1>1, <1>5, <1>6, WriteStep
<1>8. PICK r : r = m.at
  OBVIOUS
<1>9. r \in AnyRef /\ Known(r)
  BY <1>6, <1>8 DEF AnyRef, Known
<1> QED BY <1>1, <1>7, <1>8, <1>9, MetadataStep

LEMMA MergeStreamedStep ==
  ASSUME MapInv, NEW g \in Goroutines, NEW h \in Goroutines,
         NEW k \in DOMAIN memory[h], MergeStreamed(g, h, k)
  PROVE  MapInv'
<1> DEFINE other == memory[h][k].metadata
           m == Merge(At(metadata[g]), At(other))
<1>1. /\ pc[g] = "idle"
      /\ IF metadata[g] = Nil THEN UNCHANGED <<heap, raced>> ELSE Write(g, m)
      /\ metadata' = [metadata EXCEPT ![g] = m.at]
      /\ UNCHANGED <<user, recorded, memory, tables, saveVars>>
  BY DEF MergeStreamed
<1>2. metadata[g] \in AnyRef /\ metadata[g] \in Referred(g) /\ heap \in [Refs -> AnyMap]
  BY DEF MapInv, References, Referred
<1>3. other \in Referred(h) /\ other \in AnyRef
  <2>1. other \in MapsOf(memory[h])
    BY DEF MapsOf
  <2> HIDE DEF other
  <2> QED BY <2>1, MapsOfContents DEF Referred
<1>4. /\ m.at = IF metadata[g] = Nil THEN other ELSE metadata[g]
      /\ metadata[g] # Nil => m.map = Over(Content(other), Content(metadata[g]))
  BY DEF Merge, At
<1> HIDE DEF m, other
<1>5. Known(m.at) /\ m.at \in AnyRef
  BY <1>2, <1>3, <1>4 DEF Known
<1>6. heap' \in [Refs -> AnyMap] /\ \A q \in Goroutines \ {g} : Quiet(q)
  <2>1. CASE metadata[g] = Nil
    BY <1>1, <1>2, <2>1, SameHeapQuiet
  <2>2. CASE metadata[g] # Nil
    <3>1. Content(other) \in AnyMap /\ Content(metadata[g]) \in AnyMap
      BY <1>2, <1>3, ContentIsMap DEF MapInv
    <3>2. m.map \in AnyMap
      BY <1>4, <2>2, <3>1, MergeProperties
    <3>3. m.at \in Refs /\ m.at \in Referred(g) /\ Write(g, m)
      BY <1>1, <1>2, <1>4, <2>2 DEF AnyRef
    <3> QED BY <3>2, <3>3, WriteStep
  <2> QED BY <2>1, <2>2
<1>7. PICK r : r = m.at
  OBVIOUS
<1> QED BY <1>1, <1>5, <1>6, <1>7, MetadataStep

LEMMA RecordStep ==
  ASSUME MapInv, NEW g \in Goroutines, NEW state, NEW e \in EnvelopesOf(g),
         Known(e.metadata), Record(g, state, e)
  PROVE  MapInv'
<1>1. /\ pc[g] = "idle"
      /\ recorded' = [recorded EXCEPT ![g] = Append(recorded[g], e)]
      /\ DOMAIN user' = DOMAIN user
      /\ UNCHANGED <<heap, metadata, memory, rows, aggregates, raced>>
      /\ UNCHANGED saveVars
  BY DEF Record, tables
<1>2. UNCHANGED <<pc, inserted, enriched, handed>>
  BY <1>1 DEF saveVars
<1>3. DOMAIN recorded = Goroutines /\ recorded[g] \in Seq(EnvelopesOf(g))
  BY DEF MapInv, Domains, Contents
<1>4. recorded'[g] = Append(recorded[g], e) /\ recorded'[g] \in Seq(EnvelopesOf(g))
  BY <1>1, <1>3
<1>5. Domains' /\ References'
  BY <1>1, <1>2 DEF MapInv, Domains, References
<1>6. Contents(g)' /\ (g \notin InMemory => memory'[g] = <<>>)
  BY <1>1, <1>2, <1>4 DEF MapInv, Contents, Progress
<1>7. \A h \in Goroutines \ {g} : Same(h) /\ Quiet(h)
  BY <1>1, <1>2, <1>3, SameHeapQuiet DEF Same
<1>8. \A r \in MapsOf(recorded'[g]) : r \in MapsOf(recorded[g]) \cup {e.metadata}
  BY <1>3, <1>4 DEF MapsOf
<1>9. \A r \in Referred(g)' : r \in Referred(g) \/ r = e.metadata
  BY <1>1, <1>8 DEF Referred
<1>10. \A r \in Referred(g)' : Known(r)
  BY <1>9 DEF Known
<1> QED BY <1>1, <1>5, <1>6, <1>7, <1>10, IdleStep

LEMMA GetStep ==
  ASSUME MapInv, NEW g \in Goroutines, Get(g)
  PROVE  MapInv'
<1>1. /\ pc[g] = "idle"
      /\ DOMAIN user' = DOMAIN user
      /\ UNCHANGED <<heap, metadata, recorded, memory, rows, aggregates, raced>>
      /\ UNCHANGED saveVars
  BY DEF Get, tables
<1>2. UNCHANGED <<pc, inserted, enriched, handed>>
  BY <1>1 DEF saveVars
<1>3. Domains' /\ References'
  BY <1>1, <1>2 DEF MapInv, Domains, References
<1>4. Contents(g)' /\ (g \notin InMemory => memory'[g] = <<>>)
  BY <1>1, <1>2 DEF MapInv, Contents, Progress
<1>5. \A h \in Goroutines : Same(h) /\ Quiet(h)
  BY <1>1, <1>2, SameHeapQuiet DEF Same
<1>6. \A r \in Referred(g)' : Known(r)
  BY <1>5, SameReferred DEF Known
<1> QED BY <1>1, <1>3, <1>4, <1>5, <1>6, IdleStep

LEMMA SaveInMemoryStep ==
  ASSUME MapInv, NEW g \in Goroutines, SaveInMemory(g)
  PROVE  MapInv'
<1>1. /\ g \in InMemory
      /\ memory' = [memory EXCEPT ![g] = memory[g] \o recorded[g]]
      /\ recorded' = [recorded EXCEPT ![g] = <<>>]
      /\ UNCHANGED <<heap, metadata, user, rows, aggregates, raced>>
      /\ UNCHANGED saveVars
  BY DEF SaveInMemory, tables
<1>2. UNCHANGED <<pc, inserted, enriched, handed>>
  BY <1>1 DEF saveVars
<1>3. /\ DOMAIN recorded = Goroutines /\ DOMAIN memory = Goroutines
      /\ recorded[g] \in Seq(EnvelopesOf(g)) /\ memory[g] \in Seq(EnvelopesOf(g))
      /\ pc[g] = "idle"
  BY <1>1 DEF MapInv, Domains, Contents, Progress
<1>4. memory'[g] = memory[g] \o recorded[g] /\ memory'[g] \in Seq(EnvelopesOf(g))
  BY <1>1, <1>3
<1>5. recorded'[g] = <<>> /\ recorded'[g] \in Seq(EnvelopesOf(g))
  BY <1>1, <1>3
<1>6. Domains' /\ References'
  BY <1>1, <1>2 DEF MapInv, Domains, References
<1>7. Contents(g)'
  BY <1>1, <1>2, <1>4, <1>5 DEF MapInv, Contents
<1>8. \A h \in Goroutines \ {g} : Same(h) /\ Quiet(h)
  BY <1>1, <1>2, <1>3, SameHeapQuiet DEF Same
<1>9. \A r \in Referred(g)' : r \in Referred(g)
  <2>1. \A k \in 1 .. Len(memory'[g]) :
          memory'[g][k].metadata \in MapsOf(memory[g]) \cup MapsOf(recorded[g])
    BY <1>3, <1>4, MapsOfContents
  <2>2. \A r \in MapsOf(memory'[g]) : r \in MapsOf(memory[g]) \cup MapsOf(recorded[g])
    <3>1. DOMAIN memory'[g] = 1 .. Len(memory'[g])
      BY <1>4
    <3> QED BY ONLY <2>1, <3>1 DEF MapsOf
  <2>3. MapsOf(recorded'[g]) = {}
    BY <1>5 DEF MapsOf
  <2> QED BY <1>1, <2>2, <2>3 DEF Referred
<1>10. \A r \in Referred(g)' : Known(r)
  BY <1>9 DEF Known
<1> QED BY <1>1, <1>3, <1>6, <1>7, <1>8, <1>10, IdleStep

-----------------------------------------------------------------------------
(***************************************************************************)
(* The steps of a Save to Postgres.                                        *)
(***************************************************************************)
LEMMA OwnStep ==
  ASSUME MapInv, NEW g \in Goroutines, Domains', References',
         \A h \in Goroutines \ {g} : Same(h) /\ Quiet(h),
         \A r \in Referred(g)' : Known(r), Known(enriched'[g]),
         Contents(g)', Progress(g)', Private(g)', Batch(g)'
  PROVE  MapInv'
<1>1. ASSUME NEW h \in Goroutines \ {g}
      PROVE  Contents(h)' /\ Progress(h)' /\ Batch(h)'
  BY <1>1, OtherKeeps
<1>2. \A q \in Goroutines : \A r \in Referred(q)' : Known(r)
  <2> SUFFICES ASSUME NEW q \in Goroutines \ {g}, NEW r \in Referred(q)'
               PROVE  Known(r)
    OBVIOUS
  <2> QED BY SameReferred DEF Known
<1>3. ASSUME NEW h \in Goroutines \ {g} PROVE Private(h)'
  <2>1. NextEvent(h)' = NextEvent(h)
    BY SameReferred
  <2>2. pc'[h] = pc[h] /\ enriched'[h] = enriched[h]
    BY DEF Same
  <2>3. \A q \in Goroutines \ {h} :
          enriched'[q] = enriched[q] \/ Known(enriched'[q])
    BY DEF Same
  <2> QED BY <1>2, <2>1, <2>2, <2>3, PrivateKept
<1> QED BY <1>1, <1>3 DEF MapInv

LEMMA BeginSaveStep ==
  ASSUME MapInv, NEW g \in Goroutines, BeginSave(g)
  PROVE  MapInv'
<1>1. /\ g \notin InMemory /\ pc[g] = "idle" /\ recorded[g] # <<>>
      /\ pc' = [pc EXCEPT ![g] = "enrich"]
      /\ handed' = [handed EXCEPT ![g] =
           [k \in DOMAIN recorded[g] |-> Content(recorded[g][k].metadata)]]
      /\ UNCHANGED <<heap, metadata, user, recorded, memory, rows, aggregates,
                     inserted, enriched, raced>>
  BY DEF BeginSave, commandVars, tables
<1>2. Domains' /\ References'
  BY <1>1 DEF MapInv, Domains, References
<1>3. pc'[g] = "enrich"
  BY <1>1 DEF MapInv, References
<1>4. \A h \in Goroutines \ {g} : Same(h) /\ Quiet(h)
  BY <1>1, SameHeapQuiet DEF Same, MapInv, Domains, References
<1>5. Contents(g)'
  BY <1>1 DEF MapInv, Contents
<1>6. inserted[g] = <<>> /\ enriched[g] = Nil /\ memory[g] = <<>>
  BY <1>1 DEF MapInv, Progress
<1>7. Progress(g)'
  BY <1>1, <1>3, <1>6, MapsOfContents DEF Progress
<1>8. Private(g)'
  BY <1>3 DEF Private
<1>9. Batch(g)'
  <2>1. \A k \in 1 .. Len(recorded[g]) :
          handed'[g][k] = Content(recorded[g][k].metadata)
    BY <1>1 DEF MapInv, Domains, Contents
  <2>2. \A k \in 1 .. Len(recorded'[g]) :
          Grown(handed'[g][k], Content(recorded[g][k].metadata)')
    <3> TAKE k \in 1 .. Len(recorded'[g])
    <3>1. k \in 1 .. Len(recorded[g])
      BY <1>1
    <3>2. Content(recorded[g][k].metadata)' = Content(recorded[g][k].metadata)
      BY <1>1 DEF Content
    <3> QED BY <2>1, <3>1, <3>2 DEF Grown
  <2>3. \A k \in 1 .. Len(inserted'[g]) : FALSE
    BY <1>1, <1>6
  <2> QED BY <1>3, <2>2, <2>3 DEF Batch
<1>10. \A r \in Referred(g)' : Known(r)
  <2>1. Referred(g)' = Referred(g)
    BY <1>1 DEF Referred, MapsOf
  <2> QED BY <2>1 DEF Known
<1>11. Known(enriched'[g])
  BY <1>1, <1>6 DEF Known
<1> QED BY <1>2, <1>4, <1>5, <1>7, <1>8, <1>9, <1>10, <1>11, OwnStep

LEMMA EnrichedProperties ==
  ASSUME NEW r, NEW v \in Nat, Content(r) \in AnyMap, Unused # {}
  PROVE  LET m == Enriched(At(r), v)
         IN  /\ m.at = IF r = Nil THEN New ELSE r
             /\ m.map \in AnyMap
             /\ Grown(Content(r), m.map)
             /\ \A before : Grown(before, Content(r)) => Tells(before, m.map, v)
<1> DEFINE m == Enriched(At(r), v)
           one == Over(Entry("Recorded-At", Now), Content(r))
           two == Over(Entry("Recorded-With-New-Overall-Version", v), one)
<1>1. m.at = (IF r = Nil THEN New ELSE r) /\ m.map = two
  <2>1. New # Nil
    BY NewIsUnused
  <2> QED BY <2>1 DEF Enriched, With, At
<1>2. /\ "Recorded-At" \in Keys /\ "Recorded-With-New-Overall-Version" \in Keys
      /\ Now \in Traces \cup {Now} \cup Nat /\ v \in Traces \cup {Now} \cup Nat
  BY DEF Keys
<1>3. /\ one \in AnyMap
      /\ DOMAIN one = DOMAIN Content(r) \cup {"Recorded-At"}
      /\ \A k \in DOMAIN Content(r) \ {"Recorded-At"} : one[k] = Content(r)[k]
  BY <1>2, PutProperties, Zenon
<1> HIDE DEF one
<1>4. /\ two \in AnyMap
      /\ DOMAIN two = DOMAIN one \cup {"Recorded-With-New-Overall-Version"}
      /\ two["Recorded-With-New-Overall-Version"] = v
      /\ \A k \in DOMAIN one \ {"Recorded-With-New-Overall-Version"} :
           two[k] = one[k]
  BY <1>2, <1>3, PutProperties, Zenon
<1> HIDE DEF two, m
<1>5. DOMAIN two = DOMAIN Content(r) \cup (Keys \ {"Trace"})
  BY <1>3, <1>4 DEF Keys
<1>6. "Trace" \in DOMAIN two => /\ "Trace" \in DOMAIN Content(r)
                                /\ two["Trace"] = Content(r)["Trace"]
  BY <1>3, <1>4
<1>7. Grown(Content(r), two)
  BY <1>5, <1>6 DEF Grown
<1>8. ASSUME NEW before, Grown(before, Content(r)) PROVE Tells(before, two, v)
  BY <1>4, <1>5, <1>6, <1>8 DEF Grown, Tells
<1> QED BY <1>1, <1>4, <1>7, <1>8 DEF m

LEMMA GrownAgain ==
  ASSUME NEW a, NEW b, NEW c, Grown(a, b), Grown(b, c)
  PROVE  Grown(a, c)
<1>1. DOMAIN a \subseteq DOMAIN c /\ DOMAIN c \subseteq DOMAIN a \cup (Keys \ {"Trace"})
  BY DEF Grown
<1>2. "Trace" \in DOMAIN c => "Trace" \in DOMAIN b
  BY DEF Grown
<1> QED BY <1>1, <1>2 DEF Grown

LEMMA EnrichMetadataStep ==
  ASSUME MapInv, NEW g \in Goroutines, EnrichMetadata(g)
  PROVE  MapInv'
<1> DEFINE ref == NextEvent(g).metadata
           v == newVersion(g)
           m == Enriched(At(ref), v)
           n == Len(inserted[g]) + 1
<1>1. /\ pc[g] = "enrich" /\ Len(inserted[g]) < Len(recorded[g]) /\ Unused # {}
      /\ Write(g, m)
      /\ enriched' = [enriched EXCEPT ![g] = m.at]
      /\ pc' = [pc EXCEPT ![g] = "insert"]
      /\ UNCHANGED <<metadata, user, recorded, memory, rows, aggregates, inserted,
                     handed>>
  BY DEF EnrichMetadata, commandVars, tables
<1>2. n \in 1 .. Len(recorded[g]) /\ Len(inserted[g]) \in Nat /\ Len(recorded[g]) \in Nat
  BY <1>1, MapsOfContents
<1>3. NextEvent(g) = recorded[g][n]
  BY DEF NextEvent
<1>4. ref \in MapsOf(recorded[g]) /\ ref \in AnyRef
  <2>1. ref \in MapsOf(recorded[g])
    BY <1>2, <1>3, MapsOfContents
  <2> HIDE DEF ref
  <2> QED BY <2>1, MapsOfContents DEF Referred
<1>5. v \in Nat
  <2>1. rows[g] \in Seq(RowsOf(g))
    BY DEF MapInv, Contents
  <2>2. Len(rows[g]) \in Nat
    BY <2>1
  <2>3. Len(rows[g]) + Len(recorded[g]) \in Nat
    <3>1. \A a, b \in Nat : a + b \in Nat
      OBVIOUS
    <3> QED BY ONLY <1>2, <2>2, <3>1, Zenon
  <2> QED BY <2>3 DEF newVersion
<1>6. Content(ref) \in AnyMap /\ References
  BY <1>4, ContentIsMap DEF MapInv
<1> HIDE DEF ref, v, n
<1>7. /\ m.at = IF ref = Nil THEN New ELSE ref
      /\ m.map \in AnyMap
      /\ Grown(Content(ref), m.map)
      /\ \A before : Grown(before, Content(ref)) => Tells(before, m.map, v)
  BY <1>1, <1>5, <1>6, EnrichedProperties
<1> HIDE DEF m
<1>8. /\ m.at \in Refs /\ m.at # Nil
      /\ m.at \in Unused \/ m.at \in Referred(g)
      /\ m.at # ref => m.at \in Unused /\ ref = Nil
  BY <1>1, <1>4, <1>7, NewIsUnused, EnvelopesAssumption DEF AnyRef, Referred
<1>9. /\ heap' = [heap EXCEPT ![m.at] = m.map]
      /\ heap' \in [Refs -> AnyMap]
      /\ \A h \in Goroutines \ {g} : Quiet(h)
  BY <1>1, <1>7, <1>8, WriteStep
<1>10. enriched'[g] = m.at /\ pc'[g] = "insert" /\ heap'[m.at] = m.map
  BY <1>1, <1>6, <1>8, <1>9 DEF References
<1>11. \A h \in Goroutines \ {g} : Same(h)
  BY <1>1, <1>6 DEF Same, References
<1>12. Domains'
  BY <1>1 DEF MapInv, Domains
<1>13. References'
  BY <1>1, <1>6, <1>8, <1>9 DEF References, AnyRef
<1>14. Contents(g)'
  BY <1>1 DEF MapInv, Contents
<1>15. Progress(g)'
  <2>1. /\ g \notin InMemory /\ memory[g] = <<>> /\ recorded[g] # <<>>
        /\ \A k \in 1 .. Len(inserted[g]) :
             inserted[g][k].event = SerializeEvent(recorded[g][k].message)
    BY <1>1 DEF MapInv, Progress
  <2> QED BY <1>1, <1>2, <1>8, <1>10, <2>1 DEF Progress
<1>16. /\ \A h \in Goroutines : Referred(h)' = Referred(h)
       /\ NextEvent(g)' = NextEvent(g)
  BY <1>1 DEF Referred, MapsOf, NextEvent
<1>17. Private(g)'
  <2> SUFFICES ASSUME m.at # ref, NEW h \in Goroutines
               PROVE  m.at \notin Referred(h) /\ (h # g => m.at # enriched'[h])
    BY <1>10, <1>16 DEF Private, ref
  <2>1. m.at \notin Held(h)
    BY <1>8 DEF Unused
  <2>2. h # g => enriched'[h] = enriched[h]
    BY <1>11 DEF Same
  <2> QED BY <2>1, <2>2 DEF Held, Referred
<1>18. Batch(g)'
  <2> SUFFICES ASSUME g \notin raced' PROVE Batch(g)'
    BY DEF Batch
  <2>1. g \notin raced
    BY <1>1 DEF Write
  <2>2. /\ \A k \in 1 .. Len(recorded[g]) :
             Grown(handed[g][k], Content(recorded[g][k].metadata))
        /\ \A k \in 1 .. Len(inserted[g]) :
             Tells(handed[g][k], inserted[g][k].metadata, v)
    BY <1>1, <2>1 DEF MapInv, Batch, v
  <2>3. newVersion(g)' = v
    BY <1>1 DEF newVersion, v
  <2>4. \A k \in 1 .. Len(recorded'[g]) :
          Grown(handed'[g][k], Content(recorded[g][k].metadata)')
    <3> SUFFICES ASSUME NEW k \in 1 .. Len(recorded[g])
                 PROVE  Grown(handed[g][k], Content(recorded[g][k].metadata)')
      BY <1>1
    <3> DEFINE x == recorded[g][k].metadata
    <3>0. Content(x)' = (IF x = Nil THEN <<>> ELSE heap'[x])
      BY <1>1 DEF Content
    <3>1. x \in MapsOf(recorded[g]) /\ x \in AnyRef
      BY MapsOfContents DEF Referred
    <3>2. Grown(handed[g][k], Content(x))
      BY <2>2
    <3>4. PICK now : now = Content(x)'
      OBVIOUS
    <3>5. x \notin Unused
      BY <3>1 DEF Unused, Held
    <3> HIDE DEF x
    <3>6. CASE x = m.at
      <4>1. x = ref /\ x # Nil
        BY <1>8, <3>5, <3>6
      <4>2. now = m.map
        BY <1>10, <3>0, <3>4, <3>6, <4>1
      <4>3. Grown(handed[g][k], now)
        BY <1>7, <3>2, <4>1, <4>2, GrownAgain
      <4> QED BY <3>4, <4>3 DEF x
    <3>7. CASE x # m.at
      <4>1. now = Content(x)
        BY <1>6, <1>8, <1>9, <3>0, <3>1, <3>4, <3>7 DEF Content, AnyRef, References
      <4> QED BY <3>2, <3>4, <4>1 DEF x
    <3> QED BY <3>6, <3>7
  <2>5. \A k \in 1 .. Len(inserted'[g]) :
          Tells(handed'[g][k], inserted'[g][k].metadata, newVersion(g)')
    BY <1>1, <2>2, <2>3
  <2>6. Tells(handed'[g][Len(inserted'[g]) + 1], heap'[enriched'[g]], newVersion(g)')
    <3>1. Grown(handed[g][n], Content(ref))
      BY <1>2, <1>3, <2>2 DEF ref
    <3>2. Tells(handed[g][n], m.map, v)
      BY <1>7, <3>1
    <3> QED BY <1>1, <1>10, <2>3, <3>2 DEF n
  <2> QED BY <2>4, <2>5, <2>6 DEF Batch
<1>19. \A r \in Referred(g)' : Known(r)
  BY <1>16 DEF Known
<1>20. Known(enriched'[g])
  BY <1>8, <1>10 DEF Known
<1>21. \A h \in Goroutines \ {g} : Same(h) /\ Quiet(h)
  BY <1>9, <1>11
<1> QED BY <1>12, <1>13, <1>14, <1>15, <1>17, <1>18, <1>19, <1>20, <1>21, OwnStep

LEMMA InsertEventStep ==
  ASSUME MapInv, NEW g \in Goroutines, InsertEvent(g)
  PROVE  MapInv'
<1> DEFINE row == [event    |-> SerializeEvent(NextEvent(g).message),
                   metadata |-> heap[enriched[g]]]
           n == Len(inserted[g]) + 1
<1>1. References /\ Progress(g) /\ Contents(g) /\ Batch(g)
  BY DEF MapInv
<1>2. /\ pc[g] = "insert"
      /\ pc' = [pc EXCEPT ![g] = "enrich"]
      /\ enriched' = [enriched EXCEPT ![g] = Nil]
      /\ UNCHANGED <<heap, metadata, user, recorded, memory, rows, aggregates,
                     handed, raced>>
  BY DEF InsertEvent, commandVars, tables
<1>3. /\ Len(inserted[g]) < Len(recorded[g]) /\ enriched[g] \in Refs /\ enriched[g] # Nil
      /\ g \notin InMemory /\ memory[g] = <<>> /\ recorded[g] # <<>>
      /\ \A k \in 1 .. Len(inserted[g]) :
           inserted[g][k].event = SerializeEvent(recorded[g][k].message)
  BY <1>1, <1>2 DEF Progress, References, AnyRef
<1>4. inserted' = [inserted EXCEPT ![g] = Append(inserted[g], row)]
  BY <1>3 DEF InsertEvent, serializeMetadata
<1>5. n \in 1 .. Len(recorded[g]) /\ Len(inserted[g]) \in Nat /\ Len(recorded[g]) \in Nat
  BY <1>3, MapsOfContents
<1>6. NextEvent(g) = recorded[g][n]
  BY DEF NextEvent
<1>7. row \in RowsOf(g)
  <2>1. NextEvent(g).message \in EventsOf(g)
    BY <1>5, <1>6, MapsOfContents DEF EnvelopesOf
  <2>2. heap[enriched[g]] \in AnyMap
    BY <1>1, <1>3 DEF References
  <2> QED BY <2>1, <2>2 DEF RowsOf
<1>8. row.event = SerializeEvent(recorded[g][n].message) /\ row.metadata = heap[enriched[g]]
  BY <1>6
<1> HIDE DEF row
<1>9. /\ inserted'[g] = Append(inserted[g], row)
      /\ inserted[g] \in Seq(RowsOf(g))
  BY <1>1, <1>4 DEF Contents, MapInv, Domains
<1>10. /\ inserted'[g] \in Seq(RowsOf(g))
       /\ Len(inserted'[g]) = n
       /\ inserted'[g][n] = row
       /\ \A k \in 1 .. Len(inserted[g]) : inserted'[g][k] = inserted[g][k]
  BY <1>7, <1>9
<1>11. pc'[g] = "enrich" /\ enriched'[g] = Nil
  BY <1>1, <1>2 DEF References
<1>12. Domains' /\ References'
  BY <1>1, <1>2, <1>4 DEF MapInv, Domains, References, AnyRef
<1>13. \A h \in Goroutines \ {g} : Same(h) /\ Quiet(h)
  BY <1>1, <1>2, <1>4, SameHeapQuiet DEF Same, MapInv, Domains, References
<1>14. Contents(g)'
  BY <1>1, <1>2, <1>10 DEF Contents
<1>15. \A k \in 1 .. n : k = n \/ k \in 1 .. Len(inserted[g])
  BY <1>5
<1> HIDE DEF n
<1>16. Progress(g)'
  <2>1. \A k \in 1 .. Len(inserted'[g]) :
          inserted'[g][k].event = SerializeEvent(recorded'[g][k].message)
    BY <1>2, <1>3, <1>8, <1>10, <1>15
  <2>2. Len(inserted'[g]) <= Len(recorded'[g])
    BY <1>2, <1>5, <1>10
  <2> QED BY <1>2, <1>3, <1>11, <2>1, <2>2 DEF Progress
<1>17. Private(g)'
  BY <1>11 DEF Private
<1>18. Batch(g)'
  <2> SUFFICES ASSUME g \notin raced PROVE Batch(g)'
    BY <1>2 DEF Batch
  <2>1. /\ \A k \in 1 .. Len(recorded[g]) :
             Grown(handed[g][k], Content(recorded[g][k].metadata))
        /\ \A k \in 1 .. Len(inserted[g]) :
             Tells(handed[g][k], inserted[g][k].metadata, newVersion(g))
        /\ Tells(handed[g][n], heap[enriched[g]], newVersion(g))
    BY <1>1, <1>2 DEF Batch, n
  <2>2. newVersion(g)' = newVersion(g)
    BY <1>2 DEF newVersion
  <2>3. \A k \in 1 .. Len(recorded'[g]) :
          Grown(handed'[g][k], Content(recorded[g][k].metadata)')
    BY <1>2, <2>1 DEF Content
  <2>4. \A k \in 1 .. Len(inserted'[g]) :
          Tells(handed'[g][k], inserted'[g][k].metadata, newVersion(g)')
    BY <1>2, <1>8, <1>10, <1>15, <2>1, <2>2
  <2> QED BY <1>11, <2>3, <2>4 DEF Batch
<1>19. \A r \in Referred(g)' : Known(r)
  <2>1. Referred(g)' = Referred(g)
    BY <1>2 DEF Referred, MapsOf
  <2> QED BY <2>1 DEF Known
<1>20. Known(enriched'[g])
  BY <1>11 DEF Known
<1> QED BY <1>12, <1>13, <1>14, <1>16, <1>17, <1>18, <1>19, <1>20, OwnStep

LEMMA EndSaveStep ==
  ASSUME MapInv, NEW g \in Goroutines, pc[g] # "idle", EndSave(g),
         DOMAIN user' = Goroutines, DOMAIN aggregates' = Goroutines,
         DOMAIN rows' = Goroutines, rows'[g] \in Seq(RowsOf(g)),
         \A h \in Goroutines \ {g} : rows'[h] = rows[h]
  PROVE  MapInv'
<1>1. /\ pc' = [pc EXCEPT ![g] = "idle"]
      /\ recorded' = [recorded EXCEPT ![g] = <<>>]
      /\ inserted' = [inserted EXCEPT ![g] = <<>>]
      /\ enriched' = [enriched EXCEPT ![g] = Nil]
      /\ handed' = [handed EXCEPT ![g] = <<>>]
      /\ raced' = raced \ {g}
      /\ UNCHANGED <<heap, metadata, memory>>
  BY DEF EndSave
<1>2. Domains' /\ References'
  BY <1>1 DEF MapInv, Domains, References, AnyRef
<1>3. pc'[g] = "idle" /\ recorded'[g] = <<>> /\ inserted'[g] = <<>> /\ enriched'[g] = Nil
  BY <1>1 DEF MapInv, Domains, References
<1>4. g \notin InMemory /\ memory[g] = <<>>
  BY DEF MapInv, Progress
<1>5. \A h \in Goroutines \ {g} : Same(h)
  BY <1>1 DEF Same, MapInv, Domains, References
<1>6. \A h \in Goroutines \ {g} : Quiet(h)
  BY <1>1 DEF Quiet
<1>7. Contents(g)'
  <2>1. <<>> \in Seq(EnvelopesOf(g)) /\ <<>> \in Seq(RowsOf(g))
    OBVIOUS
  <2>2. /\ recorded'[g] \in Seq(EnvelopesOf(g)) /\ memory'[g] \in Seq(EnvelopesOf(g))
        /\ inserted'[g] \in Seq(RowsOf(g))
    BY <1>1, <1>3, <1>4, <2>1
  <2> QED BY <2>2 DEF Contents
<1>8. Progress(g)'
  BY <1>1, <1>3, <1>4 DEF Progress
<1>9. Private(g)' /\ Batch(g)'
  BY <1>3 DEF Private, Batch
<1>10. \A r \in Referred(g)' : r \in Referred(g)
  BY <1>1, <1>3 DEF Referred, MapsOf
<1>11. (\A r \in Referred(g)' : Known(r)) /\ Known(enriched'[g])
  BY <1>3, <1>10 DEF Known
<1> QED BY <1>2, <1>5, <1>6, <1>7, <1>8, <1>9, <1>11, OwnStep

LEMMA CommitSaveStep ==
  ASSUME MapInv, NEW g \in Goroutines, CommitSave(g)
  PROVE  MapInv'
<1>1. /\ pc[g] # "idle" /\ EndSave(g) /\ UNCHANGED user
      /\ rows' = [rows EXCEPT ![g] = rows[g] \o inserted[g]]
      /\ DOMAIN aggregates' = DOMAIN aggregates
  BY DEF CommitSave, saveAggregateState
<1>2. Domains /\ rows[g] \in Seq(RowsOf(g)) /\ inserted[g] \in Seq(RowsOf(g))
  BY DEF MapInv, Contents
<1>3. /\ rows'[g] \in Seq(RowsOf(g)) /\ DOMAIN rows' = Goroutines
      /\ \A h \in Goroutines \ {g} : rows'[h] = rows[h]
  BY <1>1, <1>2 DEF Domains
<1>4. DOMAIN user' = Goroutines /\ DOMAIN aggregates' = Goroutines
  BY <1>1, <1>2 DEF Domains
<1> QED BY <1>1, <1>3, <1>4, EndSaveStep

LEMMA SaveFailsStep ==
  ASSUME MapInv, NEW g \in Goroutines, SaveFails(g)
  PROVE  MapInv'
<1>1. /\ pc[g] # "idle" /\ EndSave(g) /\ UNCHANGED <<rows, aggregates>>
      /\ DOMAIN user' = DOMAIN user
  BY DEF SaveFails, tables
<1>2. Domains /\ rows[g] \in Seq(RowsOf(g))
  BY DEF MapInv, Contents
<1>3. DOMAIN user' = Goroutines /\ DOMAIN aggregates' = Goroutines /\ DOMAIN rows' = Goroutines
  BY <1>1, <1>2 DEF Domains
<1>4. rows'[g] \in Seq(RowsOf(g)) /\ \A h \in Goroutines \ {g} : rows'[h] = rows[h]
  BY <1>1, <1>2
<1> QED BY <1>1, <1>3, <1>4, EndSaveStep

-----------------------------------------------------------------------------
(***************************************************************************)
(* The root and its history.                                               *)
(***************************************************************************)
LEMMA HistoryTypes ==
  ASSUME MapInv, NEW g \in Goroutines
  PROVE  /\ Persisted(g) \in Seq(EventsOf(g))
         /\ Pending(g) \in Seq(EventsOf(g))
         /\ History(g) \in Seq(EventsOf(g))
         /\ Persisted(g) # <<>> <=> Stored(g) # <<>>
         /\ Len(Persisted(g)) = Len(Stored(g))
         /\ Len(Pending(g)) = Len(recorded[g])
<1>1. /\ recorded[g] \in Seq(EnvelopesOf(g)) /\ memory[g] \in Seq(EnvelopesOf(g))
      /\ rows[g] \in Seq(RowsOf(g))
  BY DEF MapInv, Contents
<1>2. Pending(g) \in Seq(EventsOf(g)) /\ Len(Pending(g)) = Len(recorded[g])
  <2>1. \A k \in 1 .. Len(recorded[g]) : AsRead(g, recorded[g][k].message) \in EventsOf(g)
    <3> TAKE k \in 1 .. Len(recorded[g])
    <3>1. recorded[g][k] \in EnvelopesOf(g)
      BY <1>1, ElementOfSeq
    <3>2. recorded[g][k].message \in EventsOf(g)
      BY <3>1 DEF EnvelopesOf
    <3> QED BY <3>2, EventAsRead
  <2>2. Pending(g) = [k \in 1 .. Len(recorded[g]) |-> AsRead(g, recorded[g][k].message)]
    BY <1>1 DEF Pending
  <2>3. Len(recorded[g]) \in Nat
    BY <1>1
  <2> QED BY <2>1, <2>2, <2>3
<1>3. CASE g \in InMemory
  <2>1. \A k \in 1 .. Len(memory[g]) : memory[g][k].message \in EventsOf(g)
    <3> TAKE k \in 1 .. Len(memory[g])
    <3>1. memory[g][k] \in EnvelopesOf(g)
      BY <1>1, ElementOfSeq
    <3> QED BY <3>1 DEF EnvelopesOf
  <2>2. Persisted(g) = [k \in 1 .. Len(memory[g]) |-> memory[g][k].message]
    BY <1>1, <1>3 DEF Persisted, Messages
  <2>3. Len(memory[g]) \in Nat /\ Stored(g) = memory[g]
    BY <1>1, <1>3 DEF Stored
  <2>4. Persisted(g) \in Seq(EventsOf(g)) /\ Len(Persisted(g)) = Len(Stored(g))
    BY <2>1, <2>2, <2>3
  <2>5. Persisted(g) # <<>> <=> Stored(g) # <<>>
    BY <1>1, <2>3, <2>4, EmptySeq
  <2> QED BY <1>2, <2>4, <2>5, ConcatProperties DEF History
<1>4. CASE g \notin InMemory
  <2>1. \A k \in 1 .. Len(rows[g]) : DeserializeEvent(rows[g][k].event) \in EventsOf(g)
    <3> TAKE k \in 1 .. Len(rows[g])
    <3>1. rows[g][k] \in RowsOf(g)
      BY <1>1, ElementOfSeq
    <3>2. PICK evt \in EventsOf(g) : rows[g][k].event = SerializeEvent(evt)
      BY <3>1 DEF RowsOf
    <3> QED BY <1>4, <3>2, EventAsRead DEF AsRead
  <2>2. Persisted(g) = [k \in 1 .. Len(rows[g]) |-> DeserializeEvent(rows[g][k].event)]
    BY <1>1, <1>4 DEF Persisted
  <2>3. Len(rows[g]) \in Nat /\ Stored(g) = rows[g]
    BY <1>1, <1>4 DEF Stored
  <2>4. Persisted(g) \in Seq(EventsOf(g)) /\ Len(Persisted(g)) = Len(Stored(g))
    BY <2>1, <2>2, <2>3
  <2>5. Persisted(g) # <<>> <=> Stored(g) # <<>>
    BY <1>1, <2>3, <2>4, EmptySeq
  <2> QED BY <1>2, <2>4, <2>5, ConcatProperties DEF History
<1> QED BY <1>3, <1>4

LEMMA NobodyIsNoUser ==
  ASSUME NEW g \in Goroutines, NEW u \in UsersOf(g)
  PROVE  u # NoUser /\ u \in Users /\ u.id = g
  BY EnvelopesAssumption DEF UsersOf, Users

LEMMA RootSame ==
  ASSUME NEW h, Root(h), user'[h] = user[h], recorded'[h] = recorded[h],
         memory'[h] = memory[h], rows'[h] = rows[h], aggregates'[h] = aggregates[h]
  PROVE  Root(h)'
<1>1. Persisted(h)' = Persisted(h)
  BY DEF Persisted, Messages
<1>2. Pending(h)' = Pending(h)
  BY DEF Pending, AsRead
<1>3. History(h)' = History(h)
  BY <1>1, <1>2 DEF History
<1> QED BY <1>1, <1>3 DEF Root, UserAsRead

LEMMA InitRootInv == Init => RootInv
<1> SUFFICES ASSUME Init, NEW g \in Goroutines PROVE Root(g)
  BY DEF RootInv
<1>1. /\ recorded[g] = <<>> /\ user[g] = NoUser
      /\ memory[g] = <<>> /\ rows[g] = <<>>
  BY DEF Init
<1>2. Persisted(g) = <<>>
  BY <1>1 DEF Persisted, Messages
<1> QED BY <1>1, <1>2 DEF Root

LEMMA RecordRoot ==
  ASSUME MapInv, RootInv, NEW g \in Goroutines, NEW state, NEW e \in EnvelopesOf(g),
         Record(g, state, e),
         Apply(state, e.message) \in UsersOf(g),
         UserAsRead(g, Apply(state, e.message)) =
           Apply(RehydrateFromEvents(History(g)), AsRead(g, e.message))
  PROVE  RootInv'
<1>1. /\ user' = [user EXCEPT ![g] = Apply(state, e.message)]
      /\ recorded' = [recorded EXCEPT ![g] = Append(recorded[g], e)]
      /\ UNCHANGED <<memory, rows, aggregates>>
  BY DEF Record, tables
<1>2. DOMAIN user = Goroutines /\ DOMAIN recorded = Goroutines
  BY DEF MapInv, Domains
<1>3. ASSUME NEW h \in Goroutines \ {g} PROVE Root(h)'
  BY <1>1, <1>2, RootSame DEF RootInv
<1>4. user'[g] = Apply(state, e.message) /\ recorded'[g] = Append(recorded[g], e)
  BY <1>1, <1>2
<1>5. e.message \in EventsOf(g) /\ recorded[g] \in Seq(EnvelopesOf(g))
  BY DEF EnvelopesOf, MapInv, Contents
<1> DEFINE x == AsRead(g, e.message)
<1>6. x \in EventsOf(g)
  BY <1>5, EventAsRead
<1>7. Persisted(g)' = Persisted(g)
  BY <1>1 DEF Persisted, Messages
<1>8. Pending(g)' = Append(Pending(g), x)
  <2> DEFINE n == Len(recorded[g])
  <2>1. n \in Nat /\ DOMAIN recorded[g] = 1 .. n /\ DOMAIN recorded'[g] = 1 .. (n + 1)
    BY <1>4, <1>5
  <2>2. /\ recorded'[g][n + 1] = e
        /\ \A k \in 1 .. n : recorded'[g][k] = recorded[g][k]
    BY <1>4, <1>5
  <2>3. Pending(g)' = [k \in 1 .. (n + 1) |-> AsRead(g, recorded'[g][k].message)]
    BY <2>1 DEF Pending, AsRead
  <2>4. /\ Pending(g) \in Seq(EventsOf(g)) /\ Len(Pending(g)) = n
        /\ Pending(g) = [k \in 1 .. n |-> AsRead(g, recorded[g][k].message)]
    BY <2>1, HistoryTypes DEF Pending
  <2> HIDE DEF n
  <2>5. /\ Append(Pending(g), x) \in Seq(EventsOf(g))
        /\ Len(Append(Pending(g), x)) = n + 1
        /\ Append(Pending(g), x)[n + 1] = x
        /\ \A k \in 1 .. n : Append(Pending(g), x)[k] = Pending(g)[k]
    <3>1. PICK p : p = Pending(g)
      OBVIOUS
    <3>2. p \in Seq(EventsOf(g)) /\ Len(p) = n
      BY <2>4, <3>1
    <3> HIDE DEF x
    <3> QED BY ONLY <1>6, <3>1, <3>2, AppendProperties
  <2>6. \A k \in 1 .. (n + 1) :
          AsRead(g, recorded'[g][k].message) = Append(Pending(g), x)[k]
    <3> TAKE k \in 1 .. (n + 1)
    <3>1. k = n + 1 \/ k \in 1 .. n
      BY <2>1
    <3> QED BY <2>2, <2>4, <2>5, <3>1
  <2>7. DOMAIN Append(Pending(g), x) = 1 .. (n + 1)
    BY <2>5
  <2>8. Append(Pending(g), x) = [k \in 1 .. (n + 1) |-> Append(Pending(g), x)[k]]
    BY <2>5, <2>7
  <2> HIDE DEF x
  <2> QED BY <2>3, <2>6, <2>8
<1> HIDE DEF x
<1>9. History(g)' = Append(History(g), x)
  BY <1>6, <1>7, <1>8, HistoryTypes DEF History
<1>10. RehydrateFromEvents(History(g)') = Apply(RehydrateFromEvents(History(g)), x)
  BY <1>6, <1>9, HistoryTypes, RehydrateAppend
<1>11. History(g)' # <<>>
  BY <1>6, <1>9, HistoryTypes
<1>12. user'[g] \in UsersOf(g) /\ user'[g] # NoUser
  BY <1>4, NobodyIsNoUser
<1>13. UserAsRead(g, user'[g]) = RehydrateFromEvents(History(g)')
  BY <1>4, <1>10 DEF x
<1>14. Root(g)'
  <2>1. Root(g)
    BY DEF RootInv
  <2> QED BY <1>1, <1>7, <1>11, <1>12, <1>13, <2>1 DEF Root, UserAsRead
<1> QED BY <1>3, <1>14 DEF RootInv

LEMMA CreateStep ==
  ASSUME MapInv, RootInv, NEW g \in Goroutines, NEW new \in NewUsers,
         Create(g, new.birthDate, new.email)
  PROVE  MapInv' /\ RootInv'
<1> DEFINE evt == [id        |-> g,
                   kind      |-> "WasCreated",
                   birthDate |-> new.birthDate,
                   email     |-> new.email]
           e == ToEnvelope(evt)
<1>1. user[g] = NoUser /\ Stored(g) = <<>> /\ Record(g, NoUser, e)
  BY DEF Create
<1>2. evt \in EventsOf(g) /\ evt.kind = "WasCreated"
  <2>1. new.birthDate \in Moments /\ new.email \in AnyEmail
    BY EnvelopesAssumption DEF AnyEmail
  <2> QED BY <2>1 DEF EventsOf
<1> HIDE DEF evt
<1>3. e \in EnvelopesOf(g) /\ e.message = evt /\ e.metadata = Nil
  BY <1>2 DEF ToEnvelope, EnvelopesOf, AnyRef
<1> HIDE DEF e
<1>4. History(g) = <<>>
  <2>1. Root(g)
    BY DEF RootInv
  <2>2. recorded[g] = <<>>
    BY <1>1, <2>1 DEF Root
  <2>3. Pending(g) = <<>>
    BY <2>2 DEF Pending
  <2>4. Persisted(g) = <<>>
    BY <1>1, HistoryTypes
  <2> QED BY <2>3, <2>4 DEF History
<1>5. /\ Apply(NoUser, evt) \in UsersOf(g)
      /\ UserAsRead(g, Apply(NoUser, evt)) = Apply(NoUser, AsRead(g, evt))
  BY <1>2, CreatedAsRead
<1>6. RehydrateFromEvents(History(g)) = NoUser
  BY <1>4, RehydrateEmpty
<1>7. RootInv'
  BY <1>1, <1>3, <1>5, <1>6, RecordRoot
<1>8. MapInv'
  BY <1>1, <1>3, RecordStep DEF Known
<1> QED BY <1>7, <1>8

LEMMA UpdateEmailStep ==
  ASSUME MapInv, RootInv, NEW g \in Goroutines, NEW email \in Emails,
         UpdateEmail(g, email)
  PROVE  MapInv' /\ RootInv'
<1> DEFINE evt == [id |-> user[g].id, kind |-> "EmailWasUpdated", email |-> email]
           e == [message |-> evt, metadata |-> metadata[g]]
<1>1. user[g] # NoUser /\ Record(g, user[g], e)
  BY DEF UpdateEmail
<1>2. /\ user[g] \in UsersOf(g)
      /\ UserAsRead(g, user[g]) = RehydrateFromEvents(History(g))
  BY <1>1 DEF RootInv, Root
<1>3. evt \in EventsOf(g) /\ evt.kind = "EmailWasUpdated"
  <2>1. user[g].id = g /\ email \in AnyEmail
    BY <1>2 DEF UsersOf, AnyEmail
  <2> QED BY <2>1 DEF EventsOf
<1> HIDE DEF evt
<1>4. /\ e \in EnvelopesOf(g) /\ e.message = evt
      /\ e.metadata \in Referred(g)
  BY <1>3 DEF EnvelopesOf, MapInv, References, Referred
<1> HIDE DEF e
<1>5. /\ Apply(user[g], evt) \in UsersOf(g)
      /\ UserAsRead(g, Apply(user[g], evt)) =
           Apply(UserAsRead(g, user[g]), AsRead(g, evt))
  BY <1>2, <1>3, UpdatedAsRead
<1>6. RootInv'
  <2>1. PICK state : state = user[g]
    OBVIOUS
  <2> QED BY <1>1, <1>2, <1>4, <1>5, <2>1, RecordRoot
<1>7. MapInv'
  <2>1. PICK state : state = user[g]
    OBVIOUS
  <2>2. Known(e.metadata)
    BY <1>4 DEF Known
  <2> QED BY <1>1, <1>4, <2>1, <2>2, RecordStep
<1> QED BY <1>6, <1>7

LEMMA GetRoot ==
  ASSUME MapInv, RootInv, NEW g \in Goroutines, Get(g)
  PROVE  RootInv'
<1> DEFINE w == RehydrateFromEvents(Persisted(g))
<1>1. /\ user[g] = NoUser /\ Stored(g) # <<>>
      /\ user' = [user EXCEPT ![g] =
           IF g \in InMemory
           THEN RehydrateFromEvents(Messages(memory[g]))
           ELSE DeserializeUser(aggregates[g])]
      /\ UNCHANGED <<recorded, memory, rows, aggregates>>
  BY DEF Get, tables
<1>2. DOMAIN user = Goroutines /\ Root(g)
  BY DEF MapInv, Domains, RootInv
<1>3. ASSUME NEW h \in Goroutines \ {g} PROVE Root(h)'
  BY <1>1, <1>2, RootSame DEF RootInv
<1>4. Persisted(g) # <<>> /\ Persisted(g) \in Seq(EventsOf(g))
  BY <1>1, HistoryTypes
<1>5. w \in UsersOf(g) /\ UserAsRead(g, w) = w
  BY <1>2, <1>4 DEF Root
<1>6. user'[g] = w
  <2>1. CASE g \in InMemory
    BY <1>1, <1>2, <2>1 DEF Persisted
  <2>2. CASE g \notin InMemory
    BY <1>1, <1>2, <2>2 DEF Root, Stored
  <2> QED BY <2>1, <2>2
<1>7. Persisted(g)' = Persisted(g)
  BY <1>1 DEF Persisted, Messages
<1>8. History(g) = Persisted(g)
  <2>1. recorded[g] = <<>>
    BY <1>1, <1>2 DEF Root
  <2>2. Pending(g) = <<>>
    BY <2>1 DEF Pending
  <2> QED BY <1>4, <2>2 DEF History
<1>9. Pending(g)' = Pending(g)
  BY <1>1 DEF Pending, AsRead
<1>10. History(g)' = Persisted(g)
  BY <1>7, <1>8, <1>9 DEF History
<1>11. Root(g)'
  <2>1. user'[g] \in UsersOf(g) /\ user'[g] # NoUser
    BY <1>5, <1>6, NobodyIsNoUser
  <2>2. UserAsRead(g, user'[g]) = RehydrateFromEvents(Persisted(g))
    BY <1>5, <1>6
  <2> HIDE DEF w
  <2> QED BY <1>1, <1>2, <1>4, <1>7, <1>10, <2>1, <2>2 DEF Root, UserAsRead
<1> QED BY <1>3, <1>11 DEF RootInv

(***************************************************************************)
(* A Save that succeeds persists what was pending.                         *)
(***************************************************************************)
LEMMA SavedRoot ==
  ASSUME MapInv, RootInv, NEW g \in Goroutines, recorded[g] # <<>>,
         user' = user, recorded' = [recorded EXCEPT ![g] = <<>>],
         \A h \in Goroutines \ {g} : /\ memory'[h] = memory[h]
                                     /\ rows'[h] = rows[h]
                                     /\ aggregates'[h] = aggregates[h],
         Persisted(g)' = History(g),
         rows'[g] # <<>> => DeserializeUser(aggregates'[g]) = UserAsRead(g, user[g])
  PROVE  RootInv'
<1>1. DOMAIN recorded = Goroutines /\ Root(g)
  BY DEF MapInv, Domains, RootInv
<1>2. ASSUME NEW h \in Goroutines \ {g} PROVE Root(h)'
  <2>1. recorded'[h] = recorded[h] /\ Root(h)
    BY <1>1 DEF RootInv
  <2> QED BY <2>1, RootSame
<1>3. /\ user[g] \in UsersOf(g) /\ user[g] # NoUser
      /\ History(g) # <<>>
      /\ UserAsRead(g, user[g]) = RehydrateFromEvents(History(g))
  BY <1>1 DEF Root
<1>4. /\ UserAsRead(g, user[g]) \in UsersOf(g)
      /\ UserAsRead(g, UserAsRead(g, user[g])) = UserAsRead(g, user[g])
  BY <1>3, UserAsReadProperties
<1>5. recorded'[g] = <<>>
  BY <1>1
<1>6. Pending(g)' = <<>>
  BY <1>5 DEF Pending
<1>7. History(g)' = History(g)
  <2>1. History(g) \in Seq(EventsOf(g))
    BY HistoryTypes
  <2>2. History(g)' = History(g) \o <<>>
    BY <1>6 DEF History
  <2> QED BY <2>1, <2>2
<1>8. Root(g)'
  BY <1>3, <1>4, <1>5, <1>7 DEF Root, UserAsRead
<1> QED BY <1>2, <1>8 DEF RootInv

LEMMA Joined ==
  ASSUME NEW S, NEW p \in Seq(S), NEW q \in Seq(S), NEW m, NEW n,
         Len(p) = m, Len(q) = n
  PROVE  /\ m \in Nat /\ n \in Nat
         /\ DOMAIN p = 1 .. m /\ DOMAIN q = 1 .. n
         /\ p \o q \in Seq(S)
         /\ DOMAIN (p \o q) = 1 .. (m + n)
         /\ \A k \in 1 .. (m + n) : (p \o q)[k] = IF k <= m THEN p[k] ELSE q[k - m]
<1>1. /\ p \o q \in Seq(S)
      /\ Len(p \o q) = m + n
      /\ \A k \in 1 .. (m + n) : (p \o q)[k] = IF k <= m THEN p[k] ELSE q[k - m]
  BY ConcatProperties
<1>2. m \in Nat /\ n \in Nat
  BY LenProperties
<1> QED BY <1>1, <1>2, LenProperties

LEMMA SaveInMemoryRoot ==
  ASSUME MapInv, RootInv, NEW g \in Goroutines, SaveInMemory(g)
  PROVE  RootInv'
<1>1. /\ g \in InMemory /\ recorded[g] # <<>>
      /\ memory' = [memory EXCEPT ![g] = memory[g] \o recorded[g]]
      /\ recorded' = [recorded EXCEPT ![g] = <<>>]
      /\ UNCHANGED <<user, rows, aggregates>>
  BY DEF SaveInMemory, tables
<1>2. /\ recorded[g] \in Seq(EnvelopesOf(g)) /\ memory[g] \in Seq(EnvelopesOf(g))
      /\ DOMAIN memory = Goroutines /\ rows[g] = <<>>
  BY <1>1 DEF MapInv, Contents, Domains, Progress
<1>3. memory'[g] = memory[g] \o recorded[g]
  BY <1>1, <1>2
<1> DEFINE m == Len(memory[g])
           n == Len(recorded[g])
<1>4. /\ m \in Nat /\ n \in Nat
      /\ DOMAIN memory[g] = 1 .. m /\ DOMAIN recorded[g] = 1 .. n
      /\ DOMAIN memory'[g] = 1 .. (m + n)
      /\ \A k \in 1 .. (m + n) :
           memory'[g][k] = IF k <= m THEN memory[g][k] ELSE recorded[g][k - m]
  BY <1>2, <1>3, ConcatProperties
<1> HIDE DEF m, n
<1>5. Persisted(g)' = [k \in 1 .. (m + n) |-> memory'[g][k].message]
  BY <1>1, <1>4 DEF Persisted, Messages
<1>6. /\ Persisted(g) = [k \in 1 .. m |-> memory[g][k].message]
      /\ Pending(g) = [k \in 1 .. n |-> recorded[g][k].message]
  BY <1>1, <1>4 DEF Persisted, Messages, Pending, AsRead
<1>7. Persisted(g)' = History(g)
  <2>1. /\ DOMAIN History(g) = 1 .. (m + n)
        /\ \A k \in 1 .. (m + n) :
             History(g)[k] = IF k <= m THEN Persisted(g)[k] ELSE Pending(g)[k - m]
    <3>1. /\ Persisted(g) \in Seq(EventsOf(g)) /\ Pending(g) \in Seq(EventsOf(g))
          /\ Len(Persisted(g)) = m /\ Len(Pending(g)) = n
      BY <1>1, HistoryTypes DEF Stored, m, n
    <3> QED BY <3>1, Joined DEF History
  <2>2. \A k \in 1 .. (m + n) : memory'[g][k].message = History(g)[k]
    <3> TAKE k \in 1 .. (m + n)
    <3>1. CASE k <= m
      <4>1. k \in 1 .. m
        BY <1>4, <3>1
      <4> QED BY <1>4, <1>6, <2>1, <3>1, <4>1
    <3>2. CASE ~ (k <= m)
      <4>1. k - m \in 1 .. n
        BY <1>4, <3>2
      <4> QED BY <1>4, <1>6, <2>1, <3>2, <4>1
    <3> QED BY <3>1, <3>2
  <2>3. History(g) = [k \in 1 .. (m + n) |-> History(g)[k]]
    BY <2>1, HistoryTypes
  <2> QED BY <1>5, <2>2, <2>3
<1>8. \A h \in Goroutines \ {g} : memory'[h] = memory[h]
  BY <1>1, <1>2
<1> QED BY <1>1, <1>2, <1>7, <1>8, SavedRoot

LEMMA CommitSaveRoot ==
  ASSUME MapInv, RootInv, NEW g \in Goroutines, CommitSave(g)
  PROVE  RootInv'
<1>1. /\ pc[g] = "enrich" /\ Len(inserted[g]) = Len(recorded[g])
      /\ rows' = [rows EXCEPT ![g] = rows[g] \o inserted[g]]
      /\ aggregates' = [aggregates EXCEPT ![g] = SerializeUser(user[g])]
      /\ recorded' = [recorded EXCEPT ![g] = <<>>]
      /\ UNCHANGED <<user, memory>>
  BY DEF CommitSave, saveAggregateState, EndSave
<1>2. /\ recorded[g] \in Seq(EnvelopesOf(g)) /\ rows[g] \in Seq(RowsOf(g))
      /\ inserted[g] \in Seq(RowsOf(g))
      /\ DOMAIN rows = Goroutines /\ DOMAIN aggregates = Goroutines
  BY DEF MapInv, Contents, Domains
<1>3. /\ g \notin InMemory /\ recorded[g] # <<>>
      /\ \A k \in 1 .. Len(inserted[g]) :
           inserted[g][k].event = SerializeEvent(recorded[g][k].message)
  BY <1>1 DEF MapInv, Progress
<1>4. rows'[g] = rows[g] \o inserted[g] /\ aggregates'[g] = SerializeUser(user[g])
  BY <1>1, <1>2
<1> DEFINE m == Len(rows[g])
           n == Len(recorded[g])
<1>5. /\ m \in Nat /\ n \in Nat
      /\ DOMAIN rows[g] = 1 .. m /\ DOMAIN recorded[g] = 1 .. n
      /\ DOMAIN rows'[g] = 1 .. (m + n)
      /\ \A k \in 1 .. (m + n) :
           rows'[g][k] = IF k <= m THEN rows[g][k] ELSE inserted[g][k - m]
  <2>1. DOMAIN recorded[g] = 1 .. n
    BY <1>2
  <2>2. Len(inserted[g]) = n
    BY <1>1
  <2> HIDE DEF m, n
  <2> QED BY <1>2, <1>4, <2>1, <2>2, Joined DEF m
<1>6. \A k \in 1 .. n : inserted[g][k].event = SerializeEvent(recorded[g][k].message)
  BY <1>1, <1>3
<1> HIDE DEF m, n
<1>7. Persisted(g)' = [k \in 1 .. (m + n) |-> DeserializeEvent(rows'[g][k].event)]
  BY <1>3, <1>5 DEF Persisted
<1>8. /\ Persisted(g) = [k \in 1 .. m |-> DeserializeEvent(rows[g][k].event)]
      /\ Pending(g) = [k \in 1 .. n |->
                         DeserializeEvent(SerializeEvent(recorded[g][k].message))]
  BY <1>3, <1>5 DEF Persisted, Pending, AsRead
<1>9. Persisted(g)' = History(g)
  <2>1. /\ DOMAIN History(g) = 1 .. (m + n)
        /\ \A k \in 1 .. (m + n) :
             History(g)[k] = IF k <= m THEN Persisted(g)[k] ELSE Pending(g)[k - m]
    <3>1. /\ Persisted(g) \in Seq(EventsOf(g)) /\ Pending(g) \in Seq(EventsOf(g))
          /\ Len(Persisted(g)) = m /\ Len(Pending(g)) = n
      BY <1>3, HistoryTypes DEF Stored, m, n
    <3> QED BY <3>1, Joined DEF History
  <2>2. \A k \in 1 .. (m + n) : DeserializeEvent(rows'[g][k].event) = History(g)[k]
    <3> TAKE k \in 1 .. (m + n)
    <3>1. CASE k <= m
      <4>1. k \in 1 .. m
        BY <1>5, <3>1
      <4> QED BY <1>5, <1>8, <2>1, <3>1, <4>1
    <3>2. CASE ~ (k <= m)
      <4>1. k - m \in 1 .. n
        BY <1>5, <3>2
      <4> QED BY <1>5, <1>6, <1>8, <2>1, <3>2, <4>1
    <3> QED BY <3>1, <3>2
  <2>3. History(g) = [k \in 1 .. (m + n) |-> History(g)[k]]
    BY <2>1, HistoryTypes
  <2> QED BY <1>7, <2>2, <2>3
<1>10. \A h \in Goroutines \ {g} : rows'[h] = rows[h] /\ aggregates'[h] = aggregates[h]
  BY <1>1, <1>2
<1>11. DeserializeUser(aggregates'[g]) = UserAsRead(g, user[g])
  BY <1>3, <1>4 DEF UserAsRead
<1> QED BY <1>1, <1>3, <1>9, <1>10, <1>11, SavedRoot

LEMMA SaveFailsRoot ==
  ASSUME MapInv, RootInv, NEW g \in Goroutines, SaveFails(g)
  PROVE  RootInv'
<1>1. /\ user' = [user EXCEPT ![g] = NoUser]
      /\ recorded' = [recorded EXCEPT ![g] = <<>>]
      /\ UNCHANGED <<memory, rows, aggregates>>
  BY DEF SaveFails, EndSave, tables
<1>2. DOMAIN user = Goroutines /\ DOMAIN recorded = Goroutines /\ Root(g)
  BY DEF MapInv, Domains, RootInv
<1>3. ASSUME NEW h \in Goroutines \ {g} PROVE Root(h)'
  BY <1>1, <1>2, RootSame DEF RootInv
<1>4. user'[g] = NoUser /\ recorded'[g] = <<>>
  BY <1>1, <1>2
<1>5. Persisted(g)' = Persisted(g)
  BY <1>1 DEF Persisted, Messages
<1>6. Root(g)'
  BY <1>1, <1>2, <1>4, <1>5 DEF Root, UserAsRead
<1> QED BY <1>3, <1>6 DEF RootInv

LEMMA RootUnchanged ==
  ASSUME RootInv, UNCHANGED <<user, recorded, memory, rows, aggregates>>
  PROVE  RootInv'
  BY RootSame DEF RootInv

-----------------------------------------------------------------------------
(***************************************************************************)
(* What the stores of the two kinds keep apart.                            *)
(***************************************************************************)
Apart ==
  /\ raced \subseteq Goroutines \ InMemory
  /\ \A g \in InMemory : aggregates[g] = NoUser

LEMMA ApartStep ==
  ASSUME MapInv, Apart, Next
  PROVE  Apart'
<1>1. \A h \in Goroutines : pc[h] # "idle" => h \notin InMemory
  BY DEF MapInv, Progress
<1>2. raced' \subseteq Goroutines \ InMemory
  <2>1. ASSUME NEW g \in Goroutines, NEW m, Write(g, m)
        PROVE  raced' \subseteq Goroutines \ InMemory
    BY <1>1, <2>1 DEF Apart, Write
  <2>2. CASE \E g \in Goroutines, trace \in Traces : AddTrace(g, trace)
    BY <2>1, <2>2 DEF AddTrace
  <2>3. CASE \E g, h \in Goroutines : \E k \in DOMAIN memory[h] : MergeStreamed(g, h, k)
    BY <2>1, <2>3 DEF MergeStreamed, Apart
  <2>4. CASE \E g \in Goroutines : EnrichMetadata(g)
    BY <2>1, <2>4 DEF EnrichMetadata
  <2>5. CASE raced' \subseteq raced
    BY <2>5 DEF Apart
  <2>6. ASSUME NEW g \in Goroutines, EndSave(g) PROVE raced' \subseteq raced
    BY <2>6 DEF EndSave
  <2> QED BY <2>2, <2>3, <2>4, <2>5, <2>6
          DEF Next, HandleBare, HandleTraced, HandleShared, Create, UpdateEmail, Record,
              Get, SaveInMemory, BeginSave, InsertEvent, CommitSave, SaveFails
<1>3. \A h \in InMemory : aggregates'[h] = aggregates[h]
  <2>1. ASSUME NEW g \in Goroutines, CommitSave(g), NEW h \in InMemory
        PROVE  aggregates'[h] = aggregates[h]
    <3>1. pc[g] = "enrich" /\ aggregates' = [aggregates EXCEPT ![g] = SerializeUser(user[g])]
      BY <2>1 DEF CommitSave, saveAggregateState
    <3>2. g # h /\ h \in Goroutines /\ DOMAIN aggregates = Goroutines
      BY <1>1, <3>1, EnvelopesAssumption DEF MapInv, Domains
    <3> QED BY <3>1, <3>2
  <2>2. CASE UNCHANGED aggregates
    BY <2>2
  <2> QED BY <2>1, <2>2
          DEF Next, HandleBare, HandleTraced, HandleShared, Handle, AddTrace, MergeStreamed,
              Create, UpdateEmail, Record, Get, SaveInMemory, BeginSave, EnrichMetadata,
              InsertEvent, SaveFails, tables
<1> QED BY <1>2, <1>3 DEF Apart

LEMMA NextMapInv ==
  ASSUME MapInv, RootInv, Next
  PROVE  MapInv'
<1> PICK g \in Goroutines :
      \/ HandleBare(g)
      \/ \E trace \in Traces : HandleTraced(g, trace) \/ AddTrace(g, trace)
      \/ \E h \in Goroutines \ {g} : HandleShared(g, h)
      \/ \E h \in Goroutines : \E k \in DOMAIN memory[h] : MergeStreamed(g, h, k)
      \/ \E new \in NewUsers : Create(g, new.birthDate, new.email)
      \/ \E email \in Emails : UpdateEmail(g, email)
      \/ Get(g) \/ SaveInMemory(g) \/ BeginSave(g) \/ EnrichMetadata(g)
      \/ InsertEvent(g) \/ CommitSave(g) \/ SaveFails(g)
  BY DEF Next
<1>1. CASE \E trace \in Traces : HandleTraced(g, trace) \/ AddTrace(g, trace)
  BY <1>1, HandleTracedStep, AddTraceStep
<1>2. CASE \E h \in Goroutines \ {g} : HandleShared(g, h)
  BY <1>2, HandleSharedStep
<1>3. CASE \E h \in Goroutines : \E k \in DOMAIN memory[h] : MergeStreamed(g, h, k)
  BY <1>3, MergeStreamedStep
<1>4. CASE \E new \in NewUsers : Create(g, new.birthDate, new.email)
  BY <1>4, CreateStep
<1>5. CASE \E email \in Emails : UpdateEmail(g, email)
  BY <1>5, UpdateEmailStep
<1>6. CASE HandleBare(g)
  BY <1>6, HandleBareStep
<1>7. CASE Get(g)
  BY <1>7, GetStep
<1>8. CASE SaveInMemory(g)
  BY <1>8, SaveInMemoryStep
<1>9. CASE BeginSave(g)
  BY <1>9, BeginSaveStep
<1>10. CASE EnrichMetadata(g)
  BY <1>10, EnrichMetadataStep
<1>11. CASE InsertEvent(g)
  BY <1>11, InsertEventStep
<1>12. CASE CommitSave(g)
  BY <1>12, CommitSaveStep
<1>13. CASE SaveFails(g)
  BY <1>13, SaveFailsStep
<1> QED BY <1>1, <1>2, <1>3, <1>4, <1>5, <1>6, <1>7, <1>8, <1>9, <1>10, <1>11, <1>12,
           <1>13

LEMMA NextRootInv ==
  ASSUME MapInv, RootInv, Next
  PROVE  RootInv'
<1> PICK g \in Goroutines :
      \/ HandleBare(g)
      \/ \E trace \in Traces : HandleTraced(g, trace) \/ AddTrace(g, trace)
      \/ \E h \in Goroutines \ {g} : HandleShared(g, h)
      \/ \E h \in Goroutines : \E k \in DOMAIN memory[h] : MergeStreamed(g, h, k)
      \/ \E new \in NewUsers : Create(g, new.birthDate, new.email)
      \/ \E email \in Emails : UpdateEmail(g, email)
      \/ Get(g) \/ SaveInMemory(g) \/ BeginSave(g) \/ EnrichMetadata(g)
      \/ InsertEvent(g) \/ CommitSave(g) \/ SaveFails(g)
  BY DEF Next
<1> DEFINE Frame == UNCHANGED <<user, recorded, memory, rows, aggregates>>
<1>1. CASE Frame
  BY <1>1, RootUnchanged
<1>2. CASE \E new \in NewUsers : Create(g, new.birthDate, new.email)
  BY <1>2, CreateStep
<1>3. CASE \E email \in Emails : UpdateEmail(g, email)
  BY <1>3, UpdateEmailStep
<1>4. CASE Get(g)
  BY <1>4, GetRoot
<1>5. CASE SaveInMemory(g)
  BY <1>5, SaveInMemoryRoot
<1>6. CASE CommitSave(g)
  BY <1>6, CommitSaveRoot
<1>7. CASE SaveFails(g)
  BY <1>7, SaveFailsRoot
<1>8. HandleBare(g) => Frame
  BY DEF HandleBare, Handle, tables
<1>9. (\E trace \in Traces : HandleTraced(g, trace) \/ AddTrace(g, trace)) => Frame
  BY DEF HandleTraced, AddTrace, Handle, tables
<1>10. (\E h \in Goroutines \ {g} : HandleShared(g, h)) => Frame
  BY DEF HandleShared, Handle, tables
<1>11. (\E h \in Goroutines : \E k \in DOMAIN memory[h] : MergeStreamed(g, h, k)) => Frame
  BY DEF MergeStreamed, tables
<1>12. BeginSave(g) \/ EnrichMetadata(g) \/ InsertEvent(g) => Frame
  BY DEF BeginSave, EnrichMetadata, InsertEvent, commandVars, tables
<1> HIDE DEF Frame
<1> QED BY <1>1, <1>2, <1>3, <1>4, <1>5, <1>6, <1>7, <1>8, <1>9, <1>10, <1>11, <1>12

LEMMA StutterMapInv ==
  ASSUME MapInv, UNCHANGED vars
  PROVE  MapInv'
<1>1. UNCHANGED <<heap, metadata, user, recorded, memory, rows, aggregates, pc, inserted,
                  enriched, handed, raced>>
  BY DEF vars, commandVars, tables, saveVars
<1>2. Domains' /\ References'
  BY <1>1 DEF MapInv, Domains, References
<1>3. \A h \in Goroutines : Same(h) /\ Quiet(h)
  BY <1>1, SameHeapQuiet DEF Same
<1>4. ASSUME NEW h \in Goroutines PROVE Private(h)'
  <2>1. \A q \in Goroutines : Referred(q)' = Referred(q) /\ NextEvent(q)' = NextEvent(q)
    BY <1>3, SameReferred
  <2>2. Private(h)
    BY DEF MapInv
  <2> QED BY <1>1, <2>1, <2>2 DEF Private
<1>5. ASSUME NEW h \in Goroutines PROVE Contents(h)' /\ Progress(h)' /\ Batch(h)'
  BY <1>3, OtherKeeps
<1> QED BY <1>2, <1>4, <1>5 DEF MapInv

LEMMA AlwaysInv == Spec => [](MapInv /\ RootInv /\ Apart)
<1>1. Init => MapInv /\ RootInv /\ Apart
  <2>1. Init => Apart
    BY EnvelopesAssumption DEF Init, Apart
  <2> QED BY <2>1, InitMapInv, InitRootInv
<1>2. MapInv /\ RootInv /\ Apart /\ [Next]_vars => (MapInv /\ RootInv /\ Apart)'
  <2> SUFFICES ASSUME MapInv, RootInv, Apart, [Next]_vars
               PROVE  MapInv' /\ RootInv' /\ Apart'
    OBVIOUS
  <2>1. CASE Next
    BY <2>1, NextMapInv, NextRootInv, ApartStep
  <2>2. CASE UNCHANGED vars
    <3>1. UNCHANGED <<user, recorded, memory, rows, aggregates, raced>>
      BY <2>2 DEF vars, commandVars, tables
    <3>2. RootInv'
      BY <3>1, RootUnchanged
    <3>3. MapInv'
      BY <2>2, StutterMapInv
    <3>4. Apart'
      BY <3>1 DEF Apart
    <3> QED BY <3>2, <3>3, <3>4
  <2> QED BY <2>1, <2>2
<1> QED BY <1>1, <1>2, PTL DEF Spec

-----------------------------------------------------------------------------

(***************************************************************************)
(* A conversion that failed is never kept, every reference leads to a map, *)
(* and no goroutine reaches the store of the other kind.                   *)
(***************************************************************************)
THEOREM EnvelopeTypes == Spec => []TypeOK
<1>1. MapInv /\ RootInv /\ Apart => TypeOK
  <2> SUFFICES ASSUME MapInv, RootInv, Apart PROVE TypeOK
    OBVIOUS
  <2>1. References
    BY DEF MapInv
  <2>2. \A r \in Refs : \E keys \in SUBSET Keys : heap[r] \in MapsWith(keys)
    BY <2>1 DEF References, AnyMap
  <2>3. ASSUME NEW g \in Goroutines
        PROVE  /\ user[g] # NoUser => user[g] \in Users /\ user[g].id = g
               /\ MapsOf(recorded[g]) \cup MapsOf(memory[g]) \subseteq Refs \cup {Nil}
               /\ g \in InMemory => rows[g] = <<>> /\ aggregates[g] = NoUser
               /\ g \notin InMemory => memory[g] = <<>>
               /\ pc[g] = "idle" => inserted[g] = <<>> /\ enriched[g] = Nil
    <3>1. user[g] # NoUser => user[g] \in UsersOf(g)
      BY DEF RootInv, Root
    <3>2. user[g] # NoUser => user[g] \in Users /\ user[g].id = g
      BY <3>1, NobodyIsNoUser
    <3>3. MapsOf(recorded[g]) \cup MapsOf(memory[g]) \subseteq Refs \cup {Nil}
      BY MapsOfContents DEF Referred, AnyRef
    <3>4. Progress(g)
      BY DEF MapInv
    <3> QED BY <3>2, <3>3, <3>4 DEF Progress, Apart
  <2> QED BY <2>1, <2>2, <2>3 DEF TypeOK, References, AnyRef, Apart
<1> QED BY <1>1, AlwaysInv, PTL

(***************************************************************************)
(* Whatever maps the goroutines share: the rows of a Save that nobody      *)
(* raced hold the metadata its events had when Save was called, and the    *)
(* keys that appendDomainEvent adds, of this Save.                         *)
(***************************************************************************)
THEOREM RowsOfTheSave == Spec => []RowsTellTheirSave
<1>1. MapInv => RowsTellTheirSave
  <2> SUFFICES ASSUME MapInv, NEW g \in Goroutines \ raced, NEW k \in DOMAIN inserted[g]
               PROVE  /\ inserted[g][k].metadata # Nil
                      /\ Tells(handed[g][k], inserted[g][k].metadata, newVersion(g))
    BY DEF RowsTellTheirSave, Tells
  <2>1. inserted[g] \in Seq(RowsOf(g)) /\ Progress(g) /\ Batch(g)
    BY DEF MapInv, Contents
  <2>2. k \in 1 .. Len(inserted[g]) /\ inserted[g][k] \in RowsOf(g)
    BY <2>1, ElementOfSeq
  <2>3. pc[g] # "idle"
    BY <2>1 DEF Progress
  <2>4. inserted[g][k].metadata # Nil
    BY <2>2, MapDomains DEF RowsOf
  <2> QED BY <2>1, <2>2, <2>3, <2>4 DEF Batch
<1> QED BY <1>1, AlwaysInv, PTL

(***************************************************************************)
(* Stream of the Postgres store never meets a row that Save has written    *)
(* and it cannot read.                                                     *)
(***************************************************************************)
THEOREM ReadableRows == Spec => []RowsAreReadable
<1>1. MapInv => RowsAreReadable
  <2> SUFFICES ASSUME MapInv, NEW g \in Goroutines, NEW k \in DOMAIN rows[g]
               PROVE  /\ rows[g][k].metadata # Nil
                      /\ DeserializeEvent(rows[g][k].event) # Error
    BY DEF RowsAreReadable
  <2>1. rows[g] \in Seq(RowsOf(g))
    BY DEF MapInv, Contents
  <2>2. rows[g][k] \in RowsOf(g)
    BY <2>1, ElementOfSeq
  <2>3. PICK evt \in EventsOf(g) : rows[g][k].event = SerializeEvent(evt)
    BY <2>2 DEF RowsOf
  <2>4. rows[g][k].metadata # Nil
    BY <2>2, MapDomains DEF RowsOf
  <2> QED BY <2>3, <2>4, EventRoundTrip
<1> QED BY <1>1, AlwaysInv, PTL

(***************************************************************************)
(* The snapshot in the table aggregates and the replay of the rows in the  *)
(* table events are the same user, after any history of events.            *)
(***************************************************************************)
THEOREM SnapshotAgrees == Spec => []SnapshotIsItsHistory
<1>1. MapInv /\ RootInv => SnapshotIsItsHistory
  <2> SUFFICES ASSUME MapInv, RootInv, NEW g \in Goroutines, rows[g] # <<>>
               PROVE  DeserializeUser(aggregates[g]) =
                        RehydrateFromEvents(
                          [k \in DOMAIN rows[g] |-> DeserializeEvent(rows[g][k].event)])
    BY DEF SnapshotIsItsHistory
  <2>1. g \notin InMemory
    BY DEF MapInv, Progress
  <2>2. DeserializeUser(aggregates[g]) = RehydrateFromEvents(Persisted(g))
    BY DEF RootInv, Root
  <2> QED BY <2>1, <2>2 DEF Persisted
<1> QED BY <1>1, AlwaysInv, PTL

(***************************************************************************)
(* What Get returns equals the root that was saved, if the birth date is a *)
(* midnight UTC, and up to its clock otherwise.                            *)
(***************************************************************************)
THEOREM SavedIsLoaded == Spec => []LoadedEqualsSaved
<1>1. MapInv /\ RootInv => LoadedEqualsSaved
  <2> SUFFICES ASSUME MapInv, RootInv, NEW g \in Goroutines \ InMemory,
                      user[g] # NoUser, recorded[g] = <<>>
               PROVE  LET got == DeserializeUser(aggregates[g])
                      IN  /\ got = [user[g] EXCEPT !.birthDate.clock = Midnight]
                          /\ user[g].birthDate.clock = Midnight => got = user[g]
    BY DEF LoadedEqualsSaved
  <2> DEFINE got == DeserializeUser(aggregates[g])
             u == user[g]
  <2>1. Root(g)
    BY DEF RootInv
  <2>2. /\ u \in UsersOf(g) /\ History(g) # <<>>
        /\ UserAsRead(g, u) = RehydrateFromEvents(History(g))
    BY <2>1 DEF Root
  <2>3. History(g) = Persisted(g)
    <3>1. Pending(g) = <<>>
      BY DEF Pending
    <3> QED BY <3>1, HistoryTypes DEF History
  <2>4. rows[g] # <<>>
    BY <2>2, <2>3, HistoryTypes DEF Stored
  <2>5. got = UserAsRead(g, u)
    BY <2>1, <2>2, <2>3, <2>4 DEF Root
  <2> HIDE DEF u, got
  <2>6. got = [id |-> g, birthDate |-> dateToTime(u.birthDate.date), email |-> u.email]
    BY <2>2, <2>5, UserRoundTrip DEF UserAsRead
  <2>7. /\ u = [id |-> g, birthDate |-> u.birthDate, email |-> u.email]
        /\ u.birthDate = [date |-> u.birthDate.date, clock |-> u.birthDate.clock]
    BY <2>2 DEF UsersOf, Moments
  <2>8. [u EXCEPT !.birthDate.clock = Midnight] =
          [id        |-> g,
           birthDate |-> [date |-> u.birthDate.date, clock |-> Midnight],
           email     |-> u.email]
    BY <2>7
  <2>9. got = [u EXCEPT !.birthDate.clock = Midnight]
    BY <2>6, <2>8 DEF dateToTime
  <2>10. u.birthDate.clock = Midnight => got = u
    BY <2>6, <2>7 DEF dateToTime
  <2> QED BY <2>9, <2>10 DEF u, got
<1> QED BY <1>1, AlwaysInv, PTL

=============================================================================
