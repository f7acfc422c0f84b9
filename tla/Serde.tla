------------------------------- MODULE Serde -------------------------------
(***************************************************************************)
(* The serdes a user and its events go through on their way to a table and *)
(* back: package serde (serde.go, protojson.go; Chained) and the           *)
(* Protobuf formats of internal/user/serde.go.                             *)
(*                                                                         *)
(* A moment is its date, in the location of the time.Time, and its clock:  *)
(* Midnight is 00:00 UTC of that date.  The names of a user and the time a *)
(* record was made are left out: both are kept by every conversion.        *)
(***************************************************************************)

CONSTANT Midnight

(***************************************************************************)
(* What a conversion that fails returns: neither an id nor a message.      *)
(***************************************************************************)
Error == [error |-> TRUE]

(***************************************************************************)
(* Protobuf JSON: the text of a message can be read back as a message of   *)
(* its own type only.  The factory gives the type.                         *)
(***************************************************************************)
NewProtoJSONSerializer(model) == [text |-> model]

NewProtoJSONDeserializer(type, data) ==
  IF data.text.message = type THEN data.text ELSE Error

UUIDString(id) == [canonical |-> id]

UUIDParse(s) == IF DOMAIN s = {"canonical"} THEN s.canonical ELSE Error

-----------------------------------------------------------------------------

timeToDate(t) == t.date

dateToTime_Local(d) == [date |-> d, clock |-> "midnight of time.Local"]

dateToTime(d) == [date |-> d, clock |-> Midnight]

protoSerializer_NoEmail(user) ==
  [message   |-> "User",
   id        |-> UUIDString(user.id),
   birthDate |-> timeToDate(user.birthDate),
   email     |-> ""]

protoSerializer(user) ==
  [message   |-> "User",
   id        |-> UUIDString(user.id),
   birthDate |-> timeToDate(user.birthDate),
   email     |-> user.email]

protoDeserializer(src) ==
  LET id == UUIDParse(src.id)
  IN  IF id = Error
      THEN Error
      ELSE [id        |-> id,
            birthDate |-> dateToTime(src.birthDate),
            email     |-> src.email]

protoEventSerializer(evt) ==
  LET event(kind) ==
        [message |-> "Event", id |-> UUIDString(evt.id), kind |-> kind]
  IN  CASE evt.kind = "WasCreated" ->
             event([name      |-> "WasCreated",
                    birthDate |-> timeToDate(evt.birthDate),
                    email     |-> evt.email])
        [] evt.kind = "EmailWasUpdated" ->
             event([name |-> "EmailWasUpdated", email |-> evt.email])
        [] OTHER -> Error

protoEventDeserializer(src) ==
  LET id == UUIDParse(src.id)
  IN  IF id = Error
      THEN Error
      ELSE CASE src.kind.name = "WasCreated" ->
                  [id        |-> id,
                   kind      |-> "WasCreated",
                   birthDate |-> dateToTime(src.kind.birthDate),
                   email     |-> src.kind.email]
             [] src.kind.name = "EmailWasUpdated" ->
                  [id    |-> id,
                   kind  |-> "EmailWasUpdated",
                   email |-> src.kind.email]
             [] OTHER -> Error

-----------------------------------------------------------------------------

(***************************************************************************)
(* The two serdes of the AggregateRepository of users, as                  *)
(* postgres/aggregate_repository_test.go puts them together.               *)
(***************************************************************************)
ParseUser(data) == NewProtoJSONDeserializer("User", data)

ParseEvent(data) == NewProtoJSONDeserializer("Event", data)

UserSerde == INSTANCE Chained
  WITH FirstSerialize    <- protoSerializer,
       FirstDeserialize  <- protoDeserializer,
       SecondSerialize   <- NewProtoJSONSerializer,
       SecondDeserialize <- ParseUser

EventSerde == INSTANCE Chained
  WITH FirstSerialize    <- protoEventSerializer,
       FirstDeserialize  <- protoEventDeserializer,
       SecondSerialize   <- NewProtoJSONSerializer,
       SecondDeserialize <- ParseEvent

SerializeUser(user) == UserSerde!Serialize(user)

DeserializeUser(data) == UserSerde!Deserialize(data)

SerializeEvent(evt) == EventSerde!Serialize(evt)

DeserializeEvent(data) == EventSerde!Deserialize(data)

=============================================================================
