------------------------------ MODULE Chained ------------------------------
(***************************************************************************)
(* serde.Chained (serde/chained.go): two serdes put one behind the other.  *)
(* The second stage is not tried once the first has failed.                *)
(***************************************************************************)

CONSTANTS
  Error,                    \* what a conversion that fails returns
  FirstSerialize(_),        \* first.Serialize: from the source type
  FirstDeserialize(_),
  SecondSerialize(_),       \* second.Serialize: to the destination type
  SecondDeserialize(_)

Serialize(src) ==
  LET mid == FirstSerialize(src)
  IN  IF mid = Error THEN Error ELSE SecondSerialize(mid)

Deserialize(dst) ==
  LET mid == SecondDeserialize(dst)
  IN  IF mid = Error THEN Error ELSE FirstDeserialize(mid)

=============================================================================
