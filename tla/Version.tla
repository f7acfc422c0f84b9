------------------------------- MODULE Version -------------------------------
(***************************************************************************)
(* The version package: stream versions, the checks an Append may ask for, *)
(* and the unsigned arithmetic the library does on versions.               *)
(*                                                                         *)
(* version.Version is a uint32.  TLC cannot hold 2^32, so the size of the  *)
(* type is the constant VersionSpace; a wrapped subtraction lands at the   *)
(* top of 0 .. VersionSpace - 1, as it does in Go.                         *)
(***************************************************************************)
EXTENDS Integers

CONSTANT VersionSpace  \* how many values version.Version has (2^32 in Go)

ASSUME VersionSpaceAssumption == VersionSpace \in Nat \ {0}

Versions == 0 .. (VersionSpace - 1)

(***************************************************************************)
(* version.Check is either CheckAny or a CheckExact holding a Version.     *)
(* CheckAny is written -1, the value the OpenTelemetry wrapper reports for *)
(* it.                                                                     *)
(***************************************************************************)
CheckAny == -1

Checks == {CheckAny} \cup Versions

(***************************************************************************)
(* a - b on version.Version.                                               *)
(***************************************************************************)
Minus(a, b) == IF b <= a THEN a - b ELSE (a - b) + VersionSpace

=============================================================================
