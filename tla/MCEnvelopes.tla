---------------------------- MODULE MCEnvelopes ----------------------------
(***************************************************************************)
(* Envelopes on a small instance.  What an unused address holds makes no   *)
(* difference, so it is left out of the states TLC tells apart.            *)
(***************************************************************************)
EXTENDS Envelopes

Registrations ==
  {[birthDate |-> [date |-> "1970-01-01", clock |-> "noon"], email |-> "a"]}

Versions == [g \in Goroutines |-> IF g \in InMemory THEN 2 ELSE 3]

LiveState ==
  <<[r \in Refs \ Unused |-> heap[r]],
    commandVars, memory, tables, saveVars, raced>>

=============================================================================
