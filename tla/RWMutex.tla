------------------------------- MODULE RWMutex -------------------------------
(***************************************************************************)
(* Go's sync.RWMutex, as the stores of this repository use it (external:   *)
(* the code is Go's standard library).  The lock is a value and the calls  *)
(* are operators on it:                                                    *)
(*                                                                         *)
(*   writer   the goroutine that has announced itself as the next writer,  *)
(*            pending or active, or NoOne;                                 *)
(*   readers  the goroutines that hold the read lock;                      *)
(*   blocked  the goroutines that asked for the read lock after a writer   *)
(*            announced itself.                                            *)
(*                                                                         *)
(* Lock is two steps: announcing (from then on new readers wait), and      *)
(* being granted once the readers that were there have left.  Unlock lets  *)
(* every blocked reader in before another writer can announce itself.      *)
(***************************************************************************)
CONSTANT NoOne  \* no goroutine

Unlocked == [writer |-> NoOne, readers |-> {}, blocked |-> {}]

RLock(m, g) ==
  IF m.writer = NoOne
    THEN [m EXCEPT !.readers = @ \cup {g}]
    ELSE [m EXCEPT !.blocked = @ \cup {g}]

RLocked(m, g) == g \in m.readers

RUnlock(m, g) == [m EXCEPT !.readers = @ \ {g}]

CanAnnounce(m) == m.writer = NoOne

Announce(m, g) == [m EXCEPT !.writer = g]

Granted(m, g) == m.writer = g /\ m.readers = {}

Unlock(m) ==
  [writer |-> NoOne, readers |-> m.readers \cup m.blocked, blocked |-> {}]

=============================================================================
