------------------------------- MODULE LastUnits --------------------------------
(***************************************************************************)
(* What a tail buffer promises its users: between two calls the tail it    *)
(* offers is exactly the last n_units units of everything it was fed.      *)
(* While a call is in progress it offers nothing: buffer.h says that       *)
(* buffer_set_appended "invalidates all pointers".                         *)
(*                                                                         *)
(* Buffer.tla implements this specification.                               *)
(***************************************************************************)
EXTENDS Stream

VARIABLES
  count_lines,  \* units are lines (-n) or bytes (-c)
  n_units,      \* how many units the tail keeps
  received,     \* number of bytes fed so far
  newlines,     \* the positions of the newlines among them
  tail          \* the cut where the offered tail starts, or NoTail

vars == <<count_lines, n_units, received, newlines, tail>>

NoTail == -1

\* Nothing has been fed, and nothing is offered before the first Settle.
Init ==
  /\ count_lines \in BOOLEAN
  /\ n_units \in Nat
  /\ received = 0
  /\ newlines = {}
  /\ tail = NoTail

\* More bytes arrive; until they are accounted for there is no tail to read.
Feed ==
  /\ tail # NoTail
  /\ received' \in Nat /\ received' > received
  /\ newlines \subseteq newlines'
  /\ newlines' \ newlines \subseteq (received + 1)..received'
  /\ tail' = NoTail
  /\ UNCHANGED <<count_lines, n_units>>

\* The call returns: the tail is the last n_units units.
Settle ==
  /\ tail = NoTail
  /\ IsTailStart(count_lines, n_units, newlines, received, tail')
  /\ UNCHANGED <<count_lines, n_units, received, newlines>>

\* The buffer is torn down.
Close ==
  /\ tail # NoTail
  /\ tail' = NoTail
  /\ UNCHANGED <<count_lines, n_units, received, newlines>>

Next == Feed \/ Settle \/ Close

Spec == Init /\ [][Next]_vars
=================================================================================
