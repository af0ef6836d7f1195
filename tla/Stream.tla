--------------------------------- MODULE Stream ---------------------------------
(***************************************************************************)
(* The byte stream tailserver and tailclient handle, seen from outside.    *)
(*                                                                         *)
(* A byte is identified by its position 1, 2, 3, ... in the stream and the *)
(* only thing known of its value is whether it is a newline: nl is the set *)
(* of the positions that hold one.  A cut s (a number of bytes) separates  *)
(* the bytes 1..s from the bytes s+1, s+2, ...                             *)
(*                                                                         *)
(* This module models no code: it says what "the last K lines" and "the    *)
(* last K bytes" of the usage texts mean.                                  *)
(***************************************************************************)
EXTENDS Integers, FiniteSets

\* The number of newlines between the cuts lo and hi.
NewlinesIn(nl, lo, hi) == Cardinality({p \in nl : lo < p /\ p <= hi})

\* The number of lines (newlines) or bytes between the cuts lo and hi.
UnitsIn(lines, nl, lo, hi) == IF lines THEN NewlinesIn(nl, lo, hi) ELSE hi - lo

(***************************************************************************)
(* s is the cut before the last n units of a stream of len bytes.  With    *)
(* fewer than n units everything is kept.  A line ends with its newline,   *)
(* so n whole lines start right after a newline; the unfinished line at    *)
(* the end is kept and not counted (the TODO at buffer.c:87 accepts that). *)
(***************************************************************************)
IsTailStart(lines, n, nl, len, s) ==
  IF UnitsIn(lines, nl, 0, len) <= n
  THEN s = 0
  ELSE /\ s \in 0..len
       /\ UnitsIn(lines, nl, s, len) = n
       /\ lines => s \in nl

\* That cut.
TailStart(lines, n, nl, len) == CHOOSE s \in 0..len : IsTailStart(lines, n, nl, len, s)

\* The same for the first len bytes of a stream that may go on, with newlines in nl.
TailStartAt(lines, n, nl, len) == TailStart(lines, n, {p \in nl : p <= len}, len)

(***************************************************************************)
(* The last n units start at the cut f or after it.                        *)
(***************************************************************************)
TailNotBefore(lines, n, nl, len, f) ==
  \/ f = 0
  \/ UnitsIn(lines, nl, f, len) > n
  \/ UnitsIn(lines, nl, f, len) = n /\ (lines => f \in nl)
=================================================================================
