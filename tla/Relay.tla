--------------------------------- MODULE Relay ----------------------------------
(***************************************************************************)
(* What tailserver and tailclient are for, without buffers, sockets and    *)
(* processes: a stream comes in, and every reader gets, in order and       *)
(* without gap or repetition, the tail that is on offer when it joins and  *)
(* what follows.                                                           *)
(*                                                                         *)
(* Server.tla implements this for the clients' ends of the connections and *)
(* for stdout, and System.tla for what a tailclient prints.                *)
(***************************************************************************)
EXTENDS Integers, Sequences

CONSTANT Readers

VARIABLES
  input,   \* the number of bytes that have come in
  tail,    \* the cut of the stream from which newcomers get it
  start,   \* the cut from which each reader gets it, or NotJoined
  output   \* the bytes, named by their positions, that each reader has got

vars == <<input, tail, start, output>>

NotJoined == -1
Between(lo, hi) == [i \in 1..(hi - lo) |-> lo + i]

\* Some readers may be there from the beginning.
Init ==
  /\ input = 0 /\ tail = 0
  /\ start \in [Readers -> {NotJoined, 0}]
  /\ output = [r \in Readers |-> <<>>]

\* More of the stream; the tail on offer never goes back.
Receive ==
  /\ input' \in Nat /\ input' > input
  /\ tail' \in tail..input'
  /\ UNCHANGED <<start, output>>

Join(r) ==
  /\ start[r] = NotJoined
  /\ start' = [start EXCEPT ![r] = tail]
  /\ UNCHANGED <<input, tail, output>>

\* The next bytes for r.
Deliver(r) ==
  /\ start[r] # NotJoined
  /\ LET next == start[r] + Len(output[r]) IN
       \E hi \in (next + 1)..input :
         output' = [output EXCEPT ![r] = @ \o Between(next, hi)]
  /\ UNCHANGED <<input, tail, start>>

Next == Receive \/ \E r \in Readers : Join(r) \/ Deliver(r)

Spec == Init /\ [][Next]_vars
=================================================================================
