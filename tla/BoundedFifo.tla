----------------------------- MODULE BoundedFifo -----------------------------
(***************************************************************************)
(* What a byte ring of the kernel promises: a first-in first-out queue of  *)
(* at most Capacity values.  Module Pipe is shown to implement it.         *)
(***************************************************************************)
EXTENDS Naturals, Sequences

CONSTANTS Value, Capacity
VARIABLE q

Init == q = <<>>
Put  == /\ Len(q) < Capacity
        /\ \E v \in Value : q' = Append(q, v)
Get  == /\ q # <<>>
        /\ q' = Tail(q)

Next == Put \/ Get
Spec == Init /\ [][Next]_q
=============================================================================
