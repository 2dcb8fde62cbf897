-------------------------------- MODULE Fifo --------------------------------
(***************************************************************************)
(* What RingBuffer promises ("efficient FIFO queue behavior"): a queue of  *)
(* values, of any length.  out is what the last Pop returned.              *)
(***************************************************************************)
EXTENDS Naturals, Sequences

CONSTANTS Values, Zero

VARIABLES q, out

vars == <<q, out>>

Init == q = <<>> /\ out = Zero

Push(v) == q' = Append(q, v) /\ UNCHANGED out

Pop == IF q = <<>> THEN out' = Zero /\ UNCHANGED q
       ELSE out' = Head(q) /\ q' = Tail(q)

(***************************************************************************)
(* Any number of the oldest elements is dropped: Discard and Clear.        *)
(***************************************************************************)
Drop == /\ \E n \in 1..Len(q) : q' = SubSeq(q, n + 1, Len(q))
        /\ UNCHANGED out

Next == (\E v \in Values : Push(v)) \/ Pop \/ Drop

Spec == Init /\ [][Next]_vars
=============================================================================
