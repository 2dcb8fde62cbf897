--------------------------- MODULE TimedFuncHeap ---------------------------
(***************************************************************************)
(* The binary heap of timedsched.go.  A heap is the slice that holds the   *)
(* tasks; the children of h[i] are h[2i] and h[2i+1] (indices from 1).  A  *)
(* task is a record with a deadline ts.                                    *)
(***************************************************************************)
EXTENDS Integers, Sequences

CONSTANT Task

Before(s, i, j) == s[i].ts < s[j].ts

Swap(s, i, j) == [s EXCEPT ![i] = s[j], ![j] = s[i]]

(***************************************************************************)
(* The loop of push, in state <<i, s>>: the new task, at i, moves towards  *)
(* the root past every task that is due later.                             *)
(***************************************************************************)
up[x \in Nat \X Seq(Task)] ==
    LET i == x[1]
        s == x[2]
    IN  IF i \in 2..Len(s) /\ Before(s, i, i \div 2)
        THEN up[<<i \div 2, Swap(s, i, i \div 2)>>]
        ELSE s

push(s, f) == up[<<Len(s) + 1, Append(s, f)>>]

(***************************************************************************)
(* The loop of pop: the task at i moves down past its earlier child.       *)
(***************************************************************************)
\* variant: only the left child is looked at
EarliestOf_Left(s, i) ==
    IF 2 * i <= Len(s) /\ Before(s, 2 * i, i) THEN 2 * i ELSE i

EarliestOf(s, i) ==
    LET l == 2 * i
        m == IF l <= Len(s) /\ Before(s, l, i) THEN l ELSE i
    IN  IF l + 1 <= Len(s) /\ Before(s, l + 1, m) THEN l + 1 ELSE m

down[x \in (Nat \ {0}) \X Seq(Task)] ==
    LET i == x[1]
        s == x[2]
        m == EarliestOf(s, i)
    IN  IF m = i THEN s ELSE down[<<m, Swap(s, i, m)>>]

(***************************************************************************)
(* pop returns the first task; it puts the last one at the root, shortens  *)
(* the slice and sifts down.  popped is the slice that is left.            *)
(***************************************************************************)
Shortened(s) == SubSeq([s EXCEPT ![1] = s[Len(s)]], 1, Len(s) - 1)

popped(s) == down[<<1, Shortened(s)>>]
=============================================================================
