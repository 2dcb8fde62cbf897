---------------------------- MODULE MCContainers ----------------------------
(***************************************************************************)
(* The two containers of the program on small instances: the ring buffer   *)
(* by its operations, and the heap of timedsched.go on what the ring       *)
(* holds, taken for deadlines, so that TLC meets every heap of up to       *)
(* MaxLength tasks.                                                        *)
(***************************************************************************)
EXTENDS RingBuffer, SequencesExt

ASSUME DeadlinesAssumption == Values \subseteq Int

HeapTask == [id : 1..(MaxLength + 1), ts : Values]

Heap == INSTANCE TimedFuncHeap WITH Task <- HeapTask

(***************************************************************************)
(* No task is due before its parent, and none is there twice.              *)
(***************************************************************************)
IsHeap(h) == \A i \in 2..Len(h) : h[i \div 2].ts <= h[i].ts

Distinct(h) == \A i, j \in 1..Len(h) : h[i] = h[j] => i = j

Deadlines == [i \in 1..RingLen |-> [id |-> i, ts |-> Contents[i]]]

(***************************************************************************)
(* A push keeps the heap and adds the task.  A pop keeps the heap and      *)
(* takes away its first task, which is one of the earliest.                *)
(***************************************************************************)
PushAdds(h, f) ==
    LET g == Heap!push(h, f)
    IN  IsHeap(g) /\ Distinct(g) /\ ToSet(g) = ToSet(h) \cup {f}

PopTakesFirst(h) ==
    LET g == Heap!popped(h)
    IN  /\ IsHeap(g) /\ Distinct(g) /\ ToSet(g) = ToSet(h) \ {h[1]}
        /\ \A f \in ToSet(g) : h[1].ts <= f.ts

(***************************************************************************)
(* The timer's heap behaves as the set of tasks that TimedSched takes it   *)
(* for, whatever the deadlines and however many of them are equal.         *)
(***************************************************************************)
HeapIsSet ==
    IsHeap(Deadlines) =>
        /\ \A ts \in Values : PushAdds(Deadlines, [id |-> MaxLength + 1, ts |-> ts])
        /\ RingLen > 0 => PopTakesFirst(Deadlines)
=============================================================================
