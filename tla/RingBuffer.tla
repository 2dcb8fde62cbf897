----------------------------- MODULE RingBuffer -----------------------------
(***************************************************************************)
(* ringbuffer.go: the circular buffer behind snd_queue, snd_buf and        *)
(* rcv_queue.  Indices start at 0, as in the code.  One slot of the        *)
(* backing slice stays free, so that head = tail means empty.              *)
(***************************************************************************)
EXTENDS Integers, Sequences

CONSTANTS Values,    \* what may be stored
          Zero,      \* the zero value of the element type
          RingMin,   \* RINGBUFFER_MIN
          RingExp,   \* RINGBUFFER_EXP, the length from which growth slows
          Size,      \* the size asked of NewRingBuffer
          MaxLength  \* bound on the number of elements

ASSUME ValuesAssumption == Zero \notin Values
ASSUME SizesAssumption == /\ RingMin \in Nat /\ RingMin > 1 /\ RingExp \in Nat
                          /\ Size \in Nat /\ MaxLength \in Nat

VARIABLES head,      \* index of the next element to be popped
          tail,      \* index of the next empty slot
          size,      \* len(elements)
          elements,  \* the backing slice
          out        \* what the last Pop returned

vars == <<head, tail, size, elements, out>>

Slots == 0..(size - 1)

(***************************************************************************)
(* NewRingBuffer.                                                          *)
(***************************************************************************)
Init == /\ head = 0 /\ tail = 0
        /\ size = IF Size <= RingMin THEN RingMin ELSE Size
        /\ elements = [i \in Slots |-> Zero]
        /\ out = Zero

RingLen == IF head <= tail THEN tail - head ELSE size - head + tail

IsFull == (tail + 1) % size = head

(***************************************************************************)
(* The length grow gives the backing slice: at least RingMin, doubled      *)
(* below RingExp, ten percent more from there on.                          *)
(***************************************************************************)
GrownSize == IF size < RingMin THEN RingMin
             ELSE IF size < RingExp THEN size * 2
             ELSE size + (size + 9) \div 10

(***************************************************************************)
(* The backing slice after grow: the elements come first, in order.        *)
(***************************************************************************)
\* variant: the slice is copied as it is
Grown_NoUnwrap ==
    [i \in 0..(GrownSize - 1) |-> IF i \in Slots THEN elements[i] ELSE Zero]

Grown ==
    LET n == size - head
        value(i) == IF head < tail
                    THEN IF i < tail - head THEN elements[head + i] ELSE Zero
                    ELSE IF i < n THEN elements[head + i]
                         ELSE IF i - n < tail THEN elements[i - n] ELSE Zero
    IN  [i \in 0..(GrownSize - 1) |-> value(i)]

NextIndex(i, n) == (i + 1) % n

Push(v) ==
    /\ RingLen < MaxLength
    /\ IF IsFull
       THEN /\ size' = GrownSize
            /\ head' = 0
            /\ tail' = NextIndex(RingLen, size')
            /\ elements' = [Grown EXCEPT ![RingLen] = v]
       ELSE /\ elements' = [elements EXCEPT ![tail] = v]
            /\ tail' = NextIndex(tail, size)
            /\ UNCHANGED <<head, size>>
    /\ UNCHANGED out

Pop ==
    IF RingLen = 0
    THEN out' = Zero /\ UNCHANGED <<head, tail, size, elements>>
    ELSE /\ out' = elements[head]
         /\ elements' = [elements EXCEPT ![head] = Zero]
         /\ head' = NextIndex(head, size)
         /\ UNCHANGED <<tail, size>>

(***************************************************************************)
(* The slots from index i up to, not including, index j are cleared.       *)
(***************************************************************************)
Cleared(i, j) == [x \in Slots |-> IF i <= x /\ x < j THEN Zero ELSE elements[x]]

Clear ==
    /\ elements' = IF head <= tail THEN Cleared(head, tail)
                   ELSE [x \in Slots |-> IF x >= head \/ x < tail
                                         THEN Zero ELSE elements[x]]
    /\ head' = 0 /\ tail' = 0
    /\ UNCHANGED <<size, out>>

(***************************************************************************)
(* The part of Discard that drops some of the elements, not all: the       *)
(* dropped range may wrap around the end of the slice.                     *)
(***************************************************************************)
DiscardedSlots(n) ==
    LET end == head + n
    IN  IF end < size THEN Cleared(head, end)
        ELSE [x \in Slots |-> IF x >= head \/ x < end - size
                              THEN Zero ELSE elements[x]]

Discard(n) ==
    IF n >= RingLen THEN Clear
    ELSE /\ elements' = DiscardedSlots(n)
         /\ head' = IF head + n < size THEN head + n ELSE head + n - size
         /\ UNCHANGED <<tail, size, out>>

Next == \/ \E v \in Values : Push(v)
        \/ Pop
        \/ \E n \in 1..MaxLength : Discard(n)
        \/ Clear

Spec == Init /\ [][Next]_vars

-----------------------------------------------------------------------------
(***************************************************************************)
(* Ways to read the ring.                                                  *)
(***************************************************************************)
RingAt(i) == elements[IF head + i >= size THEN head + i - size ELSE head + i]

(***************************************************************************)
(* The elements in the order ForEach and ForEachReverse visit them.        *)
(***************************************************************************)
Slice(i, j) == [x \in 1..(j - i) |-> elements[i + x - 1]]

ForEach == IF RingLen = 0 THEN <<>>
           ELSE IF head < tail THEN Slice(head, tail)
           ELSE Slice(head, size) \o Slice(0, tail)

Backwards(i, j) == [x \in 1..(j - i) |-> elements[j - x]]

\* variant: the two halves are visited in the order of ForEach
ForEachReverse_Halves ==
    IF RingLen = 0 THEN <<>>
    ELSE IF head < tail THEN Backwards(head, tail)
    ELSE Backwards(head, size) \o Backwards(0, tail)

ForEachReverse == IF RingLen = 0 THEN <<>>
                  ELSE IF head < tail THEN Backwards(head, tail)
                  ELSE Backwards(0, tail) \o Backwards(head, size)

-----------------------------------------------------------------------------
(***************************************************************************)
(* Properties.                                                             *)
(***************************************************************************)
TypeOK == /\ size \in Nat /\ size >= RingMin
          /\ head \in Slots /\ tail \in Slots
          /\ elements \in [Slots -> Values \cup {Zero}]
          /\ out \in Values \cup {Zero}

(***************************************************************************)
(* What the ring holds, by index (At).                                     *)
(***************************************************************************)
Contents == [i \in 1..RingLen |-> RingAt(i - 1)]

(***************************************************************************)
(* At, ForEach and ForEachReverse agree on what the ring holds and in      *)
(* which order, wherever the elements lie in the slice and however it has  *)
(* grown: flush walks snd_buf with At, parse_ack and parse_una with        *)
(* ForEach.                                                                *)
(***************************************************************************)
IterationsAgree ==
    /\ ForEach = Contents
    /\ Len(ForEachReverse) = RingLen
    /\ \A i \in 1..RingLen : ForEachReverse[i] = Contents[RingLen + 1 - i]

(***************************************************************************)
(* A RingBuffer is a FIFO queue.                                           *)
(***************************************************************************)
Queue == INSTANCE Fifo WITH q <- Contents

FifoSpec == Queue!Spec
=============================================================================
