-------------------------- MODULE ContainerProofs --------------------------
(***************************************************************************)
(* Theorems about RingBuffer, for any sizes: growth by doubling or by ten  *)
(* percent, and elements anywhere in the slice, wrapped or not; and about  *)
(* TimedFuncHeap, for heaps of any size.                                   *)
(***************************************************************************)
EXTENDS MCContainers, TLAPS, SequenceTheorems, WellFoundedInduction

Slot == Values \cup {Zero}

(***************************************************************************)
(* The slot of the i-th element, counted from 0.                           *)
(***************************************************************************)
Index(i) == IF head + i >= size THEN head + i - size ELSE head + i

LEMMA Stepping ==
    ASSUME NEW n \in Nat, n > 1, NEW i \in 0..(n - 1)
    PROVE  NextIndex(i, n) = IF i + 1 = n THEN 0 ELSE i + 1
  BY DEF NextIndex

(***************************************************************************)
(* What the type of the variables means for the elements: they are at      *)
(* different slots, from head up to tail around the end of the slice.      *)
(***************************************************************************)
Geometry ==
    /\ size \in Nat /\ size > 1 /\ head \in 0..(size - 1) /\ tail \in 0..(size - 1)
    /\ RingLen \in 0..(size - 1)
    /\ Index(RingLen) = tail
    /\ \A i \in 0..(size - 1) : Index(i) \in 0..(size - 1)
    /\ \A i, j \in 0..(size - 1) : Index(i) = Index(j) => i = j
    /\ Contents \in Seq(Slot) /\ Len(Contents) = RingLen
    /\ \A i \in 1..RingLen : Contents[i] = elements[Index(i - 1)]

LEMMA TypedGeometry == TypeOK => Geometry
  <1> SUFFICES ASSUME TypeOK PROVE Geometry
    OBVIOUS
  <1>1. size \in Nat /\ size > 1 /\ head \in 0..(size - 1) /\ tail \in 0..(size - 1)
    BY SizesAssumption DEF TypeOK, Slots
  <1>2. RingLen \in 0..(size - 1) /\ Index(RingLen) = tail
    BY <1>1 DEF RingLen, Index
  <1>3. \A i \in 0..(size - 1) : Index(i) \in 0..(size - 1) /\ RingAt(i) = elements[Index(i)]
    BY <1>1 DEF Index, RingAt
  <1>4. \A i, j \in 0..(size - 1) : Index(i) = Index(j) => i = j
    BY <1>1 DEF Index
  <1>5. \A i \in 1..RingLen : i - 1 \in 0..(size - 1)
    BY <1>1, <1>2
  <1>6. \A i \in 1..RingLen : RingAt(i - 1) \in Slot /\ RingAt(i - 1) = elements[Index(i - 1)]
    BY <1>3, <1>5 DEF TypeOK, Slots, Slot
  <1>7. RingLen \in Nat
    BY <1>1, <1>2
  <1>8. /\ Contents \in Seq(Slot) /\ Len(Contents) = RingLen
        /\ \A i \in 1..RingLen : Contents[i] = elements[Index(i - 1)]
    BY <1>6, <1>7 DEF Contents
  <1> QED
    BY <1>1, <1>2, <1>3, <1>4, <1>8 DEF Geometry

LEMMA NextGeometry == TypeOK' => Geometry'
  BY TypedGeometry, PTL

-----------------------------------------------------------------------------
(***************************************************************************)
(* Push.                                                                   *)
(***************************************************************************)
LEMMA PushInPlace ==
    ASSUME TypeOK, NEW v \in Values, Push(v), ~IsFull
    PROVE  TypeOK' /\ Contents' = Append(Contents, v)
  <1> DEFINE n == RingLen
  <1>1. /\ elements' = [elements EXCEPT ![tail] = v] /\ tail' = NextIndex(tail, size)
        /\ UNCHANGED <<head, size, out>>
    BY DEF Push
  <1>2. Geometry
    BY TypedGeometry
  <1>3. /\ size \in Nat /\ size > 1 /\ head \in 0..(size - 1) /\ tail \in 0..(size - 1)
        /\ n \in 0..(size - 1) /\ Index(n) = tail
    BY <1>2 DEF Geometry
  <1>4. tail' = (IF tail + 1 = size THEN 0 ELSE tail + 1) /\ tail' # head
    <2>1. tail' # head
      BY <1>1 DEF IsFull, NextIndex
    <2> QED
      BY <1>1, <1>3, <2>1, Stepping
  <1>5. tail' \in 0..(size - 1) /\ RingLen' = n + 1
    BY <1>1, <1>3, <1>4 DEF RingLen
  <1>6. TypeOK'
    <2>1. elements' \in [Slots' -> Values \cup {Zero}]
      BY <1>1 DEF TypeOK, Slots
    <2> QED
      BY <1>1, <1>5, <2>1 DEF TypeOK, Slots
  <1>7. Geometry'
    BY <1>6, NextGeometry
  <1>8. \A i \in 0..(size - 1) : Index(i)' = Index(i)
    BY <1>1 DEF Index
  <1>9. \A i \in 0..(n - 1) : elements'[Index(i)] = elements[Index(i)]
    <2> SUFFICES ASSUME NEW i \in 0..(n - 1) PROVE elements'[Index(i)] = elements[Index(i)]
      OBVIOUS
    <2>1. i \in 0..(size - 1) /\ i # n
      BY <1>3
    <2>2. Index(i) # tail /\ Index(i) \in 0..(size - 1)
      BY <1>2, <1>3, <2>1 DEF Geometry
    <2> QED
      BY <1>1, <2>2 DEF TypeOK, Slots
  <1>10. elements'[tail] = v
    BY <1>1, <1>3 DEF TypeOK, Slots
  <1>11. /\ Contents \in Seq(Slot) /\ Len(Contents) = n /\ v \in Slot
         /\ \A i \in 1..n : Contents[i] = elements[Index(i - 1)]
         /\ Contents' \in Seq(Slot) /\ Len(Contents') = n + 1
         /\ \A i \in 1..(n + 1) : Contents'[i] = elements'[Index(i - 1)']
    BY <1>2, <1>5, <1>7 DEF Geometry, Slot
  <1> HIDE DEF n
  <1>12. ASSUME NEW i \in 1..(n + 1) PROVE Contents'[i] = Append(Contents, v)[i]
    <2>1. CASE i \in 1..n
      <3>1. i - 1 \in 0..(n - 1) /\ i - 1 \in 0..(size - 1)
        BY <1>3, <2>1
      <3>2. Contents'[i] = Contents[i]
        BY <1>8, <1>9, <1>11, <2>1, <3>1
      <3>3. Append(Contents, v)[i] = Contents[i]
        BY <1>11, <2>1
      <3> QED
        BY <3>2, <3>3
    <2>2. CASE i = n + 1
      <3>1. i - 1 = n
        BY <1>3, <2>2
      <3>2. Contents'[i] = v
        BY <1>3, <1>8, <1>10, <1>11, <3>1
      <3>3. Append(Contents, v)[i] = v
        BY <1>11, <2>2
      <3> QED
        BY <3>2, <3>3
    <2>3. n \in Nat
      BY <1>3
    <2>4. i \in 1..n \/ i = n + 1
      BY <1>12, <2>3
    <2> QED
      BY <2>1, <2>2, <2>4
  <1>13. Append(Contents, v) \in Seq(Slot) /\ Len(Append(Contents, v)) = n + 1
    BY <1>11
  <1>14. Contents' = Append(Contents, v)
    BY <1>11, <1>12, <1>13, SeqEqual
  <1> QED
    BY <1>6, <1>14

LEMMA Growth ==
    ASSUME TypeOK, IsFull
    PROVE  /\ RingLen = size - 1 /\ GrownSize \in Nat /\ GrownSize > size
           /\ Grown \in [0..(GrownSize - 1) -> Slot]
           /\ \A i \in 0..(RingLen - 1) : Grown[i] = elements[Index(i)]
  <1>1. Geometry
    BY TypedGeometry
  <1>2. size \in Nat /\ size > 1 /\ head \in 0..(size - 1) /\ tail \in 0..(size - 1)
    BY <1>1 DEF Geometry
  <1>3. head = IF tail + 1 = size THEN 0 ELSE tail + 1
    BY <1>2, Stepping DEF IsFull, NextIndex
  <1>4. RingLen = size - 1
    BY <1>2, <1>3 DEF RingLen
  <1>5. GrownSize \in Nat /\ GrownSize > size
    <2>1. size >= RingMin /\ RingMin \in Nat /\ RingExp \in Nat
      BY SizesAssumption DEF TypeOK
    <2>2. size * 2 \in Nat /\ size * 2 > size
      BY <1>2
    <2>3. (size + 9) \div 10 \in Nat /\ (size + 9) \div 10 >= 1
      BY <1>2
    <2> QED
      BY <1>2, <2>1, <2>2, <2>3 DEF GrownSize
  <1>6. elements \in [0..(size - 1) -> Slot] /\ Zero \in Slot
    BY DEF TypeOK, Slots, Slot
  <1> DEFINE n == size - head
             value(i) == IF head < tail
                         THEN IF i < tail - head THEN elements[head + i] ELSE Zero
                         ELSE IF i < n THEN elements[head + i]
                              ELSE IF i - n < tail THEN elements[i - n] ELSE Zero
  <1>7. Grown = [i \in 0..(GrownSize - 1) |-> value(i)]
    BY DEF Grown
  <1>8. ASSUME NEW i \in 0..(GrownSize - 1) PROVE value(i) \in Slot
    <2>1. /\ head < tail /\ i < tail - head => head + i \in 0..(size - 1)
          /\ i < n => head + i \in 0..(size - 1)
          /\ ~(i < n) /\ i - n < tail => i - n \in 0..(size - 1)
      BY <1>2, <1>5, <1>8
    <2> QED
      BY <1>6, <2>1
  <1>9. ASSUME NEW i \in 0..(RingLen - 1) PROVE value(i) = elements[Index(i)]
    <2>1. CASE head < tail
      <3>1. i < tail - head /\ Index(i) = head + i
        BY <1>2, <1>3, <1>4, <1>9, <2>1 DEF Index
      <3> QED
        BY <2>1, <3>1
    <2>2. CASE ~(head < tail)
      <3>1. CASE i < n
        <4>1. Index(i) = head + i
          BY <1>2, <1>4, <1>9, <3>1 DEF Index
        <4> QED
          BY <2>2, <3>1, <4>1
      <3>2. CASE ~(i < n)
        <4>1. Index(i) = i - n /\ i - n < tail
          BY <1>2, <1>3, <1>4, <1>9, <2>2, <3>2 DEF Index
        <4> QED
          BY <2>2, <3>2, <4>1
      <3> QED
        BY <3>1, <3>2
    <2> QED
      BY <2>1, <2>2
  <1> HIDE DEF value
  <1>10. Grown \in [0..(GrownSize - 1) -> Slot]
    BY <1>7, <1>8
  <1>11. \A i \in 0..(RingLen - 1) : i \in 0..(GrownSize - 1)
    BY <1>2, <1>4, <1>5
  <1>12. \A i \in 0..(RingLen - 1) : Grown[i] = elements[Index(i)]
    BY <1>7, <1>9, <1>11
  <1> QED
    BY <1>4, <1>5, <1>10, <1>12

LEMMA PushGrows ==
    ASSUME TypeOK, NEW v \in Values, Push(v), IsFull
    PROVE  TypeOK' /\ Contents' = Append(Contents, v)
  <1> DEFINE n == RingLen
  <1>1. /\ size' = GrownSize /\ head' = 0 /\ tail' = NextIndex(n, size')
        /\ elements' = [Grown EXCEPT ![n] = v] /\ UNCHANGED out
    BY DEF Push
  <1>2. Geometry
    BY TypedGeometry
  <1>3. /\ n = size - 1 /\ GrownSize \in Nat /\ GrownSize > size /\ size \in Nat /\ size > 1
        /\ Grown \in [0..(GrownSize - 1) -> Slot]
        /\ \A i \in 0..(n - 1) : Grown[i] = elements[Index(i)]
    BY <1>2, Growth DEF Geometry
  <1>4. n \in 0..(GrownSize - 1) /\ n + 1 < GrownSize /\ size' > 1 /\ size' \in Nat
    BY <1>1, <1>3
  <1> HIDE DEF n
  <1>5. tail' = n + 1
    BY <1>1, <1>4, Stepping
  <1>6. elements' \in [0..(size' - 1) -> Slot] /\ v \in Slot
    BY <1>1, <1>3, <1>4 DEF Slot
  <1>7. TypeOK'
    <2>1. size' >= RingMin /\ size' \in Nat
      BY <1>1, <1>3, SizesAssumption DEF TypeOK
    <2>2. head' \in 0..(size' - 1) /\ tail' \in 0..(size' - 1)
      BY <1>1, <1>4, <1>5
    <2> QED
      BY <1>1, <1>6, <2>1, <2>2 DEF TypeOK, Slots, Slot
  <1>8. Geometry'
    BY <1>7, NextGeometry
  <1>9. RingLen' = n + 1
    BY <1>1, <1>4, <1>5 DEF RingLen
  <1>10. \A i \in 0..n : Index(i)' = i
    BY <1>1, <1>4 DEF Index
  <1>11. /\ Contents \in Seq(Slot) /\ Len(Contents) = n
         /\ \A i \in 1..n : Contents[i] = elements[Index(i - 1)]
         /\ Contents' \in Seq(Slot) /\ Len(Contents') = n + 1
         /\ \A i \in 1..(n + 1) : Contents'[i] = elements'[Index(i - 1)']
    BY <1>2, <1>8, <1>9 DEF Geometry, n
  <1>12. ASSUME NEW i \in 1..(n + 1) PROVE Contents'[i] = Append(Contents, v)[i]
    <2>1. Contents'[i] = elements'[i - 1] /\ i - 1 \in 0..n
      <3>1. i - 1 \in 0..n
        BY <1>4, <1>12
      <3> QED
        BY <1>10, <1>11, <3>1
    <2>2. CASE i \in 1..n
      <3>1. i - 1 \in 0..(n - 1) /\ i - 1 # n /\ i - 1 \in 0..(GrownSize - 1)
        BY <1>3, <1>4, <2>2
      <3>2. Contents'[i] = Contents[i]
        BY <1>1, <1>3, <1>11, <2>1, <2>2, <3>1
      <3>3. Append(Contents, v)[i] = Contents[i]
        BY <1>11, <2>2
      <3> QED
        BY <3>2, <3>3
    <2>3. CASE i = n + 1
      <3>1. i - 1 = n
        BY <1>4, <2>3
      <3>2. Contents'[i] = v
        BY <1>1, <1>3, <1>4, <2>1, <3>1
      <3>3. Append(Contents, v)[i] = v
        BY <1>11, <2>3
      <3> QED
        BY <3>2, <3>3
    <2>4. n \in Nat
      BY <1>3
    <2>5. i \in 1..n \/ i = n + 1
      BY <1>12, <2>4
    <2> QED
      BY <2>2, <2>3, <2>5
  <1>13. Append(Contents, v) \in Seq(Slot) /\ Len(Append(Contents, v)) = n + 1
    BY <1>6, <1>11
  <1>14. Contents' = Append(Contents, v)
    BY <1>11, <1>12, <1>13, SeqEqual
  <1> QED
    BY <1>7, <1>14

-----------------------------------------------------------------------------
(***************************************************************************)
(* Pop, Discard and Clear: the head moves on by k slots and the rest of    *)
(* the elements stay where they are.                                       *)
(***************************************************************************)
LEMMA HeadMoves ==
    ASSUME TypeOK, TypeOK', NEW k \in 0..RingLen, UNCHANGED <<tail, size>>,
           head' = IF head + k < size THEN head + k ELSE head + k - size,
           \A i \in k..(RingLen - 1) : elements'[Index(i)] = elements[Index(i)]
    PROVE  /\ RingLen' = RingLen - k
           /\ Contents' = SubSeq(Contents, k + 1, RingLen)
  <1> DEFINE n == RingLen
  <1>1. Geometry /\ Geometry'
    BY TypedGeometry, NextGeometry
  <1>2. /\ size \in Nat /\ size > 1 /\ head \in 0..(size - 1) /\ tail \in 0..(size - 1)
        /\ n \in 0..(size - 1) /\ Index(n) = tail
    BY <1>1 DEF Geometry
  <1>3. RingLen' = n - k
    BY <1>2 DEF RingLen
  <1>4. \A i \in 0..(n - k - 1) : Index(i)' = Index(k + i)
    BY <1>2 DEF Index
  <1>5. /\ Contents \in Seq(Slot) /\ Len(Contents) = n
        /\ \A i \in 1..n : Contents[i] = elements[Index(i - 1)]
        /\ Contents' \in Seq(Slot) /\ Len(Contents') = n - k
        /\ \A i \in 1..(n - k) : Contents'[i] = elements'[Index(i - 1)']
    BY <1>1, <1>3 DEF Geometry
  <1>6. /\ SubSeq(Contents, k + 1, n) \in Seq(Slot)
        /\ Len(SubSeq(Contents, k + 1, n)) = n - k
        /\ \A i \in 1..(n - k) : SubSeq(Contents, k + 1, n)[i] = Contents[k + i]
    <2>1. n \in Nat /\ k \in 0..n
      BY <1>2
    <2> HIDE DEF n
    <2>2. \A i \in (k + 1)..n : Contents[i] \in Slot
      BY <1>5, <2>1
    <2>3. k + 1 \in Int /\ n \in Int
      BY <2>1
    <2>4. /\ SubSeq(Contents, k + 1, n) \in Seq(Slot)
          /\ Len(SubSeq(Contents, k + 1, n)) = IF k + 1 <= n THEN n - (k + 1) + 1 ELSE 0
          /\ \A i \in 1..(n - (k + 1) + 1) :
               SubSeq(Contents, k + 1, n)[i] = Contents[(k + 1) + i - 1]
      BY <2>2, <2>3, SubSeqProperties
    <2>5. \A i \in 1..(n - k) : i \in 1..(n - (k + 1) + 1) /\ (k + 1) + i - 1 = k + i
      BY <2>1
    <2>6. (IF k + 1 <= n THEN n - (k + 1) + 1 ELSE 0) = n - k
      BY <2>1
    <2> QED
      BY <2>4, <2>5, <2>6
  <1>7. ASSUME NEW i \in 1..(n - k)
        PROVE  Contents'[i] = SubSeq(Contents, k + 1, n)[i]
    <2>1. /\ i - 1 \in 0..(n - k - 1) /\ k + (i - 1) \in k..(n - 1) /\ k + i \in 1..n
          /\ k + (i - 1) = (k + i) - 1
      BY <1>2, <1>7
    <2>2. Contents'[i] = elements'[Index(k + (i - 1))]
      BY <1>4, <1>5, <2>1
    <2>3. Contents[k + i] = elements[Index(k + (i - 1))]
      BY <1>5, <2>1
    <2> QED
      BY <1>6, <2>1, <2>2, <2>3
  <1>8. Contents' = SubSeq(Contents, k + 1, n)
    BY <1>5, <1>6, <1>7, SeqEqual
  <1> QED
    BY <1>3, <1>8

LEMMA PopTakes ==
    ASSUME TypeOK, Pop, RingLen # 0
    PROVE  /\ TypeOK' /\ Contents # <<>>
           /\ out' = Head(Contents) /\ Contents' = Tail(Contents)
  <1>1. /\ out' = elements[head] /\ elements' = [elements EXCEPT ![head] = Zero]
        /\ head' = NextIndex(head, size) /\ UNCHANGED <<tail, size>>
    BY DEF Pop
  <1>2. Geometry
    BY TypedGeometry
  <1>3. /\ size \in Nat /\ size > 1 /\ head \in 0..(size - 1) /\ RingLen \in 1..(size - 1)
    BY <1>2 DEF Geometry
  <1>4. head' = (IF head + 1 = size THEN 0 ELSE head + 1) /\ head' \in 0..(size - 1)
    BY <1>1, <1>3, Stepping
  <1>5. TypeOK'
    <2>1. elements' \in [0..(size - 1) -> Values \cup {Zero}] /\ out' \in Values \cup {Zero}
      BY <1>1, <1>3 DEF TypeOK, Slots
    <2> QED
      BY <1>1, <1>4, <2>1 DEF TypeOK, Slots
  <1>6. Index(0) = head
    BY <1>3 DEF Index
  <1>7. \A i \in 1..(RingLen - 1) : elements'[Index(i)] = elements[Index(i)]
    <2> SUFFICES ASSUME NEW i \in 1..(RingLen - 1) PROVE elements'[Index(i)] = elements[Index(i)]
      OBVIOUS
    <2>1. i \in 0..(size - 1) /\ 0 \in 0..(size - 1) /\ i # 0
      BY <1>3
    <2>2. Index(i) \in 0..(size - 1) /\ Index(i) # head
      BY <1>2, <1>6, <2>1 DEF Geometry
    <2> QED
      BY <1>1, <2>2 DEF TypeOK, Slots
  <1>8. Contents' = SubSeq(Contents, 2, RingLen)
    <2>1. 1 \in 0..RingLen /\ head' = IF head + 1 < size THEN head + 1 ELSE head + 1 - size
      BY <1>3, <1>4
    <2>2. Contents' = SubSeq(Contents, 1 + 1, RingLen)
      BY <1>1, <1>5, <1>7, <2>1, HeadMoves
    <2> QED
      BY <2>2
  <1>9. /\ Contents \in Seq(Slot) /\ Len(Contents) = RingLen
        /\ \A i \in 1..RingLen : Contents[i] = elements[Index(i - 1)]
    BY <1>2 DEF Geometry
  <1>10. Contents # <<>> /\ Head(Contents) = Contents[1]
    BY <1>3, <1>9
  <1>11. Contents[1] = elements[head]
    BY <1>3, <1>6, <1>9
  <1>12. Tail(Contents) = SubSeq(Contents, 2, RingLen)
    BY <1>9, <1>10, TailIsSubSeq
  <1> QED
    BY <1>1, <1>5, <1>8, <1>10, <1>11, <1>12

LEMMA ClearDrops ==
    ASSUME TypeOK, Clear
    PROVE  TypeOK' /\ Contents' = <<>> /\ UNCHANGED out
  <1>1. head' = 0 /\ tail' = 0 /\ UNCHANGED <<size, out>>
    BY DEF Clear
  <1>2. size \in Nat /\ size > 1
    BY TypedGeometry DEF Geometry
  <1>3. elements' \in [0..(size - 1) -> Values \cup {Zero}]
    BY DEF Clear, Cleared, TypeOK, Slots
  <1>4. TypeOK'
    BY <1>1, <1>2, <1>3 DEF TypeOK, Slots
  <1>5. Contents' \in Seq(Slot) /\ Len(Contents') = 0
    <2>1. RingLen' = 0
      BY <1>1 DEF RingLen
    <2> QED
      BY <1>4, <2>1, NextGeometry DEF Geometry
  <1> QED
    BY <1>1, <1>4, <1>5, EmptySeq

LEMMA DiscardDrops ==
    ASSUME TypeOK, NEW k \in 1..MaxLength, Discard(k), k < RingLen
    PROVE  TypeOK' /\ Contents' = SubSeq(Contents, k + 1, RingLen) /\ UNCHANGED out
  <1>1. Geometry
    BY TypedGeometry
  <1>2. /\ size \in Nat /\ size > 1 /\ head \in 0..(size - 1) /\ tail \in 0..(size - 1)
        /\ RingLen \in 0..(size - 1) /\ k \in 1..(RingLen - 1) /\ k \in Nat
    BY <1>1, SizesAssumption DEF Geometry
  <1>3. /\ elements' = DiscardedSlots(k) /\ UNCHANGED <<tail, size, out>>
        /\ head' = IF head + k < size THEN head + k ELSE head + k - size
    BY <1>2 DEF Discard
  <1>4. elements' \in [0..(size - 1) -> Values \cup {Zero}]
    BY <1>3 DEF DiscardedSlots, Cleared, TypeOK, Slots
  <1>5. TypeOK'
    <2>1. head' \in 0..(size - 1)
      BY <1>2, <1>3
    <2> QED
      BY <1>3, <1>4, <2>1 DEF TypeOK, Slots
  <1>6. ASSUME NEW i \in k..(RingLen - 1) PROVE elements'[Index(i)] = elements[Index(i)]
    <2>1. Index(i) \in 0..(size - 1)
      BY <1>2, <1>6 DEF Index
    <2>2. CASE head + k < size
      <3>1. ~(head <= Index(i) /\ Index(i) < head + k)
        BY <1>2, <1>6, <2>2 DEF Index
      <3>2. elements' = Cleared(head, head + k)
        BY <1>3, <2>2 DEF DiscardedSlots
      <3> QED
        BY <2>1, <3>1, <3>2 DEF Cleared, Slots
    <2>3. CASE ~(head + k < size)
      <3>1. ~(Index(i) >= head) /\ ~(Index(i) < head + k - size)
        BY <1>2, <1>6, <2>3 DEF Index
      <3> QED
        BY <1>2, <1>3, <2>1, <2>3, <3>1 DEF DiscardedSlots, Slots
    <2> QED
      BY <2>2, <2>3
  <1>7. k \in 0..RingLen
    BY <1>2
  <1>8. Contents' = SubSeq(Contents, k + 1, RingLen)
    BY <1>3, <1>5, <1>6, <1>7, HeadMoves
  <1> QED
    BY <1>3, <1>5, <1>8

-----------------------------------------------------------------------------
LEMMA InitTyped == Init => TypeOK /\ Contents = <<>>
  <1> SUFFICES ASSUME Init PROVE TypeOK /\ Contents = <<>>
    OBVIOUS
  <1>1. size \in Nat /\ size >= RingMin /\ size > 1
    BY SizesAssumption DEF Init
  <1>2. TypeOK
    BY <1>1 DEF Init, TypeOK, Slots
  <1>3. RingLen = 0
    BY DEF Init, RingLen
  <1>4. Contents \in Seq(Slot) /\ Len(Contents) = 0
    BY <1>2, <1>3, TypedGeometry DEF Geometry
  <1> QED
    BY <1>2, <1>4, EmptySeq

(***************************************************************************)
(* Every operation of the ring is one of the queue, or changes nothing.    *)
(***************************************************************************)
LEMMA DropRefines ==
    ASSUME TypeOK, NEW k \in 1..RingLen, Contents' = SubSeq(Contents, k + 1, RingLen), UNCHANGED out
    PROVE  Queue!Drop
  <1>1. Len(Contents) = RingLen
    BY TypedGeometry DEF Geometry
  <1> QED
    BY <1>1 DEF Queue!Drop

LEMMA ClearRefines ==
    ASSUME TypeOK, Clear
    PROVE  TypeOK' /\ [Queue!Next]_(Queue!vars)
  <1>1. TypeOK' /\ Contents' = <<>> /\ UNCHANGED out
    BY ClearDrops
  <1>2. Contents \in Seq(Slot) /\ Len(Contents) = RingLen /\ RingLen \in Nat
    BY TypedGeometry DEF Geometry
  <1>3. CASE RingLen = 0
    <2>1. Contents = <<>>
      BY <1>2, <1>3, EmptySeq
    <2> QED
      BY <1>1, <2>1 DEF Queue!vars
  <1>4. CASE RingLen # 0
    <2>1. RingLen \in 1..RingLen /\ RingLen + 1 \in Int /\ RingLen \in Int /\ RingLen < RingLen + 1
      BY <1>2, <1>4
    <2>2. SubSeq(Contents, RingLen + 1, RingLen) = <<>>
      BY <2>1, SubSeqEmpty
    <2>3. Queue!Drop
      BY <1>1, <2>1, <2>2, DropRefines
    <2> QED
      BY <1>1, <2>3 DEF Queue!Next
  <1> QED
    BY <1>3, <1>4

LEMMA StepRefines == TypeOK /\ [Next]_vars => TypeOK' /\ [Queue!Next]_(Queue!vars)
  <1> SUFFICES ASSUME TypeOK, [Next]_vars
               PROVE  TypeOK' /\ [Queue!Next]_(Queue!vars)
    OBVIOUS
  <1>1. CASE UNCHANGED vars
    BY <1>1 DEF vars, TypeOK, Slots, Queue!vars, Contents, RingLen, RingAt
  <1>2. ASSUME NEW v \in Values, Push(v)
        PROVE  TypeOK' /\ [Queue!Next]_(Queue!vars)
    <2>1. TypeOK' /\ Contents' = Append(Contents, v)
      BY <1>2, PushInPlace, PushGrows
    <2>2. UNCHANGED out
      BY <1>2 DEF Push
    <2>3. Queue!Push(v)
      BY <2>1, <2>2 DEF Queue!Push
    <2> QED
      BY <2>1, <2>3 DEF Queue!Next
  <1>3. CASE Pop
    <2>1. CASE RingLen = 0
      <3>1. out' = Zero /\ UNCHANGED <<head, tail, size, elements>>
        BY <1>3, <2>1 DEF Pop
      <3>2. Contents = <<>>
        <4>1. Contents \in Seq(Slot) /\ Len(Contents) = 0
          BY <2>1, TypedGeometry DEF Geometry
        <4> QED
          BY <4>1, EmptySeq
      <3>3. UNCHANGED Contents
        BY <3>1 DEF Contents, RingLen, RingAt
      <3>4. TypeOK'
        BY <3>1 DEF TypeOK, Slots
      <3>5. Queue!Pop
        BY <3>1, <3>2, <3>3 DEF Queue!Pop
      <3> QED
        BY <3>4, <3>5 DEF Queue!Next
    <2>2. CASE RingLen # 0
      <3>1. TypeOK' /\ Contents # <<>> /\ out' = Head(Contents) /\ Contents' = Tail(Contents)
        BY <1>3, <2>2, PopTakes
      <3>2. Queue!Pop
        BY <3>1 DEF Queue!Pop
      <3> QED
        BY <3>1, <3>2 DEF Queue!Next
    <2> QED
      BY <2>1, <2>2
  <1>4. ASSUME NEW k \in 1..MaxLength, Discard(k)
        PROVE  TypeOK' /\ [Queue!Next]_(Queue!vars)
    <2>1. RingLen \in Nat /\ k \in Nat /\ k >= 1
      BY TypedGeometry, SizesAssumption DEF Geometry
    <2>2. CASE k >= RingLen
      BY <1>4, <2>2, ClearRefines DEF Discard
    <2>3. CASE k < RingLen
      <3>1. TypeOK' /\ Contents' = SubSeq(Contents, k + 1, RingLen) /\ UNCHANGED out
        BY <1>4, <2>3, DiscardDrops
      <3>2. k \in 1..RingLen
        BY <2>1, <2>3
      <3>3. Queue!Drop
        BY <3>1, <3>2, DropRefines
      <3> QED
        BY <3>1, <3>3 DEF Queue!Next
    <2> QED
      BY <2>1, <2>2, <2>3
  <1>5. CASE Clear
    BY <1>5, ClearRefines
  <1> QED
    BY <1>1, <1>2, <1>3, <1>4, <1>5 DEF Next

(***************************************************************************)
(* Indices stay within the slice, and the slice has the size that is kept  *)
(* for it.                                                                 *)
(***************************************************************************)
THEOREM TypeCorrect == Spec => []TypeOK
  BY InitTyped, StepRefines, PTL DEF Spec

(***************************************************************************)
(* A RingBuffer is a FIFO queue: Push, Pop, Discard and Clear do to the    *)
(* elements, wherever they lie and however the slice grows, what they do   *)
(* to a queue.                                                             *)
(***************************************************************************)
THEOREM IsFifo == Spec => FifoSpec
  <1>1. Init => Queue!Init
    BY InitTyped DEF Queue!Init, Init
  <1> QED
    BY <1>1, InitTyped, StepRefines, PTL DEF Spec, FifoSpec, Queue!Spec

-----------------------------------------------------------------------------
(***************************************************************************)
(* The ways to read the ring.                                              *)
(***************************************************************************)
LEMMA Halves ==
    ASSUME TypeOK, NEW i \in 0..size, NEW j \in i..size
    PROVE  /\ j - i \in Nat
           /\ Slice(i, j) \in Seq(Slot) /\ Len(Slice(i, j)) = j - i
           /\ \A x \in 1..(j - i) : Slice(i, j)[x] = elements[i + x - 1]
           /\ Backwards(i, j) \in Seq(Slot) /\ Len(Backwards(i, j)) = j - i
           /\ \A x \in 1..(j - i) : Backwards(i, j)[x] = elements[j - x]
  <1>1. size \in Nat /\ elements \in [0..(size - 1) -> Slot]
    BY DEF TypeOK, Slots, Slot
  <1>2. j - i \in Nat /\ \A x \in 1..(j - i) : i + x - 1 \in 0..(size - 1) /\ j - x \in 0..(size - 1)
    BY <1>1
  <1>3. \A x \in 1..(j - i) : elements[i + x - 1] \in Slot /\ elements[j - x] \in Slot
    BY <1>1, <1>2
  <1>4. /\ Slice(i, j) \in Seq(Slot) /\ Len(Slice(i, j)) = j - i
        /\ \A x \in 1..(j - i) : Slice(i, j)[x] = elements[i + x - 1]
    BY <1>2, <1>3 DEF Slice
  <1>5. /\ Backwards(i, j) \in Seq(Slot) /\ Len(Backwards(i, j)) = j - i
        /\ \A x \in 1..(j - i) : Backwards(i, j)[x] = elements[j - x]
    BY <1>2, <1>3 DEF Backwards
  <1> QED
    BY <1>2, <1>4, <1>5

LEMMA ReadingsAgree ==
    ASSUME TypeOK
    PROVE  IterationsAgree
  <1> DEFINE n == RingLen
  <1>1. /\ size \in Nat /\ size > 1 /\ head \in 0..(size - 1) /\ tail \in 0..(size - 1)
        /\ n \in 0..(size - 1) /\ Contents \in Seq(Slot) /\ Len(Contents) = n
        /\ \A i \in 1..n : Contents[i] = elements[Index(i - 1)]
    BY TypedGeometry DEF Geometry
  <1>2. CASE n = 0
    <2>1. Contents = <<>>
      BY <1>1, <1>2, EmptySeq
    <2>2. ForEach = <<>> /\ ForEachReverse = <<>>
      BY <1>2 DEF ForEach, ForEachReverse
    <2> QED
      BY <1>2, <2>1, <2>2 DEF IterationsAgree
  <1>3. CASE n # 0 /\ head < tail
    <2>1. n = tail - head /\ \A i \in 1..n : Index(i - 1) = head + i - 1
      BY <1>1, <1>3 DEF RingLen, Index
    <2>2. head \in 0..size /\ tail \in head..size
      BY <1>1, <1>3
    <2>3. ForEach = Slice(head, tail) /\ ForEachReverse = Backwards(head, tail)
      BY <1>3 DEF ForEach, ForEachReverse
    <2>4. /\ ForEach \in Seq(Slot) /\ Len(ForEach) = n
          /\ \A x \in 1..n : ForEach[x] = elements[head + x - 1]
          /\ Len(ForEachReverse) = n
          /\ \A x \in 1..n : ForEachReverse[x] = elements[tail - x]
      BY <2>1, <2>2, <2>3, Halves
    <2>5. ForEach = Contents
      <3>1. \A i \in 1..n : ForEach[i] = Contents[i]
        BY <1>1, <2>1, <2>4
      <3> QED
        BY <1>1, <2>4, <3>1, SeqEqual
    <2>6. ASSUME NEW i \in 1..n PROVE ForEachReverse[i] = Contents[n + 1 - i]
      <3>1. n + 1 - i \in 1..n /\ head + (n + 1 - i) - 1 = tail - i
        BY <1>1, <2>1, <2>6
      <3>2. Contents[n + 1 - i] = elements[head + (n + 1 - i) - 1]
        BY <1>1, <2>1, <3>1
      <3> QED
        BY <2>4, <3>1, <3>2
    <2> QED
      BY <2>4, <2>5, <2>6 DEF IterationsAgree
  <1>4. CASE n # 0 /\ ~(head < tail)
    <2> DEFINE m == size - head
               a == Slice(head, size)
               b == Slice(0, tail)
               c == Backwards(0, tail)
               d == Backwards(head, size)
    <2>1. /\ m \in Nat /\ tail \in Nat /\ n = m + tail
          /\ \A i \in 1..n : Index(i - 1) = IF i <= m THEN head + i - 1 ELSE i - m - 1
      BY <1>1, <1>4 DEF RingLen, Index
    <2>2. ForEach = a \o b /\ ForEachReverse = c \o d
      BY <1>4, Zenon DEF ForEach, ForEachReverse
    <2>3. head \in 0..size /\ size \in head..size /\ 0 \in 0..size /\ tail \in 0..size /\ tail - 0 = tail
      BY <1>1
    <2>4. /\ a \in Seq(Slot) /\ Len(a) = m /\ \A x \in 1..m : a[x] = elements[head + x - 1]
          /\ d \in Seq(Slot) /\ Len(d) = m /\ \A x \in 1..m : d[x] = elements[size - x]
      BY <2>3, Halves
    <2>5. /\ b \in Seq(Slot) /\ Len(b) = tail /\ \A x \in 1..tail : b[x] = elements[0 + x - 1]
          /\ c \in Seq(Slot) /\ Len(c) = tail /\ \A x \in 1..tail : c[x] = elements[tail - x]
      <3>1. 0 \in 0..size /\ tail \in 0..size /\ tail - 0 = tail
        BY <2>3
      <3>2. /\ b \in Seq(Slot) /\ Len(b) = tail - 0
            /\ \A x \in 1..(tail - 0) : b[x] = elements[0 + x - 1]
            /\ c \in Seq(Slot) /\ Len(c) = tail - 0
            /\ \A x \in 1..(tail - 0) : c[x] = elements[tail - x]
        BY <3>1, Halves, Zenon
      <3> HIDE DEF b, c
      <3> QED
        BY <3>1, <3>2
    <2> HIDE DEF a, b, c, d
    <2>6. /\ a \o b \in Seq(Slot) /\ Len(a \o b) = n
          /\ \A x \in 1..n : (a \o b)[x] = IF x <= m THEN a[x] ELSE b[x - m]
      BY <2>1, <2>4, <2>5, ConcatProperties
    <2>7. /\ Len(c \o d) = n
          /\ \A x \in 1..n : (c \o d)[x] = IF x <= tail THEN c[x] ELSE d[x - tail]
      <3>1. n = tail + m
        BY <2>1
      <3> QED
        BY <2>4, <2>5, <3>1, ConcatProperties
    <2> HIDE DEF n, m
    <2>8. ASSUME NEW i \in 1..n PROVE (a \o b)[i] = Contents[i]
      <3>1. CASE i <= m
        <4>1. i \in 1..m /\ Index(i - 1) = head + i - 1
          BY <2>1, <2>8, <3>1
        <4> QED
          BY <1>1, <2>4, <2>6, <2>8, <3>1, <4>1 DEF n
      <3>2. CASE ~(i <= m)
        <4>1. i - m \in 1..tail /\ Index(i - 1) = i - m - 1 /\ 0 + (i - m) - 1 = i - m - 1
          BY <2>1, <2>8, <3>2
        <4>2. (a \o b)[i] = b[i - m]
          BY <2>6, <2>8, <3>2
        <4>3. b[i - m] = elements[i - m - 1]
          BY <2>5, <4>1
        <4>4. Contents[i] = elements[Index(i - 1)]
          BY <1>1, <2>8 DEF n
        <4> QED
          BY <4>1, <4>2, <4>3, <4>4
      <3> QED
        BY <3>1, <3>2
    <2>9. ForEach = Contents
      BY <1>1, <2>2, <2>6, <2>8, SeqEqual DEF n
    <2>10. ASSUME NEW i \in 1..n PROVE (c \o d)[i] = Contents[n + 1 - i]
      <3>0. n + 1 - i \in 1..n /\ Contents[n + 1 - i] = elements[Index((n + 1 - i) - 1)]
        <4>1. n + 1 - i \in 1..n
          BY <2>1, <2>10
        <4> QED
          BY <1>1, <4>1 DEF n
      <3>1. CASE i <= tail
        <4>1. i \in 1..tail /\ Index((n + 1 - i) - 1) = tail - i
          BY <2>1, <2>10, <3>0, <3>1
        <4> QED
          BY <2>5, <2>7, <2>10, <3>0, <3>1, <4>1
      <3>2. CASE ~(i <= tail)
        <4>1. i - tail \in 1..m /\ Index((n + 1 - i) - 1) = size - (i - tail)
          <5>1. i - tail \in 1..m /\ n + 1 - i <= m
            BY <2>1, <2>10, <3>2
          <5>2. Index((n + 1 - i) - 1) = head + (n + 1 - i) - 1
            BY <2>1, <3>0, <5>1
          <5>3. head + (n + 1 - i) - 1 = size - (i - tail)
            BY <1>1, <2>1, <2>10 DEF m
          <5> QED
            BY <5>1, <5>2, <5>3
        <4> QED
          BY <2>4, <2>7, <2>10, <3>0, <3>2, <4>1
      <3> QED
        BY <3>1, <3>2
    <2> QED
      BY <2>2, <2>7, <2>9, <2>10 DEF IterationsAgree, n
  <1> QED
    BY <1>2, <1>3, <1>4

(***************************************************************************)
(* At, ForEach and ForEachReverse agree, also on a ring that wraps around  *)
(* the end of its slice.                                                   *)
(***************************************************************************)
THEOREM ReadsAgree == Spec => []IterationsAgree
  <1>1. TypeOK => IterationsAgree
    BY ReadingsAgree
  <1> QED
    BY <1>1, TypeCorrect, PTL

-----------------------------------------------------------------------------
(***************************************************************************)
(* Loops.  A loop over states S is its step function: a state that is its  *)
(* own successor ends it, and every other step brings the measure down.    *)
(***************************************************************************)
IsLoop(S, step, mu) ==
    /\ step \in [S -> S] /\ mu \in [S -> Nat]
    /\ \A x \in S : step[x] = x \/ mu[step[x]] < mu[x]

Closed(C, S, step) == C \subseteq S /\ \A x \in C : step[x] \in C

LEMMA LeastMeasure ==
    ASSUME NEW S, NEW mu \in [S -> Nat], NEW T \in SUBSET S, T # {}
    PROVE  \E x \in T : \A y \in T : ~(mu[y] < mu[x])
  <1> DEFINE M == {mu[x] : x \in T}
  <1>1. M \subseteq Nat /\ M # {}
    OBVIOUS
  <1>2. PICK m \in M : \A k \in M : ~(<<k, m>> \in OpToRel(<, Nat))
    <2> HIDE DEF M
    <2> QED BY <1>1, NatLessThanWellFounded, WFMin, Zenon
  <1>3. PICK x \in T : m = mu[x]
    OBVIOUS
  <1>4. ASSUME NEW y \in T PROVE ~(mu[y] < mu[x])
    <2>1. mu[y] \in M /\ mu[y] \in Nat /\ mu[x] \in Nat
      OBVIOUS
    <2>2. ~(<<mu[y], m>> \in OpToRel(<, Nat))
      BY <1>2, <2>1
    <2> DEFINE a == mu[y]
               b == mu[x]
    <2> HIDE DEF a, b
    <2>3. a \in Nat /\ b \in Nat /\ ~(<<a, b>> \in OpToRel(<, Nat))
      BY <1>3, <2>1, <2>2 DEF a, b
    <2>4. ~(a < b)
      BY <2>3 DEF OpToRel
    <2> QED BY <2>4 DEF a, b
  <1> QED BY <1>4

(***************************************************************************)
(* Where a loop that begins in x may end: the final states that no closed  *)
(* set with x in it avoids.                                                *)
(***************************************************************************)
Ends(x, S, step) ==
    {y \in S : step[y] = y /\ \A C \in SUBSET S : Closed(C, S, step) /\ x \in C => y \in C}

LEMMA EndsExist ==
    ASSUME NEW S, NEW step, NEW mu, IsLoop(S, step, mu), NEW x \in S
    PROVE  Ends(x, S, step) # {}
  <1> DEFINE T == {z \in S : Ends(z, S, step) = {}}
  <1>1. SUFFICES ASSUME T # {} PROVE FALSE
    OBVIOUS
  <1>2. PICK z \in T : \A y \in T : ~(mu[y] < mu[z])
    <2>1. T \in SUBSET S /\ mu \in [S -> Nat]
      BY DEF IsLoop
    <2> HIDE DEF T
    <2> QED BY <1>1, <2>1, LeastMeasure
  <1>3. z \in S /\ step[z] \in S /\ (step[z] = z \/ mu[step[z]] < mu[z])
    BY DEF IsLoop
  <1>4. CASE step[z] = z
    <2>1. z \in Ends(z, S, step)
      BY <1>3, <1>4 DEF Ends
    <2> QED BY <2>1
  <1>5. CASE mu[step[z]] < mu[z]
    <2>1. step[z] \notin T
      BY <1>2, <1>5
    <2>2. PICK y \in Ends(step[z], S, step) : TRUE
      BY <1>3, <2>1
    <2>3. y \in Ends(z, S, step)
      BY <2>2 DEF Ends, Closed
    <2> QED BY <2>3
  <1> QED BY <1>3, <1>4, <1>5

LEMMA EndsStep ==
    ASSUME NEW S, NEW step, NEW mu, IsLoop(S, step, mu), NEW x \in S
    PROVE  /\ step[x] = x => Ends(x, S, step) = {x}
           /\ step[x] # x => Ends(x, S, step) = Ends(step[x], S, step)
  <1>1. step[x] \in S
    BY DEF IsLoop
  <1>2. ASSUME step[x] = x PROVE Ends(x, S, step) = {x}
    <2>1. x \in Ends(x, S, step)
      BY <1>2 DEF Ends
    <2>2. ASSUME NEW y \in Ends(x, S, step) PROVE y = x
      <3>1. Closed({x}, S, step) /\ x \in {x} /\ {x} \in SUBSET S
        BY <1>2 DEF Closed
      <3>2. y \in {x}
        BY <3>1 DEF Ends
      <3> QED BY <3>2
    <2> QED BY <2>1, <2>2
  <1>3. ASSUME step[x] # x PROVE Ends(x, S, step) = Ends(step[x], S, step)
    <2>1. ASSUME NEW y \in Ends(step[x], S, step) PROVE y \in Ends(x, S, step)
      BY DEF Ends, Closed
    <2>2. ASSUME NEW y \in Ends(x, S, step) PROVE y \in Ends(step[x], S, step)
      <3>1. y \in S /\ step[y] = y /\ y # x
        BY <1>3 DEF Ends
      <3>2. ASSUME NEW C \in SUBSET S, Closed(C, S, step), step[x] \in C PROVE y \in C
        <4>1. Closed(C \cup {x}, S, step) /\ x \in C \cup {x} /\ C \cup {x} \in SUBSET S
          BY <3>2 DEF Closed
        <4>2. y \in C \cup {x}
          BY <4>1 DEF Ends
        <4> QED BY <3>1, <4>2
      <3> QED BY <3>1, <3>2 DEF Ends
    <2> QED BY <2>1, <2>2
  <1> QED BY <1>2, <1>3

(***************************************************************************)
(* There is a function that runs the loop, and what holds before and after *)
(* every step holds at the end.                                            *)
(***************************************************************************)
LEMMA LoopRuns ==
    ASSUME NEW S, NEW step, NEW mu, IsLoop(S, step, mu)
    PROVE  \E f \in [S -> S] : \A x \in S : f[x] = IF step[x] = x THEN x ELSE f[step[x]]
  <1> DEFINE f == [x \in S |-> CHOOSE y \in Ends(x, S, step) : TRUE]
  <1>1. \A x \in S : f[x] \in Ends(x, S, step)
    BY EndsExist
  <1>2. f \in [S -> S]
    BY <1>1 DEF Ends
  <1>3. ASSUME NEW x \in S PROVE f[x] = IF step[x] = x THEN x ELSE f[step[x]]
    <2>1. step[x] \in S
      BY DEF IsLoop
    <2>2. CASE step[x] = x
      <3>1. f[x] \in {x}
        BY <1>1, <2>2, EndsStep
      <3> QED BY <2>2, <3>1
    <2>3. CASE step[x] # x
      <3>1. Ends(x, S, step) = Ends(step[x], S, step)
        BY <2>3, EndsStep
      <3>2. f[x] = CHOOSE y \in Ends(x, S, step) : TRUE
        OBVIOUS
      <3>3. f[step[x]] = CHOOSE y \in Ends(step[x], S, step) : TRUE
        BY <2>1
      <3>4. f[x] = f[step[x]]
        BY <3>1, <3>2, <3>3
      <3> QED BY <2>3, <3>4
    <2> QED BY <2>2, <2>3
  <1> QED BY <1>2, <1>3

(***************************************************************************)
(* g is computed by the loop, which ends in a state of every closed set    *)
(* that the first one is in: what the loop keeps, its end has.             *)
(***************************************************************************)
Runs(g, S, step, result) ==
    \A x \in S : g[x] = IF step[x] = x THEN result[x] ELSE g[step[x]]

LEMMA LoopRule ==
    ASSUME NEW S, NEW step, NEW mu, IsLoop(S, step, mu),
           NEW g, NEW result, Runs(g, S, step, result),
           NEW C, Closed(C, S, step), NEW x \in C
    PROVE  \E y \in C : step[y] = y /\ g[x] = result[y]
  <1> DEFINE T == {z \in C : ~\E y \in C : step[y] = y /\ g[z] = result[y]}
  <1>1. SUFFICES ASSUME T # {} PROVE FALSE
    OBVIOUS
  <1>2. PICK z \in T : \A y \in T : ~(mu[y] < mu[z])
    <2>1. T \in SUBSET S /\ mu \in [S -> Nat]
      BY DEF IsLoop, Closed
    <2> HIDE DEF T
    <2> QED BY <1>1, <2>1, LeastMeasure
  <1>3. z \in S /\ z \in C /\ step[z] \in C /\ (step[z] = z \/ mu[step[z]] < mu[z])
    BY DEF IsLoop, Closed
  <1>4. CASE step[z] = z
    BY <1>2, <1>3, <1>4 DEF Runs
  <1>5. CASE step[z] # z
    <2>1. step[z] \notin T
      BY <1>2, <1>3, <1>5
    <2>2. PICK y \in C : step[y] = y /\ g[step[z]] = result[y]
      BY <1>3, <2>1
    <2>3. g[z] = g[step[z]]
      BY <1>3, <1>5 DEF Runs
    <2> QED BY <1>2, <2>2, <2>3
  <1> QED BY <1>4, <1>5

-----------------------------------------------------------------------------
(***************************************************************************)
(* The heap.  What an exchange of two tasks does.                          *)
(***************************************************************************)
AreExchanged(s, t, i, m) ==
    /\ Len(t) = Len(s)
    /\ \A k \in 1..Len(s) : t[k] = IF k = m THEN s[i] ELSE IF k = i THEN s[m] ELSE s[k]

LEMMA Exchanged ==
    ASSUME NEW s \in Seq(HeapTask), NEW i \in 1..Len(s), NEW m \in 1..Len(s)
    PROVE  /\ Heap!Swap(s, i, m) \in Seq(HeapTask)
           /\ Len(Heap!Swap(s, i, m)) = Len(s)
           /\ AreExchanged(s, Heap!Swap(s, i, m), i, m)
  <1>1. s \in [1..Len(s) -> HeapTask] /\ Len(s) \in Nat
    OBVIOUS
  <1>2. DOMAIN Heap!Swap(s, i, m) = 1..Len(s)
    BY <1>1 DEF Heap!Swap
  <1>3. \A k \in 1..Len(s) :
            Heap!Swap(s, i, m)[k] = IF k = m THEN s[i] ELSE IF k = i THEN s[m] ELSE s[k]
    BY <1>1 DEF Heap!Swap
  <1>4. Heap!Swap(s, i, m) \in [1..Len(s) -> HeapTask]
    BY <1>1 DEF Heap!Swap
  <1>5. Heap!Swap(s, i, m) \in Seq(HeapTask)
    BY <1>1, <1>4
  <1>6. Len(Heap!Swap(s, i, m)) = Len(s)
    BY <1>1, <1>2, <1>5, LenProperties
  <1> QED BY <1>3, <1>5, <1>6 DEF AreExchanged

(***************************************************************************)
(* An exchange keeps the set of tasks, and their being distinct.           *)
(***************************************************************************)
LEMMA ExchangeKeeps ==
    ASSUME NEW s \in Seq(HeapTask), NEW i \in 1..Len(s), NEW m \in 1..Len(s)
    PROVE  /\ ToSet(Heap!Swap(s, i, m)) = ToSet(s)
           /\ Distinct(s) => Distinct(Heap!Swap(s, i, m))
  <1> DEFINE t == Heap!Swap(s, i, m)
  <1>1. /\ t \in Seq(HeapTask) /\ Len(t) = Len(s)
        /\ \A k \in 1..Len(s) : t[k] = IF k = m THEN s[i] ELSE IF k = i THEN s[m] ELSE s[k]
    <2>1. t \in Seq(HeapTask) /\ AreExchanged(s, t, i, m)
      BY Exchanged
    <2> HIDE DEF t
    <2> QED BY <2>1 DEF AreExchanged
  <1> HIDE DEF t
  <1>2. DOMAIN t = 1..Len(s) /\ DOMAIN s = 1..Len(s)
    BY <1>1, LenProperties
  <1>3. ToSet(t) \subseteq ToSet(s)
    BY <1>1, <1>2 DEF ToSet
  <1>4. ToSet(s) \subseteq ToSet(t)
    <2>1. ASSUME NEW k \in 1..Len(s) PROVE s[k] \in ToSet(t)
      <3>1. s[k] = t[IF k = i THEN m ELSE IF k = m THEN i ELSE k]
        BY <1>1
      <3>2. (IF k = i THEN m ELSE IF k = m THEN i ELSE k) \in 1..Len(s)
        OBVIOUS
      <3> QED BY <1>2, <3>1, <3>2 DEF ToSet
    <2> QED BY <1>2, <2>1 DEF ToSet
  <1>5. Distinct(s) => Distinct(t)
    BY <1>1 DEF Distinct
  <1> QED BY <1>3, <1>4, <1>5 DEF t

(***************************************************************************)
(* The loop of push, as a step function; and what its definition says of   *)
(* up: a recursive function is a chosen solution of its equation, which    *)
(* has one because the loop ends.                                          *)
(***************************************************************************)
UpStates == Nat \X Seq(HeapTask)

UpGoes(x) == x[1] \in 2..Len(x[2]) /\ Heap!Before(x[2], x[1], x[1] \div 2)

UpNext(x) == <<x[1] \div 2, Heap!Swap(x[2], x[1], x[1] \div 2)>>

UpStep == [x \in UpStates |-> IF UpGoes(x) THEN UpNext(x) ELSE x]

UpMeasure == [x \in UpStates |-> x[1]]

UpEquation(u) == u = [x \in UpStates |-> IF UpGoes(x) THEN u[UpNext(x)] ELSE x[2]]

LEMMA UpMoves ==
    ASSUME NEW x \in UpStates, UpGoes(x)
    PROVE  /\ x[1] \in 2..Len(x[2]) /\ x[1] \div 2 \in 1..Len(x[2]) /\ x[1] \div 2 < x[1]
           /\ UpNext(x) \in UpStates /\ UpNext(x) # x
  <1>1. x[1] \in Nat /\ x[2] \in Seq(HeapTask)
    BY DEF UpStates
  <1>2. x[1] \in 2..Len(x[2]) /\ Len(x[2]) \in Nat
    BY <1>1 DEF UpGoes
  <1>3. x[1] \div 2 \in 1..Len(x[2]) /\ x[1] \div 2 < x[1] /\ x[1] \div 2 \in Nat
    <2>1. x[1] > 1 /\ x[1] <= Len(x[2])
      BY <1>1, <1>2
    <2> QED BY <1>1, <1>2, <2>1
  <1>4. x[1] \in 1..Len(x[2])
    BY <1>2
  <1>5. Heap!Swap(x[2], x[1], x[1] \div 2) \in Seq(HeapTask)
    BY <1>1, <1>3, <1>4, Exchanged
  <1>6. UpNext(x) \in UpStates
    BY <1>3, <1>5 DEF UpNext, UpStates
  <1>7. UpNext(x)[1] # x[1]
    BY <1>1, <1>3 DEF UpNext
  <1> QED BY <1>2, <1>3, <1>6, <1>7

LEMMA UpIsLoop == IsLoop(UpStates, UpStep, UpMeasure)
  <1>1. ASSUME NEW x \in UpStates
        PROVE  UpStep[x] \in UpStates /\ UpMeasure[x] \in Nat
               /\ (UpStep[x] = x \/ UpMeasure[UpStep[x]] < UpMeasure[x])
    <2>1. x[1] \in Nat
      BY DEF UpStates
    <2>2. CASE UpGoes(x)
      <3>1. UpStep[x] = UpNext(x) /\ UpNext(x) \in UpStates /\ x[1] \div 2 < x[1]
        BY <2>2, UpMoves DEF UpStep
      <3>2. UpMeasure[x] = x[1] /\ UpMeasure[UpStep[x]] = x[1] \div 2
        BY <3>1 DEF UpMeasure, UpNext
      <3> QED BY <2>1, <3>1, <3>2
    <2>3. CASE ~UpGoes(x)
      BY <2>1, <2>3 DEF UpStep, UpMeasure
    <2> QED BY <2>2, <2>3
  <1> QED BY <1>1 DEF IsLoop, UpStep, UpMeasure

LEMMA UpSolves == UpEquation(Heap!up)
  <1>1. Heap!up = CHOOSE u : UpEquation(u)
    BY DEF Heap!up, UpEquation, UpStates, UpGoes, UpNext
  <1>2. \E u : UpEquation(u)
    <2>1. PICK f \in [UpStates -> UpStates] :
              \A x \in UpStates : f[x] = IF UpStep[x] = x THEN x ELSE f[UpStep[x]]
      BY UpIsLoop, LoopRuns
    <2> DEFINE u == [x \in UpStates |-> f[x][2]]
    <2>2. ASSUME NEW x \in UpStates
          PROVE  u[x] = IF UpGoes(x) THEN u[UpNext(x)] ELSE x[2]
      <3>1. CASE UpGoes(x)
        <4>1. UpNext(x) \in UpStates /\ UpNext(x) # x /\ UpStep[x] = UpNext(x)
          BY <3>1, UpMoves DEF UpStep
        <4>2. f[x] = f[UpNext(x)]
          BY <2>1, <4>1
        <4> QED BY <3>1, <4>1, <4>2
      <3>2. CASE ~UpGoes(x)
        BY <2>1, <3>2 DEF UpStep
      <3> QED BY <3>1, <3>2
    <2>3. UpEquation(u)
      BY <2>2 DEF UpEquation
    <2> QED BY <2>3
  <1> QED BY <1>1, <1>2

LEMMA UpRule ==
    ASSUME NEW C, Closed(C, UpStates, UpStep), NEW x \in C
    PROVE  \E y \in C : ~UpGoes(y) /\ Heap!up[x] = y[2]
  <1> DEFINE result == [y \in UpStates |-> y[2]]
             up == Heap!up
  <1>1. ASSUME NEW y \in UpStates
        PROVE  /\ UpGoes(y) => UpStep[y] = UpNext(y) /\ UpNext(y) # y
               /\ ~UpGoes(y) => UpStep[y] = y
    BY UpMoves DEF UpStep
  <1>2. ASSUME NEW y \in UpStates
        PROVE  up[y] = IF UpStep[y] = y THEN result[y] ELSE up[UpStep[y]]
    <2>1. up[y] = IF UpGoes(y) THEN up[UpNext(y)] ELSE y[2]
      BY UpSolves DEF UpEquation
    <2> QED BY <1>1, <2>1
  <1> HIDE DEF result, up
  <1>3. Runs(up, UpStates, UpStep, result)
    BY <1>2 DEF Runs
  <1>4. PICK y \in C : UpStep[y] = y /\ up[x] = result[y]
    BY <1>3, UpIsLoop, LoopRule
  <1>5. y \in UpStates
    BY DEF Closed
  <1> QED BY <1>1, <1>4, <1>5 DEF result, up

(***************************************************************************)
(* What the loop of push keeps: the task at i may be due before its        *)
(* parent, every other task is in order, and the children of i are in      *)
(* order with the parent of i.  A task that is the root or not before its  *)
(* parent ends the loop with a heap.                                       *)
(***************************************************************************)
InOrder(s, j) == s[j \div 2].ts <= s[j].ts

SkipOrder(s, i) ==
    i > 1 => \A j \in 2..Len(s) : j \div 2 = i => s[i \div 2].ts <= s[j].ts

RisingAt(s, i) == (\A j \in 2..Len(s) : j # i => InOrder(s, j)) /\ SkipOrder(s, i)

LEMMA Dues == \A s \in Seq(HeapTask) : \A k \in 1..Len(s) : s[k].ts \in Int
  <1>1. ASSUME NEW s \in Seq(HeapTask), NEW k \in 1..Len(s) PROVE s[k].ts \in Int
    <2>1. s[k] \in HeapTask
      OBVIOUS
    <2> QED BY <2>1, DeadlinesAssumption DEF HeapTask
  <1> QED BY <1>1

LEMMA Parent ==
    \A n \in Nat : \A j \in 2..n : /\ j \div 2 \in 1..n /\ j \div 2 < j
                                   /\ j \in 1..n /\ j \in Int /\ j \div 2 \in Int
  OBVIOUS

LEMMA RiseKeeps ==
    ASSUME NEW s \in Seq(HeapTask), NEW i \in 2..Len(s), RisingAt(s, i),
           Heap!Before(s, i, i \div 2)
    PROVE  RisingAt(Heap!Swap(s, i, i \div 2), i \div 2)
  <1> DEFINE n == Len(s)
             p == i \div 2
             t == Heap!Swap(s, i, p)
  <1>1. n \in Nat /\ i \in 1..n /\ p \in 1..n /\ p < i
    BY Parent
  <1>2. /\ Len(t) = n
        /\ \A k \in 1..n : t[k] = IF k = p THEN s[i] ELSE IF k = i THEN s[p] ELSE s[k]
    <2>1. AreExchanged(s, t, i, p)
      BY <1>1, Exchanged
    <2> HIDE DEF t, p
    <2> QED BY <2>1 DEF AreExchanged
  <1>3. \A k \in 1..n : s[k].ts \in Int
    BY Dues
  <1>4. s[i].ts < s[p].ts
    BY DEF Heap!Before
  <1>5. \A j \in 2..n : j # i => s[j \div 2].ts <= s[j].ts
    BY DEF RisingAt, InOrder
  <1>6. \A j \in 2..n : j \div 2 = i => s[p].ts <= s[j].ts
    BY <1>1 DEF RisingAt, SkipOrder
  <1> HIDE DEF t, p, n
  <1>7. ASSUME NEW j \in 2..n, j # p PROVE t[j \div 2].ts <= t[j].ts
    <2>1. j \div 2 \in 1..n /\ j \div 2 < j /\ j \in 1..n
      BY <1>1, Parent
    <2> DEFINE q == j \div 2
    <2>2. CASE j = i
      <3>1. t[q] = s[i] /\ t[j] = s[p]
        BY <1>1, <1>2, <2>1, <2>2 DEF p
      <3> QED BY <1>1, <1>3, <1>4, <3>1
    <2>3. CASE j # i /\ q = p
      <3>1. t[q] = s[i] /\ t[j] = s[j] /\ s[p].ts <= s[j].ts
        BY <1>1, <1>2, <1>5, <1>7, <2>1, <2>3
      <3> QED BY <1>1, <1>3, <1>4, <2>1, <3>1
    <2>4. CASE q = i
      <3>1. j # i /\ q # p
        BY <1>1, <2>1, <2>4
      <3>2. t[q] = s[p] /\ t[j] = s[j] /\ s[p].ts <= s[j].ts
        BY <1>1, <1>2, <1>6, <1>7, <2>1, <2>4, <3>1
      <3> QED BY <3>2
    <2>5. CASE j # i /\ q # p /\ q # i
      <3>1. t[q] = s[q] /\ t[j] = s[j] /\ s[q].ts <= s[j].ts
        BY <1>2, <1>5, <1>7, <2>1, <2>5
      <3> QED BY <3>1
    <2> QED BY <2>2, <2>3, <2>4, <2>5
  <1>8. ASSUME p > 1, NEW j \in 2..n, j \div 2 = p PROVE t[p \div 2].ts <= t[j].ts
    <2> DEFINE q == p \div 2
    <2>1. p \in 2..n /\ j \in 1..n /\ j # p
      BY <1>1, <1>8, Parent
    <2>2. q \in 1..n /\ q # p /\ q # i
      BY <1>1, <2>1, Parent
    <2>3. t[q] = s[q] /\ s[q].ts <= s[p].ts
      BY <1>1, <1>2, <1>5, <2>1, <2>2
    <2> HIDE DEF q
    <2>4. CASE j = i
      BY <1>2, <2>1, <2>3, <2>4 DEF q
    <2>5. CASE j # i
      <3>1. t[j] = s[j] /\ s[p].ts <= s[j].ts
        BY <1>2, <1>5, <1>8, <2>1, <2>5
      <3>2. s[q].ts <= s[j].ts
        BY <1>1, <1>3, <2>1, <2>2, <2>3, <3>1
      <3> QED BY <2>3, <3>1, <3>2 DEF q
    <2> QED BY <2>4, <2>5
  <1>9. RisingAt(t, p)
    BY <1>2, <1>7, <1>8 DEF RisingAt, SkipOrder, InOrder
  <1> QED BY <1>9 DEF t, p

LEMMA RiseEnds ==
    ASSUME NEW s \in Seq(HeapTask), NEW i \in 1..Len(s), RisingAt(s, i),
           ~(i \in 2..Len(s) /\ Heap!Before(s, i, i \div 2))
    PROVE  IsHeap(s)
  <1>1. ASSUME NEW j \in 2..Len(s) PROVE s[j \div 2].ts <= s[j].ts
    <2>1. Len(s) \in Nat /\ j \in 1..Len(s) /\ j \div 2 \in 1..Len(s)
      BY Parent
    <2>2. s[j].ts \in Int /\ s[j \div 2].ts \in Int
      BY <2>1, Dues
    <2>3. CASE j = i
      <3>1. ~(s[j].ts < s[j \div 2].ts)
        BY <2>3 DEF Heap!Before
      <3> QED BY <2>2, <3>1
    <2>4. CASE j # i
      BY <2>4 DEF RisingAt, InOrder
    <2> QED BY <2>3, <2>4
  <1> QED BY <1>1 DEF IsHeap

(***************************************************************************)
(* push keeps a heap of distinct tasks one, and adds the task.             *)
(***************************************************************************)
THEOREM PushKeepsHeap ==
    ASSUME NEW h \in Seq(HeapTask), IsHeap(h), Distinct(h), NEW f \in HeapTask, f \notin ToSet(h)
    PROVE  PushAdds(h, f)
  <1> DEFINE n == Len(h) + 1
             s == Append(h, f)
             C == {x \in UpStates : /\ x[1] \in 1..Len(x[2]) /\ RisingAt(x[2], x[1])
                                    /\ ToSet(x[2]) = ToSet(h) \cup {f} /\ Distinct(x[2])}
  <1>1. /\ s \in Seq(HeapTask) /\ Len(s) = n /\ n \in Nat /\ n \in 1..n /\ s[n] = f
        /\ \A k \in 1..Len(h) : s[k] = h[k] /\ k \in 1..n
        /\ \A k \in 1..n : k = n \/ k \in 1..Len(h)
    OBVIOUS
  <1> HIDE DEF s
  <1>2. ToSet(s) = ToSet(h) \cup {f}
    <2>1. DOMAIN s = 1..n /\ DOMAIN h = 1..Len(h)
      BY <1>1, LenProperties
    <2> HIDE DEF n
    <2> QED BY <1>1, <2>1 DEF ToSet
  <1>3. Distinct(s)
    <2>1. \A k \in 1..Len(h) : h[k] # f
      <3>1. DOMAIN h = 1..Len(h)
        OBVIOUS
      <3> QED BY <3>1 DEF ToSet
    <2>2. \A k, j \in 1..Len(h) : h[k] = h[j] => k = j
      BY DEF Distinct
    <2> HIDE DEF n
    <2>3. \A k, j \in 1..n : s[k] = s[j] => k = j
      BY <1>1, <2>1, <2>2
    <2> QED BY <1>1, <2>3 DEF Distinct
  <1>4. RisingAt(s, n)
    <2>1. ASSUME NEW j \in 2..n, j # n PROVE s[j \div 2].ts <= s[j].ts
      <3>1. j \in 2..Len(h) /\ Len(h) \in Nat
        BY <2>1
      <3>2. j \div 2 \in 1..Len(h) /\ j \in 1..Len(h)
        BY <3>1, Parent
      <3>3. h[j \div 2].ts <= h[j].ts
        BY <3>1 DEF IsHeap
      <3> QED BY <1>1, <3>2, <3>3
    <2>2. \A j \in 2..n : j \div 2 # n
      BY <1>1, Parent
    <2> HIDE DEF n
    <2> QED BY <1>1, <2>1, <2>2 DEF RisingAt, SkipOrder, InOrder
  <1> HIDE DEF n
  <1>5. <<n, s>> \in C
    BY <1>1, <1>2, <1>3, <1>4 DEF UpStates
  <1>6. Closed(C, UpStates, UpStep)
    <2>1. ASSUME NEW x \in C PROVE UpStep[x] \in C
      <3>1. CASE UpGoes(x)
        <4> DEFINE i == x[1]
                   z == x[2]
                   t == Heap!Swap(z, i, i \div 2)
        <4>1. /\ UpStep[x] = UpNext(x) /\ UpNext(x) \in UpStates
              /\ i \in 2..Len(z) /\ i \div 2 \in 1..Len(z) /\ i \in 1..Len(z)
              /\ z \in Seq(HeapTask)
          BY <3>1, UpMoves DEF UpStep, UpStates
        <4>2. RisingAt(t, i \div 2)
          BY <3>1, <4>1, RiseKeeps DEF UpGoes
        <4>3. ToSet(t) = ToSet(h) \cup {f} /\ Distinct(t)
          BY <4>1, ExchangeKeeps
        <4>4. Len(t) = Len(z)
          BY <4>1, Exchanged
        <4>5. UpNext(x) = <<i \div 2, t>>
          BY DEF UpNext
        <4> HIDE DEF t, i, z
        <4>6. UpNext(x)[1] = i \div 2 /\ UpNext(x)[2] = t
          BY <4>5
        <4> QED BY <4>1, <4>2, <4>3, <4>4, <4>6
      <3>2. CASE ~UpGoes(x)
        BY <3>2 DEF UpStep
      <3> QED BY <3>1, <3>2
    <2> QED BY <2>1 DEF Closed
  <1> HIDE DEF C
  <1>7. PICK y \in C : ~UpGoes(y) /\ Heap!up[<<n, s>>] = y[2]
    BY <1>5, <1>6, UpRule
  <1>8. y \in UpStates /\ Heap!push(h, f) = y[2]
    BY <1>7 DEF Heap!push, n, s, C
  <1>9. IsHeap(y[2])
    <2>1. y[2] \in Seq(HeapTask)
      BY <1>8 DEF UpStates
    <2> QED BY <1>7, <1>8, <2>1, RiseEnds DEF C, UpGoes
  <1> QED BY <1>8, <1>9 DEF PushAdds, C

(***************************************************************************)
(* The loop of pop goes on with the earlier of the task's children, if     *)
(* that one is due before the task.                                        *)
(***************************************************************************)
LEMMA Children ==
    /\ \A i \in Nat : (2 * i) \div 2 = i /\ (2 * i + 1) \div 2 = i
    /\ \A i, j \in Nat : j \div 2 = i => j = 2 * i \/ j = 2 * i + 1
  OBVIOUS

LEMMA EarlierChild ==
    ASSUME NEW s \in Seq(HeapTask), NEW i \in Nat \ {0}
    PROVE  LET m == Heap!EarliestOf(s, i)
           IN  /\ m # i => /\ m \in 2..Len(s) /\ m \div 2 = i /\ i < m /\ i \in 1..Len(s)
                           /\ s[m].ts < s[i].ts
               /\ \A j \in 2..Len(s) : j \div 2 = i => s[m].ts <= s[j].ts
  <1> DEFINE n == Len(s)
             l == 2 * i
             m == IF l <= n /\ Heap!Before(s, l, i) THEN l ELSE i
             e == IF l + 1 <= n /\ Heap!Before(s, l + 1, m) THEN l + 1 ELSE m
  <1>1. Heap!EarliestOf(s, i) = e
    BY DEF Heap!EarliestOf
  <1>2. n \in Nat /\ \A k \in 1..n : s[k].ts \in Int
    BY Dues
  <1>3. i \in Nat /\ l \in Nat /\ l + 1 \in Nat /\ i < l /\ i >= 1 /\ l >= 2
        /\ l \div 2 = i /\ (l + 1) \div 2 = i
    BY Children
  <1>4. \A j \in 2..n : j \div 2 = i => j = l \/ j = l + 1
    BY <1>2, Children
  <1> HIDE DEF n, l
  <1>5. CASE n < l
    <2>1. e = i /\ ~(l + 1 <= n)
      BY <1>2, <1>3, <1>5
    <2>2. \A j \in 2..n : j \div 2 # i
      BY <1>2, <1>3, <1>4, <1>5
    <2> QED BY <1>1, <2>1, <2>2 DEF n
  <1>6. CASE l <= n
    <2>1. i \in 1..n /\ l \in 1..n /\ l \in 2..n /\ (l + 1 <= n => l + 1 \in 1..n /\ l + 1 \in 2..n)
      BY <1>2, <1>3, <1>6
    <2>2. s[i].ts \in Int /\ s[l].ts \in Int /\ (l + 1 <= n => s[l + 1].ts \in Int)
      BY <1>2, <2>1
    <2>3. /\ m = l \/ m = i
          /\ s[m].ts \in Int /\ s[m].ts <= s[i].ts /\ s[m].ts <= s[l].ts
          /\ m # i => s[m].ts < s[i].ts
      BY <1>6, <2>2 DEF Heap!Before
    <2> HIDE DEF m
    <2>4. /\ e = l + 1 \/ e = m
          /\ s[e].ts <= s[l].ts /\ (l + 1 <= n => s[e].ts <= s[l + 1].ts)
          /\ e # i => s[e].ts < s[i].ts
          /\ e = l + 1 => l + 1 <= n
      <3>1. CASE l + 1 <= n /\ s[l + 1].ts < s[m].ts
        <4>1. e = l + 1
          BY <3>1 DEF Heap!Before
        <4> HIDE DEF e
        <4> QED BY <2>2, <2>3, <3>1, <4>1
      <3>2. CASE ~(l + 1 <= n /\ s[l + 1].ts < s[m].ts)
        <4>1. e = m
          BY <3>2 DEF Heap!Before
        <4>2. l + 1 <= n => s[m].ts <= s[l + 1].ts
          BY <2>2, <2>3, <3>2
        <4>3. l + 1 <= n \/ ~(l + 1 <= n)
          OBVIOUS
        <4> HIDE DEF e
        <4>4. e = l + 1 => l + 1 <= n
          BY <1>3, <2>3, <4>1
        <4> QED BY <2>3, <4>1, <4>2, <4>4
      <3> QED BY <3>1, <3>2
    <2> HIDE DEF e
    <2>5. e # i => e \in 2..n /\ e \div 2 = i /\ i < e
      <3>1. e = l \/ e = l + 1 \/ e = i
        BY <2>3, <2>4
      <3>2. CASE e = l
        BY <1>3, <2>1, <3>2
      <3>3. CASE e = l + 1
        BY <1>3, <2>1, <2>4, <3>3
      <3> QED BY <3>1, <3>2, <3>3
    <2>6. ASSUME NEW j \in 2..n, j \div 2 = i PROVE s[e].ts <= s[j].ts
      <3>1. j = l \/ j = l + 1
        BY <1>4, <2>6
      <3>2. CASE j = l
        BY <2>4, <3>2
      <3>3. CASE j = l + 1
        <4>1. j <= n
          BY <1>2
        <4> QED BY <2>4, <3>3, <4>1
      <3> QED BY <3>1, <3>2, <3>3
    <2> QED BY <1>1, <2>1, <2>4, <2>5, <2>6 DEF n
  <1> QED BY <1>2, <1>3, <1>5, <1>6

DownStates == (Nat \ {0}) \X Seq(HeapTask)

DownTo(x) == Heap!EarliestOf(x[2], x[1])

DownNext(x) == <<DownTo(x), Heap!Swap(x[2], x[1], DownTo(x))>>

DownStep == [x \in DownStates |-> IF DownTo(x) = x[1] THEN x ELSE DownNext(x)]

DownMeasure == [x \in DownStates |-> IF x[1] <= Len(x[2]) THEN Len(x[2]) - x[1] ELSE 0]

DownEquation(d) == d = [x \in DownStates |-> IF DownTo(x) = x[1] THEN x[2] ELSE d[DownNext(x)]]

LEMMA DownMoves ==
    ASSUME NEW x \in DownStates, DownTo(x) # x[1]
    PROVE  /\ x[1] \in 1..Len(x[2]) /\ DownTo(x) \in 2..Len(x[2]) /\ DownTo(x) \in 1..Len(x[2])
           /\ x[1] < DownTo(x) /\ Len(DownNext(x)[2]) = Len(x[2])
           /\ DownNext(x) \in DownStates /\ DownNext(x) # x
  <1>1. x[1] \in Nat \ {0} /\ x[2] \in Seq(HeapTask) /\ Len(x[2]) \in Nat
    BY DEF DownStates
  <1>2. x[1] \in 1..Len(x[2]) /\ DownTo(x) \in 2..Len(x[2]) /\ x[1] < DownTo(x)
    BY <1>1, EarlierChild DEF DownTo
  <1>3. DownTo(x) \in 1..Len(x[2]) /\ DownTo(x) \in Nat \ {0}
    BY <1>1, <1>2
  <1>4. /\ Heap!Swap(x[2], x[1], DownTo(x)) \in Seq(HeapTask)
        /\ Len(Heap!Swap(x[2], x[1], DownTo(x))) = Len(x[2])
    BY <1>1, <1>2, <1>3, Exchanged
  <1>5. DownNext(x) \in DownStates /\ Len(DownNext(x)[2]) = Len(x[2]) /\ DownNext(x)[1] # x[1]
    BY <1>3, <1>4 DEF DownNext, DownStates
  <1> QED BY <1>2, <1>3, <1>5

LEMMA DownIsLoop == IsLoop(DownStates, DownStep, DownMeasure)
  <1>1. ASSUME NEW x \in DownStates
        PROVE  DownStep[x] \in DownStates /\ DownMeasure[x] \in Nat
               /\ (DownStep[x] = x \/ DownMeasure[DownStep[x]] < DownMeasure[x])
    <2>1. x[1] \in Nat /\ Len(x[2]) \in Nat
      BY DEF DownStates
    <2>2. DownMeasure[x] = IF x[1] <= Len(x[2]) THEN Len(x[2]) - x[1] ELSE 0
      BY DEF DownMeasure
    <2>3. DownMeasure[x] \in Nat
      BY <2>1, <2>2
    <2>4. CASE DownTo(x) # x[1]
      <3>1. DownStep[x] = DownNext(x) /\ DownNext(x) \in DownStates
        BY <2>4, DownMoves DEF DownStep
      <3>2. x[1] \in 1..Len(x[2]) /\ DownTo(x) \in 2..Len(x[2]) /\ x[1] < DownTo(x)
            /\ Len(DownNext(x)[2]) = Len(x[2])
        BY <2>4, DownMoves
      <3>3. DownNext(x)[1] = DownTo(x)
        BY DEF DownNext
      <3>4. DownMeasure[DownNext(x)] = Len(x[2]) - DownTo(x)
        BY <2>1, <3>1, <3>2, <3>3 DEF DownMeasure
      <3>5. DownMeasure[x] = Len(x[2]) - x[1]
        BY <2>1, <2>2, <3>2
      <3>6. DownMeasure[DownNext(x)] < DownMeasure[x]
        BY <2>1, <3>2, <3>4, <3>5
      <3> QED BY <2>3, <3>1, <3>6
    <2>5. CASE DownTo(x) = x[1]
      BY <2>3, <2>5 DEF DownStep
    <2> QED BY <2>4, <2>5
  <1> QED BY <1>1 DEF IsLoop, DownStep, DownMeasure

LEMMA DownSolves == DownEquation(Heap!down)
  <1>1. Heap!down = CHOOSE d : DownEquation(d)
    BY DEF Heap!down, DownEquation, DownStates, DownTo, DownNext
  <1>2. \E d : DownEquation(d)
    <2>1. PICK f \in [DownStates -> DownStates] :
              \A x \in DownStates : f[x] = IF DownStep[x] = x THEN x ELSE f[DownStep[x]]
      BY DownIsLoop, LoopRuns
    <2> DEFINE d == [x \in DownStates |-> f[x][2]]
    <2>2. ASSUME NEW x \in DownStates
          PROVE  d[x] = IF DownTo(x) = x[1] THEN x[2] ELSE d[DownNext(x)]
      <3>1. CASE DownTo(x) # x[1]
        <4>1. DownNext(x) \in DownStates /\ DownNext(x) # x /\ DownStep[x] = DownNext(x)
          BY <3>1, DownMoves DEF DownStep
        <4>2. f[x] = f[DownNext(x)]
          BY <2>1, <4>1
        <4> QED BY <3>1, <4>1, <4>2
      <3>2. CASE DownTo(x) = x[1]
        BY <2>1, <3>2 DEF DownStep
      <3> QED BY <3>1, <3>2
    <2>3. DownEquation(d)
      BY <2>2 DEF DownEquation
    <2> QED BY <2>3
  <1> QED BY <1>1, <1>2

LEMMA DownRule ==
    ASSUME NEW C, Closed(C, DownStates, DownStep), NEW x \in C
    PROVE  \E y \in C : DownTo(y) = y[1] /\ Heap!down[x] = y[2]
  <1> DEFINE result == [y \in DownStates |-> y[2]]
             down == Heap!down
  <1>1. ASSUME NEW y \in DownStates
        PROVE  /\ DownTo(y) # y[1] => DownStep[y] = DownNext(y) /\ DownNext(y) # y
               /\ DownTo(y) = y[1] => DownStep[y] = y
    BY DownMoves DEF DownStep
  <1>2. ASSUME NEW y \in DownStates
        PROVE  down[y] = IF DownStep[y] = y THEN result[y] ELSE down[DownStep[y]]
    <2>1. down[y] = IF DownTo(y) = y[1] THEN y[2] ELSE down[DownNext(y)]
      BY DownSolves DEF DownEquation
    <2> QED BY <1>1, <2>1
  <1> HIDE DEF result, down
  <1>3. Runs(down, DownStates, DownStep, result)
    BY <1>2 DEF Runs
  <1>4. PICK y \in C : DownStep[y] = y /\ down[x] = result[y]
    BY <1>3, DownIsLoop, LoopRule
  <1>5. y \in DownStates
    BY DEF Closed
  <1> QED BY <1>1, <1>4, <1>5 DEF result, down

(***************************************************************************)
(* What the loop of pop keeps: the task at i may be due after its          *)
(* children, every other task is in order with its parent, and the         *)
(* children of i are in order with the parent of i.                        *)
(***************************************************************************)
SinkingAt(s, i) == (\A j \in 2..Len(s) : j \div 2 # i => InOrder(s, j)) /\ SkipOrder(s, i)

LEMMA SinkKeeps ==
    ASSUME NEW s \in Seq(HeapTask), NEW i \in Nat \ {0}, SinkingAt(s, i),
           NEW m, m = Heap!EarliestOf(s, i), m # i
    PROVE  SinkingAt(Heap!Swap(s, i, m), m)
  <1> DEFINE n == Len(s)
             t == Heap!Swap(s, i, m)
  <1>1. /\ n \in Nat /\ m \in 2..n /\ m \in 1..n /\ m \div 2 = i /\ i < m /\ i \in 1..n
        /\ s[m].ts < s[i].ts
        /\ \A j \in 2..n : j \div 2 = i => s[m].ts <= s[j].ts
    BY EarlierChild
  <1>2. /\ Len(t) = n
        /\ \A k \in 1..n : t[k] = IF k = m THEN s[i] ELSE IF k = i THEN s[m] ELSE s[k]
    <2>1. AreExchanged(s, t, i, m)
      BY <1>1, Exchanged, Zenon
    <2> HIDE DEF t
    <2> QED BY <2>1 DEF AreExchanged
  <1>3. \A k \in 1..n : s[k].ts \in Int
    BY Dues
  <1>4. \A j \in 2..n : j \div 2 # i => s[j \div 2].ts <= s[j].ts
    BY DEF SinkingAt, InOrder
  <1>5. i > 1 => s[i \div 2].ts <= s[m].ts
    BY <1>1 DEF SinkingAt, SkipOrder
  <1> HIDE DEF t, n
  <1>6. ASSUME NEW j \in 2..n, j \div 2 # m PROVE t[j \div 2].ts <= t[j].ts
    <2> DEFINE q == j \div 2
    <2>1. q \in 1..n /\ q < j /\ j \in 1..n /\ q # m
      BY <1>1, <1>6, Parent
    <2>2. CASE j = m
      <3>1. q = i
        BY <1>1, <2>2
      <3> HIDE DEF q
      <3>2. t[q] = s[m] /\ t[j] = s[i]
        BY <1>1, <1>2, <2>1, <2>2, <3>1
      <3>3. s[m].ts <= s[i].ts
        BY <1>1, <1>3
      <3>4. t[q].ts <= t[j].ts
        BY <3>2, <3>3
      <3> QED BY <3>4 DEF q
    <2>3. CASE j # m /\ q = i
      <3>1. t[q] = s[m] /\ t[j] = s[j] /\ s[m].ts <= s[j].ts
        BY <1>1, <1>2, <2>1, <2>3
      <3> QED BY <3>1
    <2>4. CASE j = i
      <3>1. t[q] = s[q] /\ t[j] = s[m]
        BY <1>1, <1>2, <2>1, <2>4
      <3>2. i > 1 /\ s[q].ts <= s[m].ts
        BY <1>5, <2>4
      <3> QED BY <3>1, <3>2
    <2>5. CASE j # m /\ j # i /\ q # i
      <3>1. t[q] = s[q] /\ t[j] = s[j] /\ s[q].ts <= s[j].ts
        BY <1>2, <1>4, <2>1, <2>5
      <3> QED BY <3>1
    <2> QED BY <2>2, <2>3, <2>4, <2>5
  <1>7. ASSUME NEW j \in 2..n, j \div 2 = m PROVE t[m \div 2].ts <= t[j].ts
    <2>1. j \in 1..n /\ j # m /\ j # i /\ j \div 2 # i
      BY <1>1, <1>7, Parent
    <2>2. t[m \div 2] = s[m] /\ t[j] = s[j]
      BY <1>1, <1>2, <2>1
    <2>3. s[m].ts <= s[j].ts
      BY <1>4, <1>7, <2>1
    <2> QED BY <2>2, <2>3
  <1>8. SinkingAt(t, m)
    BY <1>2, <1>6, <1>7 DEF SinkingAt, SkipOrder, InOrder
  <1> QED BY <1>8 DEF t

LEMMA SinkEnds ==
    ASSUME NEW s \in Seq(HeapTask), NEW i \in Nat \ {0}, SinkingAt(s, i),
           Heap!EarliestOf(s, i) = i
    PROVE  IsHeap(s)
  <1>1. \A j \in 2..Len(s) : j \div 2 = i => s[j \div 2].ts <= s[j].ts
    BY EarlierChild
  <1>2. \A j \in 2..Len(s) : j \div 2 # i => s[j \div 2].ts <= s[j].ts
    BY DEF SinkingAt, InOrder
  <1> QED BY <1>1, <1>2 DEF IsHeap

(***************************************************************************)
(* The root of a heap is one of its earliest tasks: the first task that    *)
(* were earlier would have a parent that is earlier too.                   *)
(***************************************************************************)
LEMMA RootIsEarliest ==
    ASSUME NEW h \in Seq(HeapTask), IsHeap(h)
    PROVE  \A k \in 1..Len(h) : h[1].ts <= h[k].ts
  <1> DEFINE S == 1..Len(h)
             mu == [k \in S |-> k]
             T == {k \in S : ~(h[1].ts <= h[k].ts)}
  <1>1. SUFFICES ASSUME T # {} PROVE FALSE
    OBVIOUS
  <1>2. PICK k \in T : \A j \in T : ~(mu[j] < mu[k])
    <2>1. mu \in [S -> Nat] /\ T \in SUBSET S
      OBVIOUS
    <2> HIDE DEF mu, T, S
    <2> QED BY <1>1, <2>1, LeastMeasure
  <1>3. k \in 1..Len(h) /\ Len(h) \in Nat /\ 1 \in 1..Len(h) /\ ~(h[1].ts <= h[k].ts)
    OBVIOUS
  <1>4. k # 1
    BY <1>3, Dues
  <1>5. k \in 2..Len(h) /\ k \div 2 \in 1..Len(h) /\ k \div 2 < k
    <2>1. k \in 2..Len(h)
      BY <1>3, <1>4
    <2> QED BY <1>3, <2>1, Parent
  <1>6. k \div 2 \notin T
    BY <1>2, <1>5
  <1>7. h[1].ts <= h[k \div 2].ts
    BY <1>5, <1>6
  <1>8. h[k \div 2].ts <= h[k].ts
    BY <1>5 DEF IsHeap
  <1> QED BY <1>3, <1>5, <1>7, <1>8, Dues

(***************************************************************************)
(* What is left when the last task has taken the place of the first.       *)
(***************************************************************************)
LEMMA WithoutFirst ==
    ASSUME NEW h \in Seq(HeapTask), Len(h) > 0, IsHeap(h), Distinct(h)
    PROVE  LET s == Heap!Shortened(h)
           IN  /\ s \in Seq(HeapTask) /\ ToSet(s) = ToSet(h) \ {h[1]}
               /\ Distinct(s) /\ SinkingAt(s, 1)
  <1> DEFINE n == Len(h)
             r == [h EXCEPT ![1] = h[n]]
             s == SubSeq(r, 1, n - 1)
  <1>1. n \in Nat /\ n > 0 /\ n \in 1..n /\ 1 \in 1..n /\ DOMAIN h = 1..n
        /\ \A k \in 1..n : h[k] \in HeapTask
    OBVIOUS
  <1>2. r \in Seq(HeapTask) /\ Len(r) = n
        /\ \A k \in 1..n : r[k] = IF k = 1 THEN h[n] ELSE h[k]
    OBVIOUS
  <1> HIDE DEF r
  <1>3. s \in Seq(HeapTask) /\ Len(s) = n - 1 /\ \A k \in 1..(n - 1) : s[k] = r[k]
    BY <1>1, <1>2, SubSeqProperties
  <1> HIDE DEF s
  <1>4. DOMAIN s = 1..(n - 1)
    BY <1>3, LenProperties
  <1>5. \A k \in 1..(n - 1) : s[k] = (IF k = 1 THEN h[n] ELSE h[k]) /\ k \in 1..n /\ k # n
    BY <1>1, <1>2, <1>3
  <1>6. \A k, j \in 1..n : h[k] = h[j] => k = j
    BY DEF Distinct
  <1> HIDE DEF n
  <1>7. ASSUME NEW k \in 2..n
        PROVE  h[k] = s[IF k = n THEN 1 ELSE k] /\ (IF k = n THEN 1 ELSE k) \in 1..(n - 1)
    <2>1. (IF k = n THEN 1 ELSE k) \in 1..(n - 1) /\ k # 1
      <3>1. \A a \in Nat : \A b \in 2..a : /\ b # 1 /\ (b = a => 1 \in 1..(a - 1))
                                            /\ (b # a => b \in 1..(a - 1))
        OBVIOUS
      <3>2. (k = n => 1 \in 1..(n - 1)) /\ (k # n => k \in 1..(n - 1)) /\ k # 1
        BY <1>1, <3>1
      <3> QED BY <3>2
    <2> QED BY <1>5, <2>1
  <1>8. ASSUME NEW k \in 1..n, k # 1 PROVE k \in 2..n
    BY <1>1, <1>8
  <1>9. ToSet(s) \subseteq ToSet(h) \ {h[1]}
    <2>1. ASSUME NEW k \in 1..(n - 1) PROVE s[k] \in ToSet(h) /\ s[k] # h[1]
      <3>1. CASE k = 1
        <4>1. s[k] = h[n] /\ n # 1
          BY <1>5, <3>1
        <4> QED BY <1>1, <1>6, <4>1 DEF ToSet
      <3>2. CASE k # 1
        <4>1. s[k] = h[k] /\ k \in 1..n
          BY <1>5, <3>2
        <4> QED BY <1>1, <1>6, <3>2, <4>1 DEF ToSet
      <3> QED BY <3>1, <3>2
    <2> QED BY <1>4, <2>1 DEF ToSet
  <1>10. ToSet(h) \ {h[1]} \subseteq ToSet(s)
    <2>1. ASSUME NEW k \in 1..n, h[k] # h[1] PROVE h[k] \in ToSet(s)
      BY <1>4, <1>7, <1>8, <2>1 DEF ToSet
    <2> QED BY <1>1, <2>1 DEF ToSet
  <1>11. Distinct(s)
    <2>1. ASSUME NEW k \in 1..(n - 1), NEW j \in 1..(n - 1), s[k] = s[j] PROVE k = j
      BY <1>1, <1>5, <1>6, <2>1
    <2> QED BY <1>3, <2>1 DEF Distinct
  <1>12. SinkingAt(s, 1)
    <2>1. ASSUME NEW j \in 2..(n - 1), j \div 2 # 1 PROVE s[j \div 2].ts <= s[j].ts
      <3>1. j \div 2 \in 1..(n - 1) /\ j \in 1..(n - 1) /\ j # 1 /\ j \in 2..n
        BY <1>1, Parent
      <3>2. s[j \div 2] = h[j \div 2] /\ s[j] = h[j]
        BY <1>5, <2>1, <3>1
      <3>3. h[j \div 2].ts <= h[j].ts
        BY <3>1 DEF IsHeap, n
      <3> QED BY <3>2, <3>3
    <2> QED BY <1>3, <2>1 DEF SinkingAt, SkipOrder, InOrder
  <1> QED BY <1>3, <1>9, <1>10, <1>11, <1>12 DEF Heap!Shortened, s, r, n

(***************************************************************************)
(* pop keeps a heap of distinct tasks one, and takes away its first task,  *)
(* which is one of the earliest.                                           *)
(***************************************************************************)
THEOREM PopKeepsHeap ==
    ASSUME NEW h \in Seq(HeapTask), Len(h) > 0, IsHeap(h), Distinct(h)
    PROVE  PopTakesFirst(h)
  <1> DEFINE s == Heap!Shortened(h)
             C == {x \in DownStates : /\ SinkingAt(x[2], x[1]) /\ Distinct(x[2])
                                      /\ ToSet(x[2]) = ToSet(h) \ {h[1]}}
  <1>1. /\ s \in Seq(HeapTask) /\ ToSet(s) = ToSet(h) \ {h[1]}
        /\ Distinct(s) /\ SinkingAt(s, 1)
    BY WithoutFirst
  <1> HIDE DEF s
  <1>2. <<1, s>> \in C
    BY <1>1 DEF DownStates
  <1>3. Closed(C, DownStates, DownStep)
    <2>1. ASSUME NEW x \in C PROVE DownStep[x] \in C
      <3>1. CASE DownTo(x) # x[1]
        <4> DEFINE i == x[1]
                   z == x[2]
                   m == DownTo(x)
                   t == Heap!Swap(z, i, m)
        <4>1. /\ DownStep[x] = DownNext(x) /\ DownNext(x) \in DownStates
              /\ i \in 1..Len(z) /\ m \in 1..Len(z) /\ i \in Nat \ {0}
              /\ z \in Seq(HeapTask)
          BY <3>1, DownMoves DEF DownStep, DownStates
        <4>2. SinkingAt(t, m)
          BY <3>1, <4>1, SinkKeeps DEF DownTo
        <4>3. ToSet(t) = ToSet(h) \ {h[1]} /\ Distinct(t)
          BY <4>1, ExchangeKeeps
        <4>4. DownNext(x) = <<m, t>>
          BY DEF DownNext
        <4> HIDE DEF t, i, z, m
        <4>5. DownNext(x)[1] = m /\ DownNext(x)[2] = t
          BY <4>4
        <4> QED BY <4>1, <4>2, <4>3, <4>5
      <3>2. CASE DownTo(x) = x[1]
        BY <3>2 DEF DownStep
      <3> QED BY <3>1, <3>2
    <2> QED BY <2>1 DEF Closed
  <1> HIDE DEF C
  <1>4. PICK y \in C : DownTo(y) = y[1] /\ Heap!down[<<1, s>>] = y[2]
    BY <1>2, <1>3, DownRule
  <1>5. y \in DownStates /\ Heap!popped(h) = y[2]
    BY <1>4 DEF Heap!popped, s, C
  <1>6. IsHeap(y[2])
    <2>1. y[1] \in Nat \ {0} /\ y[2] \in Seq(HeapTask)
      BY <1>5 DEF DownStates
    <2> QED BY <1>4, <2>1, SinkEnds DEF C, DownTo
  <1>7. ASSUME NEW f \in ToSet(h) PROVE h[1].ts <= f.ts
    <2>1. DOMAIN h = 1..Len(h)
      OBVIOUS
    <2> QED BY <2>1, RootIsEarliest DEF ToSet
  <1>8. Distinct(y[2]) /\ ToSet(y[2]) = ToSet(h) \ {h[1]}
    BY DEF C
  <1> QED BY <1>5, <1>6, <1>7, <1>8 DEF PopTakesFirst

-----------------------------------------------------------------------------
(***************************************************************************)
(* The heaps that the ring's contents make, on the instance TLC runs: the  *)
(* ring holds values only, at most MaxLength of them.                      *)
(***************************************************************************)
HoldsValues == Contents \in Seq(Values) /\ Len(Contents) <= MaxLength

LEMMA HeldKept == TypeOK /\ HoldsValues /\ [Next]_vars => HoldsValues'
  <1> SUFFICES ASSUME TypeOK, HoldsValues, [Next]_vars PROVE HoldsValues'
    OBVIOUS
  <1>1. /\ Contents \in Seq(Values) /\ Len(Contents) <= MaxLength /\ MaxLength \in Nat
        /\ Len(Contents) = RingLen /\ RingLen \in Nat
    BY TypedGeometry, SizesAssumption DEF HoldsValues, Geometry
  <1> HIDE DEF HoldsValues
  <1>2. ASSUME Contents' \in Seq(Values), Len(Contents') <= MaxLength PROVE HoldsValues'
    BY <1>2 DEF HoldsValues
  <1>3. ASSUME Contents' = <<>> PROVE HoldsValues'
    BY <1>1, <1>3 DEF HoldsValues
  <1>4. ASSUME NEW k \in 1..RingLen, Contents' = SubSeq(Contents, k + 1, RingLen)
        PROVE  HoldsValues'
    <2> DEFINE c == Contents
               n == RingLen
    <2>1. c \in Seq(Values) /\ n = Len(c) /\ k \in 1..n /\ n \in Nat
      BY <1>1
    <2> HIDE DEF c, n
    <2>2. SubSeq(c, k + 1, n) \in Seq(Values) /\ Len(SubSeq(c, k + 1, n)) <= n
      BY <2>1, SubSeqProperties
    <2>3. Contents' \in Seq(Values) /\ Len(Contents') <= RingLen /\ Len(Contents') \in Nat
      BY <1>4, <2>2 DEF c, n
    <2> QED BY <1>1, <1>2, <2>3
  <1>5. CASE UNCHANGED vars
    <2>1. UNCHANGED Contents
      BY <1>5 DEF vars, Contents, RingLen, RingAt
    <2> QED BY <1>1, <1>2, <2>1
  <1>6. ASSUME NEW v \in Values, Push(v) PROVE HoldsValues'
    <2>1. Contents' = Append(Contents, v)
      BY <1>6, PushInPlace, PushGrows
    <2>2. RingLen < MaxLength
      BY <1>6 DEF Push
    <2>3. Contents' \in Seq(Values) /\ Len(Contents') = RingLen + 1
      BY <1>1, <2>1
    <2> QED BY <1>1, <1>2, <2>2, <2>3
  <1>7. CASE Pop
    <2>1. CASE RingLen = 0
      <3>1. UNCHANGED Contents
        BY <1>7, <2>1 DEF Pop, Contents, RingLen, RingAt
      <3> QED BY <1>1, <1>2, <3>1
    <2>2. CASE RingLen # 0
      <3>1. Contents # <<>> /\ Contents' = Tail(Contents)
        BY <1>7, <2>2, PopTakes
      <3>2. Contents' \in Seq(Values) /\ Len(Contents') = RingLen - 1
        BY <1>1, <3>1
      <3> QED BY <1>1, <1>2, <3>2
    <2> QED BY <2>1, <2>2
  <1>8. CASE Clear
    BY <1>3, <1>8, ClearDrops
  <1>9. ASSUME NEW k \in 1..MaxLength, Discard(k) PROVE HoldsValues'
    <2>1. CASE k >= RingLen
      BY <1>8, <1>9, <2>1 DEF Discard
    <2>2. CASE k < RingLen
      <3>1. Contents' = SubSeq(Contents, k + 1, RingLen) /\ k \in 1..RingLen
        BY <1>1, <1>9, <2>2, DiscardDrops
      <3> QED BY <1>4, <3>1
    <2> QED BY <1>1, <2>1, <2>2
  <1> QED BY <1>5, <1>6, <1>7, <1>8, <1>9 DEF Next

LEMMA HeldIsSet == TypeOK /\ HoldsValues => HeapIsSet
  <1> SUFFICES ASSUME TypeOK, HoldsValues, IsHeap(Deadlines)
               PROVE  /\ \A ts \in Values : PushAdds(Deadlines, [id |-> MaxLength + 1, ts |-> ts])
                      /\ RingLen > 0 => PopTakesFirst(Deadlines)
    BY DEF HeapIsSet
  <1>1. /\ RingLen \in Nat /\ RingLen <= MaxLength /\ MaxLength \in Nat
        /\ \A i \in 1..RingLen : Contents[i] \in Values
    <2>1. Contents \in Seq(Values) /\ Len(Contents) = RingLen /\ RingLen \in Nat
      BY TypedGeometry DEF HoldsValues, Geometry
    <2> QED BY <2>1, SizesAssumption DEF HoldsValues
  <1>2. \A i \in 1..RingLen : i \in 1..(MaxLength + 1) /\ i # MaxLength + 1
    BY <1>1
  <1>3. \A i \in 1..RingLen : [id |-> i, ts |-> Contents[i]] \in HeapTask
    BY <1>1, <1>2 DEF HeapTask
  <1>4. /\ Deadlines \in [1..RingLen -> HeapTask] /\ DOMAIN Deadlines = 1..RingLen
        /\ \A i \in 1..RingLen : Deadlines[i].id = i
    BY <1>3 DEF Deadlines
  <1>5. Deadlines \in Seq(HeapTask) /\ Len(Deadlines) = RingLen
    BY <1>1, <1>4
  <1>6. Distinct(Deadlines)
    BY <1>4, <1>5 DEF Distinct
  <1>7. ASSUME NEW ts \in Values PROVE PushAdds(Deadlines, [id |-> MaxLength + 1, ts |-> ts])
    <2> DEFINE f == [id |-> MaxLength + 1, ts |-> ts]
    <2>1. f \in HeapTask /\ f.id = MaxLength + 1
      BY <1>1 DEF HeapTask
    <2> HIDE DEF f
    <2>2. f \notin ToSet(Deadlines)
      BY <1>2, <1>4, <2>1 DEF ToSet
    <2>3. PushAdds(Deadlines, f)
      BY <1>5, <1>6, <2>1, <2>2, PushKeepsHeap
    <2> QED BY <2>3 DEF f
  <1>8. RingLen > 0 => PopTakesFirst(Deadlines)
    BY <1>5, <1>6, PopKeepsHeap
  <1> QED BY <1>7, <1>8

(***************************************************************************)
(* The timer's heap behaves as a set of tasks, for every set of deadlines  *)
(* and every size.                                                         *)
(***************************************************************************)
THEOREM HeapBehavesAsSet == Spec => []HeapIsSet
  <1>1. Init => HoldsValues
    <2>1. Init => Contents = <<>> /\ MaxLength \in Nat
      BY InitTyped, SizesAssumption
    <2> QED BY <2>1 DEF HoldsValues
  <1> QED BY <1>1, HeldKept, HeldIsSet, TypeCorrect, PTL DEF Spec
=============================================================================
