------------------------------ MODULE FecProofs ------------------------------
(***************************************************************************)
(* Theorems about Fec, for every value of its constants: any number of     *)
(* shards, any window of kept sets, any width of the sequence numbers.     *)
(***************************************************************************)
EXTENDS Fec, TLAPS, FiniteSetTheorems

(***************************************************************************)
(* The groups of one round of the sequence numbers, and the number of the  *)
(* first packet of a group.                                                *)
(***************************************************************************)
Circle == (Mod - 1) \div EncSize

Base(g) == (g % Circle) * EncSize

(***************************************************************************)
(* Arithmetic: division with remainder, and multiples of the group size.   *)
(***************************************************************************)
LEMMA DivMod ==
    ASSUME NEW x \in Int, NEW n \in Nat, n >= 1
    PROVE  /\ x \div n \in Int /\ x % n \in 0..(n - 1)
           /\ x = n * (x \div n) + (x % n)
           /\ x >= 0 => x \div n >= 0
  OBVIOUS

LEMMA MulStep ==
    ASSUME NEW a \in Int, NEW b \in Int, NEW n \in Int
    PROVE  /\ a * n \in Int
           /\ (a + 1) * n = a * n + n
           /\ (a - b) * n = a * n - b * n
           /\ a * n = n * a
  OBVIOUS

LEMMA MulMono ==
    ASSUME NEW a \in Int, NEW b \in Int, NEW n \in Nat, n >= 1
    PROVE  /\ a <= b => a * n <= b * n
           /\ a < b => a * n + n <= b * n
           /\ a * n < b * n => a < b
  <1>1. \A c, d \in Int : c <= d => c * n <= d * n
    <2>1. SUFFICES ASSUME NEW c \in Int, NEW d \in Int, c <= d PROVE c * n <= d * n
      OBVIOUS
    <2>2. (d - c) * n = d * n - c * n /\ c * n \in Int /\ d * n \in Int
      BY MulStep
    <2>3. d - c \in Nat
      BY <2>1
    <2>4. (d - c) * n >= 0
      BY <2>3
    <2> QED BY <2>2, <2>4
  <1>2. a < b => (a + 1) * n <= b * n
    BY <1>1
  <1>3. b <= a => b * n <= a * n
    BY <1>1
  <1>4. a * n \in Int /\ b * n \in Int /\ (a + 1) * n = a * n + n
    BY MulStep
  <1> QED BY <1>1, <1>2, <1>3, <1>4

LEMMA DivUnique ==
    ASSUME NEW q \in Int, NEW p \in Int, NEW n \in Nat, n >= 1, 0 <= p, p < n
    PROVE  (q * n + p) % n = p /\ (q * n + p) \div n = q
  <1> DEFINE x == q * n + p
             r == x \div n
             m == x % n
  <1>1. q * n \in Int /\ x \in Int
    BY MulStep
  <1> HIDE DEF x
  <1>2. r \in Int /\ m \in 0..(n - 1) /\ x = n * r + m
    BY <1>1, DivMod
  <1> HIDE DEF r, m
  <1>3. n * r = r * n /\ r * n \in Int
    BY <1>2, MulStep
  <1>4. q < r => q * n + n <= r * n
    BY <1>2, MulMono
  <1>5. r < q => r * n + n <= q * n
    BY <1>2, MulMono
  <1>6. r = q
    BY <1>1, <1>2, <1>3, <1>4, <1>5 DEF x
  <1>7. m = p
    BY <1>1, <1>2, <1>3, <1>6 DEF x
  <1> QED BY <1>6, <1>7 DEF x, r, m

LEMMA ModSmall ==
    ASSUME NEW x \in Int, NEW n \in Nat, n >= 1
    PROVE  /\ 0 <= x /\ x < n => x % n = x
           /\ n <= x /\ x < 2 * n => x % n = x - n
           /\ -n <= x /\ x < 0 => x % n = x + n
  <1>1. \A q, p \in Int : 0 <= p /\ p < n => (q * n + p) % n = p
    BY DivUnique
  <1>2. 0 <= x /\ x < n => (0 * n + x) % n = x
    BY <1>1
  <1>3. n <= x /\ x < 2 * n => (1 * n + (x - n)) % n = x - n
    BY <1>1
  <1>4. -n <= x /\ x < 0 => ((-1) * n + (x + n)) % n = x + n
    BY <1>1
  <1>5. 0 * n + x = x /\ 1 * n + (x - n) = x /\ (-1) * n + (x + n) = x
    OBVIOUS
  <1> QED BY <1>2, <1>3, <1>4, <1>5

(***************************************************************************)
(* The constants: at least one group fits in a round, what a round leaves  *)
(* unused is at most a group, and the window, counted in groups, is less   *)
(* than half of a round.                                                   *)
(***************************************************************************)
Gap == Mod - Paws(EncSize)

LEMMA SizeFacts ==
    /\ EncDS \in Nat /\ EncDS >= 1 /\ EncPS \in Nat /\ EncPS >= 1
    /\ EncSize \in Nat /\ EncSize = EncDS + EncPS /\ EncSize >= 2
    /\ MaxLag \in Nat /\ MaxAhead \in Nat /\ MaxShardSets \in Nat
    /\ MaxSamples \in Nat /\ MaxTotal \in Nat /\ MaxGroups \in Nat
  BY ParamsAssumption DEF EncSize

LEMMA RoundFacts ==
    /\ Mod \in Nat /\ Mod >= 1
    /\ Circle \in Nat /\ Circle >= 1
    /\ Paws(EncSize) = Circle * EncSize
    /\ Paws(EncSize) \in Nat /\ Paws(EncSize) >= 1 /\ Paws(EncSize) < Mod
    /\ Gap \in Nat /\ Gap >= 1 /\ Gap <= EncSize
  <1> DEFINE W == (MaxAhead + MaxLag) * EncSize
  <1>1. Mod \in Int /\ Mod - 1 \in Int /\ EncSize \in Nat /\ EncSize >= 1
    BY WindowAssumption, SizeFacts
  <1>2. /\ Circle \in Int /\ (Mod - 1) % EncSize \in 0..(EncSize - 1)
        /\ Mod - 1 = EncSize * Circle + ((Mod - 1) % EncSize)
        /\ Mod - 1 >= 0 => Circle >= 0
    BY <1>1, DivMod DEF Circle
  <1>3. Paws(EncSize) = Circle * EncSize
    BY DEF Paws, Circle
  <1>4. Circle * EncSize \in Int /\ Circle * EncSize = EncSize * Circle
    BY <1>1, <1>2, MulStep
  <1>5. 2 * (W + Mod - Paws(EncSize)) < Mod
    BY WindowAssumption
  <1>6. W \in Int /\ W >= 0
    <2>1. MaxAhead + MaxLag \in Nat
      BY SizeFacts
    <2> HIDE DEF W
    <2>2. \A a, b \in Nat : a * b \in Nat
      OBVIOUS
    <2> QED BY <1>1, <2>1, <2>2 DEF W
  <1> HIDE DEF W
  <1>7. Mod \in Nat /\ Mod >= 1
    BY <1>1, <1>2, <1>3, <1>4, <1>5, <1>6, WindowAssumption
  <1>8. Circle # 0
    <2>1. Circle = 0 => Circle * EncSize = 0
      BY <1>1
    <2> QED BY <1>3, <1>5, <1>6, <1>7, <2>1
  <1> QED BY <1>1, <1>2, <1>3, <1>4, <1>5, <1>6, <1>7, <1>8 DEF Gap

LEMMA EvenMod ==
    ASSUME NEW x \in Int, 2 * x < Mod
    PROVE  2 * x + 2 <= Mod
  BY WindowAssumption

(***************************************************************************)
(* The distances, in groups, at which two packets are ever compared.       *)
(***************************************************************************)
Near(k) == k \in Nat /\ \E n \in {MaxLag, MaxShardSets} : k <= MaxAhead + n

LEMMA NearFits ==
    ASSUME NEW k, Near(k)
    PROVE  /\ k \in Nat /\ k * EncSize \in Nat
           /\ 2 * (k * EncSize + Gap) < Mod
           /\ k < Circle
  <1>1. PICK n \in {MaxLag, MaxShardSets} : k \in Nat /\ k <= MaxAhead + n
    BY DEF Near
  <1>2. MaxAhead + n \in Nat /\ k \in Nat /\ EncSize \in Nat /\ EncSize >= 1
    BY <1>1, SizeFacts
  <1>3. 2 * ((MaxAhead + n) * EncSize + Mod - Paws(EncSize)) < Mod
    BY <1>1, WindowAssumption
  <1>4. k * EncSize <= (MaxAhead + n) * EncSize
    BY <1>1, <1>2, MulMono
  <1>5. k * EncSize \in Nat /\ (MaxAhead + n) * EncSize \in Int
    <2>1. \A a, b \in Nat : a * b \in Nat
      OBVIOUS
    <2> QED BY <1>2, <2>1
  <1>6. 2 * (k * EncSize + Gap) < Mod
    BY <1>3, <1>4, <1>5, RoundFacts DEF Gap
  <1>7. k * EncSize < Circle * EncSize
    BY <1>5, <1>6, RoundFacts DEF Gap
  <1> QED BY <1>2, <1>5, <1>6, <1>7, MulMono, RoundFacts

(***************************************************************************)
(* The signed difference of the first numbers of two groups tells which is *)
(* the later one, and how far it is ahead up to what a wrap leaves unused. *)
(***************************************************************************)
LEMMA DiffIs ==
    ASSUME NEW a \in 0..(Mod - 1), NEW b \in 0..(Mod - 1)
    PROVE  /\ a >= b /\ 2 * (a - b) + 2 <= Mod => Diff(a, b) = a - b
           /\ a < b /\ 2 * (b - a) <= Mod => Diff(a, b) = a - b
           /\ a < b /\ 2 * (Mod - (b - a)) + 2 <= Mod => Diff(a, b) = Mod - (b - a)
           /\ a >= b /\ 2 * (Mod - (a - b)) <= Mod => Diff(a, b) = (a - b) - Mod
  <1>0. Mod \in Nat /\ Mod >= 1 /\ a - b \in Int
    BY RoundFacts
  <1> DEFINE d == (a - b) % Mod
             h == Mod \div 2
  <1>1. a >= b => d = a - b
    BY <1>0, ModSmall
  <1>2. a < b => d = Mod - (b - a)
    <2>1. \A x \in Int : -Mod <= x /\ x < 0 => x % Mod = x + Mod
      BY <1>0, ModSmall
    <2>2. a < b => -Mod <= a - b /\ a - b < 0
      BY <1>0
    <2>3. a < b => d = (a - b) + Mod
      BY <1>0, <2>1, <2>2
    <2> QED BY <1>0, <2>3
  <1>3. h \in Int /\ 2 * h <= Mod /\ Mod <= 2 * h + 1
    BY <1>0
  <1>4. Diff(a, b) = IF d < h THEN d ELSE d - Mod
    BY DEF Diff
  <1> HIDE DEF d, h
  <1>5. d \in Int
    BY <1>1, <1>2, <1>0
  <1> QED BY <1>0, <1>1, <1>2, <1>3, <1>4, <1>5

LEMMA GroupNumber ==
    ASSUME NEW g \in Nat
    PROVE  /\ g % Circle \in 0..(Circle - 1)
           /\ Base(g) \in Nat /\ Base(g) + EncSize <= Paws(EncSize)
           /\ (g + 1) % Circle = IF g % Circle = Circle - 1 THEN 0 ELSE (g % Circle) + 1
           /\ Base(g + 1) = IF Base(g) + EncSize = Paws(EncSize) THEN 0 ELSE Base(g) + EncSize
  <1> DEFINE q == g % Circle
             t == g \div Circle
  <1>0. g \in Int /\ Circle \in Nat /\ Circle >= 1
    BY RoundFacts
  <1>1. q \in 0..(Circle - 1) /\ t \in Int /\ g = Circle * t + q
    BY <1>0, DivMod
  <1> HIDE DEF q, t
  <1>2. Circle * t = t * Circle /\ (t + 1) * Circle = t * Circle + Circle /\ t * Circle \in Int
    BY <1>1, MulStep, RoundFacts
  <1>3. q < Circle - 1 => (g + 1) % Circle = q + 1
    <2>1. q < Circle - 1 => (t * Circle + (q + 1)) % Circle = q + 1
      <3>1. \A p \in Int : 0 <= p /\ p < Circle => (t * Circle + p) % Circle = p
        BY <1>0, <1>1, DivUnique
      <3>2. q < Circle - 1 => q + 1 \in Int /\ 0 <= q + 1 /\ q + 1 < Circle
        BY <1>0, <1>1
      <3> QED BY <3>1, <3>2
    <2>2. g + 1 = t * Circle + (q + 1)
      BY <1>1, <1>2
    <2> QED BY <2>1, <2>2
  <1>4. q = Circle - 1 => (g + 1) % Circle = 0
    <2>1. ((t + 1) * Circle + 0) % Circle = 0
      <3>1. \A r \in Int : (r * Circle + 0) % Circle = 0
        BY <1>0, DivUnique
      <3> QED BY <1>1, <3>1
    <2>2. q = Circle - 1 => g + 1 = (t + 1) * Circle + 0
      BY <1>1, <1>2, RoundFacts
    <2> QED BY <2>1, <2>2
  <1>5. Base(g) = q * EncSize
    BY DEF Base, q
  <1>6. q * EncSize \in Nat
    <2>1. \A a, b \in Nat : a * b \in Nat
      OBVIOUS
    <2> QED BY <1>1, <2>1, SizeFacts
  <1>7. q * EncSize + EncSize <= Circle * EncSize
    BY <1>1, MulMono, SizeFacts, RoundFacts
  <1>8. q = Circle - 1 <=> q * EncSize + EncSize = Circle * EncSize
    <2>1. (q + 1) * EncSize = q * EncSize + EncSize
      BY <1>1, MulStep, SizeFacts
    <2>2. q + 1 < Circle => (q + 1) * EncSize + EncSize <= Circle * EncSize
      BY <1>1, MulMono, SizeFacts, RoundFacts
    <2>3. q + 1 = Circle => (q + 1) * EncSize = Circle * EncSize
      OBVIOUS
    <2> QED BY <1>1, <1>6, <2>1, <2>2, <2>3, SizeFacts, RoundFacts
  <1>9. Base(g + 1) = ((g + 1) % Circle) * EncSize
    BY DEF Base
  <1>10. (q + 1) * EncSize = q * EncSize + EncSize /\ 0 * EncSize = 0
    BY <1>1, MulStep, SizeFacts
  <1>11. q = g % Circle
    BY DEF q
  <1>12. (g + 1) % Circle = IF q = Circle - 1 THEN 0 ELSE q + 1
    BY <1>1, <1>3, <1>4, RoundFacts
  <1>13. Base(g + 1) = IF q = Circle - 1 THEN 0 ELSE q * EncSize + EncSize
    BY <1>9, <1>10, <1>12
  <1> QED BY <1>1, <1>5, <1>6, <1>7, <1>8, <1>11, <1>12, <1>13, RoundFacts

(***************************************************************************)
(* Two groups less than a round apart: their numbers within the round      *)
(* differ by their distance, or by a round less after a wrap.              *)
(***************************************************************************)
LEMMA GroupApart ==
    ASSUME NEW a \in Nat, NEW b \in Nat, a >= b, a - b < Circle
    PROVE  \/ a % Circle = (b % Circle) + (a - b)
           \/ a # b /\ a % Circle = (b % Circle) + (a - b) - Circle
  <1> DEFINE s == a \div Circle
             t == b \div Circle
             q == a % Circle
             r == b % Circle
  <1>0. Circle \in Nat /\ Circle >= 1 /\ a \in Int /\ b \in Int
    BY RoundFacts
  <1>1. /\ s \in Int /\ q \in 0..(Circle - 1) /\ a = Circle * s + q
        /\ t \in Int /\ r \in 0..(Circle - 1) /\ b = Circle * t + r
    BY <1>0, DivMod
  <1> HIDE DEF s, t, q, r
  <1>2. /\ Circle * s = s * Circle /\ Circle * t = t * Circle
        /\ s * Circle \in Int /\ t * Circle \in Int
        /\ (s - t) * Circle = s * Circle - t * Circle
    BY <1>0, <1>1, MulStep
  <1> DEFINE u == s - t
  <1>3. u \in Int /\ u * Circle \in Int /\ a - b = u * Circle + (q - r)
    BY <1>1, <1>2
  <1> HIDE DEF u
  <1>4. u = 0 => u * Circle = 0
    BY <1>0
  <1>5. u = 1 => u * Circle = Circle
    BY <1>0
  <1>6. u >= 2 => 2 * Circle <= u * Circle
    BY <1>0, <1>3, MulMono
  <1>7. u <= -1 => u * Circle <= -Circle
    <2>1. u <= -1 => u * Circle <= (-1) * Circle
      BY <1>0, <1>3, MulMono
    <2> QED BY <1>0, <2>1
  <1>8. u = 0 \/ u = 1
    BY <1>0, <1>1, <1>3, <1>6, <1>7
  <1>9. q = r + (a - b) \/ (a # b /\ q = r + (a - b) - Circle)
    BY <1>0, <1>1, <1>3, <1>4, <1>5, <1>8
  <1> QED BY <1>9 DEF q, r

LEMMA SameGroup ==
    ASSUME NEW a \in Nat, NEW b \in Nat, a - b < Circle, b - a < Circle,
           a % Circle = b % Circle
    PROVE  a = b
  <1>1. Circle \in Nat /\ a % Circle \in Int /\ b % Circle \in Int
    BY GroupNumber, RoundFacts
  <1>0. \A q, d \in Int : q = q + d => d = 0
    OBVIOUS
  <1>a. \A q, d, c \in Int : q = q + d - c => d = c
    OBVIOUS
  <1>2. CASE a >= b
    <2>1. \/ a % Circle = (b % Circle) + (a - b)
          \/ a # b /\ a % Circle = (b % Circle) + (a - b) - Circle
      BY <1>2, GroupApart
    <2>2. a - b = 0 \/ a - b = Circle
      BY <1>0, <1>a, <1>1, <2>1
    <2> QED BY <1>1, <2>2
  <1>3. CASE b >= a
    <2>1. \/ b % Circle = (a % Circle) + (b - a)
          \/ b # a /\ b % Circle = (a % Circle) + (b - a) - Circle
      BY <1>3, GroupApart
    <2>2. b - a = 0 \/ b - a = Circle
      BY <1>0, <1>a, <1>1, <2>1
    <2> QED BY <1>1, <2>2
  <1> QED BY <1>2, <1>3

LEMMA GroupDiff ==
    ASSUME NEW a \in Nat, NEW b \in Nat, a >= b, Near(a - b)
    PROVE  LET k == (a - b) * EncSize
           IN  /\ k \in Nat
               /\ \/ Diff(Base(a), Base(b)) = k
                  \/ a # b /\ Diff(Base(a), Base(b)) = k + Gap
               /\ \/ Diff(Base(b), Base(a)) = -k
                  \/ a # b /\ Diff(Base(b), Base(a)) = -(k + Gap)
  <1> DEFINE k == (a - b) * EncSize
             q == a % Circle
             r == b % Circle
             x == Base(a)
             y == Base(b)
  <1>1. k \in Nat /\ 2 * (k + Gap) < Mod /\ a - b < Circle
    BY NearFits
  <1>2. q \in Int /\ r \in Int /\ x = q * EncSize /\ y = r * EncSize
    BY GroupNumber DEF Base
  <1>3. /\ x \in Nat /\ x < Paws(EncSize) /\ y \in Nat /\ y < Paws(EncSize)
    BY GroupNumber, SizeFacts, RoundFacts
  <1>4. q = r + (a - b) \/ (a # b /\ q = r + (a - b) - Circle)
    BY <1>1, GroupApart
  <1>5. q - r = a - b \/ (a # b /\ (a - b) - (q - r) = Circle)
    <2>1. \A i, j, m, c \in Int : /\ i = j + m => i - j = m
                                  /\ i = j + m - c => m - (i - j) = c
      OBVIOUS
    <2>2. Circle \in Int /\ a - b \in Int
      BY RoundFacts
    <2> QED BY <1>2, <1>4, <2>1, <2>2
  <1>6. (q - r) * EncSize = x - y
    BY <1>2, MulStep, SizeFacts
  <1>7. ((a - b) - (q - r)) * EncSize = k - (q - r) * EncSize
    <2>1. a - b \in Int /\ q - r \in Int /\ EncSize \in Int
      BY <1>2, SizeFacts
    <2> QED BY <2>1, MulStep
  <1> HIDE DEF k, q, r, x, y
  <1>8. x - y = k \/ (a # b /\ k - (x - y) = Paws(EncSize))
    BY <1>5, <1>6, <1>7, RoundFacts DEF k
  <1>9. /\ Gap \in Nat /\ Gap >= 1 /\ Gap = Mod - Paws(EncSize) /\ Mod \in Nat
        /\ Paws(EncSize) \in Nat /\ Paws(EncSize) < Mod
    BY RoundFacts DEF Gap
  <1>10. x \in 0..(Mod - 1) /\ y \in 0..(Mod - 1)
    BY <1>3, <1>9
  <1>11. CASE x - y = k
    <2>1. Diff(x, y) = k
      BY <1>1, <1>9, <1>10, <1>11, DiffIs
    <2>2. Diff(y, x) = -k
      <3>1. CASE k = 0
        BY <1>1, <1>9, <1>10, <1>11, <3>1, DiffIs
      <3>2. CASE k # 0
        BY <1>1, <1>9, <1>10, <1>11, <3>2, DiffIs
      <3> QED BY <3>1, <3>2
    <2> QED BY <1>1, <2>1, <2>2 DEF k, x, y
  <1>12. CASE a # b /\ k - (x - y) = Paws(EncSize)
    <2>1. y - x = Mod - (k + Gap) /\ y > x
      BY <1>1, <1>9, <1>10, <1>12
    <2>2. Diff(x, y) = k + Gap
      <3>1. 2 * (Mod - (y - x)) + 2 <= Mod => Diff(x, y) = Mod - (y - x)
        BY <1>10, <2>1, DiffIs
      <3>2. Mod - (y - x) = k + Gap
        BY <1>1, <1>9, <1>10, <2>1
      <3>3. k + Gap \in Int
        BY <1>1, <1>9
      <3>4. 2 * (k + Gap) + 2 <= Mod
        BY <1>1, <3>3, EvenMod
      <3> QED BY <3>1, <3>2, <3>4
    <2>3. Diff(y, x) = -(k + Gap)
      BY <1>1, <1>9, <1>10, <2>1, DiffIs
    <2> QED BY <1>1, <1>12, <2>2, <2>3 DEF k, x, y
  <1> QED BY <1>8, <1>11, <1>12

-----------------------------------------------------------------------------
(***************************************************************************)
(* What travels: every packet carries the number and the type that belong  *)
(* to its position in its group, none is far behind the group that is sent *)
(* now or far ahead of what has arrived.                                   *)
(***************************************************************************)
ShardOK(s) ==
    /\ s \in [seqid : Nat, flag : {"data", "parity"}, grp : Nat]
    /\ s.seqid = Base(s.grp) + (s.seqid % EncSize)
    /\ s.flag = IF s.seqid % EncSize < EncDS THEN "data" ELSE "parity"

EncInv ==
    /\ enc \in [next : Nat, count : 0..(EncDS - 1), grp : 0..MaxGroups]
    /\ enc.next = Base(enc.grp) + enc.count

NetInv ==
    /\ arrived \in Int /\ arrived >= -1 /\ arrived <= enc.grp
    /\ \A s \in net : /\ ShardOK(s)
                      /\ s.grp <= enc.grp /\ s.grp + MaxLag >= enc.grp
                      /\ s.grp <= arrived + MaxAhead

LEMMA PositionFacts ==
    ASSUME NEW g \in Nat, NEW p \in Nat, p < EncSize
    PROVE  /\ Base(g) + p \in Nat /\ Base(g) + p < Paws(EncSize)
           /\ (Base(g) + p) % EncSize = p
           /\ (Base(g) + p) \div EncSize = g % Circle
  <1>1. g % Circle \in Int /\ Base(g) \in Nat /\ Base(g) + EncSize <= Paws(EncSize)
    BY GroupNumber
  <1>2. EncSize \in Nat /\ EncSize >= 1 /\ Paws(EncSize) \in Nat
    BY SizeFacts, RoundFacts
  <1>3. /\ ((g % Circle) * EncSize + p) % EncSize = p
        /\ ((g % Circle) * EncSize + p) \div EncSize = g % Circle
    <2>1. \A q \in Int : /\ (q * EncSize + p) % EncSize = p
                         /\ (q * EncSize + p) \div EncSize = q
      BY <1>2, DivUnique
    <2> QED BY <1>1, <2>1
  <1>4. (Base(g) + p) % EncSize = p /\ (Base(g) + p) \div EncSize = g % Circle
    BY <1>3 DEF Base
  <1> QED BY <1>1, <1>2, <1>4

LEMMA ShardFacts ==
    ASSUME NEW s, ShardOK(s)
    PROVE  /\ s.grp \in Nat /\ s.seqid \in Nat /\ s.seqid < Paws(EncSize)
           /\ s.seqid % EncSize \in Nat /\ s.seqid % EncSize < EncSize
           /\ s.seqid \div EncSize = s.grp % Circle
           /\ (s.flag = "data") = (s.seqid % EncSize < EncDS)
  <1> DEFINE p == s.seqid % EncSize
  <1>1. s.grp \in Nat /\ s.seqid \in Nat /\ s.seqid = Base(s.grp) + p
    BY DEF ShardOK
  <1>2. p \in Nat /\ p < EncSize
    <2>1. s.seqid \in Int /\ EncSize \in Nat /\ EncSize >= 1
      BY <1>1, SizeFacts
    <2>2. s.seqid % EncSize \in 0..(EncSize - 1)
      BY <2>1, DivMod
    <2> QED BY <2>1, <2>2
  <1>3. (s.flag = "data") = (p < EncDS)
    BY DEF ShardOK
  <1> HIDE DEF p
  <1>4. Base(s.grp) + p < Paws(EncSize) /\ (Base(s.grp) + p) \div EncSize = s.grp % Circle
    BY <1>1, <1>2, PositionFacts
  <1> QED BY <1>1, <1>2, <1>3, <1>4 DEF p

LEMMA ShardMade ==
    ASSUME NEW g \in Nat, NEW p \in Nat, p < EncSize
    PROVE  LET s == Shard(Base(g) + p, IF p < EncDS THEN "data" ELSE "parity", g)
           IN  ShardOK(s) /\ s.grp = g
  <1>1. Base(g) + p \in Nat /\ (Base(g) + p) % EncSize = p
    BY PositionFacts
  <1> QED BY <1>1 DEF Shard, ShardOK

LEMMA SameShard ==
    ASSUME NEW s, ShardOK(s), NEW t, ShardOK(t), s.grp = t.grp, s.seqid = t.seqid
    PROVE  s = t
  BY DEF ShardOK

LEMMA EncodeStep ==
    ASSUME EncInv, NetInv, Encode
    PROVE  EncInv' /\ NetInv'
  <1> DEFINE g == enc.grp
             c == enc.count
             full == c + 1 = EncDS
  <1>1. /\ g \in Nat /\ g < MaxGroups /\ c \in Nat /\ c + 1 <= EncDS
        /\ enc.next = Base(g) + c /\ g <= arrived + MaxAhead /\ arrived \in Int
    BY SizeFacts DEF EncInv, NetInv, Encode
  <1>2. PICK parity \in IF full THEN {{}, Parities} ELSE {{}} :
          /\ enc' = IF full
                    THEN [next |-> Advance(Step(parity)), count |-> 0, grp |-> enc.grp + 1]
                    ELSE [enc EXCEPT !.next = Advance(Step(parity)), !.count = @ + 1]
          /\ \E sent \in SUBSET (parity \cup {Shard(enc.next, "data", enc.grp)}) :
               net' = Recent(net \cup sent, enc'.grp)
    BY DEF Encode
  <1>3. PICK sent \in SUBSET (parity \cup {Shard(enc.next, "data", enc.grp)}) :
          net' = Recent(net \cup sent, enc'.grp)
    BY <1>2
  <1>4. /\ Base(g) \in Nat /\ Base(g) + EncSize <= Paws(EncSize)
        /\ Base(g + 1) = IF Base(g) + EncSize = Paws(EncSize) THEN 0 ELSE Base(g) + EncSize
    BY <1>1, GroupNumber
  <1>5. \A n \in Nat : c + n < EncSize => Advance(n) = Base(g) + (c + n)
    <2>1. SUFFICES ASSUME NEW n \in Nat, c + n < EncSize
                   PROVE  Advance(n) = Base(g) + (c + n)
      OBVIOUS
    <2>2. Advance(n) = (enc.next + n) % Paws(EncSize)
      BY DEF Advance
    <2>3. enc.next + n = Base(g) + (c + n) /\ Base(g) + (c + n) < Paws(EncSize)
      BY <1>1, <1>4, <2>1, SizeFacts, RoundFacts
    <2>4. \A x \in Int : 0 <= x /\ x < Paws(EncSize) => x % Paws(EncSize) = x
      BY RoundFacts, ModSmall
    <2> QED BY <1>1, <1>4, <2>2, <2>3, <2>4
  <1>6. full => Advance(1 + EncPS) = Base(g + 1)
    <2>1. Advance(1 + EncPS) = (enc.next + (1 + EncPS)) % Paws(EncSize)
      BY DEF Advance
    <2>2. full => enc.next + (1 + EncPS) = Base(g) + EncSize
      BY <1>1, <1>4, SizeFacts
    <2>3. \A x \in Int : /\ 0 <= x /\ x < Paws(EncSize) => x % Paws(EncSize) = x
                         /\ x = Paws(EncSize) => x % Paws(EncSize) = 0
      <3>1. Paws(EncSize) \in Nat /\ Paws(EncSize) >= 1
        BY RoundFacts
      <3> QED BY <3>1, ModSmall
    <2>4. Base(g) + EncSize \in Int /\ 0 <= Base(g) + EncSize
      BY <1>4, SizeFacts
    <2>5. (Base(g) + EncSize) % Paws(EncSize) = Base(g + 1)
      BY <1>4, <2>3, <2>4, RoundFacts
    <2> QED BY <2>1, <2>2, <2>5
  <1>7. ASSUME NEW s \in sent PROVE ShardOK(s) /\ s.grp = g
    <2>1. CASE s = Shard(enc.next, "data", enc.grp)
      BY <1>1, <2>1, ShardMade, SizeFacts
    <2>2. CASE full /\ s \in Parities
      <3>1. PICK i \in 1..EncPS : s = Shard(Advance(i), "parity", g)
        BY <2>2 DEF Parities
      <3>2. c + i \in Nat /\ c + i < EncSize /\ ~(c + i < EncDS)
        BY <1>1, <2>2, <3>1, SizeFacts
      <3>3. s = Shard(Base(g) + (c + i), "parity", g)
        BY <1>5, <3>1, <3>2
      <3> QED BY <1>1, <3>2, <3>3, ShardMade
    <2> QED BY <1>2, <1>3, <2>1, <2>2
  <1>8. EncInv' /\ enc'.grp \in Nat /\ enc'.grp >= g
    <2>1. CASE full
      <3>1. enc' = [next |-> Base(g + 1), count |-> 0, grp |-> g + 1]
        BY <1>2, <1>6, <2>1 DEF Step
      <3>2. Base(g + 1) \in Nat
        BY <1>4, SizeFacts
      <3> QED BY <1>1, <3>1, <3>2, SizeFacts DEF EncInv
    <2>2. CASE ~full
      <3>1. enc' = [enc EXCEPT !.next = Advance(1), !.count = @ + 1]
        BY <1>2, <2>2 DEF Step
      <3>2. c + 1 \in Nat /\ c + 1 < EncDS /\ Advance(1) = Base(g) + (c + 1)
        BY <1>1, <1>5, <2>2, SizeFacts
      <3>3. enc' \in [next : Nat, count : 0..(EncDS - 1), grp : 0..MaxGroups]
        <4>1. c + 1 \in 0..(EncDS - 1) /\ Advance(1) \in Nat
          BY <1>4, <3>2, SizeFacts
        <4>2. enc \in [next : Nat, count : 0..(EncDS - 1), grp : 0..MaxGroups]
          BY DEF EncInv
        <4> HIDE DEF g, full
        <4> QED BY <3>1, <4>1, <4>2
      <3>4. enc'.next = Base(g) + (c + 1) /\ enc'.count = c + 1 /\ enc'.grp = g
        BY <3>1, <3>2 DEF EncInv
      <3> QED BY <1>1, <3>3, <3>4 DEF EncInv
    <2> QED BY <2>1, <2>2
  <1>9. NetInv'
    <2>1. arrived' = arrived
      BY DEF Encode
    <2>2. arrived' \in Int /\ arrived' >= -1 /\ arrived' <= enc'.grp
      BY <1>1, <1>8, <2>1 DEF NetInv
    <2>3. ASSUME NEW s \in net'
          PROVE  /\ ShardOK(s) /\ s.grp <= enc'.grp /\ s.grp + MaxLag >= enc'.grp
                 /\ s.grp <= arrived' + MaxAhead
      <3>1. s \in net \/ s \in sent
        BY <1>3 DEF Recent
      <3>2. s.grp + MaxLag >= enc'.grp
        BY <1>3 DEF Recent
      <3>3. CASE s \in net
        <4>1. ShardOK(s) /\ s.grp <= g /\ s.grp <= arrived + MaxAhead /\ s.grp \in Nat
          BY <3>3, ShardFacts DEF NetInv
        <4> QED BY <1>1, <1>8, <2>1, <3>2, <4>1
      <3>4. CASE s \in sent
        BY <1>1, <1>7, <1>8, <2>1, <3>2, <3>4
      <3> QED BY <3>1, <3>3, <3>4
    <2> QED BY <2>2, <2>3 DEF NetInv
  <1> QED BY <1>8, <1>9

-----------------------------------------------------------------------------
(***************************************************************************)
(* The tuner: its samples are the types and numbers of real packets, and a *)
(* complete pulse of them is as long as the encoder makes it.              *)
(***************************************************************************)
Pulses ==
    {x \in [bit : BOOLEAN, seq : Nat] :
        x.seq < Paws(EncSize) /\ x.bit = (x.seq % EncSize < EncDS)}

SampleInv == samples \in Seq(Pulses) /\ Len(samples) <= MaxSamples

LEMMA SampleStep ==
    ASSUME SampleInv, NEW s, ShardOK(s)
    PROVE  Sample(s) \in Seq(Pulses) /\ Len(Sample(s)) <= MaxSamples
  <1> DEFINE x == [bit |-> s.flag = "data", seq |-> s.seqid]
             pulses == Append(samples, x)
             from == IF Len(pulses) > MaxSamples THEN 2 ELSE 1
  <1>1. x \in Pulses
    <2>1. /\ s.seqid \in Nat /\ s.seqid < Paws(EncSize)
          /\ (s.flag = "data") = (s.seqid % EncSize < EncDS)
      BY ShardFacts
    <2>2. x \in [bit : BOOLEAN, seq : Nat] /\ x.seq = s.seqid /\ x.bit = (s.flag = "data")
      BY <2>1
    <2> HIDE DEF x
    <2> QED BY <2>1, <2>2 DEF Pulses
  <1> HIDE DEF x
  <1>2. /\ pulses \in Seq(Pulses) /\ Len(pulses) = Len(samples) + 1
        /\ Len(samples) \in Nat /\ Len(samples) <= MaxSamples /\ MaxSamples \in Nat
    BY <1>1, SizeFacts DEF SampleInv
  <1>3. Sample(s) = SubSeq(pulses, from, Len(pulses))
    BY DEF Sample, x
  <1> HIDE DEF pulses
  <1>4. SubSeq(pulses, 2, Len(pulses)) \in Seq(Pulses)
        /\ Len(SubSeq(pulses, 2, Len(pulses))) = Len(pulses) - 1
    BY <1>2
  <1>5. SubSeq(pulses, 1, Len(pulses)) \in Seq(Pulses)
        /\ Len(SubSeq(pulses, 1, Len(pulses))) = Len(pulses)
    BY <1>2
  <1> QED BY <1>2, <1>3, <1>4, <1>5

LEMMA Ahead ==
    ASSUME NEW x \in Nat, x < Paws(EncSize), NEW k \in Nat
    PROVE  LET p == x % EncSize
           IN  /\ p \in Nat /\ p < EncSize
               /\ p + k < EncSize => x + k < Paws(EncSize) /\ (x + k) % EncSize = p + k
               /\ p + k = EncSize => x + k <= Paws(EncSize) /\ (x + k) % EncSize = 0
  <1> DEFINE p == x % EncSize
             q == x \div EncSize
  <1>0. /\ x \in Int /\ EncSize \in Nat /\ EncSize >= 1 /\ Circle \in Nat
        /\ Paws(EncSize) = Circle * EncSize /\ Paws(EncSize) \in Nat
    BY SizeFacts, RoundFacts
  <1>1. p \in 0..(EncSize - 1) /\ q \in Int /\ x = EncSize * q + p
    BY <1>0, DivMod
  <1> HIDE DEF p, q
  <1>2. /\ EncSize * q = q * EncSize /\ q * EncSize \in Int
        /\ (q + 1) * EncSize = q * EncSize + EncSize
    BY <1>0, <1>1, MulStep
  <1>3. q * EncSize < Circle * EncSize
    BY <1>0, <1>1, <1>2
  <1>4. q < Circle
    BY <1>0, <1>1, <1>3, MulMono
  <1>5. q * EncSize + EncSize <= Paws(EncSize)
    BY <1>0, <1>1, <1>4, MulMono
  <1>6. ASSUME p + k < EncSize PROVE x + k < Paws(EncSize) /\ (x + k) % EncSize = p + k
    <2>1. \A r \in Int : 0 <= r /\ r < EncSize => (q * EncSize + r) % EncSize = r
      BY <1>0, <1>1, DivUnique
    <2>2. p + k \in Int /\ 0 <= p + k /\ x + k = q * EncSize + (p + k)
      BY <1>1, <1>2
    <2> QED BY <1>0, <1>1, <1>2, <1>5, <1>6, <2>1, <2>2
  <1>7. ASSUME p + k = EncSize PROVE x + k <= Paws(EncSize) /\ (x + k) % EncSize = 0
    <2>1. \A r \in Int : (r * EncSize + 0) % EncSize = 0
      BY <1>0, DivUnique
    <2>2. q + 1 \in Int /\ x + k = (q + 1) * EncSize + 0 /\ x + k = q * EncSize + EncSize
      BY <1>0, <1>1, <1>2, <1>7
    <2> QED BY <1>5, <2>1, <2>2
  <1> QED BY <1>0, <1>1, <1>6, <1>7 DEF p

LEMMA SeenAt ==
    ASSUME NEW x \in Int, -1 <= x, x < Mod, NEW b, At(x, b) \in Pulses
    PROVE  x \in Nat /\ x < Paws(EncSize) /\ b = (x % EncSize < EncDS)
  <1>1. /\ x % Mod < Paws(EncSize) /\ b = ((x % Mod) % EncSize < EncDS)
    BY DEF At, Pulses
  <1>2. Mod \in Nat /\ Mod >= 1 /\ Paws(EncSize) \in Nat /\ Paws(EncSize) < Mod
    BY RoundFacts
  <1>3. x = -1 => x % Mod = Mod - 1
    <2>1. \A y \in Int : -Mod <= y /\ y < 0 => y % Mod = y + Mod
      BY <1>2, ModSmall
    <2> QED BY <1>2, <2>1
  <1>4. x >= 0 => x % Mod = x
    BY <1>2, ModSmall
  <1> QED BY <1>1, <1>2, <1>3, <1>4

LEMMA PulseLength ==
    ASSUME NEW set \in SUBSET Pulses, NEW bit \in BOOLEAN,
           NEW l \in Nat, l < Paws(EncSize), NEW n \in Nat, n >= 1,
           CompletePulse(set, bit, l, n)
    PROVE  n = IF bit THEN EncDS ELSE EncPS
  <1> DEFINE D(x) == x % EncSize < EncDS
             p == l % EncSize
  <1>0. /\ EncDS \in Nat /\ EncDS >= 1 /\ EncPS \in Nat /\ EncPS >= 1
        /\ EncSize = EncDS + EncPS
        /\ Mod \in Nat /\ Paws(EncSize) \in Nat /\ Paws(EncSize) < Mod
    BY SizeFacts, RoundFacts
  <1>1. l - 1 \in Nat /\ l - 1 < Paws(EncSize) /\ (~bit) = D(l - 1)
    <2>1. At(l - 1, ~bit) \in Pulses
      BY DEF CompletePulse
    <2>2. l - 1 \in Int /\ -1 <= l - 1 /\ l - 1 < Mod
      BY <1>0
    <2> QED BY <2>1, <2>2, SeenAt
  <1>2. \A i \in Nat : i < n /\ l + i < Mod => bit = D(l + i)
    <2>1. SUFFICES ASSUME NEW i \in Nat, i < n, l + i < Mod PROVE bit = D(l + i)
      OBVIOUS
    <2>2. At(l + i, bit) \in Pulses
      BY <2>1 DEF CompletePulse
    <2>3. l + i \in Int /\ -1 <= l + i
      OBVIOUS
    <2> QED BY <2>1, <2>2, <2>3, SeenAt
  <1>3. l + n < Mod => (~bit) = D(l + n)
    <2>1. SUFFICES ASSUME l + n < Mod PROVE (~bit) = D(l + n)
      OBVIOUS
    <2>2. At(l + n, ~bit) \in Pulses
      BY DEF CompletePulse
    <2>3. l + n \in Int /\ -1 <= l + n
      OBVIOUS
    <2> QED BY <2>1, <2>2, <2>3, SeenAt
  <1>4. bit = D(l)
    <2>1. l + 0 = l /\ l < Mod
      BY <1>0
    <2>2. bit = D(l + 0)
      BY <1>2, <2>1
    <2> QED BY <2>1, <2>2
  <1>5. LET r == (l - 1) % EncSize
        IN  /\ r \in Nat /\ r < EncSize
            /\ r + 1 < EncSize => p = r + 1
            /\ r + 1 = EncSize => p = 0
    <2>1. (l - 1) + 1 = l
      OBVIOUS
    <2>2. LET r == (l - 1) % EncSize
          IN  /\ r \in Nat /\ r < EncSize
              /\ r + 1 < EncSize => ((l - 1) + 1) % EncSize = r + 1
              /\ r + 1 = EncSize => ((l - 1) + 1) % EncSize = 0
      BY <1>1, Ahead
    <2> QED BY <2>1, <2>2
  <1>6. p \in Nat /\ p < EncSize
    BY Ahead
  <1>7. \A k \in Nat : /\ p + k < EncSize => l + k < Mod /\ (l + k) % EncSize = p + k
                       /\ p + k = EncSize => l + k < Mod /\ (l + k) % EncSize = 0
    <2>1. SUFFICES ASSUME NEW k \in Nat
                   PROVE  /\ p + k < EncSize => l + k < Mod /\ (l + k) % EncSize = p + k
                          /\ p + k = EncSize => l + k < Mod /\ (l + k) % EncSize = 0
      OBVIOUS
    <2>2. /\ p + k < EncSize => l + k < Paws(EncSize) /\ (l + k) % EncSize = p + k
          /\ p + k = EncSize => l + k <= Paws(EncSize) /\ (l + k) % EncSize = 0
      BY Ahead
    <2> QED BY <1>0, <2>2
  <1>8. /\ bit => /\ ~D(l - 1) /\ D(l)
                  /\ \A i \in Nat : i < n /\ l + i < Mod => D(l + i)
                  /\ l + n < Mod => ~D(l + n)
        /\ ~bit => /\ D(l - 1) /\ ~D(l)
                   /\ \A i \in Nat : i < n /\ l + i < Mod => ~D(l + i)
                   /\ l + n < Mod => D(l + n)
    <2>1. CASE bit = TRUE
      BY <1>1, <1>2, <1>3, <1>4, <2>1
    <2>2. CASE bit = FALSE
      BY <1>1, <1>2, <1>3, <1>4, <2>2
    <2> QED BY <2>1, <2>2
  <1> DEFINE r == (l - 1) % EncSize
  <1>9. r \in Nat /\ r < EncSize /\ (r + 1 < EncSize => p = r + 1) /\ (r + 1 = EncSize => p = 0)
    BY <1>5
  <1>10. /\ bit => ~(r < EncDS) /\ p < EncDS
         /\ ~bit => r < EncDS /\ ~(p < EncDS)
    BY <1>8
  <1> HIDE DEF p, r
  <1>11. CASE bit
    <2>1. p = 0
      BY <1>0, <1>6, <1>9, <1>10, <1>11
    <2>2. ~(n > EncDS)
      <3>1. l + EncDS < Mod /\ (l + EncDS) % EncSize = EncDS
        BY <1>0, <1>7, <2>1
      <3>2. n > EncDS => (l + EncDS) % EncSize < EncDS
        BY <1>0, <1>8, <1>11, <3>1
      <3> QED BY <1>0, <3>1, <3>2
    <2>3. ~(n < EncDS)
      <3>1. n < EncDS => l + n < Mod /\ (l + n) % EncSize = n
        BY <1>0, <1>7, <2>1
      <3>2. n < EncDS => ~((l + n) % EncSize < EncDS)
        BY <1>8, <1>11, <3>1
      <3> QED BY <1>0, <3>1, <3>2
    <2> QED BY <1>0, <1>11, <2>2, <2>3
  <1>12. CASE ~bit
    <2>1. p = EncDS
      BY <1>0, <1>6, <1>9, <1>10, <1>12
    <2>2. ~(n > EncPS)
      <3>1. l + EncPS < Mod /\ (l + EncPS) % EncSize = 0
        BY <1>0, <1>7, <2>1
      <3>2. n > EncPS => ~((l + EncPS) % EncSize < EncDS)
        BY <1>0, <1>8, <1>12, <3>1
      <3> QED BY <1>0, <3>1, <3>2
    <2>3. ~(n < EncPS)
      <3>1. n < EncPS => l + n < Mod /\ (l + n) % EncSize = EncDS + n
        BY <1>0, <1>7, <2>1
      <3>2. n < EncPS => (l + n) % EncSize < EncDS
        BY <1>8, <1>12, <3>1
      <3> QED BY <1>0, <3>1, <3>2
    <2> QED BY <1>0, <1>12, <2>2, <2>3
  <1> QED BY <1>11, <1>12

LEMMA PeriodRight ==
    ASSUME NEW pulses \in Seq(Pulses), NEW bit \in BOOLEAN
    PROVE  FindPeriod(pulses, bit) \in {-1, IF bit THEN EncDS ELSE EncPS}
  <1> DEFINE set == Unique(pulses)
             found == {x \in {p.seq : p \in set} \X (1..Cardinality(set)) :
                          CompletePulse(set, bit, x[1], x[2])}
             x == CHOOSE x \in found : x \in FirstOf(found) \/ FirstOf(found) = {}
  <1>1. set \in SUBSET Pulses
    BY DEF Unique, ToSet
  <1>2. Cardinality(set) \in Nat
    <2>1. Len(pulses) \in Nat /\ DOMAIN pulses = 1..Len(pulses)
      OBVIOUS
    <2>2. IsFiniteSet(1..Len(pulses))
      BY <2>1, FS_Interval
    <2>3. IsFiniteSet({pulses[i] : i \in 1..Len(pulses)})
      <3> DEFINE I == 1..Len(pulses)
                 R == {pulses[i] : i \in I}
      <3>1. pulses \in Surjection(I, R)
        BY <2>1 DEF Surjection
      <3> HIDE DEF R
      <3> QED BY <2>2, <3>1, FS_Surjection DEF R
    <2>4. set \subseteq {pulses[i] : i \in 1..Len(pulses)}
      BY <2>1 DEF Unique, ToSet
    <2>5. IsFiniteSet(set)
      BY <2>3, <2>4, FS_Subset
    <2> QED BY <2>5, FS_CardinalityType
  <1>3. FindPeriod(pulses, bit) = IF Len(pulses) < 3 \/ found = {} THEN -1 ELSE x[2]
    BY DEF FindPeriod
  <1>4. ASSUME found # {} PROVE x[2] = IF bit THEN EncDS ELSE EncPS
    <2>1. x \in found
      <3>1. \E y \in found : y \in FirstOf(found) \/ FirstOf(found) = {}
        <4> HIDE DEF found
        <4> QED BY <1>4 DEF FirstOf
      <3> HIDE DEF found
      <3> QED BY <3>1
    <2> HIDE DEF x, set
    <2>2. /\ x[1] \in {p.seq : p \in set} /\ x[2] \in 1..Cardinality(set)
          /\ CompletePulse(set, bit, x[1], x[2])
      BY <2>1
    <2>3. x[1] \in Nat /\ x[1] < Paws(EncSize)
      BY <1>1, <2>2 DEF Pulses
    <2>4. x[2] \in Nat /\ x[2] >= 1
      BY <1>2, <2>2
    <2> QED BY <1>1, <2>2, <2>3, <2>4, PulseLength
  <1> QED BY <1>3, <1>4

-----------------------------------------------------------------------------
(***************************************************************************)
(* The decoder as a record: what its updates change and what they keep.    *)
(***************************************************************************)
Decoder(ds, ps, sets, newest, tune) ==
    [ds |-> ds, ps |-> ps, sets |-> sets, newest |-> newest, tune |-> tune]

Shape(d) == d = Decoder(d.ds, d.ps, d.sets, d.newest, d.tune)

LEMMA Fields ==
    ASSUME NEW ds, NEW ps, NEW sets, NEW newest, NEW tune
    PROVE  LET d == Decoder(ds, ps, sets, newest, tune)
           IN  /\ Shape(d) /\ d.ds = ds /\ d.ps = ps /\ d.sets = sets
               /\ d.newest = newest /\ d.tune = tune
  BY DEF Decoder, Shape

LEMMA Updates ==
    ASSUME NEW d, Shape(d), NEW x
    PROVE  /\ [d EXCEPT !.sets = x] = Decoder(d.ds, d.ps, x, d.newest, d.tune)
           /\ [d EXCEPT !.newest = x] = Decoder(d.ds, d.ps, d.sets, x, d.tune)
           /\ [d EXCEPT !.tune = x] = Decoder(d.ds, d.ps, d.sets, d.newest, x)
  <1>1. d = [ds |-> d.ds, ps |-> d.ps, sets |-> d.sets, newest |-> d.newest, tune |-> d.tune]
    BY DEF Shape, Decoder
  <1> DEFINE a == d.ds
             b == d.ps
             c == d.sets
             e == d.newest
             f == d.tune
  <1>2. d = [ds |-> a, ps |-> b, sets |-> c, newest |-> e, tune |-> f]
    BY <1>1
  <1> HIDE DEF a, b, c, e, f
  <1>3. /\ [d EXCEPT !.sets = x] = Decoder(a, b, x, e, f)
        /\ [d EXCEPT !.newest = x] = Decoder(a, b, c, x, f)
        /\ [d EXCEPT !.tune = x] = Decoder(a, b, c, e, x)
    BY <1>2 DEF Decoder
  <1> QED BY <1>3 DEF a, b, c, e, f

(***************************************************************************)
(* What decode does with a packet it stores or completes a set with.       *)
(***************************************************************************)
Stored(d, id, shards) == discardShards(Newest(With(d, id, shards), id))

LEMMA StoredIs ==
    ASSUME NEW d, Shape(d), NEW id, NEW shards
    PROVE  LET e == Stored(d, id, shards)
           IN  /\ Shape(e) /\ e.ds = d.ds /\ e.ps = d.ps /\ e.tune = d.tune
               /\ e.newest = IF Diff(id * Size(d), d.newest * Size(d)) > 0
                             THEN id ELSE d.newest
               /\ DOMAIN e.sets = {i \in DOMAIN d.sets \cup {id} : ~TooOld(e, i)}
               /\ \A i \in DOMAIN e.sets :
                      e.sets[i] = IF i = id THEN shards ELSE d.sets[i]
  <1> DEFINE m == [i \in DOMAIN d.sets \cup {id} |-> IF i = id THEN shards ELSE d.sets[i]]
             w == With(d, id, shards)
             n == Newest(w, id)
             e == discardShards(n)
             k == [i \in {j \in DOMAIN n.sets : ~TooOld(n, j)} |-> n.sets[i]]
  <1>1. w = Decoder(d.ds, d.ps, m, d.newest, d.tune)
    <2>1. w = [d EXCEPT !.sets = m]
      BY DEF With
    <2> HIDE DEF w, m
    <2> QED BY <2>1, Updates
  <1> HIDE DEF m
  <1>2. /\ Shape(w) /\ w.ds = d.ds /\ w.ps = d.ps /\ w.sets = m
        /\ w.newest = d.newest /\ w.tune = d.tune
    <2> HIDE DEF w
    <2> QED BY <1>1, Fields
  <1>3. n = IF Diff(id * Size(w), w.newest * Size(w)) > 0 THEN [w EXCEPT !.newest = id] ELSE w
    <2> HIDE DEF w
    <2> QED BY DEF Newest
  <1> HIDE DEF w
  <1>4. Size(w) = Size(d)
    BY <1>2 DEF Size
  <1>5. /\ Shape(n) /\ n.ds = d.ds /\ n.ps = d.ps /\ n.sets = m /\ n.tune = d.tune
        /\ n.newest = IF Diff(id * Size(d), d.newest * Size(d)) > 0 THEN id ELSE d.newest
    <2> HIDE DEF n
    <2>1. CASE Diff(id * Size(w), w.newest * Size(w)) > 0
      <3>1. n = Decoder(w.ds, w.ps, w.sets, id, w.tune)
        BY <1>2, <1>3, <2>1, Updates
      <3>2. /\ Shape(n) /\ n.ds = w.ds /\ n.ps = w.ps /\ n.sets = w.sets
            /\ n.newest = id /\ n.tune = w.tune
        BY <3>1, Fields
      <3> QED BY <1>2, <1>4, <2>1, <3>2
    <2>2. CASE ~(Diff(id * Size(w), w.newest * Size(w)) > 0)
      BY <1>2, <1>3, <1>4, <2>2
    <2> QED BY <2>1, <2>2
  <1> HIDE DEF n
  <1>6. e = Decoder(n.ds, n.ps, k, n.newest, n.tune)
    <2>1. e = [n EXCEPT !.sets = k]
      BY DEF discardShards
    <2> HIDE DEF e, k
    <2> QED BY <1>5, <2>1, Updates
  <1> HIDE DEF e
  <1>7. /\ Shape(e) /\ e.ds = n.ds /\ e.ps = n.ps /\ e.sets = k
        /\ e.newest = n.newest /\ e.tune = n.tune
    <2> HIDE DEF k
    <2> QED BY <1>6, Fields
  <1>8. \A i : TooOld(e, i) <=> TooOld(n, i)
    BY <1>7 DEF TooOld, Size
  <1>9. DOMAIN k = {i \in DOMAIN d.sets \cup {id} : ~TooOld(e, i)}
    <2>1. DOMAIN k = {j \in DOMAIN m : ~TooOld(n, j)}
      BY <1>5
    <2>2. DOMAIN m = DOMAIN d.sets \cup {id}
      BY DEF m
    <2> QED BY <1>8, <2>1, <2>2
  <1>10. \A i \in DOMAIN k : k[i] = IF i = id THEN shards ELSE d.sets[i]
    <2>1. \A i \in DOMAIN k : i \in DOMAIN m /\ k[i] = m[i]
      BY <1>5
    <2>2. \A i \in DOMAIN m : m[i] = IF i = id THEN shards ELSE d.sets[i]
      BY DEF m
    <2> HIDE DEF k
    <2> QED BY <2>1, <2>2
  <1>11. e = Stored(d, id, shards)
    BY DEF Stored, e, n, w
  <1> HIDE DEF k
  <1>12. /\ Shape(e) /\ e.ds = d.ds /\ e.ps = d.ps /\ e.tune = d.tune
         /\ e.newest = IF Diff(id * Size(d), d.newest * Size(d)) > 0 THEN id ELSE d.newest
         /\ DOMAIN e.sets = {i \in DOMAIN d.sets \cup {id} : ~TooOld(e, i)}
         /\ \A i \in DOMAIN e.sets : e.sets[i] = IF i = id THEN shards ELSE d.sets[i]
    BY <1>5, <1>7, <1>9, <1>10
  <1> QED BY <1>11, <1>12, Zenon

(***************************************************************************)
(* The three ways decode goes: the packet is ignored, it is only sampled,  *)
(* or it is stored.                                                        *)
(***************************************************************************)
Doubt(s) == dec.tune \/ Mismatch(s)

Doubled(s) == \E t \in ShardsOf(dec, getShardId(s.seqid)) : t.seqid = s.seqid

Kept(s) == IF Enough(dec, Pushed(s)) THEN {} ELSE Pushed(s)

LEMMA DecodedCases ==
    ASSUME SampleInv, Shape(dec), dec.tune \in BOOLEAN, NEW s, ShardOK(s)
    PROVE  /\ s.seqid >= Paws(Size(dec)) => Decoded(s) = dec
           /\ ~(s.seqid >= Paws(Size(dec))) /\ Doubt(s)
                => \/ Decoded(s) = Decoder(EncDS, EncPS, <<>>, s.seqid \div EncSize, FALSE)
                   \/ \E b \in BOOLEAN :
                        Decoded(s) = Decoder(dec.ds, dec.ps, dec.sets, dec.newest, b)
           /\ ~(s.seqid >= Paws(Size(dec))) /\ ~Doubt(s) /\ Doubled(s) => Decoded(s) = dec
           /\ ~(s.seqid >= Paws(Size(dec))) /\ ~Doubt(s) /\ ~Doubled(s)
                => Decoded(s) = Stored(dec, getShardId(s.seqid), Kept(s))
  <1>1. s.seqid >= Paws(Size(dec)) => Decoded(s) = dec
    BY DEF Decoded
  <1>2. ~(s.seqid >= Paws(Size(dec))) /\ Doubt(s) => Decoded(s) = Tune(s)
    BY DEF Decoded, Doubt
  <1>3. ~(s.seqid >= Paws(Size(dec))) /\ ~Doubt(s) /\ Doubled(s) => Decoded(s) = dec
    BY DEF Decoded, Doubt, Doubled
  <1>4. ~(s.seqid >= Paws(Size(dec))) /\ ~Doubt(s) /\ ~Doubled(s)
            => Decoded(s) = Stored(dec, getShardId(s.seqid), Kept(s))
    BY DEF Decoded, Doubt, Doubled, Stored, Kept
  <1>5. \/ Tune(s) = Decoder(EncDS, EncPS, <<>>, s.seqid \div EncSize, FALSE)
        \/ \E b \in BOOLEAN : Tune(s) = Decoder(dec.ds, dec.ps, dec.sets, dec.newest, b)
    <2> DEFINE ds == FindPeriod(Sample(s), TRUE)
               ps == FindPeriod(Sample(s), FALSE)
    <2>1. ds \in {-1, EncDS} /\ ps \in {-1, EncPS}
      <3>1. Sample(s) \in Seq(Pulses)
        BY SampleStep
      <3> QED BY <3>1, PeriodRight
    <2>2. Tune(s) = IF ds > 0 /\ ps > 0 /\ ds + ps <= MaxTotal THEN Tuned(s, ds, ps)
                    ELSE [dec EXCEPT !.tune = TRUE]
      BY DEF Tune
    <2> HIDE DEF ds, ps
    <2>3. Tune(s) = Tuned(s, EncDS, EncPS) \/ Tune(s) = [dec EXCEPT !.tune = TRUE]
      BY <2>1, <2>2
    <2>4. /\ [dec EXCEPT !.tune = TRUE] = Decoder(dec.ds, dec.ps, dec.sets, dec.newest, TRUE)
          /\ [dec EXCEPT !.tune = FALSE] = Decoder(dec.ds, dec.ps, dec.sets, dec.newest, FALSE)
      BY Updates
    <2>5. \/ Tuned(s, EncDS, EncPS) = [dec EXCEPT !.tune = FALSE]
          \/ Tuned(s, EncDS, EncPS) = Decoder(EncDS, EncPS, <<>>, s.seqid \div EncSize, FALSE)
      BY DEF Tuned, Decoder, EncSize
    <2> QED BY <2>3, <2>4, <2>5
  <1> QED BY <1>1, <1>2, <1>3, <1>4, <1>5

(***************************************************************************)
(* The types, and a decoder with the encoder's parameters that does not    *)
(* doubt them.                                                             *)
(***************************************************************************)
DecInv ==
    /\ Shape(dec)
    /\ dec.ds \in 1..MaxTotal /\ dec.ps \in 1..MaxTotal
    /\ dec.newest \in Seqids /\ dec.tune \in BOOLEAN
    /\ \A id \in DOMAIN dec.sets :
           id \in Seqids /\ \A t \in dec.sets[id] : ShardOK(t) /\ t.grp <= MaxGroups
    /\ Matched => ~dec.tune

LEMMA MatchedAgrees ==
    ASSUME Matched, NEW s, ShardOK(s)
    PROVE  /\ Size(dec) = EncSize /\ ~(s.seqid >= Paws(Size(dec)))
           /\ ~Mismatch(s) /\ getShardId(s.seqid) = s.grp % Circle
  <1>1. Size(dec) = EncSize /\ dec.ds = EncDS
    BY DEF Matched, Size, EncSize
  <1>2. /\ s.grp \in Nat /\ s.seqid \in Nat /\ s.seqid < Paws(EncSize)
        /\ s.seqid \div EncSize = s.grp % Circle
        /\ (s.flag = "data") = (s.seqid % EncSize < EncDS)
    BY ShardFacts
  <1>3. ~Mismatch(s)
    BY <1>1, <1>2 DEF Mismatch
  <1>4. getShardId(s.seqid) = s.grp % Circle
    BY <1>1, <1>2 DEF getShardId
  <1> QED BY <1>1, <1>2, <1>3, <1>4, RoundFacts

LEMMA DecodeStep ==
    ASSUME DecInv, SampleInv, NEW s, ShardOK(s), s.grp <= MaxGroups, dec' = Decoded(s)
    PROVE  /\ DecInv'
           /\ (dec'.ds = dec.ds /\ dec'.ps = dec.ps) \/ Matched'
  <1> DEFINE old == s.seqid >= Paws(Size(dec))
             id == getShardId(s.seqid)
  <1>1. /\ Shape(dec) /\ dec.tune \in BOOLEAN /\ dec.ds \in Nat /\ dec.ps \in Nat
        /\ dec.ds >= 1 /\ dec.ps >= 1
    BY SizeFacts DEF DecInv
  <1>2. s.seqid \in Nat /\ s.seqid < Mod
    BY ShardFacts, RoundFacts
  <1>3. CASE dec' = dec
    BY <1>3 DEF DecInv, Matched
  <1>4. CASE dec' = Decoder(EncDS, EncPS, <<>>, s.seqid \div EncSize, FALSE)
    <2>1. /\ Shape(dec') /\ dec'.ds = EncDS /\ dec'.ps = EncPS /\ dec'.sets = <<>>
          /\ dec'.newest = s.seqid \div EncSize /\ dec'.tune = FALSE
      <3> DEFINE q == s.seqid \div EncSize
                 none == <<>>
      <3>1. dec' = Decoder(EncDS, EncPS, none, q, FALSE)
        BY <1>4
      <3> HIDE DEF q, none
      <3>2. /\ Shape(dec') /\ dec'.ds = EncDS /\ dec'.ps = EncPS /\ dec'.sets = none
            /\ dec'.newest = q /\ dec'.tune = FALSE
        BY <3>1 DEF Decoder, Shape
      <3> QED BY <3>2 DEF q, none
    <2>2. s.seqid \div EncSize \in Seqids
      <3>1. s.seqid \div EncSize = s.grp % Circle /\ s.grp \in Nat
        BY ShardFacts
      <3>2. s.grp % Circle \in 0..(Circle - 1)
        BY <3>1, GroupNumber
      <3>3. Circle <= Circle * EncSize
        <4>1. Circle \in Nat /\ EncSize \in Nat /\ EncSize >= 1
          BY SizeFacts, RoundFacts
        <4>2. 1 * Circle <= EncSize * Circle
          BY <4>1, MulMono
        <4> QED BY <4>1, <4>2
      <3> QED BY <3>1, <3>2, <3>3, RoundFacts DEF Seqids
    <2>3. EncDS \in 1..MaxTotal /\ EncPS \in 1..MaxTotal
      BY ParamsAssumption
    <2>4. DOMAIN dec'.sets = {}
      BY <2>1
    <2> QED BY <2>1, <2>2, <2>3, <2>4 DEF DecInv, Matched
  <1>5. CASE ~old /\ Doubt(s) /\
             \E b \in BOOLEAN : dec' = Decoder(dec.ds, dec.ps, dec.sets, dec.newest, b)
    <2>1. PICK b \in BOOLEAN : dec' = Decoder(dec.ds, dec.ps, dec.sets, dec.newest, b)
      BY <1>5
    <2>2. /\ Shape(dec') /\ dec'.ds = dec.ds /\ dec'.ps = dec.ps /\ dec'.sets = dec.sets
          /\ dec'.newest = dec.newest /\ dec'.tune = b
      BY <2>1, Fields
    <2>3. ~Matched
      BY <1>5, MatchedAgrees DEF Doubt, DecInv
    <2> QED BY <2>2, <2>3 DEF DecInv, Matched
  <1>6. CASE ~old /\ ~Doubt(s) /\ dec' = Stored(dec, id, Kept(s))
    <2> DEFINE e == Stored(dec, id, Kept(s))
    <2>1. /\ Shape(e) /\ e.ds = dec.ds /\ e.ps = dec.ps /\ e.tune = dec.tune
          /\ e.newest = id \/ e.newest = dec.newest
          /\ \A i \in DOMAIN e.sets :
               /\ i = id \/ i \in DOMAIN dec.sets
               /\ e.sets[i] = IF i = id THEN Kept(s) ELSE dec.sets[i]
      <3> HIDE DEF id
      <3> QED BY <1>1, StoredIs
    <2> HIDE DEF e
    <2>2. dec' = e
      BY <1>6 DEF e
    <2>3. id \in Seqids
      <3>1. Size(dec) \in Nat /\ Size(dec) >= 1
        BY <1>1 DEF Size
      <3>2. id = s.seqid \div Size(dec)
        BY DEF getShardId
      <3>3. id \in Int /\ id >= 0 /\ s.seqid = Size(dec) * id + (s.seqid % Size(dec))
            /\ s.seqid % Size(dec) \in Nat
        <4> DEFINE n == Size(dec)
        <4>1. n \in Nat /\ n >= 1 /\ s.seqid \in Int /\ s.seqid >= 0
          BY <1>2, <3>1
        <4> HIDE DEF n
        <4>2. /\ s.seqid \div n \in Int /\ s.seqid \div n >= 0
              /\ s.seqid = n * (s.seqid \div n) + (s.seqid % n)
              /\ s.seqid % n \in 0..(n - 1)
          BY <4>1, DivMod
        <4>3. s.seqid % n \in Nat
          BY <4>1, <4>2
        <4> QED BY <3>2, <4>2, <4>3 DEF n
      <3> HIDE DEF id
      <3>4. 1 * id <= Size(dec) * id
        BY <3>1, <3>3, MulMono
      <3>5. Size(dec) * id \in Int
        BY <3>1, <3>3
      <3> QED BY <1>2, <3>3, <3>4, <3>5, RoundFacts DEF Seqids
    <2>4. \A t \in Kept(s) : ShardOK(t) /\ t.grp <= MaxGroups
      BY DEF Kept, Pushed, ShardsOf, DecInv
    <2> HIDE DEF id
    <2>5. \A i \in DOMAIN e.sets :
            i \in Seqids /\ \A t \in e.sets[i] : ShardOK(t) /\ t.grp <= MaxGroups
      BY <2>1, <2>3, <2>4 DEF DecInv
    <2> QED BY <2>1, <2>2, <2>3, <2>5 DEF DecInv, Matched
  <1> QED BY <1>1, <1>3, <1>4, <1>5, <1>6, DecodedCases

(***************************************************************************)
(* What travels, what the tuner has seen and how the decoder is set up.    *)
(***************************************************************************)
FlowInv == EncInv /\ NetInv /\ SampleInv /\ DecInv

LEMMA FlowInit == Init => FlowInv
  <1> SUFFICES ASSUME Init PROVE FlowInv
    OBVIOUS
  <1>1. EncInv
    <2>1. Base(0) = 0
      <3>1. Circle \in Nat /\ Circle >= 1 /\ EncSize \in Nat
        BY SizeFacts, RoundFacts
      <3>2. 0 % Circle = 0
        BY <3>1, ModSmall
      <3> QED BY <3>1, <3>2 DEF Base
    <2> QED BY <2>1, SizeFacts DEF Init, EncInv
  <1>2. NetInv /\ SampleInv
    BY SizeFacts DEF Init, NetInv, SampleInv
  <1>3. DecInv
    <2>1. PICK d \in DecParams :
            dec = [ds |-> d[1], ps |-> d[2], sets |-> <<>>, newest |-> 0, tune |-> FALSE]
      BY DEF Init
    <2>2. d[1] \in 1..MaxTotal /\ d[2] \in 1..MaxTotal
      BY ParamsAssumption
    <2>3. Shape(dec) /\ dec.ds = d[1] /\ dec.ps = d[2] /\ dec.newest = 0 /\ dec.tune = FALSE
      BY <2>1 DEF Shape, Decoder
    <2>4. DOMAIN dec.sets = {}
      BY <2>1
    <2>5. 0 \in Seqids
      BY RoundFacts DEF Seqids
    <2> QED BY <2>2, <2>3, <2>4, <2>5 DEF DecInv
  <1> QED BY <1>1, <1>2, <1>3 DEF FlowInv

(***************************************************************************)
(* A packet that arrives, as the invariants know it.                       *)
(***************************************************************************)
LEMMA Arrival ==
    ASSUME FlowInv, NEW s \in net, kcpInput(s)
    PROVE  /\ ShardOK(s) /\ s.grp \in Nat /\ s.grp <= MaxGroups
           /\ s.grp + MaxLag >= arrived /\ s.grp <= arrived + MaxAhead
           /\ arrived \in Int /\ arrived >= -1
           /\ arrived' = IF s.grp > arrived THEN s.grp ELSE arrived
           /\ net' \subseteq net /\ dec' = Decoded(s) /\ samples' = Sample(s)
  <1>1. /\ ShardOK(s) /\ s.grp <= enc.grp /\ s.grp + MaxLag >= enc.grp
        /\ s.grp <= arrived + MaxAhead
        /\ arrived \in Int /\ arrived >= -1 /\ arrived <= enc.grp
    BY DEF FlowInv, NetInv
  <1>2. enc.grp \in Int /\ enc.grp <= MaxGroups
    BY SizeFacts DEF FlowInv, EncInv
  <1>3. s.grp \in Nat
    BY <1>1, ShardFacts
  <1>4. net' \subseteq net
    BY DEF kcpInput
  <1>5. /\ arrived' = IF s.grp > arrived THEN s.grp ELSE arrived
        /\ dec' = Decoded(s) /\ samples' = Sample(s)
    BY DEF kcpInput
  <1> QED BY <1>1, <1>2, <1>3, <1>4, <1>5, SizeFacts

LEMMA FlowStep ==
    ASSUME FlowInv, [Next]_vars
    PROVE  /\ FlowInv'
           /\ \/ vars' = vars
              \/ dec'.ds = dec.ds /\ dec'.ps = dec.ps
              \/ Matched'
  <1>1. CASE Encode
    <2>1. EncInv' /\ NetInv'
      BY <1>1, EncodeStep DEF FlowInv
    <2>2. dec' = dec /\ samples' = samples
      BY <1>1 DEF Encode
    <2> QED BY <2>1, <2>2 DEF FlowInv, SampleInv, DecInv, Matched
  <1>2. ASSUME NEW s \in net, kcpInput(s)
        PROVE  FlowInv' /\ ((dec'.ds = dec.ds /\ dec'.ps = dec.ps) \/ Matched')
    <2>1. /\ ShardOK(s) /\ s.grp \in Nat /\ s.grp <= MaxGroups
          /\ s.grp <= arrived + MaxAhead /\ arrived \in Int /\ arrived >= -1
          /\ arrived' = IF s.grp > arrived THEN s.grp ELSE arrived
          /\ net' \subseteq net /\ dec' = Decoded(s) /\ samples' = Sample(s)
      BY <1>2, Arrival
    <2>2. enc' = enc
      BY <1>2 DEF kcpInput
    <2>3. EncInv' /\ NetInv'
      <3>1. EncInv'
        BY <2>2 DEF FlowInv, EncInv
      <3>2. /\ arrived' \in Int /\ arrived' >= arrived /\ arrived' <= enc.grp
            /\ enc.grp \in Int /\ MaxAhead \in Nat
        BY <2>1, SizeFacts DEF FlowInv, NetInv, EncInv
      <3>3. ASSUME NEW t \in net'
            PROVE  /\ ShardOK(t) /\ t.grp <= enc.grp /\ t.grp + MaxLag >= enc.grp
                   /\ t.grp <= arrived' + MaxAhead
        <4>1. /\ ShardOK(t) /\ t.grp <= enc.grp /\ t.grp + MaxLag >= enc.grp
              /\ t.grp <= arrived + MaxAhead
          BY <2>1 DEF FlowInv, NetInv
        <4>2. t.grp \in Nat
          BY <4>1, ShardFacts
        <4> QED BY <2>1, <3>2, <4>1, <4>2
      <3> QED BY <2>1, <2>2, <3>1, <3>2, <3>3 DEF NetInv
    <2>4. SampleInv'
      BY <2>1, SampleStep DEF FlowInv, SampleInv
    <2>5. DecInv' /\ ((dec'.ds = dec.ds /\ dec'.ps = dec.ps) \/ Matched')
      BY <2>1, DecodeStep DEF FlowInv
    <2> QED BY <2>3, <2>4, <2>5 DEF FlowInv
  <1>3. CASE UNCHANGED vars
    BY <1>3 DEF FlowInv, EncInv, NetInv, SampleInv, DecInv, Matched, vars
  <1> QED BY <1>1, <1>2, <1>3 DEF Next

(***************************************************************************)
(* The packets that travel, the samples of the tuner and the decoder's     *)
(* parameters are as FlowInv says: every packet kcpInput gets has the      *)
(* number and type that encode gave to its position.                       *)
(***************************************************************************)
THEOREM StreamIsRegular == Spec => []FlowInv
  <1>1. FlowInv /\ [Next]_vars => FlowInv'
    BY FlowStep
  <1> QED BY FlowInit, <1>1, PTL DEF Spec

(***************************************************************************)
(* decode never starts to tune in a decoder that has the encoder's         *)
(* parameters.                                                             *)
(***************************************************************************)
THEOREM NeverInDoubt == Spec => []NoSpuriousTune
  <1>1. FlowInv => NoSpuriousTune
    BY DEF FlowInv, DecInv, NoSpuriousTune
  <1> QED BY StreamIsRegular, <1>1, PTL

(***************************************************************************)
(* autoTune and decode replace the decoder's parameters by the encoder's   *)
(* only, and never replace these.                                          *)
(***************************************************************************)
THEOREM TuningIsRight == Spec => TunesRight
  <1>1. FlowInv /\ [Next]_vars
            => [(dec'.ds = dec.ds /\ dec'.ps = dec.ps) \/ Matched']_vars
    BY FlowStep
  <1> QED BY StreamIsRegular, <1>1, PTL DEF Spec, TunesRight

-----------------------------------------------------------------------------
(***************************************************************************)
(* What a decoder that has the encoder's parameters keeps: there is a      *)
(* group newest, not far behind the newest arrival, whose set is           *)
(* dec.newest, and the shards of a set are all of the group, not newer     *)
(* than that and not too old, that the set is for.                         *)
(***************************************************************************)
Within(g) == g <= arrived /\ \E n \in {MaxLag, MaxShardSets} : g + n >= arrived

KeptAt(newest) ==
    /\ dec.newest = newest % Circle
    /\ newest + MaxLag >= arrived
    /\ newest <= arrived \/ (newest = 0 /\ arrived = -1)
    /\ \A id \in DOMAIN dec.sets : \A t \in dec.sets[id] :
           t.grp % Circle = id /\ t.grp <= newest /\ Within(t.grp)

KeepInv == Matched => \E newest \in Nat : KeptAt(newest)

(***************************************************************************)
(* The comparisons of decode and discardShards, for two groups that are    *)
(* near.                                                                   *)
(***************************************************************************)
LEMMA NewerIs ==
    ASSUME NEW a \in Nat, NEW b \in Nat, Near(a - b) \/ Near(b - a)
    PROVE  Diff((a % Circle) * EncSize, (b % Circle) * EncSize) > 0 <=> a > b
  <1>0. EncSize \in Nat /\ EncSize >= 1 /\ Gap \in Nat
    BY SizeFacts, RoundFacts
  <1>1. CASE a > b
    <2> DEFINE k == (a - b) * EncSize
    <2>1. Near(a - b)
      BY <1>1 DEF Near
    <2>2. /\ k \in Nat
          /\ Diff(Base(a), Base(b)) = k \/ Diff(Base(a), Base(b)) = k + Gap
      BY <1>1, <2>1, GroupDiff
    <2>3. k >= 1
      <3>1. 1 * EncSize <= (a - b) * EncSize
        BY <1>0, <1>1, MulMono
      <3> QED BY <1>0, <3>1
    <2> HIDE DEF k
    <2> QED BY <1>0, <1>1, <2>2, <2>3 DEF Base
  <1>2. CASE ~(a > b)
    <2> DEFINE k == (b - a) * EncSize
    <2>1. Near(b - a)
      <3>1. Near(a - b) => a = b
        BY <1>2 DEF Near
      <3> QED BY <3>1
    <2>2. /\ k \in Nat
          /\ Diff(Base(a), Base(b)) = -k \/ Diff(Base(a), Base(b)) = -(k + Gap)
      BY <1>2, <2>1, GroupDiff
    <2> HIDE DEF k
    <2> QED BY <1>0, <1>2, <2>2 DEF Base
  <1> QED BY <1>1, <1>2

LEMMA TooOldIs ==
    ASSUME NEW d, Size(d) = EncSize, NEW a \in Nat, d.newest = a % Circle,
           NEW g \in Nat
    PROVE  /\ a >= g /\ Near(a - g) /\ a > g + MaxShardSets => TooOld(d, g % Circle)
           /\ a >= g /\ Near(a - g) /\ a < g + MaxShardSets => ~TooOld(d, g % Circle)
           /\ a < g /\ Near(g - a) => ~TooOld(d, g % Circle)
  <1> DEFINE x == Diff(Base(a), Base(g))
             m == MaxShardSets * EncSize
  <1>0. /\ EncSize \in Nat /\ EncSize >= 1 /\ Gap \in Nat /\ Gap <= EncSize
        /\ MaxShardSets \in Nat
    BY SizeFacts, RoundFacts
  <1>1. TooOld(d, g % Circle) <=> x > m
    BY DEF TooOld, Base
  <1>2. m \in Nat
    <2>1. \A i, j \in Nat : i * j \in Nat
      OBVIOUS
    <2> QED BY <1>0, <2>1
  <1>3. ASSUME a >= g, Near(a - g)
        PROVE  /\ a > g + MaxShardSets => x > m
               /\ a < g + MaxShardSets => ~(x > m)
    <2> DEFINE k == (a - g) * EncSize
    <2>1. k \in Nat /\ (x = k \/ x = k + Gap)
      BY <1>3, GroupDiff
    <2>2. a > g + MaxShardSets => m + EncSize <= k
      BY <1>0, MulMono
    <2>3. a < g + MaxShardSets => k + EncSize <= m
      BY <1>0, MulMono
    <2> HIDE DEF k, m, x
    <2> QED BY <1>0, <1>2, <2>1, <2>2, <2>3
  <1>4. ASSUME a < g, Near(g - a) PROVE ~(x > m)
    <2> DEFINE k == (g - a) * EncSize
    <2>1. k \in Nat /\ (x = -k \/ x = -(k + Gap))
      BY <1>4, GroupDiff
    <2> HIDE DEF k, m, x
    <2> QED BY <1>0, <1>2, <2>1
  <1> HIDE DEF x, m
  <1> QED BY <1>1, <1>3, <1>4

(***************************************************************************)
(* A packet that arrives and what is kept are near each other.             *)
(***************************************************************************)
Arriving(s) ==
    /\ ShardOK(s) /\ s.grp \in Nat /\ s.grp <= MaxGroups
    /\ s.grp + MaxLag >= arrived /\ s.grp <= arrived + MaxAhead
    /\ arrived \in Int /\ arrived >= -1

LEMMA PushedOneGroup ==
    ASSUME DecInv, KeepInv, Matched, NEW s, Arriving(s)
    PROVE  /\ s \in Pushed(s)
           /\ \A t \in Pushed(s) : ShardOK(t) /\ t.grp = s.grp
           /\ \A t \in ShardsOf(dec, getShardId(s.seqid)) : t.grp <= arrived
  <1>1. s \in Pushed(s)
    BY DEF Pushed
  <1>2. PICK newest \in Nat : KeptAt(newest)
    BY DEF KeepInv
  <1>3. ASSUME NEW t \in ShardsOf(dec, getShardId(s.seqid))
        PROVE  ShardOK(t) /\ t.grp = s.grp /\ t.grp <= arrived
    <2>1. /\ getShardId(s.seqid) \in DOMAIN dec.sets
          /\ t \in dec.sets[getShardId(s.seqid)]
      BY DEF ShardsOf
    <2>2. getShardId(s.seqid) = s.grp % Circle
      BY MatchedAgrees DEF Arriving
    <2>3. ShardOK(t) /\ t.grp \in Nat
      BY <2>1, ShardFacts DEF DecInv
    <2>4. t.grp % Circle = s.grp % Circle /\ Within(t.grp)
      BY <1>2, <2>1, <2>2 DEF KeptAt
    <2>5. PICK n \in {MaxLag, MaxShardSets} : t.grp + n >= arrived
      BY <2>4 DEF Within
    <2>6. t.grp <= arrived
      BY <2>4 DEF Within
    <2>7. t.grp >= s.grp => Near(t.grp - s.grp)
      BY <2>3, <2>6, SizeFacts DEF Near, Arriving
    <2>8. s.grp >= t.grp => Near(s.grp - t.grp)
      BY <2>3, <2>5, SizeFacts DEF Near, Arriving
    <2>9. s.grp \in Nat /\ Circle \in Nat /\ Circle >= 1
      BY RoundFacts DEF Arriving
    <2>10. t.grp - s.grp < Circle
      <3>1. CASE t.grp >= s.grp
        BY <2>7, <3>1, NearFits
      <3>2. CASE ~(t.grp >= s.grp)
        BY <2>3, <2>9, <3>2
      <3> QED BY <3>1, <3>2
    <2>11. s.grp - t.grp < Circle
      <3>1. CASE s.grp >= t.grp
        BY <2>8, <3>1, NearFits
      <3>2. CASE ~(s.grp >= t.grp)
        BY <2>3, <2>9, <3>2
      <3> QED BY <3>1, <3>2
    <2> QED BY <2>3, <2>4, <2>6, <2>9, <2>10, <2>11, SameGroup
  <1> QED BY <1>1, <1>3 DEF Pushed, Arriving

LEMMA DoubledIsOld ==
    ASSUME DecInv, KeepInv, Matched, NEW s, Arriving(s), Doubled(s)
    PROVE  s \in ShardsOf(dec, getShardId(s.seqid)) /\ s.grp <= arrived
  <1>1. PICK t \in ShardsOf(dec, getShardId(s.seqid)) : t.seqid = s.seqid
    BY DEF Doubled
  <1>2. ShardOK(t) /\ t.grp = s.grp /\ t.grp <= arrived
    BY <1>1, PushedOneGroup DEF Pushed
  <1>3. t = s
    BY <1>1, <1>2, SameShard DEF Arriving
  <1> QED BY <1>1, <1>2, <1>3

(***************************************************************************)
(* What a packet does to a decoder that has, or finds, the encoder's       *)
(* parameters.                                                             *)
(***************************************************************************)
LEMMA MatchedCases ==
    ASSUME FlowInv, NEW s \in net, kcpInput(s)
    PROVE  /\ Arriving(s)
           /\ Matched => /\ Matched'
                         /\ \/ Doubled(s) /\ dec' = dec /\ Returned(s) = {}
                            \/ /\ ~Doubled(s) /\ dec' = Stored(dec, s.grp % Circle, Kept(s))
                               /\ Returned(s) = IF Enough(dec, Pushed(s))
                                                THEN Recovered(dec, Pushed(s)) ELSE {}
           /\ ~Matched /\ Matched'
                => /\ dec' = Decoder(EncDS, EncPS, <<>>, s.grp % Circle, FALSE)
                   /\ Returned(s) = {}
  <1> DEFINE old == s.seqid >= Paws(Size(dec))
             id == getShardId(s.seqid)
  <1>1. Arriving(s) /\ dec' = Decoded(s)
    BY Arrival DEF Arriving
  <1>2. ShardOK(s) /\ Shape(dec) /\ dec.tune \in BOOLEAN /\ SampleInv /\ DecInv
    BY <1>1 DEF Arriving, FlowInv, DecInv
  <1>3. s.seqid \div EncSize = s.grp % Circle
    BY <1>2, ShardFacts
  <1>4. /\ old => dec' = dec
        /\ ~old /\ Doubt(s)
             => \/ dec' = Decoder(EncDS, EncPS, <<>>, s.grp % Circle, FALSE)
                \/ \E b \in BOOLEAN : dec' = Decoder(dec.ds, dec.ps, dec.sets, dec.newest, b)
        /\ ~old /\ ~Doubt(s) /\ Doubled(s) => dec' = dec
        /\ ~old /\ ~Doubt(s) /\ ~Doubled(s) => dec' = Stored(dec, id, Kept(s))
    BY <1>1, <1>2, <1>3, DecodedCases
  <1>5. Returned(s) = IF old \/ Doubt(s) \/ Doubled(s) \/ ~Enough(dec, Pushed(s))
                      THEN {} ELSE Recovered(dec, Pushed(s))
    BY DEF Returned, Doubt, Doubled
  <1>6. \A b : LET e == Decoder(dec.ds, dec.ps, dec.sets, dec.newest, b)
               IN  e.ds = dec.ds /\ e.ps = dec.ps
    BY Fields
  <1>7. \A sh : LET e == Stored(dec, id, sh) IN e.ds = dec.ds /\ e.ps = dec.ps
    <2> HIDE DEF id
    <2> QED BY <1>2, StoredIs
  <1>8. ASSUME Matched
        PROVE  ~old /\ ~Doubt(s) /\ id = s.grp % Circle
    BY <1>2, <1>8, MatchedAgrees DEF Doubt, DecInv
  <1> HIDE DEF old, id
  <1>9. ASSUME Matched
        PROVE  /\ \/ Doubled(s) /\ dec' = dec /\ Returned(s) = {}
                  \/ /\ ~Doubled(s) /\ dec' = Stored(dec, s.grp % Circle, Kept(s))
                     /\ Returned(s) = IF Enough(dec, Pushed(s))
                                      THEN Recovered(dec, Pushed(s)) ELSE {}
    BY <1>4, <1>5, <1>8, <1>9
  <1>10. ASSUME Matched PROVE Matched'
    <2>1. dec' = dec \/ dec' = Stored(dec, id, Kept(s))
      BY <1>4, <1>8, <1>10
    <2>2. dec'.ds = dec.ds /\ dec'.ps = dec.ps
      BY <1>7, <2>1
    <2> QED BY <1>10, <2>2 DEF Matched
  <1>11. ASSUME ~Matched, Matched'
         PROVE  /\ dec' = Decoder(EncDS, EncPS, <<>>, s.grp % Circle, FALSE)
                /\ Returned(s) = {}
    <2>1. ~(dec'.ds = dec.ds /\ dec'.ps = dec.ps)
      BY <1>11 DEF Matched
    <2>2. ~(dec' = dec) /\ ~(dec' = Stored(dec, id, Kept(s)))
      BY <1>7, <2>1
    <2>3. ~\E b \in BOOLEAN : dec' = Decoder(dec.ds, dec.ps, dec.sets, dec.newest, b)
      BY <1>6, <2>1
    <2> QED BY <1>4, <1>5, <2>2, <2>3
  <1> QED BY <1>1, <1>9, <1>10, <1>11

LEMMA KeepStep ==
    ASSUME FlowInv, KeepInv, NEW s \in net, kcpInput(s)
    PROVE  KeepInv'
  <1> DEFINE g == s.grp
             id == g % Circle
  <1>1. SUFFICES ASSUME Matched' PROVE \E newest \in Nat : KeptAt(newest)'
    BY DEF KeepInv
  <1>2. Arriving(s) /\ DecInv
    BY MatchedCases DEF FlowInv
  <1>3. /\ g \in Nat /\ g + MaxLag >= arrived /\ g <= arrived + MaxAhead
        /\ arrived \in Int /\ arrived >= -1
        /\ MaxLag \in Nat /\ MaxAhead \in Nat /\ MaxShardSets \in Nat
    BY <1>2, SizeFacts DEF Arriving
  <1>4. arrived' = IF g > arrived THEN g ELSE arrived
    BY Arrival
  <1>5. CASE ~Matched
    <2>1. dec' = Decoder(EncDS, EncPS, <<>>, id, FALSE)
      BY <1>1, <1>5, MatchedCases
    <2> HIDE DEF id
    <2>2. dec'.newest = id /\ DOMAIN dec'.sets = {}
      BY <2>1 DEF Decoder
    <2>3. g + MaxLag >= arrived' /\ g <= arrived'
      BY <1>3, <1>4
    <2>4. KeptAt(g)'
      BY <2>2, <2>3 DEF KeptAt, id
    <2> QED BY <1>3, <2>4
  <1>6. CASE Matched
    <2>1. PICK newest \in Nat : KeptAt(newest)
      BY <1>6 DEF KeepInv
    <2>2. /\ newest + MaxLag >= arrived /\ dec.newest = newest % Circle
          /\ newest <= arrived \/ (newest = 0 /\ arrived = -1)
      BY <2>1 DEF KeptAt
    <2>3. CASE Doubled(s) /\ dec' = dec
      <3>1. arrived' = arrived
        BY <1>2, <1>3, <1>4, <1>6, <2>3, DoubledIsOld
      <3>2. KeptAt(newest)'
        BY <2>1, <2>3, <3>1 DEF KeptAt, Within
      <3> QED BY <3>2
    <2>4. CASE ~Doubled(s) /\ dec' = Stored(dec, id, Kept(s))
      <3> DEFINE m == IF g > newest THEN g ELSE newest
                 e == Stored(dec, id, Kept(s))
      <3>1. Size(dec) = EncSize /\ Shape(dec)
        BY <1>2, <1>6, MatchedAgrees DEF Arriving, DecInv
      <3>2. /\ e.ds = dec.ds /\ e.ps = dec.ps
            /\ e.newest = IF Diff(id * EncSize, dec.newest * EncSize) > 0
                          THEN id ELSE dec.newest
            /\ DOMAIN e.sets = {i \in DOMAIN dec.sets \cup {id} : ~TooOld(e, i)}
            /\ \A i \in DOMAIN e.sets :
                   e.sets[i] = IF i = id THEN Kept(s) ELSE dec.sets[i]
        <4> DEFINE k == Kept(s)
        <4> HIDE DEF id, k
        <4>1. LET f == Stored(dec, id, k)
              IN  /\ f.ds = dec.ds /\ f.ps = dec.ps
                  /\ f.newest = IF Diff(id * Size(dec), dec.newest * Size(dec)) > 0
                                THEN id ELSE dec.newest
                  /\ DOMAIN f.sets = {i \in DOMAIN dec.sets \cup {id} : ~TooOld(f, i)}
                  /\ \A i \in DOMAIN f.sets :
                         f.sets[i] = IF i = id THEN k ELSE dec.sets[i]
          BY <3>1, StoredIs
        <4> QED BY <3>1, <4>1 DEF k
      <3> HIDE DEF e
      <3>3. dec' = e
        BY <2>4 DEF e
      <3>4. Near(g - newest) \/ Near(newest - g)
        <4>1. g >= newest => g - newest \in Nat /\ g - newest <= MaxAhead + MaxLag
          BY <1>3, <2>2
        <4>2. ~(g >= newest) => newest - g \in Nat /\ newest - g <= MaxAhead + MaxLag
          BY <1>3, <2>2
        <4> QED BY <4>1, <4>2 DEF Near
      <3>5. e.newest = m % Circle
        <4>1. Diff(id * EncSize, (newest % Circle) * EncSize) > 0 <=> g > newest
          BY <1>3, <3>4, NewerIs
        <4> QED BY <2>2, <3>2, <4>1
      <3>6. /\ m \in Nat /\ m + MaxLag >= arrived' /\ m <= arrived'
            /\ m <= arrived + MaxAhead /\ g <= m /\ newest <= m
            /\ arrived' # arrived => m = arrived'
        BY <1>3, <1>4, <2>2
      <3> HIDE DEF m
      <3>7. ASSUME NEW i \in DOMAIN e.sets, NEW t \in e.sets[i]
            PROVE  t.grp % Circle = i /\ t.grp <= m /\ Within(t.grp)'
        <4>1. /\ t.grp \in Nat /\ t.grp % Circle = i /\ t.grp <= m /\ t.grp <= arrived'
              /\ \E n \in {MaxLag, MaxShardSets} : t.grp + n >= arrived
          <5>1. CASE t = s /\ i = id
            BY <1>3, <1>4, <3>6, <5>1
          <5>2. CASE i \in DOMAIN dec.sets /\ t \in dec.sets[i]
            <6>1. ShardOK(t) /\ t.grp \in Nat
              BY <1>2, <5>2, ShardFacts DEF DecInv
            <6>2. t.grp % Circle = i /\ t.grp <= newest /\ Within(t.grp)
              BY <2>1, <5>2 DEF KeptAt
            <6>3. t.grp <= m
              BY <3>6, <6>1, <6>2
            <6>4. t.grp <= arrived'
              BY <1>3, <1>4, <6>1, <6>2 DEF Within
            <6> QED BY <6>1, <6>2, <6>3, <6>4 DEF Within
          <5>3. (t = s /\ i = id) \/ (i \in DOMAIN dec.sets /\ t \in dec.sets[i])
            <6>1. CASE i = id
              <7>1. t \in Pushed(s)
                BY <3>2, <6>1 DEF Kept
              <7>2. getShardId(s.seqid) = id
                BY <1>2, <1>6, MatchedAgrees DEF Arriving
              <7> QED BY <6>1, <7>1, <7>2 DEF Pushed, ShardsOf
            <6>2. CASE i # id
              BY <3>2, <6>2
            <6> QED BY <6>1, <6>2
          <5> QED BY <5>1, <5>2, <5>3
        <4>2. PICK n \in {MaxLag, MaxShardSets} : t.grp + n >= arrived
          BY <4>1
        <4>3. Near(m - t.grp)
          BY <1>3, <3>6, <4>1, <4>2 DEF Near
        <4>4. ~TooOld(e, t.grp % Circle)
          BY <3>2, <4>1
        <4>5. Size(e) = EncSize
          BY <3>1, <3>2 DEF Size
        <4>6. m <= t.grp + MaxShardSets
          <5>1. ~(m > t.grp + MaxShardSets)
            BY <3>5, <3>6, <4>1, <4>3, <4>4, <4>5, TooOldIs
          <5> QED BY <1>3, <3>6, <4>1, <5>1
        <4>7. \E j \in {MaxLag, MaxShardSets} : t.grp + j >= arrived'
          <5>1. CASE arrived' = arrived
            BY <4>2, <5>1
          <5>2. CASE arrived' # arrived
            BY <3>6, <4>6, <5>2
          <5> QED BY <5>1, <5>2
        <4> QED BY <4>1, <4>7 DEF Within
      <3>8. KeptAt(m)'
        BY <3>3, <3>5, <3>6, <3>7 DEF KeptAt
      <3> QED BY <3>6, <3>8
    <2> QED BY <1>6, <2>3, <2>4, MatchedCases
  <1> QED BY <1>5, <1>6

(***************************************************************************)
(* What a decoder with the encoder's parameters recovers: the data packets *)
(* of the packet's own group that it has not got.                          *)
(***************************************************************************)
Missing(s) == {x \in 0..(EncDS - 1) : \A t \in Pushed(s) : t.seqid % EncSize # x}

LEMMA DataIsData ==
    ASSUME NEW g \in Nat, NEW pos \in Nat
    PROVE  Data(g, pos) # Garbage /\ Data(g, pos)[1] = g
  <1>1. Data(g, pos) \in Nat \X Nat
    BY DEF Data
  <1> QED BY <1>1, ParamsAssumption DEF Data

LEMMA RecoveredIs ==
    ASSUME DecInv, KeepInv, Matched, NEW s, Arriving(s)
    PROVE  Recovered(dec, Pushed(s)) =
               IF Cardinality({t \in Pushed(s) : t.flag = "data"}) = EncDS THEN {}
               ELSE {Data(s.grp, pos) : pos \in Missing(s)}
  <1> DEFINE P == Pushed(s)
             c == CHOOSE t \in P : TRUE
  <1>1. s \in P /\ \A t \in P : t.grp = s.grp
    BY PushedOneGroup
  <1>2. dec.ds = EncDS /\ dec.ps = EncPS /\ Size(dec) = EncSize
    BY DEF Matched, Size, EncSize
  <1>3. {t.grp : t \in P} = {s.grp}
    BY <1>1
  <1>4. Cardinality({t.grp : t \in P}) = 1
    BY <1>3, FS_Singleton
  <1>5. c \in P /\ c.grp = s.grp
    <2>1. c \in P
      BY <1>1
    <2> QED BY <1>1, <2>1
  <1>6. Recovered(dec, P) =
            IF Cardinality({t \in P : t.flag = "data"}) = dec.ds THEN {}
            ELSE IF /\ dec.ds = EncDS /\ dec.ps = EncPS
                    /\ Cardinality({t.grp : t \in P}) = 1
                 THEN {Data(c.grp, pos) : pos \in {x \in 0..(dec.ds - 1) :
                           \A t \in P : t.seqid % Size(dec) # x}}
                 ELSE {Garbage}
    <2> HIDE DEF P
    <2> QED BY DEF Recovered
  <1>7. Missing(s) = {x \in 0..(dec.ds - 1) : \A t \in P : t.seqid % Size(dec) # x}
    BY <1>2 DEF Missing
  <1> HIDE DEF c
  <1>8. Recovered(dec, P) =
            IF Cardinality({t \in P : t.flag = "data"}) = EncDS THEN {}
            ELSE {Data(s.grp, pos) : pos \in Missing(s)}
    <2> HIDE DEF P
    <2> QED BY <1>2, <1>4, <1>5, <1>6, <1>7
  <1> QED BY <1>8

(***************************************************************************)
(* A decoder with the encoder's parameters keeps and recovers well.        *)
(***************************************************************************)
SentInv == FlowInv /\ KeepInv /\ RecoveredIsSent

LEMMA SentInit == Init => SentInv
  <1> SUFFICES ASSUME Init PROVE SentInv
    OBVIOUS
  <1>1. PICK d \in DecParams :
          dec = [ds |-> d[1], ps |-> d[2], sets |-> <<>>, newest |-> 0, tune |-> FALSE]
    BY DEF Init
  <1>2. dec.newest = 0 /\ DOMAIN dec.sets = {}
    BY <1>1
  <1>3. 0 % Circle = 0
    BY RoundFacts, ModSmall
  <1>4. arrived = -1 /\ known = {}
    BY DEF Init
  <1>5. KeptAt(0)
    BY <1>2, <1>3, <1>4, SizeFacts DEF KeptAt
  <1> QED BY <1>4, <1>5, FlowInit DEF SentInv, KeepInv, RecoveredIsSent

LEMMA SentStep ==
    ASSUME SentInv, [Next]_vars
    PROVE  SentInv'
  <1>1. FlowInv'
    BY FlowStep DEF SentInv
  <1>2. CASE Encode
    <2>1. dec' = dec /\ arrived' = arrived /\ known' = known
      BY <1>2 DEF Encode
    <2> QED BY <1>1, <2>1 DEF SentInv, KeepInv, KeptAt, Within, RecoveredIsSent, Matched
  <1>3. ASSUME NEW s \in net, kcpInput(s) PROVE SentInv'
    <2>1. KeepInv'
      BY <1>3, KeepStep DEF SentInv
    <2>2. Arriving(s)
      BY <1>3, MatchedCases DEF SentInv
    <2>3. ASSUME Matched', Garbage \in known' PROVE FALSE
      <3>1. Garbage \in (known \ {Garbage}) \cup Returned(s)
                \cup (IF s.flag = "data" THEN {Data(s.grp, s.seqid % EncSize)} ELSE {})
        BY <1>3, <2>3 DEF kcpInput
      <3>2. Data(s.grp, s.seqid % EncSize) # Garbage
        BY <2>2, ShardFacts, DataIsData DEF Arriving
      <3>3. Garbage \in Returned(s)
        BY <3>1, <3>2
      <3>4. Matched
        BY <1>3, <2>3, <3>3, MatchedCases DEF SentInv
      <3>5. Garbage \in Recovered(dec, Pushed(s))
        BY <1>3, <3>3, <3>4, MatchedCases DEF SentInv
      <3>6. Garbage \in {Data(s.grp, pos) : pos \in Missing(s)}
        BY <2>2, <3>4, <3>5, RecoveredIs DEF SentInv, FlowInv
      <3>7. \A pos \in Missing(s) : pos \in Nat
        BY SizeFacts DEF Missing
      <3> QED BY <2>2, <3>6, <3>7, DataIsData DEF Arriving
    <2> QED BY <1>1, <2>1, <2>3 DEF SentInv, RecoveredIsSent
  <1>4. CASE UNCHANGED vars
    BY <1>1, <1>4 DEF vars, SentInv, KeepInv, KeptAt, Within, RecoveredIsSent, Matched
  <1> QED BY <1>2, <1>3, <1>4 DEF Next

(***************************************************************************)
(* A decoder with the encoder's parameters keeps, after every decode and   *)
(* discardShards, only shards of the group that a set is for.              *)
(***************************************************************************)
THEOREM SetsAreOfOneGroup == Spec => []SentInv
  <1>1. SentInv /\ [Next]_vars => SentInv'
    BY SentStep
  <1> QED BY SentInit, <1>1, PTL DEF Spec

(***************************************************************************)
(* decode with the encoder's parameters gives kcpInput only packets that   *)
(* were sent.                                                              *)
(***************************************************************************)
THEOREM NeverGarbage == Spec => []RecoveredIsSent
  <1>1. SentInv => RecoveredIsSent
    BY DEF SentInv
  <1> QED BY SetsAreOfOneGroup, <1>1, PTL

-----------------------------------------------------------------------------
(***************************************************************************)
(* What KCP has of the recent groups.  Either all data of the group is     *)
(* known, or the group's set holds everything that arrived of it and is    *)
(* too small yet.  Shards of recent groups are in the sets only if they    *)
(* arrived while the decoder had the right parameters.                     *)
(***************************************************************************)
Fresh(g) == g + MaxShardSets > arrived

Complete(g) == \A pos \in 0..(EncDS - 1) : Data(g, pos) \in known

Collecting(g) ==
    /\ g % Circle \in DOMAIN dec.sets
    /\ {u \in got : u.grp = g} \subseteq dec.sets[g % Circle]
    /\ Cardinality(dec.sets[g % Circle]) < EncDS

SetsFinite == \A id \in DOMAIN dec.sets : IsFiniteSet(dec.sets[id])

GotInv ==
    /\ got # {} => Matched
    /\ \A t \in got : /\ ShardOK(t) /\ t.grp <= arrived /\ Fresh(t.grp)
                      /\ t.flag = "data" => Data(t.grp, t.seqid % EncSize) \in known
                      /\ Complete(t.grp) \/ Collecting(t.grp)
    /\ Matched => \A id \in DOMAIN dec.sets : \A t \in dec.sets[id] :
                      Fresh(t.grp) => t \in got
    /\ SetsFinite

LEMMA SetsFiniteStep ==
    ASSUME FlowInv, SetsFinite, NEW s \in net, kcpInput(s)
    PROVE  SetsFinite'
  <1> DEFINE id == getShardId(s.seqid)
             k == Kept(s)
  <1>1. SampleInv /\ Shape(dec) /\ dec.tune \in BOOLEAN /\ ShardOK(s) /\ dec' = Decoded(s)
    BY Arrival DEF FlowInv, DecInv
  <1>2. IsFiniteSet(k)
    <2>1. IsFiniteSet(ShardsOf(dec, id))
      BY FS_EmptySet DEF SetsFinite, ShardsOf
    <2>2. IsFiniteSet(Pushed(s))
      BY <2>1, FS_AddElement DEF Pushed
    <2> QED BY <2>2, FS_EmptySet DEF Kept
  <1>3. CASE dec' = dec
    BY <1>3 DEF SetsFinite
  <1>4. CASE dec' = Decoder(EncDS, EncPS, <<>>, s.seqid \div EncSize, FALSE)
    <2>1. DOMAIN dec'.sets = {}
      BY <1>4 DEF Decoder
    <2> QED BY <2>1 DEF SetsFinite
  <1>5. CASE \E b \in BOOLEAN : dec' = Decoder(dec.ds, dec.ps, dec.sets, dec.newest, b)
    <2>1. dec'.sets = dec.sets
      BY <1>5, Fields
    <2> QED BY <2>1 DEF SetsFinite
  <1>6. CASE dec' = Stored(dec, id, k)
    <2> HIDE DEF id, k
    <2>1. LET e == Stored(dec, id, k)
          IN  \A i \in DOMAIN e.sets :
                /\ i = id \/ i \in DOMAIN dec.sets
                /\ e.sets[i] = IF i = id THEN k ELSE dec.sets[i]
      BY <1>1, StoredIs
    <2> QED BY <1>2, <1>6, <2>1 DEF SetsFinite
  <1> QED BY <1>1, <1>3, <1>4, <1>5, <1>6, DecodedCases

(***************************************************************************)
(* A complete set: as many data shards as the group has are all of them.   *)
(***************************************************************************)
LEMMA AllData ==
    ASSUME NEW P, IsFiniteSet(P), NEW g, \A t \in P : ShardOK(t) /\ t.grp = g,
           Cardinality({t \in P : t.flag = "data"}) = EncDS
    PROVE  \A pos \in 0..(EncDS - 1) : \E t \in P : t.flag = "data" /\ t.seqid % EncSize = pos
  <1> DEFINE D == {t \in P : t.flag = "data"}
             S == 0..(EncDS - 1)
             f == [t \in D |-> t.seqid % EncSize]
             R == {t.seqid % EncSize : t \in D}
  <1>1. EncDS \in Nat /\ EncDS >= 1 /\ EncSize \in Nat
    BY SizeFacts
  <1>2. IsFiniteSet(D)
    BY FS_Subset
  <1>3. \A t \in D : t.seqid % EncSize \in S
    <2>1. SUFFICES ASSUME NEW t \in D PROVE t.seqid % EncSize \in S
      OBVIOUS
    <2>2. /\ t.seqid % EncSize \in Nat
          /\ (t.flag = "data") = (t.seqid % EncSize < EncDS)
      BY ShardFacts
    <2> QED BY <1>1, <2>2
  <1>4. \A t, u \in D : t.seqid % EncSize = u.seqid % EncSize => t = u
    <2>1. SUFFICES ASSUME NEW t \in D, NEW u \in D, t.seqid % EncSize = u.seqid % EncSize
                   PROVE  t = u
      OBVIOUS
    <2>2. /\ ShardOK(t) /\ ShardOK(u) /\ t.grp = u.grp
          /\ t.seqid = Base(t.grp) + (t.seqid % EncSize)
          /\ u.seqid = Base(u.grp) + (u.seqid % EncSize)
      BY DEF ShardOK
    <2>3. t.seqid = u.seqid
      BY <2>1, <2>2
    <2> QED BY <2>2, <2>3, SameShard
  <1> HIDE DEF D
  <1>5. f \in Surjection(D, R) /\ f \in Injection(D, R)
    BY <1>4 DEF Surjection, Injection, IsInjective
  <1>6. IsFiniteSet(R) /\ Cardinality(R) = Cardinality(D)
    <2> HIDE DEF f, R
    <2> QED BY <1>2, <1>5, FS_Surjection
  <1>7. IsFiniteSet(S) /\ Cardinality(S) = EncDS
    <2>1. 0 \in Int /\ EncDS - 1 \in Int
      BY <1>1
    <2> QED BY <1>1, <2>1, FS_Interval
  <1>8. R \subseteq S
    BY <1>3
  <1>9. Cardinality(D) = EncDS
    BY DEF D
  <1>10. R = S
    <2> HIDE DEF R, S
    <2> QED BY <1>6, <1>7, <1>8, <1>9, FS_Subset
  <1> QED BY <1>10 DEF D

LEMMA FreshIsKept ==
    ASSUME NEW d, Size(d) = EncSize, NEW n \in Nat, d.newest = n % Circle,
           NEW a \in Nat, n <= a, n + MaxLag >= a,
           NEW g \in Nat, g <= a, g + MaxShardSets > a
    PROVE  ~TooOld(d, g % Circle)
  <1>0. MaxLag \in Nat /\ MaxShardSets \in Nat /\ MaxAhead \in Nat
    BY SizeFacts
  <1>1. CASE n >= g
    <2>1. Near(n - g) /\ n < g + MaxShardSets
      BY <1>0, <1>1 DEF Near
    <2> QED BY <1>1, <2>1, TooOldIs
  <1>2. CASE n < g
    <2>1. Near(g - n)
      BY <1>0, <1>2 DEF Near
    <2> QED BY <1>2, <2>1, TooOldIs
  <1> QED BY <1>1, <1>2

(***************************************************************************)
(* Two groups of which one is recent and one arrives are in one set only   *)
(* if they are the same.                                                   *)
(***************************************************************************)
LEMMA FreshApart ==
    ASSUME NEW s, Arriving(s), NEW g \in Nat, g <= arrived, Fresh(g),
           g % Circle = s.grp % Circle
    PROVE  g = s.grp
  <1>0. /\ s.grp \in Nat /\ arrived \in Int /\ Circle \in Nat /\ Circle >= 1
        /\ s.grp + MaxLag >= arrived /\ s.grp <= arrived + MaxAhead
        /\ MaxLag \in Nat /\ MaxShardSets \in Nat /\ MaxAhead \in Nat
    BY SizeFacts, RoundFacts DEF Arriving
  <1>1. g - s.grp < Circle
    <2>1. g >= s.grp => Near(g - s.grp)
      BY <1>0 DEF Near
    <2>2. g >= s.grp => g - s.grp < Circle
      BY <2>1, NearFits
    <2> QED BY <1>0, <2>2
  <1>2. s.grp - g < Circle
    <2>1. s.grp >= g => Near(s.grp - g)
      BY <1>0 DEF Near, Fresh
    <2>2. s.grp >= g => s.grp - g < Circle
      BY <2>1, NearFits
    <2> QED BY <1>0, <2>2
  <1> QED BY <1>0, <1>1, <1>2, SameGroup

LEMMA KnownGrows ==
    ASSUME FlowInv, NEW s \in net, kcpInput(s), NEW t \in got', t.grp \in Nat, NEW pos \in Nat
    PROVE  /\ Data(t.grp, pos) \in known \/ Data(t.grp, pos) \in Returned(s)
                => Data(t.grp, pos) \in known'
           /\ t.grp = s.grp /\ s.flag = "data" /\ pos = s.seqid % EncSize
                => Data(t.grp, pos) \in known'
  <1> DEFINE x == Data(t.grp, pos)
             all == (known \ {Garbage}) \cup Returned(s)
                      \cup (IF s.flag = "data" THEN {Data(s.grp, s.seqid % EncSize)} ELSE {})
  <1>1. x # Garbage /\ x[1] = t.grp
    BY DataIsData
  <1>2. known' = {y \in all : y = Garbage \/ \E u \in got' : u.grp = y[1]}
    BY DEF kcpInput
  <1>3. t.grp = s.grp /\ s.flag = "data" /\ pos = s.seqid % EncSize
            => x = Data(s.grp, s.seqid % EncSize)
    OBVIOUS
  <1> HIDE DEF x
  <1>4. x \in all => x \in known'
    BY <1>1, <1>2
  <1>5. x \in known \/ x \in Returned(s) => x \in all
    BY <1>1
  <1>6. s.flag = "data" /\ x = Data(s.grp, s.seqid % EncSize) => x \in all
    OBVIOUS
  <1> QED BY <1>3, <1>4, <1>5, <1>6 DEF x

LEMMA GotStepLost ==
    ASSUME FlowInv, GotInv, NEW s \in net, kcpInput(s), ~Matched
    PROVE  GotInv'
  <1>1. got' = {}
    BY DEF kcpInput
  <1>2. SetsFinite'
    BY SetsFiniteStep DEF GotInv
  <1>3. Matched' => DOMAIN dec'.sets = {}
    <2>1. Matched' => dec' = Decoder(EncDS, EncPS, <<>>, s.grp % Circle, FALSE)
      BY MatchedCases
    <2> DEFINE q == s.grp % Circle
    <2> HIDE DEF q
    <2>2. LET d == Decoder(EncDS, EncPS, <<>>, q, FALSE) IN DOMAIN d.sets = {}
      BY DEF Decoder
    <2> QED BY <2>1, <2>2 DEF q
  <1> QED BY <1>1, <1>2, <1>3 DEF GotInv

LEMMA GotStepMatched ==
    ASSUME FlowInv, KeepInv, KeepInv', GotInv, NEW s \in net, kcpInput(s), Matched
    PROVE  GotInv'
  <1> DEFINE id == s.grp % Circle
             e == Stored(dec, id, Kept(s))
  <1>1. Matched' /\ Arriving(s) /\ DecInv /\ Size(dec) = EncSize /\ Shape(dec)
    <2>1. Matched' /\ Arriving(s) /\ DecInv
      BY MatchedCases DEF FlowInv
    <2> QED BY <2>1, MatchedAgrees DEF Arriving, DecInv
  <1>2. /\ s.grp \in Nat /\ arrived \in Int /\ ShardOK(s)
        /\ arrived' = IF s.grp > arrived THEN s.grp ELSE arrived
        /\ MaxShardSets \in Nat /\ MaxLag \in Nat
    BY <1>1, Arrival, SizeFacts DEF Arriving
  <1>3. arrived' \in Nat /\ arrived' >= arrived /\ s.grp <= arrived'
    BY <1>2
  <1>4. got' = {t \in got \cup {s} : t.grp + MaxShardSets > arrived'}
    BY <1>1 DEF kcpInput, DecInv
  <1>5. ASSUME NEW t \in got'
        PROVE  /\ ShardOK(t) /\ t.grp \in Nat /\ t.grp <= arrived' /\ Fresh(t.grp)'
               /\ t \in got \/ t = s
    <2>1. t \in got \/ t = s
      BY <1>4
    <2>2. ShardOK(t) /\ (t \in got => t.grp <= arrived)
      BY <1>2, <2>1 DEF GotInv
    <2>3. t.grp \in Nat
      BY <2>2, ShardFacts
    <2>4. Fresh(t.grp)'
      BY <1>4 DEF Fresh
    <2> QED BY <1>2, <1>3, <2>1, <2>2, <2>3, <2>4
  <1>6. ASSUME NEW t \in got', t.flag = "data"
        PROVE  Data(t.grp, t.seqid % EncSize) \in known'
    <2>1. t.grp \in Nat /\ t.seqid % EncSize \in Nat
      BY <1>5, ShardFacts
    <2>2. CASE t \in got
      <3>1. Data(t.grp, t.seqid % EncSize) \in known
        BY <1>6, <2>2 DEF GotInv
      <3> QED BY <2>1, <3>1, KnownGrows
    <2>3. CASE t = s
      BY <1>6, <2>1, <2>3, KnownGrows
    <2> QED BY <1>5, <2>2, <2>3
  <1>7. ASSUME NEW t \in got', Complete(t.grp) PROVE Complete(t.grp)'
    <2>1. SUFFICES ASSUME NEW pos \in 0..(EncDS - 1) PROVE Data(t.grp, pos) \in known'
      BY DEF Complete
    <2>2. pos \in Nat /\ t.grp \in Nat
      BY <1>5, SizeFacts
    <2>3. Data(t.grp, pos) \in known
      BY <1>7 DEF Complete
    <2> QED BY <2>2, <2>3, KnownGrows
  <1>8. ASSUME NEW g \in Nat, g <= arrived', Fresh(g)'
        PROVE  ~TooOld(dec', g % Circle)
    <2>1. PICK n \in Nat : KeptAt(n)'
      BY <1>1 DEF KeepInv
    <2>2. dec'.newest = n % Circle /\ n + MaxLag >= arrived' /\ n <= arrived'
      BY <1>3, <2>1 DEF KeptAt
    <2>3. Size(dec') = EncSize
      BY <1>1 DEF Matched, Size, EncSize
    <2>4. g + MaxShardSets > arrived'
      BY <1>8 DEF Fresh
    <2> QED BY <1>3, <1>8, <2>2, <2>3, <2>4, FreshIsKept
  <1>9. ASSUME NEW g \in Nat, Fresh(g)' PROVE Fresh(g)
    BY <1>2, <1>3, <1>9 DEF Fresh
  <1>10. /\ s \in Pushed(s) /\ \A t \in Pushed(s) : ShardOK(t) /\ t.grp = s.grp
         /\ Pushed(s) = ShardsOf(dec, id) \cup {s}
    <2>1. getShardId(s.seqid) = id
      BY <1>1, MatchedAgrees DEF Arriving
    <2> QED BY <1>1, <2>1, PushedOneGroup DEF Pushed
  <1>11. ASSUME NEW t \in Pushed(s), Fresh(s.grp)' PROVE t \in got'
    <2>1. CASE t = s
      BY <1>4, <1>11, <2>1 DEF Fresh
    <2>2. CASE t \in ShardsOf(dec, id)
      <3>1. Fresh(t.grp) /\ t.grp = s.grp
        BY <1>2, <1>9, <1>10, <1>11
      <3>2. t \in got
        BY <2>2, <3>1 DEF ShardsOf, GotInv
      <3> QED BY <1>4, <1>11, <3>1, <3>2 DEF Fresh
    <2> QED BY <1>10, <2>1, <2>2
  <1>12. SetsFinite'
    BY SetsFiniteStep DEF GotInv
  <1>13. CASE Doubled(s) /\ dec' = dec
    <2>1. s \in ShardsOf(dec, id) /\ s.grp <= arrived
      <3>1. getShardId(s.seqid) = id
        BY <1>1, MatchedAgrees DEF Arriving
      <3> QED BY <1>1, <1>13, <3>1, DoubledIsOld
    <2>2. id \in DOMAIN dec.sets /\ s \in dec.sets[id]
      BY <2>1 DEF ShardsOf
    <2>3. arrived' = arrived
      BY <1>2, <2>1
    <2>4. Fresh(s.grp) => s \in got
      BY <2>2 DEF GotInv
    <2>5. got' \subseteq got
      BY <1>4, <2>3, <2>4 DEF Fresh
    <2>6. ASSUME NEW t \in got' PROVE Complete(t.grp)' \/ Collecting(t.grp)'
      <3>1. CASE Complete(t.grp)
        BY <1>7, <3>1
      <3>2. CASE Collecting(t.grp)
        BY <1>13, <2>5, <3>2 DEF Collecting
      <3> QED BY <2>5, <3>1, <3>2 DEF GotInv
    <2>7. \A i \in DOMAIN dec'.sets : \A t \in dec'.sets[i] : Fresh(t.grp)' => t \in got'
      <3>1. SUFFICES ASSUME NEW i \in DOMAIN dec.sets, NEW t \in dec.sets[i], Fresh(t.grp)'
                     PROVE  t \in got'
        BY <1>13
      <3>2. Fresh(t.grp)
        BY <2>3, <3>1 DEF Fresh
      <3>3. t \in got
        BY <3>1, <3>2 DEF GotInv
      <3> QED BY <1>4, <3>1, <3>3 DEF Fresh
    <2> QED BY <1>1, <1>5, <1>6, <1>12, <2>6, <2>7 DEF GotInv
  <1>14. CASE /\ ~Doubled(s) /\ dec' = e
              /\ Returned(s) = IF Enough(dec, Pushed(s))
                               THEN Recovered(dec, Pushed(s)) ELSE {}
    <2>1. /\ DOMAIN dec'.sets = {i \in DOMAIN dec.sets \cup {id} : ~TooOld(dec', i)}
          /\ \A i \in DOMAIN dec'.sets :
                 dec'.sets[i] = IF i = id THEN Kept(s) ELSE dec.sets[i]
      <3> DEFINE k == Kept(s)
      <3>1. dec' = Stored(dec, id, k)
        BY <1>14
      <3> HIDE DEF id, k
      <3>2. LET f == Stored(dec, id, k)
            IN  /\ DOMAIN f.sets = {i \in DOMAIN dec.sets \cup {id} : ~TooOld(f, i)}
                /\ \A i \in DOMAIN f.sets : f.sets[i] = IF i = id THEN k ELSE dec.sets[i]
        BY <1>1, StoredIs
      <3> QED BY <3>1, <3>2 DEF k
    <2> HIDE DEF e
    <2>2. \A i \in DOMAIN dec'.sets : \A t \in dec'.sets[i] : Fresh(t.grp)' => t \in got'
      <3>1. SUFFICES ASSUME NEW i \in DOMAIN dec'.sets, NEW t \in dec'.sets[i], Fresh(t.grp)'
                     PROVE  t \in got'
        OBVIOUS
      <3>2. CASE i = id
        <4>1. t \in Pushed(s)
          BY <2>1, <3>2 DEF Kept
        <4>2. t.grp = s.grp
          BY <1>10, <4>1
        <4> QED BY <1>11, <3>1, <4>1, <4>2
      <3>3. CASE i # id
        <4>1. i \in DOMAIN dec.sets /\ t \in dec.sets[i]
          BY <2>1, <3>3
        <4>2. t.grp \in Nat
          BY <1>1, <4>1, ShardFacts DEF DecInv
        <4>3. Fresh(t.grp)
          BY <1>9, <3>1, <4>2
        <4>4. t \in got
          BY <4>1, <4>3 DEF GotInv
        <4> QED BY <1>4, <3>1, <4>4 DEF Fresh
      <3> QED BY <3>2, <3>3
    <2>3. ASSUME NEW t \in got', t.grp # s.grp PROVE Complete(t.grp)' \/ Collecting(t.grp)'
      <3>1. /\ t \in got /\ t.grp \in Nat /\ t.grp <= arrived' /\ Fresh(t.grp)'
            /\ t.grp <= arrived /\ Fresh(t.grp)
        BY <1>5, <1>9, <2>3 DEF GotInv
      <3>2. CASE Complete(t.grp)
        BY <1>7, <3>2
      <3>3. CASE Collecting(t.grp)
        <4> DEFINE j == t.grp % Circle
        <4>1. j # id
          BY <1>1, <2>3, <3>1, FreshApart
        <4>2. ~TooOld(dec', j)
          BY <1>8, <3>1
        <4>3. j \in DOMAIN dec'.sets /\ dec'.sets[j] = dec.sets[j]
          BY <2>1, <3>3, <4>1, <4>2 DEF Collecting
        <4>4. {u \in got' : u.grp = t.grp} \subseteq {u \in got : u.grp = t.grp}
          BY <1>5, <2>3
        <4> QED BY <3>3, <4>3, <4>4 DEF Collecting
      <3> QED BY <3>1, <3>2, <3>3 DEF GotInv
    <2>4. ASSUME NEW t \in got', t.grp = s.grp, ~Enough(dec, Pushed(s))
          PROVE  Complete(t.grp)' \/ Collecting(t.grp)'
      <3>1. ~TooOld(dec', id)
        BY <1>5, <1>8, <2>4
      <3>2. id \in DOMAIN dec'.sets /\ dec'.sets[id] = Pushed(s)
        BY <2>1, <2>4, <3>1 DEF Kept
      <3>3. Cardinality(Pushed(s)) < EncDS
        <4>1. IsFiniteSet(Pushed(s))
          BY <1>12, <3>2 DEF SetsFinite
        <4>2. Cardinality(Pushed(s)) \in Nat
          BY <4>1, FS_CardinalityType
        <4>3. ~(Cardinality(Pushed(s)) >= EncDS)
          BY <2>4 DEF Enough, Matched
        <4> QED BY <4>2, <4>3, SizeFacts
      <3>4. CASE \E u \in got : u.grp = s.grp /\ Complete(u.grp)
        BY <1>7, <2>4, <3>4
      <3>5. CASE \A u \in got : u.grp = s.grp => ~Complete(u.grp)
        <4>1. ASSUME NEW u \in got', u.grp = s.grp PROVE u \in Pushed(s)
          <5>1. CASE u = s
            BY <1>10, <5>1
          <5>2. CASE u \in got
            <6>1. Collecting(u.grp)
              BY <3>5, <4>1, <5>2 DEF GotInv
            <6>2. u \in ShardsOf(dec, id)
              BY <4>1, <5>2, <6>1 DEF Collecting, ShardsOf
            <6> QED BY <1>10, <6>2
          <5> QED BY <1>5, <5>1, <5>2
        <4>2. {u \in got' : u.grp = t.grp} \subseteq dec'.sets[id]
          BY <2>4, <3>2, <4>1
        <4> QED BY <2>4, <3>2, <3>3, <4>2 DEF Collecting
      <3> QED BY <3>4, <3>5
    <2>5. ASSUME NEW t \in got', t.grp = s.grp, Enough(dec, Pushed(s))
          PROVE  Complete(t.grp)'
      <3>1. SUFFICES ASSUME NEW pos \in 0..(EncDS - 1) PROVE Data(s.grp, pos) \in known'
        BY <2>5 DEF Complete
      <3>2. pos \in Nat /\ pos < EncDS
        BY SizeFacts
      <3>3. Fresh(s.grp)'
        BY <1>5, <2>5
      <3>4. ASSUME NEW u \in Pushed(s), u.seqid % EncSize = pos
            PROVE  Data(s.grp, pos) \in known'
        <4>1. u \in got' /\ u.grp = s.grp /\ ShardOK(u)
          BY <1>10, <1>11, <3>3
        <4>2. u.flag = "data"
          BY <3>2, <3>4, <4>1, ShardFacts
        <4> QED BY <1>6, <3>4, <4>1, <4>2
      <3>5. CASE Cardinality({u \in Pushed(s) : u.flag = "data"}) = EncDS
        <4>1. IsFiniteSet(Pushed(s))
          <5>1. IsFiniteSet(ShardsOf(dec, id))
            BY FS_EmptySet DEF GotInv, SetsFinite, ShardsOf
          <5> QED BY <1>10, <5>1, FS_AddElement
        <4>2. \A p \in 0..(EncDS - 1) :
                \E u \in Pushed(s) : u.flag = "data" /\ u.seqid % EncSize = p
          BY <1>10, <3>5, <4>1, AllData
        <4> QED BY <3>4, <4>2
      <3>6. CASE Cardinality({u \in Pushed(s) : u.flag = "data"}) # EncDS
        <4>1. Returned(s) = {Data(s.grp, p) : p \in Missing(s)}
          BY <1>1, <1>14, <2>5, <3>6, RecoveredIs
        <4>2. CASE pos \in Missing(s)
          <5>1. Data(t.grp, pos) \in Returned(s)
            BY <2>5, <4>1, <4>2
          <5> QED BY <1>2, <2>5, <3>2, <5>1, KnownGrows
        <4>3. CASE pos \notin Missing(s)
          BY <3>4, <4>3 DEF Missing
        <4> QED BY <4>2, <4>3
      <3> QED BY <3>5, <3>6
    <2> QED BY <1>1, <1>5, <1>6, <1>12, <2>2, <2>3, <2>4, <2>5 DEF GotInv
  <1> QED BY <1>13, <1>14, MatchedCases

LEMMA GotStep ==
    ASSUME SentInv, SentInv', GotInv, [Next]_vars
    PROVE  GotInv'
  <1>1. CASE Encode
    BY <1>1 DEF Encode, GotInv, Fresh, Complete, Collecting, SetsFinite, Matched
  <1>2. ASSUME NEW s \in net, kcpInput(s) PROVE GotInv'
    <2>1. CASE Matched
      BY <1>2, <2>1, GotStepMatched DEF SentInv
    <2>2. CASE ~Matched
      BY <1>2, <2>2, GotStepLost DEF SentInv
    <2> QED BY <2>1, <2>2
  <1>3. CASE UNCHANGED vars
    BY <1>3 DEF vars, GotInv, Fresh, Complete, Collecting, SetsFinite, Matched
  <1> QED BY <1>1, <1>2, <1>3 DEF Next

(***************************************************************************)
(* Of every recent group KCP has all the data, or the decoder still holds  *)
(* everything that decode was given of it.                                 *)
(***************************************************************************)
THEOREM NothingDropped == Spec => []GotInv
  <1>1. Init => GotInv
    <2> SUFFICES ASSUME Init PROVE GotInv
      OBVIOUS
    <2>1. PICK d \in DecParams :
            dec = [ds |-> d[1], ps |-> d[2], sets |-> <<>>, newest |-> 0, tune |-> FALSE]
      BY DEF Init
    <2>2. DOMAIN dec.sets = {}
      BY <2>1
    <2>3. got = {}
      BY DEF Init
    <2> QED BY <2>2, <2>3 DEF GotInv, SetsFinite
  <1>2. SentInv /\ SentInv' /\ GotInv /\ [Next]_vars => GotInv'
    BY GotStep
  <1> QED BY SetsAreOfOneGroup, <1>1, <1>2, PTL DEF Spec

(***************************************************************************)
(* As soon as decode has been given as many packets of a recent group as   *)
(* the group has data packets, KCP has all of these.                       *)
(***************************************************************************)
THEOREM RecoversInTime == Spec => []EnoughIsRecovered
  <1>1. GotInv => EnoughIsRecovered
    <2>1. SUFFICES ASSUME GotInv, NEW s \in got,
                          Cardinality({t.seqid : t \in {u \in got : u.grp = s.grp}}) >= EncDS
                   PROVE  Complete(s.grp)
      BY DEF EnoughIsRecovered, Complete
    <2>2. SUFFICES ASSUME Collecting(s.grp) PROVE FALSE
      BY <2>1 DEF GotInv
    <2> DEFINE G == {u \in got : u.grp = s.grp}
               K == dec.sets[s.grp % Circle]
               f == [t \in G |-> t.seqid]
               R == {t.seqid : t \in G}
    <2>3. IsFiniteSet(K) /\ G \subseteq K /\ Cardinality(K) < EncDS
      BY <2>1, <2>2 DEF Collecting, GotInv, SetsFinite
    <2> HIDE DEF G, K
    <2>4. IsFiniteSet(G) /\ Cardinality(G) <= Cardinality(K)
      BY <2>3, FS_Subset
    <2>5. f \in Surjection(G, R)
      BY DEF Surjection
    <2>6. IsFiniteSet(R) /\ Cardinality(R) <= Cardinality(G)
      <3> HIDE DEF f, R
      <3> QED BY <2>4, <2>5, FS_Surjection
    <2>7. /\ Cardinality(R) \in Nat /\ Cardinality(G) \in Nat /\ Cardinality(K) \in Nat
      BY <2>3, <2>4, <2>6, FS_CardinalityType
    <2>8. Cardinality(R) >= EncDS
      BY <2>1 DEF G
    <2> HIDE DEF R
    <2> QED BY <2>3, <2>4, <2>6, <2>7, <2>8, SizeFacts
  <1> QED BY NothingDropped, <1>1, PTL

-----------------------------------------------------------------------------
(***************************************************************************)
(* Type correctness.                                                       *)
(***************************************************************************)
KnownType ==
    /\ \A t \in got : ShardOK(t) /\ t.grp <= MaxGroups
    /\ known \subseteq ((0..MaxGroups) \X (0..(EncDS - 1))) \cup {Garbage}

LEMMA DataType ==
    ASSUME NEW g \in Nat, g <= MaxGroups, NEW pos \in 0..(EncDS - 1)
    PROVE  Data(g, pos) \in (0..MaxGroups) \X (0..(EncDS - 1))
  BY SizeFacts DEF Data

LEMMA KnownTypeStep ==
    ASSUME FlowInv, KnownType, NEW s \in net, kcpInput(s)
    PROVE  KnownType'
  <1> DEFINE Packets == ((0..MaxGroups) \X (0..(EncDS - 1))) \cup {Garbage}
             P == Pushed(s)
             c == CHOOSE t \in P : TRUE
  <1>1. ShardOK(s) /\ s.grp \in Nat /\ s.grp <= MaxGroups
    BY Arrival
  <1>2. \A t \in P : ShardOK(t) /\ t.grp \in Nat /\ t.grp <= MaxGroups
    BY <1>1, ShardFacts DEF Pushed, ShardsOf, FlowInv, DecInv
  <1>3. c.grp \in Nat /\ c.grp <= MaxGroups
    <2>1. s \in P
      BY DEF Pushed
    <2>2. c \in P
      BY <2>1
    <2> QED BY <1>2, <2>2
  <1>4. Recovered(dec, P) \subseteq Packets
    <2>1. Recovered(dec, P) \in
            { {}, {Garbage},
              {Data(c.grp, pos) : pos \in {x \in 0..(dec.ds - 1) :
                       \A t \in P : t.seqid % Size(dec) # x}} }
          /\ (Recovered(dec, P) \in {{}, {Garbage}} \/ dec.ds = EncDS)
      <3> HIDE DEF P
      <3> QED BY DEF Recovered
    <2> HIDE DEF c, P
    <2>2. dec.ds = EncDS =>
            \A pos \in 0..(dec.ds - 1) : Data(c.grp, pos) \in Packets
      BY <1>3, DataType
    <2> QED BY <2>1, <2>2
  <1>5. Returned(s) \subseteq Packets
    BY <1>4 DEF Returned
  <1>6. s.flag = "data" => Data(s.grp, s.seqid % EncSize) \in Packets
    <2>1. s.flag = "data" => s.seqid % EncSize \in 0..(EncDS - 1)
      BY <1>1, ShardFacts, SizeFacts
    <2> QED BY <1>1, <2>1, DataType
  <1>7. known' \subseteq known \cup Returned(s)
            \cup (IF s.flag = "data" THEN {Data(s.grp, s.seqid % EncSize)} ELSE {})
    BY DEF kcpInput
  <1>8. known' \subseteq Packets
    BY <1>5, <1>6, <1>7 DEF KnownType
  <1>9. \A t \in got' : t \in got \/ t = s
    BY DEF kcpInput
  <1> QED BY <1>1, <1>8, <1>9 DEF KnownType

LEMMA ShardType ==
    ASSUME NEW t, ShardOK(t), t.grp <= MaxGroups
    PROVE  t \in Shards
  <1>1. t.seqid \in Seqids /\ t.grp \in 0..MaxGroups
    BY ShardFacts, RoundFacts, SizeFacts DEF Seqids
  <1> QED BY <1>1 DEF ShardOK, Shards

(***************************************************************************)
(* Every variable of the encoder, the decoder and the tuner has its type.  *)
(***************************************************************************)
THEOREM TypeCorrect == Spec => []TypeOK
  <1>1. Init => KnownType
    BY DEF Init, KnownType
  <1>2. FlowInv /\ KnownType /\ [Next]_vars => KnownType'
    <2> SUFFICES ASSUME FlowInv, KnownType, [Next]_vars PROVE KnownType'
      OBVIOUS
    <2>1. CASE Encode
      BY <2>1 DEF Encode, KnownType
    <2>2. ASSUME NEW s \in net, kcpInput(s) PROVE KnownType'
      BY <2>2, KnownTypeStep
    <2>3. CASE UNCHANGED vars
      BY <2>3 DEF vars, KnownType
    <2> QED BY <2>1, <2>2, <2>3 DEF Next
  <1>3. FlowInv /\ KnownType => TypeOK
    <2> SUFFICES ASSUME FlowInv, KnownType PROVE TypeOK
      OBVIOUS
    <2>1. enc \in [next : Seqids, count : 0..(EncDS - 1), grp : 0..MaxGroups]
      <3>1. enc.grp \in Nat /\ enc.count \in Nat /\ enc.count < EncSize
        BY SizeFacts DEF FlowInv, EncInv
      <3>2. enc.next \in Nat /\ enc.next < Paws(EncSize)
        BY <3>1, PositionFacts DEF FlowInv, EncInv
      <3>3. enc.next \in Seqids
        BY <3>2, RoundFacts DEF Seqids
      <3> QED BY <3>3 DEF FlowInv, EncInv
    <2>2. \A id \in DOMAIN dec.sets : id \in Seqids /\ dec.sets[id] \subseteq Shards
      BY ShardType DEF FlowInv, DecInv
    <2>3. samples \in Seq([bit : BOOLEAN, seq : Seqids]) /\ Len(samples) <= MaxSamples
      <3>1. \A x \in Pulses : x \in [bit : BOOLEAN, seq : Seqids]
        BY RoundFacts DEF Pulses, Seqids
      <3>2. samples \in Seq(Pulses) /\ Len(samples) <= MaxSamples
        BY DEF FlowInv, SampleInv
      <3>3. ASSUME NEW T, Pulses \subseteq T PROVE samples \in Seq(T)
        <4>1. samples = [i \in 1..Len(samples) |-> samples[i]] /\ Len(samples) \in Nat
          BY <3>2
        <4>2. \A i \in 1..Len(samples) : samples[i] \in T
          BY <3>2, <3>3
        <4> QED BY <4>1, <4>2
      <3> QED BY <3>1, <3>2, <3>3
    <2>4. arrived \in -1..MaxGroups
      BY SizeFacts DEF FlowInv, NetInv, EncInv
    <2>5. net \subseteq Shards
      <3>1. SUFFICES ASSUME NEW t \in net PROVE t \in Shards
        OBVIOUS
      <3>2. ShardOK(t) /\ t.grp <= enc.grp /\ enc.grp \in 0..MaxGroups
        BY DEF FlowInv, NetInv, EncInv
      <3>3. t.grp <= MaxGroups
        BY <3>2, ShardFacts, SizeFacts
      <3> QED BY <3>2, <3>3, ShardType
    <2>6. got \subseteq Shards
      BY ShardType DEF KnownType
    <2> QED BY <2>1, <2>2, <2>3, <2>4, <2>5, <2>6 DEF TypeOK, KnownType, FlowInv, DecInv
  <1> QED BY StreamIsRegular, <1>1, <1>2, <1>3, PTL DEF Spec
=============================================================================
