-------------------------- MODULE TimedSchedProofs --------------------------
(***************************************************************************)
(* Theorems about TimedSched, for any slack, any deadlines and any number  *)
(* of calls of Put.                                                        *)
(***************************************************************************)
EXTENDS TimedSched, TLAPS, FiniteSetTheorems, SequenceTheorems

LEMMA Constants ==
    /\ MaxPuts \in Nat /\ MaxTime \in Nat /\ Slack \in Nat
    /\ \A n \in Int : n # None
  BY BoundsAssumption, NoneAssumption

(***************************************************************************)
(* pop returns every task of S once.                                       *)
(***************************************************************************)
LEMMA OrderIsExact ==
    ASSUME NEW S, IsFiniteSet(S), NEW s \in InOrder(S)
    PROVE  /\ Cardinality(S) \in Nat /\ s \in Seq(S) /\ Len(s) = Cardinality(S)
           /\ DOMAIN s = 1..Cardinality(S)
           /\ \A i, j \in DOMAIN s : s[i] = s[j] => i = j
           /\ \A f \in S : \E i \in DOMAIN s : s[i] = f
           /\ \A i \in DOMAIN s : s[i] \in S
  <1> DEFINE n == Cardinality(S)
  <1>1. n \in Nat
    BY FS_CardinalityType
  <1>2. s \in [1..n -> S] /\ \A i, j \in 1..n : i < j => s[i] # s[j]
    BY DEF InOrder
  <1> HIDE DEF n
  <1>3. \A i, j \in 1..n : i # j => s[i] # s[j]
    <2> SUFFICES ASSUME NEW i \in 1..n, NEW j \in 1..n, i # j PROVE s[i] # s[j]
      OBVIOUS
    <2>1. i < j \/ j < i
      BY <1>1
    <2> QED
      BY <1>2, <2>1
  <1>4. s \in Injection(1..n, S)
    BY <1>2, <1>3 DEF Injection, IsInjective
  <1>5. Cardinality(1..n) = n
    <2>1. 1 \in Int /\ n \in Int
      BY <1>1
    <2>2. Cardinality(1..n) = IF 1 > n THEN 0 ELSE n - 1 + 1
      BY <2>1, FS_Interval
    <2> QED
      BY <1>1, <2>2
  <1>6. s \in Surjection(1..n, S)
    BY <1>4, <1>5, FS_Injection DEF n
  <1>7. s \in Seq(S) /\ Len(s) = n /\ DOMAIN s = 1..n
    BY <1>1, <1>2
  <1> QED
    BY <1>1, <1>2, <1>3, <1>6, <1>7 DEF n, Surjection

-----------------------------------------------------------------------------
(***************************************************************************)
(* The inductive invariant.  Tasks have identities, and each is at one     *)
(* place; the goroutine has tasks to run exactly when it runs them, and    *)
(* they were ripe when it took them; it has a duration when it is about to *)
(* reset its timer.                                                        *)
(***************************************************************************)
RunInv ==
    /\ pc = "execute" <=> due # <<>>
    /\ \A i \in DOMAIN due : due[i].ts <= now + Slack
    /\ pc = "reset" => wait # None

PlaceInv ==
    /\ \A k \in 1..puts : \/ \E f \in tasks : f.id = k
                          \/ \E i \in DOMAIN due : due[i].id = k
                          \/ \E f \in ran : f.id = k
    /\ \A f \in tasks : f.id <= puts
    /\ \A i \in DOMAIN due : due[i].id <= puts
    /\ \A f \in ran : f.id <= puts

ApartInv ==
    /\ \A f, g \in tasks : f.id = g.id => f = g
    /\ \A i, j \in DOMAIN due : due[i].id = due[j].id => i = j
    /\ \A f \in tasks, g \in ran : f.id # g.id
    /\ \A f \in tasks, i \in DOMAIN due : f.id # due[i].id
    /\ \A f \in ran, i \in DOMAIN due : f.id # due[i].id

CountInv ==
    /\ IsFiniteSet(tasks) /\ IsFiniteSet(ran)
    /\ Cardinality(tasks) + Len(due) + Cardinality(ran) = puts

IInv == TypeOK /\ RunInv /\ PlaceInv /\ ApartInv /\ CountInv /\ NoLostWakeup

LEMMA TaskFields ==
    ASSUME TypeOK
    PROVE  /\ \A f \in tasks \cup ran : f \in Task /\ f.id \in Nat /\ f.ts \in Nat
           /\ \A i \in DOMAIN due : due[i] \in Task /\ due[i].id \in Nat /\ due[i].ts \in Nat
           /\ puts \in Nat /\ now \in Nat /\ Slack \in Nat /\ MaxPuts \in Nat
           /\ due \in Seq(Task) /\ Len(due) \in Nat
  <1>1. \A f \in Task : f.id \in Nat /\ f.ts \in Nat
    BY DEF Task
  <1>2. due \in Seq(Task) /\ tasks \cup ran \subseteq Task
    BY DEF TypeOK
  <1>3. Len(due) \in Nat /\ \A i \in DOMAIN due : due[i] \in Task
    BY <1>2
  <1> QED
    BY <1>1, <1>2, <1>3, Constants DEF TypeOK

LEMMA SameTasks ==
    ASSUME PlaceInv, ApartInv, CountInv, UNCHANGED <<tasks, due, ran, puts>>
    PROVE  PlaceInv' /\ ApartInv' /\ CountInv'
  BY DEF PlaceInv, ApartInv, CountInv

(***************************************************************************)
(* Put.                                                                    *)
(***************************************************************************)
LEMMA PutKeeps ==
    ASSUME IInv, NEW ts \in 0..MaxTime, Put(ts)
    PROVE  IInv'
  <1> DEFINE f == [id |-> puts + 1, ts |-> ts]
  <1>1. /\ pc # "arm" /\ puts < MaxPuts /\ puts' = puts + 1 /\ tasks' = tasks \cup {f}
        /\ wakers' = IF Sooner(f) THEN wakers \cup {f.id} ELSE wakers
        /\ UNCHANGED <<now, armed, wake, pc, wait, timer, due, ran, die>>
    BY DEF Put
  <1>2. /\ \A g \in tasks \cup ran : g.id \in Nat /\ g.ts \in Nat
        /\ \A i \in DOMAIN due : due[i].id \in Nat
        /\ puts \in Nat /\ MaxPuts \in Nat /\ Len(due) \in Nat
    BY TaskFields DEF IInv
  <1>3. f \in Task /\ f.id = puts + 1 /\ f.ts = ts /\ ts \in Nat /\ f.id \in 1..MaxPuts
    BY <1>1, <1>2, Constants DEF Task
  <1> HIDE DEF f
  <1>4. TypeOK'
    <2>1. tasks' \in SUBSET Task
      BY <1>1, <1>3 DEF IInv, TypeOK
    <2>2. puts' \in 0..MaxPuts
      BY <1>1, <1>2
    <2>3. wakers' \subseteq 1..MaxPuts
      BY <1>1, <1>3 DEF IInv, TypeOK
    <2> QED
      BY <1>1, <2>1, <2>2, <2>3 DEF IInv, TypeOK
  <1>5. RunInv'
    BY <1>1 DEF IInv, RunInv
  <1>6. /\ \A g \in tasks : g.id # f.id /\ g.id <= puts'
        /\ \A g \in ran : g.id # f.id /\ g.id <= puts'
        /\ \A i \in DOMAIN due : due[i].id # f.id /\ due[i].id <= puts'
        /\ f.id <= puts'
    BY <1>1, <1>2, <1>3 DEF IInv, PlaceInv
  <1>7. PlaceInv'
    <2>1. ASSUME NEW k \in 1..puts'
          PROVE  \/ \E g \in tasks' : g.id = k
                 \/ \E i \in DOMAIN due' : due'[i].id = k
                 \/ \E g \in ran' : g.id = k
      <3>1. k \in 1..puts \/ k = f.id
        BY <1>1, <1>2, <1>3, <2>1
      <3> QED
        BY <1>1, <3>1 DEF IInv, PlaceInv
    <2> QED
      BY <1>1, <1>6, <2>1 DEF PlaceInv
  <1>8. ApartInv'
    BY <1>1, <1>6 DEF IInv, ApartInv
  <1>9. CountInv'
    <2>1. IsFiniteSet(tasks') /\ Cardinality(tasks') = Cardinality(tasks) + 1
      BY <1>1, <1>6, FS_AddElement DEF IInv, CountInv
    <2>2. Cardinality(tasks) \in Nat /\ Cardinality(ran) \in Nat
      BY FS_CardinalityType DEF IInv, CountInv
    <2> QED
      BY <1>1, <1>2, <2>1, <2>2 DEF IInv, CountInv
  <1>10. NoLostWakeup'
    <2>1. CASE Sooner(f)
      <3>1. wakers' # {}
        BY <1>1, <2>1
      <3> QED
        BY <1>1, <3>1 DEF IInv, NoLostWakeup
    <2>2. CASE ~Sooner(f)
      <3> SUFFICES ASSUME pc \in {"reset", "select"}, ~wake, wakers = {}
                   PROVE  armed # None /\ \A g \in tasks' : armed <= g.ts
        BY <1>1, <2>2 DEF IInv, NoLostWakeup
      <3>1. \A g \in tasks : armed # None /\ armed <= g.ts
        BY DEF IInv, NoLostWakeup
      <3>2. CASE \E g \in tasks : ~(f.ts <= g.ts)
        <4>1. PICK g \in tasks : ~(f.ts <= g.ts)
          BY <3>2
        <4>2. armed # None /\ armed <= g.ts /\ armed \in Nat /\ g.ts \in Nat /\ f.ts \in Nat
          BY <1>2, <1>3, <3>1 DEF IInv, TypeOK
        <4>3. armed <= f.ts
          BY <4>1, <4>2
        <4> QED
          BY <1>1, <3>1, <4>2, <4>3
      <3>3. CASE \A g \in tasks : f.ts <= g.ts
        <4>1. IsHead(f, tasks \cup {f})
          BY <1>3, <3>3 DEF IsHead
        <4>2. armed # None /\ ~(f.ts < armed)
          BY <2>2, <4>1 DEF Sooner
        <4>3. armed <= f.ts
          BY <1>3, <4>2 DEF IInv, TypeOK
        <4> QED
          BY <1>1, <3>1, <4>2, <4>3
      <3> QED
        BY <3>2, <3>3
    <2> QED
      BY <2>1, <2>2
  <1> QED
    BY <1>4, <1>5, <1>7, <1>8, <1>9, <1>10 DEF IInv

LEMMA SendWakeKeeps ==
    ASSUME IInv, NEW i \in 1..MaxPuts, SendWake(i)
    PROVE  IInv'
  <1>1. /\ wakers' = wakers \ {i} /\ wake' = TRUE
        /\ UNCHANGED <<now, tasks, armed, puts, pc, wait, timer, due, ran, die>>
    BY DEF SendWake
  <1>2. wake' \in BOOLEAN /\ wakers' \subseteq 1..MaxPuts
    BY <1>1 DEF IInv, TypeOK
  <1>3. TypeOK'
    BY <1>1, <1>2 DEF IInv, TypeOK
  <1>4. RunInv' /\ NoLostWakeup'
    BY <1>1 DEF IInv, RunInv, NoLostWakeup
  <1> QED
    BY <1>1, <1>3, <1>4, SameTasks DEF IInv

-----------------------------------------------------------------------------
(***************************************************************************)
(* The steps of run, and time.                                             *)
(***************************************************************************)
LEMMA CollectKeeps ==
    ASSUME IInv, Collect
    PROVE  IInv'
  <1>1. /\ pc = "collect" /\ due' \in InOrder(Ripe) /\ tasks' = tasks \ Ripe /\ armed' = None
        /\ pc' = IF Ripe # {} THEN "execute" ELSE IF tasks # {} THEN "arm" ELSE "select"
        /\ UNCHANGED <<now, wake, puts, wakers, wait, timer, ran, die>>
    BY DEF Collect, Collected
  <1>2. /\ \A g \in tasks \cup ran : g \in Task /\ g.id \in Nat /\ g.ts \in Nat
        /\ now \in Nat /\ Slack \in Nat /\ puts \in Nat
    BY TaskFields DEF IInv
  <1>3. Ripe \in SUBSET tasks /\ \A f \in Ripe : f.ts <= now + Slack
    BY DEF Ripe
  <1>4. IsFiniteSet(Ripe) /\ IsFiniteSet(tasks)
    BY <1>3, FS_Subset DEF IInv, CountInv
  <1>5. /\ Cardinality(Ripe) \in Nat /\ due' \in Seq(Ripe) /\ Len(due') = Cardinality(Ripe)
        /\ DOMAIN due' = 1..Cardinality(Ripe)
        /\ \A i, j \in DOMAIN due' : due'[i] = due'[j] => i = j
        /\ \A f \in Ripe : \E i \in DOMAIN due' : due'[i] = f
        /\ \A i \in DOMAIN due' : due'[i] \in Ripe
    BY <1>1, <1>4, OrderIsExact
  <1>6. due = <<>>
    BY <1>1 DEF IInv, RunInv
  <1>7. TypeOK'
    <2>1. due' \in Seq(Task)
      BY <1>2, <1>3, <1>5
    <2>2. tasks' \in SUBSET Task /\ armed' \in Nat \cup {None}
      BY <1>1 DEF IInv, TypeOK
    <2>3. pc' \in {"collect", "arm", "reset", "execute", "select", "stopped"}
      BY <1>1
    <2> QED
      BY <1>1, <2>1, <2>2, <2>3 DEF IInv, TypeOK
  <1>8. RunInv'
    <2>1. pc' = "execute" <=> Ripe # {}
      BY <1>1
    <2>2. Ripe # {} <=> due' # <<>>
      BY <1>4, <1>5, FS_EmptySet
    <2>3. \A i \in DOMAIN due' : due'[i].ts <= now' + Slack
      BY <1>1, <1>3, <1>5
    <2>4. pc' # "reset"
      BY <1>1
    <2> QED
      BY <2>1, <2>2, <2>3, <2>4 DEF RunInv
  <1>9. PlaceInv'
    <2>1. ASSUME NEW k \in 1..puts'
          PROVE  \/ \E g \in tasks' : g.id = k
                 \/ \E i \in DOMAIN due' : due'[i].id = k
                 \/ \E g \in ran' : g.id = k
      <3>1. (\E g \in tasks : g.id = k) \/ (\E g \in ran : g.id = k)
        BY <1>1, <1>6, <2>1 DEF IInv, PlaceInv
      <3> QED
        BY <1>1, <1>5, <3>1
    <2> QED
      BY <1>1, <1>3, <1>5, <2>1 DEF IInv, PlaceInv
  <1>10. ApartInv'
    <2>1. \A i, j \in DOMAIN due' : due'[i].id = due'[j].id => i = j
      BY <1>3, <1>5 DEF IInv, ApartInv
    <2>2. \A f \in tasks', i \in DOMAIN due' : f.id # due'[i].id
      BY <1>1, <1>3, <1>5 DEF IInv, ApartInv
    <2>3. \A f \in ran, i \in DOMAIN due' : f.id # due'[i].id
      BY <1>3, <1>5 DEF IInv, ApartInv
    <2> QED
      BY <1>1, <2>1, <2>2, <2>3 DEF IInv, ApartInv
  <1>11. CountInv'
    <2>1. tasks \cap Ripe = Ripe
      BY <1>3
    <2>2. IsFiniteSet(tasks') /\ Cardinality(tasks') = Cardinality(tasks) - Cardinality(Ripe)
      BY <1>1, <1>4, <2>1, FS_Difference
    <2>3. Cardinality(tasks) \in Nat /\ Cardinality(ran) \in Nat
      BY FS_CardinalityType DEF IInv, CountInv
    <2>4. Cardinality(tasks) + Cardinality(ran) = puts
      BY <1>6, <2>3 DEF IInv, CountInv
    <2>5. Cardinality(tasks') + Len(due') + Cardinality(ran) = puts
      BY <1>2, <1>5, <2>2, <2>3, <2>4
    <2> QED
      BY <1>1, <2>2, <2>5 DEF IInv, CountInv
  <1>12. NoLostWakeup'
    BY <1>1 DEF NoLostWakeup
  <1> QED
    BY <1>7, <1>8, <1>9, <1>10, <1>11, <1>12 DEF IInv

LEMMA ArmKeeps ==
    ASSUME IInv, Arm
    PROVE  IInv'
  <1>1. /\ pc = "arm" /\ pc' = "reset"
        /\ UNCHANGED <<now, tasks, wake, puts, wakers, timer, due, ran, die>>
    BY DEF Arm
  <1>2. PICK f \in tasks : IsHead(f, tasks) /\ armed' = f.ts /\ wait' = f.ts - now
    BY DEF Arm, Armed, Pending
  <1>3. f.ts \in Nat /\ now \in Nat
    BY TaskFields DEF IInv
  <1>4. armed' \in Nat /\ wait' \in Int /\ armed' # None /\ wait' # None
    BY <1>2, <1>3, Constants
  <1>5. TypeOK'
    BY <1>1, <1>4 DEF IInv, TypeOK
  <1>6. RunInv'
    BY <1>1, <1>4 DEF IInv, RunInv
  <1>7. NoLostWakeup'
    BY <1>1, <1>2, <1>4 DEF NoLostWakeup, IsHead
  <1> QED
    BY <1>1, <1>5, <1>6, <1>7, SameTasks DEF IInv

LEMMA ResetKeeps ==
    ASSUME IInv, ResetTimer
    PROVE  IInv'
  <1>1. /\ pc = "reset" /\ pc' = "select" /\ wait' = None
        /\ timer' = IF wait = None THEN None ELSE IF wait > 0 THEN now + wait ELSE now
        /\ UNCHANGED <<now, tasks, armed, wake, puts, wakers, due, ran, die>>
    BY DEF ResetTimer
  <1>2. wait # None /\ wait \in Int /\ now \in Nat
    BY <1>1 DEF IInv, RunInv, TypeOK
  <1>3. timer' \in Nat /\ timer' # None
    BY <1>1, <1>2, Constants
  <1>4. TypeOK'
    BY <1>1, <1>3 DEF IInv, TypeOK
  <1>5. RunInv'
    BY <1>1 DEF IInv, RunInv
  <1>6. NoLostWakeup'
    BY <1>1, <1>3 DEF IInv, NoLostWakeup
  <1> QED
    BY <1>1, <1>4, <1>5, <1>6, SameTasks DEF IInv

(***************************************************************************)
(* What is left when the first of some tasks is taken.                     *)
(***************************************************************************)
LEMMA TailOfTasks ==
    ASSUME NEW s \in Seq(Task), s # <<>>
    PROVE  /\ 1 \in DOMAIN s /\ Head(s) = s[1] /\ Tail(s) \in Seq(Task)
           /\ Len(Tail(s)) = Len(s) - 1
           /\ \A i \in DOMAIN Tail(s) : i + 1 \in DOMAIN s /\ i + 1 # 1 /\ Tail(s)[i] = s[i + 1]
           /\ \A i \in DOMAIN s : i = 1 \/ (i - 1 \in DOMAIN Tail(s) /\ Tail(s)[i - 1] = s[i])
           /\ \A i, j \in DOMAIN Tail(s) : i + 1 = j + 1 => i = j
           /\ Len(s) = 1 <=> Tail(s) = <<>>
  <1>1. /\ 1 \in DOMAIN s /\ Head(s) = s[1] /\ Tail(s) \in Seq(Task)
        /\ Len(Tail(s)) = Len(s) - 1 /\ Len(s) \in Nat
    OBVIOUS
  <1>2. /\ \A i \in DOMAIN Tail(s) : i + 1 \in DOMAIN s /\ i + 1 # 1 /\ Tail(s)[i] = s[i + 1]
        /\ \A i \in DOMAIN s : i = 1 \/ (i - 1 \in DOMAIN Tail(s) /\ Tail(s)[i - 1] = s[i])
        /\ \A i, j \in DOMAIN Tail(s) : i + 1 = j + 1 => i = j
    OBVIOUS
  <1>3. \A q \in Seq(Task) : q = <<>> <=> Len(q) = 0
    OBVIOUS
  <1>4. Len(s) = 1 <=> Tail(s) = <<>>
    <2> DEFINE r == Tail(s)
    <2>1. r \in Seq(Task) /\ Len(r) = Len(s) - 1
      BY <1>1
    <2> HIDE DEF r
    <2>2. Len(s) = 1 <=> Len(r) = 0
      BY <1>1, <2>1
    <2>3. Len(s) = 1 <=> r = <<>>
      BY <1>3, <2>1, <2>2
    <2> QED
      BY <2>3 DEF r
  <1> QED
    BY <1>1, <1>2, <1>4

LEMMA ExecuteKeeps ==
    ASSUME IInv, Execute
    PROVE  /\ IInv'
           /\ \A f \in ran' \ ran : f.ts <= now + Slack
  <1>1. /\ pc = "execute" /\ ran' = ran \cup {Head(due)} /\ due' = Tail(due)
        /\ pc' = IF Len(due) = 1 THEN "collect" ELSE "execute"
        /\ UNCHANGED <<now, tasks, armed, wake, puts, wakers, wait, timer, die>>
    BY DEF Execute
  <1>2. /\ \A i \in DOMAIN due : due[i] \in Task /\ due[i].id \in Nat
        /\ puts \in Nat /\ due \in Seq(Task) /\ Len(due) \in Nat
    BY TaskFields DEF IInv
  <1>3. due # <<>>
    BY <1>1 DEF IInv, RunInv
  <1>4. /\ 1 \in DOMAIN due /\ Head(due) = due[1] /\ due' \in Seq(Task)
        /\ Len(due') = Len(due) - 1
        /\ \A i \in DOMAIN due' : i + 1 \in DOMAIN due /\ i + 1 # 1 /\ due'[i] = due[i + 1]
        /\ \A i \in DOMAIN due : i = 1 \/ (i - 1 \in DOMAIN due' /\ due'[i - 1] = due[i])
        /\ \A i, j \in DOMAIN due' : i + 1 = j + 1 => i = j
        /\ Len(due) = 1 <=> due' = <<>>
    BY <1>1, <1>2, <1>3, TailOfTasks
  <1>5. TypeOK'
    <2>1. ran' \in SUBSET Task
      BY <1>1, <1>2, <1>4 DEF IInv, TypeOK
    <2>2. pc' \in {"collect", "arm", "reset", "execute", "select", "stopped"}
      BY <1>1
    <2> QED
      BY <1>1, <1>4, <2>1, <2>2 DEF IInv, TypeOK
  <1>6. RunInv'
    <2>1. pc' = "execute" <=> due' # <<>>
      BY <1>1, <1>4
    <2>2. \A i \in DOMAIN due' : due'[i].ts <= now' + Slack
      BY <1>1, <1>4 DEF IInv, RunInv
    <2> QED
      BY <1>1, <2>1, <2>2 DEF IInv, RunInv
  <1>7. PlaceInv'
    <2>1. ASSUME NEW k \in 1..puts'
          PROVE  \/ \E g \in tasks' : g.id = k
                 \/ \E i \in DOMAIN due' : due'[i].id = k
                 \/ \E g \in ran' : g.id = k
      <3>1. \/ \E g \in tasks : g.id = k
            \/ \E i \in DOMAIN due : due[i].id = k
            \/ \E g \in ran : g.id = k
        BY <1>1, <2>1 DEF IInv, PlaceInv
      <3>2. CASE \E i \in DOMAIN due : due[i].id = k
        <4>1. PICK i \in DOMAIN due : due[i].id = k
          BY <3>2
        <4>2. CASE i = 1
          BY <1>1, <1>4, <4>1, <4>2
        <4>3. CASE i - 1 \in DOMAIN due' /\ due'[i - 1] = due[i]
          BY <4>1, <4>3
        <4> QED
          BY <1>4, <4>2, <4>3
      <3> QED
        BY <1>1, <3>1, <3>2
    <2>2. /\ \A f \in tasks' : f.id <= puts'
          /\ \A i \in DOMAIN due' : due'[i].id <= puts'
          /\ \A f \in ran' : f.id <= puts'
      BY <1>1, <1>4 DEF IInv, PlaceInv
    <2> QED
      BY <2>1, <2>2 DEF PlaceInv
  <1>8. ApartInv'
    <2>1. \A i, j \in DOMAIN due' : due'[i].id = due'[j].id => i = j
      BY <1>4 DEF IInv, ApartInv
    <2>2. \A f \in tasks, g \in ran' : f.id # g.id
      BY <1>1, <1>4 DEF IInv, ApartInv
    <2>3. \A f \in tasks, i \in DOMAIN due' : f.id # due'[i].id
      BY <1>4 DEF IInv, ApartInv
    <2>4. \A f \in ran', i \in DOMAIN due' : f.id # due'[i].id
      BY <1>1, <1>4 DEF IInv, ApartInv
    <2> QED
      BY <1>1, <2>1, <2>2, <2>3, <2>4 DEF IInv, ApartInv
  <1>9. CountInv'
    <2>1. Head(due) \notin ran
      BY <1>4 DEF IInv, ApartInv
    <2>2. IsFiniteSet(ran') /\ Cardinality(ran') = Cardinality(ran) + 1
      BY <1>1, <2>1, FS_AddElement DEF IInv, CountInv
    <2>3. Cardinality(tasks) \in Nat /\ Cardinality(ran) \in Nat
      BY FS_CardinalityType DEF IInv, CountInv
    <2>4. Cardinality(tasks) + Len(due) + Cardinality(ran) = puts
      BY DEF IInv, CountInv
    <2>5. Cardinality(tasks) + Len(due') + Cardinality(ran') = puts
      BY <1>2, <1>4, <2>2, <2>3, <2>4
    <2> QED
      BY <1>1, <2>2, <2>5 DEF IInv, CountInv
  <1>10. NoLostWakeup'
    BY <1>1 DEF NoLostWakeup
  <1>11. \A f \in ran' \ ran : f.ts <= now + Slack
    BY <1>1, <1>4 DEF IInv, RunInv
  <1> QED
    BY <1>5, <1>6, <1>7, <1>8, <1>9, <1>10, <1>11 DEF IInv

LEMMA SelectKeeps ==
    ASSUME IInv, Fire \/ WakeUp \/ Stop
    PROVE  IInv'
  <1>1. /\ pc = "select" /\ pc' \in {"collect", "stopped"} /\ timer' = None
        /\ UNCHANGED <<now, tasks, armed, puts, wakers, wait, due, ran, die>>
    BY DEF Fire, WakeUp, Stop
  <1>2. wake' \in BOOLEAN
    BY DEF Fire, WakeUp, Stop, IInv, TypeOK
  <1>3. TypeOK'
    BY <1>1, <1>2 DEF IInv, TypeOK
  <1>4. RunInv' /\ NoLostWakeup'
    BY <1>1 DEF IInv, RunInv, NoLostWakeup
  <1> QED
    BY <1>1, <1>3, <1>4, SameTasks DEF IInv

LEMMA OthersKeep ==
    ASSUME IInv, Close \/ Tick \/ UNCHANGED vars
    PROVE  IInv'
  <1>1. UNCHANGED <<tasks, armed, wake, puts, wakers, pc, wait, timer, due, ran>>
    BY DEF Close, Tick, vars
  <1>2. now' \in Nat /\ now <= now' /\ now \in Nat
    BY DEF Close, Tick, vars, IInv, TypeOK
  <1>3. die' \in BOOLEAN
    BY DEF Close, Tick, vars, IInv, TypeOK
  <1>4. TypeOK'
    BY <1>1, <1>2, <1>3 DEF IInv, TypeOK
  <1>5. RunInv'
    <2>1. \A i \in DOMAIN due : due[i].ts \in Nat /\ Slack \in Nat
      BY TaskFields DEF IInv
    <2>2. \A i \in DOMAIN due : due[i].ts <= now' + Slack
      BY <1>2, <2>1 DEF IInv, RunInv
    <2> QED
      BY <1>1, <2>2 DEF IInv, RunInv
  <1>6. NoLostWakeup'
    BY <1>1 DEF IInv, NoLostWakeup
  <1> QED
    BY <1>1, <1>4, <1>5, <1>6, SameTasks DEF IInv

-----------------------------------------------------------------------------
LEMMA InitInv == Init => IInv
  <1> SUFFICES ASSUME Init PROVE IInv
    OBVIOUS
  <1>1. TypeOK
    <2>1. <<>> \in Seq(Task) /\ 0 \in 0..MaxPuts
      BY Constants
    <2>2. wake \in BOOLEAN /\ die \in BOOLEAN
      BY DEF Init
    <2> QED
      BY <2>1, <2>2 DEF Init, TypeOK
  <1>2. RunInv /\ PlaceInv /\ ApartInv /\ NoLostWakeup
    BY DEF Init, RunInv, PlaceInv, ApartInv, NoLostWakeup
  <1>3. CountInv
    BY FS_EmptySet DEF Init, CountInv
  <1> QED
    BY <1>1, <1>2, <1>3 DEF IInv

LEMMA NextInv == IInv /\ [Next]_vars => IInv'
  BY PutKeeps, SendWakeKeeps, CollectKeeps, ArmKeeps, ResetKeeps, ExecuteKeeps, SelectKeeps,
     OthersKeep DEF Next, run

LEMMA AlwaysInv == Spec => []IInv
  BY InitInv, NextInv, PTL DEF Spec

(***************************************************************************)
(* Every variable keeps its type.                                          *)
(***************************************************************************)
THEOREM TypeCorrect == Spec => []TypeOK
  <1>1. IInv => TypeOK
    BY DEF IInv
  <1> QED
    BY <1>1, AlwaysInv, PTL

(***************************************************************************)
(* A shard never sleeps past its earliest task: its timer is armed for it, *)
(* or the Put that brought it wakes it (run, Put), however calls of Put    *)
(* and the goroutine's arming of its timer interleave.                     *)
(***************************************************************************)
THEOREM ShardWakes == Spec => []NoLostWakeup
  <1>1. IInv => NoLostWakeup
    BY DEF IInv
  <1> QED
    BY <1>1, AlwaysInv, PTL

(***************************************************************************)
(* No task is lost and none is run twice (Put, run, pop).                  *)
(***************************************************************************)
THEOREM TasksAreCounted == Spec => []EachTaskOnce
  <1>1. ASSUME IInv PROVE EachTaskOnce
    <2> DEFINE queued == {f.id : f \in tasks}
               taken == {due[i].id : i \in DOMAIN due}
               done == {f.id : f \in ran}
    <2>1. 1..puts \subseteq queued \cup taken \cup done
      BY <1>1 DEF IInv, PlaceInv
    <2>2. queued \cup taken \cup done \subseteq 1..puts
      <3>1. /\ \A f \in tasks \cup ran : f \in Task /\ f.id \in Nat
            /\ \A i \in DOMAIN due : due[i] \in Task /\ due[i].id \in Nat
            /\ puts \in Nat
        BY <1>1, TaskFields DEF IInv
      <3>2. \A f \in Task : f.id >= 1
        BY DEF Task
      <3> QED
        BY <1>1, <3>1, <3>2 DEF IInv, PlaceInv
    <2> QED
      BY <1>1, <2>1, <2>2 DEF IInv, CountInv, EachTaskOnce
  <1> QED
    BY <1>1, AlwaysInv, PTL

(***************************************************************************)
(* No task runs earlier than schedSlack before its deadline (run).         *)
(***************************************************************************)
THEOREM NoneEarly == Spec => NeverEarly
  <1>1. ASSUME IInv, [Next]_vars
        PROVE  [\A f \in ran' \ ran : f.ts <= now + Slack]_vars
    <2>1. CASE Execute
      BY <1>1, <2>1, ExecuteKeeps
    <2>2. CASE UNCHANGED ran
      BY <2>2
    <2> QED
      BY <1>1, <2>1, <2>2 DEF Next, run, Put, SendWake, Close, Tick, Collect, Arm, ResetTimer,
                              Fire, WakeUp, Stop, vars
  <1> QED
    BY <1>1, AlwaysInv, PTL DEF Spec, NeverEarly
=============================================================================
