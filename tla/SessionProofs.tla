---------------------------- MODULE SessionProofs ----------------------------
(***************************************************************************)
(* Theorems about Session, for any number of callers in any roles, any     *)
(* lengths of messages and slices, and any window.                         *)
(***************************************************************************)
EXTENDS Session, TLAPS, SequenceTheorems

-----------------------------------------------------------------------------
(***************************************************************************)
(* Type correctness.                                                       *)
(***************************************************************************)

(***************************************************************************)
(* What one read takes: a nonempty prefix of the source.                   *)
(***************************************************************************)
LEMMA SubSeqElements ==
    ASSUME NEW S, NEW s \in Seq(S), NEW m \in 0..Len(s)
    PROVE  /\ SubSeq(s, m + 1, Len(s)) \in Seq(S)
           /\ Len(SubSeq(s, m + 1, Len(s))) = Len(s) - m
           /\ \A i \in 1..(Len(s) - m) : SubSeq(s, m + 1, Len(s))[i] = s[m + i]
           /\ SubSeq(s, 1, m) \in Seq(S) /\ Len(SubSeq(s, 1, m)) = m
           /\ \A i \in 1..m : SubSeq(s, 1, m)[i] = s[i]
  OBVIOUS

LEMMA ReadSplits ==
    ASSUME TypeOK, Available, NEW n \in BufLens
    PROVE  LET k == Shorter(n, Len(Source))
           IN  /\ Source \in Seq(Nat) /\ Len(Source) \in Nat /\ k \in 0..Len(Source)
               /\ SubSeq(Source, 1, k) \in Seq(Nat)
               /\ Len(SubSeq(Source, 1, k)) = k
               /\ \A i \in 1..k : SubSeq(Source, 1, k)[i] = Source[i]
               /\ SubSeq(Source, k + 1, Len(Source)) \in Seq(Nat)
               /\ Len(SubSeq(Source, k + 1, Len(Source))) = Len(Source) - k
               /\ \A i \in 1..(Len(Source) - k) :
                      SubSeq(Source, k + 1, Len(Source))[i] = Source[k + i]
               /\ LeftInKcp \in Seq(Seq(Nat))
  <1> DEFINE k == Shorter(n, Len(Source))
  <1>1. rcv \in Seq(Seq(Nat)) /\ input \in Seq(Nat)
    BY DEF TypeOK
  <1>2. Source \in Seq(Nat)
    BY <1>1 DEF Source, Available
  <1>3. LeftInKcp \in Seq(Seq(Nat))
    BY <1>1 DEF LeftInKcp, Source, Available
  <1>4. n \in Nat
    BY LengthsAssumption
  <1>5. Len(Source) \in Nat /\ k \in 0..Len(Source)
    BY <1>2, <1>4 DEF Shorter
  <1> HIDE DEF k
  <1> QED
    BY <1>2, <1>3, <1>5, SubSeqElements DEF k

LEMMA ReadLockedType ==
    ASSUME TypeOK, NEW n \in BufLens, readLocked(n)
    PROVE  /\ rcv' \in Seq(Seq(Nat)) /\ input' \in Seq(Nat) /\ arrived' \in 0..MaxBytes
           /\ got' \in Seq(Nat) /\ waitsnd' \in Nat
           /\ chReadEvent' \in BOOLEAN /\ chWriteEvent' \in BOOLEAN
           /\ writeGate' \in BOOLEAN /\ notified' \in BOOLEAN
  <1>1. Available
    BY DEF readLocked
  <1>2. got' \in Seq(Nat) /\ input' \in Seq(Nat) /\ rcv' \in Seq(Seq(Nat))
    <2> DEFINE k == Shorter(n, Len(Source))
    <2>1. /\ got' = got \o SubSeq(Source, 1, k)
          /\ input' = SubSeq(Source, k + 1, Len(Source)) /\ rcv' = LeftInKcp
      BY DEF readLocked
    <2>2. /\ SubSeq(Source, 1, k) \in Seq(Nat) /\ LeftInKcp \in Seq(Seq(Nat))
          /\ SubSeq(Source, k + 1, Len(Source)) \in Seq(Nat)
      BY <1>1, ReadSplits
    <2>3. got \in Seq(Nat)
      BY DEF TypeOK
    <2>4. \A a, b \in Seq(Nat) : a \o b \in Seq(Nat)
      OBVIOUS
    <2> HIDE DEF k
    <2>5. got \o SubSeq(Source, 1, k) \in Seq(Nat)
      BY <2>2, <2>3, <2>4, Zenon
    <2> QED
      BY <2>1, <2>2, <2>5
  <1>3. chReadEvent' \in BOOLEAN /\ notified' \in BOOLEAN
    BY DEF readLocked, NotifyReadIf
  <1> QED
    BY <1>2, <1>3 DEF readLocked, TypeOK

LEMMA KcpInputType ==
    ASSUME TypeOK, kcpInput
    PROVE  /\ rcv' \in Seq(Seq(Nat)) /\ input' \in Seq(Nat) /\ arrived' \in 0..MaxBytes
           /\ got' \in Seq(Nat) /\ waitsnd' \in Nat
           /\ chReadEvent' \in BOOLEAN /\ chWriteEvent' \in BOOLEAN
           /\ writeGate' \in BOOLEAN /\ notified' \in BOOLEAN
  <1>1. rcv' \in Seq(Seq(Nat)) /\ arrived' \in 0..MaxBytes
    <2>1. CASE UNCHANGED <<rcv, arrived>>
      BY <2>1 DEF TypeOK
    <2>2. ASSUME NEW n \in MsgSizes, arrived + n <= MaxBytes,
                 rcv' = Append(rcv, Message(n)), arrived' = arrived + n
          PROVE  rcv' \in Seq(Seq(Nat)) /\ arrived' \in 0..MaxBytes
      <3>1. n \in Nat /\ arrived \in Nat /\ MaxBytes \in Nat
        BY LengthsAssumption DEF TypeOK
      <3>2. Message(n) \in Seq(Nat)
        BY <3>1 DEF Message
      <3> QED
        BY <2>2, <3>1, <3>2 DEF TypeOK
    <2> QED
      BY <2>1, <2>2 DEF kcpInput
  <1>2. chReadEvent' \in BOOLEAN /\ notified' \in BOOLEAN /\ chWriteEvent' \in BOOLEAN
    BY DEF kcpInput, NotifyReadIf, NotifyWriteIf
  <1> QED
    BY <1>1, <1>2 DEF kcpInput, TypeOK

LEMMA InitTypeOK == Init => TypeOK
  <1> SUFFICES ASSUME Init PROVE TypeOK
    OBVIOUS
  <1>1. /\ chReadEvent \in BOOLEAN /\ chWriteEvent \in BOOLEAN
        /\ writeGate \in BOOLEAN /\ notified \in BOOLEAN
        /\ readDeadline \in BOOLEAN /\ writeDeadline \in BOOLEAN
        /\ chSocketReadError \in BOOLEAN /\ chSocketWriteError \in BOOLEAN
        /\ die \in BOOLEAN /\ bucket \in BOOLEAN
    BY DEF Init
  <1>2. /\ role \in Roles /\ pc \in [Callers -> Places]
        /\ rcv = <<>> /\ input = <<>> /\ got = <<>> /\ arrived = 0 /\ waitsnd = 0
        /\ closer = "none" /\ loop = "reading" /\ timer = "due"
    BY DEF Init, Places
  <1> QED
    BY <1>1, <1>2, LengthsAssumption DEF TypeOK

LEMMA GotoType ==
    ASSUME TypeOK, NEW c \in Callers, NEW to \in Places, Goto(c, to)
    PROVE  pc' \in [Callers -> Places]
  BY DEF Goto, TypeOK

(***************************************************************************)
(* The steps of the callers, and those of the session.                     *)
(***************************************************************************)
LEMMA CallerTypeOK ==
    ASSUME TypeOK, NEW c \in Callers, ReaderStep(c) \/ PollerStep(c) \/ WriterStep(c)
    PROVE  TypeOK'
  <1> USE DEF limits, actors, reading, events
  <1>1. ASSUME ReadData(c) PROVE TypeOK'
    <2>1. CASE (\E n \in BufLens : readLocked(n)) /\ Goto(c, "idle")
      BY <1>1, <2>1, ReadLockedType, GotoType DEF ReadData, Places, TypeOK
    <2>2. CASE Goto(c, "wait") /\ UNCHANGED <<reading, waitsnd, events>>
      BY <1>1, <2>2, GotoType DEF ReadData, Places, TypeOK
    <2> QED
      BY <1>1, <2>1, <2>2 DEF ReadData
  <1>2. ASSUME TryRead(c) PROVE TypeOK'
    <2>1. CASE (\E n \in BufLens : readLocked(n)) /\ UNCHANGED pc
      BY <1>2, <2>1, ReadLockedType DEF TryRead, TypeOK
    <2>2. CASE Goto(c, "empty") /\ UNCHANGED <<reading, waitsnd, events>>
      BY <1>2, <2>2, GotoType DEF TryRead, Places, TypeOK
    <2> QED
      BY <1>2, <2>1, <2>2 DEF TryRead
  <1>3. ASSUME WriteSend(c) PROVE TypeOK'
    <2>1. waitsnd' \in Nat
      BY <1>3, LengthsAssumption DEF WriteSend, TypeOK
    <2>2. /\ Goto(c, "throttled") \/ Goto(c, "idle") \/ Goto(c, "window")
          /\ writeGate' = writeGate \/ writeGate' = TRUE
      BY <1>3 DEF WriteSend, Release
    <2>3. pc' \in [Callers -> Places]
      BY <2>2, GotoType DEF Places, Holding
    <2> QED
      <3>1. writeGate' \in BOOLEAN
        BY <2>2 DEF TypeOK
      <3>2. UNCHANGED <<role, reading, chReadEvent, chWriteEvent, notified, limits, actors>>
        BY <1>3 DEF WriteSend
      <3> QED
        BY <2>1, <2>3, <3>1, <3>2 DEF TypeOK
  <1>4. CASE ReadEvent(c)
    <2>1. pc' \in [Callers -> Places]
      BY <1>4, GotoType DEF ReadEvent, Places
    <2>2. chReadEvent' \in BOOLEAN
      BY <1>4 DEF ReadEvent
    <2>3. /\ UNCHANGED <<role, reading, waitsnd, chWriteEvent, writeGate, notified, limits, actors>>
      BY <1>4 DEF ReadEvent
    <2> QED
      BY <2>1, <2>2, <2>3 DEF TypeOK
  <1>5. CASE ReadInterrupted(c)
    BY <1>5, GotoType DEF ReadInterrupted, Places, TypeOK
  <1>6. CASE SetReadNotify(c)
    BY <1>6, GotoType DEF SetReadNotify, Places, TypeOK
  <1>7. CASE TryReadState(c)
    BY <1>7, GotoType DEF TryReadState, Places, TypeOK
  <1>8. CASE PollAgain(c)
    <2>1. pc' \in [Callers -> Places]
      BY <1>8, GotoType DEF PollAgain, Places
    <2>2. notified' \in BOOLEAN
      BY <1>8 DEF PollAgain
    <2>3. UNCHANGED <<role, reading, waitsnd, chReadEvent, chWriteEvent, writeGate, limits, actors>>
      BY <1>8 DEF PollAgain
    <2> QED
      BY <2>1, <2>2, <2>3 DEF TypeOK
  <1>9. CASE TakeGate(c)
    <2>1. pc' \in [Callers -> Places]
      BY <1>9, GotoType DEF TakeGate, Places, Holding
    <2>2. writeGate' \in BOOLEAN
      BY <1>9 DEF TakeGate
    <2>3. UNCHANGED <<role, reading, waitsnd, chReadEvent, chWriteEvent, notified, limits, actors>>
      BY <1>9 DEF TakeGate
    <2> QED
      BY <2>1, <2>2, <2>3 DEF TypeOK
  <1>10. CASE WaitForGate(c)
    BY <1>10, GotoType DEF WaitForGate, Places, TypeOK
  <1>11. CASE GateEvent(c)
    <2>1. pc' = pc
      BY <1>11 DEF GateEvent
    <2>2. chWriteEvent' \in BOOLEAN
      BY <1>11 DEF GateEvent
    <2>3. UNCHANGED <<role, reading, waitsnd, chReadEvent, writeGate, notified, limits, actors>>
      BY <1>11 DEF GateEvent
    <2> QED
      BY <2>1, <2>2, <2>3 DEF TypeOK
  <1>12. CASE GateInterrupted(c)
    BY <1>12, GotoType DEF GateInterrupted, Places, TypeOK
  <1>13. CASE WriteCheck(c)
    <2>1. /\ Goto(c, "idle") \/ Goto(c, "send")
          /\ writeGate' = writeGate \/ writeGate' = TRUE
      BY <1>13 DEF WriteCheck, Release
    <2>2. pc' \in [Callers -> Places]
      BY <2>1, GotoType DEF Places, Holding
    <2>3. writeGate' \in BOOLEAN
      BY <2>1 DEF TypeOK
    <2>4. UNCHANGED <<role, reading, waitsnd, chReadEvent, chWriteEvent, notified, limits, actors>>
      BY <1>13 DEF WriteCheck
    <2> QED
      BY <2>2, <2>3, <2>4 DEF TypeOK
  <1>14. CASE WindowEvent(c)
    <2>1. pc' \in [Callers -> Places]
      BY <1>14, GotoType DEF WindowEvent, Places, Holding
    <2>2. chWriteEvent' \in BOOLEAN
      BY <1>14 DEF WindowEvent
    <2>3. UNCHANGED <<role, reading, waitsnd, chReadEvent, writeGate, notified, limits, actors>>
      BY <1>14 DEF WindowEvent
    <2> QED
      BY <2>1, <2>2, <2>3 DEF TypeOK
  <1>15. CASE WindowInterrupted(c)
    BY <1>15, GotoType DEF WindowInterrupted, Release, Places, TypeOK
  <1>16. CASE BucketWait(c)
    BY <1>16, GotoType DEF BucketWait, Release, Places, TypeOK
  <1>17. CASE TokensCome(c)
    BY <1>17, GotoType DEF TokensCome, Places, Holding, TypeOK
  <1> QED
    BY <1>1, <1>2, <1>3, <1>4, <1>5, <1>6, <1>7, <1>8, <1>9, <1>10, <1>11, <1>12, <1>13,
       <1>14, <1>15, <1>16, <1>17 DEF ReaderStep, PollerStep, WriterStep

LEMMA SessionTypeOK ==
    ASSUME TypeOK, SessionStep \/ DeadlineChanges \/ notifyWriteError \/ SetRateLimit
    PROVE  TypeOK'
  <1> USE DEF limits, actors, reading, events
  <1>1. CASE LoopReceives
    BY <1>1 DEF LoopReceives, TypeOK
  <1>2. CASE PacketInput
    BY <1>2, KcpInputType DEF PacketInput, TypeOK
  <1>3. CASE LoopFails
    BY <1>3 DEF LoopFails, TypeOK
  <1>4. CASE LoopTells
    BY <1>4 DEF LoopTells, callReadNotify, TypeOK
  <1>5. CASE UpdateStart
    BY <1>5 DEF UpdateStart, TypeOK
  <1>6. CASE Update
    <2>1. chWriteEvent' \in BOOLEAN
      BY <1>6 DEF Update, UpdateNotifies, NotifyWriteIf
    <2>2. /\ UNCHANGED <<role, pc, reading, waitsnd, chReadEvent, writeGate, notified,
                         limits, closer, loop>>
          /\ timer' = "due"
      BY <1>6 DEF Update
    <2> QED
      BY <2>1, <2>2 DEF TypeOK
  <1>7. CASE Close
    <2>1. die' \in BOOLEAN /\ notified' \in BOOLEAN /\ closer' \in {"dead", "closed"}
      BY <1>7 DEF Close, callReadNotify, TypeOK
    <2>2. UNCHANGED <<role, pc, reading, waitsnd, chReadEvent, chWriteEvent, writeGate,
                      readDeadline, writeDeadline, chSocketReadError, chSocketWriteError,
                      bucket, loop, timer>>
      BY <1>7 DEF Close
    <2> QED
      BY <2>1, <2>2 DEF TypeOK
  <1>8. CASE DeadlineChanges
    <2>1. readDeadline' \in BOOLEAN /\ writeDeadline' \in BOOLEAN
      BY <1>8 DEF DeadlineChanges, TypeOK
    <2>2. UNCHANGED <<role, pc, reading, waitsnd, events, chSocketReadError,
                      chSocketWriteError, die, bucket, actors>>
      BY <1>8 DEF DeadlineChanges
    <2> QED
      BY <2>1, <2>2 DEF TypeOK
  <1>9. CASE notifyWriteError
    <2>1. chSocketWriteError' \in BOOLEAN
      BY <1>9 DEF notifyWriteError
    <2>2. UNCHANGED <<role, pc, reading, waitsnd, events, readDeadline, writeDeadline,
                      chSocketReadError, die, bucket, actors>>
      BY <1>9 DEF notifyWriteError
    <2> QED
      BY <2>1, <2>2 DEF TypeOK
  <1>10. CASE SetRateLimit
    BY <1>10 DEF SetRateLimit, TypeOK
  <1> QED
    BY <1>1, <1>2, <1>3, <1>4, <1>5, <1>6, <1>7, <1>8, <1>9, <1>10
    DEF SessionStep, readLoop

LEMMA NextTypeOK == TypeOK /\ [Next]_vars => TypeOK'
  <1>1. CASE UNCHANGED vars
    BY <1>1 DEF vars, reading, events, limits, actors, TypeOK
  <1> QED
    BY <1>1, CallerTypeOK, SessionTypeOK DEF Next

(***************************************************************************)
(* The variables of the session keep their types, whoever calls what.      *)
(***************************************************************************)
THEOREM TypeCorrect == Spec => []TypeOK
  BY InitTypeOK, NextTypeOK, PTL DEF Spec

-----------------------------------------------------------------------------
(***************************************************************************)
(* The write gate.                                                         *)
(***************************************************************************)

(***************************************************************************)
(* A step that moves c, which does not hold the gate before or after, or   *)
(* holds it before and after, leaves the owner of the gate as it is.       *)
(***************************************************************************)
LEMMA GateKept ==
    ASSUME TypeOK, OneGateOwner, NEW c \in Callers, NEW to,
           pc' = [pc EXCEPT ![c] = to], pc[c] \in Holding <=> to \in Holding,
           writeGate' = writeGate
    PROVE  OneGateOwner'
  <1>1. \A d \in Callers : pc'[d] \in Holding <=> pc[d] \in Holding
    BY DEF TypeOK
  <1> QED
    BY <1>1 DEF OneGateOwner

LEMMA GateReleased ==
    ASSUME TypeOK, OneGateOwner, NEW c \in Callers, pc[c] \in Holding, Release(c)
    PROVE  OneGateOwner'
  <1>1. \A d \in Callers : pc'[d] \notin Holding
    BY DEF TypeOK, Release, Goto, OneGateOwner, Holding
  <1>2. writeGate'
    BY DEF Release
  <1> QED
    BY <1>1, <1>2 DEF OneGateOwner

LEMMA GateTaken ==
    ASSUME TypeOK, OneGateOwner, NEW c \in Callers, TakeGate(c)
    PROVE  OneGateOwner'
  <1>1. \A d \in Callers : pc'[d] \in Holding <=> d = c
    BY DEF TypeOK, TakeGate, Goto, OneGateOwner, Holding
  <1>2. ~writeGate'
    BY DEF TakeGate
  <1> QED
    BY <1>1, <1>2 DEF OneGateOwner

LEMMA GateUntouched ==
    ASSUME OneGateOwner, pc' = pc, writeGate' = writeGate
    PROVE  OneGateOwner'
  BY DEF OneGateOwner

LEMMA NextOneGateOwner == TypeOK /\ OneGateOwner /\ [Next]_vars => OneGateOwner'
  <1> SUFFICES ASSUME TypeOK, OneGateOwner, [Next]_vars PROVE OneGateOwner'
    OBVIOUS
  <1>1. ASSUME NEW c \in Callers, ReaderStep(c) \/ PollerStep(c) PROVE OneGateOwner'
    <2>1. writeGate' = writeGate
      BY <1>1 DEF ReaderStep, PollerStep, ReadData, ReadEvent, ReadInterrupted,
                  SetReadNotify, TryRead, TryReadState, PollAgain, readLocked, events
    <2>2. \/ pc' = pc
          \/ \E to : /\ pc' = [pc EXCEPT ![c] = to]
                     /\ pc[c] \notin Holding /\ to \notin Holding
      BY <1>1 DEF ReaderStep, PollerStep, ReadData, ReadEvent, ReadInterrupted,
                  SetReadNotify, TryRead, TryReadState, PollAgain, Goto, Holding
    <2> QED
      BY <2>1, <2>2, GateKept, GateUntouched
  <1>2. ASSUME NEW c \in Callers, WriterStep(c) PROVE OneGateOwner'
    <2>1. CASE TakeGate(c)
      BY <2>1, GateTaken
    <2>2. CASE WaitForGate(c) \/ GateInterrupted(c) \/ WindowEvent(c)
      <3>1. writeGate' = writeGate
        BY <2>2 DEF WaitForGate, GateInterrupted, WindowEvent, events
      <3>2. \E to : /\ pc' = [pc EXCEPT ![c] = to]
                    /\ pc[c] \in Holding <=> to \in Holding
        BY <2>2 DEF WaitForGate, GateInterrupted, WindowEvent, Goto, Holding
      <3> QED
        BY <3>1, <3>2, GateKept
    <2>3. CASE GateEvent(c)
      BY <2>3, GateUntouched DEF GateEvent
    <2>4. CASE WriteCheck(c)
      <3>1. pc[c] \in Holding
        BY <2>4 DEF WriteCheck, Holding
      <3>2. \/ Release(c)
            \/ pc' = [pc EXCEPT ![c] = "send"] /\ writeGate' = writeGate
        BY <2>4 DEF WriteCheck, Goto
      <3> QED
        BY <3>1, <3>2, GateReleased, GateKept DEF Holding
    <2>5. CASE WriteSend(c)
      <3>1. pc[c] \in Holding
        BY <2>5 DEF WriteSend, Holding
      <3>2. \/ Release(c)
            \/ pc' = [pc EXCEPT ![c] = "throttled"] /\ writeGate' = writeGate
            \/ pc' = [pc EXCEPT ![c] = "window"] /\ writeGate' = writeGate
        BY <2>5 DEF WriteSend, Goto
      <3> QED
        BY <3>1, <3>2, GateReleased, GateKept DEF Holding
    <2>6. CASE WindowInterrupted(c) \/ BucketWait(c)
      BY <2>6, GateReleased DEF WindowInterrupted, BucketWait, Holding
    <2>7. CASE TokensCome(c)
      <3>1. pc[c] \in Holding /\ pc' = [pc EXCEPT ![c] = "paid"] /\ writeGate' = writeGate
        BY <2>7 DEF TokensCome, Goto, Holding, events
      <3> QED
        BY <3>1, GateKept DEF Holding
    <2> QED
      BY <1>2, <2>1, <2>2, <2>3, <2>4, <2>5, <2>6, <2>7 DEF WriterStep
  <1>3. CASE SessionStep \/ DeadlineChanges \/ notifyWriteError \/ SetRateLimit
    <2>1. pc' = pc /\ writeGate' = writeGate
      BY <1>3 DEF SessionStep, readLoop, LoopReceives, PacketInput, kcpInput, LoopFails,
                  LoopTells, UpdateStart, Update, Close, DeadlineChanges,
                  notifyWriteError, SetRateLimit, events
    <2> QED
      BY <2>1, GateUntouched
  <1>4. CASE UNCHANGED vars
    BY <1>4, GateUntouched DEF vars, events
  <1> QED
    BY <1>1, <1>2, <1>3, <1>4 DEF Next

(***************************************************************************)
(* The write gate has one element or one owner, whatever way each Write    *)
(* ends: acquireWriteGate, waitWriteGate and releaseWriteGate.             *)
(***************************************************************************)
THEOREM OneOwner == Spec => []OneGateOwner
  <1>1. Init => OneGateOwner
    BY DEF Init, OneGateOwner, Holding
  <1> QED
    BY <1>1, TypeCorrect, NextOneGateOwner, PTL DEF Spec

-----------------------------------------------------------------------------
(***************************************************************************)
(* Nobody sleeps beside data.                                              *)
(***************************************************************************)

Polling == {"try", "empty", "asleep", "done"}

ReadersOK ==
    \A c \in Callers :
        pc[c] = "wait" /\ Available => chReadEvent \/ \E d \in Callers : pc[d] = "again"

PollersOK ==
    \A c \in Callers :
        /\ pc[c] \in Polling => role[c] = "poll"
        /\ pc[c] \in {"empty", "asleep"} /\ ~notified => ~Available
        /\ pc[c] = "asleep" /\ ~notified => /\ die => closer = "dead"
                                            /\ chSocketReadError => loop = "failed"

(***************************************************************************)
(* The inductive invariant.  A poller that has found nothing is covered    *)
(* from that moment on, not only once it sleeps; die and chSocketReadError *)
(* are closed by the steps that run the callback next.                     *)
(***************************************************************************)
SleepInv ==
    /\ ReadersOK
    /\ PollersOK
    /\ die => closer # "none"
    /\ chSocketReadError => loop \in {"failed", "stopped"}

(***************************************************************************)
(* A step that neither reads nor polls.                                    *)
(***************************************************************************)
LEMMA SleepKept ==
    ASSUME TypeOK, SleepInv, UNCHANGED <<role, reading, chReadEvent, notified, die,
                                         chSocketReadError, closer, loop>>,
           \/ pc' = pc
           \/ \E c \in Callers : \E to : /\ pc' = [pc EXCEPT ![c] = to]
                                         /\ pc[c] # "again"
                                         /\ to \notin Polling \cup {"wait"}
    PROVE  SleepInv'
  <1>1. \A d \in Callers : /\ pc[d] = "again" => pc'[d] = "again"
                           /\ pc'[d] = "wait" => pc[d] = "wait"
                           /\ pc'[d] \in Polling => pc'[d] = pc[d]
    BY DEF TypeOK, Polling
  <1>2. Available' <=> Available
    BY DEF Available, reading
  <1>3. ReadersOK'
    BY <1>1, <1>2 DEF SleepInv, ReadersOK
  <1>4. PollersOK'
    BY <1>1, <1>2 DEF SleepInv, PollersOK, Polling
  <1> QED
    BY <1>3, <1>4 DEF SleepInv

(***************************************************************************)
(* A step that tells: it renews the event and runs the callback if there   *)
(* is data after it, and may leave a caller that has read idle; or it does *)
(* so for new data only, and moves no caller.                              *)
(***************************************************************************)
LEMMA SleepTold ==
    ASSUME TypeOK, SleepInv, NEW ready \in BOOLEAN, NotifyReadIf(ready),
           Available' => ready \/ (Available /\ pc' = pc),
           UNCHANGED <<role, die, chSocketReadError, closer>>,
           loop' = loop \/ (loop = "packet" /\ loop' \in {"reading", "packet"}),
           \/ pc' = pc
           \/ \E c \in Callers : role[c] = "read" /\ pc' = [pc EXCEPT ![c] = "idle"]
    PROVE  SleepInv'
  <1>1. \A d \in Callers : /\ pc'[d] = "wait" => pc[d] = "wait"
                           /\ pc'[d] \in Polling => pc'[d] = pc[d]
    BY DEF TypeOK, Polling
  <1>2. ReadersOK'
    BY <1>1 DEF SleepInv, ReadersOK, NotifyReadIf
  <1>3. PollersOK'
    <2> SUFFICES ASSUME NEW c \in Callers, pc'[c] \in Polling
                 PROVE  /\ role'[c] = "poll"
                        /\ pc'[c] \in {"empty", "asleep"} /\ ~notified' => ~Available'
                        /\ pc'[c] = "asleep" /\ ~notified' =>
                               /\ die' => closer' = "dead"
                               /\ chSocketReadError' => loop' = "failed"
      BY DEF PollersOK, Polling
    <2>1. role[c] = "poll" /\ pc[c] = pc'[c]
      BY <1>1 DEF SleepInv, PollersOK
    <2>2. NotifySet
      BY <2>1 DEF NotifySet, Polling
    <2>3. Available' => notified' \/ Available
      BY <2>2 DEF NotifyReadIf
    <2>4. ~notified' => ~notified
      BY DEF NotifyReadIf
    <2>5. chSocketReadError' => loop' = loop
      BY DEF SleepInv
    <2> QED
      BY <2>1, <2>3, <2>4, <2>5 DEF SleepInv, PollersOK
  <1> QED
    BY <1>2, <1>3 DEF SleepInv

LEMMA ReadLockedTells ==
    ASSUME NEW n \in BufLens, readLocked(n)
    PROVE  NotifyReadIf(Available')
  <1>1. ReadAgain(input', rcv') <=> Available'
    BY DEF ReadAgain, Available
  <1>2. NotifyReadIf(ReadAgain(input', rcv'))
    BY DEF readLocked
  <1> QED
    BY <1>1, <1>2 DEF NotifyReadIf

LEMMA OnePoller ==
    ASSUME TypeOK, NEW c \in Callers, NEW d \in Callers, role[c] = "poll", role[d] = "poll"
    PROVE  c = d
  BY PollerAssumption DEF TypeOK

LEMMA NextSleepInv == TypeOK /\ SleepInv /\ [Next]_vars => SleepInv'
  <1> SUFFICES ASSUME TypeOK, SleepInv, [Next]_vars PROVE SleepInv'
    OBVIOUS
  <1> USE DEF limits, actors
  <1>1. ASSUME NEW c \in Callers, WriterStep(c) \/ ReadInterrupted(c) PROVE SleepInv'
    <2>1. UNCHANGED <<role, reading, chReadEvent, notified, die, chSocketReadError,
                      closer, loop>>
      BY <1>1 DEF WriterStep, TakeGate, WaitForGate, GateEvent, GateInterrupted, WriteCheck,
                  WriteSend, WindowEvent, WindowInterrupted, TokensCome, BucketWait,
                  ReadInterrupted, events
    <2>2. \/ pc' = pc
          \/ \E to : /\ pc' = [pc EXCEPT ![c] = to]
                     /\ pc[c] # "again" /\ to \notin Polling \cup {"wait"}
      BY <1>1 DEF WriterStep, TakeGate, WaitForGate, GateEvent, GateInterrupted, WriteCheck,
                  WriteSend, WindowEvent, WindowInterrupted, TokensCome, BucketWait,
                  ReadInterrupted, Release, Goto, Polling
    <2> QED
      BY <2>1, <2>2, SleepKept
  <1>2. ASSUME NEW c \in Callers, NEW n \in BufLens, readLocked(n),
               \/ ReadData(c) /\ Goto(c, "idle")
               \/ TryRead(c) /\ UNCHANGED pc
        PROVE  SleepInv'
    <2>1. NotifyReadIf(Available')
      BY <1>2, ReadLockedTells
    <2>2. UNCHANGED <<role, die, chSocketReadError, closer, loop>>
      BY <1>2 DEF ReadData, TryRead
    <2>3. pc' = pc \/ (role[c] = "read" /\ pc' = [pc EXCEPT ![c] = "idle"])
      BY <1>2 DEF ReadData, Goto
    <2>4. Available' \in BOOLEAN
      BY DEF Available
    <2> QED
      BY <2>1, <2>2, <2>3, <2>4, SleepTold
  <1>3. ASSUME NEW c \in Callers, NEW to \in {"wait", "empty"}, ~Available, Goto(c, to),
               ReadData(c) \/ TryRead(c), UNCHANGED <<reading, waitsnd, events>>
        PROVE  SleepInv'
    <2>1. UNCHANGED <<role, die, chSocketReadError, closer, loop, notified>>
      BY <1>3 DEF ReadData, TryRead, events
    <2>2. ~Available'
      BY <1>3 DEF Available, reading
    <2>3. to = "empty" => role[c] = "poll"
      <3>1. to = "empty" => pc[c] = "try"
        BY <1>3 DEF ReadData, TryRead, Goto, TypeOK
      <3> QED
        BY <3>1 DEF SleepInv, PollersOK, Polling
    <2>4. \A d \in Callers : pc'[d] = pc[d] \/ (d = c /\ pc'[d] = to)
      BY <1>3 DEF Goto, TypeOK
    <2>5. ReadersOK'
      BY <2>2 DEF ReadersOK
    <2>6. PollersOK'
      BY <2>1, <2>2, <2>3, <2>4 DEF SleepInv, PollersOK, Polling
    <2> QED
      BY <2>1, <2>5, <2>6 DEF SleepInv
  <1>4. ASSUME NEW c \in Callers, ReadEvent(c) PROVE SleepInv'
    <2>1. UNCHANGED <<role, reading, die, chSocketReadError, closer, loop, notified>>
      BY <1>4 DEF ReadEvent
    <2>2. /\ pc'[c] = "again"
          /\ \A d \in Callers : pc'[d] = pc[d] \/ pc'[d] = "again"
      BY <1>4 DEF ReadEvent, Goto, TypeOK
    <2>3. ReadersOK'
      BY <2>2 DEF ReadersOK
    <2>4. PollersOK'
      BY <2>1, <2>2 DEF SleepInv, PollersOK, Polling, Available, reading
    <2> QED
      BY <2>1, <2>3, <2>4 DEF SleepInv
  <1>5. ASSUME NEW c \in Callers, SetReadNotify(c) \/ TryReadState(c) PROVE SleepInv'
    <2>1. UNCHANGED <<role, reading, die, chSocketReadError, closer, loop, notified, chReadEvent>>
      BY <1>5 DEF SetReadNotify, TryReadState, events
    <2>2. /\ role[c] = "poll" /\ pc[c] \notin {"again", "wait"}
          /\ \A d \in Callers : d # c => pc'[d] = pc[d]
          /\ pc'[c] \in {"try", "done", "asleep"}
          /\ pc'[c] = "asleep" => pc[c] = "empty" /\ ~die /\ ~chSocketReadError
      BY <1>5 DEF SetReadNotify, TryReadState, Goto, TypeOK, SleepInv, PollersOK, Polling
    <2>3. Available' = Available
      BY <2>1 DEF Available, reading
    <2>4. ReadersOK'
      BY <2>1, <2>2, <2>3 DEF SleepInv, ReadersOK
    <2>5. PollersOK'
      BY <2>1, <2>2, <2>3 DEF SleepInv, PollersOK, Polling
    <2> QED
      BY <2>1, <2>4, <2>5 DEF SleepInv
  <1>6. ASSUME NEW c \in Callers, PollAgain(c) PROVE SleepInv'
    <2>1. UNCHANGED <<role, reading, die, chSocketReadError, closer, loop, chReadEvent>>
      BY <1>6 DEF PollAgain
    <2>2. /\ pc[c] = "asleep" /\ pc'[c] = "try"
          /\ \A d \in Callers : d # c => pc'[d] = pc[d]
      BY <1>6 DEF PollAgain, Goto, TypeOK
    <2>3. \A d \in Callers : pc[d] \in Polling => d = c
      BY <2>2, OnePoller DEF SleepInv, PollersOK, Polling
    <2>4. Available' = Available
      BY <2>1 DEF Available, reading
    <2>5. ReadersOK'
      BY <2>1, <2>2, <2>4 DEF SleepInv, ReadersOK
    <2>6. PollersOK'
      BY <2>1, <2>2, <2>3 DEF SleepInv, PollersOK, Polling
    <2> QED
      BY <2>1, <2>5, <2>6 DEF SleepInv
  <1>7. CASE PacketInput
    <2>1. /\ NotifyReadIf(rcv' # <<>>)
          /\ UNCHANGED <<role, pc, die, chSocketReadError, closer, input>>
          /\ loop = "packet" /\ loop' \in {"reading", "packet"}
      BY <1>7 DEF PacketInput, kcpInput
    <2>2. Available' => rcv' # <<>> \/ Available
      BY <2>1 DEF Available
    <2> QED
      BY <2>1, <2>2, SleepTold
  <1>8. CASE LoopReceives \/ LoopFails
    <2>1. /\ UNCHANGED <<role, pc, reading, chReadEvent, notified, die, closer>>
          /\ loop = "reading"
          /\ chSocketReadError' => chSocketReadError \/ loop' = "failed"
      BY <1>8 DEF LoopReceives, LoopFails, events
    <2>2. ~chSocketReadError
      BY <2>1 DEF SleepInv
    <2>3. Available' = Available
      BY <2>1 DEF Available, reading
    <2> QED
      BY <2>1, <2>2, <2>3 DEF SleepInv, ReadersOK, PollersOK
  <1>9. CASE LoopTells \/ (Close /\ closer = "dead")
    <2>1. /\ UNCHANGED <<role, pc, reading, chReadEvent, die, chSocketReadError>>
          /\ notified' = (notified \/ NotifySet)
          /\ loop' = loop \/ loop' = "stopped"
          /\ closer' = closer \/ closer' = "closed"
      BY <1>9 DEF LoopTells, Close, callReadNotify
    <2>2. Available' = Available
      BY <2>1 DEF Available, reading
    <2>3. (\E c \in Callers : pc[c] \in Polling) => notified'
      BY <2>1 DEF SleepInv, PollersOK, NotifySet, Polling
    <2>4. ReadersOK'
      BY <2>1, <2>2 DEF SleepInv, ReadersOK
    <2>5. PollersOK'
      BY <2>1, <2>3 DEF SleepInv, PollersOK, Polling
    <2>6. chSocketReadError' => loop' \in {"failed", "stopped"}
      BY <2>1 DEF SleepInv
    <2>7. die' => closer' # "none"
      BY <2>1 DEF SleepInv
    <2> QED
      BY <2>4, <2>5, <2>6, <2>7 DEF SleepInv
  <1>10. CASE Close /\ closer = "none"
    <2>1. /\ UNCHANGED <<role, pc, reading, chReadEvent, notified, chSocketReadError, loop>>
          /\ closer' = "dead"
      BY <1>10 DEF Close
    <2>2. Available' = Available
      BY <2>1 DEF Available, reading
    <2> QED
      BY <2>1, <2>2 DEF SleepInv, ReadersOK, PollersOK
  <1>11. CASE UpdateStart \/ Update \/ DeadlineChanges \/ notifyWriteError \/ SetRateLimit
    BY <1>11, SleepKept DEF UpdateStart, Update, DeadlineChanges, notifyWriteError,
                            SetRateLimit, events
  <1>12. CASE UNCHANGED vars
    BY <1>12, SleepKept DEF vars, events
  <1>13. ASSUME NEW c \in Callers, ReadData(c) \/ TryRead(c) PROVE SleepInv'
    BY <1>2, <1>3, <1>13 DEF ReadData, TryRead
  <1>14. Close => Close /\ closer \in {"none", "dead"}
    BY DEF Close
  <1> QED
    BY <1>1, <1>4, <1>5, <1>6, <1>7, <1>8, <1>9, <1>10, <1>11, <1>12, <1>13, <1>14
    DEF Next, ReaderStep, PollerStep, SessionStep, readLoop

(***************************************************************************)
(* No reader sleeps beside data: while a Read waits and there is data,     *)
(* chReadEvent holds its element or another Read is about to look; and a   *)
(* caller of TryRead that waits for its callback has missed neither data,  *)
(* nor Close, nor the failure of the socket.                               *)
(***************************************************************************)
THEOREM NobodySleepsBesideData == Spec => []NoReaderSleeps
  <1>1. Init => SleepInv
    BY DEF Init, SleepInv, ReadersOK, PollersOK, Polling
  <1>2. SleepInv => NoReaderSleeps
    BY DEF SleepInv, ReadersOK, PollersOK, NoReaderSleeps
  <1> QED
    BY <1>1, <1>2, TypeCorrect, NextSleepInv, PTL DEF Spec

-----------------------------------------------------------------------------
(***************************************************************************)
(* The stream of bytes.                                                    *)
(***************************************************************************)

(***************************************************************************)
(* A run is a nonempty sequence of consecutive numbers.                    *)
(***************************************************************************)
Run(m) == m # <<>> /\ \A i \in 1..Len(m) : m[i] = m[1] + i - 1

\* the number of the last byte of a run
End(m) == m[1] + Len(m) - 1

(***************************************************************************)
(* Where the messages in KCP lie in the stream: they are runs, the first   *)
(* of them starts after byte p, each of the others where the one before    *)
(* it ends, and the last of them ends at the last byte that has arrived.   *)
(***************************************************************************)
MsgsFollow(msgs, p, last) ==
    /\ \A k \in 1..Len(msgs) : Run(msgs[k])
    /\ \A k \in 1..(Len(msgs) - 1) : msgs[k + 1][1] = End(msgs[k]) + 1
    /\ msgs # <<>> => msgs[1][1] = p + 1 /\ End(msgs[Len(msgs)]) = last
    /\ msgs = <<>> => last = p

(***************************************************************************)
(* The inductive invariant: what has been read, what is left of the last   *)
(* message, and the messages in KCP, one after the other, are the bytes    *)
(* that have arrived.                                                      *)
(***************************************************************************)
StreamInv ==
    /\ \A i \in 1..Len(got) : got[i] = i
    /\ \A i \in 1..Len(input) : input[i] = Len(got) + i
    /\ MsgsFollow(rcv, Len(got) + Len(input), arrived)

LEMMA EndOfRun ==
    ASSUME NEW m, NEW p \in Nat, Len(m) \in Nat, m[1] = p + 1
    PROVE  End(m) = p + Len(m)
  <1>1. \A l \in Nat : (p + 1) + l - 1 = p + l
    OBVIOUS
  <1> QED
    BY <1>1 DEF End

LEMMA FollowTail ==
    ASSUME NEW msgs \in Seq(Seq(Nat)), msgs # <<>>, NEW p \in Nat, NEW last \in Nat,
           MsgsFollow(msgs, p, last)
    PROVE  /\ Head(msgs) \in Seq(Nat) /\ Run(Head(msgs)) /\ Head(msgs)[1] = p + 1
           /\ MsgsFollow(Tail(msgs), p + Len(Head(msgs)), last)
  <1> DEFINE t == Tail(msgs)
  <1>1. /\ t \in Seq(Seq(Nat)) /\ Len(msgs) \in Nat /\ Len(msgs) >= 1
        /\ Len(t) = Len(msgs) - 1 /\ Head(msgs) = msgs[1]
        /\ \A k \in 1..Len(t) : t[k] = msgs[k + 1]
    OBVIOUS
  <1>2. Head(msgs) \in Seq(Nat) /\ Run(Head(msgs)) /\ Head(msgs)[1] = p + 1
    BY <1>1 DEF MsgsFollow
  <1>3. End(msgs[1]) = p + Len(msgs[1]) /\ Len(msgs[1]) \in Nat
    <2>1. Len(msgs[1]) \in Nat /\ msgs[1][1] = p + 1
      BY <1>1, <1>2
    <2> QED
      BY <2>1, EndOfRun
  <1> HIDE DEF t
  <1>4. ASSUME NEW k \in 1..Len(t) PROVE Run(t[k])
    <2>1. k + 1 \in 1..Len(msgs) /\ t[k] = msgs[k + 1]
      BY <1>1
    <2> QED
      BY <2>1 DEF MsgsFollow
  <1>5. ASSUME NEW k \in 1..(Len(t) - 1) PROVE t[k + 1][1] = End(t[k]) + 1
    <2>1. k + 1 \in 1..(Len(msgs) - 1) /\ k \in 1..Len(t) /\ k + 1 \in 1..Len(t)
      BY <1>1
    <2>2. t[k] = msgs[k + 1] /\ t[k + 1] = msgs[(k + 1) + 1]
      BY <1>1, <2>1
    <2> QED
      BY <2>1, <2>2 DEF MsgsFollow
  <1>6. t # <<>> => t[1][1] = p + Len(msgs[1]) + 1 /\ End(t[Len(t)]) = last
    <2> SUFFICES ASSUME t # <<>>
                 PROVE  t[1][1] = p + Len(msgs[1]) + 1 /\ End(t[Len(t)]) = last
      OBVIOUS
    <2>1. Len(t) >= 1 /\ Len(t) \in Nat
      BY <1>1
    <2>2. t[1] = msgs[2] /\ t[Len(t)] = msgs[Len(msgs)]
      <3>1. 1 \in 1..Len(t) /\ Len(t) \in 1..Len(t)
        BY <2>1
      <3>2. t[1] = msgs[1 + 1] /\ t[Len(t)] = msgs[Len(t) + 1]
        BY <1>1, <3>1
      <3>3. 1 + 1 = 2 /\ Len(t) + 1 = Len(msgs)
        BY <1>1
      <3> QED
        BY <3>2, <3>3
    <2>3. msgs[2][1] = End(msgs[1]) + 1
      BY <1>1, <2>1 DEF MsgsFollow
    <2> QED
      BY <1>3, <2>2, <2>3 DEF MsgsFollow
  <1>7. t = <<>> => last = p + Len(msgs[1])
    <2> SUFFICES ASSUME t = <<>> PROVE last = p + Len(msgs[1])
      OBVIOUS
    <2>1. Len(msgs) = 1
      BY <1>1
    <2>2. End(msgs[Len(msgs)]) = last
      BY DEF MsgsFollow
    <2> QED
      BY <1>3, <2>1, <2>2
  <1> QED
    BY <1>1, <1>2, <1>4, <1>5, <1>6, <1>7 DEF MsgsFollow, t

LEMMA FollowAppend ==
    ASSUME NEW msgs \in Seq(Seq(Nat)), NEW p \in Nat, NEW last \in Nat,
           MsgsFollow(msgs, p, last), NEW m \in Seq(Nat), Run(m), m[1] = last + 1
    PROVE  MsgsFollow(Append(msgs, m), p, last + Len(m))
  <1> DEFINE t == Append(msgs, m)
  <1>1. /\ t \in Seq(Seq(Nat)) /\ Len(msgs) \in Nat /\ t # <<>>
        /\ Len(t) = Len(msgs) + 1 /\ t[Len(t)] = m /\ t[Len(msgs) + 1] = m
        /\ \A k \in 1..Len(msgs) : t[k] = msgs[k]
    BY AppendProperties, LenProperties
  <1> HIDE DEF t
  <1>2. ASSUME NEW k \in 1..Len(t) PROVE Run(t[k])
    <2>1. k = Len(msgs) + 1 \/ k \in 1..Len(msgs)
      BY <1>1
    <2>2. CASE k \in 1..Len(msgs)
      BY <1>1, <2>2 DEF MsgsFollow
    <2> QED
      BY <1>1, <2>1, <2>2
  <1>3. ASSUME NEW k \in 1..(Len(t) - 1) PROVE t[k + 1][1] = End(t[k]) + 1
    <2>1. CASE k = Len(msgs)
      <3>1. msgs # <<>> /\ t[k] = msgs[Len(msgs)] /\ t[k + 1] = m
        BY <1>1, <2>1
      <3> QED
        BY <3>1 DEF MsgsFollow
    <2>2. CASE k \in 1..(Len(msgs) - 1)
      <3>1. t[k] = msgs[k] /\ t[k + 1] = msgs[k + 1]
        BY <1>1, <2>2
      <3> QED
        BY <2>2, <3>1 DEF MsgsFollow
    <2> QED
      BY <1>1, <2>1, <2>2
  <1>4. t[1][1] = p + 1
    <2>1. CASE msgs = <<>>
      BY <1>1, <2>1 DEF MsgsFollow
    <2>2. CASE msgs # <<>>
      <3>1. t[1] = msgs[1]
        BY <1>1, <2>2
      <3> QED
        BY <2>2, <3>1 DEF MsgsFollow
    <2> QED
      BY <2>1, <2>2
  <1>5. End(t[Len(t)]) = last + Len(m)
    BY <1>1 DEF End
  <1> QED
    BY <1>1, <1>2, <1>3, <1>4, <1>5 DEF MsgsFollow, t

(***************************************************************************)
(* What a read returns comes next in the stream, and what it leaves of the *)
(* message comes after that.                                               *)
(***************************************************************************)
LEMMA ReadLockedStream ==
    ASSUME TypeOK, StreamInv, NEW n \in BufLens, readLocked(n)
    PROVE  StreamInv'
  <1> DEFINE k == Shorter(n, Len(Source))
             front == SubSeq(Source, 1, k)
             rest == SubSeq(Source, k + 1, Len(Source))
  <1>1. Available /\ arrived' = arrived
    BY DEF readLocked
  <1>2. got' = got \o front /\ input' = rest /\ rcv' = LeftInKcp
    BY DEF readLocked
  <1>3. /\ Source \in Seq(Nat) /\ Len(Source) \in Nat /\ k \in 0..Len(Source)
        /\ front \in Seq(Nat) /\ Len(front) = k /\ \A i \in 1..k : front[i] = Source[i]
        /\ rest \in Seq(Nat) /\ Len(rest) = Len(Source) - k
        /\ \A i \in 1..(Len(Source) - k) : rest[i] = Source[k + i]
    BY <1>1, ReadSplits
  <1> HIDE DEF k, front, rest
  <1>4. /\ got \in Seq(Nat) /\ input \in Seq(Nat) /\ rcv \in Seq(Seq(Nat)) /\ arrived \in Nat
        /\ Len(got) \in Nat /\ Len(input) \in Nat
    BY LengthsAssumption DEF TypeOK
  <1>5. /\ \A i \in 1..Len(Source) : Source[i] = Len(got) + i
        /\ MsgsFollow(LeftInKcp, Len(got) + Len(Source), arrived)
    <2>1. CASE input # <<>>
      <3>1. Source = input /\ LeftInKcp = rcv
        BY <2>1 DEF Source, LeftInKcp
      <3> QED
        BY <3>1 DEF StreamInv
    <2>2. CASE input = <<>>
      <3>1. rcv # <<>> /\ Source = Head(rcv) /\ Len(input) = 0
        BY <1>1, <2>2 DEF Source, Available
      <3>2. MsgsFollow(rcv, Len(got), arrived)
        BY <1>4, <3>1 DEF StreamInv
      <3>3. /\ Run(Source) /\ Source[1] = Len(got) + 1
            /\ MsgsFollow(Tail(rcv), Len(got) + Len(Source), arrived)
        BY <1>4, <3>1, <3>2, FollowTail
      <3>4. LeftInKcp = Tail(rcv)
        BY <2>2, <3>3 DEF LeftInKcp, Run
      <3> QED
        BY <1>3, <1>4, <3>3, <3>4 DEF Run
    <2> QED
      BY <2>1, <2>2
  <1>6. Len(got') = Len(got) + k /\ \A i \in 1..Len(got') : got'[i] = i
    <2>1. /\ Len(got \o front) = Len(got) + k
          /\ \A i \in 1..(Len(got) + k) :
                (got \o front)[i] = IF i <= Len(got) THEN got[i] ELSE front[i - Len(got)]
      BY <1>3, <1>4, ConcatProperties
    <2>2. ASSUME NEW i \in 1..(Len(got) + k) PROVE (got \o front)[i] = i
      <3>1. CASE i <= Len(got)
        BY <1>4, <2>1, <3>1 DEF StreamInv
      <3>2. CASE ~(i <= Len(got))
        <4>1. i - Len(got) \in 1..k /\ i - Len(got) \in 1..Len(Source)
          BY <1>3, <1>4, <3>2
        <4>2. front[i - Len(got)] = Len(got) + (i - Len(got))
          BY <1>3, <1>5, <4>1
        <4> QED
          BY <1>3, <1>4, <2>1, <3>2, <4>2
      <3> QED
        BY <3>1, <3>2
    <2> QED
      BY <1>2, <2>1, <2>2
  <1>7. ASSUME NEW i \in 1..Len(input') PROVE input'[i] = Len(got') + i
    <2>1. i \in 1..(Len(Source) - k) /\ k + i \in 1..Len(Source)
      BY <1>2, <1>3
    <2>2. input'[i] = Len(got) + (k + i)
      BY <1>2, <1>3, <1>5, <2>1
    <2> QED
      BY <1>3, <1>4, <1>6, <2>1, <2>2
  <1>8. Len(got') + Len(input') = Len(got) + Len(Source)
    BY <1>2, <1>3, <1>4, <1>6
  <1> QED
    BY <1>1, <1>2, <1>5, <1>6, <1>7, <1>8 DEF StreamInv

LEMMA KcpInputStream ==
    ASSUME TypeOK, StreamInv, kcpInput
    PROVE  StreamInv'
  <1>1. CASE UNCHANGED <<rcv, arrived>>
    BY <1>1 DEF kcpInput, StreamInv
  <1>2. ASSUME NEW n \in MsgSizes, rcv' = Append(rcv, Message(n)), arrived' = arrived + n
        PROVE  StreamInv'
    <2>1. n \in Nat \ {0} /\ arrived \in Nat /\ rcv \in Seq(Seq(Nat))
      BY LengthsAssumption DEF TypeOK
    <2>2. /\ Message(n) \in Seq(Nat) /\ Len(Message(n)) = n
          /\ \A i \in 1..n : Message(n)[i] = arrived + i
      BY <2>1 DEF Message
    <2>3. Run(Message(n)) /\ Message(n)[1] = arrived + 1
      BY <2>1, <2>2 DEF Run
    <2>4. Len(got) + Len(input) \in Nat
      BY DEF TypeOK
    <2>5. MsgsFollow(rcv', Len(got) + Len(input), arrived')
      BY <1>2, <2>1, <2>2, <2>3, <2>4, FollowAppend DEF StreamInv
    <2> QED
      BY <2>5 DEF StreamInv, kcpInput
  <1> QED
    BY <1>1, <1>2 DEF kcpInput

LEMMA NextStreamInv == TypeOK /\ StreamInv /\ [Next]_vars => StreamInv'
  <1> SUFFICES ASSUME TypeOK, StreamInv, [Next]_vars PROVE StreamInv'
    OBVIOUS
  <1>1. \/ UNCHANGED reading
        \/ \E n \in BufLens : readLocked(n)
        \/ kcpInput
    BY DEF Next, vars, ReaderStep, PollerStep, WriterStep, SessionStep, readLoop,
           ReadData, ReadEvent, ReadInterrupted, SetReadNotify, TryRead, TryReadState,
           PollAgain, TakeGate, WaitForGate, GateEvent, GateInterrupted, WriteCheck,
           WriteSend, WindowEvent, WindowInterrupted, TokensCome, BucketWait,
           LoopReceives, PacketInput, LoopFails, LoopTells, UpdateStart, Update, Close,
           DeadlineChanges, notifyWriteError, SetRateLimit
  <1>2. UNCHANGED reading => StreamInv'
    BY DEF reading, StreamInv
  <1> QED
    BY <1>1, <1>2, ReadLockedStream, KcpInputStream

(***************************************************************************)
(* What Read and TryRead return is the stream of bytes as it arrived: no   *)
(* short read of readLocked drops, repeats or reorders the rest of a       *)
(* message, and once there is nothing left all of it has been returned.    *)
(***************************************************************************)
THEOREM StreamIsPreserved == Spec => []BytesInOrder
  <1>1. Init => StreamInv
    BY DEF Init, StreamInv, MsgsFollow
  <1>2. TypeOK /\ StreamInv => BytesInOrder
    <2> SUFFICES ASSUME TypeOK, StreamInv PROVE BytesInOrder
      OBVIOUS
    <2>1. got \in Seq(Nat) /\ Len(got) \in Nat /\ got = [i \in 1..Len(got) |-> got[i]]
      BY DEF TypeOK
    <2>2. got = [i \in 1..Len(got) |-> i]
      BY <2>1 DEF StreamInv
    <2>3. ~Available => Len(got) = arrived
      BY <2>1 DEF Available, StreamInv, MsgsFollow
    <2> QED
      BY <2>2, <2>3 DEF BytesInOrder
  <1> QED
    BY <1>1, <1>2, TypeCorrect, NextStreamInv, PTL DEF Spec

=============================================================================
