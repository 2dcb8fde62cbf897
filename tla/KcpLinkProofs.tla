--------------------------- MODULE KcpLinkProofs ---------------------------
(***************************************************************************)
(* Theorems about KcpLink, for every value of its constants.               *)
(***************************************************************************)
EXTENDS KcpLink, TLAPS, SequenceTheorems

(***************************************************************************)
(* The two endpoints.                                                      *)
(***************************************************************************)
LEMMA OtherPeer ==
    ASSUME NEW p \in Peers
    PROVE  /\ Other(p) \in Peers
           /\ Other(p) # p
           /\ Other(Other(p)) = p
           /\ \A q \in Peers : q = p \/ q = Other(p)
  <1>1. PICK x, y \in Peers : x # y /\ Peers = {x, y}
    BY PeersAssumption
  <1>2. \A q \in Peers : \E o \in Peers : o # q
    BY <1>1
  <1>3. \A q \in Peers : Other(q) \in Peers /\ Other(q) # q
    BY <1>2 DEF Other
  <1> QED
    BY <1>1, <1>3

-----------------------------------------------------------------------------
(***************************************************************************)
(* Type correctness.                                                       *)
(***************************************************************************)

LEMMA SeqOfFunction ==
    ASSUME NEW S, NEW m \in Nat, NEW f, f = [i \in 1..m |-> f[i]],
           \A i \in 1..m : f[i] \in S
    PROVE  f \in Seq(S) /\ Len(f) = m /\ DOMAIN f = 1..m
  OBVIOUS

LEMMA ConcatElements ==
    ASSUME NEW S, NEW s \in Seq(S), NEW u \in Seq(S)
    PROVE  /\ s \o u \in Seq(S) /\ Len(s \o u) = Len(s) + Len(u)
           /\ Len(s) \in Nat /\ Len(u) \in Nat
           /\ \A i \in 1..Len(s) : (s \o u)[i] = s[i]
           /\ \A i \in 1..Len(u) : (s \o u)[Len(s) + i] = u[i]
  OBVIOUS

LEMMA LastOrBefore == \A m \in Nat : \A i \in 1..(m + 1) : i \in 1..m \/ i = m + 1
  OBVIOUS

LEMMA SubSeqElements ==
    ASSUME NEW S, NEW s \in Seq(S), NEW m \in 0..Len(s)
    PROVE  /\ SubSeq(s, m + 1, Len(s)) \in Seq(S)
           /\ Len(SubSeq(s, m + 1, Len(s))) = Len(s) - m
           /\ \A i \in 1..(Len(s) - m) : SubSeq(s, m + 1, Len(s))[i] = s[m + i]
           /\ SubSeq(s, 1, m) \in Seq(S) /\ Len(SubSeq(s, 1, m)) = m
           /\ \A i \in 1..m : SubSeq(s, 1, m)[i] = s[i]
  OBVIOUS

LEMMA SndBufElements ==
    ASSUME NEW b \in Seq(SndSeg)
    PROVE  /\ DOMAIN b = 1..Len(b) /\ Len(b) \in Nat
           /\ \A i \in 1..Len(b) :
                /\ b[i] \in SndSeg /\ b[i].sn \in Nat /\ b[i].frag \in Frag
                /\ b[i].sent \in BOOLEAN /\ b[i].acked \in BOOLEAN
  <1>1. DOMAIN b = 1..Len(b) /\ Len(b) \in Nat /\ \A i \in 1..Len(b) : b[i] \in SndSeg
    OBVIOUS
  <1> QED BY <1>1 DEF SndSeg

LEMMA FragFields == \A f \in Frag : f.msg \in Nat /\ f.frg \in Nat /\ f.frg <= 255
  BY DEF Frag

LEMMA KcpFields ==
    ASSUME NEW k \in KCP
    PROVE  /\ k.snd_una \in Nat /\ k.snd_nxt \in Nat /\ k.rcv_nxt \in Nat
           /\ k.snd_wnd \in Nat /\ k.rcv_wnd \in Nat /\ k.rmt_wnd \in Nat
           /\ k.snd_queue \in Seq(Frag) /\ Len(k.snd_queue) \in Nat
           /\ k.rcv_queue \in Seq(Frag) /\ Len(k.rcv_queue) \in Nat
           /\ k.snd_buf \in Seq(SndSeg) /\ Len(k.snd_buf) \in Nat
           /\ k.acklist \in Seq(Nat) /\ Len(k.acklist) \in Nat
           /\ k.rcv_buf \in SUBSET RcvSeg /\ \A e \in k.rcv_buf : e.sn \in Nat
  <1>1. /\ k.snd_una \in Nat /\ k.snd_nxt \in Nat /\ k.rcv_nxt \in Nat
        /\ k.snd_wnd \in Positive /\ k.rcv_wnd \in Positive /\ k.rmt_wnd \in Nat
        /\ k.snd_queue \in Seq(Frag) /\ k.rcv_queue \in Seq(Frag)
        /\ k.snd_buf \in Seq(SndSeg) /\ k.acklist \in Seq(Nat)
        /\ k.rcv_buf \in SUBSET RcvSeg
    BY DEF KCP
  <1>2. k.snd_wnd \in Nat /\ k.rcv_wnd \in Nat
    BY <1>1 DEF Positive
  <1>3. \A e \in k.rcv_buf : e.sn \in Nat
    BY <1>1 DEF RcvSeg
  <1> QED BY <1>1, <1>2, <1>3, SMTT(30)

LEMMA FlushTypes ==
    ASSUME NEW k \in KCP, NEW t \in Timings(k), NEW full \in BOOLEAN
    PROVE  /\ NewSegsCount(k, t) \in 0..Len(k.snd_queue)
           /\ SndBufFilled(k, t) \in Seq(SndSeg)
           /\ Flushed(k, full, t) \in KCP
           /\ Burst(k, full, t) \in SUBSET Wire
  <1>t. t.cwnd \in Nat /\ t.rto \in SUBSET InFlight(k)
    BY WindowAssumption DEF Timings
  <1>k. /\ k.snd_una \in Nat /\ k.snd_nxt \in Nat /\ k.rcv_nxt \in Nat
        /\ k.snd_wnd \in Nat /\ k.rcv_wnd \in Nat /\ k.rmt_wnd \in Nat
        /\ k.snd_queue \in Seq(Frag) /\ k.rcv_queue \in Seq(Frag)
        /\ k.snd_buf \in Seq(SndSeg) /\ k.acklist \in Seq(Nat)
    BY KcpFields
  <1>1. NewSegsCount(k, t) \in 0..Len(k.snd_queue)
    <2>1. Cwnd(k, t) \in Nat
      BY <1>t, <1>k DEF Cwnd
    <2>2. Len(k.snd_queue) \in Nat
      BY <1>k
    <2> QED BY <2>1, <2>2, <1>k, SMTT(30) DEF NewSegsCount
  <1> DEFINE new == [i \in 1..NewSegsCount(k, t) |->
                       [sn |-> k.snd_nxt + i - 1, frag |-> k.snd_queue[i],
                        sent |-> FALSE, acked |-> FALSE]]
  <1>2. new \in Seq(SndSeg)
    <2>1. \A i \in 1..NewSegsCount(k, t) : k.snd_queue[i] \in Frag
      BY <1>1, <1>k
    <2>2. \A i \in 1..NewSegsCount(k, t) : k.snd_nxt + i - 1 \in Nat
      BY <1>1, <1>k
    <2>3. \A i \in 1..NewSegsCount(k, t) : new[i] \in SndSeg
      BY <2>1, <2>2 DEF SndSeg
    <2> QED BY <2>3, <1>1
  <1>3. SndBufFilled(k, t) \in Seq(SndSeg)
    BY <1>2, <1>k DEF SndBufFilled
  <1>4. wnd_unused(k) \in Nat
    BY <1>k, WindowAssumption DEF wnd_unused
  <1>5. Burst(k, full, t) \in SUBSET Wire
    <2>1. \A cmd \in {"PUSH", "ACK", "WASK", "WINS"}, sn \in Nat, frag \in Frag :
             WireSeg(k, cmd, sn, frag) \in Wire
      BY <1>4, <1>k DEF WireSeg, Wire
    <2>2. Recycled \in Frag
      BY DEF Recycled, Frag
    <2>3. FlushAcks(k) \subseteq Wire
      BY <2>1, <2>2, <1>k DEF FlushAcks
    <2>4. FlushProbes(k, t) \subseteq Wire
      BY <2>1, <2>2 DEF FlushProbes
    <2>5. FlushData(k, t) \subseteq Wire
      <3> DEFINE b == SndBufFilled(k, t)
      <3>1. \A i \in DOMAIN b : b[i].sn \in Nat /\ b[i].frag \in Frag
        BY <1>3, SndBufElements
      <3> QED BY <2>1, <3>1 DEF FlushData
    <2> QED BY <2>3, <2>4, <2>5 DEF Burst
  <1>6. Flushed(k, full, t) \in KCP
    <2> DEFINE b == SndBufFilled(k, t)
               sb == [i \in DOMAIN b |->
                        [b[i] EXCEPT !.sent = @ \/ NeedSend(b[i], t)]]
               n == NewSegsCount(k, t)
    <2>1. sb \in Seq(SndSeg)
      <3>1. DOMAIN b = 1..Len(b) /\ Len(b) \in Nat
        BY <1>3
      <3>2. \A i \in 1..Len(b) : b[i] \in SndSeg
        BY <1>3
      <3>3. \A i \in 1..Len(b) : sb[i] \in SndSeg
        <4> TAKE i \in 1..Len(b)
        <4>1. (b[i].sent \/ NeedSend(b[i], t)) \in BOOLEAN
          BY <3>2 DEF SndSeg
        <4> QED BY <3>1, <3>2, <4>1 DEF SndSeg
      <3> QED BY <3>1, <3>3
    <2>2. SubSeq(k.snd_queue, n + 1, Len(k.snd_queue)) \in Seq(Frag)
      BY <1>1, <1>k
    <2>3. k.snd_nxt + n \in Nat
      BY <1>1, <1>k
    <2>4. <<>> \in Seq(Nat)
      OBVIOUS
    <2>5. (k.rmt_wnd = 0) \in BOOLEAN
      OBVIOUS
    <2> HIDE DEF sb, n, b
    <2>6. Flushed(k, full, t) =
             [k EXCEPT !.acklist = <<>>, !.probe = {}, !.probing = (k.rmt_wnd = 0),
                !.snd_queue = SubSeq(@, n + 1, Len(@)), !.snd_nxt = @ + n,
                !.snd_buf = IF full THEN sb ELSE b]
      BY DEF Flushed, sb, n, b
    <2>7. (IF full THEN sb ELSE b) \in Seq(SndSeg)
      BY <2>1, <1>3 DEF b
    <2> DEFINE buf == IF full THEN sb ELSE b
               rest == SubSeq(k.snd_queue, n + 1, Len(k.snd_queue))
               nxt == k.snd_nxt + n
               sent == [k EXCEPT !.snd_queue = rest, !.snd_nxt = nxt, !.snd_buf = buf]
    <2>8. Flushed(k, full, t) =
             [sent EXCEPT !.acklist = <<>>, !.probe = {}, !.probing = (k.rmt_wnd = 0)]
      BY <2>6
    <2>9. buf \in Seq(SndSeg) /\ rest \in Seq(Frag) /\ nxt \in Nat
      BY <2>2, <2>3, <2>7
    <2> HIDE DEF buf, rest, nxt
    <2>10. sent \in KCP
      BY <2>9 DEF KCP
    <2> HIDE DEF sent
    <2> QED BY <2>4, <2>5, <2>8, <2>10 DEF KCP
  <1> QED BY <1>1, <1>3, <1>5, <1>6

LEMMA InputTypes ==
    ASSUME NEW k \in KCP, NEW s \in Wire, NEW reg \in BOOLEAN,
           NEW c \in 0..Len(k.snd_buf)
    PROVE  /\ InputHeader(k, s, reg, c) \in KCP
           /\ parse_ack(k, s.sn) \in KCP
           /\ ack_push(k, s.sn) \in KCP
           /\ RcvBufInsert(k, s) \in KCP
           /\ [k EXCEPT !.probe = @ \cup {"ASK_TELL"}] \in KCP
  <1>s. s.sn \in Nat /\ s.wnd \in Nat /\ s.frag \in Frag
    BY DEF Wire
  <1>k. /\ k.snd_una \in Nat /\ k.snd_nxt \in Nat /\ k.rmt_wnd \in Nat
        /\ k.snd_buf \in Seq(SndSeg) /\ k.acklist \in Seq(Nat)
        /\ k.rcv_buf \in SUBSET RcvSeg
        /\ k.probe \in SUBSET {"ASK_SEND", "ASK_TELL"}
    BY DEF KCP
  <1>1. InputHeader(k, s, reg, c) \in KCP
    <2> DEFINE k1 == [k EXCEPT !.rmt_wnd = IF reg THEN s.wnd ELSE @]
               k2 == parse_una(k1, c)
    <2>1. k1 \in KCP /\ k1.snd_buf = k.snd_buf
      BY <1>s, <1>k DEF KCP
    <2>2. k2 \in KCP
      <3>1. SubSeq(k.snd_buf, c + 1, Len(k.snd_buf)) \in Seq(SndSeg)
        BY <1>k
      <3> QED BY <2>1, <3>1 DEF parse_una, KCP
    <2>3. shrink_buf(k2) \in KCP
      <3>1. k2.snd_buf \in Seq(SndSeg) /\ k2.snd_nxt \in Nat
        BY <2>2 DEF KCP
      <3>2. ASSUME k2.snd_buf # <<>> PROVE k2.snd_buf[1].sn \in Nat
        <4> HIDE DEF k2
        <4>1. 1 \in 1..Len(k2.snd_buf)
          BY <3>1, <3>2
        <4> QED BY <3>1, <4>1, SndBufElements
      <3> HIDE DEF k2
      <3> QED BY <2>2, <3>1, <3>2 DEF shrink_buf, KCP
    <2> QED BY <2>3 DEF InputHeader
  <1>2. parse_ack(k, s.sn) \in KCP
    <2> DEFINE sb == [i \in DOMAIN k.snd_buf |->
                        IF k.snd_buf[i].sn = s.sn
                        THEN [k.snd_buf[i] EXCEPT !.acked = TRUE, !.frag = Recycled]
                        ELSE k.snd_buf[i]]
    <2>1. Recycled \in Frag
      BY DEF Recycled, Frag
    <2>2. \A i \in 1..Len(k.snd_buf) : sb[i] \in SndSeg
      <3>1. \A g \in SndSeg : [g EXCEPT !.acked = TRUE, !.frag = Recycled] \in SndSeg
        BY <2>1 DEF SndSeg
      <3> QED BY <3>1, <1>k, SndBufElements
    <2>3. sb \in Seq(SndSeg)
      <3>1. sb = [i \in 1..Len(k.snd_buf) |-> sb[i]] /\ Len(k.snd_buf) \in Nat
        BY <1>k, SndBufElements
      <3> HIDE DEF sb
      <3> QED BY <2>2, <3>1
    <2>4. parse_ack(k, s.sn) = k \/ parse_ack(k, s.sn) = [k EXCEPT !.snd_buf = sb]
      BY DEF parse_ack
    <2> HIDE DEF sb
    <2> QED BY <2>3, <2>4 DEF KCP
  <1>3. ack_push(k, s.sn) \in KCP
    <2>1. Append(k.acklist, s.sn) \in Seq(Nat)
      BY <1>k, <1>s
    <2> QED BY <2>1 DEF ack_push, KCP
  <1>4. RcvBufInsert(k, s) \in KCP
    <2>1. k.rcv_buf \cup {[sn |-> s.sn, frag |-> s.frag]} \in SUBSET RcvSeg
      BY <1>k, <1>s DEF RcvSeg
    <2> QED BY <2>1 DEF RcvBufInsert, KCP
  <1>5. [k EXCEPT !.probe = @ \cup {"ASK_TELL"}] \in KCP
    BY <1>k DEF KCP
  <1> QED BY <1>1, <1>2, <1>3, <1>4, <1>5

LEMMA MoveTypes ==
    ASSUME NEW k \in KCP, NEW n \in Nat, MoveStops(k, n)
    PROVE  /\ MoveReady(k, n) \in KCP
           /\ \A i \in 1..n : \E e \in k.rcv_buf :
                 e.sn = k.rcv_nxt + i - 1 /\ FragOf(k, k.rcv_nxt + i - 1) = e.frag
  <1>k. /\ k.rcv_nxt \in Nat /\ k.rcv_queue \in Seq(Frag)
        /\ k.rcv_buf \in SUBSET RcvSeg
    BY DEF KCP
  <1>1. ASSUME NEW i \in 1..n
        PROVE  \E e \in k.rcv_buf :
                 e.sn = k.rcv_nxt + i - 1 /\ FragOf(k, k.rcv_nxt + i - 1) = e.frag
    <2> DEFINE sn == k.rcv_nxt + i - 1
    <2>1. Has(k, sn)
      <3>1. i - 1 \in 0..(n - 1) /\ k.rcv_nxt + (i - 1) = sn
        BY <1>k
      <3> HIDE DEF sn
      <3> QED BY <3>1 DEF MoveStops
    <2> HIDE DEF sn
    <2>2. \E e \in k.rcv_buf : e.sn = sn /\ FragOf(k, sn) = e.frag
      BY <2>1 DEF Has, FragOf
    <2> QED BY <2>2 DEF sn
  <1>2. MoveReady(k, n) \in KCP
    <2> DEFINE new == [i \in 1..n |-> FragOf(k, k.rcv_nxt + i - 1)]
    <2>1. new \in Seq(Frag)
      <3>1. \A i \in 1..n : new[i] \in Frag
        BY <1>1, <1>k DEF RcvSeg
      <3> QED BY <3>1
    <2>2. k.rcv_queue \o new \in Seq(Frag)
      BY <2>1, <1>k
    <2>3. {e \in k.rcv_buf : e.sn < k.rcv_nxt \/ e.sn >= k.rcv_nxt + n} \in SUBSET RcvSeg
      BY <1>k
    <2>4. k.rcv_nxt + n \in Nat
      BY <1>k
    <2> HIDE DEF new
    <2> QED BY <2>2, <2>3, <2>4 DEF MoveReady, KCP, new
  <1> QED BY <1>1, <1>2

(***************************************************************************)
(* Taking a datagram out of the network leaves only what was there.        *)
(***************************************************************************)
LEMMA WithoutShrinks ==
    ASSUME NEW b \in Seq(SUBSET Wire), NEW i \in DOMAIN b, NEW d
    PROVE  /\ Without(b, i, d) \in Seq(SUBSET Wire)
           /\ \A j \in DOMAIN Without(b, i, d) :
                \E m \in DOMAIN b : Without(b, i, d)[j] \subseteq b[m]
  <1>i. i \in 1..Len(b) /\ Len(b) \in Nat
    OBVIOUS
  <1>1. CASE b[i] = d
    <2> DEFINE s1 == SubSeq(b, 1, i - 1)
               s2 == SubSeq(b, i + 1, Len(b))
    <2>1. /\ s1 \in Seq(SUBSET Wire) /\ Len(s1) = i - 1
          /\ \A j \in 1..(i - 1) : s1[j] = b[j]
      BY <1>i
    <2>2. /\ s2 \in Seq(SUBSET Wire) /\ Len(s2) = Len(b) - i
          /\ \A j \in 1..(Len(b) - i) : s2[j] = b[i + j]
      BY <1>i
    <2> HIDE DEF s1, s2
    <2>3. /\ s1 \o s2 \in Seq(SUBSET Wire) /\ Len(s1 \o s2) = Len(b) - 1
          /\ \A j \in 1..(Len(b) - 1) :
               (s1 \o s2)[j] = IF j <= i - 1 THEN b[j] ELSE b[j + 1]
      BY <2>1, <2>2, <1>i, SMTT(30)
    <2>4. Without(b, i, d) = s1 \o s2
      BY <1>1 DEF Without, s1, s2
    <2>5. \A j \in 1..(Len(b) - 1) : \E m \in 1..Len(b) : (s1 \o s2)[j] = b[m]
      <3> TAKE j \in 1..(Len(b) - 1)
      <3>1. CASE j <= i - 1
        <4>1. j \in 1..Len(b)
          BY <1>i
        <4> QED BY <2>3, <3>1, <4>1
      <3>2. CASE ~(j <= i - 1)
        <4>1. j + 1 \in 1..Len(b)
          BY <1>i
        <4> QED BY <2>3, <3>2, <4>1
      <3> QED BY <3>1, <3>2
    <2>6. DOMAIN (s1 \o s2) = 1..(Len(b) - 1) /\ DOMAIN b = 1..Len(b)
      BY <2>3, <1>i
    <2>7. \A j \in DOMAIN (s1 \o s2) : \E m \in DOMAIN b : (s1 \o s2)[j] \subseteq b[m]
      BY <2>5, <2>6
    <2> QED BY <2>3, <2>4, <2>7
  <1>2. CASE b[i] # d
    <2>1. Without(b, i, d) = [b EXCEPT ![i] = @ \ d]
      BY <1>2 DEF Without
    <2>2. b[i] \ d \in SUBSET Wire
      BY <1>i
    <2>3. [b EXCEPT ![i] = @ \ d] \in Seq(SUBSET Wire)
      BY <1>i, <2>2
    <2> QED BY <2>1, <2>3
  <1> QED BY <1>1, <1>2

(***************************************************************************)
(* What an operation of p leaves in kcp is well typed if it was.           *)
(***************************************************************************)
LEMMA OutputTypes ==
    ASSUME TypeOK, NEW p \in Peers, NEW k \in KCP, NEW full \in BOOLEAN,
           NEW t \in Timings(k), flush(p, k, full, t)
    PROVE  kcp' \in [Peers -> KCP] /\ net' \in [Peers -> Seq(SUBSET Wire)]
  <1>1. Flushed(k, full, t) \in KCP /\ Burst(k, full, t) \in SUBSET Wire
    BY FlushTypes
  <1>2. kcp' \in [Peers -> KCP]
    BY <1>1 DEF TypeOK, flush
  <1>3. Append(net[Other(p)], Burst(k, full, t)) \in Seq(SUBSET Wire)
    BY <1>1, OtherPeer DEF TypeOK
  <1>4. net' \in [Peers -> Seq(SUBSET Wire)]
    BY <1>3, OtherPeer DEF TypeOK, flush, output
  <1> QED BY <1>2, <1>4

LEMMA FragmentsType ==
    ASSUME NEW m \in Nat, NEW c \in FragCounts
    PROVE  /\ Fragments(m, c) \in Seq(Frag) /\ Len(Fragments(m, c)) = c
           /\ c \in 1..255
           /\ \A i \in 1..c : Fragments(m, c)[i] = [msg |-> m, frg |-> c - i]
  <1>1. c \in 1..255
    BY FragCountsAssumption
  <1>2. \A i \in 1..c : [msg |-> m, frg |-> c - i] \in Frag
    BY <1>1 DEF Frag
  <1> QED BY <1>1, <1>2 DEF Fragments

LEMMA TypeStep == TypeOK /\ [Next]_vars => TypeOK'
  <1> SUFFICES ASSUME TypeOK, [Next]_vars PROVE TypeOK'
    OBVIOUS
  <1>u. CASE UNCHANGED vars
    BY <1>u DEF TypeOK, vars
  <1> SUFFICES ASSUME Next PROVE TypeOK'
    BY <1>u
  <1>p. PICK p \in Peers : \/ User(p)
                           \/ \E t \in Timings(kcp[p]) : Update(p, t)
                           \/ Input(p) \/ Deliver(p) \/ Lose(p)
    BY DEF Next
  <1> DEFINE k == kcp[p]
  <1>k. /\ k \in KCP /\ inp[p].segs \in SUBSET Wire /\ inp[p].reg \in BOOLEAN
        /\ inp[p].full \in BOOLEAN /\ inp[p].busy \in BOOLEAN
        /\ written[p] \in Seq(Frag) /\ read[p] \in Seq(Frag)
        /\ net[p] \in Seq(SUBSET Wire)
    BY <1>p DEF TypeOK
  <1>1. ASSUME NEW c \in FragCounts, Send(p, c) PROVE TypeOK'
    <2> DEFINE fs == Fragments(Len(written[p]) + 1, c)
    <2>1. fs \in Seq(Frag)
      BY <1>k, FragmentsType
    <2>2. k.snd_queue \o fs \in Seq(Frag) /\ written[p] \o fs \in Seq(Frag)
      BY <2>1, <1>k DEF KCP
    <2>3. [k EXCEPT !.snd_queue = @ \o fs] \in KCP
      BY <2>2, <1>k DEF KCP
    <2> HIDE DEF fs
    <2> QED BY <1>1, <1>p, <2>2, <2>3 DEF Send, TypeOK, fs
  <1>2. CASE Recv(p)
    <2>1. PICK j \in 1..Len(k.rcv_queue) :
            LET k1 == [k EXCEPT !.rcv_queue = SubSeq(@, j + 1, Len(@))]
            IN  /\ \E n \in 0..Cardinality(k.rcv_buf) :
                     LET k2 == MoveReady(k1, n)
                         tell == Len(k.rcv_queue) >= k.rcv_wnd /\ Len(k2.rcv_queue) < k2.rcv_wnd
                     IN  /\ MoveStops(k1, n)
                         /\ kcp' = [kcp EXCEPT ![p] = [k2 EXCEPT !.probe =
                               IF tell THEN @ \cup {"ASK_TELL"} ELSE @]]
                /\ read' = [read EXCEPT ![p] = @ \o SubSeq(k.rcv_queue, 1, j)]
      BY <1>2 DEF Recv
    <2> DEFINE k1 == [k EXCEPT !.rcv_queue = SubSeq(@, j + 1, Len(@))]
    <2>q. k.rcv_queue \in Seq(Frag)
      BY <1>k DEF KCP
    <2>2. k1 \in KCP
      <3>1. SubSeq(k.rcv_queue, j + 1, Len(k.rcv_queue)) \in Seq(Frag)
        BY <2>q
      <3> QED BY <3>1, <1>k DEF KCP
    <2>3. PICK n \in 0..Cardinality(k.rcv_buf), tell \in BOOLEAN :
             /\ MoveStops(k1, n)
             /\ kcp' = [kcp EXCEPT ![p] = [MoveReady(k1, n) EXCEPT !.probe =
                           IF tell THEN @ \cup {"ASK_TELL"} ELSE @]]
      BY <2>1
    <2>4. n \in Nat
      BY <2>3
    <2>5. MoveReady(k1, n) \in KCP
      BY <2>2, <2>3, <2>4, MoveTypes
    <2> HIDE DEF k1
    <2>6. [MoveReady(k1, n) EXCEPT !.probe =
               IF tell THEN @ \cup {"ASK_TELL"} ELSE @] \in KCP
      BY <2>5 DEF KCP
    <2>7. read[p] \o SubSeq(k.rcv_queue, 1, j) \in Seq(Frag)
      BY <2>q, <1>k
    <2>8. kcp' \in [Peers -> KCP]
      BY <2>3, <2>6 DEF TypeOK
    <2>9. read' \in [Peers -> Seq(Frag)]
      BY <2>1, <2>7 DEF TypeOK
    <2> QED BY <1>2, <2>8, <2>9 DEF Recv, TypeOK
  <1>3. ASSUME NEW sw \in SndWnds, NEW rw \in RcvWnds, WndSize(p, sw, rw) PROVE TypeOK'
    <2>1. sw \in Positive /\ rw \in Positive
      BY WindowAssumption DEF Positive
    <2>2. [k EXCEPT !.snd_wnd = sw, !.rcv_wnd = rw] \in KCP
      BY <1>k, <2>1 DEF KCP
    <2> QED BY <1>3, <1>p, <2>2 DEF WndSize, TypeOK
  <1>4. ASSUME NEW t \in Timings(k), Update(p, t) PROVE TypeOK'
    BY <1>4, <1>k, <1>p, OutputTypes DEF Update, TypeOK
  <1>5. ASSUME NEW s \in inp[p].segs, NEW f \in BOOLEAN, SegDone(p, s, f),
               NEW k2 \in KCP, kcp' = [kcp EXCEPT ![p] = k2]
        PROVE  TypeOK'
    <2> DEFINE I == [busy : BOOLEAN, segs : SUBSET Wire, full : BOOLEAN, reg : BOOLEAN]
               i2 == [inp[p] EXCEPT !.segs = @ \ {s}, !.full = @ \/ f]
    <2>a. inp \in [Peers -> I]
      BY DEF TypeOK
    <2>b. (inp[p].full \/ f) \in BOOLEAN /\ inp[p].segs \ {s} \in SUBSET Wire
      BY <1>k
    <2>c. i2 \in I
      BY <2>a, <2>b, <1>p
    <2>d. inp' = [inp EXCEPT ![p] = i2]
      BY <1>5, <2>a, <1>p DEF SegDone
    <2>1. inp' \in [Peers -> I]
      <3> HIDE DEF i2, I
      <3> QED BY <2>a, <2>c, <2>d
    <2> QED BY <1>5, <1>p, <2>1 DEF SegDone, TypeOK
  <1>f. FirstSegs(inp[p].segs) \subseteq inp[p].segs
    BY DEF FirstSegs
  <1>6. CASE InputAck(p)
    <2>1. PICK s \in FirstSegs(inp[p].segs), c \in 0..Len(k.snd_buf),
               fast \in BOOLEAN :
             /\ kcp' = [kcp EXCEPT ![p] =
                           parse_ack(InputHeader(k, s, inp[p].reg, c), s.sn)]
             /\ SegDone(p, s, c > 0 \/ fast)
      BY <1>6 DEF InputAck, parse_fastack
    <2>2. s \in Wire /\ s \in inp[p].segs
      BY <1>f, <1>k
    <2>3. InputHeader(k, s, inp[p].reg, c) \in KCP
      BY <2>2, <1>k, InputTypes
    <2>4. 0 \in 0..Len(InputHeader(k, s, inp[p].reg, c).snd_buf)
      BY <2>3 DEF KCP
    <2>5. parse_ack(InputHeader(k, s, inp[p].reg, c), s.sn) \in KCP
      BY <2>2, <2>3, <2>4, InputTypes
    <2>6. (c > 0 \/ fast) \in BOOLEAN
      OBVIOUS
    <2> QED BY <2>1, <2>2, <2>5, <2>6, <1>5
  <1>7. CASE InputPush(p)
    <2>1. PICK s \in FirstSegs(inp[p].segs), c \in 0..Len(k.snd_buf) :
            LET k1 == InputHeader(k, s, inp[p].reg, c)
                k2 == ack_push(k1, s.sn)
                k3 == RcvBufInsert(k2, s)
            IN  /\ \/ kcp' = [kcp EXCEPT ![p] = k1]
                   \/ kcp' = [kcp EXCEPT ![p] = k2]
                   \/ \E n \in 0..Cardinality(k3.rcv_buf) :
                         /\ MoveStops(k3, n)
                         /\ kcp' = [kcp EXCEPT ![p] = MoveReady(k3, n)]
                /\ SegDone(p, s, c > 0)
      BY <1>7 DEF InputPush
    <2> DEFINE k1 == InputHeader(k, s, inp[p].reg, c)
               k2 == ack_push(k1, s.sn)
               k3 == RcvBufInsert(k2, s)
    <2>2. s \in Wire /\ s \in inp[p].segs
      BY <1>f, <1>k
    <2>3. k1 \in KCP
      BY <2>2, <1>k, InputTypes
    <2>4. \A x \in KCP : 0 \in 0..Len(x.snd_buf)
      BY DEF KCP
    <2> HIDE DEF k1
    <2>5. k2 \in KCP
      BY <2>2, <2>3, <2>4, InputTypes
    <2> HIDE DEF k2
    <2>6. k3 \in KCP
      BY <2>2, <2>5, <2>4, InputTypes
    <2> HIDE DEF k3
    <2>7. ASSUME NEW n \in 0..Cardinality(k3.rcv_buf), MoveStops(k3, n)
          PROVE  MoveReady(k3, n) \in KCP
      BY <2>6, <2>7, MoveTypes
    <2>8. \E k4 \in KCP : kcp' = [kcp EXCEPT ![p] = k4]
      BY <2>1, <2>3, <2>5, <2>6, <2>7 DEF k1, k2, k3
    <2>9. SegDone(p, s, c > 0) /\ (c > 0) \in BOOLEAN
      BY <2>1
    <2> QED BY <2>2, <2>8, <2>9, <1>5
  <1>8. CASE InputWask(p)
    <2>1. PICK s \in FirstSegs(inp[p].segs), c \in 0..Len(k.snd_buf) :
             /\ kcp' = [kcp EXCEPT ![p] = [InputHeader(k, s, inp[p].reg, c)
                           EXCEPT !.probe = @ \cup {"ASK_TELL"}]]
             /\ SegDone(p, s, c > 0)
      BY <1>8 DEF InputWask
    <2>2. s \in Wire /\ s \in inp[p].segs
      BY <1>f, <1>k
    <2>3. InputHeader(k, s, inp[p].reg, c) \in KCP
      BY <2>2, <1>k, InputTypes
    <2>4. [InputHeader(k, s, inp[p].reg, c) EXCEPT !.probe = @ \cup {"ASK_TELL"}] \in KCP
      BY <2>3 DEF KCP
    <2>5. (c > 0) \in BOOLEAN
      OBVIOUS
    <2> QED BY <2>1, <2>2, <2>4, <2>5, <1>5
  <1>9. CASE InputWins(p)
    <2>1. PICK s \in FirstSegs(inp[p].segs), c \in 0..Len(k.snd_buf) :
             /\ kcp' = [kcp EXCEPT ![p] = InputHeader(k, s, inp[p].reg, c)]
             /\ SegDone(p, s, c > 0)
      BY <1>9 DEF InputWins
    <2>2. s \in Wire /\ s \in inp[p].segs
      BY <1>f, <1>k
    <2>3. InputHeader(k, s, inp[p].reg, c) \in KCP
      BY <2>2, <1>k, InputTypes
    <2>4. (c > 0) \in BOOLEAN
      OBVIOUS
    <2> QED BY <2>1, <2>2, <2>3, <2>4, <1>5
  <1>i. Idle \in [busy : BOOLEAN, segs : SUBSET Wire, full : BOOLEAN, reg : BOOLEAN]
    BY DEF Idle
  <1>10. CASE FinishInput(p)
    <2>1. kcp' \in [Peers -> KCP] /\ net' \in [Peers -> Seq(SUBSET Wire)]
      <3>1. CASE inp[p].full \/ AcksDue(k)
        <4>1. PICK t \in Timings(k) : flush(p, k, inp[p].full, t)
          BY <1>10, <3>1 DEF FinishInput
        <4> QED BY <4>1, <1>k, <1>p, OutputTypes
      <3>2. CASE ~(inp[p].full \/ AcksDue(k))
        BY <1>10, <3>2 DEF FinishInput, TypeOK
      <3> QED BY <3>1, <3>2
    <2> QED BY <1>10, <1>i, <2>1 DEF FinishInput, TypeOK
  <1>11. CASE InputReject(p)
    BY <1>11, <1>i DEF InputReject, TypeOK
  <1>d. ASSUME NEW i \in DOMAIN net[p], NEW d \in Datagrams(net[p][i])
        PROVE  d \in SUBSET Wire /\ [net EXCEPT ![p] = Without(@, i, d)] \in [Peers -> Seq(SUBSET Wire)]
    <2>1. net[p][i] \in SUBSET Wire
      BY <1>k
    <2>2. d \in SUBSET Wire
      BY <2>1 DEF Datagrams, FirstSegs
    <2>3. Without(net[p], i, d) \in Seq(SUBSET Wire)
      BY <1>k, WithoutShrinks
    <2> QED BY <2>2, <2>3 DEF TypeOK
  <1>12. CASE Deliver(p)
    <2>1. PICK i \in DOMAIN net[p] : \E d \in Datagrams(net[p][i]), keep, reg \in BOOLEAN :
             /\ inp' = [inp EXCEPT ![p] = [busy |-> TRUE, segs |-> d,
                                           full |-> FALSE, reg |-> reg]]
             /\ net' = IF keep THEN net ELSE [net EXCEPT ![p] = Without(@, i, d)]
             /\ faults' = IF keep THEN faults + 1 ELSE faults
             /\ UNCHANGED <<kcp, written, read>>
      BY <1>12 DEF Deliver
    <2>2. PICK d \in Datagrams(net[p][i]), keep \in BOOLEAN, reg \in BOOLEAN :
             /\ inp' = [inp EXCEPT ![p] = [busy |-> TRUE, segs |-> d,
                                           full |-> FALSE, reg |-> reg]]
             /\ net' = IF keep THEN net ELSE [net EXCEPT ![p] = Without(@, i, d)]
             /\ faults' = IF keep THEN faults + 1 ELSE faults
             /\ UNCHANGED <<kcp, written, read>>
      BY <2>1
    <2>3. d \in SUBSET Wire /\ net' \in [Peers -> Seq(SUBSET Wire)]
      BY <2>2, <1>d DEF TypeOK
    <2>4. inp' \in [Peers -> [busy : BOOLEAN, segs : SUBSET Wire,
                              full : BOOLEAN, reg : BOOLEAN]]
      BY <2>2, <2>3 DEF TypeOK
    <2> QED BY <2>2, <2>3, <2>4 DEF TypeOK
  <1>13. CASE Lose(p)
    <2>1. net' \in [Peers -> Seq(SUBSET Wire)]
      BY <1>13, <1>d DEF Lose
    <2> QED BY <1>13, <2>1 DEF Lose, TypeOK
  <1> QED BY <1>p, <1>1, <1>2, <1>3, <1>4, <1>6, <1>7, <1>8, <1>9, <1>10, <1>11,
             <1>12, <1>13 DEF User, Input

(***************************************************************************)
(* Every state of two KCP endpoints is well typed: whatever the network    *)
(* does, Send, Recv, Input, flush and WndSize keep the queues, the windows *)
(* and the wire format well formed.                                        *)
(***************************************************************************)
THEOREM TypeCorrect == Spec => []TypeOK
  <1>1. Init => TypeOK
    <2>1. NewKCP \in KCP
      BY WindowAssumption DEF NewKCP, KCP, Positive
    <2> QED BY <2>1 DEF Init, TypeOK, Idle
  <1> QED BY <1>1, TypeStep, PTL DEF Spec

-----------------------------------------------------------------------------
(***************************************************************************)
(* The inductive invariant.  Every step is taken by one endpoint p: it may *)
(* change p's state, take from what is under way to p and add to what is   *)
(* under way to the opposite endpoint.  PeerStep reduces LinkInv' to facts *)
(* about p alone; the lemmas before it establish them for each operation.  *)
(***************************************************************************)

(***************************************************************************)
(* k2 has received all that k has.                                         *)
(***************************************************************************)
Advances(k, k2) == /\ k.rcv_nxt <= k2.rcv_nxt
                   /\ \A sn \in Nat : Received(k, sn) => Received(k2, sn)

Extends(w, w2) == Len(w) <= Len(w2) /\ \A i \in 1..Len(w) : w2[i] = w[i]

LEMMA ExtendsInv ==
    ASSUME NEW k \in KCP, NEW w \in Seq(Frag), NEW w2 \in Seq(Frag), NEW r \in Seq(Frag),
           Extends(w, w2), RcvInv(k, w, r)
    PROVE  RcvInv(k, w2, r)
  <1>k. /\ k.rcv_nxt \in Nat /\ Len(k.rcv_queue) \in Nat
        /\ \A e \in k.rcv_buf : e.sn \in Nat
        /\ Len(w) \in Nat /\ Len(w2) \in Nat /\ Len(r) \in Nat
    BY KcpFields
  <1>1. k.rcv_nxt <= Len(w2)
    BY <1>k DEF Extends, RcvInv
  <1>2. \A i \in 1..Len(r) : r[i] = w2[i]
    BY <1>k DEF Extends, RcvInv
  <1>3. \A i \in 1..Len(k.rcv_queue) : k.rcv_queue[i] = w2[Len(r) + i]
    <2> TAKE i \in 1..Len(k.rcv_queue)
    <2>1. Len(r) + i \in 1..Len(w)
      BY <1>k DEF RcvInv
    <2> QED BY <2>1 DEF Extends, RcvInv
  <1>4. \A e \in k.rcv_buf : e.sn < Len(w2) /\ e.frag = w2[e.sn + 1]
    <2> TAKE e \in k.rcv_buf
    <2>1. e.sn \in Nat /\ e.sn < Len(w) /\ e.frag = w[e.sn + 1]
      BY <1>k DEF RcvInv
    <2>2. Len(w) <= Len(w2) /\ \A i \in 1..Len(w) : w2[i] = w[i]
      BY DEF Extends
    <2>3. e.sn + 1 \in 1..Len(w) /\ e.sn < Len(w2)
      BY <2>1, <2>2, <1>k
    <2> QED BY <2>1, <2>2, <2>3
  <1> QED BY <1>1, <1>2, <1>3, <1>4 DEF RcvInv

LEMMA SegInvMono ==
    ASSUME NEW s \in Wire, NEW k \in KCP, NEW k2 \in KCP,
           NEW w \in Seq(Frag), NEW w2 \in Seq(Frag),
           Advances(k, k2), Extends(w, w2), SegInv(s, w, k)
    PROVE  SegInv(s, w2, k2)
  <1>k. /\ k.rcv_nxt \in Nat /\ k2.rcv_nxt \in Nat
        /\ s.una \in Nat /\ s.sn \in Nat /\ Len(w) \in Nat /\ Len(w2) \in Nat
    BY KcpFields DEF Wire
  <1>1. s.una <= k2.rcv_nxt
    BY <1>k DEF Advances, SegInv
  <1>2. s.cmd = "ACK" => Received(k2, s.sn)
    BY <1>k DEF Advances, SegInv
  <1>3. s.cmd = "PUSH" => s.sn < Len(w2) /\ s.frag = w2[s.sn + 1]
    <2> HAVE s.cmd = "PUSH"
    <2>1. s.sn + 1 \in 1..Len(w) /\ s.frag = w[s.sn + 1]
      BY <1>k DEF SegInv
    <2> QED BY <2>1, <1>k DEF Extends
  <1> QED BY <1>1, <1>2, <1>3 DEF SegInv

LEMMA AckInvMono ==
    ASSUME NEW k \in KCP, NEW q \in KCP, NEW q2 \in KCP, Advances(q, q2), AckInv(k, q)
    PROVE  AckInv(k, q2)
  <1>1. k.snd_una <= q2.rcv_nxt
    BY KcpFields DEF Advances, AckInv
  <1>2. \A i \in 1..Len(k.snd_buf) : k.snd_buf[i].sn \in Nat
    BY SndBufElements DEF KCP
  <1> QED BY <1>1, <1>2 DEF AckInv, Advances

ReadWhole(r) == r # <<>> => r[Len(r)].frg = 0

LEMMA PeerStep ==
    ASSUME TypeOK, TypeOK', LinkInv, NEW p \in Peers,
           \A q \in Peers : q # p => /\ kcp'[q] = kcp[q]
                                     /\ written'[q] = written[q]
                                     /\ read'[q] = read[q],
           Extends(written[p], written'[p]), Framed(written'[p]), ReadWhole(read'[p]),
           SndInv(kcp'[p], written'[p]),
           RcvInv(kcp'[p], written[Other(p)], read'[p]),
           AckInv(kcp'[p], kcp[Other(p)]),
           Advances(kcp[p], kcp'[p]),
           SegsTo(p)' \subseteq SegsTo(p),
           \A s \in SegsTo(Other(p))' : \/ s \in SegsTo(Other(p))
                                        \/ SegInv(s, written'[p], kcp'[p])
    PROVE  LinkInv'
  <1> DEFINE o == Other(p)
  <1>o. /\ o \in Peers /\ o # p /\ Other(o) = p
        /\ \A q \in Peers : q = p \/ q = o
    BY OtherPeer
  <1>t. /\ kcp[p] \in KCP /\ kcp'[p] \in KCP /\ kcp[o] \in KCP
        /\ written[p] \in Seq(Frag) /\ written'[p] \in Seq(Frag) /\ read[o] \in Seq(Frag)
        /\ SegsTo(o) \subseteq Wire
    BY <1>o DEF TypeOK, SegsTo
  <1> HIDE DEF o
  <1>1. /\ SndInv(kcp'[p], written'[p]) /\ RcvInv(kcp'[p], written'[o], read'[p])
        /\ AckInv(kcp'[p], kcp'[o])
        /\ Framed(written'[p]) /\ ReadWhole(read'[p])
    BY <1>o DEF o
  <1>2. \A s \in SegsTo(p)' : SegInv(s, written'[o], kcp'[o])
    BY <1>o DEF LinkInv, o
  <1>3. /\ SndInv(kcp'[o], written'[o]) /\ Framed(written'[o]) /\ ReadWhole(read'[o])
    BY <1>o DEF LinkInv, ReadWhole
  <1>4. RcvInv(kcp'[o], written'[p], read'[o])
    <2>1. RcvInv(kcp[o], written[p], read[o])
      BY <1>o DEF LinkInv
    <2>2. RcvInv(kcp[o], written'[p], read[o])
      BY <2>1, <1>t, ExtendsInv
    <2> QED BY <2>2, <1>o
  <1>5. AckInv(kcp'[o], kcp'[p])
    <2>1. AckInv(kcp[o], kcp[p])
      BY <1>o DEF LinkInv
    <2>2. AckInv(kcp[o], kcp'[p])
      BY <2>1, <1>t, AckInvMono
    <2> QED BY <2>2, <1>o
  <1>6. \A s \in SegsTo(o)' : SegInv(s, written'[p], kcp'[p])
    <2> SUFFICES ASSUME NEW s \in SegsTo(o) PROVE SegInv(s, written'[p], kcp'[p])
      BY DEF o
    <2>1. SegInv(s, written[p], kcp[p])
      BY <1>o DEF LinkInv
    <2> QED BY <2>1, <1>t, SegInvMono
  <1>7. \A q \in Peers :
          /\ SndInv(kcp'[q], written'[q])
          /\ RcvInv(kcp'[q], written'[Other(q)], read'[q])
          /\ AckInv(kcp'[q], kcp'[Other(q)])
          /\ \A s \in SegsTo(q)' : SegInv(s, written'[Other(q)], kcp'[Other(q)])
          /\ Framed(written'[q]) /\ ReadWhole(read'[q])
    BY <1>1, <1>2, <1>3, <1>4, <1>5, <1>6, <1>o DEF o
  <1> QED BY <1>7 DEF LinkInv, ReadWhole

(***************************************************************************)
(* The receiving half of the state is untouched.                           *)
(***************************************************************************)
SameRcv(k, k2) == /\ k2.rcv_nxt = k.rcv_nxt
                  /\ k2.rcv_queue = k.rcv_queue
                  /\ k2.rcv_buf = k.rcv_buf

LEMMA SameRcvInv ==
    ASSUME NEW k \in KCP, NEW k2 \in KCP, NEW w, NEW r, SameRcv(k, k2),
           k2.acklist = k.acklist \/ k2.acklist = <<>>, RcvInv(k, w, r)
    PROVE  RcvInv(k2, w, r) /\ Advances(k, k2)
  <1>1. \A sn : Received(k2, sn) <=> Received(k, sn)
    BY DEF SameRcv, Received, Has
  <1>2. Advances(k, k2)
    BY <1>1, KcpFields DEF Advances, SameRcv
  <1>3. \A i \in 1..Len(k2.acklist) : Received(k2, k2.acklist[i])
    BY <1>1 DEF RcvInv
  <1> QED BY <1>2, <1>3 DEF RcvInv, SameRcv

LEMMA FlushInv ==
    ASSUME NEW k \in KCP, NEW t \in Timings(k), NEW full \in BOOLEAN,
           NEW w \in Seq(Frag), NEW q \in KCP,
           SndInv(k, w), AckInv(k, q),
           \A i \in 1..Len(k.acklist) : Received(k, k.acklist[i])
    PROVE  LET k2 == Flushed(k, full, t)
           IN  /\ SameRcv(k, k2) /\ k2.acklist = <<>> /\ k2.snd_una = k.snd_una
               /\ SndInv(k2, w) /\ AckInv(k2, q)
               /\ \A s \in Burst(k, full, t) : SegInv(s, w, k2)
  <1> DEFINE k2 == Flushed(k, full, t)
             n == NewSegsCount(k, t)
             b == SndBufFilled(k, t)
             new == [i \in 1..n |->
                       [sn |-> k.snd_nxt + i - 1, frag |-> k.snd_queue[i],
                        sent |-> FALSE, acked |-> FALSE]]
             L == Len(k.snd_buf)
  <1>k. /\ k.snd_una \in Nat /\ k.snd_nxt \in Nat /\ k.rcv_nxt \in Nat
        /\ k.snd_queue \in Seq(Frag) /\ Len(k.snd_queue) \in Nat
        /\ k.snd_buf \in Seq(SndSeg) /\ L \in Nat
        /\ k.acklist \in Seq(Nat)
    BY KcpFields
  <1>n. n \in 0..Len(k.snd_queue) /\ n \in Nat /\ b \in Seq(SndSeg) /\ k2 \in KCP
    BY FlushTypes, <1>k
  <1>f. /\ SameRcv(k, k2) /\ k2.acklist = <<>> /\ k2.snd_una = k.snd_una
        /\ k2.snd_nxt = k.snd_nxt + n
        /\ k2.snd_queue = SubSeq(k.snd_queue, n + 1, Len(k.snd_queue))
        /\ k2.snd_buf = IF full
                        THEN [i \in DOMAIN b |->
                                [b[i] EXCEPT !.sent = @ \/ NeedSend(b[i], t)]]
                        ELSE b
    BY DEF Flushed, SameRcv, KCP
  <1>c. b = k.snd_buf \o new
    BY DEF SndBufFilled
  <1>e. \A i \in 1..n : new[i] = [sn |-> k.snd_nxt + i - 1, frag |-> k.snd_queue[i],
                                  sent |-> FALSE, acked |-> FALSE]
    OBVIOUS
  <1>g. new = [i \in 1..n |-> new[i]]
    OBVIOUS
  <1>d. FlushData(k, t) = {WireSeg(k, "PUSH", b[i].sn, b[i].frag) :
                              i \in {j \in DOMAIN b : NeedSend(b[j], t)}}
    BY DEF FlushData
  <1>s. /\ Len(w) \in Nat
        /\ Len(w) = k.snd_nxt + Len(k.snd_queue) /\ k.snd_nxt = k.snd_una + L
    BY DEF SndInv
  <1> HIDE DEF n, b, k2, new, L
  <1>1. /\ Len(b) = L + n /\ Len(b) \in Nat /\ DOMAIN b = 1..Len(b)
        /\ \A i \in 1..L : b[i] = k.snd_buf[i]
        /\ \A i \in 1..n : b[L + i] = new[i]
    <2>1. new \in Seq(SndSeg) /\ Len(new) = n
      <3>1. \A i \in 1..n : k.snd_queue[i] \in Frag /\ k.snd_nxt + i - 1 \in Nat
        BY <1>k, <1>n
      <3>2. \A i \in 1..n : new[i] \in SndSeg
        <4> TAKE i \in 1..n
        <4>1. /\ new[i] = [sn |-> k.snd_nxt + i - 1, frag |-> k.snd_queue[i],
                           sent |-> FALSE, acked |-> FALSE]
              /\ k.snd_queue[i] \in Frag /\ k.snd_nxt + i - 1 \in Nat
          BY <3>1, <1>e
        <4> QED BY <4>1 DEF SndSeg
      <3> QED BY <3>2, <1>n, <1>g, SeqOfFunction
    <2> QED BY <2>1, <1>k, <1>c, <1>n, ConcatElements DEF L
  <1>2. \A i \in 1..Len(b) :
          /\ b[i].sn = k.snd_una + i - 1
          /\ ~b[i].acked => b[i].frag = w[k.snd_una + i]
          /\ b[i].acked => i \in 1..L /\ k.snd_buf[i].acked
    <2> TAKE i \in 1..Len(b)
    <2>1. CASE i <= L
      <3>1. i \in 1..L
        BY <2>1, <1>1, <1>k
      <3>2. b[i] = k.snd_buf[i]
        BY <3>1, <1>1
      <3> QED BY <3>1, <3>2 DEF SndInv, L
    <2>2. CASE ~(i <= L)
      <3> DEFINE m == i - L
      <3>1. m \in 1..n /\ m \in 1..Len(k.snd_queue) /\ L + m = i
        BY <2>2, <1>1, <1>k, <1>n, SMTT(30)
      <3> HIDE DEF m
      <3>2. b[i] = [sn |-> k.snd_nxt + m - 1, frag |-> k.snd_queue[m],
                    sent |-> FALSE, acked |-> FALSE]
        BY <3>1, <1>1, <1>e
      <3>3. k.snd_nxt + m = k.snd_una + i /\ k.snd_nxt + m - 1 = k.snd_una + i - 1
        <4>1. i \in Int /\ m \in Int /\ L + m = i
          BY <3>1, <1>1
        <4>2. k.snd_nxt = k.snd_una + L /\ k.snd_una \in Nat /\ L \in Nat
          BY <1>k, <1>s
        <4> QED BY <4>1, <4>2
      <3>4. k.snd_queue[m] = w[k.snd_una + i]
        BY <3>1, <3>3 DEF SndInv
      <3> QED BY <3>2, <3>3, <3>4
    <2> QED BY <2>1, <2>2
  <1>3. /\ Len(k2.snd_buf) = Len(b)
        /\ \A i \in 1..Len(b) : /\ k2.snd_buf[i].sn = b[i].sn
                                /\ k2.snd_buf[i].frag = b[i].frag
                                /\ k2.snd_buf[i].acked = b[i].acked
    <2>1. \A i \in 1..Len(b) : b[i] \in SndSeg
      BY <1>n, SndBufElements
    <2>2. CASE ~full
      <3>1. k2.snd_buf = b
        BY <2>2, <1>f
      <3> QED BY <3>1
    <2>3. CASE full
      <3>1. k2.snd_buf = [i \in 1..Len(b) |->
                             [b[i] EXCEPT !.sent = @ \/ NeedSend(b[i], t)]]
        BY <2>3, <1>1, <1>f
      <3>2. \A i \in 1..Len(b) :
               k2.snd_buf[i] = [b[i] EXCEPT !.sent = @ \/ NeedSend(b[i], t)]
        BY <3>1
      <3>3. Len(k2.snd_buf) = Len(b)
        <4>1. k2.snd_buf \in Seq(SndSeg)
          BY <1>n, KcpFields
        <4>2. DOMAIN k2.snd_buf = 1..Len(b)
          BY <3>1
        <4> QED BY <4>1, <4>2, <1>1, SndBufElements
      <3>4. ASSUME NEW i \in 1..Len(b)
            PROVE  /\ k2.snd_buf[i].sn = b[i].sn /\ k2.snd_buf[i].frag = b[i].frag
                   /\ k2.snd_buf[i].acked = b[i].acked
        <4>1. b[i] \in SndSeg /\ k2.snd_buf[i] = [b[i] EXCEPT !.sent = @ \/ NeedSend(b[i], t)]
          BY <2>1, <3>2
        <4> QED BY <4>1 DEF SndSeg
      <3> QED BY <3>3, <3>4
    <2> QED BY <2>2, <2>3
  <1>4. SndInv(k2, w)
    <2>1. /\ Len(k2.snd_queue) = Len(k.snd_queue) - n
          /\ \A i \in 1..(Len(k.snd_queue) - n) : k2.snd_queue[i] = k.snd_queue[n + i]
      <3>1. k2.snd_queue = SubSeq(k.snd_queue, n + 1, Len(k.snd_queue))
        BY <1>f
      <3> DEFINE rest == SubSeq(k.snd_queue, n + 1, Len(k.snd_queue))
      <3>2. k.snd_queue \in Seq(Frag) /\ n \in 0..Len(k.snd_queue)
        BY <1>k, <1>n
      <3>3. /\ Len(rest) = Len(k.snd_queue) - n
            /\ \A i \in 1..(Len(k.snd_queue) - n) : rest[i] = k.snd_queue[n + i]
        BY <3>2, SubSeqElements
      <3> HIDE DEF rest
      <3>4. k2.snd_queue = rest
        BY <3>1 DEF rest
      <3> QED BY <3>3, <3>4
    <2>2. Len(w) = k2.snd_nxt + Len(k2.snd_queue)
      BY <2>1, <1>f, <1>k, <1>n, <1>s, SMTT(30)
    <2>3. \A i \in 1..Len(k2.snd_queue) : k2.snd_queue[i] = w[k2.snd_nxt + i]
      <3> TAKE i \in 1..Len(k2.snd_queue)
      <3>1. /\ i \in 1..(Len(k.snd_queue) - n) /\ n + i \in 1..Len(k.snd_queue)
            /\ k.snd_nxt + (n + i) = k2.snd_nxt + i
        <4>1. k2.snd_nxt = k.snd_nxt + n
          BY <1>f
        <4>2. i \in 1..(Len(k.snd_queue) - n) /\ i \in Nat
          BY <2>1, <1>n, <1>k
        <4> QED BY <4>1, <4>2, <1>k, <1>n, SMTT(30)
      <3> QED BY <2>1, <3>1 DEF SndInv
    <2>4. k2.snd_nxt = k2.snd_una + Len(k2.snd_buf)
      BY <1>1, <1>3, <1>f, <1>k, <1>n, <1>s
    <2>5. \A i \in 1..Len(k2.snd_buf) :
            /\ k2.snd_buf[i].sn = k2.snd_una + i - 1
            /\ ~k2.snd_buf[i].acked => k2.snd_buf[i].frag = w[k2.snd_una + i]
      BY <1>2, <1>3, <1>f
    <2> QED BY <2>2, <2>3, <2>4, <2>5 DEF SndInv
  <1>5. AckInv(k2, q)
    <2>1. \A i \in 1..Len(k2.snd_buf) : k2.snd_buf[i].acked => Received(q, k2.snd_buf[i].sn)
      <3> SUFFICES ASSUME NEW i \in 1..Len(b), b[i].acked PROVE Received(q, b[i].sn)
        BY <1>3
      <3>1. i \in 1..L /\ k.snd_buf[i].acked
        BY <1>2
      <3>2. b[i].sn = k.snd_buf[i].sn
        BY <3>1, <1>1
      <3> QED BY <3>1, <3>2 DEF AckInv, L
    <2> QED BY <2>1, <1>f DEF AckInv
  <1>6. ASSUME NEW s \in Burst(k, full, t) PROVE SegInv(s, w, k2)
    <2>0. \A sn : Received(k, sn) => Received(k2, sn)
      BY <1>f DEF SameRcv, Received, Has
    <2>r. k2.rcv_nxt = k.rcv_nxt /\ k.rcv_nxt <= k.rcv_nxt
      BY <1>f, <1>k DEF SameRcv
    <2>1. CASE s \in FlushAcks(k)
      <3>0. DOMAIN k.acklist = 1..Len(k.acklist)
        BY <1>k
      <3>1. PICK i \in 1..Len(k.acklist) : s = WireSeg(k, "ACK", k.acklist[i], Recycled)
        BY <2>1, <3>0 DEF FlushAcks
      <3>2. s.una = k.rcv_nxt /\ s.cmd = "ACK" /\ s.sn = k.acklist[i]
        BY <3>1 DEF WireSeg
      <3> QED BY <3>2, <2>0, <2>r DEF SegInv
    <2>2. CASE s \in FlushProbes(k, t)
      <3>1. s.una = k.rcv_nxt /\ s.cmd \in {"WASK", "WINS"}
        BY <2>2 DEF FlushProbes, WireSeg
      <3> QED BY <3>1, <2>r DEF SegInv
    <2>3. CASE s \in FlushData(k, t)
      <3>1. PICK i \in DOMAIN b : /\ NeedSend(b[i], t)
                                  /\ s = WireSeg(k, "PUSH", b[i].sn, b[i].frag)
        BY <2>3, <1>d
      <3>2. s.una = k.rcv_nxt /\ s.cmd = "PUSH" /\ s.sn = b[i].sn /\ s.frag = b[i].frag
        BY <3>1 DEF WireSeg
      <3>3. i \in 1..Len(b) /\ ~b[i].acked
        BY <3>1, <1>1 DEF NeedSend
      <3>4. s.sn = k.snd_una + i - 1 /\ s.frag = w[k.snd_una + i]
        BY <3>2, <3>3, <1>2
      <3>5. s.sn + 1 = k.snd_una + i /\ s.sn < Len(w)
        <4>1. s.sn = k.snd_una + i - 1 /\ i \in Nat /\ 1 <= i /\ i <= L + n
          BY <3>3, <3>4, <1>1
        <4>2. n <= Len(k.snd_queue) /\ n \in Nat
          BY <1>n, <1>k
        <4> QED BY <4>1, <4>2, <1>k, <1>s, SMTT(30)
      <3> QED BY <3>2, <3>4, <3>5, <2>r DEF SegInv
    <2> QED BY <2>1, <2>2, <2>3 DEF Burst
  <1> QED BY <1>f, <1>4, <1>5, <1>6 DEF k2
(***************************************************************************)
(* What every segment does first: parse_una and shrink_buf give up only    *)
(* what the peer's una says it has received in order.                      *)
(***************************************************************************)
LEMMA HeaderInv ==
    ASSUME NEW k \in KCP, NEW q \in KCP, NEW s \in Wire, NEW reg \in BOOLEAN,
           NEW c \in 0..Len(k.snd_buf), NEW w \in Seq(Frag),
           SndInv(k, w), AckInv(k, q), UnaDrops(k, s.una, c), s.una <= q.rcv_nxt
    PROVE  LET k1 == InputHeader(k, s, reg, c)
           IN  /\ SameRcv(k, k1) /\ k1.acklist = k.acklist
               /\ k1.rcv_wnd = k.rcv_wnd /\ k1.snd_nxt = k.snd_nxt
               /\ k1.snd_una = k.snd_una + c
               /\ Len(k1.snd_buf) = Len(k.snd_buf) - c
               /\ \A i \in 1..(Len(k.snd_buf) - c) : k1.snd_buf[i] = k.snd_buf[c + i]
               /\ SndInv(k1, w) /\ AckInv(k1, q)
  <1> DEFINE k1 == InputHeader(k, s, reg, c)
             L == Len(k.snd_buf)
             sb == SubSeq(k.snd_buf, c + 1, L)
  <1>k. /\ k.snd_una \in Nat /\ k.snd_nxt \in Nat /\ q.rcv_nxt \in Nat
        /\ k.snd_buf \in Seq(SndSeg) /\ L \in Nat /\ c \in Nat /\ c <= L
        /\ s.una \in Nat
    <2>1. s.una \in Nat
      BY DEF Wire
    <2>2. q.rcv_nxt \in Nat
      BY KcpFields
    <2>3. /\ k.snd_una \in Nat /\ k.snd_nxt \in Nat
          /\ k.snd_buf \in Seq(SndSeg) /\ L \in Nat
      BY KcpFields
    <2> QED BY <2>1, <2>2, <2>3
  <1>f. /\ SameRcv(k, k1) /\ k1.acklist = k.acklist /\ k1.rcv_wnd = k.rcv_wnd
        /\ k1.snd_nxt = k.snd_nxt /\ k1.snd_queue = k.snd_queue
        /\ k1.snd_buf = sb
        /\ k1.snd_una = IF sb # <<>> THEN sb[1].sn ELSE k.snd_nxt
    BY DEF InputHeader, shrink_buf, parse_una, SameRcv, KCP
  <1>s. k.snd_nxt = k.snd_una + L
    BY DEF SndInv
  <1>b. \A i \in 1..L : k.snd_buf[i].sn = k.snd_una + i - 1
    BY DEF SndInv
  <1> HIDE DEF k1, sb
  <1>1. /\ Len(sb) = L - c /\ \A i \in 1..(L - c) : sb[i] = k.snd_buf[c + i]
        /\ sb \in Seq(SndSeg)
    BY <1>k, SubSeqElements DEF sb
  <1> HIDE DEF L
  <1>2. k1.snd_una = k.snd_una + c
    <2>1. CASE c = L
      <3>1. sb = <<>>
        BY <2>1, <1>1, <1>k
      <3> QED BY <3>1, <2>1, <1>f, <1>s
    <2>2. CASE c # L
      <3>1. 1 \in 1..(L - c) /\ c + 1 \in 1..L /\ Len(sb) # 0
        BY <2>2, <1>k, <1>1
      <3>2. sb # <<>> /\ sb[1] = k.snd_buf[c + 1]
        BY <3>1, <1>1
      <3>3. k.snd_buf[c + 1].sn = k.snd_una + (c + 1) - 1
        BY <3>1, <1>b
      <3> QED BY <3>2, <3>3, <1>f, <1>k
    <2> QED BY <2>1, <2>2
  <1>3. k1.snd_una <= q.rcv_nxt
    <2>1. CASE c = 0
      BY <2>1, <1>2, <1>k DEF AckInv
    <2>2. CASE c # 0
      <3>1. c \in 1..L /\ c \in 1..c
        BY <2>2, <1>k
      <3>2. k.snd_buf[c].sn < s.una /\ k.snd_buf[c].sn = k.snd_una + c - 1
        BY <3>1, <1>b DEF UnaDrops
      <3> QED BY <3>2, <1>2, <1>k
    <2> QED BY <2>1, <2>2
  <1>4. ASSUME NEW i \in 1..(L - c)
        PROVE  /\ k1.snd_buf[i] = k.snd_buf[c + i] /\ c + i \in 1..L
               /\ k1.snd_una + i = k.snd_una + (c + i)
               /\ k1.snd_una + i - 1 = k.snd_una + (c + i) - 1
    <2>1. k1.snd_buf[i] = k.snd_buf[c + i]
      BY <1>1, <1>f
    <2>2. c + i \in 1..L /\ i \in Nat
      BY <1>k
    <2> QED BY <2>1, <2>2, <1>2, <1>k
  <1>5. SndInv(k1, w)
    <2>1. k1.snd_nxt = k1.snd_una + Len(k1.snd_buf)
      BY <1>1, <1>2, <1>f, <1>k, <1>s
    <2>2. \A i \in 1..Len(k1.snd_buf) :
            /\ k1.snd_buf[i].sn = k1.snd_una + i - 1
            /\ ~k1.snd_buf[i].acked => k1.snd_buf[i].frag = w[k1.snd_una + i]
      <3> SUFFICES ASSUME NEW i \in 1..(L - c)
                   PROVE  /\ k1.snd_buf[i].sn = k1.snd_una + i - 1
                          /\ ~k1.snd_buf[i].acked => k1.snd_buf[i].frag = w[k1.snd_una + i]
        BY <1>1, <1>f
      <3>1. /\ k.snd_buf[c + i].sn = k.snd_una + (c + i) - 1
            /\ ~k.snd_buf[c + i].acked => k.snd_buf[c + i].frag = w[k.snd_una + (c + i)]
        BY <1>4 DEF SndInv, L
      <3> QED BY <3>1, <1>4
    <2> QED BY <2>1, <2>2, <1>f DEF SndInv
  <1>6. AckInv(k1, q)
    <2>1. \A i \in 1..Len(k1.snd_buf) : k1.snd_buf[i].acked => Received(q, k1.snd_buf[i].sn)
      <3> SUFFICES ASSUME NEW i \in 1..(L - c), k1.snd_buf[i].acked
                   PROVE  Received(q, k1.snd_buf[i].sn)
        BY <1>1, <1>f
      <3> QED BY <1>4 DEF AckInv, L
    <2> QED BY <2>1, <1>3 DEF AckInv
  <1> QED BY <1>1, <1>2, <1>4, <1>5, <1>6, <1>f DEF k1, L

(***************************************************************************)
(* parse_ack gives up the data of a segment the peer has acknowledged.     *)
(***************************************************************************)
LEMMA ParseAckInv ==
    ASSUME NEW k \in KCP, NEW q \in KCP, NEW sn \in Nat, NEW w \in Seq(Frag),
           SndInv(k, w), AckInv(k, q), Received(q, sn)
    PROVE  LET k2 == parse_ack(k, sn)
           IN  /\ SameRcv(k, k2) /\ k2.acklist = k.acklist
               /\ SndInv(k2, w) /\ AckInv(k2, q)
               /\ k2.snd_una = k.snd_una /\ Len(k2.snd_buf) = Len(k.snd_buf)
               /\ \A i \in 1..Len(k.snd_buf) :
                    /\ k2.snd_buf[i].sn = k.snd_buf[i].sn
                    /\ k.snd_buf[i].acked => k2.snd_buf[i].acked
  <1> DEFINE k2 == parse_ack(k, sn)
             L == Len(k.snd_buf)
             sb == [i \in DOMAIN k.snd_buf |->
                      IF k.snd_buf[i].sn = sn
                      THEN [k.snd_buf[i] EXCEPT !.acked = TRUE, !.frag = Recycled]
                      ELSE k.snd_buf[i]]
  <1>b. /\ k.snd_buf \in Seq(SndSeg) /\ L \in Nat /\ DOMAIN k.snd_buf = 1..L
        /\ \A i \in 1..L : k.snd_buf[i] \in SndSeg
    BY KcpFields, SndBufElements
  <1>1. CASE k2 = k
    BY <1>1 DEF SameRcv
  <1>2. CASE k2 = [k EXCEPT !.snd_buf = sb]
    <2>1. \A i \in 1..L : /\ sb[i].sn = k.snd_buf[i].sn
                          /\ \/ sb[i] = k.snd_buf[i]
                             \/ sb[i].acked /\ k.snd_buf[i].sn = sn
      <3> TAKE i \in 1..L
      <3>1. k.snd_buf[i] \in SndSeg
        BY <1>b
      <3>2. sb[i] = IF k.snd_buf[i].sn = sn
                    THEN [k.snd_buf[i] EXCEPT !.acked = TRUE, !.frag = Recycled]
                    ELSE k.snd_buf[i]
        BY <1>b
      <3> HIDE DEF sb
      <3> QED BY <3>1, <3>2 DEF SndSeg
    <2>2. sb \in Seq(SndSeg) /\ Len(sb) = L
      <3>1. sb = [i \in 1..L |-> sb[i]]
        BY <1>b
      <3>2. \A i \in 1..L : sb[i] \in SndSeg
        <4>1. Recycled \in Frag
          BY DEF Recycled, Frag
        <4>2. \A g \in SndSeg : [g EXCEPT !.acked = TRUE, !.frag = Recycled] \in SndSeg
          BY <4>1 DEF SndSeg
        <4> QED BY <4>2, <1>b
      <3> HIDE DEF sb
      <3> QED BY <3>1, <3>2, <1>b, SeqOfFunction
    <2> HIDE DEF sb
    <2>3. /\ SameRcv(k, k2) /\ k2.acklist = k.acklist /\ k2.snd_una = k.snd_una
          /\ k2.snd_nxt = k.snd_nxt /\ k2.snd_queue = k.snd_queue /\ k2.snd_buf = sb
      BY <1>2 DEF SameRcv, KCP
    <2> HIDE DEF k2, L
    <2>4. SndInv(k2, w)
      BY <2>1, <2>2, <2>3 DEF SndInv, L
    <2>5. AckInv(k2, q)
      BY <2>1, <2>2, <2>3 DEF AckInv, L
    <2> QED BY <2>1, <2>2, <2>3, <2>4, <2>5 DEF k2, L
  <1>3. k2 = k \/ k2 = [k EXCEPT !.snd_buf = sb]
    BY DEF parse_ack
  <1> QED BY <1>1, <1>2, <1>3
(***************************************************************************)
(* The sending half of the state is untouched.                             *)
(***************************************************************************)
SameSnd(k, k2) == /\ k2.snd_una = k.snd_una /\ k2.snd_nxt = k.snd_nxt
                  /\ k2.snd_queue = k.snd_queue /\ k2.snd_buf = k.snd_buf

LEMMA SameSndInv ==
    ASSUME NEW k, NEW k2, NEW w, NEW q, SameSnd(k, k2), SndInv(k, w), AckInv(k, q)
    PROVE  SndInv(k2, w) /\ AckInv(k2, q)
  BY DEF SameSnd, SndInv, AckInv

(***************************************************************************)
(* Send appends the fragments of a whole message to the stream.            *)
(***************************************************************************)
LEMMA SendInv ==
    ASSUME NEW k \in KCP, NEW w \in Seq(Frag), NEW c \in FragCounts,
           NEW fs, fs = Fragments(Len(w) + 1, c), SndInv(k, w), Framed(w)
    PROVE  /\ SndInv([k EXCEPT !.snd_queue = @ \o fs], w \o fs)
           /\ Framed(w \o fs) /\ Extends(w, w \o fs)
  <1> DEFINE k2 == [k EXCEPT !.snd_queue = @ \o fs]
             w2 == w \o fs
             N == Len(w)
             Q == Len(k.snd_queue)
  <1>k. /\ k.snd_una \in Nat /\ k.snd_nxt \in Nat
        /\ k.snd_queue \in Seq(Frag) /\ Q \in Nat /\ N \in Nat
        /\ k.snd_buf \in Seq(SndSeg) /\ Len(k.snd_buf) \in Nat
    BY KcpFields
  <1>c. /\ fs \in Seq(Frag) /\ Len(fs) = c /\ c \in 1..255 /\ c \in Nat
        /\ \A i \in 1..c : fs[i].frg = c - i
    <2>1. /\ fs \in Seq(Frag) /\ Len(fs) = c /\ c \in 1..255
          /\ \A i \in 1..c : fs[i] = [msg |-> N + 1, frg |-> c - i]
      <3>1. N + 1 \in Nat
        BY <1>k
      <3> HIDE DEF N
      <3> QED BY <3>1, FragmentsType DEF N
    <2>2. c \in Nat
      BY <2>1
    <2>3. ASSUME NEW i \in 1..c PROVE fs[i].frg = c - i
      <3>1. fs[i] = [msg |-> N + 1, frg |-> c - i]
        BY <2>1
      <3> QED BY <3>1
    <2> QED BY <2>1, <2>2, <2>3
  <1>n. N \in Nat /\ c \in Nat /\ 1 <= c /\ c <= 255
    BY <1>k, <1>c
  <1>w. /\ w2 \in Seq(Frag) /\ Len(w2) = N + c
        /\ \A i \in 1..N : w2[i] = w[i]
        /\ \A i \in 1..c : w2[N + i] = fs[i]
    BY <1>c, ConcatElements
  <1>q. /\ Len(k2.snd_queue) = Q + c
        /\ \A i \in 1..Q : k2.snd_queue[i] = k.snd_queue[i]
        /\ \A i \in 1..c : k2.snd_queue[Q + i] = fs[i]
    <2>1. k2.snd_queue = k.snd_queue \o fs
      BY DEF KCP
    <2>2. /\ Len(k.snd_queue \o fs) = Len(k.snd_queue) + Len(fs)
          /\ \A i \in 1..Len(k.snd_queue) : (k.snd_queue \o fs)[i] = k.snd_queue[i]
          /\ \A i \in 1..Len(fs) : (k.snd_queue \o fs)[Len(k.snd_queue) + i] = fs[i]
      <3>1. k.snd_queue \in Seq(Frag) /\ fs \in Seq(Frag)
        BY <1>c, <1>k
      <3>2. \A x \in Seq(Frag) :
               /\ Len(x \o fs) = Len(x) + Len(fs)
               /\ \A i \in 1..Len(x) : (x \o fs)[i] = x[i]
               /\ \A i \in 1..Len(fs) : (x \o fs)[Len(x) + i] = fs[i]
        BY <3>1, ConcatElements
      <3> QED BY <3>1, <3>2
    <2> HIDE DEF k2
    <2> QED BY <2>1, <2>2, <1>c
  <1>f. k2.snd_una = k.snd_una /\ k2.snd_nxt = k.snd_nxt /\ k2.snd_buf = k.snd_buf
    BY DEF KCP
  <1>s. N = k.snd_nxt + Q /\ k.snd_nxt = k.snd_una + Len(k.snd_buf)
    BY DEF SndInv
  <1> HIDE DEF k2, w2, N, Q
  <1>1. Extends(w, w2)
    BY <1>w, <1>k, <1>c DEF Extends, N
  <1>2. Framed(w2)
    <2> SUFFICES ASSUME NEW i \in 1..(N + c)
                 PROVE  /\ w2[i].frg < 255 /\ i + w2[i].frg <= N + c
                        /\ \A d \in 0..w2[i].frg : w2[i + d].frg = w2[i].frg - d
      BY <1>w DEF Framed
    <2>1. CASE i <= N
      <3>1. i \in 1..N /\ w2[i] = w[i]
        BY <2>1, <1>k, <1>c, <1>w
      <3>2. w[i].frg \in Nat
        <4>1. w[i] \in Frag
          BY <3>1 DEF N
        <4> QED BY <4>1, FragFields
      <3>3. /\ w[i].frg < 255 /\ i + w[i].frg <= N
            /\ \A d \in 0..w[i].frg : w[i + d].frg = w[i].frg - d
        BY <3>1 DEF Framed, N
      <3>4. ASSUME NEW d \in 0..w[i].frg PROVE w2[i + d] = w[i + d]
        <4>1. i + d \in 1..N
          BY <3>1, <3>2, <3>3, <1>k, SMTT(30)
        <4> QED BY <4>1, <1>w
      <3>5. i + w2[i].frg <= N + c
        BY <3>1, <3>2, <3>3, <1>k, <1>c, SMTT(30)
      <3> QED BY <3>1, <3>3, <3>4, <3>5
    <2>2. CASE ~(i <= N)
      <3> DEFINE m == i - N
      <3>1. m \in 1..c /\ N + m = i
        BY <2>2, <1>k, <1>c
      <3> HIDE DEF m
      <3>2. w2[i].frg = c - m
        BY <3>1, <1>w, <1>c
      <3>3. c - m \in 0..254 /\ i + (c - m) = N + c
        BY <3>1, <1>c, <1>k
      <3>4. ASSUME NEW d \in 0..(c - m) PROVE w2[i + d].frg = (c - m) - d
        <4>1. m + d \in 1..c /\ N + (m + d) = i + d /\ c - (m + d) = (c - m) - d
          BY <3>1, <1>n
        <4>2. w2[N + (m + d)] = fs[m + d]
          BY <4>1, <1>w
        <4>3. fs[m + d].frg = c - (m + d)
          BY <4>1, <1>c
        <4> QED BY <4>1, <4>2, <4>3
      <3>5. (c - m) < 255 /\ i + (c - m) <= N + c
        BY <3>1, <1>n
      <3> QED BY <3>2, <3>4, <3>5
    <2> QED BY <2>1, <2>2
  <1>3. SndInv(k2, w2)
    <2>1. Len(w2) = k2.snd_nxt + Len(k2.snd_queue)
      BY <1>w, <1>q, <1>f, <1>s, <1>k, <1>c
    <2>2. ASSUME NEW i \in 1..(Q + c) PROVE k2.snd_queue[i] = w2[k.snd_nxt + i]
      <3>1. CASE i <= Q
        <4>1. i \in 1..Q /\ k.snd_nxt + i \in 1..N
          BY <3>1, <1>k, <1>c, <1>s
        <4>2. k.snd_queue[i] = w[k.snd_nxt + i]
          BY <4>1 DEF SndInv, Q
        <4> QED BY <4>1, <4>2, <1>q, <1>w
      <3>2. CASE ~(i <= Q)
        <4> DEFINE m == i - Q
        <4>1. m \in 1..c /\ Q + m = i /\ k.snd_nxt + i = N + m
          BY <3>2, <1>k, <1>c, <1>s
        <4> HIDE DEF m
        <4> QED BY <4>1, <1>q, <1>w
      <3> QED BY <3>1, <3>2
    <2>3. ASSUME NEW i \in 1..Len(k.snd_buf)
          PROVE  /\ k.snd_buf[i].sn = k.snd_una + i - 1
                 /\ ~k.snd_buf[i].acked => k.snd_buf[i].frag = w2[k.snd_una + i]
      <3>1. k.snd_una + i \in 1..N
        BY <1>k, <1>s, SMTT(30)
      <3> QED BY <3>1, <1>w DEF SndInv
    <2> QED BY <2>1, <2>2, <2>3, <1>q, <1>f, <1>s DEF SndInv
  <1> QED BY <1>1, <1>2, <1>3 DEF k2, w2
(***************************************************************************)
(* A data segment below rcv_nxt is acknowledged again, one in the window   *)
(* is acknowledged and kept.                                               *)
(***************************************************************************)
LEMMA AckAgainInv ==
    ASSUME NEW k \in KCP, NEW sn \in Nat, NEW w \in Seq(Frag), NEW r \in Seq(Frag),
           RcvInv(k, w, r), sn < k.rcv_nxt
    PROVE  LET k2 == ack_push(k, sn)
           IN  SameSnd(k, k2) /\ RcvInv(k2, w, r) /\ Advances(k, k2)
  <1> DEFINE k2 == ack_push(k, sn)
  <1>k. k.acklist \in Seq(Nat) /\ Len(k.acklist) \in Nat /\ k.rcv_nxt \in Nat
    BY KcpFields
  <1>f. /\ SameSnd(k, k2) /\ SameRcv(k, k2) /\ k2.acklist = Append(k.acklist, sn)
    BY DEF ack_push, SameSnd, SameRcv, KCP
  <1> HIDE DEF k2
  <1>1. \A x : Received(k2, x) <=> Received(k, x)
    BY <1>f DEF SameRcv, Received, Has
  <1>2. \A i \in 1..Len(k2.acklist) : Received(k2, k2.acklist[i])
    <2>1. /\ Len(k2.acklist) = Len(k.acklist) + 1
          /\ \A i \in 1..Len(k.acklist) : k2.acklist[i] = k.acklist[i]
          /\ k2.acklist[Len(k.acklist) + 1] = sn
      <3>1. \A x \in Seq(Nat) : /\ Len(Append(x, sn)) = Len(x) + 1
                                /\ \A i \in 1..Len(x) : Append(x, sn)[i] = x[i]
                                /\ Append(x, sn)[Len(x) + 1] = sn
        OBVIOUS
      <3> QED BY <3>1, <1>f, <1>k
    <2>2. \A i \in 1..Len(k.acklist) : Received(k, k.acklist[i])
      BY DEF RcvInv
    <2>3. Received(k, sn)
      BY DEF Received
    <2>4. \A i \in 1..(Len(k.acklist) + 1) : i \in 1..Len(k.acklist) \/ i = Len(k.acklist) + 1
      BY <1>k, LastOrBefore
    <2> QED BY <2>1, <2>2, <2>3, <2>4, <1>1
  <1>3. RcvInv(k2, w, r)
    BY <1>2, <1>f DEF RcvInv, SameRcv
  <1>4. Advances(k, k2)
    BY <1>1, <1>f, <1>k DEF Advances, SameRcv
  <1> QED BY <1>3, <1>4, <1>f DEF k2

LEMMA InsertInv ==
    ASSUME NEW k \in KCP, NEW s \in Wire, NEW w \in Seq(Frag), NEW r \in Seq(Frag),
           RcvInv(k, w, r), k.rcv_nxt <= s.sn, s.sn < Len(w), s.frag = w[s.sn + 1]
    PROVE  LET k3 == RcvBufInsert(ack_push(k, s.sn), s)
           IN  k3 \in KCP /\ SameSnd(k, k3) /\ RcvInv(k3, w, r) /\ Advances(k, k3)
  <1> DEFINE k2 == ack_push(k, s.sn)
             k3 == RcvBufInsert(k2, s)
             e0 == [sn |-> s.sn, frag |-> s.frag]
  <1>s. s.sn \in Nat
    BY DEF Wire
  <1>k. k.acklist \in Seq(Nat) /\ Len(k.acklist) \in Nat /\ k.rcv_nxt \in Nat
    BY KcpFields
  <1>0. \A x \in KCP : 0 \in 0..Len(x.snd_buf)
    BY KcpFields
  <1>2. k2 \in KCP
    BY <1>0, InputTypes
  <1>3. k3 \in KCP
    <2> HIDE DEF k2
    <2> QED BY <1>0, <1>2, InputTypes
  <1>f. /\ SameSnd(k, k2) /\ SameRcv(k, k2) /\ k2.acklist = Append(k.acklist, s.sn)
    BY DEF ack_push, SameSnd, SameRcv, KCP
  <1> HIDE DEF k2
  <1>g. /\ SameSnd(k2, k3) /\ k3.rcv_nxt = k2.rcv_nxt /\ k3.rcv_queue = k2.rcv_queue
        /\ k3.acklist = k2.acklist
        /\ \/ Has(k2, s.sn) /\ k3.rcv_buf = k2.rcv_buf
           \/ k3.rcv_buf = k2.rcv_buf \cup {e0}
    BY <1>2 DEF RcvBufInsert, SameSnd, KCP
  <1> HIDE DEF k3
  <1>h. /\ SameSnd(k, k3) /\ k3.rcv_nxt = k.rcv_nxt /\ k3.rcv_queue = k.rcv_queue
        /\ k3.acklist = Append(k.acklist, s.sn)
        /\ k3.rcv_buf = k.rcv_buf \/ k3.rcv_buf = k.rcv_buf \cup {e0}
        /\ k.rcv_buf \subseteq k3.rcv_buf
        /\ Has(k3, s.sn)
    <2>1. e0.sn = s.sn
      OBVIOUS
    <2> HIDE DEF e0
    <2> QED BY <1>f, <1>g, <2>1 DEF SameSnd, SameRcv, Has
  <1>4. \A x : Received(k, x) => Received(k3, x)
    BY <1>h DEF Received, Has
  <1>5. \A i \in 1..Len(k3.acklist) : Received(k3, k3.acklist[i])
    <2>1. /\ Len(k3.acklist) = Len(k.acklist) + 1
          /\ \A i \in 1..Len(k.acklist) : k3.acklist[i] = k.acklist[i]
          /\ k3.acklist[Len(k.acklist) + 1] = s.sn
      <3>1. \A x \in Seq(Nat) : /\ Len(Append(x, s.sn)) = Len(x) + 1
                                /\ \A i \in 1..Len(x) : Append(x, s.sn)[i] = x[i]
                                /\ Append(x, s.sn)[Len(x) + 1] = s.sn
        BY <1>s
      <3> QED BY <3>1, <1>h, <1>k
    <2>2. \A i \in 1..Len(k.acklist) : Received(k, k.acklist[i])
      BY DEF RcvInv
    <2>3. Received(k3, s.sn)
      BY <1>h DEF Received
    <2>4. \A i \in 1..(Len(k.acklist) + 1) : i \in 1..Len(k.acklist) \/ i = Len(k.acklist) + 1
      BY <1>k, LastOrBefore
    <2> QED BY <2>1, <2>2, <2>3, <2>4, <1>4
  <1>6. \A e \in k3.rcv_buf : /\ k3.rcv_nxt <= e.sn /\ e.sn < Len(w)
                              /\ e.frag = w[e.sn + 1]
    <2> TAKE e \in k3.rcv_buf
    <2>1. CASE e \in k.rcv_buf
      BY <2>1, <1>h DEF RcvInv
    <2>2. CASE e = e0
      BY <2>2, <1>h
    <2> QED BY <2>1, <2>2, <1>h
  <1>7. RcvInv(k3, w, r)
    BY <1>5, <1>6, <1>h DEF RcvInv
  <1>8. Advances(k, k3)
    BY <1>4, <1>h, <1>k DEF Advances
  <1> QED BY <1>3, <1>7, <1>8, <1>h DEF k2, k3

(***************************************************************************)
(* Moving available data from rcv_buf to rcv_queue keeps the receiver in   *)
(* step with the stream.                                                   *)
(***************************************************************************)
LEMMA MoveInv ==
    ASSUME NEW k \in KCP, NEW n \in Nat, NEW w \in Seq(Frag), NEW r \in Seq(Frag),
           MoveStops(k, n), RcvInv(k, w, r)
    PROVE  LET k2 == MoveReady(k, n)
           IN  /\ k2 \in KCP /\ SameSnd(k, k2) /\ RcvInv(k2, w, r) /\ Advances(k, k2)
               /\ k2.rcv_nxt = k.rcv_nxt + n
  <1> DEFINE k2 == MoveReady(k, n)
             new == [i \in 1..n |-> FragOf(k, k.rcv_nxt + i - 1)]
             Q == Len(k.rcv_queue)
  <1>k. /\ k.rcv_nxt \in Nat /\ k.rcv_queue \in Seq(Frag) /\ Q \in Nat
        /\ Len(w) \in Nat /\ Len(r) \in Nat
    BY KcpFields
  <1>e. \A e \in k.rcv_buf : e.sn \in Nat /\ e.frag \in Frag
    BY DEF KCP, RcvSeg
  <1>1. k2 \in KCP
    BY MoveTypes
  <1>f. /\ SameSnd(k, k2) /\ k2.acklist = k.acklist
        /\ k2.rcv_nxt = k.rcv_nxt + n
        /\ k2.rcv_queue = k.rcv_queue \o new
        /\ k2.rcv_buf = {e \in k.rcv_buf : e.sn < k.rcv_nxt \/ e.sn >= k.rcv_nxt + n}
    BY DEF MoveReady, SameSnd, KCP
  <1>i. RcvInv(k, w, r)
    OBVIOUS
  <1>2. ASSUME NEW i \in 1..n
        PROVE  /\ new[i] = w[k.rcv_nxt + i] /\ new[i] \in Frag
               /\ k.rcv_nxt + i <= Len(w)
    <2>1. PICK e \in k.rcv_buf : /\ e.sn = k.rcv_nxt + i - 1
                                 /\ FragOf(k, k.rcv_nxt + i - 1) = e.frag
      BY MoveTypes
    <2>2. e.sn < Len(w) /\ e.frag = w[e.sn + 1]
      BY DEF RcvInv
    <2>3. e.sn + 1 = k.rcv_nxt + i /\ k.rcv_nxt + i <= Len(w)
      BY <2>1, <2>2, <1>k, <1>e
    <2>4. new[i] = e.frag
      BY <2>1
    <2> QED BY <2>2, <2>3, <2>4, <1>e
  <1>g. new = [i \in 1..n |-> new[i]]
    OBVIOUS
  <1> HIDE DEF k2, new, Q
  <1>3. new \in Seq(Frag) /\ Len(new) = n
    BY <1>2, <1>g, SeqOfFunction
  <1>4. /\ Len(k2.rcv_queue) = Q + n
        /\ \A i \in 1..Q : k2.rcv_queue[i] = k.rcv_queue[i]
        /\ \A i \in 1..n : k2.rcv_queue[Q + i] = new[i]
    <2>1. \A x \in Seq(Frag) :
             /\ Len(x \o new) = Len(x) + Len(new)
             /\ \A i \in 1..Len(x) : (x \o new)[i] = x[i]
             /\ \A i \in 1..Len(new) : (x \o new)[Len(x) + i] = new[i]
      <3>1. new \in Seq(Frag)
        BY <1>3
      <3> QED BY <3>1, ConcatElements
    <2>2. k2.rcv_queue = k.rcv_queue \o new /\ k.rcv_queue \in Seq(Frag)
      BY <1>f, <1>k
    <2> QED BY <2>1, <2>2, <1>3 DEF Q
  <1>5. \A x \in Nat : Received(k, x) => Received(k2, x)
    <2> SUFFICES ASSUME NEW x \in Nat, Received(k, x) PROVE Received(k2, x)
      OBVIOUS
    <2>1. CASE x < k.rcv_nxt + n
      BY <2>1, <1>f DEF Received
    <2>2. CASE ~(x < k.rcv_nxt + n)
      <3>1. ~(x < k.rcv_nxt) /\ x >= k.rcv_nxt + n
        BY <2>2, <1>k
      <3>2. PICK e \in k.rcv_buf : e.sn = x
        BY <3>1 DEF Received, Has
      <3>3. e \in k2.rcv_buf
        BY <3>1, <3>2, <1>f
      <3> QED BY <3>2, <3>3 DEF Received, Has
    <2> QED BY <2>1, <2>2
  <1>6. RcvInv(k2, w, r)
    <2>n. k.rcv_nxt = Len(r) + Q /\ k.rcv_nxt <= Len(w)
      BY DEF RcvInv, Q
    <2>1. k2.rcv_nxt = Len(r) + Len(k2.rcv_queue)
      BY <1>4, <1>f, <1>k, <2>n
    <2>2. k2.rcv_nxt <= Len(w)
      <3>1. CASE n = 0
        BY <3>1, <1>f, <1>k, <2>n
      <3>2. CASE n # 0
        <4>1. n \in 1..n
          BY <3>2
        <4> QED BY <4>1, <1>2, <1>f
      <3> QED BY <3>1, <3>2
    <2>3. ASSUME NEW i \in 1..(Q + n) PROVE k2.rcv_queue[i] = w[Len(r) + i]
      <3>1. CASE i <= Q
        <4>1. i \in 1..Q
          BY <3>1, <1>k
        <4>2. k.rcv_queue[i] = w[Len(r) + i]
          BY <4>1 DEF RcvInv, Q
        <4> QED BY <4>1, <4>2, <1>4
      <3>2. CASE ~(i <= Q)
        <4> DEFINE m == i - Q
        <4>1. m \in 1..n /\ Q + m = i /\ k.rcv_nxt + m = Len(r) + i
          BY <3>2, <1>k, <2>n
        <4> HIDE DEF m
        <4>2. k2.rcv_queue[Q + m] = new[m] /\ new[m] = w[k.rcv_nxt + m]
          BY <4>1, <1>2, <1>4
        <4> QED BY <4>1, <4>2
      <3> QED BY <3>1, <3>2
    <2>4. ASSUME NEW e \in k2.rcv_buf
          PROVE  /\ k2.rcv_nxt <= e.sn /\ e.sn < Len(w) /\ e.frag = w[e.sn + 1]
      <3>1. e \in k.rcv_buf /\ (e.sn < k.rcv_nxt \/ e.sn >= k.rcv_nxt + n)
        BY <1>f
      <3>2. k.rcv_nxt <= e.sn /\ e.sn < Len(w) /\ e.frag = w[e.sn + 1]
        BY <3>1 DEF RcvInv
      <3>3. e.sn \in Nat /\ k2.rcv_nxt = k.rcv_nxt + n
        BY <3>1, <1>e, <1>f
      <3> QED BY <3>1, <3>2, <3>3, <1>k
    <2>5. \A i \in 1..Len(k2.acklist) : Received(k2, k2.acklist[i])
      <3>1. \A i \in 1..Len(k.acklist) : k.acklist[i] \in Nat /\ Received(k, k.acklist[i])
        BY KcpFields DEF RcvInv
      <3> QED BY <3>1, <1>5, <1>f
    <2>6. \A i \in 1..Len(r) : r[i] = w[i]
      BY DEF RcvInv
    <2> QED BY <2>1, <2>2, <2>3, <2>4, <2>5, <2>6, <1>4 DEF RcvInv
  <1>7. Advances(k, k2)
    BY <1>5, <1>f, <1>k DEF Advances
  <1> QED BY <1>1, <1>6, <1>7, <1>f DEF k2
(***************************************************************************)
(* PeekSize and the merge loop of Recv agree on where a message ends: the  *)
(* loop stops at the message's last fragment, never short of it.           *)
(***************************************************************************)
LEMMA MergeWhole ==
    ASSUME NEW k \in KCP, NEW w \in Seq(Frag), NEW r \in Seq(Frag), RcvInv(k, w, r),
           Framed(w), PeekSize(k), NEW j \in 1..Len(k.rcv_queue), MergeStops(k, j)
    PROVE  k.rcv_queue[j].frg = 0
  <1> DEFINE Q == Len(k.rcv_queue)
             R == Len(r)
             f == k.rcv_queue[1].frg
  <1>k. /\ k.rcv_nxt \in Nat /\ k.rcv_queue \in Seq(Frag) /\ Q \in Nat /\ R \in Nat
        /\ Len(w) \in Nat
    BY KcpFields
  <1>1. 1 \in 1..Q
    BY <1>k
  <1>2. R + 1 \in 1..Len(w) /\ k.rcv_queue[1] = w[R + 1]
    <2>1. k.rcv_queue[1] = w[R + 1] /\ k.rcv_nxt = R + Q /\ k.rcv_nxt <= Len(w)
      BY <1>1 DEF RcvInv
    <2> QED BY <2>1, <1>1, <1>k
  <1>3. f \in Nat
    <2>1. k.rcv_queue[1] \in Frag
      BY <1>1, <1>k
    <2> QED BY <2>1, FragFields
  <1>4. /\ f < 255
        /\ \A d \in 0..f : w[R + 1 + d].frg = f - d
    BY <1>2 DEF Framed
  <1>5. f + 1 <= Q
    <2>1. f = 0 \/ Q >= (f + 1) % 256
      BY DEF PeekSize
    <2>2. (f + 1) % 256 = f + 1
      <3> HIDE DEF f
      <3> QED BY <1>3, <1>4
    <2> HIDE DEF f, Q
    <2> QED BY <2>1, <2>2, <1>1, <1>3, <1>k
  <1> HIDE DEF f, Q
  <1>6. k.rcv_queue[f + 1].frg = 0
    <2>1. f + 1 \in 1..Q /\ R + 1 + f = R + (f + 1) /\ f \in 0..f /\ f - f = 0
      BY <1>3, <1>5, <1>k
    <2>2. k.rcv_queue[f + 1] = w[R + (f + 1)]
      BY <2>1 DEF RcvInv, Q
    <2>3. w[R + 1 + f].frg = f - f
      BY <2>1, <1>4
    <2> QED BY <2>1, <2>2, <2>3
  <1>7. CASE k.rcv_queue[j].frg # 0
    <2>1. j = Q
      BY <1>7 DEF MergeStops, Q
    <2>2. \A i \in 1..(j - 1) : k.rcv_queue[i].frg # 0
      BY DEF MergeStops
    <2>3. f + 1 \in 1..(j - 1) \/ f + 1 = j
      BY <2>1, <1>3, <1>5, <1>k
    <2> QED BY <2>2, <2>3, <1>6, <1>7
  <1> QED BY <1>7

LEMMA RecvInv ==
    ASSUME NEW k \in KCP, NEW w \in Seq(Frag), NEW r \in Seq(Frag), RcvInv(k, w, r),
           NEW j \in 1..Len(k.rcv_queue)
    PROVE  LET k1 == [k EXCEPT !.rcv_queue = SubSeq(@, j + 1, Len(@))]
               r2 == r \o SubSeq(k.rcv_queue, 1, j)
           IN  /\ k1 \in KCP /\ SameSnd(k, k1) /\ RcvInv(k1, w, r2) /\ Advances(k, k1)
               /\ r2 \in Seq(Frag) /\ Len(r2) = Len(r) + j
               /\ r2[Len(r2)] = k.rcv_queue[j]
  <1> DEFINE k1 == [k EXCEPT !.rcv_queue = SubSeq(@, j + 1, Len(@))]
             m == SubSeq(k.rcv_queue, 1, j)
             rest == SubSeq(k.rcv_queue, j + 1, Len(k.rcv_queue))
             r2 == r \o m
             Q == Len(k.rcv_queue)
             R == Len(r)
  <1>k. /\ k.rcv_nxt \in Nat /\ k.rcv_queue \in Seq(Frag) /\ Q \in Nat /\ R \in Nat
        /\ Len(w) \in Nat
    BY KcpFields
  <1>j. j \in Nat /\ 1 <= j /\ j <= Q /\ j \in 0..Q
    BY <1>k
  <1>1. /\ rest \in Seq(Frag) /\ Len(rest) = Q - j
        /\ \A i \in 1..(Q - j) : rest[i] = k.rcv_queue[j + i]
        /\ m \in Seq(Frag) /\ Len(m) = j
        /\ \A i \in 1..j : m[i] = k.rcv_queue[i]
    <2>1. k.rcv_queue \in Seq(Frag) /\ j \in 0..Len(k.rcv_queue)
      BY <1>k, <1>j
    <2> QED BY <2>1, SubSeqElements
  <1>2. k1 \in KCP
    BY <1>1 DEF KCP
  <1>f. /\ SameSnd(k, k1) /\ k1.rcv_nxt = k.rcv_nxt /\ k1.rcv_queue = rest
        /\ k1.rcv_buf = k.rcv_buf /\ k1.acklist = k.acklist
    BY DEF SameSnd, KCP
  <1> HIDE DEF k1, m, rest, Q
  <1>3. /\ r2 \in Seq(Frag) /\ Len(r2) = R + j
        /\ \A i \in 1..R : r2[i] = r[i]
        /\ \A i \in 1..j : r2[R + i] = m[i]
    <2>1. m \in Seq(Frag)
      BY <1>1
    <2>2. /\ r2 \in Seq(Frag) /\ Len(r2) = R + Len(m)
          /\ \A i \in 1..R : r2[i] = r[i]
          /\ \A i \in 1..Len(m) : r2[R + i] = m[i]
      BY <2>1, ConcatElements
    <2> HIDE DEF r2
    <2> QED BY <2>2, <1>1
  <1> HIDE DEF r2, R
  <1>4. r2[Len(r2)] = k.rcv_queue[j]
    <2>1. j \in 1..j
      BY <1>j
    <2> QED BY <2>1, <1>1, <1>3
  <1>5. \A x : Received(k1, x) <=> Received(k, x)
    BY <1>f DEF Received, Has
  <1>6. RcvInv(k1, w, r2)
    <2>n. k.rcv_nxt = R + Q /\ k.rcv_nxt <= Len(w)
      BY DEF RcvInv, Q, R
    <2>1. k1.rcv_nxt = Len(r2) + Len(k1.rcv_queue)
      BY <2>n, <1>f, <1>1, <1>3, <1>k, <1>j
    <2>2. ASSUME NEW i \in 1..(R + j) PROVE r2[i] = w[i]
      <3>1. CASE i <= R
        <4>1. i \in 1..R
          BY <3>1, <1>k
        <4> QED BY <4>1, <1>3 DEF RcvInv, R
      <3>2. CASE ~(i <= R)
        <4> DEFINE x == i - R
        <4>1. x \in 1..j /\ x \in 1..Q /\ R + x = i
          BY <3>2, <1>k, <1>j
        <4> HIDE DEF x
        <4>2. r2[R + x] = m[x] /\ m[x] = k.rcv_queue[x]
          BY <4>1, <1>1, <1>3
        <4>3. k.rcv_queue[x] = w[R + x]
          BY <4>1 DEF RcvInv, Q, R
        <4> QED BY <4>1, <4>2, <4>3
      <3> QED BY <3>1, <3>2
    <2>3. ASSUME NEW i \in 1..(Q - j) PROVE rest[i] = w[(R + j) + i]
      <3>1. j + i \in 1..Q /\ R + (j + i) = (R + j) + i
        BY <1>k, <1>j
      <3>2. k.rcv_queue[j + i] = w[R + (j + i)]
        BY <3>1 DEF RcvInv, Q, R
      <3> QED BY <3>1, <3>2, <1>1
    <2>4. \A e \in k.rcv_buf : /\ k.rcv_nxt <= e.sn /\ e.sn < Len(w)
                               /\ e.frag = w[e.sn + 1]
      BY DEF RcvInv
    <2>5. \A i \in 1..Len(k1.acklist) : Received(k1, k1.acklist[i])
      BY <1>5, <1>f DEF RcvInv
    <2> QED BY <2>n, <2>1, <2>2, <2>3, <2>4, <2>5, <1>1, <1>3, <1>f DEF RcvInv
  <1>7. Advances(k, k1)
    BY <1>5, <1>f, <1>k DEF Advances
  <1> QED BY <1>2, <1>3, <1>4, <1>6, <1>7, <1>f DEF k1, r2, m, R
(***************************************************************************)
(* A step of the network alone takes from what is under way.               *)
(***************************************************************************)
LEMMA NetStep ==
    ASSUME LinkInv, UNCHANGED <<kcp, written, read>>,
           \A q \in Peers : SegsTo(q)' \subseteq SegsTo(q)
    PROVE  LinkInv'
  BY DEF LinkInv

(***************************************************************************)
(* A step of p's Input that deals with segment s.                          *)
(***************************************************************************)
LEMMA SegStep ==
    ASSUME TypeOK, TypeOK', LinkInv, NEW p \in Peers, NEW s, NEW f, SegDone(p, s, f),
           NEW k2 \in KCP, kcp' = [kcp EXCEPT ![p] = k2],
           SndInv(k2, written[p]), RcvInv(k2, written[Other(p)], read[p]),
           AckInv(k2, kcp[Other(p)]), Advances(kcp[p], k2)
    PROVE  LinkInv'
  <1>1. kcp'[p] = k2 /\ \A q \in Peers : q # p => kcp'[q] = kcp[q]
    BY DEF TypeOK
  <1>2. UNCHANGED <<net, written, read>>
    BY DEF SegDone
  <1>3. inp'[p].segs \subseteq inp[p].segs /\ \A q \in Peers : q # p => inp'[q] = inp[q]
    BY DEF SegDone, TypeOK
  <1>4. SegsTo(p)' \subseteq SegsTo(p) /\ SegsTo(Other(p))' = SegsTo(Other(p))
    BY <1>2, <1>3, OtherPeer DEF SegsTo
  <1>5. Extends(written[p], written'[p]) /\ Framed(written'[p]) /\ ReadWhole(read'[p])
    <2>1. Len(written[p]) \in Nat
      BY DEF TypeOK
    <2> QED BY <2>1, <1>2 DEF Extends, LinkInv, ReadWhole
  <1> QED BY <1>1, <1>2, <1>4, <1>5, PeerStep

(***************************************************************************)
(* A flush of p, on the clock or at the end of Input.                      *)
(***************************************************************************)
LEMMA FlushStep ==
    ASSUME TypeOK, TypeOK', LinkInv, NEW p \in Peers, NEW full \in BOOLEAN,
           NEW t \in Timings(kcp[p]), flush(p, kcp[p], full, t),
           UNCHANGED <<written, read>>, inp'[p].segs \subseteq inp[p].segs,
           \A q \in Peers : q # p => inp'[q] = inp[q]
    PROVE  LinkInv'
  <1> DEFINE o == Other(p)
             k == kcp[p]
             k2 == Flushed(k, full, t)
             B == Burst(k, full, t)
  <1>o. o \in Peers /\ o # p
    BY OtherPeer
  <1>t. /\ k \in KCP /\ kcp[o] \in KCP /\ written[p] \in Seq(Frag)
        /\ written[o] \in Seq(Frag) /\ read[p] \in Seq(Frag)
        /\ net[o] \in Seq(SUBSET Wire) /\ Len(written[p]) \in Nat
    BY <1>o DEF TypeOK
  <1>k. k2 \in KCP
    BY <1>t, FlushTypes
  <1>i. /\ SndInv(k, written[p]) /\ RcvInv(k, written[o], read[p]) /\ AckInv(k, kcp[o])
        /\ \A i \in 1..Len(k.acklist) : Received(k, k.acklist[i])
        /\ Framed(written[p]) /\ ReadWhole(read[p])
    BY DEF LinkInv, RcvInv, ReadWhole
  <1>1. kcp'[p] = k2 /\ \A q \in Peers : q # p => kcp'[q] = kcp[q]
    BY DEF TypeOK, flush
  <1>n. \/ net' = net
        \/ net' = [net EXCEPT ![o] = Append(@, B)]
    BY DEF flush, output
  <1> HIDE DEF k, k2, B, o
  <1>2. /\ SameRcv(k, k2) /\ k2.acklist = <<>> /\ SndInv(k2, written[p])
        /\ AckInv(k2, kcp[o]) /\ \A s \in B : SegInv(s, written[p], k2)
    <2>1. t \in Timings(k)
      BY DEF k
    <2> QED BY <2>1, <1>t, <1>i, FlushInv DEF k2, B
  <1>3. RcvInv(k2, written[o], read[p]) /\ Advances(k, k2)
    BY <1>2, <1>i, <1>t, <1>k, SameRcvInv
  <1>4. SegsTo(p)' \subseteq SegsTo(p)
    <2>1. net'[p] = net[p]
      BY <1>n, <1>o DEF TypeOK
    <2> QED BY <2>1 DEF SegsTo
  <1>5. \A s \in SegsTo(o)' : s \in SegsTo(o) \/ s \in B
    <2>1. inp'[o] = inp[o]
      BY <1>o
    <2>2. \A i \in DOMAIN net'[o] : net'[o][i] = B \/ \E m \in DOMAIN net[o] : net'[o][i] = net[o][m]
      <3>1. CASE net' = net
        BY <3>1
      <3>2. CASE net' = [net EXCEPT ![o] = Append(@, B)]
        <4>1. net'[o] = Append(net[o], B)
          BY <3>2, <1>o DEF TypeOK
        <4>2. \A x \in Seq(SUBSET Wire) : \A i \in DOMAIN Append(x, B) :
                 Append(x, B)[i] = B \/ \E m \in DOMAIN x : Append(x, B)[i] = x[m]
          OBVIOUS
        <4> QED BY <4>1, <4>2, <1>t
      <3> QED BY <3>1, <3>2, <1>n
    <2> QED BY <2>1, <2>2 DEF SegsTo
  <1>6. Extends(written[p], written'[p]) /\ Framed(written'[p]) /\ ReadWhole(read'[p])
    BY <1>t, <1>i DEF Extends
  <1>7. \A s \in SegsTo(o)' : s \in SegsTo(o) \/ SegInv(s, written'[p], kcp'[p])
    BY <1>1, <1>2, <1>5
  <1> QED BY <1>1, <1>2, <1>3, <1>4, <1>6, <1>7, PeerStep DEF k, o
LEMMA LinkStep == TypeOK /\ TypeOK' /\ LinkInv /\ [Next]_vars => LinkInv'
  <1> SUFFICES ASSUME TypeOK, TypeOK', LinkInv, [Next]_vars PROVE LinkInv'
    OBVIOUS
  <1>u. CASE UNCHANGED vars
    <2>1. \A q \in Peers : SegsTo(q)' = SegsTo(q)
      BY <1>u DEF vars, SegsTo
    <2> QED BY <1>u, <2>1, NetStep DEF vars
  <1> SUFFICES ASSUME Next PROVE LinkInv'
    BY <1>u
  <1>p. PICK p \in Peers : \/ User(p)
                           \/ \E t \in Timings(kcp[p]) : Update(p, t)
                           \/ Input(p) \/ Deliver(p) \/ Lose(p)
    BY DEF Next
  <1> DEFINE k == kcp[p]
             o == Other(p)
  <1>o. o \in Peers /\ o # p /\ \A q \in Peers : q = p \/ q = o
    BY <1>p, OtherPeer
  <1>k. /\ k \in KCP /\ inp[p].segs \in SUBSET Wire /\ inp[p].reg \in BOOLEAN
        /\ inp[p].full \in BOOLEAN
        /\ written[p] \in Seq(Frag) /\ read[p] \in Seq(Frag) /\ written[o] \in Seq(Frag)
        /\ net[p] \in Seq(SUBSET Wire) /\ kcp[o] \in KCP /\ Len(written[p]) \in Nat
    BY <1>p, <1>o DEF TypeOK
  <1>l. /\ SndInv(k, written[p]) /\ RcvInv(k, written[o], read[p]) /\ AckInv(k, kcp[o])
        /\ Framed(written[p]) /\ Framed(written[o]) /\ ReadWhole(read[p])
    BY <1>p, <1>o DEF LinkInv, ReadWhole
  <1> HIDE DEF k, o
  <1>1. ASSUME NEW c \in FragCounts, Send(p, c) PROVE LinkInv'
    <2> DEFINE fs == Fragments(Len(written[p]) + 1, c)
               k2 == [k EXCEPT !.snd_queue = @ \o fs]
    <2>1. /\ kcp' = [kcp EXCEPT ![p].snd_queue = @ \o fs]
          /\ written' = [written EXCEPT ![p] = @ \o fs]
          /\ UNCHANGED <<inp, net, read>>
      BY <1>1 DEF Send
    <2>f. fs = Fragments(Len(written[p]) + 1, c)
      OBVIOUS
    <2> HIDE DEF fs
    <2>2. /\ kcp'[p] = k2 /\ \A q \in Peers : q # p => kcp'[q] = kcp[q]
          /\ written'[p] = written[p] \o fs
          /\ \A q \in Peers : q # p => written'[q] = written[q]
      BY <2>1, <1>p DEF TypeOK, k
    <2>3. /\ SndInv(k2, written[p] \o fs) /\ Framed(written[p] \o fs)
          /\ Extends(written[p], written[p] \o fs)
      BY <2>f, <1>k, <1>l, SendInv
    <2>4. /\ SameRcv(k, k2) /\ k2.acklist = k.acklist
          /\ k2.snd_una = k.snd_una /\ k2.snd_buf = k.snd_buf
      BY <1>k DEF SameRcv, KCP
    <2> HIDE DEF k2
    <2>5. k2 \in KCP
      BY <2>2, <1>p DEF TypeOK
    <2>6. RcvInv(k2, written[o], read[p]) /\ Advances(k, k2)
      BY <2>4, <2>5, <1>k, <1>l, SameRcvInv
    <2>7. AckInv(k2, kcp[o])
      BY <2>4, <1>l DEF AckInv
    <2>8. \A q \in Peers : SegsTo(q)' = SegsTo(q)
      BY <2>1 DEF SegsTo
    <2> QED BY <2>1, <2>2, <2>3, <2>6, <2>7, <2>8, <1>l, <1>o, <1>p, PeerStep DEF k, o
  <1>2. CASE Recv(p)
    <2>1. PICK j \in 1..Len(k.rcv_queue) :
            LET k1 == [k EXCEPT !.rcv_queue = SubSeq(@, j + 1, Len(@))]
            IN  /\ MergeStops(k, j)
                /\ \E n \in 0..Cardinality(k.rcv_buf) :
                     LET k2 == MoveReady(k1, n)
                         tell == Len(k.rcv_queue) >= k.rcv_wnd /\ Len(k2.rcv_queue) < k2.rcv_wnd
                     IN  /\ MoveStops(k1, n)
                         /\ kcp' = [kcp EXCEPT ![p] = [k2 EXCEPT !.probe =
                               IF tell THEN @ \cup {"ASK_TELL"} ELSE @]]
                /\ read' = [read EXCEPT ![p] = @ \o SubSeq(k.rcv_queue, 1, j)]
      BY <1>2 DEF Recv, k
    <2>2. PeekSize(k) /\ UNCHANGED <<inp, net, written>>
      BY <1>2 DEF Recv, k
    <2> DEFINE k1 == [k EXCEPT !.rcv_queue = SubSeq(@, j + 1, Len(@))]
               r2 == read[p] \o SubSeq(k.rcv_queue, 1, j)
    <2>3. PICK n \in 0..Cardinality(k.rcv_buf), tell \in BOOLEAN :
             /\ MoveStops(k1, n)
             /\ kcp' = [kcp EXCEPT ![p] = [MoveReady(k1, n) EXCEPT !.probe =
                           IF tell THEN @ \cup {"ASK_TELL"} ELSE @]]
      BY <2>1
    <2>n. n \in Nat
      BY <2>3
    <2>4. /\ k1 \in KCP /\ SameSnd(k, k1) /\ RcvInv(k1, written[o], r2) /\ Advances(k, k1)
          /\ r2 \in Seq(Frag) /\ r2[Len(r2)] = k.rcv_queue[j]
      <3>1. /\ k \in KCP /\ written[o] \in Seq(Frag) /\ read[p] \in Seq(Frag)
            /\ RcvInv(k, written[o], read[p]) /\ j \in 1..Len(k.rcv_queue)
        BY <1>k, <1>l
      <3> QED BY ONLY <3>1, RecvInv
    <2>5. k.rcv_queue[j].frg = 0
      BY <2>1, <2>2, <1>k, <1>l, MergeWhole
    <2>6. read'[p] = r2 /\ \A q \in Peers : q # p => read'[q] = read[q]
      BY <2>1, <1>p DEF TypeOK
    <2> HIDE DEF k1, r2
    <2> DEFINE k2 == MoveReady(k1, n)
               k3 == [k2 EXCEPT !.probe = IF tell THEN @ \cup {"ASK_TELL"} ELSE @]
    <2>7. k2 \in KCP /\ SameSnd(k1, k2) /\ RcvInv(k2, written[o], r2) /\ Advances(k1, k2)
      BY <2>3, <2>4, <2>n, <1>k, MoveInv
    <2>8. kcp'[p] = k3 /\ \A q \in Peers : q # p => kcp'[q] = kcp[q]
      BY <2>3, <1>p DEF TypeOK
    <2> HIDE DEF k2
    <2>9. SameSnd(k2, k3) /\ SameRcv(k2, k3) /\ k3.acklist = k2.acklist
      BY <2>7 DEF SameSnd, SameRcv, KCP
    <2> HIDE DEF k3
    <2>10. k3 \in KCP
      BY <2>8, <1>p DEF TypeOK
    <2>11. RcvInv(k3, written[o], r2) /\ Advances(k2, k3)
      BY <2>7, <2>9, <2>10, SameRcvInv
    <2>12. Advances(k, k3)
      <3>1. k.rcv_nxt \in Nat /\ k1.rcv_nxt \in Nat /\ k2.rcv_nxt \in Nat /\ k3.rcv_nxt \in Nat
        BY <1>k, <2>4, <2>7, <2>10, KcpFields
      <3> QED BY <3>1, <2>4, <2>7, <2>11 DEF Advances
    <2>13. SndInv(k3, written[p]) /\ AckInv(k3, kcp[o])
      <3>1. SameSnd(k, k3)
        BY <2>4, <2>7, <2>9 DEF SameSnd
      <3> QED BY <3>1, <1>l, SameSndInv
    <2>14. ReadWhole(r2)
      BY <2>4, <2>5 DEF ReadWhole
    <2>15. \A q \in Peers : SegsTo(q)' = SegsTo(q)
      BY <2>2 DEF SegsTo
    <2>16. Extends(written[p], written'[p])
      BY <2>2, <1>k DEF Extends
    <2> QED BY <2>2, <2>6, <2>8, <2>11, <2>12, <2>13, <2>14, <2>15, <2>16, <1>l, <1>o,
               <1>p, PeerStep DEF k, o
  <1>3. ASSUME NEW sw \in SndWnds, NEW rw \in RcvWnds, WndSize(p, sw, rw) PROVE LinkInv'
    <2> DEFINE k2 == [k EXCEPT !.snd_wnd = sw, !.rcv_wnd = rw]
    <2>1. kcp'[p] = k2 /\ \A q \in Peers : q # p => kcp'[q] = kcp[q]
      BY <1>3, <1>p DEF WndSize, TypeOK, k
    <2>2. SameSnd(k, k2) /\ SameRcv(k, k2) /\ k2.acklist = k.acklist
      BY <1>k DEF SameSnd, SameRcv, KCP
    <2> HIDE DEF k2
    <2>3. k2 \in KCP
      BY <2>1, <1>p DEF TypeOK
    <2>4. RcvInv(k2, written[o], read[p]) /\ Advances(k, k2)
      BY <2>2, <2>3, <1>k, <1>l, SameRcvInv
    <2>5. SndInv(k2, written[p]) /\ AckInv(k2, kcp[o])
      BY <2>2, <1>l, SameSndInv
    <2>6. \A q \in Peers : SegsTo(q)' = SegsTo(q)
      BY <1>3 DEF WndSize, SegsTo
    <2>7. UNCHANGED <<written, read>> /\ Extends(written[p], written'[p])
      BY <1>3, <1>k DEF WndSize, Extends
    <2> QED BY <2>1, <2>4, <2>5, <2>6, <2>7, <1>l, <1>o, <1>p, PeerStep DEF k, o
  <1>4. ASSUME NEW t \in Timings(kcp[p]), Update(p, t) PROVE LinkInv'
    BY <1>4, <1>p, FlushStep DEF Update
  <1>f. FirstSegs(inp[p].segs) \subseteq inp[p].segs
    BY DEF FirstSegs
  <1>5. ASSUME NEW s \in FirstSegs(inp[p].segs), NEW c \in 0..Len(k.snd_buf),
               UnaDrops(k, s.una, c)
        PROVE  LET k1 == InputHeader(k, s, inp[p].reg, c)
               IN  /\ k1 \in KCP /\ SndInv(k1, written[p]) /\ AckInv(k1, kcp[o])
                   /\ RcvInv(k1, written[o], read[p]) /\ Advances(k, k1)
                   /\ k1.rcv_nxt = k.rcv_nxt
                   /\ s \in Wire /\ s.sn \in Nat /\ SegInv(s, written[o], kcp[o])
    <2> DEFINE k1 == InputHeader(k, s, inp[p].reg, c)
    <2>1. s \in Wire /\ s.sn \in Nat /\ s \in inp[p].segs
      <3>1. s \in Wire
        BY <1>f, <1>k
      <3> QED BY <3>1, <1>f DEF Wire
    <2>2. SegInv(s, written[o], kcp[o])
      BY <2>1, <1>p DEF LinkInv, SegsTo, o
    <2>3. k1 \in KCP
      BY <2>1, <1>k, InputTypes
    <2>4. s.una <= kcp[o].rcv_nxt
      BY <2>2 DEF SegInv
    <2>5. /\ SameRcv(k, k1) /\ k1.acklist = k.acklist
          /\ SndInv(k1, written[p]) /\ AckInv(k1, kcp[o])
      BY <2>1, <2>4, <1>5, <1>k, <1>l, HeaderInv
    <2> HIDE DEF k1
    <2>6. RcvInv(k1, written[o], read[p]) /\ Advances(k, k1)
      BY <2>3, <2>5, <1>k, <1>l, SameRcvInv
    <2> QED BY <2>1, <2>2, <2>3, <2>5, <2>6 DEF k1, SameRcv
  <1>6. CASE InputAck(p)
    <2>1. PICK s \in FirstSegs(inp[p].segs), c \in 0..Len(k.snd_buf), fast \in BOOLEAN :
             /\ s.cmd = "ACK" /\ UnaDrops(k, s.una, c)
             /\ kcp' = [kcp EXCEPT ![p] =
                           parse_ack(InputHeader(k, s, inp[p].reg, c), s.sn)]
             /\ SegDone(p, s, c > 0 \/ fast)
      BY <1>6 DEF InputAck, parse_fastack, k
    <2> DEFINE k1 == InputHeader(k, s, inp[p].reg, c)
               k2 == parse_ack(k1, s.sn)
    <2>2. /\ k1 \in KCP /\ SndInv(k1, written[p]) /\ AckInv(k1, kcp[o])
          /\ RcvInv(k1, written[o], read[p]) /\ Advances(k, k1)
          /\ s.sn \in Nat /\ SegInv(s, written[o], kcp[o])
      BY <2>1, <1>5
    <2> HIDE DEF k1
    <2>3. Received(kcp[o], s.sn)
      BY <2>1, <2>2 DEF SegInv
    <2>4. /\ SameRcv(k1, k2) /\ k2.acklist = k1.acklist
          /\ SndInv(k2, written[p]) /\ AckInv(k2, kcp[o])
      BY <2>2, <2>3, <1>k, ParseAckInv
    <2> HIDE DEF k2
    <2>5. k2 \in KCP
      BY <2>1, <1>p DEF TypeOK, k1, k2
    <2>6. RcvInv(k2, written[o], read[p]) /\ Advances(k1, k2)
      BY <2>2, <2>4, <2>5, SameRcvInv
    <2>7. Advances(k, k2)
      <3>1. k.rcv_nxt \in Nat /\ k1.rcv_nxt \in Nat /\ k2.rcv_nxt \in Nat
        BY <1>k, <2>2, <2>5, KcpFields
      <3> QED BY <3>1, <2>2, <2>6 DEF Advances
    <2> QED BY <2>1, <2>4, <2>5, <2>6, <2>7, <1>p, SegStep DEF k, k1, k2, o
  <1>7. CASE InputPush(p)
    <2>1. PICK s \in FirstSegs(inp[p].segs), c \in 0..Len(k.snd_buf) :
            LET k1 == InputHeader(k, s, inp[p].reg, c)
                k2 == ack_push(k1, s.sn)
                k3 == RcvBufInsert(k2, s)
            IN  /\ s.cmd = "PUSH" /\ UnaDrops(k, s.una, c)
                /\ \/ kcp' = [kcp EXCEPT ![p] = k1]
                   \/ s.sn < k1.rcv_nxt /\ kcp' = [kcp EXCEPT ![p] = k2]
                   \/ /\ k1.rcv_nxt <= s.sn
                      /\ \E n \in 0..Cardinality(k3.rcv_buf) :
                           /\ MoveStops(k3, n)
                           /\ kcp' = [kcp EXCEPT ![p] = MoveReady(k3, n)]
                /\ SegDone(p, s, c > 0)
      BY <1>7 DEF InputPush, InWindow, k
    <2> DEFINE k1 == InputHeader(k, s, inp[p].reg, c)
               k2 == ack_push(k1, s.sn)
               k3 == RcvBufInsert(k2, s)
    <2>2. /\ k1 \in KCP /\ SndInv(k1, written[p]) /\ AckInv(k1, kcp[o])
          /\ RcvInv(k1, written[o], read[p]) /\ Advances(k, k1)
          /\ s \in Wire /\ s.sn \in Nat /\ SegInv(s, written[o], kcp[o])
      BY <2>1, <1>5
    <2>3. SegDone(p, s, c > 0)
      BY <2>1
    <2>4. \/ kcp' = [kcp EXCEPT ![p] = k1]
          \/ s.sn < k1.rcv_nxt /\ kcp' = [kcp EXCEPT ![p] = k2]
          \/ /\ k1.rcv_nxt <= s.sn
             /\ \E n \in 0..Cardinality(k3.rcv_buf) :
                  /\ MoveStops(k3, n)
                  /\ kcp' = [kcp EXCEPT ![p] = MoveReady(k3, n)]
      BY <2>1
    <2> HIDE DEF k1
    <2>5. ASSUME NEW k4 \in KCP, kcp' = [kcp EXCEPT ![p] = k4], SameSnd(k1, k4),
                 RcvInv(k4, written[o], read[p]), Advances(k1, k4)
          PROVE  LinkInv'
      <3>1. SndInv(k4, written[p]) /\ AckInv(k4, kcp[o])
        BY <2>2, <2>5, SameSndInv
      <3>2. Advances(k, k4)
        <4>1. k.rcv_nxt \in Nat /\ k1.rcv_nxt \in Nat /\ k4.rcv_nxt \in Nat
          BY <1>k, <2>2, KcpFields
        <4> QED BY <4>1, <2>2, <2>5 DEF Advances
      <3> QED BY <3>1, <3>2, <2>3, <2>5, <1>p, SegStep DEF k, o
    <2>6. CASE kcp' = [kcp EXCEPT ![p] = k1]
      <3>1. SameSnd(k1, k1) /\ Advances(k1, k1)
        BY <2>2, KcpFields DEF SameSnd, Advances
      <3> QED BY <2>6, <3>1, <2>2, <2>5
    <2>7. CASE s.sn < k1.rcv_nxt /\ kcp' = [kcp EXCEPT ![p] = k2]
      <3>1. SameSnd(k1, k2) /\ RcvInv(k2, written[o], read[p]) /\ Advances(k1, k2)
        BY <2>2, <2>7, <1>k, AckAgainInv
      <3>2. k2 \in KCP
        BY <2>7, <1>p DEF TypeOK
      <3> HIDE DEF k2
      <3> QED BY <2>7, <3>1, <3>2, <2>5
    <2>8. CASE /\ k1.rcv_nxt <= s.sn
               /\ \E n \in 0..Cardinality(k3.rcv_buf) :
                    /\ MoveStops(k3, n)
                    /\ kcp' = [kcp EXCEPT ![p] = MoveReady(k3, n)]
      <3>1. s.sn < Len(written[o]) /\ s.frag = written[o][s.sn + 1]
        BY <2>1, <2>2 DEF SegInv
      <3>2. /\ k3 \in KCP /\ SameSnd(k1, k3) /\ RcvInv(k3, written[o], read[p])
            /\ Advances(k1, k3)
        BY <3>1, <2>2, <2>8, <1>k, InsertInv
      <3> HIDE DEF k3
      <3>3. PICK n \in 0..Cardinality(k3.rcv_buf) :
               /\ MoveStops(k3, n)
               /\ kcp' = [kcp EXCEPT ![p] = MoveReady(k3, n)]
        BY <2>8
      <3> DEFINE k4 == MoveReady(k3, n)
      <3>4. n \in Nat
        BY <3>3
      <3>5. k4 \in KCP /\ SameSnd(k3, k4) /\ RcvInv(k4, written[o], read[p]) /\ Advances(k3, k4)
        BY <3>2, <3>3, <3>4, <1>k, MoveInv
      <3> HIDE DEF k4
      <3>6. SameSnd(k1, k4)
        BY <3>2, <3>5 DEF SameSnd
      <3>7. Advances(k1, k4)
        <4>1. k1.rcv_nxt \in Nat /\ k3.rcv_nxt \in Nat /\ k4.rcv_nxt \in Nat
          BY <2>2, <3>2, <3>5, KcpFields
        <4> QED BY <4>1, <3>2, <3>5 DEF Advances
      <3> QED BY <3>3, <3>5, <3>6, <3>7, <2>5 DEF k4
    <2> QED BY <2>4, <2>6, <2>7, <2>8
  <1>8. CASE InputWask(p)
    <2>1. PICK s \in FirstSegs(inp[p].segs), c \in 0..Len(k.snd_buf) :
             /\ UnaDrops(k, s.una, c)
             /\ kcp' = [kcp EXCEPT ![p] = [InputHeader(k, s, inp[p].reg, c)
                           EXCEPT !.probe = @ \cup {"ASK_TELL"}]]
             /\ SegDone(p, s, c > 0)
      BY <1>8 DEF InputWask, k
    <2> DEFINE k1 == InputHeader(k, s, inp[p].reg, c)
               k2 == [k1 EXCEPT !.probe = @ \cup {"ASK_TELL"}]
    <2>2. /\ k1 \in KCP /\ SndInv(k1, written[p]) /\ AckInv(k1, kcp[o])
          /\ RcvInv(k1, written[o], read[p]) /\ Advances(k, k1)
      BY <2>1, <1>5
    <2>3. SegDone(p, s, c > 0) /\ kcp' = [kcp EXCEPT ![p] = k2]
      BY <2>1
    <2> HIDE DEF k1
    <2>4. SameSnd(k1, k2) /\ SameRcv(k1, k2) /\ k2.acklist = k1.acklist
      BY <2>2 DEF SameSnd, SameRcv, KCP
    <2> HIDE DEF k2
    <2>5. k2 \in KCP
      BY <2>3, <1>p DEF TypeOK
    <2>6. RcvInv(k2, written[o], read[p]) /\ Advances(k1, k2)
      BY <2>2, <2>4, <2>5, SameRcvInv
    <2>7. Advances(k, k2)
      <3>1. k.rcv_nxt \in Nat /\ k1.rcv_nxt \in Nat /\ k2.rcv_nxt \in Nat
        BY <1>k, <2>2, <2>5, KcpFields
      <3> QED BY <3>1, <2>2, <2>6 DEF Advances
    <2>8. SndInv(k2, written[p]) /\ AckInv(k2, kcp[o])
      BY <2>2, <2>4, SameSndInv
    <2> QED BY <2>3, <2>5, <2>6, <2>7, <2>8, <1>p, SegStep DEF k, o
  <1>9. CASE InputWins(p)
    <2>1. PICK s \in FirstSegs(inp[p].segs), c \in 0..Len(k.snd_buf) :
             /\ UnaDrops(k, s.una, c)
             /\ kcp' = [kcp EXCEPT ![p] = InputHeader(k, s, inp[p].reg, c)]
             /\ SegDone(p, s, c > 0)
      BY <1>9 DEF InputWins, k
    <2> DEFINE k1 == InputHeader(k, s, inp[p].reg, c)
    <2>2. /\ k1 \in KCP /\ SndInv(k1, written[p]) /\ AckInv(k1, kcp[o])
          /\ RcvInv(k1, written[o], read[p]) /\ Advances(k, k1)
      BY <2>1, <1>5
    <2>3. SegDone(p, s, c > 0) /\ kcp' = [kcp EXCEPT ![p] = k1]
      BY <2>1
    <2> HIDE DEF k1
    <2> QED BY <2>2, <2>3, <1>p, SegStep DEF k, o
  <1>10. CASE FinishInput(p)
    <2>1. /\ inp' = [inp EXCEPT ![p] = Idle] /\ inp[p].segs = {}
          /\ UNCHANGED <<written, read>>
      BY <1>10 DEF FinishInput
    <2>2. inp'[p].segs \subseteq inp[p].segs /\ \A q \in Peers : q # p => inp'[q] = inp[q]
      BY <2>1, <1>p DEF TypeOK, Idle
    <2>3. CASE inp[p].full \/ AcksDue(kcp[p])
      <3>1. PICK t \in Timings(kcp[p]) : flush(p, kcp[p], inp[p].full, t)
        BY <1>10, <2>3 DEF FinishInput
      <3> QED BY <3>1, <2>1, <2>2, <1>k, <1>p, FlushStep
    <2>4. CASE ~(inp[p].full \/ AcksDue(kcp[p]))
      <3>1. UNCHANGED <<kcp, net>>
        BY <1>10, <2>4 DEF FinishInput
      <3>2. \A q \in Peers : SegsTo(q)' \subseteq SegsTo(q)
        BY <3>1, <2>2 DEF SegsTo
      <3> QED BY <3>1, <3>2, <2>1, NetStep
    <2> QED BY <2>3, <2>4
  <1>11. CASE InputReject(p)
    <2>1. inp' = [inp EXCEPT ![p] = Idle] /\ UNCHANGED <<kcp, net, written, read>>
      BY <1>11 DEF InputReject
    <2>2. \A q \in Peers : inp'[q].segs \subseteq inp[q].segs
      BY <2>1, <1>p DEF TypeOK, Idle
    <2>3. \A q \in Peers : SegsTo(q)' \subseteq SegsTo(q)
      BY <2>1, <2>2 DEF SegsTo
    <2> QED BY <2>1, <2>3, NetStep
  <1>d. ASSUME NEW i \in DOMAIN net[p], NEW d \in Datagrams(net[p][i])
        PROVE  /\ d \subseteq net[p][i]
               /\ \A j \in DOMAIN Without(net[p], i, d) :
                    \E m \in DOMAIN net[p] : Without(net[p], i, d)[j] \subseteq net[p][m]
    <2>1. d \subseteq net[p][i]
      BY DEF Datagrams, FirstSegs
    <2> QED BY <2>1, <1>k, WithoutShrinks
  <1>12. CASE Deliver(p)
    <2>1. PICK i \in DOMAIN net[p] : \E d \in Datagrams(net[p][i]), keep, reg \in BOOLEAN :
             /\ inp' = [inp EXCEPT ![p] = [busy |-> TRUE, segs |-> d,
                                           full |-> FALSE, reg |-> reg]]
             /\ net' = IF keep THEN net ELSE [net EXCEPT ![p] = Without(@, i, d)]
             /\ UNCHANGED <<kcp, written, read>>
      BY <1>12 DEF Deliver
    <2>2. PICK d \in Datagrams(net[p][i]), keep \in BOOLEAN, reg \in BOOLEAN :
             /\ inp' = [inp EXCEPT ![p] = [busy |-> TRUE, segs |-> d,
                                           full |-> FALSE, reg |-> reg]]
             /\ net' = IF keep THEN net ELSE [net EXCEPT ![p] = Without(@, i, d)]
             /\ UNCHANGED <<kcp, written, read>>
      BY <2>1
    <2>3. inp'[p].segs = d /\ \A q \in Peers : q # p => inp'[q] = inp[q] /\ net'[q] = net[q]
      BY <2>2, <1>p DEF TypeOK
    <2>4. net'[p] = net[p] \/ net'[p] = Without(net[p], i, d)
      BY <2>2, <1>p DEF TypeOK
    <2>5. SegsTo(p)' \subseteq SegsTo(p)
      BY <2>3, <2>4, <1>d DEF SegsTo
    <2>6. \A q \in Peers : SegsTo(q)' \subseteq SegsTo(q)
      BY <2>3, <2>5 DEF SegsTo
    <2> QED BY <2>2, <2>6, NetStep
  <1>13. CASE Lose(p)
    <2>0. PICK i \in DOMAIN net[p] : \E d \in Datagrams(net[p][i]) :
             /\ net' = [net EXCEPT ![p] = Without(@, i, d)]
             /\ UNCHANGED <<kcp, inp, written, read>>
      BY <1>13 DEF Lose
    <2>1. PICK d \in Datagrams(net[p][i]) :
             /\ net' = [net EXCEPT ![p] = Without(@, i, d)]
             /\ UNCHANGED <<kcp, inp, written, read>>
      BY <2>0
    <2>2. net'[p] = Without(net[p], i, d) /\ \A q \in Peers : q # p => net'[q] = net[q]
      BY <2>1, <1>p DEF TypeOK
    <2>3. SegsTo(p)' \subseteq SegsTo(p)
      BY <2>1, <2>2, <1>d DEF SegsTo
    <2>4. \A q \in Peers : SegsTo(q)' \subseteq SegsTo(q)
      BY <2>1, <2>2, <2>3 DEF SegsTo
    <2> QED BY <2>1, <2>4, NetStep
  <1> QED BY <1>p, <1>1, <1>2, <1>3, <1>4, <1>6, <1>7, <1>8, <1>9, <1>10, <1>11,
             <1>12, <1>13 DEF User, Input, k
LEMMA LinkInit == Init => LinkInv
  <1> SUFFICES ASSUME Init, NEW p \in Peers
               PROVE  /\ SndInv(kcp[p], written[p])
                      /\ RcvInv(kcp[p], written[Other(p)], read[p])
                      /\ AckInv(kcp[p], kcp[Other(p)])
                      /\ \A s \in SegsTo(p) : SegInv(s, written[Other(p)], kcp[Other(p)])
                      /\ Framed(written[p])
                      /\ read[p] # <<>> => read[p][Len(read[p])].frg = 0
    BY DEF LinkInv
  <1>o. Other(p) \in Peers
    BY OtherPeer
  <1>1. /\ kcp[p] = NewKCP /\ kcp[Other(p)] = NewKCP
        /\ written[p] = <<>> /\ written[Other(p)] = <<>> /\ read[p] = <<>>
        /\ inp[p] = Idle /\ net[p] = <<>>
    BY <1>o DEF Init
  <1>2. /\ NewKCP.snd_una = 0 /\ NewKCP.snd_nxt = 0 /\ NewKCP.rcv_nxt = 0
        /\ NewKCP.snd_queue = <<>> /\ NewKCP.snd_buf = <<>>
        /\ NewKCP.rcv_queue = <<>> /\ NewKCP.rcv_buf = {} /\ NewKCP.acklist = <<>>
    BY DEF NewKCP
  <1>3. SegsTo(p) = {}
    BY <1>1 DEF SegsTo, Idle
  <1>4. SndInv(NewKCP, <<>>)
    BY <1>2 DEF SndInv
  <1>5. RcvInv(NewKCP, <<>>, <<>>)
    BY <1>2 DEF RcvInv
  <1>6. AckInv(NewKCP, NewKCP)
    BY <1>2 DEF AckInv
  <1>7. Framed(<<>>)
    BY DEF Framed
  <1> QED BY <1>1, <1>3, <1>4, <1>5, <1>6, <1>7

(***************************************************************************)
(* In every state sender, receiver and wire agree on the stream in both    *)
(* directions, whatever is lost, repeated, reordered, garbled or rebuilt   *)
(* by FEC, and whatever windows and retransmissions are chosen.            *)
(***************************************************************************)
THEOREM LinkAgreement == Spec => []LinkInv
  <1>1. TypeOK /\ LinkInv /\ [Next]_vars => LinkInv'
    BY TypeStep, LinkStep
  <1> QED BY <1>1, LinkInit, TypeCorrect, PTL DEF Spec

(***************************************************************************)
(* A reader gets exactly a prefix of what the opposite writer wrote (Recv  *)
(* against Send).                                                          *)
(***************************************************************************)
THEOREM InOrderDelivery == Spec => []DeliveredInOrder
  <1>1. TypeOK /\ LinkInv => DeliveredInOrder
    <2> SUFFICES ASSUME TypeOK, LinkInv, NEW p \in Peers
                 PROVE  /\ Len(read[p]) <= Len(written[Other(p)])
                        /\ \A i \in 1..Len(read[p]) : read[p][i] = written[Other(p)][i]
      BY DEF DeliveredInOrder
    <2>1. RcvInv(kcp[p], written[Other(p)], read[p])
      BY DEF LinkInv
    <2>2. kcp[p] \in KCP /\ read[p] \in Seq(Frag) /\ written[Other(p)] \in Seq(Frag)
      BY OtherPeer DEF TypeOK
    <2>3. /\ kcp[p].rcv_nxt \in Nat /\ Len(kcp[p].rcv_queue) \in Nat
          /\ Len(read[p]) \in Nat /\ Len(written[Other(p)]) \in Nat
      BY <2>2, KcpFields
    <2>4. /\ kcp[p].rcv_nxt = Len(read[p]) + Len(kcp[p].rcv_queue)
          /\ kcp[p].rcv_nxt <= Len(written[Other(p)])
          /\ \A i \in 1..Len(read[p]) : read[p][i] = written[Other(p)][i]
      BY <2>1 DEF RcvInv
    <2>5. Len(read[p]) <= Len(written[Other(p)])
      <3>1. \A x, y, z, n \in Nat : n = x + y /\ n <= z => x <= z
        OBVIOUS
      <3> QED BY <3>1, <2>3, <2>4
    <2> QED BY <2>4, <2>5
  <1> QED BY <1>1, TypeCorrect, LinkAgreement, PTL

(***************************************************************************)
(* Recv never hands over part of a message.                                *)
(***************************************************************************)
THEOREM NoPartialMessage == Spec => []WholeMessages
  <1>1. LinkInv => WholeMessages
    BY DEF LinkInv, WholeMessages
  <1> QED BY <1>1, LinkAgreement, PTL

(***************************************************************************)
(* parse_una and parse_ack give up a segment only when the receiver holds  *)
(* it or has passed it on.                                                 *)
(***************************************************************************)
THEOREM ReleaseIsSafe == Spec => []SafeRelease
  <1>1. TypeOK /\ LinkInv => SafeRelease
    <2> SUFFICES ASSUME TypeOK, LinkInv, NEW p \in Peers
                 PROVE  /\ \A sn \in 0..(kcp[p].snd_una - 1) : Received(kcp[Other(p)], sn)
                        /\ \A i \in DOMAIN kcp[p].snd_buf :
                             kcp[p].snd_buf[i].acked => Received(kcp[Other(p)], kcp[p].snd_buf[i].sn)
      BY DEF SafeRelease
    <2>1. AckInv(kcp[p], kcp[Other(p)])
      BY DEF LinkInv
    <2>2. kcp[p] \in KCP /\ kcp[Other(p)] \in KCP
      BY OtherPeer DEF TypeOK
    <2>3. kcp[p].snd_una \in Nat /\ kcp[Other(p)].rcv_nxt \in Nat
      BY <2>2, KcpFields
    <2>4. DOMAIN kcp[p].snd_buf = 1..Len(kcp[p].snd_buf)
      BY <2>2, KcpFields
    <2>5. \A sn \in 0..(kcp[p].snd_una - 1) : sn < kcp[Other(p)].rcv_nxt
      BY <2>1, <2>3 DEF AckInv
    <2> QED BY <2>1, <2>4, <2>5 DEF AckInv, Received
  <1> QED BY <1>1, TypeCorrect, LinkAgreement, PTL

(***************************************************************************)
(* Every data segment on the wire carries the fragment written at its      *)
(* position: flush never sends a recycled buffer.                          *)
(***************************************************************************)
THEOREM WireIsFaithful == Spec => []WirePayload
  <1>1. LinkInv => WirePayload
    BY DEF LinkInv, WirePayload, SegInv
  <1> QED BY <1>1, LinkAgreement, PTL
-----------------------------------------------------------------------------
(***************************************************************************)
(* Refinement.                                                             *)
(***************************************************************************)

LEMMA PrefixEq ==
    ASSUME NEW w \in Seq(Frag), NEW r \in Seq(Frag), Len(r) <= Len(w),
           \A i \in 1..Len(r) : r[i] = w[i]
    PROVE  r = SubSeq(w, 1, Len(r))
  <1>1. Len(r) \in 0..Len(w)
    OBVIOUS
  <1>2. /\ SubSeq(w, 1, Len(r)) \in Seq(Frag) /\ Len(SubSeq(w, 1, Len(r))) = Len(r)
        /\ \A i \in 1..Len(r) : SubSeq(w, 1, Len(r))[i] = w[i]
    BY <1>1, SubSeqElements
  <1> QED BY <1>2, SeqEqual

LEMMA ChannelStep ==
    TypeOK /\ TypeOK' /\ LinkInv /\ LinkInv' /\ [Next]_vars => [Channel!Next]_<<written, read>>
  <1> SUFFICES ASSUME TypeOK, TypeOK', LinkInv, LinkInv', [Next]_vars
               PROVE  [Channel!Next]_<<written, read>>
    OBVIOUS
  <1>u. CASE UNCHANGED <<written, read>>
    BY <1>u
  <1>v. CASE UNCHANGED vars
    BY <1>v DEF vars
  <1> SUFFICES ASSUME Next PROVE Channel!Next \/ UNCHANGED <<written, read>>
    BY <1>u, <1>v
  <1>p. PICK p \in Peers : \/ User(p)
                           \/ \E t \in Timings(kcp[p]) : Update(p, t)
                           \/ Input(p) \/ Deliver(p) \/ Lose(p)
    BY DEF Next
  <1>1. ASSUME NEW c \in FragCounts, Send(p, c) PROVE Channel!Next
    <2>1. written' = [written EXCEPT ![p] = @ \o Channel!Message(Len(@) + 1, c)] /\ read' = read
      BY <1>1 DEF Send, Fragments, Channel!Message
    <2>2. Channel!Send(p)
      BY <2>1 DEF Channel!Send
    <2> QED BY <2>2, <1>p DEF Channel!Next
  <1>2. CASE Recv(p)
    <2> DEFINE k == kcp[p]
               s == written[Other(p)]
               R == Len(read[p])
    <2>t. /\ k \in KCP /\ s \in Seq(Frag) /\ read[p] \in Seq(Frag) /\ R \in Nat /\ Len(s) \in Nat
          /\ read'[p] \in Seq(Frag)
      BY <1>p, OtherPeer DEF TypeOK
    <2>l. RcvInv(k, s, read[p]) /\ Framed(s)
      BY <1>p, OtherPeer DEF LinkInv
    <2>1. PICK j \in 1..Len(k.rcv_queue) :
             /\ PeekSize(k) /\ MergeStops(k, j) /\ written' = written
             /\ read' = [read EXCEPT ![p] = @ \o SubSeq(k.rcv_queue, 1, j)]
      BY <1>2 DEF Recv
    <2> DEFINE r2 == read[p] \o SubSeq(k.rcv_queue, 1, j)
    <2>2. k.rcv_queue[j].frg = 0
      BY <2>1, <2>t, <2>l, MergeWhole
    <2>3. r2 \in Seq(Frag) /\ Len(r2) = R + j
      <3>1. /\ k \in KCP /\ s \in Seq(Frag) /\ read[p] \in Seq(Frag)
            /\ RcvInv(k, s, read[p]) /\ j \in 1..Len(k.rcv_queue)
        BY <2>t, <2>l
      <3> QED BY ONLY <3>1, RecvInv
    <2>r. read' = [read EXCEPT ![p] = r2] /\ read'[p] = r2
      BY <2>1, <1>p DEF TypeOK
    <2> HIDE DEF r2, s, k, R
    <2>4. Len(r2) <= Len(s) /\ \A i \in 1..Len(r2) : r2[i] = s[i]
      <3>1. RcvInv(kcp'[p], s, r2)
        BY <2>1, <2>r, <1>p DEF LinkInv, s
      <3>2. kcp'[p] \in KCP
        BY <1>p DEF TypeOK
      <3>3. kcp'[p].rcv_nxt \in Nat /\ Len(kcp'[p].rcv_queue) \in Nat /\ Len(r2) \in Nat
        BY <3>2, <2>3, KcpFields
      <3>4. /\ kcp'[p].rcv_nxt = Len(r2) + Len(kcp'[p].rcv_queue)
            /\ kcp'[p].rcv_nxt <= Len(s) /\ \A i \in 1..Len(r2) : r2[i] = s[i]
        BY <3>1 DEF RcvInv
      <3>5. Len(r2) <= Len(s)
        BY <3>3, <3>4, <2>t
      <3> QED BY <3>4, <3>5
    <2>5. r2 = SubSeq(s, 1, R + j)
      BY <2>3, <2>4, <2>t, PrefixEq
    <2>j. j \in Nat /\ 1 <= j /\ j <= Len(k.rcv_queue) /\ Len(k.rcv_queue) \in Nat
      BY <2>t, KcpFields
    <2>6. R + j \in (R + 1)..Len(s)
      <3>1. R + j <= Len(s)
        BY <2>3, <2>4
      <3> QED BY <3>1, <2>j, <2>t
    <2>7. ASSUME NEW i \in 1..j PROVE s[R + i] = k.rcv_queue[i]
      <3>1. i \in 1..Len(k.rcv_queue)
        BY <2>j
      <3> QED BY <3>1, <2>l DEF RcvInv, R
    <2>8. Channel!IsMessage(s, R, R + j)
      <3>1. s[R + j].frg = 0
        <4>1. j \in 1..j
          BY <2>j
        <4> QED BY <4>1, <2>2, <2>7
      <3>2. ASSUME NEW x \in (R + 1)..((R + j) - 1) PROVE s[x].frg # 0
        <4> DEFINE i == x - R
        <4>1. i \in 1..(j - 1) /\ i \in 1..j /\ R + i = x
          BY <2>j, <2>t
        <4> HIDE DEF i
        <4>2. k.rcv_queue[i].frg # 0
          BY <4>1, <2>1 DEF MergeStops
        <4> QED BY <4>1, <4>2, <2>7
      <3> QED BY <3>1, <3>2 DEF Channel!IsMessage
    <2>9. Channel!Recv(p)
      <3>1. read' = [read EXCEPT ![p] = SubSeq(s, 1, R + j)]
        BY <2>r, <2>5
      <3> QED BY <3>1, <2>1, <2>6, <2>8 DEF Channel!Recv, s, R
    <2> QED BY <2>9, <1>p DEF Channel!Next
  <1>3. CASE \/ \E sw \in SndWnds, rw \in RcvWnds : WndSize(p, sw, rw)
             \/ \E t \in Timings(kcp[p]) : Update(p, t)
             \/ Input(p) \/ Deliver(p) \/ Lose(p)
    <2>1. UNCHANGED <<written, read>>
      BY <1>3 DEF WndSize, Update, Input, InputAck, InputPush, InputWask, InputWins,
                  SegDone, FinishInput, InputReject, Deliver, Lose
    <2> QED BY <2>1
  <1> QED BY <1>p, <1>1, <1>2, <1>3 DEF User

(***************************************************************************)
(* Two KCP endpoints over an unreliable network implement a pair of        *)
(* reliable, ordered message channels: Send is the abstract Send, Recv the *)
(* abstract Recv, and everything Input, flush and the network do is        *)
(* invisible.                                                              *)
(***************************************************************************)
THEOREM ChannelRefinement == Spec => ChannelSpec
  <1>1. Init => Channel!Init
    BY DEF Init, Channel!Init
  <1>2. [](TypeOK /\ LinkInv) /\ [][Next]_vars => [][Channel!Next]_<<written, read>>
    BY ChannelStep, PTL
  <1>3. Channel!vars = <<written, read>>
    BY DEF Channel!vars
  <1>4. Spec => [][Channel!Next]_<<written, read>>
    BY <1>2, TypeCorrect, LinkAgreement, PTL DEF Spec
  <1> QED BY <1>1, <1>3, <1>4, PTL DEF Spec, ChannelSpec, Channel!Spec, Channel!vars

-----------------------------------------------------------------------------
(***************************************************************************)
(* The windows, and what one step may do to an endpoint.  These theorems   *)
(* rest on the agreement of sender, receiver and wire proved above.        *)
(***************************************************************************)

(***************************************************************************)
(* What every step does to the sending half of an endpoint: snd_una and    *)
(* snd_nxt only grow, snd_nxt only within the send window, and a segment   *)
(* of the new snd_buf is a new one or was in snd_buf before, where it was  *)
(* not acknowledged unless it is now.                                      *)
(***************************************************************************)
Inherits(k, k2, j) ==
    \/ k2.snd_buf[j].sn >= k.snd_nxt
    \/ \E i \in DOMAIN k.snd_buf : /\ k.snd_buf[i].sn = k2.snd_buf[j].sn
                                   /\ k.snd_buf[i].acked => k2.snd_buf[j].acked

SndStep(k, k2) ==
    /\ k.snd_una <= k2.snd_una
    /\ k2.snd_nxt = k.snd_nxt \/ k2.snd_nxt <= k2.snd_una + k.snd_wnd
    /\ \A j \in DOMAIN k2.snd_buf : Inherits(k, k2, j)

(***************************************************************************)
(* What every step does to the receiving half: rcv_nxt only grows,         *)
(* rcv_queue grows up to the receive window only, rcv_buf takes nothing    *)
(* beyond the window, and unless the window grows nothing is stranded.     *)
(***************************************************************************)
NotStranded(k) == Has(k, k.rcv_nxt) => Len(k.rcv_queue) >= k.rcv_wnd

RcvStep(k, k2) ==
    /\ k.rcv_nxt <= k2.rcv_nxt
    /\ \/ Len(k2.rcv_queue) <= Len(k.rcv_queue)
       \/ Len(k2.rcv_queue) <= k.rcv_wnd
    /\ \A e \in k2.rcv_buf : e \in k.rcv_buf \/ e.sn < k.rcv_nxt + k.rcv_wnd
    /\ NotStranded(k) /\ k2.rcv_wnd <= k.rcv_wnd => NotStranded(k2)

WndStep(k, k2) == /\ k2.snd_wnd \in SndWnds \cup {k.snd_wnd}
                  /\ k2.rcv_wnd \in RcvWnds \cup {k.rcv_wnd}

SameWnd(k, k2) == k2.snd_wnd = k.snd_wnd /\ k2.rcv_wnd = k.rcv_wnd

-----------------------------------------------------------------------------
(***************************************************************************)
(* Half of the state left alone.                                           *)
(***************************************************************************)
LEMMA SndStepRefl ==
    ASSUME NEW k \in KCP
    PROVE  SndStep(k, k)
  <1>1. k.snd_una \in Nat
    BY KcpFields
  <1>2. \A j \in DOMAIN k.snd_buf : Inherits(k, k, j)
    BY DEF Inherits
  <1> QED
    BY <1>1, <1>2 DEF SndStep

LEMMA SndStepSame ==
    ASSUME NEW k, NEW k1, NEW k2, SndStep(k, k1), SameSnd(k1, k2)
    PROVE  SndStep(k, k2)
  BY DEF SndStep, SameSnd, Inherits

LEMMA RcvStepSame ==
    ASSUME NEW k \in KCP, NEW k2 \in KCP, SameRcv(k, k2)
    PROVE  RcvStep(k, k2)
  <1>1. /\ k.rcv_nxt \in Nat /\ Len(k.rcv_queue) \in Nat
        /\ k.rcv_wnd \in Nat /\ k2.rcv_wnd \in Nat
    BY KcpFields
  <1>2. /\ k2.rcv_nxt = k.rcv_nxt /\ k2.rcv_queue = k.rcv_queue /\ k2.rcv_buf = k.rcv_buf
    BY DEF SameRcv
  <1>3. ASSUME NotStranded(k), k2.rcv_wnd <= k.rcv_wnd PROVE NotStranded(k2)
    BY <1>1, <1>2, <1>3 DEF NotStranded, Has
  <1> QED
    BY <1>1, <1>2, <1>3 DEF RcvStep

(***************************************************************************)
(* A flush: the segments that enter snd_buf fit in the send window.        *)
(***************************************************************************)
LEMMA FlushSummary ==
    ASSUME NEW k \in KCP, NEW t \in Timings(k), NEW full \in BOOLEAN
    PROVE  LET k2 == Flushed(k, full, t)
           IN  SndStep(k, k2) /\ SameRcv(k, k2) /\ SameWnd(k, k2)
  <1> DEFINE k2 == Flushed(k, full, t)
             n == NewSegsCount(k, t)
             b == SndBufFilled(k, t)
             L == Len(k.snd_buf)
             new == [i \in 1..n |->
                       [sn |-> k.snd_nxt + i - 1, frag |-> k.snd_queue[i],
                        sent |-> FALSE, acked |-> FALSE]]
  <1>k. /\ k.snd_una \in Nat /\ k.snd_nxt \in Nat /\ k.snd_wnd \in Nat /\ k.rmt_wnd \in Nat
        /\ k.snd_queue \in Seq(Frag) /\ Len(k.snd_queue) \in Nat
        /\ k.snd_buf \in Seq(SndSeg) /\ L \in Nat
    BY KcpFields
  <1>t. t.cwnd \in Nat
    BY WindowAssumption DEF Timings
  <1>n. n \in 0..Len(k.snd_queue) /\ n \in Nat /\ b \in Seq(SndSeg)
    BY FlushTypes, <1>k
  <1>f. /\ SameRcv(k, k2) /\ SameWnd(k, k2) /\ k2.snd_una = k.snd_una
        /\ k2.snd_nxt = k.snd_nxt + n
        /\ k2.snd_buf = IF full
                        THEN [i \in DOMAIN b |->
                                [b[i] EXCEPT !.sent = @ \/ NeedSend(b[i], t)]]
                        ELSE b
    BY DEF Flushed, SameRcv, SameWnd, KCP
  <1>1. n = 0 \/ k.snd_nxt + n <= k.snd_una + k.snd_wnd
    <2>1. Cwnd(k, t) \in Nat /\ Cwnd(k, t) <= k.snd_wnd
      BY <1>k, <1>t DEF Cwnd
    <2> QED
      BY <1>k, <2>1, SMTT(30) DEF NewSegsCount
  <1>2. b = k.snd_buf \o new
    BY DEF SndBufFilled
  <1> HIDE DEF k2, b
  <1>3. DOMAIN b = 1..Len(b) /\ Len(b) \in Nat /\ \A i \in 1..Len(b) : b[i] \in SndSeg
    BY <1>n, SndBufElements
  <1>4. /\ new \in Seq(SndSeg) /\ Len(new) = n
        /\ \A i \in 1..n : new[i].sn = k.snd_nxt + i - 1
    <2>1. \A i \in 1..n : k.snd_queue[i] \in Frag /\ k.snd_nxt + i - 1 \in Nat
      BY <1>k, <1>n
    <2> HIDE DEF n
    <2>2. \A i \in 1..n : new[i] \in SndSeg /\ new[i].sn = k.snd_nxt + i - 1
      BY <2>1 DEF SndSeg
    <2> QED
      BY <1>n, <2>2
  <1> HIDE DEF new, n, L
  <1>5. Len(b) = L + n
    BY <1>2, <1>4, <1>k, ConcatElements DEF L
  <1>6. DOMAIN k2.snd_buf = 1..(L + n)
        /\ \A j \in 1..(L + n) : k2.snd_buf[j].sn = b[j].sn /\ k2.snd_buf[j].acked = b[j].acked
    <2>1. CASE full
      <3>1. k2.snd_buf = [i \in 1..(L + n) |-> [b[i] EXCEPT !.sent = @ \/ NeedSend(b[i], t)]]
        BY <1>f, <1>3, <1>5, <2>1
      <3>2. \A j \in 1..(L + n) : k2.snd_buf[j].sn = b[j].sn /\ k2.snd_buf[j].acked = b[j].acked
        BY <1>3, <1>5, <3>1 DEF SndSeg
      <3> QED
        BY <3>1, <3>2
    <2>2. CASE ~full
      BY <1>f, <1>3, <1>5, <2>2
    <2> QED
      BY <2>1, <2>2
  <1>7. ASSUME NEW j \in 1..(L + n) PROVE Inherits(k, k2, j)
    <2>1. CASE j \in 1..L
      <3>1. b[j] = k.snd_buf[j] /\ j \in DOMAIN k.snd_buf
        BY <1>2, <1>4, <1>k, <2>1, ConcatElements DEF L
      <3> QED
        BY <1>6, <1>7, <3>1 DEF Inherits
    <2>2. CASE j \notin 1..L
      <3>1. j - L \in 1..n /\ L + (j - L) = j
        BY <1>7, <1>k, <1>n, <2>2
      <3>2. b[L + (j - L)] = new[j - L]
        BY <1>2, <1>4, <1>k, <3>1, ConcatElements DEF L
      <3>3. b[j].sn = k.snd_nxt + (j - L) - 1
        BY <1>4, <3>1, <3>2
      <3>4. b[j].sn >= k.snd_nxt
        BY <1>k, <3>1, <3>3
      <3> QED
        BY <1>6, <1>7, <3>4 DEF Inherits
    <2> QED
      BY <2>1, <2>2
  <1>8. k2.snd_nxt = k.snd_nxt \/ k2.snd_nxt <= k2.snd_una + k.snd_wnd
    BY <1>1, <1>f, <1>k
  <1>9. SndStep(k, k2)
    BY <1>6, <1>7, <1>8, <1>f, <1>k DEF SndStep
  <1> QED
    BY <1>9, <1>f DEF k2

(***************************************************************************)
(* The header of a segment: parse_una drops segments from the front of     *)
(* snd_buf, shrink_buf moves snd_una up to the next one.                   *)
(***************************************************************************)
LEMMA HeaderSummary ==
    ASSUME NEW k \in KCP, NEW q \in KCP, NEW s \in Wire, NEW reg \in BOOLEAN,
           NEW c \in 0..Len(k.snd_buf), NEW w \in Seq(Frag),
           SndInv(k, w), AckInv(k, q), UnaDrops(k, s.una, c), s.una <= q.rcv_nxt
    PROVE  LET k1 == InputHeader(k, s, reg, c)
           IN  k1 \in KCP /\ SndStep(k, k1) /\ SameRcv(k, k1) /\ SameWnd(k, k1)
  <1> DEFINE k1 == InputHeader(k, s, reg, c)
             L == Len(k.snd_buf)
  <1>1. k1 \in KCP
    BY InputTypes
  <1>2. /\ SameRcv(k, k1) /\ k1.rcv_wnd = k.rcv_wnd
        /\ k1.snd_nxt = k.snd_nxt /\ k1.snd_una = k.snd_una + c
        /\ Len(k1.snd_buf) = L - c
        /\ \A i \in 1..(L - c) : k1.snd_buf[i] = k.snd_buf[c + i]
    BY HeaderInv
  <1>3. k1.snd_wnd = k.snd_wnd
    BY DEF InputHeader, shrink_buf, parse_una, KCP
  <1> HIDE DEF k1
  <1>4. /\ k.snd_una \in Nat /\ c \in Nat /\ L \in Nat /\ c <= L
        /\ k.snd_buf \in Seq(SndSeg) /\ k1.snd_buf \in Seq(SndSeg)
    BY <1>1, KcpFields
  <1>5. ASSUME NEW j \in DOMAIN k1.snd_buf PROVE Inherits(k, k1, j)
    <2>1. j \in 1..(L - c)
      BY <1>2, <1>4, <1>5
    <2>2. c + j \in DOMAIN k.snd_buf
      BY <1>4, <2>1
    <2> QED
      BY <1>2, <2>1, <2>2 DEF Inherits
  <1>6. k.snd_una <= k1.snd_una
    BY <1>2, <1>4
  <1> QED
    BY <1>1, <1>2, <1>3, <1>5, <1>6 DEF SndStep, SameWnd, k1

(***************************************************************************)
(* parse_ack marks a segment and takes no mark away.                       *)
(***************************************************************************)
LEMMA AckSummary ==
    ASSUME NEW k, NEW k1 \in KCP, NEW sn \in Nat, SndStep(k, k1)
    PROVE  LET k2 == parse_ack(k1, sn)
           IN  SndStep(k, k2) /\ SameRcv(k1, k2) /\ SameWnd(k1, k2)
  <1> DEFINE k2 == parse_ack(k1, sn)
             sb == [i \in DOMAIN k1.snd_buf |->
                      IF k1.snd_buf[i].sn = sn
                      THEN [k1.snd_buf[i] EXCEPT !.acked = TRUE, !.frag = Recycled]
                      ELSE k1.snd_buf[i]]
  <1>1. CASE sn < k1.snd_una \/ sn >= k1.snd_nxt
    <2>1. k2 = k1
      BY <1>1 DEF parse_ack
    <2> QED
      BY <2>1 DEF SameRcv, SameWnd
  <1>2. CASE ~(sn < k1.snd_una \/ sn >= k1.snd_nxt)
    <2>1. k2 = [k1 EXCEPT !.snd_buf = sb]
      BY <1>2 DEF parse_ack
    <2>2. /\ k2.snd_una = k1.snd_una /\ k2.snd_nxt = k1.snd_nxt /\ k2.snd_buf = sb
          /\ SameRcv(k1, k2) /\ SameWnd(k1, k2)
      <3> HIDE DEF k2, sb
      <3> QED
        BY <2>1 DEF KCP, SameRcv, SameWnd
    <2>3. k1.snd_buf \in Seq(SndSeg)
      BY KcpFields
    <2>4. \A j \in DOMAIN k1.snd_buf : k1.snd_buf[j] \in SndSeg
      BY <2>3
    <2>5. ASSUME NEW j \in DOMAIN k1.snd_buf
          PROVE  /\ sb[j].sn = k1.snd_buf[j].sn
                 /\ k1.snd_buf[j].acked => sb[j].acked
      BY <2>4, <2>5 DEF SndSeg
    <2>6. DOMAIN sb = DOMAIN k1.snd_buf
      OBVIOUS
    <2> HIDE DEF k2, sb
    <2>7. ASSUME NEW j \in DOMAIN k2.snd_buf PROVE Inherits(k, k2, j)
      <3>1. j \in DOMAIN k1.snd_buf
        BY <2>2, <2>6, <2>7
      <3>2. Inherits(k, k1, j)
        BY <3>1 DEF SndStep
      <3> QED
        BY <2>2, <2>5, <3>1, <3>2 DEF Inherits
    <2>8. SndStep(k, k2)
      BY <2>2, <2>7 DEF SndStep
    <2> QED
      BY <2>2, <2>8 DEF k2
  <1> QED
    BY <1>1, <1>2

(***************************************************************************)
(* The loop that moves what is ready from rcv_buf to rcv_queue fills the   *)
(* window at most, and leaves nothing behind that fits.                    *)
(***************************************************************************)
LEMMA MoveSummary ==
    ASSUME NEW k \in KCP, NEW n \in Nat, MoveStops(k, n),
           \A e \in k.rcv_buf : k.rcv_nxt <= e.sn
    PROVE  LET k2 == MoveReady(k, n)
           IN  /\ SameSnd(k, k2) /\ SameWnd(k, k2)
               /\ k2.rcv_nxt = k.rcv_nxt + n
               /\ \/ k2.rcv_queue = k.rcv_queue
                  \/ Len(k2.rcv_queue) <= k.rcv_wnd
               /\ k2.rcv_buf \subseteq k.rcv_buf
               /\ NotStranded(k2)
  <1> DEFINE k2 == MoveReady(k, n)
             new == [i \in 1..n |-> FragOf(k, k.rcv_nxt + i - 1)]
  <1>1. /\ k.rcv_nxt \in Nat /\ k.rcv_queue \in Seq(Frag) /\ Len(k.rcv_queue) \in Nat
        /\ k.rcv_wnd \in Nat /\ \A e \in k.rcv_buf : e.sn \in Nat
    BY KcpFields
  <1>2. /\ SameSnd(k, k2) /\ SameWnd(k, k2)
        /\ k2.rcv_nxt = k.rcv_nxt + n
        /\ k2.rcv_queue = k.rcv_queue \o new
        /\ k2.rcv_buf = {e \in k.rcv_buf : e.sn < k.rcv_nxt \/ e.sn >= k.rcv_nxt + n}
    BY DEF MoveReady, SameSnd, SameWnd, KCP
  <1>3. new \in Seq(Frag) /\ Len(new) = n
    <2>1. \A e \in k.rcv_buf : e.frag \in Frag
      BY DEF KCP, RcvSeg
    <2>2. \A i \in 1..n : FragOf(k, k.rcv_nxt + i - 1) \in Frag
      BY <2>1, MoveTypes
    <2>3. \A i \in 1..n : new[i] \in Frag
      BY <2>2
    <2> QED
      BY <2>3
  <1> HIDE DEF k2, new
  <1>4. Len(k2.rcv_queue) = Len(k.rcv_queue) + n
    <2>1. Len(k.rcv_queue \o new) = Len(k.rcv_queue) + Len(new)
      BY <1>1, <1>3, ConcatElements
    <2> QED
      BY <1>2, <1>3, <2>1
  <1>5. k2.rcv_queue = k.rcv_queue \/ Len(k2.rcv_queue) <= k.rcv_wnd
    <2>1. CASE n = 0
      <3>1. new = <<>>
        BY <1>3, <2>1
      <3> QED
        BY <1>1, <1>2, <3>1
    <2>2. CASE n > 0
      BY <1>4, <2>2 DEF MoveStops
    <2> QED
      BY <2>1, <2>2
  <1>6. NotStranded(k2)
    <2> SUFFICES ASSUME Has(k2, k2.rcv_nxt) PROVE Len(k2.rcv_queue) >= k2.rcv_wnd
      BY DEF NotStranded
    <2>1. Has(k, k.rcv_nxt + n)
      BY <1>2 DEF Has
    <2>2. ~ \E e \in k.rcv_buf : e.sn < k.rcv_nxt
      BY <1>1
    <2>3. Len(k.rcv_queue) + n >= k.rcv_wnd
      BY <2>1, <2>2 DEF MoveStops
    <2> QED
      BY <1>2, <1>4, <2>3 DEF SameWnd
  <1> QED
    BY <1>2, <1>5, <1>6 DEF k2
-----------------------------------------------------------------------------
(***************************************************************************)
(* The steps of an endpoint.                                               *)
(***************************************************************************)
KcpStep(k, k2) == SndStep(k, k2) /\ RcvStep(k, k2) /\ WndStep(k, k2)

LEMMA SameWndStep == \A k, k2 : SameWnd(k, k2) => WndStep(k, k2)
  BY DEF SameWnd, WndStep

(***************************************************************************)
(* Recv: the front of rcv_queue leaves, and rcv_buf refills it.            *)
(***************************************************************************)
LEMMA RecvSummary ==
    ASSUME NEW k \in KCP, NEW j \in 1..Len(k.rcv_queue), NEW n \in Nat, NEW flags,
           \A e \in k.rcv_buf : k.rcv_nxt <= e.sn,
           MoveStops([k EXCEPT !.rcv_queue = SubSeq(@, j + 1, Len(@))], n)
    PROVE  LET k1 == [k EXCEPT !.rcv_queue = SubSeq(@, j + 1, Len(@))]
           IN  KcpStep(k, [MoveReady(k1, n) EXCEPT !.probe = flags])
  <1> DEFINE k1 == [k EXCEPT !.rcv_queue = SubSeq(@, j + 1, Len(@))]
             k2 == MoveReady(k1, n)
             k3 == [k2 EXCEPT !.probe = flags]
  <1>1. /\ k.rcv_nxt \in Nat /\ k.rcv_queue \in Seq(Frag) /\ Len(k.rcv_queue) \in Nat
        /\ k.rcv_wnd \in Nat /\ \A e \in k.rcv_buf : e.sn \in Nat
    BY KcpFields
  <1>2. /\ SubSeq(k.rcv_queue, j + 1, Len(k.rcv_queue)) \in Seq(Frag)
        /\ Len(SubSeq(k.rcv_queue, j + 1, Len(k.rcv_queue))) = Len(k.rcv_queue) - j
    <2>1. j \in 0..Len(k.rcv_queue)
      BY <1>1
    <2> QED
      BY <1>1, <2>1, SubSeqElements
  <1>3. k1 \in KCP
    BY <1>2 DEF KCP
  <1>4. /\ SameSnd(k, k1) /\ SameWnd(k, k1) /\ k1.rcv_nxt = k.rcv_nxt
        /\ k1.rcv_buf = k.rcv_buf /\ Len(k1.rcv_queue) = Len(k.rcv_queue) - j
    BY <1>2 DEF KCP, SameSnd, SameWnd
  <1>m. MoveStops(k1, n)
    OBVIOUS
  <1> HIDE DEF k1
  <1>5. /\ SameSnd(k1, k2) /\ SameWnd(k1, k2) /\ k2.rcv_nxt = k1.rcv_nxt + n
        /\ k2.rcv_queue = k1.rcv_queue \/ Len(k2.rcv_queue) <= k1.rcv_wnd
        /\ k2.rcv_buf \subseteq k1.rcv_buf /\ NotStranded(k2)
    BY <1>3, <1>4, <1>m, MoveSummary
  <1>6. k2 \in KCP
    BY <1>3, <1>m, MoveTypes
  <1> HIDE DEF k2
  <1>7. /\ SameSnd(k2, k3) /\ SameWnd(k2, k3) /\ SameRcv(k2, k3)
    BY <1>6 DEF KCP, SameSnd, SameWnd, SameRcv
  <1> HIDE DEF k3
  <1>8. SndStep(k, k3)
    <2>1. SameSnd(k, k3)
      BY <1>4, <1>5, <1>7 DEF SameSnd
    <2> QED
      BY <2>1, SndStepRefl, SndStepSame
  <1>9. WndStep(k, k3)
    BY <1>4, <1>5, <1>7 DEF SameWnd, WndStep
  <1>10. RcvStep(k, k3)
    <2>1. k.rcv_nxt <= k3.rcv_nxt
      BY <1>1, <1>4, <1>5, <1>7 DEF SameRcv
    <2>2. Len(k3.rcv_queue) <= Len(k.rcv_queue) \/ Len(k3.rcv_queue) <= k.rcv_wnd
      <3>1. Len(k1.rcv_queue) <= Len(k.rcv_queue)
        BY <1>1, <1>4
      <3>2. k3.rcv_queue = k1.rcv_queue \/ Len(k3.rcv_queue) <= k1.rcv_wnd
        BY <1>5, <1>7 DEF SameRcv
      <3>3. k1.rcv_wnd = k.rcv_wnd
        BY <1>4 DEF SameWnd
      <3> QED
        BY <3>1, <3>2, <3>3
    <2>3. k3.rcv_buf \subseteq k.rcv_buf
      BY <1>4, <1>5, <1>7 DEF SameRcv
    <2>4. NotStranded(k3)
      BY <1>5, <1>7 DEF NotStranded, SameRcv, SameWnd, Has
    <2> QED
      BY <2>1, <2>2, <2>3, <2>4 DEF RcvStep
  <1> QED
    BY <1>8, <1>9, <1>10 DEF KcpStep, k1, k2, k3

(***************************************************************************)
(* The rest of Input on a data segment, once its header is done: k is the  *)
(* state before the header, k1 the state after it.                         *)
(***************************************************************************)
LEMMA PushSummary ==
    ASSUME NEW k \in KCP, NEW k1 \in KCP, NEW s \in Wire, NEW n \in Nat,
           SndStep(k, k1), SameRcv(k, k1), SameWnd(k, k1),
           \A e \in k1.rcv_buf : k1.rcv_nxt <= e.sn,
           InWindow(k1, s.sn),
           MoveStops(RcvBufInsert(ack_push(k1, s.sn), s), n)
    PROVE  KcpStep(k, MoveReady(RcvBufInsert(ack_push(k1, s.sn), s), n))
  <1> DEFINE k2 == ack_push(k1, s.sn)
             k3 == RcvBufInsert(k2, s)
             k4 == MoveReady(k3, n)
             e0 == [sn |-> s.sn, frag |-> s.frag]
  <1>1. /\ k.rcv_nxt \in Nat /\ k1.rcv_nxt \in Nat /\ k.rcv_wnd \in Nat /\ k1.rcv_wnd \in Nat
        /\ Len(k.rcv_queue) \in Nat /\ s.sn \in Nat
    <2>1. s.sn \in Nat
      BY DEF Wire
    <2> QED
      BY <2>1, KcpFields
  <1>2. \A x \in KCP : 0 \in 0..Len(x.snd_buf)
    BY KcpFields
  <1>3. k2 \in KCP
    BY <1>2, InputTypes
  <1>4. SameSnd(k1, k2) /\ SameWnd(k1, k2) /\ SameRcv(k1, k2)
    BY DEF ack_push, SameSnd, SameWnd, SameRcv, KCP
  <1> HIDE DEF k2
  <1>5. k3 \in KCP
    BY <1>2, <1>3, InputTypes
  <1>6. /\ SameSnd(k2, k3) /\ SameWnd(k2, k3) /\ k3.rcv_nxt = k2.rcv_nxt
        /\ k3.rcv_queue = k2.rcv_queue /\ k3.rcv_buf \subseteq k2.rcv_buf \cup {e0}
    BY <1>3 DEF RcvBufInsert, SameSnd, SameWnd, KCP
  <1>m. MoveStops(k3, n)
    BY DEF k2
  <1> HIDE DEF k3
  <1>7. /\ k3.rcv_nxt = k.rcv_nxt /\ k3.rcv_queue = k.rcv_queue /\ k3.rcv_wnd = k.rcv_wnd
        /\ k1.rcv_nxt = k.rcv_nxt /\ k1.rcv_wnd = k.rcv_wnd
        /\ k3.rcv_buf \subseteq k.rcv_buf \cup {e0}
        /\ k1.rcv_buf = k.rcv_buf
    BY <1>4, <1>6 DEF SameRcv, SameWnd
  <1>8. e0.sn = s.sn /\ k.rcv_nxt <= e0.sn /\ e0.sn < k.rcv_nxt + k.rcv_wnd
    BY <1>7 DEF InWindow
  <1> HIDE DEF e0
  <1>9. \A e \in k3.rcv_buf : k3.rcv_nxt <= e.sn
    BY <1>7, <1>8
  <1>10. /\ SameSnd(k3, k4) /\ SameWnd(k3, k4) /\ k4.rcv_nxt = k3.rcv_nxt + n
         /\ k4.rcv_queue = k3.rcv_queue \/ Len(k4.rcv_queue) <= k3.rcv_wnd
         /\ k4.rcv_buf \subseteq k3.rcv_buf /\ NotStranded(k4)
    BY <1>5, <1>9, <1>m, MoveSummary
  <1> HIDE DEF k4
  <1>11. SndStep(k, k4)
    <2>1. SameSnd(k1, k4)
      BY <1>4, <1>6, <1>10 DEF SameSnd
    <2> QED
      BY <2>1, SndStepSame
  <1>12. WndStep(k, k4)
    BY <1>4, <1>6, <1>10 DEF SameWnd, WndStep
  <1>13. RcvStep(k, k4)
    <2>1. k.rcv_nxt <= k4.rcv_nxt
      BY <1>1, <1>7, <1>10
    <2>2. Len(k4.rcv_queue) <= Len(k.rcv_queue) \/ Len(k4.rcv_queue) <= k.rcv_wnd
      BY <1>1, <1>7, <1>10
    <2>3. \A e \in k4.rcv_buf : e \in k.rcv_buf \/ e.sn < k.rcv_nxt + k.rcv_wnd
      BY <1>7, <1>8, <1>10
    <2> QED
      BY <1>10, <2>1, <2>2, <2>3 DEF RcvStep
  <1> QED
    BY <1>11, <1>12, <1>13 DEF KcpStep, k2, k3, k4
(***************************************************************************)
(* Every step of the system is such a step of every endpoint.              *)
(***************************************************************************)
LEMMA StepSummary ==
    ASSUME TypeOK, TypeOK', LinkInv, [Next]_vars, NEW q \in Peers
    PROVE  KcpStep(kcp[q], kcp'[q])
  <1>q. kcp[q] \in KCP /\ kcp'[q] \in KCP
    BY DEF TypeOK
  <1>s. ASSUME kcp'[q] = kcp[q] PROVE KcpStep(kcp[q], kcp'[q])
    <2>1. SameRcv(kcp[q], kcp[q]) /\ SameWnd(kcp[q], kcp[q])
      BY DEF SameRcv, SameWnd
    <2> QED
      BY <1>q, <1>s, <2>1, SndStepRefl, RcvStepSame, SameWndStep DEF KcpStep
  <1>u. CASE UNCHANGED vars
    BY <1>s, <1>u DEF vars
  <1> SUFFICES ASSUME Next PROVE KcpStep(kcp[q], kcp'[q])
    BY <1>u
  <1>p. PICK p \in Peers : \/ User(p)
                           \/ \E t \in Timings(kcp[p]) : Update(p, t)
                           \/ Input(p) \/ Deliver(p) \/ Lose(p)
    BY DEF Next
  <1>f. kcp \in [Peers -> KCP]
    BY DEF TypeOK
  <1>o. \/ kcp' = kcp
        \/ \E k2 : kcp' = [kcp EXCEPT ![p] = k2]
    BY <1>p DEF User, Send, Recv, WndSize, Update, flush, Input, InputAck, InputPush,
                InputWask, InputWins, FinishInput, InputReject, Deliver, Lose
  <1>n. CASE q # p
    <2>1. kcp'[q] = kcp[q]
      BY <1>f, <1>o, <1>n
    <2> QED
      BY <2>1, <1>s
  <1> SUFFICES ASSUME q = p PROVE KcpStep(kcp[p], kcp'[p])
    BY <1>n
  <1> DEFINE k == kcp[p]
             o == Other(p)
  <1>k. /\ k \in KCP /\ o \in Peers /\ kcp[o] \in KCP /\ inp[p].segs \in SUBSET Wire
        /\ inp[p].reg \in BOOLEAN /\ inp[p].full \in BOOLEAN
        /\ written[p] \in Seq(Frag)
    BY <1>p, OtherPeer DEF TypeOK
  <1>l. /\ SndInv(k, written[p]) /\ AckInv(k, kcp[o])
        /\ \A e \in k.rcv_buf : k.rcv_nxt <= e.sn
    <2>1. RcvInv(k, written[o], read[p])
      BY <1>p DEF LinkInv
    <2> QED
      BY <1>p, <2>1 DEF LinkInv, RcvInv
  <1>2. \A k2 : kcp' = [kcp EXCEPT ![p] = k2] => kcp'[p] = k2
    BY <1>f
  <1> SUFFICES KcpStep(k, kcp'[p])
    OBVIOUS
  <1> HIDE DEF k, o
  <1>3. ASSUME NEW c \in FragCounts, Send(p, c) PROVE KcpStep(k, kcp'[p])
    <2>1. PICK x : kcp'[p] = [k EXCEPT !.snd_queue = x]
      BY <1>3, <1>f DEF Send, k
    <2>2. SameRcv(k, kcp'[p]) /\ SameWnd(k, kcp'[p])
          /\ kcp'[p].snd_una = k.snd_una /\ kcp'[p].snd_nxt = k.snd_nxt
          /\ kcp'[p].snd_buf = k.snd_buf
      BY <1>k, <2>1 DEF KCP, SameRcv, SameWnd
    <2>3. SndStep(k, kcp'[p])
      BY <1>k, <2>2, SndStepRefl DEF SndStep, Inherits
    <2> QED
      BY <1>k, <1>q, <2>2, <2>3, RcvStepSame, SameWndStep DEF KcpStep
  <1>4. CASE Recv(p)
    <2>1. PICK j \in 1..Len(k.rcv_queue) :
            LET k1 == [k EXCEPT !.rcv_queue = SubSeq(@, j + 1, Len(@))]
            IN  \E n \in 0..Cardinality(k.rcv_buf) :
                  LET k2 == MoveReady(k1, n)
                      tell == Len(k.rcv_queue) >= k.rcv_wnd /\ Len(k2.rcv_queue) < k2.rcv_wnd
                  IN  /\ MoveStops(k1, n)
                      /\ kcp' = [kcp EXCEPT ![p] = [k2 EXCEPT !.probe =
                            IF tell THEN @ \cup {"ASK_TELL"} ELSE @]]
      BY <1>4 DEF Recv, k
    <2> DEFINE k1 == [k EXCEPT !.rcv_queue = SubSeq(@, j + 1, Len(@))]
    <2>2. PICK n \in 0..Cardinality(k.rcv_buf), tell \in BOOLEAN :
             /\ MoveStops(k1, n)
             /\ kcp' = [kcp EXCEPT ![p] = [MoveReady(k1, n) EXCEPT !.probe =
                           IF tell THEN @ \cup {"ASK_TELL"} ELSE @]]
      BY <2>1
    <2>3. n \in Nat /\ MoveStops(k1, n)
      BY <2>2
    <2> DEFINE flags == IF tell THEN MoveReady(k1, n).probe \cup {"ASK_TELL"}
                        ELSE MoveReady(k1, n).probe
    <2>g. kcp'[p] = [MoveReady(k1, n) EXCEPT !.probe = flags]
      BY <1>2, <2>2, Zenon
    <2> HIDE DEF flags
    <2>4. KcpStep(k, [MoveReady(k1, n) EXCEPT !.probe = flags])
      BY <1>k, <1>l, <2>3, RecvSummary, Zenon
    <2> QED
      BY <2>g, <2>4
  <1>5. ASSUME NEW sw \in SndWnds, NEW rw \in RcvWnds, WndSize(p, sw, rw)
        PROVE  KcpStep(k, kcp'[p])
    <2>1. kcp'[p] = [k EXCEPT !.snd_wnd = sw, !.rcv_wnd = rw]
      BY <1>5, <1>f DEF WndSize, k
    <2>2. SameSnd(k, kcp'[p]) /\ SameRcv(k, kcp'[p]) /\ WndStep(k, kcp'[p])
      BY <1>k, <2>1 DEF KCP, SameSnd, SameRcv, WndStep
    <2>3. SndStep(k, kcp'[p])
      BY <1>k, <2>2, SndStepRefl, SndStepSame
    <2> QED
      BY <1>k, <1>q, <2>2, <2>3, RcvStepSame DEF KcpStep
  <1>6. ASSUME NEW t \in Timings(k), NEW full \in BOOLEAN, flush(p, k, full, t)
        PROVE  KcpStep(k, kcp'[p])
    <2>1. kcp'[p] = Flushed(k, full, t)
      BY <1>2, <1>6 DEF flush
    <2>2. SndStep(k, kcp'[p]) /\ SameRcv(k, kcp'[p]) /\ SameWnd(k, kcp'[p])
      BY <1>k, <2>1, FlushSummary
    <2> QED
      BY <1>k, <1>q, <2>2, RcvStepSame, SameWndStep DEF KcpStep
  <1>7. CASE \E t \in Timings(kcp[p]) : Update(p, t)
    BY <1>6, <1>7 DEF Update, k
  <1>8. ASSUME NEW s \in FirstSegs(inp[p].segs), NEW c \in 0..Len(k.snd_buf),
               UnaDrops(k, s.una, c)
        PROVE  LET k1 == InputHeader(k, s, inp[p].reg, c)
               IN  /\ s \in Wire /\ s.sn \in Nat
                   /\ k1 \in KCP /\ SndStep(k, k1) /\ SameRcv(k, k1) /\ SameWnd(k, k1)
    <2>1. s \in inp[p].segs
      BY DEF FirstSegs
    <2>2. s \in Wire /\ s \in SegsTo(p)
      BY <1>k, <2>1 DEF SegsTo
    <2>3. s.una <= kcp[o].rcv_nxt
      BY <1>p, <2>2 DEF LinkInv, SegInv, o
    <2>4. s.sn \in Nat
      BY <2>2 DEF Wire
    <2> QED
      BY <1>8, <1>k, <1>l, <2>2, <2>3, <2>4, HeaderSummary
  <1>9. CASE InputAck(p)
    <2>1. PICK s \in FirstSegs(inp[p].segs), c \in 0..Len(k.snd_buf) :
             /\ UnaDrops(k, s.una, c)
             /\ kcp' = [kcp EXCEPT ![p] =
                           parse_ack(InputHeader(k, s, inp[p].reg, c), s.sn)]
      BY <1>9 DEF InputAck, k
    <2> DEFINE k1 == InputHeader(k, s, inp[p].reg, c)
    <2>2. s.sn \in Nat /\ k1 \in KCP /\ SndStep(k, k1) /\ SameRcv(k, k1) /\ SameWnd(k, k1)
      BY <1>8, <2>1
    <2>3. kcp'[p] = parse_ack(k1, s.sn)
      BY <1>2, <2>1
    <2> HIDE DEF k1
    <2>4. SndStep(k, kcp'[p]) /\ SameRcv(k1, kcp'[p]) /\ SameWnd(k1, kcp'[p])
      BY <2>2, <2>3, AckSummary
    <2>5. SameRcv(k, kcp'[p]) /\ SameWnd(k, kcp'[p])
      BY <2>2, <2>4 DEF SameRcv, SameWnd
    <2> QED
      BY <1>k, <1>q, <2>4, <2>5, RcvStepSame, SameWndStep DEF KcpStep
  <1>10. ASSUME NEW k1 \in KCP, SndStep(k, k1), SameRcv(k, k1), SameWnd(k, k1),
                SameSnd(k1, kcp'[p]), SameRcv(k1, kcp'[p]), SameWnd(k1, kcp'[p])
         PROVE  KcpStep(k, kcp'[p])
    <2>1. SameRcv(k, kcp'[p]) /\ SameWnd(k, kcp'[p])
      BY <1>10 DEF SameRcv, SameWnd
    <2>2. SndStep(k, kcp'[p])
      BY <1>10, SndStepSame
    <2> QED
      BY <1>k, <1>q, <2>1, <2>2, RcvStepSame, SameWndStep DEF KcpStep
  <1>11. CASE InputPush(p)
    <2>1. PICK s \in FirstSegs(inp[p].segs), c \in 0..Len(k.snd_buf) :
            LET k1 == InputHeader(k, s, inp[p].reg, c)
                k2 == ack_push(k1, s.sn)
                k3 == RcvBufInsert(k2, s)
            IN  /\ UnaDrops(k, s.una, c)
                /\ \/ kcp' = [kcp EXCEPT ![p] = k1]
                   \/ kcp' = [kcp EXCEPT ![p] = k2]
                   \/ /\ InWindow(k1, s.sn)
                      /\ \E n \in 0..Cardinality(k3.rcv_buf) :
                           /\ MoveStops(k3, n)
                           /\ kcp' = [kcp EXCEPT ![p] = MoveReady(k3, n)]
      BY <1>11 DEF InputPush, k
    <2> DEFINE k1 == InputHeader(k, s, inp[p].reg, c)
               k2 == ack_push(k1, s.sn)
               k3 == RcvBufInsert(k2, s)
    <2>2. s \in Wire /\ k1 \in KCP /\ SndStep(k, k1) /\ SameRcv(k, k1) /\ SameWnd(k, k1)
      BY <1>8, <2>1
    <2>3. \/ kcp'[p] = k1
          \/ kcp'[p] = k2
          \/ /\ InWindow(k1, s.sn)
             /\ \E n \in 0..Cardinality(k3.rcv_buf) :
                  MoveStops(k3, n) /\ kcp'[p] = MoveReady(k3, n)
      BY <1>2, <2>1
    <2> HIDE DEF k1
    <2>4. CASE kcp'[p] = k1
      BY <1>10, <2>2, <2>4 DEF SameSnd, SameRcv, SameWnd
    <2>5. CASE kcp'[p] = k2
      <3>1. SameSnd(k1, k2) /\ SameRcv(k1, k2) /\ SameWnd(k1, k2)
        BY <2>2 DEF ack_push, SameSnd, SameRcv, SameWnd, KCP
      <3> QED
        BY <1>10, <2>2, <2>5, <3>1
    <2>6. ASSUME NEW n \in 0..Cardinality(k3.rcv_buf), InWindow(k1, s.sn),
                 MoveStops(k3, n), kcp'[p] = MoveReady(k3, n)
          PROVE  KcpStep(k, kcp'[p])
      <3>1. n \in Nat
        OBVIOUS
      <3>2. \A e \in k1.rcv_buf : k1.rcv_nxt <= e.sn
        BY <1>l, <2>2 DEF SameRcv
      <3> QED
        BY <1>k, <2>2, <2>6, <3>1, <3>2, PushSummary
    <2> QED
      BY <2>3, <2>4, <2>5, <2>6
  <1>12. CASE InputWask(p)
    <2>1. PICK s \in FirstSegs(inp[p].segs), c \in 0..Len(k.snd_buf) :
             /\ UnaDrops(k, s.una, c)
             /\ kcp' = [kcp EXCEPT ![p] = [InputHeader(k, s, inp[p].reg, c)
                           EXCEPT !.probe = @ \cup {"ASK_TELL"}]]
      BY <1>12 DEF InputWask, k
    <2> DEFINE k1 == InputHeader(k, s, inp[p].reg, c)
    <2>2. k1 \in KCP /\ SndStep(k, k1) /\ SameRcv(k, k1) /\ SameWnd(k, k1)
      BY <1>8, <2>1
    <2>3. kcp'[p] = [k1 EXCEPT !.probe = @ \cup {"ASK_TELL"}]
      BY <1>2, <2>1
    <2> HIDE DEF k1
    <2>4. SameSnd(k1, kcp'[p]) /\ SameRcv(k1, kcp'[p]) /\ SameWnd(k1, kcp'[p])
      BY <2>2, <2>3 DEF SameSnd, SameRcv, SameWnd, KCP
    <2> QED
      BY <1>10, <2>2, <2>4
  <1>13. CASE InputWins(p)
    <2>1. PICK s \in FirstSegs(inp[p].segs), c \in 0..Len(k.snd_buf) :
             /\ UnaDrops(k, s.una, c)
             /\ kcp' = [kcp EXCEPT ![p] = InputHeader(k, s, inp[p].reg, c)]
      BY <1>13 DEF InputWins, k
    <2> DEFINE k1 == InputHeader(k, s, inp[p].reg, c)
    <2>2. k1 \in KCP /\ SndStep(k, k1) /\ SameRcv(k, k1) /\ SameWnd(k, k1)
      BY <1>8, <2>1
    <2>3. kcp'[p] = k1
      BY <1>2, <2>1
    <2> HIDE DEF k1
    <2> QED
      BY <1>10, <2>2, <2>3 DEF SameSnd, SameRcv, SameWnd
  <1>14. CASE FinishInput(p)
    <2>1. \/ kcp' = kcp
          \/ \E t \in Timings(k) : flush(p, k, inp[p].full, t)
      BY <1>14 DEF FinishInput, k
    <2>2. CASE kcp' = kcp
      BY <1>s, <2>2 DEF k
    <2> QED
      BY <1>6, <1>k, <2>1, <2>2
  <1>15. CASE InputReject(p) \/ Deliver(p) \/ Lose(p)
    <2>1. kcp' = kcp
      BY <1>15 DEF InputReject, Deliver, Lose
    <2> QED
      BY <1>s, <2>1 DEF k
  <1> QED
    BY <1>p, <1>3, <1>4, <1>5, <1>7, <1>9, <1>11, <1>12, <1>13, <1>14, <1>15
    DEF User, Input, k
-----------------------------------------------------------------------------
(***************************************************************************)
(* The windows in force are among those ever configured: with it           *)
(* WindowRespected is inductive.                                           *)
(***************************************************************************)
SndWndSet == SndWnds \cup {SndWndInit}

RcvWndSet == RcvWnds \cup {RcvWndInit}

WindowsKnown == \A p \in Peers : /\ kcp[p].snd_wnd \in SndWndSet
                                 /\ kcp[p].rcv_wnd \in RcvWndSet

LEMMA WindowsNat == SndWndSet \subseteq Nat /\ RcvWndSet \subseteq Nat
  BY WindowAssumption DEF SndWndSet, RcvWndSet

LEMMA WindowStep ==
    ASSUME TypeOK, TypeOK', LinkInv, LinkInv', WindowsKnown, WindowRespected, [Next]_vars
    PROVE  WindowsKnown' /\ WindowRespected'
  <1> SUFFICES ASSUME NEW p \in Peers
               PROVE  /\ kcp'[p].snd_wnd \in SndWndSet /\ kcp'[p].rcv_wnd \in RcvWndSet
                      /\ \E w \in SndWndSet : kcp'[p].snd_nxt <= kcp'[p].snd_una + w
                      /\ \E w \in RcvWndSet : Len(kcp'[p].rcv_queue) <= w
                      /\ \A e \in kcp'[p].rcv_buf :
                           /\ kcp'[p].rcv_nxt <= e.sn
                           /\ \E w \in RcvWndSet : e.sn < kcp'[p].rcv_nxt + w
    BY DEF WindowsKnown, WindowRespected, SndWndSet, RcvWndSet
  <1> DEFINE k == kcp[p]
             k2 == kcp'[p]
  <1>1. k \in KCP /\ k2 \in KCP
    BY DEF TypeOK
  <1>2. /\ k.snd_una \in Nat /\ k.snd_nxt \in Nat /\ k.rcv_nxt \in Nat
        /\ Len(k.rcv_queue) \in Nat /\ \A e \in k.rcv_buf : e.sn \in Nat
    BY <1>1, KcpFields
  <1>3. /\ k2.snd_una \in Nat /\ k2.snd_nxt \in Nat /\ k2.rcv_nxt \in Nat
        /\ Len(k2.rcv_queue) \in Nat /\ \A e \in k2.rcv_buf : e.sn \in Nat
    BY <1>1, KcpFields
  <1>4. SndStep(k, k2) /\ RcvStep(k, k2) /\ WndStep(k, k2)
    BY StepSummary DEF KcpStep
  <1>5. k.snd_wnd \in SndWndSet /\ k.rcv_wnd \in RcvWndSet
    BY DEF WindowsKnown
  <1>6. /\ \E w \in SndWndSet : k.snd_nxt <= k.snd_una + w
        /\ \E w \in RcvWndSet : Len(k.rcv_queue) <= w
        /\ \A e \in k.rcv_buf : \E w \in RcvWndSet : e.sn < k.rcv_nxt + w
    BY DEF WindowRespected, SndWndSet, RcvWndSet
  <1>7. \A e \in k2.rcv_buf : k2.rcv_nxt <= e.sn
    <2>1. RcvInv(k2, written'[Other(p)], read'[p])
      BY DEF LinkInv
    <2> QED
      BY <2>1 DEF RcvInv
  <1> HIDE DEF k, k2
  <1>8. k2.snd_wnd \in SndWndSet /\ k2.rcv_wnd \in RcvWndSet
    BY <1>4, <1>5 DEF WndStep, SndWndSet, RcvWndSet
  <1>9. \E w \in SndWndSet : k2.snd_nxt <= k2.snd_una + w
    <2>1. CASE k2.snd_nxt = k.snd_nxt
      <3>1. PICK w \in SndWndSet : k.snd_nxt <= k.snd_una + w
        BY <1>6
      <3>2. w \in Nat /\ k.snd_una <= k2.snd_una
        BY <1>4, WindowsNat DEF SndStep
      <3>3. \A b, u, v, x \in Nat : b <= u + x /\ u <= v => b <= v + x
        OBVIOUS
      <3>4. k2.snd_nxt <= k2.snd_una + w
        BY <1>2, <1>3, <2>1, <3>1, <3>2, <3>3
      <3> QED
        BY <3>4
    <2>2. CASE k2.snd_nxt <= k2.snd_una + k.snd_wnd
      BY <1>5, <2>2
    <2> QED
      BY <1>4, <2>1, <2>2 DEF SndStep
  <1>10. \E w \in RcvWndSet : Len(k2.rcv_queue) <= w
    <2>1. CASE Len(k2.rcv_queue) <= Len(k.rcv_queue)
      <3>1. PICK w \in RcvWndSet : Len(k.rcv_queue) <= w
        BY <1>6
      <3>2. w \in Nat
        BY WindowsNat
      <3> QED
        BY <1>2, <1>3, <2>1, <3>1, <3>2
    <2>2. CASE Len(k2.rcv_queue) <= k.rcv_wnd
      BY <1>5, <2>2
    <2> QED
      BY <1>4, <2>1, <2>2 DEF RcvStep
  <1>11. ASSUME NEW e \in k2.rcv_buf PROVE \E w \in RcvWndSet : e.sn < k2.rcv_nxt + w
    <2>1. PICK w \in RcvWndSet : e.sn < k.rcv_nxt + w
      BY <1>4, <1>5, <1>6, <1>11 DEF RcvStep
    <2>2. w \in Nat /\ k.rcv_nxt <= k2.rcv_nxt /\ e.sn \in Nat
      BY <1>3, <1>4, <1>11, WindowsNat DEF RcvStep
    <2>3. e.sn < k2.rcv_nxt + w
      BY <1>2, <1>3, <2>1, <2>2
    <2> QED
      BY <2>3
  <1> QED
    BY <1>7, <1>8, <1>9, <1>10, <1>11 DEF k2

LEMMA WindowInit == Init => WindowsKnown /\ WindowRespected /\ NothingStranded
  <1> SUFFICES ASSUME Init, NEW p \in Peers
               PROVE  /\ kcp[p].snd_wnd = SndWndInit /\ kcp[p].rcv_wnd = RcvWndInit
                      /\ kcp[p].snd_nxt = 0 /\ kcp[p].snd_una = 0
                      /\ kcp[p].rcv_queue = <<>> /\ kcp[p].rcv_buf = {}
    <2>1. 0 <= 0 + SndWndInit /\ Len(<<>>) <= RcvWndInit
      BY WindowAssumption
    <2> QED
      BY <2>1 DEF WindowsKnown, WindowRespected, NothingStranded, SndWndSet, RcvWndSet, Has
  <1> QED
    BY DEF Init, NewKCP

(***************************************************************************)
(* In every state at most a send window of segments is in flight, rcv_queue*)
(* holds at most a receive window, and rcv_buf nothing that lies further   *)
(* ahead than that: whatever the peer sends, and whenever WndSize is       *)
(* called, the memory an endpoint gives to a connection is bounded by the  *)
(* largest windows ever configured.                                        *)
(***************************************************************************)
THEOREM WindowsBound == Spec => []WindowRespected
  <1>1. TypeOK /\ LinkInv /\ WindowsKnown /\ WindowRespected /\ [Next]_vars
            => WindowsKnown' /\ WindowRespected'
    BY TypeStep, LinkStep, WindowStep
  <1>2. Init => WindowsKnown /\ WindowRespected
    BY WindowInit
  <1> QED
    BY <1>1, <1>2, TypeCorrect, LinkAgreement, PTL DEF Spec

(***************************************************************************)
(* The receive window of an endpoint is not enlarged.                      *)
(***************************************************************************)
NoWiderWindow == \A p \in Peers : kcp'[p].rcv_wnd <= kcp[p].rcv_wnd

(***************************************************************************)
(* As long as SetWindowSize does not enlarge a receive window, no segment  *)
(* that could be in rcv_queue is left behind in rcv_buf: the loops of      *)
(* parse_data and Recv have moved all they could.  (After an enlargement   *)
(* the segments that now fit wait for the next segment or the next Recv.)  *)
(***************************************************************************)
THEOREM NoneLeftBehind == Spec /\ [][NoWiderWindow]_vars => []NothingStranded
  <1>1. ASSUME TypeOK, TypeOK', LinkInv, NothingStranded, [Next]_vars, [NoWiderWindow]_vars
        PROVE  NothingStranded'
    <2> SUFFICES ASSUME NEW p \in Peers PROVE NotStranded(kcp'[p])
      BY DEF NothingStranded, NotStranded
    <2>1. RcvStep(kcp[p], kcp'[p]) /\ NotStranded(kcp[p])
      BY <1>1, StepSummary DEF KcpStep, NothingStranded, NotStranded
    <2>2. kcp'[p].rcv_wnd <= kcp[p].rcv_wnd
      <3>1. kcp[p].rcv_wnd \in Nat
        BY <1>1, KcpFields DEF TypeOK
      <3> QED
        BY <1>1, <3>1 DEF NoWiderWindow, vars
    <2> QED
      BY <2>1, <2>2 DEF RcvStep
  <1>2. TypeOK /\ LinkInv /\ NothingStranded /\ [Next]_vars /\ [NoWiderWindow]_vars
            => NothingStranded'
    BY <1>1, TypeStep
  <1>3. Init => NothingStranded
    BY WindowInit
  <1> QED
    BY <1>2, <1>3, TypeCorrect, LinkAgreement, PTL DEF Spec

(***************************************************************************)
(* No datagram, however late or often it arrives, takes an endpoint back:  *)
(* snd_una and rcv_nxt never decrease, and what parse_ack has marked stays *)
(* marked until parse_una drops it.                                        *)
(***************************************************************************)
THEOREM NeverBack == Spec => NoRegress
  <1> DEFINE Forward ==
               \A p \in Peers :
                 /\ kcp'[p].snd_una >= kcp[p].snd_una
                 /\ kcp'[p].rcv_nxt >= kcp[p].rcv_nxt
                 /\ \A i \in DOMAIN kcp[p].snd_buf : kcp[p].snd_buf[i].acked =>
                      \A j \in DOMAIN kcp'[p].snd_buf :
                         kcp'[p].snd_buf[j].sn = kcp[p].snd_buf[i].sn
                             => kcp'[p].snd_buf[j].acked
  <1>1. ASSUME TypeOK, TypeOK', LinkInv, [Next]_vars PROVE Forward
    <2> SUFFICES ASSUME NEW p \in Peers
                 PROVE  /\ kcp'[p].snd_una >= kcp[p].snd_una
                        /\ kcp'[p].rcv_nxt >= kcp[p].rcv_nxt
                        /\ \A i \in DOMAIN kcp[p].snd_buf : kcp[p].snd_buf[i].acked =>
                             \A j \in DOMAIN kcp'[p].snd_buf :
                                kcp'[p].snd_buf[j].sn = kcp[p].snd_buf[i].sn
                                    => kcp'[p].snd_buf[j].acked
      OBVIOUS
    <2> DEFINE k == kcp[p]
               k2 == kcp'[p]
    <2>1. k \in KCP /\ k2 \in KCP
      BY <1>1 DEF TypeOK
    <2>2. SndStep(k, k2) /\ RcvStep(k, k2)
      BY <1>1, StepSummary DEF KcpStep
    <2>3. SndInv(k, written[p])
      BY <1>1 DEF LinkInv
    <2> HIDE DEF k, k2
    <2>4. /\ k.snd_una \in Nat /\ k.snd_nxt \in Nat /\ k.rcv_nxt \in Nat
          /\ DOMAIN k.snd_buf = 1..Len(k.snd_buf) /\ Len(k.snd_buf) \in Nat
      BY <2>1, KcpFields, SndBufElements
    <2>5. k2.snd_una \in Nat /\ k2.rcv_nxt \in Nat
      BY <2>1, KcpFields
    <2>6. ASSUME NEW i \in DOMAIN k.snd_buf, k.snd_buf[i].acked,
                 NEW j \in DOMAIN k2.snd_buf, k2.snd_buf[j].sn = k.snd_buf[i].sn
          PROVE  k2.snd_buf[j].acked
      <3>1. k.snd_buf[i].sn = k.snd_una + i - 1 /\ k.snd_nxt = k.snd_una + Len(k.snd_buf)
        BY <2>3, <2>4, <2>6 DEF SndInv
      <3>2. ~(k2.snd_buf[j].sn >= k.snd_nxt)
        BY <2>4, <2>6, <3>1
      <3>3. PICK m \in DOMAIN k.snd_buf : /\ k.snd_buf[m].sn = k2.snd_buf[j].sn
                                          /\ k.snd_buf[m].acked => k2.snd_buf[j].acked
        BY <2>2, <2>6, <3>2 DEF SndStep, Inherits
      <3>4. k.snd_buf[m].sn = k.snd_una + m - 1
        BY <2>3, <2>4, <3>3 DEF SndInv
      <3>5. m = i
        BY <2>4, <2>6, <3>1, <3>3, <3>4
      <3> QED
        BY <2>6, <3>3, <3>5
    <2>7. k2.snd_una >= k.snd_una /\ k2.rcv_nxt >= k.rcv_nxt
      BY <2>2, <2>4, <2>5 DEF SndStep, RcvStep
    <2> QED
      BY <2>6, <2>7 DEF k, k2
  <1>2. TypeOK /\ LinkInv /\ [Next]_vars => [Forward]_vars
    BY <1>1, TypeStep
  <1>3. NoRegress <=> [][Forward]_vars
    BY DEF NoRegress
  <1> HIDE DEF Forward
  <1> QED
    BY <1>2, <1>3, TypeCorrect, LinkAgreement, PTL DEF Spec
=============================================================================
