-------------------------- MODULE KcpTimersProofs --------------------------
(***************************************************************************)
(* Theorems about KcpTimers, for every value of its constants: every width *)
(* of the clock, every interval, RTO and probe limit.                      *)
(***************************************************************************)
EXTENDS KcpTimers, TLAPS, WellFoundedInduction

-----------------------------------------------------------------------------
(***************************************************************************)
(* Arithmetic of a clock that wraps.                                       *)
(***************************************************************************)
Times == 0..(Word - 1)

Half == Word \div 2

LEMMA WordHalf == Word \in Nat /\ Half \in Nat /\ Half > 0 /\ Word = 2 * Half
  BY WordAssumption DEF Half

LEMMA U32Value ==
    ASSUME NEW x \in Int
    PROVE  /\ U32(x) \in Times
           /\ 0 <= x /\ x < Word => U32(x) = x
           /\ Word <= x /\ x < 2 * Word => U32(x) = x - Word
           /\ -Word <= x /\ x < 0 => U32(x) = x + Word
  <1>1. Word \in Nat \ {0}
    BY WordAssumption
  <1>2. U32(x) \in Times
    BY <1>1 DEF U32, Times
  <1>3. 0 <= x /\ x < Word => x % Word = x
    BY <1>1
  <1>4. Word <= x /\ x < 2 * Word => x % Word = x - Word
    BY <1>1
  <1>5. -Word <= x /\ x < 0 => x % Word = x + Word
    BY <1>1
  <1> QED
    BY <1>2, <1>3, <1>4, <1>5 DEF U32

(***************************************************************************)
(* itimediff(a, b) is the only number between minus half a turn and half a *)
(* turn that differs from a - b by whole turns.                            *)
(***************************************************************************)
LEMMA DiffIs ==
    ASSUME NEW a \in Times, NEW b \in Times
    PROVE  /\ itimediff(a, b) \in Int
           /\ -Half <= itimediff(a, b) /\ itimediff(a, b) < Half
           /\ \/ itimediff(a, b) = a - b
              \/ itimediff(a, b) = a - b + Word
              \/ itimediff(a, b) = a - b - Word
  <1>1. a \in Int /\ b \in Int /\ a - b \in Int /\ -Word < a - b /\ a - b < Word
    BY WordHalf DEF Times
  <1>2. U32(a - b) = IF a - b >= 0 THEN a - b ELSE a - b + Word
    BY <1>1, WordHalf, U32Value
  <1>3. itimediff(a, b) = IF U32(a - b) < Half THEN U32(a - b) ELSE U32(a - b) - Word
    BY DEF itimediff, Half
  <1> QED
    BY <1>1, <1>2, <1>3, WordHalf

\* How far ahead of the clock reading n the reading x is.
Ahead(x, n) == itimediff(x, n)

(***************************************************************************)
(* A timer set at n for d ticks ends d ticks ahead of n.                   *)
(***************************************************************************)
LEMMA AheadOfSet ==
    ASSUME NEW n \in Times, NEW d \in Nat, d < Half
    PROVE  U32(n + d) \in Times /\ Ahead(U32(n + d), n) = d
  <1>1. n \in Int /\ n + d \in Int /\ 0 <= n + d /\ n + d < 2 * Word
    BY WordHalf DEF Times
  <1>2. U32(n + d) \in Times
    BY <1>1, U32Value
  <1>3. U32(n + d) = n + d \/ U32(n + d) = n + d - Word
    BY <1>1, WordHalf, U32Value
  <1>4. /\ itimediff(U32(n + d), n) \in Int
        /\ -Half <= itimediff(U32(n + d), n) /\ itimediff(U32(n + d), n) < Half
        /\ \/ itimediff(U32(n + d), n) = U32(n + d) - n
           \/ itimediff(U32(n + d), n) = U32(n + d) - n + Word
           \/ itimediff(U32(n + d), n) = U32(n + d) - n - Word
    BY <1>2, DiffIs
  <1> QED
    BY <1>1, <1>2, <1>3, <1>4, WordHalf DEF Ahead

(***************************************************************************)
(* One tick brings every reading one closer.                               *)
(***************************************************************************)
LEMMA AheadTick ==
    ASSUME NEW n \in Times, NEW x \in Times, Ahead(x, n) > -Half
    PROVE  U32(n + 1) \in Times /\ Ahead(x, U32(n + 1)) = Ahead(x, n) - 1
  <1>1. n \in Int /\ n + 1 \in Int /\ 0 <= n + 1 /\ n + 1 < 2 * Word /\ x \in Int
    BY WordHalf DEF Times
  <1>2. U32(n + 1) \in Times
    BY <1>1, U32Value
  <1>3. U32(n + 1) = n + 1 \/ U32(n + 1) = n + 1 - Word
    BY <1>1, WordHalf, U32Value
  <1>4. /\ itimediff(x, n) \in Int /\ -Half < itimediff(x, n) /\ itimediff(x, n) < Half
        /\ \/ itimediff(x, n) = x - n
           \/ itimediff(x, n) = x - n + Word
           \/ itimediff(x, n) = x - n - Word
    BY DiffIs, WordHalf DEF Ahead
  <1>5. /\ itimediff(x, U32(n + 1)) \in Int
        /\ -Half <= itimediff(x, U32(n + 1)) /\ itimediff(x, U32(n + 1)) < Half
        /\ \/ itimediff(x, U32(n + 1)) = x - U32(n + 1)
           \/ itimediff(x, U32(n + 1)) = x - U32(n + 1) + Word
           \/ itimediff(x, U32(n + 1)) = x - U32(n + 1) - Word
    BY <1>2, DiffIs
  <1> QED
    BY <1>1, <1>2, <1>3, <1>4, <1>5, WordHalf DEF Ahead

(***************************************************************************)
(* Readings less than half a turn apart compare as their distances do.     *)
(***************************************************************************)
LEMMA AheadDiff ==
    ASSUME NEW n \in Times, NEW x \in Times, NEW y \in Times,
           -Half <= Ahead(x, n) - Ahead(y, n), Ahead(x, n) - Ahead(y, n) < Half
    PROVE  itimediff(x, y) = Ahead(x, n) - Ahead(y, n)
  <1>1. n \in Int /\ x \in Int /\ y \in Int /\ Word \in Nat /\ Half \in Nat /\ Word = 2 * Half
    BY WordHalf DEF Times
  <1>2. PICK i \in {-1, 0, 1} : itimediff(x, n) = x - n + i * Word
    BY <1>1, DiffIs
  <1>3. PICK j \in {-1, 0, 1} : itimediff(y, n) = y - n + j * Word
    BY <1>1, DiffIs
  <1>4. PICK m \in {-1, 0, 1} : itimediff(x, y) = x - y + m * Word
    BY <1>1, DiffIs
  <1>5. -Half <= itimediff(x, y) /\ itimediff(x, y) < Half
    BY DiffIs
  <1>6. -Half <= x - y + (i - j) * Word /\ x - y + (i - j) * Word < Half
    BY <1>1, <1>2, <1>3 DEF Ahead
  <1>7. i - j = m
    BY <1>1, <1>4, <1>5, <1>6
  <1> QED
    BY <1>1, <1>2, <1>3, <1>4, <1>7 DEF Ahead

(***************************************************************************)
(* The comparisons flush makes: has a reading passed?                      *)
(***************************************************************************)
LEMMA AheadPassed ==
    ASSUME NEW n \in Times, NEW x \in Times, Ahead(x, n) > -Half
    PROVE  /\ Ahead(n, n) = 0
           /\ itimediff(n, x) = -Ahead(x, n)
           /\ Ahead(x, n) \in Int
  <1>1. n \in Int /\ x \in Int /\ Word \in Nat /\ Half \in Nat /\ Word = 2 * Half /\ Half > 0
    BY WordHalf DEF Times
  <1>2. itimediff(n, n) = 0
    BY <1>1, DiffIs
  <1>3. /\ itimediff(x, n) \in Int /\ -Half < itimediff(x, n) /\ itimediff(x, n) < Half
    BY <1>1, DiffIs DEF Ahead
  <1>4. -Half <= Ahead(n, n) - Ahead(x, n) /\ Ahead(n, n) - Ahead(x, n) < Half
    BY <1>1, <1>2, <1>3 DEF Ahead
  <1>5. itimediff(n, x) = Ahead(n, n) - Ahead(x, n)
    BY <1>4, AheadDiff
  <1> QED
    BY <1>1, <1>2, <1>3, <1>5 DEF Ahead
-----------------------------------------------------------------------------
(***************************************************************************)
(* The inductive invariant.  n is the clock and d the time of the next     *)
(* update.  The two properties compare d with the end of a timer; the      *)
(* invariant compares the distances of both from n, which do not wrap, and *)
(* adds that a timer whose RTO could back off beyond MaxRto has not ended. *)
(***************************************************************************)
Segment == [sent : BOOLEAN, rto : Nat, resendts : Times, ts : Times, fastack : Nat,
            acked : BOOLEAN, outside : BOOLEAN]

Sender == [snd_queue : Nat, snd_buf : Seq(Segment), rmt_wnd : Nat,
           cwnd : Nat, ssthresh : Nat, incr : Nat,
           probe_wait : Nat, ts_probe : Times,
           rx_rto : 1..IKCP_RTO_MAX, rx_minrto : Nat,
           nodelay : Int, fastresend : Int, nocwnd : Int]

SegInv(seg, n, d) ==
    seg.sent /\ ~seg.acked =>
        /\ 1 <= seg.rto /\ seg.rto <= MaxRto
        /\ Ahead(seg.resendts, n) <= seg.rto
        /\ Ahead(d, n) - Ahead(seg.resendts, n) <= IF seg.outside THEN interval ELSE 0
        /\ seg.rto > MaxRto - IKCP_RTO_MAX => Ahead(seg.resendts, n) > 0

ProbeInv(k, n, d) ==
    k.probe_wait # 0 =>
        /\ k.probe_wait \in IKCP_PROBE_INIT..IKCP_PROBE_LIMIT
        /\ Ahead(k.ts_probe, n) <= k.probe_wait
        /\ Ahead(d, n) - Ahead(k.ts_probe, n) < interval

BufInv(b, n, d) == \A i \in 1..Len(b) : SegInv(b[i], n, d)

SenderInv(k, n, d) == k \in Sender /\ BufInv(k.snd_buf, n, d) /\ ProbeInv(k, n, d)

ClockInv(n, d) == n \in Times /\ d \in Times /\ Ahead(d, n) \in 0..interval

TimerInv == ClockInv(now, due) /\ SenderInv(kcp, now, due)

-----------------------------------------------------------------------------
(***************************************************************************)
(* The constants.                                                          *)
(***************************************************************************)
LEMMA Sizes ==
    /\ IKCP_RTO_MAX \in Nat /\ IKCP_RTO_MAX >= 1 /\ IKCP_RTO_DEF \in 1..IKCP_RTO_MAX
    /\ IKCP_RTO_MIN \in Nat /\ IKCP_RTO_NDL \in Nat
    /\ IKCP_PROBE_INIT \in Nat /\ IKCP_PROBE_INIT >= 1 /\ IKCP_PROBE_LIMIT \in Nat
    /\ IKCP_PROBE_LIMIT >= IKCP_PROBE_INIT
    /\ interval \in Nat /\ interval >= 1 /\ MaxRto \in Nat /\ MaxRto >= 2 * IKCP_RTO_MAX
    /\ MaxRto + interval < Half /\ IKCP_PROBE_LIMIT + interval < Half
    /\ Half \in Nat /\ mss \in Nat /\ mss >= 1 /\ snd_wnd \in Nat /\ IKCP_THRESH_MIN \in Nat
  BY TimeAssumption, CountAssumption, WordHalf DEF Half

LEMMA SenderFields ==
    ASSUME NEW k \in Sender
    PROVE  /\ k.snd_queue \in Nat /\ k.rmt_wnd \in Nat /\ k.cwnd \in Nat
           /\ k.ssthresh \in Nat /\ k.incr \in Nat /\ k.probe_wait \in Nat
           /\ k.ts_probe \in Times /\ k.rx_rto \in 1..IKCP_RTO_MAX /\ k.rx_minrto \in Nat
           /\ k.nodelay \in Int /\ k.fastresend \in Int /\ k.nocwnd \in Int
           /\ k.snd_buf \in Seq(Segment) /\ Len(k.snd_buf) \in Nat
           /\ DOMAIN k.snd_buf = 1..Len(k.snd_buf)
           /\ \A i \in 1..Len(k.snd_buf) : k.snd_buf[i] \in Segment
  <1>1. k.snd_buf \in Seq(Segment)
    BY DEF Sender
  <1>2. /\ Len(k.snd_buf) \in Nat /\ DOMAIN k.snd_buf = 1..Len(k.snd_buf)
        /\ \A i \in 1..Len(k.snd_buf) : k.snd_buf[i] \in Segment
    BY <1>1
  <1> QED
    BY <1>1, <1>2 DEF Sender

LEMMA SegFields ==
    ASSUME NEW seg \in Segment
    PROVE  /\ seg.sent \in BOOLEAN /\ seg.acked \in BOOLEAN /\ seg.outside \in BOOLEAN
           /\ seg.rto \in Nat /\ seg.resendts \in Times /\ seg.ts \in Times
           /\ seg.fastack \in Nat
  BY DEF Segment

(***************************************************************************)
(* The distance to the end of a timer that keeps the invariant.            *)
(***************************************************************************)
LEMMA LiveAhead ==
    ASSUME NEW n, NEW d, ClockInv(n, d), NEW seg \in Segment, SegInv(seg, n, d),
           seg.sent, ~seg.acked
    PROVE  /\ Ahead(seg.resendts, n) \in Int /\ Ahead(seg.resendts, n) > -Half
           /\ Ahead(seg.resendts, n) >= -interval /\ Ahead(seg.resendts, n) <= MaxRto
           /\ Ahead(d, n) \in Int
  <1>1. seg.resendts \in Times /\ n \in Times /\ d \in Times /\ Ahead(d, n) \in 0..interval
        /\ seg.rto \in Nat
    BY SegFields DEF ClockInv
  <1>2. Ahead(seg.resendts, n) \in Int
    BY <1>1, DiffIs DEF Ahead
  <1>3. Ahead(d, n) - Ahead(seg.resendts, n) <= interval
    BY <1>1, <1>2, Sizes DEF SegInv
  <1>4. Ahead(seg.resendts, n) <= seg.rto /\ seg.rto <= MaxRto
    BY DEF SegInv
  <1> QED
    BY <1>1, <1>2, <1>3, <1>4, Sizes

LEMMA ProbeAhead ==
    ASSUME NEW n, NEW d, ClockInv(n, d), NEW k \in Sender, ProbeInv(k, n, d),
           k.probe_wait # 0
    PROVE  /\ Ahead(k.ts_probe, n) \in Int /\ Ahead(k.ts_probe, n) > -Half
           /\ Ahead(k.ts_probe, n) > -interval /\ Ahead(d, n) \in Int
           /\ Ahead(k.ts_probe, n) <= IKCP_PROBE_LIMIT
  <1>1. k.ts_probe \in Times /\ n \in Times /\ d \in Times /\ Ahead(d, n) \in 0..interval
        /\ k.probe_wait \in Nat
    BY SenderFields DEF ClockInv
  <1>2. Ahead(k.ts_probe, n) \in Int
    BY <1>1, DiffIs DEF Ahead
  <1>3. /\ Ahead(d, n) - Ahead(k.ts_probe, n) < interval
        /\ Ahead(k.ts_probe, n) <= k.probe_wait /\ k.probe_wait <= IKCP_PROBE_LIMIT
    BY Sizes DEF ProbeInv
  <1> QED
    BY <1>1, <1>2, <1>3, Sizes

-----------------------------------------------------------------------------
(***************************************************************************)
(* flush.                                                                  *)
(***************************************************************************)

(***************************************************************************)
(* The timer of a segment that is sent now ends rto from now.              *)
(***************************************************************************)
LEMMA Restarted ==
    ASSUME NEW n, NEW d, ClockInv(n, d), NEW seg \in Segment,
           NEW rto \in 1..MaxRto, NEW fa \in Nat
    PROVE  LET s2 == [seg EXCEPT !.sent = TRUE, !.rto = rto, !.resendts = U32(n + rto),
                                 !.ts = n, !.fastack = fa, !.outside = TRUE]
           IN  /\ s2 \in Segment /\ SegInv(s2, n, d)
               /\ s2.acked = seg.acked /\ s2.sent /\ Ahead(s2.resendts, n) > 0
  <1> DEFINE s2 == [seg EXCEPT !.sent = TRUE, !.rto = rto, !.resendts = U32(n + rto),
                               !.ts = n, !.fastack = fa, !.outside = TRUE]
  <1>1. rto \in Nat /\ rto >= 1 /\ rto <= MaxRto /\ rto < Half
    BY Sizes
  <1>2. n \in Times /\ Ahead(d, n) \in 0..interval
    BY DEF ClockInv
  <1>3. U32(n + rto) \in Times /\ Ahead(U32(n + rto), n) = rto
    BY <1>1, <1>2, AheadOfSet
  <1>4. s2 \in Segment
    BY <1>1, <1>2, <1>3 DEF Segment
  <1>5. /\ s2.sent /\ s2.acked = seg.acked /\ s2.rto = rto /\ s2.resendts = U32(n + rto)
        /\ s2.outside
    BY DEF Segment
  <1> HIDE DEF s2
  <1>6. SegInv(s2, n, d)
    BY <1>1, <1>2, <1>3, <1>5, Sizes DEF SegInv
  <1> QED
    BY <1>1, <1>3, <1>4, <1>5, <1>6 DEF s2

(***************************************************************************)
(* Phase 5 on one segment: it keeps the invariant, and unless it is        *)
(* acknowledged its timer runs afterwards.                                 *)
(***************************************************************************)
LEMMA TransmitGood ==
    ASSUME NEW k \in Sender, NEW seg \in Segment, NEW m, ClockInv(now, due),
           SegInv(seg, now, due)
    PROVE  LET s2 == Transmitted(k, seg, Reason(k, seg, m))
           IN  /\ s2 \in Segment /\ SegInv(s2, now, due)
               /\ ~s2.acked => s2.sent /\ Ahead(s2.resendts, now) > 0
  <1> DEFINE why == Reason(k, seg, m)
             s2 == Transmitted(k, seg, why)
             rto == IF why = "rto" THEN seg.rto + Backoff(k) ELSE k.rx_rto
             fa == CASE why = "initial" -> seg.fastack
                     [] why \in {"fast", "early"} -> AllOnes
                     [] why = "rto" -> 0
  <1>1. /\ seg.sent \in BOOLEAN /\ seg.acked \in BOOLEAN /\ seg.rto \in Nat
        /\ seg.resendts \in Times /\ seg.fastack \in Nat
    BY SegFields
  <1>2. k.rx_rto \in 1..IKCP_RTO_MAX /\ k.nodelay \in Int
    BY SenderFields
  <1>3. /\ why = "none" => seg.acked \/ seg.sent
        /\ why \in {"none", "initial", "fast", "early", "rto"}
        /\ why = "rto" => ~seg.acked /\ seg.sent /\ itimediff(now, seg.resendts) >= 0
        /\ why = "none" /\ ~seg.acked => seg.sent /\ ~(itimediff(now, seg.resendts) >= 0)
    BY <1>1 DEF Reason
  <1>4. ASSUME seg.sent, ~seg.acked
        PROVE  /\ Ahead(seg.resendts, now) \in Int
               /\ itimediff(now, seg.resendts) = -Ahead(seg.resendts, now)
    <2>1. Ahead(seg.resendts, now) \in Int /\ Ahead(seg.resendts, now) > -Half
      BY <1>4, LiveAhead
    <2> QED
      BY <1>1, <2>1, AheadPassed DEF ClockInv
  <1> HIDE DEF why
  <1>5. CASE why = "none"
    <2>1. s2 = seg
      BY <1>5 DEF Transmitted
    <2>2. ASSUME ~seg.acked PROVE seg.sent /\ Ahead(seg.resendts, now) > 0
      BY <1>3, <1>4, <1>5, <2>2
    <2> QED
      BY <2>1, <2>2 DEF why
  <1>6. CASE why # "none"
    <2>1. s2 = [seg EXCEPT !.sent = TRUE, !.rto = rto, !.resendts = U32(now + rto),
                           !.ts = now, !.fastack = fa, !.outside = TRUE]
      BY <1>6, Zenon DEF Transmitted
    <2>2. fa \in Nat
      BY <1>1, <1>3, <1>6, WordAssumption DEF AllOnes
    <2>3. rto \in 1..MaxRto
      <3>1. CASE why = "rto"
        <4>1. Ahead(seg.resendts, now) <= 0
          BY <1>3, <1>4, <3>1
        <4>2. 1 <= seg.rto /\ seg.rto <= MaxRto - IKCP_RTO_MAX
          <5>1. /\ 1 <= seg.rto
                /\ seg.rto > MaxRto - IKCP_RTO_MAX => Ahead(seg.resendts, now) > 0
            BY <1>3, <3>1 DEF SegInv
          <5>2. Ahead(seg.resendts, now) \in Int
            BY <1>3, <1>4, <3>1
          <5> QED
            BY <1>1, <4>1, <5>1, <5>2, Sizes
        <4>3. Backoff(k) \in 0..IKCP_RTO_MAX
          BY <1>2, Sizes DEF Backoff
        <4> QED
          BY <1>1, <3>1, <4>2, <4>3, Sizes
      <3>2. CASE why # "rto"
        BY <1>2, <3>2, Sizes
      <3> QED
        BY <3>1, <3>2
    <2> HIDE DEF s2, rto, fa
    <2>4. /\ s2 \in Segment /\ SegInv(s2, now, due) /\ s2.sent
          /\ Ahead(s2.resendts, now) > 0
      BY <2>1, <2>2, <2>3, Restarted
    <2> QED
      BY <2>4 DEF s2, why
  <1> QED
    BY <1>5, <1>6
(***************************************************************************)
(* The probe timer has been looked at: it is off, or runs.                 *)
(***************************************************************************)
ProbeRuns(k) == k.probe_wait # 0 => Ahead(k.ts_probe, now) > 0

LEMMA FlushProbeGood ==
    ASSUME NEW k, ClockInv(now, due), SenderInv(k, now, due)
    PROVE  SenderInv(FlushProbe(k), now, due) /\ ProbeRuns(FlushProbe(k))
  <1> DEFINE k2 == FlushProbe(k)
  <1>1. k \in Sender /\ BufInv(k.snd_buf, now, due) /\ ProbeInv(k, now, due)
    BY DEF SenderInv
  <1>2. /\ now \in Times /\ due \in Times /\ Ahead(due, now) \in 0..interval
        /\ k.probe_wait \in Nat /\ k.ts_probe \in Times /\ k.rmt_wnd \in Nat
    BY <1>1, SenderFields DEF ClockInv
  <1>3. ASSUME NEW w \in IKCP_PROBE_INIT..IKCP_PROBE_LIMIT,
               k2 = [k EXCEPT !.probe_wait = w, !.ts_probe = U32(now + w)]
        PROVE  SenderInv(k2, now, due) /\ ProbeRuns(k2)
    <2>1. w \in Nat /\ w >= 1 /\ w < Half
      BY Sizes
    <2>2. U32(now + w) \in Times /\ Ahead(U32(now + w), now) = w
      BY <1>2, <2>1, AheadOfSet
    <2>3. k2 \in Sender
      BY <1>1, <1>3, <2>1, <2>2 DEF Sender
    <2>4. k2.probe_wait = w /\ k2.ts_probe = U32(now + w) /\ k2.snd_buf = k.snd_buf
      BY <1>1, <1>3 DEF Sender
    <2> HIDE DEF k2
    <2> QED
      BY <1>1, <1>2, <2>1, <2>2, <2>3, <2>4, Sizes DEF SenderInv, ProbeInv, ProbeRuns
  <1>4. CASE k.rmt_wnd # 0
    <2>1. k2 = [k EXCEPT !.probe_wait = 0, !.ts_probe = 0]
      BY <1>4 DEF FlushProbe
    <2>2. 0 \in Times
      BY WordHalf DEF Times
    <2> HIDE DEF k2
    <2>3. k2 \in Sender /\ k2.probe_wait = 0 /\ k2.snd_buf = k.snd_buf
      <3>1. k2 \in Sender
        BY <1>1, <2>1, <2>2 DEF Sender
      <3>2. k2.probe_wait = 0 /\ k2.snd_buf = k.snd_buf
        BY <1>1, <2>1 DEF Sender
      <3> QED
        BY <3>1, <3>2
    <2>4. SenderInv(k2, now, due) /\ ProbeRuns(k2)
      BY <1>1, <2>3 DEF SenderInv, ProbeInv, ProbeRuns
    <2> QED
      BY <2>4 DEF k2
  <1>5. CASE k.rmt_wnd = 0 /\ k.probe_wait = 0
    <2>1. k2 = [k EXCEPT !.probe_wait = IKCP_PROBE_INIT,
                         !.ts_probe = U32(now + IKCP_PROBE_INIT)]
      BY <1>5 DEF FlushProbe
    <2>2. IKCP_PROBE_INIT \in IKCP_PROBE_INIT..IKCP_PROBE_LIMIT
      BY Sizes
    <2> HIDE DEF k2
    <2>3. SenderInv(k2, now, due) /\ ProbeRuns(k2)
      BY <1>3, <2>1, <2>2
    <2> QED
      BY <2>3 DEF k2
  <1>6. CASE k.rmt_wnd = 0 /\ k.probe_wait # 0
    <2>1. /\ Ahead(k.ts_probe, now) \in Int
          /\ itimediff(now, k.ts_probe) = -Ahead(k.ts_probe, now)
      <3>1. Ahead(k.ts_probe, now) \in Int /\ Ahead(k.ts_probe, now) > -Half
        BY <1>1, <1>6, ProbeAhead
      <3> QED
        BY <1>2, <3>1, AheadPassed
    <2>2. CASE itimediff(now, k.ts_probe) < 0
      <3>1. k2 = k
        BY <1>6, <2>2 DEF FlushProbe
      <3>2. ProbeRuns(k)
        BY <2>1, <2>2 DEF ProbeRuns
      <3> QED
        BY <3>1, <3>2
    <2>3. CASE ~(itimediff(now, k.ts_probe) < 0)
      <3> DEFINE w0 == Max0(k.probe_wait, IKCP_PROBE_INIT)
                 w == Min0(w0 + w0 \div 2, IKCP_PROBE_LIMIT)
      <3>1. k2 = [k EXCEPT !.probe_wait = w, !.ts_probe = U32(now + w)]
        BY <1>6, <2>3, Zenon DEF FlushProbe
      <3>2. w0 \in Nat /\ w0 >= IKCP_PROBE_INIT
        BY <1>2, Sizes DEF Max0
      <3> HIDE DEF w0
      <3>3. w \in IKCP_PROBE_INIT..IKCP_PROBE_LIMIT
        BY <3>2, Sizes DEF Min0
      <3> HIDE DEF w, k2
      <3>4. SenderInv(k2, now, due) /\ ProbeRuns(k2)
        BY <1>3, <3>1, <3>3
      <3> QED
        BY <3>4 DEF k2
    <2> QED
      BY <2>2, <2>3
  <1> QED
    BY <1>2, <1>4, <1>5, <1>6

(***************************************************************************)
(* Sequences of segments.                                                  *)
(***************************************************************************)
LEMMA SegSeq ==
    ASSUME NEW m \in Nat, NEW f, f = [i \in 1..m |-> f[i]],
           \A i \in 1..m : f[i] \in Segment
    PROVE  f \in Seq(Segment) /\ Len(f) = m
  OBVIOUS

LEMMA ConcatSegs ==
    ASSUME NEW a \in Seq(Segment), NEW b \in Seq(Segment)
    PROVE  /\ a \o b \in Seq(Segment) /\ Len(a \o b) = Len(a) + Len(b)
           /\ \A i \in 1..Len(a \o b) : (a \o b)[i] = IF i <= Len(a) THEN a[i] ELSE b[i - Len(a)]
  OBVIOUS

LEMMA RestOfSegs ==
    ASSUME NEW a \in Seq(Segment), NEW c \in 0..Len(a)
    PROVE  /\ SubSeq(a, c + 1, Len(a)) \in Seq(Segment)
           /\ Len(SubSeq(a, c + 1, Len(a))) = Len(a) - c
           /\ \A i \in 1..(Len(a) - c) : SubSeq(a, c + 1, Len(a))[i] = a[c + i]
  OBVIOUS

LEMMA NewSegGood == NewSeg \in Segment /\ \A n, d : SegInv(NewSeg, n, d)
  <1>1. 0 \in Times
    BY WordHalf DEF Times
  <1> QED
    BY <1>1 DEF NewSeg, Segment, SegInv

(***************************************************************************)
(* Phase 4 adds segments that have not been sent.                          *)
(***************************************************************************)
LEMMA WindowNat ==
    ASSUME NEW k \in Sender
    PROVE  Window(k) \in Nat /\ NewSegsCount(k) \in 0..k.snd_queue
  <1>1. /\ k.snd_queue \in Nat /\ k.rmt_wnd \in Nat /\ k.cwnd \in Nat
        /\ Len(k.snd_buf) \in Nat
    BY SenderFields
  <1>2. Window(k) \in Nat
    BY <1>1, Sizes DEF Window, Min0
  <1> QED
    BY <1>1, <1>2 DEF NewSegsCount, Min0, Max0

LEMMA FilledGood ==
    ASSUME NEW k, SenderInv(k, now, due)
    PROVE  /\ SenderInv(Filled(k), now, due)
           /\ ProbeRuns(k) => ProbeRuns(Filled(k))
  <1> DEFINE c == NewSegsCount(k)
             new == [i \in 1..c |-> NewSeg]
             b == k.snd_buf \o new
             k2 == Filled(k)
  <1>1. k \in Sender /\ BufInv(k.snd_buf, now, due) /\ ProbeInv(k, now, due)
    BY DEF SenderInv
  <1>2. c \in 0..k.snd_queue /\ k.snd_queue \in Nat /\ k.snd_buf \in Seq(Segment)
        /\ Len(k.snd_buf) \in Nat
    BY <1>1, WindowNat, SenderFields
  <1>3. k2 = [k EXCEPT !.snd_queue = @ - c, !.snd_buf = b]
    BY DEF Filled
  <1> HIDE DEF c
  <1>4. new \in Seq(Segment) /\ Len(new) = c /\ \A i \in 1..c : new[i] = NewSeg
    BY <1>2, NewSegGood
  <1> HIDE DEF new
  <1>5. /\ b \in Seq(Segment) /\ Len(b) = Len(k.snd_buf) + c
        /\ \A i \in 1..Len(b) : b[i] = IF i <= Len(k.snd_buf) THEN k.snd_buf[i]
                                       ELSE new[i - Len(k.snd_buf)]
    BY <1>2, <1>4, ConcatSegs
  <1> HIDE DEF b
  <1>6. ASSUME NEW i \in 1..Len(b)
        PROVE  b[i] = NewSeg \/ (i \in 1..Len(k.snd_buf) /\ b[i] = k.snd_buf[i])
    <2>1. i <= Len(k.snd_buf) => i \in 1..Len(k.snd_buf)
      BY <1>2, <1>5
    <2>2. ~(i <= Len(k.snd_buf)) => i - Len(k.snd_buf) \in 1..c
      BY <1>2, <1>5
    <2> QED
      BY <1>4, <1>5, <2>1, <2>2
  <1>7. BufInv(b, now, due)
    BY <1>1, <1>6, NewSegGood DEF BufInv
  <1>8. /\ k2 \in Sender /\ k2.snd_buf = b
        /\ k2.probe_wait = k.probe_wait /\ k2.ts_probe = k.ts_probe
    <2> DEFINE q == k.snd_queue - c
    <2>1. q \in Nat
      BY <1>2
    <2>2. k2 = [k EXCEPT !.snd_queue = q, !.snd_buf = b]
      BY <1>3
    <2> HIDE DEF q, k2
    <2>3. k2 \in Sender
      BY <1>1, <1>5, <2>1, <2>2 DEF Sender
    <2>4. k2.snd_buf = b /\ k2.probe_wait = k.probe_wait /\ k2.ts_probe = k.ts_probe
      BY <1>1, <2>2 DEF Sender
    <2> QED
      BY <2>3, <2>4
  <1> HIDE DEF k2
  <1>9. SenderInv(k2, now, due) /\ (ProbeRuns(k) => ProbeRuns(k2))
    BY <1>1, <1>7, <1>8 DEF SenderInv, ProbeInv, ProbeRuns
  <1> QED
    BY <1>9 DEF k2

(***************************************************************************)
(* Phase 5: every segment that is not acknowledged has a running timer     *)
(* afterwards.                                                             *)
(***************************************************************************)
TimersRun(k) == \A i \in 1..Len(k.snd_buf) :
                   ~k.snd_buf[i].acked => /\ k.snd_buf[i].sent
                                          /\ Ahead(k.snd_buf[i].resendts, now) > 0

LEMMA ResendGood ==
    ASSUME NEW k, NEW m, ClockInv(now, due), SenderInv(k, now, due)
    PROVE  /\ SenderInv(Resend(k, m), now, due) /\ TimersRun(Resend(k, m))
           /\ ProbeRuns(k) => ProbeRuns(Resend(k, m))
  <1> DEFINE L == Len(k.snd_buf)
             b == [i \in DOMAIN k.snd_buf |->
                     Transmitted(k, k.snd_buf[i], Reason(k, k.snd_buf[i], m))]
             k2 == Resend(k, m)
  <1>1. k \in Sender /\ BufInv(k.snd_buf, now, due) /\ ProbeInv(k, now, due)
    BY DEF SenderInv
  <1>2. /\ L \in Nat /\ DOMAIN k.snd_buf = 1..L
        /\ \A i \in 1..L : k.snd_buf[i] \in Segment
    BY <1>1, SenderFields
  <1>3. k2 = [k EXCEPT !.snd_buf = b]
    BY DEF Resend
  <1>4. ASSUME NEW i \in 1..L
        PROVE  /\ b[i] \in Segment /\ SegInv(b[i], now, due)
               /\ ~b[i].acked => b[i].sent /\ Ahead(b[i].resendts, now) > 0
    <2>1. SegInv(k.snd_buf[i], now, due) /\ k.snd_buf[i] \in Segment
      BY <1>1, <1>2, <1>4 DEF BufInv
    <2>2. b[i] = Transmitted(k, k.snd_buf[i], Reason(k, k.snd_buf[i], m))
      BY <1>2, <1>4
    <2> HIDE DEF b
    <2> QED
      BY <1>1, <2>1, <2>2, TransmitGood
  <1>5. b = [i \in 1..L |-> b[i]]
    BY <1>2
  <1> HIDE DEF b
  <1>6. b \in Seq(Segment) /\ Len(b) = L
    BY <1>2, <1>4, <1>5, SegSeq
  <1> HIDE DEF L
  <1>7. /\ k2 \in Sender /\ k2.snd_buf = b
        /\ k2.probe_wait = k.probe_wait /\ k2.ts_probe = k.ts_probe
    BY <1>1, <1>3, <1>6 DEF Sender
  <1> HIDE DEF k2
  <1>8. SenderInv(k2, now, due) /\ TimersRun(k2) /\ (ProbeRuns(k) => ProbeRuns(k2))
    BY <1>1, <1>4, <1>6, <1>7 DEF SenderInv, BufInv, ProbeInv, ProbeRuns, TimersRun
  <1> QED
    BY <1>8 DEF k2
(***************************************************************************)
(* The steps that touch no timer: k2 has the timers of k.                  *)
(***************************************************************************)
SameTimers(k, k2) == /\ k2 \in Sender /\ k2.snd_buf = k.snd_buf
                     /\ k2.probe_wait = k.probe_wait /\ k2.ts_probe = k.ts_probe

LEMMA SameTimersGood ==
    ASSUME NEW k, NEW k2, SameTimers(k, k2), SenderInv(k, now, due)
    PROVE  /\ SenderInv(k2, now, due)
           /\ TimersRun(k) => TimersRun(k2)
           /\ ProbeRuns(k) => ProbeRuns(k2)
  BY DEF SameTimers, SenderInv, ProbeInv, TimersRun, ProbeRuns

\* Congestion control assigns to these three fields only.
LEMMA CwndSet ==
    ASSUME NEW k \in Sender, NEW s \in Nat, NEW w \in Nat, NEW i \in Nat
    PROVE  SameTimers(k, [k EXCEPT !.ssthresh = s, !.cwnd = w, !.incr = i])
  <1> DEFINE k2 == [k EXCEPT !.ssthresh = s, !.cwnd = w, !.incr = i]
  <1>1. k2 \in Sender
    BY DEF Sender
  <1>2. k2.snd_buf = k.snd_buf /\ k2.probe_wait = k.probe_wait /\ k2.ts_probe = k.ts_probe
    BY DEF Sender
  <1> QED
    BY <1>1, <1>2 DEF SameTimers

LEMMA SameTimersTrans ==
    ASSUME NEW k1, NEW k2, NEW k3, SameTimers(k1, k2), SameTimers(k2, k3)
    PROVE  SameTimers(k1, k3)
  BY DEF SameTimers

LEMMA CongestionSame ==
    ASSUME NEW k \in Sender, NEW w \in Nat, NEW why
    PROVE  SameTimers(k, Congestion(k, w, why))
  <1> DEFINE half == Halved(Len(k.snd_buf))
             cw == U32(half + Resent(k))
             k1 == IF why \intersect {"fast", "early"} = {} THEN k
                   ELSE [k EXCEPT !.ssthresh = half, !.cwnd = cw, !.incr = U32(cw * mss)]
             k2 == IF "rto" \notin why THEN k1
                   ELSE [k1 EXCEPT !.ssthresh = Halved(w), !.cwnd = 1, !.incr = mss]
             k3 == [k2 EXCEPT !.cwnd = 1, !.incr = mss]
  <1>1. Congestion(k, w, why) \in {k, k2, k3}
    BY DEF Congestion
  <1>2. Len(k.snd_buf) \in Nat /\ k.fastresend \in Int
    BY SenderFields
  <1>3. \A x \in Nat : Halved(x) \in Nat
    BY Sizes DEF Halved, Max0
  <1>4. half \in Nat /\ half + Resent(k) \in Int
    <2>1. half \in Nat
      BY <1>2, <1>3
    <2>2. Resent(k) \in Int
      BY <1>2, WordHalf DEF Resent, AllOnes
    <2> HIDE DEF half
    <2> QED
      BY <2>1, <2>2
  <1>5. cw \in Nat
    <2>1. cw \in Times
      BY <1>4, U32Value
    <2> HIDE DEF cw
    <2> QED
      BY <2>1 DEF Times
  <1> HIDE DEF half, cw
  <1>6. U32(cw * mss) \in Nat
    <2>1. cw * mss \in Int
      BY <1>5, Sizes
    <2>2. U32(cw * mss) \in Times
      BY <2>1, U32Value
    <2> QED
      BY <2>2 DEF Times
  <1>7. SameTimers(k, k)
    BY DEF SameTimers
  <1>8. SameTimers(k, k1)
    BY <1>4, <1>5, <1>6, <1>7, CwndSet
  <1> HIDE DEF k1
  <1>9. SameTimers(k, k2)
    <2>1. k1 \in Sender
      BY <1>8 DEF SameTimers
    <2>2. Halved(w) \in Nat /\ 1 \in Nat /\ mss \in Nat
      BY <1>3, Sizes
    <2>3. SameTimers(k1, [k1 EXCEPT !.ssthresh = Halved(w), !.cwnd = 1, !.incr = mss])
      BY <2>1, <2>2, CwndSet
    <2> QED
      BY <1>8, <2>3, SameTimersTrans
  <1> HIDE DEF k2
  <1>10. SameTimers(k, k3)
    <2>1. k2 \in Sender
      BY <1>9 DEF SameTimers
    <2>2. k2.ssthresh \in Nat /\ 1 \in Nat /\ mss \in Nat
      BY <2>1, SenderFields, Sizes
    <2>3. k3 = [k2 EXCEPT !.ssthresh = k2.ssthresh, !.cwnd = 1, !.incr = mss]
      BY <2>1 DEF Sender
    <2>4. SameTimers(k2, k3)
      BY <2>1, <2>2, <2>3, CwndSet
    <2> QED
      BY <1>9, <2>4, SameTimersTrans
  <1> QED
    BY <1>1, <1>7, <1>9, <1>10

(***************************************************************************)
(* A flush keeps the invariant; after a full one all timers run.           *)
(***************************************************************************)
LEMMA FlushedGood ==
    ASSUME NEW k, NEW full \in BOOLEAN, ClockInv(now, due), SenderInv(k, now, due)
    PROVE  /\ SenderInv(Flushed(k, full), now, due)
           /\ full => TimersRun(Flushed(k, full))
           /\ ProbeRuns(Flushed(k, full))
  <1> DEFINE k1 == FlushProbe(k)
             n == NewSegsCount(k1)
             k2 == Filled(k1)
             k3 == Resend(k2, n)
  <1>1. SenderInv(k1, now, due) /\ ProbeRuns(k1)
    BY FlushProbeGood
  <1>2. Window(k1) \in Nat
    BY <1>1, WindowNat DEF SenderInv
  <1>3. SenderInv(k2, now, due) /\ ProbeRuns(k2)
    BY <1>1, FilledGood
  <1>4. SenderInv(k3, now, due) /\ ProbeRuns(k3) /\ TimersRun(k3)
    BY <1>3, ResendGood
  <1>5. Flushed(k, full) = IF full THEN Congestion(k3, Window(k1), Reasons(k2, n))
                           ELSE Congestion(k2, Window(k1), {})
    BY DEF Flushed
  <1> HIDE DEF k1, n, k2, k3
  <1>6. SameTimers(k3, Congestion(k3, Window(k1), Reasons(k2, n)))
    BY <1>2, <1>4, CongestionSame DEF SenderInv
  <1>7. SameTimers(k2, Congestion(k2, Window(k1), {}))
    BY <1>2, <1>3, CongestionSame DEF SenderInv
  <1>8. CASE full
    BY <1>4, <1>5, <1>6, <1>8, SameTimersGood
  <1>9. CASE ~full
    BY <1>3, <1>5, <1>7, <1>9, SameTimersGood
  <1> QED
    BY <1>8, <1>9
(***************************************************************************)
(* What flush returns is at least one tick, at most the interval, and no   *)
(* later than the end of any running timer.                                *)
(***************************************************************************)
LEMMA MinOfNat ==
    ASSUME NEW S, S \subseteq Nat, S # {}
    PROVE  Min(S) \in S /\ \A y \in S : Min(S) <= y
  <1>1. PICK x \in S : \A y \in S : ~(<<y, x>> \in OpToRel(<, Nat))
    BY NatLessThanWellFounded, WFMin, Zenon
  <1>2. ASSUME NEW y \in S PROVE x <= y
    <2>1. x \in Nat /\ y \in Nat
      OBVIOUS
    <2>2. ~(y < x)
      BY <1>1, <1>2, <2>1 DEF OpToRel
    <2> QED
      BY <2>1, <2>2
  <1>3. \E z \in S : \A y \in S : z <= y
    BY <1>2
  <1> QED
    BY <1>3, Zenon DEF Min

LEMMA NextUpdateIs ==
    ASSUME NEW k \in Sender, now \in Times
    PROVE  /\ NextUpdate(k) \in 1..interval
           /\ \A i \in 1..Len(k.snd_buf) :
                ~k.snd_buf[i].acked /\ Ahead(k.snd_buf[i].resendts, now) > 0
                    => NextUpdate(k) <= Ahead(k.snd_buf[i].resendts, now)
  <1> DEFINE live == {i \in DOMAIN k.snd_buf : ~k.snd_buf[i].acked}
             rto == {itimediff(k.snd_buf[i].resendts, now) : i \in live}
             S == {interval} \cup {r \in rto : r > 0}
  <1>1. NextUpdate(k) = Min(S)
    BY DEF NextUpdate
  <1>2. /\ DOMAIN k.snd_buf = 1..Len(k.snd_buf)
        /\ \A i \in 1..Len(k.snd_buf) : k.snd_buf[i] \in Segment
    BY SenderFields
  <1>3. \A i \in 1..Len(k.snd_buf) : itimediff(k.snd_buf[i].resendts, now) \in Int
    BY <1>2, SegFields, DiffIs
  <1>4. S \subseteq Nat /\ \A r \in S : r >= 1
    BY <1>2, <1>3, Sizes
  <1>5. interval \in S
    OBVIOUS
  <1>6. \A i \in 1..Len(k.snd_buf) :
          ~k.snd_buf[i].acked /\ itimediff(k.snd_buf[i].resendts, now) > 0
              => itimediff(k.snd_buf[i].resendts, now) \in S
    BY <1>2
  <1> HIDE DEF S
  <1>7. Min(S) \in S /\ \A y \in S : Min(S) <= y
    BY <1>4, <1>5, MinOfNat
  <1>8. Min(S) \in 1..interval
    <2>1. Min(S) \in Nat /\ Min(S) >= 1
      BY <1>4, <1>7
    <2>2. Min(S) <= interval
      BY <1>5, <1>7
    <2> QED
      BY <2>1, <2>2, Sizes
  <1> QED
    BY <1>1, <1>6, <1>7, <1>8 DEF Ahead

(***************************************************************************)
(* UDPSession.update: all timers run, and the next update comes before any *)
(* of them ends.                                                           *)
(***************************************************************************)
LEMMA UpdateGood ==
    ASSUME TimerInv, update
    PROVE  TimerInv'
  <1> DEFINE k == Flushed(kcp, TRUE)
             L == Len(k.snd_buf)
             b == [i \in DOMAIN k.snd_buf |-> [k.snd_buf[i] EXCEPT !.outside = FALSE]]
             u == NextUpdate(k)
  <1>1. ClockInv(now, due) /\ SenderInv(kcp, now, due)
    BY DEF TimerInv
  <1>2. kcp' = [k EXCEPT !.snd_buf = b] /\ due' = U32(now + u) /\ now' = now
    BY DEF update
  <1>3. SenderInv(k, now, due) /\ TimersRun(k) /\ ProbeRuns(k)
    BY <1>1, FlushedGood
  <1> HIDE DEF k
  <1>4. k \in Sender /\ BufInv(k.snd_buf, now, due) /\ ProbeInv(k, now, due) /\ now \in Times
    BY <1>1, <1>3 DEF SenderInv, ClockInv
  <1>5. /\ u \in 1..interval
        /\ \A i \in 1..L : ~k.snd_buf[i].acked /\ Ahead(k.snd_buf[i].resendts, now) > 0
                               => u <= Ahead(k.snd_buf[i].resendts, now)
    BY <1>4, NextUpdateIs
  <1> HIDE DEF u
  <1>6. due' \in Times /\ Ahead(due', now) = u
    <2>1. u \in Nat /\ u < Half
      BY <1>5, Sizes
    <2> QED
      BY <1>2, <1>4, <2>1, AheadOfSet
  <1>7. /\ L \in Nat /\ DOMAIN k.snd_buf = 1..L
        /\ \A i \in 1..L : k.snd_buf[i] \in Segment
    BY <1>4, SenderFields
  <1>8. ASSUME NEW i \in 1..L PROVE b[i] \in Segment /\ SegInv(b[i], now, due')
    <2> DEFINE seg == k.snd_buf[i]
    <2>1. seg \in Segment /\ SegInv(seg, now, due)
      BY <1>4, <1>7, <1>8 DEF BufInv
    <2>2. b[i] = [seg EXCEPT !.outside = FALSE]
      BY <1>7, <1>8
    <2> HIDE DEF b, seg
    <2>3. b[i] \in Segment
      BY <2>1, <2>2 DEF Segment
    <2>4. /\ b[i].sent = seg.sent /\ b[i].acked = seg.acked /\ b[i].rto = seg.rto
          /\ b[i].resendts = seg.resendts /\ b[i].outside = FALSE
      BY <2>1, <2>2 DEF Segment
    <2>5. ASSUME seg.sent, ~seg.acked
          PROVE  /\ 1 <= seg.rto /\ seg.rto <= MaxRto
                 /\ Ahead(seg.resendts, now) <= seg.rto
                 /\ Ahead(seg.resendts, now) > 0
                 /\ u - Ahead(seg.resendts, now) <= 0
      <3>1. Ahead(seg.resendts, now) > 0
        BY <1>3, <1>8, <2>5 DEF TimersRun, seg
      <3>2. u <= Ahead(seg.resendts, now)
        BY <1>5, <1>8, <2>5, <3>1 DEF seg
      <3>3. Ahead(seg.resendts, now) \in Int
        BY <1>1, <2>1, <2>5, LiveAhead
      <3>4. u - Ahead(seg.resendts, now) <= 0
        BY <1>5, <3>2, <3>3
      <3> QED
        BY <2>1, <2>5, <3>1, <3>4 DEF SegInv
    <2>6. SegInv(b[i], now, due')
      BY <1>6, <2>4, <2>5 DEF SegInv
    <2> QED
      BY <2>3, <2>6
  <1>9. b = [i \in 1..L |-> b[i]]
    BY <1>7
  <1> HIDE DEF b
  <1>10. b \in Seq(Segment) /\ Len(b) = L
    BY <1>7, <1>8, <1>9, SegSeq
  <1> HIDE DEF L
  <1>11. kcp' \in Sender
    BY <1>2, <1>4, <1>10 DEF Sender
  <1>12. /\ kcp'.snd_buf = b /\ kcp'.probe_wait = k.probe_wait
         /\ kcp'.ts_probe = k.ts_probe
    BY <1>2, <1>4 DEF Sender
  <1>13. ProbeInv(kcp', now, due')
    <2> SUFFICES ASSUME k.probe_wait # 0
                 PROVE  /\ k.probe_wait \in IKCP_PROBE_INIT..IKCP_PROBE_LIMIT
                        /\ Ahead(k.ts_probe, now) <= k.probe_wait
                        /\ u - Ahead(k.ts_probe, now) < interval
      BY <1>6, <1>12 DEF ProbeInv
    <2>1. Ahead(k.ts_probe, now) \in Int /\ Ahead(k.ts_probe, now) > 0
      BY <1>1, <1>3, <1>4, ProbeAhead DEF ProbeRuns
    <2>2. u - Ahead(k.ts_probe, now) < interval
      BY <1>5, <2>1, Sizes
    <2> QED
      BY <1>4, <2>2 DEF ProbeInv
  <1>14. BufInv(kcp'.snd_buf, now, due')
    BY <1>8, <1>10, <1>12 DEF BufInv
  <1>15. SenderInv(kcp', now', due') /\ ClockInv(now', due')
    <2>1. u \in 0..interval
      BY <1>5, Sizes
    <2> QED
      BY <1>2, <1>4, <1>6, <1>11, <1>13, <1>14, <2>1 DEF SenderInv, ClockInv
  <1> QED
    BY <1>15 DEF TimerInv
-----------------------------------------------------------------------------
(***************************************************************************)
(* Write and Input.                                                        *)
(***************************************************************************)

(***************************************************************************)
(* Handlers that only replace snd_buf, by one whose timers are good.       *)
(***************************************************************************)
LEMMA BufSet ==
    ASSUME NEW k, SenderInv(k, now, due), NEW b \in Seq(Segment), BufInv(b, now, due)
    PROVE  SenderInv([k EXCEPT !.snd_buf = b], now, due)
  <1> DEFINE k2 == [k EXCEPT !.snd_buf = b]
  <1>1. k \in Sender /\ ProbeInv(k, now, due)
    BY DEF SenderInv
  <1>2. k2 \in Sender
    BY <1>1 DEF Sender
  <1>3. k2.snd_buf = b /\ k2.probe_wait = k.probe_wait /\ k2.ts_probe = k.ts_probe
    BY <1>1 DEF Sender
  <1> HIDE DEF k2
  <1>4. SenderInv(k2, now, due)
    BY <1>1, <1>2, <1>3 DEF SenderInv, ProbeInv
  <1> QED
    BY <1>4 DEF k2

LEMMA MappedSet ==
    ASSUME NEW k, SenderInv(k, now, due), NEW b, b = [i \in 1..Len(k.snd_buf) |-> b[i]],
           \A i \in 1..Len(k.snd_buf) : b[i] \in Segment /\ SegInv(b[i], now, due)
    PROVE  SenderInv([k EXCEPT !.snd_buf = b], now, due)
  <1>1. Len(k.snd_buf) \in Nat
    BY SenderFields DEF SenderInv
  <1>2. b \in Seq(Segment) /\ Len(b) = Len(k.snd_buf)
    BY <1>1, SegSeq
  <1>3. BufInv(b, now, due)
    BY <1>2 DEF BufInv
  <1> QED
    BY <1>2, <1>3, BufSet

LEMMA BufParts ==
    ASSUME NEW k, SenderInv(k, now, due)
    PROVE  /\ k.snd_buf \in Seq(Segment) /\ Len(k.snd_buf) \in Nat
           /\ DOMAIN k.snd_buf = 1..Len(k.snd_buf)
           /\ \A i \in 1..Len(k.snd_buf) : /\ k.snd_buf[i] \in Segment
                                           /\ SegInv(k.snd_buf[i], now, due)
  BY SenderFields DEF SenderInv, BufInv

LEMMA UnaGood ==
    ASSUME NEW k, SenderInv(k, now, due), NEW c \in 0..Len(k.snd_buf)
    PROVE  SenderInv(parse_una(k, c), now, due)
  <1> DEFINE L == Len(k.snd_buf)
             b == SubSeq(k.snd_buf, c + 1, L)
  <1>1. /\ k.snd_buf \in Seq(Segment) /\ L \in Nat
        /\ \A i \in 1..L : SegInv(k.snd_buf[i], now, due)
    BY BufParts
  <1>2. /\ b \in Seq(Segment) /\ Len(b) = L - c
        /\ \A i \in 1..(L - c) : b[i] = k.snd_buf[c + i]
    BY <1>1, RestOfSegs
  <1> HIDE DEF b
  <1>3. BufInv(b, now, due)
    <2>1. \A i \in 1..(L - c) : c + i \in 1..L
      BY <1>1
    <2> HIDE DEF L
    <2> QED
      BY <1>1, <1>2, <2>1 DEF BufInv
  <1>4. parse_una(k, c) = [k EXCEPT !.snd_buf = b]
    BY DEF parse_una, b
  <1> QED
    BY <1>2, <1>3, <1>4, BufSet

(***************************************************************************)
(* An acknowledged segment has no timer.                                   *)
(***************************************************************************)
LEMMA AckGood ==
    ASSUME NEW k, SenderInv(k, now, due), NEW i \in {0} \cup 1..Len(k.snd_buf)
    PROVE  SenderInv(parse_ack(k, i), now, due)
  <1>1. CASE i = 0
    BY <1>1 DEF parse_ack
  <1>2. CASE i # 0
    <2> DEFINE L == Len(k.snd_buf)
               seg == k.snd_buf[i]
               s2 == [seg EXCEPT !.acked = TRUE, !.rto = 0, !.resendts = 0,
                                 !.outside = FALSE]
               b == [k.snd_buf EXCEPT ![i] = s2]
    <2>1. /\ L \in Nat /\ DOMAIN k.snd_buf = 1..L /\ i \in 1..L
          /\ \A j \in 1..L : k.snd_buf[j] \in Segment /\ SegInv(k.snd_buf[j], now, due)
          /\ k.snd_buf \in Seq(Segment)
      BY <1>2, BufParts
    <2>2. seg \in Segment
      BY <2>1
    <2>3. parse_ack(k, i) = [k EXCEPT !.snd_buf = b]
      BY <1>2, Zenon DEF parse_ack
    <2> HIDE DEF seg
    <2>4. s2 \in Segment /\ s2.acked = TRUE
      <3>1. 0 \in Times
        BY WordHalf DEF Times
      <3>2. s2 \in Segment
        BY <2>2, <3>1 DEF Segment
      <3>3. s2.acked = TRUE
        BY <2>2 DEF Segment
      <3> QED
        BY <3>2, <3>3
    <2> HIDE DEF s2
    <2>5. SegInv(s2, now, due)
      BY <2>4 DEF SegInv
    <2>6. b = [j \in 1..L |-> IF j = i THEN s2 ELSE k.snd_buf[j]]
      BY <2>1
    <2>7. \A j \in 1..L : b[j] = IF j = i THEN s2 ELSE k.snd_buf[j]
      BY <2>6
    <2>8. b = [j \in 1..L |-> b[j]]
      BY <2>6
    <2> HIDE DEF b
    <2>9. \A j \in 1..L : b[j] \in Segment /\ SegInv(b[j], now, due)
      BY <2>1, <2>4, <2>5, <2>7
    <2>10. SenderInv([k EXCEPT !.snd_buf = b], now, due)
      BY <2>8, <2>9, MappedSet, Zenon
    <2> QED
      BY <2>3, <2>10
  <1> QED
    BY <1>1, <1>2

(***************************************************************************)
(* Counting a skipped segment leaves its timer alone.                      *)
(***************************************************************************)
LEMMA FastackGood ==
    ASSUME NEW k, SenderInv(k, now, due), NEW i, NEW ts
    PROVE  SenderInv(parse_fastack(k, i, ts), now, due)
  <1> DEFINE L == Len(k.snd_buf)
             J == Skipped(k, i, ts)
             b == [j \in DOMAIN k.snd_buf |->
                     IF j \in J THEN [k.snd_buf[j] EXCEPT !.fastack = @ + 1]
                     ELSE k.snd_buf[j]]
  <1>1. /\ L \in Nat /\ DOMAIN k.snd_buf = 1..L
        /\ \A j \in 1..L : k.snd_buf[j] \in Segment /\ SegInv(k.snd_buf[j], now, due)
    BY BufParts
  <1>2. parse_fastack(k, i, ts) = [k EXCEPT !.snd_buf = b]
    BY DEF parse_fastack
  <1> HIDE DEF J
  <1>3. ASSUME NEW j \in 1..L PROVE b[j] \in Segment /\ SegInv(b[j], now, due)
    <2> DEFINE seg == k.snd_buf[j]
               f == seg.fastack + 1
               s2 == [seg EXCEPT !.fastack = f]
    <2>1. b[j] = seg \/ b[j] = s2
      BY <1>1, <1>3
    <2>2. seg \in Segment /\ SegInv(seg, now, due)
      BY <1>1, <1>3
    <2> HIDE DEF b, seg
    <2>3. f \in Nat
      BY <2>2, SegFields
    <2> HIDE DEF f
    <2>4. s2 \in Segment
      BY <2>2, <2>3 DEF Segment
    <2>5. /\ s2.sent = seg.sent /\ s2.acked = seg.acked /\ s2.rto = seg.rto
          /\ s2.resendts = seg.resendts /\ s2.outside = seg.outside
      BY <2>2 DEF Segment
    <2> HIDE DEF s2
    <2>6. SegInv(s2, now, due)
      BY <2>2, <2>5 DEF SegInv
    <2> QED
      BY <2>1, <2>2, <2>4, <2>6
  <1>4. b = [j \in 1..L |-> b[j]]
    BY <1>1
  <1> HIDE DEF b
  <1>5. SenderInv([k EXCEPT !.snd_buf = b], now, due)
    BY <1>3, <1>4, MappedSet, Zenon
  <1> QED
    BY <1>2, <1>5

(***************************************************************************)
(* The RTT estimator keeps the RTO within its limits.                      *)
(***************************************************************************)
LEMMA EstimateGood ==
    ASSUME NEW k, SenderInv(k, now, due), NEW k2 \in update_ack(k)
    PROVE  SenderInv(k2, now, due)
  <1>1. k \in Sender
    BY DEF SenderInv
  <1>2. PICK srtt \in 0..IKCP_RTO_MAX :
          k2 = [k EXCEPT !.rx_rto = Min0(Max0(k.rx_minrto, interval + srtt), IKCP_RTO_MAX)]
    BY DEF update_ack
  <1> DEFINE r == Min0(Max0(k.rx_minrto, interval + srtt), IKCP_RTO_MAX)
  <1>3. r \in 1..IKCP_RTO_MAX
    <2>1. k.rx_minrto \in Nat
      BY <1>1, SenderFields
    <2> QED
      BY <2>1, Sizes DEF Min0, Max0
  <1> HIDE DEF r
  <1>4. k2 = [k EXCEPT !.rx_rto = r]
    BY <1>2 DEF r
  <1>5. k2 \in Sender
    BY <1>1, <1>3, <1>4 DEF Sender
  <1>6. k2.snd_buf = k.snd_buf /\ k2.probe_wait = k.probe_wait /\ k2.ts_probe = k.ts_probe
    BY <1>1, <1>4 DEF Sender
  <1> QED
    BY <1>5, <1>6, SameTimersGood DEF SameTimers

LEMMA GrowGood ==
    ASSUME NEW k, SenderInv(k, now, due)
    PROVE  SenderInv(Grow(k), now, due)
  <1> DEFINE base == Max0(k.incr, mss)
             incr == base + (mss * mss) \div base + mss \div 16
             w == IF (k.cwnd + 1) * mss <= incr THEN (incr + mss - 1) \div mss ELSE k.cwnd
             k1 == IF k.cwnd < k.ssthresh
                   THEN [k EXCEPT !.cwnd = @ + 1, !.incr = @ + mss]
                   ELSE [k EXCEPT !.incr = incr, !.cwnd = w]
             k2 == [k1 EXCEPT !.cwnd = k.rmt_wnd, !.incr = k.rmt_wnd * mss]
  <1>1. k \in Sender
    BY DEF SenderInv
  <1>2. k.cwnd \in Nat /\ k.incr \in Nat /\ k.rmt_wnd \in Nat /\ k.ssthresh \in Nat
    BY <1>1, SenderFields
  <1>3. Grow(k) \in {k, k1, k2}
    BY Zenon DEF Grow
  <1>4. incr \in Nat
    <2>1. base \in Nat /\ base >= 1
      BY <1>2, Sizes DEF Max0
    <2> HIDE DEF base
    <2>2. \A x, y \in Nat : y >= 1 => x \div y \in Nat
      OBVIOUS
    <2>3. mss * mss \in Nat /\ mss \div 16 \in Nat
      BY Sizes
    <2>4. (mss * mss) \div base \in Nat
      BY <2>1, <2>2, <2>3
    <2> QED
      BY <2>1, <2>3, <2>4
  <1> HIDE DEF incr
  <1>5. w \in Nat
    <2>1. \A x, y \in Nat : y >= 1 => (x + y - 1) \div y \in Nat
      OBVIOUS
    <2> QED
      BY <1>2, <1>4, <2>1, Sizes
  <1> HIDE DEF w
  <1>6. ASSUME NEW kk \in Sender, NEW x \in Nat, NEW y \in Nat
        PROVE  SameTimers(kk, [kk EXCEPT !.cwnd = x, !.incr = y])
    <2>1. [kk EXCEPT !.cwnd = x, !.incr = y]
            = [kk EXCEPT !.ssthresh = kk.ssthresh, !.cwnd = x, !.incr = y]
      BY <1>6 DEF Sender
    <2>2. kk.ssthresh \in Nat
      BY <1>6, SenderFields
    <2> QED
      BY <1>6, <2>1, <2>2, CwndSet
  <1>7. SameTimers(k, k1)
    <2>1. k.cwnd + 1 \in Nat /\ k.incr + mss \in Nat
      BY <1>2, Sizes
    <2>2. SameTimers(k, [k EXCEPT !.cwnd = k.cwnd + 1, !.incr = k.incr + mss])
      BY <1>1, <1>6, <2>1
    <2>3. [k EXCEPT !.incr = incr, !.cwnd = w] = [k EXCEPT !.cwnd = w, !.incr = incr]
      BY <1>1 DEF Sender
    <2>4. SameTimers(k, [k EXCEPT !.cwnd = w, !.incr = incr])
      BY <1>1, <1>4, <1>5, <1>6
    <2> QED
      BY <2>2, <2>3, <2>4
  <1> HIDE DEF k1
  <1>8. SameTimers(k1, k2)
    <2>1. k.rmt_wnd * mss \in Nat
      BY <1>2, Sizes
    <2>2. k1 \in Sender
      BY <1>7 DEF SameTimers
    <2> QED
      BY <1>2, <1>6, <2>1, <2>2
  <1> HIDE DEF k2
  <1>9. SameTimers(k, k2)
    BY <1>7, <1>8, SameTimersTrans
  <1> QED
    BY <1>3, <1>7, <1>9, SameTimersGood

(***************************************************************************)
(* The rest of Input.                                                      *)
(***************************************************************************)
LEMMA InputDoneGood ==
    ASSUME NEW k, ClockInv(now, due), SenderInv(k, now, due), NEW c, NEW fast, NEW acks,
           InputDone(k, c, fast, acks)
    PROVE  SenderInv(kcp', now, due)
  <1> DEFINE k1 == IF c > 0 THEN Grow(k) ELSE k
  <1>1. SenderInv(k1, now, due)
    BY GrowGood
  <1>2. kcp' \in {Flushed(k1, TRUE), Flushed(k1, FALSE), k1}
    BY DEF InputDone
  <1> HIDE DEF k1
  <1>3. SenderInv(Flushed(k1, TRUE), now, due) /\ SenderInv(Flushed(k1, FALSE), now, due)
    BY <1>1, FlushedGood
  <1> QED
    BY <1>1, <1>2, <1>3

LEMMA ParseAckGood ==
    ASSUME NEW k, ClockInv(now, due), SenderInv(k, now, due), NEW c, NEW regular \in BOOLEAN,
           ParseAck(k, c, regular)
    PROVE  SenderInv(kcp', now, due)
  <1>1. PICK i \in Sent(k) \cup {0} : \E a \in Ages(k, i) :
          LET ts == U32(now - a)
              k1 == parse_ack(k, i)
              k2 == parse_fastack(k1, i, ts)
          IN  \E k3 \in IF regular THEN update_ack(k2) ELSE {k2} :
                  InputDone(k3, c, shouldFastAck(k1, i, ts), FALSE)
    BY Zenon DEF ParseAck
  <1>2. PICK a \in Ages(k, i) :
          LET ts == U32(now - a)
              k1 == parse_ack(k, i)
              k2 == parse_fastack(k1, i, ts)
          IN  \E k3 \in IF regular THEN update_ack(k2) ELSE {k2} :
                  InputDone(k3, c, shouldFastAck(k1, i, ts), FALSE)
    BY <1>1, Zenon
  <1> DEFINE ts == U32(now - a)
             k1 == parse_ack(k, i)
             k2 == parse_fastack(k1, i, ts)
  <1>3. PICK k3 \in IF regular THEN update_ack(k2) ELSE {k2} :
          InputDone(k3, c, shouldFastAck(k1, i, ts), FALSE)
    BY <1>2, Zenon
  <1>4. i \in {0} \cup 1..Len(k.snd_buf)
    BY BufParts DEF Sent
  <1> HIDE DEF ts
  <1>5. SenderInv(k1, now, due)
    BY <1>4, AckGood
  <1> HIDE DEF k1
  <1>6. SenderInv(k2, now, due)
    BY <1>5, FastackGood
  <1> HIDE DEF k2
  <1>7. SenderInv(k3, now, due)
    BY <1>6, EstimateGood
  <1> QED
    BY <1>3, <1>7, InputDoneGood

LEMMA WndSet ==
    ASSUME NEW k, SenderInv(k, now, due), NEW w \in Nat
    PROVE  /\ SenderInv([k EXCEPT !.rmt_wnd = w], now, due)
           /\ [k EXCEPT !.rmt_wnd = w].snd_buf = k.snd_buf
  <1> DEFINE k2 == [k EXCEPT !.rmt_wnd = w]
  <1>1. k \in Sender
    BY DEF SenderInv
  <1>2. k2 \in Sender
    BY <1>1 DEF Sender
  <1>3. k2.snd_buf = k.snd_buf /\ k2.probe_wait = k.probe_wait /\ k2.ts_probe = k.ts_probe
    BY <1>1 DEF Sender
  <1> HIDE DEF k2
  <1>4. SenderInv(k2, now, due)
    BY <1>2, <1>3, SameTimersGood DEF SameTimers
  <1> QED
    BY <1>3, <1>4 DEF k2

-----------------------------------------------------------------------------
(***************************************************************************)
(* One lemma for each of the other actions.                                *)
(***************************************************************************)
LEMMA WriteGood ==
    ASSUME TimerInv, NEW delayed \in BOOLEAN, Write(delayed)
    PROVE  TimerInv'
  <1> DEFINE q == kcp.snd_queue + 1
             k == [kcp EXCEPT !.snd_queue = q]
  <1>1. ClockInv(now, due) /\ SenderInv(kcp, now, due) /\ kcp \in Sender
    BY DEF TimerInv, SenderInv
  <1>2. q \in Nat
    BY <1>1, SenderFields
  <1>3. kcp' = (IF delayed THEN k ELSE Flushed(k, TRUE)) /\ now' = now /\ due' = due
    BY DEF Write
  <1> HIDE DEF q
  <1>4. k \in Sender
    BY <1>1, <1>2 DEF Sender
  <1>5. k.snd_buf = kcp.snd_buf /\ k.probe_wait = kcp.probe_wait /\ k.ts_probe = kcp.ts_probe
    BY <1>1 DEF Sender
  <1> HIDE DEF k
  <1>6. SenderInv(k, now, due)
    BY <1>1, <1>4, <1>5, SameTimersGood DEF SameTimers
  <1>7. SenderInv(kcp', now, due)
    BY <1>1, <1>3, <1>6, FlushedGood
  <1> QED
    BY <1>1, <1>3, <1>7 DEF TimerInv

LEMMA InputGood ==
    ASSUME TimerInv, NEW c \in 0..Len(kcp.snd_buf),
           \/ \E wnd \in RmtWnds : InputAck(wnd, c)
           \/ InputAckRecovered(c)
           \/ \E wnd \in RmtWnds \cup {kcp.rmt_wnd}, acks \in BOOLEAN :
                  InputOther(wnd, c, acks)
    PROVE  TimerInv'
  <1>1. ClockInv(now, due) /\ SenderInv(kcp, now, due) /\ kcp \in Sender
    BY DEF TimerInv, SenderInv
  <1>2. RmtWnds \cup {kcp.rmt_wnd} \subseteq Nat
    BY <1>1, SenderFields, CountAssumption
  <1>3. ASSUME NEW wnd \in Nat
        PROVE  SenderInv(parse_una([kcp EXCEPT !.rmt_wnd = wnd], c), now, due)
    <2> DEFINE k == [kcp EXCEPT !.rmt_wnd = wnd]
    <2>1. SenderInv(k, now, due) /\ k.snd_buf = kcp.snd_buf
      BY <1>1, <1>3, WndSet
    <2> HIDE DEF k
    <2>2. SenderInv(parse_una(k, c), now, due)
      BY <2>1, UnaGood
    <2> QED
      BY <2>2 DEF k
  <1>4. ASSUME NEW wnd \in RmtWnds, InputAck(wnd, c)
        PROVE  SenderInv(kcp', now, due) /\ now' = now /\ due' = due
    <2>1. SenderInv(parse_una([kcp EXCEPT !.rmt_wnd = wnd], c), now, due)
      BY <1>2, <1>3, <1>4
    <2>2. /\ ParseAck(parse_una([kcp EXCEPT !.rmt_wnd = wnd], c), c, TRUE)
          /\ now' = now /\ due' = due
      BY <1>4 DEF InputAck
    <2> QED
      BY <1>1, <2>1, <2>2, ParseAckGood, Zenon
  <1>5. ASSUME InputAckRecovered(c)
        PROVE  SenderInv(kcp', now, due) /\ now' = now /\ due' = due
    <2>1. SenderInv(parse_una(kcp, c), now, due)
      BY <1>1, UnaGood
    <2>2. ParseAck(parse_una(kcp, c), c, FALSE) /\ now' = now /\ due' = due
      BY <1>5 DEF InputAckRecovered
    <2> QED
      BY <1>1, <2>1, <2>2, ParseAckGood, Zenon
  <1>6. ASSUME NEW wnd \in RmtWnds \cup {kcp.rmt_wnd}, NEW acks \in BOOLEAN,
               InputOther(wnd, c, acks)
        PROVE  SenderInv(kcp', now, due) /\ now' = now /\ due' = due
    <2>1. SenderInv(parse_una([kcp EXCEPT !.rmt_wnd = wnd], c), now, due)
      BY <1>2, <1>3, <1>6
    <2>2. /\ InputDone(parse_una([kcp EXCEPT !.rmt_wnd = wnd], c), c, FALSE, acks)
          /\ now' = now /\ due' = due
      BY <1>6 DEF InputOther
    <2> QED
      BY <1>1, <2>1, <2>2, InputDoneGood, Zenon
  <1>7. SenderInv(kcp', now, due) /\ now' = now /\ due' = due
    BY <1>4, <1>5, <1>6
  <1> QED
    BY <1>1, <1>7 DEF TimerInv

(***************************************************************************)
(* A timer that ResetRTO ends now is followed by an update within an       *)
(* interval.                                                               *)
(***************************************************************************)
LEMMA ResetGood ==
    ASSUME TimerInv, ResetRTO
    PROVE  TimerInv'
  <1> DEFINE L == Len(kcp.snd_buf)
             b == [i \in DOMAIN kcp.snd_buf |->
                     IF kcp.snd_buf[i].acked THEN kcp.snd_buf[i]
                     ELSE [kcp.snd_buf[i] EXCEPT !.rto = kcp.rx_rto, !.resendts = now,
                                                 !.outside = TRUE]]
  <1>1. ClockInv(now, due) /\ SenderInv(kcp, now, due) /\ kcp \in Sender
    BY DEF TimerInv, SenderInv
  <1>2. kcp' = [kcp EXCEPT !.snd_buf = b] /\ now' = now /\ due' = due
    BY DEF ResetRTO
  <1>3. /\ L \in Nat /\ DOMAIN kcp.snd_buf = 1..L
        /\ \A i \in 1..L : kcp.snd_buf[i] \in Segment /\ SegInv(kcp.snd_buf[i], now, due)
    BY <1>1, BufParts
  <1>4. kcp.rx_rto \in 1..IKCP_RTO_MAX
    BY <1>1, SenderFields
  <1>5. now \in Times /\ Ahead(now, now) = 0 /\ Ahead(due, now) \in 0..interval
    <2>1. now \in Times /\ due \in Times /\ Ahead(due, now) \in 0..interval
      BY <1>1 DEF ClockInv
    <2>2. Ahead(due, now) > -Half
      BY <2>1, Sizes
    <2> QED
      BY <2>1, <2>2, AheadPassed
  <1>6. ASSUME NEW i \in 1..L PROVE b[i] \in Segment /\ SegInv(b[i], now, due)
    <2> DEFINE seg == kcp.snd_buf[i]
               r == kcp.rx_rto
               s2 == [seg EXCEPT !.rto = r, !.resendts = now, !.outside = TRUE]
    <2>1. b[i] = seg \/ b[i] = s2
      BY <1>3, <1>6
    <2>2. seg \in Segment /\ SegInv(seg, now, due)
      BY <1>3, <1>6
    <2>3. r \in 1..IKCP_RTO_MAX /\ r \in Nat
      BY <1>4
    <2> HIDE DEF b, seg, r
    <2>4. s2 \in Segment
      BY <1>5, <2>2, <2>3 DEF Segment
    <2>5. s2.rto = r /\ s2.resendts = now /\ s2.outside = TRUE
      BY <2>2 DEF Segment
    <2> HIDE DEF s2
    <2>6. SegInv(s2, now, due)
      BY <1>5, <2>3, <2>5, Sizes DEF SegInv
    <2> QED
      BY <2>1, <2>2, <2>4, <2>6
  <1>7. b = [i \in 1..L |-> b[i]]
    BY <1>3
  <1> HIDE DEF b
  <1>8. SenderInv([kcp EXCEPT !.snd_buf = b], now, due)
    BY <1>1, <1>6, <1>7, MappedSet, Zenon
  <1> QED
    BY <1>1, <1>2, <1>8 DEF TimerInv

LEMMA NoDelayGood ==
    ASSUME TimerInv, NEW o \in Options, NoDelay(o)
    PROVE  TimerInv'
  <1> DEFINE r == IF o.nodelay # 0 THEN IKCP_RTO_NDL ELSE IKCP_RTO_MIN
  <1>1. ClockInv(now, due) /\ SenderInv(kcp, now, due) /\ kcp \in Sender
    BY DEF TimerInv, SenderInv
  <1>2. r \in Nat /\ o.nodelay \in Int /\ o.resend \in Int /\ o.nc \in Int
    BY Sizes, CountAssumption
  <1>3. /\ kcp' = [kcp EXCEPT !.nodelay = o.nodelay, !.fastresend = o.resend,
                              !.nocwnd = o.nc, !.rx_minrto = r]
        /\ now' = now /\ due' = due
    BY DEF NoDelay
  <1> HIDE DEF r
  <1>4. kcp' \in Sender
    BY <1>1, <1>2, <1>3 DEF Sender
  <1>5. /\ kcp'.snd_buf = kcp.snd_buf /\ kcp'.probe_wait = kcp.probe_wait
        /\ kcp'.ts_probe = kcp.ts_probe
    BY <1>1, <1>3 DEF Sender
  <1>6. SenderInv(kcp', now, due)
    BY <1>1, <1>4, <1>5, SameTimersGood DEF SameTimers
  <1> QED
    BY <1>1, <1>3, <1>6 DEF TimerInv

(***************************************************************************)
(* A tick brings the end of every timer and the next update one closer.    *)
(***************************************************************************)
LEMMA TickGood ==
    ASSUME TimerInv, Tick
    PROVE  TimerInv'
  <1> DEFINE n == U32(now + 1)
  <1>1. ClockInv(now, due) /\ SenderInv(kcp, now, due) /\ kcp \in Sender
    BY DEF TimerInv, SenderInv
  <1>2. now' = n /\ kcp' = kcp /\ due' = due /\ now # due
    BY DEF Tick
  <1>3. now \in Times /\ due \in Times /\ Ahead(due, now) \in 0..interval
    BY <1>1 DEF ClockInv
  <1>4. \A x \in Times : Ahead(x, now) > -Half
                            => n \in Times /\ Ahead(x, n) = Ahead(x, now) - 1
    BY <1>3, AheadTick
  <1>5. Ahead(due, now) > 0
    <2>1. \/ Ahead(due, now) = due - now
          \/ Ahead(due, now) = due - now + Word
          \/ Ahead(due, now) = due - now - Word
      BY <1>3, DiffIs DEF Ahead
    <2>2. Ahead(due, now) # 0
      BY <1>2, <1>3, <2>1, WordHalf DEF Times
    <2> QED
      BY <1>3, <2>2, Sizes
  <1> HIDE DEF n
  <1>6. n \in Times /\ Ahead(due, n) = Ahead(due, now) - 1
    BY <1>3, <1>4, <1>5, Sizes
  <1>7. ClockInv(n, due)
    BY <1>3, <1>5, <1>6, Sizes DEF ClockInv
  <1>8. ASSUME NEW i \in 1..Len(kcp.snd_buf) PROVE SegInv(kcp.snd_buf[i], n, due)
    <2> DEFINE seg == kcp.snd_buf[i]
    <2>1. seg \in Segment /\ SegInv(seg, now, due) /\ DOMAIN kcp.snd_buf = 1..Len(kcp.snd_buf)
      BY <1>1, <1>8, BufParts
    <2>2. ~seg.acked /\ seg.rto > MaxRto - IKCP_RTO_MAX => Ahead(seg.resendts, now) > 1
      BY <1>8, <2>1 DEF Tick, Ahead
    <2> HIDE DEF seg
    <2>3. SUFFICES ASSUME seg.sent, ~seg.acked PROVE SegInv(seg, n, due)
      BY DEF SegInv, seg
    <2>4. seg.resendts \in Times /\ seg.rto \in Nat /\ seg.outside \in BOOLEAN
      BY <2>1, SegFields
    <2>5. Ahead(seg.resendts, now) \in Int /\ Ahead(seg.resendts, now) > -Half
      BY <1>1, <2>1, <2>3, LiveAhead
    <2>6. Ahead(seg.resendts, n) = Ahead(seg.resendts, now) - 1
      BY <1>4, <2>4, <2>5
    <2>7. /\ 1 <= seg.rto /\ seg.rto <= MaxRto
          /\ Ahead(seg.resendts, now) <= seg.rto
          /\ Ahead(due, now) - Ahead(seg.resendts, now) <= IF seg.outside THEN interval ELSE 0
      BY <2>1, <2>3 DEF SegInv
    <2>8. Ahead(due, n) - Ahead(seg.resendts, n) = Ahead(due, now) - Ahead(seg.resendts, now)
      BY <1>3, <1>6, <2>5, <2>6
    <2>9. Ahead(seg.resendts, n) <= seg.rto
      BY <2>4, <2>5, <2>6, <2>7
    <2>10. seg.rto > MaxRto - IKCP_RTO_MAX => Ahead(seg.resendts, n) > 0
      BY <2>2, <2>3, <2>5, <2>6
    <2> QED
      BY <2>7, <2>8, <2>9, <2>10 DEF SegInv
  <1>9. ProbeInv(kcp, n, due)
    <2> SUFFICES ASSUME kcp.probe_wait # 0 PROVE ProbeInv(kcp, n, due)
      BY DEF ProbeInv
    <2>1. ProbeInv(kcp, now, due) /\ kcp.ts_probe \in Times /\ kcp.probe_wait \in Nat
      BY <1>1, SenderFields DEF SenderInv
    <2>2. Ahead(kcp.ts_probe, now) \in Int /\ Ahead(kcp.ts_probe, now) > -Half
      BY <1>1, <2>1, ProbeAhead
    <2>3. Ahead(kcp.ts_probe, n) = Ahead(kcp.ts_probe, now) - 1
      BY <1>4, <2>1, <2>2
    <2>4. Ahead(due, n) - Ahead(kcp.ts_probe, n) = Ahead(due, now) - Ahead(kcp.ts_probe, now)
      BY <1>3, <1>6, <2>2, <2>3
    <2>5. /\ kcp.probe_wait \in IKCP_PROBE_INIT..IKCP_PROBE_LIMIT
          /\ Ahead(kcp.ts_probe, now) <= kcp.probe_wait
          /\ Ahead(due, now) - Ahead(kcp.ts_probe, now) < interval
      BY <2>1 DEF ProbeInv
    <2>6. Ahead(kcp.ts_probe, n) <= kcp.probe_wait
      BY <2>1, <2>2, <2>3, <2>5
    <2> QED
      BY <2>4, <2>5, <2>6 DEF ProbeInv
  <1> QED
    BY <1>1, <1>2, <1>7, <1>8, <1>9 DEF TimerInv, SenderInv, BufInv

-----------------------------------------------------------------------------
(***************************************************************************)
(* The results.                                                            *)
(***************************************************************************)
LEMMA InitGood == Init => TimerInv
  <1> SUFFICES ASSUME Init PROVE TimerInv
    OBVIOUS
  <1>1. now = 0 /\ due = 0 /\ kcp = NewKCP /\ 0 \in Times
    BY WordHalf DEF Init, Times
  <1>2. Ahead(0, 0) = 0
    BY <1>1, DiffIs, WordHalf DEF Ahead, itimediff, U32, Half
  <1>3. ClockInv(now, due)
    BY <1>1, <1>2, Sizes DEF ClockInv
  <1>4. kcp \in Sender
    <2>1. <<>> \in Seq(Segment)
      OBVIOUS
    <2> QED
      BY <1>1, <2>1, Sizes DEF NewKCP, Sender
  <1>5. kcp.snd_buf = <<>> /\ kcp.probe_wait = 0
    BY <1>1 DEF NewKCP
  <1>6. BufInv(kcp.snd_buf, now, due)
    BY <1>5 DEF BufInv
  <1> QED
    BY <1>3, <1>4, <1>5, <1>6 DEF TimerInv, SenderInv, ProbeInv

LEMMA TimersStep ==
    ASSUME TimerInv, [Next]_vars
    PROVE  TimerInv'
  <1>1. CASE Tick
    BY <1>1, TickGood
  <1>2. CASE update
    BY <1>2, UpdateGood
  <1>3. CASE \E delayed \in BOOLEAN : Write(delayed)
    BY <1>3, WriteGood
  <1>4. ASSUME NEW c \in 0..Len(kcp.snd_buf),
               \/ \E wnd \in RmtWnds : InputAck(wnd, c)
               \/ InputAckRecovered(c)
               \/ \E wnd \in RmtWnds \cup {kcp.rmt_wnd}, acks \in BOOLEAN :
                      InputOther(wnd, c, acks)
        PROVE  TimerInv'
    BY <1>4, InputGood
  <1>5. CASE ResetRTO
    BY <1>5, ResetGood
  <1>6. CASE \E o \in Options : NoDelay(o)
    BY <1>6, NoDelayGood
  <1>7. CASE UNCHANGED vars
    BY <1>7 DEF vars, TimerInv
  <1> QED
    BY <1>1, <1>2, <1>3, <1>4, <1>5, <1>6, <1>7 DEF Next

(***************************************************************************)
(* The invariant of the timers holds: the clock, the time of the next      *)
(* update and the end of every timer (snd_buf's resendts and ts_probe) are *)
(* words less than half a turn apart, and keep the order that update and   *)
(* flush rely on.                                                          *)
(***************************************************************************)
THEOREM TimersKept == Spec => []TimerInv
  <1>1. TimerInv /\ [Next]_vars => TimerInv'
    BY TimersStep
  <1> QED
    BY <1>1, InitGood, PTL DEF Spec

(***************************************************************************)
(* Retransmission is on time: flush never leaves the RTO timer of a        *)
(* segment in flight behind the next update by more than the code allows,  *)
(* although readings wrap and are compared by the sign of a difference     *)
(* (itimediff), and although ACKs, writes and ResetRTO set timers between  *)
(* two updates.                                                            *)
(***************************************************************************)
THEOREM ResendsOnTime == Spec => []RetransmitOnTime
  <1>1. TimerInv => RetransmitOnTime
    <2> SUFFICES ASSUME TimerInv, NEW i \in DOMAIN kcp.snd_buf,
                        kcp.snd_buf[i].sent, ~kcp.snd_buf[i].acked
                 PROVE  /\ itimediff(kcp.snd_buf[i].resendts, now) <= kcp.snd_buf[i].rto
                        /\ IF kcp.snd_buf[i].outside
                           THEN itimediff(due, kcp.snd_buf[i].resendts) <= interval
                           ELSE itimediff(due, kcp.snd_buf[i].resendts) <= 0
      BY DEF RetransmitOnTime
    <2> DEFINE seg == kcp.snd_buf[i]
    <2>1. ClockInv(now, due) /\ SenderInv(kcp, now, due)
      BY DEF TimerInv
    <2>2. seg \in Segment /\ SegInv(seg, now, due)
      BY <2>1, BufParts
    <2>3. seg.sent /\ ~seg.acked
      OBVIOUS
    <2> HIDE DEF seg
    <2>4. /\ Ahead(seg.resendts, now) \in Int /\ Ahead(due, now) \in 0..interval
          /\ Ahead(seg.resendts, now) >= -interval /\ Ahead(seg.resendts, now) <= MaxRto
          /\ now \in Times /\ due \in Times /\ seg.resendts \in Times
      BY <2>1, <2>2, <2>3, LiveAhead, SegFields DEF ClockInv
    <2>5. /\ Ahead(seg.resendts, now) <= seg.rto
          /\ Ahead(due, now) - Ahead(seg.resendts, now)
                <= IF seg.outside THEN interval ELSE 0
          /\ Ahead(due, now) - Ahead(seg.resendts, now) <= interval
      BY <2>2, <2>3, <2>4, Sizes DEF SegInv
    <2>6. itimediff(due, seg.resendts) = Ahead(due, now) - Ahead(seg.resendts, now)
      <3>1. /\ -Half <= Ahead(due, now) - Ahead(seg.resendts, now)
            /\ Ahead(due, now) - Ahead(seg.resendts, now) < Half
        BY <2>4, <2>5, Sizes
      <3> QED
        BY <2>4, <3>1, AheadDiff
    <2>7. /\ itimediff(seg.resendts, now) <= seg.rto
          /\ IF seg.outside THEN itimediff(due, seg.resendts) <= interval
             ELSE itimediff(due, seg.resendts) <= 0
      BY <2>5, <2>6 DEF Ahead
    <2> QED
      BY <2>7 DEF seg
  <1> QED
    BY <1>1, TimersKept, PTL

(***************************************************************************)
(* The probe of a closed window is on time: the timer that flush keeps in  *)
(* probe_wait and ts_probe stays within its limits, ends at most its own   *)
(* length from now, and is looked at within an interval of its end.        *)
(***************************************************************************)
THEOREM ProbesOnTime == Spec => []ProbeOnTime
  <1>1. TimerInv => ProbeOnTime
    <2> SUFFICES ASSUME TimerInv, kcp.probe_wait # 0
                 PROVE  /\ kcp.probe_wait \in IKCP_PROBE_INIT..IKCP_PROBE_LIMIT
                        /\ itimediff(kcp.ts_probe, now) <= kcp.probe_wait
                        /\ itimediff(due, kcp.ts_probe) < interval
      BY DEF ProbeOnTime
    <2>1. ClockInv(now, due) /\ kcp \in Sender /\ ProbeInv(kcp, now, due)
      BY DEF TimerInv, SenderInv
    <2>2. /\ Ahead(kcp.ts_probe, now) \in Int /\ Ahead(due, now) \in 0..interval
          /\ Ahead(kcp.ts_probe, now) > -interval
          /\ Ahead(kcp.ts_probe, now) <= IKCP_PROBE_LIMIT
          /\ now \in Times /\ due \in Times /\ kcp.ts_probe \in Times
      BY <2>1, ProbeAhead, SenderFields DEF ClockInv
    <2>3. /\ kcp.probe_wait \in IKCP_PROBE_INIT..IKCP_PROBE_LIMIT
          /\ Ahead(kcp.ts_probe, now) <= kcp.probe_wait
          /\ Ahead(due, now) - Ahead(kcp.ts_probe, now) < interval
      BY <2>1 DEF ProbeInv
    <2>4. itimediff(due, kcp.ts_probe) = Ahead(due, now) - Ahead(kcp.ts_probe, now)
      <3>1. /\ -Half <= Ahead(due, now) - Ahead(kcp.ts_probe, now)
            /\ Ahead(due, now) - Ahead(kcp.ts_probe, now) < Half
        BY <2>2, <2>3, Sizes
      <3> QED
        BY <2>2, <3>1, AheadDiff
    <2> QED
      BY <2>3, <2>4 DEF Ahead
  <1> QED
    BY <1>1, TimersKept, PTL

-----------------------------------------------------------------------------
(***************************************************************************)
(* The congestion window.  It depends on how many segments are in flight,  *)
(* on the peer's window and on the fast retransmission threshold, which    *)
(* are all bounded.                                                        *)
(***************************************************************************)
Widest == Max({snd_wnd, IKCP_THRESH_MIN} \cup RmtWnds)

MostResend == Max({o.resend : o \in Options})

Narrow(k) == /\ Len(k.snd_buf) <= snd_wnd
             /\ k.rmt_wnd <= Widest
             /\ k.fastresend <= MostResend

\* k has the congestion window of the last state, or a sane one.
CwndOK(k) == k.cwnd = kcp.cwnd \/ k.cwnd \in 1..MostWnd

LEMMA MaxIs ==
    ASSUME NEW S, S \subseteq Int, NEW m \in S, \A y \in S : y <= m
    PROVE  Max(S) = m
  <1>1. \A y \in S : m >= y
    OBVIOUS
  <1>2. ASSUME NEW x \in S, \A y \in S : x >= y PROVE x = m
    BY <1>2
  <1>3. \E x \in S : \A y \in S : x >= y
    BY <1>1
  <1>4. Max(S) \in S /\ \A y \in S : Max(S) >= y
    BY <1>3, Zenon DEF Max
  <1> QED
    BY <1>2, <1>4

LEMMA Limits ==
    /\ Widest \in Nat /\ MostResend \in Nat /\ MostWnd = Widest + MostResend
    /\ snd_wnd <= Widest /\ IKCP_THRESH_MIN <= Widest /\ 1 <= snd_wnd
    /\ 1 <= IKCP_THRESH_MIN
    /\ \A w \in RmtWnds : w <= Widest
    /\ \A o \in Options : o.resend <= MostResend
  <1> DEFINE S == {snd_wnd, IKCP_THRESH_MIN} \cup RmtWnds
             R == {o.resend : o \in Options}
  <1>1. /\ snd_wnd \in Nat \ {0} /\ IKCP_THRESH_MIN \in Nat \ {0} /\ RmtWnds \subseteq Nat
        /\ \A o \in Options : o.resend \in Int
    BY CountAssumption
  <1>2. PICK w \in RmtWnds : \A v \in RmtWnds : v <= w
    BY CountAssumption
  <1>3. \E m \in S : \A y \in S : y <= m
    <2>1. CASE w >= snd_wnd /\ w >= IKCP_THRESH_MIN
      BY <1>1, <1>2, <2>1
    <2>2. CASE snd_wnd >= w /\ snd_wnd >= IKCP_THRESH_MIN
      BY <1>1, <1>2, <2>2
    <2>3. CASE IKCP_THRESH_MIN >= w /\ IKCP_THRESH_MIN >= snd_wnd
      BY <1>1, <1>2, <2>3
    <2> QED
      BY <1>1, <2>1, <2>2, <2>3
  <1>4. S \subseteq Int /\ snd_wnd \in S /\ IKCP_THRESH_MIN \in S /\ RmtWnds \subseteq S
    BY <1>1
  <1>5. PICK o \in Options : o.resend >= 0 /\ \A q \in Options : q.resend <= o.resend
    BY CountAssumption
  <1>6. R \subseteq Int /\ o.resend \in R /\ \A y \in R : y <= o.resend
    BY <1>1, <1>5
  <1>7. MostResend = o.resend
    BY <1>6, MaxIs DEF MostResend
  <1>8. Widest \in S /\ \A y \in S : y <= Widest
    <2> HIDE DEF S
    <2>1. PICK m \in S : \A y \in S : y <= m
      BY <1>3
    <2>2. Max(S) = m
      BY <1>4, <2>1, MaxIs
    <2> QED
      BY <2>1, <2>2 DEF Widest, S
  <1>9. MostWnd = Widest + MostResend
    BY DEF MostWnd, Widest, MostResend
  <1>10. Widest \in Nat
    BY <1>1, <1>8
  <1> HIDE DEF S, R
  <1> QED
    BY <1>1, <1>4, <1>5, <1>7, <1>8, <1>9, <1>10

(***************************************************************************)
(* Steps that leave the window alone and add no segment.                   *)
(***************************************************************************)
Keeps(k, k2) == /\ k2.cwnd = k.cwnd /\ k2.rmt_wnd = k.rmt_wnd
                /\ k2.fastresend = k.fastresend
                /\ Len(k2.snd_buf) <= Len(k.snd_buf)

LEMMA KeepsNarrow ==
    ASSUME NEW k \in Sender, NEW k2 \in Sender, Keeps(k, k2), Narrow(k), CwndOK(k)
    PROVE  Narrow(k2) /\ CwndOK(k2)
  <1>1. Len(k.snd_buf) \in Nat /\ Len(k2.snd_buf) \in Nat /\ snd_wnd \in Nat
    BY SenderFields, Sizes
  <1> QED
    BY <1>1 DEF Keeps, Narrow, CwndOK

LEMMA KeepsBuf ==
    ASSUME NEW k \in Sender, NEW b, Len(b) <= Len(k.snd_buf)
    PROVE  Keeps(k, [k EXCEPT !.snd_buf = b])
  BY DEF Sender, Keeps

LEMMA ProbeKeeps ==
    ASSUME NEW k \in Sender
    PROVE  Keeps(k, FlushProbe(k))
  <1>1. Len(k.snd_buf) \in Nat
    BY SenderFields
  <1>2. Keeps(k, k)
    BY <1>1 DEF Keeps
  <1>3. ASSUME NEW w, NEW ts
        PROVE  Keeps(k, [k EXCEPT !.probe_wait = w, !.ts_probe = ts])
    BY <1>1 DEF Keeps, Sender
  <1> QED
    BY <1>2, <1>3, Zenon DEF FlushProbe

(***************************************************************************)
(* Phase 4 fills the window, which is no wider than snd_wnd.               *)
(***************************************************************************)
LEMMA FilledNarrow ==
    ASSUME NEW k \in Sender, Narrow(k), CwndOK(k)
    PROVE  Narrow(Filled(k)) /\ CwndOK(Filled(k))
  <1> DEFINE c == NewSegsCount(k)
             new == [i \in 1..c |-> NewSeg]
             b == k.snd_buf \o new
             q == k.snd_queue - c
             k2 == Filled(k)
  <1>1. /\ Len(k.snd_buf) \in Nat /\ k.snd_queue \in Nat /\ k.rmt_wnd \in Nat
        /\ k.cwnd \in Nat /\ k.snd_buf \in Seq(Segment) /\ snd_wnd \in Nat
    BY SenderFields, Sizes
  <1>2. Window(k) \in Nat /\ Window(k) <= snd_wnd
    BY <1>1, WindowNat DEF Window, Min0
  <1>3. c \in Nat /\ Len(k.snd_buf) + c <= snd_wnd
    BY <1>1, <1>2 DEF NewSegsCount, Min0, Max0, Narrow
  <1>4. k2 = [k EXCEPT !.snd_queue = q, !.snd_buf = b]
    BY DEF Filled
  <1> HIDE DEF c
  <1>5. new \in Seq(Segment) /\ Len(new) = c
    BY <1>3, NewSegGood
  <1> HIDE DEF new
  <1>6. Len(b) = Len(k.snd_buf) + c
    BY <1>1, <1>5, ConcatSegs
  <1> HIDE DEF b, q, k2
  <1>7. /\ k2.snd_buf = b /\ k2.rmt_wnd = k.rmt_wnd /\ k2.fastresend = k.fastresend
        /\ k2.cwnd = k.cwnd
    BY <1>4 DEF Sender
  <1>8. Narrow(k2) /\ CwndOK(k2)
    BY <1>3, <1>6, <1>7 DEF Narrow, CwndOK
  <1> QED
    BY <1>8 DEF k2

LEMMA ResendKeeps ==
    ASSUME NEW k \in Sender, NEW m
    PROVE  Keeps(k, Resend(k, m))
  <1> DEFINE b == [i \in DOMAIN k.snd_buf |->
                     Transmitted(k, k.snd_buf[i], Reason(k, k.snd_buf[i], m))]
  <1>1. Len(k.snd_buf) \in Nat /\ DOMAIN k.snd_buf = 1..Len(k.snd_buf)
    BY SenderFields
  <1>2. Len(b) = Len(k.snd_buf)
    BY <1>1
  <1>3. Resend(k, m) = [k EXCEPT !.snd_buf = b]
    BY DEF Resend
  <1> HIDE DEF b
  <1> QED
    BY <1>1, <1>2, <1>3, KeepsBuf

(***************************************************************************)
(* Phase 6.  When fast retransmission is disabled, half + AllOnes wraps to *)
(* half - 1.                                                               *)
(***************************************************************************)
LEMMA HalvedIs ==
    ASSUME NEW x \in Nat, x <= snd_wnd
    PROVE  Halved(x) \in 1..Widest
  BY Limits, Sizes DEF Halved, Max0

LEMMA WrappedSum ==
    ASSUME NEW h \in 1..Widest, NEW k \in Sender, Narrow(k)
    PROVE  U32(h + Resent(k)) \in 0..MostWnd
  <1>1. k.fastresend \in Int /\ k.fastresend <= MostResend
    BY SenderFields DEF Narrow
  <1>2. CASE k.fastresend <= 0
    <2>1. h + Resent(k) = (h - 1) + Word /\ h - 1 \in Nat /\ (h - 1) + Word \in Int
      BY <1>2, WordHalf, Limits DEF Resent, AllOnes
    <2>2. U32((h - 1) + Word) \in Times
      BY <2>1, U32Value
    <2>3. h - 1 < Word => U32((h - 1) + Word) = h - 1
      <3>1. h - 1 < Word => Word <= (h - 1) + Word /\ (h - 1) + Word < 2 * Word
        BY <2>1, WordHalf
      <3>2. h - 1 < Word => U32((h - 1) + Word) = ((h - 1) + Word) - Word
        BY <2>1, <3>1, U32Value
      <3> QED
        BY <2>1, <3>2, WordHalf
    <2>4. U32((h - 1) + Word) \in 0..(h - 1)
      BY <2>1, <2>2, <2>3, WordHalf DEF Times
    <2> QED
      BY <2>1, <2>4, Limits
  <1>3. CASE k.fastresend > 0
    <2> DEFINE x == h + k.fastresend
    <2>1. x \in Nat /\ x <= MostWnd /\ x = h + Resent(k)
      BY <1>1, <1>3, Limits DEF Resent
    <2> HIDE DEF x
    <2>2. U32(x) \in Times /\ (x < Word => U32(x) = x)
      BY <2>1, U32Value
    <2>3. U32(x) \in 0..x
      BY <2>1, <2>2, WordHalf DEF Times
    <2> QED
      BY <2>1, <2>3, Limits
  <1> QED
    BY <1>1, <1>2, <1>3

LEMMA CongestionNarrow ==
    ASSUME NEW k \in Sender, Narrow(k), CwndOK(k), NEW w \in Nat, NEW why
    PROVE  Narrow(Congestion(k, w, why)) /\ CwndOK(Congestion(k, w, why))
  <1> DEFINE half == Halved(Len(k.snd_buf))
             cw == U32(half + Resent(k))
             k1 == IF why \intersect {"fast", "early"} = {} THEN k
                   ELSE [k EXCEPT !.ssthresh = half, !.cwnd = cw, !.incr = U32(cw * mss)]
             k2 == IF "rto" \notin why THEN k1
                   ELSE [k1 EXCEPT !.ssthresh = Halved(w), !.cwnd = 1, !.incr = mss]
             k3 == [k2 EXCEPT !.cwnd = 1, !.incr = mss]
             kc == Congestion(k, w, why)
             Fields(r) == /\ r.snd_buf = k.snd_buf /\ r.rmt_wnd = k.rmt_wnd
                          /\ r.fastresend = k.fastresend
  <1>1. kc = IF k.nocwnd # 0 THEN k ELSE IF k2.cwnd < 1 THEN k3 ELSE k2
    BY DEF Congestion
  <1>2. cw \in 0..MostWnd
    <2>1. Len(k.snd_buf) \in Nat /\ Len(k.snd_buf) <= snd_wnd
      BY SenderFields DEF Narrow
    <2>2. half \in 1..Widest
      BY <2>1, HalvedIs
    <2> HIDE DEF half
    <2> QED
      BY <2>2, WrappedSum
  <1>3. 1 \in 1..MostWnd /\ MostWnd \in Nat
    BY Limits, Sizes
  <1>4. k.cwnd \in Nat /\ (k.cwnd = kcp.cwnd \/ k.cwnd \in 1..MostWnd)
    BY SenderFields DEF CwndOK
  <1> HIDE DEF cw, half
  <1>5. Fields(k1) /\ (k1.cwnd = k.cwnd \/ k1.cwnd = cw)
    BY DEF Sender
  <1>6. DOMAIN k1 = DOMAIN k /\ k1 = [x \in DOMAIN k1 |-> k1[x]]
    BY DEF Sender
  <1>7. Fields(k2) /\ (k2.cwnd = k1.cwnd \/ k2.cwnd = 1) /\ DOMAIN k2 = DOMAIN k
    <2> HIDE DEF k1
    <2>1. DOMAIN k = {"snd_queue", "snd_buf", "rmt_wnd", "cwnd", "ssthresh", "incr",
                      "probe_wait", "ts_probe", "rx_rto", "rx_minrto", "nodelay",
                      "fastresend", "nocwnd"}
      BY DEF Sender
    <2> QED
      BY <1>5, <1>6, <2>1
  <1> HIDE DEF k1, k2
  <1>8. Fields(k3) /\ k3.cwnd = 1
    <2>1. {"snd_buf", "rmt_wnd", "fastresend", "cwnd", "incr"} \subseteq DOMAIN k2
      BY <1>7 DEF Sender
    <2> QED
      BY <1>7, <2>1
  <1> HIDE DEF k3
  <1>9. Fields(kc) /\ (kc.cwnd = kcp.cwnd \/ kc.cwnd \in 1..MostWnd)
    <2>1. k2.cwnd \in Nat /\ (k2.cwnd = kcp.cwnd \/ k2.cwnd \in 0..MostWnd)
      BY <1>2, <1>3, <1>4, <1>5, <1>7
    <2> HIDE DEF kc
    <2>2. CASE k.nocwnd # 0
      BY <1>1, <1>4, <2>2
    <2>3. CASE k.nocwnd = 0 /\ k2.cwnd < 1
      BY <1>1, <1>3, <1>8, <2>3
    <2>4. CASE k.nocwnd = 0 /\ ~(k2.cwnd < 1)
      BY <1>1, <1>3, <1>7, <2>1, <2>4
    <2> QED
      BY <2>2, <2>3, <2>4
  <1> HIDE DEF kc
  <1>10. Narrow(kc) /\ CwndOK(kc)
    BY <1>9 DEF Narrow, CwndOK
  <1> QED
    BY <1>10 DEF kc

LEMMA FlushedNarrow ==
    ASSUME NEW k, NEW full \in BOOLEAN, ClockInv(now, due), SenderInv(k, now, due),
           Narrow(k), CwndOK(k)
    PROVE  Narrow(Flushed(k, full)) /\ CwndOK(Flushed(k, full))
  <1> DEFINE k1 == FlushProbe(k)
             n == NewSegsCount(k1)
             k2 == Filled(k1)
             k3 == Resend(k2, n)
  <1>1. k \in Sender /\ SenderInv(k1, now, due) /\ k1 \in Sender
    BY FlushProbeGood DEF SenderInv
  <1>2. Narrow(k1) /\ CwndOK(k1)
    BY <1>1, ProbeKeeps, KeepsNarrow
  <1>3. Window(k1) \in Nat
    BY <1>1, WindowNat
  <1>4. SenderInv(k2, now, due) /\ k2 \in Sender
    BY <1>1, FilledGood DEF SenderInv
  <1>5. Narrow(k2) /\ CwndOK(k2)
    BY <1>1, <1>2, FilledNarrow
  <1>6. k3 \in Sender
    BY <1>4, ResendGood DEF SenderInv
  <1>7. Narrow(k3) /\ CwndOK(k3)
    BY <1>4, <1>5, <1>6, ResendKeeps, KeepsNarrow
  <1>8. Flushed(k, full) = IF full THEN Congestion(k3, Window(k1), Reasons(k2, n))
                           ELSE Congestion(k2, Window(k1), {})
    BY DEF Flushed
  <1> HIDE DEF k1, n, k2, k3
  <1>9. /\ Narrow(Congestion(k3, Window(k1), Reasons(k2, n)))
        /\ CwndOK(Congestion(k3, Window(k1), Reasons(k2, n)))
    BY <1>3, <1>6, <1>7, CongestionNarrow
  <1>10. Narrow(Congestion(k2, Window(k1), {})) /\ CwndOK(Congestion(k2, Window(k1), {}))
    BY <1>3, <1>4, <1>5, CongestionNarrow
  <1> QED
    BY <1>8, <1>9, <1>10

(***************************************************************************)
(* Input.                                                                  *)
(***************************************************************************)
LEMMA UnaKeeps ==
    ASSUME NEW k \in Sender, NEW c \in 0..Len(k.snd_buf)
    PROVE  Keeps(k, parse_una(k, c))
  <1>1. k.snd_buf \in Seq(Segment) /\ Len(k.snd_buf) \in Nat
    BY SenderFields
  <1>2. Len(SubSeq(k.snd_buf, c + 1, Len(k.snd_buf))) = Len(k.snd_buf) - c
    BY <1>1, RestOfSegs
  <1>3. Len(SubSeq(k.snd_buf, c + 1, Len(k.snd_buf))) <= Len(k.snd_buf)
    BY <1>1, <1>2
  <1> QED
    BY <1>3, KeepsBuf DEF parse_una

LEMMA AckKeeps ==
    ASSUME NEW k \in Sender, NEW i \in {0} \cup 1..Len(k.snd_buf)
    PROVE  Keeps(k, parse_ack(k, i))
  <1>1. k.snd_buf \in Seq(Segment) /\ Len(k.snd_buf) \in Nat
    BY SenderFields
  <1>2. CASE i = 0
    BY <1>1, <1>2 DEF parse_ack, Keeps
  <1>3. CASE i # 0
    <2> DEFINE s2 == [k.snd_buf[i] EXCEPT !.acked = TRUE, !.rto = 0, !.resendts = 0,
                                          !.outside = FALSE]
               b == [k.snd_buf EXCEPT ![i] = s2]
    <2>1. parse_ack(k, i) = [k EXCEPT !.snd_buf = b]
      BY <1>3, Zenon DEF parse_ack
    <2> HIDE DEF s2
    <2>2. Len(b) = Len(k.snd_buf)
      BY <1>1, <1>3
    <2> HIDE DEF b
    <2> QED
      BY <1>1, <2>1, <2>2, KeepsBuf
  <1> QED
    BY <1>2, <1>3

LEMMA FastackKeeps ==
    ASSUME NEW k \in Sender, NEW i, NEW ts
    PROVE  Keeps(k, parse_fastack(k, i, ts))
  <1> DEFINE J == Skipped(k, i, ts)
             f == [j \in DOMAIN k.snd_buf |->
                     IF j \in J THEN [k.snd_buf[j] EXCEPT !.fastack = @ + 1]
                     ELSE k.snd_buf[j]]
  <1>1. Len(k.snd_buf) \in Nat /\ DOMAIN k.snd_buf = 1..Len(k.snd_buf)
    BY SenderFields
  <1>2. parse_fastack(k, i, ts) = [k EXCEPT !.snd_buf = f]
    BY DEF parse_fastack
  <1>3. Len(f) = Len(k.snd_buf)
    BY <1>1
  <1> HIDE DEF f
  <1> QED
    BY <1>1, <1>2, <1>3, KeepsBuf

LEMMA EstimateKeeps ==
    ASSUME NEW k \in Sender, NEW k2 \in update_ack(k)
    PROVE  Keeps(k, k2)
  <1>1. Len(k.snd_buf) \in Nat
    BY SenderFields
  <1>2. ASSUME NEW r PROVE Keeps(k, [k EXCEPT !.rx_rto = r])
    BY <1>1 DEF Keeps, Sender
  <1> QED
    BY <1>2, Zenon DEF update_ack

(***************************************************************************)
(* The window grows up to the peer's.                                      *)
(***************************************************************************)
LEMMA GrowNarrow ==
    ASSUME NEW k \in Sender, Narrow(k), CwndOK(k)
    PROVE  Narrow(Grow(k)) /\ CwndOK(Grow(k))
  <1> DEFINE base == Max0(k.incr, mss)
             incr == base + (mss * mss) \div base + mss \div 16
             w == IF (k.cwnd + 1) * mss <= incr THEN (incr + mss - 1) \div mss ELSE k.cwnd
             k1 == IF k.cwnd < k.ssthresh
                   THEN [k EXCEPT !.cwnd = @ + 1, !.incr = @ + mss]
                   ELSE [k EXCEPT !.incr = incr, !.cwnd = w]
             k2 == [k1 EXCEPT !.cwnd = k.rmt_wnd, !.incr = k.rmt_wnd * mss]
             g == Grow(k)
             Fields(r) == /\ r.snd_buf = k.snd_buf /\ r.rmt_wnd = k.rmt_wnd
                          /\ r.fastresend = k.fastresend
  <1>1. k.cwnd \in Nat /\ k.incr \in Nat /\ k.rmt_wnd \in Nat /\ k.ssthresh \in Nat
    BY SenderFields
  <1>2. g = IF k.nocwnd # 0 \/ k.cwnd >= k.rmt_wnd THEN k
            ELSE IF k1.cwnd > k.rmt_wnd THEN k2 ELSE k1
    BY Zenon DEF Grow
  <1>3. w \in Nat /\ (w = k.cwnd \/ w >= 1)
    <2>1. base \in Nat /\ base >= mss /\ base >= 1
      BY <1>1, Sizes DEF Max0
    <2> HIDE DEF base
    <2>2. \A x, y \in Nat : y >= 1 => x \div y \in Nat
      OBVIOUS
    <2>3. mss * mss \in Nat /\ mss \div 16 \in Nat
      BY Sizes
    <2>4. (mss * mss) \div base \in Nat
      BY <2>1, <2>2, <2>3
    <2>5. incr \in Nat /\ incr >= 1
      BY <2>1, <2>3, <2>4
    <2> HIDE DEF incr
    <2>6. \A x, y \in Nat : x >= 1 /\ y >= 1 => /\ (x + y - 1) \div y \in Nat
                                                /\ (x + y - 1) \div y >= 1
      <3> SUFFICES ASSUME NEW x \in Nat, NEW y \in Nat, x >= 1, y >= 1
                   PROVE  /\ (x + y - 1) \div y \in Nat /\ (x + y - 1) \div y >= 1
        OBVIOUS
      <3> DEFINE z == x + y - 1
      <3>1. z \in Nat /\ z >= y
        OBVIOUS
      <3> HIDE DEF z
      <3>2. z \div y \in Nat /\ z = y * (z \div y) + (z % y) /\ z % y < y /\ z % y \in Nat
        BY <3>1
      <3>3. z \div y # 0
        BY <3>1, <3>2
      <3> QED
        BY <3>2, <3>3 DEF z
    <2> QED
      BY <1>1, <2>5, <2>6, Sizes
  <1> HIDE DEF w, incr
  <1>4. Fields(k1) /\ (k1.cwnd = k.cwnd + 1 \/ k1.cwnd = w) /\ DOMAIN k1 = DOMAIN k
    BY DEF Sender
  <1> HIDE DEF k1
  <1>5. Fields(k2) /\ k2.cwnd = k.rmt_wnd
    <2>1. {"snd_buf", "rmt_wnd", "fastresend", "cwnd", "incr"} \subseteq DOMAIN k1
      BY <1>4 DEF Sender
    <2> QED
      BY <1>4, <2>1
  <1> HIDE DEF k2, g
  <1>6. k.rmt_wnd <= MostWnd /\ MostWnd \in Nat /\ (k.cwnd = kcp.cwnd \/ k.cwnd \in 1..MostWnd)
    BY <1>1, Limits DEF Narrow, CwndOK
  <1>7. Fields(g) /\ (g.cwnd = kcp.cwnd \/ g.cwnd \in 1..MostWnd)
    <2>1. CASE k.nocwnd # 0 \/ k.cwnd >= k.rmt_wnd
      BY <1>2, <1>6, <2>1
    <2>2. CASE ~(k.nocwnd # 0 \/ k.cwnd >= k.rmt_wnd) /\ k1.cwnd > k.rmt_wnd
      <3>1. g = k2 /\ k.rmt_wnd \in 1..MostWnd
        BY <1>1, <1>2, <1>6, <2>2
      <3> QED
        BY <1>5, <3>1
    <2>3. CASE ~(k.nocwnd # 0 \/ k.cwnd >= k.rmt_wnd) /\ ~(k1.cwnd > k.rmt_wnd)
      <3>1. g = k1
        BY <1>2, <2>3
      <3>2. k1.cwnd = k.cwnd \/ k1.cwnd \in 1..MostWnd
        BY <1>1, <1>3, <1>4, <1>6, <2>3
      <3> QED
        BY <1>4, <1>6, <3>1, <3>2
    <2> QED
      BY <2>1, <2>2, <2>3
  <1>8. Narrow(g) /\ CwndOK(g)
    BY <1>7 DEF Narrow, CwndOK
  <1> QED
    BY <1>8 DEF g

LEMMA InputDoneNarrow ==
    ASSUME NEW k, ClockInv(now, due), SenderInv(k, now, due), Narrow(k), CwndOK(k),
           NEW c, NEW fast, NEW acks, InputDone(k, c, fast, acks)
    PROVE  Narrow(kcp') /\ CwndOK(kcp')
  <1> DEFINE k1 == IF c > 0 THEN Grow(k) ELSE k
  <1>1. SenderInv(k1, now, due) /\ Narrow(k1) /\ CwndOK(k1)
    BY GrowGood, GrowNarrow DEF SenderInv
  <1>2. kcp' \in {Flushed(k1, TRUE), Flushed(k1, FALSE), k1}
    BY DEF InputDone
  <1> HIDE DEF k1
  <1>3. /\ Narrow(Flushed(k1, TRUE)) /\ CwndOK(Flushed(k1, TRUE))
        /\ Narrow(Flushed(k1, FALSE)) /\ CwndOK(Flushed(k1, FALSE))
    BY <1>1, FlushedNarrow
  <1> QED
    BY <1>1, <1>2, <1>3

LEMMA ParseAckNarrow ==
    ASSUME NEW k, ClockInv(now, due), SenderInv(k, now, due), Narrow(k), CwndOK(k),
           NEW c, NEW regular \in BOOLEAN, ParseAck(k, c, regular)
    PROVE  Narrow(kcp') /\ CwndOK(kcp')
  <1>1. PICK i \in Sent(k) \cup {0} : \E a \in Ages(k, i) :
          LET ts == U32(now - a)
              k1 == parse_ack(k, i)
              k2 == parse_fastack(k1, i, ts)
          IN  \E k3 \in IF regular THEN update_ack(k2) ELSE {k2} :
                  InputDone(k3, c, shouldFastAck(k1, i, ts), FALSE)
    BY Zenon DEF ParseAck
  <1>2. PICK a \in Ages(k, i) :
          LET ts == U32(now - a)
              k1 == parse_ack(k, i)
              k2 == parse_fastack(k1, i, ts)
          IN  \E k3 \in IF regular THEN update_ack(k2) ELSE {k2} :
                  InputDone(k3, c, shouldFastAck(k1, i, ts), FALSE)
    BY <1>1, Zenon
  <1> DEFINE ts == U32(now - a)
             k1 == parse_ack(k, i)
             k2 == parse_fastack(k1, i, ts)
  <1>3. PICK k3 \in IF regular THEN update_ack(k2) ELSE {k2} :
          InputDone(k3, c, shouldFastAck(k1, i, ts), FALSE)
    BY <1>2, Zenon
  <1>4. i \in {0} \cup 1..Len(k.snd_buf) /\ k \in Sender
    BY BufParts DEF Sent, SenderInv
  <1> HIDE DEF ts
  <1>5. SenderInv(k1, now, due) /\ k1 \in Sender
    BY <1>4, AckGood DEF SenderInv
  <1>6. Narrow(k1) /\ CwndOK(k1)
    BY <1>4, <1>5, AckKeeps, KeepsNarrow
  <1> HIDE DEF k1
  <1>7. SenderInv(k2, now, due) /\ k2 \in Sender
    BY <1>5, FastackGood DEF SenderInv
  <1>8. Narrow(k2) /\ CwndOK(k2)
    BY <1>5, <1>6, <1>7, FastackKeeps, KeepsNarrow
  <1> HIDE DEF k2
  <1>9. SenderInv(k3, now, due) /\ k3 \in Sender
    BY <1>7, EstimateGood DEF SenderInv
  <1>10. Narrow(k3) /\ CwndOK(k3)
    BY <1>7, <1>8, <1>9, EstimateKeeps, KeepsNarrow
  <1> QED
    BY <1>3, <1>9, <1>10, InputDoneNarrow

LEMMA InputNarrow ==
    ASSUME TimerInv, Narrow(kcp), NEW c \in 0..Len(kcp.snd_buf),
           \/ \E wnd \in RmtWnds : InputAck(wnd, c)
           \/ InputAckRecovered(c)
           \/ \E wnd \in RmtWnds \cup {kcp.rmt_wnd}, acks \in BOOLEAN :
                  InputOther(wnd, c, acks)
    PROVE  Narrow(kcp') /\ CwndOK(kcp')
  <1>1. /\ ClockInv(now, due) /\ SenderInv(kcp, now, due) /\ kcp \in Sender /\ CwndOK(kcp)
        /\ kcp.rmt_wnd \in Nat /\ kcp.rmt_wnd <= Widest
    BY SenderFields DEF TimerInv, SenderInv, CwndOK, Narrow
  <1>2. ASSUME NEW wnd \in RmtWnds \cup {kcp.rmt_wnd}
        PROVE  LET k == parse_una([kcp EXCEPT !.rmt_wnd = wnd], c)
               IN  SenderInv(k, now, due) /\ Narrow(k) /\ CwndOK(k)
    <2> DEFINE k == [kcp EXCEPT !.rmt_wnd = wnd]
               u == parse_una(k, c)
    <2>1. wnd \in Nat /\ wnd <= Widest
      BY <1>1, <1>2, CountAssumption, Limits
    <2>2. SenderInv(k, now, due) /\ k.snd_buf = kcp.snd_buf /\ k \in Sender
      BY <1>1, <2>1, WndSet DEF SenderInv
    <2>3. k.rmt_wnd = wnd /\ k.fastresend = kcp.fastresend /\ k.cwnd = kcp.cwnd
      BY <1>1 DEF Sender
    <2> HIDE DEF k
    <2>4. Narrow(k) /\ CwndOK(k)
      BY <2>1, <2>2, <2>3 DEF Narrow, CwndOK
    <2>5. SenderInv(u, now, due) /\ u \in Sender
      BY <2>2, UnaGood DEF SenderInv
    <2>6. Narrow(u) /\ CwndOK(u)
      BY <2>2, <2>4, <2>5, UnaKeeps, KeepsNarrow
    <2> QED
      BY <2>5, <2>6 DEF k
  <1>3. LET k == parse_una(kcp, c) IN SenderInv(k, now, due) /\ Narrow(k) /\ CwndOK(k)
    <2>1. SenderInv(parse_una(kcp, c), now, due) /\ parse_una(kcp, c) \in Sender
      BY <1>1, UnaGood DEF SenderInv
    <2> QED
      BY <1>1, <2>1, UnaKeeps, KeepsNarrow
  <1>4. ASSUME NEW wnd \in RmtWnds, InputAck(wnd, c) PROVE Narrow(kcp') /\ CwndOK(kcp')
    <2>1. ParseAck(parse_una([kcp EXCEPT !.rmt_wnd = wnd], c), c, TRUE)
      BY <1>4 DEF InputAck
    <2> QED
      BY <1>1, <1>2, <1>4, <2>1, ParseAckNarrow, Zenon
  <1>5. ASSUME InputAckRecovered(c) PROVE Narrow(kcp') /\ CwndOK(kcp')
    <2>1. ParseAck(parse_una(kcp, c), c, FALSE)
      BY <1>5 DEF InputAckRecovered
    <2> QED
      BY <1>1, <1>3, <2>1, ParseAckNarrow, Zenon
  <1>6. ASSUME NEW wnd \in RmtWnds \cup {kcp.rmt_wnd}, NEW acks \in BOOLEAN,
               InputOther(wnd, c, acks)
        PROVE  Narrow(kcp') /\ CwndOK(kcp')
    <2>1. InputDone(parse_una([kcp EXCEPT !.rmt_wnd = wnd], c), c, FALSE, acks)
      BY <1>6 DEF InputOther
    <2> QED
      BY <1>1, <1>2, <1>6, <2>1, InputDoneNarrow, Zenon
  <1> QED
    BY <1>4, <1>5, <1>6

LEMMA StepNarrow ==
    ASSUME TimerInv, Narrow(kcp), [Next]_vars
    PROVE  Narrow(kcp') /\ CwndOK(kcp')
  <1>1. ClockInv(now, due) /\ SenderInv(kcp, now, due) /\ kcp \in Sender /\ CwndOK(kcp)
    BY DEF TimerInv, SenderInv, CwndOK
  <1>2. /\ TimerInv' /\ kcp' \in Sender
    BY TimersStep DEF TimerInv, SenderInv
  <1>3. Len(kcp.snd_buf) \in Nat
    BY <1>1, SenderFields
  <1>4. CASE Tick \/ UNCHANGED vars
    BY <1>1, <1>4 DEF Tick, vars
  <1>5. CASE update
    <2> DEFINE k == Flushed(kcp, TRUE)
               b == [i \in DOMAIN k.snd_buf |-> [k.snd_buf[i] EXCEPT !.outside = FALSE]]
    <2>1. Narrow(k) /\ CwndOK(k) /\ k \in Sender
      BY <1>1, FlushedGood, FlushedNarrow DEF SenderInv
    <2>2. kcp' = [k EXCEPT !.snd_buf = b]
      BY <1>5 DEF update
    <2> HIDE DEF k
    <2>3. Len(k.snd_buf) \in Nat /\ DOMAIN k.snd_buf = 1..Len(k.snd_buf)
      BY <2>1, SenderFields
    <2>4. Len(b) = Len(k.snd_buf)
      BY <2>3
    <2> HIDE DEF b
    <2>5. Keeps(k, kcp')
      BY <2>1, <2>2, <2>3, <2>4, KeepsBuf
    <2> QED
      BY <1>2, <2>1, <2>5, KeepsNarrow
  <1>6. ASSUME NEW delayed \in BOOLEAN, Write(delayed)
        PROVE  Narrow(kcp') /\ CwndOK(kcp')
    <2> DEFINE q == kcp.snd_queue + 1
               k == [kcp EXCEPT !.snd_queue = q]
    <2>1. kcp' = IF delayed THEN k ELSE Flushed(k, TRUE)
      BY <1>6 DEF Write
    <2>2. q \in Nat
      BY <1>1, SenderFields
    <2> HIDE DEF q
    <2>3. k \in Sender
      BY <1>1, <2>2 DEF Sender
    <2>4. Keeps(kcp, k)
      BY <1>1, <1>3 DEF Keeps, Sender
    <2>5. SameTimers(kcp, k)
      <3>1. k.snd_buf = kcp.snd_buf /\ k.probe_wait = kcp.probe_wait
            /\ k.ts_probe = kcp.ts_probe
        BY <1>1 DEF Sender
      <3> QED
        BY <2>3, <3>1 DEF SameTimers
    <2> HIDE DEF k
    <2>6. Narrow(k) /\ CwndOK(k) /\ SenderInv(k, now, due)
      BY <1>1, <2>3, <2>4, <2>5, KeepsNarrow, SameTimersGood
    <2> QED
      BY <1>1, <2>1, <2>6, FlushedNarrow
  <1>7. ASSUME NEW c \in 0..Len(kcp.snd_buf),
               \/ \E wnd \in RmtWnds : InputAck(wnd, c)
               \/ InputAckRecovered(c)
               \/ \E wnd \in RmtWnds \cup {kcp.rmt_wnd}, acks \in BOOLEAN :
                      InputOther(wnd, c, acks)
        PROVE  Narrow(kcp') /\ CwndOK(kcp')
    BY <1>7, InputNarrow
  <1>8. CASE ResetRTO
    <2> DEFINE b == [i \in DOMAIN kcp.snd_buf |->
                       IF kcp.snd_buf[i].acked THEN kcp.snd_buf[i]
                       ELSE [kcp.snd_buf[i] EXCEPT !.rto = kcp.rx_rto, !.resendts = now,
                                                   !.outside = TRUE]]
    <2>1. kcp' = [kcp EXCEPT !.snd_buf = b]
      BY <1>8 DEF ResetRTO
    <2>2. Len(b) = Len(kcp.snd_buf)
      BY <1>1, SenderFields
    <2> HIDE DEF b
    <2>3. Keeps(kcp, kcp')
      BY <1>1, <1>3, <2>1, <2>2, KeepsBuf
    <2> QED
      BY <1>1, <1>2, <2>3, KeepsNarrow
  <1>9. ASSUME NEW o \in Options, NoDelay(o) PROVE Narrow(kcp') /\ CwndOK(kcp')
    <2>1. /\ kcp'.snd_buf = kcp.snd_buf /\ kcp'.rmt_wnd = kcp.rmt_wnd
          /\ kcp'.fastresend = o.resend /\ kcp'.cwnd = kcp.cwnd
      BY <1>1, <1>9 DEF NoDelay, Sender
    <2> QED
      BY <1>9, <2>1, Limits DEF Narrow, CwndOK
  <1> QED
    BY <1>4, <1>5, <1>6, <1>7, <1>8, <1>9 DEF Next

(***************************************************************************)
(* The congestion window stays open and does not wrap: whatever flush and  *)
(* Input make of it (Congestion adds the largest word to ssthresh when     *)
(* fast retransmission is off, Grow adds to it for every ACK), it is at    *)
(* least one segment and at most the largest window there is plus resend.  *)
(***************************************************************************)
THEOREM CwndIsSane == Spec => WindowSane
  <1>1. Init => Narrow(kcp)
    <2> SUFFICES ASSUME Init PROVE Narrow(kcp)
      OBVIOUS
    <2>1. Len(kcp.snd_buf) = 0 /\ kcp.rmt_wnd = snd_wnd /\ kcp.fastresend = 0
      BY DEF Init, NewKCP
    <2> QED
      BY <2>1, Limits, Sizes DEF Narrow
  <1>2. TimerInv /\ Narrow(kcp) /\ [Next]_vars => Narrow(kcp)'
    BY StepNarrow
  <1>3. TimerInv /\ Narrow(kcp) /\ [Next]_vars
            => [kcp'.cwnd # kcp.cwnd => kcp'.cwnd \in 1..MostWnd]_vars
    BY StepNarrow DEF CwndOK
  <1> QED
    BY <1>1, <1>2, <1>3, TimersKept, PTL DEF Spec, WindowSane
=============================================================================
