------------------------------ MODULE KcpTimers ------------------------------
(***************************************************************************)
(* The timers of a KCP sender (src/kcp.go): the retransmission timer of    *)
(* every segment in snd_buf (RTO, fast and early retransmission), the RTT  *)
(* estimator, the congestion window, the window probe, and the delay that  *)
(* flush returns, after which UDPSession.update (src/sess.go) runs it next *)
(* time.  KcpLink leaves all of these to chance, because what it promises  *)
(* does not depend on them; here the data is left out and time is modelled.*)
(*                                                                         *)
(* Clock readings and counters are unsigned words: they wrap at Word, and  *)
(* readings are compared by the sign of their difference.  A handler takes *)
(* no time; the scheduler runs an update when it is due (Tick waits for    *)
(* it).  Sequence numbers only appear as positions in snd_buf.             *)
(***************************************************************************)
EXTENDS Integers, Sequences, FiniteSetsExt

CONSTANTS Word,             \* the number of values of a uint32 (even)
          IKCP_RTO_NDL, IKCP_RTO_MIN, IKCP_RTO_DEF, IKCP_RTO_MAX,
          IKCP_PROBE_INIT, IKCP_PROBE_LIMIT, IKCP_THRESH_MIN,
          interval,         \* the flush interval
          mss,              \* bytes of a segment
          snd_wnd,          \* the send window
          RmtWnds,          \* windows the peer advertises
          Options,          \* what NoDelay may be given: [nodelay, resend, nc]
          MaxQueue,         \* bound: segments in snd_queue
          MaxRto,           \* bound: the RTO a segment backs off to
          MaxRtt            \* bound: age of the transmission an ACK answers

ASSUME WordAssumption == Word \in Nat \ {0} /\ Word % 2 = 0
ASSUME TimeAssumption ==
    /\ {IKCP_RTO_NDL, IKCP_RTO_MIN, IKCP_RTO_DEF, IKCP_RTO_MAX} \subseteq Nat \ {0}
    /\ {IKCP_PROBE_INIT, IKCP_PROBE_LIMIT, interval, MaxRto} \subseteq Nat \ {0}
    /\ IKCP_RTO_MAX >= IKCP_RTO_DEF /\ IKCP_PROBE_LIMIT >= IKCP_PROBE_INIT
    \* a segment backs off at least once before the bound
    /\ MaxRto >= 2 * IKCP_RTO_MAX
    \* the longest wait of a timer and one interval more fit in half a turn
    /\ MaxRto + interval < Word \div 2
    /\ IKCP_PROBE_LIMIT + interval < Word \div 2
    /\ MaxRtt < Word \div 2
ASSUME CountAssumption ==
    /\ {mss, snd_wnd, MaxQueue, MaxRtt, IKCP_THRESH_MIN} \subseteq Nat \ {0}
    /\ RmtWnds \subseteq Nat
    /\ \A o \in Options : {o.nodelay, o.resend, o.nc} \subseteq Int
    \* there is a widest window and a largest resend, and it is not negative
    /\ \E w \in RmtWnds : \A v \in RmtWnds : v <= w
    /\ \E o \in Options : o.resend >= 0 /\ \A p \in Options : p.resend <= o.resend

VARIABLES now,   \* currentMs()
          kcp,   \* the sender
          due    \* when the scheduler runs update

vars == <<now, kcp, due>>

Max0(a, b) == IF a >= b THEN a ELSE b

Min0(a, b) == IF a <= b THEN a ELSE b

U32(x) == x % Word

\* variant: the readings themselves are compared
itimediff_Unsigned(later, earlier) == later - earlier

itimediff(later, earlier) ==
    LET d == U32(later - earlier)
    IN  IF d < Word \div 2 THEN d ELSE d - Word

(***************************************************************************)
(* fastack of a segment that waits for its RTO, and the threshold that no  *)
(* counter reaches.                                                        *)
(***************************************************************************)
AllOnes == Word - 1

(***************************************************************************)
(* A segment popped from snd_queue.  sent stands for xmit # 0 (dead_link   *)
(* only sets a state that nobody reads).  outside is history: the timer    *)
(* was set since the last update, by a flush that another handler ran or   *)
(* by ResetRTO.                                                            *)
(***************************************************************************)
NewSeg == [sent |-> FALSE, rto |-> 0, resendts |-> 0, ts |-> 0, fastack |-> 0,
           acked |-> FALSE, outside |-> FALSE]

NewKCP == [snd_queue |-> 0, snd_buf |-> <<>>, rmt_wnd |-> snd_wnd,
           cwnd |-> 0, ssthresh |-> 2, incr |-> 0,
           probe_wait |-> 0, ts_probe |-> 0,
           rx_rto |-> IKCP_RTO_DEF, rx_minrto |-> IKCP_RTO_MIN,
           nodelay |-> 0, fastresend |-> 0, nocwnd |-> 0]

Init == /\ now = 0
        /\ kcp = NewKCP
        /\ due = 0

-----------------------------------------------------------------------------
(***************************************************************************)
(* flush.                                                                  *)
(***************************************************************************)

(***************************************************************************)
(* Phase 2: the probe timer starts when the peer's window is seen closed,  *)
(* and backs off each time it expires (a WASK is sent then, phase 3).      *)
(***************************************************************************)
FlushProbe(k) ==
    IF k.rmt_wnd # 0 THEN [k EXCEPT !.probe_wait = 0, !.ts_probe = 0]
    ELSE IF k.probe_wait = 0
         THEN [k EXCEPT !.probe_wait = IKCP_PROBE_INIT,
                        !.ts_probe = U32(now + IKCP_PROBE_INIT)]
         ELSE IF itimediff(now, k.ts_probe) < 0 THEN k
              ELSE LET w0 == Max0(k.probe_wait, IKCP_PROBE_INIT)
                       w == Min0(w0 + w0 \div 2, IKCP_PROBE_LIMIT)
                   IN  [k EXCEPT !.probe_wait = w, !.ts_probe = U32(now + w)]

\* The effective window of phase 4.
Window(k) == LET w == Min0(snd_wnd, k.rmt_wnd)
             IN  IF k.nocwnd = 0 THEN Min0(k.cwnd, w) ELSE w

\* Phase 4: the segments that enter snd_buf.
NewSegsCount(k) == Min0(k.snd_queue, Max0(0, Window(k) - Len(k.snd_buf)))

Filled(k) == [k EXCEPT !.snd_queue = @ - NewSegsCount(k),
                       !.snd_buf = @ \o [i \in 1..NewSegsCount(k) |-> NewSeg]]

\* variant: the largest signed number stands for "disabled"
Resent_Signed(k) == IF k.fastresend <= 0 THEN Word \div 2 - 1 ELSE k.fastresend

\* The fast retransmit threshold; AllOnes when it is disabled.
Resent(k) == IF k.fastresend <= 0 THEN AllOnes ELSE k.fastresend

(***************************************************************************)
(* Phase 5: why a segment of snd_buf is sent, if it is.  n is the number   *)
(* of segments that have just entered snd_buf.                             *)
(***************************************************************************)
Reason(k, seg, n) ==
    CASE seg.acked -> "none"
      [] ~seg.acked /\ ~seg.sent -> "initial"
      [] ~seg.acked /\ seg.sent ->
            IF seg.fastack >= Resent(k) /\ seg.fastack # AllOnes THEN "fast"
            ELSE IF seg.fastack > 0 /\ seg.fastack # AllOnes /\ n = 0 THEN "early"
            ELSE IF itimediff(now, seg.resendts) >= 0 THEN "rto" ELSE "none"

Backoff(k) == IF k.nodelay = 0 THEN k.rx_rto ELSE k.rx_rto \div 2

Transmitted(k, seg, why) ==
    LET rto == IF why = "rto" THEN seg.rto + Backoff(k) ELSE k.rx_rto
        fa == CASE why = "initial" -> seg.fastack
                [] why \in {"fast", "early"} -> AllOnes
                [] why = "rto" -> 0
    IN  IF why = "none" THEN seg
        ELSE [seg EXCEPT !.sent = TRUE, !.rto = rto, !.resendts = U32(now + rto),
                         !.ts = now, !.fastack = fa, !.outside = TRUE]

Resend(k, n) ==
    [k EXCEPT !.snd_buf = [i \in DOMAIN @ |-> Transmitted(k, @[i], Reason(k, @[i], n))]]

Reasons(k, n) == {Reason(k, k.snd_buf[i], n) : i \in DOMAIN k.snd_buf}

Halved(x) == Max0(x \div 2, IKCP_THRESH_MIN)

(***************************************************************************)
(* Phase 6: the congestion window after fast or early retransmission, and  *)
(* then after a timeout.  w is the window phase 4 used.                    *)
(***************************************************************************)
Congestion(k, w, why) ==
    LET half == Halved(Len(k.snd_buf))
        k1 == IF why \intersect {"fast", "early"} = {} THEN k
              ELSE [k EXCEPT !.ssthresh = half, !.cwnd = U32(half + Resent(k)),
                             !.incr = U32(U32(half + Resent(k)) * mss)]
        k2 == IF "rto" \notin why THEN k1
              ELSE [k1 EXCEPT !.ssthresh = Halved(w), !.cwnd = 1, !.incr = mss]
    IN  IF k.nocwnd # 0 THEN k
        ELSE IF k2.cwnd < 1 THEN [k2 EXCEPT !.cwnd = 1, !.incr = mss] ELSE k2

Flushed(k, full) ==
    LET k1 == FlushProbe(k)
        n == NewSegsCount(k1)
        k2 == Filled(k1)
    IN  IF full THEN Congestion(Resend(k2, n), Window(k1), Reasons(k2, n))
        ELSE Congestion(k2, Window(k1), {})

\* variant: flush returns the interval, whatever is in flight
NextUpdate_Interval(k) == interval

(***************************************************************************)
(* What flush returns: the interval, or the time to the nearest RTO.       *)
(***************************************************************************)
NextUpdate(k) ==
    LET live == {i \in DOMAIN k.snd_buf : ~k.snd_buf[i].acked}
        rto == {itimediff(k.snd_buf[i].resendts, now) : i \in live}
    IN  Min({interval} \cup {r \in rto : r > 0})

(***************************************************************************)
(* UDPSession.update: flush, and schedule the next update.                 *)
(***************************************************************************)
update ==
    /\ now = due
    /\ LET k == Flushed(kcp, TRUE)
       IN  /\ kcp' = [k EXCEPT !.snd_buf = [i \in DOMAIN @ |-> [@[i] EXCEPT !.outside = FALSE]]]
           /\ due' = U32(now + NextUpdate(k))
    /\ UNCHANGED now

-----------------------------------------------------------------------------
(***************************************************************************)
(* WriteBuffers: a segment is queued, and flushed at once unless the write *)
(* is delayed.                                                             *)
(***************************************************************************)
Write(delayed) ==
    /\ kcp.snd_queue < MaxQueue
    /\ LET k == [kcp EXCEPT !.snd_queue = @ + 1]
       IN  kcp' = IF delayed THEN k ELSE Flushed(k, TRUE)
    /\ UNCHANGED <<now, due>>

-----------------------------------------------------------------------------
(***************************************************************************)
(* Input of a datagram with one segment.                                   *)
(***************************************************************************)

\* parse_una and shrink_buf: the first c segments leave snd_buf.
parse_una(k, c) == [k EXCEPT !.snd_buf = SubSeq(@, c + 1, Len(@))]

(***************************************************************************)
(* parse_ack: i is the segment's place in snd_buf, 0 when it has left it.  *)
(* Nothing looks at the timer of an acknowledged segment again, so that it *)
(* is forgotten here.                                                      *)
(***************************************************************************)
parse_ack(k, i) ==
    IF i = 0 THEN k
    ELSE [k EXCEPT !.snd_buf[i] = [@ EXCEPT !.acked = TRUE, !.rto = 0, !.resendts = 0,
                                            !.outside = FALSE]]

\* The segments that parse_fastack counts an ACK of segment i against.
Skipped(k, i, ts) ==
    {j \in 1..(i - 1) : /\ itimediff(k.snd_buf[j].ts, ts) <= 0
                        /\ k.snd_buf[j].fastack # AllOnes}

parse_fastack(k, i, ts) ==
    LET b == k.snd_buf
    IN  [k EXCEPT !.snd_buf = [j \in DOMAIN b |->
            IF j \in Skipped(k, i, ts) THEN [b[j] EXCEPT !.fastack = @ + 1] ELSE b[j]]]

shouldFastAck(k, i, ts) ==
    \E j \in Skipped(k, i, ts) : k.snd_buf[j].fastack + 1 >= k.fastresend

(***************************************************************************)
(* update_ack: whatever the sample and the estimate before it, the new RTO *)
(* is at least the interval and the minimum, and at most the maximum.      *)
(***************************************************************************)
update_ack(k) ==
    {[k EXCEPT !.rx_rto = Min0(Max0(k.rx_minrto, interval + srtt), IKCP_RTO_MAX)]
        : srtt \in 0..IKCP_RTO_MAX}

(***************************************************************************)
(* The congestion window grows when snd_una has advanced: by one below     *)
(* ssthresh, then by about one segment a round trip.                       *)
(***************************************************************************)
Grow(k) ==
    LET base == Max0(k.incr, mss)
        incr == base + (mss * mss) \div base + mss \div 16
        k1 == IF k.cwnd < k.ssthresh
              THEN [k EXCEPT !.cwnd = @ + 1, !.incr = @ + mss]
              ELSE [k EXCEPT !.incr = incr,
                             !.cwnd = IF (@ + 1) * mss <= incr
                                      THEN (incr + mss - 1) \div mss ELSE @]
    IN  IF k.nocwnd # 0 \/ k.cwnd >= k.rmt_wnd THEN k
        ELSE IF k1.cwnd > k.rmt_wnd
             THEN [k1 EXCEPT !.cwnd = k.rmt_wnd, !.incr = k.rmt_wnd * mss]
             ELSE k1

\* What the peer can acknowledge: segments that have been sent.
Sent(k) == {i \in DOMAIN k.snd_buf : k.snd_buf[i].sent}

Elapsed(ts) == U32(now - ts)

(***************************************************************************)
(* The ages of the transmission an ACK of segment i may answer: that of    *)
(* the last one, or more.  (Nobody looks at it when i has left snd_buf.)   *)
(***************************************************************************)
Ages(k, i) == IF i = 0 THEN {0}
              ELSE LET last == Elapsed(k.snd_buf[i].ts) IN last..Max0(last, MaxRtt)

(***************************************************************************)
(* The rest of Input, once its segments are parsed: flush in full if the   *)
(* window slid or a segment was skipped often enough, else the ACKs alone  *)
(* when enough of them wait (acks: a PUSH has just added one).             *)
(***************************************************************************)
InputDone(k, c, fast, acks) ==
    LET k1 == IF c > 0 THEN Grow(k) ELSE k
    IN  kcp' = IF c > 0 \/ fast THEN Flushed(k1, TRUE)
               ELSE IF acks THEN Flushed(k1, FALSE) ELSE k1

(***************************************************************************)
(* parse_ack and parse_fastack of an ACK of segment i sent a ms ago.  Only *)
(* a regular packet gives an RTT sample.                                   *)
(***************************************************************************)
ParseAck(k, c, regular) ==
    \E i \in Sent(k) \cup {0} : \E a \in Ages(k, i) :
        LET ts == U32(now - a)
            k1 == parse_ack(k, i)
            k2 == parse_fastack(k1, i, ts)
        IN  \E k3 \in IF regular THEN update_ack(k2) ELSE {k2} :
                InputDone(k3, c, shouldFastAck(k1, i, ts), FALSE)

\* An ACK in a regular packet: a window and an RTT sample come with it.
InputAck(wnd, c) ==
    /\ 1..c \subseteq Sent(kcp)
    /\ ParseAck(parse_una([kcp EXCEPT !.rmt_wnd = wnd], c), c, TRUE)
    /\ UNCHANGED <<now, due>>

\* An ACK in a packet that FEC recovered.
InputAckRecovered(c) ==
    /\ 1..c \subseteq Sent(kcp)
    /\ ParseAck(parse_una(kcp, c), c, FALSE)
    /\ UNCHANGED <<now, due>>

\* A PUSH, WASK or WINS: its una, and its window unless FEC recovered it.
InputOther(wnd, c, acks) ==
    /\ 1..c \subseteq Sent(kcp)
    /\ InputDone(parse_una([kcp EXCEPT !.rmt_wnd = wnd], c), c, FALSE, acks)
    /\ UNCHANGED <<now, due>>

-----------------------------------------------------------------------------
\* ResetRTO: every segment in flight is due now.
ResetRTO ==
    /\ kcp' = [kcp EXCEPT !.snd_buf = [i \in DOMAIN @ |->
                  IF @[i].acked THEN @[i]
                  ELSE [@[i] EXCEPT !.rto = kcp.rx_rto, !.resendts = now, !.outside = TRUE]]]
    /\ UNCHANGED <<now, due>>

NoDelay(o) ==
    /\ kcp' = [kcp EXCEPT !.nodelay = o.nodelay, !.fastresend = o.resend, !.nocwnd = o.nc,
                          !.rx_minrto = IF o.nodelay # 0 THEN IKCP_RTO_NDL ELSE IKCP_RTO_MIN]
    /\ UNCHANGED <<now, due>>

(***************************************************************************)
(* Time passes, but not past an update that is due; and the ACK of a       *)
(* segment that could back off beyond MaxRto comes before its timeout.     *)
(***************************************************************************)
Tick ==
    /\ now # due
    /\ \A i \in DOMAIN kcp.snd_buf :
           LET seg == kcp.snd_buf[i]
           IN  ~seg.acked /\ seg.rto > MaxRto - IKCP_RTO_MAX => itimediff(seg.resendts, now) > 1
    /\ now' = U32(now + 1)
    /\ UNCHANGED <<kcp, due>>

Next ==
    \/ Tick
    \/ update
    \/ \E delayed \in BOOLEAN : Write(delayed)
    \/ \E c \in 0..Len(kcp.snd_buf) :
           \/ \E wnd \in RmtWnds : InputAck(wnd, c)
           \/ InputAckRecovered(c)
           \/ \E wnd \in RmtWnds \cup {kcp.rmt_wnd}, acks \in BOOLEAN : InputOther(wnd, c, acks)
    \/ ResetRTO
    \/ \E o \in Options : NoDelay(o)

Spec == Init /\ [][Next]_vars

-----------------------------------------------------------------------------
(***************************************************************************)
(* Correctness.                                                            *)
(***************************************************************************)

(***************************************************************************)
(* Retransmission is on time, wherever the clock stands: the timer of a    *)
(* segment in flight ends at most its rto from now; the next update comes  *)
(* no later than the timer ends, or, when the timer was set since the last *)
(* update, at most an interval later.                                      *)
(***************************************************************************)
RetransmitOnTime ==
    \A i \in DOMAIN kcp.snd_buf :
        LET seg == kcp.snd_buf[i]
            late == itimediff(due, seg.resendts)
        IN  seg.sent /\ ~seg.acked =>
                /\ itimediff(seg.resendts, now) <= seg.rto
                /\ IF seg.outside THEN late <= interval ELSE late <= 0

(***************************************************************************)
(* The probe of a closed window is on time: the timer ends at most its own *)
(* length from now, which is within its limits, and an update follows      *)
(* within an interval.  A window that closes again starts it afresh.       *)
(***************************************************************************)
ProbeOnTime ==
    kcp.probe_wait # 0 =>
        /\ kcp.probe_wait \in IKCP_PROBE_INIT..IKCP_PROBE_LIMIT
        /\ itimediff(kcp.ts_probe, now) <= kcp.probe_wait
        /\ itimediff(due, kcp.ts_probe) < interval

\* The largest window of either peer, or the threshold, and resend.
MostWnd == Max({snd_wnd, IKCP_THRESH_MIN} \cup RmtWnds) + Max({o.resend : o \in Options})

(***************************************************************************)
(* The congestion window stays open and does not wrap: even when flush     *)
(* adds the largest word to ssthresh (fast retransmission disabled, early  *)
(* retransmission not), a step that changes the window leaves it between 1 *)
(* and the largest window there is (MostWnd).                              *)
(***************************************************************************)
WindowSane == [][kcp'.cwnd # kcp.cwnd => kcp'.cwnd \in 1..MostWnd]_vars
=============================================================================
