------------------------------ MODULE KcpLink ------------------------------
(***************************************************************************)
(* Two KCP endpoints (kcp.go) joined by an unreliable datagram network.    *)
(*                                                                         *)
(* kcp[p] is the protocol state of endpoint p, one field for each field of *)
(* the KCP struct that decides what is sent, kept or delivered.  A segment *)
(* is identified by its sequence number; its payload is abstracted to a    *)
(* fragment [msg, frg].  Sequence numbers are unbounded here.              *)
(*                                                                         *)
(* Time is abstracted.  A flush is given a record t of timing outcomes:    *)
(* which of the segments in flight are retransmitted (RTO, fast or early   *)
(* retransmit), whether the window probe timer has expired, and the value  *)
(* of the congestion window.                                               *)
(*                                                                         *)
(* What one flush hands to the output callback is a burst: a set of wire   *)
(* segments, all stamped with the same una and wnd.  A datagram is a burst *)
(* or, when payloads fill the MTU, one segment of it (makeSpace).          *)
(* KCP.Input runs under the session's mutex: inp[p] is the datagram that p *)
(* is working through, one segment per step, and no other operation of p   *)
(* is enabled until it ends.                                               *)
(***************************************************************************)
EXTENDS Integers, Sequences, FiniteSets

CONSTANTS Peers,       \* the two endpoints
          FragCounts,  \* numbers of fragments a message may have
          MaxFrags,    \* [Peers -> Nat], bound on the fragments p writes
          SndWnds,     \* send window sizes (WndSize), the default included
          RcvWnds,     \* receive window sizes
          RmtWndInit,  \* rmt_wnd of a new KCP (IKCP_WND_RCV)
          SndWndInit, RcvWndInit,   \* snd_wnd and rcv_wnd when Spec starts
          CwndChoices, \* values of the congestion window (see Cwnd)
          AckClock,    \* mtu / IKCP_OVERHEAD, the ACK list's flush threshold
          AckNoDelay,  \* the ackNoDelay argument of Input
          WndMod,      \* 2^16, the range of a segment's wnd field
          NetCap,      \* [Peers -> Nat], bound on the bursts under way to p
          MaxFaults,   \* bound on the datagrams lost, duplicated or garbled
          Ordered,     \* TRUE: datagrams arrive in the order they are sent
          Coalesce,    \* TRUE: a burst fits in one datagram
          FecRecovery  \* TRUE: a datagram may be recovered by FEC

ASSUME PeersAssumption == \E x, y \in Peers : x # y /\ Peers = {x, y}
ASSUME FragCountsAssumption == FragCounts \subseteq 1..255
ASSUME WindowAssumption ==
    /\ SndWnds \subseteq Nat \ {0} /\ SndWndInit \in Nat \ {0}
    /\ RcvWnds \subseteq Nat \ {0} /\ RcvWndInit \in Nat \ {0}
    /\ RmtWndInit \in Nat
    /\ CwndChoices \subseteq Nat
    /\ WndMod \in Nat \ {0}
ASSUME BoundAssumption ==
    /\ MaxFrags \in [Peers -> Nat] /\ NetCap \in [Peers -> Nat]
    /\ AckClock \in Nat /\ MaxFaults \in Nat
    /\ {AckNoDelay, Ordered, Coalesce, FecRecovery} \subseteq BOOLEAN

VARIABLES kcp,      \* protocol state of each endpoint
          inp,      \* the datagram each endpoint's Input is working through
          net,      \* net[p]: bursts under way to p
          written,  \* history: fragments p's user has passed to Send
          read,     \* history: fragments p's user has got from Recv
          faults    \* number of datagrams lost, duplicated or garbled so far

vars == <<kcp, inp, net, written, read, faults>>

Other(p) == CHOOSE q \in Peers : q # p

Frag == [msg : Nat, frg : 0..255]

(***************************************************************************)
(* The payload of a segment without data (ACK, WASK, WINS), and of one     *)
(* whose buffer recycleSegment has given back to the pool.                 *)
(***************************************************************************)
Recycled == [msg |-> 0, frg |-> 0]

Wire == [cmd : {"PUSH", "ACK", "WASK", "WINS"}, sn : Nat, frag : Frag,
         una : Nat, wnd : Nat]

SndSeg == [sn : Nat, frag : Frag, sent : BOOLEAN, acked : BOOLEAN]

RcvSeg == [sn : Nat, frag : Frag]

Idle == [busy |-> FALSE, segs |-> {}, full |-> FALSE, reg |-> TRUE]

NewKCP == [snd_una |-> 0, snd_nxt |-> 0, rcv_nxt |-> 0,
           snd_wnd |-> SndWndInit, rcv_wnd |-> RcvWndInit,
           rmt_wnd |-> RmtWndInit,
           probe |-> {}, probing |-> FALSE,
           snd_queue |-> <<>>, snd_buf |-> <<>>,
           rcv_queue |-> <<>>, rcv_buf |-> {},
           acklist |-> <<>>]

Init == /\ kcp = [p \in Peers |-> NewKCP]
        /\ inp = [p \in Peers |-> Idle]
        /\ net = [p \in Peers |-> <<>>]
        /\ written = [p \in Peers |-> <<>>]
        /\ read = [p \in Peers |-> <<>>]
        /\ faults = 0

-----------------------------------------------------------------------------
(***************************************************************************)
(* Flush.                                                                  *)
(***************************************************************************)

(***************************************************************************)
(* The receive window advertised on the wire.  It is a uint16.             *)
(***************************************************************************)
wnd_unused(k) == IF Len(k.rcv_queue) < k.rcv_wnd
                 THEN (k.rcv_wnd - Len(k.rcv_queue)) % WndMod
                 ELSE 0

WireSeg(k, cmd, sn, frag) ==
    [cmd |-> cmd, sn |-> sn, frag |-> frag,
     una |-> k.rcv_nxt, wnd |-> wnd_unused(k)]

(***************************************************************************)
(* Phase 1: the pending ACKs.  Those una already covers are left out, but  *)
(* the last one is always sent.                                            *)
(***************************************************************************)
FlushAcks(k) ==
    {WireSeg(k, "ACK", k.acklist[i], Recycled) :
        i \in {j \in DOMAIN k.acklist : \/ k.acklist[j] >= k.rcv_nxt
                                        \/ j = Len(k.acklist)}}

(***************************************************************************)
(* Phases 2 and 3: the probe flags once the probe timer has been looked    *)
(* at, and the probe commands they cause.                                  *)
(***************************************************************************)
ProbeFlags(k, t) ==
    k.probe \cup IF k.rmt_wnd = 0 /\ k.probing /\ t.expired
                 THEN {"ASK_SEND"} ELSE {}

FlushProbes(k, t) ==
    {WireSeg(k, IF f = "ASK_SEND" THEN "WASK" ELSE "WINS", 0, Recycled) :
        f \in ProbeFlags(k, t)}

(***************************************************************************)
(* Phase 4: the segments the effective window admits move from snd_queue   *)
(* to snd_buf.                                                             *)
(***************************************************************************)
Cwnd(k, t) == LET w == IF k.snd_wnd < k.rmt_wnd THEN k.snd_wnd ELSE k.rmt_wnd
              IN  IF t.cwnd < w THEN t.cwnd ELSE w

NewSegsCount(k, t) ==
    LET room == k.snd_una + Cwnd(k, t) - k.snd_nxt
    IN  IF room <= 0 THEN 0
        ELSE IF room < Len(k.snd_queue) THEN room ELSE Len(k.snd_queue)

\* variant: sequence numbers assigned from snd_una
SndBufFilled_FromUna(k, t) ==
    k.snd_buf \o [i \in 1..NewSegsCount(k, t) |->
                     [sn |-> k.snd_una + i - 1, frag |-> k.snd_queue[i],
                      sent |-> FALSE, acked |-> FALSE]]

SndBufFilled(k, t) ==
    k.snd_buf \o [i \in 1..NewSegsCount(k, t) |->
                     [sn |-> k.snd_nxt + i - 1, frag |-> k.snd_queue[i],
                      sent |-> FALSE, acked |-> FALSE]]

(***************************************************************************)
(* Phase 5, in a full flush only: what is sent or resent from snd_buf.     *)
(***************************************************************************)
\* variant: nothing is sent twice
NeedSend_Once(seg, t) == ~seg.acked /\ ~seg.sent

NeedSend(seg, t) == ~seg.acked /\ (~seg.sent \/ seg.sn \in t.rto)

FlushData(k, t) ==
    LET b == SndBufFilled(k, t)
    IN  {WireSeg(k, "PUSH", b[i].sn, b[i].frag) :
            i \in {j \in DOMAIN b : NeedSend(b[j], t)}}

(***************************************************************************)
(* What flush(FULL) or flush(ACKONLY) hands to the output callback, and    *)
(* the state it leaves.                                                    *)
(***************************************************************************)
Burst(k, full, t) ==
    FlushAcks(k) \cup FlushProbes(k, t)
                 \cup IF full THEN FlushData(k, t) ELSE {}

Flushed(k, full, t) ==
    LET n == NewSegsCount(k, t)
        b == SndBufFilled(k, t)
    IN [k EXCEPT
          !.acklist = <<>>,
          !.probe = {},
          !.probing = (k.rmt_wnd = 0),
          !.snd_queue = SubSeq(@, n + 1, Len(@)),
          !.snd_nxt = @ + n,
          !.snd_buf = IF full
                      THEN [i \in DOMAIN b |->
                               [b[i] EXCEPT !.sent = @ \/ NeedSend(b[i], t)]]
                      ELSE b]

(***************************************************************************)
(* The timing outcomes possible in state k.                                *)
(***************************************************************************)
InFlight(k) ==
    {k.snd_buf[i].sn : i \in {j \in DOMAIN k.snd_buf :
                                 k.snd_buf[j].sent /\ ~k.snd_buf[j].acked}}

Timings(k) ==
    [rto : SUBSET InFlight(k),
     expired : IF k.rmt_wnd = 0 /\ k.probing THEN BOOLEAN ELSE {FALSE},
     cwnd : CwndChoices]

(***************************************************************************)
(* The output callback: the burst is appended to what is under way to the  *)
(* opposite endpoint, or dropped by a network that is full.                *)
(***************************************************************************)
output(p, b) ==
    LET o == Other(p)
    IN  net' = IF b = {} \/ Len(net[o]) >= NetCap[o] THEN net
               ELSE [net EXCEPT ![o] = Append(@, b)]

flush(p, k, full, t) ==
    /\ kcp' = [kcp EXCEPT ![p] = Flushed(k, full, t)]
    /\ output(p, Burst(k, full, t))

-----------------------------------------------------------------------------
(***************************************************************************)
(* The user's operations.                                                  *)
(***************************************************************************)

(***************************************************************************)
(* Send, in message mode: a message of c fragments joins snd_queue.        *)
(***************************************************************************)
Fragments(m, c) == [i \in 1..c |-> [msg |-> m, frg |-> c - i]]

Send(p, c) ==
    LET fs == Fragments(Len(written[p]) + 1, c)
    IN  /\ ~inp[p].busy
        /\ Len(written[p]) + c <= MaxFrags[p]
        /\ kcp' = [kcp EXCEPT ![p].snd_queue = @ \o fs]
        /\ written' = [written EXCEPT ![p] = @ \o fs]
        /\ UNCHANGED <<inp, net, read, faults>>

(***************************************************************************)
(* A whole message is at the front of rcv_queue.                           *)
(***************************************************************************)
\* variant: the number of fragments is not looked at
PeekSize_Any(k) == k.rcv_queue # <<>>

PeekSize(k) ==
    /\ k.rcv_queue # <<>>
    /\ \/ k.rcv_queue[1].frg = 0
       \/ Len(k.rcv_queue) >= (k.rcv_queue[1].frg + 1) % 256

(***************************************************************************)
(* The merge loop of Recv stops after the j-th fragment.                   *)
(***************************************************************************)
\* variant: the loop does not stop at the end of a message
MergeStops_All(k, j) == j = Len(k.rcv_queue)

MergeStops(k, j) ==
    /\ k.rcv_queue[j].frg = 0 \/ j = Len(k.rcv_queue)
    /\ \A i \in 1..(j - 1) : k.rcv_queue[i].frg # 0

(***************************************************************************)
(* rcv_buf, a heap without duplicates, is a set of segments: Has(k, sn) is *)
(* its membership test and FragOf(k, sn) the payload kept for sn.          *)
(***************************************************************************)
Has(k, sn) == \E e \in k.rcv_buf : e.sn = sn

FragOf(k, sn) == (CHOOSE e \in k.rcv_buf : e.sn = sn).frag

(***************************************************************************)
(* The loop that moves available data from rcv_buf to rcv_queue moves n    *)
(* segments: it stops at a gap, or when rcv_queue fills the window.        *)
(***************************************************************************)
\* variant: one segment is moved at most
MoveStops_Once(k, n) ==
    n = IF Has(k, k.rcv_nxt) /\ Len(k.rcv_queue) < k.rcv_wnd THEN 1 ELSE 0

MoveStops(k, n) ==
    /\ \A i \in 0..(n - 1) : Has(k, k.rcv_nxt + i)
    /\ n > 0 => /\ Len(k.rcv_queue) + n <= k.rcv_wnd
                /\ \A e \in k.rcv_buf : e.sn >= k.rcv_nxt
    /\ \/ ~Has(k, k.rcv_nxt + n)
       \/ Len(k.rcv_queue) + n >= k.rcv_wnd
       \/ \E e \in k.rcv_buf : e.sn < k.rcv_nxt

MoveReady(k, n) ==
    [k EXCEPT
       !.rcv_queue = @ \o [i \in 1..n |-> FragOf(k, k.rcv_nxt + i - 1)],
       !.rcv_nxt = @ + n,
       !.rcv_buf = {e \in @ : e.sn < k.rcv_nxt \/ e.sn >= k.rcv_nxt + n}]

(***************************************************************************)
(* Recv: the message leaves rcv_queue, rcv_buf refills it, and a window    *)
(* that was full and has reopened is announced by the next flush.          *)
(***************************************************************************)
Recv(p) ==
    LET k == kcp[p]
        fast_recover == Len(k.rcv_queue) >= k.rcv_wnd
    IN  /\ ~inp[p].busy
        /\ PeekSize(k)
        /\ \E j \in 1..Len(k.rcv_queue) :
             LET k1 == [k EXCEPT !.rcv_queue = SubSeq(@, j + 1, Len(@))]
             IN  /\ MergeStops(k, j)
                 /\ \E n \in 0..Cardinality(k.rcv_buf) :
                      LET k2 == MoveReady(k1, n)
                          tell == fast_recover /\ Len(k2.rcv_queue) < k2.rcv_wnd
                      IN  /\ MoveStops(k1, n)
                          /\ kcp' = [kcp EXCEPT ![p] =
                                [k2 EXCEPT !.probe =
                                    IF tell THEN @ \cup {"ASK_TELL"} ELSE @]]
                 /\ read' = [read EXCEPT ![p] = @ \o SubSeq(k.rcv_queue, 1, j)]
        /\ UNCHANGED <<inp, net, written, faults>>

(***************************************************************************)
(* WndSize (UDPSession.SetWindowSize).                                     *)
(***************************************************************************)
WndSize(p, sndwnd, rcvwnd) ==
    /\ ~inp[p].busy
    /\ kcp' = [kcp EXCEPT ![p].snd_wnd = sndwnd, ![p].rcv_wnd = rcvwnd]
    /\ UNCHANGED <<inp, net, written, read, faults>>

(***************************************************************************)
(* A full flush on the clock: UDPSession.update, or a write that flushes.  *)
(***************************************************************************)
Update(p, t) ==
    /\ ~inp[p].busy
    /\ flush(p, kcp[p], TRUE, t)
    /\ UNCHANGED <<inp, written, read, faults>>

-----------------------------------------------------------------------------
(***************************************************************************)
(* Input.                                                                  *)
(***************************************************************************)

(***************************************************************************)
(* Input encounters the segments of a datagram in the order flush encoded  *)
(* them: ACKs, WASK, WINS, then data by sequence number.                   *)
(***************************************************************************)
Rank(s) == CASE s.cmd = "ACK"  -> 0
             [] s.cmd = "WASK" -> 1
             [] s.cmd = "WINS" -> 2
             [] s.cmd = "PUSH" -> 3 + s.sn

FirstSegs(segs) == {s \in segs : \A r \in segs : Rank(s) <= Rank(r)}

(***************************************************************************)
(* parse_una drops c segments from the front of snd_buf.                   *)
(***************************************************************************)
\* variant: una itself is taken as received
UnaDrops_Inclusive(k, una, c) ==
    /\ \A i \in 1..c : k.snd_buf[i].sn <= una
    /\ c < Len(k.snd_buf) => k.snd_buf[c + 1].sn > una

UnaDrops(k, una, c) ==
    /\ \A i \in 1..c : k.snd_buf[i].sn < una
    /\ c < Len(k.snd_buf) => k.snd_buf[c + 1].sn >= una

parse_una(k, c) == [k EXCEPT !.snd_buf = SubSeq(@, c + 1, Len(@))]

\* variant: with nothing in flight, the last number used
shrink_buf_Last(k) == [k EXCEPT !.snd_una = IF k.snd_buf # <<>>
                                            THEN k.snd_buf[1].sn
                                            ELSE k.snd_nxt - 1]

shrink_buf(k) == [k EXCEPT !.snd_una = IF k.snd_buf # <<>>
                                       THEN k.snd_buf[1].sn
                                       ELSE k.snd_nxt]

(***************************************************************************)
(* The steps every segment goes through before its command is looked at.   *)
(* Only a regular packet updates the remote window.                        *)
(***************************************************************************)
\* variant: snd_una is taken from the segment
InputHeader_TakeUna(k, s, reg, c) ==
    [parse_una([k EXCEPT !.rmt_wnd = IF reg THEN s.wnd ELSE @], c)
        EXCEPT !.snd_una = s.una]

InputHeader(k, s, reg, c) ==
    shrink_buf(parse_una([k EXCEPT !.rmt_wnd = IF reg THEN s.wnd ELSE @], c))

(***************************************************************************)
(* parse_ack marks the segment and recycles its data; it stays in snd_buf  *)
(* until snd_una passes it.                                                *)
(***************************************************************************)
\* variant: the segment is not marked
parse_ack_NoMark(k, sn) ==
    IF sn < k.snd_una \/ sn >= k.snd_nxt THEN k
    ELSE [k EXCEPT !.snd_buf =
            [i \in DOMAIN @ |->
                IF @[i].sn = sn THEN [@[i] EXCEPT !.frag = Recycled] ELSE @[i]]]

parse_ack(k, sn) ==
    IF sn < k.snd_una \/ sn >= k.snd_nxt THEN k
    ELSE [k EXCEPT !.snd_buf =
            [i \in DOMAIN @ |->
                IF @[i].sn = sn
                THEN [@[i] EXCEPT !.acked = TRUE, !.frag = Recycled]
                ELSE @[i]]]

(***************************************************************************)
(* parse_fastack may ask for a flush when an older segment is in flight.   *)
(* Whether it does depends on timestamps and counts.                       *)
(***************************************************************************)
parse_fastack(k, sn) ==
    IF /\ k.snd_una <= sn /\ sn < k.snd_nxt
       /\ \E i \in DOMAIN k.snd_buf : k.snd_buf[i].sn < sn
    THEN BOOLEAN ELSE {FALSE}

ack_push(k, sn) == [k EXCEPT !.acklist = Append(@, sn)]

(***************************************************************************)
(* The first half of parse_data: a new segment inside the window enters    *)
(* rcv_buf.                                                                *)
(***************************************************************************)
\* variant: the upper end of the window is not looked at
InWindow_NoUpper(k, sn) == k.rcv_nxt <= sn

InWindow(k, sn) == k.rcv_nxt <= sn /\ sn < k.rcv_nxt + k.rcv_wnd

RcvBufInsert(k, s) ==
    IF Has(k, s.sn) THEN k
    ELSE [k EXCEPT !.rcv_buf = @ \cup {[sn |-> s.sn, frag |-> s.frag]}]

(***************************************************************************)
(* Segment s of inp[p] has been dealt with; flush notes whether a full     *)
(* flush has become due.                                                   *)
(***************************************************************************)
SegDone(p, s, flushSegments) ==
    /\ inp' = [inp EXCEPT ![p].segs = @ \ {s},
                          ![p].full = @ \/ flushSegments]
    /\ UNCHANGED <<net, written, read, faults>>

InputAck(p) ==
    \E s \in FirstSegs(inp[p].segs), c \in 0..Len(kcp[p].snd_buf) :
        LET k1 == InputHeader(kcp[p], s, inp[p].reg, c)
            k2 == parse_ack(k1, s.sn)
        IN  /\ s.cmd = "ACK"
            /\ UnaDrops(kcp[p], s.una, c)
            /\ kcp' = [kcp EXCEPT ![p] = k2]
            /\ \E fast \in parse_fastack(k2, s.sn) :
                 SegDone(p, s, c > 0 \/ fast)

InputPush(p) ==
    \E s \in FirstSegs(inp[p].segs), c \in 0..Len(kcp[p].snd_buf) :
        LET k1 == InputHeader(kcp[p], s, inp[p].reg, c)
            k2 == ack_push(k1, s.sn)
            k3 == RcvBufInsert(k2, s)
        IN  /\ s.cmd = "PUSH"
            /\ UnaDrops(kcp[p], s.una, c)
            /\ \/ /\ s.sn >= k1.rcv_nxt + k1.rcv_wnd
                  /\ kcp' = [kcp EXCEPT ![p] = k1]
               \/ /\ s.sn < k1.rcv_nxt
                  /\ kcp' = [kcp EXCEPT ![p] = k2]
               \/ /\ InWindow(k1, s.sn)
                  /\ \E n \in 0..Cardinality(k3.rcv_buf) :
                       /\ MoveStops(k3, n)
                       /\ kcp' = [kcp EXCEPT ![p] = MoveReady(k3, n)]
            /\ SegDone(p, s, c > 0)

InputWask(p) ==
    \E s \in FirstSegs(inp[p].segs), c \in 0..Len(kcp[p].snd_buf) :
        LET k1 == InputHeader(kcp[p], s, inp[p].reg, c)
        IN  /\ s.cmd = "WASK"
            /\ UnaDrops(kcp[p], s.una, c)
            /\ kcp' = [kcp EXCEPT ![p] =
                          [k1 EXCEPT !.probe = @ \cup {"ASK_TELL"}]]
            /\ SegDone(p, s, c > 0)

InputWins(p) ==
    \E s \in FirstSegs(inp[p].segs), c \in 0..Len(kcp[p].snd_buf) :
        LET k1 == InputHeader(kcp[p], s, inp[p].reg, c)
        IN  /\ s.cmd = "WINS"
            /\ UnaDrops(kcp[p], s.una, c)
            /\ kcp' = [kcp EXCEPT ![p] = k1]
            /\ SegDone(p, s, c > 0)

(***************************************************************************)
(* The end of Input: a full flush if the window has slid or a fast ACK     *)
(* asks for one, else an ACK flush if enough ACKs are pending.             *)
(***************************************************************************)
AcksDue(k) == \/ Len(k.acklist) >= AckClock
              \/ AckNoDelay /\ k.acklist # <<>>

FinishInput(p) ==
    LET k == kcp[p]
    IN  /\ inp[p].busy /\ inp[p].segs = {}
        /\ IF inp[p].full \/ AcksDue(k)
           THEN \E t \in Timings(k) : flush(p, k, inp[p].full, t)
           ELSE UNCHANGED <<kcp, net>>
        /\ inp' = [inp EXCEPT ![p] = Idle]
        /\ UNCHANGED <<written, read, faults>>

(***************************************************************************)
(* The rest of the datagram is malformed: Input returns an error, keeps    *)
(* what it has done and does not flush.                                    *)
(***************************************************************************)
InputReject(p) ==
    /\ inp[p].segs # {}
    /\ faults < MaxFaults
    /\ faults' = faults + 1
    /\ inp' = [inp EXCEPT ![p] = Idle]
    /\ UNCHANGED <<kcp, net, written, read>>

-----------------------------------------------------------------------------
(***************************************************************************)
(* The network.                                                            *)
(***************************************************************************)

(***************************************************************************)
(* The datagrams a burst travels as.                                       *)
(***************************************************************************)
Datagrams(b) ==
    IF Coalesce THEN {b}
    ELSE {{s} : s \in IF Ordered THEN FirstSegs(b) ELSE b}

Without(bursts, i, d) ==
    IF bursts[i] = d
    THEN SubSeq(bursts, 1, i - 1) \o SubSeq(bursts, i + 1, Len(bursts))
    ELSE [bursts EXCEPT ![i] = @ \ d]

(***************************************************************************)
(* A datagram arrives and Input begins; the network may keep a copy.  A    *)
(* datagram rebuilt by FEC is not a regular packet.                        *)
(***************************************************************************)
Deliver(p) ==
    \E i \in DOMAIN net[p] :
    \E d \in Datagrams(net[p][i]),
       keep \in IF faults < MaxFaults THEN BOOLEAN ELSE {FALSE},
       reg \in IF FecRecovery THEN BOOLEAN ELSE {TRUE} :
        /\ ~inp[p].busy
        /\ Ordered => i = 1
        /\ inp' = [inp EXCEPT ![p] = [busy |-> TRUE, segs |-> d,
                                      full |-> FALSE, reg |-> reg]]
        /\ net' = IF keep THEN net
                  ELSE [net EXCEPT ![p] = Without(@, i, d)]
        /\ faults' = IF keep THEN faults + 1 ELSE faults
        /\ UNCHANGED <<kcp, written, read>>

Lose(p) ==
    \E i \in DOMAIN net[p] : \E d \in Datagrams(net[p][i]) :
        /\ faults < MaxFaults
        /\ faults' = faults + 1
        /\ net' = [net EXCEPT ![p] = Without(@, i, d)]
        /\ UNCHANGED <<kcp, inp, written, read>>

-----------------------------------------------------------------------------
Input(p) == \/ InputAck(p) \/ InputPush(p) \/ InputWask(p) \/ InputWins(p)
            \/ FinishInput(p) \/ InputReject(p)

User(p) == \/ \E c \in FragCounts : Send(p, c)
           \/ Recv(p)
           \/ \E sw \in SndWnds, rw \in RcvWnds : WndSize(p, sw, rw)

Next == \E p \in Peers : \/ User(p)
                         \/ \E t \in Timings(kcp[p]) : Update(p, t)
                         \/ Input(p)
                         \/ Deliver(p)
                         \/ Lose(p)

Spec == Init /\ [][Next]_vars

-----------------------------------------------------------------------------
(***************************************************************************)
(* Safety.                                                                 *)
(***************************************************************************)

Positive == Nat \ {0}

KCP == [snd_una : Nat, snd_nxt : Nat, rcv_nxt : Nat,
        snd_wnd : Positive, rcv_wnd : Positive, rmt_wnd : Nat,
        probe : SUBSET {"ASK_SEND", "ASK_TELL"}, probing : BOOLEAN,
        snd_queue : Seq(Frag), snd_buf : Seq(SndSeg),
        rcv_queue : Seq(Frag), rcv_buf : SUBSET RcvSeg,
        acklist : Seq(Nat)]

(***************************************************************************)
(* The type of every variable: in particular what is on the wire, in       *)
(* Input's hands and in the four queues of a KCP is well formed.           *)
(***************************************************************************)
TypeOK ==
    /\ kcp \in [Peers -> KCP]
    /\ inp \in [Peers -> [busy : BOOLEAN, segs : SUBSET Wire,
                          full : BOOLEAN, reg : BOOLEAN]]
    /\ net \in [Peers -> Seq(SUBSET Wire)]
    /\ written \in [Peers -> Seq(Frag)]
    /\ read \in [Peers -> Seq(Frag)]
    /\ faults \in Nat

(***************************************************************************)
(* What a reader has got is what the opposite writer wrote: nothing lost,  *)
(* repeated, reordered or altered, whatever the network did (Recv, Input,  *)
(* flush).                                                                 *)
(***************************************************************************)
DeliveredInOrder ==
    \A p \in Peers :
        LET w == written[Other(p)]
            r == read[p]
        IN  Len(r) <= Len(w) /\ \A i \in 1..Len(r) : r[i] = w[i]

(***************************************************************************)
(* Recv hands over whole messages only: a reader never stands in the       *)
(* middle of one, however fragments arrived.                               *)
(***************************************************************************)
WholeMessages == \A p \in Peers : read[p] # <<>> => read[p][Len(read[p])].frg = 0

(***************************************************************************)
(* The receiver holds sn, or has passed it on.                             *)
(***************************************************************************)
Received(k, sn) == sn < k.rcv_nxt \/ Has(k, sn)

(***************************************************************************)
(* A sender gives up its copy of a segment (parse_una, or parse_ack which  *)
(* recycles the data) only when the receiver has it.                       *)
(***************************************************************************)
SafeRelease ==
    \A p \in Peers :
        LET k == kcp[p]
            q == kcp[Other(p)]
        IN  /\ \A sn \in 0..(k.snd_una - 1) : Received(q, sn)
            /\ \A i \in DOMAIN k.snd_buf :
                 k.snd_buf[i].acked => Received(q, k.snd_buf[i].sn)

(***************************************************************************)
(* The segments under way to p, or in the hands of its Input.              *)
(***************************************************************************)
SegsTo(p) == inp[p].segs \cup UNION {net[p][i] : i \in DOMAIN net[p]}

(***************************************************************************)
(* Every data segment on the wire carries the fragment that was written at *)
(* its position of the stream: a flush never sends a recycled buffer, and  *)
(* a sequence number is never used for two payloads.                       *)
(***************************************************************************)
WirePayload ==
    \A p \in Peers : \A s \in SegsTo(p) :
        s.cmd = "PUSH" => /\ s.sn < Len(written[Other(p)])
                          /\ s.frag = written[Other(p)][s.sn + 1]

(***************************************************************************)
(* The queues stay within the windows ever configured: at most snd_wnd     *)
(* segments in flight, at most rcv_wnd segments in rcv_queue and as many   *)
(* sequence numbers ahead of rcv_nxt in rcv_buf, whatever the peer sends.  *)
(***************************************************************************)
WindowRespected ==
    \A p \in Peers :
        LET k == kcp[p]
        IN  /\ \E w \in SndWnds \cup {SndWndInit} : k.snd_nxt <= k.snd_una + w
            /\ \E w \in RcvWnds \cup {RcvWndInit} : Len(k.rcv_queue) <= w
            /\ \A e \in k.rcv_buf :
                 k.rcv_nxt <= e.sn /\ \E w \in RcvWnds \cup {RcvWndInit} : e.sn < k.rcv_nxt + w

(***************************************************************************)
(* While the windows are left alone, no segment that could be in rcv_queue *)
(* is left behind in rcv_buf: both loops that move data there (parse_data  *)
(* and Recv) move all they can.                                            *)
(***************************************************************************)
NothingStranded ==
    \A p \in Peers : Has(kcp[p], kcp[p].rcv_nxt) =>
                         Len(kcp[p].rcv_queue) >= kcp[p].rcv_wnd

(***************************************************************************)
(* Nothing is under way, no reader has a message to read, and no flush,    *)
(* whatever its timing, would send or move anything: without a new call of *)
(* Send nothing will ever happen.                                          *)
(***************************************************************************)
Quiescent ==
    \A p \in Peers :
        /\ net[p] = <<>> /\ ~inp[p].busy
        /\ ~PeekSize(kcp[p])
        /\ \A t \in Timings(kcp[p]) : /\ Flushed(kcp[p], TRUE, t) = kcp[p]
                                      /\ Burst(kcp[p], TRUE, t) = {}

(***************************************************************************)
(* A connection goes quiet only when all that was written has been read    *)
(* ("Reliable, ordered byte-stream delivery over UDP", README.md): until   *)
(* then flush has a retransmission, a window probe or an answer to send.   *)
(***************************************************************************)
QuietWhenDelivered ==
    Quiescent => \A p \in Peers : read[Other(p)] = written[p]

(***************************************************************************)
(* A late or repeated datagram never takes an endpoint back: snd_una and   *)
(* rcv_nxt only grow, and a segment marked acknowledged stays so until it  *)
(* is dropped (parse_una, shrink_buf, parse_ack on stale input).           *)
(***************************************************************************)
NoRegress ==
    [][\A p \in Peers :
         /\ kcp'[p].snd_una >= kcp[p].snd_una
         /\ kcp'[p].rcv_nxt >= kcp[p].rcv_nxt
         /\ \A i \in DOMAIN kcp[p].snd_buf : kcp[p].snd_buf[i].acked =>
              \A j \in DOMAIN kcp'[p].snd_buf :
                 kcp'[p].snd_buf[j].sn = kcp[p].snd_buf[i].sn
                     => kcp'[p].snd_buf[j].acked]_vars

-----------------------------------------------------------------------------
(***************************************************************************)
(* The inductive invariant behind the safety properties.                   *)
(***************************************************************************)

(***************************************************************************)
(* The sender's queues against the stream w its user has written: snd_buf  *)
(* holds snd_una..snd_nxt-1 in order and snd_queue what follows, and only  *)
(* acknowledged segments have lost their payload.                          *)
(***************************************************************************)
SndInv(k, w) ==
    /\ Len(w) = k.snd_nxt + Len(k.snd_queue)
    /\ \A i \in 1..Len(k.snd_queue) : k.snd_queue[i] = w[k.snd_nxt + i]
    /\ k.snd_nxt = k.snd_una + Len(k.snd_buf)
    /\ \A i \in 1..Len(k.snd_buf) :
         /\ k.snd_buf[i].sn = k.snd_una + i - 1
         /\ ~k.snd_buf[i].acked => k.snd_buf[i].frag = w[k.snd_una + i]

(***************************************************************************)
(* The receiver's queues against the stream w the opposite user has        *)
(* written and the part r its own user has read.                           *)
(***************************************************************************)
RcvInv(k, w, r) ==
    /\ k.rcv_nxt = Len(r) + Len(k.rcv_queue)
    /\ k.rcv_nxt <= Len(w)
    /\ \A i \in 1..Len(r) : r[i] = w[i]
    /\ \A i \in 1..Len(k.rcv_queue) : k.rcv_queue[i] = w[Len(r) + i]
    /\ \A e \in k.rcv_buf : /\ k.rcv_nxt <= e.sn /\ e.sn < Len(w)
                            /\ e.frag = w[e.sn + 1]
    /\ \A i \in 1..Len(k.acklist) : Received(k, k.acklist[i])

(***************************************************************************)
(* What sender k has given up, receiver q has got.                         *)
(***************************************************************************)
AckInv(k, q) ==
    /\ k.snd_una <= q.rcv_nxt
    /\ \A i \in 1..Len(k.snd_buf) :
         k.snd_buf[i].acked => Received(q, k.snd_buf[i].sn)

(***************************************************************************)
(* A segment sent by the endpoint in state k, whose user has written w.    *)
(***************************************************************************)
SegInv(s, w, k) ==
    /\ s.una <= k.rcv_nxt
    /\ s.cmd = "ACK" => Received(k, s.sn)
    /\ s.cmd = "PUSH" => s.sn < Len(w) /\ s.frag = w[s.sn + 1]

(***************************************************************************)
(* A stream is made of whole messages: frg counts down to 0 from each of   *)
(* its fragments.                                                          *)
(***************************************************************************)
Framed(w) ==
    \A i \in 1..Len(w) :
        /\ w[i].frg < 255
        /\ i + w[i].frg <= Len(w)
        /\ \A d \in 0..w[i].frg : w[i + d].frg = w[i].frg - d

(***************************************************************************)
(* Sender, receiver and wire agree on the stream, in both directions: the  *)
(* strengthening of the safety properties that every step of Send, Recv,   *)
(* Input, flush and the network preserves.                                 *)
(***************************************************************************)
LinkInv ==
    \A p \in Peers :
        LET o == Other(p)
        IN  /\ SndInv(kcp[p], written[p])
            /\ RcvInv(kcp[p], written[o], read[p])
            /\ AckInv(kcp[p], kcp[o])
            /\ \A s \in SegsTo(p) : SegInv(s, written[o], kcp[o])
            /\ Framed(written[p])
            /\ read[p] # <<>> => read[p][Len(read[p])].frg = 0

(***************************************************************************)
(* Two KCP endpoints over any such network implement a pair of reliable    *)
(* message channels.                                                       *)
(***************************************************************************)
Channel == INSTANCE MsgChannel WITH sent <- written, rcvd <- read

ChannelSpec == Channel!Spec

-----------------------------------------------------------------------------
(***************************************************************************)
(* Liveness.                                                               *)
(***************************************************************************)

(***************************************************************************)
(* Timing outcomes in which what is overdue happens: the oldest segment in *)
(* flight is retransmitted, a probe timer that may have expired has, and   *)
(* the congestion window is not zero.                                      *)
(***************************************************************************)
Overdue(k) ==
    {t \in Timings(k) :
        /\ \A sn \in InFlight(k) : (\A m \in InFlight(k) : sn <= m) => sn \in t.rto
        /\ k.rmt_wnd = 0 /\ k.probing => t.expired
        /\ t.cwnd > 0}

(***************************************************************************)
(* UDPSession.update reschedules itself for as long as the session lives,  *)
(* and a segment's RTO, or the probe timer, passes in bounded time, so     *)
(* overdue flushes keep coming; the mutex of a session is fair; a user     *)
(* keeps reading; the network loses finitely many datagrams, and carries   *)
(* what is flushed again and again.                                        *)
(***************************************************************************)
Fairness ==
    \A p \in Peers :
        /\ WF_vars(Input(p))
        /\ WF_vars(Deliver(p))
        /\ SF_vars(Recv(p))
        /\ SF_vars(/\ Len(net[Other(p)]) < NetCap[Other(p)]
                   /\ \E t \in Overdue(kcp[p]) : Update(p, t))

FairSpec == Spec /\ Fairness

(***************************************************************************)
(* Everything written is read in the end ("Reliable, ordered byte-stream   *)
(* delivery over UDP", README.md).                                         *)
(***************************************************************************)
Delivery == \A p \in Peers : []<>(read[Other(p)] = written[p])
=============================================================================
