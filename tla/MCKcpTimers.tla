---------------------------- MODULE MCKcpTimers ----------------------------
EXTENDS KcpTimers

\* The default, and no-delay mode with fast retransmission.
MCOptions == {[nodelay |-> 0, resend |-> 0, nc |-> 0], [nodelay |-> 1, resend |-> 1, nc |-> 0]}

\* NoDelay is called before the session is used.
ConfiguredFirst ==
    \/ kcp'.nodelay = kcp.nodelay /\ kcp'.fastresend = kcp.fastresend
    \/ now = 0 /\ due = 0 /\ kcp = NewKCP

\* The peer has room: its una passes what it acknowledges in order.
HeadInFlight == kcp'.snd_buf # <<>> => ~kcp'.snd_buf[1].acked

(***************************************************************************)
(* What TLC tells states apart by: nothing looks at an acknowledged        *)
(* segment with none behind it again, since its head leaves first.         *)
(***************************************************************************)
Forgotten(i) == i = Len(kcp.snd_buf) /\ kcp.snd_buf[i].acked

Seen == <<now, due, [kcp EXCEPT !.snd_buf = [i \in DOMAIN @ |->
                        IF Forgotten(i) THEN "acked" ELSE @[i]]]>>
============================================================================
