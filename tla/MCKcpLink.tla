---------------------------- MODULE MCKcpLink ----------------------------
(***************************************************************************)
(* Small instances of KcpLink for TLC.                                     *)
(***************************************************************************)
EXTENDS KcpLink, TLC

CONSTANTS cli, srv

MCPeers == {cli, srv}

(***************************************************************************)
(* Pair(x, y) is x for cli and y for srv.  FragsXY bounds what the two     *)
(* write, NetXY what is under way to each of them.                         *)
(***************************************************************************)
Pair(x, y) == cli :> x @@ srv :> y

Frags20 == Pair(2, 0)
Frags30 == Pair(3, 0)
Frags40 == Pair(4, 0)

Net11 == Pair(1, 1)
Net12 == Pair(1, 2)
Net21 == Pair(2, 1)

(***************************************************************************)
(* A partial-order reduction for the safety runs.  The steps of p's Input  *)
(* before FinishInput change nothing but kcp[p] and inp[p], so they        *)
(* commute with every step of the opposite endpoint and of the network: it *)
(* is enough to explore the runs in which an Input, once begun, is         *)
(* finished before anything else happens.                                  *)
(***************************************************************************)
InputFirst == \A p \in Peers : inp[p].busy => inp'[p] # inp[p]

(***************************************************************************)
(* An endpoint changes its windows when it holds segments that may not fit *)
(* in the new ones.                                                        *)
(***************************************************************************)
ResizedInUse ==
    \A p \in Peers : kcp'[p].rcv_wnd # kcp[p].rcv_wnd =>
        kcp[p].rcv_buf # {} \/ Len(kcp[p].rcv_queue) > kcp'[p].rcv_wnd
=============================================================================
