-------------------------- MODULE MCKcpLinkSafe --------------------------
(***************************************************************************)
(* The safety of a link in two settings, explored side by side: setting    *)
(* says which of them a behaviour is in, and never changes.                *)
(*                                                                         *)
(* "data" is the instance the configuration gives: messages of several     *)
(* fragments, a burst to a datagram, data reordered, lost and duplicated,  *)
(* ACKs sent at once, and a reader that shrinks its window under what it   *)
(* holds.                                                                  *)
(*                                                                         *)
(* "acks" has one segment to a datagram, ACKs that are delayed and that    *)
(* overtake each other, and datagrams rebuilt by FEC.                      *)
(***************************************************************************)
EXTENDS MCKcpLink

VARIABLE setting

Acks == INSTANCE KcpLink WITH
            FragCounts  <- {1},
            MaxFrags    <- Frags20,
            RcvWnds     <- {RcvWndInit},
            AckNoDelay  <- FALSE,
            NetCap      <- Net21,
            Coalesce    <- FALSE,
            FecRecovery <- TRUE

SafeInit == Init /\ setting \in {"data", "acks"}

SafeNext == /\ UNCHANGED setting
            /\ \/ setting = "data" /\ Next
               \/ setting = "acks" /\ Acks!Next

SafeSpec == SafeInit /\ [][SafeNext]_<<vars, setting>>

(***************************************************************************)
(* In the setting "data" one of the messages has two fragments; "acks" and *)
(* the run link_live are about streams of messages of one.                 *)
(***************************************************************************)
OneIsLong ==
    setting = "data" =>
        \A p \in Peers : Len(written'[p]) > 1 =>
            \E i \in DOMAIN written'[p] : written'[p][i].frg > 0

(***************************************************************************)
(* Input takes the window of a regular datagram and not that of a rebuilt  *)
(* one, and treats them alike otherwise: they differ only when the window  *)
(* is not the one that Input knows already.                                *)
(***************************************************************************)
RebuiltMatters ==
    \A p \in Peers : inp'[p].busy /\ ~inp'[p].reg /\ ~inp[p].busy =>
        \E s \in inp'[p].segs : s.wnd # kcp[p].rmt_wnd
=============================================================================
