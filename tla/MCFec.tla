-------------------------------- MODULE MCFec --------------------------------
(***************************************************************************)
(* Small instances of Fec for TLC: a decoder that has the encoder's        *)
(* parameters, one made for one data and one parity shard, as kcpInput     *)
(* makes it, and one made for other parameters.                            *)
(***************************************************************************)
EXTENDS Fec

AnyParams == {<<EncDS, EncPS>>, <<1, 1>>, <<2, 2>>}

(***************************************************************************)
(* What TLC tells states apart by: a decoder that has the right parameters *)
(* and no reason to doubt them does not look at its samples.               *)
(***************************************************************************)
Seen == <<enc, dec, IF Matched /\ ~dec.tune THEN <<>> ELSE samples, net, arrived, got, known>>

(***************************************************************************)
(* While the parameters are wrong, only the first groups are sent, and no  *)
(* packet is delivered twice.                                              *)
(***************************************************************************)
TuneSoon ==
    \/ Matched
    \/ /\ enc'.grp <= 5
       /\ samples' # samples => net' # net
=============================================================================
