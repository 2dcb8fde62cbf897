--------------------------------- MODULE Fec ---------------------------------
(***************************************************************************)
(* fec.go and autotune.go: one direction of a link whose packets are       *)
(* protected by a Reed-Solomon code.  The encoder numbers the packets,     *)
(* groups EncDS data shards and adds EncPS parity shards to each group;    *)
(* the decoder sorts what arrives into shard sets and rebuilds missing     *)
(* data from any ds shards of a set.  A decoder whose parameters are not   *)
(* the encoder's finds them out from the types of the packets.             *)
(*                                                                         *)
(* The content of a packet is abstracted to the group it belongs to: a     *)
(* counter grp that, unlike the sequence number, never wraps.  The code    *)
(* itself is reedsolomon's (external): EncDS shards of one group yield the *)
(* group's data, shards of different groups yield Garbage.                 *)
(***************************************************************************)
EXTENDS Integers, Sequences, FiniteSets, SequencesExt

CONSTANTS EncDS, EncPS,   \* dataShards and parityShards of the encoder
          DecParams,      \* the <<ds, ps>> the decoder may be created with
          MaxShardSets,   \* maxShardSets
          MaxTotal,       \* 256, the most shards a set may have
          MaxSamples,     \* maxAutoTuneSamples
          Mod,            \* 2^32, the number of sequence numbers
          Copies,         \* TRUE: the network may duplicate packets
          Garbage,        \* a packet that nobody sent
          MaxGroups,      \* bound on the groups that are sent
          MaxLag,         \* bound on the delay of a packet, in groups
          MaxAhead        \* bound on the groups sent since the newest arrival

ASSUME ParamsAssumption ==
    /\ EncDS \in Nat \ {0} /\ EncPS \in Nat \ {0} /\ EncDS + EncPS <= MaxTotal
    /\ \A d \in DecParams : /\ d[1] \in Nat \ {0} /\ d[2] \in Nat \ {0}
                            /\ d[1] + d[2] <= MaxTotal
    /\ {MaxShardSets, MaxTotal, MaxSamples, MaxGroups, MaxLag, MaxAhead} \subseteq Nat
    /\ Copies \in BOOLEAN
    /\ Garbage \notin Nat \X Nat

VARIABLES enc,      \* the fecEncoder: [next, count, grp]
          dec,      \* the fecDecoder: [ds, ps, sets, newest, tune]
          samples,  \* the pulses of its autoTune, oldest first
          net,      \* the packets on their way
          arrived,  \* the newest group of which a packet has arrived
          got,      \* the packets of recent groups a tuned decoder was given
          known     \* the packets handed to KCP for these groups

vars == <<enc, dec, samples, net, arrived, got, known>>

EncSize == EncDS + EncPS

(***************************************************************************)
(* The sequence numbers in use: whole groups only.                         *)
(***************************************************************************)
\* variant: every sequence number is used
Paws_All(size) == Mod - 1

Paws(size) == ((Mod - 1) \div size) * size

(***************************************************************************)
(* What travels and what is kept stays within half of the numbers, as      *)
(* the signed differences of the code take for granted.                    *)
(***************************************************************************)
ASSUME WindowAssumption ==
    /\ Mod \in Nat /\ Mod % 2 = 0
    /\ \A n \in {MaxLag, MaxShardSets} :
         2 * ((MaxAhead + n) * EncSize + Mod - Paws(EncSize)) < Mod

(***************************************************************************)
(* _itimediff: the signed difference.                                      *)
(***************************************************************************)
Diff(a, b) == LET d == (a - b) % Mod IN IF d < Mod \div 2 THEN d ELSE d - Mod

-----------------------------------------------------------------------------
(***************************************************************************)
(* The encoder.                                                            *)
(***************************************************************************)
Shard(seqid, flag, grp) == [seqid |-> seqid, flag |-> flag, grp |-> grp]

Advance(n) == (enc.next + n) % Paws(EncSize)

(***************************************************************************)
(* encode: a data packet, and with the last one of a group the parity      *)
(* packets, unless the data came too far apart or the code failed; either  *)
(* way their sequence numbers are used up.  The network loses any of them. *)
(***************************************************************************)
Step(parity) == IF enc.count + 1 = EncDS THEN 1 + EncPS ELSE 1

Parities == {Shard(Advance(i), "parity", enc.grp) : i \in 1..EncPS}

(***************************************************************************)
(* What the network still holds when group g is sent (external).           *)
(***************************************************************************)
Recent(packets, g) == {s \in packets : s.grp + MaxLag >= g}

Encode ==
    /\ enc.grp < MaxGroups
    /\ enc.grp <= arrived + MaxAhead
    /\ \E parity \in IF enc.count + 1 = EncDS THEN {{}, Parities} ELSE {{}} :
         /\ enc' = IF enc.count + 1 = EncDS
                   THEN [next |-> Advance(Step(parity)), count |-> 0, grp |-> enc.grp + 1]
                   ELSE [enc EXCEPT !.next = Advance(Step(parity)), !.count = @ + 1]
         /\ \E sent \in SUBSET (parity \cup {Shard(enc.next, "data", enc.grp)}) :
              net' = Recent(net \cup sent, enc'.grp)
    /\ UNCHANGED <<dec, samples, arrived, got, known>>

-----------------------------------------------------------------------------
(***************************************************************************)
(* The tuner.                                                              *)
(***************************************************************************)
Sample(s) ==
    LET pulses == Append(samples, [bit |-> s.flag = "data", seq |-> s.seqid])
    IN  SubSeq(pulses, IF Len(pulses) > MaxSamples THEN 2 ELSE 1, Len(pulses))

(***************************************************************************)
(* The pulses without those that contradict another one.                   *)
(***************************************************************************)
Unique(pulses) ==
    {x \in ToSet(pulses) : \A y \in ToSet(pulses) : y.seq = x.seq => y.bit = x.bit}

(***************************************************************************)
(* A complete pulse of bit that begins at left and is n long: the packets  *)
(* from the one before its first to the one after its last have all been   *)
(* seen.                                                                   *)
(***************************************************************************)
At(seq, bit) == [bit |-> bit, seq |-> seq % Mod]

\* variant: a gap before the pulse does not matter
CompletePulse_OpenLeft(set, bit, left, n) ==
    /\ \A i \in 0..(n - 1) : At(left + i, bit) \in set
    /\ At(left + n, ~bit) \in set

CompletePulse(set, bit, left, n) ==
    /\ At(left - 1, ~bit) \in set
    /\ \A i \in 0..(n - 1) : At(left + i, bit) \in set
    /\ At(left + n, ~bit) \in set

(***************************************************************************)
(* The length of the first complete pulse, or -1.  Numbers that span half  *)
(* of the circle have no first one: the sort leaves them in any order, and *)
(* the pulse that is found is any of them.                                 *)
(***************************************************************************)
FirstOf(found) == {x \in found : \A y \in found : Diff(x[1], y[1]) <= 0}

FindPeriod(pulses, bit) ==
    LET set == Unique(pulses)
        found == {x \in {p.seq : p \in set} \X (1..Cardinality(set)) :
                     CompletePulse(set, bit, x[1], x[2])}
    IN  IF Len(pulses) < 3 \/ found = {} THEN -1
        ELSE (CHOOSE x \in found : x \in FirstOf(found) \/ FirstOf(found) = {})[2]

-----------------------------------------------------------------------------
(***************************************************************************)
(* The decoder.                                                            *)
(***************************************************************************)
Size(d) == d.ds + d.ps

Matched == dec.ds = EncDS /\ dec.ps = EncPS

(***************************************************************************)
(* The type of the packet is not the one its position asks for.            *)
(***************************************************************************)
Mismatch(s) == (s.flag = "data") # (s.seqid % Size(dec) < dec.ds)

(***************************************************************************)
(* A packet that disagrees with the decoder's parameters, or comes after   *)
(* one that did, only serves to find the right ones.                       *)
(***************************************************************************)
Tuned(s, ds, ps) ==
    IF ds = dec.ds /\ ps = dec.ps THEN [dec EXCEPT !.tune = FALSE]
    ELSE [ds |-> ds, ps |-> ps, sets |-> <<>>, newest |-> s.seqid \div (ds + ps),
          tune |-> FALSE]

Tune(s) ==
    LET ds == FindPeriod(Sample(s), TRUE)
        ps == FindPeriod(Sample(s), FALSE)
    IN  IF ds > 0 /\ ps > 0 /\ ds + ps <= MaxTotal THEN Tuned(s, ds, ps)
        ELSE [dec EXCEPT !.tune = TRUE]

(***************************************************************************)
(* getShardId: the set a sequence number belongs to.                       *)
(***************************************************************************)
\* variant: the sequence numbers are taken to start from 1
getShardId_FromOne(seqid) == (seqid + 1) \div Size(dec)

getShardId(seqid) == seqid \div Size(dec)

(***************************************************************************)
(* The shards of set id, with none if there is no such set.                *)
(***************************************************************************)
ShardsOf(d, id) == IF id \in DOMAIN d.sets THEN d.sets[id] ELSE {}

With(d, id, shards) ==
    [d EXCEPT !.sets = [i \in DOMAIN d.sets \cup {id} |->
                            IF i = id THEN shards ELSE d.sets[i]]]

(***************************************************************************)
(* The newest set, and discardShards: sets too far behind it are dropped.  *)
(***************************************************************************)
Newest(d, id) ==
    IF Diff(id * Size(d), d.newest * Size(d)) > 0 THEN [d EXCEPT !.newest = id] ELSE d

\* variant: one set less is kept
TooOld_Early(d, id) ==
    Diff(d.newest * Size(d), id * Size(d)) > (MaxShardSets - 1) * Size(d)

TooOld(d, id) == Diff(d.newest * Size(d), id * Size(d)) > MaxShardSets * Size(d)

discardShards(d) ==
    [d EXCEPT !.sets = [i \in {id \in DOMAIN d.sets : ~TooOld(d, id)} |-> d.sets[i]]]

Enough(d, shards) == Cardinality(shards) >= d.ds

(***************************************************************************)
(* ReconstructData (external), and the data packets it gives that are not  *)
(* among shards.  A data packet is named by its group and position.        *)
(***************************************************************************)
Data(grp, pos) == <<grp, pos>>

Recovered(d, shards) ==
    IF Cardinality({s \in shards : s.flag = "data"}) = d.ds THEN {}
    ELSE IF d.ds = EncDS /\ d.ps = EncPS /\ Cardinality({s.grp : s \in shards}) = 1
         THEN LET grp == (CHOOSE s \in shards : TRUE).grp
              IN  {Data(grp, pos) : pos \in {x \in 0..(d.ds - 1) :
                       \A s \in shards : s.seqid % Size(d) # x}}
         ELSE {Garbage}

(***************************************************************************)
(* The decoder after decode(s), and what decode returns.                   *)
(***************************************************************************)
Pushed(s) == ShardsOf(dec, getShardId(s.seqid)) \cup {s}

Decoded(s) ==
    LET id == getShardId(s.seqid)
    IN  IF s.seqid >= Paws(Size(dec)) THEN dec
        ELSE IF dec.tune \/ Mismatch(s) THEN Tune(s)
        ELSE IF \E t \in ShardsOf(dec, id) : t.seqid = s.seqid THEN dec
        ELSE discardShards(Newest(
                 With(dec, id, IF Enough(dec, Pushed(s)) THEN {} ELSE Pushed(s)), id))

Returned(s) ==
    IF \/ s.seqid >= Paws(Size(dec)) \/ dec.tune \/ Mismatch(s)
       \/ \E t \in ShardsOf(dec, getShardId(s.seqid)) : t.seqid = s.seqid
       \/ ~Enough(dec, Pushed(s))
    THEN {} ELSE Recovered(dec, Pushed(s))

(***************************************************************************)
(* kcpInput: KCP gets the packet if it is data, and what decode returns.   *)
(* The network may keep a copy of the packet.                              *)
(***************************************************************************)
kcpInput(s) ==
    /\ net' \in IF Copies THEN {net, net \ {s}} ELSE {net \ {s}}
    /\ dec' = Decoded(s)
    /\ samples' = Sample(s)
    /\ arrived' = IF s.grp > arrived THEN s.grp ELSE arrived
    /\ got' = IF Matched /\ ~dec.tune
              THEN {t \in got \cup {s} : t.grp + MaxShardSets > arrived'} ELSE {}
    /\ LET all == (known \ {Garbage}) \cup Returned(s)
                        \cup (IF s.flag = "data" THEN {Data(s.grp, s.seqid % EncSize)} ELSE {})
       IN  known' = {x \in all : x = Garbage \/ \E t \in got' : t.grp = x[1]}
    /\ UNCHANGED enc

Init ==
    /\ enc = [next |-> 0, count |-> 0, grp |-> 0]
    /\ \E d \in DecParams :
         dec = [ds |-> d[1], ps |-> d[2], sets |-> <<>>, newest |-> 0, tune |-> FALSE]
    /\ samples = <<>> /\ net = {} /\ arrived = -1 /\ got = {} /\ known = {}

Next == Encode \/ \E s \in net : kcpInput(s)

Spec == Init /\ [][Next]_vars

-----------------------------------------------------------------------------
(***************************************************************************)
(* Properties.                                                             *)
(***************************************************************************)
Seqids == 0..(Mod - 1)

Shards == [seqid : Seqids, flag : {"data", "parity"}, grp : 0..MaxGroups]

TypeOK ==
    /\ enc \in [next : Seqids, count : 0..(EncDS - 1), grp : 0..MaxGroups]
    /\ dec.ds \in 1..MaxTotal /\ dec.ps \in 1..MaxTotal
    /\ dec.newest \in Seqids /\ dec.tune \in BOOLEAN
    /\ \A id \in DOMAIN dec.sets : id \in Seqids /\ dec.sets[id] \subseteq Shards
    /\ samples \in Seq([bit : BOOLEAN, seq : Seqids]) /\ Len(samples) <= MaxSamples
    /\ net \subseteq Shards /\ arrived \in -1..MaxGroups
    /\ got \subseteq Shards
    /\ known \subseteq ((0..MaxGroups) \X (0..(EncDS - 1))) \cup {Garbage}

(***************************************************************************)
(* A decoder that has the encoder's parameters gives KCP only packets that *)
(* were sent: it never mixes the shards of two groups, not even when the   *)
(* sequence numbers wrap around and a set of the previous round has the    *)
(* same number.                                                            *)
(***************************************************************************)
RecoveredIsSent == Matched => Garbage \notin known

(***************************************************************************)
(* As soon as as many shards of a recent group have arrived as it has data *)
(* packets, whichever they are and in whatever order, among whichever      *)
(* duplicates and shards of other groups, KCP has all data packets of the  *)
(* group.  A group is recent while it is fewer than maxShardSets groups    *)
(* behind the newest that arrived: discardShards must not be early, not    *)
(* even across the wrap.                                                   *)
(***************************************************************************)
EnoughIsRecovered ==
    \A s \in got :
        Cardinality({t.seqid : t \in {u \in got : u.grp = s.grp}}) >= EncDS
            => \A pos \in 0..(EncDS - 1) : Data(s.grp, pos) \in known

(***************************************************************************)
(* A decoder that has the encoder's parameters never stops decoding in     *)
(* order to tune: the position of a packet in its group and its type agree *)
(* also across skipped parity and the wrap of the sequence numbers.        *)
(***************************************************************************)
NoSpuriousTune == Matched => ~dec.tune

(***************************************************************************)
(* Tuning finds the encoder's parameters or none, from whatever part of    *)
(* the stream has arrived, and once they are found they stay.              *)
(***************************************************************************)
TunesRight ==
    [][(dec'.ds = dec.ds /\ dec'.ps = dec.ps) \/ Matched']_vars
=============================================================================
