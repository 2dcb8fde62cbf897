--------------------------- MODULE ListenerProofs ---------------------------
(***************************************************************************)
(* Theorems about Listener, for any addresses and conversations, any       *)
(* backlog and any number of sessions.                                     *)
(***************************************************************************)
EXTENDS Listener, TLAPS, SequenceTheorems

Session == [addr : Addrs, conv : Convs]

\* the sessions that Accept has returned or will return
Offered == accepted \cup {chAccepts[k] : k \in DOMAIN chAccepts}

(***************************************************************************)
(* Sessions are numbered as they are made; those to come are untouched.    *)
(***************************************************************************)
NumbersInv ==
    /\ \A i \in 1..made : sess[i] \in Session
    /\ \A i \in Ids : i > made => closing[i] = "open"
    /\ Offered \subseteq 1..made

(***************************************************************************)
(* What packetInput knows, from the lookup to the end of the packet.  It   *)
(* found no session, or one that may have been closed since, but nobody    *)
(* else can have entered one for the address; when it makes one, the       *)
(* address is free, and nobody else has the new session yet.               *)
(***************************************************************************)
RouteInv ==
    /\ in.pkt \in Packets
    /\ in.s = None => sessions[in.pkt.addr] = None
    /\ in.s # None => /\ in.s \in 1..made /\ sess[in.s].addr = in.pkt.addr
                      /\ sessions[in.pkt.addr] \in {None, in.s}

CreateInv == in.pkt \in Packets /\ in.pkt.conv \in Convs /\ sessions[in.pkt.addr] = None

NewInv == in.s \in 1..made /\ in.s \notin Offered /\ sess[in.s].addr = in.pkt.addr

InputInv ==
    /\ in.pc \in {"route", "reset", "create"} => made < MaxSessions
    /\ in.pc = "route" => RouteInv
    /\ in.pc = "reset" => RouteInv /\ in.s # None /\ in.pkt.conv \in Convs
    /\ in.pc \in {"create", "insert", "reject"} => CreateInv
    /\ in.pc \in {"insert", "reject"} => NewInv
    /\ in.pc = "insert" => closing[in.s] = "open"
    /\ in.pc = "offer" => in.s \in 1..made
    /\ in.pc = "failing" => in.s = None

(***************************************************************************)
(* The map has the sessions whose Close has not got to closeSession.       *)
(***************************************************************************)
MapInv ==
    /\ \A i \in 1..made :
          Served(i) /\ closing[i] \in {"open", "dead"} => sessions[sess[i].addr] = i
    /\ \A a \in Addrs :
          sessions[a] # None => /\ sessions[a] \in 1..made /\ Served(sessions[a])
                                /\ sess[sessions[a]].addr = a
                                /\ closing[sessions[a]] \in {"open", "dead"}

(***************************************************************************)
(* Somebody takes the callback away only after the last session is gone.   *)
(***************************************************************************)
ReleaseInv ==
    closer = "release" \/ (\E i \in Ids : closing[i] = "release") \/ ~receiver
       => mode = "pushed" /\ die /\ Empty(sessions)

(***************************************************************************)
(* The inductive invariant.                                                *)
(***************************************************************************)
IInv ==
    /\ TypeOK /\ NumbersInv /\ InputInv /\ MapInv
    /\ ReleaseInv /\ ReceiverAsNeeded /\ AllTold
LEMMA IdsFacts ==
    /\ MaxSessions \in Nat /\ AcceptBacklog \in Nat /\ None \notin Nat /\ None \notin Ids
    /\ \A i \in Ids : i \in Nat /\ i # None
    /\ \A m \in 0..MaxSessions : 1..m \subseteq Ids
  BY BoundsAssumption, NamesAssumption DEF Ids

LEMMA InitIInv == Init => IInv
  <1> SUFFICES ASSUME Init PROVE IInv
    OBVIOUS
  <1>1. TypeOK
    <2>1. die \in BOOLEAN /\ receiver \in BOOLEAN
      BY DEF Init
    <2> QED
      BY <2>1, IdsFacts DEF Init, TypeOK, Idle
  <1>2. NumbersInv
    BY IdsFacts DEF Init, NumbersInv, Offered
  <1>3. InputInv
    BY DEF Init, InputInv, Idle
  <1>4. MapInv
    BY DEF Init, MapInv
  <1>5. ReleaseInv /\ ReceiverAsNeeded
    BY DEF Init, ReleaseInv, ReceiverAsNeeded
  <1>6. AllTold
    BY DEF Init, AllTold, Idle
  <1> QED
    BY <1>1, <1>2, <1>3, <1>4, <1>5, <1>6 DEF IInv

-----------------------------------------------------------------------------
(***************************************************************************)
(* The steps of packetInput.                                               *)
(***************************************************************************)
LEMMA LookupIInv ==
    ASSUME IInv, NEW pkt \in Packets, Lookup(pkt)
    PROVE  IInv'
  <1>1. /\ in' = [pc |-> "route", pkt |-> pkt, s |-> sessions[pkt.addr]]
        /\ UNCHANGED <<mode, sessions, chAccepts, accepted, made, sess, closing, failed, die,
                       closer, receiver>>
        /\ in.pc = "idle" /\ pkt.addr \in Addrs
    BY DEF Lookup, Reads, Packets
  <1>2. TypeOK'
    BY <1>1 DEF IInv, TypeOK
  <1>3. NumbersInv'
    BY <1>1 DEF IInv, NumbersInv, Offered
  <1>4. InputInv'
    <2>1. made < MaxSessions
      BY DEF Lookup
    <2> QED
      BY <1>1, <2>1 DEF IInv, TypeOK, InputInv, RouteInv, MapInv
  <1>5. \A i : Served(i) <=> Served(i)'
    BY <1>1 DEF Served
  <1>6. MapInv'
    BY <1>1, <1>5 DEF IInv, MapInv
  <1>7. ReleaseInv' /\ ReceiverAsNeeded'
    BY <1>1 DEF IInv, ReleaseInv, ReceiverAsNeeded, Empty
  <1>8. AllTold'
    BY <1>1 DEF AllTold
  <1> QED
    BY <1>2, <1>3, <1>4, <1>6, <1>7, <1>8 DEF IInv

LEMMA RouteIInv ==
    ASSUME IInv, Route
    PROVE  IInv'
  <1>1. /\ UNCHANGED <<mode, sessions, chAccepts, accepted, made, sess, closing, failed, die,
                       closer, receiver>>
        /\ in.pc = "route" /\ RouteInv /\ made < MaxSessions
    BY DEF Route, IInv, InputInv
  <1>2. \/ in' = Idle
        \/ /\ in' = [in EXCEPT !.pc = "reset"]
           /\ in.s # None /\ in.pkt.conv \in Convs
        \/ /\ in' = [in EXCEPT !.pc = "create"]
           /\ in.s = None /\ in.pkt.conv \in Convs
    BY <1>1 DEF Route, RouteInv, Matches, Packets
  <1>3. TypeOK'
    BY <1>1, <1>2 DEF IInv, TypeOK, Idle
  <1>4. NumbersInv'
    BY <1>1 DEF IInv, NumbersInv, Offered
  <1>5. InputInv'
    BY <1>1, <1>2 DEF IInv, TypeOK, InputInv, RouteInv, CreateInv, Idle
  <1>6. \A i : Served(i) <=> Served(i)'
    BY <1>1, <1>2 DEF IInv, TypeOK, Served, Idle
  <1>7. MapInv'
    BY <1>1, <1>6 DEF IInv, MapInv
  <1>8. ReleaseInv' /\ ReceiverAsNeeded'
    BY <1>1 DEF IInv, ReleaseInv, ReceiverAsNeeded, Empty
  <1>9. AllTold'
    BY <1>1, <1>2 DEF IInv, TypeOK, AllTold, Idle
  <1> QED
    BY <1>3, <1>4, <1>5, <1>7, <1>8, <1>9 DEF IInv

(***************************************************************************)
(* The end of s.Close(): the replaced session is out of the map.           *)
(***************************************************************************)
LEMMA CloseReturnsIInv ==
    ASSUME IInv, in.pc \in {"reset", "reject"}, CloseReturns(in.s),
           in' = IF in.pc = "reject" THEN Idle ELSE [in EXCEPT !.pc = "create"],
           UNCHANGED <<mode, sessions, chAccepts, accepted, made, sess, closing, failed, die,
                       closer, receiver>>
    PROVE  IInv'
  <1>1. closing[in.s] = "closed"
    BY DEF CloseReturns
  <1>2. \/ in.pc = "reject" /\ in' = Idle
        \/ in.pc = "reset" /\ in' = [in EXCEPT !.pc = "create"]
    OBVIOUS
  <1>3. TypeOK'
    BY <1>2 DEF IInv, TypeOK, Idle
  <1>4. NumbersInv'
    BY DEF IInv, NumbersInv, Offered
  <1>5. InputInv'
    <2>1. CASE in' = Idle
      BY <2>1 DEF InputInv, Idle
    <2>2. CASE in.pc = "reset" /\ in' = [in EXCEPT !.pc = "create"]
      <3>1. RouteInv /\ in.s # None /\ in.pkt.conv \in Convs /\ made < MaxSessions
        BY <2>2 DEF IInv, InputInv
      <3>2. in.pkt \in Packets /\ in.pkt.addr \in Addrs
        BY <3>1 DEF RouteInv, Packets
      <3>3. sessions[in.pkt.addr] = None
        BY <1>1, <3>1, <3>2 DEF IInv, MapInv, RouteInv
      <3>4. in'.pc = "create" /\ in'.pkt = in.pkt
        BY <2>2 DEF IInv, TypeOK
      <3> QED
        BY <3>1, <3>2, <3>3, <3>4 DEF InputInv, CreateInv
    <2> QED
      BY <1>2, <2>1, <2>2
  <1>6. MapInv'
    <2>1. \A i : Served(i) => Served(i)'
      BY <1>2 DEF IInv, TypeOK, Served, Idle
    <2>2. \A i : Served(i)' /\ ~Served(i) => i = in.s
      BY <1>2 DEF IInv, TypeOK, Served, Idle
    <2> QED
      BY <1>1, <2>1, <2>2 DEF IInv, MapInv
  <1>7. ReleaseInv' /\ ReceiverAsNeeded'
    BY DEF IInv, ReleaseInv, ReceiverAsNeeded, Empty
  <1>8. AllTold'
    BY <1>2 DEF IInv, TypeOK, AllTold, Idle
  <1> QED
    BY <1>3, <1>4, <1>5, <1>6, <1>7, <1>8 DEF IInv

LEMMA CreateIInv ==
    ASSUME IInv, Create
    PROVE  IInv'
  <1>1. /\ UNCHANGED <<mode, sessions, chAccepts, accepted, closing, failed, die, closer,
                       receiver>>
        /\ in.pc = "create" /\ CreateInv
    BY DEF Create, IInv, InputInv
  <1>2. CASE in' = Idle /\ UNCHANGED <<made, sess>>
    <2>1. TypeOK'
      BY <1>1, <1>2 DEF IInv, TypeOK, Idle
    <2>2. NumbersInv' /\ InputInv' /\ AllTold'
      BY <1>1, <1>2 DEF IInv, NumbersInv, Offered, InputInv, AllTold, Idle
    <2>3. \A i : Served(i) <=> Served(i)'
      BY <1>1, <1>2 DEF Served, Idle
    <2>4. MapInv'
      BY <1>1, <1>2, <2>3 DEF IInv, MapInv
    <2>5. ReleaseInv' /\ ReceiverAsNeeded'
      BY <1>1 DEF IInv, ReleaseInv, ReceiverAsNeeded, Empty
    <2> QED
      BY <2>1, <2>2, <2>4, <2>5 DEF IInv
  <1>3. CASE /\ made' = made + 1
             /\ sess' = [sess EXCEPT ![made'] = [addr |-> in.pkt.addr, conv |-> in.pkt.conv]]
             /\ in' = [in EXCEPT !.pc = "insert", !.s = made']
    <2>1. made \in 0..MaxSessions /\ made < MaxSessions /\ made' \in Ids
      BY <1>1, <1>3, IdsFacts DEF IInv, TypeOK, InputInv, Ids
    <2>2. in.pkt.addr \in Addrs /\ in.pkt.conv \in Convs
      BY <1>1 DEF CreateInv, Packets
    <2>3. /\ in'.pc = "insert" /\ in'.s = made' /\ in'.pkt = in.pkt
          /\ in' \in [pc : {"insert"}, pkt : Packets \cup {None}, s : Ids]
      BY <1>3, <2>1 DEF IInv, TypeOK
    <2>4. /\ sess'[made'] = [addr |-> in.pkt.addr, conv |-> in.pkt.conv]
          /\ \A i \in 1..made : sess'[i] = sess[i]
          /\ \A i \in 1..made' : i \in 1..made \/ i = made'
          /\ \A i \in 1..made : i \in 1..made'
      BY <1>3, <2>1 DEF IInv, TypeOK, Ids
    <2>5. TypeOK'
      <3>1. sess' \in [Ids -> [addr : Addrs, conv : Convs] \cup {None}]
        BY <1>3, <2>1, <2>2 DEF IInv, TypeOK
      <3>2. made' \in 0..MaxSessions
        BY <2>1 DEF Ids
      <3> QED
        BY <1>1, <2>3, <3>1, <3>2 DEF IInv, TypeOK
    <2>6. NumbersInv'
      <3>1. \A i \in 1..made' : sess'[i] \in Session
        BY <2>2, <2>4 DEF IInv, NumbersInv, Session
      <3>2. \A i \in Ids : i > made' => i > made
        BY <1>3, <2>1, IdsFacts
      <3>3. Offered' = Offered
        BY <1>1 DEF Offered
      <3> QED
        BY <1>1, <2>4, <3>1, <3>2, <3>3 DEF IInv, NumbersInv
    <2>7. InputInv'
      <3>1. made' \notin 1..made /\ made' \in 1..made' /\ made' > made
        BY <1>3, <2>1
      <3>2. made' \notin Offered'
        BY <1>1, <3>1 DEF IInv, NumbersInv, Offered
      <3>3. closing'[made'] = "open"
        BY <1>1, <2>1, <3>1 DEF IInv, NumbersInv
      <3>4. NewInv'
        BY <2>3, <2>4, <3>1, <3>2 DEF NewInv
      <3>5. CreateInv'
        BY <1>1, <2>3 DEF CreateInv
      <3> QED
        BY <2>3, <3>3, <3>4, <3>5 DEF InputInv
    <2>8. MapInv'
      <3>1. \A i \in 1..made' : Served(i)' => i \in 1..made /\ Served(i)
        BY <1>1, <2>1, <2>3, <2>4, IdsFacts DEF Served
      <3>2. \A i \in 1..made : Served(i)'
        BY <1>3, <2>1, <2>3 DEF Served
      <3> QED
        BY <1>1, <2>4, <3>1, <3>2 DEF IInv, MapInv
    <2>9. ReleaseInv' /\ ReceiverAsNeeded' /\ AllTold'
      BY <1>1, <2>3 DEF IInv, ReleaseInv, ReceiverAsNeeded, Empty, AllTold
    <2> QED
      BY <2>5, <2>6, <2>7, <2>8, <2>9 DEF IInv
  <1> QED
    BY <1>2, <1>3 DEF Create

LEMMA InsertIInv ==
    ASSUME IInv, Insert
    PROVE  IInv'
  <1>1. /\ UNCHANGED <<mode, chAccepts, accepted, made, sess, closing, failed, die, closer,
                       receiver>>
        /\ in.pc = "insert" /\ CreateInv /\ NewInv /\ closing[in.s] = "open"
        /\ in.pkt.addr \in Addrs
    BY DEF Insert, IInv, InputInv, CreateInv, Packets
  <1>2. NumbersInv'
    BY <1>1 DEF IInv, NumbersInv, Offered
  <1>3. CASE Late /\ in' = [in EXCEPT !.pc = "reject"] /\ UNCHANGED sessions
    <2>1. in'.pc = "reject" /\ in'.s = in.s /\ in'.pkt = in.pkt
      BY <1>3 DEF IInv, TypeOK
    <2>2. TypeOK'
      BY <1>1, <1>3 DEF IInv, TypeOK
    <2>3. InputInv'
      BY <1>1, <1>3, <2>1 DEF InputInv, CreateInv, NewInv, Offered
    <2>4. \A i : Served(i)' <=> Served(i)
      BY <1>1, <2>1 DEF Served
    <2>5. MapInv'
      BY <1>1, <1>3, <2>4 DEF IInv, MapInv
    <2>6. ReleaseInv' /\ ReceiverAsNeeded' /\ AllTold'
      BY <1>1, <1>3, <2>1 DEF IInv, ReleaseInv, ReceiverAsNeeded, Empty, AllTold
    <2> QED
      BY <1>2, <2>2, <2>3, <2>5, <2>6 DEF IInv
  <1>4. CASE /\ ~Late
             /\ sessions' = [sessions EXCEPT ![in.pkt.addr] = in.s]
             /\ in' = [in EXCEPT !.pc = "offer"]
    <2>1. in'.pc = "offer" /\ in'.s = in.s /\ in'.pkt = in.pkt
      BY <1>4 DEF IInv, TypeOK
    <2>2. in.s \in 1..made /\ in.s \in Ids /\ in.s # None
      BY <1>1, IdsFacts DEF NewInv, IInv, TypeOK
    <2>3. /\ sessions'[in.pkt.addr] = in.s
          /\ \A a \in Addrs : a # in.pkt.addr => sessions'[a] = sessions[a]
      BY <1>1, <1>4 DEF IInv, TypeOK
    <2>4. TypeOK'
      BY <1>1, <1>4, <2>2 DEF IInv, TypeOK
    <2>5. InputInv'
      BY <1>1, <2>1, <2>2 DEF InputInv
    <2>6. MapInv'
      <3>1. \A i : Served(i)' <=> Served(i) \/ i = in.s
        BY <1>1, <2>1, <2>2, IdsFacts DEF Served, IInv, TypeOK
      <3>2. sess[in.s].addr = in.pkt.addr
        BY <1>1 DEF NewInv
      <3>3. ASSUME NEW i \in 1..made, Served(i), closing[i] \in {"open", "dead"}
            PROVE  sessions'[sess[i].addr] = i
        <4>1. sessions[sess[i].addr] = i /\ i # None /\ sess[i].addr \in Addrs
          BY <3>3, IdsFacts DEF IInv, MapInv, NumbersInv, Session, TypeOK
        <4> QED
          BY <1>1, <2>3, <4>1 DEF CreateInv
      <3> QED
        BY <1>1, <2>2, <2>3, <3>1, <3>2, <3>3 DEF IInv, MapInv
    <2>7. ReleaseInv' /\ ReceiverAsNeeded'
      <3>1. ~die /\ ~die'
        BY <1>1, <1>4 DEF Late
      <3> QED
        BY <1>1, <3>1 DEF IInv, ReleaseInv, ReceiverAsNeeded
    <2>8. AllTold'
      BY <2>1 DEF AllTold
    <2> QED
      BY <1>2, <2>4, <2>5, <2>6, <2>7, <2>8 DEF IInv
  <1> QED
    BY <1>3, <1>4 DEF Insert

LEMMA OfferIInv ==
    ASSUME IInv, Offer
    PROVE  IInv'
  <1>1. /\ UNCHANGED <<mode, sessions, accepted, made, sess, closing, failed, die, closer,
                       receiver>>
        /\ in.pc = "offer" /\ in.s \in 1..made /\ in' = Idle
        /\ chAccepts' = Append(chAccepts, in.s)
    BY DEF Offer, IInv, InputInv
  <1>2. in.s \in Ids
    BY <1>1, IdsFacts DEF IInv, TypeOK
  <1>3. TypeOK'
    BY <1>1, <1>2 DEF IInv, TypeOK, Idle
  <1>4. NumbersInv'
    <2>1. chAccepts \in Seq(Ids)
      BY DEF IInv, TypeOK
    <2>2. \A k \in DOMAIN chAccepts' : chAccepts'[k] = in.s \/ (k \in DOMAIN chAccepts /\ chAccepts'[k] = chAccepts[k])
      BY <1>1, <1>2, <2>1
    <2>3. Offered' \subseteq Offered \cup {in.s}
      BY <1>1, <2>2 DEF Offered
    <2> QED
      BY <1>1, <2>3 DEF IInv, NumbersInv
  <1>5. InputInv' /\ AllTold'
    BY <1>1 DEF InputInv, AllTold, Idle
  <1>6. \A i : Served(i) <=> Served(i)'
    BY <1>1 DEF Served, Idle
  <1>7. MapInv'
    BY <1>1, <1>6 DEF IInv, MapInv
  <1>8. ReleaseInv' /\ ReceiverAsNeeded'
    BY <1>1 DEF IInv, ReleaseInv, ReceiverAsNeeded, Empty
  <1> QED
    BY <1>3, <1>4, <1>5, <1>7, <1>8 DEF IInv

LEMMA FailureIInv ==
    ASSUME IInv, ReadFails \/ Propagate
    PROVE  IInv'
  <1>1. /\ UNCHANGED <<mode, sessions, chAccepts, accepted, made, sess, closing, die, closer,
                       receiver>>
        /\ \/ in.pc = "idle" /\ in' = [Idle EXCEPT !.pc = "failing"] /\ failed' = failed
           \/ /\ in.pc = "failing" /\ in' = [in EXCEPT !.pc = "stopped"]
              /\ failed' = failed \cup Told
    BY DEF ReadFails, Propagate, Reads
  <1>2. /\ in' \in [pc : {"failing", "stopped"}, pkt : Packets \cup {None}, s : Ids \cup {None}]
        /\ failed' \subseteq Ids
        /\ in'.pc = "failing" => in'.s = None
        /\ in'.pc = "stopped" => in.pc = "failing" /\ failed' = failed \cup Told
    BY <1>1 DEF IInv, TypeOK, Idle, Told
  <1>3. TypeOK'
    BY <1>1, <1>2 DEF IInv, TypeOK
  <1>4. NumbersInv'
    BY <1>1 DEF IInv, NumbersInv, Offered
  <1>5. InputInv'
    BY <1>2 DEF InputInv
  <1>6. \A i : Served(i) <=> Served(i)'
    BY <1>1, <1>2 DEF Served
  <1>7. MapInv'
    BY <1>1, <1>6 DEF IInv, MapInv
  <1>8. ReleaseInv' /\ ReceiverAsNeeded'
    BY <1>1 DEF IInv, ReleaseInv, ReceiverAsNeeded, Empty
  <1>9. AllTold'
    <2> SUFFICES ASSUME in'.pc = "stopped", NEW i \in 1..made, closing[i] = "open"
                 PROVE  i \in failed'
      BY <1>1 DEF AllTold
    <2>1. in.pc = "failing" /\ failed' = failed \cup Told
      BY <1>2
    <2>2. Served(i) /\ i \in Ids /\ sess[i].addr \in Addrs
      <3>1. made \in 0..MaxSessions /\ sess[i] \in Session
        BY DEF IInv, TypeOK, NumbersInv
      <3>2. i \in Ids /\ i <= made
        BY <3>1, IdsFacts
      <3> QED
        BY <2>1, <3>1, <3>2 DEF Served, Session
    <2>3. sessions[sess[i].addr] = i
      BY <2>2 DEF IInv, MapInv
    <2> QED
      BY <2>1, <2>2, <2>3 DEF Told
  <1> QED
    BY <1>3, <1>4, <1>5, <1>7, <1>8, <1>9 DEF IInv

-----------------------------------------------------------------------------
(***************************************************************************)
(* Close of a session, by the application or by packetInput.               *)
(***************************************************************************)
LEMMA BeginCloseIInv ==
    ASSUME IInv, NEW i \in 1..made, BeginClose(i), in.pc = "insert" => i # in.s,
           UNCHANGED <<mode, sessions, chAccepts, accepted, made, sess, failed, in, die,
                       closer, receiver>>
    PROVE  IInv'
  <1>1. i \in Ids /\ made \in Nat
    <2>1. made \in 0..MaxSessions
      BY DEF IInv, TypeOK
    <2> QED
      BY <2>1, IdsFacts
  <1>2. /\ closing[i] = "open" /\ closing'[i] = "dead"
        /\ \A j \in Ids : j # i => closing'[j] = closing[j]
        /\ closing' \in [Ids -> {"open", "dead", "release", "closed"}]
    BY <1>1 DEF BeginClose, IInv, TypeOK
  <1>3. TypeOK'
    BY <1>2 DEF IInv, TypeOK
  <1>4. NumbersInv'
    <2>1. \A j \in Ids : j > made => j # i
      BY <1>1, IdsFacts
    <2> QED
      BY <1>2, <2>1 DEF IInv, NumbersInv, Offered
  <1>5. InputInv'
    <2>1. in.pc = "insert" => in.s \in Ids /\ closing'[in.s] = "open"
      BY <1>2, IdsFacts DEF IInv, TypeOK, InputInv, NewInv
    <2> QED
      BY <2>1 DEF IInv, InputInv, RouteInv, CreateInv, NewInv, Offered
  <1>6. \A j : Served(j)' <=> Served(j)
    BY DEF Served
  <1>7. MapInv'
    <2>1. \A j \in 1..made : j \in Ids
      BY IdsFacts DEF IInv, TypeOK
    <2>2. \A j \in 1..made : closing'[j] \in {"open", "dead"} <=> closing[j] \in {"open", "dead"}
      BY <1>2, <2>1
    <2> QED
      BY <1>6, <2>2 DEF IInv, MapInv
  <1>8. \A j \in Ids : closing'[j] = "release" <=> closing[j] = "release"
    BY <1>2
  <1>9. ReleaseInv' /\ ReceiverAsNeeded'
    BY <1>8 DEF IInv, ReleaseInv, ReceiverAsNeeded, Empty
  <1>10. AllTold'
    <2>1. \A j \in 1..made : j \in Ids
      BY IdsFacts DEF IInv, TypeOK
    <2> QED
      BY <1>2, <2>1 DEF IInv, AllTold
  <1> QED
    BY <1>3, <1>4, <1>5, <1>7, <1>9, <1>10 DEF IInv

(***************************************************************************)
(* closeSession finds its own session under its address, or none: that of  *)
(* a new session that came too late is free.                               *)
(***************************************************************************)
LEMMA CloseFindsItself ==
    ASSUME IInv, NEW i \in Ids, closing[i] = "dead"
    PROVE  i \in 1..made /\ sess[i].addr \in Addrs /\ sessions[sess[i].addr] \in {None, i}
  <1>1. i \in 1..made
    <2>1. made \in Nat /\ i \in Nat /\ i >= 1
      BY IdsFacts DEF IInv, TypeOK, Ids
    <2>2. ~(i > made)
      BY DEF IInv, NumbersInv
    <2> QED
      BY <2>1, <2>2
  <1>2. sess[i].addr \in Addrs
    BY <1>1 DEF IInv, NumbersInv, Session
  <1>3. CASE Served(i)
    BY <1>1, <1>2, <1>3 DEF IInv, MapInv
  <1>4. CASE ~Served(i)
    <2>1. in.s = i /\ in.pc \in {"insert", "reject"}
      BY <1>1, <1>4 DEF Served, IInv, TypeOK
    <2> QED
      BY <1>1, <1>2, <2>1 DEF IInv, InputInv, CreateInv, NewInv
  <1> QED
    BY <1>1, <1>2, <1>3, <1>4

LEMMA CloseSessionIInv ==
    ASSUME IInv, NEW i \in Ids, closeSession(i)
    PROVE  IInv'
  <1>1. /\ UNCHANGED <<mode, chAccepts, accepted, made, sess, failed, in, die, closer, receiver>>
        /\ closing[i] = "dead"
    BY DEF closeSession
  <1>2. i \in 1..made /\ sess[i].addr \in Addrs /\ sessions[sess[i].addr] \in {None, i}
    BY <1>1, CloseFindsItself
  <1>3. /\ sessions' \in [Addrs -> Ids \cup {None}]
        /\ sessions'[sess[i].addr] = None
        /\ \A a \in Addrs : a # sess[i].addr => sessions'[a] = sessions[a]
    BY <1>2 DEF closeSession, IInv, TypeOK
  <1>4. /\ closing' \in [Ids -> {"open", "dead", "release", "closed"}]
        /\ closing'[i] \in {"release", "closed"}
        /\ closing'[i] = "release" <=> /\ sessions[sess[i].addr] # None
                                       /\ releasePusher(die, sessions')
        /\ \A j \in Ids : j # i => closing'[j] = closing[j]
    BY DEF closeSession, IInv, TypeOK
  <1>5. \A j \in 1..made : j \in Ids
    BY IdsFacts DEF IInv, TypeOK
  <1>6. TypeOK'
    BY <1>1, <1>3, <1>4 DEF IInv, TypeOK
  <1>7. NumbersInv'
    <2>1. \A j \in Ids : j > made => j # i
      BY <1>2, IdsFacts DEF IInv, TypeOK
    <2> QED
      BY <1>1, <1>4, <2>1 DEF IInv, NumbersInv, Offered
  <1>8. InputInv'
    <2>1. in.pc = "insert" => in.s \in Ids /\ closing'[in.s] = "open"
      BY <1>1, <1>4, <1>5 DEF IInv, InputInv, NewInv
    <2>2. \A a \in Addrs : sessions'[a] \in {None, sessions[a]}
      BY <1>3
    <2>3. RouteInv => RouteInv'
      BY <1>1, <2>2 DEF RouteInv, Packets
    <2>4. CreateInv => CreateInv'
      BY <1>1, <2>2 DEF CreateInv, Packets
    <2>5. NewInv => NewInv'
      BY <1>1 DEF NewInv, Offered
    <2> QED
      BY <1>1, <2>1, <2>3, <2>4, <2>5 DEF IInv, InputInv
  <1>9. MapInv'
    <2>1. \A j : Served(j)' <=> Served(j)
      BY <1>1 DEF Served
    <2>2. ASSUME NEW j \in 1..made, Served(j), closing'[j] \in {"open", "dead"}
          PROVE  sessions'[sess[j].addr] = j
      <3>1. j # i /\ closing[j] \in {"open", "dead"}
        BY <1>4, <1>5, <2>2
      <3>2. sessions[sess[j].addr] = j /\ j # None /\ sess[j].addr \in Addrs
        BY <1>5, <2>2, <3>1, IdsFacts DEF IInv, MapInv, NumbersInv, Session
      <3> QED
        BY <1>2, <1>3, <3>1, <3>2
    <2>3. ASSUME NEW a \in Addrs, sessions'[a] # None
          PROVE  /\ sessions'[a] \in 1..made /\ Served(sessions'[a])
                 /\ sess[sessions'[a]].addr = a
                 /\ closing'[sessions'[a]] \in {"open", "dead"}
      <3>1. a # sess[i].addr /\ sessions'[a] = sessions[a]
        BY <1>3, <2>3
      <3>2. /\ sessions[a] \in 1..made /\ Served(sessions[a]) /\ sess[sessions[a]].addr = a
            /\ closing[sessions[a]] \in {"open", "dead"}
        BY <2>3, <3>1 DEF IInv, MapInv
      <3>3. sessions[a] # i
        BY <3>1, <3>2
      <3> QED
        BY <1>4, <1>5, <3>1, <3>2, <3>3
    <2> QED
      BY <1>1, <2>1, <2>2, <2>3 DEF MapInv
  <1>10. Empty(sessions) => Empty(sessions')
    BY <1>3 DEF Empty
  <1>11. ReleaseInv'
    <2>1. closing'[i] = "release" => mode = "pushed" /\ die /\ Empty(sessions')
      BY <1>4 DEF releasePusher
    <2> QED
      BY <1>1, <1>4, <1>10, <2>1 DEF IInv, ReleaseInv, Empty
  <1>12. ReceiverAsNeeded'
    <2>1. CASE sessions[sess[i].addr] = None
      <3>1. Empty(sessions') => Empty(sessions)
        BY <1>3, <2>1 DEF Empty
      <3>2. \A j \in Ids : closing[j] = "release" => closing'[j] = "release"
        BY <1>1, <1>4
      <3> QED
        BY <1>1, <1>10, <3>1, <3>2 DEF IInv, ReceiverAsNeeded, Empty
    <2>2. CASE sessions[sess[i].addr] # None
      <3>1. mode = "pushed" /\ die /\ Empty(sessions') => closing'[i] = "release"
        BY <1>4, <2>2 DEF releasePusher
      <3>2. ReleaseInv' /\ (Empty(sessions)' <=> Empty(sessions'))
        BY <1>11 DEF Empty
      <3> QED
        BY <1>1, <3>1, <3>2 DEF ReceiverAsNeeded, ReleaseInv
    <2> QED
      BY <2>1, <2>2
  <1>13. AllTold'
    BY <1>1, <1>4, <1>5 DEF IInv, AllTold
  <1> QED
    BY <1>6, <1>7, <1>8, <1>9, <1>11, <1>12, <1>13 DEF IInv

LEMMA SessionUnregistersIInv ==
    ASSUME IInv, NEW i \in Ids, SessionUnregisters(i)
    PROVE  IInv'
  <1>1. /\ UNCHANGED <<mode, sessions, chAccepts, accepted, made, sess, failed, in, die, closer>>
        /\ closing[i] = "release" /\ ~receiver' /\ receiver' \in BOOLEAN
    BY DEF SessionUnregisters
  <1>2. /\ closing' \in [Ids -> {"open", "dead", "release", "closed"}]
        /\ closing'[i] = "closed"
        /\ \A j \in Ids : j # i => closing'[j] = closing[j]
    BY DEF SessionUnregisters, IInv, TypeOK
  <1>3. \A j \in 1..made : j \in Ids
    BY IdsFacts DEF IInv, TypeOK
  <1>4. \A j \in Ids : /\ closing'[j] = "open" <=> closing[j] = "open"
                       /\ closing'[j] = "dead" <=> closing[j] = "dead"
    BY <1>1, <1>2
  <1>5. TypeOK'
    BY <1>1, <1>2 DEF IInv, TypeOK
  <1>6. NumbersInv' /\ AllTold'
    BY <1>1, <1>3, <1>4 DEF IInv, NumbersInv, Offered, AllTold
  <1>7. InputInv'
    BY <1>1, <1>3, <1>4 DEF IInv, InputInv, RouteInv, CreateInv, NewInv, Offered
  <1>8. MapInv'
    <2>1. \A j : Served(j)' <=> Served(j)
      BY <1>1 DEF Served
    <2>2. \A j \in 1..made : closing'[j] \in {"open", "dead"} <=> closing[j] \in {"open", "dead"}
      BY <1>3, <1>4
    <2> QED
      BY <1>1, <2>1, <2>2 DEF IInv, MapInv
  <1>9. mode = "pushed" /\ die /\ Empty(sessions)
    BY <1>1 DEF IInv, ReleaseInv
  <1>10. ReleaseInv' /\ ReceiverAsNeeded'
    BY <1>1, <1>9 DEF ReleaseInv, ReceiverAsNeeded, Empty
  <1> QED
    BY <1>5, <1>6, <1>7, <1>8, <1>10 DEF IInv

LEMMA AcceptIInv ==
    ASSUME IInv, AcceptKCP
    PROVE  IInv'
  <1>1. /\ UNCHANGED <<mode, sessions, made, sess, closing, failed, in, die, closer, receiver>>
        /\ chAccepts # <<>> /\ chAccepts \in Seq(Ids)
        /\ accepted' = accepted \cup {Head(chAccepts)} /\ chAccepts' = Tail(chAccepts)
    BY DEF AcceptKCP, IInv, TypeOK
  <1>2. Head(chAccepts) \in Ids /\ Tail(chAccepts) \in Seq(Ids)
    BY <1>1
  <1>3. TypeOK'
    BY <1>1, <1>2 DEF IInv, TypeOK
  <1>4. Offered' \subseteq Offered
    <2>1. /\ 1 \in DOMAIN chAccepts /\ Head(chAccepts) = chAccepts[1]
          /\ \A k \in DOMAIN Tail(chAccepts) :
                k + 1 \in DOMAIN chAccepts /\ Tail(chAccepts)[k] = chAccepts[k + 1]
      BY <1>1
    <2> QED
      BY <1>1, <2>1 DEF Offered
  <1>5. NumbersInv'
    BY <1>1, <1>4 DEF IInv, NumbersInv
  <1>6. InputInv'
    BY <1>1, <1>4 DEF IInv, InputInv, RouteInv, CreateInv, NewInv
  <1>7. MapInv'
    BY <1>1 DEF IInv, MapInv, Served
  <1>8. ReleaseInv' /\ ReceiverAsNeeded' /\ AllTold'
    BY <1>1 DEF IInv, ReleaseInv, ReceiverAsNeeded, Empty, AllTold
  <1> QED
    BY <1>3, <1>5, <1>6, <1>7, <1>8 DEF IInv

LEMMA CloseIInv ==
    ASSUME IInv, Close
    PROVE  IInv'
  <1>1. UNCHANGED <<mode, sessions, chAccepts, accepted, made, sess, closing, failed, in>>
    BY DEF Close
  <1>2. /\ die' \in BOOLEAN /\ receiver' \in BOOLEAN
        /\ closer' \in {"none", "release", "socket", "closed"}
    BY DEF Close, IInv, TypeOK
  <1>3. TypeOK'
    BY <1>1, <1>2 DEF IInv, TypeOK
  <1>4. NumbersInv' /\ InputInv'
    BY <1>1 DEF IInv, NumbersInv, Offered, InputInv, RouteInv, CreateInv, NewInv
  <1>5. MapInv' /\ AllTold'
    BY <1>1 DEF IInv, MapInv, Served, AllTold
  <1>6. ReleaseInv' /\ ReceiverAsNeeded'
    <2>1. CASE /\ closer = "none" /\ die' /\ receiver' = receiver
               /\ closer' = IF releasePusher(TRUE, sessions) THEN "release" ELSE "socket"
      BY <1>1, <2>1 DEF IInv, ReleaseInv, ReceiverAsNeeded, Empty, releasePusher
    <2>2. CASE closer = "release" /\ ~receiver' /\ closer' = "socket" /\ die' = die
      BY <1>1, <2>2 DEF IInv, ReleaseInv, ReceiverAsNeeded, Empty
    <2>3. CASE closer = "socket" /\ closer' = "closed" /\ die' = die /\ receiver' = receiver
      BY <1>1, <2>3 DEF IInv, ReleaseInv, ReceiverAsNeeded, Empty
    <2> QED
      BY <2>1, <2>2, <2>3 DEF Close
  <1> QED
    BY <1>3, <1>4, <1>5, <1>6 DEF IInv

LEMMA NextIInv == IInv /\ [Next]_vars => IInv'
  <1> SUFFICES ASSUME IInv, [Next]_vars PROVE IInv'
    OBVIOUS
  <1>1. CASE InputCloses
    <2>1. in.s \in 1..made
      BY <1>1 DEF InputCloses, IInv, InputInv, RouteInv, NewInv
    <2>2. CASE BeginClose(in.s) /\ UNCHANGED in
      BY <1>1, <2>1, <2>2, BeginCloseIInv DEF InputCloses
    <2>3. CASE /\ CloseReturns(in.s) /\ UNCHANGED closing
               /\ in' = IF in.pc = "reject" THEN Idle ELSE [in EXCEPT !.pc = "create"]
      BY <1>1, <2>3, CloseReturnsIInv DEF InputCloses
    <2> QED
      BY <1>1, <2>2, <2>3 DEF InputCloses
  <1>2. ASSUME NEW i \in Ids, AppCloses(i) PROVE IInv'
    <2>1. i \in Offered
      BY <1>2 DEF AppCloses, Offered
    <2>2. i \in 1..made /\ (in.pc = "insert" => i # in.s)
      BY <2>1 DEF IInv, NumbersInv, InputInv, NewInv
    <2> QED
      BY <1>2, <2>2, BeginCloseIInv DEF AppCloses
  <1>3. CASE UNCHANGED vars
    BY <1>3 DEF vars, IInv, TypeOK, NumbersInv, Offered, InputInv, RouteInv, CreateInv,
                NewInv, MapInv, Served, ReleaseInv, ReceiverAsNeeded, Empty, AllTold
  <1> QED
    BY <1>1, <1>2, <1>3, LookupIInv, RouteIInv, CreateIInv, InsertIInv, OfferIInv,
       FailureIInv, CloseSessionIInv, SessionUnregistersIInv, AcceptIInv, CloseIInv
    DEF Next, monitor, InputStep, CloseStep

LEMMA Invariance == Spec => []IInv
  BY InitIInv, NextIInv, PTL DEF Spec

-----------------------------------------------------------------------------
(***************************************************************************)
(* The variables of the Listener keep their types.                         *)
(***************************************************************************)
THEOREM TypeCorrect == Spec => []TypeOK
  <1>1. IInv => TypeOK
    BY DEF IInv
  <1> QED
    BY <1>1, Invariance, PTL

(***************************************************************************)
(* The map of packetInput and closeSession has the sessions that are open, *)
(* under their own address, and none that is closed, although closeSession *)
(* removes by address and packetInput uses what it found after it has let  *)
(* go of the lock.                                                         *)
(***************************************************************************)
THEOREM MapIsExact == Spec => []MapHasOpen
  <1>1. IInv => MapHasOpen
    <2> SUFFICES ASSUME IInv PROVE MapHasOpen
      OBVIOUS
    <2>1. \A i \in Ids : Served(i) => i \in 1..made
      BY IdsFacts DEF Served, IInv, TypeOK, Ids
    <2> QED
      BY <2>1 DEF IInv, MapInv, MapHasOpen
  <1> QED
    BY <1>1, Invariance, PTL

(***************************************************************************)
(* A PacketPusher's callback is taken away when, and only when, the        *)
(* Listener and all its sessions are closed (releasePusherLocked).         *)
(***************************************************************************)
THEOREM ReceiverStays == Spec => []ReceiverAsNeeded
  <1>1. IInv => ReceiverAsNeeded
    BY DEF IInv
  <1> QED
    BY <1>1, Invariance, PTL

(***************************************************************************)
(* After notifyReadError of the Listener every open session knows of the   *)
(* failure, including those that nobody has accepted yet.                  *)
(***************************************************************************)
THEOREM EverySessionTold == Spec => []AllTold
  <1>1. IInv => AllTold
    BY DEF IInv
  <1> QED
    BY <1>1, Invariance, PTL
=============================================================================
