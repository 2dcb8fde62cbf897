------------------------------- MODULE Listener -------------------------------
(***************************************************************************)
(* The server side of sess.go: a Listener that spreads the packets of one  *)
(* socket over sessions, by address.  One goroutine (monitor, or the       *)
(* callback of a PacketPusher, which must not be called concurrently) runs *)
(* packetInput; any goroutine accepts sessions, closes them, and closes    *)
(* the Listener.                                                           *)
(*                                                                         *)
(* A step ends where the code takes or releases sessionLock, waits for a   *)
(* channel, or waits for a Close that is under way.  Sessions are numbered *)
(* in the order in which they are made; of what they do only Close and the *)
(* read error matter here (Session has the rest).  A packet is what        *)
(* packetInput looks at: the address it comes from, the conversation it    *)
(* names, if any, and whether its sn is 0, as it is in OOB packets, which  *)
(* have none.  Packets that fail decryption or are too short are dropped.  *)
(***************************************************************************)
EXTENDS Integers, Sequences

CONSTANTS Addrs, Convs,
          None,          \* no session, no conversation
          Modes,         \* the kinds of conn to consider
          AcceptBacklog, \* acceptBacklog
          MaxSessions    \* bound on the sessions that are made

(***************************************************************************)
(* A Listener owns its socket ("own"), serves a conn of the caller         *)
(* ("served"), or is given the packets by a PacketPusher ("pushed").       *)
(***************************************************************************)
ASSUME NamesAssumption == None \notin Convs \cup Nat /\ Modes \subseteq {"own", "served", "pushed"}
ASSUME BoundsAssumption == {AcceptBacklog, MaxSessions} \subseteq Nat \ {0}

VARIABLES mode,
          sessions,   \* the map from addresses to sessions
          chAccepts,  \* the backlog
          accepted,   \* the sessions that the application has
          made,       \* number of sessions made
          sess,       \* their [addr, conv]
          closing,    \* where Close of each session is
          failed,     \* the sessions whose chSocketReadError is closed
          in,         \* where packetInput is: [pc, pkt, s]
          die,        \* the Listener is closed
          closer,     \* where its Close is
          receiver    \* the conn hands its packets to this Listener

vars == <<mode, sessions, chAccepts, accepted, made, sess, closing, failed, in, die,
          closer, receiver>>

Ids == 1..MaxSessions

Packets == [addr : Addrs, conv : Convs, first : BOOLEAN]
             \cup [addr : Addrs, conv : {None}, first : {FALSE}]

Idle == [pc |-> "idle", pkt |-> None, s |-> None]

Init == /\ mode \in Modes
        /\ sessions = [a \in Addrs |-> None]
        /\ chAccepts = <<>> /\ accepted = {}
        /\ made = 0 /\ sess = [i \in Ids |-> None]
        /\ closing = [i \in Ids |-> "open"] /\ failed = {}
        /\ in = Idle
        /\ die = FALSE /\ closer = "none" /\ receiver = TRUE

Empty(m) == \A a \in Addrs : m[a] = None

(***************************************************************************)
(* releasePusherLocked: the Listener is closed and its last session gone.  *)
(***************************************************************************)
releasePusher(dead, m) == mode = "pushed" /\ dead /\ Empty(m)

-----------------------------------------------------------------------------
(***************************************************************************)
(* Close of session i.  Whoever gets dieOnce runs it, everybody else waits *)
(* for its end.                                                            *)
(***************************************************************************)
BeginClose(i) ==
    /\ closing[i] = "open"
    /\ closing' = [closing EXCEPT ![i] = "dead"]

\* variant: a second Close returns while the first one is still at work
CloseReturns_Early(i) == closing[i] # "open"

CloseReturns(i) == closing[i] = "closed"

(***************************************************************************)
(* closeSession removes whatever session has the address.                  *)
(***************************************************************************)
closeSession(i) ==
    /\ closing[i] = "dead"
    /\ sessions' = [sessions EXCEPT ![sess[i].addr] = None]
    /\ closing' = [closing EXCEPT
                     ![i] = IF /\ sessions[sess[i].addr] # None
                               /\ releasePusher(die, sessions')
                            THEN "release" ELSE "closed"]
    /\ UNCHANGED <<mode, chAccepts, accepted, made, sess, failed, in, die, closer, receiver>>

SessionUnregisters(i) ==
    /\ closing[i] = "release"
    /\ closing' = [closing EXCEPT ![i] = "closed"]
    /\ receiver' = FALSE
    /\ UNCHANGED <<mode, sessions, chAccepts, accepted, made, sess, failed, in, die, closer>>

(***************************************************************************)
(* The application accepts a session, and closes one that it has.          *)
(***************************************************************************)
AcceptKCP ==
    /\ chAccepts # <<>>
    /\ accepted' = accepted \cup {Head(chAccepts)}
    /\ chAccepts' = Tail(chAccepts)
    /\ UNCHANGED <<mode, sessions, made, sess, closing, failed, in, die, closer, receiver>>

AppCloses(i) ==
    /\ i \in accepted
    /\ BeginClose(i)
    /\ UNCHANGED <<mode, sessions, chAccepts, accepted, made, sess, failed, in, die,
                   closer, receiver>>

(***************************************************************************)
(* Close of the Listener.                                                  *)
(***************************************************************************)
Close ==
    /\ \/ /\ closer = "none"
          /\ die' = TRUE
          /\ closer' = IF releasePusher(TRUE, sessions) THEN "release" ELSE "socket"
          /\ UNCHANGED receiver
       \/ /\ closer = "release"
          /\ receiver' = FALSE
          /\ closer' = "socket"
          /\ UNCHANGED die
       \/ /\ closer = "socket"
          /\ closer' = "closed"
          /\ UNCHANGED <<die, receiver>>
    /\ UNCHANGED <<mode, sessions, chAccepts, accepted, made, sess, closing, failed, in>>

-----------------------------------------------------------------------------
(***************************************************************************)
(* packetInput.  It finds the session of the address under the lock and    *)
(* uses it after.  Packets of a batch come in after the socket is closed.  *)
(***************************************************************************)
Reads == in.pc = "idle" /\ receiver

Lookup(pkt) ==
    /\ Reads /\ made < MaxSessions
    /\ in' = [pc |-> "route", pkt |-> pkt, s |-> sessions[pkt.addr]]
    /\ UNCHANGED <<mode, sessions, chAccepts, accepted, made, sess, closing, failed, die,
                   closer, receiver>>

Matches(pkt, i) == pkt.conv \in {None, sess[i].conv}

(***************************************************************************)
(* A packet of the session's conversation, or of none, goes to kcpInput; a *)
(* first packet of another one ends the session and starts anew.           *)
(***************************************************************************)
Route ==
    /\ in.pc = "route"
    /\ in' = IF in.s # None
             THEN IF Matches(in.pkt, in.s) \/ ~in.pkt.first THEN Idle
                  ELSE [in EXCEPT !.pc = "reset"]
             ELSE IF in.pkt.conv = None THEN Idle ELSE [in EXCEPT !.pc = "create"]
    /\ UNCHANGED <<mode, sessions, chAccepts, accepted, made, sess, closing, failed, die,
                   closer, receiver>>

(***************************************************************************)
(* s.Close(), of the session that is replaced or of a new one that came    *)
(* too late.                                                               *)
(***************************************************************************)
InputCloses ==
    /\ in.pc \in {"reset", "reject"}
    /\ \/ BeginClose(in.s) /\ UNCHANGED in
       \/ /\ CloseReturns(in.s)
          /\ in' = IF in.pc = "reject" THEN Idle ELSE [in EXCEPT !.pc = "create"]
          /\ UNCHANGED closing
    /\ UNCHANGED <<mode, sessions, chAccepts, accepted, made, sess, failed, die, closer,
                   receiver>>

\* variant: off by one
BacklogFull_Late == Len(chAccepts) > AcceptBacklog

BacklogFull == Len(chAccepts) >= AcceptBacklog

Create ==
    /\ in.pc = "create"
    /\ IF BacklogFull
       THEN in' = Idle /\ UNCHANGED <<made, sess>>
       ELSE /\ made' = made + 1
            /\ sess' = [sess EXCEPT ![made'] = [addr |-> in.pkt.addr, conv |-> in.pkt.conv]]
            /\ in' = [in EXCEPT !.pc = "insert", !.s = made']
    /\ UNCHANGED <<mode, sessions, chAccepts, accepted, closing, failed, die, closer, receiver>>

\* variant: the Listener's die is not looked at
Late_Never == FALSE

Late == die

Insert ==
    /\ in.pc = "insert"
    /\ IF Late
       THEN in' = [in EXCEPT !.pc = "reject"] /\ UNCHANGED sessions
       ELSE /\ sessions' = [sessions EXCEPT ![in.pkt.addr] = in.s]
            /\ in' = [in EXCEPT !.pc = "offer"]
    /\ UNCHANGED <<mode, chAccepts, accepted, made, sess, closing, failed, die, closer, receiver>>

Offer ==
    /\ in.pc = "offer" /\ Len(chAccepts) < AcceptBacklog
    /\ chAccepts' = Append(chAccepts, in.s)
    /\ in' = Idle
    /\ UNCHANGED <<mode, sessions, accepted, made, sess, closing, failed, die, closer, receiver>>

(***************************************************************************)
(* The socket fails, or is closed: notifyReadError.                        *)
(***************************************************************************)
ReadFails ==
    /\ Reads
    /\ in' = [Idle EXCEPT !.pc = "failing"]
    /\ UNCHANGED <<mode, sessions, chAccepts, accepted, made, sess, closing, failed, die,
                   closer, receiver>>

\* variant: only sessions that were accepted are told
Told_Accepted == accepted

Told == {i \in Ids : \E a \in Addrs : sessions[a] = i}

Propagate ==
    /\ in.pc = "failing"
    /\ failed' = failed \cup Told
    /\ in' = [in EXCEPT !.pc = "stopped"]
    /\ UNCHANGED <<mode, sessions, chAccepts, accepted, made, sess, closing, die, closer, receiver>>

-----------------------------------------------------------------------------
InputStep == Route \/ InputCloses \/ Create \/ Insert \/ Offer \/ Propagate

monitor == (\E pkt \in Packets : Lookup(pkt)) \/ InputStep \/ ReadFails

CloseStep(i) == closeSession(i) \/ SessionUnregisters(i)

Next == \/ monitor
        \/ \E i \in Ids : CloseStep(i) \/ AppCloses(i)
        \/ AcceptKCP \/ Close

Spec == Init /\ [][Next]_vars

(***************************************************************************)
(* Goroutines that can go on do.  Nobody has to accept or close anything,  *)
(* and no packet has to come.                                              *)
(***************************************************************************)
FairSpec == Spec /\ WF_vars(InputStep) /\ \A i \in Ids : WF_vars(CloseStep(i))

-----------------------------------------------------------------------------
(***************************************************************************)
(* Properties                                                              *)
(***************************************************************************)
TypeOK ==
    /\ mode \in Modes /\ sessions \in [Addrs -> Ids \cup {None}]
    /\ chAccepts \in Seq(Ids) /\ accepted \subseteq Ids /\ failed \subseteq Ids
    /\ made \in 0..MaxSessions
    /\ sess \in [Ids -> [addr : Addrs, conv : Convs] \cup {None}]
    /\ closing \in [Ids -> {"open", "dead", "release", "closed"}]
    /\ in \in [pc : {"idle", "route", "reset", "create", "insert", "reject", "offer",
                     "failing", "stopped"},
               pkt : Packets \cup {None}, s : Ids \cup {None}]
    /\ die \in BOOLEAN /\ receiver \in BOOLEAN
    /\ closer \in {"none", "release", "socket", "closed"}

Served(i) == i <= made /\ ~(in.s = i /\ in.pc \in {"insert", "reject"})

(***************************************************************************)
(* The map has the sessions that are open and no other.  closeSession      *)
(* removes an entry by address, so the Close of a replaced session must    *)
(* not come after its successor is entered, nor leave it behind: a session *)
(* that is open but not in the map would never get a packet again, and a   *)
(* closed one in it would swallow those of its peer.                       *)
(***************************************************************************)
MapHasOpen ==
    /\ \A i \in Ids : Served(i) /\ closing[i] = "open" => sessions[sess[i].addr] = i
    /\ \A a \in Addrs : sessions[a] # None => /\ sess[sessions[a]].addr = a
                                              /\ closing[sessions[a]] \in {"open", "dead"}

(***************************************************************************)
(* The callback of a PacketPusher stays as long as the Listener or one of  *)
(* its sessions needs it, and goes when the last of them has closed, in    *)
(* whatever order the Close calls and new sessions come.                   *)
(***************************************************************************)
ReceiverAsNeeded ==
    mode = "pushed" =>
        /\ ~receiver => die /\ Empty(sessions)
        /\ die /\ Empty(sessions) =>
             \/ ~receiver
             \/ closer = "release" \/ \E i \in Ids : closing[i] = "release"

(***************************************************************************)
(* When the socket has failed and the sessions have been told, no session  *)
(* is open that does not know.                                             *)
(***************************************************************************)
AllTold ==
    in.pc = "stopped" => \A i \in 1..made : closing[i] = "open" => i \in failed

(***************************************************************************)
(* packetInput returns: it waits neither for the application to accept a   *)
(* session nor for ever for a Close that another goroutine runs, since all *)
(* sessions of the socket wait for it.                                     *)
(***************************************************************************)
InputReturns == in.pc \notin {"idle", "stopped"} ~> in.pc \in {"idle", "stopped"}
=============================================================================
