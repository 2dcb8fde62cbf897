------------------------------- MODULE Session -------------------------------
(***************************************************************************)
(* A UDPSession as its callers see it: sess.go and readloop.go.  Callers   *)
(* block in Read and Write or poll with TryRead, while the read loop feeds *)
(* packets in, the timer runs update, deadlines pass, the socket fails,    *)
(* and somebody calls Close.                                               *)
(*                                                                         *)
(* Whatever the code does while it holds s.mu is one step; receiving from  *)
(* or sending to a channel is a step of its own.  A channel of capacity    *)
(* one (chReadEvent, chWriteEvent, writeGate) is the Boolean "it holds an  *)
(* element", a channel that is only ever closed (die, chSocketReadError)   *)
(* the Boolean "it is closed", and the Done channel of a deadline the      *)
(* Boolean "the deadline has passed".                                      *)
(*                                                                         *)
(* KCP is reduced to what the session asks of it: the complete messages    *)
(* that PeekSize and Recv see, as sequences of bytes numbered in the order *)
(* in which they arrive, and the number WaitSnd of segments not yet        *)
(* acknowledged.  KcpLink says how the one fills and the other drains.     *)
(* Packets from other sources, and those that fail decryption or FEC and   *)
(* OOB packets change none of this.                                        *)
(***************************************************************************)
EXTENDS Integers, Sequences

CONSTANTS Callers,
          Roles,      \* the [Callers -> {"read", "poll", "write"}] to consider
          BufLens,    \* lengths of the slices given to Read
          MsgSizes,   \* lengths of the messages that arrive
          MaxBytes,   \* bound on the bytes that arrive
          SndWnd,     \* kcp.snd_wnd
          Segments    \* numbers of segments that one Write may fill

ASSUME RolesAssumption == Roles \subseteq [Callers -> {"read", "poll", "write"}]
\* a session has one readNotify callback: one caller at most relies on it
ASSUME PollerAssumption ==
    \A r \in Roles : \A c, d \in Callers : r[c] = "poll" /\ r[d] = "poll" => c = d
ASSUME LengthsAssumption ==
    /\ {MaxBytes, SndWnd} \subseteq Nat \ {0}
    /\ BufLens \cup MsgSizes \cup Segments \subseteq Nat \ {0}

VARIABLES role,         \* what each caller does
          pc,           \* where its call is
          rcv,          \* the complete messages in KCP
          input,        \* the bytes of recvbuf not read yet
          arrived,      \* history: number of bytes that have arrived
          got,          \* history: the bytes read, in order
          waitsnd,      \* kcp.WaitSnd()
          chReadEvent, chWriteEvent,
          writeGate,
          readDeadline, writeDeadline,
          chSocketReadError, chSocketWriteError,
          die,
          notified,     \* the readNotify callback has run since the last look
          closer,       \* where the first Close is
          loop,         \* where readLoop is
          timer,        \* where update is
          bucket        \* a rate limit is set

reading == <<rcv, input, arrived, got>>
events  == <<chReadEvent, chWriteEvent, writeGate, notified>>
limits  == <<readDeadline, writeDeadline, chSocketReadError, chSocketWriteError, die, bucket>>
actors  == <<closer, loop, timer>>
vars    == <<role, pc, reading, waitsnd, events, limits, actors>>

Init == /\ role \in Roles
        /\ pc = [c \in Callers |-> "idle"]
        /\ rcv = <<>> /\ input = <<>> /\ arrived = 0 /\ got = <<>>
        /\ waitsnd = 0
        /\ chReadEvent = FALSE /\ chWriteEvent = FALSE
        /\ writeGate = TRUE /\ notified = FALSE
        /\ readDeadline = FALSE /\ writeDeadline = FALSE
        /\ chSocketReadError = FALSE /\ chSocketWriteError = FALSE
        /\ die = FALSE /\ bucket = FALSE
        /\ closer = "none" /\ loop = "reading" /\ timer = "due"

Goto(c, to) == pc' = [pc EXCEPT ![c] = to]

(***************************************************************************)
(* callReadNotify: the callback is there once the poller has set it.       *)
(***************************************************************************)
NotifySet == \E c \in Callers : role[c] = "poll" /\ pc[c] # "idle"

callReadNotify == notified' = (notified \/ NotifySet)

(***************************************************************************)
(* notifyReadEvent if there is something to read, notifyWriteEvent if the  *)
(* window is open.                                                         *)
(***************************************************************************)
NotifyReadIf(ready) ==
    /\ chReadEvent' = (chReadEvent \/ ready)
    /\ notified' = (notified \/ (ready /\ NotifySet))

NotifyWriteIf(open) == chWriteEvent' = (chWriteEvent \/ open)

-----------------------------------------------------------------------------
(***************************************************************************)
(* Reading.                                                                *)
(***************************************************************************)
Available == input # <<>> \/ rcv # <<>>

(***************************************************************************)
(* What readLocked reads from: the rest of the last message if there is    *)
(* one, the next message otherwise.                                        *)
(***************************************************************************)
\* variant: the next message is fetched before the last one is used up
Source_Next == IF rcv # <<>> THEN Head(rcv) ELSE input

Source == IF input # <<>> THEN input ELSE Head(rcv)

LeftInKcp == IF Source = input THEN rcv ELSE Tail(rcv)

Shorter(m, n) == IF m < n THEN m ELSE n

\* variant: the event is renewed for messages in KCP only
ReadAgain_Kcp(rest, msgs) == msgs # <<>>

(***************************************************************************)
(* notifyReadIfAvailableLocked.                                            *)
(***************************************************************************)
ReadAgain(rest, msgs) == rest # <<>> \/ msgs # <<>>

(***************************************************************************)
(* readLocked with a slice of n bytes: read up to n of them, keep the rest *)
(* of the message for the next call and renew the event for the other      *)
(* readers.                                                                *)
(***************************************************************************)
readLocked(n) ==
    /\ Available
    /\ LET bytes == Source
           k     == Shorter(n, Len(bytes))
           rest  == SubSeq(bytes, k + 1, Len(bytes))
       IN  /\ got' = got \o SubSeq(bytes, 1, k)
           /\ input' = rest
           /\ rcv' = LeftInKcp
           /\ NotifyReadIf(ReadAgain(rest, rcv'))
    /\ UNCHANGED <<arrived, waitsnd, chWriteEvent, writeGate>>

(***************************************************************************)
(* Read: look for data, and wait if there is none.                         *)
(***************************************************************************)
ReadData(c) ==
    /\ role[c] = "read" /\ pc[c] \in {"idle", "again"}
    /\ \/ /\ \E n \in BufLens : readLocked(n)
          /\ Goto(c, "idle")
       \/ /\ ~Available
          /\ Goto(c, "wait")
          /\ UNCHANGED <<reading, waitsnd, events>>
    /\ UNCHANGED <<role, limits, actors>>

ReadEvent(c) ==
    /\ pc[c] = "wait" /\ chReadEvent
    /\ chReadEvent' = FALSE
    /\ Goto(c, "again")
    /\ UNCHANGED <<role, reading, waitsnd, chWriteEvent, writeGate, notified, limits, actors>>

\* variant: a Read that waits does not notice Close
ReadFails_Open == readDeadline \/ chSocketReadError

ReadFails == readDeadline \/ chSocketReadError \/ die

ReadInterrupted(c) ==
    /\ pc[c] = "wait" /\ ReadFails
    /\ Goto(c, "idle")
    /\ UNCHANGED <<role, reading, waitsnd, events, limits, actors>>

(***************************************************************************)
(* A caller that polls: it sets the callback, calls TryRead until there is *)
(* nothing left, and again whenever the callback has run.  It stops at the *)
(* session's error.                                                        *)
(***************************************************************************)
SetReadNotify(c) ==
    /\ role[c] = "poll" /\ pc[c] = "idle"
    /\ Goto(c, "try")
    /\ UNCHANGED <<role, reading, waitsnd, events, limits, actors>>

TryRead(c) ==
    /\ pc[c] = "try"
    /\ \/ /\ \E n \in BufLens : readLocked(n)
          /\ UNCHANGED pc
       \/ /\ ~Available
          /\ Goto(c, "empty")
          /\ UNCHANGED <<reading, waitsnd, events>>
    /\ UNCHANGED <<role, limits, actors>>

TryReadState(c) ==
    /\ pc[c] = "empty"
    /\ Goto(c, IF chSocketReadError \/ die THEN "done" ELSE "asleep")
    /\ UNCHANGED <<role, reading, waitsnd, events, limits, actors>>

PollAgain(c) ==
    /\ pc[c] = "asleep" /\ notified
    /\ notified' = FALSE
    /\ Goto(c, "try")
    /\ UNCHANGED <<role, reading, waitsnd, chReadEvent, chWriteEvent, writeGate, limits, actors>>

-----------------------------------------------------------------------------
(***************************************************************************)
(* Writing.  A caller holds the gate from "check" to the end of its call.  *)
(***************************************************************************)
Holding == {"check", "send", "window", "throttled", "paid"}

WriteFails == writeDeadline \/ chSocketWriteError \/ die

(***************************************************************************)
(* A call that holds the gate returns: the deferred releaseWriteGate.      *)
(***************************************************************************)
\* variant: the gate is given back only while the session is open
Release_Open(c) == Goto(c, "idle") /\ writeGate' = ~die

Release(c) == Goto(c, "idle") /\ writeGate' = TRUE

(***************************************************************************)
(* acquireWriteGate, and waitWriteGate when somebody else has the gate.    *)
(***************************************************************************)
TakeGate(c) ==
    /\ role[c] = "write" /\ pc[c] \in {"idle", "gate"} /\ writeGate
    /\ writeGate' = FALSE
    /\ Goto(c, "check")
    /\ UNCHANGED <<role, reading, waitsnd, chReadEvent, chWriteEvent, notified, limits, actors>>

WaitForGate(c) ==
    /\ role[c] = "write" /\ pc[c] = "idle" /\ ~writeGate
    /\ Goto(c, "gate")
    /\ UNCHANGED <<role, reading, waitsnd, events, limits, actors>>

GateEvent(c) ==
    /\ pc[c] = "gate" /\ chWriteEvent
    /\ chWriteEvent' = FALSE
    /\ UNCHANGED <<role, pc, reading, waitsnd, chReadEvent, writeGate, notified, limits, actors>>

GateInterrupted(c) ==
    /\ pc[c] = "gate" /\ WriteFails
    /\ Goto(c, "idle")
    /\ UNCHANGED <<role, reading, waitsnd, events, limits, actors>>

(***************************************************************************)
(* WriteBuffers with the gate: is the session still good, is there room    *)
(* in the window, and if not, wait for an event.                           *)
(***************************************************************************)
WriteCheck(c) ==
    /\ pc[c] = "check"
    /\ \/ /\ WriteFails
          /\ Release(c)
       \/ /\ ~WriteFails
          /\ Goto(c, "send")
          /\ UNCHANGED writeGate
    /\ UNCHANGED <<role, reading, waitsnd, chReadEvent, chWriteEvent, notified, limits, actors>>

(***************************************************************************)
(* writeBuffers: all segments of the call go to KCP if WaitSnd is below    *)
(* the window; then writeWait, which only looks at the bucket.             *)
(***************************************************************************)
WriteSend(c) ==
    /\ pc[c] = "send"
    /\ \/ /\ waitsnd < SndWnd
          /\ \E n \in Segments : waitsnd' = waitsnd + n
          /\ IF bucket THEN Goto(c, "throttled") /\ UNCHANGED writeGate
                       ELSE Release(c)
       \/ /\ waitsnd >= SndWnd
          /\ Goto(c, "window")
          /\ UNCHANGED <<waitsnd, writeGate>>
    /\ UNCHANGED <<role, reading, chReadEvent, chWriteEvent, notified, limits, actors>>

WindowEvent(c) ==
    /\ pc[c] = "window" /\ chWriteEvent
    /\ chWriteEvent' = FALSE
    /\ Goto(c, "check")
    /\ UNCHANGED <<role, reading, waitsnd, chReadEvent, writeGate, notified, limits, actors>>

WindowInterrupted(c) ==
    /\ pc[c] = "window" /\ WriteFails
    /\ Release(c)
    /\ UNCHANGED <<role, reading, waitsnd, chReadEvent, chWriteEvent, notified, limits, actors>>

(***************************************************************************)
(* The tokens of a throttled Write are there: juju/ratelimit sleeps for    *)
(* the time that they take, and for nothing else (external).               *)
(***************************************************************************)
TokensCome(c) ==
    /\ pc[c] = "throttled"
    /\ Goto(c, "paid")
    /\ UNCHANGED <<role, reading, waitsnd, events, limits, actors>>

(***************************************************************************)
(* writeWait: bucket.Wait returns, and with it the Write.                  *)
(***************************************************************************)
BucketWait(c) ==
    /\ pc[c] = "paid"
    /\ Release(c)
    /\ UNCHANGED <<role, reading, waitsnd, chReadEvent, chWriteEvent, notified, limits, actors>>

-----------------------------------------------------------------------------
(***************************************************************************)
(* The session's own goroutines and the timer.                             *)
(***************************************************************************)
Message(n) == [i \in 1..n |-> arrived + i]

(***************************************************************************)
(* kcpInput: a packet completes at most one message and acknowledges any   *)
(* number of segments.                                                     *)
(***************************************************************************)
kcpInput ==
    /\ \/ UNCHANGED <<rcv, arrived>>
       \/ \E n \in MsgSizes : /\ arrived + n <= MaxBytes
                              /\ rcv' = Append(rcv, Message(n))
                              /\ arrived' = arrived + n
    /\ waitsnd' \in 0..waitsnd
    /\ NotifyReadIf(rcv' # <<>>)
    /\ NotifyWriteIf(waitsnd' < SndWnd)
    /\ UNCHANGED <<input, got, writeGate>>

(***************************************************************************)
(* readLoop and pushedPacket: packets have come, and the session was open  *)
(* when it was looked at; or the socket has failed.  readLoop reads them   *)
(* in batches on Linux and looks once for all of a batch.  (A Listener     *)
(* gives its sessions packets without looking.)                            *)
(***************************************************************************)
LoopReceives ==
    /\ loop = "reading"
    /\ loop' = IF die THEN "stopped" ELSE "packet"
    /\ UNCHANGED <<role, pc, reading, waitsnd, events, limits, closer, timer>>

PacketInput ==
    /\ loop = "packet"
    /\ kcpInput
    /\ loop' \in {"reading", "packet"}
    /\ UNCHANGED <<role, pc, limits, closer, timer>>

LoopFails ==
    /\ loop = "reading"
    /\ chSocketReadError' = TRUE
    /\ loop' = "failed"
    /\ UNCHANGED <<role, pc, reading, waitsnd, events, readDeadline, writeDeadline,
                   chSocketWriteError, die, bucket, closer, timer>>

LoopTells ==
    /\ loop = "failed"
    /\ callReadNotify
    /\ loop' = "stopped"
    /\ UNCHANGED <<role, pc, reading, waitsnd, chReadEvent, chWriteEvent, writeGate,
                   limits, closer, timer>>

(***************************************************************************)
(* update: the timer's task looks at die, flushes and puts itself again.   *)
(***************************************************************************)
UpdateStart ==
    /\ timer = "due"
    /\ timer' = IF die THEN "stopped" ELSE "running"
    /\ UNCHANGED <<role, pc, reading, waitsnd, events, limits, closer, loop>>

\* variant: update leaves the writers alone
UpdateNotifies_Never == UNCHANGED chWriteEvent

UpdateNotifies == NotifyWriteIf(waitsnd < SndWnd)

Update ==
    /\ timer = "running"
    /\ UpdateNotifies
    /\ timer' = "due"
    /\ UNCHANGED <<role, pc, reading, waitsnd, chReadEvent, writeGate, notified,
                   limits, closer, loop>>

(***************************************************************************)
(* Close, the call that gets dieOnce: it flushes and closes die under the  *)
(* lock; then it runs the callback and closes the socket, unless that is   *)
(* not its own.                                                            *)
(***************************************************************************)
Close ==
    /\ \/ /\ closer = "none"
          /\ die' = TRUE
          /\ closer' = "dead"
          /\ UNCHANGED notified
       \/ /\ closer = "dead"
          /\ callReadNotify
          /\ closer' = "closed"
          /\ UNCHANGED die
    /\ UNCHANGED <<role, pc, reading, waitsnd, chReadEvent, chWriteEvent, writeGate,
                   readDeadline, writeDeadline, chSocketReadError, chSocketWriteError,
                   bucket, loop, timer>>

(***************************************************************************)
(* What may happen at any time: a deadline passes or is set, the socket    *)
(* refuses to send, a rate limit is set or taken away.                     *)
(***************************************************************************)
DeadlineChanges ==
    /\ \/ readDeadline' = ~readDeadline /\ UNCHANGED writeDeadline
       \/ writeDeadline' = ~writeDeadline /\ UNCHANGED readDeadline
    /\ UNCHANGED <<role, pc, reading, waitsnd, events, chSocketReadError,
                   chSocketWriteError, die, bucket, actors>>

notifyWriteError ==
    /\ ~chSocketWriteError
    /\ chSocketWriteError' = TRUE
    /\ UNCHANGED <<role, pc, reading, waitsnd, events, readDeadline, writeDeadline,
                   chSocketReadError, die, bucket, actors>>

SetRateLimit ==
    /\ bucket' = ~bucket
    /\ UNCHANGED <<role, pc, reading, waitsnd, events, readDeadline, writeDeadline,
                   chSocketReadError, chSocketWriteError, die, actors>>

-----------------------------------------------------------------------------
ReaderStep(c) ==
    ReadData(c) \/ ReadEvent(c) \/ ReadInterrupted(c)

PollerStep(c) ==
    SetReadNotify(c) \/ TryRead(c) \/ TryReadState(c) \/ PollAgain(c)

WriterStep(c) ==
    \/ TakeGate(c) \/ WaitForGate(c) \/ GateEvent(c) \/ GateInterrupted(c)
    \/ WriteCheck(c) \/ WriteSend(c) \/ WindowEvent(c) \/ WindowInterrupted(c)
    \/ TokensCome(c) \/ BucketWait(c)

readLoop == LoopReceives \/ PacketInput \/ LoopFails \/ LoopTells

SessionStep == readLoop \/ UpdateStart \/ Update \/ Close

Next == \/ \E c \in Callers : ReaderStep(c) \/ PollerStep(c) \/ WriterStep(c)
        \/ SessionStep
        \/ DeadlineChanges \/ notifyWriteError \/ SetRateLimit

Spec == Init /\ [][Next]_vars

(***************************************************************************)
(* Fairness.  Goroutines run and timers fire, so that a step that stays    *)
(* possible is taken.  A step that waits for an element of a channel       *)
(* competes with other callers; the channel serves its receivers in the    *)
(* order in which they came, which gives strong fairness.  A select with   *)
(* several cases ready picks one at random, so that the case of a deadline *)
(* or of die, once ready, is not passed over for ever: it has fairness of  *)
(* its own.  While segments wait for acknowledgement, the peer's           *)
(* acknowledgements keep coming (KcpLink!Delivery).  Nobody has to call    *)
(* Read, Write or Close, and nothing else has to happen.  That tokens      *)
(* come, however low the rate, is promised by FairSpec only: SlowSpec is   *)
(* for what must not have to wait for them.                                *)
(***************************************************************************)
CallerFairness(c) ==
    /\ WF_vars(pc[c] = "again" /\ ReadData(c))
    /\ WF_vars(ReadInterrupted(c))
    /\ WF_vars(GateInterrupted(c)) /\ WF_vars(WindowInterrupted(c))
    /\ WF_vars(WriteCheck(c)) /\ WF_vars(WriteSend(c)) /\ WF_vars(BucketWait(c))
    /\ SF_vars(pc[c] = "gate" /\ TakeGate(c))
    /\ SF_vars(WindowEvent(c))

SessionFairness ==
    /\ WF_vars(waitsnd > 0 /\ LoopReceives) /\ WF_vars(PacketInput)
    /\ SF_vars(PacketInput /\ waitsnd' < waitsnd)
    /\ WF_vars(UpdateStart) /\ WF_vars(Update)

SlowSpec == Spec /\ SessionFairness /\ \A c \in Callers : CallerFairness(c)

FairSpec == SlowSpec /\ \A c \in Callers : WF_vars(TokensCome(c))

-----------------------------------------------------------------------------
(***************************************************************************)
(* Properties                                                              *)
(***************************************************************************)
Places == {"idle", "again", "wait", "try", "empty", "asleep", "done", "gate"} \cup Holding

TypeOK ==
    /\ role \in Roles /\ pc \in [Callers -> Places]
    /\ rcv \in Seq(Seq(Nat)) /\ input \in Seq(Nat) /\ arrived \in 0..MaxBytes
    /\ got \in Seq(Nat) /\ waitsnd \in Nat
    /\ chReadEvent \in BOOLEAN /\ chWriteEvent \in BOOLEAN
    /\ writeGate \in BOOLEAN /\ notified \in BOOLEAN
    /\ readDeadline \in BOOLEAN /\ writeDeadline \in BOOLEAN
    /\ chSocketReadError \in BOOLEAN /\ chSocketWriteError \in BOOLEAN
    /\ die \in BOOLEAN /\ bucket \in BOOLEAN
    /\ closer \in {"none", "dead", "closed"}
    /\ loop \in {"reading", "packet", "failed", "stopped"}
    /\ timer \in {"due", "running", "stopped"}

(***************************************************************************)
(* No reader sleeps beside data.  chReadEvent holds one element for any    *)
(* number of readers and messages: while a Read waits and there is data,   *)
(* the element is there or another Read has taken it and is about to look; *)
(* and while a caller of TryRead waits for its callback, there is neither  *)
(* data nor an error that the callback will not still be run for.          *)
(***************************************************************************)
NoReaderSleeps ==
    \A c \in Callers :
        /\ pc[c] = "wait" /\ Available => chReadEvent \/ \E d \in Callers : pc[d] = "again"
        /\ pc[c] = "asleep" /\ ~notified => /\ ~Available
                                            /\ die => closer = "dead"
                                            /\ chSocketReadError => loop = "failed"

(***************************************************************************)
(* What Read and TryRead return, in the order in which they looked, is the *)
(* stream of bytes as it arrived: no short read drops, repeats or reorders *)
(* the rest of a message, and nothing is lost once there is nothing left.  *)
(***************************************************************************)
BytesInOrder == /\ got = [i \in 1..Len(got) |-> i]
                /\ ~Available => Len(got) = arrived

(***************************************************************************)
(* The write gate has one element or one owner, whichever way calls end.   *)
(***************************************************************************)
OneGateOwner ==
    /\ \A c, d \in Callers : pc[c] \in Holding /\ pc[d] \in Holding => c = d
    /\ writeGate <=> \A c \in Callers : pc[c] \notin Holding

(***************************************************************************)
(* Every Write ends, as long as packets are read.  Callers that wait for   *)
(* the gate take elements of chWriteEvent that the owner of the gate waits *)
(* for; the timer's update makes up for them.                              *)
(***************************************************************************)
WriteEnds ==
    \A c \in Callers :
        pc[c] \in Holding \cup {"gate"} ~> pc[c] = "idle" \/ loop \in {"failed", "stopped"}

(***************************************************************************)
(* A call that is blocked for data, for the gate or for the window notices *)
(* its deadline, the failure of the socket and Close.                      *)
(***************************************************************************)
Fails(c) == \/ die
            \/ role[c] = "read" /\ (readDeadline \/ chSocketReadError)
            \/ role[c] = "write" /\ (writeDeadline \/ chSocketWriteError)

Noticing(places) ==
    \A c \in Callers : pc[c] \in places /\ Fails(c) ~> pc[c] \notin places \/ ~Fails(c)

Interruptible == Noticing({"wait", "gate", "window"})

(***************************************************************************)
(* What README.md says of SetRateLimit: a Write that waits for its tokens  *)
(* in writeWait notices the same, before they come.                        *)
(***************************************************************************)
ThrottledInterruptible == Noticing({"throttled"})
=============================================================================
