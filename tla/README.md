# A TLA+ model of kcp-go

kcp-go is a reliable-UDP library: an ARQ protocol (KCP) with selective
acknowledgement, window probing and several kinds of retransmission, run by
sessions that share a timer scheduler and a pool of sending workers, with
optional forward error correction and packet encryption.  This directory holds
TLA+ modules for the parts whose correctness depends on the order of events,
TLC runs that check them on small instances, and TLAPS proofs of the central
properties for all instances.

`PROJECT.json` lists components, runs, mutants, the map from definitions to
source lines, findings, hazards and theorems.  Definitions whose name ends in a
variant's name (`UnaDrops_Inclusive`, marked `\* variant`) are deliberate bugs:
each property of each passing run is violated when one of them replaces the
definition after it.

## 1. Inventory

| Component | State | Operations | Talks to |
|---|---|---|---|
| KCP state machine (`kcp.go`) | sequence numbers, four queues (`snd_queue`, `snd_buf`, `rcv_buf`, `rcv_queue`), ACK list, windows, probe flags and timer, RTT and congestion state | `Send`, `Recv`, `PeekSize`, `Input`, `flush`, `WndSize`, `SetMtu`, `NoDelay` | its output callback; the peer, through datagrams |
| UDPSession (`sess.go`, `deadline.go`, `readloop*.go`) | a KCP under `mu`, the rest of the last message, read/write events and deadlines, write gate, `die`, socket errors, FEC codec, rate limiter | `Read`, `TryRead`, `SetReadNotify`, `Write`, `SendOOB`, `Close`, `update`, `readLoop`, `kcpInput`, setters | KCP, post-processing, scheduler, listener, socket |
| Post-processing (`postprocess.go`, `sendqueue.go`, `postProcess` in `sess.go`) | per session: `postQueue`, `ppRunning`, `ppClosing`; global: `ppQueue`, workers, batches, pool of batches | output callback, kick, worker loop, `flushTx`, `sendTx`, `finishPostProcess`, `discardPostProcess` | KCP (under `mu`), socket, `Close` |
| Listener (`sess.go`) | table of sessions by address, accept backlog, `die`, read error, PacketPusher receiver | `packetInput`, `Accept`, `notifyReadError`, `closeSession`, `Close` | sessions, socket |
| Timed scheduler (`timedsched.go`) | per shard: heap of tasks, armed deadline, wake token, timer | `Put`, `run`, `Close` | `UDPSession.update` |
| Ring buffer (`ringbuffer.go`) | head, tail, backing slice | `Push`, `Pop`, `Discard`, `Clear`, `At`, `ForEach`, `ForEachReverse`, `grow` | the queues of KCP |
| FEC (`fec.go`), parameter detection (`autotune.go`) | shard ids, shard sets, caches | `encode`, `encodeOOB`, `decode`, `Sample`, `FindPeriod` | post-processing, `kcpInput` |
| Encryption (`crypt.go`, `entropy.go`) | keys, nonce source | `Encrypt`, `Decrypt`, `Seal`, `Open` | post-processing, `packetInput` |
| Socket I/O, buffer pool, counters | kernel buffers, pools, statistics | batch read and write | everything |

What is hard here, and what makes each part correct:

* **KCP.**  Datagrams are lost, duplicated, delayed and reordered, so every
  field of every datagram (`una`, `wnd`, `sn`) may be stale when it is applied.
  `parse_ack` recycles the buffer of a segment that stays in `snd_buf`.  A
  window can close and its reopening be announced by a datagram that is lost.
  Correct means: the reader gets what the writer wrote, whole messages in
  order; nothing is released before the peer has it; queues respect windows;
  the connection never goes silent with data left.  Its timers are readings of
  a clock that wraps, set by one handler and looked at by another, and `update`
  sleeps until the nearest of them.
* **Post-processing.**  Producers hold `s.mu`, workers hold nothing, `Close`
  drains a queue others are popping from.  Correct means: one owner per
  session, packets in order, no packet without an owner, no use of a socket
  after `Close`, no lost wakeup.
* **Scheduler.**  `Put` decides under a lock whether to wake a goroutine that
  sleeps outside it, and time passes everywhere.  Correct means: no task is
  lost, repeated, early, or forgotten by a sleeping shard.
* **Ring buffer.**  Contiguous and wrapped layouts are separate code paths in
  every operation.  Correct means: it is a FIFO queue and keeps no references.
* **FEC.**  Shard ids wrap, groups arrive interleaved and late, parameters
  change under way.  Correct means: a recovered datagram is one that was sent,
  what can be recovered is, and a tuned decoder has the encoder's parameters.
* **Session.**  One event channel of capacity one serves any number of readers,
  one any number of writers, and writers that wait for the gate take events meant
  for its owner; deadlines, socket errors and `Close` come at any time.  Correct
  means: no reader sleeps beside data, bytes come once and in order, the gate is
  neither lost nor doubled, every blocked call ends.
* **Listener.**  A session is replaced by another of its address while its own
  `Close` runs elsewhere, and the map is changed by address.  Correct means: the
  map holds the open sessions, errors and the release of the conn reach exactly
  whom they concern, and the one goroutine that reads for all never blocks.

## 2. Modules

```
MsgChannel  <--implements-- KcpLink  <--extends-- MCKcpLink  <--extends-- MCKcpLinkSafe
Fifo        <--implements-- RingBuffer <--extends-- MCContainers --uses--> TimedFuncHeap
PostProcess <--extends-- MCPostProcess
Fec         <--extends-- MCFec
Session     <--extends-- MCSession
KcpTimers   <--extends-- MCKcpTimers
TimedSched, Listener
```

The theorems about `KcpLink`, `KcpTimers`, `Session`, `Listener`, `PostProcess`,
`TimedSched` and `Fec` are in the module of that name with `Proofs` after it, those
about `RingBuffer` and `TimedFuncHeap` in `ContainerProofs`, which extends
`MCContainers`.

`Session` uses what `KcpLink` promises (messages arrive in order, segments are
acknowledged); `KcpTimers` details the choices `Timings` of `KcpLink`; `Listener`
is about many sessions and `Session` about one; `PostProcess` is the way from
the output callback of both to the socket.

### KcpLink

Two endpoints `Peers` and the network between them.  `kcp[p]` is a record with
a field for each field of the `KCP` struct that decides what is sent, kept or
delivered; `net[p]` holds what is under way to `p`; `inp[p]` is the datagram
that `p`'s `Input` is working through.

| Action | Code |
|---|---|
| `Send`, `Recv`, `WndSize` | `KCP.Send` in message mode, `KCP.Recv` with `PeekSize`, `KCP.WndSize` |
| `Update` | `UDPSession.update`: `flush(IKCP_FLUSH_FULL)` |
| `Deliver` | `UDPSession.kcpInput`: `Input` begins |
| `InputAck`, `InputPush`, `InputWask`, `InputWins` | one segment of the loop of `KCP.Input`, header steps included |
| `FinishInput`, `InputReject` | the end of `Input` with its flush; an early error return |
| `Lose` | the network |

A flush is one atomic step (it runs under the session's mutex), written as the
union of its phases: `FlushAcks`, `FlushProbes`, `FlushData` for what goes on
the wire and `Flushed` for the state it leaves.

Abstractions:

* A segment's payload is a fragment `[msg, frg]`, identified by its position in
  the stream of what its user wrote, so that any mix-up is visible.
* Time is a choice: a flush gets a record `t` that says which segments in
  flight are retransmitted (RTO, fast, early), whether the probe timer has
  expired and what the congestion window is.  Every real flush is among the
  choices; the safety results hold for every timing, retransmission policy and
  congestion controller.
* Sequence numbers are unbounded; the 16-bit window field is not (`WndMod`).
* What one flush outputs is a *burst*, which travels as one datagram
  (`Coalesce`) or as one datagram per segment, the two extremes of `makeSpace`.
* FEC is the possibility that a datagram is not a regular packet and does not
  update the remote window.
* Not in the model: stream mode, `SetMtu`, dead-link counting (`kcp.state` is
  never read), and messages larger than the peer's window.

`MsgChannel` is the promise to the users, without any wire: two ordered
channels of whole messages.

### PostProcess

One variable per shared object; a step ends where the code releases a lock or
touches an atomic.  `mu[s]` is where the holder of `s.mu` stands between its
push, its claim, the append to `ppQueue` and the signal; `closer[s]` where
`Close` stands; `wk[w]` is a worker with its program counter, session,
remaining budget, batch and the place to go on after a send.  `Close`'s last
flush is not told apart from other producers: it is the `Output` steps that
precede `CloseDie`.  A batch is named after the worker it was created for.
`FEC`, encryption and `dup` appear as the number of further datagrams (`Extras`)
that one packet becomes.  What happens after two workers have come to share a
batch (see the findings) is a data race; the run stops there.

### TimedSched and TimedFuncHeap

One shard, since shards share nothing.  `Collect` and `Arm` are two steps under
one lock because time passes between them; `ResetTimer` is outside the lock.
`Put` is blocked only while the shard arms.  The heap is a set in `TimedSched`;
`TimedFuncHeap` is the real algorithm, `up` and `down` being the two loops as
functions of their state `<<i, s>>`, and `HeapIsSet` (in `MCContainers`) says of every
heap that a push and a pop do to it what they do to a set of tasks.  The heaps
are made of what a ring holds, so that TLC meets all of up to five tasks, with
deadlines in every order and equal ones among them.

### RingBuffer and Fifo

All operations of `ringbuffer.go`, with both layouts, and the readers `RingAt`,
`ForEach` and `ForEachReverse` as sequences.  `Fifo` is the abstract queue.

### Fec

One direction of a link: `Encode` is `fecEncoder.encode` with the network losing
any of its packets, and skips parity whenever it likes, for the real decision
depends on the time between packets; `kcpInput(s)` is the FEC branch of
`UDPSession.kcpInput` for the packet `s`: `kcp.Input` of a data packet, `Sample`,
and the whole of `decode` (`Decoded` for the decoder it leaves, `Returned` for
its result).  A packet is its sequence number, its type and the number of its
group, which does not wrap; so a set that mixes two rounds of sequence numbers
is visible, and yields `Garbage`.  `shardHeap` is a set: `decode` only ever pops
all of it.  `FindPeriod` sorts its samples and looks for neighbours with
consecutive numbers; `CompletePulse` says the same of the set of samples, and
`FirstOf` which of the pulses comes first in the sorted order.  Samples that span
half of the circle have no order, and then any pulse may be found.

The signed differences of the code are right only while less than half of the
sequence numbers lie between the packets under way and the sets in memory.  For
2^32 numbers that is out of question; here, with few numbers, `MaxLag` and
`MaxAhead` bound delay and loss accordingly: the groups that a packet may be behind
(`MaxLag`, and `MaxShardSets` for a set in memory) and those the encoder may be
ahead, with the numbers that `Paws` leaves unused, fit in half of the circle, whose
size is even like 2^32 (`WindowAssumption`).  Out-of-band
packets take neither sequence numbers nor the decoder and are left out.

### KcpTimers

One sender and its clock; the data is left out.  `now` is `currentMs()` modulo
`Word`, `due` the moment at which the scheduler runs `update`, and `kcp` has the
fields of the struct that timers and congestion control use.  `snd_buf` is a
sequence of segments with their timer; a sequence number is a position in it.

| Action | Code |
|---|---|
| `update` | `UDPSession.update`: `flush` in full (`Flushed`, phases 2, 4, 5 and 6) and the next run after what it returns (`NextUpdate`) |
| `Write` | `writeBuffersLocked`: a segment is queued, and flushed unless the write is delayed |
| `InputAck`, `InputAckRecovered`, `InputOther` | `Input` of a datagram with one segment: regular ACK, ACK recovered by FEC, any other; to the end of `Input` with `Grow` and its flush |
| `ResetRTO`, `NoDelay` | the functions of these names |
| `Tick` | the clock, which waits for an `update` that is due (external) |

`update_ack` is abstracted to its bounds: whatever the sample, the RTO lies
between the interval or the minimum and `IKCP_RTO_MAX`.  `xmit` is reduced to
"has been sent".  A datagram has one segment.  `Update` and `Check`, which are
deprecated and which nothing in the repository's own sessions calls, and a
change of the interval are left out.

### Session

One session and its callers.  Whatever the code does under `s.mu` is one step,
and so is each receive from or send to a channel; channels of capacity one and
channels that are only closed are Booleans.  KCP is reduced to the complete
messages it has (bytes numbered as they arrive) and to `WaitSnd`.

| Action | Code |
|---|---|
| `ReadData`, `ReadEvent`, `ReadInterrupted` | the loop of `Read`: `readLocked`, then the select |
| `SetReadNotify`, `TryRead`, `TryReadState`, `PollAgain` | a caller that polls, as `TryRead` and the callback are meant to be used |
| `TakeGate`, `WaitForGate`, `GateEvent`, `GateInterrupted` | `acquireWriteGate`, `waitWriteGate` |
| `WriteCheck`, `WriteSend`, `WindowEvent`, `WindowInterrupted` | the loop of `WriteBuffers` |
| `TokensCome`, `BucketWait` | `writeWait`: the tokens are there (external), and `bucket.Wait` returns |
| `LoopReceives`, `PacketInput`, `LoopFails`, `LoopTells` | `readLoop` and `pushedPacket`, `packetInput` with `kcpInput`, `notifyReadError` |
| `UpdateStart`, `Update` | `update` before and under the lock |
| `Close` | the call that gets `dieOnce`: under the lock, then the callback |
| `DeadlineChanges`, `notifyWriteError`, `SetRateLimit` | deadlines that pass or are set, a failed send, the rate limiter |

`Close`'s gate and drain are in `PostProcess`, its part in the Listener in
`Listener`.  An empty `Write` takes no gate and is left out.  The deadline is the
Boolean "its Done channel is closed" (external: pion's deadline).

### Listener

One Listener; its sessions are numbers with an address, a conversation and the
place where their `Close` stands.  `in` is where `packetInput` stands, with the
packet and the session that it found under the lock and uses after it.  A step
ends where the code takes or releases `sessionLock` or waits.  A packet is its
address, its conversation if it names one, and whether its `sn` is 0.  `mode`
says whether the Listener owns its conn, was given it, or is fed by a
PacketPusher (`receiver`: the callback is set).

| Action | Code |
|---|---|
| `Lookup`, `Route`, `InputCloses`, `Create`, `Insert`, `Offer` | `packetInput`, from the look at the map to the send to `chAccepts` |
| `ReadFails`, `Propagate` | `monitor` or `pushedPacket` with an error, `notifyReadError` |
| `AcceptKCP`, `AppCloses` | the application |
| `closeSession`, `SessionUnregisters` | the end of a session's `Close` |
| `Close` | the Listener's |

## 3. Runs

| Run | Instance | Shows |
|---|---|---|
| `link_safe` | one writer, windows of 2, one fault, any order, in two settings side by side (`MCKcpLinkSafe`).  `data`: 3 fragments in messages of 1 or 2, two bursts of data under way, and a receiver that shrinks its window to 1 while it holds segments.  `acks`: one segment per datagram, ACKs delayed and reordered, datagrams rebuilt by FEC | `MsgChannel` is implemented (`ChannelSpec`), readers get a prefix of what was written (`DeliveredInOrder`) in whole messages (`WholeMessages`), `rcv_buf` keeps back nothing deliverable (`NothingStranded`), `SafeRelease`, `WirePayload` (no recycled buffer on the wire), `NoRegress` |
| `link_live` | FIFO network, finitely many faults, receive window of 1 | all that is written is read (`Delivery`), and queues respect windows (`WindowRespected`); `TypeOK` and `LinkInv`, the inductive invariant of the proofs |
| `link_stall` | the same with reordering | violation of `QuietWhenDelivered` (a connection goes quiet only when all is read), see Findings |
| `post` | 2 sessions, 2 workers of which one starts late, 3+1 packets; queue, batch and budget of 2 | `ExclusiveClaim`, `FifoPerSession`, `NoStrandedPacket`, `ClosedStaysEmpty`, `CloseWaitsForSend`; `Drained` |
| `post_leftover` | batches of 2, `Close` between two pops | violation, see Findings |
| `sched` | 3 tasks, deadlines up to 3, slack 1 | `NoLostWakeup`, `EachTaskOnce`, `NeverEarly`, `EveryTaskRuns` |
| `containers` | 3 values, up to 5 elements, slices of 2, 4, 5, 6 slots; all heaps of up to 5 tasks | `FifoSpec`, `IterationsAgree`; `HeapIsSet` |
| `fec` | groups of 2+1, 26 sequence numbers, two rounds, `maxShardSets` 2, losses, copies, reordering, skipped parity; the decoder starts with 2+1, 1+1 or 2+2 and keeps 5 samples | `RecoveredIsSent`, `EnoughIsRecovered`, `NoSpuriousTune`, `TunesRight` |
| `session` | two callers: two readers, a reader and a poller, or two writers; 3 bytes in messages of 1 or 2, slices of 1 or 2, a window of 1 that a `Write` of 2 segments overruns | `NoReaderSleeps`, `BytesInOrder`, `OneGateOwner`, `WriteEnds`, `Interruptible` |
| `session_throttled` | two writers, the rate limit set at any time, tokens that may never come | violation of `ThrottledInterruptible`, see Findings |
| `listener` | two addresses, two conversations, four sessions, a backlog of 1, all three kinds of conn | `MapHasOpen`, `ReceiverAsNeeded`, `AllTold`, `InputReturns` |
| `timers` | a clock of 14 readings that goes round, interval 2, an RTO of 2 that backs off to 3 or 4, two segments in flight, peer windows 0 and 2, default and no-delay mode | `RetransmitOnTime`, `ProbeOnTime`, `WindowSane` |

Bounds.  Windows of 1 and 2 with 2 or 3 fragments reach a full window, a gap, a
closed window and a repeated segment; two bursts under way are the least
that can be reordered; one fault is the least that makes a copy or a loss, and
with retransmission also creates repeated segments without a fault.  A queue,
batch and budget of 2 with 3 packets reach each limit in each combination.
Three tasks are an earlier, an equal and a later one.  The ring passes through
both growth policies and every head/tail offset.  26 sequence numbers are not a
multiple of the group size 3, as 2^32 - 1 need not be, so that `paws` matters;
two rounds let a set of the first meet its successor.  Five samples are the group
size and two, as 258 is for 256.  In
`session` two callers of a kind are the least that can take each other's events,
and three bytes the least with a short read before another message.  In
`listener` three sessions are an old one, its successor and a bystander; the
fourth is the late one that a closed Listener rejects.  In `timers` 14 readings
are the fewest for which the longest wait and an interval fit in half a turn
(`TimeAssumption`), as they do in 32 bits.

Constraints of the runs, which narrow what they explore: `Noticed` (in `session`) leaves out
what no caller of the chosen kind can notice; `ConfiguredFirst` and
`HeadInFlight` (in `timers`) let `NoDelay` be called before the session is used
and the peer have room for what it acknowledges, and the view `Seen` there
ignores the timer of an acknowledged segment with none behind it; `TuneSoon` (in `fec`) sends only
the first groups to a decoder that still has wrong parameters, and the view
`Seen` ignores the samples of a decoder that does not look at them;
`ResizedInUse` (in `link_safe`) shrinks a window only when that can matter, and
`OneIsLong` there leaves the streams of one-fragment messages to the setting `acks`
and to `link_live`.

`InputFirst` (in `MCKcpLink`) is a partial-order reduction of `link_safe` and `link_stall`:
the steps of `Input` before its end touch only `kcp[p]` and `inp[p]`, so they
commute with every step of the peer and of the network.  `RebuiltMatters` (in
`link_safe`) loses nothing either: `Input` tells a rebuilt datagram from a regular
one only by not taking its window.  The run `link_live`
uses neither.  In all runs of `KcpLink` one endpoint writes; that both directions
at once do not disturb each other is what the proofs show.

## 4. Fairness

* `KcpLink`: an endpoint that has begun `Input` finishes it (it holds a mutex
  and does not block); the network delivers what it does not lose, and loses
  finitely many datagrams (`MaxFaults`); a user keeps reading (strong fairness:
  the mutex may be taken in between); and `update`, which reschedules itself for
  as long as the session lives, flushes again and again with the overdue
  timers expired and the network willing to take the datagram.
* `PostProcess`: workers, the holder of `s.mu` and a `Close` that has begun are
  goroutines that do not block elsewhere, so each is scheduled.  Nothing is
  assumed of producers.
* `TimedSched`: the shard and a `Put` in its last step are scheduled, and time
  passes.  The clock stops at `MaxTime`, unless a timer is still to fire.
* `Session`: goroutines and the timer go on (weak fairness).  A Go channel serves
  its receivers in the order in which they came, so a caller that waits for an
  element of the gate or of the write events gets one of infinitely many (strong
  fairness).  A select with several cases ready picks one at random, so an
  interrupt that stays ready is not passed over for ever: it has weak fairness of
  its own.  Acknowledgements keep coming while segments wait (`Delivery` of
  `KcpLink`).  Nobody has to call `Read`, `Write` or `Close`.  All this is `SlowSpec`;
  `FairSpec` adds that the tokens of a throttled `Write` come in the end, which
  `WriteEnds` needs.  How long they take depends on the rate and on the length of
  the `Write` only, so a call that "remains interruptible" must not need them:
  `session_throttled` is checked with `SlowSpec`.
* `Listener`: `packetInput` and a `Close` that has begun go on.  Nobody has to
  accept or close, and no packet has to come.
* `KcpTimers` has no liveness property: "on time" is an invariant there, and
  stronger.

## 5. Proofs

Every theorem holds for all values of the constants that the named assumptions
of its module admit: any number of sessions, callers, workers and tasks, any
windows and sizes, any width of the clock.  The constraints and views of the
runs play no part in them.

| Module | Theorem | Statement |
|---|---|---|
| `KcpLinkProofs` | `TypeCorrect` | `Spec => []TypeOK` |
| | `LinkAgreement` | `Spec => []LinkInv` |
| | `InOrderDelivery` | `Spec => []DeliveredInOrder` |
| | `NoPartialMessage` | `Spec => []WholeMessages` |
| | `ReleaseIsSafe` | `Spec => []SafeRelease` |
| | `WireIsFaithful` | `Spec => []WirePayload` |
| | `ChannelRefinement` | `Spec => ChannelSpec` |
| | `WindowsBound` | `Spec => []WindowRespected` |
| | `NoneLeftBehind` | `Spec /\ [][NoWiderWindow]_vars => []NothingStranded` |
| | `NeverBack` | `Spec => NoRegress` |
| `KcpTimersProofs` | `TimersKept` | `Spec => []TimerInv` |
| | `ResendsOnTime` | `Spec => []RetransmitOnTime` |
| | `ProbesOnTime` | `Spec => []ProbeOnTime` |
| | `CwndIsSane` | `Spec => WindowSane` |
| `SessionProofs` | `TypeCorrect` | `Spec => []TypeOK` |
| | `OneOwner` | `Spec => []OneGateOwner` |
| | `NobodySleepsBesideData` | `Spec => []NoReaderSleeps` |
| | `StreamIsPreserved` | `Spec => []BytesInOrder` |
| `ListenerProofs` | `TypeCorrect` | `Spec => []TypeOK` |
| | `MapIsExact` | `Spec => []MapHasOpen` |
| | `ReceiverStays` | `Spec => []ReceiverAsNeeded` |
| | `EverySessionTold` | `Spec => []AllTold` |
| `PostProcessProofs` | `TypeCorrect` | `Spec => []TypeOK` |
| | `ClaimIsExclusive` | `Spec => []ExclusiveClaim` |
| | `NothingForgotten` | `Spec => []NoStrandedPacket` |
| | `CloseLeavesNothing` | `Spec => []ClosedStaysEmpty` |
| | `GateKeepsSendersOut` | `Spec => []CloseWaitsForSend` |
| | `OrderIsKept` | `Spec => []FifoPerSession` |
| `TimedSchedProofs` | `TypeCorrect` | `Spec => []TypeOK` |
| | `ShardWakes` | `Spec => []NoLostWakeup` |
| | `TasksAreCounted` | `Spec => []EachTaskOnce` |
| | `NoneEarly` | `Spec => NeverEarly` |
| `ContainerProofs` | `TypeCorrect` | `Spec => []TypeOK` |
| | `IsFifo` | `Spec => FifoSpec` |
| | `ReadsAgree` | `Spec => []IterationsAgree` |
| | `PushKeepsHeap` | `PushAdds(h, f)` for every heap `h` of distinct tasks and new task `f` |
| | `PopKeepsHeap` | `PopTakesFirst(h)` for every such heap that is not empty |
| | `HeapBehavesAsSet` | `Spec => []HeapIsSet` |
| `FecProofs` | `TypeCorrect` | `Spec => []TypeOK` |
| | `StreamIsRegular` | `Spec => []FlowInv` |
| | `NeverInDoubt` | `Spec => []NoSpuriousTune` |
| | `TuningIsRight` | `Spec => TunesRight` |
| | `SetsAreOfOneGroup` | `Spec => []SentInv` |
| | `NeverGarbage` | `Spec => []RecoveredIsSent` |
| | `NothingDropped` | `Spec => []GotInv` |
| | `RecoversInTime` | `Spec => []EnoughIsRecovered` |

### KcpLinkProofs

None of the safety properties is inductive: what a reader gets depends on
`rcv_queue`, that on `rcv_buf`, that on the wire, and that on `snd_buf`, whose
acknowledged entries have lost their payload.  `LinkInv` says of both
directions at once that

* `SndInv`: `snd_buf` is exactly `snd_una .. snd_nxt-1` of the stream written,
  `snd_queue` the rest, and an entry that is not acknowledged has its payload;
* `RcvInv`: what was read, then `rcv_queue`, is the stream up to `rcv_nxt`,
  `rcv_buf` holds later parts of it, and pending ACKs name received segments;
* `AckInv`: what the sender has given up the receiver has got;
* `SegInv`: every segment under way is truthful: its `una` is not ahead of its
  sender, an ACK names a received segment, data is data of the stream;
* `Framed`: streams are made of whole messages, and reading stops at their ends.

The proof has one lemma per operation on one endpoint (`FlushInv`, `HeaderInv`,
`ParseAckInv`, `InsertInv`, `MoveInv`, `RecvInv`, ...) and one, `PeerStep`, that
says when a step of one endpoint preserves the whole of `LinkInv`: its
own halves hold again, its receiver has not gone back (`Advances`), its stream
has only grown (`Extends`), and what it puts on the wire is truthful.  The
refinement follows from `LinkInv` (`ChannelStep`): a `Recv` that merges
fragments up to `frg = 0` takes exactly the next message of the channel.

Assumptions: two endpoints, message sizes of 1 to 255 fragments (what `Send`
admits), positive window sizes.

The theorems about windows need an account of single steps.  Every step of the
system does to each endpoint what `KcpStep` allows
(`StepSummary`): `SndStep` says that `snd_una` and `snd_nxt` only grow, the latter
within the window, and that a segment of `snd_buf` is new or was there before;
`RcvStep` the like of the receiving half; `WndStep` which windows there can be.
The three theorems follow from this summary and `LinkInv`.  `WindowRespected`
compares with the largest window ever configured, so it needs `WindowsKnown`: the
windows in use are among those.  `NothingStranded` is *not* an invariant of
`Spec`, because `WndSize` may enlarge a receive window without moving the
segments that now fit (finding 1); the theorem says that this is the only way.

### KcpTimersProofs

The properties compare readings of a clock that wraps.  `itimediff` is the only
number within half a turn that differs from `a - b` by whole turns (`DiffIs`);
from this come the four facts everything else rests on: a timer set for `d` ends
`d` ahead (`AheadOfSet`), a tick brings every reading one closer (`AheadTick`),
readings less than half a turn apart compare as their distances from the clock
do (`AheadDiff`), and the test "has it passed?" (`AheadPassed`).  `TimerInv`
restates the properties with distances from the clock, and adds that `due` lies
between the clock and an interval ahead of it, and that a timer whose RTO could
back off beyond `MaxRto` has not ended.  There is one lemma per phase of `flush`:
after a full one *all* timers run (`TimersRun`, `ProbeRuns`), so what it returns
is at least one tick and no later than any of them (`NextUpdateIs`).

`CwndIsSane` needs more about the sender (`Narrow`): at most `snd_wnd` segments
are in flight, and the peer's window and the fast retransmission threshold are
bounded.  It shows in particular that `ssthresh + 0xffffffff`, which `flush`
computes when early retransmission happens and fast retransmission is disabled,
is `ssthresh - 1` and never opens the window.

Assumptions: the longest wait of a timer and an interval fit in half a turn; the
RTO bound `MaxRto` admits one back-off; there are a largest peer window (16 bits in
the code) and a largest `resend`, which is not negative (0 is the default).

### SessionProofs

`OneGateOwner` is inductive with the types.  For `NoReaderSleeps` a poller must be
covered from the moment at which `TryRead` found nothing, not only once it
sleeps, and `die` and `chSocketReadError` must be known to be closed by steps
whose next one runs the callback (`SleepInv`).  `BytesInOrder` needs that what was
returned, the rest of the last message and the messages in KCP are consecutive
(`StreamInv`, `MsgsFollow`).  Assumption: a session has one `readNotify` callback, so
at most one caller relies on it (`PollerAssumption`).

### ListenerProofs

The invariant adds to the properties what `packetInput` knows at each place where
it stands without the lock (`InputInv`): the session it found may have been closed
since, but nobody else can have entered one for the address, and one that it makes
is in nobody's hands yet; that sessions to come are untouched (`NumbersInv`); that
the map has the sessions whose `Close` has not got to `closeSession` (`MapInv`); and
that the callback is taken away only after the last of them is gone
(`ReleaseInv`).  Assumption: `None` is no conversation and no session.

### PostProcessProofs

`SafeInv` is little more than the conjunction of the five properties: each
supports the others (`NoStrandedPacket` needs `ExclusiveClaim` to know who the
owner is, `CloseWaitsForSend` needs it to know that there is one).  `FifoPerSession`
needs where every packet is: `DataInv` says that what waits in `postQueue` is
what was made last, that batches are sorted, that what was sent precedes what
is in a batch, and that the packets of a session lie in one batch; `ControlInv`
says that this is the batch of the worker that fills it, or that the session is
dead, and why a worker that goes back to its loop has an empty batch.  The model's
steps are atomic, so where two workers share a batch (see Findings) the theorems
cover their interleavings but not the data race between them.

### TimedSchedProofs

`NoLostWakeup` with the places of tasks: each task put is in the heap, in the batch
to execute or among those that ran (`PlaceInv`), in one of them only (`ApartInv`),
so the counts add up (`CountInv`); what is in the batch was due when it was
collected (`RunInv`).

### ContainerProofs

`Geometry` says what the indices mean: the `i`-th element is at
`head + i` around the end of the slice, and these slots are distinct.  Each operation
then maps to the operation of `Fifo` on the sequence of elements; `grow`, with its
two copies and both growth policies, leaves that sequence as it is before `Push`
appends to it.

The heap's loops are recursive functions over sequences of any length, and the
prover cannot instantiate an induction theorem; it can, however, use that a set
of naturals has a least element.  A loop is therefore made a step function with a
measure that goes down (`IsLoop`).  `LoopRuns` shows that some function runs it to
its end, so that the equation that defines `up` or `down` has a solution and the
function satisfies it (`UpSolves`, `DownSolves`); `LoopRule` is the rule for loop
invariants: what a step keeps, held as a set closed under the step, is true of the
state at the end.  The invariants are `RisingAt` and `SinkingAt`: all tasks are in
order with their parents but the one that moves (in `pop`, but its children), and
the children of that one are in order with its parent, which an exchange makes
theirs.  That `pop` moves the *earlier* of two children up (`EarlierChild`) keeps the
other one in order.  `RootIsEarliest` is again by a least counterexample.  Nothing is assumed of
the deadlines but that they are integers; equal ones are allowed.

### FecProofs

The sequence numbers form a circle of `Circle` groups, with `Gap` unused numbers at
the wrap.  The arithmetic says that a number at position `p` of group `g` is
`Base(g) + p`, that its set number and its place in the set are those of the
encoder (`getShardId`, `%`), and that the signed difference of two numbers has the
sign of the difference of their groups as long as these are `Near`: across the wrap
it is `Gap` longer than it looks.  That needs the circle to be even, as 2^32 is: of
an odd number `Mod`, two numbers `Mod \div 2` apart, less than half, would already
compare the wrong way round.

* `FlowInv`: the encoder stands where its count of packets says, every packet under
  way has the number and type of its place, all samples have been taken from such
  packets, and a decoder with the right parameters does not tune.  A complete
  pulse in such samples is a whole group's data or parity (`TunesRight`): its
  neighbours at both ends are what fixes its length.
* `SentInv` adds `KeepInv`: in a decoder with the right parameters every set is for
  a group not far behind the newest one that arrived, and holds only shards of
  that group.  This is why no set meets its successor of the next round:
  `discardShards` drops a set before its number comes again.
* `GotInv`: of each group less than `MaxShardSets` behind the newest one, KCP has
  all the data (`Complete`), or the set holds everything that arrived of it and is
  too small to decode (`Collecting`).  The two cases are needed because decoding empties
  a set and late shards fill it again.

Assumptions: `WindowAssumption` (see `Fec`), positive shard numbers, at most `MaxTotal`
together, of the encoder and of the decoders that may be there at the start, and
that `Garbage` is no packet.  Nothing is assumed of `MaxSamples`: a tuner with too few
samples never finds a pulse, and never a wrong one.

### Only model-checked

* Liveness (`Delivery`, `Drained`, `EveryTaskRuns`, `WriteEnds`, `Interruptible`,
  `InputReturns`): temporal reasoning with fairness and `ENABLED` is beyond the
  prover.
* The three properties that the code violates.

## 6. Findings

1. **A connection can go silent for ever** (`link_stall`).  `flush` probes the
   remote window only when `rmt_wnd = 0`, and acknowledged segments keep the
   window occupied until `una` passes them.  If a reordered datagram leaves a
   stale `rmt_wnd > 0` that the segments in flight, all acknowledged, fill, and
   the `WINS` that would correct it is lost, no timer is left on either side.
   Neither loss nor reordering is needed once the application enlarges the
   receive window in use: `WndSize` does not move the segments that now fit
   from `rcv_buf` to `rcv_queue`, so they are acknowledged and not passed by `una`.
2. **Packets sent after Close** (`post_leftover`).  `postProcess` returns when a
   pop fails and leaves its batch as it is; when `Close` drained the queue
   between two pops, the packets in the batch go out with the next session's,
   through that session's socket.

3. **A throttled Write cannot be interrupted** (`session_throttled`).  `README.md:173`
   says that "A throttled write waits for tokens while remaining interruptible by
   its write deadline, socket write errors, and session closure".  `writeWait` calls
   `bucket.Wait`, a plain sleep: the `Write` notices none of these before its tokens
   are there, and holds the write gate meanwhile, so that the writers behind it
   can only give up.  `Interruptible` is about the other three places at which a
   call waits (data, gate, window), where the code does what is said.

Limits met on the way, which no run is about:

* `README.md:175` names a burst of `maxBatchSize * maxPacketSize` and admission in
  chunks, where `SetRateLimit` makes a bucket of one second's tokens and
  `writeWait` takes all of a call's at once.
* A late packet with `sn = 0`, or an OOB packet, of an old conversation ends the
  newer session of its address; sessions that are in the backlog when the
  Listener closes are closed by nobody unless they are accepted.
* `TryRead` looks for data under the lock and at the errors after it, and a
  `Write` at `die` before it takes the lock: data that arrives in between is
  reported after the error, and a `Write` beside `Close` may succeed in vain.
* `readLoop` on a conn that the session does not own stays in its read after
  `Close` until a packet comes.
* A message of more fragments than the peer's receive window can never be
  assembled, and `Send` does not know that window.
* `wnd_unused` is truncated to 16 bits: a receive window of 65536, which
  `WndSize` accepts, advertises zero.  The runs keep windows below `WndMod`.
* `flushTx` puts the batch of a closed session in the pool but the worker keeps
  it; a worker goroutine that first runs later gets the same batch.  The run
  `post` stops at such a state (its constraint `BatchOwned`).
* A decoder with wrong parameters takes packets whose type happens to fit as its
  own until the first one that does not fit.  With 1+1, the parameters `kcpInput`
  starts with, a parity packet at an odd number is "recovered" as data.
  `RecoveredIsSent` therefore speaks of matching parameters only.

## 7. Not modelled

* Ciphers and nonces (`crypt.go`, `entropy.go`), buffer pool, counters, tracing:
  data transformations without protocol state of their own.  A packet that fails
  decryption is a packet that is lost.
* Reed-Solomon arithmetic, the token bucket, the deadline timers: external.
* Batching of system calls (`tx*.go`, `platform_*.go`): a batch is sent as one
  step of `PostProcess`, and read packet by packet.
* In KCP: stream mode of `Send`, `SetMtu`, the deprecated `Update` and `Check`, a
  change of the interval under way, and the values of the RTT estimate.
* In the session: options that only store a value, the OOB callback, and
  messages of more fragments than the peer's window.

## 8. Plan

Done: all components of the inventory that have protocol state, and the proofs of
every invariant and action property that the passing runs check.  What is left:

1. Liveness stays with TLC, and with small instances.
2. Stream mode of `Send` and `SetMtu` in `KcpLink`: fragments would no longer be
   messages, and `MsgChannel` would become a channel of bytes.
3. `TimedSched` on `TimedFuncHeap`: the scheduler uses a set, and the heap theorems
   say that this is what the heap is; a refinement would join the two.
