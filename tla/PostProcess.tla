---------------------------- MODULE PostProcess ----------------------------
(***************************************************************************)
(* The path of a packet from KCP's output callback to the socket:          *)
(* postprocess.go, sendqueue.go and the parts of sess.go that call them.   *)
(*                                                                         *)
(* Many sessions share a fixed set of workers.  A session with packets in  *)
(* its postQueue is claimed (ppRunning), appended to ppQueue, and served   *)
(* by one worker, which moves packets into its batch and sends the batch.  *)
(* Close races with all of it.                                             *)
(*                                                                         *)
(* A step ends where the code releases a lock or touches an atomic, so     *)
(* that steps of producers, workers and Close interleave as they may.  A   *)
(* packet is [sess, id]: the id-th packet its session has put in its       *)
(* postQueue.  FEC, encryption and duplication are abstracted to the       *)
(* number of further datagrams that a packet turns into.                   *)
(***************************************************************************)
EXTENDS Integers, Sequences, FiniteSets

CONSTANTS Sessions,
          Workers,       \* the goroutines of startPostProcessWorkers
          LateWorkers,   \* those that have not run yet when Spec starts
          MaxPackets,    \* [Sessions -> Nat], bound on the packets of a session
          DevBacklog,    \* devBacklog, the capacity of postQueue
          PpBudget,      \* ppBudget
          MaxBatchSize,  \* maxBatchSize
          Extras,        \* numbers of dup and parity datagrams of a packet
          None           \* no session, no batch

ASSUME SetsAssumption == /\ LateWorkers \subseteq Workers
                         /\ None \notin Sessions \cup Workers
ASSUME SizesAssumption ==
    /\ MaxPackets \in [Sessions -> Nat] /\ Extras \subseteq Nat
    /\ {DevBacklog, PpBudget, MaxBatchSize} \subseteq Nat \ {0}

VARIABLES postQueue,  \* packets waiting in each session
          made,       \* history: number of packets each session has queued
          ppRunning,  \* the session is queued or running
          die,        \* the session's die channel is closed
          ppClosing,  \* the gate of sendTx is shut
          mu,         \* where the holder of s.mu is, or "free"
          closer,     \* where the session's Close is
          ppQueue,    \* sessions waiting for a worker
          wk,         \* where each worker is, and its session
          txqueue,    \* the datagrams in each batch
          pool,       \* how often each batch is in the pool ppWorkers
          sent        \* history: the datagrams in the order in which they were sent

vars == <<postQueue, made, ppRunning, die, ppClosing, mu, closer, ppQueue,
          wk, txqueue, pool, sent>>

Packet == [sess : Sessions, id : Nat]

(***************************************************************************)
(* A worker at pc serves session sess, if any, may take n more packets,    *)
(* owns batch b (named after the worker it was created for), and goes on   *)
(* at ret when its batch has been sent.                                    *)
(***************************************************************************)
Worker(b, pc) == [pc |-> pc, sess |-> None, n |-> 0, b |-> b, ret |-> "pop"]

Init == /\ postQueue = [s \in Sessions |-> <<>>]
        /\ made = [s \in Sessions |-> 0]
        /\ ppRunning = [s \in Sessions |-> FALSE]
        /\ die = [s \in Sessions |-> FALSE]
        /\ ppClosing = [s \in Sessions |-> FALSE]
        /\ mu = [s \in Sessions |-> "free"]
        /\ closer = [s \in Sessions |-> "open"]
        /\ ppQueue = <<>>
        /\ wk = [w \in Workers |-> IF w \in LateWorkers
                                   THEN Worker(None, "start")
                                   ELSE Worker(w, "take")]
        /\ txqueue = [b \in Workers |-> <<>>]
        /\ pool = [b \in Workers |-> 0]
        /\ sent = <<>>

-----------------------------------------------------------------------------
(***************************************************************************)
(* Producers: whoever holds s.mu and runs kcp.flush or SendOOB, and Close. *)
(***************************************************************************)

(***************************************************************************)
(* The output callback of NewKCP, and the end of SendOOB: a packet joins   *)
(* postQueue unless the session is closed or the queue is full.  s.mu is   *)
(* held until the packet has been kicked off; whether the holder then      *)
(* produces another packet or releases s.mu makes no difference here.      *)
(***************************************************************************)
\* variant: the die channel is not looked at
Accepts_Always(s) == Len(postQueue[s]) < DevBacklog

Accepts(s) == ~die[s] /\ Len(postQueue[s]) < DevBacklog

Output(s) ==
    /\ mu[s] = "free"
    /\ made[s] < MaxPackets[s]
    /\ Accepts(s)
    /\ made' = [made EXCEPT ![s] = @ + 1]
    /\ postQueue' = [postQueue EXCEPT
                       ![s] = Append(@, [sess |-> s, id |-> made[s] + 1])]
    /\ mu' = [mu EXCEPT ![s] = "kick"]
    /\ UNCHANGED <<ppRunning, die, ppClosing, closer, ppQueue, wk, txqueue,
                   pool, sent>>

(***************************************************************************)
(* claimPostProcess: only one caller can take a session from idle to       *)
(* queued-or-running.                                                      *)
(***************************************************************************)
\* variant: every caller believes it has claimed the session
Claims_Always(s) == TRUE

Claims(s) == ~ppRunning[s]

kickPostProcess(s) ==
    /\ mu[s] = "kick"
    /\ mu' = [mu EXCEPT ![s] = IF Claims(s) THEN "enqueue" ELSE "free"]
    /\ ppRunning' = [ppRunning EXCEPT ![s] = TRUE]
    /\ UNCHANGED <<postQueue, made, die, ppClosing, closer, ppQueue, wk,
                   txqueue, pool, sent>>

(***************************************************************************)
(* cond.Signal wakes one of the workers that wait, if any does.            *)
(***************************************************************************)
\* variant: nobody is woken
Woken_None(f) == {f}

Woken(f) ==
    LET waiting == {w \in Workers : f[w].pc = "wait"}
    IN  IF waiting = {} THEN {f}
        ELSE {[f EXCEPT ![w].pc = "take"] : w \in waiting}

(***************************************************************************)
(* ppEnqueue appends the session under the queue's lock, then signals.     *)
(***************************************************************************)
EnqueueKicked(s) ==
    /\ mu[s] = "enqueue"
    /\ ppQueue' = Append(ppQueue, s)
    /\ mu' = [mu EXCEPT ![s] = "signal"]
    /\ UNCHANGED <<postQueue, made, ppRunning, die, ppClosing, closer, wk,
                   txqueue, pool, sent>>

SignalKicked(s) ==
    /\ mu[s] = "signal"
    /\ wk' \in Woken(wk)
    /\ mu' = [mu EXCEPT ![s] = "free"]
    /\ UNCHANGED <<postQueue, made, ppRunning, die, ppClosing, closer, ppQueue,
                   txqueue, pool, sent>>

-----------------------------------------------------------------------------
(***************************************************************************)
(* Workers.                                                                *)
(***************************************************************************)
At(w, pc) == wk[w].pc = pc

Goto(w, pc) == wk' = [wk EXCEPT ![w].pc = pc]

(***************************************************************************)
(* The next round of the loop of postProcessWorker.                        *)
(***************************************************************************)
Loop(w) == wk' = [wk EXCEPT ![w] = Worker(@.b, "take")]

(***************************************************************************)
(* A worker starts with a batch of the pool, or with a new one.            *)
(***************************************************************************)
StartWorker(w) ==
    /\ At(w, "start")
    /\ \/ /\ wk' = [wk EXCEPT ![w] = Worker(w, "take")]
          /\ UNCHANGED pool
       \/ \E b \in Workers : /\ pool[b] > 0
                             /\ pool' = [pool EXCEPT ![b] = @ - 1]
                             /\ wk' = [wk EXCEPT ![w] = Worker(b, "take")]
    /\ UNCHANGED <<postQueue, made, ppRunning, die, ppClosing, mu, closer,
                   ppQueue, txqueue, sent>>

(***************************************************************************)
(* A worker takes the first session of ppQueue, or waits for one.          *)
(***************************************************************************)
Take(w) ==
    /\ At(w, "take")
    /\ \/ /\ ppQueue = <<>>
          /\ Goto(w, "wait")
          /\ UNCHANGED ppQueue
       \/ /\ ppQueue # <<>>
          /\ wk' = [wk EXCEPT ![w].pc = "check", ![w].sess = Head(ppQueue)]
          /\ ppQueue' = Tail(ppQueue)
    /\ UNCHANGED <<postQueue, made, ppRunning, die, ppClosing, mu, closer,
                   txqueue, pool, sent>>

(***************************************************************************)
(* A closed session is only finished; an open one is post-processed.       *)
(***************************************************************************)
CheckClosed(w) ==
    /\ At(w, "check")
    /\ wk' = [wk EXCEPT ![w].pc = IF die[wk[w].sess] THEN "finish" ELSE "pop",
                        ![w].n = PpBudget]
    /\ UNCHANGED <<postQueue, made, ppRunning, die, ppClosing, mu, closer,
                   ppQueue, txqueue, pool, sent>>

(***************************************************************************)
(* The worker may take one more packet from its session.                   *)
(***************************************************************************)
BudgetLeft(w) == wk[w].n > 0

(***************************************************************************)
(* One round of postProcess: a packet and its extra datagrams join the     *)
(* batch.  postProcess returns false when the queue is empty.              *)
(***************************************************************************)
PopPacket(w) ==
    LET s == wk[w].sess
        b == wk[w].b
    IN  /\ At(w, "pop") /\ BudgetLeft(w)
        /\ \/ /\ postQueue[s] = <<>>
              /\ Goto(w, "finish")
              /\ UNCHANGED <<postQueue, txqueue>>
           \/ /\ postQueue[s] # <<>>
              /\ \E x \in Extras :
                   txqueue' = [txqueue EXCEPT
                       ![b] = @ \o [i \in 1..(x + 1) |-> Head(postQueue[s])]]
              /\ postQueue' = [postQueue EXCEPT ![s] = Tail(@)]
              /\ wk' = [wk EXCEPT ![w].pc = "len", ![w].n = @ - 1]
        /\ UNCHANGED <<made, ppRunning, die, ppClosing, mu, closer, ppQueue,
                       pool, sent>>

(***************************************************************************)
(* The batch is complete when the queue is empty or the batch is full.     *)
(***************************************************************************)
BatchDone(w) ==
    /\ At(w, "len")
    /\ wk' = [wk EXCEPT
                ![w].pc = IF \/ postQueue[wk[w].sess] = <<>>
                             \/ Len(txqueue[wk[w].b]) >= MaxBatchSize
                          THEN "flush" ELSE "pop",
                ![w].ret = "pop"]
    /\ UNCHANGED <<postQueue, made, ppRunning, die, ppClosing, mu, closer,
                   ppQueue, txqueue, pool, sent>>

(***************************************************************************)
(* The budget is used up: what is left in the batch is sent.               *)
(***************************************************************************)
BudgetDone(w) ==
    /\ At(w, "pop") /\ ~BudgetLeft(w)
    /\ wk' = [wk EXCEPT
                ![w].pc = IF txqueue[wk[w].b] # <<>> THEN "flush" ELSE "rest",
                ![w].ret = "rest"]
    /\ UNCHANGED <<postQueue, made, ppRunning, die, ppClosing, mu, closer,
                   ppQueue, txqueue, pool, sent>>

(***************************************************************************)
(* flushTx: the batch of a closed session is discarded and put in the      *)
(* pool, and postProcess returns true.                                     *)
(***************************************************************************)
flushTx(w) ==
    LET b == wk[w].b
    IN  /\ At(w, "flush")
        /\ \/ /\ die[wk[w].sess]
              /\ txqueue' = [txqueue EXCEPT ![b] = <<>>]
              /\ pool' = [pool EXCEPT ![b] = @ + 1]
              /\ Goto(w, "enqueue")
           \/ /\ ~die[wk[w].sess]
              /\ Goto(w, "gate")
              /\ UNCHANGED <<txqueue, pool>>
        /\ UNCHANGED <<postQueue, made, ppRunning, die, ppClosing, mu, closer,
                       ppQueue, sent>>

(***************************************************************************)
(* sendTx takes ppSendMu and, unless Close has shut the gate, sends.       *)
(***************************************************************************)
Sending(s) == \E w \in Workers : At(w, "tx") /\ wk[w].sess = s

EnterSendTx(w) ==
    LET s == wk[w].sess
        b == wk[w].b
    IN  /\ At(w, "gate") /\ ~Sending(s)
        /\ \/ /\ ppClosing[s]
              /\ txqueue' = [txqueue EXCEPT ![b] = <<>>]
              /\ Goto(w, wk[w].ret)
           \/ /\ ~ppClosing[s]
              /\ Goto(w, "tx")
              /\ UNCHANGED txqueue
        /\ UNCHANGED <<postQueue, made, ppRunning, die, ppClosing, mu, closer,
                       ppQueue, pool, sent>>

(***************************************************************************)
(* s.tx sends the whole batch; then the batch is recycled and ppSendMu     *)
(* released.                                                               *)
(***************************************************************************)
Transmit(w) ==
    LET b == wk[w].b
    IN  /\ At(w, "tx")
        /\ sent' = sent \o txqueue[b]
        /\ txqueue' = [txqueue EXCEPT ![b] = <<>>]
        /\ Goto(w, wk[w].ret)
        /\ UNCHANGED <<postQueue, made, ppRunning, die, ppClosing, mu, closer,
                       ppQueue, pool>>

(***************************************************************************)
(* The end of postProcess: are there more packets?                         *)
(***************************************************************************)
RestLeft(w) ==
    /\ At(w, "rest")
    /\ Goto(w, IF postQueue[wk[w].sess] # <<>> THEN "enqueue" ELSE "finish")
    /\ UNCHANGED <<postQueue, made, ppRunning, die, ppClosing, mu, closer,
                   ppQueue, txqueue, pool, sent>>

(***************************************************************************)
(* finishPostProcess gives the claim up, then looks again: a packet that   *)
(* arrived meanwhile found the session claimed.                            *)
(***************************************************************************)
ReleaseClaim(w) ==
    /\ At(w, "finish")
    /\ ppRunning' = [ppRunning EXCEPT ![wk[w].sess] = FALSE]
    /\ Goto(w, "recheck")
    /\ UNCHANGED <<postQueue, made, die, ppClosing, mu, closer, ppQueue,
                   txqueue, pool, sent>>

Recheck(w) ==
    /\ At(w, "recheck")
    /\ Goto(w, IF die[wk[w].sess] THEN "drain" ELSE "relen")
    /\ UNCHANGED <<postQueue, made, ppRunning, die, ppClosing, mu, closer,
                   ppQueue, txqueue, pool, sent>>

\* variant: the queue is not looked at again
LooksAgain_Never(s) == FALSE

LooksAgain(s) == postQueue[s] # <<>>

Relen(w) ==
    /\ At(w, "relen")
    /\ IF LooksAgain(wk[w].sess) THEN Goto(w, "reclaim") ELSE Loop(w)
    /\ UNCHANGED <<postQueue, made, ppRunning, die, ppClosing, mu, closer,
                   ppQueue, txqueue, pool, sent>>

Reclaim(w) ==
    LET s == wk[w].sess
    IN  /\ At(w, "reclaim")
        /\ IF Claims(s) THEN Goto(w, "enqueue") ELSE Loop(w)
        /\ ppRunning' = [ppRunning EXCEPT ![s] = TRUE]
        /\ UNCHANGED <<postQueue, made, die, ppClosing, mu, closer, ppQueue,
                       txqueue, pool, sent>>

(***************************************************************************)
(* One round of discardPostProcess, run by a worker.                       *)
(***************************************************************************)
DiscardFinished(w) ==
    LET s == wk[w].sess
    IN  /\ At(w, "drain")
        /\ \/ /\ postQueue[s] = <<>>
              /\ Loop(w)
              /\ UNCHANGED postQueue
           \/ /\ postQueue[s] # <<>>
              /\ postQueue' = [postQueue EXCEPT ![s] = Tail(@)]
              /\ UNCHANGED wk
        /\ UNCHANGED <<made, ppRunning, die, ppClosing, mu, closer, ppQueue,
                       txqueue, pool, sent>>

Requeue(w) ==
    /\ At(w, "enqueue")
    /\ ppQueue' = Append(ppQueue, wk[w].sess)
    /\ Goto(w, "signal")
    /\ UNCHANGED <<postQueue, made, ppRunning, die, ppClosing, mu, closer,
                   txqueue, pool, sent>>

SignalRequeued(w) ==
    /\ At(w, "signal")
    /\ wk' \in Woken([wk EXCEPT ![w] = Worker(@.b, "take")])
    /\ UNCHANGED <<postQueue, made, ppRunning, die, ppClosing, mu, closer,
                   ppQueue, txqueue, pool, sent>>

-----------------------------------------------------------------------------
(***************************************************************************)
(* Close.                                                                  *)
(***************************************************************************)

(***************************************************************************)
(* Close takes s.mu, flushes KCP for the last time (its packets are the    *)
(* last steps of Output) and closes die before it releases s.mu.           *)
(***************************************************************************)
CloseDie(s) ==
    /\ closer[s] = "open" /\ mu[s] = "free"
    /\ die' = [die EXCEPT ![s] = TRUE]
    /\ closer' = [closer EXCEPT ![s] = "gate"]
    /\ UNCHANGED <<postQueue, made, ppRunning, ppClosing, mu, ppQueue, wk,
                   txqueue, pool, sent>>

(***************************************************************************)
(* Shutting the gate takes ppSendMu, hence waits for a send in progress.   *)
(***************************************************************************)
\* variant: ppSendMu is not taken
GateFree_Always(s) == TRUE

GateFree(s) == ~Sending(s)

CloseGate(s) ==
    /\ closer[s] = "gate" /\ GateFree(s)
    /\ ppClosing' = [ppClosing EXCEPT ![s] = TRUE]
    /\ closer' = [closer EXCEPT ![s] = "drain"]
    /\ UNCHANGED <<postQueue, made, ppRunning, die, mu, ppQueue, wk, txqueue,
                   pool, sent>>

(***************************************************************************)
(* One round of discardPostProcess, run by Close.                          *)
(***************************************************************************)
CloseDrain(s) ==
    /\ closer[s] = "drain"
    /\ \/ /\ postQueue[s] = <<>>
          /\ closer' = [closer EXCEPT ![s] = "done"]
          /\ UNCHANGED postQueue
       \/ /\ postQueue[s] # <<>>
          /\ postQueue' = [postQueue EXCEPT ![s] = Tail(@)]
          /\ UNCHANGED closer
    /\ UNCHANGED <<made, ppRunning, die, ppClosing, mu, ppQueue, wk, txqueue,
                   pool, sent>>

-----------------------------------------------------------------------------
(***************************************************************************)
(* Steps of s.mu's holder that need nothing from outside.                  *)
(***************************************************************************)
Producer(s) == kickPostProcess(s) \/ EnqueueKicked(s) \/ SignalKicked(s)

Closing(s) == CloseGate(s) \/ CloseDrain(s)

postProcess(w) == \/ PopPacket(w) \/ BatchDone(w) \/ BudgetDone(w)
                  \/ flushTx(w) \/ EnterSendTx(w) \/ Transmit(w)
                  \/ RestLeft(w)

finishPostProcess(w) == \/ ReleaseClaim(w) \/ Recheck(w) \/ Relen(w)
                        \/ Reclaim(w) \/ DiscardFinished(w)

postProcessWorker(w) == \/ StartWorker(w) \/ Take(w) \/ CheckClosed(w)
                        \/ postProcess(w) \/ finishPostProcess(w)
                        \/ Requeue(w) \/ SignalRequeued(w)

Next == \/ \E s \in Sessions : \/ Output(s) \/ Producer(s)
                               \/ CloseDie(s) \/ Closing(s)
        \/ \E w \in Workers : postProcessWorker(w)

Spec == Init /\ [][Next]_vars

-----------------------------------------------------------------------------
(***************************************************************************)
(* Properties.                                                             *)
(***************************************************************************)
Serving == {"check", "pop", "len", "flush", "gate", "tx", "rest", "finish",
            "enqueue"}
Finishing == {"recheck", "relen", "reclaim", "drain", "signal"}

WorkerState ==
    [pc : Serving \cup Finishing \cup {"start", "take", "wait"},
     sess : Sessions \cup {None}, n : Nat, b : Workers \cup {None}, ret : {"pop", "rest"}]

TypeOK ==
    /\ postQueue \in [Sessions -> Seq(Packet)]
    /\ made \in [Sessions -> Nat]
    /\ ppRunning \in [Sessions -> BOOLEAN]
    /\ die \in [Sessions -> BOOLEAN]
    /\ ppClosing \in [Sessions -> BOOLEAN]
    /\ mu \in [Sessions -> {"free", "kick", "enqueue", "signal"}]
    /\ closer \in [Sessions -> {"open", "gate", "drain", "done"}]
    /\ ppQueue \in Seq(Sessions)
    /\ wk \in [Workers -> WorkerState]
    /\ txqueue \in [Workers -> Seq(Packet)]
    /\ pool \in [Workers -> Nat]
    /\ sent \in Seq(Packet)

(***************************************************************************)
(* Worker w serves session s: it has taken s and not yet given it up.      *)
(***************************************************************************)
Serves(w, s) == wk[w].sess = s /\ wk[w].pc \in Serving

(***************************************************************************)
(* "ppRunning ensures that a session appears at most once in this queue or *)
(* is being handled by a worker" (ppQueue), however claims, hand-backs and *)
(* requeues of producers and workers interleave.                           *)
(***************************************************************************)
ExclusiveClaim ==
    \A s \in Sessions :
        /\ \A i, j \in DOMAIN ppQueue :
             ppQueue[i] = s /\ ppQueue[j] = s => i = j
        /\ \A w \in Workers : Serves(w, s) =>
             /\ \A v \in Workers : Serves(v, s) => v = w
             /\ \A i \in DOMAIN ppQueue : ppQueue[i] # s
             /\ mu[s] # "enqueue"
        /\ mu[s] = "enqueue" => \A i \in DOMAIN ppQueue : ppQueue[i] # s
        /\ ppRunning[s] <=> \/ mu[s] = "enqueue"
                            \/ \E w \in Workers : Serves(w, s)
                            \/ \E i \in DOMAIN ppQueue : ppQueue[i] = s

(***************************************************************************)
(* The datagrams of a session leave in the order in which KCP produced     *)
(* them, though any worker may send them (postProcess: the FEC encoder and *)
(* the receiver rely on it).                                               *)
(***************************************************************************)
FifoPerSession ==
    \A i, j \in DOMAIN sent :
        i < j /\ sent[i].sess = sent[j].sess => sent[i].id <= sent[j].id

(***************************************************************************)
(* A packet in the queue of an open session is never forgotten: somebody   *)
(* has the session's claim, or is about to look at the queue (kick and     *)
(* finishPostProcess race for the last packet).                            *)
(***************************************************************************)
NoStrandedPacket ==
    \A s \in Sessions :
        postQueue[s] # <<>> /\ ~die[s] /\ ~ppRunning[s] =>
            \/ mu[s] = "kick"
            \/ \E w \in Workers : /\ wk[w].sess = s
                                  /\ wk[w].pc \in {"recheck", "relen", "reclaim"}

(***************************************************************************)
(* After Close "the output callback cannot enqueue more packets after this *)
(* drain completes" (discardPostProcess): no buffer is left behind.        *)
(***************************************************************************)
ClosedStaysEmpty ==
    \A s \in Sessions : closer[s] = "done" => postQueue[s] = <<>>

(***************************************************************************)
(* "ppSendMu keeps Close from returning while a send is in progress"       *)
(* (sendTx): past the gate no worker uses the session's socket.            *)
(***************************************************************************)
CloseWaitsForSend == \A s \in Sessions : ppClosing[s] => ~Sending(s)

(***************************************************************************)
(* "ppSendMu ... rejects sends after Close has shut the gate" (sendTx):    *)
(* once ppClosing is set no datagram of the session is sent.               *)
(***************************************************************************)
NoSendAfterGate ==
    [][\A i \in DOMAIN sent' \ DOMAIN sent : ~ppClosing[sent'[i].sess]]_vars

(***************************************************************************)
(* "ppWorker owns a batch while a worker transforms queued packets": no    *)
(* two workers fill the same batch.                                        *)
(***************************************************************************)
BatchOwned ==
    \A v, w \in Workers : wk[v].b = wk[w].b /\ wk[v].b # None => v = w

-----------------------------------------------------------------------------
(***************************************************************************)
(* Goroutines that can run are run: workers, the holder of s.mu, and a     *)
(* Close that has begun.                                                   *)
(***************************************************************************)
Fairness == /\ \A w \in Workers : WF_vars(postProcessWorker(w))
            /\ \A s \in Sessions : WF_vars(Producer(s)) /\ WF_vars(Closing(s))

FairSpec == Spec /\ Fairness

(***************************************************************************)
(* A session with packets is drained, and what was taken for it is sent,   *)
(* as long as it stays open: no wakeup of the workers is lost.             *)
(***************************************************************************)
Drained ==
    \A s \in Sessions :
        []<>(\/ die[s]
             \/ /\ postQueue[s] = <<>>
                /\ \A b \in Workers : \A i \in DOMAIN txqueue[b] : txqueue[b][i].sess # s)
=============================================================================
