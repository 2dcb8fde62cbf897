-------------------------- MODULE PostProcessProofs --------------------------
(***************************************************************************)
(* Theorems about PostProcess, for any sessions and workers, any queue,    *)
(* budget and batch sizes.                                                 *)
(***************************************************************************)
EXTENDS PostProcess, TLAPS, SequenceTheorems

Places == Serving \cup Finishing \cup {"start", "take", "wait"}

LEMMA Constants ==
    /\ DevBacklog \in Nat \ {0} /\ PpBudget \in Nat /\ MaxBatchSize \in Nat
    /\ None \notin Sessions /\ None \notin Workers
    /\ \A x \in Extras : x \in Nat
    /\ \A s \in Sessions : MaxPackets[s] \in Nat
  BY SetsAssumption, SizesAssumption

(***************************************************************************)
(* A worker that has started owns a batch, and from the moment it takes a  *)
(* session until it is back in its loop it has one.                        *)
(***************************************************************************)
WorkersInv ==
    \A w \in Workers :
        /\ wk[w].pc # "start" => wk[w].b \in Workers
        /\ wk[w].pc \in Serving \cup Finishing => wk[w].sess \in Sessions

-----------------------------------------------------------------------------
(***************************************************************************)
(* What the steps do to the workers.                                       *)
(***************************************************************************)
LEMMA WorkerFields ==
    ASSUME NEW r \in WorkerState
    PROVE  /\ r.pc \in Places /\ r.sess \in Sessions \cup {None} /\ r.n \in Nat
           /\ r.b \in Workers \cup {None} /\ r.ret \in {"pop", "rest"}
  BY DEF WorkerState, Places

LEMMA NewRound ==
    ASSUME NEW b \in Workers \cup {None}, NEW pc \in Places
    PROVE  /\ Worker(b, pc) \in WorkerState
           /\ Worker(b, pc).pc = pc /\ Worker(b, pc).b = b /\ Worker(b, pc).sess = None
  BY DEF Worker, WorkerState, Places

(***************************************************************************)
(* Worker w goes to pc with session s; its batch stays the same; nobody    *)
(* else moves.                                                             *)
(***************************************************************************)
Moves(w, pc, s) ==
    /\ wk' \in [Workers -> WorkerState]
    /\ wk'[w].pc = pc /\ wk'[w].sess = s /\ wk'[w].b = wk[w].b
    /\ \A v \in Workers : v # w => wk'[v] = wk[v]

LEMMA GotoMoves ==
    ASSUME wk \in [Workers -> WorkerState], NEW w \in Workers, NEW pc \in Places, Goto(w, pc)
    PROVE  Moves(w, pc, wk[w].sess)
  BY DEF Goto, Moves, WorkerState, Places

LEMMA LoopMoves ==
    ASSUME wk \in [Workers -> WorkerState], NEW w \in Workers, Loop(w)
    PROVE  Moves(w, "take", None)
  <1>1. wk[w] \in WorkerState /\ wk' = [wk EXCEPT ![w] = Worker(wk[w].b, "take")]
    BY DEF Loop
  <1>2. wk[w].b \in Workers \cup {None} /\ "take" \in Places
    BY <1>1, WorkerFields DEF Places
  <1>3. LET r == Worker(wk[w].b, "take")
        IN  r \in WorkerState /\ r.pc = "take" /\ r.b = wk[w].b /\ r.sess = None
    BY <1>2, NewRound
  <1>4. wk'[w] = Worker(wk[w].b, "take") /\ \A v \in Workers : v # w => wk'[v] = wk[v]
    BY <1>1
  <1>5. wk' \in [Workers -> WorkerState]
    BY <1>1, <1>3
  <1> QED
    BY <1>3, <1>4, <1>5 DEF Moves

LEMMA TakeMoves ==
    ASSUME wk \in [Workers -> WorkerState], NEW w \in Workers, NEW s \in Sessions,
           wk' = [wk EXCEPT ![w].pc = "check", ![w].sess = s]
    PROVE  Moves(w, "check", s)
  BY DEF Moves, WorkerState, Serving

LEMMA CountMoves ==
    ASSUME wk \in [Workers -> WorkerState], NEW w \in Workers, NEW pc \in Places, NEW n \in Nat,
           wk' = [wk EXCEPT ![w].pc = pc, ![w].n = n]
    PROVE  Moves(w, pc, wk[w].sess)
  <1>1. wk' = [wk EXCEPT ![w] = [wk[w] EXCEPT !.pc = pc, !.n = n]] /\ wk[w] \in WorkerState
    OBVIOUS
  <1>2. LET r == [wk[w] EXCEPT !.pc = pc, !.n = n]
        IN  r \in WorkerState /\ r.pc = pc /\ r.sess = wk[w].sess /\ r.b = wk[w].b
    BY <1>1 DEF WorkerState, Places
  <1> QED
    BY <1>1, <1>2 DEF Moves

LEMMA RetMoves ==
    ASSUME wk \in [Workers -> WorkerState], NEW w \in Workers, NEW pc \in Places,
           NEW r \in {"pop", "rest"}, wk' = [wk EXCEPT ![w].pc = pc, ![w].ret = r]
    PROVE  Moves(w, pc, wk[w].sess)
  <1>1. wk' = [wk EXCEPT ![w] = [wk[w] EXCEPT !.pc = pc, !.ret = r]] /\ wk[w] \in WorkerState
    OBVIOUS
  <1>2. LET q == [wk[w] EXCEPT !.pc = pc, !.ret = r]
        IN  q \in WorkerState /\ q.pc = pc /\ q.sess = wk[w].sess /\ q.b = wk[w].b
    BY <1>1 DEF WorkerState, Places
  <1> QED
    BY <1>1, <1>2 DEF Moves

(***************************************************************************)
(* cond.Signal moves nobody but a worker that waits.                       *)
(***************************************************************************)
LEMMA WokenMoves ==
    ASSUME NEW f \in [Workers -> WorkerState], NEW g \in Woken(f)
    PROVE  /\ g \in [Workers -> WorkerState]
           /\ \A v \in Workers : /\ g[v].b = f[v].b /\ g[v].sess = f[v].sess
                                 /\ g[v].n = f[v].n /\ g[v].ret = f[v].ret
                                 /\ \/ g[v].pc = f[v].pc
                                    \/ f[v].pc = "wait" /\ g[v].pc = "take"
  <1>1. CASE g = f
    BY <1>1
  <1>2. ASSUME NEW w \in Workers, f[w].pc = "wait", g = [f EXCEPT ![w].pc = "take"]
        PROVE  /\ g \in [Workers -> WorkerState]
               /\ \A v \in Workers : /\ g[v].b = f[v].b /\ g[v].sess = f[v].sess
                                     /\ g[v].n = f[v].n /\ g[v].ret = f[v].ret
                                     /\ \/ g[v].pc = f[v].pc
                                        \/ f[v].pc = "wait" /\ g[v].pc = "take"
    BY <1>2 DEF WorkerState
  <1>3. g = f \/ \E w \in Workers : f[w].pc = "wait" /\ g = [f EXCEPT ![w].pc = "take"]
    BY DEF Woken
  <1> QED
    BY <1>1, <1>2, <1>3

-----------------------------------------------------------------------------
(***************************************************************************)
(* The inductive invariant: the properties themselves, and that a session  *)
(* whose Close has begun is dead.                                          *)
(***************************************************************************)
CloseInv == \A s \in Sessions : closer[s] # "open" => die[s]

SafeInv == /\ WorkersInv /\ ExclusiveClaim /\ NoStrandedPacket
           /\ CloseInv /\ ClosedStaysEmpty /\ CloseWaitsForSend

Looking == {"recheck", "relen", "reclaim"}

(***************************************************************************)
(* A step of a worker that leaves the claims alone.                        *)
(***************************************************************************)
LEMMA QuietStep ==
    ASSUME TypeOK, SafeInv, NEW w \in Workers, NEW pc \in Places, NEW s,
           Moves(w, pc, s), s = wk[w].sess \/ pc = "take",
           pc \notin {"tx", "start"}, wk[w].pc # "start",
           pc \in Serving \cup Finishing => wk[w].pc \in Serving \cup Finishing,
           wk[w].pc \in Serving <=> pc \in Serving,
           UNCHANGED <<ppRunning, die, ppClosing, mu, closer, ppQueue>>,
           \A t \in Sessions : postQueue'[t] # <<>> => postQueue[t] # <<>>,
           wk[w].pc \in Looking =>
               \/ pc \in Looking \/ die[wk[w].sess]
               \/ ppRunning[wk[w].sess] \/ postQueue'[wk[w].sess] = <<>>
    PROVE  SafeInv'
  <1>1. WorkersInv'
    BY DEF SafeInv, WorkersInv, Moves, Serving, Finishing
  <1>2. \A v \in Workers, t \in Sessions : Serves(v, t)' <=> Serves(v, t)
    BY DEF Serves, Moves, Serving
  <1>3. ExclusiveClaim'
    BY <1>2 DEF SafeInv, ExclusiveClaim
  <1>4. NoStrandedPacket'
    <2> SUFFICES ASSUME NEW t \in Sessions, postQueue'[t] # <<>>, ~die'[t], ~ppRunning'[t]
                 PROVE  \/ mu'[t] = "kick"
                        \/ \E v \in Workers : wk'[v].sess = t /\ wk'[v].pc \in Looking
      BY DEF NoStrandedPacket, Looking
    <2>1. CASE mu[t] = "kick"
      BY <2>1
    <2>2. ASSUME NEW v \in Workers, wk[v].sess = t, wk[v].pc \in Looking
          PROVE  wk'[v].sess = t /\ wk'[v].pc \in Looking
      BY <2>2 DEF Moves, Looking
    <2> QED
      BY <2>1, <2>2 DEF SafeInv, NoStrandedPacket, Looking
  <1>5. CloseInv' /\ ClosedStaysEmpty'
    BY DEF SafeInv, CloseInv, ClosedStaysEmpty
  <1>6. CloseWaitsForSend'
    BY DEF SafeInv, CloseWaitsForSend, Sending, At, Moves
  <1> QED
    BY <1>1, <1>3, <1>4, <1>5, <1>6 DEF SafeInv

(***************************************************************************)
(* A step that moves no worker but perhaps one that waits.                 *)
(***************************************************************************)
LEMMA StillStep ==
    ASSUME TypeOK, SafeInv,
           \A v \in Workers : /\ wk'[v].b = wk[v].b /\ wk'[v].sess = wk[v].sess
                              /\ \/ wk'[v].pc = wk[v].pc
                                 \/ wk[v].pc = "wait" /\ wk'[v].pc = "take"
    PROVE  /\ WorkersInv'
           /\ \A v \in Workers, t \in Sessions : Serves(v, t)' <=> Serves(v, t)
           /\ \A v \in Workers : wk'[v].pc \in Looking <=> wk[v].pc \in Looking
           /\ \A t \in Sessions : Sending(t)' <=> Sending(t)
  <1>1. WorkersInv'
    BY DEF SafeInv, WorkersInv, Serving, Finishing
  <1>2. \A v \in Workers, t \in Sessions : Serves(v, t)' <=> Serves(v, t)
    BY DEF Serves, Serving
  <1>3. \A v \in Workers : wk'[v].pc \in Looking <=> wk[v].pc \in Looking
    BY DEF Looking
  <1>4. \A t \in Sessions : Sending(t)' <=> Sending(t)
    BY DEF Sending, At
  <1> QED
    BY <1>1, <1>2, <1>3, <1>4

LEMMA StepPackets ==
    ASSUME TypeOK, NEW s \in Sessions, postQueue[s] # <<>>
    PROVE  /\ Head(postQueue[s]) \in Packet /\ Tail(postQueue[s]) \in Seq(Packet)
           /\ [postQueue EXCEPT ![s] = Tail(@)] \in [Sessions -> Seq(Packet)]
  BY DEF TypeOK

-----------------------------------------------------------------------------
(***************************************************************************)
(* The steps of producers and of Close.                                    *)
(***************************************************************************)
LEMMA OutputSafe ==
    ASSUME TypeOK, SafeInv, NEW s \in Sessions, Output(s)
    PROVE  TypeOK' /\ SafeInv'
  <1>1. /\ UNCHANGED <<ppRunning, die, ppClosing, closer, ppQueue, wk, txqueue, pool, sent>>
        /\ mu[s] = "free" /\ ~die[s]
        /\ mu' = [mu EXCEPT ![s] = "kick"]
        /\ made' = [made EXCEPT ![s] = made[s] + 1]
        /\ postQueue' = [postQueue EXCEPT ![s] = Append(postQueue[s], [sess |-> s, id |-> made[s] + 1])]
    BY DEF Output, Accepts
  <1>2. TypeOK'
    <2>1. [sess |-> s, id |-> made[s] + 1] \in Packet
      BY DEF TypeOK, Packet
    <2>2. postQueue' \in [Sessions -> Seq(Packet)]
      BY <1>1, <2>1 DEF TypeOK
    <2>3. made' \in [Sessions -> Nat] /\ mu' \in [Sessions -> {"free", "kick", "enqueue", "signal"}]
      BY <1>1 DEF TypeOK
    <2> QED
      BY <1>1, <2>2, <2>3 DEF TypeOK
  <1>3. /\ mu'[s] = "kick"
        /\ \A t \in Sessions : t # s => mu'[t] = mu[t] /\ postQueue'[t] = postQueue[t]
    BY <1>1 DEF TypeOK
  <1>4. /\ WorkersInv' /\ \A v \in Workers, t \in Sessions : Serves(v, t)' <=> Serves(v, t)
        /\ \A t \in Sessions : Sending(t)' <=> Sending(t)
    BY <1>1, StillStep
  <1>5. ExclusiveClaim'
    BY <1>1, <1>3, <1>4 DEF SafeInv, ExclusiveClaim
  <1>6. NoStrandedPacket'
    BY <1>1, <1>3 DEF SafeInv, NoStrandedPacket
  <1>7. CloseInv' /\ ClosedStaysEmpty' /\ CloseWaitsForSend'
    BY <1>1, <1>3, <1>4 DEF SafeInv, CloseInv, ClosedStaysEmpty, CloseWaitsForSend
  <1> QED
    BY <1>2, <1>4, <1>5, <1>6, <1>7 DEF SafeInv

LEMMA KickSafe ==
    ASSUME TypeOK, SafeInv, NEW s \in Sessions, kickPostProcess(s)
    PROVE  TypeOK' /\ SafeInv'
  <1>1. /\ UNCHANGED <<postQueue, made, die, ppClosing, closer, ppQueue, wk, txqueue, pool, sent>>
        /\ mu[s] = "kick"
        /\ mu' = [mu EXCEPT ![s] = IF ppRunning[s] THEN "free" ELSE "enqueue"]
        /\ ppRunning' = [ppRunning EXCEPT ![s] = TRUE]
    BY DEF kickPostProcess, Claims
  <1>2. /\ mu' \in [Sessions -> {"free", "kick", "enqueue", "signal"}]
        /\ ppRunning' \in [Sessions -> BOOLEAN]
    BY <1>1 DEF TypeOK
  <1>3. TypeOK'
    BY <1>1, <1>2 DEF TypeOK
  <1>4. /\ mu'[s] = "enqueue" <=> ~ppRunning[s]
        /\ ppRunning'[s]
        /\ \A t \in Sessions : t # s => mu'[t] = mu[t] /\ ppRunning'[t] = ppRunning[t]
    BY <1>1 DEF TypeOK
  <1>5. /\ WorkersInv' /\ \A v \in Workers, t \in Sessions : Serves(v, t)' <=> Serves(v, t)
        /\ \A t \in Sessions : Sending(t)' <=> Sending(t)
    BY <1>1, StillStep
  <1>6. ExclusiveClaim'
    BY <1>1, <1>4, <1>5 DEF SafeInv, ExclusiveClaim
  <1>7. NoStrandedPacket'
    BY <1>1, <1>4 DEF SafeInv, NoStrandedPacket
  <1>8. CloseInv' /\ ClosedStaysEmpty' /\ CloseWaitsForSend'
    BY <1>1, <1>5 DEF SafeInv, CloseInv, ClosedStaysEmpty, CloseWaitsForSend
  <1> QED
    BY <1>3, <1>5, <1>6, <1>7, <1>8 DEF SafeInv

(***************************************************************************)
(* What ppEnqueue does to the queue.                                       *)
(***************************************************************************)
LEMMA QueueAppends ==
    ASSUME NEW q \in Seq(Sessions), NEW s \in Sessions
    PROVE  /\ Append(q, s) \in Seq(Sessions)
           /\ \A i \in DOMAIN q : i \in DOMAIN Append(q, s) /\ Append(q, s)[i] = q[i]
           /\ Len(q) + 1 \in DOMAIN Append(q, s) /\ Append(q, s)[Len(q) + 1] = s
           /\ \A i \in DOMAIN Append(q, s) : i \in DOMAIN q \/ i = Len(q) + 1
  OBVIOUS

LEMMA QueueTakes ==
    ASSUME NEW q \in Seq(Sessions), q # <<>>
    PROVE  /\ Head(q) \in Sessions /\ Tail(q) \in Seq(Sessions)
           /\ 1 \in DOMAIN q /\ Head(q) = q[1]
           /\ \A i \in DOMAIN Tail(q) : i + 1 \in DOMAIN q /\ i + 1 # 1 /\ Tail(q)[i] = q[i + 1]
           /\ \A i \in DOMAIN q : i = 1 \/ (i - 1 \in DOMAIN Tail(q) /\ Tail(q)[i - 1] = q[i])
           /\ \A i, j \in DOMAIN Tail(q) : i + 1 = j + 1 => i = j
  OBVIOUS

(***************************************************************************)
(* A session that is claimed and in nobody's hands joins the queue.        *)
(***************************************************************************)
LEMMA Enqueued ==
    ASSUME TypeOK, ExclusiveClaim, NEW s \in Sessions,
           ppQueue' = Append(ppQueue, s), UNCHANGED ppRunning,
           ppRunning[s], \A i \in DOMAIN ppQueue : ppQueue[i] # s,
           \A v \in Workers : ~Serves(v, s)', mu'[s] # "enqueue",
           \A t \in Sessions : t # s => /\ mu'[t] = "enqueue" <=> mu[t] = "enqueue"
                                       /\ \A v \in Workers : Serves(v, t)' <=> Serves(v, t)
    PROVE  ExclusiveClaim'
  <1>1. ppQueue \in Seq(Sessions)
    BY DEF TypeOK
  <1>2. /\ \A i \in DOMAIN ppQueue : i \in DOMAIN ppQueue' /\ ppQueue'[i] = ppQueue[i]
        /\ Len(ppQueue) + 1 \in DOMAIN ppQueue' /\ ppQueue'[Len(ppQueue) + 1] = s
        /\ \A i \in DOMAIN ppQueue' : i \in DOMAIN ppQueue \/ i = Len(ppQueue) + 1
    BY <1>1, QueueAppends
  <1>3. \A i \in DOMAIN ppQueue' : ppQueue'[i] = s <=> i = Len(ppQueue) + 1
    BY <1>2
  <1>4. \A t \in Sessions : t # s => \A i \in DOMAIN ppQueue' :
           ppQueue'[i] = t => i \in DOMAIN ppQueue /\ ppQueue[i] = t
    BY <1>2
  <1> SUFFICES ASSUME NEW t \in Sessions
               PROVE  /\ \A i, j \in DOMAIN ppQueue' : ppQueue'[i] = t /\ ppQueue'[j] = t => i = j
                      /\ \A w \in Workers : Serves(w, t)' =>
                           /\ \A v \in Workers : Serves(v, t)' => v = w
                           /\ \A i \in DOMAIN ppQueue' : ppQueue'[i] # t
                           /\ mu'[t] # "enqueue"
                      /\ mu'[t] = "enqueue" => \A i \in DOMAIN ppQueue' : ppQueue'[i] # t
                      /\ ppRunning'[t] <=> \/ mu'[t] = "enqueue"
                                           \/ \E w \in Workers : Serves(w, t)'
                                           \/ \E i \in DOMAIN ppQueue' : ppQueue'[i] = t
    BY DEF ExclusiveClaim
  <1>5. CASE t = s
    BY <1>2, <1>3, <1>5
  <1>6. CASE t # s
    BY <1>2, <1>4, <1>6 DEF ExclusiveClaim
  <1> QED
    BY <1>5, <1>6

LEMMA EnqueueKickedSafe ==
    ASSUME TypeOK, SafeInv, NEW s \in Sessions, EnqueueKicked(s)
    PROVE  TypeOK' /\ SafeInv'
  <1>1. /\ UNCHANGED <<postQueue, made, ppRunning, die, ppClosing, closer, wk, txqueue, pool, sent>>
        /\ mu[s] = "enqueue" /\ mu' = [mu EXCEPT ![s] = "signal"]
        /\ ppQueue' = Append(ppQueue, s)
    BY DEF EnqueueKicked
  <1>2. mu' \in [Sessions -> {"free", "kick", "enqueue", "signal"}] /\ ppQueue' \in Seq(Sessions)
    BY <1>1, QueueAppends DEF TypeOK
  <1>3. TypeOK'
    BY <1>1, <1>2 DEF TypeOK
  <1>4. mu'[s] = "signal" /\ \A t \in Sessions : t # s => mu'[t] = mu[t]
    BY <1>1 DEF TypeOK
  <1>5. /\ WorkersInv' /\ \A v \in Workers, t \in Sessions : Serves(v, t)' <=> Serves(v, t)
        /\ \A t \in Sessions : Sending(t)' <=> Sending(t)
    BY <1>1, StillStep
  <1>6. /\ ppRunning[s] /\ \A i \in DOMAIN ppQueue : ppQueue[i] # s
        /\ \A v \in Workers : ~Serves(v, s)
    BY <1>1 DEF SafeInv, ExclusiveClaim
  <1>7. ExclusiveClaim'
    BY <1>1, <1>4, <1>5, <1>6, Enqueued DEF SafeInv
  <1>8. NoStrandedPacket'
    BY <1>1, <1>4 DEF SafeInv, NoStrandedPacket
  <1>9. CloseInv' /\ ClosedStaysEmpty' /\ CloseWaitsForSend'
    BY <1>1, <1>5 DEF SafeInv, CloseInv, ClosedStaysEmpty, CloseWaitsForSend
  <1> QED
    BY <1>3, <1>5, <1>7, <1>8, <1>9 DEF SafeInv

LEMMA SignalKickedSafe ==
    ASSUME TypeOK, SafeInv, NEW s \in Sessions, SignalKicked(s)
    PROVE  TypeOK' /\ SafeInv'
  <1>1. /\ UNCHANGED <<postQueue, made, ppRunning, die, ppClosing, closer, ppQueue, txqueue, pool, sent>>
        /\ mu[s] = "signal" /\ mu' = [mu EXCEPT ![s] = "free"]
        /\ wk' \in Woken(wk) /\ wk \in [Workers -> WorkerState]
    BY DEF SignalKicked, TypeOK
  <1>2. /\ wk' \in [Workers -> WorkerState]
        /\ \A v \in Workers : /\ wk'[v].b = wk[v].b /\ wk'[v].sess = wk[v].sess
                              /\ \/ wk'[v].pc = wk[v].pc
                                 \/ wk[v].pc = "wait" /\ wk'[v].pc = "take"
    BY <1>1, WokenMoves
  <1>3. mu' \in [Sessions -> {"free", "kick", "enqueue", "signal"}]
    BY <1>1 DEF TypeOK
  <1>4. TypeOK'
    BY <1>1, <1>2, <1>3 DEF TypeOK
  <1>5. mu'[s] = "free" /\ \A t \in Sessions : t # s => mu'[t] = mu[t]
    BY <1>1 DEF TypeOK
  <1>6. /\ WorkersInv' /\ \A v \in Workers, t \in Sessions : Serves(v, t)' <=> Serves(v, t)
        /\ \A v \in Workers : wk'[v].pc \in Looking <=> wk[v].pc \in Looking
        /\ \A t \in Sessions : Sending(t)' <=> Sending(t)
    BY <1>2, StillStep
  <1>7. ExclusiveClaim'
    BY <1>1, <1>5, <1>6 DEF SafeInv, ExclusiveClaim
  <1>8. NoStrandedPacket'
    BY <1>1, <1>2, <1>5, <1>6 DEF SafeInv, NoStrandedPacket, Looking
  <1>9. CloseInv' /\ ClosedStaysEmpty' /\ CloseWaitsForSend'
    BY <1>1, <1>6 DEF SafeInv, CloseInv, ClosedStaysEmpty, CloseWaitsForSend
  <1> QED
    BY <1>4, <1>6, <1>7, <1>8, <1>9 DEF SafeInv

LEMMA ClosingSafe ==
    ASSUME TypeOK, SafeInv, NEW s \in Sessions, CloseDie(s) \/ Closing(s)
    PROVE  TypeOK' /\ SafeInv'
  <1>1. /\ UNCHANGED <<made, ppRunning, mu, ppQueue, wk, txqueue, pool, sent>>
        /\ die' = die \/ die' = [die EXCEPT ![s] = TRUE]
        /\ ppClosing' = ppClosing \/ (~Sending(s) /\ ppClosing' = [ppClosing EXCEPT ![s] = TRUE])
        /\ postQueue' = postQueue \/ postQueue' = [postQueue EXCEPT ![s] = Tail(@)]
        /\ postQueue' = postQueue \/ postQueue[s] # <<>>
    BY DEF CloseDie, Closing, CloseGate, CloseDrain, GateFree
  <1>2. /\ closer' = closer \/ \E c \in {"gate", "drain", "done"} : closer' = [closer EXCEPT ![s] = c]
        /\ closer' = closer \/ die'[s]
        /\ closer'[s] = "done" => (closer[s] = "done" \/ postQueue[s] = <<>>)
        /\ closer' = closer \/ postQueue' = postQueue
    BY DEF CloseDie, Closing, CloseGate, CloseDrain, TypeOK, SafeInv, CloseInv
  <1>3. /\ die' \in [Sessions -> BOOLEAN] /\ ppClosing' \in [Sessions -> BOOLEAN]
        /\ closer' \in [Sessions -> {"open", "gate", "drain", "done"}]
    BY <1>1, <1>2 DEF TypeOK
  <1>4. postQueue' \in [Sessions -> Seq(Packet)]
    <2>1. CASE postQueue' = postQueue
      BY <2>1 DEF TypeOK
    <2>2. CASE postQueue' = [postQueue EXCEPT ![s] = Tail(@)] /\ postQueue[s] # <<>>
      BY <2>2, StepPackets
    <2> QED
      BY <1>1, <2>1, <2>2
  <1>5. TypeOK'
    BY <1>1, <1>3, <1>4 DEF TypeOK
  <1>6. /\ \A t \in Sessions : die[t] => die'[t]
        /\ \A t \in Sessions : postQueue'[t] # <<>> => postQueue[t] # <<>>
        /\ \A t \in Sessions : t # s => closer'[t] = closer[t] /\ ppClosing'[t] = ppClosing[t]
    BY <1>1, <1>2 DEF TypeOK
  <1>7. /\ WorkersInv' /\ \A v \in Workers, t \in Sessions : Serves(v, t)' <=> Serves(v, t)
        /\ \A t \in Sessions : Sending(t)' <=> Sending(t)
    BY <1>1, StillStep
  <1>8. ExclusiveClaim'
    BY <1>1, <1>7 DEF SafeInv, ExclusiveClaim
  <1>9. NoStrandedPacket'
    BY <1>1, <1>6 DEF SafeInv, NoStrandedPacket
  <1>10. CloseInv'
    BY <1>2, <1>6 DEF SafeInv, CloseInv
  <1>11. ClosedStaysEmpty'
    BY <1>2, <1>6 DEF SafeInv, ClosedStaysEmpty
  <1>12. CloseWaitsForSend'
    BY <1>1, <1>6, <1>7 DEF SafeInv, CloseWaitsForSend
  <1> QED
    BY <1>5, <1>7, <1>8, <1>9, <1>10, <1>11, <1>12 DEF SafeInv
-----------------------------------------------------------------------------
(***************************************************************************)
(* The steps of the workers.                                               *)
(***************************************************************************)
LEMMA StartSafe ==
    ASSUME TypeOK, SafeInv, NEW w \in Workers, StartWorker(w)
    PROVE  TypeOK' /\ SafeInv'
  <1>1. UNCHANGED <<postQueue, made, ppRunning, die, ppClosing, mu, closer, ppQueue, txqueue, sent>>
        /\ wk[w].pc = "start"
    BY DEF StartWorker, At
  <1>2. /\ \E b \in Workers : wk' = [wk EXCEPT ![w] = Worker(b, "take")]
        /\ pool' \in [Workers -> Nat]
    <2>1. CASE wk' = [wk EXCEPT ![w] = Worker(w, "take")] /\ pool' = pool
      BY <2>1 DEF TypeOK
    <2>2. ASSUME NEW b \in Workers, pool[b] > 0, pool' = [pool EXCEPT ![b] = @ - 1],
                 wk' = [wk EXCEPT ![w] = Worker(b, "take")]
          PROVE  /\ \E c \in Workers : wk' = [wk EXCEPT ![w] = Worker(c, "take")]
                 /\ pool' \in [Workers -> Nat]
      <3>1. pool \in [Workers -> Nat] /\ pool[b] - 1 \in Nat
        BY <2>2 DEF TypeOK
      <3>2. pool' \in [Workers -> Nat]
        BY <2>2, <3>1
      <3> QED
        BY <2>2, <3>2
    <2> QED
      BY <2>1, <2>2 DEF StartWorker
  <1>3. PICK b \in Workers : wk' = [wk EXCEPT ![w] = Worker(b, "take")]
    BY <1>2
  <1>4. /\ Worker(b, "take") \in WorkerState
        /\ Worker(b, "take").pc = "take" /\ Worker(b, "take").b = b
    BY NewRound DEF Places
  <1>5. /\ wk' \in [Workers -> WorkerState] /\ wk'[w].pc = "take" /\ wk'[w].b = b
        /\ \A v \in Workers : v # w => wk'[v] = wk[v]
    BY <1>3, <1>4 DEF TypeOK
  <1>6. TypeOK'
    BY <1>1, <1>2, <1>5 DEF TypeOK
  <1>7. WorkersInv'
    BY <1>5 DEF SafeInv, WorkersInv, Serving, Finishing
  <1>8. \A v \in Workers, t \in Sessions : Serves(v, t)' <=> Serves(v, t)
    BY <1>1, <1>5 DEF Serves, Serving
  <1>9. ExclusiveClaim'
    BY <1>1, <1>8 DEF SafeInv, ExclusiveClaim
  <1>10. NoStrandedPacket'
    BY <1>1, <1>5 DEF SafeInv, NoStrandedPacket
  <1>11. CloseInv' /\ ClosedStaysEmpty' /\ CloseWaitsForSend'
    BY <1>1, <1>5 DEF SafeInv, CloseInv, ClosedStaysEmpty, CloseWaitsForSend, Sending, At
  <1> QED
    BY <1>6, <1>7, <1>9, <1>10, <1>11 DEF SafeInv

LEMMA TakeSafe ==
    ASSUME TypeOK, SafeInv, NEW w \in Workers, Take(w)
    PROVE  TypeOK' /\ SafeInv'
  <1>1. /\ UNCHANGED <<postQueue, made, ppRunning, die, ppClosing, mu, closer, txqueue, pool, sent>>
        /\ wk[w].pc = "take" /\ wk \in [Workers -> WorkerState] /\ ppQueue \in Seq(Sessions)
    BY DEF Take, At, TypeOK
  <1>2. CASE Goto(w, "wait") /\ UNCHANGED ppQueue
    <2>1. Moves(w, "wait", wk[w].sess)
      BY <1>1, <1>2, GotoMoves DEF Places
    <2>2. TypeOK'
      BY <1>1, <1>2, <2>1 DEF TypeOK, Moves
    <2>3. SafeInv'
      BY <1>1, <1>2, <2>1, QuietStep DEF Places, Serving, Finishing, Looking
    <2> QED
      BY <2>2, <2>3
  <1>3. CASE /\ ppQueue # <<>> /\ ppQueue' = Tail(ppQueue)
             /\ wk' = [wk EXCEPT ![w].pc = "check", ![w].sess = Head(ppQueue)]
    <2> DEFINE s == Head(ppQueue)
    <2>1. /\ s \in Sessions /\ ppQueue' \in Seq(Sessions)
          /\ 1 \in DOMAIN ppQueue /\ s = ppQueue[1]
          /\ \A i \in DOMAIN ppQueue' : i + 1 \in DOMAIN ppQueue /\ i + 1 # 1 /\ ppQueue'[i] = ppQueue[i + 1]
          /\ \A i \in DOMAIN ppQueue : i = 1 \/ (i - 1 \in DOMAIN ppQueue' /\ ppQueue'[i - 1] = ppQueue[i])
          /\ \A i, j \in DOMAIN ppQueue' : i + 1 = j + 1 => i = j
      BY <1>1, <1>3, QueueTakes
    <2> HIDE DEF s
    <2>2. Moves(w, "check", s)
      BY <1>1, <1>3, <2>1, TakeMoves DEF s
    <2>3. TypeOK'
      BY <1>1, <2>1, <2>2 DEF TypeOK, Moves
    <2>4. WorkersInv'
      BY <1>1, <2>1, <2>2 DEF SafeInv, WorkersInv, Moves, Serving, Finishing
    <2>5. \A v \in Workers, t \in Sessions : Serves(v, t)' <=> Serves(v, t) \/ (v = w /\ t = s)
      BY <1>1, <2>2 DEF Serves, Moves, Serving
    <2>6. /\ ppRunning[s] /\ mu[s] # "enqueue" /\ \A v \in Workers : ~Serves(v, s)
          /\ \A i \in DOMAIN ppQueue : ppQueue[i] = s => i = 1
      BY <2>1 DEF SafeInv, ExclusiveClaim
    <2>7. \A i \in DOMAIN ppQueue' : ppQueue'[i] # s
      BY <2>1, <2>6
    <2>8. ExclusiveClaim'
      <3> SUFFICES ASSUME NEW t \in Sessions
                   PROVE  /\ \A i, j \in DOMAIN ppQueue' : ppQueue'[i] = t /\ ppQueue'[j] = t => i = j
                          /\ \A u \in Workers : Serves(u, t)' =>
                               /\ \A v \in Workers : Serves(v, t)' => v = u
                               /\ \A i \in DOMAIN ppQueue' : ppQueue'[i] # t
                               /\ mu'[t] # "enqueue"
                          /\ mu'[t] = "enqueue" => \A i \in DOMAIN ppQueue' : ppQueue'[i] # t
                          /\ ppRunning'[t] <=> \/ mu'[t] = "enqueue"
                                               \/ \E u \in Workers : Serves(u, t)'
                                               \/ \E i \in DOMAIN ppQueue' : ppQueue'[i] = t
        BY DEF ExclusiveClaim
      <3>1. CASE t = s
        BY <1>1, <2>5, <2>6, <2>7, <3>1
      <3>2. CASE t # s
        <4>1. \A v \in Workers : Serves(v, t)' <=> Serves(v, t)
          BY <2>5, <3>2
        <4>2. (\E i \in DOMAIN ppQueue' : ppQueue'[i] = t) <=> (\E i \in DOMAIN ppQueue : ppQueue[i] = t)
          BY <2>1, <3>2
        <4>3. \A i, j \in DOMAIN ppQueue' : ppQueue'[i] = t /\ ppQueue'[j] = t => i = j
          BY <2>1 DEF SafeInv, ExclusiveClaim
        <4> QED
          BY <1>1, <4>1, <4>2, <4>3 DEF SafeInv, ExclusiveClaim
      <3> QED
        BY <3>1, <3>2
    <2>9. NoStrandedPacket'
      BY <1>1, <2>2 DEF SafeInv, NoStrandedPacket, Moves
    <2>10. CloseInv' /\ ClosedStaysEmpty' /\ CloseWaitsForSend'
      BY <1>1, <2>2 DEF SafeInv, CloseInv, ClosedStaysEmpty, CloseWaitsForSend, Sending, At, Moves
    <2> QED
      BY <2>3, <2>4, <2>8, <2>9, <2>10 DEF SafeInv
  <1> QED
    BY <1>2, <1>3 DEF Take

LEMMA PopSafe ==
    ASSUME TypeOK, SafeInv, NEW w \in Workers, PopPacket(w)
    PROVE  TypeOK' /\ SafeInv'
  <1> DEFINE s == wk[w].sess
             b == wk[w].b
  <1>1. /\ UNCHANGED <<made, ppRunning, die, ppClosing, mu, closer, ppQueue, pool, sent>>
        /\ wk[w].pc = "pop" /\ wk \in [Workers -> WorkerState] /\ wk[w].n \in Nat /\ wk[w].n > 0
    BY WorkerFields DEF PopPacket, At, BudgetLeft, TypeOK
  <1>2. s \in Sessions /\ b \in Workers
    BY <1>1 DEF SafeInv, WorkersInv, Serving
  <1>3. CASE Goto(w, "finish") /\ UNCHANGED <<postQueue, txqueue>>
    <2>1. Moves(w, "finish", s)
      BY <1>1, <1>3, GotoMoves DEF Places, Serving
    <2>2. TypeOK'
      BY <1>1, <1>3, <2>1 DEF TypeOK, Moves
    <2>3. SafeInv'
      BY <1>1, <1>3, <2>1, QuietStep DEF Places, Serving, Finishing, Looking
    <2> QED
      BY <2>2, <2>3
  <1>4. ASSUME postQueue[s] # <<>>, NEW x \in Extras,
               txqueue' = [txqueue EXCEPT ![b] = @ \o [i \in 1..(x + 1) |-> Head(postQueue[s])]],
               postQueue' = [postQueue EXCEPT ![s] = Tail(@)],
               wk' = [wk EXCEPT ![w].pc = "len", ![w].n = @ - 1]
        PROVE  TypeOK' /\ SafeInv'
    <2>1. Moves(w, "len", s)
      <3>1. wk' = [wk EXCEPT ![w].pc = "len", ![w].n = wk[w].n - 1]
        BY <1>4
      <3>2. wk[w].n - 1 \in Nat
        BY <1>1
      <3> QED
        BY <1>1, <3>1, <3>2, CountMoves DEF Places, Serving
    <2>2. postQueue' \in [Sessions -> Seq(Packet)] /\ Head(postQueue[s]) \in Packet
      BY <1>2, <1>4, StepPackets
    <2>3. [i \in 1..(x + 1) |-> Head(postQueue[s])] \in Seq(Packet)
      BY <2>2, Constants
    <2>4. txqueue' \in [Workers -> Seq(Packet)]
      <3>1. txqueue[b] \o [i \in 1..(x + 1) |-> Head(postQueue[s])] \in Seq(Packet)
        BY <1>2, <2>3 DEF TypeOK
      <3> QED
        BY <1>2, <1>4, <3>1 DEF TypeOK
    <2>5. TypeOK'
      BY <1>1, <2>1, <2>2, <2>4 DEF TypeOK, Moves
    <2>6. \A t \in Sessions : postQueue'[t] # <<>> => postQueue[t] # <<>>
      BY <1>4 DEF TypeOK
    <2>7. SafeInv'
      BY <1>1, <2>1, <2>6, QuietStep DEF Places, Serving, Finishing, Looking
    <2> QED
      BY <2>5, <2>7
  <1> QED
    BY <1>3, <1>4 DEF PopPacket

(***************************************************************************)
(* The steps of postProcess that only go on, with or without the batch.    *)
(***************************************************************************)
LEMMA BatchSafe ==
    ASSUME TypeOK, SafeInv, NEW w \in Workers,
           BatchDone(w) \/ BudgetDone(w) \/ flushTx(w) \/ RestLeft(w) \/ CheckClosed(w)
    PROVE  TypeOK' /\ SafeInv'
  <1>1. /\ UNCHANGED <<postQueue, made, ppRunning, die, ppClosing, mu, closer, ppQueue, sent>>
        /\ wk \in [Workers -> WorkerState]
        /\ wk[w].pc \in {"check", "pop", "len", "flush", "rest"}
    BY DEF BatchDone, BudgetDone, flushTx, RestLeft, CheckClosed, At, TypeOK
  <1>2. wk[w].sess \in Sessions /\ wk[w].b \in Workers
    BY <1>1 DEF SafeInv, WorkersInv, Serving
  <1>3. \E pc \in {"pop", "finish", "flush", "rest", "enqueue", "gate"} : Moves(w, pc, wk[w].sess)
    <2> USE DEF Places, Serving
    <2>1. CASE BatchDone(w)
      BY <1>1, <2>1, RetMoves DEF BatchDone
    <2>2. CASE BudgetDone(w)
      BY <1>1, <2>2, RetMoves DEF BudgetDone
    <2>3. CASE flushTx(w)
      BY <1>1, <2>3, GotoMoves DEF flushTx
    <2>4. CASE RestLeft(w)
      BY <1>1, <2>4, GotoMoves DEF RestLeft
    <2>5. CASE CheckClosed(w)
      BY <1>1, <2>5, CountMoves, Constants DEF CheckClosed
    <2> QED
      BY <2>1, <2>2, <2>3, <2>4, <2>5
  <1>4. txqueue' \in [Workers -> Seq(Packet)] /\ pool' \in [Workers -> Nat]
    <2>1. CASE UNCHANGED <<txqueue, pool>>
      BY <2>1 DEF TypeOK
    <2>2. CASE /\ txqueue' = [txqueue EXCEPT ![wk[w].b] = <<>>]
               /\ pool' = [pool EXCEPT ![wk[w].b] = @ + 1]
      BY <1>2, <2>2 DEF TypeOK
    <2> QED
      BY <2>1, <2>2 DEF BatchDone, BudgetDone, flushTx, RestLeft, CheckClosed
  <1>5. TypeOK'
    BY <1>1, <1>3, <1>4 DEF TypeOK, Moves
  <1>6. SafeInv'
    BY <1>1, <1>3, QuietStep DEF Places, Serving, Finishing, Looking
  <1> QED
    BY <1>5, <1>6

LEMMA SendSafe ==
    ASSUME TypeOK, SafeInv, NEW w \in Workers, EnterSendTx(w) \/ Transmit(w)
    PROVE  TypeOK' /\ SafeInv'
  <1> DEFINE s == wk[w].sess
             b == wk[w].b
  <1>1. /\ UNCHANGED <<postQueue, made, ppRunning, die, ppClosing, mu, closer, ppQueue, pool>>
        /\ wk \in [Workers -> WorkerState] /\ wk[w].pc \in {"gate", "tx"}
        /\ wk[w].ret \in {"pop", "rest"}
    BY WorkerFields DEF EnterSendTx, Transmit, At, TypeOK
  <1>2. s \in Sessions /\ b \in Workers
    BY <1>1 DEF SafeInv, WorkersInv, Serving
  <1>3. txqueue' \in [Workers -> Seq(Packet)] /\ sent' \in Seq(Packet)
    <2>1. txqueue' = txqueue \/ txqueue' = [txqueue EXCEPT ![b] = <<>>]
      BY DEF EnterSendTx, Transmit
    <2>2. sent' = sent \/ sent' = sent \o txqueue[b]
      BY DEF EnterSendTx, Transmit
    <2>3. txqueue \in [Workers -> Seq(Packet)] /\ txqueue[b] \in Seq(Packet) /\ sent \in Seq(Packet)
      BY <1>2 DEF TypeOK
    <2>4. txqueue' \in [Workers -> Seq(Packet)]
      <3>1. CASE txqueue' = [txqueue EXCEPT ![b] = <<>>]
        <4>1. <<>> \in Seq(Packet)
          OBVIOUS
        <4> QED
          BY <2>3, <3>1, <4>1
      <3> QED
        BY <2>1, <2>3, <3>1
    <2>5. sent \o txqueue[b] \in Seq(Packet)
      BY <2>3, ConcatProperties
    <2> QED
      BY <2>2, <2>3, <2>4, <2>5
  <1>4. CASE \E pc \in {"pop", "rest"} : Goto(w, pc)
    <2>1. \E pc \in {"pop", "rest"} : Moves(w, pc, s)
      BY <1>1, <1>4, GotoMoves DEF Places, Serving
    <2>2. TypeOK'
      BY <1>1, <1>3, <2>1 DEF TypeOK, Moves
    <2>3. SafeInv'
      BY <1>1, <2>1, QuietStep DEF Places, Serving, Finishing, Looking
    <2> QED
      BY <2>2, <2>3
  <1>5. CASE Goto(w, "tx") /\ ~ppClosing[s]
    <2>1. Moves(w, "tx", s)
      BY <1>1, <1>5, GotoMoves DEF Places, Serving
    <2>2. TypeOK'
      BY <1>1, <1>3, <2>1 DEF TypeOK, Moves
    <2>3. WorkersInv'
      BY <1>1, <1>2, <2>1 DEF SafeInv, WorkersInv, Moves, Serving, Finishing
    <2>4. \A v \in Workers, t \in Sessions : Serves(v, t)' <=> Serves(v, t)
      BY <1>1, <2>1 DEF Serves, Moves, Serving
    <2>5. ExclusiveClaim'
      BY <1>1, <2>4 DEF SafeInv, ExclusiveClaim
    <2>6. NoStrandedPacket'
      BY <1>1, <2>1 DEF SafeInv, NoStrandedPacket, Moves
    <2>7. CloseInv' /\ ClosedStaysEmpty'
      BY <1>1 DEF SafeInv, CloseInv, ClosedStaysEmpty
    <2>8. CloseWaitsForSend'
      BY <1>1, <1>5, <2>1 DEF SafeInv, CloseWaitsForSend, Sending, At, Moves
    <2> QED
      BY <2>2, <2>3, <2>5, <2>6, <2>7, <2>8 DEF SafeInv
  <1> QED
    BY <1>1, <1>4, <1>5 DEF EnterSendTx, Transmit

(***************************************************************************)
(* finishPostProcess: w gives the claim up and looks on.                   *)
(***************************************************************************)
LEMMA ReleaseSafe ==
    ASSUME TypeOK, SafeInv, NEW w \in Workers, ReleaseClaim(w)
    PROVE  TypeOK' /\ SafeInv'
  <1> DEFINE s == wk[w].sess
  <1>1. /\ UNCHANGED <<postQueue, made, die, ppClosing, mu, closer, ppQueue, txqueue, pool, sent>>
        /\ wk \in [Workers -> WorkerState] /\ wk[w].pc = "finish" /\ Goto(w, "recheck")
        /\ ppRunning' = [ppRunning EXCEPT ![s] = FALSE]
    BY DEF ReleaseClaim, At, TypeOK
  <1>2. s \in Sessions
    BY <1>1 DEF SafeInv, WorkersInv, Serving
  <1>3. Moves(w, "recheck", s)
    BY <1>1, GotoMoves DEF Places, Finishing
  <1>4. ppRunning' \in [Sessions -> BOOLEAN]
    BY <1>1 DEF TypeOK
  <1>5. TypeOK'
    BY <1>1, <1>3, <1>4 DEF TypeOK, Moves
  <1>6. ~ppRunning'[s] /\ \A t \in Sessions : t # s => ppRunning'[t] = ppRunning[t]
    BY <1>1, <1>2 DEF TypeOK
  <1>7. Serves(w, s) /\ \A v \in Workers, t \in Sessions : Serves(v, t)' <=> Serves(v, t) /\ t # s
    <2>1. Serves(w, s)
      BY <1>1 DEF Serves, Serving
    <2>2. \A v \in Workers : Serves(v, s) => v = w
      BY <1>2, <2>1 DEF SafeInv, ExclusiveClaim
    <2>3. ~Serves(w, s)' /\ \A t \in Sessions : Serves(w, t)' <=> Serves(w, t) /\ t # s
      BY <1>1, <1>3 DEF Moves, Serves, Serving
    <2>4. \A v \in Workers : v # w => \A t \in Sessions : Serves(v, t)' <=> Serves(v, t)
      BY <1>3 DEF Moves, Serves
    <2> QED
      BY <2>1, <2>2, <2>3, <2>4
  <1>8. WorkersInv'
    BY <1>1, <1>2, <1>3 DEF SafeInv, WorkersInv, Moves, Serving, Finishing
  <1>9. ExclusiveClaim'
    BY <1>1, <1>2, <1>6, <1>7 DEF SafeInv, ExclusiveClaim
  <1>10. NoStrandedPacket'
    <2> SUFFICES ASSUME NEW t \in Sessions, postQueue'[t] # <<>>, ~die'[t], ~ppRunning'[t]
                 PROVE  \/ mu'[t] = "kick"
                        \/ \E v \in Workers : wk'[v].sess = t /\ wk'[v].pc \in Looking
      BY DEF NoStrandedPacket, Looking
    <2>1. CASE t = s
      BY <1>3, <2>1 DEF Moves, Looking
    <2>2. CASE t # s
      BY <1>1, <1>3, <1>6, <2>2 DEF SafeInv, NoStrandedPacket, Moves, Looking
    <2> QED
      BY <2>1, <2>2
  <1>11. CloseInv' /\ ClosedStaysEmpty'
    BY <1>1 DEF SafeInv, CloseInv, ClosedStaysEmpty
  <1>12. CloseWaitsForSend'
    BY <1>1, <1>3 DEF SafeInv, CloseWaitsForSend, Sending, At, Moves
  <1> QED
    BY <1>5, <1>8, <1>9, <1>10, <1>11, <1>12 DEF SafeInv

(***************************************************************************)
(* It looks again: at die, then at the queue.                              *)
(***************************************************************************)
LEMMA LookSafe ==
    ASSUME TypeOK, SafeInv, NEW w \in Workers, Recheck(w) \/ Relen(w)
    PROVE  TypeOK' /\ SafeInv'
  <1> DEFINE s == wk[w].sess
  <1>1. /\ UNCHANGED <<postQueue, made, ppRunning, die, ppClosing, mu, closer, ppQueue,
                       txqueue, pool, sent>>
        /\ wk \in [Workers -> WorkerState] /\ wk[w].pc \in {"recheck", "relen"}
    BY DEF Recheck, Relen, At, TypeOK
  <1>2. \/ Moves(w, "drain", s) /\ die[s]
        \/ Moves(w, "relen", s) \/ Moves(w, "reclaim", s)
        \/ Moves(w, "take", None) /\ postQueue[s] = <<>>
    <2>1. CASE Recheck(w)
      BY <1>1, <2>1, GotoMoves DEF Recheck, Places, Finishing
    <2>2. CASE Relen(w)
      BY <1>1, <2>2, GotoMoves, LoopMoves DEF Relen, LooksAgain, Places, Finishing
    <2> QED
      BY <2>1, <2>2
  <1>3. TypeOK'
    BY <1>1, <1>2 DEF TypeOK, Moves
  <1>4. SafeInv'
    BY <1>1, <1>2, QuietStep DEF Places, Serving, Finishing, Looking
  <1> QED
    BY <1>3, <1>4

(***************************************************************************)
(* A worker that finds a packet claims the session again, unless somebody  *)
(* was faster.                                                             *)
(***************************************************************************)
LEMMA ReclaimSafe ==
    ASSUME TypeOK, SafeInv, NEW w \in Workers, Reclaim(w)
    PROVE  TypeOK' /\ SafeInv'
  <1> DEFINE s == wk[w].sess
  <1>1. /\ UNCHANGED <<postQueue, made, die, ppClosing, mu, closer, ppQueue, txqueue, pool, sent>>
        /\ wk \in [Workers -> WorkerState] /\ wk[w].pc = "reclaim"
        /\ IF ppRunning[s] THEN Loop(w) ELSE Goto(w, "enqueue")
        /\ ppRunning' = [ppRunning EXCEPT ![s] = TRUE]
    BY DEF Reclaim, At, Claims, TypeOK
  <1>2. s \in Sessions
    BY <1>1 DEF SafeInv, WorkersInv, Finishing
  <1>3. ppRunning \in [Sessions -> BOOLEAN] /\ ppRunning' \in [Sessions -> BOOLEAN]
    BY <1>1 DEF TypeOK
  <1>4. ppRunning'[s] /\ \A t \in Sessions : t # s => ppRunning'[t] = ppRunning[t]
    BY <1>1, <1>2, <1>3
  <1>5. CASE ppRunning[s]
    <2>1. Moves(w, "take", None)
      BY <1>1, <1>5, LoopMoves
    <2>2. UNCHANGED ppRunning
      BY <1>1, <1>2, <1>3, <1>5, Zenon
    <2>3. TypeOK'
      BY <1>1, <1>3, <2>1 DEF TypeOK, Moves
    <2>4. SafeInv'
      BY <1>1, <1>5, <2>1, <2>2, QuietStep DEF Places, Serving, Finishing, Looking
    <2> QED
      BY <2>3, <2>4
  <1>6. CASE ~ppRunning[s]
    <2>1. Moves(w, "enqueue", s)
      BY <1>1, <1>6, GotoMoves DEF Places, Serving
    <2>2. TypeOK'
      BY <1>1, <1>3, <2>1 DEF TypeOK, Moves
    <2>3. WorkersInv'
      BY <1>1, <1>2, <2>1 DEF SafeInv, WorkersInv, Moves, Serving, Finishing
    <2>4. \A v \in Workers, t \in Sessions : Serves(v, t)' <=> Serves(v, t) \/ (v = w /\ t = s)
      BY <1>1, <2>1 DEF Serves, Moves, Serving
    <2>5. /\ mu[s] # "enqueue" /\ \A v \in Workers : ~Serves(v, s)
          /\ \A i \in DOMAIN ppQueue : ppQueue[i] # s
      BY <1>2, <1>6 DEF SafeInv, ExclusiveClaim
    <2>6. ExclusiveClaim'
      BY <1>1, <1>2, <1>4, <2>4, <2>5 DEF SafeInv, ExclusiveClaim
    <2>7. NoStrandedPacket'
      BY <1>1, <1>4, <2>1 DEF SafeInv, NoStrandedPacket, Moves
    <2>8. CloseInv' /\ ClosedStaysEmpty'
      BY <1>1 DEF SafeInv, CloseInv, ClosedStaysEmpty
    <2>9. CloseWaitsForSend'
      BY <1>1, <2>1 DEF SafeInv, CloseWaitsForSend, Sending, At, Moves
    <2> QED
      BY <2>2, <2>3, <2>6, <2>7, <2>8, <2>9 DEF SafeInv
  <1> QED
    BY <1>5, <1>6

LEMMA DiscardSafe ==
    ASSUME TypeOK, SafeInv, NEW w \in Workers, DiscardFinished(w)
    PROVE  TypeOK' /\ SafeInv'
  <1> DEFINE s == wk[w].sess
  <1>1. /\ UNCHANGED <<made, ppRunning, die, ppClosing, mu, closer, ppQueue, txqueue, pool, sent>>
        /\ wk \in [Workers -> WorkerState] /\ wk[w].pc = "drain"
        /\ \/ Loop(w) /\ UNCHANGED postQueue
           \/ postQueue[s] # <<>> /\ postQueue' = [postQueue EXCEPT ![s] = Tail(@)] /\ UNCHANGED wk
    BY DEF DiscardFinished, At, TypeOK
  <1>2. s \in Sessions
    BY <1>1 DEF SafeInv, WorkersInv, Finishing
  <1>3. Moves(w, "take", None) \/ Moves(w, "drain", s)
    BY <1>1, LoopMoves DEF Moves
  <1>4. postQueue' \in [Sessions -> Seq(Packet)]
    <2>1. CASE UNCHANGED postQueue
      BY <2>1 DEF TypeOK
    <2>2. CASE postQueue[s] # <<>> /\ postQueue' = [postQueue EXCEPT ![s] = Tail(@)]
      BY <1>2, <2>2, StepPackets
    <2> QED
      BY <1>1, <2>1, <2>2
  <1>5. TypeOK'
    BY <1>1, <1>3, <1>4 DEF TypeOK, Moves
  <1>6. \A t \in Sessions : postQueue'[t] # <<>> => postQueue[t] # <<>>
    BY <1>1 DEF TypeOK
  <1>7. SafeInv'
    BY <1>1, <1>3, <1>6, QuietStep DEF Places, Serving, Finishing, Looking
  <1> QED
    BY <1>5, <1>7

LEMMA RequeueSafe ==
    ASSUME TypeOK, SafeInv, NEW w \in Workers, Requeue(w)
    PROVE  TypeOK' /\ SafeInv'
  <1>1. wk[w].pc = "enqueue" /\ wk[w].sess \in Sessions
    BY DEF Requeue, At, SafeInv, WorkersInv, Serving
  <1>2. PICK s \in Sessions : s = wk[w].sess
    BY <1>1
  <1>3. /\ UNCHANGED <<postQueue, made, ppRunning, die, ppClosing, mu, closer, txqueue, pool, sent>>
        /\ wk \in [Workers -> WorkerState] /\ wk[w].pc = "enqueue" /\ Goto(w, "signal")
        /\ ppQueue' = Append(ppQueue, s) /\ ppQueue \in Seq(Sessions)
    BY <1>2 DEF Requeue, At, TypeOK
  <1>4. Moves(w, "signal", s)
    BY <1>3, <1>2, GotoMoves DEF Places, Finishing
  <1>5. ppQueue' \in Seq(Sessions)
    BY <1>3, <1>2, QueueAppends
  <1>6. TypeOK'
    BY <1>3, <1>4, <1>5 DEF TypeOK, Moves
  <1>7. WorkersInv'
    BY <1>3, <1>2, <1>4 DEF SafeInv, WorkersInv, Moves, Serving, Finishing
  <1>8. Serves(w, s)
    BY <1>3, <1>2 DEF Serves, Serving
  <1>9. /\ ppRunning[s] /\ mu[s] # "enqueue" /\ \A i \in DOMAIN ppQueue : ppQueue[i] # s
        /\ \A v \in Workers : Serves(v, s) => v = w
    BY <1>2, <1>8 DEF SafeInv, ExclusiveClaim
  <1>10. \A v \in Workers, t \in Sessions : Serves(v, t)' <=> Serves(v, t) /\ v # w
    BY <1>3, <1>4 DEF Serves, Moves, Serving
  <1>11. \A v \in Workers, t \in Sessions : t # s => (Serves(v, t)' <=> Serves(v, t))
    BY <1>2, <1>10 DEF Serves
  <1>12. \A v \in Workers : ~Serves(v, s)'
    BY <1>2, <1>9, <1>10
  <1>13. ExclusiveClaim'
    BY <1>3, <1>2, <1>9, <1>11, <1>12, Enqueued DEF SafeInv
  <1>14. NoStrandedPacket'
    BY <1>3, <1>4 DEF SafeInv, NoStrandedPacket, Moves
  <1>15. CloseInv' /\ ClosedStaysEmpty'
    BY <1>3 DEF SafeInv, CloseInv, ClosedStaysEmpty
  <1>16. CloseWaitsForSend'
    BY <1>3, <1>4 DEF SafeInv, CloseWaitsForSend, Sending, At, Moves
  <1> QED
    BY <1>6, <1>7, <1>13, <1>14, <1>15, <1>16 DEF SafeInv

(***************************************************************************)
(* A worker that goes back to its loop and wakes another.                  *)
(***************************************************************************)
LEMMA SignalRequeuedSafe ==
    ASSUME TypeOK, SafeInv, NEW w \in Workers, SignalRequeued(w)
    PROVE  TypeOK' /\ SafeInv'
  <1> DEFINE r == Worker(wk[w].b, "take")
             f == [wk EXCEPT ![w] = r]
  <1>1. /\ UNCHANGED <<postQueue, made, ppRunning, die, ppClosing, mu, closer, ppQueue,
                       txqueue, pool, sent>>
        /\ wk \in [Workers -> WorkerState] /\ wk[w].pc = "signal" /\ wk' \in Woken(f)
    BY DEF SignalRequeued, At, TypeOK
  <1>2. wk[w].b \in Workers
    BY <1>1 DEF SafeInv, WorkersInv
  <1>3. r \in WorkerState /\ r.pc = "take" /\ r.b = wk[w].b /\ r.sess = None
    BY <1>2, NewRound DEF Places
  <1> HIDE DEF r
  <1>4. f \in [Workers -> WorkerState] /\ f[w] = r /\ \A v \in Workers : v # w => f[v] = wk[v]
    BY <1>1, <1>3
  <1> HIDE DEF f
  <1>5. /\ wk' \in [Workers -> WorkerState]
        /\ \A v \in Workers : /\ wk'[v].b = f[v].b /\ wk'[v].sess = f[v].sess
                              /\ \/ wk'[v].pc = f[v].pc
                                 \/ f[v].pc = "wait" /\ wk'[v].pc = "take"
    BY <1>1, <1>4, WokenMoves
  <1>6. \A v \in Workers : /\ v # w => wk'[v].b = wk[v].b /\ wk'[v].sess = wk[v].sess
                           /\ \/ wk'[v].pc = wk[v].pc
                              \/ wk[v].pc \in {"wait", "signal"} /\ wk'[v].pc = "take"
    BY <1>1, <1>3, <1>4, <1>5
  <1>7. wk'[w].pc = "take" /\ wk'[w].b \in Workers
    BY <1>2, <1>3, <1>4, <1>5
  <1>8. TypeOK'
    BY <1>1, <1>5 DEF TypeOK
  <1>9. WorkersInv'
    BY <1>6, <1>7 DEF SafeInv, WorkersInv, Serving, Finishing
  <1>10. \A v \in Workers, t \in Sessions : Serves(v, t)' <=> Serves(v, t)
    BY <1>1, <1>6, <1>7 DEF Serves, Serving
  <1>11. ExclusiveClaim'
    BY <1>1, <1>10 DEF SafeInv, ExclusiveClaim
  <1>12. NoStrandedPacket'
    BY <1>1, <1>6, <1>7 DEF SafeInv, NoStrandedPacket
  <1>13. CloseInv' /\ ClosedStaysEmpty'
    BY <1>1 DEF SafeInv, CloseInv, ClosedStaysEmpty
  <1>14. CloseWaitsForSend'
    BY <1>1, <1>6, <1>7 DEF SafeInv, CloseWaitsForSend, Sending, At
  <1> QED
    BY <1>8, <1>9, <1>11, <1>12, <1>13, <1>14 DEF SafeInv

-----------------------------------------------------------------------------
LEMMA InitSafe == Init => TypeOK /\ SafeInv
  <1> SUFFICES ASSUME Init PROVE TypeOK /\ SafeInv
    OBVIOUS
  <1>1. wk \in [Workers -> WorkerState] /\ WorkersInv
        /\ \A w \in Workers : wk[w].pc \in {"start", "take"}
    <2>1. \A w \in Workers : /\ Worker(None, "start") \in WorkerState
                             /\ Worker(None, "start").pc = "start"
                             /\ Worker(w, "take") \in WorkerState
                             /\ Worker(w, "take").pc = "take" /\ Worker(w, "take").b = w
      BY NewRound DEF Places
    <2>2. \A w \in Workers : wk[w] = Worker(None, "start") \/ wk[w] = Worker(w, "take")
      BY DEF Init
    <2>3. \A w \in Workers : /\ wk[w] \in WorkerState /\ wk[w].pc \in {"start", "take"}
                             /\ wk[w].pc # "start" => wk[w].b = w
      BY <2>1, <2>2
    <2>4. wk \in [Workers -> WorkerState]
      BY <2>3 DEF Init
    <2> QED
      BY <2>3, <2>4 DEF WorkersInv, Serving, Finishing
  <1>2. TypeOK
    BY <1>1 DEF Init, TypeOK
  <1>3. ExclusiveClaim
    BY <1>1 DEF Init, ExclusiveClaim, Serves, Serving
  <1>4. NoStrandedPacket /\ CloseInv /\ ClosedStaysEmpty /\ CloseWaitsForSend
    BY <1>1 DEF Init, NoStrandedPacket, CloseInv, ClosedStaysEmpty, CloseWaitsForSend, Sending, At
  <1> QED
    BY <1>1, <1>2, <1>3, <1>4 DEF SafeInv

LEMMA NextSafe == TypeOK /\ SafeInv /\ [Next]_vars => TypeOK' /\ SafeInv'
  <1> SUFFICES ASSUME TypeOK, SafeInv, [Next]_vars PROVE TypeOK' /\ SafeInv'
    OBVIOUS
  <1>1. CASE UNCHANGED vars
    BY <1>1 DEF vars, TypeOK, SafeInv, WorkersInv, ExclusiveClaim, Serves, NoStrandedPacket,
                CloseInv, ClosedStaysEmpty, CloseWaitsForSend, Sending, At
  <1>2. ASSUME NEW s \in Sessions, Output(s) \/ Producer(s) \/ CloseDie(s) \/ Closing(s)
        PROVE  TypeOK' /\ SafeInv'
    BY <1>2, OutputSafe, KickSafe, EnqueueKickedSafe, SignalKickedSafe, ClosingSafe DEF Producer
  <1>3. ASSUME NEW w \in Workers, postProcessWorker(w)
        PROVE  TypeOK' /\ SafeInv'
    BY <1>3, StartSafe, TakeSafe, PopSafe, BatchSafe, SendSafe, ReleaseSafe, LookSafe,
       ReclaimSafe, DiscardSafe, RequeueSafe, SignalRequeuedSafe
       DEF postProcessWorker, postProcess, finishPostProcess
  <1> QED
    BY <1>1, <1>2, <1>3 DEF Next

LEMMA AlwaysSafe == Spec => [](TypeOK /\ SafeInv)
  BY InitSafe, NextSafe, PTL DEF Spec

(***************************************************************************)
(* Every variable keeps its type.                                          *)
(***************************************************************************)
THEOREM TypeCorrect == Spec => []TypeOK
  BY AlwaysSafe, PTL

(***************************************************************************)
(* ppRunning is an exclusive claim (claimPostProcess, finishPostProcess,   *)
(* ppEnqueue): a claimed session is in exactly one place, an unclaimed one *)
(* in none, for any number of workers and sessions.                        *)
(***************************************************************************)
THEOREM ClaimIsExclusive == Spec => []ExclusiveClaim
  <1>1. SafeInv => ExclusiveClaim
    BY DEF SafeInv
  <1> QED
    BY <1>1, AlwaysSafe, PTL

(***************************************************************************)
(* kickPostProcess and finishPostProcess leave no packet of an open        *)
(* session without anybody who will look at it.                            *)
(***************************************************************************)
THEOREM NothingForgotten == Spec => []NoStrandedPacket
  <1>1. SafeInv => NoStrandedPacket
    BY DEF SafeInv
  <1> QED
    BY <1>1, AlwaysSafe, PTL

(***************************************************************************)
(* When Close has drained postQueue nothing joins it any more: the output  *)
(* callback looks at die under s.mu.                                       *)
(***************************************************************************)
THEOREM CloseLeavesNothing == Spec => []ClosedStaysEmpty
  <1>1. SafeInv => ClosedStaysEmpty
    BY DEF SafeInv
  <1> QED
    BY <1>1, AlwaysSafe, PTL

(***************************************************************************)
(* Once Close has shut the gate of sendTx no worker is in s.tx for the     *)
(* session.                                                                *)
(***************************************************************************)
THEOREM GateKeepsSendersOut == Spec => []CloseWaitsForSend
  <1>1. SafeInv => CloseWaitsForSend
    BY DEF SafeInv
  <1> QED
    BY <1>1, AlwaysSafe, PTL

-----------------------------------------------------------------------------
(***************************************************************************)
(* The order of datagrams.  Packets leave postQueue in the order of their  *)
(* ids; a batch holds a session's datagrams in that order, no two batches  *)
(* hold datagrams of one session, and all of them follow the ones that     *)
(* have been sent.  The batch that holds them is that of the worker that   *)
(* serves the session, or the session is closed and nobody will ever fill  *)
(* a batch for it again: the exclusive claim is what makes this so.        *)
(***************************************************************************)
Filling == {"pop", "len", "flush", "gate", "tx"}

Fills(w, s) == wk[w].sess = s /\ wk[w].pc \in Filling

Holds(b, s) == \E i \in DOMAIN txqueue[b] : txqueue[b][i].sess = s

Taken(s) == made[s] - Len(postQueue[s])

QueueInv ==
    \A s \in Sessions :
        /\ Taken(s) \in Nat
        /\ \A i \in DOMAIN postQueue[s] :
             postQueue[s][i].sess = s /\ postQueue[s][i].id = Taken(s) + i

TakenInv ==
    \A s \in Sessions :
        /\ \A i \in DOMAIN sent : sent[i].sess = s => sent[i].id <= Taken(s)
        /\ \A b \in Workers : \A i \in DOMAIN txqueue[b] :
             txqueue[b][i].sess = s => txqueue[b][i].id <= Taken(s)

BatchSorted ==
    \A b \in Workers : \A i, j \in DOMAIN txqueue[b] :
        i < j /\ txqueue[b][i].sess = txqueue[b][j].sess => txqueue[b][i].id <= txqueue[b][j].id

SentFirst ==
    \A b \in Workers : \A i \in DOMAIN sent, j \in DOMAIN txqueue[b] :
        sent[i].sess = txqueue[b][j].sess => sent[i].id <= txqueue[b][j].id

OneBatch == \A b, c \in Workers, s \in Sessions : Holds(b, s) /\ Holds(c, s) => b = c

DataInv == /\ QueueInv /\ TakenInv /\ BatchSorted /\ SentFirst /\ OneBatch
           /\ FifoPerSession

HeldInv ==
    \A b \in Workers, s \in Sessions : Holds(b, s) =>
        \/ \E w \in Workers : Fills(w, s) /\ wk[w].b = b
        \/ die[s] /\ \A w \in Workers : ~Fills(w, s)

MoreInv ==
    \A w \in Workers : wk[w].pc = "pop" /\ Holds(wk[w].b, wk[w].sess) =>
        die[wk[w].sess] \/ postQueue[wk[w].sess] # <<>>

DrainInv == \A w \in Workers : wk[w].pc = "drain" => die[wk[w].sess]

ControlInv == HeldInv /\ MoreInv /\ DrainInv

-----------------------------------------------------------------------------
(***************************************************************************)
(* What the steps do to the queues.                                        *)
(***************************************************************************)
LEMMA TypedData ==
    ASSUME TypeOK
    PROVE  /\ \A s \in Sessions : postQueue[s] \in Seq(Packet) /\ made[s] \in Nat
           /\ \A s \in Sessions : Len(postQueue[s]) \in Nat /\ Taken(s) \in Int
           /\ sent \in Seq(Packet) /\ \A b \in Workers : txqueue[b] \in Seq(Packet)
           /\ \A i \in DOMAIN sent : sent[i].id \in Nat /\ sent[i].sess \in Sessions
           /\ \A b \in Workers : \A i \in DOMAIN txqueue[b] :
                txqueue[b][i].id \in Nat /\ txqueue[b][i].sess \in Sessions
  <1>1. /\ \A s \in Sessions : postQueue[s] \in Seq(Packet) /\ made[s] \in Nat
        /\ sent \in Seq(Packet) /\ \A b \in Workers : txqueue[b] \in Seq(Packet)
    BY DEF TypeOK
  <1>2. ASSUME NEW q \in Seq(Packet)
        PROVE  Len(q) \in Nat /\ \A i \in DOMAIN q : q[i].id \in Nat /\ q[i].sess \in Sessions
    <2>1. Len(q) \in Nat /\ \A i \in DOMAIN q : q[i] \in Packet
      OBVIOUS
    <2> QED
      BY <2>1 DEF Packet
  <1>3. \A s \in Sessions : Len(postQueue[s]) \in Nat /\ Taken(s) \in Int
    BY <1>1, <1>2 DEF Taken
  <1> QED
    BY <1>1, <1>2, <1>3

LEMMA HeadTail ==
    ASSUME NEW q \in Seq(Packet), q # <<>>
    PROVE  /\ Len(Tail(q)) = Len(q) - 1 /\ Head(q) = q[1] /\ 1 \in DOMAIN q
           /\ \A i \in DOMAIN Tail(q) : i \in Nat /\ i + 1 \in DOMAIN q /\ Tail(q)[i] = q[i + 1]
  OBVIOUS

(***************************************************************************)
(* A packet leaves a queue.                                                *)
(***************************************************************************)
LEMMA PacketLeaves ==
    ASSUME TypeOK, TypeOK', QueueInv, NEW s \in Sessions, postQueue[s] # <<>>,
           postQueue' = [postQueue EXCEPT ![s] = Tail(@)], UNCHANGED made
    PROVE  /\ QueueInv' /\ \A t \in Sessions : Taken(t) <= Taken(t)'
           /\ \A t \in Sessions : t # s => postQueue'[t] = postQueue[t]
           /\ Taken(s)' = Taken(s) + 1
           /\ Head(postQueue[s]).sess = s /\ Head(postQueue[s]).id = Taken(s) + 1
  <1>1. /\ postQueue'[s] = Tail(postQueue[s])
        /\ \A t \in Sessions : t # s => postQueue'[t] = postQueue[t]
    BY DEF TypeOK
  <1>2. /\ postQueue[s] \in Seq(Packet) /\ Len(postQueue[s]) \in Nat /\ made[s] \in Nat
        /\ \A t \in Sessions : Taken(t) \in Int
    BY TypedData
  <1>3. /\ Len(Tail(postQueue[s])) = Len(postQueue[s]) - 1
        /\ Head(postQueue[s]) = postQueue[s][1] /\ 1 \in DOMAIN postQueue[s]
        /\ \A i \in DOMAIN Tail(postQueue[s]) :
             i \in Nat /\ i + 1 \in DOMAIN postQueue[s] /\ Tail(postQueue[s])[i] = postQueue[s][i + 1]
    BY <1>2, HeadTail
  <1>4. Taken(s)' = Taken(s) + 1 /\ \A t \in Sessions : t # s => Taken(t)' = Taken(t)
    <2>1. Len(postQueue'[s]) = Len(postQueue[s]) - 1
      BY <1>1, <1>3
    <2>2. made[s] - (Len(postQueue[s]) - 1) = (made[s] - Len(postQueue[s])) + 1
      BY <1>2
    <2>3. Taken(s)' = Taken(s) + 1
      BY <2>1, <2>2 DEF Taken
    <2>4. \A t \in Sessions : t # s => Taken(t)' = Taken(t)
      BY <1>1 DEF Taken
    <2> QED
      BY <2>3, <2>4
  <1>5. \A t \in Sessions : Taken(t) <= Taken(t)'
    BY <1>2, <1>4
  <1>6. QueueInv'
    <2> SUFFICES ASSUME NEW t \in Sessions
                 PROVE  /\ Taken(t)' \in Nat
                        /\ \A i \in DOMAIN postQueue'[t] :
                             postQueue'[t][i].sess = t /\ postQueue'[t][i].id = Taken(t)' + i
      BY DEF QueueInv
    <2>1. CASE t = s
      <3>1. Taken(s)' \in Nat
        BY <1>4 DEF QueueInv
      <3>2. ASSUME NEW i \in DOMAIN postQueue'[s]
            PROVE  postQueue'[s][i].sess = s /\ postQueue'[s][i].id = Taken(s)' + i
        <4>1. i \in Nat /\ i + 1 \in DOMAIN postQueue[s] /\ postQueue'[s][i] = postQueue[s][i + 1]
          BY <1>1, <1>3, <3>2
        <4>2. postQueue[s][i + 1].sess = s /\ postQueue[s][i + 1].id = Taken(s) + (i + 1)
          BY <4>1 DEF QueueInv
        <4>3. Taken(s) + (i + 1) = Taken(s)' + i
          BY <1>2, <1>4, <4>1
        <4> QED
          BY <4>1, <4>2, <4>3
      <3> QED
        BY <2>1, <3>1, <3>2
    <2>2. CASE t # s
      BY <1>1, <1>4, <2>2 DEF QueueInv
    <2> QED
      BY <2>1, <2>2
  <1>7. Head(postQueue[s]).sess = s /\ Head(postQueue[s]).id = Taken(s) + 1
    BY <1>3 DEF QueueInv
  <1> QED
    BY <1>1, <1>4, <1>5, <1>6, <1>7

(***************************************************************************)
(* A packet joins a queue.                                                 *)
(***************************************************************************)
LEMMA PacketJoins ==
    ASSUME TypeOK, QueueInv, NEW s \in Sessions, Output(s)
    PROVE  QueueInv' /\ \A t \in Sessions : Taken(t) <= Taken(t)'
  <1> DEFINE p == [sess |-> s, id |-> made[s] + 1]
             q == postQueue[s]
  <1>1. /\ made'[s] = made[s] + 1 /\ postQueue'[s] = Append(q, p)
        /\ \A t \in Sessions : t # s => made'[t] = made[t] /\ postQueue'[t] = postQueue[t]
    BY DEF Output, TypeOK
  <1>2. q \in Seq(Packet) /\ Len(q) \in Nat /\ made[s] \in Nat /\ \A t \in Sessions : Taken(t) \in Int
    BY TypedData
  <1>3. p \in Packet /\ p.sess = s /\ p.id = made[s] + 1
    BY <1>2 DEF Packet
  <1> HIDE DEF p
  <1>4. /\ Len(Append(q, p)) = Len(q) + 1
        /\ \A i \in DOMAIN Append(q, p) :
             \/ i \in DOMAIN q /\ Append(q, p)[i] = q[i]
             \/ i = Len(q) + 1 /\ Append(q, p)[i] = p
    BY <1>2, <1>3, AppendProperties
  <1>5. \A t \in Sessions : Taken(t)' = Taken(t)
    <2>1. Len(postQueue'[s]) = Len(q) + 1
      BY <1>1, <1>4
    <2>2. (made[s] + 1) - (Len(q) + 1) = made[s] - Len(q)
      BY <1>2
    <2>3. Taken(s)' = Taken(s)
      BY <1>1, <2>1, <2>2 DEF Taken
    <2>4. \A t \in Sessions : t # s => Taken(t)' = Taken(t)
      BY <1>1 DEF Taken
    <2> QED
      BY <2>3, <2>4
  <1>6. QueueInv'
    <2> SUFFICES ASSUME NEW t \in Sessions
                 PROVE  /\ Taken(t)' \in Nat
                        /\ \A i \in DOMAIN postQueue'[t] :
                             postQueue'[t][i].sess = t /\ postQueue'[t][i].id = Taken(t)' + i
      BY DEF QueueInv
    <2>1. Taken(t)' \in Nat
      BY <1>5 DEF QueueInv
    <2>2. CASE t = s
      <3> SUFFICES ASSUME NEW i \in DOMAIN Append(q, p)
                   PROVE  Append(q, p)[i].sess = s /\ Append(q, p)[i].id = Taken(s) + i
        BY <1>1, <1>5, <2>1, <2>2
      <3>1. CASE i \in DOMAIN q /\ Append(q, p)[i] = q[i]
        BY <3>1 DEF QueueInv
      <3>2. CASE i = Len(q) + 1 /\ Append(q, p)[i] = p
        <4>1. Taken(s) + i = made[s] + 1
          BY <1>2, <3>2 DEF Taken
        <4> QED
          BY <1>3, <3>2, <4>1
      <3> QED
        BY <1>4, <3>1, <3>2
    <2>3. CASE t # s
      BY <1>1, <1>5, <2>3 DEF QueueInv
    <2> QED
      BY <2>1, <2>2, <2>3
  <1> QED
    BY <1>2, <1>5, <1>6

-----------------------------------------------------------------------------
(***************************************************************************)
(* What the steps do to the batches and to what has been sent.             *)
(***************************************************************************)
LEMMA DataStays ==
    ASSUME TypeOK, TypeOK', DataInv, QueueInv', \A t \in Sessions : Taken(t) <= Taken(t)',
           UNCHANGED sent,
           \A b \in Workers : txqueue'[b] = txqueue[b] \/ txqueue'[b] = <<>>
    PROVE  DataInv' /\ \A b \in Workers, s \in Sessions : Holds(b, s)' => Holds(b, s)
  <1>1. \A b \in Workers : \A i \in DOMAIN txqueue'[b] :
           i \in DOMAIN txqueue[b] /\ txqueue'[b][i] = txqueue[b][i]
    OBVIOUS
  <1>2. \A b \in Workers, s \in Sessions : Holds(b, s)' => Holds(b, s)
    BY <1>1 DEF Holds
  <1>3. \A t \in Sessions : Taken(t) \in Int /\ Taken(t)' \in Int
    BY TypedData DEF QueueInv
  <1>4. TakenInv'
    <2> SUFFICES ASSUME NEW s \in Sessions
                 PROVE  /\ \A i \in DOMAIN sent' : sent'[i].sess = s => sent'[i].id <= Taken(s)'
                        /\ \A b \in Workers : \A i \in DOMAIN txqueue'[b] :
                             txqueue'[b][i].sess = s => txqueue'[b][i].id <= Taken(s)'
      BY DEF TakenInv
    <2>1. \A n \in Nat : n <= Taken(s) => n <= Taken(s)'
      BY <1>3
    <2> QED
      BY <1>1, <2>1, TypedData DEF DataInv, TakenInv
  <1>5. BatchSorted'
    BY <1>1 DEF DataInv, BatchSorted
  <1>6. SentFirst'
    BY <1>1 DEF DataInv, SentFirst
  <1>7. OneBatch'
    BY <1>2 DEF DataInv, OneBatch
  <1>8. FifoPerSession'
    BY DEF DataInv, FifoPerSession
  <1> QED
    BY <1>2, <1>4, <1>5, <1>6, <1>7, <1>8 DEF DataInv

LEMMA ConcatParts ==
    ASSUME NEW q \in Seq(Packet), NEW r \in Seq(Packet)
    PROVE  /\ \A i \in DOMAIN q : i \in DOMAIN (q \o r) /\ (q \o r)[i] = q[i]
           /\ \A i \in DOMAIN (q \o r) :
                \/ i \in DOMAIN q /\ (q \o r)[i] = q[i]
                \/ /\ \A j \in DOMAIN q : j < i
                   /\ i - Len(q) \in DOMAIN r /\ (q \o r)[i] = r[i - Len(q)]
           /\ \A i, j \in DOMAIN (q \o r) : /\ i < j /\ j \in DOMAIN q => i \in DOMAIN q
                                            /\ i < j => i - Len(q) < j - Len(q)
  OBVIOUS

(***************************************************************************)
(* A packet and its extra datagrams join the only batch that may hold      *)
(* datagrams of the session.                                               *)
(***************************************************************************)
LEMMA BatchGrows ==
    ASSUME TypeOK, TypeOK', DataInv, NEW s \in Sessions, NEW b \in Workers, NEW n \in Nat,
           postQueue[s] # <<>>, postQueue' = [postQueue EXCEPT ![s] = Tail(@)],
           txqueue' = [txqueue EXCEPT ![b] = @ \o [i \in 1..n |-> Head(postQueue[s])]],
           UNCHANGED <<made, sent>>, \A c \in Workers : Holds(c, s) => c = b
    PROVE  /\ DataInv'
           /\ \A c \in Workers, t \in Sessions : Holds(c, t)' => Holds(c, t) \/ (c = b /\ t = s)
  <1> DEFINE q == txqueue[b]
             r == [i \in 1..n |-> Head(postQueue[s])]
  <1>1. /\ QueueInv' /\ \A t \in Sessions : Taken(t) <= Taken(t)'
        /\ Taken(s)' = Taken(s) + 1
        /\ Head(postQueue[s]).sess = s /\ Head(postQueue[s]).id = Taken(s) + 1
    BY PacketLeaves DEF DataInv
  <1>2. /\ \A t \in Sessions : Taken(t) \in Nat
        /\ \A i \in DOMAIN sent : sent[i].id \in Nat /\ sent[i].sess \in Sessions
        /\ \A c \in Workers : \A i \in DOMAIN txqueue[c] :
             txqueue[c][i].id \in Nat /\ txqueue[c][i].sess \in Sessions
        /\ q \in Seq(Packet)
    BY TypedData DEF DataInv, QueueInv
  <1>3. r \in Seq(Packet) /\ \A i \in DOMAIN r : r[i].sess = s /\ r[i].id = Taken(s) + 1
    <2>1. Head(postQueue[s]) \in Packet
      BY StepPackets
    <2> QED
      BY <1>1, <2>1
  <1>4. txqueue'[b] = q \o r /\ \A c \in Workers : c # b => txqueue'[c] = txqueue[c]
    BY DEF TypeOK
  <1> HIDE DEF q, r
  <1>5. \A i \in DOMAIN txqueue'[b] :
          \/ i \in DOMAIN q /\ txqueue'[b][i] = q[i]
          \/ /\ \A j \in DOMAIN q : j < i
             /\ txqueue'[b][i].sess = s /\ txqueue'[b][i].id = Taken(s) + 1
    <2>1. \A i \in DOMAIN (q \o r) :
             \/ i \in DOMAIN q /\ (q \o r)[i] = q[i]
             \/ /\ \A j \in DOMAIN q : j < i
                /\ i - Len(q) \in DOMAIN r /\ (q \o r)[i] = r[i - Len(q)]
      BY <1>2, <1>3, ConcatParts
    <2> SUFFICES ASSUME NEW i \in DOMAIN (q \o r)
                 PROVE  \/ i \in DOMAIN q /\ (q \o r)[i] = q[i]
                        \/ /\ \A j \in DOMAIN q : j < i
                           /\ (q \o r)[i].sess = s /\ (q \o r)[i].id = Taken(s) + 1
      BY <1>4
    <2>2. i - Len(q) \in DOMAIN r /\ (q \o r)[i] = r[i - Len(q)] =>
            (q \o r)[i].sess = s /\ (q \o r)[i].id = Taken(s) + 1
      BY <1>3
    <2> QED
      BY <2>1, <2>2
  <1>6. \A c \in Workers, t \in Sessions : Holds(c, t)' => Holds(c, t) \/ (c = b /\ t = s)
    BY <1>4, <1>5 DEF Holds, q
  <1>7. OneBatch'
    <2> SUFFICES ASSUME NEW c \in Workers, NEW d \in Workers, NEW t \in Sessions,
                        Holds(c, t)', Holds(d, t)'
                 PROVE  c = d
      BY DEF OneBatch
    <2> QED
      BY <1>6 DEF DataInv, OneBatch
  <1>8. \A t \in Sessions : Taken(t)' \in Nat /\ \A m \in Nat : m <= Taken(t) => m <= Taken(t)'
    BY <1>1, <1>2 DEF QueueInv
  <1>9. TakenInv'
    <2> SUFFICES ASSUME NEW t \in Sessions
                 PROVE  /\ \A i \in DOMAIN sent' : sent'[i].sess = t => sent'[i].id <= Taken(t)'
                        /\ \A c \in Workers : \A i \in DOMAIN txqueue'[c] :
                             txqueue'[c][i].sess = t => txqueue'[c][i].id <= Taken(t)'
      BY DEF TakenInv
    <2>1. \A i \in DOMAIN sent' : sent'[i].sess = t => sent'[i].id <= Taken(t)'
      BY <1>2, <1>8 DEF DataInv, TakenInv
    <2>2. ASSUME NEW c \in Workers, NEW i \in DOMAIN txqueue'[c], txqueue'[c][i].sess = t
          PROVE  txqueue'[c][i].id <= Taken(t)'
      <3>1. CASE i \in DOMAIN txqueue[c] /\ txqueue'[c][i] = txqueue[c][i]
        BY <1>2, <1>8, <2>2, <3>1 DEF DataInv, TakenInv
      <3>2. CASE txqueue'[c][i].sess = s /\ txqueue'[c][i].id = Taken(s) + 1
        BY <1>1, <1>8, <2>2, <3>2
      <3> QED
        BY <1>4, <1>5, <2>2, <3>1, <3>2 DEF q
    <2> QED
      BY <2>1, <2>2
  <1>10. \A m \in Nat : m <= Taken(s) => m <= Taken(s) + 1
    BY <1>2
  <1>11. BatchSorted'
    <2> SUFFICES ASSUME NEW c \in Workers, NEW i \in DOMAIN txqueue'[c], NEW j \in DOMAIN txqueue'[c],
                        i < j, txqueue'[c][i].sess = txqueue'[c][j].sess
                 PROVE  txqueue'[c][i].id <= txqueue'[c][j].id
      BY DEF BatchSorted
    <2>1. CASE c # b
      BY <1>4, <2>1 DEF DataInv, BatchSorted
    <2>2. CASE c = b /\ j \in DOMAIN q /\ txqueue'[b][j] = q[j]
      <3>1. i \in DOMAIN q /\ txqueue'[b][i] = q[i]
        <4>1. /\ \A k, l \in DOMAIN (q \o r) : k < l /\ l \in DOMAIN q => k \in DOMAIN q
              /\ \A k \in DOMAIN q : (q \o r)[k] = q[k]
          BY <1>2, <1>3, ConcatParts
        <4> QED
          BY <1>4, <2>2, <4>1
      <3> QED
        BY <2>2, <3>1 DEF DataInv, BatchSorted, q
    <2>3. CASE c = b /\ txqueue'[b][j].sess = s /\ txqueue'[b][j].id = Taken(s) + 1
      <3>1. CASE i \in DOMAIN q /\ txqueue'[b][i] = q[i]
        BY <1>2, <1>10, <2>3, <3>1 DEF DataInv, TakenInv, q
      <3>2. CASE txqueue'[b][i].id = Taken(s) + 1
        BY <1>2, <2>3, <3>2
      <3> QED
        BY <1>5, <2>3, <3>1, <3>2
    <2> QED
      BY <1>5, <2>1, <2>2, <2>3
  <1>12. SentFirst'
    <2> SUFFICES ASSUME NEW c \in Workers, NEW i \in DOMAIN sent, NEW j \in DOMAIN txqueue'[c],
                        sent[i].sess = txqueue'[c][j].sess
                 PROVE  sent[i].id <= txqueue'[c][j].id
      BY DEF SentFirst
    <2>1. CASE j \in DOMAIN txqueue[c] /\ txqueue'[c][j] = txqueue[c][j]
      BY <2>1 DEF DataInv, SentFirst
    <2>2. CASE txqueue'[c][j].sess = s /\ txqueue'[c][j].id = Taken(s) + 1
      BY <1>2, <1>10, <2>2 DEF DataInv, TakenInv
    <2> QED
      BY <1>4, <1>5, <2>1, <2>2 DEF q
  <1>13. FifoPerSession'
    BY DEF DataInv, FifoPerSession
  <1> QED
    BY <1>1, <1>6, <1>7, <1>9, <1>11, <1>12, <1>13 DEF DataInv

(***************************************************************************)
(* A batch is sent.                                                        *)
(***************************************************************************)
LEMMA BatchLeaves ==
    ASSUME TypeOK, TypeOK', DataInv, NEW b \in Workers, sent' = sent \o txqueue[b],
           txqueue' = [txqueue EXCEPT ![b] = <<>>], UNCHANGED <<postQueue, made>>
    PROVE  DataInv' /\ \A c \in Workers, t \in Sessions : Holds(c, t)' => Holds(c, t) /\ c # b
  <1> DEFINE q == txqueue[b]
  <1>1. txqueue'[b] = <<>> /\ \A c \in Workers : c # b => txqueue'[c] = txqueue[c]
    BY DEF TypeOK
  <1>2. sent \in Seq(Packet) /\ q \in Seq(Packet) /\ sent' \in Seq(Packet)
        /\ \A c \in Workers : \A i \in DOMAIN txqueue[c] : txqueue[c][i].sess \in Sessions
    BY TypedData DEF TypeOK
  <1>3. /\ \A i \in DOMAIN sent' :
             \/ i \in DOMAIN sent /\ sent'[i] = sent[i]
             \/ /\ \A j \in DOMAIN sent : j < i
                /\ i - Len(sent) \in DOMAIN q /\ sent'[i] = q[i - Len(sent)]
        /\ \A i, j \in DOMAIN sent' : /\ i < j /\ j \in DOMAIN sent => i \in DOMAIN sent
                                      /\ i < j => i - Len(sent) < j - Len(sent)
    BY <1>2, ConcatParts
  <1>4. \A i \in DOMAIN sent' :
             \/ i \in DOMAIN sent /\ sent'[i] = sent[i]
             \/ \E k \in DOMAIN q : sent'[i] = q[k]
    BY <1>3
  <1>5. \A t \in Sessions : Taken(t)' = Taken(t)
    BY DEF Taken
  <1>6. QueueInv'
    BY <1>5 DEF DataInv, QueueInv
  <1>7. TakenInv'
    <2> SUFFICES ASSUME NEW t \in Sessions
                 PROVE  /\ \A i \in DOMAIN sent' : sent'[i].sess = t => sent'[i].id <= Taken(t)
                        /\ \A c \in Workers : \A i \in DOMAIN txqueue'[c] :
                             txqueue'[c][i].sess = t => txqueue'[c][i].id <= Taken(t)
      BY <1>5 DEF TakenInv
    <2> QED
      BY <1>1, <1>4 DEF DataInv, TakenInv
  <1>8. BatchSorted'
    BY <1>1 DEF DataInv, BatchSorted
  <1>9. \A c \in Workers, t \in Sessions : Holds(c, t)' => Holds(c, t) /\ c # b
    BY <1>1 DEF Holds
  <1>10. OneBatch'
    BY <1>9 DEF DataInv, OneBatch
  <1>11. SentFirst'
    <2> SUFFICES ASSUME NEW c \in Workers, NEW i \in DOMAIN sent', NEW j \in DOMAIN txqueue'[c],
                        sent'[i].sess = txqueue'[c][j].sess
                 PROVE  sent'[i].id <= txqueue'[c][j].id
      BY DEF SentFirst
    <2>1. c # b /\ txqueue'[c] = txqueue[c] /\ txqueue[c][j].sess \in Sessions
      BY <1>1, <1>2
    <2>2. CASE i \in DOMAIN sent /\ sent'[i] = sent[i]
      BY <2>1, <2>2 DEF DataInv, SentFirst
    <2>3. ASSUME NEW k \in DOMAIN q, sent'[i] = q[k] PROVE FALSE
      <3>1. PICK t \in Sessions : t = txqueue[c][j].sess
        BY <2>1
      <3>2. Holds(c, t) /\ Holds(b, t)
        BY <2>1, <2>3, <3>1 DEF Holds
      <3> QED
        BY <2>1, <3>2 DEF DataInv, OneBatch
    <2> QED
      BY <1>4, <2>2, <2>3
  <1>12. FifoPerSession'
    <2> SUFFICES ASSUME NEW i \in DOMAIN sent', NEW j \in DOMAIN sent', i < j,
                        sent'[i].sess = sent'[j].sess
                 PROVE  sent'[i].id <= sent'[j].id
      BY DEF FifoPerSession
    <2>1. CASE j \in DOMAIN sent /\ sent'[j] = sent[j]
      <3>1. i \in DOMAIN sent /\ sent'[i] = sent[i]
        BY <1>3, <2>1
      <3> QED
        BY <2>1, <3>1 DEF DataInv, FifoPerSession
    <2>2. CASE j - Len(sent) \in DOMAIN q /\ sent'[j] = q[j - Len(sent)]
      <3>1. CASE i \in DOMAIN sent /\ sent'[i] = sent[i]
        BY <2>2, <3>1 DEF DataInv, SentFirst
      <3>2. CASE i - Len(sent) \in DOMAIN q /\ sent'[i] = q[i - Len(sent)]
        <4>1. i - Len(sent) < j - Len(sent)
          BY <1>3
        <4> QED
          BY <2>2, <3>2, <4>1 DEF DataInv, BatchSorted
      <3> QED
        BY <1>3, <3>1, <3>2
    <2> QED
      BY <1>3, <2>1, <2>2
  <1> QED
    BY <1>6, <1>7, <1>8, <1>9, <1>10, <1>11, <1>12 DEF DataInv

-----------------------------------------------------------------------------
(***************************************************************************)
(* What the steps do to the workers that fill batches.                     *)
(***************************************************************************)
FifoInv == DataInv /\ ControlInv

Touching == Filling \cup {"drain"}

(***************************************************************************)
(* No worker begins or ends to fill a batch or to drain a queue.           *)
(***************************************************************************)
NobodyTurns ==
    \A v \in Workers :
        \/ wk'[v].pc = wk[v].pc /\ wk'[v].sess = wk[v].sess /\ wk'[v].b = wk[v].b
        \/ wk'[v].pc \notin Touching /\ wk[v].pc \notin Touching

LEMMA AsideTurns ==
    ASSUME NEW w \in Workers, NEW pc, NEW s, Moves(w, pc, s),
           pc \notin Touching, wk[w].pc \notin Touching
    PROVE  NobodyTurns
  BY DEF NobodyTurns, Moves

LEMMA QuietFifo ==
    ASSUME TypeOK, TypeOK', SafeInv, FifoInv, NobodyTurns, UNCHANGED <<txqueue, sent>>,
           QueueInv', \A t \in Sessions : Taken(t) <= Taken(t)',
           \A t \in Sessions : die[t] => die'[t],
           \A t \in Sessions : postQueue'[t] = <<>> => postQueue[t] = <<>> \/ die'[t]
    PROVE  FifoInv'
  <1>1. DataInv' /\ \A b \in Workers, s \in Sessions : Holds(b, s)' => Holds(b, s)
    BY DataStays DEF FifoInv
  <1>2. \A v \in Workers, t \in Sessions :
          /\ Fills(v, t)' <=> Fills(v, t)
          /\ Fills(v, t) => wk'[v].b = wk[v].b
    BY DEF NobodyTurns, Fills, Touching
  <1>3. HeldInv'
    BY <1>1, <1>2 DEF FifoInv, ControlInv, HeldInv
  <1>4. MoreInv'
    <2> SUFFICES ASSUME NEW v \in Workers, wk'[v].pc = "pop", Holds(wk[v].b, wk[v].sess)'
                 PROVE  die'[wk'[v].sess] \/ postQueue'[wk'[v].sess] # <<>>
      BY DEF MoreInv, Holds
    <2>1. wk[v].pc = "pop" /\ wk'[v].sess = wk[v].sess /\ wk'[v].b = wk[v].b
      BY DEF NobodyTurns, Touching, Filling
    <2>2. wk[v].b \in Workers /\ wk[v].sess \in Sessions
      BY <2>1 DEF SafeInv, WorkersInv, Serving
    <2>3. Holds(wk[v].b, wk[v].sess)
      BY <2>1 DEF Holds
    <2>4. die[wk[v].sess] \/ postQueue[wk[v].sess] # <<>>
      BY <2>1, <2>3 DEF FifoInv, ControlInv, MoreInv
    <2> QED
      BY <2>1, <2>2, <2>4
  <1>5. DrainInv'
    <2> SUFFICES ASSUME NEW v \in Workers, wk'[v].pc = "drain"
                 PROVE  die'[wk'[v].sess]
      BY DEF DrainInv
    <2>1. wk[v].pc = "drain" /\ wk'[v].sess = wk[v].sess
      BY DEF NobodyTurns, Touching
    <2>2. wk[v].sess \in Sessions
      BY <2>1 DEF SafeInv, WorkersInv, Finishing
    <2> QED
      BY <2>1, <2>2 DEF FifoInv, ControlInv, DrainInv
  <1> QED
    BY <1>1, <1>3, <1>4, <1>5 DEF FifoInv, ControlInv

LEMMA ControlStep ==
    ASSUME TypeOK, SafeInv, ControlInv, NEW w \in Workers, NEW pc, NEW s,
           Moves(w, pc, s), UNCHANGED die, s = wk[w].sess \/ pc = "take",
           wk[w].pc \in Serving \cup Finishing,
           \A b \in Workers, t \in Sessions : Holds(b, t)' =>
               Holds(b, t) \/ (b = wk[w].b /\ t = wk[w].sess /\ pc \in Filling),
           wk[w].pc \in Filling /\ pc \notin Filling /\ ~die[wk[w].sess] =>
               \A i \in DOMAIN txqueue'[wk[w].b] : txqueue'[wk[w].b][i].sess # wk[w].sess,
           pc \in Filling => wk[w].pc \in Serving,
           pc \in Filling /\ wk[w].pc \notin Filling => ~die[wk[w].sess],
           pc = "pop" => \/ die[wk[w].sess] \/ postQueue'[wk[w].sess] # <<>>
                         \/ \A i \in DOMAIN txqueue'[wk[w].b] : txqueue'[wk[w].b][i].sess # wk[w].sess,
           \A t \in Sessions : \/ postQueue'[t] = postQueue[t] \/ die[t]
                               \/ t = wk[w].sess /\ wk[w].pc \in Serving,
           pc = "drain" => die[wk[w].sess]
    PROVE  ControlInv'
  <1>1. PICK c \in Workers : c = wk[w].b
    BY DEF SafeInv, WorkersInv, Serving, Finishing
  <1>2. PICK x \in Sessions : x = wk[w].sess
    BY DEF SafeInv, WorkersInv
  <1>3. /\ wk'[w].pc = pc /\ wk'[w].b = c /\ (pc # "take" => wk'[w].sess = x)
        /\ \A v \in Workers : v # w => wk'[v] = wk[v]
    BY <1>1, <1>2 DEF Moves
  <1>4. /\ \A v \in Workers, t \in Sessions : v # w => (Fills(v, t)' <=> Fills(v, t))
        /\ \A t \in Sessions : Fills(w, t)' <=> t = x /\ pc \in Filling
        /\ \A t \in Sessions : Fills(w, t) <=> t = x /\ wk[w].pc \in Filling
    BY <1>2, <1>3 DEF Fills, Filling
  <1>5. \A v \in Workers : v # w /\ wk[w].pc \in Serving => ~Serves(v, x)
    BY <1>2 DEF SafeInv, ExclusiveClaim, Serves
  <1>6. \A v \in Workers, t \in Sessions : Fills(v, t) => Serves(v, t)
    BY DEF Fills, Serves, Filling, Serving
  <1>7. HeldInv'
    <2> SUFFICES ASSUME NEW b \in Workers, NEW t \in Sessions, Holds(b, t)'
                 PROVE  \/ \E v \in Workers : Fills(v, t)' /\ wk'[v].b = b
                        \/ die[t] /\ \A v \in Workers : ~Fills(v, t)'
      BY DEF HeldInv
    <2>1. CASE b = c /\ t = x /\ pc \in Filling
      BY <1>3, <1>4, <2>1
    <2>2. CASE Holds(b, t) /\ ~(b = c /\ t = x /\ pc \in Filling)
      <3>1. ASSUME NEW v \in Workers, Fills(v, t), wk[v].b = b, v # w
            PROVE  \E u \in Workers : Fills(u, t)' /\ wk'[u].b = b
        BY <1>3, <1>4, <3>1
      <3>2. CASE Fills(w, t) /\ wk[w].b = b
        <4>1. t = x /\ b = c /\ wk[w].pc \in Filling /\ pc \notin Filling
          BY <1>1, <1>4, <2>2, <3>2
        <4>2. die[t]
          BY <1>1, <1>2, <4>1 DEF Holds
        <4>3. \A v \in Workers : ~Fills(v, t)'
          BY <1>4, <1>5, <1>6, <4>1 DEF Filling, Serving
        <4> QED
          BY <4>2, <4>3
      <3>3. CASE die[t] /\ \A v \in Workers : ~Fills(v, t)
        <4>1. ~Fills(w, t)'
          BY <1>2, <1>4, <3>3
        <4> QED
          BY <1>4, <3>3, <4>1
      <3> QED
        BY <2>2, <3>1, <3>2, <3>3 DEF ControlInv, HeldInv
    <2> QED
      BY <1>1, <1>2, <2>1, <2>2
  <1>8. MoreInv'
    <2> SUFFICES ASSUME NEW v \in Workers, wk'[v].pc = "pop", Holds(wk[v].b, wk[v].sess)'
                 PROVE  die[wk'[v].sess] \/ postQueue'[wk'[v].sess] # <<>>
      BY DEF MoreInv
    <2>1. wk'[v].b \in Workers /\ wk'[v].sess \in Sessions
      BY <1>1, <1>2, <1>3 DEF SafeInv, WorkersInv, Serving
    <2>2. PICK b \in Workers, t \in Sessions : b = wk'[v].b /\ t = wk'[v].sess
      BY <2>1
    <2>3. Holds(b, t)'
      BY <2>2 DEF Holds
    <2> SUFFICES die[t] \/ postQueue'[t] # <<>>
      BY <2>2
    <2>4. CASE v = w
      BY <1>1, <1>2, <1>3, <2>4, <2>2, <2>3 DEF Holds
    <2>5. CASE v # w
      <3>1. wk[v].pc = "pop" /\ wk[v].b = b /\ wk[v].sess = t
        BY <1>3, <2>5, <2>2
      <3>2. Serves(v, t)
        BY <3>1 DEF Serves, Serving
      <3>3. Holds(b, t) \/ (t = x /\ wk[w].pc \in Serving)
        BY <1>2, <2>3
      <3>4. ~(t = x /\ wk[w].pc \in Serving)
        BY <1>5, <2>5, <3>2
      <3>5. die[t] \/ postQueue[t] # <<>>
        BY <3>1, <3>3, <3>4 DEF ControlInv, MoreInv
      <3> QED
        BY <1>2, <3>4, <3>5
    <2> QED
      BY <2>4, <2>5
  <1>9. DrainInv'
    BY <1>2, <1>3 DEF ControlInv, DrainInv
  <1> QED
    BY <1>7, <1>8, <1>9 DEF ControlInv

-----------------------------------------------------------------------------
(***************************************************************************)
(* The steps that touch neither queues nor batches nor die.                *)
(***************************************************************************)
LEMMA SameData ==
    ASSUME TypeOK, TypeOK', SafeInv, FifoInv, NobodyTurns,
           UNCHANGED <<postQueue, made, die, txqueue, sent>>
    PROVE  FifoInv'
  <1>1. \A t \in Sessions : Taken(t)' = Taken(t) /\ Taken(t) \in Int
    BY TypedData DEF Taken
  <1>2. \A t \in Sessions : Taken(t) <= Taken(t)'
    BY <1>1
  <1>3. QueueInv'
    BY <1>1 DEF FifoInv, DataInv, QueueInv
  <1> QED
    BY <1>2, <1>3, QuietFifo

LEMMA IdleFifo ==
    ASSUME TypeOK, TypeOK', SafeInv, FifoInv, NEW w \in Workers,
           StartWorker(w) \/ Take(w) \/ RestLeft(w) \/ ReleaseClaim(w) \/ Relen(w)
           \/ Reclaim(w) \/ Requeue(w) \/ SignalRequeued(w)
    PROVE  FifoInv'
  <1> USE DEF Touching, Filling
  <1>1. wk \in [Workers -> WorkerState] /\ wk[w].pc \notin Touching
    BY DEF TypeOK, StartWorker, Take, RestLeft, ReleaseClaim, Relen, Reclaim, Requeue,
           SignalRequeued, At
  <1>2. UNCHANGED <<postQueue, made, die, txqueue, sent>>
    BY DEF StartWorker, Take, RestLeft, ReleaseClaim, Relen, Reclaim, Requeue, SignalRequeued
  <1>3. CASE StartWorker(w)
    <2>1. \E b \in Workers : wk' = [wk EXCEPT ![w] = Worker(b, "take")]
      BY <1>3 DEF StartWorker
    <2>2. wk'[w].pc = "take" /\ \A v \in Workers : v # w => wk'[v] = wk[v]
      BY <1>1, <2>1 DEF Worker
    <2>3. NobodyTurns
      BY <1>1, <2>2 DEF NobodyTurns
    <2> QED
      BY <1>2, <2>3, SameData
  <1>4. CASE Take(w)
    <2>1. CASE Goto(w, "wait")
      BY <1>1, <1>2, <2>1, GotoMoves, AsideTurns, SameData DEF Places
    <2>2. CASE wk' = [wk EXCEPT ![w].pc = "check", ![w].sess = Head(ppQueue)]
      <3>1. wk'[w].pc = "check" /\ \A v \in Workers : v # w => wk'[v] = wk[v]
        BY <1>1, <2>2 DEF WorkerState
      <3>2. NobodyTurns
        BY <1>1, <3>1 DEF NobodyTurns
      <3> QED
        BY <1>2, <3>2, SameData
    <2> QED
      BY <1>4, <2>1, <2>2 DEF Take
  <1>5. CASE \E pc \in {"enqueue", "finish", "recheck", "reclaim", "signal"} : Goto(w, pc)
    <2>1. PICK pc \in {"enqueue", "finish", "recheck", "reclaim", "signal"} : Goto(w, pc)
      BY <1>5
    <2>2. pc \in Places /\ pc \notin Touching
      BY DEF Places, Serving, Finishing
    <2>3. NobodyTurns
      BY <1>1, <2>1, <2>2, GotoMoves, AsideTurns
    <2> QED
      BY <1>2, <2>3, SameData
  <1>6. CASE Loop(w)
    <2>1. NobodyTurns
      BY <1>1, <1>6, LoopMoves, AsideTurns
    <2> QED
      BY <1>2, <2>1, SameData
  <1>7. CASE SignalRequeued(w)
    <2> DEFINE r == Worker(wk[w].b, "take")
               f == [wk EXCEPT ![w] = r]
    <2>1. wk' \in Woken(f)
      BY <1>7 DEF SignalRequeued
    <2>2. r \in WorkerState /\ r.pc = "take"
      <3>1. wk[w].b \in Workers \cup {None} /\ "take" \in Places
        BY <1>1, WorkerFields DEF Places
      <3> QED
        BY <3>1, NewRound
    <2> HIDE DEF r
    <2>3. f \in [Workers -> WorkerState] /\ f[w] = r /\ \A v \in Workers : v # w => f[v] = wk[v]
      BY <1>1, <2>2
    <2> HIDE DEF f
    <2>4. \A v \in Workers : /\ wk'[v].b = f[v].b /\ wk'[v].sess = f[v].sess
                             /\ \/ wk'[v].pc = f[v].pc
                                \/ f[v].pc = "wait" /\ wk'[v].pc = "take"
      BY <2>1, <2>3, WokenMoves
    <2>5. NobodyTurns
      BY <1>1, <2>2, <2>3, <2>4 DEF NobodyTurns
    <2> QED
      BY <1>2, <2>5, SameData
  <1> QED
    BY <1>3, <1>4, <1>5, <1>6, <1>7 DEF RestLeft, ReleaseClaim, Relen, Reclaim, Requeue

LEMMA ProducerFifo ==
    ASSUME TypeOK, TypeOK', SafeInv, FifoInv, NEW s \in Sessions, Output(s) \/ Producer(s)
    PROVE  FifoInv'
  <1>1. CASE Output(s)
    <2>1. QueueInv' /\ \A t \in Sessions : Taken(t) <= Taken(t)'
      BY <1>1, PacketJoins DEF FifoInv, DataInv
    <2>2. NobodyTurns /\ UNCHANGED <<txqueue, sent, die>>
      BY <1>1 DEF Output, NobodyTurns
    <2>3. \A t \in Sessions : postQueue'[t] = <<>> => postQueue[t] = <<>>
      <3>1. /\ postQueue'[s] = Append(postQueue[s], [sess |-> s, id |-> made[s] + 1])
            /\ \A t \in Sessions : t # s => postQueue'[t] = postQueue[t]
        BY <1>1 DEF Output, TypeOK
      <3>2. postQueue[s] \in Seq(Packet)
        BY DEF TypeOK
      <3>3. postQueue'[s] # <<>>
        BY <3>1, <3>2
      <3> QED
        BY <3>1, <3>3
    <2> QED
      BY <2>1, <2>2, <2>3, QuietFifo
  <1>2. CASE kickPostProcess(s) \/ EnqueueKicked(s)
    <2>1. NobodyTurns /\ UNCHANGED <<postQueue, made, die, txqueue, sent>>
      BY <1>2 DEF kickPostProcess, EnqueueKicked, NobodyTurns
    <2> QED
      BY <2>1, SameData
  <1>3. CASE SignalKicked(s)
    <2>1. wk \in [Workers -> WorkerState] /\ wk' \in Woken(wk)
          /\ UNCHANGED <<postQueue, made, die, txqueue, sent>>
      BY <1>3 DEF SignalKicked, TypeOK
    <2>2. NobodyTurns
      BY <2>1, WokenMoves DEF NobodyTurns, Touching, Filling
    <2> QED
      BY <2>1, <2>2, SameData
  <1> QED
    BY <1>1, <1>2, <1>3 DEF Producer

(***************************************************************************)
(* The queue of a closed session is drained, by Close or by a worker.      *)
(***************************************************************************)
LEMMA DrainFifo ==
    ASSUME TypeOK, TypeOK', SafeInv, FifoInv, NobodyTurns, NEW s \in Sessions, die[s],
           postQueue[s] # <<>>, postQueue' = [postQueue EXCEPT ![s] = Tail(@)],
           UNCHANGED <<made, die, txqueue, sent>>
    PROVE  FifoInv'
  <1>1. /\ QueueInv' /\ \A t \in Sessions : Taken(t) <= Taken(t)'
        /\ \A t \in Sessions : t # s => postQueue'[t] = postQueue[t]
    BY PacketLeaves DEF FifoInv, DataInv
  <1> QED
    BY <1>1, QuietFifo

LEMMA CloseFifo ==
    ASSUME TypeOK, TypeOK', SafeInv, FifoInv, NEW s \in Sessions, CloseDie(s) \/ Closing(s)
    PROVE  FifoInv'
  <1>1. NobodyTurns
    BY DEF CloseDie, Closing, CloseGate, CloseDrain, NobodyTurns
  <1>2. CASE CloseDie(s)
    <2>1. /\ UNCHANGED <<postQueue, made, txqueue, sent>>
          /\ \A t \in Sessions : die[t] => die'[t]
      BY <1>2 DEF CloseDie, TypeOK
    <2>2. \A t \in Sessions : Taken(t)' = Taken(t) /\ Taken(t) \in Int
      BY <2>1, TypedData DEF Taken
    <2>3. \A t \in Sessions : Taken(t) <= Taken(t)'
      BY <2>2
    <2>4. QueueInv'
      BY <2>1, <2>2 DEF FifoInv, DataInv, QueueInv
    <2> QED
      BY <1>1, <2>1, <2>3, <2>4, QuietFifo
  <1>3. CASE UNCHANGED <<postQueue, made, die, txqueue, sent>>
    BY <1>1, <1>3, SameData
  <1>4. CASE /\ closer[s] = "drain" /\ postQueue[s] # <<>>
             /\ postQueue' = [postQueue EXCEPT ![s] = Tail(@)]
             /\ UNCHANGED <<made, die, txqueue, sent>>
    <2>1. die[s]
      BY <1>4 DEF SafeInv, CloseInv
    <2> QED
      BY <1>1, <1>4, <2>1, DrainFifo
  <1> QED
    BY <1>2, <1>3, <1>4 DEF Closing, CloseGate, CloseDrain

(***************************************************************************)
(* The steps of a worker with a batch.                                     *)
(***************************************************************************)
LEMMA LookFifo ==
    ASSUME TypeOK, TypeOK', SafeInv, FifoInv, NEW w \in Workers,
           CheckClosed(w) \/ BatchDone(w) \/ BudgetDone(w) \/ Recheck(w)
    PROVE  FifoInv'
  <1> USE DEF Places, Serving, Finishing, Filling
  <1>1. /\ UNCHANGED <<postQueue, made, die, txqueue, sent>> /\ wk \in [Workers -> WorkerState]
        /\ wk[w].pc \in {"check", "len", "pop", "recheck"}
    BY DEF TypeOK, CheckClosed, BatchDone, BudgetDone, Recheck, At
  <1>2. wk[w].b \in Workers /\ wk[w].sess \in Sessions
    BY <1>1 DEF SafeInv, WorkersInv
  <1>3. DataInv' /\ \A b \in Workers, t \in Sessions : Holds(b, t)' => Holds(b, t)
    <2>1. \A t \in Sessions : Taken(t)' = Taken(t) /\ Taken(t) \in Int
      BY <1>1, TypedData DEF Taken
    <2>2. \A t \in Sessions : Taken(t) <= Taken(t)'
      BY <2>1
    <2>3. QueueInv'
      BY <1>1, <2>1 DEF FifoInv, DataInv, QueueInv
    <2> QED
      BY <1>1, <2>2, <2>3, DataStays DEF FifoInv
  <1>4. CASE CheckClosed(w)
    <2>1. PICK pc \in {"finish", "pop"} : /\ Moves(w, pc, wk[w].sess) /\ wk[w].pc = "check"
                                          /\ pc = "pop" => ~die[wk[w].sess]
      BY <1>1, <1>4, CountMoves, Constants DEF CheckClosed, At
    <2>2. pc = "pop" => \A i \in DOMAIN txqueue[wk[w].b] : txqueue[wk[w].b][i].sess # wk[w].sess
      <3>1. \A v \in Workers : ~Fills(v, wk[w].sess)
        BY <1>2, <2>1 DEF SafeInv, ExclusiveClaim, Serves, Fills
      <3> QED
        BY <1>2, <2>1, <3>1 DEF FifoInv, ControlInv, HeldInv, Holds
    <2>3. ControlInv'
      BY <1>1, <1>3, <2>1, <2>2, ControlStep DEF FifoInv
    <2> QED
      BY <1>3, <2>3 DEF FifoInv
  <1>5. CASE BatchDone(w)
    <2>1. PICK pc \in {"flush", "pop"} : /\ Moves(w, pc, wk[w].sess) /\ wk[w].pc = "len"
                                         /\ pc = "pop" => postQueue[wk[w].sess] # <<>>
      BY <1>1, <1>5, RetMoves DEF BatchDone, At
    <2>2. ControlInv'
      BY <1>1, <1>3, <2>1, ControlStep DEF FifoInv
    <2> QED
      BY <1>3, <2>2 DEF FifoInv
  <1>6. CASE BudgetDone(w)
    <2>1. PICK pc \in {"flush", "rest"} : /\ Moves(w, pc, wk[w].sess) /\ wk[w].pc = "pop"
                                          /\ pc = "rest" => txqueue[wk[w].b] = <<>>
      BY <1>1, <1>6, RetMoves DEF BudgetDone, At
    <2>2. pc = "rest" => \A i \in DOMAIN txqueue[wk[w].b] : txqueue[wk[w].b][i].sess # wk[w].sess
      BY <2>1
    <2>3. ControlInv'
      BY <1>1, <1>3, <2>1, <2>2, ControlStep DEF FifoInv
    <2> QED
      BY <1>3, <2>3 DEF FifoInv
  <1>7. CASE Recheck(w)
    <2>1. PICK pc \in {"drain", "relen"} : /\ Moves(w, pc, wk[w].sess) /\ wk[w].pc = "recheck"
                                           /\ pc = "drain" => die[wk[w].sess]
      BY <1>1, <1>7, GotoMoves DEF Recheck, At
    <2>2. ControlInv'
      BY <1>1, <1>3, <2>1, ControlStep DEF FifoInv
    <2> QED
      BY <1>3, <2>2 DEF FifoInv
  <1> QED
    BY <1>4, <1>5, <1>6, <1>7

LEMMA PopFifo ==
    ASSUME TypeOK, TypeOK', SafeInv, FifoInv, NEW w \in Workers, PopPacket(w)
    PROVE  FifoInv'
  <1> USE DEF Places, Serving, Finishing, Filling
  <1>1. /\ UNCHANGED <<made, die, sent>> /\ wk \in [Workers -> WorkerState] /\ wk[w].pc = "pop"
        /\ wk[w].n \in Nat /\ wk[w].n > 0
    BY WorkerFields DEF TypeOK, PopPacket, At, BudgetLeft
  <1>2. PICK b \in Workers, s \in Sessions : b = wk[w].b /\ s = wk[w].sess
    BY <1>1 DEF SafeInv, WorkersInv
  <1>3. CASE postQueue[s] = <<>> /\ Goto(w, "finish") /\ UNCHANGED <<postQueue, txqueue>>
    <2>1. Moves(w, "finish", s)
      BY <1>1, <1>2, <1>3, GotoMoves
    <2>2. \A t \in Sessions : Taken(t)' = Taken(t) /\ Taken(t) \in Int
      BY <1>1, <1>3, TypedData DEF Taken
    <2>3. \A t \in Sessions : Taken(t) <= Taken(t)'
      BY <2>2
    <2>4. QueueInv'
      BY <1>1, <1>3, <2>2 DEF FifoInv, DataInv, QueueInv
    <2>5. DataInv' /\ \A c \in Workers, t \in Sessions : Holds(c, t)' => Holds(c, t)
      BY <1>1, <1>3, <2>3, <2>4, DataStays DEF FifoInv
    <2>6. ~die[s] => \A i \in DOMAIN txqueue[b] : txqueue[b][i].sess # s
      BY <1>1, <1>2, <1>3 DEF FifoInv, ControlInv, MoreInv, Holds
    <2>7. ControlInv'
      BY <1>1, <1>2, <1>3, <2>1, <2>5, <2>6, ControlStep DEF FifoInv
    <2> QED
      BY <2>5, <2>7 DEF FifoInv
  <1>4. ASSUME postQueue[wk[w].sess] # <<>>, NEW x \in Extras,
               txqueue' = [txqueue EXCEPT
                   ![wk[w].b] = @ \o [i \in 1..(x + 1) |-> Head(postQueue[wk[w].sess])]],
               postQueue' = [postQueue EXCEPT ![wk[w].sess] = Tail(@)],
               wk' = [wk EXCEPT ![w].pc = "len", ![w].n = @ - 1]
        PROVE  FifoInv'
    <2>1. /\ postQueue[s] # <<>> /\ postQueue' = [postQueue EXCEPT ![s] = Tail(@)]
          /\ txqueue' = [txqueue EXCEPT ![b] = @ \o [i \in 1..(x + 1) |-> Head(postQueue[s])]]
      BY <1>2, <1>4
    <2>2. Moves(w, "len", s)
      <3>1. wk' = [wk EXCEPT ![w].pc = "len", ![w].n = wk[w].n - 1] /\ wk[w].n - 1 \in Nat
        BY <1>1, <1>4
      <3> QED
        BY <1>1, <1>2, <3>1, CountMoves
    <2>3. \A c \in Workers : Holds(c, s) => c = b
      <3>1. Fills(w, s) /\ \A v \in Workers : Fills(v, s) => v = w
        BY <1>1, <1>2 DEF SafeInv, ExclusiveClaim, Serves, Fills
      <3> QED
        BY <1>2, <3>1 DEF FifoInv, ControlInv, HeldInv
    <2>4. x + 1 \in Nat
      BY Constants
    <2>5. /\ DataInv'
          /\ \A c \in Workers, t \in Sessions : Holds(c, t)' => Holds(c, t) \/ (c = b /\ t = s)
      BY <1>1, <2>1, <2>3, <2>4, BatchGrows DEF FifoInv
    <2>6. \A t \in Sessions : t # s => postQueue'[t] = postQueue[t]
      BY <2>1 DEF TypeOK
    <2>7. ControlInv'
      BY <1>1, <1>2, <2>2, <2>5, <2>6, ControlStep DEF FifoInv
    <2> QED
      BY <2>5, <2>7 DEF FifoInv
  <1> QED
    BY <1>2, <1>3, <1>4 DEF PopPacket

LEMMA SendFifo ==
    ASSUME TypeOK, TypeOK', SafeInv, FifoInv, NEW w \in Workers,
           flushTx(w) \/ EnterSendTx(w) \/ Transmit(w)
    PROVE  FifoInv'
  <1> USE DEF Places, Serving, Finishing, Filling
  <1>1. /\ UNCHANGED <<postQueue, made, die>> /\ wk \in [Workers -> WorkerState]
        /\ wk[w].pc \in {"flush", "gate", "tx"} /\ wk[w].ret \in {"pop", "rest"}
    BY WorkerFields DEF TypeOK, flushTx, EnterSendTx, Transmit, At
  <1>2. PICK b \in Workers, s \in Sessions : b = wk[w].b /\ s = wk[w].sess
    BY <1>1 DEF SafeInv, WorkersInv
  <1>3. \A t \in Sessions : Taken(t)' = Taken(t) /\ Taken(t) \in Int
    BY <1>1, TypedData DEF Taken
  <1>4. QueueInv' /\ \A t \in Sessions : Taken(t) <= Taken(t)'
    BY <1>1, <1>3 DEF FifoInv, DataInv, QueueInv
  <1>5. CASE /\ \E pc \in {"gate", "tx"} : Goto(w, pc)
             /\ UNCHANGED <<txqueue, sent>>
    <2>1. PICK pc \in {"gate", "tx"} : Moves(w, pc, s)
      BY <1>1, <1>2, <1>5, GotoMoves
    <2>2. DataInv' /\ \A c \in Workers, t \in Sessions : Holds(c, t)' => Holds(c, t)
      BY <1>4, <1>5, DataStays DEF FifoInv
    <2>3. ControlInv'
      BY <1>1, <1>2, <2>1, <2>2, ControlStep DEF FifoInv
    <2> QED
      BY <2>2, <2>3 DEF FifoInv
  <1>6. CASE /\ \E pc \in {"enqueue", "pop", "rest"} : Goto(w, pc)
             /\ txqueue' = [txqueue EXCEPT ![b] = <<>>]
             /\ sent' = sent \/ sent' = sent \o txqueue[b]
    <2>1. PICK pc \in {"enqueue", "pop", "rest"} : Moves(w, pc, s)
      BY <1>1, <1>2, <1>6, GotoMoves
    <2>2. txqueue'[b] = <<>> /\ \A c \in Workers : c # b => txqueue'[c] = txqueue[c]
      BY <1>6 DEF TypeOK
    <2>3. DataInv' /\ \A c \in Workers, t \in Sessions : Holds(c, t)' => Holds(c, t)
      <3>1. CASE sent' = sent
        BY <1>4, <2>2, <3>1, DataStays DEF FifoInv
      <3>2. CASE sent' = sent \o txqueue[b]
        BY <1>1, <1>6, <3>2, BatchLeaves DEF FifoInv
      <3> QED
        BY <1>6, <3>1, <3>2
    <2>4. \A i \in DOMAIN txqueue'[b] : txqueue'[b][i].sess # s
      BY <2>2
    <2>5. ControlInv'
      BY <1>1, <1>2, <2>1, <2>3, <2>4, ControlStep DEF FifoInv
    <2> QED
      BY <2>3, <2>5 DEF FifoInv
  <1> QED
    BY <1>1, <1>2, <1>5, <1>6 DEF flushTx, EnterSendTx, Transmit

LEMMA DiscardFifo ==
    ASSUME TypeOK, TypeOK', SafeInv, FifoInv, NEW w \in Workers, DiscardFinished(w)
    PROVE  FifoInv'
  <1> USE DEF Places, Serving, Finishing, Filling
  <1>1. /\ UNCHANGED <<made, die, txqueue, sent>> /\ wk \in [Workers -> WorkerState]
        /\ wk[w].pc = "drain"
    BY DEF TypeOK, DiscardFinished, At
  <1>2. PICK s \in Sessions : s = wk[w].sess
    BY <1>1 DEF SafeInv, WorkersInv
  <1>3. die[s]
    BY <1>1, <1>2 DEF FifoInv, ControlInv, DrainInv
  <1>4. CASE Loop(w) /\ UNCHANGED postQueue
    <2>1. Moves(w, "take", None)
      BY <1>1, <1>4, LoopMoves
    <2>2. \A t \in Sessions : Taken(t)' = Taken(t) /\ Taken(t) \in Int
      BY <1>1, <1>4, TypedData DEF Taken
    <2>3. \A t \in Sessions : Taken(t) <= Taken(t)'
      BY <2>2
    <2>4. QueueInv'
      BY <1>1, <1>4, <2>2 DEF FifoInv, DataInv, QueueInv
    <2>5. DataInv' /\ \A c \in Workers, t \in Sessions : Holds(c, t)' => Holds(c, t)
      BY <1>1, <2>3, <2>4, DataStays DEF FifoInv
    <2>6. ControlInv'
      BY <1>1, <1>4, <2>1, <2>5, ControlStep DEF FifoInv
    <2> QED
      BY <2>5, <2>6 DEF FifoInv
  <1>5. CASE postQueue[s] # <<>> /\ postQueue' = [postQueue EXCEPT ![s] = Tail(@)] /\ UNCHANGED wk
    <2>1. NobodyTurns
      BY <1>5 DEF NobodyTurns
    <2> QED
      BY <1>1, <1>3, <1>5, <2>1, DrainFifo
  <1> QED
    BY <1>2, <1>4, <1>5 DEF DiscardFinished

LEMMA NextFifo ==
    TypeOK /\ TypeOK' /\ SafeInv /\ FifoInv /\ [Next]_vars => FifoInv'
  <1> SUFFICES ASSUME TypeOK, TypeOK', SafeInv, FifoInv, [Next]_vars PROVE FifoInv'
    OBVIOUS
  <1>1. CASE UNCHANGED vars
    <2>1. NobodyTurns /\ UNCHANGED <<postQueue, made, die, txqueue, sent>>
      BY <1>1 DEF vars, NobodyTurns
    <2> QED
      BY <2>1, SameData
  <1>2. ASSUME NEW s \in Sessions, Output(s) \/ Producer(s) \/ CloseDie(s) \/ Closing(s)
        PROVE  FifoInv'
    BY <1>2, ProducerFifo, CloseFifo
  <1>3. ASSUME NEW w \in Workers, postProcessWorker(w)
        PROVE  FifoInv'
    BY <1>3, IdleFifo, LookFifo, PopFifo, SendFifo, DiscardFifo
       DEF postProcessWorker, postProcess, finishPostProcess
  <1> QED
    BY <1>1, <1>2, <1>3 DEF Next

LEMMA InitFifo == Init => FifoInv
  <1> SUFFICES ASSUME Init PROVE FifoInv
    OBVIOUS
  <1>1. /\ sent = <<>> /\ \A b \in Workers : txqueue[b] = <<>>
        /\ \A s \in Sessions : postQueue[s] = <<>> /\ made[s] = 0
        /\ \A w \in Workers : wk[w].pc \in {"start", "take"}
    BY DEF Init, Worker
  <1>2. QueueInv
    BY <1>1 DEF QueueInv, Taken
  <1>3. TakenInv /\ BatchSorted /\ SentFirst /\ OneBatch /\ FifoPerSession
    BY <1>1 DEF TakenInv, BatchSorted, SentFirst, OneBatch, Holds, FifoPerSession
  <1>4. ControlInv
    BY <1>1 DEF ControlInv, HeldInv, MoreInv, DrainInv, Holds
  <1> QED
    BY <1>2, <1>3, <1>4 DEF FifoInv, DataInv

(***************************************************************************)
(* The datagrams of a session leave in the order in which its KCP made     *)
(* them (postProcess, flushTx, sendTx), whichever workers serve it and     *)
(* whatever budget and batch size cut its packets into batches.            *)
(***************************************************************************)
THEOREM OrderIsKept == Spec => []FifoPerSession
  <1>1. FifoInv => FifoPerSession
    BY DEF FifoInv, DataInv
  <1> QED
    BY <1>1, InitFifo, NextFifo, AlwaysSafe, PTL DEF Spec
=============================================================================
