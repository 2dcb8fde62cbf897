----------------------------- MODULE TimedSched -----------------------------
(***************************************************************************)
(* One shard of the timed scheduler (timedsched.go), which drives the      *)
(* update of every session: a goroutine that sleeps until the earliest     *)
(* task is due, and callers of Put that wake it when they bring an earlier *)
(* one.  The shards of a TimedSched are independent of each other.         *)
(*                                                                         *)
(* The heap of tasks is a set here (TimedFuncHeap shows that it pops the   *)
(* earliest).  Time is a natural number, and may pass between any two      *)
(* steps, also while the shard goroutine holds its lock.                   *)
(***************************************************************************)
EXTENDS Integers, Sequences, FiniteSets

CONSTANTS MaxPuts,  \* bound on the calls of Put
          MaxTime,  \* bound on deadlines, and on the clock (see Tick)
          Slack,    \* schedSlack
          None      \* the zero time, no timer

ASSUME BoundsAssumption == {MaxPuts, MaxTime, Slack} \subseteq Nat
ASSUME NoneAssumption == None \notin Int

VARIABLES now,     \* the clock
          tasks,   \* sh.tasks
          armed,   \* sh.armed: the deadline the shard sleeps until, or None
          wake,    \* a token is in the channel sh.wake
          puts,    \* number of calls of Put
          wakers,  \* the calls of Put that are about to send to sh.wake
          pc,      \* where the shard goroutine is
          wait,    \* the duration it is about to arm its timer with, or None
          timer,   \* when its timer fires, or None
          due,     \* tasks it has popped and is going to run
          ran,     \* history: tasks it has run
          die      \* Close has been called

vars == <<now, tasks, armed, wake, puts, wakers, pc, wait, timer, due, ran, die>>

Task == [id : 1..MaxPuts, ts : Nat]

Init == /\ now = 0 /\ tasks = {} /\ armed = None /\ wake = FALSE
        /\ puts = 0 /\ wakers = {}
        /\ pc = "collect" /\ wait = None /\ timer = None
        /\ due = <<>> /\ ran = {} /\ die = FALSE

(***************************************************************************)
(* f is the head of the heap.                                              *)
(***************************************************************************)
IsHead(f, ts) == f \in ts /\ \A g \in ts : f.ts <= g.ts

-----------------------------------------------------------------------------
(***************************************************************************)
(* Put: a task joins the heap under the shard's lock, which the shard      *)
(* holds while it arms.  The shard is woken only for a new earliest task   *)
(* that is due before it wakes up by itself.                               *)
(***************************************************************************)
\* variant: a shard without a deadline is taken to be awake
Sooner_ArmedOnly(f) == IsHead(f, tasks \cup {f}) /\ armed # None /\ f.ts < armed

Sooner(f) == /\ IsHead(f, tasks \cup {f})
             /\ armed = None \/ f.ts < armed

Put(ts) ==
    LET f == [id |-> puts + 1, ts |-> ts]
    IN  /\ pc # "arm"
        /\ puts < MaxPuts
        /\ puts' = puts + 1
        /\ tasks' = tasks \cup {f}
        /\ wakers' = IF Sooner(f) THEN wakers \cup {f.id} ELSE wakers
        /\ UNCHANGED <<now, armed, wake, pc, wait, timer, due, ran, die>>

(***************************************************************************)
(* The end of Put, after the lock: the token is dropped if one is there.   *)
(***************************************************************************)
SendWake(i) ==
    /\ i \in wakers
    /\ wakers' = wakers \ {i}
    /\ wake' = TRUE
    /\ UNCHANGED <<now, tasks, armed, puts, pc, wait, timer, due, ran, die>>

Close ==
    /\ ~die
    /\ die' = TRUE
    /\ UNCHANGED <<now, tasks, armed, wake, puts, wakers, pc, wait, timer, due,
                   ran>>

-----------------------------------------------------------------------------
(***************************************************************************)
(* The loop of run.                                                        *)
(***************************************************************************)

(***************************************************************************)
(* The tasks that run at this wakeup: those due within the slack.          *)
(***************************************************************************)
\* variant: the slack is counted twice
Ripe_Twice == {f \in tasks : f.ts <= now + 2 * Slack}

Ripe == {f \in tasks : f.ts <= now + Slack}

(***************************************************************************)
(* The tasks of S in the order pop returns them: by deadline, in any order *)
(* among equals.                                                           *)
(***************************************************************************)
InOrder(S) ==
    {s \in [1..Cardinality(S) -> S] :
        \A i, j \in 1..Cardinality(S) :
            i < j => s[i] # s[j] /\ s[i].ts <= s[j].ts}

(***************************************************************************)
(* What is left in the heap.                                               *)
(***************************************************************************)
\* variant: a task that is due now, not early, stays
Collected_Kept == {f \in tasks : f.ts >= now}

Collected == tasks \ Ripe

(***************************************************************************)
(* Under the lock: what is due is popped, and armed is reset.  If nothing  *)
(* is due the goroutine goes on to arm, still under the lock, or sleeps    *)
(* without a timer.                                                        *)
(***************************************************************************)
Collect ==
    /\ pc = "collect"
    /\ due' \in InOrder(Ripe)
    /\ tasks' = Collected
    /\ armed' = None
    /\ pc' = IF Ripe # {} THEN "execute"
             ELSE IF tasks # {} THEN "arm" ELSE "select"
    /\ UNCHANGED <<now, wake, puts, wakers, wait, timer, ran, die>>

(***************************************************************************)
(* The time to sleep is computed later than the check of what is due: the  *)
(* head may be due by now.                                                 *)
(***************************************************************************)
\* variant: no timer for a head that came due meanwhile
Pending_Later(f) == IF f.ts > now THEN f.ts - now ELSE None

Pending(f) == f.ts - now

Armed(f) == f.ts

Arm ==
    /\ pc = "arm"
    /\ \E f \in tasks : /\ IsHead(f, tasks)
                        /\ armed' = Armed(f)
                        /\ wait' = Pending(f)
    /\ pc' = "reset"
    /\ UNCHANGED <<now, tasks, wake, puts, wakers, timer, due, ran, die>>

(***************************************************************************)
(* timer.Reset counts from the moment it is called.                        *)
(***************************************************************************)
ResetTimer ==
    /\ pc = "reset"
    /\ timer' = IF wait = None THEN None
                ELSE IF wait > 0 THEN now + wait ELSE now
    /\ wait' = None
    /\ pc' = "select"
    /\ UNCHANGED <<now, tasks, armed, wake, puts, wakers, due, ran, die>>

(***************************************************************************)
(* A task runs, outside the lock; it may call Put.                         *)
(***************************************************************************)
Execute ==
    /\ pc = "execute"
    /\ ran' = ran \cup {Head(due)}
    /\ due' = Tail(due)
    /\ pc' = IF Len(due) = 1 THEN "collect" ELSE "execute"
    /\ UNCHANGED <<now, tasks, armed, wake, puts, wakers, wait, timer, die>>

(***************************************************************************)
(* The three cases of the select.                                          *)
(***************************************************************************)
Fire ==
    /\ pc = "select"
    /\ timer # None /\ timer <= now
    /\ timer' = None
    /\ pc' = "collect"
    /\ UNCHANGED <<now, tasks, armed, wake, puts, wakers, wait, due, ran, die>>

WakeUp ==
    /\ pc = "select" /\ wake
    /\ wake' = FALSE
    /\ timer' = None
    /\ pc' = "collect"
    /\ UNCHANGED <<now, tasks, armed, puts, wakers, wait, due, ran, die>>

Stop ==
    /\ pc = "select" /\ die
    /\ timer' = None
    /\ pc' = "stopped"
    /\ UNCHANGED <<now, tasks, armed, wake, puts, wakers, wait, due, ran, die>>

-----------------------------------------------------------------------------
(***************************************************************************)
(* Time passes.  The model's clock stops at MaxTime, when every deadline   *)
(* has passed, unless a timer is still to fire.                            *)
(***************************************************************************)
Tick ==
    /\ now < MaxTime \/ (timer # None /\ now < timer)
    /\ now' = now + 1
    /\ UNCHANGED <<tasks, armed, wake, puts, wakers, pc, wait, timer, due, ran,
                   die>>

run == \/ Collect \/ Arm \/ ResetTimer \/ Execute
       \/ Fire \/ WakeUp \/ Stop

Next == \/ \E ts \in 0..MaxTime : Put(ts)
        \/ \E i \in 1..MaxPuts : SendWake(i)
        \/ Close
        \/ run
        \/ Tick

Spec == Init /\ [][Next]_vars

-----------------------------------------------------------------------------
(***************************************************************************)
(* Properties.                                                             *)
(***************************************************************************)
TypeOK ==
    /\ now \in Nat
    /\ tasks \in SUBSET Task
    /\ armed \in Nat \cup {None}
    /\ wake \in BOOLEAN
    /\ puts \in 0..MaxPuts
    /\ wakers \subseteq 1..MaxPuts
    /\ pc \in {"collect", "arm", "reset", "execute", "select", "stopped"}
    /\ wait \in Int \cup {None}
    /\ timer \in Nat \cup {None}
    /\ due \in Seq(Task)
    /\ ran \in SUBSET Task
    /\ die \in BOOLEAN

(***************************************************************************)
(* A shard that sleeps, or is about to, with tasks in its heap is going to *)
(* wake up for the earliest: its deadline is not later, or a token is on   *)
(* its way ("Without a timer no Put could wake the shard for it", run).    *)
(***************************************************************************)
NoLostWakeup ==
    /\ pc \in {"reset", "select"} /\ tasks # {} =>
         \/ wake
         \/ wakers # {}
         \/ armed # None /\ \A f \in tasks : armed <= f.ts
    /\ pc = "select" /\ armed # None => timer # None

(***************************************************************************)
(* Every task put is at one place only: waiting, about to run, or run.     *)
(* None is lost and none runs twice, though the shard pops, runs and sleeps*)
(* outside its lock.                                                       *)
(***************************************************************************)
EachTaskOnce ==
    LET queued == {f.id : f \in tasks}
        taken == {due[i].id : i \in DOMAIN due}
        done == {f.id : f \in ran}
    IN  /\ queued \cup taken \cup done = 1..puts
        /\ Cardinality(tasks) + Len(due) + Cardinality(ran) = puts

(***************************************************************************)
(* No task runs earlier than schedSlack before its deadline ("schedSlack   *)
(* is how early a task may run").                                          *)
(***************************************************************************)
NeverEarly == [][\A f \in ran' \ ran : f.ts <= now + Slack]_vars

(***************************************************************************)
(* The shard goroutine and the callers of Put are scheduled, and time      *)
(* passes.                                                                 *)
(***************************************************************************)
Fairness == /\ WF_vars(run)
            /\ \A i \in 1..MaxPuts : WF_vars(SendWake(i))
            /\ WF_vars(Tick)

FairSpec == Spec /\ Fairness

(***************************************************************************)
(* Every task put is run, unless the scheduler is closed.                  *)
(***************************************************************************)
EveryTaskRuns ==
    \A i \in 1..MaxPuts :
        puts >= i ~> die \/ \E f \in ran : f.id = i
=============================================================================
