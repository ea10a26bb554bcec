------------------------------ MODULE Monitors -------------------------------
(***************************************************************************)
(* A monitor and its mutex, as src/sthread_lib/sthread_user.c implements   *)
(* them for user threads.  Unlike the other operations of that file these  *)
(* run with ticks enabled for most of their length, so each is split where *)
(* a tick matters: around the test-and-set loops, and between the end of   *)
(* the critical section and splx(HIGH).                                    *)
(*                                                                         *)
(* The dispatcher is abstract: a tick may requeue the active thread and    *)
(* resume any runnable one.  The tree of runnable threads is a bag of      *)
(* nodes: a thread preempted on its way to suspend has one already when    *)
(* unlock inserts it again.                                                *)
(***************************************************************************)
EXTENDS Integers, Sequences, FiniteSets, SequencesExt

CONSTANTS
  Threads,
  First,      \* the thread that runs first
  NULL

ASSUME ThreadsAssumption == First \in Threads /\ NULL \notin Threads

VARIABLES
  status,     \* "run" or "crash"
  active,     \* active_thr
  ready,      \* nodes of exe_thr_arvore_rb that hold each thread
  pc,         \* where each thread is, or will be when it is resumed
  waiting,    \* the threads inside sthread_user_monitor_wait
  l, thr, queue,  \* fields of the mutex: spin word, owner, blocked threads
  mqueue      \* the queue of the monitor

mutex == <<l, thr, queue>>
vars == <<status, active, ready, pc, waiting, mutex, mqueue>>

\* Inside the monitor: between the return of enter and the release.
InPcs == {"in", "signalTas", "signalAllTas", "signalMove", "signalAllMove",
          "unlockTas", "unlockTest"}

\* Holding the spin word.
SpinPcs == {"lockTest", "signalMove", "signalAllMove", "unlockTest", "handOver", "unlockClear"}

Pcs == InPcs \cup SpinPcs \cup {"out", "lockTas", "suspend", "blocked"}

-----------------------------------------------------------------------------
(* Helpers *)

\* Where a resumed thread goes on: the two waits of the library return.
Resumed(at) == IF at = "blocked" THEN "in" ELSE at

\* t is made active by a handler that leaves the threads' places as in places.
SwitchTo(t, places) ==
  /\ active' = t
  /\ pc' = [places EXCEPT ![t] = Resumed(@)]

At(t, place) == status = "run" /\ active = t /\ pc[t] = place

Goto(t, place) == pc' = [pc EXCEPT ![t] = place]

\* The end of an unlock: unlock returns, to monitor_wait if it was called there.
AfterUnlock(t) == IF t \in waiting THEN "suspend" ELSE "out"

\* queue_insert
EnqueueFront(q, t) == <<t>> \o q
Enqueue(q, t) == Append(q, t)

\* The tree once RBInserir has added a node for t.
NotRequeued(t) == ready
RequeuedBoth(t) == [u \in Threads |-> IF u \in {t, thr} THEN ready[u] + 1 ELSE ready[u]]
Requeued(t) == [ready EXCEPT ![t] = @ + 1]

\* unlock has nobody to give the mutex to.
DoorNearlyClear == Len(queue) <= 1
DoorClear == queue = <<>>

-----------------------------------------------------------------------------
(* mutex_lock, which is monitor_enter *)

Init ==
  /\ status = "run" /\ active = First
  /\ ready = [t \in Threads |-> IF t = First THEN 0 ELSE 1]
  /\ pc = [t \in Threads |-> "out"] /\ waiting = {}
  /\ l = 0 /\ thr = NULL /\ queue = <<>> /\ mqueue = <<>>

Enter(t) ==
  /\ At(t, "out")
  /\ Goto(t, "lockTas")
  /\ UNCHANGED <<status, active, ready, waiting, mutex, mqueue>>

\* A test-and-set whose loop ends whatever the word was.
TestAndSetLoose(t, from, to) ==
  /\ At(t, from)
  /\ l' = 1
  /\ Goto(t, to)
  /\ UNCHANGED <<status, active, ready, waiting, thr, queue, mqueue>>

\* while (atomic_test_and_set(&lock->l)) {}, when it succeeds; otherwise the
\* thread spins until a tick.
TestAndSet(t, from, to) ==
  /\ At(t, from)
  /\ l = 0
  /\ l' = 1
  /\ Goto(t, to)
  /\ UNCHANGED <<status, active, ready, waiting, thr, queue, mqueue>>

\* The critical section of mutex_lock.
LockTest(t) ==
  /\ At(t, "lockTest")
  /\ l' = 0
  /\ IF thr = NULL
       THEN thr' = t /\ Goto(t, "in") /\ UNCHANGED queue
       ELSE queue' = Enqueue(queue, t) /\ Goto(t, "suspend") /\ UNCHANGED thr
  /\ UNCHANGED <<status, active, ready, waiting, mqueue>>

\* splx(HIGH), extraction of the minimum and switch, in mutex_lock and in
\* monitor_wait; an empty tree gives a null thread, which is dereferenced.
Suspend(t) ==
  /\ At(t, "suspend")
  /\ waiting' = waiting \ {t}
  /\ \/ \E u \in Threads :
          /\ ready[u] > 0
          /\ ready' = [ready EXCEPT ![u] = @ - 1]
          /\ SwitchTo(u, [pc EXCEPT ![t] = "blocked"])
          /\ UNCHANGED status
     \/ /\ \A u \in Threads : ready[u] = 0
        /\ status' = "crash"
        /\ active' = NULL
        /\ Goto(t, "blocked")
        /\ UNCHANGED ready
  /\ UNCHANGED <<mutex, mqueue>>

-----------------------------------------------------------------------------
(* mutex_unlock, which is monitor_exit *)

\* Called outside the monitor, unlock, wait, signal and signalall print a
\* message and return; called inside, the test of the owner passes.
Exit(t) ==
  /\ At(t, "in") /\ thr = t
  /\ Goto(t, "unlockTas")
  /\ UNCHANGED <<status, active, ready, waiting, mutex, mqueue>>

UnlockTest(t) ==
  /\ At(t, "unlockTest")
  /\ IF DoorClear
       THEN thr' = NULL /\ Goto(t, "unlockClear") /\ UNCHANGED queue
       ELSE thr' = Head(queue) /\ queue' = Tail(queue) /\ Goto(t, "handOver")
  /\ UNCHANGED <<status, active, ready, waiting, l, mqueue>>

\* Depending on the virtual times the new owner is resumed in place of t, with
\* the spin word still set, or becomes runnable.
HandOver(t) ==
  /\ At(t, "handOver")
  /\ \/ /\ ready' = Requeued(t)
        /\ SwitchTo(thr, [pc EXCEPT ![t] = "unlockClear"])
     \/ /\ ready' = Requeued(thr)
        /\ Goto(t, "unlockClear")
        /\ UNCHANGED active
  /\ UNCHANGED <<status, waiting, mutex, mqueue>>

UnlockClear(t) ==
  /\ At(t, "unlockClear")
  /\ l' = 0
  /\ Goto(t, AfterUnlock(t))
  /\ UNCHANGED <<status, active, ready, waiting, thr, queue, mqueue>>

-----------------------------------------------------------------------------
(* monitor_wait, monitor_signal, monitor_signalall *)

Wait(t) ==
  /\ At(t, "in") /\ thr = t
  /\ mqueue' = Enqueue(mqueue, t)
  /\ waiting' = waiting \cup {t}
  /\ Goto(t, "unlockTas")
  /\ UNCHANGED <<status, active, ready, mutex>>

Signal(t) ==
  /\ At(t, "in") /\ thr = t
  /\ Goto(t, "signalTas")
  /\ UNCHANGED <<status, active, ready, waiting, mutex, mqueue>>

SignalAll(t) ==
  /\ At(t, "in") /\ thr = t
  /\ Goto(t, "signalAllTas")
  /\ UNCHANGED <<status, active, ready, waiting, mutex, mqueue>>

\* A signal that makes the waiter runnable instead of sending it to the door.
SignalWakes(t) ==
  /\ At(t, "signalMove")
  /\ l' = 0
  /\ IF mqueue = <<>>
       THEN UNCHANGED <<ready, mqueue>>
       ELSE ready' = Requeued(Head(mqueue)) /\ mqueue' = Tail(mqueue)
  /\ Goto(t, "in")
  /\ UNCHANGED <<status, active, waiting, thr, queue>>

SignalMove(t) ==
  /\ At(t, "signalMove")
  /\ l' = 0
  /\ IF mqueue = <<>>
       THEN UNCHANGED <<queue, mqueue>>
       ELSE queue' = Enqueue(queue, Head(mqueue)) /\ mqueue' = Tail(mqueue)
  /\ Goto(t, "in")
  /\ UNCHANGED <<status, active, ready, waiting, thr>>

SignalAllMove(t) ==
  /\ At(t, "signalAllMove")
  /\ l' = 0
  /\ queue' = queue \o mqueue
  /\ mqueue' = <<>>
  /\ Goto(t, "in")
  /\ UNCHANGED <<status, active, ready, waiting, thr>>

-----------------------------------------------------------------------------
(* The dispatcher, and the whole *)

\* A tick that takes the processor from t: t is requeued, and u, which may be t,
\* is resumed.
Preempt(t, u) ==
  /\ status = "run" /\ active = t
  /\ u = t \/ ready[u] > 0
  /\ ready' = [Requeued(t) EXCEPT ![u] = @ - 1]
  /\ SwitchTo(u, pc)
  /\ UNCHANGED <<status, waiting, mutex, mqueue>>

Ended == status # "run" /\ UNCHANGED vars

\* What the active thread does by itself.
Step(t) ==
  \/ Enter(t) \/ TestAndSet(t, "lockTas", "lockTest") \/ LockTest(t) \/ Suspend(t)
  \/ Exit(t) \/ TestAndSet(t, "unlockTas", "unlockTest") \/ UnlockTest(t)
  \/ HandOver(t) \/ UnlockClear(t)
  \/ Wait(t)
  \/ Signal(t) \/ TestAndSet(t, "signalTas", "signalMove") \/ SignalMove(t)
  \/ SignalAll(t) \/ TestAndSet(t, "signalAllTas", "signalAllMove") \/ SignalAllMove(t)

Next ==
  \/ \E t \in Threads : Step(t)
  \/ \E t, u \in Threads : Preempt(t, u)
  \/ Ended

Spec == Init /\ [][Next]_vars

\* Calls that a thread has begun; entering, waiting and signalling are its choice.
Library(t) == Step(t) /\ pc[t] \notin {"out", "in"}

\* A runnable thread is resumed again and again, since the virtual time of the
\* others grows; a thread that is resumed gets something done before the next
\* tick; and the program leaves a monitor it has entered.
FairSpec ==
  /\ Spec
  /\ \A t \in Threads : /\ SF_vars(\E u \in Threads : Preempt(u, t))
                        /\ SF_vars(Library(t))
                        /\ SF_vars(Exit(t) \/ Wait(t))

-----------------------------------------------------------------------------
(* Properties *)

TypeOK ==
  /\ status \in {"run", "crash"} /\ active \in Threads \cup {NULL}
  /\ ready \in [Threads -> 0..2] /\ pc \in [Threads -> Pcs] /\ waiting \subseteq Threads
  /\ l \in {0, 1} /\ thr \in Threads \cup {NULL}
  /\ queue \in Seq(Threads) /\ mqueue \in Seq(Threads)

Inside(t) == pc[t] \in InPcs

\* Whoever runs inside the monitor is its owner, so two never do, though the
\* owner changes hands before the old one is done and threads reach "in" by
\* three ways: a free mutex, a switch of unlock, and the dispatcher.
OwnerInside == \A t \in Threads : Inside(t) => thr = t

Count(t, s) == Cardinality({i \in 1..Len(s) : s[i] = t})

\* A thread that is on a queue, or was given the mutex, before it suspends.
Suspending(t) == pc[t] = "suspend" \/ (t \in waiting /\ pc[t] # "blocked")

\* unlock has given t the mutex and not yet resumed it or made it runnable.
BeingGiven(t) == thr = t /\ \E u \in Threads : pc[u] = "handOver"

\* The resumptions that t has coming, the one it is running on included.
Resumptions(t) ==
  ready[t] + (IF active = t THEN 1 ELSE 0) + (IF BeingGiven(t) THEN 1 ELSE 0)

\* Each thread has exactly as many resumptions coming as it needs: one, and one
\* more while it is on its way to suspend.  Fewer, and its wake-up is lost; more,
\* and a stale node resumes it from a later wait.
OneResumeEach ==
  status = "run" =>
    \A t \in Threads :
      Resumptions(t) + Count(t, queue) + Count(t, mqueue)
      = (IF Suspending(t) THEN 2 ELSE 1)

\* No thread is at the door of a free monitor.
NobodyForgotten == thr = NULL => queue = <<>>

\* The tree is empty when a thread suspends only if all wait for a signal that
\* nobody is left to give: never when a thread blocks in mutex_lock.
CrashMeansAllWait ==
  status = "crash" => thr = NULL /\ {mqueue[i] : i \in 1..Len(mqueue)} = Threads

\* The spin word is set while one thread, and only one, is past its test-and-set.
SpinHeld ==
  /\ l = 1 <=> \E t \in Threads : pc[t] \in SpinPcs
  /\ \A t, u \in Threads : pc[t] \in SpinPcs /\ pc[u] \in SpinPcs => t = u

\* The owner is inside, or was made the owner while it suspended; while unlock
\* hands the mutex over there is one.
OwnerPlace ==
  \A t \in Threads :
    /\ thr = t => Inside(t) \/ pc[t] \in {"suspend", "blocked"}
    /\ pc[t] = "handOver" => thr # NULL

\* monitor_wait, from queue_insert to the switch; while it still owns the
\* monitor the thread is the last on its queue.
WaitersPlace ==
  \A t \in waiting :
    /\ pc[t] \in {"unlockTas", "unlockTest", "handOver", "unlockClear", "suspend"}
    /\ Inside(t) => mqueue # <<>> /\ Last(mqueue) = t

\* t is on one of the two queues: in monitor_wait before it suspends, and from
\* then on until it is the owner.
Awaits(t) ==
  \/ pc[t] \in {"suspend", "blocked"} /\ thr # t
  \/ t \in waiting /\ pc[t] # "suspend"

QueuedOnce ==
  /\ IsInjective(queue) /\ IsInjective(mqueue)
  /\ Range(queue) \cap Range(mqueue) = {}
  /\ \A t \in Threads : Awaits(t) <=> t \in Range(queue) \cup Range(mqueue)

\* A thread runs or is runnable once for itself unless it has suspended, and once
\* for the mutex it was given.
OneClaimEach ==
  status = "run" =>
    \A t \in Threads :
      Resumptions(t) = (IF pc[t] = "blocked" THEN 0 ELSE 1)
                       + (IF pc[t] \in {"suspend", "blocked"} /\ thr = t THEN 1 ELSE 0)

\* What all of these rest on: they are inductive together.
MonitorInv ==
  /\ TypeOK /\ SpinHeld /\ OwnerInside /\ OwnerPlace /\ WaitersPlace
  /\ QueuedOnce /\ OneClaimEach /\ NobodyForgotten /\ CrashMeansAllWait

\* The threads that wait, but for the one that is still leaving the monitor.
Parked == IF mqueue # <<>> /\ Last(mqueue) = thr THEN Front(mqueue) ELSE mqueue

\* The monitor is a Mesa monitor: the steps of wait, in which the thread is on the
\* queue of the monitor while it still owns it, look like one.
Mesa == INSTANCE MesaMonitor WITH owner <- thr, entry <- queue, waiters <- Parked

ImplementsMesa == Mesa!Spec

\* A thread at the door comes in, though it may have been preempted before it
\* suspended and whoever must clear the spin word may be switched out.
EveryoneEnters == \A t \in Threads : Contains(queue, t) ~> thr = t
=============================================================================
