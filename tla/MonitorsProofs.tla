--------------------------- MODULE MonitorsProofs ----------------------------
(***************************************************************************)
(* Proofs about Monitors for any set of threads: mutual exclusion, one     *)
(* resumption for each suspension, nobody left at the door, when a thread  *)
(* suspends with an empty tree, and that a monitor of user threads         *)
(* implements a Mesa monitor.                                              *)
(***************************************************************************)
EXTENDS Monitors, DataFacts

\* Threads hold no NULL, and a thread runs first.
LEMMA ThreadsNotNull == First \in Threads /\ \A t \in Threads : t # NULL
BY ThreadsAssumption

\* On a queue without repetitions a thread is once or not at all.
LEMMA CountOnce ==
  ASSUME NEW s \in Seq(Threads), IsInjective(s), NEW t
  PROVE  Count(t, s) = IF t \in Range(s) THEN 1 ELSE 0
<1>1. {i \in 1 .. Len(s) : s[i] = t} = {i \in DOMAIN s : s[i] = t}
  BY LenProperties
<1>2. CASE t \notin Range(s)
  <2>1. {i \in DOMAIN s : s[i] = t} = {}
    BY <1>2 DEF Range
  <2> QED
    BY <1>1, <1>2, <2>1, FS_EmptySet DEF Count
<1>3. CASE t \in Range(s)
  <2>1. PICK i \in DOMAIN s : {j \in DOMAIN s : s[j] = t} = {i}
    BY <1>3, OneIndex
  <2> QED
    BY <1>1, <1>3, <2>1, FS_Singleton DEF Count
<1> QED
  BY <1>2, <1>3

-----------------------------------------------------------------------------
(* The invariant                                                           *)

\* The first thread runs outside the monitor, which is free.
LEMMA InitMonitor == Init => MonitorInv
<1> SUFFICES ASSUME Init PROVE MonitorInv
  OBVIOUS
<1>1. TypeOK
  <2>1. queue \in Seq(Threads) /\ mqueue \in Seq(Threads)
    BY DEF Init
  <2> QED
    BY <2>1, ThreadsAssumption DEF Init, TypeOK, Pcs
<1>2. SpinHeld /\ OwnerInside /\ OwnerPlace /\ WaitersPlace
  BY ThreadsAssumption DEF Init, SpinHeld, SpinPcs, OwnerInside, Inside, InPcs, OwnerPlace, WaitersPlace
<1>3. QueuedOnce
  <2>1. Range(queue) = {} /\ Range(mqueue) = {} /\ IsInjective(queue) /\ IsInjective(mqueue)
    BY DEF Init, Range, IsInjective
  <2> QED
    BY <2>1 DEF Init, QueuedOnce, Awaits
<1>4. OneClaimEach
  BY ThreadsAssumption DEF Init, OneClaimEach, Resumptions, BeingGiven
<1>5. NobodyForgotten /\ CrashMeansAllWait
  BY DEF Init, NobodyForgotten, CrashMeansAllWait
<1> QED
  BY <1>1, <1>2, <1>3, <1>4, <1>5 DEF MonitorInv

\* Steps on the way to a test-and-set or past it: they change the place of the
\* thread and the spin word.
LEMMA MoveKeeps ==
  ASSUME MonitorInv, NEW t \in Threads, status = "run", NEW to \in Pcs,
         pc' = [pc EXCEPT ![t] = to], l' \in {0, 1},
         UNCHANGED <<status, active, ready, waiting, thr, queue, mqueue>>,
         {pc[t], to} \cap {"suspend", "blocked", "handOver"} = {},
         Inside(t) <=> to \in InPcs,
         t \in waiting => to = "unlockTest"
  PROVE  TypeOK' /\ OwnerInside' /\ OwnerPlace' /\ WaitersPlace' /\ QueuedOnce' /\ OneClaimEach'
         /\ NobodyForgotten' /\ CrashMeansAllWait'
<1> USE DEF MonitorInv
<1>1. TypeOK'
  BY DEF TypeOK
<1>2. \A u \in Threads : (u # t => pc'[u] = pc[u]) /\ (Inside(u)' <=> Inside(u))
  BY DEF TypeOK, Inside
<1>3. OwnerInside' /\ OwnerPlace' /\ WaitersPlace'
  <2>1. OwnerInside'
    BY <1>2 DEF OwnerInside
  <2>2. OwnerPlace'
    BY <1>2 DEF OwnerPlace, TypeOK
  <2>3. WaitersPlace'
    BY <1>2 DEF WaitersPlace, TypeOK
  <2> QED
    BY <2>1, <2>2, <2>3
<1>4. QueuedOnce'
  <2>1. \A u \in Threads : Awaits(u)' <=> Awaits(u)
    BY <1>2 DEF Awaits, TypeOK
  <2> QED
    BY <2>1 DEF QueuedOnce
<1>5. OneClaimEach'
  <2>1. \A u \in Threads : BeingGiven(u)' <=> BeingGiven(u)
    BY <1>2 DEF BeingGiven, TypeOK
  <2>2. \A u \in Threads : Resumptions(u)' = Resumptions(u)
    BY <2>1 DEF Resumptions
  <2> QED
    BY <1>2, <2>2 DEF OneClaimEach, TypeOK
<1>6. NobodyForgotten' /\ CrashMeansAllWait'
  BY DEF NobodyForgotten, CrashMeansAllWait
<1> QED
  BY <1>1, <1>3, <1>4, <1>5, <1>6

\* How a step may pass the spin word on: taken, kept or given back by t.
LEMMA SpinKeeps ==
  ASSUME MonitorInv, NEW t \in Threads,
         \A u \in Threads : u # t => (pc'[u] \in SpinPcs <=> pc[u] \in SpinPcs),
         \/ l = 0 /\ l' = 1 /\ pc'[t] \in SpinPcs
         \/ l' = l /\ (pc'[t] \in SpinPcs <=> pc[t] \in SpinPcs)
         \/ l' = 0 /\ pc[t] \in SpinPcs /\ pc'[t] \notin SpinPcs
  PROVE  SpinHeld'
<1>1. CASE l = 0 /\ l' = 1 /\ pc'[t] \in SpinPcs
  BY <1>1 DEF MonitorInv, SpinHeld
<1>2. CASE l' = l /\ (pc'[t] \in SpinPcs <=> pc[t] \in SpinPcs)
  BY <1>2 DEF MonitorInv, SpinHeld
<1>3. CASE l' = 0 /\ pc[t] \in SpinPcs /\ pc'[t] \notin SpinPcs
  BY <1>3 DEF MonitorInv, SpinHeld
<1> QED
  BY <1>1, <1>2, <1>3

\* Enter, the test-and-set loops, Exit, Signal and SignalAll.
LEMMA MoveStep ==
  ASSUME MonitorInv, NEW t \in Threads,
         \/ Enter(t) \/ Exit(t) \/ Signal(t) \/ SignalAll(t)
         \/ TestAndSet(t, "lockTas", "lockTest") \/ TestAndSet(t, "unlockTas", "unlockTest")
         \/ TestAndSet(t, "signalTas", "signalMove")
         \/ TestAndSet(t, "signalAllTas", "signalAllMove")
  PROVE  MonitorInv'
<1>1. TypeOK /\ WaitersPlace
  BY DEF MonitorInv
<1>2. PICK to \in Pcs :
        /\ pc' = [pc EXCEPT ![t] = to] /\ status = "run"
        /\ \/ l' = l /\ to \notin SpinPcs /\ pc[t] \notin SpinPcs
           \/ l = 0 /\ l' = 1 /\ to \in SpinPcs
        /\ UNCHANGED <<status, active, ready, waiting, thr, queue, mqueue>>
        /\ {pc[t], to} \cap {"suspend", "blocked", "handOver"} = {}
        /\ Inside(t) <=> to \in InPcs
        /\ t \in waiting => to = "unlockTest"
  <2>1. CASE Enter(t)
    BY <1>1, <2>1 DEF Enter, At, Goto, mutex, Pcs, InPcs, SpinPcs, Inside, WaitersPlace
  <2>2. CASE Exit(t)
    BY <1>1, <2>2 DEF Exit, At, Goto, mutex, Pcs, InPcs, SpinPcs, Inside, WaitersPlace
  <2>3. CASE Signal(t)
    BY <1>1, <2>3 DEF Signal, At, Goto, mutex, Pcs, InPcs, SpinPcs, Inside, WaitersPlace
  <2>4. CASE SignalAll(t)
    BY <1>1, <2>4 DEF SignalAll, At, Goto, mutex, Pcs, InPcs, SpinPcs, Inside, WaitersPlace
  <2>5. CASE TestAndSet(t, "lockTas", "lockTest")
    BY <1>1, <2>5 DEF TestAndSet, At, Goto, Pcs, InPcs, SpinPcs, Inside, WaitersPlace
  <2>6. CASE TestAndSet(t, "unlockTas", "unlockTest")
    BY <1>1, <2>6 DEF TestAndSet, At, Goto, Pcs, InPcs, SpinPcs, Inside, WaitersPlace
  <2>7. CASE TestAndSet(t, "signalTas", "signalMove")
    BY <1>1, <2>7 DEF TestAndSet, At, Goto, Pcs, InPcs, SpinPcs, Inside, WaitersPlace
  <2>8. CASE TestAndSet(t, "signalAllTas", "signalAllMove")
    BY <1>1, <2>8 DEF TestAndSet, At, Goto, Pcs, InPcs, SpinPcs, Inside, WaitersPlace
  <2> QED
    BY <2>1, <2>2, <2>3, <2>4, <2>5, <2>6, <2>7, <2>8
<1>3. pc'[t] = to /\ \A u \in Threads : u # t => pc'[u] = pc[u]
  BY <1>1, <1>2 DEF TypeOK
<1>4. SpinHeld'
  BY <1>2, <1>3, SpinKeeps
<1>5. l' \in {0, 1}
  BY <1>1, <1>2 DEF TypeOK
<1> QED
  BY <1>2, <1>4, <1>5, MoveKeeps DEF MonitorInv

\* A thread that meets the door takes the monitor or joins the queue.
LEMMA LockTestStep ==
  ASSUME MonitorInv, NEW t \in Threads, LockTest(t)
  PROVE  MonitorInv'
<1> DEFINE to == IF thr = NULL THEN "in" ELSE "suspend"
<1>1. /\ TypeOK /\ OwnerInside /\ OwnerPlace /\ WaitersPlace /\ QueuedOnce /\ OneClaimEach
      /\ NobodyForgotten /\ SpinHeld
  BY DEF MonitorInv
<1>2. /\ status = "run" /\ active = t /\ pc[t] = "lockTest" /\ l' = 0
      /\ pc' = [pc EXCEPT ![t] = to]
      /\ UNCHANGED <<status, active, ready, waiting, mqueue>>
      /\ thr = NULL => thr' = t /\ queue' = queue
      /\ thr # NULL => thr' = thr /\ queue' = Append(queue, t)
  BY DEF LockTest, At, Goto, Enqueue
<1>3. /\ pc'[t] = to /\ \A u \in Threads : u # t => pc'[u] = pc[u]
      /\ thr # t /\ t \notin waiting /\ t \notin Range(queue) \cup Range(mqueue)
      /\ \A u \in Threads : pc[u] # "handOver" /\ pc'[u] # "handOver"
  <2>1. pc'[t] = to /\ \A u \in Threads : u # t => pc'[u] = pc[u]
    BY <1>1, <1>2 DEF TypeOK
  <2>2. thr # t /\ t \notin waiting
    <3>1. thr # t
      BY <1>1, <1>2 DEF OwnerPlace, Inside, InPcs
    <3>2. t \notin waiting
      BY <1>1, <1>2 DEF WaitersPlace
    <3> QED
      BY <3>1, <3>2
  <2>3. t \notin Range(queue) \cup Range(mqueue)
    BY <1>1, <1>2, <2>2 DEF QueuedOnce, Awaits
  <2>4. \A u \in Threads : pc[u] # "handOver"
    BY <1>1, <1>2 DEF SpinHeld, SpinPcs
  <2> QED
    BY <2>1, <2>2, <2>3, <2>4
<1>4. TypeOK'
  <2>1. to \in Pcs
    BY DEF Pcs, InPcs, SpinPcs
  <2>2. queue' \in Seq(Threads)
    BY <1>1, <1>2, AppendProperties DEF TypeOK
  <2> QED
    BY <1>1, <1>2, <2>1, <2>2 DEF TypeOK
<1>5. SpinHeld'
  BY <1>2, <1>3, SpinKeeps DEF SpinPcs
<1>6. OwnerInside' /\ OwnerPlace'
  BY <1>1, <1>2, <1>3, ThreadsNotNull DEF OwnerInside, OwnerPlace, Inside, InPcs
<1>7. WaitersPlace'
  BY <1>1, <1>2, <1>3 DEF WaitersPlace, Inside, TypeOK
<1>8. QueuedOnce'
  <2>1. CASE thr = NULL
    <3>1. ~Awaits(t) /\ ~Awaits(t)'
      BY <1>2, <1>3, <2>1 DEF Awaits
    <3>2. \A u \in Threads : u # t => (Awaits(u)' <=> Awaits(u))
      BY <1>2, <1>3, <2>1, ThreadsNotNull DEF Awaits
    <3> QED
      BY <1>1, <1>2, <2>1, <3>1, <3>2 DEF QueuedOnce
  <2>2. CASE thr # NULL
    <3>1. \A u \in Threads : Awaits(u)' <=> (Awaits(u) \/ u = t)
      BY <1>1, <1>2, <1>3, <2>2 DEF Awaits
    <3>2. Range(queue') = Range(queue) \cup {t} /\ IsInjective(queue')
      <4>1. queue \in Seq(Threads) /\ IsInjective(queue) /\ t \notin Range(queue)
        BY <1>1, <1>3 DEF TypeOK, QueuedOnce
      <4>2. Range(Append(queue, t)) = Range(queue) \cup {t} /\ IsInjective(Append(queue, t))
        BY <4>1, RangeAppend
      <4> QED
        BY <1>2, <2>2, <4>2
    <3> QED
      BY <1>1, <1>2, <1>3, <3>1, <3>2 DEF QueuedOnce
  <2> QED
    BY <2>1, <2>2
<1>9. OneClaimEach'
  BY <1>1, <1>2, <1>3, ThreadsNotNull DEF OneClaimEach, Resumptions, BeingGiven
<1>10. NobodyForgotten' /\ CrashMeansAllWait'
  BY <1>1, <1>2, ThreadsNotNull DEF NobodyForgotten, CrashMeansAllWait, TypeOK
<1> QED
  BY <1>4, <1>5, <1>6, <1>7, <1>8, <1>9, <1>10 DEF MonitorInv

\* The monitor is left free, or given to the first thread at the door.
LEMMA UnlockTestStep ==
  ASSUME MonitorInv, NEW t \in Threads, UnlockTest(t)
  PROVE  MonitorInv'
<1> DEFINE to == IF queue = <<>> THEN "unlockClear" ELSE "handOver"
<1>1. /\ TypeOK /\ OwnerInside /\ OwnerPlace /\ WaitersPlace /\ QueuedOnce /\ OneClaimEach
      /\ SpinHeld
  BY DEF MonitorInv
<1>2. /\ status = "run" /\ active = t /\ pc[t] = "unlockTest"
      /\ pc' = [pc EXCEPT ![t] = to]
      /\ UNCHANGED <<status, active, ready, waiting, l, mqueue>>
      /\ queue = <<>> => thr' = NULL /\ queue' = queue
      /\ queue # <<>> => thr' = Head(queue) /\ queue' = Tail(queue)
  BY DEF UnlockTest, At, Goto, DoorClear
<1>3. /\ pc'[t] = to /\ \A u \in Threads : u # t => pc'[u] = pc[u]
      /\ thr = t /\ t \notin Range(queue)
      /\ \A u \in Threads : pc[u] \in SpinPcs => u = t
  <2>1. pc'[t] = to /\ \A u \in Threads : u # t => pc'[u] = pc[u]
    BY <1>1, <1>2 DEF TypeOK
  <2>2. thr = t
    BY <1>1, <1>2 DEF OwnerInside, Inside, InPcs
  <2>3. \A u \in Threads : pc[u] \in SpinPcs => u = t
    BY <1>1, <1>2 DEF SpinHeld, SpinPcs
  <2>4. t \notin Range(queue)
    <3>1. CASE t \in waiting
      <4>1. mqueue # <<>> /\ Last(mqueue) = t
        BY <1>1, <1>2, <3>1 DEF WaitersPlace, Inside, InPcs
      <4>2. t \in Range(mqueue)
        BY <1>1, <4>1, FrontLast DEF TypeOK
      <4> QED
        BY <1>1, <4>2 DEF QueuedOnce
    <3>2. CASE t \notin waiting
      BY <1>1, <1>2, <3>2 DEF QueuedOnce, Awaits
    <3> QED
      BY <3>1, <3>2
  <2> QED
    BY <2>1, <2>2, <2>3, <2>4
<1>4. CASE queue = <<>>
  <2>1. TypeOK'
    BY <1>1, <1>2, <1>4 DEF TypeOK, Pcs, SpinPcs
  <2>2. SpinHeld'
    BY <1>2, <1>3, <1>4, SpinKeeps DEF SpinPcs
  <2>3. OwnerInside' /\ OwnerPlace'
    <3>1. OwnerInside'
      BY <1>1, <1>2, <1>3, <1>4 DEF OwnerInside, Inside, InPcs
    <3>2. OwnerPlace'
      BY <1>2, <1>3, <1>4, ThreadsNotNull DEF OwnerPlace, SpinPcs
    <3> QED
      BY <3>1, <3>2
  <2>4. WaitersPlace'
    BY <1>1, <1>2, <1>3, <1>4 DEF WaitersPlace, Inside, InPcs, TypeOK
  <2>5. QueuedOnce'
    <3>1. \A u \in Threads : Awaits(u)' <=> Awaits(u)
      BY <1>1, <1>2, <1>3, <1>4, ThreadsNotNull DEF Awaits
    <3> QED
      BY <1>1, <1>2, <1>4, <3>1 DEF QueuedOnce
  <2>6. OneClaimEach'
    BY <1>1, <1>2, <1>3, <1>4, ThreadsNotNull DEF OneClaimEach, Resumptions, BeingGiven, SpinPcs
  <2>7. NobodyForgotten' /\ CrashMeansAllWait'
    BY <1>1, <1>2, <1>4 DEF NobodyForgotten, CrashMeansAllWait
  <2> QED
    BY <2>1, <2>2, <2>3, <2>4, <2>5, <2>6, <2>7 DEF MonitorInv
<1>5. CASE queue # <<>>
  <2>1. PICK h \in Threads :
          /\ thr' = h /\ queue' \in Seq(Threads)
          /\ Range(queue) = Range(queue') \cup {h}
          /\ IsInjective(queue') /\ h \notin Range(queue')
          /\ pc'[t] = "handOver"
    <3>1. queue \in Seq(Threads) /\ IsInjective(queue)
      BY <1>1 DEF TypeOK, QueuedOnce
    <3>2. /\ Tail(queue) \in Seq(Threads) /\ Head(queue) \in Threads
          /\ Range(queue) = Range(Tail(queue)) \cup {Head(queue)}
          /\ IsInjective(Tail(queue)) /\ Head(queue) \notin Range(Tail(queue))
      BY <1>5, <3>1, RangeTail, HeadTailProperties
    <3>3. thr' = Head(queue) /\ queue' = Tail(queue) /\ pc'[t] = "handOver"
      BY <1>2, <1>3, <1>5
    <3> QED
      BY <3>2, <3>3
  <2>2. h # t /\ pc[h] \in {"suspend", "blocked"} /\ (h \in waiting => pc[h] = "suspend")
    <3>1. h # t /\ Awaits(h)
      BY <1>1, <1>3, <2>1 DEF QueuedOnce
    <3>2. h \in waiting => pc[h] = "suspend"
      <4> SUFFICES ASSUME h \in waiting PROVE pc[h] = "suspend"
        OBVIOUS
      <4>1. pc[h] \in {"unlockTas", "unlockTest", "handOver", "unlockClear", "suspend"}
        BY <1>1 DEF WaitersPlace
      <4>2. pc[h] \notin {"unlockTas", "unlockTest"}
        BY <1>1, <1>3, <2>1, <3>1 DEF OwnerInside, Inside, InPcs
      <4>3. pc[h] \notin {"handOver", "unlockClear"}
        BY <1>3, <2>1, <3>1 DEF SpinPcs
      <4> QED
        BY <4>1, <4>2, <4>3
    <3> QED
      BY <3>1, <3>2 DEF Awaits
  <2>3. TypeOK'
    BY <1>1, <1>2, <1>5, <2>1 DEF TypeOK, Pcs, SpinPcs
  <2>4. SpinHeld'
    BY <1>2, <1>3, <1>5, SpinKeeps DEF SpinPcs
  <2>5. OwnerInside' /\ OwnerPlace'
    <3>1. OwnerInside'
      <4>1. \A u \in Threads : u # t => ~Inside(u)
        BY <1>1, <1>3 DEF OwnerInside
      <4> QED
        BY <1>3, <2>1, <4>1 DEF OwnerInside, Inside, InPcs
    <3>2. OwnerPlace'
      BY <1>3, <2>1, <2>2, ThreadsNotNull DEF OwnerPlace
    <3> QED
      BY <3>1, <3>2
  <2>6. WaitersPlace'
    BY <1>1, <1>2, <1>3, <1>5 DEF WaitersPlace, Inside, InPcs, TypeOK
  <2>7. QueuedOnce'
    <3>1. ~Awaits(h)'
      BY <1>2, <1>3, <2>1, <2>2 DEF Awaits
    <3>2. \A u \in Threads : u # h => (Awaits(u)' <=> Awaits(u))
      BY <1>2, <1>3, <2>1, <2>2 DEF Awaits
    <3>3. h \notin Range(mqueue)
      BY <1>1, <2>1 DEF QueuedOnce
    <3>4. mqueue' = mqueue
      BY <1>2
    <3> QED
      BY <1>1, <2>1, <3>1, <3>2, <3>3, <3>4 DEF QueuedOnce
  <2>8. OneClaimEach'
    <3>1. \A u \in Threads : ~BeingGiven(u)
      BY <1>2, <1>3 DEF BeingGiven, SpinPcs
    <3>2. \A u \in Threads : BeingGiven(u)' <=> u = h
      BY <1>2, <1>3, <2>1 DEF BeingGiven
    <3>3. /\ ready' = ready /\ active' = active /\ pc[t] = "unlockTest"
          /\ status = "run" /\ thr = t /\ thr' = h
          /\ \A u \in Threads : ready[u] \in 0 .. 2
      BY <1>1, <1>2, <1>3, <2>1 DEF TypeOK
    <3>4. \A u \in Threads : Resumptions(u)' = Resumptions(u) + (IF u = h THEN 1 ELSE 0)
      BY <3>1, <3>2, <3>3 DEF Resumptions
    <3>5. \A u \in Threads : Resumptions(u) =
            (IF pc[u] = "blocked" THEN 0 ELSE 1)
            + (IF pc[u] \in {"suspend", "blocked"} /\ thr = u THEN 1 ELSE 0)
      BY <1>1, <3>3 DEF OneClaimEach
    <3>6. \A u \in Threads : (pc'[u] = "blocked" <=> pc[u] = "blocked")
                            /\ (pc'[u] = "suspend" <=> pc[u] = "suspend")
      BY <1>3, <2>1, <3>3
    <3> QED
      BY <2>2, <3>3, <3>4, <3>5, <3>6 DEF OneClaimEach
  <2>9. NobodyForgotten' /\ CrashMeansAllWait'
    BY <1>1, <1>2, <1>5, <2>1, ThreadsNotNull DEF NobodyForgotten, CrashMeansAllWait
  <2> QED
    BY <2>3, <2>4, <2>5, <2>6, <2>7, <2>8, <2>9 DEF MonitorInv
<1> QED
  BY <1>4, <1>5

\* The end of an unlock, or of the release in monitor_wait.
LEMMA UnlockClearStep ==
  ASSUME MonitorInv, NEW t \in Threads, UnlockClear(t)
  PROVE  MonitorInv'
<1> DEFINE to == IF t \in waiting THEN "suspend" ELSE "out"
<1>1. /\ TypeOK /\ OwnerInside /\ OwnerPlace /\ WaitersPlace /\ QueuedOnce /\ OneClaimEach
      /\ NobodyForgotten
  BY DEF MonitorInv
<1>2. /\ status = "run" /\ active = t /\ pc[t] = "unlockClear" /\ l' = 0
      /\ pc' = [pc EXCEPT ![t] = to]
      /\ UNCHANGED <<status, active, ready, waiting, thr, queue, mqueue>>
  BY DEF UnlockClear, At, Goto, AfterUnlock
<1>3. /\ pc'[t] = to /\ \A u \in Threads : u # t => pc'[u] = pc[u]
      /\ thr # t
  <2>1. pc'[t] = to /\ \A u \in Threads : u # t => pc'[u] = pc[u]
    BY <1>1, <1>2 DEF TypeOK
  <2>2. thr # t
    BY <1>1, <1>2 DEF OwnerPlace, Inside, InPcs
  <2> QED
    BY <2>1, <2>2
<1>4. TypeOK'
  BY <1>1, <1>2 DEF TypeOK, Pcs
<1>5. SpinHeld'
  BY <1>2, <1>3, SpinKeeps DEF SpinPcs
<1>6. OwnerInside' /\ OwnerPlace' /\ WaitersPlace'
  BY <1>1, <1>2, <1>3 DEF OwnerInside, OwnerPlace, WaitersPlace, Inside, InPcs, TypeOK
<1>7. QueuedOnce'
  <2>1. \A u \in Threads : Awaits(u)' <=> Awaits(u)
    BY <1>2, <1>3 DEF Awaits
  <2> QED
    BY <1>1, <1>2, <2>1 DEF QueuedOnce
<1>8. OneClaimEach'
  <2>1. \A u \in Threads : BeingGiven(u)' <=> BeingGiven(u)
    BY <1>2, <1>3 DEF BeingGiven
  <2> QED
    BY <1>1, <1>2, <1>3, <2>1 DEF OneClaimEach, Resumptions
<1>9. NobodyForgotten' /\ CrashMeansAllWait'
  BY <1>1, <1>2 DEF NobodyForgotten, CrashMeansAllWait
<1> QED
  BY <1>4, <1>5, <1>6, <1>7, <1>8, <1>9 DEF MonitorInv

\* The bound of the nodes of a thread follows from its claims.
LEMMA NodesBounded ==
  ASSUME OneClaimEach', status' = "run", ready' \in [Threads -> Nat]
  PROVE  ready' \in [Threads -> 0 .. 2]
<1> SUFFICES ASSUME NEW u \in Threads PROVE ready'[u] \in 0 .. 2
  OBVIOUS
<1>1. ready'[u] + (IF active' = u THEN 1 ELSE 0) + (IF BeingGiven(u)' THEN 1 ELSE 0)
      = (IF pc'[u] = "blocked" THEN 0 ELSE 1)
        + (IF pc'[u] \in {"suspend", "blocked"} /\ thr' = u THEN 1 ELSE 0)
  BY DEF OneClaimEach, Resumptions
<1> QED
  BY <1>1

\* Resuming a thread changes its place only from "blocked", and then it is inside.
LEMMA ResumedPlace ==
  ASSUME NEW u, NEW places \in [Threads -> Pcs], SwitchTo(u, places)
  PROVE  /\ active' = u /\ pc' \in [Threads -> Pcs]
         /\ \A v \in Threads :
              pc'[v] = IF v = u /\ places[v] = "blocked" THEN "in" ELSE places[v]
BY DEF SwitchTo, Resumed, Pcs, InPcs

\* The new owner is resumed in place of the thread that unlocks, or requeued.
LEMMA HandOverStep ==
  ASSUME MonitorInv, NEW t \in Threads, HandOver(t)
  PROVE  MonitorInv'
<1>1. /\ TypeOK /\ OwnerInside /\ OwnerPlace /\ WaitersPlace /\ QueuedOnce /\ OneClaimEach
      /\ NobodyForgotten /\ SpinHeld
  BY DEF MonitorInv
<1>2. /\ status = "run" /\ active = t /\ pc[t] = "handOver"
      /\ UNCHANGED <<status, waiting, l, thr, queue, mqueue>>
  BY DEF HandOver, At, mutex
<1>3. thr \in Threads /\ thr # t /\ \A u \in Threads : pc[u] = "handOver" => u = t
  BY <1>1, <1>2 DEF TypeOK, OwnerPlace, Inside, InPcs, SpinHeld, SpinPcs
<1>4. PICK n \in Threads :
        /\ ready' = [ready EXCEPT ![n] = @ + 1]
        /\ \/ n = t /\ active' = thr
           \/ n = thr /\ active' = active
        /\ pc' \in [Threads -> Pcs]
        /\ pc'[t] = "unlockClear"
        /\ \A u \in Threads : u # t =>
             \/ pc'[u] = pc[u]
             \/ u = thr /\ pc[u] = "blocked" /\ pc'[u] = "in"
  <2>1. CASE /\ ready' = [ready EXCEPT ![t] = @ + 1]
             /\ SwitchTo(thr, [pc EXCEPT ![t] = "unlockClear"])
    <3> DEFINE places == [pc EXCEPT ![t] = "unlockClear"]
    <3>1. /\ places \in [Threads -> Pcs] /\ places[t] = "unlockClear"
          /\ \A u \in Threads : u # t => places[u] = pc[u]
      BY <1>1 DEF TypeOK, Pcs, SpinPcs
    <3> HIDE DEF places
    <3>2. /\ active' = thr /\ pc' \in [Threads -> Pcs]
          /\ \A v \in Threads :
               pc'[v] = IF v = thr /\ places[v] = "blocked" THEN "in" ELSE places[v]
      BY <2>1, <3>1, ResumedPlace DEF places
    <3> QED
      BY <1>3, <2>1, <3>1, <3>2
  <2>2. CASE ready' = [ready EXCEPT ![thr] = @ + 1] /\ Goto(t, "unlockClear") /\ UNCHANGED active
    BY <1>1, <1>2, <1>3, <2>2 DEF Goto, TypeOK, Pcs, SpinPcs
  <2> QED
    BY <2>1, <2>2 DEF HandOver, Requeued
<1>5. OneClaimEach'
  <2>1. /\ \A u \in Threads : BeingGiven(u) <=> u = thr
        /\ \A u \in Threads : ~BeingGiven(u)'
    BY <1>2, <1>3, <1>4 DEF BeingGiven
  <2>2. \A u \in Threads : ready'[u] = IF u = n THEN ready[u] + 1 ELSE ready[u]
    BY <1>1, <1>4 DEF TypeOK
  <2>3. \A u \in Threads : Resumptions(u)' = Resumptions(u)
    <3>1. \A u \in Threads : ready[u] \in 0 .. 2
      BY <1>1 DEF TypeOK
    <3>2. CASE n = t /\ active' = thr
      BY <1>2, <1>3, <2>1, <2>2, <3>1, <3>2 DEF Resumptions
    <3>3. CASE n = thr /\ active' = active
      BY <1>2, <1>3, <2>1, <2>2, <3>1, <3>3 DEF Resumptions
    <3> QED
      BY <1>4, <3>2, <3>3
  <2>4. \A u \in Threads : Resumptions(u) =
          (IF pc[u] = "blocked" THEN 0 ELSE 1)
          + (IF pc[u] \in {"suspend", "blocked"} /\ thr = u THEN 1 ELSE 0)
    BY <1>1, <1>2 DEF OneClaimEach
  <2>5. ASSUME NEW u \in Threads
        PROVE  Resumptions(u)' =
                 (IF pc'[u] = "blocked" THEN 0 ELSE 1)
                 + (IF pc'[u] \in {"suspend", "blocked"} /\ thr' = u THEN 1 ELSE 0)
    <3>1. CASE u = t
      BY <1>2, <1>3, <1>4, <2>3, <2>4, <3>1
    <3>2. CASE u # t
      BY <1>2, <1>4, <2>3, <2>4, <3>2
    <3> QED
      BY <3>1, <3>2
  <2> QED
    BY <2>5 DEF OneClaimEach
<1>6. TypeOK'
  <2>1. ready' \in [Threads -> Nat]
    BY <1>1, <1>4 DEF TypeOK
  <2>2. ready' \in [Threads -> 0 .. 2]
    BY <1>2, <1>5, <2>1, NodesBounded
  <2> QED
    BY <1>1, <1>2, <1>3, <1>4, <2>2 DEF TypeOK
<1>7. SpinHeld'
  <2>1. \A u \in Threads : u # t => (pc'[u] \in SpinPcs <=> pc[u] \in SpinPcs)
    BY <1>4 DEF SpinPcs
  <2>2. pc'[t] \in SpinPcs /\ pc[t] \in SpinPcs
    BY <1>2, <1>4 DEF SpinPcs
  <2> QED
    BY <1>2, <2>1, <2>2, SpinKeeps
<1>8. OwnerInside'
  BY <1>1, <1>2, <1>4 DEF OwnerInside, Inside, InPcs
<1>9. OwnerPlace'
  BY <1>1, <1>2, <1>3, <1>4 DEF OwnerPlace, Inside, InPcs
<1>10. WaitersPlace'
  <2>1. \A u \in waiting : u \in Threads /\ pc[u] # "blocked"
    BY <1>1 DEF WaitersPlace, TypeOK
  <2> QED
    BY <1>1, <1>2, <1>4, <2>1 DEF WaitersPlace, Inside, InPcs
<1>11. QueuedOnce'
  <2>1. \A u \in Threads : Awaits(u)' <=> Awaits(u)
    <3>1. \A u \in waiting : pc[u] # "blocked"
      BY <1>1 DEF WaitersPlace
    <3> QED
      BY <1>2, <1>3, <1>4, <3>1 DEF Awaits
  <2> QED
    BY <1>1, <1>2, <2>1 DEF QueuedOnce
<1>12. NobodyForgotten' /\ CrashMeansAllWait'
  BY <1>1, <1>2 DEF NobodyForgotten, CrashMeansAllWait
<1> QED
  BY <1>5, <1>6, <1>7, <1>8, <1>9, <1>10, <1>11, <1>12 DEF MonitorInv

\* monitor_wait puts its thread on the queue of the monitor.
LEMMA WaitStep ==
  ASSUME MonitorInv, NEW t \in Threads, Wait(t)
  PROVE  MonitorInv'
<1>1. /\ TypeOK /\ OwnerInside /\ OwnerPlace /\ WaitersPlace /\ QueuedOnce /\ OneClaimEach
      /\ NobodyForgotten
  BY DEF MonitorInv
<1>2. /\ status = "run" /\ active = t /\ pc[t] = "in" /\ thr = t
      /\ mqueue' = Append(mqueue, t) /\ waiting' = waiting \cup {t}
      /\ pc' = [pc EXCEPT ![t] = "unlockTas"]
      /\ UNCHANGED <<status, active, ready, l, thr, queue>>
  BY DEF Wait, At, Goto, Enqueue, mutex
<1>3. /\ pc'[t] = "unlockTas" /\ \A u \in Threads : u # t => pc'[u] = pc[u]
      /\ t \notin waiting
      /\ \A u \in Threads : Inside(u) <=> u = t
  <2>1. pc'[t] = "unlockTas" /\ \A u \in Threads : u # t => pc'[u] = pc[u]
    BY <1>1, <1>2 DEF TypeOK
  <2>2. t \notin waiting
    BY <1>1, <1>2 DEF WaitersPlace
  <2>3. \A u \in Threads : Inside(u) <=> u = t
    BY <1>1, <1>2 DEF OwnerInside, Inside, InPcs
  <2> QED
    BY <2>1, <2>2, <2>3
<1>4. /\ mqueue' \in Seq(Threads) /\ mqueue' # <<>> /\ Last(mqueue') = t
      /\ Range(mqueue') = Range(mqueue) \cup {t}
      /\ IsInjective(mqueue')
      /\ t \notin Range(queue) \cup Range(mqueue)
  <2>1. mqueue \in Seq(Threads) /\ IsInjective(mqueue)
    BY <1>1 DEF TypeOK, QueuedOnce
  <2>2. t \notin Range(queue) \cup Range(mqueue)
    BY <1>1, <1>2, <1>3 DEF QueuedOnce, Awaits
  <2>3. /\ Append(mqueue, t) \in Seq(Threads)
        /\ Range(Append(mqueue, t)) = Range(mqueue) \cup {t} /\ IsInjective(Append(mqueue, t))
    BY <2>1, <2>2, RangeAppend, AppendProperties
  <2>4. Append(mqueue, t) # <<>> /\ Last(Append(mqueue, t)) = t
    BY <2>1, AppendLast
  <2> QED
    BY <1>2, <2>2, <2>3, <2>4
<1>5. TypeOK'
  BY <1>1, <1>2, <1>4 DEF TypeOK, Pcs, InPcs
<1>6. SpinHeld'
  BY <1>2, <1>3, SpinKeeps DEF SpinPcs
<1>7. OwnerInside'
  BY <1>1, <1>2, <1>3 DEF OwnerInside, Inside
<1>8. OwnerPlace'
  BY <1>1, <1>2, <1>3 DEF OwnerPlace, Inside, InPcs
<1>9. WaitersPlace'
  <2> SUFFICES ASSUME NEW u \in waiting'
               PROVE  /\ pc'[u] \in {"unlockTas", "unlockTest", "handOver", "unlockClear", "suspend"}
                      /\ Inside(u)' => mqueue' # <<>> /\ Last(mqueue') = u
    BY DEF WaitersPlace
  <2>1. CASE u = t
    BY <1>3, <1>4, <2>1
  <2>2. CASE u # t
    <3>1. u \in waiting /\ u \in Threads
      BY <1>1, <1>2, <2>2 DEF TypeOK
    <3>2. ~Inside(u)'
      BY <1>3, <2>2, <3>1 DEF Inside
    <3> QED
      BY <1>1, <1>3, <2>2, <3>1, <3>2 DEF WaitersPlace
  <2> QED
    BY <2>1, <2>2
<1>10. QueuedOnce'
  <2>1. Awaits(t)'
    BY <1>2, <1>3 DEF Awaits
  <2>2. \A u \in Threads : u # t => (Awaits(u)' <=> Awaits(u))
    BY <1>2, <1>3 DEF Awaits
  <2>3. queue' = queue
    BY <1>2
  <2> QED
    BY <1>1, <1>4, <2>1, <2>2, <2>3 DEF QueuedOnce
<1>11. OneClaimEach'
  <2>1. \A u \in Threads : BeingGiven(u)' <=> BeingGiven(u)
    BY <1>2, <1>3 DEF BeingGiven
  <2> QED
    BY <1>1, <1>2, <1>3, <2>1 DEF OneClaimEach, Resumptions
<1>12. NobodyForgotten' /\ CrashMeansAllWait'
  BY <1>1, <1>2, ThreadsNotNull DEF NobodyForgotten, CrashMeansAllWait
<1> QED
  BY <1>5, <1>6, <1>7, <1>8, <1>9, <1>10, <1>11, <1>12 DEF MonitorInv

\* Both signals: some of the waiters go behind those at the door.
LEMMA SignalKeeps ==
  ASSUME MonitorInv, NEW t \in Threads, status = "run", UNCHANGED <<status, active, ready, waiting, thr>>,
         pc[t] \in {"signalMove", "signalAllMove"}, pc' = [pc EXCEPT ![t] = "in"], l' = 0,
         queue' \in Seq(Threads), mqueue' \in Seq(Threads),
         IsInjective(queue'), IsInjective(mqueue'), Range(queue') \cap Range(mqueue') = {},
         Range(queue') \cup Range(mqueue') = Range(queue) \cup Range(mqueue)
  PROVE  MonitorInv'
<1>1. /\ TypeOK /\ OwnerInside /\ OwnerPlace /\ WaitersPlace /\ QueuedOnce /\ OneClaimEach
  BY DEF MonitorInv
<1>2. /\ pc'[t] = "in" /\ \A u \in Threads : u # t => pc'[u] = pc[u]
      /\ t \notin waiting /\ thr = t
      /\ \A u \in Threads : Inside(u) <=> u = t
  <2>1. pc'[t] = "in" /\ \A u \in Threads : u # t => pc'[u] = pc[u]
    BY <1>1 DEF TypeOK
  <2>2. t \notin waiting
    BY <1>1 DEF WaitersPlace
  <2>3. Inside(t)
    BY DEF Inside, InPcs
  <2>4. thr = t /\ \A u \in Threads : Inside(u) <=> u = t
    BY <1>1, <2>3 DEF OwnerInside
  <2> QED
    BY <2>1, <2>2, <2>4
<1>3. TypeOK'
  BY <1>1 DEF TypeOK, Pcs, InPcs
<1>4. SpinHeld'
  BY <1>2, SpinKeeps DEF SpinPcs
<1>5. OwnerInside'
  BY <1>1, <1>2 DEF OwnerInside, Inside
<1>6. OwnerPlace'
  BY <1>1, <1>2 DEF OwnerPlace, Inside, InPcs
<1>7. WaitersPlace'
  BY <1>1, <1>2 DEF WaitersPlace, Inside, TypeOK
<1>8. QueuedOnce'
  <2>1. \A u \in Threads : Awaits(u)' <=> Awaits(u)
    BY <1>2 DEF Awaits
  <2> QED
    BY <1>1, <2>1 DEF QueuedOnce
<1>9. OneClaimEach'
  <2>1. \A u \in Threads : BeingGiven(u)' <=> BeingGiven(u)
    BY <1>2 DEF BeingGiven
  <2>2. pc[t] # "blocked" /\ pc[t] # "suspend"
    OBVIOUS
  <2> QED
    BY <1>1, <1>2, <2>1, <2>2 DEF OneClaimEach, Resumptions
<1>10. NobodyForgotten' /\ CrashMeansAllWait'
  BY <1>2, ThreadsNotNull DEF NobodyForgotten, CrashMeansAllWait
<1> QED
  BY <1>3, <1>4, <1>5, <1>6, <1>7, <1>8, <1>9, <1>10 DEF MonitorInv

\* The first waiter goes to the door, if there is one.
LEMMA SignalMoveStep ==
  ASSUME MonitorInv, NEW t \in Threads, SignalMove(t)
  PROVE  MonitorInv'
<1>1. /\ queue \in Seq(Threads) /\ mqueue \in Seq(Threads)
      /\ IsInjective(queue) /\ IsInjective(mqueue) /\ Range(queue) \cap Range(mqueue) = {}
  BY DEF MonitorInv, TypeOK, QueuedOnce
<1>2. /\ status = "run" /\ pc[t] = "signalMove" /\ pc' = [pc EXCEPT ![t] = "in"] /\ l' = 0
      /\ UNCHANGED <<status, active, ready, waiting, thr>>
  BY DEF SignalMove, At, Goto
<1>3. CASE mqueue = <<>>
  <2>1. queue' = queue /\ mqueue' = mqueue
    BY <1>3 DEF SignalMove
  <2> QED
    BY <1>1, <1>2, <2>1, SignalKeeps
<1>4. CASE mqueue # <<>>
  <2>1. queue' = Append(queue, Head(mqueue)) /\ mqueue' = Tail(mqueue)
    BY <1>4 DEF SignalMove, Enqueue
  <2>2. /\ Head(mqueue) \in Threads /\ Tail(mqueue) \in Seq(Threads)
        /\ Range(mqueue) = Range(Tail(mqueue)) \cup {Head(mqueue)}
        /\ IsInjective(Tail(mqueue)) /\ Head(mqueue) \notin Range(Tail(mqueue))
    BY <1>1, <1>4, RangeTail, HeadTailProperties
  <2>3. Head(mqueue) \notin Range(queue)
    BY <1>1, <2>2
  <2>4. /\ Append(queue, Head(mqueue)) \in Seq(Threads)
        /\ Range(Append(queue, Head(mqueue))) = Range(queue) \cup {Head(mqueue)}
        /\ IsInjective(Append(queue, Head(mqueue)))
    BY <1>1, <2>2, <2>3, RangeAppend, AppendProperties
  <2>5. /\ queue' \in Seq(Threads) /\ mqueue' \in Seq(Threads)
        /\ IsInjective(queue') /\ IsInjective(mqueue') /\ Range(queue') \cap Range(mqueue') = {}
        /\ Range(queue') \cup Range(mqueue') = Range(queue) \cup Range(mqueue)
    BY <1>1, <2>1, <2>2, <2>4
  <2> QED
    BY <1>2, <2>5, SignalKeeps
<1> QED
  BY <1>3, <1>4

\* All the waiters go to the door, in their order.
LEMMA SignalAllMoveStep ==
  ASSUME MonitorInv, NEW t \in Threads, SignalAllMove(t)
  PROVE  MonitorInv'
<1>1. /\ queue \in Seq(Threads) /\ mqueue \in Seq(Threads)
      /\ IsInjective(queue) /\ IsInjective(mqueue) /\ Range(queue) \cap Range(mqueue) = {}
  BY DEF MonitorInv, TypeOK, QueuedOnce
<1>2. /\ status = "run" /\ pc[t] = "signalAllMove" /\ pc' = [pc EXCEPT ![t] = "in"] /\ l' = 0
      /\ UNCHANGED <<status, active, ready, waiting, thr>>
      /\ queue' = queue \o mqueue /\ mqueue' = <<>>
  BY DEF SignalAllMove, At, Goto
<1>3. /\ queue' \in Seq(Threads) /\ IsInjective(queue')
      /\ Range(queue') = Range(queue) \cup Range(mqueue)
  BY <1>1, <1>2, RangeConcat
<1>4. mqueue' \in Seq(Threads) /\ Range(mqueue') = {} /\ IsInjective(mqueue')
  BY <1>2 DEF Range, IsInjective
<1> QED
  BY <1>2, <1>3, <1>4, SignalKeeps

\* A thread that suspends gives the processor to a runnable one, or finds none.
LEMMA SuspendStep ==
  ASSUME MonitorInv, NEW t \in Threads, Suspend(t)
  PROVE  MonitorInv'
<1> DEFINE places == [pc EXCEPT ![t] = "blocked"]
<1>1. /\ TypeOK /\ OwnerInside /\ OwnerPlace /\ WaitersPlace /\ QueuedOnce /\ OneClaimEach
      /\ NobodyForgotten /\ SpinHeld
  BY DEF MonitorInv
<1>2. /\ status = "run" /\ active = t /\ pc[t] = "suspend"
      /\ waiting' = waiting \ {t}
      /\ UNCHANGED <<l, thr, queue, mqueue>>
  BY DEF Suspend, At, mutex
<1>3. /\ places \in [Threads -> Pcs] /\ places[t] = "blocked"
      /\ \A u \in Threads : u # t => places[u] = pc[u]
  BY <1>1 DEF TypeOK, Pcs
<1>4. \A u \in Threads : Resumptions(u) =
        (IF pc[u] = "blocked" THEN 0 ELSE 1)
        + (IF pc[u] \in {"suspend", "blocked"} /\ thr = u THEN 1 ELSE 0)
  BY <1>1, <1>2 DEF OneClaimEach
<1>5. \A u \in Threads : ready[u] \in 0 .. 2
  BY <1>1 DEF TypeOK
<1> HIDE DEF places
<1>6. ASSUME NEW u \in Threads, ready[u] > 0, ready' = [ready EXCEPT ![u] = @ - 1],
             SwitchTo(u, places), status' = status
      PROVE  MonitorInv'
  <2>1. /\ active' = u /\ pc' \in [Threads -> Pcs]
        /\ \A v \in Threads : pc'[v] = IF v = u /\ places[v] = "blocked" THEN "in" ELSE places[v]
    BY <1>3, <1>6, ResumedPlace
  <2>2. places[u] = "blocked" => thr = u /\ pc[u] \in {"suspend", "blocked"}
    <3>1. CASE u = t
      <4>1. Resumptions(t) >= 2
        BY <1>2, <1>5, <1>6, <3>1 DEF Resumptions
      <4> QED
        BY <1>2, <1>4, <3>1, <4>1
    <3>2. CASE u # t
      <4>1. Resumptions(u) >= 1
        BY <1>5, <1>6 DEF Resumptions
      <4> QED
        BY <1>3, <1>4, <3>2, <4>1
    <3> QED
      BY <3>1, <3>2
  <2>3. \A v \in Threads : ready'[v] = IF v = u THEN ready[v] - 1 ELSE ready[v]
    BY <1>1, <1>6 DEF TypeOK
  <2>4. \A v \in Threads : pc'[v] = "handOver" <=> pc[v] = "handOver"
    BY <1>2, <1>3, <2>1
  <2>5. \A v \in Threads : Resumptions(v)' = Resumptions(v) - (IF v = t THEN 1 ELSE 0)
    <3>1. \A v \in Threads : BeingGiven(v)' <=> BeingGiven(v)
      BY <1>2, <2>4 DEF BeingGiven
    <3> QED
      BY <1>2, <1>5, <2>1, <2>3, <3>1 DEF Resumptions
  <2>6. OneClaimEach'
    <3> SUFFICES ASSUME NEW v \in Threads
                 PROVE  Resumptions(v)' =
                          (IF pc'[v] = "blocked" THEN 0 ELSE 1)
                          + (IF pc'[v] \in {"suspend", "blocked"} /\ thr' = v THEN 1 ELSE 0)
      BY DEF OneClaimEach
    <3>1. CASE v = t
      <4>1. Resumptions(v)' = 1 + (IF thr = v THEN 1 ELSE 0) - 1
        BY <1>2, <1>4, <2>5, <3>1
      <4>2. pc'[v] = IF v = u THEN "in" ELSE "blocked"
        BY <1>3, <2>1, <3>1
      <4> QED
        BY <1>2, <1>3, <2>2, <3>1, <4>1, <4>2
    <3>2. CASE v # t
      <4>1. Resumptions(v)' = (IF pc[v] = "blocked" THEN 0 ELSE 1)
                              + (IF pc[v] \in {"suspend", "blocked"} /\ thr = v THEN 1 ELSE 0)
        BY <1>4, <1>5, <2>5, <3>2 DEF Resumptions
      <4>2. pc'[v] = IF v = u /\ pc[v] = "blocked" THEN "in" ELSE pc[v]
        BY <1>3, <2>1, <3>2
      <4> QED
        BY <1>2, <1>3, <2>2, <3>2, <4>1, <4>2
    <3> QED
      BY <3>1, <3>2
  <2>7. TypeOK'
    <3>1. ready' \in [Threads -> Nat]
      BY <1>1, <1>6 DEF TypeOK
    <3>2. ready' \in [Threads -> 0 .. 2]
      BY <1>2, <1>6, <2>6, <3>1, NodesBounded
    <3> QED
      BY <1>1, <1>2, <1>6, <2>1, <3>2 DEF TypeOK
  <2>8. SpinHeld'
    <3>1. \A v \in Threads : pc'[v] \in SpinPcs <=> pc[v] \in SpinPcs
      BY <1>2, <1>3, <2>1 DEF SpinPcs
    <3> QED
      BY <1>2, <3>1, SpinKeeps
  <2>9. \A v \in Threads : Inside(v)' => Inside(v) \/ (v = u /\ thr = u)
    BY <1>2, <1>3, <2>1, <2>2 DEF Inside, InPcs
  <2>10. OwnerInside'
    BY <1>1, <1>2, <2>9 DEF OwnerInside
  <2>11. OwnerPlace'
    <3> SUFFICES ASSUME NEW v \in Threads
                 PROVE  /\ thr' = v => Inside(v)' \/ pc'[v] \in {"suspend", "blocked"}
                        /\ pc'[v] = "handOver" => thr' # NULL
      BY DEF OwnerPlace
    <3>1. CASE v = t
      BY <1>2, <1>3, <2>1, <3>1 DEF Inside, InPcs
    <3>2. CASE v # t
      BY <1>1, <1>2, <1>3, <2>1, <3>2 DEF OwnerPlace, Inside, InPcs
    <3> QED
      BY <3>1, <3>2
  <2>12. WaitersPlace'
    <3> SUFFICES ASSUME NEW v \in waiting \ {t}
                 PROVE  /\ pc'[v] \in {"unlockTas", "unlockTest", "handOver", "unlockClear", "suspend"}
                        /\ Inside(v)' => mqueue' # <<>> /\ Last(mqueue') = v
      BY <1>2 DEF WaitersPlace
    <3>1. v \in Threads /\ pc[v] # "blocked"
      BY <1>1 DEF WaitersPlace, TypeOK
    <3>2. pc'[v] = pc[v]
      BY <1>3, <2>1, <3>1
    <3> QED
      BY <1>1, <1>2, <3>2 DEF WaitersPlace, Inside
  <2>13. QueuedOnce'
    <3>1. \A v \in Threads : Awaits(v)' <=> Awaits(v)
      <4> SUFFICES ASSUME NEW v \in Threads PROVE Awaits(v)' <=> Awaits(v)
        OBVIOUS
      <4>1. CASE v = t
        BY <1>2, <1>3, <2>1, <2>2, <4>1 DEF Awaits
      <4>2. CASE v # t
        <5>1. v \in waiting => pc[v] # "blocked"
          BY <1>1 DEF WaitersPlace
        <5>2. pc'[v] = IF v = u /\ pc[v] = "blocked" THEN "in" ELSE pc[v]
          BY <1>3, <2>1, <4>2
        <5> QED
          BY <1>2, <1>3, <2>2, <4>2, <5>1, <5>2 DEF Awaits
      <4> QED
        BY <4>1, <4>2
    <3> QED
      BY <1>1, <1>2, <3>1 DEF QueuedOnce
  <2>14. NobodyForgotten' /\ CrashMeansAllWait'
    BY <1>1, <1>2, <1>6 DEF NobodyForgotten, CrashMeansAllWait
  <2> QED
    BY <2>6, <2>7, <2>8, <2>10, <2>11, <2>12, <2>13, <2>14 DEF MonitorInv
<1>7. ASSUME \A u \in Threads : ready[u] = 0, status' = "crash", active' = NULL,
             pc' = places, ready' = ready
      PROVE  MonitorInv'
  <2>1. \A u \in Threads : pc[u] # "handOver"
    <3> SUFFICES ASSUME NEW u \in Threads, pc[u] = "handOver" PROVE FALSE
      OBVIOUS
    <3>1. u # t /\ thr # u
      BY <1>1, <1>2 DEF OwnerPlace, Inside, InPcs
    <3>2. Resumptions(u) = 0
      BY <1>2, <1>7, <3>1 DEF Resumptions, BeingGiven
    <3>3. Resumptions(u) = 1
      BY <1>4, <3>1
    <3> QED
      BY <3>2, <3>3
  <2>2. \A u \in Threads : Resumptions(u) = IF u = t THEN 1 ELSE 0
    BY <1>2, <1>7, <2>1 DEF Resumptions, BeingGiven
  <2>3. \A u \in Threads : thr # u /\ pc'[u] = "blocked"
    <3> SUFFICES ASSUME NEW u \in Threads PROVE thr # u /\ pc'[u] = "blocked"
      OBVIOUS
    <3>1. CASE u = t
      BY <1>2, <1>3, <1>4, <1>7, <2>2, <3>1
    <3>2. CASE u # t
      <4>1. Resumptions(u) = 0
        BY <2>2, <3>2
      <4> QED
        BY <1>3, <1>4, <1>7, <3>2, <4>1
    <3> QED
      BY <3>1, <3>2
  <2>4. thr = NULL /\ queue = <<>> /\ thr' = NULL
    BY <1>1, <1>2, <2>3 DEF TypeOK, NobodyForgotten
  <2>5. TypeOK' /\ SpinHeld'
    <3>1. TypeOK'
      BY <1>1, <1>2, <1>3, <1>7 DEF TypeOK
    <3>2. \A u \in Threads : pc'[u] \in SpinPcs <=> pc[u] \in SpinPcs
      BY <1>2, <1>3, <1>7 DEF SpinPcs
    <3> QED
      BY <1>2, <3>1, <3>2, SpinKeeps
  <2>6. OwnerInside' /\ OwnerPlace' /\ WaitersPlace' /\ OneClaimEach'
    <3>1. \A u \in waiting' : pc[u] = "blocked" /\ u \in waiting
      BY <1>1, <1>2, <1>3, <1>7, <2>3 DEF TypeOK
    <3>2. waiting' = {}
      BY <1>1, <3>1 DEF WaitersPlace
    <3> QED
      BY <1>7, <2>3, <3>2 DEF OwnerInside, OwnerPlace, WaitersPlace, OneClaimEach, Inside, InPcs
  <2>7. QueuedOnce'
    <3>1. \A v \in Threads : Awaits(v)' <=> Awaits(v)
      <4> SUFFICES ASSUME NEW v \in Threads PROVE Awaits(v)' <=> Awaits(v)
        OBVIOUS
      <4>1. CASE v = t
        BY <1>2, <2>3, <4>1 DEF Awaits
      <4>2. CASE v # t
        BY <1>2, <1>3, <1>7, <2>3, <4>2 DEF Awaits
      <4> QED
        BY <4>1, <4>2
    <3> QED
      BY <1>1, <1>2, <3>1 DEF QueuedOnce
  <2>8. NobodyForgotten'
    BY <1>2, <2>4 DEF NobodyForgotten
  <2>9. CrashMeansAllWait'
    <3>1. \A u \in Threads : u \in Range(queue)' \cup Range(mqueue)'
      BY <1>2, <2>3, <2>7 DEF QueuedOnce, Awaits
    <3>2. Range(queue)' = {}
      BY <1>2, <2>4 DEF Range
    <3>3. mqueue' \in Seq(Threads) /\ mqueue' = mqueue
      BY <1>2, <2>5 DEF TypeOK
    <3>4. Range(mqueue) = {mqueue[i] : i \in 1 .. Len(mqueue)} /\ Range(mqueue) \subseteq Threads
      <4>1. mqueue \in Seq(Threads)
        BY <3>3
      <4>2. DOMAIN mqueue = 1 .. Len(mqueue) /\ \A i \in 1 .. Len(mqueue) : mqueue[i] \in Threads
        BY <4>1, LenProperties, ElementOfSeq
      <4> QED
        BY <4>2 DEF Range
    <3>5. Range(mqueue) = Threads
      BY <3>1, <3>2, <3>3, <3>4
    <3> QED
      BY <2>4, <3>3, <3>4, <3>5 DEF CrashMeansAllWait
  <2> QED
    BY <2>5, <2>6, <2>7, <2>8, <2>9 DEF MonitorInv
<1> QED
  BY <1>6, <1>7 DEF Suspend, Goto, places

\* A tick requeues the active thread and resumes one that is runnable.
LEMMA PreemptStep ==
  ASSUME MonitorInv, NEW t \in Threads, NEW u \in Threads, Preempt(t, u)
  PROVE  MonitorInv'
<1>1. /\ TypeOK /\ OwnerInside /\ OwnerPlace /\ WaitersPlace /\ QueuedOnce /\ OneClaimEach
      /\ NobodyForgotten /\ SpinHeld
  BY DEF MonitorInv
<1>2. /\ status = "run" /\ active = t
      /\ u = t \/ ready[u] > 0
      /\ SwitchTo(u, pc)
      /\ UNCHANGED <<status, waiting, l, thr, queue, mqueue>>
  BY DEF Preempt, mutex
<1>3. \A v \in Threads : ready[v] \in 0 .. 2
  BY <1>1 DEF TypeOK
<1>4. /\ active' = u /\ pc' \in [Threads -> Pcs]
      /\ \A v \in Threads : pc'[v] = IF v = u /\ pc[v] = "blocked" THEN "in" ELSE pc[v]
  BY <1>1, <1>2, ResumedPlace DEF TypeOK
<1>5. /\ ready' \in [Threads -> Nat]
      /\ \A v \in Threads :
           ready'[v] = ready[v] + (IF v = t THEN 1 ELSE 0) - (IF v = u THEN 1 ELSE 0)
  <2> DEFINE r == Requeued(t)
  <2>1. /\ r \in [Threads -> Nat]
        /\ \A v \in Threads : r[v] = ready[v] + (IF v = t THEN 1 ELSE 0)
    BY <1>1 DEF TypeOK, Requeued
  <2>2. ready' = [r EXCEPT ![u] = r[u] - 1]
    BY DEF Preempt
  <2>3. r[u] > 0
    BY <1>2, <1>3, <2>1
  <2> HIDE DEF r
  <2>4. r[u] - 1 \in Nat
    BY <2>1, <2>3
  <2>5. ready' \in [Threads -> Nat]
    BY <2>1, <2>2, <2>4
  <2>6. \A v \in Threads : ready'[v] = IF v = u THEN r[v] - 1 ELSE r[v]
    BY <2>1, <2>2
  <2> QED
    BY <1>3, <2>1, <2>5, <2>6
<1>6. \A v \in Threads : Resumptions(v) =
        (IF pc[v] = "blocked" THEN 0 ELSE 1)
        + (IF pc[v] \in {"suspend", "blocked"} /\ thr = v THEN 1 ELSE 0)
  BY <1>1, <1>2 DEF OneClaimEach
<1>7. pc[u] = "blocked" => thr = u
  <2>1. Resumptions(u) >= 1
    BY <1>2, <1>3 DEF Resumptions
  <2> QED
    BY <1>6, <2>1
<1>8. \A v \in Threads : Resumptions(v)' = Resumptions(v)
  <2>1. \A v \in Threads : pc'[v] = "handOver" <=> pc[v] = "handOver"
    BY <1>4
  <2>2. \A v \in Threads : BeingGiven(v)' <=> BeingGiven(v)
    BY <1>2, <2>1 DEF BeingGiven
  <2> QED
    BY <1>2, <1>3, <1>4, <1>5, <2>2 DEF Resumptions
<1>9. OneClaimEach'
  <2> SUFFICES ASSUME NEW v \in Threads
               PROVE  Resumptions(v)' =
                        (IF pc'[v] = "blocked" THEN 0 ELSE 1)
                        + (IF pc'[v] \in {"suspend", "blocked"} /\ thr' = v THEN 1 ELSE 0)
    BY DEF OneClaimEach
  <2>1. CASE v = u /\ pc[v] = "blocked"
    BY <1>2, <1>4, <1>6, <1>7, <1>8, <2>1
  <2>2. CASE ~(v = u /\ pc[v] = "blocked")
    BY <1>2, <1>4, <1>6, <1>8, <2>2
  <2> QED
    BY <2>1, <2>2
<1>10. TypeOK'
  <2>1. ready' \in [Threads -> 0 .. 2]
    BY <1>2, <1>5, <1>9, NodesBounded
  <2> QED
    BY <1>1, <1>2, <1>4, <2>1 DEF TypeOK
<1>11. SpinHeld'
  <2>1. \A v \in Threads : pc'[v] \in SpinPcs <=> pc[v] \in SpinPcs
    BY <1>4 DEF SpinPcs
  <2> QED
    BY <1>2, <2>1, SpinKeeps
<1>12. OwnerInside'
  <2>1. \A v \in Threads : Inside(v)' => Inside(v) \/ (v = u /\ thr = u)
    BY <1>4, <1>7 DEF Inside, InPcs
  <2> QED
    BY <1>1, <1>2, <2>1 DEF OwnerInside
<1>13. OwnerPlace'
  BY <1>1, <1>2, <1>4 DEF OwnerPlace, Inside, InPcs
<1>14. WaitersPlace'
  <2> SUFFICES ASSUME NEW v \in waiting
               PROVE  /\ pc'[v] \in {"unlockTas", "unlockTest", "handOver", "unlockClear", "suspend"}
                      /\ Inside(v)' => mqueue' # <<>> /\ Last(mqueue') = v
    BY <1>2 DEF WaitersPlace
  <2>1. v \in Threads /\ pc[v] # "blocked"
    BY <1>1 DEF WaitersPlace, TypeOK
  <2>2. pc'[v] = pc[v]
    BY <1>4, <2>1
  <2> QED
    BY <1>1, <1>2, <2>2 DEF WaitersPlace, Inside
<1>15. QueuedOnce'
  <2>1. \A v \in Threads : Awaits(v)' <=> Awaits(v)
    <3>1. \A v \in waiting : pc[v] # "blocked"
      BY <1>1 DEF WaitersPlace
    <3> QED
      BY <1>2, <1>4, <1>7, <3>1 DEF Awaits
  <2> QED
    BY <1>1, <1>2, <2>1 DEF QueuedOnce
<1>16. NobodyForgotten' /\ CrashMeansAllWait'
  BY <1>1, <1>2 DEF NobodyForgotten, CrashMeansAllWait
<1> QED
  BY <1>9, <1>10, <1>11, <1>12, <1>13, <1>14, <1>15, <1>16 DEF MonitorInv

\* Every step keeps the invariant.
LEMMA MonitorStep == MonitorInv /\ [Next]_vars => MonitorInv'
<1> SUFFICES ASSUME MonitorInv, [Next]_vars PROVE MonitorInv'
  OBVIOUS
<1>1. ASSUME NEW t \in Threads, Step(t) PROVE MonitorInv'
  BY <1>1, MoveStep, LockTestStep, SuspendStep, UnlockTestStep, HandOverStep, UnlockClearStep,
     WaitStep, SignalMoveStep, SignalAllMoveStep DEF Step
<1>2. ASSUME NEW t \in Threads, NEW u \in Threads, Preempt(t, u) PROVE MonitorInv'
  BY <1>2, PreemptStep
<1>3. CASE UNCHANGED vars
  <2>1. /\ TypeOK' /\ SpinHeld' /\ OwnerInside' /\ OwnerPlace' /\ WaitersPlace'
    BY <1>3 DEF vars, mutex, MonitorInv, TypeOK, SpinHeld, OwnerInside, OwnerPlace, WaitersPlace, Inside
  <2>2. QueuedOnce'
    BY <1>3 DEF vars, mutex, MonitorInv, QueuedOnce, Awaits
  <2>3. OneClaimEach'
    BY <1>3 DEF vars, mutex, MonitorInv, OneClaimEach, Resumptions, BeingGiven
  <2>4. NobodyForgotten' /\ CrashMeansAllWait'
    BY <1>3 DEF vars, mutex, MonitorInv, NobodyForgotten, CrashMeansAllWait
  <2> QED
    BY <2>1, <2>2, <2>3, <2>4 DEF MonitorInv
<1> QED
  BY <1>1, <1>2, <1>3 DEF Next, Ended

\* The inductive invariant of mutex and monitor.
THEOREM MonitorCorrect == Spec => []MonitorInv
BY InitMonitor, MonitorStep, PTL DEF Spec

\* Mutual exclusion: two threads are never inside a monitor, though the owner
\* changes hands before the old one has left unlock.
THEOREM OwnerIsInside == Spec => []OwnerInside
<1>1. MonitorInv => OwnerInside
  BY DEF MonitorInv
<1> QED
  BY <1>1, MonitorCorrect, PTL

\* Each suspension is resumed exactly once, also when unlock inserts a thread in
\* the tree that was preempted before it suspended.
THEOREM OneResumptionEach == Spec => []OneResumeEach
<1>1. MonitorInv => OneResumeEach
  <2> SUFFICES ASSUME MonitorInv, status = "run", NEW t \in Threads
               PROVE  Resumptions(t) + Count(t, queue) + Count(t, mqueue)
                      = (IF Suspending(t) THEN 2 ELSE 1)
    BY DEF OneResumeEach
  <2>1. /\ queue \in Seq(Threads) /\ mqueue \in Seq(Threads)
        /\ IsInjective(queue) /\ IsInjective(mqueue) /\ Range(queue) \cap Range(mqueue) = {}
        /\ Awaits(t) <=> t \in Range(queue) \cup Range(mqueue)
    BY DEF MonitorInv, TypeOK, QueuedOnce
  <2>2. /\ Count(t, queue) = IF t \in Range(queue) THEN 1 ELSE 0
        /\ Count(t, mqueue) = IF t \in Range(mqueue) THEN 1 ELSE 0
    BY <2>1, CountOnce
  <2>3. Count(t, queue) + Count(t, mqueue) = IF Awaits(t) THEN 1 ELSE 0
    BY <2>1, <2>2
  <2>4. Count(t, queue) \in Nat /\ Count(t, mqueue) \in Nat
    BY <2>2
  <2>5. Resumptions(t) = (IF pc[t] = "blocked" THEN 0 ELSE 1)
                         + (IF pc[t] \in {"suspend", "blocked"} /\ thr = t THEN 1 ELSE 0)
    BY DEF MonitorInv, OneClaimEach
  <2>6. Resumptions(t) + (IF Awaits(t) THEN 1 ELSE 0) = (IF Suspending(t) THEN 2 ELSE 1)
    <3>1. t \in waiting => pc[t] # "blocked"
      BY DEF MonitorInv, WaitersPlace
    <3>2. CASE pc[t] = "suspend"
      BY <2>5, <3>2 DEF Awaits, Suspending
    <3>3. CASE pc[t] = "blocked"
      BY <2>5, <3>1, <3>3 DEF Awaits, Suspending
    <3>4. CASE pc[t] \notin {"suspend", "blocked"}
      BY <2>5, <3>4 DEF Awaits, Suspending
    <3> QED
      BY <3>2, <3>3, <3>4
  <2> DEFINE r == Resumptions(t)
             n == Count(t, queue)
             m == Count(t, mqueue)
             k == IF Awaits(t) THEN 1 ELSE 0
  <2>7. r \in Int /\ n \in Nat /\ m \in Nat /\ n + m = k /\ r + k = (IF Suspending(t) THEN 2 ELSE 1)
    BY <2>3, <2>4, <2>5, <2>6
  <2> HIDE DEF r, n, m, k
  <2>8. r + n + m = r + k
    BY <2>7
  <2> QED
    BY <2>7, <2>8 DEF r, n, m
<1> QED
  BY <1>1, MonitorCorrect, PTL

\* A free monitor has nobody at its door.
THEOREM NobodyIsForgotten == Spec => []NobodyForgotten
<1>1. MonitorInv => NobodyForgotten
  BY DEF MonitorInv
<1> QED
  BY <1>1, MonitorCorrect, PTL

\* The null thread is resumed only when every thread waits for a signal, never
\* because of a wake-up that was lost.
THEOREM CrashOnlyWhenAllWait == Spec => []CrashMeansAllWait
<1>1. MonitorInv => CrashMeansAllWait
  BY DEF MonitorInv
<1> QED
  BY <1>1, MonitorCorrect, PTL

-----------------------------------------------------------------------------
(* The Mesa monitor                                                        *)

\* The owner is on the queue of the monitor only while it leaves, as the last.
LEMMA ParkedIs ==
  ASSUME MonitorInv
  PROVE  /\ Parked \in Seq(Threads)
         /\ thr \notin Range(mqueue) => Parked = mqueue
         /\ thr \in waiting /\ Inside(thr) => mqueue # <<>> /\ Last(mqueue) = thr /\ Parked = Front(mqueue)
<1>1. mqueue \in Seq(Threads)
  BY DEF MonitorInv, TypeOK
<1>2. mqueue # <<>> => Front(mqueue) \in Seq(Threads) /\ Last(mqueue) \in Range(mqueue)
  BY <1>1, FrontLast
<1>3. thr \in waiting /\ Inside(thr) => mqueue # <<>> /\ Last(mqueue) = thr
  BY DEF MonitorInv, WaitersPlace
<1> QED
  BY <1>1, <1>2, <1>3 DEF Parked

\* Steps that leave the owner and the queues alone.
LEMMA MesaStutter ==
  ASSUME UNCHANGED <<thr, queue, mqueue>>
  PROVE  UNCHANGED Mesa!vars
BY DEF Mesa!vars, Parked

\* The test of the door is the entry.
LEMMA MesaEnter ==
  ASSUME MonitorInv, NEW t \in Threads, LockTest(t)
  PROVE  Mesa!Enter(t)
<1>1. /\ thr # t /\ t \notin Range(queue) \cup Range(mqueue)
      /\ queue \in Seq(Threads) /\ mqueue \in Seq(Threads)
  <2>1. pc[t] = "lockTest"
    BY DEF LockTest, At
  <2>2. thr # t
    BY <2>1 DEF MonitorInv, OwnerPlace, Inside, InPcs
  <2>3. t \notin waiting
    BY <2>1 DEF MonitorInv, WaitersPlace
  <2> QED
    BY <2>1, <2>2, <2>3 DEF MonitorInv, QueuedOnce, Awaits, TypeOK
<1>2. ~Mesa!Contains(queue \o Parked, t)
  <2>1. Parked \in Seq(Threads) /\ Range(Parked) \subseteq Range(mqueue)
    <3>1. CASE mqueue # <<>> /\ Last(mqueue) = thr
      <4>1. Front(mqueue) \in Seq(Threads) /\ Last(mqueue) \in Threads
            /\ Append(Front(mqueue), Last(mqueue)) = mqueue
        BY <1>1, <3>1, FrontLast
      <4>2. \A s \in Seq(Threads), x \in Threads : Range(Append(s, x)) = Range(s) \cup {x}
        BY RangeAppend
      <4>3. Range(mqueue) = Range(Front(mqueue)) \cup {Last(mqueue)}
        BY <4>1, <4>2
      <4> QED
        BY <3>1, <4>1, <4>3 DEF Parked
    <3>2. CASE ~(mqueue # <<>> /\ Last(mqueue) = thr)
      BY <1>1, <3>2 DEF Parked
    <3> QED
      BY <3>1, <3>2
  <2>2. queue \o Parked \in Seq(Threads) /\ Range(queue \o Parked) = Range(queue) \cup Range(Parked)
    BY <1>1, <2>1, RangeConcat
  <2>3. t \notin Range(queue \o Parked)
    BY <1>1, <2>1, <2>2
  <2> QED
    BY <2>2, <2>3, LenProperties DEF Mesa!Contains, Range
<1>3. mqueue' = mqueue
  BY DEF LockTest
<1>4. Parked' = Parked
  <2>1. CASE thr = NULL
    <3>1. mqueue # <<>> => Last(mqueue) # NULL /\ Last(mqueue) # t
      BY <1>1, FrontLast, ThreadsNotNull
    <3>2. thr' = t
      BY <2>1 DEF LockTest
    <3> QED
      BY <1>3, <2>1, <3>1, <3>2 DEF Parked
  <2>2. CASE thr # NULL
    BY <1>3, <2>2 DEF Parked, LockTest
  <2> QED
    BY <2>1, <2>2
<1> QED
  BY <1>1, <1>2, <1>4 DEF Mesa!Enter, LockTest, Enqueue

\* The owner leaves, for good or in a wait.
LEMMA MesaLeave ==
  ASSUME MonitorInv, NEW t \in Threads, UnlockTest(t)
  PROVE  Mesa!Leave \/ Mesa!Wait
<1>1. /\ pc[t] = "unlockTest" /\ mqueue' = mqueue
      /\ queue \in Seq(Threads) /\ mqueue \in Seq(Threads)
  BY DEF UnlockTest, At, MonitorInv, TypeOK
<1>2. thr = t /\ thr # NULL /\ Inside(t)
  BY <1>1, ThreadsNotNull DEF MonitorInv, OwnerInside, Inside, InPcs
<1>3. Mesa!Pass
  BY DEF UnlockTest, DoorClear, Mesa!Pass
<1>4. thr' \notin Range(mqueue)
  <2>1. CASE queue = <<>>
    <3>1. thr' = NULL
      BY <2>1 DEF UnlockTest, DoorClear
    <3>2. \A i \in 1 .. Len(mqueue) : mqueue[i] \in Threads
      BY <1>1, ElementOfSeq
    <3> QED
      BY <1>1, <3>1, <3>2, LenProperties, ThreadsNotNull DEF Range
  <2>2. CASE queue # <<>>
    <3>1. thr' = Head(queue)
      BY <2>2 DEF UnlockTest, DoorClear
    <3>2. Head(queue) \in Range(queue)
      BY <1>1, <2>2, RangeTail
    <3> QED
      BY <3>1, <3>2 DEF MonitorInv, QueuedOnce
  <2> QED
    BY <2>1, <2>2
<1>5. Parked' = mqueue
  <2>1. mqueue # <<>> => Last(mqueue) \in Range(mqueue)
    BY <1>1, FrontLast
  <2> QED
    BY <1>1, <1>4, <2>1 DEF Parked
<1>6. CASE t \in waiting
  <2>1. mqueue # <<>> /\ Last(mqueue) = thr /\ Parked = Front(mqueue)
    BY <1>2, <1>6, ParkedIs
  <2>2. Append(Parked, thr) = mqueue
    BY <1>1, <2>1, FrontLast
  <2> QED
    BY <1>2, <1>3, <1>5, <2>2 DEF Mesa!Wait
<1>7. CASE t \notin waiting
  <2>1. t \notin Range(mqueue)
    BY <1>1, <1>7 DEF MonitorInv, QueuedOnce, Awaits
  <2>2. Parked = mqueue
    BY <1>2, <2>1, ParkedIs
  <2> QED
    BY <1>2, <1>3, <1>5, <2>2 DEF Mesa!Leave
<1> QED
  BY <1>6, <1>7

\* monitor_wait before the release is not seen.
LEMMA MesaWait ==
  ASSUME MonitorInv, NEW t \in Threads, Wait(t)
  PROVE  UNCHANGED Mesa!vars
<1>1. /\ pc[t] = "in" /\ thr = t /\ thr' = thr /\ queue' = queue /\ mqueue' = Append(mqueue, t)
      /\ mqueue \in Seq(Threads)
  BY DEF Wait, At, Enqueue, mutex, MonitorInv, TypeOK
<1>2. t \notin waiting
  BY <1>1 DEF MonitorInv, WaitersPlace
<1>3. t \notin Range(mqueue)
  BY <1>1, <1>2 DEF MonitorInv, QueuedOnce, Awaits
<1>4. Parked = mqueue
  BY <1>1, <1>3, ParkedIs
<1>5. Append(mqueue, t) # <<>> /\ Front(Append(mqueue, t)) = mqueue /\ Last(Append(mqueue, t)) = t
  BY <1>1, AppendLast
<1>6. Parked' = mqueue
  BY <1>1, <1>5 DEF Parked
<1> QED
  BY <1>1, <1>4, <1>6 DEF Mesa!vars

\* A signal inside the monitor.
LEMMA MesaSignal ==
  ASSUME MonitorInv, NEW t \in Threads, SignalMove(t) \/ SignalAllMove(t)
  PROVE  Mesa!Signal \/ Mesa!SignalAll \/ UNCHANGED Mesa!vars
<1>1. /\ pc[t] \in {"signalMove", "signalAllMove"} /\ thr' = thr
      /\ queue \in Seq(Threads) /\ mqueue \in Seq(Threads)
  BY DEF SignalMove, SignalAllMove, At, MonitorInv, TypeOK
<1>2. thr = t /\ thr # NULL /\ t \notin waiting
  BY <1>1, ThreadsNotNull DEF MonitorInv, OwnerInside, Inside, InPcs, WaitersPlace
<1>3. t \notin Range(mqueue)
  BY <1>1, <1>2 DEF MonitorInv, QueuedOnce, Awaits
<1>4. Parked = mqueue
  BY <1>2, <1>3, ParkedIs
<1>5. CASE SignalAllMove(t)
  <2>1. queue' = queue \o mqueue /\ mqueue' = <<>>
    BY <1>5 DEF SignalAllMove
  <2>2. Parked' = <<>>
    BY <2>1 DEF Parked
  <2> QED
    BY <1>1, <1>2, <1>4, <2>1, <2>2 DEF Mesa!SignalAll
<1>6. CASE SignalMove(t) /\ mqueue = <<>>
  <2>1. UNCHANGED <<thr, queue, mqueue>>
    BY <1>6 DEF SignalMove
  <2> QED
    BY <2>1, MesaStutter
<1>7. CASE SignalMove(t) /\ mqueue # <<>>
  <2>1. queue' = Append(queue, Head(mqueue)) /\ mqueue' = Tail(mqueue)
    BY <1>7 DEF SignalMove, Enqueue
  <2>2. Parked' = Tail(mqueue)
    <3>1. Tail(mqueue) # <<>> => Last(Tail(mqueue)) = Last(mqueue)
      BY <1>1, <1>7, TailLast
    <3>2. Last(mqueue) # t
      BY <1>1, <1>3, <1>7, FrontLast
    <3> QED
      BY <1>1, <1>2, <2>1, <3>1, <3>2 DEF Parked
  <2> QED
    BY <1>1, <1>2, <1>4, <1>7, <2>1, <2>2 DEF Mesa!Signal
<1> QED
  BY <1>5, <1>6, <1>7

\* A monitor of user threads, ticks and all, implements a Mesa monitor: one thread
\* inside at a time, waits that leave and join the waiters in one step, and
\* signalled threads that enter behind those already at the door.
THEOREM MonitorIsMesa == Spec => ImplementsMesa
<1>1. Init => Mesa!Init
  BY DEF Init, Mesa!Init, Parked
<1>2. MonitorInv /\ [Next]_vars => [Mesa!Next]_(Mesa!vars)
  <2> SUFFICES ASSUME MonitorInv, [Next]_vars PROVE [Mesa!Next]_(Mesa!vars)
    OBVIOUS
  <2>1. ASSUME NEW t \in Threads, Step(t) PROVE [Mesa!Next]_(Mesa!vars)
    <3>1. CASE LockTest(t)
      BY <3>1, MesaEnter DEF Mesa!Next
    <3>2. CASE UnlockTest(t)
      BY <3>2, MesaLeave DEF Mesa!Next
    <3>3. CASE Wait(t)
      BY <3>3, MesaWait
    <3>4. CASE SignalMove(t) \/ SignalAllMove(t)
      BY <3>4, MesaSignal DEF Mesa!Next
    <3>5. CASE \/ Enter(t) \/ Exit(t) \/ Signal(t) \/ SignalAll(t) \/ Suspend(t) \/ HandOver(t)
               \/ UnlockClear(t)
               \/ TestAndSet(t, "lockTas", "lockTest") \/ TestAndSet(t, "unlockTas", "unlockTest")
               \/ TestAndSet(t, "signalTas", "signalMove")
               \/ TestAndSet(t, "signalAllTas", "signalAllMove")
      <4>1. UNCHANGED <<thr, queue, mqueue>>
        BY <3>5 DEF Enter, Exit, Signal, SignalAll, Suspend, HandOver, UnlockClear, TestAndSet, mutex
      <4> QED
        BY <4>1, MesaStutter
    <3> QED
      BY <2>1, <3>1, <3>2, <3>3, <3>4, <3>5 DEF Step
  <2>2. ASSUME NEW t \in Threads, NEW u \in Threads, Preempt(t, u) PROVE [Mesa!Next]_(Mesa!vars)
    <3>1. UNCHANGED <<thr, queue, mqueue>>
      BY <2>2 DEF Preempt, mutex
    <3> QED
      BY <3>1, MesaStutter
  <2>3. CASE UNCHANGED vars
    <3>1. UNCHANGED <<thr, queue, mqueue>>
      BY <2>3 DEF vars, mutex
    <3> QED
      BY <3>1, MesaStutter
  <2> QED
    BY <2>1, <2>2, <2>3 DEF Next, Ended
<1> QED
  BY <1>1, <1>2, MonitorCorrect, PTL DEF Spec, ImplementsMesa, Mesa!Spec
=============================================================================
