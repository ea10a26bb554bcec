--------------------------- MODULE SchedulerProofs ---------------------------
(***************************************************************************)
(* Proofs about Scheduler for any set of threads, any inputs and bounds.   *)
(***************************************************************************)
EXTENDS Scheduler, DataFacts

(* What the helpers return. *)

\* RBExtraiMininimo takes a thread that is in the tree, the only one if it is alone.
LEMMA MinimaSubset ==
  ASSUME NEW S, NEW order
  PROVE  Minima(S, order) \subseteq S
BY DEF Minima

\* Putting threads behind others keeps the order a relation on threads.
LEMMA MovedType ==
  ASSUME NEW order \in SUBSET (Threads \X Threads),
         NEW N \in SUBSET Threads, NEW S \in SUBSET Threads
  PROVE  Moved(order, N, S) \in SUBSET (Threads \X Threads)
BY DEF Moved

\* RBMenorChave returns an integer.
LEMMA MinKeysType ==
  ASSUME NEW S \in SUBSET Threads, NEW order, NEW used,
         vruntime \in [Threads -> Int]
  PROVE  MinKeys(S, order, used) \subseteq Int
BY MinimaSubset DEF MinKeys, EmptyKey

\* sthread_nice and sthread_user_create store a value in 1..10.
LEMMA ClampType ==
  ASSUME NEW n \in Int
  PROVE  Clamp(n) \in 1..10
BY DEF Clamp

\* The two outcomes of handing the processor over.
LEMMA DispatchOutcome ==
  ASSUME NEW S \in SUBSET Threads, NEW order \in SUBSET (Threads \X Threads),
         NEW blocked \in SUBSET Threads,
         Dispatch(S, order, blocked)
  PROVE  /\ \/ /\ active' \in S
               /\ active' \in Minima(S, order)
               /\ ready' = S \ {active'}
               /\ inJoin' = blocked \ {active'}
               /\ got' = IF active' \in blocked
                           THEN [got EXCEPT ![active'] =
                                   [of |-> join_tid[active'], val |-> join_ret[join_tid[active']]]]
                           ELSE got
               /\ status' = status
            \/ /\ status' = "crash"
               /\ active' = NULL
               /\ ready' = S
               /\ inJoin' = blocked
               /\ got' = got
         /\ before' \in SUBSET (Threads \X Threads)
<1>1. CASE \E t \in Minima(S, order) :
              /\ active' = t
              /\ ready' = S \ {t}
              /\ before' = Moved(order, {t}, {})
              /\ Resume(t, blocked)
              /\ UNCHANGED status
  <2>1. PICK t \in Minima(S, order) :
              /\ active' = t
              /\ ready' = S \ {t}
              /\ before' = Moved(order, {t}, {})
              /\ Resume(t, blocked)
              /\ UNCHANGED status
    BY <1>1
  <2>2. t \in S
    BY MinimaSubset
  <2>3. before' \in SUBSET (Threads \X Threads)
    BY <2>1, <2>2, MovedType
  <2> QED
    BY <2>1, <2>2, <2>3 DEF Resume
<1>2. CASE /\ S = {} \/ Confused(S)
           /\ status' = "crash"
           /\ active' = NULL
           /\ ready' = S
           /\ before' = order
           /\ inJoin' = blocked
           /\ UNCHANGED got
  BY <1>2
<1> QED
  BY <1>1, <1>2 DEF Dispatch

-----------------------------------------------------------------------------
(* Type correctness *)

\* sthread_user_init leaves well-typed fields.
LEMMA InitType == Init => TypeOK
<1> SUFFICES ASSUME Init PROVE TypeOK
  OBVIOUS
<1>1. got \in [Threads -> [of : Threads \cup {NULL}, val : Threads \cup {NULL}]]
  BY DEF Init, NoJoin
<1>2. tails \in [Threads -> 0..MaxNest] /\ ticks \in 0..MaxTicks /\ Clock \in Nat
  BY BoundsAssumption DEF Init
<1>3. active \in Threads /\ active # NULL /\ status = "run"
  BY ThreadsAssumption DEF Init
<1>4. /\ vruntime \in [Threads -> Int] /\ times_runned \in [Threads -> Nat]
      /\ priority \in [Threads -> 1..10] /\ nice \in [Threads -> 0..10]
      /\ wake_time \in [Threads -> Int] /\ until \in [Threads -> Int]
  BY DEF Init
<1> QED
  BY <1>1, <1>2, <1>3, <1>4 DEF Init, TypeOK

\* Whether the tree is confused is a truth value, whatever is put in it.
LEMMA ConfusedType ==
  ASSUME TypeOK, NEW S
  PROVE  Confused(S) \in BOOLEAN
BY DEF TypeOK, Confused

\* A dispatch leaves a truth value too.
LEMMA DispatchConfused ==
  ASSUME TypeOK, NEW S, NEW order, NEW blocked, Dispatch(S, order, blocked)
  PROVE  confused' \in BOOLEAN
BY ConfusedType DEF Dispatch

\* What sthread_user_create is building are threads.
LEMMA NewbornsType == TypeOK => Newborns \subseteq Threads
BY DEF TypeOK, Newborns, Range

\* What sthread_user_create made are threads.
LEMMA CreatedType == TypeOK => Created \subseteq Threads
BY NewbornsType DEF TypeOK, Created

\* What a dispatch leaves is well typed, and only a crash leaves no thread active.
LEMMA DispatchType ==
  ASSUME TypeOK, status = "run",
         NEW S \in SUBSET Threads, NEW order \in SUBSET (Threads \X Threads),
         NEW blocked \in SUBSET Threads,
         \A t \in S \cap blocked : join_tid[t] \in Threads,
         Dispatch(S, order, blocked)
  PROVE  /\ status' \in {"run", "crash"}
         /\ active' \in Threads \cup {NULL} /\ (active' = NULL <=> status' # "run")
         /\ ready' \subseteq Threads
         /\ inJoin' \subseteq Threads
         /\ before' \subseteq Threads \X Threads
         /\ got' \in [Threads -> [of : Threads \cup {NULL}, val : Threads \cup {NULL}]]
<1> DEFINE result == [of |-> join_tid[active'], val |-> join_ret[join_tid[active']]]
<1>1. CASE active' \in S /\ ready' = S \ {active'} /\ inJoin' = blocked \ {active'}
           /\ status' = status
           /\ got' = IF active' \in blocked THEN [got EXCEPT ![active'] = result] ELSE got
  <2>1. active' \in Threads /\ active' # NULL
    BY <1>1, ThreadsAssumption
  <2>2. active' \in blocked
          => result \in [of : Threads \cup {NULL}, val : Threads \cup {NULL}]
    BY <1>1 DEF TypeOK
  <2> HIDE DEF result
  <2>3. got' \in [Threads -> [of : Threads \cup {NULL}, val : Threads \cup {NULL}]]
    BY <1>1, <2>1, <2>2 DEF TypeOK
  <2> QED
    BY <1>1, <2>1, <2>3, DispatchOutcome
<1>2. CASE status' = "crash" /\ active' = NULL /\ ready' = S /\ inJoin' = blocked
           /\ got' = got
  BY <1>2, DispatchOutcome DEF TypeOK
<1>3. \/ active' \in S /\ ready' = S \ {active'} /\ inJoin' = blocked \ {active'}
         /\ status' = status
         /\ got' = IF active' \in blocked THEN [got EXCEPT ![active'] = result] ELSE got
      \/ status' = "crash" /\ active' = NULL /\ ready' = S /\ inJoin' = blocked
         /\ got' = got
  BY DispatchOutcome
<1> QED
  BY <1>1, <1>2, <1>3

\* sthread_user_create, reading the key, keeps the types.
LEMMA TypeCreateRead ==
  ASSUME TypeOK, NEW new \in Threads, NEW prio \in Priorities, CreateRead(new, prio)
  PROVE  TypeOK'
<1>1. MinKeys(ready, before, treeUsed) \subseteq Int
  BY MinKeysType DEF TypeOK
<1>2. Clamp(prio) \in 1..10
  BY ClampType, InputsAssumption
<1> QED
  BY <1>1, <1>2 DEF TypeOK, CreateRead, InUserCode, lists, time

\* sthread_user_create, inserting the thread, keeps the types.
LEMMA TypeCreateInsert == TypeOK /\ CreateInsert => TypeOK'
<1> SUFFICES ASSUME TypeOK, CreateInsert PROVE TypeOK'
  OBVIOUS
<1>1. newborn[active] \in Threads
  BY DEF TypeOK, CreateInsert
<1>2. Moved(before, {newborn[active]}, ready) \in SUBSET (Threads \X Threads)
  BY <1>1, MovedType DEF TypeOK
<1>3. confused' \in BOOLEAN
  BY ConfusedType DEF CreateInsert
<1> QED
  BY <1>1, <1>2, <1>3 DEF TypeOK, CreateInsert, fields, time

\* sthread_user_exit keeps the types: what it resumes inside join has a target.
LEMMA TypeExit == TypeOK /\ JoinFrames /\ Exit => TypeOK'
<1> SUFFICES ASSUME TypeOK, JoinFrames, Exit PROVE TypeOK'
  OBVIOUS
<1> DEFINE joiners == {t \in joining : join_tid[t] = active}
           S == ready \cup joiners
           order == Moved(before, joiners, ready)
<1>1. active \in Threads
  BY DEF TypeOK, Exit, Joiners, InUserCode
<1>2. S \in SUBSET Threads /\ order \in SUBSET (Threads \X Threads)
  BY MovedType DEF TypeOK
<1>3. join_ret' \in [Threads -> Threads \cup {NULL}]
  BY <1>1 DEF TypeOK, Exit, Joiners
<1>4. joining' \subseteq Threads /\ zombies' \subseteq Threads /\ dead' \subseteq Threads
  BY <1>1 DEF TypeOK, Exit, Joiners
<1>5. CASE S = {}
  BY <1>1, <1>3, <1>4, <1>5, ThreadsAssumption DEF TypeOK, Exit, Joiners, time, InUserCode
<1>6. CASE S # {}
  <2>1. Dispatch(S, order, inJoin) /\ treeUsed' = TRUE
    BY <1>6 DEF Exit, Joiners
  <2>2. \A t \in S \cap inJoin : join_tid[t] \in Threads
    BY DEF JoinFrames
  <2>3. status = "run" /\ inJoin \in SUBSET Threads
    BY DEF Exit, InUserCode, TypeOK
  <2> HIDE DEF S, order
  <2>4. /\ status' \in {"run", "crash"}
        /\ active' \in Threads \cup {NULL} /\ (active' = NULL <=> status' # "run")
        /\ ready' \subseteq Threads
        /\ inJoin' \subseteq Threads
        /\ before' \subseteq Threads \X Threads
        /\ got' \in [Threads -> [of : Threads \cup {NULL}, val : Threads \cup {NULL}]]
    BY <1>2, <2>1, <2>2, <2>3, DispatchType
  <2>5. confused' \in BOOLEAN
    BY <2>1, DispatchConfused
  <2> QED
    BY <1>3, <1>4, <2>1, <2>4, <2>5 DEF TypeOK, Exit, Joiners, time
<1> QED
  BY <1>5, <1>6

\* sthread_user_yield keeps the types.
LEMMA TypeYield == TypeOK /\ JoinFrames /\ Yield => TypeOK'
<1> SUFFICES ASSUME TypeOK, JoinFrames, Yield PROVE TypeOK'
  OBVIOUS
<1> DEFINE S == ready \cup {active}
           order == Moved(before, {active}, ready)
<1>1. status = "run" /\ inJoin \in SUBSET Threads /\ active \in Threads
  BY DEF Yield, InUserCode, TypeOK
<1>2. S \in SUBSET Threads /\ order \in SUBSET (Threads \X Threads)
  BY <1>1, MovedType DEF TypeOK
<1>3. Dispatch(S, order, inJoin) /\ \A t \in S \cap inJoin : join_tid[t] \in Threads
  BY DEF Yield, JoinFrames
<1> HIDE DEF S, order
<1>4. /\ status' \in {"run", "crash"}
      /\ active' \in Threads \cup {NULL} /\ (active' = NULL <=> status' # "run")
      /\ ready' \subseteq Threads
      /\ inJoin' \subseteq Threads
      /\ before' \subseteq Threads \X Threads
      /\ got' \in [Threads -> [of : Threads \cup {NULL}, val : Threads \cup {NULL}]]
  BY <1>1, <1>2, <1>3, DispatchType
<1>5. confused' \in BOOLEAN
  BY <1>3, DispatchConfused
<1> QED
  BY <1>4, <1>5 DEF TypeOK, Yield, fields, time

\* sthread_nice keeps the types.
LEMMA TypeNice ==
  ASSUME TypeOK, NEW n \in Nices, Nice(n)
  PROVE  TypeOK'
<1>1. Clamp(n) \in 0..10
  <2>1. n \in Int
    BY InputsAssumption
  <2> QED
    BY <2>1, ClampType
<1>2. nice' \in [Threads -> 0..10]
  BY <1>1 DEF TypeOK, Nice
<1> QED
  BY <1>2 DEF TypeOK, Nice, lists, frames, time

\* sthread_user_join of a zombie keeps the types.
LEMMA TypeJoinZombie ==
  ASSUME TypeOK, NEW target \in Threads, JoinZombie(target)
  PROVE  TypeOK'
<1>1. got' \in [Threads -> [of : Threads \cup {NULL}, val : Threads \cup {NULL}]]
  BY DEF TypeOK, JoinZombie, Reap
<1> QED
  BY <1>1 DEF TypeOK, JoinZombie, Reap, fields, time

\* sthread_user_join, when it blocks, keeps the types.
LEMMA TypeJoinBlock ==
  ASSUME TypeOK, OnePlace, JoinFrames, NEW target \in Threads, JoinBlock(target)
  PROVE  TypeOK'
<1> DEFINE order == Moved(before, {active}, joining)
           blocked == inJoin \cup {active}
<1>1. status = "run" /\ active \in Threads
  BY DEF JoinBlock, InUserCode, TypeOK
<1>2. /\ ready \in SUBSET Threads
      /\ order \in SUBSET (Threads \X Threads)
      /\ blocked \in SUBSET Threads
  BY <1>1, MovedType DEF TypeOK
<1>3. /\ Dispatch(ready, order, blocked)
      /\ \A t \in ready \cap blocked : join_tid[t] \in Threads
  BY DEF JoinBlock, JoinFrames, OnePlace
<1> HIDE DEF order, blocked
<1>4. /\ status' \in {"run", "crash"}
      /\ active' \in Threads \cup {NULL} /\ (active' = NULL <=> status' # "run")
      /\ ready' \subseteq Threads
      /\ inJoin' \subseteq Threads
      /\ before' \subseteq Threads \X Threads
      /\ got' \in [Threads -> [of : Threads \cup {NULL}, val : Threads \cup {NULL}]]
  BY <1>1, <1>2, <1>3, DispatchType
<1>5. confused' \in BOOLEAN
  BY <1>3, DispatchConfused
<1> QED
  BY <1>1, <1>4, <1>5 DEF TypeOK, JoinBlock, time

\* sthread_user_sleep keeps the types, when it ends the process too.
LEMMA TypeSleep ==
  ASSUME TypeOK, JoinFrames, NEW microseconds \in Times, Sleep(microseconds)
  PROVE  TypeOK'
<1> DEFINE n == microseconds \div ClockTick
           earlier == {t \in sleeping : wake_time[t] <= Clock + n}
           order == Moved(before, {active}, earlier) \cup ({active} \X (sleeping \ earlier))
<1>1. status = "run" /\ active \in Threads /\ inJoin \in SUBSET Threads
  BY DEF Sleep, InUserCode, TypeOK
<1>2. n \in Int
  BY InputsAssumption, DelayAssumption
<1>3. ready \in SUBSET Threads /\ order \in SUBSET (Threads \X Threads)
  <2>1. Moved(before, {active}, earlier) \in SUBSET (Threads \X Threads)
    BY <1>1, MovedType DEF TypeOK
  <2> QED
    BY <1>1, <2>1 DEF TypeOK
<1>4. wake_time' \in [Threads -> Int] /\ until' \in [Threads -> Int]
  BY <1>1, <1>2 DEF Sleep, TypeOK
<1>5. CASE ready = {}
  <2>1. /\ status' = "exit-1" /\ active' = NULL /\ before' = order
        /\ UNCHANGED <<ready, confused, inJoin, got>>
    BY <1>5 DEF Sleep
  <2> HIDE DEF order
  <2>2. before' \subseteq Threads \X Threads
    BY <1>3, <2>1
  <2>3. sleeping' \subseteq Threads /\ active' \in Threads \cup {NULL}
    BY <1>1, <2>1 DEF TypeOK, Sleep
  <2> QED
    BY <1>4, <2>1, <2>2, <2>3 DEF TypeOK, Sleep
<1>6. CASE ready # {}
  <2>1. Dispatch(ready, order, inJoin)
    BY <1>6 DEF Sleep
  <2>2. \A t \in ready \cap inJoin : join_tid[t] \in Threads
    BY DEF JoinFrames
  <2> HIDE DEF order
  <2>3. /\ status' \in {"run", "crash"}
        /\ active' \in Threads \cup {NULL} /\ (active' = NULL <=> status' # "run")
        /\ ready' \subseteq Threads
        /\ inJoin' \subseteq Threads
        /\ before' \subseteq Threads \X Threads
        /\ got' \in [Threads -> [of : Threads \cup {NULL}, val : Threads \cup {NULL}]]
    BY <1>1, <1>3, <2>1, <2>2, DispatchType
  <2>4. confused' \in BOOLEAN
    BY <2>1, DispatchConfused
  <2> QED
    BY <1>1, <1>4, <2>3, <2>4 DEF TypeOK, Sleep
<1> QED
  BY <1>5, <1>6

\* Only due sleepers are woken.
LEMMA WakeSetsSubset ==
  ASSUME NEW W \in WakeSets
  PROVE  W \subseteq {t \in sleeping : wake_time[t] <= Clock}
BY DEF WakeSets

\* The first part of sthread_user_dispatcher keeps the types.
LEMMA TypeTick == TypeOK /\ JoinFrames /\ Tick => TypeOK'
<1> SUFFICES ASSUME TypeOK, JoinFrames, Tick PROVE TypeOK'
  OBVIOUS
<1>1. /\ status = "run" /\ active \in Threads /\ inJoin \in SUBSET Threads
      /\ ticks' \in 0..MaxTicks
      /\ tails' \in [Threads -> 0..MaxNest]
      /\ times_runned' \in [Threads -> Nat]
  BY BoundsAssumption DEF Tick, TypeOK
<1>2. PICK woken \in WakeSets :
        /\ sleeping' = sleeping \ woken
        /\ wake_time' = [t \in Threads |-> IF t \in woken THEN 0 ELSE wake_time[t]]
        /\ LET S == ready \cup woken
               order == Moved(before, woken, ready)
           IN  \/ /\ Dispatch(S \cup {active}, Moved(order, {active}, S), inJoin)
                  /\ treeUsed' = TRUE
               \/ /\ ready' = S /\ before' = order
                  /\ treeUsed' = (treeUsed \/ woken # {})
                  /\ confused' = Confused(S)
                  /\ UNCHANGED <<status, active, inJoin, got>>
  BY DEF Tick
<1> DEFINE S == ready \cup woken
           order == Moved(before, woken, ready)
           requeued == Moved(order, {active}, S)
<1>3. /\ woken \in SUBSET Threads
      /\ S \in SUBSET Threads
      /\ order \in SUBSET (Threads \X Threads)
      /\ requeued \in SUBSET (Threads \X Threads)
  <2>1. woken \in SUBSET Threads /\ ready \in SUBSET Threads
    BY WakeSetsSubset DEF TypeOK
  <2>2. order \in SUBSET (Threads \X Threads)
    BY <2>1, MovedType DEF TypeOK
  <2> HIDE DEF order
  <2> QED
    BY <1>1, <2>1, <2>2, MovedType
<1>4. wake_time' \in [Threads -> Int] /\ sleeping' \subseteq Threads
  BY <1>2 DEF TypeOK
<1>5. CASE Dispatch(S \cup {active}, requeued, inJoin) /\ treeUsed' = TRUE
  <2>1. \A t \in (S \cup {active}) \cap inJoin : join_tid[t] \in Threads
    BY DEF JoinFrames
  <2>2. S \cup {active} \in SUBSET Threads
    BY <1>1, <1>3
  <2> HIDE DEF S, order, requeued
  <2>3. /\ status' \in {"run", "crash"}
        /\ active' \in Threads \cup {NULL} /\ (active' = NULL <=> status' # "run")
        /\ ready' \subseteq Threads
        /\ inJoin' \subseteq Threads
        /\ before' \subseteq Threads \X Threads
        /\ got' \in [Threads -> [of : Threads \cup {NULL}, val : Threads \cup {NULL}]]
    BY <1>1, <1>3, <1>5, <2>1, <2>2, DispatchType
  <2>4. confused' \in BOOLEAN
    BY <1>5, DispatchConfused
  <2> QED
    BY <1>1, <1>4, <1>5, <2>3, <2>4 DEF TypeOK, Tick
<1>6. CASE /\ ready' = S /\ before' = order /\ treeUsed' = (treeUsed \/ woken # {})
           /\ confused' = Confused(S)
           /\ UNCHANGED <<status, active, inJoin, got>>
  <2> HIDE DEF S, order
  <2>1. confused' \in BOOLEAN
    BY <1>6, ConfusedType
  <2> QED
    BY <1>1, <1>3, <1>4, <1>6, <2>1 DEF TypeOK, Tick
<1> QED
  BY <1>2, <1>5, <1>6

\* The rest of sthread_user_dispatcher keeps the types.
LEMMA TypeDispatcherTail == TypeOK /\ DispatcherTail => TypeOK'
<1> SUFFICES ASSUME TypeOK, DispatcherTail PROVE TypeOK'
  OBVIOUS
<1>1. active \in Threads /\ tails' \in [Threads -> 0..MaxNest]
  BY BoundsAssumption DEF TypeOK, DispatcherTail, ChargeDue
<1>2. vruntime' \in [Threads -> Int] /\ times_runned' \in [Threads -> Nat]
  <2>1. Charged(active, times_runned[active]) \in Int
    BY <1>1 DEF TypeOK, Charged, Weight
  <2>2. vruntime \in [Threads -> Int] /\ times_runned \in [Threads -> Nat]
    BY DEF TypeOK
  <2> QED
    BY <1>1, <2>1, <2>2 DEF DispatcherTail
<1>3. UNCHANGED <<status, lists, priority, nice, wake_time, join_tid, join_ret,
                  newborn, inJoin, got, ticks, until>>
  BY DEF DispatcherTail
<1>4. Clock' \in Nat
  BY DEF TypeOK, DispatcherTail
<1> QED
  BY <1>1, <1>2, <1>3, <1>4 DEF TypeOK, lists

-----------------------------------------------------------------------------
(* The inductive invariant *)

\* What an action that hands over the processor has to establish: the threads
\* S it puts in the tree are nowhere else, and those of blocked, inside a join,
\* are listed as joiners or wait for a dead thread.
Settled(S, blocked) ==
  /\ S \cap (sleeping' \cup joining' \cup zombies' \cup dead' \cup Newborns') = {}
  /\ sleeping' \cap (joining' \cup zombies' \cup dead' \cup Newborns') = {}
  /\ joining' \cap (zombies' \cup dead' \cup Newborns') = {}
  /\ zombies' \cap (dead' \cup Newborns') = {}
  /\ dead' \cap Newborns' = {}
  /\ joining' \subseteq blocked
  /\ \A t \in blocked : /\ join_tid'[t] \in Threads
                        /\ t \in joining' \/ (t \in S /\ join_tid'[t] \in dead')
  /\ \A t \in S : join_tid'[t] = join_tid[t]
  /\ dead \subseteq dead'

\* A handler that left the containers settled may resume any minimal thread.
LEMMA InvAfterDispatch ==
  ASSUME TypeOK, TypeOK', JoinAfterExit,
         NEW S \in SUBSET Threads, NEW order \in SUBSET (Threads \X Threads),
         NEW blocked \in SUBSET Threads,
         Dispatch(S, order, blocked),
         Settled(S, blocked)
  PROVE  OnePlace' /\ JoinFrames' /\ JoinAfterExit'
<1> DEFINE result == [of |-> join_tid[active'], val |-> join_ret[join_tid[active']]]
<1>1. \/ active' \in S /\ ready' = S \ {active'} /\ inJoin' = blocked \ {active'}
         /\ got' = IF active' \in blocked THEN [got EXCEPT ![active'] = result] ELSE got
      \/ active' = NULL /\ ready' = S /\ inJoin' = blocked /\ got' = got
  BY DispatchOutcome
<1>2. OnePlace'
  <2>1. NULL \notin ready' \cup sleeping' \cup joining' \cup zombies' \cup dead'
    BY ThreadsAssumption DEF TypeOK
  <2>2. NULL \notin Newborns'
    BY DEF Newborns
  <2> HIDE DEF result
  <2> QED
    BY <1>1, <2>1, <2>2 DEF OnePlace, Settled
<1>3. JoinFrames'
  <2> HIDE DEF result
  <2> QED
    BY <1>1, ThreadsAssumption DEF JoinFrames, Settled
<1>4. JoinAfterExit'
  <2> SUFFICES ASSUME NEW t \in Threads, got'[t] # NoJoin
               PROVE  got'[t].of \in dead'
    BY DEF JoinAfterExit, NoJoin
  <2>1. CASE got'[t] = got[t]
    BY <2>1 DEF JoinAfterExit, Settled
  <2>2. CASE t = active' /\ active' \in S /\ active' \in blocked /\ got'[t] = result
    <3>1. join_tid[active'] \in dead'
      BY <2>2 DEF Settled
    <3> QED
      BY <2>2, <3>1
  <2> HIDE DEF result
  <2>3. got'[t] = got[t] \/ (t = active' /\ active' \in S /\ active' \in blocked /\ got'[t] = result)
    BY <1>1 DEF TypeOK
  <2> QED
    BY <2>1, <2>2, <2>3
<1> QED
  BY <1>2, <1>3, <1>4

\* sthread_user_init establishes the invariant.
LEMMA InitInv == Init => SchedulerInv
<1> SUFFICES ASSUME Init PROVE SchedulerInv
  OBVIOUS
<1>1. Newborns = {}
  BY DEF Init, Newborns, Range
<1> QED
  BY <1>1, InitType DEF Init, SchedulerInv, OnePlace, NewbornsDistinct, JoinFrames, JoinAfterExit

\* Only sthread_user_create changes who is being built.
LEMMA NewbornsSame == newborn' = newborn => Newborns' = Newborns
BY DEF Newborns, Range

\* sthread_user_exit: its joiners leave join_thr_list as it becomes dead.
LEMMA InvExit == SchedulerInv /\ Exit => SchedulerInv'
<1> SUFFICES ASSUME TypeOK, OnePlace, NewbornsDistinct, JoinFrames, JoinAfterExit, Exit
             PROVE  /\ TypeOK' /\ OnePlace' /\ NewbornsDistinct'
                    /\ JoinFrames' /\ JoinAfterExit'
  BY DEF SchedulerInv
<1> DEFINE joiners == {t \in joining : join_tid[t] = active}
           S == ready \cup joiners
           order == Moved(before, joiners, ready)
<1>1. TypeOK'
  BY TypeExit
<1>2. NewbornsDistinct' /\ Newborns' = Newborns
  BY NewbornsSame DEF Exit, NewbornsDistinct
<1>3. active \in Threads /\ active # NULL /\ inJoin \in SUBSET Threads
  BY ThreadsAssumption DEF Exit, Joiners, InUserCode, TypeOK
<1>4. /\ joining' = joining \ joiners
      /\ zombies' \cup dead' = zombies \cup dead \cup {active}
      /\ zombies \subseteq zombies' /\ dead \subseteq dead'
      /\ zombies' \cap dead' = {}
      /\ joiners # {} => active \in dead'
      /\ UNCHANGED <<sleeping, join_tid>>
  BY DEF Exit, Joiners, OnePlace
<1>5. CASE S = {}
  <2>1. active' = NULL /\ UNCHANGED <<ready, inJoin, got>> /\ dead' = dead
    BY <1>5 DEF Exit, Joiners
  <2>2. OnePlace'
    BY <1>2, <1>3, <1>4, <2>1, ThreadsAssumption, NewbornsType DEF OnePlace, TypeOK
  <2> QED
    BY <1>1, <1>2, <1>4, <1>5, <2>1, <2>2 DEF JoinFrames, JoinAfterExit
<1>6. CASE S # {}
  <2>1. Dispatch(S, order, inJoin)
    BY <1>6 DEF Exit, Joiners
  <2>2. S \in SUBSET Threads /\ order \in SUBSET (Threads \X Threads)
    BY MovedType DEF TypeOK
  <2>3. Settled(S, inJoin)
    BY <1>2, <1>4 DEF OnePlace, JoinFrames, Settled
  <2> HIDE DEF S, order, joiners
  <2> QED
    BY <1>1, <1>2, <1>3, <2>1, <2>2, <2>3, InvAfterDispatch
<1> QED
  BY <1>5, <1>6

\* sthread_user_create: the thread it allocates is in no container yet.
LEMMA InvCreateRead ==
  ASSUME SchedulerInv, NEW new \in Threads, NEW prio \in Priorities, CreateRead(new, prio)
  PROVE  SchedulerInv'
<1> SUFFICES ASSUME TypeOK, OnePlace, NewbornsDistinct, JoinFrames, JoinAfterExit, CreateRead(new, prio)
             PROVE  /\ TypeOK' /\ OnePlace' /\ NewbornsDistinct'
                    /\ JoinFrames' /\ JoinAfterExit'
  BY DEF SchedulerInv
<1>1. TypeOK'
  BY TypeCreateRead
<1>2. /\ UNCHANGED <<active, ready, sleeping, joining, zombies, dead, inJoin, join_tid, got>>
      /\ new \notin Created /\ active \in Threads
      /\ newborn' = [newborn EXCEPT ![active] = new]
  BY DEF CreateRead, InUserCode, lists, TypeOK
<1>3. Newborns' \subseteq Newborns \cup {new}
  BY <1>2 DEF Newborns, Range, TypeOK
<1>4. OnePlace'
  BY <1>2, <1>3, ThreadsAssumption DEF OnePlace, Created
<1>5. NewbornsDistinct'
  <2>1. \A t \in Threads : newborn[t] # new
    BY <1>2, ThreadsAssumption DEF Created, Newborns, Range, TypeOK
  <2> QED
    BY <1>2, <2>1 DEF NewbornsDistinct, TypeOK
<1> QED
  BY <1>1, <1>2, <1>4, <1>5 DEF JoinFrames, JoinAfterExit

\* sthread_user_create: the new thread moves to the tree.
LEMMA InvCreateInsert == SchedulerInv /\ CreateInsert => SchedulerInv'
<1> SUFFICES ASSUME TypeOK, OnePlace, NewbornsDistinct, JoinFrames, JoinAfterExit, CreateInsert
             PROVE  /\ TypeOK' /\ OnePlace' /\ NewbornsDistinct'
                    /\ JoinFrames' /\ JoinAfterExit'
  BY DEF SchedulerInv
<1>1. TypeOK'
  BY TypeCreateInsert
<1>2. /\ UNCHANGED <<active, sleeping, joining, zombies, dead, inJoin, join_tid, got>>
      /\ active \in Threads /\ newborn[active] \in Newborns
      /\ ready' = ready \cup {newborn[active]}
      /\ newborn' = [newborn EXCEPT ![active] = NULL]
  BY DEF CreateInsert, fields, TypeOK, Newborns, Range
<1>3. Newborns' = Newborns \ {newborn[active]}
  <2>1. \A t \in Threads : t # active => newborn'[t] = newborn[t]
                            /\ (newborn[t] = newborn[active] => newborn[t] = NULL)
    BY <1>2 DEF NewbornsDistinct, TypeOK
  <2> QED
    BY <1>2, <2>1 DEF Newborns, Range, TypeOK
<1>4. OnePlace'
  BY <1>2, <1>3 DEF OnePlace
<1>5. NewbornsDistinct'
  BY <1>2 DEF NewbornsDistinct, TypeOK
<1> QED
  BY <1>1, <1>2, <1>4, <1>5 DEF JoinFrames, JoinAfterExit

\* sthread_user_yield: the caller moves to the tree.
LEMMA InvYield == SchedulerInv /\ Yield => SchedulerInv'
<1> SUFFICES ASSUME TypeOK, OnePlace, NewbornsDistinct, JoinFrames, JoinAfterExit, Yield
             PROVE  /\ TypeOK' /\ OnePlace' /\ NewbornsDistinct'
                    /\ JoinFrames' /\ JoinAfterExit'
  BY DEF SchedulerInv
<1> DEFINE S == ready \cup {active}
           order == Moved(before, {active}, ready)
<1>1. TypeOK'
  BY TypeYield
<1>2. NewbornsDistinct' /\ Newborns' = Newborns
  BY NewbornsSame DEF Yield, NewbornsDistinct
<1>3. active \in Threads /\ inJoin \in SUBSET Threads
  BY DEF Yield, InUserCode, TypeOK
<1>4. S \in SUBSET Threads /\ order \in SUBSET (Threads \X Threads)
  BY <1>3, MovedType DEF TypeOK
<1>5. Dispatch(S, order, inJoin)
  BY DEF Yield
<1>6. Settled(S, inJoin)
  BY <1>2 DEF Yield, fields, OnePlace, JoinFrames, Settled
<1> HIDE DEF S, order
<1> QED
  BY <1>1, <1>2, <1>3, <1>4, <1>5, <1>6, InvAfterDispatch

\* sthread_user_join: the zombie it returns for is dead from then on.
LEMMA InvJoinZombie ==
  ASSUME SchedulerInv, NEW target \in Threads, JoinZombie(target)
  PROVE  SchedulerInv'
<1> SUFFICES ASSUME TypeOK, OnePlace, NewbornsDistinct, JoinFrames, JoinAfterExit, JoinZombie(target)
             PROVE  /\ TypeOK' /\ OnePlace' /\ NewbornsDistinct'
                    /\ JoinFrames' /\ JoinAfterExit'
  BY DEF SchedulerInv
<1>1. TypeOK'
  BY TypeJoinZombie
<1>2. NewbornsDistinct' /\ Newborns' = Newborns
  BY NewbornsSame DEF JoinZombie, Reap, NewbornsDistinct
<1>3. OnePlace'
  BY <1>2 DEF JoinZombie, Reap, OnePlace
<1>4. JoinFrames'
  BY DEF JoinZombie, Reap, fields, JoinFrames
<1>5. JoinAfterExit'
  BY DEF JoinZombie, Reap, InUserCode, JoinAfterExit, TypeOK
<1> QED
  BY <1>1, <1>2, <1>3, <1>4, <1>5

\* sthread_user_join: the caller moves to join_thr_list.
LEMMA InvJoinBlock ==
  ASSUME SchedulerInv, NEW target \in Threads, JoinBlock(target)
  PROVE  SchedulerInv'
<1> SUFFICES ASSUME TypeOK, OnePlace, NewbornsDistinct, JoinFrames, JoinAfterExit, JoinBlock(target)
             PROVE  /\ TypeOK' /\ OnePlace' /\ NewbornsDistinct'
                    /\ JoinFrames' /\ JoinAfterExit'
  BY DEF SchedulerInv
<1> DEFINE order == Moved(before, {active}, joining)
           blocked == inJoin \cup {active}
<1>1. TypeOK'
  BY TypeJoinBlock
<1>2. NewbornsDistinct' /\ Newborns' = Newborns
  BY NewbornsSame DEF JoinBlock, NewbornsDistinct
<1>3. /\ active \in Threads /\ ready \in SUBSET Threads /\ blocked \in SUBSET Threads
      /\ order \in SUBSET (Threads \X Threads)
  BY MovedType DEF JoinBlock, InUserCode, TypeOK
<1>4. Dispatch(ready, order, blocked)
  BY DEF JoinBlock
<1>5. Settled(ready, blocked)
  <2>1. /\ joining' = joining \cup {active}
        /\ UNCHANGED <<sleeping, zombies, dead>>
        /\ join_tid' = [join_tid EXCEPT ![active] = target]
    BY DEF JoinBlock
  <2>2. join_tid'[active] = target /\ \A t \in Threads \ {active} : join_tid'[t] = join_tid[t]
    BY <1>3, <2>1 DEF TypeOK
  <2> QED
    BY <1>2, <1>3, <2>1, <2>2 DEF OnePlace, JoinFrames, Settled
<1> HIDE DEF order, blocked
<1> QED
  BY <1>1, <1>2, <1>3, <1>4, <1>5, InvAfterDispatch

\* sthread_user_sleep: the caller moves to the sleep tree.
LEMMA InvSleep ==
  ASSUME SchedulerInv, NEW microseconds \in Times, Sleep(microseconds)
  PROVE  SchedulerInv'
<1> SUFFICES ASSUME TypeOK, OnePlace, NewbornsDistinct, JoinFrames, JoinAfterExit, Sleep(microseconds)
             PROVE  /\ TypeOK' /\ OnePlace' /\ NewbornsDistinct'
                    /\ JoinFrames' /\ JoinAfterExit'
  BY DEF SchedulerInv
<1> DEFINE earlier == {t \in sleeping : wake_time[t] <= Clock + microseconds \div ClockTick}
           order == Moved(before, {active}, earlier) \cup ({active} \X (sleeping \ earlier))
<1>1. TypeOK'
  BY TypeSleep
<1>2. NewbornsDistinct' /\ Newborns' = Newborns
  BY NewbornsSame DEF Sleep, NewbornsDistinct
<1>3. active \in Threads /\ ready \in SUBSET Threads /\ inJoin \in SUBSET Threads
  BY DEF Sleep, InUserCode, TypeOK
<1>4. order \in SUBSET (Threads \X Threads)
  <2>1. Moved(before, {active}, earlier) \in SUBSET (Threads \X Threads)
    BY <1>3, MovedType DEF TypeOK
  <2> QED
    BY <1>3, <2>1 DEF TypeOK
<1>5. sleeping' = sleeping \cup {active} /\ UNCHANGED <<joining, zombies, dead, join_tid>>
  BY DEF Sleep
<1>6. CASE ready = {}
  <2>1. active' = NULL /\ UNCHANGED <<ready, inJoin, got>>
    BY <1>6 DEF Sleep
  <2>2. OnePlace'
    BY <1>2, <1>3, <1>5, <2>1, NewbornsType, ThreadsAssumption DEF OnePlace, TypeOK
  <2> QED
    BY <1>1, <1>2, <1>5, <2>1, <2>2 DEF JoinFrames, JoinAfterExit
<1>7. CASE ready # {}
  <2>1. Dispatch(ready, order, inJoin)
    BY <1>7 DEF Sleep
  <2>2. Settled(ready, inJoin)
    BY <1>2, <1>5 DEF OnePlace, JoinFrames, Settled
  <2> HIDE DEF order
  <2> QED
    BY <1>1, <1>2, <1>3, <1>4, <2>1, <2>2, InvAfterDispatch
<1> QED
  BY <1>6, <1>7

\* sthread_user_dispatcher: due sleepers, and the caller, move to the tree.
LEMMA InvTick == SchedulerInv /\ Tick => SchedulerInv'
<1> SUFFICES ASSUME TypeOK, OnePlace, NewbornsDistinct, JoinFrames, JoinAfterExit, Tick
             PROVE  /\ TypeOK' /\ OnePlace' /\ NewbornsDistinct'
                    /\ JoinFrames' /\ JoinAfterExit'
  BY DEF SchedulerInv
<1>1. TypeOK'
  BY TypeTick
<1>2. NewbornsDistinct' /\ Newborns' = Newborns
  BY NewbornsSame DEF Tick, NewbornsDistinct
<1>3. PICK woken \in WakeSets :
        /\ sleeping' = sleeping \ woken
        /\ LET S == ready \cup woken
               order == Moved(before, woken, ready)
           IN  \/ Dispatch(S \cup {active}, Moved(order, {active}, S), inJoin)
               \/ ready' = S /\ UNCHANGED <<active, inJoin, got>>
  BY DEF Tick
<1> DEFINE S == ready \cup woken
           order == Moved(before, woken, ready)
           requeued == Moved(order, {active}, S)
<1>4. /\ active \in Threads /\ inJoin \in SUBSET Threads
      /\ woken \subseteq sleeping /\ woken \in SUBSET Threads
      /\ UNCHANGED <<joining, zombies, dead, join_tid>>
  BY WakeSetsSubset DEF Tick, TypeOK
<1>5. S \in SUBSET Threads /\ order \in SUBSET (Threads \X Threads)
  BY <1>4, MovedType DEF TypeOK
<1>6. CASE Dispatch(S \cup {active}, requeued, inJoin)
  <2>1. Settled(S \cup {active}, inJoin)
    BY <1>2, <1>3, <1>4 DEF OnePlace, JoinFrames, Settled
  <2>2. S \cup {active} \in SUBSET Threads
    BY <1>4, <1>5
  <2> HIDE DEF S, order
  <2>3. requeued \in SUBSET (Threads \X Threads)
    BY <1>4, <1>5, MovedType
  <2> HIDE DEF requeued
  <2> QED
    BY <1>1, <1>2, <1>4, <1>6, <2>1, <2>2, <2>3, InvAfterDispatch
<1>7. CASE ready' = S /\ UNCHANGED <<active, inJoin, got>>
  <2>1. OnePlace'
    BY <1>2, <1>3, <1>4, <1>7 DEF OnePlace
  <2> QED
    BY <1>1, <1>2, <1>4, <1>7, <2>1 DEF JoinFrames, JoinAfterExit
<1> QED
  BY <1>3, <1>6, <1>7

\* The actions that move no thread.
LEMMA InvStill ==
  ASSUME SchedulerInv, TypeOK',
         UNCHANGED <<active, ready, sleeping, joining, zombies, dead,
                     join_tid, newborn, inJoin, got>>
  PROVE  SchedulerInv'
BY NewbornsSame
DEF SchedulerInv, OnePlace, NewbornsDistinct, JoinFrames, JoinAfterExit

\* Every operation of sthread_user.c preserves the invariant.
LEMMA InvStep == SchedulerInv /\ [Next]_vars => SchedulerInv'
<1> SUFFICES ASSUME SchedulerInv, [Next]_vars PROVE SchedulerInv'
  OBVIOUS
<1>1. ASSUME NEW new \in Threads, NEW prio \in Priorities, CreateRead(new, prio)
      PROVE  SchedulerInv'
  BY <1>1, InvCreateRead
<1>2. CASE CreateInsert
  BY <1>2, InvCreateInsert
<1>3. CASE Exit
  BY <1>3, InvExit
<1>4. CASE Yield
  BY <1>4, InvYield
<1>5. ASSUME NEW n \in Nices, Nice(n)
      PROVE  SchedulerInv'
  <2>1. TypeOK'
    BY <1>5, TypeNice DEF SchedulerInv
  <2> QED
    BY <1>5, <2>1, InvStill DEF Nice, lists, frames
<1>6. ASSUME NEW target \in Threads, JoinZombie(target)
      PROVE  SchedulerInv'
  BY <1>6, InvJoinZombie
<1>7. ASSUME NEW target \in Threads, JoinBlock(target)
      PROVE  SchedulerInv'
  BY <1>7, InvJoinBlock
<1>8. ASSUME NEW microseconds \in Times, Sleep(microseconds)
      PROVE  SchedulerInv'
  BY <1>8, InvSleep
<1>9. CASE Tick
  BY <1>9, InvTick
<1>10. CASE DispatcherTail
  <2>1. TypeOK'
    BY <1>10, TypeDispatcherTail DEF SchedulerInv
  <2> QED
    BY <1>10, <2>1, InvStill DEF DispatcherTail, ChargeDue, lists
<1>11. CASE UNCHANGED vars
  <2>1. TypeOK'
    BY <1>11 DEF SchedulerInv, TypeOK, vars, lists, fields, frames, time
  <2> QED
    BY <1>11, <2>1, InvStill DEF vars, lists, fields, frames
<1> QED
  BY <1>1, <1>2, <1>3, <1>4, <1>5, <1>6, <1>7, <1>8, <1>9, <1>10, <1>11 DEF Next, Ended

\* The inductive invariant holds in every reachable state.
THEOREM SchedulerInvariant == Spec => []SchedulerInv
<1>1. Init => SchedulerInv
  BY InitInv
<1>2. SchedulerInv /\ [Next]_vars => SchedulerInv'
  BY InvStep
<1> QED
  BY <1>1, <1>2, PTL DEF Spec

\* Every field of every thread keeps its range: see TypeOK.
THEOREM TypeCorrect == Spec => []TypeOK
<1>1. SchedulerInv => TypeOK
  BY DEF SchedulerInv
<1> QED
  BY <1>1, SchedulerInvariant, PTL

\* sthread_user.c never files a thread in two containers, nor runs one it filed.
THEOREM ThreadInOnePlace == Spec => []OnePlace
<1>1. SchedulerInv => OnePlace
  BY DEF SchedulerInv
<1> QED
  BY <1>1, SchedulerInvariant, PTL

\* sthread_user_join returns only once its target has exited.
THEOREM JoinWaitsForExit == Spec => []JoinAfterExit
<1>1. SchedulerInv => JoinAfterExit
  BY DEF SchedulerInv
<1> QED
  BY <1>1, SchedulerInvariant, PTL

-----------------------------------------------------------------------------
(* Joiners, zombies and the dead *)

\* exit takes its joiners along and join looks among the zombies first.
LEMMA JoinerStep ==
  TypeOK /\ JoinerMissesNoExit /\ [Next]_vars => JoinerMissesNoExit'
<1> SUFFICES ASSUME TypeOK, JoinerMissesNoExit, [Next]_vars
             PROVE  JoinerMissesNoExit'
  OBVIOUS
<1>1. CASE Exit
  BY <1>1 DEF Exit, Joiners, JoinerMissesNoExit
<1>2. ASSUME NEW target \in Threads, JoinZombie(target)
      PROVE  JoinerMissesNoExit'
  BY <1>2 DEF JoinZombie, Reap, fields, JoinerMissesNoExit
<1>3. ASSUME NEW target \in Threads, JoinBlock(target)
      PROVE  JoinerMissesNoExit'
  <2>1. active \in Threads
    BY <1>3 DEF JoinBlock, Waitable, Handles, InUserCode, TypeOK
  <2>2. /\ joining' = joining \cup {active} /\ zombies' = zombies /\ target \notin zombies
        /\ join_tid' = [join_tid EXCEPT ![active] = target]
    BY <1>3 DEF JoinBlock, Waitable, Handles
  <2>3. join_tid'[active] = target /\ \A t \in Threads \ {active} : join_tid'[t] = join_tid[t]
    BY <2>1, <2>2 DEF TypeOK
  <2> QED
    BY <2>2, <2>3 DEF JoinerMissesNoExit, TypeOK
<1>4. CASE UNCHANGED <<joining, zombies, join_tid>>
  BY <1>4 DEF JoinerMissesNoExit
<1>5. \/ Exit
      \/ \E target \in Threads : JoinZombie(target) \/ JoinBlock(target)
      \/ UNCHANGED <<joining, zombies, join_tid>>
  BY DEF Next, CreateRead, CreateInsert, Yield, Nice, Sleep, Tick, DispatcherTail, Ended,
         vars, lists, fields
<1> QED
  BY <1>1, <1>2, <1>3, <1>4, <1>5

\* Exit and join never miss each other: exit scans join_thr_list and join scans
\* zombie_thr_list, both with ticks off.
THEOREM NoMissedExit == Spec => []JoinerMissesNoExit
<1>1. Init => JoinerMissesNoExit
  BY DEF Init, JoinerMissesNoExit
<1> QED
  BY <1>1, JoinerStep, TypeCorrect, PTL DEF Spec

\* A thread that exited is never run, requeued or forgotten.
THEOREM ExitStaysFinal == Spec => ExitIsFinal
<1> DEFINE Final == dead \subseteq dead' /\ zombies \subseteq zombies' \cup dead'
<1>1. [Next]_vars => [Final]_vars
  <2> SUFFICES ASSUME [Next]_vars PROVE Final
    OBVIOUS
  <2>1. CASE Exit
    BY <2>1 DEF Exit, Joiners
  <2>2. ASSUME NEW target \in Threads, JoinZombie(target)
        PROVE  Final
    BY <2>2 DEF JoinZombie, Reap
  <2>3. CASE UNCHANGED <<dead, zombies>>
    BY <2>3
  <2>4. \/ Exit
        \/ \E target \in Threads : JoinZombie(target)
        \/ UNCHANGED <<dead, zombies>>
    BY DEF Next, CreateRead, CreateInsert, Yield, Nice, JoinBlock, Sleep, Tick,
           DispatcherTail, Ended, vars, lists
  <2> QED
    BY <2>1, <2>2, <2>3, <2>4
<1> QED
  BY <1>1, PTL DEF Spec, ExitIsFinal

-----------------------------------------------------------------------------
(* Ticks and virtual time *)

\* Each dispatcher frame adds one tick and, finished, charges those due.
LEMMA QuantumStep == TypeOK /\ QuantumBound /\ [Next]_vars => QuantumBound'
<1> SUFFICES ASSUME TypeOK, QuantumBound, [Next]_vars PROVE QuantumBound'
  OBVIOUS
<1>1. CASE Tick
  <2>1. /\ active \in Threads
        /\ times_runned' = [times_runned EXCEPT ![active] = @ + 1]
        /\ tails' = [tails EXCEPT ![active] = @ + 1]
    BY <1>1 DEF Tick, TypeOK
  <2> QED
    BY <2>1, DelayAssumption DEF QuantumBound, TypeOK
<1>2. CASE DispatcherTail
  <2>1. /\ active \in Threads /\ tails[active] > 0
        /\ tails' = [tails EXCEPT ![active] = @ - 1]
        /\ \/ times_runned[active] < MinDelay /\ times_runned' = times_runned
           \/ times_runned' = [times_runned EXCEPT ![active] = 0]
    BY <1>2, DelayAssumption DEF DispatcherTail, ChargeDue, TypeOK
  <2> QED
    BY <2>1, DelayAssumption DEF QuantumBound, TypeOK
<1>3. CASE UNCHANGED <<times_runned, tails>>
  BY <1>3 DEF QuantumBound
<1>4. Tick \/ DispatcherTail \/ UNCHANGED <<times_runned, tails>>
  BY DEF Next, CreateRead, CreateInsert, Exit, Yield, Nice, JoinZombie, JoinBlock, Sleep,
         Ended, vars, fields, frames
<1> QED
  BY <1>1, <1>2, <1>3, <1>4

\* min_delay bounds what a thread runs without being charged, but for one tick
\* for each dispatcher frame it has pending.
THEOREM QuantumBounded == Spec => []QuantumBound
<1>1. Init => QuantumBound
  BY DelayAssumption DEF Init, QuantumBound
<1> QED
  BY <1>1, QuantumStep, TypeCorrect, PTL DEF Spec

\* The dispatcher only ever adds to the virtual time of a thread.
THEOREM VruntimeMonotone == Spec => VruntimeGrows
<1> DEFINE Grows == \A t \in Created : vruntime[t] <= vruntime'[t]
<1>1. TypeOK /\ [Next]_vars => [Grows]_vars
  <2> SUFFICES ASSUME TypeOK, [Next]_vars PROVE Grows
    OBVIOUS
  <2>1. ASSUME NEW new \in Threads, NEW prio \in Priorities, CreateRead(new, prio)
        PROVE  Grows
    <3>1. \A t \in Created : t \in Threads /\ t # new
      BY <2>1, CreatedType DEF CreateRead
    <3> QED
      BY <2>1, <3>1 DEF CreateRead, TypeOK
  <2>2. CASE DispatcherTail
    <3>1. active \in Threads /\ Weight(active) * times_runned[active] >= 0
          /\ Weight(active) * times_runned[active] \in Int
      BY <2>2 DEF DispatcherTail, ChargeDue, Weight, TypeOK
    <3>2. vruntime[active] <= Charged(active, times_runned[active])
      BY <3>1 DEF Charged, TypeOK
    <3> QED
      BY <2>2, <3>1, <3>2, CreatedType DEF DispatcherTail, ChargeDue, TypeOK
  <2>3. CASE vruntime' = vruntime
    BY <2>3, CreatedType DEF TypeOK
  <2>4. \/ \E new \in Threads, prio \in Priorities : CreateRead(new, prio)
        \/ DispatcherTail
        \/ vruntime' = vruntime
    BY DEF Next, CreateInsert, Exit, Yield, Nice, JoinZombie, JoinBlock, Sleep, Tick,
           Ended, vars, fields
  <2> QED
    BY <2>1, <2>2, <2>3, <2>4
<1> QED
  BY <1>1, TypeCorrect, PTL DEF Spec, VruntimeGrows

\* Without a sentinel's key in the tree, no node has a smaller key than minimo.
LEMMA MinimaLeast ==
  ASSUME NEW S \in SUBSET Threads, NEW order, NEW t \in Minima(S, order),
         vruntime \in [Threads -> Int], ~Confused(S)
  PROVE  \A u \in S : vruntime[t] <= vruntime[u]
<1>1. t \in S /\ \A u \in S : ~(vruntime[u] < vruntime[t])
  BY DEF Minima, Ahead
<1> QED
  BY <1>1

\* A tick of sthread_user_dispatcher leaves a thread of least vruntime running.
LEMMA TickStep ==
  ASSUME TypeOK, Tick, status' = "run", ~Confused(ready' \cup {active'})
  PROVE  \A t \in ready' : vruntime[active'] <= vruntime[t]
<1>1. PICK woken \in WakeSets :
        LET S == ready \cup woken
            order == Moved(before, woken, ready)
            used == treeUsed \/ woken # {}
        IN  \E k \in MinKeys(S, order, used) :
              IF Charged(active, times_runned[active] + 1) >= k
                THEN Dispatch(S \cup {active}, Moved(order, {active}, S), inJoin)
                ELSE ready' = S /\ UNCHANGED active
  BY DEF Tick
<1> DEFINE S == ready \cup woken
           order == Moved(before, woken, ready)
           requeued == Moved(order, {active}, S)
           used == treeUsed \/ woken # {}
<1>2. /\ active \in Threads /\ vruntime \in [Threads -> Int] /\ inJoin \in SUBSET Threads
      /\ S \in SUBSET Threads /\ order \in SUBSET (Threads \X Threads)
  <2>1. woken \in SUBSET Threads /\ ready \in SUBSET Threads /\ active \in Threads
    BY WakeSetsSubset DEF Tick, TypeOK
  <2> QED
    BY <2>1, MovedType DEF TypeOK
<1>3. CASE Dispatch(S \cup {active}, requeued, inJoin)
  <2>1. S \cup {active} \in SUBSET Threads
    BY <1>2
  <2>2. requeued \in SUBSET (Threads \X Threads)
    <3> HIDE DEF S, order
    <3> QED
      BY <1>2, MovedType
  <2> HIDE DEF requeued
  <2>3. active' \in Minima(S \cup {active}, requeued) /\ ready' = (S \cup {active}) \ {active'}
        /\ active' \in S \cup {active}
    <3> HIDE DEF S
    <3> QED
      BY <1>2, <1>3, <2>1, <2>2, DispatchOutcome
  <2>4. ready' \cup {active'} = S \cup {active}
    BY <2>3
  <2>5. ~Confused(S \cup {active})
    BY <2>4
  <2>6. \A u \in S \cup {active} : vruntime[active'] <= vruntime[u]
    <3> HIDE DEF S
    <3> QED
      BY <1>2, <2>1, <2>3, <2>5, MinimaLeast
  <2> QED
    BY <2>3, <2>6
<1>4. ASSUME NEW k \in MinKeys(S, order, used),
             Charged(active, times_runned[active] + 1) < k,
             ready' = S, active' = active
      PROVE  \A t \in ready' : vruntime[active'] <= vruntime[t]
  <2>1. CASE S = {}
    BY <1>4, <2>1
  <2>2. CASE S # {}
    <3>1. ~Confused(S)
      BY <1>4 DEF Confused
    <3>2. PICK m \in Minima(S, order) : k = vruntime[m]
      BY <2>2, <3>1 DEF MinKeys
    <3>3. \A u \in S : vruntime[m] <= vruntime[u]
      <4> HIDE DEF S, order
      <4> QED
        BY <1>2, <3>1, MinimaLeast
    <3>4. m \in Threads
      <4> HIDE DEF S, order
      <4> QED
        BY <1>2, MinimaSubset
    <3>5. vruntime[active] <= Charged(active, times_runned[active] + 1)
      <4>1. Weight(active) * (times_runned[active] + 1) \in Nat
        BY <1>2 DEF Weight, TypeOK
      <4> QED
        BY <1>2, <4>1 DEF Charged
    <3>6. Charged(active, times_runned[active] + 1) \in Int
      BY <1>2 DEF Charged, Weight, TypeOK
    <3> QED
      BY <1>2, <1>4, <3>2, <3>3, <3>4, <3>5, <3>6
  <2> QED
    BY <2>1, <2>2
<1>5. MinKeys(S, order, used) \subseteq Int /\ Charged(active, times_runned[active] + 1) \in Int
  <2>1. Charged(active, times_runned[active] + 1) \in Int
    BY <1>2 DEF Charged, Weight, TypeOK
  <2> HIDE DEF S, order, used
  <2> QED
    BY <1>2, <2>1, MinKeysType
<1>6. PICK k \in MinKeys(S, order, used) :
        IF Charged(active, times_runned[active] + 1) >= k
          THEN Dispatch(S \cup {active}, requeued, inJoin)
          ELSE ready' = S /\ UNCHANGED active
  BY <1>1
<1>7. CASE Charged(active, times_runned[active] + 1) >= k
  BY <1>3, <1>6, <1>7
<1>8. CASE ~(Charged(active, times_runned[active] + 1) >= k)
  <2>1. Charged(active, times_runned[active] + 1) < k
    <3> HIDE DEF S, order, used
    <3> QED
      BY <1>5, <1>8
  <2>2. ready' = S /\ active' = active
    BY <1>6, <1>8
  <2> QED
    BY <1>4, <2>1, <2>2
<1> QED
  BY <1>7, <1>8

\* After every tick the processor is with a thread of least vruntime, whatever
\* the sleepers the tick woke, as long as no key is the sentinel's.
THEOREM TickIsFair == Spec => TickPicksLeast
<1>1. TypeOK /\ [Next]_vars => [LeastRuns]_vars
  <2> SUFFICES ASSUME TypeOK, [Next]_vars, ticks' # ticks, status' = "run",
                      ~Confused(ready' \cup {active'})
               PROVE  \A t \in ready' : vruntime[active'] <= vruntime[t]
    BY DEF LeastRuns
  <2>1. Tick
    BY DEF Next, CreateRead, CreateInsert, Exit, Yield, Nice, JoinZombie, JoinBlock, Sleep,
           DispatcherTail, Ended, vars, time
  <2> QED
    BY <2>1, TickStep
<1> QED
  BY <1>1, TypeCorrect, PTL DEF Spec, TickPicksLeast

-----------------------------------------------------------------------------
(* The clock.                                                              *)

\* A frame that is added or finished moves the sum of the pending frames by one.
LEMMA PendingMoves ==
  ASSUME TypeOK
  PROVE  /\ SumFunction(tails) \in Nat
         /\ \A t \in Threads :
              /\ SumFunction([tails EXCEPT ![t] = @ + 1]) = SumFunction(tails) + 1
              /\ tails[t] > 0 =>
                   SumFunction([tails EXCEPT ![t] = @ - 1]) = SumFunction(tails) - 1
<1>1. tails \in [Threads -> Nat]
  BY BoundsAssumption DEF TypeOK
<1>2. ASSUME NEW t \in Threads
      PROVE  /\ SumFunction(tails) \in Nat
             /\ SumFunction([tails EXCEPT ![t] = @ + 1]) = SumFunction(tails) + 1
  BY <1>1, ThreadsAssumption, SumPlusOne
<1>3. ASSUME NEW t \in Threads, tails[t] > 0
      PROVE  SumFunction([tails EXCEPT ![t] = @ - 1]) = SumFunction(tails) - 1
  <2> DEFINE fewer == [tails EXCEPT ![t] = @ - 1]
  <2>1. fewer \in [Threads -> Nat] /\ tails = [fewer EXCEPT ![t] = @ + 1]
    <3>1. tails[t] - 1 \in Nat /\ (tails[t] - 1) + 1 = tails[t]
      BY <1>1, <1>3
    <3>2. fewer \in [Threads -> Nat] /\ fewer[t] + 1 = tails[t]
      BY <1>1, <3>1
    <3>3. \A u \in Threads : [fewer EXCEPT ![t] = @ + 1][u] = tails[u]
      BY <1>1, <3>2
    <3> HIDE DEF fewer
    <3>4. [fewer EXCEPT ![t] = @ + 1] \in [Threads -> Nat]
      BY <3>2
    <3> QED
      BY <1>1, <3>2, <3>3, <3>4
  <2> HIDE DEF fewer
  <2>2. /\ SumFunction(fewer) \in Nat
        /\ SumFunction([fewer EXCEPT ![t] = @ + 1]) = SumFunction(fewer) + 1
    BY <2>1, ThreadsAssumption, SumPlusOne
  <2>3. SumFunction(tails) = SumFunction(fewer) + 1
    BY <2>1, <2>2
  <2>4. SumFunction(fewer) = SumFunction(tails) - 1
    BY <2>2, <2>3
  <2> QED
    BY <2>4 DEF fewer
<1> QED
  BY <1>2, <1>3, ThreadsAssumption

\* The clock and the frames that have not yet advanced it count every tick of
\* the dispatcher once.
THEOREM EveryTickCounted == Spec => []ClockAccounting
<1>1. Init => ClockAccounting
  <2> SUFFICES ASSUME Init PROVE ClockAccounting
    OBVIOUS
  <2>1. SumFunction(tails) = 0
    BY ThreadsAssumption, SumZero DEF Init
  <2> QED
    BY <2>1 DEF Init, ClockAccounting
<1>2. TypeOK /\ ClockAccounting /\ [Next]_vars => ClockAccounting'
  <2> SUFFICES ASSUME TypeOK, ClockAccounting, [Next]_vars
               PROVE  ClockAccounting'
    OBVIOUS
  <2>1. Clock \in Nat /\ ticks \in Nat /\ (status = "run" => active \in Threads)
    BY BoundsAssumption DEF TypeOK
  <2>2. CASE Tick
    <3>1. /\ status = "run" /\ ticks' = ticks + 1 /\ Clock' = Clock
          /\ tails' = [tails EXCEPT ![active] = @ + 1]
      BY <2>2 DEF Tick
    <3>2. SumFunction(tails') = SumFunction(tails) + 1 /\ SumFunction(tails) \in Nat
      BY <2>1, <3>1, PendingMoves
    <3> QED
      BY <2>1, <3>1, <3>2 DEF ClockAccounting
  <2>3. CASE DispatcherTail
    <3>1. /\ status = "run" /\ ticks' = ticks /\ Clock' = Clock + 1 /\ tails[active] > 0
          /\ tails' = [tails EXCEPT ![active] = @ - 1]
      BY <2>3 DEF DispatcherTail
    <3>2. SumFunction(tails') = SumFunction(tails) - 1 /\ SumFunction(tails) \in Nat
      BY <2>1, <3>1, PendingMoves
    <3> QED
      BY <2>1, <3>1, <3>2 DEF ClockAccounting
  <2>4. CASE UNCHANGED <<Clock, ticks, tails>>
    BY <2>4 DEF ClockAccounting
  <2> QED
    BY <2>2, <2>3, <2>4
       DEF Next, CreateRead, CreateInsert, Exit, Yield, Nice, JoinZombie, JoinBlock, Sleep,
           Ended, vars, time, frames
<1> QED
  BY <1>1, <1>2, TypeCorrect, PTL DEF Spec
=============================================================================
