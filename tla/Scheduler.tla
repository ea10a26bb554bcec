------------------------------ MODULE Scheduler ------------------------------
(***************************************************************************)
(* The user-level scheduler of src/sthread_lib/sthread_user.c: thread      *)
(* creation, exit, voluntary yield, nice, join, sleep, and the dispatcher  *)
(* that clock_tick calls on SIGALRM.                                       *)
(*                                                                         *)
(* One kernel thread runs everything, so a step is the code one user       *)
(* thread runs up to the next place where a tick can interrupt it or where *)
(* sthread_switch resumes another one.  A thread is always resumed with    *)
(* the signal ignored and runs to its splx(LOW), so what it does on        *)
(* resumption belongs to the step that switches to it.                     *)
(*                                                                         *)
(* The containers of the source are the sets below; a thread's position in *)
(* the one it is in is kept by the relation "before".                      *)
(***************************************************************************)
EXTENDS Integers, FiniteSets, Functions

CONSTANTS
  Threads,      \* the struct _sthread objects the program may ever allocate
  Main,         \* main_thread of sthread_user_init
  NULL,
  MinDelay,     \* min_delay: ticks charged to vruntime in one go
  ClockTick,    \* CLOCK_TICK: microseconds between two ticks
  Priorities,   \* the priority arguments callers pass to sthread_create
  Nices,        \* the arguments callers pass to sthread_nice
  Times,        \* the arguments callers pass to sthread_sleep
  WalkExact,    \* the sleep tree walk is complete up to this many sleepers
  MaxNest,      \* bound: dispatcher frames pending on one thread's stack
  MaxTicks      \* bound: ticks handled in a behaviour

ASSUME ThreadsAssumption == IsFiniteSet(Threads) /\ Main \in Threads /\ NULL \notin Threads
ASSUME DelayAssumption == MinDelay \in Nat \ {0} /\ ClockTick \in Nat \ {0}
\* SleepTree!SmallWalkComplete: three; a smaller value allows more behaviours.
ASSUME WalkAssumption == WalkExact \in 0..3
ASSUME InputsAssumption == Priorities \subseteq Int /\ Nices \subseteq Int /\ Times \subseteq Int
ASSUME BoundsAssumption == MaxNest \in Nat \ {0} /\ MaxTicks \in Nat

VARIABLES
  status,       \* "run", or how the process ended: "exit0", "exit-1", "crash"
  active,       \* active_thr
  ready,        \* exe_thr_arvore_rb
  sleeping,     \* sleep_thr_arvore_rb
  joining,      \* join_thr_list
  zombies,      \* zombie_thr_list
  dead,         \* dead_thr_list
  before,       \* <<t, u>>: t precedes u in the container that holds both
  treeUsed,     \* exe_thr_arvore_rb->minimo is no longer NULL
  confused,     \* a key of -1 entered exe_thr_arvore_rb since it was last empty
  vruntime, times_runned, priority, nice, wake_time, join_tid, join_ret,
  newborn,      \* new_thread of the sthread_user_create a thread is inside
  inJoin,       \* threads whose suspended frame is sthread_user_join
  got,          \* what the last join of a thread stored in *value_ptr
  tails,        \* dispatcher frames a thread still has to finish
  Clock,
  ticks,        \* history: dispatcher calls so far
  until         \* history: the value of ticks a sleeper asked to sleep to

lists == <<active, ready, sleeping, joining, zombies, dead, before,
           treeUsed, confused>>
fields == <<vruntime, times_runned, priority, nice, wake_time, join_tid, join_ret>>
frames == <<newborn, inJoin, got, tails>>
time == <<Clock, ticks, until>>
vars == <<status, lists, fields, frames, time>>

-----------------------------------------------------------------------------
(* Helpers *)

EmptyKey == -1       \* the key of the tree's sentinels
NoJoin == [of |-> NULL, val |-> NULL]

ClampLow(n) == IF n < 1 THEN 1 ELSE n
Clamp(n) == IF n > 10 THEN 10 ELSE IF n < 1 THEN 1 ELSE n

WeightSigned(t) == nice[t] - priority[t]
Weight(t) == nice[t] + priority[t]

\* The virtual time t would have if its pending ticks were charged now.
Charged(t, runs) == vruntime[t] + Weight(t) * runs

\* A thread is charged once it has run min_delay ticks.
ChargeOverdue(t) == times_runned[t] > MinDelay
ChargeDue(t) == times_runned[t] >= MinDelay

Newborns == Range(newborn) \ {NULL}
Created == ({active} \ {NULL}) \cup ready \cup sleeping \cup joining
             \cup zombies \cup dead \cup Newborns

\* The threads whose handle sthread_create has returned.
Handles == Created \ (Newborns \cup {Main})

\* Those that join does not find among the zombies.
WaitableUnscanned == Handles
Waitable == Handles \ zombies

\* The threads that an exit of t takes out of join_thr_list.
JoinersAll(t) == joining
Joiners(t) == {u \in joining : join_tid[u] = t}

\* A joined zombie becomes a dead thread.
ReapKeeps(t) == dead' = dead \cup {t} /\ UNCHANGED zombies
ReapFrees(t) == zombies' = zombies \ {t} /\ UNCHANGED dead
Reap(t) == zombies' = zombies \ {t} /\ dead' = dead \cup {t}

\* The order once the threads of N, keeping theirs, are put after those of S.
Moved(order, N, S) ==
  {p \in order : (p[1] \in N) <=> (p[2] \in N)} \cup (S \X N)

(***************************************************************************)
(* The tree of runnable threads extracts a least vruntime, first come      *)
(* first served among equals.  A thread created while an already used tree *)
(* was empty has the sentinel's key, which comparar orders after every     *)
(* other key and before every other key, depending on the side it is on:   *)
(* from then on, until the tree is empty again, any node may be taken for  *)
(* the minimum, the sentinel included (ReadyTree!ConfusionEnds).           *)
(***************************************************************************)
Confused(S) == confused \/ \E t \in S : vruntime[t] = EmptyKey

AheadFifo(t, u, order) == <<t, u>> \in order
Ahead(t, u, order) ==
  \/ vruntime[t] < vruntime[u]
  \/ vruntime[t] = vruntime[u] /\ <<t, u>> \in order

Minima(S, order) ==
  IF Confused(S) THEN S ELSE {t \in S : \A u \in S : ~Ahead(u, t, order)}

\* RBMenorChave: the key of minimo, 0 while no node was ever inserted.
MinKeys(S, order, used) ==
  IF S = {} THEN {IF used THEN EmptyKey ELSE 0}
            ELSE {vruntime[t] : t \in Minima(S, order)} \cup {k \in {EmptyKey} : Confused(S)}

\* acordarProcessos: the leftmost due sleeper is always found; with more than
\* WalkExact sleepers the removals can hide others from the walk.
WakeSets ==
  LET due == {t \in sleeping : wake_time[t] <= Clock}
      first == {t \in due : \A u \in due : <<u, t>> \notin before}
  IN  IF Cardinality(sleeping) <= WalkExact
        THEN {due}
        ELSE {W \in SUBSET due : first \subseteq W}

\* A thread resumed inside sthread_user_join stores the result and returns.
Resume(t, blocked) ==
  /\ inJoin' = blocked \ {t}
  /\ got' = IF t \in blocked
              THEN [got EXCEPT ![t] = [of |-> join_tid[t], val |-> join_ret[join_tid[t]]]]
              ELSE got

\* active_thr = RBExtraiMininimo(...); sthread_switch(...), with S in the tree
\* and the threads of blocked inside a join.
Dispatch(S, order, blocked) ==
  \/ \E t \in Minima(S, order) :
       /\ active' = t
       /\ ready' = S \ {t}
       /\ confused' = (Confused(S) /\ S # {t})
       /\ before' = Moved(order, {t}, {})
       /\ Resume(t, blocked)
       /\ UNCHANGED status
  \/ /\ S = {} \/ Confused(S)       \* a NULL thread is dereferenced
     /\ status' = "crash"
     /\ active' = NULL
     /\ ready' = S
     /\ confused' = Confused(S)
     /\ before' = order
     /\ inJoin' = blocked
     /\ UNCHANGED got

\* active runs its own code, and not inside sthread_user_create
InUserCode ==
  /\ status = "run"
  /\ tails[active] = 0
  /\ newborn[active] = NULL

-----------------------------------------------------------------------------
(* The operations *)

Init ==
  /\ status = "run" /\ active = Main
  /\ ready = {} /\ sleeping = {} /\ joining = {} /\ zombies = {} /\ dead = {}
  /\ before = {} /\ treeUsed = FALSE /\ confused = FALSE
  /\ vruntime = [t \in Threads |-> 0] /\ times_runned = [t \in Threads |-> 0]
  /\ priority = [t \in Threads |-> 1] /\ nice = [t \in Threads |-> 0]
  /\ wake_time = [t \in Threads |-> 0]
  /\ join_tid = [t \in Threads |-> NULL] /\ join_ret = [t \in Threads |-> NULL]
  /\ newborn = [t \in Threads |-> NULL] /\ inJoin = {}
  /\ got = [t \in Threads |-> NoJoin] /\ tails = [t \in Threads |-> 0]
  /\ Clock = 1 /\ ticks = 0 /\ until = [t \in Threads |-> 0]

\* sthread_user_create up to splx(HIGH): the key is read with ticks enabled.
CreateRead(new, prio) ==
  /\ InUserCode
  /\ new \in Threads \ Created
  /\ newborn' = [newborn EXCEPT ![active] = new]
  /\ \E k \in MinKeys(ready, before, treeUsed) :
       vruntime' = [vruntime EXCEPT ![new] = k]
  /\ priority' = [priority EXCEPT ![new] = Clamp(prio)]
  /\ UNCHANGED <<status, lists, times_runned, nice, wake_time, join_tid, join_ret,
                 inJoin, got, tails, time>>

\* The rest of sthread_user_create, under splx(HIGH).
CreateInsert ==
  /\ status = "run" /\ tails[active] = 0 /\ newborn[active] # NULL
  /\ ready' = ready \cup {newborn[active]}
  /\ confused' = Confused(ready')
  /\ before' = Moved(before, {newborn[active]}, ready)
  /\ treeUsed' = TRUE
  /\ newborn' = [newborn EXCEPT ![active] = NULL]
  /\ UNCHANGED <<status, active, sleeping, joining, zombies, dead, fields,
                 inJoin, got, tails, time>>

\* sthread_user_exit; every thread passes its own name as the exit value.
Exit ==
  LET joiners == Joiners(active)
      S == ready \cup joiners
      order == Moved(before, joiners, ready)
  IN  /\ InUserCode
      /\ join_ret' = [t \in Threads |-> IF t \in joiners THEN active ELSE join_ret[t]]
      /\ joining' = joining \ joiners
      /\ IF joiners = {}
           THEN zombies' = zombies \cup {active} /\ UNCHANGED dead
           ELSE dead' = dead \cup {active} /\ UNCHANGED zombies
      /\ IF S = {}
           THEN /\ status' = "exit0"
                /\ active' = NULL
                /\ UNCHANGED <<ready, before, inJoin, got, treeUsed, confused>>
           ELSE /\ Dispatch(S, order, inJoin)
                /\ treeUsed' = TRUE
      /\ UNCHANGED <<sleeping, vruntime, times_runned, priority, nice, wake_time,
                     join_tid, newborn, tails, time>>

\* sthread_user_yield called by the program.
Yield ==
  /\ InUserCode
  /\ Dispatch(ready \cup {active}, Moved(before, {active}, ready), inJoin)
  /\ treeUsed' = TRUE
  /\ UNCHANGED <<sleeping, joining, zombies, dead, fields, newborn, tails, time>>

\* sthread_nice
Nice(n) ==
  /\ InUserCode
  /\ nice' = [nice EXCEPT ![active] = Clamp(n)]
  /\ UNCHANGED <<status, lists, vruntime, times_runned, priority, wake_time,
                 join_tid, join_ret, frames, time>>

\* sthread_user_join of a zombie.
JoinZombie(target) ==
  /\ InUserCode
  /\ target \in Handles \cap zombies
  /\ got' = [got EXCEPT ![active] = [of |-> target, val |-> join_ret[target]]]
  /\ Reap(target)
  /\ UNCHANGED <<status, active, ready, sleeping, joining, before, treeUsed,
                 confused, fields, newborn, inJoin, tails, time>>

\* sthread_user_join of any other thread: the test of line 354 ends in a stray
\* semicolon, so found is 1 whatever the lists hold, and the caller blocks.
JoinBlock(target) ==
  /\ InUserCode
  /\ target \in Waitable
  /\ join_tid' = [join_tid EXCEPT ![active] = target]
  /\ joining' = joining \cup {active}
  /\ Dispatch(ready, Moved(before, {active}, joining), inJoin \cup {active})
  /\ UNCHANGED <<sleeping, zombies, dead, treeUsed, vruntime, times_runned, priority,
                 nice, wake_time, join_ret, newborn, tails, time>>

\* sthread_user_sleep; a time below one tick returns at once and changes nothing.
Sleep(microseconds) ==
  LET wake == Clock + microseconds \div ClockTick
      earlier == {t \in sleeping : wake_time[t] <= wake}
  IN  /\ InUserCode
      /\ microseconds \div ClockTick # 0
      /\ wake_time' = [wake_time EXCEPT ![active] = wake]
      /\ until' = [until EXCEPT ![active] = ticks + microseconds \div ClockTick]
      /\ sleeping' = sleeping \cup {active}
      /\ LET order == Moved(before, {active}, earlier) \cup ({active} \X (sleeping \ earlier))
         IN  IF ready = {}
               THEN /\ status' = "exit-1"
                    /\ active' = NULL
                    /\ before' = order
                    /\ UNCHANGED <<ready, confused, inJoin, got>>
               ELSE Dispatch(ready, order, inJoin)
      /\ UNCHANGED <<joining, zombies, dead, treeUsed, vruntime, times_runned, priority,
                     nice, join_tid, join_ret, newborn, tails, Clock, ticks>>

\* clock_tick -> sthread_user_dispatcher, up to where it yields or goes on.
Tick ==
  /\ status = "run"
  /\ ticks < MaxTicks
  /\ tails[active] < MaxNest
  /\ ticks' = ticks + 1
  /\ tails' = [tails EXCEPT ![active] = @ + 1]
  /\ times_runned' = [times_runned EXCEPT ![active] = @ + 1]
  /\ \E woken \in WakeSets :
       LET S == ready \cup woken
           order == Moved(before, woken, ready)
           used == treeUsed \/ woken # {}
           now == Charged(active, times_runned[active] + 1)
       IN  /\ sleeping' = sleeping \ woken
           /\ wake_time' = [t \in Threads |-> IF t \in woken THEN 0 ELSE wake_time[t]]
           /\ \E k \in MinKeys(S, order, used) :
                IF now >= k
                  THEN /\ Dispatch(S \cup {active}, Moved(order, {active}, S), inJoin)
                       /\ treeUsed' = TRUE
                  ELSE /\ ready' = S /\ before' = order /\ treeUsed' = used
                       /\ confused' = Confused(S)
                       /\ UNCHANGED <<status, active, inJoin, got>>
  /\ UNCHANGED <<joining, zombies, dead, vruntime, priority, nice, join_tid, join_ret,
                 newborn, Clock, until>>

\* The tail with its early return placed before ++Clock.
TailReturnsEarly ==
  /\ status = "run" /\ tails[active] > 0
  /\ tails' = [tails EXCEPT ![active] = @ - 1]
  /\ IF ChargeDue(active)
       THEN /\ Clock' = Clock + 1
            /\ vruntime' = [vruntime EXCEPT ![active] = Charged(active, times_runned[active])]
            /\ times_runned' = [times_runned EXCEPT ![active] = 0]
       ELSE UNCHANGED <<Clock, vruntime, times_runned>>
  /\ UNCHANGED <<status, lists, priority, nice, wake_time, join_tid, join_ret,
                 newborn, inJoin, got, ticks, until>>

\* The rest of sthread_user_dispatcher, run when the thread is resumed.
DispatcherTail ==
  /\ status = "run"
  /\ tails[active] > 0
  /\ tails' = [tails EXCEPT ![active] = @ - 1]
  /\ Clock' = Clock + 1
  /\ IF ChargeDue(active)
       THEN /\ vruntime' = [vruntime EXCEPT ![active] = Charged(active, times_runned[active])]
            /\ times_runned' = [times_runned EXCEPT ![active] = 0]
       ELSE UNCHANGED <<vruntime, times_runned>>
  /\ UNCHANGED <<status, lists, priority, nice, wake_time, join_tid, join_ret,
                 newborn, inJoin, got, ticks, until>>

\* The process has ended.
Ended == status # "run" /\ UNCHANGED vars

Next ==
  \/ \E new \in Threads, prio \in Priorities : CreateRead(new, prio)
  \/ CreateInsert
  \/ Exit
  \/ Yield
  \/ \E n \in Nices : Nice(n)
  \/ \E target \in Threads : JoinZombie(target) \/ JoinBlock(target)
  \/ \E microseconds \in Times : Sleep(microseconds)
  \/ Tick
  \/ DispatcherTail
  \/ Ended

Spec == Init /\ [][Next]_vars

-----------------------------------------------------------------------------
(* Properties *)

\* The fields keep their ranges: nice and priority are clamped to 1..10
\* (nice is 0 until sthread_nice), no tick is charged twice or lost.
TypeOK ==
  /\ status \in {"run", "exit0", "exit-1", "crash"}
  /\ active \in Threads \cup {NULL} /\ (active = NULL <=> status # "run")
  /\ ready \subseteq Threads /\ sleeping \subseteq Threads /\ joining \subseteq Threads
  /\ zombies \subseteq Threads /\ dead \subseteq Threads /\ inJoin \subseteq Threads
  /\ before \subseteq Threads \X Threads /\ treeUsed \in BOOLEAN /\ confused \in BOOLEAN
  /\ vruntime \in [Threads -> Int] /\ times_runned \in [Threads -> Nat]
  /\ priority \in [Threads -> 1..10] /\ nice \in [Threads -> 0..10]
  /\ wake_time \in [Threads -> Int]
  /\ join_tid \in [Threads -> Threads \cup {NULL}]
  /\ join_ret \in [Threads -> Threads \cup {NULL}]
  /\ newborn \in [Threads -> Threads \cup {NULL}]
  /\ got \in [Threads -> [of : Threads \cup {NULL}, val : Threads \cup {NULL}]]
  /\ tails \in [Threads -> 0..MaxNest]
  /\ Clock \in Nat /\ ticks \in 0..MaxTicks /\ until \in [Threads -> Int]

\* A thread is in one place only: running, in one of the containers, or still
\* being built by its creator.  A thread in two of them would run on one stack
\* twice; exit, join and the dispatcher each move threads between several.
OnePlace ==
  /\ active \notin ready \cup sleeping \cup joining \cup zombies \cup dead \cup Newborns
  /\ ready \cap (sleeping \cup joining \cup zombies \cup dead \cup Newborns) = {}
  /\ sleeping \cap (joining \cup zombies \cup dead \cup Newborns) = {}
  /\ joining \cap (zombies \cup dead \cup Newborns) = {}
  /\ zombies \cap (dead \cup Newborns) = {}
  /\ dead \cap Newborns = {}

\* No joiner waits for a thread that has exited and was not reaped: join finds
\* it among the zombies, or exit finds the joiner in join_thr_list.
JoinerMissesNoExit == \A t \in joining : join_tid[t] \notin zombies

\* A join that returned was for a thread that had exited, even when several
\* threads wait and exit wakes some of them.
JoinAfterExit == \A t \in Threads : got[t] # NoJoin => got[t].of \in dead

\* A thread suspended inside join is on join_thr_list while its target lives; it
\* leaves that list for the tree only once the target is dead.
JoinFrames ==
  /\ joining \subseteq inJoin
  /\ \A t \in inJoin :
       /\ join_tid[t] \in Threads
       /\ t \in joining \/ (t \in ready /\ join_tid[t] \in dead)

\* Two calls of create never build the same thread.
NewbornsDistinct ==
  \A t, u \in Threads : newborn[t] = newborn[u] /\ newborn[t] # NULL => t = u

\* The inductive invariant behind the theorems of SchedulerProofs.
SchedulerInv == TypeOK /\ OnePlace /\ NewbornsDistinct /\ JoinFrames /\ JoinAfterExit

\* Every tick the dispatcher handled is credited to Clock exactly once, now or
\* by the frame still pending on the stack of a preempted thread.
ClockAccounting == Clock + SumFunction(tails) = ticks + 1

\* A thread has fewer uncharged ticks than min_delay, but for one for each
\* dispatcher frame it still has to finish: charging is late, never skipped.
QuantumBound == \A t \in Threads : times_runned[t] < MinDelay + tails[t]

\* The dispatcher leaves the processor to a thread of least vruntime, though it
\* compares the charged time of the active thread and requeues the uncharged.
LeastRuns ==
  ticks' # ticks /\ status' = "run" /\ ~Confused(ready' \cup {active'})
    => \A t \in ready' : vruntime[active'] <= vruntime[t]

TickPicksLeast == [][LeastRuns]_vars

\* The virtual time of a thread that exists never goes back.
VruntimeGrows == [][ \A t \in Created : vruntime[t] <= vruntime'[t] ]_vars

\* A thread that exited never runs again, and a reaped one stays reaped.
ExitIsFinal == [][ /\ dead \subseteq dead'
                   /\ zombies \subseteq zombies' \cup dead' ]_vars

-----------------------------------------------------------------------------
(* What the comments say and the code does not do; each is a violation run *)

\* sthread_user.c:309-310: the value passed to exit is what the join stores.
JoinDelivers == \A t \in Threads : got[t].val = got[t].of

\* sthread_user.c:307-308: join suspends unless the target already ended.
JoinOfEnded == status = "run" => \A t \in joining : join_tid[t] \notin dead

\* sthread.h:55: sleep suspends the thread for the time specified.
SleepsAsAsked == [][ \A t \in sleeping \ sleeping' : ticks' >= until[t] ]_vars

\* sthread.h:55-56: sleep suspends the current thread and returns, so the
\* process does not end under a sleeping thread.
SleeperSurvives == sleeping # {} => status = "run"
=============================================================================
