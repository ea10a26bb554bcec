------------------------------- MODULE MCTrees ------------------------------
(***************************************************************************)
(* The three uses of the red-black tree, one per behaviour: TreeQueue with *)
(* six nodes, SleepTree and ReadyTree with five.                           *)
(***************************************************************************)
EXTENDS RedBlack, TLC

CONSTANTS
  n1, n2, n3, n4, n5, n6,
  Keys, MaxSleep, MaxClock, MaxKey    \* the bounds of the three

VARIABLES use, tree, Clock, woken, vruntime, out, confused

vars == <<use, tree, Clock, woken, vruntime, out, confused>>

Sleepers == {n1, n2, n3, n4, n5}
Threads == Sleepers

Served == INSTANCE TreeQueue
Asleep == INSTANCE SleepTree WITH Nodes <- Threads
Ready(main) == INSTANCE ReadyTree WITH Nodes <- Threads, Main <- main

\* What a use leaves alone.
NoSleep == Clock = 1 /\ woken = <<>>
NoReady == vruntime = <<>> /\ out = {} /\ confused = FALSE

Init ==
  \/ use = "served" /\ Served!Init /\ NoSleep /\ NoReady
  \/ use = "asleep" /\ Asleep!Init /\ NoReady
  \/ use = "ready" /\ (\E main \in Threads : Ready(main)!Init) /\ NoSleep

Next ==
  /\ UNCHANGED use
  /\ \/ use = "served" /\ Served!Next /\ UNCHANGED <<Clock, woken, vruntime, out, confused>>
     \/ use = "asleep" /\ Asleep!Next /\ UNCHANGED <<vruntime, out, confused>>
     \/ use = "ready" /\ Ready(n1)!Next /\ UNCHANGED <<Clock, woken>>

Spec == Init /\ [][Next]_vars

\* The nodes differ in nothing but their address.
Symmetry == Permutations(Threads)

-----------------------------------------------------------------------------
(* The properties of the three                                             *)

\* Rebalancing keeps the tree balanced and its links mutual, in every order of
\* insertions and removals, also when acordarProcessos removes nodes under its
\* own traversal and when the keys of -1 are ordered inconsistently.
Shape ==
  /\ use = "served" => Served!TypeOK /\ Served!Shape
  /\ use = "asleep" => Asleep!TypeOK /\ Asleep!Shape
  /\ use = "ready" => Ready(n1)!Shape

\* The pointer minimo is the leftmost node: always in a tree of other keys, and
\* in the tree of runnable threads unless a key of -1 has entered it since it
\* was last empty (redblack.c:412-430, 569-575).
MinimoIsFirst ==
  /\ use = "served" => Served!MinimoIsFirst
  /\ use = "ready" => Ready(n1)!ConfusionEnds

\* The tree serves its elements in the order of StableQueue.
Queue == INSTANCE StableQueue WITH
  Elems <- Nodes,
  queue <- IF use = "served" THEN Walked(tree) ELSE <<>>,
  key <- [x \in Nodes |-> IF use = "served" /\ x \in Held(tree) THEN tree.chave[x] ELSE 0]
ImplementsQueue == Queue!Spec

\* A thread that a walk of acordarProcessos (sthread_user.c:850-874) moves is
\* moved once and has left the sleep tree.
WokenOnce == Asleep!WokenOnce

\* A walk wakes in order of wake_time and nobody before its time.
WokenInOrder == Asleep!WokenInOrder

\* A walk over three sleepers or fewer leaves no due one behind.
SmallWalkComplete == Asleep!SmallWalkComplete

\* sthread_user.c:245 and 858: every sleeper whose wake_time has come is moved.
WakesAllDue == Asleep!WakesAllDue

\* redblack.h:27: the structure keeps the smallest node it contains, so the
\* scheduler has one to extract while the tree holds any.
MinimumIsHeld == use = "ready" => Ready(n1)!MinimumIsHeld
=============================================================================
