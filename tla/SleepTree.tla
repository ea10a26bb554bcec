------------------------------ MODULE SleepTree ------------------------------
(***************************************************************************)
(* sleep_thr_arvore_rb and the walk of acordarProcessos                    *)
(* (src/sthread_lib/sthread_user.c): an in-order traversal that removes    *)
(* the due nodes while it runs and then follows the right link of a node   *)
(* it may have freed.  The freed chunk is not reused before that read, and *)
(* free keeps the words after the first ones, so the link read is the one  *)
(* the node had when it was removed.                                       *)
(***************************************************************************)
EXTENDS RedBlack

CONSTANTS
  MaxSleep,   \* bound: the longest sleep, in ticks
  MaxClock    \* bound: ticks in a behaviour

VARIABLES
  tree,       \* sleep_thr_arvore_rb, keyed by wake_time
  Clock,
  woken       \* the threads the last walk moved to the runnable tree, in order

vars == <<tree, Clock, woken>>

Init == tree = NovaArvore /\ Clock = 1 /\ woken = <<>>

\* The insertion of sthread_user_sleep.
Sleep(x, n) ==
  /\ x \notin Held(tree)
  /\ tree' = Inserir(tree, x, Clock + n)
  /\ UNCHANGED <<Clock, woken>>

\* The visit of node h: it is woken if its time has come.
VisitarCedo(a, h, now) ==
  IF a.tree.chave[h] <= now + 1
    THEN [tree |-> Remover(a.tree, h), woken |-> Append(a.woken, h)] ELSE a
VisitarTarde(a, h, now) ==
  IF a.tree.chave[h] < now
    THEN [tree |-> Remover(a.tree, h), woken |-> Append(a.woken, h)] ELSE a
VisitarSemRemover(a, h, now) ==
  IF a.tree.chave[h] <= now THEN [a EXCEPT !.woken = Append(@, h)] ELSE a
Visitar(a, h, now) ==
  IF a.tree.chave[h] <= now
    THEN [tree |-> Remover(a.tree, h), woken |-> Append(a.woken, h)] ELSE a

\* acordarProcessos(arvore_sleep, h): a is the tree and the threads woken so far.
RECURSIVE Acordar(_, _, _)
Acordar(a, h, now) ==
  IF h = NIL THEN a
  ELSE LET left == Acordar(a, a.tree.esq[h], now)
           here == Visitar(left, h, now)
       IN  Acordar(here, here.tree.dir[h], now)

\* One dispatcher call: the walk, and the ++Clock that follows it.
Tick ==
  LET walk == Acordar([tree |-> tree, woken |-> <<>>], tree.esq[RAIZ], Clock)
  IN  /\ Clock < MaxClock
      /\ tree' = Tidy(walk.tree)
      /\ woken' = walk.woken
      /\ Clock' = Clock + 1

\* The end of the model's clock, not of the program's.
AtBound == Clock = MaxClock /\ UNCHANGED vars

Next ==
  \/ \E x \in Nodes, n \in 1..MaxSleep : Sleep(x, n)
  \/ Tick
  \/ AtBound

Spec == Init /\ [][Next]_vars

-----------------------------------------------------------------------------
(* Properties *)

\* Keys are wake times or the sentinels' -1, and minimo never falls on NIL,
\* however many nodes one walk removes.
TypeOK ==
  /\ tree.chave \in [Pointers -> -1..(MaxClock + MaxSleep)]
  /\ tree.minimo \in Nodes \cup {RAIZ, NULL}
  /\ Clock \in 1..MaxClock /\ woken \in Seq(Nodes)

\* Removing nodes under the traversal never breaks the tree.
Shape == Balanced(tree) /\ Linked(tree)

\* The threads a walk moved are no longer in the sleep tree and were moved
\* once: a thread moved twice would be twice in the tree of runnable threads.
WokenOnce ==
  [][ woken' # woken => /\ Cardinality({woken'[i] : i \in 1..Len(woken')}) = Len(woken')
                        /\ {woken'[i] : i \in 1..Len(woken')} = Held(tree) \ Held(tree') ]_vars

Due == {x \in Held(tree) : tree.chave[x] <= Clock}

\* A walk wakes in order of wake_time, the earliest due sleeper first, and
\* nobody before time; this is what Scheduler!WakeSets takes from it.
WokenInOrder ==
  [][ Clock' # Clock =>
        /\ \A i \in 1..Len(woken') : woken'[i] \in Due
        /\ \A i, j \in 1..Len(woken') : i < j => tree.chave[woken'[i]] <= tree.chave[woken'[j]]
        /\ Due # {} => woken' # <<>> /\ woken'[1] = Walked(tree)[1] ]_vars

\* With at most three sleepers no rotation hides one: Scheduler!WalkExact.
SmallWalkComplete ==
  [][ Clock' # Clock /\ Cardinality(Held(tree)) <= 3 => Due \cap Held(tree') = {} ]_vars

\* sthread_user.c:245 and 858: the dispatcher moves the processes that woke up
\* to the runnable ones, every one whose wake_time has come.
WakesAllDue == [][ Clock' # Clock => Due \cap Held(tree') = {} ]_vars
=============================================================================
