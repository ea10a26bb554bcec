------------------------------ MODULE ReadyTree ------------------------------
(***************************************************************************)
(* exe_thr_arvore_rb as src/sthread_lib/sthread_user.c fills it: a created *)
(* thread takes the key RBMenorChave returns, which is the sentinel's -1   *)
(* once the tree has been used and is empty; a thread that ran comes back  *)
(* with the vruntime it has by then.                                       *)
(***************************************************************************)
EXTENDS RedBlack

CONSTANTS
  Main,
  MaxKey      \* bound: the largest vruntime

VARIABLES
  tree,       \* exe_thr_arvore_rb
  vruntime,
  out,        \* threads that are running or blocked somewhere else
  confused    \* history: a key of -1 entered the tree since it was last empty

vars == <<tree, vruntime, out, confused>>

Init ==
  /\ tree = NovaArvore
  /\ vruntime = [x \in Nodes |-> 0]
  /\ out = {Main}
  /\ confused = FALSE

\* sthread_user_create, called by a thread that is not in the tree.
Create(x) ==
  /\ out # {}
  /\ x \notin Held(tree) \cup out
  /\ vruntime' = [vruntime EXCEPT ![x] = MenorChave(tree)]
  /\ tree' = Inserir(tree, x, MenorChave(tree))
  /\ confused' = (confused \/ MenorChave(tree) = -1)
  /\ UNCHANGED out

\* A thread that yields, is preempted or is woken, charged or not since it left.
Return(x, k) ==
  /\ x \in out
  /\ k = vruntime[x] \/ k > vruntime[x]
  /\ vruntime' = [vruntime EXCEPT ![x] = k]
  /\ tree' = Inserir(tree, x, k)
  /\ confused' = (confused \/ k = -1)
  /\ out' = out \ {x}

\* RBExtraiMininimo, called to resume a thread.
Extract ==
  /\ tree.minimo \in Held(tree)
  /\ tree' = Tidy(Remover(tree, tree.minimo))
  /\ out' = out \cup {tree.minimo}
  /\ confused' = (confused /\ Held(tree) # {tree.minimo})
  /\ UNCHANGED vruntime

\* The same where minimo is a sentinel: the library takes RAIZ apart, and the
\* caller switches to a NULL thread.
Crash ==
  /\ Held(tree) # {} /\ tree.minimo \notin Held(tree)
  /\ UNCHANGED vars

Next ==
  \/ \E x \in Nodes : Create(x)
  \/ \E x \in Nodes, k \in -1..MaxKey : Return(x, k)
  \/ Extract
  \/ Crash

Spec == Init /\ [][Next]_vars

-----------------------------------------------------------------------------
(* Properties *)

\* Keys of -1 are ordered inconsistently, yet rebalancing never breaks the tree.
Shape == Balanced(tree) /\ Linked(tree)

\* The confusion ends when the tree runs empty: minimo is the leftmost node of
\* a tree that no key of -1 entered since (Scheduler!Confused).
ConfusionEnds == confused \/ MinimoFirst(tree)

\* redblack.h:27: the structure keeps the smallest node it contains, so there
\* is one to extract while the tree holds any.
MinimumIsHeld == Held(tree) # {} => tree.minimo \in Held(tree)
=============================================================================
