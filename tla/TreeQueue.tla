------------------------------ MODULE TreeQueue ------------------------------
(***************************************************************************)
(* The red-black tree under any sequence of RBInserirNo, RBExtraiMininimo  *)
(* and RBRemoverNo, with keys none of which is the sentinels' -1, and the  *)
(* proof by model checking that it implements StableQueue.                 *)
(***************************************************************************)
EXTENDS RedBlack

CONSTANTS Keys

VARIABLE tree

Init == tree = NovaArvore

\* RBInserirNo
Insert(x, k) ==
  /\ x \notin Held(tree)
  /\ tree' = Inserir(tree, x, k)

\* RBExtraiMininimo of a tree that holds something; the element is minimo's.
ExtractMinimum ==
  /\ Held(tree) # {}
  /\ tree' = Tidy(Remover(tree, tree.minimo))

\* RBRemoverNo of any node, as acordarProcessos and RBAlterarChave call it.
RemoveNode(x) ==
  /\ x \in Held(tree)
  /\ tree' = Tidy(Remover(tree, x))

Next ==
  \/ \E x \in Nodes, k \in Keys : Insert(x, k)
  \/ ExtractMinimum
  \/ \E x \in Nodes : RemoveNode(x)

Spec == Init /\ [][Next]_tree

-----------------------------------------------------------------------------
(* Properties *)

\* The fields hold pointers, colours and keys; the root hangs from RAIZ.
TypeOK ==
  /\ tree.chave \in [Pointers -> Keys \cup {-1}]
  /\ tree.cor \in [Pointers -> {"red", "black"}]
  /\ tree.esq \in [Pointers -> Nodes \cup {NIL}] /\ tree.dir \in [Pointers -> Nodes \cup {NIL}]
  /\ tree.pai \in [Pointers -> Pointers]
  /\ tree.minimo \in Nodes \cup {RAIZ, NULL}

\* Rebalancing keeps the tree balanced and its links mutual, in every order of
\* insertions and removals.
Shape == Balanced(tree) /\ Linked(tree)

\* RBRemoverNo updates minimo by looking at one right child or one father only;
\* that is the leftmost node whatever the rebalancing did.
MinimoIsFirst == MinimoFirst(tree)

\* The tree serves its elements in the order of StableQueue.
Queue == INSTANCE StableQueue WITH
  Elems <- Nodes,
  queue <- Walked(tree),
  key <- [x \in Nodes |-> IF x \in Held(tree) THEN tree.chave[x] ELSE 0]

ImplementsQueue == Queue!Spec
=============================================================================
