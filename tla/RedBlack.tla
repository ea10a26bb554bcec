------------------------------ MODULE RedBlack -------------------------------
(***************************************************************************)
(* The red-black tree of src/sthread_lib/redblack.c, pointer by pointer.   *)
(* A tree is a record of the fields of its nodes and the "minimo" pointer; *)
(* NIL and RAIZ are the two sentinels, whose key is -1, and the tree hangs *)
(* from RAIZ's left link.  A node is named by the element it carries.      *)
(*                                                                         *)
(* The source writes each rebalancing step twice, once per side; here the  *)
(* side is a parameter: T[s][x] is x->esq for s = "esq", x->dir for "dir". *)
(***************************************************************************)
EXTENDS Integers, Sequences, FiniteSets

CONSTANTS
  Nodes,      \* the nodes malloc may return, each named by its element
  NIL, RAIZ, NULL

ASSUME SentinelsAssumption == {NIL, RAIZ, NULL} \cap Nodes = {} /\ NIL # RAIZ

Pointers == Nodes \cup {NIL, RAIZ}

Other(s) == IF s = "esq" THEN "dir" ELSE "esq"

\* RBNovaArvore
NovaArvore ==
  [chave |-> [x \in Pointers |-> -1], cor |-> [x \in Pointers |-> "black"],
   esq |-> [x \in Pointers |-> NIL], dir |-> [x \in Pointers |-> NIL],
   pai |-> [x \in Pointers |-> NIL], minimo |-> NULL]

\* comparar: a left operand of -1 counts as greater than anything.
CompararLifo(a, b) == IF a >= b \/ a = -1 THEN 1 ELSE -1
Comparar(a, b) == IF a > b \/ a = -1 THEN 1 ELSE IF a = b THEN 0 ELSE -1

\* RodarEsquerda(T, x) for s = "esq", RodarDireita(T, x) for s = "dir".
Rodar(T, x, s) ==
  LET o == Other(s)
      y == T[o][x]
      p == T.pai[x]
      side == IF x = T.esq[p] THEN "esq" ELSE "dir"
  IN  [T EXCEPT ![o][x] = T[s][y],
                !.pai = [q \in Pointers |-> CASE q = x -> y
                                              [] q = y -> p
                                              [] q = T[s][y] /\ q # NIL -> x
                                              [] OTHER -> @[q]],
                ![side][p] = y,
                ![s][y] = x]

\* InserirNoAux: the leaf under which a new node with key k is linked.
RECURSIVE Descend(_, _, _, _)
Descend(T, y, x, k) ==
  IF x = NIL THEN y
  ELSE Descend(T, x, IF Comparar(T.chave[x], k) = 1 THEN T.esq[x] ELSE T.dir[x], k)

\* A red father p and a red uncle y give their colour to the grandfather g.
RecolorirFilhos(T, p, y, g) == [T EXCEPT !.cor[p] = "black", !.cor[y] = "black"]
Recolorir(T, p, y, g) == [T EXCEPT !.cor[p] = "black", !.cor[y] = "black", !.cor[g] = "red"]

\* The loop of RBInserirNo: x is red and its father may be.
RECURSIVE RepararInserido(_, _)
RepararInserido(T, x) ==
  LET p == T.pai[x]
      g == T.pai[p]
      s == IF p = T.esq[g] THEN "esq" ELSE "dir"
      y == T[Other(s)][g]
      inner == x = T[Other(s)][p]
      T1 == IF inner THEN Rodar(T, p, s) ELSE T
      x1 == IF inner THEN p ELSE x
  IN  IF T.cor[p] # "red" THEN T
      ELSE IF T.cor[y] = "red"
        THEN RepararInserido(Recolorir(T, p, y, g), g)
        ELSE RepararInserido(
               Rodar([T1 EXCEPT !.cor[T1.pai[x1]] = "black", !.cor[g] = "red"],
                     g, Other(s)), x1)

\* RBInserirNo
Inserir(T, x, k) ==
  LET y == Descend(T, RAIZ, T.esq[RAIZ], k)
      side == IF y = RAIZ \/ Comparar(T.chave[y], k) = 1 THEN "esq" ELSE "dir"
      linked == [T EXCEPT !.chave[x] = k, !.cor[x] = "red", !.esq[x] = NIL,
                          !.dir[x] = NIL, !.pai[x] = y, ![side][y] = x]
      fixed == RepararInserido(linked, x)
      least == T.minimo = NULL \/ Comparar(T.chave[T.minimo], k) = 1
  IN  [fixed EXCEPT !.cor[fixed.esq[RAIZ]] = "black",
                    !.minimo = IF least THEN x ELSE @]

\* The three cases of RepararEliminado, for the s side of p: a red sibling is
\* made black, the outer nephew is made red, and the last rotation.
IrmaoPreto(T, p, s) ==
  LET w == T[Other(s)][p]
  IN  IF T.cor[w] = "red"
        THEN Rodar([T EXCEPT !.cor[w] = "black", !.cor[p] = "red"], p, s)
        ELSE T

SobrinhoVermelho(T, p, s) ==
  LET w == T[Other(s)][p]
  IN  IF T.cor[T[Other(s)][w]] = "black"
        THEN Rodar([T EXCEPT !.cor[T[s][w]] = "black", !.cor[w] = "red"], w, Other(s))
        ELSE T

UltimaRotacao(T, p, s) ==
  LET w == T[Other(s)][p]
  IN  Rodar([T EXCEPT !.cor[w] = T.cor[p], !.cor[p] = "black",
                      !.cor[T[Other(s)][w]] = "black"], p, s)

\* RepararEliminado: raiz is read once, before the rotations.
RECURSIVE RepararEliminado(_, _, _)

RepararComIrmao(T, p, s, raiz) ==
  LET w == T[Other(s)][p]
  IN  IF T.cor[T.esq[w]] = "black" /\ T.cor[T.dir[w]] = "black"
        THEN RepararEliminado([T EXCEPT !.cor[w] = "red"], p, raiz)
        ELSE RepararEliminado(UltimaRotacao(SobrinhoVermelho(T, p, s), p, s), raiz, raiz)

RepararEliminado(T, x, raiz) ==
  LET p == T.pai[x]
      s == IF x = T.esq[p] THEN "esq" ELSE "dir"
  IN  IF T.cor[x] = "red" \/ x = raiz
        THEN [T EXCEPT !.cor[x] = "black"]
        ELSE RepararComIrmao(IrmaoPreto(T, p, s), p, s, raiz)

\* Sucessor of a node with a right child, the only way RBRemoverNo calls it.
RECURSIVE Leftmost(_, _)
Leftmost(T, x) == IF T.esq[x] = NIL THEN x ELSE Leftmost(T, T.esq[x])

\* minimo once z, which it pointed at, is removed.
MinimoPai(T, z) == T.pai[z]
NovoMinimo(T, z) == IF T.dir[z] # NIL THEN T.dir[z] ELSE T.pai[z]

\* y takes the place of z.
Substituir(T, y, z) ==
  LET side == IF z = T.esq[T.pai[z]] THEN "esq" ELSE "dir"
  IN  [T EXCEPT !.esq[y] = T.esq[z], !.dir[y] = T.dir[z], !.cor[y] = T.cor[z],
                !.pai = [@ EXCEPT ![y] = T.pai[z], ![T.esq[z]] = y, ![T.dir[z]] = y],
                ![side][T.pai[z]] = y]

AtualizarMinimo(T, z) ==
  IF T.minimo = z THEN [T EXCEPT !.minimo = NovoMinimo(T, z)] ELSE T

\* RBRemoverNo; the fields of the freed node z keep their last values.
Remover(T, z) ==
  LET y == IF T.esq[z] = NIL \/ T.dir[z] = NIL THEN z ELSE Leftmost(T, T.dir[z])
      x == IF T.esq[y] = NIL THEN T.dir[y] ELSE T.esq[y]
      side == IF T.pai[y] = RAIZ \/ y = T.esq[T.pai[y]] THEN "esq" ELSE "dir"
      spliced == [T EXCEPT !.pai[x] = T.pai[y], ![side][T.pai[y]] = x]
      fixed == IF T.cor[y] = "black"
                 THEN RepararEliminado(spliced, x, spliced.esq[RAIZ])
                 ELSE spliced
  IN  AtualizarMinimo(IF y = z THEN fixed ELSE Substituir(fixed, y, z), z)

\* RBMenorChave
MenorChave(T) == IF T.minimo = NULL THEN 0 ELSE T.chave[T.minimo]

-----------------------------------------------------------------------------
(* What a tree holds *)

RECURSIVE InOrder(_, _)
InOrder(T, x) ==
  IF x = NIL THEN <<>> ELSE InOrder(T, T.esq[x]) \o <<x>> \o InOrder(T, T.dir[x])

Walked(T) == InOrder(T, T.esq[RAIZ])
Held(T) == {Walked(T)[i] : i \in 1..Len(Walked(T))}

\* T without the fields of freed nodes, and of NIL's father, which no call of
\* the library reads before it writes them: one representative of equal trees.
Tidy(T) ==
  LET gone == Pointers \ (Held(T) \cup {RAIZ})
  IN  [chave |-> [x \in Pointers |-> IF x \in gone THEN -1 ELSE T.chave[x]],
       cor |-> [x \in Pointers |-> IF x \in gone \ {NIL} THEN "black" ELSE T.cor[x]],
       esq |-> [x \in Pointers |-> IF x \in gone THEN NIL ELSE T.esq[x]],
       dir |-> [x \in Pointers |-> IF x \in gone THEN NIL ELSE T.dir[x]],
       pai |-> [x \in Pointers |-> IF x \in gone THEN NIL ELSE T.pai[x]],
       minimo |-> T.minimo]

-----------------------------------------------------------------------------
(* What a red-black tree is *)

RECURSIVE BlackHeights(_, _)
BlackHeights(T, x) ==
  IF x = NIL THEN {0}
  ELSE {h + (IF T.cor[x] = "black" THEN 1 ELSE 0) :
          h \in BlackHeights(T, T.esq[x]) \cup BlackHeights(T, T.dir[x])}

\* Black root and sentinels, no red node with a red child, one black height.
Balanced(T) ==
  /\ T.cor[NIL] = "black" /\ T.cor[T.esq[RAIZ]] = "black"
  /\ \A x \in Held(T) :
       T.cor[x] = "red" => T.cor[T.esq[x]] = "black" /\ T.cor[T.dir[x]] = "black"
  /\ Cardinality(BlackHeights(T, T.esq[RAIZ])) = 1

\* A child and its father point at each other.
Linked(T) ==
  /\ T.esq[RAIZ] = NIL \/ T.pai[T.esq[RAIZ]] = RAIZ
  /\ \A x \in Held(T), s \in {"esq", "dir"} : T[s][x] = NIL \/ T.pai[T[s][x]] = x

\* minimo is the leftmost node, and a sentinel or NULL in an empty tree.
MinimoFirst(T) ==
  IF T.esq[RAIZ] = NIL THEN T.minimo \in {NULL, RAIZ} ELSE T.minimo = Walked(T)[1]
=============================================================================
