----------------------------- MODULE BlockCache -----------------------------
(***************************************************************************)
(* The cache of disk blocks, cache.c over hash.c and block.c.  Every       *)
(* operation runs under the cache's mutex, so it is one step, computed as  *)
(* a function on the record [e, n, disk, removed]: the table of entries,   *)
(* numeroNosUtilizados, the disk, and whether an entry was taken out.      *)
(*                                                                         *)
(* Two variables are used before they are set.  libertarEspaco counts from *)
(* an arbitrary number, so it may stop after the invalid entries whether   *)
(* or not there were any ("stop").  retirarDaCache passes hashRemove a     *)
(* pointer that may happen to be null, and then the server crashes; the    *)
(* disk is in its memory, and a server started again has a fresh one.      *)
(***************************************************************************)
EXTENDS Naturals, FiniteSets, Functions

CONSTANTS
  Blocks,
  Contents,     \* what is written in a block
  Zero,         \* an erased block
  MaxNos,       \* numeroMaxNos, DIM_CACHE
  MaxAge,       \* passes of actualizarCache an entry survives: 10 s in steps of 2 s
  Watched       \* any one block, which DirtyReachesDisk follows

ASSUME CacheAssumption ==
  /\ IsFiniteSet(Blocks) /\ Watched \in Blocks /\ Zero \notin Contents
  /\ MaxNos \in Nat \ {0} /\ MaxAge \in Nat \ {0}

VARIABLES
  entries,      \* tabela: block -> [valido, referenciado, modificado, tempo, conteudo]
  count,        \* numeroNosUtilizados
  disk,         \* the blocks_t under the cache
  use           \* what the file system uses each block for

vars == <<entries, count, disk, use>>

Init ==
  /\ entries = <<>>
  /\ count = 0
  /\ disk = [b \in Blocks |-> Zero]
  /\ use = [b \in Blocks |-> "free"]

Now == [e |-> entries, n |-> count, disk |-> disk, removed |-> FALSE]
Cached(c, b) == b \in DOMAIN c.e

-----------------------------------------------------------------------------
(* The functions that run inside the mutex                                 *)

RetirarInvalid(c, B) ==
  [e       |-> Restrict(c.e, DOMAIN c.e \ B),
   n       |-> c.n - Cardinality(B),
   disk    |-> [b \in Blocks |-> IF b \in B /\ c.e[b].modificado
                                 THEN c.e[b].conteudo ELSE c.disk[b]],
   removed |-> c.removed \/ B # {}]

\* retirarDaCache of every block of B: valid modified contents go to the disk.
Retirar(c, B) ==
  [e       |-> Restrict(c.e, DOMAIN c.e \ B),
   n       |-> c.n - Cardinality(B),
   disk    |-> [b \in Blocks |-> IF b \in B /\ c.e[b].modificado /\ c.e[b].valido
                                 THEN c.e[b].conteudo ELSE c.disk[b]],
   removed |-> c.removed \/ B # {}]

Class(c, r, m) == {b \in DOMAIN c.e : c.e[b].referenciado = r /\ c.e[b].modificado = m}

\* libertarEspaco: all the invalid entries, then one class of the others, the
\* first that has any.
Libertar(c, stop) ==
  LET c1 == Retirar(c, {b \in DOMAIN c.e : ~c.e[b].valido})
      victims == CASE Class(c1, FALSE, FALSE) # {} -> Class(c1, FALSE, FALSE)
                   [] Class(c1, FALSE, FALSE) = {} /\ Class(c1, FALSE, TRUE) # {}
                        -> Class(c1, FALSE, TRUE)
                   [] \A b \in DOMAIN c1.e : c1.e[b].referenciado
                        -> IF Class(c1, TRUE, FALSE) # {} THEN Class(c1, TRUE, FALSE)
                                                          ELSE Class(c1, TRUE, TRUE)
  IN  IF stop THEN c1 ELSE Retirar(c1, victims)

\* novaEntradaCache: makes room only when the count equals the limit.
Nova(c, b, m, v, stop) ==
  LET c1 == IF c.n = MaxNos THEN Libertar(c, stop) ELSE c
      new == [valido |-> TRUE, referenciado |-> TRUE, modificado |-> m,
              tempo |-> 0, conteudo |-> v]
  IN  [c1 EXCEPT !.e = [d \in DOMAIN c1.e \cup {b} |-> IF d = b THEN new ELSE c1.e[d]],
                 !.n = @ + 1]

Carregar(c, b, stop) == Nova(c, b, FALSE, c.disk[b], stop)

\* A block that is not cached, or whose entry is invalid, comes from the disk.
Fresh(c, b, stop) ==
  CASE ~Cached(c, b) -> Carregar(c, b, stop)
    [] Cached(c, b) /\ ~c.e[b].valido -> Carregar(Retirar(c, {b}), b, stop)
    [] OTHER -> c

Ler(c, b, stop) ==
  LET c1 == Fresh(c, b, stop) IN [c1 EXCEPT !.e[b].referenciado = TRUE]

EscreverRestarts(c, b, v, stop) ==
  IF ~Cached(c, b) THEN Nova(c, b, TRUE, v, stop)
  ELSE [Fresh(c, b, stop) EXCEPT !.e[b] = [valido |-> TRUE, referenciado |-> TRUE,
                                           modificado |-> TRUE, tempo |-> 0, conteudo |-> v]]

Escrever(c, b, v, stop) ==
  IF ~Cached(c, b) THEN Nova(c, b, TRUE, v, stop)
  ELSE LET c1 == Fresh(c, b, stop)
       IN  [c1 EXCEPT !.e[b].conteudo = v, !.e[b].valido = TRUE,
                      !.e[b].referenciado = TRUE, !.e[b].modificado = TRUE]

Invalidar(c, b) == IF Cached(c, b) THEN [c EXCEPT !.e[b].valido = FALSE] ELSE c

EliminarDiskOnly(c, b) == [c EXCEPT !.disk[b] = Zero]

Eliminar(c, b) == [Invalidar(c, b) EXCEPT !.disk[b] = Zero]

\* actualizarCache: a pass ages every entry and retires the old ones.
Aged(x) == [x EXCEPT !.tempo = @ + 1, !.referenciado = FALSE]
Actualizar(c) ==
  LET older == [c EXCEPT !.e = [b \in DOMAIN c.e |-> Aged(c.e[b])]]
  IN  Retirar(older, {b \in DOMAIN c.e : older.e[b].tempo >= MaxAge})

-----------------------------------------------------------------------------
(* Steps: what the threads of the server do with the cache                 *)

\* The outcome c of an operation that leaves each block used as u says; one
\* that takes an entry out may crash instead.
Commit(c, u) ==
  \/ entries' = c.e /\ count' = c.n /\ disk' = c.disk /\ use' = u
  \/ c.removed /\ entries' = <<>> /\ count' = 0 /\ disk' = [b \in Blocks |-> Zero]
               /\ use' = [b \in Blocks |-> "free"]

Used(b, k) == [use EXCEPT ![b] = k]

\* The values of "stop": they differ only when there may be room to make.
Stops == IF count < MaxNos THEN {FALSE} ELSE BOOLEAN

lerCache(b) ==
  /\ use[b] = "file"
  /\ \E stop \in Stops : Commit(Ler(Now, b, stop), use)

\* Files write the blocks they have and those they just took.
escreverCache(b, v) ==
  /\ use[b] \in {"free", "file"}
  /\ \E stop \in Stops : Commit(Escrever(Now, b, v, stop), Used(b, "file"))

eliminarBlocoCache(b) ==
  /\ use[b] = "file"
  /\ Commit(Eliminar(Now, b), Used(b, "free"))

\* The pass of thread_actualiza_Cache.
actualizarCache == Commit(Actualizar(Now), use)

\* Directories, and apagarBloco of a directory's block, go to the disk directly.
block_write(b, v) ==
  /\ use[b] \in {"free", "dir"}
  /\ Commit([Now EXCEPT !.disk[b] = v], Used(b, "dir"))

DirectoryErase(b) ==
  /\ use[b] = "dir"
  /\ Commit([Now EXCEPT !.disk[b] = Zero], Used(b, "free"))

\* mexeBlocoPara to a free block: copied from disk to disk, past the cache.
mexeBlocoPara(b, dest) ==
  /\ use[b] # "free" /\ use[dest] = "free"
  /\ Commit(Invalidar([Now EXCEPT !.disk[dest] = disk[b]], b),
            [use EXCEPT ![dest] = use[b], ![b] = "free"])

Next ==
  \/ \E b \in Blocks :
       \/ lerCache(b) \/ eliminarBlocoCache(b) \/ DirectoryErase(b)
       \/ \E v \in Contents : escreverCache(b, v) \/ block_write(b, v)
       \/ \E dest \in Blocks : mexeBlocoPara(b, dest)
  \/ actualizarCache

\* The refreshing thread sleeps and comes back; nobody has to read or write.
Spec == Init /\ [][Next]_vars /\ WF_vars(actualizarCache)

-----------------------------------------------------------------------------
(* Properties                                                              *)

Entry == [valido : BOOLEAN, referenciado : BOOLEAN, modificado : BOOLEAN,
          tempo : 0 .. MaxAge - 1, conteudo : Contents \cup {Zero}]

TypeOK ==
  /\ DOMAIN entries \subseteq Blocks
  /\ \A b \in DOMAIN entries : entries[b] \in Entry
  /\ count \in Nat
  /\ disk \in [Blocks -> Contents \cup {Zero}]
  /\ use \in [Blocks -> {"free", "file", "dir"}]

\* numeroNosUtilizados counts the entries, whatever order they were replaced,
\* invalidated and loaded again in.
CountExact == count = Cardinality(DOMAIN entries)

\* A clean valid copy equals the disk: a removal that does not write loses nothing.
CleanIsDisk ==
  \A b \in DOMAIN entries :
    (entries[b].valido /\ ~entries[b].modificado) => entries[b].conteudo = disk[b]

\* Blocks reached directly have no valid copy in the cache to be stale.
DirectIsUncached ==
  \A b \in DOMAIN entries : use[b] # "file" => ~entries[b].valido

CacheInv == TypeOK /\ CountExact /\ CleanIsDisk /\ DirectIsUncached

\* What lerCache of a block would return.
View == [b \in Blocks |-> IF Cached(Now, b) /\ entries[b].valido
                          THEN entries[b].conteudo ELSE disk[b]]

Memory == INSTANCE WriteBackMemory WITH mem <- View, disk <- disk

\* cache.h: through replacement, ageing and invalidation the file system sees
\* one memory, which loses a write only to the move of a block.
ImplementsMemory == Memory!Spec

Dirty(b) == Cached(Now, b) /\ entries[b].valido /\ entries[b].modificado

\* thread_actualiza_Cache: a delayed write reaches the disk however often its
\* block is used again, since escreverCache does not restart tempoEmCache.
DirtyReachesDisk == Dirty(Watched) ~> ~Dirty(Watched)
=============================================================================
