-------------------------- MODULE BlockCacheProofs --------------------------
(***************************************************************************)
(* Proofs about BlockCache for any finite disk, any contents, cache size   *)
(* and age: the cache keeps its invariant, and it implements a memory      *)
(* whose writes reach the disk some time later.                            *)
(*                                                                         *)
(* The functions that run inside the mutex work on records.  Good says     *)
(* what such a record keeps, SeenIn what a reader sees in it; each         *)
(* function has a lemma on both, and each action cites its function's.     *)
(***************************************************************************)
EXTENDS BlockCache, FiniteSetTheorems, TLAPS

-----------------------------------------------------------------------------
(* What the records of the cache keep                                      *)

Data == Contents \cup {Zero}

\* An entry while actualizarCache works on it may be one pass too old.
AgedEntry == [valido : BOOLEAN, referenciado : BOOLEAN, modificado : BOOLEAN,
              tempo : Nat, conteudo : Data]

\* The conjuncts of CacheInv that concern the cache, for a record.
Good(c) ==
  /\ DOMAIN c = {"e", "n", "disk", "removed"}
  /\ DOMAIN c.e \subseteq Blocks
  /\ \A b \in DOMAIN c.e : c.e[b] \in AgedEntry
  /\ c.n = Cardinality(DOMAIN c.e)
  /\ c.disk \in [Blocks -> Data]
  /\ \A b \in DOMAIN c.e : c.e[b].valido /\ ~c.e[b].modificado => c.e[b].conteudo = c.disk[b]

\* No entry has outlived its passes.
Young(c) == \A b \in DOMAIN c.e : c.e[b].tempo < MaxAge

\* The blocks with a valid entry, and what a reader sees.
ValidIn(c) == {b \in DOMAIN c.e : c.e[b].valido}
SeenIn(c) == [b \in Blocks |-> IF b \in ValidIn(c) THEN c.e[b].conteudo ELSE c.disk[b]]

\* From c to d nothing was written but, perhaps, cached contents to the disk.
Shrinks(c, d) ==
  /\ DOMAIN d.e \subseteq DOMAIN c.e
  /\ ValidIn(d) \subseteq ValidIn(c)
  /\ SeenIn(d) = SeenIn(c)
  /\ \A b \in Blocks : d.disk[b] \in {SeenIn(c)[b], c.disk[b]}

\* From c to d a reader sees v in b and nothing else changed for it.
Stores(c, d, b, v) ==
  /\ ValidIn(d) \subseteq ValidIn(c) \cup {b}
  /\ SeenIn(d) = [SeenIn(c) EXCEPT ![b] = v]
  /\ \A x \in Blocks : d.disk[x] \in {SeenIn(c)[x], c.disk[x]}

\* The blocks under the cache are finitely many.
LEMMA CachedFinite ==
  ASSUME NEW c, Good(c)
  PROVE  IsFiniteSet(DOMAIN c.e) /\ Cardinality(DOMAIN c.e) \in Nat
BY CacheAssumption, FS_Subset, FS_CardinalityType DEF Good

\* What a reader sees is contents.
LEMMA SeenType ==
  ASSUME NEW c, Good(c)
  PROVE  SeenIn(c) \in [Blocks -> Data]
BY DEF Good, SeenIn, ValidIn, AgedEntry

\* What one function leaves the next may go on from.
LEMMA ShrinksTwice ==
  ASSUME NEW c, NEW d, NEW f, Shrinks(c, d), Shrinks(d, f)
  PROVE  Shrinks(c, f)
BY DEF Shrinks

-----------------------------------------------------------------------------
(* The functions inside the mutex                                          *)

\* retirarDaCache loses no write, whichever entries it takes out.
LEMMA RetirarKeeps ==
  ASSUME NEW c, Good(c), NEW B \in SUBSET DOMAIN c.e
  PROVE  /\ Good(Retirar(c, B)) /\ Shrinks(c, Retirar(c, B))
         /\ DOMAIN Retirar(c, B).e = DOMAIN c.e \ B
         /\ \A b \in DOMAIN c.e \ B : Retirar(c, B).e[b] = c.e[b]
<1> DEFINE d == Retirar(c, B)
<1>1. /\ DOMAIN d = {"e", "n", "disk", "removed"}
      /\ DOMAIN d.e = DOMAIN c.e \ B
      /\ \A b \in DOMAIN d.e : d.e[b] = c.e[b]
      /\ d.n = c.n - Cardinality(B)
      /\ d.disk = [b \in Blocks |-> IF b \in B /\ c.e[b].modificado /\ c.e[b].valido
                                    THEN c.e[b].conteudo ELSE c.disk[b]]
  BY DEF Retirar, Restrict
<1> HIDE DEF d
<1>2. d.n = Cardinality(DOMAIN d.e)
  <2>1. IsFiniteSet(DOMAIN c.e) /\ c.n = Cardinality(DOMAIN c.e) /\ B \subseteq DOMAIN c.e
    BY CachedFinite DEF Good
  <2>2. Cardinality(DOMAIN c.e \ B) = Cardinality(DOMAIN c.e) - Cardinality(DOMAIN c.e \cap B)
    BY <2>1, FS_Difference
  <2>3. DOMAIN c.e \cap B = B
    BY <2>1
  <2> QED
    BY <1>1, <2>1, <2>2, <2>3
<1>3. \A b \in B : c.e[b] \in AgedEntry /\ b \in Blocks
  BY DEF Good
<1>4. d.disk \in [Blocks -> Data]
  BY <1>1, <1>3 DEF Good, AgedEntry
<1>5. Good(d)
  BY <1>1, <1>2, <1>4 DEF Good
<1>6. ValidIn(d) = ValidIn(c) \ B
  BY <1>1 DEF ValidIn
<1>7. ASSUME NEW b \in Blocks
      PROVE  SeenIn(d)[b] = SeenIn(c)[b] /\ d.disk[b] \in {SeenIn(c)[b], c.disk[b]}
  <2>1. CASE b \in B
    <3>1. b \notin ValidIn(d) /\ b \in DOMAIN c.e /\ c.e[b] \in AgedEntry
      BY <1>3, <1>6, <2>1
    <3>2. c.e[b].valido /\ ~c.e[b].modificado => c.e[b].conteudo = c.disk[b]
      BY <3>1 DEF Good
    <3> QED
      BY <1>1, <2>1, <3>1, <3>2 DEF SeenIn, ValidIn, AgedEntry
  <2>2. CASE b \notin B
    BY <1>1, <1>6, <2>2 DEF SeenIn, ValidIn
  <2> QED
    BY <2>1, <2>2
<1>8. SeenIn(d) = SeenIn(c)
  BY <1>7 DEF SeenIn
<1>9. Shrinks(c, d)
  BY <1>1, <1>6, <1>7, <1>8 DEF Shrinks
<1> QED
  BY <1>1, <1>5, <1>9 DEF d

\* libertarEspaco takes out entries of one class after the invalid ones, and loses
\* no write either, wherever it stops.
LEMMA LibertarKeeps ==
  ASSUME NEW c, Good(c), Young(c), NEW stop \in BOOLEAN
  PROVE  /\ Good(Libertar(c, stop)) /\ Young(Libertar(c, stop))
         /\ Shrinks(c, Libertar(c, stop))
<1> DEFINE I == {b \in DOMAIN c.e : ~c.e[b].valido}
           c1 == Retirar(c, I)
<1>1. I \in SUBSET DOMAIN c.e
  OBVIOUS
<1>2. Good(c1) /\ Shrinks(c, c1) /\ Young(c1)
  BY <1>1, RetirarKeeps DEF Young
<1> HIDE DEF c1
<1>3. ASSUME NEW B \in SUBSET DOMAIN c1.e
      PROVE  Good(Retirar(c1, B)) /\ Young(Retirar(c1, B)) /\ Shrinks(c, Retirar(c1, B))
  <2>1. /\ Good(Retirar(c1, B)) /\ Shrinks(c1, Retirar(c1, B))
        /\ DOMAIN Retirar(c1, B).e = DOMAIN c1.e \ B
        /\ \A b \in DOMAIN c1.e \ B : Retirar(c1, B).e[b] = c1.e[b]
    BY <1>2, RetirarKeeps
  <2> QED
    BY <1>2, <2>1, ShrinksTwice DEF Young
<1>4. \A r, m \in BOOLEAN : Class(c1, r, m) \in SUBSET DOMAIN c1.e
  BY DEF Class
<1> DEFINE victims == CASE Class(c1, FALSE, FALSE) # {} -> Class(c1, FALSE, FALSE)
                        [] Class(c1, FALSE, FALSE) = {} /\ Class(c1, FALSE, TRUE) # {}
                             -> Class(c1, FALSE, TRUE)
                        [] \A b \in DOMAIN c1.e : c1.e[b].referenciado
                             -> IF Class(c1, TRUE, FALSE) # {} THEN Class(c1, TRUE, FALSE)
                                                               ELSE Class(c1, TRUE, TRUE)
<1>5. \/ Class(c1, FALSE, FALSE) # {} \/ Class(c1, FALSE, TRUE) # {}
      \/ \A b \in DOMAIN c1.e : c1.e[b].referenciado
  BY <1>2 DEF Class, Good, AgedEntry
<1>6. victims \in SUBSET DOMAIN c1.e
  BY <1>4, <1>5
<1>7. Libertar(c, stop) = IF stop THEN c1 ELSE Retirar(c1, victims)
  BY DEF Libertar, c1
<1> HIDE DEF victims
<1> QED
  BY <1>2, <1>3, <1>6, <1>7

\* novaEntradaCache of a block that is not cached: it counts the entry whether or not
\* it made room, and a reader sees what the entry has.
LEMMA NovaStores ==
  ASSUME NEW c, Good(c), Young(c), NEW b \in Blocks, b \notin DOMAIN c.e,
         NEW m \in BOOLEAN, NEW v \in Data, m \/ v = c.disk[b], NEW stop \in BOOLEAN
  PROVE  /\ Good(Nova(c, b, m, v, stop)) /\ Young(Nova(c, b, m, v, stop))
         /\ Stores(c, Nova(c, b, m, v, stop), b, v)
         /\ b \in ValidIn(Nova(c, b, m, v, stop))
<1> DEFINE c1 == IF c.n = MaxNos THEN Libertar(c, stop) ELSE c
           new == [valido |-> TRUE, referenciado |-> TRUE, modificado |-> m,
                   tempo |-> 0, conteudo |-> v]
           d == Nova(c, b, m, v, stop)
<1>1. Good(c1) /\ Young(c1) /\ Shrinks(c, c1)
  BY LibertarKeeps DEF Shrinks
<1>2. /\ b \notin DOMAIN c1.e
      /\ m \/ v = c1.disk[b]
      /\ DOMAIN c1.e \subseteq Blocks
  BY <1>1 DEF Shrinks, SeenIn, ValidIn, Good
<1> HIDE DEF c1
<1>3. d = [c1 EXCEPT !.e = [x \in DOMAIN c1.e \cup {b} |-> IF x = b THEN new ELSE c1.e[x]],
                     !.n = @ + 1]
  BY DEF Nova, c1
<1>7. new \in AgedEntry /\ new.valido /\ new.modificado = m /\ new.conteudo = v /\ new.tempo = 0
  BY DEF AgedEntry
<1> HIDE DEF d, new
<1>4. /\ DOMAIN d = {"e", "n", "disk", "removed"}
      /\ d.e = [x \in DOMAIN c1.e \cup {b} |-> IF x = b THEN new ELSE c1.e[x]]
      /\ d.n = c1.n + 1 /\ d.disk = c1.disk
  BY <1>1, <1>3 DEF Good
<1>5. /\ DOMAIN d.e = DOMAIN c1.e \cup {b} /\ d.e[b] = new
      /\ \A x \in DOMAIN c1.e : d.e[x] = c1.e[x]
  BY <1>2, <1>4
<1>6. d.n = Cardinality(DOMAIN d.e)
  <2>1. IsFiniteSet(DOMAIN c1.e) /\ c1.n = Cardinality(DOMAIN c1.e)
    BY <1>1, CachedFinite DEF Good
  <2>2. Cardinality(DOMAIN c1.e \cup {b}) = Cardinality(DOMAIN c1.e) + 1
    BY <1>2, <2>1, FS_AddElement
  <2> QED
    BY <1>4, <1>5, <2>1, <2>2
<1>8. Good(d)
  BY <1>1, <1>2, <1>4, <1>5, <1>6, <1>7 DEF Good
<1>9. Young(d)
  BY <1>1, <1>5, <1>7, CacheAssumption DEF Young
<1>10. ValidIn(d) = ValidIn(c1) \cup {b}
  BY <1>5, <1>7 DEF ValidIn
<1>11. SeenIn(d) = [SeenIn(c1) EXCEPT ![b] = v]
  BY <1>2, <1>4, <1>5, <1>7, <1>10 DEF SeenIn, ValidIn
<1>12. Stores(c, d, b, v)
  BY <1>1, <1>4, <1>10, <1>11 DEF Stores, Shrinks
<1> QED
  BY <1>8, <1>9, <1>10, <1>12 DEF d

\* A reader sees the same in a block loaded from the disk, and it is valid.
LEMMA FreshKeeps ==
  ASSUME NEW c, Good(c), Young(c), NEW b \in Blocks, NEW stop \in BOOLEAN
  PROVE  /\ Good(Fresh(c, b, stop)) /\ Young(Fresh(c, b, stop))
         /\ Stores(c, Fresh(c, b, stop), b, SeenIn(c)[b])
         /\ b \in ValidIn(Fresh(c, b, stop))
<1> DEFINE v == SeenIn(c)[b]
<1>1. CASE b \notin DOMAIN c.e
  <2>1. Fresh(c, b, stop) = Nova(c, b, FALSE, c.disk[b], stop)
    BY <1>1 DEF Fresh, Cached, Carregar
  <2>2. c.disk[b] = v /\ c.disk[b] \in Data
    BY <1>1 DEF SeenIn, ValidIn, Good
  <2> QED
    BY <1>1, <2>1, <2>2, NovaStores
<1>2. CASE b \in DOMAIN c.e /\ ~c.e[b].valido
  <2> DEFINE d == Retirar(c, {b})
             f == Nova(d, b, FALSE, d.disk[b], stop)
  <2>1. Fresh(c, b, stop) = f
    BY <1>2 DEF Fresh, Cached, Carregar
  <2>2. Good(d) /\ Shrinks(c, d) /\ b \notin DOMAIN d.e /\ Young(d)
    BY <1>2, RetirarKeeps DEF Young
  <2> HIDE DEF d
  <2>3. d.disk[b] = v /\ d.disk[b] \in Data
    BY <2>2 DEF Shrinks, SeenIn, ValidIn, Good
  <2>4. Good(f) /\ Young(f) /\ Stores(d, f, b, v) /\ b \in ValidIn(f)
    BY <2>2, <2>3, NovaStores
  <2> HIDE DEF f
  <2>5. Stores(c, f, b, v)
    BY <2>2, <2>4 DEF Shrinks, Stores
  <2> QED
    BY <2>1, <2>4, <2>5
<1>3. CASE b \in DOMAIN c.e /\ c.e[b].valido
  <2>1. Fresh(c, b, stop) = c
    BY <1>3 DEF Fresh, Cached
  <2>2. Stores(c, c, b, v) /\ b \in ValidIn(c)
    BY <1>3 DEF Stores, SeenIn, ValidIn
  <2> QED
    BY <2>1, <2>2
<1> QED
  BY <1>1, <1>2, <1>3

\* Changing one valid entry, as lerCache and escreverCache do.
LEMMA EntryStores ==
  ASSUME NEW c, Good(c), Young(c), NEW b \in ValidIn(c), NEW d, NEW x \in AgedEntry,
         d = [c EXCEPT !.e[b] = x], x.valido, x.modificado \/ x.conteudo = c.disk[b],
         x.tempo < MaxAge
  PROVE  /\ Good(d) /\ Young(d)
         /\ ValidIn(d) = ValidIn(c) /\ d.disk = c.disk
         /\ SeenIn(d) = [SeenIn(c) EXCEPT ![b] = x.conteudo]
<1>1. /\ DOMAIN d = {"e", "n", "disk", "removed"}
      /\ d.e = [c.e EXCEPT ![b] = x] /\ d.n = c.n /\ d.disk = c.disk
  BY DEF Good
<1>2. b \in DOMAIN c.e /\ b \in Blocks
  BY DEF ValidIn, Good
<1>3. DOMAIN d.e = DOMAIN c.e /\ d.e[b] = x /\ \A y \in DOMAIN c.e \ {b} : d.e[y] = c.e[y]
  BY <1>1, <1>2
<1>4. Good(d)
  BY <1>1, <1>3 DEF Good
<1>5. Young(d)
  BY <1>3 DEF Young
<1>6. ValidIn(d) = ValidIn(c)
  <2>1. \A y \in DOMAIN c.e : d.e[y].valido <=> c.e[y].valido
    BY <1>3 DEF ValidIn
  <2> QED
    BY <1>3, <2>1 DEF ValidIn
<1>7. SeenIn(d) = [SeenIn(c) EXCEPT ![b] = x.conteudo]
  <2>1. SeenIn(d)[b] = x.conteudo
    BY <1>2, <1>3, <1>6 DEF SeenIn
  <2>2. ASSUME NEW y \in Blocks, y # b PROVE SeenIn(d)[y] = SeenIn(c)[y]
    <3>1. y \in ValidIn(c) => d.e[y] = c.e[y]
      BY <1>3, <2>2 DEF ValidIn
    <3> QED
      BY <1>1, <1>6, <3>1 DEF SeenIn
  <2>3. DOMAIN SeenIn(d) = Blocks /\ DOMAIN SeenIn(c) = Blocks
    BY DEF SeenIn
  <2>4. SeenIn(d) = [y \in Blocks |-> SeenIn(d)[y]] /\ SeenIn(c) = [y \in Blocks |-> SeenIn(c)[y]]
    BY DEF SeenIn
  <2> QED
    BY <2>1, <2>2, <2>3, <2>4
<1> QED
  BY <1>1, <1>4, <1>5, <1>6, <1>7

\* lerCache returns what was there and changes it for no reader.
LEMMA LerKeeps ==
  ASSUME NEW c, Good(c), Young(c), NEW b \in Blocks, NEW stop \in BOOLEAN
  PROVE  /\ Good(Ler(c, b, stop)) /\ Young(Ler(c, b, stop))
         /\ Stores(c, Ler(c, b, stop), b, SeenIn(c)[b])
<1> DEFINE f == Fresh(c, b, stop)
           x == [f.e[b] EXCEPT !.referenciado = TRUE]
           d == Ler(c, b, stop)
<1>1. /\ Good(f) /\ Young(f) /\ b \in ValidIn(f)
      /\ Stores(c, f, b, SeenIn(c)[b])
  BY FreshKeeps
<1>2. d = [f EXCEPT !.e[b] = x]
  BY DEF Ler
<1> HIDE DEF f, d
<1>3. /\ f.e[b] \in AgedEntry /\ f.e[b].valido /\ f.e[b].tempo < MaxAge
      /\ f.e[b].modificado \/ f.e[b].conteudo = f.disk[b]
  BY <1>1 DEF Good, Young, ValidIn
<1>4. /\ x \in AgedEntry /\ x.valido /\ x.tempo < MaxAge
      /\ x.modificado \/ x.conteudo = f.disk[b]
      /\ x.conteudo = f.e[b].conteudo
  BY <1>3 DEF AgedEntry
<1> HIDE DEF x
<1>5. /\ Good(d) /\ Young(d) /\ ValidIn(d) = ValidIn(f) /\ d.disk = f.disk
      /\ SeenIn(d) = [SeenIn(f) EXCEPT ![b] = x.conteudo]
  BY <1>1, <1>2, <1>4, EntryStores
<1>6. SeenIn(d) = SeenIn(f)
  BY <1>1, <1>4, <1>5 DEF SeenIn
<1>7. Stores(c, d, b, SeenIn(c)[b])
  BY <1>1, <1>5, <1>6 DEF Stores
<1> QED
  BY <1>5, <1>7 DEF d

\* escreverCache: a reader sees what was written, in that block only, wherever the
\* entry came from.
LEMMA EscreverStores ==
  ASSUME NEW c, Good(c), Young(c), NEW b \in Blocks, NEW v \in Contents, NEW stop \in BOOLEAN
  PROVE  /\ Good(Escrever(c, b, v, stop)) /\ Young(Escrever(c, b, v, stop))
         /\ Stores(c, Escrever(c, b, v, stop), b, v)
<1>1. CASE b \notin DOMAIN c.e
  BY <1>1, NovaStores DEF Escrever, Cached, Data
<1>2. CASE b \in DOMAIN c.e
  <2> DEFINE f == Fresh(c, b, stop)
             x == [f.e[b] EXCEPT !.conteudo = v, !.valido = TRUE,
                                 !.referenciado = TRUE, !.modificado = TRUE]
             d == Escrever(c, b, v, stop)
  <2>1. /\ Good(f) /\ Young(f) /\ b \in ValidIn(f)
        /\ Stores(c, f, b, SeenIn(c)[b])
    BY FreshKeeps
  <2>2. d = [f EXCEPT !.e[b].conteudo = v, !.e[b].valido = TRUE,
                      !.e[b].referenciado = TRUE, !.e[b].modificado = TRUE]
    BY <1>2 DEF Escrever, Cached
  <2> HIDE DEF f, d
  <2>3. /\ f.e[b] \in AgedEntry /\ f.e[b].tempo < MaxAge /\ b \in DOMAIN f.e
        /\ DOMAIN f = {"e", "n", "disk", "removed"}
    BY <2>1 DEF Good, Young, ValidIn
  <2>4. d = [f EXCEPT !.e[b] = x]
    BY <2>2, <2>3
  <2>5. x \in AgedEntry /\ x.valido /\ x.tempo < MaxAge /\ x.modificado /\ x.conteudo = v
    BY <2>3 DEF AgedEntry, Data
  <2> HIDE DEF x
  <2>6. /\ Good(d) /\ Young(d) /\ ValidIn(d) = ValidIn(f) /\ d.disk = f.disk
        /\ SeenIn(d) = [SeenIn(f) EXCEPT ![b] = x.conteudo]
    BY <2>1, <2>4, <2>5, EntryStores
  <2>7. SeenIn(d) = [SeenIn(c) EXCEPT ![b] = v]
    BY <2>1, <2>5, <2>6 DEF Stores, SeenIn
  <2> QED
    BY <2>1, <2>6, <2>7 DEF Stores, d
<1> QED
  BY <1>1, <1>2

\* An invalid entry is like none: the disk shows through.
LEMMA InvalidarDrops ==
  ASSUME NEW c, Good(c), Young(c), NEW b \in Blocks
  PROVE  /\ Good(Invalidar(c, b)) /\ Young(Invalidar(c, b))
         /\ ValidIn(Invalidar(c, b)) = ValidIn(c) \ {b}
         /\ Invalidar(c, b).disk = c.disk
         /\ SeenIn(Invalidar(c, b)) = [SeenIn(c) EXCEPT ![b] = c.disk[b]]
<1> DEFINE d == Invalidar(c, b)
<1>1. CASE b \notin DOMAIN c.e
  <2>1. d = c
    BY <1>1 DEF Invalidar, Cached
  <2> QED
    BY <1>1, <2>1 DEF ValidIn, SeenIn
<1>2. CASE b \in DOMAIN c.e
  <2>1. d = [c EXCEPT !.e[b].valido = FALSE]
    BY <1>2 DEF Invalidar, Cached
  <2> HIDE DEF d
  <2>2. /\ DOMAIN d = {"e", "n", "disk", "removed"}
        /\ d.e = [c.e EXCEPT ![b].valido = FALSE] /\ d.n = c.n /\ d.disk = c.disk
    BY <2>1 DEF Good
  <2>3. c.e[b] \in AgedEntry
    BY <1>2 DEF Good
  <2>4. /\ DOMAIN d.e = DOMAIN c.e /\ \A y \in DOMAIN c.e \ {b} : d.e[y] = c.e[y]
        /\ d.e[b] \in AgedEntry /\ ~d.e[b].valido /\ d.e[b].tempo = c.e[b].tempo
    BY <1>2, <2>2, <2>3 DEF AgedEntry
  <2>5. Good(d) /\ Young(d)
    BY <2>2, <2>4 DEF Good, Young
  <2>6. ValidIn(d) = ValidIn(c) \ {b}
    BY <1>2, <2>4 DEF ValidIn
  <2>7. SeenIn(d) = [SeenIn(c) EXCEPT ![b] = c.disk[b]]
    BY <2>2, <2>4, <2>6 DEF SeenIn, ValidIn
  <2> QED
    BY <2>2, <2>5, <2>6, <2>7 DEF d
<1> QED
  BY <1>1, <1>2

\* A record whose disk was written under the cache.
OnDisk(c, b, v) == [c EXCEPT !.disk[b] = v]

\* Writing the disk under the cache is seen where no valid entry covers it.
LEMMA DiskStores ==
  ASSUME NEW c, Good(c), Young(c), NEW b \in Blocks, b \notin ValidIn(c), NEW v \in Data
  PROVE  /\ Good(OnDisk(c, b, v)) /\ Young(OnDisk(c, b, v))
         /\ ValidIn(OnDisk(c, b, v)) = ValidIn(c)
         /\ OnDisk(c, b, v).disk = [c.disk EXCEPT ![b] = v]
         /\ SeenIn(OnDisk(c, b, v)) = [SeenIn(c) EXCEPT ![b] = v]
<1> DEFINE d == OnDisk(c, b, v)
<1>1. d = [c EXCEPT !.disk[b] = v]
  BY DEF OnDisk
<1> HIDE DEF d
<1>2. /\ DOMAIN d = {"e", "n", "disk", "removed"}
      /\ d.e = c.e /\ d.n = c.n /\ d.disk = [c.disk EXCEPT ![b] = v]
  BY <1>1 DEF Good
<1>3. \A x \in Blocks : x # b => d.disk[x] = c.disk[x]
  BY <1>2 DEF Good
<1>4. d.disk[b] = v
  BY <1>2 DEF Good
<1>5. Good(d)
  BY <1>2, <1>3 DEF Good, ValidIn
<1>6. Young(d) /\ ValidIn(d) = ValidIn(c)
  BY <1>2 DEF Young, ValidIn
<1>7. SeenIn(d) = [SeenIn(c) EXCEPT ![b] = v]
  BY <1>2, <1>3, <1>4, <1>6 DEF SeenIn
<1> QED
  BY <1>2, <1>5, <1>6, <1>7 DEF d

\* Ageing changes neither what an entry holds nor whether it is valid.
LEMMA AgedType ==
  ASSUME NEW x \in AgedEntry
  PROVE  /\ Aged(x) \in AgedEntry
         /\ Aged(x).valido = x.valido /\ Aged(x).modificado = x.modificado
         /\ Aged(x).conteudo = x.conteudo
<1> DEFINE y == [x EXCEPT !.tempo = x.tempo + 1]
<1>1. y \in AgedEntry /\ y.valido = x.valido /\ y.modificado = x.modificado /\ y.conteudo = x.conteudo
  BY DEF AgedEntry
<1>2. Aged(x) = [y EXCEPT !.referenciado = FALSE]
  BY DEF Aged
<1> HIDE DEF y
<1> QED
  BY <1>1, <1>2 DEF AgedEntry

\* A pass of actualizarCache ages every entry, and those too old leave without losing
\* what was written.
LEMMA ActualizarKeeps ==
  ASSUME NEW c, Good(c), Young(c)
  PROVE  Good(Actualizar(c)) /\ Young(Actualizar(c)) /\ Shrinks(c, Actualizar(c))
<1> DEFINE E == [b \in DOMAIN c.e |-> Aged(c.e[b])]
           o == [c EXCEPT !.e = E]
           B == {b \in DOMAIN c.e : o.e[b].tempo >= MaxAge}
<1>1. Actualizar(c) = Retirar(o, B)
  BY DEF Actualizar
<1>2. /\ DOMAIN o = {"e", "n", "disk", "removed"}
      /\ o.e = E /\ o.n = c.n /\ o.disk = c.disk
  <2> HIDE DEF E
  <2> QED
    BY DEF Good
<1> HIDE DEF o
<1>3. /\ DOMAIN o.e = DOMAIN c.e
      /\ \A b \in DOMAIN c.e :
           /\ o.e[b] \in AgedEntry
           /\ o.e[b].valido = c.e[b].valido /\ o.e[b].modificado = c.e[b].modificado
           /\ o.e[b].conteudo = c.e[b].conteudo
  <2>1. ASSUME NEW b \in DOMAIN c.e
        PROVE  /\ o.e[b] \in AgedEntry
               /\ o.e[b].valido = c.e[b].valido /\ o.e[b].modificado = c.e[b].modificado
               /\ o.e[b].conteudo = c.e[b].conteudo
    <3>1. o.e[b] = Aged(c.e[b])
      BY <1>2
    <3>2. c.e[b] \in AgedEntry
      BY DEF Good
    <3> QED
      BY <3>1, <3>2, AgedType
  <2>2. DOMAIN o.e = DOMAIN c.e
    BY <1>2
  <2> HIDE DEF E
  <2> QED
    BY <2>1, <2>2
<1> HIDE DEF E
<1>4. Good(o)
  BY <1>2, <1>3 DEF Good
<1>5. ValidIn(o) = ValidIn(c)
  BY <1>3 DEF ValidIn
<1>6. SeenIn(o) = SeenIn(c)
  BY <1>2, <1>3, <1>5 DEF SeenIn, ValidIn
<1>7. Shrinks(c, o)
  BY <1>2, <1>3, <1>5, <1>6 DEF Shrinks
<1>8. B \in SUBSET DOMAIN o.e
  BY <1>3
<1>9. \A b \in DOMAIN o.e \ B : o.e[b].tempo < MaxAge
  BY <1>3, CacheAssumption DEF AgedEntry
<1> HIDE DEF B
<1>10. /\ Good(Retirar(o, B)) /\ Shrinks(o, Retirar(o, B))
       /\ DOMAIN Retirar(o, B).e = DOMAIN o.e \ B
       /\ \A b \in DOMAIN o.e \ B : Retirar(o, B).e[b] = o.e[b]
  BY <1>4, <1>8, RetirarKeeps
<1>11. Young(Retirar(o, B))
  BY <1>9, <1>10 DEF Young
<1>12. Shrinks(c, Retirar(o, B))
  BY <1>7, <1>10, ShrinksTwice
<1> QED
  BY <1>1, <1>10, <1>11, <1>12

-----------------------------------------------------------------------------
(* The steps                                                               *)

\* The invariant, in the terms of the records.
LEMMA InvGood ==
  CacheInv => /\ Good(Now) /\ Young(Now) /\ SeenIn(Now) = View /\ Now.disk = disk
              /\ \A b \in ValidIn(Now) : use[b] = "file"
<1> SUFFICES ASSUME CacheInv
             PROVE  /\ Good(Now) /\ Young(Now) /\ SeenIn(Now) = View /\ Now.disk = disk
                    /\ \A b \in ValidIn(Now) : use[b] = "file"
  OBVIOUS
<1>1. /\ DOMAIN Now = {"e", "n", "disk", "removed"}
      /\ Now.e = entries /\ Now.n = count /\ Now.disk = disk
  BY DEF Now
<1> HIDE DEF Now
<1>2. \A b \in DOMAIN entries : entries[b] \in AgedEntry /\ entries[b].tempo < MaxAge
  BY CacheAssumption DEF CacheInv, TypeOK, Entry, AgedEntry, Data
<1>3. Good(Now)
  BY <1>1, <1>2 DEF CacheInv, TypeOK, CountExact, CleanIsDisk, Good, Data
<1>4. Young(Now)
  BY <1>1, <1>2 DEF Young
<1>5. SeenIn(Now) = View
  BY <1>1 DEF SeenIn, View, ValidIn, Cached
<1>6. \A b \in ValidIn(Now) : use[b] = "file"
  <2>1. ASSUME NEW b \in ValidIn(Now), use[b] # "file" PROVE FALSE
    BY <1>1, <2>1 DEF CacheInv, DirectIsUncached, ValidIn
  <2> QED
    BY <2>1
<1> QED
  BY <1>1, <1>3, <1>4, <1>5, <1>6

\* What a reader sees after a step.
LEMMA ViewNext ==
  View' = [b \in Blocks |-> IF b \in DOMAIN entries' /\ entries'[b].valido
                            THEN entries'[b].conteudo ELSE disk'[b]]
BY DEF View, Cached, Now

\* An operation on the record keeps the invariant and shows what the record shows,
\* unless it crashes and the server starts again.
LEMMA CommitStep ==
  ASSUME NEW c, Good(c), Young(c), NEW u \in [Blocks -> {"free", "file", "dir"}],
         \A b \in ValidIn(c) : u[b] = "file", Commit(c, u)
  PROVE  /\ CacheInv'
         /\ (View' = SeenIn(c) /\ disk' = c.disk) \/ Memory!Restart
<1>1. CASE entries' = c.e /\ count' = c.n /\ disk' = c.disk /\ use' = u
  <2>1. count' = Cardinality(DOMAIN entries') /\ count' \in Nat
    BY <1>1, CachedFinite DEF Good
  <2>2. \A b \in DOMAIN entries' : entries'[b] \in Entry
    <3>1. ASSUME NEW b \in DOMAIN c.e PROVE c.e[b] \in Entry
      <4>1. c.e[b] \in AgedEntry /\ c.e[b].tempo < MaxAge
        BY DEF Good, Young
      <4>2. c.e[b].tempo \in 0 .. MaxAge - 1
        BY <4>1, CacheAssumption DEF AgedEntry
      <4> QED
        BY <4>1, <4>2 DEF AgedEntry, Entry, Data
    <3> QED
      BY <1>1, <3>1
  <2>3. TypeOK'
    BY <1>1, <2>1, <2>2 DEF TypeOK, Good, Data
  <2>4. CleanIsDisk'
    BY <1>1 DEF CleanIsDisk, Good
  <2>5. DirectIsUncached'
    BY <1>1 DEF DirectIsUncached, ValidIn
  <2>6. View' = SeenIn(c)
    BY <1>1, ViewNext DEF SeenIn, ValidIn
  <2> QED
    BY <1>1, <2>1, <2>3, <2>4, <2>5, <2>6 DEF CacheInv, CountExact
<1>2. CASE /\ entries' = <<>> /\ count' = 0 /\ disk' = [b \in Blocks |-> Zero]
           /\ use' = [b \in Blocks |-> "free"]
  <2>1. DOMAIN entries' = {}
    BY <1>2
  <2>2. CacheInv'
    BY <1>2, <2>1, FS_EmptySet DEF CacheInv, TypeOK, CountExact, CleanIsDisk, DirectIsUncached
  <2>3. View' = disk'
    BY <1>2, <2>1, ViewNext
  <2> QED
    BY <1>2, <2>2, <2>3 DEF Memory!Restart
<1> QED
  BY <1>1, <1>2 DEF Commit

\* Delayed writes that reach the disk are a flush of the memory.
LEMMA FlushStep ==
  ASSUME NEW c, Good(c), disk' = c.disk,
         \A b \in Blocks : c.disk[b] \in {View[b], disk[b]}
  PROVE  Memory!Flush
BY DEF Good, Data, Memory!Flush

\* The start is an empty memory.
LEMMA InitCache == Init => CacheInv /\ Memory!Init
<1> SUFFICES ASSUME Init PROVE CacheInv /\ Memory!Init
  OBVIOUS
<1>1. DOMAIN entries = {} /\ count = 0
  BY DEF Init
<1>2. CacheInv
  BY <1>1, FS_EmptySet DEF Init, CacheInv, TypeOK, CountExact, CleanIsDisk, DirectIsUncached
<1>3. View = [b \in Blocks |-> Zero]
  BY <1>1 DEF Init, View, Cached, Now
<1> QED
  BY <1>2, <1>3 DEF Init, Memory!Init

\* Reads, and passes of actualizarCache, move writes to the disk and nothing else.
LEMMA ReadSteps ==
  ASSUME CacheInv, actualizarCache \/ \E b \in Blocks : lerCache(b)
  PROVE  CacheInv' /\ Memory!Next
<1>1. /\ Good(Now) /\ Young(Now) /\ SeenIn(Now) = View /\ Now.disk = disk
      /\ \A b \in ValidIn(Now) : use[b] = "file"
      /\ use \in [Blocks -> {"free", "file", "dir"}]
  BY InvGood DEF CacheInv, TypeOK
<1>2. CASE actualizarCache
  <2> DEFINE d == Actualizar(Now)
  <2>1. Good(d) /\ Young(d) /\ Shrinks(Now, d) /\ Commit(d, use)
    BY <1>1, <1>2, ActualizarKeeps DEF actualizarCache
  <2> HIDE DEF d
  <2>2. /\ CacheInv'
        /\ (View' = SeenIn(d) /\ disk' = d.disk) \/ Memory!Restart
    BY <1>1, <2>1, CommitStep DEF Shrinks
  <2>3. ASSUME View' = SeenIn(d), disk' = d.disk PROVE Memory!Flush /\ View' = View
    BY <1>1, <2>1, <2>3, FlushStep DEF Shrinks
  <2> QED
    BY <2>2, <2>3 DEF Memory!Next
<1>3. ASSUME NEW b \in Blocks, lerCache(b) PROVE CacheInv' /\ Memory!Next
  <2>1. PICK stop \in Stops : Commit(Ler(Now, b, stop), use)
    BY <1>3 DEF lerCache
  <2>2. stop \in BOOLEAN /\ use[b] = "file"
    BY <1>3, <2>1 DEF Stops, lerCache
  <2> DEFINE d == Ler(Now, b, stop)
  <2>3. Good(d) /\ Young(d) /\ Stores(Now, d, b, SeenIn(Now)[b])
    BY <1>1, <2>2, LerKeeps
  <2>4. Commit(d, use)
    BY <2>1
  <2> HIDE DEF d
  <2>5. \A x \in ValidIn(d) : use[x] = "file"
    BY <1>1, <2>2, <2>3 DEF Stores
  <2>6. /\ CacheInv'
        /\ (View' = SeenIn(d) /\ disk' = d.disk) \/ Memory!Restart
    BY <1>1, <2>3, <2>4, <2>5, CommitStep
  <2>7. SeenIn(d) = View
    BY <1>1, <2>3 DEF Stores, View
  <2>8. ASSUME View' = SeenIn(d), disk' = d.disk PROVE Memory!Flush /\ View' = View
    BY <1>1, <2>3, <2>7, <2>8, FlushStep DEF Stores
  <2> QED
    BY <2>6, <2>8 DEF Memory!Next
<1> QED
  BY <1>2, <1>3

\* A write through the cache is a write of the memory.
LEMMA WriteStep ==
  ASSUME CacheInv, NEW b \in Blocks, NEW v \in Contents, escreverCache(b, v)
  PROVE  CacheInv' /\ Memory!Next
<1>1. /\ Good(Now) /\ Young(Now) /\ SeenIn(Now) = View /\ Now.disk = disk
      /\ \A x \in ValidIn(Now) : use[x] = "file"
      /\ use \in [Blocks -> {"free", "file", "dir"}]
  BY InvGood DEF CacheInv, TypeOK
<1>2. PICK stop \in Stops : Commit(Escrever(Now, b, v, stop), Used(b, "file"))
  BY DEF escreverCache
<1>3. stop \in BOOLEAN
  BY DEF Stops
<1> DEFINE d == Escrever(Now, b, v, stop)
<1>4. Good(d) /\ Young(d) /\ Stores(Now, d, b, v) /\ Commit(d, Used(b, "file"))
  BY <1>1, <1>2, <1>3, EscreverStores
<1> HIDE DEF d
<1>5. /\ Used(b, "file") \in [Blocks -> {"free", "file", "dir"}]
      /\ \A x \in ValidIn(d) : Used(b, "file")[x] = "file"
  BY <1>1, <1>4 DEF Stores, Used, Good, ValidIn
<1>6. /\ CacheInv'
      /\ (View' = SeenIn(d) /\ disk' = d.disk) \/ Memory!Restart
  BY <1>4, <1>5, CommitStep
<1>7. ASSUME View' = SeenIn(d), disk' = d.disk PROVE Memory!Write(b, v) /\ Memory!Flush
  BY <1>1, <1>4, <1>7, FlushStep DEF Stores, Memory!Write
<1> QED
  BY <1>6, <1>7 DEF Memory!Next

\* Erasing a file's block, and what goes to the disk directly, are seen at once.
LEMMA ThroughSteps ==
  ASSUME CacheInv, NEW b \in Blocks,
         eliminarBlocoCache(b) \/ DirectoryErase(b) \/ \E v \in Contents : block_write(b, v)
  PROVE  CacheInv' /\ Memory!Next
<1>1. /\ Good(Now) /\ Young(Now) /\ SeenIn(Now) = View /\ Now.disk = disk
      /\ \A x \in ValidIn(Now) : use[x] = "file"
      /\ use \in [Blocks -> {"free", "file", "dir"}]
  BY InvGood DEF CacheInv, TypeOK
<1>2. ASSUME NEW c, Good(c), Young(c), b \notin ValidIn(c), ValidIn(c) \subseteq ValidIn(Now),
             c.disk = disk, \A x \in Blocks : x # b => SeenIn(c)[x] = View[x],
             NEW v \in Data, NEW k \in {"free", "file", "dir"},
             Commit([c EXCEPT !.disk[b] = v], Used(b, k))
      PROVE  CacheInv' /\ Memory!Next
  <2> DEFINE d == [c EXCEPT !.disk[b] = v]
  <2>2. Commit(d, Used(b, k)) /\ d = OnDisk(c, b, v)
    BY <1>2 DEF OnDisk
  <2> HIDE DEF d
  <2>1. /\ Good(d) /\ Young(d) /\ ValidIn(d) = ValidIn(c)
        /\ d.disk = [disk EXCEPT ![b] = v] /\ SeenIn(d) = [SeenIn(c) EXCEPT ![b] = v]
    BY <1>2, <2>2, DiskStores
  <2>3. Used(b, k) \in [Blocks -> {"free", "file", "dir"}]
    BY <1>1 DEF Used
  <2>4. \A x \in ValidIn(d) : Used(b, k)[x] = "file"
    BY <1>1, <1>2, <2>1 DEF Used
  <2>5. /\ CacheInv'
        /\ (View' = SeenIn(d) /\ disk' = d.disk) \/ Memory!Restart
    BY <2>1, <2>2, <2>3, <2>4, CommitStep
  <2>6. SeenIn(d) = [View EXCEPT ![b] = v]
    BY <1>2, <2>1 DEF SeenIn, View
  <2>7. ASSUME View' = SeenIn(d), disk' = d.disk PROVE Memory!WriteThrough(b, v)
    BY <2>1, <2>6, <2>7 DEF Memory!WriteThrough
  <2> QED
    BY <2>5, <2>7 DEF Memory!Next, Data
<1>3. CASE eliminarBlocoCache(b)
  <2> DEFINE c == Invalidar(Now, b)
  <2>1. /\ Good(c) /\ Young(c) /\ ValidIn(c) = ValidIn(Now) \ {b} /\ c.disk = disk
        /\ SeenIn(c) = [View EXCEPT ![b] = disk[b]]
    BY <1>1, InvalidarDrops
  <2>2. Commit([c EXCEPT !.disk[b] = Zero], Used(b, "free"))
    BY <1>3 DEF eliminarBlocoCache, Eliminar
  <2> HIDE DEF c
  <2>3. \A x \in Blocks : x # b => SeenIn(c)[x] = View[x]
    BY <2>1
  <2> QED
    BY <1>2, <2>1, <2>2, <2>3 DEF Data
<1>4. ASSUME NEW v \in Data, NEW k \in {"free", "file", "dir"}, use[b] # "file",
             Commit([Now EXCEPT !.disk[b] = v], Used(b, k))
      PROVE  CacheInv' /\ Memory!Next
  <2> HIDE DEF Now
  <2>1. b \notin ValidIn(Now)
    BY <1>1, <1>4
  <2> QED
    BY <1>1, <1>2, <1>4, <2>1
<1>5. CASE DirectoryErase(b)
  BY <1>4, <1>5 DEF DirectoryErase, Data
<1>6. ASSUME NEW v \in Contents, block_write(b, v) PROVE CacheInv' /\ Memory!Next
  BY <1>4, <1>6 DEF block_write, Data
<1> QED
  BY <1>3, <1>5, <1>6

\* The move of a block takes what the disk has of it.
LEMMA MoveStep ==
  ASSUME CacheInv, NEW b \in Blocks, NEW dest \in Blocks, mexeBlocoPara(b, dest)
  PROVE  CacheInv' /\ Memory!Next
<1>1. /\ Good(Now) /\ Young(Now) /\ SeenIn(Now) = View /\ Now.disk = disk
      /\ \A x \in ValidIn(Now) : use[x] = "file"
      /\ use \in [Blocks -> {"free", "file", "dir"}]
      /\ disk \in [Blocks -> Data]
  BY InvGood DEF CacheInv, TypeOK, Data
<1>2. use[b] # "free" /\ use[dest] = "free" /\ b # dest
  BY DEF mexeBlocoPara
<1> DEFINE c == [Now EXCEPT !.disk[dest] = disk[b]]
           d == Invalidar(c, b)
           u == [use EXCEPT ![dest] = use[b], ![b] = "free"]
<1>3. Commit(d, u)
  BY DEF mexeBlocoPara
<1>4. dest \notin ValidIn(Now) /\ disk[b] \in Data
  BY <1>1, <1>2
<1>5. c = OnDisk(Now, dest, disk[b])
  BY DEF OnDisk
<1> HIDE DEF Now, c
<1>6. /\ Good(c) /\ Young(c) /\ ValidIn(c) = ValidIn(Now)
      /\ c.disk = [disk EXCEPT ![dest] = disk[b]] /\ SeenIn(c) = [View EXCEPT ![dest] = disk[b]]
  <2> DEFINE v == disk[b]
             w == OnDisk(Now, dest, v)
  <2>1. v \in Data
    BY <1>4
  <2> HIDE DEF v
  <2>2. /\ Good(w) /\ Young(w) /\ ValidIn(w) = ValidIn(Now)
        /\ w.disk = [Now.disk EXCEPT ![dest] = v] /\ SeenIn(w) = [SeenIn(Now) EXCEPT ![dest] = v]
    <3>1. Good(Now) /\ Young(Now) /\ dest \notin ValidIn(Now)
      BY <1>1, <1>4
    <3> QED
      BY <2>1, <3>1, DiskStores
  <2>3. c = w
    BY <1>5 DEF v
  <2> HIDE DEF w
  <2> QED
    BY <1>1, <2>2, <2>3 DEF v
<1>7. /\ Good(d) /\ Young(d) /\ ValidIn(d) = ValidIn(Now) \ {b} /\ d.disk = c.disk
      /\ SeenIn(d) = [SeenIn(c) EXCEPT ![b] = c.disk[b]]
  BY <1>6, InvalidarDrops
<1> HIDE DEF d
<1>8. u \in [Blocks -> {"free", "file", "dir"}] /\ \A x \in ValidIn(d) : u[x] = "file"
  <2>1. u[b] = "free" /\ u[dest] = use[b] /\ \A x \in Blocks \ {b, dest} : u[x] = use[x]
    BY <1>1, <1>2
  <2>2. u \in [Blocks -> {"free", "file", "dir"}]
    BY <1>1
  <2>3. ASSUME NEW x \in ValidIn(d) PROVE u[x] = "file"
    <3>1. x \in ValidIn(Now) /\ x # b /\ x # dest /\ x \in Blocks
      BY <1>1, <1>4, <1>7 DEF Good, ValidIn
    <3> QED
      BY <1>1, <2>1, <3>1
  <2> QED
    BY <2>2, <2>3
<1> HIDE DEF u
<1>9. /\ CacheInv'
      /\ (View' = SeenIn(d) /\ disk' = d.disk) \/ Memory!Restart
  BY <1>3, <1>7, <1>8, CommitStep
<1>10. c.disk[b] = disk[b]
  BY <1>1, <1>2, <1>6
<1>11. SeenIn(d) = [View EXCEPT ![dest] = disk[b], ![b] = disk[b]]
  BY <1>6, <1>7, <1>10
<1>12. ASSUME View' = SeenIn(d), disk' = d.disk PROVE Memory!Move(b, dest)
  BY <1>6, <1>7, <1>11, <1>12 DEF Memory!Move
<1> QED
  BY <1>9, <1>12 DEF Memory!Next

\* Every step keeps the invariant and is a step of the memory.
LEMMA CacheStep == CacheInv /\ [Next]_vars => CacheInv' /\ [Memory!Next]_<<View, disk>>
<1> SUFFICES ASSUME CacheInv, [Next]_vars PROVE CacheInv' /\ [Memory!Next]_<<View, disk>>
  OBVIOUS
<1>1. CASE Next
  BY <1>1, ReadSteps, WriteStep, ThroughSteps, MoveStep DEF Next
<1>2. CASE UNCHANGED vars
  BY <1>2 DEF vars, CacheInv, TypeOK, CountExact, CleanIsDisk, DirectIsUncached, View, Cached, Now
<1> QED
  BY <1>1, <1>2

\* numeroNosUtilizados counts the entries, clean valid copies equal the disk, and
\* blocks reached directly have no valid copy, for any disk and cache.
THEOREM CacheCorrect == Spec => []CacheInv
BY InitCache, CacheStep, PTL DEF Spec

\* Replacement, ageing and invalidation show the file system one memory whose
\* writes reach the disk some time later; only the move of a block drops one.
THEOREM CacheIsMemory == Spec => ImplementsMemory
<1>1. [Memory!Next]_<<View, disk>> <=> [Memory!Next]_(Memory!vars)
  BY DEF Memory!vars
<1> QED
  BY <1>1, InitCache, CacheStep, PTL DEF Spec, ImplementsMemory, Memory!Spec
=============================================================================
