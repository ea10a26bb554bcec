-------------------------- MODULE FileSystemProofs --------------------------
(***************************************************************************)
(* The metadata of the file system is consistent after every sequence of   *)
(* calls, and the file system implements a store of files that share       *)
(* nothing.  The proofs follow the blocks: Held(f, H, P, X) says that the  *)
(* counts and the bitmap of f are right when the places H of files and the *)
(* places P of directories hold blocks, and every loop of fs.c moves one   *)
(* place at a time in or out of H or P.                                    *)
(***************************************************************************)
EXTENDS FileSystem, DataFacts

-----------------------------------------------------------------------------
(* Arithmetic of blocks and pages                                          *)

LEMMA TimesLess ==
  ASSUME NEW a \in Nat, NEW b \in Nat, NEW c \in Nat, a <= b
  PROVE  a * c <= b * c
OBVIOUS

LEMMA DivMod ==
  ASSUME NEW a \in Nat, NEW b \in Nat \ {0}
  PROVE  a \div b \in Nat /\ a % b \in 0 .. b - 1 /\ a = (a \div b) * b + (a % b)
<1>1. a \div b \in Nat
  OBVIOUS
<1>2. a % b \in 0 .. b - 1
  OBVIOUS
<1>3. (a \div b) * b <= a /\ a < (a \div b) * b + b
  OBVIOUS
<1>4. ASSUME NEW q \in Nat, NEW r \in 0 .. b - 1 PROVE (q * b + r) % b = r
  OBVIOUS
<1> DEFINE t == (a \div b) * b
<1>5. t \in Nat /\ t <= a /\ a < t + b
  BY <1>1, <1>3
<1> HIDE DEF t
<1>6. a - t \in 0 .. b - 1 /\ t + (a - t) = a
  BY <1>5
<1>7. a % b = a - t
  BY <1>1, <1>4, <1>6 DEF t
<1> QED
  BY <1>1, <1>2, <1>6, <1>7 DEF t

\* OFFSET_TO_BLOCKS: a block begins before the end of the data.
LEMMA InBlocksIs ==
  ASSUME NEW n \in Nat
  PROVE  /\ InBlocks(n) \in Nat
         /\ \A q \in Nat : q < InBlocks(n) <=> q * BlockUnits < n
BY FileSystemAssumption DEF InBlocks

LEMMA InBlocksFits ==
  ASSUME NEW n \in 0 .. NumSlots * BlockUnits
  PROVE  InBlocks(n) \in 0 .. NumSlots
BY FileSystemAssumption DEF InBlocks

\* And what fits the slots is no larger than they are.
LEMMA InBlocksBound ==
  ASSUME NEW n \in Nat, InBlocks(n) <= NumSlots
  PROVE  n \in 0 .. NumSlots * BlockUnits
BY FileSystemAssumption DEF InBlocks

LEMMA InBlocksSum ==
  ASSUME NEW n \in Nat, NEW m \in Nat, n % BlockUnits = 0
  PROVE  InBlocks(n + m) = InBlocks(n) + InBlocks(m) /\ n = InBlocks(n) * BlockUnits
BY FileSystemAssumption DEF InBlocks

LEMMA InBlocksBelowSum ==
  ASSUME NEW n \in Nat, NEW m \in Nat, InBlocks(n) + InBlocks(m) <= NumSlots
  PROVE  n + m \in 0 .. NumSlots * BlockUnits
BY FileSystemAssumption DEF InBlocks

\* The pages of a directory of m entries.
LEMMA InPages ==
  ASSUME NEW m \in Nat, NEW q \in Nat
  PROVE  q < InBlocks(m * (BlockUnits \div PageEntries)) <=> q * PageEntries < m
<1> DEFINE c == BlockUnits \div PageEntries
<1>0. BlockUnits \in Nat /\ PageEntries \in Nat \ {0} /\ BlockUnits % PageEntries = 0
  BY FileSystemAssumption
<1>1. c \in Nat /\ BlockUnits = c * PageEntries
  <2>1. /\ c \in Nat
        /\ BlockUnits = c * PageEntries + (BlockUnits % PageEntries)
    BY <1>0, DivMod
  <2> HIDE DEF c
  <2>2. c * PageEntries \in Nat
    BY <1>0, <2>1
  <2> QED
    BY <1>0, <2>1, <2>2
<1>2. c # 0
  BY <1>1, FileSystemAssumption
<1> HIDE DEF c
<1>3. m * c \in Nat
  BY <1>1
<1>4. q < InBlocks(m * c) <=> q * BlockUnits < m * c
  BY <1>3, InBlocksIs
<1>5. PageEntries \in Nat
  BY FileSystemAssumption
<1>6. q * BlockUnits = (q * PageEntries) * c /\ q * PageEntries \in Nat
  BY <1>1, <1>5
<1>7. \A x, y \in Nat : x * c < y * c <=> x < y
  BY <1>1, <1>2
<1>8. (q * PageEntries) * c < m * c <=> q * PageEntries < m
  BY <1>6, <1>7
<1> QED
  BY <1>4, <1>6, <1>8 DEF c

-----------------------------------------------------------------------------
(* Places and the blocks they hold                                         *)

Places == Inodes \X Slots

\* The counts and the bitmap of f are those of the places H of files and P of
\* directories; the blocks of X are taken and held by nobody.
Held(f, H, P, X) ==
  /\ H \in SUBSET Places /\ P \in SUBSET Places /\ H \cap P = {}
  /\ CountsAreExact(f, H) /\ BitmapIsExact(f, H, P, X)

\* What is read at a place.
Cell(f, h) == f.mem[At(f, h)]

SameCells(f, g, K) == \A h \in K : Cell(g, h) = Cell(f, h)

Contained == Data \cup {Zero, Page, Junk}

LEMMA FieldTypes ==
  ASSUME NEW f \in FsRecord
  PROVE  /\ f.used \in SUBSET Inodes /\ f.bmap \in SUBSET Blocks
         /\ f.inode \in [Inodes -> Inode] /\ f.refs \in [Blocks -> Nat]
         /\ f.entries \in [Inodes -> Seq([name : Names, inode : Inodes])]
         /\ f.mem \in [Blocks -> [Units -> Contained]]
         /\ \A i \in Inodes : /\ f.inode[i].blocks \in [Slots -> Blocks \cup {0}]
                              /\ f.inode[i].size \in 0 .. NumSlots * BlockUnits
                              /\ f.inode[i].type \in {"none", "file", "dir"}
         /\ \A h \in Places : At(f, h) \in Blocks \cup {0}
<1>1. f.inode \in [Inodes -> Inode]
  BY DEF FsRecord
<1>2. ASSUME NEW i \in Inodes
      PROVE  /\ f.inode[i].blocks \in [Slots -> Blocks \cup {0}]
             /\ f.inode[i].size \in 0 .. NumSlots * BlockUnits
             /\ f.inode[i].type \in {"none", "file", "dir"}
  BY <1>1 DEF Inode
<1>3. ASSUME NEW h \in Places PROVE At(f, h) \in Blocks \cup {0}
  <2>1. h[1] \in Inodes /\ h[2] \in Slots
    BY DEF Places
  <2> QED
    BY <1>2, <2>1 DEF At
<1> QED
  BY <1>1, <1>2, <1>3 DEF FsRecord, Contained

LEMMA Constants ==
  /\ Inodes = 1 .. NumInodes /\ Slots = 0 .. NumSlots - 1 /\ Blocks = 9 .. LastBlock
  /\ Units = 0 .. BlockUnits - 1
  /\ NumInodes \in Nat \ {0} /\ NumSlots \in Nat \ {0, 1} /\ LastBlock \in Nat /\ LastBlock >= 9
  /\ BlockUnits \in Nat \ {0} /\ PageEntries \in Nat \ {0, 1}
  /\ 0 \notin Blocks /\ 9 \in Blocks /\ Root \in Inodes
  /\ IsFiniteSet(Blocks) /\ IsFiniteSet(Places) /\ IsFiniteSet(Inodes)
<1>1. /\ NumInodes \in Nat \ {0} /\ NumSlots \in Nat \ {0, 1} /\ LastBlock \in Nat /\ LastBlock >= 9
      /\ BlockUnits \in Nat \ {0} /\ PageEntries \in Nat \ {0, 1}
  BY FileSystemAssumption
<1>2. /\ Inodes = 1 .. NumInodes /\ Slots = 0 .. NumSlots - 1 /\ Blocks = 9 .. LastBlock
      /\ Units = 0 .. BlockUnits - 1
  BY DEF Inodes, Root, Slots, Blocks, Units
<1>3. IsFiniteSet(Blocks) /\ IsFiniteSet(Inodes) /\ IsFiniteSet(Slots)
  BY <1>1, <1>2, FS_Interval
<1>4. IsFiniteSet(Places)
  BY <1>3, FS_Product DEF Places
<1> QED
  BY <1>1, <1>2, <1>3, <1>4 DEF Root

LEMMA HoldersFinite ==
  ASSUME NEW f, NEW H \in SUBSET Places, NEW b
  PROVE  /\ IsFiniteSet(Holders(f, H, b)) /\ Cardinality(Holders(f, H, b)) \in Nat
         /\ Cardinality(Holders(f, H, b)) = 0 <=> Holders(f, H, b) = {}
<1>1. Holders(f, H, b) \in SUBSET Places
  BY DEF Holders
<1>2. IsFiniteSet(Holders(f, H, b))
  BY <1>1, Constants, FS_Subset
<1> QED
  BY <1>2, FS_CardinalityType, FS_EmptySet

\* A count of one is that of a place that shares with nobody.
LEMMA CountOfHolder ==
  ASSUME NEW f, NEW H \in SUBSET Places, NEW h \in H, At(f, h) \in Blocks, CountsAreExact(f, H)
  PROVE  /\ f.refs[At(f, h)] \in Nat \ {0}
         /\ f.refs[At(f, h)] <= 1 => \A k \in H : At(f, k) = At(f, h) => k = h
<1> DEFINE S == Holders(f, H, At(f, h))
<1>1. h \in S /\ S \in SUBSET H /\ \A k \in H : At(f, k) = At(f, h) => k \in S
  BY DEF Holders
<1>2. f.refs[At(f, h)] = Cardinality(S)
  BY DEF CountsAreExact
<1>3. IsFiniteSet(S) /\ Cardinality(S) \in Nat /\ Cardinality(S) # 0
  BY <1>1, HoldersFinite
<1> HIDE DEF S
<1>4. Cardinality(S) = 1 => \E x : S = {x}
  BY <1>3, FS_Singleton
<1> QED
  BY <1>1, <1>2, <1>3, <1>4

\* The count of one more place.
LEMMA CountsOneMore ==
  ASSUME NEW f, NEW g, NEW H \in SUBSET Places, NEW h \in Places \ H,
         CountsAreExact(f, H), f.refs \in [Blocks -> Nat], At(g, h) \in Blocks,
         \A k \in H : At(g, k) = At(f, k),
         g.refs = [f.refs EXCEPT ![At(g, h)] = @ + 1]
  PROVE  CountsAreExact(g, H \cup {h})
<1> SUFFICES ASSUME NEW b \in Blocks
             PROVE  g.refs[b] = Cardinality(Holders(g, H \cup {h}, b))
  BY DEF CountsAreExact
<1>1. f.refs[b] = Cardinality(Holders(f, H, b))
  BY DEF CountsAreExact
<1>2. IsFiniteSet(Holders(f, H, b)) /\ h \notin Holders(f, H, b)
  <2>1. h \notin Holders(f, H, b)
    BY DEF Holders
  <2> QED
    BY <2>1, HoldersFinite
<1>3. CASE b = At(g, h)
  <2>1. Holders(g, H \cup {h}, b) = Holders(f, H, b) \cup {h}
    BY <1>3 DEF Holders
  <2>2. Cardinality(Holders(f, H, b) \cup {h}) = Cardinality(Holders(f, H, b)) + 1
    BY <1>2, FS_AddElement
  <2>3. g.refs[b] = f.refs[b] + 1
    BY <1>3
  <2> QED
    BY <1>1, <2>1, <2>2, <2>3
<1>4. CASE b # At(g, h)
  <2>1. Holders(g, H \cup {h}, b) = Holders(f, H, b)
    BY <1>4 DEF Holders
  <2> QED
    BY <1>1, <1>4, <2>1
<1> QED
  BY <1>3, <1>4

\* And of one less.
LEMMA CountsOneLess ==
  ASSUME NEW f, NEW g, NEW H \in SUBSET Places, NEW h \in H,
         CountsAreExact(f, H), f.refs \in [Blocks -> Nat], At(f, h) \in Blocks,
         \A k \in H \ {h} : At(g, k) = At(f, k),
         g.refs = [f.refs EXCEPT ![At(f, h)] = @ - 1]
  PROVE  CountsAreExact(g, H \ {h})
<1> SUFFICES ASSUME NEW b \in Blocks
             PROVE  g.refs[b] = Cardinality(Holders(g, H \ {h}, b))
  BY DEF CountsAreExact
<1>1. f.refs[b] = Cardinality(Holders(f, H, b))
  BY DEF CountsAreExact
<1>2. IsFiniteSet(Holders(f, H, b))
  BY HoldersFinite
<1>3. CASE b = At(f, h)
  <2>1. Holders(g, H \ {h}, b) = Holders(f, H, b) \ {h} /\ h \in Holders(f, H, b)
    BY <1>3 DEF Holders
  <2>2. Cardinality(Holders(f, H, b) \ {h}) = Cardinality(Holders(f, H, b)) - 1
    BY <1>2, <2>1, FS_RemoveElement
  <2>3. g.refs[b] = f.refs[b] - 1
    BY <1>3
  <2> QED
    BY <1>1, <2>1, <2>2, <2>3
<1>4. CASE b # At(f, h)
  <2>1. Holders(g, H \ {h}, b) = Holders(f, H, b)
    BY <1>4 DEF Holders
  <2> QED
    BY <1>1, <1>4, <2>1
<1> QED
  BY <1>3, <1>4

\* apagarBloco changes nothing but the block and its count.
LEMMA ReleaseTyped ==
  ASSUME NEW f \in FsRecord, NEW b \in Blocks \cup {0}
  PROVE  LET g == Release(f, b) IN
         /\ g \in FsRecord /\ g.used = f.used /\ g.inode = f.inode /\ g.entries = f.entries
         /\ g.refs = IF f.refs[b] > 1 THEN [f.refs EXCEPT ![b] = @ - 1] ELSE [f.refs EXCEPT ![b] = 0]
         /\ g.bmap = IF f.refs[b] > 1 THEN f.bmap ELSE f.bmap \ {b}
         /\ \A c \in Blocks : c # b \/ f.refs[b] > 1 => g.mem[c] = f.mem[c]
<1>1. Whole(Zero) \in [Units -> Contained]
  BY DEF Whole, Contained
<1>2. \A m \in [Blocks -> [Units -> Contained]] : [m EXCEPT ![b] = Whole(Zero)] \in [Blocks -> [Units -> Contained]]
  BY <1>1
<1>3. f.refs \in [Blocks -> Nat] /\ f.mem \in [Blocks -> [Units -> Contained]] /\ f.bmap \in SUBSET Blocks
  BY FieldTypes
<1>4. /\ [f.refs EXCEPT ![b] = 0] \in [Blocks -> Nat]
      /\ f.refs[b] > 1 => [f.refs EXCEPT ![b] = @ - 1] \in [Blocks -> Nat]
  <2> DEFINE r == f.refs
  <2>1. r \in [Blocks -> Nat]
    BY <1>3
  <2> HIDE DEF r
  <2>2. CASE b \in Blocks
    BY <2>1, <2>2 DEF r
  <2>3. CASE b \notin Blocks
    <3>1. [r EXCEPT ![b] = 0] = r /\ [r EXCEPT ![b] = r[b] - 1] = r
      BY <2>1, <2>3
    <3> QED
      BY <2>1, <3>1 DEF r
  <2> QED
    BY <2>2, <2>3
<1>5. CASE f.refs[b] > 1
  BY <1>3, <1>4, <1>5 DEF Release, FsRecord
<1>6. CASE ~(f.refs[b] > 1)
  BY <1>2, <1>3, <1>4, <1>6 DEF Release, FsRecord, Contained
<1> QED
  BY <1>5, <1>6

\* What no step on blocks touches.
Untouched(f, g) == g.used = f.used /\ g.entries = f.entries

LEMMA PlaceParts ==
  /\ \A h \in Places : h[1] \in Inodes /\ h[2] \in Slots /\ h = <<h[1], h[2]>>
  /\ \A i \in Inodes, q \in Slots : <<i, q>> \in Places
  /\ \A f, i, q : At(f, <<i, q>>) = f.inode[i].blocks[q]
BY DEF Places, At

\* A count above one is that of a block that somebody else holds too.
LEMMA CountShared ==
  ASSUME NEW f, NEW H \in SUBSET Places, NEW h \in H, At(f, h) \in Blocks, CountsAreExact(f, H),
         f.refs[At(f, h)] > 1
  PROVE  \E k \in H \ {h} : At(f, k) = At(f, h)
<1> SUFFICES ASSUME \A k \in H \ {h} : At(f, k) # At(f, h)
             PROVE  FALSE
  OBVIOUS
<1>1. Holders(f, H, At(f, h)) = {h}
  BY DEF Holders
<1>2. f.refs[At(f, h)] = Cardinality({h})
  BY <1>1 DEF CountsAreExact
<1>3. Cardinality({h}) = 1
  BY FS_Singleton
<1> QED
  BY <1>2, <1>3

\* apagarBloco takes a place of a file away.
LEMMA ReleaseFile ==
  ASSUME NEW f \in FsRecord, NEW H, NEW P, NEW X, Held(f, H, P, X), NEW h \in H
  PROVE  LET g == Release(f, At(f, h)) IN
         /\ g \in FsRecord /\ Untouched(f, g) /\ g.inode = f.inode
         /\ Held(g, H \ {h}, P, X)
         /\ SameCells(f, g, H \ {h})
<1> DEFINE b == At(f, h)
           g == Release(f, b)
<1>1. /\ H \in SUBSET Places /\ P \in SUBSET Places /\ H \cap P = {} /\ CountsAreExact(f, H)
      /\ BitmapIsExact(f, H, P, X) /\ b \in Blocks \ X
  BY DEF Held, BitmapIsExact
<1>2. /\ g \in FsRecord /\ Untouched(f, g) /\ g.inode = f.inode
      /\ g.refs = IF f.refs[b] > 1 THEN [f.refs EXCEPT ![b] = @ - 1] ELSE [f.refs EXCEPT ![b] = 0]
      /\ g.bmap = IF f.refs[b] > 1 THEN f.bmap ELSE f.bmap \ {b}
      /\ \A c \in Blocks : c # b \/ f.refs[b] > 1 => g.mem[c] = f.mem[c]
  BY <1>1, ReleaseTyped DEF Untouched
<1>3. f.refs \in [Blocks -> Nat] /\ f.refs[b] \in Nat \ {0}
  BY <1>1, CountOfHolder, FieldTypes
<1>4. f.refs[b] <= 1 => \A k \in H : At(f, k) = b => k = h
  BY <1>1, CountOfHolder
<1>5. f.refs[b] > 1 => \E k \in H \ {h} : At(f, k) = b
  BY <1>1, CountShared
<1> HIDE DEF g
<1>6. \A k : At(g, k) = At(f, k)
  BY <1>2 DEF At
<1> HIDE DEF b
<1>7. g.refs = [f.refs EXCEPT ![b] = @ - 1]
  BY <1>2, <1>3
<1>8. CountsAreExact(g, H \ {h})
  BY <1>1, <1>3, <1>6, <1>7, CountsOneLess DEF b
<1>9. \A k \in H \cup P : At(f, k) = b => k \in H
  <2> SUFFICES ASSUME NEW k \in P, At(f, k) = b PROVE FALSE
    OBVIOUS
  <2>1. h = k
    BY <1>1 DEF BitmapIsExact, b
  <2> QED
    BY <1>1, <2>1
<1>10. BitmapIsExact(g, H \ {h}, P, X)
  <2>1. \A k \in (H \ {h}) \cup P : At(g, k) \in Blocks \ X
    BY <1>1, <1>6 DEF BitmapIsExact
  <2>2. ASSUME NEW c \in Blocks
        PROVE  c \in g.bmap <=> (c \in X \/ \E k \in (H \ {h}) \cup P : At(g, k) = c)
    <3>1. c \in f.bmap <=> (c \in X \/ \E k \in H \cup P : At(f, k) = c)
      BY <1>1 DEF BitmapIsExact
    <3>2. CASE c # b
      BY <1>2, <1>6, <3>1, <3>2 DEF b
    <3>3. CASE c = b /\ f.refs[b] > 1
      <4>1. PICK k \in H \ {h} : At(f, k) = b
        BY <1>5, <3>3
      <4>2. k \in (H \ {h}) \cup P /\ At(g, k) = c /\ k \in H \cup P /\ At(f, k) = c
        BY <1>6, <3>3, <4>1
      <4>3. g.bmap = f.bmap
        BY <1>2, <3>3
      <4> QED
        BY <3>1, <4>2, <4>3
    <3>4. CASE c = b /\ f.refs[b] <= 1
      BY <1>1, <1>2, <1>3, <1>4, <1>6, <1>9, <3>4
    <3> QED
      BY <1>3, <3>2, <3>3, <3>4
  <2>3. \A k \in P, l \in (H \ {h}) \cup P : At(g, l) = At(g, k) => l = k
    BY <1>1, <1>6 DEF BitmapIsExact
  <2> QED
    BY <2>1, <2>2, <2>3 DEF BitmapIsExact
<1>11. ASSUME NEW k \in H \ {h} PROVE Cell(g, k) = Cell(f, k)
  <2>1. At(f, k) \in Blocks
    BY <1>1 DEF BitmapIsExact
  <2>2. At(f, k) # b \/ f.refs[b] > 1
    BY <1>3, <1>4
  <2> QED
    BY <1>2, <1>6, <2>1, <2>2 DEF Cell
<1> QED
  BY <1>1, <1>2, <1>8, <1>10, <1>11 DEF Held, SameCells, g, b

\* apagarBloco takes a page of a directory away.
LEMMA ReleasePage ==
  ASSUME NEW f \in FsRecord, NEW H, NEW P, NEW X, Held(f, H, P, X), NEW h \in P
  PROVE  LET g == Release(f, At(f, h)) IN
         /\ g \in FsRecord /\ Untouched(f, g) /\ g.inode = f.inode
         /\ Held(g, H, P \ {h}, X)
         /\ SameCells(f, g, H)
<1> DEFINE b == At(f, h)
           g == Release(f, b)
<1>1. /\ H \in SUBSET Places /\ P \in SUBSET Places /\ H \cap P = {} /\ CountsAreExact(f, H)
      /\ BitmapIsExact(f, H, P, X) /\ b \in Blocks \ X
  BY DEF Held, BitmapIsExact
<1>2. /\ g \in FsRecord /\ Untouched(f, g) /\ g.inode = f.inode
      /\ g.refs = IF f.refs[b] > 1 THEN [f.refs EXCEPT ![b] = @ - 1] ELSE [f.refs EXCEPT ![b] = 0]
      /\ g.bmap = IF f.refs[b] > 1 THEN f.bmap ELSE f.bmap \ {b}
      /\ \A c \in Blocks : c # b \/ f.refs[b] > 1 => g.mem[c] = f.mem[c]
  BY <1>1, ReleaseTyped DEF Untouched
<1>3. \A k \in H \cup P : At(f, k) = b => k = h
  BY <1>1 DEF BitmapIsExact
<1>4. f.refs \in [Blocks -> Nat] /\ f.refs[b] = 0
  <2>1. Holders(f, H, b) = {}
    BY <1>1, <1>3 DEF Holders
  <2>2. f.refs[b] = Cardinality({})
    BY <1>1, <2>1 DEF CountsAreExact
  <2> QED
    BY <2>2, FS_EmptySet, FieldTypes
<1> HIDE DEF g
<1>5. \A k : At(g, k) = At(f, k)
  BY <1>2 DEF At
<1> HIDE DEF b
<1>6. g.refs = f.refs /\ g.bmap = f.bmap \ {b} /\ \A c \in Blocks \ {b} : g.mem[c] = f.mem[c]
  BY <1>2, <1>4
<1>7. CountsAreExact(g, H)
  <2>1. \A c : Holders(g, H, c) = Holders(f, H, c)
    BY <1>5 DEF Holders
  <2> QED
    BY <1>1, <1>6, <2>1 DEF CountsAreExact
<1>8. BitmapIsExact(g, H, P \ {h}, X)
  <2>1. \A k \in H \cup (P \ {h}) : At(g, k) \in Blocks \ X
    BY <1>1, <1>5 DEF BitmapIsExact
  <2>2. ASSUME NEW c \in Blocks
        PROVE  c \in g.bmap <=> (c \in X \/ \E k \in H \cup (P \ {h}) : At(g, k) = c)
    <3>1. c \in f.bmap <=> (c \in X \/ \E k \in H \cup P : At(f, k) = c)
      BY <1>1 DEF BitmapIsExact
    <3>2. CASE c # b
      BY <1>6, <1>5, <3>1, <3>2 DEF b
    <3>3. CASE c = b
      BY <1>1, <1>3, <1>6, <1>5, <3>3
    <3> QED
      BY <3>2, <3>3
  <2>3. \A k \in P \ {h}, l \in H \cup (P \ {h}) : At(g, l) = At(g, k) => l = k
    BY <1>1, <1>5 DEF BitmapIsExact
  <2> QED
    BY <2>1, <2>2, <2>3 DEF BitmapIsExact
<1>9. ASSUME NEW k \in H PROVE Cell(g, k) = Cell(f, k)
  <2>1. At(f, k) \in Blocks /\ At(f, k) # b
    BY <1>1, <1>3 DEF BitmapIsExact
  <2> QED
    BY <1>6, <1>5, <2>1 DEF Cell
<1> QED
  BY <1>1, <1>2, <1>7, <1>8, <1>9 DEF Held, SameCells, g, b

\* No type and no size changes.
SameKinds(f, g) ==
  \A j \in Inodes : g.inode[j].type = f.inode[j].type /\ g.inode[j].size = f.inode[j].size

SameFiles(f, g) == Untouched(f, g) /\ SameKinds(f, g)

\* A slot that gets another block.
PutAt(f, i, q, b) == [f.inode EXCEPT ![i].blocks[q] = b]

LEMMA SlotSet ==
  ASSUME NEW f \in FsRecord, NEW g, NEW i \in Inodes, NEW q \in Slots, NEW b \in Blocks \cup {0},
         g.inode = PutAt(f, i, q, b)
  PROVE  /\ g.inode \in [Inodes -> Inode] /\ SameKinds(f, g)
         /\ \A j \in Inodes \ {i} : g.inode[j] = f.inode[j]
         /\ \A p \in Slots \ {q} : g.inode[i].blocks[p] = f.inode[i].blocks[p]
         /\ At(g, <<i, q>>) = b
         /\ \A h \in Places \ {<<i, q>>} : At(g, h) = At(f, h)
<1>1. f.inode \in [Inodes -> Inode] /\ f.inode[i].blocks \in [Slots -> Blocks \cup {0}]
  BY FieldTypes
<1> DEFINE bl == [f.inode[i].blocks EXCEPT ![q] = b]
           nd == [f.inode[i] EXCEPT !.blocks = bl]
<1>2. /\ bl \in [Slots -> Blocks \cup {0}] /\ bl[q] = b
      /\ \A p \in Slots \ {q} : bl[p] = f.inode[i].blocks[p]
  BY <1>1
<1>3. g.inode = [f.inode EXCEPT ![i] = nd]
  BY DEF PutAt
<1> HIDE DEF bl
<1>4. f.inode[i] \in Inode
  BY <1>1
<1>5. nd \in Inode /\ nd.blocks = bl /\ nd.type = f.inode[i].type /\ nd.size = f.inode[i].size
  BY <1>2, <1>4 DEF Inode
<1> HIDE DEF nd
<1>6. g.inode \in [Inodes -> Inode] /\ g.inode[i] = nd /\ \A j \in Inodes \ {i} : g.inode[j] = f.inode[j]
  BY <1>1, <1>3, <1>5
<1>7. ASSUME NEW h \in Places \ {<<i, q>>} PROVE At(g, h) = At(f, h)
  <2>1. h[1] \in Inodes /\ h[2] \in Slots /\ (h[1] # i \/ h[2] # q)
    BY PlaceParts
  <2> QED
    BY <1>2, <1>5, <1>6, <2>1 DEF At
<1> QED
  BY <1>2, <1>5, <1>6, <1>7, PlaceParts DEF SameKinds

LEMMA FirstFree ==
  ASSUME NEW f, FreeBlocks(f) # {}
  PROVE  Min(FreeBlocks(f)) \in FreeBlocks(f) /\ Max(FreeBlocks(f)) \in FreeBlocks(f)
<1> DEFINE S == FreeBlocks(f)
<1>1. S \subseteq 1 .. LastBlock /\ S \subseteq Nat /\ LastBlock \in Nat
  BY Constants DEF FreeBlocks
<1> HIDE DEF S
<1>2. \E x \in S : \A y \in S : x =< y
  BY <1>1, LeastNat DEF S
<1>3. Min(S) \in S
  BY <1>2 DEF Min
<1>4. Max(S) \in S
  BY <1>1, MaxIn DEF S
<1> QED
  BY <1>3, <1>4 DEF S

\* A place of a file gets a block that nobody holds.
LEMMA TakeFile ==
  ASSUME NEW f \in FsRecord, NEW g \in FsRecord, NEW H, NEW P, NEW X, Held(f, H, P, X),
         NEW h \in Places \ (H \cup P), NEW b \in FreeBlocks(f),
         At(g, h) = b, \A k \in H \cup P : At(g, k) = At(f, k),
         g.refs = [f.refs EXCEPT ![b] = @ + 1], g.bmap = f.bmap \cup {b}
  PROVE  Held(g, H \cup {h}, P, X)
<1>1. /\ H \in SUBSET Places /\ P \in SUBSET Places /\ H \cap P = {} /\ CountsAreExact(f, H)
      /\ BitmapIsExact(f, H, P, X) /\ b \in Blocks /\ b \notin f.bmap
  BY DEF Held, FreeBlocks
<1>2. b \notin X /\ \A k \in H \cup P : At(f, k) # b
  BY <1>1 DEF BitmapIsExact
<1>3. CountsAreExact(g, H \cup {h})
  <2>1. f.refs \in [Blocks -> Nat] /\ h \in Places \ H /\ \A k \in H : At(g, k) = At(f, k)
    BY FieldTypes
  <2> QED
    BY <1>1, <2>1, CountsOneMore
<1>4. BitmapIsExact(g, H \cup {h}, P, X)
  <2>1. \A k \in (H \cup {h}) \cup P : At(g, k) \in Blocks \ X
    BY <1>1, <1>2 DEF BitmapIsExact
  <2>2. ASSUME NEW c \in Blocks
        PROVE  c \in g.bmap <=> (c \in X \/ \E k \in (H \cup {h}) \cup P : At(g, k) = c)
    <3>1. c \in f.bmap <=> (c \in X \/ \E k \in H \cup P : At(f, k) = c)
      BY <1>1 DEF BitmapIsExact
    <3>2. CASE c # b
      BY <3>1, <3>2
    <3>3. CASE c = b
      BY <3>3
    <3> QED
      BY <3>2, <3>3
  <2>3. \A k \in P, l \in (H \cup {h}) \cup P : At(g, l) = At(g, k) => l = k
    BY <1>1, <1>2 DEF BitmapIsExact
  <2> QED
    BY <2>1, <2>2, <2>3 DEF BitmapIsExact
<1> QED
  BY <1>1, <1>3, <1>4 DEF Held

\* A place of a file shares the block of another.
LEMMA ShareFile ==
  ASSUME NEW f \in FsRecord, NEW g \in FsRecord, NEW H, NEW P, NEW X, Held(f, H, P, X),
         NEW h \in Places \ (H \cup P), NEW s \in H,
         At(g, h) = At(f, s), \A k \in H \cup P : At(g, k) = At(f, k),
         g.refs = [f.refs EXCEPT ![At(f, s)] = @ + 1], g.bmap = f.bmap
  PROVE  Held(g, H \cup {h}, P, X)
<1> DEFINE b == At(f, s)
<1>1. /\ H \in SUBSET Places /\ P \in SUBSET Places /\ H \cap P = {} /\ CountsAreExact(f, H)
      /\ BitmapIsExact(f, H, P, X) /\ b \in Blocks /\ b \notin X
  BY DEF Held, BitmapIsExact
<1>2. CountsAreExact(g, H \cup {h})
  <2>1. f.refs \in [Blocks -> Nat] /\ h \in Places \ H /\ \A k \in H : At(g, k) = At(f, k)
    BY FieldTypes
  <2> QED
    BY <1>1, <2>1, CountsOneMore
<1>3. BitmapIsExact(g, H \cup {h}, P, X)
  <2>1. \A k \in (H \cup {h}) \cup P : At(g, k) \in Blocks \ X
    BY <1>1 DEF BitmapIsExact
  <2>2. ASSUME NEW c \in Blocks
        PROVE  c \in g.bmap <=> (c \in X \/ \E k \in (H \cup {h}) \cup P : At(g, k) = c)
    <3>1. c \in f.bmap <=> (c \in X \/ \E k \in H \cup P : At(f, k) = c)
      BY <1>1 DEF BitmapIsExact
    <3> QED
      BY <3>1
  <2>3. \A k \in P, l \in (H \cup {h}) \cup P : At(g, l) = At(g, k) => l = k
    <3>1. \A k \in P : At(f, k) # b
      BY <1>1 DEF BitmapIsExact
    <3> QED
      BY <1>1, <3>1 DEF BitmapIsExact
  <2> QED
    BY <2>1, <2>2, <2>3 DEF BitmapIsExact
<1> QED
  BY <1>1, <1>2, <1>3 DEF Held

LEMMA FreeFinite ==
  ASSUME NEW f
  PROVE  /\ IsFiniteSet(FreeBlocks(f)) /\ Cardinality(FreeBlocks(f)) \in Nat
         /\ Cardinality(FreeBlocks(f)) = 0 <=> FreeBlocks(f) = {}
<1>1. FreeBlocks(f) \in SUBSET Blocks
  BY DEF FreeBlocks
<1>2. IsFiniteSet(FreeBlocks(f))
  BY <1>1, Constants, FS_Subset
<1> QED
  BY <1>2, FS_CardinalityType, FS_EmptySet

LEMMA FreeOneLess ==
  ASSUME NEW f, NEW g, NEW b \in FreeBlocks(f), g.bmap = f.bmap \cup {b}
  PROVE  Cardinality(FreeBlocks(g)) = Cardinality(FreeBlocks(f)) - 1
<1>1. FreeBlocks(g) = FreeBlocks(f) \ {b}
  BY DEF FreeBlocks
<1>2. IsFiniteSet(FreeBlocks(f))
  BY FreeFinite
<1> QED
  BY <1>1, <1>2, FS_RemoveElement

\* As copy_on_write changes one.
Separated(f, b, c, x) == [f EXCEPT !.refs[b] = @ - 1, !.mem[c] = x]

LEMMA WithCount ==
  ASSUME NEW f \in FsRecord, NEW b \in Blocks, NEW c \in Blocks, NEW x \in [Units -> Contained],
         f.refs[b] > 0
  PROVE  LET g == Separated(f, b, c, x) IN
         g \in FsRecord /\ Untouched(f, g) /\ g.inode = f.inode /\ g.bmap = f.bmap
<1> DEFINE r == [f.refs EXCEPT ![b] = @ - 1]
           m == [f.mem EXCEPT ![c] = x]
           g == Separated(f, b, c, x)
<1>1. g = [f EXCEPT !.bmap = f.bmap, !.refs = r, !.mem = m, !.inode = f.inode]
  BY DEF FsRecord, Separated
<1>2. /\ f.bmap \in SUBSET Blocks /\ f.inode \in [Inodes -> Inode]
      /\ f.refs \in [Blocks -> Nat] /\ f.mem \in [Blocks -> [Units -> Contained]]
  BY FieldTypes
<1>3. r \in [Blocks -> Nat] /\ m \in [Blocks -> [Units -> Contained]]
  BY <1>2
<1> HIDE DEF g, r, m
<1>4. g \in FsRecord /\ Untouched(f, g) /\ g.bmap = f.bmap /\ g.inode = f.inode
  BY <1>1, <1>2, <1>3 DEF FsRecord, Untouched, Contained
<1> QED
  BY <1>4 DEF g

LEMMA ReserveIs ==
  ASSUME NEW f \in FsRecord, NEW i \in Inodes, NEW q \in Slots
  PROVE  LET g == Reserve(f, i, q)
             b == Min(FreeBlocks(f))
         IN  /\ g \in FsRecord /\ Untouched(f, g) /\ g.mem = f.mem
             /\ FreeBlocks(f) = {} => g = f
             /\ FreeBlocks(f) # {} =>
                  /\ b \in FreeBlocks(f)
                  /\ g.inode = PutAt(f, i, q, b)
                  /\ g.bmap = f.bmap \cup {b} /\ g.refs = [f.refs EXCEPT ![b] = @ + 1]
                  /\ Cardinality(FreeBlocks(g)) = Cardinality(FreeBlocks(f)) - 1
<1> DEFINE g == Reserve(f, i, q)
           b == Min(FreeBlocks(f))
<1>1. CASE FreeBlocks(f) = {}
  BY <1>1 DEF Reserve, Untouched
<1>2. CASE FreeBlocks(f) # {}
  <2>1. b \in FreeBlocks(f) /\ b \in Blocks
    BY <1>2, FirstFree DEF FreeBlocks
  <2> HIDE DEF b
  <2>2. g = [f EXCEPT !.bmap = @ \cup {b}, !.refs[b] = @ + 1, !.inode[i].blocks[q] = b]
    BY <1>2 DEF Reserve, b
  <2> HIDE DEF g
  <2>3. f.refs \in [Blocks -> Nat] /\ f.bmap \in SUBSET Blocks
    BY FieldTypes
  <2>4. /\ g.inode = PutAt(f, i, q, b) /\ Untouched(f, g) /\ g.mem = f.mem
        /\ g.bmap = f.bmap \cup {b} /\ g.refs = [f.refs EXCEPT ![b] = @ + 1]
    BY <2>2 DEF FsRecord, Untouched, PutAt
  <2>5. g.inode \in [Inodes -> Inode]
    <3>1. b \in Blocks \cup {0} /\ g.inode = PutAt(f, i, q, b)
      BY <2>1, <2>4
    <3> QED
      BY <3>1, SlotSet
  <2>6. g.bmap \in SUBSET Blocks /\ g.refs \in [Blocks -> Nat]
    BY <2>1, <2>3, <2>4
  <2>7. g \in FsRecord
    BY <2>2, <2>5, <2>6 DEF FsRecord
  <2>8. Cardinality(FreeBlocks(g)) = Cardinality(FreeBlocks(f)) - 1
    BY <2>1, <2>4, FreeOneLess
  <2> QED
    BY <1>2, <2>1, <2>4, <2>7, <2>8 DEF g, b
<1> QED
  BY <1>1, <1>2

\* The slot that copy_on_write changes.
SlotsWith(f, i, b) == {p \in Slots : f.inode[i].blocks[p] = b}

LEMMA SlotOf ==
  ASSUME NEW f \in FsRecord, NEW i \in Inodes, NEW q \in Slots, NEW b, b = At(f, <<i, q>>)
  PROVE  /\ Min(SlotsWith(f, i, b)) \in SlotsWith(f, i, b) /\ Min(SlotsWith(f, i, b)) \in Slots
         /\ (\A p \in 0 .. q - 1 : At(f, <<i, p>>) # b) => Min(SlotsWith(f, i, b)) = q
<1> DEFINE S == SlotsWith(f, i, b)
<1>1. S \subseteq Slots /\ S \subseteq Nat /\ q \in S
  BY Constants, PlaceParts DEF SlotsWith
<1>2. \A p \in S : At(f, <<i, p>>) = b
  BY PlaceParts DEF SlotsWith
<1> HIDE DEF S
<1>3. \E x \in S : \A y \in S : x =< y
  BY <1>1, LeastNat
<1>4. Min(S) \in S /\ \A y \in S : Min(S) =< y
  BY <1>3 DEF Min
<1>5. Min(S) \in Slots /\ Min(S) \in Nat /\ q \in Nat /\ Min(S) <= q
  BY <1>1, <1>4
<1>6. ASSUME \A p \in 0 .. q - 1 : At(f, <<i, p>>) # b
      PROVE  Min(S) = q
  <2>1. ~(Min(S) \in 0 .. q - 1)
    BY <1>2, <1>4, <1>6
  <2> QED
    BY <1>5, <2>1
<1> QED
  BY <1>4, <1>5, <1>6 DEF S

\* escreverBloco: the types, whatever the counts are.
LEMMA WriteBlockTyped ==
  ASSUME NEW f \in FsRecord, NEW i \in Inodes, NEW q \in Slots, NEW v \in [Units -> Contained],
         At(f, <<i, q>>) \in Blocks
  PROVE  LET g == WriteBlock(f, At(f, <<i, q>>), i, v) IN
         /\ g \in FsRecord /\ SameFiles(f, g)
         /\ \A j \in Inodes \ {i} : g.inode[j] = f.inode[j]
         /\ \A h \in Places : At(f, h) \in Blocks => At(g, h) \in Blocks
<1> DEFINE b == At(f, <<i, q>>)
           g == WriteBlock(f, b, i, v)
           s == Separate(f, b, i)
<1> SUFFICES
      /\ s.f \in FsRecord /\ SameFiles(f, s.f) /\ s.b \in Blocks
      /\ \A j \in Inodes \ {i} : s.f.inode[j] = f.inode[j]
      /\ \A h \in Places : At(f, h) \in Blocks => At(s.f, h) \in Blocks
  <2>1. ASSUME NEW t \in FsRecord, NEW c \in Blocks
        PROVE  [t EXCEPT !.mem[c] = v] \in FsRecord
    <3>1. t.mem \in [Blocks -> [Units -> Contained]]
      BY FieldTypes
    <3>2. [t.mem EXCEPT ![c] = v] \in [Blocks -> [Units -> Contained]]
      BY <3>1
    <3> QED
      BY <3>2 DEF FsRecord, Contained
  <2> HIDE DEF s
  <2>2. g = [s.f EXCEPT !.mem[s.b] = v]
    BY DEF WriteBlock, s
  <2> HIDE DEF g
  <2> SUFFICES ASSUME s.f \in FsRecord, s.b \in Blocks, Untouched(f, s.f)
               PROVE  g \in FsRecord /\ Untouched(f, g) /\ g.inode = s.f.inode
    BY DEF At, SameFiles, SameKinds, g
  <2>3. g \in FsRecord
    BY <2>1, <2>2
  <2>4. g.used = s.f.used /\ g.entries = s.f.entries /\ g.inode = s.f.inode
    BY <2>2 DEF FsRecord
  <2> QED
    BY <2>3, <2>4 DEF Untouched
<1>1. CASE f.refs[b] <= 1 \/ FreeBlocks(f) = {}
  <2>1. s = [f |-> f, b |-> b]
    BY <1>1 DEF Separate
  <2> QED
    BY <2>1 DEF Untouched, SameFiles, SameKinds
<1>2. CASE ~(f.refs[b] <= 1 \/ FreeBlocks(f) = {})
  <2> DEFINE p == Min(SlotsWith(f, i, b))
             t == Reserve(f, i, p)
             c == t.inode[i].blocks[p]
  <2>1. p \in Slots
    BY SlotOf
  <2>2. s = [f |-> [t EXCEPT !.refs[b] = @ - 1, !.mem[c] = f.mem[b]], b |-> c]
    BY <1>2 DEF Separate, SlotsWith
  <2> HIDE DEF p
  <2> DEFINE m == Min(FreeBlocks(f))
  <2>3. /\ t \in FsRecord /\ Untouched(f, t) /\ t.mem = f.mem
        /\ m \in Blocks /\ m \notin f.bmap
        /\ t.inode = PutAt(f, i, p, m)
        /\ t.refs = [f.refs EXCEPT ![m] = @ + 1]
    BY <1>2, <2>1, ReserveIs DEF FreeBlocks
  <2> HIDE DEF t, m
  <2>4. /\ c = m
        /\ SameKinds(f, t) /\ \A j \in Inodes \ {i} : t.inode[j] = f.inode[j]
        /\ \A h \in Places \ {<<i, p>>} : At(t, h) = At(f, h)
        /\ At(t, <<i, p>>) = m
    BY <2>1, <2>3, SlotSet, PlaceParts
  <2>5. /\ s.b \in Blocks /\ s.f.inode = t.inode /\ Untouched(f, s.f)
        /\ s.f \in FsRecord
    <3>1. f.refs \in [Blocks -> Nat] /\ f.mem \in [Blocks -> [Units -> Contained]] /\ b \in Blocks
      BY FieldTypes
    <3>2. t.refs \in [Blocks -> Nat] /\ t.refs[b] > 0
      BY <1>2, <2>3, <3>1
    <3>3. b \in Blocks /\ c \in Blocks /\ f.mem[b] \in [Units -> Contained]
      BY <2>3, <2>4, <3>1
    <3> HIDE DEF b, c, s
    <3> DEFINE x == f.mem[b]
               w == Separated(t, b, c, x)
    <3>4. /\ t \in FsRecord /\ b \in Blocks /\ c \in Blocks /\ x \in [Units -> Contained]
          /\ t.refs[b] > 0
      BY <2>3, <3>2, <3>3
    <3> HIDE DEF x
    <3>5. w \in FsRecord /\ Untouched(t, w) /\ w.inode = t.inode
      BY <3>4, WithCount
    <3>6. s = [f |-> w, b |-> c]
      BY <2>2 DEF Separated, x
    <3> HIDE DEF w
    <3>7. s.f = w /\ s.b = c
      BY <3>6
    <3> QED
      BY <2>3, <2>4, <3>5, <3>7 DEF Untouched
  <2>7. \A h \in Places : At(f, h) \in Blocks => At(s.f, h) \in Blocks
    BY <2>3, <2>4, <2>5 DEF At
  <2> QED
    BY <2>4, <2>5, <2>7 DEF SameFiles, SameKinds
<1> QED
  BY <1>1, <1>2

-----------------------------------------------------------------------------
(* Giving blocks back                                                      *)

LEMMA ReleaseRecord ==
  ASSUME NEW f \in FsRecord, NEW b \in Blocks \cup {0}
  PROVE  Release(f, b) \in FsRecord
BY ReleaseTyped

LEMMA ReleaseAllSteps ==
  ASSUME NEW f \in FsRecord, NEW i \in Inodes, NEW n \in 0 .. NumSlots, n = InBlocks(Size(f, i))
  PROVE  \E g \in [0 .. n -> FsRecord] :
           /\ g[0] = f /\ g[n] = ReleaseAll(f, i)
           /\ \A k \in 1 .. n : g[k] = Release(g[k - 1], At(f, <<i, k - 1>>))
<1> DEFINE seq == UsedSlots(f, i)
           h == [p \in FsRecord \X (1 .. n) |-> Release(p[1], At(f, <<i, p[2] - 1>>))]
           R(it) == it = [s \in SUBSET DOMAIN seq |->
                            IF s = {} THEN f
                            ELSE Release(it[s \ {Max(s)}], f.inode[i].blocks[seq[Max(s)]])]
           iter == CHOOSE it : R(it)
<1>1. n \in Nat /\ n <= NumSlots /\ NumSlots \in Nat
  BY Constants
<1>2. DOMAIN seq = 1 .. n /\ \A k \in 1 .. n : seq[k] = k - 1
  BY DEF UsedSlots
<1>3. ReleaseAll(f, i) = iter[1 .. n]
  BY <1>2 DEF ReleaseAll, FoldLeft, MapThenFoldSet
<1> HIDE DEF seq
<1>4. ASSUME NEW g \in FsRecord, NEW k \in 1 .. n
      PROVE  /\ f.inode[i].blocks[seq[k]] = At(f, <<i, k - 1>>)
             /\ Release(g, At(f, <<i, k - 1>>)) \in FsRecord
  <2>1. k - 1 \in Slots
    BY <1>1, Constants
  <2>2. At(f, <<i, k - 1>>) \in Blocks \cup {0}
    BY <2>1, FieldTypes, PlaceParts
  <2> QED
    BY <1>2, <2>2, PlaceParts, ReleaseRecord
<1>5. h \in [FsRecord \X (1 .. n) -> FsRecord]
  BY <1>4
<1>6. \A g \in FsRecord, k \in 1 .. n :
        h[<<g, k>>] = Release(g, At(f, <<i, k - 1>>))
  OBVIOUS
<1> HIDE DEF h
<1>7. ASSUME NEW g \in FsRecord, NEW k \in 1 .. n
      PROVE  h[<<g, k>>] = Release(g, f.inode[i].blocks[seq[k]])
  BY <1>4, <1>6
<1>8. R(iter)
  <2>1. PICK it : Total(it, FsRecord, n) /\ Iterates(it, FsRecord, n, f, h)
    BY <1>1, <1>5, FoldExists
  <2>2. it = [s \in SUBSET (1 .. n) |-> it[s]] /\ it[{}] = f
    BY <2>1 DEF Total, Iterates
  <2>3. ASSUME NEW s \in SUBSET (1 .. n), s # {}
        PROVE  it[s] = Release(it[s \ {Max(s)}], f.inode[i].blocks[seq[Max(s)]])
    <3>1. /\ Max(s) \in 1 .. n /\ it[s \ {Max(s)}] \in FsRecord
          /\ it[s] = h[<<it[s \ {Max(s)}], Max(s)>>]
      BY <2>1, <2>3 DEF Total, Iterates
    <3> QED
      BY <1>7, <3>1
  <2>4. R(it)
    BY <1>2, <2>2, <2>3
  <2> QED
    BY <2>4
<1>9. Iterates(iter, FsRecord, n, f, h)
  <2> HIDE DEF iter
  <2>1. iter[{}] = f
    BY <1>2, <1>8
  <2>2. ASSUME NEW s \in SUBSET (1 .. n), s # {}, Max(s) \in 1 .. n, iter[s \ {Max(s)}] \in FsRecord
        PROVE  iter[s] = h[<<iter[s \ {Max(s)}], Max(s)>>]
    <3>1. iter[s] = Release(iter[s \ {Max(s)}], f.inode[i].blocks[seq[Max(s)]])
      BY <1>2, <1>8, <2>2
    <3> QED
      BY <1>7, <2>2, <3>1
  <2> QED
    BY <2>1, <2>2 DEF Iterates
<1> HIDE DEF iter
<1>10. Runs(iter[1 .. n], FsRecord, n, f, h)
  BY <1>1, <1>5, <1>9, FoldSteps
<1>11. PICK g \in [0 .. n -> FsRecord] :
         g[0] = f /\ g[n] = iter[1 .. n] /\ \A k \in 1 .. n : g[k] = h[<<g[k - 1], k>>]
  BY <1>10 DEF Runs
<1>12. ASSUME NEW k \in 1 .. n PROVE g[k] = Release(g[k - 1], At(f, <<i, k - 1>>))
  <2>1. g[k - 1] \in FsRecord
    BY <1>1, <1>11
  <2> QED
    BY <1>6, <1>11, <2>1
<1> QED
  BY <1>3, <1>11, <1>12

\* The slots m up to n - 1 of an inode.
Slice(i, m, n) == {<<i, q>> : q \in m .. n - 1}

LEMMA SliceEmpty ==
  ASSUME NEW i, NEW m \in Nat
  PROVE  Slice(i, m, m) = {}
<1>1. m .. m - 1 = {}
  OBVIOUS
<1> QED
  BY <1>1 DEF Slice

LEMMA SliceStep ==
  ASSUME NEW i, NEW m \in Nat, NEW n \in Nat, m < n
  PROVE  /\ Slice(i, m, n) = Slice(i, m, n - 1) \cup {<<i, n - 1>>}
         /\ <<i, n - 1>> \notin Slice(i, m, n - 1) /\ n - 1 \in Nat
<1>1. m .. n - 1 = (m .. (n - 1) - 1) \cup {n - 1} /\ n - 1 \notin m .. (n - 1) - 1
  OBVIOUS
<1>2. Slice(i, m, n) = Slice(i, m, n - 1) \cup {<<i, n - 1>>}
  BY <1>1 DEF Slice
<1>3. <<i, n - 1>> \notin Slice(i, m, n - 1)
  BY <1>1 DEF Slice
<1> QED
  BY <1>2, <1>3

LEMMA ReleaseAllTyped ==
  ASSUME NEW f \in FsRecord, NEW i \in Inodes, NEW n \in 0 .. NumSlots, n = InBlocks(Size(f, i))
  PROVE  LET g == ReleaseAll(f, i) IN
         g \in FsRecord /\ Untouched(f, g) /\ g.inode = f.inode
<1>1. PICK g \in [0 .. n -> FsRecord] :
        /\ g[0] = f /\ g[n] = ReleaseAll(f, i)
        /\ \A k \in 1 .. n : g[k] = Release(g[k - 1], At(f, <<i, k - 1>>))
  BY ReleaseAllSteps
<1>2. n \in Nat /\ NumSlots \in Nat /\ n <= NumSlots
  BY Constants
<1> DEFINE T == {k \in 0 .. n : Untouched(f, g[k]) /\ g[k].inode = f.inode}
<1>3. 0 \in T
  BY <1>1, <1>2 DEF Untouched
<1>4. ASSUME NEW k \in 1 .. n, k - 1 \in T PROVE k \in T
  <2> DEFINE r == g[k - 1]
             b == At(f, <<i, k - 1>>)
  <2>1. k - 1 \in Slots /\ r \in FsRecord /\ Untouched(f, r) /\ r.inode = f.inode
    BY <1>2, <1>4, Constants
  <2>2. b \in Blocks \cup {0}
    BY <2>1, FieldTypes, PlaceParts
  <2>3. g[k] = Release(r, b)
    BY <1>1
  <2> HIDE DEF r, b
  <2>4. Release(r, b).used = r.used /\ Release(r, b).entries = r.entries /\ Release(r, b).inode = r.inode
    BY <2>1, <2>2, ReleaseTyped
  <2> QED
    BY <2>1, <2>3, <2>4 DEF Untouched
<1> HIDE DEF T
<1>5. n \in T
  BY <1>2, <1>3, <1>4, LoopEnd
<1> QED
  BY <1>1, <1>2, <1>5 DEF T

\* Of a file, it takes all its places away.
LEMMA ReleaseAllFile ==
  ASSUME NEW f \in FsRecord, NEW i \in Inodes, NEW n \in 0 .. NumSlots, n = InBlocks(Size(f, i)),
         NEW H, NEW P, NEW X, Held(f, H, P, X), Slice(i, 0, n) \subseteq H
  PROVE  LET g == ReleaseAll(f, i)
             K == H \ Slice(i, 0, n)
         IN  Held(g, K, P, X) /\ SameCells(f, g, K)
<1>1. PICK g \in [0 .. n -> FsRecord] :
        /\ g[0] = f /\ g[n] = ReleaseAll(f, i)
        /\ \A k \in 1 .. n : g[k] = Release(g[k - 1], At(f, <<i, k - 1>>))
  BY ReleaseAllSteps
<1>2. n \in Nat /\ NumSlots \in Nat /\ n <= NumSlots
  BY Constants
<1> DEFINE K(k) == H \ Slice(i, 0, k)
           Good(k) == g[k].inode = f.inode /\ Held(g[k], K(k), P, X) /\ SameCells(f, g[k], K(k))
           T == {k \in 0 .. n : Good(k)}
<1>3. 0 \in T
  <2>1. K(0) = H
    BY SliceEmpty
  <2>2. 0 \in 0 .. n
    BY <1>2
  <2> HIDE DEF K
  <2>3. Good(0)
    BY <1>1, <2>1 DEF SameCells
  <2> QED
    BY <2>2, <2>3
<1>4. ASSUME NEW k \in 1 .. n, k - 1 \in T PROVE k \in T
  <2> DEFINE r == g[k - 1]
             h == <<i, k - 1>>
             L == K(k - 1)
  <2>1. r \in FsRecord /\ k - 1 \in Nat /\ k \in Nat /\ 0 < k /\ k \in 0 .. n
    BY <1>2
  <2>2. r.inode = f.inode /\ Held(r, L, P, X) /\ SameCells(f, r, L)
    BY <1>4
  <2>3. g[k] = Release(r, At(r, h))
    <3>1. At(r, h) = At(f, h)
      BY <2>2 DEF At
    <3> QED
      BY <1>1, <3>1
  <2>4. h \in L /\ K(k) = L \ {h}
    <3>1. h \in Slice(i, 0, n)
      BY <1>2 DEF Slice
    <3>2. h \notin Slice(i, 0, k - 1) /\ Slice(i, 0, k) = Slice(i, 0, k - 1) \cup {h}
      BY <2>1, SliceStep
    <3> QED
      BY <3>1, <3>2
  <2> HIDE DEF r, h, L, K
  <2> DEFINE s == Release(r, At(r, h))
  <2>5. s.inode = r.inode /\ Held(s, L \ {h}, P, X) /\ SameCells(r, s, L \ {h})
    BY <2>1, <2>2, <2>4, ReleaseFile
  <2> HIDE DEF s
  <2>6. SameCells(f, s, L \ {h})
    BY <2>2, <2>5 DEF SameCells
  <2>7. g[k] = s
    BY <2>3 DEF s
  <2>8. Good(k)
    BY <2>2, <2>4, <2>5, <2>6, <2>7
  <2> QED
    BY <2>1, <2>8
<1> HIDE DEF T
<1>5. n \in T
  BY <1>2, <1>3, <1>4, LoopEnd
<1> QED
  BY <1>1, <1>2, <1>5 DEF T

-----------------------------------------------------------------------------
(* Reserving blocks                                                        *)

\* The loop of fs_write that reserves n blocks from slot u on.
Extended(f, i, u, n) ==
  FoldLeft(LAMBDA g, q : Reserve(g, i, q), f, [k \in 1 .. n |-> u + k - 1])

Extends(g, f, i, u, n) ==
  /\ g \in [0 .. n -> FsRecord] /\ g[0] = f /\ g[n] = Extended(f, i, u, n)
  /\ \A k \in 1 .. n : g[k] = Reserve(g[k - 1], i, u + k - 1)

LEMMA ExtendedSteps ==
  ASSUME NEW f \in FsRecord, NEW i \in Inodes, NEW u \in Nat, NEW n \in Nat, u + n <= NumSlots
  PROVE  \E g : Extends(g, f, i, u, n)
<1> DEFINE seq == [k \in 1 .. n |-> u + k - 1]
           h == [p \in FsRecord \X (1 .. n) |-> Reserve(p[1], i, u + p[2] - 1)]
           R(it) == it = [s \in SUBSET DOMAIN seq |->
                            IF s = {} THEN f ELSE Reserve(it[s \ {Max(s)}], i, seq[Max(s)])]
           iter == CHOOSE it : R(it)
<1>1. NumSlots \in Nat
  BY Constants
<1>2. DOMAIN seq = 1 .. n /\ \A k \in 1 .. n : seq[k] = u + k - 1
  OBVIOUS
<1>3. Extended(f, i, u, n) = iter[1 .. n]
  BY <1>2 DEF Extended, FoldLeft, MapThenFoldSet
<1> HIDE DEF seq
<1>4. ASSUME NEW g \in FsRecord, NEW k \in 1 .. n
      PROVE  Reserve(g, i, u + k - 1) \in FsRecord
  <2>1. u + k - 1 \in Slots
    BY <1>1, Constants
  <2> QED
    BY <2>1, ReserveIs
<1>5. h \in [FsRecord \X (1 .. n) -> FsRecord]
  BY <1>4
<1>6. \A g \in FsRecord, k \in 1 .. n : h[<<g, k>>] = Reserve(g, i, u + k - 1)
  OBVIOUS
<1> HIDE DEF h
<1>7. ASSUME NEW g \in FsRecord, NEW k \in 1 .. n
      PROVE  h[<<g, k>>] = Reserve(g, i, seq[k])
  BY <1>2, <1>6
<1>8. R(iter)
  <2>1. PICK it : Total(it, FsRecord, n) /\ Iterates(it, FsRecord, n, f, h)
    BY <1>5, FoldExists
  <2>2. it = [s \in SUBSET (1 .. n) |-> it[s]] /\ it[{}] = f
    BY <2>1 DEF Total, Iterates
  <2>3. ASSUME NEW s \in SUBSET (1 .. n), s # {}
        PROVE  it[s] = Reserve(it[s \ {Max(s)}], i, seq[Max(s)])
    <3>1. /\ Max(s) \in 1 .. n /\ it[s \ {Max(s)}] \in FsRecord
          /\ it[s] = h[<<it[s \ {Max(s)}], Max(s)>>]
      BY <2>1, <2>3 DEF Total, Iterates
    <3> QED
      BY <1>7, <3>1
  <2>4. R(it)
    BY <1>2, <2>2, <2>3
  <2> QED
    BY <2>4
<1>9. Iterates(iter, FsRecord, n, f, h)
  <2> HIDE DEF iter
  <2>1. iter[{}] = f
    BY <1>2, <1>8
  <2>2. ASSUME NEW s \in SUBSET (1 .. n), s # {}, Max(s) \in 1 .. n, iter[s \ {Max(s)}] \in FsRecord
        PROVE  iter[s] = h[<<iter[s \ {Max(s)}], Max(s)>>]
    <3>1. iter[s] = Reserve(iter[s \ {Max(s)}], i, seq[Max(s)])
      BY <1>2, <1>8, <2>2
    <3> QED
      BY <1>7, <2>2, <3>1
  <2> QED
    BY <2>1, <2>2 DEF Iterates
<1> HIDE DEF iter
<1>10. Runs(iter[1 .. n], FsRecord, n, f, h)
  BY <1>5, <1>9, FoldSteps
<1>11. PICK g \in [0 .. n -> FsRecord] :
         g[0] = f /\ g[n] = iter[1 .. n] /\ \A k \in 1 .. n : g[k] = h[<<g[k - 1], k>>]
  BY <1>10 DEF Runs
<1>12. ASSUME NEW k \in 1 .. n PROVE g[k] = Reserve(g[k - 1], i, u + k - 1)
  <2>1. g[k - 1] \in FsRecord
    BY <1>11
  <2> QED
    BY <1>6, <1>11, <2>1
<1> QED
  BY <1>3, <1>11, <1>12 DEF Extends

LEMMA ReserveSame ==
  ASSUME NEW f \in FsRecord, NEW i \in Inodes, NEW q \in Slots
  PROVE  SameFiles(f, Reserve(f, i, q))
<1> DEFINE g == Reserve(f, i, q)
           m == Min(FreeBlocks(f))
<1>1. Untouched(f, g)
  BY ReserveIs
<1>2. CASE FreeBlocks(f) = {}
  <2>1. g = f
    BY <1>2, ReserveIs
  <2> QED
    BY <2>1 DEF SameFiles, SameKinds, Untouched
<1>3. CASE FreeBlocks(f) # {}
  <2>1. g.inode = PutAt(f, i, q, m) /\ m \in FreeBlocks(f)
    BY <1>3, ReserveIs
  <2> HIDE DEF g, m
  <2>2. m \in Blocks \cup {0} /\ g.inode = PutAt(f, i, q, m)
    BY <2>1 DEF FreeBlocks
  <2>3. SameKinds(f, g)
    BY <2>2, SlotSet
  <2> QED
    BY <1>1, <2>3 DEF SameFiles, g
<1> QED
  BY <1>2, <1>3

LEMMA ExtendedTyped ==
  ASSUME NEW f \in FsRecord, NEW i \in Inodes, NEW u \in Nat, NEW n \in Nat, u + n <= NumSlots
  PROVE  LET g == Extended(f, i, u, n) IN g \in FsRecord /\ SameFiles(f, g)
<1>0. PICK g : Extends(g, f, i, u, n)
  BY ExtendedSteps
<1>1. /\ g \in [0 .. n -> FsRecord] /\ g[0] = f /\ g[n] = Extended(f, i, u, n)
      /\ \A k \in 1 .. n : g[k] = Reserve(g[k - 1], i, u + k - 1)
  BY <1>0 DEF Extends
<1> DEFINE T == {k \in 0 .. n : SameFiles(f, g[k])}
<1>2. 0 \in T
  BY <1>1 DEF SameFiles, SameKinds, Untouched
<1>3. ASSUME NEW k \in 1 .. n, k - 1 \in T PROVE k \in T
  <2> DEFINE r == g[k - 1]
             q == u + k - 1
             s == Reserve(r, i, q)
  <2>1. q \in Slots /\ r \in FsRecord /\ SameFiles(f, r)
    BY <1>1, <1>3, Constants
  <2>2. g[k] = s
    BY <1>1
  <2> HIDE DEF r, q
  <2>3. SameFiles(r, s)
    BY <2>1, ReserveSame
  <2> HIDE DEF s
  <2>4. SameFiles(f, s)
    BY <2>1, <2>3 DEF SameFiles, SameKinds, Untouched
  <2> QED
    BY <2>2, <2>4
<1> HIDE DEF T
<1>4. n \in T
  BY <1>2, <1>3, LoopEnd
<1> QED
  BY <1>1, <1>4 DEF T

\* What holds a block goes on holding it, with as many others.
Stays(f, g, K) ==
  \A h \in K : At(g, h) = At(f, h) /\ g.refs[At(g, h)] = f.refs[At(f, h)]

LEMMA ReserveFile ==
  ASSUME NEW f \in FsRecord, NEW H, NEW P, NEW X, Held(f, H, P, X), FreeBlocks(f) # {},
         NEW i \in Inodes, NEW q \in Slots, NEW h \in Places \ (H \cup P), h = <<i, q>>
  PROVE  LET g == Reserve(f, i, q) IN
         /\ Held(g, H \cup {h}, P, X) /\ SameCells(f, g, H) /\ Stays(f, g, H)
         /\ g.refs[At(g, h)] = 1
         /\ Cardinality(FreeBlocks(g)) = Cardinality(FreeBlocks(f)) - 1
<1> DEFINE g == Reserve(f, i, q)
           b == Min(FreeBlocks(f))
<1>1. /\ g \in FsRecord /\ g.mem = f.mem /\ b \in FreeBlocks(f) /\ g.inode = PutAt(f, i, q, b)
      /\ g.bmap = f.bmap \cup {b} /\ g.refs = [f.refs EXCEPT ![b] = @ + 1]
      /\ Cardinality(FreeBlocks(g)) = Cardinality(FreeBlocks(f)) - 1
  BY ReserveIs
<1> HIDE DEF g, b
<1>2. b \in Blocks /\ b \in Blocks \cup {0} /\ b \notin f.bmap
  BY <1>1 DEF FreeBlocks
<1>3. At(g, h) = b /\ \A k \in Places \ {h} : At(g, k) = At(f, k)
  <2>1. g.inode = PutAt(f, i, q, b) /\ b \in Blocks \cup {0}
    BY <1>1, <1>2
  <2> QED
    BY <2>1, SlotSet
<1>4. H \in SUBSET Places /\ P \in SUBSET Places /\ CountsAreExact(f, H) /\ BitmapIsExact(f, H, P, X)
  BY DEF Held
<1>5. h \in Places \ (H \cup P) /\ \A k \in H \cup P : At(g, k) = At(f, k)
  BY <1>3, <1>4
<1>6. Held(g, H \cup {h}, P, X)
  BY <1>1, <1>3, <1>5, TakeFile
<1>7. \A k \in H : At(f, k) # b
  BY <1>2, <1>4 DEF BitmapIsExact
<1>8. f.refs \in [Blocks -> Nat] /\ f.refs[b] = 0
  <2>1. Holders(f, H, b) = {}
    BY <1>7 DEF Holders
  <2>2. f.refs[b] = Cardinality({})
    BY <1>2, <1>4, <2>1 DEF CountsAreExact
  <2> QED
    BY <2>2, FS_EmptySet, FieldTypes
<1>9. g.refs[b] = 1 /\ \A c \in Blocks \ {b} : g.refs[c] = f.refs[c]
  BY <1>1, <1>2, <1>8
<1>10. SameCells(f, g, H)
  BY <1>1, <1>5 DEF SameCells, Cell
<1>11. Stays(f, g, H)
  <2>1. \A k \in H : At(f, k) \in Blocks
    BY <1>4 DEF BitmapIsExact
  <2> QED
    BY <1>5, <1>7, <1>9, <2>1 DEF Stays
<1> QED
  BY <1>1, <1>3, <1>6, <1>9, <1>10, <1>11 DEF g

HasExtended(g, f, H, P, X, i, u, n) ==
  /\ Held(g, H \cup Slice(i, u, u + n), P, X) /\ SameCells(f, g, H) /\ Stays(f, g, H)
  /\ \A h \in Slice(i, u, u + n) : g.refs[At(g, h)] = 1
  /\ Cardinality(FreeBlocks(g)) = Cardinality(FreeBlocks(f)) - n

LEMMA ExtendedFile ==
  ASSUME NEW f \in FsRecord, NEW i \in Inodes, NEW u \in Nat, NEW n \in Nat, u + n <= NumSlots,
         NEW H, NEW P, NEW X, Held(f, H, P, X), Slice(i, u, u + n) \cap (H \cup P) = {},
         n <= Cardinality(FreeBlocks(f))
  PROVE  HasExtended(Extended(f, i, u, n), f, H, P, X, i, u, n)
<1>0. PICK g : Extends(g, f, i, u, n)
  BY ExtendedSteps
<1>1. /\ g \in [0 .. n -> FsRecord] /\ g[0] = f /\ g[n] = Extended(f, i, u, n)
      /\ \A k \in 1 .. n : g[k] = Reserve(g[k - 1], i, u + k - 1)
  BY <1>0 DEF Extends
<1> DEFINE N(k) == Slice(i, u, u + k)
           Good(r, k) == /\ Held(r, H \cup N(k), P, X) /\ SameCells(f, r, H) /\ Stays(f, r, H)
                         /\ \A h \in N(k) : r.refs[At(r, h)] = 1
                         /\ Cardinality(FreeBlocks(r)) = Cardinality(FreeBlocks(f)) - k
           T == {k \in 0 .. n : Good(g[k], k)}
<1>2. 0 \in T
  <2>1. N(0) = {}
    BY SliceEmpty
  <2>2. Cardinality(FreeBlocks(f)) \in Nat
    BY FreeFinite
  <2> HIDE DEF N
  <2>3. Good(f, 0)
    BY <2>1, <2>2 DEF SameCells, Stays
  <2> QED
    BY <1>1, <2>3
<1>3. ASSUME NEW k \in 1 .. n, k - 1 \in T PROVE k \in T
  <2> DEFINE r == g[k - 1]
             q == u + k - 1
             h == <<i, q>>
             s == Reserve(r, i, q)
             M == N(k - 1)
             K == H \cup M
  <2>1. q \in Slots /\ r \in FsRecord /\ Good(r, k - 1) /\ k - 1 \in Nat
    BY <1>1, <1>3, Constants
  <2>2. g[k] = s
    BY <1>1
  <2>3. N(k) = M \cup {h} /\ h \notin M
    <3>1. u + k \in Nat /\ u < u + k /\ (u + k) - 1 = u + (k - 1) /\ (u + k) - 1 = q
      OBVIOUS
    <3> HIDE DEF q
    <3>2. Slice(i, u, u + k) = Slice(i, u, (u + k) - 1) \cup {<<i, (u + k) - 1>>}
      BY <3>1, SliceStep
    <3>3. <<i, (u + k) - 1>> \notin Slice(i, u, (u + k) - 1)
      BY <3>1, SliceStep
    <3> QED
      BY <3>1, <3>2, <3>3
  <2>4. h \notin K \cup P
    <3>1. h \in Slice(i, u, u + n)
      BY DEF Slice
    <3> QED
      BY <2>3, <3>1
  <2> DEFINE cf == Cardinality(FreeBlocks(f))
             cr == Cardinality(FreeBlocks(r))
             cs == Cardinality(FreeBlocks(s))
  <2>5. FreeBlocks(r) # {} /\ cr \in Nat /\ cf \in Nat /\ cr = cf - (k - 1)
    <3>1. cr \in Nat /\ cf \in Nat /\ (cr = 0 <=> FreeBlocks(r) = {})
      BY FreeFinite
    <3>2. cr = cf - (k - 1) /\ k <= cf
      BY <2>1, <3>1
    <3> HIDE DEF cr, cf
    <3> QED
      BY <3>1, <3>2
  <2>6. h \in Places
    BY <2>1, PlaceParts
  <2> HIDE DEF r, q, s, M, N, cf, cr, cs
  <2>7. Held(r, K, P, X) /\ SameCells(f, r, H) /\ Stays(f, r, H) /\ \A j \in M : r.refs[At(r, j)] = 1
    BY <2>1 DEF M
  <2> HIDE DEF K, Good
  <2>8. /\ Held(s, K \cup {h}, P, X) /\ SameCells(r, s, K) /\ Stays(r, s, K)
        /\ s.refs[At(s, h)] = 1 /\ cs = cr - 1
    <3>1. h \in Places \ (K \cup P) /\ h = <<i, q>> /\ r \in FsRecord /\ q \in Slots
      BY <2>1, <2>4, <2>6
    <3> HIDE DEF h
    <3> QED
      BY <2>5, <2>7, <3>1, ReserveFile DEF s, cs, cr
  <2>9. cs = cf - k
    BY <2>5, <2>8
  <2>10. SameCells(f, s, H) /\ Stays(f, s, H)
    BY <2>7, <2>8 DEF SameCells, Stays, K
  <2>11. \A j \in M \cup {h} : s.refs[At(s, j)] = 1
    BY <2>7, <2>8 DEF Stays, K
  <2>12. K \cup {h} = H \cup N(k)
    BY <2>3 DEF K
  <2>13. Good(s, k)
    BY <2>3, <2>9, <2>8, <2>10, <2>11, <2>12 DEF Good, cs, cf
  <2> QED
    BY <2>2, <2>13
<1> HIDE DEF T
<1>4. n \in T
  BY <1>2, <1>3, LoopEnd
<1> QED
  BY <1>1, <1>4 DEF T, HasExtended

-----------------------------------------------------------------------------
(* Writing a block                                                         *)

PutMem(f, b, v) == [f EXCEPT !.mem[b] = v]

LEMMA WriteAlone ==
  ASSUME NEW f \in FsRecord, NEW H, NEW P, NEW X, Held(f, H, P, X), NEW h \in H,
         f.refs[At(f, h)] <= 1, NEW v
  PROVE  LET g == PutMem(f, At(f, h), v) IN
         /\ g.inode = f.inode /\ g.refs = f.refs /\ g.bmap = f.bmap /\ Held(g, H, P, X)
         /\ SameCells(f, g, H \ {h}) /\ Cell(g, h) = v
<1> DEFINE b == At(f, h)
           g == PutMem(f, b, v)
<1>1. /\ H \in SUBSET Places /\ P \in SUBSET Places /\ H \cap P = {} /\ CountsAreExact(f, H)
      /\ BitmapIsExact(f, H, P, X) /\ b \in Blocks
  BY DEF Held, BitmapIsExact
<1>2. \A k \in H : At(f, k) = b => k = h
  BY <1>1, CountOfHolder
<1> HIDE DEF b, g
<1>3. f.mem \in [Blocks -> [Units -> Contained]]
  BY FieldTypes
<1>4. /\ g.inode = f.inode /\ g.refs = f.refs /\ g.bmap = f.bmap /\ g.mem = [f.mem EXCEPT ![b] = v]
  BY DEF FsRecord, PutMem, g
<1>5. \A k : At(g, k) = At(f, k)
  BY <1>4 DEF At
<1>6. Held(g, H, P, X)
  <2>1. \A c : Holders(g, H, c) = Holders(f, H, c)
    BY <1>5 DEF Holders
  <2>2. CountsAreExact(g, H)
    BY <1>1, <1>4, <2>1 DEF CountsAreExact
  <2>3. BitmapIsExact(g, H, P, X)
    BY <1>1, <1>4, <1>5 DEF BitmapIsExact
  <2> QED
    BY <1>1, <2>2, <2>3 DEF Held
<1>7. Cell(g, h) = v
  BY <1>1, <1>3, <1>4, <1>5 DEF Cell, b
<1>8. ASSUME NEW k \in H \ {h} PROVE Cell(g, k) = Cell(f, k)
  <2>1. At(f, k) # b
    BY <1>2
  <2> QED
    BY <1>3, <1>4, <1>5, <2>1 DEF Cell
<1> QED
  BY <1>4, <1>6, <1>7, <1>8 DEF SameCells, b, g

\* escreverBloco finds a block to write at that place.
MayWrite(f, i, q) ==
  f.refs[At(f, <<i, q>>)] > 1 =>
    FreeBlocks(f) # {} /\ \A p \in 0 .. q - 1 : At(f, <<i, p>>) # At(f, <<i, q>>)

\* And changes nothing anywhere else.
LEMMA WriteBlockFile ==
  ASSUME NEW f \in FsRecord, NEW H, NEW P, NEW X, Held(f, H, P, X),
         NEW i \in Inodes, NEW q \in Slots, NEW h \in H, h = <<i, q>>, NEW v \in [Units -> Contained],
         MayWrite(f, i, q)
  PROVE  LET g == WriteBlock(f, At(f, h), i, v) IN
         /\ Held(g, H, P, X) /\ SameCells(f, g, H \ {h}) /\ Cell(g, h) = v
         /\ \A k \in Places \ {h} : At(g, k) = At(f, k)
         /\ g.refs[At(g, h)] <= 1
         /\ \A k \in H : g.refs[At(g, k)] <= f.refs[At(f, k)]
         /\ Cardinality(FreeBlocks(g)) =
              Cardinality(FreeBlocks(f)) - IF f.refs[At(f, h)] <= 1 THEN 0 ELSE 1
<1> DEFINE b == At(f, h)
           g == WriteBlock(f, b, i, v)
<1>1. /\ H \in SUBSET Places /\ P \in SUBSET Places /\ CountsAreExact(f, H)
      /\ BitmapIsExact(f, H, P, X) /\ b \in Blocks /\ b \in f.bmap
      /\ \A k \in H : At(f, k) \in Blocks
  BY DEF Held, BitmapIsExact
<1>2. f.refs \in [Blocks -> Nat] /\ f.mem \in [Blocks -> [Units -> Contained]]
  BY FieldTypes
<1>3. CASE f.refs[b] <= 1
  <2>1. g = PutMem(f, b, v)
    BY <1>3 DEF WriteBlock, Separate, PutMem
  <2> HIDE DEF g
  <2>2. /\ g.inode = f.inode /\ g.refs = f.refs /\ g.bmap = f.bmap /\ Held(g, H, P, X)
        /\ SameCells(f, g, H \ {h}) /\ Cell(g, h) = v
    BY <1>3, <2>1, WriteAlone DEF b
  <2>3. FreeBlocks(g) = FreeBlocks(f) /\ \A k : At(g, k) = At(f, k)
    BY <2>2 DEF FreeBlocks, At
  <2>4. Cardinality(FreeBlocks(g)) = Cardinality(FreeBlocks(f)) - 0
    BY <2>3, FreeFinite
  <2>5. \A k \in H : f.refs[At(f, k)] \in Nat
    BY <1>1, <1>2
  <2> QED
    BY <1>3, <2>2, <2>3, <2>4, <2>5 DEF g
<1>4. CASE ~(f.refs[b] <= 1)
  <2> DEFINE S == SlotsWith(f, i, b)
             t == Reserve(f, i, q)
             c == Min(FreeBlocks(f))
             x == f.mem[b]
             w == Separated(t, b, c, x)
  <2>1. f.refs[b] > 1 /\ FreeBlocks(f) # {}
    BY <1>1, <1>2, <1>4 DEF MayWrite
  <2>2. Min(S) = q
    <3>1. (\A p \in 0 .. q - 1 : At(f, <<i, p>>) # b) /\ b = At(f, <<i, q>>)
      BY <2>1 DEF MayWrite
    <3> HIDE DEF b
    <3> QED
      BY <3>1, SlotOf
  <2>3. /\ t \in FsRecord /\ Untouched(f, t) /\ t.mem = f.mem
        /\ c \in FreeBlocks(f)
        /\ t.inode = PutAt(f, i, q, c)
        /\ t.bmap = f.bmap \cup {c} /\ t.refs = [f.refs EXCEPT ![c] = @ + 1]
        /\ Cardinality(FreeBlocks(t)) = Cardinality(FreeBlocks(f)) - 1
    BY <2>1, ReserveIs
  <2>4. Separate(f, b, i) = [f |-> [t EXCEPT !.refs[b] = @ - 1, !.mem[t.inode[i].blocks[q]] = f.mem[b]],
                             b |-> t.inode[i].blocks[q]]
    BY <1>4, <2>1, <2>2 DEF Separate, SlotsWith
  <2> HIDE DEF t, c
  <2>5. /\ c \in Blocks /\ c # b /\ c \notin f.bmap /\ c \in Blocks \cup {0} /\ h \in Places
    BY <1>1, <2>3 DEF FreeBlocks
  <2>6. At(t, h) = c /\ \A k \in Places \ {h} : At(t, k) = At(f, k)
    <3>1. t.inode = PutAt(f, i, q, c) /\ c \in Blocks \cup {0}
      BY <2>3, <2>5
    <3> QED
      BY <3>1, SlotSet
  <2>7. g = [w EXCEPT !.mem[c] = v]
    <3>1. t.inode[i].blocks[q] = c
      BY <2>6, PlaceParts
    <3>2. Separate(f, b, i) = [f |-> w, b |-> c]
      BY <2>4, <3>1 DEF Separated
    <3> HIDE DEF w
    <3> QED
      BY <3>2 DEF WriteBlock
  <2>8. f.refs[c] = 0 /\ \A k \in H \cup P : At(f, k) # c
    <3>1. \A k \in H \cup P : At(f, k) # c
      BY <1>1, <2>5 DEF BitmapIsExact
    <3>2. Holders(f, H, c) = {}
      BY <3>1 DEF Holders
    <3>3. f.refs[c] = Cardinality({})
      BY <1>1, <2>5, <3>2 DEF CountsAreExact
    <3> QED
      BY <3>1, <3>3, FS_EmptySet
  <2> HIDE DEF b, x
  <2>9. /\ w \in FsRecord /\ w.inode = t.inode /\ w.bmap = t.bmap
        /\ w.refs = [t.refs EXCEPT ![b] = @ - 1] /\ w.mem = [t.mem EXCEPT ![c] = x]
    <3>1. t \in FsRecord /\ b \in Blocks /\ c \in Blocks /\ x \in [Units -> Contained] /\ t.refs[b] > 0
      BY <1>1, <1>2, <2>1, <2>3, <2>5 DEF x
    <3>2. w \in FsRecord /\ w.inode = t.inode /\ w.bmap = t.bmap
      BY <3>1, WithCount
    <3>3. w.refs = [t.refs EXCEPT ![b] = @ - 1] /\ w.mem = [t.mem EXCEPT ![c] = x]
      BY <3>1 DEF FsRecord, Separated
    <3> HIDE DEF w
    <3> QED
      BY <3>2, <3>3
  <2> HIDE DEF g, w
  <2>10. /\ g \in FsRecord /\ g.inode = t.inode /\ g.bmap = t.bmap
         /\ g.refs = [t.refs EXCEPT ![b] = @ - 1]
         /\ \A d \in Blocks : g.mem[d] = IF d = c THEN v ELSE f.mem[d]
    <3>1. w.mem \in [Blocks -> [Units -> Contained]]
      BY <2>9, FieldTypes
    <3>2. [w.mem EXCEPT ![c] = v] \in [Blocks -> [Units -> Contained]]
      BY <3>1
    <3>3. g \in FsRecord
      BY <2>7, <2>9, <3>2 DEF FsRecord, Contained
    <3>4. g.inode = w.inode /\ g.bmap = w.bmap /\ g.refs = w.refs /\ g.mem = [w.mem EXCEPT ![c] = v]
      BY <2>7, <2>9 DEF FsRecord
    <3>5. \A d \in Blocks : g.mem[d] = IF d = c THEN v ELSE f.mem[d]
      BY <1>2, <2>3, <2>5, <2>9, <3>1, <3>4
    <3> QED
      BY <2>9, <3>3, <3>4, <3>5
  <2>11. At(g, h) = c /\ \A k \in Places \ {h} : At(g, k) = At(f, k)
    BY <2>6, <2>10 DEF At
  <2>12. g.refs[c] = 1 /\ g.refs[b] = f.refs[b] - 1 /\ \A d \in Blocks \ {b, c} : g.refs[d] = f.refs[d]
    BY <1>1, <1>2, <2>3, <2>5, <2>8, <2>10
  <2>13. Held(g, H, P, X)
    <3> DEFINE r == Release(f, b)
    <3>1. r \in FsRecord /\ Held(r, H \ {h}, P, X) /\ r.inode = f.inode
      BY ReleaseFile DEF b
    <3>2. r.refs = [f.refs EXCEPT ![b] = @ - 1] /\ r.bmap = f.bmap
      <4>1. b \in Blocks \cup {0}
        BY <1>1
      <4> QED
        BY <2>1, <4>1, ReleaseTyped
    <3> HIDE DEF r
    <3> DEFINE K == H \ {h}
    <3>3. h \in Places \ (K \cup P) /\ K \cup {h} = H
      BY <2>5 DEF Held
    <3>4. c \in FreeBlocks(r) /\ g.bmap = r.bmap \cup {c}
      BY <2>3, <2>10, <3>2 DEF FreeBlocks
    <3>5. g.refs = [r.refs EXCEPT ![c] = @ + 1]
      BY <1>1, <1>2, <2>3, <2>5, <2>10, <3>2
    <3>6. \A k \in K \cup P : At(g, k) = At(r, k)
      <4>1. \A k : At(r, k) = At(f, k)
        BY <3>1 DEF At
      <4> QED
        BY <1>1, <2>11, <3>3, <4>1
    <3>7. Held(r, K, P, X)
      BY <3>1
    <3> HIDE DEF K
    <3>8. Held(g, K \cup {h}, P, X)
      BY <2>10, <2>11, <3>1, <3>3, <3>4, <3>5, <3>6, <3>7, TakeFile
    <3> QED
      BY <3>3, <3>8
  <2>14. SameCells(f, g, H \ {h}) /\ Cell(g, h) = v
    <3>1. ASSUME NEW k \in H \ {h} PROVE Cell(g, k) = Cell(f, k)
      BY <1>1, <2>8, <2>10, <2>11 DEF Cell
    <3>2. Cell(g, h) = v
      BY <2>5, <2>10, <2>11 DEF Cell
    <3> QED
      BY <3>1, <3>2 DEF SameCells
  <2>15. ASSUME NEW k \in H PROVE g.refs[At(g, k)] <= f.refs[At(f, k)]
    <3>1. CASE k = h
      <4>1. f.refs[b] \in Nat
        BY <1>1, <1>2
      <4> QED
        BY <2>1, <2>11, <2>12, <3>1, <4>1 DEF b
    <3>2. CASE k # h
      <4>1. At(f, k) \in Blocks /\ At(f, k) # c /\ At(g, k) = At(f, k)
        BY <1>1, <2>8, <2>11, <3>2
      <4>2. f.refs[At(f, k)] \in Nat /\ f.refs[b] \in Nat
        BY <1>1, <1>2, <4>1
      <4> QED
        BY <2>12, <4>1, <4>2
    <3> QED
      BY <3>1, <3>2
  <2>16. FreeBlocks(g) = FreeBlocks(t)
    BY <2>10 DEF FreeBlocks
  <2> QED
    BY <1>4, <2>3, <2>11, <2>12, <2>13, <2>14, <2>15, <2>16 DEF g, b
<1> QED
  BY <1>3, <1>4

LEMMA OverlaidTyped ==
  ASSUME NEW f \in FsRecord, NEW i \in Inodes, NEW q \in Slots, At(f, <<i, q>>) \in Blocks,
         NEW o, NEW c, NEW v \in Data, NEW res
  PROVE  Overlaid(f, i, q, o, c, v, res) \in [Units -> Contained]
<1>1. f.mem[f.inode[i].blocks[q]] \in [Units -> Contained]
  <2>1. At(f, <<i, q>>) = f.inode[i].blocks[q]
    BY PlaceParts
  <2> QED
    BY <2>1, FieldTypes
<1> QED
  BY <1>1 DEF Overlaid, Contained

\* A step of the loop of fs_write, and the loop.
WriteSlot(f, i, q, o, c, v, res) ==
  WriteBlock(f, At(f, <<i, q>>), i, Overlaid(f, i, q, o, c, v, res))

WriteSlots(f, i, o, c, v, res) ==
  FoldLeft(LAMBDA g, q : WriteBlock(g, g.inode[i].blocks[q], i, Overlaid(g, i, q, o, c, v, res)),
           f, [k \in 1 .. InBlocks(o + c) - o \div BlockUnits |-> o \div BlockUnits + k - 1])

WriteReady(i, m, n) == {f \in FsRecord : \A h \in Slice(i, m, n) : At(f, h) \in Blocks}

Writes(g, f, i, m, n, o, c, v, res) ==
  /\ g \in [0 .. n -> WriteReady(i, m, m + n)] /\ g[0] = f /\ g[n] = WriteSlots(f, i, o, c, v, res)
  /\ \A k \in 1 .. n : g[k] = WriteSlot(g[k - 1], i, m + k - 1, o, c, v, res)

LEMMA WriteSlotReady ==
  ASSUME NEW i \in Inodes, NEW m \in Nat, NEW n \in Nat, m + n <= NumSlots,
         NEW f \in WriteReady(i, m, m + n), NEW q \in m .. m + n - 1,
         NEW o, NEW c, NEW v \in Data, NEW res
  PROVE  LET g == WriteSlot(f, i, q, o, c, v, res) IN
         g \in WriteReady(i, m, m + n) /\ SameFiles(f, g) /\ \A j \in Inodes \ {i} : g.inode[j] = f.inode[j]
<1> DEFINE x == Overlaid(f, i, q, o, c, v, res)
           b == At(f, <<i, q>>)
           g == WriteBlock(f, b, i, x)
<1>1. q \in Slots /\ <<i, q>> \in Slice(i, m, m + n) /\ Slice(i, m, m + n) \subseteq Places
  BY Constants DEF Slice, Places
<1>2. f \in FsRecord /\ \A h \in Slice(i, m, m + n) : At(f, h) \in Blocks
  BY DEF WriteReady
<1>3. x \in [Units -> Contained]
  BY <1>1, <1>2, OverlaidTyped
<1> HIDE DEF x
<1>4. /\ g \in FsRecord /\ SameFiles(f, g)
      /\ \A j \in Inodes \ {i} : g.inode[j] = f.inode[j]
      /\ \A h \in Places : At(f, h) \in Blocks => At(g, h) \in Blocks
  BY <1>1, <1>2, <1>3, WriteBlockTyped
<1> HIDE DEF b, g
<1>5. g \in WriteReady(i, m, m + n)
  BY <1>1, <1>2, <1>4 DEF WriteReady
<1>6. WriteSlot(f, i, q, o, c, v, res) = g
  BY DEF WriteSlot, g, x, b
<1> QED
  BY <1>4, <1>5, <1>6

LEMMA WriteSlotsSteps ==
  ASSUME NEW i \in Inodes, NEW m \in Nat, NEW n \in Nat, m + n <= NumSlots,
         NEW f \in WriteReady(i, m, m + n),
         NEW o \in Nat, NEW c \in Nat, NEW v \in Data, NEW res,
         m = o \div BlockUnits, m + n = InBlocks(o + c)
  PROVE  \E g : Writes(g, f, i, m, n, o, c, v, res)
<1> DEFINE seq == [k \in 1 .. InBlocks(o + c) - o \div BlockUnits |-> o \div BlockUnits + k - 1]
           G == WriteReady(i, m, m + n)
           W(g, q) == WriteSlot(g, i, q, o, c, v, res)
           h == [p \in G \X (1 .. n) |-> W(p[1], m + p[2] - 1)]
           R(it) == it = [s \in SUBSET DOMAIN seq |->
                            IF s = {} THEN f
                            ELSE WriteBlock(it[s \ {Max(s)}], it[s \ {Max(s)}].inode[i].blocks[seq[Max(s)]], i,
                                            Overlaid(it[s \ {Max(s)}], i, seq[Max(s)], o, c, v, res))]
           iter == CHOOSE it : R(it)
<1>1. InBlocks(o + c) - o \div BlockUnits = n
  BY InBlocksIs
<1>2. DOMAIN seq = 1 .. n /\ \A k \in 1 .. n : seq[k] = m + k - 1
  BY <1>1
<1>3. WriteSlots(f, i, o, c, v, res) = iter[1 .. n]
  BY <1>2 DEF WriteSlots, FoldLeft, MapThenFoldSet
<1>4. \A g, q : W(g, q) = WriteBlock(g, g.inode[i].blocks[q], i, Overlaid(g, i, q, o, c, v, res))
  BY PlaceParts DEF WriteSlot
<1> HIDE DEF seq, W
<1>5. ASSUME NEW g \in G, NEW k \in 1 .. n
      PROVE  W(g, m + k - 1) \in G
  <2>1. m + k - 1 \in m .. m + n - 1
    OBVIOUS
  <2> QED
    BY <2>1, WriteSlotReady DEF W
<1>6. h \in [G \X (1 .. n) -> G]
  <2> HIDE DEF G
  <2> QED
    BY <1>5
<1>7. \A g \in G, k \in 1 .. n : h[<<g, k>>] = W(g, m + k - 1)
  <2> HIDE DEF G
  <2> QED
    OBVIOUS
<1> HIDE DEF h
<1>8. ASSUME NEW g \in G, NEW k \in 1 .. n
      PROVE  h[<<g, k>>] = WriteBlock(g, g.inode[i].blocks[seq[k]], i, Overlaid(g, i, seq[k], o, c, v, res))
  BY <1>2, <1>4, <1>7
<1> HIDE DEF G
<1>9. f \in G
  BY DEF G
<1>10. R(iter)
  <2>1. PICK it : Total(it, G, n) /\ Iterates(it, G, n, f, h)
    BY <1>6, <1>9, FoldExists
  <2>2. it = [s \in SUBSET (1 .. n) |-> it[s]] /\ it[{}] = f
    BY <2>1 DEF Total, Iterates
  <2>3. ASSUME NEW s \in SUBSET (1 .. n), s # {}
        PROVE  it[s] = WriteBlock(it[s \ {Max(s)}], it[s \ {Max(s)}].inode[i].blocks[seq[Max(s)]], i,
                                  Overlaid(it[s \ {Max(s)}], i, seq[Max(s)], o, c, v, res))
    <3>1. /\ Max(s) \in 1 .. n /\ it[s \ {Max(s)}] \in G
          /\ it[s] = h[<<it[s \ {Max(s)}], Max(s)>>]
      BY <2>1, <2>3 DEF Total, Iterates
    <3> QED
      BY <1>8, <3>1
  <2>4. R(it)
    BY <1>2, <2>2, <2>3
  <2> QED
    BY <2>4
<1>11. Iterates(iter, G, n, f, h)
  <2> HIDE DEF iter
  <2>1. iter[{}] = f
    BY <1>2, <1>10
  <2>2. ASSUME NEW s \in SUBSET (1 .. n), s # {}, Max(s) \in 1 .. n, iter[s \ {Max(s)}] \in G
        PROVE  iter[s] = h[<<iter[s \ {Max(s)}], Max(s)>>]
    <3>1. iter[s] = WriteBlock(iter[s \ {Max(s)}], iter[s \ {Max(s)}].inode[i].blocks[seq[Max(s)]], i,
                               Overlaid(iter[s \ {Max(s)}], i, seq[Max(s)], o, c, v, res))
      BY <1>2, <1>10, <2>2
    <3> QED
      BY <1>8, <2>2, <3>1
  <2> QED
    BY <2>1, <2>2 DEF Iterates
<1> HIDE DEF iter
<1>12. Runs(iter[1 .. n], G, n, f, h)
  BY <1>6, <1>9, <1>11, FoldSteps
<1>13. PICK g \in [0 .. n -> G] :
         g[0] = f /\ g[n] = iter[1 .. n] /\ \A k \in 1 .. n : g[k] = h[<<g[k - 1], k>>]
  BY <1>12 DEF Runs
<1>14. ASSUME NEW k \in 1 .. n PROVE g[k] = W(g[k - 1], m + k - 1)
  <2>1. g[k - 1] \in G
    BY <1>13
  <2> QED
    BY <1>7, <1>13, <2>1
<1> QED
  BY <1>3, <1>13, <1>14 DEF Writes, W, G

LEMMA WriteSlotsTyped ==
  ASSUME NEW i \in Inodes, NEW m \in Nat, NEW n \in Nat, m + n <= NumSlots,
         NEW f \in WriteReady(i, m, m + n),
         NEW o \in Nat, NEW c \in Nat, NEW v \in Data, NEW res,
         m = o \div BlockUnits, m + n = InBlocks(o + c)
  PROVE  LET g == WriteSlots(f, i, o, c, v, res) IN
         g \in FsRecord /\ SameFiles(f, g) /\ \A j \in Inodes \ {i} : g.inode[j] = f.inode[j]
<1>0. PICK g : Writes(g, f, i, m, n, o, c, v, res)
  BY WriteSlotsSteps
<1>1. /\ g \in [0 .. n -> WriteReady(i, m, m + n)] /\ g[0] = f /\ g[n] = WriteSlots(f, i, o, c, v, res)
      /\ \A k \in 1 .. n : g[k] = WriteSlot(g[k - 1], i, m + k - 1, o, c, v, res)
  BY <1>0 DEF Writes
<1> DEFINE Good(r) == SameFiles(f, r) /\ \A j \in Inodes \ {i} : r.inode[j] = f.inode[j]
           T == {k \in 0 .. n : Good(g[k])}
<1>2. 0 \in T
  BY <1>1 DEF SameFiles, SameKinds, Untouched
<1>3. ASSUME NEW k \in 1 .. n, k - 1 \in T PROVE k \in T
  <2> DEFINE r == g[k - 1]
             q == m + k - 1
             s == WriteSlot(r, i, q, o, c, v, res)
  <2>1. q \in m .. m + n - 1 /\ r \in WriteReady(i, m, m + n) /\ Good(r)
    BY <1>1, <1>3
  <2>2. g[k] = s
    BY <1>1
  <2> HIDE DEF r, q
  <2>3. SameFiles(r, s) /\ \A j \in Inodes \ {i} : s.inode[j] = r.inode[j]
    BY <2>1, WriteSlotReady
  <2> HIDE DEF s
  <2>4. Good(s)
    BY <2>1, <2>3 DEF SameFiles, SameKinds, Untouched
  <2> QED
    BY <2>2, <2>4
<1> HIDE DEF T
<1>4. n \in T
  BY <1>2, <1>3, LoopEnd
<1> QED
  BY <1>1, <1>4 DEF T, WriteReady

\* The slots a up to z - 1 whose blocks are shared.
SharedSlots(f, i, a, z) == {q \in a .. z - 1 : f.refs[At(f, <<i, q>>)] > 1}

LEMMA SharedFinite ==
  ASSUME NEW f, NEW i, NEW a \in Nat, NEW z \in Nat
  PROVE  IsFiniteSet(SharedSlots(f, i, a, z)) /\ Cardinality(SharedSlots(f, i, a, z)) \in Nat
<1>1. IsFiniteSet(a .. z - 1)
  BY FS_Interval
<1>2. SharedSlots(f, i, a, z) \in SUBSET (a .. z - 1)
  BY DEF SharedSlots
<1>3. IsFiniteSet(SharedSlots(f, i, a, z))
  BY <1>1, <1>2, FS_Subset
<1> QED
  BY <1>3, FS_CardinalityType

\* After one more slot there is still a free block for each that is shared.
LEMMA SharedLess ==
  ASSUME NEW r, NEW s, NEW i, NEW a \in Nat, NEW z \in Nat, a < z,
         \A q \in a + 1 .. z - 1 : s.refs[At(s, <<i, q>>)] > 1 => r.refs[At(r, <<i, q>>)] > 1
  PROVE  Cardinality(SharedSlots(s, i, a + 1, z)) <=
           Cardinality(SharedSlots(r, i, a, z)) - IF a \in SharedSlots(r, i, a, z) THEN 1 ELSE 0
<1> DEFINE A == SharedSlots(r, i, a, z)
           B == SharedSlots(s, i, a + 1, z)
<1>1. B \subseteq A \ {a}
  BY DEF SharedSlots
<1>2. IsFiniteSet(A) /\ Cardinality(A) \in Nat
  BY SharedFinite
<1> HIDE DEF A, B
<1>3. /\ IsFiniteSet(A \ {a})
      /\ Cardinality(A \ {a}) = IF a \in A THEN Cardinality(A) - 1 ELSE Cardinality(A)
  BY <1>2, FS_RemoveElement
<1>4. Cardinality(B) <= Cardinality(A \ {a})
  BY <1>1, <1>3, FS_Subset
<1>5. Cardinality(B) <= Cardinality(A) - IF a \in A THEN 1 ELSE 0
  BY <1>2, <1>3, <1>4
<1> QED
  BY <1>5 DEF A, B

\* What the loop of fs_write keeps, k slots after slot m, of the record f it began with.
Writing(r, f, H, P, X, i, m, n, k, o, c, v, res) ==
  /\ Held(r, H, P, X)
  /\ \A h \in Places \ Slice(i, m, m + k) : At(r, h) = At(f, h)
  /\ SameCells(f, r, H \ Slice(i, m, m + k))
  /\ \A q \in m .. m + k - 1 : /\ Cell(r, <<i, q>>) = Overlaid(f, i, q, o, c, v, res)
                               /\ r.refs[At(r, <<i, q>>)] <= 1
  /\ \A h \in H \ Slice(i, m, m + k) : r.refs[At(r, h)] <= f.refs[At(f, h)]
  /\ Cardinality(SharedSlots(r, i, m + k, m + n)) <= Cardinality(FreeBlocks(r))

LEMMA WritingStep ==
  ASSUME NEW f \in FsRecord, NEW r \in FsRecord, NEW H, NEW P, NEW X,
         NEW i \in Inodes, NEW m \in Nat, NEW n \in Nat, m + n <= NumSlots,
         NEW o, NEW c, NEW v \in Data, NEW res, NEW k \in 0 .. n - 1,
         Writing(r, f, H, P, X, i, m, n, k, o, c, v, res),
         Slice(i, m, m + n) \subseteq H, Held(f, H, P, X),
         \A q \in SharedSlots(f, i, m, m + n), p \in 0 .. m - 1 : At(f, <<i, p>>) # At(f, <<i, q>>)
  PROVE  Writing(WriteSlot(r, i, m + k, o, c, v, res), f, H, P, X, i, m, n, k + 1, o, c, v, res)
<1> DEFINE q == m + k
           h == <<i, q>>
           b == At(r, h)
           x == Overlaid(r, i, q, o, c, v, res)
           s == WriteBlock(r, b, i, x)
           D == Slice(i, m, m + k)
           E == Slice(i, m, m + (k + 1))
           fr == Cardinality(FreeBlocks(r))
           fs1 == Cardinality(FreeBlocks(s))
<1>1. q \in Slots /\ q \in m .. m + n - 1 /\ q \in Nat /\ k \in Nat
  BY Constants
<1>2. h \in Slice(i, m, m + n) /\ h \in H
  BY <1>1 DEF Slice
<1>3. E = D \cup {h} /\ h \notin D
  <2>1. m + (k + 1) \in Nat /\ m < m + (k + 1) /\ (m + (k + 1)) - 1 = m + k
    OBVIOUS
  <2> DEFINE z == m + (k + 1)
  <2>2. /\ Slice(i, m, z) = Slice(i, m, z - 1) \cup {<<i, z - 1>>}
        /\ <<i, z - 1>> \notin Slice(i, m, z - 1)
    <3> HIDE DEF z
    <3> QED
      BY <2>1, SliceStep DEF z
  <2> QED
    BY <2>1, <2>2
<1>4. /\ Held(r, H, P, X) /\ \A j \in Places \ D : At(r, j) = At(f, j)
      /\ SameCells(f, r, H \ D)
      /\ \A p \in m .. q - 1 : /\ Cell(r, <<i, p>>) = Overlaid(f, i, p, o, c, v, res)
                               /\ r.refs[At(r, <<i, p>>)] <= 1
      /\ \A j \in H \ D : r.refs[At(r, j)] <= f.refs[At(f, j)]
      /\ Cardinality(SharedSlots(r, i, q, m + n)) <= fr
  BY DEF Writing
<1>5. H \in SUBSET Places /\ \A j \in H : At(r, j) \in Blocks /\ At(f, j) \in Blocks
  BY <1>4 DEF Held, BitmapIsExact
<1>6. r.refs \in [Blocks -> Nat] /\ f.refs \in [Blocks -> Nat]
  BY FieldTypes
<1>7. x \in [Units -> Contained] /\ b \in Blocks
  BY <1>1, <1>2, <1>5, OverlaidTyped
<1>8. x = Overlaid(f, i, q, o, c, v, res)
  <2>1. Cell(r, h) = Cell(f, h)
    BY <1>2, <1>3, <1>4 DEF SameCells
  <2>2. r.mem[r.inode[i].blocks[q]] = f.mem[f.inode[i].blocks[q]]
    BY <2>1, PlaceParts DEF Cell
  <2> QED
    BY <2>2 DEF Overlaid
<1> HIDE DEF x
<1>9. r.refs[b] > 1 => q \in SharedSlots(r, i, q, m + n) /\ q \in SharedSlots(f, i, m, m + n)
  <2> SUFFICES ASSUME r.refs[b] > 1
               PROVE  q \in SharedSlots(r, i, q, m + n) /\ q \in SharedSlots(f, i, m, m + n)
    OBVIOUS
  <2>1. r.refs[b] <= f.refs[At(f, h)] /\ f.refs[At(f, h)] \in Nat /\ r.refs[b] \in Nat
    BY <1>2, <1>3, <1>4, <1>5, <1>6
  <2>2. f.refs[At(f, h)] > 1
    BY <2>1
  <2>3. q \in q .. m + n - 1
    BY <1>1
  <2> HIDE DEF q
  <2> QED
    BY <1>1, <2>2, <2>3 DEF SharedSlots
<1>10. r.refs[b] > 1 => FreeBlocks(r) # {}
  <2> SUFFICES ASSUME r.refs[b] > 1, FreeBlocks(r) = {}
               PROVE  FALSE
    OBVIOUS
  <2>1. Cardinality(SharedSlots(r, i, q, m + n)) <= 0
    BY <1>4, FreeFinite
  <2>2. /\ IsFiniteSet(SharedSlots(r, i, q, m + n))
        /\ Cardinality(SharedSlots(r, i, q, m + n)) \in Nat
    BY <1>1, SharedFinite
  <2>3. SharedSlots(r, i, q, m + n) = {}
    BY <2>1, <2>2, FS_EmptySet
  <2> QED
    BY <1>9, <2>3
<1>11. r.refs[b] > 1 => \A p \in 0 .. q - 1 : At(r, <<i, p>>) # b
  <2> SUFFICES ASSUME r.refs[b] > 1, NEW p \in 0 .. q - 1
               PROVE  At(r, <<i, p>>) # b
    OBVIOUS
  <2>1. CASE p < m
    <3>1. p \in 0 .. m - 1 /\ p \in Slots
      BY <1>1, <2>1, Constants
    <3>2. At(f, <<i, p>>) # At(f, h)
      BY <1>9, <3>1
    <3>3. <<i, p>> \in Places /\ <<i, p>> \notin D
      BY <3>1, PlaceParts DEF Slice
    <3>4. At(r, <<i, p>>) = At(f, <<i, p>>) /\ At(f, h) = b
      BY <1>2, <1>3, <1>4, <1>5, <3>3
    <3> QED
      BY <3>2, <3>4
  <2>2. CASE ~(p < m)
    <3>1. p \in m .. q - 1
      BY <1>1, <2>2
    <3>2. r.refs[At(r, <<i, p>>)] <= 1
      BY <1>4, <3>1
    <3>3. r.refs[b] \in Nat
      BY <1>6, <1>7
    <3> QED
      BY <3>2, <3>3
  <2> QED
    BY <2>1, <2>2
<1> HIDE DEF b, s
<1>12. /\ Held(s, H, P, X) /\ SameCells(r, s, H \ {h}) /\ Cell(s, h) = x
       /\ \A j \in Places \ {h} : At(s, j) = At(r, j)
       /\ s.refs[At(s, h)] <= 1
       /\ \A j \in H : s.refs[At(s, j)] <= r.refs[At(r, j)]
       /\ fs1 = fr - IF r.refs[b] <= 1 THEN 0 ELSE 1
  <2>1. b = At(r, h) /\ h \in H /\ h = <<i, q>> /\ q \in Slots /\ Held(r, H, P, X)
    BY <1>1, <1>2, <1>4 DEF b
  <2>2. MayWrite(r, i, q)
    BY <1>10, <1>11, <2>1 DEF MayWrite
  <2> HIDE DEF h, q
  <2> QED
    BY <1>7, <2>1, <2>2, WriteBlockFile DEF s
<1>13. \A j \in H : s.refs[At(s, j)] \in Nat
  <2>1. \A j \in H : At(s, j) \in Blocks
    BY <1>12 DEF Held, BitmapIsExact
  <2>2. \A d \in Blocks : s.refs[d] = Cardinality(Holders(s, H, d))
    BY <1>12 DEF Held, CountsAreExact
  <2>3. \A d : Cardinality(Holders(s, H, d)) \in Nat
    BY <1>5, HoldersFinite
  <2> QED
    BY <2>1, <2>2, <2>3
<1>14. Cardinality(SharedSlots(s, i, q + 1, m + n)) <= fs1
  <2> DEFINE A == SharedSlots(r, i, q, m + n)
             B == SharedSlots(s, i, q + 1, m + n)
             cA == Cardinality(A)
             cB == Cardinality(B)
  <2>1. \A p \in q + 1 .. (m + n) - 1 : s.refs[At(s, <<i, p>>)] > 1 => r.refs[At(r, <<i, p>>)] > 1
    <3> SUFFICES ASSUME NEW p \in q + 1 .. (m + n) - 1, s.refs[At(s, <<i, p>>)] > 1
                 PROVE  r.refs[At(r, <<i, p>>)] > 1
      OBVIOUS
    <3>1. <<i, p>> \in H
      BY <1>1 DEF Slice
    <3>2. s.refs[At(s, <<i, p>>)] <= r.refs[At(r, <<i, p>>)]
      BY <1>12, <3>1
    <3>3. s.refs[At(s, <<i, p>>)] \in Nat /\ r.refs[At(r, <<i, p>>)] \in Nat
      BY <1>5, <1>6, <1>13, <3>1
    <3> QED
      BY <3>2, <3>3
  <2>2. cB <= cA - IF q \in A THEN 1 ELSE 0
    <3>1. q \in Nat /\ m + n \in Nat /\ q < m + n
      BY <1>1
    <3> HIDE DEF q
    <3> QED
      BY <2>1, <3>1, SharedLess
  <2>3. cA \in Nat /\ cB \in Nat /\ fr \in Nat /\ cA <= fr
    BY <1>1, <1>4, SharedFinite, FreeFinite
  <2>4. r.refs[b] \in Nat /\ (r.refs[b] > 1 => q \in A)
    BY <1>6, <1>7, <1>9
  <2> HIDE DEF cA, cB, A, fr, fs1, q
  <2>5. cB <= fs1
    <3>1. CASE r.refs[b] > 1
      BY <1>12, <2>2, <2>3, <2>4, <3>1
    <3>2. CASE r.refs[b] <= 1
      BY <1>12, <2>2, <2>3, <2>4, <3>2
    <3> QED
      BY <2>4, <3>1, <3>2
  <2> QED
    BY <2>5 DEF cB
<1>15. WriteSlot(r, i, q, o, c, v, res) = s
  BY DEF WriteSlot, s, x, b
<1>16. \A j \in Places \ E : At(s, j) = At(f, j)
  BY <1>3, <1>4, <1>12
<1>17. SameCells(f, s, H \ E)
  BY <1>3, <1>4, <1>12 DEF SameCells
<1>18. ASSUME NEW p \in m .. q
       PROVE  /\ Cell(s, <<i, p>>) = Overlaid(f, i, p, o, c, v, res)
              /\ s.refs[At(s, <<i, p>>)] <= 1
  <2>1. CASE p = q
    BY <1>8, <1>12, <2>1
  <2>2. CASE p # q
    <3>1. p \in m .. q - 1 /\ <<i, p>> # h
      BY <1>1, <2>2
    <3>2. <<i, p>> \in H
      BY <1>1, <3>1 DEF Slice
    <3>3. Cell(s, <<i, p>>) = Cell(r, <<i, p>>)
      BY <1>12, <3>1, <3>2 DEF SameCells
    <3>4. s.refs[At(s, <<i, p>>)] <= r.refs[At(r, <<i, p>>)]
      BY <1>12, <3>2
    <3>5. s.refs[At(s, <<i, p>>)] \in Nat /\ r.refs[At(r, <<i, p>>)] \in Nat
      BY <1>5, <1>6, <1>13, <3>2
    <3>6. r.refs[At(r, <<i, p>>)] <= 1
      BY <1>4, <3>1
    <3>7. s.refs[At(s, <<i, p>>)] <= 1
      BY <3>4, <3>5, <3>6
    <3> QED
      BY <1>4, <3>1, <3>3, <3>7
  <2> QED
    BY <2>1, <2>2
<1>19. \A j \in H \ E : s.refs[At(s, j)] <= f.refs[At(f, j)]
  <2> SUFFICES ASSUME NEW j \in H \ E PROVE s.refs[At(s, j)] <= f.refs[At(f, j)]
    OBVIOUS
  <2>1. s.refs[At(s, j)] <= r.refs[At(r, j)] /\ r.refs[At(r, j)] <= f.refs[At(f, j)]
    BY <1>3, <1>4, <1>12
  <2>2. s.refs[At(s, j)] \in Nat /\ r.refs[At(r, j)] \in Nat /\ f.refs[At(f, j)] \in Nat
    BY <1>5, <1>6, <1>13
  <2> QED
    BY <2>1, <2>2
<1>20. m + (k + 1) = q + 1 /\ m + (k + 1) - 1 = q
  BY <1>1
<1> QED
  BY <1>12, <1>14, <1>15, <1>16, <1>17, <1>18, <1>19, <1>20 DEF Writing

\* There is a free block for every slot to write that is shared, and none of them
\* has its block at a slot before.
HasRoom(f, i, m, e) ==
  /\ Cardinality(SharedSlots(f, i, m, e)) <= Cardinality(FreeBlocks(f))
  /\ \A q \in SharedSlots(f, i, m, e), p \in 0 .. m - 1 : At(f, <<i, p>>) # At(f, <<i, q>>)

HasWritten(g, f, H, P, X, i, m, e, o, c, v, res) ==
  /\ Held(g, H, P, X) /\ SameCells(f, g, H \ Slice(i, m, e))
  /\ \A q \in m .. e - 1 : Cell(g, <<i, q>>) = Overlaid(f, i, q, o, c, v, res)

LEMMA WriteSlotsFile ==
  ASSUME NEW H, NEW P, NEW X, NEW i \in Inodes, NEW m \in Nat, NEW n \in Nat, m + n <= NumSlots,
         NEW f \in FsRecord, Held(f, H, P, X), Slice(i, m, m + n) \subseteq H,
         NEW o \in Nat, NEW c \in Nat, NEW v \in Data, NEW res,
         m = o \div BlockUnits, m + n = InBlocks(o + c), HasRoom(f, i, m, m + n)
  PROVE  HasWritten(WriteSlots(f, i, o, c, v, res), f, H, P, X, i, m, m + n, o, c, v, res)
<1>1. f \in WriteReady(i, m, m + n)
  BY DEF WriteReady, Held, BitmapIsExact
<1>2. PICK g : Writes(g, f, i, m, n, o, c, v, res)
  BY <1>1, WriteSlotsSteps
<1>3. /\ g \in [0 .. n -> FsRecord] /\ g[0] = f /\ g[n] = WriteSlots(f, i, o, c, v, res)
      /\ \A k \in 1 .. n : g[k] = WriteSlot(g[k - 1], i, m + k - 1, o, c, v, res)
  BY <1>2 DEF Writes, WriteReady
<1> DEFINE Good(r, k) == Writing(r, f, H, P, X, i, m, n, k, o, c, v, res)
           T == {k \in 0 .. n : Good(g[k], k)}
<1>4. 0 \in T
  <2>1. Slice(i, m, m + 0) = {} /\ m .. m + 0 - 1 = {}
    BY SliceEmpty
  <2>2. m + 0 = m
    OBVIOUS
  <2>3. \A h \in H : f.refs[At(f, h)] <= f.refs[At(f, h)]
    <3>1. \A h \in H : At(f, h) \in Blocks
      BY DEF Held, BitmapIsExact
    <3>2. f.refs \in [Blocks -> Nat]
      BY FieldTypes
    <3> QED
      BY <3>1, <3>2
  <2>4. SameCells(f, f, H)
    BY DEF SameCells
  <2>5. Good(f, 0)
    BY <2>1, <2>2, <2>3, <2>4 DEF Writing, HasRoom
  <2> QED
    BY <1>3, <2>5
<1>5. ASSUME NEW k \in 1 .. n, k - 1 \in T PROVE k \in T
  <2>1. Good(g[k - 1], k - 1) /\ k - 1 \in 0 .. n - 1 /\ g[k - 1] \in FsRecord
    BY <1>3, <1>5
  <2>2. (k - 1) + 1 = k /\ m + k - 1 = m + (k - 1)
    OBVIOUS
  <2>3. Good(WriteSlot(g[k - 1], i, m + (k - 1), o, c, v, res), (k - 1) + 1)
    BY <2>1, WritingStep DEF HasRoom
  <2>4. g[k] = WriteSlot(g[k - 1], i, m + (k - 1), o, c, v, res)
    BY <1>3, <2>2
  <2> HIDE DEF Good
  <2> QED
    BY <2>2, <2>3, <2>4
<1> HIDE DEF T
<1>6. n \in T
  BY <1>4, <1>5, LoopEnd
<1>7. Writing(g[n], f, H, P, X, i, m, n, n, o, c, v, res)
  BY <1>6 DEF T
<1> QED
  BY <1>3, <1>7 DEF Writing, HasWritten

-----------------------------------------------------------------------------
(* Sharing blocks                                                          *)

LEMMA ShareIs ==
  ASSUME NEW f \in FsRecord, NEW b \in Blocks \cup {0}, NEW i \in Inodes, NEW q \in Slots
  PROVE  LET g == Share(f, b, i, q) IN
         /\ g \in FsRecord /\ SameFiles(f, g) /\ g.inode = PutAt(f, i, q, b)
         /\ g.bmap = f.bmap /\ g.mem = f.mem /\ g.refs = [f.refs EXCEPT ![b] = @ + 1]
<1> DEFINE g == Share(f, b, i, q)
           r == [f.refs EXCEPT ![b] = @ + 1]
<1>1. f.refs \in [Blocks -> Nat]
  BY FieldTypes
<1>2. r \in [Blocks -> Nat]
  <2>1. CASE b \in Blocks
    BY <1>1, <2>1
  <2>2. CASE b \notin Blocks
    <3>1. [f.refs EXCEPT ![b] = f.refs[b] + 1] = f.refs
      BY <1>1, <2>2
    <3> QED
      BY <1>1, <3>1
  <2> QED
    BY <2>1, <2>2
<1> HIDE DEF r
<1>3. g = [f EXCEPT !.refs = r, !.inode[i].blocks[q] = b]
  BY DEF Share, r
<1> HIDE DEF g
<1>4. /\ g.inode = PutAt(f, i, q, b) /\ Untouched(f, g)
      /\ g.bmap = f.bmap /\ g.mem = f.mem /\ g.refs = r
  BY <1>3 DEF FsRecord, Untouched, PutAt
<1>5. g.inode \in [Inodes -> Inode] /\ SameKinds(f, g)
  <2>1. g.inode = PutAt(f, i, q, b)
    BY <1>4
  <2> QED
    BY <2>1, SlotSet
<1>6. g \in FsRecord
  BY <1>2, <1>3, <1>5 DEF FsRecord
<1> QED
  BY <1>4, <1>5, <1>6 DEF SameFiles, g, r

LEMMA ShareRecord ==
  ASSUME NEW f \in FsRecord, NEW b \in Blocks \cup {0}, NEW i \in Inodes, NEW q \in Slots
  PROVE  Share(f, b, i, q) \in FsRecord /\ SameFiles(f, Share(f, b, i, q))
BY ShareIs

LEMMA ShareKinds ==
  ASSUME NEW f \in FsRecord, NEW b \in Blocks \cup {0}, NEW i \in Inodes, NEW q \in Slots
  PROVE  Share(f, b, i, q) \in FsRecord /\ Share(f, b, i, q).inode = PutAt(f, i, q, b)
<1> DEFINE g == Share(f, b, i, q)
<1>1. /\ g \in FsRecord /\ SameFiles(f, g) /\ g.inode = PutAt(f, i, q, b)
      /\ g.bmap = f.bmap /\ g.mem = f.mem /\ g.refs = [f.refs EXCEPT ![b] = @ + 1]
  BY ShareIs
<1> QED
  BY <1>1

\* The first n slots of inode j are shared by the slots of inode i from a on.
Shares(g, f, i, a, j, n) ==
  /\ g \in [0 .. n -> FsRecord] /\ g[0] = f
  /\ \A k \in 1 .. n : g[k] = Share(g[k - 1], At(f, <<j, k - 1>>), i, a + k - 1)

LEMMA SharesTyped ==
  ASSUME NEW i \in Inodes, NEW j \in Inodes, NEW a \in Nat, NEW n \in Nat, a + n <= NumSlots,
         NEW f \in FsRecord, NEW g, Shares(g, f, i, a, j, n)
  PROVE  g[n] \in FsRecord /\ SameFiles(f, g[n])
<1>1. /\ g \in [0 .. n -> FsRecord] /\ g[0] = f
      /\ \A k \in 1 .. n : g[k] = Share(g[k - 1], At(f, <<j, k - 1>>), i, a + k - 1)
  BY DEF Shares
<1> DEFINE T == {k \in 0 .. n : SameFiles(f, g[k])}
<1>2. 0 \in T
  BY <1>1 DEF SameFiles, SameKinds, Untouched
<1>3. ASSUME NEW k \in 1 .. n, k - 1 \in T PROVE k \in T
  <2> DEFINE r == g[k - 1]
             q == a + k - 1
             b == At(f, <<j, k - 1>>)
             s == Share(r, b, i, q)
  <2>1. q \in Slots /\ k - 1 \in Slots /\ r \in FsRecord /\ SameFiles(f, r)
    BY <1>1, <1>3, Constants
  <2>2. b \in Blocks \cup {0}
    BY <2>1, FieldTypes, PlaceParts
  <2>3. g[k] = s
    BY <1>1
  <2> HIDE DEF r, q, b
  <2>4. SameFiles(r, s)
    BY <2>1, <2>2, ShareRecord
  <2> HIDE DEF s
  <2>5. SameFiles(f, s)
    BY <2>1, <2>4 DEF SameFiles, SameKinds, Untouched
  <2> QED
    BY <2>3, <2>5
<1> HIDE DEF T
<1>4. n \in T
  BY <1>2, <1>3, LoopEnd
<1> QED
  BY <1>1, <1>4 DEF T

\* That loop, before and after.
MayShare(f, H, P, X, i, a, j, n) ==
  Held(f, H, P, X) /\ Slice(j, 0, n) \subseteq H /\ Slice(i, a, a + n) \cap (H \cup P) = {}

HasShared(g, f, H, P, X, i, a, j, n) ==
  /\ Held(g, H \cup Slice(i, a, a + n), P, X) /\ SameCells(f, g, H)
  /\ \A k \in 0 .. n - 1 : Cell(g, <<i, a + k>>) = Cell(f, <<j, k>>)

LEMMA SharesFile ==
  ASSUME NEW i \in Inodes, NEW j \in Inodes, NEW a \in Nat, NEW n \in Nat, a + n <= NumSlots,
         NEW f \in FsRecord, NEW g, Shares(g, f, i, a, j, n),
         NEW H, NEW P, NEW X, MayShare(f, H, P, X, i, a, j, n)
  PROVE  HasShared(g[n], f, H, P, X, i, a, j, n)
<1>0. /\ Held(f, H, P, X)
      /\ Slice(j, 0, n) \subseteq H /\ Slice(i, a, a + n) \cap (H \cup P) = {}
  BY DEF MayShare
<1>1. /\ g \in [0 .. n -> FsRecord] /\ g[0] = f
      /\ \A k \in 1 .. n : g[k] = Share(g[k - 1], At(f, <<j, k - 1>>), i, a + k - 1)
  BY DEF Shares
<1> USE <1>0
<1> DEFINE N(k) == Slice(i, a, a + k)
           Good(r, k) == /\ Held(r, H \cup N(k), P, X) /\ r.mem = f.mem
                         /\ \A h \in H : At(r, h) = At(f, h)
                         /\ \A p \in 0 .. k - 1 : At(r, <<i, a + p>>) = At(f, <<j, p>>)
           T == {k \in 0 .. n : Good(g[k], k)}
<1>2. 0 \in T
  <2>1. N(0) = {}
    BY SliceEmpty
  <2> HIDE DEF N
  <2>2. Good(f, 0)
    BY <2>1
  <2> QED
    BY <1>1, <2>2
<1>3. ASSUME NEW k \in 1 .. n, k - 1 \in T PROVE k \in T
  <2> DEFINE r == g[k - 1]
             q == a + k - 1
             h == <<i, q>>
             s == Share(r, At(f, <<j, k - 1>>), i, q)
             M == N(k - 1)
             K == H \cup M
  <2>1. q \in Slots /\ k - 1 \in Slots /\ r \in FsRecord /\ Good(r, k - 1) /\ k - 1 \in Nat
    BY <1>1, <1>3, Constants
  <2>2. g[k] = s
    BY <1>1
  <2>3. N(k) = M \cup {h} /\ h \notin M
    <3>1. a + k \in Nat /\ a < a + k /\ (a + k) - 1 = a + (k - 1) /\ (a + k) - 1 = q
      OBVIOUS
    <3> HIDE DEF q
    <3>2. Slice(i, a, a + k) = Slice(i, a, (a + k) - 1) \cup {<<i, (a + k) - 1>>}
      BY <3>1, SliceStep
    <3>3. <<i, (a + k) - 1>> \notin Slice(i, a, (a + k) - 1)
      BY <3>1, SliceStep
    <3> QED
      BY <3>1, <3>2, <3>3
  <2>4. h \notin K \cup P /\ h \in Places
    <3>1. h \in Slice(i, a, a + n)
      BY DEF Slice
    <3> QED
      BY <2>1, <2>3, <3>1, PlaceParts
  <2>5. \A p \in 0 .. k - 1 : p # k - 1 => p \in 0 .. (k - 1) - 1 /\ <<i, a + p>> \in M /\ <<i, a + p>> # h
    BY DEF Slice
  <2> DEFINE c == <<j, k - 1>>
  <2>6. c \in H
    BY DEF Slice
  <2>7. a + (k - 1) = q
    OBVIOUS
  <2> HIDE DEF q, M, N, r
  <2>8. /\ Held(r, K, P, X) /\ r.mem = f.mem /\ \A e \in H : At(r, e) = At(f, e)
        /\ \A p \in 0 .. (k - 1) - 1 : At(r, <<i, a + p>>) = At(f, <<j, p>>)
    BY <2>1 DEF M
  <2>9. /\ s \in FsRecord /\ s.inode = PutAt(r, i, q, At(r, c))
        /\ s.bmap = r.bmap /\ s.mem = r.mem /\ s.refs = [r.refs EXCEPT ![At(r, c)] = @ + 1]
    <3>1. At(r, c) = At(f, c) /\ At(r, c) \in Blocks \cup {0}
      BY <2>6, <2>8 DEF Held, BitmapIsExact
    <3> QED
      BY <2>1, <3>1, ShareIs
  <2> HIDE DEF s, h, c
  <2>10. At(s, h) = At(r, c) /\ \A e \in Places \ {h} : At(s, e) = At(r, e)
    <3>1. At(r, c) \in Blocks \cup {0}
      BY <2>6, <2>8 DEF Held, BitmapIsExact
    <3> QED
      BY <2>1, <2>9, <3>1, SlotSet DEF h
  <2> HIDE DEF K
  <2>11. K \cup P \subseteq Places
    BY <2>8 DEF Held
  <2>12. \A e \in K \cup P : At(s, e) = At(r, e)
    BY <2>4, <2>10, <2>11
  <2>13. Held(s, K \cup {h}, P, X)
    <3>1. h \in Places \ (K \cup P) /\ c \in K /\ Held(r, K, P, X)
      BY <2>4, <2>6, <2>8 DEF K
    <3>2. s.refs = [r.refs EXCEPT ![At(r, c)] = @ + 1] /\ s.bmap = r.bmap /\ s \in FsRecord
      BY <2>9
    <3>3. At(s, h) = At(r, c)
      BY <2>10
    <3> QED
      BY <2>1, <2>12, <3>1, <3>2, <3>3, ShareFile
  <2>14. K \cup {h} = H \cup N(k)
    BY <2>3 DEF K
  <2>15. \A e \in H : At(s, e) = At(f, e)
    BY <2>8, <2>12 DEF K
  <2>16. ASSUME NEW p \in 0 .. k - 1 PROVE At(s, <<i, a + p>>) = At(f, <<j, p>>)
    <3>1. CASE p = k - 1
      BY <2>6, <2>7, <2>8, <2>10, <3>1 DEF h, c
    <3>2. CASE p # k - 1
      BY <2>5, <2>8, <2>12, <3>2 DEF K
    <3> QED
      BY <3>1, <3>2
  <2>17. Good(s, k)
    BY <2>8, <2>9, <2>13, <2>14, <2>15, <2>16
  <2> QED
    BY <2>2, <2>17
<1> HIDE DEF T
<1>4. n \in T
  BY <1>2, <1>3, LoopEnd
<1>5. Good(g[n], n)
  BY <1>4 DEF T
<1> QED
  BY <1>5 DEF SameCells, Cell, HasShared

\* The loop of fs_copy, over the blocks of the source as it finds them.
AssignSlots(f1, f, src, dst) ==
  FoldLeft(LAMBDA g, q : Share(g, g.inode[src].blocks[q], dst, q), f1, UsedSlots(f, src))

ShareOwn(f, src, dst, q) == Share(f, At(f, <<src, q>>), dst, q)

LEMMA ShareOwnRecord ==
  ASSUME NEW f \in FsRecord, NEW src \in Inodes, NEW dst \in Inodes, NEW q \in Slots
  PROVE  /\ ShareOwn(f, src, dst, q) \in FsRecord
         /\ \A p \in Slots \ {q} : At(ShareOwn(f, src, dst, q), <<src, p>>) = At(f, <<src, p>>)
<1> DEFINE b == At(f, <<src, q>>)
           g == Share(f, b, dst, q)
<1>1. b \in Blocks \cup {0}
  BY FieldTypes, PlaceParts
<1> HIDE DEF b
<1>2. g \in FsRecord /\ g.inode = PutAt(f, dst, q, b)
  BY <1>1, ShareKinds
<1> HIDE DEF g
<1>3. At(g, <<dst, q>>) = b /\ \A h \in Places \ {<<dst, q>>} : At(g, h) = At(f, h)
  <2>1. g.inode = PutAt(f, dst, q, b) /\ b \in Blocks \cup {0}
    BY <1>1, <1>2
  <2> QED
    BY <2>1, SlotSet
<1>4. \A p \in Slots \ {q} : <<src, p>> \in Places \ {<<dst, q>>}
  BY PlaceParts
<1> QED
  BY <1>2, <1>3, <1>4 DEF ShareOwn, g, b

LEMMA AssignSteps ==
  ASSUME NEW f, NEW f1 \in FsRecord, NEW src \in Inodes, NEW dst \in Inodes,
         NEW n \in 0 .. NumSlots, n = InBlocks(Size(f, src))
  PROVE  \E g : Shares(g, f1, dst, 0, src, n) /\ g[n] = AssignSlots(f1, f, src, dst)
<1> DEFINE seq == UsedSlots(f, src)
           W(g, q) == ShareOwn(g, src, dst, q)
           h == [p \in FsRecord \X (1 .. n) |-> W(p[1], p[2] - 1)]
           R(it) == it = [s \in SUBSET DOMAIN seq |->
                            IF s = {} THEN f1
                            ELSE Share(it[s \ {Max(s)}], it[s \ {Max(s)}].inode[src].blocks[seq[Max(s)]],
                                       dst, seq[Max(s)])]
           iter == CHOOSE it : R(it)
<1>1. n \in Nat /\ n <= NumSlots /\ NumSlots \in Nat
  BY Constants
<1>2. DOMAIN seq = 1 .. n /\ \A k \in 1 .. n : seq[k] = k - 1
  BY DEF UsedSlots
<1>3. AssignSlots(f1, f, src, dst) = iter[1 .. n]
  BY <1>2 DEF AssignSlots, FoldLeft, MapThenFoldSet
<1>4. \A g, q : W(g, q) = Share(g, g.inode[src].blocks[q], dst, q)
  BY PlaceParts DEF ShareOwn
<1> HIDE DEF seq, W
<1>5. ASSUME NEW g \in FsRecord, NEW k \in 1 .. n PROVE W(g, k - 1) \in FsRecord
  <2>1. k - 1 \in Slots
    BY <1>1, Constants
  <2> QED
    BY <2>1, ShareOwnRecord DEF W
<1>6. h \in [FsRecord \X (1 .. n) -> FsRecord]
  BY <1>5
<1>7. \A g \in FsRecord, k \in 1 .. n : h[<<g, k>>] = W(g, k - 1)
  OBVIOUS
<1> HIDE DEF h
<1>8. ASSUME NEW g \in FsRecord, NEW k \in 1 .. n
      PROVE  h[<<g, k>>] = Share(g, g.inode[src].blocks[seq[k]], dst, seq[k])
  BY <1>2, <1>4, <1>7
<1>9. R(iter)
  <2>1. PICK it : Total(it, FsRecord, n) /\ Iterates(it, FsRecord, n, f1, h)
    BY <1>1, <1>6, FoldExists
  <2>2. it = [s \in SUBSET (1 .. n) |-> it[s]] /\ it[{}] = f1
    BY <2>1 DEF Total, Iterates
  <2>3. ASSUME NEW s \in SUBSET (1 .. n), s # {}
        PROVE  it[s] = Share(it[s \ {Max(s)}], it[s \ {Max(s)}].inode[src].blocks[seq[Max(s)]],
                              dst, seq[Max(s)])
    <3>1. /\ Max(s) \in 1 .. n /\ it[s \ {Max(s)}] \in FsRecord
          /\ it[s] = h[<<it[s \ {Max(s)}], Max(s)>>]
      BY <2>1, <2>3 DEF Total, Iterates
    <3> QED
      BY <1>8, <3>1
  <2>4. R(it)
    BY <1>2, <2>2, <2>3
  <2> QED
    BY <2>4
<1>10. Iterates(iter, FsRecord, n, f1, h)
  <2> HIDE DEF iter
  <2>1. iter[{}] = f1
    BY <1>2, <1>9
  <2>2. ASSUME NEW s \in SUBSET (1 .. n), s # {}, Max(s) \in 1 .. n, iter[s \ {Max(s)}] \in FsRecord
        PROVE  iter[s] = h[<<iter[s \ {Max(s)}], Max(s)>>]
    <3>1. iter[s] = Share(iter[s \ {Max(s)}], iter[s \ {Max(s)}].inode[src].blocks[seq[Max(s)]],
                              dst, seq[Max(s)])
      BY <1>2, <1>9, <2>2
    <3> QED
      BY <1>8, <2>2, <3>1
  <2> QED
    BY <2>1, <2>2 DEF Iterates
<1> HIDE DEF iter
<1>11. Runs(iter[1 .. n], FsRecord, n, f1, h)
  BY <1>1, <1>6, <1>10, FoldSteps
<1>12. PICK g \in [0 .. n -> FsRecord] :
         g[0] = f1 /\ g[n] = iter[1 .. n] /\ \A k \in 1 .. n : g[k] = h[<<g[k - 1], k>>]
  BY <1>11 DEF Runs
<1>13. ASSUME NEW k \in 1 .. n PROVE g[k] = W(g[k - 1], k - 1) /\ g[k - 1] \in FsRecord /\ k - 1 \in Slots
  <2>1. g[k - 1] \in FsRecord /\ k - 1 \in Slots
    BY <1>1, <1>12, Constants
  <2> QED
    BY <1>7, <1>12, <2>1
<1> DEFINE T == {k \in 0 .. n : \A p \in k .. n - 1 : At(g[k], <<src, p>>) = At(f1, <<src, p>>)}
<1>14. 0 \in T
  BY <1>1, <1>12
<1>15. ASSUME NEW k \in 1 .. n, k - 1 \in T PROVE k \in T
  <2>1. ASSUME NEW p \in k .. n - 1 PROVE At(g[k], <<src, p>>) = At(f1, <<src, p>>)
    <3>1. p \in (k - 1) .. n - 1 /\ p \in Slots \ {k - 1}
      BY <1>1, Constants
    <3>2. At(g[k - 1], <<src, p>>) = At(f1, <<src, p>>)
      BY <1>15, <3>1
    <3>3. At(g[k], <<src, p>>) = At(g[k - 1], <<src, p>>)
      BY <1>13, <3>1, ShareOwnRecord DEF W
    <3> QED
      BY <3>2, <3>3
  <2> QED
    BY <1>1, <2>1
<1> HIDE DEF T
<1>16. \A k \in 0 .. n : k \in T
  BY <1>1, <1>14, <1>15, InductionUpto
<1>17. ASSUME NEW k \in 1 .. n
       PROVE  g[k] = Share(g[k - 1], At(f1, <<src, k - 1>>), dst, 0 + k - 1)
  <2>1. k - 1 \in T /\ k - 1 \in (k - 1) .. n - 1 /\ 0 + k - 1 = k - 1
    BY <1>1, <1>16
  <2>2. At(g[k - 1], <<src, k - 1>>) = At(f1, <<src, k - 1>>)
    BY <2>1 DEF T
  <2> QED
    BY <1>13, <2>1, <2>2 DEF W, ShareOwn
<1>18. Shares(g, f1, dst, 0, src, n)
  BY <1>12, <1>17 DEF Shares
<1> QED
  BY <1>3, <1>12, <1>18

\* The loop of fs_append.
AppendSlots(f, x, y) ==
  FoldLeft(LAMBDA g, q : Share(g, f.inode[y].blocks[q], x, Len(UsedSlots(f, x)) + q),
           f, UsedSlots(f, y))

LEMMA AppendSteps ==
  ASSUME NEW f \in FsRecord, NEW x \in Inodes, NEW y \in Inodes,
         NEW a \in Nat, NEW n \in Nat, a + n <= NumSlots,
         a = InBlocks(Size(f, x)), n = InBlocks(Size(f, y))
  PROVE  \E g : Shares(g, f, x, a, y, n) /\ g[n] = AppendSlots(f, x, y)
<1> DEFINE seq == UsedSlots(f, y)
           W(g, q) == Share(g, At(f, <<y, q>>), x, a + q)
           h == [p \in FsRecord \X (1 .. n) |-> W(p[1], p[2] - 1)]
           len == Len(UsedSlots(f, x))
           R(it) == it = [s \in SUBSET DOMAIN seq |->
                            IF s = {} THEN f
                            ELSE Share(it[s \ {Max(s)}], f.inode[y].blocks[seq[Max(s)]],
                                       x, len + seq[Max(s)])]
           iter == CHOOSE it : R(it)
<1>1. NumSlots \in Nat
  BY Constants
<1>2. DOMAIN seq = 1 .. n /\ \A k \in 1 .. n : seq[k] = k - 1
  BY DEF UsedSlots
<1>3. len = a
  BY DEF UsedSlots
<1>4. AppendSlots(f, x, y) = iter[1 .. n]
  BY <1>2 DEF AppendSlots, FoldLeft, MapThenFoldSet
<1>5. \A g, q : W(g, q) = Share(g, f.inode[y].blocks[q], x, len + q)
  BY <1>3, PlaceParts
<1> HIDE DEF seq, W, len
<1>6. ASSUME NEW g \in FsRecord, NEW k \in 1 .. n PROVE W(g, k - 1) \in FsRecord
  <2>1. a + (k - 1) \in Slots /\ k - 1 \in Slots
    BY <1>1, Constants
  <2>2. At(f, <<y, k - 1>>) \in Blocks \cup {0}
    BY <2>1, FieldTypes, PlaceParts
  <2> QED
    BY <2>1, <2>2, ShareRecord DEF W
<1>7. h \in [FsRecord \X (1 .. n) -> FsRecord]
  BY <1>6
<1>8. \A g \in FsRecord, k \in 1 .. n : h[<<g, k>>] = W(g, k - 1)
  OBVIOUS
<1> HIDE DEF h
<1>9. ASSUME NEW g \in FsRecord, NEW k \in 1 .. n
      PROVE  h[<<g, k>>] = Share(g, f.inode[y].blocks[seq[k]], x, len + seq[k])
  BY <1>2, <1>5, <1>8
<1>10. R(iter)
  <2>1. PICK it : Total(it, FsRecord, n) /\ Iterates(it, FsRecord, n, f, h)
    BY <1>7, FoldExists
  <2>2. it = [s \in SUBSET (1 .. n) |-> it[s]] /\ it[{}] = f
    BY <2>1 DEF Total, Iterates
  <2>3. ASSUME NEW s \in SUBSET (1 .. n), s # {}
        PROVE  it[s] = Share(it[s \ {Max(s)}], f.inode[y].blocks[seq[Max(s)]], x, len + seq[Max(s)])
    <3>1. /\ Max(s) \in 1 .. n /\ it[s \ {Max(s)}] \in FsRecord
          /\ it[s] = h[<<it[s \ {Max(s)}], Max(s)>>]
      BY <2>1, <2>3 DEF Total, Iterates
    <3> QED
      BY <1>9, <3>1
  <2>4. R(it)
    BY <1>2, <2>2, <2>3
  <2> QED
    BY <2>4
<1>11. Iterates(iter, FsRecord, n, f, h)
  <2> HIDE DEF iter
  <2>1. iter[{}] = f
    BY <1>2, <1>10
  <2>2. ASSUME NEW s \in SUBSET (1 .. n), s # {}, Max(s) \in 1 .. n, iter[s \ {Max(s)}] \in FsRecord
        PROVE  iter[s] = h[<<iter[s \ {Max(s)}], Max(s)>>]
    <3>1. iter[s] = Share(iter[s \ {Max(s)}], f.inode[y].blocks[seq[Max(s)]], x, len + seq[Max(s)])
      BY <1>2, <1>10, <2>2
    <3> QED
      BY <1>9, <2>2, <3>1
  <2> QED
    BY <2>1, <2>2 DEF Iterates
<1> HIDE DEF iter
<1>12. Runs(iter[1 .. n], FsRecord, n, f, h)
  BY <1>7, <1>11, FoldSteps
<1>13. PICK g \in [0 .. n -> FsRecord] :
         g[0] = f /\ g[n] = iter[1 .. n] /\ \A k \in 1 .. n : g[k] = h[<<g[k - 1], k>>]
  BY <1>12 DEF Runs
<1>14. ASSUME NEW k \in 1 .. n
       PROVE  g[k] = Share(g[k - 1], At(f, <<y, k - 1>>), x, a + k - 1)
  <2>1. g[k - 1] \in FsRecord /\ a + (k - 1) = a + k - 1
    BY <1>13
  <2>2. g[k] = W(g[k - 1], k - 1)
    BY <1>8, <1>13, <2>1
  <2> QED
    BY <2>1, <2>2 DEF W
<1>15. Shares(g, f, x, a, y, n)
  BY <1>13, <1>14 DEF Shares
<1> QED
  BY <1>4, <1>13, <1>15

-----------------------------------------------------------------------------
(* Directories, files and their places                                     *)

\* Every inode but the root is in one entry at most, so no directory fills two pages.
LEMMA EntriesFew ==
  ASSUME NEW f \in FsRecord, NamesAreExact(f), NEW d \in Inodes, InUse(f, d, "dir")
  PROVE  /\ Len(f.entries[d]) \in Nat /\ Len(f.entries[d]) <= NumInodes - 1
         /\ f.entries[d] \in Seq([name : Names, inode : Inodes])
         /\ \A k \in 1 .. Len(f.entries[d]) : f.entries[d][k] \in [name : Names, inode : Inodes]
<1> DEFINE s == f.entries[d]
           n == Len(s)
           E == [name : Names, inode : Inodes]
           T == Inodes \ {Root}
<1>1. s \in Seq(E)
  BY FieldTypes
<1>2. n \in Nat /\ DOMAIN s = 1 .. n /\ \A k \in 1 .. n : s[k] \in E
  <2> HIDE DEF s, E
  <2> QED
    BY <1>1
<1>3. \A k \in 1 .. n : s[k].inode \in f.used \ {Root}
  BY <1>2 DEF NamesAreExact, InUse
<1>4. \A k, l \in 1 .. n : k # l => s[k].inode # s[l].inode
  <2> SUFFICES ASSUME NEW k \in 1 .. n, NEW l \in 1 .. n, k # l PROVE s[k].inode # s[l].inode
    OBVIOUS
  <2>1. k \in DOMAIN f.entries[d] /\ l \in DOMAIN f.entries[d] /\ <<d, k>> # <<d, l>>
    BY <1>2
  <2> QED
    BY <2>1 DEF NamesAreExact, InUse
<1>5. f.used \in SUBSET Inodes
  BY FieldTypes
<1> HIDE DEF s, n
<1> DEFINE g == [k \in 1 .. n |-> s[k].inode]
<1>6. g \in [1 .. n -> T]
  BY <1>3, <1>5
<1>7. IsFiniteSet(T) /\ Cardinality(T) = NumInodes - 1
  <2>1. IsFiniteSet(Inodes) /\ Root \in Inodes /\ Inodes = 1 .. NumInodes /\ NumInodes \in Nat
    BY Constants
  <2>2. Cardinality(1 .. NumInodes) = NumInodes
    BY <2>1, FS_Interval
  <2> QED
    BY <2>1, <2>2, FS_RemoveElement
<1>8. IsFiniteSet(1 .. n) /\ Cardinality(1 .. n) = n
  BY <1>2, FS_Interval
<1>9. \A k, l \in 1 .. n : k # l => g[k] # g[l]
  BY <1>4
<1> HIDE DEF g, T
<1>10. ~(Cardinality(T) < n)
  BY <1>6, <1>7, <1>8, <1>9, FS_PigeonHole
<1>11. NumInodes - 1 \in Nat
  BY Constants
<1> QED
  BY <1>1, <1>2, <1>7, <1>10, <1>11 DEF s, n, E

LEMMA SizeBound ==
  ASSUME NEW f \in FsRecord, NamesAreExact(f), NEW i \in Inodes
  PROVE  /\ Size(f, i) \in 0 .. NumSlots * BlockUnits
         /\ InBlocks(Size(f, i)) \in 0 .. NumSlots
         /\ f.inode[i].type # "dir" => Size(f, i) = f.inode[i].size
<1>1. CASE f.inode[i].type # "dir"
  <2>1. Size(f, i) = f.inode[i].size
    BY <1>1 DEF Size
  <2>2. Size(f, i) \in 0 .. NumSlots * BlockUnits
    BY <2>1, FieldTypes
  <2> QED
    BY <2>1, <2>2, InBlocksFits
<1>2. CASE f.inode[i].type = "dir"
  <2>1. InUse(f, i, "dir")
    BY <1>2 DEF InUse, NamesAreExact
  <2> DEFINE m == Len(f.entries[i])
             s == m * (BlockUnits \div PageEntries)
  <2>2. m \in Nat /\ m <= NumInodes - 1
    BY <2>1, EntriesFew
  <2>3. Size(f, i) = s
    BY <1>2 DEF Size
  <2>4. BlockUnits \div PageEntries \in Nat
    BY Constants
  <2>5. ~(2 < InBlocks(s))
    <3>1. NumInodes <= 2 * PageEntries /\ NumInodes \in Nat /\ PageEntries \in Nat
      BY FileSystemAssumption
    <3>2. 2 < InBlocks(s) <=> 2 * PageEntries < m
      BY <2>2, InPages
    <3> HIDE DEF m
    <3> QED
      BY <2>2, <3>1, <3>2
  <2> HIDE DEF m
  <2>6. s \in Nat
    BY <2>2, <2>4
  <2> HIDE DEF s
  <2>7. InBlocks(s) \in Nat
    BY <2>6, InBlocksIs
  <2>8. NumSlots \in Nat /\ NumSlots >= 2
    BY Constants
  <2>9. InBlocks(s) <= NumSlots
    BY <2>5, <2>7, <2>8
  <2>10. s \in 0 .. NumSlots * BlockUnits
    BY <2>6, <2>9, InBlocksBound
  <2> QED
    BY <1>2, <2>3, <2>7, <2>8, <2>9, <2>10
<1> QED
  BY <1>1, <1>2

LEMMA PlacesOf ==
  ASSUME NEW f, NEW i \in Inodes, NEW q \in Slots
  PROVE  /\ <<i, q>> \in FilePlaces(f) <=> InUse(f, i, "file") /\ q < InBlocks(Size(f, i))
         /\ <<i, q>> \in PagePlaces(f) <=> InUse(f, i, "dir") /\ q < InBlocks(Size(f, i))
BY DEF FilePlaces, PagePlaces, InUse, Size

LEMMA PlacesApart ==
  ASSUME NEW f
  PROVE  /\ FilePlaces(f) \in SUBSET Places /\ PagePlaces(f) \in SUBSET Places
         /\ FilePlaces(f) \cap PagePlaces(f) = {}
BY DEF FilePlaces, PagePlaces, Places, InUse

\* What Consistent asks of the record.
Sound(f) ==
  Root \in f.used /\ Held(f, FilePlaces(f), PagePlaces(f), {9}) /\ NamesAreExact(f)

LEMMA SoundIs ==
  ASSUME NEW f
  PROVE  Sound(f) <=> /\ Root \in f.used
                      /\ CountsAreExact(f, FilePlaces(f))
                      /\ BitmapIsExact(f, FilePlaces(f), PagePlaces(f), {9})
                      /\ NamesAreExact(f)
BY PlacesApart DEF Sound, Held

\* The slots of a file in use are places of files, and none of the others is.
LEMMA FileSlices ==
  ASSUME NEW f, NEW i \in Inodes, InUse(f, i, "file"), NEW n \in 0 .. NumSlots,
         n = InBlocks(Size(f, i))
  PROVE  /\ Slice(i, 0, n) \subseteq FilePlaces(f)
         /\ \A a, z \in 0 .. NumSlots : n <= a => Slice(i, a, z) \cap (FilePlaces(f) \cup PagePlaces(f)) = {}
         /\ \A z \in 0 .. NumSlots : Slice(i, 0, z) \cap (FilePlaces(f) \cup PagePlaces(f)) \subseteq Slice(i, 0, n)
<1>1. \A q \in Slots : /\ <<i, q>> \in FilePlaces(f) <=> q < n
                       /\ <<i, q>> \notin PagePlaces(f)
  BY PlacesOf DEF InUse
<1>2. Slots = 0 .. NumSlots - 1 /\ NumSlots \in Nat
  BY Constants
<1>3. \A q \in 0 .. n - 1 : q \in Slots /\ q < n
  BY <1>2
<1>4. Slice(i, 0, n) \subseteq FilePlaces(f)
  BY <1>1, <1>3 DEF Slice
<1>5. ASSUME NEW a \in 0 .. NumSlots, NEW z \in 0 .. NumSlots, n <= a, NEW q \in a .. z - 1
      PROVE  <<i, q>> \notin FilePlaces(f) \cup PagePlaces(f)
  <2>1. q \in Slots /\ ~(q < n)
    BY <1>2, <1>5
  <2> QED
    BY <1>1, <2>1
<1>6. ASSUME NEW z \in 0 .. NumSlots, NEW q \in 0 .. z - 1, <<i, q>> \in FilePlaces(f) \cup PagePlaces(f)
      PROVE  <<i, q>> \in Slice(i, 0, n)
  <2>1. q \in Slots
    BY <1>2
  <2>2. q < n
    BY <1>1, <1>6, <2>1
  <2>3. q \in 0 .. n - 1
    BY <1>2, <2>2
  <2> QED
    BY <2>3 DEF Slice
<1> QED
  BY <1>4, <1>5, <1>6 DEF Slice

\* No name changes, and no file but inode i.
ChangesFile(f, g, i) ==
  /\ Untouched(f, g)
  /\ \A j \in Inodes : g.inode[j].type = f.inode[j].type
  /\ \A j \in Inodes \ {i} : g.inode[j].size = f.inode[j].size

LEMMA NamesKept ==
  ASSUME NEW f \in FsRecord, NEW g, NEW i, ChangesFile(f, g, i)
  PROVE  /\ NamesAreExact(f) => NamesAreExact(g)
         /\ g.used = f.used
         /\ \A ty : \A j \in Inodes : InUse(g, j, ty) <=> InUse(f, j, ty)
         /\ \A j \in Inodes : j # i \/ f.inode[j].type = "dir" => Size(g, j) = Size(f, j)
         /\ \A j, n : Lookup(g, j, n) = Lookup(f, j, n)
         /\ PagePlaces(g) = PagePlaces(f)
<1>1. g.used = f.used /\ g.entries = f.entries /\ f.used \in SUBSET Inodes
  BY FieldTypes DEF ChangesFile, Untouched
<1>2. \A j \in Inodes : g.inode[j].type = f.inode[j].type
  BY DEF ChangesFile
<1>3. \A ty : \A j \in Inodes : InUse(g, j, ty) <=> InUse(f, j, ty)
  BY <1>1, <1>2 DEF InUse
<1>4. \A j \in Inodes : j # i \/ f.inode[j].type = "dir" => Size(g, j) = Size(f, j)
  BY <1>1, <1>2 DEF ChangesFile, Size
<1>5. \A j, n : Lookup(g, j, n) = Lookup(f, j, n)
  BY <1>1 DEF Lookup
<1>6. PagePlaces(g) = PagePlaces(f)
  BY <1>3, <1>4 DEF PagePlaces, InUse
<1>7. NamesAreExact(f) => NamesAreExact(g)
  <2> SUFFICES ASSUME NamesAreExact(f) PROVE NamesAreExact(g)
    OBVIOUS
  <2>1. \A j \in Inodes : j \in g.used <=> g.inode[j].type # "none"
    BY <1>1, <1>2 DEF NamesAreExact
  <2>2. \A j \in g.used \ {Root} :
          \E d \in g.used : /\ g.inode[d].type = "dir"
                            /\ \E k \in DOMAIN g.entries[d] : g.entries[d][k].inode = j
    <3> SUFFICES ASSUME NEW j \in f.used \ {Root}
                 PROVE  \E d \in f.used : /\ g.inode[d].type = "dir"
                                          /\ \E k \in DOMAIN f.entries[d] : f.entries[d][k].inode = j
      BY <1>1
    <3>1. PICK d \in f.used : /\ f.inode[d].type = "dir"
                              /\ \E k \in DOMAIN f.entries[d] : f.entries[d][k].inode = j
      BY DEF NamesAreExact
    <3> QED
      BY <1>1, <1>2, <3>1
  <2>3. \A d, c \in g.used : g.inode[d].type = "dir" /\ g.inode[c].type = "dir" =>
          \A k \in DOMAIN g.entries[d], l \in DOMAIN g.entries[c] :
            /\ g.entries[d][k].inode \in g.used \ {Root}
            /\ <<d, k>> # <<c, l>> => g.entries[d][k].inode # g.entries[c][l].inode
            /\ d = c /\ k # l => g.entries[d][k].name # g.entries[c][l].name
    <3> SUFFICES ASSUME NEW d \in f.used, NEW c \in f.used,
                        g.inode[d].type = "dir", g.inode[c].type = "dir",
                        NEW k \in DOMAIN f.entries[d], NEW l \in DOMAIN f.entries[c]
                 PROVE  /\ f.entries[d][k].inode \in f.used \ {Root}
                        /\ <<d, k>> # <<c, l>> => f.entries[d][k].inode # f.entries[c][l].inode
                        /\ d = c /\ k # l => f.entries[d][k].name # f.entries[c][l].name
      BY <1>1
    <3>1. f.inode[d].type = "dir" /\ f.inode[c].type = "dir"
      BY <1>1, <1>2
    <3> QED
      BY <3>1 DEF NamesAreExact
  <2> QED
    BY <2>1, <2>2, <2>3 DEF NamesAreExact
<1> QED
  BY <1>1, <1>3, <1>4, <1>5, <1>6, <1>7

LEMMA FileChanged ==
  ASSUME NEW f \in FsRecord, NEW g \in FsRecord, NEW i \in Inodes, InUse(f, i, "file"),
         ChangesFile(f, g, i), Sound(f),
         NEW n \in 0 .. NumSlots, n = InBlocks(f.inode[i].size),
         NEW z \in 0 .. NumSlots, z = InBlocks(g.inode[i].size),
         Held(g, (FilePlaces(f) \ Slice(i, 0, n)) \cup Slice(i, 0, z), PagePlaces(f), {9})
  PROVE  Sound(g)
<1> DEFINE K == (FilePlaces(f) \ Slice(i, 0, n)) \cup Slice(i, 0, z)
<1>1. /\ NamesAreExact(g) /\ g.used = f.used /\ PagePlaces(g) = PagePlaces(f)
      /\ \A j \in Inodes : InUse(g, j, "file") <=> InUse(f, j, "file")
      /\ \A j \in Inodes : j # i => Size(g, j) = Size(f, j)
  BY NamesKept DEF Sound
<1>2. Size(f, i) = f.inode[i].size /\ Size(g, i) = g.inode[i].size
  BY DEF Size, InUse, ChangesFile
<1>3. Slots = 0 .. NumSlots - 1 /\ NumSlots \in Nat
  BY Constants
<1>4. ASSUME NEW j \in Inodes, NEW q \in Slots
      PROVE  <<j, q>> \in FilePlaces(g) <=> <<j, q>> \in K
  <2>1. /\ <<j, q>> \in FilePlaces(g) <=> InUse(f, j, "file") /\ q < InBlocks(Size(g, j))
        /\ <<j, q>> \in FilePlaces(f) <=> InUse(f, j, "file") /\ q < InBlocks(Size(f, j))
    BY <1>1, PlacesOf
  <2>2. \A w \in 0 .. NumSlots : <<j, q>> \in Slice(i, 0, w) <=> j = i /\ q < w
    BY <1>3 DEF Slice
  <2>3. CASE j # i
    BY <1>1, <2>1, <2>2, <2>3
  <2>4. CASE j = i
    BY <1>2, <2>1, <2>2, <2>4
  <2> QED
    BY <2>3, <2>4
<1>5. K \in SUBSET Places
  BY DEF Held
<1>6. FilePlaces(g) \in SUBSET Places
  BY PlacesApart
<1> HIDE DEF K
<1>7. FilePlaces(g) = K
  <2>1. \A h \in Places : h \in FilePlaces(g) <=> h \in K
    <3> SUFFICES ASSUME NEW h \in Places PROVE h \in FilePlaces(g) <=> h \in K
      OBVIOUS
    <3>1. h[1] \in Inodes /\ h[2] \in Slots /\ h = <<h[1], h[2]>>
      BY PlaceParts
    <3> QED
      BY <1>4, <3>1
  <2> QED
    BY <1>5, <1>6, <2>1
<1> QED
  BY <1>1, <1>7 DEF Sound, K

\* No size changes either.
LEMMA SoundKept ==
  ASSUME NEW f \in FsRecord, NEW g \in FsRecord, SameFiles(f, g), Sound(f),
         Held(g, FilePlaces(f), PagePlaces(f), {9})
  PROVE  Sound(g)
<1>1. ChangesFile(f, g, 0) /\ 0 \notin Inodes
  BY Constants DEF ChangesFile, SameFiles, SameKinds
<1>2. /\ NamesAreExact(g) /\ g.used = f.used /\ PagePlaces(g) = PagePlaces(f)
      /\ \A j \in Inodes : InUse(g, j, "file") <=> InUse(f, j, "file")
  BY <1>1, NamesKept DEF Sound
<1>3. FilePlaces(g) = FilePlaces(f)
  BY <1>2 DEF FilePlaces, SameFiles, SameKinds
<1> QED
  BY <1>2, <1>3 DEF Sound

\* An inode of another size.
Sized(f, i, z) == [f EXCEPT !.inode[i].size = z]

LEMMA SizedIs ==
  ASSUME NEW f \in FsRecord, NEW i \in Inodes, NEW z \in 0 .. NumSlots * BlockUnits
  PROVE  LET g == Sized(f, i, z) IN
         /\ g \in FsRecord /\ ChangesFile(f, g, i) /\ g.inode[i].size = z
         /\ g.refs = f.refs /\ g.bmap = f.bmap /\ g.mem = f.mem
         /\ \A h \in Places : At(g, h) = At(f, h)
         /\ \A j \in Inodes \ {i} : g.inode[j] = f.inode[j]
<1> DEFINE g == Sized(f, i, z)
           nd == [f.inode[i] EXCEPT !.size = z]
<1>1. f.inode \in [Inodes -> Inode] /\ f.inode[i] \in Inode
  BY FieldTypes
<1>2. nd \in Inode /\ nd.size = z /\ nd.type = f.inode[i].type /\ nd.blocks = f.inode[i].blocks
  BY <1>1 DEF Inode
<1>3. /\ g.inode = [f.inode EXCEPT ![i] = nd] /\ Untouched(f, g)
      /\ g.refs = f.refs /\ g.bmap = f.bmap /\ g.mem = f.mem
      /\ g = [f EXCEPT !.inode = g.inode]
  BY DEF FsRecord, Sized, Untouched
<1> HIDE DEF nd, g
<1>4. g.inode \in [Inodes -> Inode] /\ g.inode[i] = nd /\ \A j \in Inodes \ {i} : g.inode[j] = f.inode[j]
  BY <1>1, <1>2, <1>3
<1>5. g \in FsRecord
  BY <1>3, <1>4 DEF FsRecord
<1>6. ASSUME NEW h \in Places PROVE At(g, h) = At(f, h)
  <2>1. h[1] \in Inodes
    BY PlaceParts
  <2> QED
    BY <1>2, <1>4, <2>1 DEF At
<1>7. ChangesFile(f, g, i)
  BY <1>2, <1>3, <1>4 DEF ChangesFile
<1> QED
  BY <1>2, <1>3, <1>4, <1>5, <1>6, <1>7 DEF g

\* The same blocks at the same places.
LEMMA HeldSame ==
  ASSUME NEW f, NEW g, NEW H, NEW P, NEW X, Held(f, H, P, X),
         g.refs = f.refs, g.bmap = f.bmap, \A h \in H \cup P : At(g, h) = At(f, h)
  PROVE  Held(g, H, P, X)
<1>1. \A b : Holders(g, H, b) = Holders(f, H, b)
  BY DEF Holders
<1>2. CountsAreExact(g, H)
  BY <1>1 DEF CountsAreExact, Held
<1>3. BitmapIsExact(g, H, P, X)
  BY DEF BitmapIsExact, Held
<1> QED
  BY <1>2, <1>3 DEF Held

-----------------------------------------------------------------------------
(* Copies and appends                                                      *)

LEMMA AssignedIs ==
  ASSUME NEW f, NEW src, NEW dst
  PROVE  Assigned(f, src, dst) = Sized(AssignSlots(ReleaseAll(f, dst), f, src, dst), dst, Size(f, src))
BY DEF Assigned, AssignSlots, Sized

LEMMA ChangesThen ==
  ASSUME NEW f \in FsRecord, NEW g, NEW h, NEW i \in Inodes, SameFiles(f, g), ChangesFile(g, h, i)
  PROVE  ChangesFile(f, h, i)
BY DEF SameFiles, SameKinds, Untouched, ChangesFile

\* fs_copy over a file that exists: the types, whatever it is asked to copy.
LEMMA AssignedTyped ==
  ASSUME NEW f \in FsRecord, NamesAreExact(f), NEW src \in Inodes, NEW dst \in Inodes
  PROVE  LET g == Assigned(f, src, dst) IN
         g \in FsRecord /\ ChangesFile(f, g, dst) /\ g.inode[dst].size = Size(f, src)
<1> DEFINE m == InBlocks(Size(f, dst))
           n == InBlocks(Size(f, src))
           f1 == ReleaseAll(f, dst)
           f2 == AssignSlots(f1, f, src, dst)
           z == Size(f, src)
           g == Sized(f2, dst, z)
<1>1. m \in 0 .. NumSlots /\ n \in 0 .. NumSlots /\ z \in 0 .. NumSlots * BlockUnits
  BY SizeBound
<1>2. f1 \in FsRecord /\ Untouched(f, f1) /\ f1.inode = f.inode
  BY <1>1, ReleaseAllTyped
<1> HIDE DEF f1
<1>3. PICK w : Shares(w, f1, dst, 0, src, n) /\ w[n] = f2
  BY <1>1, <1>2, AssignSteps
<1>4. n \in Nat /\ 0 \in Nat /\ 0 + n <= NumSlots
  BY <1>1, Constants
<1> HIDE DEF f2, n, z
<1>5. f2 \in FsRecord /\ SameFiles(f1, f2)
  BY <1>2, <1>3, <1>4, SharesTyped
<1>6. SameFiles(f, f2)
  BY <1>2, <1>5 DEF SameFiles, SameKinds, Untouched
<1>7. g \in FsRecord /\ ChangesFile(f2, g, dst) /\ g.inode[dst].size = z
  BY <1>1, <1>5, SizedIs
<1> HIDE DEF g
<1>8. ChangesFile(f, g, dst)
  BY <1>6, <1>7, ChangesThen
<1> QED
  BY <1>7, <1>8, AssignedIs DEF g, f2, f1, z

\* The destination has the blocks of the source, and nobody loses one.
LEMMA AssignedFile ==
  ASSUME NEW f \in FsRecord, Sound(f), NEW src \in Inodes, NEW dst \in Inodes,
         InUse(f, src, "file"), InUse(f, dst, "file"), src # dst \/ f.inode[src].size = 0,
         NEW m \in 0 .. NumSlots, m = InBlocks(f.inode[dst].size),
         NEW n \in 0 .. NumSlots, n = InBlocks(f.inode[src].size)
  PROVE  LET g == Assigned(f, src, dst) IN
         /\ Sound(g) /\ SameCells(f, g, FilePlaces(f) \ Slice(dst, 0, m))
         /\ \A k \in 0 .. n - 1 : Cell(g, <<dst, k>>) = Cell(f, <<src, k>>)
<1> DEFINE f1 == ReleaseAll(f, dst)
           f2 == AssignSlots(f1, f, src, dst)
           z == Size(f, src)
           g == Sized(f2, dst, z)
           H == FilePlaces(f)
           P == PagePlaces(f)
           K == H \ Slice(dst, 0, m)
<1>1. NamesAreExact(f) /\ Held(f, H, P, {9})
  BY DEF Sound
<1>2. Size(f, dst) = f.inode[dst].size /\ z = f.inode[src].size /\ z \in 0 .. NumSlots * BlockUnits
  BY <1>1, SizeBound DEF InUse
<1>3. m = InBlocks(Size(f, dst)) /\ n = InBlocks(Size(f, src)) /\ NumSlots \in Nat
  BY <1>2, Constants
<1>4. Slice(dst, 0, m) \subseteq H /\ Slice(src, 0, n) \subseteq H
  BY <1>3, FileSlices
<1>5. Slice(dst, 0, n) \cap (H \cup P) \subseteq Slice(dst, 0, m)
  BY <1>3, FileSlices
<1> HIDE DEF H, P
<1>6. f1 \in FsRecord /\ Untouched(f, f1) /\ f1.inode = f.inode
  BY <1>3, ReleaseAllTyped
<1>7. Held(f1, K, P, {9}) /\ SameCells(f, f1, K)
  BY <1>1, <1>3, <1>4, ReleaseAllFile
<1> HIDE DEF f1
<1>8. PICK w : Shares(w, f1, dst, 0, src, n) /\ w[n] = f2
  BY <1>3, <1>6, AssignSteps
<1>9. n \in Nat /\ 0 \in Nat /\ 0 + n = n /\ 0 + n <= NumSlots
  BY <1>3
<1> HIDE DEF f2
<1>10. f2 \in FsRecord /\ SameFiles(f1, f2)
  BY <1>6, <1>8, <1>9, SharesTyped
<1>11. Slice(src, 0, n) \subseteq K
  <2>1. CASE src # dst
    BY <1>4, <2>1 DEF Slice
  <2>2. CASE f.inode[src].size = 0
    <3>1. n = 0
      BY <2>2, Constants DEF InBlocks
    <3> QED
      BY <3>1, SliceEmpty
  <2> QED
    BY <2>1, <2>2
<1>12. Slice(dst, 0, 0 + n) \cap (K \cup P) = {}
  <2>1. Slice(dst, 0, 0 + n) = Slice(dst, 0, n)
    BY <1>9
  <2>2. Slice(dst, 0, m) \cap P = {}
    BY <1>1, <1>4 DEF Held
  <2> QED
    BY <1>5, <2>1, <2>2
<1>13. /\ Held(f2, K \cup Slice(dst, 0, 0 + n), P, {9}) /\ SameCells(f1, f2, K)
       /\ \A k \in 0 .. n - 1 : Cell(f2, <<dst, 0 + k>>) = Cell(f1, <<src, k>>)
  <2> HIDE DEF K
  <2>1. MayShare(f1, K, P, {9}, dst, 0, src, n)
    BY <1>7, <1>11, <1>12 DEF MayShare
  <2>2. HasShared(w[n], f1, K, P, {9}, dst, 0, src, n)
    BY <1>6, <1>8, <1>9, <2>1, SharesFile
  <2> QED
    BY <1>8, <2>2 DEF HasShared
<1>14. Held(f2, K \cup Slice(dst, 0, n), P, {9})
  BY <1>9, <1>13
<1>15. \A k \in 0 .. n - 1 : Cell(f2, <<dst, k>>) = Cell(f, <<src, k>>)
  <2> SUFFICES ASSUME NEW k \in 0 .. n - 1 PROVE Cell(f2, <<dst, k>>) = Cell(f, <<src, k>>)
    OBVIOUS
  <2>1. <<src, k>> \in K /\ 0 + k = k
    BY <1>11 DEF Slice
  <2>2. Cell(f2, <<dst, 0 + k>>) = Cell(f1, <<src, k>>)
    BY <1>13
  <2>3. Cell(f1, <<src, k>>) = Cell(f, <<src, k>>)
    BY <1>7, <2>1 DEF SameCells
  <2> QED
    BY <2>1, <2>2, <2>3
<1> HIDE DEF z
<1>16. /\ g \in FsRecord /\ ChangesFile(f2, g, dst) /\ g.inode[dst].size = z
       /\ g.refs = f2.refs /\ g.bmap = f2.bmap /\ g.mem = f2.mem
       /\ \A h \in Places : At(g, h) = At(f2, h)
  BY <1>2, <1>10, SizedIs
<1> HIDE DEF g
<1>17. SameFiles(f, f2)
  BY <1>6, <1>10 DEF SameFiles, SameKinds, Untouched
<1>18. ChangesFile(f, g, dst)
  BY <1>16, <1>17, ChangesThen
<1>19. K \cup Slice(dst, 0, n) \subseteq Places /\ P \subseteq Places
  BY <1>14 DEF Held
<1>20. Held(g, K \cup Slice(dst, 0, n), P, {9})
  <2> DEFINE J == K \cup Slice(dst, 0, n)
  <2>1. Held(f2, J, P, {9}) /\ \A h \in J \cup P : At(g, h) = At(f2, h)
    BY <1>14, <1>16, <1>19
  <2> HIDE DEF J
  <2>2. Held(g, J, P, {9})
    BY <1>16, <2>1, HeldSame
  <2> QED
    BY <2>2 DEF J
<1>21. Sound(g)
  <2>1. n = InBlocks(g.inode[dst].size)
    BY <1>2, <1>16
  <2> QED
    BY <1>16, <1>18, <1>20, <2>1, FileChanged DEF K, H, P
<1>22. \A h \in Places : Cell(g, h) = Cell(f2, h)
  BY <1>16 DEF Cell
<1>23. SameCells(f, g, K)
  BY <1>7, <1>13, <1>19, <1>22 DEF SameCells
<1>24. \A k \in 0 .. n - 1 : Cell(g, <<dst, k>>) = Cell(f, <<src, k>>)
  <2>1. \A k \in 0 .. n - 1 : <<dst, k>> \in Places
    BY <1>19 DEF Slice
  <2> QED
    BY <1>15, <1>22, <2>1
<1> QED
  BY <1>21, <1>23, <1>24, AssignedIs DEF K, H, g, f2, f1, z

LEMMA AppendedIs ==
  ASSUME NEW f \in FsRecord, NEW x \in Inodes, NEW y \in Inodes
  PROVE  Appended(f, x, y) = Sized(AppendSlots(f, x, y), x, AppendSlots(f, x, y).inode[x].size + Size(f, y))
BY DEF Appended, AppendSlots, Sized

LEMMA AppendedTyped ==
  ASSUME NEW f \in FsRecord, NamesAreExact(f), NEW x \in Inodes, NEW y \in Inodes,
         InUse(f, x, "file"), NEW a \in Nat, NEW n \in Nat, a + n <= NumSlots,
         a = InBlocks(Size(f, x)), n = InBlocks(Size(f, y))
  PROVE  LET g == Appended(f, x, y) IN
         g \in FsRecord /\ ChangesFile(f, g, x) /\ g.inode[x].size = f.inode[x].size + Size(f, y)
<1> DEFINE f1 == AppendSlots(f, x, y)
           z == f1.inode[x].size + Size(f, y)
           g == Sized(f1, x, z)
<1>1. PICK w : Shares(w, f, x, a, y, n) /\ w[n] = f1
  BY AppendSteps
<1>2. Appended(f, x, y) = g
  BY AppendedIs
<1> HIDE DEF f1
<1>3. f1 \in FsRecord /\ SameFiles(f, f1)
  BY <1>1, SharesTyped
<1>4. Size(f, x) = f.inode[x].size /\ Size(f, x) \in Nat /\ Size(f, y) \in Nat
  BY SizeBound, Constants DEF InUse
<1>5. z = f.inode[x].size + Size(f, y)
  BY <1>3 DEF SameFiles, SameKinds
<1>6. z \in 0 .. NumSlots * BlockUnits
  BY <1>4, <1>5, InBlocksBelowSum
<1> HIDE DEF z
<1>7. g \in FsRecord /\ ChangesFile(f1, g, x) /\ g.inode[x].size = z
  BY <1>3, <1>6, SizedIs
<1> HIDE DEF g
<1>8. ChangesFile(f, g, x)
  BY <1>3, <1>7, ChangesThen
<1> QED
  BY <1>2, <1>5, <1>7, <1>8

\* A file gets the blocks of another after its own, which are full.
LEMMA AppendedFile ==
  ASSUME NEW f \in FsRecord, Sound(f), NEW x \in Inodes, NEW y \in Inodes,
         InUse(f, x, "file"), InUse(f, y, "file"),
         NEW a \in Nat, NEW n \in Nat, a + n <= NumSlots,
         a = InBlocks(f.inode[x].size), n = InBlocks(f.inode[y].size),
         f.inode[y].size = 0 \/ f.inode[x].size % BlockUnits = 0
  PROVE  LET g == Appended(f, x, y) IN
         /\ Sound(g) /\ SameCells(f, g, FilePlaces(f))
         /\ \A k \in 0 .. n - 1 : Cell(g, <<x, a + k>>) = Cell(f, <<y, k>>)
<1> DEFINE f1 == AppendSlots(f, x, y)
           z == f1.inode[x].size + Size(f, y)
           g == Sized(f1, x, z)
           H == FilePlaces(f)
           P == PagePlaces(f)
           N == Slice(x, a, a + n)
<1>1. NamesAreExact(f) /\ Held(f, H, P, {9})
  BY DEF Sound
<1>2. Size(f, x) = f.inode[x].size /\ Size(f, y) = f.inode[y].size
  BY DEF InUse, Size
<1>3. a = InBlocks(Size(f, x)) /\ n = InBlocks(Size(f, y)) /\ NumSlots \in Nat
  BY <1>2, Constants
<1>4. PICK w : Shares(w, f, x, a, y, n) /\ w[n] = f1
  BY <1>3, AppendSteps
<1>5. Appended(f, x, y) = g
  BY AppendedIs
<1>6. Slice(y, 0, n) \subseteq H /\ Slice(x, 0, a) \subseteq H /\ N \cap (H \cup P) = {}
  <2>1. a \in 0 .. NumSlots /\ n \in 0 .. NumSlots /\ a + n \in 0 .. NumSlots
    BY <1>3
  <2> QED
    BY <1>3, <2>1, FileSlices
<1> HIDE DEF f1, H, P
<1>7. f1 \in FsRecord /\ SameFiles(f, f1)
  BY <1>4, SharesTyped
<1>8. /\ Held(f1, H \cup N, P, {9}) /\ SameCells(f, f1, H)
      /\ \A k \in 0 .. n - 1 : Cell(f1, <<x, a + k>>) = Cell(f, <<y, k>>)
  <2>1. MayShare(f, H, P, {9}, x, a, y, n)
    BY <1>1, <1>6 DEF MayShare
  <2>2. HasShared(w[n], f, H, P, {9}, x, a, y, n)
    BY <1>4, <2>1, SharesFile
  <2> QED
    BY <1>4, <2>2 DEF HasShared
<1>9. Appended(f, x, y) \in FsRecord /\ ChangesFile(f, g, x) /\ g.inode[x].size = f.inode[x].size + Size(f, y)
  BY <1>1, <1>3, <1>5, AppendedTyped
<1>10. z = f.inode[x].size + f.inode[y].size
  BY <1>2, <1>7 DEF SameFiles, SameKinds
<1>11. f.inode[x].size \in Nat /\ f.inode[y].size \in Nat
  <2>1. NumSlots * BlockUnits \in Nat
    BY Constants
  <2> QED
    BY <2>1, FieldTypes
<1>12. InBlocks(z) = a + n
  <2>1. CASE f.inode[y].size = 0
    <3>1. n = 0
      BY <2>1, Constants DEF InBlocks
    <3>2. z = f.inode[x].size
      BY <1>10, <1>11, <2>1
    <3> QED
      BY <3>1, <3>2
  <2>2. CASE f.inode[x].size % BlockUnits = 0
    BY <1>10, <1>11, <2>2, InBlocksSum
  <2> QED
    BY <2>1, <2>2
<1>13. z \in 0 .. NumSlots * BlockUnits
  BY <1>10, <1>11, <1>12, InBlocksBound
<1> HIDE DEF z
<1>14. /\ g \in FsRecord /\ g.inode[x].size = z
       /\ g.refs = f1.refs /\ g.bmap = f1.bmap /\ g.mem = f1.mem
       /\ \A h \in Places : At(g, h) = At(f1, h)
  BY <1>7, <1>13, SizedIs
<1> HIDE DEF g, N
<1>15. H \cup N \subseteq Places /\ P \subseteq Places
  BY <1>8 DEF Held
<1>16. H \cup N = (H \ Slice(x, 0, a)) \cup Slice(x, 0, a + n)
  <2>1. Slice(x, 0, a + n) = Slice(x, 0, a) \cup N
    BY <1>3 DEF Slice, N
  <2> QED
    BY <1>6, <2>1
<1>17. Held(g, H \cup N, P, {9})
  <2>1. \A h \in (H \cup N) \cup P : At(g, h) = At(f1, h)
    BY <1>14, <1>15
  <2> QED
    BY <1>8, <1>14, <2>1, HeldSame
<1>18. Sound(g)
  <2>1. a \in 0 .. NumSlots /\ a + n \in 0 .. NumSlots
    BY <1>3
  <2>2. a + n = InBlocks(g.inode[x].size)
    BY <1>12, <1>14
  <2>3. Held(g, (H \ Slice(x, 0, a)) \cup Slice(x, 0, a + n), P, {9})
    BY <1>16, <1>17
  <2> QED
    BY <1>9, <1>14, <2>1, <2>2, <2>3, FileChanged DEF H, P
<1>19. \A h \in Places : Cell(g, h) = Cell(f1, h)
  BY <1>14 DEF Cell
<1>20. SameCells(f, g, H)
  BY <1>8, <1>15, <1>19 DEF SameCells
<1>21. \A k \in 0 .. n - 1 : Cell(g, <<x, a + k>>) = Cell(f, <<y, k>>)
  <2>1. \A k \in 0 .. n - 1 : <<x, a + k>> \in N
    BY DEF N, Slice
  <2> QED
    BY <1>8, <1>15, <1>19, <2>1
<1> QED
  BY <1>5, <1>18, <1>20, <1>21 DEF H

-----------------------------------------------------------------------------
(* Writes                                                                  *)

LEMMA OfTwo ==
  ASSUME NEW a \in Nat, NEW b \in Nat
  PROVE  /\ Max({a, b}) = IF a >= b THEN a ELSE b
         /\ Min({a, b}) = IF a <= b THEN a ELSE b
<1>1. PICK x \in {a, b} : \A y \in {a, b} : x >= y
  OBVIOUS
<1>2. PICK w \in {a, b} : \A y \in {a, b} : w <= y
  OBVIOUS
<1>3. Max({a, b}) \in {a, b} /\ \A y \in {a, b} : Max({a, b}) >= y
  BY <1>1 DEF Max
<1>4. Min({a, b}) \in {a, b} /\ \A y \in {a, b} : Min({a, b}) <= y
  BY <1>2 DEF Min
<1> QED
  BY <1>3, <1>4

LEMMA Counted ==
  ASSUME NEW u \in Nat, NEW n \in Nat
  PROVE  ToSet([k \in 1 .. n |-> u + k - 1]) = u .. u + n - 1
<1> DEFINE s == [k \in 1 .. n |-> u + k - 1]
<1>1. ToSet(s) = {u + k - 1 : k \in 1 .. n}
  BY DEF ToSet
<1>2. \A p \in u .. u + n - 1 : (p - u) + 1 \in 1 .. n /\ u + ((p - u) + 1) - 1 = p
  OBVIOUS
<1>3. \A k \in 1 .. n : u + k - 1 \in u .. u + n - 1
  OBVIOUS
<1> HIDE DEF s
<1>4. ToSet(s) = u .. u + n - 1
  BY <1>1, <1>2, <1>3
<1> QED
  BY <1>4 DEF s

LEMMA UsedSlotsAre ==
  ASSUME NEW f, NEW i, NEW u \in Nat, u = InBlocks(Size(f, i))
  PROVE  Len(UsedSlots(f, i)) = u /\ ToSet(UsedSlots(f, i)) = 0 .. u - 1
<1>1. UsedSlots(f, i) = [k \in 1 .. u |-> k - 1]
  BY DEF UsedSlots
<1> DEFINE s == [k \in 1 .. u |-> k - 1]
<1>2. ToSet(s) = {k - 1 : k \in 1 .. u} /\ Len(s) = u
  BY DEF ToSet
<1>3. \A p \in 0 .. u - 1 : p + 1 \in 1 .. u /\ (p + 1) - 1 = p
  OBVIOUS
<1>4. \A k \in 1 .. u : k - 1 \in 0 .. u - 1
  OBVIOUS
<1> HIDE DEF s
<1>5. ToSet(s) = 0 .. u - 1
  BY <1>2, <1>3, <1>4
<1> QED
  BY <1>1, <1>2, <1>5 DEF s

\* A write of count units at place at of inode i: u slots are in use, n more are
\* reserved, and the data goes to the slots m up to e - 1.
WriteAsked(f, i, at, count, u, n, m, e) ==
  /\ InUse(f, i, "file")
  /\ at \in Nat /\ at <= f.inode[i].size /\ count \in Nat \ {0}
  /\ u \in Nat /\ n \in Nat /\ m \in Nat /\ e \in Nat
  /\ u = InBlocks(f.inode[i].size) /\ e = InBlocks(at + count) /\ m = at \div BlockUnits
  /\ u + n <= NumSlots /\ u + n = IF e >= u THEN e ELSE u

WriteFits(f, i, at, count, u, n, m, e) ==
  /\ f.inode[i].size \in Nat /\ m * BlockUnits <= at /\ m < e /\ e <= u + n
  /\ at + count <= e * BlockUnits
  /\ \A q \in 0 .. m - 1 : q < u
  /\ LET z == Max({at + count, f.inode[i].size}) IN
     /\ z = IF at + count >= f.inode[i].size THEN at + count ELSE f.inode[i].size
     /\ z \in 0 .. NumSlots * BlockUnits /\ InBlocks(z) = u + n

LEMMA WriteBounds ==
  ASSUME NEW f \in FsRecord, NEW i \in Inodes, NEW at, NEW count, NEW u, NEW n, NEW m, NEW e,
         WriteAsked(f, i, at, count, u, n, m, e)
  PROVE  WriteFits(f, i, at, count, u, n, m, e)
<1> DEFINE s == f.inode[i].size
           z == Max({at + count, s})
<1>1. s \in 0 .. NumSlots * BlockUnits /\ BlockUnits \in Nat \ {0} /\ NumSlots \in Nat
  BY FieldTypes, Constants
<1>2. NumSlots * BlockUnits \in Nat
  BY <1>1
<1>3. s \in Nat
  BY <1>1, <1>2
<1>4. /\ at \in Nat /\ at <= s /\ count \in Nat \ {0}
      /\ u \in Nat /\ n \in Nat /\ m \in Nat /\ e \in Nat
      /\ u = InBlocks(s) /\ e = InBlocks(at + count) /\ m = at \div BlockUnits
      /\ u + n <= NumSlots /\ u + n = IF e >= u THEN e ELSE u
  BY DEF WriteAsked
<1> HIDE DEF s
<1>5. m * BlockUnits <= at
  BY <1>1, <1>4
<1>6. at + count \in Nat
  BY <1>4
<1>7. \A q \in Nat : q < e <=> q * BlockUnits < at + count
  BY <1>4, <1>6, InBlocksIs
<1>8. \A q \in Nat : q < u <=> q * BlockUnits < s
  BY <1>3, <1>4, InBlocksIs
<1>9. m < e
  <2>1. m * BlockUnits \in Nat
    BY <1>1, <1>4
  <2>2. m * BlockUnits < at + count
    BY <1>4, <1>5, <2>1
  <2> QED
    BY <1>4, <1>7, <2>2
<1>10. at + count <= e * BlockUnits
  <2>1. e * BlockUnits \in Nat
    BY <1>1, <1>4
  <2>2. ~(e * BlockUnits < at + count)
    BY <1>4, <1>7
  <2> QED
    BY <1>6, <2>1, <2>2
<1>11. ASSUME NEW q \in 0 .. m - 1 PROVE q < u
  <2>1. q \in Nat /\ q + 1 <= m
    BY <1>4
  <2>2. (q + 1) * BlockUnits <= m * BlockUnits
    BY <1>1, <1>4, <2>1
  <2>3. q * BlockUnits \in Nat /\ (q + 1) * BlockUnits = q * BlockUnits + BlockUnits
    BY <1>1, <2>1
  <2>4. m * BlockUnits \in Nat
    BY <1>1, <1>4
  <2>5. q * BlockUnits < s
    BY <1>1, <1>3, <1>4, <1>5, <2>2, <2>3, <2>4
  <2> QED
    BY <1>8, <2>1, <2>5
<1>12. z = IF at + count >= s THEN at + count ELSE s
  BY <1>3, <1>6, OfTwo
<1> HIDE DEF z
<1>13. InBlocks(z) = u + n
  <2>1. CASE at + count >= s
    <3>1. ~(e < u)
      <4> SUFFICES ASSUME e < u PROVE FALSE
        OBVIOUS
      <4>1. e * BlockUnits < s /\ e * BlockUnits \in Nat
        BY <1>1, <1>4, <1>8
      <4> QED
        BY <1>3, <1>6, <1>10, <2>1, <4>1
    <3> QED
      BY <1>4, <1>12, <2>1, <3>1
  <2>2. CASE ~(at + count >= s)
    <3>1. e <= u
      <4> SUFFICES ASSUME u < e PROVE FALSE
        BY <1>4
      <4>1. u * BlockUnits < at + count /\ u * BlockUnits \in Nat
        BY <1>1, <1>4, <1>7
      <4>2. ~(u * BlockUnits < s)
        BY <1>4, <1>8
      <4> QED
        BY <1>3, <1>6, <2>2, <4>1, <4>2
    <3>2. u + n = u
      BY <1>4, <3>1
    <3> QED
      BY <1>4, <1>12, <2>2, <3>2
  <2> QED
    BY <2>1, <2>2
<1>14. z \in 0 .. NumSlots * BlockUnits
  <2>1. z \in Nat
    BY <1>3, <1>6, <1>12
  <2> QED
    BY <1>4, <1>13, <2>1, InBlocksBound
<1>15. e <= u + n
  BY <1>4
<1> QED
  BY <1>3, <1>5, <1>9, <1>10, <1>11, <1>12, <1>13, <1>14, <1>15 DEF s, z, WriteFits

LEMMA WrittenIs ==
  ASSUME NEW f, NEW i, NEW o, NEW c, NEW v, NEW res
  PROVE  Written(f, i, o, c, v, res) =
           Sized(WriteSlots(f, i, o, c, v, res), i, Max({o + c, WriteSlots(f, i, o, c, v, res).inode[i].size}))
BY DEF Written, WriteSlots, Sized

\* The blocks are reserved, and every slot to write has one.
Prepared(g, f, i, u, n, m, e) ==
  /\ g \in FsRecord /\ SameFiles(f, g)
  /\ HasExtended(g, f, FilePlaces(f), PagePlaces(f), {9}, i, u, n)
  /\ Slice(i, 0, u) \subseteq FilePlaces(f)
  /\ Slice(i, m, e) \subseteq FilePlaces(f) \cup Slice(i, u, u + n)

LEMMA WriteReserved ==
  ASSUME NEW f \in FsRecord, Sound(f), NEW i \in Inodes, NEW at, NEW count, NEW u, NEW n, NEW m, NEW e,
         WriteAsked(f, i, at, count, u, n, m, e), n <= Cardinality(FreeBlocks(f))
  PROVE  Prepared(Extended(f, i, u, n), f, i, u, n, m, e)
<1> DEFINE g == Extended(f, i, u, n)
           H == FilePlaces(f)
           P == PagePlaces(f)
<1>1. /\ InUse(f, i, "file") /\ u \in Nat /\ n \in Nat /\ m \in Nat /\ e \in Nat
      /\ u = InBlocks(f.inode[i].size) /\ u + n <= NumSlots
  BY DEF WriteAsked
<1>2. m < e /\ e <= u + n /\ NumSlots \in Nat
  <2>1. WriteFits(f, i, at, count, u, n, m, e)
    BY WriteBounds
  <2> QED
    BY <2>1, Constants DEF WriteFits
<1>3. u = InBlocks(Size(f, i))
  BY <1>1 DEF Size, InUse
<1>4. Held(f, H, P, {9})
  BY DEF Sound
<1>5. /\ Slice(i, 0, u) \subseteq H /\ Slice(i, u, u + n) \cap (H \cup P) = {}
  <2>1. u \in 0 .. NumSlots /\ u + n \in 0 .. NumSlots
    BY <1>1, <1>2
  <2> QED
    BY <1>1, <1>3, <2>1, FileSlices
<1>6. Slice(i, m, e) \subseteq Slice(i, 0, u) \cup Slice(i, u, u + n)
  BY <1>1, <1>2 DEF Slice
<1> HIDE DEF g, H, P
<1>7. g \in FsRecord /\ SameFiles(f, g)
  BY <1>1, ExtendedTyped DEF g
<1>8. HasExtended(g, f, H, P, {9}, i, u, n)
  BY <1>1, <1>4, <1>5, ExtendedFile DEF g
<1> QED
  BY <1>5, <1>6, <1>7, <1>8 DEF Prepared, g, H, P

\* fs_write once its blocks are reserved: the types, whatever is shared.
LEMMA WrittenTyped ==
  ASSUME NEW f \in FsRecord, Sound(f), NEW i \in Inodes, NEW at, NEW count, NEW u, NEW n, NEW m, NEW e,
         WriteAsked(f, i, at, count, u, n, m, e), n <= Cardinality(FreeBlocks(f)),
         NEW v \in Data, NEW res
  PROVE  LET g == Written(Extended(f, i, u, n), i, at, count, v, res) IN
         /\ g \in FsRecord /\ ChangesFile(f, g, i)
         /\ g.inode[i].size = Max({at + count, f.inode[i].size})
<1> DEFINE f1 == Extended(f, i, u, n)
           f2 == WriteSlots(f1, i, at, count, v, res)
           z == Max({at + count, f2.inode[i].size})
           g == Sized(f2, i, z)
           J == FilePlaces(f) \cup Slice(i, u, u + n)
           w == e - m
<1>1. /\ f1 \in FsRecord /\ SameFiles(f, f1) /\ Held(f1, J, PagePlaces(f), {9})
      /\ Slice(i, m, e) \subseteq J
  <2>1. Prepared(f1, f, i, u, n, m, e)
    BY WriteReserved
  <2> QED
    BY <2>1 DEF Prepared, HasExtended
<1>2. Written(f1, i, at, count, v, res) = g
  BY WrittenIs
<1>3. /\ at \in Nat /\ count \in Nat /\ m \in Nat /\ e \in Nat /\ e = InBlocks(at + count)
      /\ m = at \div BlockUnits /\ m < e /\ e <= NumSlots
  <2>1. WriteFits(f, i, at, count, u, n, m, e)
    BY WriteBounds
  <2>2. /\ u + n <= NumSlots /\ u \in Nat /\ n \in Nat /\ NumSlots \in Nat
        /\ at \in Nat /\ count \in Nat /\ m \in Nat /\ e \in Nat /\ e = InBlocks(at + count)
        /\ m = at \div BlockUnits
    BY Constants DEF WriteAsked
  <2>3. m < e /\ e <= u + n
    BY <2>1 DEF WriteFits
  <2> QED
    BY <2>2, <2>3
<1> HIDE DEF f1, J
<1>4. w \in Nat /\ m + w = e
  BY <1>3
<1> HIDE DEF w
<1>5. f1 \in WriteReady(i, m, m + w)
  BY <1>1, <1>4 DEF WriteReady, Held, BitmapIsExact
<1>6. f2 \in FsRecord /\ SameFiles(f1, f2)
  BY <1>3, <1>4, <1>5, WriteSlotsTyped
<1> HIDE DEF f2
<1>7. SameFiles(f, f2) /\ f2.inode[i].size = f.inode[i].size
  BY <1>1, <1>6 DEF SameFiles, SameKinds, Untouched
<1>8. z = Max({at + count, f.inode[i].size}) /\ z \in 0 .. NumSlots * BlockUnits
  <2>1. WriteFits(f, i, at, count, u, n, m, e)
    BY WriteBounds
  <2> QED
    BY <1>7, <2>1 DEF WriteFits
<1> HIDE DEF z
<1>9. g \in FsRecord /\ ChangesFile(f2, g, i) /\ g.inode[i].size = z
  BY <1>6, <1>8, SizedIs
<1> HIDE DEF g
<1>10. ChangesFile(f, g, i)
  BY <1>7, <1>9, ChangesThen
<1> QED
  BY <1>2, <1>8, <1>9, <1>10 DEF f1

LEMMA WriteHasRoom ==
  ASSUME NEW f \in FsRecord, Sound(f), NEW i \in Inodes, NEW at, NEW count, NEW u, NEW n, NEW m, NEW e,
         WriteAsked(f, i, at, count, u, n, m, e), WriteIsSafe(f, i, at, count, n)
  PROVE  n <= Cardinality(FreeBlocks(f)) /\ HasRoom(Extended(f, i, u, n), i, m, e)
<1> DEFINE g == Extended(f, i, u, n)
           H == FilePlaces(f)
           S == {q \in ToSet(UsedSlots(f, i)) :
                   q >= m /\ q < InBlocks(at + count) /\ f.refs[f.inode[i].blocks[q]] > 1}
           A == SharedSlots(g, i, m, e)
           cf == Cardinality(FreeBlocks(f))
<1>1. /\ InUse(f, i, "file") /\ u \in Nat /\ n \in Nat /\ m \in Nat /\ e \in Nat
      /\ u = InBlocks(f.inode[i].size) /\ e = InBlocks(at + count) /\ m = at \div BlockUnits
      /\ u + n <= NumSlots
  BY DEF WriteAsked
<1>2. /\ Cardinality(S) + n <= cf
      /\ \A q \in S, p \in 0 .. m - 1 : f.inode[i].blocks[p] # f.inode[i].blocks[q]
  BY <1>1 DEF WriteIsSafe
<1>3. ToSet(UsedSlots(f, i)) = 0 .. u - 1
  <2>1. u = InBlocks(Size(f, i))
    BY <1>1 DEF Size, InUse
  <2> QED
    BY <1>1, <2>1, UsedSlotsAre
<1>4. S = {q \in 0 .. u - 1 : q >= m /\ q < e /\ f.refs[At(f, <<i, q>>)] > 1}
  BY <1>1, <1>3, PlaceParts
<1>5. \A q \in S, p \in 0 .. m - 1 : At(f, <<i, p>>) # At(f, <<i, q>>)
  BY <1>2, PlaceParts
<1> HIDE DEF S
<1>6. IsFiniteSet(S) /\ Cardinality(S) \in Nat /\ cf \in Nat
  <2>1. IsFiniteSet(0 .. u - 1)
    BY <1>1, FS_Interval
  <2>2. S \in SUBSET (0 .. u - 1)
    BY <1>4
  <2>3. IsFiniteSet(S)
    BY <2>1, <2>2, FS_Subset
  <2> QED
    BY <2>3, FS_CardinalityType, FreeFinite
<1>7. n <= cf
  <2> HIDE DEF cf
  <2> QED
    BY <1>1, <1>2, <1>6
<1>8. /\ Stays(f, g, H) /\ \A h \in Slice(i, u, u + n) : g.refs[At(g, h)] = 1
      /\ Cardinality(FreeBlocks(g)) = cf - n
      /\ Slice(i, 0, u) \subseteq H
  <2>1. Prepared(g, f, i, u, n, m, e)
    BY <1>7, WriteReserved
  <2> QED
    BY <2>1 DEF Prepared, HasExtended
<1>9. e <= u + n /\ \A q \in 0 .. m - 1 : q < u
  <2>1. WriteFits(f, i, at, count, u, n, m, e)
    BY WriteBounds
  <2> QED
    BY <2>1 DEF WriteFits
<1> HIDE DEF g, H, cf
<1>10. \A q \in 0 .. u - 1 : /\ At(g, <<i, q>>) = At(f, <<i, q>>)
                             /\ g.refs[At(g, <<i, q>>)] = f.refs[At(f, <<i, q>>)]
  BY <1>8 DEF Slice, Stays
<1>11. A \subseteq S
  <2> SUFFICES ASSUME NEW q \in m .. e - 1, g.refs[At(g, <<i, q>>)] > 1 PROVE q \in S
    BY DEF SharedSlots
  <2>1. CASE q < u
    <3>1. q \in 0 .. u - 1 /\ q >= m /\ q < e
      BY <1>1, <2>1
    <3> QED
      BY <1>4, <1>10, <3>1
  <2>2. CASE ~(q < u)
    <3>1. q \in u .. (u + n) - 1
      BY <1>1, <1>9, <2>2
    <3>2. <<i, q>> \in Slice(i, u, u + n)
      BY <3>1 DEF Slice
    <3> QED
      BY <1>8, <3>2
  <2> QED
    BY <2>1, <2>2
<1>12. Cardinality(A) <= Cardinality(FreeBlocks(g))
  <2>1. Cardinality(A) <= Cardinality(S) /\ Cardinality(A) \in Nat
    BY <1>6, <1>11, FS_Subset, FS_CardinalityType
  <2> HIDE DEF A
  <2> QED
    BY <1>1, <1>2, <1>6, <1>8, <2>1
<1>13. ASSUME NEW q \in A, NEW p \in 0 .. m - 1 PROVE At(g, <<i, p>>) # At(g, <<i, q>>)
  <2>1. p \in 0 .. u - 1 /\ q \in S /\ q \in 0 .. u - 1
    BY <1>1, <1>4, <1>9, <1>11
  <2> QED
    BY <1>5, <1>10, <2>1
<1> QED
  BY <1>7, <1>12, <1>13 DEF HasRoom, g, cf

\* What the units of inode i hold after a write: the data, or what they held.
WrittenUnits(g, f, i, at, count, u, n, v) ==
  \A q \in 0 .. u + n - 1, r \in Units :
    LET p == q * BlockUnits + r IN
    /\ p >= at /\ p < at + count => Cell(g, <<i, q>>)[r] = v
    /\ ~(p >= at /\ p < at + count) /\ q < u => Cell(g, <<i, q>>)[r] = Cell(f, <<i, q>>)[r]

LEMMA WrittenFile ==
  ASSUME NEW f \in FsRecord, Sound(f), NEW i \in Inodes, NEW at, NEW count, NEW u, NEW n, NEW m, NEW e,
         WriteAsked(f, i, at, count, u, n, m, e), WriteIsSafe(f, i, at, count, n),
         NEW v \in Data, NEW res, res = u .. u + n - 1
  PROVE  LET g == Written(Extended(f, i, u, n), i, at, count, v, res) IN
         /\ Sound(g) /\ SameCells(f, g, FilePlaces(f) \ Slice(i, 0, u))
         /\ WrittenUnits(g, f, i, at, count, u, n, v)
<1> DEFINE f1 == Extended(f, i, u, n)
           f2 == WriteSlots(f1, i, at, count, v, res)
           z == Max({at + count, f2.inode[i].size})
           g == Sized(f2, i, z)
           H == FilePlaces(f)
           P == PagePlaces(f)
           J == H \cup Slice(i, u, u + n)
           w == e - m
<1>1. n <= Cardinality(FreeBlocks(f)) /\ HasRoom(f1, i, m, e)
  BY WriteHasRoom
<1>2. Prepared(f1, f, i, u, n, m, e)
  BY <1>1, WriteReserved
<1>3. /\ f1 \in FsRecord /\ SameFiles(f, f1) /\ Held(f1, J, P, {9}) /\ SameCells(f, f1, H)
      /\ Slice(i, m, e) \subseteq J /\ Slice(i, 0, u) \subseteq H
  BY <1>2 DEF Prepared, HasExtended
<1>4. Written(f1, i, at, count, v, res) = g
  BY WrittenIs
<1>5. WriteFits(f, i, at, count, u, n, m, e)
  BY WriteBounds
<1>6. g \in FsRecord /\ ChangesFile(f, g, i) /\ g.inode[i].size = Max({at + count, f.inode[i].size})
  BY <1>1, <1>4, WrittenTyped
<1>7. /\ at \in Nat /\ count \in Nat /\ m \in Nat /\ e \in Nat /\ e = InBlocks(at + count)
      /\ u \in Nat /\ n \in Nat /\ u + n <= NumSlots /\ NumSlots \in Nat
      /\ m = at \div BlockUnits /\ InUse(f, i, "file") /\ u = InBlocks(f.inode[i].size)
  BY Constants DEF WriteAsked
<1>8. m < e /\ e <= u + n /\ m * BlockUnits <= at /\ at + count <= e * BlockUnits
  BY <1>5 DEF WriteFits
<1> HIDE DEF f1, H, P
<1>9. w \in Nat /\ m + w = e /\ m + w <= NumSlots
  BY <1>7, <1>8
<1> HIDE DEF w
<1>10. f1 \in WriteReady(i, m, m + w)
  BY <1>3, <1>9 DEF WriteReady, Held, BitmapIsExact
<1>11. f2 \in FsRecord /\ SameFiles(f1, f2)
  BY <1>7, <1>9, <1>10, WriteSlotsTyped
<1>12. /\ Held(f2, J, P, {9}) /\ SameCells(f1, f2, J \ Slice(i, m, e))
       /\ \A q \in m .. e - 1 : Cell(f2, <<i, q>>) = Overlaid(f1, i, q, at, count, v, res)
  <2>1. HasRoom(f1, i, m, m + w) /\ Slice(i, m, m + w) \subseteq J
    BY <1>1, <1>3, <1>9
  <2> HIDE DEF J
  <2>2. HasWritten(f2, f1, J, P, {9}, i, m, m + w, at, count, v, res)
    BY <1>3, <1>7, <1>9, <2>1, WriteSlotsFile
  <2> QED
    BY <1>9, <2>2 DEF HasWritten
<1> HIDE DEF f2
<1>13. z = Max({at + count, f.inode[i].size}) /\ z \in 0 .. NumSlots * BlockUnits /\ InBlocks(z) = u + n
  <2>1. f2.inode[i].size = f.inode[i].size
    BY <1>3, <1>11 DEF SameFiles, SameKinds
  <2> QED
    BY <1>5, <2>1 DEF WriteFits
<1> HIDE DEF z
<1>14. /\ g.inode[i].size = z /\ g.refs = f2.refs /\ g.bmap = f2.bmap /\ g.mem = f2.mem
       /\ \A h \in Places : At(g, h) = At(f2, h)
  BY <1>11, <1>13, SizedIs
<1> HIDE DEF g
<1>15. J = (H \ Slice(i, 0, u)) \cup Slice(i, 0, u + n)
  <2>1. Slice(i, 0, u + n) = Slice(i, 0, u) \cup Slice(i, u, u + n)
    BY <1>7 DEF Slice
  <2> QED
    BY <1>3, <2>1
<1>16. J \subseteq Places /\ P \subseteq Places
  BY <1>12 DEF Held
<1>17. Held(g, J, P, {9})
  <2>1. \A h \in J \cup P : At(g, h) = At(f2, h)
    BY <1>14, <1>16
  <2> HIDE DEF J
  <2> QED
    BY <1>12, <1>14, <2>1, HeldSame
<1>18. Sound(g)
  <2>1. u \in 0 .. NumSlots /\ u + n \in 0 .. NumSlots
    BY <1>7
  <2>2. u + n = InBlocks(g.inode[i].size)
    BY <1>13, <1>14
  <2>3. Held(g, (H \ Slice(i, 0, u)) \cup Slice(i, 0, u + n), P, {9})
    BY <1>15, <1>17
  <2> QED
    BY <1>6, <1>7, <2>1, <2>2, <2>3, FileChanged DEF H, P
<1>19. \A h \in Places : Cell(g, h) = Cell(f2, h)
  BY <1>14 DEF Cell
<1>20. \A h \in H \ Slice(i, m, e) : Cell(g, h) = Cell(f, h)
  BY <1>3, <1>12, <1>16, <1>19 DEF SameCells
<1>21. SameCells(f, g, H \ Slice(i, 0, u))
  <2>1. H \ Slice(i, 0, u) \subseteq H \ Slice(i, m, e)
    <3>1. H \cap Slice(i, u, u + n) = {}
      <4>1. u \in 0 .. NumSlots /\ u + n \in 0 .. NumSlots /\ u <= u
        BY <1>7
      <4>2. u = InBlocks(Size(f, i))
        BY <1>7 DEF Size, InUse
      <4> QED
        BY <1>7, <4>1, <4>2, FileSlices DEF H
    <3>2. Slice(i, m, e) \subseteq Slice(i, 0, u) \cup Slice(i, u, u + n)
      <4>1. u \in Nat /\ n \in Nat /\ m \in Nat /\ e \in Nat /\ e <= u + n
        BY <1>7, <1>8
      <4> QED
        BY ONLY <4>1 DEF Slice
    <3> QED
      BY <3>1, <3>2
  <2> QED
    BY <1>20, <2>1 DEF SameCells
<1>22. ASSUME NEW q \in 0 .. u + n - 1, NEW r \in Units
       PROVE  LET p == q * BlockUnits + r IN
              /\ p >= at /\ p < at + count => Cell(g, <<i, q>>)[r] = v
              /\ ~(p >= at /\ p < at + count) /\ q < u => Cell(g, <<i, q>>)[r] = Cell(f, <<i, q>>)[r]
  <2> DEFINE p == q * BlockUnits + r
  <2>0. q \in Slots /\ <<i, q>> \in Places /\ q \in Nat /\ r \in 0 .. BlockUnits - 1 /\ BlockUnits \in Nat \ {0}
    <3>1. u \in Nat /\ n \in Nat /\ NumSlots \in Nat /\ u + n <= NumSlots /\ i \in Inodes
      BY <1>7
    <3>2. q \in Nat /\ q \in 0 .. NumSlots - 1
      BY <3>1
    <3>3. BlockUnits \in Nat \ {0} /\ q \in Slots /\ r \in 0 .. BlockUnits - 1
      BY <3>2, Constants DEF Slots, Units
    <3>4. <<i, q>> \in Places
      BY <3>1, <3>3, PlaceParts
    <3> QED
      BY <3>2, <3>3, <3>4
  <2>1. CASE q \in m .. e - 1
    <3>1. Cell(g, <<i, q>>) = Overlaid(f1, i, q, at, count, v, res)
      BY <1>12, <1>19, <2>0, <2>1
    <3>2. Cell(g, <<i, q>>)[r] = IF p >= at /\ p < at + count THEN v
                                 ELSE IF q \in res THEN Junk ELSE Cell(f1, <<i, q>>)[r]
      BY <3>1, PlaceParts DEF Overlaid, Cell
    <3>3. q < u => q \notin res /\ Cell(f1, <<i, q>>) = Cell(f, <<i, q>>)
      <4> SUFFICES ASSUME q < u PROVE q \notin res /\ Cell(f1, <<i, q>>) = Cell(f, <<i, q>>)
        OBVIOUS
      <4>1. q \notin res
        BY <1>7, <2>0
      <4>2. <<i, q>> \in H
        BY <1>3, <1>7, <2>0 DEF Slice
      <4> QED
        BY <1>3, <4>1, <4>2 DEF SameCells
    <3> HIDE DEF p
    <3>4. /\ p >= at /\ p < at + count => Cell(g, <<i, q>>)[r] = v
          /\ ~(p >= at /\ p < at + count) /\ q < u => Cell(g, <<i, q>>)[r] = Cell(f, <<i, q>>)[r]
      BY <3>2, <3>3
    <3> QED
      BY <3>4 DEF p
  <2>2. CASE q \notin m .. e - 1
    <3>1. ~(p >= at /\ p < at + count)
      <4>1. CASE q < m
        <5>0. q \in Nat /\ m \in Nat /\ BlockUnits \in Nat /\ at \in Nat
          BY <1>7, <2>0
        <5>1. q + 1 <= m
          BY <5>0, <4>1
        <5>2. (q + 1) * BlockUnits <= m * BlockUnits
          BY <5>0, <5>1, TimesLess
        <5>3. (q + 1) * BlockUnits = q * BlockUnits + BlockUnits /\ q * BlockUnits \in Nat /\ m * BlockUnits \in Nat
          BY <5>0
        <5>4. m * BlockUnits <= at
          BY <1>8
        <5> HIDE DEF p
        <5>5. p = q * BlockUnits + r
          BY DEF p
        <5> QED
          BY ONLY <5>0, <2>0, <5>2, <5>3, <5>4, <5>5
      <4>2. CASE q >= e
        <5>0. q \in Nat /\ e \in Nat /\ BlockUnits \in Nat /\ at \in Nat /\ count \in Nat
          BY <1>7, <2>0
        <5>1. e * BlockUnits <= q * BlockUnits
          BY <5>0, <4>2, TimesLess
        <5>2. q * BlockUnits \in Nat /\ e * BlockUnits \in Nat
          BY <5>0
        <5>3. at + count <= e * BlockUnits
          BY <1>8
        <5> HIDE DEF p
        <5>4. p = q * BlockUnits + r
          BY DEF p
        <5> QED
          BY ONLY <5>0, <2>0, <5>1, <5>2, <5>3, <5>4
      <4> QED
        BY <1>7, <2>0, <2>2, <4>1, <4>2
    <3>2. q < u => Cell(g, <<i, q>>) = Cell(f, <<i, q>>)
      <4> SUFFICES ASSUME q < u PROVE Cell(g, <<i, q>>) = Cell(f, <<i, q>>)
        OBVIOUS
      <4>1. <<i, q>> \in H /\ <<i, q>> \notin Slice(i, m, e)
        BY <1>3, <1>7, <2>0, <2>2 DEF Slice
      <4> QED
        BY <1>20, <4>1
    <3> QED
      BY <3>1, <3>2
  <2> QED
    BY <2>1, <2>2
<1>23. WrittenUnits(g, f, i, at, count, u, n, v)
  BY <1>22 DEF WrittenUnits
<1> QED
  BY <1>4, <1>18, <1>21, <1>23 DEF f1, H

-----------------------------------------------------------------------------
(* Defragmentation                                                         *)

\* Where b was, dest is: in the first slot of each inode, not in the places after it.
Redirects(f, g, b, dest) ==
  /\ \A h \in Places : At(f, h) # b => At(g, h) = At(f, h)
  /\ \A h \in Places :
       At(f, h) = b /\ (\A p \in 0 .. h[2] - 1 : At(f, <<h[1], p>>) # b) => At(g, h) = dest

LEMMA RedirectedIs ==
  ASSUME NEW f \in FsRecord, NEW b, NEW dest \in Blocks
  PROVE  LET g == Redirected(f, b, dest) IN
         /\ g = [f EXCEPT !.inode = g.inode] /\ g.inode \in [Inodes -> Inode]
         /\ SameKinds(f, g) /\ Redirects(f, g, b, dest)
<1> DEFINE g == Redirected(f, b, dest)
           S(i) == SlotsWith(f, i, b)
           nd(i) == [f.inode[i] EXCEPT !.blocks[Min(S(i))] = dest]
<1>1. f.inode \in [Inodes -> Inode]
  BY FieldTypes
<1>2. /\ g = [f EXCEPT !.inode = g.inode]
      /\ g.inode = [i \in Inodes |-> IF S(i) = {} THEN f.inode[i] ELSE nd(i)]
  BY DEF Redirected, FsRecord, SlotsWith
<1>3. ASSUME NEW i \in Inodes, S(i) # {}
      PROVE  /\ Min(S(i)) \in S(i) /\ nd(i) \in Inode /\ nd(i).type = f.inode[i].type
             /\ nd(i).size = f.inode[i].size /\ nd(i).blocks[Min(S(i))] = dest
             /\ \A q \in Slots : q # Min(S(i)) => nd(i).blocks[q] = f.inode[i].blocks[q]
  <2>1. PICK q \in Slots : b = At(f, <<i, q>>)
    BY <1>3, PlaceParts DEF SlotsWith
  <2>2. Min(S(i)) \in S(i)
    BY <2>1, SlotOf
  <2> DEFINE x == Min(S(i))
  <2>3. x \in Slots
    BY <2>1, SlotOf
  <2> HIDE DEF x
  <2> QED
    BY <1>1, <2>2, <2>3 DEF Inode, x
<1> HIDE DEF nd
<1>4. ASSUME NEW i \in Inodes PROVE g.inode[i] = IF S(i) = {} THEN f.inode[i] ELSE nd(i)
  BY <1>2
<1>5. g.inode \in [Inodes -> Inode]
  BY <1>1, <1>2, <1>3
<1>6. SameKinds(f, g)
  BY <1>3, <1>4 DEF SameKinds
<1> HIDE DEF g
<1>7. ASSUME NEW i \in Inodes, NEW q \in Slots, f.inode[i].blocks[q] # b
      PROVE  g.inode[i].blocks[q] = f.inode[i].blocks[q]
  <2>1. q \notin S(i)
    BY <1>7 DEF SlotsWith
  <2> HIDE DEF S
  <2> QED
    BY <1>3, <1>4, <2>1
<1>8. ASSUME NEW i \in Inodes, NEW q \in Slots, f.inode[i].blocks[q] = b,
             \A p \in 0 .. q - 1 : f.inode[i].blocks[p] # b
      PROVE  g.inode[i].blocks[q] = dest
  <2>1. q \in S(i)
    BY <1>8 DEF SlotsWith
  <2>2. Min(S(i)) = q
    <3>1. b = At(f, <<i, q>>) /\ \A p \in 0 .. q - 1 : At(f, <<i, p>>) # b
      BY <1>8, PlaceParts
    <3> QED
      BY <3>1, SlotOf
  <2> HIDE DEF S
  <2> QED
    BY <1>3, <1>4, <2>1, <2>2
<1>9. Redirects(f, g, b, dest)
  <2>1. ASSUME NEW h \in Places
        PROVE  /\ At(f, h) # b => At(g, h) = At(f, h)
               /\ At(f, h) = b /\ (\A p \in 0 .. h[2] - 1 : At(f, <<h[1], p>>) # b) => At(g, h) = dest
    <3>1. h[1] \in Inodes /\ h[2] \in Slots
      BY PlaceParts
    <3> DEFINE i == h[1]
               q == h[2]
    <3>2. /\ At(f, h) = f.inode[i].blocks[q] /\ At(g, h) = g.inode[i].blocks[q]
          /\ \A p : At(f, <<i, p>>) = f.inode[i].blocks[p]
      BY DEF At
    <3> HIDE DEF i, q
    <3>3. i \in Inodes /\ q \in Slots
      BY <3>1 DEF i, q
    <3>4. At(f, h) # b => At(g, h) = At(f, h)
      BY <1>7, <3>2, <3>3
    <3>5. At(f, h) = b /\ (\A p \in 0 .. q - 1 : At(f, <<i, p>>) # b) => At(g, h) = dest
      BY <1>8, <3>2, <3>3
    <3> QED
      BY <3>4, <3>5 DEF i, q
  <2> QED
    BY <2>1 DEF Redirects
<1> QED
  BY <1>2, <1>5, <1>6, <1>9 DEF g

LEMMA MovedBlockTyped ==
  ASSUME NEW f \in FsRecord, NEW b, NEW dest \in Blocks
  PROVE  LET g == MovedBlock(f, b, dest) IN
         /\ g \in FsRecord /\ SameFiles(f, g) /\ Redirects(f, g, b, dest)
         /\ g.refs = f.refs /\ g.bmap = f.bmap \cup {dest}
         /\ \A c \in Blocks \ {dest} : g.mem[c] = f.mem[c]
<1> DEFINE r == Redirected(f, b, dest)
           g == MovedBlock(f, b, dest)
           x == IF f.mem[b] = Whole(Page) THEN f.mem[dest] ELSE Whole(Junk)
<1>1. r = [f EXCEPT !.inode = r.inode] /\ r.inode \in [Inodes -> Inode]
  BY RedirectedIs
<1>2. SameKinds(f, r) /\ Redirects(f, r, b, dest)
  BY RedirectedIs
<1> DEFINE nd == r.inode
<1>3. /\ f.used \in SUBSET Inodes /\ f.bmap \in SUBSET Blocks /\ f.refs \in [Blocks -> Nat]
      /\ f.entries \in [Inodes -> Seq([name : Names, inode : Inodes])]
      /\ f.mem \in [Blocks -> [Units -> Contained]]
  BY FieldTypes
<1>4. x \in [Units -> Contained]
  BY <1>3 DEF Whole, Contained
<1>5. g = [r EXCEPT !.mem[dest] = IF f.mem[b] = Whole(Page) THEN @ ELSE Whole(Junk), !.bmap = @ \cup {dest}]
  BY DEF MovedBlock
<1> HIDE DEF g, r
<1>6. /\ r.used = f.used /\ r.entries = f.entries /\ r.refs = f.refs /\ r.bmap = f.bmap /\ r.mem = f.mem
      /\ r \in FsRecord
  <2> HIDE DEF x
  <2>1. r = [f EXCEPT !.inode = nd] /\ nd \in [Inodes -> Inode]
    BY <1>1
  <2> HIDE DEF nd
  <2> QED
    BY <2>1 DEF FsRecord
<1>7. /\ g.inode = r.inode /\ g.used = f.used /\ g.entries = f.entries /\ g.refs = f.refs
      /\ g.bmap = f.bmap \cup {dest} /\ g.mem = [f.mem EXCEPT ![dest] = x]
      /\ g = [r EXCEPT !.mem = g.mem, !.bmap = g.bmap]
  BY <1>5, <1>6 DEF FsRecord
<1> HIDE DEF nd, x
<1>8. g.mem \in [Blocks -> [Units -> Contained]] /\ g.bmap \in SUBSET Blocks
  BY <1>3, <1>4, <1>7
<1>9. g \in FsRecord
  BY <1>6, <1>7, <1>8 DEF FsRecord, Contained
<1>10. SameFiles(f, g)
  BY <1>2, <1>7 DEF SameFiles, SameKinds, Untouched
<1>11. Redirects(f, g, b, dest)
  BY <1>2, <1>7 DEF Redirects, At
<1>12. \A c \in Blocks \ {dest} : g.mem[c] = f.mem[c]
  BY <1>3, <1>7
<1> QED
  BY <1>7, <1>9, <1>10, <1>11, <1>12 DEF g

\* The slots before a page of a directory hold its other pages.
Follows(h, P) == \A p \in 0 .. h[2] - 1 : <<h[1], p>> \in P

HasMoved(g, f, H, P, X, h, dest) ==
  /\ Held(g, H, P, (X \ {dest}) \cup {At(f, h)}) /\ SameCells(f, g, H)
  /\ \A k \in (H \cup P) \ {h} : At(g, k) = At(f, k)

\* A page goes to a block that is free or kept apart; the block it leaves is kept apart.
LEMMA MovedBlockFile ==
  ASSUME NEW f \in FsRecord, NEW H, NEW P, NEW X, Held(f, H, P, X), NEW h \in P, Follows(h, P),
         NEW dest \in Blocks, dest \notin f.bmap \/ dest \in X
  PROVE  HasMoved(MovedBlock(f, At(f, h), dest), f, H, P, X, h, dest)
<1> DEFINE b == At(f, h)
           g == MovedBlock(f, b, dest)
           Y == (X \ {dest}) \cup {b}
<1>1. /\ H \in SUBSET Places /\ P \in SUBSET Places /\ H \cap P = {} /\ CountsAreExact(f, H)
      /\ \A k \in H \cup P : At(f, k) \in Blocks \ X
      /\ \A c \in Blocks : c \in f.bmap <=> (c \in X \/ \E k \in H \cup P : At(f, k) = c)
      /\ \A k \in P, m \in H \cup P : At(f, m) = At(f, k) => m = k
  BY DEF Held, BitmapIsExact
<1>2. b \in Blocks \ X /\ b \in f.bmap /\ h \in Places /\ b # dest
  BY <1>1
<1>3. \A k \in H \cup P : At(f, k) # dest /\ (k # h => At(f, k) # b)
  BY <1>1
<1>4. /\ Redirects(f, g, b, dest) /\ g.refs = f.refs /\ g.bmap = f.bmap \cup {dest}
      /\ \A c \in Blocks \ {dest} : g.mem[c] = f.mem[c]
  BY MovedBlockTyped
<1> HIDE DEF b, g
<1>5. \A k \in (H \cup P) \ {h} : At(g, k) = At(f, k)
  BY <1>1, <1>3, <1>4 DEF Redirects
<1>6. At(g, h) = dest
  <2>1. \A p \in 0 .. h[2] - 1 : At(f, <<h[1], p>>) # b
    <3> SUFFICES ASSUME NEW p \in 0 .. h[2] - 1 PROVE At(f, <<h[1], p>>) # b
      OBVIOUS
    <3>1. <<h[1], p>> \in P
      BY DEF Follows
    <3>2. h[2] \in Nat
      BY <1>2, PlaceParts, Constants
    <3>3. <<h[1], p>> # h
      BY <3>2, <1>2, PlaceParts
    <3> QED
      BY <1>3, <3>1, <3>3
  <2>2. At(f, h) = b
    BY DEF b
  <2> QED
    BY <1>2, <1>4, <2>1, <2>2 DEF Redirects
<1>7. CountsAreExact(g, H)
  <2>1. h \notin H
    BY <1>1
  <2>2. \A k \in H : At(g, k) = At(f, k)
    BY <1>5, <2>1
  <2>3. \A c \in Blocks : Holders(g, H, c) = Holders(f, H, c)
    BY <2>2 DEF Holders
  <2> QED
    BY <1>1, <1>4, <2>3 DEF CountsAreExact
<1>8. BitmapIsExact(g, H, P, Y)
  <2>1. \A k \in H \cup P : At(g, k) \in Blocks \ Y
    BY <1>1, <1>2, <1>3, <1>5, <1>6
  <2>2. ASSUME NEW c \in Blocks
        PROVE  c \in g.bmap <=> (c \in Y \/ \E k \in H \cup P : At(g, k) = c)
    <3>1. CASE c = dest
      BY <1>4, <1>6, <3>1
    <3>2. CASE c = b
      BY <1>2, <1>4, <3>2
    <3>3. CASE c # dest /\ c # b
      <4>1. (\E k \in H \cup P : At(g, k) = c) <=> (\E k \in H \cup P : At(f, k) = c)
        <5>1. At(f, h) # c
          BY <3>3 DEF b
        <5> QED
          BY <1>5, <1>6, <3>3, <5>1
      <4> QED
        BY <1>1, <1>4, <3>3, <4>1
    <3> QED
      BY <3>1, <3>2, <3>3
  <2>3. \A k \in P, m \in H \cup P : At(g, m) = At(g, k) => m = k
    <3> SUFFICES ASSUME NEW k \in P, NEW m \in H \cup P, At(g, m) = At(g, k) PROVE m = k
      OBVIOUS
    <3>1. CASE k # h /\ m # h
      BY <1>1, <1>5, <3>1
    <3>2. CASE k = h /\ m # h
      BY <1>3, <1>5, <1>6, <3>2
    <3>3. CASE k # h /\ m = h
      BY <1>3, <1>5, <1>6, <3>3
    <3> QED
      BY <3>1, <3>2, <3>3
  <2> QED
    BY <2>1, <2>2, <2>3 DEF BitmapIsExact
<1>9. SameCells(f, g, H)
  BY <1>1, <1>3, <1>4, <1>5 DEF SameCells, Cell
<1>10. Held(g, H, P, Y)
  BY <1>1, <1>7, <1>8 DEF Held
<1> QED
  BY <1>5, <1>9, <1>10 DEF HasMoved, g, b

Freed(f, b) == [f EXCEPT !.bmap = @ \ {b}]

\* A block kept apart is given back.
LEMMA FreedFile ==
  ASSUME NEW f \in FsRecord, NEW b
  PROVE  LET g == Freed(f, b) IN
         /\ g \in FsRecord /\ SameFiles(f, g) /\ (\A K : SameCells(f, g, K))
         /\ \A H, P, X : Held(f, H, P, X) /\ b \in X => Held(g, H, P, X \ {b})
<1> DEFINE g == Freed(f, b)
<1>1. /\ g \in FsRecord /\ g.used = f.used /\ g.entries = f.entries /\ g.inode = f.inode
      /\ g.refs = f.refs /\ g.mem = f.mem /\ g.bmap = f.bmap \ {b}
  BY DEF FsRecord, Freed
<1> HIDE DEF g
<1>2. \A h : At(g, h) = At(f, h)
  BY <1>1 DEF At
<1>3. SameFiles(f, g) /\ \A K : SameCells(f, g, K)
  BY <1>1, <1>2 DEF SameFiles, SameKinds, Untouched, SameCells, Cell
<1>4. ASSUME NEW H, NEW P, NEW X, Held(f, H, P, X), b \in X PROVE Held(g, H, P, X \ {b})
  <2>1. CountsAreExact(g, H)
    BY <1>1, <1>2, <1>4 DEF Held, CountsAreExact, Holders
  <2>2. BitmapIsExact(g, H, P, X \ {b})
    BY <1>1, <1>2, <1>4 DEF Held, BitmapIsExact
  <2> QED
    BY <1>4, <2>1, <2>2 DEF Held
<1> QED
  BY <1>1, <1>3, <1>4 DEF g

LEMMA SameFilesThen ==
  ASSUME NEW f, NEW g, NEW h, SameFiles(f, g), SameFiles(g, h)
  PROVE  SameFiles(f, h)
BY DEF SameFiles, SameKinds, Untouched

\* Where mexeBlocoPara puts what was at the destination.
Spare(f) == IF FreeBlocks(f) = {} THEN 9 ELSE Max(FreeBlocks(f))
Cleared(f, dest) == IF dest \in f.bmap THEN MovedBlock(f, dest, Spare(f)) ELSE f

LEMMA MovedIs ==
  ASSUME NEW f, NEW b, NEW dest
  PROVE  Moved(f, b, dest) = Freed(MovedBlock(Cleared(f, dest), b, dest), b)
BY DEF Moved, Freed, Cleared, Spare

LEMMA SpareIs ==
  ASSUME NEW f
  PROVE  /\ Spare(f) \in Blocks
         /\ FreeBlocks(f) # {} => Spare(f) \notin f.bmap
<1>1. CASE FreeBlocks(f) = {}
  BY <1>1, Constants DEF Spare
<1>2. CASE FreeBlocks(f) # {}
  <2>1. Max(FreeBlocks(f)) \in FreeBlocks(f)
    BY <1>2, FirstFree
  <2> QED
    BY <1>2, <2>1 DEF Spare, FreeBlocks
<1> QED
  BY <1>1, <1>2

LEMMA MovedTyped ==
  ASSUME NEW f \in FsRecord, NEW b, NEW dest \in Blocks
  PROVE  LET c == Cleared(f, dest)
             m == MovedBlock(c, b, dest)
             g == Moved(f, b, dest)
         IN  /\ c \in FsRecord /\ SameFiles(f, c) /\ m \in FsRecord /\ SameFiles(f, m)
             /\ g \in FsRecord /\ SameFiles(f, g)
<1> DEFINE c == Cleared(f, dest)
           m == MovedBlock(c, b, dest)
           g == Moved(f, b, dest)
<1>1. c \in FsRecord /\ SameFiles(f, c)
  <2>1. Spare(f) \in Blocks
    BY SpareIs
  <2>2. SameFiles(f, f)
    BY DEF SameFiles, SameKinds, Untouched
  <2>3. LET r == MovedBlock(f, dest, Spare(f)) IN r \in FsRecord /\ SameFiles(f, r)
    BY <2>1, MovedBlockTyped
  <2> QED
    BY <2>2, <2>3 DEF Cleared
<1> HIDE DEF c
<1>2. m \in FsRecord /\ SameFiles(f, m)
  BY <1>1, MovedBlockTyped, SameFilesThen
<1>3. g = Freed(m, b)
  BY MovedIs DEF c
<1> HIDE DEF m
<1>4. g \in FsRecord /\ SameFiles(f, g)
  BY <1>2, <1>3, FreedFile, SameFilesThen
<1> QED
  BY <1>1, <1>2, <1>4 DEF m, c

\* The blocks of directories are those of their pages.
LEMMA PagesAre ==
  ASSUME NEW f \in FsRecord, NamesAreExact(f)
  PROVE  /\ \A b \in DirectoryBlocks(f) : \E h \in PagePlaces(f) : At(f, h) = b
         /\ \A h \in PagePlaces(f) : Follows(h, PagePlaces(f))
<1>1. ASSUME NEW d \in f.used, f.inode[d].type = "dir", NEW q \in ToSet(UsedSlots(f, d))
      PROVE  \E h \in PagePlaces(f) : At(f, h) = f.inode[d].blocks[q]
  <2>1. d \in Inodes
    BY FieldTypes
  <2> DEFINE u == InBlocks(Size(f, d))
  <2>2. u \in 0 .. NumSlots
    BY <2>1, SizeBound
  <2>3. q \in 0 .. u - 1
    BY <1>1, <2>2, UsedSlotsAre
  <2>4. q \in Slots /\ q < u
    BY <2>2, <2>3, Constants
  <2>5. <<d, q>> \in PagePlaces(f)
    BY <1>1, <2>1, <2>4, PlacesOf DEF InUse
  <2> QED
    BY <2>5, PlaceParts
<1>2. ASSUME NEW h \in PagePlaces(f), NEW p \in 0 .. h[2] - 1
      PROVE  <<h[1], p>> \in PagePlaces(f)
  <2>1. h \in Places /\ h[1] \in Inodes /\ h[2] \in Slots /\ h = <<h[1], h[2]>>
    BY PlacesApart, PlaceParts
  <2> DEFINE i == h[1]
             q == h[2]
             u == InBlocks(Size(f, i))
  <2>2. u \in 0 .. NumSlots
    BY <2>1, SizeBound
  <2>3. InUse(f, i, "dir") /\ q < u
    BY <2>1, PlacesOf
  <2> HIDE DEF u
  <2>4. p \in Slots /\ p < u
    BY <2>1, <2>2, <2>3, Constants
  <2> QED
    BY <2>1, <2>3, <2>4, PlacesOf DEF u
<1> QED
  BY <1>1, <1>2 DEF DirectoryBlocks, Follows

\* The same files in the same state, their blocks and those of the directories elsewhere.
Rearranged(f, g) ==
  /\ g \in FsRecord /\ SameFiles(f, g) /\ Sound(g) /\ SameCells(f, g, FilePlaces(f))
  /\ FilePlaces(g) = FilePlaces(f) /\ PagePlaces(g) = PagePlaces(f)

LEMMA RearrangedIs ==
  ASSUME NEW f \in FsRecord, NEW g \in FsRecord, SameFiles(f, g), Sound(f),
         Held(g, FilePlaces(f), PagePlaces(f), {9}), SameCells(f, g, FilePlaces(f))
  PROVE  Rearranged(f, g)
<1>1. Sound(g)
  BY SoundKept
<1>2. ChangesFile(f, g, 0) /\ 0 \notin Inodes
  BY Constants DEF ChangesFile, SameFiles, SameKinds
<1>3. PagePlaces(g) = PagePlaces(f) /\ \A j \in Inodes : InUse(g, j, "file") <=> InUse(f, j, "file")
  BY <1>2, NamesKept
<1>4. FilePlaces(g) = FilePlaces(f)
  BY <1>3 DEF FilePlaces, SameFiles, SameKinds
<1> QED
  BY <1>1, <1>3, <1>4 DEF Rearranged

LEMMA RearrangedThen ==
  ASSUME NEW f, NEW g, NEW h, Rearranged(f, g), Rearranged(g, h)
  PROVE  Rearranged(f, h)
BY SameFilesThen DEF Rearranged, SameCells

LEMMA MovedFile ==
  ASSUME NEW f \in FsRecord, Sound(f), NEW b, NEW dest \in Blocks \ {9}, b # dest, MoveIsSafe(f, b, dest)
  PROVE  Rearranged(f, Moved(f, b, dest))
<1> DEFINE H == FilePlaces(f)
           P == PagePlaces(f)
           c == Cleared(f, dest)
           m == MovedBlock(c, b, dest)
           g == Moved(f, b, dest)
<1>1. NamesAreExact(f) /\ Held(f, H, P, {9})
  BY DEF Sound
<1>2. /\ \E h \in P : At(f, h) = b
      /\ dest \in f.bmap => FreeBlocks(f) # {} /\ \E k \in P : At(f, k) = dest
      /\ \A k \in P : Follows(k, P)
  BY <1>1, PagesAre DEF MoveIsSafe
<1>3. c \in FsRecord /\ m \in FsRecord /\ g \in FsRecord /\ SameFiles(f, g)
  BY MovedTyped
<1>4. g = Freed(m, b)
  BY MovedIs
<1> HIDE DEF c, m, g, H, P
<1>5. PICK h \in P : At(f, h) = b
  BY <1>2
<1>6. /\ b \in Blocks \ {9} /\ h \notin H /\ 9 \in f.bmap
  BY <1>1, <1>5, Constants DEF Held, BitmapIsExact
<1> DEFINE Ready(X) == /\ Held(c, H, P, X) /\ SameCells(f, c, H) /\ At(c, h) = b
                       /\ dest \notin c.bmap \/ dest \in X
                       /\ X \ {dest} = {9}
<1>7. \E X : Ready(X)
  <2>1. CASE dest \notin f.bmap
    <3>1. c = f
      BY <2>1 DEF Cleared, c
    <3>2. SameCells(f, c, H)
      BY <3>1 DEF SameCells
    <3>3. Ready({9})
      BY <1>1, <1>5, <2>1, <3>1, <3>2
    <3> QED
      BY <3>3
  <2>2. CASE dest \in f.bmap
    <3>1. PICK k \in P : At(f, k) = dest
      BY <1>2, <2>2
    <3> DEFINE s == Spare(f)
    <3>2. s \in Blocks /\ s \notin f.bmap
      BY <1>2, <2>2, SpareIs
    <3>3. c = MovedBlock(f, At(f, k), s)
      BY <2>2, <3>1 DEF Cleared, c
    <3> HIDE DEF s
    <3>4. HasMoved(c, f, H, P, {9}, k, s)
      BY <1>1, <1>2, <3>2, <3>3, MovedBlockFile
    <3>5. Held(c, H, P, ({9} \ {s}) \cup {dest}) /\ SameCells(f, c, H)
      BY <3>1, <3>4 DEF HasMoved
    <3>6. ({9} \ {s}) \cup {dest} = {9, dest}
      BY <1>6, <3>2
    <3>7. At(c, h) = b
      BY <1>5, <3>1, <3>4 DEF HasMoved
    <3>8. Ready({9, dest})
      BY <3>5, <3>6, <3>7
    <3> QED
      BY <3>8
  <2> QED
    BY <2>1, <2>2
<1>8. PICK X : Ready(X)
  BY <1>7
<1>9. HasMoved(m, c, H, P, X, h, dest)
  <2>1. Held(c, H, P, X) /\ Follows(h, P) /\ (dest \notin c.bmap \/ dest \in X)
    BY <1>2, <1>8
  <2>2. m = MovedBlock(c, At(c, h), dest)
    BY <1>8 DEF m
  <2> HIDE DEF Ready
  <2> QED
    BY <1>3, <2>1, <2>2, MovedBlockFile
<1>10. Held(m, H, P, {9} \cup {b}) /\ SameCells(c, m, H)
  BY <1>8, <1>9 DEF HasMoved
<1>11. Held(g, H, P, {9}) /\ SameCells(m, g, H)
  <2>1. Held(g, H, P, ({9} \cup {b}) \ {b}) /\ SameCells(m, g, H)
    BY <1>3, <1>4, <1>10, FreedFile
  <2>2. ({9} \cup {b}) \ {b} = {9}
    BY <1>6
  <2> QED
    BY <2>1, <2>2
<1>12. SameCells(f, g, H)
  BY <1>8, <1>10, <1>11 DEF SameCells
<1>13. Rearranged(f, g)
  BY <1>3, <1>11, <1>12, RearrangedIs DEF H, P
<1> QED
  BY <1>13 DEF g

\* What fs_defrag carries from slot to slot: the record, the next block and the verdict.
Scan == [f : FsRecord, pos : Nat \ (0 .. 9), safe : BOOLEAN]

Scanned(f, s) ==
  s \in Scan /\ SameFiles(f, s.f) /\ (s.safe => Rearranged(f, s.f))

LEMMA VisitTyped ==
  ASSUME NEW s \in Scan, NEW i \in Inodes, NEW q \in Slots
  PROVE  LET t == Visit(s, <<i, q>>) IN
         /\ t \in Scan /\ SameFiles(s.f, t.f)
         /\ t.safe => s.safe
         /\ t.safe => t.f = s.f \/
              \E b, dest : /\ dest \in Blocks \ {9} /\ b # dest /\ MoveIsSafe(s.f, b, dest)
                           /\ t.f = Moved(s.f, b, dest)
<1> DEFINE t == Visit(s, <<i, q>>)
           b == At(s.f, <<i, q>>)
           g == Moved(s.f, b, s.pos)
           safe == MoveIsSafe(s.f, b, s.pos)
<1>1. s.f \in FsRecord /\ s.pos \in Nat /\ s.pos > 9 /\ s.safe \in BOOLEAN
  BY DEF Scan
<1>2. b \in Blocks \cup {0} /\ b \in Nat /\ (b \in Blocks => b <= LastBlock) /\ LastBlock \in Nat
  BY <1>1, FieldTypes, PlaceParts, Constants
<1>3. SameFiles(s.f, s.f) /\ safe \in BOOLEAN
  BY DEF SameFiles, SameKinds, Untouched, MoveIsSafe
<1>4. b = s.f.inode[i].blocks[q]
  BY PlaceParts
<1>5. t = CASE b < s.pos -> s
            [] b = s.pos -> [s EXCEPT !.pos = @ + 1]
            [] b > s.pos -> [f |-> g, pos |-> s.pos + 1, safe |-> s.safe /\ safe]
  BY <1>4 DEF Visit
<1> HIDE DEF t, b, g, safe
<1>6. CASE b < s.pos
  <2>1. t = s
    BY <1>1, <1>2, <1>5, <1>6
  <2> QED
    BY <1>3, <2>1 DEF t
<1>7. CASE b = s.pos
  <2>1. t = [s EXCEPT !.pos = @ + 1]
    BY <1>1, <1>2, <1>5, <1>7
  <2>2. t.f = s.f /\ t.safe = s.safe /\ t \in Scan
    BY <2>1 DEF Scan
  <2> QED
    BY <1>3, <2>2 DEF t
<1>8. CASE b > s.pos
  <2>1. t = [f |-> g, pos |-> s.pos + 1, safe |-> s.safe /\ safe]
    BY <1>1, <1>2, <1>5, <1>8
  <2>2. s.pos \in Blocks \ {9} /\ b # s.pos
    BY <1>1, <1>2, <1>8, Constants
  <2>3. g \in FsRecord /\ SameFiles(s.f, g)
    BY <1>1, <2>2, MovedTyped DEF g
  <2>4. t \in Scan
    BY <1>1, <1>3, <2>1, <2>3 DEF Scan
  <2>5. t.f = g /\ (t.safe => s.safe /\ safe)
    BY <1>1, <1>3, <2>1
  <2> QED
    BY <2>2, <2>3, <2>4, <2>5 DEF t, g, safe
<1> QED
  BY <1>1, <1>2, <1>6, <1>7, <1>8

LEMMA VisitScanned ==
  ASSUME NEW f \in FsRecord, NEW s, Scanned(f, s), NEW i \in Inodes, NEW q \in Slots
  PROVE  Scanned(f, Visit(s, <<i, q>>))
<1> DEFINE t == Visit(s, <<i, q>>)
<1>1. s \in Scan /\ SameFiles(f, s.f) /\ (s.safe => Rearranged(f, s.f)) /\ s.f \in FsRecord
  BY DEF Scanned, Scan
<1>2. /\ t \in Scan /\ SameFiles(s.f, t.f)
      /\ t.safe => s.safe
      /\ t.safe => t.f = s.f \/
           \E b, dest : /\ dest \in Blocks \ {9} /\ b # dest /\ MoveIsSafe(s.f, b, dest)
                        /\ t.f = Moved(s.f, b, dest)
  BY <1>1, VisitTyped
<1> HIDE DEF t
<1>3. SameFiles(f, t.f)
  BY <1>1, <1>2, SameFilesThen
<1>4. t.safe => Rearranged(f, t.f)
  <2> SUFFICES ASSUME t.safe, t.f # s.f PROVE Rearranged(f, t.f)
    BY <1>1, <1>2
  <2>1. PICK b, dest : /\ dest \in Blocks \ {9} /\ b # dest /\ MoveIsSafe(s.f, b, dest)
                       /\ t.f = Moved(s.f, b, dest)
    BY <1>2
  <2>2. Rearranged(f, s.f) /\ Sound(s.f)
    BY <1>1, <1>2 DEF Rearranged
  <2>3. Rearranged(s.f, t.f)
    BY <1>1, <2>1, <2>2, MovedFile
  <2> QED
    BY <2>2, <2>3, RearrangedThen
<1> QED
  BY <1>2, <1>3, <1>4 DEF Scanned, t

\* The slots of all the inodes, in order.
SlotNo(k) == <<(k - 1) \div NumSlots + 1, (k - 1) % NumSlots>>

LEMMA SlotNoIs ==
  ASSUME NEW k \in 1 .. NumInodes * NumSlots
  PROVE  \E i \in Inodes, q \in Slots : SlotNo(k) = <<i, q>>
<1> DEFINE d == (k - 1) \div NumSlots
           r == (k - 1) % NumSlots
<1>1. /\ NumInodes \in Nat /\ NumSlots \in Nat \ {0} /\ Inodes = 1 .. NumInodes
      /\ Slots = 0 .. NumSlots - 1
  BY Constants
<1>2. k - 1 \in Nat /\ k - 1 < NumInodes * NumSlots
  BY <1>1
<1>3. d \in Nat /\ r \in 0 .. NumSlots - 1 /\ k - 1 = d * NumSlots + r
  BY <1>1, <1>2, DivMod
<1>4. SlotNo(k) = <<d + 1, r>>
  BY DEF SlotNo
<1> HIDE DEF d, r
<1>5. ~(NumInodes <= d)
  <2> SUFFICES ASSUME NumInodes <= d PROVE FALSE
    OBVIOUS
  <2>1. NumInodes * NumSlots <= d * NumSlots
    BY <1>1, <1>3, TimesLess
  <2> QED
    BY <1>1, <1>2, <1>3, <2>1
<1>6. d + 1 \in Inodes /\ r \in Slots
  BY <1>1, <1>3, <1>5
<1> QED
  BY <1>4, <1>6

\* fs_defrag moves nothing but blocks, and while it is safe loses none.
LEMMA DefragmentedFile ==
  ASSUME NEW f \in FsRecord, Sound(f)
  PROVE  Scanned(f, Defragmented(f))
<1> DEFINE n == NumInodes * NumSlots
           seq == [k \in 1 .. n |-> <<(k - 1) \div NumSlots + 1, (k - 1) % NumSlots>>]
           a == [f |-> f, pos |-> 10, safe |-> TRUE]
           G == {s \in Scan : Scanned(f, s)}
           h == [p \in G \X (1 .. n) |-> Visit(p[1], SlotNo(p[2]))]
           R(it) == it = [s \in SUBSET DOMAIN seq |->
                            IF s = {} THEN a ELSE Visit(it[s \ {Max(s)}], seq[Max(s)])]
           iter == CHOOSE it : R(it)
<1>1. n \in Nat
  BY Constants
<1>2. DOMAIN seq = 1 .. n /\ \A k \in 1 .. n : seq[k] = SlotNo(k)
  BY DEF SlotNo
<1>3. Defragmented(f) = iter[1 .. n]
  BY <1>2 DEF Defragmented, FoldLeft, MapThenFoldSet
<1> HIDE DEF seq
<1>4. a \in G
  <2>1. SameFiles(f, f) /\ SameCells(f, f, FilePlaces(f))
    BY DEF SameFiles, SameKinds, Untouched, SameCells
  <2>2. a \in Scan
    BY DEF Scan
  <2> QED
    BY <2>1, <2>2 DEF Scanned, Rearranged
<1> HIDE DEF n, a
<1>5. ASSUME NEW s \in G, NEW k \in 1 .. n PROVE Visit(s, SlotNo(k)) \in G
  <2>1. PICK i \in Inodes, q \in Slots : SlotNo(k) = <<i, q>>
    BY SlotNoIs DEF n
  <2>2. Scanned(f, s)
    OBVIOUS
  <2>3. Scanned(f, Visit(s, SlotNo(k)))
    BY <2>1, <2>2, VisitScanned
  <2> QED
    BY <2>3 DEF Scanned
<1>6. h \in [G \X (1 .. n) -> G] /\ \A s \in G, k \in 1 .. n : h[<<s, k>>] = Visit(s, SlotNo(k))
  BY <1>5
<1> HIDE DEF h
<1>7. \A s \in G, k \in 1 .. n : h[<<s, k>>] = Visit(s, seq[k])
  BY <1>2, <1>6
<1> HIDE DEF G
<1>8. R(iter)
  <2>1. PICK it : Total(it, G, n) /\ Iterates(it, G, n, a, h)
    BY <1>1, <1>4, <1>6, FoldExists
  <2>2. it = [s \in SUBSET (1 .. n) |-> it[s]] /\ it[{}] = a
    BY <2>1 DEF Total, Iterates
  <2>3. ASSUME NEW s \in SUBSET (1 .. n), s # {}
        PROVE  it[s] = Visit(it[s \ {Max(s)}], seq[Max(s)])
    <3>1. /\ Max(s) \in 1 .. n /\ it[s \ {Max(s)}] \in G
          /\ it[s] = h[<<it[s \ {Max(s)}], Max(s)>>]
      BY <2>1, <2>3 DEF Total, Iterates
    <3> QED
      BY <1>7, <3>1
  <2>4. R(it)
    BY <1>2, <2>2, <2>3
  <2> QED
    BY <2>4
<1>9. Iterates(iter, G, n, a, h)
  <2> HIDE DEF iter
  <2>1. iter[{}] = a
    BY <1>2, <1>8
  <2>2. ASSUME NEW s \in SUBSET (1 .. n), s # {}, Max(s) \in 1 .. n, iter[s \ {Max(s)}] \in G
        PROVE  iter[s] = h[<<iter[s \ {Max(s)}], Max(s)>>]
    <3>1. iter[s] = Visit(iter[s \ {Max(s)}], seq[Max(s)])
      BY <1>2, <1>8, <2>2
    <3> QED
      BY <1>7, <2>2, <3>1
  <2> QED
    BY <2>1, <2>2 DEF Iterates
<1> HIDE DEF iter
<1>10. Runs(iter[1 .. n], G, n, a, h)
  BY <1>1, <1>4, <1>6, <1>9, FoldSteps
<1>11. iter[1 .. n] \in G
  BY <1>1, <1>10 DEF Runs
<1> QED
  BY <1>3, <1>11 DEF G

-----------------------------------------------------------------------------
(* Names                                                                   *)

LEMMA EntryTypes ==
  ASSUME NEW f \in FsRecord, NEW d \in Inodes
  PROVE  /\ f.entries[d] \in Seq([name : Names, inode : Inodes])
         /\ Len(f.entries[d]) \in Nat /\ DOMAIN f.entries[d] = 1 .. Len(f.entries[d])
         /\ \A k \in DOMAIN f.entries[d] : f.entries[d][k] \in [name : Names, inode : Inodes]
<1> DEFINE s == f.entries[d]
           E == [name : Names, inode : Inodes]
<1>1. s \in Seq(E)
  BY FieldTypes
<1> HIDE DEF s, E
<1>2. Len(s) \in Nat /\ DOMAIN s = 1 .. Len(s) /\ \A k \in DOMAIN s : s[k] \in E
  BY <1>1
<1> QED
  BY <1>1, <1>2 DEF s, E

LEMMA LookupIs ==
  ASSUME NEW f \in FsRecord, NEW d \in Inodes, NEW n
  PROVE  /\ Lookup(f, d, n) \in Inodes \cup {0} /\ 0 \notin Inodes
         /\ Lookup(f, d, n) = 0 <=> \A k \in DOMAIN f.entries[d] : f.entries[d][k].name # n
         /\ Lookup(f, d, n) # 0 =>
              \E k \in DOMAIN f.entries[d] :
                f.entries[d][k].name = n /\ f.entries[d][k].inode = Lookup(f, d, n)
<1> DEFINE s == f.entries[d]
           I == {k \in 1 .. Len(s) : s[k].name = n}
           k0 == Min(I)
<1>1. Len(s) \in Nat /\ DOMAIN s = 1 .. Len(s) /\ \A k \in DOMAIN s : s[k].inode \in Inodes
  BY EntryTypes
<1>2. 0 \notin Inodes
  BY Constants
<1>3. Lookup(f, d, n) = IF (IF I # {} THEN k0 ELSE 0) = 0 THEN 0 ELSE s[IF I # {} THEN k0 ELSE 0].inode
  BY DEF Lookup, SelectInSeq
<1>4. I # {} => k0 \in I
  <2> SUFFICES ASSUME I # {} PROVE k0 \in I
    OBVIOUS
  <2>1. I \subseteq Nat
    BY <1>1
  <2> HIDE DEF I
  <2>2. \E x \in I : \A y \in I : x <= y
    BY <2>1, LeastNat
  <2> QED
    BY <2>2 DEF Min
<1> HIDE DEF s, k0
<1>5. CASE I = {}
  BY <1>1, <1>2, <1>3, <1>5 DEF s
<1>6. CASE I # {}
  <2>1. k0 \in DOMAIN s /\ k0 # 0 /\ s[k0].name = n
    BY <1>1, <1>4, <1>6
  <2>2. Lookup(f, d, n) = s[k0].inode
    BY <1>3, <1>6, <2>1
  <2> QED
    BY <1>1, <1>2, <2>1, <2>2 DEF s
<1> QED
  BY <1>5, <1>6

\* A name leads to the one entry that has it.
LEMMA LookupExact ==
  ASSUME NEW f \in FsRecord, NamesAreExact(f), NEW d \in Inodes, InUse(f, d, "dir"),
         NEW k \in DOMAIN f.entries[d]
  PROVE  /\ Lookup(f, d, f.entries[d][k].name) = f.entries[d][k].inode
         /\ f.entries[d][k].inode \in f.used \ {Root}
<1> DEFINE n == f.entries[d][k].name
<1>1. Lookup(f, d, n) # 0
  BY LookupIs
<1>2. PICK l \in DOMAIN f.entries[d] :
        f.entries[d][l].name = n /\ f.entries[d][l].inode = Lookup(f, d, n)
  BY <1>1, LookupIs
<1>3. d \in f.used /\ f.inode[d].type = "dir"
  BY DEF InUse
<1>4. k # l => f.entries[d][k].name # f.entries[d][l].name
  BY <1>3 DEF NamesAreExact
<1>5. f.entries[d][k].inode \in f.used \ {Root}
  BY <1>3 DEF NamesAreExact
<1> QED
  BY <1>2, <1>4, <1>5

\* What a name leads to is in use.
LEMMA LookupUsed ==
  ASSUME NEW f \in FsRecord, NamesAreExact(f), NEW d \in Inodes, InUse(f, d, "dir"), NEW n,
         Lookup(f, d, n) # 0
  PROVE  /\ Lookup(f, d, n) \in f.used \ {Root} /\ Lookup(f, d, n) \in Inodes
         /\ f.inode[Lookup(f, d, n)].type \in {"file", "dir"} /\ f.entries[d] # <<>>
<1> DEFINE x == Lookup(f, d, n)
<1>1. PICK k \in DOMAIN f.entries[d] : f.entries[d][k].name = n /\ f.entries[d][k].inode = x
  BY LookupIs
<1>2. x \in f.used \ {Root}
  BY <1>1, LookupExact
<1>3. x \in Inodes
  BY <1>2, FieldTypes
<1>4. f.inode[x].type # "none" /\ f.inode[x].type \in {"none", "file", "dir"}
  BY <1>2, <1>3, FieldTypes DEF NamesAreExact
<1>5. f.entries[d] # <<>>
  BY <1>1, EntryTypes
<1> QED
  BY <1>2, <1>3, <1>4, <1>5

LEMMA FirstUnused ==
  ASSUME NEW f, Inodes \ f.used # {}
  PROVE  Min(Inodes \ f.used) \in Inodes \ f.used
<1> DEFINE S == Inodes \ f.used
<1>1. S \subseteq Nat /\ S # {}
  BY Constants
<1> HIDE DEF S
<1>2. \E x \in S : \A y \in S : x <= y
  BY <1>1, LeastNat
<1>3. Min(S) \in S
  BY <1>2 DEF Min
<1> QED
  BY <1>3 DEF S

WithInode(f, d, q, b, i, type) == [f.inode EXCEPT ![d].blocks[q] = b, ![i] = FreshInode(type)]
WithEntry(f, d, n, i) ==
  [f.entries EXCEPT ![d] = Append(f.entries[d], [name |-> n, inode |-> i]), ![i] = <<>>]

\* What fs_create does with inode i, slot q of the directory and block b.
CreatedAt(f, d, n, type, i, q, b) ==
  [f EXCEPT !.used = @ \cup {i}, !.bmap = @ \cup {b}, !.mem[b] = Whole(Page),
            !.inode = WithInode(f, d, q, b, i, type), !.entries = WithEntry(f, d, n, i)]

LEMMA WithInodeIs ==
  ASSUME NEW f \in FsRecord, NEW d \in Inodes, NEW q \in Slots, NEW b \in Blocks,
         NEW i \in Inodes \ {d}, NEW type \in {"none", "file", "dir"}
  PROVE  LET g == WithInode(f, d, q, b, i, type) IN
         /\ g \in [Inodes -> Inode]
         /\ g[i].type = type /\ g[i].size = 0
         /\ \A j \in Inodes \ {i} : g[j].type = f.inode[j].type /\ g[j].size = f.inode[j].size
         /\ g[d].blocks[q] = b
         /\ \A j \in Inodes \ {i}, p \in Slots : <<j, p>> # <<d, q>> => g[j].blocks[p] = f.inode[j].blocks[p]
<1> DEFINE g == WithInode(f, d, q, b, i, type)
           nd == [f.inode[d] EXCEPT !.blocks[q] = b]
           ni == FreshInode(type)
<1>1. f.inode \in [Inodes -> Inode] /\ f.inode[d] \in Inode
  BY FieldTypes
<1>2. /\ nd \in Inode /\ nd.type = f.inode[d].type /\ nd.size = f.inode[d].size /\ nd.blocks[q] = b
      /\ \A p \in Slots \ {q} : nd.blocks[p] = f.inode[d].blocks[p]
  BY <1>1 DEF Inode
<1>3. ni \in Inode /\ ni.type = type /\ ni.size = 0
  <2>1. 0 \in 0 .. NumSlots * BlockUnits
    BY Constants
  <2> QED
    BY <2>1 DEF FreshInode, Inode
<1>4. g = [f.inode EXCEPT ![d] = nd, ![i] = ni]
  BY DEF WithInode
<1> HIDE DEF g, nd, ni
<1>5. /\ g \in [Inodes -> Inode] /\ g[i] = ni /\ g[d] = nd
      /\ \A j \in Inodes \ {i, d} : g[j] = f.inode[j]
  BY <1>1, <1>2, <1>3, <1>4
<1>6. \A j \in Inodes \ {i} : g[j].type = f.inode[j].type /\ g[j].size = f.inode[j].size
  BY <1>2, <1>5
<1>7. ASSUME NEW j \in Inodes \ {i}, NEW p \in Slots, <<j, p>> # <<d, q>>
      PROVE  g[j].blocks[p] = f.inode[j].blocks[p]
  <2>1. CASE j = d
    BY <1>2, <1>5, <1>7, <2>1
  <2>2. CASE j # d
    BY <1>5, <2>2
  <2> QED
    BY <2>1, <2>2
<1> QED
  BY <1>2, <1>3, <1>5, <1>6, <1>7 DEF g

LEMMA WithEntryIs ==
  ASSUME NEW f \in FsRecord, NEW d \in Inodes, NEW n \in Names, NEW i \in Inodes \ {d}
  PROVE  LET g == WithEntry(f, d, n, i)
             l == Len(f.entries[d]) + 1
         IN  /\ g \in [Inodes -> Seq([name : Names, inode : Inodes])]
             /\ g[i] = <<>> /\ Len(g[d]) = l /\ DOMAIN g[d] = 1 .. l
             /\ g[d][l].name = n /\ g[d][l].inode = i
             /\ \A k \in DOMAIN f.entries[d] : k # l /\ g[d][k] = f.entries[d][k]
             /\ \A j \in Inodes \ {d, i} : g[j] = f.entries[j]
             /\ DOMAIN g[d] = DOMAIN f.entries[d] \cup {l}
<1> DEFINE g == WithEntry(f, d, n, i)
           E == [name : Names, inode : Inodes]
           s == f.entries[d]
           e == [name |-> n, inode |-> i]
           t == Append(s, e)
<1>1. f.entries \in [Inodes -> Seq(E)]
  BY FieldTypes
<1>2. s \in Seq(E) /\ Len(s) \in Nat /\ DOMAIN s = 1 .. Len(s)
  BY EntryTypes
<1>3. e \in E /\ e.name = n /\ e.inode = i
  OBVIOUS
<1>4. g = [f.entries EXCEPT ![d] = t, ![i] = <<>>]
  BY DEF WithEntry
<1> HIDE DEF g, E, s, e
<1>5. /\ t \in Seq(E) /\ Len(t) = Len(s) + 1 /\ DOMAIN t = 1 .. Len(s) + 1 /\ t[Len(s) + 1] = e
      /\ \A k \in 1 .. Len(s) : t[k] = s[k]
  BY <1>2, <1>3
<1> HIDE DEF t
<1>6. /\ g \in [Inodes -> Seq(E)] /\ g[i] = <<>> /\ g[d] = t
      /\ \A j \in Inodes \ {d, i} : g[j] = f.entries[j]
  <2>1. <<>> \in Seq(E)
    OBVIOUS
  <2> QED
    BY <1>1, <1>4, <1>5, <2>1
<1>7. 1 .. Len(s) + 1 = 1 .. Len(s) \cup {Len(s) + 1} /\ \A k \in 1 .. Len(s) : k # Len(s) + 1
  BY <1>2
<1> QED
  BY <1>2, <1>3, <1>5, <1>6, <1>7 DEF g, E, s

LEMMA CreatedTyped ==
  ASSUME NEW f \in FsRecord, NEW d \in Inodes, NEW n \in Names, NEW type \in {"file", "dir"},
         NEW i \in Inodes \ {d}, NEW q \in Slots, NEW b \in Blocks
  PROVE  LET g == CreatedAt(f, d, n, type, i, q, b) IN
         /\ g \in FsRecord /\ g.used = f.used \cup {i} /\ g.bmap = f.bmap \cup {b} /\ g.refs = f.refs
         /\ \A c \in Blocks \ {b} : g.mem[c] = f.mem[c]
         /\ g.inode = WithInode(f, d, q, b, i, type) /\ g.entries = WithEntry(f, d, n, i)
<1> DEFINE g == CreatedAt(f, d, n, type, i, q, b)
           nd == WithInode(f, d, q, b, i, type)
           en == WithEntry(f, d, n, i)
<1>1. nd \in [Inodes -> Inode]
  BY WithInodeIs
<1>2. en \in [Inodes -> Seq([name : Names, inode : Inodes])]
  BY WithEntryIs
<1>3. /\ f.used \in SUBSET Inodes /\ f.bmap \in SUBSET Blocks /\ f.mem \in [Blocks -> [Units -> Contained]]
  BY FieldTypes
<1> HIDE DEF nd, en
<1>4. g = [f EXCEPT !.used = @ \cup {i}, !.bmap = @ \cup {b}, !.mem[b] = Whole(Page), !.inode = nd, !.entries = en]
  BY DEF CreatedAt, nd, en
<1> HIDE DEF g
<1>5. Whole(Page) \in [Units -> Contained]
  BY DEF Whole, Contained
<1>6. /\ g.used = f.used \cup {i} /\ g.bmap = f.bmap \cup {b} /\ g.refs = f.refs
      /\ g.mem = [f.mem EXCEPT ![b] = Whole(Page)] /\ g.inode = nd /\ g.entries = en
      /\ g = [f EXCEPT !.used = g.used, !.bmap = g.bmap, !.mem = g.mem, !.inode = nd, !.entries = en]
  BY <1>4 DEF FsRecord
<1>7. g.mem \in [Blocks -> [Units -> Contained]] /\ \A c \in Blocks \ {b} : g.mem[c] = f.mem[c]
  BY <1>3, <1>5, <1>6
<1>8. g.used \in SUBSET Inodes /\ g.bmap \in SUBSET Blocks
  BY <1>3, <1>6
<1>9. g \in FsRecord
  BY <1>1, <1>2, <1>6, <1>7, <1>8 DEF FsRecord, Contained
<1> QED
  BY <1>6, <1>7, <1>9 DEF g, nd, en

\* The pages of a directory are those its entries fill, in part or in whole.
LEMMA PageIs ==
  ASSUME NEW f \in FsRecord, NEW i \in Inodes, NEW q \in Slots
  PROVE  <<i, q>> \in PagePlaces(f) <=> InUse(f, i, "dir") /\ q * PageEntries < Len(f.entries[i])
<1>1. <<i, q>> \in PagePlaces(f) <=> InUse(f, i, "dir") /\ q < InBlocks(Size(f, i))
  BY PlacesOf
<1>2. InUse(f, i, "dir") => Size(f, i) = Len(f.entries[i]) * (BlockUnits \div PageEntries)
  BY DEF InUse, Size
<1>3. Len(f.entries[i]) \in Nat /\ q \in Nat
  BY EntryTypes, Constants
<1> QED
  BY <1>1, <1>2, <1>3, InPages

LEMMA NextPage ==
  ASSUME NEW l \in Nat, NEW p \in Nat
  PROVE  /\ p * PageEntries < l + 1 <=> p * PageEntries < l \/ p = l \div PageEntries
         /\ l \div PageEntries \in Nat
         /\ (l \div PageEntries) * PageEntries < l <=> l % PageEntries # 0
<1> DEFINE q == l \div PageEntries
           r == l % PageEntries
           b == PageEntries
<1>1. b \in Nat \ {0}
  BY Constants
<1>2. q \in Nat /\ r \in 0 .. b - 1 /\ l = q * b + r
  BY <1>1, DivMod
<1> HIDE DEF q, r, b
<1>3. q * b \in Nat /\ p * b \in Nat /\ b \in Nat
  BY <1>1, <1>2
<1>4. q * b <= l /\ (q * b < l <=> r # 0)
  BY ONLY <1>2, <1>3
<1>5. p < q => p * b < l + 1
  <2> SUFFICES ASSUME p < q PROVE p * b < l + 1
    OBVIOUS
  <2>1. p * b <= q * b
    BY <1>1, <1>2, TimesLess
  <2> QED
    BY <1>3, <1>4, <2>1
<1>6. p > q => ~(p * b < l + 1)
  <2> SUFFICES ASSUME p > q PROVE ~(p * b < l + 1)
    OBVIOUS
  <2>1. (q + 1) * b <= p * b
    BY <1>1, <1>2, TimesLess
  <2>2. (q + 1) * b = q * b + b
    BY <1>1, <1>2
  <2> QED
    BY ONLY <1>1, <1>2, <1>3, <2>1, <2>2
<1>7. p * b < l + 1 => p * b < l \/ p = q
  <2> SUFFICES ASSUME p * b < l + 1, ~(p * b < l), p # q PROVE FALSE
    OBVIOUS
  <2>1. p < q
    BY <1>2, <1>6
  <2>2. (p + 1) * b <= q * b
    BY <1>1, <1>2, <2>1, TimesLess
  <2>3. (p + 1) * b = p * b + b
    BY <1>1, <1>2
  <2> QED
    BY <1>1, <1>2, <1>3, <1>4, <2>2, <2>3
<1>8. p * b < l => p * b < l + 1
  BY <1>3
<1>9. p = q => p * b < l + 1
  BY <1>3, <1>4
<1> QED
  BY <1>2, <1>4, <1>7, <1>8, <1>9 DEF q, r, b

LEMMA CreatedNames ==
  ASSUME NEW f \in FsRecord, NamesAreExact(f), Root \in f.used, NEW d \in Inodes, InUse(f, d, "dir"),
         NEW i \in Inodes \ f.used, NEW n \in Names, Lookup(f, d, n) = 0,
         NEW type \in {"file", "dir"}, NEW q \in Slots, NEW b \in Blocks
  PROVE  NamesAreExact(CreatedAt(f, d, n, type, i, q, b))
<1> DEFINE g == CreatedAt(f, d, n, type, i, q, b)
           l == Len(f.entries[d]) + 1
<1>1. d \in f.used /\ f.inode[d].type = "dir" /\ i # d /\ i # Root /\ f.used \in SUBSET Inodes
  BY FieldTypes DEF InUse
<1>2. /\ g.used = f.used \cup {i} /\ g.inode = WithInode(f, d, q, b, i, type)
      /\ g.entries = WithEntry(f, d, n, i)
  BY <1>1, CreatedTyped
<1> HIDE DEF g
<1>3. g.inode[i].type = type /\ \A j \in Inodes \ {i} : g.inode[j].type = f.inode[j].type
  BY <1>1, <1>2, WithInodeIs
<1>4. /\ g.entries[i] = <<>>
      /\ g.entries[d][l].name = n /\ g.entries[d][l].inode = i
      /\ \A k \in DOMAIN f.entries[d] : k # l /\ g.entries[d][k] = f.entries[d][k]
      /\ \A j \in Inodes \ {d, i} : g.entries[j] = f.entries[j]
      /\ DOMAIN g.entries[d] = DOMAIN f.entries[d] \cup {l}
  BY <1>1, <1>2, WithEntryIs
<1>5. \A k \in DOMAIN f.entries[d] : f.entries[d][k].name # n
  BY LookupIs
<1> HIDE DEF l
<1> DEFINE Old(c, k) == /\ c \in f.used /\ f.inode[c].type = "dir" /\ k \in DOMAIN f.entries[c]
                        /\ g.entries[c][k] = f.entries[c][k]
<1>6. ASSUME NEW c \in g.used, g.inode[c].type = "dir", NEW k \in DOMAIN g.entries[c]
      PROVE  (c = d /\ k = l) \/ Old(c, k)
  <2>1. CASE c = i
    BY <1>4, <2>1
  <2>2. CASE c = d
    BY <1>1, <1>4, <1>6, <2>2
  <2>3. CASE c # i /\ c # d
    BY <1>1, <1>2, <1>3, <1>4, <1>6, <2>3
  <2> QED
    BY <2>1, <2>2, <2>3
<1>7. \A j \in Inodes : j \in g.used <=> g.inode[j].type # "none"
  BY <1>2, <1>3 DEF NamesAreExact
<1>8. ASSUME NEW j \in g.used \ {Root}
      PROVE  \E c \in g.used : /\ g.inode[c].type = "dir"
                               /\ \E k \in DOMAIN g.entries[c] : g.entries[c][k].inode = j
  <2>1. CASE j = i
    <3>1. d \in g.used /\ g.inode[d].type = "dir" /\ l \in DOMAIN g.entries[d] /\ g.entries[d][l].inode = j
      BY <1>1, <1>2, <1>3, <1>4, <2>1
    <3> QED
      BY <3>1
  <2>2. CASE j # i
    <3>1. PICK c \in f.used : /\ f.inode[c].type = "dir"
                              /\ \E k \in DOMAIN f.entries[c] : f.entries[c][k].inode = j
      BY <1>2, <2>2 DEF NamesAreExact
    <3>2. PICK k \in DOMAIN f.entries[c] : f.entries[c][k].inode = j
      BY <3>1
    <3>3. k \in DOMAIN g.entries[c] /\ g.entries[c][k] = f.entries[c][k]
      <4>1. CASE c = d
        BY <1>4, <4>1
      <4>2. CASE c # d
        BY <1>1, <1>4, <4>2
      <4> QED
        BY <4>1, <4>2
    <3>4. c \in g.used /\ g.inode[c].type = "dir"
      BY <1>1, <1>2, <1>3, <3>1
    <3> QED
      BY <3>2, <3>3, <3>4
  <2> QED
    BY <2>1, <2>2
<1>9. ASSUME NEW c \in g.used, NEW e \in g.used, g.inode[c].type = "dir", g.inode[e].type = "dir",
             NEW k \in DOMAIN g.entries[c], NEW m \in DOMAIN g.entries[e]
      PROVE  /\ g.entries[c][k].inode \in g.used \ {Root}
             /\ <<c, k>> # <<e, m>> => g.entries[c][k].inode # g.entries[e][m].inode
             /\ c = e /\ k # m => g.entries[c][k].name # g.entries[e][m].name
  <2>1. \A a, p : Old(a, p) => /\ g.entries[a][p].inode \in f.used \ {Root}
                               /\ a = d => g.entries[a][p].name # n
    BY <1>5 DEF NamesAreExact
  <2>2. /\ (c = d /\ k = l) \/ Old(c, k)
        /\ (e = d /\ m = l) \/ Old(e, m)
    BY <1>6, <1>9
  <2>3. ASSUME Old(c, k), Old(e, m)
        PROVE  /\ <<c, k>> # <<e, m>> => g.entries[c][k].inode # g.entries[e][m].inode
               /\ c = e /\ k # m => g.entries[c][k].name # g.entries[e][m].name
    BY <2>3 DEF NamesAreExact
  <2> HIDE DEF Old
  <2>4. CASE Old(c, k) /\ Old(e, m)
    BY <1>2, <2>1, <2>3, <2>4
  <2>5. CASE c = d /\ k = l /\ Old(e, m)
    BY <1>1, <1>2, <1>4, <2>1, <2>5
  <2>6. CASE e = d /\ m = l /\ Old(c, k)
    BY <1>1, <1>2, <1>4, <2>1, <2>6
  <2>7. CASE c = d /\ k = l /\ e = d /\ m = l
    BY <1>1, <1>2, <1>4, <2>7
  <2> QED
    BY <2>2, <2>4, <2>5, <2>6, <2>7
<1> QED
  BY <1>7, <1>8, <1>9 DEF NamesAreExact, g

\* A free block becomes a page.
LEMMA TakePage ==
  ASSUME NEW f \in FsRecord, NEW g \in FsRecord, NEW H, NEW P, NEW X, Held(f, H, P, X),
         NEW h \in Places \ (H \cup P), NEW b \in FreeBlocks(f),
         At(g, h) = b, \A k \in H \cup P : At(g, k) = At(f, k),
         g.refs = f.refs, g.bmap = f.bmap \cup {b}
  PROVE  Held(g, H, P \cup {h}, X)
<1>1. /\ H \in SUBSET Places /\ P \in SUBSET Places /\ H \cap P = {} /\ CountsAreExact(f, H)
      /\ \A k \in H \cup P : At(f, k) \in Blocks \ X
      /\ \A c \in Blocks : c \in f.bmap <=> (c \in X \/ \E k \in H \cup P : At(f, k) = c)
      /\ \A k \in P, m \in H \cup P : At(f, m) = At(f, k) => m = k
  BY DEF Held, BitmapIsExact
<1>2. b \in Blocks /\ b \notin f.bmap /\ b \notin X /\ \A k \in H \cup P : At(f, k) # b
  BY <1>1 DEF FreeBlocks
<1>3. CountsAreExact(g, H)
  BY <1>1 DEF CountsAreExact, Holders
<1>4. BitmapIsExact(g, H, P \cup {h}, X)
  <2>1. \A k \in H \cup (P \cup {h}) : At(g, k) \in Blocks \ X
    BY <1>1, <1>2
  <2>2. \A c \in Blocks : c \in g.bmap <=> (c \in X \/ \E k \in H \cup (P \cup {h}) : At(g, k) = c)
    BY <1>1, <1>2
  <2>3. \A k \in P \cup {h}, m \in H \cup (P \cup {h}) : At(g, m) = At(g, k) => m = k
    BY <1>1, <1>2
  <2> QED
    BY <2>1, <2>2, <2>3 DEF BitmapIsExact
<1> QED
  BY <1>1, <1>3, <1>4 DEF Held

\* The inode, the slot and the block of an entry that is added.
EntryReady(f, d, n, i, q, b) ==
  /\ InUse(f, d, "dir") /\ Lookup(f, d, n) = 0
  /\ i \in Inodes \ f.used /\ i # d /\ q \in Slots /\ b \in Blocks
  /\ q = Len(f.entries[d]) \div PageEntries
  /\ \/ <<d, q>> \notin PagePlaces(f) /\ b \in FreeBlocks(f)
     \/ <<d, q>> \in PagePlaces(f) /\ b = At(f, <<d, q>>)

NewBlock(f, d) ==
  IF OpensPage(f, d) THEN Min(FreeBlocks(f)) ELSE f.inode[d].blocks[Len(f.entries[d]) \div PageEntries]

LEMMA CreatedIs ==
  ASSUME NEW f \in FsRecord, NEW d, NEW n, NEW type
  PROVE  Created(f, d, n, type) =
           CreatedAt(f, d, n, type, Min(Inodes \ f.used), Len(f.entries[d]) \div PageEntries, NewBlock(f, d))
<1> DEFINE i == Min(Inodes \ f.used)
           q == Len(f.entries[d]) \div PageEntries
           b == NewBlock(f, d)
<1>1. Created(f, d, n, type) =
        [f EXCEPT !.used = @ \cup {i}, !.bmap = @ \cup {b}, !.mem[b] = Whole(Page),
                  !.inode = [@ EXCEPT ![d].blocks[q] = b, ![i] = FreshInode(type)],
                  !.entries = [@ EXCEPT ![d] = Append(f.entries[d], [name |-> n, inode |-> i]),
                                        ![i] = <<>>]]
  BY Zenon DEF Created, NewBlock
<1> HIDE DEF i, q, b
<1>2. Created(f, d, n, type) = CreatedAt(f, d, n, type, i, q, b)
  BY <1>1 DEF CreatedAt, WithInode, WithEntry, FsRecord
<1> QED
  BY <1>2 DEF i, q, b

LEMMA CreateReady ==
  ASSUME NEW f \in FsRecord, Sound(f), NEW d \in Inodes, NEW n \in Names, CanCreate(f, d, n)
  PROVE  EntryReady(f, d, n, Min(Inodes \ f.used), Len(f.entries[d]) \div PageEntries, NewBlock(f, d))
<1> DEFINE l == Len(f.entries[d])
           q == l \div PageEntries
           i == Min(Inodes \ f.used)
           b == NewBlock(f, d)
<1>1. /\ InUse(f, d, "dir") /\ Lookup(f, d, n) = 0 /\ Inodes \ f.used # {}
      /\ OpensPage(f, d) => FreeBlocks(f) # {}
      /\ OpensPage(f, d) <=> l % PageEntries = 0
      /\ NamesAreExact(f)
  BY DEF CanCreate, OpensPage, Sound
<1>2. i \in Inodes \ f.used /\ i # d
  BY <1>1, FirstUnused DEF InUse
<1>3. l \in Nat /\ l <= NumInodes - 1
  BY <1>1, EntriesFew
<1>4. q \in Nat /\ (q * PageEntries < l <=> l % PageEntries # 0)
  BY <1>3, NextPage
<1>5. q * PageEntries < l + 1
  BY <1>3, <1>4, NextPage
<1>6. b = IF OpensPage(f, d) THEN Min(FreeBlocks(f)) ELSE At(f, <<d, q>>)
  BY PlaceParts DEF NewBlock
<1> HIDE DEF q, i, b
<1>7. q \in Slots
  <2>1. NumInodes <= 2 * PageEntries /\ NumInodes \in Nat /\ PageEntries \in Nat /\ NumSlots \in Nat /\ NumSlots >= 2
    BY FileSystemAssumption
  <2>2. ~(2 <= q)
    <3> SUFFICES ASSUME 2 <= q PROVE FALSE
      OBVIOUS
    <3>1. 2 * PageEntries <= q * PageEntries
      BY <1>4, <2>1, TimesLess
    <3>2. q * PageEntries \in Nat
      BY <1>4, <2>1
    <3> HIDE DEF l
    <3> QED
      BY <1>3, <1>5, <2>1, <3>1, <3>2
  <2> QED
    BY <1>4, <2>1, <2>2, Constants
<1>8. <<d, q>> \in PagePlaces(f) <=> l % PageEntries # 0
  BY <1>1, <1>4, <1>7, PageIs
<1>9. CASE OpensPage(f, d)
  <2>1. b \in FreeBlocks(f)
    BY <1>1, <1>6, <1>9, FirstFree
  <2> QED
    BY <1>1, <1>2, <1>7, <1>8, <1>9, <2>1 DEF EntryReady, FreeBlocks, q, i, b
<1>10. CASE ~OpensPage(f, d)
  <2>1. <<d, q>> \in PagePlaces(f) /\ b = At(f, <<d, q>>)
    BY <1>1, <1>6, <1>8, <1>10
  <2>2. b \in Blocks
    BY <2>1 DEF Sound, Held, BitmapIsExact
  <2> QED
    BY <1>1, <1>2, <1>7, <2>1, <2>2 DEF EntryReady, q, i, b
<1> QED
  BY <1>9, <1>10

\* The places of files stay, and the directory has the slot for its page.
LEMMA CreatedPlaces ==
  ASSUME NEW f \in FsRecord, NamesAreExact(f), NEW d \in Inodes, NEW n \in Names, NEW i, NEW q, NEW b,
         EntryReady(f, d, n, i, q, b), NEW type \in {"file", "dir"}
  PROVE  LET g == CreatedAt(f, d, n, type, i, q, b) IN
         /\ FilePlaces(g) = FilePlaces(f) /\ PagePlaces(g) = PagePlaces(f) \cup {<<d, q>>}
         /\ \A h \in (FilePlaces(f) \cup PagePlaces(f)) \ {<<d, q>>} : At(g, h) = At(f, h)
         /\ At(g, <<d, q>>) = b
<1> DEFINE g == CreatedAt(f, d, n, type, i, q, b)
           l == Len(f.entries[d])
<1>1. /\ InUse(f, d, "dir") /\ i \in Inodes \ {d} /\ i \notin f.used /\ q \in Slots /\ b \in Blocks
      /\ q = l \div PageEntries
  BY DEF EntryReady
<1>2. /\ g \in FsRecord /\ g.used = f.used \cup {i} /\ g.inode = WithInode(f, d, q, b, i, type)
      /\ g.entries = WithEntry(f, d, n, i)
  BY <1>1, CreatedTyped
<1> HIDE DEF g
<1>3. /\ g.inode[i].type = type /\ g.inode[i].size = 0
      /\ \A j \in Inodes \ {i} : g.inode[j].type = f.inode[j].type /\ g.inode[j].size = f.inode[j].size
      /\ g.inode[d].blocks[q] = b
      /\ \A j \in Inodes \ {i}, p \in Slots : <<j, p>> # <<d, q>> => g.inode[j].blocks[p] = f.inode[j].blocks[p]
  BY <1>1, <1>2, WithInodeIs
<1>4. /\ g.entries[i] = <<>> /\ Len(g.entries[d]) = l + 1
      /\ \A j \in Inodes \ {d, i} : g.entries[j] = f.entries[j]
  BY <1>1, <1>2, WithEntryIs
<1>5. l \in Nat
  BY EntryTypes
<1>6. \A p \in Slots : p \in Nat /\ p * PageEntries \in Nat /\ ~(p * PageEntries < 0)
  BY Constants
<1>7. \A p \in Slots : p * PageEntries < l + 1 <=> p * PageEntries < l \/ p = q
  BY <1>1, <1>5, <1>6, NextPage
<1> HIDE DEF l
<1>8. \A p \in Slots : ~(p < InBlocks(0))
  <2> SUFFICES ASSUME NEW p \in Slots PROVE ~(p < InBlocks(0))
    OBVIOUS
  <2>1. p \in Nat /\ BlockUnits \in Nat /\ ~(p * BlockUnits < 0)
    BY Constants
  <2>2. p < InBlocks(0) <=> p * BlockUnits < 0
    BY <2>1, InBlocksIs
  <2> QED
    BY <2>1, <2>2
<1>9. \A j \in Inodes \ {i}, type2 \in {"file", "dir"} : InUse(g, j, type2) <=> InUse(f, j, type2)
  BY <1>2, <1>3 DEF InUse
<1>10. \A p \in Slots : <<i, p>> \notin FilePlaces(f) /\ <<i, p>> \notin PagePlaces(f)
  BY <1>1 DEF FilePlaces, PagePlaces, InUse
<1>11. ASSUME NEW j \in Inodes, NEW p \in Slots
       PROVE  <<j, p>> \in FilePlaces(g) <=> <<j, p>> \in FilePlaces(f)
  <2>1. CASE j = i
    BY <1>3, <1>8, <1>10, <2>1 DEF FilePlaces
  <2>2. CASE j # i
    BY <1>3, <1>9, <2>2 DEF FilePlaces
  <2> QED
    BY <2>1, <2>2
<1>12. ASSUME NEW j \in Inodes, NEW p \in Slots
       PROVE  <<j, p>> \in PagePlaces(g) <=> <<j, p>> \in PagePlaces(f) \/ <<j, p>> = <<d, q>>
  <2>1. /\ <<j, p>> \in PagePlaces(g) <=> InUse(g, j, "dir") /\ p * PageEntries < Len(g.entries[j])
        /\ <<j, p>> \in PagePlaces(f) <=> InUse(f, j, "dir") /\ p * PageEntries < Len(f.entries[j])
    BY <1>2, PageIs
  <2>2. CASE j = i
    <3>1. Len(g.entries[j]) = 0
      BY <1>4, <2>2
    <3> QED
      BY <1>1, <1>6, <1>10, <2>1, <2>2, <3>1
  <2>3. CASE j = d
    BY <1>1, <1>4, <1>7, <1>9, <2>1, <2>3 DEF l
  <2>4. CASE j # i /\ j # d
    BY <1>4, <1>9, <2>1, <2>4
  <2> QED
    BY <2>2, <2>3, <2>4
<1>13. FilePlaces(g) = FilePlaces(f) /\ PagePlaces(g) = PagePlaces(f) \cup {<<d, q>>}
  <2>1. /\ FilePlaces(g) \in SUBSET Places /\ PagePlaces(g) \in SUBSET Places
        /\ FilePlaces(f) \in SUBSET Places /\ PagePlaces(f) \in SUBSET Places
    BY PlacesApart
  <2>2. \A h \in Places : /\ h \in FilePlaces(g) <=> h \in FilePlaces(f)
                          /\ h \in PagePlaces(g) <=> h \in PagePlaces(f) \/ h = <<d, q>>
    BY <1>11, <1>12, PlaceParts
  <2>3. <<d, q>> \in Places
    BY <1>1, PlaceParts
  <2> QED
    BY <2>1, <2>2, <2>3
<1>14. ASSUME NEW h \in (FilePlaces(f) \cup PagePlaces(f)) \ {<<d, q>>} PROVE At(g, h) = At(f, h)
  <2>1. h \in Places /\ h[1] \in Inodes /\ h[2] \in Slots /\ h = <<h[1], h[2]>>
    BY PlacesApart, PlaceParts
  <2>2. h[1] # i
    BY <1>10, <2>1
  <2> QED
    BY <1>3, <2>1, <2>2 DEF At
<1>15. At(g, <<d, q>>) = b
  BY <1>3, PlaceParts
<1> QED
  BY <1>13, <1>14, <1>15 DEF g

HasCreated(f, g, d, n, type, i) ==
  /\ i \in Inodes \ f.used /\ i # d
  /\ g.used = f.used \cup {i} /\ g.entries = WithEntry(f, d, n, i)
  /\ g.inode[i].type = type /\ g.inode[i].size = 0
  /\ \A j \in Inodes \ {i} : g.inode[j].type = f.inode[j].type /\ g.inode[j].size = f.inode[j].size
  /\ FilePlaces(g) = FilePlaces(f) /\ SameCells(f, g, FilePlaces(f))

\* A new file or directory leaves the metadata exact.
LEMMA CreatedFile ==
  ASSUME NEW f \in FsRecord, Sound(f), NEW d \in Inodes, NEW n \in Names, CanCreate(f, d, n),
         NEW type \in {"file", "dir"}
  PROVE  LET g == Created(f, d, n, type) IN
         g \in FsRecord /\ Sound(g) /\ HasCreated(f, g, d, n, type, Min(Inodes \ f.used))
<1> DEFINE q == Len(f.entries[d]) \div PageEntries
           i == Min(Inodes \ f.used)
           b == NewBlock(f, d)
           g == Created(f, d, n, type)
           c == CreatedAt(f, d, n, type, i, q, b)
           H == FilePlaces(f)
           P == PagePlaces(f)
           h == <<d, q>>
<1>1. g = c
  BY CreatedIs
<1>2. EntryReady(f, d, n, i, q, b)
  BY CreateReady
<1> HIDE DEF g, i, b, q
<1>3. /\ InUse(f, d, "dir") /\ Lookup(f, d, n) = 0 /\ i \in Inodes \ f.used /\ i # d /\ q \in Slots
      /\ b \in Blocks
      /\ (h \notin P /\ b \in FreeBlocks(f)) \/ (h \in P /\ b = At(f, h))
  BY <1>2 DEF EntryReady
<1>4. NamesAreExact(f) /\ Root \in f.used /\ Held(f, H, P, {9})
  BY DEF Sound
<1>5. NamesAreExact(c)
  BY <1>3, <1>4, CreatedNames
<1>6. /\ c \in FsRecord /\ c.used = f.used \cup {i} /\ c.bmap = f.bmap \cup {b} /\ c.refs = f.refs
      /\ \A x \in Blocks \ {b} : c.mem[x] = f.mem[x]
      /\ c.inode = WithInode(f, d, q, b, i, type) /\ c.entries = WithEntry(f, d, n, i)
  BY <1>3, CreatedTyped
<1>7. /\ FilePlaces(c) = H /\ PagePlaces(c) = P \cup {h}
      /\ \A k \in (H \cup P) \ {h} : At(c, k) = At(f, k)
      /\ At(c, h) = b
  BY <1>2, <1>4, CreatedPlaces
<1> HIDE DEF c
<1>8. /\ c.inode[i].type = type /\ c.inode[i].size = 0
      /\ \A j \in Inodes \ {i} : c.inode[j].type = f.inode[j].type /\ c.inode[j].size = f.inode[j].size
  <2> DEFINE w == WithInode(f, d, q, b, i, type)
  <2>1. /\ w[i].type = type /\ w[i].size = 0
        /\ \A j \in Inodes \ {i} : w[j].type = f.inode[j].type /\ w[j].size = f.inode[j].size
    BY <1>3, WithInodeIs
  <2> QED
    BY <1>6, <2>1
<1>9. h \notin H /\ h \in Places
  BY <1>3, PlaceParts DEF FilePlaces, InUse
<1> HIDE DEF H, P, h
<1>10. /\ \A k \in H \cup P : At(f, k) \in f.bmap /\ At(f, k) \in Blocks
       /\ \A k \in P, m \in H \cup P : At(f, m) = At(f, k) => m = k
  BY <1>4 DEF Held, BitmapIsExact
<1>11. \A k \in H : At(f, k) # b
  BY <1>3, <1>9, <1>10 DEF FreeBlocks
<1>12. Held(c, H, P \cup {h}, {9})
  <2>1. CASE h \notin P /\ b \in FreeBlocks(f)
    <3>1. h \in Places \ (H \cup P) /\ \A k \in H \cup P : At(c, k) = At(f, k)
      BY <1>7, <1>9, <2>1
    <3> QED
      BY <1>4, <1>6, <1>7, <2>1, <3>1, TakePage
  <2>2. CASE h \in P /\ b = At(f, h)
    <3>1. c.bmap = f.bmap /\ P \cup {h} = P
      BY <1>6, <1>10, <2>2
    <3>2. \A k \in H \cup P : At(c, k) = At(f, k)
      BY <1>7, <2>2
    <3> QED
      BY <1>4, <1>6, <3>1, <3>2, HeldSame
  <2> QED
    BY <1>3, <2>1, <2>2
<1>13. Sound(c)
  BY <1>4, <1>5, <1>6, <1>7, <1>12 DEF Sound
<1>14. SameCells(f, c, H)
  BY <1>6, <1>7, <1>9, <1>10, <1>11 DEF SameCells, Cell
<1>15. HasCreated(f, c, d, n, type, i)
  BY <1>3, <1>6, <1>7, <1>8, <1>14 DEF HasCreated, H
<1> QED
  BY <1>1, <1>6, <1>13, <1>15 DEF g, i

\* The index fs_remove computes from the number of entries is 0 exactly when the
\* last entry is the first of its page, and then the page is the one it gives back.
LastIndex(l) ==
  IF l \div PageEntries = 0 THEN l - 1 ELSE (l - 1) % ((l \div PageEntries) * PageEntries)

LEMMA DivModOf ==
  ASSUME NEW a \in Nat, NEW b \in Nat \ {0}, NEW q \in Nat, NEW r \in 0 .. b - 1, a = q * b + r
  PROVE  a \div b = q /\ a % b = r
<1> DEFINE x == a \div b
           y == a % b
<1>1. x \in Nat /\ y \in 0 .. b - 1 /\ a = x * b + y
  BY DivMod
<1> HIDE DEF x, y
<1>2. x * b \in Nat /\ q * b \in Nat /\ b \in Nat
  BY <1>1
<1>3. ~(x < q)
  <2> SUFFICES ASSUME x < q PROVE FALSE
    OBVIOUS
  <2>1. (x + 1) * b <= q * b
    BY <1>1, TimesLess
  <2>2. (x + 1) * b = x * b + b
    BY <1>1
  <2> QED
    BY <1>1, <1>2, <2>1, <2>2
<1>4. ~(q < x)
  <2> SUFFICES ASSUME q < x PROVE FALSE
    OBVIOUS
  <2>1. (q + 1) * b <= x * b
    BY <1>1, TimesLess
  <2>2. (q + 1) * b = q * b + b
    BY <1>1
  <2> QED
    BY <1>1, <1>2, <2>1, <2>2
<1>5. x = q
  BY <1>1, <1>3, <1>4
<1>6. y = r
  BY <1>1, <1>2, <1>5
<1> QED
  BY <1>5, <1>6 DEF x, y

LEMMA LastPage ==
  ASSUME NEW l \in Nat \ {0}, l <= NumInodes - 1
  PROVE  /\ l \div PageEntries \in Slots
         /\ LastIndex(l) = 0 => (l \div PageEntries) * PageEntries < l
         /\ \A p \in Nat : p * PageEntries < l - 1 <=>
              p * PageEntries < l /\ ~(LastIndex(l) = 0 /\ p = l \div PageEntries)
<1> DEFINE b == PageEntries
           q == l \div b
           c == (l - 1) \div b
           z == (l - 1) % b
<1>1. /\ NumInodes <= 2 * b /\ NumInodes \in Nat /\ b \in Nat \ {0, 1} /\ NumSlots \in Nat /\ NumSlots >= 2
      /\ l - 1 \in Nat /\ l < 2 * b
  BY FileSystemAssumption
<1>2. q \in Nat /\ l % b \in 0 .. b - 1 /\ l = q * b + (l % b)
  BY <1>1, DivMod
<1>3. c \in Nat /\ z \in 0 .. b - 1 /\ l - 1 = c * b + z
  BY <1>1, DivMod
<1>4. /\ \A p \in Nat : p * b < l <=> p * b < l - 1 \/ p = c
      /\ c * b < l - 1 <=> z # 0
  <2>1. (l - 1) + 1 = l
    BY <1>1
  <2> QED
    BY <1>1, <2>1, NextPage
<1>5. LastIndex(l) = IF q = 0 THEN l - 1 ELSE (l - 1) % (q * b)
  BY DEF LastIndex
<1> HIDE DEF b, q, c, z
<1>6. q = 0 \/ q = 1
  <2> SUFFICES ASSUME 2 <= q PROVE FALSE
    BY <1>2
  <2>1. 2 * b <= q * b
    BY <1>1, <1>2, TimesLess
  <2>2. q * b \in Nat
    BY <1>1, <1>2
  <2> QED
    BY <1>1, <1>2, <2>1, <2>2
<1>7. q \in Slots
  BY <1>1, <1>6, Constants
<1>8. /\ LastIndex(l) = 0 <=> z = 0
      /\ z = 0 => c = q
  <2>1. CASE q = 0
    <3>1. l < b
      BY <1>1, <1>2, <2>1
    <3>2. l - 1 = 0 * b + (l - 1) /\ l - 1 \in 0 .. b - 1 /\ b \in Nat \ {0}
      BY <1>1, <3>1
    <3>3. c = 0 /\ z = l - 1
      BY <1>1, <3>2, DivModOf DEF c, z
    <3> QED
      BY <1>5, <2>1, <3>3
  <2>2. CASE q = 1
    <3>1. q * b = b /\ b <= l
      BY <1>1, <1>2, <2>2
    <3>2. LastIndex(l) = z
      BY <1>5, <2>2, <3>1 DEF z
    <3>3. z = 0 => c = 1
      <4> SUFFICES ASSUME z = 0 PROVE c = 1
        OBVIOUS
      <4>1. CASE l - 1 >= b
        <5>1. l - 1 = 1 * b + (l - 1 - b) /\ l - 1 - b \in 0 .. b - 1 /\ b \in Nat \ {0}
          BY <1>1, <4>1
        <5> QED
          BY <1>1, <5>1, DivModOf DEF c
      <4>2. CASE l - 1 < b
        <5>1. l - 1 = 0 * b + (l - 1) /\ l - 1 \in 0 .. b - 1 /\ b \in Nat \ {0}
          BY <1>1, <4>2
        <5>2. z = l - 1
          BY <1>1, <5>1, DivModOf DEF z
        <5> QED
          BY <1>1, <3>1, <5>2
      <4> QED
        BY <1>1, <4>1, <4>2
    <3> QED
      BY <2>2, <3>2, <3>3
  <2> QED
    BY <1>6, <2>1, <2>2
<1>9. ASSUME NEW p \in Nat
      PROVE  p * b < l - 1 <=> p * b < l /\ ~(LastIndex(l) = 0 /\ p = q)
  <2>1. /\ p * b < l <=> p * b < l - 1 \/ p = c
        /\ p = c => (p * b < l - 1 <=> z # 0)
    BY <1>4
  <2> QED
    BY <1>8, <2>1
<1>10. LastIndex(l) = 0 => q * b < l
  BY <1>4, <1>2, <1>8
<1> QED
  BY <1>7, <1>9, <1>10 DEF q, b

\* A directory gives a page back.
PageFreed(f, d, q) == [Release(f, f.inode[d].blocks[q]) EXCEPT !.inode[d].blocks[q] = 0]

LEMMA PageFreedTyped ==
  ASSUME NEW f \in FsRecord, NEW d \in Inodes, NEW q \in Slots
  PROVE  LET g == PageFreed(f, d, q)
             r == Release(f, At(f, <<d, q>>))
         IN  /\ g \in FsRecord /\ SameFiles(f, g) /\ g.inode = PutAt(f, d, q, 0)
             /\ r \in FsRecord /\ r.inode = f.inode
             /\ g.refs = r.refs /\ g.bmap = r.bmap /\ g.mem = r.mem
<1> DEFINE g == PageFreed(f, d, q)
           b == At(f, <<d, q>>)
           r == Release(f, b)
           nd == PutAt(f, d, q, 0)
<1>1. b \in Blocks \cup {0} /\ b = f.inode[d].blocks[q]
  BY FieldTypes, PlaceParts
<1>2. r \in FsRecord /\ r.used = f.used /\ r.inode = f.inode /\ r.entries = f.entries
  BY <1>1, ReleaseTyped
<1>3. g = [r EXCEPT !.inode[d].blocks[q] = 0]
  BY <1>1 DEF PageFreed
<1> HIDE DEF g, r, b
<1>4. g = [r EXCEPT !.inode = nd]
  BY <1>2, <1>3 DEF PutAt, FsRecord
<1> HIDE DEF nd
<1>5. /\ g.inode = nd /\ g.used = f.used /\ g.entries = f.entries
      /\ g.refs = r.refs /\ g.bmap = r.bmap /\ g.mem = r.mem
  BY <1>2, <1>4 DEF FsRecord
<1>6. nd \in [Inodes -> Inode] /\ SameKinds(f, g)
  <2>1. g.inode = PutAt(f, d, q, 0)
    BY <1>5 DEF nd
  <2> QED
    BY <1>5, <2>1, SlotSet
<1>7. g \in FsRecord
  BY <1>2, <1>4, <1>6 DEF FsRecord
<1> QED
  BY <1>2, <1>5, <1>6, <1>7 DEF SameFiles, Untouched, g, r, b, nd

LEMMA PageFreedFile ==
  ASSUME NEW f \in FsRecord, NEW H, NEW P, NEW X, Held(f, H, P, X),
         NEW d \in Inodes, NEW q \in Slots, NEW h \in P, h = <<d, q>>
  PROVE  LET g == PageFreed(f, d, q) IN Held(g, H, P \ {h}, X) /\ SameCells(f, g, H)
<1> DEFINE g == PageFreed(f, d, q)
           r == Release(f, At(f, h))
<1>1. /\ r \in FsRecord /\ r.inode = f.inode /\ Held(r, H, P \ {h}, X) /\ SameCells(f, r, H)
  BY ReleasePage
<1>2. /\ g.inode = PutAt(f, d, q, 0) /\ g.refs = r.refs /\ g.bmap = r.bmap /\ g.mem = r.mem
  BY PageFreedTyped
<1> HIDE DEF g, r
<1>3. H \in SUBSET Places /\ P \in SUBSET Places /\ h \notin H
  BY DEF Held
<1>4. At(g, h) = 0 /\ \A k \in Places \ {h} : At(g, k) = At(f, k)
  BY <1>2, SlotSet
<1>5. \A k \in H \cup (P \ {h}) : At(g, k) = At(r, k)
  BY <1>1, <1>3, <1>4 DEF At
<1>6. Held(g, H, P \ {h}, X)
  BY <1>1, <1>2, <1>5, HeldSame
<1>7. SameCells(f, g, H)
  BY <1>1, <1>2, <1>5 DEF SameCells, Cell
<1> QED
  BY <1>6, <1>7 DEF g

WithoutLast(f, d, x) == [f.entries EXCEPT ![d] = Front(f.entries[d]), ![x] = <<>>]

\* The name and the inode go.
Dropped(g, f, d, x) ==
  [g EXCEPT !.entries = WithoutLast(f, d, x), !.inode[x] = FreshInode("none"), !.used = @ \ {x}]

LEMMA WithoutLastIs ==
  ASSUME NEW f \in FsRecord, NEW d \in Inodes, NEW x \in Inodes \ {d}, f.entries[d] # <<>>
  PROVE  LET g == WithoutLast(f, d, x)
             l == Len(f.entries[d])
         IN  /\ g \in [Inodes -> Seq([name : Names, inode : Inodes])]
             /\ l \in Nat \ {0} /\ Last(f.entries[d]) = f.entries[d][l] /\ DOMAIN f.entries[d] = 1 .. l
             /\ g[x] = <<>> /\ DOMAIN g[d] = 1 .. l - 1 /\ Len(g[d]) = l - 1
             /\ \A k \in 1 .. l - 1 : g[d][k] = f.entries[d][k]
             /\ \A j \in Inodes \ {d, x} : g[j] = f.entries[j]
<1> DEFINE g == WithoutLast(f, d, x)
           E == [name : Names, inode : Inodes]
           s == f.entries[d]
           t == Front(s)
<1>1. f.entries \in [Inodes -> Seq(E)]
  BY FieldTypes
<1>2. s \in Seq(E) /\ Len(s) \in Nat /\ DOMAIN s = 1 .. Len(s) /\ s # <<>>
  BY EntryTypes
<1>3. g = [f.entries EXCEPT ![d] = t, ![x] = <<>>]
  BY DEF WithoutLast
<1> HIDE DEF g, E, s
<1>4. Len(s) \in Nat \ {0} /\ Last(s) = s[Len(s)]
  BY <1>2 DEF Last
<1>5. t = SubSeq(s, 1, Len(s) - 1)
  BY DEF Front
<1>6. t \in Seq(E) /\ Len(t) = Len(s) - 1 /\ DOMAIN t = 1 .. Len(s) - 1 /\ \A k \in 1 .. Len(s) - 1 : t[k] = s[k]
  <2>1. t \in Seq(E)
    BY <1>2, FrontLast
  <2> HIDE DEF t
  <2> QED
    BY <1>2, <1>4, <1>5, <2>1
<1> HIDE DEF t
<1>7. /\ g \in [Inodes -> Seq(E)] /\ g[x] = <<>> /\ g[d] = t
      /\ \A j \in Inodes \ {d, x} : g[j] = f.entries[j]
  <2>1. <<>> \in Seq(E)
    OBVIOUS
  <2> QED
    BY <1>1, <1>3, <1>6, <2>1
<1> QED
  BY <1>2, <1>4, <1>6, <1>7 DEF g, E, s

LEMMA DroppedTyped ==
  ASSUME NEW f \in FsRecord, NEW g \in FsRecord, NEW d \in Inodes, NEW x \in Inodes \ {d},
         f.entries[d] # <<>>
  PROVE  LET r == Dropped(g, f, d, x) IN
         /\ r \in FsRecord /\ r.used = g.used \ {x} /\ r.entries = WithoutLast(f, d, x)
         /\ r.refs = g.refs /\ r.bmap = g.bmap /\ r.mem = g.mem
         /\ r.inode[x].type = "none" /\ \A j \in Inodes \ {x} : r.inode[j] = g.inode[j]
<1> DEFINE r == Dropped(g, f, d, x)
           en == WithoutLast(f, d, x)
           ni == FreshInode("none")
           nd == [g.inode EXCEPT ![x] = ni]
<1>1. en \in [Inodes -> Seq([name : Names, inode : Inodes])]
  BY WithoutLastIs
<1>2. g.inode \in [Inodes -> Inode] /\ g.used \in SUBSET Inodes
  BY FieldTypes
<1>3. ni \in Inode /\ ni.type = "none"
  <2>1. 0 \in 0 .. NumSlots * BlockUnits
    BY Constants
  <2> QED
    BY <2>1 DEF FreshInode, Inode
<1>4. r = [g EXCEPT !.entries = en, !.inode[x] = ni, !.used = @ \ {x}]
  BY DEF Dropped
<1> HIDE DEF r, en, ni
<1>5. nd \in [Inodes -> Inode] /\ nd[x] = ni /\ \A j \in Inodes \ {x} : nd[j] = g.inode[j]
  BY <1>2, <1>3
<1>6. r = [g EXCEPT !.entries = en, !.inode = nd, !.used = @ \ {x}]
  BY <1>4 DEF FsRecord
<1> HIDE DEF nd
<1>7. /\ r.used = g.used \ {x} /\ r.entries = en /\ r.inode = nd
      /\ r.refs = g.refs /\ r.bmap = g.bmap /\ r.mem = g.mem
      /\ r = [g EXCEPT !.entries = en, !.inode = nd, !.used = r.used]
  BY <1>6 DEF FsRecord
<1>8. r.used \in SUBSET Inodes
  BY <1>2, <1>7
<1>9. r \in FsRecord
  BY <1>1, <1>5, <1>7, <1>8 DEF FsRecord
<1> QED
  BY <1>3, <1>5, <1>7, <1>9 DEF r, en

\* The record without inode x and without the last entry of d.
LosesName(f, g, d, x) ==
  /\ g.used = f.used \ {x} /\ g.entries = WithoutLast(f, d, x)
  /\ g.inode[x].type = "none"
  /\ \A j \in Inodes \ {x} : g.inode[j].type = f.inode[j].type /\ g.inode[j].size = f.inode[j].size

\* The last entry of d is that of x, which is a file or an empty directory.
MayLose(f, d, x) ==
  /\ InUse(f, d, "dir") /\ f.entries[d] # <<>> /\ x # Root /\ x # d
  /\ InUse(f, x, "file") \/ (InUse(f, x, "dir") /\ f.entries[x] = <<>>)
  /\ Last(f.entries[d]).inode = x

LEMMA RemovedNames ==
  ASSUME NEW f \in FsRecord, NamesAreExact(f), NEW d \in Inodes, NEW x \in Inodes, MayLose(f, d, x),
         NEW g, LosesName(f, g, d, x)
  PROVE  NamesAreExact(g)
<1> DEFINE l == Len(f.entries[d])
<1>1. /\ d \in f.used /\ f.inode[d].type = "dir" /\ f.entries[d] # <<>> /\ x # d /\ x \in f.used
      /\ f.inode[x].type # "dir" \/ f.entries[x] = <<>>
      /\ f.used \in SUBSET Inodes
  BY FieldTypes DEF MayLose, InUse
<1>2. /\ g.used = f.used \ {x} /\ g.entries = WithoutLast(f, d, x) /\ g.inode[x].type = "none"
      /\ \A j \in Inodes \ {x} : g.inode[j].type = f.inode[j].type
  BY DEF LosesName
<1>3. /\ l \in Nat \ {0} /\ f.entries[d][l].inode = x /\ DOMAIN f.entries[d] = 1 .. l
      /\ g.entries[x] = <<>> /\ DOMAIN g.entries[d] = 1 .. l - 1
      /\ \A k \in 1 .. l - 1 : g.entries[d][k] = f.entries[d][k]
      /\ \A j \in Inodes \ {d, x} : g.entries[j] = f.entries[j]
  BY <1>1, <1>2, WithoutLastIs DEF MayLose
<1> HIDE DEF l
<1>4. ASSUME NEW c \in g.used, g.inode[c].type = "dir", NEW k \in DOMAIN g.entries[c]
      PROVE  /\ c \in f.used /\ f.inode[c].type = "dir" /\ k \in DOMAIN f.entries[c]
             /\ g.entries[c][k] = f.entries[c][k] /\ <<c, k>> # <<d, l>>
  <2>1. CASE c = d
    BY <1>1, <1>2, <1>3, <1>4, <2>1
  <2>2. CASE c # d
    BY <1>1, <1>2, <1>3, <1>4, <2>2
  <2> QED
    BY <2>1, <2>2
<1>5. \A j \in Inodes : j \in g.used <=> g.inode[j].type # "none"
  BY <1>2 DEF NamesAreExact
<1>6. ASSUME NEW j \in g.used \ {Root}
      PROVE  \E c \in g.used : /\ g.inode[c].type = "dir"
                               /\ \E k \in DOMAIN g.entries[c] : g.entries[c][k].inode = j
  <2>1. PICK c \in f.used : /\ f.inode[c].type = "dir"
                            /\ \E k \in DOMAIN f.entries[c] : f.entries[c][k].inode = j
    BY <1>2 DEF NamesAreExact
  <2>2. PICK k \in DOMAIN f.entries[c] : f.entries[c][k].inode = j
    BY <2>1
  <2>3. c # x
    BY <1>1, <2>1, <2>2
  <2>4. k \in DOMAIN g.entries[c] /\ g.entries[c][k] = f.entries[c][k]
    <3>1. CASE c = d
      <4>1. k # l
        BY <1>2, <1>3, <2>2, <3>1
      <4> QED
        BY <1>3, <2>2, <3>1, <4>1
    <3>2. CASE c # d
      BY <1>1, <1>3, <2>3, <3>2
    <3> QED
      BY <3>1, <3>2
  <2>5. c \in g.used /\ g.inode[c].type = "dir"
    BY <1>1, <1>2, <2>1, <2>3
  <2> QED
    BY <2>2, <2>4, <2>5
<1>7. ASSUME NEW c \in g.used, NEW e \in g.used, g.inode[c].type = "dir", g.inode[e].type = "dir",
             NEW k \in DOMAIN g.entries[c], NEW m \in DOMAIN g.entries[e]
      PROVE  /\ g.entries[c][k].inode \in g.used \ {Root}
             /\ <<c, k>> # <<e, m>> => g.entries[c][k].inode # g.entries[e][m].inode
             /\ c = e /\ k # m => g.entries[c][k].name # g.entries[e][m].name
  <2>1. /\ c \in f.used /\ f.inode[c].type = "dir" /\ k \in DOMAIN f.entries[c]
        /\ g.entries[c][k] = f.entries[c][k] /\ <<c, k>> # <<d, l>>
        /\ e \in f.used /\ f.inode[e].type = "dir" /\ m \in DOMAIN f.entries[e]
        /\ g.entries[e][m] = f.entries[e][m]
    BY <1>4, <1>7
  <2>2. /\ f.entries[c][k].inode \in f.used \ {Root}
        /\ <<c, k>> # <<e, m>> => f.entries[c][k].inode # f.entries[e][m].inode
        /\ c = e /\ k # m => f.entries[c][k].name # f.entries[e][m].name
    BY <2>1 DEF NamesAreExact
  <2>3. f.entries[c][k].inode # x
    <3>1. l \in DOMAIN f.entries[d]
      BY <1>3
    <3>2. f.entries[c][k].inode # f.entries[d][l].inode
      BY <1>1, <2>1, <3>1 DEF NamesAreExact
    <3> QED
      BY <1>3, <3>2
  <2> QED
    BY <1>2, <2>1, <2>2, <2>3
<1> QED
  BY <1>5, <1>6, <1>7 DEF NamesAreExact

\* The places of the file go, and the page of the entry when it was alone in it.
LEMMA RemovedPlaces ==
  ASSUME NEW f \in FsRecord, NamesAreExact(f), NEW d \in Inodes, NEW x \in Inodes, MayLose(f, d, x),
         NEW g \in FsRecord, LosesName(f, g, d, x),
         NEW m \in 0 .. NumSlots, m = InBlocks(Size(f, x)),
         NEW l, l = Len(f.entries[d]), NEW q, q = l \div PageEntries
  PROVE  /\ q \in Slots /\ l \in Nat \ {0} /\ l <= NumInodes - 1
         /\ Slice(x, 0, m) \subseteq FilePlaces(f) /\ FilePlaces(g) = FilePlaces(f) \ Slice(x, 0, m)
         /\ LastIndex(l) = 0 => <<d, q>> \in PagePlaces(f)
         /\ PagePlaces(g) = IF LastIndex(l) = 0 THEN PagePlaces(f) \ {<<d, q>>} ELSE PagePlaces(f)
<1>1. /\ InUse(f, d, "dir") /\ f.entries[d] # <<>> /\ x # d
      /\ InUse(f, x, "file") \/ (InUse(f, x, "dir") /\ f.entries[x] = <<>>)
  BY DEF MayLose
<1>2. /\ g.used = f.used \ {x} /\ g.entries = WithoutLast(f, d, x) /\ g.inode[x].type = "none"
      /\ \A j \in Inodes \ {x} : g.inode[j].type = f.inode[j].type /\ g.inode[j].size = f.inode[j].size
  BY DEF LosesName
<1>3. /\ l \in Nat \ {0} /\ Len(g.entries[d]) = l - 1
      /\ \A j \in Inodes \ {d, x} : g.entries[j] = f.entries[j]
  BY <1>1, <1>2, WithoutLastIs
<1>4. l <= NumInodes - 1
  BY <1>1, EntriesFew
<1>5. /\ q \in Slots
      /\ LastIndex(l) = 0 => q * PageEntries < l
      /\ \A p \in Nat : p * PageEntries < l - 1 <=>
           p * PageEntries < l /\ ~(LastIndex(l) = 0 /\ p = q)
  BY <1>3, <1>4, LastPage
<1>6. LastIndex(l) = 0 => <<d, q>> \in PagePlaces(f)
  BY <1>1, <1>5, PageIs
<1>7. \A j \in Inodes : /\ j # x => \A ty : InUse(g, j, ty) <=> InUse(f, j, ty)
                        /\ j = x => ~InUse(g, j, "file") /\ ~InUse(g, j, "dir")
  BY <1>2 DEF InUse
<1>8. \A p \in Slots : p \in Nat
  BY Constants
<1>9. \A p \in Slots : <<x, p>> \notin PagePlaces(f)
  <2>1. CASE InUse(f, x, "file")
    BY <2>1, PageIs DEF InUse
  <2>2. CASE InUse(f, x, "dir") /\ f.entries[x] = <<>>
    <3> SUFFICES ASSUME NEW p \in Slots, p * PageEntries < Len(f.entries[x]) PROVE FALSE
      BY PageIs
    <3>1. Len(f.entries[x]) = 0
      BY <2>2
    <3>2. p \in Nat /\ PageEntries \in Nat
      BY Constants
    <3>3. p * PageEntries \in Nat
      BY <3>2
    <3> QED
      BY <3>1, <3>3
  <2> QED
    BY <1>1, <2>1, <2>2
<1>10. \A p \in Slots : <<x, p>> \in FilePlaces(f) <=> <<x, p>> \in Slice(x, 0, m)
  <2>1. \A p \in Slots : <<x, p>> \in Slice(x, 0, m) <=> p < m
    <3> SUFFICES ASSUME NEW p \in Slots PROVE <<x, p>> \in Slice(x, 0, m) <=> p < m
      OBVIOUS
    <3>1. p \in Nat /\ m \in Nat
      BY <1>8, Constants
    <3> QED
      BY <3>1 DEF Slice
  <2>2. \A p \in Slots : <<x, p>> \in FilePlaces(f) <=> InUse(f, x, "file") /\ p < m
    BY PlacesOf
  <2>3. ~InUse(f, x, "file") => m = 0
    <3> SUFFICES ASSUME InUse(f, x, "dir"), f.entries[x] = <<>> PROVE m = 0
      BY <1>1
    <3>1. Len(f.entries[x]) = 0 /\ BlockUnits \div PageEntries \in Nat
      BY Constants
    <3>2. Size(f, x) = 0
      BY <3>1 DEF Size, InUse
    <3>3. ~(0 < InBlocks(0))
      <4>1. 0 < InBlocks(0) <=> 0 * BlockUnits < 0
        BY InBlocksIs
      <4>2. 0 * BlockUnits = 0
        BY Constants
      <4> QED
        BY <4>1, <4>2
    <3> QED
      BY <3>2, <3>3, Constants
  <2> QED
    BY <1>8, <2>1, <2>2, <2>3, Constants
<1>11. Slice(x, 0, m) \subseteq FilePlaces(f)
  <2>1. \A p \in 0 .. m - 1 : p \in Slots
    BY Constants
  <2> QED
    BY <1>10, <2>1 DEF Slice
<1>12. ASSUME NEW j \in Inodes, NEW p \in Slots
       PROVE  /\ <<j, p>> \in FilePlaces(g) <=> <<j, p>> \in FilePlaces(f) \ Slice(x, 0, m)
              /\ <<j, p>> \in PagePlaces(g) <=>
                   <<j, p>> \in PagePlaces(f) /\ ~(LastIndex(l) = 0 /\ <<j, p>> = <<d, q>>)
  <2>1. /\ <<j, p>> \in PagePlaces(g) <=> InUse(g, j, "dir") /\ p * PageEntries < Len(g.entries[j])
        /\ <<j, p>> \in PagePlaces(f) <=> InUse(f, j, "dir") /\ p * PageEntries < Len(f.entries[j])
    BY PageIs
  <2>2. CASE j = x
    BY <1>7, <1>9, <1>10, <2>1, <2>2 DEF FilePlaces
  <2>3. CASE j # x
    <3>1. <<j, p>> \notin Slice(x, 0, m)
      BY <2>3 DEF Slice
    <3>2. <<j, p>> \in FilePlaces(g) <=> <<j, p>> \in FilePlaces(f)
      BY <1>2, <1>7, <2>3 DEF FilePlaces
    <3>3. CASE j = d
      BY <1>1, <1>3, <1>5, <1>7, <1>8, <2>1, <2>3, <3>1, <3>2, <3>3
    <3>4. CASE j # d
      BY <1>3, <1>7, <2>1, <2>3, <3>1, <3>2, <3>4
    <3> QED
      BY <3>3, <3>4
  <2> QED
    BY <2>2, <2>3
<1>13. \A h \in Places : /\ h \in FilePlaces(g) <=> h \in FilePlaces(f) \ Slice(x, 0, m)
                         /\ h \in PagePlaces(g) <=>
                              h \in PagePlaces(f) /\ ~(LastIndex(l) = 0 /\ h = <<d, q>>)
  BY <1>12, PlaceParts
<1>14. /\ FilePlaces(g) \in SUBSET Places /\ PagePlaces(g) \in SUBSET Places
       /\ FilePlaces(f) \in SUBSET Places /\ PagePlaces(f) \in SUBSET Places
  BY PlacesApart
<1>15. FilePlaces(g) = FilePlaces(f) \ Slice(x, 0, m)
  BY <1>13, <1>14
<1>16. PagePlaces(g) = IF LastIndex(l) = 0 THEN PagePlaces(f) \ {<<d, q>>} ELSE PagePlaces(f)
  BY <1>13, <1>14
<1> QED
  BY <1>3, <1>4, <1>5, <1>6, <1>11, <1>15, <1>16

Emptied(f, d, x) ==
  LET g == ReleaseAll(f, x)
      l == Len(f.entries[d])
  IN  IF LastIndex(l) = 0 THEN PageFreed(g, d, l \div PageEntries) ELSE g


LEMMA EmptiedTyped ==
  ASSUME NEW f \in FsRecord, NamesAreExact(f), NEW d \in Inodes, InUse(f, d, "dir"), f.entries[d] # <<>>,
         NEW x \in Inodes
  PROVE  LET g == Emptied(f, d, x) IN g \in FsRecord /\ SameFiles(f, g)
<1> DEFINE l == Len(f.entries[d])
           q == l \div PageEntries
           r == ReleaseAll(f, x)
<1>1. l \in Nat \ {0} /\ l <= NumInodes - 1
  <2>1. l \in Nat /\ l <= NumInodes - 1
    BY EntriesFew
  <2>2. f.entries[d] \in Seq([name : Names, inode : Inodes])
    BY EntryTypes
  <2> QED
    BY <2>1, <2>2
<1>2. q \in Slots
  BY <1>1, LastPage
<1>3. InBlocks(Size(f, x)) \in 0 .. NumSlots
  BY SizeBound
<1>4. r \in FsRecord /\ Untouched(f, r) /\ r.inode = f.inode
  BY <1>3, ReleaseAllTyped
<1>5. Emptied(f, d, x) = IF LastIndex(l) = 0 THEN PageFreed(r, d, q) ELSE r
  BY DEF Emptied
<1> HIDE DEF r, q, l
<1>6. SameFiles(f, r)
  BY <1>4 DEF SameFiles, SameKinds
<1>7. PageFreed(r, d, q) \in FsRecord /\ SameFiles(r, PageFreed(r, d, q))
  BY <1>2, <1>4, PageFreedTyped
<1>8. SameFiles(f, PageFreed(r, d, q))
  BY <1>6, <1>7, SameFilesThen
<1> QED
  BY <1>4, <1>5, <1>6, <1>7, <1>8

LEMMA RemovedIs ==
  ASSUME NEW f \in FsRecord, NamesAreExact(f), NEW d \in Inodes, InUse(f, d, "dir"), f.entries[d] # <<>>,
         NEW x \in Inodes
  PROVE  Removed(f, d, x) = Dropped(Emptied(f, d, x), f, d, x)
<1> DEFINE e == Emptied(f, d, x)
           r == ReleaseAll(f, x)
           l == Len(f.entries[d])
           q == l \div PageEntries
<1>1. e = IF LastIndex(l) = 0 THEN [Release(r, r.inode[d].blocks[q]) EXCEPT !.inode[d].blocks[q] = 0] ELSE r
  BY DEF Emptied, PageFreed
<1>2. Removed(f, d, x) =
        [(IF LastIndex(l) = 0 THEN [Release(r, r.inode[d].blocks[q]) EXCEPT !.inode[d].blocks[q] = 0] ELSE r)
           EXCEPT !.entries = [@ EXCEPT ![d] = Front(f.entries[d]), ![x] = <<>>],
                  !.inode[x] = FreshInode("none"), !.used = @ \ {x}]
  BY Zenon DEF Removed, LastIndex
<1>3. e \in FsRecord /\ e.entries = f.entries
  BY EmptiedTyped DEF SameFiles, Untouched
<1> HIDE DEF e, r, q, l
<1>4. Removed(f, d, x) =
        [e EXCEPT !.entries = [@ EXCEPT ![d] = Front(f.entries[d]), ![x] = <<>>],
                  !.inode[x] = FreshInode("none"), !.used = @ \ {x}]
  BY <1>1, <1>2, Zenon
<1>5. Removed(f, d, x) = Dropped(e, f, d, x)
  BY <1>3, <1>4 DEF Dropped, WithoutLast, FsRecord
<1> QED
  BY <1>5 DEF e

\* What fs_remove finds before it changes anything.
LEMMA RemoveFinds ==
  ASSUME NEW f \in FsRecord, NamesAreExact(f), NEW d \in Inodes, InUse(f, d, "dir"), NEW n, NEW x,
         x = Lookup(f, d, n), x # 0, f.inode[x].type = "dir" => f.entries[x] = <<>>
  PROVE  /\ x \in Inodes \ {d} /\ x # Root /\ f.entries[d] # <<>>
         /\ RemoveIsSafe(f, d, n) => MayLose(f, d, x)
<1>1. x \in f.used \ {Root} /\ x \in Inodes /\ f.inode[x].type \in {"file", "dir"} /\ f.entries[d] # <<>>
  BY LookupUsed
<1>2. x # d
  BY <1>1 DEF InUse
<1>3. ASSUME RemoveIsSafe(f, d, n) PROVE Last(f.entries[d]).inode = x
  <2> DEFINE l == Len(f.entries[d])
  <2>1. Last(f.entries[d]) = f.entries[d][l]
    BY DEF Last
  <2>2. l \in DOMAIN f.entries[d]
    <3>1. /\ f.entries[d] \in Seq([name : Names, inode : Inodes]) /\ l \in Nat
          /\ DOMAIN f.entries[d] = 1 .. l
      BY EntryTypes
    <3>2. l # 0
      BY <1>1, <3>1
    <3> HIDE DEF l
    <3> QED
      BY <3>1, <3>2
  <2>3. f.entries[d][l].name = n
    BY <1>3, <2>1 DEF RemoveIsSafe
  <2> HIDE DEF l
  <2>4. Lookup(f, d, f.entries[d][l].name) = f.entries[d][l].inode
    BY <2>2, LookupExact
  <2> QED
    BY <2>1, <2>3, <2>4
<1> QED
  BY <1>1, <1>2, <1>3 DEF MayLose, InUse

LEMMA RemovedTyped ==
  ASSUME NEW f \in FsRecord, NamesAreExact(f), NEW d \in Inodes, InUse(f, d, "dir"),
         NEW x \in Inodes \ {d}, f.entries[d] # <<>>
  PROVE  LET g == Removed(f, d, x)
             e == Emptied(f, d, x)
         IN  /\ g \in FsRecord /\ LosesName(f, g, d, x)
             /\ g.refs = e.refs /\ g.bmap = e.bmap /\ g.mem = e.mem
             /\ \A h \in Places : h[1] # x => At(g, h) = At(e, h)
<1> DEFINE g == Removed(f, d, x)
           e == Emptied(f, d, x)
<1>1. e \in FsRecord /\ SameFiles(f, e)
  BY EmptiedTyped
<1>2. g = Dropped(e, f, d, x)
  BY RemovedIs
<1> HIDE DEF e, g
<1>3. /\ g \in FsRecord /\ g.used = e.used \ {x} /\ g.entries = WithoutLast(f, d, x)
      /\ g.refs = e.refs /\ g.bmap = e.bmap /\ g.mem = e.mem
      /\ g.inode[x].type = "none" /\ \A j \in Inodes \ {x} : g.inode[j] = e.inode[j]
  BY <1>1, <1>2, DroppedTyped
<1>4. LosesName(f, g, d, x)
  BY <1>1, <1>3 DEF LosesName, SameFiles, SameKinds, Untouched
<1>5. \A h \in Places : h[1] # x => At(g, h) = At(e, h)
  BY <1>3, PlaceParts DEF At
<1> QED
  BY <1>3, <1>4, <1>5 DEF e, g

\* A file or an empty directory that goes takes its blocks and its name with it.
LEMMA RemovedFile ==
  ASSUME NEW f \in FsRecord, Sound(f), NEW d \in Inodes, NEW x \in Inodes, MayLose(f, d, x),
         NEW m \in 0 .. NumSlots, m = InBlocks(Size(f, x))
  PROVE  LET g == Removed(f, d, x) IN
         /\ Sound(g) /\ FilePlaces(g) = FilePlaces(f) \ Slice(x, 0, m)
         /\ SameCells(f, g, FilePlaces(g))
<1> DEFINE g == Removed(f, d, x)
           r == ReleaseAll(f, x)
           e == Emptied(f, d, x)
           l == Len(f.entries[d])
           q == l \div PageEntries
           H == FilePlaces(f)
           P == PagePlaces(f)
           K == H \ Slice(x, 0, m)
           R == IF LastIndex(l) = 0 THEN P \ {<<d, q>>} ELSE P
<1>1. /\ InUse(f, d, "dir") /\ f.entries[d] # <<>> /\ x \in Inodes \ {d} /\ x # Root
      /\ NamesAreExact(f) /\ Root \in f.used /\ Held(f, H, P, {9})
  BY DEF MayLose, Sound
<1>2. /\ g \in FsRecord /\ LosesName(f, g, d, x)
      /\ g.refs = e.refs /\ g.bmap = e.bmap /\ g.mem = e.mem
      /\ \A h \in Places : h[1] # x => At(g, h) = At(e, h)
  BY <1>1, RemovedTyped
<1> HIDE DEF g
<1>3. /\ q \in Slots
      /\ Slice(x, 0, m) \subseteq H /\ FilePlaces(g) = K
      /\ LastIndex(l) = 0 => <<d, q>> \in P
      /\ PagePlaces(g) = R
  BY <1>1, <1>2, RemovedPlaces
<1>4. NamesAreExact(g)
  BY <1>1, <1>2, RemovedNames
<1>5. e = IF LastIndex(l) = 0 THEN PageFreed(r, d, q) ELSE r
  BY DEF Emptied
<1> HIDE DEF e, l, q, H, P
<1>6. r \in FsRecord /\ Held(r, K, P, {9}) /\ SameCells(f, r, K)
  <2>1. r \in FsRecord
    BY ReleaseAllTyped
  <2>2. Held(r, K, P, {9}) /\ SameCells(f, r, K)
    BY <1>1, <1>3, ReleaseAllFile
  <2> QED
    BY <2>1, <2>2
<1> HIDE DEF r, K
<1>7. Held(e, K, R, {9}) /\ SameCells(f, e, K)
  <2>1. CASE LastIndex(l) = 0
    <3>1. e = PageFreed(r, d, q) /\ R = P \ {<<d, q>>} /\ <<d, q>> \in P
      BY <1>3, <1>5, <2>1
    <3>2. Held(e, K, R, {9}) /\ SameCells(r, e, K)
      BY <1>3, <1>6, <3>1, PageFreedFile
    <3> QED
      BY <1>6, <3>2 DEF SameCells
  <2>2. CASE LastIndex(l) # 0
    BY <1>5, <1>6, <2>2
  <2> QED
    BY <2>1, <2>2
<1> HIDE DEF R
<1>8. \A h \in K \cup R : h \in Places /\ h[1] # x
  <2>1. K \cup R \subseteq Places
    BY <1>7 DEF Held
  <2>2. \A h \in FilePlaces(g) \cup PagePlaces(g) : h[1] # x
    BY <1>2 DEF FilePlaces, PagePlaces, InUse, LosesName
  <2> QED
    BY <1>3, <2>1, <2>2 DEF K, R
<1>9. \A h \in K \cup R : At(g, h) = At(e, h)
  BY <1>2, <1>8
<1>10. Held(g, K, R, {9})
  BY <1>2, <1>7, <1>9, HeldSame
<1>11. Root \in g.used
  BY <1>1, <1>2 DEF LosesName
<1>12. Sound(g)
  BY <1>3, <1>4, <1>10, <1>11 DEF Sound, R, K
<1>13. SameCells(f, g, K)
  BY <1>2, <1>7, <1>9 DEF SameCells, Cell
<1> QED
  BY <1>3, <1>12, <1>13 DEF g, K, H

-----------------------------------------------------------------------------
(* Every step                                                              *)

LEMMA ConsistentIs == Consistent <=> TypeOK /\ (state = "sound" => Sound(fs))
BY SoundIs DEF Consistent, TypeOK

LEMMA SoundNow ==
  ASSUME Consistent, state = "sound"
  PROVE  fs \in FsRecord /\ Sound(fs) /\ NamesAreExact(fs) /\ copying \in [Threads -> Copies \cup {NULL}]
BY ConsistentIs DEF TypeOK, Sound

LEMMA CallTyped ==
  ASSUME Consistent, NEW t, Call(t)
  PROVE  fs \in FsRecord /\ Sound(fs) /\ NamesAreExact(fs) /\ state = "sound" /\ calls' \in 0 .. MaxCalls
<1>1. calls' \in 0 .. MaxCalls
  BY FileSystemAssumption, ConsistentIs DEF TypeOK, Call
<1> QED
  BY <1>1, SoundNow DEF Call

\* A step that computes a record is right when the record is.
LEMMA ResultKept ==
  ASSUME NEW g \in FsRecord, Root \in g.used, NEW safe, safe => Sound(g), Result(g, safe),
         copying' \in [Threads -> Copies \cup {NULL}], calls' \in 0 .. MaxCalls
  PROVE  Consistent'
<1>1. fs' = g /\ state' \in {"sound", "damaged", "frozen"} /\ (state' = "sound" => safe)
  BY DEF Result
<1>2. TypeOK'
  BY <1>1 DEF TypeOK
<1>3. state' = "sound" =>
        /\ CountsAreExact(g, FilePlaces(g)) /\ BitmapIsExact(g, FilePlaces(g), PagePlaces(g), {9})
        /\ NamesAreExact(g)
  BY <1>1, SoundIs
<1> QED
  BY <1>1, <1>2, <1>3 DEF Consistent

\* A step that takes the lock for good changes nothing else.
LEMMA FreezeKept ==
  ASSUME Consistent, Freeze, copying' \in [Threads -> Copies \cup {NULL}], calls' \in 0 .. MaxCalls
  PROVE  Consistent'
BY DEF Consistent, TypeOK, Freeze

LEMMA InitConsistent == Init => Consistent
<1> SUFFICES ASSUME Init PROVE Consistent
  OBVIOUS
<1>1. /\ fs.used = {Root} /\ fs.bmap = {9} /\ fs.refs = [b \in Blocks |-> 0]
      /\ fs.entries = [i \in Inodes |-> <<>>]
      /\ fs.inode = [i \in Inodes |-> FreshInode(IF i = Root THEN "dir" ELSE "none")]
      /\ fs.mem = [b \in Blocks |-> Whole(Zero)]
      /\ fs = [used |-> fs.used, inode |-> fs.inode, entries |-> fs.entries, bmap |-> fs.bmap,
               refs |-> fs.refs, mem |-> fs.mem]
      /\ state = "sound" /\ copying = [t \in Threads |-> NULL] /\ calls = 0
  BY DEF Init
<1>2. Root \in Inodes /\ 9 \in Blocks /\ IsFiniteSet(Blocks)
  BY Constants
<1>3. \A i \in Inodes : /\ fs.inode[i] \in Inode
                        /\ fs.inode[i].type = IF i = Root THEN "dir" ELSE "none"
  <2>1. 0 \in 0 .. NumSlots * BlockUnits
    BY Constants
  <2> QED
    BY <1>1, <2>1 DEF FreshInode, Inode
<1>4. fs \in FsRecord
  <2>1. fs.inode \in [Inodes -> Inode]
    BY <1>1, <1>3
  <2>2. fs.entries \in [Inodes -> Seq([name : Names, inode : Inodes])]
    BY <1>1
  <2>3. fs.mem \in [Blocks -> [Units -> Data \cup {Zero, Page, Junk}]]
    BY <1>1 DEF Whole
  <2>4. fs.refs \in [Blocks -> Nat] /\ fs.used \in SUBSET Inodes /\ fs.bmap \in SUBSET Blocks
    BY <1>1, <1>2
  <2> QED
    BY <1>1, <2>1, <2>2, <2>3, <2>4 DEF FsRecord
<1>5. FilePlaces(fs) = {}
  BY <1>1, <1>3 DEF FilePlaces, InUse
<1>6. PagePlaces(fs) = {}
  <2> SUFFICES ASSUME NEW h \in PagePlaces(fs) PROVE FALSE
    OBVIOUS
  <2>1. h \in Places /\ h[1] \in Inodes /\ h[2] \in Slots /\ h = <<h[1], h[2]>>
    BY PlacesApart, PlaceParts
  <2>2. h[2] * PageEntries < Len(fs.entries[h[1]])
    BY <1>4, <2>1, PageIs
  <2>3. Len(fs.entries[h[1]]) = 0
    BY <1>1, <2>1
  <2>4. h[2] \in Nat /\ PageEntries \in Nat
    BY <2>1, Constants
  <2>5. h[2] * PageEntries \in Nat
    BY <2>4
  <2> QED
    BY <2>2, <2>3, <2>5
<1>7. CountsAreExact(fs, {})
  <2>1. Cardinality({}) = 0
    BY FS_EmptySet
  <2> QED
    BY <1>1, <2>1 DEF CountsAreExact, Holders
<1>8. BitmapIsExact(fs, {}, {}, {9})
  BY <1>1, <1>2 DEF BitmapIsExact
<1>9. NamesAreExact(fs)
  <2>1. \A i \in Inodes : DOMAIN fs.entries[i] = {}
    BY <1>1
  <2> QED
    BY <1>1, <1>2, <1>3, <2>1 DEF NamesAreExact
<1>10. TypeOK
  BY <1>1, <1>4, FileSystemAssumption DEF TypeOK
<1> QED
  BY <1>5, <1>6, <1>7, <1>8, <1>9, <1>10 DEF Consistent

LEMMA CreatesConsistent ==
  ASSUME Consistent, NEW t \in Threads, NEW d \in Inodes, NEW n \in Names,
         fs_create(t, d, n) \/ fs_mkdir(t, d, n)
  PROVE  Consistent'
<1>1. Call(t) /\ UNCHANGED copying
  BY DEF fs_create, fs_mkdir
<1>2. /\ fs \in FsRecord /\ Sound(fs) /\ state = "sound" /\ calls' \in 0 .. MaxCalls
      /\ copying' \in [Threads -> Copies \cup {NULL}]
  BY <1>1, CallTyped, SoundNow
<1>3. ASSUME NEW type \in {"file", "dir"}, CanCreate(fs, d, n), Result(Created(fs, d, n, type), TRUE)
      PROVE  Consistent'
  <2> DEFINE g == Created(fs, d, n, type)
  <2>1. g \in FsRecord /\ Sound(g)
    BY <1>2, <1>3, CreatedFile
  <2>2. Result(g, TRUE)
    BY <1>3
  <2> HIDE DEF g
  <2>3. Root \in g.used
    BY <2>1 DEF Sound
  <2> QED
    BY <1>2, <2>1, <2>2, <2>3, ResultKept
<1>4. CASE Freeze
  BY <1>2, <1>4, FreezeKept
<1> QED
  BY <1>3, <1>4 DEF fs_create, fs_mkdir

LEMMA RemoveConsistent ==
  ASSUME Consistent, NEW t \in Threads, NEW d \in Inodes, NEW n \in Names, fs_remove(t, d, n)
  PROVE  Consistent'
<1> DEFINE x == Lookup(fs, d, n)
           g == Removed(fs, d, x)
           safe == RemoveIsSafe(fs, d, n)
<1>1. /\ Call(t) /\ InUse(fs, d, "dir") /\ x # 0
      /\ fs.inode[x].type = "dir" => fs.entries[x] = <<>>
      /\ Result(g, safe) /\ UNCHANGED copying
  BY DEF fs_remove
<1>2. /\ fs \in FsRecord /\ Sound(fs) /\ NamesAreExact(fs) /\ calls' \in 0 .. MaxCalls
      /\ copying' \in [Threads -> Copies \cup {NULL}]
  BY <1>1, CallTyped, SoundNow DEF Call
<1> HIDE DEF x, g, safe
<1>3. /\ x \in Inodes \ {d} /\ x # Root /\ fs.entries[d] # <<>>
      /\ safe => MayLose(fs, d, x)
  BY <1>1, <1>2, RemoveFinds DEF x, safe
<1>4. g \in FsRecord /\ LosesName(fs, g, d, x)
  BY <1>1, <1>2, <1>3, RemovedTyped DEF g
<1>5. Root \in g.used
  BY <1>2, <1>3, <1>4 DEF LosesName, Sound
<1>6. safe => Sound(g)
  <2>1. InBlocks(Size(fs, x)) \in 0 .. NumSlots
    BY <1>2, <1>3, SizeBound
  <2> QED
    BY <1>2, <1>3, <2>1, RemovedFile DEF g
<1> QED
  BY <1>1, <1>2, <1>4, <1>5, <1>6, ResultKept

\* What fs_write computes before it writes, and what becomes of it.
WriteCall(at, u, n, m, e, i, count, v) ==
  /\ WriteAsked(fs, i, at, count, u, n, m, e)
  /\ \/ Cardinality(FreeBlocks(fs)) < n /\ Result(Extended(fs, i, u, n), FALSE)
     \/ /\ n <= Cardinality(FreeBlocks(fs))
        /\ Result(Written(Extended(fs, i, u, n), i, at, count, v, u .. u + n - 1),
                  WriteIsSafe(fs, i, at, count, n))

LEMMA WriteIs ==
  ASSUME Consistent, NEW t \in Threads, NEW i \in Inodes, NEW v \in Data,
         NEW count \in 1 .. MaxCount, NEW offset \in 0 .. NumSlots * BlockUnits,
         fs_write(t, i, offset, count, v)
  PROVE  \E at, u, n, m, e : WriteCall(at, u, n, m, e, i, count, v)
<1> DEFINE used == Len(UsedSlots(fs, i))
           size == fs.inode[i].size
           u == InBlocks(size)
           at == Min({offset, size})
           e == InBlocks(at + count)
           n == Max({e, used}) - used
           m == at \div BlockUnits
           new == [k \in 1 .. n |-> used + k - 1]
           f1 == FoldLeft(LAMBDA g, q : Reserve(g, i, q), fs, new)
           g1 == Extended(fs, i, u, n)
           safe == WriteIsSafe(fs, i, at, count, n)
<1>1. /\ Call(t) /\ InUse(fs, i, "file") /\ n <= NumSlots - used
      /\ IF Cardinality(FreeBlocks(fs)) < n THEN FreeBlocks(fs) # {} /\ Result(f1, FALSE)
         ELSE Result(Written(f1, i, at, count, v, ToSet(new)), safe)
      /\ UNCHANGED copying
  BY DEF fs_write
<1>2. /\ fs \in FsRecord /\ Sound(fs) /\ NamesAreExact(fs) /\ calls' \in 0 .. MaxCalls
      /\ copying' \in [Threads -> Copies \cup {NULL}]
  BY <1>1, CallTyped, SoundNow DEF Call
<1>3. /\ size \in Nat /\ offset \in Nat /\ count \in Nat \ {0} /\ NumSlots \in Nat /\ BlockUnits \in Nat \ {0}
      /\ u \in 0 .. NumSlots /\ u = InBlocks(Size(fs, i))
  <2>1. Size(fs, i) = size /\ size \in 0 .. NumSlots * BlockUnits
    BY <1>1, <1>2, FieldTypes DEF Size, InUse
  <2>2. u \in 0 .. NumSlots
    BY <1>2, <2>1, SizeBound
  <2>3. count \in Nat \ {0} /\ offset \in Nat /\ size \in Nat
    BY <2>1, FileSystemAssumption
  <2> QED
    BY <2>1, <2>2, <2>3, Constants
<1>4. used = u
  BY <1>3, UsedSlotsAre
<1>5. f1 = g1
  BY <1>4 DEF Extended
<1> HIDE DEF used, f1, g1, safe
<1>6. at \in Nat /\ at <= size
  BY <1>3, OfTwo
<1> HIDE DEF at, size
<1>7. e \in Nat /\ m \in Nat
  <2>1. at + count \in Nat
    BY <1>3, <1>6
  <2> QED
    BY <1>3, <1>6, <2>1, InBlocksIs, DivMod
<1>8. u \in Nat
  BY <1>3
<1> HIDE DEF u, e, m
<1>9. n \in Nat /\ u + n <= NumSlots /\ u + n = IF e >= u THEN e ELSE u
  <2>1. Max({e, u}) = IF e >= u THEN e ELSE u
    BY <1>7, <1>8, OfTwo
  <2> QED
    BY <1>1, <1>3, <1>4, <1>7, <1>8, <2>1
<1>10. ToSet(new) = u .. u + n - 1
  <2> HIDE DEF n
  <2> QED
    BY <1>4, <1>8, <1>9, Counted
<1> HIDE DEF n, new
<1>11. WriteAsked(fs, i, at, count, u, n, m, e)
  BY <1>1, <1>3, <1>6, <1>7, <1>8, <1>9 DEF WriteAsked, u, e, m, size
<1>12. CASE Cardinality(FreeBlocks(fs)) < n
  <2>1. Result(g1, FALSE)
    BY <1>1, <1>5, <1>12
  <2>2. WriteCall(at, u, n, m, e, i, count, v)
    BY <1>11, <1>12, <2>1 DEF WriteCall, g1
  <2> QED
    BY <2>2
<1>13. CASE ~(Cardinality(FreeBlocks(fs)) < n)
  <2>1. n <= Cardinality(FreeBlocks(fs))
    BY <1>9, <1>13, FreeFinite
  <2>2. Result(Written(g1, i, at, count, v, u .. u + n - 1), safe)
    BY <1>1, <1>5, <1>10, <1>13
  <2>3. WriteCall(at, u, n, m, e, i, count, v)
    BY <1>11, <2>1, <2>2 DEF WriteCall, g1, safe
  <2> QED
    BY <2>3
<1> QED
  BY <1>12, <1>13

LEMMA WriteConsistent ==
  ASSUME Consistent, NEW t \in Threads, NEW i \in Inodes, NEW v \in Data,
         NEW count \in 1 .. MaxCount, NEW offset \in 0 .. NumSlots * BlockUnits,
         fs_write(t, i, offset, count, v)
  PROVE  Consistent'
<1>1. PICK at, u, n, m, e : WriteCall(at, u, n, m, e, i, count, v)
  BY WriteIs
<1>2. Call(t) /\ UNCHANGED copying
  BY DEF fs_write
<1>3. /\ fs \in FsRecord /\ Sound(fs) /\ calls' \in 0 .. MaxCalls
      /\ copying' \in [Threads -> Copies \cup {NULL}]
  BY <1>2, CallTyped, SoundNow DEF Call
<1> DEFINE g1 == Extended(fs, i, u, n)
           g2 == Written(g1, i, at, count, v, u .. u + n - 1)
           safe == WriteIsSafe(fs, i, at, count, n)
<1>4. WriteAsked(fs, i, at, count, u, n, m, e)
  BY <1>1 DEF WriteCall
<1>5. CASE Cardinality(FreeBlocks(fs)) < n /\ Result(g1, FALSE)
  <2>1. u \in Nat /\ n \in Nat /\ u + n <= NumSlots
    BY <1>4 DEF WriteAsked
  <2>2. g1 \in FsRecord /\ SameFiles(fs, g1)
    BY <1>3, <2>1, ExtendedTyped
  <2> HIDE DEF g1
  <2>3. Root \in g1.used
    BY <1>3, <2>2 DEF SameFiles, Untouched, Sound
  <2> QED
    BY <1>3, <1>5, <2>2, <2>3, ResultKept
<1>6. CASE n <= Cardinality(FreeBlocks(fs)) /\ Result(g2, safe)
  <2>1. g2 \in FsRecord /\ ChangesFile(fs, g2, i)
    BY <1>3, <1>4, <1>6, WrittenTyped
  <2>2. safe => Sound(g2)
    BY <1>3, <1>4, WrittenFile
  <2> HIDE DEF g2, safe
  <2>3. Root \in g2.used
    BY <1>3, <2>1 DEF ChangesFile, Untouched, Sound
  <2> QED
    BY <1>3, <1>6, <2>1, <2>2, <2>3, ResultKept
<1> QED
  BY <1>1, <1>5, <1>6 DEF WriteCall

LEMMA DefragConsistent ==
  ASSUME Consistent, NEW t \in Threads, fs_defrag(t)
  PROVE  Consistent'
<1> DEFINE r == Defragmented(fs)
<1>1. Call(t) /\ Result(r.f, r.safe) /\ UNCHANGED copying
  BY DEF fs_defrag
<1>2. /\ fs \in FsRecord /\ Sound(fs) /\ calls' \in 0 .. MaxCalls
      /\ copying' \in [Threads -> Copies \cup {NULL}]
  BY <1>1, CallTyped, SoundNow DEF Call
<1>3. Scanned(fs, r)
  BY <1>2, DefragmentedFile
<1> HIDE DEF r
<1>4. r.f \in FsRecord /\ SameFiles(fs, r.f) /\ (r.safe => Sound(r.f))
  BY <1>3 DEF Scanned, Scan, Rearranged
<1>5. Root \in r.f.used
  BY <1>2, <1>4 DEF SameFiles, Untouched, Sound
<1> QED
  BY <1>1, <1>2, <1>4, <1>5, ResultKept

\* A copy over a file, whether it was there or fs_copy has just made it.
LEMMA AssignConsistent ==
  ASSUME fs \in FsRecord, Sound(fs), NEW src \in Inodes, NEW dst \in Inodes, fs.inode[dst].type = "file",
         NEW safe, safe => InUse(fs, src, "file") /\ CopyIsSafe(fs, src, dst),
         Result(Assigned(fs, src, dst), safe),
         copying' \in [Threads -> Copies \cup {NULL}], calls' \in 0 .. MaxCalls
  PROVE  Consistent'
<1> DEFINE g == Assigned(fs, src, dst)
<1>1. NamesAreExact(fs) /\ Root \in fs.used
  BY DEF Sound
<1>2. InUse(fs, dst, "file")
  BY <1>1 DEF NamesAreExact, InUse
<1>3. g \in FsRecord /\ ChangesFile(fs, g, dst)
  BY <1>1, AssignedTyped
<1>4. safe => Sound(g)
  <2> SUFFICES ASSUME safe PROVE Sound(g)
    OBVIOUS
  <2>1. InUse(fs, src, "file") /\ (src # dst \/ fs.inode[src].size = 0)
    BY DEF CopyIsSafe
  <2>2. InBlocks(fs.inode[src].size) \in 0 .. NumSlots /\ InBlocks(fs.inode[dst].size) \in 0 .. NumSlots
    BY FieldTypes, InBlocksFits
  <2> QED
    BY <1>2, <2>1, <2>2, AssignedFile
<1> HIDE DEF g
<1>5. Root \in g.used
  BY <1>1, <1>3 DEF ChangesFile, Untouched
<1>6. Result(g, safe)
  BY DEF g
<1> QED
  BY <1>3, <1>4, <1>5, <1>6, ResultKept

LEMMA CopyConsistent ==
  ASSUME Consistent, NEW t \in Threads, NEW d1 \in Inodes, NEW d2 \in Inodes,
         NEW n1 \in Names, NEW n2 \in Names, fs_copy(t, d1, n1, d2, n2)
  PROVE  Consistent'
<1> DEFINE src == Lookup(fs, d1, n1)
           dst == Lookup(fs, d2, n2)
           c == [step |-> "create", src |-> src, d1 |-> d1, n1 |-> n1, d2 |-> d2, n2 |-> n2]
<1>1. /\ Call(t) /\ InUse(fs, d1, "dir") /\ InUse(fs, d2, "dir")
      /\ src # 0 /\ fs.inode[src].type = "file"
      /\ \/ /\ dst # 0 /\ fs.inode[dst].type = "file"
            /\ Result(Assigned(fs, src, dst), CopyIsSafe(fs, src, dst))
            /\ UNCHANGED copying
         \/ copying' = [copying EXCEPT ![t] = c] /\ UNCHANGED <<fs, state>>
  BY DEF fs_copy
<1>2. /\ fs \in FsRecord /\ Sound(fs) /\ NamesAreExact(fs) /\ calls' \in 0 .. MaxCalls
      /\ copying \in [Threads -> Copies \cup {NULL}]
  BY <1>1, CallTyped, SoundNow DEF Call
<1>3. src \in Inodes /\ InUse(fs, src, "file") /\ dst \in Inodes \cup {0}
  BY <1>1, <1>2, LookupIs, LookupUsed DEF InUse
<1> HIDE DEF src, dst
<1>4. CASE /\ dst # 0 /\ fs.inode[dst].type = "file"
           /\ Result(Assigned(fs, src, dst), CopyIsSafe(fs, src, dst))
           /\ UNCHANGED copying
  <2>1. dst \in Inodes /\ copying' \in [Threads -> Copies \cup {NULL}]
    BY <1>2, <1>3, <1>4
  <2> QED
    BY <1>2, <1>3, <1>4, <2>1, AssignConsistent
<1>5. CASE copying' = [copying EXCEPT ![t] = c] /\ UNCHANGED <<fs, state>>
  <2>1. c \in Copies
    BY <1>3 DEF Copies
  <2> HIDE DEF c
  <2>2. copying' \in [Threads -> Copies \cup {NULL}]
    BY <1>2, <1>5, <2>1
  <2> QED
    BY <1>2, <1>5, <2>2 DEF Consistent, TypeOK
<1> QED
  BY <1>1, <1>4, <1>5

LEMMA CopyCreateConsistent ==
  ASSUME Consistent, NEW t \in Threads, CopyCreate(t)
  PROVE  Consistent'
<1> DEFINE c == copying[t]
<1>1. /\ state = "sound" /\ c # NULL /\ UNCHANGED calls
      /\ \/ /\ CanCreate(fs, c.d2, c.n2) /\ Result(Created(fs, c.d2, c.n2, "file"), TRUE)
            /\ copying' = [copying EXCEPT ![t].step = "share"]
         \/ Freeze /\ copying' = [copying EXCEPT ![t] = NULL]
  BY DEF CopyCreate
<1>2. fs \in FsRecord /\ Sound(fs) /\ copying \in [Threads -> Copies \cup {NULL}] /\ calls' \in 0 .. MaxCalls
  BY <1>1, SoundNow, ConsistentIs DEF TypeOK
<1>3. c \in Copies
  BY <1>1, <1>2
<1>4. c.d2 \in Inodes /\ c.n2 \in Names
  BY <1>3 DEF Copies
<1> HIDE DEF c
<1>5. CASE /\ CanCreate(fs, c.d2, c.n2) /\ Result(Created(fs, c.d2, c.n2, "file"), TRUE)
           /\ copying' = [copying EXCEPT ![t].step = "share"]
  <2> DEFINE g == Created(fs, c.d2, c.n2, "file")
  <2>1. g \in FsRecord /\ Sound(g)
    BY <1>2, <1>4, <1>5, CreatedFile
  <2>2. Result(g, TRUE)
    BY <1>5
  <2> HIDE DEF g
  <2>3. Root \in g.used
    BY <2>1 DEF Sound
  <2>4. copying' \in [Threads -> Copies \cup {NULL}]
    <3>1. [c EXCEPT !.step = "share"] \in Copies
      BY <1>3 DEF Copies
    <3>2. copying' = [copying EXCEPT ![t] = [c EXCEPT !.step = "share"]]
      BY <1>5 DEF c
    <3> QED
      BY <1>2, <3>1, <3>2
  <2> QED
    BY <1>2, <2>1, <2>2, <2>3, <2>4, ResultKept
<1>6. CASE Freeze /\ copying' = [copying EXCEPT ![t] = NULL]
  <2>1. copying' \in [Threads -> Copies \cup {NULL}]
    BY <1>2, <1>6
  <2> QED
    BY <1>2, <1>6, <2>1, FreezeKept
<1> QED
  BY <1>1, <1>5, <1>6

LEMMA CopyShareConsistent ==
  ASSUME Consistent, NEW t \in Threads, CopyShare(t)
  PROVE  Consistent'
<1> DEFINE c == copying[t]
           dst == Lookup(fs, c.d2, c.n2)
           safe == /\ Lookup(fs, c.d1, c.n1) = c.src /\ InUse(fs, c.src, "file")
                   /\ CopyIsSafe(fs, c.src, dst)
<1>1. /\ state = "sound" /\ c # NULL /\ UNCHANGED calls
      /\ copying' = [copying EXCEPT ![t] = NULL]
      /\ \/ /\ dst # 0 /\ fs.inode[dst].type = "file"
            /\ Result(Assigned(fs, c.src, dst), safe)
         \/ UNCHANGED <<fs, state>>
  BY DEF CopyShare
<1>2. fs \in FsRecord /\ Sound(fs) /\ copying \in [Threads -> Copies \cup {NULL}] /\ calls' \in 0 .. MaxCalls
  BY <1>1, SoundNow, ConsistentIs DEF TypeOK
<1>3. c \in Copies
  BY <1>1, <1>2
<1>4. c.src \in Inodes /\ c.d2 \in Inodes
  BY <1>3 DEF Copies
<1> HIDE DEF c
<1>5. dst \in Inodes \cup {0}
  BY <1>2, <1>4, LookupIs
<1>6. copying' \in [Threads -> Copies \cup {NULL}]
  BY <1>1, <1>2
<1>7. safe => InUse(fs, c.src, "file") /\ CopyIsSafe(fs, c.src, dst)
  OBVIOUS
<1> HIDE DEF dst, safe
<1>8. CASE dst # 0 /\ fs.inode[dst].type = "file" /\ Result(Assigned(fs, c.src, dst), safe)
  <2>1. dst \in Inodes
    BY <1>5, <1>8
  <2> QED
    BY <1>2, <1>4, <1>6, <1>7, <1>8, <2>1, AssignConsistent
<1>9. CASE UNCHANGED <<fs, state>>
  BY <1>2, <1>6, <1>9 DEF Consistent, TypeOK
<1> QED
  BY <1>1, <1>8, <1>9

\* An append of nothing changes nothing.
LEMMA AppendNothing ==
  ASSUME NEW f \in FsRecord, Sound(f), NEW x \in Inodes, NEW y \in Inodes, Size(f, y) = 0
  PROVE  Appended(f, x, y) = f
<1> DEFINE a == InBlocks(Size(f, x))
           z == f.inode[x].size
<1>1. NamesAreExact(f)
  BY DEF Sound
<1>2. a \in 0 .. NumSlots /\ NumSlots \in Nat
  BY <1>1, SizeBound, Constants
<1>3. InBlocks(Size(f, y)) = 0
  <2>1. InBlocks(0) \in Nat /\ (0 < InBlocks(0) <=> 0 * BlockUnits < 0)
    BY InBlocksIs
  <2>2. 0 * BlockUnits = 0
    BY Constants
  <2> QED
    BY <2>1, <2>2
<1>4. \E g : Shares(g, f, x, a, y, 0) /\ g[0] = AppendSlots(f, x, y)
  <2>1. a \in Nat /\ 0 \in Nat /\ a + 0 <= NumSlots /\ 0 = InBlocks(Size(f, y)) /\ a = InBlocks(Size(f, x))
    BY <1>2, <1>3
  <2> HIDE DEF a
  <2> QED
    BY <2>1, AppendSteps
<1>5. AppendSlots(f, x, y) = f
  BY <1>4 DEF Shares
<1>6. z \in Nat
  BY FieldTypes
<1>7. Appended(f, x, y) = Sized(f, x, z)
  <2>1. Appended(f, x, y) = Sized(AppendSlots(f, x, y), x, AppendSlots(f, x, y).inode[x].size + Size(f, y))
    BY AppendedIs
  <2>2. z + 0 = z
    BY <1>6
  <2> QED
    BY <1>5, <2>1, <2>2
<1>8. Sized(f, x, z) = f
  <2>1. f.inode \in [Inodes -> Inode] /\ f.inode[x] \in Inode
    BY FieldTypes
  <2>2. [f.inode[x] EXCEPT !.size = z] = f.inode[x]
    BY <2>1 DEF Inode
  <2>3. Sized(f, x, z) = [f EXCEPT !.inode = [f.inode EXCEPT ![x] = f.inode[x]]]
    BY <2>2 DEF Sized
  <2>4. [f.inode EXCEPT ![x] = f.inode[x]] = f.inode
    BY <2>1
  <2> QED
    BY <2>3, <2>4 DEF FsRecord
<1> QED
  BY <1>7, <1>8

LEMMA AppendConsistent ==
  ASSUME Consistent, NEW t \in Threads, NEW d1 \in Inodes, NEW d2 \in Inodes,
         NEW n1 \in Names, NEW n2 \in Names, fs_append(t, d1, n1, d2, n2)
  PROVE  Consistent'
<1> DEFINE x == Lookup(fs, d1, n1)
           y == Lookup(fs, d2, n2)
           a == InBlocks(Size(fs, x))
           n == InBlocks(Size(fs, y))
           g == Appended(fs, x, y)
           safe == AppendIsSafe(fs, x, y)
<1>1. /\ Call(t) /\ InUse(fs, d1, "dir") /\ InUse(fs, d2, "dir")
      /\ x # 0 /\ y # 0 /\ fs.inode[x].type = "file"
      /\ Len(UsedSlots(fs, y)) <= NumSlots - Len(UsedSlots(fs, x))
      /\ Result(g, safe) /\ UNCHANGED copying
  BY DEF fs_append
<1>2. /\ fs \in FsRecord /\ Sound(fs) /\ NamesAreExact(fs) /\ calls' \in 0 .. MaxCalls
      /\ copying' \in [Threads -> Copies \cup {NULL}]
  BY <1>1, CallTyped, SoundNow DEF Call
<1>3. x \in Inodes /\ InUse(fs, x, "file") /\ y \in Inodes /\ y \in fs.used
  BY <1>1, <1>2, LookupUsed DEF InUse
<1> HIDE DEF x, y, safe
<1>4. a \in Nat /\ n \in Nat /\ a + n <= NumSlots
  <2>1. a \in 0 .. NumSlots /\ n \in 0 .. NumSlots /\ NumSlots \in Nat
    BY <1>2, <1>3, SizeBound, Constants
  <2>2. Len(UsedSlots(fs, y)) = n /\ Len(UsedSlots(fs, x)) = a
    BY <2>1, UsedSlotsAre
  <2> HIDE DEF a, n
  <2> QED
    BY <1>1, <2>1, <2>2
<1>5. g \in FsRecord /\ ChangesFile(fs, g, x)
  BY <1>2, <1>3, <1>4, AppendedTyped
<1>6. safe => Sound(g)
  <2>1. CASE Size(fs, y) = 0
    BY <1>2, <1>3, <2>1, AppendNothing
  <2>2. CASE fs.inode[y].type = "file" /\ fs.inode[x].size % BlockUnits = 0
    <3>1. InUse(fs, y, "file") /\ Size(fs, y) = fs.inode[y].size /\ Size(fs, x) = fs.inode[x].size
      BY <1>1, <1>3, <2>2 DEF InUse, Size
    <3>2. /\ a = InBlocks(fs.inode[x].size) /\ n = InBlocks(fs.inode[y].size)
          /\ fs.inode[y].size = 0 \/ fs.inode[x].size % BlockUnits = 0
      BY <2>2, <3>1
    <3> HIDE DEF a, n
    <3> QED
      BY <1>2, <1>3, <1>4, <3>1, <3>2, AppendedFile
  <2> QED
    BY <2>1, <2>2 DEF safe, AppendIsSafe
<1> HIDE DEF g
<1>7. Root \in g.used
  BY <1>2, <1>5 DEF ChangesFile, Untouched, Sound
<1> QED
  BY <1>1, <1>2, <1>5, <1>6, <1>7, ResultKept

LEMMA NextConsistent ==
  ASSUME Consistent, [Next]_vars
  PROVE  Consistent'
<1>1. CASE Next
  <2>1. PICK t \in Threads :
          \/ \E d \in Inodes, n \in Names : fs_create(t, d, n) \/ fs_mkdir(t, d, n) \/ fs_remove(t, d, n)
          \/ \E i \in Inodes, v \in Data, count \in 1 .. MaxCount :
               \E offset \in 0 .. NumSlots * BlockUnits : fs_write(t, i, offset, count, v)
          \/ \E d1, d2 \in Inodes, n1, n2 \in Names :
               fs_copy(t, d1, n1, d2, n2) \/ fs_append(t, d1, n1, d2, n2)
          \/ CopyCreate(t) \/ CopyShare(t) \/ fs_defrag(t)
    BY <1>1 DEF Next
  <2>2. CASE \E d \in Inodes, n \in Names : fs_create(t, d, n) \/ fs_mkdir(t, d, n) \/ fs_remove(t, d, n)
    BY <2>2, CreatesConsistent, RemoveConsistent
  <2>3. CASE \E i \in Inodes, v \in Data, count \in 1 .. MaxCount :
               \E offset \in 0 .. NumSlots * BlockUnits : fs_write(t, i, offset, count, v)
    BY <2>3, WriteConsistent
  <2>4. CASE \E d1, d2 \in Inodes, n1, n2 \in Names :
               fs_copy(t, d1, n1, d2, n2) \/ fs_append(t, d1, n1, d2, n2)
    BY <2>4, CopyConsistent, AppendConsistent
  <2>5. CASE CopyCreate(t) \/ CopyShare(t) \/ fs_defrag(t)
    BY <2>5, CopyCreateConsistent, CopyShareConsistent, DefragConsistent
  <2> QED
    BY <2>1, <2>2, <2>3, <2>4, <2>5
<1>2. CASE UNCHANGED vars
  BY <1>2 DEF vars, Consistent, TypeOK
<1> QED
  BY <1>1, <1>2

\* No sequence of calls that the code carries out as asked, interleaved with the
\* parts of a copy, loses a block, hands one out twice, miscounts those that share
\* one, or leaves a name without an inode or an inode without its name.
THEOREM FileSystemConsistent == Spec => []Consistent
BY InitConsistent, NextConsistent, PTL DEF Spec

-----------------------------------------------------------------------------
(* The store that a record shows                                           *)

LEMMA ListingIs ==
  ASSUME NEW f \in FsRecord, NEW d \in Inodes
  PROVE  /\ \A n : n \in DOMAIN Listing(f, d) <=> Lookup(f, d, n) # 0
         /\ Listing(f, d) = [n \in DOMAIN Listing(f, d) |-> Lookup(f, d, n)]
<1>1. \A n : n \in DOMAIN Listing(f, d) <=> \E k \in DOMAIN f.entries[d] : f.entries[d][k].name = n
  BY DEF Listing
<1>2. \A n : n \in DOMAIN Listing(f, d) <=> Lookup(f, d, n) # 0
  BY <1>1, LookupIs
<1> QED
  BY <1>2 DEF Listing

LEMMA ListingOf ==
  ASSUME NEW f \in FsRecord, NEW d \in Inodes, NEW l, l = [n \in DOMAIN l |-> l[n]],
         \A n : n \in DOMAIN l <=> Lookup(f, d, n) # 0,
         \A n \in DOMAIN l : l[n] = Lookup(f, d, n)
  PROVE  Listing(f, d) = l
<1>1. /\ \A n : n \in DOMAIN Listing(f, d) <=> Lookup(f, d, n) # 0
      /\ Listing(f, d) = [n \in DOMAIN Listing(f, d) |-> Lookup(f, d, n)]
  BY ListingIs
<1>2. DOMAIN Listing(f, d) = DOMAIN l
  BY <1>1
<1> QED
  BY <1>1, <1>2

LEMMA FilesAre ==
  ASSUME NEW f \in FsRecord, NamesAreExact(f)
  PROVE  /\ DOMAIN Tree(f) = Directories(f) /\ \A d \in Directories(f) : Tree(f)[d] = Listing(f, d)
         /\ \A d : d \in Directories(f) <=> InUse(f, d, "dir")
         /\ \A i : i \in f.used \ Directories(f) <=> InUse(f, i, "file")
         /\ DOMAIN Files(f) = f.used \ Directories(f)
         /\ \A i : InUse(f, i, "file") => Files(f)[i] = Contents(f, i)
         /\ Directories(f) \cup (f.used \ Directories(f)) = f.used /\ Directories(f) \subseteq Inodes
<1>1. \A i \in f.used : i \in Inodes /\ f.inode[i].type \in {"file", "dir"}
  BY FieldTypes DEF NamesAreExact
<1>2. \A i : i \in f.used \ Directories(f) <=> InUse(f, i, "file")
  BY <1>1 DEF Directories, InUse
<1> QED
  BY <1>1, <1>2 DEF Tree, Files, Directories, InUse

\* The unit of a file that the k-th datum is.
Unit(f, i, k) == Cell(f, <<i, (k - 1) \div BlockUnits>>)[(k - 1) % BlockUnits]

LEMMA ContentsAre ==
  ASSUME NEW f \in FsRecord, NEW i \in Inodes
  PROVE  /\ f.inode[i].size \in Nat
         /\ Contents(f, i) = [k \in 1 .. f.inode[i].size |-> Unit(f, i, k)]
         /\ Len(Contents(f, i)) = f.inode[i].size /\ DOMAIN Contents(f, i) = 1 .. f.inode[i].size
         /\ \A k \in 1 .. f.inode[i].size : Contents(f, i)[k] = Unit(f, i, k)
<1>1. f.inode[i].size \in Nat
  BY FieldTypes, Constants
<1>2. Contents(f, i) = [k \in 1 .. f.inode[i].size |-> Unit(f, i, k)]
  BY DEF Contents, Unit, Cell, At
<1> QED
  BY <1>1, <1>2

\* Every unit of a file is in one of its slots.
LEMMA UnitOf ==
  ASSUME NEW s \in Nat, NEW k \in 1 .. s
  PROVE  /\ (k - 1) \div BlockUnits \in Nat /\ (k - 1) \div BlockUnits < InBlocks(s)
         /\ (k - 1) % BlockUnits \in Units
         /\ k - 1 = ((k - 1) \div BlockUnits) * BlockUnits + ((k - 1) % BlockUnits)
<1>1. k - 1 \in Nat /\ k - 1 < s /\ BlockUnits \in Nat \ {0} /\ Units = 0 .. BlockUnits - 1
  BY Constants
<1> DEFINE q == (k - 1) \div BlockUnits
           r == (k - 1) % BlockUnits
<1>2. q \in Nat /\ r \in 0 .. BlockUnits - 1 /\ k - 1 = q * BlockUnits + r
  BY <1>1, DivMod
<1> HIDE DEF q, r
<1>3. q * BlockUnits \in Nat
  BY <1>1, <1>2
<1>4. q * BlockUnits < s
  <2> DEFINE z == q * BlockUnits
  <2>1. z \in Nat /\ k - 1 = z + r
    BY <1>2, <1>3
  <2> HIDE DEF z
  <2>2. z < s
    BY <1>1, <1>2, <2>1
  <2> QED
    BY <2>2 DEF z
<1>5. q < InBlocks(s)
  BY <1>2, <1>4, InBlocksIs
<1> QED
  BY <1>1, <1>2, <1>5 DEF q, r

LEMMA TimesSum ==
  ASSUME NEW a \in Nat, NEW b \in Nat, NEW c \in Nat
  PROVE  (a + b) * c = a * c + b * c /\ a * c \in Nat /\ b * c \in Nat
OBVIOUS

LEMMA UnitAt ==
  ASSUME NEW f, NEW i, NEW k \in Nat, NEW q \in Nat, NEW r \in Units, k - 1 = q * BlockUnits + r
  PROVE  Unit(f, i, k) = Cell(f, <<i, q>>)[r]
<1>1. BlockUnits \in Nat \ {0} /\ r \in 0 .. BlockUnits - 1
  BY Constants
<1>2. q * BlockUnits \in Nat
  BY <1>1
<1> DEFINE j == k - 1
<1>3. j \in Nat /\ j = q * BlockUnits + r
  BY <1>1, <1>2
<1> HIDE DEF j
<1>4. j \div BlockUnits = q /\ j % BlockUnits = r
  BY <1>1, <1>3, DivModOf
<1>5. Unit(f, i, k) = Cell(f, <<i, j \div BlockUnits>>)[j % BlockUnits]
  BY Zenon DEF Unit, j
<1> QED
  BY <1>4, <1>5

\* What the slots hold is what the file holds.
LEMMA ContentsKept ==
  ASSUME NEW f \in FsRecord, NEW g \in FsRecord, NEW i \in Inodes, NEW j \in Inodes,
         g.inode[j].size = f.inode[i].size,
         \A q \in Nat : q < InBlocks(f.inode[i].size) => Cell(g, <<j, q>>) = Cell(f, <<i, q>>)
  PROVE  Contents(g, j) = Contents(f, i)
<1> DEFINE s == f.inode[i].size
<1>1. /\ s \in Nat /\ Contents(f, i) = [k \in 1 .. s |-> Unit(f, i, k)]
      /\ Contents(g, j) = [k \in 1 .. s |-> Unit(g, j, k)]
  BY ContentsAre
<1> HIDE DEF s
<1>2. ASSUME NEW k \in 1 .. s PROVE Unit(g, j, k) = Unit(f, i, k)
  <2>1. (k - 1) \div BlockUnits \in Nat /\ (k - 1) \div BlockUnits < InBlocks(s)
    BY <1>1, UnitOf
  <2>2. Cell(g, <<j, (k - 1) \div BlockUnits>>) = Cell(f, <<i, (k - 1) \div BlockUnits>>)
    BY <2>1 DEF s
  <2> QED
    BY <2>2 DEF Unit
<1> QED
  BY <1>1, <1>2

LEMMA ContentsSame ==
  ASSUME NEW f \in FsRecord, NEW g \in FsRecord, NEW i \in Inodes, InUse(f, i, "file"),
         g.inode[i].size = f.inode[i].size,
         NEW K, SameCells(f, g, K), \A h \in FilePlaces(f) : h[1] = i => h \in K
  PROVE  Contents(g, i) = Contents(f, i)
<1> DEFINE s == f.inode[i].size
<1>1. /\ s \in Nat /\ InBlocks(s) \in 0 .. NumSlots /\ NumSlots \in Nat
      /\ Slots = 0 .. NumSlots - 1 /\ Size(f, i) = s
  BY ContentsAre, FieldTypes, InBlocksFits, Constants DEF Size, InUse
<1> HIDE DEF s
<1>2. ASSUME NEW q \in Nat, q < InBlocks(s) PROVE Cell(g, <<i, q>>) = Cell(f, <<i, q>>)
  <2>1. q \in Slots
    BY <1>1, <1>2
  <2>2. <<i, q>> \in FilePlaces(f)
    BY <1>1, <1>2, <2>1, PlacesOf
  <2>3. <<i, q>> \in K
    BY <2>2
  <2> QED
    BY <2>3 DEF SameCells
<1> QED
  BY <1>2, ContentsKept DEF s

\* A change to one file shows in that file only.
LEMMA FileShown ==
  ASSUME NEW f \in FsRecord, NEW g \in FsRecord, Sound(f), NEW i \in Inodes, InUse(f, i, "file"),
         ChangesFile(f, g, i), NEW K, SameCells(f, g, K),
         \A h \in FilePlaces(f) : h[1] # i => h \in K
  PROVE  Tree(g) = Tree(f) /\ Files(g) = [Files(f) EXCEPT ![i] = Contents(g, i)]
<1>1. NamesAreExact(f) /\ NamesAreExact(g) /\ g.used = f.used
  BY NamesKept DEF Sound
<1>2. /\ \A ty : \A j \in Inodes : InUse(g, j, ty) <=> InUse(f, j, ty)
      /\ \A j, n : Lookup(g, j, n) = Lookup(f, j, n)
  BY NamesKept
<1>3. g.entries = f.entries /\ f.used \subseteq Inodes
  BY FieldTypes DEF ChangesFile, Untouched
<1>4. Directories(g) = Directories(f)
  BY <1>1, <1>3 DEF Directories, ChangesFile
<1>5. \A d : Listing(g, d) = Listing(f, d)
  BY <1>2, <1>3 DEF Listing
<1>6. Tree(g) = Tree(f)
  BY <1>4, <1>5 DEF Tree
<1>7. ASSUME NEW j \in f.used \ Directories(f), j # i PROVE Contents(g, j) = Contents(f, j)
  <2>1. j \in Inodes /\ InUse(f, j, "file")
    BY <1>1, <1>3, FilesAre
  <2>2. g.inode[j].size = f.inode[j].size
    BY <1>7, <2>1 DEF ChangesFile
  <2>3. \A h \in FilePlaces(f) : h[1] = j => h \in K
    BY <1>7
  <2> QED
    BY <2>1, <2>2, <2>3, ContentsSame
<1> QED
  BY <1>1, <1>4, <1>6, <1>7 DEF Files

\* A change to none shows nowhere.
LEMMA NothingShown ==
  ASSUME NEW f \in FsRecord, NEW g \in FsRecord, Sound(f), SameFiles(f, g), SameCells(f, g, FilePlaces(f))
  PROVE  Tree(g) = Tree(f) /\ Files(g) = Files(f)
<1>1. NamesAreExact(f) /\ g.used = f.used /\ g.entries = f.entries /\ f.used \subseteq Inodes
  BY FieldTypes DEF SameFiles, Untouched, Sound
<1>2. Root \in Inodes /\ ChangesFile(f, g, Root)
  BY Constants DEF SameFiles, SameKinds, ChangesFile
<1>3. \A j, n : Lookup(g, j, n) = Lookup(f, j, n)
  BY <1>2, NamesKept
<1>4. Directories(g) = Directories(f)
  BY <1>1, <1>2 DEF Directories, ChangesFile
<1>5. \A d : Listing(g, d) = Listing(f, d)
  BY <1>1, <1>3 DEF Listing
<1>6. Tree(g) = Tree(f)
  BY <1>4, <1>5 DEF Tree
<1>7. ASSUME NEW j \in f.used \ Directories(f) PROVE Contents(g, j) = Contents(f, j)
  <2>1. j \in Inodes /\ InUse(f, j, "file")
    BY <1>1, FilesAre
  <2>2. g.inode[j].size = f.inode[j].size
    BY <2>1 DEF SameFiles, SameKinds
  <2> QED
    BY <2>1, <2>2, ContentsSame
<1> QED
  BY <1>1, <1>4, <1>6, <1>7 DEF Files

\* What the store does to its tree and its files when a name is made.
CreatesInStore(f, g, d, n, i, type) ==
  /\ d \in DOMAIN Tree(f) /\ n \notin DOMAIN Tree(f)[d]
  /\ i \in Inodes \ (DOMAIN Tree(f) \cup DOMAIN Files(f))
  /\ type = "file" =>
       /\ Tree(g) = [Tree(f) EXCEPT ![d] = Store!Bind(Tree(f)[d], n, i)]
       /\ Files(g) = Store!Bind(Files(f), i, <<>>)
  /\ type = "dir" =>
       /\ Tree(g) = Store!Bind([Tree(f) EXCEPT ![d] = Store!Bind(Tree(f)[d], n, i)], i, [m \in {} |-> i])
       /\ Files(g) = Files(f)

LEMMA ListingCreated ==
  ASSUME NEW f \in FsRecord, NEW g \in FsRecord, NamesAreExact(f), NamesAreExact(g),
         NEW d \in Inodes, InUse(f, d, "dir"), NEW n \in Names, Lookup(f, d, n) = 0,
         NEW type \in {"file", "dir"}, NEW i, HasCreated(f, g, d, n, type, i)
  PROVE  /\ \A c \in Directories(f) \ {d} : Listing(g, c) = Listing(f, c)
         /\ Listing(g, d) = Store!Bind(Listing(f, d), n, i)
         /\ Listing(g, i) = [m \in {} |-> i]
<1> DEFINE l == Len(f.entries[d]) + 1
<1>1. /\ i \in Inodes \ f.used /\ i # d /\ g.used = f.used \cup {i} /\ g.entries = WithEntry(f, d, n, i)
      /\ \A j \in Inodes \ {i} : g.inode[j].type = f.inode[j].type
  BY DEF HasCreated
<1>2. /\ g.entries[i] = <<>> /\ g.entries[d][l].name = n /\ g.entries[d][l].inode = i
      /\ \A k \in DOMAIN f.entries[d] : k # l /\ g.entries[d][k] = f.entries[d][k]
      /\ \A j \in Inodes \ {d, i} : g.entries[j] = f.entries[j]
      /\ DOMAIN g.entries[d] = DOMAIN f.entries[d] \cup {l}
  BY <1>1, WithEntryIs
<1>3. ASSUME NEW c \in Directories(f) \ {d} PROVE Listing(g, c) = Listing(f, c)
  <2>1. c \in Inodes \ {d, i}
    BY <1>1, FieldTypes DEF Directories
  <2>2. g.entries[c] = f.entries[c]
    BY <1>2, <2>1
  <2> QED
    BY <2>2 DEF Listing, Lookup
<1>4. Listing(g, i) = [m \in {} |-> i]
  <2>1. DOMAIN g.entries[i] = {}
    BY <1>2
  <2> QED
    BY <2>1 DEF Listing
<1>5. InUse(g, d, "dir")
  BY <1>1 DEF InUse
<1> DEFINE b == Store!Bind(Listing(f, d), n, i)
<1>6. /\ DOMAIN b = DOMAIN Listing(f, d) \cup {n}
      /\ b[n] = i /\ b = [m \in DOMAIN b |-> b[m]]
      /\ \A m \in DOMAIN Listing(f, d) : m # n => b[m] = Listing(f, d)[m]
  BY DEF Store!Bind
<1>7. /\ \A m : m \in DOMAIN Listing(f, d) <=> Lookup(f, d, m) # 0
      /\ \A m \in DOMAIN Listing(f, d) : Listing(f, d)[m] = Lookup(f, d, m)
  BY ListingIs
<1> HIDE DEF b, l
<1>8. Lookup(g, d, n) = i
  <2>1. l \in DOMAIN g.entries[d]
    BY <1>2
  <2> QED
    BY <1>2, <1>5, <2>1, LookupExact
<1>9. ASSUME NEW m, m # n PROVE Lookup(g, d, m) = Lookup(f, d, m)
  <2>1. CASE Lookup(f, d, m) # 0
    <3>1. PICK k \in DOMAIN f.entries[d] : f.entries[d][k].name = m /\ f.entries[d][k].inode = Lookup(f, d, m)
      BY <2>1, LookupIs
    <3>2. k \in DOMAIN g.entries[d] /\ g.entries[d][k] = f.entries[d][k]
      BY <1>2
    <3> QED
      BY <1>5, <3>1, <3>2, LookupExact
  <2>2. CASE Lookup(f, d, m) = 0
    <3>1. \A k \in DOMAIN f.entries[d] : f.entries[d][k].name # m
      BY <2>2, LookupIs
    <3>2. \A k \in DOMAIN g.entries[d] : g.entries[d][k].name # m
      BY <1>2, <1>9, <3>1
    <3> QED
      BY <2>2, <3>2, LookupIs
  <2> QED
    BY <2>1, <2>2
<1>10. Listing(g, d) = b
  <2>1. i # 0
    BY <1>1, LookupIs
  <2>2. \A m : m \in DOMAIN b <=> Lookup(g, d, m) # 0
    BY <1>6, <1>7, <1>8, <1>9, <2>1
  <2>3. \A m \in DOMAIN b : b[m] = Lookup(g, d, m)
    BY <1>6, <1>7, <1>8, <1>9
  <2> QED
    BY <1>6, <2>2, <2>3, ListingOf
<1> QED
  BY <1>3, <1>4, <1>10 DEF b

LEMMA CreatedShown ==
  ASSUME NEW f \in FsRecord, Sound(f), NEW g \in FsRecord, Sound(g),
         NEW d \in Inodes, InUse(f, d, "dir"), NEW n \in Names, Lookup(f, d, n) = 0,
         NEW type \in {"file", "dir"}, NEW i, HasCreated(f, g, d, n, type, i)
  PROVE  CreatesInStore(f, g, d, n, i, type)
<1>1. /\ i \in Inodes \ f.used /\ i # d /\ g.used = f.used \cup {i} /\ g.inode[i].type = type
      /\ \A j \in Inodes \ {i} : g.inode[j].type = f.inode[j].type /\ g.inode[j].size = f.inode[j].size
      /\ g.inode[i].size = 0 /\ SameCells(f, g, FilePlaces(f))
  BY DEF HasCreated
<1>2. NamesAreExact(f) /\ NamesAreExact(g) /\ f.used \subseteq Inodes
  BY FieldTypes DEF Sound
<1>3. /\ \A c \in Directories(f) \ {d} : Listing(g, c) = Listing(f, c)
      /\ Listing(g, d) = Store!Bind(Listing(f, d), n, i)
      /\ Listing(g, i) = [m \in {} |-> i]
  BY <1>2, ListingCreated
<1>4. /\ DOMAIN Tree(f) = Directories(f) /\ \A c \in Directories(f) : Tree(f)[c] = Listing(f, c)
      /\ DOMAIN Files(f) = f.used \ Directories(f)
      /\ d \in Directories(f) /\ Directories(f) \subseteq f.used
  BY <1>2, FilesAre
<1>5. n \notin DOMAIN Tree(f)[d]
  BY <1>4, ListingIs
<1>6. Directories(g) = IF type = "dir" THEN Directories(f) \cup {i} ELSE Directories(f)
  BY <1>1, <1>2 DEF Directories
<1>7. g.used \ Directories(g) =
        IF type = "dir" THEN f.used \ Directories(f) ELSE (f.used \ Directories(f)) \cup {i}
  BY <1>1, <1>4, <1>6
<1>8. ASSUME NEW j \in f.used \ Directories(f) PROVE Contents(g, j) = Contents(f, j)
  <2>1. j \in Inodes /\ InUse(f, j, "file") /\ g.inode[j].size = f.inode[j].size
    BY <1>1, <1>2, FilesAre
  <2> QED
    BY <1>1, <2>1, ContentsSame
<1>9. Contents(g, i) = <<>>
  <2>1. Contents(g, i) = [k \in 1 .. 0 |-> Unit(g, i, k)]
    BY <1>1, ContentsAre
  <2> QED
    BY <2>1
<1>10. CASE type = "file"
  <2>1. Tree(g) = [Tree(f) EXCEPT ![d] = Store!Bind(Tree(f)[d], n, i)]
    BY <1>3, <1>4, <1>6, <1>10 DEF Tree
  <2>2. Files(g) = Store!Bind(Files(f), i, <<>>)
    BY <1>1, <1>4, <1>7, <1>8, <1>9, <1>10 DEF Files, Store!Bind
  <2> QED
    BY <1>1, <1>4, <1>5, <1>10, <2>1, <2>2 DEF CreatesInStore
<1>11. CASE type = "dir"
  <2> DEFINE t == [Tree(f) EXCEPT ![d] = Store!Bind(Tree(f)[d], n, i)]
  <2>1. /\ DOMAIN t = Directories(f) /\ t[d] = Store!Bind(Listing(f, d), n, i)
        /\ \A c \in Directories(f) \ {d} : t[c] = Listing(f, c)
    BY <1>4
  <2> HIDE DEF t
  <2>2. Tree(g) = Store!Bind(t, i, [m \in {} |-> i])
    <3>1. Tree(g) = [c \in Directories(f) \cup {i} |-> Listing(g, c)]
      BY <1>6, <1>11 DEF Tree
    <3> QED
      BY <1>1, <1>3, <1>4, <2>1, <3>1 DEF Store!Bind
  <2>3. Files(g) = Files(f)
    BY <1>7, <1>8, <1>11 DEF Files
  <2> QED
    BY <1>1, <1>4, <1>5, <1>11, <2>2, <2>3 DEF CreatesInStore, t
<1> QED
  BY <1>10, <1>11

\* What it does when one is removed.
RemovesInStore(f, g, d, n) ==
  LET x == Tree(f)[d][n] IN
  /\ d \in DOMAIN Tree(f) /\ n \in DOMAIN Tree(f)[d]
  /\ x \in DOMAIN Tree(f) => Tree(f)[x] = [m \in {} |-> x]
  /\ Tree(g) = Restrict([Tree(f) EXCEPT ![d] = Restrict(Tree(f)[d], DOMAIN Tree(f)[d] \ {n})],
                        DOMAIN Tree(f) \ {x})
  /\ Files(g) = Restrict(Files(f), DOMAIN Files(f) \ {x})

LEMMA ListingRemoved ==
  ASSUME NEW f \in FsRecord, NEW g \in FsRecord, NamesAreExact(f), NamesAreExact(g),
         NEW d \in Inodes, NEW x \in Inodes, MayLose(f, d, x), LosesName(f, g, d, x),
         NEW n, n = Last(f.entries[d]).name
  PROVE  /\ \A c \in Directories(f) \ {d, x} : Listing(g, c) = Listing(f, c)
         /\ Listing(g, d) = Restrict(Listing(f, d), DOMAIN Listing(f, d) \ {n})
<1> DEFINE l == Len(f.entries[d])
<1>1. /\ InUse(f, d, "dir") /\ f.entries[d] # <<>> /\ x # d
      /\ g.used = f.used \ {x} /\ g.entries = WithoutLast(f, d, x)
      /\ \A j \in Inodes \ {x} : g.inode[j].type = f.inode[j].type
  BY DEF MayLose, LosesName
<1>2. /\ l \in Nat \ {0} /\ Last(f.entries[d]) = f.entries[d][l] /\ DOMAIN f.entries[d] = 1 .. l
      /\ DOMAIN g.entries[d] = 1 .. l - 1
      /\ \A k \in 1 .. l - 1 : g.entries[d][k] = f.entries[d][k]
      /\ \A j \in Inodes \ {d, x} : g.entries[j] = f.entries[j]
  BY <1>1, WithoutLastIs
<1>3. ASSUME NEW c \in Directories(f) \ {d, x} PROVE Listing(g, c) = Listing(f, c)
  <2>1. c \in Inodes \ {d, x}
    BY FieldTypes DEF Directories
  <2>2. g.entries[c] = f.entries[c]
    BY <1>2, <2>1
  <2> QED
    BY <2>2 DEF Listing, Lookup
<1>4. InUse(g, d, "dir")
  BY <1>1 DEF InUse
<1> HIDE DEF l
<1>5. Lookup(g, d, n) = 0
  <2> SUFFICES ASSUME NEW k \in DOMAIN g.entries[d] PROVE g.entries[d][k].name # n
    BY LookupIs
  <2>1. k \in 1 .. l - 1 /\ k \in DOMAIN f.entries[d] /\ l \in DOMAIN f.entries[d] /\ k # l
    BY <1>2
  <2>2. f.entries[d][k].name # f.entries[d][l].name
    BY <1>1, <2>1 DEF NamesAreExact, InUse
  <2> QED
    BY <1>2, <2>1, <2>2
<1>6. ASSUME NEW m, m # n PROVE Lookup(g, d, m) = Lookup(f, d, m)
  <2>1. CASE Lookup(f, d, m) # 0
    <3>1. PICK k \in DOMAIN f.entries[d] : f.entries[d][k].name = m /\ f.entries[d][k].inode = Lookup(f, d, m)
      BY <2>1, LookupIs
    <3>2. k # l
      BY <1>2, <1>6, <3>1
    <3>3. k \in DOMAIN g.entries[d] /\ g.entries[d][k] = f.entries[d][k]
      BY <1>2, <3>2
    <3> QED
      BY <1>4, <3>1, <3>3, LookupExact
  <2>2. CASE Lookup(f, d, m) = 0
    <3>1. \A k \in DOMAIN f.entries[d] : f.entries[d][k].name # m
      BY <2>2, LookupIs
    <3>2. \A k \in DOMAIN g.entries[d] : k \in DOMAIN f.entries[d] /\ g.entries[d][k] = f.entries[d][k]
      BY <1>2
    <3>3. \A k \in DOMAIN g.entries[d] : g.entries[d][k].name # m
      BY <3>1, <3>2
    <3> QED
      BY <2>2, <3>3, LookupIs
  <2> QED
    BY <2>1, <2>2
<1>7. /\ \A m : m \in DOMAIN Listing(f, d) <=> Lookup(f, d, m) # 0
      /\ \A m \in DOMAIN Listing(f, d) : Listing(f, d)[m] = Lookup(f, d, m)
  BY ListingIs
<1> DEFINE b == Restrict(Listing(f, d), DOMAIN Listing(f, d) \ {n})
<1>8. /\ DOMAIN b = DOMAIN Listing(f, d) \ {n} /\ b = [m \in DOMAIN b |-> b[m]]
      /\ \A m \in DOMAIN b : b[m] = Listing(f, d)[m]
  BY DEF Restrict
<1> HIDE DEF b
<1>9. Listing(g, d) = b
  <2>1. \A m : m \in DOMAIN b <=> Lookup(g, d, m) # 0
    BY <1>5, <1>6, <1>7, <1>8
  <2>2. \A m \in DOMAIN b : b[m] = Lookup(g, d, m)
    BY <1>5, <1>6, <1>7, <1>8
  <2> QED
    BY <1>8, <2>1, <2>2, ListingOf
<1> QED
  BY <1>3, <1>9 DEF b

LEMMA RemovedShown ==
  ASSUME NEW f \in FsRecord, Sound(f), NEW d \in Inodes, NEW x \in Inodes, MayLose(f, d, x),
         NEW n, n = Last(f.entries[d]).name, x = Lookup(f, d, n)
  PROVE  RemovesInStore(f, Removed(f, d, x), d, n)
<1> DEFINE g == Removed(f, d, x)
           m == InBlocks(Size(f, x))
<1>1. NamesAreExact(f) /\ f.used \subseteq Inodes
  BY FieldTypes DEF Sound
<1>2. /\ InUse(f, d, "dir") /\ f.entries[d] # <<>> /\ x # d /\ x \in f.used
      /\ InUse(f, x, "dir") => f.entries[x] = <<>>
  BY DEF MayLose, InUse
<1>3. m \in 0 .. NumSlots
  BY <1>1, SizeBound
<1>4. g \in FsRecord /\ LosesName(f, g, d, x)
  BY <1>1, <1>2, RemovedTyped
<1>5. Sound(g) /\ FilePlaces(g) = FilePlaces(f) \ Slice(x, 0, m) /\ SameCells(f, g, FilePlaces(g))
  BY <1>3, RemovedFile
<1> HIDE DEF g, m
<1>6. /\ g.used = f.used \ {x}
      /\ \A j \in Inodes \ {x} : g.inode[j].type = f.inode[j].type /\ g.inode[j].size = f.inode[j].size
  BY <1>4 DEF LosesName
<1>7. NamesAreExact(g)
  BY <1>5 DEF Sound
<1>8. /\ \A c \in Directories(f) \ {d, x} : Listing(g, c) = Listing(f, c)
      /\ Listing(g, d) = Restrict(Listing(f, d), DOMAIN Listing(f, d) \ {n})
  BY <1>1, <1>4, <1>7, ListingRemoved
<1>9. /\ DOMAIN Tree(f) = Directories(f) /\ \A c \in Directories(f) : Tree(f)[c] = Listing(f, c)
      /\ DOMAIN Files(f) = f.used \ Directories(f)
      /\ \A j \in f.used \ Directories(f) : Files(f)[j] = Contents(f, j) /\ InUse(f, j, "file")
      /\ d \in Directories(f) /\ Directories(f) \subseteq f.used
      /\ x \in Directories(f) <=> InUse(f, x, "dir")
  BY <1>1, <1>2, FilesAre
<1>10. n \in DOMAIN Tree(f)[d] /\ Tree(f)[d][n] = x
  <2>1. x # 0
    BY LookupIs
  <2> QED
    BY <1>9, <2>1, ListingIs
<1>11. x \in DOMAIN Tree(f) => Tree(f)[x] = [k \in {} |-> x]
  <2> SUFFICES ASSUME x \in Directories(f) PROVE Listing(f, x) = [k \in {} |-> x]
    BY <1>9
  <2>1. DOMAIN f.entries[x] = {}
    BY <1>2, <1>9
  <2> QED
    BY <2>1 DEF Listing
<1>12. Directories(g) = Directories(f) \ {x} /\ g.used \ Directories(g) = (f.used \ Directories(f)) \ {x}
  BY <1>1, <1>6 DEF Directories
<1>13. Tree(g) = Restrict([Tree(f) EXCEPT ![d] = Restrict(Tree(f)[d], DOMAIN Tree(f)[d] \ {n})],
                          DOMAIN Tree(f) \ {x})
  <2> DEFINE r == Restrict(Tree(f)[d], DOMAIN Tree(f)[d] \ {n})
             t == [Tree(f) EXCEPT ![d] = r]
  <2>1. r = Listing(g, d)
    BY <1>8, <1>9
  <2> HIDE DEF r
  <2>2. \A c \in Directories(f) \ {x} : t[c] = Listing(g, c)
    BY <1>8, <1>9, <2>1
  <2> HIDE DEF t
  <2>3. Tree(g) = [c \in Directories(f) \ {x} |-> t[c]]
    BY <1>12, <2>2 DEF Tree
  <2>4. Tree(g) = Restrict(t, DOMAIN Tree(f) \ {x})
    BY <1>9, <2>3 DEF Restrict
  <2> QED
    BY <2>4 DEF t, r
<1>14. Files(g) = Restrict(Files(f), DOMAIN Files(f) \ {x})
  <2>1. ASSUME NEW j \in (f.used \ Directories(f)) \ {x} PROVE Contents(g, j) = Files(f)[j]
    <3>1. j \in Inodes \ {x} /\ InUse(f, j, "file") /\ g.inode[j].size = f.inode[j].size
      BY <1>1, <1>6, <1>9
    <3>2. \A h \in FilePlaces(f) : h[1] = j => h \in FilePlaces(g)
      BY <1>5, <3>1 DEF Slice
    <3> QED
      BY <1>4, <1>5, <1>9, <3>1, <3>2, ContentsSame
  <2> QED
    BY <1>9, <1>12, <2>1 DEF Files, Restrict
<1> QED
  BY <1>2, <1>9, <1>10, <1>11, <1>13, <1>14 DEF RemovesInStore, g

\* A file that gets the contents of another.
LEMMA AssignedShown ==
  ASSUME NEW f \in FsRecord, Sound(f), NEW src \in Inodes, NEW dst \in Inodes,
         InUse(f, src, "file"), InUse(f, dst, "file"), CopyIsSafe(f, src, dst)
  PROVE  LET g == Assigned(f, src, dst) IN
         Tree(g) = Tree(f) /\ Files(g) = [Files(f) EXCEPT ![dst] = Files(f)[src]]
<1> DEFINE g == Assigned(f, src, dst)
           m == InBlocks(f.inode[dst].size)
           n == InBlocks(f.inode[src].size)
<1>1. NamesAreExact(f) /\ (src # dst \/ f.inode[src].size = 0)
  BY DEF Sound, CopyIsSafe
<1>2. m \in 0 .. NumSlots /\ n \in 0 .. NumSlots /\ NumSlots \in Nat
  BY FieldTypes, InBlocksFits, Constants
<1>3. g \in FsRecord /\ ChangesFile(f, g, dst) /\ g.inode[dst].size = Size(f, src)
  BY <1>1, AssignedTyped
<1>4. /\ SameCells(f, g, FilePlaces(f) \ Slice(dst, 0, m))
      /\ \A k \in 0 .. n - 1 : Cell(g, <<dst, k>>) = Cell(f, <<src, k>>)
  BY <1>1, <1>2, AssignedFile
<1>5. Size(f, src) = f.inode[src].size
  BY DEF Size, InUse
<1> HIDE DEF g, m
<1>6. Contents(g, dst) = Contents(f, src)
  <2>1. \A q \in Nat : q < n => Cell(g, <<dst, q>>) = Cell(f, <<src, q>>)
    BY <1>2, <1>4
  <2> QED
    BY <1>3, <1>5, <2>1, ContentsKept
<1>7. Files(f)[src] = Contents(f, src)
  BY <1>1, FilesAre
<1>8. \A h \in FilePlaces(f) : h[1] # dst => h \in FilePlaces(f) \ Slice(dst, 0, m)
  BY DEF Slice
<1>9. Tree(g) = Tree(f) /\ Files(g) = [Files(f) EXCEPT ![dst] = Contents(g, dst)]
  BY <1>3, <1>4, <1>8, FileShown
<1> QED
  BY <1>6, <1>7, <1>9 DEF g

\* A file that gets the contents of another after its own.
LEMMA AppendedShown ==
  ASSUME NEW f \in FsRecord, Sound(f), NEW x \in Inodes, NEW y \in Inodes,
         InUse(f, x, "file"), InUse(f, y, "file"),
         f.inode[x].size % BlockUnits = 0,
         InBlocks(f.inode[x].size) + InBlocks(f.inode[y].size) <= NumSlots
  PROVE  LET g == Appended(f, x, y) IN
         Tree(g) = Tree(f) /\ Files(g) = [Files(f) EXCEPT ![x] = Files(f)[x] \o Files(f)[y]]
<1> DEFINE g == Appended(f, x, y)
           a == InBlocks(f.inode[x].size)
           n == InBlocks(f.inode[y].size)
           s == f.inode[x].size
           z == f.inode[y].size
<1>1. NamesAreExact(f) /\ Size(f, x) = s /\ Size(f, y) = z
  BY DEF Sound, Size, InUse
<1>2. s \in Nat /\ z \in Nat /\ a \in Nat /\ n \in Nat /\ a + n <= NumSlots /\ s = a * BlockUnits
  <2>1. s \in Nat /\ z \in Nat
    BY FieldTypes, Constants
  <2>2. a \in Nat /\ n \in Nat
    BY <2>1, InBlocksIs
  <2>3. s = a * BlockUnits
    BY <2>1, InBlocksSum
  <2> QED
    BY <2>1, <2>2, <2>3
<1>3. g \in FsRecord /\ ChangesFile(f, g, x) /\ g.inode[x].size = s + z
  BY <1>1, <1>2, AppendedTyped
<1>4. /\ SameCells(f, g, FilePlaces(f))
      /\ \A k \in 0 .. n - 1 : Cell(g, <<x, a + k>>) = Cell(f, <<y, k>>)
  BY <1>2, AppendedFile
<1> HIDE DEF g
<1>5. /\ Contents(f, x) = [k \in 1 .. s |-> Unit(f, x, k)] /\ Len(Contents(f, x)) = s
      /\ Contents(f, y) = [k \in 1 .. z |-> Unit(f, y, k)] /\ Len(Contents(f, y)) = z
      /\ Contents(g, x) = [k \in 1 .. s + z |-> Unit(g, x, k)]
  BY <1>3, ContentsAre
<1>6. ASSUME NEW k \in 1 .. s PROVE Unit(g, x, k) = Unit(f, x, k)
  <2> DEFINE q == (k - 1) \div BlockUnits
  <2>1. q \in Nat /\ q < a
    BY <1>2, UnitOf
  <2>2. a \in 0 .. NumSlots /\ Slots = 0 .. NumSlots - 1 /\ NumSlots \in Nat
    BY FieldTypes, InBlocksFits, Constants
  <2> HIDE DEF q
  <2>3. q \in Slots
    BY <1>2, <2>1, <2>2
  <2>4. <<x, q>> \in FilePlaces(f)
    BY <1>1, <2>1, <2>3, PlacesOf
  <2>5. Cell(g, <<x, q>>) = Cell(f, <<x, q>>)
    BY <1>4, <2>4 DEF SameCells
  <2> QED
    BY <2>5 DEF Unit, q
<1>7. ASSUME NEW k \in 1 .. z PROVE Unit(g, x, s + k) = Unit(f, y, k)
  <2> DEFINE q == (k - 1) \div BlockUnits
             r == (k - 1) % BlockUnits
  <2>1. q \in Nat /\ q < n /\ r \in Units /\ k - 1 = q * BlockUnits + r
    BY <1>2, UnitOf
  <2>2. BlockUnits \in Nat \ {0} /\ Units = 0 .. BlockUnits - 1
    BY Constants
  <2> HIDE DEF q, r, a, n, s, z
  <2>3. /\ (a + q) * BlockUnits = a * BlockUnits + q * BlockUnits
        /\ a * BlockUnits \in Nat /\ q * BlockUnits \in Nat
    BY <1>2, <2>1, <2>2, TimesSum
  <2>4. s + k \in Nat /\ (s + k) - 1 = (a + q) * BlockUnits + r /\ k \in Nat /\ a + q \in Nat
    <3> DEFINE u == a * BlockUnits
               v == q * BlockUnits
               w == (a + q) * BlockUnits
    <3>1. u \in Nat /\ v \in Nat /\ w = u + v /\ s = u /\ k - 1 = v + r /\ r \in Nat
      BY <1>2, <2>1, <2>2, <2>3
    <3> HIDE DEF u, v, w
    <3>2. k \in Nat /\ s + k \in Nat /\ (s + k) - 1 = w + r /\ a + q \in Nat
      BY <1>2, <2>1, <3>1
    <3> QED
      BY <3>2 DEF w
  <2>5. Unit(f, y, k) = Cell(f, <<y, q>>)[r]
    BY <2>1, <2>4, UnitAt
  <2>6. Unit(g, x, s + k) = Cell(g, <<x, a + q>>)[r]
    <3> DEFINE u == s + k
               v == a + q
    <3>1. u \in Nat /\ v \in Nat /\ r \in Units /\ u - 1 = v * BlockUnits + r
      BY <2>1, <2>4
    <3> HIDE DEF u, v
    <3>2. Unit(g, x, u) = Cell(g, <<x, v>>)[r]
      BY <3>1, UnitAt
    <3> QED
      BY <3>2 DEF u, v
  <2>7. Cell(g, <<x, a + q>>) = Cell(f, <<y, q>>)
    BY <1>2, <1>4, <2>1
  <2> QED
    BY <2>5, <2>6, <2>7
<1> HIDE DEF s, z, a, n
<1>8. Contents(g, x) = Contents(f, x) \o Contents(f, y)
  <2>1. \A k \in 1 .. s + z : Unit(g, x, k) = IF k <= s THEN Unit(f, x, k) ELSE Unit(f, y, k - s)
    <3> TAKE k \in 1 .. s + z
    <3>1. CASE k <= s
      BY <1>2, <1>6, <3>1
    <3>2. CASE ~(k <= s)
      <4>1. k - s \in 1 .. z /\ s + (k - s) = k
        BY <1>2, <3>2
      <4> QED
        BY <1>7, <3>2, <4>1
    <3> QED
      BY <3>1, <3>2
  <2> DEFINE p == [k \in 1 .. s |-> Unit(f, x, k)]
             t == [k \in 1 .. z |-> Unit(f, y, k)]
  <2>2. Contents(f, x) = p /\ Contents(f, y) = t /\ Len(p) = s /\ Len(t) = z
    BY <1>5
  <2>3. p \o t = [k \in 1 .. s + z |-> IF k <= s THEN p[k] ELSE t[k - s]]
    BY <1>2, <2>2
  <2>4. \A k \in 1 .. s + z : (k <= s => p[k] = Unit(f, x, k)) /\ (~(k <= s) => t[k - s] = Unit(f, y, k - s))
    BY <1>2
  <2>5. \A k \in 1 .. s + z : (IF k <= s THEN p[k] ELSE t[k - s]) = Unit(g, x, k)
    <3> HIDE DEF p, t
    <3> TAKE k \in 1 .. s + z
    <3> QED
      BY <2>1, <2>4
  <2> HIDE DEF p, t
  <2>6. p \o t = [k \in 1 .. s + z |-> Unit(g, x, k)]
    BY <2>3, <2>5
  <2> QED
    BY <1>5, <2>2, <2>6
<1>9. Files(f)[x] = Contents(f, x) /\ Files(f)[y] = Contents(f, y)
  BY <1>1, FilesAre
<1>10. Tree(g) = Tree(f) /\ Files(g) = [Files(f) EXCEPT ![x] = Contents(g, x)]
  BY <1>3, <1>4, FileShown
<1> QED
  BY <1>8, <1>9, <1>10 DEF g

Repeated(v, c) == [k \in 1 .. c |-> v]
Overlay(s, o, c, v, l) == [k \in 1 .. l |-> IF k > o /\ k <= o + c THEN v ELSE s[k]]

LEMMA OverwriteIs ==
  ASSUME NEW S, NEW s \in Seq(S), NEW o \in 0 .. Len(s), NEW c \in Nat, NEW v,
         NEW l, l = IF o + c >= Len(s) THEN o + c ELSE Len(s)
  PROVE  Store!Overwrite(s, o, Repeated(v, c)) = Overlay(s, o, c, v, l)
<1> DEFINE T == S \cup {v}
           b == [k \in 1 .. c |-> v]
           p == SubSeq(s, 1, o)
           q == SubSeq(s, o + c + 1, Len(s))
           n == Len(s)
<1>1. n \in Nat /\ o \in Nat /\ o <= n
  OBVIOUS
<1>2. b \in Seq(T) /\ Len(b) = c /\ \A k \in 1 .. c : b[k] = v
  OBVIOUS
<1>3. p \in Seq(T) /\ Len(p) = o /\ \A k \in 1 .. o : p[k] = s[k]
  <2>1. s \in Seq(T) /\ 1 \in 1 .. n + 1 /\ o \in 1 - 1 .. n
    BY <1>1
  <2>2. /\ p \in Seq(T) /\ Len(p) = IF 1 <= o THEN o - 1 + 1 ELSE 0
        /\ \A k \in 1 .. o - 1 + 1 : p[k] = s[1 + k - 1]
    BY <2>1, SubSeqProperties
  <2> QED
    BY <1>1, <2>2
<1>4. /\ q \in Seq(T) /\ Len(q) = l - (o + c)
      /\ \A k \in 1 .. l - (o + c) : q[k] = s[o + c + k]
  <2>1. CASE o + c >= n
    <3>1. q = <<>>
      BY <1>1, <2>1
    <3>2. l - (o + c) = 0
      BY <1>1, <2>1
    <3> QED
      BY <3>1, <3>2
  <2>2. CASE o + c < n
    <3>1. s \in Seq(T) /\ o + c + 1 \in 1 .. n + 1 /\ n \in (o + c + 1) - 1 .. n /\ l = n
      BY <1>1, <2>2
    <3>2. /\ q \in Seq(T) /\ Len(q) = IF o + c + 1 <= n THEN n - (o + c + 1) + 1 ELSE 0
          /\ \A k \in 1 .. n - (o + c + 1) + 1 : q[k] = s[(o + c + 1) + k - 1]
      BY <3>1, SubSeqProperties
    <3> QED
      BY <1>1, <2>2, <3>1, <3>2
  <2> QED
    BY <1>1, <2>1, <2>2
<1>5. Store!Overwrite(s, o, b) = (p \o b) \o q
  BY <1>2 DEF Store!Overwrite
<1> HIDE DEF b, p, q, n
<1>6. /\ p \o b \in Seq(T) /\ Len(p \o b) = o + c
      /\ \A k \in 1 .. o + c : (p \o b)[k] = IF k <= o THEN s[k] ELSE v
  BY <1>1, <1>2, <1>3
<1> DEFINE r == p \o b
<1> HIDE DEF r
<1>7. r \in Seq(T) /\ Len(r) = o + c /\ \A k \in 1 .. o + c : r[k] = IF k <= o THEN s[k] ELSE v
  BY <1>6 DEF r
<1>8. l \in Nat /\ l >= o + c
  BY <1>1 DEF n
<1>9. r \o q \in Seq(T) /\ Len(r \o q) = l
  BY <1>1, <1>4, <1>7, <1>8
<1>10. \A k \in 1 .. l : (r \o q)[k] = IF k > o /\ k <= o + c THEN v ELSE s[k]
  <2> TAKE k \in 1 .. l
  <2>1. CASE k <= o + c
    BY <1>1, <1>4, <1>7, <1>8, <2>1
  <2>2. CASE ~(k <= o + c)
    <3>1. k - (o + c) \in 1 .. l - (o + c) /\ o + c + (k - (o + c)) = k
      BY <1>1, <1>8, <2>2
    <3>2. (r \o q)[k] = q[k - (o + c)]
      BY <1>1, <1>4, <1>7, <1>8, <2>2
    <3>3. q[k - (o + c)] = s[o + c + (k - (o + c))]
      BY <1>4, <3>1
    <3> QED
      BY <2>2, <3>1, <3>2, <3>3
  <2> QED
    BY <2>1, <2>2
<1>11. r \o q = [k \in 1 .. l |-> IF k > o /\ k <= o + c THEN v ELSE s[k]]
  <2> DEFINE w == r \o q
  <2> HIDE DEF w
  <2>1. w \in Seq(T) /\ Len(w) = l /\ \A k \in 1 .. l : w[k] = IF k > o /\ k <= o + c THEN v ELSE s[k]
    BY <1>9, <1>10 DEF w
  <2> HIDE DEF T
  <2>2. w = [k \in 1 .. Len(w) |-> w[k]]
    BY <2>1
  <2>3. w = [k \in 1 .. l |-> w[k]]
    BY <2>1, <2>2
  <2> QED
    BY <2>1, <2>3 DEF w
<1> QED
  BY <1>5, <1>11 DEF r, b, Repeated, Overlay

\* A write shows as one, though its blocks may have been copied first.
LEMMA WrittenShown ==
  ASSUME NEW f \in FsRecord, Sound(f), NEW i \in Inodes, NEW at, NEW count, NEW u, NEW n, NEW m, NEW e,
         WriteAsked(f, i, at, count, u, n, m, e), WriteIsSafe(f, i, at, count, n),
         NEW v \in Data, NEW res, res = u .. u + n - 1
  PROVE  LET g == Written(Extended(f, i, u, n), i, at, count, v, res) IN
         /\ Tree(g) = Tree(f)
         /\ Files(g) = [Files(f) EXCEPT ![i] =
                          Store!Overwrite(Files(f)[i], at, Repeated(v, count))]
         /\ at \in 0 .. Len(Files(f)[i])
<1> DEFINE g == Written(Extended(f, i, u, n), i, at, count, v, res)
           s == f.inode[i].size
           z == Max({at + count, s})
           c == Contents(f, i)
<1>1. SameCells(f, g, FilePlaces(f) \ Slice(i, 0, u)) /\ WrittenUnits(g, f, i, at, count, u, n, v)
  BY WrittenFile
<1>2. n <= Cardinality(FreeBlocks(f))
  BY WriteHasRoom
<1>3. g \in FsRecord /\ ChangesFile(f, g, i) /\ g.inode[i].size = z
  <2>1. Written(Extended(f, i, u, n), i, at, count, v, res) = g
    OBVIOUS
  <2> HIDE DEF g
  <2> QED
    BY <1>2, <2>1, WrittenTyped
<1>4. WriteFits(f, i, at, count, u, n, m, e)
  BY WriteBounds
<1>5. /\ InUse(f, i, "file") /\ at \in Nat /\ at <= s /\ count \in Nat /\ u \in Nat /\ n \in Nat
      /\ u = InBlocks(s)
  BY DEF WriteAsked
<1>6. s \in Nat /\ z = (IF at + count >= s THEN at + count ELSE s) /\ InBlocks(z) = u + n
  BY <1>4 DEF WriteFits
<1> HIDE DEF g
<1>7. NamesAreExact(f) /\ Files(f)[i] = c
  BY <1>5, FilesAre DEF Sound
<1>8. c = [k \in 1 .. s |-> Unit(f, i, k)] /\ Len(c) = s /\ Contents(g, i) = [k \in 1 .. z |-> Unit(g, i, k)]
  BY <1>3, ContentsAre
<1> HIDE DEF s, z, c
<1>9. z \in Nat
  BY <1>5, <1>6
<1>10. ASSUME NEW k \in 1 .. z
       PROVE  Unit(g, i, k) = IF k > at /\ k <= at + count THEN v ELSE c[k]
  <2> DEFINE q == (k - 1) \div BlockUnits
             r == (k - 1) % BlockUnits
  <2>1. q \in Nat /\ q < u + n /\ r \in Units /\ k - 1 = q * BlockUnits + r
    BY <1>6, <1>9, UnitOf
  <2>2. Unit(g, i, k) = Cell(g, <<i, q>>)[r] /\ Unit(f, i, k) = Cell(f, <<i, q>>)[r]
    BY DEF Unit
  <2> HIDE DEF q, r
  <2> DEFINE p == q * BlockUnits + r
  <2>3. p = k - 1 /\ q \in 0 .. u + n - 1
    BY <1>5, <2>1
  <2>4. /\ p >= at /\ p < at + count => Cell(g, <<i, q>>)[r] = v
        /\ ~(p >= at /\ p < at + count) /\ q < u => Cell(g, <<i, q>>)[r] = Cell(f, <<i, q>>)[r]
    BY <1>1, <2>1, <2>3 DEF WrittenUnits
  <2> HIDE DEF p
  <2>5. CASE k > at /\ k <= at + count
    <3>1. p >= at /\ p < at + count
      BY <1>5, <2>3, <2>5
    <3> QED
      BY <2>2, <2>4, <2>5, <3>1
  <2>6. CASE ~(k > at /\ k <= at + count)
    <3>1. ~(p >= at /\ p < at + count) /\ k \in 1 .. s
      BY <1>5, <1>6, <2>3, <2>6
    <3>2. q < u
      BY <1>5, <1>6, <3>1, UnitOf DEF q
    <3>3. c[k] = Unit(f, i, k)
      BY <1>8, <3>1
    <3> QED
      BY <2>2, <2>4, <2>6, <3>1, <3>2, <3>3
  <2> QED
    BY <2>5, <2>6
<1>11. Store!Overwrite(c, at, Repeated(v, count)) = Overlay(c, at, count, v, z)
  <2> DEFINE S == {Unit(f, i, k) : k \in 1 .. s}
  <2>1. c \in Seq(S)
    BY <1>6, <1>8
  <2> HIDE DEF S
  <2>2. at \in 0 .. Len(c) /\ z = IF at + count >= Len(c) THEN at + count ELSE Len(c)
    BY <1>5, <1>6, <1>8
  <2>3. count \in Nat
    BY <1>5
  <2> QED
    BY <2>1, <2>2, <2>3, OverwriteIs
<1>12. Contents(g, i) = Store!Overwrite(c, at, Repeated(v, count))
  <2>1. Contents(g, i) = Overlay(c, at, count, v, z)
    BY <1>8, <1>10 DEF Overlay
  <2> QED
    BY <1>11, <2>1
<1>13. \A h \in FilePlaces(f) : h[1] # i => h \in FilePlaces(f) \ Slice(i, 0, u)
  BY DEF Slice
<1>14. Tree(g) = Tree(f) /\ Files(g) = [Files(f) EXCEPT ![i] = Contents(g, i)]
  BY <1>1, <1>3, <1>5, <1>13, FileShown
<1>15. at \in 0 .. Len(Files(f)[i])
  BY <1>5, <1>6, <1>7, <1>8
<1> QED
  BY <1>7, <1>12, <1>14, <1>15 DEF g

-----------------------------------------------------------------------------
(* Every step is one of the store                                          *)

StoreStep == Store!Next \/ UNCHANGED <<StoreTree, StoreFiles, state = "sound">>

\* The store before and after a call that leaves the file system sound.
LEMMA StoreShows ==
  ASSUME state = "sound", state' = "sound", NEW g, fs' = g
  PROVE  /\ StoreTree = Tree(fs) /\ StoreFiles = Files(fs)
         /\ StoreTree' = Tree(g) /\ StoreFiles' = Files(g)
         /\ (state = "sound") = TRUE /\ (state = "sound")' = TRUE
BY DEF StoreTree, StoreFiles

LEMMA LeavesStore ==
  ASSUME state = "sound", state' # "sound"
  PROVE  StoreStep
BY DEF StoreStep, Store!Next

LEMMA StoreStays ==
  ASSUME state = "sound", state' = "sound", NEW g, fs' = g,
         Tree(g) = Tree(fs), Files(g) = Files(fs)
  PROVE  StoreStep
<1>1. /\ StoreTree = Tree(fs) /\ StoreFiles = Files(fs)
      /\ StoreTree' = Tree(g) /\ StoreFiles' = Files(g)
      /\ (state = "sound") = TRUE /\ (state = "sound")' = TRUE
  BY StoreShows
<1> QED
  BY <1>1 DEF StoreStep

LEMMA StoreCreates ==
  ASSUME state = "sound", state' = "sound", NEW g, fs' = g,
         NEW d, NEW n \in Names, NEW i, NEW type \in {"file", "dir"}, CreatesInStore(fs, g, d, n, i, type)
  PROVE  StoreStep
<1>1. /\ StoreTree = Tree(fs) /\ StoreFiles = Files(fs)
      /\ StoreTree' = Tree(g) /\ StoreFiles' = Files(g)
  BY StoreShows
<1>2. /\ d \in DOMAIN StoreTree /\ n \notin DOMAIN StoreTree[d] /\ i \in Inodes
      /\ i \in Inodes \ (DOMAIN StoreTree \cup DOMAIN StoreFiles)
      /\ \/ /\ StoreTree' = [StoreTree EXCEPT ![d] = Store!Bind(StoreTree[d], n, i)]
            /\ StoreFiles' = Store!Bind(StoreFiles, i, <<>>)
         \/ /\ StoreTree' = Store!Bind([StoreTree EXCEPT ![d] = Store!Bind(StoreTree[d], n, i)],
                                       i, [m \in {} |-> i])
            /\ UNCHANGED StoreFiles
  BY <1>1 DEF CreatesInStore
<1>3. Store!Create(d, n, i) \/ Store!Mkdir(d, n, i)
  BY <1>2 DEF Store!Create, Store!Mkdir, Store!Named, Store!Used
<1>4. \E c \in DOMAIN StoreTree, m \in Names, j \in Inodes : Store!Create(c, m, j) \/ Store!Mkdir(c, m, j)
  BY <1>2, <1>3
<1> QED
  BY <1>4 DEF StoreStep, Store!Next

LEMMA StoreRemoves ==
  ASSUME state = "sound", state' = "sound", NEW g, fs' = g, NEW d, NEW n, RemovesInStore(fs, g, d, n)
  PROVE  StoreStep
<1>1. /\ StoreTree = Tree(fs) /\ StoreFiles = Files(fs)
      /\ StoreTree' = Tree(g) /\ StoreFiles' = Files(g)
  BY StoreShows
<1> DEFINE x == StoreTree[d][n]
<1>2. /\ d \in DOMAIN StoreTree /\ n \in DOMAIN StoreTree[d]
      /\ x \in DOMAIN StoreTree => StoreTree[x] = [m \in {} |-> x]
      /\ StoreTree' = Restrict([StoreTree EXCEPT ![d] = Restrict(StoreTree[d], DOMAIN StoreTree[d] \ {n})],
                               DOMAIN StoreTree \ {x})
      /\ StoreFiles' = Restrict(StoreFiles, DOMAIN StoreFiles \ {x})
  BY <1>1 DEF RemovesInStore
<1>3. Store!Remove(d, n)
  BY <1>2 DEF Store!Remove, Store!Restrict, Restrict
<1> QED
  BY <1>2, <1>3 DEF StoreStep, Store!Next

LEMMA StoreCopies ==
  ASSUME state = "sound", state' = "sound", NEW g, fs' = g,
         NEW x \in DOMAIN Files(fs), NEW y \in DOMAIN Files(fs), Tree(g) = Tree(fs),
         \/ Files(g) = [Files(fs) EXCEPT ![y] = Files(fs)[x]]
         \/ Files(g) = [Files(fs) EXCEPT ![x] = Files(fs)[x] \o Files(fs)[y]]
  PROVE  StoreStep
<1>1. /\ StoreTree = Tree(fs) /\ StoreFiles = Files(fs)
      /\ StoreTree' = Tree(g) /\ StoreFiles' = Files(g)
  BY StoreShows
<1>2. Store!Copy(x, y) \/ Store!Concatenate(x, y)
  BY <1>1 DEF Store!Copy, Store!Concatenate
<1>3. \E a, b \in DOMAIN StoreFiles : Store!Copy(a, b) \/ Store!Concatenate(a, b)
  BY <1>1, <1>2
<1> QED
  BY <1>3 DEF StoreStep, Store!Next

LEMMA StoreWrites ==
  ASSUME state = "sound", state' = "sound", NEW g, fs' = g,
         NEW i \in DOMAIN Files(fs), NEW at \in 0 .. Len(Files(fs)[i]),
         NEW count \in 1 .. MaxCount, NEW v \in Data, Tree(g) = Tree(fs),
         Files(g) = [Files(fs) EXCEPT ![i] = Store!Overwrite(Files(fs)[i], at, Repeated(v, count))]
  PROVE  StoreStep
<1>1. /\ StoreTree = Tree(fs) /\ StoreFiles = Files(fs)
      /\ StoreTree' = Tree(g) /\ StoreFiles' = Files(g)
  BY StoreShows
<1>2. Store!WriteAt(i, at, Repeated(v, count))
  BY <1>1 DEF Store!WriteAt
<1>3. Store!WriteAt(i, at, [k \in 1 .. count |-> v])
  BY <1>2 DEF Repeated
<1>4. at \in 0 .. Len(StoreFiles[i]) /\ i \in DOMAIN StoreFiles
  BY <1>1
<1>5. Store!Write(i)
  BY <1>3, <1>4 DEF Store!Write
<1> QED
  BY <1>4, <1>5 DEF StoreStep, Store!Next

LEMMA CreatedIsStore ==
  ASSUME state = "sound", fs \in FsRecord, Sound(fs), NEW d \in Inodes, NEW n \in Names, CanCreate(fs, d, n),
         NEW type \in {"file", "dir"}, Result(Created(fs, d, n, type), TRUE)
  PROVE  StoreStep
<1> DEFINE g == Created(fs, d, n, type)
           i == Min(Inodes \ fs.used)
<1>1. fs' = g /\ state' = "sound"
  BY DEF Result
<1>2. g \in FsRecord /\ Sound(g) /\ HasCreated(fs, g, d, n, type, i)
  BY CreatedFile
<1>3. InUse(fs, d, "dir") /\ Lookup(fs, d, n) = 0
  BY DEF CanCreate
<1> HIDE DEF g, i
<1>4. CreatesInStore(fs, g, d, n, i, type)
  BY <1>2, <1>3, CreatedShown
<1> QED
  BY <1>1, <1>4, StoreCreates

LEMMA CreatesAreStore ==
  ASSUME Consistent, NEW t \in Threads, NEW d \in Inodes, NEW n \in Names,
         fs_create(t, d, n) \/ fs_mkdir(t, d, n)
  PROVE  StoreStep
<1>1. Call(t)
  BY DEF fs_create, fs_mkdir
<1>2. state = "sound" /\ fs \in FsRecord /\ Sound(fs)
  BY <1>1, CallTyped
<1>3. CASE Freeze
  <2>1. state' # "sound"
    BY <1>3 DEF Freeze
  <2> QED
    BY <1>2, <2>1, LeavesStore
<1>4. CASE CanCreate(fs, d, n) /\ Result(Created(fs, d, n, "file"), TRUE)
  BY <1>2, <1>4, CreatedIsStore
<1>5. CASE CanCreate(fs, d, n) /\ Result(Created(fs, d, n, "dir"), TRUE)
  BY <1>2, <1>5, CreatedIsStore
<1> QED
  BY <1>3, <1>4, <1>5 DEF fs_create, fs_mkdir

LEMMA RemoveIsStore ==
  ASSUME Consistent, NEW t \in Threads, NEW d \in Inodes, NEW n \in Names, fs_remove(t, d, n)
  PROVE  StoreStep
<1> DEFINE x == Lookup(fs, d, n)
           g == Removed(fs, d, x)
           safe == RemoveIsSafe(fs, d, n)
<1>1. /\ Call(t) /\ InUse(fs, d, "dir") /\ x # 0
      /\ fs.inode[x].type = "dir" => fs.entries[x] = <<>>
      /\ Result(g, safe)
  BY DEF fs_remove
<1>2. state = "sound" /\ fs \in FsRecord /\ Sound(fs) /\ NamesAreExact(fs)
  BY <1>1, CallTyped
<1>3. x \in Inodes /\ (safe => MayLose(fs, d, x))
  BY <1>1, <1>2, RemoveFinds
<1>4. safe => n = Last(fs.entries[d]).name
  BY DEF RemoveIsSafe
<1> HIDE DEF safe
<1>5. CASE safe
  <2>1. RemovesInStore(fs, g, d, n)
    BY <1>2, <1>3, <1>4, <1>5, RemovedShown
  <2>2. fs' = g /\ state' = "sound"
    BY <1>1, <1>5 DEF Result
  <2> HIDE DEF g, x
  <2> QED
    BY <1>2, <2>1, <2>2, StoreRemoves
<1>6. CASE ~safe
  <2>1. state' # "sound"
    BY <1>1, <1>6 DEF Result
  <2> QED
    BY <1>2, <2>1, LeavesStore
<1> QED
  BY <1>5, <1>6

LEMMA WriteIsStore ==
  ASSUME Consistent, NEW t \in Threads, NEW i \in Inodes, NEW v \in Data,
         NEW count \in 1 .. MaxCount, NEW offset \in 0 .. NumSlots * BlockUnits,
         fs_write(t, i, offset, count, v)
  PROVE  StoreStep
<1>1. PICK at, u, n, m, e : WriteCall(at, u, n, m, e, i, count, v)
  BY WriteIs
<1>2. Call(t)
  BY DEF fs_write
<1>3. state = "sound" /\ fs \in FsRecord /\ Sound(fs) /\ NamesAreExact(fs)
  BY <1>2, CallTyped
<1> DEFINE g == Written(Extended(fs, i, u, n), i, at, count, v, u .. u + n - 1)
           safe == WriteIsSafe(fs, i, at, count, n)
<1>4. WriteAsked(fs, i, at, count, u, n, m, e) /\ (state' # "sound" \/ Result(g, safe))
  BY <1>1 DEF WriteCall, Result
<1>5. CASE state' # "sound"
  BY <1>3, <1>5, LeavesStore
<1>6. CASE state' = "sound"
  <2> HIDE DEF g, safe
  <2>1. safe /\ fs' = g
    BY <1>4, <1>6 DEF Result
  <2>2. /\ Tree(g) = Tree(fs)
        /\ Files(g) = [Files(fs) EXCEPT ![i] = Store!Overwrite(Files(fs)[i], at, Repeated(v, count))]
        /\ at \in 0 .. Len(Files(fs)[i])
    BY <1>3, <1>4, <2>1, WrittenShown DEF g, safe
  <2>3. InUse(fs, i, "file")
    BY <1>4 DEF WriteAsked
  <2>4. i \in DOMAIN Files(fs)
    BY <1>3, <2>3, FilesAre
  <2> QED
    BY <1>3, <1>6, <2>1, <2>2, <2>4, StoreWrites
<1> QED
  BY <1>5, <1>6

LEMMA DefragIsStore ==
  ASSUME Consistent, NEW t \in Threads, fs_defrag(t)
  PROVE  StoreStep
<1> DEFINE r == Defragmented(fs)
<1>1. Call(t) /\ Result(r.f, r.safe)
  BY DEF fs_defrag
<1>2. state = "sound" /\ fs \in FsRecord /\ Sound(fs)
  BY <1>1, CallTyped
<1>3. Scanned(fs, r)
  BY <1>2, DefragmentedFile
<1> HIDE DEF r
<1>4. r.f \in FsRecord /\ SameFiles(fs, r.f) /\ (r.safe => SameCells(fs, r.f, FilePlaces(fs)))
  BY <1>3 DEF Scanned, Scan, Rearranged
<1>5. CASE r.safe
  <2>1. fs' = r.f /\ state' = "sound"
    BY <1>1, <1>5 DEF Result
  <2>2. Tree(r.f) = Tree(fs) /\ Files(r.f) = Files(fs)
    BY <1>2, <1>4, <1>5, NothingShown
  <2> QED
    BY <1>2, <2>1, <2>2, StoreStays
<1>6. CASE ~r.safe
  <2>1. state' # "sound"
    BY <1>1, <1>6 DEF Result
  <2> QED
    BY <1>2, <2>1, LeavesStore
<1> QED
  BY <1>5, <1>6

LEMMA AssignIsStore ==
  ASSUME state = "sound", fs \in FsRecord, Sound(fs), NEW src \in Inodes, NEW dst \in Inodes,
         fs.inode[dst].type = "file",
         NEW safe, safe => InUse(fs, src, "file") /\ CopyIsSafe(fs, src, dst),
         Result(Assigned(fs, src, dst), safe)
  PROVE  StoreStep
<1> DEFINE g == Assigned(fs, src, dst)
<1>1. NamesAreExact(fs)
  BY DEF Sound
<1>2. InUse(fs, dst, "file")
  BY <1>1 DEF NamesAreExact, InUse
<1>3. CASE safe
  <2>1. fs' = g /\ state' = "sound"
    BY <1>3 DEF Result
  <2>2. InUse(fs, src, "file") /\ CopyIsSafe(fs, src, dst)
    BY <1>3
  <2>3. Tree(g) = Tree(fs) /\ Files(g) = [Files(fs) EXCEPT ![dst] = Files(fs)[src]]
    BY <1>2, <2>2, AssignedShown
  <2>4. src \in DOMAIN Files(fs) /\ dst \in DOMAIN Files(fs)
    BY <1>1, <1>2, <2>2, FilesAre
  <2> HIDE DEF g
  <2> QED
    BY <2>1, <2>3, <2>4, StoreCopies
<1>4. CASE ~safe
  <2>1. state' # "sound"
    BY <1>4 DEF Result
  <2> QED
    BY <2>1, LeavesStore
<1> QED
  BY <1>3, <1>4

LEMMA CopyIsStore ==
  ASSUME Consistent, NEW t \in Threads, NEW d1 \in Inodes, NEW d2 \in Inodes,
         NEW n1 \in Names, NEW n2 \in Names, fs_copy(t, d1, n1, d2, n2)
  PROVE  StoreStep
<1> DEFINE src == Lookup(fs, d1, n1)
           dst == Lookup(fs, d2, n2)
<1>1. /\ Call(t) /\ InUse(fs, d1, "dir") /\ InUse(fs, d2, "dir")
      /\ src # 0 /\ fs.inode[src].type = "file"
      /\ \/ /\ dst # 0 /\ fs.inode[dst].type = "file"
            /\ Result(Assigned(fs, src, dst), CopyIsSafe(fs, src, dst))
         \/ UNCHANGED <<fs, state>>
  BY DEF fs_copy
<1>2. state = "sound" /\ fs \in FsRecord /\ Sound(fs) /\ NamesAreExact(fs)
  BY <1>1, CallTyped
<1>3. src \in Inodes /\ InUse(fs, src, "file") /\ dst \in Inodes \cup {0}
  BY <1>1, <1>2, LookupIs, LookupUsed DEF InUse
<1> HIDE DEF src, dst
<1>4. CASE /\ dst # 0 /\ fs.inode[dst].type = "file"
           /\ Result(Assigned(fs, src, dst), CopyIsSafe(fs, src, dst))
  <2>1. dst \in Inodes
    BY <1>3, <1>4
  <2> QED
    BY <1>2, <1>3, <1>4, <2>1, AssignIsStore
<1>5. CASE UNCHANGED <<fs, state>>
  BY <1>2, <1>5, StoreStays
<1> QED
  BY <1>1, <1>4, <1>5

LEMMA CopyCreateIsStore ==
  ASSUME Consistent, NEW t \in Threads, CopyCreate(t)
  PROVE  StoreStep
<1> DEFINE c == copying[t]
<1>1. /\ state = "sound" /\ c # NULL
      /\ \/ CanCreate(fs, c.d2, c.n2) /\ Result(Created(fs, c.d2, c.n2, "file"), TRUE)
         \/ Freeze
  BY DEF CopyCreate
<1>2. fs \in FsRecord /\ Sound(fs) /\ copying \in [Threads -> Copies \cup {NULL}]
  BY <1>1, SoundNow
<1>3. c \in Copies
  BY <1>1, <1>2
<1>4. c.d2 \in Inodes /\ c.n2 \in Names
  BY <1>3 DEF Copies
<1> HIDE DEF c
<1>5. CASE CanCreate(fs, c.d2, c.n2) /\ Result(Created(fs, c.d2, c.n2, "file"), TRUE)
  BY <1>1, <1>2, <1>4, <1>5, CreatedIsStore
<1>6. CASE Freeze
  <2>1. state' # "sound"
    BY <1>6 DEF Freeze
  <2> QED
    BY <1>1, <2>1, LeavesStore
<1> QED
  BY <1>1, <1>5, <1>6

LEMMA CopyShareIsStore ==
  ASSUME Consistent, NEW t \in Threads, CopyShare(t)
  PROVE  StoreStep
<1> DEFINE c == copying[t]
           dst == Lookup(fs, c.d2, c.n2)
           safe == /\ Lookup(fs, c.d1, c.n1) = c.src /\ InUse(fs, c.src, "file")
                   /\ CopyIsSafe(fs, c.src, dst)
<1>1. /\ state = "sound" /\ c # NULL
      /\ \/ /\ dst # 0 /\ fs.inode[dst].type = "file"
            /\ Result(Assigned(fs, c.src, dst), safe)
         \/ UNCHANGED <<fs, state>>
  BY DEF CopyShare
<1>2. fs \in FsRecord /\ Sound(fs) /\ copying \in [Threads -> Copies \cup {NULL}]
  BY <1>1, SoundNow
<1>3. c \in Copies
  BY <1>1, <1>2
<1>4. c.src \in Inodes /\ c.d2 \in Inodes
  BY <1>3 DEF Copies
<1> HIDE DEF c
<1>5. dst \in Inodes \cup {0}
  BY <1>2, <1>4, LookupIs
<1>6. safe => InUse(fs, c.src, "file") /\ CopyIsSafe(fs, c.src, dst)
  OBVIOUS
<1> HIDE DEF dst, safe
<1>7. CASE dst # 0 /\ fs.inode[dst].type = "file" /\ Result(Assigned(fs, c.src, dst), safe)
  <2>1. dst \in Inodes
    BY <1>5, <1>7
  <2> QED
    BY <1>1, <1>2, <1>4, <1>6, <1>7, <2>1, AssignIsStore
<1>8. CASE UNCHANGED <<fs, state>>
  BY <1>1, <1>8, StoreStays
<1> QED
  BY <1>1, <1>7, <1>8

LEMMA AppendIsStore ==
  ASSUME Consistent, NEW t \in Threads, NEW d1 \in Inodes, NEW d2 \in Inodes,
         NEW n1 \in Names, NEW n2 \in Names, fs_append(t, d1, n1, d2, n2)
  PROVE  StoreStep
<1> DEFINE x == Lookup(fs, d1, n1)
           y == Lookup(fs, d2, n2)
           g == Appended(fs, x, y)
           safe == AppendIsSafe(fs, x, y)
<1>1. /\ Call(t) /\ InUse(fs, d1, "dir") /\ InUse(fs, d2, "dir")
      /\ x # 0 /\ y # 0 /\ fs.inode[x].type = "file"
      /\ Len(UsedSlots(fs, y)) <= NumSlots - Len(UsedSlots(fs, x))
      /\ Result(g, safe)
  BY DEF fs_append
<1>2. state = "sound" /\ fs \in FsRecord /\ Sound(fs) /\ NamesAreExact(fs)
  BY <1>1, CallTyped
<1>3. x \in Inodes /\ InUse(fs, x, "file") /\ y \in Inodes /\ y \in fs.used
  BY <1>1, <1>2, LookupUsed DEF InUse
<1> HIDE DEF x, y, safe
<1>4. CASE ~safe
  <2>1. state' # "sound"
    BY <1>1, <1>4 DEF Result
  <2> QED
    BY <1>2, <2>1, LeavesStore
<1>5. CASE safe
  <2>1. fs' = g /\ state' = "sound"
    BY <1>1, <1>5 DEF Result
  <2>2. CASE Size(fs, y) = 0
    <3>1. g = fs
      BY <1>2, <1>3, <2>2, AppendNothing
    <3> HIDE DEF g
    <3> QED
      BY <1>2, <2>1, <3>1, StoreStays
  <2>3. CASE fs.inode[y].type = "file" /\ fs.inode[x].size % BlockUnits = 0
    <3>1. InUse(fs, y, "file") /\ Size(fs, y) = fs.inode[y].size /\ Size(fs, x) = fs.inode[x].size
      BY <1>1, <1>3, <2>3 DEF InUse, Size
    <3>2. InBlocks(fs.inode[x].size) + InBlocks(fs.inode[y].size) <= NumSlots
      <4> DEFINE a == InBlocks(Size(fs, x))
                 n == InBlocks(Size(fs, y))
      <4>1. a \in 0 .. NumSlots /\ n \in 0 .. NumSlots /\ NumSlots \in Nat
        BY <1>2, <1>3, SizeBound, Constants
      <4>2. Len(UsedSlots(fs, y)) = n /\ Len(UsedSlots(fs, x)) = a
        BY <4>1, UsedSlotsAre
      <4> HIDE DEF a, n
      <4>3. a + n <= NumSlots
        BY <1>1, <4>1, <4>2
      <4> QED
        BY <3>1, <4>3 DEF a, n
    <3>3. Tree(g) = Tree(fs) /\ Files(g) = [Files(fs) EXCEPT ![x] = Files(fs)[x] \o Files(fs)[y]]
      BY <1>2, <1>3, <2>3, <3>1, <3>2, AppendedShown
    <3>4. x \in DOMAIN Files(fs) /\ y \in DOMAIN Files(fs)
      BY <1>2, <1>3, <3>1, FilesAre
    <3> HIDE DEF g
    <3> QED
      BY <1>2, <2>1, <3>3, <3>4, StoreCopies
  <2> QED
    BY <1>5, <2>2, <2>3 DEF safe, AppendIsSafe
<1> QED
  BY <1>4, <1>5

LEMMA NextIsStore ==
  ASSUME Consistent, [Next]_vars
  PROVE  StoreStep
<1>1. CASE Next
  <2>1. PICK t \in Threads :
          \/ \E d \in Inodes, n \in Names : fs_create(t, d, n) \/ fs_mkdir(t, d, n) \/ fs_remove(t, d, n)
          \/ \E i \in Inodes, v \in Data, count \in 1 .. MaxCount :
               \E offset \in 0 .. NumSlots * BlockUnits : fs_write(t, i, offset, count, v)
          \/ \E d1, d2 \in Inodes, n1, n2 \in Names :
               fs_copy(t, d1, n1, d2, n2) \/ fs_append(t, d1, n1, d2, n2)
          \/ CopyCreate(t) \/ CopyShare(t) \/ fs_defrag(t)
    BY <1>1 DEF Next
  <2>2. CASE \E d \in Inodes, n \in Names : fs_create(t, d, n) \/ fs_mkdir(t, d, n) \/ fs_remove(t, d, n)
    BY <2>2, CreatesAreStore, RemoveIsStore
  <2>3. CASE \E i \in Inodes, v \in Data, count \in 1 .. MaxCount :
               \E offset \in 0 .. NumSlots * BlockUnits : fs_write(t, i, offset, count, v)
    BY <2>3, WriteIsStore
  <2>4. CASE \E d1, d2 \in Inodes, n1, n2 \in Names :
               fs_copy(t, d1, n1, d2, n2) \/ fs_append(t, d1, n1, d2, n2)
    BY <2>4, CopyIsStore, AppendIsStore
  <2>5. CASE CopyCreate(t) \/ CopyShare(t) \/ fs_defrag(t)
    BY <2>5, CopyCreateIsStore, CopyShareIsStore, DefragIsStore
  <2> QED
    BY <2>1, <2>2, <2>3, <2>4, <2>5
<1>2. CASE UNCHANGED vars
  <2>1. UNCHANGED <<fs, state>>
    BY <1>2 DEF vars
  <2> QED
    BY <2>1 DEF StoreStep, StoreTree, StoreFiles
<1> QED
  BY <1>1, <1>2

LEMMA InitIsStore == Init => Store!Init
<1> SUFFICES ASSUME Init PROVE Store!Init
  OBVIOUS
<1>1. /\ fs.used = {Root} /\ fs.entries = [i \in Inodes |-> <<>>] /\ state = "sound"
      /\ fs.inode = [i \in Inodes |-> FreshInode(IF i = Root THEN "dir" ELSE "none")]
      /\ Root \in Inodes
  BY Constants DEF Init
<1>2. Directories(fs) = {Root}
  BY <1>1 DEF Directories, FreshInode
<1>3. Listing(fs, Root) = [n \in {} |-> Root]
  BY <1>1 DEF Listing
<1>4. StoreTree = [d \in {Root} |-> [n \in {} |-> Root]]
  BY <1>1, <1>2, <1>3 DEF StoreTree, Tree
<1>5. StoreFiles = [i \in {} |-> <<>>]
  BY <1>1, <1>2 DEF StoreFiles, Files
<1> QED
  BY <1>1, <1>4, <1>5 DEF Store!Init

\* Until a call that the code does not carry out as asked, the calls, with their
\* shared blocks, copies on write and moved pages, are those of a tree of files
\* that share nothing.
THEOREM FileSystemIsStore == Spec => ImplementsStore
<1>1. StoreStep <=> [Store!Next]_(Store!vars)
  BY DEF StoreStep, Store!vars
<1>2. Consistent /\ [Next]_vars => [Store!Next]_(Store!vars)
  BY <1>1, NextIsStore
<1> QED
  BY <1>2, InitIsStore, FileSystemConsistent, PTL DEF Spec, ImplementsStore, Store!Spec
=============================================================================
