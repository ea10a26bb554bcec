----------------------------- MODULE FileSystem -----------------------------
(***************************************************************************)
(* The file system layer, fs.c: inodes, bitmaps, reference counts, copy on *)
(* write, and the operations that change them.  An operation holds the     *)
(* writers' side of the lock (ReadWriteLock) and is one step, computed as  *)
(* a function on the record f = fs; fs_copy to a new name takes the lock   *)
(* three times and is three steps.  Blocks are read and written through    *)
(* the memory that BlockCache implements; the metadata is never read back  *)
(* from the disk.  The pages of a directory are the sequence of its        *)
(* entries.  A call that returns an error early changes nothing and is not *)
(* a step.                                                                 *)
(*                                                                         *)
(* Some calls corrupt the file system, and two end without pairing the     *)
(* halves of the lock, which ReadWriteLock follows.  This model makes the  *)
(* step and stops there: "state" is "sound" until then.                    *)
(***************************************************************************)
EXTENDS Integers, Sequences, FiniteSetsExt, SequencesExt

CONSTANTS
  Threads,      \* the consumers of the server
  Names,
  Data,         \* what is written
  Zero, Page, Junk,  \* units of an erased block, of a directory, of unknown contents
  NumInodes,    \* ITAB_SIZE
  LastBlock,    \* the last block; NUM_BLOCOS_MAX for fs_defrag
  NumSlots,     \* INODE_NUM_BLKS
  BlockUnits,   \* BLOCK_SIZE, in the smallest units the model tells apart
  PageEntries,  \* DIR_PAGE_ENTRIES
  MaxCount,     \* bound: units written by a call
  MaxCalls,     \* bound: calls that change something
  NULL

\* fs_remove needs that no directory can fill two pages.
ASSUME FileSystemAssumption ==
  /\ NumInodes \in Nat \ {0} /\ LastBlock \in Nat /\ LastBlock >= 9
  /\ MaxCalls \in Nat /\ MaxCount \in Nat
  /\ BlockUnits \in Nat \ {0} /\ {NumSlots, PageEntries} \subseteq Nat \ {0, 1}
  /\ NumInodes <= 2 * PageEntries /\ BlockUnits % PageEntries = 0
  /\ {Zero, Page, Junk} \cap Data = {}

Root == 1
Inodes == Root .. NumInodes
Blocks == 9 .. LastBlock        \* data blocks start at 10; 9 is metadata
Slots == 0 .. NumSlots - 1
Units == 0 .. BlockUnits - 1

VARIABLES
  fs,       \* [used, inode, entries, bmap, refs, mem]: inode_bmap, inode_tab, the
            \* directories, blk_bmap, referencias, what is read from each block
  state,    \* "sound", "damaged" or "frozen"
  copying,  \* what fs_copy of each thread remembers between its locks, or NULL
  calls

vars == <<fs, state, copying, calls>>

Whole(u) == [k \in Units |-> u]
FreshInode(type) == [type |-> type, size |-> 0, blocks |-> [q \in Slots |-> 0]]

\* fs_new and fs_format.
Init ==
  /\ fs = [used    |-> {Root},
           inode   |-> [i \in Inodes |-> FreshInode(IF i = Root THEN "dir" ELSE "none")],
           entries |-> [i \in Inodes |-> <<>>],
           bmap    |-> {9},
           refs    |-> [b \in Blocks |-> 0],
           mem     |-> [b \in Blocks |-> Whole(Zero)]]
  /\ state = "sound"
  /\ copying = [t \in Threads |-> NULL]
  /\ calls = 0

-----------------------------------------------------------------------------
(* Inodes, blocks and names                                                *)

InUse(f, i, type) == i \in f.used /\ f.inode[i].type = type
FreeBlocks(f) == Blocks \ f.bmap
InBlocks(n) == (n + BlockUnits - 1) \div BlockUnits      \* OFFSET_TO_BLOCKS
Size(f, i) == IF f.inode[i].type = "dir"
              THEN Len(f.entries[i]) * (BlockUnits \div PageEntries) ELSE f.inode[i].size
\* The slots of an inode in use, in order.
UsedSlots(f, i) == [q \in 1 .. InBlocks(Size(f, i)) |-> q - 1]

\* fsi_dir_search: the inode of the first entry with that name, or 0.
Lookup(f, d, n) ==
  LET k == SelectInSeq(f.entries[d], LAMBDA e : e.name = n)
  IN  IF k = 0 THEN 0 ELSE f.entries[d][k].inode

\* fs_read of the whole file.
Contents(f, i) ==
  [k \in 1 .. f.inode[i].size |->
     f.mem[f.inode[i].blocks[(k - 1) \div BlockUnits]][(k - 1) % BlockUnits]]

ReleaseShared(f, b) == [f EXCEPT !.refs[b] = 0, !.mem[b] = Whole(Zero), !.bmap = @ \ {b}]

\* apagarBloco
Release(f, b) ==
  IF f.refs[b] > 1 THEN [f EXCEPT !.refs[b] = @ - 1]
  ELSE [f EXCEPT !.refs[b] = 0, !.mem[b] = Whole(Zero), !.bmap = @ \ {b}]

ReleaseAll(f, i) == FoldLeft(LAMBDA g, q : Release(g, f.inode[i].blocks[q]), f, UsedSlots(f, i))

\* A new block for slot q of a file, the first that is free, if one is.
Reserve(f, i, q) ==
  LET b == Min(FreeBlocks(f))
  IN  IF FreeBlocks(f) = {} THEN f
      ELSE [f EXCEPT !.bmap = @ \cup {b}, !.refs[b] = @ + 1, !.inode[i].blocks[q] = b]

SeparateNever(f, b, i) == [f |-> f, b |-> b]

\* copy_on_write: the block to write in place of b.  The slot that changes is
\* the first that holds b; without a free block b itself is written.
Separate(f, b, i) ==
  IF f.refs[b] <= 1 \/ FreeBlocks(f) = {} THEN [f |-> f, b |-> b]
  ELSE LET q == Min({p \in Slots : f.inode[i].blocks[p] = b})
           g == Reserve(f, i, q)
           c == g.inode[i].blocks[q]
       IN  [f |-> [g EXCEPT !.refs[b] = @ - 1, !.mem[c] = f.mem[b]], b |-> c]

\* escreverBloco
WriteBlock(f, b, i, v) == LET s == Separate(f, b, i) IN [s.f EXCEPT !.mem[s.b] = v]

-----------------------------------------------------------------------------
(* What the operations do                                                  *)

\* The next entry of a directory opens a page of its own.
OpensPage(f, d) == Len(f.entries[d]) % PageEntries = 0

CanCreate(f, d, n) ==
  /\ InUse(f, d, "dir")
  /\ Lookup(f, d, n) = 0
  /\ Inodes \ f.used # {}
  /\ OpensPage(f, d) => FreeBlocks(f) # {}

\* fs_create and fs_mkdir
Created(f, d, n, type) ==
  LET i == Min(Inodes \ f.used)
      q == Len(f.entries[d]) \div PageEntries
      b == IF OpensPage(f, d) THEN Min(FreeBlocks(f)) ELSE f.inode[d].blocks[q]
  IN  [f EXCEPT !.used = @ \cup {i},
                !.bmap = @ \cup {b},
                !.mem[b] = Whole(Page),
                !.inode = [@ EXCEPT ![d].blocks[q] = b, ![i] = FreshInode(type)],
                !.entries = [@ EXCEPT ![d] = Append(f.entries[d], [name |-> n, inode |-> i]),
                                      ![i] = <<>>]]

\* fs_remove: the entry that goes is the last one, whatever name was asked for,
\* and its page with it when it is the first of a page.
Removed(f, d, x) ==
  LET num == Len(f.entries[d])
      last == num \div PageEntries
      index == IF last = 0 THEN num - 1 ELSE (num - 1) % (last * PageEntries)
      f1 == ReleaseAll(f, x)
      f2 == IF index = 0 THEN [Release(f1, f1.inode[d].blocks[last])
                                 EXCEPT !.inode[d].blocks[last] = 0]
                         ELSE f1
  IN  [f2 EXCEPT !.entries = [@ EXCEPT ![d] = Front(f.entries[d]), ![x] = <<>>],
                 !.inode[x] = FreshInode("none"),
                 !.used = @ \ {x}]

\* What a write puts in the block of slot q.  The rest of a block just reserved
\* holds whatever it held.
Overlaid(f, i, q, offset, count, v, reserved) ==
  [k \in Units |->
     LET p == q * BlockUnits + k IN
     IF p >= offset /\ p < offset + count THEN v
     ELSE IF q \in reserved THEN Junk ELSE f.mem[f.inode[i].blocks[q]][k]]

\* fs_write, once the blocks are reserved: the slots offset and count cover, one
\* after the other.
Written(f, i, offset, count, v, reserved) ==
  LET first == offset \div BlockUnits
      n == InBlocks(offset + count) - first
      g1 == FoldLeft(LAMBDA g, q : WriteBlock(g, g.inode[i].blocks[q], i,
                                              Overlaid(g, i, q, offset, count, v, reserved)),
                     f, [k \in 1 .. n |-> first + k - 1])
  IN  [g1 EXCEPT !.inode[i].size = Max({offset + count, @})]

\* Slot q of a file shares block b.
Share(f, b, i, q) == [f EXCEPT !.refs[b] = @ + 1, !.inode[i].blocks[q] = b]

\* fs_copy over a file that exists: its blocks are given back, then those of
\* the source are shared.
Assigned(f, src, dst) ==
  LET f1 == ReleaseAll(f, dst)
      f2 == FoldLeft(LAMBDA g, q : Share(g, g.inode[src].blocks[q], dst, q), f1, UsedSlots(f, src))
  IN  [f2 EXCEPT !.inode[dst].size = Size(f, src)]

\* fs_append shares the blocks of y after those of x.
Appended(f, x, y) ==
  LET n == Len(UsedSlots(f, x))
      f1 == FoldLeft(LAMBDA g, q : Share(g, f.inode[y].blocks[q], x, n + q), f, UsedSlots(f, y))
  IN  [f1 EXCEPT !.inode[x].size = @ + Size(f, y)]

\* mexeBlocoPara: in every inode, the first slot that holds b holds dest.
Redirected(f, b, dest) ==
  [f EXCEPT !.inode = [i \in Inodes |->
     LET holding == {q \in Slots : f.inode[i].blocks[q] = b}
     IN  IF holding = {} THEN f.inode[i]
         ELSE [f.inode[i] EXCEPT !.blocks[Min(holding)] = dest]]]

\* The copy is of the disk, which may be behind what a file last wrote.
MovedBlock(f, b, dest) ==
  [Redirected(f, b, dest) EXCEPT
     !.mem[dest] = IF f.mem[b] = Whole(Page) THEN @ ELSE Whole(Junk),
     !.bmap = @ \cup {dest}]

Moved(f, b, dest) ==
  LET spare == IF FreeBlocks(f) = {} THEN 9 ELSE Max(FreeBlocks(f))
      f1 == IF dest \in f.bmap THEN MovedBlock(f, dest, spare) ELSE f
      f2 == MovedBlock(f1, b, dest)
  IN  [f2 EXCEPT !.bmap = @ \ {b}]

-----------------------------------------------------------------------------
(* The calls that do more than they are asked                              *)

DirectoryBlocks(f) ==
  UNION {{f.inode[d].blocks[q] : q \in ToSet(UsedSlots(f, d))} :
           d \in {i \in f.used : f.inode[i].type = "dir"}}

\* fs_remove does not put the last entry in the place of the one it removes.
RemoveIsSafe(f, d, n) == Last(f.entries[d]).name = n

\* copy_on_write needs a free block, and that the slot written is the first one
\* of the file that holds its block.
WriteIsSafe(f, i, offset, count, req) ==
  LET first == offset \div BlockUnits
      shared == {q \in ToSet(UsedSlots(f, i)) :
                   /\ q >= first /\ q < InBlocks(offset + count)
                   /\ f.refs[f.inode[i].blocks[q]] > 1}
  IN  /\ Cardinality(shared) + req <= Cardinality(FreeBlocks(f))
      /\ \A q \in shared, p \in 0 .. first - 1 : f.inode[i].blocks[p] # f.inode[i].blocks[q]

\* fs_copy gives the blocks back before it reads the source.
CopyIsSafe(f, src, dst) == src # dst \/ f.inode[src].size = 0

\* fs_append joins whole blocks, and tests the type of the first file twice.
AppendIsSafe(f, x, y) ==
  Size(f, y) = 0 \/ (f.inode[y].type = "file" /\ f.inode[x].size % BlockUnits = 0)

\* mexeBlocoPara moves neither the reference count nor the cached contents, and
\* without a free block it puts what was at dest over the table of inodes.
MoveIsSafe(f, b, dest) ==
  /\ b \in DirectoryBlocks(f)
  /\ dest \in f.bmap => dest \in DirectoryBlocks(f) /\ FreeBlocks(f) # {}

\* fs_defrag at one slot: it gets the next block from 10 on.
Visit(s, c) ==
  LET b == s.f.inode[c[1]].blocks[c[2]] IN
  CASE b < s.pos -> s
    [] b = s.pos -> [s EXCEPT !.pos = @ + 1]
    [] b > s.pos -> [f |-> Moved(s.f, b, s.pos), pos |-> s.pos + 1,
                     safe |-> s.safe /\ MoveIsSafe(s.f, b, s.pos)]

\* fs_defrag: every slot of every inode in order, in use or not.
Defragmented(f) ==
  FoldLeft(Visit, [f |-> f, pos |-> 10, safe |-> TRUE],
           [k \in 1 .. NumInodes * NumSlots |->
              <<(k - 1) \div NumSlots + 1, (k - 1) % NumSlots>>])

-----------------------------------------------------------------------------
(* Steps                                                                   *)

\* A thread begins a call that changes the file system.
Call(t) ==
  /\ state = "sound" /\ copying[t] = NULL
  /\ calls < MaxCalls /\ calls' = calls + 1

Result(f, safe) == fs' = f /\ state' = IF safe THEN "sound" ELSE "damaged"
Freeze == state' = "frozen" /\ UNCHANGED fs

fs_create(t, d, n) ==
  /\ Call(t) /\ CanCreate(fs, d, n)
  /\ Result(Created(fs, d, n, "file"), TRUE)
  /\ UNCHANGED copying

\* The first early return leaves the lock taken.
fs_mkdir(t, d, n) ==
  /\ Call(t)
  /\ \/ d \notin fs.used /\ Freeze
     \/ CanCreate(fs, d, n) /\ Result(Created(fs, d, n, "dir"), TRUE)
  /\ UNCHANGED copying

\* The blocks are reserved one by one: when they run out, those already taken
\* stay taken.
fs_write(t, i, offset, count, v) ==
  LET used == Len(UsedSlots(fs, i))
      at == Min({offset, fs.inode[i].size})
      req == Max({InBlocks(at + count), used}) - used
      new == [k \in 1 .. req |-> used + k - 1]
      f1 == FoldLeft(LAMBDA g, q : Reserve(g, i, q), fs, new)
  IN  /\ Call(t) /\ InUse(fs, i, "file")
      /\ req <= NumSlots - used
      /\ IF Cardinality(FreeBlocks(fs)) < req THEN FreeBlocks(fs) # {} /\ Result(f1, FALSE)
         ELSE Result(Written(f1, i, at, count, v, ToSet(new)),
                     WriteIsSafe(fs, i, at, count, req))
      /\ UNCHANGED copying

fs_remove(t, d, n) ==
  LET x == Lookup(fs, d, n) IN
  /\ Call(t) /\ InUse(fs, d, "dir") /\ x # 0
  /\ fs.inode[x].type = "dir" => fs.entries[x] = <<>>
  /\ Result(Removed(fs, d, x), RemoveIsSafe(fs, d, n))
  /\ UNCHANGED copying

\* fs_copy up to its first terminaEscrita.
fs_copy(t, d1, n1, d2, n2) ==
  LET src == Lookup(fs, d1, n1)
      dst == Lookup(fs, d2, n2)
  IN  /\ Call(t) /\ InUse(fs, d1, "dir") /\ InUse(fs, d2, "dir")
      /\ src # 0 /\ fs.inode[src].type = "file"
      /\ \/ /\ dst # 0 /\ fs.inode[dst].type = "file"
            /\ Result(Assigned(fs, src, dst), CopyIsSafe(fs, src, dst))
            /\ UNCHANGED copying
         \/ /\ dst = 0
            /\ copying' = [copying EXCEPT ![t] = [step |-> "create", src |-> src, d1 |-> d1,
                                                  n1 |-> n1, d2 |-> d2, n2 |-> n2]]
            /\ UNCHANGED <<fs, state>>

\* Its fs_create; when that fails terminaEscrita is called out of turn.
CopyCreate(t) ==
  LET c == copying[t] IN
  /\ state = "sound" /\ c # NULL /\ c.step = "create"
  /\ IF CanCreate(fs, c.d2, c.n2)
     THEN /\ Result(Created(fs, c.d2, c.n2, "file"), TRUE)
          /\ copying' = [copying EXCEPT ![t].step = "share"]
     ELSE Freeze /\ copying' = [copying EXCEPT ![t] = NULL]
  /\ UNCHANGED calls

\* The destination is looked for again, the source is not.
CopyShare(t) ==
  LET c == copying[t]
      dst == Lookup(fs, c.d2, c.n2)
  IN  /\ state = "sound" /\ c # NULL /\ c.step = "share"
      /\ copying' = [copying EXCEPT ![t] = NULL]
      /\ IF dst # 0 /\ fs.inode[dst].type = "file"
         THEN Result(Assigned(fs, c.src, dst),
                     Lookup(fs, c.d1, c.n1) = c.src /\ InUse(fs, c.src, "file")
                       /\ CopyIsSafe(fs, c.src, dst))
         ELSE UNCHANGED <<fs, state>>
      /\ UNCHANGED calls

fs_append(t, d1, n1, d2, n2) ==
  LET x == Lookup(fs, d1, n1)
      y == Lookup(fs, d2, n2)
  IN  /\ Call(t) /\ InUse(fs, d1, "dir") /\ InUse(fs, d2, "dir")
      /\ x # 0 /\ y # 0 /\ fs.inode[x].type = "file"
      /\ Len(UsedSlots(fs, y)) <= NumSlots - Len(UsedSlots(fs, x))
      /\ Result(Appended(fs, x, y), AppendIsSafe(fs, x, y))
      /\ UNCHANGED copying

fs_defrag(t) ==
  LET r == Defragmented(fs) IN
  /\ Call(t) /\ fs.bmap \cap (10 .. LastBlock - 1) # {}
  /\ Result(r.f, r.safe)
  /\ UNCHANGED copying

Next ==
  \E t \in Threads :
    \/ \E d \in Inodes, n \in Names : fs_create(t, d, n) \/ fs_mkdir(t, d, n) \/ fs_remove(t, d, n)
    \/ \E i \in Inodes, v \in Data, count \in 1 .. MaxCount :
         \E offset \in 0 .. NumSlots * BlockUnits : fs_write(t, i, offset, count, v)
    \/ \E d1, d2 \in Inodes, n1, n2 \in Names :
         fs_copy(t, d1, n1, d2, n2) \/ fs_append(t, d1, n1, d2, n2)
    \/ CopyCreate(t) \/ CopyShare(t) \/ fs_defrag(t)

Spec == Init /\ [][Next]_vars

-----------------------------------------------------------------------------
(* Properties                                                              *)

Inode == [type : {"none", "file", "dir"}, size : 0 .. NumSlots * BlockUnits,
          blocks : [Slots -> Blocks \cup {0}]]
FsRecord == [used : SUBSET Inodes, inode : [Inodes -> Inode],
             entries : [Inodes -> Seq([name : Names, inode : Inodes])],
             bmap : SUBSET Blocks, refs : [Blocks -> Nat],
             mem : [Blocks -> [Units -> Data \cup {Zero, Page, Junk}]]]
Copies == [step : {"create", "share"}, src : Inodes,
           d1 : Inodes, n1 : Names, d2 : Inodes, n2 : Names]

TypeOK ==
  /\ fs \in FsRecord /\ Root \in fs.used
  /\ state \in {"sound", "damaged", "frozen"}
  /\ copying \in [Threads -> Copies \cup {NULL}]
  /\ calls \in 0 .. MaxCalls

\* The places that hold a block: the slots in use of the files and of the directories.
FilePlaces(f) ==
  {h \in Inodes \X Slots : InUse(f, h[1], "file") /\ h[2] < InBlocks(f.inode[h[1]].size)}
PagePlaces(f) ==
  {h \in Inodes \X Slots : InUse(f, h[1], "dir") /\ h[2] < InBlocks(Size(f, h[1]))}
At(f, h) == f.inode[h[1]].blocks[h[2]]
Holders(f, H, b) == {h \in H : At(f, h) = b}

\* referencias counts the places H of files that share a block, so copy on write
\* copies exactly when somebody else would see the write.
CountsAreExact(f, H) == \A b \in Blocks : f.refs[b] = Cardinality(Holders(f, H, b))

\* A block is taken while a place of a file or a page P holds it and no longer:
\* none is lost, and none is handed out twice.  The blocks of X are never held.
BitmapIsExact(f, H, P, X) ==
  /\ \A h \in H \cup P : At(f, h) \in Blocks \ X
  /\ \A b \in Blocks : b \in f.bmap <=> (b \in X \/ \E h \in H \cup P : At(f, h) = b)
  /\ \A h \in P, g \in H \cup P : At(f, g) = At(f, h) => g = h

\* An inode has a type while it is in use, and then, but for the root, exactly one
\* name, in a directory where no other entry has that name.
NamesAreExact(f) ==
  /\ \A i \in Inodes : i \in f.used <=> f.inode[i].type # "none"
  /\ \A i \in f.used \ {Root} :
       \E d \in f.used : /\ f.inode[d].type = "dir"
                         /\ \E k \in DOMAIN f.entries[d] : f.entries[d][k].inode = i
  /\ \A d, c \in f.used : f.inode[d].type = "dir" /\ f.inode[c].type = "dir" =>
       \A k \in DOMAIN f.entries[d], l \in DOMAIN f.entries[c] :
         LET e == f.entries[d][k] IN
         /\ e.inode \in f.used \ {Root}
         /\ <<d, k>> # <<c, l>> => e.inode # f.entries[c][l].inode
         /\ d = c /\ k # l => e.name # f.entries[c][l].name

\* fs.c: no sequence of calls but those named above, interleaved with the parts
\* of a copy, leaves the metadata at odds with itself.
Consistent ==
  /\ TypeOK
  /\ state = "sound" => /\ CountsAreExact(fs, FilePlaces(fs))
                        /\ BitmapIsExact(fs, FilePlaces(fs), PagePlaces(fs), {9})
                        /\ NamesAreExact(fs)

\* What the calls show of the record: the directories and the contents of the files.
Directories(f) == {d \in f.used : f.inode[d].type = "dir"}
Listing(f, d) == [n \in {f.entries[d][k].name : k \in DOMAIN f.entries[d]} |-> Lookup(f, d, n)]
Tree(f) == [d \in Directories(f) |-> Listing(f, d)]
Files(f) == [i \in f.used \ Directories(f) |-> Contents(f, i)]

StoreTree == IF state = "sound" THEN Tree(fs) ELSE <<>>
StoreFiles == IF state = "sound" THEN Files(fs) ELSE <<>>

Store == INSTANCE FileStore WITH ok <- state = "sound", tree <- StoreTree, files <- StoreFiles

\* fs.h: blocks are shared by copies and appends, and yet every file behaves
\* as a sequence of its own; names and inodes are those of a tree.
ImplementsStore == Store!Spec

\* fs.c:1291: fs_remove takes the name out of the directory.
RemovedNameIsGone ==
  [][\A t \in Threads, d \in Inodes, n \in Names :
       fs_remove(t, d, n) => Lookup(fs', d, n) = 0]_vars
=============================================================================
