------------------------------- MODULE Client -------------------------------
(***************************************************************************)
(* The client library, myfs.c over queue.c and snfs_api.c, in several      *)
(* client processes, and the handlers of snfs.c that answer it.  A call of *)
(* the library is a plan of messages; each message is one step that the    *)
(* server makes on the FileStore that FileSystem implements, together with *)
(* what the library does with the answer.  The steps of different clients  *)
(* interleave.  fs_get_attrs takes no lock, so the size that lookup and    *)
(* write answer is read in a step of its own, and may be asked of an inode *)
(* that fs_remove has half removed: then the server exits (fs.c:672-674).  *)
(* fs_copy leaves the lock in the middle to create its target, and two     *)
(* early returns do not leave it as they entered it (ReadWriteLock).       *)
(*                                                                         *)
(* Contents matter only by their length, in units of one datum.            *)
(***************************************************************************)
EXTENDS Integers, Sequences, FiniteSetsExt, SequencesExt

CONSTANTS
  Clients,
  Inodes, Root,
  Names,          \* all of one length: my_append leaves the end of a longer one in place
  Paths,          \* absolute paths of one or two names
  Pairs,          \* bound: the paths that my_copy and my_append are given together
  Datum,
  Chunk,          \* MAX_READ_DATA and MAX_WRITE_DATA
  MaxOpenFiles,   \* MAX_OPEN_FILES
  Modulus,        \* 2^w for the unsigned of my_read
  MaxCount,       \* bound: length of a read or a write
  MaxCalls,       \* bound: calls begun by all the clients
  StartTree, StartFiles  \* what the server holds when the clients start

\* Directories and files have inodes of their own, and entries name inodes.
IsStore(dirs, contents) ==
  /\ DOMAIN dirs \cup DOMAIN contents \subseteq Inodes /\ DOMAIN dirs \cap DOMAIN contents = {}
  /\ \A d \in DOMAIN dirs : IsFiniteSet(DOMAIN dirs[d]) /\ \A n \in DOMAIN dirs[d] : dirs[d][n] \in Inodes
  /\ \A f \in DOMAIN contents : contents[f] \in Seq({Datum})

ASSUME ClientAssumption ==
  /\ Paths \subseteq (Seq(Names) \ {<<>>}) /\ Pairs \subseteq Paths \X Paths
  /\ Root \in DOMAIN StartTree /\ IsStore(StartTree, StartFiles)
  /\ {Chunk, MaxCount, Modulus, MaxOpenFiles} \subseteq Nat \ {0} /\ MaxCalls \in Nat
  /\ MaxCount < Modulus

VARIABLES
  tree, files,    \* the server's FileStore
  list,           \* client -> Open_files_list, from first to last
  Open_files,     \* client -> its count
  call,           \* client -> the call it is in
  calls,
  removing,       \* the inode that fs_remove has cleared and not yet freed, or 0
  closed,         \* an early return has shut the file system's lock for good
  exited          \* the server has called exit(-1)

vars == <<tree, files, list, Open_files, call, calls, removing, closed, exited>>
server == <<removing, closed, exited>>

Store == INSTANCE FileStore WITH Data <- {Datum}, ok <- TRUE

NoCall == [op |-> "none", todo |-> <<>>, p |-> <<>>, q |-> <<>>, create |-> FALSE,
           dir |-> Root, dir2 |-> Root, found |-> 0, size |-> 0, left |-> 0]

Init ==
  /\ tree = StartTree
  /\ files = StartFiles
  /\ list = [c \in Clients |-> <<>>]
  /\ Open_files = [c \in Clients |-> 0]
  /\ call = [c \in Clients |-> NoCall]
  /\ calls = 0
  /\ removing = 0 /\ closed = FALSE /\ exited = FALSE

Busy(c) == call[c].op # "none"
Message(c) == Head(call[c].todo)
Set(c, k) == call' = [call EXCEPT ![c] = k]
Return(c) == Set(c, NoCall)
Continue(c) == Set(c, [call[c] EXCEPT !.todo = Tail(@)])

-----------------------------------------------------------------------------
(* The server                                                              *)

Entry(d, n) == IF d \in DOMAIN tree /\ n \in DOMAIN tree[d] THEN tree[d][n] ELSE 0

\* fs_lookup: the inode of a path, or 0.
Lookup(path) == FoldLeft(Entry, Root, path)

Exists(i) == i \in Store!Used
\* The lock lets a call in: no other is in it, and it is not shut.
Unlocked == removing = 0 /\ ~closed
\* A directory entry takes as much as a datum.
Length(i) == IF i \in DOMAIN files THEN Len(files[i]) ELSE Cardinality(DOMAIN tree[i])
FreeInode == Min(Inodes \ Store!Used)
CanCreate(d, n) == d \in DOMAIN tree /\ ~Store!Named(d, n) /\ Inodes # Store!Used

-----------------------------------------------------------------------------
(* The table of open files                                                 *)

\* queue_node_get: the position of the first descriptor of a file, or 0.
Position(c, f) == SelectInSeq(list[c], LAMBDA d : d.fileId = f)
Descriptor(c, f) == list[c][Position(c, f)]

Enqueue(c, f, size) ==
  /\ list' = [list EXCEPT ![c] = Append(@, [fileId |-> f, size |-> size,
                                            write_offset |-> 0, read_offset |-> 0])]
  /\ Open_files' = [Open_files EXCEPT ![c] = @ + 1]

\* my_close
Close(c, f) ==
  /\ ~Busy(c) /\ Position(c, f) # 0
  /\ list' = [list EXCEPT ![c] = RemoveAt(@, Position(c, f))]
  /\ Open_files' = [Open_files EXCEPT ![c] = @ - 1]
  /\ UNCHANGED <<tree, files, call, calls, server>>

-----------------------------------------------------------------------------
(* Calls begin                                                             *)

\* The lookup of a path's directory, which is left out for the root.
DirOf(path, message) == IF Len(path) = 1 THEN <<>> ELSE <<message>>

Plan(op, p, q) ==
  CASE op = "open" -> <<"name", "dir", "create">>
    [] op \in {"remove", "mkdir"} -> <<"name">> \o DirOf(p, "dir") \o <<op>>
    [] op = "copy" -> <<"name">> \o DirOf(p, "dir") \o DirOf(q, "dir2") \o <<"name2", op>>
    [] op = "append" -> <<"name">> \o DirOf(p, "dir") \o <<"name2">> \o DirOf(q, "dir2") \o <<op>>
    [] op \in {"read", "write", "defrag"} -> <<op>>

Begin(c, k) ==
  /\ ~Busy(c) /\ calls < MaxCalls
  /\ calls' = calls + 1
  /\ Set(c, [k EXCEPT !.todo = Plan(k.op, k.p, k.q)])
  /\ UNCHANGED <<tree, files, list, Open_files, server>>

FullTooLate(c) == Open_files[c] > MaxOpenFiles

Full(c) == Open_files[c] >= MaxOpenFiles

Open(c, p, create) ==
  ~Full(c) /\ Begin(c, [NoCall EXCEPT !.op = "open", !.p = p, !.create = create])

\* my_remove and my_mkdir
ChangeName(c, op, p) == Begin(c, [NoCall EXCEPT !.op = op, !.p = p])

\* my_copy and my_append
Combine(c, op, p, q) == Begin(c, [NoCall EXCEPT !.op = op, !.p = p, !.q = q])

\* my_read: at the end it returns at once.  The rest is taken in unsigned
\* arithmetic, also when the file has become shorter than the offset.
Read(c, f, numBytes) ==
  LET d == Descriptor(c, f) IN
  /\ Position(c, f) # 0 /\ d.read_offset # d.size
  /\ Begin(c, [NoCall EXCEPT !.op = "read", !.found = f,
                 !.left = IF d.size < d.read_offset + numBytes
                          THEN (d.size - d.read_offset) % Modulus ELSE numBytes])

Write(c, f, numBytes) ==
  /\ Position(c, f) # 0
  /\ Begin(c, [NoCall EXCEPT !.op = "write", !.found = f, !.left = numBytes])

Defrag(c) == Begin(c, [NoCall EXCEPT !.op = "defrag"])

-----------------------------------------------------------------------------
(* Lookups                                                                 *)

Lookups == {"name", "dir", "name2", "dir2"}

\* The path that is looked up.  my_open asks for the file itself in place of
\* the root directory.
Asked(k) ==
  LET path == IF Head(k.todo) \in {"name", "dir"} THEN k.p ELSE k.q
  IN  IF Head(k.todo) \in {"name", "name2"} \/ Len(path) = 1 THEN path ELSE Front(path)

\* What the library does with an answer: the call that is left, or NoCall.
\* An error leaves the size as it was.
Answered(k, ok, i, size) ==
  LET m == Head(k.todo)
      handle == IF ok THEN i ELSE 0
      next == [k EXCEPT !.todo = Tail(@), !.found = 0,
                        !.dir = IF m = "dir" /\ Len(k.p) > 1 THEN handle ELSE @,
                        !.dir2 = IF m = "dir2" THEN handle ELSE @]
  IN  CASE k.op = "open" /\ m = "name" -> next
        [] k.op = "open" /\ m = "dir" ->
             IF k.create THEN [next EXCEPT !.size = IF ok THEN size ELSE @] ELSE NoCall
        [] k.op = "mkdir" /\ m = "name" -> IF ok THEN NoCall ELSE next
        [] k.op = "copy" /\ m = "name2" ->
             IF ok THEN next ELSE [next EXCEPT !.todo = <<"create2">> \o @]
        [] OTHER -> IF ok THEN next ELSE NoCall

\* snfs_lookup: the path is resolved under the lock ...
Resolve(c) ==
  LET k == call[c] i == Lookup(Asked(k)) IN
  /\ Busy(c) /\ Message(c) \in Lookups /\ k.found = 0 /\ Unlocked
  /\ Set(c, IF i = 0 THEN Answered(k, FALSE, 0, 0) ELSE [k EXCEPT !.found = i])
  /\ UNCHANGED <<tree, files, list, Open_files, calls, server>>

\* ... and the size of what was found is read after it.
Attributes(c) ==
  LET k == call[c] i == k.found IN
  /\ Busy(c) /\ Message(c) \in Lookups /\ i \notin {0, removing}
  /\ IF k.op = "open" /\ Message(c) = "name" /\ Exists(i)
     THEN Enqueue(c, i, Length(i)) /\ Return(c)
     ELSE /\ Set(c, Answered(k, Exists(i), i, IF Exists(i) THEN Length(i) ELSE 0))
          /\ UNCHANGED <<list, Open_files>>
  /\ UNCHANGED <<tree, files, calls, server>>

-----------------------------------------------------------------------------
(* The other messages.  The server may refuse any that changes something,  *)
(* and finds out in the lock.  Two of its refusals do not leave it once:   *)
(* that of a mkdir in a directory without an inode stays inside, and that  *)
(* of the target that fs_copy creates leaves it a second time.             *)

\* fs_copy finds its source, and no target.
NeedsTarget(k) ==
  /\ Entry(k.dir, Last(k.p)) \in DOMAIN files
  /\ k.dir2 \in DOMAIN tree /\ ~Store!Named(k.dir2, Last(k.q))

Refuse(c) ==
  LET k == call[c] IN
  /\ Busy(c) /\ Unlocked
  /\ Message(c) \in {"create", "create2", "remove", "mkdir", "copy", "merge", "append", "write"}
  /\ Message(c) = "mkdir" => Exists(k.dir)
  /\ Message(c) = "copy" => ~NeedsTarget(k)
  /\ Return(c)
  /\ UNCHANGED <<tree, files, list, Open_files, calls, server>>

\* fs_mkdir when the directory has been removed since it was looked up.
MkdirInside(c) ==
  /\ Busy(c) /\ Message(c) = "mkdir" /\ Unlocked /\ ~Exists(call[c].dir)
  /\ closed' = TRUE
  /\ Return(c)
  /\ UNCHANGED <<tree, files, list, Open_files, calls, removing, exited>>

\* The end of my_open for a new file: its size is the one looked up last.
snfs_create(c) ==
  LET k == call[c] i == FreeInode IN
  /\ Busy(c) /\ Message(c) = "create" /\ Unlocked
  /\ CanCreate(k.dir, Last(k.p)) /\ Store!Create(k.dir, Last(k.p), i)
  /\ Enqueue(c, i, k.size)
  /\ Return(c)
  /\ UNCHANGED <<calls, server>>

snfs_mkdir(c) ==
  LET k == call[c] IN
  /\ Busy(c) /\ Message(c) = "mkdir" /\ Unlocked
  /\ CanCreate(k.dir, Last(k.p)) /\ Store!Mkdir(k.dir, Last(k.p), FreeInode)
  /\ Return(c)
  /\ UNCHANGED <<list, Open_files, calls, server>>

\* fs_remove up to the point where the inode has no type any more ...
snfs_remove(c) ==
  LET k == call[c] IN
  /\ Busy(c) /\ Message(c) = "remove" /\ Unlocked
  /\ k.dir \in DOMAIN tree /\ Store!Named(k.dir, Last(k.p)) /\ Store!Remove(k.dir, Last(k.p))
  /\ removing' = tree[k.dir][Last(k.p)]
  /\ Set(c, [k EXCEPT !.todo = <<"removed">>])
  /\ UNCHANGED <<list, Open_files, calls, closed, exited>>

\* ... and, the bitmap cleared, the end of the lock.
Removed(c) ==
  /\ Busy(c) /\ Message(c) = "removed"
  /\ removing' = 0
  /\ Return(c)
  /\ UNCHANGED <<tree, files, list, Open_files, calls, closed, exited>>

\* fs_get_attrs of that inode finds it in use and of no type.
AttrsOfNoType(c) ==
  /\ Busy(c) /\ removing # 0 /\ call[c].found = removing
  /\ Message(c) \in Lookups \cup {"attrs"}
  /\ exited' = TRUE
  /\ UNCHANGED <<tree, files, list, Open_files, call, calls, removing, closed>>

\* The target of a copy: my_copy creates it, and so does fs_copy when it has
\* been removed since.  For that it leaves the lock, ...
LeaveForTarget(c) ==
  LET k == call[c] IN
  /\ Busy(c) /\ Message(c) = "copy" /\ Unlocked /\ NeedsTarget(k)
  /\ Set(c, [k EXCEPT !.todo = <<"target">>, !.found = Entry(k.dir, Last(k.p))])
  /\ UNCHANGED <<tree, files, list, Open_files, calls, server>>

CreateTarget(c) ==
  LET k == call[c] IN
  /\ Busy(c) /\ Unlocked /\ Message(c) \in {"create2", "target"}
  /\ CanCreate(k.dir2, Last(k.q)) /\ Store!Create(k.dir2, Last(k.q), FreeInode)
  /\ IF Message(c) = "create2" THEN Continue(c) ELSE Set(c, [k EXCEPT !.todo = <<"merge">>])
  /\ UNCHANGED <<list, Open_files, calls, server>>

\* ... enters it again and goes on with the inode of the source it has found,
\* whatever that has become: an inode that is free has no data.
CopyFound(c) ==
  LET k == call[c] f == k.found g == Entry(k.dir2, Last(k.q)) IN
  /\ Busy(c) /\ Unlocked /\ Message(c) = "merge" /\ g \in DOMAIN files
  /\ files' = [files EXCEPT ![g] = [j \in 1 .. IF Exists(f) THEN Length(f) ELSE 0 |-> Datum]]
  /\ Return(c)
  /\ UNCHANGED <<tree, list, Open_files, calls, server>>

\* fs_create has failed in a call of the lock of its own ...
TargetRefused(c) ==
  /\ Busy(c) /\ Unlocked /\ Message(c) = "target"
  /\ Set(c, [call[c] EXCEPT !.todo = <<"again">>])
  /\ UNCHANGED <<tree, files, list, Open_files, calls, server>>

\* ... and fs_copy leaves the lock that it is not in, without waiting for
\* anyone.  escritores falls to -1, which shuts the lock at once or, beside a
\* writer, when that one leaves; only if the count is lost in the writer's own
\* does the lock work on.  What it lets in meanwhile is in ReadWriteLock.
LeaveAgain(c) ==
  /\ Busy(c) /\ Message(c) = "again"
  /\ closed' \in {closed, TRUE}
  /\ Return(c)
  /\ UNCHANGED <<tree, files, list, Open_files, calls, removing, exited>>

\* The last message of my_copy and my_append.
Merge(c) ==
  LET k == call[c] f == Entry(k.dir, Last(k.p)) g == Entry(k.dir2, Last(k.q)) IN
  /\ Busy(c) /\ Unlocked /\ Message(c) \in {"copy", "append"} /\ {f, g} \subseteq DOMAIN files
  /\ \/ Message(c) = "copy" /\ Store!Copy(f, g)
     \/ Message(c) = "append" /\ Store!Concatenate(f, g)
  /\ Return(c)
  /\ UNCHANGED <<list, Open_files, calls, server>>

SameToRead(k, nread) == k

ToRead(k, nread) == [k EXCEPT !.left = @ - nread]

\* One turn of the loop of my_read.
ReadChunk(c) ==
  LET k == call[c] f == k.found d == Descriptor(c, f)
      nread == Max({0, Min({Chunk, k.left, Len(files[f]) - d.read_offset})})
  IN
  /\ Busy(c) /\ Message(c) = "read" /\ Unlocked
  /\ IF f \notin DOMAIN files THEN Return(c) /\ UNCHANGED list
     ELSE /\ list' = [list EXCEPT ![c][Position(c, f)].read_offset = @ + nread]
          /\ IF k.left = nread THEN Return(c) ELSE Set(c, ToRead(k, nread))
  /\ UNCHANGED <<tree, files, Open_files, calls, server>>

\* The loop of my_write.  The server writes no further than the end ...
WriteChunk(c) ==
  LET k == call[c] f == k.found IN
  /\ Busy(c) /\ Unlocked /\ Message(c) = "write" /\ f \in DOMAIN files
  /\ Store!WriteAt(f, Min({Descriptor(c, f).write_offset, Len(files[f])}),
                   [j \in 1 .. Min({Chunk, k.left}) |-> Datum])
  /\ Set(c, [k EXCEPT !.todo = <<"attrs">>])
  /\ UNCHANGED <<list, Open_files, calls, server>>

WrittenOwnSize(c, f, wBytes) ==
  LET d == Descriptor(c, f) IN
  list' = [list EXCEPT ![c][Position(c, f)] =
             [d EXCEPT !.size = d.size + wBytes, !.write_offset = d.write_offset + wBytes]]

\* The descriptor after a chunk.
Written(c, f, wBytes) ==
  LET d == Descriptor(c, f) IN
  list' = [list EXCEPT ![c][Position(c, f)] =
             [d EXCEPT !.size = Length(f), !.write_offset = d.write_offset + wBytes]]

\* ... and answers the size, which it reads in a second step.
WriteAnswered(c) ==
  LET k == call[c] f == k.found wBytes == Min({Chunk, k.left}) IN
  /\ Busy(c) /\ Message(c) = "attrs" /\ f # removing
  /\ IF ~Exists(f) THEN Return(c) /\ UNCHANGED list
     ELSE /\ Written(c, f, wBytes)
          /\ IF k.left = wBytes THEN Return(c)
             ELSE Set(c, [k EXCEPT !.todo = <<"write">>, !.left = @ - wBytes])
  /\ UNCHANGED <<tree, files, Open_files, calls, server>>

\* The handler of defrag leaves the length of its answer unset, so the answer
\* may not be sent.
DefragAnswered(c) ==
  /\ Busy(c) /\ Message(c) = "defrag" /\ Unlocked
  /\ Return(c) \/ Set(c, [call[c] EXCEPT !.todo = <<"lost">>])
  /\ UNCHANGED <<tree, files, list, Open_files, calls, server>>

-----------------------------------------------------------------------------
Start(c) ==
  \/ \E p \in Paths, create \in BOOLEAN : Open(c, p, create)
  \/ \E p \in Paths, op \in {"remove", "mkdir"} : ChangeName(c, op, p)
  \/ \E pair \in Pairs, op \in {"copy", "append"} : Combine(c, op, pair[1], pair[2])
  \/ \E f \in Inodes, n \in 1 .. MaxCount : Read(c, f, n) \/ Write(c, f, n)
  \/ Defrag(c)

Proceed(c) ==
  \/ Resolve(c) \/ Attributes(c)
  \/ Refuse(c) \/ snfs_create(c) \/ snfs_mkdir(c) \/ snfs_remove(c) \/ Merge(c)
  \/ MkdirInside(c) \/ LeaveForTarget(c) \/ CreateTarget(c) \/ CopyFound(c)
  \/ TargetRefused(c) \/ LeaveAgain(c)
  \/ Removed(c) \/ AttrsOfNoType(c)
  \/ ReadChunk(c) \/ WriteChunk(c) \/ WriteAnswered(c) \/ DefragAnswered(c)

\* The model follows the clients as long as the server runs.
Next ==
  /\ ~exited
  /\ \E c \in Clients : Start(c) \/ Proceed(c) \/ \E f \in Inodes : Close(c, f)

\* A client that waits for an answer gets it: the server serves every request
\* (RequestRing!Answered), and a call that the lock could let in enters it.
\* That is assumed of a lock that is not shut: with readers and writers mixed
\* it can also forget a wake-up (ReadWriteLock!OneKindReturns speaks of one
\* kind only), and this module does not follow the calls lost to that.
Spec == Init /\ [][Next]_vars /\ \A c \in Clients : WF_vars(~exited /\ Proceed(c))
-----------------------------------------------------------------------------
(* Properties                                                              *)

\* The requests of snfs_proto.h, and where the server or the library stands
\* in one that takes two steps.
Messages == Lookups \cup {"create", "remove", "mkdir", "copy", "append", "read", "write", "defrag",
                         "create2", "attrs", "removed", "target", "merge", "again", "lost"}

Descriptors == [fileId : Inodes, size : Nat, write_offset : Nat, read_offset : Nat]

TypeOK ==
  /\ list \in [Clients -> Seq(Descriptors)] /\ Open_files \in [Clients -> Nat]
  /\ DOMAIN call = Clients
  /\ \A c \in Clients : /\ DOMAIN call[c] = DOMAIN NoCall
                        /\ call[c].todo \in Seq(Messages) /\ call[c].size \in Nat
                        /\ call[c].left \in 0 .. Modulus - 1
  /\ IsStore(tree, files)
  /\ removing \in Inodes \cup {0} /\ closed \in BOOLEAN /\ exited \in BOOLEAN

\* Which calls send a message.
Belongs(m, op) ==
  /\ m = "create" => op = "open"
  /\ m = "read" <=> op = "read"
  /\ m \in {"write", "attrs"} => op = "write"
  /\ m \in Lookups => op \notin {"read", "write"}

\* A call has a message left to send or an answer to come, and what it sends
\* last is neither a lookup nor the creation of a copy's target.  A write sends
\* one chunk at a time.
PlansEnd ==
  \A c \in Clients :
    /\ Busy(c) => call[c].todo # <<>> /\ Last(call[c].todo) \notin Lookups \cup {"create2"}
    /\ \A m \in Range(call[c].todo) : Belongs(m, call[c].op)
    /\ call[c].op = "write" => call[c].todo \in {<<"write">>, <<"attrs">>}

\* The descriptor that my_read and my_write found stays in the table while they
\* use it (myfs.c:164, 211).
DescriptorHeld ==
  \A c \in Clients : call[c].op \in {"read", "write"} =>
    \E j \in 1 .. Len(list[c]) : list[c][j].fileId = call[c].found

\* The room that my_open found in the table before its first message
\* (myfs.c:69-72) is there when the descriptor is inserted.
RoomKept == \A c \in Clients : call[c].op = "open" => Open_files[c] < MaxOpenFiles

\* The count that limits the open files is the number of descriptors, and the
\* limit holds: no path of my_open or my_close (myfs.c:60-154, 243-260) leaves
\* one out, also when a file is opened twice and only its first descriptor is
\* ever found.
TableCounted ==
  \A c \in Clients : Open_files[c] = Len(list[c]) /\ Open_files[c] <= MaxOpenFiles

\* A descriptor behind another of its file is never used, because
\* queue_node_get and queue_node_remove find the first (myfs.c:164, 211, 250).
FirstUsed(l) ==
  \A i, j \in 1 .. Len(l) :
    i < j /\ l[i].fileId = l[j].fileId => l[j].write_offset = 0 /\ l[j].read_offset = 0

OnlyFirstUsed == \A c \in Clients : FirstUsed(list[c])

\* Together these are inductive; OutrunOnlyByOthers rests on them.
ClientInv == TypeOK /\ PlansEnd /\ DescriptorHeld /\ RoomKept /\ TableCounted /\ OnlyFirstUsed

\* The chunk of a call that is written and not yet answered.
Unanswered(d, k) ==
  IF k.todo = <<"attrs">> /\ k.found = d.fileId THEN Min({Chunk, k.left}) ELSE 0

\* What a descriptor says of its file's length.
Claim(d, k) == Max({d.size, d.read_offset, d.write_offset + Unanswered(d, k)})

Outruns(d, k, held) == d.fileId \in DOMAIN held /\ Len(held[d.fileId]) < Claim(d, k)

\* A descriptor comes to claim more than its file holds only because the file
\* becomes shorter, or because the number of the descriptor comes to stand for
\* a new file, which my_open may give the size of its directory (myfs.c:103,
\* 127).  Reads and writes never do it, however the chunks of the clients and
\* the answers to them interleave.
OutrunOnlyByOthers ==
  [][\A c \in Clients : \A j \in DOMAIN list'[c] :
       LET f == list'[c][j].fileId IN
       Outruns(list'[c][j], call'[c], files') =>
         \/ \E i \in DOMAIN list[c] \cap {j, j + 1} :
              list[c][i].fileId = f /\ Outruns(list[c][i], call[c], files)
         \/ f \notin DOMAIN files
         \/ Len(files'[f]) < Len(files[f])]_vars

\* The file of a read is shorter than its descriptor says.
Starved(c) ==
  call[c].op = "read" /\ Outruns(Descriptor(c, call[c].found), call[c], files)

\* Every call of the library ends, unless it reads a file that has become too
\* short for its descriptor (the loop of my_read, myfs.c:186-199), the answer to
\* a defrag was not sent (snfs.c:286), the server exited, or an early return of
\* fs_mkdir or fs_copy has shut the lock (fs.c:1078, 1490): then any call may
\* wait for ever.
CallsEnd ==
  \A c \in Clients :
    Busy(c) ~> (~Busy(c) \/ Starved(c) \/ call[c].op = "defrag" \/ exited \/ closed)

\* myfs.h: my_read returns "the number of bytes read, 0 if end of file reached
\* or -1 if error", so it returns (myfs.c:156-202).
ReadsReturn == \A c \in Clients : call[c].op = "read" ~> (call[c].op # "read" \/ exited \/ closed)

\* fs.h:96: fs_get_attrs "returns: 0 if successful, -1 otherwise", so it returns
\* (fs.c:665-675).
AttrsReturn == ~exited
=============================================================================
