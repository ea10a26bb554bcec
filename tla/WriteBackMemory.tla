-------------------------- MODULE WriteBackMemory ---------------------------
(***************************************************************************)
(* What the block cache promises the file system: a memory of blocks whose *)
(* last writes are seen at once and reach the disk some time later.  Only  *)
(* the move of a block, which works on the disk, may drop a write; a       *)
(* server that is started again begins with an empty disk.                 *)
(***************************************************************************)
CONSTANTS Blocks, Contents, Zero

VARIABLES
  mem,      \* what a read of each block returns
  disk      \* what the disk holds

vars == <<mem, disk>>

Init == mem = [b \in Blocks |-> Zero] /\ disk = mem

Write(b, v) == mem' = [mem EXCEPT ![b] = v]

\* Both at once: erasing a file's block, and the accesses of directories.
WriteThrough(b, v) ==
  /\ mem' = [mem EXCEPT ![b] = v]
  /\ disk' = [disk EXCEPT ![b] = v]

\* Any number of blocks reach the disk, with a write or by themselves.
Flush ==
  /\ disk' \in [Blocks -> Contents \cup {Zero}]
  /\ \A b \in Blocks : disk'[b] \in {mem[b], disk[b]}

\* What the disk has of b goes to dest; writes of b still in memory are dropped.
Move(b, dest) ==
  /\ mem' = [mem EXCEPT ![dest] = disk[b], ![b] = disk[b]]
  /\ disk' = [disk EXCEPT ![dest] = disk[b]]

Restart == mem' = [b \in Blocks |-> Zero] /\ disk' = mem'

Next ==
  \/ \E b \in Blocks, v \in Contents : Write(b, v) /\ Flush
  \/ Flush /\ UNCHANGED mem
  \/ \E b \in Blocks, v \in Contents \cup {Zero} : WriteThrough(b, v)
  \/ \E b, dest \in Blocks : Move(b, dest)
  \/ Restart

Spec == Init /\ [][Next]_vars
=============================================================================
