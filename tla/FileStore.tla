------------------------------ MODULE FileStore ------------------------------
(***************************************************************************)
(* What the file system promises: a tree of named files and directories,   *)
(* each file a sequence of data of its own.  Any call may be refused; once *)
(* ok is FALSE nothing is promised any more.                               *)
(***************************************************************************)
EXTENDS Naturals, Sequences, Functions

CONSTANTS Inodes, Root, Names, Data, MaxCount

VARIABLES
  tree,     \* directory -> name -> inode
  files,    \* file -> its contents
  ok

vars == <<tree, files, ok>>

Init ==
  /\ tree = [d \in {Root} |-> [n \in {} |-> Root]]
  /\ files = [f \in {} |-> <<>>]
  /\ ok = TRUE

Used == DOMAIN tree \cup DOMAIN files
Bind(g, x, y) == [z \in DOMAIN g \cup {x} |-> IF z = x THEN y ELSE g[z]]
Named(d, n) == n \in DOMAIN tree[d]

Create(d, n, f) ==
  /\ ~Named(d, n) /\ f \in Inodes \ Used
  /\ tree' = [tree EXCEPT ![d] = Bind(@, n, f)]
  /\ files' = Bind(files, f, <<>>)

Mkdir(d, n, new) ==
  /\ ~Named(d, n) /\ new \in Inodes \ Used
  /\ tree' = Bind([tree EXCEPT ![d] = Bind(@, n, new)], new, [m \in {} |-> new])
  /\ UNCHANGED files

\* A write past the end begins at the end.
Overwrite(s, offset, buffer) ==
  SubSeq(s, 1, offset) \o buffer \o SubSeq(s, offset + Len(buffer) + 1, Len(s))

WriteAt(f, offset, buffer) ==
  /\ files' = [files EXCEPT ![f] = Overwrite(@, offset, buffer)]
  /\ UNCHANGED tree

Write(f) ==
  \E offset \in 0 .. Len(files[f]), count \in 1 .. MaxCount, v \in Data :
    WriteAt(f, offset, [k \in 1 .. count |-> v])

Remove(d, n) ==
  LET x == tree[d][n] IN
  /\ x \in DOMAIN tree => tree[x] = [m \in {} |-> x]
  /\ tree' = Restrict([tree EXCEPT ![d] = Restrict(@, DOMAIN @ \ {n})], DOMAIN tree \ {x})
  /\ files' = Restrict(files, DOMAIN files \ {x})

Copy(f, g) == files' = [files EXCEPT ![g] = files[f]] /\ UNCHANGED tree
Concatenate(f, g) == files' = [files EXCEPT ![f] = @ \o files[g]] /\ UNCHANGED tree

Next ==
  /\ ok
  /\ \/ /\ ok'
        /\ \/ \E d \in DOMAIN tree, n \in Names, i \in Inodes : Create(d, n, i) \/ Mkdir(d, n, i)
           \/ \E f \in DOMAIN files : Write(f)
           \/ \E d \in DOMAIN tree : \E n \in DOMAIN tree[d] : Remove(d, n)
           \/ \E f, g \in DOMAIN files : Copy(f, g) \/ Concatenate(f, g)
     \/ ~ok'

Spec == Init /\ [][Next]_vars
=============================================================================
