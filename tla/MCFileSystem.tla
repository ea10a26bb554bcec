---------------------------- MODULE MCFileSystem ----------------------------
(***************************************************************************)
(* Three inodes besides the root, two pages of two entries, files of two   *)
(* blocks of two units: writes cross blocks, copies share them, and three  *)
(* data blocks beyond the pages run out.                                   *)
(***************************************************************************)
EXTENDS FileSystem, TLC

CONSTANTS name1, name2, name3
MCNames == {name1, name2, name3}
Symmetry == Permutations(MCNames) \cup Permutations(Data) \cup Permutations(Threads)
=============================================================================
