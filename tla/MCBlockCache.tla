---------------------------- MODULE MCBlockCache ----------------------------
(* Three blocks over a cache of two entries, and passes of half its life. *)
EXTENDS BlockCache
=============================================================================
