------------------------------ MODULE MCClient ------------------------------
(***************************************************************************)
(* Two clients of a server that holds the file /a of two chunks and the    *)
(* directory /b with the empty file /b/a.                                  *)
(***************************************************************************)
EXTENDS Client, TLC

CONSTANTS a, b
MCPaths == {<<a>>, <<b>>, <<b, a>>, <<b, b>>}
MCPairs == {<< <<b, a>>, <<a>> >>, << <<a>>, <<b, b>> >>, << <<a>>, <<a>> >>}
MCTree == (1 :> (a :> 4 @@ b :> 2)) @@ (2 :> (a :> 3))
MCFiles == (3 :> <<>>) @@ (4 :> <<Datum, Datum>>)
=============================================================================
