--------------------------- MODULE MCRequestRing ----------------------------
(***************************************************************************)
(* Three clients, two consumers and a ring of two slots: the ring fills    *)
(* while a third request waits, and both consumers can wait at once.       *)
(***************************************************************************)
EXTENDS RequestRing

CONSTANTS c1, c2, c3

MCClients == {c1, c2, c3}
MCCalls == [c \in MCClients |-> CASE c = c1 -> {"plain"}
                                   [] c = c2 -> {"defrag"}
                                   [] c = c3 -> {"plain", "empty"}]
=============================================================================
