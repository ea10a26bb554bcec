--------------------------- MODULE BoundedChannel ---------------------------
(***************************************************************************)
(* What the server's ring of requests promises: a first-in first-out       *)
(* channel that holds at most Capacity requests.                           *)
(***************************************************************************)
EXTENDS Naturals, Sequences

CONSTANTS Messages, Capacity

VARIABLE queue

Init == queue = <<>>

Put(m) == Len(queue) < Capacity /\ queue' = Append(queue, m)

Take == queue # <<>> /\ queue' = Tail(queue)

Next == (\E m \in Messages : Put(m)) \/ Take

Spec == Init /\ [][Next]_queue
=============================================================================
