----------------------------- MODULE StableQueue -----------------------------
(***************************************************************************)
(* What the scheduler expects of its tree of runnable threads: a queue in  *)
(* order of key, first come first served among equal keys, that gives its  *)
(* head.  Any element may also be taken out, as the sleep tree needs.      *)
(***************************************************************************)
EXTENDS Integers, SequencesExt

CONSTANTS Elems, Keys

VARIABLES queue,    \* the elements, in the order they will be served
          key       \* the key of each element, 0 for one that is not queued

Init == queue = <<>> /\ key = [e \in Elems |-> 0]

Insert(e, k) ==
  LET ahead == Len(SelectSeq(queue, LAMBDA q : key[q] <= k))
  IN  /\ ~Contains(queue, e)
      /\ queue' = InsertAt(queue, ahead + 1, e)
      /\ key' = [key EXCEPT ![e] = k]

TakeOut(e) ==
  /\ Contains(queue, e)
  /\ queue' = Remove(queue, e)
  /\ key' = [key EXCEPT ![e] = 0]

TakeFirst ==
  /\ queue # <<>>
  /\ TakeOut(Head(queue))

Next ==
  \/ \E e \in Elems, k \in Keys : Insert(e, k)
  \/ \E e \in Elems : TakeOut(e)
  \/ TakeFirst

Spec == Init /\ [][Next]_<<queue, key>>
=============================================================================
