----------------------------- MODULE MesaMonitor -----------------------------
(***************************************************************************)
(* What sthread.h promises of a monitor: one thread inside at a time, a    *)
(* wait that leaves the monitor and joins the waiters in one step, and a   *)
(* signalled thread that enters again behind those already at the door.    *)
(***************************************************************************)
EXTENDS Sequences, SequencesExt

CONSTANTS Threads, NULL

VARIABLES
  owner,      \* the thread inside, or NULL
  entry,      \* threads at the door
  waiters     \* threads that wait for a signal

vars == <<owner, entry, waiters>>

Init == owner = NULL /\ entry = <<>> /\ waiters = <<>>

\* The first of the threads at the door comes in as the owner leaves.
Pass == IF entry = <<>> THEN owner' = NULL /\ UNCHANGED entry
                        ELSE owner' = Head(entry) /\ entry' = Tail(entry)

Enter(t) ==
  /\ t # owner /\ ~Contains(entry \o waiters, t)
  /\ IF owner = NULL THEN owner' = t /\ UNCHANGED entry
                     ELSE entry' = Append(entry, t) /\ UNCHANGED owner
  /\ UNCHANGED waiters

Leave == owner # NULL /\ Pass /\ UNCHANGED waiters

Wait == owner # NULL /\ Pass /\ waiters' = Append(waiters, owner)

Signal ==
  /\ owner # NULL /\ waiters # <<>>
  /\ entry' = Append(entry, Head(waiters))
  /\ waiters' = Tail(waiters)
  /\ UNCHANGED owner

SignalAll ==
  /\ owner # NULL
  /\ entry' = entry \o waiters
  /\ waiters' = <<>>
  /\ UNCHANGED owner

Next == (\E t \in Threads : Enter(t)) \/ Leave \/ Wait \/ Signal \/ SignalAll

Spec == Init /\ [][Next]_vars
=============================================================================
