--------------------------- MODULE ReadWriteLock ----------------------------
(***************************************************************************)
(* The readers and writers lock of the file system, fs.c: iniciaLeitura,   *)
(* terminaLeitura, iniciaEscrita and terminaEscrita, over two monitors and *)
(* five variables both sides read.  Each step makes at most one access to  *)
(* a variable that another monitor's threads may change meanwhile; the     *)
(* announcements wanna_leitor and wanna_escritor are counted outside the   *)
(* monitors, by a load and a store, and so is escritores when fs_copy ends *)
(* the writers' section a second time.                                     *)
(*                                                                         *)
(* "L" is the readers' side and its monitor monLeitores, "E" the writers'  *)
(* and monEscritores.  Over pthreads a signal and the release of a mutex   *)
(* work from anywhere, over user-level threads only from the owner.        *)
(***************************************************************************)
EXTENDS Integers, FiniteSets

CONSTANTS
  Threads,      \* the server's consumer threads
  MaxCalls,     \* bound: calls each thread serves
  Faults,       \* bound: the early returns to follow, "mkdir" or "copy", one in a run
  NULL

ASSUME LockAssumption ==
  MaxCalls \in Nat /\ Faults \subseteq {"mkdir", "copy"} /\ NULL \notin Threads

VARIABLES
  native,       \* TRUE when built over pthreads
  leitores, escritores, turno,
  wanna,        \* wanna["L"] is wanna_leitor, wanna["E"] is wanna_escritor
  owner,        \* the thread inside each monitor, or NULL
  waiting,      \* the threads that wait in each monitor
  pc, role,     \* control point and side of each thread
  reg,          \* the value each thread loaded
  calls,        \* calls each thread began
  fault,        \* the early return taken, or "none"
  again         \* the thread that ends a section it has left, or NULL

shared == <<leitores, escritores, turno, wanna>>
monitors == <<owner, waiting>>
local == <<pc, role, reg, calls>>
broken == <<fault, again>>
vars == <<native, shared, monitors, local, broken>>

Sides == {"L", "E"}

\* fs_new leaves turno unset.
Init ==
  /\ native \in BOOLEAN
  /\ leitores = 0 /\ escritores = 0
  /\ turno \in {"LEITURA", "ESCRITA"}
  /\ wanna = [s \in Sides |-> 0]
  /\ owner = [s \in Sides |-> NULL]
  /\ waiting = [s \in Sides |-> {}]
  /\ pc = [t \in Threads |-> "idle"]
  /\ role = [t \in Threads |-> "L"]
  /\ reg = [t \in Threads |-> 0]
  /\ calls = [t \in Threads |-> 0]
  /\ fault = "none" /\ again = NULL

-----------------------------------------------------------------------------
(* Monitors                                                                *)

At(t, s, p) == pc[t] = p /\ role[t] = s
Goto(t, p) == pc' = [pc EXCEPT ![t] = p]

\* sthread_monitor_signal, signalall and exit on the monitor of side s by thread t.
Works(t, s) == native \/ owner[s] = t
SignalOne(t, s) ==
  IF Works(t, s) /\ waiting[s] # {}
  THEN \E w \in waiting[s] : waiting' = [waiting EXCEPT ![s] = @ \ {w}]
  ELSE UNCHANGED waiting
SignalAll(t, s) ==
  waiting' = IF Works(t, s) THEN [waiting EXCEPT ![s] = {}] ELSE waiting
Release(t, s) == owner' = IF Works(t, s) THEN [owner EXCEPT ![s] = NULL] ELSE owner

\* Entering, or coming back from a wait once signalled.
Enter(t) ==
  LET s == role[t] IN
  /\ pc[t] \in {"enter", "asleep"} /\ t \notin waiting[s]
  /\ owner[s] = NULL
  /\ owner' = [owner EXCEPT ![s] = t]
  /\ Goto(t, "test")
  /\ UNCHANGED <<native, shared, waiting, role, reg, calls, broken>>

Wait(t) ==
  LET s == role[t] IN
  /\ pc[t] = "wait"
  /\ owner' = [owner EXCEPT ![s] = NULL]
  /\ waiting' = [waiting EXCEPT ![s] = @ \cup {t}]
  /\ Goto(t, "asleep")
  /\ UNCHANGED <<native, shared, role, reg, calls, broken>>

\* A pthread condition may wake a waiter that nobody signalled.
SpuriousWakeup(t) ==
  /\ native /\ t \in waiting[role[t]]
  /\ waiting' = [waiting EXCEPT ![role[t]] = @ \ {t}]
  /\ UNCHANGED <<native, shared, owner, local, broken>>

-----------------------------------------------------------------------------
(* What both sides do: wanna++ outside the monitor, wanna-- inside         *)

Begin(t) ==
  /\ pc[t] = "idle" /\ calls[t] < MaxCalls
  /\ \E s \in Sides :
       /\ role' = [role EXCEPT ![t] = s]
       /\ reg' = [reg EXCEPT ![t] = wanna[s]]
  /\ calls' = [calls EXCEPT ![t] = @ + 1]
  /\ Goto(t, "announce")
  /\ UNCHANGED <<native, shared, monitors, broken>>

Announce(t) ==
  /\ pc[t] = "announce"
  /\ wanna' = [wanna EXCEPT ![role[t]] = reg[t] + 1]
  /\ Goto(t, "enter")
  /\ UNCHANGED <<native, leitores, escritores, turno, monitors, role, reg, calls, broken>>

Load(t) ==
  /\ pc[t] = "load"
  /\ reg' = [reg EXCEPT ![t] = wanna[role[t]]]
  /\ Goto(t, "withdraw")
  /\ UNCHANGED <<native, shared, monitors, role, calls, broken>>

Withdraw(t) ==
  /\ pc[t] = "withdraw"
  /\ wanna' = [wanna EXCEPT ![role[t]] = reg[t] - 1]
  /\ Goto(t, "count")
  /\ UNCHANGED <<native, leitores, escritores, turno, monitors, role, reg, calls, broken>>

Exit(t) ==
  /\ pc[t] = "exit"
  /\ Release(t, role[t])
  /\ again' = IF t = again THEN NULL ELSE again
  /\ Goto(t, "idle")
  /\ UNCHANGED <<native, shared, waiting, role, reg, calls, fault>>

-----------------------------------------------------------------------------
(* iniciaLeitura and terminaLeitura                                        *)

\* The readers only look at whose turn it is.
ReaderTestTurn(t) ==
  /\ role[t] = "L"
  /\ \/ pc[t] = "test" /\ Goto(t, "test_turno")
     \/ pc[t] = "test_turno" /\ Goto(t, IF turno # "LEITURA" THEN "test_wanna" ELSE "load")
     \/ pc[t] = "test_wanna" /\ Goto(t, IF wanna["E"] > 0 THEN "wait" ELSE "load")
  /\ UNCHANGED <<native, shared, monitors, role, reg, calls, broken>>

\* The readers wait for their turn whether or not a writer wants the lock.
ReaderTestStrict(t) ==
  /\ role[t] = "L"
  /\ \/ pc[t] = "test" /\ Goto(t, IF escritores # 0 THEN "wait" ELSE "test_turno")
     \/ pc[t] = "test_turno" /\ Goto(t, IF turno # "LEITURA" THEN "wait" ELSE "load")
  /\ UNCHANGED <<native, shared, monitors, role, reg, calls, broken>>

\* escritores != 0 || (turno != LEITURA && wanna_escritor > 0), left to right.
ReaderTest(t) ==
  /\ role[t] = "L"
  /\ \/ pc[t] = "test" /\ Goto(t, IF escritores # 0 THEN "wait" ELSE "test_turno")
     \/ pc[t] = "test_turno" /\ Goto(t, IF turno # "LEITURA" THEN "test_wanna" ELSE "load")
     \/ pc[t] = "test_wanna" /\ Goto(t, IF wanna["E"] > 0 THEN "wait" ELSE "load")
  /\ UNCHANGED <<native, shared, monitors, role, reg, calls, broken>>

ReaderCount(t) ==
  /\ At(t, "L", "count")
  /\ leitores' = leitores + 1
  /\ Goto(t, "pass")
  /\ UNCHANGED <<native, escritores, turno, wanna, monitors, role, reg, calls, broken>>

\* The reader leaves the monitor once it has counted itself.
ReaderPassLeaves(t) ==
  /\ At(t, "L", "pass")
  /\ IF wanna["L"] # 0 THEN SignalAll(t, "L") /\ Goto(t, "inside")
                       ELSE Goto(t, "turn") /\ UNCHANGED waiting
  /\ owner' = [owner EXCEPT !["L"] = NULL]
  /\ UNCHANGED <<native, shared, role, reg, calls, broken>>

\* if(wanna_leitor != 0) signalall(monLeitores) else turno = ESCRITA
ReaderPass(t) ==
  /\ At(t, "L", "pass")
  /\ IF wanna["L"] # 0 THEN SignalAll(t, "L") /\ Goto(t, "inside")
                       ELSE Goto(t, "turn") /\ UNCHANGED waiting
  /\ UNCHANGED <<native, shared, owner, role, reg, calls, broken>>

ReaderTurn(t) ==
  /\ At(t, "L", "turn")
  /\ turno' = "ESCRITA"
  /\ Goto(t, "inside")
  /\ UNCHANGED <<native, leitores, escritores, wanna, monitors, role, reg, calls, broken>>

ReaderEnd(t) ==
  /\ At(t, "L", "inside")
  /\ leitores' = leitores - 1
  /\ Goto(t, IF leitores' = 0 THEN "signal" ELSE "exit")
  /\ UNCHANGED <<native, escritores, turno, wanna, monitors, role, reg, calls, broken>>

ReaderSignal(t) ==
  /\ At(t, "L", "signal")
  /\ SignalOne(t, "E")
  /\ Goto(t, "exit")
  /\ UNCHANGED <<native, shared, owner, role, reg, calls, broken>>

-----------------------------------------------------------------------------
(* iniciaEscrita and terminaEscrita                                        *)

\* escritores != 0 || leitores != 0
WriterTest(t) ==
  /\ \/ At(t, "E", "test") /\ Goto(t, IF escritores # 0 THEN "wait" ELSE "test_leitores")
     \/ At(t, "E", "test_leitores") /\ Goto(t, IF leitores # 0 THEN "wait" ELSE "load")
  /\ UNCHANGED <<native, shared, monitors, role, reg, calls, broken>>

\* The first half of escritores++ and of escritores--.
WriterLoad(t) ==
  /\ \/ At(t, "E", "count") /\ Goto(t, "count_store")
     \/ (At(t, "E", "inside") \/ At(t, "E", "again")) /\ Goto(t, "end_store")
  /\ reg' = [reg EXCEPT ![t] = escritores]
  /\ UNCHANGED <<native, shared, monitors, role, calls, broken>>

WriterCount(t) ==
  /\ At(t, "E", "count_store")
  /\ escritores' = reg[t] + 1
  /\ Goto(t, "inside")
  /\ UNCHANGED <<native, leitores, turno, wanna, monitors, role, reg, calls, broken>>

WriterEnd(t) ==
  /\ At(t, "E", "end_store")
  /\ escritores' = reg[t] - 1
  /\ Goto(t, "turn")
  /\ UNCHANGED <<native, leitores, turno, wanna, monitors, role, reg, calls, broken>>

WriterTurn(t) ==
  /\ At(t, "E", "turn")
  /\ turno' = "LEITURA"
  /\ Goto(t, "signal")
  /\ UNCHANGED <<native, leitores, escritores, wanna, monitors, role, reg, calls, broken>>

WakeNext(t) == IF wanna["L"] # 0 THEN SignalAll(t, "L") ELSE SignalOne(t, "E")

WriterSignal(t) ==
  /\ At(t, "E", "signal")
  /\ WakeNext(t)
  /\ Goto(t, "exit")
  /\ UNCHANGED <<native, shared, owner, role, reg, calls, broken>>

-----------------------------------------------------------------------------
(* The two early returns that do not pair the calls                        *)

\* fs_mkdir of a directory whose inode is free returns inside the lock.
MkdirReturn(t) ==
  /\ At(t, "E", "inside") /\ "mkdir" \in Faults /\ fault = "none"
  /\ fault' = "mkdir"
  /\ Goto(t, "idle")
  /\ UNCHANGED <<native, shared, monitors, role, reg, calls, again>>

\* The call of fs_create that ends here failed, and fs_copy runs terminaEscrita
\* once more: from "again" on, whoever is in the monitor by then.
CopyReturn(t) ==
  /\ At(t, "E", "exit") /\ "copy" \in Faults /\ fault = "none"
  /\ fault' = "copy" /\ again' = t
  /\ Release(t, "E")
  /\ Goto(t, "again")
  /\ UNCHANGED <<native, shared, waiting, role, reg, calls>>

-----------------------------------------------------------------------------
Step(t) ==
  \/ Announce(t) \/ Enter(t) \/ Wait(t) \/ Load(t) \/ Withdraw(t) \/ Exit(t)
  \/ ReaderTest(t) \/ ReaderCount(t) \/ ReaderPass(t) \/ ReaderTurn(t)
  \/ ReaderEnd(t) \/ ReaderSignal(t)
  \/ WriterTest(t) \/ WriterLoad(t) \/ WriterCount(t) \/ WriterEnd(t)
  \/ WriterTurn(t) \/ WriterSignal(t)
  \/ MkdirReturn(t) \/ CopyReturn(t)

Next == \E t \in Threads : Begin(t) \/ Step(t) \/ SpuriousWakeup(t)

\* A thread in the middle of a call keeps running; nobody has to call.
Spec == Init /\ [][Next]_vars /\ \A t \in Threads : WF_vars(Step(t))

-----------------------------------------------------------------------------
(* Properties                                                              *)

TypeOK ==
  /\ native \in BOOLEAN
  /\ leitores \in Nat /\ escritores \in Int
  /\ turno \in {"LEITURA", "ESCRITA"}
  /\ wanna \in [Sides -> Int]
  /\ owner \in [Sides -> Threads \cup {NULL}]
  /\ waiting \in [Sides -> SUBSET Threads]
  /\ pc \in [Threads -> {"idle", "announce", "enter", "test", "test_turno", "test_wanna",
                         "test_leitores", "wait", "asleep", "load", "withdraw", "count",
                         "count_store", "pass", "turn", "inside", "end_store", "signal", "exit",
                         "again"}]
  /\ role \in [Threads -> Sides]
  /\ reg \in [Threads -> Int]
  /\ calls \in [Threads -> 0 .. MaxCalls]
  /\ fault \in {"none", "mkdir", "copy"} /\ again \in Threads \cup {NULL}

\* The threads between the two halves of the lock, as the counters see them.
Readers == {t \in Threads : role[t] = "L" /\ pc[t] \in {"pass", "turn", "inside"}}
Writers == {t \in Threads \ {again} : At(t, "E", "inside") \/ At(t, "E", "end_store")}
Inside == {t \in Threads : pc[t] = "inside"}

\* Over pthreads fs_copy's second terminaEscrita releases the writers' monitor
\* whoever owns it, and from then on it protects nothing.
Unprotected == native /\ fault = "copy" /\ again = NULL

\* Readers keep their monitor while they read, so the lock never admits two
\* of them, and never two writers; "leitores" is zero or one.
OneOfEach ==
  /\ leitores = Cardinality(Readers) /\ leitores <= 1
  /\ Unprotected \/ Cardinality(Writers) <= 1

\* A thread between entering and leaving a monitor owns it, waits excepted.
Holding == {"test", "test_turno", "test_wanna", "test_leitores", "wait", "load", "withdraw", "count",
            "count_store", "pass", "turn", "inside", "end_store", "signal", "exit"}
HoldersOwn ==
  \A t \in Threads \ {again} :
    pc[t] \in Holding => owner[role[t]] = t \/ (Unprotected /\ role[t] = "E")

\* fs_copy's second terminaEscrita runs once, on the writers' side.
AgainOnce ==
  /\ \A t \in Threads : pc[t] = "again" => t = again
  /\ again # NULL => fault = "copy" /\ At(again, "E", pc[again])
                    /\ pc[again] \in {"again", "end_store", "turn", "signal", "exit"}

\* How far escritores may be from the number of writers inside: fs_mkdir's
\* return leaves one too many; the second terminaEscrita, which loads and
\* stores while a writer may come or go, one or two too few, or the right
\* number if either count is lost in the other.
EndedAgain == again = NULL \/ pc[again] \notin {"again", "end_store"}
Off == {d \in -2 .. 1 : /\ d = 1 <=> fault = "mkdir"
                        /\ d < 0 => fault = "copy" /\ EndedAgain}

\* What a thread loaded of it and has not yet stored.
Loaded(t) ==
  /\ At(t, "E", "count_store") => reg[t] \in Off
  /\ At(t, "E", "end_store") => reg[t] - 1 \in Off

\* escritores is no further off than that.
EscritoresOff ==
  Unprotected \/
    /\ escritores - Cardinality(Writers) \in Off
    /\ \A t \in Threads \ {again} : Loaded(t)
    /\ again # NULL /\ pc[again] = "end_store" => reg[again] \in {0, 1}

\* The lock is shut: escritores is not zero, and nobody is left who changes it.
Shut ==
  /\ escritores # 0 /\ again = NULL
  /\ \A t \in Threads :
       role[t] = "E" => pc[t] \notin {"test_leitores", "load", "withdraw", "count", "count_store",
                                     "inside", "end_store"}

\* fs_mkdir's return inside the lock shuts it at once, and keeps the writers'
\* monitor as well.
MkdirShuts ==
  fault = "mkdir" =>
    /\ Shut /\ owner["E"] # NULL
    /\ \A t \in Threads : role[t] = "E" => pc[t] \notin Holding

LockInv == TypeOK /\ OneOfEach /\ HoldersOwn /\ AgainOnce /\ EscritoresOff /\ MkdirShuts

\* Once the lock is shut the file system is closed for good, to both kinds of
\* call: no thread that has not yet passed the test of escritores ever does.
\* Without an early return it is never shut.
Outside == {t \in Threads : pc[t] \in {"idle", "announce", "enter", "test", "wait", "asleep"}}
FaultFreezes == [][Shut => fault # "none" /\ Shut' /\ Outside \subseteq Outside']_vars

\* Only mixing both kinds of calls can block: as long as all the calls ever
\* made are of one kind every one of them returns.
OneKindReturns ==
  \A s \in Sides :
    []((\A t \in Threads : calls[t] > 0 => role[t] = s) /\ fault = "none")
      => \A t \in Threads : pc[t] = "enter" ~> pc[t] = "idle"

\* fs.c:315: a write begins when there are neither writers nor readers.
Exclusion == Writers = {} \/ Inside \ Writers = {}
=============================================================================
