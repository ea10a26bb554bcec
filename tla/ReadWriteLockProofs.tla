------------------------- MODULE ReadWriteLockProofs -------------------------
(***************************************************************************)
(* Proofs about ReadWriteLock for any set of threads, any number of calls  *)
(* and either build: how far the counters may be from who is inside, who   *)
(* may be inside together, and that a lock that is shut stays so.          *)
(***************************************************************************)
EXTENDS ReadWriteLock, FiniteSetTheorems, TLAPS

-----------------------------------------------------------------------------
(* Threads inside a monitor                                                *)

\* What one step of one thread is.
Act(t) == Begin(t) \/ Step(t) \/ SpuriousWakeup(t)

\* The parts of the invariant that say who holds what.
Kept == TypeOK /\ HoldersOwn /\ AgainOnce

\* The threads that hold the readers' monitor are one, so the readers are known from it.
LEMMA ReadersOf ==
  Kept =>
    \A t \in Threads :
      role[t] = "L" /\ pc[t] \in Holding
        => Readers = IF pc[t] \in {"pass", "turn", "inside"} THEN {t} ELSE {}
<1> SUFFICES ASSUME Kept, NEW t \in Threads, role[t] = "L", pc[t] \in Holding
             PROVE  Readers = IF pc[t] \in {"pass", "turn", "inside"} THEN {t} ELSE {}
  OBVIOUS
<1>1. ASSUME NEW u \in Threads, role[u] = "L", pc[u] \in Holding PROVE owner["L"] = u
  <2>1. u # again
    BY <1>1, LockAssumption DEF Kept, AgainOnce, At
  <2> QED
    BY <1>1, <2>1 DEF Kept, HoldersOwn
<1>2. ASSUME NEW u \in Readers PROVE u = t
  BY <1>1, <1>2 DEF Readers, Holding
<1> QED
  BY <1>2 DEF Readers

\* The same after a step.
LEMMA ReadersOfNext ==
  (Kept =>
     \A t \in Threads :
       role[t] = "L" /\ pc[t] \in Holding
         => Readers = IF pc[t] \in {"pass", "turn", "inside"} THEN {t} ELSE {})'
BY ReadersOf, PTL

\* Likewise the writers, as long as their monitor protects them.
LEMMA WritersOf ==
  ASSUME Kept, ~Unprotected, NEW t \in Threads \ {again}, role[t] = "E", pc[t] \in Holding
  PROVE  /\ Writers = IF pc[t] \in {"inside", "end_store"} THEN {t} ELSE {}
         /\ \A u \in Threads \ {again} : role[u] = "E" /\ pc[u] \in Holding => u = t
<1>1. \A u \in Threads \ {again} : role[u] = "E" /\ pc[u] \in Holding => u = t
  BY DEF Kept, HoldersOwn
<1> QED
  BY <1>1 DEF Writers, At, Holding

\* One or none.
LEMMA CountOne ==
  /\ Cardinality({}) = 0
  /\ \A t : Cardinality({t}) = 1
BY FS_EmptySet, FS_Singleton

\* The monitors admit one thread, hence one reader and one writer.
LEMMA HoldersAreOne ==
  Kept => /\ Cardinality(Readers) \in {0, 1}
          /\ Unprotected \/ Cardinality(Writers) \in {0, 1}
<1> SUFFICES ASSUME Kept
             PROVE  /\ Cardinality(Readers) \in {0, 1}
                    /\ Unprotected \/ Cardinality(Writers) \in {0, 1}
  OBVIOUS
<1>1. Readers = {} \/ \E t : Readers = {t}
  <2>1. ASSUME NEW t \in Readers PROVE Readers = {t}
    BY ReadersOf DEF Readers, Holding
  <2> QED
    BY <2>1
<1>2. Unprotected \/ Writers = {} \/ \E t : Writers = {t}
  <2>1. ASSUME NEW t \in Writers, ~Unprotected PROVE Writers = {t}
    BY <2>1, WritersOf DEF Writers, At, Holding
  <2> QED
    BY <2>1
<1>3. Cardinality(Readers) \in {0, 1}
  BY <1>1, CountOne
<1>4. Unprotected \/ Cardinality(Writers) \in {0, 1}
  BY <1>2, CountOne
<1> QED
  BY <1>3, <1>4

\* The same after a step.
LEMMA HoldersAreOneNext ==
  (Kept => /\ Cardinality(Readers) \in {0, 1}
           /\ Unprotected \/ Cardinality(Writers) \in {0, 1})'
BY HoldersAreOne, PTL

\* Nobody is in the lock at the start.
LEMMA InitLock == Init => LockInv
<1> SUFFICES ASSUME Init PROVE LockInv
  OBVIOUS
<1>1. TypeOK
  BY LockAssumption DEF Init, TypeOK, Sides
<1>2. Readers = {} /\ Writers = {} /\ Cardinality(Readers) = 0 /\ Cardinality(Writers) = 0
  <2>1. Readers = {} /\ Writers = {}
    BY DEF Init, Readers, Writers, At
  <2> QED
    BY <2>1, CountOne
<1>3. OneOfEach /\ EscritoresOff
  BY <1>2 DEF Init, OneOfEach, EscritoresOff, Loaded, Off, At
<1>4. HoldersOwn /\ AgainOnce /\ MkdirShuts
  BY LockAssumption DEF Init, HoldersOwn, Holding, AgainOnce, MkdirShuts
<1> QED
  BY <1>1, <1>3, <1>4 DEF LockInv

-----------------------------------------------------------------------------
(* A step keeps the monitors and the types                                 *)

\* A step is taken by one thread at its control point.
LEMMA OthersStay ==
  ASSUME TypeOK, NEW t \in Threads, Act(t)
  PROVE  /\ \A u \in Threads : u # t => pc'[u] = pc[u] /\ role'[u] = role[u]
         /\ pc[t] # "idle" => role'[t] = role[t]
<1>1. pc' = pc \/ \E p : Goto(t, p)
  BY DEF Act, Step, Begin, Announce, Enter, Wait, SpuriousWakeup, Load, Withdraw, Exit,
         ReaderTest, ReaderCount, ReaderPass, ReaderTurn, ReaderEnd, ReaderSignal,
         WriterTest, WriterLoad, WriterCount, WriterEnd, WriterTurn, WriterSignal,
         MkdirReturn, CopyReturn, local
<1>2. role' = role \/ (pc[t] = "idle" /\ \E s \in Sides : role' = [role EXCEPT ![t] = s])
  BY DEF Act, Step, Begin, Announce, Enter, Wait, SpuriousWakeup, Load, Withdraw, Exit,
         ReaderTest, ReaderCount, ReaderPass, ReaderTurn, ReaderEnd, ReaderSignal,
         WriterTest, WriterLoad, WriterCount, WriterEnd, WriterTurn, WriterSignal,
         MkdirReturn, CopyReturn, local
<1> QED
  BY <1>1, <1>2 DEF TypeOK, Goto

\* Signals leave subsets of those who waited.
LEMMA SignalsType ==
  ASSUME TypeOK, NEW t, NEW s \in Sides,
         SignalOne(t, s) \/ SignalAll(t, s)
  PROVE  waiting' \in [Sides -> SUBSET Threads]
BY DEF TypeOK, SignalOne, SignalAll

\* A monitor that is left belongs to nobody, or to whom it belonged before.
LEMMA ReleaseType ==
  ASSUME TypeOK, NEW t, NEW s \in Sides, Release(t, s)
  PROVE  /\ owner' \in [Sides -> Threads \cup {NULL}]
         /\ owner' = owner \/ owner' = [owner EXCEPT ![s] = NULL]
BY DEF TypeOK, Release

\* Waking the next leaves subsets as well.
LEMMA WakeNextType ==
  ASSUME TypeOK, NEW t, WakeNext(t)
  PROVE  waiting' \in [Sides -> SUBSET Threads]
BY SignalsType DEF WakeNext, Sides

\* The reader that leaves is counted.
LEMMA ReaderCounted ==
  ASSUME LockInv, NEW t \in Threads, ReaderEnd(t)
  PROVE  Readers = {t} /\ leitores = 1
<1>1. Readers = {t}
  BY ReadersOf DEF LockInv, Kept, ReaderEnd, At, Holding
<1> QED
  BY <1>1, CountOne DEF LockInv, OneOfEach

\* What a step does to the build, the fault and the values that were loaded.
LEMMA Frame ==
  ASSUME TypeOK, NEW t \in Threads, Act(t)
  PROVE  /\ native' = native
         /\ (fault' = fault /\ ~MkdirReturn(t) /\ ~CopyReturn(t)) \/ fault = "none"
         /\ again' = again \/ CopyReturn(t) \/ Exit(t)
         /\ \A u \in Threads : u # t => reg'[u] = reg[u]
<1>1. native' = native
  BY DEF Act, Step, Begin, Announce, Enter, Wait, SpuriousWakeup, Load, Withdraw, Exit,
         ReaderTest, ReaderCount, ReaderPass, ReaderTurn, ReaderEnd, ReaderSignal,
         WriterTest, WriterLoad, WriterCount, WriterEnd, WriterTurn, WriterSignal,
         MkdirReturn, CopyReturn
<1>2. (fault' = fault /\ ~MkdirReturn(t) /\ ~CopyReturn(t)) \/ fault = "none"
  BY DEF Act, Step, Begin, Announce, Enter, Wait, SpuriousWakeup, Load, Withdraw, Exit,
         ReaderTest, ReaderCount, ReaderPass, ReaderTurn, ReaderEnd, ReaderSignal,
         WriterTest, WriterLoad, WriterCount, WriterEnd, WriterTurn, WriterSignal,
         MkdirReturn, CopyReturn, broken
<1>3. again' = again \/ CopyReturn(t) \/ Exit(t)
  BY DEF Act, Step, Begin, Announce, Enter, Wait, SpuriousWakeup, Load, Withdraw,
         ReaderTest, ReaderCount, ReaderPass, ReaderTurn, ReaderEnd, ReaderSignal,
         WriterTest, WriterLoad, WriterCount, WriterEnd, WriterTurn, WriterSignal,
         MkdirReturn, broken
<1>4. reg' = reg \/ \E v : reg' = [reg EXCEPT ![t] = v]
  BY DEF Act, Step, Begin, Announce, Enter, Wait, SpuriousWakeup, Load, Withdraw, Exit,
         ReaderTest, ReaderCount, ReaderPass, ReaderTurn, ReaderEnd, ReaderSignal,
         WriterTest, WriterLoad, WriterCount, WriterEnd, WriterTurn, WriterSignal,
         MkdirReturn, CopyReturn, local
<1> QED
  BY <1>1, <1>2, <1>3, <1>4 DEF TypeOK

\* A thread in the section has not been in the second terminaEscrita before, and
\* the writers' monitor does not become a protection again.
LEMMA AgainFacts ==
  ASSUME LockInv, NEW t \in Threads, Act(t)
  PROVE  /\ fault # "copy" => again = NULL
         /\ Unprotected => Unprotected'
         /\ CopyReturn(t) => again = NULL /\ again' = t /\ fault' = "copy"
         /\ Exit(t) => again' = (IF t = again THEN NULL ELSE again)
         /\ fault' = "copy" \/ again' = again
<1>1. fault # "copy" => again = NULL
  BY DEF LockInv, AgainOnce
<1>2. CopyReturn(t) => again = NULL /\ again' = t /\ fault' = "copy"
  BY <1>1 DEF CopyReturn
<1>3. Exit(t) => again' = (IF t = again THEN NULL ELSE again) /\ fault' = fault
  BY DEF Exit
<1>4. again # NULL => fault = "copy"
  BY <1>1
<1> QED
  BY <1>1, <1>2, <1>3, <1>4, Frame, LockAssumption DEF Unprotected, LockInv

\* The variables keep their types; leitores stays a natural number because the
\* reader that leaves was counted.
LEMMA LockTypeStep ==
  ASSUME LockInv, NEW t \in Threads, Act(t)
  PROVE  TypeOK'
<1> USE DEF TypeOK, LockInv, Goto, At, broken
<1>1. CASE Begin(t)
  BY <1>1, LockAssumption DEF Begin, shared, monitors
<1>2. CASE Announce(t) \/ Withdraw(t)
  BY <1>2 DEF Announce, Withdraw, monitors
<1>3. CASE Enter(t)
  BY <1>3 DEF Enter, shared
<1>4. CASE Wait(t) \/ SpuriousWakeup(t)
  BY <1>4 DEF Wait, SpuriousWakeup, shared, local
<1>5. CASE Load(t)
  BY <1>5 DEF Load, shared, monitors
<1>6. CASE ReaderTest(t) \/ WriterTest(t)
  BY <1>6 DEF ReaderTest, WriterTest, shared, monitors
<1>7. CASE ReaderCount(t)
  BY <1>7 DEF ReaderCount, monitors
<1>8. CASE ReaderPass(t)
  <2>1. waiting' \in [Sides -> SUBSET Threads]
    BY <1>8, SignalsType DEF ReaderPass, Sides
  <2> QED
    <3>1. pc' = [pc EXCEPT ![t] = "inside"] \/ pc' = [pc EXCEPT ![t] = "turn"]
      BY <1>8 DEF ReaderPass
    <3>2. UNCHANGED <<native, shared, owner, role, reg, calls, broken>>
      BY <1>8 DEF ReaderPass
    <3> QED
      BY <2>1, <3>1, <3>2 DEF shared
<1>9. CASE ReaderTurn(t) \/ WriterTurn(t)
  BY <1>9 DEF ReaderTurn, WriterTurn, monitors
<1>10. CASE ReaderEnd(t)
  <2>1. leitores = 1
    BY <1>10, ReaderCounted
  <2>2. leitores' = 0
    BY <1>10, <2>1 DEF ReaderEnd
  <2> QED
    BY <1>10, <2>2 DEF ReaderEnd, monitors
<1>11. CASE ReaderSignal(t)
  <2>1. waiting' \in [Sides -> SUBSET Threads]
    BY <1>11, SignalsType DEF ReaderSignal, Sides
  <2> QED
    BY <1>11, <2>1 DEF ReaderSignal, shared
<1>12. CASE WriterLoad(t) \/ WriterCount(t) \/ WriterEnd(t)
  BY <1>12 DEF WriterLoad, WriterCount, WriterEnd, monitors, shared
<1>13. CASE WriterSignal(t)
  <2>1. waiting' \in [Sides -> SUBSET Threads]
    BY <1>13, WakeNextType DEF WriterSignal
  <2> QED
    BY <1>13, <2>1 DEF WriterSignal, shared
<1>14. CASE MkdirReturn(t)
  BY <1>14 DEF MkdirReturn, shared, monitors
<1>15. CASE CopyReturn(t)
  <2>1. owner' \in [Sides -> Threads \cup {NULL}]
    BY <1>15, ReleaseType DEF CopyReturn, Sides
  <2> QED
    BY <1>15, <2>1 DEF CopyReturn, shared
<1>16. CASE Exit(t)
  <2>1. owner' \in [Sides -> Threads \cup {NULL}]
    BY <1>16, ReleaseType DEF Exit
  <2>2. again' \in Threads \cup {NULL}
    BY <1>16 DEF Exit
  <2> QED
    BY <1>16, <2>1, <2>2 DEF Exit, shared
<1> QED
  BY <1>1, <1>2, <1>3, <1>4, <1>5, <1>6, <1>7, <1>8, <1>9, <1>10, <1>11, <1>12, <1>13,
     <1>14, <1>15, <1>16 DEF Act, Step

\* Only fs_copy's early return comes to its second terminaEscrita, once.
LEMMA AgainStep ==
  ASSUME LockInv, NEW t \in Threads, Act(t)
  PROVE  AgainOnce'
<1> USE DEF TypeOK, LockInv
<1>1. /\ \A u \in Threads : u # t => pc'[u] = pc[u] /\ role'[u] = role[u]
      /\ pc[t] # "idle" => role'[t] = role[t]
  BY OthersStay
<1>2. again # NULL => fault' = "copy"
  BY Frame DEF AgainOnce
<1>3. CASE CopyReturn(t)
  <2>1. /\ pc'[t] = "again" /\ again = NULL /\ again' = t /\ fault' = "copy"
        /\ role[t] = "E" /\ pc[t] = "exit"
    BY <1>3, AgainFacts DEF CopyReturn, At, Goto
  <2> QED
    BY <1>1, <2>1, LockAssumption DEF AgainOnce, At
<1>4. CASE Exit(t)
  <2>1. pc[t] = "exit" /\ pc'[t] = "idle" /\ again' = (IF t = again THEN NULL ELSE again)
    BY <1>4 DEF Exit, Goto
  <2> QED
    BY <1>1, <1>2, <2>1 DEF AgainOnce, At
<1>5. CASE ~CopyReturn(t) /\ ~Exit(t)
  <2>1. again' = again
    BY <1>5, Frame
  <2>2. CASE t = again
    <3>1. /\ role[t] = "E" /\ pc[t] \in {"again", "end_store", "turn", "signal", "exit"}
          /\ fault = "copy"
      BY <2>2, LockAssumption DEF AgainOnce, At
    <3>2. pc'[t] \in {"again", "end_store", "turn", "signal", "exit"}
      BY <1>5, <3>1
         DEF Act, Step, Begin, Announce, Enter, Wait, SpuriousWakeup, Load, Withdraw,
         ReaderTest, ReaderCount, ReaderPass, ReaderTurn, ReaderEnd, ReaderSignal,
         WriterTest, WriterLoad, WriterCount, WriterEnd, WriterTurn, WriterSignal,
         MkdirReturn, Goto, At, local
    <3> QED
      BY <1>1, <1>2, <2>1, <2>2, <3>1, <3>2 DEF AgainOnce, At
  <2>3. CASE t # again
    <3>1. pc'[t] # "again"
      <4>1. pc[t] # "again"
        BY <2>3 DEF AgainOnce
      <4> QED
        BY <1>5, <4>1 DEF Act, Step, Begin, Announce, Enter, Wait, SpuriousWakeup, Load, Withdraw,
         ReaderTest, ReaderCount, ReaderPass, ReaderTurn, ReaderEnd, ReaderSignal,
         WriterTest, WriterLoad, WriterCount, WriterEnd, WriterTurn, WriterSignal,
         MkdirReturn, Goto, local
    <3> QED
      BY <1>1, <1>2, <2>1, <2>3, <3>1 DEF AgainOnce, At
  <2> QED
    BY <2>2, <2>3
<1> QED
  BY <1>3, <1>4, <1>5

\* Who comes into a monitor owns it; who owned one keeps it until it leaves, or
\* until the second terminaEscrita releases it over pthreads.
LEMMA HoldersStep ==
  ASSUME LockInv, NEW t \in Threads, Act(t)
  PROVE  HoldersOwn'
<1> USE DEF TypeOK, LockInv
<1>1. /\ \A u \in Threads : u # t => pc'[u] = pc[u] /\ role'[u] = role[u]
      /\ pc[t] # "idle" => role'[t] = role[t]
  BY OthersStay
<1>2. /\ Unprotected => Unprotected'
      /\ CopyReturn(t) => again = NULL /\ again' = t
  BY AgainFacts
<1>3. \A u \in Threads \ {again} :
        u # t /\ pc[u] \in Holding /\ pc[t] \in Holding /\ t # again
          => role[u] # role[t] \/ (Unprotected /\ role[u] = "E")
  BY DEF HoldersOwn
<1> DEFINE Own(u) == pc[u] \in Holding => owner[role[u]] = u \/ (Unprotected /\ role[u] = "E")
<1>4. \A u \in Threads \ {again} : Own(u)
  BY DEF HoldersOwn
<1>5. CASE Enter(t)
  <2>1. /\ owner[role[t]] = NULL /\ owner' = [owner EXCEPT ![role[t]] = t] /\ pc'[t] = "test"
        /\ again' = again /\ role' = role
    BY <1>5 DEF Enter, Goto, broken
  <2> QED
    BY <1>1, <1>2, <2>1, LockAssumption DEF HoldersOwn
<1>6. CASE Wait(t) \/ (Exit(t) /\ t # again) \/ CopyReturn(t)
  <2>1. /\ pc[t] \in Holding /\ t # again /\ pc'[t] \notin Holding
        /\ owner' = owner \/ owner' = [owner EXCEPT ![role[t]] = NULL]
        /\ again' = again \/ (again = NULL /\ again' = t)
    <3>1. CASE Wait(t)
      <4>1. pc[t] = "wait" /\ t # again
        BY <3>1, LockAssumption DEF Wait, AgainOnce, At
      <4> QED
        BY <3>1, <4>1 DEF Wait, Goto, Holding, broken
    <3>2. CASE Exit(t) /\ t # again
      <4>1. owner' = owner \/ owner' = [owner EXCEPT ![role[t]] = NULL]
        BY <3>2, ReleaseType DEF Exit
      <4> QED
        BY <3>2, <4>1 DEF Exit, Goto, Holding
    <3>3. CASE CopyReturn(t)
      <4>1. role[t] = "E" /\ Release(t, "E")
        BY <3>3 DEF CopyReturn, At
      <4>2. owner' = owner \/ owner' = [owner EXCEPT !["E"] = NULL]
        BY <4>1, ReleaseType DEF Sides
      <4> QED
        BY <1>2, <3>3, <4>1, <4>2, LockAssumption DEF CopyReturn, At, Goto, Holding
    <3> QED
      BY <1>6, <3>1, <3>2, <3>3
  <2>2. ASSUME NEW u \in Threads \ {again'}, pc'[u] \in Holding
        PROVE  owner'[role'[u]] = u \/ (Unprotected' /\ role'[u] = "E")
    <3>1. u # t /\ u # again /\ pc[u] \in Holding /\ role'[u] = role[u]
      BY <1>1, <2>1, <2>2, LockAssumption
    <3>2. role[u] # role[t] \/ (Unprotected /\ role[u] = "E")
      BY <1>3, <2>1, <3>1
    <3> QED
      BY <1>2, <1>4, <2>1, <3>1, <3>2
  <2> QED
    BY <2>2 DEF HoldersOwn
<1>7. CASE Exit(t) /\ t = again
  <2>1. /\ pc'[t] = "idle" /\ again' = NULL /\ native' = native /\ fault' = fault /\ fault = "copy"
        /\ role[t] = "E" /\ Release(t, "E")
    BY <1>7, LockAssumption DEF Exit, Goto, AgainOnce, At
  <2>2. owner' = IF native \/ owner["E"] = t THEN [owner EXCEPT !["E"] = NULL] ELSE owner
    BY <2>1 DEF Release, Works
  <2>3. ASSUME NEW u \in Threads, pc'[u] \in Holding
        PROVE  owner'[role'[u]] = u \/ (Unprotected' /\ role'[u] = "E")
    <3>1. u # t /\ pc[u] \in Holding /\ role'[u] = role[u]
      BY <1>1, <2>1, <2>3 DEF Holding
    <3>2. owner[role[u]] = u
      BY <1>4, <1>7, <3>1, LockAssumption DEF Unprotected
    <3>3. CASE role[u] = "L"
      BY <2>2, <3>1, <3>2, <3>3
    <3>4. CASE role[u] = "E" /\ native
      BY <2>1, <3>1, <3>4 DEF Unprotected
    <3>5. CASE role[u] = "E" /\ ~native
      BY <2>2, <3>1, <3>2, <3>5
    <3> QED
      BY <3>3, <3>4, <3>5 DEF Sides
  <2> QED
    BY <2>3 DEF HoldersOwn
<1>8. ASSUME owner' = owner, again' = again, t # again /\ pc'[t] \in Holding => pc[t] \in Holding
      PROVE  HoldersOwn'
  <2>1. pc[t] \in Holding => pc[t] # "idle"
    BY DEF Holding
  <2> QED
    BY <1>1, <1>2, <1>4, <1>8, <2>1 DEF HoldersOwn
<1>9. CASE Begin(t) \/ Announce(t) \/ SpuriousWakeup(t) \/ MkdirReturn(t)
  BY <1>8, <1>9 DEF Begin, Announce, SpuriousWakeup, MkdirReturn, Goto, Holding, monitors, local, broken
<1>10. CASE Load(t) \/ Withdraw(t) \/ ReaderTest(t) \/ ReaderCount(t) \/ ReaderPass(t) \/ ReaderTurn(t)
           \/ ReaderEnd(t) \/ ReaderSignal(t) \/ WriterTest(t) \/ WriterLoad(t) \/ WriterCount(t)
           \/ WriterEnd(t) \/ WriterTurn(t) \/ WriterSignal(t)
  <2>1. t # again => pc[t] \in Holding
    BY <1>10 DEF Load, Withdraw, ReaderTest, ReaderCount, ReaderPass, ReaderTurn, ReaderEnd, ReaderSignal,
       WriterTest, WriterLoad, WriterCount, WriterEnd, WriterTurn, WriterSignal, At, Holding, AgainOnce
  <2>2. owner' = owner /\ again' = again
    BY <1>10 DEF Load, Withdraw, ReaderTest, ReaderCount, ReaderPass, ReaderTurn, ReaderEnd, ReaderSignal,
       WriterTest, WriterLoad, WriterCount, WriterEnd, WriterTurn, WriterSignal, monitors, broken
  <2> QED
    BY <1>8, <2>1, <2>2
<1> QED
  BY <1>5, <1>6, <1>7, <1>9, <1>10 DEF Act, Step

-----------------------------------------------------------------------------
(* A step keeps the counters                                               *)

\* A step other than a reader's counting moves no reader into or out of the lock.
LEMMA ReadersStep ==
  ASSUME LockInv, NEW t \in Threads, Act(t), Kept'
  PROVE  leitores' = Cardinality(Readers')
<1> USE DEF TypeOK, LockInv
<1>1. /\ \A u \in Threads : u # t => pc'[u] = pc[u] /\ role'[u] = role[u]
      /\ pc[t] # "idle" => role'[t] = role[t]
  BY OthersStay
<1>2. leitores = Cardinality(Readers) /\ Kept
  BY DEF OneOfEach, Kept
<1>3. CASE ReaderCount(t) \/ ReaderEnd(t)
  <2>1. /\ role[t] = "L" /\ pc[t] \in {"count", "inside"} /\ pc'[t] \in Holding /\ role'[t] = "L"
        /\ leitores' = (IF pc[t] = "count" THEN leitores + 1 ELSE leitores - 1)
        /\ pc'[t] \in {"pass", "turn", "inside"} <=> pc[t] = "count"
    BY <1>1, <1>3 DEF ReaderCount, ReaderEnd, At, Goto, Holding
  <2>2. /\ Readers = IF pc[t] = "count" THEN {} ELSE {t}
        /\ Readers' = IF pc[t] = "count" THEN {t} ELSE {}
    BY <1>2, <2>1, ReadersOf, ReadersOfNext DEF Holding
  <2>3. /\ leitores = IF pc[t] = "count" THEN 0 ELSE 1
        /\ Cardinality(Readers') = IF pc[t] = "count" THEN 1 ELSE 0
    BY <1>2, <2>2, CountOne
  <2> QED
    BY <2>1, <2>3
<1>4. CASE ~ReaderCount(t) /\ ~ReaderEnd(t)
  <2>1. leitores' = leitores
    BY <1>4 DEF Act, Step, Begin, Announce, Enter, Wait, SpuriousWakeup, Load, Withdraw, Exit,
         ReaderTest, ReaderPass, ReaderTurn, ReaderSignal,
         WriterTest, WriterLoad, WriterCount, WriterEnd, WriterTurn, WriterSignal,
         MkdirReturn, CopyReturn, shared
  <2> DEFINE Reading(p, r) == r = "L" /\ p \in {"pass", "turn", "inside"}
  <2>2. Reading(pc'[t], role'[t]) <=> Reading(pc[t], role[t])
    <3>1. CASE pc' = pc /\ role' = role
      BY <3>1
    <3>2. CASE Begin(t)
      BY <3>2 DEF Begin, Goto
    <3>3. CASE pc[t] # "idle" /\ role[t] = "E"
      BY <1>1, <3>3
    <3>4. CASE role[t] = "L" /\ role'[t] = "L" /\ pc[t] \notin {"pass", "turn", "inside"}
               /\ pc'[t] \notin {"pass", "turn", "inside"}
      BY <3>4
    <3>5. CASE role[t] = "L" /\ role'[t] = "L" /\ pc[t] \in {"pass", "turn", "inside"}
               /\ pc'[t] \in {"pass", "turn", "inside"}
      BY <3>5
    <3>6. (pc' = pc /\ role' = role) \/ Begin(t) \/ (pc[t] # "idle" /\ role' = role)
      <4> HIDE DEF LockInv
      <4> QED
        BY DEF Act, Step, Announce, Enter, Wait, SpuriousWakeup, Load, Withdraw, Exit,
         ReaderTest, ReaderCount, ReaderPass, ReaderTurn, ReaderEnd, ReaderSignal,
         WriterTest, WriterLoad, WriterCount, WriterEnd, WriterTurn, WriterSignal,
         MkdirReturn, CopyReturn, At, local
    <3>7. ASSUME pc[t] # "idle", role[t] = "L", role'[t] = "L", pc' # pc
          PROVE  \/ pc[t] \notin {"pass", "turn", "inside"} /\ pc'[t] \notin {"pass", "turn", "inside"}
                 \/ pc[t] \in {"pass", "turn", "inside"} /\ pc'[t] \in {"pass", "turn", "inside"}
      BY <1>4, <3>7
         DEF Act, Step, Begin, Announce, Enter, Wait, SpuriousWakeup, Load, Withdraw, Exit,
         ReaderTest, ReaderPass, ReaderTurn, ReaderSignal,
         WriterTest, WriterLoad, WriterCount, WriterEnd, WriterTurn, WriterSignal,
         MkdirReturn, CopyReturn, At, Goto, local
    <3> HIDE DEF Reading
    <3> QED
      BY <3>1, <3>2, <3>3, <3>4, <3>5, <3>6, <3>7 DEF Sides
  <2>3. Readers' = Readers
    BY <1>1, <2>2 DEF Readers
  <2> QED
    BY <1>2, <2>1, <2>3
<1> QED
  BY <1>3, <1>4

\* A step of t that leaves the writers, their counter and what others may store
\* as they were leaves the counter as far off.
LEMMA OffStays ==
  ASSUME LockInv, NEW t \in Threads, Act(t), ~Unprotected', escritores' = escritores,
         Writers' = Writers, Off \subseteq Off',
         t # again' => ~At(t, "E", "count_store")' /\ ~At(t, "E", "end_store")',
         again' # again => pc'[t] \notin {"count_store", "end_store"},
         t = again => pc'[t] # "end_store"
  PROVE  EscritoresOff'
<1> USE DEF LockInv
<1>1. /\ \A u \in Threads : u # t => pc'[u] = pc[u] /\ role'[u] = role[u]
      /\ \A u \in Threads : u # t => reg'[u] = reg[u]
  BY OthersStay, Frame
<1>2. /\ ~Unprotected
      /\ again' = again \/ (again' = t /\ again = NULL) \/ (t = again /\ again' = NULL)
  BY AgainFacts, Frame
<1>3. /\ escritores - Cardinality(Writers) \in Off
      /\ \A u \in Threads \ {again} : Loaded(u)
      /\ again # NULL /\ pc[again] = "end_store" => reg[again] \in {0, 1}
  BY <1>2 DEF EscritoresOff
<1>4. ASSUME NEW u \in Threads \ {again'} PROVE Loaded(u)'
  <2>1. CASE u = t
    BY <1>4, <2>1 DEF Loaded, At
  <2>2. CASE u # t
    <3>1. u # again
      BY <1>2, <1>4, <2>2, LockAssumption
    <3>2. Loaded(u) /\ pc'[u] = pc[u] /\ role'[u] = role[u] /\ reg'[u] = reg[u]
      BY <1>1, <1>3, <2>2, <3>1
    <3> QED
      BY <3>2 DEF Loaded, At
  <2> QED
    BY <2>1, <2>2
<1>5. again' # NULL /\ pc'[again'] = "end_store" => reg'[again'] \in {0, 1}
  BY <1>1, <1>2, <1>3 DEF TypeOK
<1>6. escritores' - Cardinality(Writers') \in Off'
  BY <1>3
<1> QED
  BY <1>4, <1>5, <1>6 DEF EscritoresOff

\* A thread's step moves nobody else into or out of the lock.
LEMMA WritersStep ==
  ASSUME LockInv, NEW t \in Threads, Act(t)
  PROVE  /\ Writers' \ {t} = Writers \ {t}
         /\ (t \in Writers' <=> t \in Writers) => Writers' = Writers
<1>1. /\ \A u \in Threads : u # t => pc'[u] = pc[u] /\ role'[u] = role[u]
      /\ again' = again \/ (again' = t /\ again = NULL) \/ (t = again /\ again' = NULL)
  BY OthersStay, AgainFacts, Frame DEF LockInv
<1>2. \A u \in Threads : u # t => (u \in Writers' <=> u \in Writers)
  BY <1>1, LockAssumption DEF Writers, At
<1>3. Writers \subseteq Threads /\ Writers' \subseteq Threads
  BY DEF Writers
<1> QED
  BY <1>2, <1>3

\* How far the counter may be off changes with the early returns and with the
\* count of the second terminaEscrita only.
LEMMA OffSame ==
  ASSUME LockInv, NEW t \in Threads, Act(t), fault' = fault, again' = again,
         t = again => (pc[t] \in {"again", "end_store"} <=> pc'[t] \in {"again", "end_store"})
  PROVE  Off' = Off
<1>1. \A u \in Threads : u # t => pc'[u] = pc[u]
  BY OthersStay DEF LockInv
<1>2. EndedAgain' <=> EndedAgain
  BY <1>1 DEF EndedAgain, LockInv, TypeOK
<1> QED
  BY <1>2 DEF Off

\* A writer in the section, the only one.
LEMMA WriterAlone ==
  ASSUME LockInv, NEW t \in Threads, Act(t), ~Unprotected', t # again, role[t] = "E",
         pc[t] \in Holding, again' = again
  PROVE  /\ Writers = IF pc[t] \in {"inside", "end_store"} THEN {t} ELSE {}
         /\ Writers' = IF pc'[t] \in {"inside", "end_store"} THEN {t} ELSE {}
         /\ \A u \in Threads \ {again, t} : Loaded(u)'
<1> USE DEF LockInv
<1>1. /\ \A u \in Threads : u # t => pc'[u] = pc[u] /\ role'[u] = role[u]
      /\ pc[t] # "idle" => role'[t] = role[t]
  BY OthersStay
<1>2. ~Unprotected
  BY AgainFacts
<1>3. /\ Writers = IF pc[t] \in {"inside", "end_store"} THEN {t} ELSE {}
      /\ \A u \in Threads \ {again} : role[u] = "E" /\ pc[u] \in Holding => u = t
  BY <1>2, WritersOf DEF Kept
<1>4. role'[t] = "E"
  BY <1>1 DEF Holding
<1>5. t \in Writers' <=> pc'[t] \in {"inside", "end_store"}
  BY <1>4 DEF Writers, At
<1>6. Writers' = IF pc'[t] \in {"inside", "end_store"} THEN {t} ELSE {}
  BY <1>3, <1>5, WritersStep
<1>7. ASSUME NEW u \in Threads \ {again, t} PROVE Loaded(u)'
  <2>1. ~(role'[u] = "E" /\ pc'[u] \in Holding)
    BY <1>1, <1>3
  <2> QED
    BY <2>1 DEF Loaded, At, Holding
<1> QED
  BY <1>3, <1>6, <1>7

\* A writer that has loaded or stored the counter.
LEMMA WriterAccess ==
  ASSUME LockInv, NEW t \in Threads, Act(t), ~Unprotected', t # again,
         WriterLoad(t) \/ WriterCount(t) \/ WriterEnd(t)
  PROVE  EscritoresOff'
<1> USE DEF LockInv
<1>1. /\ role[t] = "E" /\ pc[t] \in {"count", "inside", "count_store", "end_store"}
      /\ fault' = fault /\ again' = again
  BY DEF WriterLoad, WriterCount, WriterEnd, At, AgainOnce, broken
<1>2. /\ Writers = IF pc[t] \in {"inside", "end_store"} THEN {t} ELSE {}
      /\ Writers' = IF pc'[t] \in {"inside", "end_store"} THEN {t} ELSE {}
      /\ \A u \in Threads \ {again, t} : Loaded(u)'
  BY <1>1, WriterAlone DEF Holding
<1>3. /\ Off' = Off
      /\ role'[t] = "E"
      /\ \A u \in Threads : u # t => pc'[u] = pc[u] /\ reg'[u] = reg[u]
  BY <1>1, OffSame, OthersStay, Frame
<1>4. /\ escritores - Cardinality(Writers) \in Off /\ Loaded(t)
      /\ again # NULL /\ pc[again] = "end_store" => reg[again] \in {0, 1}
  BY AgainFacts DEF EscritoresOff
<1>5. again' # NULL /\ pc'[again'] = "end_store" => reg'[again'] \in {0, 1}
  BY <1>1, <1>3, <1>4 DEF TypeOK
<1>6. escritores \in Int /\ reg[t] \in Int /\ Off \subseteq Int
  BY DEF TypeOK, Off
<1>7. CASE WriterLoad(t)
  <2>1. /\ \/ pc[t] = "count" /\ pc'[t] = "count_store"
           \/ pc[t] = "inside" /\ pc'[t] = "end_store"
        /\ reg'[t] = escritores /\ escritores' = escritores
    BY <1>1, <1>7 DEF WriterLoad, At, Goto, TypeOK, shared
  <2>2. /\ Writers' = Writers
        /\ Cardinality(Writers) = IF pc[t] = "inside" THEN 1 ELSE 0
    BY <1>2, <2>1, CountOne
  <2>3. Loaded(t)'
    BY <1>3, <1>4, <1>6, <2>1, <2>2 DEF Loaded, At
  <2>4. \A u \in Threads \ {again'} : Loaded(u)'
    BY <1>1, <1>2, <2>3
  <2> QED
    BY <1>3, <1>4, <1>5, <2>1, <2>2, <2>4 DEF EscritoresOff
<1>8. CASE WriterCount(t) \/ WriterEnd(t)
  <2>1. \/ pc[t] = "count_store" /\ pc'[t] = "inside" /\ escritores' = reg[t] + 1
        \/ pc[t] = "end_store" /\ pc'[t] = "turn" /\ escritores' = reg[t] - 1
    BY <1>8 DEF WriterCount, WriterEnd, At, Goto, TypeOK
  <2>2. /\ Cardinality(Writers') = IF pc'[t] = "inside" THEN 1 ELSE 0
        /\ pc[t] = "count_store" => reg[t] \in Off
        /\ pc[t] = "end_store" => reg[t] - 1 \in Off
    BY <1>1, <1>2, <1>4, <2>1, CountOne DEF Loaded, At
  <2>3. escritores' - Cardinality(Writers') \in Off'
    BY <1>3, <1>6, <2>1, <2>2
  <2>4. Loaded(t)'
    BY <2>1 DEF Loaded, At
  <2>5. \A u \in Threads \ {again'} : Loaded(u)'
    BY <1>1, <1>2, <2>4
  <2> QED
    BY <1>5, <2>3, <2>5 DEF EscritoresOff
<1> QED
  BY <1>7, <1>8

\* The second terminaEscrita has loaded the counter, or has stored it.
LEMMA AgainAccess ==
  ASSUME LockInv, NEW t \in Threads, Act(t), ~Unprotected', t = again,
         WriterLoad(t) \/ WriterEnd(t)
  PROVE  EscritoresOff'
<1> USE DEF LockInv
<1>1. /\ role[t] = "E" /\ fault = "copy" /\ fault' = fault /\ again' = again /\ again # NULL
      /\ \/ WriterLoad(t) /\ pc[t] = "again" /\ pc'[t] = "end_store"
         \/ WriterEnd(t) /\ pc[t] = "end_store" /\ pc'[t] = "turn"
  BY LockAssumption DEF WriterLoad, WriterEnd, At, AgainOnce, Goto, TypeOK, broken
<1>2. ~EndedAgain /\ Off = {0} /\ ~Unprotected
  BY <1>1, AgainFacts DEF Off, EndedAgain
<1>3. /\ t \notin Writers /\ t \notin Writers'
      /\ Writers' = Writers
  <2>1. t \notin Writers /\ t \notin Writers'
    BY <1>1 DEF Writers
  <2> QED
    BY <2>1, WritersStep
<1>4. Cardinality(Writers) \in {0, 1}
  BY <1>2, HoldersAreOne DEF Kept
<1>5. /\ escritores - Cardinality(Writers) \in Off
      /\ \A u \in Threads \ {again} : Loaded(u)
      /\ pc[again] = "end_store" => reg[again] \in {0, 1}
  BY <1>1, <1>2 DEF EscritoresOff
<1>6. escritores \in {0, 1}
  BY <1>2, <1>4, <1>5 DEF TypeOK
<1>7. \A u \in Threads : u # t => pc'[u] = pc[u] /\ role'[u] = role[u] /\ reg'[u] = reg[u]
  BY OthersStay, Frame
<1>8. CASE WriterLoad(t)
  <2>1. /\ reg'[t] = escritores /\ escritores' = escritores
        /\ pc[t] = "again" /\ pc'[t] = "end_store"
    BY <1>1, <1>8 DEF WriterLoad, WriterEnd, At, TypeOK, shared
  <2>3. Off' = Off
    BY <1>1, <2>1, OffSame
  <2>2. ASSUME NEW u \in Threads \ {again'} PROVE Loaded(u)'
    BY <1>1, <1>5, <1>7, <2>2, <2>3 DEF Loaded, At
  <2> QED
    BY <1>1, <1>3, <1>5, <1>6, <2>1, <2>2, <2>3 DEF EscritoresOff
<1>9. CASE WriterEnd(t)
  <2>1. pc[t] = "end_store" /\ pc'[t] = "turn" /\ escritores' = reg[t] - 1 /\ reg[t] \in {0, 1}
    BY <1>1, <1>5, <1>9 DEF WriterEnd, At
  <2>2. Off' = -2 .. 0
    BY <1>1, <2>1 DEF Off, EndedAgain
  <2>3. escritores' - Cardinality(Writers') \in Off'
    BY <1>3, <1>4, <2>1, <2>2
  <2>4. ASSUME NEW u \in Threads \ {again'} PROVE Loaded(u)'
    <3>1. Off \subseteq Off'
      BY <1>2, <2>2
    <3> QED
      BY <1>1, <1>5, <1>7, <2>4, <3>1 DEF Loaded, At
  <2> QED
    BY <1>1, <2>1, <2>3, <2>4 DEF EscritoresOff
<1> QED
  BY <1>8, <1>9

\* fs_mkdir's return leaves the section without ending it.
LEMMA MkdirStep ==
  ASSUME LockInv, NEW t \in Threads, Act(t), MkdirReturn(t)
  PROVE  EscritoresOff' /\ MkdirShuts'
<1> USE DEF LockInv
<1>1. /\ role[t] = "E" /\ pc[t] = "inside" /\ pc'[t] = "idle" /\ role'[t] = "E"
      /\ fault = "none" /\ fault' = "mkdir" /\ again' = again /\ again = NULL
      /\ escritores' = escritores /\ owner' = owner /\ t # again
  BY AgainFacts, LockAssumption DEF MkdirReturn, At, Goto, TypeOK, shared, monitors
<1>2. ~Unprotected /\ ~Unprotected'
  BY <1>1 DEF Unprotected
<1>3. /\ Writers = {t} /\ Writers' = {}
      /\ \A u \in Threads \ {again, t} : Loaded(u)'
  BY <1>1, <1>2, WriterAlone DEF Holding
<1>4. Off = {0} /\ Off' = {1}
  BY <1>1 DEF Off
<1>5. escritores - 1 \in Off
  <2>1. Cardinality(Writers) = 1
    BY <1>3, CountOne
  <2> QED
    BY <1>2, <2>1 DEF EscritoresOff
<1>6. escritores = 1
  BY <1>4, <1>5 DEF TypeOK
<1>7. EscritoresOff'
  <2>1. Loaded(t)'
    BY <1>1 DEF Loaded, At
  <2>2. Cardinality(Writers') = 0
    BY <1>3, CountOne
  <2> QED
    BY <1>1, <1>3, <1>4, <1>6, <2>1, <2>2 DEF EscritoresOff
<1>8. MkdirShuts'
  <2>1. ASSUME NEW u \in Threads, role'[u] = "E" PROVE pc'[u] \notin Holding
    <3>1. CASE u = t
      BY <1>1, <3>1 DEF Holding
    <3>2. CASE u # t
      <4>1. pc'[u] = pc[u] /\ role'[u] = role[u]
        BY <3>2, OthersStay
      <4> QED
        <5>1. \A v \in Threads \ {again} : role[v] = "E" /\ pc[v] \in Holding => v = t
          <6>1. Kept /\ t \in Threads \ {again} /\ pc[t] \in Holding
            BY <1>1 DEF Kept, Holding
          <6> QED
            BY <1>1, <1>2, <6>1, WritersOf
        <5> QED
          BY <1>1, <2>1, <3>2, <4>1, <5>1, LockAssumption
    <3> QED
      BY <3>1, <3>2
  <2>2. owner'["E"] # NULL
    BY <1>1, <1>2, LockAssumption DEF HoldersOwn, Holding
  <2>3. Shut'
    BY <1>1, <1>6, <2>1 DEF Shut, Holding
  <2> QED
    BY <2>1, <2>2, <2>3 DEF MkdirShuts
<1> QED
  BY <1>7, <1>8

\* Any other step leaves the counter as far off as it was.
LEMMA QuietStep ==
  ASSUME LockInv, NEW t \in Threads, Act(t), ~Unprotected',
         ~WriterLoad(t), ~WriterCount(t), ~WriterEnd(t), ~MkdirReturn(t)
  PROVE  EscritoresOff'
<1> USE DEF LockInv
<1>1. escritores' = escritores
  BY DEF Act, Step, Begin, Announce, Enter, Wait, SpuriousWakeup, Load, Withdraw, Exit,
         ReaderTest, ReaderCount, ReaderPass, ReaderTurn, ReaderEnd, ReaderSignal,
         WriterTest, WriterTurn, WriterSignal, CopyReturn, shared
<1>2. /\ \A u \in Threads : u # t => pc'[u] = pc[u] /\ role'[u] = role[u]
      /\ pc[t] # "idle" => role'[t] = role[t]
  BY OthersStay
<1>3. CASE CopyReturn(t)
  <2>1. /\ role[t] = "E" /\ role'[t] = "E" /\ pc[t] = "exit" /\ pc'[t] = "again"
        /\ again = NULL /\ again' = t /\ fault = "none" /\ fault' = "copy"
    BY <1>2, <1>3, AgainFacts DEF CopyReturn, At, Goto, TypeOK
  <2>2. Writers' = Writers
    <3>1. t \notin Writers /\ t \notin Writers'
      BY <2>1 DEF Writers, At
    <3> QED
      BY <3>1, WritersStep
  <2>3. Off = {0} /\ Off' = {0}
    BY <2>1, LockAssumption DEF Off, EndedAgain
  <2> QED
    BY <1>1, <2>1, <2>2, <2>3, LockAssumption, OffStays
<1>4. CASE Exit(t) /\ t = again
  <2>1. /\ pc[t] = "exit" /\ pc'[t] = "idle" /\ again' = NULL /\ fault' = fault
    BY <1>4 DEF Exit, Goto, TypeOK
  <2>2. Writers' = Writers
    <3>1. t \notin Writers /\ t \notin Writers'
      BY <1>4, <2>1 DEF Writers, At
    <3> QED
      BY <3>1, WritersStep
  <2>3. Off' = Off
    BY <1>4, <2>1 DEF Off, EndedAgain
  <2> QED
    BY <1>1, <2>1, <2>2, <2>3, OffStays DEF At
<1>5. CASE ~CopyReturn(t) /\ (Exit(t) => t # again)
  <2>1. again' = again /\ fault' = fault
    <3>1. again' = again
      BY <1>5, Frame, AgainFacts
    <3>2. fault' = fault
      BY <1>5 DEF Act, Step, Begin, Announce, Enter, Wait, SpuriousWakeup, Load, Withdraw, Exit,
         ReaderTest, ReaderCount, ReaderPass, ReaderTurn, ReaderEnd, ReaderSignal,
         WriterTest, WriterTurn, WriterSignal, broken
    <3> QED
      BY <3>1, <3>2
  <2>2. CASE pc' = pc /\ role' = role
    <3>1. Writers' = Writers
      BY <2>1, <2>2 DEF Writers, At
    <3>2. Off' = Off
      BY <2>1, <2>2 DEF Off, EndedAgain
    <3>3. \A u \in Threads : reg'[u] = reg[u]
      BY <2>2 DEF Act, Step, Begin, Announce, Enter, Wait, SpuriousWakeup, Load, Withdraw, Exit,
         ReaderTest, ReaderCount, ReaderPass, ReaderTurn, ReaderEnd, ReaderSignal,
         WriterTest, WriterTurn, WriterSignal, CopyReturn, Goto, local, TypeOK
    <3>4. ~Unprotected
      BY AgainFacts
    <3>5. \A u \in Threads : Loaded(u)' <=> Loaded(u)
      BY <2>2, <3>2, <3>3 DEF Loaded, At
    <3> QED
      BY <1>1, <2>1, <2>2, <3>1, <3>2, <3>3, <3>4, <3>5 DEF EscritoresOff, TypeOK
  <2>3. CASE ~(pc' = pc /\ role' = role)
    <3>1. /\ pc[t] \notin {"count_store", "end_store", "again"}
          /\ pc'[t] \notin {"count_store", "end_store", "again"}
          /\ pc[t] = "inside" => role[t] = "L" /\ role'[t] = "L"
          /\ pc'[t] = "inside" => role[t] = "L" /\ role'[t] = "L"
      BY <1>2, <1>5, <2>3
         DEF Act, Step, Begin, Announce, Enter, Wait, SpuriousWakeup, Load, Withdraw, Exit,
         ReaderTest, ReaderCount, ReaderPass, ReaderTurn, ReaderEnd, ReaderSignal,
         WriterTest, WriterTurn, WriterSignal, At, Goto, TypeOK, local
    <3>2. Writers' = Writers
      <4>1. t \notin Writers /\ t \notin Writers'
        BY <3>1 DEF Writers, At
      <4> QED
        BY <4>1, WritersStep
    <3>3. Off' = Off
      BY <2>1, <3>1, OffSame
    <3> QED
      BY <1>1, <2>1, <3>1, <3>2, <3>3, OffStays DEF At
  <2> QED
    BY <2>2, <2>3
<1> QED
  BY <1>3, <1>4, <1>5

\* The counter of writers is off by what the early returns explain.
LEMMA EscritoresStep ==
  ASSUME LockInv, NEW t \in Threads, Act(t)
  PROVE  EscritoresOff'
<1>1. CASE Unprotected'
  BY <1>1 DEF EscritoresOff
<1>2. CASE ~Unprotected'
  <2>1. t = again => ~WriterCount(t)
    BY LockAssumption DEF LockInv, AgainOnce, WriterCount, At
  <2> QED
    BY <1>2, <2>1, WriterAccess, AgainAccess, MkdirStep, QuietStep
<1> QED
  BY <1>1, <1>2

\* The lock that is shut stays shut: nobody passes the test any more.
LEMMA ShutStep ==
  ASSUME LockInv, NEW t \in Threads, Act(t), Shut
  PROVE  fault # "none" /\ Shut' /\ Outside \subseteq Outside'
<1> USE DEF LockInv
<1>1. /\ \A u \in Threads : u # t => pc'[u] = pc[u] /\ role'[u] = role[u]
      /\ pc[t] # "idle" => role'[t] = role[t]
  BY OthersStay
<1>2. /\ escritores # 0 /\ again = NULL /\ t # again
      /\ \A u \in Threads :
           role[u] = "E" => pc[u] \notin {"test_leitores", "load", "withdraw", "count", "count_store",
                                          "inside", "end_store"}
  BY LockAssumption DEF Shut
<1>3. fault # "none"
  <2>1. Writers = {}
    BY <1>2 DEF Writers, At
  <2>2. Cardinality(Writers) = 0
    BY <2>1, CountOne
  <2>3. fault = "none" => escritores - 0 \in {0}
    BY <2>2 DEF EscritoresOff, Off, Unprotected
  <2> QED
    BY <1>2, <2>3 DEF TypeOK
<1>4. pc[t] # "again"
  BY <1>2 DEF AgainOnce
<1>5. escritores' = escritores /\ again' = NULL
  <2>1. again' = again
    <3>1. ~CopyReturn(t)
      BY <1>3 DEF CopyReturn
    <3> QED
      BY <1>2, <3>1, Frame, AgainFacts
  <2>2. ~WriterCount(t) /\ ~WriterEnd(t)
    BY <1>2 DEF WriterCount, WriterEnd, At
  <2>3. escritores' = escritores
    BY <2>2 DEF Act, Step, Begin, Announce, Enter, Wait, SpuriousWakeup, Load, Withdraw, Exit,
         ReaderTest, ReaderCount, ReaderPass, ReaderTurn, ReaderEnd, ReaderSignal,
         WriterTest, WriterLoad, WriterTurn, WriterSignal, MkdirReturn, CopyReturn, shared
  <2> QED
    BY <1>2, <2>1, <2>3
<1>6. role'[t] = "E" => pc'[t] \notin {"test_leitores", "load", "withdraw", "count", "count_store",
                                       "inside", "end_store"}
  <2>1. role'[t] = "E" => role[t] = "E" \/ pc[t] = "idle"
    BY <1>1
  <2> QED
    BY <1>2, <1>3, <1>4, <2>1
       DEF Act, Step, Begin, Announce, Enter, Wait, SpuriousWakeup, Load, Withdraw, Exit,
         ReaderTest, ReaderCount, ReaderPass, ReaderTurn, ReaderEnd, ReaderSignal,
         WriterTest, WriterLoad, WriterCount, WriterEnd, WriterTurn, WriterSignal,
         MkdirReturn, CopyReturn, Goto, At, TypeOK, local
<1>7. Shut'
  BY <1>1, <1>2, <1>5, <1>6 DEF Shut
<1>8. t \in Outside => t \in Outside'
  <2> DEFINE P == {"idle", "announce", "enter", "test", "wait", "asleep"}
  <2>1. pc[t] \in P => pc'[t] \in P
    BY <1>2, <1>3
       DEF Act, Step, Begin, Announce, Enter, Wait, SpuriousWakeup, Load, Withdraw, Exit,
         ReaderTest, ReaderCount, ReaderPass, ReaderTurn, ReaderEnd, ReaderSignal,
         WriterTest, WriterLoad, WriterCount, WriterEnd, WriterTurn, WriterSignal,
         MkdirReturn, CopyReturn, Goto, At, TypeOK, local
  <2> QED
    BY <2>1 DEF Outside
<1>9. Outside \subseteq Outside'
  BY <1>1, <1>8 DEF Outside
<1> QED
  BY <1>3, <1>7, <1>9

\* The monitor that fs_mkdir's return keeps lets no writer in.
LEMMA MkdirKeeps ==
  ASSUME LockInv, NEW t \in Threads, Act(t)
  PROVE  MkdirShuts'
<1> USE DEF LockInv
<1>1. CASE MkdirReturn(t)
  BY <1>1, MkdirStep
<1>2. CASE ~MkdirReturn(t)
  <2> SUFFICES ASSUME fault' = "mkdir" PROVE MkdirShuts'
    BY DEF MkdirShuts
  <2>1. fault = "mkdir"
    BY <1>2 DEF Act, Step, Begin, Announce, Enter, Wait, SpuriousWakeup, Load, Withdraw, Exit,
         ReaderTest, ReaderCount, ReaderPass, ReaderTurn, ReaderEnd, ReaderSignal,
         WriterTest, WriterLoad, WriterCount, WriterEnd, WriterTurn, WriterSignal,
         CopyReturn, broken
  <2>2. /\ Shut /\ owner["E"] # NULL
        /\ \A u \in Threads : role[u] = "E" => pc[u] \notin Holding
    BY <2>1 DEF MkdirShuts
  <2>3. Shut'
    BY <2>2, ShutStep
  <2>4. /\ \A u \in Threads : u # t => pc'[u] = pc[u] /\ role'[u] = role[u]
        /\ pc[t] # "idle" => role'[t] = role[t]
    BY OthersStay
  <2>5. pc[t] # "again"
    BY <2>1, AgainFacts, LockAssumption DEF AgainOnce
  <2>6. role'[t] = "E" => pc'[t] \notin Holding
    <3>1. role'[t] = "E" => role[t] = "E" \/ pc[t] = "idle"
      BY <2>4
    <3> QED
      BY <2>2, <2>5, <3>1
         DEF Act, Step, Begin, Announce, Enter, Wait, SpuriousWakeup, Load, Withdraw, Exit,
         ReaderTest, ReaderCount, ReaderPass, ReaderTurn, ReaderEnd, ReaderSignal,
         WriterTest, WriterLoad, WriterCount, WriterEnd, WriterTurn, WriterSignal,
         MkdirReturn, CopyReturn, Goto, At, TypeOK, local, Holding
  <2>7. owner'["E"] # NULL
    <3>1. CASE UNCHANGED owner
      BY <2>2, <3>1
    <3>2. CASE Enter(t)
      BY <2>2, <3>2, LockAssumption DEF Enter, TypeOK, Sides
    <3>3. CASE Wait(t) \/ Exit(t) \/ CopyReturn(t)
      <4>1. role[t] = "L"
        BY <2>2, <3>3 DEF Wait, Exit, CopyReturn, At, Holding, TypeOK, Sides
      <4>2. Wait(t) \/ Exit(t)
        BY <3>3, <4>1 DEF CopyReturn, At
      <4>3. owner' = owner \/ owner' = [owner EXCEPT !["L"] = NULL]
        <5>1. CASE Wait(t)
          BY <4>1, <5>1 DEF Wait
        <5>2. CASE Exit(t)
          BY <4>1, <5>2, ReleaseType DEF Exit, Sides
        <5> QED
          BY <4>2, <5>1, <5>2
      <4> QED
        BY <2>2, <4>3 DEF TypeOK, Sides
    <3> QED
      BY <3>1, <3>2, <3>3
         DEF Act, Step, Begin, Announce, SpuriousWakeup, Load, Withdraw,
         ReaderTest, ReaderCount, ReaderPass, ReaderTurn, ReaderEnd, ReaderSignal,
         WriterTest, WriterLoad, WriterCount, WriterEnd, WriterTurn, WriterSignal,
         MkdirReturn, monitors
  <2> QED
    BY <2>2, <2>3, <2>4, <2>6, <2>7 DEF MkdirShuts
<1> QED
  BY <1>1, <1>2

\* Every step of every thread keeps the lock's invariant.
LEMMA LockStep == LockInv /\ [Next]_vars => LockInv'
<1> SUFFICES ASSUME LockInv, [Next]_vars PROVE LockInv'
  OBVIOUS
<1>1. ASSUME NEW t \in Threads, Act(t) PROVE LockInv'
  <2>1. TypeOK' /\ HoldersOwn' /\ AgainOnce'
    BY <1>1, LockTypeStep, HoldersStep, AgainStep
  <2>2. Kept'
    BY <2>1 DEF Kept
  <2>3. EscritoresOff' /\ MkdirShuts'
    BY <1>1, EscritoresStep, MkdirKeeps
  <2>4. leitores' = Cardinality(Readers')
    BY <1>1, <2>2, ReadersStep
  <2>5. Cardinality(Readers') \in {0, 1} /\ (Unprotected' \/ Cardinality(Writers') \in {0, 1})
    BY <2>2, HoldersAreOneNext
  <2>6. OneOfEach'
    BY <2>4, <2>5 DEF OneOfEach
  <2> QED
    BY <2>1, <2>3, <2>6 DEF LockInv
<1>2. CASE UNCHANGED vars
  <2>1. Readers' = Readers /\ Writers' = Writers
    BY <1>2 DEF vars, local, broken, Readers, Writers, At
  <2> QED
    BY <1>2, <2>1 DEF vars, shared, monitors, local, broken, LockInv, TypeOK, OneOfEach, HoldersOwn,
                      AgainOnce, EscritoresOff, Loaded, Off, EndedAgain, MkdirShuts, Shut, Unprotected, At
<1> QED
  BY <1>1, <1>2 DEF Next, Act

\* For any number of threads in either build: leitores counts the readers inside, of whom
\* there is one at most; as long as the writers' monitor protects them there is one writer at
\* most, and escritores is off from their number by what the early returns of fs.c explain,
\* also while fs_copy's second terminaEscrita counts beside a writer that comes or goes.
THEOREM LockCorrect == Spec => []LockInv
BY InitLock, LockStep, PTL DEF Spec

\* A lock whose counter of writers is not zero while nobody is left to change it, as fs_mkdir's
\* return inside the lock leaves it and fs_copy's second terminaEscrita may, is closed to both
\* kinds of call, for good and for every thread; and only after an early return is it ever so.
THEOREM LockFreezes == Spec => FaultFreezes
<1> DEFINE Closed == Shut => fault # "none" /\ Shut' /\ Outside \subseteq Outside'
<1>1. LockInv /\ [Next]_vars => [Closed]_vars
  BY ShutStep DEF Next, Act
<1> QED
  BY <1>1, LockCorrect, PTL DEF Spec, FaultFreezes
=============================================================================
