-------------------------- MODULE RequestRingProofs --------------------------
(***************************************************************************)
(* Proofs about RequestRing for any set of clients and consumers, any ring *)
(* size and either build: the positions and waits of the ring, what it     *)
(* promises as a channel, that no request is lost or served twice, and     *)
(* what an exit of the server takes.                                       *)
(***************************************************************************)
EXTENDS RequestRing, DataFacts

-----------------------------------------------------------------------------
(* Positions in the ring                                                   *)

\* A position is a remainder.
LEMMA PositionRange ==
  ASSUME NEW n \in Nat
  PROVE  n % RingSize \in 0 .. RingSize - 1
BY RingAssumption

\* The remainder of what is less than two turns of the ring.
LEMMA PositionWraps ==
  ASSUME NEW n \in 0 .. 2 * RingSize - 1
  PROVE  n % RingSize = IF n < RingSize THEN n ELSE n - RingSize
<1>1. CASE n < RingSize
  BY <1>1, RingAssumption
<1>2. CASE n >= RingSize
  BY <1>2, RingAssumption
<1> QED
  BY <1>1, <1>2, RingAssumption

\* One step of a position, as get_req and put_req take it.
LEMMA PositionStep ==
  ASSUME NEW p \in 0 .. RingSize - 1
  PROVE  (p + 1) % RingSize = IF p + 1 = RingSize THEN 0 ELSE p + 1
BY PositionWraps, RingAssumption

\* get_req leaves the oldest request but one in front.
LEMMA TakePosition ==
  ASSUME NEW p \in 0 .. RingSize - 1, NEW n \in 0 .. RingSize - 1
  PROVE  (((p + 1) % RingSize) + n) % RingSize = (p + n + 1) % RingSize
<1>1. (p + 1) % RingSize \in 0 .. RingSize - 1
  BY PositionStep, RingAssumption
<1>2. (p + 1) % RingSize = IF p + 1 = RingSize THEN 0 ELSE p + 1
  BY PositionStep
<1>3. (p + n + 1) % RingSize = IF p + n + 1 < RingSize THEN p + n + 1 ELSE p + n + 1 - RingSize
  BY PositionWraps, RingAssumption
<1>4. CASE p + 1 = RingSize
  <2>1. n % RingSize = n
    BY PositionWraps, RingAssumption
  <2> QED
    BY <1>2, <1>3, <1>4, <2>1, RingAssumption
<1>5. CASE p + 1 # RingSize
  BY <1>2, <1>5
<1> QED
  BY <1>4, <1>5

\* put_req goes on behind the newest request.
LEMMA PutPosition ==
  ASSUME NEW p \in 0 .. RingSize - 1, NEW n \in 0 .. RingSize - 1
  PROVE  (((p + n) % RingSize) + 1) % RingSize = (p + n + 1) % RingSize
<1>1. (p + n) % RingSize \in 0 .. RingSize - 1
  BY PositionRange, RingAssumption
<1>2. (p + n) % RingSize = IF p + n < RingSize THEN p + n ELSE p + n - RingSize
  BY PositionWraps, RingAssumption
<1>3. (p + n + 1) % RingSize = IF p + n + 1 < RingSize THEN p + n + 1 ELSE p + n + 1 - RingSize
  BY PositionWraps, RingAssumption
<1> DEFINE q == (p + n) % RingSize
<1>4. (q + 1) % RingSize = IF q + 1 = RingSize THEN 0 ELSE q + 1
  BY <1>1, PositionStep
<1> QED
  BY <1>2, <1>3, <1>4, RingAssumption

\* Different requests of the ring are in different slots, and the slot that
\* put_req fills is none of them.
LEMMA SlotsDiffer ==
  ASSUME NEW p \in 0 .. RingSize - 1, NEW i \in 0 .. RingSize - 1, NEW j \in 0 .. RingSize - 1,
         i # j
  PROVE  (p + i) % RingSize # (p + j) % RingSize
<1>1. p + i \in 0 .. 2 * RingSize - 1 /\ p + j \in 0 .. 2 * RingSize - 1
  BY RingAssumption
<1> QED
  BY <1>1, PositionWraps, RingAssumption
-----------------------------------------------------------------------------
(* The buffer and those who wait for it                                    *)

\* The ring is empty and everybody runs.
LEMMA InitBuffer == Init => BufferInv
<1> SUFFICES ASSUME Init PROVE BufferInv
  OBVIOUS
<1>1. TypeOK
  <2>1. socket \in Seq(Clients)
    BY DEF Init
  <2>2. pc \in [Threads -> {"get", "serve", "check", "receive", "received", "put"}]
        /\ (\A t \in Consumers : pc[t] \in {"get", "serve"})
        /\ pc[Producer] \notin {"get", "serve"}
    BY RingAssumption DEF Init, Threads
  <2> QED
    BY <2>1, <2>2, RingAssumption DEF Init, TypeOK, Kinds
<1>2. SlotStaysFree
  BY RingAssumption DEF Init, SlotStaysFree, Threads
<1>3. WaitersHaveReason
  BY DEF Init, WaitersHaveReason
<1>4. PositionsAgree
  BY PositionWraps, RingAssumption DEF Init, PositionsAgree
<1> QED
  BY <1>1, <1>2, <1>3, <1>4 DEF BufferInv

\* A signal takes away one of the waiters, if there is any.
LEMMA SignalOneWakes ==
  ASSUME SignalOne
  PROVE  /\ waiters' \subseteq waiters
         /\ waiters # {} => \E w \in waiters : waiters' = waiters \ {w}
BY DEF SignalOne

\* What each step of the clients and of the threads leaves in the variables.
LEMMA TypeStep ==
  ASSUME BufferInv, Next
  PROVE  TypeOK'
<1> USE DEF BufferInv, TypeOK, Kinds, Threads, buffer, clients
<1>1. ASSUME NEW c \in Clients, Call(c) PROVE TypeOK'
  <2>1. kind' \in [Clients -> Kinds]
    <3>1. PICK k \in Calls[c] : kind' = [kind EXCEPT ![c] = k]
      BY <1>1 DEF Call
    <3>2. k \in Kinds
      BY RingAssumption
    <3> QED
      BY <3>1, <3>2
  <2>2. socket' \in Seq(Clients)
    BY <1>1 DEF Call
  <2> QED
    BY <1>1, <2>1, <2>2 DEF Call
<1>2. ASSUME NEW c \in Clients, Die(c) PROVE TypeOK'
  BY <1>2 DEF Die
<1>3. ASSUME NEW t \in Consumers, ConsumerWait(t) PROVE TypeOK'
  BY <1>3 DEF ConsumerWait, At, Wait
<1>4. ASSUME NEW t \in Consumers, ConsumerGet(t) PROVE TypeOK'
  <2>1. getPos' \in 0 .. RingSize - 1 /\ available' \in 0 .. RingSize
    <3>1. (getPos + 1) % RingSize \in 0 .. RingSize - 1
      <4>1. getPos + 1 \in Nat
        BY RingAssumption
      <4> HIDE DEF BufferInv, TypeOK
      <4> QED
        BY <4>1, PositionRange
    <3> QED
      BY <1>4, <3>1, RingAssumption DEF ConsumerGet, get_req
  <2>2. waiters' \subseteq Threads
    BY <1>4, SignalOneWakes DEF ConsumerGet
  <2>3. req_d' \in [Threads -> Clients \cup {NULL}]
    BY <1>4 DEF ConsumerGet, get_req
  <2>4. /\ pc' \in [Threads -> {"get", "serve", "check", "receive", "received", "put"}]
        /\ \A u \in Consumers : pc'[u] \in {"get", "serve"}
        /\ pc'[Producer] \notin {"get", "serve"}
    BY <1>4, RingAssumption DEF ConsumerGet, Goto
  <2> QED
    BY <1>4, <2>1, <2>2, <2>3, <2>4 DEF ConsumerGet, get_req
<1>5. ASSUME NEW t \in Consumers, ConsumerServe(t) PROVE TypeOK'
  <2>1. client' \in [Clients -> {"idle", "calling", "dead"}]
    BY <1>5 DEF ConsumerServe
  <2>2. kind' \in [Clients -> Kinds]
    BY <1>5 DEF ConsumerServe
  <2>3. errno' \in {"0", "EAGAIN", "ECONNREFUSED"} /\ ressz' \subseteq Consumers
    BY <1>5 DEF ConsumerServe
  <2>4. /\ pc' \in [Threads -> {"get", "serve", "check", "receive", "received", "put"}]
        /\ \A u \in Consumers : pc'[u] \in {"get", "serve"}
        /\ pc'[Producer] \notin {"get", "serve"}
    BY <1>5, RingAssumption DEF ConsumerServe, Goto
  <2>5. req_d' \in [Threads -> Clients \cup {NULL}]
    BY <1>5 DEF ConsumerServe
  <2> QED
    BY <1>5, <2>1, <2>2, <2>3, <2>4, <2>5 DEF ConsumerServe
<1>6. ASSUME NEW t \in Threads, SpuriousWakeup(t) PROVE TypeOK'
  BY <1>6 DEF SpuriousWakeup
<1>7. CASE ProducerWait
  BY <1>7 DEF ProducerWait, Wait
<1>8. CASE ProducerCheck
  BY <1>8, RingAssumption DEF ProducerCheck, Goto
<1>9. CASE Receive
  <2>1. socket' \in Seq(Clients) /\ req_d' \in [Threads -> Clients \cup {NULL}]
    <3>1. CASE socket = <<>>
      BY <1>9, <3>1 DEF Receive
    <3>2. CASE socket # <<>>
      <4>1. Head(socket) \in Clients /\ Tail(socket) \in Seq(Clients)
        BY <3>2, HeadTailProperties
      <4> QED
        BY <1>9, <3>2, <4>1 DEF Receive
    <3> QED
      BY <3>1, <3>2
  <2>2. errno' \in {"0", "EAGAIN", "ECONNREFUSED"}
    BY <1>9 DEF Receive
  <2> QED
    BY <1>9, <2>1, <2>2, RingAssumption DEF Receive, Goto
<1>10. CASE ReceiveAgain
  BY <1>10, RingAssumption DEF ReceiveAgain, Goto
<1>11. CASE ReceiveEnd
  <2>1. \/ status' = "exited" /\ UNCHANGED <<pc, req_d>>
        \/ /\ req_d' = [req_d EXCEPT ![Producer] = NULL]
           /\ Goto(Producer, "check")
           /\ UNCHANGED status
        \/ Goto(Producer, "put") /\ UNCHANGED <<status, req_d>>
    BY <1>11 DEF ReceiveEnd, reqsz
  <2> QED
    BY <1>11, <2>1, RingAssumption DEF ReceiveEnd, Goto
<1>12. CASE ProducerPut
  <2>1. ring' \in [0 .. RingSize - 1 -> Clients \cup {NULL}]
    BY <1>12 DEF ProducerPut, put_req
  <2>2. putPos' \in 0 .. RingSize - 1
    <3>1. (putPos + 1) % RingSize \in 0 .. RingSize - 1
      <4>1. putPos + 1 \in Nat
        BY RingAssumption
      <4> HIDE DEF BufferInv, TypeOK
      <4> QED
        BY <4>1, PositionRange
    <3> QED
      BY <1>12, <3>1 DEF ProducerPut, put_req
  <2>3. available' \in 0 .. RingSize
    BY <1>12, RingAssumption DEF ProducerPut, SlotStaysFree, At
  <2> QED
    BY <1>12, <2>1, <2>2, <2>3, RingAssumption DEF ProducerPut, put_req, SignalAll, Goto
<1> QED
  BY <1>1, <1>2, <1>3, <1>4, <1>5, <1>6, <1>7, <1>8, <1>9, <1>10, <1>11, <1>12
  DEF Next, Consume, Produce

\* Only the producer fills a slot, so one that it found free stays so.
LEMMA SlotStep ==
  ASSUME BufferInv, Next
  PROVE  SlotStaysFree'
<1> USE RingAssumption DEF BufferInv, TypeOK, SlotStaysFree, Threads, buffer, At, Goto
<1>1. ASSUME NEW c \in Clients, Call(c) \/ Die(c) PROVE SlotStaysFree'
  BY <1>1 DEF Call, Die
<1>2. ASSUME NEW t \in Consumers, Consume(t) PROVE SlotStaysFree'
  <2>1. CASE ConsumerWait(t)
    BY <2>1 DEF ConsumerWait
  <2>2. CASE ConsumerGet(t)
    BY <2>2 DEF ConsumerGet
  <2>3. CASE ConsumerServe(t)
    BY <2>3 DEF ConsumerServe
  <2> QED
    BY <1>2, <2>1, <2>2, <2>3 DEF Consume
<1>3. ASSUME NEW t \in Threads, SpuriousWakeup(t) PROVE SlotStaysFree'
  BY <1>3 DEF SpuriousWakeup
<1>4. CASE Produce
  <2>1. CASE ProducerWait \/ ProducerCheck
    BY <2>1 DEF ProducerWait, ProducerCheck
  <2>2. CASE Receive \/ ReceiveAgain
    BY <2>2 DEF Receive, ReceiveAgain
  <2>3. CASE ReceiveEnd
    BY <2>3 DEF ReceiveEnd, reqsz
  <2>4. CASE ProducerPut
    BY <2>4 DEF ProducerPut
  <2> QED
    BY <1>4, <2>1, <2>2, <2>3, <2>4 DEF Produce
<1> QED
  BY <1>1, <1>2, <1>3, <1>4 DEF Next

\* One signal is enough for a consumer: if it takes a request of a full ring the
\* only one that waits is the producer.
LEMMA WaitersStep ==
  ASSUME BufferInv, Next
  PROVE  WaitersHaveReason'
<1> USE RingAssumption DEF BufferInv, TypeOK, WaitersHaveReason, Threads, buffer
<1>1. ASSUME NEW c \in Clients, Call(c) \/ Die(c) PROVE WaitersHaveReason'
  BY <1>1 DEF Call, Die
<1>2. ASSUME NEW t \in Consumers, Consume(t) PROVE WaitersHaveReason'
  <2>1. CASE ConsumerWait(t)
    BY <2>1 DEF ConsumerWait, Wait
  <2>2. CASE ConsumerGet(t)
    <3>1. waiters \cap Consumers = {}
      BY <2>2 DEF ConsumerGet
    <3>2. waiters' = {}
      BY <2>2, <3>1, SignalOneWakes DEF ConsumerGet
    <3> QED
      BY <3>2
  <2>3. CASE ConsumerServe(t)
    BY <2>3 DEF ConsumerServe
  <2> QED
    BY <1>2, <2>1, <2>2, <2>3 DEF Consume
<1>3. ASSUME NEW t \in Threads, SpuriousWakeup(t) PROVE WaitersHaveReason'
  BY <1>3 DEF SpuriousWakeup
<1>4. CASE Produce
  <2>1. CASE ProducerWait
    BY <2>1 DEF ProducerWait, Wait
  <2>2. CASE ProducerCheck \/ Receive \/ ReceiveAgain \/ ReceiveEnd
    BY <2>2 DEF ProducerCheck, Receive, ReceiveAgain, ReceiveEnd
  <2>3. CASE ProducerPut
    BY <2>3 DEF ProducerPut, SignalAll
  <2> QED
    BY <1>4, <2>1, <2>2, <2>3 DEF Produce
<1> QED
  BY <1>1, <1>2, <1>3, <1>4 DEF Next

\* What a step does to the ring: a request is taken, one is put, or nothing.
LEMMA BufferSteps ==
  ASSUME BufferInv, Next
  PROVE  \/ UNCHANGED buffer
         \/ \E t \in Consumers : ConsumerGet(t)
         \/ ProducerPut
<1> USE DEF buffer
<1>1. ASSUME NEW c \in Clients, Call(c) \/ Die(c) PROVE UNCHANGED buffer
  BY <1>1 DEF Call, Die
<1>2. ASSUME NEW t \in Consumers, Consume(t) PROVE UNCHANGED buffer \/ ConsumerGet(t)
  BY <1>2 DEF Consume, ConsumerWait, ConsumerServe
<1>3. ASSUME NEW t \in Threads, SpuriousWakeup(t) PROVE UNCHANGED buffer
  BY <1>3 DEF SpuriousWakeup
<1>4. CASE Produce
  BY <1>4 DEF Produce, ProducerWait, ProducerCheck, Receive, ReceiveAgain, ReceiveEnd
<1> QED
  BY <1>1, <1>2, <1>3, <1>4 DEF Next

\* The two positions move with the count.
LEMMA PositionsStep ==
  ASSUME BufferInv, Next
  PROVE  PositionsAgree'
<1> USE DEF PositionsAgree
<1>1. CASE UNCHANGED buffer
  BY <1>1 DEF buffer, BufferInv
<1>2. ASSUME NEW t \in Consumers, ConsumerGet(t) PROVE PositionsAgree'
  <2>1. getPos \in 0 .. RingSize - 1 /\ available \in 1 .. RingSize
    BY <1>2 DEF BufferInv, TypeOK, ConsumerGet
  <2>2. available - 1 \in 0 .. RingSize - 1
    BY <2>1, RingAssumption
  <2>3. (((getPos + 1) % RingSize) + (available - 1)) % RingSize = (getPos + (available - 1) + 1) % RingSize
    BY <2>1, <2>2, TakePosition
  <2>4. getPos + (available - 1) + 1 = getPos + available
    BY <2>1, RingAssumption
  <2> QED
    BY <1>2, <2>3, <2>4 DEF ConsumerGet, get_req, BufferInv
<1>3. CASE ProducerPut
  <2>1. getPos \in 0 .. RingSize - 1 /\ available \in 0 .. RingSize - 1
    BY <1>3, RingAssumption DEF BufferInv, TypeOK, SlotStaysFree, ProducerPut, At
  <2>2. (((getPos + available) % RingSize) + 1) % RingSize = (getPos + available + 1) % RingSize
    BY <2>1, PutPosition
  <2>3. getPos + available + 1 = getPos + (available + 1)
    BY <2>1, RingAssumption
  <2> QED
    BY <1>3, <2>2, <2>3 DEF ProducerPut, put_req, BufferInv
<1> QED
  BY <1>1, <1>2, <1>3, BufferSteps

\* The four facts are inductive together.
LEMMA BufferStep == BufferInv /\ [Next]_vars => BufferInv'
<1> SUFFICES ASSUME BufferInv, [Next]_vars PROVE BufferInv'
  OBVIOUS
<1>1. CASE Next
  BY <1>1, TypeStep, SlotStep, WaitersStep, PositionsStep DEF BufferInv
<1>2. CASE UNCHANGED vars
  BY <1>2 DEF vars, buffer, clients, BufferInv, TypeOK, SlotStaysFree, WaitersHaveReason, PositionsAgree
<1> QED
  BY <1>1, <1>2

\* The test of available_reqs holds until the put, nobody waits without a reason
\* and the two positions agree, whatever the build and however steps interleave.
THEOREM BufferCorrect == Spec => []BufferInv
BY InitBuffer, BufferStep, PTL DEF Spec

-----------------------------------------------------------------------------
(* The ring as a channel                                                   *)

\* The requests of the ring, as a sequence.
LEMMA QueueIsSeq ==
  BufferInv => /\ Queue \in Seq(Clients \cup {NULL})
               /\ Len(Queue) = available /\ DOMAIN Queue = 1 .. available
<1> SUFFICES ASSUME BufferInv
             PROVE  /\ Queue \in Seq(Clients \cup {NULL})
                    /\ Len(Queue) = available /\ DOMAIN Queue = 1 .. available
  OBVIOUS
<1>1. available \in Nat /\ getPos \in Nat /\ ring \in [0 .. RingSize - 1 -> Clients \cup {NULL}]
  BY RingAssumption DEF BufferInv, TypeOK
<1>2. ASSUME NEW i \in 1 .. available
      PROVE  ring[(getPos + i - 1) % RingSize] \in Clients \cup {NULL}
  <2>1. getPos + i - 1 \in Nat
    BY <1>1
  <2>2. (getPos + i - 1) % RingSize \in 0 .. RingSize - 1
    BY <2>1, PositionRange
  <2> QED
    BY <1>1, <2>2
<1>3. Queue \in [1 .. available -> Clients \cup {NULL}]
  BY <1>2 DEF Queue
<1> QED
  BY <1>1, <1>3, SeqDef

\* The same after a step.
LEMMA QueueIsSeqNext ==
  (BufferInv => /\ Queue \in Seq(Clients \cup {NULL})
                /\ Len(Queue) = available /\ DOMAIN Queue = 1 .. available)'
BY QueueIsSeq, PTL

\* What does not touch the buffer leaves the requests alone.
LEMMA QueueSame ==
  ASSUME UNCHANGED buffer
  PROVE  Queue' = Queue
BY DEF buffer, Queue

\* put_req puts the request behind all the others, also where the ring wraps.
LEMMA QueuePut ==
  ASSUME BufferInv, BufferInv', ProducerPut
  PROVE  Queue' = Append(Queue, req_d[Producer])
<1> DEFINE c == req_d[Producer]
           S == Clients \cup {NULL}
<1>1. /\ getPos \in 0 .. RingSize - 1 /\ available \in 0 .. RingSize - 1
      /\ c \in S /\ ring \in [0 .. RingSize - 1 -> S]
  BY RingAssumption DEF BufferInv, TypeOK, SlotStaysFree, ProducerPut, At, Threads
<1>2. getPos' = getPos /\ available' = available + 1 /\ ring' = [ring EXCEPT ![putPos] = c]
  BY DEF ProducerPut, put_req
<1>3. putPos = (getPos + available) % RingSize
  BY DEF BufferInv, PositionsAgree
<1>4. /\ Queue \in Seq(S) /\ Len(Queue) = available
      /\ Queue' \in Seq(S) /\ Len(Queue') = available + 1
  BY <1>2, QueueIsSeq, QueueIsSeqNext
<1>5. /\ Append(Queue, c) \in Seq(S) /\ Len(Append(Queue, c)) = available + 1
      /\ \A i \in 1 .. available : Append(Queue, c)[i] = Queue[i]
      /\ Append(Queue, c)[available + 1] = c
  BY <1>1, <1>4, AppendProperties
<1>6. ASSUME NEW i \in 1 .. available + 1 PROVE Queue'[i] = Append(Queue, c)[i]
  <2>1. Queue'[i] = ring'[(getPos + i - 1) % RingSize]
    BY <1>1, <1>2 DEF Queue
  <2>2. i - 1 \in 0 .. RingSize - 1 /\ getPos + i - 1 = getPos + (i - 1) /\ getPos + i - 1 \in Nat
    BY <1>1, RingAssumption
  <2>3. (getPos + i - 1) % RingSize \in 0 .. RingSize - 1
    BY <2>2, PositionRange
  <2>4. CASE i \in 1 .. available
    <3>1. (getPos + i - 1) % RingSize # putPos
      BY <1>1, <1>3, <2>2, <2>4, SlotsDiffer
    <3>2. Queue'[i] = ring[(getPos + i - 1) % RingSize]
      BY <1>1, <1>2, <2>1, <2>3, <3>1
    <3> QED
      BY <1>5, <2>4, <3>2 DEF Queue
  <2>5. CASE i = available + 1
    <3>1. getPos + i - 1 = getPos + available
      BY <1>1, <2>5
    <3>2. Queue'[i] = c
      BY <1>1, <1>2, <1>3, <2>1, <2>3, <3>1
    <3> QED
      BY <1>5, <2>5, <3>2
  <2>6. i \in 1 .. available \/ i = available + 1
    BY <1>1, RingAssumption
  <2> QED
    BY <2>4, <2>5, <2>6
<1> HIDE DEF c, S
<1>7. Queue' = Append(Queue, c)
  BY <1>4, <1>5, <1>6, SeqEqual
<1> QED
  BY <1>7 DEF c

\* get_req takes the oldest request, and it is there.
LEMMA QueueTake ==
  ASSUME BufferInv, BufferInv', NEW t \in Consumers, ConsumerGet(t)
  PROVE  /\ Queue # <<>> /\ Queue' = Tail(Queue)
         /\ req_d' = [req_d EXCEPT ![t] = Head(Queue)]
<1> DEFINE S == Clients \cup {NULL}
<1>1. getPos \in 0 .. RingSize - 1 /\ available \in 1 .. RingSize
  BY RingAssumption DEF BufferInv, TypeOK, ConsumerGet
<1>2. /\ ring' = ring /\ getPos' = (getPos + 1) % RingSize /\ available' = available - 1
      /\ req_d' = [req_d EXCEPT ![t] = ring[getPos]]
  BY DEF ConsumerGet, get_req
<1>3. /\ Queue \in Seq(S) /\ Len(Queue) = available
      /\ Queue' \in Seq(S) /\ Len(Queue') = available - 1
  BY <1>2, QueueIsSeq, QueueIsSeqNext
<1>4. Queue # <<>>
  BY <1>1, <1>3
<1>5. /\ Tail(Queue) \in Seq(S) /\ Len(Tail(Queue)) = available - 1
      /\ \A i \in 1 .. available - 1 : Tail(Queue)[i] = Queue[i + 1]
  BY <1>3, <1>4, HeadTailProperties
<1>6. ASSUME NEW i \in 1 .. available - 1 PROVE Queue'[i] = Tail(Queue)[i]
  <2>1. Queue'[i] = ring[(((getPos + 1) % RingSize) + i - 1) % RingSize]
    BY <1>1, <1>2 DEF Queue
  <2>2. (getPos + 1) % RingSize \in 0 .. RingSize - 1 /\ i - 1 \in 0 .. RingSize - 1
    BY <1>1, PositionStep, RingAssumption
  <2>3. (((getPos + 1) % RingSize) + (i - 1)) % RingSize = (getPos + (i - 1) + 1) % RingSize
    BY <1>1, <2>2, TakePosition
  <2>4. /\ ((getPos + 1) % RingSize) + i - 1 = ((getPos + 1) % RingSize) + (i - 1)
        /\ getPos + (i - 1) + 1 = getPos + (i + 1) - 1
    BY <1>1, <2>2
  <2>5. Queue[i + 1] = ring[(getPos + (i + 1) - 1) % RingSize]
    BY <1>1 DEF Queue
  <2> QED
    BY <1>5, <2>1, <2>3, <2>4, <2>5
<1>7. Queue' = Tail(Queue)
  <2> HIDE DEF S
  <2> QED
    BY <1>3, <1>5, <1>6, SeqEqual
<1>8. Head(Queue) = ring[getPos]
  <2>1. Head(Queue) = Queue[1]
    BY <1>3, <1>4
  <2>2. Queue[1] = ring[(getPos + 1 - 1) % RingSize]
    BY <1>1 DEF Queue
  <2>3. getPos + 1 - 1 = getPos /\ getPos % RingSize = getPos
    BY <1>1, PositionWraps, RingAssumption
  <2> QED
    BY <2>1, <2>2, <2>3
<1> QED
  BY <1>2, <1>4, <1>7, <1>8

-----------------------------------------------------------------------------
(* Where the requests are                                                  *)

\* The requests that are somewhere between their client and its answer.
Outstanding == (Range(socket) \cup Range(Queue) \cup {req_d[t] : t \in Threads}) \ {NULL}

\* A client has a place exactly when its request is outstanding.
LEMMA PlacesAreOutstanding ==
  \A c \in Clients : Places(c) = {} <=> c \notin Outstanding
<1> SUFFICES ASSUME NEW c \in Clients PROVE Places(c) = {} <=> c \notin Outstanding
  OBVIOUS
<1>1. {<<"socket", i>> : i \in {j \in DOMAIN socket : socket[j] = c}} = {} <=> c \notin Range(socket)
  BY DEF Range
<1>2. {<<"ring", i>> : i \in {j \in DOMAIN Queue : Queue[j] = c}} = {} <=> c \notin Range(Queue)
  BY DEF Range
<1>3. {<<"held", t>> : t \in {u \in Threads : req_d[u] = c}} = {} <=> c \notin {req_d[t] : t \in Threads}
  OBVIOUS
<1> QED
  BY <1>1, <1>2, <1>3, RingAssumption DEF Places, Outstanding

\* The socket holds requests of clients.
LEMMA SocketHoldsClients == BufferInv => NULL \notin Range(socket)
BY RangeOfSeq, RingAssumption DEF BufferInv, TypeOK

\* The server starts with no request.
LEMMA InitRequests == Init => RequestInv
<1> SUFFICES ASSUME Init PROVE RequestInv
  OBVIOUS
<1>1. BufferInv
  BY InitBuffer
<1>2. Range(socket) = {} /\ Range(Queue) = {} /\ DOMAIN socket = {} /\ DOMAIN Queue = {}
  BY <1>1, QueueIsSeq DEF Init, Range
<1>3. HeldInTurn
  BY <1>2, RingAssumption DEF Init, HeldInTurn, Threads
<1>4. SentOnce
  BY <1>2 DEF Init, SentOnce, IsInjective
<1>5. IdleSentNothing
  BY <1>2, RingAssumption DEF Init, IdleSentNothing, Places, Range
<1>6. ErrorNeedsFailedSend
  BY RingAssumption DEF Init, ErrorNeedsFailedSend, Threads
<1> QED
  BY <1>1, <1>3, <1>4, <1>5, <1>6 DEF RequestInv

\* The request of a client that was idle is nowhere else.
LEMMA CallSends ==
  ASSUME RequestInv, NEW c \in Clients, Call(c)
  PROVE  /\ HeldInTurn' /\ SentOnce'
         /\ c \notin Outstanding /\ Outstanding' = Outstanding \cup {c}
<1>1. /\ socket \in Seq(Clients) /\ socket' = Append(socket, c)
      /\ req_d' = req_d /\ pc' = pc /\ errno' = errno /\ Queue' = Queue
  BY QueueSame DEF RequestInv, BufferInv, TypeOK, Call
<1>2. c \notin Outstanding
  BY PlacesAreOutstanding DEF RequestInv, IdleSentNothing, Call
<1>3. c # NULL
  BY RingAssumption
<1>4. Range(socket') = Range(socket) \cup {c} /\ (c \notin Range(socket) /\ IsInjective(socket) => IsInjective(socket'))
  BY <1>1, RangeAppend
<1>5. Outstanding' = Outstanding \cup {c}
  BY <1>1, <1>3, <1>4 DEF Outstanding
<1>6. HeldInTurn'
  BY <1>1 DEF RequestInv, HeldInTurn
<1>7. SentOnce'
  BY <1>1, <1>2, <1>3, <1>4 DEF RequestInv, SentOnce, Outstanding
<1> QED
  BY <1>2, <1>5, <1>6, <1>7

\* get_req moves a request from the ring to the consumer.
LEMMA GetMoves ==
  ASSUME RequestInv, BufferInv', NEW t \in Consumers, ConsumerGet(t)
  PROVE  HeldInTurn' /\ SentOnce' /\ Outstanding' = Outstanding
<1>1. BufferInv
  BY DEF RequestInv
<1>2. /\ Queue # <<>> /\ Queue' = Tail(Queue)
      /\ req_d' = [req_d EXCEPT ![t] = Head(Queue)]
      /\ Queue \in Seq(Clients \cup {NULL})
  BY <1>1, QueueTake, QueueIsSeq
<1>3. /\ socket' = socket /\ errno' = errno
      /\ pc[t] = "get" /\ pc' = [pc EXCEPT ![t] = "serve"]
      /\ pc \in [Threads -> {"get", "serve", "check", "receive", "received", "put"}]
      /\ req_d \in [Threads -> Clients \cup {NULL}]
      /\ t \in Threads /\ t # Producer /\ Producer \in Threads
  BY RingAssumption DEF ConsumerGet, At, Goto, RequestInv, BufferInv, TypeOK, Threads
<1> DEFINE h == Head(Queue)
<1>4. /\ Range(Queue) = Range(Queue') \cup {h}
      /\ IsInjective(Queue') /\ h \notin Range(Queue')
  BY <1>2, RangeTail DEF RequestInv, SentOnce
<1>5. req_d[t] = NULL /\ h # NULL
  BY <1>3, <1>4 DEF RequestInv, HeldInTurn
<1> HIDE DEF h
<1>6. req_d'[t] = h /\ \A u \in Threads : u # t => req_d'[u] = req_d[u]
  BY <1>2, <1>3 DEF h
<1>7. Outstanding' = Outstanding
  BY <1>3, <1>4, <1>5, <1>6 DEF Outstanding
<1>8. HeldInTurn'
  BY <1>3, <1>4, <1>5, <1>6 DEF RequestInv, HeldInTurn, Threads
<1>9. SentOnce'
  <2>1. IsInjective(socket') /\ Range(socket') \cap Range(Queue') = {}
    BY <1>3, <1>4 DEF RequestInv, SentOnce
  <2>2. ASSUME NEW u \in Threads PROVE req_d'[u] \notin Range(socket') \cup Range(Queue')
    BY <1>3, <1>4, <1>6 DEF RequestInv, SentOnce
  <2>3. ASSUME NEW u \in Threads, NEW v \in Threads, req_d'[u] = req_d'[v], req_d'[u] # NULL
        PROVE  u = v
    BY <1>3, <1>4, <1>6, <2>3 DEF RequestInv, SentOnce
  <2> QED
    BY <1>4, <2>1, <2>2, <2>3 DEF SentOnce
<1> QED
  BY <1>7, <1>8, <1>9

\* put_req moves a request from the producer to the ring.
LEMMA PutMoves ==
  ASSUME RequestInv, BufferInv', ProducerPut
  PROVE  HeldInTurn' /\ SentOnce' /\ Outstanding' = Outstanding
<1> DEFINE c == req_d[Producer]
<1>1. /\ socket' = socket /\ errno' = errno /\ pc[Producer] = "put"
      /\ pc' = [pc EXCEPT ![Producer] = "check"]
      /\ req_d' = [req_d EXCEPT ![Producer] = NULL]
      /\ pc \in [Threads -> {"get", "serve", "check", "receive", "received", "put"}]
      /\ req_d \in [Threads -> Clients \cup {NULL}]
      /\ Producer \in Threads /\ Producer \notin Consumers
  BY RingAssumption DEF ProducerPut, At, Goto, RequestInv, BufferInv, TypeOK, Threads
<1>2. Queue' = Append(Queue, c) /\ Queue \in Seq(Clients \cup {NULL})
  BY QueuePut, QueueIsSeq DEF RequestInv
<1>3. c # NULL /\ c \in Clients \cup {NULL}
  BY <1>1 DEF RequestInv, HeldInTurn
<1>4. c \notin Range(Queue) /\ IsInjective(Queue)
  BY <1>1 DEF RequestInv, SentOnce
<1>5. Range(Queue') = Range(Queue) \cup {c} /\ IsInjective(Queue')
  BY <1>2, <1>3, <1>4, RangeAppend
<1>6. req_d'[Producer] = NULL /\ \A u \in Threads : u # Producer => req_d'[u] = req_d[u]
  BY <1>1
<1>7. req_d[Producer] = c
  OBVIOUS
<1> HIDE DEF c
<1>8. Outstanding' = Outstanding
  BY <1>1, <1>3, <1>5, <1>6, <1>7 DEF Outstanding
<1>9. HeldInTurn'
  <2>1. ASSUME NEW t \in Consumers PROVE req_d'[t] # NULL <=> pc'[t] = "serve"
    BY <1>1, <1>6 DEF RequestInv, HeldInTurn, Threads
  <2>2. NULL \notin Range(Queue')
    BY <1>3, <1>5 DEF RequestInv, HeldInTurn
  <2>3. pc'[Producer] = "check"
    BY <1>1
  <2> QED
    BY <1>6, <2>1, <2>2, <2>3 DEF HeldInTurn
<1>10. SentOnce'
  <2>1. NULL \notin Range(socket) \cup Range(Queue')
    BY <1>3, <1>5, SocketHoldsClients DEF RequestInv, HeldInTurn
  <2>2. Range(socket') \cap Range(Queue') = {}
    BY <1>1, <1>5, <1>7 DEF RequestInv, SentOnce
  <2>3. ASSUME NEW u \in Threads PROVE req_d'[u] \notin Range(socket') \cup Range(Queue')
    <3>1. CASE u = Producer
      BY <1>1, <1>6, <2>1, <3>1
    <3>2. CASE u # Producer
      BY <1>1, <1>3, <1>5, <1>6, <1>7, <3>2 DEF RequestInv, SentOnce
    <3> QED
      BY <3>1, <3>2
  <2>4. ASSUME NEW u \in Threads, NEW v \in Threads, req_d'[u] = req_d'[v], req_d'[u] # NULL
        PROVE  u = v
    BY <1>6, <2>4 DEF RequestInv, SentOnce
  <2> QED
    BY <1>1, <1>5, <2>2, <2>3, <2>4 DEF RequestInv, SentOnce
<1> QED
  BY <1>8, <1>9, <1>10

\* recvfrom moves the oldest datagram to the producer, if there is one.
LEMMA ReceiveMoves ==
  ASSUME RequestInv, Receive
  PROVE  /\ HeldInTurn' /\ SentOnce' /\ Outstanding' = Outstanding
         /\ errno' = "EAGAIN" \/ req_d'[Producer] # NULL
<1>1. /\ Queue' = Queue /\ pc[Producer] = "receive"
      /\ pc' = [pc EXCEPT ![Producer] = "received"]
      /\ pc \in [Threads -> {"get", "serve", "check", "receive", "received", "put"}]
      /\ req_d \in [Threads -> Clients \cup {NULL}]
      /\ socket \in Seq(Clients)
      /\ Producer \in Threads /\ Producer \notin Consumers
  BY RingAssumption, QueueSame DEF Receive, At, Goto, RequestInv, BufferInv, TypeOK, Threads
<1>2. req_d[Producer] = NULL
  BY <1>1 DEF RequestInv, HeldInTurn
<1>3. pc'[Producer] = "received" /\ \A t \in Consumers : pc'[t] = pc[t] /\ t \in Threads
  BY <1>1 DEF Threads
<1>4. CASE socket = <<>>
  <2>1. errno' = "EAGAIN" /\ socket' = socket /\ req_d' = req_d
    BY <1>4 DEF Receive
  <2>2. HeldInTurn'
    BY <1>1, <1>2, <1>3, <2>1 DEF RequestInv, HeldInTurn
  <2> QED
    BY <1>1, <2>1, <2>2 DEF RequestInv, SentOnce, Outstanding
<1>5. CASE socket # <<>>
  <2> DEFINE h == Head(socket)
  <2>1. /\ errno' = "0" /\ socket' = Tail(socket)
        /\ req_d' = [req_d EXCEPT ![Producer] = h]
        /\ h # NULL
    BY <1>1, <1>5, HeadTailProperties, RingAssumption DEF Receive
  <2>2. /\ Range(socket) = Range(socket') \cup {h}
        /\ IsInjective(socket') /\ h \notin Range(socket')
    BY <1>1, <1>5, <2>1, RangeTail DEF RequestInv, SentOnce
  <2>3. req_d'[Producer] = h /\ \A u \in Threads : u # Producer => req_d'[u] = req_d[u]
    BY <1>1, <2>1
  <2> HIDE DEF h
  <2>4. Outstanding' = Outstanding
    BY <1>1, <1>2, <2>1, <2>2, <2>3 DEF Outstanding
  <2>5. HeldInTurn'
    BY <1>1, <1>3, <2>1, <2>3 DEF RequestInv, HeldInTurn
  <2>6. SentOnce'
    <3>1. ASSUME NEW u \in Threads PROVE req_d'[u] \notin Range(socket') \cup Range(Queue')
      BY <1>1, <2>2, <2>3 DEF RequestInv, SentOnce
    <3>2. ASSUME NEW u \in Threads, NEW v \in Threads, req_d'[u] = req_d'[v], req_d'[u] # NULL
          PROVE  u = v
      BY <1>1, <2>2, <2>3, <3>2 DEF RequestInv, SentOnce
    <3> QED
      BY <1>1, <2>2, <3>1, <3>2 DEF RequestInv, SentOnce
  <2> QED
    BY <2>1, <2>3, <2>4, <2>5, <2>6
<1> QED
  BY <1>4, <1>5

\* A thread that lets go of its request leaves it nowhere.
LEMMA ReleaseDrops ==
  ASSUME RequestInv, NEW t \in Threads, req_d[t] # NULL,
         req_d' = [req_d EXCEPT ![t] = NULL], UNCHANGED <<socket, buffer>>
  PROVE  SentOnce' /\ Outstanding' = Outstanding \ {req_d[t]}
<1> DEFINE c == req_d[t]
<1>1. Queue' = Queue /\ socket' = socket
  BY QueueSame
<1>2. req_d'[t] = NULL /\ \A u \in Threads : u # t => req_d'[u] = req_d[u]
  BY DEF RequestInv, BufferInv, TypeOK
<1>3. /\ c \notin Range(socket) \cup Range(Queue)
      /\ \A u \in Threads : u # t => req_d[u] # c
  BY DEF RequestInv, SentOnce
<1>4. NULL \notin Range(socket) \cup Range(Queue)
  BY SocketHoldsClients DEF RequestInv, HeldInTurn
<1>5. Outstanding' = Outstanding \ {c}
  <2>1. ASSUME NEW x \in Outstanding' PROVE x \in Outstanding \ {c}
    BY <1>1, <1>2, <1>3, <2>1 DEF Outstanding
  <2>2. ASSUME NEW x \in Outstanding \ {c} PROVE x \in Outstanding'
    BY <1>1, <1>2, <1>3, <2>2 DEF Outstanding
  <2> QED
    BY <2>1, <2>2
<1>6. SentOnce'
  <2>1. ASSUME NEW u \in Threads PROVE req_d'[u] \notin Range(socket') \cup Range(Queue')
    BY <1>1, <1>2, <1>4 DEF RequestInv, SentOnce
  <2>2. ASSUME NEW u \in Threads, NEW v \in Threads, req_d'[u] = req_d'[v], req_d'[u] # NULL
        PROVE  u = v
    BY <1>2, <2>2 DEF RequestInv, SentOnce
  <2> QED
    BY <1>1, <2>1, <2>2 DEF RequestInv, SentOnce
<1> QED
  BY <1>5, <1>6

\* A consumer has done with a request once its answer was tried.
LEMMA ServeDrops ==
  ASSUME RequestInv, NEW t \in Consumers, ConsumerServe(t)
  PROVE  /\ HeldInTurn' /\ SentOnce' /\ Outstanding' = Outstanding \ {req_d[t]}
         /\ req_d[t] \in Clients
<1>1. /\ t \in Threads /\ Producer \in Threads /\ t # Producer /\ pc[t] = "serve"
      /\ pc' = [pc EXCEPT ![t] = "get"] /\ req_d' = [req_d EXCEPT ![t] = NULL]
      /\ errno' = "EAGAIN" => errno = "EAGAIN"
      /\ UNCHANGED <<socket, buffer>>
      /\ pc \in [Threads -> {"get", "serve", "check", "receive", "received", "put"}]
      /\ req_d \in [Threads -> Clients \cup {NULL}]
  BY RingAssumption DEF ConsumerServe, At, Goto, RequestInv, BufferInv, TypeOK, Threads
<1>2. req_d[t] # NULL /\ req_d[t] \in Clients
  BY <1>1 DEF RequestInv, HeldInTurn
<1>3. SentOnce' /\ Outstanding' = Outstanding \ {req_d[t]}
  BY <1>1, <1>2, ReleaseDrops
<1>4. HeldInTurn'
  BY <1>1, QueueSame DEF RequestInv, HeldInTurn, Threads
<1> QED
  BY <1>2, <1>3, <1>4

\* srv_recv_request hands on what it received, drops it when it is empty, or ends
\* the server when it received nothing.
LEMMA ReceiveEndMoves ==
  ASSUME RequestInv, ReceiveEnd
  PROVE  /\ HeldInTurn' /\ SentOnce'
         /\ \/ Outstanding' = Outstanding
            \/ /\ req_d[Producer] \in Clients /\ kind[req_d[Producer]] = "empty"
               /\ Outstanding' = Outstanding \ {req_d[Producer]}
<1>1. /\ Producer \in Threads /\ Producer \notin Consumers
      /\ pc[Producer] = "received" /\ errno' = "0"
      /\ UNCHANGED <<socket, buffer, kind>>
      /\ pc \in [Threads -> {"get", "serve", "check", "receive", "received", "put"}]
      /\ req_d \in [Threads -> Clients \cup {NULL}]
  BY RingAssumption DEF ReceiveEnd, At, clients, RequestInv, BufferInv, TypeOK, Threads
<1>2. Queue' = Queue
  BY <1>1, QueueSame
<1>3. CASE UNCHANGED <<pc, req_d>>
  <2>1. HeldInTurn'
    BY <1>1, <1>2, <1>3 DEF RequestInv, HeldInTurn
  <2>2. SentOnce' /\ Outstanding' = Outstanding
    BY <1>1, <1>2, <1>3 DEF RequestInv, SentOnce, Outstanding
  <2> QED
    BY <2>1, <2>2
<1>4. CASE /\ reqsz = "zero"
           /\ req_d' = [req_d EXCEPT ![Producer] = NULL] /\ Goto(Producer, "check")
  <2>1. req_d[Producer] # NULL /\ req_d[Producer] \in Clients /\ kind[req_d[Producer]] = "empty"
    BY <1>1, <1>4 DEF reqsz
  <2>2. SentOnce' /\ Outstanding' = Outstanding \ {req_d[Producer]}
    BY <1>1, <1>4, <2>1, ReleaseDrops
  <2>3. HeldInTurn'
    BY <1>1, <1>2, <1>4 DEF RequestInv, HeldInTurn, Goto, Threads
  <2> QED
    BY <2>1, <2>2, <2>3
<1>5. CASE reqsz = "some" /\ Goto(Producer, "put") /\ UNCHANGED req_d
  <2>1. req_d[Producer] # NULL
    BY <1>5 DEF reqsz
  <2>2. pc'[Producer] = "put" /\ \A t \in Consumers : pc'[t] = pc[t]
    BY <1>1, <1>5 DEF Goto
  <2>3. HeldInTurn'
    BY <1>1, <1>2, <1>5, <2>1, <2>2 DEF RequestInv, HeldInTurn
  <2> QED
    BY <1>1, <1>2, <1>5, <2>3 DEF RequestInv, SentOnce, Outstanding
<1>6. reqsz \in {"error", "zero", "some"}
  BY DEF reqsz
<1> QED
  BY <1>3, <1>4, <1>5, <1>6 DEF ReceiveEnd

\* What a step does to the requests that are outstanding.
LEMMA RequestSteps ==
  ASSUME RequestInv, BufferInv', Next
  PROVE  /\ HeldInTurn' /\ SentOnce'
         /\ \/ \E c \in Clients : /\ Call(c)
                                  /\ c \notin Outstanding /\ Outstanding' = Outstanding \cup {c}
            \/ \E c \in Clients : Die(c) /\ Outstanding' = Outstanding
            \/ \E t \in Consumers : /\ ConsumerServe(t) /\ req_d[t] \in Clients
                                    /\ Outstanding' = Outstanding \ {req_d[t]}
            \/ /\ ReceiveEnd /\ req_d[Producer] \in Clients /\ kind[req_d[Producer]] = "empty"
               /\ Outstanding' = Outstanding \ {req_d[Producer]}
            \/ UNCHANGED clients /\ Outstanding' = Outstanding
<1> DEFINE Same == HeldInTurn' /\ SentOnce' /\ Outstanding' = Outstanding
<1>1. ASSUME NEW c \in Clients, Die(c) PROVE Same
  BY <1>1, QueueSame DEF Die, RequestInv, HeldInTurn, SentOnce, Outstanding
<1>2. ASSUME NEW t \in Consumers, ConsumerWait(t) PROVE Same /\ UNCHANGED clients
  BY <1>2, QueueSame DEF ConsumerWait, RequestInv, HeldInTurn, SentOnce, Outstanding
<1>3. ASSUME NEW t \in Consumers, ConsumerGet(t) PROVE Same /\ UNCHANGED clients
  BY <1>3, GetMoves DEF ConsumerGet
<1>4. ASSUME NEW t \in Threads, SpuriousWakeup(t) PROVE Same /\ UNCHANGED clients
  BY <1>4, QueueSame DEF SpuriousWakeup, RequestInv, HeldInTurn, SentOnce, Outstanding
<1>5. CASE ProducerWait
  <2>1. Same /\ UNCHANGED clients
    BY <1>5, QueueSame DEF ProducerWait, RequestInv, HeldInTurn, SentOnce, Outstanding
  <2> QED
    BY <2>1
<1>6. CASE ProducerCheck \/ ReceiveAgain
  <2>1. /\ UNCHANGED <<clients, socket, buffer, req_d>>
        /\ errno' \in {errno, "0"} /\ pc[Producer] \in {"check", "received"}
        /\ pc' = [pc EXCEPT ![Producer] = "receive"]
        /\ Producer \notin Consumers /\ Producer \in Threads
        /\ pc \in [Threads -> {"get", "serve", "check", "receive", "received", "put"}]
    BY <1>6, RingAssumption
    DEF ProducerCheck, ReceiveAgain, At, Goto, Threads, RequestInv, BufferInv, TypeOK
  <2>2. req_d[Producer] = NULL
    BY <1>6 DEF ProducerCheck, ReceiveAgain, At, RequestInv, HeldInTurn
  <2>3. HeldInTurn'
    BY <2>1, <2>2, QueueSame DEF RequestInv, HeldInTurn, Threads
  <2> QED
    BY <2>1, <2>3, QueueSame DEF RequestInv, SentOnce, Outstanding
<1>7. CASE Receive
  BY <1>7, ReceiveMoves DEF Receive
<1>8. CASE ReceiveEnd
  BY <1>8, ReceiveEndMoves DEF ReceiveEnd
<1>9. CASE ProducerPut
  BY <1>9, PutMoves DEF ProducerPut
<1> QED
  BY <1>1, <1>2, <1>3, <1>4, <1>5, <1>6, <1>7, <1>8, <1>9, CallSends, ServeDrops
  DEF Next, Consume, Produce

\* A client has a place after a step exactly when its request is outstanding then.
LEMMA PlacesAreOutstandingNext ==
  (\A c \in Clients : Places(c) = {} <=> c \notin Outstanding)'
BY PlacesAreOutstanding, PTL

\* A client is idle again only when its request is gone.
LEMMA IdleStep ==
  ASSUME RequestInv, BufferInv', Next
  PROVE  IdleSentNothing'
<1> SUFFICES ASSUME NEW x \in Clients, client'[x] = "idle" PROVE x \notin Outstanding'
  BY PlacesAreOutstandingNext DEF IdleSentNothing
<1>1. client[x] = "idle" => x \notin Outstanding
  BY PlacesAreOutstanding DEF RequestInv, IdleSentNothing
<1>2. client \in [Clients -> {"idle", "calling", "dead"}]
  BY DEF RequestInv, BufferInv, TypeOK
<1>3. ASSUME NEW c \in Clients, Call(c), Outstanding' = Outstanding \cup {c}
      PROVE  x \notin Outstanding'
  BY <1>1, <1>2, <1>3 DEF Call
<1>4. ASSUME NEW c \in Clients, Die(c), Outstanding' = Outstanding
      PROVE  x \notin Outstanding'
  BY <1>1, <1>2, <1>4 DEF Die
<1>5. ASSUME NEW t \in Consumers, ConsumerServe(t), req_d[t] \in Clients,
             Outstanding' = Outstanding \ {req_d[t]}
      PROVE  x \notin Outstanding'
  BY <1>1, <1>2, <1>5 DEF ConsumerServe
<1>6. ASSUME ReceiveEnd, Outstanding' = Outstanding \ {req_d[Producer]}
      PROVE  x \notin Outstanding'
  BY <1>1, <1>6 DEF ReceiveEnd, clients
<1>7. ASSUME UNCHANGED clients, Outstanding' = Outstanding
      PROVE  x \notin Outstanding'
  BY <1>1, <1>7 DEF clients
<1> QED
  BY <1>3, <1>4, <1>5, <1>6, <1>7, RequestSteps

\* What failed once stays failed: the dead stay dead, and who was refused an
\* answer waits for it.
LEMMA FailureStays ==
  ASSUME RequestInv, BufferInv', Next, SendFailed
  PROVE  SendFailed'
<1>1. PICK x \in Clients :
        client[x] = "dead" \/ (client[x] = "calling" /\ kind[x] = "defrag" /\ x \notin Outstanding)
  BY PlacesAreOutstanding DEF SendFailed
<1>2. SUFFICES \/ client'[x] = "dead"
               \/ client'[x] = "calling" /\ kind'[x] = "defrag" /\ x \notin Outstanding'
  BY PlacesAreOutstandingNext DEF SendFailed
<1>3. client \in [Clients -> {"idle", "calling", "dead"}] /\ kind \in [Clients -> Kinds]
  BY DEF RequestInv, BufferInv, TypeOK
<1> DEFINE Fails == \/ client'[x] = "dead"
                    \/ client'[x] = "calling" /\ kind'[x] = "defrag" /\ x \notin Outstanding'
<1>4. ASSUME NEW c \in Clients, Call(c), Outstanding' = Outstanding \cup {c} PROVE Fails
  BY <1>1, <1>3, <1>4 DEF Call
<1>5. ASSUME NEW c \in Clients, Die(c), Outstanding' = Outstanding PROVE Fails
  BY <1>1, <1>3, <1>5 DEF Die
<1>6. ASSUME NEW t \in Consumers, ConsumerServe(t), req_d[t] \in Clients,
             Outstanding' = Outstanding \ {req_d[t]}
      PROVE  Fails
  <2>1. CASE x = req_d[t]
    <3>1. req_d[t] \in Outstanding
      BY <1>6, RingAssumption DEF Outstanding, Threads
    <3>2. client[x] = "dead"
      BY <1>1, <2>1, <3>1
    <3>3. PICK ok \in BOOLEAN :
            Sent(t, ok) /\ client' = IF ok THEN [client EXCEPT ![req_d[t]] = "idle"] ELSE client
      BY <1>6 DEF ConsumerServe
    <3> QED
      BY <2>1, <3>2, <3>3 DEF Sent
  <2>2. CASE x # req_d[t]
    <3>1. client'[x] = client[x] /\ kind'[x] = kind[x]
      BY <1>3, <1>6, <2>2 DEF ConsumerServe
    <3> QED
      BY <1>1, <1>6, <3>1
  <2> QED
    BY <2>1, <2>2
<1>7. ASSUME ReceiveEnd, Outstanding' = Outstanding \ {req_d[Producer]} PROVE Fails
  BY <1>1, <1>7 DEF ReceiveEnd, clients
<1>8. ASSUME UNCHANGED clients, Outstanding' = Outstanding PROVE Fails
  BY <1>1, <1>8 DEF clients
<1> QED
  BY <1>2, <1>4, <1>5, <1>6, <1>7, <1>8, RequestSteps

\* A sendto that fails leaves its client dead, or waiting for the answer to a
\* defragmentation that will not come.
LEMMA FailureShows ==
  ASSUME RequestInv, BufferInv', NEW t \in Consumers, ConsumerServe(t), errno' # errno
  PROVE  ~native /\ SendFailed'
<1> DEFINE c == req_d[t]
<1>1. PICK ok \in BOOLEAN :
        /\ Sent(t, ok)
        /\ client' = IF ok THEN [client EXCEPT ![c] = "idle"] ELSE client
        /\ errno' = IF ok \/ native \/ pc[Producer] # "received" THEN errno ELSE "ECONNREFUSED"
  BY DEF ConsumerServe
<1>2. ~ok /\ ~native /\ client' = client
  BY <1>1
<1>3. c \in Clients /\ Outstanding' = Outstanding \ {c} /\ c \in Outstanding
  BY ServeDrops, RingAssumption DEF Outstanding, Threads
<1>4. client[c] \in {"calling", "dead"}
  BY <1>3, PlacesAreOutstanding DEF RequestInv, IdleSentNothing, BufferInv, TypeOK
<1>5. client[c] = "calling" => kind'[c] = "defrag"
  BY <1>1, <1>2, <1>3 DEF Sent, ConsumerServe, RequestInv, BufferInv, TypeOK
<1>6. c \notin Outstanding'
  BY <1>3
<1> QED
  BY <1>2, <1>3, <1>4, <1>5, <1>6, PlacesAreOutstandingNext DEF SendFailed

\* errno changes under the producer only through a sendto that failed.
LEMMA ErrorStep ==
  ASSUME RequestInv, BufferInv', Next
  PROVE  ErrorNeedsFailedSend'
<1> SUFFICES ASSUME pc'[Producer] = "received", req_d'[Producer] = NULL, errno' # "EAGAIN"
             PROVE  ~native' /\ SendFailed'
  BY DEF ErrorNeedsFailedSend
<1>1. /\ pc \in [Threads -> {"get", "serve", "check", "receive", "received", "put"}]
      /\ req_d \in [Threads -> Clients \cup {NULL}]
      /\ Producer \in Threads /\ Producer \notin Consumers
  BY RingAssumption DEF RequestInv, BufferInv, TypeOK, Threads
<1>2. native' = native
  BY DEF Next, Call, Die, Consume, ConsumerWait, ConsumerGet, ConsumerServe, SpuriousWakeup,
         Produce, ProducerWait, ProducerCheck, Receive, ReceiveAgain, ReceiveEnd, ProducerPut
<1>3. ASSUME pc[Producer] = "received", req_d[Producer] = NULL, errno # "EAGAIN"
      PROVE  ~native' /\ SendFailed'
  BY <1>2, <1>3, FailureStays DEF RequestInv, ErrorNeedsFailedSend
<1>4. ASSUME NEW c \in Clients, Call(c) \/ Die(c) PROVE ~native' /\ SendFailed'
  BY <1>3, <1>4 DEF Call, Die
<1>5. ASSUME NEW t \in Consumers, ConsumerWait(t) \/ ConsumerGet(t) PROVE ~native' /\ SendFailed'
  BY <1>1, <1>3, <1>5 DEF ConsumerWait, ConsumerGet, get_req, Goto
<1>6. ASSUME NEW t \in Consumers, ConsumerServe(t) PROVE ~native' /\ SendFailed'
  <2>1. pc[Producer] = "received" /\ req_d[Producer] = NULL
    BY <1>1, <1>6 DEF ConsumerServe, Goto
  <2>2. CASE errno' = errno
    BY <1>3, <2>1, <2>2
  <2>3. CASE errno' # errno
    BY <1>2, <1>6, <2>3, FailureShows
  <2> QED
    BY <2>2, <2>3
<1>7. ASSUME NEW t \in Threads, SpuriousWakeup(t) PROVE ~native' /\ SendFailed'
  BY <1>3, <1>7 DEF SpuriousWakeup
<1>8. CASE ProducerWait
  BY <1>3, <1>8 DEF ProducerWait
<1>9. CASE ProducerCheck \/ ReceiveAgain \/ ProducerPut
  BY <1>1, <1>9 DEF ProducerCheck, ReceiveAgain, ProducerPut, Goto
<1>10. CASE Receive
  BY <1>10, ReceiveMoves DEF RequestInv
<1>11. CASE ReceiveEnd
  <2>1. pc[Producer] = "received" /\ errno # "EAGAIN"
    BY <1>11 DEF ReceiveEnd, At
  <2>2. UNCHANGED <<pc, req_d>>
    <3>1. ASSUME Goto(Producer, "check") \/ Goto(Producer, "put") PROVE FALSE
      BY <1>1, <3>1 DEF Goto
    <3>2. reqsz \in {"error", "zero", "some"}
      BY DEF reqsz
    <3> QED
      BY <1>11, <3>1, <3>2 DEF ReceiveEnd
  <2> QED
    BY <1>3, <2>1, <2>2
<1> QED
  BY <1>4, <1>5, <1>6, <1>7, <1>8, <1>9, <1>10, <1>11 DEF Next, Consume, Produce

-----------------------------------------------------------------------------
(* What the server promises about requests                                 *)

\* Every step keeps each request in one place.
LEMMA RequestStep == RequestInv /\ [Next]_vars => RequestInv'
<1> SUFFICES ASSUME RequestInv, [Next]_vars PROVE RequestInv'
  OBVIOUS
<1>1. BufferInv'
  BY BufferStep DEF RequestInv
<1>2. CASE Next
  BY <1>1, <1>2, RequestSteps, IdleStep, ErrorStep DEF RequestInv
<1>3. CASE UNCHANGED vars
  <2>1. Queue' = Queue
    BY <1>3, QueueSame DEF vars, buffer
  <2>2. HeldInTurn' /\ SentOnce'
    BY <1>3, <2>1 DEF vars, RequestInv, HeldInTurn, SentOnce
  <2>3. \A c \in Clients : Places(c)' = Places(c)
    BY <1>3, <2>1 DEF vars, Places
  <2>4. IdleSentNothing' /\ ErrorNeedsFailedSend'
    BY <1>3, <2>3 DEF vars, clients, RequestInv, IdleSentNothing, ErrorNeedsFailedSend, SendFailed
  <2> QED
    BY <1>1, <2>2, <2>4 DEF RequestInv
<1> QED
  BY <1>2, <1>3

\* A request is in the socket, in the ring or with one thread; a client that is idle
\* has none; and errno tells the producer of an error that recvfrom did not
\* have only after a failed sendto.
THEOREM RequestsCorrect == Spec => []RequestInv
BY InitRequests, RequestStep, PTL DEF Spec

\* The places of c in a sequence of kind n, as in Places.
PlacesIn(n, s, c) == {<<n, i>> : i \in {j \in DOMAIN s : s[j] = c}}

\* A sequence without repetitions has a value at one place at most.
LEMMA OnePlace ==
  ASSUME NEW n, NEW s, IsInjective(s), NEW c
  PROVE  \/ PlacesIn(n, s, c) = {} /\ c \notin Range(s)
         \/ \E e : PlacesIn(n, s, c) = {e} /\ c \in Range(s)
<1>1. CASE c \notin Range(s)
  BY <1>1 DEF Range, PlacesIn
<1>2. CASE c \in Range(s)
  <2>1. PICK i \in DOMAIN s : s[i] = c
    BY <1>2 DEF Range
  <2>2. {j \in DOMAIN s : s[j] = c} = {i}
    BY <2>1 DEF IsInjective
  <2>3. PlacesIn(n, s, c) = {<<n, i>>}
    BY <2>2 DEF PlacesIn
  <2> QED
    BY <1>2, <2>3
<1> QED
  BY <1>1, <1>2

\* No request is in two places.
LEMMA OnePlaceEach == RequestInv => \A c \in Clients : Cardinality(Places(c)) <= 1
<1> SUFFICES ASSUME RequestInv, NEW c \in Clients PROVE Cardinality(Places(c)) <= 1
  OBVIOUS
<1> DEFINE S == PlacesIn("socket", socket, c)
           R == PlacesIn("ring", Queue, c)
           H == {<<"held", t>> : t \in {u \in Threads : req_d[u] = c}}
<1>1. (S = {} /\ c \notin Range(socket)) \/ \E e : S = {e} /\ c \in Range(socket)
  <2>1. IsInjective(socket)
    BY DEF RequestInv, SentOnce
  <2> QED
    BY <2>1, OnePlace
<1>2. (R = {} /\ c \notin Range(Queue)) \/ \E e : R = {e} /\ c \in Range(Queue)
  <2>1. IsInjective(Queue)
    BY DEF RequestInv, SentOnce
  <2> QED
    BY <2>1, OnePlace
<1>3. H = {} \/ \E t \in Threads : H = {<<"held", t>>} /\ req_d[t] = c
  <2>1. CASE \A t \in Threads : req_d[t] # c
    BY <2>1
  <2>2. CASE \E t \in Threads : req_d[t] = c
    <3>1. PICK t \in Threads : req_d[t] = c
      BY <2>2
    <3>2. {u \in Threads : req_d[u] = c} = {t}
      BY <3>1, RingAssumption DEF RequestInv, SentOnce
    <3>3. H = {<<"held", t>>}
      BY <3>2
    <3> QED
      BY <3>1, <3>3
  <2> QED
    BY <2>1, <2>2
<1>4. Range(socket) \cap Range(Queue) = {} /\ \A t \in Threads : req_d[t] \notin Range(socket) \cup Range(Queue)
  BY DEF RequestInv, SentOnce
<1>5. Places(c) = S \cup R \cup H
  BY DEF Places, PlacesIn
<1> HIDE DEF S, R, H
<1>6. Places(c) = {} \/ \E e : Places(c) = {e}
  BY <1>1, <1>2, <1>3, <1>4, <1>5
<1>7. CASE Places(c) = {}
  <2>1. Cardinality(Places(c)) = 0
    BY <1>7, FS_EmptySet
  <2> QED
    BY <2>1
<1>8. ASSUME NEW e, Places(c) = {e} PROVE Cardinality(Places(c)) <= 1
  <2>1. Cardinality({e}) = 1
    BY FS_Singleton
  <2> QED
    BY <1>8, <2>1
<1> QED
  BY <1>6, <1>7, <1>8

\* A client that waits for an answer has a place after a step if it had one,
\* or did not wait.
LEMMA PlainKept ==
  ASSUME RequestInv, BufferInv', Next,
         NEW x \in Clients, client[x] = "calling" /\ kind[x] = "plain" => x \in Outstanding,
         client'[x] = "calling", kind'[x] = "plain"
  PROVE  x \in Outstanding'
<1>1. client \in [Clients -> {"idle", "calling", "dead"}] /\ kind \in [Clients -> Kinds]
  BY DEF RequestInv, BufferInv, TypeOK
<1>2. ASSUME NEW c \in Clients, Call(c), Outstanding' = Outstanding \cup {c}
      PROVE  x \in Outstanding'
  BY <1>1, <1>2 DEF Call
<1>3. ASSUME NEW c \in Clients, Die(c), Outstanding' = Outstanding
      PROVE  x \in Outstanding'
  BY <1>1, <1>3 DEF Die
<1>4. ASSUME NEW t \in Consumers, ConsumerServe(t), req_d[t] \in Clients,
             Outstanding' = Outstanding \ {req_d[t]}
      PROVE  x \in Outstanding'
  <2>1. PICK ok \in BOOLEAN :
          Sent(t, ok) /\ client' = IF ok THEN [client EXCEPT ![req_d[t]] = "idle"] ELSE client
    BY <1>4 DEF ConsumerServe
  <2>2. kind' = [kind EXCEPT ![req_d[t]] = IF client'[req_d[t]] = "calling" THEN @ ELSE "plain"]
    BY <1>4 DEF ConsumerServe
  <2>3. x # req_d[t]
    BY <1>1, <1>4, <2>1, <2>2 DEF Sent
  <2>4. client'[x] = client[x] /\ kind'[x] = kind[x]
    BY <1>1, <2>1, <2>2, <2>3
  <2> QED
    BY <1>4, <2>3, <2>4
<1>5. ASSUME ReceiveEnd, kind[req_d[Producer]] = "empty",
             Outstanding' = Outstanding \ {req_d[Producer]}
      PROVE  x \in Outstanding'
  BY <1>5 DEF ReceiveEnd, clients
<1>6. ASSUME UNCHANGED clients, Outstanding' = Outstanding
      PROVE  x \in Outstanding'
  BY <1>6 DEF clients
<1> QED
  BY <1>2, <1>3, <1>4, <1>5, <1>6, RequestSteps

\* Neither the ring nor the threads lose a request or serve it twice: the request
\* of a client that waits for an ordinary answer is in exactly one place.
THEOREM NothingIsLost == Spec => []NothingLost
<1> DEFINE Kept == \A c \in Clients : client[c] = "calling" /\ kind[c] = "plain" => c \in Outstanding
<1>1. Init => Kept
  BY DEF Init
<1>2. RequestInv /\ RequestInv' /\ Kept /\ [Next]_vars => Kept'
  <2> SUFFICES ASSUME RequestInv, RequestInv', Kept, [Next]_vars PROVE Kept'
    OBVIOUS
  <2>1. CASE Next
    BY <2>1, PlainKept DEF RequestInv
  <2>2. CASE UNCHANGED vars
    <3>1. Queue' = Queue
      BY <2>2, QueueSame DEF vars, buffer
    <3>2. Outstanding' = Outstanding
      BY <2>2, <3>1 DEF vars, Outstanding
    <3> QED
      BY <2>2, <3>2 DEF vars
  <2> QED
    BY <2>1, <2>2
<1>3. RequestInv /\ Kept => NothingLost
  BY OnePlaceEach, PlacesAreOutstanding DEF NothingLost
<1> HIDE DEF Kept
<1> QED
  BY <1>1, <1>2, <1>3, RequestsCorrect, PTL DEF Spec

\* The server ends itself only in the build where threads share errno, after a sendto
\* that failed for a client that died or for an answer whose size nobody set.
THEOREM ExitHasCause == Spec => []ExitNeedsFailedSend
<1>1. Init => ExitNeedsFailedSend
  BY DEF Init, ExitNeedsFailedSend
<1>2. RequestInv /\ RequestInv' /\ ExitNeedsFailedSend /\ [Next]_vars => ExitNeedsFailedSend'
  <2> SUFFICES ASSUME RequestInv, RequestInv', ExitNeedsFailedSend, [Next]_vars
               PROVE  ExitNeedsFailedSend'
    OBVIOUS
  <2>1. CASE UNCHANGED vars
    <3>1. Queue' = Queue
      BY <2>1, QueueSame DEF vars, buffer
    <3>2. \A c \in Clients : Places(c)' = Places(c)
      BY <2>1, <3>1 DEF vars, Places
    <3> QED
      BY <2>1, <3>2 DEF vars, ExitNeedsFailedSend, SendFailed
  <2>2. CASE Next /\ status' = "exited"
    <3>1. ReceiveEnd /\ status = "running"
      BY <2>2
      DEF Next, Running, Call, Die, Consume, ConsumerWait, ConsumerGet, ConsumerServe, SpuriousWakeup,
          Produce, ProducerWait, ProducerCheck, Receive, ReceiveAgain, ProducerPut
    <3>2. reqsz = "error" /\ pc[Producer] = "received" /\ errno # "EAGAIN" /\ native' = native
      BY <2>2, <3>1 DEF ReceiveEnd, At, reqsz
    <3>3. ~native /\ SendFailed
      BY <3>2 DEF RequestInv, ErrorNeedsFailedSend, reqsz
    <3> QED
      BY <2>2, <3>2, <3>3, FailureStays DEF RequestInv, ExitNeedsFailedSend
  <2> QED
    BY <2>1, <2>2 DEF ExitNeedsFailedSend
<1> QED
  BY <1>1, <1>2, RequestsCorrect, PTL DEF Spec

\* The ring of either build is a first-in first-out channel of RING_SIZE requests,
\* put and taken in the order of arrival although get_req and put_req keep their
\* positions apart.
THEOREM RingIsChannel == Spec => ImplementsChannel
<1>1. Init => Channel!Init
  <2> SUFFICES ASSUME Init PROVE Queue = <<>>
    BY DEF Channel!Init
  <2>1. BufferInv /\ available = 0
    BY InitBuffer DEF Init
  <2>2. Queue \in Seq(Clients \cup {NULL}) /\ Len(Queue) = 0
    BY <2>1, QueueIsSeq
  <2> QED
    BY <2>2, EmptySeq
<1>2. RequestInv /\ RequestInv' /\ [Next]_vars => [Channel!Next]_Queue
  <2> SUFFICES ASSUME RequestInv, RequestInv', Next, Queue' # Queue PROVE Channel!Next
    BY QueueSame DEF vars, buffer
  <2>1. ProducerPut \/ \E t \in Consumers : ConsumerGet(t)
    BY QueueSame
    DEF Next, Call, Die, Consume, ConsumerWait, ConsumerServe, SpuriousWakeup,
        Produce, ProducerWait, ProducerCheck, Receive, ReceiveAgain, ReceiveEnd
  <2>2. CASE ProducerPut
    <3>1. req_d[Producer] \in Clients
      BY <2>2 DEF ProducerPut, At, RequestInv, HeldInTurn, BufferInv, TypeOK, Threads
    <3>2. Len(Queue) < RingSize
      BY <2>2, QueueIsSeq DEF ProducerPut, At, RequestInv, BufferInv, SlotStaysFree
    <3> QED
      BY <2>2, <3>1, <3>2, QueuePut DEF RequestInv, Channel!Next, Channel!Put
  <2>3. ASSUME NEW t \in Consumers, ConsumerGet(t) PROVE Channel!Next
    BY <2>3, QueueTake DEF RequestInv, Channel!Next, Channel!Take
  <2> QED
    BY <2>1, <2>2, <2>3
<1> QED
  BY <1>1, <1>2, RequestsCorrect, PTL DEF Spec, ImplementsChannel, Channel!Spec
=============================================================================
