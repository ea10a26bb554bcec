---------------------------- MODULE RequestRing -----------------------------
(***************************************************************************)
(* The server's main loop, server.c: one producer thread takes datagrams   *)
(* from the socket into a ring of requests, consumer threads take them     *)
(* from the ring, run the handler and send the answer.  All of them share  *)
(* one monitor.  What runs between entering the monitor and leaving it or  *)
(* waiting in it is one step (module Monitors shows that the monitor       *)
(* allows no other).                                                       *)
(*                                                                         *)
(* A client has at most one call outstanding (remote_call in snfs_api.c    *)
(* blocks for the answer), so its name stands for its request.  The        *)
(* program is built over pthreads or over the user-level threads; the      *)
(* variable "native" is the build, chosen at the start.                    *)
(***************************************************************************)
EXTENDS Naturals, Sequences, FiniteSets, Functions

CONSTANTS
  Clients,      \* processes linked with the client library
  Consumers,    \* NUM_TC consumer threads
  Producer,     \* the one producer thread
  RingSize,     \* RING_SIZE
  Calls,        \* the kinds of request each client makes
  Mortal,       \* the clients that may die
  NULL

ASSUME RingAssumption ==
  /\ RingSize \in Nat \ {0}
  /\ Producer \notin Consumers
  /\ NULL \notin Clients
  /\ Calls \in [Clients -> SUBSET {"plain", "defrag", "empty"}]
  /\ Mortal \subseteq Clients

VARIABLES
  native,       \* TRUE when built over pthreads
  status,       \* "running", or "exited" after exit(-1)
  client,       \* what each client does: "idle", "calling" or "dead"
  kind,         \* the kind of each client's last request
  socket,       \* datagrams not yet received, oldest first
  ring,         \* slots 0 .. RingSize - 1
  getPos,       \* pos of get_req
  putPos,       \* pos of put_req
  available,    \* available_reqs
  waiters,      \* threads inside sthread_monitor_wait
  pc,           \* control point of each thread
  req_d,        \* request each thread holds
  errno,        \* errno as the producer reads it after recvfrom ("0" elsewhere:
                \* my_recvfrom clears it before each call)
  ressz         \* consumers whose variable ressz has been assigned

vars == <<native, status, client, kind, socket, ring, getPos, putPos, available,
          waiters, pc, req_d, errno, ressz>>

buffer == <<ring, getPos, putPos, available>>
clients == <<client, kind>>

Threads == Consumers \cup {Producer}

\* A handler that sets the size of its answer, or an unknown type; the
\* handler that does not set it; and a datagram without bytes.
Kinds == {"plain", "defrag", "empty"}

Init ==
  /\ native \in BOOLEAN
  /\ status = "running"
  /\ client = [c \in Clients |-> "idle"]
  /\ kind = [c \in Clients |-> "plain"]
  /\ socket = <<>>
  /\ ring = [i \in 0 .. RingSize - 1 |-> NULL]
  /\ getPos = 0 /\ putPos = 0 /\ available = 0
  /\ waiters = {}
  /\ pc = [t \in Threads |-> IF t = Producer THEN "check" ELSE "get"]
  /\ req_d = [t \in Threads |-> NULL]
  /\ errno = "0"
  /\ ressz = {}

-----------------------------------------------------------------------------
(* Clients                                                                 *)

Call(c) ==
  /\ client[c] = "idle"
  /\ \E k \in Calls[c] : kind' = [kind EXCEPT ![c] = k]
  /\ client' = [client EXCEPT ![c] = "calling"]
  /\ socket' = Append(socket, c)
  /\ UNCHANGED <<native, status, buffer, waiters, pc, req_d, errno, ressz>>

Die(c) ==
  /\ c \in Mortal /\ client[c] # "dead"
  /\ client' = [client EXCEPT ![c] = "dead"]
  /\ UNCHANGED <<native, status, kind, socket, buffer, waiters, pc, req_d, errno, ressz>>

-----------------------------------------------------------------------------
(* The buffer and its monitor                                              *)

get_req(t) ==
  /\ req_d' = [req_d EXCEPT ![t] = ring[getPos]]
  /\ getPos' = (getPos + 1) % RingSize
  /\ UNCHANGED <<ring, putPos>>

\* put_req without the wrap of its position in step with get_req.
PutAhead(c) ==
  /\ ring' = [ring EXCEPT ![(putPos + 1) % RingSize] = c]
  /\ putPos' = (putPos + 1) % RingSize
  /\ UNCHANGED getPos

put_req(c) ==
  /\ ring' = [ring EXCEPT ![putPos] = c]
  /\ putPos' = (putPos + 1) % RingSize
  /\ UNCHANGED getPos

\* sthread_monitor_signal: one waiter, any of them, leaves the wait.
SignalOne == IF waiters = {} THEN UNCHANGED waiters
                             ELSE \E w \in waiters : waiters' = waiters \ {w}

SignalAll == waiters' = {}

Wait(t) == waiters' = waiters \cup {t}

\* A pthread condition may wake a waiter that nobody signalled.
SpuriousWakeup(t) ==
  /\ native /\ t \in waiters
  /\ waiters' = waiters \ {t}
  /\ UNCHANGED <<native, status, clients, socket, buffer, pc, req_d, errno, ressz>>

At(t, p) == pc[t] = p /\ t \notin waiters
Goto(t, p) == pc' = [pc EXCEPT ![t] = p]

-----------------------------------------------------------------------------
(* thread_consumer                                                         *)

ConsumerWait(t) ==
  /\ At(t, "get") /\ available = 0
  /\ Wait(t)
  /\ UNCHANGED <<native, status, clients, socket, buffer, pc, req_d, errno, ressz>>

\* The consumer forgets to signal the producer.
ConsumerGetSilent(t) ==
  /\ At(t, "get") /\ available # 0
  /\ get_req(t)
  /\ available' = available - 1
  /\ Goto(t, "serve")
  /\ UNCHANGED <<native, status, clients, socket, waiters, errno, ressz>>

ConsumerGet(t) ==
  /\ At(t, "get") /\ available # 0
  /\ get_req(t)
  /\ available' = available - 1
  /\ SignalOne
  /\ Goto(t, "serve")
  /\ UNCHANGED <<native, status, clients, socket, errno, ressz>>

\* Whether sendto succeeds: the client must be there and the size assigned;
\* the size nobody assigned may be one that sendto takes or not.
Sent(t, ok) ==
  LET c == req_d[t]
  IN  IF client[c] = "dead" THEN ~ok
      ELSE (kind[c] = "defrag" /\ t \notin ressz) \/ ok

\* The handler, srv_send_response and free.  A failed sendto writes errno,
\* which the user-level threads share.
ConsumerServe(t) ==
  LET c == req_d[t]
  IN
  /\ At(t, "serve")
  /\ ressz' = IF kind[c] = "defrag" THEN ressz ELSE ressz \cup {t}
  /\ \E ok \in BOOLEAN :
       /\ Sent(t, ok)
       /\ client' = IF ok THEN [client EXCEPT ![c] = "idle"] ELSE client
       /\ errno' = IF ok \/ native \/ pc[Producer] # "received"
                    THEN errno ELSE "ECONNREFUSED"
  /\ kind' = [kind EXCEPT ![c] = IF client'[c] = "calling" THEN @ ELSE "plain"]
  /\ req_d' = [req_d EXCEPT ![t] = NULL]
  /\ Goto(t, "get")
  /\ UNCHANGED <<native, status, socket, buffer, waiters>>

-----------------------------------------------------------------------------
(* thread_producer                                                         *)

ProducerWait ==
  /\ At(Producer, "check") /\ available = RingSize
  /\ Wait(Producer)
  /\ UNCHANGED <<native, status, clients, socket, buffer, pc, req_d, errno, ressz>>

\* The producer tests for one request too many.
ProducerCheckLate ==
  /\ At(Producer, "check") /\ available <= RingSize
  /\ Goto(Producer, "receive")
  /\ UNCHANGED <<native, status, clients, socket, buffer, waiters, req_d, errno, ressz>>

ProducerCheck ==
  /\ At(Producer, "check") /\ available # RingSize
  /\ Goto(Producer, "receive")
  /\ UNCHANGED <<native, status, clients, socket, buffer, waiters, req_d, errno, ressz>>

\* my_recvfrom without "errno = 0": a datagram arrives, and errno is still the
\* EAGAIN of an earlier turn.
ReceiveUncleared ==
  /\ At(Producer, "receive")
  /\ IF socket = <<>>
     THEN errno' = "EAGAIN" /\ UNCHANGED <<socket, req_d>>
     ELSE /\ errno' \in {"0", "EAGAIN"}
          /\ req_d' = [req_d EXCEPT ![Producer] = Head(socket)]
          /\ socket' = Tail(socket)
  /\ Goto(Producer, "received")
  /\ UNCHANGED <<native, status, clients, buffer, waiters, ressz>>

\* One turn of the loop of my_recvfrom: errno = 0 and recvfrom.
Receive ==
  /\ At(Producer, "receive")
  /\ IF socket = <<>>
     THEN errno' = "EAGAIN" /\ UNCHANGED <<socket, req_d>>
     ELSE /\ errno' = "0"
          /\ req_d' = [req_d EXCEPT ![Producer] = Head(socket)]
          /\ socket' = Tail(socket)
  /\ Goto(Producer, "received")
  /\ UNCHANGED <<native, status, clients, buffer, waiters, ressz>>

\* while(errno == EAGAIN)
ReceiveAgain ==
  /\ At(Producer, "received") /\ errno = "EAGAIN"
  /\ Goto(Producer, "receive")
  /\ errno' = "0"
  /\ UNCHANGED <<native, status, clients, socket, buffer, waiters, req_d, ressz>>

\* What recvfrom returned.
reqsz == IF req_d[Producer] = NULL THEN "error"
         ELSE IF kind[req_d[Producer]] = "empty" THEN "zero" ELSE "some"

\* srv_recv_request gives up on an empty datagram as on an error.
ReceiveEndStrict ==
  /\ At(Producer, "received") /\ errno # "EAGAIN"
  /\ IF reqsz = "some" THEN Goto(Producer, "put") /\ UNCHANGED <<status, req_d>>
                       ELSE status' = "exited" /\ UNCHANGED <<pc, req_d>>
  /\ errno' = "0"
  /\ UNCHANGED <<native, clients, socket, buffer, waiters, ressz>>

\* srv_recv_request after the loop: exit(-1), back for another, or put.
ReceiveEnd ==
  /\ At(Producer, "received") /\ errno # "EAGAIN"
  /\ CASE reqsz = "error" -> status' = "exited" /\ UNCHANGED <<pc, req_d>>
       [] reqsz = "zero"  -> /\ req_d' = [req_d EXCEPT ![Producer] = NULL]
                             /\ Goto(Producer, "check")
                             /\ UNCHANGED status
       [] reqsz = "some"  -> Goto(Producer, "put") /\ UNCHANGED <<status, req_d>>
  /\ errno' = "0"
  /\ UNCHANGED <<native, clients, socket, buffer, waiters, ressz>>

ProducerPut ==
  /\ At(Producer, "put")
  /\ put_req(req_d[Producer])
  /\ available' = available + 1
  /\ SignalAll
  /\ req_d' = [req_d EXCEPT ![Producer] = NULL]
  /\ Goto(Producer, "check")
  /\ UNCHANGED <<native, status, clients, socket, errno, ressz>>

-----------------------------------------------------------------------------
Consume(t) == ConsumerWait(t) \/ ConsumerGet(t) \/ ConsumerServe(t)
Produce == ProducerWait \/ ProducerCheck \/ Receive \/ ReceiveAgain \/ ReceiveEnd \/ ProducerPut
Running == status = "running"

Next ==
  /\ Running
  /\ \/ \E c \in Clients : Call(c) \/ Die(c)
     \/ \E t \in Consumers : Consume(t)
     \/ \E t \in Threads : SpuriousWakeup(t)
     \/ Produce

\* Every thread runs: the operating system's scheduler over pthreads; ticks,
\* equal priorities and sthread_yield over user-level threads.  That a consumer
\* answers what it took assumes that the handler returns; the file system's
\* lock may keep it (ReadWriteLock, Client).
Fairness ==
  /\ WF_vars(Running /\ Produce)
  /\ \A t \in Consumers : WF_vars(Running /\ Consume(t))

Spec == Init /\ [][Next]_vars /\ Fairness

-----------------------------------------------------------------------------
(* Properties                                                              *)

TypeOK ==
  /\ native \in BOOLEAN
  /\ status \in {"running", "exited"}
  /\ client \in [Clients -> {"idle", "calling", "dead"}]
  /\ kind \in [Clients -> Kinds]
  /\ socket \in Seq(Clients)
  /\ ring \in [0 .. RingSize - 1 -> Clients \cup {NULL}]
  /\ getPos \in 0 .. RingSize - 1 /\ putPos \in 0 .. RingSize - 1
  /\ available \in 0 .. RingSize
  /\ waiters \subseteq Threads
  /\ pc \in [Threads -> {"get", "serve", "check", "receive", "received", "put"}]
  /\ \A t \in Consumers : pc[t] \in {"get", "serve"}
  /\ pc[Producer] \notin {"get", "serve"}
  /\ req_d \in [Threads -> Clients \cup {NULL}]
  /\ errno \in {"0", "EAGAIN", "ECONNREFUSED"}
  /\ ressz \subseteq Consumers

\* The requests in the ring, oldest first.
Queue == [i \in 1 .. available |-> ring[(getPos + i - 1) % RingSize]]

\* The places where the request of a client is.
Places(c) ==
  {<<"socket", i>> : i \in {j \in DOMAIN socket : socket[j] = c}}
  \cup {<<"ring", i>> : i \in {j \in DOMAIN Queue : Queue[j] = c}}
  \cup {<<"held", t>> : t \in {u \in Threads : req_d[u] = c}}

\* No request is in two places, and the request of a client that waits for
\* its answer is somewhere, unless it was an empty datagram (dropped by
\* srv_recv_request) or a defragmentation (answered with a size nobody set).
NothingLost ==
  \A c \in Clients :
    /\ Cardinality(Places(c)) <= 1
    /\ client[c] = "calling" /\ kind[c] = "plain" => Places(c) # {}

\* The producer leaves the monitor between finding a free slot and putting
\* the request there; the slot is still free when it puts.
SlotStaysFree ==
  pc[Producer] \in {"receive", "received", "put"} => available < RingSize

\* Threads that wait have a reason to: the producer a full ring, a consumer an
\* empty one.  So they never wait together, and the single signal of a
\* consumer cannot go to another consumer while the producer waits.
WaitersHaveReason ==
  /\ Producer \in waiters => available = RingSize
  /\ waiters \cap Consumers # {} => available = 0

\* The positions of get_req and put_req, each private to its function, keep
\* the distance that available_reqs says.
PositionsAgree == putPos = (getPos + available) % RingSize

\* The producer may test and put in two critical sections, and a consumer may
\* signal only one waiter, because of these four facts together: together they
\* are inductive.
BufferInv == TypeOK /\ SlotStaysFree /\ WaitersHaveReason /\ PositionsAgree

\* A consumer holds a request exactly while it serves it, the producer from
\* recvfrom to put_req; EAGAIN says that it holds none.
HeldInTurn ==
  /\ \A t \in Consumers : req_d[t] # NULL <=> pc[t] = "serve"
  /\ pc[Producer] \in {"check", "receive"} => req_d[Producer] = NULL
  /\ pc[Producer] = "put" => req_d[Producer] # NULL
  /\ errno = "EAGAIN" => req_d[Producer] = NULL
  /\ NULL \notin Range(Queue)

\* Each of the three kinds of place has a request once, and no two have it.
SentOnce ==
  /\ IsInjective(socket) /\ IsInjective(Queue)
  /\ Range(socket) \cap Range(Queue) = {}
  /\ \A t \in Threads : req_d[t] \notin Range(socket) \cup Range(Queue)
  /\ \A t, u \in Threads : req_d[t] = req_d[u] /\ req_d[t] # NULL => t = u

\* A client that has its answer has no request left anywhere.
IdleSentNothing == \A c \in Clients : client[c] = "idle" => Places(c) = {}

\* Some client died, or was refused the answer to a defragmentation.
SendFailed ==
  \E c \in Clients :
    client[c] = "dead" \/ (client[c] = "calling" /\ kind[c] = "defrag" /\ Places(c) = {})

\* After a recvfrom that brought nothing errno says so, or another thread's
\* sendto has overwritten it.
ErrorNeedsFailedSend ==
  pc[Producer] = "received" /\ req_d[Producer] = NULL
    => errno = "EAGAIN" \/ (~native /\ SendFailed)

\* With BufferInv these are inductive; they give NothingLost and
\* ExitNeedsFailedSend.
RequestInv ==
  BufferInv /\ HeldInTurn /\ SentOnce /\ IdleSentNothing /\ ErrorNeedsFailedSend

\* srv_recv_request ends the server only in the build where threads share
\* errno, and only after a sendto failed.
ExitNeedsFailedSend == status = "exited" => ~native /\ SendFailed

\* The ring is a bounded first-in first-out channel of requests.
Channel == INSTANCE BoundedChannel
             WITH Messages <- Clients, Capacity <- RingSize, queue <- Queue
ImplementsChannel == Channel!Spec

\* Every call is answered as long as its caller lives and the server runs;
\* a defragmentation once every consumer has answered something else.  That
\* handlers return is assumed.
Answered ==
  \A c \in Clients :
    /\ client[c] = "calling" /\ kind[c] = "plain"
         ~> client[c] # "calling" \/ status = "exited"
    /\ client[c] = "calling" /\ kind[c] = "defrag" /\ Places(c) # {} /\ Consumers \subseteq ressz
         ~> client[c] # "calling" \/ status = "exited"
=============================================================================
