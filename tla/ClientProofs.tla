---------------------------- MODULE ClientProofs ----------------------------
(***************************************************************************)
(* Proofs about Client for any clients, paths, bounds and store at the     *)
(* start.                                                                  *)
(***************************************************************************)
EXTENDS Client, DataFacts

\* What ClientInv says of the call of one client that has n files open ...
Proper(k, n) ==
  /\ DOMAIN k = DOMAIN NoCall
  /\ k.todo \in Seq(Messages) /\ k.size \in Nat /\ k.left \in 0 .. Modulus - 1
  /\ k.op # "none" => k.todo # <<>> /\ Last(k.todo) \notin Lookups \cup {"create2"}
  /\ \A m \in Range(k.todo) : Belongs(m, k.op)
  /\ k.op = "write" => k.todo \in {<<"write">>, <<"attrs">>}
  /\ k.op = "open" => n < MaxOpenFiles

\* ... and of its table.
Table(l, n) == l \in Seq(Descriptors) /\ n = Len(l) /\ n <= MaxOpenFiles /\ FirstUsed(l)

\* A read or a write has its descriptor.
Held(k, l) ==
  k.op \in {"read", "write"} => \E j \in 1 .. Len(l) : l[j].fileId = k.found

\* The invariant, client by client.
ByClient ==
  /\ DOMAIN list = Clients /\ DOMAIN Open_files = Clients /\ DOMAIN call = Clients
  /\ list = [c \in Clients |-> list[c]] /\ Open_files = [c \in Clients |-> Open_files[c]]
  /\ \A c \in Clients : /\ Proper(call[c], Open_files[c]) /\ Table(list[c], Open_files[c])
                        /\ Held(call[c], list[c])
  /\ IsStore(tree, files)
  /\ removing \in Inodes \cup {0} /\ {closed, exited} \subseteq BOOLEAN

LEMMA InvByClient == ClientInv <=> ByClient
<1>1. ASSUME ClientInv PROVE ByClient
  BY <1>1 DEF ClientInv, TypeOK, PlansEnd, DescriptorHeld, RoomKept, TableCounted, OnlyFirstUsed, ByClient,
         Proper, Table, Held, Busy
<1>2. ASSUME ByClient PROVE ClientInv
  <2>1. \A c \in Clients : list[c] \in Seq(Descriptors) /\ Open_files[c] \in Nat
    BY <1>2, LenProperties DEF ByClient, Table
  <2>2. list \in [Clients -> Seq(Descriptors)] /\ Open_files \in [Clients -> Nat]
    BY <1>2, <2>1 DEF ByClient
  <2> QED
    BY <1>2, <2>2
       DEF ClientInv, TypeOK, PlansEnd, DescriptorHeld, RoomKept, TableCounted, OnlyFirstUsed, ByClient,
         Proper, Table, Held, Busy
<1> QED
  BY <1>1, <1>2

\* A step that concerns the call and the table of one client.
LEMMA StepInv ==
  ASSUME ClientInv, NEW c \in Clients, NEW k, NEW l, NEW n,
         call' = [call EXCEPT ![c] = k], Proper(k, n),
         list' = [list EXCEPT ![c] = l], Open_files' = [Open_files EXCEPT ![c] = n], Table(l, n),
         Held(k, l), IsStore(tree', files'),
         removing' \in Inodes \cup {0}, {closed', exited'} \subseteq BOOLEAN
  PROVE  ClientInv'
<1>1. ByClient
  BY InvByClient
<1>2. \A d \in Clients : /\ Proper(call'[d], Open_files'[d]) /\ Table(list'[d], Open_files'[d])
                        /\ Held(call'[d], list'[d])
  BY <1>1 DEF ByClient
<1>3. ByClient'
  BY <1>1, <1>2 DEF ByClient
<1> QED
  BY <1>3, InvByClient, PTL

\* A step that concerns its call only.
LEMMA CallInv ==
  ASSUME ClientInv, NEW c \in Clients, NEW k,
         call' = [call EXCEPT ![c] = k], Proper(k, Open_files[c]), Held(k, list[c]),
         UNCHANGED <<list, Open_files>>,
         IsStore(tree', files'), removing' \in Inodes \cup {0}, {closed', exited'} \subseteq BOOLEAN
  PROVE  ClientInv'
<1>1. ByClient
  BY InvByClient
<1>2. /\ list' = [list EXCEPT ![c] = list[c]] /\ Open_files' = [Open_files EXCEPT ![c] = Open_files[c]]
      /\ Table(list[c], Open_files[c])
  BY <1>1 DEF ByClient
<1> QED
  BY <1>2, StepInv

\* Between calls.
LEMMA NoCallProper ==
  ASSUME NEW n
  PROVE  Proper(NoCall, n) /\ \A l : Held(NoCall, l)
BY ClientAssumption DEF Proper, Held, NoCall, Range

-----------------------------------------------------------------------------
(* The plan of messages                                                    *)

\* The message of a lookup is not the last one.
LEMMA MoreToSend ==
  ASSUME NEW s \in Seq(Messages), s # <<>>,
         Last(s) \notin Lookups \cup {"create2"}, Head(s) \in Lookups \cup {"create2"}
  PROVE  Tail(s) \in Seq(Messages) /\ Tail(s) # <<>> /\ Last(Tail(s)) = Last(s)
<1>1. Len(s) \in Nat \ {0} /\ Len(Tail(s)) = Len(s) - 1 /\ Tail(s) \in Seq(Messages) /\ Head(s) = s[1]
  BY HeadTailProperties, EmptySeq, LenProperties
<1>2. Len(s) # 1
  BY <1>1 DEF Last
<1>3. Tail(s) # <<>>
  <2>1. Len(Tail(s)) # 0
    BY <1>1, <1>2
  <2> QED
    BY <2>1, EmptySeq
<1> QED
  BY <1>1, <1>3, TailLast

\* A plan behind another ends as it does.
LEMMA ConcatLast ==
  ASSUME NEW s \in Seq(Messages), NEW r \in Seq(Messages), r # <<>>
  PROVE  s \o r \in Seq(Messages) /\ s \o r # <<>> /\ Last(s \o r) = Last(r)
<1>1. /\ Len(s) \in Nat /\ Len(r) \in Nat \ {0} /\ Len(s \o r) = Len(s) + Len(r)
      /\ s \o r \in Seq(Messages)
      /\ \A i \in 1 .. Len(s) + Len(r) : (s \o r)[i] = IF i <= Len(s) THEN s[i] ELSE r[i - Len(s)]
  BY ConcatProperties, EmptySeq, LenProperties
<1>2. (s \o r)[Len(s) + Len(r)] = r[Len(r)] /\ Len(s) + Len(r) # 0
  BY <1>1
<1> QED
  BY <1>1, <1>2 DEF Last

\* my_open ends with the creation of the file,
LEMMA OpenEnds ==
  ASSUME NEW p, NEW q
  PROVE  LET s == Plan("open", p, q) IN
         /\ s \in Seq(Messages) /\ s # <<>> /\ Last(s) \notin Lookups \cup {"create2"}
         /\ \A m \in Range(s) : Belongs(m, "open")
<1>1. Plan("open", p, q) = <<"name", "dir", "create">>
  BY DEF Plan
<1>2. {"name", "dir", "create"} \subseteq Messages /\ "create" \notin Lookups \cup {"create2"}
  BY DEF Messages, Lookups
<1>3. <<"name", "dir", "create">> \in Seq(Messages)
  BY <1>2
<1>4. <<"name", "dir", "create">> # <<>> /\ Last(<<"name", "dir", "create">>) = "create"
  BY DEF Last
<1>5. \A m \in Messages : Belongs(m, "open") \/ m \in {"read", "write", "attrs"}
  BY DEF Belongs
<1>6. Range(<<"name", "dir", "create">>) = {"name", "dir", "create"}
  BY DEF Range
<1> QED
  BY <1>1, <1>2, <1>3, <1>4, <1>5, <1>6

\* and each other call with the message it is named for.
LEMMA PlanEnds ==
  ASSUME NEW op \in {"remove", "mkdir", "copy", "append", "read", "write", "defrag"},
         NEW p, NEW q
  PROVE  LET s == Plan(op, p, q) IN
         /\ s \in Seq(Messages) /\ s # <<>> /\ Last(s) \notin Lookups \cup {"create2"}
         /\ \A m \in Range(s) : Belongs(m, op)
         /\ op = "write" => s = <<"write">>
<1> DEFINE Plain(s) == s \in Seq(Messages) /\ \A m \in Range(s) : Belongs(m, op)
<1>1. ASSUME NEW x \in Messages, Belongs(x, op) PROVE Plain(<<x>>)
  BY <1>1 DEF Range
<1>2. ASSUME NEW s, NEW r, Plain(s), Plain(r) PROVE Plain(s \o r)
  BY <1>2, RangeConcat
<1>3. ASSUME NEW path, NEW x \in Messages, Belongs(x, op) PROVE Plain(DirOf(path, x))
  <2>1. Plain(<<>>)
    BY DEF Range
  <2> QED
    BY <1>1, <1>3, <2>1 DEF DirOf
<1>4. op \in Messages /\ Belongs(op, op) /\ op \notin Lookups \cup {"create2"}
  BY DEF Messages, Lookups, Belongs
<1>5. Plain(<<op>>) /\ <<op>> # <<>> /\ Last(<<op>>) = op
  BY <1>1, <1>4 DEF Last
<1>6. ASSUME NEW s, NEW r, Plain(s), Plain(r), r # <<>>
      PROVE  Plain(s \o r) /\ s \o r # <<>> /\ Last(s \o r) = Last(r)
  BY <1>2, <1>6, ConcatLast
<1> DEFINE result(s) == /\ s \in Seq(Messages) /\ s # <<>> /\ Last(s) \notin Lookups \cup {"create2"}
                        /\ \A m \in Range(s) : Belongs(m, op)
                        /\ op = "write" => s = <<"write">>
<1>7. CASE op \in {"read", "write", "defrag"}
  <2>1. Plan(op, p, q) = <<op>>
    BY <1>7 DEF Plan
  <2> QED
    BY <1>4, <1>5, <2>1
<1>8. CASE op \in {"remove", "mkdir", "copy", "append"}
  <2>1. /\ {"name", "name2", "dir", "dir2"} \subseteq Messages
        /\ Belongs("name", op) /\ Belongs("name2", op) /\ Belongs("dir", op) /\ Belongs("dir2", op)
    BY <1>8 DEF Messages, Lookups, Belongs
  <2> HIDE DEF Plain
  <2>2. /\ Plain(<<"name">>) /\ Plain(<<"name2">>)
        /\ Plain(DirOf(p, "dir")) /\ Plain(DirOf(q, "dir2"))
    BY <1>1, <1>3, <2>1
  <2>3. Plain(<<"name2", op>>) /\ <<"name2", op>> # <<>> /\ Last(<<"name2", op>>) = op
    <3>1. <<"name2", op>> = <<"name2">> \o <<op>>
      OBVIOUS
    <3> QED
      BY <1>5, <1>6, <2>2, <3>1
  <2>4. ASSUME NEW s, Plain(s) PROVE result(s \o <<op>>) /\ result(s \o <<"name2", op>>)
    <3>1. /\ Plain(s \o <<op>>) /\ s \o <<op>> # <<>> /\ Last(s \o <<op>>) = op
          /\ Plain(s \o <<"name2", op>>) /\ s \o <<"name2", op>> # <<>>
          /\ Last(s \o <<"name2", op>>) = op
      BY <1>5, <1>6, <2>3, <2>4
    <3> QED
      BY <1>4, <1>8, <3>1 DEF Plain
  <2> HIDE DEF result
  <2> SUFFICES result(Plan(op, p, q))
    BY DEF result
  <2>5. CASE op \in {"remove", "mkdir"}
    <3>1. Plain(<<"name">> \o DirOf(p, "dir"))
      BY <1>2, <2>2
    <3>2. Plan(op, p, q) = (<<"name">> \o DirOf(p, "dir")) \o <<op>>
      BY <2>5 DEF Plan
    <3> QED
      BY <2>4, <3>1, <3>2
  <2>6. CASE op = "copy"
    <3>1. Plain((<<"name">> \o DirOf(p, "dir")) \o DirOf(q, "dir2"))
      BY <1>2, <2>2
    <3>2. Plan(op, p, q) = ((<<"name">> \o DirOf(p, "dir")) \o DirOf(q, "dir2")) \o <<"name2", op>>
      BY <2>6 DEF Plan
    <3> QED
      BY <2>4, <3>1, <3>2
  <2>7. CASE op = "append"
    <3>1. Plain(((<<"name">> \o DirOf(p, "dir")) \o <<"name2">>) \o DirOf(q, "dir2"))
      BY <1>2, <2>2
    <3>2. Plan(op, p, q) =
            (((<<"name">> \o DirOf(p, "dir")) \o <<"name2">>) \o DirOf(q, "dir2")) \o <<op>>
      BY <2>7 DEF Plan
    <3> QED
      BY <2>4, <3>1, <3>2
  <2> QED
    BY <1>8, <2>5, <2>6, <2>7
<1> QED
  BY <1>7, <1>8

\* What is left of a call after the answer to a lookup.
LEMMA AnsweredProper ==
  ASSUME NEW k, NEW n, Proper(k, n), k.op # "none", Head(k.todo) \in Lookups,
         NEW ok \in BOOLEAN, NEW i, NEW size \in Nat
  PROVE  Proper(Answered(k, ok, i, size), n) /\ \A l : Held(Answered(k, ok, i, size), l)
<1> DEFINE m == Head(k.todo)
           handle == IF ok THEN i ELSE 0
           next == [k EXCEPT !.todo = Tail(@), !.found = 0,
                             !.dir = IF m = "dir" /\ Len(k.p) > 1 THEN handle ELSE @,
                             !.dir2 = IF m = "dir2" THEN handle ELSE @]
           sized == [next EXCEPT !.size = IF ok THEN size ELSE @]
           target == [next EXCEPT !.todo = <<"create2">> \o @]
<1>1. k.todo \in Seq(Messages) /\ k.todo # <<>> /\ Last(k.todo) \notin Lookups \cup {"create2"}
  BY DEF Proper
<1>2. /\ Tail(k.todo) \in Seq(Messages) /\ Tail(k.todo) # <<>>
      /\ Last(Tail(k.todo)) \notin Lookups \cup {"create2"}
  BY <1>1, MoreToSend
<1>3. \A a \in Range(Tail(k.todo)) : Belongs(a, k.op)
  BY <1>1, RangeTail DEF Proper
<1>4. /\ DOMAIN next = DOMAIN NoCall /\ next.todo = Tail(k.todo) /\ next.op = k.op
      /\ next.size = k.size /\ next.left = k.left
  BY DEF Proper, NoCall
<1>10. k.op \notin {"read", "write"}
  <2>1. Head(k.todo) \in Range(k.todo)
    BY <1>1, RangeTail
  <2> QED
    BY <2>1 DEF Proper, Belongs
<1> HIDE DEF next, m
<1>5. Proper(next, n)
  BY <1>2, <1>3, <1>4, <1>10 DEF Proper
<1>6. Proper(sized, n)
  <2>1. /\ DOMAIN sized = DOMAIN NoCall /\ sized.todo = next.todo /\ sized.op = next.op
        /\ sized.size \in Nat /\ sized.left = next.left
    BY <1>5 DEF Proper, NoCall
  <2> HIDE DEF sized
  <2> QED
    BY <1>5, <2>1 DEF Proper
<1>7. Proper(target, n)
  <2>1. /\ DOMAIN target = DOMAIN NoCall /\ target.todo = <<"create2">> \o next.todo
        /\ target.op = next.op /\ target.size = next.size /\ target.left = next.left
    BY <1>5 DEF Proper, NoCall
  <2> DEFINE first == <<"create2">>
  <2>2. first \in Seq(Messages) /\ Range(first) = {"create2"}
    BY DEF Messages, Range
  <2>5. Belongs("create2", k.op)
    BY <1>10 DEF Lookups, Belongs
  <2> HIDE DEF first
  <2> HIDE DEF target
  <2>3. ASSUME NEW s \in Seq(Messages), NEW r \in Seq(Messages), r # <<>>
        PROVE  /\ s \o r \in Seq(Messages) /\ s \o r # <<>> /\ Last(s \o r) = Last(r)
               /\ Range(s \o r) = Range(s) \cup Range(r)
    <3>1. Range(s \o r) = Range(s) \cup Range(r)
      BY RangeConcat
    <3> QED
      BY <2>3, <3>1, ConcatLast
  <2>4. /\ target.todo \in Seq(Messages) /\ target.todo # <<>>
        /\ Last(target.todo) = Last(next.todo)
        /\ Range(target.todo) = {"create2"} \cup Range(next.todo)
    <3>1. next.todo \in Seq(Messages) /\ next.todo # <<>>
      BY <1>2, <1>4
    <3>2. target.todo = first \o next.todo
      BY <2>1 DEF first
    <3> QED
      BY <2>2, <2>3, <3>1, <3>2
  <2> QED
    BY <1>2, <1>4, <1>5, <1>10, <2>1, <2>4, <2>5 DEF Proper
<1>8. Answered(k, ok, i, size) \in {next, sized, target, NoCall}
  <2> HIDE DEF sized, target
  <2>1. Answered(k, ok, i, size) =
          CASE k.op = "open" /\ m = "name" -> next
            [] k.op = "open" /\ m = "dir" -> IF k.create THEN sized ELSE NoCall
            [] k.op = "mkdir" /\ m = "name" -> IF ok THEN NoCall ELSE next
            [] k.op = "copy" /\ m = "name2" -> IF ok THEN next ELSE target
            [] OTHER -> IF ok THEN next ELSE NoCall
    BY DEF Answered, next, m, sized, target, handle
  <2> QED
    BY <2>1
<1>9. sized.op = next.op /\ target.op = next.op
  BY <1>4 DEF NoCall
<1> HIDE DEF sized, target
<1>11. \A l : Held(next, l) /\ Held(sized, l) /\ Held(target, l)
  BY <1>4, <1>9, <1>10 DEF Held
<1> QED
  BY <1>5, <1>6, <1>7, <1>8, <1>11, NoCallProper

-----------------------------------------------------------------------------
(* The table of open files                                                 *)

\* The least of a set of naturals, and the greatest and the least of two integers.
LEMMA MinOf ==
  ASSUME NEW S, S \subseteq Nat, S # {}
  PROVE  Min(S) \in S /\ \A x \in S : Min(S) <= x
BY LeastNat DEF Min

LEMMA MinOfTwo ==
  ASSUME NEW a \in Int, NEW b \in Int
  PROVE  Min({a, b}) = IF a <= b THEN a ELSE b
BY DEF Min

LEMMA MinOfThree ==
  ASSUME NEW a \in Int, NEW b \in Int, NEW d \in Int
  PROVE  Min({a, b, d}) \in Int /\ Min({a, b, d}) <= a /\ Min({a, b, d}) <= b /\ Min({a, b, d}) <= d
BY DEF Min

LEMMA MaxOfZero ==
  ASSUME NEW a \in Int
  PROVE  Max({0, a}) = IF a <= 0 THEN 0 ELSE a
BY DEF Max

\* queue_node_get finds the first descriptor of a file, if there is one.
LEMMA PositionIs ==
  ASSUME NEW c, NEW f, list[c] \in Seq(Descriptors), Position(c, f) # 0
  PROVE  /\ Position(c, f) \in 1 .. Len(list[c])
         /\ Descriptor(c, f) \in Descriptors /\ Descriptor(c, f).fileId = f
         /\ list[c][Position(c, f)] = Descriptor(c, f)
         /\ \A i \in 1 .. Position(c, f) - 1 : list[c][i].fileId # f
<1> DEFINE I == {j \in 1 .. Len(list[c]) : list[c][j].fileId = f}
<1>1. Position(c, f) = IF I # {} THEN Min(I) ELSE 0
  BY DEF Position, SelectInSeq
<1>2. I \subseteq 1 .. Len(list[c]) /\ I \subseteq Nat /\ Len(list[c]) \in Nat
  BY LenProperties
<1> HIDE DEF I
<1>3. Position(c, f) \in I /\ \A i \in I : Position(c, f) <= i
  BY <1>1, <1>2, MinOf
<1>4. Position(c, f) \in 1 .. Len(list[c]) /\ list[c][Position(c, f)].fileId = f
  BY <1>3 DEF I
<1>5. ASSUME NEW i \in 1 .. Position(c, f) - 1 PROVE list[c][i].fileId # f
  <2>1. i \in 1 .. Len(list[c]) /\ ~(Position(c, f) <= i)
    BY <1>2, <1>4
  <2> QED
    BY <1>3, <2>1 DEF I
<1> HIDE DEF Descriptors
<1> QED
  BY <1>4, <1>5, LenProperties, ElementOfSeq DEF Descriptor

\* my_close takes one descriptor out.
LEMMA OneLess ==
  ASSUME NEW S, NEW s \in Seq(S), NEW i \in 1 .. Len(s)
  PROVE  /\ RemoveAt(s, i) \in Seq(S) /\ Len(RemoveAt(s, i)) = Len(s) - 1
         /\ \A j \in 1 .. Len(s) - 1 : RemoveAt(s, i)[j] = s[IF j < i THEN j ELSE j + 1]
<1>1. Len(s) \in Nat /\ \A j \in 1 .. Len(s) : s[j] \in S
  BY LenProperties, ElementOfSeq
<1>2. /\ SubSeq(s, 1, i - 1) \in Seq(S) /\ Len(SubSeq(s, 1, i - 1)) = i - 1
      /\ \A j \in 1 .. i - 1 : SubSeq(s, 1, i - 1)[j] = s[j]
  <2>1. i - 1 \in Int /\ \A j \in 1 .. i - 1 : s[j] \in S
    BY <1>1
  <2>2. Len(SubSeq(s, 1, i - 1)) = IF 1 <= i - 1 THEN (i - 1) - 1 + 1 ELSE 0
    BY <2>1, SubSeqProperties
  <2> QED
    BY <1>1, <2>1, <2>2, SubSeqProperties
<1>3. /\ SubSeq(s, i + 1, Len(s)) \in Seq(S) /\ Len(SubSeq(s, i + 1, Len(s))) = Len(s) - i
      /\ \A j \in 1 .. Len(s) - i : SubSeq(s, i + 1, Len(s))[j] = s[i + j]
  <2>1. i + 1 \in Int /\ Len(s) \in Int /\ \A j \in i + 1 .. Len(s) : s[j] \in S
    BY <1>1
  <2>2. /\ SubSeq(s, i + 1, Len(s)) \in Seq(S)
        /\ Len(SubSeq(s, i + 1, Len(s))) =
             IF i + 1 <= Len(s) THEN Len(s) - (i + 1) + 1 ELSE 0
        /\ \A j \in 1 .. Len(s) - (i + 1) + 1 : SubSeq(s, i + 1, Len(s))[j] = s[(i + 1) + j - 1]
    BY <2>1, SubSeqProperties
  <2>3. /\ Len(s) - (i + 1) + 1 = Len(s) - i
        /\ \A j \in 1 .. Len(s) - i : (i + 1) + j - 1 = i + j
        /\ i + 1 <= Len(s) \/ Len(s) - i = 0
    BY <1>1
  <2> QED
    BY <2>2, <2>3
<1>4. ASSUME NEW a \in Seq(S), NEW b \in Seq(S)
      PROVE  /\ a \o b \in Seq(S) /\ Len(a \o b) = Len(a) + Len(b)
             /\ \A j \in 1 .. Len(a) + Len(b) :
                  (a \o b)[j] = IF j <= Len(a) THEN a[j] ELSE b[j - Len(a)]
  BY ConcatProperties
<1> DEFINE a == SubSeq(s, 1, i - 1)
           b == SubSeq(s, i + 1, Len(s))
<1> HIDE DEF a, b
<1>5. /\ a \in Seq(S) /\ Len(a) = i - 1 /\ \A j \in 1 .. i - 1 : a[j] = s[j]
      /\ b \in Seq(S) /\ Len(b) = Len(s) - i /\ \A j \in 1 .. Len(s) - i : b[j] = s[i + j]
  BY <1>2, <1>3 DEF a, b
<1>6. /\ a \o b \in Seq(S) /\ Len(a \o b) = (i - 1) + (Len(s) - i)
      /\ \A j \in 1 .. (i - 1) + (Len(s) - i) :
           (a \o b)[j] = IF j <= i - 1 THEN a[j] ELSE b[j - (i - 1)]
  <2>1. /\ a \o b \in Seq(S) /\ Len(a \o b) = Len(a) + Len(b)
        /\ \A j \in 1 .. Len(a) + Len(b) :
             (a \o b)[j] = IF j <= Len(a) THEN a[j] ELSE b[j - Len(a)]
    <3>1. a \in Seq(S) /\ b \in Seq(S)
      BY <1>5
    <3> QED
      BY ONLY <1>4, <3>1
  <2>2. Len(a) = i - 1 /\ Len(b) = Len(s) - i
    BY <1>5
  <2> QED
    BY ONLY <2>1, <2>2
<1>7. Len(a \o b) = Len(s) - 1
  BY <1>1, <1>6
<1>8. ASSUME NEW j \in 1 .. Len(s) - 1
      PROVE  (a \o b)[j] = s[IF j < i THEN j ELSE j + 1]
  <2>1. j \in 1 .. (i - 1) + (Len(s) - i)
    BY <1>1
  <2>2. CASE j < i
    <3>1. j \in 1 .. i - 1 /\ j <= i - 1
      BY <1>1, <2>2
    <3> QED
      BY <1>5, <1>6, <2>1, <2>2, <3>1
  <2>3. CASE ~(j < i)
    <3>1. j - (i - 1) \in 1 .. Len(s) - i /\ ~(j <= i - 1) /\ i + (j - (i - 1)) = j + 1
      BY <1>1, <2>3
    <3>2. (a \o b)[j] = b[j - (i - 1)]
      BY <1>6, <2>1, <3>1
    <3> QED
      BY <1>5, <2>3, <3>1, <3>2
  <2> QED
    BY <2>2, <2>3
<1> QED
  BY <1>6, <1>7, <1>8 DEF RemoveAt, a, b

\* A descriptor changes in place.
LEMMA SameLength ==
  ASSUME NEW l \in Seq(Descriptors), NEW i, NEW d, i \in 1 .. Len(l) => d \in Descriptors
  PROVE  [l EXCEPT ![i] = d] \in Seq(Descriptors) /\ Len([l EXCEPT ![i] = d]) = Len(l)
<1> DEFINE r == [l EXCEPT ![i] = d]
<1>1. Len(l) \in Nat /\ DOMAIN l = 1 .. Len(l) /\ l \in [1 .. Len(l) -> Descriptors]
  BY LenProperties
<1>2. r \in [1 .. Len(l) -> Descriptors]
  BY <1>1
<1> HIDE DEF r, Descriptors
<1>3. r \in Seq(Descriptors) /\ Len(r) = Len(l)
  BY <1>1, <1>2, SeqDef, LenProperties
<1> QED
  BY <1>3 DEF r

-----------------------------------------------------------------------------
(* The store: each step of it leaves a store.                              *)

\* Entries of one directory.
Entries(e) == IsFiniteSet(DOMAIN e) /\ \A n \in DOMAIN e : e[n] \in Inodes

LEMMA BindEntries ==
  ASSUME NEW e, Entries(e), NEW n, NEW i \in Inodes
  PROVE  Entries(Store!Bind(e, n, i))
BY FS_AddElement DEF Entries, Store!Bind

LEMMA CreateStore ==
  ASSUME IsStore(tree, files), NEW d \in DOMAIN tree, NEW n, NEW i, Store!Create(d, n, i)
  PROVE  IsStore(tree', files')
<1>1. /\ i \in Inodes /\ i \notin DOMAIN tree /\ i \notin DOMAIN files
      /\ tree' = [tree EXCEPT ![d] = Store!Bind(tree[d], n, i)]
      /\ files' = Store!Bind(files, i, <<>>)
  BY DEF Store!Create, Store!Used
<1>2. DOMAIN tree' = DOMAIN tree /\ DOMAIN files' = DOMAIN files \cup {i}
  BY <1>1 DEF Store!Bind
<1>3. Entries(tree[d]) /\ Entries(Store!Bind(tree[d], n, i))
  BY <1>1, BindEntries DEF IsStore, Entries
<1>4. \A e \in DOMAIN tree' : Entries(tree'[e])
  BY <1>1, <1>3 DEF IsStore, Entries
<1>5. \A f \in DOMAIN files' : files'[f] \in Seq({Datum})
  BY <1>1 DEF IsStore, Store!Bind
<1> QED
  BY <1>1, <1>2, <1>4, <1>5 DEF IsStore, Entries

LEMMA MkdirStore ==
  ASSUME IsStore(tree, files), NEW d \in DOMAIN tree, NEW n, NEW i, Store!Mkdir(d, n, i)
  PROVE  IsStore(tree', files')
<1> DEFINE e == Store!Bind(tree[d], n, i)
           parent == [tree EXCEPT ![d] = e]
           empty == [m \in {} |-> i]
<1>1. /\ i \in Inodes /\ i \notin DOMAIN tree /\ i \notin DOMAIN files /\ files' = files
      /\ tree' = Store!Bind(parent, i, empty)
  BY DEF Store!Mkdir, Store!Used
<1>2. Entries(e)
  BY <1>1, BindEntries DEF IsStore, Entries
<1>3. Entries(empty)
  BY FS_EmptySet DEF Entries
<1> HIDE DEF e, empty
<1>4. DOMAIN parent = DOMAIN tree /\ \A x \in DOMAIN tree : Entries(parent[x])
  BY <1>2 DEF IsStore, Entries
<1> HIDE DEF parent
<1>5. DOMAIN tree' = DOMAIN tree \cup {i} /\ \A x \in DOMAIN tree' : Entries(tree'[x])
  BY <1>1, <1>3, <1>4 DEF Store!Bind
<1> QED
  BY <1>1, <1>5 DEF IsStore, Entries

LEMMA RemoveStore ==
  ASSUME IsStore(tree, files), NEW d \in DOMAIN tree, NEW n, Store!Remove(d, n)
  PROVE  IsStore(tree', files')
<1> DEFINE x == tree[d][n]
           e == Restrict(tree[d], DOMAIN tree[d] \ {n})
           rest == [tree EXCEPT ![d] = e]
<1>1. /\ tree' = Restrict(rest, DOMAIN tree \ {x})
      /\ files' = Restrict(files, DOMAIN files \ {x})
  BY DEF Store!Remove, Store!Restrict, Restrict
<1>2. Entries(e)
  <2>1. IsFiniteSet(DOMAIN tree[d] \ {n})
    BY FS_RemoveElement DEF IsStore
  <2> QED
    BY <2>1 DEF IsStore, Entries, Restrict
<1> HIDE DEF x, e
<1>3. DOMAIN rest = DOMAIN tree /\ \A y \in DOMAIN tree : Entries(rest[y])
  BY <1>2 DEF IsStore, Entries
<1> HIDE DEF rest
<1>4. DOMAIN tree' \subseteq DOMAIN tree /\ \A y \in DOMAIN tree' : Entries(tree'[y])
  BY <1>1, <1>3 DEF Restrict
<1>5. DOMAIN files' \subseteq DOMAIN files /\ \A f \in DOMAIN files' : files'[f] \in Seq({Datum})
  BY <1>1 DEF IsStore, Restrict
<1> QED
  BY <1>4, <1>5 DEF IsStore, Entries

\* A file gets other contents.
LEMMA ContentsStore ==
  ASSUME IsStore(tree, files), NEW f, NEW s \in Seq({Datum}),
         files' = [files EXCEPT ![f] = s], UNCHANGED tree
  PROVE  IsStore(tree', files')
BY DEF IsStore

LEMMA OverwriteType ==
  ASSUME NEW s \in Seq({Datum}), NEW offset \in 0 .. Len(s), NEW b \in Seq({Datum})
  PROVE  /\ Store!Overwrite(s, offset, b) \in Seq({Datum})
         /\ Len(Store!Overwrite(s, offset, b)) =
              IF offset + Len(b) <= Len(s) THEN Len(s) ELSE offset + Len(b)
<1>1. Len(s) \in Nat /\ Len(b) \in Nat /\ \A j \in 1 .. Len(s) : s[j] \in {Datum}
  BY LenProperties, ElementOfSeq
<1> DEFINE x == SubSeq(s, 1, offset)
           y == SubSeq(s, offset + Len(b) + 1, Len(s))
<1>2. x \in Seq({Datum}) /\ Len(x) = offset
  <2>1. offset \in Int /\ \A j \in 1 .. offset : s[j] \in {Datum}
    BY <1>1
  <2>2. x \in Seq({Datum}) /\ Len(x) = IF 1 <= offset THEN offset - 1 + 1 ELSE 0
    BY <2>1, SubSeqProperties
  <2> QED
    BY <1>1, <2>1, <2>2
<1>3. /\ y \in Seq({Datum})
      /\ Len(y) = IF offset + Len(b) <= Len(s) THEN Len(s) - (offset + Len(b)) ELSE 0
  <2>1. /\ offset + Len(b) + 1 \in Int /\ Len(s) \in Int
        /\ \A j \in offset + Len(b) + 1 .. Len(s) : s[j] \in {Datum}
    BY <1>1
  <2>2. /\ y \in Seq({Datum})
        /\ Len(y) = IF offset + Len(b) + 1 <= Len(s) THEN Len(s) - (offset + Len(b) + 1) + 1 ELSE 0
    BY <2>1, SubSeqProperties
  <2> QED
    BY <1>1, <2>1, <2>2
<1>4. ASSUME NEW u \in Seq({Datum}), NEW v \in Seq({Datum})
      PROVE  u \o v \in Seq({Datum}) /\ Len(u \o v) = Len(u) + Len(v)
  BY ConcatProperties
<1> HIDE DEF x, y
<1>5. x \o b \in Seq({Datum}) /\ Len(x \o b) = offset + Len(b)
  BY <1>2, <1>4
<1> DEFINE z == x \o b
<1> HIDE DEF z
<1>6. z \o y \in Seq({Datum}) /\ Len(z \o y) = offset + Len(b) + Len(y)
  BY <1>3, <1>4, <1>5 DEF z
<1>7. Store!Overwrite(s, offset, b) = z \o y
  BY DEF Store!Overwrite, x, y, z
<1>8. offset \in Nat
  BY <1>1
<1>9. CASE offset + Len(b) <= Len(s)
  <2>1. Len(z \o y) = Len(s)
    BY <1>1, <1>3, <1>6, <1>8, <1>9
  <2> QED
    BY <1>6, <1>7, <1>9, <2>1
<1>10. CASE ~(offset + Len(b) <= Len(s))
  <2>1. Len(z \o y) = offset + Len(b)
    BY <1>1, <1>3, <1>6, <1>8, <1>10
  <2> QED
    BY <1>6, <1>7, <1>10, <2>1
<1> QED
  BY <1>9, <1>10

\* The size that the server answers is a natural number.
LEMMA LengthType ==
  ASSUME IsStore(tree, files), NEW i, Exists(i)
  PROVE  Length(i) \in Nat /\ i \in Inodes
<1>1. CASE i \in DOMAIN files
  BY <1>1, LenProperties DEF IsStore, Length
<1>2. CASE i \notin DOMAIN files
  <2>1. i \in DOMAIN tree
    BY <1>2 DEF Exists, Store!Used
  <2>2. Cardinality(DOMAIN tree[i]) \in Nat
    BY <2>1, FS_CardinalityType DEF IsStore
  <2> QED
    BY <1>2, <2>1, <2>2 DEF IsStore, Length
<1> QED
  BY <1>1, <1>2

-----------------------------------------------------------------------------
(* Each step keeps the invariant.                                          *)

LEMMA InitClient == Init => ClientInv
<1> SUFFICES ASSUME Init PROVE ClientInv
  OBVIOUS
<1>1. \A c \in Clients : Proper(call[c], Open_files[c]) /\ Held(call[c], list[c])
  BY NoCallProper DEF Init
<1>2. \A c \in Clients : Table(list[c], Open_files[c])
  <2>1. <<>> \in Seq(Descriptors) /\ Len(<<>>) = 0 /\ 0 <= MaxOpenFiles /\ FirstUsed(<<>>)
    BY ClientAssumption DEF FirstUsed
  <2> QED
    BY <2>1 DEF Init, Table
<1>3. ByClient
  BY <1>1, <1>2, ClientAssumption DEF Init, ByClient
<1> QED
  BY <1>3, InvByClient

\* A call begins with a plan.
LEMMA BeginInv ==
  ASSUME ClientInv, NEW c \in Clients,
         NEW op \in {"open", "remove", "mkdir", "copy", "append", "read", "write", "defrag"},
         NEW k, k.op = op, DOMAIN k = DOMAIN NoCall, k.size \in Nat, k.left \in 0 .. Modulus - 1,
         op = "open" => ~Full(c), Held(k, list[c]),
         Begin(c, k)
  PROVE  ClientInv'
<1> DEFINE s == Plan(k.op, k.p, k.q)
           started == [k EXCEPT !.todo = s]
<1>1. /\ s \in Seq(Messages) /\ s # <<>> /\ Last(s) \notin Lookups \cup {"create2"}
      /\ \A m \in Range(s) : Belongs(m, op)
      /\ op = "write" => s = <<"write">>
  <2> HIDE DEF s
  <2>1. CASE op = "open"
    BY <2>1, OpenEnds DEF s
  <2>2. CASE op # "open"
    BY <2>2, PlanEnds DEF s
  <2> QED
    BY <2>1, <2>2
<1> HIDE DEF s
<1>2. /\ DOMAIN started = DOMAIN NoCall /\ started.todo = s /\ started.op = op
      /\ started.size = k.size /\ started.left = k.left /\ started.found = k.found
  BY DEF NoCall
<1>3. op = "open" => Open_files[c] < MaxOpenFiles
  BY ClientAssumption DEF Full, ClientInv, TypeOK
<1> HIDE DEF started
<1>4. Proper(started, Open_files[c]) /\ Held(started, list[c])
  BY <1>1, <1>2, <1>3 DEF Proper, Held
<1>5. /\ call' = [call EXCEPT ![c] = started] /\ UNCHANGED <<list, Open_files>>
      /\ UNCHANGED <<tree, files, removing, closed, exited>>
  BY DEF Begin, Set, server, started, s
<1>6. IsStore(tree', files') /\ removing' \in Inodes \cup {0} /\ {closed', exited'} \subseteq BOOLEAN
  BY <1>5 DEF ClientInv, TypeOK
<1> QED
  BY <1>4, <1>5, <1>6, CallInv

LEMMA StartInv ==
  ASSUME ClientInv, NEW c \in Clients, Start(c)
  PROVE  ClientInv'
<1>1. /\ DOMAIN NoCall = {"op", "todo", "p", "q", "create", "dir", "dir2", "found", "size", "left"}
      /\ NoCall.size = 0 /\ NoCall.left = 0
      /\ Modulus \in Nat \ {0} /\ MaxCount \in Nat /\ MaxCount < Modulus
  BY ClientAssumption DEF NoCall
<1> HIDE DEF NoCall
<1>2. ASSUME NEW p, NEW create, Open(c, p, create) PROVE ClientInv'
  <2> DEFINE k == [NoCall EXCEPT !.op = "open", !.p = p, !.create = create]
  <2>1. /\ k.op = "open" /\ DOMAIN k = DOMAIN NoCall /\ k.size \in Nat
        /\ k.left \in 0 .. Modulus - 1 /\ Held(k, list[c])
    BY <1>1 DEF Held
  <2>2. ~Full(c) /\ Begin(c, k)
    BY <1>2 DEF Open
  <2> HIDE DEF k
  <2> QED
    BY <2>1, <2>2, BeginInv
<1>3. ASSUME NEW p, NEW op \in {"remove", "mkdir"}, ChangeName(c, op, p) PROVE ClientInv'
  <2> DEFINE k == [NoCall EXCEPT !.op = op, !.p = p]
  <2>1. /\ k.op = op /\ DOMAIN k = DOMAIN NoCall /\ k.size \in Nat
        /\ k.left \in 0 .. Modulus - 1 /\ op # "open" /\ Held(k, list[c])
    BY <1>1 DEF Held
  <2>2. Begin(c, k)
    BY <1>3 DEF ChangeName
  <2> HIDE DEF k
  <2> QED
    BY <2>1, <2>2, BeginInv
<1>4. ASSUME NEW p, NEW q, NEW op \in {"copy", "append"}, Combine(c, op, p, q) PROVE ClientInv'
  <2> DEFINE k == [NoCall EXCEPT !.op = op, !.p = p, !.q = q]
  <2>1. /\ k.op = op /\ DOMAIN k = DOMAIN NoCall /\ k.size \in Nat
        /\ k.left \in 0 .. Modulus - 1 /\ op # "open" /\ Held(k, list[c])
    BY <1>1 DEF Held
  <2>2. Begin(c, k)
    BY <1>4 DEF Combine
  <2> HIDE DEF k
  <2> QED
    BY <2>1, <2>2, BeginInv
<1>5. ASSUME NEW f, NEW count \in 1 .. MaxCount, Read(c, f, count) PROVE ClientInv'
  <2> DEFINE d == Descriptor(c, f)
             left == IF d.size < d.read_offset + count
                     THEN (d.size - d.read_offset) % Modulus ELSE count
             k == [NoCall EXCEPT !.op = "read", !.found = f, !.left = left]
  <2>1. d \in Descriptors
    BY <1>5, PositionIs DEF Read, ClientInv, TypeOK
  <2> HIDE DEF d
  <2>2. left \in 0 .. Modulus - 1
    <3>1. d.size - d.read_offset \in Int
      BY <2>1 DEF Descriptors
    <3>2. (d.size - d.read_offset) % Modulus \in 0 .. Modulus - 1
      BY <1>1, <3>1
    <3>3. count \in 0 .. Modulus - 1
      BY <1>1
    <3> QED
      BY <3>2, <3>3
  <2> HIDE DEF left
  <2>3. Position(c, f) \in 1 .. Len(list[c]) /\ list[c][Position(c, f)].fileId = f
    BY <1>5, PositionIs DEF Read, ClientInv, TypeOK
  <2>4. /\ k.op = "read" /\ DOMAIN k = DOMAIN NoCall /\ k.size \in Nat
        /\ k.left \in 0 .. Modulus - 1 /\ k.found = f
    BY <1>1, <2>2
  <2>5. Begin(c, k)
    BY <1>5 DEF Read, left, d
  <2> HIDE DEF k
  <2>6. Held(k, list[c])
    BY <2>3, <2>4 DEF Held
  <2> QED
    BY <2>4, <2>5, <2>6, BeginInv
<1>6. ASSUME NEW f, NEW count \in 1 .. MaxCount, Write(c, f, count) PROVE ClientInv'
  <2> DEFINE k == [NoCall EXCEPT !.op = "write", !.found = f, !.left = count]
  <2>1. /\ k.op = "write" /\ DOMAIN k = DOMAIN NoCall /\ k.size \in Nat
        /\ k.left \in 0 .. Modulus - 1 /\ k.found = f
    BY <1>1
  <2>2. Begin(c, k)
    BY <1>6 DEF Write
  <2>3. Position(c, f) \in 1 .. Len(list[c]) /\ list[c][Position(c, f)].fileId = f
    BY <1>6, PositionIs DEF Write, ClientInv, TypeOK
  <2> HIDE DEF k
  <2>4. Held(k, list[c])
    BY <2>1, <2>3 DEF Held
  <2> QED
    BY <2>1, <2>2, <2>4, BeginInv
<1>7. ASSUME Defrag(c) PROVE ClientInv'
  <2> DEFINE k == [NoCall EXCEPT !.op = "defrag"]
  <2>1. /\ k.op = "defrag" /\ DOMAIN k = DOMAIN NoCall /\ k.size \in Nat
        /\ k.left \in 0 .. Modulus - 1 /\ Held(k, list[c])
    BY <1>1 DEF Held
  <2>2. Begin(c, k)
    BY <1>7 DEF Defrag
  <2> HIDE DEF k
  <2> QED
    BY <2>1, <2>2, BeginInv
<1> QED
  BY <1>2, <1>3, <1>4, <1>5, <1>6, <1>7 DEF Start

\* What the handlers of messages read of the invariant.
LEMMA CallFacts ==
  ASSUME ClientInv, NEW c \in Clients
  PROVE  /\ Proper(call[c], Open_files[c]) /\ Table(list[c], Open_files[c])
         /\ list[c] \in Seq(Descriptors) /\ Held(call[c], list[c])
         /\ IsStore(tree, files) /\ removing \in Inodes \cup {0} /\ {closed, exited} \subseteq BOOLEAN
BY InvByClient DEF ByClient, Table

\* One more descriptor, while there is room.
LEMMA EnqueueInv ==
  ASSUME ClientInv, NEW c \in Clients, Open_files[c] < MaxOpenFiles,
         NEW f \in Inodes, NEW size \in Nat, Enqueue(c, f, size), Return(c),
         IsStore(tree', files'), UNCHANGED server
  PROVE  ClientInv'
<1> DEFINE d == [fileId |-> f, size |-> size, write_offset |-> 0, read_offset |-> 0]
           l == Append(list[c], d)
<1>1. d \in Descriptors
  BY DEF Descriptors
<1> HIDE DEF d
<1>2. Table(list[c], Open_files[c]) /\ removing \in Inodes \cup {0} /\ {closed, exited} \subseteq BOOLEAN
  BY CallFacts
<1>3. l \in Seq(Descriptors) /\ Len(l) = Len(list[c]) + 1
  BY <1>1, <1>2, AppendProperties DEF Table
<1>4. Len(list[c]) \in Nat /\ MaxOpenFiles \in Nat
  BY <1>2, LenProperties, ClientAssumption DEF Table
<1>5. /\ list' = [list EXCEPT ![c] = l] /\ Open_files' = [Open_files EXCEPT ![c] = Open_files[c] + 1]
      /\ call' = [call EXCEPT ![c] = NoCall] /\ UNCHANGED <<removing, closed, exited>>
  BY DEF Enqueue, Return, Set, server, d
<1>7. FirstUsed(l)
  <2>1. d.write_offset = 0 /\ d.read_offset = 0
    BY DEF d
  <2> HIDE DEF d, Descriptors
  <2>2. /\ \A i \in 1 .. Len(list[c]) : l[i] = list[c][i]
        /\ l[Len(list[c]) + 1] = d
    BY <1>1, <1>2, AppendProperties DEF Table
  <2> HIDE DEF l
  <2> SUFFICES ASSUME NEW i \in 1 .. Len(l), NEW j \in 1 .. Len(l), i < j, l[i].fileId = l[j].fileId
               PROVE  l[j].write_offset = 0 /\ l[j].read_offset = 0
    BY DEF FirstUsed
  <2>3. CASE j = Len(list[c]) + 1
    BY <2>1, <2>2, <2>3
  <2>4. CASE j # Len(list[c]) + 1
    <3>1. i \in 1 .. Len(list[c]) /\ j \in 1 .. Len(list[c])
      BY <1>3, <1>4, <2>4
    <3> QED
      BY <1>2, <2>2, <3>1 DEF Table, FirstUsed
  <2> QED
    BY <2>3, <2>4
<1> HIDE DEF l
<1>6. Table(l, Open_files[c] + 1)
  BY <1>2, <1>3, <1>4, <1>7 DEF Table
<1> QED
  BY <1>2, <1>5, <1>6, NoCallProper, StepInv

\* A call ends, and the store stays a store.
LEMMA ReturnInv ==
  ASSUME ClientInv, NEW c \in Clients, Return(c), UNCHANGED <<list, Open_files>>,
         IsStore(tree', files'), removing' \in Inodes \cup {0}, {closed', exited'} \subseteq BOOLEAN
  PROVE  ClientInv'
BY NoCallProper, CallInv DEF Return, Set

\* A call goes on with other messages of its own.
LEMMA GoOnInv ==
  ASSUME ClientInv, NEW c \in Clients, NEW s \in Seq(Messages), s # <<>>,
         Last(s) \notin Lookups \cup {"create2"}, \A m \in Range(s) : Belongs(m, call[c].op),
         call[c].op = "write" => s \in {<<"write">>, <<"attrs">>}, NEW left \in 0 .. Modulus - 1,
         Set(c, [call[c] EXCEPT !.todo = s, !.left = left]), UNCHANGED <<list, Open_files>>,
         IsStore(tree', files'), removing' \in Inodes \cup {0}, {closed', exited'} \subseteq BOOLEAN
  PROVE  ClientInv'
<1> DEFINE k == [call[c] EXCEPT !.todo = s, !.left = left]
<1>1. Proper(call[c], Open_files[c]) /\ Held(call[c], list[c])
  BY CallFacts
<1>2. /\ DOMAIN k = DOMAIN NoCall /\ k.todo = s /\ k.op = call[c].op
      /\ k.size = call[c].size /\ k.left = left /\ k.found = call[c].found
  BY <1>1 DEF Proper, NoCall
<1>3. call' = [call EXCEPT ![c] = k]
  BY DEF Set
<1> HIDE DEF k
<1>4. Proper(k, Open_files[c]) /\ Held(k, list[c])
  BY <1>1, <1>2 DEF Proper, Held
<1> QED
  BY <1>3, <1>4, CallInv

LEMMA LookupInv ==
  ASSUME ClientInv, NEW c \in Clients, Resolve(c) \/ Attributes(c)
  PROVE  ClientInv'
<1> DEFINE k == call[c]
<1>1. /\ Proper(k, Open_files[c]) /\ IsStore(tree, files)
      /\ removing \in Inodes \cup {0} /\ {closed, exited} \subseteq BOOLEAN
  BY CallFacts
<1>2. k.op # "none" /\ Head(k.todo) \in Lookups
  BY DEF Resolve, Attributes, Busy, Message
<1>5. k.op \notin {"read", "write"}
  <2>1. k.todo \in Seq(Messages) /\ k.todo # <<>>
    BY <1>1, <1>2 DEF Proper
  <2>2. Head(k.todo) \in Range(k.todo)
    BY <2>1, RangeTail
  <2> QED
    BY <1>1, <1>2, <2>2 DEF Proper, Belongs
<1>3. CASE Resolve(c)
  <2>1. UNCHANGED <<tree, files, list, Open_files, removing, closed, exited>>
    BY <1>3 DEF Resolve, server
  <2>2. LET r == [k EXCEPT !.found = Lookup(Asked(k))]
        IN  Proper(r, Open_files[c]) /\ Held(r, list[c])
    <3> DEFINE r == [k EXCEPT !.found = Lookup(Asked(k))]
    <3>1. /\ DOMAIN r = DOMAIN NoCall /\ r.todo = k.todo /\ r.op = k.op
          /\ r.size = k.size /\ r.left = k.left
      BY <1>1 DEF Proper, NoCall
    <3> HIDE DEF r, k
    <3>2. Proper(r, Open_files[c]) /\ Held(r, list[c])
      BY <1>1, <1>5, <3>1 DEF Proper, Held
    <3> QED
      BY <3>2 DEF r
  <2>3. LET r == Answered(k, FALSE, 0, 0) IN Proper(r, Open_files[c]) /\ Held(r, list[c])
    BY <1>1, <1>2, AnsweredProper
  <2>4. PICK r : call' = [call EXCEPT ![c] = r] /\ Proper(r, Open_files[c]) /\ Held(r, list[c])
    BY <1>3, <2>2, <2>3 DEF Resolve, Set
  <2>5. IsStore(tree', files') /\ removing' \in Inodes \cup {0} /\ {closed', exited'} \subseteq BOOLEAN
    BY <1>1, <2>1
  <2> QED
    BY <2>1, <2>4, <2>5, CallInv
<1>4. CASE Attributes(c)
  <2> DEFINE i == k.found
             size == IF Exists(i) THEN Length(i) ELSE 0
  <2>1. UNCHANGED <<tree, files, removing, closed, exited>>
    BY <1>4 DEF Attributes, server
  <2>2. IsStore(tree', files') /\ removing' \in Inodes \cup {0} /\ {closed', exited'} \subseteq BOOLEAN
    BY <1>1, <2>1
  <2>3. CASE k.op = "open" /\ Exists(i) /\ Enqueue(c, i, Length(i)) /\ Return(c)
    <3>1. Open_files[c] < MaxOpenFiles
      BY <1>1, <2>3 DEF Proper
    <3>2. Length(i) \in Nat /\ i \in Inodes
      BY <1>1, <2>3, LengthType
    <3>3. UNCHANGED server
      BY <2>1 DEF server
    <3> QED
      BY <2>2, <2>3, <3>1, <3>2, <3>3, EnqueueInv
  <2>4. CASE Set(c, Answered(k, Exists(i), i, size)) /\ UNCHANGED <<list, Open_files>>
    <3>1. size \in Nat /\ Exists(i) \in BOOLEAN
      BY <1>1, LengthType DEF Exists
    <3> HIDE DEF size, i
    <3>2. LET r == Answered(k, Exists(i), i, size) IN Proper(r, Open_files[c]) /\ Held(r, list[c])
      BY <1>1, <1>2, <3>1, AnsweredProper
    <3> QED
      BY <2>2, <2>4, <3>2, CallInv DEF Set
  <2> QED
    BY <1>4, <2>3, <2>4 DEF Attributes
<1> QED
  BY <1>3, <1>4

\* A step of the server alone.
LEMMA ServerInv ==
  ASSUME ClientInv, UNCHANGED <<call, list, Open_files>>,
         IsStore(tree', files'), removing' \in Inodes \cup {0}, {closed', exited'} \subseteq BOOLEAN
  PROVE  ClientInv'
<1>1. ByClient
  BY InvByClient
<1>2. ByClient'
  BY <1>1 DEF ByClient
<1> QED
  BY <1>2, InvByClient, PTL

\* my_open found room before it came to create the file.
LEMMA CreateInv ==
  ASSUME ClientInv, NEW c \in Clients, snfs_create(c)
  PROVE  ClientInv'
<1> DEFINE k == call[c]
<1>1. Proper(k, Open_files[c]) /\ IsStore(tree, files)
  BY CallFacts
<1>2. k.op = "open"
  <2>1. k.todo \in Seq(Messages) /\ k.todo # <<>> /\ Head(k.todo) = "create"
    BY <1>1 DEF snfs_create, Busy, Message, Proper
  <2>2. "create" \in Range(k.todo)
    BY <2>1, RangeTail
  <2> QED
    BY <1>1, <2>2 DEF Proper, Belongs
<1>3. PICK i : /\ k.dir \in DOMAIN tree /\ Store!Create(k.dir, Last(k.p), i)
               /\ Enqueue(c, i, k.size) /\ Return(c) /\ UNCHANGED server
  BY DEF snfs_create, CanCreate
<1>4. IsStore(tree', files') /\ i \in Inodes
  BY <1>1, <1>3, CreateStore DEF Store!Create
<1> QED
  BY <1>1, <1>2, <1>3, <1>4, EnqueueInv DEF Proper

LEMMA ReturnsInv ==
  ASSUME ClientInv, NEW c \in Clients,
         \/ Refuse(c) \/ snfs_mkdir(c) \/ Removed(c) \/ Merge(c)
         \/ MkdirInside(c) \/ CopyFound(c) \/ LeaveAgain(c)
  PROVE  ClientInv'
<1> DEFINE k == call[c]
<1>1. IsStore(tree, files) /\ removing \in Inodes \cup {0} /\ {closed, exited} \subseteq BOOLEAN
  BY CallFacts
<1>2. Return(c) /\ UNCHANGED <<list, Open_files>>
  BY DEF Refuse, snfs_mkdir, Removed, Merge, MkdirInside, CopyFound, LeaveAgain
<1>3. removing' \in {removing, 0} /\ closed' \in {closed, TRUE} /\ UNCHANGED exited
  BY DEF Refuse, snfs_mkdir, Removed, Merge, MkdirInside, CopyFound, LeaveAgain, server
<1>4. CASE UNCHANGED <<tree, files>>
  BY <1>1, <1>2, <1>3, <1>4, ReturnInv
<1>5. CASE snfs_mkdir(c)
  <2>1. k.dir \in DOMAIN tree /\ Store!Mkdir(k.dir, Last(k.p), FreeInode)
    BY <1>5 DEF snfs_mkdir, CanCreate
  <2>2. IsStore(tree', files')
    BY <1>1, <2>1, MkdirStore
  <2> QED
    BY <1>1, <1>2, <1>3, <2>2, ReturnInv
<1>6. CASE Merge(c)
  <2>1. PICK f \in DOMAIN files, g \in DOMAIN files : Store!Copy(f, g) \/ Store!Concatenate(f, g)
    BY <1>6 DEF Merge
  <2>2. files[f] \in Seq({Datum}) /\ files[g] \in Seq({Datum})
    BY <1>1 DEF IsStore
  <2>3. files[f] \o files[g] \in Seq({Datum})
    BY <2>2, ConcatProperties
  <2>4. \/ files' = [files EXCEPT ![g] = files[f]] /\ UNCHANGED tree
        \/ files' = [files EXCEPT ![f] = files[f] \o files[g]] /\ UNCHANGED tree
    BY <2>1 DEF Store!Copy, Store!Concatenate
  <2>5. IsStore(tree', files')
    BY <1>1, <2>2, <2>3, <2>4, ContentsStore
  <2> QED
    BY <1>1, <1>2, <1>3, <2>5, ReturnInv
<1>7. CASE CopyFound(c)
  <2> DEFINE n == IF Exists(k.found) THEN Length(k.found) ELSE 0
             s == [j \in 1 .. n |-> Datum]
  <2>1. n \in Nat
    BY <1>1, LengthType
  <2> HIDE DEF n
  <2>2. s \in Seq({Datum})
    BY <2>1
  <2>3. PICK g : files' = [files EXCEPT ![g] = s] /\ UNCHANGED tree
    BY <1>7 DEF CopyFound, n
  <2>4. IsStore(tree', files')
    BY <1>1, <2>2, <2>3, ContentsStore
  <2> QED
    BY <1>1, <1>2, <1>3, <2>4, ReturnInv
<1> QED
  BY <1>4, <1>5, <1>6, <1>7 DEF Refuse, Removed, MkdirInside, LeaveAgain

\* A write sends nothing else.
LEMMA OneMessage ==
  ASSUME ClientInv, NEW c \in Clients, call[c].op = "write"
  PROVE  Message(c) \in {"write", "attrs"} /\ (Message(c) = "attrs" => call[c].todo = <<"attrs">>)
<1>1. call[c].todo \in {<<"write">>, <<"attrs">>}
  BY CallFacts DEF Proper
<1>2. Head(<<"write">>) = "write" /\ Head(<<"attrs">>) = "attrs"
  OBVIOUS
<1> QED
  BY <1>1, <1>2 DEF Message

\* The message at the head of a plan belongs to its call.
LEMMA MessageFacts ==
  ASSUME ClientInv, NEW c \in Clients, Busy(c)
  PROVE  Belongs(Message(c), call[c].op)
<1>1. call[c].todo \in Seq(Messages) /\ call[c].todo # <<>>
  BY CallFacts DEF Proper, Busy
<1>2. Head(call[c].todo) \in Range(call[c].todo)
  BY <1>1, RangeTail
<1> QED
  BY <1>2, CallFacts DEF Proper, Message

\* A call that neither reads nor writes sends one message more.
LEMMA SendInv ==
  ASSUME ClientInv, NEW c \in Clients, Busy(c), Message(c) \notin {"read", "write", "attrs"},
         NEW m \in {"removed", "lost", "target", "merge", "again"}, NEW found,
         Set(c, [call[c] EXCEPT !.todo = <<m>>, !.found = found]), UNCHANGED <<list, Open_files>>,
         IsStore(tree', files'), removing' \in Inodes \cup {0}, {closed', exited'} \subseteq BOOLEAN
  PROVE  ClientInv'
<1> DEFINE k == [call[c] EXCEPT !.todo = <<m>>, !.found = found]
<1>1. Proper(call[c], Open_files[c]) /\ call[c].op \notin {"read", "write"}
  <2>1. Belongs(Message(c), call[c].op)
    BY MessageFacts
  <2> QED
    BY <2>1, OneMessage, CallFacts DEF Belongs
<1>2. /\ DOMAIN k = DOMAIN NoCall /\ k.todo = <<m>> /\ k.op = call[c].op
      /\ k.size = call[c].size /\ k.left = call[c].left
  BY <1>1 DEF Proper, NoCall
<1>3. call' = [call EXCEPT ![c] = k]
  BY DEF Set
<1>4. /\ <<m>> \in Seq(Messages) /\ <<m>> # <<>> /\ Last(<<m>>) \notin Lookups \cup {"create2"}
      /\ \A x \in Range(<<m>>) : Belongs(x, call[c].op)
  BY <1>1 DEF Messages, Lookups, Last, Range, Belongs
<1> HIDE DEF k
<1>5. Proper(k, Open_files[c]) /\ Held(k, list[c])
  BY <1>1, <1>2, <1>4 DEF Proper, Held
<1> QED
  BY <1>3, <1>5, CallInv

LEMMA RemoveInv ==
  ASSUME ClientInv, NEW c \in Clients, snfs_remove(c)
  PROVE  ClientInv'
<1> DEFINE k == call[c]
<1>1. Proper(k, Open_files[c]) /\ IsStore(tree, files) /\ {closed, exited} \subseteq BOOLEAN
  BY CallFacts
<1>2. /\ k.dir \in DOMAIN tree /\ Last(k.p) \in DOMAIN tree[k.dir]
      /\ Store!Remove(k.dir, Last(k.p)) /\ removing' = tree[k.dir][Last(k.p)]
      /\ Set(c, [k EXCEPT !.todo = <<"removed">>])
      /\ UNCHANGED <<list, Open_files, calls, closed, exited>>
  BY DEF snfs_remove, Store!Named
<1>3. IsStore(tree', files') /\ removing' \in Inodes
  BY <1>1, <1>2, RemoveStore DEF IsStore
<1>4. Busy(c) /\ Message(c) = "remove"
  BY DEF snfs_remove
<1>5. [k EXCEPT !.todo = <<"removed">>] = [k EXCEPT !.todo = <<"removed">>, !.found = k.found]
  OBVIOUS
<1> QED
  BY <1>1, <1>2, <1>3, <1>4, <1>5, SendInv

\* fs_copy leaves the lock to create its target, and learns that it cannot.
LEMMA LeaveInv ==
  ASSUME ClientInv, NEW c \in Clients, LeaveForTarget(c) \/ TargetRefused(c)
  PROVE  ClientInv'
<1> DEFINE k == call[c]
<1>1. IsStore(tree, files) /\ removing \in Inodes \cup {0} /\ {closed, exited} \subseteq BOOLEAN
  BY CallFacts
<1>2. Busy(c) /\ UNCHANGED <<tree, files, list, Open_files, removing, closed, exited>>
  BY DEF LeaveForTarget, TargetRefused, server
<1>3. CASE LeaveForTarget(c)
  <2>1. Message(c) = "copy" /\ Set(c, [k EXCEPT !.todo = <<"target">>, !.found = Entry(k.dir, Last(k.p))])
    BY <1>3 DEF LeaveForTarget
  <2> QED
    BY <1>1, <1>2, <2>1, SendInv
<1>4. CASE TargetRefused(c)
  <2>1. Message(c) = "target" /\ Set(c, [k EXCEPT !.todo = <<"again">>, !.found = k.found])
    BY <1>4 DEF TargetRefused
  <2> QED
    BY <1>1, <1>2, <2>1, SendInv
<1> QED
  BY <1>3, <1>4

LEMMA TargetInv ==
  ASSUME ClientInv, NEW c \in Clients, CreateTarget(c)
  PROVE  ClientInv'
<1> DEFINE k == call[c]
<1>1. /\ Proper(k, Open_files[c]) /\ Held(k, list[c]) /\ IsStore(tree, files)
      /\ removing \in Inodes \cup {0} /\ {closed, exited} \subseteq BOOLEAN
  BY CallFacts
<1>2. /\ k.dir2 \in DOMAIN tree /\ Store!Create(k.dir2, Last(k.q), FreeInode)
      /\ UNCHANGED <<list, Open_files, removing, closed, exited>> /\ k.op # "none"
  BY DEF CreateTarget, CanCreate, server, Busy
<1>3. IsStore(tree', files')
  BY <1>1, <1>2, CreateStore
<1>4. CASE Message(c) = "target" /\ Set(c, [k EXCEPT !.todo = <<"merge">>])
  <2>1. Busy(c) /\ Set(c, [k EXCEPT !.todo = <<"merge">>, !.found = k.found])
    BY <1>4 DEF CreateTarget
  <2> QED
    BY <1>1, <1>2, <1>3, <1>4, <2>1, SendInv
<1>5. CASE Message(c) = "create2" /\ Continue(c)
  <2> DEFINE r == [k EXCEPT !.todo = Tail(k.todo)]
  <2>1. /\ k.todo \in Seq(Messages) /\ k.todo # <<>> /\ Head(k.todo) = "create2"
        /\ Last(k.todo) \notin Lookups \cup {"create2"}
    BY <1>1, <1>2, <1>5 DEF Proper, Message
  <2>2. /\ Tail(k.todo) \in Seq(Messages) /\ Tail(k.todo) # <<>>
        /\ Last(Tail(k.todo)) = Last(k.todo)
    BY <2>1, MoreToSend
  <2>3. \A m \in Range(Tail(k.todo)) : Belongs(m, k.op)
    BY <1>1, <2>1, RangeTail DEF Proper
  <2>4. /\ DOMAIN r = DOMAIN NoCall /\ r.todo = Tail(k.todo) /\ r.op = k.op
        /\ r.size = k.size /\ r.left = k.left /\ r.found = k.found
    BY <1>1 DEF Proper, NoCall
  <2>5. call' = [call EXCEPT ![c] = r]
    BY <1>5 DEF Continue, Set
  <2> HIDE DEF r
  <2>7. k.op # "write"
    BY <1>5, OneMessage
  <2>6. Proper(r, Open_files[c]) /\ Held(r, list[c])
    BY <1>1, <2>1, <2>2, <2>3, <2>4, <2>7 DEF Proper, Held
  <2> QED
    BY <1>1, <1>2, <1>3, <2>5, <2>6, CallInv
<1> QED
  BY <1>4, <1>5 DEF CreateTarget

\* A read and a write find their descriptor.
LEMMA DescriptorFound ==
  ASSUME ClientInv, NEW c \in Clients, call[c].op \in {"read", "write"}
  PROVE  LET f == call[c].found IN
         /\ Position(c, f) \in 1 .. Len(list[c]) /\ Descriptor(c, f) \in Descriptors
         /\ Descriptor(c, f).fileId = f /\ list[c][Position(c, f)] = Descriptor(c, f)
         /\ \A i \in 1 .. Position(c, f) - 1 : list[c][i].fileId # f
<1> DEFINE f == call[c].found
           I == {j \in 1 .. Len(list[c]) : list[c][j].fileId = f}
<1>1. list[c] \in Seq(Descriptors) /\ I # {}
  BY CallFacts DEF Held
<1>2. I \subseteq Nat /\ 0 \notin I
  BY <1>1, LenProperties
<1>3. Position(c, f) = IF I # {} THEN Min(I) ELSE 0
  BY DEF Position, SelectInSeq
<1> HIDE DEF I
<1>4. Position(c, f) # 0
  BY <1>1, <1>2, <1>3, MinOf
<1> HIDE DEF f
<1>5. /\ Position(c, f) \in 1 .. Len(list[c]) /\ Descriptor(c, f) \in Descriptors
      /\ Descriptor(c, f).fileId = f /\ list[c][Position(c, f)] = Descriptor(c, f)
      /\ \A i \in 1 .. Position(c, f) - 1 : list[c][i].fileId # f
  BY <1>1, <1>4, PositionIs
<1> QED
  BY <1>5 DEF f

\* The descriptor of a read or a write changes, and the call goes on with it or
\* ends.
LEMMA DescriptorInv ==
  ASSUME ClientInv, NEW c \in Clients, call[c].op \in {"read", "write"},
         NEW e \in Descriptors, e.fileId = call[c].found,
         list' = [list EXCEPT ![c] = [list[c] EXCEPT ![Position(c, call[c].found)] = e]],
         NEW r, call' = [call EXCEPT ![c] = r], Proper(r, Open_files[c]),
         r.op \in {"read", "write"} => r.found = call[c].found,
         UNCHANGED <<tree, files, Open_files, removing, closed, exited>>
  PROVE  ClientInv'
<1> DEFINE P == Position(c, call[c].found)
           l == [list[c] EXCEPT ![P] = e]
<1>1. /\ P \in 1 .. Len(list[c]) /\ list[c] \in Seq(Descriptors) /\ Table(list[c], Open_files[c])
      /\ list[c][P].fileId = e.fileId /\ \A i \in 1 .. P - 1 : list[c][i].fileId # e.fileId
  BY CallFacts, DescriptorFound
<1> HIDE DEF P, Descriptors
<1>2. l \in Seq(Descriptors) /\ Len(l) = Len(list[c])
  BY <1>1, SameLength
<1>3. l[P] = e /\ \A i \in 1 .. Len(list[c]) : i # P => l[i] = list[c][i]
  BY <1>1, LenProperties
<1>4. list' = [list EXCEPT ![c] = l]
  BY DEF P
<1> HIDE DEF l
<1>8. FirstUsed(l)
  <2> SUFFICES ASSUME NEW i \in 1 .. Len(l), NEW j \in 1 .. Len(l), i < j, l[i].fileId = l[j].fileId
               PROVE  l[j].write_offset = 0 /\ l[j].read_offset = 0
    BY DEF FirstUsed
  <2>1. list[c][i].fileId = list[c][j].fileId
    BY <1>1, <1>2, <1>3
  <2>2. j # P
    <3>1. ASSUME j = P PROVE i \in 1 .. P - 1
      BY <3>1
    <3> QED
      BY <1>1, <2>1, <3>1
  <2> QED
    BY <1>1, <1>2, <1>3, <2>1, <2>2 DEF Table, FirstUsed
<1>5. Table(l, Open_files[c]) /\ Held(r, l)
  BY <1>1, <1>2, <1>3, <1>8 DEF Table, Held
<1>6. Open_files' = [Open_files EXCEPT ![c] = Open_files[c]]
  BY DEF ClientInv, TypeOK
<1>7. IsStore(tree', files') /\ removing' \in Inodes \cup {0} /\ {closed', exited'} \subseteq BOOLEAN
  BY CallFacts
<1> QED
  BY <1>4, <1>5, <1>6, <1>7, StepInv

\* my_read: what the server gives is no more than what is asked for.
LEMMA ReadInv ==
  ASSUME ClientInv, NEW c \in Clients, ReadChunk(c)
  PROVE  ClientInv'
<1> DEFINE k == call[c]
           f == k.found
           d == Descriptor(c, f)
           nread == Max({0, Min({Chunk, k.left, Len(files[f]) - d.read_offset})})
           e == [d EXCEPT !.read_offset = d.read_offset + nread]
<1>1. /\ Proper(k, Open_files[c]) /\ IsStore(tree, files)
      /\ removing \in Inodes \cup {0} /\ {closed, exited} \subseteq BOOLEAN
  BY CallFacts
<1>2. k.op = "read"
  BY MessageFacts DEF ReadChunk, Belongs
<1>3. UNCHANGED <<tree, files, Open_files, removing, closed, exited>>
  BY DEF ReadChunk, server
<1>4. CASE Return(c) /\ UNCHANGED list
  BY <1>1, <1>3, <1>4, ReturnInv
<1>5. CASE /\ f \in DOMAIN files
           /\ list' = [list EXCEPT ![c][Position(c, f)].read_offset = @ + nread]
           /\ IF k.left = nread THEN Return(c) ELSE Set(c, ToRead(k, nread))
  <2>1. /\ Position(c, f) \in 1 .. Len(list[c]) /\ d \in Descriptors
        /\ d.fileId = f /\ list[c][Position(c, f)] = d
    BY <1>2, DescriptorFound
  <2>2. Chunk \in Nat /\ k.left \in Nat /\ k.left <= Modulus - 1 /\ Modulus \in Nat
    BY <1>1, ClientAssumption DEF Proper
  <2>3. Len(files[f]) - d.read_offset \in Int
    BY <1>1, <1>5, <2>1, LenProperties DEF IsStore, Descriptors
  <2>4. nread \in Nat /\ nread <= k.left
    <3> DEFINE m == Min({Chunk, k.left, Len(files[f]) - d.read_offset})
    <3>1. m \in Int /\ m <= k.left
      <4> DEFINE x == Len(files[f]) - d.read_offset
                 y == k.left
      <4>1. x \in Int /\ y \in Int /\ Chunk \in Int
        BY <2>2, <2>3
      <4> HIDE DEF x, y
      <4>2. Min({Chunk, y, x}) \in Int /\ Min({Chunk, y, x}) <= y
        BY <4>1, MinOfThree
      <4> QED
        BY <4>2 DEF x, y
    <3> HIDE DEF m
    <3>2. Max({0, m}) = IF m <= 0 THEN 0 ELSE m
      BY <3>1, MaxOfZero
    <3>3. nread = Max({0, m})
      BY DEF m
    <3> QED
      BY <2>2, <3>1, <3>2, <3>3
  <2> HIDE DEF nread
  <2>5. list' = [list EXCEPT ![c] = [list[c] EXCEPT ![Position(c, f)] = e]]
    <3>1. list' = [list EXCEPT ![c] = [list[c] EXCEPT ![Position(c, f)] =
                     [list[c][Position(c, f)] EXCEPT !.read_offset =
                        list[c][Position(c, f)].read_offset + nread]]]
      BY <1>5
    <3> HIDE DEF d
    <3> QED
      BY <2>1, <3>1
  <2> HIDE DEF d
  <2>6. e \in Descriptors /\ e.fileId = f
    BY <2>1, <2>4 DEF Descriptors
  <2>7. PICK r : /\ call' = [call EXCEPT ![c] = r] /\ Proper(r, Open_files[c])
                 /\ r.op \in {"read", "write"} => r.found = f
    <3>1. CASE Return(c)
      <4>1. NoCall.op = "none"
        BY DEF NoCall
      <4> QED
        BY <3>1, <4>1, NoCallProper DEF Return, Set
    <3>2. CASE Set(c, ToRead(k, nread))
      <4> DEFINE r == ToRead(k, nread)
      <4>1. /\ DOMAIN r = DOMAIN NoCall /\ r.todo = k.todo /\ r.op = k.op
            /\ r.size = k.size /\ r.left = k.left - nread /\ r.found = k.found
        BY <1>1 DEF Proper, NoCall, ToRead
      <4>2. k.left - nread \in 0 .. Modulus - 1
        BY <2>2, <2>4
      <4> HIDE DEF r
      <4>3. Proper(r, Open_files[c])
        BY <1>1, <4>1, <4>2 DEF Proper
      <4> QED
        BY <3>2, <4>1, <4>3 DEF Set, r
    <3> QED
      BY <1>5, <3>1, <3>2
  <2> HIDE DEF e
  <2> QED
    BY <1>2, <1>3, <2>5, <2>6, <2>7, DescriptorInv
<1> QED
  BY <1>4, <1>5 DEF ReadChunk

\* my_write: the chunk is written ...
LEMMA WriteInv ==
  ASSUME ClientInv, NEW c \in Clients, WriteChunk(c)
  PROVE  ClientInv'
<1> DEFINE k == call[c]
           f == k.found
           offset == Min({Descriptor(c, f).write_offset, Len(files[f])})
           count == Min({Chunk, k.left})
           buffer == [j \in 1 .. count |-> Datum]
<1>1. /\ Proper(k, Open_files[c]) /\ IsStore(tree, files)
      /\ removing \in Inodes \cup {0} /\ {closed, exited} \subseteq BOOLEAN
  BY CallFacts
<1>2. k.op = "write"
  BY MessageFacts DEF WriteChunk, Belongs
<1>3. /\ f \in DOMAIN files /\ Store!WriteAt(f, offset, buffer)
      /\ Set(c, [k EXCEPT !.todo = <<"attrs">>])
      /\ UNCHANGED <<list, Open_files, removing, closed, exited>>
  BY DEF WriteChunk, server
<1>4. files[f] \in Seq({Datum}) /\ Len(files[f]) \in Nat
  BY <1>1, <1>3, LenProperties DEF IsStore
<1>5. offset \in 0 .. Len(files[f])
  <2>1. Descriptor(c, f).write_offset \in Nat
    BY <1>2, DescriptorFound DEF Descriptors
  <2> DEFINE x == Descriptor(c, f).write_offset
             y == Len(files[f])
  <2> HIDE DEF x, y
  <2>2. x \in Nat /\ y \in Nat
    BY <1>4, <2>1 DEF x, y
  <2>3. Min({x, y}) \in 0 .. y
    BY <2>2, MinOfTwo
  <2> QED
    BY <2>3 DEF x, y
<1>6. buffer \in Seq({Datum})
  <2>1. Chunk \in Nat /\ k.left \in Nat
    BY <1>1, ClientAssumption DEF Proper
  <2>2. count \in Nat
    BY <2>1, MinOfTwo
  <2> HIDE DEF count
  <2> QED
    BY <2>2, IsASeq
<1> HIDE DEF offset, buffer
<1>7. Store!Overwrite(files[f], offset, buffer) \in Seq({Datum})
  BY <1>4, <1>5, <1>6, OverwriteType
<1>8. files' = [files EXCEPT ![f] = Store!Overwrite(files[f], offset, buffer)] /\ UNCHANGED tree
  BY <1>3 DEF Store!WriteAt
<1>9. IsStore(tree', files')
  BY <1>1, <1>7, <1>8, ContentsStore
<1>10. /\ <<"attrs">> \in Seq(Messages) /\ <<"attrs">> # <<>>
       /\ Last(<<"attrs">>) \notin Lookups \cup {"create2"}
       /\ \A m \in Range(<<"attrs">>) : Belongs(m, k.op)
  BY <1>2 DEF Messages, Lookups, Last, Range, Belongs
<1>11. [k EXCEPT !.todo = <<"attrs">>] = [k EXCEPT !.todo = <<"attrs">>, !.left = k.left]
  OBVIOUS
<1>12. k.left \in 0 .. Modulus - 1
  BY <1>1 DEF Proper
<1> QED
  BY <1>1, <1>3, <1>9, <1>10, <1>11, <1>12, GoOnInv

\* ... and the descriptor takes the size that comes with the answer.
LEMMA WrittenInv ==
  ASSUME ClientInv, NEW c \in Clients, WriteAnswered(c)
  PROVE  ClientInv'
<1> DEFINE k == call[c]
           f == k.found
           d == Descriptor(c, f)
           wBytes == Min({Chunk, k.left})
           e == [d EXCEPT !.size = Length(f), !.write_offset = d.write_offset + wBytes]
<1>1. /\ Proper(k, Open_files[c]) /\ IsStore(tree, files)
      /\ removing \in Inodes \cup {0} /\ {closed, exited} \subseteq BOOLEAN
  BY CallFacts
<1>2. k.op = "write"
  BY MessageFacts DEF WriteAnswered, Belongs
<1>3. UNCHANGED <<tree, files, Open_files, removing, closed, exited>>
  BY DEF WriteAnswered, server
<1>4. CASE Return(c) /\ UNCHANGED list
  BY <1>1, <1>3, <1>4, ReturnInv
<1>5. CASE /\ Exists(f) /\ Written(c, f, wBytes)
           /\ IF k.left = wBytes THEN Return(c)
              ELSE Set(c, [k EXCEPT !.todo = <<"write">>, !.left = @ - wBytes])
  <2>1. /\ Position(c, f) \in 1 .. Len(list[c]) /\ d \in Descriptors
        /\ d.fileId = f /\ list[c][Position(c, f)] = d
    BY <1>2, DescriptorFound
  <2>2. wBytes \in Nat /\ wBytes <= k.left /\ k.left \in 0 .. Modulus - 1 /\ Modulus \in Nat
    <3>1. Chunk \in Nat /\ k.left \in Nat /\ k.left \in 0 .. Modulus - 1 /\ Modulus \in Nat
      BY <1>1, ClientAssumption DEF Proper
    <3>2. wBytes = IF Chunk <= k.left THEN Chunk ELSE k.left
      BY <3>1, MinOfTwo
    <3> HIDE DEF wBytes
    <3> QED
      BY <3>1, <3>2
  <2>3. Length(f) \in Nat
    BY <1>1, <1>5, LengthType
  <2>4. list' = [list EXCEPT ![c] = [list[c] EXCEPT ![Position(c, f)] = e]]
    BY <1>5 DEF Written
  <2> HIDE DEF d, wBytes
  <2>5. e \in Descriptors /\ e.fileId = f
    <3>1. ASSUME NEW size \in Nat, NEW w \in Nat
          PROVE  LET x == [d EXCEPT !.size = size, !.write_offset = w]
                 IN  x \in Descriptors /\ x.fileId = d.fileId
      BY <2>1 DEF Descriptors
    <3>2. d.write_offset + wBytes \in Nat
      BY <2>1, <2>2 DEF Descriptors
    <3> QED
      BY <2>1, <2>3, <3>1, <3>2
  <2>6. PICK r : /\ call' = [call EXCEPT ![c] = r] /\ Proper(r, Open_files[c])
                 /\ r.op \in {"read", "write"} => r.found = f
    <3>1. CASE Return(c)
      <4>1. NoCall.op = "none"
        BY DEF NoCall
      <4> QED
        BY <3>1, <4>1, NoCallProper DEF Return, Set
    <3>2. CASE Set(c, [k EXCEPT !.todo = <<"write">>, !.left = @ - wBytes])
      <4> DEFINE r == [k EXCEPT !.todo = <<"write">>, !.left = @ - wBytes]
      <4>1. /\ DOMAIN r = DOMAIN NoCall /\ r.todo = <<"write">> /\ r.op = k.op
            /\ r.size = k.size /\ r.left = k.left - wBytes /\ r.found = k.found
        BY <1>1 DEF Proper, NoCall
      <4>2. k.left - wBytes \in 0 .. Modulus - 1
        BY <2>2
      <4>3. /\ <<"write">> \in Seq(Messages) /\ <<"write">> # <<>>
            /\ Last(<<"write">>) \notin Lookups \cup {"create2"}
            /\ \A m \in Range(<<"write">>) : Belongs(m, k.op)
        BY <1>2 DEF Messages, Lookups, Last, Range, Belongs
      <4> HIDE DEF r
      <4>4. Proper(r, Open_files[c])
        BY <1>1, <4>1, <4>2, <4>3 DEF Proper
      <4> QED
        BY <3>2, <4>1, <4>4 DEF Set, r
    <3> QED
      BY <1>5, <3>1, <3>2
  <2> HIDE DEF e
  <2> QED
    BY <1>2, <1>3, <2>4, <2>5, <2>6, DescriptorInv
<1> QED
  BY <1>4, <1>5 DEF WriteAnswered

\* The answer to a defrag, and the exit of fs_get_attrs.
LEMMA RestInv ==
  ASSUME ClientInv, NEW c \in Clients, DefragAnswered(c) \/ AttrsOfNoType(c)
  PROVE  ClientInv'
<1> DEFINE k == call[c]
<1>1. /\ Proper(k, Open_files[c]) /\ IsStore(tree, files)
      /\ removing \in Inodes \cup {0} /\ {closed, exited} \subseteq BOOLEAN
  BY CallFacts
<1>2. /\ UNCHANGED <<tree, files, list, Open_files, removing>>
      /\ {closed', exited'} \subseteq BOOLEAN
  BY <1>1 DEF DefragAnswered, AttrsOfNoType, server
<1>3. CASE UNCHANGED call
  BY <1>1, <1>2, <1>3, ServerInv
<1>4. CASE Return(c)
  BY <1>1, <1>2, <1>4, ReturnInv
<1>5. CASE Busy(c) /\ Message(c) = "defrag" /\ Set(c, [k EXCEPT !.todo = <<"lost">>])
  <2>1. [k EXCEPT !.todo = <<"lost">>] = [k EXCEPT !.todo = <<"lost">>, !.found = k.found]
    OBVIOUS
  <2> QED
    BY <1>1, <1>2, <1>5, <2>1, SendInv
<1> QED
  BY <1>3, <1>4, <1>5 DEF DefragAnswered, AttrsOfNoType

\* my_close takes out one descriptor and counts one less.
LEMMA CloseInv ==
  ASSUME ClientInv, NEW c \in Clients, NEW f, Close(c, f)
  PROVE  ClientInv'
<1> DEFINE l == RemoveAt(list[c], Position(c, f))
<1>1. ByClient
  BY InvByClient
<1>2. /\ call[c].op = "none" /\ Position(c, f) # 0
      /\ list' = [list EXCEPT ![c] = l] /\ Open_files' = [Open_files EXCEPT ![c] = Open_files[c] - 1]
      /\ UNCHANGED <<tree, files, call, removing, closed, exited>>
  BY DEF Close, Busy, server
<1>3. list[c] \in Seq(Descriptors) /\ Table(list[c], Open_files[c])
  BY CallFacts
<1>4. Position(c, f) \in 1 .. Len(list[c])
  BY <1>2, <1>3, PositionIs
<1>5. /\ l \in Seq(Descriptors) /\ Len(l) = Len(list[c]) - 1
      /\ \A j \in 1 .. Len(list[c]) - 1 :
           l[j] = list[c][IF j < Position(c, f) THEN j ELSE j + 1]
  BY <1>3, <1>4, OneLess
<1>6. Len(list[c]) \in Nat /\ MaxOpenFiles \in Nat
  BY <1>3, LenProperties, ClientAssumption
<1> HIDE DEF l
<1>10. FirstUsed(l)
  <2> SUFFICES ASSUME NEW i \in 1 .. Len(l), NEW j \in 1 .. Len(l), i < j, l[i].fileId = l[j].fileId
               PROVE  l[j].write_offset = 0 /\ l[j].read_offset = 0
    BY DEF FirstUsed
  <2> DEFINE at(n) == IF n < Position(c, f) THEN n ELSE n + 1
  <2>1. at(i) \in 1 .. Len(list[c]) /\ at(j) \in 1 .. Len(list[c]) /\ at(i) < at(j)
    BY <1>4, <1>5, <1>6
  <2>2. l[i] = list[c][at(i)] /\ l[j] = list[c][at(j)]
    BY <1>5
  <2> HIDE DEF at
  <2> QED
    BY <1>3, <2>1, <2>2 DEF Table, FirstUsed
<1>7. Table(l, Open_files[c] - 1)
  BY <1>3, <1>5, <1>6, <1>10 DEF Table
<1>8. Proper(call[c], Open_files[c] - 1) /\ Held(call[c], l)
  BY <1>1, <1>2 DEF ByClient, Proper, Held
<1>9. ByClient'
  <2>1. \A d \in Clients : /\ Proper(call'[d], Open_files'[d]) /\ Table(list'[d], Open_files'[d])
                          /\ Held(call'[d], list'[d])
    BY <1>1, <1>2, <1>7, <1>8 DEF ByClient
  <2> QED
    BY <1>1, <1>2, <2>1 DEF ByClient
<1> QED
  BY <1>9, InvByClient, PTL

LEMMA ClientStep == ClientInv /\ [Next]_vars => ClientInv'
<1> SUFFICES ASSUME ClientInv, [Next]_vars PROVE ClientInv'
  OBVIOUS
<1>1. ASSUME NEW c \in Clients, Start(c) PROVE ClientInv'
  BY <1>1, StartInv
<1>2. ASSUME NEW c \in Clients, Proceed(c) PROVE ClientInv'
  BY <1>2, LookupInv, CreateInv, ReturnsInv, RemoveInv, LeaveInv, TargetInv, ReadInv, WriteInv,
     WrittenInv, RestInv DEF Proceed
<1>3. ASSUME NEW c \in Clients, NEW f, Close(c, f) PROVE ClientInv'
  BY <1>3, CloseInv
<1>4. CASE UNCHANGED vars
  <2>1. UNCHANGED <<tree, files, list, Open_files, call, removing, closed, exited>>
    BY <1>4 DEF vars
  <2>2. ByClient
    BY InvByClient
  <2>3. IsStore(tree', files') /\ removing' \in Inodes \cup {0} /\ {closed', exited'} \subseteq BOOLEAN
    BY <2>1, <2>2 DEF ByClient
  <2> QED
    BY <2>1, <2>3, ServerInv
<1> QED
  BY <1>1, <1>2, <1>3, <1>4 DEF Next

-----------------------------------------------------------------------------
(* The descriptors and the lengths of their files                          *)

\* A claim is the greatest of three numbers.
LEMMA ClaimIs ==
  ASSUME NEW d \in Descriptors, NEW k, k.left \in Nat
  PROVE  /\ Unanswered(d, k) \in Nat /\ Claim(d, k) \in Nat
         /\ \/ Claim(d, k) = d.size \/ Claim(d, k) = d.read_offset
            \/ Claim(d, k) = d.write_offset + Unanswered(d, k)
         /\ d.size <= Claim(d, k) /\ d.read_offset <= Claim(d, k)
         /\ d.write_offset + Unanswered(d, k) <= Claim(d, k)
<1>1. Unanswered(d, k) \in Nat
  <2>1. Chunk \in Nat
    BY ClientAssumption
  <2>2. Min({Chunk, k.left}) \in Nat
    BY <2>1, MinOfTwo
  <2> QED
    BY <2>2 DEF Unanswered
<1> DEFINE s == d.size
           r == d.read_offset
           w == d.write_offset + Unanswered(d, k)
           m == Max({s, r, w})
<1>2. s \in Nat /\ r \in Nat /\ w \in Nat
  BY <1>1 DEF Descriptors
<1>3. Claim(d, k) = m
  BY DEF Claim
<1> HIDE DEF s, r, w
<1>4. (m = s \/ m = r \/ m = w) /\ s <= m /\ r <= m /\ w <= m
  BY ONLY <1>2 DEF Max, m
<1> HIDE DEF m
<1>5. m \in Nat
  BY <1>2, <1>4
<1> QED
  BY <1>1, <1>3, <1>4, <1>5 DEF s, r, w

\* A claim does not grow with the call.
LEMMA ClaimNoMore ==
  ASSUME NEW d \in Descriptors, NEW k, k.left \in Nat, NEW r, r.left \in Nat,
         Unanswered(d, r) <= Unanswered(d, k)
  PROVE  Claim(d, r) <= Claim(d, k)
<1>1. d.size \in Nat /\ d.read_offset \in Nat /\ d.write_offset \in Nat
  BY DEF Descriptors
<1>2. /\ Claim(d, k) \in Nat /\ Claim(d, r) \in Nat
      /\ Unanswered(d, r) \in Nat /\ Unanswered(d, k) \in Nat
      /\ \/ Claim(d, r) = d.size \/ Claim(d, r) = d.read_offset
         \/ Claim(d, r) = d.write_offset + Unanswered(d, r)
      /\ d.size <= Claim(d, k) /\ d.read_offset <= Claim(d, k)
      /\ d.write_offset + Unanswered(d, k) <= Claim(d, k)
  BY ClaimIs
<1> QED
  BY <1>1, <1>2

\* What OutrunOnlyByOthers says of one descriptor.
Explained(x, j) ==
  LET f == list'[x][j].fileId IN
  Outruns(list'[x][j], call'[x], files') =>
    \/ \E i \in DOMAIN list[x] \cap {j, j + 1} :
         list[x][i].fileId = f /\ Outruns(list[x][i], call[x], files)
    \/ f \notin DOMAIN files
    \/ Len(files'[f]) < Len(files[f])

LEMMA BeforeAndAfter ==
  ASSUME ClientInv, ClientInv', NEW x \in Clients
  PROVE  /\ list[x] \in Seq(Descriptors) /\ list'[x] \in Seq(Descriptors)
         /\ DOMAIN list[x] = 1 .. Len(list[x]) /\ DOMAIN list'[x] = 1 .. Len(list'[x])
         /\ \A j \in DOMAIN list[x] : list[x][j] \in Descriptors
         /\ \A j \in DOMAIN list'[x] : list'[x][j] \in Descriptors
         /\ call[x].left \in Nat /\ call'[x].left \in Nat
         /\ \A f \in DOMAIN files : Len(files[f]) \in Nat
         /\ \A f \in DOMAIN files' : Len(files'[f]) \in Nat
<1>1. /\ list[x] \in Seq(Descriptors) /\ list'[x] \in Seq(Descriptors)
      /\ IsStore(tree, files) /\ IsStore(tree', files')
  BY DEF ClientInv, TypeOK
<1>2. call[x].left \in Nat /\ call'[x].left \in Nat
  BY ClientAssumption DEF ClientInv, TypeOK
<1> HIDE DEF Descriptors
<1> QED
  BY <1>1, <1>2, LenProperties, ElementOfSeq DEF IsStore

\* It is enough that the claim has not grown, or was too large before.
LEMMA Explain ==
  ASSUME ClientInv, ClientInv', NEW x \in Clients, NEW j \in DOMAIN list'[x],
         NEW i \in DOMAIN list[x] \cap {j, j + 1}, list[x][i].fileId = list'[x][j].fileId,
         LET d == list'[x][j] e == list[x][i] IN
         d.fileId \in DOMAIN files \cap DOMAIN files' =>
           \/ Claim(d, call'[x]) <= Claim(e, call[x])
           \/ Len(files[d.fileId]) < Claim(e, call[x])
           \/ Claim(d, call'[x]) <= Len(files'[d.fileId])
  PROVE  Explained(x, j)
<1> DEFINE d == list'[x][j]
           e == list[x][i]
           f == d.fileId
<1> SUFFICES ASSUME Outruns(d, call'[x], files'), f \in DOMAIN files,
                    ~(Len(files'[f]) < Len(files[f]))
             PROVE  Outruns(e, call[x], files)
  BY DEF Explained
<1>1. f \in DOMAIN files' /\ Len(files'[f]) < Claim(d, call'[x]) /\ e.fileId = f
  BY DEF Outruns
<1>2. /\ Claim(d, call'[x]) \in Nat /\ Claim(e, call[x]) \in Nat
      /\ Len(files[f]) \in Nat /\ Len(files'[f]) \in Nat
  <2>1. /\ d \in Descriptors /\ e \in Descriptors /\ call[x].left \in Nat /\ call'[x].left \in Nat
        /\ Len(files[f]) \in Nat /\ Len(files'[f]) \in Nat
    BY <1>1, BeforeAndAfter
  <2> HIDE DEF d, e
  <2> QED
    BY <2>1, ClaimIs
<1>3. \/ Claim(d, call'[x]) <= Claim(e, call[x])
      \/ Len(files[f]) < Claim(e, call[x])
      \/ Claim(d, call'[x]) <= Len(files'[f])
  BY <1>1
<1> HIDE DEF d, e, f
<1>4. Len(files[f]) < Claim(e, call[x])
  BY <1>1, <1>2, <1>3
<1> QED
  BY <1>1, <1>4 DEF Outruns

\* A descriptor that is the same after the step, wherever it stands then, and
\* has no chunk unanswered that it had not before.
LEMMA Unmoved ==
  ASSUME ClientInv, ClientInv', NEW x \in Clients, NEW j \in DOMAIN list'[x],
         NEW i \in DOMAIN list[x] \cap {j, j + 1}, list'[x][j] = list[x][i],
         call'[x] = call[x] \/ call'[x].todo # <<"attrs">>
  PROVE  Explained(x, j)
<1> DEFINE d == list[x][i]
<1>1. d \in Descriptors /\ call[x].left \in Nat /\ call'[x].left \in Nat
  BY BeforeAndAfter
<1> HIDE DEF d
<1>2. Unanswered(d, call[x]) \in Nat
  BY <1>1, ClaimIs
<1>3. Unanswered(d, call'[x]) <= Unanswered(d, call[x])
  <2>1. CASE call'[x] = call[x]
    BY <1>2, <2>1
  <2>2. CASE call'[x].todo # <<"attrs">>
    <3>1. Unanswered(d, call'[x]) = 0
      BY <2>2 DEF Unanswered
    <3> QED
      BY <1>2, <3>1
  <2> QED
    BY <2>1, <2>2
<1>4. Claim(d, call'[x]) <= Claim(d, call[x])
  BY <1>1, <1>3, ClaimNoMore
<1> QED
  BY <1>4, Explain DEF d

\* A step of one client leaves the descriptors of the others to their claims.
LEMMA OwnExplained ==
  ASSUME ClientInv, ClientInv', NEW c \in Clients,
         \A x \in Clients \ {c} : list'[x] = list[x] /\ call'[x] = call[x],
         \A j \in DOMAIN list'[c] : Explained(c, j)
  PROVE  \A x \in Clients : \A j \in DOMAIN list'[x] : Explained(x, j)
<1> SUFFICES ASSUME NEW x \in Clients \ {c}, NEW j \in DOMAIN list'[x] PROVE Explained(x, j)
  OBVIOUS
<1>1. j \in DOMAIN list[x] \cap {j, j + 1} /\ list'[x][j] = list[x][j] /\ call'[x] = call[x]
  OBVIOUS
<1> QED
  BY <1>1, Unmoved

\* Only a write has a chunk unanswered.
LEMMA NoChunk ==
  ASSUME ClientInv', NEW c \in Clients, call'[c].op # "write"
  PROVE  call'[c].todo # <<"attrs">>
<1>1. \A m \in Range(call'[c].todo) : Belongs(m, call'[c].op)
  BY DEF ClientInv, PlansEnd
<1>2. "attrs" \in Range(<<"attrs">>)
  BY DEF Range
<1> QED
  BY <1>1, <1>2 DEF Belongs

\* A step that leaves the table alone and no chunk unanswered.
LEMMA QuietStep ==
  ASSUME ClientInv, ClientInv', NEW c \in Clients, UNCHANGED list,
         \A x \in Clients \ {c} : call'[x] = call[x],
         call'[c] = call[c] \/ call'[c].todo # <<"attrs">>
  PROVE  \A x \in Clients : \A j \in DOMAIN list'[x] : Explained(x, j)
<1> SUFFICES ASSUME NEW j \in DOMAIN list'[c] PROVE Explained(c, j)
  BY OwnExplained
<1>1. j \in DOMAIN list[c] \cap {j, j + 1} /\ list'[c][j] = list[c][j]
  OBVIOUS
<1> QED
  BY <1>1, Unmoved

\* A call that begins has written nothing,
LEMMA StartQuiet ==
  ASSUME ClientInv, ClientInv', NEW c \in Clients, Start(c)
  PROVE  \A x \in Clients : \A j \in DOMAIN list'[x] : Explained(x, j)
<1>1. PICK k : Begin(c, k)
  BY DEF Start, Open, ChangeName, Combine, Read, Write, Defrag
<1>2. /\ call' = [call EXCEPT ![c] = [k EXCEPT !.todo = Plan(k.op, k.p, k.q)]]
      /\ UNCHANGED list /\ DOMAIN call = Clients
  BY <1>1 DEF Begin, Set, ClientInv, TypeOK
<1>3. call'[c] = [k EXCEPT !.todo = Plan(k.op, k.p, k.q)] /\ DOMAIN call'[c] = DOMAIN NoCall
  BY <1>2 DEF ClientInv, TypeOK
<1>4. DOMAIN k = DOMAIN NoCall
  BY <1>3
<1>5. call'[c].op = k.op /\ call'[c].todo = Plan(k.op, k.p, k.q)
  BY <1>3, <1>4 DEF NoCall
<1>6. call'[c].todo # <<"attrs">>
  <2>1. CASE k.op = "write"
    <3>1. Plan(k.op, k.p, k.q) = <<"write">>
      BY <2>1 DEF Plan
    <3> QED
      BY <1>5, <3>1
  <2>2. CASE k.op # "write"
    BY <1>5, <2>2, NoChunk
  <2> QED
    BY <2>1, <2>2
<1> QED
  BY <1>2, <1>6, QuietStep

\* and neither has one that ends, or goes on with another message.
LEMMA MessageQuiet ==
  ASSUME ClientInv, ClientInv', NEW c \in Clients,
         \/ Resolve(c) \/ Refuse(c) \/ snfs_mkdir(c) \/ snfs_remove(c) \/ CreateTarget(c) \/ Merge(c)
         \/ MkdirInside(c) \/ LeaveForTarget(c) \/ CopyFound(c) \/ TargetRefused(c) \/ LeaveAgain(c)
         \/ Removed(c) \/ AttrsOfNoType(c) \/ DefragAnswered(c)
  PROVE  \A x \in Clients : \A j \in DOMAIN list'[x] : Explained(x, j)
<1> DEFINE k == call[c]
<1>1. UNCHANGED list /\ DOMAIN call = Clients
  BY DEF Resolve, Refuse, snfs_mkdir, snfs_remove, CreateTarget, Merge, Removed, AttrsOfNoType,
         MkdirInside, LeaveForTarget, CopyFound, TargetRefused, LeaveAgain,
         DefragAnswered, ClientInv, TypeOK
<1>2. ASSUME NEW r, Set(c, r), r.todo # <<"attrs">> \/ r.op # "write"
      PROVE  \A x \in Clients : \A j \in DOMAIN list'[x] : Explained(x, j)
  <2>1. call'[c] = r /\ \A x \in Clients \ {c} : call'[x] = call[x]
    BY <1>1, <1>2 DEF Set
  <2>2. call'[c].todo # <<"attrs">>
    BY <1>2, <2>1, NoChunk
  <2> QED
    BY <1>1, <2>1, <2>2, QuietStep
<1>3. CASE UNCHANGED call
  BY <1>1, <1>3, QuietStep
<1>4. CASE Return(c)
  <2>1. NoCall.op = "none"
    BY DEF NoCall
  <2> QED
    BY <1>2, <1>4, <2>1 DEF Return
<1>5. CASE \/ \E m \in {"removed", "lost", "merge", "again"} : Set(c, [k EXCEPT !.todo = <<m>>])
           \/ LeaveForTarget(c)
  <2>1. DOMAIN k = DOMAIN NoCall
    BY CallFacts DEF Proper
  <2>2. ASSUME NEW m \in {"removed", "lost", "merge", "again"}, Set(c, [k EXCEPT !.todo = <<m>>])
        PROVE  \A x \in Clients : \A j \in DOMAIN list'[x] : Explained(x, j)
    <3>1. [k EXCEPT !.todo = <<m>>].todo # <<"attrs">>
      BY <2>1 DEF NoCall
    <3> QED
      BY <1>2, <2>2, <3>1
  <2>3. CASE LeaveForTarget(c)
    <3> DEFINE r == [k EXCEPT !.todo = <<"target">>, !.found = Entry(k.dir, Last(k.p))]
    <3>1. r.todo # <<"attrs">>
      BY <2>1 DEF NoCall
    <3>2. Set(c, r)
      BY <2>3 DEF LeaveForTarget
    <3> HIDE DEF r
    <3> QED
      BY <1>2, <3>1, <3>2
  <2> QED
    BY <1>5, <2>2, <2>3
<1>6. CASE Message(c) = "create2" /\ Continue(c)
  <2>1. k.op # "write" /\ DOMAIN k = DOMAIN NoCall
    BY <1>6, OneMessage, CallFacts DEF Proper
  <2>2. [k EXCEPT !.todo = Tail(@)].op # "write"
    BY <2>1 DEF NoCall
  <2> QED
    BY <1>2, <1>6, <2>2 DEF Continue
<1>7. CASE Resolve(c)
  <2> DEFINE found == [k EXCEPT !.found = Lookup(Asked(k))]
             refused == Answered(k, FALSE, 0, 0)
  <2>1. Busy(c) /\ Message(c) \in Lookups /\ (Set(c, refused) \/ Set(c, found))
    BY <1>7 DEF Resolve
  <2>2. Proper(k, Open_files[c]) /\ k.op # "none" /\ Head(k.todo) \in Lookups
    BY <2>1, CallFacts DEF Busy, Message
  <2>3. found.op # "write"
    <3>1. k.op # "write" /\ DOMAIN k = DOMAIN NoCall
      BY <2>1, <2>2, OneMessage DEF Lookups, Proper
    <3> QED
      BY <3>1 DEF NoCall
  <2>4. Held(refused, <<>>)
    BY <2>2, AnsweredProper
  <2> HIDE DEF refused, found
  <2>5. refused.op # "write"
    BY <2>4 DEF Held
  <2> QED
    BY <1>2, <2>1, <2>3, <2>5
<1> QED
  BY <1>3, <1>4, <1>5, <1>6, <1>7
     DEF Refuse, snfs_mkdir, snfs_remove, CreateTarget, Merge, Removed, AttrsOfNoType, DefragAnswered,
         MkdirInside, CopyFound, TargetRefused, LeaveAgain

\* The descriptor of a file that is opened takes the length it has then, or that
\* of a directory if the file is new.
LEMMA EnqueueExplained ==
  ASSUME ClientInv, ClientInv', NEW c \in Clients, NEW f, NEW size,
         Enqueue(c, f, size), Return(c),
         f \in DOMAIN files => size = Len(files[f]) /\ UNCHANGED files
  PROVE  \A x \in Clients : \A j \in DOMAIN list'[x] : Explained(x, j)
<1> DEFINE d == [fileId |-> f, size |-> size, write_offset |-> 0, read_offset |-> 0]
           l == list[c]
           n == Len(l)
<1>1. /\ list' = [list EXCEPT ![c] = Append(l, d)] /\ call' = [call EXCEPT ![c] = NoCall]
      /\ DOMAIN call = Clients /\ DOMAIN list = Clients
  BY DEF Enqueue, Return, Set, ClientInv, TypeOK
<1>2. \A x \in Clients \ {c} : list'[x] = list[x] /\ call'[x] = call[x]
  BY <1>1
<1>3. list'[c] = Append(l, d) /\ call'[c] = NoCall
  BY <1>1
<1>4. call'[c].todo # <<"attrs">>
  BY <1>3 DEF NoCall
<1> HIDE DEF d
<1>5. /\ n \in Nat /\ DOMAIN l = 1 .. n /\ DOMAIN list'[c] = 1 .. n + 1
      /\ list'[c][n + 1] = d /\ \A j \in 1 .. n : list'[c][j] = l[j]
      /\ d \in Descriptors /\ call'[c].left \in Nat
  <2>1. l \in Seq(Descriptors) /\ n \in Nat /\ DOMAIN l = 1 .. n
    BY BeforeAndAfter, LenProperties
  <2>2. /\ DOMAIN list'[c] = 1 .. n + 1 /\ list'[c][n + 1] = d
        /\ \A j \in 1 .. n : list'[c][j] = l[j]
    BY <1>3, <2>1
  <2>3. n + 1 \in DOMAIN list'[c]
    BY <2>1, <2>2
  <2> QED
    BY <2>1, <2>2, <2>3, BeforeAndAfter
<1>6. ASSUME NEW j \in 1 .. n PROVE Explained(c, j)
  <2>1. /\ j \in DOMAIN list'[c] /\ j \in DOMAIN l \cap {j, j + 1} /\ list'[c][j] = l[j]
    BY <1>5
  <2> QED
    BY <1>4, <2>1, Unmoved
<1>7. Explained(c, n + 1)
  <2> SUFFICES ASSUME Outruns(d, call'[c], files'), f \in DOMAIN files PROVE FALSE
    BY <1>5 DEF Explained, d
  <2>1. d.fileId = f /\ d.size = size /\ d.read_offset = 0 /\ d.write_offset = 0
    BY DEF d
  <2>2. size \in Nat /\ Len(files'[f]) = size
    BY <1>5, <2>1 DEF Descriptors
  <2>3. size < Claim(d, call'[c])
    BY <2>1, <2>2 DEF Outruns
  <2>4. Unanswered(d, call'[c]) = 0
    BY <1>4 DEF Unanswered
  <2>5. \/ Claim(d, call'[c]) = d.size \/ Claim(d, call'[c]) = d.read_offset
        \/ Claim(d, call'[c]) = d.write_offset + Unanswered(d, call'[c])
    BY <1>5, ClaimIs
  <2> QED
    BY <2>1, <2>2, <2>3, <2>4, <2>5
<1>8. ASSUME NEW j \in DOMAIN list'[c] PROVE Explained(c, j)
  <2>1. j \in 1 .. n \/ j = n + 1
    BY <1>5
  <2> QED
    BY <1>6, <1>7, <2>1
<1> QED
  BY <1>2, <1>8, OwnExplained

LEMMA OpenExplained ==
  ASSUME ClientInv, ClientInv', NEW c \in Clients, Attributes(c) \/ snfs_create(c)
  PROVE  \A x \in Clients : \A j \in DOMAIN list'[x] : Explained(x, j)
<1> DEFINE k == call[c]
<1>1. CASE snfs_create(c)
  <2>1. PICK i : Enqueue(c, i, k.size) /\ Return(c) /\ Store!Create(k.dir, Last(k.p), i)
    BY <1>1 DEF snfs_create
  <2>2. i \notin DOMAIN files
    BY <2>1 DEF Store!Create, Store!Used
  <2> QED
    BY <2>1, <2>2, EnqueueExplained
<1>2. CASE Attributes(c)
  <2> DEFINE i == k.found
             size == IF Exists(i) THEN Length(i) ELSE 0
             next == Answered(k, Exists(i), i, size)
  <2>1. Busy(c) /\ Message(c) \in Lookups /\ UNCHANGED files
    BY <1>2 DEF Attributes
  <2>2. CASE Enqueue(c, i, Length(i)) /\ Return(c)
    <3>1. i \in DOMAIN files => Length(i) = Len(files[i])
      BY DEF Length
    <3> QED
      BY <2>1, <2>2, <3>1, EnqueueExplained
  <2>3. CASE Set(c, next) /\ UNCHANGED list
    <3>1. Proper(k, Open_files[c]) /\ k.op # "none" /\ Head(k.todo) \in Lookups
      BY <2>1, CallFacts DEF Busy, Message
    <3>2. size \in Nat /\ Exists(i) \in BOOLEAN
      BY CallFacts, LengthType DEF Exists
    <3> HIDE DEF size, i
    <3>3. Held(next, <<>>)
      BY <3>1, <3>2, AnsweredProper
    <3> HIDE DEF next
    <3>4. next.op # "write"
      BY <3>3 DEF Held
    <3>5. call'[c] = next /\ \A x \in Clients \ {c} : call'[x] = call[x]
      BY <2>3 DEF Set, ClientInv, TypeOK
    <3>6. call'[c].todo # <<"attrs">>
      BY <3>4, <3>5, NoChunk
    <3> QED
      BY <2>3, <3>5, <3>6, QuietStep
  <2> QED
    BY <1>2, <2>2, <2>3 DEF Attributes
<1> QED
  BY <1>1, <1>2

\* my_close moves the descriptors behind the one it takes out one place ahead.
LEMMA CloseExplained ==
  ASSUME ClientInv, ClientInv', NEW c \in Clients, NEW f, Close(c, f)
  PROVE  \A x \in Clients : \A j \in DOMAIN list'[x] : Explained(x, j)
<1> DEFINE l == RemoveAt(list[c], Position(c, f))
           n == Len(list[c])
<1>1. /\ Position(c, f) # 0 /\ list' = [list EXCEPT ![c] = l] /\ UNCHANGED call
      /\ DOMAIN list = Clients
  BY DEF Close, ClientInv, TypeOK
<1>2. list[c] \in Seq(Descriptors) /\ n \in Nat /\ DOMAIN list[c] = 1 .. n
  BY BeforeAndAfter, LenProperties
<1>3. Position(c, f) \in 1 .. n
  BY <1>1, <1>2, PositionIs
<1>4. /\ l \in Seq(Descriptors) /\ Len(l) = n - 1
      /\ \A j \in 1 .. n - 1 : l[j] = list[c][IF j < Position(c, f) THEN j ELSE j + 1]
  BY <1>2, <1>3, OneLess
<1> HIDE DEF l
<1>5. list'[c] = l /\ DOMAIN list'[c] = 1 .. n - 1
  BY <1>1, <1>4, BeforeAndAfter
<1>6. ASSUME NEW j \in DOMAIN list'[c] PROVE Explained(c, j)
  <2> DEFINE i == IF j < Position(c, f) THEN j ELSE j + 1
  <2>1. i \in DOMAIN list[c] \cap {j, j + 1}
    BY <1>2, <1>3, <1>5
  <2>2. list'[c][j] = list[c][i]
    BY <1>4, <1>5
  <2> HIDE DEF i
  <2> QED
    BY <1>1, <2>1, <2>2, Unmoved
<1>7. \A x \in Clients \ {c} : list'[x] = list[x] /\ call'[x] = call[x]
  BY <1>1
<1> QED
  BY <1>6, <1>7, OwnExplained

\* The descriptor of a read or a write changes; the others do not.
LEMMA DescriptorExplained ==
  ASSUME ClientInv, ClientInv', NEW c \in Clients, call[c].op \in {"read", "write"},
         NEW e, list' = [list EXCEPT ![c] = [list[c] EXCEPT ![Position(c, call[c].found)] = e]],
         NEW r, call' = [call EXCEPT ![c] = r], r.todo # <<"attrs">>,
         e.fileId = call[c].found, UNCHANGED files,
         LET d == Descriptor(c, call[c].found) IN
         call[c].found \in DOMAIN files =>
           Claim(e, r) <= Claim(d, call[c]) \/ Claim(e, r) <= Len(files[call[c].found])
  PROVE  \A x \in Clients : \A j \in DOMAIN list'[x] : Explained(x, j)
<1> DEFINE P == Position(c, call[c].found)
           d == Descriptor(c, call[c].found)
           n == Len(list[c])
<1>1. /\ n \in Nat /\ DOMAIN list[c] = 1 .. n /\ P \in 1 .. n /\ list[c][P] = d
      /\ d.fileId = call[c].found
  BY BeforeAndAfter, DescriptorFound, LenProperties
<1>2. /\ \A x \in Clients \ {c} : list'[x] = list[x] /\ call'[x] = call[x]
      /\ list'[c] = [list[c] EXCEPT ![P] = e] /\ call'[c] = r
  BY DEF ClientInv, TypeOK
<1> HIDE DEF P, d
<1>3. /\ DOMAIN list'[c] = 1 .. n /\ list'[c][P] = e
      /\ \A j \in 1 .. n : j # P => list'[c][j] = list[c][j]
  BY <1>1, <1>2
<1>4. ASSUME NEW j \in 1 .. n, j # P PROVE Explained(c, j)
  <2>1. j \in DOMAIN list'[c] /\ j \in DOMAIN list[c] \cap {j, j + 1} /\ list'[c][j] = list[c][j]
    BY <1>1, <1>3, <1>4
  <2> QED
    BY <1>2, <2>1, Unmoved
<1>5. Explained(c, P)
  <2>1. P \in DOMAIN list'[c] /\ P \in DOMAIN list[c] \cap {P, P + 1}
    BY <1>1, <1>3
  <2>2. list[c][P].fileId = list'[c][P].fileId
    BY <1>1, <1>3
  <2>3. list'[c][P].fileId \in DOMAIN files \cap DOMAIN files' =>
          \/ Claim(list'[c][P], call'[c]) <= Claim(list[c][P], call[c])
          \/ Claim(list'[c][P], call'[c]) <= Len(files'[list'[c][P].fileId])
    BY <1>1, <1>2, <1>3 DEF d
  <2> QED
    BY <2>1, <2>2, <2>3, Explain
<1> QED
  BY <1>2, <1>3, <1>4, <1>5, OwnExplained

\* What the server gives to a read is in the file.
LEMMA ReadExplained ==
  ASSUME ClientInv, ClientInv', NEW c \in Clients, ReadChunk(c)
  PROVE  \A x \in Clients : \A j \in DOMAIN list'[x] : Explained(x, j)
<1> DEFINE k == call[c]
           f == k.found
           d == Descriptor(c, f)
           nread == Max({0, Min({Chunk, k.left, Len(files[f]) - d.read_offset})})
           e == [d EXCEPT !.read_offset = d.read_offset + nread]
<1>1. k.op = "read" /\ DOMAIN k = DOMAIN NoCall /\ DOMAIN call = Clients /\ UNCHANGED files
  BY MessageFacts, CallFacts DEF ReadChunk, Belongs, Proper, ClientInv, TypeOK
<1>2. PICK r : call' = [call EXCEPT ![c] = r] /\ (r = NoCall \/ r = ToRead(k, nread))
  BY DEF ReadChunk, Return, Set
<1>3. r.todo # <<"attrs">> /\ r.left \in Nat /\ call'[c] = r
  <2>1. NoCall.op # "write" /\ ToRead(k, nread).op # "write"
    BY <1>1 DEF NoCall, ToRead
  <2> HIDE DEF nread
  <2>2. call'[c] = r /\ r.op # "write"
    BY <1>1, <1>2, <2>1
  <2> QED
    BY <2>2, NoChunk, BeforeAndAfter
<1>4. CASE UNCHANGED list
  BY <1>1, <1>2, <1>3, <1>4, QuietStep
<1>5. CASE /\ f \in DOMAIN files
           /\ list' = [list EXCEPT ![c][Position(c, f)].read_offset = @ + nread]
  <2>1. d \in Descriptors /\ d.fileId = f /\ list[c][Position(c, f)] = d
    BY <1>1, DescriptorFound
  <2>2. Chunk \in Int /\ k.left \in Nat /\ Len(files[f]) \in Nat
    BY <1>5, BeforeAndAfter, ClientAssumption
  <2>3. d.size \in Nat /\ d.read_offset \in Nat /\ d.write_offset \in Nat
    BY <2>1 DEF Descriptors
  <2>4. nread \in Nat /\ (nread = 0 \/ d.read_offset + nread <= Len(files[f]))
    <3> DEFINE x == Len(files[f]) - d.read_offset
               y == k.left
               m == Min({Chunk, y, x})
    <3>1. x \in Int /\ y \in Int
      BY <2>2, <2>3
    <3>2. nread = Max({0, m})
      OBVIOUS
    <3> HIDE DEF x, y
    <3>3. m \in Int /\ m <= x
      BY <2>2, <3>1, MinOfThree
    <3> HIDE DEF m, nread
    <3>4. nread = IF m <= 0 THEN 0 ELSE m
      BY <3>2, <3>3, MaxOfZero
    <3>5. nread \in Nat /\ (nread = 0 \/ nread <= x)
      BY <3>1, <3>3, <3>4
    <3> QED
      BY <2>2, <2>3, <3>5 DEF x
  <2> HIDE DEF nread
  <2>5. list' = [list EXCEPT ![c] = [list[c] EXCEPT ![Position(c, f)] = e]]
    <3>1. list' = [list EXCEPT ![c] = [list[c] EXCEPT ![Position(c, f)] =
                     [list[c][Position(c, f)] EXCEPT !.read_offset =
                        list[c][Position(c, f)].read_offset + nread]]]
      BY <1>5
    <3> HIDE DEF d
    <3> QED
      BY <2>1, <3>1
  <2> HIDE DEF d
  <2>6. /\ e \in Descriptors /\ e.fileId = f /\ e.size = d.size /\ e.write_offset = d.write_offset
        /\ e.read_offset = d.read_offset + nread
    BY <2>1, <2>4 DEF Descriptors
  <2> HIDE DEF e
  <2>7. Claim(e, r) <= Claim(d, k) \/ Claim(e, r) <= Len(files[f])
    <3>1. Unanswered(e, r) = 0
      BY <1>3 DEF Unanswered
    <3>2. /\ Claim(e, r) \in Nat
          /\ \/ Claim(e, r) = e.size \/ Claim(e, r) = e.read_offset
             \/ Claim(e, r) = e.write_offset + Unanswered(e, r)
      BY <1>3, <2>6, ClaimIs
    <3>3. /\ Unanswered(d, k) \in Nat /\ Claim(d, k) \in Nat
          /\ d.size <= Claim(d, k) /\ d.read_offset <= Claim(d, k)
          /\ d.write_offset + Unanswered(d, k) <= Claim(d, k)
      BY <2>1, <2>2, ClaimIs
    <3> QED
      BY <2>2, <2>3, <2>4, <2>6, <3>1, <3>2, <3>3
  <2> QED
    BY <1>1, <1>2, <1>3, <2>5, <2>6, <2>7, DescriptorExplained DEF d
<1> QED
  BY <1>4, <1>5 DEF ReadChunk

\* The chunk that is written reaches no further than the file does then, unless
\* the descriptor was ahead of the file before.
LEMMA WriteExplained ==
  ASSUME ClientInv, ClientInv', NEW c \in Clients, WriteChunk(c)
  PROVE  \A x \in Clients : \A j \in DOMAIN list'[x] : Explained(x, j)
<1> DEFINE k == call[c]
           f == k.found
           d == Descriptor(c, f)
           n == Len(files[f])
           offset == Min({d.write_offset, n})
           count == Min({Chunk, k.left})
           r == [k EXCEPT !.todo = <<"attrs">>]
<1>1. /\ k.op = "write" /\ DOMAIN k = DOMAIN NoCall /\ DOMAIN call = Clients
      /\ list[c] \in Seq(Descriptors) /\ FirstUsed(list[c]) /\ IsStore(tree, files)
  BY MessageFacts, CallFacts DEF WriteChunk, Belongs, Proper, Table, ClientInv, TypeOK
<1>2. /\ f \in DOMAIN files /\ Store!WriteAt(f, offset, [j \in 1 .. count |-> Datum])
      /\ call' = [call EXCEPT ![c] = r] /\ UNCHANGED list
  BY DEF WriteChunk, Set
<1>3. /\ \A x \in Clients \ {c} : list'[x] = list[x] /\ call'[x] = call[x]
      /\ list'[c] = list[c] /\ call'[c] = r
  BY <1>1, <1>2
<1>4. r.todo = <<"attrs">> /\ r.found = f /\ r.left = k.left /\ k.left \in Nat
  BY <1>1, BeforeAndAfter DEF NoCall
<1>5. /\ Position(c, f) \in 1 .. Len(list[c]) /\ d \in Descriptors /\ d.fileId = f
      /\ list[c][Position(c, f)] = d /\ \A i \in 1 .. Position(c, f) - 1 : list[c][i].fileId # f
  BY <1>1, DescriptorFound
<1>6. files[f] \in Seq({Datum}) /\ n \in Nat
  BY <1>1, <1>2, LenProperties DEF IsStore
<1>7. count \in Nat
  <2>1. Chunk \in Nat /\ k.left \in Nat
    BY <1>4, ClientAssumption
  <2> QED
    BY <2>1, MinOfTwo
<1>8. /\ offset \in 0 .. n
      /\ offset = IF d.write_offset <= n THEN d.write_offset ELSE n
  <2> DEFINE w == d.write_offset
  <2>1. w \in Nat
    BY <1>5 DEF Descriptors
  <2> HIDE DEF w, n
  <2>2. /\ Min({w, n}) \in 0 .. n
        /\ Min({w, n}) = IF w <= n THEN w ELSE n
    BY <1>6, <2>1, MinOfTwo
  <2> QED
    BY <2>2 DEF w
<1>9. Len(files'[f]) \in Nat /\ offset + count <= Len(files'[f])
  <2> DEFINE buffer == [j \in 1 .. count |-> Datum]
  <2> HIDE DEF count
  <2>1. buffer \in Seq({Datum}) /\ Len(buffer) = count
    <3>1. \A j \in 1 .. count : Datum \in {Datum}
      OBVIOUS
    <3> QED
      BY <1>7, <3>1, IsASeq, LenProperties
  <2> HIDE DEF buffer, offset
  <2>2. Len(Store!Overwrite(files[f], offset, buffer)) =
          IF offset + count <= n THEN n ELSE offset + count
    BY <1>6, <1>8, <2>1, OverwriteType
  <2>3. files'[f] = Store!Overwrite(files[f], offset, buffer)
    BY <1>2 DEF Store!WriteAt, buffer, count
  <2> HIDE DEF n
  <2> QED
    BY <1>6, <1>7, <1>8, <2>2, <2>3
<1> HIDE DEF r, count, offset
<1>10. ASSUME NEW j \in DOMAIN list'[c] PROVE Explained(c, j)
  <2> DEFINE e == list[c][j]
  <2>1. /\ j \in DOMAIN list[c] \cap {j, j + 1} /\ list'[c][j] = e /\ e \in Descriptors
        /\ j \in 1 .. Len(list[c]) /\ Len(list[c]) \in Nat
    BY <1>3, BeforeAndAfter, LenProperties
  <2> HIDE DEF e
  <2>2. /\ Unanswered(e, k) \in Nat /\ Claim(e, k) \in Nat
        /\ e.size <= Claim(e, k) /\ e.read_offset <= Claim(e, k)
        /\ e.write_offset + Unanswered(e, k) <= Claim(e, k)
    BY <1>4, <2>1, ClaimIs
  <2>3. /\ Unanswered(e, r) \in Nat /\ Claim(e, r) \in Nat
        /\ \/ Claim(e, r) = e.size \/ Claim(e, r) = e.read_offset
           \/ Claim(e, r) = e.write_offset + Unanswered(e, r)
    BY <1>4, <2>1, ClaimIs
  <2>4. e.write_offset \in Nat /\ d.write_offset \in Nat
    BY <1>5, <2>1 DEF Descriptors
  <2>5. CASE e.fileId # f
    <3>1. Unanswered(e, r) = 0
      BY <1>4, <2>5 DEF Unanswered
    <3>2. Unanswered(e, r) <= Unanswered(e, k)
      BY <2>2, <3>1
    <3>3. Claim(e, r) <= Claim(e, k)
      BY <1>4, <2>1, <3>2, ClaimNoMore
    <3> QED
      BY <1>3, <2>1, <3>3, Explain DEF e
  <2>6. CASE e.fileId = f
    <3>1. Unanswered(e, r) = count
      BY <1>4, <2>6 DEF Unanswered, count
    <3>2. e.write_offset <= d.write_offset
      <4>1. ~(j \in 1 .. Position(c, f) - 1)
        BY <1>5, <2>6 DEF e
      <4>2. j = Position(c, f) \/ Position(c, f) < j
        BY <1>5, <2>1, <4>1
      <4>3. CASE j = Position(c, f)
        BY <1>5, <2>4, <4>3 DEF e
      <4>4. CASE Position(c, f) < j
        <5>1. e.write_offset = 0
          BY <1>1, <1>5, <2>1, <2>6, <4>4 DEF FirstUsed, e
        <5> QED
          BY <2>4, <5>1
      <4> QED
        BY <4>2, <4>3, <4>4
    <3> HIDE DEF d, n
    <3>3. \/ Claim(e, r) <= Claim(e, k) \/ n < Claim(e, k) \/ Claim(e, r) <= Len(files'[f])
      BY <1>6, <1>7, <1>8, <1>9, <2>2, <2>3, <2>4, <3>1, <3>2
    <3> QED
      BY <1>3, <2>1, <2>6, <3>3, Explain DEF e, n
  <2> QED
    BY <2>5, <2>6
<1> QED
  BY <1>3, <1>10, OwnExplained

\* The answer to a write brings the length that the file has.
LEMMA WrittenExplained ==
  ASSUME ClientInv, ClientInv', NEW c \in Clients, WriteAnswered(c)
  PROVE  \A x \in Clients : \A j \in DOMAIN list'[x] : Explained(x, j)
<1> DEFINE k == call[c]
           f == k.found
           d == Descriptor(c, f)
           wBytes == Min({Chunk, k.left})
           e == [d EXCEPT !.size = Length(f), !.write_offset = d.write_offset + wBytes]
<1>1. /\ k.op = "write" /\ DOMAIN k = DOMAIN NoCall /\ DOMAIN call = Clients /\ UNCHANGED files
      /\ IsStore(tree, files)
  BY MessageFacts, CallFacts DEF WriteAnswered, Belongs, Proper, ClientInv, TypeOK
<1>2. k.todo = <<"attrs">>
  BY <1>1, OneMessage DEF WriteAnswered
<1>3. PICK r : /\ call' = [call EXCEPT ![c] = r]
               /\ r = NoCall \/ r = [k EXCEPT !.todo = <<"write">>, !.left = k.left - wBytes]
  BY DEF WriteAnswered, Return, Set
<1>4. r.todo # <<"attrs">> /\ r.left \in Nat /\ call'[c] = r
  <2>1. /\ NoCall.todo # <<"attrs">>
        /\ [k EXCEPT !.todo = <<"write">>, !.left = k.left - wBytes].todo # <<"attrs">>
    BY <1>1 DEF NoCall
  <2> HIDE DEF wBytes
  <2>2. call'[c] = r
    BY <1>1, <1>3
  <2> QED
    BY <1>3, <2>1, <2>2, BeforeAndAfter
<1>5. CASE UNCHANGED list
  BY <1>1, <1>3, <1>4, <1>5, QuietStep
<1>6. CASE Exists(f) /\ Written(c, f, wBytes)
  <2>1. d \in Descriptors /\ d.fileId = f /\ k.left \in Nat
    BY <1>1, DescriptorFound, BeforeAndAfter
  <2>2. d.size \in Nat /\ d.read_offset \in Nat /\ d.write_offset \in Nat /\ Length(f) \in Nat
    BY <1>1, <1>6, <2>1, LengthType DEF Descriptors
  <2>3. Unanswered(d, k) = wBytes
    BY <1>2, <2>1 DEF Unanswered
  <2>4. /\ Unanswered(d, k) \in Nat /\ Claim(d, k) \in Nat
        /\ d.read_offset <= Claim(d, k)
        /\ d.write_offset + Unanswered(d, k) <= Claim(d, k)
    BY <2>1, ClaimIs
  <2>5. list' = [list EXCEPT ![c] = [list[c] EXCEPT ![Position(c, f)] = e]]
    BY <1>6 DEF Written
  <2> HIDE DEF d, wBytes
  <2>6. /\ e \in Descriptors /\ e.fileId = f /\ e.size = Length(f)
        /\ e.read_offset = d.read_offset /\ e.write_offset = d.write_offset + wBytes
    <3>1. ASSUME NEW size \in Nat, NEW w \in Nat
          PROVE  LET x == [d EXCEPT !.size = size, !.write_offset = w]
                 IN  /\ x \in Descriptors /\ x.fileId = d.fileId /\ x.size = size
                     /\ x.write_offset = w /\ x.read_offset = d.read_offset
      BY <2>1 DEF Descriptors
    <3>2. d.write_offset + wBytes \in Nat
      BY <2>2, <2>3, <2>4
    <3> QED
      BY <2>1, <2>2, <3>1, <3>2
  <2> HIDE DEF e
  <2>7. f \in DOMAIN files => Claim(e, r) <= Claim(d, k) \/ Claim(e, r) <= Len(files[f])
    <3>1. Unanswered(e, r) = 0
      BY <1>4 DEF Unanswered
    <3>2. /\ Claim(e, r) \in Nat
          /\ \/ Claim(e, r) = e.size \/ Claim(e, r) = e.read_offset
             \/ Claim(e, r) = e.write_offset + Unanswered(e, r)
      BY <1>4, <2>6, ClaimIs
    <3>3. f \in DOMAIN files => Length(f) = Len(files[f])
      BY DEF Length
    <3> QED
      BY <2>2, <2>3, <2>4, <2>6, <3>1, <3>2, <3>3
  <2> QED
    BY <1>1, <1>3, <1>4, <2>5, <2>6, <2>7, DescriptorExplained DEF d
<1> QED
  BY <1>5, <1>6 DEF WriteAnswered

LEMMA StepExplained ==
  ClientInv /\ ClientInv' /\ [Next]_vars
    => \A x \in Clients : \A j \in DOMAIN list'[x] : Explained(x, j)
<1> DEFINE all == \A x \in Clients : \A j \in DOMAIN list'[x] : Explained(x, j)
<1> SUFFICES ASSUME ClientInv, ClientInv', [Next]_vars PROVE all
  OBVIOUS
<1> HIDE DEF all
<1>1. ASSUME NEW c \in Clients, Start(c) PROVE all
  BY <1>1, StartQuiet DEF all
<1>2. ASSUME NEW c \in Clients, Proceed(c) PROVE all
  BY <1>2, MessageQuiet, OpenExplained, ReadExplained, WriteExplained, WrittenExplained
     DEF Proceed, all
<1>3. ASSUME NEW c \in Clients, NEW f, Close(c, f) PROVE all
  BY <1>3, CloseExplained DEF all
<1>4. CASE UNCHANGED vars
  <2>1. UNCHANGED <<list, call>>
    BY <1>4 DEF vars
  <2>2. ASSUME NEW x \in Clients, NEW j \in DOMAIN list'[x] PROVE Explained(x, j)
    <3>1. j \in DOMAIN list[x] \cap {j, j + 1} /\ list'[x][j] = list[x][j]
      BY <2>1
    <3> QED
      BY <2>1, <3>1, Unmoved
  <2> QED
    BY <2>2 DEF all
<1> QED
  BY <1>1, <1>2, <1>3, <1>4 DEF Next

-----------------------------------------------------------------------------

\* For any number of clients, whatever their calls and however their messages
\* interleave at the server: the table of open files and its count agree and
\* stay within the limit, and a read or a write keeps its descriptor.
THEOREM ClientCorrect == Spec => []ClientInv
BY InitClient, ClientStep, PTL DEF Spec

\* Reads and writes never bring a descriptor to claim more than its file holds:
\* only a file that becomes shorter, or an inode number that is used again, does.
THEOREM WritesStayInside == Spec => OutrunOnlyByOthers
<1>1. ClientInv /\ ClientInv' /\ [Next]_vars =>
        \A c \in Clients : \A j \in DOMAIN list'[c] :
          LET f == list'[c][j].fileId IN
          Outruns(list'[c][j], call'[c], files') =>
            \/ \E i \in DOMAIN list[c] \cap {j, j + 1} :
                 list[c][i].fileId = f /\ Outruns(list[c][i], call[c], files)
            \/ f \notin DOMAIN files
            \/ Len(files'[f]) < Len(files[f])
  BY StepExplained DEF Explained
<1> QED
  BY <1>1, ClientCorrect, PTL DEF Spec, OutrunOnlyByOthers
=============================================================================
