------------------------------ MODULE DataFacts ------------------------------
(***************************************************************************)
(* Facts about the data of the models: what adding to and taking from a    *)
(* queue does to the set of its members; induction over naturals and over  *)
(* finite sets, by the least counterexample; the recursion of folds; and   *)
(* sums over the functions that count something for each thread.           *)
(***************************************************************************)
EXTENDS Integers, Sequences, FiniteSets, SequencesExt, SequenceTheorems, FiniteSetTheorems,
        WellFoundedInduction, NaturalsInduction, TLAPS

-----------------------------------------------------------------------------
(* Queues: those of the mutex and of the monitor, the socket and the ring of *)
(* requests.                                                                 *)

\* A queue with one more member, as queue_insert leaves it.
LEMMA RangeAppend ==
  ASSUME NEW S, NEW s \in Seq(S), NEW x \in S
  PROVE  /\ Range(Append(s, x)) = Range(s) \cup {x}
         /\ IsInjective(s) /\ x \notin Range(s) => IsInjective(Append(s, x))
<1> DEFINE a == Append(s, x)
<1>1. /\ Len(s) \in Nat /\ DOMAIN s = 1 .. Len(s)
      /\ DOMAIN a = 1 .. Len(s) + 1
      /\ \A i \in 1 .. Len(s) : a[i] = s[i]
      /\ a[Len(s) + 1] = x
  BY AppendProperties, LenProperties
<1> HIDE DEF a
<1>2. Range(a) = Range(s) \cup {x}
  BY <1>1 DEF Range
<1>3. ASSUME IsInjective(s), x \notin Range(s) PROVE IsInjective(a)
  <2> SUFFICES ASSUME NEW i \in 1 .. Len(s) + 1, NEW j \in 1 .. Len(s) + 1, a[i] = a[j]
               PROVE  i = j
    BY <1>1 DEF IsInjective
  <2>1. CASE i \in 1 .. Len(s) /\ j \in 1 .. Len(s)
    BY <1>1, <1>3, <2>1 DEF IsInjective
  <2>2. CASE i = Len(s) + 1 \/ j = Len(s) + 1
    BY <1>1, <1>3, <2>2 DEF Range
  <2> QED
    BY <1>1, <2>1, <2>2
<1> QED
  BY <1>2, <1>3 DEF a

\* Taking from the front takes one element, and the only such one.
LEMMA RangeTail ==
  ASSUME NEW S, NEW s \in Seq(S), s # <<>>
  PROVE  /\ Range(s) = Range(Tail(s)) \cup {Head(s)}
         /\ IsInjective(s) => IsInjective(Tail(s)) /\ Head(s) \notin Range(Tail(s))
<1> DEFINE r == Tail(s)
<1>1. /\ Len(s) \in Nat \ {0} /\ DOMAIN s = 1 .. Len(s)
      /\ DOMAIN r = 1 .. Len(s) - 1
      /\ \A i \in 1 .. Len(s) - 1 : r[i] = s[i + 1]
      /\ Head(s) = s[1]
  BY HeadTailProperties, LenProperties, EmptySeq
<1> HIDE DEF r
<1>2. Range(s) = Range(r) \cup {Head(s)}
  <2>1. ASSUME NEW i \in 1 .. Len(s) PROVE s[i] \in Range(r) \cup {s[1]}
    <3>1. CASE i = 1
      BY <3>1
    <3>2. CASE i # 1
      <4>1. i - 1 \in 1 .. Len(s) - 1 /\ (i - 1) + 1 = i
        BY <1>1, <3>2
      <4> QED
        BY <1>1, <4>1 DEF Range
    <3> QED
      BY <3>1, <3>2
  <2>2. ASSUME NEW i \in 1 .. Len(s) - 1 PROVE r[i] \in Range(s)
    BY <1>1 DEF Range
  <2>3. s[1] \in Range(s)
    BY <1>1 DEF Range
  <2> QED
    BY <1>1, <2>1, <2>2, <2>3 DEF Range
<1>3. ASSUME IsInjective(s) PROVE IsInjective(r) /\ Head(s) \notin Range(r)
  <2>1. ASSUME NEW i \in 1 .. Len(s) - 1, NEW j \in 1 .. Len(s) - 1, r[i] = r[j]
        PROVE  i = j
    <3>1. i + 1 \in DOMAIN s /\ j + 1 \in DOMAIN s /\ s[i + 1] = s[j + 1]
      BY <1>1, <2>1
    <3>2. i + 1 = j + 1
      BY <1>3, <3>1 DEF IsInjective
    <3> QED
      BY <3>2
  <2>2. ASSUME NEW i \in 1 .. Len(s) - 1 PROVE r[i] # s[1]
    <3>1. i + 1 \in DOMAIN s /\ 1 \in DOMAIN s /\ i + 1 # 1
      BY <1>1
    <3> QED
      BY <1>1, <1>3, <3>1 DEF IsInjective
  <2> QED
    BY <1>1, <2>1, <2>2 DEF IsInjective, Range
<1> QED
  BY <1>2, <1>3 DEF r

\* signalall: one queue behind the other.
LEMMA RangeConcat ==
  ASSUME NEW S, NEW s \in Seq(S), NEW r \in Seq(S)
  PROVE  /\ s \o r \in Seq(S)
         /\ Range(s \o r) = Range(s) \cup Range(r)
         /\ IsInjective(s) /\ IsInjective(r) /\ Range(s) \cap Range(r) = {} => IsInjective(s \o r)
<1> DEFINE a == s \o r
<1>1. /\ Len(s) \in Nat /\ DOMAIN s = 1 .. Len(s)
      /\ Len(r) \in Nat /\ DOMAIN r = 1 .. Len(r)
      /\ a \in Seq(S) /\ DOMAIN a = 1 .. Len(s) + Len(r)
      /\ \A i \in 1 .. Len(s) + Len(r) : a[i] = IF i <= Len(s) THEN s[i] ELSE r[i - Len(s)]
  BY ConcatProperties, LenProperties
<1> HIDE DEF a
<1>2. ASSUME NEW i \in 1 .. Len(s) PROVE a[i] = s[i] /\ i \in DOMAIN a
  BY <1>1
<1>3. ASSUME NEW i \in 1 .. Len(r) PROVE a[i + Len(s)] = r[i] /\ i + Len(s) \in DOMAIN a
  <2>1. i + Len(s) \in 1 .. Len(s) + Len(r) /\ ~(i + Len(s) <= Len(s)) /\ (i + Len(s)) - Len(s) = i
    BY <1>1
  <2> QED
    BY <1>1, <2>1
<1>4. ASSUME NEW i \in DOMAIN a
      PROVE  \/ i \in DOMAIN s /\ a[i] = s[i]
             \/ i - Len(s) \in DOMAIN r /\ a[i] = r[i - Len(s)]
  BY <1>1
<1>5. Range(a) = Range(s) \cup Range(r)
  <2>1. Range(a) \subseteq Range(s) \cup Range(r)
    BY <1>4 DEF Range
  <2>2. Range(s) \cup Range(r) \subseteq Range(a)
    <3>1. ASSUME NEW i \in DOMAIN s PROVE s[i] \in Range(a)
      BY <1>1, <1>2 DEF Range
    <3>2. ASSUME NEW i \in DOMAIN r PROVE r[i] \in Range(a)
      BY <1>1, <1>3 DEF Range
    <3> QED
      BY <3>1, <3>2 DEF Range
  <2> QED
    BY <2>1, <2>2
<1>6. ASSUME IsInjective(s), IsInjective(r), Range(s) \cap Range(r) = {} PROVE IsInjective(a)
  <2> SUFFICES ASSUME NEW i \in DOMAIN a, NEW j \in DOMAIN a, a[i] = a[j]
               PROVE  i = j
    BY DEF IsInjective
  <2>1. CASE i \in DOMAIN s /\ a[i] = s[i] /\ j \in DOMAIN s /\ a[j] = s[j]
    BY <1>6, <2>1 DEF IsInjective
  <2>2. CASE i - Len(s) \in DOMAIN r /\ a[i] = r[i - Len(s)] /\ j - Len(s) \in DOMAIN r /\ a[j] = r[j - Len(s)]
    <3>1. i - Len(s) = j - Len(s)
      BY <1>6, <2>2 DEF IsInjective
    <3> QED
      BY <1>1, <3>1
  <2>3. CASE i \in DOMAIN s /\ a[i] = s[i] /\ j - Len(s) \in DOMAIN r /\ a[j] = r[j - Len(s)]
    BY <1>6, <2>3 DEF Range
  <2>4. CASE j \in DOMAIN s /\ a[j] = s[j] /\ i - Len(s) \in DOMAIN r /\ a[i] = r[i - Len(s)]
    BY <1>6, <2>4 DEF Range
  <2> QED
    BY <1>4, <2>1, <2>2, <2>3, <2>4
<1> QED
  BY <1>1, <1>5, <1>6 DEF a

\* The last member and those before it.
LEMMA FrontLast ==
  ASSUME NEW S, NEW s \in Seq(S), s # <<>>
  PROVE  /\ Front(s) \in Seq(S) /\ Last(s) \in Range(s) /\ Last(s) \in S
         /\ Append(Front(s), Last(s)) = s
<1>1. Len(s) \in Nat \ {0} /\ DOMAIN s = 1 .. Len(s)
  BY EmptySeq, LenProperties
<1> QED
  BY <1>1 DEF Front, Last, Range

\* The last member of a queue after queue_insert.
LEMMA AppendLast ==
  ASSUME NEW S, NEW s \in Seq(S), NEW x \in S
  PROVE  Append(s, x) # <<>> /\ Front(Append(s, x)) = s /\ Last(Append(s, x)) = x
BY AppendProperties DEF Front, Last

\* What is behind the first member ends as the whole queue did.
LEMMA TailLast ==
  ASSUME NEW S, NEW s \in Seq(S), s # <<>>, Tail(s) # <<>>
  PROVE  Last(Tail(s)) = Last(s)
<1>1. Len(s) \in Nat \ {0} /\ Len(Tail(s)) = Len(s) - 1 /\ Tail(s) \in Seq(S)
  BY EmptySeq, HeadTailProperties
<1>2. Len(Tail(s)) # 0
  BY <1>1, EmptySeq
<1>3. Tail(s)[Len(Tail(s))] = s[Len(s)]
  BY <1>1, <1>2, HeadTailProperties
<1> QED
  BY <1>3 DEF Last

\* In a sequence without repetitions a member is at one place.
LEMMA OneIndex ==
  ASSUME NEW s, IsInjective(s), NEW c
  PROVE  \/ c \notin Range(s) /\ {i \in DOMAIN s : s[i] = c} = {}
         \/ \E i \in DOMAIN s : {j \in DOMAIN s : s[j] = c} = {i} /\ c \in Range(s)
BY DEF IsInjective, Range

-----------------------------------------------------------------------------
(* Induction                                                               *)

\* A set of naturals has a least member.
LEMMA LeastNat ==
  ASSUME NEW T, T \subseteq Nat, T # {}
  PROVE  \E x \in T : \A y \in T : x <= y
<1>1. \E x \in T : \A y \in T : ~(<<y, x>> \in OpToRel(<, Nat))
  BY NatLessThanWellFounded, WFMin
<1>2. ASSUME NEW x \in Nat, NEW y \in Nat, ~(<<y, x>> \in OpToRel(<, Nat)) PROVE x <= y
  BY <1>2 DEF OpToRel
<1> QED
  BY <1>1, <1>2

\* The element that the folds of Functions take first.
Chosen(s) == CHOOSE x \in s : TRUE

LEMMA ChosenIn ==
  ASSUME NEW s, s # {}
  PROVE  Chosen(s) \in s
BY DEF Chosen

\* Induction over the subsets of a finite set: T is the set of those that
\* have the property.
LEMMA SubsetInduction ==
  ASSUME NEW S, IsFiniteSet(S),
         NEW T, {} \in T,
         \A s \in SUBSET S : s # {} /\ s \ {Chosen(s)} \in T => s \in T
  PROVE  SUBSET S \subseteq T
<1> SUFFICES ASSUME NEW s \in SUBSET S, s \notin T
             PROVE  FALSE
  OBVIOUS
<1>1. ASSUME NEW r \in SUBSET S
      PROVE  /\ Cardinality(r) \in Nat
             /\ r # {} => /\ Chosen(r) \in r /\ r \ {Chosen(r)} \in SUBSET S
                         /\ Cardinality(r \ {Chosen(r)}) = Cardinality(r) - 1
  <2>1. IsFiniteSet(r)
    BY FS_Subset
  <2>2. r # {} => Chosen(r) \in r
    BY ChosenIn
  <2>3. Cardinality(r) \in Nat
    BY <2>1, FS_CardinalityType
  <2>4. Chosen(r) \in r => Cardinality(r \ {Chosen(r)}) = Cardinality(r) - 1
    BY <2>1, FS_RemoveElement
  <2>5. r \ {Chosen(r)} \in SUBSET S
    OBVIOUS
  <2> HIDE DEF Chosen
  <2> QED
    BY <2>2, <2>3, <2>4, <2>5
<1> DEFINE C == {Cardinality(r) : r \in {q \in SUBSET S : q \notin T}}
<1>2. C \subseteq Nat /\ C # {}
  <2>1. ASSUME NEW r \in SUBSET S PROVE Cardinality(r) \in Nat
    BY <1>1
  <2>2. C \subseteq Nat
    BY <2>1
  <2>3. Cardinality(s) \in C
    OBVIOUS
  <2> QED
    BY <2>2, <2>3
<1>3. PICK n \in C : \A m \in C : n <= m
  <2> HIDE DEF C
  <2> QED
    BY <1>2, LeastNat
<1>4. PICK r \in SUBSET S : r \notin T /\ n = Cardinality(r)
  BY <1>3
<1>5. r # {} /\ r \ {Chosen(r)} \notin T
  BY <1>4
<1>6. Cardinality(r) - 1 \in C
  BY <1>1, <1>5
<1>7. n \in Nat /\ n <= n - 1
  BY <1>1, <1>3, <1>4, <1>6
<1> QED
  BY <1>7

-----------------------------------------------------------------------------
(* Folds over the numbers up to n                                          *)

\* The greatest of the first k numbers is k.
LEMMA MaxUpto ==
  ASSUME NEW k \in Nat \ {0}
  PROVE  Max(1 .. k) = k /\ (1 .. k) \ {k} = 1 .. k - 1 /\ 1 .. k # {}
<1>1. k \in 1 .. k /\ \A y \in 1 .. k : k >= y
  OBVIOUS
<1>2. \A x \in 1 .. k : (\A y \in 1 .. k : x >= y) => x = k
  OBVIOUS
<1> QED
  BY <1>1, <1>2 DEF Max

\* A finite set of naturals has a greatest member.
LEMMA MaxIn ==
  ASSUME NEW n \in Nat, NEW s \in SUBSET (1 .. n), s # {}
  PROVE  Max(s) \in s /\ \A y \in s : y <= Max(s)
<1> DEFINE T == {k \in Nat : \A y \in s : y <= k}
<1>1. T \subseteq Nat /\ n \in T
  OBVIOUS
<1> HIDE DEF T
<1>2. PICK x \in T : \A y \in T : x <= y
  BY <1>1, LeastNat
<1>3. x \in Nat /\ \A y \in s : y <= x
  BY <1>2 DEF T
<1>4. x \in s
  <2> SUFFICES ASSUME x \notin s PROVE FALSE
    OBVIOUS
  <2>1. \A y \in s : y \in Nat \ {0} /\ y <= x - 1
    <3> SUFFICES ASSUME NEW y \in s PROVE y \in Nat \ {0} /\ y <= x - 1
      OBVIOUS
    <3>1. y \in Nat \ {0} /\ y <= x /\ y # x /\ x \in Nat
      BY <1>3
    <3> QED
      BY <3>1
  <2>2. x - 1 \in Nat
    <3>1. PICK y \in s : TRUE
      OBVIOUS
    <3> QED
      BY <1>3, <2>1, <3>1
  <2>3. x - 1 \in T
    BY <2>1, <2>2 DEF T
  <2> QED
    BY <1>2, <1>3, <2>3
<1>5. \E z \in s : \A y \in s : z >= y
  BY <1>3, <1>4
<1> QED
  BY <1>5 DEF Max

\* Induction up to n, for the set T of the numbers that have the property.
LEMMA InductionUpto ==
  ASSUME NEW n \in Nat, NEW T, 0 \in T, \A k \in 1 .. n : k - 1 \in T => k \in T
  PROVE  \A k \in 0 .. n : k \in T
<1> DEFINE C == {k \in 0 .. n : k \notin T}
<1> SUFFICES ASSUME C # {} PROVE FALSE
  OBVIOUS
<1>1. C \subseteq Nat
  OBVIOUS
<1> HIDE DEF C
<1>2. PICK k \in C : \A m \in C : k <= m
  BY <1>1, LeastNat
<1>3. k \in 0 .. n /\ k \notin T /\ k # 0
  BY <1>2 DEF C
<1>4. k \in 1 .. n /\ k - 1 \in 0 .. n
  BY <1>3
<1>5. k - 1 \notin T
  BY <1>3, <1>4
<1>6. k - 1 \in C
  BY <1>4, <1>5 DEF C
<1> QED
  BY <1>2, <1>3, <1>6

LEMMA LoopEnd ==
  ASSUME NEW n \in Nat, NEW T, 0 \in T, \A k \in 1 .. n : k - 1 \in T => k \in T
  PROVE  n \in T
<1>1. \A k \in 0 .. n : k \in T
  BY InductionUpto
<1> QED
  BY <1>1

\* The recursion of FoldLeft over the subsets of 1 .. n, where a step h goes from
\* G to G, and the run of its n steps.
Iterates(it, G, n, a, h) ==
  /\ it[{}] = a
  /\ \A s \in SUBSET (1 .. n) :
       s # {} /\ Max(s) \in 1 .. n /\ it[s \ {Max(s)}] \in G =>
         it[s] = h[<<it[s \ {Max(s)}], Max(s)>>]

Total(it, G, n) ==
  /\ it \in [SUBSET (1 .. n) -> G]
  /\ \A s \in SUBSET (1 .. n) : s # {} => Max(s) \in 1 .. n /\ it[s \ {Max(s)}] \in G

Runs(r, G, n, a, h) ==
  \E g \in [0 .. n -> G] : g[0] = a /\ g[n] = r /\ \A k \in 1 .. n : g[k] = h[<<g[k - 1], k>>]

\* The recursion defines a function.
LEMMA FoldExists ==
  ASSUME NEW G, NEW n \in Nat, NEW a \in G, NEW h \in [G \X (1 .. n) -> G]
  PROVE  \E it : Total(it, G, n) /\ Iterates(it, G, n, a, h)
<1> DEFINE S == 1 .. n
           Value(g, s) == IF s = {} THEN a ELSE h[<<g[s \ {Max(s)}], Max(s)>>]
           Upto(g, m) == \A s \in SUBSET S : Cardinality(s) <= m => g[s] = Value(g, s)
           T == {m \in Nat : \E g \in [SUBSET S -> G] : Upto(g, m)}
<1>1. IsFiniteSet(S) /\ Cardinality(S) = n
  <2>1. n \in Int /\ 1 \in Int /\ ~(1 > n) => n - 1 + 1 = n
    OBVIOUS
  <2> QED
    BY <2>1, FS_Interval
<1>2. ASSUME NEW s \in SUBSET S
      PROVE  /\ Cardinality(s) \in Nat /\ Cardinality(s) <= n
             /\ s = {} <=> Cardinality(s) = 0
             /\ s # {} => /\ Max(s) \in S /\ s \ {Max(s)} \in SUBSET S
                         /\ Cardinality(s \ {Max(s)}) = Cardinality(s) - 1
  <2>1. IsFiniteSet(s) /\ Cardinality(s) <= n
    <3>1. IsFiniteSet(s) /\ Cardinality(s) <= Cardinality(S)
      BY <1>1, FS_Subset
    <3> QED
      BY <1>1, <3>1
  <2>2. s # {} => Max(s) \in s
    BY MaxIn
  <2>3. Cardinality(s) \in Nat /\ (s = {} <=> Cardinality(s) = 0)
    BY <2>1, FS_CardinalityType, FS_EmptySet
  <2>4. Max(s) \in s => Cardinality(s \ {Max(s)}) = Cardinality(s) - 1
    BY <2>1, FS_RemoveElement
  <2> QED
    BY <2>1, <2>2, <2>3, <2>4
<1>3. ASSUME NEW g \in [SUBSET S -> G], NEW s \in SUBSET S PROVE Value(g, s) \in G
  <2>1. CASE s = {}
    BY <2>1
  <2>2. CASE s # {}
    <3>1. Max(s) \in S /\ s \ {Max(s)} \in SUBSET S
      BY <1>2, <2>2
    <3>2. g[s \ {Max(s)}] \in G
      BY <3>1
    <3>3. <<g[s \ {Max(s)}], Max(s)>> \in G \X S
      BY <3>1, <3>2
    <3> QED
      BY <2>2, <3>3
  <2> QED
    BY <2>1, <2>2
<1>4. 0 \in T
  <2> DEFINE z == [s \in SUBSET S |-> a]
  <2>1. z \in [SUBSET S -> G] /\ z[{}] = a
    OBVIOUS
  <2>2. ASSUME NEW s \in SUBSET S, Cardinality(s) <= 0 PROVE s = {}
    <3>1. Cardinality(s) \in Nat /\ (s = {} <=> Cardinality(s) = 0)
      BY <1>2
    <3> QED
      BY <2>2, <3>1
  <2> HIDE DEF z
  <2>3. Upto(z, 0)
    BY <2>1, <2>2
  <2> QED
    BY <2>1, <2>3
<1>5. ASSUME NEW m \in 1 .. n, m - 1 \in T PROVE m \in T
  <2>1. PICK g \in [SUBSET S -> G] : Upto(g, m - 1)
    BY <1>5
  <2> DEFINE w == [s \in SUBSET S |-> IF Cardinality(s) = m THEN Value(g, s) ELSE g[s]]
  <2> HIDE DEF Value, Upto
  <2>2. w \in [SUBSET S -> G]
    BY <1>3
  <2>3. ASSUME NEW s \in SUBSET S, Cardinality(s) <= m
        PROVE  w[s] = Value(w, s)
    <3>1. Value(w, s) = Value(g, s)
      <4>1. CASE s = {}
        BY <4>1 DEF Value
      <4>2. CASE s # {}
        <5> DEFINE r == s \ {Max(s)}
        <5>0. /\ Cardinality(s) \in Nat /\ r \in SUBSET S /\ Cardinality(r) = Cardinality(s) - 1
          BY <1>2, <4>2
        <5> HIDE DEF r
        <5>1. r \in SUBSET S /\ Cardinality(r) # m
          BY <2>3, <5>0
        <5>2. w[r] = g[r]
          BY <5>1 DEF w
        <5> QED
          BY <5>2 DEF r, Value
      <4> QED
        BY <4>1, <4>2
    <3>2. CASE Cardinality(s) = m
      BY <3>1, <3>2
    <3>3. CASE Cardinality(s) # m
      <4>1. w[s] = g[s]
        BY <3>3
      <4>2. Cardinality(s) <= m - 1
        <5>1. Cardinality(s) \in Nat
          BY <1>2
        <5> QED
          BY <2>3, <3>3, <5>1
      <4>3. g[s] = Value(g, s)
        BY <2>1, <4>2 DEF Upto
      <4> QED
        BY <3>1, <4>1, <4>3
    <3> QED
      BY <3>2, <3>3
  <2> HIDE DEF w
  <2>4. Upto(w, m)
    BY <2>3 DEF Upto
  <2> QED
    BY <2>2, <2>4
<1> HIDE DEF T
<1>6. n \in T
  BY <1>4, <1>5, InductionUpto
<1>7. PICK g \in [SUBSET S -> G] : Upto(g, n)
  BY <1>6 DEF T
<1>8. ASSUME NEW s \in SUBSET S PROVE g[s] = Value(g, s)
  BY <1>2, <1>7
<1>9. g[{}] = a
  <2>1. {} \in SUBSET S
    OBVIOUS
  <2> QED
    BY <1>8, <2>1
<1>10. ASSUME NEW s \in SUBSET S, s # {}
       PROVE  /\ Max(s) \in S /\ g[s \ {Max(s)}] \in G
              /\ g[s] = h[<<g[s \ {Max(s)}], Max(s)>>]
  BY <1>2, <1>8, <1>10
<1>11. Total(g, G, n) /\ Iterates(g, G, n, a, h)
  BY <1>7, <1>9, <1>10 DEF Total, Iterates
<1> QED
  BY <1>11

\* A fold along 1 .. n is a run of n steps.
LEMMA FoldSteps ==
  ASSUME NEW G, NEW n \in Nat, NEW a \in G, NEW h \in [G \X (1 .. n) -> G], NEW iter,
         Iterates(iter, G, n, a, h)
  PROVE  Runs(iter[1 .. n], G, n, a, h)
<1> DEFINE T == {k \in 0 .. n : iter[1 .. k] \in G}
           g == [k \in 0 .. n |-> iter[1 .. k]]
<1>1. 1 .. 0 = {}
  OBVIOUS
<1>2. 0 \in T
  BY <1>1 DEF Iterates
<1>3. ASSUME NEW k \in 1 .. n, iter[1 .. k - 1] \in G
      PROVE  iter[1 .. k] = h[<<iter[1 .. k - 1], k>>] /\ iter[1 .. k] \in G
  <2>1. Max(1 .. k) = k /\ (1 .. k) \ {k} = 1 .. k - 1 /\ 1 .. k # {}
    <3>1. k \in Nat \ {0}
      OBVIOUS
    <3> QED
      BY <3>1, MaxUpto
  <2>2. 1 .. k \in SUBSET (1 .. n)
    OBVIOUS
  <2>3. iter[1 .. k] = h[<<iter[1 .. k - 1], k>>]
    <3> DEFINE s == 1 .. k
    <3>1. s \in SUBSET (1 .. n) /\ s # {} /\ Max(s) = k /\ s \ {Max(s)} = 1 .. k - 1
      BY <2>1, <2>2
    <3> HIDE DEF s
    <3>2. iter[s] = h[<<iter[s \ {Max(s)}], Max(s)>>]
      BY <1>3, <3>1 DEF Iterates
    <3> QED
      BY <3>1, <3>2 DEF s
  <2> QED
    BY <1>3, <2>3
<1>4. ASSUME NEW k \in 1 .. n, k - 1 \in T PROVE k \in T
  <2>1. iter[1 .. k - 1] \in G
    BY <1>4
  <2>2. iter[1 .. k] \in G
    BY <1>3, <2>1
  <2> QED
    BY <2>2
<1> HIDE DEF T
<1>5. \A k \in 0 .. n : k \in T
  BY <1>2, <1>4, InductionUpto
<1>6. \A k \in 0 .. n : iter[1 .. k] \in G
  BY <1>5 DEF T
<1>7. g \in [0 .. n -> G] /\ g[0] = a /\ g[n] = iter[1 .. n]
  BY <1>1, <1>6 DEF Iterates
<1>8. ASSUME NEW k \in 1 .. n PROVE g[k] = h[<<g[k - 1], k>>]
  <2>1. k - 1 \in 0 .. n /\ k \in 0 .. n
    OBVIOUS
  <2> QED
    BY <1>3, <1>6, <2>1
<1> QED
  BY <1>7, <1>8 DEF Runs

-----------------------------------------------------------------------------
(* Sums                                                                    *)

\* The recursion of SumFunctionOnSet, over the subsets of S.
Sums(g, f, S) ==
  g = [s \in SUBSET S |-> IF s = {} THEN 0 ELSE f[Chosen(s)] + g[s \ {Chosen(s)}]]

\* It defines a function: one is built for the subsets of up to n elements, for every n.
LEMMA SumsExist ==
  ASSUME NEW S, IsFiniteSet(S), NEW f \in [S -> Nat]
  PROVE  \E g : Sums(g, f, S)
<1> DEFINE Upto(g, n) == \A s \in SUBSET S : Cardinality(s) <= n =>
                g[s] = IF s = {} THEN 0 ELSE f[Chosen(s)] + g[s \ {Chosen(s)}]
           N == {n \in Nat : \A g \in [SUBSET S -> Nat] : ~Upto(g, n)}
<1>1. ASSUME NEW s \in SUBSET S
      PROVE  /\ Cardinality(s) \in Nat /\ Cardinality(s) <= Cardinality(S)
             /\ s = {} <=> Cardinality(s) = 0
             /\ s # {} => /\ f[Chosen(s)] \in Nat /\ s \ {Chosen(s)} \in SUBSET S
                         /\ Cardinality(s \ {Chosen(s)}) = Cardinality(s) - 1
  <2>1. IsFiniteSet(s) /\ Cardinality(s) <= Cardinality(S)
    BY FS_Subset
  <2>2. s # {} => Chosen(s) \in s
    BY ChosenIn
  <2>3. Cardinality(s) \in Nat /\ (s = {} <=> Cardinality(s) = 0)
    BY <2>1, FS_CardinalityType, FS_EmptySet
  <2>4. Chosen(s) \in s => Cardinality(s \ {Chosen(s)}) = Cardinality(s) - 1
    BY <2>1, FS_RemoveElement
  <2>5. s \ {Chosen(s)} \in SUBSET S
    OBVIOUS
  <2>6. Chosen(s) \in s => f[Chosen(s)] \in Nat
    OBVIOUS
  <2> HIDE DEF Chosen
  <2> QED
    BY <2>1, <2>2, <2>3, <2>4, <2>5, <2>6
<1> HIDE DEF Chosen
<1>2. 0 \notin N
  <2> DEFINE z == [s \in SUBSET S |-> 0]
  <2>1. ASSUME NEW s \in SUBSET S, Cardinality(s) <= 0 PROVE s = {}
    <3>1. Cardinality(s) \in Nat /\ (s = {} <=> Cardinality(s) = 0)
      BY <1>1
    <3> QED
      BY <2>1, <3>1
  <2>2. z \in [SUBSET S -> Nat] /\ z[{}] = 0
    OBVIOUS
  <2> HIDE DEF z
  <2>3. Upto(z, 0)
    BY <2>1, <2>2
  <2> QED
    BY <2>2, <2>3
<1>3. ASSUME NEW n \in Nat, n \notin N PROVE n + 1 \notin N
  <2>1. PICK g \in [SUBSET S -> Nat] : Upto(g, n)
    BY <1>3
  <2> DEFINE h == [s \in SUBSET S |-> IF Cardinality(s) = n + 1
                                       THEN f[Chosen(s)] + g[s \ {Chosen(s)}] ELSE g[s]]
  <2>2. h \in [SUBSET S -> Nat]
    BY <1>1
  <2>3. ASSUME NEW s \in SUBSET S, Cardinality(s) <= n + 1
        PROVE  h[s] = IF s = {} THEN 0 ELSE f[Chosen(s)] + h[s \ {Chosen(s)}]
    <3>1. s # {} => h[s \ {Chosen(s)}] = g[s \ {Chosen(s)}]
      BY <1>1, <2>3
    <3>2. CASE Cardinality(s) = n + 1
      BY <1>1, <3>1, <3>2
    <3>3. CASE Cardinality(s) # n + 1
      <4>1. Cardinality(s) \in Nat
        BY <1>1
      <4>2. Cardinality(s) <= n
        BY <2>3, <3>3, <4>1
      <4>3. h[s] = g[s]
        BY <3>3
      <4> HIDE DEF h
      <4> QED
        BY <2>1, <3>1, <4>2, <4>3
    <3> QED
      BY <3>2, <3>3
  <2> HIDE DEF h
  <2>4. Upto(h, n + 1)
    BY <2>3
  <2> QED
    BY <2>2, <2>4
<1>4. N = {}
  <2> SUFFICES ASSUME N # {} PROVE FALSE
    OBVIOUS
  <2>1. N \subseteq Nat
    OBVIOUS
  <2> HIDE DEF N
  <2>2. PICK n \in N : \A m \in N : n <= m
    BY <2>1, LeastNat
  <2>3. n \in Nat /\ n # 0
    BY <1>2, <2>1, <2>2
  <2>4. n - 1 \in Nat /\ n - 1 \notin N /\ (n - 1) + 1 = n
    BY <2>2, <2>3
  <2> QED
    BY <1>3, <2>2, <2>4
<1>5. Cardinality(S) \in Nat
  BY FS_CardinalityType
<1>6. PICK g \in [SUBSET S -> Nat] : Upto(g, Cardinality(S))
  BY <1>4, <1>5
<1>7. Sums(g, f, S)
  BY <1>1, <1>6 DEF Sums
<1> QED
  BY <1>7

\* SumFunction is that function, taken at the whole domain.
LEMMA SumFunctionIs ==
  ASSUME NEW S, IsFiniteSet(S), NEW f \in [S -> Nat]
  PROVE  \E g : Sums(g, f, S) /\ SumFunction(f) = g[S]
<1> DEFINE g == CHOOSE g : Sums(g, f, S)
<1>1. Sums(g, f, S)
  BY SumsExist
<1>2. SumFunction(f) = g[S]
  BY DEF SumFunction, SumFunctionOnSet, FoldFunctionOnSet, MapThenFoldSet, Sums, Chosen
<1> QED
  BY <1>1, <1>2

\* The values of the recursion are naturals.
LEMMA SumsType ==
  ASSUME NEW S, IsFiniteSet(S), NEW f \in [S -> Nat], NEW g, Sums(g, f, S)
  PROVE  \A s \in SUBSET S : g[s] \in Nat
<1> DEFINE T == {s \in SUBSET S : g[s] \in Nat}
<1>1. {} \in T
  BY DEF Sums
<1>2. ASSUME NEW s \in SUBSET S, s # {}, s \ {Chosen(s)} \in T PROVE s \in T
  <2>1. f[Chosen(s)] \in Nat
    BY <1>2, ChosenIn
  <2>2. g[s] = f[Chosen(s)] + g[s \ {Chosen(s)}]
    BY <1>2 DEF Sums
  <2> QED
    BY <1>2, <2>1, <2>2
<1> HIDE DEF T
<1>3. SUBSET S \subseteq T
  BY <1>1, <1>2, SubsetInduction
<1> QED
  BY <1>3 DEF T

\* One more at one place makes the sum one more.
LEMMA SumPlusOne ==
  ASSUME NEW S, IsFiniteSet(S), NEW f \in [S -> Nat], NEW x \in S
  PROVE  /\ SumFunction(f) \in Nat
         /\ SumFunction([f EXCEPT ![x] = @ + 1]) = SumFunction(f) + 1
<1> DEFINE h == [f EXCEPT ![x] = @ + 1]
<1>1. h \in [S -> Nat] /\ h[x] = f[x] + 1 /\ \A y \in S \ {x} : h[y] = f[y]
  OBVIOUS
<1> HIDE DEF h
<1>2. PICK a : Sums(a, f, S) /\ SumFunction(f) = a[S]
  BY SumFunctionIs
<1>3. PICK b : Sums(b, h, S) /\ SumFunction(h) = b[S]
  BY <1>1, SumFunctionIs
<1> DEFINE T == {s \in SUBSET S : b[s] = IF x \in s THEN a[s] + 1 ELSE a[s]}
<1>4. {} \in T
  BY <1>2, <1>3 DEF Sums
<1>5. ASSUME NEW s \in SUBSET S, s # {}, s \ {Chosen(s)} \in T PROVE s \in T
  <2> DEFINE c == Chosen(s)
  <2>1. c \in s /\ c \in S
    BY <1>5, ChosenIn
  <2>2. a[s] = f[c] + a[s \ {c}] /\ b[s] = h[c] + b[s \ {c}]
    BY <1>2, <1>3, <1>5 DEF Sums
  <2>3. a[s \ {c}] \in Nat /\ f[c] \in Nat
    BY <1>2, <2>1, SumsType
  <2>4. b[s \ {c}] = IF x \in s \ {c} THEN a[s \ {c}] + 1 ELSE a[s \ {c}]
    BY <1>5
  <2> HIDE DEF c
  <2>5. CASE c = x
    BY <1>1, <2>1, <2>2, <2>3, <2>4, <2>5
  <2>6. CASE c # x
    BY <1>1, <2>1, <2>2, <2>3, <2>4, <2>6
  <2> QED
    BY <2>5, <2>6
<1> HIDE DEF T
<1>6. SUBSET S \subseteq T
  BY <1>4, <1>5, SubsetInduction
<1>7. b[S] = a[S] + 1
  BY <1>6 DEF T
<1>8. a[S] \in Nat
  BY <1>2, SumsType
<1> QED
  BY <1>2, <1>3, <1>7, <1>8 DEF h

\* The sum of nothing.
LEMMA SumZero ==
  ASSUME NEW S, IsFiniteSet(S)
  PROVE  SumFunction([s \in S |-> 0]) = 0
<1> DEFINE f == [s \in S |-> 0]
<1>1. f \in [S -> Nat] /\ \A s \in S : f[s] = 0
  OBVIOUS
<1> HIDE DEF f
<1>2. PICK a : Sums(a, f, S) /\ SumFunction(f) = a[S]
  BY <1>1, SumFunctionIs
<1> DEFINE T == {s \in SUBSET S : a[s] = 0}
<1>3. {} \in T
  BY <1>2 DEF Sums
<1>4. ASSUME NEW s \in SUBSET S, s # {}, s \ {Chosen(s)} \in T PROVE s \in T
  <2>1. f[Chosen(s)] = 0
    BY <1>1, <1>4, ChosenIn
  <2>2. a[s] = f[Chosen(s)] + a[s \ {Chosen(s)}]
    BY <1>2, <1>4 DEF Sums
  <2> QED
    BY <1>4, <2>1, <2>2
<1> HIDE DEF T
<1>5. SUBSET S \subseteq T
  BY <1>3, <1>4, SubsetInduction
<1> QED
  BY <1>2, <1>5 DEF T, f
=============================================================================
