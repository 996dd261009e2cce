------------------------------ MODULE QueueLemmas ------------------------------
(***************************************************************************)
(* What appending to a queue and taking its head do to its length, its      *)
(* contents and its order: the facts every proof about the FreeRTOS queues  *)
(* of the models rests on; and induction over the naturals, with what it     *)
(* gives: recursive functions, and the largest of finitely many numbers.     *)
(***************************************************************************)
EXTENDS Integers, Sequences, Functions, SequenceTheorems, FiniteSetTheorems, TLAPS

(* The numbers in the queue ascend. *)
Ascending(q) == \A i, j \in DOMAIN q : i < j => q[i] < q[j]

(* ... those that are not z, that is. *)
AscendingBut(z, q) ==
    \A i, j \in DOMAIN q : i < j /\ q[i] # z /\ q[j] # z => q[i] < q[j]

(* Nothing is in the queue twice. *)
Distinct(q) == \A i, j \in DOMAIN q : q[i] = q[j] => i = j

(* Types and lengths. *)
LEMMA QueueFacts ==
    ASSUME NEW S, NEW q \in Seq(S)
    PROVE  /\ \A e \in S : /\ Append(q, e) \in Seq(S)
                           /\ Len(Append(q, e)) = Len(q) + 1
           /\ q # <<>> => /\ Head(q) \in S
                          /\ Tail(q) \in Seq(S)
                          /\ Len(Tail(q)) = Len(q) - 1
           /\ Len(q) \in Nat
BY AppendProperties, HeadTailProperties, LenProperties

(* An empty queue contains nothing. *)
LEMMA EmptyFacts == Range(<<>>) = {} /\ Ascending(<<>>) /\ Distinct(<<>>)
BY DEF Range, Ascending, Distinct

(* Appending adds the element, and keeps the order when it is the largest.    *)
LEMMA AppendFacts ==
    ASSUME NEW S, NEW q \in Seq(S), NEW e \in S
    PROVE  /\ Range(Append(q, e)) = Range(q) \union {e}
           /\ Ascending(q) /\ (\A x \in Range(q) : x < e) => Ascending(Append(q, e))
           /\ Distinct(q) /\ e \notin Range(q) => Distinct(Append(q, e))
<1> DEFINE a == Append(q, e)
           n == Len(q)
<1>1. /\ n \in Nat /\ DOMAIN q = 1 .. n
      /\ DOMAIN a = 1 .. n + 1
      /\ \A i \in 1 .. n : a[i] = q[i]
      /\ a[n + 1] = e
  BY AppendProperties, LenProperties
<1>2. Range(a) = Range(q) \union {e}
  <2>1. ASSUME NEW x \in Range(a) PROVE x \in Range(q) \union {e}
    BY <1>1, <2>1 DEF Range
  <2>2. ASSUME NEW x \in Range(q) \union {e} PROVE x \in Range(a)
    <3>1. CASE x = e
      BY <1>1, <3>1 DEF Range
    <3>2. CASE x \in Range(q)
      <4>1. PICK i \in 1 .. n : q[i] = x
        BY <1>1, <3>2 DEF Range
      <4>2. i \in DOMAIN a /\ a[i] = x
        BY <1>1, <4>1
      <4> QED
        BY <4>2 DEF Range
    <3> QED
      BY <3>1, <3>2
  <2> QED
    BY <2>1, <2>2
<1>3. ASSUME Ascending(q), \A x \in Range(q) : x < e
      PROVE  Ascending(a)
  <2> SUFFICES ASSUME NEW i \in 1 .. n + 1, NEW j \in 1 .. n + 1, i < j
               PROVE  a[i] < a[j]
    BY <1>1 DEF Ascending
  <2>1. i \in 1 .. n /\ a[i] = q[i] /\ q[i] \in Range(q)
    BY <1>1 DEF Range
  <2>2. CASE j = n + 1
    BY <1>1, <1>3, <2>1, <2>2
  <2>3. CASE j \in 1 .. n
    BY <1>1, <1>3, <2>1, <2>3 DEF Ascending
  <2> QED
    BY <1>1, <2>2, <2>3
<1>4. ASSUME Distinct(q), e \notin Range(q)
      PROVE  Distinct(a)
  <2>1. \A i \in 1 .. n : a[i] = q[i] /\ a[i] # e
    BY <1>1, <1>4 DEF Range
  <2> QED
    BY <1>1, <1>4, <2>1 DEF Distinct
<1> QED
  BY <1>2, <1>3, <1>4

(* The head of an ascending queue is its least element, and only the head is  *)
(* taken away with it.                                                        *)
LEMMA TailFacts ==
    ASSUME NEW S, NEW q \in Seq(S), q # <<>>
    PROVE  /\ Head(q) \in Range(q)
           /\ Range(Tail(q)) \subseteq Range(q)
           /\ Range(q) = Range(Tail(q)) \union {Head(q)}
           /\ Ascending(q) => Ascending(Tail(q)) /\ \A x \in Range(Tail(q)) : Head(q) < x
           /\ Distinct(q) => Distinct(Tail(q)) /\ Head(q) \notin Range(Tail(q))
<1> DEFINE t == Tail(q)
           n == Len(q)
<1>1. /\ n \in Nat /\ n >= 1
      /\ DOMAIN q = 1 .. n
      /\ Head(q) = q[1]
      /\ t \in Seq(S) /\ Len(t) = n - 1
      /\ DOMAIN t = 1 .. n - 1
      /\ \A i \in 1 .. n - 1 : t[i] = q[i + 1]
  BY HeadTailProperties, LenProperties, EmptySeq
<1>2. /\ Head(q) \in Range(q)
      /\ \A x \in Range(t) : \E i \in 2 .. n : x = q[i]
      /\ \A i \in 2 .. n : q[i] \in Range(t)
  <2>1. Head(q) \in Range(q)
    BY <1>1 DEF Range
  <2>2. ASSUME NEW x \in Range(t) PROVE \E i \in 2 .. n : x = q[i]
    <3>1. PICK i \in 1 .. n - 1 : x = t[i]
      BY <1>1 DEF Range
    <3>2. i + 1 \in 2 .. n /\ x = q[i + 1]
      BY <1>1, <3>1
    <3> QED
      BY <3>2
  <2>3. ASSUME NEW i \in 2 .. n PROVE q[i] \in Range(t)
    <3>1. i - 1 \in 1 .. n - 1 /\ t[i - 1] = q[i]
      BY <1>1
    <3> QED
      BY <1>1, <3>1 DEF Range
  <2> QED
    BY <2>1, <2>2, <2>3
<1>3. Range(t) \subseteq Range(q) /\ Range(q) = Range(t) \union {Head(q)}
  <2>1. \A x \in Range(t) : x \in Range(q)
    BY <1>1, <1>2 DEF Range
  <2>2. ASSUME NEW x \in Range(q) PROVE x \in Range(t) \union {Head(q)}
    <3>1. PICK i \in 1 .. n : x = q[i]
      BY <1>1 DEF Range
    <3> QED
      BY <1>1, <1>2, <3>1
  <2> QED
    BY <1>2, <2>1, <2>2
<1>4. ASSUME Ascending(q)
      PROVE  Ascending(t) /\ \A x \in Range(t) : Head(q) < x
  <2>1. Ascending(t)
    BY <1>1, <1>4 DEF Ascending
  <2>2. \A i \in 2 .. n : q[1] < q[i]
    BY <1>1, <1>4 DEF Ascending
  <2> QED
    BY <1>1, <1>2, <2>1, <2>2
<1>5. ASSUME Distinct(q)
      PROVE  Distinct(t) /\ Head(q) \notin Range(t)
  <2>1. Distinct(t)
    BY <1>1, <1>5 DEF Distinct
  <2>2. \A i \in 2 .. n : q[1] # q[i]
    BY <1>1, <1>5 DEF Distinct
  <2> QED
    BY <1>1, <1>2, <2>1, <2>2
<1> QED
  BY <1>2, <1>3, <1>4, <1>5

(* The same of a queue in which z stands for elements that have no order.       *)
LEMMA AscendingButFacts ==
    ASSUME NEW S, NEW q \in Seq(S), NEW z, AscendingBut(z, q)
    PROVE  /\ \A e \in S : (e = z \/ \A x \in Range(q) : x # z => x < e)
                             => AscendingBut(z, Append(q, e))
           /\ q # <<>> =>
                /\ AscendingBut(z, Tail(q))
                /\ Head(q) # z => \A x \in Range(Tail(q)) : x # z => Head(q) < x
<1>1. ASSUME NEW e \in S, e = z \/ \A x \in Range(q) : x # z => x < e
      PROVE  AscendingBut(z, Append(q, e))
  <2> DEFINE a == Append(q, e)
             n == Len(q)
  <2>1. /\ n \in Nat /\ DOMAIN q = 1 .. n
        /\ DOMAIN a = 1 .. n + 1
        /\ \A i \in 1 .. n : a[i] = q[i] /\ q[i] \in Range(q)
        /\ a[n + 1] = e
    BY AppendProperties, LenProperties DEF Range
  <2> SUFFICES ASSUME NEW i \in 1 .. n + 1, NEW j \in 1 .. n + 1, i < j, a[i] # z, a[j] # z
               PROVE  a[i] < a[j]
    BY <2>1 DEF AscendingBut
  <2>2. i \in 1 .. n
    BY <2>1
  <2>3. CASE j = n + 1
    BY <1>1, <2>1, <2>2, <2>3
  <2>4. CASE j \in 1 .. n
    BY <2>1, <2>2, <2>4 DEF AscendingBut
  <2> QED
    BY <2>1, <2>3, <2>4
<1>2. ASSUME q # <<>>
      PROVE  /\ AscendingBut(z, Tail(q))
             /\ Head(q) # z => \A x \in Range(Tail(q)) : x # z => Head(q) < x
  <2> DEFINE t == Tail(q)
             n == Len(q)
  <2>1. /\ n \in Nat /\ n >= 1 /\ DOMAIN q = 1 .. n /\ Head(q) = q[1]
        /\ DOMAIN t = 1 .. n - 1
        /\ \A i \in 1 .. n - 1 : t[i] = q[i + 1]
    BY <1>2, HeadTailProperties, LenProperties, EmptySeq
  <2>2. AscendingBut(z, t)
    BY <2>1 DEF AscendingBut
  <2>3. ASSUME Head(q) # z, NEW x \in Range(t), x # z
        PROVE  Head(q) < x
    <3>1. PICK i \in 1 .. n - 1 : x = q[i + 1]
      BY <2>1 DEF Range
    <3> QED
      BY <2>1, <2>3, <3>1 DEF AscendingBut
  <2> QED
    BY <2>2, <2>3
<1> QED
  BY <1>1, <1>2


-----------------------------------------------------------------------------
(* A set of naturals that is not empty has a least element.                  *)
LEMMA LeastNumber ==
    ASSUME NEW T, T \subseteq Nat, T # {}
    PROVE  \E x \in T : \A y \in T : x <= y
<1> DEFINE R == {ss \in Nat \X Nat : ss[1] < ss[2]}
<1>1. IsWellFoundedOn(R, Nat)
  BY NatLessThanWellFounded DEF OpToRel
<1> HIDE DEF R
<1>2. PICK x \in T : \A y \in T : ~(<<y, x>> \in R)
  BY <1>1, WFMin
<1>3. \A y \in T : ~(y < x)
  <2> SUFFICES ASSUME NEW y \in T, y < x PROVE FALSE
    OBVIOUS
  <2>1. <<y, x>> \in R
    BY DEF R
  <2> QED
    BY <2>1, <1>2
<1> QED
  BY <1>2, <1>3

(* Induction, for a set in place of a predicate.                             *)
LEMMA SetInduction ==
    ASSUME NEW T, 0 \in T, \A n \in Nat : n \in T => n + 1 \in T
    PROVE  Nat \subseteq T
<1> SUFFICES ASSUME Nat \ T # {} PROVE FALSE
  OBVIOUS
<1>1. PICK x \in Nat \ T : \A y \in Nat \ T : x <= y
  BY LeastNumber
<1>2. x # 0
  OBVIOUS
<1>3. x - 1 \in Nat /\ x - 1 \notin Nat \ T
  BY <1>1, <1>2
<1> QED
  BY <1>3, <1>1

(* A function on 0 .. N may be defined by recursion: F takes it from i - 1 to   *)
(* i.                                                                        *)
LEMMA RecursionExists ==
    ASSUME NEW S, NEW b \in S, NEW N \in Nat, NEW F \in [1 .. N -> [S -> S]]
    PROVE  \E f \in [0 .. N -> S] :
              f[0] = b /\ \A i \in 1 .. N : f[i] = F[i][f[i - 1]]
<1> DEFINE Fits(f, n) == f \in [0 .. n -> S] /\ f[0] = b
                         /\ \A i \in 1 .. n : f[i] = F[i][f[i - 1]]
           T == {n \in Nat : n <= N => \E f \in [0 .. n -> S] : Fits(f, n)}
<1>1. 0 \in T
  <2>1. [i \in 0 .. 0 |-> b] \in [0 .. 0 -> S] /\ Fits([i \in 0 .. 0 |-> b], 0)
    OBVIOUS
  <2> QED
    BY <2>1
<1>2. ASSUME NEW n \in Nat, n \in T PROVE n + 1 \in T
  <2> SUFFICES ASSUME n + 1 <= N PROVE \E f \in [0 .. n + 1 -> S] : Fits(f, n + 1)
    OBVIOUS
  <2>1. PICK f \in [0 .. n -> S] : Fits(f, n)
    BY <1>2
  <2> DEFINE g == [i \in 0 .. n + 1 |-> IF i <= n THEN f[i] ELSE F[n + 1][f[n]]]
  <2>2. F[n + 1][f[n]] \in S
    BY <2>1
  <2>3. g \in [0 .. n + 1 -> S]
    BY <2>1, <2>2
  <2>4. \A i \in 1 .. n : g[i] = f[i] /\ g[i - 1] = f[i - 1]
    OBVIOUS
  <2>5. g[0] = f[0] /\ g[n + 1] = F[n + 1][g[n]]
    OBVIOUS
  <2> HIDE DEF g
  <2>6. ASSUME NEW i \in 1 .. n + 1 PROVE g[i] = F[i][g[i - 1]]
    <3>1. CASE i = n + 1
      BY <2>5, <3>1
    <3>2. CASE i \in 1 .. n
      BY <2>1, <2>4, <3>2
    <3> QED
      BY <3>1, <3>2
  <2> QED
    BY <2>1, <2>3, <2>5, <2>6
<1> HIDE DEF T
<1>3. N \in T
  BY <1>1, <1>2, SetInduction
<1> QED
  BY <1>3 DEF T

(* A finite set of numbers that is not empty has a largest element.           *)
LEMMA LargestNumber ==
    ASSUME NEW T, T \subseteq Int, T # {}, IsFiniteSet(T)
    PROVE  \E x \in T : \A y \in T : x >= y
<1> DEFINE P == {n \in Nat : \A U \in SUBSET Int : U # {} /\ IsFiniteSet(U) /\ Cardinality(U) = n
                                => \E x \in U : \A y \in U : x >= y}
<1>1. 0 \in P
  BY FS_EmptySet
<1>2. ASSUME NEW n \in Nat, n \in P PROVE n + 1 \in P
  <2> SUFFICES ASSUME NEW U \in SUBSET Int, U # {}, IsFiniteSet(U), Cardinality(U) = n + 1
               PROVE  \E x \in U : \A y \in U : x >= y
    OBVIOUS
  <2>1. PICK u \in U : TRUE
    OBVIOUS
  <2>2. IsFiniteSet(U \ {u}) /\ Cardinality(U \ {u}) = n
    <3>1. /\ IsFiniteSet(U \ {u})
          /\ Cardinality(U \ {u}) = IF u \in U THEN Cardinality(U) - 1 ELSE Cardinality(U)
      BY FS_RemoveElement
    <3>2. Cardinality(U \ {u}) = (n + 1) - 1
      BY <3>1
    <3> QED
      BY <3>1, <3>2
  <2>3. CASE U = {u}
    BY <2>3
  <2>4. CASE U \ {u} # {}
    <3>1. PICK x \in U \ {u} : \A y \in U \ {u} : x >= y
      BY <1>2, <2>2, <2>4
    <3>2. \A y \in U : (IF x >= u THEN x ELSE u) >= y
      BY <3>1
    <3> QED
      BY <3>1, <3>2
  <2> QED
    BY <2>3, <2>4
<1> HIDE DEF P
<1>3. Nat \subseteq P
  BY <1>1, <1>2, SetInduction
<1>4. Cardinality(T) \in P
  BY <1>3, FS_CardinalityType
<1> QED
  BY <1>4 DEF P

-----------------------------------------------------------------------------
(* One queue after another: nothing new, and nothing twice if they are apart.  *)
LEMMA ConcatFacts ==
    ASSUME NEW S, NEW q \in Seq(S), NEW r \in Seq(S)
    PROVE  /\ q \o r \in Seq(S) /\ Len(q \o r) = Len(q) + Len(r)
           /\ Range(q \o r) = Range(q) \union Range(r)
           /\ Distinct(q) /\ Distinct(r) /\ Range(q) \intersect Range(r) = {}
                => Distinct(q \o r)
<1> DEFINE c == q \o r
           n == Len(q)
           m == Len(r)
<1>1. /\ c \in Seq(S) /\ Len(c) = n + m /\ n \in Nat /\ m \in Nat
      /\ DOMAIN q = 1 .. n /\ DOMAIN r = 1 .. m /\ DOMAIN c = 1 .. n + m
      /\ \A i \in 1 .. n : c[i] = q[i]
      /\ \A i \in n + 1 .. n + m : i - n \in 1 .. m /\ c[i] = r[i - n]
  BY ConcatProperties, LenProperties
<1>2. Range(c) = Range(q) \union Range(r)
  BY RangeConcatenation
<1>3. ASSUME Distinct(q), Distinct(r), Range(q) \intersect Range(r) = {} PROVE Distinct(c)
  <2> HIDE DEF c, n, m
  <2>1. ASSUME NEW i \in 1 .. n, NEW j \in n + 1 .. n + m PROVE c[i] # c[j]
    <3>1. c[i] \in Range(q) /\ c[j] \in Range(r)
      BY <1>1, <2>1 DEF Range
    <3> QED
      BY <1>3, <3>1
  <2> SUFFICES ASSUME NEW i \in 1 .. n + m, NEW j \in 1 .. n + m, c[i] = c[j] PROVE i = j
    BY <1>1 DEF Distinct
  <2>2. CASE i \in 1 .. n
    <3>1. j \in 1 .. n
      BY <1>1, <2>1, <2>2
    <3> QED
      BY <1>1, <1>3, <2>2, <3>1 DEF Distinct
  <2>3. CASE i \in n + 1 .. n + m
    <3>1. j \in n + 1 .. n + m
      BY <1>1, <2>1, <2>3
    <3>2. i - n \in 1 .. m /\ j - n \in 1 .. m /\ r[i - n] = r[j - n]
      BY <1>1, <2>3, <3>1
    <3>3. i - n = j - n
      BY <1>1, <1>3, <3>2 DEF Distinct
    <3> QED
      BY <1>1, <2>3, <3>1, <3>3
  <2> QED
    BY <1>1, <2>2, <2>3
<1> QED
  BY <1>1, <1>2, <1>3

(* A queue that holds nothing twice is as long as it has elements.            *)
LEMMA DistinctLength ==
    ASSUME NEW S, NEW q \in Seq(S), Distinct(q)
    PROVE  IsFiniteSet(Range(q)) /\ Cardinality(Range(q)) = Len(q)
<1>1. Len(q) \in Nat /\ DOMAIN q = 1 .. Len(q) /\ q \in [1 .. Len(q) -> Range(q)]
  BY LenProperties DEF Range
<1>2. q \in Bijection(1 .. Len(q), Range(q))
  BY <1>1 DEF Bijection, Injection, Surjection, IsInjective, Distinct, Range
<1>3. ExistsBijection(1 .. Len(q), Range(q))
  BY <1>2 DEF ExistsBijection
<1>4. Cardinality(Range(q)) = Len(q)
  BY <1>1, <1>3, FS_CountingElements
<1>5. IsFiniteSet(Range(q))
  BY <1>1, <1>3, FS_NatBijection
<1> QED
  BY <1>4, <1>5

(* A piece of a queue.                                                       *)
LEMMA PieceFacts ==
    ASSUME NEW S, NEW q \in Seq(S), NEW m \in 1 .. Len(q) + 1, NEW n \in m - 1 .. Len(q)
    PROVE  /\ SubSeq(q, m, n) \in Seq(S) /\ Len(SubSeq(q, m, n)) = n - m + 1
           /\ \A i \in 1 .. n - m + 1 : SubSeq(q, m, n)[i] = q[m + i - 1]
           /\ Range(SubSeq(q, m, n)) = {q[i] : i \in m .. n}
           /\ Distinct(q) => Distinct(SubSeq(q, m, n))
<1> DEFINE p == SubSeq(q, m, n)
<1>1. Len(q) \in Nat /\ DOMAIN q = 1 .. Len(q) /\ m \in Int /\ n \in Int
  BY LenProperties
<1>2. \A i \in m .. n : i \in 1 .. Len(q) /\ q[i] \in S
  BY <1>1, ElementOfSeq
<1>3. /\ p \in Seq(S) /\ Len(p) = n - m + 1
      /\ \A i \in 1 .. n - m + 1 : p[i] = q[m + i - 1]
  BY <1>1, <1>2, SubSeqProperties
<1>4. DOMAIN p = 1 .. n - m + 1
  BY <1>3, LenProperties
<1> HIDE DEF p
<1>5. Range(p) = {q[i] : i \in m .. n}
  <2>1. ASSUME NEW x \in Range(p) PROVE x \in {q[i] : i \in m .. n}
    <3>1. PICK i \in 1 .. n - m + 1 : x = p[i]
      BY <1>4 DEF Range
    <3>2. m + i - 1 \in m .. n /\ x = q[m + i - 1]
      BY <1>1, <1>3, <3>1
    <3> QED
      BY <3>2
  <2>2. ASSUME NEW i \in m .. n PROVE q[i] \in Range(p)
    <3>1. i - m + 1 \in 1 .. n - m + 1 /\ p[i - m + 1] = q[m + (i - m + 1) - 1]
      BY <1>1, <1>3
    <3>2. m + (i - m + 1) - 1 = i
      BY <1>1
    <3> QED
      BY <1>4, <3>1, <3>2 DEF Range
  <2> QED
    BY <2>1, <2>2
<1>6. ASSUME Distinct(q) PROVE Distinct(p)
  <2> SUFFICES ASSUME NEW i \in 1 .. n - m + 1, NEW j \in 1 .. n - m + 1, p[i] = p[j]
               PROVE  i = j
    BY <1>4 DEF Distinct
  <2>1. /\ m + i - 1 \in 1 .. Len(q) /\ m + j - 1 \in 1 .. Len(q)
        /\ q[m + i - 1] = q[m + j - 1]
    BY <1>1, <1>2, <1>3
  <2>2. m + i - 1 = m + j - 1
    BY <1>1, <1>6, <2>1 DEF Distinct
  <2> QED
    BY <1>1, <2>2
<1> QED
  BY <1>3, <1>5, <1>6 DEF p
=============================================================================
