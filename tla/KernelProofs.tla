----------------------------- MODULE KernelProofs -----------------------------
(***************************************************************************)
(* Theorems about Kernel, for any number of tasks and priorities, every      *)
(* length of the queue, every width of the tick count, every block time, and  *)
(* any number of interrupts and pended ticks while the scheduler is suspended. *)
(***************************************************************************)
EXTENDS Kernel, QueueLemmas

-----------------------------------------------------------------------------
(* The lists.                                                                *)

(* What is taken off a list is gone, and the rest stays.                      *)
LEMMA KeptFacts ==
    ASSUME NEW T, NEW s \in Seq(T), NEW D
    PROVE  /\ Kept(s, D) \in Seq(T)
           /\ Range(Kept(s, D)) = Range(s) \ D
           /\ Distinct(s) => Distinct(Kept(s, D))
<1>n. PICK n \in Nat : n = Len(s)
  BY LenProperties
<1>q. PICK Q : Q = Seq(T)
  OBVIOUS
<1>e. PICK e : e = <<>>
  OBVIOUS
<1> DEFINE F == [i \in 1 .. n |-> [q \in Q |-> IF s[i] \in D THEN q ELSE Append(q, s[i])]]
           kept == CHOOSE f : f = [i \in 0 .. n |->
                       IF i = 0 THEN <<>>
                       ELSE IF s[i] \in D THEN f[i - 1]
                       ELSE Append(f[i - 1], s[i])]
<1>1. n \in Nat /\ DOMAIN s = 1 .. n /\ \A i \in 1 .. n : s[i] \in T
  BY <1>n, LenProperties, ElementOfSeq
<1>2. F \in [1 .. n -> [Q -> Q]]
  <2>1. \A i \in 1 .. n, q \in Q : Append(q, s[i]) \in Q
    BY <1>1, <1>q, AppendProperties
  <2> QED
    BY <2>1
<1>3. PICK f \in [0 .. n -> Q] :
              f[0] = e /\ \A i \in 1 .. n : f[i] = F[i][f[i - 1]]
  <2>1. e \in Q
    BY <1>q, <1>e, EmptySeq
  <2> HIDE DEF F
  <2> QED
    BY <1>2, <2>1, RecursionExists
<1>4. \A i \in 1 .. n : F[i][f[i - 1]] = IF s[i] \in D THEN f[i - 1]
                                               ELSE Append(f[i - 1], s[i])
  <2>1. \A i \in 1 .. n : i - 1 \in 0 .. n /\ f[i - 1] \in Q
    BY <1>1, <1>3
  <2> QED
    BY <2>1
<1>5. f = [i \in 0 .. n |-> IF i = 0 THEN <<>>
                            ELSE IF s[i] \in D THEN f[i - 1]
                            ELSE Append(f[i - 1], s[i])]
  <2> HIDE DEF F
  <2>1. \A i \in 0 .. n : f[i] = IF i = 0 THEN <<>>
                            ELSE IF s[i] \in D THEN f[i - 1]
                            ELSE Append(f[i - 1], s[i])
    <3> SUFFICES ASSUME NEW i \in 0 .. n
                 PROVE  f[i] = IF i = 0 THEN <<>>
                               ELSE IF s[i] \in D THEN f[i - 1]
                               ELSE Append(f[i - 1], s[i])
      OBVIOUS
    <3>1. CASE i = 0
      BY <1>e, <1>3, <3>1
    <3>2. CASE i \in 1 .. n
      <4>1. f[i] = F[i][f[i - 1]]
        BY <1>3, <3>2
      <4>2. i # 0
        BY <3>2
      <4> QED
        BY <1>4, <3>2, <4>1, <4>2
    <3> QED
      BY <1>1, <3>1, <3>2
  <2> QED
    BY <2>1
<1>6. kept = [i \in 0 .. n |-> IF i = 0 THEN <<>>
                               ELSE IF s[i] \in D THEN kept[i - 1]
                               ELSE Append(kept[i - 1], s[i])]
  BY <1>5
<1>7. Kept(s, D) = kept[n]
  BY <1>n DEF Kept
<1> HIDE DEF F, kept
<1>0. \A i \in 0 .. n : kept[i] = IF i = 0 THEN <<>>
                               ELSE IF s[i] \in D THEN kept[i - 1]
                               ELSE Append(kept[i - 1], s[i])
  BY <1>6
<1>8. kept[0] = <<>>
  BY <1>0, <1>1
<1>9. \A i \in 1 .. n : kept[i] = IF s[i] \in D THEN kept[i - 1] ELSE Append(kept[i - 1], s[i])
  BY <1>0, <1>1
<1> DEFINE P == {i \in Nat : i <= n =>
                   /\ kept[i] \in Seq(T)
                   /\ Range(kept[i]) = {s[j] : j \in 1 .. i} \ D
                   /\ Distinct(s) => Distinct(kept[i])}
<1>10. 0 \in P
  <2>1. <<>> \in Seq(T) /\ {s[j] : j \in 1 .. 0} = {} /\ Range(<<>>) = {} /\ Distinct(<<>>)
    BY EmptyFacts, EmptySeq
  <2> QED
    BY <1>8, <2>1
<1>11. ASSUME NEW i \in Nat, i \in P PROVE i + 1 \in P
  <2> SUFFICES ASSUME i + 1 <= n
               PROVE  /\ kept[i + 1] \in Seq(T)
                      /\ Range(kept[i + 1]) = {s[j] : j \in 1 .. i + 1} \ D
                      /\ Distinct(s) => Distinct(kept[i + 1])
    OBVIOUS
  <2>1. /\ kept[i] \in Seq(T)
        /\ Range(kept[i]) = {s[j] : j \in 1 .. i} \ D
        /\ Distinct(s) => Distinct(kept[i])
    <3>1. i <= n
      BY <1>1
    <3> QED
      BY <1>11, <3>1
  <2>2. i + 1 \in 1 .. n /\ (i + 1) - 1 = i
    BY <1>1
  <2>3. {s[j] : j \in 1 .. i + 1} = {s[j] : j \in 1 .. i} \union {s[i + 1]}
    <3>1. 1 .. i + 1 = (1 .. i) \union {i + 1}
      OBVIOUS
    <3> QED
      BY <3>1
  <2>4. CASE s[i + 1] \in D
    <3>1. kept[i + 1] = kept[i]
      BY <1>9, <2>2, <2>4
    <3> QED
      BY <2>1, <2>3, <2>4, <3>1
  <2>5. CASE s[i + 1] \notin D
    <3>1. kept[i + 1] = Append(kept[i], s[i + 1]) /\ s[i + 1] \in T
      BY <1>1, <1>9, <2>2, <2>5
    <3>2. /\ kept[i + 1] \in Seq(T)
          /\ Range(kept[i + 1]) = Range(kept[i]) \union {s[i + 1]}
          /\ Distinct(kept[i]) /\ s[i + 1] \notin Range(kept[i]) => Distinct(kept[i + 1])
      <4>1. kept[i] \in Seq(T) /\ s[i + 1] \in T
        BY <2>1, <3>1
      <4>2. Append(kept[i], s[i + 1]) \in Seq(T)
        BY <4>1, AppendProperties
      <4>3. /\ Range(Append(kept[i], s[i + 1])) = Range(kept[i]) \union {s[i + 1]}
            /\ Distinct(kept[i]) /\ s[i + 1] \notin Range(kept[i])
                 => Distinct(Append(kept[i], s[i + 1]))
        BY <4>1, AppendFacts
      <4> QED
        BY <3>1, <4>2, <4>3
    <3>3. Range(kept[i + 1]) = {s[j] : j \in 1 .. i + 1} \ D
      BY <2>1, <2>3, <2>5, <3>2
    <3>4. ASSUME Distinct(s) PROVE Distinct(kept[i + 1])
      <4>1. \A j \in 1 .. i : s[j] # s[i + 1]
        <5>1. ASSUME NEW j \in 1 .. i PROVE s[j] # s[i + 1]
          <6>1. j \in 1 .. n /\ j # i + 1
            BY <1>1
          <6> QED
            BY <1>1, <2>2, <3>4, <6>1 DEF Distinct
        <5> QED
          BY <5>1
      <4>2. s[i + 1] \notin Range(kept[i])
        BY <2>1, <4>1
      <4> QED
        BY <2>1, <3>2, <3>4, <4>2
    <3> QED
      BY <3>2, <3>3, <3>4
  <2> QED
    BY <2>4, <2>5
<1> HIDE DEF P
<1>12. n \in P
  BY <1>1, <1>10, <1>11, SetInduction
<1>13. Range(s) = {s[j] : j \in 1 .. n}
  BY <1>1 DEF Range
<1> QED
  BY <1>1, <1>7, <1>12, <1>13 DEF P

LEMMA OneFacts ==
    ASSUME NEW S, NEW e \in S
    PROVE  /\ <<e>> \in Seq(S) /\ Len(<<e>>) = 1 /\ <<e>>[1] = e
           /\ Range(<<e>>) = {e} /\ Distinct(<<e>>)
<1>1. <<e>> \in Seq(S) /\ Len(<<e>>) = 1 /\ <<e>>[1] = e
  OBVIOUS
<1>2. DOMAIN <<e>> = 1 .. 1
  BY <1>1, LenProperties
<1> QED
  BY <1>1, <1>2 DEF Range, Distinct

(* A set put in a row: each of its members once.                             *)
LEMMA SetToSeqFacts ==
    ASSUME NEW S, IsFiniteSet(S)
    PROVE  SetToSeq(S) \in Seq(S) /\ Range(SetToSeq(S)) = S /\ Distinct(SetToSeq(S))
<1> DEFINE n == Cardinality(S)
           q == SetToSeq(S)
<1>1. n \in Nat /\ ExistsBijection(1 .. n, S)
  BY FS_CardinalityType
<1>2. \E f \in [1 .. n -> S] : IsInjective(f)
  BY <1>1 DEF ExistsBijection, Bijection, Injection, IsInjective
<1>3. q \in [1 .. n -> S] /\ IsInjective(q)
  BY <1>2 DEF SetToSeq
<1> HIDE DEF q
<1>4. q \in Injection(1 .. n, S)
  BY <1>3 DEF Injection, IsInjective
<1>5. IsFiniteSet(1 .. n) /\ Cardinality(1 .. n) = n
  BY <1>1, FS_Interval
<1>6. q \in Surjection(1 .. n, S)
  BY <1>4, <1>5, FS_Injection
<1>7. q \in Seq(S)
  BY <1>1, <1>3, SeqDef
<1>8. Range(q) = S
  BY <1>3, <1>6 DEF Range, Surjection
<1> QED
  BY <1>3, <1>7, <1>8 DEF IsInjective, Distinct, q

(* A task is taken out of its ready list, in which there is another item.    *)
LEMMA WithoutFacts ==
    ASSUME NEW S, NEW c \in Seq(S), Distinct(c), NEW t \in Range(c), NEW e \in Range(c), e # t
    PROVE  /\ Without(c, t) \in Seq(S)
           /\ Range(Without(c, t)) = Range(c) \ {t}
           /\ Distinct(Without(c, t))
<1>1. CASE Head(c) # t
  BY <1>1, KeptFacts DEF Without
<1>2. CASE Head(c) = t
  <2>1. PICK n \in Nat : n = Len(c)
    BY LenProperties
  <2>2. DOMAIN c = 1 .. n /\ \A i \in 1 .. n : c[i] \in S
    BY <2>1, LenProperties, ElementOfSeq
  <2>3. PICK i \in 1 .. n : c[i] = e
    BY <2>2 DEF Range
  <2>4. c[1] = t
    BY <1>2
  <2>5. n >= 2
    BY <2>3, <2>4
  <2>6. /\ \A j \in 1 .. n : c[j] = t => j = 1
        /\ \A j \in 1 .. n : c[j] = c[n] => j = n
    BY <2>2, <2>4, <2>5 DEF Distinct
  <2> DEFINE mid == SubSeq(c, 2, n - 1)
  <2>7. /\ mid \in Seq(S) /\ Range(mid) = {c[j] : j \in 2 .. n - 1} /\ Distinct(mid)
    <3>1. 2 \in 1 .. Len(c) + 1 /\ n - 1 \in 2 - 1 .. Len(c)
      BY <2>1, <2>5
    <3> QED
      BY <3>1, PieceFacts
  <2> HIDE DEF mid
  <2>8. c[n] \in S
    BY <2>2, <2>5
  <2>o. PICK one : one = <<c[n]>>
    OBVIOUS
  <2>9. one \in Seq(S) /\ Range(one) = {c[n]} /\ Distinct(one)
    BY <2>8, <2>o, OneFacts
  <2>10. {c[n]} \intersect Range(mid) = {}
    <3>1. \A j \in 2 .. n - 1 : c[j] # c[n]
      BY <2>5, <2>6
    <3> QED
      BY <2>7, <3>1
  <2>11. Without(c, t) = one \o mid
    BY <1>2, <2>1, <2>o DEF Without, Last, mid
  <2>0. Range(one) \intersect Range(mid) = {}
    BY <2>9, <2>10
  <2>12. /\ one \o mid \in Seq(S)
         /\ Range(one \o mid) = {c[n]} \union Range(mid)
         /\ Distinct(one \o mid)
    BY <2>0, <2>7, <2>9, ConcatFacts
  <2>13. {c[n]} \union {c[j] : j \in 2 .. n - 1} = Range(c) \ {t}
    <3>1. Range(c) = {c[j] : j \in 1 .. n}
      BY <2>2 DEF Range
    <3>2. \A j \in 1 .. n : c[j] # t => j = n \/ j \in 2 .. n - 1
      BY <2>4
    <3>3. n \in 1 .. n /\ c[n] # t /\ \A j \in 2 .. n - 1 : j \in 1 .. n /\ c[j] # t
      BY <2>5, <2>6
    <3> QED
      BY <3>1, <3>2, <3>3
  <2> QED
    BY <2>7, <2>11, <2>12, <2>13
<1> QED
  BY <1>1, <1>2

(* A task is put into an event list.                                          *)
LEMMA InOrderFacts ==
    ASSUME NEW s \in Seq(Tasks), Distinct(s), NEW t \in Tasks, t \notin Range(s)
    PROVE  /\ InOrder(s, t) \in Seq(Tasks)
           /\ Range(InOrder(s, t)) = Range(s) \union {t}
           /\ Distinct(InOrder(s, t))
<1> DEFINE lower == {u \in Tasks : Priority[u] < Priority[t]}
           a == Kept(s, lower)
           b == Kept(s, Tasks \ lower)
<1>1. /\ a \in Seq(Tasks) /\ Range(a) = Range(s) \ lower /\ Distinct(a)
      /\ b \in Seq(Tasks) /\ Range(b) = Range(s) \ (Tasks \ lower) /\ Distinct(b)
  BY KeptFacts
<1>o. PICK one : one = <<t>>
  OBVIOUS
<1>2. one \in Seq(Tasks) /\ Range(one) = {t} /\ Distinct(one)
  BY <1>o, OneFacts
<1>3. Range(s) \subseteq Tasks
  BY RangeOfSeq DEF Range
<1>4. InOrder(s, t) = a \o one \o b
  BY <1>o DEF InOrder
<1> HIDE DEF a, b, lower
<1>5. PICK ab : ab = a \o one
  OBVIOUS
<1>6. ab \in Seq(Tasks) /\ Range(ab) = Range(a) \union {t} /\ Distinct(ab)
  <2>1. Range(a) \intersect Range(one) = {}
    BY <1>1, <1>2
  <2> QED
    BY <1>1, <1>2, <1>5, <2>1, ConcatFacts
<1>7. ab \o b \in Seq(Tasks) /\ Range(ab \o b) = Range(ab) \union Range(b) /\ Distinct(ab \o b)
  <2>1. Range(ab) \intersect Range(b) = {}
    BY <1>1, <1>3, <1>6 DEF lower
  <2> QED
    BY <1>1, <1>6, <2>1, ConcatFacts
<1>8. Range(s) = (Range(s) \ lower) \union (Range(s) \ (Tasks \ lower))
  BY <1>3
<1> QED
  BY <1>1, <1>4, <1>5, <1>6, <1>7, <1>8

(* Going round a list loses nothing, and ends at a task if there is one.      *)
LEMMA OnwardFacts ==
    ASSUME NEW S, NEW c \in Seq(S), Distinct(c), c # <<>>
    PROVE  /\ Onward(c) \in Seq(S) /\ Onward(c) # <<>> /\ Len(Onward(c)) = Len(c)
           /\ Range(Onward(c)) = Range(c) /\ Distinct(Onward(c))
<1>1. /\ Head(c) \in S /\ Tail(c) \in Seq(S) /\ Len(Tail(c)) = Len(c) - 1
      /\ Len(c) \in Nat \ {0}
  BY HeadTailProperties, EmptySeq
<1>2. /\ Range(c) = Range(Tail(c)) \union {Head(c)}
      /\ Distinct(Tail(c)) /\ Head(c) \notin Range(Tail(c))
  BY TailFacts
<1>o. PICK one : one = <<Head(c)>>
  OBVIOUS
<1>3. one \in Seq(S) /\ Len(one) = 1 /\ Range(one) = {Head(c)} /\ Distinct(one)
  BY <1>1, <1>o, OneFacts
<1>t. PICK tl : tl = Tail(c)
  OBVIOUS
<1>0. Range(tl) \intersect Range(one) = {}
  BY <1>2, <1>3, <1>t
<1>4. /\ tl \o one \in Seq(S)
      /\ Len(tl \o one) = Len(tl) + Len(one)
      /\ Range(tl \o one) = Range(tl) \union {Head(c)}
      /\ Distinct(tl \o one)
  <2>1. tl \in Seq(S) /\ one \in Seq(S) /\ Distinct(tl) /\ Distinct(one)
    BY <1>1, <1>2, <1>3, <1>t
  <2>2. /\ tl \o one \in Seq(S) /\ Len(tl \o one) = Len(tl) + Len(one)
        /\ Range(tl \o one) = Range(tl) \union Range(one)
        /\ Distinct(tl \o one)
    BY <1>0, <2>1, ConcatFacts
  <2> QED
    BY <1>3, <2>2
<1>5. Len(Onward(c)) = Len(c)
  BY <1>1, <1>3, <1>4, <1>o, <1>t DEF Onward
<1>6. Onward(c) # <<>>
  BY <1>1, <1>5, EmptySeq
<1> QED
  BY <1>2, <1>3, <1>4, <1>5, <1>6, <1>o, <1>t DEF Onward

LEMMA RotatedFacts ==
    ASSUME NEW S, NEW c \in Seq(S), Distinct(c), End \in Range(c)
    PROVE  /\ Rotated(c) \in Seq(S) /\ Rotated(c) # <<>>
           /\ Range(Rotated(c)) = Range(c) /\ Distinct(Rotated(c))
           /\ c # <<End>> => Head(Rotated(c)) # End
<1>1. c # <<>>
  BY EmptyFacts
<1>2. PICK o : o = Onward(c)
  OBVIOUS
<1>3. o \in Seq(S) /\ o # <<>> /\ Len(o) = Len(c) /\ Range(o) = Range(c) /\ Distinct(o)
  BY <1>1, <1>2, OnwardFacts
<1>4. /\ Onward(o) \in Seq(S) /\ Onward(o) # <<>> /\ Len(Onward(o)) = Len(o)
      /\ Range(Onward(o)) = Range(o) /\ Distinct(Onward(o))
  BY <1>3, OnwardFacts
<1>5. Rotated(c) = IF Head(o) = End THEN Onward(o) ELSE o
  BY <1>2 DEF Rotated
<1>6. ASSUME c # <<End>>, Head(o) = End PROVE Head(Onward(o)) # End
  <2>1. PICK n \in Nat : n = Len(c)
    BY LenProperties
  <2>2. DOMAIN c = 1 .. n /\ DOMAIN o = 1 .. n /\ n >= 1
    BY <1>1, <1>3, <2>1, LenProperties, EmptySeq
  <2>3. n # 1
    <3> SUFFICES ASSUME n = 1 PROVE FALSE
      OBVIOUS
    <3>1. c[1] = End
      BY <2>2 DEF Range
    <3>2. End \in S
      BY <2>1, <3>1, <2>2, ElementOfSeq
    <3>3. <<End>> \in Seq(S) /\ Len(<<End>>) = 1 /\ <<End>>[1] = End
      BY <3>2, OneFacts
    <3>4. \A i \in 1 .. Len(c) : c[i] = <<End>>[i]
      BY <2>1, <3>1, <3>3
    <3>5. c = <<End>>
      BY <2>1, <3>3, <3>4, SeqEqual
    <3> QED
      BY <1>6, <3>5
  <2>4. o[1] = End /\ 1 \in DOMAIN o /\ 2 \in DOMAIN o
    BY <1>6, <2>2, <2>3
  <2>5. o[2] # End
    BY <1>3, <2>4 DEF Distinct
  <2>6. Tail(o) \in Seq(S) /\ Len(Tail(o)) = n - 1 /\ Tail(o)[1] = o[2] /\ Head(o) \in S
    <3>1. /\ Tail(o) \in Seq(S) /\ Len(Tail(o)) = Len(o) - 1 /\ Head(o) \in S
          /\ \A i \in 1 .. Len(Tail(o)) : Tail(o)[i] = o[i + 1]
      BY <1>3, HeadTailProperties
    <3> QED
      BY <1>3, <2>1, <2>2, <2>3, <3>1
  <2>o. PICK one : one = <<Head(o)>>
    OBVIOUS
  <2>7. one \in Seq(S) /\ Len(one) = 1
    BY <2>6, <2>o, OneFacts
  <2>8. (Tail(o) \o one)[1] = Tail(o)[1]
    <3>1. 1 \in 1 .. Len(Tail(o)) + Len(one) /\ 1 <= Len(Tail(o))
      BY <2>2, <2>3, <2>6, <2>7
    <3> QED
      BY <2>6, <2>7, <3>1, ConcatProperties
  <2> QED
    BY <2>5, <2>6, <2>8, <2>o, Head(Tail(o) \o one) = (Tail(o) \o one)[1] DEF Onward
<1> QED
  BY <1>3, <1>4, <1>5, <1>6

-----------------------------------------------------------------------------
(* The ready lists.                                                          *)

Places == {"ready", "delayed", "overflow", "suspended"}
Items == Tasks \union {End}
ItemsAt(pl, p) == {End} \union {t \in Tasks : pl[t] = "ready" /\ Priority[t] = p}

(* Each ready list holds, once, the tasks of its priority whose list item is  *)
(* in a ready list, and its marker.                                          *)
ReadyLists(r, pl) ==
    /\ r \in [Priorities -> Seq(Items)]
    /\ \A p \in Priorities : Distinct(r[p]) /\ Range(r[p]) = ItemsAt(pl, p)

LEMMA PriorityFacts ==
    /\ Priority \in [Tasks -> Nat] /\ IsFiniteSet(Priorities)
    /\ Priorities \subseteq Nat /\ \A t \in Tasks : Priority[t] \in Priorities
<1>1. Priority \in [Tasks -> Nat] /\ IsFiniteSet(Tasks)
  BY KernelAssumption
<1>2. Priorities \subseteq Nat /\ \A t \in Tasks : Priority[t] \in Priorities
  BY <1>1 DEF Priorities
<1>3. Priority \in Surjection(Tasks, Priorities)
  BY <1>1, <1>2 DEF Surjection, Priorities
<1> QED
  BY <1>1, <1>2, <1>3, FS_Surjection

(* The highest list that is not empty is as high as every task that is ready. *)
LEMMA TopFacts ==
    ASSUME NEW r, NEW pl, ReadyLists(r, pl), NEW i \in Tasks, pl[i] = "ready"
    PROVE  /\ Top(r) \in Priorities /\ r[Top(r)] # <<End>>
           /\ \A t \in Tasks : pl[t] = "ready" => Priority[t] <= Top(r)
<1> DEFINE P == {p \in Priorities : r[p] # <<End>>}
<1>1. \A t \in Tasks : pl[t] = "ready" => Priority[t] \in P
  <2> SUFFICES ASSUME NEW t \in Tasks, pl[t] = "ready" PROVE Priority[t] \in P
    OBVIOUS
  <2>1. Priority[t] \in Priorities
    BY PriorityFacts
  <2>2. t \in Range(r[Priority[t]])
    BY <2>1 DEF ReadyLists, ItemsAt
  <2>3. Range(<<End>>) = {End}
    BY OneFacts DEF Items
  <2>4. t # End
    BY KernelAssumption
  <2> QED
    BY <2>1, <2>2, <2>3, <2>4
<1>2. IsFiniteSet(P) /\ P \subseteq Int
  <2>1. P \in SUBSET Priorities /\ IsFiniteSet(Priorities) /\ Priorities \subseteq Nat
    BY PriorityFacts
  <2> HIDE DEF P
  <2>2. IsFiniteSet(P)
    BY <2>1, FS_Subset
  <2> QED
    BY <2>1, <2>2
<1>3. Top(r) = CHOOSE x \in P : \A y \in P : x >= y
  BY DEF Top, Max
<1> HIDE DEF P
<1>4. \E x \in P : \A y \in P : x >= y
  BY <1>1, <1>2, LargestNumber
<1>5. Top(r) \in P /\ \A y \in P : Top(r) >= y
  BY <1>3, <1>4
<1>6. \A t \in Tasks : pl[t] = "ready" => Priority[t] <= Top(r)
  BY <1>1, <1>2, <1>5
<1> QED
  BY <1>5, <1>6 DEF P

(* The next task of the highest list is ready, and no ready task is higher.   *)
LEMMA ChosenFacts ==
    ASSUME NEW r, NEW pl, ReadyLists(r, pl), NEW i \in Tasks, pl[i] = "ready",
           NEW c, c = Rotated(r[Top(r)])
    PROVE  /\ ReadyLists([r EXCEPT ![Top(r)] = c], pl)
           /\ Head(c) \in Tasks /\ pl[Head(c)] = "ready"
           /\ \A t \in Tasks : pl[t] = "ready" => Priority[t] <= Priority[Head(c)]
<1>1. PICK p \in Priorities : p = Top(r)
  BY TopFacts
<1>2. r[p] # <<End>> /\ \A t \in Tasks : pl[t] = "ready" => Priority[t] <= p
  BY <1>1, TopFacts
<1>3. /\ r \in [Priorities -> Seq(Items)] /\ r[p] \in Seq(Items)
      /\ Distinct(r[p]) /\ Range(r[p]) = ItemsAt(pl, p) /\ End \in Range(r[p])
  BY DEF ReadyLists, ItemsAt
<1>4. c = Rotated(r[p])
  BY <1>1
<1>5. /\ c \in Seq(Items) /\ c # <<>> /\ Range(c) = ItemsAt(pl, p)
      /\ Distinct(c) /\ Head(c) # End
  BY <1>2, <1>3, <1>4, RotatedFacts
<1>6. Head(c) \in ItemsAt(pl, p)
  BY <1>5, TailFacts
<1>7. Head(c) \in Tasks /\ pl[Head(c)] = "ready" /\ Priority[Head(c)] = p
  BY <1>5, <1>6 DEF ItemsAt
<1>8. PICK n : n = [r EXCEPT ![p] = c]
  OBVIOUS
<1>9. /\ n \in [Priorities -> Seq(Items)]
      /\ \A q \in Priorities : n[q] = IF q = p THEN c ELSE r[q]
  BY <1>3, <1>5, <1>8
<1>10. ReadyLists(n, pl)
  BY <1>5, <1>9 DEF ReadyLists
<1> QED
  BY <1>1, <1>2, <1>7, <1>8, <1>10

(* The switch: the task that then runs is ready, and no ready task is higher. *)
LEMMA SwitchFacts ==
    ASSUME NEW r, NEW pl, ReadyLists(r, pl), NEW i \in Tasks, pl[i] = "ready",
           SwitchContext(r, 0)
    PROVE  /\ ReadyLists(ready', pl) /\ yieldPending' = FALSE
           /\ cur' \in Tasks /\ pl[cur'] = "ready"
           /\ \A t \in Tasks : pl[t] = "ready" => Priority[t] <= Priority[cur']
<1>1. PICK c : c = Rotated(r[Top(r)])
  OBVIOUS
<1>2. cur' = Head(c) /\ ready' = [r EXCEPT ![Top(r)] = c] /\ yieldPending' = FALSE
  BY <1>1 DEF SwitchContext
<1> QED
  BY <1>1, <1>2, ChosenFacts

(* A task becomes ready.                                                      *)
LEMMA ReadiedFacts ==
    ASSUME NEW r, NEW pl \in [Tasks -> Places], ReadyLists(r, pl), NEW t \in Tasks, pl[t] # "ready"
    PROVE  ReadyLists(Readied(r, t), [pl EXCEPT ![t] = "ready"])
<1>1. PICK p \in Priorities : p = Priority[t]
  BY PriorityFacts
<1>2. /\ r \in [Priorities -> Seq(Items)] /\ r[p] \in Seq(Items) /\ t \in Items
      /\ Distinct(r[p]) /\ Range(r[p]) = ItemsAt(pl, p)
  BY DEF ReadyLists, Items
<1>3. t \notin Range(r[p])
  BY <1>2, KernelAssumption DEF ItemsAt
<1>4. PICK c : c = Append(r[p], t)
  OBVIOUS
<1>5. c \in Seq(Items) /\ Range(c) = ItemsAt(pl, p) \union {t} /\ Distinct(c)
  BY <1>2, <1>3, <1>4, AppendFacts, AppendProperties
<1>6. PICK n : n = [pl EXCEPT ![t] = "ready"]
  OBVIOUS
<1>7. \A u \in Tasks : n[u] = IF u = t THEN "ready" ELSE pl[u]
  BY <1>6
<1>8. \A q \in Priorities : ItemsAt(n, q) = IF q = p THEN ItemsAt(pl, q) \union {t} ELSE ItemsAt(pl, q)
  BY <1>1, <1>7 DEF ItemsAt
<1>9. /\ Readied(r, t) \in [Priorities -> Seq(Items)]
      /\ \A q \in Priorities : Readied(r, t)[q] = IF q = p THEN c ELSE r[q]
  BY <1>1, <1>2, <1>4, <1>5 DEF Readied
<1>10. ReadyLists(Readied(r, t), n)
  BY <1>5, <1>8, <1>9 DEF ReadyLists
<1> QED
  BY <1>6, <1>10

(* A task is taken out of its ready list.                                     *)
LEMMA RemovedFacts ==
    ASSUME NEW r, NEW pl \in [Tasks -> Places], ReadyLists(r, pl),
           NEW t \in Tasks, pl[t] = "ready", NEW v \in Places, v # "ready"
    PROVE  ReadyLists([r EXCEPT ![Priority[t]] = Without(@, t)], [pl EXCEPT ![t] = v])
<1>1. PICK p \in Priorities : p = Priority[t]
  BY PriorityFacts
<1>2. /\ r \in [Priorities -> Seq(Items)] /\ r[p] \in Seq(Items) /\ t \in Items
      /\ Distinct(r[p]) /\ Range(r[p]) = ItemsAt(pl, p)
  BY DEF ReadyLists, Items
<1>3. t \in Range(r[p]) /\ End \in Range(r[p]) /\ End # t
  BY <1>1, <1>2, KernelAssumption DEF ItemsAt
<1>4. PICK c : c = Without(r[p], t)
  OBVIOUS
<1>5. c \in Seq(Items) /\ Range(c) = ItemsAt(pl, p) \ {t} /\ Distinct(c)
  BY <1>2, <1>3, <1>4, WithoutFacts
<1>6. PICK n : n = [pl EXCEPT ![t] = v]
  OBVIOUS
<1>7. \A u \in Tasks : n[u] = IF u = t THEN v ELSE pl[u]
  BY <1>6
<1>8. \A q \in Priorities : ItemsAt(n, q) = IF q = p THEN ItemsAt(pl, q) \ {t} ELSE ItemsAt(pl, q)
  BY <1>1, <1>3, <1>7 DEF ItemsAt
<1>9. PICK m : m = [r EXCEPT ![Priority[t]] = Without(@, t)]
  OBVIOUS
<1>10. /\ m \in [Priorities -> Seq(Items)]
       /\ \A q \in Priorities : m[q] = IF q = p THEN c ELSE r[q]
  BY <1>1, <1>2, <1>4, <1>5, <1>9
<1>11. ReadyLists(m, n)
  BY <1>5, <1>8, <1>10 DEF ReadyLists
<1> QED
  BY <1>6, <1>9, <1>11

(* The tasks of a row become ready, one after the other.                      *)
LEMMA AllReadiedFacts ==
    ASSUME NEW r, NEW pl \in [Tasks -> Places], ReadyLists(r, pl),
           NEW s \in Seq(Tasks), Distinct(s), \A t \in Range(s) : pl[t] # "ready",
           NEW n \in [Tasks -> Places],
           \A t \in Tasks : n[t] = IF t \in Range(s) THEN "ready" ELSE pl[t]
    PROVE  ReadyLists(AllReadied(r, s), n)
<1>1. PICK m : m = AllReadied(r, s)
  OBVIOUS
<1>2. DOMAIN m = Priorities
      /\ \A p \in Priorities : m[p] = r[p] \o Kept(s, {t \in Tasks : Priority[t] # p})
  BY <1>1 DEF AllReadied
<1>3. ASSUME NEW p \in Priorities
      PROVE  m[p] \in Seq(Items) /\ Distinct(m[p]) /\ Range(m[p]) = ItemsAt(n, p)
  <2>1. PICK k : k = Kept(s, {t \in Tasks : Priority[t] # p})
    OBVIOUS
  <2>2. /\ k \in Seq(Tasks) /\ Distinct(k)
        /\ Range(k) = Range(s) \ {t \in Tasks : Priority[t] # p}
    BY <2>1, KeptFacts
  <2>3. k \in Seq(Items)
    BY <2>2, SeqMonotonic DEF Items
  <2>4. r[p] \in Seq(Items) /\ Distinct(r[p]) /\ Range(r[p]) = ItemsAt(pl, p)
    BY DEF ReadyLists
  <2>5. Range(s) \subseteq Tasks
    BY RangeOfSeq DEF Range
  <2>6. Range(r[p]) \intersect Range(k) = {}
    BY <2>2, <2>4, <2>5, KernelAssumption DEF ItemsAt
  <2>7. PICK a : a = r[p]
    OBVIOUS
  <2>8. a \o k \in Seq(Items) /\ Range(a \o k) = Range(a) \union Range(k) /\ Distinct(a \o k)
    BY <2>2, <2>3, <2>4, <2>6, <2>7, ConcatFacts
  <2>9. ItemsAt(pl, p) \union (Range(s) \ {t \in Tasks : Priority[t] # p}) = ItemsAt(n, p)
    BY <2>5 DEF ItemsAt
  <2> QED
    BY <1>2, <2>1, <2>2, <2>4, <2>7, <2>8, <2>9
<1>4. m \in [Priorities -> Seq(Items)]
  <2>1. m = [p \in Priorities |-> m[p]]
    BY <1>1 DEF AllReadied
  <2> QED
    BY <1>3, <2>1
<1> QED
  BY <1>1, <1>3, <1>4 DEF ReadyLists

-----------------------------------------------------------------------------
(* The inductive invariant.                                                  *)

(* The steps of a call made with the scheduler suspended, ... *)
Held == {"lock", "check", "test", "insert", "block", "unlockTx", "unlockRx", "resume"}
(* ... and those of a task that is, or has been, in an event list.            *)
Sleepy == {"block", "unlockTx", "unlockRx", "resume", "yield", "try"}

SchedType == cur \in Tasks /\ yieldPending \in BOOLEAN
TimeType ==
    /\ place \in [Tasks -> Places] /\ wake \in [Tasks -> 0 .. Width - 1]
    /\ nextUnblock \in 0 .. Width - 1 /\ ticks \in 0 .. Width * Epochs - 1
    /\ pended \in 0 .. MaxPended
    /\ owed \in [Tasks -> 0 .. Forever] /\ since \in [Tasks -> 0 .. Width]
QueueType ==
    /\ messages \in 0 .. Length
    /\ waitSend \in Seq(Tasks) /\ waitReceive \in Seq(Tasks)
    /\ txLock \in Unlocked .. MaxLock /\ rxLock \in Unlocked .. MaxLock
CallType ==
    /\ pc \in [Tasks -> Labels] /\ op \in [Tasks -> {"none", "send", "receive", "delay"}]
    /\ left \in [Tasks -> 0 .. Forever] /\ entered \in [Tasks -> 0 .. Width * Epochs - 1]
    /\ goal \in [Tasks -> {"sleep", "retry", "expired"}]
HoldType ==
    /\ suspended \in 0 .. 1 /\ pending \in Seq(Tasks) /\ isrOn \in Tasks \union {None}

(* A task that waits is not in a ready list, except just before it blocks.    *)
Away(t) == place[t] # "ready" \/ (t = cur /\ pc[t] = "block")

WaitInv(w, o) ==
    /\ Distinct(w)
    /\ \A t \in Range(w) : /\ op[t] = o /\ goal[t] = "sleep" /\ pc[t] \in Sleepy
                           /\ Away(t) /\ t \notin Range(pending)

WaitsInv ==
    /\ WaitInv(waitSend, "send") /\ WaitInv(waitReceive, "receive")
    /\ Distinct(pending) /\ \A t \in Range(pending) : Away(t)

(* The scheduler is suspended, and the queue locked, by the call of the task  *)
(* that runs and by no other; ticks and tasks are held back only then.        *)
TxHeld == pc[cur] \in {"check", "test", "insert", "unlockTx"}
              \/ (pc[cur] = "block" /\ op[cur] # "delay")
HoldInv ==
    /\ suspended = 1 <=> pc[cur] \in Held
    /\ \A t \in Tasks : pc[t] \in Held => t = cur
    /\ suspended = 0 => pended = 0 /\ pending = <<>>
    /\ txLock # Unlocked <=> TxHeld
    /\ rxLock # Unlocked <=> TxHeld \/ pc[cur] = "unlockRx"

CurInv == place[cur] = "ready"
              \/ (pc[cur] \in {"unlockTx", "unlockRx", "resume", "yield"} /\ goal[cur] = "sleep")

PcOf(t) ==
    /\ op[t] = "none" <=> pc[t] = "run"
    /\ op[t] = "delay" => pc[t] \in {"suspend", "block", "resume", "yield"}
    /\ pc[t] \notin {"run", "first", "yield"} => left[t] >= 1
    /\ pc[t] = "yield" /\ op[t] # "delay" => left[t] >= 1
    /\ pc[t] = "insert" => goal[t] = "sleep"
    /\ goal[t] = "expired" => /\ owed[t] = 0 /\ left[t] # Forever /\ op[t] # "delay"
                              /\ pc[t] \in {"unlockTx", "unlockRx", "resume"}
PcInv == \A t \in Tasks : PcOf(t)

IdleInv == pc[Idle] = "run" /\ place[Idle] = "ready"

HighInv == yieldPending \/ \A t \in Tasks : place[t] = "ready" => Priority[t] <= Priority[cur]

ListInv == ReadyLists(ready, place) /\ WaitsInv /\ HoldInv /\ CurInv /\ PcInv /\ IdleInv /\ HighInv

Types == SchedType /\ TimeType /\ QueueType /\ CallType /\ HoldType

(* What time is left, of each sleep and of each call that has noted the time  *)
(* of its entry.                                                             *)
Delays(n, pl, nx, wk, ow) ==
    \A t \in Tasks :
        /\ pl[t] = "delayed" => Count(n) < wk[t] /\ nx <= wk[t] /\ ow[t] = wk[t] - Count(n)
        /\ pl[t] = "overflow" => wk[t] < Count(n) /\ ow[t] = wk[t] - Count(n) + Width

CallTimes(n, ow, si) ==
    \A t \in Tasks : InTime(t) =>
        /\ ow[t] = (IF si[t] < left[t] THEN left[t] - si[t] ELSE 0)
        /\ si[t] < Width => n = (entered[t] + si[t]) % (Width * Epochs)

DelayInv == Delays(ticks, place, nextUnblock, wake, owed)

(* The tick count stands still while the call that has noted it is on its way *)
(* into an event list.                                                       *)
CallOf(t) ==
    InTime(t) =>
        /\ owed[t] = (IF since[t] < left[t] THEN left[t] - since[t] ELSE 0)
        /\ since[t] < Width => ticks = (entered[t] + since[t]) % (Width * Epochs)
        /\ pc[t] \in {"test", "insert", "block"} => since[t] = 0
CallInv == \A t \in Tasks : CallOf(t)

Inv == Types /\ ListInv /\ DelayInv /\ CallInv

-----------------------------------------------------------------------------
(* The task of a list that is woken.                                          *)

LEMMA RouseFacts ==
    ASSUME Inv, NEW w \in Seq(Tasks), NEW o, WaitInv(w, o), NEW y \in BOOLEAN, Rouse(w, y)
    PROVE  /\ cur' \in Tasks /\ yieldPending' \in BOOLEAN
           /\ place' \in [Tasks -> Places] /\ wake' \in [Tasks -> 0 .. Width - 1]
           /\ pending' \in Seq(Tasks) /\ Distinct(pending')
           /\ ReadyLists(ready', place')
           /\ w = <<>> => place' = place /\ wake' = wake /\ pending' = pending
           /\ w # <<>> /\ suspended = 0 =>
                /\ pending' = pending
                /\ \A t \in Tasks : /\ place'[t] = IF t = Head(w) THEN "ready" ELSE place[t]
                                    /\ wake'[t] = IF t = Head(w) THEN 0 ELSE wake[t]
           /\ w # <<>> /\ suspended = 1 =>
                /\ place' = place /\ wake' = wake
                /\ Range(pending') = Range(pending) \union {Head(w)}
           /\ cur' # cur => suspended = 0 /\ place'[cur'] = "ready"
           /\ yieldPending' \/ \A t \in Tasks : place'[t] = "ready" => Priority[t] <= Priority[cur']
<1>0. /\ cur \in Tasks /\ yieldPending \in BOOLEAN /\ place \in [Tasks -> Places]
      /\ wake \in [Tasks -> 0 .. Width - 1] /\ pending \in Seq(Tasks) /\ suspended \in {0, 1}
      /\ Width \in Nat \ {0, 1} /\ Distinct(pending) /\ ReadyLists(ready, place)
      /\ place[Idle] = "ready" /\ Idle \in Tasks /\ HighInv /\ HoldInv
  BY KernelAssumption
     DEF Inv, Types, ListInv, SchedType, TimeType, HoldType, WaitsInv, IdleInv
<1>1. CASE w = <<>>
  BY <1>0, <1>1 DEF Rouse, GoOn, HighInv
<1>2. CASE w # <<>>
  <2>1. PICK u \in Tasks : u = Head(w) /\ u \in Range(w)
    BY <1>2, TailFacts, HeadTailProperties
  <2>2. /\ Unblock(u)
        /\ IF y /\ Higher(u) THEN SwitchContext(WithUnblocked(u), suspended)
                             ELSE GoOn(WithUnblocked(u), yieldPending \/ Higher(u))
    BY <1>2, <2>1 DEF Rouse
  <2>3. Higher(u) \in BOOLEAN /\ (~Higher(u) => Priority[u] <= Priority[cur])
    BY <1>0, PriorityFacts DEF Higher
  <2>4. u \notin Range(pending) /\ Away(u)
    BY <2>1 DEF WaitInv
  <2>5. CASE suspended = 0
    <3>1. place[u] # "ready"
      BY <1>0, <2>4, <2>5 DEF Away, HoldInv, Held
    <3>2. /\ place' = [place EXCEPT ![u] = "ready"] /\ wake' = [wake EXCEPT ![u] = 0]
          /\ pending' = pending
      BY <2>2, <2>5 DEF Unblock
    <3>3. /\ place' \in [Tasks -> Places] /\ wake' \in [Tasks -> 0 .. Width - 1]
          /\ \A t \in Tasks : /\ place'[t] = IF t = u THEN "ready" ELSE place[t]
                              /\ wake'[t] = IF t = u THEN 0 ELSE wake[t]
      BY <1>0, <3>2 DEF Places
    <3>4. PICK r : r = WithUnblocked(u)
      OBVIOUS
    <3>5. ReadyLists(r, place') /\ place'[Idle] = "ready"
      BY <1>0, <2>5, <3>1, <3>2, <3>3, <3>4, ReadiedFacts DEF WithUnblocked
    <3>6. CASE y /\ Higher(u)
      <4>1. SwitchContext(r, 0)
        BY <2>2, <2>5, <3>4, <3>6
      <4>2. /\ ReadyLists(ready', place') /\ yieldPending' = FALSE
            /\ cur' \in Tasks /\ place'[cur'] = "ready"
            /\ \A t \in Tasks : place'[t] = "ready" => Priority[t] <= Priority[cur']
        BY <1>0, <3>5, <4>1, SwitchFacts
      <4> QED
        <5>1. yieldPending' \in BOOLEAN /\ cur' \in Tasks
          BY <4>2
        <5>2. /\ pending' \in Seq(Tasks) /\ Distinct(pending')
          BY <1>0, <3>2
        <5> QED
          BY <1>2, <2>1, <2>5, <3>2, <3>3, <4>2, <5>1, <5>2
    <3>7. CASE ~(y /\ Higher(u))
      <4>1. cur' = cur /\ ready' = r /\ yieldPending' = (yieldPending \/ Higher(u))
        BY <2>2, <3>4, <3>7 DEF GoOn
      <4>2. yieldPending' \/ \A t \in Tasks : place'[t] = "ready" => Priority[t] <= Priority[cur']
        BY <1>0, <2>3, <3>3, <4>1 DEF HighInv
      <4> QED
        BY <1>0, <1>2, <2>1, <2>3, <2>5, <3>2, <3>3, <3>5, <4>1, <4>2
    <3> QED
      BY <3>6, <3>7
  <2>6. CASE suspended = 1
    <3>1. pending' = Append(pending, u) /\ place' = place /\ wake' = wake
      BY <2>2, <2>6 DEF Unblock
    <3>2. /\ pending' \in Seq(Tasks) /\ Range(pending') = Range(pending) \union {u}
          /\ Distinct(pending')
      BY <1>0, <2>4, <3>1, AppendFacts, AppendProperties
    <3>3. /\ cur' = cur /\ ready' = ready /\ yieldPending' \in BOOLEAN
          /\ yieldPending => yieldPending'
      <4>1. WithUnblocked(u) = ready
        BY <2>6 DEF WithUnblocked
      <4>2. CASE y /\ Higher(u)
        BY <2>2, <2>6, <4>1, <4>2 DEF SwitchContext
      <4>3. CASE ~(y /\ Higher(u))
        BY <1>0, <2>2, <2>3, <4>1, <4>3 DEF GoOn
      <4> QED
        BY <4>2, <4>3
    <3>4. yieldPending' \/ \A t \in Tasks : place'[t] = "ready" => Priority[t] <= Priority[cur']
      BY <1>0, <3>1, <3>3 DEF HighInv
    <3> QED
      BY <1>0, <1>2, <2>1, <2>6, <3>1, <3>2, <3>3, <3>4
  <2> QED
    BY <1>0, <2>5, <2>6
<1> QED
  BY <1>1, <1>2

-----------------------------------------------------------------------------
(* Numbers that wrap.                                                        *)

LEMMA DivUnique ==
    ASSUME NEW W \in Nat \ {0}, NEW q \in Int, NEW c \in 0 .. W - 1, NEW a \in Int, a = W * q + c
    PROVE  a % W = c /\ a \div W = q
  OBVIOUS

LEMMA DivParts ==
    ASSUME NEW W \in Nat \ {0}, NEW a \in Nat
    PROVE  \E q \in Nat, c \in 0 .. W - 1 : a = W * q + c /\ a \div W = q /\ a % W = c
<1>1. a \div W \in Nat /\ a % W \in 0 .. W - 1 /\ a = W * (a \div W) + (a % W)
  OBVIOUS
<1> QED
  BY <1>1

(* Less than a whole turn wraps at most once.                                 *)
LEMMA AddParts ==
    ASSUME NEW W \in Nat \ {0, 1}, NEW n \in Nat, NEW k \in 0 .. W - 1
    PROVE  /\ (n % W) + k < W => (n + k) % W = (n % W) + k /\ (n + k) \div W = n \div W
           /\ (n % W) + k >= W => /\ (n + k) % W = (n % W) + k - W
                                  /\ (n + k) \div W = (n \div W) + 1
<1>1. PICK q \in Nat, c \in 0 .. W - 1 : n = W * q + c /\ n \div W = q /\ n % W = c
  BY DivParts
<1>2. CASE c + k < W
  <2>1. PICK a \in Int, d \in 0 .. W - 1 : a = n + k /\ d = c + k
    BY <1>2
  <2>2. a = W * q + d /\ q \in Int
    BY <1>1, <2>1
  <2>3. a % W = d /\ a \div W = q
    BY <2>2, DivUnique
  <2> QED
    BY <1>1, <1>2, <2>1, <2>3
<1>3. CASE c + k >= W
  <2>1. PICK a \in Int, d \in 0 .. W - 1, p \in Int : a = n + k /\ d = c + k - W /\ p = q + 1
    BY <1>3
  <2>2. a = W * p + d
    BY <1>1, <2>1
  <2>3. a % W = d /\ a \div W = p
    BY <2>2, DivUnique
  <2> QED
    BY <1>1, <1>3, <2>1, <2>3
<1> QED
  BY <1>2, <1>3

LEMMA WrapParts ==
    ASSUME NEW W \in Nat \ {0, 1}, NEW E \in Nat \ {0, 1}, NEW n \in 0 .. W * E - 1,
           NEW k \in 0 .. W - 1, n + k >= W * E
    PROVE  n \div W = E - 1 /\ (n % W) + k >= W /\ n + k - W * E = (n % W) + k - W
<1>1. PICK q \in Nat, c \in 0 .. W - 1 : n = W * q + c /\ n \div W = q /\ n % W = c
  BY DivParts
<1>2. q = E - 1
  <2>1. ~(q >= E)
    <3> SUFFICES ASSUME q >= E PROVE FALSE
      OBVIOUS
    <3>1. W * q >= W * E
      OBVIOUS
    <3> QED
      BY <1>1, <3>1
  <2>2. ~(q <= E - 2)
    <3> SUFFICES ASSUME q <= E - 2 PROVE FALSE
      OBVIOUS
    <3>1. W * q <= W * (E - 2) /\ W * (E - 2) = W * E - 2 * W
      OBVIOUS
    <3> QED
      BY <1>1, <3>1
  <2> QED
    BY <2>1, <2>2
<1>3. W * (E - 1) = W * E - W
  OBVIOUS
<1> QED
  BY <1>1, <1>2, <1>3

LEMMA TurnOnce ==
    ASSUME NEW C \in Nat \ {0}, NEW n \in 0 .. 2 * C - 1
    PROVE  n % C = IF n < C THEN n ELSE n - C
  OBVIOUS

LEMMA CountType ==
    /\ Width \in Nat \ {0, 1} /\ Width * Epochs \in Nat \ {0} /\ Width * Epochs >= 2 * Width
    /\ \A n \in Nat : Count(n) \in 0 .. Width - 1
    /\ Forever = Width - 1 /\ Forever \in Nat
<1>1. Width \in Nat \ {0, 1} /\ Epochs \in Nat \ {0, 1}
  BY KernelAssumption
<1>2. Width * Epochs \in Nat \ {0} /\ Width * Epochs >= Width * 2
  BY <1>1
<1> QED
  BY <1>1, <1>2 DEF Count, Forever

(* The count one tick later.                                                  *)
LEMMA CountNext ==
    ASSUME NEW n \in 0 .. Width * Epochs - 1
    PROVE  /\ (n + 1) % (Width * Epochs) \in 0 .. Width * Epochs - 1
           /\ Count((n + 1) % (Width * Epochs)) =
                  IF Count(n) = Width - 1 THEN 0 ELSE Count(n) + 1
<1> PICK W \in Nat \ {0, 1}, E \in Nat \ {0, 1} : W = Width /\ E = Epochs
  BY KernelAssumption
<1> PICK C \in Nat : C = W * E /\ C >= 2 * W
  BY CountType
<1>1. n \in 0 .. C - 1 /\ n \in Nat /\ n % W \in 0 .. W - 1
  OBVIOUS
<1>2. (n + 1) % C = IF n + 1 < C THEN n + 1 ELSE n + 1 - C
  <2>1. PICK m \in 0 .. 2 * C - 1 : m = n + 1
    BY <1>1
  <2>2. C \in Nat \ {0}
    OBVIOUS
  <2>3. m % C = IF m < C THEN m ELSE m - C
    BY <2>2, TurnOnce
  <2> QED
    BY <2>1, <2>3
<1>k. PICK k \in 0 .. W - 1 : k = 1
  OBVIOUS
<1>3. /\ (n % W) + k < W => (n + k) % W = (n % W) + k
      /\ (n % W) + k >= W => (n + k) % W = (n % W) + k - W
  <2>1. W \in Nat \ {0, 1} /\ n \in Nat /\ k \in 0 .. W - 1
    BY <1>1
  <2> QED
    BY ONLY <2>1, AddParts
<1>4. ASSUME n + 1 >= C PROVE (n % W) + 1 >= W
  <2>1. n \in 0 .. W * E - 1 /\ n + k >= W * E
    BY <1>1, <1>4, <1>k
  <2> QED
    BY <1>k, <2>1, WrapParts
<1>5. CASE n + 1 < C
  BY <1>1, <1>2, <1>3, <1>5, <1>k DEF Count
<1>6. CASE n + 1 >= C
  <2>1. (n + 1) % C = 0 /\ n % W = W - 1
    BY <1>1, <1>2, <1>4, <1>6
  <2>2. 0 % W = 0
    OBVIOUS
  <2> QED
    BY <2>1, <2>2 DEF Count
<1> QED
  BY <1>1, <1>5, <1>6

(* The count some ticks later, less than a turn.                              *)
LEMMA CountLater ==
    ASSUME NEW n \in 0 .. Width * Epochs - 1, NEW k \in 0 .. Width - 1
    PROVE  Count(n + k) = IF Count(n) + k < Width THEN Count(n) + k ELSE Count(n) + k - Width
<1> PICK W \in Nat \ {0, 1} : W = Width
  BY KernelAssumption
<1>1. n \in Nat /\ n % W \in 0 .. W - 1 /\ k \in 0 .. W - 1
  BY CountType
<1>2. /\ (n % W) + k < W => (n + k) % W = (n % W) + k
      /\ (n % W) + k >= W => (n + k) % W = (n % W) + k - W
  BY <1>1, AddParts
<1> QED
  BY <1>1, <1>2 DEF Count

(* What the two times tell of a wait of less than a turn: how long it was.    *)
LEMMA ElapsedFacts ==
    ASSUME NEW e \in 0 .. Width * Epochs - 1, NEW k \in 0 .. Width - 1, NEW n,
           n = (e + k) % (Width * Epochs)
    PROVE  /\ (Count(n) - Count(e)) % Width = k
           /\ ~(n \div Width # e \div Width /\ Count(n) >= Count(e))
           /\ (n + 1) % (Width * Epochs) = (e + (k + 1)) % (Width * Epochs)
<1> PICK W \in Nat \ {0, 1}, E \in Nat \ {0, 1} : W = Width /\ E = Epochs
  BY KernelAssumption
<1> PICK C \in Nat : C = W * E /\ C >= 2 * W
  BY CountType
<1>1. PICK q \in Nat, c \in 0 .. W - 1 : e = W * q + c /\ e \div W = q /\ e % W = c
  BY DivParts
<1>0. e \in Nat /\ k \in 0 .. W - 1
  BY CountType
<1>2. /\ c + k < W => (e + k) % W = c + k /\ (e + k) \div W = q
      /\ c + k >= W => (e + k) % W = c + k - W /\ (e + k) \div W = q + 1
  <2>1. (e % W) + k < W => (e + k) % W = (e % W) + k /\ (e + k) \div W = e \div W
    BY ZenonT(40), <1>0, AddParts
  <2>2. (e % W) + k >= W => /\ (e + k) % W = (e % W) + k - W
                            /\ (e + k) \div W = (e \div W) + 1
    BY ZenonT(40), <1>0, AddParts
  <2> QED
    BY <1>1, <2>1, <2>2
<1>3. n = IF e + k < C THEN e + k ELSE e + k - C
  <2>1. PICK m \in 0 .. 2 * C - 1 : m = e + k
    BY <1>0
  <2>2. C \in Nat \ {0}
    OBVIOUS
  <2>3. m % C = IF m < C THEN m ELSE m - C
    BY <2>2, TurnOnce
  <2> QED
    BY <2>1, <2>3
<1>4. CASE e + k < C
  <2>1. n = e + k
    BY <1>3, <1>4
  <2>2. c + k < W => (c + k - c) % W = k
    BY <1>1
  <2>3. c + k >= W => (c + k - W - c) % W = k
    <3>1. k - W = W * (-1) + k
      OBVIOUS
    <3>2. (k - W) % W = k
      BY <3>1, DivUnique
    <3> QED
      BY <1>1, <3>2
  <2>4. ((n % W) - c) % W = k
    BY <1>1, <1>2, <2>1, <2>2, <2>3
  <2>5. ~(n \div W # q /\ n % W >= c)
    BY <1>1, <1>2, <2>1
  <2>6. (n + 1) % C = (e + (k + 1)) % C
    BY <2>1
  <2> QED
    BY <1>1, <2>4, <2>5, <2>6 DEF Count
<1>5. CASE e + k >= C
  <2>1. c + k >= W /\ e + k - C = c + k - W
    BY <1>1, <1>5, WrapParts
  <2>2. n = c + k - W /\ n \in 0 .. W - 1 /\ n < c
    BY <1>1, <1>3, <1>5, <2>1
  <2>3. n % W = n
    BY <2>2
  <2>4. (n - c) % W = k
    <3>1. n - c = W * (-1) + k
      BY <2>2
    <3> QED
      BY SMTT(30), <3>1, DivUnique
  <2>5. (n + 1) % C = n + 1 /\ (e + (k + 1)) % C = n + 1
    <3>1. n + 1 \in 0 .. 2 * C - 1 /\ n + 1 < C /\ e + (k + 1) \in 0 .. 2 * C - 1
          /\ ~(e + (k + 1) < C) /\ e + (k + 1) - C = n + 1
      BY <1>1, <1>5, <2>1, <2>2
    <3>2. C \in Nat \ {0}
      OBVIOUS
    <3>3. (n + 1) % C = n + 1
      <4>1. PICK m \in 0 .. 2 * C - 1 : m = n + 1
        BY <3>1
      <4>2. m % C = IF m < C THEN m ELSE m - C
        BY <3>2, TurnOnce
      <4> QED
        BY <3>1, <4>1, <4>2
    <3>4. (e + (k + 1)) % C = e + (k + 1) - C
      <4>1. PICK m \in 0 .. 2 * C - 1 : m = e + (k + 1)
        BY <3>1
      <4>2. m % C = IF m < C THEN m ELSE m - C
        BY <3>2, TurnOnce
      <4> QED
        BY <3>1, <4>1, <4>2
    <3> QED
      BY <3>1, <3>3, <3>4
  <2> QED
    BY <1>1, <2>2, <2>3, <2>4, <2>5 DEF Count
<1> QED
  BY <1>4, <1>5

-----------------------------------------------------------------------------
(* The tick.                                                                 *)

ClockType ==
    [ticks : 0 .. Width * Epochs - 1, place : [Tasks -> Places], next : 0 .. Width - 1,
     ready : [Priorities -> Seq(Items)], send : Seq(Tasks), receive : Seq(Tasks),
     switch : BOOLEAN, wake : [Tasks -> 0 .. Width - 1], owed : [Tasks -> 0 .. Forever],
     since : [Tasks -> 0 .. Width]]

(* The lists as a tick finds and leaves them.                                 *)
ClockLists(s) ==
    /\ ReadyLists(s.ready, s.place) /\ Distinct(s.send) /\ Distinct(s.receive)
    /\ \A t \in Range(s.send) \union Range(s.receive) : s.place[t] # "ready"
    /\ yieldPending \/ s.switch
           \/ \A t \in Tasks : s.place[t] = "ready" => Priority[t] <= Priority[cur]

(* The times that are left, ... *)
ClockTimes(s) ==
    Delays(s.ticks, s.place, s.next, s.wake, s.owed) /\ CallTimes(s.ticks, s.owed, s.since)

(* ... and what a tick never takes back.                                      *)
ClockFrom(s, pl, a, b, ow) ==
    /\ \A t \in Tasks : (pl[t] = "ready" => s.place[t] = "ready") /\ (ow[t] = 0 => s.owed[t] = 0)
    /\ Range(s.send) \subseteq a /\ Range(s.receive) \subseteq b

(* Between the counting of the tick and the waking of those whose time has    *)
(* come: the delayed lists with the count and the wake times now equal for    *)
(* some; and before the lists are exchanged when the count has wrapped.       *)
DueTimes(s) ==
    \A t \in Tasks :
        /\ s.place[t] = "delayed" => /\ Count(s.ticks) <= s.wake[t] /\ s.next <= s.wake[t]
                                     /\ s.owed[t] = s.wake[t] - Count(s.ticks)
        /\ s.place[t] = "overflow" => /\ s.wake[t] < Count(s.ticks)
                                      /\ s.owed[t] = s.wake[t] - Count(s.ticks) + Width
TurnTimes(s) ==
    \A t \in Tasks :
        /\ s.place[t] # "delayed"
        /\ s.place[t] = "overflow" => s.owed[t] = s.wake[t]

LEMMA LeastFacts ==
    ASSUME NEW T, T \subseteq Nat, T # {}
    PROVE  Min(T) \in T /\ \A y \in T : Min(T) <= y
BY LeastNumber DEF Min

LEMMA CountedFacts ==
    ASSUME CallType, NEW s \in ClockType, ClockLists(s), ClockTimes(s),
           NEW pl, NEW a, NEW b, NEW ow, ClockFrom(s, pl, a, b, ow), NEW n, n = Counted(s)
    PROVE  /\ n \in ClockType /\ ClockLists(n) /\ ClockFrom(n, pl, a, b, ow)
           /\ CallTimes(n.ticks, n.owed, n.since)
           /\ IF Count(n.ticks) = 0 THEN TurnTimes(n) ELSE DueTimes(n)
<1>1. /\ n.ticks = (s.ticks + 1) % (Width * Epochs)
      /\ n.place = s.place /\ n.next = s.next /\ n.ready = s.ready /\ n.send = s.send
      /\ n.receive = s.receive /\ n.switch = s.switch /\ n.wake = s.wake
      /\ n.owed = [t \in Tasks |-> IF s.owed[t] = 0 THEN 0 ELSE s.owed[t] - 1]
      /\ n.since = [t \in Tasks |-> IF InTime(t) THEN Min({s.since[t] + 1, Width}) ELSE 0]
      /\ n = [ticks |-> n.ticks, place |-> n.place, next |-> n.next, ready |-> n.ready,
              send |-> n.send, receive |-> n.receive, switch |-> n.switch, wake |-> n.wake,
              owed |-> n.owed, since |-> n.since]
  BY DEF ClockType, Counted
<1>2. /\ s.ticks \in 0 .. Width * Epochs - 1 /\ s.owed \in [Tasks -> 0 .. Forever]
      /\ s.since \in [Tasks -> 0 .. Width] /\ s.wake \in [Tasks -> 0 .. Width - 1]
      /\ s.place \in [Tasks -> Places] /\ s.next \in 0 .. Width - 1
      /\ s.ready \in [Priorities -> Seq(Items)] /\ s.send \in Seq(Tasks)
      /\ s.receive \in Seq(Tasks) /\ s.switch \in BOOLEAN
  BY DEF ClockType
<1>3. /\ n.ticks \in 0 .. Width * Epochs - 1
      /\ Count(n.ticks) = IF Count(s.ticks) = Width - 1 THEN 0 ELSE Count(s.ticks) + 1
      /\ Count(s.ticks) \in 0 .. Width - 1 /\ Count(n.ticks) \in 0 .. Width - 1
  BY <1>1, <1>2, CountNext, CountType
<1>4. \A t \in Tasks : /\ n.owed[t] = IF s.owed[t] = 0 THEN 0 ELSE s.owed[t] - 1
                       /\ n.owed[t] \in 0 .. Forever /\ s.owed[t] \in 0 .. Forever
  BY SMTT(30), <1>1, <1>2, CountType
<1>5. \A t \in Tasks : /\ InTime(t) => n.since[t] = IF s.since[t] < Width THEN s.since[t] + 1 ELSE Width
                       /\ n.since[t] \in 0 .. Width /\ s.since[t] \in 0 .. Width
  <2> SUFFICES ASSUME NEW t \in Tasks
               PROVE  /\ InTime(t) => n.since[t] = IF s.since[t] < Width THEN s.since[t] + 1 ELSE Width
                      /\ n.since[t] \in 0 .. Width /\ s.since[t] \in 0 .. Width
    OBVIOUS
  <2>1. s.since[t] \in 0 .. Width /\ n.since[t] = IF InTime(t) THEN Min({s.since[t] + 1, Width}) ELSE 0
    BY <1>1, <1>2
  <2>2. PICK T : T = {s.since[t] + 1, Width}
    OBVIOUS
  <2>3. T \subseteq Nat /\ T # {}
    BY <2>1, <2>2, CountType
  <2>4. Min(T) \in T /\ \A y \in T : Min(T) <= y
    BY <2>3, LeastFacts
  <2>5. Min(T) = IF s.since[t] < Width THEN s.since[t] + 1 ELSE Width
    BY <2>1, <2>2, <2>4, CountType
  <2> QED
    BY <2>1, <2>2, <2>5, CountType
<1>6. n \in ClockType
  <2>1. n.owed \in [Tasks -> 0 .. Forever] /\ n.since \in [Tasks -> 0 .. Width]
    BY <1>1, <1>4, <1>5
  <2> QED
    BY <1>1, <1>2, <1>3, <2>1 DEF ClockType
<1>7. ClockLists(n)
  BY <1>1 DEF ClockLists
<1>8. ClockFrom(n, pl, a, b, ow)
  BY <1>1, <1>4 DEF ClockFrom
<1>9. CallTimes(n.ticks, n.owed, n.since)
  <2> SUFFICES ASSUME NEW t \in Tasks, InTime(t)
               PROVE  /\ n.owed[t] = (IF n.since[t] < left[t] THEN left[t] - n.since[t] ELSE 0)
                      /\ n.since[t] < Width => n.ticks = (entered[t] + n.since[t]) % (Width * Epochs)
    BY DEF CallTimes
  <2>1. /\ s.owed[t] = (IF s.since[t] < left[t] THEN left[t] - s.since[t] ELSE 0)
        /\ s.since[t] < Width => s.ticks = (entered[t] + s.since[t]) % (Width * Epochs)
    BY DEF ClockTimes, CallTimes
  <2>2. left[t] \in 1 .. Width - 2 /\ entered[t] \in 0 .. Width * Epochs - 1
    BY CountType DEF InTime, CallType
  <2>3. n.since[t] < Width => n.since[t] = s.since[t] + 1 /\ s.since[t] \in 0 .. Width - 1
    BY <1>5, CountType
  <2>4. ASSUME n.since[t] < Width
        PROVE  n.ticks = (entered[t] + n.since[t]) % (Width * Epochs)
    <3>1. PICK e \in 0 .. Width * Epochs - 1, k \in 0 .. Width - 1, m \in {s.ticks} :
                  e = entered[t] /\ k = s.since[t] /\ m = s.ticks
      BY <2>2, <2>3, <2>4
    <3>2. m = (e + k) % (Width * Epochs)
      BY <2>1, <3>1, CountType
    <3>3. (m + 1) % (Width * Epochs) = (e + (k + 1)) % (Width * Epochs)
      BY <3>2, ElapsedFacts
    <3> QED
      BY <1>1, <2>3, <2>4, <3>1, <3>3
  <2>5. n.owed[t] = (IF n.since[t] < left[t] THEN left[t] - n.since[t] ELSE 0)
    BY <1>4, <1>5, <2>1, <2>2, CountType
  <2> QED
    BY <2>4, <2>5
<1>10. ASSUME NEW t \in Tasks
       PROVE  /\ s.place[t] = "delayed" => /\ Count(s.ticks) < s.wake[t] /\ s.next <= s.wake[t]
                                           /\ s.owed[t] = s.wake[t] - Count(s.ticks)
              /\ s.place[t] = "overflow" => /\ s.wake[t] < Count(s.ticks)
                                            /\ s.owed[t] = s.wake[t] - Count(s.ticks) + Width
              /\ s.wake[t] \in 0 .. Width - 1
  BY <1>2 DEF ClockTimes, Delays
<1>11. CASE Count(n.ticks) = 0
  <2>1. Count(s.ticks) = Width - 1
    BY <1>3, <1>11
  <2>2. TurnTimes(n)
    <3> SUFFICES ASSUME NEW t \in Tasks
                 PROVE  s.place[t] # "delayed" /\ (s.place[t] = "overflow" => n.owed[t] = s.wake[t])
      BY <1>1 DEF TurnTimes
    <3> QED
      BY <1>4, <1>10, <2>1, CountType
  <2> QED
    BY <1>6, <1>7, <1>8, <1>9, <1>11, <2>2
<1>12. CASE Count(n.ticks) # 0
  <2>1. Count(n.ticks) = Count(s.ticks) + 1
    BY <1>3, <1>12
  <2>2. DueTimes(n)
    <3> SUFFICES ASSUME NEW t \in Tasks
                 PROVE  /\ s.place[t] = "delayed" => /\ Count(n.ticks) <= s.wake[t] /\ s.next <= s.wake[t]
                                                     /\ n.owed[t] = s.wake[t] - Count(n.ticks)
                        /\ s.place[t] = "overflow" => /\ s.wake[t] < Count(n.ticks)
                                                      /\ n.owed[t] = s.wake[t] - Count(n.ticks) + Width
      BY <1>1 DEF DueTimes
    <3> QED
      BY <1>3, <1>4, <1>10, <2>1, CountType
  <2> QED
    BY <1>6, <1>7, <1>8, <1>9, <1>12, <2>2
<1> QED
  BY <1>11, <1>12

LEMMA WakesFacts ==
    ASSUME NEW wk \in [Tasks -> 0 .. Width - 1], NEW U \in SUBSET Tasks
    PROVE  /\ Min({wk[t] : t \in U} \union {Forever}) \in 0 .. Width - 1
           /\ \A t \in U : Min({wk[u] : u \in U} \union {Forever}) <= wk[t]
<1>1. PICK T : T = {wk[t] : t \in U} \union {Forever}
  OBVIOUS
<1>2. T \subseteq 0 .. Width - 1 /\ Forever \in T
  BY <1>1, CountType
<1>3. T \subseteq Nat /\ T # {}
  BY <1>2, CountType
<1>4. Min(T) \in T /\ \A y \in T : Min(T) <= y
  BY <1>3, LeastFacts
<1>5. \A t \in U : wk[t] \in T
  BY <1>1
<1> QED
  BY <1>1, <1>2, <1>4, <1>5

LEMMA WrappedFacts ==
    ASSUME NEW s \in ClockType, ClockLists(s), Count(s.ticks) = 0, TurnTimes(s),
           NEW pl, NEW a, NEW b, NEW ow, ClockFrom(s, pl, a, b, ow),
           CallTimes(s.ticks, s.owed, s.since), NEW n, n = Wrapped(s)
    PROVE  /\ n \in ClockType /\ ClockLists(n) /\ ClockFrom(n, pl, a, b, ow)
           /\ CallTimes(n.ticks, n.owed, n.since) /\ DueTimes(n)
<1> DEFINE moved == [t \in Tasks |-> CASE s.place[t] = "overflow" -> "delayed"
                                       [] s.place[t] = "delayed" -> "overflow"
                                       [] OTHER -> s.place[t]]
           times == {s.wake[t] : t \in {u \in Tasks : moved[u] = "delayed"}}
<1>1. /\ s.ticks \in 0 .. Width * Epochs - 1 /\ s.owed \in [Tasks -> 0 .. Forever]
      /\ s.since \in [Tasks -> 0 .. Width] /\ s.wake \in [Tasks -> 0 .. Width - 1]
      /\ s.place \in [Tasks -> Places] /\ s.next \in 0 .. Width - 1
      /\ s.ready \in [Priorities -> Seq(Items)] /\ s.send \in Seq(Tasks)
      /\ s.receive \in Seq(Tasks) /\ s.switch \in BOOLEAN
  BY DEF ClockType
<1>2. n = [s EXCEPT !.place = moved, !.next = Min(times \union {Forever})]
  BY DEF Wrapped
<1>3. \A t \in Tasks : moved[t] = IF s.place[t] = "overflow" THEN "delayed" ELSE s.place[t]
  <2>1. \A t \in Tasks : s.place[t] # "delayed"
    BY DEF TurnTimes
  <2> QED
    BY <2>1
<1>4. moved \in [Tasks -> Places]
  <2>1. \A t \in Tasks : moved[t] \in Places
    BY <1>1, <1>3 DEF Places
  <2> HIDE DEF moved
  <2>2. moved = [t \in Tasks |-> moved[t]]
    BY DEF moved
  <2> QED
    BY <2>1, <2>2
<1>5. \A t \in Tasks : moved[t] = "ready" <=> s.place[t] = "ready"
  BY <1>3
<1> HIDE DEF moved
<1>6. PICK U \in SUBSET Tasks : U = {u \in Tasks : moved[u] = "delayed"}
  OBVIOUS
<1>7. PICK m : m = Min(times \union {Forever})
  OBVIOUS
<1>8. m \in 0 .. Width - 1 /\ \A t \in Tasks : moved[t] = "delayed" => m <= s.wake[t]
  BY <1>1, <1>6, <1>7, WakesFacts
<1> HIDE DEF times
<1>9. /\ n \in ClockType
      /\ n.place = moved /\ n.next = m /\ n.ticks = s.ticks /\ n.ready = s.ready
      /\ n.send = s.send /\ n.receive = s.receive /\ n.switch = s.switch /\ n.wake = s.wake
      /\ n.owed = s.owed /\ n.since = s.since
  BY <1>2, <1>4, <1>7, <1>8 DEF ClockType
<1>10. ClockLists(n)
  <2>1. \A p \in Priorities : ItemsAt(n.place, p) = ItemsAt(s.place, p)
    BY <1>5, <1>9 DEF ItemsAt
  <2>2. ReadyLists(n.ready, n.place)
    BY <1>9, <2>1 DEF ReadyLists, ClockLists
  <2>3. Range(s.send) \subseteq Tasks /\ Range(s.receive) \subseteq Tasks
    BY <1>1, RangeOfSeq DEF Range
  <2> QED
    BY <1>5, <1>9, <2>2, <2>3 DEF ClockLists
<1>11. ClockFrom(n, pl, a, b, ow)
  BY <1>5, <1>9 DEF ClockFrom
<1>12. DueTimes(n)
  <2> SUFFICES ASSUME NEW t \in Tasks
               PROVE  /\ moved[t] = "delayed" => /\ 0 <= s.wake[t] /\ m <= s.wake[t]
                                                 /\ s.owed[t] = s.wake[t] - 0
                      /\ moved[t] # "overflow"
    BY <1>9 DEF DueTimes
  <2> QED
    BY <1>1, <1>3, <1>8 DEF TurnTimes, Places
<1> QED
  BY <1>9, <1>10, <1>11, <1>12

LEMMA ExpireFacts ==
    ASSUME NEW s \in ClockType, ClockLists(s), DueTimes(s), Priority[cur] \in Nat,
           NEW pl, NEW a, NEW b, NEW ow, ClockFrom(s, pl, a, b, ow),
           CallTimes(s.ticks, s.owed, s.since), NEW n, n = Expire(s)
    PROVE  n \in ClockType /\ ClockLists(n) /\ ClockFrom(n, pl, a, b, ow) /\ ClockTimes(n)
<1> DEFINE now == Count(s.ticks)
           due == {t \in Tasks : s.place[t] = "delayed" /\ s.wake[t] <= now}
           rest == {s.wake[t] : t \in {u \in Tasks : s.place[u] = "delayed"} \ due}
<1>1. /\ s.ticks \in 0 .. Width * Epochs - 1 /\ s.owed \in [Tasks -> 0 .. Forever]
      /\ s.since \in [Tasks -> 0 .. Width] /\ s.wake \in [Tasks -> 0 .. Width - 1]
      /\ s.place \in [Tasks -> Places] /\ s.next \in 0 .. Width - 1
      /\ s.ready \in [Priorities -> Seq(Items)] /\ s.send \in Seq(Tasks)
      /\ s.receive \in Seq(Tasks) /\ s.switch \in BOOLEAN
  BY DEF ClockType
<1>2. now \in 0 .. Width - 1
  BY <1>1, CountType
<1>3. n = [s EXCEPT
            !.place = [t \in Tasks |-> IF t \in due THEN "ready" ELSE @[t]],
            !.wake = [t \in Tasks |-> IF t \in due THEN 0 ELSE @[t]],
            !.next = Min(rest \union {Forever}),
            !.ready = AllReadied(@, SetToSeq(due)),
            !.send = Kept(@, due),
            !.receive = Kept(@, due),
            !.switch = @ \/ \E t \in due : Priority[t] >= Priority[cur]]
  BY DEF Expire
<1>4. /\ \A t \in due : t \in Tasks /\ s.place[t] = "delayed"
      /\ due \in SUBSET Tasks
      /\ \A t \in Tasks : s.place[t] = "delayed" /\ t \notin due => s.wake[t] > now
  BY <1>1, <1>2
<1>5. PICK q : q = SetToSeq(due)
  OBVIOUS
<1> HIDE DEF due, now
<1>6. q \in Seq(Tasks) /\ Distinct(q) /\ Range(q) = due
  <2>1. IsFiniteSet(due)
    BY <1>4, KernelAssumption, FS_Subset
  <2>2. q \in Seq(due) /\ Distinct(q) /\ Range(q) = due
    BY <1>5, <2>1, SetToSeqFacts
  <2> QED
    BY <1>4, <2>2, SeqMonotonic
<1>7. PICK U \in SUBSET Tasks : U = {u \in Tasks : s.place[u] = "delayed"} \ due
  OBVIOUS
<1>8. PICK m : m = Min(rest \union {Forever})
  OBVIOUS
<1>9. m \in 0 .. Width - 1 /\ \A t \in Tasks : s.place[t] = "delayed" /\ t \notin due => m <= s.wake[t]
  BY <1>1, <1>7, <1>8, WakesFacts
<1> HIDE DEF rest
<1>10. PICK np : np = [t \in Tasks |-> IF t \in due THEN "ready" ELSE s.place[t]]
  OBVIOUS
<1>11. PICK nw : nw = [t \in Tasks |-> IF t \in due THEN 0 ELSE s.wake[t]]
  OBVIOUS
<1>12. PICK ns : ns = (s.switch \/ \E t \in due : Priority[t] >= Priority[cur])
  OBVIOUS
<1>13. /\ np \in [Tasks -> Places] /\ nw \in [Tasks -> 0 .. Width - 1] /\ ns \in BOOLEAN
       /\ \A t \in Tasks : /\ np[t] = IF t \in due THEN "ready" ELSE s.place[t]
                           /\ nw[t] = IF t \in due THEN 0 ELSE s.wake[t]
  <2>1. \A t \in Tasks : /\ np[t] = IF t \in due THEN "ready" ELSE s.place[t]
                         /\ nw[t] = IF t \in due THEN 0 ELSE s.wake[t]
    BY <1>10, <1>11
  <2>2. \A t \in Tasks : s.place[t] \in Places /\ s.wake[t] \in 0 .. Width - 1
    BY <1>1
  <2>3. "ready" \in Places /\ 0 \in 0 .. Width - 1
    BY CountType DEF Places
  <2>4. \A t \in Tasks : np[t] \in Places /\ nw[t] \in 0 .. Width - 1
    BY <2>1, <2>2, <2>3
  <2>5. np \in [Tasks -> Places]
    BY <1>10, <2>4
  <2>6. nw \in [Tasks -> 0 .. Width - 1]
    BY <1>11, <2>4
  <2>7. ns \in BOOLEAN
    BY <1>12
  <2> QED
    BY <2>1, <2>5, <2>6, <2>7
<1>14. PICK nr : nr = AllReadied(s.ready, q)
  OBVIOUS
<1>15. ReadyLists(nr, np)
  <2>1. ReadyLists(s.ready, s.place)
    BY DEF ClockLists
  <2>2. \A t \in Range(q) : s.place[t] # "ready"
    BY <1>4, <1>6
  <2>3. \A t \in Tasks : np[t] = IF t \in Range(q) THEN "ready" ELSE s.place[t]
    BY <1>6, <1>13
  <2>4. PICK sr, sp : sr = s.ready /\ sp = s.place
    OBVIOUS
  <2>5. ReadyLists(sr, sp) /\ sp \in [Tasks -> Places] /\ q \in Seq(Tasks) /\ Distinct(q)
        /\ np \in [Tasks -> Places]
    BY <1>1, <1>6, <1>13, <2>1, <2>4
  <2>6. \A t \in Range(q) : sp[t] # "ready"
    BY <2>2, <2>4
  <2>7. \A t \in Tasks : np[t] = IF t \in Range(q) THEN "ready" ELSE sp[t]
    BY <2>3, <2>4
  <2>8. ReadyLists(AllReadied(sr, q), np)
    BY <2>5, <2>6, <2>7, AllReadiedFacts
  <2> QED
    BY <1>14, <2>4, <2>8
<1>16. PICK sd, rc : sd = Kept(s.send, due) /\ rc = Kept(s.receive, due)
  OBVIOUS
<1>17. /\ sd \in Seq(Tasks) /\ Range(sd) = Range(s.send) \ due /\ Distinct(sd)
       /\ rc \in Seq(Tasks) /\ Range(rc) = Range(s.receive) \ due /\ Distinct(rc)
  BY <1>1, <1>16, KeptFacts DEF ClockLists
<1>18. n = [s EXCEPT !.place = np, !.wake = nw, !.next = m, !.ready = nr, !.send = sd,
                     !.receive = rc, !.switch = ns]
  BY <1>3, <1>5, <1>8, <1>10, <1>11, <1>12, <1>14, <1>16 DEF ClockType
<1>19. nr \in [Priorities -> Seq(Items)]
  BY <1>15 DEF ReadyLists
<1>20. /\ n \in ClockType
       /\ n.place = np /\ n.next = m /\ n.ticks = s.ticks /\ n.ready = nr
       /\ n.send = sd /\ n.receive = rc /\ n.switch = ns /\ n.wake = nw
       /\ n.owed = s.owed /\ n.since = s.since
  BY ZenonT(40), <1>9, <1>13, <1>17, <1>18, <1>19 DEF ClockType
<1>21. ClockLists(n)
  <2>1. Range(s.send) \subseteq Tasks /\ Range(s.receive) \subseteq Tasks
    BY <1>1, RangeOfSeq DEF Range
  <2>2. \A t \in Range(sd) \union Range(rc) : np[t] # "ready"
    BY <1>13, <1>17, <2>1 DEF ClockLists
  <2>3. yieldPending \/ ns \/ \A t \in Tasks : np[t] = "ready" => Priority[t] <= Priority[cur]
    <3> SUFFICES ASSUME ~yieldPending, ~ns, NEW t \in Tasks, np[t] = "ready" PROVE Priority[t] <= Priority[cur]
      BY <1>13
    <3>1. CASE t \in due
      <4>1. ~(Priority[t] >= Priority[cur])
        BY <1>12, <3>1
      <4> QED
        BY <4>1, PriorityFacts
    <3>2. CASE t \notin due
      BY <1>12, <1>13, <3>2 DEF ClockLists
    <3> QED
      BY <3>1, <3>2
  <2> QED
    BY <1>15, <1>17, <1>20, <2>2, <2>3 DEF ClockLists
<1>22. ClockFrom(n, pl, a, b, ow)
  BY <1>13, <1>17, <1>20 DEF ClockFrom
<1>23. ClockTimes(n)
  <2>1. CallTimes(n.ticks, n.owed, n.since)
    BY <1>20
  <2>2. ASSUME NEW t \in Tasks
        PROVE  /\ np[t] = "delayed" => now < nw[t] /\ m <= nw[t] /\ s.owed[t] = nw[t] - now
               /\ np[t] = "overflow" => nw[t] < now /\ s.owed[t] = nw[t] - now + Width
    <3>1. /\ s.place[t] = "delayed" => s.owed[t] = s.wake[t] - now
          /\ s.place[t] = "overflow" => s.wake[t] < now /\ s.owed[t] = s.wake[t] - now + Width
      BY DEF DueTimes, now
    <3>2. CASE t \in due
      BY <1>13, <3>2
    <3>3. CASE t \notin due
      BY <1>1, <1>2, <1>4, <1>9, <1>13, <3>1, <3>3
    <3> QED
      BY <3>2, <3>3
  <2> QED
    BY <1>20, <2>1, <2>2 DEF ClockTimes, Delays, now
<1> QED
  BY <1>20, <1>21, <1>22, <1>23

(* A tick, and the ticks that were pended.                                    *)
ClockOK(s, pl, a, b, ow) ==
    s \in ClockType /\ ClockLists(s) /\ ClockTimes(s) /\ ClockFrom(s, pl, a, b, ow)

LEMMA TickedFacts ==
    ASSUME Types, NEW s, NEW pl, NEW a, NEW b, NEW ow, ClockOK(s, pl, a, b, ow)
    PROVE  ClockOK(Ticked(s), pl, a, b, ow)
<1>0. CallType /\ Priority[cur] \in Nat
  BY PriorityFacts DEF Types, SchedType
<1>1. PICK c : c = Counted(s)
  OBVIOUS
<1>2. /\ c \in ClockType /\ ClockLists(c) /\ ClockFrom(c, pl, a, b, ow)
      /\ CallTimes(c.ticks, c.owed, c.since)
      /\ IF Count(c.ticks) = 0 THEN TurnTimes(c) ELSE DueTimes(c)
  BY <1>0, <1>1, CountedFacts DEF ClockOK
<1>3. PICK x : x = Exchanged(c)
  OBVIOUS
<1>4. /\ x \in ClockType /\ ClockLists(x) /\ ClockFrom(x, pl, a, b, ow)
      /\ CallTimes(x.ticks, x.owed, x.since) /\ DueTimes(x)
  <2>1. CASE Count(c.ticks) = 0
    BY <1>2, <1>3, <2>1, WrappedFacts DEF Exchanged
  <2>2. CASE Count(c.ticks) # 0
    BY <1>2, <1>3, <2>2 DEF Exchanged
  <2> QED
    BY <2>1, <2>2
<1>5. PICK e : e = Expired(x)
  OBVIOUS
<1>6. ClockOK(e, pl, a, b, ow)
  <2>1. CASE Count(x.ticks) >= x.next
    BY <1>0, <1>4, <1>5, <2>1, ExpireFacts DEF Expired, ClockOK
  <2>2. CASE ~(Count(x.ticks) >= x.next)
    <3>1. e = x
      BY <1>5, <2>2 DEF Expired
    <3>2. x.ticks \in Nat /\ x.next \in Nat /\ x.wake \in [Tasks -> 0 .. Width - 1]
      BY <1>4, CountType DEF ClockType
    <3>3. Delays(x.ticks, x.place, x.next, x.wake, x.owed)
      <4> SUFFICES ASSUME NEW t \in Tasks
                   PROVE  /\ x.place[t] = "delayed" => /\ Count(x.ticks) < x.wake[t]
                                                       /\ x.next <= x.wake[t]
                                                       /\ x.owed[t] = x.wake[t] - Count(x.ticks)
                          /\ x.place[t] = "overflow" => /\ x.wake[t] < Count(x.ticks)
                                            /\ x.owed[t] = x.wake[t] - Count(x.ticks) + Width
        BY DEF Delays
      <4>1. x.wake[t] \in Nat /\ Count(x.ticks) \in Nat /\ x.next > Count(x.ticks)
        BY <2>2, <3>2, CountType
      <4> QED
        BY <1>4, <3>2, <4>1 DEF DueTimes
    <3> QED
      BY <1>4, <3>1, <3>3 DEF ClockOK, ClockTimes
  <2> QED
    BY <2>1, <2>2
<1> QED
  BY <1>1, <1>3, <1>5, <1>6 DEF Ticked

LEMMA AfterTicksFacts ==
    ASSUME Types, NEW s, NEW pl, NEW a, NEW b, NEW ow, ClockOK(s, pl, a, b, ow), NEW n \in Nat
    PROVE  ClockOK(AfterTicks(s, n), pl, a, b, ow)
<1>1. PICK Q : Q = {x \in ClockType : ClockOK(x, pl, a, b, ow)}
  OBVIOUS
<1>2. s \in Q /\ \A x \in Q : Ticked(x) \in Q
  <2>1. s \in Q
    BY <1>1 DEF ClockOK
  <2>2. ASSUME NEW x \in Q PROVE Ticked(x) \in Q
    <3>1. ClockOK(x, pl, a, b, ow)
      BY <1>1
    <3>2. ClockOK(Ticked(x), pl, a, b, ow)
      BY <3>1, TickedFacts
    <3> QED
      BY <1>1, <3>2 DEF ClockOK
  <2> QED
    BY <2>1, <2>2
<1> DEFINE F == [i \in 1 .. n |-> [x \in Q |-> Ticked(x)]]
           after == CHOOSE f : f = [i \in 0 .. n |-> IF i = 0 THEN s ELSE Ticked(f[i - 1])]
<1>3. F \in [1 .. n -> [Q -> Q]]
  BY <1>2
<1>4. PICK f \in [0 .. n -> Q] : f[0] = s /\ \A i \in 1 .. n : f[i] = F[i][f[i - 1]]
  <2> HIDE DEF F
  <2> QED
    BY <1>2, <1>3, RecursionExists
<1>5. \A i \in 1 .. n : f[i] = Ticked(f[i - 1])
  <2>1. \A i \in 1 .. n : i - 1 \in 0 .. n /\ f[i - 1] \in Q
    BY <1>4
  <2> QED
    BY <1>4, <2>1
<1>6. f = [i \in 0 .. n |-> IF i = 0 THEN s ELSE Ticked(f[i - 1])]
  <2>1. ASSUME NEW i \in 0 .. n PROVE f[i] = IF i = 0 THEN s ELSE Ticked(f[i - 1])
    <3>1. CASE i = 0
      BY <1>4, <3>1
    <3>2. CASE i \in 1 .. n
      BY <1>5, <3>2
    <3> QED
      BY <3>1, <3>2
  <2> QED
    BY <1>4, <2>1
<1>7. after = [i \in 0 .. n |-> IF i = 0 THEN s ELSE Ticked(after[i - 1])]
  BY <1>6
<1>8. AfterTicks(s, n) = after[n]
  BY DEF AfterTicks
<1> HIDE DEF F, after
<1>9. \A i \in 0 .. n : after[i] = IF i = 0 THEN s ELSE Ticked(after[i - 1])
  BY <1>7
<1>10. after[0] = s
  BY <1>9
<1> DEFINE P == {i \in Nat : i <= n => after[i] \in Q}
<1>11. 0 \in P
  BY <1>2, <1>10
<1>12. ASSUME NEW i \in Nat, i \in P PROVE i + 1 \in P
  <2> SUFFICES ASSUME i + 1 <= n PROVE after[i + 1] \in Q
    OBVIOUS
  <2>1. after[i] \in Q
    BY <1>12
  <2>2. i + 1 \in 0 .. n /\ i + 1 # 0 /\ (i + 1) - 1 = i
    OBVIOUS
  <2>3. after[i + 1] = Ticked(after[i])
    BY <1>9, <2>2
  <2> QED
    BY <1>2, <2>1, <2>3
<1> HIDE DEF P
<1>13. n \in P
  BY <1>11, <1>12, SetInduction
<1> QED
  BY <1>1, <1>8, <1>13 DEF P

-----------------------------------------------------------------------------
(* The steps of a task in its call.                                           *)

LEMMA Typed ==
    ASSUME Inv
    PROVE  /\ cur \in Tasks /\ yieldPending \in BOOLEAN
           /\ place \in [Tasks -> Places] /\ wake \in [Tasks -> 0 .. Width - 1]
           /\ nextUnblock \in 0 .. Width - 1 /\ ticks \in 0 .. Width * Epochs - 1
           /\ owed \in [Tasks -> 0 .. Forever] /\ since \in [Tasks -> 0 .. Width]
           /\ messages \in 0 .. Length /\ waitSend \in Seq(Tasks) /\ waitReceive \in Seq(Tasks)
           /\ txLock \in Unlocked .. MaxLock /\ rxLock \in Unlocked .. MaxLock
           /\ pc \in [Tasks -> Labels] /\ op \in [Tasks -> {"none", "send", "receive", "delay"}]
           /\ left \in [Tasks -> 0 .. Forever] /\ entered \in [Tasks -> 0 .. Width * Epochs - 1]
           /\ goal \in [Tasks -> {"sleep", "retry", "expired"}]
           /\ suspended \in {0, 1} /\ suspended \in 0 .. 1
           /\ pending \in Seq(Tasks) /\ pended \in 0 .. MaxPended
<1>1. SchedType /\ TimeType /\ QueueType /\ CallType /\ HoldType
  BY DEF Inv, Types
<1>2. suspended \in {0, 1} /\ suspended \in 0 .. 1
  BY <1>1 DEF HoldType
<1> QED
  BY <1>1, <1>2 DEF SchedType, TimeType, QueueType, CallType, HoldType

(* A task that runs, and is not about to block, is in no list but the ready   *)
(* list.                                                                     *)
LEMMA NotWaiting ==
    ASSUME Inv, NEW t \in Tasks, cur = t, place[t] = "ready", pc[t] # "block"
    PROVE  t \notin Range(waitSend) \union Range(waitReceive) \union Range(pending)
BY DEF Inv, ListInv, WaitsInv, WaitInv, Away

(* A step that changes the call of one task and, perhaps, the locks.          *)
LEMMA CallStep ==
    ASSUME Inv, NEW t \in Tasks, cur = t, t # Idle, place[t] = "ready", pc[t] # "block",
           UNCHANGED <<schedVars, place, wake, nextUnblock, ticks, pended,
                       messages, waitSend, waitReceive, pending, isrOn>>,
           suspended' \in 0 .. 1, txLock' \in Unlocked .. MaxLock, rxLock' \in Unlocked .. MaxLock,
           CallType', owed' \in [Tasks -> 0 .. Forever], since' \in [Tasks -> 0 .. Width],
           \A u \in Tasks \ {t} : /\ pc'[u] = pc[u] /\ op'[u] = op[u] /\ left'[u] = left[u]
                                  /\ entered'[u] = entered[u] /\ goal'[u] = goal[u]
                                  /\ owed'[u] = owed[u] /\ since'[u] = since[u],
           HoldInv', PcOf(t)', CallOf(t)'
    PROVE  Inv'
<1>1. /\ cur' = cur /\ ready' = ready /\ yieldPending' = yieldPending /\ place' = place
      /\ wake' = wake /\ nextUnblock' = nextUnblock /\ ticks' = ticks /\ pended' = pended
      /\ messages' = messages /\ waitSend' = waitSend /\ waitReceive' = waitReceive
      /\ pending' = pending /\ isrOn' = isrOn
  BY DEF schedVars
<1>2. Types'
  BY <1>1 DEF Inv, Types, SchedType, TimeType, QueueType, HoldType
<1>3. WaitsInv'
  <2>1. t \notin Range(waitSend) \union Range(waitReceive) \union Range(pending)
    BY NotWaiting
  <2>2. waitSend \in Seq(Tasks) /\ waitReceive \in Seq(Tasks) /\ pending \in Seq(Tasks)
    BY Typed
  <2>3. /\ Range(waitSend) \subseteq Tasks \ {t} /\ Range(waitReceive) \subseteq Tasks \ {t}
        /\ Range(pending) \subseteq Tasks \ {t}
    BY <2>1, <2>2, RangeOfSeq DEF Range
  <2>4. WaitsInv
    BY DEF Inv, ListInv
  <2>5. \A u \in Tasks \ {t} : Away(u) => Away(u)'
    BY <1>1 DEF Away
  <2> QED
    BY <1>1, <2>3, <2>4, <2>5 DEF WaitsInv, WaitInv
<1>4. ASSUME NEW u \in Tasks \ {t} PROVE PcOf(u)' /\ CallOf(u)'
  <2>1. PcOf(u) /\ CallOf(u)
    BY DEF Inv, ListInv, PcInv, CallInv
  <2>2. /\ pc'[u] = pc[u] /\ op'[u] = op[u] /\ left'[u] = left[u] /\ entered'[u] = entered[u]
        /\ goal'[u] = goal[u] /\ owed'[u] = owed[u] /\ since'[u] = since[u] /\ ticks' = ticks
    BY <1>1
  <2> QED
    BY <2>1, <2>2 DEF PcOf, CallOf, InTime
<1>5. PcInv' /\ CallInv'
  BY <1>4 DEF PcInv, CallInv
<1>6. ReadyLists(ready, place)' /\ CurInv' /\ HighInv' /\ IdleInv'
  BY <1>1, KernelAssumption DEF Inv, ListInv, CurInv, HighInv, IdleInv
<1>7. DelayInv'
  <2>1. ASSUME NEW u \in Tasks
        PROVE  /\ place[u] = "delayed" => /\ Count(ticks) < wake[u] /\ nextUnblock <= wake[u]
                                          /\ owed'[u] = wake[u] - Count(ticks)
               /\ place[u] = "overflow" => /\ wake[u] < Count(ticks)
                                           /\ owed'[u] = wake[u] - Count(ticks) + Width
    <3>1. CASE u = t
      BY <3>1
    <3>2. CASE u # t
      BY <3>2 DEF Inv, DelayInv, Delays
    <3> QED
      BY <3>1, <3>2
  <2> QED
    BY <1>1, <2>1 DEF DelayInv, Delays
<1> QED
  BY <1>2, <1>3, <1>5, <1>6, <1>7 DEF Inv, ListInv

LEMMA ReturnFacts ==
    ASSUME CallType, NEW t \in Tasks, Return(t)
    PROVE  /\ CallType'
           /\ pc'[t] = "run" /\ op'[t] = "none" /\ left'[t] = 0 /\ goal'[t] = "retry"
           /\ \A u \in Tasks \ {t} : /\ pc'[u] = pc[u] /\ op'[u] = op[u] /\ left'[u] = left[u]
                                     /\ entered'[u] = entered[u] /\ goal'[u] = goal[u]
<1>1. 0 \in 0 .. Forever /\ 0 \in 0 .. Width * Epochs - 1 /\ "run" \in Labels
  BY CountType DEF Labels
<1> QED
  BY <1>1 DEF Return, CallType

(* A task whose call is over, or not yet begun, promises nothing.             *)
LEMMA ReturnedOf ==
    ASSUME NEW t \in Tasks, pc'[t] = "run", op'[t] = "none", goal'[t] = "retry"
    PROVE  PcOf(t)' /\ CallOf(t)'
BY DEF PcOf, CallOf, InTime

LEMMA GotoFacts ==
    ASSUME CallType, NEW t \in Tasks, NEW l \in Labels, Goto(t, l)
    PROVE  /\ CallType'
           /\ pc'[t] = l /\ \A u \in Tasks \ {t} : pc'[u] = pc[u]
           /\ op' = op /\ left' = left /\ entered' = entered /\ goal' = goal
BY DEF Goto, CallType

(* What is known of a task that runs.                                         *)
LEMMA RunningFacts ==
    ASSUME Inv, NEW t \in Tasks, cur = t, pc[t] # "run"
    PROVE  /\ t # Idle /\ CallType /\ HoldInv /\ PcOf(t) /\ CallOf(t)
           /\ pc[t] \notin {"unlockTx", "unlockRx", "resume", "yield"} => place[t] = "ready"
           /\ goal[t] # "sleep" => place[t] = "ready"
           /\ \A u \in Tasks \ {t} : pc[u] \notin Held
BY DEF Inv, Types, ListInv, IdleInv, PcInv, CallInv, CurInv, HoldInv

LEMMA RefusedStep ==
    ASSUME Inv, NEW t \in Tasks, Refused(t)
    PROVE  Inv'
<1>1. /\ cur = t /\ pc[t] \in {"first", "try"} /\ op[t] \in {"send", "receive"}
      /\ UNCHANGED <<schedVars, place, wake, nextUnblock, ticks, pended, queueVars,
                     suspended, pending, isrOn>>
  BY DEF Refused, Trying, Running
<1>2. /\ t # Idle /\ CallType /\ HoldInv /\ PcOf(t) /\ CallOf(t) /\ place[t] = "ready"
  BY <1>1, RunningFacts
<1>3. /\ cur' = cur /\ suspended' = suspended /\ txLock' = txLock /\ rxLock' = rxLock
      /\ ticks' = ticks /\ pended' = pended /\ pending' = pending /\ messages' = messages
      /\ waitSend' = waitSend /\ waitReceive' = waitReceive
  BY <1>1 DEF queueVars, schedVars
<1>4. /\ owed \in [Tasks -> 0 .. Forever] /\ since \in [Tasks -> 0 .. Width]
      /\ suspended \in 0 .. 1 /\ txLock \in Unlocked .. MaxLock /\ rxLock \in Unlocked .. MaxLock
      /\ ticks \in 0 .. Width * Epochs - 1 /\ left[t] \in 0 .. Forever /\ 0 \in 0 .. Width
  <2>1. 0 \in 0 .. Width
    BY CountType
  <2>2. left \in [Tasks -> 0 .. Forever]
    BY Typed
  <2> QED
    BY <2>1, <2>2, Typed
<1>5. /\ CallType' /\ owed' \in [Tasks -> 0 .. Forever] /\ since' \in [Tasks -> 0 .. Width]
      /\ \A u \in Tasks \ {t} : /\ pc'[u] = pc[u] /\ op'[u] = op[u] /\ left'[u] = left[u]
                                /\ entered'[u] = entered[u] /\ goal'[u] = goal[u]
                                /\ owed'[u] = owed[u] /\ since'[u] = since[u]
      /\ pc'[t] \notin Held /\ PcOf(t)' /\ CallOf(t)'
  <2>1. CASE left[t] = 0
    <3>1. Return(t) /\ owed' = owed /\ since' = since
      BY <2>1 DEF Refused
    <3>2. /\ CallType' /\ pc'[t] = "run" /\ op'[t] = "none" /\ goal'[t] = "retry"
          /\ \A u \in Tasks \ {t} : /\ pc'[u] = pc[u] /\ op'[u] = op[u] /\ left'[u] = left[u]
                                    /\ entered'[u] = entered[u] /\ goal'[u] = goal[u]
      BY <1>2, <3>1, ReturnFacts
    <3>3. PcOf(t)' /\ CallOf(t)'
      BY <3>2, ReturnedOf
    <3> QED
      BY <1>4, <3>1, <3>2, <3>3 DEF Held
  <2>2. CASE left[t] # 0
    <3>1. pc' = [pc EXCEPT ![t] = "suspend"] /\ op' = op /\ left' = left /\ goal' = goal
      BY <2>2 DEF Refused
    <3>2. pc'[t] = "suspend" /\ \A u \in Tasks \ {t} : pc'[u] = pc[u]
      BY <1>2, <3>1 DEF CallType
    <3>3. CASE pc[t] = "first" /\ left[t] # Forever
      <4>1. /\ entered' = [entered EXCEPT ![t] = ticks] /\ owed' = [owed EXCEPT ![t] = left[t]]
            /\ since' = [since EXCEPT ![t] = 0]
        BY <2>2, <3>3 DEF Refused
      <4>2. CallType'
        BY <1>2, <1>4, <3>1, <4>1 DEF CallType, Labels
      <4>3. /\ entered'[t] = ticks /\ owed'[t] = left[t] /\ since'[t] = 0
            /\ \A u \in Tasks \ {t} : /\ entered'[u] = entered[u] /\ owed'[u] = owed[u]
                                      /\ since'[u] = since[u]
            /\ owed' \in [Tasks -> 0 .. Forever] /\ since' \in [Tasks -> 0 .. Width]
        BY <1>2, <1>4, <4>1 DEF CallType
      <4>4. goal[t] # "expired"
        BY <1>1, <1>2 DEF PcOf
      <4>5. PcOf(t)'
        BY <1>1, <1>4, <2>2, <3>1, <3>2, <4>4 DEF PcOf
      <4>6. CallOf(t)'
        <5>1. left[t] \in 1 .. Forever
          BY <1>4, <2>2
        <5>2. (ticks + 0) % (Width * Epochs) = ticks
          BY <1>4, CountType
        <5> QED
          BY <1>3, <3>1, <3>2, <4>3, <5>1, <5>2, CountType DEF CallOf
      <4> QED
        BY <3>1, <3>2, <4>2, <4>3, <4>5, <4>6 DEF Held
    <3>4. CASE ~(pc[t] = "first" /\ left[t] # Forever)
      <4>1. entered' = entered /\ owed' = owed /\ since' = since
        BY <2>2, <3>4 DEF Refused
      <4>2. CallType'
        BY <1>2, <3>1, <4>1 DEF CallType, Labels
      <4>3. PcOf(t)'
        BY <1>1, <1>2, <1>4, <2>2, <3>1, <3>2, <4>1 DEF PcOf
      <4>4. CallOf(t)'
        BY <1>1, <1>2, <1>3, <1>4, <3>1, <3>2, <3>4, <4>1, CountType DEF CallOf, InTime
      <4> QED
        BY <1>4, <3>1, <3>2, <4>1, <4>2, <4>3, <4>4 DEF Held
    <3> QED
      BY <3>3, <3>4
  <2> QED
    BY <2>1, <2>2
<1>6. HoldInv'
  BY <1>1, <1>2, <1>3, <1>5 DEF HoldInv, TxHeld, Held
<1> QED
  BY <1>1, <1>2, <1>3, <1>4, <1>5, <1>6, CallStep DEF queueVars

LEMMA SuspendStep ==
    ASSUME Inv, NEW t \in Tasks, Suspend(t)
    PROVE  Inv'
<1>1. /\ cur = t /\ pc[t] = "suspend" /\ suspended' = 1
      /\ Goto(t, IF op[t] = "delay" THEN "block" ELSE "lock")
      /\ UNCHANGED <<schedVars, timeVars, queueVars, pending, isrOn>>
  BY DEF Suspend, Running
<1>2. /\ t # Idle /\ CallType /\ HoldInv /\ PcOf(t) /\ CallOf(t) /\ place[t] = "ready"
      /\ \A u \in Tasks \ {t} : pc[u] \notin Held
  BY <1>1, RunningFacts
<1>3. /\ cur' = cur /\ txLock' = txLock /\ rxLock' = rxLock /\ ticks' = ticks
      /\ pended' = pended /\ pending' = pending /\ owed' = owed /\ since' = since
  BY <1>1 DEF queueVars, schedVars, timeVars
<1>4. PICK l \in {"block", "lock"} : l = IF op[t] = "delay" THEN "block" ELSE "lock"
  OBVIOUS
<1>5. /\ CallType' /\ pc'[t] = l /\ \A u \in Tasks \ {t} : pc'[u] = pc[u]
      /\ op' = op /\ left' = left /\ entered' = entered /\ goal' = goal
  BY <1>1, <1>2, <1>4, GotoFacts DEF Labels
<1>6. op[t] # "none"
  BY <1>1, <1>2 DEF PcOf
<1>7. PcOf(t)' /\ CallOf(t)'
  BY <1>1, <1>2, <1>3, <1>4, <1>5, <1>6 DEF PcOf, CallOf, InTime
<1>8. HoldInv'
  BY <1>1, <1>2, <1>3, <1>4, <1>5 DEF HoldInv, TxHeld, Held
<1>9. /\ owed' \in [Tasks -> 0 .. Forever] /\ since' \in [Tasks -> 0 .. Width]
      /\ suspended' \in 0 .. 1 /\ txLock' \in Unlocked .. MaxLock /\ rxLock' \in Unlocked .. MaxLock
  BY <1>1, <1>3, Typed
<1> QED
  BY <1>1, <1>2, <1>3, <1>5, <1>7, <1>8, <1>9, CallStep DEF queueVars, timeVars

LEMMA LockStep ==
    ASSUME Inv, NEW t \in Tasks, Lock(t)
    PROVE  Inv'
<1>1. /\ cur = t /\ pc[t] = "lock" /\ txLock' = Locked(txLock) /\ rxLock' = Locked(rxLock)
      /\ Goto(t, "check")
      /\ UNCHANGED <<schedVars, timeVars, messages, waitSend, waitReceive, suspended, pending, isrOn>>
  BY DEF Lock, Running
<1>2. /\ t # Idle /\ CallType /\ HoldInv /\ PcOf(t) /\ CallOf(t) /\ place[t] = "ready"
      /\ \A u \in Tasks \ {t} : pc[u] \notin Held
  BY <1>1, RunningFacts
<1>3. /\ cur' = cur /\ ticks' = ticks /\ suspended' = suspended
      /\ pended' = pended /\ pending' = pending /\ owed' = owed /\ since' = since
  BY <1>1 DEF schedVars, timeVars
<1>5. /\ CallType' /\ pc'[t] = "check" /\ \A u \in Tasks \ {t} : pc'[u] = pc[u]
      /\ op' = op /\ left' = left /\ entered' = entered /\ goal' = goal
  BY <1>1, <1>2, GotoFacts DEF Labels
<1>6. op[t] \notin {"none", "delay"} /\ left[t] >= 1 /\ goal[t] # "expired"
  BY <1>1, <1>2 DEF PcOf
<1>7. PcOf(t)' /\ CallOf(t)'
  BY <1>1, <1>2, <1>3, <1>5, <1>6 DEF PcOf, CallOf, InTime
<1>9. /\ owed' \in [Tasks -> 0 .. Forever] /\ since' \in [Tasks -> 0 .. Width]
      /\ suspended' \in 0 .. 1 /\ txLock' \in Unlocked .. MaxLock /\ rxLock' \in Unlocked .. MaxLock
      /\ txLock' # Unlocked /\ rxLock' # Unlocked
  <2>1. /\ owed' \in [Tasks -> 0 .. Forever] /\ since' \in [Tasks -> 0 .. Width]
        /\ suspended' \in 0 .. 1
    BY <1>3, Typed
  <2>2. txLock \in Unlocked .. MaxLock /\ rxLock \in Unlocked .. MaxLock /\ MaxLock \in Nat
    BY Typed, KernelAssumption
  <2>3. \A l \in Unlocked .. MaxLock : Locked(l) \in Unlocked .. MaxLock /\ Locked(l) # Unlocked
    BY <2>2 DEF Locked, Unmodified, Unlocked
  <2> QED
    BY <1>1, <2>1, <2>2, <2>3
<1>8. HoldInv'
  BY <1>1, <1>2, <1>3, <1>5, <1>9 DEF HoldInv, TxHeld, Held
<1> QED
  BY <1>1, <1>2, <1>3, <1>5, <1>7, <1>8, <1>9, CallStep DEF timeVars

LEMMA CheckStep ==
    ASSUME Inv, NEW t \in Tasks, Check(t)
    PROVE  Inv'
<1>1. /\ cur = t /\ pc[t] = "check"
      /\ UNCHANGED <<schedVars, place, wake, nextUnblock, ticks, pended, queueVars,
                     suspended, pending, isrOn>>
  BY DEF Check, Running
<1>2. /\ t # Idle /\ CallType /\ HoldInv /\ PcOf(t) /\ CallOf(t) /\ place[t] = "ready"
      /\ \A u \in Tasks \ {t} : pc[u] \notin Held
  BY <1>1, RunningFacts
<1>3. /\ cur' = cur /\ ticks' = ticks /\ suspended' = suspended /\ pended' = pended
      /\ pending' = pending /\ txLock' = txLock /\ rxLock' = rxLock /\ messages' = messages
      /\ waitSend' = waitSend /\ waitReceive' = waitReceive
  BY <1>1 DEF schedVars, queueVars
<1>4. /\ owed \in [Tasks -> 0 .. Forever] /\ since \in [Tasks -> 0 .. Width]
      /\ ticks \in 0 .. Width * Epochs - 1 /\ left[t] \in 0 .. Forever /\ 0 \in 0 .. Width
      /\ entered[t] \in 0 .. Width * Epochs - 1
      /\ suspended \in 0 .. 1 /\ txLock \in Unlocked .. MaxLock /\ rxLock \in Unlocked .. MaxLock
  <2>1. 0 \in 0 .. Width
    BY CountType
  <2>2. left \in [Tasks -> 0 .. Forever] /\ entered \in [Tasks -> 0 .. Width * Epochs - 1]
    BY Typed
  <2> QED
    BY <2>1, <2>2, Typed
<1>5. op[t] \notin {"none", "delay"} /\ left[t] >= 1 /\ goal[t] # "expired"
  BY <1>1, <1>2 DEF PcOf
<1>6. /\ CallType' /\ owed' \in [Tasks -> 0 .. Forever] /\ since' \in [Tasks -> 0 .. Width]
      /\ \A u \in Tasks \ {t} : /\ pc'[u] = pc[u] /\ op'[u] = op[u] /\ left'[u] = left[u]
                                /\ entered'[u] = entered[u] /\ goal'[u] = goal[u]
                                /\ owed'[u] = owed[u] /\ since'[u] = since[u]
      /\ pc'[t] \in {"test", "unlockTx"} /\ PcOf(t)' /\ CallOf(t)'
  <2>1. CASE left[t] = Forever
    <3>1. Goto(t, "test") /\ owed' = owed /\ since' = since
      BY <2>1 DEF Check
    <3>2. /\ CallType' /\ pc'[t] = "test" /\ \A u \in Tasks \ {t} : pc'[u] = pc[u]
          /\ op' = op /\ left' = left /\ entered' = entered /\ goal' = goal
      BY <1>2, <3>1, GotoFacts DEF Labels
    <3>3. PcOf(t)' /\ CallOf(t)'
      BY <1>2, <1>5, <2>1, <3>1, <3>2, CountType DEF PcOf, CallOf, InTime
    <3> QED
      BY <1>4, <3>1, <3>2, <3>3
  <2>2. CASE left[t] # Forever
    <3>1. /\ InTime(t) /\ left[t] \in 1 .. Width - 2
          /\ owed[t] = (IF since[t] < left[t] THEN left[t] - since[t] ELSE 0)
          /\ since[t] < Width => ticks = (entered[t] + since[t]) % (Width * Epochs)
          /\ since[t] \in 0 .. Width
      BY <1>1, <1>2, <1>4, <1>5, <2>2, CountType DEF InTime, CallOf
    <3>2. ASSUME since[t] < Width
          PROVE  Elapsed(t) = since[t] /\ ~WrappedPast(t)
      <4>1. PICK e \in 0 .. Width * Epochs - 1, k \in 0 .. Width - 1 :
                    e = entered[t] /\ k = since[t] /\ ticks = (e + k) % (Width * Epochs)
        BY <1>4, <3>1, <3>2, CountType
      <4>2. /\ (Count(ticks) - Count(e)) % Width = k
            /\ ~(ticks \div Width # e \div Width /\ Count(ticks) >= Count(e))
        BY <4>1, ElapsedFacts
      <4> QED
        BY <4>1, <4>2 DEF Elapsed, WrappedPast
    <3>3. CASE ~WrappedPast(t) /\ Elapsed(t) < left[t]
      <4>1. /\ left' = [left EXCEPT ![t] = left[t] - Elapsed(t)]
            /\ entered' = [entered EXCEPT ![t] = ticks] /\ pc' = [pc EXCEPT ![t] = "test"]
            /\ op' = op /\ goal' = goal /\ since' = [since EXCEPT ![t] = 0]
            /\ owed' = IF since[t] = Width THEN [owed EXCEPT ![t] = left'[t]] ELSE owed
        BY <2>2, <3>3 DEF Check
      <4>2. Elapsed(t) \in 0 .. Width - 1
        <5>1. Count(ticks) \in Int /\ Count(entered[t]) \in Int /\ Width \in Nat \ {0, 1}
          BY <1>4, CountType
        <5> QED
          BY <5>1 DEF Elapsed
      <4>3. PICK l \in 1 .. Width - 2 : l = left[t] - Elapsed(t)
        BY <3>1, <3>3, <4>2, CountType
      <4>4. left' = [left EXCEPT ![t] = l]
        BY <4>1, <4>3
      <4>5. CallType'
        <5>1. l \in 0 .. Forever
          BY CountType
        <5> QED
          BY <1>2, <1>4, <4>1, <4>4, <5>1 DEF CallType, Labels
      <4>6. /\ left'[t] = l /\ entered'[t] = ticks /\ pc'[t] = "test" /\ since'[t] = 0
            /\ \A u \in Tasks \ {t} : /\ pc'[u] = pc[u] /\ left'[u] = left[u]
                                      /\ entered'[u] = entered[u] /\ since'[u] = since[u]
            /\ since' \in [Tasks -> 0 .. Width]
        BY <1>2, <1>4, <4>1, <4>4 DEF CallType
      <4>7. /\ owed' \in [Tasks -> 0 .. Forever] /\ owed'[t] = l
            /\ \A u \in Tasks \ {t} : owed'[u] = owed[u]
        <5>1. CASE since[t] = Width
          <6>1. owed' = [owed EXCEPT ![t] = l]
            BY <4>1, <4>6, <5>1
          <6>2. l \in 0 .. Forever
            BY CountType
          <6> QED
            BY <1>4, <6>1, <6>2
        <5>2. CASE since[t] # Width
          <6>1. owed' = owed /\ Elapsed(t) = since[t]
            BY <3>1, <3>2, <4>1, <5>2, CountType
          <6>2. owed[t] = left[t] - since[t]
            BY <3>1, <3>3, <6>1
          <6> QED
            BY <1>4, <4>3, <6>1, <6>2
        <5> QED
          BY <5>1, <5>2
      <4>8. PcOf(t)'
        BY <1>2, <1>5, <4>1, <4>6 DEF PcOf
      <4>9. CallOf(t)'
        <5>1. (ticks + 0) % (Width * Epochs) = ticks
          BY <1>4, CountType
        <5>2. l < Width /\ l > 0 /\ l - 0 = l
          BY CountType
        <5> QED
          BY <1>3, <4>6, <4>7, <5>1, <5>2 DEF CallOf
      <4> QED
        BY <4>1, <4>5, <4>6, <4>7, <4>8, <4>9
    <3>4. CASE ~(~WrappedPast(t) /\ Elapsed(t) < left[t])
      <4>1. /\ pc' = [pc EXCEPT ![t] = "unlockTx"] /\ goal' = [goal EXCEPT ![t] = "expired"]
            /\ op' = op /\ left' = left /\ entered' = entered /\ owed' = owed /\ since' = since
        BY <2>2, <3>4 DEF Check
      <4>2. CallType'
        BY <1>2, <4>1 DEF CallType, Labels
      <4>3. /\ pc'[t] = "unlockTx" /\ goal'[t] = "expired"
            /\ \A u \in Tasks \ {t} : pc'[u] = pc[u] /\ goal'[u] = goal[u]
        BY <1>2, <4>1 DEF CallType
      <4>4. owed[t] = 0
        <5>1. CASE since[t] < Width
          BY <3>1, <3>2, <3>4, <5>1
        <5>2. CASE since[t] = Width
          BY <3>1, <5>2, CountType
        <5> QED
          BY <3>1, <5>1, <5>2, CountType
      <4>5. PcOf(t)'
        BY <1>2, <1>5, <2>2, <4>1, <4>3, <4>4 DEF PcOf
      <4>6. CallOf(t)'
        BY <1>2, <1>3, <3>1, <4>1, <4>3 DEF CallOf, InTime
      <4> QED
        BY <1>4, <4>1, <4>2, <4>3, <4>5, <4>6
    <3> QED
      BY <3>3, <3>4
  <2> QED
    BY <2>1, <2>2
<1>7. HoldInv'
  BY <1>1, <1>2, <1>3, <1>6 DEF HoldInv, TxHeld, Held
<1> QED
  BY <1>1, <1>2, <1>3, <1>4, <1>6, <1>7, CallStep DEF queueVars

LEMMA TestStep ==
    ASSUME Inv, NEW t \in Tasks, Test(t)
    PROVE  Inv'
<1>1. /\ cur = t /\ pc[t] = "test"
      /\ UNCHANGED <<op, left, entered, schedVars, timeVars, queueVars, suspended, pending, isrOn>>
  BY DEF Test, Running
<1>2. /\ t # Idle /\ CallType /\ HoldInv /\ PcOf(t) /\ CallOf(t) /\ place[t] = "ready"
      /\ \A u \in Tasks \ {t} : pc[u] \notin Held
  BY <1>1, RunningFacts
<1>3. /\ cur' = cur /\ ticks' = ticks /\ suspended' = suspended /\ pended' = pended
      /\ pending' = pending /\ txLock' = txLock /\ rxLock' = rxLock /\ owed' = owed /\ since' = since
  BY <1>1 DEF schedVars, queueVars, timeVars
<1>4. op[t] \notin {"none", "delay"} /\ left[t] >= 1 /\ goal[t] # "expired"
  BY <1>1, <1>2 DEF PcOf
<1>5. PICK l, g : /\ pc' = [pc EXCEPT ![t] = l] /\ goal' = [goal EXCEPT ![t] = g]
                  /\ (l = "insert" /\ g = "sleep") \/ (l = "unlockTx" /\ g = "retry")
  BY DEF Test
<1>6. CallType'
  BY <1>1, <1>2, <1>5 DEF CallType, Labels
<1>7. /\ pc'[t] = l /\ goal'[t] = g
      /\ \A u \in Tasks \ {t} : pc'[u] = pc[u] /\ goal'[u] = goal[u]
  BY <1>2, <1>5 DEF CallType
<1>8. PcOf(t)' /\ CallOf(t)'
  BY <1>1, <1>2, <1>3, <1>4, <1>5, <1>7 DEF PcOf, CallOf, InTime
<1>9. HoldInv'
  BY <1>1, <1>2, <1>3, <1>5, <1>7 DEF HoldInv, TxHeld, Held
<1>10. /\ owed' \in [Tasks -> 0 .. Forever] /\ since' \in [Tasks -> 0 .. Width]
       /\ suspended' \in 0 .. 1 /\ txLock' \in Unlocked .. MaxLock /\ rxLock' \in Unlocked .. MaxLock
  BY <1>3, Typed
<1> QED
  BY <1>1, <1>2, <1>3, <1>6, <1>7, <1>8, <1>9, <1>10, CallStep DEF queueVars, timeVars

LEMMA CallsStep ==
    ASSUME Inv, NEW t \in Tasks, NEW o \in Operations[t], NEW w \in BlockTimes, Call(t, o, w)
    PROVE  Inv'
<1>1. /\ cur = t /\ pc[t] = "run" /\ op' = [op EXCEPT ![t] = o] /\ left' = [left EXCEPT ![t] = w]
      /\ UNCHANGED <<entered, goal, schedVars, timeVars, queueVars, suspended, pending, isrOn>>
  BY DEF Call, Running
<1>2. o \in {"send", "receive", "delay"} /\ w \in 0 .. Forever /\ t # Idle
  BY KernelAssumption
<1>3. CallType /\ HoldInv /\ PcOf(t) /\ place[t] = "ready"
  BY <1>1 DEF Inv, Types, ListInv, PcInv, CurInv
<1>4. PICK l : /\ pc' = [pc EXCEPT ![t] = l]
               /\ (o # "delay" /\ l = "first") \/ (o = "delay" /\ w > 0 /\ l = "suspend")
                    \/ (o = "delay" /\ w = 0 /\ l = "yield")
  <2>1. w > 0 \/ w = 0
    BY <1>2, CountType
  <2>2. PICK l : l = CASE o # "delay" -> "first"
                        [] o = "delay" /\ w > 0 -> "suspend"
                        [] o = "delay" /\ w = 0 -> "yield"
    OBVIOUS
  <2>3. pc' = [pc EXCEPT ![t] = l]
    BY <2>2 DEF Call
  <2>4. CASE o # "delay"
    BY <2>2, <2>3, <2>4
  <2>5. CASE o = "delay" /\ w > 0
    <3>1. ~(w = 0) /\ ~(o # "delay")
      BY <1>2, <2>5, CountType
    <3>2. l = "suspend"
      BY <2>2, <2>5, <3>1
    <3> QED
      BY <2>3, <2>5, <3>2
  <2>6. CASE o = "delay" /\ w = 0
    <3>1. ~(w > 0)
      BY <2>6
    <3>2. l = "yield"
      BY <2>2, <2>6, <3>1
    <3> QED
      BY <2>3, <2>6, <3>2
  <2> QED
    BY <2>1, <2>4, <2>5, <2>6
<1>5. /\ cur' = cur /\ ticks' = ticks /\ suspended' = suspended /\ pended' = pended
      /\ pending' = pending /\ txLock' = txLock /\ rxLock' = rxLock /\ owed' = owed /\ since' = since
  BY <1>1 DEF schedVars, queueVars, timeVars
<1>6. CallType'
  BY <1>1, <1>2, <1>3, <1>4 DEF CallType, Labels
<1>7. /\ pc'[t] = l /\ op'[t] = o /\ left'[t] = w
      /\ \A u \in Tasks \ {t} : pc'[u] = pc[u] /\ op'[u] = op[u] /\ left'[u] = left[u]
  BY <1>1, <1>3, <1>4 DEF CallType
<1>8. goal'[t] # "expired"
  BY <1>1, <1>3 DEF PcOf
<1>9. PcOf(t)' /\ CallOf(t)'
  BY <1>2, <1>4, <1>7, <1>8, CountType DEF PcOf, CallOf, InTime
<1>10. HoldInv'
  BY <1>1, <1>3, <1>4, <1>5, <1>7 DEF HoldInv, TxHeld, Held
<1>11. /\ owed' \in [Tasks -> 0 .. Forever] /\ since' \in [Tasks -> 0 .. Width]
       /\ suspended' \in 0 .. 1 /\ txLock' \in Unlocked .. MaxLock /\ rxLock' \in Unlocked .. MaxLock
  BY <1>5, Typed
<1> QED
  BY <1>1, <1>2, <1>3, <1>5, <1>6, <1>7, <1>9, <1>10, <1>11, CallStep DEF queueVars, timeVars

(* Into the event list.                                                       *)
LEMMA InsertStep ==
    ASSUME Inv, NEW t \in Tasks, Insert(t)
    PROVE  Inv'
<1>1. /\ cur = t /\ pc[t] = "insert" /\ Goto(t, "block")
      /\ UNCHANGED <<schedVars, timeVars, messages, txLock, rxLock, suspended, pending, isrOn>>
  BY DEF Insert, Running
<1>2. /\ t # Idle /\ CallType /\ HoldInv /\ PcOf(t) /\ CallOf(t) /\ place[t] = "ready"
      /\ \A u \in Tasks \ {t} : pc[u] \notin Held
  BY <1>1, RunningFacts
<1>3. /\ cur' = cur /\ ready' = ready /\ yieldPending' = yieldPending /\ place' = place
      /\ wake' = wake /\ nextUnblock' = nextUnblock /\ ticks' = ticks /\ pended' = pended
      /\ owed' = owed /\ since' = since /\ suspended' = suspended /\ txLock' = txLock
      /\ rxLock' = rxLock /\ messages' = messages /\ pending' = pending /\ isrOn' = isrOn
  BY <1>1 DEF schedVars, timeVars
<1>4. /\ CallType' /\ pc'[t] = "block" /\ \A u \in Tasks \ {t} : pc'[u] = pc[u]
      /\ op' = op /\ left' = left /\ entered' = entered /\ goal' = goal
  BY <1>1, <1>2, GotoFacts DEF Labels
<1>5. op[t] \in {"send", "receive"} /\ goal[t] = "sleep" /\ left[t] >= 1
  BY <1>1, <1>2 DEF PcOf, CallType
<1>6. t \notin Range(waitSend) \union Range(waitReceive) \union Range(pending)
  BY <1>1, <1>2, NotWaiting
<1>7. /\ waitSend \in Seq(Tasks) /\ waitReceive \in Seq(Tasks) /\ pending \in Seq(Tasks)
      /\ WaitInv(waitSend, "send") /\ WaitInv(waitReceive, "receive")
      /\ Distinct(pending) /\ \A u \in Range(pending) : Away(u)
  BY Typed DEF Inv, ListInv, WaitsInv
<1>8. /\ Range(waitSend) \subseteq Tasks \ {t} /\ Range(waitReceive) \subseteq Tasks \ {t}
      /\ Range(pending) \subseteq Tasks \ {t}
  BY <1>6, <1>7, RangeOfSeq DEF Range
<1>9. \A u \in Tasks \ {t} : Away(u) => Away(u)'
  BY <1>1, <1>3 DEF Away
<1>10. Away(t)'
  BY <1>1, <1>3, <1>4 DEF Away
<1>11. ASSUME NEW w \in Seq(Tasks), NEW o, WaitInv(w, o), Range(w) \subseteq Tasks \ {t}
       PROVE  WaitInv(w, o)'
  BY <1>3, <1>4, <1>9, <1>11 DEF WaitInv
<1>12. ASSUME NEW w \in Seq(Tasks), WaitInv(w, op[t]), Range(w) \subseteq Tasks \ {t}
       PROVE  InOrder(w, t) \in Seq(Tasks) /\ WaitInv(InOrder(w, t), op[t])'
  <2>1. PICK q : q = InOrder(w, t)
    OBVIOUS
  <2>2. q \in Seq(Tasks) /\ Range(q) = Range(w) \union {t} /\ Distinct(q)
    BY <1>12, <2>1, InOrderFacts DEF WaitInv
  <2>3. \A u \in Range(w) : /\ op'[u] = op[t] /\ goal'[u] = "sleep" /\ pc'[u] \in Sleepy
                            /\ Away(u)' /\ u \notin Range(pending')
    BY <1>3, <1>4, <1>9, <1>12 DEF WaitInv
  <2>4. /\ op'[t] = op[t] /\ goal'[t] = "sleep" /\ pc'[t] \in Sleepy
        /\ Away(t)' /\ t \notin Range(pending')
    BY <1>3, <1>4, <1>5, <1>6, <1>10 DEF Sleepy
  <2> QED
    BY <1>4, <2>1, <2>2, <2>3, <2>4 DEF WaitInv
<1>13. /\ waitSend' \in Seq(Tasks) /\ waitReceive' \in Seq(Tasks)
       /\ WaitInv(waitSend, "send")' /\ WaitInv(waitReceive, "receive")'
  <2>1. CASE op[t] = "send"
    <3>1. waitSend' = InOrder(waitSend, t) /\ waitReceive' = waitReceive
      BY <2>1 DEF Insert
    <3>2. waitSend' \in Seq(Tasks) /\ WaitInv(waitSend, "send")'
      BY <1>4, <1>7, <1>8, <1>12, <2>1, <3>1 DEF WaitInv
    <3>3. WaitInv(waitReceive, "receive")'
      BY <1>7, <1>8, <1>11, <3>1 DEF WaitInv
    <3> QED
      BY <1>7, <3>1, <3>2, <3>3
  <2>2. CASE op[t] = "receive"
    <3>1. waitReceive' = InOrder(waitReceive, t) /\ waitSend' = waitSend
      BY <2>2 DEF Insert
    <3>2. waitReceive' \in Seq(Tasks) /\ WaitInv(waitReceive, "receive")'
      BY <1>4, <1>7, <1>8, <1>12, <2>2, <3>1 DEF WaitInv
    <3>3. WaitInv(waitSend, "send")'
      BY <1>7, <1>8, <1>11, <3>1 DEF WaitInv
    <3> QED
      BY <1>7, <3>1, <3>2, <3>3
  <2> QED
    BY <1>5, <2>1, <2>2
<1>14. WaitsInv'
  BY <1>3, <1>7, <1>8, <1>9, <1>13 DEF WaitsInv
<1>15. Types'
  BY <1>3, <1>4, <1>13 DEF Inv, Types, SchedType, TimeType, QueueType, HoldType
<1>16. PcInv' /\ CallInv'
  <2>1. PcOf(t)' /\ CallOf(t)'
    BY <1>1, <1>2, <1>3, <1>4, <1>5 DEF PcOf, CallOf, InTime
  <2>2. ASSUME NEW u \in Tasks \ {t} PROVE PcOf(u)' /\ CallOf(u)'
    <3>1. PcOf(u) /\ CallOf(u)
      BY DEF Inv, ListInv, PcInv, CallInv
    <3> QED
      BY <1>3, <1>4, <3>1 DEF PcOf, CallOf, InTime
  <2> QED
    BY <2>1, <2>2 DEF PcInv, CallInv
<1>17. HoldInv'
  BY <1>1, <1>2, <1>3, <1>4, <1>5 DEF HoldInv, TxHeld, Held
<1>18. ReadyLists(ready, place)' /\ CurInv' /\ HighInv' /\ IdleInv' /\ DelayInv'
  BY <1>1, <1>2, <1>3, <1>4, KernelAssumption
     DEF Inv, ListInv, CurInv, HighInv, IdleInv, DelayInv
<1> QED
  BY <1>14, <1>15, <1>16, <1>17, <1>18 DEF Inv, ListInv

(* Out of the ready list: the wake time is when the time that is left is up.  *)
LEMMA WakeTimeFacts ==
    ASSUME Inv, NEW t \in Tasks, left[t] >= 1
    PROVE  /\ WakeTime(t) \in 0 .. Width - 1
           /\ WakeTime(t) < Count(ticks) => left[t] = WakeTime(t) - Count(ticks) + Width
           /\ ~(WakeTime(t) < Count(ticks)) => /\ Count(ticks) < WakeTime(t)
                                               /\ left[t] = WakeTime(t) - Count(ticks)
<1>1. left \in [Tasks -> 0 .. Forever] /\ ticks \in 0 .. Width * Epochs - 1
  BY Typed
<1>2. PICK k \in 0 .. Width - 1 : k = left[t] /\ k >= 1
  BY <1>1, CountType
<1>3. Count(ticks + k) = IF Count(ticks) + k < Width THEN Count(ticks) + k
                                                      ELSE Count(ticks) + k - Width
  BY <1>1, CountLater
<1>4. Count(ticks) \in 0 .. Width - 1 /\ Width \in Nat
  BY <1>1, CountType
<1> QED
  BY <1>2, <1>3, <1>4 DEF WakeTime

LEMMA BlockStep ==
    ASSUME Inv, NEW t \in Tasks, Block(t)
    PROVE  Inv'
<1>1. /\ cur = t /\ pc[t] = "block"
      /\ ready' = [ready EXCEPT ![Priority[t]] = Without(@, t)]
      /\ owed' = IF op[t] = "delay" THEN [owed EXCEPT ![t] = left[t]] ELSE owed
      /\ pc' = [pc EXCEPT ![t] = IF op[t] = "delay" THEN "resume" ELSE "unlockTx"]
      /\ goal' = [goal EXCEPT ![t] = "sleep"]
      /\ UNCHANGED <<cur, yieldPending, ticks, pended, queueVars, op, left, entered,
                     since, suspended, pending, isrOn>>
  BY DEF Block, Running
<1>2. /\ t # Idle /\ CallType /\ HoldInv /\ PcOf(t) /\ CallOf(t) /\ place[t] = "ready"
      /\ \A u \in Tasks \ {t} : pc[u] \notin Held
  BY <1>1, RunningFacts
<1>3. /\ cur' = cur /\ yieldPending' = yieldPending /\ ticks' = ticks /\ pended' = pended
      /\ since' = since /\ suspended' = suspended /\ txLock' = txLock
      /\ rxLock' = rxLock /\ messages' = messages /\ pending' = pending /\ isrOn' = isrOn
      /\ waitSend' = waitSend /\ waitReceive' = waitReceive
      /\ op' = op /\ left' = left /\ entered' = entered
  BY <1>1 DEF queueVars
<1>4. op[t] # "none" /\ left[t] >= 1
  BY <1>1, <1>2 DEF PcOf
<1>5. /\ place \in [Tasks -> Places] /\ wake \in [Tasks -> 0 .. Width - 1]
      /\ nextUnblock \in 0 .. Width - 1 /\ owed \in [Tasks -> 0 .. Forever]
      /\ left \in [Tasks -> 0 .. Forever] /\ Count(ticks) \in Nat
  <2>1. ticks \in Nat
    BY Typed, CountType
  <2>2. Count(ticks) \in Nat
    BY <2>1, CountType
  <2> QED
    BY <2>2, Typed
<1>6. PICK m \in 0 .. Width - 1 : m = WakeTime(t)
  BY <1>4, WakeTimeFacts
<1>7. /\ m < Count(ticks) => left[t] = m - Count(ticks) + Width
      /\ ~(m < Count(ticks)) => Count(ticks) < m /\ left[t] = m - Count(ticks)
  BY <1>4, <1>6, WakeTimeFacts
<1>8. PICK v \in Places :
         /\ place' = [place EXCEPT ![t] = v] /\ v # "ready"
         /\ wake' \in [Tasks -> 0 .. Width - 1] /\ \A u \in Tasks \ {t} : wake'[u] = wake[u]
         /\ nextUnblock' \in 0 .. Width - 1 /\ nextUnblock' <= nextUnblock
         /\ v = "suspended" => left[t] = Forever /\ op[t] # "delay"
         /\ v # "suspended" => wake'[t] = m /\ ~(left[t] = Forever /\ op[t] # "delay")
         /\ v = "overflow" => m < Count(ticks)
         /\ v = "delayed" => ~(m < Count(ticks)) /\ nextUnblock' <= m
  <2>1. CASE left[t] = Forever /\ op[t] # "delay"
    <3>1. place' = [place EXCEPT ![t] = "suspended"] /\ wake' = wake /\ nextUnblock' = nextUnblock
      BY <2>1 DEF Block
    <3>2. "suspended" \in Places
      BY DEF Places
    <3> QED
      <4>1. PICK v : v = "suspended"
        OBVIOUS
      <4>2. nextUnblock <= nextUnblock
        BY <1>5
      <4>3. v \in Places /\ place' = [place EXCEPT ![t] = v] /\ v # "ready"
            /\ v # "overflow" /\ v # "delayed"
        BY <3>1, <3>2, <4>1
      <4> QED
        BY <1>5, <2>1, <3>1, <4>1, <4>2, <4>3
  <2>2. CASE ~(left[t] = Forever /\ op[t] # "delay")
    <3>1. /\ wake' = [wake EXCEPT ![t] = m]
          /\ IF m < Count(ticks)
             THEN place' = [place EXCEPT ![t] = "overflow"] /\ nextUnblock' = nextUnblock
             ELSE place' = [place EXCEPT ![t] = "delayed"] /\ nextUnblock' = Sooner(m)
      BY <1>6, <2>2 DEF Block
    <3>2. wake' \in [Tasks -> 0 .. Width - 1] /\ wake'[t] = m /\ \A u \in Tasks \ {t} : wake'[u] = wake[u]
      BY <1>5, <3>1
    <3>3. "overflow" \in Places /\ "delayed" \in Places
      BY DEF Places
    <3>4. CASE m < Count(ticks)
      BY <1>5, <2>2, <3>1, <3>2, <3>3, <3>4
    <3>5. CASE ~(m < Count(ticks))
      <4>1. PICK T : T = {nextUnblock, m}
        OBVIOUS
      <4>2. T \subseteq Nat /\ T # {} /\ T \subseteq 0 .. Width - 1
        BY <1>5, <4>1, CountType
      <4>3. Min(T) \in T /\ \A y \in T : Min(T) <= y
        BY <4>2, LeastFacts
      <4>4. Sooner(m) \in 0 .. Width - 1 /\ Sooner(m) <= nextUnblock /\ Sooner(m) <= m
        BY <4>1, <4>2, <4>3 DEF Sooner
      <4> QED
        BY <2>2, <3>1, <3>2, <3>3, <3>5, <4>4
    <3> QED
      BY <3>4, <3>5
  <2> QED
    BY <2>1, <2>2
<1>9. /\ place' \in [Tasks -> Places]
      /\ \A u \in Tasks : place'[u] = IF u = t THEN v ELSE place[u]
  BY <1>5, <1>8
<1>10. PICK l : l = IF op[t] = "delay" THEN "resume" ELSE "unlockTx"
  OBVIOUS
<1>11. /\ CallType' /\ pc'[t] = l /\ goal'[t] = "sleep"
       /\ \A u \in Tasks \ {t} : pc'[u] = pc[u] /\ goal'[u] = goal[u]
  BY <1>1, <1>2, <1>3, <1>10 DEF CallType, Labels
<1>12. /\ owed' \in [Tasks -> 0 .. Forever] /\ \A u \in Tasks \ {t} : owed'[u] = owed[u]
       /\ op[t] = "delay" => owed'[t] = left[t]
       /\ op[t] # "delay" => owed'[t] = owed[t]
  <2>1. CASE op[t] = "delay"
    BY <1>1, <1>5, <2>1
  <2>2. CASE op[t] # "delay"
    BY <1>1, <1>5, <2>2
  <2> QED
    BY <2>1, <2>2
<1>13. ReadyLists(ready', place')
  <2>1. ReadyLists(ready, place)
    BY DEF Inv, ListInv
  <2>2. ReadyLists([ready EXCEPT ![Priority[t]] = Without(@, t)], [place EXCEPT ![t] = v])
    BY <1>2, <1>5, <1>8, <2>1, RemovedFacts
  <2> QED
    BY <1>1, <1>8, <2>2
<1>14. Types'
  BY <1>3, <1>8, <1>9, <1>11, <1>12 DEF Inv, Types, SchedType, TimeType, QueueType, HoldType
<1>15. \A u \in Tasks : Away(u) => Away(u)'
  BY <1>1, <1>8, <1>9 DEF Away
<1>16. WaitsInv'
  <2>1. WaitsInv /\ waitSend \in Seq(Tasks) /\ waitReceive \in Seq(Tasks) /\ pending \in Seq(Tasks)
    BY Typed DEF Inv, ListInv
  <2>2. /\ Range(waitSend) \subseteq Tasks /\ Range(waitReceive) \subseteq Tasks
        /\ Range(pending) \subseteq Tasks
    BY <2>1, RangeOfSeq DEF Range
  <2>3. ASSUME NEW w \in Seq(Tasks), NEW o \in {"send", "receive"}, WaitInv(w, o), Range(w) \subseteq Tasks
        PROVE  WaitInv(w, o)'
    <3>1. ASSUME NEW u \in Range(w)
          PROVE  /\ op'[u] = o /\ goal'[u] = "sleep" /\ pc'[u] \in Sleepy
                 /\ Away(u)' /\ u \notin Range(pending')
      <4>1. /\ op[u] = o /\ goal[u] = "sleep" /\ pc[u] \in Sleepy /\ Away(u)
            /\ u \notin Range(pending) /\ u \in Tasks
        BY <2>3 DEF WaitInv
      <4>2. CASE u = t
        BY <1>3, <1>10, <1>11, <1>15, <4>1, <4>2 DEF Sleepy
      <4>3. CASE u # t
        BY <1>3, <1>11, <1>15, <4>1, <4>3
      <4> QED
        BY <4>2, <4>3
    <3> QED
      BY <2>3, <3>1 DEF WaitInv
  <2>4. WaitInv(waitSend, "send")'
    BY <1>3, <2>1, <2>2, <2>3 DEF WaitsInv, WaitInv
  <2>5. WaitInv(waitReceive, "receive")'
    BY <1>3, <2>1, <2>2, <2>3 DEF WaitsInv, WaitInv
  <2> QED
    BY <1>3, <1>15, <2>1, <2>2, <2>4, <2>5 DEF WaitsInv
<1>17. PcInv' /\ CallInv'
  <2>1. PcOf(t)'
    BY <1>1, <1>2, <1>3, <1>4, <1>10, <1>11 DEF PcOf
  <2>2. CallOf(t)'
    BY <1>1, <1>2, <1>3, <1>10, <1>11, <1>12 DEF CallOf, InTime
  <2>3. ASSUME NEW u \in Tasks \ {t} PROVE PcOf(u)' /\ CallOf(u)'
    <3>1. PcOf(u) /\ CallOf(u)
      BY DEF Inv, ListInv, PcInv, CallInv
    <3> QED
      BY <1>3, <1>11, <1>12, <3>1 DEF PcOf, CallOf, InTime
  <2> QED
    BY <2>1, <2>2, <2>3 DEF PcInv, CallInv
<1>18. HoldInv'
  BY <1>1, <1>2, <1>3, <1>10, <1>11 DEF HoldInv, TxHeld, Held
<1>19. CurInv' /\ HighInv' /\ IdleInv'
  BY <1>1, <1>2, <1>3, <1>8, <1>9, <1>10, <1>11, KernelAssumption
     DEF Inv, ListInv, CurInv, HighInv, IdleInv
<1>20. DelayInv'
  <2>1. ASSUME NEW u \in Tasks
        PROVE  /\ place'[u] = "delayed" => /\ Count(ticks) < wake'[u] /\ nextUnblock' <= wake'[u]
                                           /\ owed'[u] = wake'[u] - Count(ticks)
               /\ place'[u] = "overflow" => /\ wake'[u] < Count(ticks)
                                            /\ owed'[u] = wake'[u] - Count(ticks) + Width
    <3>1. CASE u = t
      <4>1. v # "suspended" => owed'[t] = left[t]
        <5>1. ASSUME v # "suspended", op[t] # "delay" PROVE owed[t] = left[t]
          <6>1. InTime(t) /\ since[t] = 0
            BY <1>1, <1>2, <1>4, <1>5, <1>8, <5>1, CountType DEF CallOf, InTime
          <6> QED
            BY <1>2, <1>4, <1>5, <6>1, CountType DEF CallOf
        <5> QED
          BY <1>12, <5>1
      <4> QED
        BY <1>7, <1>8, <1>9, <3>1, <4>1
    <3>2. CASE u # t
      <4>1. /\ place[u] = "delayed" => /\ Count(ticks) < wake[u] /\ nextUnblock <= wake[u]
                                       /\ owed[u] = wake[u] - Count(ticks)
            /\ place[u] = "overflow" => /\ wake[u] < Count(ticks)
                                        /\ owed[u] = wake[u] - Count(ticks) + Width
        BY DEF Inv, DelayInv, Delays
      <4>2. wake[u] \in Nat /\ nextUnblock \in Nat /\ nextUnblock' \in Nat
        BY <1>5, <1>8, CountType
      <4> QED
        BY <1>8, <1>9, <1>12, <3>2, <4>1, <4>2
    <3> QED
      BY <3>1, <3>2
  <2> QED
    BY <1>3, <2>1 DEF DelayInv, Delays
<1> QED
  BY <1>13, <1>14, <1>16, <1>17, <1>18, <1>19, <1>20 DEF Inv, ListInv

(* The queue is unlocked: as many waiting tasks as it counted are held        *)
(* pending, or all of them.                                                  *)
LEMMA ServedFacts ==
    ASSUME NEW s \in Seq(Tasks), Distinct(s), NEW l \in Nat
    PROVE  /\ Served(s, l) \in Seq(Tasks) /\ Distinct(Served(s, l))
           /\ Unserved(s, l) \in Seq(Tasks) /\ Distinct(Unserved(s, l))
           /\ Range(Served(s, l)) \union Range(Unserved(s, l)) = Range(s)
           /\ Range(Served(s, l)) \intersect Range(Unserved(s, l)) = {}
           /\ Unserved(s, l) # <<>> => Len(Served(s, l)) = l
<1>1. PICK n \in Nat : n = Len(s)
  BY LenProperties
<1>2. PICK T : T = {l, n}
  OBVIOUS
<1>3. Min(T) \in T /\ \A y \in T : Min(T) <= y
  BY <1>2, LeastFacts
<1>4. PICK k \in 0 .. n : k = Min(T) /\ k <= l /\ (k = l \/ k = n)
  BY <1>2, <1>3
<1>5. PICK a, b : a = SubSeq(s, 1, k) /\ b = SubSeq(s, k + 1, n)
  OBVIOUS
<1>6. Served(s, l) = a /\ Unserved(s, l) = b
  BY <1>1, <1>2, <1>4, <1>5 DEF Served, Unserved
<1>7. /\ a \in Seq(Tasks) /\ Len(a) = k /\ Range(a) = {s[i] : i \in 1 .. k} /\ Distinct(a)
  <2>1. PICK m \in 1 .. Len(s) + 1 : m = 1
    BY <1>1
  <2>2. k \in m - 1 .. Len(s)
    BY <1>1, <2>1
  <2>3. /\ SubSeq(s, m, k) \in Seq(Tasks) /\ Len(SubSeq(s, m, k)) = k - m + 1
        /\ Range(SubSeq(s, m, k)) = {s[i] : i \in m .. k} /\ Distinct(SubSeq(s, m, k))
    BY <2>2, PieceFacts
  <2>4. k - m + 1 = k
    BY <2>1
  <2> QED
    BY <1>5, <2>1, <2>3, <2>4
<1>8. /\ b \in Seq(Tasks) /\ Len(b) = n - k /\ Range(b) = {s[i] : i \in k + 1 .. n} /\ Distinct(b)
  <2>1. PICK m \in 1 .. Len(s) + 1 : m = k + 1
    BY <1>1
  <2>2. n \in m - 1 .. Len(s)
    BY <1>1, <2>1
  <2>3. /\ SubSeq(s, m, n) \in Seq(Tasks) /\ Len(SubSeq(s, m, n)) = n - m + 1
        /\ Range(SubSeq(s, m, n)) = {s[i] : i \in m .. n} /\ Distinct(SubSeq(s, m, n))
    BY <2>2, PieceFacts
  <2>4. n - m + 1 = n - k
    BY <2>1
  <2> QED
    BY <1>5, <2>1, <2>3, <2>4
<1>9. DOMAIN s = 1 .. n
  BY <1>1, LenProperties
<1>10. Range(a) \union Range(b) = Range(s)
  <2>1. 1 .. n = (1 .. k) \union (k + 1 .. n)
    OBVIOUS
  <2> QED
    BY <1>7, <1>8, <1>9, <2>1 DEF Range
<1>11. Range(a) \intersect Range(b) = {}
  <2>1. \A i \in 1 .. k, j \in k + 1 .. n : s[i] # s[j]
    BY <1>9 DEF Distinct
  <2> QED
    BY <1>7, <1>8, <2>1
<1>12. b # <<>> => Len(a) = l
  <2> SUFFICES ASSUME k # l PROVE b = <<>>
    BY <1>7
  <2>1. Len(b) = 0
    BY <1>4, <1>8
  <2> QED
    BY <1>8, <2>1, EmptySeq
<1> QED
  BY <1>6, <1>7, <1>8, <1>10, <1>11, <1>12

(* What a waiting list promises of its tasks after the step.                  *)
Waiting(w, o) ==
    /\ w \in Seq(Tasks) /\ Distinct(w)
    /\ \A t \in Range(w) : /\ op'[t] = o /\ goal'[t] = "sleep" /\ pc'[t] \in Sleepy
                           /\ Away(t)' /\ t \notin Range(pending')

LEMMA ReleaseFacts ==
    ASSUME Inv, NEW w \in Seq(Tasks), NEW o, WaitInv(w, o), NEW l \in Nat, Release(w, l),
           pc[cur] \in {"unlockTx", "unlockRx"}, NEW nw, nw = Unserved(w, l),
           NEW x \in Seq(Tasks), NEW ox, WaitInv(x, ox), ox # o
    PROVE  /\ cur' = cur /\ ready' = ready /\ yieldPending' \in BOOLEAN
           /\ yieldPending => yieldPending'
           /\ pending' \in Seq(Tasks) /\ Distinct(pending')
           /\ nw \in Seq(Tasks) /\ Distinct(nw) /\ Range(nw) \subseteq Range(w)
           /\ \A t \in Range(pending') : place[t] # "ready"
           /\ \A t \in Range(nw) \union Range(x) : t \notin Range(pending') /\ place[t] # "ready"
<1>1. PICK a : a = Served(w, l)
  OBVIOUS
<1>2. /\ a \in Seq(Tasks) /\ Distinct(a) /\ nw \in Seq(Tasks) /\ Distinct(nw)
      /\ Range(a) \union Range(nw) = Range(w) /\ Range(a) \intersect Range(nw) = {}
  BY <1>1, ServedFacts DEF WaitInv
<1>3. /\ pending' = pending \o a /\ cur' = cur /\ ready' = ready
      /\ yieldPending' = (yieldPending \/ \E t \in Range(a) : Higher(t))
  BY <1>1 DEF Release
<1>4. /\ pending \in Seq(Tasks) /\ Distinct(pending) /\ yieldPending \in BOOLEAN
      /\ \A t \in Range(pending) : Away(t)
  BY Typed DEF Inv, ListInv, WaitsInv
<1>5. \A t \in Range(w) \union Range(x) : t \notin Range(pending) /\ Away(t)
  BY DEF WaitInv
<1>6. \A t : Away(t) => place[t] # "ready"
  BY DEF Away
<1>7. /\ pending' \in Seq(Tasks) /\ Range(pending') = Range(pending) \union Range(a)
      /\ Distinct(pending')
  <2>1. Range(pending) \intersect Range(a) = {}
    BY <1>2, <1>5
  <2> QED
    BY <1>2, <1>3, <1>4, <2>1, ConcatFacts
<1>8. Range(w) \intersect Range(x) = {}
  BY DEF WaitInv
<1>9. \A t \in Range(nw) \union Range(x) : t \notin Range(pending') /\ place[t] # "ready"
  BY <1>2, <1>5, <1>6, <1>7, <1>8
<1>10. \A t \in Range(pending') : place[t] # "ready"
  BY <1>2, <1>4, <1>5, <1>6, <1>7
<1>11. yieldPending' \in BOOLEAN /\ (yieldPending => yieldPending')
  BY <1>3
<1> QED
  BY <1>2, <1>3, <1>7, <1>9, <1>10, <1>11

LEMMA UnlockTxStep ==
    ASSUME Inv, NEW t \in Tasks, UnlockTx(t)
    PROVE  Inv'
<1>1. /\ cur = t /\ pc[t] = "unlockTx" /\ Goto(t, "unlockRx") /\ txLock' = Unlocked
      /\ Release(waitReceive, txLock) /\ waitReceive' = Unserved(waitReceive, txLock)
      /\ UNCHANGED <<timeVars, messages, waitSend, rxLock, suspended, isrOn>>
  BY DEF UnlockTx, Running
<1>2. /\ t # Idle /\ CallType /\ HoldInv /\ PcOf(t) /\ CallOf(t)
      /\ \A u \in Tasks \ {t} : pc[u] \notin Held
  BY <1>1, RunningFacts
<1>3. /\ place' = place /\ wake' = wake /\ nextUnblock' = nextUnblock /\ ticks' = ticks
      /\ pended' = pended /\ owed' = owed /\ since' = since /\ suspended' = suspended
      /\ rxLock' = rxLock /\ messages' = messages /\ isrOn' = isrOn /\ waitSend' = waitSend
  BY <1>1 DEF timeVars
<1>4. /\ CallType' /\ pc'[t] = "unlockRx" /\ \A u \in Tasks \ {t} : pc'[u] = pc[u]
      /\ op' = op /\ left' = left /\ entered' = entered /\ goal' = goal
  BY <1>1, <1>2, GotoFacts DEF Labels
<1>5. op[t] \notin {"none", "delay"} /\ left[t] >= 1
  BY <1>1, <1>2 DEF PcOf
<1>6. /\ waitSend \in Seq(Tasks) /\ waitReceive \in Seq(Tasks)
      /\ WaitInv(waitSend, "send") /\ WaitInv(waitReceive, "receive")
  BY Typed DEF Inv, ListInv, WaitsInv
<1>7. txLock \in Nat
  <2>1. txLock # Unlocked /\ txLock \in Unlocked .. MaxLock
    BY <1>1, <1>2, Typed DEF HoldInv, TxHeld
  <2> QED
    BY <2>1, KernelAssumption DEF Unlocked
<1>8. /\ cur' = cur /\ ready' = ready /\ yieldPending' \in BOOLEAN
      /\ yieldPending => yieldPending'
      /\ pending' \in Seq(Tasks) /\ Distinct(pending')
      /\ waitReceive' \in Seq(Tasks) /\ Distinct(waitReceive')
      /\ Range(waitReceive') \subseteq Range(waitReceive)
      /\ \A u \in Range(pending') : place[u] # "ready"
      /\ \A u \in Range(waitReceive') \union Range(waitSend) :
             u \notin Range(pending') /\ place[u] # "ready"
  <2>1. PICK nw : nw = Unserved(waitReceive, txLock)
    OBVIOUS
  <2> QED
    BY <1>1, <1>6, <1>7, <2>1, ReleaseFacts
<1>9. /\ Range(waitReceive) \subseteq Tasks /\ Range(waitSend) \subseteq Tasks
      /\ Range(pending') \subseteq Tasks
  BY <1>6, <1>8, RangeOfSeq DEF Range
<1>10. \A u \in Tasks : pc[u] \in Sleepy => pc'[u] \in Sleepy
  BY <1>4 DEF Sleepy
<1>11. WaitInv(waitReceive, "receive")' /\ WaitInv(waitSend, "send")'
  <2>1. ASSUME NEW u \in Range(waitReceive')
        PROVE  /\ op'[u] = "receive" /\ goal'[u] = "sleep" /\ pc'[u] \in Sleepy
               /\ Away(u)' /\ u \notin Range(pending')
    BY <1>3, <1>4, <1>6, <1>8, <1>9, <1>10 DEF WaitInv, Away
  <2>2. ASSUME NEW u \in Range(waitSend)
        PROVE  /\ op'[u] = "send" /\ goal'[u] = "sleep" /\ pc'[u] \in Sleepy
               /\ Away(u)' /\ u \notin Range(pending')
    BY <1>3, <1>4, <1>6, <1>8, <1>9, <1>10 DEF WaitInv, Away
  <2>3. Distinct(waitSend)
    BY <1>6 DEF WaitInv
  <2> QED
    BY <1>3, <1>8, <2>1, <2>2, <2>3 DEF WaitInv
<1>12. WaitsInv'
  BY <1>3, <1>8, <1>11 DEF WaitsInv, Away
<1>13. Types'
  <2>1. SchedType' /\ HoldType'
    BY <1>3, <1>8 DEF Inv, Types, SchedType, HoldType
  <2>2. TimeType'
    BY <1>3 DEF Inv, Types, TimeType
  <2>3. QueueType'
    BY <1>1, <1>3, <1>8, KernelAssumption DEF Inv, Types, QueueType, Unlocked
  <2> QED
    BY <1>4, <2>1, <2>2, <2>3 DEF Types
<1>14. PcInv' /\ CallInv'
  <2>1. PcOf(t)' /\ CallOf(t)'
    BY <1>1, <1>2, <1>3, <1>4, <1>5 DEF PcOf, CallOf, InTime
  <2>2. ASSUME NEW u \in Tasks \ {t} PROVE PcOf(u)' /\ CallOf(u)'
    <3>1. PcOf(u) /\ CallOf(u)
      BY DEF Inv, ListInv, PcInv, CallInv
    <3> QED
      BY <1>3, <1>4, <3>1 DEF PcOf, CallOf, InTime
  <2> QED
    BY <2>1, <2>2 DEF PcInv, CallInv
<1>15. HoldInv'
  BY <1>1, <1>2, <1>3, <1>4, <1>5, <1>8 DEF HoldInv, TxHeld, Held
<1>16. ReadyLists(ready, place)' /\ CurInv' /\ HighInv' /\ IdleInv' /\ DelayInv'
  BY <1>1, <1>2, <1>3, <1>4, <1>8, KernelAssumption
     DEF Inv, ListInv, CurInv, HighInv, IdleInv, DelayInv
<1> QED
  BY <1>12, <1>13, <1>14, <1>15, <1>16 DEF Inv, ListInv

LEMMA UnlockRxStep ==
    ASSUME Inv, NEW t \in Tasks, UnlockRx(t)
    PROVE  Inv'
<1>1. /\ cur = t /\ pc[t] = "unlockRx" /\ Goto(t, "resume") /\ rxLock' = Unlocked
      /\ Release(waitSend, rxLock) /\ waitSend' = Unserved(waitSend, rxLock)
      /\ UNCHANGED <<timeVars, messages, waitReceive, txLock, suspended, isrOn>>
  BY DEF UnlockRx, Running
<1>2. /\ t # Idle /\ CallType /\ HoldInv /\ PcOf(t) /\ CallOf(t)
      /\ \A u \in Tasks \ {t} : pc[u] \notin Held
  BY <1>1, RunningFacts
<1>3. /\ place' = place /\ wake' = wake /\ nextUnblock' = nextUnblock /\ ticks' = ticks
      /\ pended' = pended /\ owed' = owed /\ since' = since /\ suspended' = suspended
      /\ txLock' = txLock /\ messages' = messages /\ isrOn' = isrOn /\ waitReceive' = waitReceive
  BY <1>1 DEF timeVars
<1>4. /\ CallType' /\ pc'[t] = "resume" /\ \A u \in Tasks \ {t} : pc'[u] = pc[u]
      /\ op' = op /\ left' = left /\ entered' = entered /\ goal' = goal
  BY <1>1, <1>2, GotoFacts DEF Labels
<1>5. op[t] \notin {"none", "delay"} /\ left[t] >= 1
  BY <1>1, <1>2 DEF PcOf
<1>6. /\ waitSend \in Seq(Tasks) /\ waitReceive \in Seq(Tasks)
      /\ WaitInv(waitSend, "send") /\ WaitInv(waitReceive, "receive")
  BY Typed DEF Inv, ListInv, WaitsInv
<1>7. rxLock \in Nat
  <2>1. rxLock # Unlocked /\ rxLock \in Unlocked .. MaxLock
    BY <1>1, <1>2, Typed DEF HoldInv, TxHeld
  <2> QED
    BY <2>1, KernelAssumption DEF Unlocked
<1>8. /\ cur' = cur /\ ready' = ready /\ yieldPending' \in BOOLEAN
      /\ yieldPending => yieldPending'
      /\ pending' \in Seq(Tasks) /\ Distinct(pending')
      /\ waitSend' \in Seq(Tasks) /\ Distinct(waitSend')
      /\ Range(waitSend') \subseteq Range(waitSend)
      /\ \A u \in Range(pending') : place[u] # "ready"
      /\ \A u \in Range(waitSend') \union Range(waitReceive) :
             u \notin Range(pending') /\ place[u] # "ready"
  <2>1. PICK nw : nw = Unserved(waitSend, rxLock)
    OBVIOUS
  <2> QED
    BY <1>1, <1>6, <1>7, <2>1, ReleaseFacts
<1>9. /\ Range(waitReceive) \subseteq Tasks /\ Range(waitSend) \subseteq Tasks
      /\ Range(pending') \subseteq Tasks
  BY <1>6, <1>8, RangeOfSeq DEF Range
<1>10. \A u \in Tasks : pc[u] \in Sleepy => pc'[u] \in Sleepy
  BY <1>4 DEF Sleepy
<1>11. WaitInv(waitReceive, "receive")' /\ WaitInv(waitSend, "send")'
  <2>1. ASSUME NEW u \in Range(waitReceive)
        PROVE  /\ op'[u] = "receive" /\ goal'[u] = "sleep" /\ pc'[u] \in Sleepy
               /\ Away(u)' /\ u \notin Range(pending')
    BY <1>3, <1>4, <1>6, <1>8, <1>9, <1>10 DEF WaitInv, Away
  <2>2. ASSUME NEW u \in Range(waitSend')
        PROVE  /\ op'[u] = "send" /\ goal'[u] = "sleep" /\ pc'[u] \in Sleepy
               /\ Away(u)' /\ u \notin Range(pending')
    BY <1>3, <1>4, <1>6, <1>8, <1>9, <1>10 DEF WaitInv, Away
  <2>3. Distinct(waitReceive)
    BY <1>6 DEF WaitInv
  <2> QED
    BY <1>3, <1>8, <2>1, <2>2, <2>3 DEF WaitInv
<1>12. WaitsInv'
  BY <1>3, <1>8, <1>11 DEF WaitsInv, Away
<1>13. Types'
  <2>1. SchedType' /\ HoldType'
    BY <1>3, <1>8 DEF Inv, Types, SchedType, HoldType
  <2>2. TimeType'
    BY <1>3 DEF Inv, Types, TimeType
  <2>3. QueueType'
    BY <1>1, <1>3, <1>8, KernelAssumption DEF Inv, Types, QueueType, Unlocked
  <2> QED
    BY <1>4, <2>1, <2>2, <2>3 DEF Types
<1>14. PcInv' /\ CallInv'
  <2>1. PcOf(t)' /\ CallOf(t)'
    BY <1>1, <1>2, <1>3, <1>4, <1>5 DEF PcOf, CallOf, InTime
  <2>2. ASSUME NEW u \in Tasks \ {t} PROVE PcOf(u)' /\ CallOf(u)'
    <3>1. PcOf(u) /\ CallOf(u)
      BY DEF Inv, ListInv, PcInv, CallInv
    <3> QED
      BY <1>3, <1>4, <3>1 DEF PcOf, CallOf, InTime
  <2> QED
    BY <2>1, <2>2 DEF PcInv, CallInv
<1>15. HoldInv'
  BY <1>1, <1>2, <1>3, <1>4, <1>5, <1>8 DEF HoldInv, TxHeld, Held
<1>16. ReadyLists(ready, place)' /\ CurInv' /\ HighInv' /\ IdleInv' /\ DelayInv'
  BY <1>1, <1>2, <1>3, <1>4, <1>8, KernelAssumption
     DEF Inv, ListInv, CurInv, HighInv, IdleInv, DelayInv
<1> QED
  BY <1>12, <1>13, <1>14, <1>15, <1>16 DEF Inv, ListInv

-----------------------------------------------------------------------------
(* The calls and the handlers that send or receive, and wake a waiting task.  *)

(* What they share: w and x are the event lists, nw is what is left of the    *)
(* first, and R holds the task whose call returns, or none.                  *)
Rousing(w, o, x, ox, y, nw, R) ==
    /\ w \in Seq(Tasks) /\ WaitInv(w, o) /\ x \in Seq(Tasks) /\ WaitInv(x, ox) /\ ox # o
    /\ y \in BOOLEAN /\ Rouse(w, y) /\ nw = Rest(w)
    /\ R \subseteq Tasks
    /\ \A t \in R : /\ cur = t /\ t # Idle /\ place[t] = "ready" /\ pc[t] \in {"first", "try"}
                    /\ pc'[t] = "run" /\ op'[t] = "none" /\ goal'[t] = "retry"
    /\ \A u \in Tasks \ R : /\ pc'[u] = pc[u] /\ op'[u] = op[u] /\ left'[u] = left[u]
                            /\ entered'[u] = entered[u] /\ goal'[u] = goal[u]
                            /\ owed'[u] = owed[u] /\ since'[u] = since[u]
    /\ CallType' /\ owed' \in [Tasks -> 0 .. Forever] /\ since' \in [Tasks -> 0 .. Width]
    /\ UNCHANGED <<nextUnblock, ticks, pended, suspended>>
    /\ (txLock' # Unlocked <=> txLock # Unlocked) /\ (rxLock' # Unlocked <=> rxLock # Unlocked)
    /\ isrOn' \in Tasks \union {None}

LEMMA RouseStep ==
    ASSUME Inv, NEW w, NEW o, NEW x, NEW ox, NEW y, NEW nw, NEW R,
           Rousing(w, o, x, ox, y, nw, R)
    PROVE  /\ Waiting(nw, o) /\ Waiting(x, ox)
           /\ SchedType' /\ TimeType' /\ CallType' /\ HoldType'
           /\ ReadyLists(ready, place)' /\ Distinct(pending)' /\ (\A t \in Range(pending) : Away(t))'
           /\ HoldInv' /\ CurInv' /\ PcInv' /\ IdleInv' /\ HighInv' /\ DelayInv' /\ CallInv'
<1> USE DEF Rousing
<1>1. /\ cur \in Tasks /\ yieldPending \in BOOLEAN /\ place \in [Tasks -> Places]
      /\ wake \in [Tasks -> 0 .. Width - 1] /\ nextUnblock \in 0 .. Width - 1
      /\ ticks \in 0 .. Width * Epochs - 1 /\ pended \in 0 .. MaxPended
      /\ pending \in Seq(Tasks) /\ suspended \in {0, 1} /\ suspended \in 0 .. 1
  BY Typed
<1>2. /\ cur' \in Tasks /\ yieldPending' \in BOOLEAN
      /\ place' \in [Tasks -> Places] /\ wake' \in [Tasks -> 0 .. Width - 1]
      /\ pending' \in Seq(Tasks) /\ Distinct(pending')
      /\ ReadyLists(ready', place')
      /\ w = <<>> => place' = place /\ wake' = wake /\ pending' = pending
      /\ w # <<>> /\ suspended = 0 =>
           /\ pending' = pending
           /\ \A t \in Tasks : /\ place'[t] = IF t = Head(w) THEN "ready" ELSE place[t]
                               /\ wake'[t] = IF t = Head(w) THEN 0 ELSE wake[t]
      /\ w # <<>> /\ suspended = 1 =>
           /\ place' = place /\ wake' = wake
           /\ Range(pending') = Range(pending) \union {Head(w)}
      /\ cur' # cur => suspended = 0 /\ place'[cur'] = "ready"
      /\ yieldPending' \/ \A t \in Tasks : place'[t] = "ready" => Priority[t] <= Priority[cur']
  BY RouseFacts
<1>3. /\ nextUnblock' = nextUnblock /\ ticks' = ticks /\ pended' = pended /\ suspended' = suspended
  OBVIOUS
<1>4. /\ HoldInv /\ CurInv /\ IdleInv /\ Distinct(pending) /\ \A t \in Range(pending) : Away(t)
  BY DEF Inv, ListInv, WaitsInv
<1>5. /\ Range(w) \subseteq Tasks /\ Range(x) \subseteq Tasks
      /\ Range(w) \intersect Range(x) = {} /\ Range(pending) \subseteq Tasks
      /\ (Range(w) \union Range(x) \union Range(pending)) \intersect R = {}
  <2>1. /\ Range(w) \subseteq Tasks /\ Range(x) \subseteq Tasks /\ Range(pending) \subseteq Tasks
    BY <1>1, RangeOfSeq DEF Range
  <2>2. Range(w) \intersect Range(x) = {}
    <3> HIDE DEF Rousing
    <3>1. WaitInv(w, o) /\ WaitInv(x, ox) /\ ox # o
      BY DEF Rousing
    <3>2. (\A t \in Range(w) : op[t] = o) /\ (\A t \in Range(x) : op[t] = ox)
      BY <3>1 DEF WaitInv
    <3> QED
      BY ONLY <3>1, <3>2
  <2>3. ASSUME NEW t \in R PROVE ~Away(t)
    <3>1. place[t] = "ready" /\ pc[t] # "block"
      OBVIOUS
    <3> QED
      BY <3>1 DEF Away
  <2> QED
    BY <1>4, <2>1, <2>2, <2>3 DEF WaitInv
<1>6. /\ nw \in Seq(Tasks) /\ Distinct(nw) /\ Range(nw) \subseteq Range(w)
      /\ w # <<>> => Head(w) \in Range(w) /\ Head(w) \notin Range(nw)
  <2>1. CASE w = <<>>
    BY <2>1 DEF Rest, WaitInv
  <2>2. CASE w # <<>>
    <3>1. nw = Tail(w) /\ Distinct(w)
      BY <2>2 DEF Rest, WaitInv
    <3> QED
      BY <2>2, <3>1, TailFacts, HeadTailProperties
  <2> QED
    BY <2>1, <2>2
<1>7. \A t \in R : cur = t /\ suspended = 0 /\ place[t] = "ready" /\ pc[t] \notin Held
  BY <1>1, <1>4 DEF HoldInv, Held
<1>8. \A t \in Tasks : pc'[t] \in Held <=> pc[t] \in Held
  BY <1>7 DEF Held
<1>9. cur' # cur => pc[cur] \notin Held /\ suspended = 0
  BY <1>2, <1>4 DEF HoldInv
<1>10. ASSUME NEW t \in Tasks, Away(t), w # <<>> => t # Head(w) PROVE Away(t)'
  <2>1. t \notin R
    BY <1>10 DEF Away
  <2>2. pc'[t] = pc[t]
    BY <2>1
  <2>3. place'[t] = place[t]
    BY <1>1, <1>2, <1>10
  <2>4. t = cur /\ pc[t] = "block" => cur' = cur
    BY <1>9 DEF Held
  <2> QED
    BY <1>10, <2>2, <2>3, <2>4 DEF Away
<1>11. \A t \in Range(pending') : Away(t)'
  <2>1. CASE w # <<>> /\ suspended = 1
    <3>1. Range(pending') = Range(pending) \union {Head(w)} /\ place' = place /\ cur' = cur
      BY <1>2, <1>9, <2>1
    <3>2. \A t \in Range(pending) \union Range(w) : Away(t)
      BY <1>4 DEF WaitInv
    <3>3. ASSUME NEW t \in Range(pending) \union Range(w) PROVE Away(t)'
      <4>1. pc'[t] = pc[t] /\ Away(t)
        BY <1>5, <3>2
      <4> QED
        BY <3>1, <4>1 DEF Away
    <3> QED
      BY <1>6, <2>1, <3>1, <3>3
  <2>2. CASE w = <<>>
    BY <1>2, <1>4, <1>5, <1>10, <2>2
  <2>3. CASE w # <<>> /\ suspended = 0
    <3>1. pending' = <<>>
      BY <1>2, <1>4, <2>3 DEF HoldInv
    <3>2. Range(pending') = {}
      BY <3>1, EmptyFacts
    <3> QED
      BY <3>2
  <2> QED
    BY <1>1, <2>1, <2>2, <2>3
<1>12. ASSUME NEW t \in Range(nw) \union Range(x) PROVE Away(t)' /\ t \notin Range(pending')
  <2>1. t \in Tasks /\ (w # <<>> => t # Head(w)) /\ Away(t) /\ t \notin Range(pending)
    BY <1>5, <1>6 DEF WaitInv
  <2> QED
    BY <1>1, <1>2, <1>10, <2>1
<1>13. Waiting(nw, o) /\ Waiting(x, ox)
  <2>1. ASSUME NEW t \in Range(nw)
        PROVE  op'[t] = o /\ goal'[t] = "sleep" /\ pc'[t] \in Sleepy
    <3>1. t \in Range(w) /\ t \in Tasks \ R
      BY <1>5, <1>6
    <3> QED
      BY <3>1 DEF WaitInv
  <2>2. ASSUME NEW t \in Range(x)
        PROVE  op'[t] = ox /\ goal'[t] = "sleep" /\ pc'[t] \in Sleepy
    <3>1. t \in Tasks \ R
      BY <1>5
    <3> QED
      BY <3>1 DEF WaitInv
  <2>3. Distinct(x)
    BY DEF WaitInv
  <2> QED
    BY <1>6, <1>12, <2>1, <2>2, <2>3 DEF Waiting
<1>14. SchedType' /\ TimeType' /\ HoldType'
  BY <1>1, <1>2, <1>3 DEF SchedType, TimeType, HoldType
<1>15. HoldInv'
  <2>1. suspended' = 1 <=> pc'[cur'] \in Held
    BY <1>1, <1>2, <1>3, <1>4, <1>8, <1>9 DEF HoldInv
  <2>2. \A t \in Tasks : pc'[t] \in Held => t = cur'
    BY <1>4, <1>8, <1>9 DEF HoldInv
  <2>3. suspended' = 0 => pended' = 0 /\ pending' = <<>>
    BY <1>1, <1>2, <1>3, <1>4 DEF HoldInv
  <2>4. pc'[cur'] \in Held => cur' = cur /\ cur \in Tasks \ R
    BY <1>1, <1>2, <1>4, <1>7, <1>8, <1>9 DEF HoldInv
  <2>5. /\ TxHeld' => pc'[cur'] \in Held
        /\ pc'[cur'] = "unlockRx" => pc'[cur'] \in Held
        /\ TxHeld => pc[cur] \in Held
        /\ pc[cur] = "unlockRx" => pc[cur] \in Held
    BY DEF TxHeld, Held
  <2>6. TxHeld' <=> TxHeld
    <3>1. CASE pc'[cur'] \in Held
      BY <2>4, <3>1 DEF TxHeld
    <3>2. CASE pc'[cur'] \notin Held
      <4>1. pc[cur] \notin Held
        BY <1>1, <1>8, <1>9, <3>2
      <4> QED
        BY <2>5, <3>2, <4>1
    <3> QED
      BY <3>1, <3>2
  <2>7. pc'[cur'] = "unlockRx" <=> pc[cur] = "unlockRx"
    <3>1. CASE pc'[cur'] \in Held
      BY <2>4, <3>1
    <3>2. CASE pc'[cur'] \notin Held
      <4>1. pc[cur] \notin Held
        BY <1>1, <1>8, <1>9, <3>2
      <4> QED
        BY <2>5, <3>2, <4>1
    <3> QED
      BY <3>1, <3>2
  <2> QED
    BY <1>4, <2>1, <2>2, <2>3, <2>6, <2>7 DEF HoldInv
<1>16. \A t \in Tasks : place[t] = "ready" => place'[t] = "ready"
  BY <1>1, <1>2
<1>17. CurInv'
  <2>1. CASE cur' # cur
    BY <1>2, <2>1 DEF CurInv
  <2>2. CASE cur' = cur /\ place'[cur] = "ready"
    BY <2>2 DEF CurInv
  <2>3. CASE cur' = cur /\ place'[cur] # "ready"
    <3>1. place[cur] # "ready" /\ cur \in Tasks \ R
      BY <1>1, <1>7, <1>16, <2>3
    <3> QED
      BY <1>4, <2>3, <3>1 DEF CurInv
  <2> QED
    BY <2>1, <2>2, <2>3
<1>18. IdleInv' /\ HighInv'
  BY <1>2, <1>4, <1>16, KernelAssumption DEF IdleInv, HighInv
<1>19. PcInv' /\ CallInv'
  <2>1. ASSUME NEW u \in R PROVE PcOf(u)' /\ CallOf(u)'
    BY ReturnedOf
  <2>2. ASSUME NEW u \in Tasks \ R PROVE PcOf(u)' /\ CallOf(u)'
    <3>1. PcOf(u) /\ CallOf(u)
      BY DEF Inv, ListInv, PcInv, CallInv
    <3> QED
      BY <1>3, <3>1 DEF PcOf, CallOf, InTime
  <2> QED
    BY <2>1, <2>2 DEF PcInv, CallInv
<1>20. DelayInv'
  <2>1. ASSUME NEW t \in Tasks
        PROVE  /\ place'[t] = "delayed" => /\ Count(ticks) < wake'[t] /\ nextUnblock <= wake'[t]
                                           /\ owed'[t] = wake'[t] - Count(ticks)
               /\ place'[t] = "overflow" => /\ wake'[t] < Count(ticks)
                                            /\ owed'[t] = wake'[t] - Count(ticks) + Width
    <3>1. CASE place'[t] = "ready"
      BY <3>1
    <3>2. CASE place'[t] # "ready"
      <4>1. t \notin R /\ place'[t] = place[t] /\ wake'[t] = wake[t]
        BY <1>1, <1>2, <1>7, <1>16, <3>2
      <4>2. owed'[t] = owed[t]
        BY <4>1
      <4> QED
        BY <4>1, <4>2 DEF Inv, DelayInv, Delays
    <3> QED
      BY <3>1, <3>2
  <2> QED
    BY <1>3, <2>1 DEF DelayInv, Delays
<1> QED
  BY <1>2, <1>11, <1>13, <1>14, <1>15, <1>17, <1>18, <1>19, <1>20

LEMMA SendStep ==
    ASSUME Inv, NEW t \in Tasks, Send(t)
    PROVE  Inv'
<1>1. /\ cur = t /\ pc[t] \in {"first", "try"} /\ messages < Length /\ messages' = messages + 1
      /\ Rouse(waitReceive, TRUE) /\ waitReceive' = Rest(waitReceive) /\ Return(t)
      /\ owed' = [owed EXCEPT ![t] = 0] /\ since' = [since EXCEPT ![t] = 0]
      /\ UNCHANGED <<nextUnblock, ticks, pended, waitSend, txLock, rxLock, suspended, isrOn>>
  BY DEF Send, Trying, Running, Room
<1>2. t # Idle /\ CallType /\ place[t] = "ready"
  BY <1>1, RunningFacts
<1>3. /\ owed \in [Tasks -> 0 .. Forever] /\ since \in [Tasks -> 0 .. Width]
      /\ messages \in 0 .. Length /\ waitSend \in Seq(Tasks) /\ waitReceive \in Seq(Tasks)
      /\ txLock \in Unlocked .. MaxLock /\ rxLock \in Unlocked .. MaxLock
  BY Typed
<1>4. /\ CallType' /\ pc'[t] = "run" /\ op'[t] = "none" /\ goal'[t] = "retry"
      /\ \A u \in Tasks \ {t} : /\ pc'[u] = pc[u] /\ op'[u] = op[u] /\ left'[u] = left[u]
                                /\ entered'[u] = entered[u] /\ goal'[u] = goal[u]
  BY <1>1, <1>2, ReturnFacts
<1>5. /\ owed' \in [Tasks -> 0 .. Forever] /\ since' \in [Tasks -> 0 .. Width]
      /\ \A u \in Tasks \ {t} : owed'[u] = owed[u] /\ since'[u] = since[u]
  <2>1. 0 \in 0 .. Forever /\ 0 \in 0 .. Width
    BY CountType
  <2> QED
    BY <1>1, <1>3, <2>1
<1>6. WaitInv(waitSend, "send") /\ WaitInv(waitReceive, "receive") /\ HoldType
  BY DEF Inv, Types, ListInv, WaitsInv
<1>7. PICK R \in SUBSET Tasks : R = {t}
  OBVIOUS
<1>8. PICK nw : nw = Rest(waitReceive)
  OBVIOUS
<1>y. PICK y \in BOOLEAN : Rouse(waitReceive, y)
  BY <1>1
<1>9. \A u \in R : /\ cur = u /\ u # Idle /\ place[u] = "ready" /\ pc[u] \in {"first", "try"}
                   /\ pc'[u] = "run" /\ op'[u] = "none" /\ goal'[u] = "retry"
  BY <1>1, <1>2, <1>4, <1>7
<1>10. \A u \in Tasks \ R : /\ pc'[u] = pc[u] /\ op'[u] = op[u] /\ left'[u] = left[u]
                            /\ entered'[u] = entered[u] /\ goal'[u] = goal[u]
                            /\ owed'[u] = owed[u] /\ since'[u] = since[u]
  BY <1>4, <1>5, <1>7
<1>11. /\ UNCHANGED <<nextUnblock, ticks, pended, suspended>> /\ isrOn' \in Tasks \union {None}
       /\ (txLock' # Unlocked <=> txLock # Unlocked) /\ (rxLock' # Unlocked <=> rxLock # Unlocked)
  BY <1>1, <1>6 DEF HoldType
<1>z. Rousing(waitReceive, "receive", waitSend, "send", y, nw, R)
  BY <1>1, <1>3, <1>4, <1>5, <1>6, <1>8, <1>9, <1>10, <1>11, <1>y DEF Rousing
<1>12. /\ Waiting(nw, "receive") /\ Waiting(waitSend, "send")
       /\ SchedType' /\ TimeType' /\ CallType' /\ HoldType'
       /\ ReadyLists(ready, place)' /\ Distinct(pending)' /\ (\A u \in Range(pending) : Away(u))'
       /\ HoldInv' /\ CurInv' /\ PcInv' /\ IdleInv' /\ HighInv' /\ DelayInv' /\ CallInv'
  BY <1>z, RouseStep
<1>13. QueueType'
  BY <1>1, <1>3, <1>8, <1>12, KernelAssumption DEF QueueType, Waiting
<1>14. WaitsInv'
  BY <1>1, <1>8, <1>12 DEF Waiting, WaitsInv, WaitInv
<1> QED
  BY <1>12, <1>13, <1>14 DEF Inv, Types, ListInv

LEMMA ReceiveStep ==
    ASSUME Inv, NEW t \in Tasks, Receive(t)
    PROVE  Inv'
<1>1. /\ cur = t /\ pc[t] \in {"first", "try"} /\ messages > 0 /\ messages' = messages - 1
      /\ Rouse(waitSend, TRUE) /\ waitSend' = Rest(waitSend) /\ Return(t)
      /\ owed' = [owed EXCEPT ![t] = 0] /\ since' = [since EXCEPT ![t] = 0]
      /\ UNCHANGED <<nextUnblock, ticks, pended, waitReceive, txLock, rxLock, suspended, isrOn>>
  BY DEF Receive, Trying, Running, Room
<1>2. t # Idle /\ CallType /\ place[t] = "ready"
  BY <1>1, RunningFacts
<1>3. /\ owed \in [Tasks -> 0 .. Forever] /\ since \in [Tasks -> 0 .. Width]
      /\ messages \in 0 .. Length /\ waitSend \in Seq(Tasks) /\ waitReceive \in Seq(Tasks)
      /\ txLock \in Unlocked .. MaxLock /\ rxLock \in Unlocked .. MaxLock
  BY Typed
<1>4. /\ CallType' /\ pc'[t] = "run" /\ op'[t] = "none" /\ goal'[t] = "retry"
      /\ \A u \in Tasks \ {t} : /\ pc'[u] = pc[u] /\ op'[u] = op[u] /\ left'[u] = left[u]
                                /\ entered'[u] = entered[u] /\ goal'[u] = goal[u]
  BY <1>1, <1>2, ReturnFacts
<1>5. /\ owed' \in [Tasks -> 0 .. Forever] /\ since' \in [Tasks -> 0 .. Width]
      /\ \A u \in Tasks \ {t} : owed'[u] = owed[u] /\ since'[u] = since[u]
  <2>1. 0 \in 0 .. Forever /\ 0 \in 0 .. Width
    BY CountType
  <2> QED
    BY <1>1, <1>3, <2>1
<1>6. WaitInv(waitSend, "send") /\ WaitInv(waitReceive, "receive") /\ HoldType
  BY DEF Inv, Types, ListInv, WaitsInv
<1>7. PICK R \in SUBSET Tasks : R = {t}
  OBVIOUS
<1>8. PICK nw : nw = Rest(waitSend)
  OBVIOUS
<1>y. PICK y \in BOOLEAN : Rouse(waitSend, y)
  BY <1>1
<1>9. \A u \in R : /\ cur = u /\ u # Idle /\ place[u] = "ready" /\ pc[u] \in {"first", "try"}
                   /\ pc'[u] = "run" /\ op'[u] = "none" /\ goal'[u] = "retry"
  BY <1>1, <1>2, <1>4, <1>7
<1>10. \A u \in Tasks \ R : /\ pc'[u] = pc[u] /\ op'[u] = op[u] /\ left'[u] = left[u]
                            /\ entered'[u] = entered[u] /\ goal'[u] = goal[u]
                            /\ owed'[u] = owed[u] /\ since'[u] = since[u]
  BY <1>4, <1>5, <1>7
<1>11. /\ UNCHANGED <<nextUnblock, ticks, pended, suspended>> /\ isrOn' \in Tasks \union {None}
       /\ (txLock' # Unlocked <=> txLock # Unlocked) /\ (rxLock' # Unlocked <=> rxLock # Unlocked)
  BY <1>1, <1>6 DEF HoldType
<1>z. Rousing(waitSend, "send", waitReceive, "receive", y, nw, R)
  BY <1>1, <1>3, <1>4, <1>5, <1>6, <1>8, <1>9, <1>10, <1>11, <1>y DEF Rousing
<1>12. /\ Waiting(nw, "send") /\ Waiting(waitReceive, "receive")
       /\ SchedType' /\ TimeType' /\ CallType' /\ HoldType'
       /\ ReadyLists(ready, place)' /\ Distinct(pending)' /\ (\A u \in Range(pending) : Away(u))'
       /\ HoldInv' /\ CurInv' /\ PcInv' /\ IdleInv' /\ HighInv' /\ DelayInv' /\ CallInv'
  BY <1>z, RouseStep
<1>13. QueueType'
  BY SMTT(30), <1>1, <1>3, <1>8, <1>12, KernelAssumption DEF QueueType, Waiting
<1>14. WaitsInv'
  BY <1>1, <1>8, <1>12 DEF Waiting, WaitsInv, WaitInv
<1> QED
  BY <1>12, <1>13, <1>14 DEF Inv, Types, ListInv

(* A step that leaves the lists and the calls alone: of an interrupt handler  *)
(* that counts in a lock, or that returns, or of a tick that is pended.       *)
LEMMA QuietStep ==
    ASSUME Inv, UNCHANGED <<cur, ready, place, wake, nextUnblock, ticks, owed, since,
                            waitSend, waitReceive, callVars, suspended, pending>>,
           yieldPending' \in BOOLEAN, yieldPending => yieldPending',
           pended' \in 0 .. MaxPended, suspended = 0 => pended' = pended,
           isrOn' \in Tasks \union {None},
           messages' \in 0 .. Length, txLock' \in Unlocked .. MaxLock,
           rxLock' \in Unlocked .. MaxLock,
           txLock' # Unlocked <=> txLock # Unlocked, rxLock' # Unlocked <=> rxLock # Unlocked
    PROVE  Inv'
<1>1. /\ cur' = cur /\ ready' = ready /\ place' = place
      /\ wake' = wake /\ nextUnblock' = nextUnblock /\ ticks' = ticks
      /\ owed' = owed /\ since' = since /\ waitSend' = waitSend /\ waitReceive' = waitReceive
      /\ pc' = pc /\ op' = op /\ left' = left /\ entered' = entered /\ goal' = goal
      /\ suspended' = suspended /\ pending' = pending
  BY DEF callVars
<1>2. Types'
  BY <1>1 DEF Inv, Types, SchedType, TimeType, QueueType, CallType, HoldType
<1>3. WaitsInv'
  BY <1>1 DEF Inv, ListInv, WaitsInv, WaitInv, Away
<1>4. HoldInv'
  BY <1>1 DEF Inv, ListInv, HoldInv, TxHeld
<1>5. PcInv' /\ CallInv'
  <2>1. ASSUME NEW u \in Tasks PROVE PcOf(u)' /\ CallOf(u)'
    <3>1. PcOf(u) /\ CallOf(u)
      BY DEF Inv, ListInv, PcInv, CallInv
    <3> QED
      BY <1>1, <3>1 DEF PcOf, CallOf, InTime
  <2> QED
    BY <2>1 DEF PcInv, CallInv
<1>6. ReadyLists(ready, place)' /\ CurInv' /\ HighInv' /\ IdleInv' /\ DelayInv'
  BY <1>1 DEF Inv, ListInv, CurInv, HighInv, IdleInv, DelayInv
<1> QED
  BY <1>2, <1>3, <1>4, <1>5, <1>6 DEF Inv, ListInv

LEMMA IsrSendStep ==
    ASSUME Inv, IsrSend
    PROVE  Inv'
<1>1. /\ messages < Length /\ messages' = messages + 1 /\ txLock < MaxLock
      /\ UNCHANGED <<nextUnblock, ticks, pended, owed, since, waitSend, rxLock, callVars, suspended>>
      /\ isrOn = None /\ isrOn' = IF cur' # cur THEN cur ELSE None
  BY DEF IsrSend, Room
<1>2. /\ cur \in Tasks /\ owed \in [Tasks -> 0 .. Forever] /\ since \in [Tasks -> 0 .. Width]
      /\ messages \in 0 .. Length /\ waitSend \in Seq(Tasks) /\ waitReceive \in Seq(Tasks)
      /\ txLock \in Unlocked .. MaxLock /\ rxLock \in Unlocked .. MaxLock
  BY Typed
<1>3. /\ WaitInv(waitSend, "send") /\ WaitInv(waitReceive, "receive") /\ HoldType /\ CallType
  BY DEF Inv, Types, ListInv, WaitsInv
<1>4. /\ pc' = pc /\ op' = op /\ left' = left /\ entered' = entered /\ goal' = goal
      /\ owed' = owed /\ since' = since /\ waitSend' = waitSend /\ rxLock' = rxLock
  BY <1>1 DEF callVars
<1>5. messages' \in 0 .. Length
  BY <1>1, <1>2, KernelAssumption
<1>6. CASE TaskApi \/ txLock = Unlocked
  <2>1. Rouse(waitReceive, TRUE) /\ waitReceive' = Rest(waitReceive) /\ txLock' = txLock
    BY <1>6 DEF IsrSend
  <2>2. PICK nw : nw = Rest(waitReceive)
    OBVIOUS
  <2>y. PICK y \in BOOLEAN : Rouse(waitReceive, y)
    BY <2>1
  <2>3. PICK R \in SUBSET Tasks : R = {}
    OBVIOUS
  <2>4. /\ CallType' /\ owed' \in [Tasks -> 0 .. Forever] /\ since' \in [Tasks -> 0 .. Width]
        /\ \A u \in R : /\ cur = u /\ u # Idle /\ place[u] = "ready" /\ pc[u] \in {"first", "try"}
                        /\ pc'[u] = "run" /\ op'[u] = "none" /\ goal'[u] = "retry"
        /\ \A u \in Tasks \ R : /\ pc'[u] = pc[u] /\ op'[u] = op[u] /\ left'[u] = left[u]
                                /\ entered'[u] = entered[u] /\ goal'[u] = goal[u]
                                /\ owed'[u] = owed[u] /\ since'[u] = since[u]
    BY <1>2, <1>3, <1>4, <2>3 DEF CallType
  <2>5. /\ UNCHANGED <<nextUnblock, ticks, pended, suspended>>
        /\ isrOn' \in Tasks \union {None}
        /\ (txLock' # Unlocked <=> txLock # Unlocked) /\ (rxLock' # Unlocked <=> rxLock # Unlocked)
    BY <1>1, <1>2, <1>3, <1>4, <2>1 DEF HoldType
  <2>z. Rousing(waitReceive, "receive", waitSend, "send", y, nw, R)
    BY <1>2, <1>3, <2>1, <2>2, <2>4, <2>5, <2>y DEF Rousing
  <2>6. /\ Waiting(nw, "receive") /\ Waiting(waitSend, "send")
        /\ SchedType' /\ TimeType' /\ CallType' /\ HoldType'
        /\ ReadyLists(ready, place)' /\ Distinct(pending)' /\ (\A u \in Range(pending) : Away(u))'
        /\ HoldInv' /\ CurInv' /\ PcInv' /\ IdleInv' /\ HighInv' /\ DelayInv' /\ CallInv'
    BY <2>z, RouseStep
  <2>7. QueueType'
    BY <1>2, <1>4, <1>5, <2>1, <2>2, <2>6 DEF QueueType, Waiting
  <2>8. WaitsInv'
    BY <1>4, <2>1, <2>2, <2>6 DEF Waiting, WaitsInv, WaitInv
  <2> QED
    BY <2>6, <2>7, <2>8 DEF Inv, Types, ListInv
<1>7. CASE ~(TaskApi \/ txLock = Unlocked)
  <2>1. /\ txLock' = txLock + 1 /\ txLock # Unlocked
        /\ UNCHANGED <<schedVars, place, wake, pending, waitReceive>>
    BY <1>7 DEF IsrSend
  <2>2. txLock \in Nat /\ txLock' \in Unlocked .. MaxLock /\ txLock' # Unlocked
    BY <1>1, <1>2, <2>1, KernelAssumption DEF Unlocked
  <2>3. isrOn' = isrOn
    BY <1>1, <2>1 DEF IsrSend, schedVars
  <2> QED
    BY <1>1, <1>2, <1>3, <1>4, <1>5, <2>1, <2>2, <2>3, Typed, QuietStep DEF schedVars, HoldType
<1> QED
  BY <1>6, <1>7

LEMMA IsrReceiveStep ==
    ASSUME Inv, IsrReceive
    PROVE  Inv'
<1>1. /\ messages > 0 /\ messages' = messages - 1 /\ rxLock < MaxLock
      /\ UNCHANGED <<nextUnblock, ticks, pended, owed, since, waitReceive, txLock, callVars, suspended>>
      /\ isrOn' = isrOn
  BY DEF IsrReceive, Room
<1>2. /\ cur \in Tasks /\ owed \in [Tasks -> 0 .. Forever] /\ since \in [Tasks -> 0 .. Width]
      /\ messages \in 0 .. Length /\ waitSend \in Seq(Tasks) /\ waitReceive \in Seq(Tasks)
      /\ txLock \in Unlocked .. MaxLock /\ rxLock \in Unlocked .. MaxLock
  BY Typed
<1>3. /\ WaitInv(waitSend, "send") /\ WaitInv(waitReceive, "receive") /\ HoldType /\ CallType
  BY DEF Inv, Types, ListInv, WaitsInv
<1>4. /\ pc' = pc /\ op' = op /\ left' = left /\ entered' = entered /\ goal' = goal
      /\ owed' = owed /\ since' = since /\ waitReceive' = waitReceive /\ txLock' = txLock
  BY <1>1 DEF callVars
<1>5. messages' \in 0 .. Length
  BY <1>1, <1>2, KernelAssumption
<1>6. CASE rxLock = Unlocked
  <2>1. Rouse(waitSend, FALSE) /\ waitSend' = Rest(waitSend) /\ rxLock' = rxLock
    BY <1>6 DEF IsrReceive
  <2>2. PICK nw : nw = Rest(waitSend)
    OBVIOUS
  <2>y. PICK y \in BOOLEAN : Rouse(waitSend, y)
    BY <2>1
  <2>3. PICK R \in SUBSET Tasks : R = {}
    OBVIOUS
  <2>4. /\ CallType' /\ owed' \in [Tasks -> 0 .. Forever] /\ since' \in [Tasks -> 0 .. Width]
        /\ \A u \in R : /\ cur = u /\ u # Idle /\ place[u] = "ready" /\ pc[u] \in {"first", "try"}
                        /\ pc'[u] = "run" /\ op'[u] = "none" /\ goal'[u] = "retry"
        /\ \A u \in Tasks \ R : /\ pc'[u] = pc[u] /\ op'[u] = op[u] /\ left'[u] = left[u]
                                /\ entered'[u] = entered[u] /\ goal'[u] = goal[u]
                                /\ owed'[u] = owed[u] /\ since'[u] = since[u]
    BY <1>2, <1>3, <1>4, <2>3 DEF CallType
  <2>5. /\ UNCHANGED <<nextUnblock, ticks, pended, suspended>>
        /\ isrOn' \in Tasks \union {None}
        /\ (txLock' # Unlocked <=> txLock # Unlocked) /\ (rxLock' # Unlocked <=> rxLock # Unlocked)
    BY <1>1, <1>2, <1>3, <1>4, <2>1 DEF HoldType
  <2>z. Rousing(waitSend, "send", waitReceive, "receive", y, nw, R)
    BY <1>2, <1>3, <2>1, <2>2, <2>4, <2>5, <2>y DEF Rousing
  <2>6. /\ Waiting(nw, "send") /\ Waiting(waitReceive, "receive")
        /\ SchedType' /\ TimeType' /\ CallType' /\ HoldType'
        /\ ReadyLists(ready, place)' /\ Distinct(pending)' /\ (\A u \in Range(pending) : Away(u))'
        /\ HoldInv' /\ CurInv' /\ PcInv' /\ IdleInv' /\ HighInv' /\ DelayInv' /\ CallInv'
    BY <2>z, RouseStep
  <2>7. QueueType'
    BY <1>2, <1>4, <1>5, <2>1, <2>2, <2>6 DEF QueueType, Waiting
  <2>8. WaitsInv'
    BY <1>4, <2>1, <2>2, <2>6 DEF Waiting, WaitsInv, WaitInv
  <2> QED
    BY <2>6, <2>7, <2>8 DEF Inv, Types, ListInv
<1>7. CASE ~(rxLock = Unlocked)
  <2>1. /\ rxLock' = rxLock + 1 /\ rxLock # Unlocked
        /\ UNCHANGED <<schedVars, place, wake, pending, waitSend>>
    BY <1>7 DEF IsrReceive
  <2>2. rxLock \in Nat /\ rxLock' \in Unlocked .. MaxLock /\ rxLock' # Unlocked
    BY <1>1, <1>2, <2>1, KernelAssumption DEF Unlocked
  <2>3. isrOn' = isrOn
    BY <1>1, <2>1 DEF IsrReceive, schedVars
  <2> QED
    BY <1>1, <1>2, <1>3, <1>4, <1>5, <2>1, <2>2, <2>3, Typed, QuietStep DEF schedVars, HoldType
<1> QED
  BY <1>6, <1>7

-----------------------------------------------------------------------------
(* The tick, the resumed scheduler and the switches of the context.           *)

(* The lists as the ticks find them, the pending tasks made ready.            *)
LEMMA StartFacts ==
    ASSUME Inv, pc[cur] # "block",
           NEW pl \in [Tasks -> Places], NEW wk \in [Tasks -> 0 .. Width - 1],
           NEW rd, ReadyLists(rd, pl), NEW sw \in BOOLEAN,
           \A t \in Tasks : /\ pl[t] = IF t \in Range(pending) THEN "ready" ELSE place[t]
                            /\ wk[t] = IF t \in Range(pending) THEN 0 ELSE wake[t],
           yieldPending \/ sw \/ \A t \in Tasks : pl[t] = "ready" => Priority[t] <= Priority[cur],
           NEW s, s = [ticks |-> ticks, place |-> pl, next |-> nextUnblock, ready |-> rd,
                       send |-> waitSend, receive |-> waitReceive, switch |-> sw,
                       wake |-> wk, owed |-> owed, since |-> since]
    PROVE  ClockOK(s, pl, Range(waitSend), Range(waitReceive), owed)
<1>1. /\ nextUnblock \in 0 .. Width - 1 /\ ticks \in 0 .. Width * Epochs - 1
      /\ owed \in [Tasks -> 0 .. Forever] /\ since \in [Tasks -> 0 .. Width]
      /\ waitSend \in Seq(Tasks) /\ waitReceive \in Seq(Tasks) /\ place \in [Tasks -> Places]
  BY Typed
<1>2. /\ s.ticks = ticks /\ s.place = pl /\ s.next = nextUnblock /\ s.ready = rd
      /\ s.send = waitSend /\ s.receive = waitReceive /\ s.switch = sw
      /\ s.wake = wk /\ s.owed = owed /\ s.since = since
  OBVIOUS
<1>3. rd \in [Priorities -> Seq(Items)]
  BY DEF ReadyLists
<1>4. s \in ClockType
  BY <1>1, <1>3 DEF ClockType
<1>5. ClockLists(s)
  <2>1. WaitInv(waitSend, "send") /\ WaitInv(waitReceive, "receive")
    BY DEF Inv, ListInv, WaitsInv
  <2>2. Distinct(waitSend) /\ Distinct(waitReceive)
    BY <2>1 DEF WaitInv
  <2>3. ASSUME NEW t \in Range(waitSend) \union Range(waitReceive) PROVE pl[t] # "ready"
    <3>1. t \in Tasks
      BY <1>1, RangeOfSeq DEF Range
    <3>2. Away(t) /\ t \notin Range(pending)
      BY <2>1 DEF WaitInv
    <3> QED
      BY <3>1, <3>2 DEF Away
  <2>4. yieldPending \/ s.switch
            \/ \A t \in Tasks : s.place[t] = "ready" => Priority[t] <= Priority[cur]
    BY <1>2
  <2> QED
    BY <1>2, <2>2, <2>3, <2>4 DEF ClockLists
<1>6. ClockTimes(s)
  <2>1. Delays(ticks, pl, nextUnblock, wk, owed)
    BY <1>1 DEF Inv, DelayInv, Delays
  <2>2. CallTimes(ticks, owed, since)
    BY DEF Inv, CallInv, CallOf, CallTimes
  <2> QED
    BY <1>2, <2>1, <2>2 DEF ClockTimes
<1>7. ClockFrom(s, pl, Range(waitSend), Range(waitReceive), owed)
  BY <1>2 DEF ClockFrom
<1> QED
  BY <1>4, <1>5, <1>6, <1>7 DEF ClockOK

LEMMA NowOK ==
    ASSUME Inv, suspended = 0
    PROVE  ClockOK(Now, place, Range(waitSend), Range(waitReceive), owed)
<1>1. /\ place \in [Tasks -> Places] /\ wake \in [Tasks -> 0 .. Width - 1]
      /\ ReadyLists(ready, place) /\ HighInv /\ cur \in Tasks
  BY Typed DEF Inv, ListInv
<1>2. pc[cur] # "block" /\ pending = <<>>
  BY DEF Inv, ListInv, HoldInv, Held
<1>3. Range(pending) = {}
  BY <1>2, EmptyFacts
<1>4. PICK sw \in BOOLEAN : sw = FALSE
  OBVIOUS
<1>5. PICK s : s = Now
  OBVIOUS
<1>6. s = [ticks |-> ticks, place |-> place, next |-> nextUnblock, ready |-> ready,
           send |-> waitSend, receive |-> waitReceive, switch |-> sw,
           wake |-> wake, owed |-> owed, since |-> since]
  BY <1>4, <1>5 DEF Now
<1>7. yieldPending \/ sw \/ \A t \in Tasks : place[t] = "ready" => Priority[t] <= Priority[cur]
  BY <1>1 DEF HighInv
<1>8. \A t \in Tasks : /\ place[t] = IF t \in Range(pending) THEN "ready" ELSE place[t]
                       /\ wake[t] = IF t \in Range(pending) THEN 0 ELSE wake[t]
  BY <1>3
<1>9. ClockOK(s, place, Range(waitSend), Range(waitReceive), owed)
  BY <1>1, <1>2, <1>6, <1>7, <1>8, StartFacts
<1> QED
  BY <1>5, <1>9

(* The scheduler running, the lists are as ticks have left them, and no call  *)
(* holds the scheduler or the queue.                                         *)
Clocked(s, pl) ==
    /\ ClockOK(s, pl, Range(waitSend), Range(waitReceive), owed)
    /\ pl[Idle] = "ready" /\ pc'[Idle] = "run"
    /\ ticks' = s.ticks /\ place' = s.place /\ wake' = s.wake /\ nextUnblock' = s.next
    /\ waitSend' = s.send /\ waitReceive' = s.receive /\ owed' = s.owed
    /\ suspended' = 0 /\ pending' = <<>> /\ pended' = 0
    /\ messages' = messages /\ txLock' = Unlocked /\ rxLock' = Unlocked
    /\ isrOn' \in Tasks \union {None} /\ CallType' /\ since' \in [Tasks -> 0 .. Width]
    /\ \A u \in Tasks : pc'[u] \notin Held /\ PcOf(u)' /\ CallOf(u)'
    /\ \A u \in Range(s.send) \union Range(s.receive) :
           op'[u] = op[u] /\ goal'[u] = goal[u] /\ pc'[u] \in Sleepy
    /\ cur' \in Tasks /\ yieldPending' \in BOOLEAN
    /\ ReadyLists(ready', s.place) /\ CurInv' /\ HighInv'

LEMMA ClockedStep ==
    ASSUME Inv, NEW s, NEW pl, Clocked(s, pl)
    PROVE  Inv'
<1>1. /\ ticks' = s.ticks /\ place' = s.place /\ wake' = s.wake /\ nextUnblock' = s.next
      /\ waitSend' = s.send /\ waitReceive' = s.receive /\ owed' = s.owed
      /\ suspended' = 0 /\ pending' = <<>> /\ pended' = 0
      /\ messages' = messages /\ txLock' = Unlocked /\ rxLock' = Unlocked
  BY DEF Clocked
<1>2. /\ s \in ClockType /\ ClockLists(s) /\ ClockTimes(s)
      /\ ClockFrom(s, pl, Range(waitSend), Range(waitReceive), owed)
  BY DEF Clocked, ClockOK
<1>3. Range(pending') = {} /\ Distinct(pending') /\ pending' \in Seq(Tasks)
  BY <1>1, EmptyFacts
<1>4. /\ s.ticks \in 0 .. Width * Epochs - 1 /\ s.place \in [Tasks -> Places]
      /\ s.next \in 0 .. Width - 1 /\ s.send \in Seq(Tasks) /\ s.receive \in Seq(Tasks)
      /\ s.wake \in [Tasks -> 0 .. Width - 1] /\ s.owed \in [Tasks -> 0 .. Forever]
  BY <1>2 DEF ClockType
<1>5. Types'
  <2>1. SchedType' /\ HoldType' /\ CallType'
    BY <1>1, <1>3 DEF Clocked, SchedType, HoldType
  <2>2. 0 \in 0 .. MaxPended /\ Unlocked \in Unlocked .. MaxLock
    BY KernelAssumption DEF Unlocked
  <2>3. TimeType'
    BY <1>1, <1>4, <2>2 DEF Clocked, TimeType
  <2>4. QueueType'
    BY <1>1, <1>4, <2>2, Typed DEF QueueType
  <2> QED
    BY <2>1, <2>3, <2>4 DEF Types
<1>6. WaitsInv'
  <2>1. /\ Range(s.send) \subseteq Range(waitSend) /\ Range(s.receive) \subseteq Range(waitReceive)
        /\ Distinct(s.send) /\ Distinct(s.receive)
        /\ \A u \in Range(s.send) \union Range(s.receive) : s.place[u] # "ready"
    BY <1>2 DEF ClockLists, ClockFrom
  <2>2. WaitInv(waitSend, "send") /\ WaitInv(waitReceive, "receive")
    BY DEF Inv, ListInv, WaitsInv
  <2>3. ASSUME NEW u \in Range(s.send) \union Range(s.receive)
        PROVE  /\ op'[u] = op[u] /\ goal'[u] = "sleep" /\ pc'[u] \in Sleepy
               /\ Away(u)' /\ u \notin Range(pending')
    <3>1. op'[u] = op[u] /\ goal'[u] = goal[u] /\ pc'[u] \in Sleepy
      BY DEF Clocked
    <3>2. goal[u] = "sleep"
      BY <2>1, <2>2 DEF WaitInv
    <3> QED
      BY <1>1, <1>3, <2>1, <3>1, <3>2 DEF Away
  <2>4. WaitInv(waitSend, "send")'
    BY <1>1, <2>1, <2>2, <2>3 DEF WaitInv
  <2>5. WaitInv(waitReceive, "receive")'
    BY <1>1, <2>1, <2>2, <2>3 DEF WaitInv
  <2> QED
    BY <1>3, <2>4, <2>5 DEF WaitsInv
<1>7. HoldInv'
  BY <1>1 DEF Clocked, HoldInv, TxHeld, Held
<1>8. ReadyLists(ready, place)' /\ CurInv' /\ HighInv'
  BY <1>1 DEF Clocked
<1>9. IdleInv'
  BY <1>1, <1>2, KernelAssumption DEF Clocked, IdleInv, ClockFrom
<1>10. PcInv' /\ CallInv'
  BY DEF Clocked, PcInv, CallInv
<1>11. DelayInv'
  BY <1>1, <1>2 DEF DelayInv, ClockTimes
<1> QED
  BY <1>5, <1>6, <1>7, <1>8, <1>9, <1>10, <1>11 DEF Inv, ListInv

(* With the scheduler running, no call holds anything.                        *)
LEMMA FreeFacts ==
    ASSUME Inv, suspended = 0
    PROVE  /\ pending = <<>> /\ pended = 0 /\ txLock = Unlocked /\ rxLock = Unlocked
           /\ \A u \in Tasks : pc[u] \notin Held
           /\ pc[Idle] = "run" /\ place[Idle] = "ready" /\ Idle \in Tasks
           /\ \A u \in Range(waitSend) \union Range(waitReceive) : pc[u] \in Sleepy
<1>1. HoldInv /\ IdleInv /\ WaitsInv /\ cur \in Tasks
  BY Typed DEF Inv, ListInv
<1>2. pc[cur] \notin Held /\ \A u \in Tasks : pc[u] \notin Held
  BY <1>1 DEF HoldInv
<1>3. txLock = Unlocked /\ rxLock = Unlocked /\ pending = <<>> /\ pended = 0
  BY <1>1, <1>2 DEF HoldInv, TxHeld, Held
<1> QED
  BY <1>1, <1>2, <1>3, KernelAssumption DEF IdleInv, WaitsInv, WaitInv

LEMMA TickStep ==
    ASSUME Inv, Tick
    PROVE  Inv'
<1>1. UNCHANGED <<messages, txLock, rxLock, callVars, suspended, pending, isrOn>>
  BY DEF Tick
<1>2. /\ messages' = messages /\ txLock' = txLock /\ rxLock' = rxLock /\ suspended' = suspended
      /\ pending' = pending /\ isrOn' = isrOn
      /\ pc' = pc /\ op' = op /\ left' = left /\ entered' = entered /\ goal' = goal
  BY <1>1 DEF callVars
<1>3. HoldType /\ CallType /\ PcInv
  BY DEF Inv, Types, ListInv
<1>4. CASE suspended = 0
  <2>1. PICK s : /\ s = Ticked(Now)
                 /\ ticks' = s.ticks /\ place' = s.place /\ wake' = s.wake
                 /\ nextUnblock' = s.next /\ waitSend' = s.send /\ waitReceive' = s.receive
                 /\ owed' = s.owed /\ since' = s.since
                 /\ SwitchContext(s.ready, 0) /\ pended' = pended
    BY <1>4 DEF Tick
  <2>2. ClockOK(s, place, Range(waitSend), Range(waitReceive), owed)
    <3>1. PICK n : n = Now
      OBVIOUS
    <3>2. ClockOK(n, place, Range(waitSend), Range(waitReceive), owed)
      BY <1>4, <3>1, NowOK
    <3>3. ClockOK(Ticked(n), place, Range(waitSend), Range(waitReceive), owed)
      <4>1. PICK a, b : a = Range(waitSend) /\ b = Range(waitReceive)
        OBVIOUS
      <4>2. Types
        BY DEF Inv
      <4>3. ClockOK(n, place, a, b, owed)
        BY <3>2, <4>1
      <4>4. ClockOK(Ticked(n), place, a, b, owed)
        BY <4>2, <4>3, TickedFacts
      <4> QED
        BY <4>1, <4>4
    <3> QED
      BY <2>1, <3>1, <3>3
  <2>3. /\ pending = <<>> /\ pended = 0 /\ txLock = Unlocked /\ rxLock = Unlocked
        /\ \A u \in Tasks : pc[u] \notin Held
        /\ pc[Idle] = "run" /\ place[Idle] = "ready" /\ Idle \in Tasks
        /\ \A u \in Range(waitSend) \union Range(waitReceive) : pc[u] \in Sleepy
    BY <1>4, FreeFacts
  <2>4. /\ s \in ClockType /\ ClockLists(s) /\ ClockTimes(s)
        /\ ClockFrom(s, place, Range(waitSend), Range(waitReceive), owed)
    BY <2>2 DEF ClockOK
  <2>5. /\ ReadyLists(s.ready, s.place) /\ s.place[Idle] = "ready"
        /\ s.since \in [Tasks -> 0 .. Width]
        /\ Range(s.send) \union Range(s.receive) \subseteq Range(waitSend) \union Range(waitReceive)
        /\ \A u \in Tasks : owed[u] = 0 => s.owed[u] = 0
    BY <2>3, <2>4 DEF ClockLists, ClockFrom, ClockType
  <2>6. /\ ReadyLists(ready', s.place) /\ yieldPending' = FALSE
        /\ cur' \in Tasks /\ s.place[cur'] = "ready"
        /\ \A u \in Tasks : s.place[u] = "ready" => Priority[u] <= Priority[cur']
    <3>1. PICK r, pl : r = s.ready /\ pl = s.place
      OBVIOUS
    <3>2. /\ ReadyLists(ready', pl) /\ yieldPending' = FALSE
          /\ cur' \in Tasks /\ pl[cur'] = "ready"
          /\ \A u \in Tasks : pl[u] = "ready" => Priority[u] <= Priority[cur']
      BY <2>1, <2>3, <2>5, <3>1, SwitchFacts
    <3> QED
      BY <3>1, <3>2
  <2>7. ASSUME NEW u \in Tasks PROVE PcOf(u)' /\ CallOf(u)'
    <3>1. PcOf(u) /\ pc[u] \notin Held /\ (owed[u] = 0 => owed'[u] = 0)
      BY <1>3, <2>1, <2>3, <2>5 DEF PcInv
    <3>2. PcOf(u)'
      BY <1>2, <3>1 DEF PcOf
    <3>3. InTime(u)' <=> InTime(u)
      BY <1>2 DEF InTime
    <3>4. CallOf(u)'
      BY <1>2, <2>1, <2>4, <3>1, <3>3 DEF CallOf, ClockTimes, CallTimes, Held
    <3> QED
      BY <3>2, <3>4
  <2>8. CurInv' /\ HighInv'
    BY <2>1, <2>6 DEF CurInv, HighInv
  <2>9. /\ yieldPending' \in BOOLEAN /\ isrOn' \in Tasks \union {None} /\ CallType'
        /\ since' \in [Tasks -> 0 .. Width]
    BY <1>2, <1>3, <2>1, <2>5, <2>6 DEF HoldType, CallType
  <2>10. \A u \in Range(s.send) \union Range(s.receive) :
             op'[u] = op[u] /\ goal'[u] = goal[u] /\ pc'[u] \in Sleepy
    BY <1>2, <2>3, <2>5
  <2>11. Clocked(s, place)
    BY <1>2, <1>4, <2>1, <2>2, <2>3, <2>6, <2>7, <2>8, <2>9, <2>10 DEF Clocked
  <2> QED
    BY <2>11, ClockedStep
<1>5. CASE suspended # 0
  <2>1. /\ pended < MaxPended /\ pended' = pended + 1 /\ SwitchContext(ready, suspended)
        /\ UNCHANGED <<ticks, place, wake, nextUnblock, waitSend, waitReceive, owed, since>>
    BY <1>5 DEF Tick
  <2>2. /\ suspended \in {0, 1} /\ pended \in 0 .. MaxPended /\ messages \in 0 .. Length
        /\ txLock \in Unlocked .. MaxLock /\ rxLock \in Unlocked .. MaxLock
    BY Typed
  <2>3. cur' = cur /\ ready' = ready /\ yieldPending' = TRUE
    BY <1>5, <2>1, <2>2 DEF SwitchContext
  <2>4. pended' \in 0 .. MaxPended
    BY <2>1, <2>2, KernelAssumption
  <2> QED
    BY <1>1, <1>2, <1>3, <1>5, <2>1, <2>2, <2>3, <2>4, QuietStep DEF HoldType
<1> QED
  BY <1>4, <1>5

LEMMA IsrReturnStep ==
    ASSUME Inv, IsrReturn
    PROVE  Inv'
<1>1. /\ isrOn' = None
      /\ UNCHANGED <<schedVars, timeVars, queueVars, callVars, suspended, pending>>
  BY DEF IsrReturn
<1>2. /\ yieldPending \in BOOLEAN /\ pended \in 0 .. MaxPended /\ messages \in 0 .. Length
      /\ txLock \in Unlocked .. MaxLock /\ rxLock \in Unlocked .. MaxLock
  BY Typed
<1> QED
  BY <1>1, <1>2, QuietStep DEF schedVars, timeVars, queueVars

(* A switch of the context with the scheduler running, and what the call of   *)
(* the task does with it.                                                    *)
LEMMA SwitchStep ==
    ASSUME Inv, suspended = 0,
           SwitchContext(ready, 0) \/ (place[cur] = "ready" /\ UNCHANGED schedVars),
           UNCHANGED <<timeVars, queueVars, suspended, pending, isrOn>>,
           CallType', pc'[Idle] = "run",
           \A u \in Tasks : pc'[u] \notin Held /\ PcOf(u)' /\ CallOf(u)',
           \A u \in Range(waitSend) \union Range(waitReceive) :
               op'[u] = op[u] /\ goal'[u] = goal[u] /\ pc'[u] \in Sleepy
    PROVE  Inv'
<1>1. PICK s : s = Now
  OBVIOUS
<1>2. /\ s.ticks = ticks /\ s.place = place /\ s.next = nextUnblock /\ s.ready = ready
      /\ s.send = waitSend /\ s.receive = waitReceive /\ s.wake = wake /\ s.owed = owed
  BY <1>1 DEF Now
<1>3. ClockOK(s, place, Range(waitSend), Range(waitReceive), owed)
  BY <1>1, NowOK
<1>4. /\ pending = <<>> /\ pended = 0 /\ txLock = Unlocked /\ rxLock = Unlocked
      /\ pc[Idle] = "run" /\ place[Idle] = "ready" /\ Idle \in Tasks
  BY FreeFacts
<1>5. ReadyLists(ready, place) /\ HighInv /\ HoldType /\ cur \in Tasks /\ yieldPending \in BOOLEAN
      /\ since \in [Tasks -> 0 .. Width]
  BY Typed DEF Inv, Types, ListInv
<1>6. /\ place' = place /\ wake' = wake /\ nextUnblock' = nextUnblock /\ ticks' = ticks
      /\ pended' = pended /\ owed' = owed /\ since' = since /\ messages' = messages
      /\ waitSend' = waitSend /\ waitReceive' = waitReceive /\ txLock' = txLock
      /\ rxLock' = rxLock /\ suspended' = suspended /\ pending' = pending /\ isrOn' = isrOn
  BY DEF timeVars, queueVars
<1>7. /\ ReadyLists(ready', place) /\ yieldPending' \in BOOLEAN
      /\ cur' \in Tasks /\ place[cur'] = "ready"
      /\ yieldPending' \/ \A u \in Tasks : place[u] = "ready" => Priority[u] <= Priority[cur']
  <2>1. CASE SwitchContext(ready, 0)
    <3>1. /\ ReadyLists(ready', place) /\ yieldPending' = FALSE
          /\ cur' \in Tasks /\ place[cur'] = "ready"
          /\ \A u \in Tasks : place[u] = "ready" => Priority[u] <= Priority[cur']
      BY <1>4, <1>5, <2>1, SwitchFacts
    <3> QED
      BY <3>1
  <2>2. CASE place[cur] = "ready" /\ UNCHANGED schedVars
    BY <1>5, <2>2 DEF schedVars, HighInv
  <2> QED
    BY <2>1, <2>2
<1>8. CurInv' /\ HighInv'
  BY <1>6, <1>7 DEF CurInv, HighInv
<1>9. Clocked(s, place)
  BY <1>2, <1>3, <1>4, <1>5, <1>6, <1>7, <1>8 DEF Clocked, HoldType
<1> QED
  BY <1>9, ClockedStep

LEMMA IdleLoopStep ==
    ASSUME Inv, IdleLoop
    PROVE  Inv'
<1>1. /\ cur = Idle /\ UNCHANGED <<timeVars, queueVars, callVars, suspended, pending, isrOn>>
      /\ SwitchContext(ready, suspended) \/ UNCHANGED schedVars
  BY DEF IdleLoop, Running
<1>2. IdleInv /\ HoldInv /\ PcInv /\ CallInv /\ CallType /\ suspended \in {0, 1}
  BY Typed DEF Inv, Types, ListInv
<1>3. suspended = 0
  BY <1>1, <1>2 DEF IdleInv, HoldInv, Held
<1>4. /\ \A u \in Tasks : pc[u] \notin Held
      /\ pc[Idle] = "run" /\ place[Idle] = "ready"
      /\ \A u \in Range(waitSend) \union Range(waitReceive) : pc[u] \in Sleepy
  BY <1>3, FreeFacts
<1>5. /\ pc' = pc /\ op' = op /\ left' = left /\ entered' = entered /\ goal' = goal
      /\ owed' = owed /\ since' = since /\ ticks' = ticks
  BY <1>1 DEF callVars, timeVars
<1>6. CallType'
  BY <1>2, <1>5 DEF CallType
<1>7. ASSUME NEW u \in Tasks PROVE PcOf(u)' /\ CallOf(u)'
  <2>1. PcOf(u) /\ CallOf(u)
    BY <1>2 DEF PcInv, CallInv
  <2> QED
    BY <1>5, <2>1 DEF PcOf, CallOf, InTime
<1> QED
  BY <1>1, <1>3, <1>4, <1>5, <1>6, <1>7, SwitchStep

(* How the call of the task goes on after the resumed scheduler.              *)
LEMMA LeaveFacts ==
    ASSUME CallType, NEW t \in Tasks, Leave(t)
    PROVE  /\ CallType'
           /\ \A u \in Tasks \ {t} : /\ pc'[u] = pc[u] /\ op'[u] = op[u] /\ left'[u] = left[u]
                                     /\ entered'[u] = entered[u] /\ goal'[u] = goal[u]
           /\ Ends(t) => pc'[t] = "run" /\ op'[t] = "none" /\ goal'[t] = "retry"
           /\ ~Ends(t) => /\ pc'[t] = "try" /\ op'[t] = op[t] /\ left'[t] = left[t]
                          /\ entered'[t] = entered[t] /\ goal'[t] = goal[t]
<1>1. CASE Ends(t)
  <2>1. Return(t)
    BY <1>1 DEF Leave
  <2> QED
    BY <1>1, <2>1, ReturnFacts
<1>2. CASE ~Ends(t)
  <2>1. Goto(t, "try") /\ "try" \in Labels
    BY <1>2 DEF Leave, Labels
  <2> QED
    BY <1>2, <2>1, GotoFacts
<1> QED
  BY <1>1, <1>2

LEMMA YieldStep ==
    ASSUME Inv, NEW t \in Tasks, Yield(t)
    PROVE  Inv'
<1>1. /\ cur = t /\ pc[t] = "yield" /\ SwitchContext(ready, suspended) /\ Leave(t)
      /\ UNCHANGED <<timeVars, queueVars, suspended, pending, isrOn>>
  BY DEF Yield, Running
<1>2. /\ t # Idle /\ CallType /\ HoldInv /\ PcOf(t) /\ CallOf(t) /\ PcInv /\ CallInv
      /\ suspended \in {0, 1}
  BY <1>1, RunningFacts, Typed DEF Inv, ListInv
<1>3. suspended = 0
  BY <1>1, <1>2 DEF HoldInv, Held
<1>4. /\ \A u \in Tasks : pc[u] \notin Held
      /\ pc[Idle] = "run" /\ place[Idle] = "ready" /\ Idle \in Tasks
      /\ \A u \in Range(waitSend) \union Range(waitReceive) : pc[u] \in Sleepy
  BY <1>3, FreeFacts
<1>5. /\ CallType'
      /\ \A u \in Tasks \ {t} : /\ pc'[u] = pc[u] /\ op'[u] = op[u] /\ left'[u] = left[u]
                                /\ entered'[u] = entered[u] /\ goal'[u] = goal[u]
      /\ Ends(t) => pc'[t] = "run" /\ op'[t] = "none" /\ goal'[t] = "retry"
      /\ ~Ends(t) => /\ pc'[t] = "try" /\ op'[t] = op[t] /\ left'[t] = left[t]
                     /\ entered'[t] = entered[t] /\ goal'[t] = goal[t]
  BY <1>1, <1>2, LeaveFacts
<1>6. owed' = owed /\ since' = since /\ ticks' = ticks
  BY <1>1 DEF timeVars
<1>7. PcOf(t)' /\ CallOf(t)'
  <2>1. CASE Ends(t)
    BY <1>5, <2>1, ReturnedOf
  <2>2. CASE ~Ends(t)
    BY <1>1, <1>2, <1>5, <1>6, <2>2 DEF PcOf, CallOf, InTime, Ends
  <2> QED
    BY <2>1, <2>2
<1>8. ASSUME NEW u \in Tasks PROVE pc'[u] \notin Held /\ PcOf(u)' /\ CallOf(u)'
  <2>1. CASE u = t
    BY <1>5, <1>7, <2>1 DEF Held
  <2>2. CASE u # t
    <3>1. PcOf(u) /\ CallOf(u) /\ pc[u] \notin Held
      BY <1>2, <1>4 DEF PcInv, CallInv
    <3> QED
      BY <1>5, <1>6, <2>2, <3>1 DEF PcOf, CallOf, InTime
  <2> QED
    BY <2>1, <2>2
<1>9. ASSUME NEW u \in Range(waitSend) \union Range(waitReceive)
      PROVE  op'[u] = op[u] /\ goal'[u] = goal[u] /\ pc'[u] \in Sleepy
  <2>1. WaitInv(waitSend, "send") /\ WaitInv(waitReceive, "receive")
    BY DEF Inv, ListInv, WaitsInv
  <2>2. u \in Tasks /\ op[u] \in {"send", "receive"} /\ goal[u] = "sleep"
    <3>s. waitSend \in Seq(Tasks) /\ waitReceive \in Seq(Tasks)
      BY Typed
    <3>1. Range(waitSend) \subseteq Tasks /\ Range(waitReceive) \subseteq Tasks
      BY <3>s, RangeOfSeq DEF Range
    <3> QED
      BY <2>1, <3>1 DEF WaitInv
  <2>3. CASE u = t
    BY <1>5, <2>2, <2>3 DEF Ends, Sleepy
  <2>4. CASE u # t
    BY <1>4, <1>5, <2>2, <2>4
  <2> QED
    BY <2>3, <2>4
<1>10. SwitchContext(ready, 0) /\ pc'[Idle] = "run"
  BY <1>1, <1>2, <1>3, <1>4, <1>5
<1> QED
  BY <1>1, <1>3, <1>5, <1>8, <1>9, <1>10, SwitchStep

(* The pending tasks made ready and the pended ticks counted.                 *)
LEMMA ResumedFacts ==
    ASSUME Inv, pc[cur] = "resume"
    PROVE  \E pl : /\ ClockOK(Resumed, pl, Range(waitSend), Range(waitReceive), owed)
                   /\ \A t \in Tasks : place[t] = "ready" => pl[t] = "ready"
<1>1. /\ place \in [Tasks -> Places] /\ wake \in [Tasks -> 0 .. Width - 1]
      /\ pending \in Seq(Tasks) /\ cur \in Tasks /\ yieldPending \in BOOLEAN
      /\ pended \in Nat
  <2>1. pended \in 0 .. MaxPended
    BY Typed
  <2> QED
    BY <2>1, Typed
<1>2. /\ ReadyLists(ready, place) /\ HighInv /\ Distinct(pending)
      /\ \A t \in Range(pending) : place[t] # "ready"
  BY DEF Inv, ListInv, WaitsInv, Away
<1>3. 0 \in 0 .. Width - 1
  BY CountType
<1>4. PICK pl \in [Tasks -> Places] :
          pl = [t \in Tasks |-> IF t \in Range(pending) THEN "ready" ELSE place[t]]
  BY <1>1 DEF Places
<1>5. PICK wk \in [Tasks -> 0 .. Width - 1] :
          wk = [t \in Tasks |-> IF t \in Range(pending) THEN 0 ELSE wake[t]]
  BY <1>1, <1>3
<1>6. PICK rd : rd = AllReadied(ready, pending)
  OBVIOUS
<1>7. PICK sw \in BOOLEAN :
          sw = (yieldPending \/ \E t \in Range(pending) : Priority[t] >= Priority[cur])
  OBVIOUS
<1>8. \A t \in Tasks : pl[t] = IF t \in Range(pending) THEN "ready" ELSE place[t]
  BY <1>4
<1>9. \A t \in Tasks : wk[t] = IF t \in Range(pending) THEN 0 ELSE wake[t]
  BY <1>5
<1>10. ReadyLists(rd, pl)
  <2>1. \A t \in Range(pending) : place[t] # "ready"
    BY <1>2
  <2>2. PICK q, sr, sp : q = pending /\ sr = ready /\ sp = place
    OBVIOUS
  <2>3. ReadyLists(sr, sp) /\ sp \in [Tasks -> Places] /\ q \in Seq(Tasks) /\ Distinct(q)
    BY <1>1, <1>2, <2>2
  <2>4. pl \in [Tasks -> Places]
    OBVIOUS
  <2>5. /\ \A t \in Range(q) : sp[t] # "ready"
        /\ \A t \in Tasks : pl[t] = IF t \in Range(q) THEN "ready" ELSE sp[t]
    BY <1>8, <2>1, <2>2
  <2>6. ReadyLists(AllReadied(sr, q), pl)
    BY <2>3, <2>4, <2>5, AllReadiedFacts
  <2> QED
    BY <1>6, <2>2, <2>6
<1>11. yieldPending \/ sw \/ \A t \in Tasks : pl[t] = "ready" => Priority[t] <= Priority[cur]
  <2>1. SUFFICES ASSUME ~yieldPending, ~sw, NEW t \in Tasks, pl[t] = "ready"
                 PROVE  Priority[t] <= Priority[cur]
    OBVIOUS
  <2>2. t \notin Range(pending) \/ ~(Priority[t] >= Priority[cur])
    BY <1>7, <2>1
  <2>3. Priority[t] \in Nat /\ Priority[cur] \in Nat
    BY <1>1, PriorityFacts
  <2>4. CASE t \in Range(pending)
    BY <2>2, <2>3, <2>4
  <2>5. CASE t \notin Range(pending)
    <3>1. place[t] = "ready"
      BY <1>8, <2>1, <2>5
    <3> QED
      BY <1>2, <2>1, <3>1 DEF HighInv
  <2> QED
    BY <2>4, <2>5
<1>12. PICK m : m = Now
  OBVIOUS
<1>m. /\ m \in ClockType /\ m.ticks = ticks /\ m.place = place /\ m.next = nextUnblock
      /\ m.ready = ready /\ m.send = waitSend /\ m.receive = waitReceive
      /\ m.wake = wake /\ m.owed = owed /\ m.since = since
  <2>1. /\ nextUnblock \in 0 .. Width - 1 /\ ticks \in 0 .. Width * Epochs - 1
        /\ owed \in [Tasks -> 0 .. Forever] /\ since \in [Tasks -> 0 .. Width]
        /\ waitSend \in Seq(Tasks) /\ waitReceive \in Seq(Tasks)
    BY Typed
  <2>2. ready \in [Priorities -> Seq(Items)]
    BY <1>2 DEF ReadyLists
  <2> QED
    BY <1>1, <1>12, <2>1, <2>2 DEF Now, ClockType
<1>s. PICK s : s = [m EXCEPT
                       !.ready = AllReadied(@, pending),
                       !.place = [t \in Tasks |-> IF t \in Range(pending) THEN "ready" ELSE @[t]],
                       !.wake = [t \in Tasks |-> IF t \in Range(pending) THEN 0 ELSE @[t]],
                       !.switch = yieldPending \/ \E t \in Range(pending) :
                                                      Priority[t] >= Priority[cur]]
  OBVIOUS
<1>f. /\ s.ticks = m.ticks /\ s.next = m.next /\ s.send = m.send /\ s.receive = m.receive
      /\ s.owed = m.owed /\ s.since = m.since
      /\ s.place = [t \in Tasks |-> IF t \in Range(pending) THEN "ready" ELSE m.place[t]]
      /\ s.wake = [t \in Tasks |-> IF t \in Range(pending) THEN 0 ELSE m.wake[t]]
      /\ s.ready = AllReadied(m.ready, pending)
      /\ s.switch = (yieldPending \/ \E t \in Range(pending) : Priority[t] >= Priority[cur])
      /\ s = [ticks |-> s.ticks, place |-> s.place, next |-> s.next, ready |-> s.ready,
              send |-> s.send, receive |-> s.receive, switch |-> s.switch, wake |-> s.wake,
              owed |-> s.owed, since |-> s.since]
  BY <1>m, <1>s DEF ClockType
<1>g. s = [ticks |-> ticks, place |-> pl, next |-> nextUnblock, ready |-> rd,
           send |-> waitSend, receive |-> waitReceive, switch |-> sw,
           wake |-> wk, owed |-> owed, since |-> since]
  <2>1. s.place = pl /\ s.wake = wk /\ s.ready = rd
    BY <1>4, <1>5, <1>6, <1>m, <1>f
  <2>2. s.switch = sw
    BY <1>7, <1>f
  <2> QED
    BY <1>m, <1>f, <2>1, <2>2
<1>13. PICK a, b : a = Range(waitSend) /\ b = Range(waitReceive)
  OBVIOUS
<1>14. pc[cur] # "block"
  OBVIOUS
<1>15. ClockOK(s, pl, a, b, owed)
  BY <1>2, <1>8, <1>9, <1>10, <1>11, <1>g, <1>13, <1>14, StartFacts
<1>16. Resumed = AfterTicks(s, pended)
  BY <1>12, <1>s DEF Resumed
<1>17. ClockOK(AfterTicks(s, pended), pl, a, b, owed)
  <2>1. Types
    BY DEF Inv
  <2>2. PICK n \in Nat : n = pended
    BY <1>1
  <2>3. ClockOK(AfterTicks(s, n), pl, a, b, owed)
    BY <1>15, <2>1, AfterTicksFacts
  <2> QED
    BY <2>2, <2>3
<1> QED
  BY <1>8, <1>13, <1>16, <1>17

LEMMA ResumeAllStep ==
    ASSUME Inv, NEW t \in Tasks, ResumeAll(t)
    PROVE  Inv'
<1>1. /\ cur = t /\ pc[t] = "resume" /\ suspended' = 0 /\ pending' = <<>> /\ pended' = 0
      /\ UNCHANGED <<messages, txLock, rxLock, isrOn>>
  BY DEF ResumeAll, Running
<1>2. PICK r : /\ r = Resumed
               /\ ticks' = r.ticks /\ place' = r.place /\ wake' = r.wake
               /\ nextUnblock' = r.next
               /\ waitSend' = r.send /\ waitReceive' = r.receive
               /\ IF r.switch
                  THEN SwitchContext(r.ready, 0)
                  ELSE GoOn(r.ready, yieldPending)
               /\ IF r.switch \/ goal[t] # "sleep"
                  THEN Leave(t)
                  ELSE Goto(t, "yield")
               /\ owed' = r.owed
               /\ since' = IF goal[t] = "expired" THEN [r.since EXCEPT ![t] = 0] ELSE r.since
  BY DEF ResumeAll
<1>3. /\ t # Idle /\ CallType /\ HoldInv /\ PcOf(t) /\ CallOf(t) /\ PcInv /\ CallInv
      /\ (goal[t] # "sleep" => place[t] = "ready") /\ HoldType /\ IdleInv /\ HighInv
      /\ \A u \in Tasks \ {t} : pc[u] \notin Held
  BY <1>1, RunningFacts DEF Inv, Types, ListInv
<1>4. PICK pl : /\ ClockOK(r, pl, Range(waitSend), Range(waitReceive), owed)
                /\ \A u \in Tasks : place[u] = "ready" => pl[u] = "ready"
  <2>1. pc[cur] = "resume"
    BY <1>1
  <2> QED
    BY <1>2, <2>1, ResumedFacts
<1>5. /\ r \in ClockType /\ ClockLists(r) /\ ClockTimes(r)
      /\ ClockFrom(r, pl, Range(waitSend), Range(waitReceive), owed)
  BY <1>4 DEF ClockOK
<1>6. /\ ReadyLists(r.ready, r.place) /\ r.since \in [Tasks -> 0 .. Width] /\ r.switch \in BOOLEAN
      /\ Range(r.send) \union Range(r.receive) \subseteq Range(waitSend) \union Range(waitReceive)
      /\ \A u \in Tasks : (owed[u] = 0 => r.owed[u] = 0) /\ (place[u] = "ready" => r.place[u] = "ready")
      /\ yieldPending \/ r.switch
             \/ \A u \in Tasks : r.place[u] = "ready" => Priority[u] <= Priority[cur]
  BY <1>4, <1>5 DEF ClockLists, ClockFrom, ClockType
<1>7. Idle \in Tasks /\ pl[Idle] = "ready" /\ r.place[Idle] = "ready"
  BY <1>3, <1>4, <1>6, KernelAssumption DEF IdleInv
<1>8. /\ CallType'
      /\ \A u \in Tasks \ {t} : /\ pc'[u] = pc[u] /\ op'[u] = op[u] /\ left'[u] = left[u]
                                /\ entered'[u] = entered[u] /\ goal'[u] = goal[u]
      /\ \/ Ends(t) /\ pc'[t] = "run" /\ op'[t] = "none" /\ goal'[t] = "retry"
         \/ /\ goal[t] # "expired" /\ pc'[t] \in {"try", "yield"}
            /\ op'[t] = op[t] /\ left'[t] = left[t] /\ entered'[t] = entered[t]
            /\ goal'[t] = goal[t] /\ (pc'[t] = "try" => op[t] # "delay")
      /\ ~r.switch => goal[t] # "sleep" \/ (pc'[t] = "yield" /\ goal'[t] = "sleep")
  <2>1. CASE r.switch \/ goal[t] # "sleep"
    <3>1. Leave(t)
      BY <1>2, <2>1
    <3>2. /\ CallType'
          /\ \A u \in Tasks \ {t} : /\ pc'[u] = pc[u] /\ op'[u] = op[u] /\ left'[u] = left[u]
                                    /\ entered'[u] = entered[u] /\ goal'[u] = goal[u]
          /\ Ends(t) => pc'[t] = "run" /\ op'[t] = "none" /\ goal'[t] = "retry"
          /\ ~Ends(t) => /\ pc'[t] = "try" /\ op'[t] = op[t] /\ left'[t] = left[t]
                         /\ entered'[t] = entered[t] /\ goal'[t] = goal[t]
      BY <1>3, <3>1, LeaveFacts
    <3>3. CASE Ends(t)
      BY <2>1, <3>2, <3>3
    <3>4. CASE ~Ends(t)
      BY <2>1, <3>2, <3>4 DEF Ends
    <3> QED
      BY <3>3, <3>4
  <2>2. CASE ~(r.switch \/ goal[t] # "sleep")
    <3>1. Goto(t, "yield") /\ "yield" \in Labels
      BY <1>2, <2>2 DEF Labels
    <3> QED
      BY <1>3, <2>2, <3>1, GotoFacts
  <2> QED
    BY <2>1, <2>2
<1>9. /\ ReadyLists(ready', r.place) /\ yieldPending' \in BOOLEAN /\ cur' \in Tasks
      /\ r.switch => r.place[cur'] = "ready"
      /\ ~r.switch => cur' = cur
      /\ yieldPending' \/ \A u \in Tasks : r.place[u] = "ready" => Priority[u] <= Priority[cur']
  <2>1. CASE r.switch
    <3>1. PICK rd, rp : rd = r.ready /\ rp = r.place
      OBVIOUS
    <3>2. SwitchContext(rd, 0) /\ ReadyLists(rd, rp) /\ rp[Idle] = "ready"
      BY <1>2, <1>6, <1>7, <2>1, <3>1
    <3>3. /\ ReadyLists(ready', rp) /\ yieldPending' = FALSE
          /\ cur' \in Tasks /\ rp[cur'] = "ready"
          /\ \A u \in Tasks : rp[u] = "ready" => Priority[u] <= Priority[cur']
      BY <1>7, <3>2, SwitchFacts
    <3> QED
      BY <2>1, <3>1, <3>3
  <2>2. CASE ~r.switch
    <3>1. cur' = cur /\ ready' = r.ready /\ yieldPending' = yieldPending
      BY <1>2, <2>2 DEF GoOn
    <3>2. yieldPending \in BOOLEAN
      BY Typed
    <3> QED
      BY <1>1, <1>6, <2>2, <3>1, <3>2
  <2> QED
    BY <2>1, <2>2
<1>10. CurInv' /\ HighInv'
  <2>1. CurInv'
    <3>1. CASE r.switch
      BY <1>2, <1>9, <3>1 DEF CurInv
    <3>2. CASE ~r.switch
      BY <1>1, <1>2, <1>3, <1>6, <1>8, <1>9, <3>2 DEF CurInv
    <3> QED
      BY <3>1, <3>2
  <2>2. HighInv'
    BY <1>2, <1>9 DEF HighInv
  <2> QED
    BY <2>1, <2>2
<1>11. /\ since' \in [Tasks -> 0 .. Width] /\ \A u \in Tasks \ {t} : since'[u] = r.since[u]
       /\ goal[t] # "expired" => since'[t] = r.since[t]
  <2>1. 0 \in 0 .. Width
    BY CountType
  <2>2. CASE goal[t] = "expired"
    BY <1>2, <1>6, <2>1, <2>2
  <2>3. CASE goal[t] # "expired"
    BY <1>2, <1>6, <2>3
  <2> QED
    BY <2>2, <2>3
<1>12. \A u \in Tasks : (owed[u] = 0 => owed'[u] = 0)
  BY <1>2, <1>6
<1>13. ASSUME NEW u \in Tasks, u # t \/ goal[t] # "expired",
              op'[u] = op[u], left'[u] = left[u], entered'[u] = entered[u],
              pc'[u] \notin {"run", "first"} => pc[u] \notin {"run", "first"},
              pc'[u] \notin {"test", "insert", "block"}
       PROVE  CallOf(u)'
  <2>1. since'[u] = r.since[u]
    BY <1>11, <1>13
  <2>2. InTime(u)' => InTime(u)
    BY <1>13 DEF InTime
  <2> QED
    BY <1>2, <1>5, <1>13, <2>1, <2>2 DEF CallOf, ClockTimes, CallTimes
<1>14. PcOf(t)' /\ CallOf(t)' /\ pc'[t] \notin Held
  <2>1. CASE pc'[t] = "run" /\ op'[t] = "none" /\ goal'[t] = "retry"
    BY <2>1, ReturnedOf DEF Held
  <2>2. CASE /\ goal[t] # "expired" /\ pc'[t] \in {"try", "yield"}
             /\ op'[t] = op[t] /\ left'[t] = left[t] /\ entered'[t] = entered[t]
             /\ goal'[t] = goal[t] /\ (pc'[t] = "try" => op[t] # "delay")
    <3>1. PcOf(t)'
      BY <1>1, <1>3, <2>2 DEF PcOf
    <3>2. CallOf(t)'
      BY <1>1, <1>13, <2>2
    <3> QED
      BY <2>2, <3>1, <3>2 DEF Held
  <2> QED
    BY <1>8, <2>1, <2>2
<1>15. ASSUME NEW u \in Tasks PROVE pc'[u] \notin Held /\ PcOf(u)' /\ CallOf(u)'
  <2>1. CASE u = t
    BY <1>14, <2>1
  <2>2. CASE u # t
    <3>1. /\ pc'[u] = pc[u] /\ op'[u] = op[u] /\ left'[u] = left[u]
          /\ entered'[u] = entered[u] /\ goal'[u] = goal[u] /\ pc[u] \notin Held /\ PcOf(u)
      BY <1>3, <1>8, <2>2 DEF PcInv
    <3>2. PcOf(u)'
      BY <1>12, <3>1 DEF PcOf
    <3>3. pc'[u] \notin {"test", "insert", "block"}
      BY <3>1 DEF Held
    <3>4. CallOf(u)'
      BY <1>13, <2>2, <3>1, <3>3
    <3> QED
      BY <3>1, <3>2, <3>4
  <2> QED
    BY <2>1, <2>2
<1>16. ASSUME NEW u \in Range(r.send) \union Range(r.receive)
       PROVE  op'[u] = op[u] /\ goal'[u] = goal[u] /\ pc'[u] \in Sleepy
  <2>1. WaitInv(waitSend, "send") /\ WaitInv(waitReceive, "receive")
    BY DEF Inv, ListInv, WaitsInv
  <2>2. waitSend \in Seq(Tasks) /\ waitReceive \in Seq(Tasks)
    BY Typed
  <2>3. Range(waitSend) \subseteq Tasks /\ Range(waitReceive) \subseteq Tasks
    BY <2>2, RangeOfSeq DEF Range
  <2>4. u \in Tasks /\ op[u] \in {"send", "receive"} /\ goal[u] = "sleep" /\ pc[u] \in Sleepy
    BY <1>6, <2>1, <2>3 DEF WaitInv
  <2>5. CASE u = t
    BY <1>8, <2>4, <2>5 DEF Ends, Sleepy
  <2>6. CASE u # t
    BY <1>8, <2>4, <2>6
  <2> QED
    BY <2>5, <2>6
<1>17. txLock' = Unlocked /\ rxLock' = Unlocked /\ messages' = messages /\ isrOn' = isrOn
  BY <1>1, <1>3 DEF HoldInv, TxHeld
<1>18. pc'[Idle] = "run" /\ isrOn' \in Tasks \union {None}
  BY <1>1, <1>3, <1>7, <1>8 DEF IdleInv, HoldType
<1>19. Clocked(r, pl)
  BY <1>1, <1>2, <1>4, <1>7, <1>8, <1>9, <1>10, <1>11, <1>15, <1>16, <1>17, <1>18 DEF Clocked
<1> QED
  BY <1>19, ClockedStep

-----------------------------------------------------------------------------
(* The scheduler has just started.                                            *)

LEMMA InitInv ==
    ASSUME Init
    PROVE  Inv
<1>1. /\ place = [t \in Tasks |-> "ready"] /\ wake = [t \in Tasks |-> 0]
      /\ nextUnblock = Forever /\ ticks = 0 /\ pended = 0 /\ suspended = 0 /\ yieldPending = FALSE
      /\ pending = <<>> /\ messages = 0 /\ waitSend = <<>> /\ waitReceive = <<>>
      /\ txLock = Unlocked /\ rxLock = Unlocked
      /\ pc = [t \in Tasks |-> "run"] /\ op = [t \in Tasks |-> "none"]
      /\ left = [t \in Tasks |-> 0] /\ entered = [t \in Tasks |-> 0]
      /\ goal = [t \in Tasks |-> "retry"] /\ isrOn = None
      /\ owed = [t \in Tasks |-> 0] /\ since = [t \in Tasks |-> 0]
  BY DEF Init
<1>2. PICK r : /\ r = [p \in Priorities |-> <<End>> \o SetToSeq({t \in Tasks : Priority[t] = p})]
               /\ \E c \in {Rotated(r[Top(r)])} : ready = [r EXCEPT ![Top(r)] = c] /\ cur = Head(c)
  BY DEF Init
<1>3. Idle \in Tasks /\ place[Idle] = "ready" /\ IsFiniteSet(Tasks)
  BY <1>1, KernelAssumption
<1>4. ReadyLists(r, place)
  <2>1. ASSUME NEW p \in Priorities
        PROVE  r[p] \in Seq(Items) /\ Distinct(r[p]) /\ Range(r[p]) = ItemsAt(place, p)
    <3>1. PICK D \in SUBSET Tasks : D = {t \in Tasks : Priority[t] = p}
      OBVIOUS
    <3>2. IsFiniteSet(D)
      BY <1>3, FS_Subset
    <3>3. PICK s : s = SetToSeq(D)
      OBVIOUS
    <3>4. s \in Seq(D) /\ Distinct(s) /\ Range(s) = D
      BY <3>2, <3>3, SetToSeqFacts
    <3>5. s \in Seq(Items)
      BY <3>4, SeqMonotonic DEF Items
    <3>6. PICK one : one = <<End>>
      OBVIOUS
    <3>7. one \in Seq(Items) /\ Range(one) = {End} /\ Distinct(one)
      BY <3>6, OneFacts DEF Items
    <3>8. Range(one) \intersect Range(s) = {}
      BY <3>4, <3>7, KernelAssumption
    <3>9. one \o s \in Seq(Items) /\ Range(one \o s) = Range(one) \union Range(s) /\ Distinct(one \o s)
      BY <3>4, <3>5, <3>7, <3>8, ConcatFacts
    <3>10. r[p] = one \o s
      BY <1>2, <3>1, <3>3, <3>6
    <3>11. ItemsAt(place, p) = {End} \union D
      BY <1>1, <3>1 DEF ItemsAt
    <3> QED
      BY <3>4, <3>7, <3>9, <3>10, <3>11
  <2>2. r \in [Priorities -> Seq(Items)]
    <3>1. r = [p \in Priorities |-> r[p]]
      BY <1>2
    <3> QED
      BY <2>1, <3>1
  <2> QED
    BY <2>1, <2>2 DEF ReadyLists
<1>5. PICK c : c = Rotated(r[Top(r)])
  OBVIOUS
<1>6. ready = [r EXCEPT ![Top(r)] = c] /\ cur = Head(c)
  BY <1>2, <1>5
<1>7. /\ ReadyLists(ready, place) /\ cur \in Tasks /\ place[cur] = "ready"
      /\ \A t \in Tasks : place[t] = "ready" => Priority[t] <= Priority[cur]
  BY <1>3, <1>4, <1>5, <1>6, ChosenFacts
<1>8. /\ 0 \in 0 .. Width - 1 /\ 0 \in 0 .. Width * Epochs - 1 /\ 0 \in 0 .. Forever /\ 0 \in 0 .. Width
      /\ Forever \in 0 .. Width - 1 /\ 0 \in 0 .. MaxPended /\ 0 \in 0 .. Length
      /\ Unlocked \in Unlocked .. MaxLock
  BY CountType, KernelAssumption DEF Unlocked
<1>9. Types
  <2>1. SchedType
    BY <1>1, <1>7 DEF SchedType
  <2>2. TimeType
    BY <1>1, <1>8 DEF TimeType, Places
  <2>3. QueueType
    BY <1>1, <1>8 DEF QueueType
  <2>4. CallType
    BY <1>1, <1>8 DEF CallType, Labels
  <2>5. HoldType
    BY <1>1 DEF HoldType
  <2> QED
    BY <2>1, <2>2, <2>3, <2>4, <2>5 DEF Types
<1>10. WaitsInv
  BY <1>1, EmptyFacts DEF WaitsInv, WaitInv
<1>11. HoldInv
  BY <1>1, <1>7 DEF HoldInv, TxHeld, Held
<1>12. PcInv /\ CallInv
  BY <1>1 DEF PcInv, PcOf, CallInv, CallOf, InTime
<1>13. CurInv /\ IdleInv /\ HighInv
  BY <1>1, <1>3, <1>7 DEF CurInv, IdleInv, HighInv
<1>14. DelayInv
  BY <1>1 DEF DelayInv, Delays
<1> QED
  BY <1>7, <1>9, <1>10, <1>11, <1>12, <1>13, <1>14 DEF Inv, ListInv

-----------------------------------------------------------------------------

(* The invariant holds of every behaviour.                                    *)
LEMMA NextInv ==
    ASSUME Inv, [Next]_vars
    PROVE  Inv'
<1>1. CASE Calls
  BY <1>1, CallsStep DEF Calls
<1>2. ASSUME NEW t \in Tasks, Step(t) PROVE Inv'
  <2>1. CASE Send(t)
    BY <2>1, SendStep
  <2>2. CASE Receive(t)
    BY <2>2, ReceiveStep
  <2>3. CASE Refused(t)
    BY <2>3, RefusedStep
  <2>4. CASE Suspend(t)
    BY <2>4, SuspendStep
  <2>5. CASE Lock(t)
    BY <2>5, LockStep
  <2>6. CASE Check(t)
    BY <2>6, CheckStep
  <2>7. CASE Test(t)
    BY <2>7, TestStep
  <2>8. CASE Insert(t)
    BY <2>8, InsertStep
  <2>9. CASE Block(t)
    BY <2>9, BlockStep
  <2>10. CASE UnlockTx(t)
    BY <2>10, UnlockTxStep
  <2>11. CASE UnlockRx(t)
    BY <2>11, UnlockRxStep
  <2>12. CASE ResumeAll(t)
    BY <2>12, ResumeAllStep
  <2>13. CASE Yield(t)
    BY <2>13, YieldStep
  <2> QED
    BY <1>2, <2>1, <2>2, <2>3, <2>4, <2>5, <2>6, <2>7, <2>8, <2>9, <2>10, <2>11, <2>12, <2>13
       DEF Step
<1>3. CASE IdleLoop
  BY <1>3, IdleLoopStep
<1>4. CASE IsrSend
  BY <1>4, IsrSendStep
<1>5. CASE IsrReceive
  BY <1>5, IsrReceiveStep
<1>6. CASE IsrReturn
  BY <1>6, IsrReturnStep
<1>7. CASE Tick
  BY <1>7, TickStep
<1>8. CASE UNCHANGED vars
  <2>1. /\ UNCHANGED <<cur, ready, place, wake, nextUnblock, ticks, owed, since,
                       waitSend, waitReceive, callVars, suspended, pending>>
        /\ yieldPending' = yieldPending /\ pended' = pended /\ isrOn' = isrOn
        /\ messages' = messages /\ txLock' = txLock /\ rxLock' = rxLock
    BY <1>8 DEF vars, schedVars, timeVars, queueVars
  <2>2. /\ yieldPending \in BOOLEAN /\ pended \in 0 .. MaxPended /\ messages \in 0 .. Length
        /\ txLock \in Unlocked .. MaxLock /\ rxLock \in Unlocked .. MaxLock
    BY Typed
  <2>3. isrOn \in Tasks \union {None}
    BY DEF Inv, Types, HoldType
  <2> QED
    BY <2>1, <2>2, <2>3, QuietStep
<1> QED
  BY <1>1, <1>2, <1>3, <1>4, <1>5, <1>6, <1>7, <1>8 DEF Next

(* The lists, the calls and the clock of the kernel always fit together.      *)
THEOREM SpecInv == Spec => []Inv
<1>1. Init => Inv
  BY InitInv
<1>2. Inv /\ [Next]_vars => Inv'
  BY NextInv
<1> QED
  BY <1>1, <1>2, PTL DEF Spec

(* Everything is well typed, and with the scheduler running nothing is held   *)
(* back: no lock of the queue, no tick, no task pending (prvLockQueue,        *)
(* prvUnlockQueue, xTaskResumeAll).                                          *)
THEOREM ListsAreOK == Spec => []ListsOK
<1>1. Inv => ListsOK
  <2> SUFFICES ASSUME Inv PROVE ListsOK
    OBVIOUS
  <2>1. TypeOK
    <3>1. ready \in [Priorities -> Seq(Tasks \union {End})]
      BY DEF Inv, ListInv, ReadyLists, Items
    <3> QED
      BY <3>1 DEF Inv, Types, SchedType, TimeType, QueueType, CallType, HoldType, TypeOK, Places
  <2>2. NothingHeldBack
    <3> SUFFICES ASSUME suspended = 0
                 PROVE  /\ txLock = Unlocked /\ rxLock = Unlocked /\ pended = 0 /\ pending = <<>>
                        /\ \A t \in Range(waitSend) \union Range(waitReceive) : place[t] # "ready"
      BY DEF NothingHeldBack
    <3>1. pc[cur] # "block"
      BY FreeFacts, Typed DEF Held
    <3>2. \A t \in Range(waitSend) \union Range(waitReceive) : Away(t)
      BY DEF Inv, ListInv, WaitsInv, WaitInv
    <3> QED
      BY <3>1, <3>2, FreeFacts DEF Away
  <2> QED
    BY <2>1, <2>2 DEF ListsOK
<1> QED
  BY <1>1, SpecInv, PTL

(* The task that runs has the highest priority of those ready, or a switch is *)
(* due (vTaskSwitchContext, xTaskResumeAll, xTaskRemoveFromEventList).        *)
THEOREM TheHighestRuns == Spec => []HighestRuns
<1>1. Inv => HighestRuns
  <2> SUFFICES ASSUME Inv, ~yieldPending, NEW p \in Priorities, ready[p] # <<End>>
               PROVE  p <= Priority[cur]
    BY DEF HighestRuns
  <2>1. /\ ready[p] \in Seq(Items) /\ Distinct(ready[p]) /\ Range(ready[p]) = ItemsAt(place, p)
        /\ \A t \in Tasks : place[t] = "ready" => Priority[t] <= Priority[cur]
    BY DEF Inv, ListInv, ReadyLists, HighInv
  <2>2. PICK c : c = Rotated(ready[p])
    OBVIOUS
  <2>3. c \in Seq(Items) /\ c # <<>> /\ Range(c) = ItemsAt(place, p) /\ Head(c) # End
    BY <2>1, <2>2, RotatedFacts DEF ItemsAt
  <2>4. Head(c) \in ItemsAt(place, p)
    BY <2>3, TailFacts
  <2> QED
    BY <2>1, <2>3, <2>4 DEF ItemsAt
<1> QED
  BY <1>1, SpecInv, PTL

(* A call gives up only after the ticks it was given, over every wrap of the  *)
(* tick count, and never when it was to wait for ever (xTaskCheckForTimeOut). *)
THEOREM TimeOutsAreHonest == Spec => []TimedOutHonestly
<1>1. Inv => TimedOutHonestly
  BY DEF Inv, ListInv, PcInv, PcOf, TimedOutHonestly
<1> QED
  BY <1>1, SpecInv, PTL

(* No task oversleeps: the delayed lists are split at the wrap of the count,  *)
(* the next time to unblock is never later than a wake time, and the wake     *)
(* time is when the time given is up (xTaskIncrementTick,                     *)
(* prvAddCurrentTaskToDelayedList).                                          *)
THEOREM TheyWakeOnTime == Spec => []WakesOnTime
<1>1. Inv => WakesOnTime
  <2> SUFFICES ASSUME Inv, NEW t \in Tasks, Timed(t)
               PROVE  /\ place[t] = "delayed" => Count(ticks) < wake[t] /\ nextUnblock <= wake[t]
                      /\ place[t] = "overflow" => wake[t] <= Count(ticks)
                      /\ (wake[t] - Count(ticks)) % Width = owed[t]
    BY DEF WakesOnTime
  <2>1. /\ place[t] = "delayed" => /\ Count(ticks) < wake[t] /\ nextUnblock <= wake[t]
                                   /\ owed[t] = wake[t] - Count(ticks)
        /\ place[t] = "overflow" => /\ wake[t] < Count(ticks)
                                    /\ owed[t] = wake[t] - Count(ticks) + Width
    BY DEF Inv, DelayInv, Delays
  <2>2. wake[t] \in 0 .. Width - 1 /\ owed[t] \in 0 .. Width - 1 /\ Count(ticks) \in 0 .. Width - 1
    <3>1. ticks \in Nat
      BY Typed, CountType
    <3> QED
      BY <3>1, Typed, CountType
  <2>3. PICK a \in 0 .. Width - 1, b \in 0 .. Width - 1 : a = wake[t] /\ b = Count(ticks)
    BY <2>2
  <2>4. Width \in Nat \ {0}
    BY KernelAssumption
  <2>5. /\ a > b => (a - b) % Width = a - b
        /\ a < b => (a - b) % Width = a - b + Width
    BY <2>3, <2>4
  <2> QED
    BY <2>1, <2>3, <2>5 DEF Timed
<1> QED
  BY <1>1, SpecInv, PTL

-----------------------------------------------------------------------------
(* No wake-up is lost, where no interrupt handler calls the API for tasks.    *)

(* The two sides of the queue: what is waited for, by whom, and how much of   *)
(* it has been counted while the queue was locked.                           *)
Ways == {"send", "receive"}
Need(o) == IF o = "receive" THEN messages ELSE Length - messages
WaitsFor(o) == IF o = "receive" THEN waitReceive ELSE waitSend
LockOf(o) == IF o = "receive" THEN txLock ELSE rxLock
Posts(o) == IF LockOf(o) = Unlocked THEN 0 ELSE LockOf(o)

(* A call that will look again before it blocks; it sleeps only in a list.    *)
Going(t, o) == op[t] = o /\ pc[t] \in Sleepy \union {"first"} /\ goal[t] # "expired"
Listed == Range(waitSend) \union Range(waitReceive)
SureLook(o) == {t \in Tasks : Going(t, o) /\ t \notin Listed}

(* A list is not empty only while as many calls are on their way to the queue, *)
(* or have been counted in its lock, as it could serve; and a task that goes   *)
(* into the list has seen the queue as it was when it was locked.             *)
LookOf(o) ==
    /\ WaitsFor(o) # <<>> => Need(o) <= Cardinality(SureLook(o)) + Posts(o)
    /\ pc[cur] = "insert" /\ op[cur] = o => Need(o) <= Posts(o)
LookInv == \A o \in Ways : LookOf(o)

LEMMA SureFacts ==
    ASSUME NEW o
    PROVE  IsFiniteSet(SureLook(o)) /\ Cardinality(SureLook(o)) \in Nat /\ SureLook(o) \subseteq Tasks
<1>1. SureLook(o) \in SUBSET Tasks /\ IsFiniteSet(Tasks)
  BY KernelAssumption DEF SureLook
<1>2. IsFiniteSet(SureLook(o))
  BY <1>1, FS_Subset
<1> QED
  BY <1>1, <1>2, FS_CardinalityType

LEMMA NeedType ==
    ASSUME Inv, NEW o \in Ways
    PROVE  /\ Need(o) \in 0 .. Length /\ Posts(o) \in Nat /\ LockOf(o) \in Unlocked .. MaxLock
           /\ WaitsFor(o) \in Seq(Tasks) /\ Length \in Nat
           /\ \A t \in Range(WaitsFor(o)) : Going(t, o) /\ t \in Tasks
           /\ \A t \in Listed : op[t] = o => t \in Range(WaitsFor(o))
<1>1. /\ messages \in 0 .. Length /\ waitSend \in Seq(Tasks) /\ waitReceive \in Seq(Tasks)
      /\ txLock \in Unlocked .. MaxLock /\ rxLock \in Unlocked .. MaxLock
  BY Typed
<1>2. WaitInv(waitSend, "send") /\ WaitInv(waitReceive, "receive")
  BY DEF Inv, ListInv, WaitsInv
<1>3. Length \in Nat /\ MaxLock \in Nat
  BY KernelAssumption
<1>4. Range(waitSend) \subseteq Tasks /\ Range(waitReceive) \subseteq Tasks
  BY <1>1, RangeOfSeq DEF Range
<1>5. WaitsFor(o) \in Seq(Tasks) /\ WaitInv(WaitsFor(o), o) /\ Range(WaitsFor(o)) \subseteq Tasks
  BY <1>1, <1>2, <1>4 DEF Ways, WaitsFor
<1>6. \A t \in Listed : op[t] = o => t \in Range(WaitsFor(o))
  BY <1>2 DEF Ways, Listed, WaitInv, WaitsFor
<1>7. Need(o) \in 0 .. Length /\ LockOf(o) \in Unlocked .. MaxLock
  BY <1>1, <1>3 DEF Ways, Need, LockOf
<1>8. Posts(o) \in Nat
  BY <1>3, <1>7 DEF Posts, Unlocked
<1>9. \A t \in Range(WaitsFor(o)) : Going(t, o)
  BY <1>5 DEF WaitInv, Going
<1> QED
  BY <1>3, <1>5, <1>6, <1>7, <1>8, <1>9

(* Those who look are at least as many as before, and A more.                 *)
LEMMA LookMore ==
    ASSUME Inv, Inv', NEW o \in Ways, LookOf(o), NEW A \in SUBSET Tasks,
           \A u \in SureLook(o) : u \in SureLook(o)',
           \A u \in A : u \in SureLook(o)' /\ u \notin SureLook(o),
           WaitsFor(o)' # <<>> => /\ WaitsFor(o) # <<>>
                                  /\ Need(o)' + Posts(o) <= Need(o) + Posts(o)' + Cardinality(A),
           pc'[cur'] = "insert" /\ op'[cur'] = o => Need(o)' <= Posts(o)'
    PROVE  LookOf(o)'
<1>1. PICK S \in SUBSET Tasks : S = SureLook(o)
  BY SureFacts
<1>2. PICK T \in SUBSET Tasks : T = SureLook(o)'
  BY DEF SureLook
<1>3. IsFiniteSet(Tasks)
  BY KernelAssumption
<1>4. IsFiniteSet(S) /\ IsFiniteSet(T) /\ IsFiniteSet(A)
  BY <1>3, FS_Subset
<1>5. /\ Cardinality(S) \in Nat /\ Cardinality(T) \in Nat /\ Cardinality(A) \in Nat
  BY <1>4, FS_CardinalityType
<1>6. PICK U : U = S \union A
  OBVIOUS
<1>7. U \in SUBSET T /\ S \intersect A = {}
  BY <1>1, <1>2, <1>6
<1>8. Cardinality(U) = Cardinality(S) + Cardinality(A)
  <2>1. Cardinality(S \union A)
          = Cardinality(S) + Cardinality(A) - Cardinality(S \intersect A)
    BY <1>4, FS_Union
  <2>2. Cardinality({}) = 0
    BY FS_EmptySet
  <2>3. Cardinality(S \intersect A) = 0
    BY <1>7, <2>2
  <2> QED
    BY <1>5, <1>6, <2>1, <2>3
<1>9. Cardinality(S) + Cardinality(A) <= Cardinality(T)
  BY <1>4, <1>7, <1>8, FS_Subset
<1>10. PICK n \in Nat, m \in Nat, p \in Nat, q \in Nat :
           n = Need(o) /\ m = Need(o)' /\ p = Posts(o) /\ q = Posts(o)'
  <2>1. Need(o) \in Nat /\ Posts(o) \in Nat
    BY NeedType
  <2>2. Need(o)' \in Nat /\ Posts(o)' \in Nat
    <3>1. /\ messages' \in 0 .. Length /\ txLock' \in Unlocked .. MaxLock
          /\ rxLock' \in Unlocked .. MaxLock
      BY DEF Inv, Types, QueueType
    <3> QED
      BY <3>1, KernelAssumption DEF Ways, Need, Posts, LockOf, Unlocked
  <2> QED
    BY <2>1, <2>2
<1>11. ASSUME WaitsFor(o)' # <<>> PROVE m <= Cardinality(T) + q
  <2>1. WaitsFor(o) # <<>> /\ m + p <= n + q + Cardinality(A)
    BY <1>10, <1>11
  <2>2. n <= Cardinality(S) + p
    BY <1>1, <1>10, <2>1 DEF LookOf
  <2> QED
    BY <1>5, <1>9, <1>10, <2>1, <2>2
<1> QED
  BY <1>2, <1>10, <1>11 DEF LookOf

(* A step that leaves the queue as it is, and at most takes tasks off a list. *)
LEMMA LookQuiet ==
    ASSUME Inv, Inv', LookInv, messages' = messages,
           Posts("send")' = Posts("send"), Posts("receive")' = Posts("receive"),
           Range(waitSend') \subseteq Range(waitSend),
           Range(waitReceive') \subseteq Range(waitReceive),
           \A o \in Ways, u \in Tasks : Going(u, o) => Going(u, o)' \/ Need(o) = 0,
           \A o \in Ways : pc'[cur'] = "insert" /\ op'[cur'] = o => Need(o) = 0
    PROVE  LookInv'
<1> SUFFICES ASSUME NEW o \in Ways PROVE LookOf(o)'
  BY DEF LookInv
<1>1. LookOf(o)
  BY DEF LookInv
<1>2. Posts(o)' = Posts(o) /\ Need(o)' = Need(o) /\ Need(o) \in Nat /\ Posts(o) \in Nat
  BY NeedType DEF Ways, Need
<1>3. CASE Need(o) = 0
  <2>1. /\ SureLook(o)' \in SUBSET Tasks /\ IsFiniteSet(Tasks)
    BY KernelAssumption DEF SureLook
  <2>2. PICK T : T = SureLook(o)'
    OBVIOUS
  <2>3. IsFiniteSet(T)
    BY <2>1, <2>2, FS_Subset
  <2>4. Cardinality(T) \in Nat
    BY <2>3, FS_CardinalityType
  <2> QED
    BY <1>2, <1>3, <2>2, <2>4 DEF LookOf
<1>4. CASE Need(o) # 0
  <2>1. \A u \in SureLook(o) : u \in SureLook(o)'
    BY <1>4 DEF SureLook, Listed
  <2>2. WaitsFor(o)' # <<>> => WaitsFor(o) # <<>>
    <3>1. WaitsFor(o)' \in Seq(Tasks) /\ Range(WaitsFor(o)') \subseteq Range(WaitsFor(o))
      <4>1. waitSend' \in Seq(Tasks) /\ waitReceive' \in Seq(Tasks)
        BY DEF Inv, Types, QueueType
      <4> QED
        BY <4>1 DEF WaitsFor
    <3>2. PICK w : w = WaitsFor(o)'
      OBVIOUS
    <3>3. w # <<>> => Head(w) \in Range(w)
      BY <3>1, <3>2, TailFacts
    <3> QED
      BY <3>1, <3>2, <3>3, EmptyFacts
  <2>3. PICK A \in SUBSET Tasks : A = {}
    OBVIOUS
  <2>4. Cardinality(A) = 0
    BY <2>3, FS_EmptySet
  <2>5. Need(o)' + Posts(o) <= Need(o) + Posts(o)' + Cardinality(A)
    BY <1>2, <2>4
  <2>6. pc'[cur'] = "insert" /\ op'[cur'] = o => Need(o)' <= Posts(o)'
    BY <1>4
  <2> QED
    BY <1>1, <2>1, <2>2, <2>3, <2>5, <2>6, LookMore
<1> QED
  BY <1>3, <1>4

(* The steps that leave the queue as it is.                                   *)
LEMMA CallsLook ==
    ASSUME Inv, Inv', LookInv, NEW t \in Tasks, NEW o \in Operations[t], NEW w \in BlockTimes,
           Call(t, o, w)
    PROVE  LookInv'
<1>1. /\ cur = t /\ pc[t] = "run"
      /\ pc' = [pc EXCEPT ![t] = CASE o # "delay" -> "first"
                                   [] o = "delay" /\ w > 0 -> "suspend"
                                   [] o = "delay" /\ w = 0 -> "yield"]
      /\ op' = [op EXCEPT ![t] = o]
      /\ UNCHANGED <<goal, schedVars, queueVars>>
  BY DEF Call, Running
<1>2. /\ cur' = cur /\ messages' = messages /\ waitSend' = waitSend /\ waitReceive' = waitReceive
      /\ txLock' = txLock /\ rxLock' = rxLock /\ goal' = goal
  BY <1>1 DEF schedVars, queueVars
<1>3. /\ o \in {"send", "receive", "delay"} /\ w \in Nat
      /\ pc \in [Tasks -> Labels] /\ op \in [Tasks -> {"none", "send", "receive", "delay"}]
  <2>1. o \in {"send", "receive", "delay"}
    BY KernelAssumption
  <2>2. w \in Nat
    BY KernelAssumption, CountType
  <2> QED
    BY <2>1, <2>2, Typed
<1>4. pc'[t] \in {"first", "suspend", "yield"}
  <2>1. CASE o # "delay"
    <3>1. ~(o = "delay")
      BY <2>1
    <3> QED
      BY <1>1, <1>3, <3>1
  <2>2. CASE o = "delay" /\ w > 0
    BY <1>1, <1>3, <2>2
  <2>3. CASE o = "delay" /\ w = 0
    BY <1>1, <1>3, <2>3
  <2> QED
    BY <1>3, <2>1, <2>2, <2>3
<1>5. \A u \in Tasks \ {t} : pc'[u] = pc[u] /\ op'[u] = op[u]
  BY <1>1, <1>3
<1>6. \A x \in Ways, u \in Tasks : Going(u, x) => Going(u, x)' \/ Need(x) = 0
  <2>1. \A x \in Ways : ~Going(t, x)
    BY <1>1 DEF Going, Sleepy
  <2> QED
    BY <1>2, <1>5, <2>1 DEF Going
<1>7. \A x \in Ways : Posts(x)' = Posts(x)
  BY <1>2 DEF Posts, LockOf
<1> QED
  BY <1>1, <1>2, <1>4, <1>6, <1>7, LookQuiet DEF Ways

LEMMA RefusedLook ==
    ASSUME Inv, Inv', LookInv, NEW t \in Tasks, Refused(t)
    PROVE  LookInv'
<1>1. /\ cur = t /\ pc[t] \in {"first", "try"}
      /\ (op[t] = "send" /\ ~(messages < Length)) \/ (op[t] = "receive" /\ messages = 0)
      /\ Return(t) \/ (pc' = [pc EXCEPT ![t] = "suspend"] /\ UNCHANGED <<op, goal>>)
      /\ UNCHANGED <<schedVars, queueVars>>
  BY DEF Refused, Trying, Running, Room
<1>2. /\ cur' = cur /\ messages' = messages /\ waitSend' = waitSend /\ waitReceive' = waitReceive
      /\ txLock' = txLock /\ rxLock' = rxLock
  BY <1>1 DEF schedVars, queueVars
<1>3. CallType /\ messages \in 0 .. Length /\ Length \in Nat
  BY Typed, KernelAssumption DEF Inv, Types
<1>4. /\ \A u \in Tasks \ {t} : pc'[u] = pc[u] /\ op'[u] = op[u] /\ goal'[u] = goal[u]
      /\ pc'[t] \in {"run", "suspend"}
  <2>1. CASE Return(t)
    BY <1>3, <2>1, ReturnFacts
  <2>2. CASE pc' = [pc EXCEPT ![t] = "suspend"] /\ UNCHANGED <<op, goal>>
    BY <1>3, <2>2 DEF CallType
  <2> QED
    BY <1>1, <2>1, <2>2
<1>5. \A x \in Ways : op[t] = x => Need(x) = 0
  BY <1>1, <1>3 DEF Need
<1>6. \A x \in Ways, u \in Tasks : Going(u, x) => Going(u, x)' \/ Need(x) = 0
  BY <1>4, <1>5 DEF Going
<1>7. \A x \in Ways : Posts(x)' = Posts(x)
  BY <1>2 DEF Posts, LockOf
<1> QED
  BY <1>1, <1>2, <1>4, <1>6, <1>7, LookQuiet DEF Ways

(* The steps of a call that change at most the label of the task, its lock    *)
(* counts from unlocked to none, or its goal.                                *)
LEMMA LabelLook ==
    ASSUME Inv, Inv', LookInv, NEW t \in Tasks, cur = t, cur' = t,
           messages' = messages, waitSend' = waitSend, waitReceive' = waitReceive,
           Posts("send")' = Posts("send"), Posts("receive")' = Posts("receive"),
           \A u \in Tasks \ {t} : pc'[u] = pc[u] /\ op'[u] = op[u] /\ goal'[u] = goal[u],
           pc[t] \in Sleepy /\ op[t] # "delay" =>
               pc'[t] \in Sleepy /\ op'[t] = op[t] /\ goal'[t] # "expired",
           pc[t] # "first",
           pc'[t] = "insert" => \A o \in Ways : op'[t] = o => Need(o) = 0
    PROVE  LookInv'
<1>1. \A x \in Ways, u \in Tasks : Going(u, x) => Going(u, x)' \/ Need(x) = 0
  <2> SUFFICES ASSUME NEW x \in Ways, NEW u \in Tasks, Going(u, x) PROVE Going(u, x)'
    OBVIOUS
  <2>1. CASE u = t
    BY <2>1 DEF Going, Ways
  <2>2. CASE u # t
    BY <2>2 DEF Going
  <2> QED
    BY <2>1, <2>2
<1>2. \A o \in Ways : pc'[cur'] = "insert" /\ op'[cur'] = o => Need(o) = 0
  OBVIOUS
<1> QED
  BY <1>1, <1>2, LookQuiet

LEMMA SuspendLook ==
    ASSUME Inv, Inv', LookInv, NEW t \in Tasks, Suspend(t)
    PROVE  LookInv'
<1>1. /\ cur = t /\ pc[t] = "suspend" /\ Goto(t, IF op[t] = "delay" THEN "block" ELSE "lock")
      /\ UNCHANGED <<schedVars, queueVars>>
  BY DEF Suspend, Running
<1>2. /\ cur' = cur /\ messages' = messages /\ waitSend' = waitSend /\ waitReceive' = waitReceive
      /\ txLock' = txLock /\ rxLock' = rxLock
  BY <1>1 DEF schedVars, queueVars
<1>3. PICK l \in Labels : l = IF op[t] = "delay" THEN "block" ELSE "lock"
  BY DEF Labels
<1>4. /\ pc'[t] = l /\ (\A u \in Tasks \ {t} : pc'[u] = pc[u]) /\ op' = op /\ goal' = goal
      /\ l # "insert"
  BY <1>1, <1>3, GotoFacts DEF Inv, Types
<1>5. Posts("send")' = Posts("send") /\ Posts("receive")' = Posts("receive")
  BY <1>2 DEF Posts, LockOf
<1> QED
  BY <1>1, <1>2, <1>4, <1>5, LabelLook DEF Sleepy

LEMMA LockLook ==
    ASSUME Inv, Inv', LookInv, NEW t \in Tasks, Lock(t)
    PROVE  LookInv'
<1>1. /\ cur = t /\ pc[t] = "lock" /\ Goto(t, "check") /\ "check" \in Labels
      /\ txLock' = Locked(txLock) /\ rxLock' = Locked(rxLock)
      /\ UNCHANGED <<schedVars, messages, waitSend, waitReceive>>
  BY DEF Lock, Running, Labels
<1>2. cur' = cur /\ messages' = messages /\ waitSend' = waitSend /\ waitReceive' = waitReceive
  BY <1>1 DEF schedVars
<1>3. /\ pc'[t] = "check" /\ (\A u \in Tasks \ {t} : pc'[u] = pc[u]) /\ op' = op /\ goal' = goal
  BY <1>1, GotoFacts DEF Inv, Types
<1>4. Posts("send")' = Posts("send") /\ Posts("receive")' = Posts("receive")
  BY <1>1 DEF Posts, LockOf, Locked, Unlocked, Unmodified
<1> QED
  BY <1>1, <1>2, <1>3, <1>4, LabelLook DEF Sleepy

LEMMA CheckLook ==
    ASSUME Inv, Inv', LookInv, NEW t \in Tasks, Check(t)
    PROVE  LookInv'
<1>1. /\ cur = t /\ pc[t] = "check" /\ UNCHANGED <<schedVars, queueVars>>
      /\ \E l \in {"test", "unlockTx"} : pc' = [pc EXCEPT ![t] = l]
      /\ op' = op
      /\ goal' = goal \/ goal' = [goal EXCEPT ![t] = "expired"]
  BY DEF Check, Running, Goto
<1>2. /\ cur' = cur /\ messages' = messages /\ waitSend' = waitSend /\ waitReceive' = waitReceive
      /\ txLock' = txLock /\ rxLock' = rxLock
  BY <1>1 DEF schedVars, queueVars
<1>3. CallType
  BY DEF Inv, Types
<1>4. /\ pc'[t] \in {"test", "unlockTx"}
      /\ \A u \in Tasks \ {t} : pc'[u] = pc[u] /\ op'[u] = op[u] /\ goal'[u] = goal[u]
  BY <1>1, <1>3 DEF CallType
<1>5. Posts("send")' = Posts("send") /\ Posts("receive")' = Posts("receive")
  BY <1>2 DEF Posts, LockOf
<1> QED
  BY <1>1, <1>2, <1>4, <1>5, LabelLook DEF Sleepy

LEMMA TestLook ==
    ASSUME Inv, Inv', LookInv, NEW t \in Tasks, Test(t)
    PROVE  LookInv'
<1>1. /\ cur = t /\ pc[t] = "test" /\ UNCHANGED <<schedVars, queueVars>> /\ op' = op
      /\ \/ /\ messages = (IF op[t] = "send" THEN Length ELSE 0)
            /\ pc' = [pc EXCEPT ![t] = "insert"] /\ goal' = [goal EXCEPT ![t] = "sleep"]
         \/ pc' = [pc EXCEPT ![t] = "unlockTx"] /\ goal' = [goal EXCEPT ![t] = "retry"]
  BY DEF Test, Running
<1>2. /\ cur' = cur /\ messages' = messages /\ waitSend' = waitSend /\ waitReceive' = waitReceive
      /\ txLock' = txLock /\ rxLock' = rxLock
  BY <1>1 DEF schedVars, queueVars
<1>3. CallType /\ Length \in Nat
  BY KernelAssumption DEF Inv, Types
<1>4. /\ \A u \in Tasks \ {t} : pc'[u] = pc[u] /\ op'[u] = op[u] /\ goal'[u] = goal[u]
      /\ pc'[t] \in {"insert", "unlockTx"}
      /\ pc'[t] = "insert" => messages = (IF op[t] = "send" THEN Length ELSE 0)
  BY <1>1, <1>3 DEF CallType
<1>5. pc'[t] = "insert" => \A o \in Ways : op'[t] = o => Need(o) = 0
  BY <1>1, <1>3, <1>4 DEF Ways, Need
<1>6. Posts("send")' = Posts("send") /\ Posts("receive")' = Posts("receive")
  BY <1>2 DEF Posts, LockOf
<1> QED
  BY <1>1, <1>2, <1>4, <1>5, <1>6, LabelLook DEF Sleepy

LEMMA BlockLook ==
    ASSUME Inv, Inv', LookInv, NEW t \in Tasks, Block(t)
    PROVE  LookInv'
<1>1. /\ cur = t /\ pc[t] = "block" /\ UNCHANGED <<cur, queueVars, op>>
      /\ pc' = [pc EXCEPT ![t] = IF op[t] = "delay" THEN "resume" ELSE "unlockTx"]
      /\ goal' = [goal EXCEPT ![t] = "sleep"]
  BY DEF Block, Running
<1>2. /\ cur' = cur /\ messages' = messages /\ waitSend' = waitSend /\ waitReceive' = waitReceive
      /\ txLock' = txLock /\ rxLock' = rxLock /\ op' = op
  BY <1>1 DEF queueVars
<1>3. CallType
  BY DEF Inv, Types
<1>4. /\ \A u \in Tasks \ {t} : pc'[u] = pc[u] /\ op'[u] = op[u] /\ goal'[u] = goal[u]
      /\ pc'[t] \in {"resume", "unlockTx"} /\ goal'[t] = "sleep" /\ op'[t] = op[t]
  BY <1>1, <1>2, <1>3 DEF CallType
<1>5. Posts("send")' = Posts("send") /\ Posts("receive")' = Posts("receive")
  BY <1>2 DEF Posts, LockOf
<1> QED
  BY <1>1, <1>2, <1>4, <1>5, LabelLook DEF Sleepy

(* The steps after which the task that runs may be another one, none of them  *)
(* on its way into a list.                                                   *)
LEMMA SwitchLook ==
    ASSUME Inv, Inv', LookInv, suspended' = 0, messages' = messages,
           txLock' = txLock, rxLock' = rxLock,
           Range(waitSend') \subseteq Range(waitSend),
           Range(waitReceive') \subseteq Range(waitReceive),
           \A o \in Ways, u \in Tasks : Going(u, o) => Going(u, o)'
    PROVE  LookInv'
<1>1. pc'[cur'] # "insert"
  BY DEF Inv, ListInv, HoldInv, Held
<1>2. Posts("send")' = Posts("send") /\ Posts("receive")' = Posts("receive")
  BY DEF Posts, LockOf
<1>3. \A o \in Ways, u \in Tasks : Going(u, o) => Going(u, o)' \/ Need(o) = 0
  OBVIOUS
<1>4. \A o \in Ways : pc'[cur'] = "insert" /\ op'[cur'] = o => Need(o) = 0
  BY <1>1
<1> QED
  BY <1>2, <1>3, <1>4, LookQuiet

LEMMA LeaveLook ==
    ASSUME Inv, NEW t \in Tasks, pc[t] \in {"resume", "yield"},
           Leave(t) \/ Goto(t, "yield"), NEW o \in Ways, NEW u \in Tasks, Going(u, o)
    PROVE  Going(u, o)'
<1>1. CallType
  BY DEF Inv, Types
<1>2. CASE Leave(t)
  <2>1. /\ pc'[u] = pc[u] \/ (u = t /\ (Ends(t) \/ pc'[u] = "try"))
        /\ ~Ends(t) \/ u # t => op'[u] = op[u] /\ goal'[u] = goal[u]
    BY <1>1, <1>2, LeaveFacts
  <2>2. u = t => ~Ends(t)
    BY DEF Going, Ends, Ways
  <2> QED
    BY <2>1, <2>2 DEF Going, Sleepy
<1>3. CASE Goto(t, "yield")
  <2>1. "yield" \in Labels
    BY DEF Labels
  <2>2. /\ pc'[u] = pc[u] \/ pc'[u] = "yield"
        /\ op' = op /\ goal' = goal
    BY <1>1, <1>3, <2>1, GotoFacts
  <2> QED
    BY <2>2 DEF Going, Sleepy
<1> QED
  BY <1>2, <1>3

LEMMA ResumeAllLook ==
    ASSUME Inv, Inv', LookInv, NEW t \in Tasks, ResumeAll(t)
    PROVE  LookInv'
<1>1. /\ cur = t /\ pc[t] = "resume" /\ suspended' = 0
      /\ messages' = messages /\ txLock' = txLock /\ rxLock' = rxLock
      /\ waitSend' = Resumed.send /\ waitReceive' = Resumed.receive
      /\ Leave(t) \/ Goto(t, "yield")
  BY DEF ResumeAll, Running
<1>2. PICK pl : ClockOK(Resumed, pl, Range(waitSend), Range(waitReceive), owed)
  BY <1>1, ResumedFacts
<1>3. /\ Range(waitSend') \subseteq Range(waitSend)
      /\ Range(waitReceive') \subseteq Range(waitReceive)
  BY <1>1, <1>2 DEF ClockOK, ClockFrom
<1>4. \A o \in Ways, u \in Tasks : Going(u, o) => Going(u, o)'
  BY <1>1, LeaveLook
<1> QED
  BY <1>1, <1>3, <1>4, SwitchLook

LEMMA YieldLook ==
    ASSUME Inv, Inv', LookInv, NEW t \in Tasks, Yield(t)
    PROVE  LookInv'
<1>1. /\ cur = t /\ pc[t] = "yield" /\ suspended' = suspended
      /\ messages' = messages /\ txLock' = txLock /\ rxLock' = rxLock
      /\ waitSend' = waitSend /\ waitReceive' = waitReceive /\ Leave(t)
  BY DEF Yield, Running, queueVars
<1>2. suspended = 0
  BY <1>1, Typed DEF Inv, ListInv, HoldInv, Held
<1>3. \A o \in Ways, u \in Tasks : Going(u, o) => Going(u, o)'
  BY <1>1, LeaveLook
<1> QED
  BY <1>1, <1>2, <1>3, SwitchLook

LEMMA IdleLoopLook ==
    ASSUME Inv, Inv', LookInv, IdleLoop
    PROVE  LookInv'
<1>1. /\ cur = Idle /\ suspended' = suspended
      /\ messages' = messages /\ txLock' = txLock /\ rxLock' = rxLock
      /\ waitSend' = waitSend /\ waitReceive' = waitReceive
      /\ pc' = pc /\ op' = op /\ goal' = goal
  BY DEF IdleLoop, Running, queueVars, callVars
<1>2. suspended = 0
  BY <1>1, Typed DEF Inv, ListInv, IdleInv, HoldInv, Held
<1>3. \A o \in Ways, u \in Tasks : Going(u, o) => Going(u, o)'
  BY <1>1 DEF Going
<1> QED
  BY <1>1, <1>2, <1>3, SwitchLook

(* And those that change nothing that counts here.                            *)
LEMMA SameLook ==
    ASSUME LookInv, UNCHANGED <<cur, messages, txLock, rxLock, waitSend, waitReceive, pc, op, goal>>
    PROVE  LookInv'
<1> SUFFICES ASSUME NEW o \in Ways PROVE LookOf(o)'
  BY DEF LookInv
<1>1. LookOf(o)
  BY DEF LookInv
<1>2. SureLook(o)' = SureLook(o) /\ Need(o)' = Need(o) /\ Posts(o)' = Posts(o)
      /\ WaitsFor(o)' = WaitsFor(o)
  BY DEF SureLook, Going, Listed, Need, Posts, LockOf, WaitsFor
<1> QED
  BY <1>1, <1>2 DEF LookOf

LEMMA TickLook ==
    ASSUME Inv, Inv', LookInv, Tick
    PROVE  LookInv'
<1>1. /\ suspended' = suspended /\ messages' = messages /\ txLock' = txLock /\ rxLock' = rxLock
      /\ pc' = pc /\ op' = op /\ goal' = goal
  BY DEF Tick, callVars
<1>2. CASE suspended = 0
  <2>1. PICK n : n = Now
    OBVIOUS
  <2>2. waitSend' = Ticked(n).send /\ waitReceive' = Ticked(n).receive
    BY <1>2, <2>1 DEF Tick
  <2>3. PICK a, b : a = Range(waitSend) /\ b = Range(waitReceive)
    OBVIOUS
  <2>4. ClockOK(n, place, a, b, owed) /\ Types
    BY <1>2, <2>1, <2>3, NowOK DEF Inv
  <2>5. ClockOK(Ticked(n), place, a, b, owed)
    BY <2>4, TickedFacts
  <2>6. /\ Range(waitSend') \subseteq Range(waitSend)
        /\ Range(waitReceive') \subseteq Range(waitReceive)
    BY <2>2, <2>3, <2>5 DEF ClockOK, ClockFrom
  <2>7. \A o \in Ways, u \in Tasks : Going(u, o) => Going(u, o)'
    BY <1>1 DEF Going
  <2> QED
    BY <1>1, <1>2, <2>6, <2>7, SwitchLook
<1>3. CASE suspended # 0
  <2>1. /\ SwitchContext(ready, suspended) /\ suspended \in {0, 1}
        /\ UNCHANGED <<waitSend, waitReceive>>
    BY <1>3, Typed DEF Tick
  <2>2. cur' = cur
    BY <1>3, <2>1 DEF SwitchContext
  <2> QED
    BY <1>1, <2>1, <2>2, SameLook
<1> QED
  BY <1>2, <1>3

LEMMA InsertLook ==
    ASSUME Inv, Inv', LookInv, NEW t \in Tasks, Insert(t)
    PROVE  LookInv'
<1>1. /\ cur = t /\ pc[t] = "insert" /\ Goto(t, "block") /\ "block" \in Labels
      /\ messages' = messages /\ txLock' = txLock /\ rxLock' = rxLock /\ cur' = cur
      /\ IF op[t] = "send"
         THEN waitSend' = InOrder(waitSend, t) /\ waitReceive' = waitReceive
         ELSE waitReceive' = InOrder(waitReceive, t) /\ waitSend' = waitSend
  BY DEF Insert, Running, schedVars, Labels
<1>2. /\ pc'[t] = "block" /\ (\A u \in Tasks \ {t} : pc'[u] = pc[u]) /\ op' = op /\ goal' = goal
  BY <1>1, GotoFacts DEF Inv, Types
<1>3. op[t] \in Ways
  <2>1. PcOf(t) /\ op \in [Tasks -> {"none", "send", "receive", "delay"}]
    BY Typed DEF Inv, ListInv, PcInv
  <2> QED
    BY <1>1, <2>1 DEF PcOf, Ways
<1> SUFFICES ASSUME NEW o \in Ways PROVE LookOf(o)'
  BY DEF LookInv
<1>4. Need(o)' = Need(o) /\ Posts(o)' = Posts(o) /\ Need(o) \in Nat /\ Posts(o) \in Nat /\ LookOf(o)
  BY <1>1, NeedType DEF Need, Posts, LockOf, LookInv
<1>5. ~(pc'[cur'] = "insert")
  BY <1>1, <1>2
<1>6. CASE op[t] = o
  <2>1. Need(o) <= Posts(o)
    BY <1>1, <1>4, <1>6 DEF LookOf
  <2>2. PICK T \in SUBSET Tasks : T = SureLook(o)'
    BY DEF SureLook
  <2>3. Cardinality(T) \in Nat
    BY <2>2, KernelAssumption, FS_Subset, FS_CardinalityType
  <2> QED
    BY <1>4, <1>5, <2>1, <2>2, <2>3 DEF LookOf
<1>7. CASE op[t] # o
  <2>1. WaitsFor(o)' = WaitsFor(o)
    BY <1>1, <1>3, <1>7 DEF WaitsFor, Ways
  <2>2. ASSUME NEW u \in SureLook(o) PROVE u \in SureLook(o)'
    <3>1. u \in Tasks /\ u # t /\ Going(u, o) /\ u \notin Listed
      BY <1>7 DEF SureLook, Going
    <3>2. Going(u, o)'
      BY <1>2, <3>1 DEF Going
    <3>3. waitSend \in Seq(Tasks) /\ waitReceive \in Seq(Tasks) /\ waitSend' \in Seq(Tasks)
          /\ waitReceive' \in Seq(Tasks)
      BY Typed DEF Inv, Types, QueueType
    <3>4. u \notin Listed'
      <4>1. ASSUME u \in Listed' PROVE FALSE
        <5>1. Inv' /\ u \in Range(waitSend') \union Range(waitReceive')
          BY <4>1 DEF Listed
        <5>2. WaitInv(waitSend, "send")' /\ WaitInv(waitReceive, "receive")'
          BY DEF Inv, ListInv, WaitsInv
        <5>3. op'[u] = o
          BY <3>2 DEF Going
        <5>4. u \in Range(WaitsFor(o)')
          BY <5>1, <5>2, <5>3 DEF WaitInv, WaitsFor, Ways
        <5> QED
          BY <2>1, <3>1, <5>4 DEF Listed, WaitsFor
      <4> QED
        BY <4>1
    <3> QED
      BY <3>1, <3>2, <3>4 DEF SureLook
  <2>3. PICK A \in SUBSET Tasks : A = {}
    OBVIOUS
  <2>4. Cardinality(A) = 0
    BY <2>3, FS_EmptySet
  <2>5. Need(o)' + Posts(o) <= Need(o) + Posts(o)' + Cardinality(A)
    BY <1>4, <2>4
  <2> QED
    BY <1>4, <1>5, <2>1, <2>2, <2>3, <2>5, LookMore
<1> QED
  BY <1>6, <1>7

(* The steps that change the queue, its lists or its locks.                   *)
LEMMA ListedNext ==
    ASSUME Inv', NEW o \in Ways
    PROVE  \A u \in Listed' : op'[u] = o => u \in Range(WaitsFor(o)')
<1>1. WaitInv(waitSend, "send")' /\ WaitInv(waitReceive, "receive")'
  BY DEF Inv, ListInv, WaitsInv
<1> QED
  BY <1>1 DEF WaitInv, WaitsFor, Ways, Listed

(* One more to be taken, or to be put: the task that waited longest is woken. *)
LEMMA WakeLook ==
    ASSUME Inv, Inv', NEW o \in Ways, LookOf(o), WaitsFor(o)' = Rest(WaitsFor(o)),
           Listed' \subseteq Listed, Need(o)' = Need(o) + 1, Posts(o)' = Posts(o),
           pc'[cur'] # "insert", \A u \in Tasks : Going(u, o) => Going(u, o)'
    PROVE  LookOf(o)'
<1>1. PICK w \in Seq(Tasks) : w = WaitsFor(o) /\ Distinct(w) /\ Range(w) \subseteq Listed
  <2>1. WaitInv(waitSend, "send") /\ WaitInv(waitReceive, "receive")
    BY DEF Inv, ListInv, WaitsInv
  <2>2. WaitsFor(o) \in Seq(Tasks)
    BY NeedType
  <2> QED
    BY <2>1, <2>2 DEF WaitInv, WaitsFor, Listed
<1>2. CASE w = <<>>
  <2>1. WaitsFor(o)' = <<>>
    BY <1>1, <1>2 DEF Rest
  <2> QED
    BY <2>1 DEF LookOf
<1>3. CASE w # <<>>
  <2>1. WaitsFor(o)' = Tail(w)
    BY <1>1, <1>3 DEF Rest
  <2>2. PICK h \in Tasks : h = Head(w) /\ h \in Range(w) /\ h \notin Range(Tail(w))
    BY <1>1, <1>3, TailFacts, HeadTailProperties
  <2>3. Going(h, o)
    BY <1>1, <2>2, NeedType
  <2>4. h \notin SureLook(o)
    BY <1>1, <2>2 DEF SureLook
  <2>5. h \in SureLook(o)'
    <3>1. Going(h, o)'
      BY <2>3
    <3>2. h \notin Listed'
      BY <2>1, <2>2, <3>1, ListedNext DEF Going
    <3> QED
      BY <3>1, <3>2 DEF SureLook
  <2>6. \A u \in SureLook(o) : u \in SureLook(o)'
    BY DEF SureLook
  <2>7. PICK A \in SUBSET Tasks : A = {h}
    OBVIOUS
  <2>8. Cardinality(A) = 1
    BY <2>7, FS_Singleton
  <2>9. Need(o)' + Posts(o) <= Need(o) + Posts(o)' + Cardinality(A)
    BY <2>8, NeedType
  <2> QED
    BY <1>1, <1>3, <2>4, <2>5, <2>6, <2>7, <2>9, LookMore
<1> QED
  BY <1>2, <1>3

(* One less: and at most one that was on its way has come.                    *)
LEMMA LessLook ==
    ASSUME Inv, Inv', NEW o \in Ways, LookOf(o), WaitsFor(o)' = WaitsFor(o),
           Listed' \subseteq Listed, Need(o)' = Need(o) - 1, Posts(o)' = Posts(o),
           pc'[cur'] = "insert" /\ op'[cur'] = o => Need(o)' <= Posts(o)',
           NEW t, \A u \in Tasks \ {t} : Going(u, o) => Going(u, o)'
    PROVE  LookOf(o)'
<1>1. PICK S \in SUBSET Tasks : S = SureLook(o)
  BY SureFacts
<1>2. PICK T \in SUBSET Tasks : T = SureLook(o)'
  BY DEF SureLook
<1>3. IsFiniteSet(Tasks)
  BY KernelAssumption
<1>4. IsFiniteSet(S) /\ IsFiniteSet(T)
  BY <1>3, FS_Subset
<1>5. Cardinality(S) \in Nat /\ Cardinality(T) \in Nat
  BY <1>4, FS_CardinalityType
<1>6. PICK U : U = S \ {t}
  OBVIOUS
<1>7. U \in SUBSET T
  BY <1>1, <1>2, <1>6 DEF SureLook
<1>8. Cardinality(U) \in {Cardinality(S), Cardinality(S) - 1}
  BY <1>4, <1>6, FS_RemoveElement
<1>9. Cardinality(U) <= Cardinality(T)
  BY <1>4, <1>7, FS_Subset
<1>10. Need(o) \in Nat /\ Posts(o) \in Nat
  BY NeedType
<1>11. ASSUME WaitsFor(o)' # <<>> PROVE Need(o)' <= Cardinality(T) + Posts(o)'
  <2>1. Need(o) <= Cardinality(S) + Posts(o)
    BY <1>1, <1>11 DEF LookOf
  <2> QED
    BY <1>5, <1>8, <1>9, <1>10, <2>1
<1> QED
  BY <1>2, <1>11 DEF LookOf

(* The queue is unlocked: as many tasks leave the list as were counted.       *)
LEMMA UnlockLook ==
    ASSUME Inv, Inv', NEW o \in Ways, LookOf(o), LockOf(o) \in Nat, LockOf(o)' = Unlocked,
           WaitsFor(o)' = Unserved(WaitsFor(o), LockOf(o)),
           Listed' \subseteq Listed, Need(o)' = Need(o),
           pc'[cur'] # "insert", \A u \in Tasks : Going(u, o) => Going(u, o)'
    PROVE  LookOf(o)'
<1>1. PICK w \in Seq(Tasks) : w = WaitsFor(o) /\ Distinct(w) /\ Range(w) \subseteq Listed
  <2>1. WaitInv(waitSend, "send") /\ WaitInv(waitReceive, "receive")
    BY DEF Inv, ListInv, WaitsInv
  <2>2. WaitsFor(o) \in Seq(Tasks)
    BY NeedType
  <2> QED
    BY <2>1, <2>2 DEF WaitInv, WaitsFor, Listed
<1>2. PICK l \in Nat : l = LockOf(o)
  OBVIOUS
<1>3. Posts(o) = l /\ Posts(o)' = 0 /\ Need(o) \in Nat
  BY <1>2, NeedType DEF Posts, Unlocked
<1>4. PICK s, n : s = Served(w, l) /\ n = Unserved(w, l)
  OBVIOUS
<1>5. /\ s \in Seq(Tasks) /\ Distinct(s) /\ n \in Seq(Tasks)
      /\ Range(s) \union Range(n) = Range(w) /\ Range(s) \intersect Range(n) = {}
      /\ n # <<>> => Len(s) = l
  BY <1>1, <1>2, <1>4, ServedFacts
<1>6. WaitsFor(o)' = n
  BY <1>1, <1>2, <1>4
<1>7. PICK A \in SUBSET Tasks : A = Range(s)
  <2>1. Range(s) \subseteq Tasks
    BY <1>5, RangeOfSeq DEF Range
  <2> QED
    BY <2>1
<1>8. Cardinality(A) = Len(s)
  BY <1>5, <1>7, DistinctLength
<1>9. \A u \in SureLook(o) : u \in SureLook(o)'
  BY DEF SureLook
<1>10. ASSUME NEW u \in A PROVE u \in SureLook(o)' /\ u \notin SureLook(o)
  <2>1. u \in Tasks /\ u \in Range(w) /\ u \notin Range(n)
    BY <1>5, <1>7
  <2>2. Going(u, o)
    BY <1>1, <2>1, NeedType
  <2>3. Going(u, o)'
    BY <2>1, <2>2
  <2>4. u \notin Listed'
    BY <1>6, <2>1, <2>3, ListedNext DEF Going
  <2> QED
    BY <1>1, <2>1, <2>3, <2>4 DEF SureLook
<1>11. n # <<>> => w # <<>>
  BY <1>5, TailFacts, EmptyFacts
<1>12. n # <<>> => Need(o)' + Posts(o) <= Need(o) + Posts(o)' + Cardinality(A)
  BY <1>3, <1>5, <1>8
<1> QED
  BY <1>1, <1>6, <1>9, <1>10, <1>11, <1>12, LookMore

(* The other side of the queue stays as it is.                                *)
LEMMA SideLook ==
    ASSUME Inv, Inv', NEW o \in Ways, LookOf(o), WaitsFor(o)' = WaitsFor(o),
           Listed' \subseteq Listed, Need(o)' = Need(o), Posts(o)' = Posts(o),
           pc'[cur'] # "insert", \A u \in Tasks : Going(u, o) => Going(u, o)'
    PROVE  LookOf(o)'
<1>1. \A u \in SureLook(o) : u \in SureLook(o)'
  BY DEF SureLook
<1>2. PICK A \in SUBSET Tasks : A = {}
  OBVIOUS
<1>3. Cardinality(A) = 0
  BY <1>2, FS_EmptySet
<1>4. Need(o)' + Posts(o) <= Need(o) + Posts(o)' + Cardinality(A)
  BY <1>3, NeedType
<1> QED
  BY <1>1, <1>2, <1>4, LookMore

(* What is left of a list.                                                    *)
LEMMA RestFacts ==
    ASSUME NEW w \in Seq(Tasks), NEW n, n = Rest(w)
    PROVE  Range(n) \subseteq Range(w)
<1>1. CASE w = <<>>
  BY <1>1 DEF Rest
<1>2. CASE w # <<>>
  BY <1>2, TailFacts DEF Rest
<1> QED
  BY <1>1, <1>2

(* With the queue unlocked, nobody goes into its lists.                       *)
LEMMA UnlockedNext ==
    ASSUME Inv', txLock' = Unlocked \/ rxLock' = Unlocked
    PROVE  pc'[cur'] # "insert"
BY DEF Inv, ListInv, HoldInv, TxHeld

LEMMA SendLook ==
    ASSUME Inv, Inv', LookInv, NEW t \in Tasks, Send(t)
    PROVE  LookInv'
<1>1. /\ cur = t /\ pc[t] \in {"first", "try"} /\ op[t] = "send" /\ messages' = messages + 1
      /\ waitReceive' = Rest(waitReceive) /\ waitSend' = waitSend /\ Return(t)
      /\ txLock' = txLock /\ rxLock' = rxLock
  BY DEF Send, Trying, Running
<1>2. txLock = Unlocked
  <2>1. HoldInv /\ pc[cur] \notin Held
    BY <1>1 DEF Inv, ListInv, Held
  <2> QED
    BY <2>1 DEF HoldInv, TxHeld, Held
<1>3. pc'[cur'] # "insert"
  BY <1>1, <1>2, UnlockedNext
<1>4. \A u \in Tasks \ {t} : pc'[u] = pc[u] /\ op'[u] = op[u] /\ goal'[u] = goal[u]
  BY <1>1, ReturnFacts DEF Inv, Types
<1>5. waitSend \in Seq(Tasks) /\ waitReceive \in Seq(Tasks) /\ messages \in Nat /\ Length \in Nat
  <2>1. messages \in 0 .. Length
    BY Typed
  <2> QED
    BY <2>1, Typed, KernelAssumption
<1>6. Listed' \subseteq Listed
  BY <1>1, <1>5, RestFacts DEF Listed
<1>7. LookOf("receive")'
  <2>1. LookOf("receive") /\ "receive" \in Ways
    BY DEF LookInv, Ways
  <2>2. /\ WaitsFor("receive")' = Rest(WaitsFor("receive"))
        /\ Need("receive")' = Need("receive") + 1 /\ Posts("receive")' = Posts("receive")
    BY <1>1, <1>5 DEF WaitsFor, Need, Posts, LockOf
  <2>3. \A u \in Tasks : Going(u, "receive") => Going(u, "receive")'
    BY <1>1, <1>4 DEF Going
  <2> QED
    BY <1>3, <1>6, <2>1, <2>2, <2>3, WakeLook
<1>8. LookOf("send")'
  <2>1. LookOf("send") /\ "send" \in Ways
    BY DEF LookInv, Ways
  <2>2. /\ WaitsFor("send")' = WaitsFor("send")
        /\ Need("send")' = Need("send") - 1 /\ Posts("send")' = Posts("send")
    BY <1>1, <1>5 DEF WaitsFor, Need, Posts, LockOf
  <2>3. \A u \in Tasks \ {t} : Going(u, "send") => Going(u, "send")'
    BY <1>4 DEF Going
  <2> QED
    BY <1>3, <1>6, <2>1, <2>2, <2>3, LessLook
<1> QED
  BY <1>7, <1>8 DEF LookInv, Ways

LEMMA ReceiveLook ==
    ASSUME Inv, Inv', LookInv, NEW t \in Tasks, Receive(t)
    PROVE  LookInv'
<1>1. /\ cur = t /\ pc[t] \in {"first", "try"} /\ op[t] = "receive" /\ messages' = messages - 1
      /\ waitSend' = Rest(waitSend) /\ waitReceive' = waitReceive /\ Return(t)
      /\ txLock' = txLock /\ rxLock' = rxLock
  BY DEF Receive, Trying, Running
<1>2. txLock = Unlocked
  <2>1. HoldInv /\ pc[cur] \notin Held
    BY <1>1 DEF Inv, ListInv, Held
  <2> QED
    BY <2>1 DEF HoldInv, TxHeld, Held
<1>3. pc'[cur'] # "insert"
  BY <1>1, <1>2, UnlockedNext
<1>4. \A u \in Tasks \ {t} : pc'[u] = pc[u] /\ op'[u] = op[u] /\ goal'[u] = goal[u]
  BY <1>1, ReturnFacts DEF Inv, Types
<1>5. waitSend \in Seq(Tasks) /\ waitReceive \in Seq(Tasks) /\ messages \in Nat /\ Length \in Nat
  <2>1. messages \in 0 .. Length
    BY Typed
  <2> QED
    BY <2>1, Typed, KernelAssumption
<1>6. Listed' \subseteq Listed
  BY <1>1, <1>5, RestFacts DEF Listed
<1>7. LookOf("send")'
  <2>1. LookOf("send") /\ "send" \in Ways
    BY DEF LookInv, Ways
  <2>2. /\ WaitsFor("send")' = Rest(WaitsFor("send"))
        /\ Need("send")' = Need("send") + 1 /\ Posts("send")' = Posts("send")
    BY <1>1, <1>5 DEF WaitsFor, Need, Posts, LockOf
  <2>3. \A u \in Tasks : Going(u, "send") => Going(u, "send")'
    BY <1>1, <1>4 DEF Going
  <2> QED
    BY <1>3, <1>6, <2>1, <2>2, <2>3, WakeLook
<1>8. LookOf("receive")'
  <2>1. LookOf("receive") /\ "receive" \in Ways
    BY DEF LookInv, Ways
  <2>2. /\ WaitsFor("receive")' = WaitsFor("receive")
        /\ Need("receive")' = Need("receive") - 1 /\ Posts("receive")' = Posts("receive")
    BY <1>1, <1>5 DEF WaitsFor, Need, Posts, LockOf
  <2>3. \A u \in Tasks \ {t} : Going(u, "receive") => Going(u, "receive")'
    BY <1>4 DEF Going
  <2> QED
    BY <1>3, <1>6, <2>1, <2>2, <2>3, LessLook
<1> QED
  BY <1>7, <1>8 DEF LookInv, Ways

LEMMA IsrSendLook ==
    ASSUME Inv, Inv', LookInv, IsrSend, TaskApi = FALSE
    PROVE  LookInv'
<1>1. /\ messages' = messages + 1 /\ waitSend' = waitSend /\ rxLock' = rxLock
      /\ pc' = pc /\ op' = op /\ goal' = goal
  BY DEF IsrSend, callVars
<1>2. /\ waitSend \in Seq(Tasks) /\ waitReceive \in Seq(Tasks) /\ messages \in Nat /\ Length \in Nat
      /\ txLock \in Unlocked .. MaxLock
  <2>1. messages \in 0 .. Length
    BY Typed
  <2> QED
    BY <2>1, Typed, KernelAssumption
<1>3. /\ LookOf("receive") /\ "receive" \in Ways /\ LookOf("send") /\ "send" \in Ways
  BY DEF LookInv, Ways
<1>4. \A u, o : Going(u, o) => Going(u, o)'
  BY <1>1 DEF Going
<1>5. Need("receive")' = Need("receive") + 1 /\ Need("send")' = Need("send") - 1
  BY <1>1, <1>2 DEF Need
<1>6. WaitsFor("send")' = WaitsFor("send") /\ Posts("send")' = Posts("send")
  BY <1>1 DEF WaitsFor, Posts, LockOf
<1>7. CASE txLock = Unlocked
  <2>1. waitReceive' = Rest(waitReceive) /\ txLock' = txLock
    BY <1>7 DEF IsrSend
  <2>2. pc'[cur'] # "insert"
    BY <1>7, <2>1, UnlockedNext
  <2>3. Listed' \subseteq Listed
    BY <1>1, <1>2, <2>1, RestFacts DEF Listed
  <2>4. WaitsFor("receive")' = Rest(WaitsFor("receive")) /\ Posts("receive")' = Posts("receive")
    BY <2>1 DEF WaitsFor, Posts, LockOf
  <2>5. LookOf("receive")'
    BY <1>3, <1>4, <1>5, <2>2, <2>3, <2>4, WakeLook
  <2>6. LookOf("send")'
    <3>1. PICK t \in Tasks : t = Idle
      BY KernelAssumption
    <3> QED
      BY <1>3, <1>4, <1>5, <1>6, <2>2, <2>3, <3>1, LessLook
  <2> QED
    BY <2>5, <2>6 DEF LookInv, Ways
<1>8. CASE txLock # Unlocked
  <2>1. txLock' = txLock + 1 /\ waitReceive' = waitReceive /\ cur' = cur
    BY <1>8 DEF IsrSend, schedVars
  <2>2. Listed' = Listed
    BY <1>1, <2>1 DEF Listed
  <2>3. WaitsFor("receive")' = WaitsFor("receive") /\ Posts("receive")' = Posts("receive") + 1
    BY <1>2, <1>8, <2>1, KernelAssumption DEF WaitsFor, Posts, LockOf, Unlocked
  <2>4. LookOf("receive")'
    <3>1. \A u \in SureLook("receive") : u \in SureLook("receive")'
      BY <1>4, <2>2 DEF SureLook
    <3>2. PICK A \in SUBSET Tasks : A = {}
      OBVIOUS
    <3>3. Cardinality(A) = 0
      BY <3>2, FS_EmptySet
    <3>4. Need("receive") \in Nat /\ Posts("receive") \in Nat
      BY <1>3, NeedType
    <3>5. Need("receive")' + Posts("receive") <= Need("receive") + Posts("receive")' + Cardinality(A)
      BY <1>5, <2>3, <3>3, <3>4
    <3>6. pc'[cur'] = "insert" /\ op'[cur'] = "receive" => Need("receive")' <= Posts("receive")'
      BY <1>1, <1>3, <1>5, <2>1, <2>3, <3>4 DEF LookOf
    <3> QED
      BY <1>3, <2>3, <3>1, <3>2, <3>5, <3>6, LookMore
  <2>5. LookOf("send")'
    <3>1. PICK t \in Tasks : t = Idle
      BY KernelAssumption
    <3>2. Need("send") \in Nat /\ Posts("send") \in Nat
      BY <1>3, NeedType
    <3>3. pc'[cur'] = "insert" /\ op'[cur'] = "send" => Need("send")' <= Posts("send")'
      BY <1>1, <1>3, <1>5, <1>6, <2>1, <3>2 DEF LookOf
    <3> QED
      BY <1>3, <1>4, <1>5, <1>6, <2>2, <3>1, <3>3, LessLook
  <2> QED
    BY <2>4, <2>5 DEF LookInv, Ways
<1> QED
  BY <1>7, <1>8

LEMMA IsrReceiveLook ==
    ASSUME Inv, Inv', LookInv, IsrReceive
    PROVE  LookInv'
<1>1. /\ messages' = messages - 1 /\ waitReceive' = waitReceive /\ txLock' = txLock
      /\ pc' = pc /\ op' = op /\ goal' = goal
  BY DEF IsrReceive, callVars
<1>2. /\ waitSend \in Seq(Tasks) /\ waitReceive \in Seq(Tasks) /\ messages \in Nat /\ Length \in Nat
      /\ rxLock \in Unlocked .. MaxLock
  <2>1. messages \in 0 .. Length
    BY Typed
  <2> QED
    BY <2>1, Typed, KernelAssumption
<1>3. /\ LookOf("send") /\ "send" \in Ways /\ LookOf("receive") /\ "receive" \in Ways
  BY DEF LookInv, Ways
<1>4. \A u, o : Going(u, o) => Going(u, o)'
  BY <1>1 DEF Going
<1>5. Need("send")' = Need("send") + 1 /\ Need("receive")' = Need("receive") - 1
  BY <1>1, <1>2 DEF Need
<1>6. WaitsFor("receive")' = WaitsFor("receive") /\ Posts("receive")' = Posts("receive")
  BY <1>1 DEF WaitsFor, Posts, LockOf
<1>7. CASE rxLock = Unlocked
  <2>1. waitSend' = Rest(waitSend) /\ rxLock' = rxLock
    BY <1>7 DEF IsrReceive
  <2>2. pc'[cur'] # "insert"
    BY <1>7, <2>1, UnlockedNext
  <2>3. Listed' \subseteq Listed
    BY <1>1, <1>2, <2>1, RestFacts DEF Listed
  <2>4. WaitsFor("send")' = Rest(WaitsFor("send")) /\ Posts("send")' = Posts("send")
    BY <2>1 DEF WaitsFor, Posts, LockOf
  <2>5. LookOf("send")'
    BY <1>3, <1>4, <1>5, <2>2, <2>3, <2>4, WakeLook
  <2>6. LookOf("receive")'
    <3>1. PICK t \in Tasks : t = Idle
      BY KernelAssumption
    <3> QED
      BY <1>3, <1>4, <1>5, <1>6, <2>2, <2>3, <3>1, LessLook
  <2> QED
    BY <2>5, <2>6 DEF LookInv, Ways
<1>8. CASE rxLock # Unlocked
  <2>1. rxLock' = rxLock + 1 /\ waitSend' = waitSend /\ cur' = cur
    BY <1>8 DEF IsrReceive, schedVars
  <2>2. Listed' = Listed
    BY <1>1, <2>1 DEF Listed
  <2>3. WaitsFor("send")' = WaitsFor("send") /\ Posts("send")' = Posts("send") + 1
    BY <1>2, <1>8, <2>1, KernelAssumption DEF WaitsFor, Posts, LockOf, Unlocked
  <2>4. LookOf("send")'
    <3>1. \A u \in SureLook("send") : u \in SureLook("send")'
      BY <1>4, <2>2 DEF SureLook
    <3>2. PICK A \in SUBSET Tasks : A = {}
      OBVIOUS
    <3>3. Cardinality(A) = 0
      BY <3>2, FS_EmptySet
    <3>4. Need("send") \in Nat /\ Posts("send") \in Nat
      BY <1>3, NeedType
    <3>5. Need("send")' + Posts("send") <= Need("send") + Posts("send")' + Cardinality(A)
      BY <1>5, <2>3, <3>3, <3>4
    <3>6. pc'[cur'] = "insert" /\ op'[cur'] = "send" => Need("send")' <= Posts("send")'
      BY <1>1, <1>3, <1>5, <2>1, <2>3, <3>4 DEF LookOf
    <3> QED
      BY <1>3, <2>3, <3>1, <3>2, <3>5, <3>6, LookMore
  <2>5. LookOf("receive")'
    <3>1. PICK t \in Tasks : t = Idle
      BY KernelAssumption
    <3>2. Need("receive") \in Nat /\ Posts("receive") \in Nat
      BY <1>3, NeedType
    <3>3. pc'[cur'] = "insert" /\ op'[cur'] = "receive" => Need("receive")' <= Posts("receive")'
      BY <1>1, <1>3, <1>5, <1>6, <2>1, <3>2 DEF LookOf
    <3> QED
      BY <1>3, <1>4, <1>5, <1>6, <2>2, <3>1, <3>3, LessLook
  <2> QED
    BY <2>4, <2>5 DEF LookInv, Ways
<1> QED
  BY <1>7, <1>8

LEMMA UnlockTxLook ==
    ASSUME Inv, Inv', LookInv, NEW t \in Tasks, UnlockTx(t)
    PROVE  LookInv'
<1>1. /\ cur = t /\ pc[t] = "unlockTx" /\ Goto(t, "unlockRx") /\ txLock' = Unlocked
      /\ waitReceive' = Unserved(waitReceive, txLock) /\ waitSend' = waitSend /\ rxLock' = rxLock /\ messages' = messages
      /\ "unlockRx" \in Labels
  BY DEF UnlockTx, Running, Labels
<1>2. pc'[cur'] # "insert"
  BY <1>1, UnlockedNext
<1>3. /\ pc'[t] = "unlockRx" /\ (\A u \in Tasks \ {t} : pc'[u] = pc[u]) /\ op' = op /\ goal' = goal
  BY <1>1, GotoFacts DEF Inv, Types
<1>4. /\ waitSend \in Seq(Tasks) /\ waitReceive \in Seq(Tasks) /\ txLock \in Nat
  <2>1. HoldInv /\ txLock \in Unlocked .. MaxLock
    BY Typed DEF Inv, ListInv
  <2>2. txLock # Unlocked
    BY <1>1, <2>1 DEF HoldInv, TxHeld
  <2> QED
    BY <2>1, <2>2, Typed, KernelAssumption DEF Unlocked
<1>5. WaitInv(waitReceive, "receive")
  BY DEF Inv, ListInv, WaitsInv
<1>6. Listed' \subseteq Listed
  <2>1. PICK w, l : w = waitReceive /\ l = txLock
    OBVIOUS
  <2>2. w \in Seq(Tasks) /\ Distinct(w) /\ l \in Nat
    BY <1>4, <1>5, <2>1 DEF WaitInv
  <2>3. Range(Unserved(w, l)) \subseteq Range(w)
    BY <2>2, ServedFacts
  <2> QED
    BY <1>1, <2>1, <2>3 DEF Listed
<1>7. \A u \in Tasks, o \in Ways : Going(u, o) => Going(u, o)'
  <2>1. \A u \in Tasks : pc[u] \in Sleepy \union {"first"} => pc'[u] \in Sleepy \union {"first"}
    BY <1>3 DEF Sleepy
  <2> QED
    BY <1>3, <2>1 DEF Going
<1>8. /\ LookOf("receive") /\ "receive" \in Ways /\ LookOf("send") /\ "send" \in Ways
  BY DEF LookInv, Ways
<1>9. LookOf("receive")'
  <2>1. /\ LockOf("receive") \in Nat /\ LockOf("receive")' = Unlocked /\ Need("receive")' = Need("receive")
        /\ WaitsFor("receive")' = Unserved(WaitsFor("receive"), LockOf("receive"))
    BY <1>1, <1>4 DEF LockOf, Need, WaitsFor
  <2> QED
    BY <1>2, <1>6, <1>7, <1>8, <2>1, UnlockLook
<1>10. LookOf("send")'
  <2>1. /\ WaitsFor("send")' = WaitsFor("send") /\ Need("send")' = Need("send")
        /\ Posts("send")' = Posts("send")
    BY <1>1 DEF LockOf, Posts, Need, WaitsFor
  <2> QED
    BY <1>2, <1>6, <1>7, <1>8, <2>1, SideLook
<1> QED
  BY <1>9, <1>10 DEF LookInv, Ways

LEMMA UnlockRxLook ==
    ASSUME Inv, Inv', LookInv, NEW t \in Tasks, UnlockRx(t)
    PROVE  LookInv'
<1>1. /\ cur = t /\ pc[t] = "unlockRx" /\ Goto(t, "resume") /\ rxLock' = Unlocked
      /\ waitSend' = Unserved(waitSend, rxLock) /\ waitReceive' = waitReceive /\ txLock' = txLock /\ messages' = messages
      /\ "resume" \in Labels
  BY DEF UnlockRx, Running, Labels
<1>2. pc'[cur'] # "insert"
  BY <1>1, UnlockedNext
<1>3. /\ pc'[t] = "resume" /\ (\A u \in Tasks \ {t} : pc'[u] = pc[u]) /\ op' = op /\ goal' = goal
  BY <1>1, GotoFacts DEF Inv, Types
<1>4. /\ waitSend \in Seq(Tasks) /\ waitReceive \in Seq(Tasks) /\ rxLock \in Nat
  <2>1. HoldInv /\ rxLock \in Unlocked .. MaxLock
    BY Typed DEF Inv, ListInv
  <2>2. rxLock # Unlocked
    BY <1>1, <2>1 DEF HoldInv, TxHeld
  <2> QED
    BY <2>1, <2>2, Typed, KernelAssumption DEF Unlocked
<1>5. WaitInv(waitSend, "send")
  BY DEF Inv, ListInv, WaitsInv
<1>6. Listed' \subseteq Listed
  <2>1. PICK w, l : w = waitSend /\ l = rxLock
    OBVIOUS
  <2>2. w \in Seq(Tasks) /\ Distinct(w) /\ l \in Nat
    BY <1>4, <1>5, <2>1 DEF WaitInv
  <2>3. Range(Unserved(w, l)) \subseteq Range(w)
    BY <2>2, ServedFacts
  <2> QED
    BY <1>1, <2>1, <2>3 DEF Listed
<1>7. \A u \in Tasks, o \in Ways : Going(u, o) => Going(u, o)'
  <2>1. \A u \in Tasks : pc[u] \in Sleepy \union {"first"} => pc'[u] \in Sleepy \union {"first"}
    BY <1>3 DEF Sleepy
  <2> QED
    BY <1>3, <2>1 DEF Going
<1>8. /\ LookOf("send") /\ "send" \in Ways /\ LookOf("receive") /\ "receive" \in Ways
  BY DEF LookInv, Ways
<1>9. LookOf("send")'
  <2>1. /\ LockOf("send") \in Nat /\ LockOf("send")' = Unlocked /\ Need("send")' = Need("send")
        /\ WaitsFor("send")' = Unserved(WaitsFor("send"), LockOf("send"))
    BY <1>1, <1>4 DEF LockOf, Need, WaitsFor
  <2> QED
    BY <1>2, <1>6, <1>7, <1>8, <2>1, UnlockLook
<1>10. LookOf("receive")'
  <2>1. /\ WaitsFor("receive")' = WaitsFor("receive") /\ Need("receive")' = Need("receive")
        /\ Posts("receive")' = Posts("receive")
    BY <1>1 DEF LockOf, Posts, Need, WaitsFor
  <2> QED
    BY <1>2, <1>6, <1>7, <1>8, <2>1, SideLook
<1> QED
  BY <1>9, <1>10 DEF LookInv, Ways

LEMMA NextLook ==
    ASSUME TaskApi = FALSE, Inv, Inv', LookInv, [Next]_vars
    PROVE  LookInv'
<1>1. CASE Calls
  BY <1>1, CallsLook DEF Calls
<1>2. ASSUME NEW t \in Tasks, Step(t) PROVE LookInv'
  <2>1. CASE Send(t)
    BY <2>1, SendLook
  <2>2. CASE Receive(t)
    BY <2>2, ReceiveLook
  <2>3. CASE Refused(t)
    BY <2>3, RefusedLook
  <2>4. CASE Suspend(t)
    BY <2>4, SuspendLook
  <2>5. CASE Lock(t)
    BY <2>5, LockLook
  <2>6. CASE Check(t)
    BY <2>6, CheckLook
  <2>7. CASE Test(t)
    BY <2>7, TestLook
  <2>8. CASE Insert(t)
    BY <2>8, InsertLook
  <2>9. CASE Block(t)
    BY <2>9, BlockLook
  <2>10. CASE UnlockTx(t)
    BY <2>10, UnlockTxLook
  <2>11. CASE UnlockRx(t)
    BY <2>11, UnlockRxLook
  <2>12. CASE ResumeAll(t)
    BY <2>12, ResumeAllLook
  <2>13. CASE Yield(t)
    BY <2>13, YieldLook
  <2> QED
    BY <1>2, <2>1, <2>2, <2>3, <2>4, <2>5, <2>6, <2>7, <2>8, <2>9, <2>10, <2>11, <2>12, <2>13
       DEF Step
<1>3. CASE IdleLoop
  BY <1>3, IdleLoopLook
<1>4. CASE IsrSend
  BY <1>4, IsrSendLook
<1>5. CASE IsrReceive
  BY <1>5, IsrReceiveLook
<1>6. CASE IsrReturn
  BY <1>6, SameLook DEF IsrReturn, schedVars, queueVars, callVars
<1>7. CASE Tick
  BY <1>7, TickLook
<1>8. CASE UNCHANGED vars
  BY <1>8, SameLook DEF vars, schedVars, queueVars, callVars
<1> QED
  BY <1>1, <1>2, <1>3, <1>4, <1>5, <1>6, <1>7, <1>8 DEF Next

(* No wake-up is lost: of an unlocked queue, tasks sleep on a message, or on  *)
(* room, only while as many others are on their way to it (xQueueGenericSend,  *)
(* xQueueGenericReceive, prvUnlockQueue and the calls from interrupts).        *)
THEOREM NoWakeupIsLost == ASSUME TaskApi = FALSE PROVE Spec => []NoLostWakeup
<1>1. Init => LookInv
  <2> SUFFICES ASSUME Init, NEW o \in Ways PROVE LookOf(o)
    BY DEF LookInv
  <2>1. cur \in Tasks
    BY InitInv, Typed
  <2>2. pc = [t \in Tasks |-> "run"] /\ waitSend = <<>> /\ waitReceive = <<>>
    BY DEF Init
  <2>3. pc[cur] # "insert" /\ WaitsFor(o) = <<>>
    BY <2>1, <2>2 DEF WaitsFor
  <2> QED
    BY <2>3 DEF LookOf
<1>2. Inv /\ Inv' /\ LookInv /\ [Next]_vars => LookInv'
  BY NextLook
<1>3. Inv /\ LookInv => NoLostWakeup
  <2> SUFFICES ASSUME Inv, LookInv PROVE NoLostWakeup
    OBVIOUS
  <2>1. ASSUME NEW o \in Ways, WaitsFor(o) # <<>>, LockOf(o) = Unlocked
        PROVE  Need(o) <= Cardinality(WillLook(o))
    <3>1. Need(o) <= Cardinality(SureLook(o)) + Posts(o) /\ Posts(o) = 0
      BY <2>1 DEF LookInv, LookOf, Posts
    <3>2. SureLook(o) \subseteq WillLook(o)
      BY DEF SureLook, Going, Listed, WillLook, Sleepy
    <3>3. PICK S, W : S = SureLook(o) /\ W = WillLook(o)
      OBVIOUS
    <3>4. W \in SUBSET Tasks /\ IsFiniteSet(Tasks)
      BY <3>3, KernelAssumption DEF WillLook
    <3>5. IsFiniteSet(W)
      BY <3>4, FS_Subset
    <3>6. S \in SUBSET W
      BY <3>2, <3>3
    <3>7. Cardinality(S) <= Cardinality(W)
      BY <3>5, <3>6, FS_Subset
    <3>8. Cardinality(S) \in Nat /\ Cardinality(W) \in Nat
      BY <3>5, <3>6, FS_Subset, FS_CardinalityType
    <3>9. Need(o) \in Nat
      BY NeedType
    <3> QED
      BY <3>1, <3>3, <3>7, <3>8, <3>9
  <2> QED
    BY <2>1 DEF NoLostWakeup, WaitsFor, LockOf, Need, Ways
<1> QED
  BY <1>1, <1>2, <1>3, SpecInv, PTL DEF Spec
=============================================================================
