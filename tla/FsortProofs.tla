----------------------------- MODULE FsortProofs ----------------------------
(***************************************************************************)
(* Proofs about fsort, for every number of elements, every `min', every set *)
(* of keys, every pipe and any number of errors.                            *)
(***************************************************************************)
EXTENDS Fsort, SequenceTheorems, WellFoundedInduction, TLAPS

-----------------------------------------------------------------------------
(* Facts about the operators that the model is built from: the tree of      *)
(* calls, the processes that run them, and merging.                         *)

\* Every nonempty set of natural numbers has a least element.
LEMMA Least ==
  ASSUME NEW T, T \subseteq Nat, T # {}
  PROVE  \E m \in T : \A k \in T : m <= k
<1>. DEFINE R == OpToRel(<, Nat)
<1>1. IsWellFoundedOn(R, Nat)
  BY NatLessThanWellFounded
<1>2. R = OpToRel(<, Nat)
  OBVIOUS
<1>. HIDE DEF R
<1>3. \E x \in T : \A y \in T : ~ (<<y, x>> \in R)
  BY <1>1, WFMin
<1>4. \A x, y \in Nat : y < x => <<y, x>> \in R
  BY <1>2 DEF OpToRel
<1>5. PICK x \in T : \A y \in T : ~ (<<y, x>> \in R)
  BY <1>3
<1>6. ASSUME NEW k \in T PROVE x <= k
  <2>1. x \in Nat /\ k \in Nat
    OBVIOUS
  <2>2. ~(k < x)
    BY <1>4, <1>5, <2>1
  <2>. QED BY <2>1, <2>2
<1>. QED BY <1>6

\* A part of the array is a pair of numbers.
LEMMA PartsPairs ==
  ASSUME NEW c \in Parts
  PROVE  /\ c = <<c[1], c[2]>> /\ c[1] \in 1 .. N /\ c[2] \in 1 .. N
         /\ c[1] + c[2] <= N + 1
BY DEF Parts

\* Two parts with the same place and length are the same.
LEMMA SamePart ==
  ASSUME NEW c \in Parts, NEW d \in Parts, c[1] = d[1], c[2] = d[2]
  PROVE  c = d
BY PartsPairs

\* The halves of a part that is divided.
LEMMA HalvesOf ==
  ASSUME NEW c \in Parts, c[2] > 1
  PROVE  /\ Mid(c) \in Nat /\ 1 <= Mid(c) /\ Mid(c) < c[2]
         /\ Left(c) \in Parts /\ Left(c)[1] = c[1] /\ Left(c)[2] = Mid(c)
         /\ Right(c) \in Parts /\ Right(c)[1] = c[1] + Mid(c)
         /\ Right(c)[2] = c[2] - Mid(c)
<1>1. N \in Nat
  BY FsortAssumption
<1>2. c[1] \in 1 .. N /\ c[2] \in 1 .. N /\ c[1] + c[2] <= N + 1 /\ c[2] > 1
  BY PartsPairs
<1>3. c[2] \div 2 \in Nat /\ 1 <= c[2] \div 2 /\ c[2] \div 2 < c[2]
  BY <1>1, <1>2
<1>4. Mid(c) \in Nat /\ 1 <= Mid(c) /\ Mid(c) < c[2]
  BY <1>3 DEF Mid
<1>5. /\ Left(c) = <<c[1], Mid(c)>>
      /\ Right(c) = <<c[1] + Mid(c), c[2] - Mid(c)>>
  BY DEF Left, Right
<1>6. /\ c[1] \in 1 .. N /\ Mid(c) \in 1 .. N /\ c[1] + Mid(c) <= N + 1
      /\ c[1] + Mid(c) \in 1 .. N /\ c[2] - Mid(c) \in 1 .. N
      /\ (c[1] + Mid(c)) + (c[2] - Mid(c)) <= N + 1
  BY <1>1, <1>2, <1>4
<1>. QED
  BY <1>4, <1>5, <1>6 DEF Parts

-----------------------------------------------------------------------------
(* The tree of calls.                                                       *)

Short(n) == {c \in Parts : c[2] <= n}

\* CallsUnder, for short parts only.
IsTree(f, n) ==
  f = [c \in Short(n) |->
         {c} \cup IF Forks(c) THEN f[Left(c)] \cup f[Right(c)] ELSE {}]

\* The recursion of CallsUnder is well founded, as the halves are shorter.
LEMMA TreeExists == \A n \in Nat : \E f : IsTree(f, n)
<1>1. SUFFICES ASSUME {n \in Nat : ~ \E f : IsTree(f, n)} # {} PROVE FALSE
  OBVIOUS
<1>2. PICK m \in Nat : /\ ~ \E f : IsTree(f, m)
                       /\ \A n \in Nat : n < m => \E f : IsTree(f, n)
  <2>. DEFINE T == {n \in Nat : ~ \E f : IsTree(f, n)}
  <2>1. T \subseteq Nat /\ T # {}
    BY <1>1
  <2>2. PICK m \in T : \A k \in T : m <= k
    BY <2>1, Least
  <2>3. \A n \in Nat : n < m => n \notin T
    BY <2>1, <2>2
  <2>. QED  BY <2>2, <2>3
<1>3. m # 0
  <2>1. ASSUME m = 0 PROVE FALSE
    <3>1. Short(0) = {}
      BY PartsPairs, FsortAssumption DEF Short
    <3>. DEFINE e == [c \in {} |-> {c}]
    <3>2. e = [c \in {} |-> {c} \cup IF Forks(c) THEN e[Left(c)] \cup e[Right(c)] ELSE {}]
      OBVIOUS
    <3>. QED  BY <1>2, <2>1, <3>1, <3>2 DEF IsTree
  <2>. QED  BY <2>1
<1>4. PICK g : IsTree(g, m - 1)
  BY <1>2, <1>3
<1>. DEFINE f == [c \in Short(m) |->
                    {c} \cup IF Forks(c) THEN g[Left(c)] \cup g[Right(c)] ELSE {}]
<1>5. ASSUME NEW c \in Short(m), Forks(c)
      PROVE  Left(c) \in Short(m - 1) /\ Right(c) \in Short(m - 1)
  <2>1. c \in Parts /\ c[2] <= m /\ c[2] \in 1 .. N /\ N \in Nat
    BY PartsPairs, FsortAssumption DEF Short
  <2>. QED  BY <1>5, <2>1, HalvesOf DEF Short, Forks
<1>6. ASSUME NEW c \in Short(m - 1) PROVE f[c] = g[c]
  <2>1. c \in Short(m)
    BY <1>3, PartsPairs, FsortAssumption DEF Short
  <2>2. g[c] = {c} \cup IF Forks(c) THEN g[Left(c)] \cup g[Right(c)] ELSE {}
    BY <1>4 DEF IsTree
  <2>. QED  BY <2>1, <2>2
<1>7. f = [c \in Short(m) |->
             {c} \cup IF Forks(c) THEN f[Left(c)] \cup f[Right(c)] ELSE {}]
  <2>1. ASSUME NEW c \in Short(m)
        PROVE  {c} \cup (IF Forks(c) THEN g[Left(c)] \cup g[Right(c)] ELSE {})
               = {c} \cup (IF Forks(c) THEN f[Left(c)] \cup f[Right(c)] ELSE {})
    <3>1. Forks(c) => f[Left(c)] = g[Left(c)] /\ f[Right(c)] = g[Right(c)]
      BY <1>5, <1>6
    <3>. HIDE DEF f
    <3>. QED  BY <3>1
  <2>. QED  BY <2>1
<1>. HIDE DEF f
<1>8. IsTree(f, m)
  BY <1>7 DEF IsTree
<1>. QED  BY <1>2, <1>8

\* The calls that a call leads to: itself and those of its two halves.
LEMMA CallsUnderUnfold ==
  \A c \in Parts :
    CallsUnder[c] =
      {c} \cup IF Forks(c) THEN CallsUnder[Left(c)] \cup CallsUnder[Right(c)] ELSE {}
<1>1. Short(N) = Parts /\ N \in Nat
  BY PartsPairs, FsortAssumption DEF Short
<1>2. \E f : f = [c \in Parts |->
             {c} \cup IF Forks(c) THEN f[Left(c)] \cup f[Right(c)] ELSE {}]
  BY <1>1, TreeExists DEF IsTree
<1>3. CallsUnder = CHOOSE f : f = [c \in Parts |->
             {c} \cup IF Forks(c) THEN f[Left(c)] \cup f[Right(c)] ELSE {}]
  BY DEF CallsUnder
<1>4. CallsUnder = [c \in Parts |->
             {c} \cup IF Forks(c) THEN CallsUnder[Left(c)] \cup CallsUnder[Right(c)] ELSE {}]
  BY <1>2, <1>3
<1>. QED  BY <1>4

\* d lies inside of c.
Inside(d, c) == c[1] <= d[1] /\ d[1] + d[2] <= c[1] + c[2]

\* A call that divides its part is either inside of another call, or the other
\* is inside of one of its halves, or they have no element in common.
Laminar(d, e) ==
  \/ Inside(e, d)
  \/ Forks(e) /\ (Inside(d, Left(e)) \/ Inside(d, Right(e)))
  \/ d[1] + d[2] <= e[1]
  \/ e[1] + e[2] <= d[1]

Shape(c, S) ==
  /\ c \in S /\ S \subseteq Parts
  /\ \A d \in S : Inside(d, c)
  /\ \A d \in S : Forks(d) => Left(d) \in S /\ Right(d) \in S
  /\ \A d \in S : \/ d = c
                  \/ \E e \in S : Forks(e) /\ (d = Left(e) \/ d = Right(e))
  /\ \A d \in S : d[1] = c[1] \/ \E e \in S : Forks(e) /\ d[1] = Right(e)[1]
  /\ \A d, e \in S : Laminar(d, e)

\* The shape of the tree of calls.
LEMMA TreeShape == \A c \in Parts : Shape(c, CallsUnder[c])
<1>1. SUFFICES ASSUME \E c \in Parts : ~Shape(c, CallsUnder[c]) PROVE FALSE
  OBVIOUS
<1>2. PICK c \in Parts : /\ ~Shape(c, CallsUnder[c])
                         /\ \A d \in Parts : d[2] < c[2] => Shape(d, CallsUnder[d])
  <2>. DEFINE T == {c[2] : c \in {d \in Parts : ~Shape(d, CallsUnder[d])}}
  <2>1. T \subseteq Nat /\ T # {}
    BY <1>1, PartsPairs, FsortAssumption
  <2>2. PICK m \in T : \A k \in T : m <= k
    BY <2>1, Least
  <2>3. PICK c \in Parts : ~Shape(c, CallsUnder[c]) /\ c[2] = m
    BY <2>2
  <2>4. ASSUME NEW d \in Parts, d[2] < c[2] PROVE Shape(d, CallsUnder[d])
    <3>1. d[2] \in Nat /\ c[2] \in Nat
      BY PartsPairs, FsortAssumption
    <3>2. d[2] \in T => m <= d[2]
      BY <2>2
    <3>3. d[2] \notin T
      <4>. HIDE DEF T
      <4>. QED  BY <2>3, <2>4, <3>1, <3>2
    <3>. QED  BY <3>3
  <2>. QED  BY <2>3, <2>4
<1>3. /\ c[1] \in Nat /\ c[2] \in Nat /\ c[2] >= 1
      /\ \A d \in Parts : d[1] \in Nat /\ d[2] \in Nat /\ d[2] >= 1
  BY PartsPairs, FsortAssumption
<1>4. CASE ~Forks(c)
  <2>1. CallsUnder[c] = {c}
    BY <1>4, CallsUnderUnfold
  <2>2. Inside(c, c) /\ Laminar(c, c)
    BY <1>3 DEF Inside, Laminar
  <2>. QED  BY <1>2, <1>4, <2>1, <2>2 DEF Shape
<1>5. CASE Forks(c)
  <2>. DEFINE l == Left(c)
              r == Right(c)
              L == CallsUnder[Left(c)]
              R == CallsUnder[Right(c)]
              S == CallsUnder[c]
  <2>1. /\ l \in Parts /\ l[1] = c[1] /\ l[2] = Mid(c)
        /\ r \in Parts /\ r[1] = c[1] + Mid(c) /\ r[2] = c[2] - Mid(c)
        /\ Mid(c) \in Nat /\ 1 <= Mid(c) /\ Mid(c) < c[2]
    BY <1>5, HalvesOf DEF Forks
  <2>2. S = {c} \cup L \cup R
    BY <1>5, CallsUnderUnfold
  <2>3. Shape(l, L) /\ Shape(r, R)
    <3>1. l[2] < c[2] /\ r[2] < c[2]
      BY <1>3, <2>1
    <3>. QED  BY <1>2, <2>1, <3>1
  <2>. HIDE DEF L, R, S
  <2>4. c \in S /\ S \subseteq Parts /\ l \in L /\ r \in R
    BY <2>2, <2>3 DEF Shape
  <2>5. ASSUME NEW d \in S PROVE Inside(d, c)
    <3>1. CASE d = c
      BY <1>3, <3>1 DEF Inside
    <3>2. CASE d \in L
      <4>1. Inside(d, l) /\ d \in Parts
        BY <2>3, <2>4, <3>2 DEF Shape
      <4>. QED  BY <1>3, <2>1, <4>1 DEF Inside
    <3>3. CASE d \in R
      <4>1. Inside(d, r) /\ d \in Parts
        BY <2>3, <2>4, <3>3 DEF Shape
      <4>. QED  BY <1>3, <2>1, <4>1 DEF Inside
    <3>. QED  BY <2>2, <3>1, <3>2, <3>3
  <2>6. \A d \in S : Forks(d) => Left(d) \in S /\ Right(d) \in S
    BY <2>2, <2>3, <2>4 DEF Shape
  <2>7. \A d \in S : \/ d = c
                     \/ \E e \in S : Forks(e) /\ (d = Left(e) \/ d = Right(e))
    <3>1. \A d \in L : \/ d = l
                       \/ \E e \in L : Forks(e) /\ (d = Left(e) \/ d = Right(e))
      BY <2>3 DEF Shape
    <3>2. \A d \in R : \/ d = r
                       \/ \E e \in R : Forks(e) /\ (d = Left(e) \/ d = Right(e))
      BY <2>3 DEF Shape
    <3>. QED  BY <1>5, <2>2, <2>4, <3>1, <3>2
  <2>8. \A d \in S : d[1] = c[1] \/ \E e \in S : Forks(e) /\ d[1] = Right(e)[1]
    <3>1. \A d \in L : d[1] = l[1] \/ \E e \in L : Forks(e) /\ d[1] = Right(e)[1]
      BY <2>3 DEF Shape
    <3>2. \A d \in R : d[1] = r[1] \/ \E e \in R : Forks(e) /\ d[1] = Right(e)[1]
      BY <2>3 DEF Shape
    <3>3. l[1] = c[1] /\ c \in S /\ Forks(c)
      BY <1>5, <2>1, <2>4
    <3>. QED  BY <2>2, <3>1, <3>2, <3>3
  <2>9. ASSUME NEW d \in S, NEW e \in S PROVE Laminar(d, e)
    <3>1. /\ d[1] \in Nat /\ d[2] \in Nat /\ d[2] >= 1
          /\ e[1] \in Nat /\ e[2] \in Nat /\ e[2] >= 1
      BY <1>3, <2>4
    <3>2. CASE d = c
      BY <2>5, <3>2 DEF Laminar
    <3>3. CASE e = c
      <4>1. d \in L => Inside(d, l)
        BY <2>3 DEF Shape
      <4>2. d \in R => Inside(d, r)
        BY <2>3 DEF Shape
      <4>3. d = c => Laminar(d, e)
        BY <3>2
      <4>. QED  BY <1>5, <2>2, <3>3, <4>1, <4>2, <4>3 DEF Laminar
    <3>4. CASE (d \in L /\ e \in L) \/ (d \in R /\ e \in R)
      BY <2>3, <3>4 DEF Shape
    <3>5. CASE d \in L /\ e \in R
      <4>1. Inside(d, l) /\ Inside(e, r)
        BY <2>3, <3>5 DEF Shape
      <4>2. d[1] + d[2] <= e[1]
        BY <1>3, <2>1, <3>1, <4>1 DEF Inside
      <4>. QED  BY <4>2 DEF Laminar
    <3>6. CASE d \in R /\ e \in L
      <4>1. Inside(d, r) /\ Inside(e, l)
        BY <2>3, <3>6 DEF Shape
      <4>2. e[1] + e[2] <= d[1]
        BY <1>3, <2>1, <3>1, <4>1 DEF Inside
      <4>. QED  BY <4>2 DEF Laminar
    <3>. QED  BY <2>2, <3>2, <3>3, <3>4, <3>5, <3>6
  <2>10. Shape(c, S)
    BY <2>4, <2>5, <2>6, <2>7, <2>8, <2>9 DEF Shape
  <2>. QED  BY <1>2, <2>10 DEF S
<1>. QED  BY <1>4, <1>5

\* The calls have the shape of a tree.
LEMMA CallsShape == Shape(Root, Calls)
<1>1. Root \in Parts
  BY FsortAssumption DEF Root, Parts
<1>. QED  BY <1>1, TreeShape DEF Calls

\* A call is a part of the array.
LEMMA CallNumbers ==
  ASSUME NEW c \in Calls
  PROVE  /\ c \in Parts /\ c[1] \in Nat /\ c[2] \in Nat /\ N \in Nat
         /\ 1 <= c[1] /\ 1 <= c[2] /\ c[1] + c[2] <= N + 1
<1>1. c \in Parts /\ N \in Nat
  BY CallsShape, FsortAssumption DEF Shape
<1>. QED  BY <1>1, PartsPairs

\* The root is the call for the whole array.
LEMMA RootCall == Root \in Calls /\ Root[1] = 1 /\ Root[2] = N
BY CallsShape DEF Shape, Root

\* Calls with the same place and length are the same.
LEMMA SameCall ==
  ASSUME NEW c \in Calls, NEW d \in Calls, c[1] = d[1], c[2] = d[2]
  PROVE  c = d
BY CallNumbers, SamePart

\* A call that forks, its two halves and what the child sends.
LEMMA PipeFacts ==
  ASSUME NEW c \in Pipes
  PROVE  /\ c \in Calls /\ Forks(c)
         /\ Mid(c) \in Nat /\ 1 <= Mid(c) /\ Mid(c) < c[2]
         /\ Left(c) \in Calls /\ Left(c)[1] = c[1] /\ Left(c)[2] = Mid(c)
         /\ Right(c) \in Calls /\ Right(c)[1] = c[1] + Mid(c)
         /\ Right(c)[2] = c[2] - Mid(c) /\ Bytes(c) = c[2] - Mid(c)
         /\ Right(c) \in Procs /\ Right(c) # Root
<1>1. c \in Calls /\ Forks(c) /\ c \in Parts
  BY CallNumbers DEF Pipes
<1>2. Left(c) \in Calls /\ Right(c) \in Calls
  BY <1>1, CallsShape DEF Shape
<1>3. /\ Mid(c) \in Nat /\ 1 <= Mid(c) /\ Mid(c) < c[2]
      /\ Left(c)[1] = c[1] /\ Left(c)[2] = Mid(c)
      /\ Right(c)[1] = c[1] + Mid(c) /\ Right(c)[2] = c[2] - Mid(c)
  BY <1>1, HalvesOf DEF Forks
<1>4. Right(c) \in Procs
  BY DEF Procs
<1>5. Right(c) # Root
  <2>1. Right(c)[1] > 1
    BY <1>1, <1>3, CallNumbers
  <2>. QED  BY <2>1, RootCall
<1>. QED  BY <1>1, <1>2, <1>3, <1>4, <1>5 DEF Bytes

\* Every call but the root is a half of a call.
LEMMA Parent ==
  ASSUME NEW c \in Calls, c # Root
  PROVE  \E d \in Pipes : c = Left(d) \/ c = Right(d)
BY CallsShape DEF Shape, Pipes

\* Of two calls for the same place, the shorter one is in the left half of the
\* longer one.
LEMMA Shorter ==
  ASSUME NEW c \in Calls, NEW d \in Calls, c[1] = d[1], c[2] < d[2]
  PROVE  d \in Pipes /\ c[2] <= Mid(d)
<1>1. /\ c[1] \in Nat /\ c[2] \in Nat /\ d[2] \in Nat /\ 1 <= c[2] /\ d \in Parts
  BY CallNumbers
<1>2. Laminar(c, d)
  BY CallsShape DEF Shape
<1>3. Forks(d) /\ (Inside(c, Left(d)) \/ Inside(c, Right(d)))
  BY <1>1, <1>2 DEF Laminar, Inside
<1>4. d \in Pipes
  BY <1>3 DEF Pipes
<1>5. /\ Mid(d) \in Nat /\ 1 <= Mid(d) /\ Left(d)[1] = d[1] /\ Left(d)[2] = Mid(d)
      /\ Right(d)[1] = d[1] + Mid(d)
  BY <1>4, PipeFacts
<1>. QED  BY <1>1, <1>3, <1>4, <1>5 DEF Inside

\* A call for the same place as a left half, and longer, is as long at least as
\* the call whose half it is.
LEMMA LongerThanLeft ==
  ASSUME NEW c \in Pipes, NEW d \in Calls, d[1] = c[1], Mid(c) < d[2]
  PROVE  d = c \/ c[2] < d[2]
<1>1. c \in Calls /\ c[2] \in Nat /\ d[2] \in Nat /\ Mid(c) \in Nat
  BY CallNumbers, PipeFacts
<1>2. CASE d[2] < c[2]
  BY <1>1, <1>2, Shorter
<1>3. CASE d[2] = c[2]
  BY <1>1, <1>3, SameCall
<1>. QED  BY <1>1, <1>2, <1>3

\* No call for the place of a right half is longer than it.
LEMMA RightLongest ==
  ASSUME NEW c \in Pipes, NEW d \in Calls, d[1] = Right(c)[1]
  PROVE  d[2] <= Right(c)[2]
<1>1. /\ c \in Calls /\ c[1] \in Nat /\ c[2] \in Nat /\ d[2] \in Nat /\ 1 <= d[2]
      /\ Mid(c) \in Nat /\ 1 <= Mid(c) /\ Mid(c) < c[2]
      /\ Left(c)[1] = c[1] /\ Left(c)[2] = Mid(c)
      /\ Right(c)[1] = c[1] + Mid(c) /\ Right(c)[2] = c[2] - Mid(c)
  BY CallNumbers, PipeFacts
<1>2. Laminar(d, c)
  BY <1>1, CallsShape DEF Shape
<1>. QED  BY <1>1, <1>2 DEF Laminar, Inside

\* Only one call has a right half at a given place.
LEMMA RightOfOne ==
  ASSUME NEW c \in Pipes, NEW d \in Pipes, Right(c)[1] = Right(d)[1]
  PROVE  c = d
<1>1. /\ c \in Calls /\ c[1] \in Nat /\ c[2] \in Nat
      /\ Mid(c) \in Nat /\ 1 <= Mid(c) /\ Mid(c) < c[2]
      /\ Left(c)[1] = c[1] /\ Left(c)[2] = Mid(c)
      /\ Right(c)[1] = c[1] + Mid(c) /\ Right(c)[2] = c[2] - Mid(c)
  BY CallNumbers, PipeFacts
<1>2. /\ d \in Calls /\ d[1] \in Nat /\ d[2] \in Nat
      /\ Mid(d) \in Nat /\ 1 <= Mid(d) /\ Mid(d) < d[2]
      /\ Left(d)[1] = d[1] /\ Left(d)[2] = Mid(d)
      /\ Right(d)[1] = d[1] + Mid(d) /\ Right(d)[2] = d[2] - Mid(d)
  BY CallNumbers, PipeFacts
<1>3. Laminar(c, d) /\ Laminar(d, c)
  BY <1>1, <1>2, CallsShape DEF Shape
<1>4. c[1] + Mid(c) = d[1] + Mid(d)
  BY <1>1, <1>2
<1>5. Inside(c, d) /\ Inside(d, c)
  <2>1. ~(c[1] + c[2] <= d[1]) /\ ~(d[1] + d[2] <= c[1])
    BY <1>1, <1>2, <1>4
  <2>2. ~Inside(c, Left(d)) /\ ~Inside(d, Left(c))
    BY <1>1, <1>2, <1>4 DEF Inside
  <2>3. ~Inside(c, Right(d)) /\ ~Inside(d, Right(c))
    BY <1>1, <1>2, <1>4 DEF Inside
  <2>. QED  BY <1>3, <2>1, <2>2, <2>3 DEF Laminar
<1>6. c[1] = d[1] /\ c[2] = d[2]
  BY <1>1, <1>2, <1>5 DEF Inside
<1>. QED  BY <1>1, <1>2, <1>6, SameCall

\* Only one call has a given left half.
LEMMA LeftOfOne ==
  ASSUME NEW c \in Pipes, NEW d \in Pipes, Left(c) = Left(d)
  PROVE  c = d
<1>1. /\ c \in Calls /\ d \in Calls /\ c[1] = d[1] /\ Mid(c) = Mid(d)
      /\ c[2] \in Nat /\ d[2] \in Nat /\ Mid(c) \in Nat
      /\ Mid(c) < c[2] /\ Mid(d) < d[2]
  BY CallNumbers, PipeFacts
<1>2. d = c \/ c[2] < d[2]
  BY <1>1, LongerThanLeft
<1>3. c = d \/ d[2] < c[2]
  BY <1>1, LongerThanLeft
<1>. QED  BY <1>1, <1>2, <1>3

\* No left half is a right half, or the root.
LEMMA LeftNotRight ==
  ASSUME NEW c \in Pipes
  PROVE  Left(c) \notin Procs /\ Left(c) # c /\ Right(c) # c /\ Left(c) # Right(c)
<1>1. /\ c \in Calls /\ c[1] \in Nat /\ c[2] \in Nat /\ c[1] + c[2] <= N + 1
      /\ Left(c) \in Calls /\ Left(c)[1] = c[1] /\ Left(c)[2] = Mid(c)
      /\ Right(c)[1] = c[1] + Mid(c) /\ N \in Nat /\ 1 <= c[1]
      /\ Mid(c) \in Nat /\ 1 <= Mid(c) /\ Mid(c) < c[2]
  BY CallNumbers, PipeFacts
<1>2. Left(c) # Root
  BY <1>1, RootCall
<1>3. ASSUME NEW d \in Pipes, Left(c) = Right(d) PROVE FALSE
  <2>1. c[2] <= Right(d)[2]
    BY <1>1, <1>3, RightLongest
  <2>. QED  BY <1>1, <1>3, <2>1
<1>. QED  BY <1>1, <1>2, <1>3 DEF Procs

\* A process runs the calls for its place, of which its own is the longest.
LEMMA OwnerIs ==
  ASSUME NEW c \in Calls
  PROVE  /\ Owner(c) \in Procs /\ Owner(c)[1] = c[1] /\ c[2] <= Owner(c)[2]
         /\ \A p \in Procs : p[1] = c[1] => p = Owner(c)
<1>1. \E p \in Procs : p[1] = c[1]
  BY CallsShape DEF Shape, Procs, Pipes
<1>2. Owner(c) \in Procs /\ Owner(c)[1] = c[1]
  BY <1>1 DEF Owner
<1>3. c[2] <= Owner(c)[2]
  <2>1. CASE Owner(c) = Root
    BY <1>2, <2>1, RootCall, CallNumbers
  <2>2. CASE \E d \in Pipes : Owner(c) = Right(d)
    BY <1>2, <2>2, RightLongest
  <2>. QED  BY <1>2, <2>1, <2>2 DEF Procs
<1>4. ASSUME NEW p \in Procs, p[1] = c[1] PROVE p = Owner(c)
  <2>1. ASSUME NEW d \in Pipes PROVE Right(d)[1] # Root[1]
    BY PipeFacts, CallNumbers, RootCall
  <2>2. ASSUME NEW d \in Pipes, NEW e \in Pipes, Right(d)[1] = Right(e)[1]
        PROVE  Right(d) = Right(e)
    BY <2>2, RightOfOne
  <2>. QED  BY <1>2, <1>4, <2>1, <2>2 DEF Procs
<1>. QED  BY <1>2, <1>3, <1>4

\* Processes are calls.
LEMMA ProcCall == ASSUME NEW p \in Procs PROVE p \in Calls /\ Owner(p) = p
<1>1. p \in Calls
  BY RootCall, PipeFacts DEF Procs
<1>. QED  BY <1>1, OwnerIs

\* The process of a call depends on its place alone.
LEMMA SameOwner ==
  ASSUME NEW c \in Calls, NEW d \in Calls
  PROVE  Owner(c) = Owner(d) <=> c[1] = d[1]
BY OwnerIs

\* The processes of a call and of its halves.
LEMMA OwnersOfHalves ==
  ASSUME NEW c \in Pipes
  PROVE  /\ Owner(Left(c)) = Owner(c) /\ Owner(Right(c)) = Right(c)
         /\ Owner(c) # Right(c) /\ Forker(Right(c)) = c
<1>1. c \in Calls /\ Left(c) \in Calls /\ Left(c)[1] = c[1] /\ Right(c) \in Procs
  BY PipeFacts
<1>2. Owner(Left(c)) = Owner(c)
  BY <1>1, SameOwner
<1>3. Owner(Right(c)) = Right(c)
  BY <1>1, ProcCall
<1>4. Owner(c)[1] = c[1] /\ Right(c)[1] = c[1] + Mid(c) /\ c[1] \in Nat
      /\ Mid(c) \in Nat /\ 1 <= Mid(c)
  BY <1>1, OwnerIs, PipeFacts, CallNumbers
<1>5. Forker(Right(c)) \in Pipes /\ Right(Forker(Right(c))) = Right(c)
  BY DEF Forker
<1>6. Forker(Right(c)) = c
  BY <1>5, RightOfOne
<1>. QED  BY <1>2, <1>3, <1>4, <1>6

\* A child is forked by one call.
LEMMA ForkerIs ==
  ASSUME NEW p \in Procs, p # Root
  PROVE  Forker(p) \in Pipes /\ Right(Forker(p)) = p
BY DEF Forker, Procs

\* What holds of the root, and of the halves of every call that forks and of
\* which it holds, holds of all calls.
LEMMA Downwards ==
  ASSUME NEW G, Root \in G,
         \A c \in Pipes : c \in G => Left(c) \in G /\ Right(c) \in G
  PROVE  Calls \subseteq G
<1>1. SUFFICES ASSUME NEW b \in Calls, b \notin G PROVE FALSE
  OBVIOUS
<1>. DEFINE T == {N - c[2] : c \in Calls \ G}
<1>2. T \subseteq Nat /\ T # {}
  BY <1>1, CallNumbers
<1>3. PICK m \in T : \A k \in T : m <= k
  BY <1>2, Least
<1>4. PICK c \in Calls \ G : m = N - c[2]
  BY <1>3
<1>5. PICK d \in Pipes : c = Left(d) \/ c = Right(d)
  BY <1>4, Parent
<1>6. /\ d \in Calls /\ c[2] < d[2]
      /\ d[2] \in Nat /\ c[2] \in Nat /\ N \in Nat
  BY <1>5, PipeFacts, CallNumbers
<1>7. d \notin G
  BY <1>4, <1>5
<1>8. N - d[2] \in T
  BY <1>6, <1>7
<1>9. m <= N - d[2]
  BY <1>3, <1>8
<1>. HIDE DEF T
<1>. QED  BY <1>4, <1>6, <1>9

-----------------------------------------------------------------------------
(* Merging.                                                                 *)

Elems(s) == {s[k] : k \in 1 .. Len(s)}

\* By the key, and of equal keys by the place at the start.
Before(x, y) == x[1] < y[1] \/ (x[1] = y[1] /\ x[2] < y[2])

Ascending(s) == \A k, l \in 1 .. Len(s) : k < l => Before(s[k], s[l])

\* All elements of s were before those of t at the start.
Earlier(s, t) ==
  \A k \in 1 .. Len(s), l \in 1 .. Len(t) : s[k][2] < t[l][2]

\* One unfolding of the recursion in Merged.
MergeStep(m, s, t, n) ==
  IF n[1] = 0 THEN Rest(t, n[2])
  ELSE IF n[2] = 0 THEN Rest(s, n[1])
  ELSE LET x == s[Len(s) - n[1] + 1]
           y == t[Len(t) - n[2] + 1]
       IN  IF cmp(x, y) <= 0 THEN <<x>> \o m[<<n[1] - 1, n[2]>>]
                             ELSE <<y>> \o m[<<n[1], n[2] - 1>>]

Amount(s, t) == (0 .. Len(s)) \X (0 .. Len(t))

Few(s, t, k) == {n \in Amount(s, t) : n[1] + n[2] <= k}

IsMerge(m, s, t, k) == m = [n \in Few(s, t, k) |-> MergeStep(m, s, t, n)]

\* A pair of amounts, and the two smaller ones.
LEMMA Amounts2 ==
  ASSUME NEW s \in Seq(Elements), NEW t \in Seq(Elements), NEW n \in Amount(s, t)
  PROVE  /\ n[1] \in Nat /\ n[2] \in Nat /\ n[1] <= Len(s) /\ n[2] <= Len(t)
         /\ n = <<n[1], n[2]>>
         /\ n[1] # 0 => <<n[1] - 1, n[2]>> \in Amount(s, t)
         /\ n[2] # 0 => <<n[1], n[2] - 1>> \in Amount(s, t)
<1>1. Len(s) \in Nat /\ Len(t) \in Nat
  OBVIOUS
<1>2. n[1] \in 0 .. Len(s) /\ n[2] \in 0 .. Len(t) /\ n = <<n[1], n[2]>>
  BY DEF Amount
<1>3. n[1] # 0 => n[1] - 1 \in 0 .. Len(s)
  BY <1>1, <1>2
<1>4. n[2] # 0 => n[2] - 1 \in 0 .. Len(t)
  BY <1>1, <1>2
<1>. QED  BY <1>1, <1>2, <1>3, <1>4 DEF Amount

\* A pair of amounts that add up to at most k.
LEMMA FewNumbers ==
  ASSUME NEW s \in Seq(Elements), NEW t \in Seq(Elements), NEW k \in Int,
         NEW n \in Few(s, t, k)
  PROVE  /\ n \in Amount(s, t) /\ n[1] \in Nat /\ n[2] \in Nat
         /\ n[1] + n[2] <= k
         /\ k = 0 => n[1] = 0
<1>1. n \in Amount(s, t) /\ n[1] + n[2] <= k
  BY DEF Few
<1>2. n[1] \in Nat /\ n[2] \in Nat
  BY <1>1, Amounts2
<1>. QED  BY <1>1, <1>2

\* The recursion of Merged is well founded.
LEMMA MergeExists ==
  ASSUME NEW s \in Seq(Elements), NEW t \in Seq(Elements)
  PROVE  \A k \in Nat : \E m : IsMerge(m, s, t, k)
<1>1. SUFFICES ASSUME {k \in Nat : ~ \E m : IsMerge(m, s, t, k)} # {} PROVE FALSE
  OBVIOUS
<1>2. PICK k \in Nat : /\ ~ \E m : IsMerge(m, s, t, k)
                       /\ \A i \in Nat : i < k => \E m : IsMerge(m, s, t, i)
  <2>. DEFINE T == {i \in Nat : ~ \E m : IsMerge(m, s, t, i)}
  <2>1. T \subseteq Nat /\ T # {}
    BY <1>1
  <2>2. PICK i \in T : \A j \in T : i <= j
    BY <2>1, Least
  <2>3. \A j \in Nat : j < i => j \notin T
    BY <2>1, <2>2
  <2>. QED  BY <2>2, <2>3
<1>3. k # 0
  <2>1. ASSUME k = 0 PROVE FALSE
    <3>1. ASSUME NEW n \in Few(s, t, 0) PROVE n[1] = 0
      BY FewNumbers
    <3>. DEFINE m == [n \in Few(s, t, 0) |-> Rest(t, n[2])]
    <3>2. m = [n \in Few(s, t, 0) |-> MergeStep(m, s, t, n)]
      BY <3>1 DEF MergeStep
    <3>. QED  BY <1>2, <2>1, <3>2 DEF IsMerge
  <2>. QED  BY <2>1
<1>4. PICK g : IsMerge(g, s, t, k - 1)
  BY <1>2, <1>3
<1>. DEFINE m == [n \in Few(s, t, k) |-> MergeStep(g, s, t, n)]
<1>5. ASSUME NEW n \in Few(s, t, k - 1) PROVE m[n] = g[n]
  <2>1. n \in Few(s, t, k)
    <3>1. n \in Amount(s, t) /\ n[1] \in Nat /\ n[2] \in Nat /\ n[1] + n[2] <= k - 1
      BY FewNumbers
    <3>2. n[1] + n[2] <= k
      BY <3>1
    <3>. QED  BY <3>1, <3>2 DEF Few
  <2>2. g[n] = MergeStep(g, s, t, n)
    BY <1>4 DEF IsMerge
  <2>. QED  BY <2>1, <2>2
<1>6. ASSUME NEW n \in Few(s, t, k)
      PROVE  MergeStep(g, s, t, n) = MergeStep(m, s, t, n)
  <2>1. n \in Amount(s, t) /\ n[1] \in Nat /\ n[2] \in Nat /\ n[1] + n[2] <= k
    BY FewNumbers
  <2>2. \A a, b \in Nat : a + b <= k => (a - 1) + b <= k - 1 /\ a + (b - 1) <= k - 1
    OBVIOUS
  <2>3. ASSUME n[1] # 0 PROVE <<n[1] - 1, n[2]>> \in Few(s, t, k - 1)
    <3>1. <<n[1] - 1, n[2]>> \in Amount(s, t)
      BY <2>1, <2>3, Amounts2
    <3>. QED  BY <2>1, <2>2, <3>1 DEF Few
  <2>4. ASSUME n[2] # 0 PROVE <<n[1], n[2] - 1>> \in Few(s, t, k - 1)
    <3>1. <<n[1], n[2] - 1>> \in Amount(s, t)
      BY <2>1, <2>4, Amounts2
    <3>. QED  BY <2>1, <2>2, <3>1 DEF Few
  <2>5. /\ n[1] # 0 => m[<<n[1] - 1, n[2]>>] = g[<<n[1] - 1, n[2]>>]
        /\ n[2] # 0 => m[<<n[1], n[2] - 1>>] = g[<<n[1], n[2] - 1>>]
    BY <1>5, <2>3, <2>4
  <2>. HIDE DEF m
  <2>. QED  BY <2>5 DEF MergeStep
<1>7. IsMerge(m, s, t, k)
  <2>1. m = [n \in Few(s, t, k) |-> MergeStep(m, s, t, n)]
    BY <1>6
  <2>. QED  BY <2>1 DEF IsMerge
<1>. HIDE DEF m
<1>. QED  BY <1>2, <1>7

\* The recursion that merges s with t.
Merging(s, t) == CHOOSE m : m = [n \in Amount(s, t) |-> MergeStep(m, s, t, n)]

\* Merged is the recursive function that its definition describes.
LEMMA MergedUnfold ==
  ASSUME NEW s \in Seq(Elements), NEW t \in Seq(Elements)
  PROVE  /\ Merged(s, t) = Merging(s, t)[<<Len(s), Len(t)>>]
         /\ \A n \in Amount(s, t) : Merging(s, t)[n] = MergeStep(Merging(s, t), s, t, n)
<1>1. Few(s, t, Len(s) + Len(t)) = Amount(s, t)
  <2>1. Len(s) \in Nat /\ Len(t) \in Nat
    OBVIOUS
  <2>2. ASSUME NEW n \in Amount(s, t) PROVE n[1] + n[2] <= Len(s) + Len(t)
    <3>1. \A a, b, x, y \in Nat : a <= x /\ b <= y => a + b <= x + y
      OBVIOUS
    <3>2. n[1] \in Nat /\ n[2] \in Nat /\ n[1] <= Len(s) /\ n[2] <= Len(t)
      BY Amounts2
    <3>. QED  BY <2>1, <3>1, <3>2
  <2>. QED  BY <2>2 DEF Few
<1>2. \E m : m = [n \in Amount(s, t) |-> MergeStep(m, s, t, n)]
  <2>1. Len(s) + Len(t) \in Nat
    OBVIOUS
  <2>. QED  BY <1>1, <2>1, MergeExists DEF IsMerge
<1>3. Merging(s, t) = [n \in Amount(s, t) |-> MergeStep(Merging(s, t), s, t, n)]
  BY <1>2 DEF Merging
<1>4. Merged(s, t) = Merging(s, t)[<<Len(s), Len(t)>>]
  BY DEF Merged, Merging, MergeStep, Amount
<1>. QED  BY <1>3, <1>4

\* The last n of s, as a set.
LastOf(s, n) == {s[k] : k \in Len(s) - n + 1 .. Len(s)}

\* An element is a key and a place, both numbers.
LEMMA ElementNumbers ==
  ASSUME NEW x \in Elements
  PROVE  x[1] \in Nat /\ x[2] \in Nat /\ x[2] \in 1 .. N
<1>1. x[1] \in Keys /\ x[2] \in 1 .. N
  BY DEF Elements
<1>2. \A i \in 1 .. N : i \in Nat
  BY FsortAssumption
<1>3. \A k \in Keys : k \in Nat
  BY FsortAssumption
<1>. QED  BY <1>1, <1>2, <1>3, Zenon

\* What Rest keeps of a sequence.
LEMMA RestIs ==
  ASSUME NEW s \in Seq(Elements), NEW n \in Nat, n <= Len(s)
  PROVE  /\ Rest(s, n) \in Seq(Elements) /\ Len(Rest(s, n)) = n
         /\ \A k \in 1 .. n : Rest(s, n)[k] = s[Len(s) - n + k]
         /\ Elems(Rest(s, n)) = LastOf(s, n)
         /\ Ascending(s) => Ascending(Rest(s, n))
<1>. DEFINE r == Rest(s, n)
<1>1. PICK l \in Nat : l = Len(s)
  OBVIOUS
<1>2. r = SubSeq(s, l - n + 1, l)
  BY <1>1 DEF Rest
<1>3. /\ l - n + 1 \in Int /\ l - n + 1 >= 1 /\ l \in Int
      /\ l - (l - n + 1) + 1 = n
      /\ \A k \in 1 .. n : (l - n + 1) + k - 1 = l - n + k
  BY <1>1
<1>4. r \in Seq(Elements) /\ Len(r) = n
  BY <1>1, <1>2, <1>3, SubSeqProperties
<1>5. \A k \in 1 .. n : r[k] = s[l - n + k]
  BY <1>1, <1>2, <1>3, SubSeqProperties
<1>6. Elems(r) = LastOf(s, n)
  <2>1. \A k \in 1 .. n : l - n + k \in l - n + 1 .. l
    BY <1>1
  <2>2. \A j \in l - n + 1 .. l : j - (l - n) \in 1 .. n /\ l - n + (j - (l - n)) = j
    BY <1>1
  <2>3. Elems(r) = {r[k] : k \in 1 .. n}
    BY <1>4 DEF Elems
  <2>4. LastOf(s, n) = {s[k] : k \in l - n + 1 .. l}
    BY <1>1 DEF LastOf
  <2>. HIDE DEF r
  <2>5. ASSUME NEW k \in 1 .. n PROVE r[k] \in LastOf(s, n)
    BY <1>5, <2>1, <2>4
  <2>6. ASSUME NEW j \in l - n + 1 .. l PROVE s[j] \in Elems(r)
    <3>1. j - (l - n) \in 1 .. n /\ r[j - (l - n)] = s[j]
      BY <1>5, <2>2
    <3>. QED  BY <2>3, <3>1
  <2>. QED  BY <2>3, <2>4, <2>5, <2>6
<1>7. ASSUME Ascending(s) PROVE Ascending(r)
  <2>. HIDE DEF r
  <2>1. \A k, j \in 1 .. l : k < j => Before(s[k], s[j])
    BY <1>1, <1>7 DEF Ascending
  <2>2. \A k \in 1 .. n : l - n + k \in 1 .. l
    BY <1>1
  <2>3. \A k, j \in 1 .. n : k < j => l - n + k < l - n + j
    BY <1>1
  <2>4. \A k, j \in 1 .. n : k < j => Before(r[k], r[j])
    BY <1>5, <2>1, <2>2, <2>3
  <2>. QED  BY <1>4, <2>4 DEF Ascending
<1>. QED  BY <1>1, <1>4, <1>5, <1>6, <1>7

\* The last n of s are the first of them and the last n - 1.
LEMMA LastOfSplit ==
  ASSUME NEW s \in Seq(Elements), NEW n \in Nat, n <= Len(s), n # 0
  PROVE  /\ LastOf(s, n) = {s[Len(s) - n + 1]} \cup LastOf(s, n - 1)
         /\ s[Len(s) - n + 1] \in Elements
         /\ LastOf(s, n) \subseteq Elements
         /\ Ascending(s) => \A e \in LastOf(s, n - 1) : Before(s[Len(s) - n + 1], e)
<1>1. PICK l \in Nat : l = Len(s) /\ n <= l
  OBVIOUS
<1>2. l - n + 1 .. l = {l - n + 1} \cup (l - (n - 1) + 1 .. l)
  BY <1>1
<1>3. \A k \in l - n + 1 .. l : k \in 1 .. l
  BY <1>1
<1>4. \A k \in l - (n - 1) + 1 .. l : l - n + 1 < k /\ k \in 1 .. l
  BY <1>1
<1>5. \A k \in 1 .. l : s[k] \in Elements
  BY <1>1
<1>6. l - n + 1 \in l - n + 1 .. l
  BY <1>1
<1>7. /\ LastOf(s, n) = {s[k] : k \in l - n + 1 .. l}
      /\ LastOf(s, n - 1) = {s[k] : k \in l - (n - 1) + 1 .. l}
  BY <1>1 DEF LastOf
<1>8. LastOf(s, n) = {s[l - n + 1]} \cup LastOf(s, n - 1)
  BY <1>2, <1>7
<1>9. s[l - n + 1] \in Elements /\ LastOf(s, n) \subseteq Elements
  BY <1>3, <1>5, <1>6, <1>7
<1>10. ASSUME Ascending(s), NEW e \in LastOf(s, n - 1) PROVE Before(s[l - n + 1], e)
  <2>1. PICK k \in l - (n - 1) + 1 .. l : e = s[k]
    BY <1>7, <1>10
  <2>2. \A i, j \in 1 .. l : i < j => Before(s[i], s[j])
    BY <1>1, <1>10 DEF Ascending
  <2>. QED  BY <1>3, <1>4, <1>6, <2>1, <2>2
<1>. QED  BY <1>1, <1>8, <1>9, <1>10

\* An element in front of a sequence.
LEMMA InFront ==
  ASSUME NEW x \in Elements, NEW w \in Seq(Elements)
  PROVE  /\ <<x>> \o w \in Seq(Elements) /\ Len(<<x>> \o w) = Len(w) + 1
         /\ Elems(<<x>> \o w) = {x} \cup Elems(w)
         /\ Ascending(w) /\ (\A e \in Elems(w) : Before(x, e))
            => Ascending(<<x>> \o w)
<1>. DEFINE v == <<x>> \o w
<1>1. PICK l \in Nat : l = Len(w)
  OBVIOUS
<1>2. v \in Seq(Elements) /\ Len(v) = l + 1 /\ v[1] = x
      /\ \A k \in 2 .. l + 1 : v[k] = w[k - 1]
  BY <1>1
<1>3. /\ 1 .. l + 1 = {1} \cup (2 .. l + 1)
      /\ \A k \in 2 .. l + 1 : k - 1 \in 1 .. l
      /\ \A k \in 1 .. l : k + 1 \in 2 .. l + 1 /\ (k + 1) - 1 = k
  BY <1>1
<1>4. Elems(v) = {v[k] : k \in 1 .. l + 1} /\ Elems(w) = {w[k] : k \in 1 .. l}
  BY <1>1, <1>2 DEF Elems
<1>. HIDE DEF v
<1>5. Elems(v) = {x} \cup Elems(w)
  <2>1. \A e \in Elems(v) : e \in {x} \cup Elems(w)
    BY <1>2, <1>3, <1>4
  <2>2. \A e \in Elems(w) : e \in Elems(v)
    <3>1. SUFFICES ASSUME NEW k \in 1 .. l PROVE w[k] \in Elems(v)
      BY <1>4
    <3>2. k + 1 \in 1 .. l + 1 /\ v[k + 1] = w[k]
      BY <1>2, <1>3
    <3>. QED  BY <1>4, <3>2
  <2>3. x \in Elems(v)
    BY <1>2, <1>3, <1>4
  <2>. QED  BY <2>1, <2>2, <2>3
<1>6. ASSUME Ascending(w), \A e \in Elems(w) : Before(x, e) PROVE Ascending(v)
  <2>1. SUFFICES ASSUME NEW k \in 1 .. l + 1, NEW j \in 1 .. l + 1, k < j
                 PROVE  Before(v[k], v[j])
    BY <1>2 DEF Ascending
  <2>2. j \in 2 .. l + 1 /\ j - 1 \in 1 .. l
    BY <1>1, <2>1
  <2>3. v[j] = w[j - 1] /\ v[j] \in Elems(w)
    BY <1>2, <1>4, <2>2
  <2>4. CASE k = 1
    BY <1>2, <1>6, <2>3, <2>4
  <2>5. CASE k # 1
    <3>1. k \in 2 .. l + 1 /\ k - 1 \in 1 .. l /\ k - 1 < j - 1
      BY <1>1, <2>1, <2>5
    <3>2. \A a, b \in 1 .. l : a < b => Before(w[a], w[b])
      BY <1>1, <1>6 DEF Ascending
    <3>. QED  BY <1>2, <2>2, <2>3, <3>1, <3>2
  <2>. QED  BY <2>4, <2>5
<1>. QED  BY <1>1, <1>2, <1>5, <1>6 DEF v

\* What a merge of the last n[1] of s with the last n[2] of t is like.
IsMerged(w, s, t, n) ==
  /\ w \in Seq(Elements) /\ Len(w) = n[1] + n[2]
  /\ Elems(w) = LastOf(s, n[1]) \cup LastOf(t, n[2])
  /\ Ascending(s) /\ Ascending(t) /\ Earlier(s, t) => Ascending(w)

\* An element of s goes before all elements of t if it does before the first.
LEMMA BeforeAll ==
  ASSUME NEW x \in Elements, NEW y \in Elements, NEW e \in Elements,
         e = y \/ Before(y, e)
  PROVE  /\ cmp(x, y) <= 0 /\ x[2] < e[2] => Before(x, e)
         /\ cmp(y, x) > 0 => Before(x, e)
<1>1. /\ x[1] \in Nat /\ x[2] \in Nat /\ y[1] \in Nat /\ y[2] \in Nat
      /\ e[1] \in Nat /\ e[2] \in Nat
  BY ElementNumbers
<1>. QED  BY <1>1 DEF Before, cmp

\* The recursion of Merged does merge.
LEMMA MergingIs ==
  ASSUME NEW s \in Seq(Elements), NEW t \in Seq(Elements)
  PROVE  \A n \in Amount(s, t) : IsMerged(Merging(s, t)[n], s, t, n)
<1>. DEFINE Bad == {n \in Amount(s, t) : ~IsMerged(Merging(s, t)[n], s, t, n)}
<1>1. SUFFICES ASSUME Bad # {} PROVE FALSE
  OBVIOUS
<1>2. PICK n \in Bad : \A i \in Bad : n[1] + n[2] <= i[1] + i[2]
  <2>. DEFINE T == {i[1] + i[2] : i \in Bad}
  <2>1. T \subseteq Nat /\ T # {}
    <3>1. \A i \in Bad : i[1] \in Nat /\ i[2] \in Nat
      BY Amounts2
    <3>2. \A i \in Bad : i[1] + i[2] \in Nat
      BY <3>1
    <3>. HIDE DEF Bad
    <3>. QED  BY <1>1, <3>2
  <2>2. PICK m \in T : \A k \in T : m <= k
    BY <2>1, Least
  <2>. HIDE DEF Bad
  <2>. QED  BY <2>2
<1>3. n \in Amount(s, t) /\ ~IsMerged(Merging(s, t)[n], s, t, n)
  BY <1>2
<1>4. /\ n[1] \in Nat /\ n[2] \in Nat /\ n[1] <= Len(s) /\ n[2] <= Len(t)
      /\ n[1] # 0 => <<n[1] - 1, n[2]>> \in Amount(s, t)
      /\ n[2] # 0 => <<n[1], n[2] - 1>> \in Amount(s, t)
  BY <1>3, Amounts2
<1>5. n[1] # 0 => IsMerged(Merging(s, t)[<<n[1] - 1, n[2]>>], s, t, <<n[1] - 1, n[2]>>)
  <2>1. ASSUME n[1] # 0 PROVE <<n[1] - 1, n[2]>> \notin Bad
    <3>1. ~(n[1] + n[2] <= (n[1] - 1) + n[2])
      BY <1>4
    <3>. HIDE DEF Bad
    <3>. QED  BY <1>2, <3>1
  <2>. QED  BY <1>4, <2>1
<1>6. n[2] # 0 => IsMerged(Merging(s, t)[<<n[1], n[2] - 1>>], s, t, <<n[1], n[2] - 1>>)
  <2>1. ASSUME n[2] # 0 PROVE <<n[1], n[2] - 1>> \notin Bad
    <3>1. ~(n[1] + n[2] <= n[1] + (n[2] - 1))
      BY <1>4
    <3>. HIDE DEF Bad
    <3>. QED  BY <1>2, <3>1
  <2>. QED  BY <1>4, <2>1
<1>. HIDE DEF Bad
<1>7. Merging(s, t)[n] = MergeStep(Merging(s, t), s, t, n)
  BY <1>3, MergedUnfold
<1>8. LastOf(s, 0) = {} /\ LastOf(t, 0) = {}
  BY DEF LastOf
<1>9. CASE n[1] = 0
  <2>1. Merging(s, t)[n] = Rest(t, n[2])
    BY <1>7, <1>9 DEF MergeStep
  <2>2. /\ Rest(t, n[2]) \in Seq(Elements) /\ Len(Rest(t, n[2])) = n[2]
        /\ Elems(Rest(t, n[2])) = LastOf(t, n[2])
        /\ Ascending(t) => Ascending(Rest(t, n[2]))
    BY <1>4, RestIs
  <2>3. 0 + n[2] = n[2]
    BY <1>4
  <2>4. IsMerged(Merging(s, t)[n], s, t, n)
    BY <1>8, <1>9, <2>1, <2>2, <2>3, Zenon DEF IsMerged
  <2>. QED  BY <1>3, <2>4
<1>10. CASE n[1] # 0 /\ n[2] = 0
  <2>1. Merging(s, t)[n] = Rest(s, n[1])
    BY <1>7, <1>10 DEF MergeStep
  <2>2. /\ Rest(s, n[1]) \in Seq(Elements) /\ Len(Rest(s, n[1])) = n[1]
        /\ Elems(Rest(s, n[1])) = LastOf(s, n[1])
        /\ Ascending(s) => Ascending(Rest(s, n[1]))
    BY <1>4, RestIs
  <2>3. n[1] + 0 = n[1] /\ LastOf(s, n[1]) \cup {} = LastOf(s, n[1])
    BY <1>4
  <2>4. IsMerged(Merging(s, t)[n], s, t, n)
    BY <1>8, <1>10, <2>1, <2>2, <2>3, Zenon DEF IsMerged
  <2>. QED  BY <1>3, <2>4
<1>11. CASE n[1] # 0 /\ n[2] # 0
  <2>. DEFINE x == s[Len(s) - n[1] + 1]
              y == t[Len(t) - n[2] + 1]
              u == Merging(s, t)[<<n[1] - 1, n[2]>>]
              v == Merging(s, t)[<<n[1], n[2] - 1>>]
  <2>1. /\ LastOf(s, n[1]) = {x} \cup LastOf(s, n[1] - 1)
        /\ x \in Elements /\ LastOf(s, n[1]) \subseteq Elements
        /\ Ascending(s) => \A e \in LastOf(s, n[1] - 1) : Before(x, e)
    BY <1>4, <1>11, LastOfSplit
  <2>2. /\ LastOf(t, n[2]) = {y} \cup LastOf(t, n[2] - 1)
        /\ y \in Elements /\ LastOf(t, n[2]) \subseteq Elements
        /\ Ascending(t) => \A e \in LastOf(t, n[2] - 1) : Before(y, e)
    BY <1>4, <1>11, LastOfSplit
  <2>3. /\ u \in Seq(Elements) /\ Len(u) = (n[1] - 1) + n[2]
        /\ Elems(u) = LastOf(s, n[1] - 1) \cup LastOf(t, n[2])
        /\ Ascending(s) /\ Ascending(t) /\ Earlier(s, t) => Ascending(u)
    BY <1>5, <1>11 DEF IsMerged
  <2>4. /\ v \in Seq(Elements) /\ Len(v) = n[1] + (n[2] - 1)
        /\ Elems(v) = LastOf(s, n[1]) \cup LastOf(t, n[2] - 1)
        /\ Ascending(s) /\ Ascending(t) /\ Earlier(s, t) => Ascending(v)
    BY <1>6, <1>11 DEF IsMerged
  <2>5. Merging(s, t)[n] = IF cmp(x, y) <= 0 THEN <<x>> \o u ELSE <<y>> \o v
    BY <1>7, <1>11 DEF MergeStep
  <2>6. ASSUME Earlier(s, t), NEW a \in LastOf(s, n[1]), NEW b \in LastOf(t, n[2])
        PROVE  a[2] < b[2]
    <3>1. PICK i \in Nat, j \in Nat : i = Len(s) /\ j = Len(t) /\ n[1] <= i /\ n[2] <= j
      BY <1>4
    <3>2. PICK k \in i - n[1] + 1 .. i : a = s[k]
      BY <2>6, <3>1 DEF LastOf
    <3>3. PICK l \in j - n[2] + 1 .. j : b = t[l]
      BY <2>6, <3>1 DEF LastOf
    <3>4. k \in 1 .. i /\ l \in 1 .. j
      BY <1>4, <3>1
    <3>5. \A g \in 1 .. i, h \in 1 .. j : s[g][2] < t[h][2]
      BY <2>6, <3>1 DEF Earlier
    <3>. QED  BY <3>2, <3>3, <3>4, <3>5
  <2>. HIDE DEF x, y, u, v
  <2>7. /\ ((n[1] - 1) + n[2]) + 1 = n[1] + n[2]
        /\ (n[1] + (n[2] - 1)) + 1 = n[1] + n[2]
    BY <1>4
  <2>8. CASE cmp(x, y) <= 0
    <3>1. /\ <<x>> \o u \in Seq(Elements) /\ Len(<<x>> \o u) = Len(u) + 1
          /\ Elems(<<x>> \o u) = {x} \cup Elems(u)
          /\ Ascending(u) /\ (\A e \in Elems(u) : Before(x, e))
             => Ascending(<<x>> \o u)
      BY <2>1, <2>3, InFront
    <3>2. ASSUME Ascending(s), Ascending(t), Earlier(s, t), NEW e \in Elems(u)
          PROVE  Before(x, e)
      <4>1. CASE e \in LastOf(s, n[1] - 1)
        BY <2>1, <3>2, <4>1
      <4>2. CASE e \in LastOf(t, n[2])
        <5>1. e \in Elements /\ x[2] < e[2] /\ (e = y \/ Before(y, e))
          BY <2>1, <2>2, <2>6, <3>2, <4>2
        <5>. QED  BY <2>1, <2>2, <2>8, <5>1, BeforeAll
      <4>. QED  BY <2>3, <3>2, <4>1, <4>2
    <3>3. Merging(s, t)[n] = <<x>> \o u
      BY <2>5, <2>8
    <3>4. Elems(<<x>> \o u) = LastOf(s, n[1]) \cup LastOf(t, n[2])
      BY <2>1, <2>3, <3>1
    <3>5. Ascending(s) /\ Ascending(t) /\ Earlier(s, t) => Ascending(<<x>> \o u)
      BY <2>3, <3>1, <3>2, Zenon
    <3>6. IsMerged(Merging(s, t)[n], s, t, n)
      BY <2>3, <2>7, <3>1, <3>3, <3>4, <3>5, Zenon DEF IsMerged
    <3>. QED  BY <1>3, <3>6
  <2>9. CASE ~(cmp(x, y) <= 0)
    <3>1. /\ <<y>> \o v \in Seq(Elements) /\ Len(<<y>> \o v) = Len(v) + 1
          /\ Elems(<<y>> \o v) = {y} \cup Elems(v)
          /\ Ascending(v) /\ (\A e \in Elems(v) : Before(y, e))
             => Ascending(<<y>> \o v)
      BY <2>2, <2>4, InFront
    <3>2. ASSUME Ascending(s), Ascending(t), Earlier(s, t), NEW e \in Elems(v)
          PROVE  Before(y, e)
      <4>1. CASE e \in LastOf(t, n[2] - 1)
        BY <2>2, <3>2, <4>1
      <4>2. CASE e \in LastOf(s, n[1])
        <5>1. e \in Elements /\ (e = x \/ Before(x, e))
          BY <2>1, <3>2, <4>2
        <5>2. cmp(x, y) > 0
          BY <2>1, <2>2, <2>9, ElementNumbers DEF cmp
        <5>. QED  BY <2>1, <2>2, <5>1, <5>2, BeforeAll
      <4>. QED  BY <2>4, <3>2, <4>1, <4>2
    <3>3. Merging(s, t)[n] = <<y>> \o v
      BY <2>5, <2>9
    <3>4. Elems(<<y>> \o v) = LastOf(s, n[1]) \cup LastOf(t, n[2])
      BY <2>2, <2>4, <3>1
    <3>5. Ascending(s) /\ Ascending(t) /\ Earlier(s, t) => Ascending(<<y>> \o v)
      BY <2>4, <3>1, <3>2, Zenon
    <3>6. IsMerged(Merging(s, t)[n], s, t, n)
      BY <2>4, <2>7, <3>1, <3>3, <3>4, <3>5, Zenon DEF IsMerged
    <3>. QED  BY <1>3, <3>6
  <2>. QED  BY <2>8, <2>9
<1>. QED  BY <1>9, <1>10, <1>11

\* What merge() makes of two halves: all their elements, and in order if the
\* halves are, and malloc() does not fail.
LEMMA MergeResultsAre ==
  ASSUME NEW s \in Seq(Elements), NEW t \in Seq(Elements),
         NEW w \in MergeResults(s, t)
  PROVE  /\ w \in Seq(Elements) /\ Len(w) = Len(s) + Len(t)
         /\ Elems(w) = Elems(s) \cup Elems(t)
         /\ ~MallocMayFail /\ Ascending(s) /\ Ascending(t) /\ Earlier(s, t)
            => Ascending(w)
<1>1. PICK i \in Nat, j \in Nat : i = Len(s) /\ j = Len(t)
  OBVIOUS
<1>2. /\ Elems(s) = {s[k] : k \in 1 .. i} /\ Elems(t) = {t[k] : k \in 1 .. j}
  BY <1>1 DEF Elems
<1>3. CASE w = Merged(s, t)
  <2>1. <<i, j>> \in Amount(s, t)
    BY <1>1 DEF Amount
  <2>2. \A n : n = <<i, j>> => n[1] = i /\ n[2] = j
    OBVIOUS
  <2>3. w = Merging(s, t)[<<i, j>>]
    BY <1>1, <1>3, MergedUnfold
  <2>4. IsMerged(w, s, t, <<i, j>>)
    BY <2>1, <2>3, MergingIs
  <2>5. LastOf(s, i) = Elems(s) /\ LastOf(t, j) = Elems(t)
    <3>1. i - i + 1 = 1 /\ j - j + 1 = 1
      OBVIOUS
    <3>. QED  BY <1>1, <1>2, <3>1 DEF LastOf
  <2>. QED  BY <1>1, <2>2, <2>4, <2>5 DEF IsMerged
<1>4. CASE MallocMayFail /\ w = s \o t
  <2>1. /\ s \o t \in Seq(Elements) /\ Len(s \o t) = i + j
        /\ \A k \in 1 .. i : (s \o t)[k] = s[k]
        /\ \A k \in i + 1 .. i + j : (s \o t)[k] = t[k - i]
    BY <1>1
  <2>2. /\ 1 .. i + j = (1 .. i) \cup (i + 1 .. i + j)
        /\ \A k \in 1 .. j : k + i \in i + 1 .. i + j /\ (k + i) - i = k
        /\ \A k \in i + 1 .. i + j : k - i \in 1 .. j
    OBVIOUS
  <2>3. PICK v : v = s \o t
    OBVIOUS
  <2>4. Elems(v) = {v[k] : k \in 1 .. i + j}
    BY <2>1, <2>3 DEF Elems
  <2>5. ASSUME NEW k \in 1 .. i + j PROVE v[k] \in Elems(s) \cup Elems(t)
    BY <1>2, <2>1, <2>2, <2>3
  <2>6. ASSUME NEW k \in 1 .. i PROVE s[k] \in Elems(v)
    BY <2>1, <2>2, <2>3, <2>4
  <2>7. ASSUME NEW k \in 1 .. j PROVE t[k] \in Elems(v)
    <3>1. k + i \in 1 .. i + j /\ v[k + i] = t[k]
      BY <2>1, <2>2, <2>3
    <3>. QED  BY <2>4, <3>1
  <2>8. Elems(v) = Elems(s) \cup Elems(t)
    BY <1>2, <2>4, <2>5, <2>6, <2>7
  <2>. QED  BY <1>1, <1>4, <2>1, <2>3, <2>8
<1>. QED  BY <1>3, <1>4 DEF MergeResults

-----------------------------------------------------------------------------
(* Sorting a part in one process.                                           *)

\* One unfolding of the recursion in Sorted.
SortStep(r, a, c) ==
  IF c[2] <= 1 THEN {Part(a, c)}
  ELSE UNION {MergeResults(s, t) : s \in r[Left(c)], t \in r[Right(c)]}

IsSort(r, a, n) == r = [c \in Short(n) |-> SortStep(r, a, c)]

\* The halves of a short part are shorter.
LEMMA ShortHalves ==
  ASSUME NEW n \in Nat, NEW c \in Short(n), c[2] > 1
  PROVE  Left(c) \in Short(n - 1) /\ Right(c) \in Short(n - 1)
<1>1. c \in Parts /\ c[2] <= n /\ c[2] \in 1 .. N /\ N \in Nat
  BY PartsPairs, FsortAssumption DEF Short
<1>. QED  BY <1>1, HalvesOf DEF Short

\* The recursion of Sorted is well founded.
LEMMA SortExists == ASSUME NEW a PROVE \A n \in Nat : \E r : IsSort(r, a, n)
<1>1. SUFFICES ASSUME {n \in Nat : ~ \E r : IsSort(r, a, n)} # {} PROVE FALSE
  OBVIOUS
<1>2. PICK m \in Nat : /\ ~ \E r : IsSort(r, a, m)
                       /\ \A n \in Nat : n < m => \E r : IsSort(r, a, n)
  <2>. DEFINE T == {n \in Nat : ~ \E r : IsSort(r, a, n)}
  <2>1. T \subseteq Nat /\ T # {}
    BY <1>1
  <2>2. PICK m \in T : \A k \in T : m <= k
    BY <2>1, Least
  <2>3. \A n \in Nat : n < m => n \notin T
    BY <2>1, <2>2
  <2>. QED  BY <2>2, <2>3
<1>3. m # 0
  <2>1. ASSUME m = 0 PROVE FALSE
    <3>1. Short(0) = {}
      BY PartsPairs, FsortAssumption DEF Short
    <3>. DEFINE e == [c \in {} |-> {c}]
    <3>2. e = [c \in {} |-> SortStep(e, a, c)]
      OBVIOUS
    <3>. QED  BY <1>2, <2>1, <3>1, <3>2 DEF IsSort
  <2>. QED  BY <2>1
<1>4. PICK g : IsSort(g, a, m - 1)
  BY <1>2, <1>3
<1>. DEFINE r == [c \in Short(m) |-> SortStep(g, a, c)]
<1>5. ASSUME NEW c \in Short(m - 1) PROVE r[c] = g[c]
  <2>1. c \in Short(m)
    BY <1>3, PartsPairs, FsortAssumption DEF Short
  <2>2. g[c] = SortStep(g, a, c)
    BY <1>4 DEF IsSort
  <2>. QED  BY <2>1, <2>2
<1>6. ASSUME NEW c \in Short(m) PROVE SortStep(g, a, c) = SortStep(r, a, c)
  <2>1. c[2] \in Nat
    BY PartsPairs, FsortAssumption DEF Short
  <2>2. ~(c[2] <= 1) => r[Left(c)] = g[Left(c)] /\ r[Right(c)] = g[Right(c)]
    BY <1>5, <2>1, ShortHalves
  <2>. HIDE DEF r
  <2>. QED  BY <2>2 DEF SortStep
<1>7. IsSort(r, a, m)
  <2>1. r = [c \in Short(m) |-> SortStep(r, a, c)]
    BY <1>6
  <2>. QED  BY <2>1 DEF IsSort
<1>. HIDE DEF r
<1>. QED  BY <1>2, <1>7

\* The recursion that sorts the parts of a.
Sorting(a) == CHOOSE r : r = [c \in Parts |-> SortStep(r, a, c)]

\* Sorted is the recursive function that its definition describes.
LEMMA SortedUnfold ==
  ASSUME NEW a
  PROVE  /\ \A c : Sorted(a, c) = Sorting(a)[c]
         /\ \A c \in Parts : Sorting(a)[c] = SortStep(Sorting(a), a, c)
<1>1. Short(N) = Parts /\ N \in Nat
  BY PartsPairs, FsortAssumption DEF Short
<1>2. \E r : r = [c \in Parts |-> SortStep(r, a, c)]
  <2>1. \E r : IsSort(r, a, N)
    BY <1>1, SortExists
  <2>. QED  BY <1>1, <2>1 DEF IsSort
<1>3. Sorting(a) = [c \in Parts |-> SortStep(Sorting(a), a, c)]
  BY <1>2 DEF Sorting
<1>4. \A c : Sorted(a, c) = Sorting(a)[c]
  BY DEF Sorted, Sorting, SortStep
<1>. QED  BY <1>3, <1>4

\* The elements of part c are still where they were at the start.
Unmoved(a, c) == \A j \in Region(c) : a[j][2] = j

\* A part of the array as a sequence.
LEMMA PartIs ==
  ASSUME NEW a \in [1 .. N -> Elements], NEW c \in Parts
  PROVE  /\ Part(a, c) \in Seq(Elements) /\ Len(Part(a, c)) = c[2]
         /\ \A k \in 1 .. c[2] : Part(a, c)[k] = a[c[1] + k - 1]
                                 /\ c[1] + k - 1 \in Region(c)
         /\ Region(c) \subseteq 1 .. N
         /\ Elems(Part(a, c)) = {a[j] : j \in Region(c)}
<1>1. /\ c[1] \in Nat /\ c[2] \in Nat /\ 1 <= c[1] /\ c[1] + c[2] <= N + 1
      /\ N \in Nat
  BY PartsPairs, FsortAssumption
<1>2. Region(c) = c[1] .. c[1] + c[2] - 1
  BY DEF Region
<1>3. /\ \A k \in 1 .. c[2] : c[1] + k - 1 \in Region(c)
      /\ Region(c) \subseteq 1 .. N
      /\ \A j \in Region(c) : j - c[1] + 1 \in 1 .. c[2]
                              /\ c[1] + (j - c[1] + 1) - 1 = j
  <2>1. \A b, n \in Nat : \A k \in 1 .. n : b + k - 1 \in b .. b + n - 1
    OBVIOUS
  <2>2. \A b, n \in Nat : 1 <= b /\ b + n <= N + 1 => b .. b + n - 1 \subseteq 1 .. N
    BY <1>1
  <2>3. \A b, n \in Nat : \A j \in b .. b + n - 1 : /\ j - b + 1 \in 1 .. n
                                                   /\ b + (j - b + 1) - 1 = j
    OBVIOUS
  <2>. QED  BY <1>1, <1>2, <2>1, <2>2, <2>3
<1>4. PICK s : s = Part(a, c)
  OBVIOUS
<1>5. s = [k \in 1 .. c[2] |-> a[c[1] + k - 1]]
  BY <1>4 DEF Part
<1>6. \A k \in 1 .. c[2] : s[k] = a[c[1] + k - 1] /\ s[k] \in Elements
  BY <1>3, <1>5
<1>7. s \in [1 .. c[2] -> Elements]
  BY <1>5, <1>6
<1>8. s \in Seq(Elements) /\ Len(s) = c[2]
  BY <1>1, <1>7
<1>9. Elems(s) = {s[k] : k \in 1 .. c[2]}
  BY <1>8 DEF Elems
<1>10. ASSUME NEW j \in Region(c) PROVE a[j] \in Elems(s)
  <2>1. j - c[1] + 1 \in 1 .. c[2] /\ s[j - c[1] + 1] = a[j]
    BY <1>3, <1>6
  <2>. QED  BY <1>9, <2>1
<1>11. Elems(s) = {a[j] : j \in Region(c)}
  <2>1. \A k \in 1 .. c[2] : s[k] \in {a[j] : j \in Region(c)}
    BY <1>3, <1>6
  <2>. QED  BY <1>9, <1>10, <2>1
<1>. QED  BY <1>3, <1>4, <1>6, <1>8, <1>11

\* The elements in part c of a.
Image(a, c) == {a[j] : j \in Region(c)}

\* Part c of a holds the elements that were there at the start.
Permuted(a, c) == {a[j][2] : j \in Region(c)} = Region(c)

\* Part c of a is in order.
Ordered(a, c) == \A i, j \in Region(c) : i < j => Before(a[i], a[j])

\* Elements that have not moved are permuted.
LEMMA UnmovedPermuted == ASSUME NEW a, NEW c, Unmoved(a, c) PROVE Permuted(a, c)
BY DEF Unmoved, Permuted

\* The places in a part are those in its halves.
LEMMA RegionSplit ==
  ASSUME NEW c \in Parts, c[2] > 1
  PROVE  /\ Region(c) = Region(Left(c)) \cup Region(Right(c))
         /\ \A i \in Region(Left(c)), j \in Region(Right(c)) : i < j
<1>1. /\ c[1] \in Nat /\ c[2] \in Nat
      /\ Mid(c) \in Nat /\ 1 <= Mid(c) /\ Mid(c) < c[2]
      /\ Left(c)[1] = c[1] /\ Left(c)[2] = Mid(c)
      /\ Right(c)[1] = c[1] + Mid(c) /\ Right(c)[2] = c[2] - Mid(c)
  BY HalvesOf, PartsPairs, FsortAssumption
<1>2. /\ Region(c) = c[1] .. c[1] + c[2] - 1
      /\ Region(Left(c)) = c[1] .. c[1] + Mid(c) - 1
      /\ Region(Right(c)) = c[1] + Mid(c) .. (c[1] + Mid(c)) + (c[2] - Mid(c)) - 1
  BY <1>1 DEF Region
<1>3. \A b, m, n \in Nat : 1 <= m /\ m < n =>
        /\ b .. b + n - 1 = (b .. b + m - 1) \cup (b + m .. (b + m) + (n - m) - 1)
        /\ \A i \in b .. b + m - 1, j \in b + m .. (b + m) + (n - m) - 1 : i < j
  OBVIOUS
<1>. QED  BY <1>1, <1>2, <1>3

\* Two halves that have their own elements.
LEMMA HalvesEarlier ==
  ASSUME NEW a \in [1 .. N -> Elements], NEW c \in Parts, c[2] > 1,
         Permuted(a, Left(c)), Permuted(a, Right(c)),
         NEW s, Elems(s) = Image(a, Left(c)), NEW t, Elems(t) = Image(a, Right(c))
  PROVE  /\ Earlier(s, t) /\ Permuted(a, c)
         /\ Image(a, c) = Elems(s) \cup Elems(t)
<1>1. ASSUME NEW d, Permuted(a, d), NEW u, Elems(u) = Image(a, d),
             NEW k \in 1 .. Len(u)
      PROVE  u[k][2] \in Region(d)
  <2>1. u[k] \in Image(a, d)
    BY <1>1 DEF Elems
  <2>2. PICK j \in Region(d) : u[k] = a[j]
    BY <2>1 DEF Image
  <2>. QED  BY <1>1, <2>2 DEF Permuted
<1>2. \A k \in 1 .. Len(s) : s[k][2] \in Region(Left(c))
  BY <1>1
<1>3. \A k \in 1 .. Len(t) : t[k][2] \in Region(Right(c))
  BY <1>1
<1>4. Earlier(s, t)
  BY <1>2, <1>3, RegionSplit DEF Earlier
<1>5. Permuted(a, c)
  <2>1. {a[j][2] : j \in Region(c)} =
          {a[j][2] : j \in Region(Left(c))} \cup {a[j][2] : j \in Region(Right(c))}
    BY RegionSplit
  <2>. QED  BY <2>1, RegionSplit DEF Permuted
<1>6. Image(a, c) = Elems(s) \cup Elems(t)
  BY RegionSplit DEF Image
<1>. QED  BY <1>4, <1>5, <1>6

\* What can come of sorting part c of a in one process.
LEMMA SortedIs ==
  ASSUME NEW a \in [1 .. N -> Elements]
  PROVE  \A c \in Parts : \A s \in Sorted(a, c) :
           /\ s \in Seq(Elements) /\ Len(s) = c[2] /\ Elems(s) = Image(a, c)
           /\ ~MallocMayFail /\ Unmoved(a, c) => Ascending(s)
<1>. DEFINE Good(s, c) ==
       /\ s \in Seq(Elements) /\ Len(s) = c[2] /\ Elems(s) = Image(a, c)
       /\ ~MallocMayFail /\ Unmoved(a, c) => Ascending(s)
<1>. DEFINE Bad == {c \in Parts : \E s \in Sorted(a, c) : ~Good(s, c)}
<1>1. SUFFICES ASSUME Bad # {} PROVE FALSE
  OBVIOUS
<1>2. PICK c \in Bad : \A d \in Bad : c[2] <= d[2]
  <2>. DEFINE T == {d[2] : d \in Bad}
  <2>1. \A d \in Bad : d[2] \in Nat
    BY PartsPairs, FsortAssumption
  <2>. HIDE DEF Bad
  <2>2. T \subseteq Nat /\ T # {}
    BY <1>1, <2>1
  <2>3. PICK m \in T : \A k \in T : m <= k
    BY <2>2, Least
  <2>. QED  BY <2>3
<1>3. PICK w \in Sorted(a, c) : ~Good(w, c)
  OBVIOUS
<1>4. c \in Parts /\ c[2] \in Nat /\ 1 <= c[2] /\ w \in SortStep(Sorting(a), a, c)
  <2>1. c \in Parts
    OBVIOUS
  <2>2. w \in SortStep(Sorting(a), a, c)
    BY <2>1, <1>3, SortedUnfold
  <2>. HIDE DEF Bad
  <2>. QED  BY <2>1, <2>2, PartsPairs, FsortAssumption
<1>5. CASE c[2] <= 1
  <2>1. w = Part(a, c)
    BY <1>4, <1>5 DEF SortStep
  <2>2. w \in Seq(Elements) /\ Len(w) = c[2] /\ Elems(w) = Image(a, c)
    BY <1>4, <2>1, PartIs DEF Image
  <2>3. Ascending(w)
    <3>1. \A n \in Nat : n <= 1 => \A k, l \in 1 .. n : ~(k < l)
      OBVIOUS
    <3>. QED  BY <1>4, <1>5, <2>2, <3>1 DEF Ascending
  <2>. QED  BY <1>3, <2>2, <2>3
<1>6. CASE c[2] > 1
  <2>1. /\ Left(c) \in Parts /\ Right(c) \in Parts
        /\ ~(c[2] <= Left(c)[2]) /\ ~(c[2] <= Right(c)[2])
        /\ Left(c)[2] + Right(c)[2] = c[2]
    BY <1>4, <1>6, HalvesOf
  <2>2. Left(c) \notin Bad /\ Right(c) \notin Bad
    <3>. HIDE DEF Bad
    <3>. QED  BY <1>2, <2>1
  <2>3. ~(c[2] <= 1)
    BY <1>4, <1>6
  <2>4. PICK s \in Sorted(a, Left(c)), t \in Sorted(a, Right(c)) :
          w \in MergeResults(s, t)
    BY <1>4, <2>3, SortedUnfold DEF SortStep
  <2>5. Good(s, Left(c)) /\ Good(t, Right(c))
    BY <2>1, <2>2, <2>4
  <2>. HIDE DEF Bad
  <2>6. /\ w \in Seq(Elements) /\ Len(w) = Len(s) + Len(t)
        /\ Elems(w) = Elems(s) \cup Elems(t)
        /\ ~MallocMayFail /\ Ascending(s) /\ Ascending(t) /\ Earlier(s, t)
           => Ascending(w)
    BY <2>4, <2>5, MergeResultsAre
  <2>7. Image(a, c) = Elems(s) \cup Elems(t)
    BY <1>4, <1>6, <2>5, RegionSplit DEF Image
  <2>8. ASSUME ~MallocMayFail, Unmoved(a, c) PROVE Ascending(w)
    <3>1. Unmoved(a, Left(c)) /\ Unmoved(a, Right(c))
      BY <1>4, <1>6, <2>8, RegionSplit DEF Unmoved
    <3>2. Permuted(a, Left(c)) /\ Permuted(a, Right(c))
      BY <3>1, UnmovedPermuted
    <3>3. Earlier(s, t)
      BY <1>4, <1>6, <2>5, <3>2, HalvesEarlier
    <3>. QED  BY <2>5, <2>6, <2>8, <3>1, <3>3
  <2>9. Len(w) = c[2]
    BY <2>1, <2>5, <2>6
  <2>. QED  BY <1>3, <2>6, <2>7, <2>8, <2>9
<1>. QED  BY <1>4, <1>5, <1>6

\* A part replaced by its own elements in another order.
LEMMA WithPartIs ==
  ASSUME NEW a \in [1 .. N -> Elements], NEW c \in Parts,
         NEW s \in Seq(Elements), Len(s) = c[2], Elems(s) = Image(a, c)
  PROVE  /\ WithPart(a, c, s) \in [1 .. N -> Elements]
         /\ \A j \in 1 .. N : j \notin Region(c) => WithPart(a, c, s)[j] = a[j]
         /\ Permuted(a, c) => Permuted(WithPart(a, c, s), c)
         /\ Ascending(s) => Ordered(WithPart(a, c, s), c)
<1>1. /\ c[1] \in Nat /\ c[2] \in Nat /\ Region(c) = c[1] .. c[1] + c[2] - 1
  BY PartsPairs, FsortAssumption DEF Region
<1>2. Region(c) \subseteq 1 .. N
  BY PartIs
<1>3. PICK b : b = WithPart(a, c, s)
  OBVIOUS
<1>4. b = [j \in 1 .. N |-> IF j \in Region(c) THEN s[j - c[1] + 1] ELSE a[j]]
  BY <1>3 DEF WithPart
<1>5. \A i, n \in Nat : \A j \in i .. i + n - 1 : j - i + 1 \in 1 .. n
  OBVIOUS
<1>6. \A i, n \in Nat : \A k \in 1 .. n : i + k - 1 \in i .. i + n - 1
                                          /\ (i + k - 1) - i + 1 = k
  OBVIOUS
<1>7. \A k \in 1 .. c[2] : s[k] \in Elements
  OBVIOUS
<1>8. \A j \in Region(c) : b[j] = s[j - c[1] + 1] /\ j - c[1] + 1 \in 1 .. c[2]
  BY <1>1, <1>2, <1>4, <1>5
<1>9. b \in [1 .. N -> Elements]
  BY <1>4, <1>7, <1>8
<1>10. \A j \in 1 .. N : j \notin Region(c) => b[j] = a[j]
  BY <1>4
<1>11. \A k \in 1 .. c[2] : c[1] + k - 1 \in Region(c) /\ b[c[1] + k - 1] = s[k]
  BY <1>1, <1>6, <1>8
<1>12. Elems(s) = {s[k] : k \in 1 .. c[2]}
  BY DEF Elems
<1>13. Image(b, c) = Image(a, c)
  <2>1. \A j \in Region(c) : b[j] \in Elems(s)
    BY <1>8, <1>12
  <2>2. \A e \in Elems(s) : \E j \in Region(c) : e = b[j]
    BY <1>11, <1>12
  <2>3. {b[j] : j \in Region(c)} = Elems(s)
    BY <2>1, <2>2
  <2>. QED  BY <2>3 DEF Image
<1>14. Permuted(a, c) => Permuted(b, c)
  <2>1. ASSUME NEW f PROVE {f[j][2] : j \in Region(c)} = {e[2] : e \in Image(f, c)}
    BY DEF Image
  <2>. QED  BY <1>13, <2>1 DEF Permuted
<1>15. ASSUME Ascending(s) PROVE Ordered(b, c)
  <2>1. SUFFICES ASSUME NEW i \in Region(c), NEW j \in Region(c), i < j
                 PROVE  Before(b[i], b[j])
    BY DEF Ordered
  <2>2. i - c[1] + 1 < j - c[1] + 1
    BY <1>1, <2>1
  <2>3. \A k, l \in 1 .. c[2] : k < l => Before(s[k], s[l])
    BY <1>15 DEF Ascending
  <2>. QED  BY <1>8, <2>2, <2>3
<1>. QED  BY <1>3, <1>9, <1>10, <1>14, <1>15

\* An ordered part as a sequence.
LEMMA OrderedPart ==
  ASSUME NEW a \in [1 .. N -> Elements], NEW c \in Parts, Ordered(a, c)
  PROVE  Ascending(Part(a, c))
<1>1. c[1] \in Nat /\ c[2] \in Nat
  BY PartsPairs, FsortAssumption
<1>2. PICK s : s = Part(a, c)
  OBVIOUS
<1>3. Len(s) = c[2] /\ \A k \in 1 .. c[2] : s[k] = a[c[1] + k - 1]
                                           /\ c[1] + k - 1 \in Region(c)
  BY <1>2, PartIs
<1>4. \A k, l \in 1 .. c[2] : k < l => c[1] + k - 1 < c[1] + l - 1
  BY <1>1
<1>5. \A k, l \in 1 .. c[2] : k < l => Before(s[k], s[l])
  BY <1>3, <1>4 DEF Ordered
<1>. QED  BY <1>2, <1>3, <1>5 DEF Ascending

-----------------------------------------------------------------------------
(* The inductive invariant, control.                                        *)

Forked(c) == proc[Right(c)] # "none"
Dead(p)   == proc[p] \in {"zombie", "reaped"}

\* Every variable is a function with its domain and range.
Typed ==
  /\ pc \in [Calls -> {"none", "call", "left", "read", "wait", "done"}]
  /\ ret \in [Calls -> {0, 1}]
  /\ arr \in [Procs -> [1 .. N -> Elements]]
  /\ pipe \in [Pipes -> Seq(Elements)]
  /\ \A c \in Pipes : Len(pipe[c]) <= PipeCap
  /\ read_total \in [Pipes -> Nat]
  /\ written \in [Procs -> 0 .. N]
  /\ proc \in [Procs -> {"none", "alive", "zombie", "reaped"}]
  /\ exited \in [Procs -> {0, 1, Killed}]
  /\ readers \in [Pipes -> SUBSET Procs] /\ writers \in [Pipes -> SUBSET Procs]
  /\ failed \in BOOLEAN /\ errors \in 0 .. MaxErrors

\* A call has started its two halves together, or none of them.
Started ==
  /\ proc[Root] = "alive" /\ pc[Root] # "none"
  /\ \A c \in Pipes :
       /\ pc[Left(c)] = "none" <=> ~Forked(c)
       /\ pc[Right(c)] = "none" <=> ~Forked(c)
       /\ pc[c] \in {"none", "call"} => ~Forked(c)
       /\ pc[c] \in {"left", "read", "wait"} => Forked(c)
       /\ pc[c] \in {"read", "wait"} => pc[Left(c)] = "done"
       /\ pc[c] = "done" /\ ~Forked(c) => ret[c] = 1
  /\ \A c \in Calls \ Pipes : pc[c] \in {"none", "call", "done"} /\ ret[c] = 0
  /\ \A c \in Calls : pc[c] # "done" => ret[c] = 0

\* The calls that one process runs: at most one is not done and not waiting
\* for its left half.
Nested ==
  \A c, d \in Calls :
    c[1] = d[1] /\ c[2] < d[2] =>
      /\ pc[c] \in {"none", "done"} \/ pc[d] = "left"
      /\ pc[d] \in {"none", "call"} => pc[c] = "none"

Ends ==
  \A c \in Pipes :
    /\ proc[Right(c)] = "alive" => Right(c) \in writers[c]
    /\ pc[c] \in {"left", "read"} /\ proc[Owner(c)] = "alive"
       => Owner(c) \in readers[c]

Amounts ==
  \A c \in Pipes :
    /\ read_total[c] + Len(pipe[c]) = written[Right(c)]
    /\ written[Right(c)] <= Bytes(c)
    /\ written[Right(c)] > 0 => pc[Right(c)] = "done" /\ ret[Right(c)] = 0

\* As long as nothing is killed and no read() or write() fails.
Undisturbed ==
  errors = 0 =>
    /\ \A p \in Procs :
         Dead(p) => /\ pc[p] = "done" /\ exited[p] = ret[p]
                    /\ ret[p] = 0 => written[p] = p[2]
    /\ \A c \in Pipes :
         pc[c] \in {"wait", "done"} /\ Forked(c)
         => \/ read_total[c] = Bytes(c)
            \/ Dead(Right(c)) /\ ret[Right(c)] = 1
    /\ \A c \in Calls : ret[c] = 1 => failed

Reported ==
  /\ failed => \E c \in Calls : ret[c] = 1
  /\ \A c \in Pipes :
       pc[c] = "done" /\ ret[c] = 0
       => pc[Left(c)] = "done" /\ ret[Left(c)] = 0 /\ read_total[c] = Bytes(c)

Control ==
  /\ Typed /\ Started /\ Nested /\ Ends /\ Amounts /\ Undisturbed /\ Reported
  /\ AllReaped

-----------------------------------------------------------------------------
(* Type correctness.                                                        *)

\* A process has an array for every call that it runs.
LEMMA WithPartTyped ==
  ASSUME NEW a \in [1 .. N -> Elements], NEW b \in Nat \ {0}, NEW n \in Nat,
         NEW s, \A k \in 1 .. n : s[k] \in Elements
  PROVE  WithPart(a, <<b, n>>, s) \in [1 .. N -> Elements]
<1>1. ASSUME NEW j \in 1 .. N, j \in Region(<<b, n>>)
      PROVE  s[j - b + 1] \in Elements
  <2>1. j - b + 1 \in 1 .. n
    BY <1>1, FsortAssumption DEF Region
  <2>. QED  BY <2>1
<1>. QED  BY <1>1 DEF WithPart

\* At the start only the call for the whole array has begun.
LEMMA InitControl == Init => Control
<1>. SUFFICES ASSUME Init PROVE Control
  OBVIOUS
<1>. USE DEF Init
<1>1. Typed
  <2>1. arr \in [Procs -> [1 .. N -> Elements]]
    BY DEF Elements
  <2>2. <<>> \in Seq(Elements) /\ Len(<<>>) = 0 /\ Len(<<>>) <= PipeCap
    BY FsortAssumption
  <2>3. 0 \in 0 .. N /\ 0 \in 0 .. MaxErrors
    BY FsortAssumption
  <2>. QED  BY <2>1, <2>2, <2>3 DEF Typed
<1>2. Started
  <2>1. ASSUME NEW c \in Pipes
        PROVE  Left(c) # Root /\ Right(c) # Root /\ c \in Calls
               /\ Left(c) \in Calls /\ Right(c) \in Calls /\ Right(c) \in Procs
    BY PipeFacts, LeftNotRight DEF Procs
  <2>2. Root \in Procs /\ Root \in Calls
    BY RootCall DEF Procs
  <2>. QED  BY <2>1, <2>2 DEF Started, Forked
<1>3. Nested
  <2>1. ASSUME NEW c \in Calls, NEW d \in Calls, c[2] < d[2] PROVE c # Root
    BY <2>1, CallNumbers, RootCall
  <2>. QED  BY <2>1 DEF Nested
<1>4. Ends
  BY PipeFacts DEF Ends, Pipes
<1>5. Amounts
  <2>1. Len(<<>>) = 0
    OBVIOUS
  <2>. QED  BY <2>1, PipeFacts, CallNumbers DEF Amounts
<1>6. Undisturbed
  BY PipeFacts DEF Undisturbed, Dead, Forked
<1>7. Reported
  BY PipeFacts DEF Reported
<1>8. AllReaped
  BY PipeFacts DEF AllReaped
<1>. QED  BY <1>1, <1>2, <1>3, <1>4, <1>5, <1>6, <1>7, <1>8 DEF Control

\* The effect of a fork.
LEMMA ForkEffect ==
  ASSUME Control, NEW c \in Calls, Fork(c)
  PROVE  /\ c \in Pipes /\ pc[c] = "call" /\ proc[Owner(c)] = "alive"
         /\ pc' \in [Calls -> {"none", "call", "left", "read", "wait", "done"}]
         /\ pc'[c] = "left" /\ pc'[Left(c)] = "call" /\ pc'[Right(c)] = "call"
         /\ \A d \in Calls : d \notin {c, Left(c), Right(c)} => pc'[d] = pc[d]
         /\ arr' = [arr EXCEPT ![Right(c)] = arr[Owner(c)]]
         /\ proc' = [proc EXCEPT ![Right(c)] = "alive"]
         /\ pc[Left(c)] = "none" /\ pc[Right(c)] = "none"
         /\ proc[Right(c)] = "none"
         /\ readers' \in [Pipes -> SUBSET Procs]
         /\ writers' \in [Pipes -> SUBSET Procs]
         /\ readers'[c] = {Owner(c)} /\ writers'[c] = {Right(c)}
         /\ \A d \in Pipes : d # c => /\ readers[d] \subseteq readers'[d]
                                      /\ writers[d] \subseteq writers'[d]
         /\ UNCHANGED <<ret, pipe, read_total, written, exited, failed, errors>>
<1>1. c \in Pipes /\ pc[c] = "call" /\ proc[Owner(c)] = "alive"
  BY DEF Fork, At, Pipes
<1>2. /\ Left(c) \in Calls /\ Right(c) \in Calls /\ Right(c) \in Procs
      /\ Left(c) # c /\ Right(c) # c /\ Left(c) # Right(c) /\ Owner(c) \in Procs
  BY <1>1, PipeFacts, LeftNotRight, OwnerIs
<1>3. /\ pc \in [Calls -> {"none", "call", "left", "read", "wait", "done"}]
      /\ readers \in [Pipes -> SUBSET Procs] /\ writers \in [Pipes -> SUBSET Procs]
  BY DEF Control, Typed
<1>4. pc' = [pc EXCEPT ![c] = "left", ![Left(c)] = "call", ![Right(c)] = "call"]
  BY DEF Fork
<1>5. /\ pc' \in [Calls -> {"none", "call", "left", "read", "wait", "done"}]
      /\ pc'[c] = "left" /\ pc'[Left(c)] = "call" /\ pc'[Right(c)] = "call"
      /\ \A d \in Calls : d \notin {c, Left(c), Right(c)} => pc'[d] = pc[d]
  BY <1>2, <1>3, <1>4
<1>6. pc[Left(c)] = "none" /\ pc[Right(c)] = "none" /\ proc[Right(c)] = "none"
  BY <1>1 DEF Control, Started, Forked
<1>7. /\ readers' \in [Pipes -> SUBSET Procs] /\ readers'[c] = {Owner(c)}
      /\ \A d \in Pipes : d # c => readers[d] \subseteq readers'[d]
  BY <1>1, <1>2, <1>3 DEF Fork
<1>8. /\ writers' \in [Pipes -> SUBSET Procs] /\ writers'[c] = {Right(c)}
      /\ \A d \in Pipes : d # c => writers[d] \subseteq writers'[d]
  BY <1>1, <1>2, <1>3 DEF Fork
<1>9. /\ arr' = [arr EXCEPT ![Right(c)] = arr[Owner(c)]]
      /\ proc' = [proc EXCEPT ![Right(c)] = "alive"]
      /\ UNCHANGED <<ret, pipe, read_total, written, exited, failed, errors>>
  BY DEF Fork
<1>. QED  BY <1>1, <1>5, <1>6, <1>7, <1>8, <1>9

\* A fork starts both halves, at the same time.
LEMMA ForkControl ==
  ASSUME Control, NEW c \in Calls, Fork(c)
  PROVE  Control'
<1>1. /\ c \in Pipes /\ pc[c] = "call" /\ proc[Owner(c)] = "alive"
      /\ pc' \in [Calls -> {"none", "call", "left", "read", "wait", "done"}]
      /\ pc'[c] = "left" /\ pc'[Left(c)] = "call" /\ pc'[Right(c)] = "call"
      /\ \A d \in Calls : d \notin {c, Left(c), Right(c)} => pc'[d] = pc[d]
      /\ arr' = [arr EXCEPT ![Right(c)] = arr[Owner(c)]]
      /\ proc' = [proc EXCEPT ![Right(c)] = "alive"]
      /\ pc[Left(c)] = "none" /\ pc[Right(c)] = "none"
      /\ proc[Right(c)] = "none"
      /\ readers' \in [Pipes -> SUBSET Procs]
      /\ writers' \in [Pipes -> SUBSET Procs]
      /\ readers'[c] = {Owner(c)} /\ writers'[c] = {Right(c)}
      /\ \A d \in Pipes : d # c => /\ readers[d] \subseteq readers'[d]
                                   /\ writers[d] \subseteq writers'[d]
      /\ UNCHANGED <<ret, pipe, read_total, written, exited, failed, errors>>
  BY ForkEffect
<1>2. Typed /\ Started /\ Nested /\ Ends /\ Amounts /\ Undisturbed /\ Reported
      /\ AllReaped
  BY DEF Control
<1>3. /\ Left(c) \in Calls /\ Right(c) \in Calls /\ Right(c) \in Procs
      /\ Right(c) # Root /\ Owner(c) \in Procs
      /\ Left(c) # c /\ Right(c) # c /\ Left(c) # Right(c) /\ Left(c) \notin Procs
  BY <1>1, PipeFacts, LeftNotRight, OwnerIs
<1>4. ASSUME NEW d \in Pipes
      PROVE  /\ d \in Calls /\ Left(d) \in Calls /\ Right(d) \in Calls
             /\ Right(d) \in Procs /\ Left(d) # d /\ Right(d) # d
             /\ Left(d) # Right(c) /\ Right(d) # Left(c)
             /\ d # c => Left(d) # Left(c) /\ Right(d) # Right(c)
             /\ Left(c) = d => pc[d] = "none"
             /\ Right(c) = d => pc[d] = "none"
  <2>1. Right(d) = Right(c) => d = c
    BY <1>1, RightOfOne
  <2>. QED  BY <1>1, <2>1, PipeFacts, LeftNotRight, LeftOfOne
<1>5. Typed'
  BY <1>1, <1>2, <1>3 DEF Typed
<1>6. \A d \in Pipes : d # c => (Forked(d)' <=> Forked(d))
  BY <1>1, <1>2, <1>3, <1>4 DEF Forked, Typed
<1>7. Forked(c)' /\ ~Forked(c)
  BY <1>1, <1>2, <1>3 DEF Forked, Typed
<1>8. Started'
  <2>1. proc'[Root] = "alive" /\ pc'[Root] # "none"
    BY <1>1, <1>2, <1>3, RootCall DEF Started, Typed, Procs
  <2>2. ASSUME NEW d \in Pipes
        PROVE  /\ pc'[Left(d)] = "none" <=> ~Forked(d)'
               /\ pc'[Right(d)] = "none" <=> ~Forked(d)'
               /\ pc'[d] \in {"none", "call"} => ~Forked(d)'
               /\ pc'[d] \in {"left", "read", "wait"} => Forked(d)'
               /\ pc'[d] \in {"read", "wait"} => pc'[Left(d)] = "done"
               /\ pc'[d] = "done" /\ ~Forked(d)' => ret'[d] = 1
    <3>1. CASE d = c
      BY <1>1, <1>7, <3>1
    <3>2. CASE d # c
      <4>1. Started /\ (Forked(d)' <=> Forked(d))
        BY <1>2, <1>6, <3>2
      <4>. QED  BY <1>1, <1>3, <1>4, <3>2, <4>1 DEF Started
    <3>. QED  BY <3>1, <3>2
  <2>3. \A d \in Calls \ Pipes : pc'[d] \in {"none", "call", "done"} /\ ret'[d] = 0
    BY <1>1, <1>2 DEF Started
  <2>4. \A d \in Calls : pc'[d] # "done" => ret'[d] = 0
    BY <1>1, <1>2 DEF Started
  <2>. QED  BY <2>1, <2>2, <2>3, <2>4 DEF Started
<1>9. Nested'
  <2>1. SUFFICES ASSUME NEW a \in Calls, NEW d \in Calls, a[1] = d[1], a[2] < d[2]
                 PROVE  /\ pc'[a] \in {"none", "done"} \/ pc'[d] = "left"
                        /\ pc'[d] \in {"none", "call"} => pc'[a] = "none"
    BY DEF Nested
  <2>2. /\ pc[a] \in {"none", "done"} \/ pc[d] = "left"
        /\ pc[d] \in {"none", "call"} => pc[a] = "none"
    BY <1>2, <2>1 DEF Nested
  <2>3. a[2] \in Nat /\ d[2] \in Nat /\ c \in Calls /\ c[2] \in Nat
        /\ Left(c)[1] = c[1] /\ Left(c)[2] = Mid(c) /\ Mid(c) \in Nat
        /\ Mid(c) < c[2] /\ Right(c)[2] \in Nat
    BY <1>1, <1>3, PipeFacts, CallNumbers
  <2>4. CASE a = Left(c)
    <3>1. d = c \/ c[2] < d[2]
      BY <1>1, <2>1, <2>3, <2>4, LongerThanLeft
    <3>2. d # c => pc[d] = "left"
      BY <1>1, <1>2, <2>1, <2>3, <2>4, <3>1 DEF Nested
    <3>3. d # a /\ d # Right(c)
      <4>1. d = Right(c) => pc[d] = "none"
        BY <1>1
      <4>. QED  BY <1>3, <2>1, <2>3, <3>1, <3>2, <4>1
    <3>. QED  BY <1>1, <3>1, <3>2, <3>3
  <2>5. CASE a = Right(c)
    BY <1>1, <2>1, <2>3, <2>5, RightLongest
  <2>6. CASE a = c
    <3>1. pc[d] = "left"
      BY <1>1, <2>2, <2>6
    <3>2. d # c /\ d # Left(c) /\ d # Right(c)
      BY <1>1, <2>1, <2>6, <3>1
    <3>. QED  BY <1>1, <3>1, <3>2
  <2>7. CASE a \notin {c, Left(c), Right(c)}
    <3>1. pc'[a] = pc[a]
      BY <1>1, <2>7
    <3>2. CASE d \notin {c, Left(c), Right(c)}
      BY <1>1, <2>2, <3>1, <3>2
    <3>3. CASE d \in {c, Left(c), Right(c)}
      <4>1. pc[a] = "none"
        BY <1>1, <2>2, <3>3
      <4>. QED  BY <3>1, <4>1
    <3>. QED  BY <3>2, <3>3
  <2>. QED  BY <2>4, <2>5, <2>6, <2>7
<1>10. Ends'
  <2>1. SUFFICES ASSUME NEW d \in Pipes
                 PROVE  /\ proc'[Right(d)] = "alive" => Right(d) \in writers'[d]
                        /\ pc'[d] \in {"left", "read"} /\ proc'[Owner(d)] = "alive"
                           => Owner(d) \in readers'[d]
    BY DEF Ends
  <2>2. CASE d = c
    BY <1>1, <2>2
  <2>3. CASE d # c
    <3>1. proc'[Right(d)] = proc[Right(d)]
      BY <1>1, <1>2, <1>4, <2>3 DEF Typed
    <3>2. ASSUME pc'[d] \in {"left", "read"} PROVE pc[d] = pc'[d]
      BY <1>1, <1>4, <2>3, <3>2
    <3>3. ASSUME pc[d] \in {"left", "read"} PROVE Owner(d) # Right(c)
      <4>1. SUFFICES ASSUME Owner(d) = Right(c) PROVE FALSE
        OBVIOUS
      <4>2. d[1] = Right(c)[1] /\ d[2] <= Right(c)[2] /\ d # Right(c)
        BY <1>1, <1>3, <1>4, <3>3, <4>1, OwnerIs
      <4>3. d[2] < Right(c)[2]
        BY <1>3, <1>4, <4>2, CallNumbers, SameCall
      <4>4. pc[d] = "none"
        BY <1>1, <1>2, <1>3, <1>4, <4>2, <4>3 DEF Nested
      <4>. QED  BY <3>3, <4>4
    <3>4. pc'[d] \in {"left", "read"} => proc'[Owner(d)] = proc[Owner(d)]
      <4>1. Owner(d) \in Procs
        BY <1>4, OwnerIs
      <4>. QED  BY <1>1, <1>2, <3>2, <3>3, <4>1 DEF Typed
    <3>. QED  BY <1>1, <1>2, <2>3, <3>1, <3>2, <3>4 DEF Ends
  <2>. QED  BY <2>2, <2>3
<1>11. Amounts'
  <2>1. SUFFICES ASSUME NEW d \in Pipes
                 PROVE  /\ read_total'[d] + Len(pipe'[d]) = written'[Right(d)]
                        /\ written'[Right(d)] <= Bytes(d)
                        /\ written'[Right(d)] > 0
                           => pc'[Right(d)] = "done" /\ ret'[Right(d)] = 0
    BY DEF Amounts
  <2>2. ASSUME pc[Right(d)] = "done" PROVE pc'[Right(d)] = "done"
    <3>1. Right(d) \notin {c, Left(c), Right(c)}
      BY <1>1, <2>2
    <3>. QED  BY <1>1, <1>4, <2>2, <3>1
  <2>. QED  BY <1>1, <1>2, <2>2 DEF Amounts
<1>12. Undisturbed'
  <2>1. SUFFICES ASSUME errors = 0
          PROVE /\ \A p \in Procs :
                     Dead(p)' => /\ pc'[p] = "done" /\ exited'[p] = ret'[p]
                                 /\ ret'[p] = 0 => written'[p] = p[2]
                /\ \A d \in Pipes :
                     pc'[d] \in {"wait", "done"} /\ Forked(d)'
                     => \/ read_total'[d] = Bytes(d)
                        \/ Dead(Right(d))' /\ ret'[Right(d)] = 1
                /\ \A d \in Calls : ret'[d] = 1 => failed'
    BY <1>1 DEF Undisturbed
  <2>2. ASSUME NEW p \in Procs, Dead(p)' PROVE Dead(p) /\ (pc[p] = "done" => pc'[p] = "done")
    <3>1. p # Right(c)
      BY <1>1, <1>2, <1>3, <2>2 DEF Dead, Typed
    <3>2. Dead(p)
      BY <1>1, <1>2, <1>3, <2>2, <3>1 DEF Dead, Typed
    <3>3. p \in Calls
      BY ProcCall
    <3>. QED  BY <1>1, <3>2, <3>3
  <2>3. ASSUME NEW d \in Pipes, pc'[d] \in {"wait", "done"}, Forked(d)'
        PROVE  \/ read_total'[d] = Bytes(d)
               \/ Dead(Right(d))' /\ ret'[Right(d)] = 1
    <3>1. pc[d] = pc'[d] /\ d # c
      BY <1>1, <1>4, <2>3
    <3>2. Forked(d)
      BY <1>6, <2>3, <3>1
    <3>3. Dead(Right(d)) => Dead(Right(d))'
      BY <1>1, <1>2, <1>4, <3>1 DEF Dead, Typed
    <3>. QED  BY <1>1, <1>2, <2>1, <2>3, <3>1, <3>2, <3>3 DEF Undisturbed
  <2>. QED  BY <1>1, <1>2, <2>1, <2>2, <2>3 DEF Undisturbed
<1>13. Reported'
  <2>1. ASSUME NEW d \in Pipes, pc'[d] = "done", ret'[d] = 0
        PROVE  pc'[Left(d)] = "done" /\ ret'[Left(d)] = 0 /\ read_total'[d] = Bytes(d)
    <3>1. pc[d] = "done"
      BY <1>1, <1>4, <2>1
    <3>2. pc[Left(d)] = "done" /\ ret[Left(d)] = 0 /\ read_total[d] = Bytes(d)
      BY <1>1, <1>2, <2>1, <3>1 DEF Reported
    <3>3. pc'[Left(d)] = "done"
      BY <1>1, <1>4, <3>2
    <3>. QED  BY <1>1, <3>2, <3>3
  <2>. QED  BY <1>1, <1>2, <2>1 DEF Reported
<1>14. AllReaped'
  <2>1. ASSUME NEW d \in Pipes, errors = 0, pc'[d] = "done"
        PROVE  proc'[Right(d)] \in {"none", "reaped"}
    <3>1. pc[d] = "done" /\ d # c
      BY <1>1, <1>4, <2>1
    <3>. QED  BY <1>1, <1>2, <1>4, <2>1, <3>1 DEF AllReaped, Typed
  <2>. QED  BY <1>1, <2>1 DEF AllReaped
<1>. QED
  BY <1>5, <1>8, <1>9, <1>10, <1>11, <1>12, <1>13, <1>14 DEF Control

\* What the steps have in common in which a call returns: it has not started
\* its halves, or it has waited for them.
LEMMA ReturnControl ==
  ASSUME Control, NEW c \in Calls, NEW r \in {0, 1}, Return(c, r),
         pc[c] \in {"call", "wait"},
         arr' \in [Procs -> [1 .. N -> Elements]],
         proc' \in [Procs -> {"none", "alive", "zombie", "reaped"}],
         \A p \in Procs : \/ proc'[p] = proc[p]
                          \/ Dead(p) /\ proc'[p] = "reaped",
         failed' \in BOOLEAN, errors' \in 0 .. MaxErrors, errors' >= errors,
         failed => failed',
         failed' => failed \/ r = 1,
         r = 1 /\ errors' = 0 => failed',
         c \notin Pipes => r = 0,
         c \in Pipes /\ r = 0
         => pc[c] = "wait" /\ ret[Left(c)] = 0 /\ read_total[c] = Bytes(c),
         c \in Pipes /\ errors' = 0 => proc'[Right(c)] \in {"none", "reaped"},
         UNCHANGED <<pipe, read_total, written, exited, readers, writers>>
  PROVE  Control'
<1>1. Typed /\ Started /\ Nested /\ Ends /\ Amounts /\ Undisturbed /\ Reported
      /\ AllReaped
  BY DEF Control
<1>2. /\ pc' \in [Calls -> {"none", "call", "left", "read", "wait", "done"}]
      /\ ret' \in [Calls -> {0, 1}] /\ pc'[c] = "done" /\ ret'[c] = r
      /\ \A d \in Calls : d # c => pc'[d] = pc[d] /\ ret'[d] = ret[d]
      /\ ret[c] = 0
  BY <1>1 DEF Return, Typed, Started
<1>3. /\ Root \in Procs /\ Root \in Calls
      /\ \A p \in Procs : p \in Calls /\ (Dead(p) => Dead(p)')
      /\ \A p \in Procs : proc'[p] = "alive" => proc[p] = "alive"
      /\ \A p \in Procs : proc[p] = "none" <=> proc'[p] = "none"
  BY <1>1, RootCall, ProcCall DEF Dead, Procs
<1>4. ASSUME NEW d \in Pipes
      PROVE  /\ d \in Calls /\ Left(d) \in Calls /\ Right(d) \in Calls
             /\ Right(d) \in Procs /\ Left(d) # d /\ Right(d) # d
             /\ Owner(d) \in Procs /\ (Forked(d) <=> Forked(d)')
  BY <1>3, PipeFacts, LeftNotRight, OwnerIs DEF Forked
<1>5. errors' = 0 => errors = 0
  BY <1>1, FsortAssumption DEF Typed
<1>6. Typed'
  BY <1>1, <1>2 DEF Typed
<1>7. Started'
  <2>1. proc'[Root] = "alive" /\ pc'[Root] # "none"
    BY <1>1, <1>2, <1>3 DEF Started, Dead
  <2>2. ASSUME NEW d \in Pipes
        PROVE  /\ pc'[Left(d)] = "none" <=> ~Forked(d)'
               /\ pc'[Right(d)] = "none" <=> ~Forked(d)'
               /\ pc'[d] \in {"none", "call"} => ~Forked(d)'
               /\ pc'[d] \in {"left", "read", "wait"} => Forked(d)'
               /\ pc'[d] \in {"read", "wait"} => pc'[Left(d)] = "done"
               /\ pc'[d] = "done" /\ ~Forked(d)' => ret'[d] = 1
    BY <1>1, <1>2, <1>4 DEF Started
  <2>3. \A d \in Calls \ Pipes : pc'[d] \in {"none", "call", "done"} /\ ret'[d] = 0
    BY <1>1, <1>2 DEF Started
  <2>4. \A d \in Calls : pc'[d] # "done" => ret'[d] = 0
    BY <1>1, <1>2 DEF Started
  <2>. QED  BY <2>1, <2>2, <2>3, <2>4 DEF Started
<1>8. Nested'
  BY <1>1, <1>2 DEF Nested
<1>9. Ends'
  BY <1>1, <1>2, <1>3, <1>4 DEF Ends
<1>10. Amounts'
  <2>1. \A d \in Pipes : pc[Right(d)] = "done" =>
          pc'[Right(d)] = "done" /\ ret'[Right(d)] = ret[Right(d)]
    BY <1>2, <1>4
  <2>. QED  BY <1>1, <2>1 DEF Amounts
<1>11. Undisturbed'
  <2>1. SUFFICES ASSUME errors = 0, errors' = 0
          PROVE /\ \A p \in Procs :
                     Dead(p)' => /\ pc'[p] = "done" /\ exited'[p] = ret'[p]
                                 /\ ret'[p] = 0 => written'[p] = p[2]
                /\ \A d \in Pipes :
                     pc'[d] \in {"wait", "done"} /\ Forked(d)'
                     => \/ read_total'[d] = Bytes(d)
                        \/ Dead(Right(d))' /\ ret'[Right(d)] = 1
                /\ \A d \in Calls : ret'[d] = 1 => failed'
    BY <1>5 DEF Undisturbed
  <2>2. ASSUME NEW p \in Procs, Dead(p)'
        PROVE  /\ pc'[p] = "done" /\ exited'[p] = ret'[p]
               /\ ret'[p] = 0 => written'[p] = p[2]
    <3>1. Dead(p)
      BY <1>1, <2>2 DEF Dead
    <3>2. p # c
      BY <1>1, <2>1, <3>1 DEF Undisturbed
    <3>. QED  BY <1>1, <1>2, <1>3, <2>1, <3>1, <3>2 DEF Undisturbed
  <2>3. ASSUME NEW d \in Pipes, pc'[d] \in {"wait", "done"}, Forked(d)'
        PROVE  \/ read_total'[d] = Bytes(d)
               \/ Dead(Right(d))' /\ ret'[Right(d)] = 1
    <3>1. pc[d] \in {"wait", "done"} /\ Forked(d)
      BY <1>1, <1>2, <1>4, <2>3 DEF Started
    <3>2. ret[Right(d)] = 1 => ret'[Right(d)] = 1
      BY <1>2, <1>4
    <3>. QED  BY <1>1, <1>3, <1>4, <2>1, <3>1, <3>2 DEF Undisturbed
  <2>4. \A d \in Calls : ret'[d] = 1 => failed'
    BY <1>1, <1>2, <2>1 DEF Undisturbed
  <2>. QED  BY <2>2, <2>3, <2>4
<1>12. Reported'
  <2>1. failed' => \E d \in Calls : ret'[d] = 1
    BY <1>1, <1>2 DEF Reported
  <2>2. ASSUME NEW d \in Pipes, pc'[d] = "done", ret'[d] = 0
        PROVE  pc'[Left(d)] = "done" /\ ret'[Left(d)] = 0 /\ read_total'[d] = Bytes(d)
    <3>1. CASE d = c
      <4>1. pc[Left(c)] = "done"
        BY <1>1, <1>2, <2>2, <3>1 DEF Started
      <4>. QED  BY <1>2, <1>4, <2>2, <3>1, <4>1
    <3>2. CASE d # c
      <4>1. pc[Left(d)] = "done" /\ ret[Left(d)] = 0 /\ read_total[d] = Bytes(d)
        BY <1>1, <1>2, <1>4, <2>2, <3>2 DEF Reported
      <4>. QED  BY <1>2, <1>4, <4>1
    <3>. QED  BY <3>1, <3>2
  <2>. QED  BY <2>1, <2>2 DEF Reported
<1>13. AllReaped'
  BY <1>1, <1>2, <1>4, <1>5 DEF AllReaped, Dead
<1>. QED
  BY <1>6, <1>7, <1>8, <1>9, <1>10, <1>11, <1>12, <1>13 DEF Control

\* A failed pipe() or fork() is a result of 1, with no half begun.
LEMMA ForkFailsControl ==
  ASSUME Control, NEW c \in Calls, ForkFails(c)
  PROVE  Control'
<1>1. Typed /\ Started
  BY DEF Control
<1>2. /\ c \in Pipes /\ pc[c] = "call" /\ Return(c, 1) /\ failed' = TRUE
      /\ UNCHANGED <<arr, pipe, read_total, written, proc, exited, readers,
                     writers, errors>>
  BY DEF ForkFails, At, Pipes
<1>3. proc[Right(c)] = "none"
  BY <1>1, <1>2 DEF Started, Forked
<1>4. /\ arr' \in [Procs -> [1 .. N -> Elements]]
      /\ proc' \in [Procs -> {"none", "alive", "zombie", "reaped"}]
      /\ \A p \in Procs : proc'[p] = proc[p]
      /\ failed' \in BOOLEAN /\ errors' \in 0 .. MaxErrors /\ errors' >= errors
  BY <1>1, <1>2, FsortAssumption DEF Typed
<1>5. 1 \in {0, 1} /\ proc'[Right(c)] \in {"none", "reaped"}
  BY <1>2, <1>3
<1>. QED  BY <1>2, <1>4, <1>5, ReturnControl

\* A call that does not fork returns 0.
LEMMA SortAloneControl ==
  ASSUME Control, NEW c \in Calls, SortAlone(c)
  PROVE  Control'
<1>1. Typed /\ Started
  BY DEF Control
<1>2. /\ c \notin Pipes /\ pc[c] = "call" /\ Return(c, 0)
      /\ UNCHANGED <<pipe, read_total, written, proc, exited, readers, writers,
                     failed, errors>>
  BY DEF SortAlone, At, Pipes
<1>3. c \in Parts /\ Owner(c) \in Procs
  BY CallNumbers, OwnerIs
<1>4. PICK s \in Sorted(arr[Owner(c)], c) :
        arr' = [arr EXCEPT ![Owner(c)] = WithPart(arr[Owner(c)], c, s)]
  BY DEF SortAlone
<1>5. arr[Owner(c)] \in [1 .. N -> Elements]
  BY <1>1, <1>3 DEF Typed
<1>6. s \in Seq(Elements) /\ Len(s) = c[2] /\ Elems(s) = Image(arr[Owner(c)], c)
  BY <1>3, <1>4, <1>5, SortedIs
<1>7. WithPart(arr[Owner(c)], c, s) \in [1 .. N -> Elements]
  BY <1>3, <1>5, <1>6, WithPartIs
<1>8. arr' \in [Procs -> [1 .. N -> Elements]]
  BY <1>1, <1>3, <1>4, <1>7, Zenon DEF Typed
<1>9. /\ proc' \in [Procs -> {"none", "alive", "zombie", "reaped"}]
      /\ \A p \in Procs : proc'[p] = proc[p]
      /\ failed' \in BOOLEAN /\ errors' \in 0 .. MaxErrors /\ errors' >= errors
  BY <1>1, <1>2, FsortAssumption DEF Typed
<1>10. 0 \in {0, 1} /\ ~(0 = 1)
  OBVIOUS
<1>. QED  BY <1>2, <1>8, <1>9, <1>10, ReturnControl

\* What the end of a call makes of the array.
LEMMA ConcludeEffect ==
  ASSUME Typed, NEW c \in Pipes, NEW b \in BOOLEAN, Conclude(c, b)
  PROVE  /\ Owner(c) \in Procs /\ arr[Owner(c)] \in [1 .. N -> Elements]
         /\ arr' \in [Procs -> [1 .. N -> Elements]]
         /\ \/ /\ ret[Left(c)] # 0 \/ b \/ read_total[c] # Bytes(c)
               /\ Return(c, 1) /\ UNCHANGED arr
            \/ /\ ret[Left(c)] = 0 /\ ~b /\ read_total[c] = Bytes(c)
               /\ Return(c, 0)
               /\ \E s \in MergeResults(Part(arr[Owner(c)], Left(c)),
                                        Part(arr[Owner(c)], Right(c))) :
                    /\ arr' = [arr EXCEPT ![Owner(c)] =
                                            WithPart(arr[Owner(c)], c, s)]
                    /\ s \in Seq(Elements) /\ Len(s) = c[2]
                    /\ Elems(s) = Image(arr[Owner(c)], c)
<1>1. Owner(c) \in Procs
  BY PipeFacts, OwnerIs
<1>2. PICK a : a = arr[Owner(c)]
  OBVIOUS
<1>3. a \in [1 .. N -> Elements]
  BY <1>1, <1>2 DEF Typed
<1>4. /\ c \in Parts /\ Left(c) \in Parts /\ Right(c) \in Parts /\ c[2] > 1
      /\ Left(c)[2] + Right(c)[2] = c[2]
  <2>1. /\ c \in Parts /\ Left(c) \in Parts /\ Right(c) \in Parts
        /\ c[2] \in Nat /\ Mid(c) \in Nat /\ Left(c)[2] = Mid(c)
        /\ Right(c)[2] = c[2] - Mid(c) /\ 1 <= Mid(c) /\ Mid(c) < c[2]
    BY PipeFacts, CallNumbers
  <2>. QED  BY <2>1
<1>5. CASE ret[Left(c)] # 0 \/ b \/ read_total[c] # Bytes(c)
  BY <1>1, <1>2, <1>3, <1>5 DEF Conclude, Typed
<1>6. CASE ~(ret[Left(c)] # 0 \/ b \/ read_total[c] # Bytes(c))
  <2>1. PICK s \in MergeResults(Part(a, Left(c)), Part(a, Right(c))) :
          arr' = [arr EXCEPT ![Owner(c)] = WithPart(a, c, s)]
    BY <1>2, <1>6 DEF Conclude
  <2>2. /\ Part(a, Left(c)) \in Seq(Elements) /\ Len(Part(a, Left(c))) = Left(c)[2]
        /\ Elems(Part(a, Left(c))) = Image(a, Left(c))
    BY <1>3, <1>4, PartIs DEF Image
  <2>3. /\ Part(a, Right(c)) \in Seq(Elements) /\ Len(Part(a, Right(c))) = Right(c)[2]
        /\ Elems(Part(a, Right(c))) = Image(a, Right(c))
    BY <1>3, <1>4, PartIs DEF Image
  <2>4. /\ s \in Seq(Elements) /\ Len(s) = Left(c)[2] + Right(c)[2]
        /\ Elems(s) = Image(a, Left(c)) \cup Image(a, Right(c))
    BY <2>1, <2>2, <2>3, MergeResultsAre
  <2>5. Image(a, c) = Image(a, Left(c)) \cup Image(a, Right(c))
    BY <1>4, RegionSplit DEF Image
  <2>6. s \in Seq(Elements) /\ Len(s) = c[2] /\ Elems(s) = Image(a, c)
    BY <1>4, <2>4, <2>5
  <2>7. WithPart(a, c, s) \in [1 .. N -> Elements]
    BY <1>3, <1>4, <2>6, WithPartIs
  <2>8. arr' \in [Procs -> [1 .. N -> Elements]]
    BY <1>1, <2>1, <2>7 DEF Typed
  <2>9. Return(c, 0)
    BY <1>6 DEF Conclude
  <2>. QED  BY <1>1, <1>2, <1>3, <1>6, <2>1, <2>6, <2>8, <2>9
<1>. QED  BY <1>5, <1>6

\* The result of a call that concludes, and the reason for it.
LEMMA ConcludeReturns ==
  ASSUME Typed, NEW c \in Pipes, NEW b \in BOOLEAN, Conclude(c, b)
  PROVE  \E r \in {0, 1} :
           /\ Return(c, r) /\ arr' \in [Procs -> [1 .. N -> Elements]]
           /\ r = 0 => ret[Left(c)] = 0 /\ read_total[c] = Bytes(c)
           /\ r = 1 => ret[Left(c)] # 0 \/ b \/ read_total[c] # Bytes(c)
<1>1. arr' \in [Procs -> [1 .. N -> Elements]]
  BY ConcludeEffect
<1>2. CASE ret[Left(c)] # 0 \/ b \/ read_total[c] # Bytes(c)
  <2>1. Return(c, 1)
    BY <1>2 DEF Conclude
  <2>2. 1 \in {0, 1} /\ ~(1 = 0)
    OBVIOUS
  <2>. QED  BY <1>1, <1>2, <2>1, <2>2, Zenon
<1>3. CASE ~(ret[Left(c)] # 0 \/ b \/ read_total[c] # Bytes(c))
  <2>1. Return(c, 0)
    BY <1>3 DEF Conclude
  <2>2. 0 \in {0, 1} /\ ~(0 = 1)
    OBVIOUS
  <2>. QED  BY <1>1, <1>3, <2>1, <2>2, Zenon
<1>. QED  BY <1>2, <1>3

\* The zombie is reaped, and the call returns.
LEMMA WaitControl ==
  ASSUME Control, NEW c \in Calls, Wait(c)
  PROVE  Control'
<1>1. Typed /\ Started /\ Undisturbed /\ Amounts
  BY DEF Control
<1>2. /\ c \in Pipes /\ pc[c] = "wait" /\ proc[Right(c)] = "zombie"
      /\ proc' = [proc EXCEPT ![Right(c)] = "reaped"]
      /\ UNCHANGED <<pipe, read_total, written, exited, readers, writers, failed,
                     errors>>
  BY DEF Wait, At
<1>3. Conclude(c, exited[Right(c)] # 0)
  BY DEF Wait
<1>4. PICK r \in {0, 1} :
        /\ Return(c, r) /\ arr' \in [Procs -> [1 .. N -> Elements]]
        /\ r = 0 => ret[Left(c)] = 0 /\ read_total[c] = Bytes(c)
        /\ r = 1 => \/ ret[Left(c)] # 0 \/ exited[Right(c)] # 0
                    \/ read_total[c] # Bytes(c)
  BY <1>1, <1>2, <1>3, ConcludeReturns
<1>5. /\ Right(c) \in Procs /\ Left(c) \in Calls /\ Right(c) \in Calls
  BY <1>2, PipeFacts
<1>6. /\ proc' \in [Procs -> {"none", "alive", "zombie", "reaped"}]
      /\ \A p \in Procs : \/ proc'[p] = proc[p]
                          \/ Dead(p) /\ proc'[p] = "reaped"
      /\ proc'[Right(c)] \in {"none", "reaped"}
      /\ failed' \in BOOLEAN /\ errors' \in 0 .. MaxErrors /\ errors' >= errors
  BY <1>1, <1>2, <1>5, FsortAssumption DEF Typed, Dead
<1>7. r = 1 /\ errors' = 0 => failed'
  <2>1. SUFFICES ASSUME r = 1, errors = 0 PROVE failed
    BY <1>2
  <2>2. Dead(Right(c)) /\ exited[Right(c)] = ret[Right(c)] /\ Forked(c)
    BY <1>1, <1>2, <1>5, <2>1 DEF Undisturbed, Dead, Forked
  <2>3. CASE ret[Left(c)] # 0
    BY <1>1, <1>5, <2>1, <2>3 DEF Undisturbed, Typed
  <2>4. CASE exited[Right(c)] # 0
    BY <1>1, <1>5, <2>1, <2>2, <2>4 DEF Undisturbed, Typed
  <2>5. CASE read_total[c] # Bytes(c)
    BY <1>1, <1>2, <1>5, <2>1, <2>2, <2>5 DEF Undisturbed
  <2>. QED  BY <1>4, <2>1, <2>3, <2>4, <2>5
<1>. QED  BY <1>2, <1>4, <1>6, <1>7, ReturnControl

\* A failed waitpid() is an error, after which the call returns all the same.
LEMMA WaitFailsControl ==
  ASSUME Control, NEW c \in Calls, WaitFails(c)
  PROVE  Control'
<1>1. Typed
  BY DEF Control
<1>2. /\ c \in Pipes /\ pc[c] = "wait" /\ errors < MaxErrors /\ errors' = errors + 1
      /\ UNCHANGED <<pipe, read_total, written, proc, exited, readers, writers,
                     failed>>
  BY DEF WaitFails, At
<1>3. PICK b \in BOOLEAN : Conclude(c, b)
  BY DEF WaitFails
<1>4. PICK r \in {0, 1} :
        /\ Return(c, r) /\ arr' \in [Procs -> [1 .. N -> Elements]]
        /\ r = 0 => ret[Left(c)] = 0 /\ read_total[c] = Bytes(c)
  BY <1>1, <1>2, <1>3, ConcludeReturns
<1>5. /\ proc' \in [Procs -> {"none", "alive", "zombie", "reaped"}]
      /\ \A p \in Procs : proc'[p] = proc[p]
      /\ failed' \in BOOLEAN /\ errors' \in 0 .. MaxErrors /\ errors' >= errors
      /\ errors' # 0
  BY <1>1, <1>2, FsortAssumption DEF Typed
<1>. QED  BY <1>2, <1>4, <1>5, ReturnControl

\* When the left half has returned, the call starts to read.
LEMMA LeftDoneControl ==
  ASSUME Control, NEW c \in Calls, LeftDone(c)
  PROVE  Control'
<1>1. Typed /\ Started /\ Nested /\ Ends /\ Amounts /\ Undisturbed /\ Reported
      /\ AllReaped
  BY DEF Control
<1>2. /\ c \in Pipes /\ pc[c] = "left" /\ pc[Left(c)] = "done"
      /\ UNCHANGED <<ret, arr, pipe, read_total, written, proc, exited, readers,
                     writers, failed, errors>>
  BY DEF LeftDone, At
<1>3. /\ pc' \in [Calls -> {"none", "call", "left", "read", "wait", "done"}]
      /\ pc'[c] = "read" /\ \A d \in Calls : d # c => pc'[d] = pc[d]
      /\ \A d \in Calls : /\ pc'[d] = "done" <=> pc[d] = "done"
                          /\ pc'[d] = "none" <=> pc[d] = "none"
  BY <1>1, <1>2 DEF LeftDone, Typed
<1>4. ASSUME NEW d \in Pipes
      PROVE  /\ d \in Calls /\ Left(d) \in Calls /\ Right(d) \in Calls
             /\ (Forked(d) <=> Forked(d)')
  BY <1>2, PipeFacts DEF Forked
<1>5. \A p \in Procs : p \in Calls /\ (Dead(p)' <=> Dead(p))
  BY <1>2, ProcCall DEF Dead
<1>6. Typed'
  BY <1>1, <1>2, <1>3 DEF Typed
<1>7. Started'
  <2>1. proc'[Root] = "alive" /\ pc'[Root] # "none"
    BY <1>1, <1>2, <1>3, RootCall DEF Started
  <2>2. ASSUME NEW d \in Pipes
        PROVE  /\ pc'[Left(d)] = "none" <=> ~Forked(d)'
               /\ pc'[Right(d)] = "none" <=> ~Forked(d)'
               /\ pc'[d] \in {"none", "call"} => ~Forked(d)'
               /\ pc'[d] \in {"left", "read", "wait"} => Forked(d)'
               /\ pc'[d] \in {"read", "wait"} => pc'[Left(d)] = "done"
               /\ pc'[d] = "done" /\ ~Forked(d)' => ret'[d] = 1
    BY <1>1, <1>2, <1>3, <1>4 DEF Started
  <2>3. \A d \in Calls \ Pipes : pc'[d] \in {"none", "call", "done"} /\ ret'[d] = 0
    BY <1>1, <1>2, <1>3 DEF Started
  <2>4. \A d \in Calls : pc'[d] # "done" => ret'[d] = 0
    BY <1>1, <1>2, <1>3 DEF Started
  <2>. QED  BY <2>1, <2>2, <2>3, <2>4 DEF Started
<1>8. Nested'
  <2>1. SUFFICES ASSUME NEW a \in Calls, NEW d \in Calls, a[1] = d[1], a[2] < d[2]
                 PROVE  /\ pc'[a] \in {"none", "done"} \/ pc'[d] = "left"
                        /\ pc'[d] \in {"none", "call"} => pc'[a] = "none"
    BY DEF Nested
  <2>2. /\ pc[a] \in {"none", "done"} \/ pc[d] = "left"
        /\ pc[d] \in {"none", "call"} => pc[a] = "none"
    BY <1>1, <2>1 DEF Nested
  <2>3. CASE d = c
    <3>1. /\ Left(c) \in Calls /\ Left(c)[1] = c[1] /\ Left(c)[2] = Mid(c)
          /\ a[2] <= Mid(c) /\ a[2] \in Nat /\ Mid(c) \in Nat
      BY <1>2, <2>1, <2>3, PipeFacts, CallNumbers, Shorter
    <3>2. CASE a[2] = Mid(c)
      <4>1. a = Left(c)
        BY <2>1, <2>3, <3>1, <3>2, SameCall
      <4>. QED  BY <1>2, <1>3, <2>3, <4>1
    <3>3. CASE a[2] < Mid(c)
      <4>1. pc[a] \in {"none", "done"} \/ pc[Left(c)] = "left"
        BY <1>1, <2>1, <2>3, <3>1, <3>3 DEF Nested
      <4>. QED  BY <1>2, <1>3, <2>3, <4>1
    <3>. QED  BY <3>1, <3>2, <3>3
  <2>4. CASE d # c
    BY <1>3, <2>2, <2>4
  <2>. QED  BY <2>3, <2>4
<1>9. Ends'
  BY <1>1, <1>2, <1>3, <1>4 DEF Ends
<1>10. Amounts'
  BY <1>1, <1>2, <1>3, <1>4 DEF Amounts
<1>11. Undisturbed'
  <2>1. \A d \in Pipes : pc'[d] \in {"wait", "done"} => pc[d] \in {"wait", "done"}
    BY <1>3, <1>4
  <2>2. SUFFICES ASSUME errors = 0
          PROVE /\ \A p \in Procs :
                     Dead(p)' => /\ pc'[p] = "done" /\ exited'[p] = ret'[p]
                                 /\ ret'[p] = 0 => written'[p] = p[2]
                /\ \A d \in Pipes :
                     pc'[d] \in {"wait", "done"} /\ Forked(d)'
                     => \/ read_total'[d] = Bytes(d)
                        \/ Dead(Right(d))' /\ ret'[Right(d)] = 1
                /\ \A d \in Calls : ret'[d] = 1 => failed'
    BY <1>2 DEF Undisturbed
  <2>3. ASSUME NEW p \in Procs, Dead(p)'
        PROVE  /\ pc'[p] = "done" /\ exited'[p] = ret'[p]
               /\ ret'[p] = 0 => written'[p] = p[2]
    BY <1>1, <1>2, <1>3, <1>5, <2>2, <2>3 DEF Undisturbed
  <2>4. ASSUME NEW d \in Pipes, pc'[d] \in {"wait", "done"}, Forked(d)'
        PROVE  \/ read_total'[d] = Bytes(d)
               \/ Dead(Right(d))' /\ ret'[Right(d)] = 1
    BY <1>1, <1>2, <1>4, <1>5, <2>1, <2>2, <2>4, PipeFacts DEF Undisturbed
  <2>5. \A d \in Calls : ret'[d] = 1 => failed'
    BY <1>1, <1>2, <2>2 DEF Undisturbed
  <2>. QED  BY <2>3, <2>4, <2>5
<1>12. Reported'
  BY <1>1, <1>2, <1>3, <1>4 DEF Reported
<1>13. AllReaped'
  BY <1>1, <1>2, <1>3, <1>4 DEF AllReaped
<1>. QED
  BY <1>6, <1>7, <1>8, <1>9, <1>10, <1>11, <1>12, <1>13 DEF Control

\* What reading changes of the array.
LEMMA ReadEffect ==
  ASSUME Typed, Amounts, NEW c \in Calls, Read(c)
  PROVE  /\ c \in Pipes /\ pc[c] = "read" /\ pipe[c] # <<>>
         /\ Owner(c) \in Procs /\ arr[Owner(c)] \in [1 .. N -> Elements]
         /\ arr' \in [Procs -> [1 .. N -> Elements]]
         /\ arr' = [arr EXCEPT ![Owner(c)] =
                      WithPart(arr[Owner(c)],
                               <<Right(c)[1] + read_total[c], Len(pipe[c])>>, pipe[c])]
         /\ read_total' = [read_total EXCEPT ![c] = read_total[c] + Len(pipe[c])]
         /\ pipe' = [pipe EXCEPT ![c] = <<>>]
         /\ UNCHANGED <<pc, ret, written, proc, exited, readers, writers, failed,
                        errors>>
<1>1. /\ c \in Pipes /\ pc[c] = "read" /\ pipe[c] # <<>>
      /\ arr' = [arr EXCEPT ![Owner(c)] =
                   WithPart(arr[Owner(c)],
                            <<Right(c)[1] + read_total[c], Len(pipe[c])>>, pipe[c])]
      /\ read_total' = [read_total EXCEPT ![c] = read_total[c] + Len(pipe[c])]
      /\ pipe' = [pipe EXCEPT ![c] = <<>>]
      /\ UNCHANGED <<pc, ret, written, proc, exited, readers, writers, failed,
                     errors>>
  BY DEF Read, At
<1>2. Owner(c) \in Procs
  BY OwnerIs
<1>3. arr[Owner(c)] \in [1 .. N -> Elements]
  BY <1>2 DEF Typed
<1>4. PICK n \in Nat, b \in Nat \ {0}, s \in Seq(Elements) :
        n = Len(pipe[c]) /\ b = Right(c)[1] + read_total[c] /\ s = pipe[c]
  <2>1. Right(c)[1] \in Nat /\ 1 <= Right(c)[1] /\ read_total[c] \in Nat
    BY <1>1, PipeFacts, CallNumbers DEF Typed
  <2>2. pipe[c] \in Seq(Elements)
    BY <1>1 DEF Typed
  <2>3. Right(c)[1] + read_total[c] \in Nat \ {0}
    BY <2>1
  <2>4. Len(pipe[c]) \in Nat
    BY <2>2
  <2>. QED  BY <2>2, <2>3, <2>4
<1>5. \A k \in 1 .. n : s[k] \in Elements
  BY <1>4
<1>6. WithPart(arr[Owner(c)], <<b, n>>, s) \in [1 .. N -> Elements]
  BY <1>3, <1>5, WithPartTyped
<1>7. arr' \in [Procs -> [1 .. N -> Elements]]
  BY <1>1, <1>2, <1>4, <1>6, Zenon DEF Typed
<1>. QED  BY <1>1, <1>2, <1>3, <1>7

\* A read() moves elements from the pipe to the amount that was read.
LEMMA ReadControl ==
  ASSUME Control, NEW c \in Calls, Read(c)
  PROVE  Control'
<1>1. Typed /\ Started /\ Nested /\ Ends /\ Amounts /\ Undisturbed /\ Reported
      /\ AllReaped
  BY DEF Control
<1>2. /\ c \in Pipes /\ pc[c] = "read"
      /\ arr' \in [Procs -> [1 .. N -> Elements]]
      /\ read_total' = [read_total EXCEPT ![c] = read_total[c] + Len(pipe[c])]
      /\ pipe' = [pipe EXCEPT ![c] = <<>>]
      /\ UNCHANGED <<pc, ret, written, proc, exited, readers, writers, failed,
                     errors>>
  BY <1>1, ReadEffect
<1>3. /\ pipe' \in [Pipes -> Seq(Elements)] /\ pipe'[c] = <<>>
      /\ \A d \in Pipes : d # c => pipe'[d] = pipe[d]
      /\ Len(<<>>) = 0
  <2>1. <<>> \in Seq(Elements) /\ Len(<<>>) = 0
    OBVIOUS
  <2>. QED  BY <1>1, <1>2, <2>1 DEF Typed
<1>4. /\ read_total' \in [Pipes -> Nat]
      /\ read_total'[c] = read_total[c] + Len(pipe[c])
      /\ \A d \in Pipes : d # c => read_total'[d] = read_total[d]
  <2>1. read_total[c] + Len(pipe[c]) \in Nat
    BY <1>1, <1>2 DEF Typed
  <2>. QED  BY <1>1, <1>2, <2>1 DEF Typed
<1>5. ASSUME NEW d \in Pipes
      PROVE  /\ d \in Calls /\ Left(d) \in Calls /\ Right(d) \in Calls
             /\ (Forked(d) <=> Forked(d)')
             /\ pc[d] \in {"wait", "done"} => d # c
  BY <1>2, PipeFacts DEF Forked
<1>6. \A p \in Procs : Dead(p)' <=> Dead(p)
  BY <1>2 DEF Dead
<1>7. Typed'
  <2>1. ASSUME NEW d \in Pipes PROVE Len(pipe'[d]) <= PipeCap
    <3>1. 0 <= PipeCap
      BY FsortAssumption
    <3>2. CASE d = c
      BY <1>3, <3>1, <3>2
    <3>3. CASE d # c
      BY <1>1, <1>3, <3>3 DEF Typed
    <3>. QED  BY <3>2, <3>3
  <2>. QED  BY <1>1, <1>2, <1>3, <1>4, <2>1 DEF Typed
<1>8. Started'
  BY <1>1, <1>2, <1>5 DEF Started
<1>9. Nested'
  BY <1>1, <1>2 DEF Nested
<1>10. Ends'
  BY <1>1, <1>2 DEF Ends
<1>11. Amounts'
  <2>1. ASSUME NEW d \in Pipes
        PROVE  read_total'[d] + Len(pipe'[d]) = read_total[d] + Len(pipe[d])
    <3>1. CASE d = c
      <4>1. PICK i \in Nat, j \in Nat : i = read_total[c] /\ j = Len(pipe[c])
        BY <1>1, <1>2 DEF Typed
      <4>2. (i + j) + 0 = i + j
        OBVIOUS
      <4>. QED  BY <1>3, <1>4, <3>1, <4>1, <4>2
    <3>2. CASE d # c
      BY <1>3, <1>4, <3>2
    <3>. QED  BY <3>1, <3>2
  <2>. QED  BY <1>1, <1>2, <2>1 DEF Amounts
<1>12. Undisturbed'
  <2>1. SUFFICES ASSUME errors = 0
          PROVE /\ \A p \in Procs :
                     Dead(p)' => /\ pc'[p] = "done" /\ exited'[p] = ret'[p]
                                 /\ ret'[p] = 0 => written'[p] = p[2]
                /\ \A d \in Pipes :
                     pc'[d] \in {"wait", "done"} /\ Forked(d)'
                     => \/ read_total'[d] = Bytes(d)
                        \/ Dead(Right(d))' /\ ret'[Right(d)] = 1
                /\ \A d \in Calls : ret'[d] = 1 => failed'
    BY <1>2 DEF Undisturbed
  <2>2. ASSUME NEW p \in Procs, Dead(p)'
        PROVE  /\ pc'[p] = "done" /\ exited'[p] = ret'[p]
               /\ ret'[p] = 0 => written'[p] = p[2]
    BY <1>1, <1>2, <1>6, <2>1, <2>2 DEF Undisturbed
  <2>3. ASSUME NEW d \in Pipes, pc'[d] \in {"wait", "done"}, Forked(d)'
        PROVE  \/ read_total'[d] = Bytes(d)
               \/ Dead(Right(d))' /\ ret'[Right(d)] = 1
    BY <1>1, <1>2, <1>4, <1>5, <1>6, <2>1, <2>3, PipeFacts DEF Undisturbed
  <2>4. \A d \in Calls : ret'[d] = 1 => failed'
    BY <1>1, <1>2, <2>1 DEF Undisturbed
  <2>. QED  BY <2>2, <2>3, <2>4
<1>13. Reported'
  BY <1>1, <1>2, <1>4, <1>5 DEF Reported
<1>14. AllReaped'
  BY <1>1, <1>2 DEF AllReaped
<1>. QED
  BY <1>7, <1>8, <1>9, <1>10, <1>11, <1>12, <1>13, <1>14 DEF Control

\* The loop of read() ends early only if the child is dead, or on an error.
LEMMA ReadEndControl ==
  ASSUME Control, NEW c \in Calls, ReadEnd(c)
  PROVE  Control'
<1>1. Typed /\ Started /\ Nested /\ Ends /\ Amounts /\ Undisturbed /\ Reported
      /\ AllReaped
  BY DEF Control
<1>2. /\ c \in Pipes /\ pc[c] = "read"
      /\ pc' = [pc EXCEPT ![c] = "wait"]
      /\ readers' = [readers EXCEPT ![c] = readers[c] \ {Owner(c)}]
      /\ UNCHANGED <<ret, arr, pipe, read_total, written, proc, exited, writers,
                     failed>>
  BY DEF ReadEnd, At
<1>3. /\ pc' \in [Calls -> {"none", "call", "left", "read", "wait", "done"}]
      /\ pc'[c] = "wait" /\ \A d \in Calls : d # c => pc'[d] = pc[d]
      /\ \A d \in Calls : /\ pc'[d] = "done" <=> pc[d] = "done"
                          /\ pc'[d] = "none" <=> pc[d] = "none"
  BY <1>1, <1>2 DEF Typed
<1>4. ASSUME NEW d \in Pipes
      PROVE  /\ d \in Calls /\ Left(d) \in Calls /\ Right(d) \in Calls
             /\ Right(d) \in Procs
             /\ (Forked(d) <=> Forked(d)')
  BY <1>2, PipeFacts DEF Forked
<1>5. \A p \in Procs : p \in Calls /\ (Dead(p)' <=> Dead(p))
  BY <1>2, ProcCall DEF Dead
<1>6. /\ errors' \in 0 .. MaxErrors
      /\ errors' = 0 => /\ errors = 0
                        /\ \/ read_total[c] = Bytes(c)
                           \/ pipe[c] = <<>> /\ writers[c] = {}
  <2>1. /\ errors \in 0 .. MaxErrors /\ MaxErrors \in Nat
        /\ \/ read_total[c] = Bytes(c) /\ UNCHANGED errors
           \/ pipe[c] = <<>> /\ writers[c] = {} /\ UNCHANGED errors
           \/ errors < MaxErrors /\ errors' = errors + 1
    BY <1>1, FsortAssumption DEF Typed, ReadEnd
  <2>. QED  BY <2>1
<1>7. /\ readers' \in [Pipes -> SUBSET Procs]
      /\ \A d \in Pipes : d # c => readers'[d] = readers[d]
  BY <1>1, <1>2 DEF Typed
<1>8. Typed'
  BY <1>1, <1>2, <1>3, <1>6, <1>7 DEF Typed
<1>9. Started'
  <2>1. proc'[Root] = "alive" /\ pc'[Root] # "none"
    BY <1>1, <1>2, <1>3, RootCall DEF Started
  <2>2. ASSUME NEW d \in Pipes
        PROVE  /\ pc'[Left(d)] = "none" <=> ~Forked(d)'
               /\ pc'[Right(d)] = "none" <=> ~Forked(d)'
               /\ pc'[d] \in {"none", "call"} => ~Forked(d)'
               /\ pc'[d] \in {"left", "read", "wait"} => Forked(d)'
               /\ pc'[d] \in {"read", "wait"} => pc'[Left(d)] = "done"
               /\ pc'[d] = "done" /\ ~Forked(d)' => ret'[d] = 1
    BY <1>1, <1>2, <1>3, <1>4 DEF Started
  <2>3. \A d \in Calls \ Pipes : pc'[d] \in {"none", "call", "done"} /\ ret'[d] = 0
    BY <1>1, <1>2, <1>3 DEF Started
  <2>4. \A d \in Calls : pc'[d] # "done" => ret'[d] = 0
    BY <1>1, <1>2, <1>3 DEF Started
  <2>. QED  BY <2>1, <2>2, <2>3, <2>4 DEF Started
<1>10. Nested'
  BY <1>1, <1>2, <1>3 DEF Nested
<1>11. Ends'
  BY <1>1, <1>2, <1>3, <1>4, <1>7 DEF Ends
<1>12. Amounts'
  BY <1>1, <1>2, <1>3, <1>4 DEF Amounts
<1>13. Undisturbed'
  <2>1. SUFFICES ASSUME errors = 0, errors' = 0
          PROVE /\ \A p \in Procs :
                     Dead(p)' => /\ pc'[p] = "done" /\ exited'[p] = ret'[p]
                                 /\ ret'[p] = 0 => written'[p] = p[2]
                /\ \A d \in Pipes :
                     pc'[d] \in {"wait", "done"} /\ Forked(d)'
                     => \/ read_total'[d] = Bytes(d)
                        \/ Dead(Right(d))' /\ ret'[Right(d)] = 1
                /\ \A d \in Calls : ret'[d] = 1 => failed'
    BY <1>6 DEF Undisturbed
  <2>2. ASSUME NEW p \in Procs, Dead(p)'
        PROVE  /\ pc'[p] = "done" /\ exited'[p] = ret'[p]
               /\ ret'[p] = 0 => written'[p] = p[2]
    BY <1>1, <1>2, <1>3, <1>5, <2>1, <2>2 DEF Undisturbed
  <2>3. ASSUME NEW d \in Pipes, pc'[d] \in {"wait", "done"}, Forked(d)'
        PROVE  \/ read_total'[d] = Bytes(d)
               \/ Dead(Right(d))' /\ ret'[Right(d)] = 1
    <3>1. CASE d # c
      BY <1>1, <1>2, <1>3, <1>4, <1>5, <2>1, <2>3, <3>1 DEF Undisturbed
    <3>2. CASE d = c
      <4>1. SUFFICES ASSUME pipe[c] = <<>>, writers[c] = {}
                     PROVE  read_total[c] = Bytes(c)
                            \/ (Dead(Right(c)) /\ ret[Right(c)] = 1)
        BY <1>2, <1>4, <1>5, <1>6, <2>1, <3>2
      <4>2. Dead(Right(c))
        <5>1. proc[Right(c)] # "alive" /\ Forked(c)
          BY <1>1, <1>2, <4>1 DEF Ends, Started
        <5>. QED  BY <1>1, <1>2, <1>4, <5>1 DEF Dead, Forked, Typed
      <4>3. ret[Right(c)] = 0 => written[Right(c)] = Bytes(c)
        BY <1>1, <1>2, <1>4, <2>1, <4>2, PipeFacts DEF Undisturbed
      <4>4. read_total[c] = written[Right(c)]
        <5>1. read_total[c] + Len(pipe[c]) = written[Right(c)] /\ read_total[c] \in Nat
          BY <1>1, <1>2 DEF Amounts, Typed
        <5>2. Len(<<>>) = 0
          OBVIOUS
        <5>3. \A i : i = 0 => read_total[c] + i = read_total[c]
          BY <5>1
        <5>. QED  BY <4>1, <5>1, <5>2, <5>3
      <4>. QED  BY <1>1, <1>2, <1>4, <4>2, <4>3, <4>4 DEF Typed
    <3>. QED  BY <3>1, <3>2
  <2>4. \A d \in Calls : ret'[d] = 1 => failed'
    BY <1>1, <1>2, <2>1 DEF Undisturbed
  <2>. QED  BY <2>2, <2>3, <2>4
<1>14. Reported'
  BY <1>1, <1>2, <1>3, <1>4 DEF Reported
<1>15. AllReaped'
  BY <1>1, <1>2, <1>3, <1>4, <1>6 DEF AllReaped
<1>. QED
  BY <1>8, <1>9, <1>10, <1>11, <1>12, <1>13, <1>14, <1>15 DEF Control

\* What writing changes.
LEMMA WriteEffect ==
  ASSUME Typed, NEW p \in Procs, Write(p)
  PROVE  /\ p # Root /\ pc[p] = "done" /\ ret[p] = 0 /\ written[p] < p[2]
         /\ proc[p] = "alive"
         /\ Forker(p) \in Pipes /\ Right(Forker(p)) = p
         /\ p[1] + written[p] \in 1 .. N
         /\ pipe' \in [Pipes -> Seq(Elements)]
         /\ pipe'[Forker(p)] = Append(pipe[Forker(p)], arr[p][p[1] + written[p]])
         /\ Len(pipe'[Forker(p)]) = Len(pipe[Forker(p)]) + 1
         /\ Len(pipe'[Forker(p)]) <= PipeCap
         /\ \A d \in Pipes : d # Forker(p) => pipe'[d] = pipe[d]
         /\ written' \in [Procs -> 0 .. N]
         /\ written'[p] = written[p] + 1
         /\ \A q \in Procs : q # p => written'[q] = written[q]
         /\ UNCHANGED <<pc, ret, arr, read_total, proc, exited, readers, writers,
                        failed, errors>>
<1>1. /\ p # Root /\ pc[p] = "done" /\ ret[p] = 0 /\ written[p] < p[2]
      /\ proc[p] = "alive" /\ Len(pipe[Forker(p)]) < PipeCap
      /\ pipe' = [pipe EXCEPT ![Forker(p)] =
                                Append(pipe[Forker(p)], arr[p][p[1] + written[p]])]
      /\ written' = [written EXCEPT ![p] = written[p] + 1]
      /\ UNCHANGED <<pc, ret, arr, read_total, proc, exited, readers, writers,
                     failed, errors>>
  BY ProcCall DEF Write, Writing, Child, At
<1>2. Forker(p) \in Pipes /\ Right(Forker(p)) = p
  BY <1>1, ForkerIs
<1>3. /\ p[1] \in Nat /\ p[2] \in Nat /\ 1 <= p[1] /\ p[1] + p[2] <= N + 1
      /\ N \in Nat /\ written[p] \in 0 .. N /\ PipeCap \in Nat
  BY ProcCall, CallNumbers, FsortAssumption DEF Typed
<1>4. p[1] + written[p] \in 1 .. N /\ written[p] + 1 \in 0 .. N
  BY <1>1, <1>3
<1>5. arr[p][p[1] + written[p]] \in Elements
  BY <1>4 DEF Typed
<1>6. \A q \in Seq(Elements), e \in Elements :
        Append(q, e) \in Seq(Elements) /\ Len(Append(q, e)) = Len(q) + 1
  OBVIOUS
<1>7. /\ pipe[Forker(p)] \in Seq(Elements)
      /\ Append(pipe[Forker(p)], arr[p][p[1] + written[p]]) \in Seq(Elements)
      /\ Len(Append(pipe[Forker(p)], arr[p][p[1] + written[p]]))
         = Len(pipe[Forker(p)]) + 1
  BY <1>2, <1>5, <1>6 DEF Typed
<1>8. /\ pipe' \in [Pipes -> Seq(Elements)]
      /\ pipe'[Forker(p)] = Append(pipe[Forker(p)], arr[p][p[1] + written[p]])
      /\ \A d \in Pipes : d # Forker(p) => pipe'[d] = pipe[d]
  BY <1>1, <1>2, <1>7, Zenon DEF Typed
<1>9. Len(pipe[Forker(p)]) + 1 <= PipeCap
  <2>1. Len(pipe[Forker(p)]) \in Nat
    BY <1>7
  <2>. QED  BY <1>1, <1>3, <2>1
<1>10. /\ written' \in [Procs -> 0 .. N]
       /\ written'[p] = written[p] + 1
       /\ \A q \in Procs : q # p => written'[q] = written[q]
  BY <1>1, <1>4 DEF Typed
<1>. QED  BY <1>1, <1>2, <1>4, <1>7, <1>8, <1>9, <1>10

\* A child writes no more than its part, and only if its sort returned 0.
LEMMA WriteControl ==
  ASSUME Control, NEW p \in Procs, Write(p)
  PROVE  Control'
<1>1. Typed /\ Started /\ Nested /\ Ends /\ Amounts /\ Undisturbed /\ Reported
      /\ AllReaped
  BY DEF Control
<1>2. /\ p # Root /\ pc[p] = "done" /\ ret[p] = 0 /\ written[p] < p[2]
      /\ proc[p] = "alive"
      /\ Forker(p) \in Pipes /\ Right(Forker(p)) = p
      /\ pipe' \in [Pipes -> Seq(Elements)]
      /\ Len(pipe'[Forker(p)]) = Len(pipe[Forker(p)]) + 1
      /\ Len(pipe'[Forker(p)]) <= PipeCap
      /\ \A d \in Pipes : d # Forker(p) => pipe'[d] = pipe[d]
      /\ written' \in [Procs -> 0 .. N]
      /\ written'[p] = written[p] + 1
      /\ \A q \in Procs : q # p => written'[q] = written[q]
      /\ UNCHANGED <<pc, ret, arr, read_total, proc, exited, readers, writers,
                     failed, errors>>
  BY <1>1, WriteEffect
<1>3. Typed'
  <2>1. ASSUME NEW d \in Pipes PROVE Len(pipe'[d]) <= PipeCap
    BY <1>1, <1>2 DEF Typed
  <2>. QED  BY <1>1, <1>2, <2>1 DEF Typed
<1>4. Started' /\ Nested' /\ Ends' /\ Reported' /\ AllReaped'
  <2>1. Started'
    BY <1>1, <1>2 DEF Started, Forked
  <2>2. Nested'
    BY <1>1, <1>2 DEF Nested
  <2>3. Ends'
    BY <1>1, <1>2 DEF Ends
  <2>4. Reported'
    BY <1>1, <1>2 DEF Reported
  <2>5. AllReaped'
    BY <1>1, <1>2 DEF AllReaped
  <2>. QED  BY <2>1, <2>2, <2>3, <2>4, <2>5
<1>5. Amounts'
  <2>1. SUFFICES ASSUME NEW d \in Pipes
                 PROVE  /\ read_total'[d] + Len(pipe'[d]) = written'[Right(d)]
                        /\ written'[Right(d)] <= Bytes(d)
                        /\ written'[Right(d)] > 0
                           => pc'[Right(d)] = "done" /\ ret'[Right(d)] = 0
    BY DEF Amounts
  <2>2. CASE d = Forker(p)
    <3>1. PICK i \in Nat, j \in Nat, k \in Nat :
            i = read_total[d] /\ j = Len(pipe[d]) /\ k = written[p]
      BY <1>1, <1>2, <2>2 DEF Typed
    <3>2. i + j = k
      BY <1>1, <1>2, <2>2, <3>1 DEF Amounts
    <3>3. i + (j + 1) = k + 1
      BY <3>2
    <3>4. Bytes(d) = p[2] /\ p[2] \in Nat
      BY <1>2, <2>2, PipeFacts, CallNumbers
    <3>5. k + 1 <= Bytes(d)
      BY <1>2, <3>1, <3>4
    <3>. QED  BY <1>2, <2>2, <3>1, <3>3, <3>5
  <2>3. CASE d # Forker(p)
    <3>1. Right(d) # p /\ Right(d) \in Procs
      BY <1>2, <2>3, PipeFacts, RightOfOne
    <3>. QED  BY <1>1, <1>2, <2>3, <3>1 DEF Amounts
  <2>. QED  BY <2>2, <2>3
<1>6. Undisturbed'
  <2>1. ASSUME NEW q \in Procs, Dead(q)' PROVE Dead(q) /\ q # p
    BY <1>2, <2>1 DEF Dead
  <2>2. \A d \in Pipes : Right(d) \in Procs /\ (Dead(Right(d))' <=> Dead(Right(d)))
    BY <1>2, PipeFacts DEF Dead
  <2>. QED  BY <1>1, <1>2, <2>1, <2>2 DEF Undisturbed, Forked
<1>. QED
  BY <1>3, <1>4, <1>5, <1>6 DEF Control

\* What the ends of processes have in common.
LEMMA ExitControl ==
  ASSUME Control, NEW p \in Procs, NEW x \in {0, 1, Killed}, Exit(p, x),
         p # Root, proc[p] = "alive", errors' \in 0 .. MaxErrors,
         errors' = 0 => /\ errors = 0 /\ pc[p] = "done" /\ x = ret[p]
                        /\ ret[p] = 0 => written[p] = p[2]
  PROVE  Control'
<1>1. Typed /\ Started /\ Nested /\ Ends /\ Amounts /\ Undisturbed /\ Reported
      /\ AllReaped
  BY DEF Control
<1>2. /\ proc' = [proc EXCEPT ![p] = "zombie"]
      /\ exited' = [exited EXCEPT ![p] = x]
      /\ readers' = [d \in Pipes |-> readers[d] \ {p}]
      /\ writers' = [d \in Pipes |-> writers[d] \ {p}]
      /\ UNCHANGED <<pc, ret, arr, pipe, read_total, written, failed>>
  BY DEF Exit
<1>3. /\ proc' \in [Procs -> {"none", "alive", "zombie", "reaped"}]
      /\ proc'[p] = "zombie" /\ \A q \in Procs : q # p => proc'[q] = proc[q]
      /\ exited' \in [Procs -> {0, 1, Killed}]
      /\ exited'[p] = x /\ \A q \in Procs : q # p => exited'[q] = exited[q]
  BY <1>1, <1>2 DEF Typed
<1>4. ASSUME NEW d \in Pipes
      PROVE  /\ Right(d) \in Procs /\ Owner(d) \in Procs /\ d \in Calls
             /\ (Forked(d) <=> Forked(d)')
             /\ Dead(Right(d)) => Dead(Right(d))'
  BY <1>3, PipeFacts, OwnerIs DEF Forked, Dead
<1>5. Typed'
  BY <1>1, <1>2, <1>3 DEF Typed
<1>6. Started'
  <2>1. proc'[Root] = "alive"
    BY <1>1, <1>3 DEF Started, Procs
  <2>. QED  BY <1>1, <1>2, <1>4, <2>1 DEF Started
<1>7. Nested' /\ Amounts' /\ Reported'
  <2>1. Nested'
    BY <1>1, <1>2 DEF Nested
  <2>2. Amounts'
    BY <1>1, <1>2 DEF Amounts
  <2>3. Reported'
    BY <1>1, <1>2 DEF Reported
  <2>. QED  BY <2>1, <2>2, <2>3
<1>8. Ends'
  BY <1>1, <1>2, <1>3, <1>4 DEF Ends
<1>9. Undisturbed'
  <2>1. SUFFICES ASSUME errors = 0, errors' = 0
          PROVE /\ \A q \in Procs :
                     Dead(q)' => /\ pc'[q] = "done" /\ exited'[q] = ret'[q]
                                 /\ ret'[q] = 0 => written'[q] = q[2]
                /\ \A d \in Pipes :
                     pc'[d] \in {"wait", "done"} /\ Forked(d)'
                     => \/ read_total'[d] = Bytes(d)
                        \/ Dead(Right(d))' /\ ret'[Right(d)] = 1
                /\ \A d \in Calls : ret'[d] = 1 => failed'
    BY DEF Undisturbed
  <2>2. ASSUME NEW q \in Procs, Dead(q)'
        PROVE  /\ pc'[q] = "done" /\ exited'[q] = ret'[q]
               /\ ret'[q] = 0 => written'[q] = q[2]
    <3>1. CASE q = p
      BY <1>2, <1>3, <2>1, <3>1
    <3>2. CASE q # p
      <4>1. Dead(q)
        BY <1>3, <2>2, <3>2 DEF Dead
      <4>. QED  BY <1>1, <1>2, <1>3, <2>1, <3>2, <4>1 DEF Undisturbed
    <3>. QED  BY <3>1, <3>2
  <2>3. ASSUME NEW d \in Pipes, pc'[d] \in {"wait", "done"}, Forked(d)'
        PROVE  \/ read_total'[d] = Bytes(d)
               \/ Dead(Right(d))' /\ ret'[Right(d)] = 1
    BY <1>1, <1>2, <1>4, <2>1, <2>3 DEF Undisturbed
  <2>4. \A d \in Calls : ret'[d] = 1 => failed'
    BY <1>1, <1>2, <2>1 DEF Undisturbed
  <2>. QED  BY <2>2, <2>3, <2>4
<1>10. AllReaped'
  <2>1. ASSUME NEW d \in Pipes, errors' = 0, pc'[d] = "done"
        PROVE  proc'[Right(d)] \in {"none", "reaped"}
    <3>1. proc[Right(d)] \in {"none", "reaped"}
      BY <1>1, <1>2, <2>1 DEF AllReaped
    <3>. QED  BY <1>3, <1>4, <3>1
  <2>. QED  BY <2>1 DEF AllReaped
<1>. QED
  BY <1>5, <1>6, <1>7, <1>8, <1>9, <1>10 DEF Control

\* A call that has begun has a process.
LEMMA HasProcess ==
  ASSUME Control, NEW c \in Calls, pc[c] # "none"
  PROVE  Owner(c) \in Procs /\ pc[Owner(c)] # "none" /\ proc[Owner(c)] # "none"
<1>1. Typed /\ Started /\ Nested
  BY DEF Control
<1>2. /\ Owner(c) \in Procs /\ Owner(c) \in Calls /\ Owner(c)[1] = c[1]
      /\ c[2] <= Owner(c)[2] /\ c[2] \in Nat /\ Owner(c)[2] \in Nat
  BY OwnerIs, ProcCall, CallNumbers
<1>3. pc[Owner(c)] # "none"
  <2>1. CASE c[2] = Owner(c)[2]
    BY <1>2, <2>1, SameCall
  <2>2. CASE c[2] < Owner(c)[2]
    BY <1>1, <1>2, <2>2 DEF Nested
  <2>. QED  BY <1>2, <2>1, <2>2
<1>4. proc[Owner(c)] # "none"
  <2>1. CASE Owner(c) = Root
    BY <1>1, <2>1 DEF Started
  <2>2. CASE \E d \in Pipes : Owner(c) = Right(d)
    BY <1>1, <1>3, <2>2 DEF Started, Forked
  <2>. QED  BY <1>2, <2>1, <2>2 DEF Procs
<1>. QED  BY <1>2, <1>3, <1>4

\* A child that writes always has a reader, until something fails.
LEMMA ReaderThere ==
  ASSUME Control, NEW p \in Procs, Writing(p), readers[Forker(p)] = {}
  PROVE  errors # 0
<1>1. SUFFICES ASSUME errors = 0 PROVE FALSE
  OBVIOUS
<1>2. Typed /\ Started /\ Nested /\ Ends /\ Amounts /\ Undisturbed
  BY DEF Control
<1>3. /\ p # Root /\ pc[p] = "done" /\ proc[p] = "alive" /\ written[p] < p[2]
  BY ProcCall DEF Writing, Child, At
<1>4. PICK c \in Pipes : c = Forker(p) /\ Right(c) = p
  BY <1>3, ForkerIs
<1>5. c \in Calls /\ Forked(c) /\ Bytes(c) = p[2] /\ p[2] \in Nat
  BY <1>3, <1>4, PipeFacts, CallNumbers DEF Forked
<1>6. pc[c] \in {"left", "read", "wait", "done"}
  BY <1>2, <1>4, <1>5 DEF Started, Typed
<1>7. CASE pc[c] \in {"left", "read"}
  <2>1. /\ Owner(c) \in Procs /\ Owner(c) \in Calls /\ Owner(c)[1] = c[1]
        /\ c[2] <= Owner(c)[2] /\ c[2] \in Nat /\ Owner(c)[2] \in Nat
    BY <1>5, OwnerIs, ProcCall, CallNumbers
  <2>2. proc[Owner(c)] # "alive"
    BY <1>2, <1>4, <1>7 DEF Ends
  <2>3. Dead(Owner(c))
    BY <1>2, <1>5, <1>7, <2>1, <2>2, HasProcess DEF Dead, Typed
  <2>4. pc[Owner(c)] = "done"
    BY <1>1, <1>2, <2>1, <2>3 DEF Undisturbed
  <2>5. CASE c[2] = Owner(c)[2]
    BY <1>5, <1>7, <2>1, <2>4, <2>5, SameCall
  <2>6. CASE c[2] < Owner(c)[2]
    BY <1>2, <1>5, <1>7, <2>1, <2>4, <2>6 DEF Nested
  <2>. QED  BY <2>1, <2>5, <2>6
<1>8. CASE pc[c] \in {"wait", "done"}
  <2>1. read_total[c] = Bytes(c)
    <3>1. ~Dead(Right(c))
      BY <1>3, <1>4 DEF Dead
    <3>. QED  BY <1>1, <1>2, <1>5, <1>8, <3>1 DEF Undisturbed
  <2>2. PICK i \in Nat, j \in Nat, k \in Nat :
          i = read_total[c] /\ j = Len(pipe[c]) /\ k = written[p] /\ i + j = k
    BY <1>2, <1>4 DEF Typed, Amounts
  <2>. QED  BY <1>3, <1>5, <2>1, <2>2
<1>. QED  BY <1>6, <1>7, <1>8

\* The ways in which a child ends.
LEMMA ChildEndsControl ==
  ASSUME Control, NEW p \in Procs,
         ChildExit(p) \/ WriteFails(p) \/ WriteKills(p) \/ Kill(p)
  PROVE  Control'
<1>1. Typed
  BY DEF Control
<1>2. errors \in 0 .. MaxErrors /\ MaxErrors \in Nat /\ p \in Calls /\ Owner(p) = p
      /\ ret[p] \in {0, 1} /\ written[p] \in 0 .. N /\ p[2] \in Nat /\ N \in Nat
  BY <1>1, FsortAssumption, ProcCall, CallNumbers DEF Typed
<1>3. Killed \in {0, 1, Killed} /\ ret[p] \in {0, 1, Killed}
  BY <1>2
<1>4. CASE ChildExit(p)
  <2>1. /\ p # Root /\ pc[p] = "done" /\ proc[p] = "alive"
        /\ ~(ret[p] = 0 /\ written[p] < p[2])
        /\ Exit(p, ret[p]) /\ errors' = errors
    BY <1>2, <1>4 DEF ChildExit, Child, Writing, At
  <2>2. ret[p] = 0 => written[p] = p[2]
    <3>1. PICK c \in Pipes : Right(c) = p
      BY <2>1, ForkerIs
    <3>2. written[p] <= p[2]
      BY <3>1, PipeFacts DEF Control, Amounts
    <3>. QED  BY <1>2, <2>1, <3>2
  <2>3. errors' \in 0 .. MaxErrors
    BY <1>2, <2>1
  <2>. QED  BY <1>3, <2>1, <2>2, <2>3, ExitControl
<1>5. CASE WriteFails(p)
  <2>1. /\ p # Root /\ proc[p] = "alive" /\ Exit(p, ret[p])
        /\ errors < MaxErrors /\ errors' = errors + 1
    BY <1>2, <1>5 DEF WriteFails, Child, Writing, At
  <2>2. errors' \in 0 .. MaxErrors /\ errors' # 0
    BY <1>2, <2>1
  <2>. QED  BY <1>3, <2>1, <2>2, ExitControl
<1>6. CASE WriteKills(p)
  <2>1. /\ p # Root /\ proc[p] = "alive" /\ Exit(p, Killed) /\ errors' = errors
        /\ Writing(p) /\ readers[Forker(p)] = {}
    BY <1>2, <1>6 DEF WriteKills, Child, Writing, At
  <2>2. errors # 0
    BY <2>1, ReaderThere
  <2>3. errors' \in 0 .. MaxErrors /\ errors' # 0
    BY <1>2, <2>1, <2>2
  <2>. QED  BY <1>3, <2>1, <2>3, ExitControl
<1>7. CASE Kill(p)
  <2>1. /\ p # Root /\ proc[p] = "alive" /\ Exit(p, Killed)
        /\ errors < MaxErrors /\ errors' = errors + 1
    BY <1>7 DEF Kill
  <2>2. errors' \in 0 .. MaxErrors /\ errors' # 0
    BY <1>2, <2>1
  <2>. QED  BY <1>3, <2>1, <2>2, ExitControl
<1>. QED  BY <1>4, <1>5, <1>6, <1>7

\* A step that changes nothing.
LEMMA StutterControl == ASSUME Control, UNCHANGED vars PROVE Control'
<1>1. UNCHANGED <<pc, ret, arr, pipe, read_total, written, proc, exited, readers,
                  writers, failed, errors>>
  BY DEF vars
<1>2. Typed /\ Started /\ Nested /\ Ends /\ Amounts /\ Undisturbed /\ Reported
      /\ AllReaped
  BY DEF Control
<1>3. Typed' /\ Started' /\ Nested' /\ Ends'
  BY <1>1, <1>2 DEF Typed, Started, Nested, Ends, Forked
<1>4. Amounts' /\ Undisturbed' /\ Reported' /\ AllReaped'
  BY <1>1, <1>2 DEF Amounts, Undisturbed, Reported, AllReaped, Forked, Dead
<1>. QED  BY <1>3, <1>4 DEF Control

\* The steps of a process.
LEMMA StepCases ==
  ASSUME Next
  PROVE  \/ \E c \in Calls :
              \/ SortAlone(c) \/ Fork(c) \/ ForkFails(c) \/ LeftDone(c)
              \/ Read(c) \/ ReadEnd(c) \/ Wait(c) \/ WaitFails(c)
         \/ \E p \in Procs :
              \/ Write(p) \/ ChildExit(p) \/ WriteFails(p) \/ WriteKills(p)
              \/ Kill(p)
         \/ UNCHANGED vars
BY DEF Next, Step, Finished

\* Every step preserves the control invariant.
LEMMA NextControl == ASSUME Control, [Next]_vars PROVE Control'
<1>1. CASE UNCHANGED vars
  BY <1>1, StutterControl
<1>2. ASSUME NEW c \in Calls,
             \/ SortAlone(c) \/ Fork(c) \/ ForkFails(c) \/ LeftDone(c)
             \/ Read(c) \/ ReadEnd(c) \/ Wait(c) \/ WaitFails(c)
      PROVE  Control'
  BY <1>2, SortAloneControl, ForkControl, ForkFailsControl, LeftDoneControl,
     ReadControl, ReadEndControl, WaitControl, WaitFailsControl
<1>3. ASSUME NEW p \in Procs,
             \/ Write(p) \/ ChildExit(p) \/ WriteFails(p) \/ WriteKills(p)
             \/ Kill(p)
      PROVE  Control'
  BY <1>3, WriteControl, ChildEndsControl
<1>. QED  BY <1>1, <1>2, <1>3, StepCases

\* The control invariant holds in every reachable state.
LEMMA ControlInvariant == Spec => []Control
BY InitControl, NextControl, PTL DEF Spec

-----------------------------------------------------------------------------
(* Type correctness, and what fsort says of its children.                   *)

\* The control invariant implies the type invariant.
LEMMA ControlTypeOK == Control => TypeOK
<1>. SUFFICES ASSUME Control PROVE TypeOK
  OBVIOUS
<1>1. Typed /\ Amounts
  BY DEF Control
<1>2. ASSUME NEW p \in Procs PROVE arr[p] \in Seq(Elements) /\ Len(arr[p]) = N
  <2>1. arr[p] \in [1 .. N -> Elements] /\ N \in Nat
    BY <1>1, FsortAssumption DEF Typed
  <2>. QED  BY <2>1
<1>3. ASSUME NEW c \in Pipes PROVE read_total[c] \in 0 .. Bytes(c)
  <2>1. PICK i \in Nat, j \in Nat, k \in Nat :
          i = read_total[c] /\ j = Len(pipe[c]) /\ k = written[Right(c)] /\ i + j = k
    BY <1>1, PipeFacts DEF Typed, Amounts
  <2>2. k <= Bytes(c) /\ Bytes(c) \in Nat
    BY <1>1, <2>1, PipeFacts, CallNumbers DEF Amounts
  <2>. QED  BY <2>1, <2>2
<1>4. ASSUME NEW c \in Pipes
      PROVE  pipe[c] \in Seq(Elements) /\ Len(pipe[c]) <= PipeCap
  BY <1>1 DEF Typed
<1>. QED  BY <1>1, <1>2, <1>3, <1>4 DEF Typed, TypeOK

\* Every variable of fsort has its type: no process reads or writes beyond the
\* half that is sent, or fills a pipe beyond its capacity.
THEOREM TypeCorrect == Spec => []TypeOK
BY ControlInvariant, ControlTypeOK, PTL

\* Unless something fails or is killed, a call that has returned has waited for
\* its child.
THEOREM ChildrenReaped == Spec => []AllReaped
<1>1. Control => AllReaped
  BY DEF Control
<1>. QED  BY <1>1, ControlInvariant, PTL

\* A call that returns 0 has its left half and its child return 0.
LEMMA ZeroDownwards ==
  ASSUME Control, NEW c \in Pipes, pc[c] = "done", ret[c] = 0
  PROVE  /\ pc[Left(c)] = "done" /\ ret[Left(c)] = 0
         /\ pc[Right(c)] = "done" /\ ret[Right(c)] = 0
         /\ read_total[c] = Bytes(c) /\ Forked(c)
<1>1. Typed /\ Started /\ Amounts /\ Reported
  BY DEF Control
<1>2. /\ pc[Left(c)] = "done" /\ ret[Left(c)] = 0 /\ read_total[c] = Bytes(c)
      /\ Forked(c) /\ Right(c) \in Procs /\ c \in Calls
  BY <1>1, PipeFacts DEF Reported, Started
<1>3. Bytes(c) \in Nat /\ Bytes(c) > 0
  BY PipeFacts, CallNumbers
<1>4. PICK i \in Nat, j \in Nat, k \in Nat :
        i = read_total[c] /\ j = Len(pipe[c]) /\ k = written[Right(c)] /\ i + j = k
  BY <1>1, <1>2 DEF Typed, Amounts
<1>5. written[Right(c)] > 0
  BY <1>2, <1>3, <1>4
<1>. QED  BY <1>1, <1>2, <1>5 DEF Amounts

\* The result of the root tells whether anything has failed below it.
LEMMA ControlOneMeansFailed == Control => OneMeansFailed
<1>. SUFFICES ASSUME Control, Returned PROVE /\ failed => ret[Root] = 1
                                             /\ ret[Root] = 1 /\ errors = 0 => failed
  BY DEF OneMeansFailed
<1>1. Typed /\ Undisturbed /\ Reported
  BY DEF Control
<1>2. pc[Root] = "done" /\ Root \in Calls
  BY RootCall DEF Returned
<1>3. ASSUME failed, ret[Root] # 1 PROVE FALSE
  <2>. DEFINE G == {c \in Calls : pc[c] = "done" /\ ret[c] = 0}
  <2>1. Root \in G
    BY <1>1, <1>2, <1>3 DEF Typed
  <2>2. ASSUME NEW c \in Pipes, c \in G PROVE Left(c) \in G /\ Right(c) \in G
    BY <2>2, ZeroDownwards, PipeFacts
  <2>. HIDE DEF G
  <2>3. Calls \subseteq G
    BY <2>1, <2>2, Downwards
  <2>4. PICK c \in Calls : ret[c] = 1
    BY <1>1, <1>3 DEF Reported
  <2>5. c \in G
    BY <2>3
  <2>. QED  BY <2>4, <2>5 DEF G
<1>4. ret[Root] = 1 /\ errors = 0 => failed
  BY <1>1, <1>2 DEF Undisturbed
<1>. QED  BY <1>3, <1>4

\* fsort returns 1 when a pipe() or fork() has failed anywhere in the tree, and
\* nothing else makes it return 1 unless something else fails.
THEOREM FailureReported == Spec => []OneMeansFailed
BY ControlInvariant, ControlOneMeansFailed, PTL

-----------------------------------------------------------------------------
(* The inductive invariant, data.                                           *)

\* No longer call for the same place has returned, so what c made of its part
\* is still there.
Current(c) == \A d \in Calls : d[1] = c[1] /\ c[2] < d[2] => pc[d] # "done"

\* The parts that nothing has been done with.
Unsorted ==
  /\ \A c \in Calls : pc[c] = "call" => Unmoved(arr[Owner(c)], c)
  /\ \A c \in Pipes :
       pc[c] \in {"left", "read", "wait"} /\ read_total[c] = 0
       => Unmoved(arr[Owner(c)], Right(c))

\* What is in a pipe, and what was read, is what the child made of its part.
Sent ==
  \A c \in Pipes :
    /\ \A k \in 1 .. Len(pipe[c]) :
         pipe[c][k] = arr[Right(c)][Right(c)[1] + read_total[c] + k - 1]
    /\ pc[c] \in {"left", "read", "wait"} =>
         \A k \in 1 .. read_total[c] :
           arr[Owner(c)][Right(c)[1] + k - 1] = arr[Right(c)][Right(c)[1] + k - 1]

\* What a call that has returned made of its part.
Halves ==
  \A c \in Calls :
    pc[c] = "done" /\ Current(c) =>
      /\ ret[c] = 0 \/ errors = 0 => Permuted(arr[Owner(c)], c)
      /\ ret[c] = 0 /\ ~MallocMayFail => Ordered(arr[Owner(c)], c)

Data == Unsorted /\ Sent /\ Halves

\* What is said of a part depends on the elements in it alone.
LEMMA SamePartSame ==
  ASSUME NEW a, NEW b, NEW c, \A j \in Region(c) : b[j] = a[j]
  PROVE  /\ Unmoved(a, c) => Unmoved(b, c)
         /\ Permuted(a, c) => Permuted(b, c)
         /\ Ordered(a, c) => Ordered(b, c)
<1>1. Unmoved(a, c) => Unmoved(b, c)
  BY DEF Unmoved
<1>2. Ordered(a, c) => Ordered(b, c)
  BY DEF Ordered
<1>3. {b[j][2] : j \in Region(c)} = {a[j][2] : j \in Region(c)}
  OBVIOUS
<1>. QED  BY <1>1, <1>2, <1>3 DEF Permuted

\* The places of a call.
LEMMA CallRegion ==
  ASSUME NEW c \in Calls
  PROVE  Region(c) \subseteq 1 .. N /\ Region(c) = c[1] .. c[1] + c[2] - 1
<1>1. /\ c[1] \in Nat /\ c[2] \in Nat /\ 1 <= c[1] /\ c[1] + c[2] <= N + 1
      /\ N \in Nat
  BY CallNumbers
<1>2. Region(c) = c[1] .. c[1] + c[2] - 1
  BY DEF Region
<1>. QED  BY <1>1, <1>2

\* A call in the left half of c has no place of its right half.
LEMMA LeftApart ==
  ASSUME NEW c \in Pipes, NEW d \in Calls, d[1] = c[1], d[2] <= Mid(c)
  PROVE  /\ \A j \in Region(d) : j \notin Region(Right(c))
         /\ Region(Right(c)) \subseteq Region(c)
<1>1. /\ c \in Calls /\ c[1] \in Nat /\ c[2] \in Nat /\ d[2] \in Nat
      /\ Mid(c) \in Nat /\ Mid(c) < c[2]
      /\ Right(c)[1] = c[1] + Mid(c) /\ Right(c)[2] = c[2] - Mid(c)
  BY PipeFacts, CallNumbers
<1>2. /\ Region(Right(c)) = c[1] + Mid(c) .. (c[1] + Mid(c)) + (c[2] - Mid(c)) - 1
      /\ Region(d) = c[1] .. c[1] + d[2] - 1
      /\ Region(c) = c[1] .. c[1] + c[2] - 1
  BY <1>1, PipeFacts, CallRegion
<1>3. \A b, m, n, i \in Nat : m < n /\ i <= m =>
        /\ \A j \in b .. b + i - 1 : j \notin b + m .. (b + m) + (n - m) - 1
        /\ b + m .. (b + m) + (n - m) - 1 \subseteq b .. b + n - 1
  OBVIOUS
<1>. QED  BY <1>1, <1>2, <1>3

\* The other calls of a process, while one of them is at work.
LEMMA OthersWait ==
  ASSUME Control, NEW e \in Calls, pc[e] \in {"call", "read", "wait"},
         NEW d \in Calls, d # e, Owner(d) = Owner(e)
  PROVE  /\ d[1] = e[1]
         /\ \/ d[2] < e[2] /\ e \in Pipes /\ d[2] <= Mid(e) /\ pc[d] \in {"none", "done"}
            \/ e[2] < d[2] /\ d \in Pipes /\ e[2] <= Mid(d) /\ pc[d] = "left"
<1>1. d[1] = e[1] /\ d[2] \in Nat /\ e[2] \in Nat /\ d[2] # e[2]
  BY SameOwner, CallNumbers, SameCall
<1>2. Nested
  BY DEF Control
<1>3. CASE d[2] < e[2]
  BY <1>1, <1>2, <1>3, Shorter DEF Nested
<1>4. CASE e[2] < d[2]
  BY <1>1, <1>2, <1>4, Shorter DEF Nested
<1>. QED  BY <1>1, <1>3, <1>4

\* A child that has written something is not at work any more.
LEMMA ChildStill ==
  ASSUME Control, NEW e \in Calls, pc[e] \in {"call", "read", "wait"},
         NEW c \in Pipes, written[Right(c)] > 0
  PROVE  Owner(e) # Right(c)
<1>1. pc[Right(c)] = "done" /\ Right(c) \in Calls /\ Right(c) \in Procs
  BY PipeFacts DEF Control, Amounts
<1>2. SUFFICES ASSUME Owner(e) = Right(c) PROVE FALSE
  OBVIOUS
<1>3. Owner(Right(c)) = Owner(e) /\ Right(c) # e
  BY <1>1, <1>2, ProcCall
<1>4. /\ e[2] <= Right(c)[2] /\ e[2] \in Nat /\ Right(c)[2] \in Nat
  BY <1>1, <1>2, OwnerIs, CallNumbers
<1>. QED  BY <1>1, <1>3, <1>4, OthersWait

\* What is in a pipe and what was read was written.
LEMMA WrittenIs ==
  ASSUME Control, NEW c \in Pipes
  PROVE  /\ read_total[c] \in Nat /\ Len(pipe[c]) \in Nat
         /\ written[Right(c)] = read_total[c] + Len(pipe[c])
         /\ written[Right(c)] <= Bytes(c) /\ Bytes(c) \in Nat /\ Bytes(c) > 0
         /\ Right(c)[1] \in Nat /\ Right(c)[2] = Bytes(c)
         /\ Region(Right(c)) = Right(c)[1] .. Right(c)[1] + Bytes(c) - 1
         /\ \A k \in 1 .. written[Right(c)] :
              Right(c)[1] + k - 1 \in Region(Right(c))
<1>1. /\ Bytes(c) \in Nat /\ Bytes(c) > 0
      /\ Right(c)[1] \in Nat /\ Right(c)[2] = Bytes(c)
      /\ Region(Right(c)) = Right(c)[1] .. Right(c)[1] + Bytes(c) - 1
  BY PipeFacts, CallNumbers, CallRegion
<1>2. /\ read_total[c] \in Nat /\ Len(pipe[c]) \in Nat
      /\ written[Right(c)] = read_total[c] + Len(pipe[c])
      /\ written[Right(c)] <= Bytes(c)
  BY DEF Control, Typed, Amounts
<1>3. PICK w \in Nat, n \in Nat, b \in Nat :
        w = written[Right(c)] /\ n = Bytes(c) /\ b = Right(c)[1] /\ w <= n
  <2>1. written[Right(c)] \in Nat
    BY <1>2
  <2>. QED  BY <1>1, <1>2, <2>1
<1>4. \A k \in 1 .. w : b + k - 1 \in b .. b + n - 1
  BY <1>3
<1>. QED  BY <1>1, <1>2, <1>3, <1>4

\* At the start every element is in its place, and every pipe empty.
LEMMA InitData == Init => Data
<1>. SUFFICES ASSUME Init PROVE Data
  OBVIOUS
<1>1. ASSUME NEW c \in Calls PROVE Unmoved(arr[Owner(c)], c)
  <2>1. Owner(c) \in Procs /\ Region(c) \subseteq 1 .. N
    BY OwnerIs, CallRegion
  <2>2. \A j \in 1 .. N : arr[Owner(c)][j][2] = j
    BY <2>1 DEF Init
  <2>. QED  BY <2>1, <2>2 DEF Unmoved
<1>2. \A c \in Calls : pc[c] \in {"none", "call"}
  BY DEF Init
<1>3. Unsorted
  BY <1>1, <1>2, PipeFacts DEF Unsorted
<1>4. Sent
  <2>1. Len(<<>>) = 0 /\ \A k \in 1 .. 0 : FALSE
    OBVIOUS
  <2>. QED  BY <1>2, <2>1, PipeFacts DEF Sent, Init
<1>5. Halves
  BY <1>2 DEF Halves
<1>. QED  BY <1>3, <1>4, <1>5 DEF Data

\* What the steps have in common in which a call returns, and what the call has
\* made of its part.
LEMMA ReturnData ==
  ASSUME Control, Data, NEW e \in Calls, NEW r \in {0, 1}, Return(e, r),
         pc[e] \in {"call", "wait"},
         UNCHANGED <<pipe, read_total, written>>,
         \A p \in Procs : p # Owner(e) => arr'[p] = arr[p],
         \A j \in 1 .. N : j \notin Region(e) => arr'[Owner(e)][j] = arr[Owner(e)][j],
         errors' = 0 => errors = 0,
         r = 0 \/ errors' = 0 => Permuted(arr'[Owner(e)], e),
         r = 0 /\ ~MallocMayFail => Ordered(arr'[Owner(e)], e)
  PROVE  Data'
<1>1. Unsorted /\ Sent /\ Halves /\ Typed
  BY DEF Data, Control
<1>2. /\ pc'[e] = "done" /\ ret'[e] = r
      /\ \A d \in Calls : d # e => pc'[d] = pc[d] /\ ret'[d] = ret[d]
  BY <1>1 DEF Return, Typed
<1>3. ASSUME NEW d \in Calls
      PROVE  Owner(d) \in Procs /\ (Owner(d) # Owner(e) => arr'[Owner(d)] = arr[Owner(d)])
  BY OwnerIs
<1>4. ASSUME NEW d \in Pipes, pc[d] \in {"left", "read", "wait"}, d # e
      PROVE  \A j \in Region(Right(d)) : arr'[Owner(d)][j] = arr[Owner(d)][j]
  <2>1. d \in Calls
    BY PipeFacts
  <2>2. CASE Owner(d) # Owner(e)
    BY <1>3, <2>1, <2>2
  <2>3. CASE Owner(d) = Owner(e)
    <3>1. e[1] = d[1] /\ e[2] <= Mid(d)
      BY <1>4, <2>1, <2>3, OthersWait
    <3>2. \A j \in Region(Right(d)) : j \notin Region(e)
      BY <3>1, LeftApart
    <3>3. Region(Right(d)) \subseteq 1 .. N
      BY PipeFacts, CallRegion
    <3>. QED  BY <2>3, <3>2, <3>3
  <2>. QED  BY <2>2, <2>3
<1>5. ASSUME NEW d \in Pipes, written[Right(d)] > 0
      PROVE  arr'[Right(d)] = arr[Right(d)]
  <2>1. Owner(e) # Right(d) /\ Right(d) \in Procs
    BY <1>5, ChildStill, PipeFacts
  <2>. QED  BY <2>1
<1>6. Unsorted'
  <2>1. ASSUME NEW d \in Calls, pc'[d] = "call" PROVE Unmoved(arr'[Owner(d)], d)
    <3>1. d # e /\ pc[d] = "call"
      BY <1>2, <2>1
    <3>2. Owner(d) # Owner(e)
      BY <3>1, OthersWait
    <3>. QED  BY <1>1, <1>3, <3>1, <3>2 DEF Unsorted
  <2>2. ASSUME NEW d \in Pipes, pc'[d] \in {"left", "read", "wait"}, read_total'[d] = 0
        PROVE  Unmoved(arr'[Owner(d)], Right(d))
    <3>1. d # e /\ pc[d] \in {"left", "read", "wait"}
      BY <1>2, <2>2, PipeFacts
    <3>2. Unmoved(arr[Owner(d)], Right(d))
      BY <1>1, <2>2, <3>1 DEF Unsorted
    <3>. QED  BY <1>4, <3>1, <3>2, SamePartSame
  <2>. QED  BY <2>1, <2>2 DEF Unsorted
<1>7. Sent'
  <2>1. ASSUME NEW d \in Pipes, NEW k \in 1 .. Len(pipe'[d])
        PROVE  pipe'[d][k] = arr'[Right(d)][Right(d)[1] + read_total'[d] + k - 1]
    <3>1. written[Right(d)] > 0 /\ k \in 1 .. Len(pipe[d])
      BY <2>1, WrittenIs
    <3>2. arr'[Right(d)] = arr[Right(d)]
      BY <1>5, <3>1
    <3>. QED  BY <1>1, <3>1, <3>2 DEF Sent
  <2>2. ASSUME NEW d \in Pipes, pc'[d] \in {"left", "read", "wait"},
               NEW k \in 1 .. read_total'[d]
        PROVE  arr'[Owner(d)][Right(d)[1] + k - 1] = arr'[Right(d)][Right(d)[1] + k - 1]
    <3>1. d # e /\ pc[d] \in {"left", "read", "wait"}
      BY <1>2, <2>2, PipeFacts
    <3>2. /\ written[Right(d)] > 0 /\ k \in 1 .. read_total[d]
          /\ k \in 1 .. written[Right(d)]
      BY <2>2, WrittenIs
    <3>3. Right(d)[1] + k - 1 \in Region(Right(d))
      BY <3>2, WrittenIs
    <3>4. arr'[Owner(d)][Right(d)[1] + k - 1] = arr[Owner(d)][Right(d)[1] + k - 1]
      BY <1>4, <3>1, <3>3
    <3>5. arr'[Right(d)] = arr[Right(d)]
      BY <1>5, <3>2
    <3>. QED  BY <1>1, <3>1, <3>2, <3>4, <3>5 DEF Sent
  <2>. QED  BY <2>1, <2>2 DEF Sent
<1>8. Halves'
  <2>1. SUFFICES ASSUME NEW d \in Calls, pc'[d] = "done", Current(d)'
                 PROVE  /\ ret'[d] = 0 \/ errors' = 0 => Permuted(arr'[Owner(d)], d)
                        /\ ret'[d] = 0 /\ ~MallocMayFail => Ordered(arr'[Owner(d)], d)
    BY DEF Halves
  <2>2. CASE d = e
    BY <1>2, <2>2
  <2>3. CASE d # e
    <3>1. pc[d] = "done" /\ ret'[d] = ret[d]
      BY <1>2, <2>1, <2>3
    <3>2. Current(d)
      <4>1. ASSUME NEW f \in Calls, f[1] = d[1], d[2] < f[2] PROVE pc[f] # "done"
        <5>1. pc'[f] # "done"
          BY <2>1, <4>1 DEF Current
        <5>. QED  BY <1>2, <5>1
      <4>. QED  BY <4>1 DEF Current
    <3>3. arr'[Owner(d)] = arr[Owner(d)]
      <4>1. SUFFICES ASSUME Owner(d) = Owner(e) PROVE FALSE
        BY <1>3
      <4>2. d[1] = e[1] /\ d[2] < e[2]
        BY <2>3, <3>1, <4>1, OthersWait
      <4>3. pc'[e] # "done"
        BY <2>1, <4>2 DEF Current
      <4>. QED  BY <1>2, <4>3
    <3>. QED  BY <1>1, <3>1, <3>2, <3>3 DEF Halves
  <2>. QED  BY <2>2, <2>3
<1>. QED  BY <1>6, <1>7, <1>8 DEF Data

\* When pipe() or fork() fails, the part stays as it was.
LEMMA ForkFailsData ==
  ASSUME Control, Data, NEW c \in Calls, ForkFails(c)
  PROVE  Data'
<1>1. /\ pc[c] = "call" /\ Return(c, 1)
      /\ UNCHANGED <<arr, pipe, read_total, written, errors>>
  BY DEF ForkFails, At
<1>2. Permuted(arr[Owner(c)], c)
  BY <1>1, UnmovedPermuted DEF Data, Unsorted
<1>3. 1 \in {0, 1} /\ ~(1 = 0)
  OBVIOUS
<1>. QED  BY <1>1, <1>2, <1>3, ReturnData

\* A call that does not fork permutes its part, and sorts it.
LEMMA SortAloneData ==
  ASSUME Control, Data, NEW c \in Calls, SortAlone(c)
  PROVE  Data'
<1>1. /\ pc[c] = "call" /\ Return(c, 0)
      /\ UNCHANGED <<pipe, read_total, written, errors>>
  BY DEF SortAlone, At
<1>2. Typed /\ Unmoved(arr[Owner(c)], c) /\ Permuted(arr[Owner(c)], c)
  BY <1>1, UnmovedPermuted DEF Control, Data, Unsorted
<1>3. c \in Parts /\ Owner(c) \in Procs /\ arr[Owner(c)] \in [1 .. N -> Elements]
  BY <1>2, CallNumbers, OwnerIs DEF Typed
<1>4. PICK s \in Sorted(arr[Owner(c)], c) :
        arr' = [arr EXCEPT ![Owner(c)] = WithPart(arr[Owner(c)], c, s)]
  BY DEF SortAlone
<1>5. /\ s \in Seq(Elements) /\ Len(s) = c[2] /\ Elems(s) = Image(arr[Owner(c)], c)
      /\ ~MallocMayFail => Ascending(s)
  BY <1>2, <1>3, <1>4, SortedIs
<1>6. PICK b : b = WithPart(arr[Owner(c)], c, s)
  OBVIOUS
<1>7. /\ \A j \in 1 .. N : j \notin Region(c) => b[j] = arr[Owner(c)][j]
      /\ Permuted(b, c)
      /\ ~MallocMayFail => Ordered(b, c)
  BY <1>2, <1>3, <1>5, <1>6, WithPartIs
<1>8. /\ \A p \in Procs : p # Owner(c) => arr'[p] = arr[p]
      /\ arr'[Owner(c)] = b
  BY <1>2, <1>3, <1>4, <1>6 DEF Typed
<1>9. 0 \in {0, 1}
  OBVIOUS
<1>. QED  BY <1>1, <1>7, <1>8, <1>9, ReturnData

\* The left half of a call that waits: its elements are permuted, and in order,
\* if it returned 0.
LEMMA LeftHalf ==
  ASSUME Control, Data, NEW c \in Pipes, pc[c] \in {"read", "wait"}
  PROVE  /\ ret[Left(c)] = 0 \/ errors = 0 => Permuted(arr[Owner(c)], Left(c))
         /\ ret[Left(c)] = 0 /\ ~MallocMayFail => Ordered(arr[Owner(c)], Left(c))
<1>1. /\ c \in Calls /\ Left(c) \in Calls /\ Left(c)[1] = c[1] /\ Left(c)[2] = Mid(c)
      /\ Owner(Left(c)) = Owner(c) /\ pc[Left(c)] = "done"
      /\ c[2] \in Nat
  BY PipeFacts, OwnersOfHalves, CallNumbers DEF Control, Started
<1>2. Current(Left(c))
  <2>1. SUFFICES ASSUME NEW d \in Calls, d[1] = c[1], Mid(c) < d[2]
                 PROVE  pc[d] # "done"
    BY <1>1 DEF Current
  <2>2. d = c \/ c[2] < d[2]
    BY <2>1, LongerThanLeft
  <2>3. CASE c[2] < d[2]
    BY <1>1, <2>1, <2>3 DEF Control, Nested
  <2>. QED  BY <2>2, <2>3
<1>. QED  BY <1>1, <1>2 DEF Data, Halves

\* The right half, when something or all of it has been read.
LEMMA RightHalf ==
  ASSUME Control, Data, NEW c \in Pipes, pc[c] \in {"read", "wait"},
         read_total[c] = Bytes(c)
  PROVE  /\ Permuted(arr[Owner(c)], Right(c))
         /\ ~MallocMayFail => Ordered(arr[Owner(c)], Right(c))
<1>1. /\ Right(c) \in Calls /\ Right(c) \in Procs /\ Owner(Right(c)) = Right(c)
  BY PipeFacts, OwnersOfHalves
<1>2. /\ written[Right(c)] > 0 /\ pc[Right(c)] = "done" /\ ret[Right(c)] = 0
  <2>1. written[Right(c)] > 0
    BY WrittenIs
  <2>. QED  BY <2>1 DEF Control, Amounts
<1>3. Current(Right(c))
  <2>1. SUFFICES ASSUME NEW d \in Calls, d[1] = Right(c)[1], Right(c)[2] < d[2]
                 PROVE  FALSE
    BY DEF Current
  <2>. QED  BY <1>1, <2>1, RightLongest, CallNumbers
<1>4. /\ Permuted(arr[Right(c)], Right(c))
      /\ ~MallocMayFail => Ordered(arr[Right(c)], Right(c))
  BY <1>1, <1>2, <1>3 DEF Data, Halves
<1>5. ASSUME NEW j \in Region(Right(c))
      PROVE  arr[Owner(c)][j] = arr[Right(c)][j]
  <2>1. PICK b \in Nat, n \in Nat :
          b = Right(c)[1] /\ n = Bytes(c) /\ Region(Right(c)) = b .. b + n - 1
    BY WrittenIs
  <2>2. PICK k \in 1 .. n : b + k - 1 = j
    <3>1. j - b + 1 \in 1 .. n /\ b + (j - b + 1) - 1 = j
      BY <1>5, <2>1
    <3>. QED  BY <3>1
  <2>3. \A i \in 1 .. read_total[c] :
          arr[Owner(c)][Right(c)[1] + i - 1] = arr[Right(c)][Right(c)[1] + i - 1]
    BY DEF Data, Sent
  <2>. QED  BY <2>1, <2>2, <2>3
<1>. QED  BY <1>4, <1>5, SamePartSame

\* Both halves of a call that returns 1, as long as nothing else fails.
LEMMA HalvesKept ==
  ASSUME Control, Data, NEW c \in Pipes, pc[c] = "wait", errors = 0
  PROVE  Permuted(arr[Owner(c)], c)
<1>1. Permuted(arr[Owner(c)], Left(c))
  BY LeftHalf
<1>2. Permuted(arr[Owner(c)], Right(c))
  <2>1. CASE read_total[c] = Bytes(c)
    BY <2>1, RightHalf
  <2>2. CASE read_total[c] # Bytes(c)
    <3>1. Forked(c) /\ ret[Right(c)] = 1
      BY <2>2 DEF Control, Started, Undisturbed
    <3>2. ~(written[Right(c)] > 0)
      BY <3>1 DEF Control, Amounts
    <3>3. read_total[c] = 0
      BY <3>2, WrittenIs
    <3>. QED  BY <3>3, UnmovedPermuted DEF Data, Unsorted
  <2>. QED  BY <2>1, <2>2
<1>3. /\ c \in Parts /\ Left(c) \in Parts /\ Right(c) \in Parts /\ c[2] > 1
      /\ Owner(c) \in Procs /\ arr[Owner(c)] \in [1 .. N -> Elements]
  BY PipeFacts, CallNumbers, OwnerIs DEF Control, Typed, Pipes, Forks
<1>4. /\ Elems(Part(arr[Owner(c)], Left(c))) = Image(arr[Owner(c)], Left(c))
      /\ Elems(Part(arr[Owner(c)], Right(c))) = Image(arr[Owner(c)], Right(c))
  BY <1>3, PartIs DEF Image
<1>. QED  BY <1>1, <1>2, <1>3, <1>4, HalvesEarlier

\* The merge of two halves that both succeeded.
LEMMA HalvesMerged ==
  ASSUME Control, Data, NEW c \in Pipes, pc[c] = "wait",
         ret[Left(c)] = 0, read_total[c] = Bytes(c),
         NEW s \in MergeResults(Part(arr[Owner(c)], Left(c)),
                                Part(arr[Owner(c)], Right(c)))
  PROVE  Permuted(arr[Owner(c)], c) /\ (~MallocMayFail => Ascending(s))
<1>1. PICK a : a = arr[Owner(c)]
  OBVIOUS
<1>2. /\ c \in Parts /\ Left(c) \in Parts /\ Right(c) \in Parts /\ c[2] > 1
      /\ a \in [1 .. N -> Elements]
  BY <1>1, PipeFacts, CallNumbers, OwnerIs DEF Control, Typed, Pipes, Forks
<1>3. Permuted(a, Left(c)) /\ (~MallocMayFail => Ordered(a, Left(c)))
  BY <1>1, LeftHalf
<1>4. Permuted(a, Right(c)) /\ (~MallocMayFail => Ordered(a, Right(c)))
  BY <1>1, RightHalf
<1>5. PICK l, r : l = Part(a, Left(c)) /\ r = Part(a, Right(c))
  OBVIOUS
<1>6. /\ l \in Seq(Elements) /\ Elems(l) = Image(a, Left(c))
      /\ r \in Seq(Elements) /\ Elems(r) = Image(a, Right(c))
  BY <1>2, <1>5, PartIs DEF Image
<1>7. Earlier(l, r) /\ Permuted(a, c)
  BY <1>2, <1>3, <1>4, <1>6, HalvesEarlier
<1>8. ASSUME ~MallocMayFail PROVE Ascending(s)
  <2>1. Ascending(l) /\ Ascending(r)
    BY <1>2, <1>3, <1>4, <1>5, <1>8, OrderedPart
  <2>2. s \in MergeResults(l, r)
    BY <1>1, <1>5
  <2>. QED  BY <1>6, <1>7, <1>8, <2>1, <2>2, MergeResultsAre
<1>. QED  BY <1>1, <1>7, <1>8

\* The end of a call that has waited for its child.
LEMMA ConcludeData ==
  ASSUME Control, Data, NEW c \in Pipes, pc[c] = "wait",
         NEW b \in BOOLEAN, Conclude(c, b), errors' = 0 => errors = 0,
         UNCHANGED <<pipe, read_total, written>>
  PROVE  Data'
<1>1. Typed /\ c \in Calls /\ Owner(c) \in Procs
  BY PipeFacts, OwnerIs DEF Control
<1>2. CASE /\ ret[Left(c)] # 0 \/ b \/ read_total[c] # Bytes(c)
           /\ Return(c, 1) /\ UNCHANGED arr
  <2>1. 1 \in {0, 1} /\ ~(1 = 0)
    OBVIOUS
  <2>2. errors' = 0 => Permuted(arr[Owner(c)], c)
    BY HalvesKept
  <2>. QED  BY <1>1, <1>2, <2>1, <2>2, ReturnData
<1>3. CASE /\ ret[Left(c)] = 0 /\ ~b /\ read_total[c] = Bytes(c)
           /\ Return(c, 0)
           /\ \E s \in MergeResults(Part(arr[Owner(c)], Left(c)),
                                    Part(arr[Owner(c)], Right(c))) :
                /\ arr' = [arr EXCEPT ![Owner(c)] = WithPart(arr[Owner(c)], c, s)]
                /\ s \in Seq(Elements) /\ Len(s) = c[2]
                /\ Elems(s) = Image(arr[Owner(c)], c)
  <2>1. PICK s \in MergeResults(Part(arr[Owner(c)], Left(c)),
                                Part(arr[Owner(c)], Right(c))) :
                /\ arr' = [arr EXCEPT ![Owner(c)] = WithPart(arr[Owner(c)], c, s)]
                /\ s \in Seq(Elements) /\ Len(s) = c[2]
                /\ Elems(s) = Image(arr[Owner(c)], c)
    BY <1>3
  <2>2. Permuted(arr[Owner(c)], c) /\ (~MallocMayFail => Ascending(s))
    BY <1>3, HalvesMerged
  <2>3. c \in Parts /\ arr[Owner(c)] \in [1 .. N -> Elements]
    BY <1>1, CallNumbers DEF Typed
  <2>4. PICK d : d = WithPart(arr[Owner(c)], c, s)
    OBVIOUS
  <2>5. /\ \A j \in 1 .. N : j \notin Region(c) => d[j] = arr[Owner(c)][j]
        /\ Permuted(d, c)
        /\ ~MallocMayFail => Ordered(d, c)
    BY <2>1, <2>2, <2>3, <2>4, WithPartIs
  <2>6. /\ \A p \in Procs : p # Owner(c) => arr'[p] = arr[p]
        /\ arr'[Owner(c)] = d
    BY <1>1, <2>1, <2>4 DEF Typed
  <2>7. 0 \in {0, 1}
    OBVIOUS
  <2>. QED  BY <1>1, <1>3, <2>5, <2>6, <2>7, ReturnData
<1>. QED  BY <1>1, <1>2, <1>3, ConcludeEffect, Zenon

\* With or without an answer of waitpid(), the call merges only halves that are
\* complete.
LEMMA WaitData ==
  ASSUME Control, Data, NEW c \in Calls, Wait(c) \/ WaitFails(c)
  PROVE  Data'
<1>1. errors \in 0 .. MaxErrors /\ MaxErrors \in Nat
  BY FsortAssumption DEF Control, Typed
<1>2. CASE Wait(c)
  <2>1. /\ c \in Pipes /\ pc[c] = "wait" /\ Conclude(c, exited[Right(c)] # 0)
        /\ UNCHANGED <<pipe, read_total, written, errors>>
    BY <1>2 DEF Wait, At
  <2>. QED  BY <2>1, ConcludeData
<1>3. CASE WaitFails(c)
  <2>1. /\ c \in Pipes /\ pc[c] = "wait" /\ errors' = errors + 1
        /\ UNCHANGED <<pipe, read_total, written>>
    BY <1>3 DEF WaitFails, At
  <2>2. PICK b \in BOOLEAN : Conclude(c, b)
    BY <1>3 DEF WaitFails
  <2>3. errors' # 0
    BY <1>1, <2>1
  <2>. QED  BY <2>1, <2>2, <2>3, ConcludeData
<1>. QED  BY <1>2, <1>3

\* What reading changes of the array: the places of what was in the pipe.
LEMMA ReadPlaces ==
  ASSUME Control, NEW c \in Calls, Read(c)
  PROVE  /\ c \in Pipes /\ pc[c] = "read" /\ Len(pipe[c]) > 0
         /\ \A p \in Procs : p # Owner(c) => arr'[p] = arr[p]
         /\ \A j \in 1 .. N : j \notin Region(Right(c)) =>
              arr'[Owner(c)][j] = arr[Owner(c)][j]
         /\ \A k \in 1 .. read_total[c] :
              arr'[Owner(c)][Right(c)[1] + k - 1] = arr[Owner(c)][Right(c)[1] + k - 1]
         /\ \A k \in 1 .. Len(pipe[c]) :
              arr'[Owner(c)][Right(c)[1] + read_total[c] + k - 1] = pipe[c][k]
         /\ read_total'[c] = read_total[c] + Len(pipe[c])
         /\ \A d \in Pipes : d # c => read_total'[d] = read_total[d]
         /\ pipe'[c] = <<>> /\ \A d \in Pipes : d # c => pipe'[d] = pipe[d]
         /\ UNCHANGED <<pc, ret, written, errors>>
<1>1. Typed /\ Amounts
  BY DEF Control
<1>2. /\ c \in Pipes /\ pc[c] = "read" /\ pipe[c] # <<>>
      /\ Owner(c) \in Procs
      /\ arr' = [arr EXCEPT ![Owner(c)] =
                   WithPart(arr[Owner(c)],
                            <<Right(c)[1] + read_total[c], Len(pipe[c])>>, pipe[c])]
      /\ read_total' = [read_total EXCEPT ![c] = read_total[c] + Len(pipe[c])]
      /\ pipe' = [pipe EXCEPT ![c] = <<>>]
      /\ UNCHANGED <<pc, ret, written, proc, exited, readers, writers, failed,
                     errors>>
  BY <1>1, ReadEffect
<1>3. PICK n \in Nat, t \in Nat, b \in Nat, m \in Nat, s \in Seq(Elements) :
        /\ n = Len(pipe[c]) /\ t = read_total[c] /\ b = Right(c)[1] /\ m = Bytes(c)
        /\ t + n <= m /\ Region(Right(c)) = b .. b + m - 1 /\ s = pipe[c]
  <2>1. pipe[c] \in Seq(Elements)
    BY <1>1, <1>2 DEF Typed
  <2>2. read_total[c] + Len(pipe[c]) <= Bytes(c)
    BY <1>2, WrittenIs
  <2>. QED  BY <1>2, <2>1, <2>2, WrittenIs
<1>4. n > 0
  <2>1. \A q \in Seq(Elements) : q # <<>> => Len(q) > 0
    OBVIOUS
  <2>. QED  BY <1>2, <1>3, <2>1
<1>5. /\ b .. b + m - 1 \subseteq 1 .. N
  BY <1>2, <1>3, PipeFacts, CallRegion
<1>6. PICK a : a = WithPart(arr[Owner(c)], <<b + t, n>>, s)
  OBVIOUS
<1>7. a = [j \in 1 .. N |-> IF j \in b + t .. (b + t) + n - 1 THEN s[j - (b + t) + 1]
                            ELSE arr[Owner(c)][j]]
  BY <1>6 DEF WithPart, Region
<1>8. arr'[Owner(c)] = a /\ \A p \in Procs : p # Owner(c) => arr'[p] = arr[p]
  BY <1>1, <1>2, <1>3, <1>6 DEF Typed
<1>9. \A b2, t2, n2, m2 \in Nat :
        t2 + n2 <= m2 =>
          /\ b2 + t2 .. (b2 + t2) + n2 - 1 \subseteq b2 .. b2 + m2 - 1
          /\ \A k \in 1 .. t2 : /\ b2 + k - 1 \in b2 .. b2 + m2 - 1
                               /\ b2 + k - 1 \notin b2 + t2 .. (b2 + t2) + n2 - 1
          /\ \A k \in 1 .. n2 :
               /\ b2 + t2 + k - 1 \in b2 + t2 .. (b2 + t2) + n2 - 1
               /\ (b2 + t2 + k - 1) - (b2 + t2) + 1 = k
  OBVIOUS
<1>15. n \in Nat /\ t \in Nat /\ b \in Nat /\ m \in Nat /\ t + n <= m
  BY <1>3
<1>16. /\ b + t .. (b + t) + n - 1 \subseteq b .. b + m - 1
       /\ \A k \in 1 .. t : /\ b + k - 1 \in b .. b + m - 1
                           /\ b + k - 1 \notin b + t .. (b + t) + n - 1
       /\ \A k \in 1 .. n : /\ b + t + k - 1 \in b + t .. (b + t) + n - 1
                           /\ (b + t + k - 1) - (b + t) + 1 = k
  BY <1>9, <1>15, Zenon
<1>10. \A j \in 1 .. N : j \notin b .. b + m - 1 => a[j] = arr[Owner(c)][j]
  BY <1>7, <1>16
<1>11. ASSUME NEW k \in 1 .. t PROVE a[b + k - 1] = arr[Owner(c)][b + k - 1]
  BY <1>5, <1>7, <1>16
<1>12. ASSUME NEW k \in 1 .. n PROVE a[b + t + k - 1] = s[k]
  BY <1>5, <1>7, <1>16
<1>13. /\ read_total'[c] = read_total[c] + Len(pipe[c])
       /\ \A d \in Pipes : d # c => read_total'[d] = read_total[d]
       /\ pipe'[c] = <<>> /\ \A d \in Pipes : d # c => pipe'[d] = pipe[d]
  BY <1>1, <1>2 DEF Typed
<1>. QED  BY <1>2, <1>3, <1>4, <1>8, <1>10, <1>11, <1>12, <1>13

\* Reading fills the right half from its first place on, in the order in which
\* the child wrote.
LEMMA ReadData ==
  ASSUME Control, Data, NEW c \in Calls, Read(c)
  PROVE  Data'
<1>1. Unsorted /\ Sent /\ Halves
  BY DEF Data
<1>2. /\ c \in Pipes /\ pc[c] = "read" /\ Len(pipe[c]) > 0
      /\ \A p \in Procs : p # Owner(c) => arr'[p] = arr[p]
      /\ \A j \in 1 .. N : j \notin Region(Right(c)) =>
           arr'[Owner(c)][j] = arr[Owner(c)][j]
      /\ \A k \in 1 .. read_total[c] :
           arr'[Owner(c)][Right(c)[1] + k - 1] = arr[Owner(c)][Right(c)[1] + k - 1]
      /\ \A k \in 1 .. Len(pipe[c]) :
           arr'[Owner(c)][Right(c)[1] + read_total[c] + k - 1] = pipe[c][k]
      /\ read_total'[c] = read_total[c] + Len(pipe[c])
      /\ \A d \in Pipes : d # c => read_total'[d] = read_total[d]
      /\ pipe'[c] = <<>> /\ \A d \in Pipes : d # c => pipe'[d] = pipe[d]
      /\ UNCHANGED <<pc, ret, written, errors>>
  BY ReadPlaces
<1>3. ASSUME NEW d \in Calls, Owner(d) # Owner(c)
      PROVE  arr'[Owner(d)] = arr[Owner(d)]
  BY <1>2, <1>3, OwnerIs
<1>4. ASSUME NEW d \in Pipes, written[Right(d)] > 0
      PROVE  arr'[Right(d)] = arr[Right(d)]
  <2>1. Owner(c) # Right(d) /\ Right(d) \in Procs
    BY <1>2, <1>4, ChildStill, PipeFacts
  <2>. QED  BY <1>2, <2>1
<1>5. ASSUME NEW d \in Pipes, pc[d] \in {"left", "read", "wait"}, d # c
      PROVE  \A j \in Region(Right(d)) : arr'[Owner(d)][j] = arr[Owner(d)][j]
  <2>1. d \in Calls /\ Region(Right(d)) \subseteq 1 .. N
    BY PipeFacts, CallRegion
  <2>2. CASE Owner(d) # Owner(c)
    BY <1>3, <2>1, <2>2
  <2>3. CASE Owner(d) = Owner(c)
    <3>1. c[1] = d[1] /\ c[2] <= Mid(d)
      BY <1>2, <1>5, <2>1, <2>3, OthersWait
    <3>2. \A j \in Region(Right(d)) : j \notin Region(c)
      BY <3>1, LeftApart
    <3>3. Region(Right(c)) \subseteq Region(c)
      <4>1. /\ Left(c) \in Calls /\ Left(c)[1] = c[1] /\ Left(c)[2] <= Mid(c)
        BY <1>2, PipeFacts
      <4>. QED  BY <1>2, <4>1, LeftApart
    <3>. QED  BY <1>2, <2>1, <2>3, <3>2, <3>3
  <2>. QED  BY <2>2, <2>3
<1>6. Unsorted'
  <2>1. ASSUME NEW d \in Calls, pc'[d] = "call" PROVE Unmoved(arr'[Owner(d)], d)
    <3>1. d # c /\ pc[d] = "call"
      BY <1>2, <2>1
    <3>2. Owner(d) # Owner(c)
      BY <1>2, <3>1, OthersWait
    <3>. QED  BY <1>1, <1>3, <3>1, <3>2 DEF Unsorted
  <2>2. ASSUME NEW d \in Pipes, pc'[d] \in {"left", "read", "wait"}, read_total'[d] = 0
        PROVE  Unmoved(arr'[Owner(d)], Right(d))
    <3>1. d # c /\ pc[d] \in {"left", "read", "wait"}
      <4>1. read_total'[c] # 0
        BY <1>2, WrittenIs
      <4>. QED  BY <1>2, <2>2, <4>1
    <3>2. Unmoved(arr[Owner(d)], Right(d))
      BY <1>1, <1>2, <2>2, <3>1 DEF Unsorted
    <3>. QED  BY <1>5, <3>1, <3>2, SamePartSame
  <2>. QED  BY <2>1, <2>2 DEF Unsorted
<1>7. Sent'
  <2>1. ASSUME NEW d \in Pipes, NEW k \in 1 .. Len(pipe'[d])
        PROVE  pipe'[d][k] = arr'[Right(d)][Right(d)[1] + read_total'[d] + k - 1]
    <3>1. d # c
      <4>1. \A i : i = <<>> => \A j \in 1 .. Len(i) : FALSE
        OBVIOUS
      <4>. QED  BY <1>2, <2>1, <4>1
    <3>2. written[Right(d)] > 0 /\ k \in 1 .. Len(pipe[d])
      BY <1>2, <2>1, <3>1, WrittenIs
    <3>3. arr'[Right(d)] = arr[Right(d)]
      BY <1>4, <3>2
    <3>. QED  BY <1>1, <1>2, <3>1, <3>2, <3>3 DEF Sent
  <2>2. ASSUME NEW d \in Pipes, pc'[d] \in {"left", "read", "wait"},
               NEW k \in 1 .. read_total'[d]
        PROVE  arr'[Owner(d)][Right(d)[1] + k - 1] = arr'[Right(d)][Right(d)[1] + k - 1]
    <3>1. CASE d # c
      <4>1. /\ written[Right(d)] > 0 /\ k \in 1 .. read_total[d]
            /\ k \in 1 .. written[Right(d)]
        BY <1>2, <2>2, <3>1, WrittenIs
      <4>2. Right(d)[1] + k - 1 \in Region(Right(d))
        BY <4>1, WrittenIs
      <4>3. arr'[Owner(d)][Right(d)[1] + k - 1] = arr[Owner(d)][Right(d)[1] + k - 1]
        BY <1>2, <1>5, <2>2, <3>1, <4>2
      <4>4. arr'[Right(d)] = arr[Right(d)]
        BY <1>4, <4>1
      <4>. QED  BY <1>1, <1>2, <2>2, <3>1, <4>1, <4>3, <4>4 DEF Sent
    <3>2. CASE d = c
      <4>1. written[Right(c)] > 0
        BY <1>2, WrittenIs
      <4>2. arr'[Right(c)] = arr[Right(c)]
        BY <1>2, <1>4, <4>1
      <4>3. CASE k <= read_total[c]
        <5>1. k \in 1 .. read_total[c]
          BY <1>2, <2>2, <3>2, <4>3, WrittenIs
        <5>. QED  BY <1>1, <1>2, <3>2, <4>2, <5>1 DEF Sent
      <4>4. CASE ~(k <= read_total[c])
        <5>1. PICK t \in Nat, n \in Nat, b \in Nat :
                t = read_total[c] /\ n = Len(pipe[c]) /\ b = Right(c)[1]
          BY <1>2, WrittenIs
        <5>2. PICK i \in 1 .. n : k = t + i
          <6>1. k \in 1 .. read_total'[c] /\ read_total'[c] = t + n
            <7>1. read_total'[c] = read_total[c] + Len(pipe[c])
              BY <1>2
            <7>. QED  BY <3>2, <5>1, <7>1
          <6>2. k \in 1 .. t + n /\ ~(k <= t)
            BY <4>4, <5>1, <6>1
          <6>3. k - t \in 1 .. n /\ k = t + (k - t)
            BY <6>2
          <6>. QED  BY <6>3
        <5>3. b + t + i - 1 = b + k - 1
          BY <5>1, <5>2
        <5>4. arr'[Owner(c)][b + t + i - 1] = pipe[c][i]
          BY <1>2, <5>1, <5>2
        <5>5. pipe[c][i] = arr[Right(c)][b + t + i - 1]
          BY <1>1, <1>2, <5>1, <5>2 DEF Sent
        <5>. QED  BY <3>2, <4>2, <5>1, <5>3, <5>4, <5>5
      <4>. QED  BY <4>3, <4>4
    <3>. QED  BY <3>1, <3>2
  <2>. QED  BY <2>1, <2>2 DEF Sent
<1>8. Halves'
  <2>1. SUFFICES ASSUME NEW d \in Calls, pc[d] = "done", Current(d)'
                 PROVE  /\ ret[d] = 0 \/ errors = 0 => Permuted(arr'[Owner(d)], d)
                        /\ ret[d] = 0 /\ ~MallocMayFail => Ordered(arr'[Owner(d)], d)
    BY <1>2 DEF Halves
  <2>2. Current(d)
    BY <1>2, <2>1 DEF Current
  <2>3. \A j \in Region(d) : arr'[Owner(d)][j] = arr[Owner(d)][j]
    <3>1. CASE Owner(d) # Owner(c)
      BY <1>3, <3>1
    <3>2. CASE Owner(d) = Owner(c)
      <4>1. d[1] = c[1] /\ d[2] <= Mid(c)
        BY <1>2, <2>1, <3>2, OthersWait
      <4>2. \A j \in Region(d) : j \notin Region(Right(c)) /\ j \in 1 .. N
        BY <1>2, <4>1, LeftApart, CallRegion
      <4>. QED  BY <1>2, <3>2, <4>2
    <3>. QED  BY <3>1, <3>2
  <2>. QED  BY <1>1, <2>1, <2>2, <2>3, SamePartSame DEF Halves
<1>. QED  BY <1>6, <1>7, <1>8 DEF Data

\* A process that is not there has begun none of its calls.
LEMMA NotBegun ==
  ASSUME Control, NEW c \in Pipes, pc[Right(c)] = "none",
         NEW d \in Calls, Owner(d) = Right(c)
  PROVE  pc[d] = "none"
<1>1. /\ Right(c) \in Calls /\ d[1] = Right(c)[1] /\ d[2] <= Right(c)[2]
      /\ d[2] \in Nat /\ Right(c)[2] \in Nat
  BY PipeFacts, OwnerIs, CallNumbers
<1>2. d = Right(c) \/ d[2] < Right(c)[2]
  BY <1>1, SameCall
<1>. QED  BY <1>1, <1>2 DEF Control, Nested

\* A fork starts the two halves on the elements that the call was given.
LEMMA ForkData ==
  ASSUME Control, Data, NEW c \in Calls, Fork(c)
  PROVE  Data'
<1>1. /\ c \in Pipes /\ pc[c] = "call"
      /\ pc'[c] = "left" /\ pc'[Left(c)] = "call" /\ pc'[Right(c)] = "call"
      /\ \A d \in Calls : d \notin {c, Left(c), Right(c)} => pc'[d] = pc[d]
      /\ arr' = [arr EXCEPT ![Right(c)] = arr[Owner(c)]]
      /\ pc[Left(c)] = "none" /\ pc[Right(c)] = "none"
      /\ UNCHANGED <<ret, pipe, read_total, written, errors>>
  BY ForkEffect
<1>2. Unsorted /\ Sent /\ Halves /\ Typed
  BY DEF Data, Control
<1>3. /\ Left(c) \in Calls /\ Right(c) \in Calls /\ Right(c) \in Procs
      /\ Owner(Left(c)) = Owner(c) /\ Owner(Right(c)) = Right(c)
      /\ Owner(c) # Right(c) /\ Owner(c) \in Procs
  BY <1>1, PipeFacts, OwnersOfHalves, OwnerIs
<1>4. /\ arr'[Right(c)] = arr[Owner(c)]
      /\ \A p \in Procs : p # Right(c) => arr'[p] = arr[p]
  BY <1>1, <1>2, <1>3 DEF Typed
<1>5. ASSUME NEW d \in Calls, pc[d] # "none"
      PROVE  arr'[Owner(d)] = arr[Owner(d)]
  <2>1. Owner(d) # Right(c) /\ Owner(d) \in Procs
    BY <1>1, <1>5, NotBegun, OwnerIs
  <2>. QED  BY <1>4, <2>1
<1>6. ASSUME NEW d \in Pipes, written[Right(d)] > 0
      PROVE  arr'[Right(d)] = arr[Right(d)]
  <2>1. pc[Right(d)] = "done" /\ Right(d) \in Calls /\ Owner(Right(d)) = Right(d)
    BY <1>6, PipeFacts, OwnersOfHalves DEF Control, Amounts
  <2>. QED  BY <1>5, <2>1
<1>7. ~(written[Right(c)] > 0)
  BY <1>1 DEF Control, Amounts
<1>8. /\ Unmoved(arr[Owner(c)], c)
      /\ Unmoved(arr[Owner(c)], Left(c)) /\ Unmoved(arr[Owner(c)], Right(c))
  <2>1. Unmoved(arr[Owner(c)], c)
    BY <1>1, <1>2 DEF Unsorted
  <2>2. Region(Left(c)) \subseteq Region(c) /\ Region(Right(c)) \subseteq Region(c)
    <3>1. c \in Parts /\ c[2] > 1
      BY <1>1, CallNumbers DEF Pipes, Forks
    <3>. QED  BY <3>1, RegionSplit
  <2>. QED  BY <2>1, <2>2 DEF Unmoved
<1>9. Unsorted'
  <2>1. ASSUME NEW d \in Calls, pc'[d] = "call" PROVE Unmoved(arr'[Owner(d)], d)
    <3>1. CASE d = Left(c)
      BY <1>3, <1>4, <1>8, <3>1
    <3>2. CASE d = Right(c)
      BY <1>3, <1>4, <1>8, <3>2
    <3>3. CASE d \notin {Left(c), Right(c)}
      <4>1. pc[d] = "call"
        BY <1>1, <2>1, <3>3
      <4>. QED  BY <1>2, <1>5, <4>1 DEF Unsorted
    <3>. QED  BY <3>1, <3>2, <3>3
  <2>2. ASSUME NEW d \in Pipes, pc'[d] \in {"left", "read", "wait"}, read_total'[d] = 0
        PROVE  Unmoved(arr'[Owner(d)], Right(d))
    <3>1. CASE d = c
      BY <1>3, <1>4, <1>8, <3>1
    <3>2. CASE d # c
      <4>1. d \in Calls /\ pc[d] \in {"left", "read", "wait"}
        BY <1>1, <2>2, <3>2, PipeFacts
      <4>. QED  BY <1>1, <1>2, <1>5, <2>2, <4>1 DEF Unsorted
    <3>. QED  BY <3>1, <3>2
  <2>. QED  BY <2>1, <2>2 DEF Unsorted
<1>10. Sent'
  <2>1. ASSUME NEW d \in Pipes, NEW k \in 1 .. Len(pipe'[d])
        PROVE  pipe'[d][k] = arr'[Right(d)][Right(d)[1] + read_total'[d] + k - 1]
    <3>1. written[Right(d)] > 0 /\ k \in 1 .. Len(pipe[d])
      BY <1>1, <2>1, WrittenIs
    <3>. QED  BY <1>1, <1>2, <1>6, <3>1 DEF Sent
  <2>2. ASSUME NEW d \in Pipes, pc'[d] \in {"left", "read", "wait"},
               NEW k \in 1 .. read_total'[d]
        PROVE  arr'[Owner(d)][Right(d)[1] + k - 1] = arr'[Right(d)][Right(d)[1] + k - 1]
    <3>1. written[Right(d)] > 0 /\ k \in 1 .. read_total[d]
      BY <1>1, <2>2, WrittenIs
    <3>2. d # c
      BY <1>7, <3>1
    <3>3. d \in Calls /\ pc[d] \in {"left", "read", "wait"}
      BY <1>1, <2>2, <3>2, PipeFacts
    <3>. QED  BY <1>2, <1>5, <1>6, <3>1, <3>3 DEF Sent
  <2>. QED  BY <2>1, <2>2 DEF Sent
<1>11. Halves'
  <2>1. \A d \in Calls : pc'[d] = "done" <=> pc[d] = "done"
    BY <1>1
  <2>2. SUFFICES ASSUME NEW d \in Calls, pc'[d] = "done", Current(d)'
                 PROVE  /\ ret[d] = 0 \/ errors = 0 => Permuted(arr'[Owner(d)], d)
                        /\ ret[d] = 0 /\ ~MallocMayFail => Ordered(arr'[Owner(d)], d)
    BY <1>1 DEF Halves
  <2>3. pc[d] = "done" /\ Current(d)
    BY <2>1, <2>2 DEF Current
  <2>. QED  BY <1>2, <1>5, <2>3 DEF Halves
<1>. QED  BY <1>9, <1>10, <1>11 DEF Data

\* The steps that leave the arrays, the pipes and the results alone.
LEMMA QuietData ==
  ASSUME Data, UNCHANGED <<ret, arr, pipe, read_total>>,
         errors' = 0 => errors = 0,
         \A d \in Calls :
           /\ pc'[d] = "done" <=> pc[d] = "done"
           /\ pc'[d] = "call" => pc[d] = "call"
           /\ pc'[d] \in {"left", "read", "wait"} => pc[d] \in {"left", "read", "wait"}
  PROVE  Data'
<1>1. Unsorted /\ Sent /\ Halves
  BY DEF Data
<1>2. Unsorted'
  BY <1>1, PipeFacts DEF Unsorted
<1>3. Sent'
  BY <1>1, PipeFacts DEF Sent
<1>4. Halves'
  <2>1. ASSUME NEW d \in Calls, Current(d)' PROVE Current(d)
    BY <2>1 DEF Current
  <2>. QED  BY <1>1, <2>1 DEF Halves
<1>. QED  BY <1>2, <1>3, <1>4 DEF Data

\* What the child writes is the next element of its part.
LEMMA WriteData ==
  ASSUME Control, Data, NEW p \in Procs, Write(p)
  PROVE  Data'
<1>1. Typed /\ Unsorted /\ Sent /\ Halves
  BY DEF Control, Data
<1>2. PICK c \in Pipes : c = Forker(p) /\ Right(c) = p
  BY <1>1, WriteEffect
<1>3. /\ pipe'[c] = Append(pipe[c], arr[p][p[1] + written[p]])
      /\ Len(pipe'[c]) = Len(pipe[c]) + 1
      /\ \A d \in Pipes : d # c => pipe'[d] = pipe[d]
      /\ UNCHANGED <<pc, ret, arr, read_total, errors>>
  BY <1>1, <1>2, WriteEffect
<1>4. Unsorted'
  BY <1>1, <1>3 DEF Unsorted
<1>5. Halves'
  BY <1>1, <1>3 DEF Halves, Current
<1>6. ASSUME NEW k \in 1 .. Len(pipe'[c])
      PROVE  pipe'[c][k] = arr[p][p[1] + read_total[c] + k - 1]
  <2>1. pipe[c] \in Seq(Elements)
    BY <1>1 DEF Typed
  <2>2. CASE k \in 1 .. Len(pipe[c])
    <3>1. \A s \in Seq(Elements) : \A x : \A i \in 1 .. Len(s) : Append(s, x)[i] = s[i]
      OBVIOUS
    <3>2. pipe'[c][k] = pipe[c][k]
      BY <1>3, <2>1, <2>2, <3>1
    <3>. QED  BY <1>1, <1>2, <2>2, <3>2 DEF Sent
  <2>3. CASE k \notin 1 .. Len(pipe[c])
    <3>1. PICK t \in Nat, n \in Nat, b \in Nat :
            /\ t = read_total[c] /\ n = Len(pipe[c]) /\ b = p[1]
            /\ written[p] = t + n
      BY <1>2, WrittenIs
    <3>2. k = n + 1
      BY <1>3, <1>6, <2>3, <3>1
    <3>3. \A s \in Seq(Elements) : \A x : Append(s, x)[Len(s) + 1] = x
      OBVIOUS
    <3>4. pipe'[c][k] = arr[p][b + (t + n)]
      BY <1>3, <2>1, <3>1, <3>2, <3>3
    <3>5. b + t + k - 1 = b + (t + n)
      BY <3>1, <3>2
    <3>. QED  BY <3>1, <3>4, <3>5
  <2>. QED  BY <2>2, <2>3
<1>7. Sent'
  <2>1. ASSUME NEW d \in Pipes, NEW k \in 1 .. Len(pipe'[d])
        PROVE  pipe'[d][k] = arr'[Right(d)][Right(d)[1] + read_total'[d] + k - 1]
    <3>1. CASE d = c
      BY <1>2, <1>3, <1>6, <2>1, <3>1
    <3>2. CASE d # c
      BY <1>1, <1>3, <2>1, <3>2 DEF Sent
    <3>. QED  BY <3>1, <3>2
  <2>2. \A d \in Pipes :
          pc'[d] \in {"left", "read", "wait"} =>
            \A k \in 1 .. read_total'[d] :
              arr'[Owner(d)][Right(d)[1] + k - 1] = arr'[Right(d)][Right(d)[1] + k - 1]
    BY <1>1, <1>3 DEF Sent
  <2>. QED  BY <2>1, <2>2 DEF Sent
<1>. QED  BY <1>4, <1>5, <1>7 DEF Data

\* Every step preserves the data invariant.
LEMMA NextData == ASSUME Control, Data, [Next]_vars PROVE Data'
<1>1. Typed /\ errors \in Nat
  BY FsortAssumption DEF Control, Typed
<1>2. CASE UNCHANGED vars
  <2>1. UNCHANGED <<pc, ret, arr, pipe, read_total, errors>>
    BY <1>2 DEF vars
  <2>. QED  BY <2>1, QuietData
<1>3. ASSUME NEW c \in Calls, LeftDone(c) PROVE Data'
  <2>1. /\ c \in Pipes /\ pc[c] = "left" /\ pc' = [pc EXCEPT ![c] = "read"]
        /\ UNCHANGED <<ret, arr, pipe, read_total, errors>>
    BY <1>3 DEF LeftDone, At
  <2>. QED  BY <1>1, <2>1, QuietData DEF Typed
<1>4. ASSUME NEW c \in Calls, ReadEnd(c) PROVE Data'
  <2>1. /\ c \in Pipes /\ pc[c] = "read" /\ pc' = [pc EXCEPT ![c] = "wait"]
        /\ errors' = errors \/ errors' = errors + 1
        /\ UNCHANGED <<ret, arr, pipe, read_total>>
    BY <1>4 DEF ReadEnd, At
  <2>. QED  BY <1>1, <2>1, QuietData DEF Typed
<1>5. ASSUME NEW p \in Procs,
             ChildExit(p) \/ WriteFails(p) \/ WriteKills(p) \/ Kill(p)
      PROVE  Data'
  <2>1. errors' = errors \/ errors' = errors + 1
    BY <1>5 DEF ChildExit, WriteFails, WriteKills, Kill
  <2>2. UNCHANGED <<pc, ret, arr, pipe, read_total>>
    BY <1>5 DEF ChildExit, WriteFails, WriteKills, Kill, Exit
  <2>. QED  BY <1>1, <2>1, <2>2, QuietData
<1>6. ASSUME NEW c \in Calls,
             \/ SortAlone(c) \/ Fork(c) \/ ForkFails(c) \/ LeftDone(c)
             \/ Read(c) \/ ReadEnd(c) \/ Wait(c) \/ WaitFails(c)
      PROVE  Data'
  BY <1>3, <1>4, <1>6, SortAloneData, ForkData, ForkFailsData, ReadData, WaitData
<1>7. ASSUME NEW p \in Procs,
             \/ Write(p) \/ ChildExit(p) \/ WriteFails(p) \/ WriteKills(p)
             \/ Kill(p)
      PROVE  Data'
  BY <1>5, <1>7, WriteData
<1>. QED  BY <1>2, <1>6, <1>7, StepCases

\* Both invariants hold in every reachable state.
LEMMA DataInvariant == Spec => [](Control /\ Data)
<1>1. Init => Control /\ Data
  BY InitControl, InitData
<1>2. Control /\ Data /\ [Next]_vars => (Control /\ Data)'
  BY NextControl, NextData
<1>. QED  BY <1>1, <1>2, PTL DEF Spec

-----------------------------------------------------------------------------
(* What fsort makes of the array.                                           *)

\* What the data invariant says of the whole array, when fsort has returned.
LEMMA RootDone ==
  ASSUME Control, Data, Returned
  PROVE  /\ ret[Root] = 0 \/ errors = 0 => Permuted(arr[Root], Root)
         /\ ret[Root] = 0 /\ ~MallocMayFail => Ordered(arr[Root], Root)
         /\ Region(Root) = 1 .. N /\ N \in Nat
         /\ arr[Root] \in [1 .. N -> Elements]
<1>1. Root \in Calls /\ Root[1] = 1 /\ Root[2] = N /\ N \in Nat
  BY RootCall, FsortAssumption
<1>2. Root \in Procs /\ Owner(Root) = Root
  BY ProcCall DEF Procs
<1>3. Current(Root)
  BY <1>1, CallNumbers DEF Current
<1>4. Region(Root) = 1 .. N
  BY <1>1 DEF Region
<1>. QED  BY <1>1, <1>2, <1>3, <1>4 DEF Data, Halves, Returned, Control, Typed

\* A result of 0 means that the array is sorted, the order of equal keys kept,
\* and holds the elements it held before, whatever else failed or was killed,
\* provided that malloc() in merge does not fail.
THEOREM ZeroSorted == ASSUME ~MallocMayFail PROVE Spec => []ZeroMeansSorted
<1>1. ASSUME Control, Data PROVE ZeroMeansSorted
  <2>1. SUFFICES ASSUME Returned, ret[Root] = 0
                 PROVE  IsPermutation(arr[Root]) /\ IsSorted(arr[Root])
    BY DEF ZeroMeansSorted
  <2>2. /\ Permuted(arr[Root], Root) /\ Ordered(arr[Root], Root)
        /\ Region(Root) = 1 .. N /\ N \in Nat
        /\ arr[Root] \in [1 .. N -> Elements]
    BY <1>1, <2>1, RootDone
  <2>3. IsPermutation(arr[Root])
    BY <2>2 DEF Permuted, IsPermutation
  <2>4. ASSUME NEW j \in 1 .. N - 1
        PROVE  \/ cmp(arr[Root][j], arr[Root][j + 1]) < 0
               \/ /\ arr[Root][j][1] = arr[Root][j + 1][1]
                  /\ arr[Root][j][2] < arr[Root][j + 1][2]
    <3>1. j \in 1 .. N /\ j + 1 \in 1 .. N /\ j < j + 1
      BY <2>2, <2>4
    <3>2. Before(arr[Root][j], arr[Root][j + 1])
      BY <2>2, <3>1 DEF Ordered
    <3>3. arr[Root][j] \in Elements /\ arr[Root][j + 1] \in Elements
      BY <2>2, <3>1
    <3>4. arr[Root][j][1] \in Nat /\ arr[Root][j + 1][1] \in Nat
      BY <3>3, ElementNumbers
    <3>. QED  BY <3>2, <3>4 DEF Before, cmp
  <2>. QED  BY <2>3, <2>4 DEF IsSorted
<1>. QED  BY <1>1, DataInvariant, PTL

\* Wherever in the tree a pipe() or fork() fails, and whether or not malloc()
\* does, the array keeps all its elements.
THEOREM ElementsKept == Spec => []NothingLost
<1>1. ASSUME Control, Data PROVE NothingLost
  <2>1. ASSUME Returned, errors = 0 PROVE IsPermutation(arr[Root])
    BY <1>1, <2>1, RootDone DEF Permuted, IsPermutation
  <2>. QED  BY <2>1 DEF NothingLost
<1>. QED  BY <1>1, DataInvariant, PTL
=============================================================================
