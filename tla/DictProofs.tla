----------------------------- MODULE DictProofs -----------------------------
(***************************************************************************)
(* Proofs about Dict, for any keys, values and hash function, any number of *)
(* entries and any number of failed allocations: the dictionary keeps every *)
(* key where it is looked up, is never overloaded but for failures, and     *)
(* implements Map.                                                          *)
(*                                                                          *)
(* The facts that need it name the hash table, as a and c, and not the       *)
(* variables: they hold while the table is rebuilt as well.                 *)
(***************************************************************************)
EXTENDS Dict, SequenceTheorems, FiniteSetTheorems, WellFoundedInduction, TLAPS

-----------------------------------------------------------------------------
(* Induction, for a set of numbers.                                         *)

\* Every nonempty set of natural numbers has a least element.
LEMMA Least ==
  ASSUME NEW T, T \subseteq Nat, T # {}
  PROVE  \E m \in T : \A k \in T : m <= k
<1>. DEFINE R == OpToRel(<, Nat)
<1>1. IsWellFoundedOn(R, Nat)
  BY NatLessThanWellFounded
<1>2. R = OpToRel(<, Nat)
  OBVIOUS
<1>. HIDE DEF R
<1>3. PICK x \in T : \A y \in T : ~ (<<y, x>> \in R)
  BY <1>1, WFMin
<1>4. \A k, l \in Nat : l < k => <<l, k>> \in R
  BY <1>2 DEF OpToRel
<1>5. ASSUME NEW k \in T PROVE x <= k
  <2>1. x \in Nat /\ k \in Nat
    OBVIOUS
  <2>2. ~(k < x)
    BY <1>3, <1>4, <2>1
  <2>. QED  BY <2>1, <2>2
<1>. QED  BY <1>5

\* A set with 0 that is closed under successors has all natural numbers.
LEMMA Induction ==
  ASSUME NEW T, 0 \in T, \A n \in Nat : n \in T => n + 1 \in T
  PROVE  \A n \in Nat : n \in T
<1>1. SUFFICES ASSUME Nat \ T # {} PROVE FALSE
  OBVIOUS
<1>2. PICK m \in Nat \ T : \A k \in Nat \ T : m <= k
  <2>. DEFINE U == Nat \ T
  <2>1. U \subseteq Nat /\ U # {}
    BY <1>1
  <2>. HIDE DEF U
  <2>2. \E m \in U : \A k \in U : m <= k
    BY <2>1, Least
  <2>. QED  BY <2>2 DEF U
<1>3. m - 1 \in Nat /\ (m - 1) + 1 = m
  OBVIOUS
<1>4. m - 1 \in T
  BY <1>2, <1>3
<1>. QED  BY <1>3, <1>4

-----------------------------------------------------------------------------
(* Flattening.                                                              *)

\* FlattenSeq, for the first n sequences.
IsFlat(f, ss, n) ==
  f = [i \in 1 .. n |-> IF i = 1 THEN ss[i] ELSE f[i - 1] \o ss[i]]

LEMMA FlatAt ==
  ASSUME NEW f, NEW ss, NEW n, IsFlat(f, ss, n), NEW i \in 1 .. n
  PROVE  f[i] = IF i = 1 THEN ss[i] ELSE f[i - 1] \o ss[i]
<1>1. f = [k \in 1 .. n |-> IF k = 1 THEN ss[k] ELSE f[k - 1] \o ss[k]]
  BY DEF IsFlat
<1>. QED  BY <1>1

LEMMA FlatExists == ASSUME NEW ss PROVE \A n \in Nat : \E f : IsFlat(f, ss, n)
<1>. DEFINE T == {n \in Nat : \E f : IsFlat(f, ss, n)}
<1>1. 0 \in T
  <2>. DEFINE e == [i \in 1 .. 0 |-> ss]
  <2>1. IsFlat(e, ss, 0)
    BY DEF IsFlat
  <2>. QED  BY <2>1
<1>2. ASSUME NEW n \in Nat, n \in T PROVE n + 1 \in T
  <2>1. PICK g : IsFlat(g, ss, n)
    BY <1>2
  <2>. DEFINE f == [i \in 1 .. n + 1 |-> IF i = 1 THEN ss[i] ELSE g[i - 1] \o ss[i]]
  <2>3. ASSUME NEW i \in 1 .. n PROVE f[i] = g[i]
    <3>1. g[i] = IF i = 1 THEN ss[i] ELSE g[i - 1] \o ss[i]
      BY <2>1, FlatAt
    <3>. QED  BY <3>1
  <2>4. ASSUME NEW i \in 1 .. n + 1, i # 1 PROVE g[i - 1] = f[i - 1]
    <3>1. i - 1 \in 1 .. n
      BY <2>4
    <3>. QED  BY <2>3, <3>1
  <2>5. f = [i \in 1 .. n + 1 |-> IF i = 1 THEN ss[i] ELSE f[i - 1] \o ss[i]]
    BY <2>4
  <2>. HIDE DEF f
  <2>6. IsFlat(f, ss, n + 1)
    BY <2>5 DEF IsFlat
  <2>. QED  BY <2>6
<1>. HIDE DEF T
<1>3. \A n \in Nat : n \in T
  BY <1>1, <1>2, Induction
<1>. QED  BY <1>3 DEF T

\* FlattenSeq is the last value of such a function.
LEMMA FlatFun ==
  ASSUME NEW ss, NEW n \in Nat \ {0}, Len(ss) = n
  PROVE  \E f : IsFlat(f, ss, n) /\ FlattenSeq(ss) = f[n]
<1>1. FlattenSeq(ss) = (CHOOSE f : f = [i \in 1 .. n |-> IF i = 1 THEN ss[i] ELSE f[i - 1] \o ss[i]])[n]
  BY DEF FlattenSeq
<1>2. \E f : f = [i \in 1 .. n |-> IF i = 1 THEN ss[i] ELSE f[i - 1] \o ss[i]]
  BY FlatExists DEF IsFlat
<1>. QED  BY <1>1, <1>2 DEF IsFlat

\* Two such functions agree as far as their sequences do.
LEMMA FlatAgree ==
  ASSUME NEW ss, NEW tt, NEW f, NEW g, NEW n \in Nat,
         IsFlat(f, ss, n), IsFlat(g, tt, n + 1), \A i \in 1 .. n : ss[i] = tt[i]
  PROVE  \A i \in 1 .. n : f[i] = g[i]
<1>. DEFINE T == {i \in Nat : i \in 1 .. n => f[i] = g[i]}
<1>1. 0 \in T
  OBVIOUS
<1>2. ASSUME NEW i \in Nat, i \in T PROVE i + 1 \in T
  <2>1. SUFFICES ASSUME i + 1 \in 1 .. n PROVE f[i + 1] = g[i + 1]
    OBVIOUS
  <2>2. f[i + 1] = IF i + 1 = 1 THEN ss[i + 1] ELSE f[(i + 1) - 1] \o ss[i + 1]
    BY <2>1, FlatAt
  <2>3. g[i + 1] = IF i + 1 = 1 THEN tt[i + 1] ELSE g[(i + 1) - 1] \o tt[i + 1]
    <3>1. i + 1 \in 1 .. n + 1
      BY <2>1
    <3>. QED  BY <3>1, FlatAt
  <2>4. i + 1 # 1 => f[(i + 1) - 1] = g[(i + 1) - 1]
    BY <1>2, <2>1
  <2>. QED  BY <2>1, <2>2, <2>3, <2>4
<1>. HIDE DEF T
<1>3. \A i \in Nat : i \in T
  BY <1>1, <1>2, Induction
<1>. QED  BY <1>3 DEF T

\* What is flattened is the concatenation of the sequences.
LEMMA FlattenEmpty == FlattenSeq(<<>>) = <<>>
BY DEF FlattenSeq

LEMMA FlattenType ==
  ASSUME NEW S, NEW ss \in Seq(Seq(S)) PROVE FlattenSeq(ss) \in Seq(S)
<1>1. CASE ss = <<>>
  <2>1. <<>> \in Seq(S)
    OBVIOUS
  <2>. QED  BY <1>1, <2>1, FlattenEmpty
<1>2. CASE ss # <<>>
  <2>1. Len(ss) \in Nat \ {0} /\ \A i \in 1 .. Len(ss) : ss[i] \in Seq(S)
    BY <1>2
  <2>2. PICK f : IsFlat(f, ss, Len(ss)) /\ FlattenSeq(ss) = f[Len(ss)]
    BY <2>1, FlatFun
  <2>. DEFINE T == {i \in Nat : i \in 1 .. Len(ss) => f[i] \in Seq(S)}
  <2>3. 0 \in T
    OBVIOUS
  <2>4. ASSUME NEW i \in Nat, i \in T PROVE i + 1 \in T
    <3>1. SUFFICES ASSUME i + 1 \in 1 .. Len(ss) PROVE f[i + 1] \in Seq(S)
      OBVIOUS
    <3>2. f[i + 1] = IF i + 1 = 1 THEN ss[i + 1] ELSE f[(i + 1) - 1] \o ss[i + 1]
      BY <2>2, <3>1, FlatAt
    <3>3. i + 1 # 1 => f[(i + 1) - 1] \in Seq(S)
      BY <2>1, <2>4, <3>1
    <3>4. ss[i + 1] \in Seq(S)
      BY <2>1, <3>1
    <3>. QED  BY <3>2, <3>3, <3>4
  <2>. HIDE DEF T
  <2>5. \A i \in Nat : i \in T
    BY <2>3, <2>4, Induction
  <2>. QED  BY <2>1, <2>2, <2>5 DEF T
<1>. QED  BY <1>1, <1>2

LEMMA FlattenAppend ==
  ASSUME NEW S, NEW ss \in Seq(Seq(S)), NEW e \in Seq(S)
  PROVE  FlattenSeq(Append(ss, e)) = FlattenSeq(ss) \o e
<1>. DEFINE tt == Append(ss, e)
            n  == Len(ss)
<1>1. /\ n \in Nat /\ Len(tt) = n + 1 /\ tt[n + 1] = e
      /\ \A i \in 1 .. n : ss[i] = tt[i]
  OBVIOUS
<1>. HIDE DEF tt
<1>2. PICK g : IsFlat(g, tt, n + 1) /\ FlattenSeq(tt) = g[n + 1]
  BY <1>1, FlatFun
<1>3. g[n + 1] = IF n + 1 = 1 THEN tt[n + 1] ELSE g[(n + 1) - 1] \o tt[n + 1]
  <2>1. n + 1 \in 1 .. n + 1
    BY <1>1
  <2>. QED  BY <1>2, <2>1, FlatAt
<1>4. CASE n = 0
  <2>1. ss = <<>>
    BY <1>4
  <2>2. FlattenSeq(ss) = <<>>
    BY <2>1, FlattenEmpty
  <2>. QED  BY <1>1, <1>2, <1>3, <1>4, <2>2 DEF tt
<1>5. CASE n # 0
  <2>1. PICK f : IsFlat(f, ss, n) /\ FlattenSeq(ss) = f[n]
    BY <1>1, <1>5, FlatFun
  <2>2. f[n] = g[n]
    <3>1. n \in 1 .. n
      BY <1>1, <1>5
    <3>2. \A i \in 1 .. n : f[i] = g[i]
      <4>1. n \in Nat /\ (\A i \in 1 .. n : ss[i] = tt[i])
        BY <1>1
      <4>2. IsFlat(f, ss, n) /\ IsFlat(g, tt, n + 1)
        BY <1>2, <2>1
      <4>. HIDE DEF n
      <4>. QED  BY <4>1, <4>2, FlatAgree
    <3>. QED  BY <3>1, <3>2
  <2>. QED  BY <1>1, <1>2, <1>3, <1>5, <2>1, <2>2 DEF tt
<1>. QED  BY <1>4, <1>5

-----------------------------------------------------------------------------
(* The nodes of a table, chain by chain.                                    *)

Table(a, c) == a \in [0 .. c - 1 -> Seq(Nodes)]

\* The nodes of the first n chains.
Upto(a, n) == FlattenSeq([i \in 1 .. n |-> a[i - 1]])

LEMMA UptoStep ==
  ASSUME NEW a, NEW c \in Nat, Table(a, c), NEW n \in Nat
  PROVE  /\ Upto(a, 0) = <<>>
         /\ n <= c => Upto(a, n) \in Seq(Nodes)
         /\ n < c => a[n] \in Seq(Nodes) /\ Upto(a, n + 1) = Upto(a, n) \o a[n]
<1>. DEFINE ss == [i \in 1 .. n |-> a[i - 1]]
<1>1. Upto(a, 0) = <<>>
  <2>1. [i \in 1 .. 0 |-> a[i - 1]] = <<>>
    OBVIOUS
  <2>. QED  BY <2>1, FlattenEmpty DEF Upto
<1>2. ASSUME n <= c PROVE ss \in Seq(Seq(Nodes)) /\ Len(ss) = n
  <2>1. \A i \in 1 .. n : a[i - 1] \in Seq(Nodes)
    BY <1>2 DEF Table
  <2>. QED  BY <2>1
<1>3. ASSUME n <= c PROVE Upto(a, n) \in Seq(Nodes)
  <2>. HIDE DEF ss
  <2>1. FlattenSeq(ss) \in Seq(Nodes)
    BY <1>2, <1>3, FlattenType
  <2>. QED  BY <2>1 DEF Upto, ss
<1>4. ASSUME n < c PROVE a[n] \in Seq(Nodes) /\ Upto(a, n + 1) = Upto(a, n) \o a[n]
  <2>. DEFINE tt == [i \in 1 .. n + 1 |-> a[i - 1]]
  <2>1. a[n] \in Seq(Nodes)
    BY <1>4 DEF Table
  <2>2. tt = Append(ss, a[n])
    <3>1. \A i \in 1 .. n + 1 : a[i - 1] \in Seq(Nodes)
      BY <1>4 DEF Table
    <3>2. tt \in Seq(Seq(Nodes)) /\ Len(tt) = n + 1
      BY <3>1
    <3>3. Append(ss, a[n]) \in Seq(Seq(Nodes)) /\ Len(Append(ss, a[n])) = n + 1
      BY <1>2, <1>4, <2>1
    <3>4. ASSUME NEW i \in 1 .. n + 1 PROVE tt[i] = Append(ss, a[n])[i]
      <4>1. CASE i = n + 1
        BY <1>2, <1>4, <2>1, <4>1
      <4>2. CASE i # n + 1
        BY <1>2, <1>4, <2>1, <4>2
      <4>. QED  BY <4>1, <4>2
    <3>. HIDE DEF tt, ss
    <3>. QED  BY <3>2, <3>3, <3>4, SeqEqual
  <2>3. ss \in Seq(Seq(Nodes))
    BY <1>2, <1>4
  <2>. HIDE DEF ss, tt
  <2>4. FlattenSeq(tt) = FlattenSeq(ss) \o a[n]
    BY <2>1, <2>2, <2>3, FlattenAppend
  <2>. QED  BY <2>1, <2>4 DEF Upto, ss, tt
<1>. QED  BY <1>1, <1>3, <1>4

Among(s, x) == \E k \in 1 .. Len(s) : s[k] = x

InChains(a, n, x) == \E i \in 0 .. n - 1 : \E j \in 1 .. Len(a[i]) : a[i][j] = x

\* What is in the first n chains is what is in one of them.
LEMMA UptoNodes ==
  ASSUME NEW a, NEW c \in Nat, Table(a, c)
  PROVE  \A n \in 0 .. c : \A x : Among(Upto(a, n), x) <=> InChains(a, n, x)
<1>. DEFINE In(n, x) == \E k \in 1 .. Len(Upto(a, n)) : Upto(a, n)[k] = x
            Of(n, x) == \E i \in 0 .. n - 1 : \E j \in 1 .. Len(a[i]) : a[i][j] = x
            T == {n \in Nat : n <= c => \A x : In(n, x) <=> Of(n, x)}
<1>1. 0 \in T
  <2>1. Len(Upto(a, 0)) = 0
    BY UptoStep
  <2>2. \A x : ~In(0, x) /\ ~Of(0, x)
    BY <2>1
  <2>. QED  BY <2>2
<1>2. ASSUME NEW n \in Nat, n \in T PROVE n + 1 \in T
  <2>. HIDE DEF In, Of
  <2>1. SUFFICES ASSUME n + 1 <= c, NEW x PROVE In(n + 1, x) <=> Of(n + 1, x)
    OBVIOUS
  <2>2. In(n, x) <=> Of(n, x)
    BY <1>2, <2>1
  <2>. USE DEF In, Of
  <2>. DEFINE u == Upto(a, n)
  <2>3. u \in Seq(Nodes) /\ a[n] \in Seq(Nodes) /\ Upto(a, n + 1) = u \o a[n]
    BY <2>1, UptoStep
  <2>4. In(n + 1, x) <=> (\E k \in 1 .. Len(u \o a[n]) : (u \o a[n])[k] = x)
    BY <2>3
  <2>5. In(n, x) <=> (\E k \in 1 .. Len(u) : u[k] = x)
    OBVIOUS
  <2>. HIDE DEF u
  <2>6. (\E k \in 1 .. Len(u \o a[n]) : (u \o a[n])[k] = x)
           <=> \/ \E k \in 1 .. Len(u) : u[k] = x
               \/ \E k \in 1 .. Len(a[n]) : a[n][k] = x
    <3>. DEFINE v == a[n]
    <3>1. u \in Seq(Nodes) /\ v \in Seq(Nodes)
      BY <2>3
    <3>. HIDE DEF v
    <3>2. /\ Len(u) \in Nat /\ Len(v) \in Nat /\ Len(u \o v) = Len(u) + Len(v)
          /\ \A k \in 1 .. Len(u) : (u \o v)[k] = u[k]
          /\ \A k \in 1 .. Len(v) : (u \o v)[Len(u) + k] = v[k]
      BY <3>1
    <3>3. ASSUME NEW k \in 1 .. Len(u) + Len(v), k > Len(u)
          PROVE  k - Len(u) \in 1 .. Len(v) /\ (u \o v)[k] = v[k - Len(u)]
      <4>1. k - Len(u) \in 1 .. Len(v) /\ Len(u) + (k - Len(u)) = k
        BY <3>2, <3>3
      <4>. QED  BY <3>2, <4>1
    <3>4. ASSUME NEW k \in 1 .. Len(u) + Len(v) PROVE k \in 1 .. Len(u) \/ k > Len(u)
      BY <3>2
    <3>5. ASSUME NEW k \in 1 .. Len(v) PROVE Len(u) + k \in 1 .. Len(u) + Len(v)
      BY <3>2
    <3>6. ASSUME NEW k \in 1 .. Len(u) PROVE k \in 1 .. Len(u) + Len(v)
      BY <3>2
    <3>. QED  BY <3>2, <3>3, <3>4, <3>5, <3>6 DEF v
  <2>7. Of(n + 1, x) <=> Of(n, x) \/ \E j \in 1 .. Len(a[n]) : a[n][j] = x
    <3>1. \A i : i \in 0 .. (n + 1) - 1 <=> i \in 0 .. n - 1 \/ i = n
      OBVIOUS
    <3>. QED  BY <3>1
  <2>. QED  BY <2>2, <2>4, <2>5, <2>6, <2>7
<1>3. \A n \in Nat : n \in T
  <2>. HIDE DEF T
  <2>. QED  BY <1>1, <1>2, Induction
<1>4. \A n \in Nat : n <= c => \A x : In(n, x) <=> Of(n, x)
  <2>. HIDE DEF In, Of
  <2>. QED  BY <1>3
<1>5. ASSUME NEW n \in 0 .. c, NEW x PROVE Among(Upto(a, n), x) <=> InChains(a, n, x)
  <2>1. In(n, x) <=> Of(n, x)
    <3>. HIDE DEF In, Of
    <3>. QED  BY <1>4
  <2>. QED  BY <2>1 DEF Among, InChains
<1>. QED  BY <1>5

\* If one chain changes, the number of nodes changes as its length does.
LEMMA UptoLen ==
  ASSUME NEW a, NEW b, NEW c \in Nat, Table(a, c), Table(b, c),
         NEW idx \in 0 .. c - 1, \A i \in 0 .. c - 1 : i # idx => a[i] = b[i]
  PROVE  /\ Len(Upto(a, c)) \in Nat /\ Len(Upto(b, c)) \in Nat
         /\ Len(a[idx]) \in Nat /\ Len(b[idx]) \in Nat
         /\ Len(Upto(b, c)) = Len(Upto(a, c)) + Len(b[idx]) - Len(a[idx])
<1>. DEFINE la(n) == Len(Upto(a, n))
            lb(n) == Len(Upto(b, n))
            x == Len(a[idx])
            y == Len(b[idx])
            T == {n \in Nat : n <= c => /\ n <= idx => lb(n) = la(n)
                                        /\ idx < n => lb(n) = la(n) + y - x}
<1>1. x \in Nat /\ y \in Nat
  BY DEF Table
<1>2. ASSUME NEW n \in Nat, n <= c PROVE la(n) \in Nat /\ lb(n) \in Nat
  <2>1. Upto(a, n) \in Seq(Nodes) /\ Upto(b, n) \in Seq(Nodes)
    BY <1>2, UptoStep
  <2>. QED  BY <2>1
<1>3. ASSUME NEW n \in Nat, n < c
      PROVE  /\ Len(a[n]) \in Nat /\ Len(b[n]) \in Nat
             /\ la(n + 1) = la(n) + Len(a[n]) /\ lb(n + 1) = lb(n) + Len(b[n])
  <2>1. /\ Upto(a, n) \in Seq(Nodes) /\ a[n] \in Seq(Nodes)
        /\ Upto(a, n + 1) = Upto(a, n) \o a[n]
    BY <1>3, UptoStep
  <2>2. /\ Upto(b, n) \in Seq(Nodes) /\ b[n] \in Seq(Nodes)
        /\ Upto(b, n + 1) = Upto(b, n) \o b[n]
    BY <1>3, UptoStep
  <2>3. Len(a[n]) \in Nat /\ la(n + 1) = la(n) + Len(a[n])
    BY <2>1
  <2>4. Len(b[n]) \in Nat /\ lb(n + 1) = lb(n) + Len(b[n])
    BY <2>2
  <2>. QED  BY <2>3, <2>4
<1>4. la(0) = 0 /\ lb(0) = 0
  BY UptoStep
<1>5. 0 \in T
  <2>. HIDE DEF la, lb, x, y
  <2>. QED  BY <1>4
<1>6. ASSUME NEW n \in Nat, n \in T PROVE n + 1 \in T
  <2>1. SUFFICES ASSUME n + 1 <= c
                 PROVE  /\ n + 1 <= idx => lb(n + 1) = la(n + 1)
                        /\ idx < n + 1 => lb(n + 1) = la(n + 1) + y - x
    <3>. HIDE DEF la, lb, x, y
    <3>. QED  OBVIOUS
  <2>2. n < c /\ n <= c /\ n \in 0 .. c - 1
    BY <2>1
  <2>3. (n <= idx => lb(n) = la(n)) /\ (idx < n => lb(n) = la(n) + y - x)
    <3>. HIDE DEF la, lb, x, y
    <3>. QED  BY <1>6, <2>2
  <2>4. la(n) \in Nat /\ lb(n) \in Nat
    BY <1>2, <2>2
  <2>. DEFINE p == Len(a[n])
              q == Len(b[n])
  <2>5. p \in Nat /\ q \in Nat /\ la(n + 1) = la(n) + p /\ lb(n + 1) = lb(n) + q
    BY <1>3, <2>2
  <2>6. (n = idx => p = x /\ q = y) /\ (n # idx => p = q)
    BY <2>2
  <2>. HIDE DEF la, lb, x, y, p, q
  <2>. QED  BY <1>1, <2>2, <2>3, <2>4, <2>5, <2>6
<1>7. c \in T
  <2>. HIDE DEF T
  <2>1. \A n \in Nat : n \in T
    BY <1>5, <1>6, Induction
  <2>. QED  BY <2>1
<1>8. lb(c) = la(c) + y - x
  <2>. HIDE DEF la, lb, x, y
  <2>. QED  BY <1>1, <1>2, <1>7
<1>. QED  BY <1>1, <1>2, <1>8

-----------------------------------------------------------------------------
(* Tables where every node is in the chain of its key.                      *)

NodesIn(a, c) == UNION {{a[i][j] : j \in 1 .. Len(a[i])} : i \in 0 .. c - 1}

\* WellPlaced, of a table.
Placed(a, c) ==
  \A i \in 0 .. c - 1 :
    /\ \A j \in 1 .. Len(a[i]) : Idx(a[i][j].key, c) = i
    /\ \A j, k \in 1 .. Len(a[i]) : a[i][j].key = a[i][k].key => j = k

\* A node is in one of the chains.
LEMMA NodesInDef ==
  ASSUME NEW a, NEW c, NEW n
  PROVE  n \in NodesIn(a, c)
           <=> \E i \in 0 .. c - 1 : \E j \in 1 .. Len(a[i]) : a[i][j] = n
BY DEF NodesIn

LEMMA UptoAll ==
  ASSUME NEW a, NEW c \in Nat, Table(a, c), NEW x
  PROVE  x \in NodesIn(a, c) <=> \E k \in 1 .. Len(Upto(a, c)) : Upto(a, c)[k] = x
<1>1. c \in 0 .. c
  OBVIOUS
<1>2. Among(Upto(a, c), x) <=> InChains(a, c, x)
  BY <1>1, UptoNodes
<1>. QED  BY <1>2, NodesInDef DEF Among, InChains

\* Keys have an index, nodes a key.
LEMMA IdxType ==
  ASSUME DictAssumption, NEW k \in Keys, NEW c \in Nat \ {0}
  PROVE  Idx(k, c) \in 0 .. c - 1
<1>1. dcthash(k) \in Nat
  BY DEF DictAssumption
<1>2. \A m \in Nat : m % c \in 0 .. c - 1
  OBVIOUS
<1>. QED  BY <1>1, <1>2 DEF Idx

LEMMA NodesInType ==
  ASSUME NEW c, NEW a, Table(a, c), NEW n \in NodesIn(a, c)
  PROVE  n \in Nodes /\ n.key \in Keys /\ n.val \in Vals
<1>1. PICK i \in 0 .. c - 1 : \E j \in 1 .. Len(a[i]) : a[i][j] = n
  BY NodesInDef
<1>2. a[i] \in Seq(Nodes)
  BY DEF Table
<1>3. n \in Nodes
  BY <1>1, <1>2
<1>. QED  BY <1>3 DEF Nodes

\* A key has one node at most, in the chain of its index.
LEMMA OneNode ==
  ASSUME NEW c, NEW a, Placed(a, c), NEW m \in NodesIn(a, c), NEW n \in NodesIn(a, c),
         m.key = n.key
  PROVE  m = n
<1>1. PICK i \in 0 .. c - 1 : \E j \in 1 .. Len(a[i]) : a[i][j] = m
  BY NodesInDef
<1>2. PICK k \in 0 .. c - 1 : \E l \in 1 .. Len(a[k]) : a[k][l] = n
  BY NodesInDef
<1>3. i = k
  BY <1>1, <1>2 DEF Placed
<1>. QED  BY <1>1, <1>2, <1>3 DEF Placed

\* No key occurs twice among all nodes.
LEMMA UptoKeys ==
  ASSUME NEW c \in Nat, NEW a, Table(a, c), Placed(a, c)
  PROVE  \A k, l \in 1 .. Len(Upto(a, c)) : Upto(a, c)[k].key = Upto(a, c)[l].key => k = l
<1>. DEFINE Distinct(u) == \A k, l \in 1 .. Len(u) : u[k].key = u[l].key => k = l
            T == {n \in Nat : n <= c => Distinct(Upto(a, n))}
<1>1. 0 \in T
  <2>1. Len(Upto(a, 0)) = 0
    BY UptoStep
  <2>. QED  BY <2>1
<1>2. ASSUME NEW n \in Nat, n \in T PROVE n + 1 \in T
  <2>. HIDE DEF Distinct
  <2>1. SUFFICES ASSUME n + 1 <= c PROVE Distinct(Upto(a, n + 1))
    OBVIOUS
  <2>2. Distinct(Upto(a, n)) /\ n \in 0 .. c /\ n \in 0 .. c - 1
    BY <1>2, <2>1
  <2>. DEFINE u == Upto(a, n)
              v == a[n]
  <2>3. u \in Seq(Nodes) /\ v \in Seq(Nodes) /\ Upto(a, n + 1) = u \o v
    BY <2>1, UptoStep
  <2>. HIDE DEF v
  <2>4. \A k, l \in 1 .. Len(v) : v[k].key = v[l].key => k = l
    BY <2>2 DEF Placed, v
  <2>5. ASSUME NEW k \in 1 .. Len(u), NEW l \in 1 .. Len(v) PROVE u[k].key # v[l].key
    <3>1. \E i \in 0 .. n - 1 : \E j \in 1 .. Len(a[i]) : a[i][j] = u[k]
      <4>1. Among(u, u[k])
        BY DEF Among
      <4>2. InChains(a, n, u[k])
        BY <2>2, <4>1, UptoNodes
      <4>. QED  BY <4>2 DEF InChains
    <3>2. PICK i \in 0 .. n - 1 : Idx(u[k].key, c) = i
      <4>1. \A i \in 0 .. n - 1 : i \in 0 .. c - 1
        BY <2>2
      <4>. QED  BY <3>1, <4>1 DEF Placed
    <3>3. Idx(v[l].key, c) = n
      BY <2>2 DEF Placed, v
    <3>. QED  BY <3>2, <3>3
  <2>6. Distinct(u)
    BY <2>2
  <2>. HIDE DEF u
  <2>7. /\ Len(u) \in Nat /\ Len(v) \in Nat /\ Len(u \o v) = Len(u) + Len(v)
        /\ \A k \in 1 .. Len(u) : (u \o v)[k] = u[k]
        /\ \A k \in 1 .. Len(v) : (u \o v)[Len(u) + k] = v[k]
    BY <2>3
  <2>8. ASSUME NEW k \in 1 .. Len(u) + Len(v)
        PROVE  k \in 1 .. Len(u)
                 \/ (k - Len(u) \in 1 .. Len(v) /\ (u \o v)[k] = v[k - Len(u)])
    <3>1. k > Len(u) => k - Len(u) \in 1 .. Len(v) /\ Len(u) + (k - Len(u)) = k
      BY <2>7
    <3>. QED  BY <2>7, <3>1
  <2>9. ASSUME NEW k \in 1 .. Len(u) + Len(v), NEW l \in 1 .. Len(u) + Len(v),
               (u \o v)[k].key = (u \o v)[l].key
        PROVE  k = l
    <3>1. CASE k \in 1 .. Len(u) /\ l \in 1 .. Len(u)
      BY <2>6, <2>7, <2>9, <3>1 DEF Distinct
    <3>2. CASE k \in 1 .. Len(u) /\ l \notin 1 .. Len(u)
      BY <2>5, <2>7, <2>8, <2>9, <3>2
    <3>3. CASE k \notin 1 .. Len(u) /\ l \in 1 .. Len(u)
      BY <2>5, <2>7, <2>8, <2>9, <3>3
    <3>4. CASE k \notin 1 .. Len(u) /\ l \notin 1 .. Len(u)
      <4>1. k - Len(u) = l - Len(u)
        <5>1. k - Len(u) \in 1 .. Len(v) /\ l - Len(u) \in 1 .. Len(v)
          BY <2>8, <3>4
        <5>2. v[k - Len(u)].key = v[l - Len(u)].key
          BY <2>8, <2>9, <3>4
        <5>. QED  BY <2>4, <5>1, <5>2
      <4>. QED  BY <2>7, <4>1
    <3>. QED  BY <3>1, <3>2, <3>3, <3>4
  <2>. QED  BY <2>3, <2>7, <2>9 DEF Distinct
<1>3. c \in T
  <2>. HIDE DEF T
  <2>1. \A n \in Nat : n \in T
    BY <1>1, <1>2, Induction
  <2>. QED  BY <2>1
<1>. QED  BY <1>3

-----------------------------------------------------------------------------
(* A node that is added, removed or overwritten.                            *)

\* b is the table a with another chain at idx.
Changed(a, b, idx, chain) == b = [a EXCEPT ![idx] = chain]

\* A chain with another value at p.
Overwritten(chain, p, val) == [chain EXCEPT ![p].val = val]

\* The first place of a key in a chain that has it.
LEMMA FirstPlace ==
  ASSUME NEW chain, NEW k, Found(chain, k) # {}
  PROVE  First(Found(chain, k)) \in 1 .. Len(chain)
         /\ chain[First(Found(chain, k))].key = k
<1>. DEFINE S == Found(chain, k)
<1>1. S \subseteq Nat /\ S # {}
  BY DEF Found
<1>2. PICK m \in S : \A n \in S : m <= n
  <2>. HIDE DEF S
  <2>. QED  BY <1>1, Least
<1>3. First(S) \in S
  BY <1>2 DEF First
<1>. QED  BY <1>3 DEF Found

\* A key that is not found in its chain has no node.
LEMMA NotFound ==
  ASSUME NEW c, NEW a, Placed(a, c), NEW k, Found(a[Idx(k, c)], k) = {}
  PROVE  \A m \in NodesIn(a, c) : m.key # k
<1>1. SUFFICES ASSUME NEW m \in NodesIn(a, c), m.key = k PROVE FALSE
  OBVIOUS
<1>2. PICK i \in 0 .. c - 1 : \E j \in 1 .. Len(a[i]) : a[i][j] = m
  BY NodesInDef
<1>3. i = Idx(k, c)
  BY <1>1, <1>2 DEF Placed
<1>. QED  BY <1>1, <1>2, <1>3 DEF Found

\* A new node in front of its chain.
LEMMA NodeAdded ==
  ASSUME DictAssumption, NEW c \in Nat \ {0}, NEW a, Table(a, c), Placed(a, c),
         NEW n \in Nodes, \A m \in NodesIn(a, c) : m.key # n.key, NEW b,
         Changed(a, b, Idx(n.key, c), <<n>> \o a[Idx(n.key, c)])
  PROVE  /\ Table(b, c) /\ Placed(b, c)
         /\ Len(Upto(b, c)) = Len(Upto(a, c)) + 1
         /\ \A m : m \in NodesIn(b, c) <=> m \in NodesIn(a, c) \/ m = n
<1>. DEFINE idx == Idx(n.key, c)
            u   == a[idx]
            v   == b[idx]
<1>1. idx \in 0 .. c - 1
  <2>1. n.key \in Keys
    BY DEF Nodes
  <2>. QED  BY <2>1, IdxType
<1>2. u \in Seq(Nodes) /\ v = <<n>> \o u /\ \A i \in 0 .. c - 1 : i # idx => b[i] = a[i]
  <2>. HIDE DEF idx
  <2>. QED  BY <1>1 DEF Table, idx, Changed
<1>. HIDE DEF u
<1>3. /\ v \in Seq(Nodes) /\ Len(v) = Len(u) + 1 /\ Len(u) \in Nat
      /\ v[1] = n /\ \A j \in 1 .. Len(u) : v[j + 1] = u[j]
  <2>. HIDE DEF v
  <2>. QED  BY <1>2
<1>4. \A j \in 1 .. Len(v) : j = 1 \/ (j - 1 \in 1 .. Len(u) /\ v[j] = u[j - 1])
  <2>1. ASSUME NEW j \in 1 .. Len(v), j # 1 PROVE j - 1 \in 1 .. Len(u) /\ v[j] = u[j - 1]
    <3>1. j - 1 \in 1 .. Len(u) /\ (j - 1) + 1 = j
      BY <1>3, <2>1
    <3>. QED  BY <1>3, <3>1
  <2>. QED  BY <2>1
<1>. HIDE DEF v, idx
<1>5. Table(b, c)
  <2>1. b \in [0 .. c - 1 -> Seq(Nodes)]
    <3>1. DOMAIN b = 0 .. c - 1 /\ b = [i \in 0 .. c - 1 |-> b[i]]
      BY DEF Table, Changed
    <3>2. ASSUME NEW i \in 0 .. c - 1 PROVE b[i] \in Seq(Nodes)
      BY <1>2, <1>3 DEF Table, v
    <3>. QED  BY <3>1, <3>2
  <2>. QED  BY <2>1 DEF Table
<1>6. /\ \A j \in 1 .. Len(v) : Idx(v[j].key, c) = idx
      /\ \A j, k \in 1 .. Len(v) : v[j].key = v[k].key => j = k
  <2>1. \A j \in 1 .. Len(u) : Idx(u[j].key, c) = idx /\ u[j].key # n.key
    BY <1>1, NodesInDef DEF Placed, u
  <2>2. \A j, k \in 1 .. Len(u) : u[j].key = u[k].key => j = k
    BY <1>1 DEF Placed, u
  <2>3. ASSUME NEW j \in 1 .. Len(v) PROVE Idx(v[j].key, c) = idx
    BY <1>3, <1>4, <2>1 DEF idx
  <2>4. ASSUME NEW j \in 1 .. Len(v), NEW k \in 1 .. Len(v), v[j].key = v[k].key PROVE j = k
    <3>1. CASE j = 1 \/ k = 1
      <4>1. \A i \in 1 .. Len(v) : i # 1 => v[i].key # n.key
        BY <1>4, <2>1
      <4>2. v[1].key = n.key
        BY <1>3
      <4>. QED  BY <2>4, <3>1, <4>1, <4>2
    <3>2. CASE j # 1 /\ k # 1
      <4>1. /\ j - 1 \in 1 .. Len(u) /\ v[j] = u[j - 1]
            /\ k - 1 \in 1 .. Len(u) /\ v[k] = u[k - 1]
        BY <1>4, <3>2
      <4>2. u[j - 1].key = u[k - 1].key
        BY <2>4, <4>1
      <4>3. j - 1 = k - 1
        BY <2>2, <4>1, <4>2
      <4>. QED  BY <1>3, <4>3
    <3>. QED  BY <3>1, <3>2
  <2>. QED  BY <2>3, <2>4
<1>7. Placed(b, c)
  <2>1. ASSUME NEW i \in 0 .. c - 1
        PROVE  /\ \A j \in 1 .. Len(b[i]) : Idx(b[i][j].key, c) = i
               /\ \A j, k \in 1 .. Len(b[i]) : b[i][j].key = b[i][k].key => j = k
    <3>1. CASE i = idx
      BY <1>6, <3>1 DEF v
    <3>2. CASE i # idx
      <4>1. b[i] = a[i]
        BY <1>2, <3>2
      <4>. QED  BY <4>1 DEF Placed
    <3>. QED  BY <3>1, <3>2
  <2>. QED  BY <2>1 DEF Placed
<1>8. Len(Upto(b, c)) = Len(Upto(a, c)) + 1
  <2>1. /\ Len(Upto(a, c)) \in Nat
        /\ Len(Upto(b, c)) = Len(Upto(a, c)) + Len(b[idx]) - Len(a[idx])
    <3>1. /\ c \in Nat /\ Table(a, c) /\ Table(b, c) /\ idx \in 0 .. c - 1
          /\ \A i \in 0 .. c - 1 : i # idx => a[i] = b[i]
      BY <1>1, <1>2, <1>5
    <3>. QED  BY ONLY <3>1, UptoLen
  <2>. QED  BY <1>3, <2>1 DEF u, v
<1>9. ASSUME NEW m PROVE m \in NodesIn(b, c) <=> m \in NodesIn(a, c) \/ m = n
  <2>1. (\E j \in 1 .. Len(v) : v[j] = m) <=> m = n \/ \E j \in 1 .. Len(u) : u[j] = m
    <3>1. 1 \in 1 .. Len(v) /\ \A j \in 1 .. Len(u) : j + 1 \in 1 .. Len(v)
      BY <1>3
    <3>2. m = n => \E j \in 1 .. Len(v) : v[j] = m
      BY <1>3, <3>1, SMTT(40)
    <3>3. (\E j \in 1 .. Len(u) : u[j] = m) => \E j \in 1 .. Len(v) : v[j] = m
      BY <1>3, <3>1, SMTT(40)
    <3>4. (\E j \in 1 .. Len(v) : v[j] = m) => m = n \/ \E j \in 1 .. Len(u) : u[j] = m
      BY <1>3, <1>4
    <3>. QED  BY <3>2, <3>3, <3>4
  <2>2. m \in NodesIn(b, c) <=> \E i \in 0 .. c - 1 : \E j \in 1 .. Len(b[i]) : b[i][j] = m
    BY NodesInDef
  <2>3. m \in NodesIn(a, c) <=> \E i \in 0 .. c - 1 : \E j \in 1 .. Len(a[i]) : a[i][j] = m
    BY NodesInDef
  <2>. QED  BY <1>1, <1>2, <2>1, <2>2, <2>3 DEF u, v
<1>. QED  BY <1>5, <1>7, <1>8, <1>9

\* A node that leaves its chain.
LEMMA NodeRemoved ==
  ASSUME NEW c \in Nat \ {0}, NEW a, Table(a, c), Placed(a, c),
         NEW idx \in 0 .. c - 1, NEW p \in 1 .. Len(a[idx]), NEW b,
         Changed(a, b, idx, RemoveAt(a[idx], p))
  PROVE  /\ Table(b, c) /\ Placed(b, c)
         /\ Len(Upto(b, c)) \in Nat /\ Len(Upto(a, c)) = Len(Upto(b, c)) + 1
         /\ \A m : m \in NodesIn(b, c) <=> m \in NodesIn(a, c) /\ m # a[idx][p]
<1>. DEFINE u == a[idx]
            v == b[idx]
<1>1. /\ u \in Seq(Nodes) /\ p \in 1 .. Len(u)
      /\ v = SubSeq(u, 1, p - 1) \o SubSeq(u, p + 1, Len(u))
      /\ \A i \in 0 .. c - 1 : i # idx => b[i] = a[i]
  BY DEF Table, RemoveAt, Changed
<1>. HIDE DEF u
<1>2. /\ v \in Seq(Nodes) /\ Len(v) = Len(u) - 1 /\ Len(u) \in Nat
      /\ \A j \in 1 .. Len(v) : v[j] = IF j < p THEN u[j] ELSE u[j + 1]
  <2>. HIDE DEF v
  <2>1. /\ SubSeq(u, 1, p - 1) \in Seq(Nodes) /\ Len(SubSeq(u, 1, p - 1)) = p - 1
        /\ \A j \in 1 .. p - 1 : SubSeq(u, 1, p - 1)[j] = u[j]
    <3>1. \A i \in 1 .. p - 1 : u[i] \in Nodes
      BY <1>1
    <3>. QED  BY <1>1, <3>1
  <2>2. /\ SubSeq(u, p + 1, Len(u)) \in Seq(Nodes)
        /\ Len(SubSeq(u, p + 1, Len(u))) = Len(u) - p
        /\ \A j \in 1 .. Len(u) - p : SubSeq(u, p + 1, Len(u))[j] = u[p + j]
    <3>1. \A i \in p + 1 .. Len(u) : u[i] \in Nodes
      BY <1>1
    <3>. QED  BY <1>1, <3>1
  <2>. DEFINE s == SubSeq(u, 1, p - 1)
              t == SubSeq(u, p + 1, Len(u))
  <2>3. Len(u) \in Nat /\ p \in Nat /\ p <= Len(u) /\ 1 <= p
    BY <1>1
  <2>. HIDE DEF s, t
  <2>4. /\ s \in Seq(Nodes) /\ Len(s) = p - 1 /\ \A j \in 1 .. p - 1 : s[j] = u[j]
        /\ t \in Seq(Nodes) /\ Len(t) = Len(u) - p /\ \A j \in 1 .. Len(u) - p : t[j] = u[p + j]
        /\ v = s \o t
    BY <1>1, <2>1, <2>2 DEF s, t
  <2>5. v \in Seq(Nodes) /\ Len(v) = Len(u) - 1
    <3>1. v \in Seq(Nodes) /\ Len(v) = Len(s) + Len(t)
      <4>1. s \in Seq(Nodes) /\ t \in Seq(Nodes) /\ v = s \o t
        BY <2>4
      <4>. QED  BY <4>1, ConcatProperties
    <3>2. Len(s) + Len(t) = Len(u) - 1
      BY <2>3, <2>4
    <3>. QED  BY <3>1, <3>2
  <2>6. ASSUME NEW j \in 1 .. Len(v) PROVE v[j] = IF j < p THEN u[j] ELSE u[j + 1]
    <3>1. CASE j < p
      BY <2>3, <2>4, <2>5, <3>1
    <3>2. CASE ~(j < p)
      <4>1. j - (p - 1) \in 1 .. Len(t) /\ p + (j - (p - 1)) = j + 1 /\ j \in Nat
        BY <2>3, <2>4, <2>5, <3>2, SMTT(40)
      <4>2. v[j] = t[j - (p - 1)]
        BY <2>3, <2>4, <2>5, <3>2, SMTT(40)
      <4>. QED  BY <2>4, <3>2, <4>1, <4>2
    <3>. QED  BY <3>1, <3>2
  <2>. QED  BY <2>3, <2>5, <2>6
<1>. DEFINE from(j) == IF j < p THEN j ELSE j + 1
<1>. DEFINE l == Len(u)
<1>. HIDE DEF v, l
<1>3. /\ l \in Nat /\ p \in Nat /\ 1 <= p /\ p <= l /\ Len(v) = l - 1
      /\ \A j \in 1 .. l - 1 : v[j] = IF j < p THEN u[j] ELSE u[j + 1]
  <2>1. l \in Nat /\ p \in Nat /\ 1 <= p /\ p <= l /\ Len(v) = l - 1
    <3>1. l \in Nat /\ Len(v) = l - 1
      BY <1>2 DEF l
    <3>2. p \in 1 .. l
      BY <1>1 DEF l
    <3>. QED  BY <3>1, <3>2
  <2>2. \A j \in 1 .. Len(v) : v[j] = IF j < p THEN u[j] ELSE u[j + 1]
    BY <1>2
  <2>. QED  BY <2>1, <2>2
<1>4. /\ \A j \in 1 .. l - 1 : from(j) \in 1 .. l /\ from(j) # p /\ v[j] = u[from(j)]
      /\ \A j, k \in 1 .. l - 1 : from(j) = from(k) => j = k
      /\ \A j \in 1 .. l : j # p => \E k \in 1 .. l - 1 : from(k) = j
  <2>1. ASSUME NEW j \in 1 .. l - 1
        PROVE from(j) \in 1 .. l /\ from(j) # p /\ v[j] = u[from(j)]
    BY <1>3
  <2>2. ASSUME NEW j \in 1 .. l - 1, NEW k \in 1 .. l - 1, from(j) = from(k) PROVE j = k
    BY <1>3, <2>2
  <2>3. ASSUME NEW j \in 1 .. l, j < p PROVE j \in 1 .. l - 1 /\ from(j) = j
    BY <1>3, <2>3
  <2>4. ASSUME NEW j \in 1 .. l, p < j PROVE j - 1 \in 1 .. l - 1 /\ from(j - 1) = j
    BY <1>3, <2>4
  <2>5. \A j \in 1 .. l : j # p => j < p \/ p < j
    BY <1>3
  <2>. HIDE DEF from
  <2>. QED  BY <2>1, <2>2, <2>3, <2>4, <2>5
<1>5. /\ \A j \in 1 .. Len(v) : from(j) \in 1 .. Len(u) /\ from(j) # p /\ v[j] = u[from(j)]
      /\ \A j, k \in 1 .. Len(v) : from(j) = from(k) => j = k
      /\ \A j \in 1 .. Len(u) : j # p => \E k \in 1 .. Len(v) : from(k) = j
  <2>. HIDE DEF from
  <2>1. Len(v) = l - 1 /\ Len(u) = l
    BY <1>3 DEF l
  <2>. QED  BY <1>4, <2>1
<1>. HIDE DEF v, from
<1>6. Table(b, c)
  <2>1. DOMAIN b = 0 .. c - 1 /\ b = [i \in 0 .. c - 1 |-> b[i]]
    BY DEF Table, Changed
  <2>2. ASSUME NEW i \in 0 .. c - 1 PROVE b[i] \in Seq(Nodes)
    BY <1>1, <1>2 DEF Table, v
  <2>. QED  BY <2>1, <2>2 DEF Table
<1>7. /\ \A j \in 1 .. Len(u) : Idx(u[j].key, c) = idx
      /\ \A j, k \in 1 .. Len(u) : u[j].key = u[k].key => j = k
  BY DEF Placed, u
<1>8. Placed(b, c)
  <2>1. /\ \A j \in 1 .. Len(v) : Idx(v[j].key, c) = idx
        /\ \A j, k \in 1 .. Len(v) : v[j].key = v[k].key => j = k
    <3>1. ASSUME NEW j \in 1 .. Len(v) PROVE Idx(v[j].key, c) = idx
      <4>1. from(j) \in 1 .. Len(u) /\ v[j] = u[from(j)]
        BY <1>5
      <4>2. Idx(u[from(j)].key, c) = idx
        BY <1>7, <4>1
      <4>. QED  BY <4>1, <4>2
    <3>2. ASSUME NEW j \in 1 .. Len(v), NEW k \in 1 .. Len(v), v[j].key = v[k].key
          PROVE  j = k
      <4>1. from(j) = from(k)
        BY <1>5, <1>7, <3>2
      <4>. QED  BY <1>5, <4>1
    <3>. QED  BY <3>1, <3>2
  <2>. QED  BY <1>1, <2>1 DEF Placed, v
<1>9. Len(Upto(b, c)) \in Nat /\ Len(Upto(a, c)) = Len(Upto(b, c)) + 1
  <2>1. /\ Len(Upto(a, c)) \in Nat /\ Len(Upto(b, c)) \in Nat
        /\ Len(Upto(b, c)) = Len(Upto(a, c)) + Len(b[idx]) - Len(a[idx])
    BY <1>1, <1>6, UptoLen
  <2>. QED  BY <1>2, <2>1 DEF u, v
<1>10. ASSUME NEW m PROVE m \in NodesIn(b, c) <=> m \in NodesIn(a, c) /\ m # a[idx][p]
  <2>1. (\E j \in 1 .. Len(v) : v[j] = m) <=> \E j \in 1 .. Len(u) : j # p /\ u[j] = m
    BY <1>5
  <2>2. (\E j \in 1 .. Len(u) : j # p /\ u[j] = m)
          <=> m # u[p] /\ \E j \in 1 .. Len(u) : u[j] = m
    BY <1>1, <1>7
  <2>3. m \in NodesIn(b, c) <=> \E i \in 0 .. c - 1 : \E j \in 1 .. Len(b[i]) : b[i][j] = m
    BY NodesInDef
  <2>4. m \in NodesIn(a, c) <=> \E i \in 0 .. c - 1 : \E j \in 1 .. Len(a[i]) : a[i][j] = m
    BY NodesInDef
  <2>5. ASSUME NEW i \in 0 .. c - 1, i # idx, \E j \in 1 .. Len(a[i]) : a[i][j] = m
        PROVE  m # u[p]
    <3>1. Idx(m.key, c) = i
      BY <2>5 DEF Placed
    <3>. QED  BY <1>1, <1>7, <2>5, <3>1
  <2>. QED  BY <1>1, <2>1, <2>2, <2>3, <2>4, <2>5 DEF u, v
<1>. QED  BY <1>6, <1>8, <1>9, <1>10

\* A node with another value.
LEMMA NodeOverwritten ==
  ASSUME NEW c \in Nat \ {0}, NEW a, Table(a, c), Placed(a, c),
         NEW idx \in 0 .. c - 1, NEW p \in 1 .. Len(a[idx]), NEW val \in Vals, NEW b,
         Changed(a, b, idx, Overwritten(a[idx], p, val))
  PROVE  /\ Table(b, c) /\ Placed(b, c)
         /\ Len(Upto(b, c)) = Len(Upto(a, c))
         /\ \A m : m \in NodesIn(b, c)
                     <=> \/ m \in NodesIn(a, c) /\ m.key # a[idx][p].key
                         \/ m = [key |-> a[idx][p].key, val |-> val]
<1>. DEFINE u == a[idx]
            v == b[idx]
            n == [key |-> u[p].key, val |-> val]
<1>1. /\ u \in Seq(Nodes) /\ p \in 1 .. Len(u)
      /\ v = Overwritten(u, p, val)
      /\ \A i \in 0 .. c - 1 : i # idx => b[i] = a[i]
  BY DEF Table, Changed
<1>. HIDE DEF u
<1>2. u[p] \in Nodes /\ n \in Nodes /\ [u[p] EXCEPT !.val = val] = n
  <2>1. u[p] \in Nodes
    BY <1>1
  <2>. QED  BY <2>1 DEF Nodes
<1>3. /\ v \in Seq(Nodes) /\ Len(v) = Len(u) /\ v[p] = n
      /\ \A j \in 1 .. Len(u) : j # p => v[j] = u[j]
  <2>. HIDE DEF v
  <2>1. v = [u EXCEPT ![p] = n]
    BY <1>1, <1>2 DEF Overwritten
  <2>. HIDE DEF n
  <2>. QED  BY <1>1, <1>2, <2>1, ExceptSeq
<1>4. n.key = u[p].key
  OBVIOUS
<1>. HIDE DEF v
<1>5. \A j \in 1 .. Len(u) : v[j].key = u[j].key
  BY <1>3, <1>4
<1>6. Table(b, c)
  <2>1. DOMAIN b = 0 .. c - 1 /\ b = [i \in 0 .. c - 1 |-> b[i]]
    BY DEF Table, Changed
  <2>2. ASSUME NEW i \in 0 .. c - 1 PROVE b[i] \in Seq(Nodes)
    BY <1>1, <1>3 DEF Table, v
  <2>. QED  BY <2>1, <2>2 DEF Table
<1>7. /\ \A j \in 1 .. Len(u) : Idx(u[j].key, c) = idx
      /\ \A j, k \in 1 .. Len(u) : u[j].key = u[k].key => j = k
  BY DEF Placed, u
<1>8. Placed(b, c)
  <2>1. /\ \A j \in 1 .. Len(v) : Idx(v[j].key, c) = idx
        /\ \A j, k \in 1 .. Len(v) : v[j].key = v[k].key => j = k
    BY <1>3, <1>5, <1>7
  <2>. QED  BY <1>1, <2>1 DEF Placed, v
<1>9. Len(Upto(b, c)) = Len(Upto(a, c))
  <2>1. /\ Len(Upto(a, c)) \in Nat /\ Len(Upto(b, c)) \in Nat /\ Len(a[idx]) \in Nat
        /\ Len(Upto(b, c)) = Len(Upto(a, c)) + Len(b[idx]) - Len(a[idx])
    BY <1>1, <1>6, UptoLen
  <2>. QED  BY <1>3, <2>1 DEF u, v
<1>. HIDE DEF n
<1>10. ASSUME NEW m
       PROVE m \in NodesIn(b, c) <=> (m \in NodesIn(a, c) /\ m.key # u[p].key) \/ m = n
  <2>1. (\E j \in 1 .. Len(v) : v[j] = m)
          <=> m = n \/ \E j \in 1 .. Len(u) : j # p /\ u[j] = m
    BY <1>1, <1>3
  <2>2. (\E j \in 1 .. Len(u) : j # p /\ u[j] = m)
          <=> m.key # u[p].key /\ \E j \in 1 .. Len(u) : u[j] = m
    BY <1>1, <1>7
  <2>3. m \in NodesIn(b, c) <=> \E i \in 0 .. c - 1 : \E j \in 1 .. Len(b[i]) : b[i][j] = m
    BY NodesInDef
  <2>4. m \in NodesIn(a, c) <=> \E i \in 0 .. c - 1 : \E j \in 1 .. Len(a[i]) : a[i][j] = m
    BY NodesInDef
  <2>5. ASSUME NEW i \in 0 .. c - 1, i # idx, \E j \in 1 .. Len(a[i]) : a[i][j] = m
        PROVE  m.key # u[p].key
    <3>1. Idx(m.key, c) = i
      BY <2>5 DEF Placed
    <3>. QED  BY <1>1, <1>7, <2>5, <3>1
  <2>6. (\E j \in 1 .. Len(b[idx]) : b[idx][j] = m)
          <=> m = n \/ (m.key # u[p].key /\ \E j \in 1 .. Len(a[idx]) : a[idx][j] = m)
    BY <2>1, <2>2 DEF u, v
  <2>7. ASSUME NEW i \in 0 .. c - 1, i # idx
        PROVE  (\E j \in 1 .. Len(b[i]) : b[i][j] = m)
          <=> m.key # u[p].key /\ \E j \in 1 .. Len(a[i]) : a[i][j] = m
    BY <1>1, <2>5, <2>7
  <2>. QED  BY <2>3, <2>4, <2>6, <2>7
<1>. QED  BY <1>6, <1>8, <1>9, <1>10 DEF n, u

\* An array of empty chains.
LEMMA EmptyTable ==
  ASSUME NEW c \in Nat
  PROVE  LET a == [i \in 0 .. c - 1 |-> <<>>]
         IN  Table(a, c) /\ Placed(a, c) /\ Upto(a, c) = <<>> /\ NodesIn(a, c) = {}
<1>. DEFINE a == [i \in 0 .. c - 1 |-> <<>>]
<1>1. Table(a, c)
  BY DEF Table
<1>2. \A i \in 0 .. c - 1 : a[i] = <<>> /\ Len(a[i]) = 0
  OBVIOUS
<1>. HIDE DEF a
<1>3. Placed(a, c) /\ \A x : x \notin NodesIn(a, c)
  BY <1>2, NodesInDef DEF Placed
<1>4. Upto(a, c) = <<>>
  <2>1. Upto(a, c) \in Seq(Nodes)
    BY <1>1, UptoStep
  <2>2. ASSUME NEW k \in 1 .. Len(Upto(a, c)) PROVE FALSE
    <3>1. Upto(a, c)[k] \in NodesIn(a, c)
      BY <1>1, UptoAll
    <3>. QED  BY <1>3, <3>1
  <2>. QED  BY <2>1, <2>2
<1>. QED  BY <1>1, <1>3, <1>4 DEF a

-----------------------------------------------------------------------------
(* Rehashing.                                                               *)

Empty(c) == [j \in 0 .. c - 1 |-> <<>>]

\* The chains after a node of s has been moved.
Moving(a, n, c) == [a EXCEPT ![Idx(n.key, c)] = <<n>> \o @]

\* The function that Rehashed is made from, for the first n nodes of s.
IsMoved(f, s, c, n) ==
  f = [k \in 0 .. n |-> IF k = 0 THEN Empty(c) ELSE Moving(f[k - 1], s[k], c)]

LEMMA MovedExists == ASSUME NEW s, NEW c PROVE \A n \in Nat : \E f : IsMoved(f, s, c, n)
<1>. DEFINE T == {n \in Nat : \E f : IsMoved(f, s, c, n)}
<1>1. 0 \in T
  <2>. DEFINE f == [k \in 0 .. 0 |-> Empty(c)]
  <2>1. f = [k \in 0 .. 0 |-> IF k = 0 THEN Empty(c) ELSE Moving(f[k - 1], s[k], c)]
    OBVIOUS
  <2>. HIDE DEF f
  <2>2. IsMoved(f, s, c, 0)
    BY <2>1 DEF IsMoved
  <2>. QED  BY <2>2
<1>2. ASSUME NEW n \in Nat, n \in T PROVE n + 1 \in T
  <2>1. PICK g : IsMoved(g, s, c, n)
    BY <1>2
  <2>. DEFINE f == [k \in 0 .. n + 1 |-> IF k = 0 THEN Empty(c) ELSE Moving(g[k - 1], s[k], c)]
  <2>2. ASSUME NEW k \in 0 .. n PROVE f[k] = g[k]
    <3>1. g = [i \in 0 .. n |-> IF i = 0 THEN Empty(c) ELSE Moving(g[i - 1], s[i], c)]
      BY <2>1 DEF IsMoved
    <3>2. g[k] = IF k = 0 THEN Empty(c) ELSE Moving(g[k - 1], s[k], c)
      BY <3>1
    <3>. QED  BY <3>2
  <2>3. ASSUME NEW k \in 0 .. n + 1, k # 0 PROVE g[k - 1] = f[k - 1]
    <3>1. k - 1 \in 0 .. n
      BY <2>3
    <3>. HIDE DEF f
    <3>. QED  BY <2>2, <3>1
  <2>4. f = [k \in 0 .. n + 1 |-> IF k = 0 THEN Empty(c) ELSE Moving(f[k - 1], s[k], c)]
    BY <2>3
  <2>. HIDE DEF f
  <2>5. IsMoved(f, s, c, n + 1)
    BY <2>4 DEF IsMoved
  <2>. QED  BY <2>5
<1>3. \A n \in Nat : n \in T
  <2>. HIDE DEF T
  <2>. QED  BY <1>1, <1>2, Induction
<1>. QED  BY <1>3

LEMMA RehashedFun ==
  ASSUME NEW c, Len(AllNodes) \in Nat
  PROVE  \E f : IsMoved(f, AllNodes, c, Len(AllNodes)) /\ Rehashed(c) = f[Len(AllNodes)]
<1>1. Rehashed(c) =
        (CHOOSE f : f = [k \in 0 .. Len(AllNodes) |->
            IF k = 0 THEN [j \in 0 .. c - 1 |-> <<>>]
            ELSE [f[k - 1] EXCEPT ![Idx(AllNodes[k].key, c)] = <<AllNodes[k]>> \o @]])[Len(AllNodes)]
  BY DEF Rehashed
<1>2. Rehashed(c) =
        (CHOOSE f : IsMoved(f, AllNodes, c, Len(AllNodes)))[Len(AllNodes)]
  BY <1>1 DEF IsMoved, Empty, Moving
<1>3. \E f : IsMoved(f, AllNodes, c, Len(AllNodes))
  BY MovedExists
<1>. QED  BY <1>2, <1>3

\* The table a holds the first k nodes of s.
Holds(a, c, s, k) ==
  /\ Table(a, c) /\ Placed(a, c) /\ Len(Upto(a, c)) = k
  /\ \A m : m \in NodesIn(a, c) <=> \E i \in 1 .. k : s[i] = m

\* When k nodes are moved, they are what the new chains hold.
LEMMA Moved ==
  ASSUME DictAssumption, NEW c \in Nat \ {0}, NEW s \in Seq(Nodes),
         \A i, j \in 1 .. Len(s) : s[i].key = s[j].key => i = j,
         NEW f, IsMoved(f, s, c, Len(s))
  PROVE  \A k \in 0 .. Len(s) : Holds(f[k], c, s, k)
<1>. DEFINE P(k) == Holds(f[k], c, s, k)
            T == {k \in Nat : k <= Len(s) => P(k)}
<1>1. ASSUME NEW k \in 0 .. Len(s)
      PROVE  f[k] = IF k = 0 THEN Empty(c) ELSE Moving(f[k - 1], s[k], c)
  <2>1. f = [i \in 0 .. Len(s) |-> IF i = 0 THEN Empty(c) ELSE Moving(f[i - 1], s[i], c)]
    BY DEF IsMoved
  <2>. QED  BY <2>1
<1>2. Len(s) \in Nat
  OBVIOUS
<1>3. P(0)
  <2>1. f[0] = Empty(c)
    BY <1>1, <1>2
  <2>2. Table(f[0], c) /\ Placed(f[0], c) /\ Upto(f[0], c) = <<>> /\ NodesIn(f[0], c) = {}
    BY <2>1, EmptyTable DEF Empty
  <2>3. Len(Upto(f[0], c)) = 0
    BY <2>2
  <2>. QED  BY <2>2, <2>3 DEF Holds
<1>4. ASSUME NEW k \in Nat, k + 1 <= Len(s), P(k) PROVE P(k + 1)
  <2>. DEFINE a == f[k]
              b == f[k + 1]
              n == s[k + 1]
  <2>1. b = Moving(a, n, c)
    <3>1. k + 1 \in 0 .. Len(s) /\ k + 1 # 0 /\ (k + 1) - 1 = k
      BY <1>2, <1>4
    <3>. QED  BY <1>1, <3>1
  <2>2. /\ Table(a, c) /\ Placed(a, c) /\ Len(Upto(a, c)) = k
        /\ \A m : m \in NodesIn(a, c) <=> \E i \in 1 .. k : s[i] = m
    BY <1>4 DEF Holds
  <2>3. n \in Nodes
    BY <1>2, <1>4
  <2>4. \A m \in NodesIn(a, c) : m.key # n.key
    <3>1. ASSUME NEW i \in 1 .. k PROVE s[i].key # n.key
      <4>1. i \in 1 .. Len(s) /\ k + 1 \in 1 .. Len(s) /\ i # k + 1
        BY <1>2, <1>4
      <4>. QED  BY <4>1
    <3>. QED  BY <2>2, <3>1
  <2>. HIDE DEF a, b, n
  <2>5. Changed(a, b, Idx(n.key, c), <<n>> \o a[Idx(n.key, c)])
    BY <2>1 DEF Changed, Moving
  <2>6. /\ Table(b, c) /\ Placed(b, c) /\ Len(Upto(b, c)) = Len(Upto(a, c)) + 1
        /\ \A m : m \in NodesIn(b, c) <=> m \in NodesIn(a, c) \/ m = n
    BY <2>2, <2>3, <2>4, <2>5, NodeAdded
  <2>7. ASSUME NEW m
        PROVE  m \in NodesIn(b, c) <=> \E i \in 1 .. k + 1 : s[i] = m
    <3>1. \A i : i \in 1 .. k + 1 <=> i \in 1 .. k \/ i = k + 1
      OBVIOUS
    <3>. QED  BY <2>2, <2>6, <3>1 DEF n
  <2>. QED  BY <2>2, <2>6, <2>7 DEF b, Holds
<1>. HIDE DEF P
<1>5. 0 \in T
  BY <1>3
<1>6. \A k \in Nat : k \in T => k + 1 \in T
  BY <1>2, <1>4
<1>7. \A k \in Nat : k \in T
  <2>. HIDE DEF T
  <2>. QED  BY <1>5, <1>6, Induction
<1>8. \A k \in 0 .. Len(s) : P(k)
  BY <1>2, <1>7
<1>. QED  BY <1>8 DEF P

\* A larger array holds the same nodes, each where its key is looked up.
LEMMA RehashedNodes ==
  ASSUME DictAssumption, cap \in Nat, Table(arr, cap), Placed(arr, cap), NEW c \in Nat \ {0}
  PROVE  /\ Table(Rehashed(c), c) /\ Placed(Rehashed(c), c)
         /\ Len(Upto(Rehashed(c), c)) = Len(Upto(arr, cap))
         /\ \A m : m \in NodesIn(Rehashed(c), c) <=> m \in NodesIn(arr, cap)
<1>. DEFINE s == AllNodes
<1>1. s = Upto(arr, cap)
  BY DEF AllNodes, Upto
<1>. HIDE DEF s
<1>2. s \in Seq(Nodes) /\ Len(s) \in Nat
  <2>1. Upto(arr, cap) \in Seq(Nodes)
    BY UptoStep
  <2>. QED  BY <1>1, <2>1
<1>3. \A i, j \in 1 .. Len(s) : s[i].key = s[j].key => i = j
  BY <1>1, UptoKeys
<1>4. PICK f : IsMoved(f, s, c, Len(s)) /\ Rehashed(c) = f[Len(s)]
  BY <1>2, RehashedFun DEF s
<1>5. Len(s) \in 0 .. Len(s)
  BY <1>2
<1>6. Holds(f[Len(s)], c, s, Len(s))
  <2>1. \A k \in 0 .. Len(s) : Holds(f[k], c, s, k)
    BY <1>2, <1>3, <1>4, Moved
  <2>. QED  BY <1>5, <2>1
<1>7. \A m : m \in NodesIn(arr, cap) <=> \E i \in 1 .. Len(s) : s[i] = m
  BY <1>1, UptoAll
<1>. QED  BY <1>1, <1>4, <1>6, <1>7 DEF Holds

-----------------------------------------------------------------------------
(* What each call does to the table.                                        *)

\* The inductive invariant, without the result of the last call.
Core ==
  /\ cap \in Nat /\ Table(arr, cap) /\ Placed(arr, cap)
  /\ size \in Nat /\ size = Len(Upto(arr, cap))
  /\ failures \in 0 .. MaxFailures
  /\ LoadBounded

LEMMA CoreIs ==
  Core <=> /\ WellPlaced /\ LoadBounded /\ cap \in Nat /\ size \in Nat
           /\ arr \in [0 .. cap - 1 -> Seq(Nodes)] /\ failures \in 0 .. MaxFailures
BY DEF Core, WellPlaced, Placed, Table, AllNodes, Upto

\* The nodes stay, one is put in, one is taken out.
Keeps == \A m : m \in NodesIn(arr, cap)' <=> m \in NodesIn(arr, cap)
Puts(key, val) ==
  \A m : m \in NodesIn(arr, cap)'
           <=> \/ m \in NodesIn(arr, cap) /\ m.key # key
               \/ m = [key |-> key, val |-> val]
Drops(key) ==
  \A m : m \in NodesIn(arr, cap)' <=> m \in NodesIn(arr, cap) /\ m.key # key

\* A failure leaves the number of failures within its bound.
LEMMA FailuresType ==
  ASSUME DictAssumption, failures \in 0 .. MaxFailures
  PROVE  /\ Fails => failures' \in 0 .. MaxFailures /\ failures' = failures + 1
         /\ Succeeds => failures' \in 0 .. MaxFailures /\ failures' = failures
BY DEF DictAssumption, Fails, Succeeds

LEMMA CreateTable ==
  ASSUME DictAssumption, Core, dctcreate
  PROVE  Core' /\ Keeps
<1>1. /\ cap = 0 /\ size \in Nat /\ size = Len(Upto(arr, cap)) /\ size' = size
      /\ failures \in 0 .. MaxFailures /\ size <= cap + failures
  BY DEF dctcreate, Core, LoadBounded
<1>2. size = 0 /\ \A m : m \notin NodesIn(arr, cap)
  <2>1. size = 0
    BY <1>1, UptoStep DEF Core
  <2>. QED  BY <1>1, <2>1, NodesInDef
<1>3. CASE Succeeds /\ cap' = Cap0 /\ arr' = [i \in 0 .. Cap0 - 1 |-> <<>>]
  <2>1. Cap0 \in Nat
    BY DEF DictAssumption
  <2>2. Table(arr', cap') /\ Placed(arr', cap') /\ Upto(arr', cap') = <<>> /\ NodesIn(arr', cap') = {}
    BY <1>3, <2>1, EmptyTable
  <2>3. Len(Upto(arr', cap')) = 0
    BY <2>2
  <2>4. failures' \in 0 .. MaxFailures /\ size' <= cap' + failures'
    BY <1>1, <1>2, <1>3, <2>1, FailuresType
  <2>. QED  BY <1>1, <1>2, <1>3, <2>1, <2>2, <2>3, <2>4 DEF Core, Keeps, LoadBounded
<1>4. CASE Fails /\ UNCHANGED <<cap, arr>>
  <2>1. failures' \in 0 .. MaxFailures /\ size' <= cap' + failures'
    BY <1>1, <1>4, FailuresType
  <2>. QED  BY <1>1, <1>4, <2>1 DEF Core, Keeps, LoadBounded
<1>. QED  BY <1>3, <1>4 DEF dctcreate

LEMMA DestroyTable ==
  ASSUME DictAssumption, Core, dctdestroy
  PROVE  Core' /\ \A m : m \notin NodesIn(arr, cap)'
<1>1. cap' = 0 /\ arr' = <<>> /\ size' = 0 /\ failures' = failures /\ failures \in 0 .. MaxFailures
  BY DEF dctdestroy, Core, Succeeds
<1>2. arr' = [i \in 0 .. 0 - 1 |-> <<>>]
  BY <1>1
<1>3. Table(arr', 0) /\ Placed(arr', 0) /\ Upto(arr', 0) = <<>> /\ NodesIn(arr', 0) = {}
  BY <1>2, EmptyTable
<1>4. size' <= cap' + failures'
  BY <1>1 DEF DictAssumption
<1>. QED  BY <1>1, <1>3, <1>4 DEF Core, LoadBounded

LEMMA OverwriteTable ==
  ASSUME DictAssumption, Core, cap # 0, NEW key \in Keys, NEW val \in Vals,
         Overwrite(key, val)
  PROVE  Core' /\ Puts(key, val)
<1>. DEFINE idx == Idx(key, cap)
            p   == First(Found(arr[idx], key))
<1>1. idx \in 0 .. cap - 1
  BY IdxType DEF Core
<1>2. p \in 1 .. Len(arr[idx]) /\ arr[idx][p].key = key
  BY FirstPlace DEF Overwrite
<1>3. Changed(arr, arr', idx, Overwritten(arr[idx], p, val)) /\ cap' = cap /\ size' = size
  BY DEF Overwrite, Changed, Overwritten
<1>. HIDE DEF idx, p
<1>4. /\ Table(arr', cap) /\ Placed(arr', cap) /\ Len(Upto(arr', cap)) = Len(Upto(arr, cap))
      /\ \A m : m \in NodesIn(arr', cap)
                  <=> \/ m \in NodesIn(arr, cap) /\ m.key # arr[idx][p].key
                      \/ m = [key |-> arr[idx][p].key, val |-> val]
  BY <1>1, <1>2, <1>3, NodeOverwritten DEF Core
<1>5. failures' = failures
  BY DEF Overwrite, Succeeds
<1>. QED  BY <1>2, <1>3, <1>4, <1>5 DEF Core, Puts, LoadBounded

\* A new node in front of its chain, in a table that has room for it.
LEMMA PrependTable ==
  ASSUME DictAssumption, NEW c \in Nat \ {0}, NEW a, Table(a, c), Placed(a, c),
         NEW key \in Keys, NEW val \in Vals, \A m \in NodesIn(a, c) : m.key # key,
         Prepend(key, val, a, c)
  PROVE  /\ Table(arr', c) /\ Placed(arr', c) /\ Len(Upto(arr', c)) = Len(Upto(a, c)) + 1
         /\ \A m : m \in NodesIn(arr', c)
                     <=> \/ m \in NodesIn(a, c) /\ m.key # key
                         \/ m = [key |-> key, val |-> val]
         /\ size' = size + 1
<1>. DEFINE n == [key |-> key, val |-> val]
<1>1. n \in Nodes /\ n.key = key
  BY DEF Nodes
<1>2. Changed(a, arr', Idx(key, c), <<n>> \o a[Idx(key, c)]) /\ size' = size + 1
  BY DEF Prepend, Changed
<1>. HIDE DEF n
<1>3. /\ Table(arr', c) /\ Placed(arr', c) /\ Len(Upto(arr', c)) = Len(Upto(a, c)) + 1
      /\ \A m : m \in NodesIn(arr', c) <=> m \in NodesIn(a, c) \/ m = n
  <2>1. \A m \in NodesIn(a, c) : m.key # n.key
    BY <1>1
  <2>2. Changed(a, arr', Idx(n.key, c), <<n>> \o a[Idx(n.key, c)])
    BY <1>1, <1>2
  <2>. QED  BY <1>1, <2>1, <2>2, NodeAdded
<1>. QED  BY <1>2, <1>3 DEF n

\* The larger array, when the dictionary is full.
LEMMA Grown ==
  ASSUME DictAssumption, Core, cap # 0, NEW key, \A m \in NodesIn(arr, cap) : m.key # key
  PROVE  LET c == 2 * cap + 1 IN
         /\ c \in Nat \ {0} /\ Table(Rehashed(c), c) /\ Placed(Rehashed(c), c)
         /\ size = Len(Upto(Rehashed(c), c))
         /\ \A m : m \in NodesIn(Rehashed(c), c) <=> m \in NodesIn(arr, cap)
         /\ \A m \in NodesIn(Rehashed(c), c) : m.key # key
         /\ size + 1 <= c + failures
<1>. DEFINE c == 2 * cap + 1
<1>1. c \in Nat \ {0} /\ size + 1 <= c + failures
  BY DEF Core, LoadBounded, DictAssumption
<1>. HIDE DEF c
<1>2. /\ Table(Rehashed(c), c) /\ Placed(Rehashed(c), c)
      /\ Len(Upto(Rehashed(c), c)) = Len(Upto(arr, cap))
      /\ \A m : m \in NodesIn(Rehashed(c), c) <=> m \in NodesIn(arr, cap)
  BY <1>1, RehashedNodes DEF Core
<1>. QED  BY <1>1, <1>2 DEF Core, c

LEMMA AddTable ==
  ASSUME DictAssumption, Core, cap # 0, NEW key \in Keys, NEW val \in Vals, Add(key, val)
  PROVE  Core' /\ Puts(key, val)
<1>1. \A m \in NodesIn(arr, cap) : m.key # key
  BY NotFound DEF Add, Core
<1>2. failures' = failures
  BY DEF Add, Succeeds
<1>3. CASE MustGrow
  <2>. DEFINE c == 2 * cap + 1
  <2>1. cap' = c /\ Prepend(key, val, Rehashed(c), c)
    BY <1>3 DEF Add
  <2>2. /\ c \in Nat \ {0} /\ Table(Rehashed(c), c) /\ Placed(Rehashed(c), c)
        /\ size = Len(Upto(Rehashed(c), c))
        /\ \A m : m \in NodesIn(Rehashed(c), c) <=> m \in NodesIn(arr, cap)
        /\ \A m \in NodesIn(Rehashed(c), c) : m.key # key
        /\ size + 1 <= c + failures
    BY <1>1, Grown
  <2>. HIDE DEF c
  <2>3. /\ Table(arr', c) /\ Placed(arr', c)
        /\ Len(Upto(arr', c)) = Len(Upto(Rehashed(c), c)) + 1
        /\ \A m : m \in NodesIn(arr', c)
                     <=> \/ m \in NodesIn(Rehashed(c), c) /\ m.key # key
                         \/ m = [key |-> key, val |-> val]
        /\ size' = size + 1
    BY <2>1, <2>2, PrependTable
  <2>4. size' \in Nat /\ size' = Len(Upto(arr', c)) /\ size' <= c + failures'
    BY <1>2, <2>2, <2>3 DEF Core
  <2>. QED  BY <1>2, <2>1, <2>2, <2>3, <2>4 DEF Core, Puts, LoadBounded
<1>4. CASE ~MustGrow
  <2>1. cap' = cap /\ Prepend(key, val, arr, cap)
    BY <1>4 DEF Add
  <2>2. /\ Table(arr', cap) /\ Placed(arr', cap)
        /\ Len(Upto(arr', cap)) = Len(Upto(arr, cap)) + 1
        /\ \A m : m \in NodesIn(arr', cap)
                     <=> \/ m \in NodesIn(arr, cap) /\ m.key # key
                         \/ m = [key |-> key, val |-> val]
        /\ size' = size + 1
    BY <1>1, <2>1, PrependTable DEF Core
  <2>3. size' \in Nat /\ size' = Len(Upto(arr', cap)) /\ size' <= cap + failures'
    BY <1>2, <1>4, <2>2 DEF Core, MustGrow, DictAssumption
  <2>. QED  BY <1>2, <2>1, <2>2, <2>3 DEF Core, Puts, LoadBounded
<1>. QED  BY <1>3, <1>4

LEMMA AddWithoutGrowingTable ==
  ASSUME DictAssumption, Core, cap # 0, NEW key \in Keys, NEW val \in Vals,
         AddWithoutGrowing(key, val)
  PROVE  Core' /\ Puts(key, val)
<1>1. \A m \in NodesIn(arr, cap) : m.key # key
  BY NotFound DEF AddWithoutGrowing, Core
<1>2. failures' \in 0 .. MaxFailures /\ failures' = failures + 1
  BY FailuresType DEF AddWithoutGrowing, Core
<1>3. cap' = cap /\ Prepend(key, val, arr, cap)
  BY DEF AddWithoutGrowing
<1>4. /\ Table(arr', cap) /\ Placed(arr', cap)
      /\ Len(Upto(arr', cap)) = Len(Upto(arr, cap)) + 1
      /\ \A m : m \in NodesIn(arr', cap)
                   <=> \/ m \in NodesIn(arr, cap) /\ m.key # key
                       \/ m = [key |-> key, val |-> val]
      /\ size' = size + 1
  BY <1>1, <1>3, PrependTable DEF Core
<1>5. size' \in Nat /\ size' = Len(Upto(arr', cap)) /\ size' <= cap + failures'
  BY <1>2, <1>4 DEF Core, LoadBounded, DictAssumption
<1>. QED  BY <1>2, <1>3, <1>4, <1>5 DEF Core, Puts, LoadBounded

LEMMA AddNothingTable ==
  ASSUME DictAssumption, Core, cap # 0, NEW key \in Keys, AddNothing(key)
  PROVE  Core' /\ Keeps
<1>1. \A m \in NodesIn(arr, cap) : m.key # key
  BY NotFound DEF AddNothing, Core
<1>2. failures' \in 0 .. MaxFailures /\ failures' = failures + 1 /\ size' = size
  BY FailuresType DEF AddNothing, Core
<1>3. CASE MustGrow /\ cap' = 2 * cap + 1 /\ arr' = Rehashed(cap')
  <2>. DEFINE c == 2 * cap + 1
  <2>1. cap' = c /\ arr' = Rehashed(c)
    BY <1>3
  <2>2. /\ c \in Nat \ {0} /\ Table(Rehashed(c), c) /\ Placed(Rehashed(c), c)
        /\ size = Len(Upto(Rehashed(c), c))
        /\ \A m : m \in NodesIn(Rehashed(c), c) <=> m \in NodesIn(arr, cap)
        /\ size + 1 <= c + failures
    BY <1>1, <1>3, Grown
  <2>. HIDE DEF c
  <2>3. size' \in Nat /\ size' <= c + failures'
    BY <1>2, <2>2 DEF Core, DictAssumption
  <2>. QED  BY <1>2, <2>1, <2>2, <2>3 DEF Core, Keeps, LoadBounded
<1>4. CASE UNCHANGED <<cap, arr>>
  <2>1. size' <= cap + failures'
    BY <1>2 DEF Core, LoadBounded, DictAssumption
  <2>. QED  BY <1>2, <1>4, <2>1 DEF Core, Keeps, LoadBounded
<1>. QED  BY <1>3, <1>4 DEF AddNothing

LEMMA RemoveTable ==
  ASSUME DictAssumption, Core, cap # 0, NEW key \in Keys, dctremove(key)
  PROVE  Core' /\ Drops(key)
<1>. DEFINE idx == Idx(key, cap)
            p   == First(Found(arr[idx], key))
<1>1. idx \in 0 .. cap - 1
  BY IdxType DEF Core
<1>2. CASE Found(arr[idx], key) = {}
  <2>1. \A m \in NodesIn(arr, cap) : m.key # key
    BY <1>2, NotFound DEF Core
  <2>2. UNCHANGED <<arr, size, cap, failures>>
    BY <1>2 DEF dctremove
  <2>. QED  BY <2>1, <2>2 DEF Core, Drops, LoadBounded
<1>3. CASE Found(arr[idx], key) # {}
  <2>1. p \in 1 .. Len(arr[idx]) /\ arr[idx][p].key = key
    BY <1>3, FirstPlace
  <2>2. /\ Changed(arr, arr', idx, RemoveAt(arr[idx], p)) /\ cap' = cap
        /\ size' = size - 1 /\ failures' = failures
    BY <1>3 DEF dctremove, Changed
  <2>. HIDE DEF idx, p
  <2>3. /\ Table(arr', cap) /\ Placed(arr', cap)
        /\ Len(Upto(arr', cap)) \in Nat /\ Len(Upto(arr, cap)) = Len(Upto(arr', cap)) + 1
        /\ \A m : m \in NodesIn(arr', cap) <=> m \in NodesIn(arr, cap) /\ m # arr[idx][p]
    BY <1>1, <2>1, <2>2, NodeRemoved DEF Core
  <2>4. size' \in Nat /\ size' = Len(Upto(arr', cap)) /\ size' <= cap + failures'
    BY <2>2, <2>3 DEF Core, LoadBounded, DictAssumption
  <2>5. ASSUME NEW m \in NodesIn(arr, cap) PROVE m # arr[idx][p] <=> m.key # key
    <3>1. arr[idx][p] \in NodesIn(arr, cap)
      BY <1>1, <2>1, NodesInDef
    <3>. QED  BY <2>1, <3>1, OneNode DEF Core
  <2>. QED  BY <2>2, <2>3, <2>4, <2>5 DEF Core, Drops, LoadBounded
<1>. QED  BY <1>2, <1>3
-----------------------------------------------------------------------------
(* The map that a table stands for.                                         *)

KeysIn(a, c) == UNION {{a[i][j].key : j \in 1 .. Len(a[i])} : i \in 0 .. c - 1}

EntriesIn(a, c) ==
  [k \in KeysIn(a, c) |-> LET chain == a[Idx(k, c)] IN chain[First(Found(chain, k))].val]

LEMMA KeysInDef ==
  ASSUME NEW a, NEW c, NEW k
  PROVE  k \in KeysIn(a, c) <=> \E m \in NodesIn(a, c) : m.key = k
BY DEF KeysIn, NodesIn

\* A key of the table is found, and what is found is its node.
LEMMA FindsNode ==
  ASSUME NEW a, NEW c, Placed(a, c), NEW m \in NodesIn(a, c)
  PROVE  LET chain == a[Idx(m.key, c)]
         IN  Found(chain, m.key) # {} /\ chain[First(Found(chain, m.key))] = m
<1>. DEFINE idx   == Idx(m.key, c)
            chain == a[idx]
            p     == First(Found(chain, m.key))
<1>1. PICK i \in 0 .. c - 1 : \E j \in 1 .. Len(a[i]) : a[i][j] = m
  BY NodesInDef
<1>2. i = idx
  BY <1>1 DEF Placed
<1>3. Found(chain, m.key) # {}
  BY <1>1, <1>2 DEF Found
<1>. HIDE DEF idx
<1>4. p \in 1 .. Len(chain) /\ chain[p].key = m.key
  BY <1>3, FirstPlace
<1>. HIDE DEF p
<1>5. chain[p] \in NodesIn(a, c)
  BY <1>2, <1>4, NodesInDef
<1>6. chain[p] = m
  BY <1>4, <1>5, OneNode
<1>. QED  BY <1>3, <1>6 DEF p, idx

LEMMA EntryOf ==
  ASSUME NEW a, NEW c, Placed(a, c), NEW m \in NodesIn(a, c)
  PROVE  m.key \in DOMAIN EntriesIn(a, c) /\ EntriesIn(a, c)[m.key] = m.val
<1>1. m.key \in KeysIn(a, c)
  BY KeysInDef
<1>. QED  BY <1>1, FindsNode DEF EntriesIn

HasKey(a, c, k) == \E m \in NodesIn(a, c) : m.key = k

LEMMA EntryKeys ==
  ASSUME NEW a, NEW c, NEW k
  PROVE  k \in DOMAIN EntriesIn(a, c) <=> HasKey(a, c, k)
BY KeysInDef DEF EntriesIn, HasKey

IsFun(f) == f = [k \in DOMAIN f |-> f[k]]

\* A function with these entries is the map of the table.
LEMMA EntriesAre ==
  ASSUME NEW a, NEW c, Placed(a, c), NEW f, IsFun(f),
         \A k : k \in DOMAIN f <=> HasKey(a, c, k),
         \A m \in NodesIn(a, c) : f[m.key] = m.val
  PROVE  EntriesIn(a, c) = f
<1>. DEFINE e == EntriesIn(a, c)
<1>1. IsFun(e)
  BY DEF IsFun, EntriesIn
<1>2. \A k : k \in DOMAIN e <=> HasKey(a, c, k)
  BY EntryKeys
<1>3. \A m \in NodesIn(a, c) : e[m.key] = m.val
  BY EntryOf
<1>. HIDE DEF e
<1>4. DOMAIN e = DOMAIN f
  BY <1>2
<1>5. ASSUME NEW k \in DOMAIN f PROVE e[k] = f[k]
  <2>1. PICK m \in NodesIn(a, c) : m.key = k
    BY DEF HasKey
  <2>. QED  BY <2>1, <1>3
<1>6. e = f
  BY <1>1, <1>4, <1>5 DEF IsFun
<1>. QED  BY <1>6 DEF e

\* What a change of the nodes does to the map.
NodesPut(a, c, b, d, k, v) ==
  \A m : m \in NodesIn(b, d)
           <=> (m \in NodesIn(a, c) /\ m.key # k) \/ m = [key |-> k, val |-> v]
NodesDropped(a, c, b, d, k) ==
  \A m : m \in NodesIn(b, d) <=> m \in NodesIn(a, c) /\ m.key # k

LEMMA EntriesKept ==
  ASSUME NEW a, NEW c, Placed(a, c), NEW b, NEW d, Placed(b, d),
         \A m : m \in NodesIn(b, d) <=> m \in NodesIn(a, c)
  PROVE  EntriesIn(b, d) = EntriesIn(a, c)
<1>. DEFINE f == EntriesIn(a, c)
<1>1. IsFun(f)
  BY DEF IsFun, EntriesIn
<1>2. \A k : k \in DOMAIN f <=> HasKey(b, d, k)
  BY EntryKeys DEF HasKey
<1>3. \A m \in NodesIn(b, d) : f[m.key] = m.val
  BY EntryOf
<1>. HIDE DEF f
<1>4. EntriesIn(b, d) = f
  BY <1>1, <1>2, <1>3, EntriesAre
<1>. QED  BY <1>4 DEF f

\* Map with one entry more, or less.
With(e, k, v) == [x \in DOMAIN e \cup {k} |-> IF x = k THEN v ELSE e[x]]
Without(e, k) == [x \in DOMAIN e \ {k} |-> e[x]]

LEMMA EntriesPut ==
  ASSUME NEW a, NEW c, Placed(a, c), NEW b, NEW d, Placed(b, d), NEW k, NEW v,
         NodesPut(a, c, b, d, k, v)
  PROVE  EntriesIn(b, d) = With(EntriesIn(a, c), k, v)
<1>. DEFINE e == EntriesIn(a, c)
            n == [key |-> k, val |-> v]
            f == [x \in DOMAIN e \cup {k} |-> IF x = k THEN v ELSE e[x]]
<1>1. n \in NodesIn(b, d) /\ n.key = k /\ n.val = v
  BY DEF NodesPut
<1>. HIDE DEF n
<1>2. \A x : x \in DOMAIN e <=> HasKey(a, c, x)
  BY EntryKeys
<1>3. \A m \in NodesIn(a, c) : e[m.key] = m.val
  BY EntryOf
<1>. HIDE DEF e
<1>4. IsFun(f) /\ DOMAIN f = DOMAIN e \cup {k}
  BY DEF IsFun
<1>5. \A x : x \in DOMAIN f <=> HasKey(b, d, x)
  BY <1>1, <1>2, <1>4 DEF HasKey, NodesPut, n
<1>6. ASSUME NEW m \in NodesIn(b, d) PROVE f[m.key] = m.val
  <2>1. CASE m = n
    BY <1>1, <2>1
  <2>2. CASE m # n
    <3>1. m \in NodesIn(a, c) /\ m.key # k
      BY <2>2 DEF NodesPut, n
    <3>2. m.key \in DOMAIN e
      BY <1>2, <3>1 DEF HasKey
    <3>. QED  BY <1>3, <3>1, <3>2
  <2>. QED  BY <2>1, <2>2
<1>. HIDE DEF f
<1>7. EntriesIn(b, d) = f
  BY <1>4, <1>5, <1>6, EntriesAre
<1>. QED  BY <1>7 DEF f, e, With

LEMMA EntriesDropped ==
  ASSUME NEW a, NEW c, Placed(a, c), NEW b, NEW d, Placed(b, d), NEW k,
         NodesDropped(a, c, b, d, k)
  PROVE  EntriesIn(b, d) = Without(EntriesIn(a, c), k)
<1>. DEFINE e == EntriesIn(a, c)
            f == [x \in DOMAIN e \ {k} |-> e[x]]
<1>1. \A x : x \in DOMAIN e <=> HasKey(a, c, x)
  BY EntryKeys
<1>2. \A m \in NodesIn(a, c) : e[m.key] = m.val
  BY EntryOf
<1>. HIDE DEF e
<1>3. IsFun(f) /\ DOMAIN f = DOMAIN e \ {k}
  BY DEF IsFun
<1>4. \A x : x \in DOMAIN f <=> HasKey(b, d, x)
  BY <1>1, <1>3 DEF HasKey, NodesDropped
<1>5. ASSUME NEW m \in NodesIn(b, d) PROVE f[m.key] = m.val
  <2>1. m \in NodesIn(a, c) /\ m.key # k
    BY DEF NodesDropped
  <2>2. m.key \in DOMAIN e
    BY <1>1, <2>1 DEF HasKey
  <2>. QED  BY <1>2, <2>1, <2>2
<1>. HIDE DEF f
<1>6. EntriesIn(b, d) = f
  BY <1>3, <1>4, <1>5, EntriesAre
<1>. QED  BY <1>6 DEF f, e, Without

\* A table without nodes is the empty map.
LEMMA EntriesNone ==
  ASSUME NEW a, NEW c, \A m : m \notin NodesIn(a, c)
  PROVE  EntriesIn(a, c) = <<>>
<1>1. KeysIn(a, c) = {}
  BY KeysInDef
<1>. QED  BY <1>1 DEF EntriesIn

\* What Abstract makes of the variables.
TheMap == EntriesIn(arr, cap)

\* dctget and dctremove return what the map has.
LEMMA LookupFinds ==
  ASSUME DictAssumption, Core, cap # 0, NEW key \in Keys
  PROVE  /\ Lookup(key) = IF key \in DOMAIN TheMap THEN TheMap[key] ELSE NULL
         /\ Found(arr[Idx(key, cap)], key) = {} <=> key \notin DOMAIN TheMap
<1>. DEFINE chain == arr[Idx(key, cap)]
            S     == Found(chain, key)
<1>0. Placed(arr, cap)
  BY DEF Core
<1>1. CASE S = {}
  <2>1. \A m \in NodesIn(arr, cap) : m.key # key
    BY <1>0, <1>1, NotFound
  <2>2. key \notin DOMAIN TheMap
    BY <2>1, EntryKeys DEF TheMap, HasKey
  <2>. QED  BY <1>1, <2>2 DEF Lookup
<1>2. CASE S # {}
  <2>1. CASE key \in DOMAIN TheMap
    <3>1. PICK m \in NodesIn(arr, cap) : m.key = key
      BY <2>1, EntryKeys DEF TheMap, HasKey
    <3>2. chain[First(S)] = m /\ S # {}
      BY <1>0, <3>1, FindsNode
    <3>3. TheMap[key] = m.val
      BY <1>0, <3>1, EntryOf DEF TheMap
    <3>4. Lookup(key) = chain[First(S)].val
      BY <3>2 DEF Lookup
    <3>. QED  BY <2>1, <3>2, <3>3, <3>4
  <2>2. CASE key \notin DOMAIN TheMap
    <3>1. Idx(key, cap) \in 0 .. cap - 1
      BY IdxType DEF Core
    <3>2. First(S) \in 1 .. Len(chain) /\ chain[First(S)].key = key
      BY <1>2, FirstPlace
    <3>3. chain[First(S)] \in NodesIn(arr, cap)
      BY <3>1, <3>2, NodesInDef
    <3>. QED  BY <2>2, <3>2, <3>3, EntryKeys DEF TheMap, HasKey
  <2>. QED  BY <2>1, <2>2
<1>. QED  BY <1>1, <1>2

\* The keys that dctkeys lists are the keys of the map, each once.
TheKeys == [j \in 1 .. Len(AllNodes) |-> AllNodes[j].key]

LEMMA KeysListed ==
  ASSUME Core
  PROVE  /\ TheKeys \in Seq(Keys)
         /\ Abstract!Lists(TheKeys, DOMAIN TheMap)
         /\ size # 0 => TheMap # <<>>
<1>. DEFINE u == AllNodes
<1>1. u = Upto(arr, cap)
  BY DEF AllNodes, Upto
<1>. HIDE DEF u
<1>2. u \in Seq(Nodes) /\ Len(u) \in Nat
  <2>1. Upto(arr, cap) \in Seq(Nodes)
    BY UptoStep DEF Core
  <2>. QED  BY <1>1, <2>1
<1>3. \A j \in 1 .. Len(u) : u[j].key \in Keys /\ u[j] \in NodesIn(arr, cap)
  <2>1. \A j \in 1 .. Len(u) : u[j].key \in Keys
    <3>1. \A j \in 1 .. Len(u) : u[j] \in Nodes
      BY <1>2
    <3>2. \A m \in Nodes : m.key \in Keys
      BY DEF Nodes
    <3>. QED  BY <3>1, <3>2
  <2>2. \A j \in 1 .. Len(u) : u[j] \in NodesIn(arr, cap)
    BY <1>1, UptoAll DEF Core
  <2>. QED  BY <2>1, <2>2
<1>4. TheKeys = [j \in 1 .. Len(u) |-> u[j].key]
  BY DEF TheKeys, u
<1>5. TheKeys \in Seq(Keys)
  BY <1>2, <1>3, <1>4
<1>6. {TheKeys[j] : j \in DOMAIN TheKeys} = DOMAIN TheMap
  <2>1. ASSUME NEW j \in 1 .. Len(u) PROVE u[j].key \in DOMAIN TheMap
    BY <1>3, EntryKeys DEF TheMap, HasKey
  <2>2. ASSUME NEW k \in DOMAIN TheMap PROVE \E j \in 1 .. Len(u) : u[j].key = k
    <3>1. PICK m \in NodesIn(arr, cap) : m.key = k
      BY <2>2, EntryKeys DEF TheMap, HasKey
    <3>2. \E j \in 1 .. Len(u) : u[j] = m
      BY <1>1, <3>1, UptoAll DEF Core
    <3>. QED  BY <3>1, <3>2
  <2>. QED  BY <1>4, <2>1, <2>2
<1>7. \A i, j \in DOMAIN TheKeys : TheKeys[i] = TheKeys[j] => i = j
  <2>1. \A i, j \in 1 .. Len(u) : u[i].key = u[j].key => i = j
    BY <1>1, UptoKeys DEF Core
  <2>. QED  BY <1>4, <2>1
<1>8. size # 0 => TheMap # <<>>
  <2>1. SUFFICES ASSUME size # 0 PROVE DOMAIN TheMap # {}
    OBVIOUS
  <2>2. 1 \in 1 .. Len(u)
    BY <1>1, <1>2, <2>1 DEF Core
  <2>. QED  BY <1>3, <2>2, EntryKeys DEF TheMap, HasKey
<1>. QED  BY <1>5, <1>6, <1>7, <1>8 DEF Abstract!Lists

-----------------------------------------------------------------------------
(* The inductive invariant, and every step of the map.                      *)

\* What a call returns.
ResultOK == result \in Vals \cup {NULL} \cup Seq(Keys)

IInv == Core /\ ResultOK

LEMMA IInvIs == IInv <=> TypeOK /\ WellPlaced /\ LoadBounded
BY CoreIs DEF IInv, ResultOK, TypeOK

\* What the map has for a key is a value.
LEMMA MapType ==
  ASSUME Core, NEW key \in DOMAIN TheMap
  PROVE  TheMap[key] \in Vals
<1>1. PICK m \in NodesIn(arr, cap) : m.key = key
  BY EntryKeys DEF TheMap, HasKey
<1>2. TheMap[key] = m.val
  BY <1>1, EntryOf DEF TheMap, Core
<1>. QED  BY <1>2, NodesInType DEF Core

\* What each call does, to the invariant and to the map.
LEMMA CreateStep ==
  ASSUME DictAssumption, Core, dctcreate
  PROVE  IInv' /\ Abstract!Create
<1>1. Core' /\ Keeps
  BY CreateTable
<1>2. TheMap' = TheMap
  BY <1>1, EntriesKept DEF Keeps, TheMap, Core
<1>3. TheMap = <<>>
  <2>1. cap = 0
    BY DEF dctcreate
  <2>2. \A m : m \notin NodesIn(arr, cap)
    BY <2>1, NodesInDef
  <2>. QED  BY <2>2, EntriesNone DEF TheMap
<1>. QED
  BY <1>1, <1>2, <1>3
  DEF dctcreate, Abstract!Create, TheMap, EntriesIn, KeysIn, InUse, IInv, ResultOK

LEMMA DestroyStep ==
  ASSUME DictAssumption, Core, dctdestroy
  PROVE  IInv' /\ Abstract!Destroy
<1>1. Core' /\ \A m : m \notin NodesIn(arr, cap)'
  BY DestroyTable
<1>2. TheMap' = <<>>
  BY <1>1, EntriesNone DEF TheMap
<1>. QED
  BY <1>1, <1>2
  DEF dctdestroy, Abstract!Destroy, TheMap, EntriesIn, KeysIn, InUse, IInv, ResultOK

LEMMA InsertStep ==
  ASSUME DictAssumption, Core, cap # 0, NEW key \in Keys, NEW val \in Vals, dctinsert(key, val)
  PROVE  IInv' /\ Abstract!Insert(key, val)
<1>1. call' = <<"insert", key, val>> /\ result' = NULL
  BY DEF dctinsert
<1>2. CASE Overwrite(key, val) \/ Add(key, val) \/ AddWithoutGrowing(key, val)
  <2>1. Core' /\ Puts(key, val)
    BY <1>2, OverwriteTable, AddTable, AddWithoutGrowingTable
  <2>2. TheMap' = With(TheMap, key, val)
    <3>1. NodesPut(arr, cap, arr', cap', key, val)
      BY <2>1 DEF Puts, NodesPut
    <3>. QED  BY <2>1, <3>1, EntriesPut DEF TheMap, Core
  <2>. QED
    BY <1>1, <2>1, <2>2
    DEF Abstract!Insert, With, TheMap, EntriesIn, KeysIn, InUse, IInv, ResultOK
<1>3. CASE AddNothing(key)
  <2>1. Core' /\ Keeps
    BY <1>3, AddNothingTable
  <2>2. TheMap' = TheMap
    BY <2>1, EntriesKept DEF Keeps, TheMap, Core
  <2>3. key \notin DOMAIN TheMap
    BY <1>3, LookupFinds DEF AddNothing
  <2>. QED
    BY <1>1, <2>1, <2>2, <2>3
    DEF Abstract!Insert, TheMap, EntriesIn, KeysIn, InUse, IInv, ResultOK
<1>. QED  BY <1>2, <1>3 DEF dctinsert

LEMMA GetStep ==
  ASSUME DictAssumption, Core, cap # 0, NEW key \in Keys, dctget(key)
  PROVE  IInv' /\ Abstract!Get(key)
<1>1. UNCHANGED <<cap, arr, size, failures>> /\ result' = Lookup(key) /\ call' = <<"get", key>>
  BY DEF dctget
<1>2. Core' /\ TheMap' = TheMap
  BY <1>1 DEF Core, LoadBounded, TheMap
<1>3. Lookup(key) = IF key \in DOMAIN TheMap THEN TheMap[key] ELSE NULL
  BY LookupFinds
<1>4. ResultOK'
  <2>1. ASSUME key \in DOMAIN TheMap PROVE TheMap[key] \in Vals
    BY <2>1, MapType
  <2>. QED  BY <1>1, <1>3, <2>1 DEF ResultOK
<1>. QED
  BY <1>1, <1>2, <1>3, <1>4 DEF Abstract!Get, TheMap, EntriesIn, KeysIn, InUse, IInv

LEMMA RemoveStep ==
  ASSUME DictAssumption, Core, cap # 0, NEW key \in Keys, dctremove(key)
  PROVE  IInv' /\ Abstract!Remove(key)
<1>1. Core' /\ Drops(key)
  BY RemoveTable
<1>2. TheMap' = Without(TheMap, key)
  <2>1. NodesDropped(arr, cap, arr', cap', key)
    BY <1>1 DEF Drops, NodesDropped
  <2>. QED  BY <1>1, <2>1, EntriesDropped DEF TheMap, Core
<1>3. result' = Lookup(key) /\ call' = <<"remove", key>>
  BY DEF dctremove, Lookup
<1>4. Lookup(key) = IF key \in DOMAIN TheMap THEN TheMap[key] ELSE NULL
  BY LookupFinds
<1>5. ResultOK'
  <2>1. ASSUME key \in DOMAIN TheMap PROVE TheMap[key] \in Vals
    BY <2>1, MapType
  <2>. QED  BY <1>3, <1>4, <2>1 DEF ResultOK
<1>. QED
  BY <1>1, <1>2, <1>3, <1>4, <1>5
  DEF Abstract!Remove, Without, TheMap, EntriesIn, KeysIn, InUse, IInv

LEMMA KeysStep ==
  ASSUME DictAssumption, Core, dctkeys
  PROVE  IInv' /\ Abstract!Enumerate
<1>1. UNCHANGED <<cap, arr, size>> /\ call' = <<"keys">>
  BY DEF dctkeys
<1>2. Core' /\ TheMap' = TheMap
  <2>1. (Fails \/ Succeeds) /\ failures \in 0 .. MaxFailures
    BY DEF dctkeys, Core
  <2>2. failures' \in 0 .. MaxFailures /\ failures' >= failures /\ failures \in Nat
    BY <2>1, FailuresType DEF DictAssumption
  <2>. QED  BY <1>1, <2>2 DEF Core, LoadBounded, TheMap
<1>3. result' = NULL \/ (size # 0 /\ result' = TheKeys)
  BY DEF dctkeys, TheKeys
<1>4. ResultOK' /\ (result' = NULL \/ (TheMap # <<>> /\ Abstract!Lists(result', DOMAIN TheMap)))
  BY <1>3, KeysListed DEF ResultOK
<1>. QED
  BY <1>1, <1>2, <1>4
  DEF Abstract!Enumerate, TheMap, EntriesIn, KeysIn, InUse, IInv

LEMMA IInvInit == ASSUME DictAssumption, Init PROVE IInv /\ Abstract!Init
<1>1. arr = [i \in 0 .. 0 - 1 |-> <<>>] /\ cap = 0 /\ size = 0 /\ failures = 0
      /\ call = NULL /\ result = NULL
  BY DEF Init
<1>2. Table(arr, 0) /\ Placed(arr, 0) /\ Upto(arr, 0) = <<>> /\ NodesIn(arr, 0) = {}
  BY <1>1, EmptyTable
<1>3. TheMap = <<>>
  BY <1>1, <1>2, EntriesNone DEF TheMap
<1>4. Len(Upto(arr, 0)) = 0
  BY <1>2
<1>. QED
  BY <1>1, <1>2, <1>3, <1>4
  DEF IInv, Core, ResultOK, LoadBounded, DictAssumption, Abstract!Init, TheMap, EntriesIn,
      KeysIn, InUse

LEMMA IInvCalls ==
  ASSUME DictAssumption, IInv, NEW keys, keys \subseteq Keys, NEW vals, vals \subseteq Vals,
         Calls(keys, vals)
  PROVE  IInv' /\ Abstract!Next
<1>1. Core
  BY DEF IInv
<1>2. CASE dctcreate
  BY <1>1, <1>2, CreateStep DEF Abstract!Next
<1>3. CASE dctdestroy
  BY <1>1, <1>3, DestroyStep DEF Abstract!Next
<1>4. CASE cap # 0 /\ dctkeys
  BY <1>1, <1>4, KeysStep DEF Abstract!Next
<1>5. ASSUME cap # 0, NEW k \in keys, dctget(k) PROVE IInv' /\ Abstract!Next
  BY <1>1, <1>5, GetStep DEF Abstract!Next
<1>6. ASSUME cap # 0, NEW k \in keys, dctremove(k) PROVE IInv' /\ Abstract!Next
  BY <1>1, <1>6, RemoveStep DEF Abstract!Next
<1>7. ASSUME cap # 0, NEW k \in keys, NEW v \in vals, dctinsert(k, v)
      PROVE  IInv' /\ Abstract!Next
  BY <1>1, <1>7, InsertStep DEF Abstract!Next
<1>. QED  BY <1>2, <1>3, <1>4, <1>5, <1>6, <1>7 DEF Calls

LEMMA IInvStutters ==
  ASSUME IInv, UNCHANGED vars
  PROVE  IInv' /\ UNCHANGED Abstract!vars
BY DEF vars, IInv, Core, ResultOK, LoadBounded, Abstract!vars, InUse

LEMMA Inductive == ASSUME DictAssumption PROVE Spec => []IInv
<1>1. Init => IInv
  BY IInvInit
<1>2. IInv /\ [Next]_vars => IInv'
  BY IInvCalls, IInvStutters DEF Next
<1>. QED  BY <1>1, <1>2, PTL DEF Spec

-----------------------------------------------------------------------------
(* What a program that uses the dictionary relies on.                       *)

\* A failed allocation of its own, or none, does not touch the dictionary.
LEMMA OnlyMemory ==
  ASSUME DictAssumption, IInv, Fails \/ Succeeds, UNCHANGED <<cap, arr, size, call, result>>
  PROVE  IInv' /\ UNCHANGED Abstract!vars
<1>1. failures' \in 0 .. MaxFailures /\ failures' >= failures /\ failures \in Nat
  BY FailuresType DEF DictAssumption, IInv, Core
<1>2. Core' /\ ResultOK'
  BY <1>1 DEF IInv, Core, ResultOK, LoadBounded
<1>. QED  BY <1>2 DEF IInv, Abstract!vars, InUse

\* A key that is not there has one node after its insertion, or memory was
\* short, which the caller cannot tell, and nothing has changed.
LEMMA InsertsNew ==
  ASSUME DictAssumption, Core, cap # 0, NEW key \in Keys, NEW val \in Vals,
         Lookup(key) = NULL, dctinsert(key, val)
  PROVE  /\ cap' # 0
         /\ failures \in Nat /\ failures' \in Nat /\ failures' >= failures
         /\ \/ \A m : m \in NodesIn(arr, cap)'
                        <=> m \in NodesIn(arr, cap) \/ m = [key |-> key, val |-> val]
            \/ failures' > failures /\ Keeps
<1>1. key \notin DOMAIN TheMap
  <2>1. key \in DOMAIN TheMap => TheMap[key] \in Vals
    BY MapType
  <2>. QED  BY <2>1, LookupFinds DEF DictAssumption
<1>2. \A m \in NodesIn(arr, cap) : m.key # key
  BY <1>1, EntryKeys DEF TheMap, HasKey
<1>3. failures \in 0 .. MaxFailures /\ failures \in Nat /\ cap \in Nat
  BY DEF Core, DictAssumption
<1>4. /\ Fails => failures' \in Nat /\ failures' = failures + 1
      /\ Succeeds => failures' = failures
  BY <1>3, FailuresType DEF DictAssumption
<1>5. ~Overwrite(key, val)
  BY <1>1, LookupFinds DEF Overwrite
<1>6. CASE Add(key, val) \/ AddWithoutGrowing(key, val)
  <2>1. Puts(key, val)
    BY <1>6, AddTable, AddWithoutGrowingTable
  <2>2. cap' # 0 /\ (Fails \/ Succeeds)
    BY <1>3, <1>6 DEF Add, AddWithoutGrowing
  <2>3. \A m : m \in NodesIn(arr, cap)'
                 <=> m \in NodesIn(arr, cap) \/ m = [key |-> key, val |-> val]
    BY <1>2, <2>1 DEF Puts
  <2>. QED  BY <1>3, <1>4, <2>2, <2>3
<1>7. CASE AddNothing(key)
  <2>1. Keeps
    BY <1>7, AddNothingTable
  <2>2. cap' # 0 /\ Fails
    BY <1>3, <1>7 DEF AddNothing
  <2>. QED  BY <1>3, <1>4, <2>1, <2>2
<1>. QED  BY <1>5, <1>6, <1>7 DEF dctinsert

\* A new dictionary is empty, and the array of keys has them all, unless there
\* are none or memory is short.
LEMMA CreatesEmpty ==
  ASSUME DictAssumption, Core, dctcreate
  PROVE  /\ \A m : m \notin NodesIn(arr, cap)'
         /\ cap' = 0 \/ failures' = failures
<1>1. \A m : m \notin NodesIn(arr, cap)
  BY NodesInDef DEF dctcreate
<1>2. Keeps
  BY CreateTable
<1>3. cap = 0
  BY DEF dctcreate
<1>. QED  BY <1>1, <1>2, <1>3 DEF Keeps, dctcreate, Succeeds

LEMMA ListsAll ==
  ASSUME DictAssumption, Core, dctkeys
  PROVE  /\ UNCHANGED <<cap, arr, size>>
         /\ failures \in Nat /\ failures' \in Nat /\ failures' >= failures
         /\ \/ result' = NULL /\ (size = 0 \/ failures' > 0)
            \/ result' = TheKeys /\ TheKeys # NULL
<1>1. failures \in 0 .. MaxFailures /\ failures \in Nat
  BY DEF Core, DictAssumption
<1>2. /\ Fails => failures' \in Nat /\ failures' = failures + 1
      /\ Succeeds => failures' = failures
  BY <1>1, FailuresType DEF DictAssumption
<1>3. TheKeys # NULL
  BY KeysListed DEF DictAssumption
<1>. QED  BY <1>1, <1>2, <1>3 DEF dctkeys, TheKeys

\* The values of the dictionary are those found by looking up the listed keys.
LEMMA ValuesListed ==
  ASSUME DictAssumption, Core, cap # 0, NEW v
  PROVE  (\E m \in NodesIn(arr, cap) : m.val = v)
           <=> \E j \in DOMAIN TheKeys : Lookup(TheKeys[j]) = v
<1>1. {TheKeys[j] : j \in DOMAIN TheKeys} = DOMAIN TheMap
  BY KeysListed DEF Abstract!Lists
<1>2. \A k : k \in DOMAIN TheMap <=> HasKey(arr, cap, k)
  BY EntryKeys DEF TheMap
<1>3. ASSUME NEW m \in NodesIn(arr, cap)
      PROVE  m.key \in DOMAIN TheMap /\ Lookup(m.key) = m.val
  <2>1. m.key \in Keys
    BY NodesInType DEF Core
  <2>2. m.key \in DOMAIN TheMap /\ TheMap[m.key] = m.val
    BY EntryOf DEF TheMap, Core
  <2>. QED  BY <2>1, <2>2, LookupFinds
<1>. QED  BY <1>1, <1>2, <1>3 DEF HasKey

\* An empty dictionary has no nodes.
LEMMA EmptyHasNone ==
  ASSUME Core, size = 0
  PROVE  \A m : m \notin NodesIn(arr, cap)
<1>1. Len(Upto(arr, cap)) = 0
  BY DEF Core
<1>. QED  BY <1>1, UptoAll DEF Core

\* The number of values, if no two nodes share one.
LEMMA ValuesCounted ==
  ASSUME Core, \A m, n \in NodesIn(arr, cap) : m.val = n.val => m = n
  PROVE  Cardinality({m.val : m \in NodesIn(arr, cap)}) = size
<1>. DEFINE u == Upto(arr, cap)
            V == {m.val : m \in NodesIn(arr, cap)}
            f == [j \in 1 .. Len(u) |-> u[j].val]
<1>1. u \in Seq(Nodes) /\ Len(u) \in Nat /\ size = Len(u)
  <2>1. Upto(arr, cap) \in Seq(Nodes)
    BY UptoStep DEF Core
  <2>. QED  BY <2>1 DEF Core
<1>2. \A x : x \in NodesIn(arr, cap) <=> \E k \in 1 .. Len(u) : u[k] = x
  BY UptoAll DEF Core
<1>3. \A k, l \in 1 .. Len(u) : u[k].key = u[l].key => k = l
  BY UptoKeys DEF Core
<1>. HIDE DEF u
<1>4. f \in Bijection(1 .. Len(u), V)
  <2>1. f \in [1 .. Len(u) -> V]
    BY <1>2
  <2>2. ASSUME NEW k \in 1 .. Len(u), NEW l \in 1 .. Len(u), f[k] = f[l] PROVE k = l
    <3>1. u[k] = u[l]
      BY <1>2, <2>2
    <3>. QED  BY <1>3, <3>1
  <2>3. \A v \in V : \E k \in 1 .. Len(u) : f[k] = v
    BY <1>2
  <2>. QED  BY <2>1, <2>2, <2>3 DEF Bijection, Injection, Surjection, IsInjective
<1>. HIDE DEF f, V
<1>5. ExistsBijection(1 .. Len(u), V)
  BY <1>4 DEF ExistsBijection
<1>6. Cardinality(V) = Len(u)
  BY <1>1, <1>5, FS_CountingElements
<1>. QED  BY <1>1, <1>6 DEF V

-----------------------------------------------------------------------------
(* The theorems.                                                            *)

\* Every variable has its type: at any size of the table, with any hash codes.
THEOREM DictTypes == ASSUME DictAssumption PROVE Spec => []TypeOK
<1>1. IInv => TypeOK
  BY IInvIs
<1>. QED  BY <1>1, Inductive, PTL

\* Every node is in the chain where its key is looked up, no key has two, and
\* `size' counts them, through overwriting, removal, growth and its failure.
THEOREM DictWellPlaced == ASSUME DictAssumption PROVE Spec => []WellPlaced
<1>1. IInv => WellPlaced
  BY IInvIs
<1>. QED  BY <1>1, Inductive, PTL

\* There are no more entries than chains and failed allocations.
THEOREM DictLoadBounded == ASSUME DictAssumption PROVE Spec => []LoadBounded
<1>1. IInv => LoadBounded
  BY IInvIs
<1>. QED  BY <1>1, Inductive, PTL

\* The dictionary of dict.c implements the map of dict.h, step by step.
THEOREM DictIsMap == ASSUME DictAssumption PROVE Spec => IsMap
<1>1. Init => Abstract!Init
  BY IInvInit
<1>2. IInv /\ [Next]_vars => [Abstract!Next]_(Abstract!vars)
  BY IInvCalls, IInvStutters DEF Next
<1>. QED  BY <1>1, <1>2, Inductive, PTL DEF Spec, IsMap, Abstract!Spec
=============================================================================
