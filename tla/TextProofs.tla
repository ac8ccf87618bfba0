----------------------------- MODULE TextProofs -----------------------------
(***************************************************************************)
(* Proofs about Text, for any characters, files and tables, any calls of the *)
(* tests and any number of failed allocations: line ends are converted, the  *)
(* histogram is drawn, the most frequent words are printed, the counts freed, *)
(* and the dictionary is a map.                                              *)
(***************************************************************************)
EXTENDS Text, FiniteSetTheorems, SequenceTheorems, TLAPS

\* The facts about the dictionary, for the dictionary of freq and of the tests.
P == INSTANCE DictProofs

-----------------------------------------------------------------------------
(* Text has the module Dict three times, with the same variables: as D for  *)
(* dicttests, as F!D in freq, and as P with its facts.  They are the same.   *)

LEMMA SameFlattenSeq ==
  \A s : D!FlattenSeq(s) = P!FlattenSeq(s) /\ F!D!FlattenSeq(s) = P!FlattenSeq(s)
BY DEF D!FlattenSeq, F!D!FlattenSeq, P!FlattenSeq

LEMMA SameCardinality ==
  \A S : /\ P!Cardinality(S) = Cardinality(S) /\ F!Cardinality(S) = Cardinality(S)
         /\ H!Cardinality(S) = Cardinality(S)
BY DEF P!Cardinality, F!Cardinality, H!Cardinality, Cardinality

LEMMA SameRemoveAt == \A s, i : D!RemoveAt(s, i) = P!RemoveAt(s, i)
BY DEF D!RemoveAt, P!RemoveAt

LEMMA SameDcthash ==
  \A k : D!dcthash(k) = P!dcthash(k) /\ F!D!dcthash(k) = P!dcthash(k)
BY DEF D!dcthash, F!D!dcthash, P!dcthash

LEMMA SameIdx ==
  \A k, c : D!Idx(k, c) = P!Idx(k, c) /\ F!D!Idx(k, c) = P!Idx(k, c)
BY SameDcthash DEF D!Idx, F!D!Idx, P!Idx

LEMMA SameFound ==
  \A s, k : D!Found(s, k) = P!Found(s, k) /\ F!D!Found(s, k) = P!Found(s, k)
BY DEF D!Found, F!D!Found, P!Found

LEMMA SameFirst ==
  \A S : D!First(S) = P!First(S) /\ F!D!First(S) = P!First(S)
BY DEF D!First, F!D!First, P!First

LEMMA SameAllNodes ==
  D!AllNodes = P!AllNodes /\ F!D!AllNodes = P!AllNodes
BY SameFlattenSeq DEF D!AllNodes, F!D!AllNodes, P!AllNodes

LEMMA SameRehashed ==
  \A c : D!Rehashed(c) = P!Rehashed(c) /\ F!D!Rehashed(c) = P!Rehashed(c)
<1>1. \A c : D!Rehashed(c) = P!Rehashed(c)
  BY SameAllNodes, SameIdx, ZenonT(60) DEF D!Rehashed, P!Rehashed
<1>2. \A c : F!D!Rehashed(c) = P!Rehashed(c)
  BY SameAllNodes, SameIdx, ZenonT(60) DEF F!D!Rehashed, P!Rehashed
<1>. QED  BY <1>1, <1>2

LEMMA SameFails ==
  (D!Fails <=> P!Fails) /\ (F!D!Fails <=> P!Fails)
BY DEF D!Fails, F!D!Fails, P!Fails

LEMMA SameSucceeds ==
  (D!Succeeds <=> P!Succeeds) /\ (F!D!Succeeds <=> P!Succeeds)
BY DEF D!Succeeds, F!D!Succeeds, P!Succeeds

LEMMA SameMustGrow ==
  (D!MustGrow <=> P!MustGrow) /\ (F!D!MustGrow <=> P!MustGrow)
BY DEF D!MustGrow, F!D!MustGrow, P!MustGrow

LEMMA SameDctcreate ==
  (D!dctcreate <=> P!dctcreate) /\ (F!D!dctcreate <=> P!dctcreate)
BY SameFails, SameSucceeds DEF D!dctcreate, F!D!dctcreate, P!dctcreate

LEMMA SameDctdestroy ==
  (D!dctdestroy <=> P!dctdestroy) /\ (F!D!dctdestroy <=> P!dctdestroy)
BY SameSucceeds DEF D!dctdestroy, F!D!dctdestroy, P!dctdestroy

LEMMA SameOverwrite ==
  \A k, v : (D!Overwrite(k, v) <=> P!Overwrite(k, v)) /\ (F!D!Overwrite(k, v) <=> P!Overwrite(k, v))
BY SameIdx, SameFound, SameFirst, SameSucceeds DEF D!Overwrite, F!D!Overwrite, P!Overwrite

LEMMA SamePrepend ==
  \A k, v, a, c : (D!Prepend(k, v, a, c) <=> P!Prepend(k, v, a, c)) /\ (F!D!Prepend(k, v, a, c) <=> P!Prepend(k, v, a, c))
BY SameIdx DEF D!Prepend, F!D!Prepend, P!Prepend

LEMMA SameAdd ==
  \A k, v : (D!Add(k, v) <=> P!Add(k, v)) /\ (F!D!Add(k, v) <=> P!Add(k, v))
BY SameFound, SameIdx, SameSucceeds, SameMustGrow, SameRehashed, SamePrepend DEF D!Add, F!D!Add, P!Add

LEMMA SameAddWithoutGrowing ==
  \A k, v : (D!AddWithoutGrowing(k, v) <=> P!AddWithoutGrowing(k, v)) /\ (F!D!AddWithoutGrowing(k, v) <=> P!AddWithoutGrowing(k, v))
BY SameFound, SameIdx, SameFails, SameMustGrow, SamePrepend DEF D!AddWithoutGrowing, F!D!AddWithoutGrowing, P!AddWithoutGrowing

LEMMA SameAddNothing ==
  \A k : (D!AddNothing(k) <=> P!AddNothing(k)) /\ (F!D!AddNothing(k) <=> P!AddNothing(k))
BY SameFound, SameIdx, SameFails, SameMustGrow, SameRehashed DEF D!AddNothing, F!D!AddNothing, P!AddNothing

LEMMA SameDctinsert ==
  \A k, v : (D!dctinsert(k, v) <=> P!dctinsert(k, v)) /\ (F!D!dctinsert(k, v) <=> P!dctinsert(k, v))
BY SameOverwrite, SameAdd, SameAddWithoutGrowing, SameAddNothing DEF D!dctinsert, F!D!dctinsert, P!dctinsert

LEMMA SameLookup ==
  \A k : D!Lookup(k) = P!Lookup(k) /\ F!D!Lookup(k) = P!Lookup(k)
BY SameIdx, SameFound, SameFirst DEF D!Lookup, F!D!Lookup, P!Lookup

LEMMA SameDctget == \A k : D!dctget(k) <=> P!dctget(k)
BY SameLookup DEF D!dctget, P!dctget

LEMMA SameDctremove == \A k : D!dctremove(k) <=> P!dctremove(k)
BY SameIdx, SameFound, SameFirst, SameRemoveAt DEF D!dctremove, P!dctremove

LEMMA SameDctkeys ==
  (D!dctkeys <=> P!dctkeys) /\ (F!D!dctkeys <=> P!dctkeys)
BY SameAllNodes, SameFails, SameSucceeds DEF D!dctkeys, F!D!dctkeys, P!dctkeys

LEMMA SameCalls == \A K, V : D!Calls(K, V) <=> P!Calls(K, V)
BY SameDctcreate, SameDctdestroy, SameDctget, SameDctremove, SameDctinsert, SameDctkeys DEF D!Calls, P!Calls

LEMMA SameProperties ==
  /\ D!DictAssumption <=> P!DictAssumption
  /\ D!Init <=> P!Init
  /\ D!TypeOK <=> P!TypeOK
  /\ D!WellPlaced <=> P!WellPlaced
  /\ D!LoadBounded <=> P!LoadBounded
<1>1. D!DictAssumption <=> P!DictAssumption
  BY SameDcthash DEF D!DictAssumption, P!DictAssumption
<1>2. D!WellPlaced <=> P!WellPlaced
  BY SameIdx, SameAllNodes DEF D!WellPlaced, P!WellPlaced
<1>. QED
  BY <1>1, <1>2
  DEF D!Init, P!Init, D!TypeOK, P!TypeOK, D!LoadBounded, P!LoadBounded, D!Nodes, P!Nodes

LEMMA SameMap ==
  /\ D!Abstract!Init <=> P!Abstract!Init
  /\ D!Abstract!Next <=> P!Abstract!Next
  /\ D!Abstract!vars = P!Abstract!vars
  /\ UNCHANGED P!Abstract!vars => UNCHANGED D!Abstract!vars
<1>1. D!InUse = P!InUse /\ D!InUse' = P!InUse'
  BY DEF D!InUse, P!InUse
<1>2. D!Abstract!Init <=> P!Abstract!Init
  BY <1>1, SameIdx, SameFound, SameFirst DEF D!Abstract!Init, P!Abstract!Init
<1>3. D!Abstract!vars = P!Abstract!vars
  BY <1>1, SameIdx, SameFound, SameFirst DEF D!Abstract!vars, P!Abstract!vars
<1>4. D!Abstract!Create <=> P!Abstract!Create
  BY <1>1, SameIdx, SameFound, SameFirst DEF D!Abstract!Create, P!Abstract!Create
<1>5. D!Abstract!Destroy <=> P!Abstract!Destroy
  BY <1>1, SameIdx, SameFound, SameFirst DEF D!Abstract!Destroy, P!Abstract!Destroy
<1>6. D!Abstract!Enumerate <=> P!Abstract!Enumerate
  BY <1>1, SameIdx, SameFound, SameFirst DEF D!Abstract!Enumerate, P!Abstract!Enumerate, D!Abstract!Lists, P!Abstract!Lists
<1>7. \A k : D!Abstract!Get(k) <=> P!Abstract!Get(k)
  BY <1>1, SameIdx, SameFound, SameFirst DEF D!Abstract!Get, P!Abstract!Get
<1>8. \A k : D!Abstract!Remove(k) <=> P!Abstract!Remove(k)
  BY <1>1, SameIdx, SameFound, SameFirst DEF D!Abstract!Remove, P!Abstract!Remove
<1>9. \A k, v : D!Abstract!Insert(k, v) <=> P!Abstract!Insert(k, v)
  BY <1>1, SameIdx, SameFound, SameFirst, ZenonT(60) DEF D!Abstract!Insert, P!Abstract!Insert
<1>10. D!Abstract!Next <=> P!Abstract!Next
  BY <1>4, <1>5, <1>6, <1>7, <1>8, <1>9 DEF D!Abstract!Next, P!Abstract!Next
<1>11. D!Abstract!vars' = P!Abstract!vars'
  BY <1>1, SameIdx, SameFound, SameFirst DEF D!Abstract!vars, P!Abstract!vars
<1>. QED  BY <1>2, <1>3, <1>10, <1>11

-----------------------------------------------------------------------------
(* Conversion of line ends.  The facts are about a function f, the text t    *)
(* that it took, and what this text should become.                           *)

Char == C!Chars

LEMMA SameFlat == \A s : C!FlattenSeq(s) = P!FlattenSeq(s)
BY DEF C!FlattenSeq, P!FlattenSeq

LEMMA CharsAre ==
  /\ C!CR = "CR" /\ C!LF = "LF" /\ C!CR # C!LF /\ C!CR \in Char /\ C!LF \in Char
BY DEF C!CR, C!LF, Char, C!Chars

EndsInCR(t) == t # <<>> /\ t[Len(t)] = C!CR

\* What becomes of each character.
Dropped(t, i) == t[i] = C!CR /\ i < Len(t) /\ t[i + 1] = C!LF
UnixPieces(t) == [i \in DOMAIN t |-> IF Dropped(t, i) THEN <<>> ELSE <<t[i]>>]

LEMMA PieceAt ==
  ASSUME NEW t \in Seq(Char), NEW i \in 1 .. Len(t)
  PROVE  /\ Dropped(t, i) => UnixPieces(t)[i] = <<>>
         /\ ~Dropped(t, i) => UnixPieces(t)[i] = <<t[i]>>
BY DEF UnixPieces

LEMMA UnixPiecesType ==
  ASSUME NEW t \in Seq(Char)
  PROVE  /\ UnixPieces(t) \in Seq(Seq(Char)) /\ Len(UnixPieces(t)) = Len(t)
         /\ C!Unix(t) = P!FlattenSeq(UnixPieces(t)) /\ C!Unix(t) \in Seq(Char)
<1>1. UnixPieces(t) \in Seq(Seq(Char)) /\ Len(UnixPieces(t)) = Len(t)
  <2>1. /\ DOMAIN UnixPieces(t) = 1 .. Len(t)
        /\ \A i \in 1 .. Len(t) : UnixPieces(t)[i] \in Seq(Char)
    BY DEF UnixPieces
  <2>. QED  BY <2>1 DEF UnixPieces
<1>2. C!Unix(t) = P!FlattenSeq(UnixPieces(t))
  BY SameFlat DEF C!Unix, UnixPieces, Dropped
<1>3. P!FlattenSeq(UnixPieces(t)) \in Seq(Char)
  BY <1>1, P!FlattenType
<1>. QED  BY <1>1, <1>2, <1>3

\* A character that is not the newline of a line end of DOS is kept.
LEMMA UnixAppend ==
  ASSUME NEW t \in Seq(Char), NEW c \in Char, ~(EndsInCR(t) /\ c = C!LF)
  PROVE  C!Unix(Append(t, c)) = C!Unix(t) \o <<c>>
<1>. DEFINE u == Append(t, c)
            n == Len(t)
            p == UnixPieces(t)
            q == UnixPieces(u)
<1>1. /\ u \in Seq(Char) /\ Len(u) = n + 1 /\ n \in Nat /\ u[n + 1] = c
      /\ \A i \in 1 .. n : u[i] = t[i] /\ t[i] \in Char
  OBVIOUS
<1>2. EndsInCR(t) <=> n > 0 /\ t[n] = C!CR
  BY <1>1 DEF EndsInCR
<1>. HIDE DEF u
<1>3. /\ q \in Seq(Seq(Char)) /\ Len(q) = n + 1 /\ p \in Seq(Seq(Char)) /\ Len(p) = n
      /\ C!Unix(u) = P!FlattenSeq(q) /\ C!Unix(t) = P!FlattenSeq(p)
  BY <1>1, UnixPiecesType
<1>4. <<c>> \in Seq(Char)
  OBVIOUS
<1>5. /\ \A i \in 1 .. n + 1 : (Dropped(u, i) => q[i] = <<>>) /\ (~Dropped(u, i) => q[i] = <<u[i]>>)
      /\ \A i \in 1 .. n : (Dropped(t, i) => p[i] = <<>>) /\ (~Dropped(t, i) => p[i] = <<t[i]>>)
  BY <1>1, PieceAt
<1>6. /\ \A i : Dropped(u, i) <=> u[i] = C!CR /\ i < n + 1 /\ u[i + 1] = C!LF
      /\ \A i : Dropped(t, i) <=> t[i] = C!CR /\ i < n /\ t[i + 1] = C!LF
  BY <1>1 DEF Dropped
<1>. HIDE DEF n, p, q
<1>7. ASSUME NEW i \in 1 .. n PROVE q[i] = p[i]
  <2>1. i \in 1 .. n + 1 /\ u[i] = t[i] /\ i < n + 1
    BY <1>1
  <2>2. Dropped(u, i) <=> Dropped(t, i)
    <3>1. CASE i = n
      BY <1>1, <1>2, <1>6, <2>1, <3>1
    <3>2. CASE i # n
      <4>1. i < n /\ i + 1 \in 1 .. n
        BY <1>1, <3>2
      <4>. QED  BY <1>1, <1>6, <2>1, <4>1
    <3>. QED  BY <3>1, <3>2
  <2>. QED  BY <1>5, <2>1, <2>2
<1>8. q[n + 1] = <<c>>
  <2>1. n + 1 \in 1 .. n + 1 /\ ~(n + 1 < n + 1)
    BY <1>1
  <2>. QED  BY <1>1, <1>5, <1>6, <2>1
<1>9. q = Append(p, <<c>>)
  <2>. DEFINE r == Append(p, <<c>>)
  <2>1. r \in Seq(Seq(Char)) /\ Len(r) = n + 1 /\ r[n + 1] = <<c>> /\ \A i \in 1 .. n : r[i] = p[i]
    BY <1>1, <1>3, <1>4
  <2>. HIDE DEF r
  <2>2. \A i \in 1 .. n + 1 : q[i] = r[i]
    <3>1. \A i \in 1 .. n + 1 : i \in 1 .. n \/ i = n + 1
      BY <1>1
    <3>. QED  BY <1>7, <1>8, <2>1, <3>1
  <2>3. q = r
    BY <1>3, <2>1, <2>2, SeqEqual
  <2>. QED  BY <2>3 DEF r
<1>10. P!FlattenSeq(q) = P!FlattenSeq(p) \o <<c>>
  BY <1>3, <1>4, <1>9, P!FlattenAppend
<1>. QED  BY <1>3, <1>10 DEF u

\* The newline of a line end of DOS takes the carriage return with it.
LEMMA UnixLineEnd ==
  ASSUME NEW r \in Seq(Char)
  PROVE  C!Unix(Append(Append(r, C!CR), C!LF)) = C!Unix(r) \o <<C!LF>>
<1>. DEFINE t == Append(r, C!CR)
            u == Append(t, C!LF)
            n == Len(r)
            p == UnixPieces(r)
            q == UnixPieces(u)
<1>1. t \in Seq(Char) /\ Len(t) = n + 1 /\ n \in Nat /\ t[n + 1] = C!CR
      /\ \A i \in 1 .. n : t[i] = r[i]
  BY CharsAre
<1>. HIDE DEF t
<1>2. u \in Seq(Char) /\ Len(u) = n + 2 /\ u[n + 2] = C!LF
      /\ \A i \in 1 .. n + 1 : u[i] = t[i]
  BY <1>1, CharsAre
<1>. HIDE DEF u
<1>3. u[n + 1] = C!CR /\ \A i \in 1 .. n : u[i] = r[i]
  BY <1>1, <1>2
<1>4. /\ q \in Seq(Seq(Char)) /\ Len(q) = n + 2 /\ p \in Seq(Seq(Char)) /\ Len(p) = n
      /\ C!Unix(u) = P!FlattenSeq(q) /\ C!Unix(r) = P!FlattenSeq(p)
      /\ C!Unix(r) \in Seq(Char)
  BY <1>2, UnixPiecesType
<1>5. /\ \A i \in 1 .. n + 2 : (Dropped(u, i) => q[i] = <<>>) /\ (~Dropped(u, i) => q[i] = <<u[i]>>)
      /\ \A i \in 1 .. n : (Dropped(r, i) => p[i] = <<>>) /\ (~Dropped(r, i) => p[i] = <<r[i]>>)
  BY <1>2, PieceAt
<1>6. /\ \A i : Dropped(u, i) <=> u[i] = C!CR /\ i < n + 2 /\ u[i + 1] = C!LF
      /\ \A i : Dropped(r, i) <=> r[i] = C!CR /\ i < n /\ r[i + 1] = C!LF
  BY <1>2 DEF Dropped
<1>. HIDE DEF n, p, q
<1>7. ASSUME NEW i \in 1 .. n PROVE q[i] = p[i]
  <2>1. i \in 1 .. n + 2 /\ u[i] = r[i] /\ i < n + 2
    BY <1>1, <1>3
  <2>2. Dropped(u, i) <=> Dropped(r, i)
    <3>1. CASE i = n
      BY <1>1, <1>3, <1>6, <2>1, <3>1, CharsAre
    <3>2. CASE i # n
      <4>1. i < n /\ i + 1 \in 1 .. n
        BY <1>1, <3>2
      <4>. QED  BY <1>3, <1>6, <2>1, <4>1
    <3>. QED  BY <3>1, <3>2
  <2>. QED  BY <1>5, <2>1, <2>2
<1>8. q[n + 1] = <<>> /\ q[n + 2] = <<C!LF>>
  <2>1. n + 1 \in 1 .. n + 2 /\ n + 2 \in 1 .. n + 2 /\ n + 1 < n + 2 /\ ~(n + 2 < n + 2)
        /\ (n + 1) + 1 = n + 2
    BY <1>1
  <2>2. Dropped(u, n + 1) /\ ~Dropped(u, n + 2)
    BY <1>2, <1>3, <1>6, <2>1
  <2>. QED  BY <1>2, <1>5, <2>1, <2>2
<1>9. <<>> \in Seq(Char) /\ <<C!LF>> \in Seq(Char)
  BY CharsAre
<1>. DEFINE s == Append(p, <<>>)
<1>10. s \in Seq(Seq(Char)) /\ Len(s) = n + 1 /\ s[n + 1] = <<>> /\ \A i \in 1 .. n : s[i] = p[i]
  BY <1>1, <1>4, <1>9, SMTT(30)
<1>. HIDE DEF s
<1>11. q = Append(s, <<C!LF>>)
  <2>. DEFINE v == Append(s, <<C!LF>>)
  <2>1. /\ v \in Seq(Seq(Char)) /\ Len(v) = n + 2 /\ v[n + 2] = <<C!LF>>
        /\ \A i \in 1 .. n + 1 : v[i] = s[i]
    BY <1>1, <1>9, <1>10
  <2>. HIDE DEF v
  <2>2. ASSUME NEW i \in 1 .. n + 2 PROVE q[i] = v[i]
    <3>1. i \in 1 .. n + 1 \/ i = n + 2
      BY <1>1
    <3>2. i \in 1 .. n + 1 => i \in 1 .. n \/ i = n + 1
      BY <1>1
    <3>. QED  BY <1>7, <1>8, <1>10, <2>1, <3>1, <3>2
  <2>3. q = v
    BY <1>4, <2>1, <2>2, SeqEqual
  <2>. QED  BY <2>3 DEF v
<1>12. P!FlattenSeq(q) = P!FlattenSeq(s) \o <<C!LF>>
  BY <1>9, <1>10, <1>11, P!FlattenAppend
<1>13. P!FlattenSeq(s) = P!FlattenSeq(p) \o <<>>
  BY <1>4, <1>9, P!FlattenAppend DEF s
<1>14. P!FlattenSeq(s) = P!FlattenSeq(p)
  BY <1>4, <1>13
<1>. QED  BY <1>4, <1>12, <1>14 DEF u, t

\* Every newline becomes a line end of DOS.
Dossed(u) ==
  P!FlattenSeq([i \in DOMAIN u |-> IF u[i] = C!LF THEN <<C!CR, C!LF>> ELSE <<u[i]>>])

LEMMA DosIs == ASSUME NEW t PROVE C!Dos(t) = Dossed(C!Unix(t))
BY SameFlat DEF C!Dos, Dossed

LEMMA DossedAppend ==
  ASSUME NEW t \in Seq(Char), NEW c \in Char
  PROVE  /\ Dossed(t) \in Seq(Char)
         /\ Dossed(t \o <<c>>) = Dossed(t) \o (IF c = C!LF THEN <<C!CR, C!LF>> ELSE <<c>>)
<1>. DEFINE piece(d) == IF d = C!LF THEN <<C!CR, C!LF>> ELSE <<d>>
            u == t \o <<c>>
            n == Len(t)
            p == [i \in DOMAIN t |-> piece(t[i])]
            q == [i \in DOMAIN u |-> piece(u[i])]
<1>1. \A d \in Char : piece(d) \in Seq(Char)
  BY CharsAre
<1>2. /\ u \in Seq(Char) /\ Len(u) = n + 1 /\ n \in Nat /\ u[n + 1] = c
      /\ \A i \in 1 .. n : u[i] = t[i]
  OBVIOUS
<1>3. Dossed(t) = P!FlattenSeq(p) /\ Dossed(u) = P!FlattenSeq(q)
  BY DEF Dossed
<1>. HIDE DEF u, piece
<1>4. /\ p \in Seq(Seq(Char)) /\ Len(p) = n /\ \A i \in 1 .. n : p[i] = piece(t[i])
      /\ q \in Seq(Seq(Char)) /\ Len(q) = n + 1 /\ \A i \in 1 .. n + 1 : q[i] = piece(u[i])
  <2>1. (\A i \in 1 .. n : t[i] \in Char) /\ (\A i \in 1 .. n + 1 : u[i] \in Char)
    BY <1>2
  <2>2. (\A i \in 1 .. n : piece(t[i]) \in Seq(Char)) /\ (\A i \in 1 .. n + 1 : piece(u[i]) \in Seq(Char))
    BY <1>1, <2>1
  <2>3. DOMAIN t = 1 .. n /\ DOMAIN u = 1 .. n + 1
    BY <1>2
  <2>4. p \in [1 .. n -> Seq(Char)] /\ \A i \in 1 .. n : p[i] = piece(t[i])
    BY <2>2, <2>3
  <2>5. q \in [1 .. n + 1 -> Seq(Char)] /\ \A i \in 1 .. n + 1 : q[i] = piece(u[i])
    BY <2>2, <2>3
  <2>6. n + 1 \in Nat
    BY <1>2
  <2>. HIDE DEF p, q, n
  <2>7. p \in Seq(Seq(Char)) /\ Len(p) = n /\ q \in Seq(Seq(Char)) /\ Len(q) = n + 1
    BY <1>2, <2>4, <2>5, <2>6
  <2>. QED  BY <2>4, <2>5, <2>7
<1>. HIDE DEF p, q, n
<1>5. q = Append(p, piece(c))
  <2>. DEFINE r == Append(p, piece(c))
  <2>1. r \in Seq(Seq(Char)) /\ Len(r) = n + 1 /\ r[n + 1] = piece(c) /\ \A i \in 1 .. n : r[i] = p[i]
    BY <1>1, <1>2, <1>4
  <2>. HIDE DEF r
  <2>2. \A i \in 1 .. n + 1 : q[i] = r[i]
    <3>1. \A i \in 1 .. n + 1 : i \in 1 .. n \/ i = n + 1
      BY <1>2
    <3>. QED  BY <1>2, <1>4, <2>1, <3>1
  <2>3. q = r
    BY <1>4, <2>1, <2>2, SeqEqual
  <2>. QED  BY <2>3 DEF r
<1>6. P!FlattenSeq(q) = P!FlattenSeq(p) \o piece(c)
  BY <1>1, <1>4, <1>5, P!FlattenAppend
<1>7. P!FlattenSeq(p) \in Seq(Char)
  BY <1>4, P!FlattenType
<1>. QED  BY <1>3, <1>6, <1>7 DEF u, piece

\* What a function should have given, once what it holds back is added.
Target(f, t) == IF f = "dtou" THEN C!Unix(t) ELSE C!Dos(t)

LEMMA TargetAppend ==
  ASSUME NEW f, NEW t \in Seq(Char), NEW c \in Char
  PROVE  /\ Target(f, t) \in Seq(Char)
         /\ ~(EndsInCR(t) /\ c = C!LF) =>
              Target(f, Append(t, c))
                = Target(f, t) \o (IF c = C!LF THEN C!Newline(f) ELSE <<c>>)
         /\ Target(f, Append(Append(t, C!CR), C!LF)) = Target(f, t) \o C!Newline(f)
<1>1. C!Unix(t) \in Seq(Char) /\ Dossed(C!Unix(t)) \in Seq(Char)
  <2>1. C!Unix(t) \in Seq(Char)
    BY UnixPiecesType
  <2>. QED  BY <2>1, DossedAppend
<1>2. C!Newline(f) = IF f = "dtou" THEN <<C!LF>> ELSE <<C!CR, C!LF>>
  BY DEF C!Newline
<1>3. ASSUME ~(EndsInCR(t) /\ c = C!LF)
      PROVE  Target(f, Append(t, c))
               = Target(f, t) \o (IF c = C!LF THEN C!Newline(f) ELSE <<c>>)
  <2>1. C!Unix(Append(t, c)) = C!Unix(t) \o <<c>>
    BY <1>3, UnixAppend
  <2>2. Dossed(C!Unix(Append(t, c)))
          = Dossed(C!Unix(t)) \o (IF c = C!LF THEN <<C!CR, C!LF>> ELSE <<c>>)
    BY <1>1, <2>1, DossedAppend
  <2>. QED  BY <1>2, <2>1, <2>2, DosIs DEF Target
<1>4. Target(f, Append(Append(t, C!CR), C!LF)) = Target(f, t) \o C!Newline(f)
  <2>. DEFINE u == C!Unix(Append(Append(t, C!CR), C!LF))
  <2>1. u = C!Unix(t) \o <<C!LF>>
    BY UnixLineEnd
  <2>2. Dossed(u) = Dossed(C!Unix(t)) \o <<C!CR, C!LF>>
    BY <1>1, <2>1, CharsAre, DossedAppend
  <2>. HIDE DEF u
  <2>3. Target(f, Append(Append(t, C!CR), C!LF)) = IF f = "dtou" THEN u ELSE Dossed(u)
    BY DosIs DEF Target, u
  <2>. QED  BY <1>2, <2>1, <2>2, <2>3, DosIs DEF Target
<1>. QED  BY <1>1, <1>3, <1>4, DosIs DEF Target

\* What a function has taken, given and held back.
Converted(f, t, g, pending) ==
  /\ t \in Seq(Char) /\ g \in Seq(Char) /\ pending \in BOOLEAN
  /\ pending <=> EndsInCR(t)
  /\ g \o C!Held(pending) = Target(f, t)

\* One more character.
LEMMA ConvertedStep ==
  ASSUME NEW f, NEW t, NEW g, NEW pending, Converted(f, t, g, pending), NEW c \in Char
  PROVE  /\ c = C!LF => Converted(f, Append(t, c), g \o C!Newline(f), FALSE)
         /\ c = C!CR => Converted(f, Append(t, c), g \o C!Held(pending), TRUE)
         /\ c \notin {C!CR, C!LF} =>
              Converted(f, Append(t, c), g \o (C!Held(pending) \o <<c>>), FALSE)
<1>. DEFINE held == C!Held(pending)
<1>1. t \in Seq(Char) /\ g \in Seq(Char)
  BY DEF Converted
<1>2. g \o held = Target(f, t)
  BY DEF Converted
<1>3. pending \in BOOLEAN /\ (pending <=> EndsInCR(t))
  BY DEF Converted
<1>4. /\ held = IF pending THEN <<C!CR>> ELSE <<>>
      /\ C!Held(TRUE) = <<C!CR>> /\ C!Held(FALSE) = <<>>
  BY DEF C!Held
<1>. HIDE DEF held
<1>5. /\ held \in Seq(Char) /\ C!Newline(f) \in Seq(Char)
      /\ EndsInCR(t) => held = <<C!CR>>
      /\ ~EndsInCR(t) => held = <<>>
  <2>1. C!Newline(f) \in Seq(Char)
    BY CharsAre DEF C!Newline
  <2>2. (EndsInCR(t) => held = <<C!CR>>) /\ (~EndsInCR(t) => held = <<>>)
    BY <1>3, <1>4
  <2>3. <<C!CR>> \in Seq(Char) /\ <<>> \in Seq(Char)
    BY CharsAre
  <2>. QED  BY <2>1, <2>2, <2>3
<1>6. Append(t, c) \in Seq(Char) /\ (EndsInCR(Append(t, c)) <=> c = C!CR)
  BY <1>1 DEF EndsInCR
<1>7. ASSUME c = C!LF PROVE Converted(f, Append(t, c), g \o C!Newline(f), FALSE)
  <2>1. g \o C!Newline(f) \in Seq(Char) /\ (g \o C!Newline(f)) \o <<>> = g \o C!Newline(f)
    BY <1>1, <1>5
  <2>2. Target(f, Append(t, c)) = g \o C!Newline(f)
    <3>1. CASE EndsInCR(t)
      <4>1. PICK r \in Seq(Char) : t = Append(r, C!CR)
        <5>1. t # <<>> /\ t[Len(t)] = C!CR
          BY <3>1 DEF EndsInCR
        <5>2. PICK r \in Seq(Char), d \in Char : t = Append(r, d)
          BY <1>1, <5>1, SequenceEmptyOrAppend
        <5>3. d = C!CR
          BY <5>1, <5>2
        <5>. QED  BY <5>2, <5>3
      <4>2. Target(f, t) = Target(f, r) \o <<C!CR>> /\ Target(f, r) \in Seq(Char)
        BY <4>1, CharsAre, TargetAppend
      <4>3. Append(g, C!CR) = Append(Target(f, r), C!CR)
        BY <1>1, <1>2, <1>5, <3>1, <4>2, CharsAre, AppendIsConcat
      <4>4. g = Target(f, r)
        BY <1>1, <4>2, <4>3, CharsAre, AppendInjective
      <4>. QED  BY <1>7, <4>1, <4>4, TargetAppend
    <3>2. CASE ~EndsInCR(t)
      <4>1. Target(f, t) = g
        <5>1. g \o <<>> = g
          BY <1>1
        <5>. QED  BY <1>2, <1>5, <3>2, <5>1
      <4>. QED  BY <1>1, <1>7, <3>2, <4>1, TargetAppend
    <3>. QED  BY <3>1, <3>2
  <2>. QED  BY <1>4, <1>6, <1>7, <2>1, <2>2, CharsAre DEF Converted
<1>8. ASSUME c # C!LF PROVE Target(f, Append(t, c)) = (g \o held) \o <<c>>
  BY <1>1, <1>2, <1>8, TargetAppend
<1>9. g \o held \in Seq(Char)
  BY <1>1, <1>5
<1>10. ASSUME c = C!CR PROVE Converted(f, Append(t, c), g \o held, TRUE)
  <2>1. Target(f, Append(t, c)) = (g \o held) \o <<C!CR>>
    BY <1>8, <1>10, CharsAre
  <2>. QED  BY <1>4, <1>6, <1>9, <1>10, <2>1 DEF Converted
<1>11. ASSUME c \notin {C!CR, C!LF}
       PROVE  Converted(f, Append(t, c), g \o (held \o <<c>>), FALSE)
  <2>. DEFINE h == g \o (held \o <<c>>)
  <2>1. <<c>> \in Seq(Char) /\ h = (g \o held) \o <<c>>
    <3>1. <<c>> \in Seq(Char)
      OBVIOUS
    <3>. QED  BY <1>1, <1>5, <3>1, ConcatAssociative
  <2>2. h \in Seq(Char) /\ h \o <<>> = h
    <3>. HIDE DEF h
    <3>1. h \in Seq(Char)
      BY <1>9, <2>1
    <3>. QED  BY <3>1
  <2>3. Target(f, Append(t, c)) = h
    BY <1>8, <1>11, <2>1
  <2>. HIDE DEF h
  <2>4. Converted(f, Append(t, c), h, FALSE)
    BY <1>4, <1>6, <1>11, <2>2, <2>3 DEF Converted
  <2>. QED  BY <2>4 DEF h
<1>. QED  BY <1>7, <1>10, <1>11 DEF held

\* The invariant of the conversions.
CharsInv ==
  /\ pending_cr \in [C!Fns -> BOOLEAN]
  /\ taken \in [C!Fns -> Seq(Char)] /\ given \in [C!Fns -> Seq(Char)]
  /\ str \in Seq(Char) /\ Len(str) <= 2
  /\ \A f \in C!Fns : Converted(f, taken[f], given[f], pending_cr[f])

LEMMA CharsInvIs == CharsInv => C!TypeOK /\ Converts
<1>1. CharsInv => C!TypeOK
  BY DEF CharsInv, C!TypeOK, Char
<1>2. CharsInv => Converts
  BY DEF CharsInv, Converted, Target, Converts, C!Converts
<1>. QED  BY <1>1, <1>2

LEMMA CharsInit == ASSUME C!Init PROVE CharsInv
<1>1. UnixPieces(<<>>) = <<>>
  BY DEF UnixPieces
<1>2. C!Unix(<<>>) = <<>>
  <2>1. <<>> \in Seq(Char)
    OBVIOUS
  <2>. QED  BY <1>1, <2>1, UnixPiecesType, P!FlattenEmpty
<1>3. C!Dos(<<>>) = <<>>
  <2>1. Dossed(<<>>) = P!FlattenSeq(<<>>)
    BY DEF Dossed
  <2>. QED  BY <1>2, <2>1, DosIs, P!FlattenEmpty
<1>4. ASSUME NEW f \in C!Fns PROVE Converted(f, <<>>, <<>>, FALSE)
  <2>1. <<>> \in Seq(Char) /\ <<>> \o <<>> = <<>> /\ FALSE \in BOOLEAN
    OBVIOUS
  <2>2. ~EndsInCR(<<>>)
    BY DEF EndsInCR
  <2>3. C!Held(FALSE) = <<>>
    BY DEF C!Held
  <2>4. Target(f, <<>>) = <<>>
    BY <1>2, <1>3 DEF Target
  <2>. QED  BY <2>1, <2>2, <2>3, <2>4 DEF Converted
<1>5. \A f \in C!Fns : taken[f] = <<>> /\ given[f] = <<>> /\ pending_cr[f] = FALSE
  BY DEF C!Init
<1>6. /\ pending_cr \in [C!Fns -> BOOLEAN]
      /\ taken \in [C!Fns -> Seq(Char)] /\ given \in [C!Fns -> Seq(Char)]
      /\ str \in Seq(Char) /\ Len(str) <= 2
  BY DEF C!Init
<1>. QED  BY <1>4, <1>5, <1>6 DEF CharsInv

\* One function takes a character and gives some, the other is left alone.
LEMMA GivesStep ==
  ASSUME CharsInv, NEW f \in C!Fns, NEW c \in Char, NEW out \in Seq(Char), Len(out) <= 2,
         NEW pending \in BOOLEAN, C!Gives(f, c, out, pending),
         Converted(f, Append(taken[f], c), given[f] \o out, pending)
  PROVE  CharsInv'
<1>1. /\ pending_cr' = [pending_cr EXCEPT ![f] = pending]
      /\ taken' = [taken EXCEPT ![f] = Append(taken[f], c)]
      /\ given' = [given EXCEPT ![f] = given[f] \o out]
      /\ str' = out
  BY DEF C!Gives
<1>2. /\ pending_cr \in [C!Fns -> BOOLEAN]
      /\ taken \in [C!Fns -> Seq(Char)] /\ given \in [C!Fns -> Seq(Char)]
      /\ \A g \in C!Fns : Converted(g, taken[g], given[g], pending_cr[g])
  BY DEF CharsInv
<1>3. Append(taken[f], c) \in Seq(Char) /\ given[f] \o out \in Seq(Char)
  BY <1>2
<1>4. /\ taken'[f] = Append(taken[f], c) /\ given'[f] = given[f] \o out
      /\ pending_cr'[f] = pending
  BY <1>1, <1>2
<1>5. ASSUME NEW g \in C!Fns, g # f
      PROVE  taken'[g] = taken[g] /\ given'[g] = given[g] /\ pending_cr'[g] = pending_cr[g]
  BY <1>1, <1>2, <1>5
<1>6. /\ pending_cr' \in [C!Fns -> BOOLEAN]
      /\ taken' \in [C!Fns -> Seq(Char)] /\ given' \in [C!Fns -> Seq(Char)]
      /\ str' \in Seq(Char) /\ Len(str') <= 2
  BY <1>1, <1>2, <1>3
<1>7. ASSUME NEW g \in C!Fns PROVE Converted(g, taken'[g], given'[g], pending_cr'[g])
  BY <1>2, <1>4, <1>5
<1>. QED  BY <1>6, <1>7 DEF CharsInv

LEMMA ConvertStep ==
  ASSUME CharsInv, NEW f \in C!Fns, NEW c \in Char, C!Convert(f, c)
  PROVE  CharsInv'
<1>. DEFINE p == pending_cr[f]
            held == C!Held(p)
<1>1. /\ c = C!LF => Converted(f, Append(taken[f], c), given[f] \o C!Newline(f), FALSE)
      /\ c = C!CR => Converted(f, Append(taken[f], c), given[f] \o held, TRUE)
      /\ c \notin {C!CR, C!LF} =>
           Converted(f, Append(taken[f], c), given[f] \o (held \o <<c>>), FALSE)
  BY ConvertedStep DEF CharsInv
<1>2. held = <<C!CR>> \/ held = <<>>
  BY DEF C!Held
<1>. HIDE DEF held
<1>3. /\ held \in Seq(Char) /\ Len(held) <= 2
      /\ held \o <<c>> \in Seq(Char) /\ Len(held \o <<c>>) <= 2
      /\ C!Newline(f) \in Seq(Char) /\ Len(C!Newline(f)) <= 2
  <2>1. C!Newline(f) \in Seq(Char) /\ Len(C!Newline(f)) <= 2
    BY CharsAre DEF C!Newline
  <2>2. CASE held = <<>>
    <3>1. held \in Seq(Char) /\ Len(held) <= 2
      BY <2>2
    <3>2. held \o <<c>> \in Seq(Char) /\ Len(held \o <<c>>) <= 2
      BY <2>2
    <3>. QED  BY <2>1, <3>1, <3>2
  <2>3. CASE held = <<C!CR>>
    <3>1. held \in Seq(Char) /\ Len(held) <= 2
      BY <2>3, CharsAre
    <3>2. held \o <<c>> \in Seq(Char) /\ Len(held \o <<c>>) <= 2
      BY <2>3, CharsAre
    <3>. QED  BY <2>1, <3>1, <3>2
  <2>. QED  BY <1>2, <2>2, <2>3
<1>4. CASE c = C!LF /\ C!EndOfLine(f)
  <2>1. C!Gives(f, c, C!Newline(f), FALSE)
    BY <1>4 DEF C!EndOfLine
  <2>. QED  BY <1>1, <1>3, <1>4, <2>1, GivesStep
<1>5. CASE c = C!CR /\ C!HoldBack(f)
  <2>1. C!Gives(f, c, held, TRUE)
    BY <1>5 DEF C!HoldBack, held
  <2>. QED  BY <1>1, <1>3, <1>5, <2>1, GivesStep
<1>6. CASE c \notin {C!CR, C!LF} /\ C!Pass(f, c)
  <2>1. C!Gives(f, c, held \o <<c>>, FALSE)
    BY <1>6 DEF C!Pass, held
  <2>. QED  BY <1>1, <1>3, <1>6, <2>1, GivesStep
<1>. QED  BY <1>4, <1>5, <1>6 DEF C!Convert

LEMMA CallStep ==
  ASSUME CharsInv, NEW f \in C!Fns, NEW next \in Char, NEW dflt \in Char,
         C!Call(f, next, dflt)
  PROVE  CharsInv'
<1>1. CASE C!Nothing
  <2>1. str' = <<>> /\ UNCHANGED <<pending_cr, taken, given>>
    BY <1>1 DEF C!Nothing
  <2>2. <<>> \in Seq(Char) /\ Len(<<>>) <= 2
    OBVIOUS
  <2>. QED  BY <2>1, <2>2 DEF CharsInv
<1>2. CASE C!Convert(f, next) \/ C!Convert(f, dflt)
  BY <1>2, ConvertStep
<1>. QED  BY <1>1, <1>2 DEF C!Call

-----------------------------------------------------------------------------
(* freq and its dictionary.                                                 *)

\* A step keeps the invariant of the dictionary and is one of the map, or none.
DictStep == P!IInv' /\ (P!Abstract!Next \/ UNCHANGED P!Abstract!vars)

\* Every word of a text may be a key.
WordsAreKeys == \A s \in Seq(Char) : F!Strip(s) \in Keys \cup {<<>>}

NodeVals == {m.val : m \in P!NodesIn(arr, cap)}

\* The dictionary points to counts that are allocated, never twice to the same,
\* and those it lost are no more than the failures.
OwnsLive ==
  /\ \A m \in P!NodesIn(arr, cap) : m.val \in live
  /\ \A m, n \in P!NodesIn(arr, cap) : m.val = n.val => m = n
  /\ Cardinality(live \ NodeVals) <= failures

FreqTypes ==
  /\ F!TypeOK /\ file \in Seq(Char) /\ buf \in Seq(Char) /\ IsFiniteSet(DOMAIN cells)
  /\ at \in {"open", "buffer"} => buf = <<>> /\ DOMAIN cells = {} /\ live = {}

Ownership ==
  /\ at \in {"buffer", "read", "print", "free", "freeing"} => cap # 0
  /\ at = "buffer" => \A m : m \notin P!NodesIn(arr, cap)
  /\ at \in {"read", "print", "free", "freeing"} => OwnsLive
  /\ at = "freeing" => \/ result = NULL /\ (size = 0 \/ failures > 0)
                       \/ result = P!TheKeys /\ P!TheKeys # NULL
  /\ at \in {"destroy", "exit"} => (failures = 0 => live = {})

FreqInv == FreqTypes /\ Ownership

LEMMA Assumed ==
  TextAssumption =>
    /\ P!DictAssumption /\ NULL \notin Vals /\ H!HistAssumption
    /\ BufCap0 \in Nat /\ BufCap0 > 1
    /\ Essays \subseteq Seq(Char) /\ "NUL" \in Char /\ TestChars \subseteq Char
    /\ TestKeys \subseteq Keys /\ TestVals \subseteq Vals
BY SameProperties DEF TextAssumption, F!FreqAssumption, D!DictAssumption, Char

\* A step that leaves the dictionary alone, but for a failed allocation.
LEMMA DictAlone ==
  ASSUME TextAssumption, P!IInv, F!D!Fails \/ F!D!Succeeds,
         UNCHANGED <<cap, arr, size, call, result>>
  PROVE  /\ DictStep /\ failures \in Nat /\ failures' \in Nat /\ failures' >= failures
         /\ F!D!Fails => failures' > failures
<1>1. P!DictAssumption
  BY Assumed
<1>2. P!Fails \/ P!Succeeds
  BY SameFails, SameSucceeds
<1>3. P!IInv' /\ UNCHANGED P!Abstract!vars
  BY <1>1, <1>2, P!OnlyMemory
<1>4. failures \in 0 .. MaxFailures /\ MaxFailures \in Nat
  BY <1>1 DEF P!IInv, P!Core, P!DictAssumption
<1>. QED  BY <1>2, <1>3, <1>4, SameFails DEF DictStep, P!Fails, P!Succeeds

\* What stays as it is when neither the table nor the counts change.
LEMMA OwnsLiveKept ==
  ASSUME OwnsLive, UNCHANGED <<cap, arr, live>>, failures \in Nat, failures' \in Nat,
         failures' >= failures, IsFiniteSet(live)
  PROVE  OwnsLive'
<1>1. NodeVals' = NodeVals
  BY DEF NodeVals
<1>2. Cardinality(live \ NodeVals) \in Nat
  BY FS_Subset, FS_CardinalityType
<1>. QED  BY <1>1, <1>2 DEF OwnsLive

LEMMA LiveFinite == ASSUME FreqTypes PROVE IsFiniteSet(live)
BY FS_Subset DEF FreqTypes, F!TypeOK

LEMMA CannotStartStep ==
  ASSUME TextAssumption, P!IInv, FreqInv, F!CannotStart
  PROVE  DictStep /\ FreqInv'
<1>1. /\ at = "open" /\ at' = "exit" /\ status' = 1
      /\ UNCHANGED <<file, buf, bufcap, cells, live, printed, text>>
  BY DEF F!CannotStart
<1>2. DictStep
  <2>1. CASE UNCHANGED F!dictionary
    <3>1. UNCHANGED P!vars
      BY <2>1 DEF F!dictionary, P!vars
    <3>2. P!IInv' /\ UNCHANGED P!Abstract!vars
      BY <3>1, P!IInvStutters
    <3>. QED  BY <3>2 DEF DictStep
  <2>2. CASE F!D!dctcreate
    <3>1. P!IInv' /\ P!Abstract!Create
      BY <2>2, Assumed, SameDctcreate, P!CreateStep DEF P!IInv
    <3>. QED  BY <3>1 DEF DictStep, P!Abstract!Next
  <2>. QED  BY <2>1, <2>2 DEF F!CannotStart
<1>3. FreqTypes'
  BY <1>1 DEF FreqInv, FreqTypes, F!TypeOK
<1>4. Ownership'
  BY <1>1 DEF FreqInv, FreqTypes, Ownership
<1>. QED  BY <1>2, <1>3, <1>4 DEF FreqInv

LEMMA StartStep ==
  ASSUME TextAssumption, P!IInv, FreqInv, F!Start
  PROVE  DictStep /\ FreqInv'
<1>1. /\ at = "open" /\ at' = "buffer" /\ F!D!dctcreate /\ cap' # 0
      /\ UNCHANGED <<file, text, buf, bufcap, cells, live, printed, status>>
  BY DEF F!Start, F!locals
<1>2. P!dctcreate /\ P!Core /\ P!DictAssumption
  BY <1>1, Assumed, SameDctcreate DEF P!IInv
<1>3. P!IInv' /\ P!Abstract!Create
  BY <1>2, P!CreateStep
<1>4. \A m : m \notin P!NodesIn(arr, cap)'
  BY <1>2, P!CreatesEmpty
<1>5. FreqTypes'
  BY <1>1 DEF FreqInv, FreqTypes, F!TypeOK
<1>6. Ownership'
  BY <1>1, <1>4 DEF Ownership
<1>. QED  BY <1>3, <1>5, <1>6 DEF FreqInv, DictStep, P!Abstract!Next

LEMMA BufferStep ==
  ASSUME TextAssumption, P!IInv, FreqInv, F!Buffer
  PROVE  DictStep /\ FreqInv'
<1>1. /\ at = "buffer" /\ UNCHANGED <<cap, arr, size, call, result>>
      /\ UNCHANGED <<file, buf, cells, live, printed, text>>
      /\ \/ F!D!Succeeds /\ bufcap' = BufCap0 /\ at' = "read" /\ UNCHANGED status
         \/ F!D!Fails /\ at' = "destroy" /\ status' = 1 /\ UNCHANGED bufcap
  BY DEF F!Buffer
<1>2. /\ DictStep /\ failures \in Nat /\ failures' \in Nat /\ failures' >= failures
      /\ F!D!Fails => failures' > failures
  BY <1>1, DictAlone
<1>3. /\ buf = <<>> /\ live = {} /\ cap # 0 /\ \A m : m \notin P!NodesIn(arr, cap)
  BY <1>1 DEF FreqInv, FreqTypes, Ownership
<1>4. FreqTypes'
  <2>1. Len(buf) = 0 /\ BufCap0 \in Nat /\ BufCap0 > 1
    BY <1>3, Assumed
  <2>. QED  BY <1>1, <2>1 DEF FreqInv, FreqTypes, F!TypeOK
<1>5. OwnsLive'
  <2>1. Cardinality(live' \ NodeVals') = 0
    <3>1. live' \ NodeVals' = {}
      BY <1>1, <1>3
    <3>. QED  BY <3>1, FS_EmptySet
  <2>. QED  BY <1>1, <1>2, <1>3, <2>1 DEF OwnsLive
<1>6. Ownership'
  BY <1>1, <1>2, <1>3, <1>5 DEF Ownership
<1>. QED  BY <1>2, <1>4, <1>6 DEF FreqInv
\* The rest of a text.
LEMMA Ends ==
  ASSUME NEW S, NEW s \in Seq(S), s # <<>>
  PROVE  Head(s) \in S /\ Tail(s) \in Seq(S)
BY HeadTailProperties

LEMMA TakeStep ==
  ASSUME TextAssumption, P!IInv, FreqInv, F!Take
  PROVE  DictStep /\ FreqInv'
<1>1. /\ at = "read" /\ file # <<>> /\ UNCHANGED <<cap, arr, size, call, result>>
      /\ UNCHANGED <<cells, live, printed, text>>
      /\ \/ /\ F!D!Fails /\ at' = "free" /\ status' = 1
            /\ UNCHANGED <<file, buf, bufcap>>
         \/ /\ F!D!Succeeds /\ UNCHANGED <<at, status>>
            /\ bufcap' = IF F!BufferFull THEN 2 * bufcap ELSE bufcap
            /\ buf' = Append(buf, Head(file)) /\ file' = Tail(file)
  BY DEF F!Take
<1>2. /\ DictStep /\ failures \in Nat /\ failures' \in Nat /\ failures' >= failures
  BY <1>1, DictAlone
<1>3. /\ file \in Seq(Char) /\ buf \in Seq(Char) /\ Len(buf) \in Nat
      /\ bufcap \in Nat /\ Len(buf) < bufcap /\ cap # 0 /\ OwnsLive
  BY <1>1 DEF FreqInv, FreqTypes, F!TypeOK, Ownership
<1>4. at' \in {"read", "free"} /\ status' \in {0, 1}
  BY <1>1 DEF FreqInv, FreqTypes, F!TypeOK
<1>5. /\ bufcap' \in Nat /\ file' \in Seq(Char) /\ buf' \in Seq(Char)
      /\ at' = "read" => Len(buf') < bufcap'
  <2>1. CASE UNCHANGED <<file, buf, bufcap>> /\ at' = "free"
    BY <1>3, <2>1
  <2>2. CASE /\ bufcap' = IF F!BufferFull THEN 2 * bufcap ELSE bufcap
             /\ buf' = Append(buf, Head(file)) /\ file' = Tail(file)
    <3>1. Head(file) \in Char /\ Tail(file) \in Seq(Char)
      BY <1>1, <1>3, Ends
    <3>2. buf' \in Seq(Char) /\ Len(buf') = Len(buf) + 1
      BY <1>3, <2>2, <3>1
    <3>3. F!BufferFull <=> Len(buf) + 1 >= bufcap
      BY DEF F!BufferFull
    <3>4. bufcap' \in Nat /\ Len(buf) + 1 < bufcap'
      BY <1>3, <2>2, <3>3
    <3>. QED  BY <2>2, <3>1, <3>2, <3>4
  <2>. QED  BY <1>1, <2>1, <2>2
<1>6. FreqTypes'
  BY <1>1, <1>4, <1>5 DEF FreqInv, FreqTypes, F!TypeOK
<1>7. OwnsLive'
  BY <1>1, <1>2, <1>3, OwnsLiveKept, LiveFinite DEF FreqInv
<1>8. Ownership'
  BY <1>1, <1>3, <1>4, <1>7 DEF Ownership
<1>. QED  BY <1>2, <1>6, <1>8 DEF FreqInv

\* A step that leaves the dictionary and the counts as they are.
LEMMA DictStutters ==
  ASSUME P!IInv, UNCHANGED F!dictionary
  PROVE  DictStep
<1>1. UNCHANGED P!vars
  BY DEF F!dictionary, P!vars
<1>. QED  BY <1>1, P!IInvStutters DEF DictStep

LEMMA OwnershipKept ==
  ASSUME Ownership, UNCHANGED <<F!dictionary, at, live>>
  PROVE  Ownership'
<1>1. UNCHANGED <<cap, arr, size, call, result, failures, at, live>>
  BY DEF F!dictionary
<1>2. P!TheKeys' = P!TheKeys
  BY <1>1 DEF P!TheKeys, P!AllNodes
<1>3. OwnsLive => OwnsLive'
  BY <1>1 DEF OwnsLive, NodeVals
<1>. QED  BY <1>1, <1>2, <1>3 DEF Ownership

LEMMA SkipSpaceStep ==
  ASSUME TextAssumption, P!IInv, FreqInv, F!SkipSpace
  PROVE  DictStep /\ FreqInv'
<1>1. /\ at = "read" /\ file # <<>> /\ file' = Tail(file)
      /\ UNCHANGED <<F!dictionary, at, buf, bufcap, cells, live, printed, status>>
  BY DEF F!SkipSpace, F!locals
<1>2. Tail(file) \in Seq(Char)
  BY <1>1, Ends DEF FreqInv, FreqTypes
<1>3. FreqTypes'
  BY <1>1, <1>2 DEF FreqInv, FreqTypes, F!TypeOK
<1>4. Ownership'
  BY <1>1, OwnershipKept DEF FreqInv
<1>. QED  BY <1>1, <1>3, <1>4, DictStutters DEF FreqInv

\* The first occurrence of a word: its count belongs to the dictionary, or is
\* lost together with the memory for the node.
LEMMA CountFirstStep ==
  ASSUME TextAssumption, P!IInv, FreqTypes, OwnsLive, cap # 0,
         NEW word \in Keys, F!D!Lookup(word) = NULL, F!CountFirst(word)
  PROVE  /\ DictStep /\ OwnsLive' /\ cap' # 0
         /\ live' \subseteq DOMAIN cells' /\ DOMAIN cells' \subseteq Vals
         /\ \A p \in DOMAIN cells' : cells'[p] \in Nat \ {0}
         /\ IsFiniteSet(DOMAIN cells')
<1>1. CASE F!D!Fails /\ UNCHANGED <<cap, arr, size, call, result, cells, live>>
  <2>1. /\ DictStep /\ failures \in Nat /\ failures' \in Nat /\ failures' >= failures
    BY <1>1, DictAlone
  <2>2. OwnsLive'
    BY <1>1, <2>1, OwnsLiveKept, LiveFinite
  <2>. QED  BY <1>1, <2>1, <2>2 DEF FreqTypes, F!TypeOK
<1>. DEFINE cnt == CHOOSE p \in Vals : p \notin DOMAIN cells
<1>2. CASE /\ Vals \ DOMAIN cells # {}
           /\ cells' = [p \in DOMAIN cells \cup {cnt} |-> IF p = cnt THEN 1 ELSE cells[p]]
           /\ live' = live \cup {cnt}
           /\ F!D!dctinsert(word, cnt)
  <2>0. cnt \in Vals /\ cnt \notin DOMAIN cells
    BY <1>2
  <2>. HIDE DEF cnt
  <2>1. /\ DOMAIN cells' = DOMAIN cells \cup {cnt}
        /\ \A p \in DOMAIN cells' : cells'[p] = IF p = cnt THEN 1 ELSE cells[p]
    BY <1>2
  <2>2. /\ live' \subseteq DOMAIN cells' /\ DOMAIN cells' \subseteq Vals
        /\ \A p \in DOMAIN cells' : cells'[p] \in Nat \ {0}
        /\ IsFiniteSet(DOMAIN cells')
    <3>1. IsFiniteSet(DOMAIN cells')
      BY <2>1, FS_AddElement DEF FreqTypes
    <3>. QED  BY <2>0, <1>2, <2>1, <3>1 DEF FreqTypes, F!TypeOK
  <2>3. P!dctinsert(word, cnt) /\ P!DictAssumption /\ P!Core /\ P!Lookup(word) = NULL
    BY <1>2, Assumed, SameDctinsert, SameLookup DEF P!IInv
  <2>4. P!IInv' /\ P!Abstract!Insert(word, cnt)
    BY <2>0, <2>3, P!InsertStep
  <2>5. DictStep
    BY <2>0, <2>4 DEF DictStep, P!Abstract!Next
  <2>6. /\ cap' # 0
        /\ failures \in Nat /\ failures' \in Nat /\ failures' >= failures
        /\ \/ \A m : m \in P!NodesIn(arr, cap)'
                       <=> m \in P!NodesIn(arr, cap) \/ m = [key |-> word, val |-> cnt]
           \/ failures' > failures /\ P!Keeps
    BY <2>0, <2>3, P!InsertsNew
  <2>7. cnt \notin live /\ IsFiniteSet(live) /\ IsFiniteSet(live \ NodeVals)
        /\ Cardinality(live \ NodeVals) \in Nat
    <3>1. IsFiniteSet(live) /\ cnt \notin live
      BY <2>0, LiveFinite DEF FreqTypes, F!TypeOK
    <3>. QED  BY <3>1, FS_Subset, FS_CardinalityType
  <2>8. CASE \A m : m \in P!NodesIn(arr, cap)'
                     <=> m \in P!NodesIn(arr, cap) \/ m = [key |-> word, val |-> cnt]
    <3>1. NodeVals' = NodeVals \cup {cnt}
      <4>1. ASSUME NEW v
            PROVE  v \in NodeVals' <=> v \in NodeVals \/ v = cnt
        <5>1. v \in NodeVals' <=> \E m \in P!NodesIn(arr, cap)' : m.val = v
          BY DEF NodeVals
        <5>2. v \in NodeVals <=> \E m \in P!NodesIn(arr, cap) : m.val = v
          BY DEF NodeVals
        <5>3. [key |-> word, val |-> cnt].val = cnt
          OBVIOUS
        <5>. QED  BY <2>8, <5>1, <5>2, <5>3
      <4>. QED  BY <4>1
    <3>2. live' \ NodeVals' = live \ NodeVals
      BY <1>2, <2>7, <3>1
    <3>3. \A m \in P!NodesIn(arr, cap)' : m.val \in live'
      BY <1>2, <2>8 DEF OwnsLive
    <3>4. \A m, n \in P!NodesIn(arr, cap)' : m.val = n.val => m = n
      BY <2>7, <2>8 DEF OwnsLive
    <3>5. Cardinality(live' \ NodeVals') <= failures'
      <4>1. Cardinality(live' \ NodeVals') = Cardinality(live \ NodeVals)
        BY <3>2
      <4>2. Cardinality(live \ NodeVals) <= failures
        BY DEF OwnsLive
      <4>. QED  BY <2>6, <2>7, <4>1, <4>2
    <3>. QED  BY <2>2, <2>5, <2>6, <3>3, <3>4, <3>5 DEF OwnsLive
  <2>9. CASE failures' > failures /\ P!Keeps
    <3>1. NodeVals' = NodeVals
      BY <2>9 DEF NodeVals, P!Keeps
    <3>2. live' \ NodeVals' \subseteq (live \ NodeVals) \cup {cnt}
      BY <1>2, <3>1
    <3>3. Cardinality(live' \ NodeVals') <= Cardinality(live \ NodeVals) + 1
      <4>1. IsFiniteSet((live \ NodeVals) \cup {cnt})
            /\ Cardinality((live \ NodeVals) \cup {cnt}) = Cardinality(live \ NodeVals) + 1
        BY <2>7, FS_AddElement
      <4>. QED  BY <3>2, <4>1, FS_Subset
    <3>4. Cardinality(live' \ NodeVals') \in Nat
      BY <2>7, <3>2, FS_AddElement, FS_Subset, FS_CardinalityType
    <3>5. Cardinality(live' \ NodeVals') <= failures'
      BY <2>6, <2>7, <2>9, <3>3, <3>4 DEF OwnsLive
    <3>6. \A m \in P!NodesIn(arr, cap)' : m.val \in live'
      BY <1>2, <2>9 DEF OwnsLive, P!Keeps
    <3>7. \A m, n \in P!NodesIn(arr, cap)' : m.val = n.val => m = n
      BY <2>9 DEF OwnsLive, P!Keeps
    <3>. QED  BY <2>2, <2>5, <2>6, <3>5, <3>6, <3>7 DEF OwnsLive
  <2>. QED  BY <2>6, <2>8, <2>9
<1>. QED  BY <1>1, <1>2 DEF F!CountFirst

LEMMA EndOfWordStep ==
  ASSUME TextAssumption, WordsAreKeys, P!IInv, FreqInv, F!EndOfWord
  PROVE  DictStep /\ FreqInv'
<1>. DEFINE w == F!Strip(buf)
<1>1. /\ at = "read" /\ buf' = <<>> /\ file' = IF file = <<>> THEN file ELSE Tail(file)
      /\ UNCHANGED <<at, bufcap, printed, status, text>>
      /\ \/ w = <<>> /\ UNCHANGED <<F!dictionary, cells, live>>
         \/ w # <<>> /\ F!D!Lookup(w) # NULL /\ F!CountAgain(w)
         \/ w # <<>> /\ F!D!Lookup(w) = NULL /\ F!CountFirst(w)
  BY DEF F!EndOfWord
<1>2. w \in Keys \cup {<<>>}
  BY DEF FreqInv, FreqTypes, WordsAreKeys
<1>. HIDE DEF w
<1>3. /\ FreqTypes /\ OwnsLive /\ cap # 0
  BY <1>1 DEF FreqInv, Ownership
<1>4. /\ DictStep /\ OwnsLive' /\ cap' # 0
      /\ live' \subseteq DOMAIN cells' /\ DOMAIN cells' \subseteq Vals
      /\ \A p \in DOMAIN cells' : cells'[p] \in Nat \ {0}
      /\ IsFiniteSet(DOMAIN cells')
  <2>1. CASE UNCHANGED <<F!dictionary, cells, live>>
    <3>1. UNCHANGED <<cap, arr, size, call, result, failures, cells, live, at>>
      BY <1>1, <2>1 DEF F!dictionary
    <3>2. Ownership'
      BY <1>1, <2>1, OwnershipKept DEF FreqInv
    <3>. QED  BY <1>1, <1>3, <2>1, <3>1, <3>2, DictStutters DEF FreqTypes, F!TypeOK, Ownership
  <2>2. CASE F!CountAgain(w)
    <3>1. UNCHANGED <<F!dictionary, live>>
          /\ cells' = [cells EXCEPT ![F!D!Lookup(w)] = @ + 1]
      BY <2>2 DEF F!CountAgain
    <3>2. Ownership' /\ DictStep
      BY <1>1, <3>1, OwnershipKept, DictStutters DEF FreqInv
    <3>3. UNCHANGED <<cap, live, at>>
      BY <1>1, <3>1 DEF F!dictionary
    <3>4. DOMAIN cells' = DOMAIN cells
          /\ \A p \in DOMAIN cells : cells'[p] = cells[p] \/ cells'[p] = cells[p] + 1
      BY <3>1
    <3>. QED  BY <1>1, <1>3, <3>2, <3>3, <3>4 DEF FreqTypes, F!TypeOK, Ownership
  <2>3. CASE w # <<>> /\ F!D!Lookup(w) = NULL /\ F!CountFirst(w)
    BY <1>2, <1>3, <2>3, CountFirstStep
  <2>. QED  BY <1>1, <2>1, <2>2, <2>3
<1>5. FreqTypes'
  <2>1. file' \in Seq(Char)
    BY <1>1, <1>3, Ends DEF FreqTypes
  <2>2. buf' \in Seq(Char) /\ (at' = "read" => Len(buf') < bufcap')
    <3>1. Len(buf) \in Nat /\ Len(buf) < bufcap /\ bufcap \in Nat
      BY <1>1, <1>3 DEF FreqTypes, F!TypeOK
    <3>2. Len(buf') = 0 /\ buf' \in Seq(Char)
      BY <1>1
    <3>. QED  BY <1>1, <3>1, <3>2
  <2>. QED  BY <1>1, <1>3, <1>4, <2>1, <2>2 DEF FreqTypes, F!TypeOK
<1>6. Ownership'
  BY <1>1, <1>4 DEF Ownership
<1>. QED  BY <1>4, <1>5, <1>6 DEF FreqInv

\* A call of dctkeys.
LEMMA KeysListedStep ==
  ASSUME TextAssumption, P!IInv, FreqTypes, OwnsLive, F!D!dctkeys, UNCHANGED live
  PROVE  /\ DictStep /\ OwnsLive' /\ cap' = cap
         /\ \/ result' = NULL /\ (size' = 0 \/ failures' > 0)
            \/ result' = P!TheKeys' /\ P!TheKeys' # NULL
<1>1. P!dctkeys /\ P!DictAssumption /\ P!Core
  BY Assumed, SameDctkeys DEF P!IInv
<1>2. P!IInv' /\ P!Abstract!Enumerate
  BY <1>1, P!KeysStep
<1>3. /\ UNCHANGED <<cap, arr, size>>
      /\ failures \in Nat /\ failures' \in Nat /\ failures' >= failures
      /\ \/ result' = NULL /\ (size = 0 \/ failures' > 0)
         \/ result' = P!TheKeys /\ P!TheKeys # NULL
  BY <1>1, P!ListsAll
<1>4. P!TheKeys' = P!TheKeys
  BY <1>3 DEF P!TheKeys, P!AllNodes
<1>5. OwnsLive'
  BY <1>3, OwnsLiveKept, LiveFinite
<1>. QED  BY <1>2, <1>3, <1>4, <1>5 DEF DictStep, P!Abstract!Next

LEMMA EndOfFileStep ==
  ASSUME TextAssumption, P!IInv, FreqInv, F!EndOfFile
  PROVE  DictStep /\ FreqInv'
<1>1. /\ at = "read" /\ UNCHANGED <<file, text, buf, bufcap, cells, live, printed, status>>
      /\ \/ at' = "free" /\ UNCHANGED F!dictionary
         \/ at' = "print" /\ F!D!dctkeys
  BY DEF F!EndOfFile, F!locals
<1>2. FreqTypes /\ OwnsLive /\ cap # 0
  BY <1>1 DEF FreqInv, Ownership
<1>3. DictStep /\ OwnsLive' /\ cap' # 0
  <2>1. CASE UNCHANGED F!dictionary
    <3>1. UNCHANGED <<cap, arr, failures>>
      BY <2>1 DEF F!dictionary
    <3>2. OwnsLive'
      BY <1>1, <1>2, <3>1 DEF OwnsLive, NodeVals
    <3>. QED  BY <1>2, <2>1, <3>1, <3>2, DictStutters
  <2>2. CASE F!D!dctkeys
    BY <1>1, <1>2, <2>2, KeysListedStep
  <2>. QED  BY <1>1, <2>1, <2>2
<1>4. FreqTypes'
  BY <1>1, <1>2 DEF FreqTypes, F!TypeOK
<1>5. Ownership'
  BY <1>1, <1>3 DEF Ownership
<1>. QED  BY <1>3, <1>4, <1>5 DEF FreqInv

LEMMA ShowTopStep ==
  ASSUME TextAssumption, P!IInv, FreqInv, F!ShowTop
  PROVE  DictStep /\ FreqInv'
<1>1. /\ at = "print" /\ at' = "free"
      /\ UNCHANGED <<cap, arr, size, call, result, file, buf, bufcap, cells, live, status, text>>
      /\ F!D!Fails \/ F!D!Succeeds
  BY DEF F!ShowTop
<1>2. /\ DictStep /\ failures \in Nat /\ failures' \in Nat /\ failures' >= failures
  BY <1>1, DictAlone
<1>3. FreqTypes /\ OwnsLive /\ cap # 0
  BY <1>1 DEF FreqInv, Ownership
<1>4. OwnsLive'
  BY <1>1, <1>2, <1>3, OwnsLiveKept, LiveFinite
<1>5. FreqTypes'
  BY <1>1, <1>3 DEF FreqTypes, F!TypeOK
<1>6. Ownership'
  BY <1>1, <1>3, <1>4 DEF Ownership
<1>. QED  BY <1>2, <1>5, <1>6 DEF FreqInv

LEMMA KeysToFreeStep ==
  ASSUME TextAssumption, P!IInv, FreqInv, F!KeysToFree
  PROVE  DictStep /\ FreqInv'
<1>1. /\ at = "free" /\ at' = "freeing" /\ F!D!dctkeys
      /\ UNCHANGED <<file, text, buf, bufcap, cells, live, printed, status>>
  BY DEF F!KeysToFree, F!locals
<1>2. FreqTypes /\ OwnsLive /\ cap # 0
  BY <1>1 DEF FreqInv, Ownership
<1>3. /\ DictStep /\ OwnsLive' /\ cap' = cap
      /\ \/ result' = NULL /\ (size' = 0 \/ failures' > 0)
         \/ result' = P!TheKeys' /\ P!TheKeys' # NULL
  BY <1>1, <1>2, KeysListedStep
<1>4. FreqTypes'
  BY <1>1, <1>2 DEF FreqTypes, F!TypeOK
<1>5. Ownership'
  BY <1>1, <1>2, <1>3 DEF Ownership
<1>. QED  BY <1>3, <1>4, <1>5 DEF FreqInv

\* Every count that the dictionary points to is freed: none is left, unless an
\* allocation failed.
LEMMA FreeCountsStep ==
  ASSUME TextAssumption, P!IInv, FreqInv, F!FreeCounts
  PROVE  DictStep /\ FreqInv'
<1>1. /\ at = "freeing" /\ at' = "destroy" /\ UNCHANGED F!dictionary
      /\ live' = IF result = NULL THEN live
                 ELSE live \ {F!D!Lookup(result[i]) : i \in DOMAIN result}
      /\ UNCHANGED <<file, buf, bufcap, cells, printed, status, text>>
  BY DEF F!FreeCounts
<1>2. FreqTypes /\ OwnsLive /\ cap # 0 /\ P!Core /\ P!DictAssumption
  BY <1>1, Assumed DEF FreqInv, Ownership, P!IInv
<1>3. failures \in Nat /\ failures' = failures
  <2>1. failures \in 0 .. MaxFailures /\ MaxFailures \in Nat
    BY <1>2 DEF P!Core, P!DictAssumption
  <2>. QED  BY <1>1, <2>1 DEF F!dictionary
<1>4. failures = 0 => live' \subseteq live \ NodeVals
  <2>1. CASE result = NULL /\ (size = 0 \/ failures > 0)
    <3>1. size = 0 => NodeVals = {}
      BY <1>2, P!EmptyHasNone DEF NodeVals
    <3>. QED  BY <1>1, <1>3, <2>1, <3>1
  <2>2. CASE result = P!TheKeys /\ P!TheKeys # NULL
    <3>1. live' = live \ {F!D!Lookup(P!TheKeys[i]) : i \in DOMAIN P!TheKeys}
      BY <1>1, <2>2
    <3>2. ASSUME NEW v \in NodeVals PROVE \E j \in DOMAIN P!TheKeys : P!Lookup(P!TheKeys[j]) = v
      <4>1. \E m \in P!NodesIn(arr, cap) : m.val = v
        BY DEF NodeVals
      <4>. QED  BY <1>2, <4>1, P!ValuesListed
    <3>. QED  BY <3>1, <3>2, SameLookup
  <2>. QED  BY <1>1, <2>1, <2>2 DEF FreqInv, Ownership
<1>5. failures = 0 => live' = {}
  <2>1. IsFiniteSet(live \ NodeVals) /\ Cardinality(live \ NodeVals) \in Nat
    BY <1>2, LiveFinite, FS_Subset, FS_CardinalityType
  <2>2. failures = 0 => Cardinality(live \ NodeVals) = 0
    BY <1>2, <2>1 DEF OwnsLive
  <2>. QED  BY <1>4, <2>1, <2>2, FS_EmptySet
<1>6. FreqTypes'
  BY <1>1, <1>2 DEF FreqTypes, F!TypeOK
<1>7. Ownership'
  BY <1>1, <1>3, <1>5 DEF Ownership
<1>. QED  BY <1>1, <1>6, <1>7, DictStutters DEF FreqInv

LEMMA DestroyStep ==
  ASSUME TextAssumption, P!IInv, FreqInv, F!Destroy
  PROVE  DictStep /\ FreqInv'
<1>1. /\ at = "destroy" /\ at' = "exit" /\ F!D!dctdestroy
      /\ UNCHANGED <<file, text, buf, bufcap, cells, live, printed, status>>
  BY DEF F!Destroy, F!locals
<1>2. P!dctdestroy /\ P!DictAssumption /\ P!Core
  BY <1>1, Assumed, SameDctdestroy DEF P!IInv
<1>3. P!IInv' /\ P!Abstract!Destroy
  BY <1>2, P!DestroyStep
<1>4. failures' = failures
  BY <1>2 DEF P!dctdestroy, P!Succeeds
<1>5. FreqTypes'
  BY <1>1 DEF FreqInv, FreqTypes, F!TypeOK
<1>6. Ownership'
  BY <1>1, <1>4 DEF FreqInv, Ownership
<1>. QED  BY <1>3, <1>5, <1>6 DEF FreqInv, DictStep, P!Abstract!Next

\* Every step of freq.
LEMMA FreqStep ==
  ASSUME TextAssumption, WordsAreKeys, P!IInv, FreqInv, F!Next
  PROVE  DictStep /\ FreqInv'
BY CannotStartStep, StartStep, BufferStep, TakeStep, SkipSpaceStep, EndOfWordStep,
   EndOfFileStep, ShowTopStep, KeysToFreeStep, FreeCountsStep, DestroyStep DEF F!Next

\* The counts of the dictionary, as Freq names them.
LEMMA OwnedIs ==
  ASSUME P!Core
  PROVE  F!Owned = NodeVals
<1>1. DOMAIN arr = 0 .. cap - 1
  BY DEF P!Core, P!Table
<1>2. \A i \in 0 .. cap - 1 : DOMAIN arr[i] = 1 .. Len(arr[i])
  BY DEF P!Core, P!Table
<1>3. ASSUME NEW v PROVE v \in F!Owned <=> v \in NodeVals
  <2>1. v \in F!Owned <=> \E i \in DOMAIN arr : \E j \in DOMAIN arr[i] : arr[i][j].val = v
    BY DEF F!Owned
  <2>2. v \in NodeVals <=> \E m \in P!NodesIn(arr, cap) : m.val = v
    BY DEF NodeVals
  <2>3. \A m : m \in P!NodesIn(arr, cap)
                 <=> \E i \in 0 .. cap - 1 : \E j \in 1 .. Len(arr[i]) : arr[i][j] = m
    BY P!NodesInDef
  <2>. QED  BY <1>1, <1>2, <2>1, <2>2, <2>3
<1>. QED  BY <1>3

LEMMA FreqInvIs ==
  ASSUME P!IInv, FreqInv
  PROVE  F!TypeOK /\ CountsOwned
<1>1. P!Core /\ F!TypeOK
  BY DEF P!IInv, FreqInv, FreqTypes
<1>2. ASSUME OwnsLive PROVE Cardinality(NodeVals) = size
  <2>1. \A m, n \in P!NodesIn(arr, cap) : m.val = n.val => m = n
    BY <1>2 DEF OwnsLive
  <2>2. Cardinality({m.val : m \in P!NodesIn(arr, cap)}) = size
    BY <1>1, <2>1, P!ValuesCounted, SameCardinality
  <2>. QED  BY <2>2 DEF NodeVals
<1>3. ASSUME OwnsLive
      PROVE  NodeVals \subseteq live /\ Cardinality(live \ NodeVals) <= failures
  BY <1>3 DEF OwnsLive, NodeVals
<1>4. F!CountsOwned
  <2>1. at \in {"read", "print", "free"} => OwnsLive
    BY DEF FreqInv, Ownership
  <2>2. at = "exit" /\ failures = 0 => live = {}
    BY DEF FreqInv, Ownership
  <2>3. F!Owned = NodeVals
    BY <1>1, OwnedIs
  <2>. QED  BY <1>2, <1>3, <2>1, <2>2, <2>3, SameCardinality DEF F!CountsOwned
<1>. QED  BY <1>1, <1>4 DEF CountsOwned
-----------------------------------------------------------------------------
(* hist: sums over finite sets, as the library computes them.               *)

\* The sum of g over each of some sets: a member is taken out, and the rest
\* is summed.
IsSum(f, g, Dom) ==
  f = [s \in Dom |-> IF s = {} THEN 0
                     ELSE g[CHOOSE x \in s : TRUE] + f[s \ {CHOOSE x \in s : TRUE}]]

Small(S, n) == {s \in SUBSET S : Cardinality(s) <= n}

LEMMA SumAt ==
  ASSUME NEW f, NEW g, NEW Dom, IsSum(f, g, Dom), NEW s \in Dom
  PROVE  f[s] = IF s = {} THEN 0
                ELSE g[CHOOSE x \in s : TRUE] + f[s \ {CHOOSE x \in s : TRUE}]
<1>1. f = [t \in Dom |-> IF t = {} THEN 0
                         ELSE g[CHOOSE x \in t : TRUE] + f[t \ {CHOOSE x \in t : TRUE}]]
  BY DEF IsSum
<1>. QED  BY <1>1

\* A set without one of its members is smaller.
LEMMA Smaller ==
  ASSUME NEW S, IsFiniteSet(S), NEW s \in SUBSET S, s # {}
  PROVE  LET x == CHOOSE x \in s : TRUE
         IN  /\ x \in s /\ s \ {x} \in SUBSET S /\ IsFiniteSet(s)
             /\ Cardinality(s) \in Nat /\ Cardinality(s \ {x}) = Cardinality(s) - 1
<1>. DEFINE x == CHOOSE x \in s : TRUE
<1>1. x \in s
  OBVIOUS
<1>. HIDE DEF x
<1>2. IsFiniteSet(s)
  BY FS_Subset
<1>3. Cardinality(s) \in Nat /\ Cardinality(s \ {x}) = Cardinality(s) - 1
  BY <1>1, <1>2, FS_CardinalityType, FS_RemoveElement
<1>. QED  BY <1>1, <1>2, <1>3 DEF x

LEMMA SumExists ==
  ASSUME NEW S, IsFiniteSet(S), NEW g
  PROVE  \A n \in Nat : \E f : IsSum(f, g, Small(S, n))
<1>. DEFINE T == {n \in Nat : \E f : IsSum(f, g, Small(S, n))}
            pick(s) == CHOOSE x \in s : TRUE
<1>1. 0 \in T
  <2>. DEFINE e == [s \in Small(S, 0) |-> 0]
  <2>1. \A s \in Small(S, 0) : s = {}
    BY FS_Subset, FS_EmptySet, FS_CardinalityType DEF Small
  <2>2. IsSum(e, g, Small(S, 0))
    BY <2>1 DEF IsSum
  <2>. QED  BY <2>2
<1>2. ASSUME NEW n \in Nat, n \in T PROVE n + 1 \in T
  <2>1. PICK h : IsSum(h, g, Small(S, n))
    BY <1>2
  <2>. DEFINE f == [s \in Small(S, n + 1) |->
                      IF s = {} THEN 0 ELSE g[pick(s)] + h[s \ {pick(s)}]]
  <2>2. \A s \in Small(S, n) : s \in Small(S, n + 1)
    BY FS_Subset, FS_CardinalityType DEF Small
  <2>3. ASSUME NEW s \in Small(S, n) PROVE f[s] = h[s]
    <3>1. h[s] = IF s = {} THEN 0 ELSE g[pick(s)] + h[s \ {pick(s)}]
      BY <2>1, SumAt
    <3>. QED  BY <2>2, <3>1
  <2>4. ASSUME NEW s \in Small(S, n + 1), s # {} PROVE s \ {pick(s)} \in Small(S, n)
    <3>1. /\ s \ {pick(s)} \in SUBSET S
          /\ Cardinality(s) \in Nat /\ Cardinality(s \ {pick(s)}) = Cardinality(s) - 1
      BY <2>4, Smaller DEF Small
    <3>. HIDE DEF pick
    <3>. QED  BY <3>1 DEF Small
  <2>5. f = [s \in Small(S, n + 1) |->
               IF s = {} THEN 0 ELSE g[pick(s)] + f[s \ {pick(s)}]]
    <3>1. ASSUME NEW s \in Small(S, n + 1), s # {} PROVE h[s \ {pick(s)}] = f[s \ {pick(s)}]
      BY <2>3, <2>4, <3>1
    <3>2. f = [s \in Small(S, n + 1) |->
                 IF s = {} THEN 0 ELSE g[pick(s)] + h[s \ {pick(s)}]]
      OBVIOUS
    <3>. HIDE DEF f, pick
    <3>. QED  BY <3>1, <3>2
  <2>. HIDE DEF f
  <2>6. IsSum(f, g, Small(S, n + 1))
    BY <2>5 DEF IsSum
  <2>. QED  BY <2>6
<1>. HIDE DEF T
<1>3. \A n \in Nat : n \in T
  BY <1>1, <1>2, P!Induction
<1>. QED  BY <1>3 DEF T

LEMMA SumOfSubsets ==
  ASSUME NEW S, IsFiniteSet(S), NEW g
  PROVE  \E f : IsSum(f, g, SUBSET S)
<1>1. Cardinality(S) \in Nat /\ \A s \in SUBSET S : Cardinality(s) <= Cardinality(S)
  BY FS_Subset, FS_CardinalityType
<1>. DEFINE n == Cardinality(S)
<1>2. \A s : s \in Small(S, n) <=> s \in SUBSET S
  <2>. HIDE DEF n
  <2>1. Small(S, n) = {s \in SUBSET S : Cardinality(s) <= n}
    BY DEF Small
  <2>. QED  BY <1>1, <2>1 DEF n
<1>3. Small(S, n) = SUBSET S
  BY <1>2
<1>. HIDE DEF n
<1>4. n \in Nat
  BY <1>1 DEF n
<1>5. \E f : IsSum(f, g, Small(S, n))
  BY <1>4, SumExists
<1>. QED  BY <1>3, <1>5

\* The sum of the library is the value of such a function.
SumOver(g, S) == H!MapThenSumSet(LAMBDA k : g[k], S)

LEMMA SumFun ==
  ASSUME NEW S, IsFiniteSet(S), NEW g
  PROVE  \E f : IsSum(f, g, SUBSET S) /\ SumOver(g, S) = f[S]
<1>1. SumOver(g, S)
        = (CHOOSE f : f = [s \in SUBSET S |->
             IF s = {} THEN 0
             ELSE g[CHOOSE x \in s : TRUE] + f[s \ {CHOOSE x \in s : TRUE}]])[S]
  BY DEF SumOver, H!MapThenSumSet, H!MapThenFoldSet
<1>2. \E f : f = [s \in SUBSET S |->
             IF s = {} THEN 0
             ELSE g[CHOOSE x \in s : TRUE] + f[s \ {CHOOSE x \in s : TRUE}]]
  <2>1. PICK f : IsSum(f, g, SUBSET S)
    BY SumOfSubsets
  <2>. QED  BY <2>1 DEF IsSum
<1>. QED  BY <1>1, <1>2 DEF IsSum

\* A sum of integers is an integer.
LEMMA SumType ==
  ASSUME NEW S, IsFiniteSet(S), NEW g, \A x \in S : g[x] \in Int,
         NEW f, IsSum(f, g, SUBSET S)
  PROVE  f[S] \in Int
<1>. DEFINE T == {n \in Nat : \A s \in SUBSET S : Cardinality(s) = n => f[s] \in Int}
<1>1. 0 \in T
  <2>1. ASSUME NEW s \in SUBSET S, Cardinality(s) = 0 PROVE f[s] \in Int
    <3>1. s = {}
      BY <2>1, FS_Subset, FS_EmptySet
    <3>2. f[s] = 0
      BY <3>1, SumAt
    <3>. QED  BY <3>2
  <2>. QED  BY <2>1
<1>2. ASSUME NEW n \in Nat, n \in T PROVE n + 1 \in T
  <2>1. ASSUME NEW s \in SUBSET S, Cardinality(s) = n + 1 PROVE f[s] \in Int
    <3>. DEFINE x == CHOOSE x \in s : TRUE
                r == s \ {x}
    <3>1. s # {}
      BY <2>1, FS_EmptySet
    <3>2. x \in s /\ r \in SUBSET S /\ Cardinality(r) = n
      BY <2>1, <3>1, Smaller
    <3>3. f[s] = g[x] + f[r]
      BY <3>1, SumAt
    <3>4. f[r] \in Int
      BY <1>2, <3>2
    <3>. HIDE DEF x, r
    <3>. QED  BY <3>2, <3>3, <3>4
  <2>. QED  BY <2>1
<1>. HIDE DEF T
<1>3. \A n \in Nat : n \in T
  BY <1>1, <1>2, P!Induction
<1>4. Cardinality(S) \in Nat
  BY FS_CardinalityType
<1>. QED  BY <1>3, <1>4 DEF T

\* If g counts the members of I in each of some disjoint classes, its sum
\* counts those in any of them.
Class(I, b, s) == {i \in I : b[i] \in s}
CountsClasses(g, I, b, S) == \A x \in S : g[x] = Cardinality(Class(I, b, {x}))

LEMMA DisjointUnion ==
  ASSUME NEW U, NEW V, IsFiniteSet(U), IsFiniteSet(V), U \cap V = {}
  PROVE  Cardinality(U \cup V) = Cardinality(U) + Cardinality(V)
<1>1. Cardinality(U) \in Nat /\ Cardinality(V) \in Nat /\ Cardinality(U \cap V) = 0
  BY FS_CardinalityType, FS_EmptySet
<1>2. Cardinality(U \cup V) = Cardinality(U) + Cardinality(V) - Cardinality(U \cap V)
  BY FS_Union
<1>. QED  BY <1>1, <1>2

LEMMA SumOfClasses ==
  ASSUME NEW S, IsFiniteSet(S), NEW g, NEW I, IsFiniteSet(I), NEW b,
         CountsClasses(g, I, b, S),
         NEW f, IsSum(f, g, SUBSET S)
  PROVE  f[S] = Cardinality(Class(I, b, S))
<1>. DEFINE T == {n \in Nat : \A s \in SUBSET S :
                    Cardinality(s) = n => f[s] = Cardinality(Class(I, b, s))}
<1>1. 0 \in T
  <2>1. ASSUME NEW s \in SUBSET S, Cardinality(s) = 0
        PROVE  f[s] = Cardinality(Class(I, b, s))
    <3>1. s = {}
      BY <2>1, FS_Subset, FS_EmptySet
    <3>2. f[s] = 0
      BY <3>1, SumAt
    <3>3. Class(I, b, s) = {}
      BY <3>1 DEF Class
    <3>. QED  BY <3>2, <3>3, FS_EmptySet
  <2>. QED  BY <2>1
<1>2. ASSUME NEW n \in Nat, n \in T PROVE n + 1 \in T
  <2>1. ASSUME NEW s \in SUBSET S, Cardinality(s) = n + 1
        PROVE  f[s] = Cardinality(Class(I, b, s))
    <3>. DEFINE x == CHOOSE x \in s : TRUE
                r == s \ {x}
    <3>1. s # {}
      BY <2>1, FS_EmptySet
    <3>2. x \in s /\ r \in SUBSET S /\ Cardinality(r) = n
      BY <2>1, <3>1, Smaller
    <3>3. f[s] = g[x] + f[r]
      BY <3>1, SumAt, ZenonT(60)
    <3>4. f[r] = Cardinality(Class(I, b, r))
      BY <1>2, <3>2
    <3>5. x \in s /\ x \notin r /\ s = {x} \cup r
      BY <3>2
    <3>. HIDE DEF x, r
    <3>6. /\ Class(I, b, s) = Class(I, b, {x}) \cup Class(I, b, r)
          /\ Class(I, b, {x}) \cap Class(I, b, r) = {}
      BY <3>5 DEF Class
    <3>7. IsFiniteSet(Class(I, b, {x})) /\ IsFiniteSet(Class(I, b, r))
      BY FS_Subset DEF Class
    <3>8. Cardinality(Class(I, b, {x}) \cup Class(I, b, r))
            = Cardinality(Class(I, b, {x})) + Cardinality(Class(I, b, r))
      BY <3>6, <3>7, DisjointUnion
    <3>9. g[x] = Cardinality(Class(I, b, {x}))
      BY <3>2 DEF CountsClasses
    <3>. QED  BY <3>3, <3>4, <3>6, <3>8, <3>9
  <2>. QED  BY <2>1
<1>. HIDE DEF T
<1>3. \A n \in Nat : n \in T
  BY <1>1, <1>2, P!Induction
<1>4. Cardinality(S) \in Nat
  BY FS_CardinalityType
<1>. QED  BY <1>3, <1>4 DEF T

-----------------------------------------------------------------------------
(* hist: the arithmetic of C.                                               *)

LEMMA Rounds ==
  ASSUME NEW x \in Int
  PROVE  /\ H!round_down_10(x) \in Int /\ H!round_down_10(x) % 10 = 0
         /\ H!round_down_10(x) <= x /\ x < H!round_down_10(x) + 10
         /\ H!round_up_10(x) \in Int /\ H!round_up_10(x) % 10 = 0
         /\ x <= H!round_up_10(x) /\ H!round_up_10(x) < x + 10
<1>1. CASE x >= 0
  <2>1. H!Quot(x, 10) = x \div 10
    BY <1>1 DEF H!Quot
  <2>2. H!Rem(x, 10) = x % 10
    BY <1>1, <2>1 DEF H!Rem
  <2>3. H!round_down_10(x) = (x \div 10) * 10
    BY <1>1, <2>1 DEF H!round_down_10, H!floor_div
  <2>4. H!round_up_10(x) = IF x % 10 = 0 THEN (x \div 10) * 10 ELSE (x \div 10 + 1) * 10
    BY <1>1, <2>1, <2>2 DEF H!round_up_10, H!ceil_div
  <2>. QED  BY <1>1, <2>3, <2>4
<1>2. CASE x < 0
  <2>. DEFINE y == -x
  <2>1. y \in Nat /\ y > 0 /\ x = -y
    BY <1>2
  <2>2. H!Quot(x, 10) = -(y \div 10)
    BY <1>2 DEF H!Quot
  <2>. HIDE DEF y
  <2>3. H!Rem(x, 10) = -(y % 10)
    BY <2>1, <2>2 DEF H!Rem
  <2>4. H!round_down_10(x) = IF y % 10 = 0 THEN -(y \div 10) * 10 ELSE (-(y \div 10) - 1) * 10
    BY <1>2, <2>1, <2>2, <2>3 DEF H!round_down_10, H!floor_div
  <2>5. H!round_up_10(x) = -(y \div 10) * 10
    BY <1>2, <2>1, <2>2 DEF H!round_up_10, H!ceil_div
  <2>. QED  BY <2>1, <2>4, <2>5
<1>. QED  BY <1>1, <1>2

LEMMA ToIntType ==
  ASSUME H!HistAssumption, NEW x \in Int
  PROVE  /\ H!ToInt(x) \in Int
         /\ x >= 0 /\ x + IntValues \div 2 < IntValues => H!ToInt(x) = x
<1>. DEFINE n == IntValues
            h == n \div 2
            y == x + h
<1>1. n \in Nat /\ n > 0
  BY DEF H!HistAssumption
<1>2. h \in Nat
  BY <1>1
<1>3. H!ToInt(x) = (y % n) - h
  BY DEF H!ToInt
<1>. HIDE DEF n, h
<1>4. y \in Int /\ y % n \in Int
  BY <1>1, <1>2
<1>5. y >= 0 /\ y < n => y % n = y
  <2>. HIDE DEF y
  <2>. QED  BY <1>1, <1>4
<1>. QED  BY <1>2, <1>3, <1>4, <1>5 DEF n, h

\* Half of an even number.
LEMMA Halves ==
  ASSUME NEW k \in Nat
  PROVE  H!Quot(2 * k, 2) = k
BY DEF H!Quot

LEMMA QuotType ==
  ASSUME NEW x \in Int
  PROVE  H!Quot(x, 2) \in Int /\ (H!Rem(x, 2) = 0 <=> x % 2 = 0)
<1>1. CASE x >= 0
  BY <1>1 DEF H!Quot, H!Rem
<1>2. CASE x < 0
  <2>. DEFINE y == -x
  <2>1. y \in Nat /\ x = -y
    BY <1>2
  <2>2. H!Quot(x, 2) = -(y \div 2)
    BY <1>2 DEF H!Quot
  <2>. HIDE DEF y
  <2>. QED  BY <2>1, <2>2 DEF H!Rem
<1>. QED  BY <1>1, <1>2

\* The least and the greatest of some numbers.
LEMMA Extremes ==
  ASSUME NEW s \in Seq(Int), s # <<>>
  PROVE  /\ \E i \in DOMAIN s : s[i] = H!Min(H!ToSet(s))
         /\ \A i \in DOMAIN s : H!Min(H!ToSet(s)) <= s[i]
         /\ \E i \in DOMAIN s : s[i] = H!Max(H!ToSet(s))
         /\ \A i \in DOMAIN s : s[i] <= H!Max(H!ToSet(s))
<1>. DEFINE T == {n \in Nat : n \in 1 .. Len(s) =>
                    /\ \E i \in 1 .. n : \A j \in 1 .. n : s[i] <= s[j]
                    /\ \E i \in 1 .. n : \A j \in 1 .. n : s[j] <= s[i]}
<1>1. Len(s) \in Nat /\ Len(s) > 0 /\ DOMAIN s = 1 .. Len(s)
      /\ \A i \in 1 .. Len(s) : s[i] \in Int
  OBVIOUS
<1>2. 0 \in T
  OBVIOUS
<1>3. ASSUME NEW n \in Nat, n \in T PROVE n + 1 \in T
  <2>1. SUFFICES ASSUME n + 1 \in 1 .. Len(s)
                 PROVE  /\ \E i \in 1 .. n + 1 : \A j \in 1 .. n + 1 : s[i] <= s[j]
                        /\ \E i \in 1 .. n + 1 : \A j \in 1 .. n + 1 : s[j] <= s[i]
    OBVIOUS
  <2>2. CASE n = 0
    BY <1>1, <2>1, <2>2
  <2>3. CASE n # 0
    <3>1. n \in 1 .. Len(s)
      BY <2>1, <2>3
    <3>2. PICK lo \in 1 .. n : \A j \in 1 .. n : s[lo] <= s[j]
      BY <1>3, <3>1
    <3>3. PICK hi \in 1 .. n : \A j \in 1 .. n : s[j] <= s[hi]
      BY <1>3, <3>1
    <3>. DEFINE k == n + 1
                l == IF s[lo] <= s[k] THEN lo ELSE k
                h == IF s[hi] >= s[k] THEN hi ELSE k
    <3>4. /\ s[lo] \in Int /\ s[hi] \in Int /\ s[k] \in Int
          /\ \A j \in 1 .. k : s[j] \in Int /\ (j \in 1 .. n \/ j = k)
      BY <1>1, <2>1, <3>1
    <3>5. lo \in 1 .. k /\ hi \in 1 .. k /\ k \in 1 .. k
      OBVIOUS
    <3>. HIDE DEF k
    <3>6. l \in 1 .. k /\ h \in 1 .. k
      BY <3>5
    <3>7. \A j \in 1 .. k : s[l] <= s[j]
      <4>1. CASE s[lo] <= s[k]
        BY <3>2, <3>4, <4>1
      <4>2. CASE s[k] < s[lo]
        <5>1. ASSUME NEW j \in 1 .. k PROVE s[k] <= s[j]
          <6>1. s[j] \in Int /\ (j = k \/ s[lo] <= s[j])
            BY <3>2, <3>4
          <6>. QED  BY <3>4, <4>2, <6>1
        <5>2. l = k
          BY <3>4, <4>2
        <5>. QED  BY <5>1, <5>2
      <4>. QED  BY <3>4, <4>1, <4>2
    <3>8. \A j \in 1 .. k : s[j] <= s[h]
      <4>1. CASE s[hi] >= s[k]
        BY <3>3, <3>4, <4>1
      <4>2. CASE s[hi] < s[k]
        <5>1. ASSUME NEW j \in 1 .. k PROVE s[j] <= s[k]
          <6>1. s[j] \in Int /\ (j = k \/ s[j] <= s[hi])
            BY <3>3, <3>4
          <6>. QED  BY <3>4, <4>2, <6>1
        <5>2. h = k
          BY <3>4, <4>2
        <5>. QED  BY <5>1, <5>2
      <4>. QED  BY <3>4, <4>1, <4>2
    <3>. HIDE DEF l, h
    <3>. QED  BY <3>6, <3>7, <3>8 DEF k
  <2>. QED  BY <2>2, <2>3
<1>. HIDE DEF T
<1>4. \A n \in Nat : n \in T
  BY <1>2, <1>3, P!Induction
<1>5. Len(s) \in T /\ Len(s) \in 1 .. Len(s)
  BY <1>1, <1>4
<1>. DEFINE V == H!ToSet(s)
<1>6. \A v : v \in V <=> \E i \in DOMAIN s : s[i] = v
  BY DEF H!ToSet
<1>. HIDE DEF V
<1>7. H!Min(V) \in V /\ \A v \in V : H!Min(V) <= v
  <2>1. \E u \in V : \A v \in V : u <= v
    BY <1>1, <1>5, <1>6, ZenonT(60) DEF T
  <2>. QED  BY <2>1 DEF H!Min
<1>8. H!Max(V) \in V /\ \A v \in V : H!Max(V) >= v
  <2>1. \E u \in V : \A v \in V : u >= v
    <3>1. PICK i \in 1 .. Len(s) : \A j \in 1 .. Len(s) : s[j] <= s[i]
      BY <1>5 DEF T
    <3>2. \A v \in V : v \in Int /\ v <= s[i]
      BY <1>1, <1>6, <3>1
    <3>3. s[i] \in V /\ s[i] \in Int
      BY <1>1, <1>6
    <3>. QED  BY <3>2, <3>3
  <2>. QED  BY <2>1 DEF H!Max
<1>9. \A v \in V : v \in Int
  BY <1>1, <1>6
<1>. QED  BY <1>6, <1>7, <1>8, <1>9 DEF V

LEMMA OfTwo ==
  ASSUME NEW a \in Int, NEW b \in Int
  PROVE  /\ H!Max({a, b}) = IF a >= b THEN a ELSE b
         /\ H!Min({a, b}) = IF a <= b THEN a ELSE b
<1>1. H!Max({a, b}) \in {a, b} /\ \A y \in {a, b} : H!Max({a, b}) >= y
  <2>1. \E x \in {a, b} : \A y \in {a, b} : x >= y
    OBVIOUS
  <2>. QED  BY <2>1 DEF H!Max
<1>2. H!Min({a, b}) \in {a, b} /\ \A y \in {a, b} : H!Min({a, b}) <= y
  <2>1. \E x \in {a, b} : \A y \in {a, b} : x <= y
    OBVIOUS
  <2>. QED  BY <2>1 DEF H!Min
<1>. QED  BY <1>1, <1>2

-----------------------------------------------------------------------------
(* hist: the intervals, and what is drawn.                                  *)

\* The histogram goes from a multiple of ten to another, and the data are in
\* between.
LEMMA Span ==
  ASSUME data \in Seq(Int), data # <<>>
  PROVE  /\ H!first \in Int /\ H!first % 10 = 0 /\ H!last \in Int /\ H!last % 10 = 0
         /\ H!first <= H!last
         /\ \A i \in DOMAIN data : H!first <= data[i] /\ data[i] <= H!last
         /\ \E i \in DOMAIN data : data[i] < H!first + 10
         /\ \E i \in DOMAIN data : data[i] > H!last - 10
<1>. DEFINE a == H!Min(H!ToSet(data))
            z == H!Max(H!ToSet(data))
<1>1. /\ \E i \in DOMAIN data : data[i] = a
      /\ \A i \in DOMAIN data : a <= data[i]
      /\ \E i \in DOMAIN data : data[i] = z
      /\ \A i \in DOMAIN data : data[i] <= z
  BY Extremes
<1>2. H!first = H!round_down_10(a) /\ H!last = H!round_up_10(z)
  BY DEF H!first, H!last
<1>. HIDE DEF a, z
<1>3. \A i \in DOMAIN data : data[i] \in Int
  OBVIOUS
<1>4. a \in Int /\ z \in Int /\ a <= z
  BY <1>1, <1>3
<1>5. /\ H!first \in Int /\ H!first % 10 = 0 /\ H!first <= a /\ a < H!first + 10
      /\ H!last \in Int /\ H!last % 10 = 0 /\ z <= H!last /\ H!last < z + 10
  BY <1>2, <1>4, Rounds
<1>6. \A i \in DOMAIN data : H!first <= data[i] /\ data[i] <= H!last
  BY <1>1, <1>3, <1>4, <1>5
<1>7. \E i \in DOMAIN data : data[i] < H!first + 10
  BY <1>1, <1>4, <1>5
<1>8. \E i \in DOMAIN data : data[i] > H!last - 10
  BY <1>1, <1>4, <1>5
<1>. QED  BY <1>4, <1>5, <1>6, <1>7, <1>8

LEMMA EvenSpan ==
  ASSUME NEW x \in Int, NEW y \in Int, x % 10 = 0, y % 10 = 0, x <= y
  PROVE  \E k \in Nat : y = x + 2 * k
<1>. DEFINE k == 5 * ((y \div 10) - (x \div 10))
<1>1. k \in Nat /\ y = x + 2 * k
  OBVIOUS
<1>. QED  BY <1>1

\* There is an interval, and every datapoint is counted in one.
LEMMA BinsType ==
  ASSUME H!HistAssumption, data \in Seq(Int), data # <<>>
  PROVE  H!bins \in Nat /\ H!bins > 0 /\ \A x \in Int : H!Bin(x) \in 0 .. H!bins - 1
<1>1. H!first \in Int /\ H!last \in Int
  BY Span
<1>2. H!bins \in Nat /\ H!bins > 0
  <2>. DEFINE q == H!ToInt(H!Quot(H!last - H!first, 2)) + 1
  <2>1. q \in Int
    <3>1. H!last - H!first \in Int
      BY <1>1
    <3>2. H!Quot(H!last - H!first, 2) \in Int
      BY <3>1, QuotType
    <3>. QED  BY <3>2, ToIntType
  <2>2. H!bins = H!Max({1, q})
    BY DEF H!bins
  <2>. HIDE DEF q
  <2>. QED  BY <2>1, <2>2, OfTwo
<1>3. ASSUME NEW x \in Int PROVE H!Bin(x) \in 0 .. H!bins - 1
  <2>. DEFINE u == IF H!Rem(x, 2) = 0 THEN x ELSE x + 1
              q == H!ToInt(H!Quot(u - H!first, 2))
  <2>1. q \in Int
    <3>1. u - H!first \in Int
      BY <1>1
    <3>. HIDE DEF u
    <3>2. H!Quot(u - H!first, 2) \in Int
      BY <3>1, QuotType
    <3>. QED  BY <3>2, ToIntType
  <2>2. H!Bin(x) = H!Min({H!bins - 1, H!Max({0, q})})
    BY DEF H!Bin
  <2>. HIDE DEF q
  <2>3. H!Max({0, q}) = IF 0 >= q THEN 0 ELSE q
    BY <2>1, OfTwo
  <2>4. H!Max({0, q}) \in Int /\ H!Max({0, q}) >= 0 /\ H!bins - 1 \in Int
    BY <1>2, <2>1, <2>3
  <2>5. H!Bin(x) = IF H!bins - 1 <= H!Max({0, q}) THEN H!bins - 1 ELSE H!Max({0, q})
    BY <2>2, <2>4, OfTwo
  <2>. QED  BY <1>2, <2>4, <2>5
<1>. QED  BY <1>2, <1>3

\* As long as their number fits into an int, the intervals are two wide, and the
\* last one ends where the histogram does.
LEMMA BinsAre ==
  ASSUME H!HistAssumption, data \in Seq(Int), data # <<>>,
         H!last - H!first < IntValues - 2
  PROVE  /\ H!last = H!first + 2 * (H!bins - 1)
         /\ \A x \in Int : H!first <= x /\ x <= H!last =>
              \A j \in 0 .. H!bins - 1 :
                H!Bin(x) = j <=> H!first + 2 * j - 2 < x /\ x <= H!first + 2 * j
<1>1. /\ H!first \in Int /\ H!first % 10 = 0 /\ H!last \in Int /\ H!last % 10 = 0
      /\ H!first <= H!last
  BY Span
<1>2. PICK k \in Nat : H!last = H!first + 2 * k
  BY <1>1, EvenSpan
<1>3. ASSUME NEW j \in Nat, j <= k PROVE H!ToInt(H!Quot(2 * j, 2)) = j
  <2>1. H!Quot(2 * j, 2) = j
    BY Halves
  <2>2. IntValues \in Nat /\ IntValues > 0
    BY DEF H!HistAssumption
  <2>3. j >= 0 /\ j + IntValues \div 2 < IntValues
    BY <1>1, <1>2, <1>3, <2>2
  <2>. QED  BY <2>1, <2>3, ToIntType
<1>4. H!bins = k + 1
  <2>1. H!last - H!first = 2 * k
    BY <1>1, <1>2
  <2>2. H!bins = H!Max({1, k + 1})
    <3>1. H!bins = H!Max({1, H!ToInt(H!Quot(H!last - H!first, 2)) + 1})
      BY DEF H!bins
    <3>2. H!ToInt(H!Quot(2 * k, 2)) = k
      BY <1>3
    <3>. QED  BY <2>1, <3>1, <3>2
  <2>3. H!Max({1, k + 1}) = IF 1 >= k + 1 THEN 1 ELSE k + 1
    BY OfTwo
  <2>. QED  BY <2>2, <2>3
<1>5. ASSUME NEW x \in Int, H!first <= x, x <= H!last, NEW j \in 0 .. k
      PROVE  H!Bin(x) = j <=> H!first + 2 * j - 2 < x /\ x <= H!first + 2 * j
  <2>. DEFINE u == IF H!Rem(x, 2) = 0 THEN x ELSE x + 1
              a == H!first
  <2>1. a \in Int /\ a % 10 = 0 /\ a <= x /\ x <= a + 2 * k
    BY <1>1, <1>2, <1>5
  <2>2. u = IF x % 2 = 0 THEN x ELSE x + 1
    BY QuotType
  <2>. HIDE DEF u, a
  <2>3. PICK l \in Nat : u = a + 2 * l /\ l <= k /\ u - 2 < x /\ x <= u
    <3>. DEFINE l == (u \div 2) - 5 * (a \div 10)
    <3>1. u \in Int /\ u % 2 = 0 /\ a <= u /\ u <= a + 2 * k /\ u - 2 < x /\ x <= u
      BY <2>1, <2>2
    <3>2. l \in Nat /\ u = a + 2 * l
      BY <2>1, <3>1
    <3>3. l <= k
      BY <2>1, <3>1, <3>2
    <3>. QED  BY <3>1, <3>2, <3>3
  <2>4. u - a = 2 * l
    BY <2>1, <2>3
  <2>5. H!Bin(x) = H!Min({H!bins - 1, H!Max({0, H!ToInt(H!Quot(u - a, 2))})})
    BY DEF H!Bin, u, a
  <2>6. H!ToInt(H!Quot(u - a, 2)) = l
    BY <1>3, <2>3, <2>4
  <2>7. H!Max({0, l}) = l
    BY OfTwo
  <2>8. H!Min({k, l}) = l
    <3>1. k \in Int /\ l \in Int
      OBVIOUS
    <3>2. \A c, d \in Int : H!Min({c, d}) = IF c <= d THEN c ELSE d
      BY OfTwo
    <3>3. H!Min({k, l}) = IF k <= l THEN k ELSE l
      BY <3>1, <3>2
    <3>. QED  BY <2>3, <3>1, <3>3
  <2>9. H!Bin(x) = l
    <3>1. H!bins - 1 = k
      BY <1>4
    <3>. QED  BY <2>5, <2>6, <2>7, <2>8, <3>1
  <2>10. l = j <=> a + 2 * j - 2 < x /\ x <= a + 2 * j
    BY <2>1, <2>3
  <2>. QED  BY <2>9, <2>10 DEF a
<1>. QED  BY <1>1, <1>2, <1>4, <1>5

-----------------------------------------------------------------------------
(* hist: the input.                                                         *)

\* A line is a part of the input, and so is the rest.
LEMMA LineType ==
  ASSUME H!HistAssumption, NEW s \in Seq(Char), s # <<>>
  PROVE  /\ H!Line(s) \in Seq(Char) /\ Len(H!Line(s)) > 0
         /\ SubSeq(s, Len(H!Line(s)) + 1, Len(s)) \in Seq(Char)
<1>. DEFINE M == {i \in DOMAIN s : s[i] = "LF" \/ i \in {MaxLine - 1, Len(s)}}
            m == H!Min(M)
<1>1. Len(s) \in Nat /\ Len(s) > 0 /\ DOMAIN s = 1 .. Len(s)
  OBVIOUS
<1>2. M \subseteq Nat /\ M # {} /\ \A i \in M : i \in 1 .. Len(s)
  <2>1. Len(s) \in M
    BY <1>1
  <2>. QED  BY <1>1, <2>1
<1>3. H!Line(s) = SubSeq(s, 1, m)
  BY DEF H!Line
<1>. HIDE DEF M
<1>4. m \in M
  <2>1. \E i \in M : \A j \in M : i <= j
    BY <1>2, P!Least
  <2>. QED  BY <2>1 DEF H!Min
<1>. HIDE DEF m
<1>5. m \in 1 .. Len(s)
  BY <1>2, <1>4
<1>6. SubSeq(s, 1, m) \in Seq(Char) /\ Len(SubSeq(s, 1, m)) = m
  BY <1>1, <1>5, SubSeqProperties
<1>7. SubSeq(s, m + 1, Len(s)) \in Seq(Char)
  BY <1>1, <1>5, SubSeqProperties
<1>. QED  BY <1>3, <1>5, <1>6, <1>7

LEMMA Numbered ==
  ASSUME NEW n \in Nat
  PROVE  IsFiniteSet(1 .. n) /\ Cardinality(1 .. n) = n
<1>1. IsFiniteSet(1 .. n) /\ Cardinality(1 .. n) = IF 1 > n THEN 0 ELSE n - 1 + 1
  BY FS_Interval
<1>. QED  BY <1>1

LEMMA CommasFinite ==
  ASSUME NEW s \in Seq(Char)
  PROVE  IsFiniteSet(H!Commas(s)) /\ H!count_cells(s) \in Nat
<1>1. IsFiniteSet(DOMAIN s) /\ H!Commas(s) \subseteq DOMAIN s
  <2>1. Len(s) \in Int /\ DOMAIN s = 1 .. Len(s)
    OBVIOUS
  <2>2. IsFiniteSet(DOMAIN s)
    BY <2>1, FS_Interval
  <2>3. H!Commas(s) \subseteq DOMAIN s
    BY Zenon DEF H!Commas
  <2>. QED  BY <2>2, <2>3
<1>2. IsFiniteSet(H!Commas(s)) /\ Cardinality(H!Commas(s)) \in Nat
  BY <1>1, FS_Subset, FS_CardinalityType
<1>. QED  BY <1>2, SameCardinality DEF H!count_cells

LEMMA CellType ==
  ASSUME H!HistAssumption, NEW c
  PROVE  H!parse_cell(c) \in Int
<1>. DEFINE s == SelectSeq(c, LAMBDA x : x \notin Blanks)
<1>1. H!parse_cell(c) = IF /\ Len(s) > 0 /\ s[Len(s)] \in DOMAIN Num
                           /\ \A i \in 1 .. Len(s) - 1 : s[i] = "CR"
                        THEN Num[s[Len(s)]] ELSE 0
  BY Zenon DEF H!parse_cell
<1>2. \A x \in DOMAIN Num : Num[x] \in Int
  BY DEF H!HistAssumption
<1>. HIDE DEF s
<1>. QED  BY <1>1, <1>2

\* Whatever is in the cells of a line, their sum is a number.
LEMMA RowSumType ==
  ASSUME H!HistAssumption, NEW line \in Seq(Char), Len(line) > 0
  PROVE  H!RowSum(line) \in Int
<1>. DEFINE row  == IF H!Last(line) = "LF" THEN H!Front(line) ELSE line
            ends == H!Commas(row) \cup {Len(row) + 1}
            cell(i) == H!parse_cell(SubSeq(row, i + 1, H!Min({e \in ends : e > i}) - 1))
            S    == H!Commas(row) \cup {0}
            g    == [i \in S |-> cell(i)]
            pick(s) == CHOOSE x \in s : TRUE
            h    == CHOOSE f : f = [s \in SUBSET S |->
                      IF s = {} THEN 0 ELSE cell(pick(s)) + f[s \ {pick(s)}]]
<1>1. H!RowSum(line) = h[S]
  BY DEF H!RowSum, H!MapThenSumSet, H!MapThenFoldSet
<1>2. \A i : cell(i) \in Int
  BY CellType
<1>4. IsFiniteSet(S)
  <2>1. H!Front(line) \in Seq(Char)
    <3>1. 1 \in 1 .. Len(line) + 1 /\ Len(line) - 1 \in 0 .. Len(line)
      OBVIOUS
    <3>2. SubSeq(line, 1, Len(line) - 1) \in Seq(Char)
      BY <3>1, SubSeqProperties
    <3>. QED  BY <3>2 DEF H!Front
  <2>2. row \in Seq(Char)
    BY <2>1
  <2>. HIDE DEF row
  <2>. QED  BY <2>2, CommasFinite, FS_AddElement
<1>. HIDE DEF cell, S
<1>5. \A i \in S : g[i] = cell(i) /\ g[i] \in Int
  BY <1>2
<1>. HIDE DEF g
<1>6. ASSUME NEW s \in SUBSET S, s # {} PROVE g[pick(s)] = cell(pick(s))
  <2>1. pick(s) \in s
    BY <1>6
  <2>. QED  BY <1>5, <2>1
<1>. HIDE DEF pick
<1>7. PICK f : f = [s \in SUBSET S |->
                      IF s = {} THEN 0 ELSE cell(pick(s)) + f[s \ {pick(s)}]]
  <2>1. PICK f : IsSum(f, g, SUBSET S)
    BY <1>4, SumOfSubsets
  <2>2. f = [s \in SUBSET S |-> IF s = {} THEN 0 ELSE g[pick(s)] + f[s \ {pick(s)}]]
    BY <2>1 DEF IsSum, pick
  <2>. QED  BY <1>6, <2>2
<1>8. h = [s \in SUBSET S |-> IF s = {} THEN 0 ELSE cell(pick(s)) + h[s \ {pick(s)}]]
  BY <1>7
<1>. HIDE DEF h
<1>9. h = [s \in SUBSET S |-> IF s = {} THEN 0 ELSE g[pick(s)] + h[s \ {pick(s)}]]
  BY <1>6, <1>8
<1>10. IsSum(h, g, SUBSET S)
  BY <1>9 DEF IsSum, pick
<1>. QED  BY <1>1, <1>4, <1>5, <1>10, SumType

-----------------------------------------------------------------------------
(* hist: its invariant and its steps.                                       *)

\* What the last step has left, if anything was drawn.
Drawn ==
  counts # <<>> =>
    /\ step = "exit" /\ data # <<>> /\ start = H!first
    /\ counts = [k \in 1 .. H!bins |->
                   Cardinality({i \in DOMAIN data : H!Bin(data[i]) = k - 1})]

HistInv == H!TypeOK /\ stdin \in Seq(Char) /\ Drawn

\* Each bar is as high as there are datapoints in its interval, and no
\* datapoint is lost.
LEMMA DrawnIs ==
  ASSUME H!HistAssumption, HistInv
  PROVE  H!Histogram
<1>. SUFFICES ASSUME counts # <<>> PROVE H!Histogram
  BY DEF H!Histogram
<1>1. /\ data \in Seq(Int) /\ data # <<>> /\ start = H!first
      /\ counts = [k \in 1 .. H!bins |->
                     Cardinality({i \in DOMAIN data : H!Bin(data[i]) = k - 1})]
  BY DEF HistInv, Drawn, H!TypeOK
<1>2. H!bins \in Nat /\ H!bins > 0 /\ \A x \in Int : H!Bin(x) \in 0 .. H!bins - 1
  BY <1>1, BinsType
<1>3. DOMAIN counts = 1 .. H!bins /\ Len(counts) = H!bins
  <2>1. counts \in Seq(Nat)
    BY DEF HistInv, H!TypeOK
  <2>. QED  BY <1>1, <1>2, <2>1
<1>4. /\ Len(data) \in Nat /\ DOMAIN data = 1 .. Len(data) /\ \A i \in DOMAIN data : data[i] \in Int
      /\ IsFiniteSet(DOMAIN data) /\ Cardinality(DOMAIN data) = Len(data)
  <2>1. Len(data) \in Nat /\ DOMAIN data = 1 .. Len(data) /\ \A i \in DOMAIN data : data[i] \in Int
    BY <1>1
  <2>2. IsFiniteSet(1 .. Len(data)) /\ Cardinality(1 .. Len(data)) = Len(data)
    BY <2>1, Numbered
  <2>. QED  BY <2>1, <2>2
<1>5. Len(data) = H!MapThenSumSet(LAMBDA k : counts[k], DOMAIN counts)
  <2>. DEFINE S == DOMAIN counts
              I == DOMAIN data
              b == [i \in I |-> H!Bin(data[i]) + 1]
  <2>1. IsFiniteSet(S)
    BY <1>2, <1>3, FS_Interval
  <2>2. ASSUME NEW i \in I
        PROVE  b[i] = H!Bin(data[i]) + 1 /\ b[i] \in S /\ H!Bin(data[i]) \in Int
    <3>1. H!Bin(data[i]) \in 0 .. H!bins - 1
      BY <1>2, <1>4
    <3>2. b[i] = H!Bin(data[i]) + 1
      OBVIOUS
    <3>3. b[i] \in 1 .. H!bins
      <4>. DEFINE v == H!Bin(data[i])
                  n == H!bins
      <4>1. n \in Nat /\ v \in 0 .. n - 1
        BY <1>2, <3>1
      <4>. HIDE DEF v, n
      <4>2. v + 1 \in 1 .. n
        BY <4>1
      <4>. QED  BY <3>2, <4>2 DEF v, n
    <3>. QED  BY <1>3, <3>1, <3>2, <3>3
  <2>3. ASSUME NEW k \in S PROVE counts[k] = Cardinality(Class(I, b, {k}))
    <3>1. counts[k] = Cardinality({i \in I : H!Bin(data[i]) = k - 1})
      BY <1>1, <1>3
    <3>2. ASSUME NEW i \in I PROVE H!Bin(data[i]) = k - 1 <=> b[i] \in {k}
      <4>1. k \in Int
        BY <1>2, <1>3
      <4>2. b[i] = H!Bin(data[i]) + 1 /\ H!Bin(data[i]) \in Int
        BY <2>2
      <4>. HIDE DEF b
      <4>. QED  BY <4>1, <4>2
    <3>3. {i \in I : H!Bin(data[i]) = k - 1} = Class(I, b, {k})
      <4>. HIDE DEF I, b
      <4>. QED  BY <3>2 DEF Class
    <3>. QED  BY <3>1, <3>3
  <2>4. Class(I, b, S) = I
    <3>. HIDE DEF I, b, S
    <3>. QED  BY <2>2 DEF Class
  <2>. HIDE DEF I, b
  <2>5. PICK f : IsSum(f, counts, SUBSET S) /\ SumOver(counts, S) = f[S]
    <3>. HIDE DEF S
    <3>. QED  BY <2>1, SumFun
  <2>6. f[S] = Cardinality(Class(I, b, S))
    <3>1. IsFiniteSet(I)
      BY <1>4 DEF I
    <3>2. CountsClasses(counts, I, b, S)
      BY <2>3 DEF CountsClasses
    <3>. HIDE DEF S
    <3>. QED  BY <2>1, <2>5, <3>1, <3>2, SumOfClasses
  <2>7. Len(data) = SumOver(counts, S)
    BY <1>4, <2>4, <2>5, <2>6 DEF I
  <2>. QED  BY <2>7 DEF SumOver
<1>6. ASSUME H!last - H!first < IntValues - 2
      PROVE  /\ start % 10 = 0 /\ H!End % 10 = 0
             /\ \A i \in DOMAIN data : start <= data[i] /\ data[i] <= H!End
             /\ \E i \in DOMAIN data : data[i] < start + 10
             /\ \E i \in DOMAIN data : data[i] > H!End - 10
             /\ \A k \in DOMAIN counts : counts[k] = H!InInterval(start + 2 * (k - 1))
  <2>1. /\ H!last = H!first + 2 * (H!bins - 1)
        /\ \A x \in Int : H!first <= x /\ x <= H!last =>
              \A j \in 0 .. H!bins - 1 :
                H!Bin(x) = j <=> H!first + 2 * j - 2 < x /\ x <= H!first + 2 * j
    BY <1>1, <1>6, BinsAre
  <2>2. H!End = H!last
    BY <1>1, <1>3, <2>1 DEF H!End
  <2>3. ASSUME NEW k \in DOMAIN counts PROVE counts[k] = H!InInterval(start + 2 * (k - 1))
    <3>. DEFINE u == start + 2 * (k - 1)
    <3>1. counts[k] = Cardinality({i \in DOMAIN data : H!Bin(data[i]) = k - 1})
      BY <1>1, <1>3
    <3>2. k - 1 \in 0 .. H!bins - 1
      <4>. DEFINE n == H!bins
      <4>1. n \in Nat /\ k \in 1 .. n
        BY <1>2, <1>3
      <4>. HIDE DEF n
      <4>2. k - 1 \in 0 .. n - 1
        BY <4>1
      <4>. QED  BY <4>2 DEF n
    <3>3. ASSUME NEW i \in DOMAIN data
          PROVE  H!Bin(data[i]) = k - 1 <=> u - 2 < data[i] /\ data[i] <= u
      <4>1. data[i] \in Int /\ H!first <= data[i] /\ data[i] <= H!last
        BY <1>1, <1>4, Span
      <4>. DEFINE j == k - 1
      <4>2. j \in 0 .. H!bins - 1
        BY <3>2
      <4>. HIDE DEF j
      <4>3. H!Bin(data[i]) = j
              <=> H!first + 2 * j - 2 < data[i] /\ data[i] <= H!first + 2 * j
        BY <2>1, <4>1, <4>2
      <4>4. u = H!first + 2 * j
        BY <1>1 DEF u, j
      <4>5. u - 2 < data[i] /\ data[i] <= u
              <=> H!first + 2 * j - 2 < data[i] /\ data[i] <= H!first + 2 * j
        <5>1. H!first \in Int /\ j \in Int
          BY <1>1, <1>2, <4>2, Span
        <5>. HIDE DEF u
        <5>. QED  BY <4>4, <5>1
      <4>. QED  BY <4>3, <4>5 DEF j
    <3>. HIDE DEF u
    <3>4. {i \in DOMAIN data : H!Bin(data[i]) = k - 1}
            = {i \in DOMAIN data : u - 2 < data[i] /\ data[i] <= u}
      BY <3>3
    <3>5. H!InInterval(u) = Cardinality({i \in DOMAIN data : u - 2 < data[i] /\ data[i] <= u})
      BY SameCardinality DEF H!InInterval
    <3>. QED  BY <3>1, <3>4, <3>5 DEF u
  <2>4. /\ H!first % 10 = 0 /\ H!last % 10 = 0
        /\ \A i \in DOMAIN data : H!first <= data[i] /\ data[i] <= H!last
        /\ \E i \in DOMAIN data : data[i] < H!first + 10
        /\ \E i \in DOMAIN data : data[i] > H!last - 10
    BY <1>1, Span
  <2>. QED  BY <1>1, <2>2, <2>3, <2>4
<1>. QED  BY <1>5, <1>6 DEF H!Histogram

\* A step that draws nothing.
LEMMA NotDrawn ==
  ASSUME HistInv, step # "exit", UNCHANGED counts
  PROVE  Drawn'
BY DEF HistInv, Drawn

LEMMA HistStep ==
  ASSUME H!HistAssumption, HistInv, H!Next
  PROVE  HistInv'
<1>1. /\ stdin \in Seq(Char) /\ H!TypeOK
  BY DEF HistInv
<1>2. stdin # <<>> => /\ H!Line(stdin) \in Seq(Char) /\ Len(H!Line(stdin)) > 0
                      /\ SubSeq(stdin, Len(H!Line(stdin)) + 1, Len(stdin)) \in Seq(Char)
                      /\ H!count_cells(H!Line(stdin)) \in Nat
  BY <1>1, LineType, CommasFinite
<1>3. ASSUME NEW code \in 0 .. 2, H!Exit(code), step # "exit", stdin' \in Seq(Char)
      PROVE  HistInv'
  BY <1>1, <1>3, NotDrawn DEF HistInv, H!TypeOK, H!Exit
<1>4. CASE H!NoInput
  <2>1. step = "header" /\ H!Exit(0) /\ UNCHANGED stdin
    BY <1>4 DEF H!NoInput
  <2>. QED  BY <1>1, <1>3, <2>1
<1>5. CASE H!Header
  <2>1. /\ step = "header" /\ stdin # <<>>
        /\ stdin' = SubSeq(stdin, Len(H!Line(stdin)) + 1, Len(stdin))
        /\ \/ H!Exit(2)
           \/ /\ step' = "rows" /\ cols' = H!count_cells(H!Line(stdin))
              /\ UNCHANGED <<data, start, counts, hist_status>>
    BY <1>5 DEF H!Header, H!Consume
  <2>2. CASE H!Exit(2)
    BY <1>2, <1>3, <2>1, <2>2
  <2>3. CASE /\ step' = "rows" /\ cols' = H!count_cells(H!Line(stdin))
             /\ UNCHANGED <<data, start, counts, hist_status>>
    BY <1>1, <1>2, <2>1, <2>3, NotDrawn DEF HistInv, H!TypeOK
  <2>. QED  BY <2>1, <2>2, <2>3
<1>6. CASE H!BadRow
  <2>1. /\ step = "rows" /\ stdin # <<>>
        /\ stdin' = SubSeq(stdin, Len(H!Line(stdin)) + 1, Len(stdin))
        /\ H!Exit(2) \/ H!Exit(1)
    BY <1>6 DEF H!BadRow, H!Consume
  <2>. QED  BY <1>2, <1>3, <2>1
<1>7. CASE H!Row
  <2>1. /\ step = "rows" /\ stdin # <<>>
        /\ stdin' = SubSeq(stdin, Len(H!Line(stdin)) + 1, Len(stdin))
        /\ \/ Len(data) < MaxRows /\ data' = Append(data, H!RowSum(H!Line(stdin))) /\ UNCHANGED step
           \/ step' = "draw" /\ UNCHANGED data
        /\ UNCHANGED <<cols, start, counts, hist_status>>
    BY <1>7 DEF H!Row, H!Consume
  <2>2. H!RowSum(H!Line(stdin)) \in Int
    BY <1>2, <2>1, RowSumType
  <2>3. data \in Seq(Int) /\ Len(data) <= MaxRows /\ MaxRows \in Nat
    BY <1>1 DEF H!TypeOK, H!HistAssumption
  <2>4. data' \in Seq(Int) /\ Len(data') <= MaxRows
    <3>1. CASE Len(data) < MaxRows /\ data' = Append(data, H!RowSum(H!Line(stdin)))
      <4>1. data' \in Seq(Int) /\ Len(data') = Len(data) + 1
        BY <2>2, <2>3, <3>1
      <4>. QED  BY <2>3, <3>1, <4>1
    <3>2. CASE UNCHANGED data
      BY <2>3, <3>2
    <3>. QED  BY <2>1, <3>1, <3>2
  <2>. QED  BY <1>1, <1>2, <2>1, <2>4, NotDrawn DEF HistInv, H!TypeOK
<1>8. CASE H!EndOfInput
  <2>1. /\ step = "rows" /\ step' = "draw"
        /\ UNCHANGED <<stdin, cols, data, start, counts, hist_status>>
    BY <1>8 DEF H!EndOfInput
  <2>. QED  BY <1>1, <2>1, NotDrawn DEF HistInv, H!TypeOK
<1>9. CASE H!Draw
  <2>. DEFINE card(k) == Cardinality({i \in DOMAIN data : H!Bin(data[i]) = k - 1})
  <2>1. /\ step = "draw" /\ data # <<>> /\ step' = "exit" /\ start' = H!first
        /\ counts' = [k \in 1 .. H!bins |-> card(k)]
        /\ UNCHANGED <<stdin, cols, data, hist_status>>
    BY <1>9, SameCardinality DEF H!Draw
  <2>2. data \in Seq(Int) /\ H!first \in Int /\ H!bins \in Nat
    BY <1>1, <2>1, Span, BinsType DEF H!TypeOK
  <2>3. ASSUME NEW k PROVE card(k) \in Nat
    <3>1. IsFiniteSet(DOMAIN data)
      <4>1. Len(data) \in Nat /\ DOMAIN data = 1 .. Len(data)
        BY <2>2
      <4>. QED  BY <4>1, Numbered
    <3>2. {i \in DOMAIN data : H!Bin(data[i]) = k - 1} \subseteq DOMAIN data
      OBVIOUS
    <3>. QED  BY <3>1, <3>2, FS_Subset, FS_CardinalityType
  <2>4. H!first' = H!first /\ H!bins' = H!bins
    BY <2>1 DEF H!first, H!last, H!bins
  <2>5. \A x : H!Bin(x)' = H!Bin(x)
    BY <2>4 DEF H!Bin
  <2>6. counts' \in Seq(Nat)
    <3>. HIDE DEF card
    <3>. QED  BY <2>1, <2>2, <2>3
  <2>7. Drawn'
    BY <2>1, <2>4, <2>5 DEF Drawn
  <2>. QED  BY <1>1, <2>1, <2>2, <2>6, <2>7 DEF HistInv, H!TypeOK
<1>10. CASE H!DrawNothing
  <2>1. step = "draw" /\ H!Exit(0) /\ UNCHANGED stdin
    BY <1>10 DEF H!DrawNothing
  <2>. QED  BY <1>1, <1>3, <2>1
<1>. QED  BY <1>4, <1>5, <1>6, <1>7, <1>8, <1>9, <1>10 DEF H!Next

\* hist stays as it is, but for what it will read.
LEMMA HistRests ==
  ASSUME HistInv, stdin' \in Seq(Char),
         UNCHANGED <<step, cols, data, start, counts, hist_status>>
  PROVE  HistInv'
<1>1. Drawn'
  <2>1. H!first' = H!first /\ H!bins' = H!bins
    BY DEF H!first, H!last, H!bins
  <2>2. \A x : H!Bin(x)' = H!Bin(x)
    BY <2>1 DEF H!Bin
  <2>. QED  BY <2>1, <2>2 DEF HistInv, Drawn
<1>. QED  BY <1>1 DEF HistInv, H!TypeOK

LEMMA HistStays ==
  ASSUME HistInv, UNCHANGED hist
  PROVE  HistInv'
<1>1. UNCHANGED <<step, stdin, cols, data, start, counts, hist_status>>
  BY DEF hist
<1>. QED  BY <1>1, HistRests DEF HistInv

LEMMA HistInit == ASSUME H!HistAssumption, H!InitWith(<<>>) PROVE HistInv
<1>1. /\ step = "header" /\ stdin = <<>> /\ cols = 0 /\ data = <<>> /\ start = 0
      /\ counts = <<>> /\ hist_status = 0
  BY DEF H!InitWith
<1>2. /\ stdin \in Seq(Char) /\ data \in Seq(Int) /\ Len(data) = 0
      /\ counts \in Seq(Nat) /\ MaxRows \in Nat
  BY <1>1 DEF H!HistAssumption
<1>. QED  BY <1>1, <1>2 DEF HistInv, Drawn, H!TypeOK

-----------------------------------------------------------------------------
(* The programs together: the files that go through them.                   *)

FilesInv == CharsInv /\ HistInv /\ rest \in Seq(Char)

LEMMA FilesInit ==
  ASSUME TextAssumption, Init
  PROVE  FilesInv
<1>1. CharsInv
  BY CharsInit DEF Init
<1>2. HistInv
  BY Assumed, HistInit DEF Init
<1>3. rest \in Seq(Char)
  <2>1. \A rows \in Tables, eol \in Eols : Csv(rows, eol) \in Seq(Char)
    BY DEF TextAssumption, Char
  <2>2. <<>> \in Seq(Char)
    OBVIOUS
  <2>. QED  BY <2>1, <2>2, Assumed DEF Init
<1>. QED  BY <1>1, <1>2, <1>3 DEF FilesInv

LEMMA CharsRest ==
  ASSUME CharsInv, UNCHANGED chars
  PROVE  CharsInv'
BY DEF CharsInv, chars

LEMMA FilterFile ==
  ASSUME TextAssumption, FilesInv, NEW f \in C!Fns, NEW program, Filter(program, f)
  PROVE  FilesInv'
<1>1. /\ rest # <<>> /\ C!Call(f, Head(rest), "NUL") /\ rest' = Tail(rest)
      /\ UNCHANGED hist
  BY DEF Filter
<1>2. Head(rest) \in Char /\ Tail(rest) \in Seq(Char)
  BY <1>1, Ends DEF FilesInv
<1>3. CharsInv'
  BY <1>1, <1>2, Assumed, CallStep DEF FilesInv
<1>. QED  BY <1>1, <1>2, <1>3, HistStays DEF FilesInv

LEMMA StreamType == ASSUME FilesInv PROVE Stream \in Seq(Char)
BY DEF Stream, FilesInv, CharsInv, C!Fns

\* Every step keeps the invariant of the files, whatever freq does.
LEMMA FilesStep ==
  ASSUME TextAssumption, FilesInv, [Next]_vars
  PROVE  FilesInv'
<1>1. CASE UNCHANGED <<chars, hist, rest>>
  BY <1>1, CharsRest, HistStays DEF FilesInv
<1>2. CASE tounix \/ todos
  BY <1>2, FilterFile DEF tounix, todos, C!Fns
<1>3. CASE Connect
  <2>1. /\ stdin' = IF job.reader = "hist" THEN Stream ELSE <<>>
        /\ rest' = <<>> /\ UNCHANGED chars
        /\ UNCHANGED <<step, cols, data, start, counts, hist_status>>
    BY <1>3 DEF Connect
  <2>2. stdin' \in Seq(Char) /\ rest' \in Seq(Char)
    <3>1. <<>> \in Seq(Char)
      OBVIOUS
    <3>. QED  BY <2>1, <3>1, StreamType
  <2>. QED  BY <2>1, <2>2, CharsRest, HistRests DEF FilesInv
<1>4. CASE H!Next /\ UNCHANGED <<chars, dict, freq, shell>>
  <2>1. HistInv'
    BY <1>4, Assumed, HistStep DEF FilesInv
  <2>. QED  BY <1>4, <2>1, CharsRest DEF FilesInv, shell
<1>5. CASE C!Calls(TestChars) /\ UNCHANGED <<hist, dict, freq, shell>>
  <2>1. PICK f \in C!Fns, next \in TestChars, dflt \in TestChars : C!Call(f, next, dflt)
    BY <1>5 DEF C!Calls
  <2>2. CharsInv'
    BY <2>1, Assumed, CallStep DEF FilesInv
  <2>. QED  BY <1>5, <2>2, HistStays DEF FilesInv, shell
<1>6. CASE UNCHANGED vars
  BY <1>1, <1>6 DEF vars, shell
<1>7. CASE UNCHANGED <<chars, hist, shell>>
  BY <1>1, <1>7 DEF shell
<1>8. CASE Finished
  BY <1>6, <1>8 DEF Finished
<1>. QED  BY <1>2, <1>3, <1>4, <1>5, <1>6, <1>7, <1>8 DEF Next

LEMMA FilesInvariant == ASSUME TextAssumption PROVE Spec => []FilesInv
<1>1. Init => FilesInv
  BY FilesInit
<1>2. FilesInv /\ [Next]_vars => FilesInv'
  BY FilesStep
<1>. QED  BY <1>1, <1>2, PTL DEF Spec

-----------------------------------------------------------------------------
(* The programs together: the dictionary and who uses it.                   *)

\* Which programs run.
JobInv ==
  /\ job \in [filter : {"none", "tounix", "todos", "chartests", "dicttests"},
              reader : {"none", "hist", "freq", "in hist", "in freq"},
              eol : Eols \cup {<<>>}]
  /\ job.filter = "dicttests" => job.reader = "none"
  /\ at # "open" => job.reader = "in freq"

\* The inductive invariant.
Inv == FilesInv /\ P!IInv /\ FreqInv /\ JobInv

LEMMA InitInv ==
  ASSUME TextAssumption, Init
  PROVE  Inv /\ P!Abstract!Init
<1>1. FilesInv
  BY FilesInit
<1>2. P!IInv /\ P!Abstract!Init
  BY Assumed, SameProperties, P!IInvInit DEF Init
<1>3. /\ at = "open" /\ file = rest /\ buf = <<>> /\ bufcap = 0
      /\ cells = <<>> /\ live = {} /\ status = 0
  BY DEF Init, F!InitWith
<1>4. DOMAIN cells = {} /\ IsFiniteSet(DOMAIN cells)
  BY <1>3, FS_EmptySet
<1>5. FreqTypes
  <2>1. buf \in Seq(Char) /\ rest \in Seq(Char)
    BY <1>1, <1>3 DEF FilesInv
  <2>. QED  BY <1>3, <1>4, <2>1 DEF FreqTypes, F!TypeOK
<1>6. Ownership
  BY <1>3 DEF Ownership
<1>7. JobInv
  BY <1>3 DEF Init, JobInv
<1>. QED  BY <1>1, <1>2, <1>5, <1>6, <1>7 DEF Inv, FreqInv

\* A step that touches neither the dictionary nor freq.
LEMMA FreqRests ==
  ASSUME P!IInv, FreqInv, UNCHANGED <<dict, freq>>
  PROVE  DictStep /\ FreqInv'
<1>1. UNCHANGED F!dictionary
      /\ UNCHANGED <<at, file, buf, bufcap, cells, live, printed, status, text>>
  BY DEF dict, freq, F!dictionary
<1>2. FreqTypes'
  BY <1>1 DEF FreqInv, FreqTypes, F!TypeOK
<1>. QED  BY <1>1, <1>2, DictStutters, OwnershipKept DEF FreqInv

LEMMA JobRests ==
  ASSUME JobInv, UNCHANGED job, at' # "open" => at # "open" \/ job.reader = "in freq"
  PROVE  JobInv'
BY DEF JobInv

LEMMA ConnectStep ==
  ASSUME TextAssumption, Inv, Connect
  PROVE  DictStep /\ FreqInv' /\ JobInv'
<1>1. /\ job.reader \in {"hist", "freq"}
      /\ file' = IF job.reader = "freq" THEN Stream ELSE <<>>
      /\ job' = [job EXCEPT !.reader = IF @ = "hist" THEN "in hist" ELSE "in freq"]
      /\ UNCHANGED dict
      /\ UNCHANGED <<at, buf, bufcap, cells, live, printed, status, text>>
  BY DEF Connect
<1>2. file' \in Seq(Char)
  <2>1. <<>> \in Seq(Char)
    OBVIOUS
  <2>. QED  BY <1>1, <2>1, StreamType DEF Inv
<1>3. FreqTypes'
  BY <1>1, <1>2 DEF Inv, FreqInv, FreqTypes, F!TypeOK
<1>4. UNCHANGED F!dictionary
  BY <1>1 DEF dict, F!dictionary
<1>5. Ownership' /\ DictStep
  BY <1>1, <1>4, OwnershipKept, DictStutters DEF Inv, FreqInv
<1>6. JobInv'
  BY <1>1 DEF Inv, JobInv
<1>. QED  BY <1>3, <1>5, <1>6 DEF FreqInv

LEMMA TestsStep ==
  ASSUME TextAssumption, Inv, job.filter = "dicttests", D!Calls(TestKeys, TestVals),
         UNCHANGED <<chars, hist, freq, shell>>
  PROVE  DictStep /\ FreqInv' /\ JobInv'
<1>1. P!IInv' /\ P!Abstract!Next
  BY Assumed, SameCalls, P!IInvCalls DEF Inv
<1>2. /\ at = "open"
      /\ UNCHANGED <<at, file, buf, bufcap, cells, live, printed, status, text, job>>
  BY DEF Inv, JobInv, freq, shell
<1>3. FreqInv'
  BY <1>2 DEF Inv, FreqInv, FreqTypes, F!TypeOK, Ownership
<1>. QED  BY <1>1, <1>2, <1>3, JobRests DEF Inv, DictStep

\* Every step keeps the invariant, and is a step of the map, or none.
LEMMA NextInv ==
  ASSUME TextAssumption, WordsAreKeys, Inv, [Next]_vars
  PROVE  Inv' /\ DictStep
<1>1. CASE UNCHANGED <<dict, freq, job>>
  <2>1. UNCHANGED at
    BY <1>1 DEF freq
  <2>. QED  BY <1>1, <2>1, FilesStep, FreqRests, JobRests DEF Inv, DictStep
<1>2. CASE tounix \/ todos
  BY <1>1, <1>2 DEF tounix, todos, Filter
<1>3. CASE Connect
  BY <1>3, ConnectStep, FilesStep DEF Inv, DictStep
<1>4. CASE UNCHANGED <<dict, freq, shell>>
  BY <1>1, <1>4 DEF shell
<1>5. CASE job.reader = "in freq" /\ F!Next /\ UNCHANGED <<chars, hist, shell>>
  <2>1. DictStep /\ FreqInv'
    BY <1>5, FreqStep DEF Inv
  <2>2. JobInv'
    BY <1>5, JobRests DEF Inv, shell
  <2>. QED  BY <2>1, <2>2, FilesStep DEF Inv, DictStep
<1>6. CASE /\ job.filter = "dicttests" /\ D!Calls(TestKeys, TestVals)
           /\ UNCHANGED <<chars, hist, freq, shell>>
  BY <1>6, TestsStep, FilesStep DEF Inv, DictStep
<1>7. CASE UNCHANGED vars
  BY <1>1, <1>7 DEF vars, shell
<1>8. CASE Finished
  BY <1>7, <1>8 DEF Finished
<1>. QED  BY <1>2, <1>3, <1>4, <1>5, <1>6, <1>7, <1>8 DEF Next

LEMMA Invariant == ASSUME TextAssumption, WordsAreKeys PROVE Spec => []Inv
<1>1. Init => Inv
  BY InitInv
<1>2. Inv /\ [Next]_vars => Inv'
  BY NextInv
<1>. QED  BY <1>1, <1>2, PTL DEF Spec

-----------------------------------------------------------------------------
(* freq: the words of a text.                                               *)

\* A word w from i to j of a text.
IsWord(s, i, j, w) ==
  /\ i \in 1 .. Len(s) /\ j \in 1 .. Len(s) /\ i <= j
  /\ \A k \in i .. j : s[k] \notin Spaces
  /\ i = 1 \/ s[i - 1] \in Spaces
  /\ j = Len(s) \/ s[j + 1] \in Spaces
  /\ F!Strip(SubSeq(s, i, j)) = w

WordsAt(s, w) ==
  {p \in (1 .. Len(s)) \X (1 .. Len(s)) : IsWord(s, p[1], p[2], w)}

\* How often a word occurs in a text.
Count(s, w) == Cardinality(WordsAt(s, w))

LEMMA WordsAtAre ==
  ASSUME NEW s \in Seq(Char), NEW w
  PROVE  /\ \A i, j : <<i, j>> \in WordsAt(s, w) <=> IsWord(s, i, j, w)
         /\ \A p \in WordsAt(s, w) : p = <<p[1], p[2]>>
BY DEF WordsAt, IsWord

LEMMA CountType ==
  ASSUME NEW s \in Seq(Char), NEW w
  PROVE  IsFiniteSet(WordsAt(s, w)) /\ Count(s, w) \in Nat
<1>1. IsFiniteSet(1 .. Len(s))
  BY FS_Interval
<1>2. IsFiniteSet((1 .. Len(s)) \X (1 .. Len(s)))
  BY <1>1, FS_Product
<1>3. WordsAt(s, w) \subseteq (1 .. Len(s)) \X (1 .. Len(s))
  BY DEF WordsAt
<1>. QED  BY <1>2, <1>3, FS_Subset, FS_CardinalityType DEF Count

\* A space ends a part of a text, and begins the next.
LEMMA WordsApart ==
  ASSUME NEW s \in Seq(Char), NEW c \in Char, NEW z \in Seq(Char), NEW w, c \in Spaces,
         NEW i \in Int, NEW j \in Int
  PROVE  LET l == Len(s) + 1
         IN  IsWord(s \o <<c>> \o z, i, j, w)
               <=> IsWord(s, i, j, w) \/ IsWord(z, i - l, j - l, w)
<1>. DEFINE x == s \o <<c>> \o z
            l == Len(s) + 1
<1>1. /\ x \in Seq(Char) /\ Len(x) = l + Len(z) /\ l \in Nat \ {0} /\ Len(s) = l - 1
      /\ x[l] \in Spaces
      /\ \A k \in 1 .. l - 1 : x[k] = s[k]
      /\ \A k \in 1 .. Len(z) : x[l + k] = z[k]
      /\ Len(z) \in Nat
  OBVIOUS
<1>. HIDE DEF x, l
<1>5. l \in Int /\ l > 0 /\ Len(z) \in Nat /\ Len(x) = l + Len(z)
  BY <1>1
<1>2. CASE i \in 1 .. l - 1 /\ j \in i .. l - 1
  <2>1. SubSeq(x, i, j) = SubSeq(s, i, j)
    <3>1. i \in 1 .. Len(x) + 1 /\ j \in i - 1 .. Len(x) /\ i \in 1 .. Len(s) + 1
          /\ j \in i - 1 .. Len(s)
      BY <1>1, <1>2
    <3>2. ASSUME NEW k \in 1 .. j - i + 1 PROVE x[i + k - 1] = s[i + k - 1]
      BY <1>1, <1>2
    <3>. QED  BY <1>1, <3>1, <3>2
  <2>2. (\A k \in i .. j : x[k] \notin Spaces) <=> \A k \in i .. j : s[k] \notin Spaces
    BY <1>1, <1>2, SMTT(30)
  <2>3. (i = 1 \/ x[i - 1] \in Spaces) <=> i = 1 \/ s[i - 1] \in Spaces
    BY <1>1, <1>2
  <2>4. (j = Len(x) \/ x[j + 1] \in Spaces) <=> j = Len(s) \/ s[j + 1] \in Spaces
    <3>1. CASE j = l - 1
      BY <1>1, <1>2, <3>1
    <3>2. CASE j # l - 1
      <4>1. j # Len(x) /\ j # Len(s) /\ j + 1 \in 1 .. l - 1
        BY <1>1, <1>2, <3>2
      <4>. QED  BY <1>1, <4>1
    <3>. QED  BY <3>1, <3>2
  <2>5. /\ i \in 1 .. Len(x) /\ j \in 1 .. Len(x) /\ i <= j
        /\ i \in 1 .. Len(s) /\ j \in 1 .. Len(s)
    BY <1>1, <1>2
  <2>6. IsWord(x, i, j, w) <=> IsWord(s, i, j, w)
    BY <2>1, <2>2, <2>3, <2>4, <2>5 DEF IsWord
  <2>7. ~IsWord(z, i - l, j - l, w)
    BY <1>1, <1>2 DEF IsWord
  <2>. QED  BY <2>6, <2>7 DEF x, l
<1>3. CASE i \in l + 1 .. Len(x) /\ j \in i .. Len(x)
  <2>. DEFINE a == i - l
              b == j - l
  <2>1. /\ a \in 1 .. Len(z) /\ b \in a .. Len(z) /\ i = l + a /\ j = l + b
        /\ a \in Int /\ b \in Int /\ b \in 1 .. Len(z)
    BY <1>1, <1>3
  <2>. HIDE DEF a, b
  <2>2. SubSeq(x, i, j) = SubSeq(z, a, b)
    <3>1. /\ i \in 1 .. Len(x) + 1 /\ j \in i - 1 .. Len(x) /\ a \in 1 .. Len(z) + 1
          /\ b \in a - 1 .. Len(z) /\ j - i + 1 = b - a + 1
      BY <1>5, <2>1
    <3>2. ASSUME NEW k \in 1 .. b - a + 1 PROVE x[i + k - 1] = z[a + k - 1]
      <4>1. a + k - 1 \in 1 .. Len(z) /\ i + k - 1 = l + (a + k - 1)
        BY <1>1, <2>1
      <4>. QED  BY <1>1, <4>1
    <3>3. /\ SubSeq(x, i, j) \in Seq(Char) /\ Len(SubSeq(x, i, j)) = b - a + 1
          /\ \A k \in 1 .. b - a + 1 : SubSeq(x, i, j)[k] = x[i + k - 1]
      <4>1. i <= j /\ \A k \in i .. j : x[k] \in Char
        BY <1>1, <1>5, <2>1
      <4>. QED  BY <3>1, <4>1, SubSeqProperties
    <3>4. /\ SubSeq(z, a, b) \in Seq(Char) /\ Len(SubSeq(z, a, b)) = b - a + 1
          /\ \A k \in 1 .. b - a + 1 : SubSeq(z, a, b)[k] = z[a + k - 1]
      <4>1. a <= b /\ \A k \in a .. b : z[k] \in Char
        BY <1>5, <2>1
      <4>. QED  BY <2>1, <4>1, SubSeqProperties
    <3>. QED  BY <3>2, <3>3, <3>4, SeqEqual
  <2>3. (\A k \in i .. j : x[k] \notin Spaces) <=> \A k \in a .. b : z[k] \notin Spaces
    <3>1. ASSUME NEW k \in a .. b PROVE l + k \in i .. j /\ x[l + k] = z[k]
      <4>1. k \in 1 .. Len(z) /\ l + k \in i .. j
        BY <1>5, <2>1
      <4>. QED  BY <1>1, <4>1
    <3>2. ASSUME NEW k \in i .. j PROVE k - l \in a .. b /\ x[k] = z[k - l]
      <4>1. k - l \in a .. b /\ k - l \in 1 .. Len(z) /\ l + (k - l) = k
        BY <1>1, <2>1
      <4>. QED  BY <1>1, <4>1
    <3>. QED  BY <3>1, <3>2
  <2>4. (i = 1 \/ x[i - 1] \in Spaces) <=> a = 1 \/ z[a - 1] \in Spaces
    <3>1. CASE a = 1
      BY <1>1, <2>1, <3>1
    <3>2. CASE a # 1
      <4>1. a - 1 \in 1 .. Len(z) /\ i - 1 = l + (a - 1) /\ i # 1
        BY <1>5, <2>1, <3>2
      <4>. QED  BY <1>1, <3>2, <4>1
    <3>. QED  BY <3>1, <3>2
  <2>5. (j = Len(x) \/ x[j + 1] \in Spaces) <=> b = Len(z) \/ z[b + 1] \in Spaces
    <3>1. CASE b = Len(z)
      BY <1>1, <2>1, <3>1
    <3>2. CASE b # Len(z)
      <4>1. b + 1 \in 1 .. Len(z) /\ j + 1 = l + (b + 1) /\ j # Len(x)
        BY <1>1, <2>1, <3>2
      <4>. QED  BY <1>1, <3>2, <4>1
    <3>. QED  BY <3>1, <3>2
  <2>6. i \in 1 .. Len(x) /\ j \in 1 .. Len(x) /\ i <= j /\ a <= b
    BY <1>1, <2>1
  <2>7. IsWord(x, i, j, w) <=> IsWord(z, a, b, w)
    BY <2>1, <2>2, <2>3, <2>4, <2>5, <2>6 DEF IsWord
  <2>8. ~IsWord(s, i, j, w)
    BY <1>1, <1>3 DEF IsWord
  <2>. QED  BY <2>7, <2>8 DEF x, l, a, b
<1>4. CASE ~(i \in 1 .. l - 1 /\ j \in i .. l - 1) /\ ~(i \in l + 1 .. Len(x) /\ j \in i .. Len(x))
  <2>1. ~IsWord(x, i, j, w)
    <3>1. SUFFICES ASSUME IsWord(x, i, j, w) PROVE FALSE
      OBVIOUS
    <3>2. i \in 1 .. Len(x) /\ j \in i .. Len(x) /\ l \in i .. j
      BY <1>1, <1>4, <3>1 DEF IsWord
    <3>. QED  BY <1>1, <3>1, <3>2 DEF IsWord
  <2>2. ~IsWord(s, i, j, w)
    BY <1>1, <1>4 DEF IsWord
  <2>3. ~IsWord(z, i - l, j - l, w)
    BY <1>1, <1>4 DEF IsWord
  <2>. QED  BY <2>1, <2>2, <2>3 DEF x, l
<1>. QED  BY <1>2, <1>3, <1>4

\* So the words of two texts with a space between are those of the one and the
\* other.
LEMMA CountJoined ==
  ASSUME NEW s \in Seq(Char), NEW c \in Char, NEW z \in Seq(Char), NEW w, c \in Spaces
  PROVE  Count(s \o <<c>> \o z, w) = Count(s, w) + Count(z, w)
<1>. DEFINE x == s \o <<c>> \o z
            l == Len(s) + 1
            B == {p \in WordsAt(x, w) : p[1] > l}
            f == [p \in WordsAt(z, w) |-> <<p[1] + l, p[2] + l>>]
<1>1. x \in Seq(Char) /\ l \in Nat /\ Len(s) = l - 1
  OBVIOUS
<1>2. \A i, j \in Int : IsWord(x, i, j, w) <=> \/ IsWord(s, i, j, w)
                                               \/ IsWord(z, i - l, j - l, w)
  BY WordsApart
<1>. HIDE DEF x, l
<1>3. ASSUME NEW i, NEW j
      PROVE  /\ IsWord(s, i, j, w) => i \in Nat /\ j \in Nat /\ i < l /\ j < l
             /\ IsWord(z, i, j, w) => i \in Nat /\ j \in Nat /\ i > 0
             /\ IsWord(x, i, j, w) => i \in Int /\ j \in Int
  BY <1>1 DEF IsWord
<1>4. f \in Bijection(WordsAt(z, w), B)
  <2>1. ASSUME NEW p \in WordsAt(z, w)
        PROVE  /\ p[1] \in Nat /\ p[2] \in Nat /\ p = <<p[1], p[2]>>
               /\ f[p] = <<p[1] + l, p[2] + l>> /\ f[p] \in B
    <3>1. p = <<p[1], p[2]>> /\ IsWord(z, p[1], p[2], w)
      BY WordsAtAre
    <3>2. p[1] \in Nat /\ p[2] \in Nat /\ p[1] > 0
      BY <1>3, <3>1
    <3>3. (p[1] + l) - l = p[1] /\ (p[2] + l) - l = p[2] /\ p[1] + l \in Int /\ p[2] + l \in Int
          /\ p[1] + l > l
      BY <1>1, <3>2
    <3>4. <<p[1] + l, p[2] + l>> \in WordsAt(x, w)
      BY <1>1, <1>2, <3>1, <3>3, WordsAtAre
    <3>. QED  BY <3>1, <3>2, <3>3, <3>4
  <2>2. ASSUME NEW p \in WordsAt(z, w), NEW q \in WordsAt(z, w), f[p] = f[q] PROVE p = q
    <3>1. p[1] + l = q[1] + l /\ p[2] + l = q[2] + l
      BY <2>1, <2>2
    <3>2. p[1] \in Nat /\ p[2] \in Nat /\ q[1] \in Nat /\ q[2] \in Nat
      BY <2>1
    <3>3. p[1] = q[1] /\ p[2] = q[2]
      BY <1>1, <3>1, <3>2, SMTT(30)
    <3>. QED  BY <2>1, <3>3
  <2>3. ASSUME NEW q \in B PROVE \E p \in WordsAt(z, w) : f[p] = q
    <3>1. q = <<q[1], q[2]>> /\ IsWord(x, q[1], q[2], w) /\ q[1] > l
      BY <1>1, WordsAtAre
    <3>2. q[1] \in Int /\ q[2] \in Int /\ IsWord(z, q[1] - l, q[2] - l, w)
      BY <1>1, <1>2, <1>3, <3>1
    <3>3. <<q[1] - l, q[2] - l>> \in WordsAt(z, w)
      BY <3>2, WordsAtAre
    <3>4. f[<<q[1] - l, q[2] - l>>] = <<(q[1] - l) + l, (q[2] - l) + l>>
      BY <3>3
    <3>5. (q[1] - l) + l = q[1] /\ (q[2] - l) + l = q[2]
      BY <1>1, <3>2
    <3>. QED  BY <3>1, <3>3, <3>4, <3>5
  <2>4. f \in [WordsAt(z, w) -> B]
    BY <2>1
  <2>. HIDE DEF f, B
  <2>. QED  BY <2>2, <2>3, <2>4 DEF Bijection, Injection, Surjection, IsInjective
<1>5. WordsAt(x, w) = WordsAt(s, w) \cup B /\ WordsAt(s, w) \cap B = {}
  <2>1. ASSUME NEW p PROVE p \in WordsAt(x, w) <=> p \in WordsAt(s, w) \/ p \in B
    <3>1. ASSUME p \in WordsAt(x, w), p \notin B PROVE p \in WordsAt(s, w)
      <4>1. p = <<p[1], p[2]>> /\ IsWord(x, p[1], p[2], w) /\ ~(p[1] > l)
        BY <1>1, <3>1, WordsAtAre
      <4>2. IsWord(s, p[1], p[2], w)
        <5>1. p[1] \in Int /\ p[2] \in Int
          BY <1>3, <4>1
        <5>2. CASE IsWord(z, p[1] - l, p[2] - l, w)
          <6>1. p[1] - l > 0
            BY <1>3, <5>2
          <6>. QED  BY <1>1, <4>1, <5>1, <6>1
        <5>. QED  BY <1>2, <4>1, <5>1, <5>2
      <4>. QED  BY <4>1, <4>2, WordsAtAre
    <3>2. ASSUME p \in WordsAt(s, w) PROVE p \in WordsAt(x, w)
      <4>1. p = <<p[1], p[2]>> /\ IsWord(s, p[1], p[2], w)
        BY <3>2, WordsAtAre
      <4>2. IsWord(x, p[1], p[2], w)
        BY <1>2, <1>3, <4>1
      <4>. QED  BY <1>1, <4>1, <4>2, WordsAtAre
    <3>. QED  BY <3>1, <3>2
  <2>2. ASSUME NEW p \in WordsAt(s, w) PROVE p \notin B
    <3>1. IsWord(s, p[1], p[2], w)
      BY WordsAtAre
    <3>2. p[1] \in Nat /\ p[1] < l
      BY <1>3, <3>1
    <3>. QED  BY <1>1, <3>2
  <2>. QED  BY <2>1, <2>2
<1>6. /\ IsFiniteSet(WordsAt(s, w)) /\ IsFiniteSet(WordsAt(z, w)) /\ IsFiniteSet(WordsAt(x, w))
      /\ Count(s, w) \in Nat /\ Count(z, w) \in Nat
  BY <1>1, CountType
<1>7. IsFiniteSet(B) /\ Cardinality(B) = Count(z, w)
  <2>1. ExistsBijection(WordsAt(z, w), B)
    BY <1>4 DEF ExistsBijection
  <2>. HIDE DEF B, f
  <2>. QED  BY <1>6, <2>1, FS_Bijection DEF Count
<1>. HIDE DEF B, f
<1>8. Cardinality({}) = 0
  BY FS_EmptySet
<1>9. Cardinality(WordsAt(s, w) \cup B)
        = Cardinality(WordsAt(s, w)) + Cardinality(B) - Cardinality(WordsAt(s, w) \cap B)
  BY <1>6, <1>7, FS_Union
<1>10. Count(x, w) = Count(s, w) + Count(z, w)
  <2>1. Cardinality(WordsAt(s, w) \cap B) = 0
    BY <1>5, <1>8
  <2>2. Cardinality(WordsAt(x, w)) = Cardinality(WordsAt(s, w)) + Cardinality(B) - 0
    BY <1>5, <1>9, <2>1
  <2>. QED  BY <1>6, <1>7, <2>2 DEF Count
<1>. QED  BY <1>10 DEF x

\* A text without spaces is one word, and one of spaces none.
LEMMA CountOfOne ==
  ASSUME NEW r \in Seq(Char), r # <<>>, \A k \in 1 .. Len(r) : r[k] \notin Spaces, NEW w
  PROVE  Count(r, w) = IF F!Strip(r) = w THEN 1 ELSE 0
<1>1. Len(r) \in Nat \ {0}
  OBVIOUS
<1>5. SubSeq(r, 1, Len(r)) = r
  BY SubSeqFull
<1>2. ASSUME NEW i, NEW j PROVE IsWord(r, i, j, w) <=> i = 1 /\ j = Len(r) /\ F!Strip(r) = w
  <2>1. ASSUME IsWord(r, i, j, w) PROVE i = 1 /\ j = Len(r) /\ F!Strip(r) = w
    <3>1. /\ i \in 1 .. Len(r) /\ j \in 1 .. Len(r) /\ F!Strip(SubSeq(r, i, j)) = w
          /\ i = 1 \/ r[i - 1] \in Spaces
          /\ j = Len(r) \/ r[j + 1] \in Spaces
      BY <2>1 DEF IsWord
    <3>2. i = 1
      <4>1. SUFFICES ASSUME i # 1 PROVE FALSE
        OBVIOUS
      <4>2. i - 1 \in 1 .. Len(r) /\ r[i - 1] \in Spaces
        BY <1>1, <3>1, <4>1
      <4>. QED  BY <4>2
    <3>3. j = Len(r)
      <4>1. SUFFICES ASSUME j # Len(r) PROVE FALSE
        OBVIOUS
      <4>2. j + 1 \in 1 .. Len(r) /\ r[j + 1] \in Spaces
        BY <1>1, <3>1, <4>1
      <4>. QED  BY <4>2
    <3>. QED  BY <1>5, <3>1, <3>2, <3>3
  <2>2. ASSUME i = 1, j = Len(r), F!Strip(r) = w PROVE IsWord(r, i, j, w)
    <3>1. 1 \in 1 .. Len(r) /\ Len(r) \in 1 .. Len(r) /\ 1 <= Len(r)
      BY <1>1
    <3>. QED  BY <1>5, <2>2, <3>1 DEF IsWord
  <2>. QED  BY <2>1, <2>2
<1>3. ASSUME NEW p
      PROVE  p \in WordsAt(r, w) <=> p = <<1, Len(r)>> /\ F!Strip(r) = w
  <2>1. ASSUME p \in WordsAt(r, w) PROVE p = <<1, Len(r)>> /\ F!Strip(r) = w
    <3>1. p = <<p[1], p[2]>> /\ IsWord(r, p[1], p[2], w)
      BY <2>1, WordsAtAre
    <3>2. p[1] = 1 /\ p[2] = Len(r) /\ F!Strip(r) = w
      BY <1>2, <3>1
    <3>. QED  BY <3>1, <3>2
  <2>2. ASSUME p = <<1, Len(r)>>, F!Strip(r) = w PROVE p \in WordsAt(r, w)
    BY <1>2, <2>2, WordsAtAre
  <2>. QED  BY <2>1, <2>2
<1>4. WordsAt(r, w) = IF F!Strip(r) = w THEN {<<1, Len(r)>>} ELSE {}
  BY <1>3
<1>. QED  BY <1>4, FS_EmptySet, FS_Singleton DEF Count

LEMMA CountOfNone == \A w : Count(<<>>, w) = 0
<1>1. ASSUME NEW w PROVE WordsAt(<<>>, w) = {}
  <2>1. 1 .. Len(<<>>) = {}
    OBVIOUS
  <2>. QED  BY <2>1 DEF WordsAt
<1>. QED  BY <1>1, FS_EmptySet DEF Count

\* A space at the end of a text makes no word.
LEMMA SpaceAtEnd ==
  ASSUME NEW s \in Seq(Char), NEW c \in Char, c \in Spaces, NEW w
  PROVE  Count(s \o <<c>>, w) = Count(s, w)
<1>1. s \o <<c>> \o <<>> = s \o <<c>> /\ <<>> \in Seq(Char)
  OBVIOUS
<1>2. \A z \in Seq(Char) : Count(s \o <<c>> \o z, w) = Count(s, w) + Count(z, w)
  BY CountJoined
<1>3. Count(s \o <<c>> \o <<>>, w) = Count(s, w) + Count(<<>>, w)
  BY <1>1, <1>2, Zenon
<1>4. Count(<<>>, w) = 0 /\ Count(s, w) \in Nat
  BY CountOfNone, CountType
<1>. QED  BY <1>1, <1>3, <1>4

\* Where a word is complete.
AtBreak(v) == v = <<>> \/ v[Len(v)] \in Spaces

\* A word and the space behind it are counted, when what comes before is complete.
LEMMA WordComplete ==
  ASSUME NEW v \in Seq(Char), AtBreak(v),
         NEW r \in Seq(Char), r # <<>>, \A k \in 1 .. Len(r) : r[k] \notin Spaces,
         NEW c \in Char, c \in Spaces, NEW w
  PROVE  Count(v \o r \o <<c>>, w) = Count(v, w) + (IF F!Strip(r) = w THEN 1 ELSE 0)
<1>1. Count(v \o r \o <<c>>, w) = Count(v \o r, w)
  <2>1. v \o r \in Seq(Char)
    OBVIOUS
  <2>2. \A x \in Seq(Char) : Count(x \o <<c>>, w) = Count(x, w)
    BY SpaceAtEnd
  <2>. QED  BY <2>1, <2>2
<1>2. CASE v = <<>>
  <2>1. v \o r = r
    BY <1>2
  <2>. QED  BY <1>1, <1>2, <2>1, CountOfOne, CountOfNone
<1>3. CASE v # <<>>
  <2>. DEFINE u == SubSeq(v, 1, Len(v) - 1)
              d == v[Len(v)]
  <2>1. u \in Seq(Char) /\ d \in Char /\ d \in Spaces /\ v = u \o <<d>>
    <3>1. Len(v) \in 1 .. Len(v) /\ 1 \in 1 .. Len(v)
      BY <1>3
    <3>2. SubSeq(v, 1, Len(v)) = SubSeq(v, 1, Len(v) - 1) \o <<v[Len(v)]>>
      BY <3>1, SubSeqRecursiveSecond
    <3>3. SubSeq(v, 1, Len(v)) = v
      BY SubSeqFull
    <3>4. u \in Seq(Char)
      BY <3>1, SubSeqProperties
    <3>5. d \in Char /\ d \in Spaces
      BY <1>3, <3>1 DEF AtBreak
    <3>. QED  BY <3>2, <3>3, <3>4, <3>5
  <2>. HIDE DEF u, d
  <2>2. Count(v \o r, w) = Count(u, w) + Count(r, w)
    BY <2>1, CountJoined
  <2>3. Count(v, w) = Count(u, w)
    BY <2>1, SpaceAtEnd
  <2>. QED  BY <1>1, <2>2, <2>3, CountOfOne
<1>. QED  BY <1>2, <1>3

-----------------------------------------------------------------------------
(* freq: line ends make no difference to the words.                         *)

\* Two texts have the same words, whatever follows them.
SameWords(s, t) == \A z \in Seq(Char) : \A w : Count(s \o z, w) = Count(t \o z, w)

LEMMA SameWordsSym ==
  ASSUME NEW s, NEW t, SameWords(s, t)
  PROVE  SameWords(t, s)
BY DEF SameWords

LEMMA SameWordsTrans ==
  ASSUME NEW s, NEW t, NEW u, SameWords(s, t), SameWords(t, u)
  PROVE  SameWords(s, u)
BY DEF SameWords

LEMMA SameWordsAppend ==
  ASSUME NEW s \in Seq(Char), NEW t \in Seq(Char), SameWords(s, t), NEW r \in Seq(Char)
  PROVE  SameWords(s \o r, t \o r)
<1>1. ASSUME NEW z \in Seq(Char), NEW w
      PROVE  Count((s \o r) \o z, w) = Count((t \o r) \o z, w)
  <2>1. ASSUME NEW x \in Seq(Char) PROVE (x \o r) \o z = x \o (r \o z)
    OBVIOUS
  <2>2. r \o z \in Seq(Char)
    BY ConcatProperties
  <2>. QED  BY <2>1, <2>2 DEF SameWords
<1>. QED  BY <1>1 DEF SameWords

\* One space, another one or two of them make no difference.
LEMMA SpacesAreSame ==
  ASSUME NEW s \in Seq(Char), NEW c \in Char, NEW d \in Char, c \in Spaces, d \in Spaces
  PROVE  /\ SameWords(s \o <<c>>, s \o <<d>>)
         /\ SameWords(s \o <<c>>, s \o <<c, d>>)
<1>1. ASSUME NEW z \in Seq(Char), NEW w
      PROVE  /\ Count((s \o <<c>>) \o z, w) = Count((s \o <<d>>) \o z, w)
             /\ Count((s \o <<c>>) \o z, w) = Count((s \o <<c, d>>) \o z, w)
  <2>1. /\ Count((s \o <<c>>) \o z, w) = Count(s, w) + Count(z, w)
        /\ Count((s \o <<d>>) \o z, w) = Count(s, w) + Count(z, w)
    BY CountJoined
  <2>2. (s \o <<c, d>>) \o z = (s \o <<c>>) \o <<d>> \o z /\ s \o <<c>> \in Seq(Char)
    OBVIOUS
  <2>3. \A x \in Seq(Char) : Count(x \o <<d>> \o z, w) = Count(x, w) + Count(z, w)
    BY CountJoined
  <2>4. Count(s \o <<c>>, w) = Count(s, w)
    BY SpaceAtEnd
  <2>5. Count((s \o <<c, d>>) \o z, w) = Count(s \o <<c>>, w) + Count(z, w)
    BY <2>2, <2>3
  <2>. QED  BY <2>1, <2>4, <2>5
<1>. QED  BY <1>1 DEF SameWords

-----------------------------------------------------------------------------
(* freq: the order of the list.                                             *)

\* An order of a finite set can be written down.
LEMMA Arranged ==
  ASSUME NEW S, IsFiniteSet(S), NEW R,
         \A x \in S : <<x, x>> \notin R,
         \A x, y \in S : x # y => <<x, y>> \in R \/ <<y, x>> \in R,
         \A x, y, z \in S : <<x, y>> \in R /\ <<y, z>> \in R => <<x, z>> \in R
  PROVE  \E s \in [1 .. Cardinality(S) -> S] :
           \A j, k \in 1 .. Cardinality(S) : j < k => <<s[j], s[k]>> \in R
<1>. DEFINE Less(x) == {y \in S : <<y, x>> \in R}
            n == Cardinality(S)
            rank == [x \in S |-> Cardinality(Less(x)) + 1]
<1>1. n \in Nat
  BY FS_CardinalityType
<1>2. ASSUME NEW x \in S
      PROVE  /\ IsFiniteSet(Less(x)) /\ Cardinality(Less(x)) \in Nat
             /\ Cardinality(Less(x)) < n
  <2>1. Less(x) \subseteq S /\ x \notin Less(x)
    OBVIOUS
  <2>2. IsFiniteSet(Less(x)) /\ Cardinality(Less(x)) <= n /\ (n = Cardinality(Less(x)) => S = Less(x))
    BY <2>1, FS_Subset
  <2>3. Cardinality(Less(x)) \in Nat
    BY <2>2, FS_CardinalityType
  <2>. HIDE DEF Less, n
  <2>. QED  BY <1>1, <2>1, <2>2, <2>3
<1>3. ASSUME NEW x \in S, NEW y \in S, <<x, y>> \in R
      PROVE  Cardinality(Less(x)) < Cardinality(Less(y))
  <2>1. Less(x) \subseteq Less(y) /\ x \in Less(y) /\ x \notin Less(x)
    BY <1>3
  <2>2. /\ Cardinality(Less(x)) <= Cardinality(Less(y))
        /\ Cardinality(Less(y)) = Cardinality(Less(x)) => Less(x) = Less(y)
    BY <1>2, <2>1, FS_Subset
  <2>3. Cardinality(Less(x)) \in Nat /\ Cardinality(Less(y)) \in Nat
    BY <1>2
  <2>. HIDE DEF Less
  <2>. QED  BY <2>1, <2>2, <2>3
<1>4. rank \in [S -> 1 .. n]
  <2>1. ASSUME NEW x \in S PROVE Cardinality(Less(x)) + 1 \in 1 .. n
    <3>. HIDE DEF Less, n
    <3>. QED  BY <1>1, <1>2
  <2>. QED  BY <2>1
<1>5. ASSUME NEW x \in S, NEW y \in S
      PROVE  /\ rank[x] = rank[y] => x = y
             /\ rank[x] < rank[y] => <<x, y>> \in R
  <2>. DEFINE a == Cardinality(Less(x))
              b == Cardinality(Less(y))
  <2>1. rank[x] = a + 1 /\ rank[y] = b + 1 /\ (x = y => a = b)
    OBVIOUS
  <2>2. a \in Nat /\ b \in Nat
    BY <1>2
  <2>3. (<<x, y>> \in R => a < b) /\ (<<y, x>> \in R => b < a)
    BY <1>3
  <2>4. x = y \/ <<x, y>> \in R \/ <<y, x>> \in R
    OBVIOUS
  <2>. HIDE DEF a, b, rank
  <2>5. (rank[x] = rank[y] <=> a = b) /\ (rank[x] < rank[y] <=> a < b)
    BY <2>1, <2>2
  <2>. QED  BY <2>1, <2>2, <2>3, <2>4, <2>5
<1>7. IsFiniteSet(1 .. n) /\ Cardinality(1 .. n) = n
  BY <1>1, FS_Interval
<1>. HIDE DEF rank, n
<1>8. rank \in Injection(S, 1 .. n)
  BY <1>4, <1>5 DEF Injection, IsInjective
<1>9. rank \in Surjection(S, 1 .. n)
  BY <1>7, <1>8, FS_Injection DEF n
<1>10. \A k \in 1 .. n : \E x \in S : rank[x] = k
  BY <1>9 DEF Surjection
<1>. DEFINE s == [k \in 1 .. n |-> CHOOSE x \in S : rank[x] = k]
<1>11. \A k \in 1 .. n : s[k] \in S /\ rank[s[k]] = k
  BY <1>10
<1>12. s \in [1 .. n -> S]
  BY <1>11
<1>13. ASSUME NEW j \in 1 .. n, NEW k \in 1 .. n, j < k PROVE <<s[j], s[k]>> \in R
  <2>1. s[j] \in S /\ s[k] \in S /\ rank[s[j]] < rank[s[k]]
    BY <1>11, <1>13
  <2>. QED  BY <1>5, <2>1
<1>. HIDE DEF s
<1>. QED  BY <1>12, <1>13 DEF n

\* The order of strcmp, by the first place where two words differ.
LEMMA BeforeAt ==
  ASSUME NEW u \in Seq(Int), NEW v \in Seq(Int)
  PROVE  F!Before(u, v) <=>
           \E n \in Nat :
             /\ n <= Len(u) /\ n < Len(v)
             /\ \A k \in 1 .. n : u[k] = v[k]
             /\ n = Len(u) \/ u[n + 1] < v[n + 1]
<1>1. ASSUME NEW n \in Nat, n <= Len(u), n < Len(v)
      PROVE  SubSeq(u, 1, n) = SubSeq(v, 1, n) <=> \A k \in 1 .. n : u[k] = v[k]
  <2>1. \A k \in 1 .. n : u[k] \in Int /\ v[k] \in Int
    BY <1>1
  <2>2. /\ SubSeq(u, 1, n) \in Seq(Int) /\ Len(SubSeq(u, 1, n)) = n
        /\ \A k \in 1 .. n : SubSeq(u, 1, n)[k] = u[k]
    <3>1. /\ SubSeq(u, 1, n) \in Seq(Int)
          /\ Len(SubSeq(u, 1, n)) = IF 1 <= n THEN n - 1 + 1 ELSE 0
          /\ \A k \in 1 .. n - 1 + 1 : SubSeq(u, 1, n)[k] = u[1 + k - 1]
      BY <2>1, SubSeqProperties
    <3>. QED  BY <3>1
  <2>3. /\ SubSeq(v, 1, n) \in Seq(Int) /\ Len(SubSeq(v, 1, n)) = n
        /\ \A k \in 1 .. n : SubSeq(v, 1, n)[k] = v[k]
    <3>1. /\ SubSeq(v, 1, n) \in Seq(Int)
          /\ Len(SubSeq(v, 1, n)) = IF 1 <= n THEN n - 1 + 1 ELSE 0
          /\ \A k \in 1 .. n - 1 + 1 : SubSeq(v, 1, n)[k] = v[1 + k - 1]
      BY <2>1, SubSeqProperties
    <3>. QED  BY <3>1
  <2>. QED  BY <2>2, <2>3, SeqEqual
<1>2. \A n : n \in 0 .. Len(u) <=> n \in Nat /\ n <= Len(u)
  OBVIOUS
<1>. QED  BY <1>1, <1>2 DEF F!Before

LEMMA BeforeOrders ==
  /\ \A u \in Seq(Int) : ~F!Before(u, u)
  /\ \A u, v \in Seq(Int) : u # v => F!Before(u, v) \/ F!Before(v, u)
  /\ \A u, v, w \in Seq(Int) : F!Before(u, v) /\ F!Before(v, w) => F!Before(u, w)
<1>1. ASSUME NEW u \in Seq(Int), F!Before(u, u) PROVE FALSE
  <2>1. PICK n \in Nat : n < Len(u) /\ (n = Len(u) \/ u[n + 1] < u[n + 1])
    BY <1>1, BeforeAt
  <2>2. n + 1 \in 1 .. Len(u)
    BY <2>1
  <2>3. u[n + 1] \in Int
    BY <2>2
  <2>. QED  BY <2>1, <2>3
<1>2. ASSUME NEW u \in Seq(Int), NEW v \in Seq(Int), u # v
      PROVE  F!Before(u, v) \/ F!Before(v, u)
  <2>. DEFINE T == {n \in Nat : /\ n <= Len(u) /\ n <= Len(v)
                                /\ n = Len(u) \/ n = Len(v) \/ u[n + 1] # v[n + 1]}
  <2>1. Len(u) \in Nat /\ Len(v) \in Nat
    OBVIOUS
  <2>2. Len(u) \in T \/ Len(v) \in T
    BY <2>1
  <2>3. PICK n \in T : \A k \in T : n <= k
    BY <2>2, P!Least
  <2>4. /\ n \in Nat /\ n <= Len(u) /\ n <= Len(v)
        /\ n = Len(u) \/ n = Len(v) \/ u[n + 1] # v[n + 1]
    BY <2>3
  <2>5. ASSUME NEW k \in 1 .. n PROVE u[k] = v[k]
    <3>1. SUFFICES ASSUME u[k] # v[k] PROVE FALSE
      OBVIOUS
    <3>2. k - 1 \in Nat /\ k - 1 < n /\ (k - 1) + 1 = k
      BY <2>4
    <3>3. k - 1 <= Len(u) /\ k - 1 <= Len(v)
      BY <2>1, <2>4, <3>2
    <3>4. k - 1 \in T
      BY <3>1, <3>2, <3>3
    <3>. HIDE DEF T
    <3>. QED  BY <2>3, <2>4, <3>2, <3>4
  <2>. HIDE DEF T
  <2>6. CASE n = Len(u)
    <3>1. n # Len(v)
      <4>1. SUFFICES ASSUME n = Len(v) PROVE FALSE
        OBVIOUS
      <4>. QED  BY <1>2, <2>5, <2>6, <4>1, SeqEqual
    <3>2. n < Len(v)
      BY <2>1, <2>4, <3>1
    <3>. QED  BY <2>4, <2>5, <2>6, <3>2, BeforeAt
  <2>7. CASE n # Len(u) /\ n = Len(v)
    <3>1. n < Len(u)
      BY <2>1, <2>4, <2>7
    <3>2. \A k \in 1 .. n : v[k] = u[k]
      BY <2>5
    <3>. QED  BY <2>4, <2>7, <3>1, <3>2, BeforeAt
  <2>8. CASE n # Len(u) /\ n # Len(v)
    <3>1. n < Len(u) /\ n < Len(v) /\ n + 1 \in 1 .. Len(u) /\ n + 1 \in 1 .. Len(v)
      BY <2>1, <2>4, <2>8
    <3>2. u[n + 1] \in Int /\ v[n + 1] \in Int /\ u[n + 1] # v[n + 1]
      BY <2>4, <2>8, <3>1
    <3>3. u[n + 1] < v[n + 1] \/ v[n + 1] < u[n + 1]
      BY <3>2
    <3>4. \A k \in 1 .. n : v[k] = u[k]
      BY <2>5
    <3>. QED  BY <2>4, <2>5, <3>1, <3>3, <3>4, BeforeAt
  <2>. QED  BY <2>6, <2>7, <2>8
<1>3. ASSUME NEW u \in Seq(Int), NEW v \in Seq(Int), NEW w \in Seq(Int),
             F!Before(u, v), F!Before(v, w)
      PROVE  F!Before(u, w)
  <2>1. PICK n \in Nat : /\ n <= Len(u) /\ n < Len(v)
                         /\ \A k \in 1 .. n : u[k] = v[k]
                         /\ n = Len(u) \/ u[n + 1] < v[n + 1]
    BY <1>3, BeforeAt
  <2>2. PICK m \in Nat : /\ m <= Len(v) /\ m < Len(w)
                         /\ \A k \in 1 .. m : v[k] = w[k]
                         /\ m = Len(v) \/ v[m + 1] < w[m + 1]
    BY <1>3, BeforeAt
  <2>3. Len(u) \in Nat /\ Len(v) \in Nat /\ Len(w) \in Nat
    OBVIOUS
  <2>4. CASE n < m
    <3>1. n < Len(w) /\ n + 1 \in 1 .. m /\ \A k \in 1 .. n : k \in 1 .. m
      BY <2>2, <2>3, <2>4
    <3>2. v[n + 1] = w[n + 1] /\ \A k \in 1 .. n : u[k] = w[k]
      BY <2>1, <2>2, <3>1
    <3>. QED  BY <2>1, <3>1, <3>2, BeforeAt
  <2>5. CASE n = m
    <3>1. \A k \in 1 .. n : u[k] = w[k]
      BY <2>1, <2>2, <2>5
    <3>2. n = Len(u) \/ u[n + 1] < w[n + 1]
      <4>1. SUFFICES ASSUME n # Len(u) PROVE u[n + 1] < w[n + 1]
        OBVIOUS
      <4>2. n + 1 \in 1 .. Len(u) /\ n + 1 \in 1 .. Len(v) /\ n + 1 \in 1 .. Len(w) /\ m # Len(v)
        BY <2>1, <2>2, <2>3, <2>5, <4>1, SMTT(30)
      <4>3. u[n + 1] \in Int /\ v[n + 1] \in Int /\ w[n + 1] \in Int
        BY <4>2, ElementOfSeq
      <4>4. u[n + 1] < v[n + 1] /\ v[n + 1] < w[n + 1]
        BY <2>1, <2>2, <2>5, <4>1, <4>2
      <4>. QED  BY <4>3, <4>4
    <3>. QED  BY <2>1, <2>2, <2>5, <3>1, <3>2, BeforeAt
  <2>6. CASE m < n
    <3>1. /\ m <= Len(u) /\ m # Len(v) /\ m + 1 \in 1 .. n /\ \A k \in 1 .. m : k \in 1 .. n
      BY <2>1, <2>3, <2>6
    <3>2. v[m + 1] < w[m + 1] /\ u[m + 1] = v[m + 1] /\ \A k \in 1 .. m : u[k] = w[k]
      BY <2>1, <2>2, <3>1
    <3>. QED  BY <2>2, <3>1, <3>2, BeforeAt
  <2>. QED  BY <2>4, <2>5, <2>6
<1>. QED  BY <1>1, <1>2, <1>3

\* Words with their counts.
Counts == [word : Seq(Int), count : Int]

\* The words with their counts can be put in order.
LEMMA ListExists ==
  ASSUME NEW S, IsFiniteSet(S), S \subseteq Counts,
         \A x, y \in S : x.word = y.word => x = y
  PROVE  \E s \in [1 .. Cardinality(S) -> S] :
           \A j, k \in DOMAIN s : j < k => F!cmp_wordcount(s[j], s[k])
<1>. DEFINE R == {p \in S \X S : F!cmp_wordcount(p[1], p[2])}
<1>0. \A x \in S : x.word \in Seq(Int) /\ x.count \in Int
  BY DEF Counts
<1>1. \A x, y \in S : <<x, y>> \in R <=> F!cmp_wordcount(x, y)
  OBVIOUS
<1>. HIDE DEF R
<1>2. \A x \in S : <<x, x>> \notin R
  BY <1>0, <1>1, BeforeOrders DEF F!cmp_wordcount
<1>3. ASSUME NEW x \in S, NEW y \in S, x # y PROVE <<x, y>> \in R \/ <<y, x>> \in R
  <2>1. x.word # y.word
    BY <1>3
  <2>2. F!Before(x.word, y.word) \/ F!Before(y.word, x.word)
    BY <1>0, <2>1, BeforeOrders
  <2>. QED  BY <1>0, <1>1, <2>2 DEF F!cmp_wordcount
<1>4. ASSUME NEW x \in S, NEW y \in S, NEW z \in S, <<x, y>> \in R, <<y, z>> \in R
      PROVE  <<x, z>> \in R
  <2>1. F!Before(x.word, y.word) /\ F!Before(y.word, z.word) => F!Before(x.word, z.word)
    BY <1>0, BeforeOrders
  <2>2. x.count \in Int /\ y.count \in Int /\ z.count \in Int
    BY <1>0
  <2>. QED  BY <1>1, <1>4, <2>1, <2>2 DEF F!cmp_wordcount
<1>5. PICK s \in [1 .. Cardinality(S) -> S] :
        \A j, k \in 1 .. Cardinality(S) : j < k => <<s[j], s[k]>> \in R
  BY <1>2, <1>3, <1>4, Arranged
<1>6. \A j, k \in DOMAIN s : j < k => F!cmp_wordcount(s[j], s[k])
  BY <1>1, <1>5
<1>. QED  BY <1>5, <1>6

\* The parts of the text, as Freq names them, are these words.
LEMMA PartsAre ==
  ASSUME text \in Seq(Char)
  PROVE  /\ \A w : F!Occurrences(w) = Count(text, w)
         /\ \A w : w \in F!Words <=> w # <<>> /\ Count(text, w) > 0
<1>1. DOMAIN text = 1 .. Len(text)
  OBVIOUS
<1>2. ASSUME NEW w
      PROVE  {p \in F!Parts : F!Strip(SubSeq(text, p[1], p[2])) = w} = WordsAt(text, w)
  BY <1>1 DEF F!Parts, WordsAt, IsWord
<1>3. ASSUME NEW w PROVE F!Occurrences(w) = Count(text, w)
  BY <1>2, SameCardinality DEF F!Occurrences, Count
<1>4. ASSUME NEW w PROVE w \in F!Words <=> w # <<>> /\ Count(text, w) > 0
  <2>1. /\ IsFiniteSet(WordsAt(text, w)) /\ Count(text, w) \in Nat
        /\ Count(text, w) = 0 <=> WordsAt(text, w) = {}
    BY CountType, FS_EmptySet DEF Count
  <2>2. w \in F!Words <=> w # <<>> /\ \E p \in F!Parts : F!Strip(SubSeq(text, p[1], p[2])) = w
    BY DEF F!Words
  <2>3. (\E p \in F!Parts : F!Strip(SubSeq(text, p[1], p[2])) = w) <=> WordsAt(text, w) # {}
    BY <1>2
  <2>. QED  BY <2>1, <2>2, <2>3
<1>. QED  BY <1>3, <1>4

LEMMA WordsFinite == ASSUME text \in Seq(Char) PROVE IsFiniteSet(F!Words)
<1>. DEFINE f == [p \in F!Parts |-> F!Strip(SubSeq(text, p[1], p[2]))]
            W == {f[p] : p \in F!Parts}
<1>1. IsFiniteSet(F!Parts)
  <2>1. DOMAIN text = 1 .. Len(text) /\ Len(text) \in Nat
    OBVIOUS
  <2>2. IsFiniteSet((DOMAIN text) \X (DOMAIN text))
    <3>1. IsFiniteSet(1 .. Len(text))
      BY <2>1, FS_Interval
    <3>2. IsFiniteSet((1 .. Len(text)) \X (1 .. Len(text)))
      BY <3>1, FS_Product
    <3>. QED  BY <2>1, <3>2
  <2>3. F!Parts \subseteq (DOMAIN text) \X (DOMAIN text)
    BY DEF F!Parts
  <2>. QED  BY <2>2, <2>3, FS_Subset
<1>2. f \in Surjection(F!Parts, W)
  BY DEF Surjection
<1>3. F!Words \subseteq W
  BY DEF F!Words
<1>. HIDE DEF f
<1>4. IsFiniteSet(W)
  BY <1>1, <1>2, FS_Surjection
<1>. QED  BY <1>3, <1>4, FS_Subset

LEMMA LeastOfTwo ==
  ASSUME NEW a \in Int, NEW b \in Int
  PROVE  F!Min({a, b}) = IF a <= b THEN a ELSE b
<1>1. F!Min({a, b}) \in {a, b} /\ \A y \in {a, b} : F!Min({a, b}) <= y
  <2>1. \E x \in {a, b} : \A y \in {a, b} : x <= y
    OBVIOUS
  <2>. QED  BY <2>1 DEF F!Min
<1>. QED  BY <1>1

-----------------------------------------------------------------------------
(* freq: what it has counted, and what it prints.                           *)

\* The counts cs of the nodes ns, when the text up to here is s; e allocations
\* have failed.
Counted(ns, cs, e, s) ==
  /\ \A m \in ns : /\ m.key # <<>> /\ cs[m.val] <= Count(s, m.key)
                   /\ e = 0 => cs[m.val] = Count(s, m.key)
  /\ e = 0 => \A w : w # <<>> /\ Count(s, w) > 0 => \E m \in ns : m.key = w

\* The text t has been read as far as v, and b of a word; f is the rest.
ReadTo(v, t, b, f) ==
  /\ v \in Seq(Char) /\ AtBreak(v) /\ \A k \in 1 .. Len(b) : b[k] \notin Spaces
  /\ \A w : Count(t, w) = Count(v \o b \o f, w)

\* From v it has been read past the word b and the space behind it, as far as u.
ReadPast(u, v, t, b, f) ==
  /\ ReadTo(u, t, <<>>, IF f = <<>> THEN f ELSE Tail(f))
  /\ \A w : Count(u, w) = Count(v, w) + (IF F!Strip(b) = w THEN 1 ELSE 0)

\* TopWords, once the list is printed.
Listed ==
  /\ \A k \in DOMAIN printed :
       /\ printed[k].word \in F!Words
       /\ printed[k].count <= Count(text, printed[k].word)
       /\ k > 1 => F!Precedes(printed[k - 1].word, printed[k - 1].count,
                              printed[k].word, printed[k].count)
  /\ failures = 0 /\ status = 0 =>
       /\ \A k \in DOMAIN printed : printed[k].count = Count(text, printed[k].word)
       /\ Len(printed) = IF Top <= Cardinality(F!Words) THEN Top ELSE Cardinality(F!Words)
       /\ \A w \in F!Words \ {printed[k].word : k \in DOMAIN printed} :
            F!Precedes(F!Last(printed).word, F!Last(printed).count, w, Count(text, w))

Unprinted == {"open", "buffer", "read", "print"}

FreqWords ==
  /\ at \in {"open", "buffer"} => \A w : Count(text, w) = Count(file, w)
  /\ at = "read" => \E v : /\ ReadTo(v, text, buf, file)
                           /\ Counted(P!NodesIn(arr, cap), cells, failures, v)
  /\ at = "print" => /\ Counted(P!NodesIn(arr, cap), cells, failures, text)
                     /\ \/ result = NULL /\ failures > 0
                        \/ result = P!TheKeys /\ P!TheKeys # NULL
  /\ at \in Unprinted => printed = <<>>
  /\ at \notin Unprinted => Listed

LEMMA CountedAs ==
  ASSUME NEW ns, NEW cs, NEW e, NEW s, Counted(ns, cs, e, s),
         NEW d, d = 0 => e = 0, NEW t, \A w : w # <<>> => Count(t, w) = Count(s, w)
  PROVE  Counted(ns, cs, d, t)
BY DEF Counted

\* The list stays, once it is printed.
LEMMA ListedKept ==
  ASSUME Listed, UNCHANGED <<text, printed, status>>, failures' = 0 => failures = 0
  PROVE  Listed'
<1>1. F!Words' = F!Words
  BY DEF F!Words, F!Parts
<1>. QED  BY <1>1 DEF Listed

\* Nothing is printed, for want of memory or of words.
LEMMA NothingListed ==
  ASSUME TextAssumption, printed' = <<>>, failures' = 0 /\ status' = 0 => F!Words' = {}
  PROVE  Listed'
<1>1. DOMAIN printed' = {} /\ Len(printed') = 0
  OBVIOUS
<1>2. Top \in Nat \ {0}
  BY DEF TextAssumption, F!FreqAssumption
<1>3. Cardinality({}) = 0
  BY FS_EmptySet
<1>4. ASSUME failures' = 0, status' = 0
      PROVE  /\ F!Words' = {} /\ ~(Top <= Cardinality(F!Words)') /\ Cardinality(F!Words)' = 0
  <2>1. F!Words' = {}
    BY <1>4
  <2>2. Cardinality(F!Words)' = 0
    BY <1>3, <2>1
  <2>. QED  BY <1>2, <2>1, <2>2
<1>. QED  BY <1>1, <1>4 DEF Listed

LEMMA CannotStartWords ==
  ASSUME TextAssumption, FreqWords, F!CannotStart
  PROVE  FreqWords'
<1>1. at = "open" /\ at' = "exit" /\ status' = 1 /\ printed' = printed
  BY DEF F!CannotStart
<1>2. Listed'
  BY <1>1, NothingListed DEF FreqWords, Unprinted
<1>. QED  BY <1>1, <1>2 DEF FreqWords, Unprinted

LEMMA StartWords ==
  ASSUME FreqWords, F!Start
  PROVE  FreqWords'
BY DEF F!Start, F!locals, FreqWords, Unprinted

LEMMA BufferWords ==
  ASSUME TextAssumption, P!IInv, FreqInv, text \in Seq(Char), FreqWords, F!Buffer
  PROVE  FreqWords'
<1>1. /\ at = "buffer" /\ UNCHANGED <<cap, arr, size, call, result>>
      /\ UNCHANGED <<file, buf, cells, live, printed, text>>
      /\ \/ F!D!Succeeds /\ at' = "read"
         \/ F!D!Fails /\ at' = "destroy" /\ status' = 1
  BY DEF F!Buffer
<1>2. /\ buf = <<>> /\ file \in Seq(Char) /\ \A m : m \notin P!NodesIn(arr, cap)
      /\ printed = <<>> /\ \A w : Count(text, w) = Count(file, w)
  BY <1>1 DEF FreqInv, FreqTypes, Ownership, FreqWords, Unprinted
<1>3. CASE at' = "destroy" /\ status' = 1
  <2>1. Listed'
    BY <1>1, <1>2, <1>3, NothingListed
  <2>. QED  BY <1>3, <2>1 DEF FreqWords, Unprinted
<1>4. CASE at' = "read"
  <2>1. ReadTo(<<>>, text', buf', file')
    <3>1. <<>> \in Seq(Char) /\ <<>> \o <<>> \o file = file /\ 1 .. Len(<<>>) = {}
      BY <1>2
    <3>. QED  BY <1>1, <1>2, <3>1 DEF ReadTo, AtBreak
  <2>2. Counted(P!NodesIn(arr, cap)', cells', failures', <<>>)
    <3>1. \A m : m \notin P!NodesIn(arr, cap)'
      BY <1>1, <1>2
    <3>2. \A w : ~(Count(<<>>, w) > 0)
      BY CountOfNone
    <3>. QED  BY <3>1, <3>2 DEF Counted
  <2>. QED  BY <1>1, <1>2, <1>4, <2>1, <2>2 DEF FreqWords, Unprinted
<1>. QED  BY <1>1, <1>3, <1>4

\* A character moves from the rest to the word, or behind it.
LEMMA OneRead ==
  ASSUME NEW v \in Seq(Char), NEW b \in Seq(Char), NEW f \in Seq(Char), f # <<>>
  PROVE  /\ v \o Append(b, Head(f)) \o Tail(f) = v \o b \o f
         /\ v \o b \o <<Head(f)>> \o <<>> \o Tail(f) = v \o b \o f
         /\ v \o b \o <<Head(f)>> \in Seq(Char)
<1>1. Head(f) \in Char /\ Tail(f) \in Seq(Char) /\ f = <<Head(f)>> \o Tail(f)
  BY Ends
<1>. DEFINE h == <<Head(f)>>
            t == Tail(f)
<1>2. h \in Seq(Char) /\ Append(b, Head(f)) = b \o h
  BY <1>1
<1>. HIDE DEF h, t
<1>3. v \o b \in Seq(Char) /\ b \o h \in Seq(Char) /\ v \o b \o h \in Seq(Char) /\ t \in Seq(Char)
  BY <1>1, <1>2 DEF t
<1>4. v \o b \o h = v \o (b \o h)
  BY ONLY v \in Seq(Char), b \in Seq(Char), <1>2, ConcatAssociative
<1>5. v \o b \o h \o t = v \o b \o (h \o t)
  <2>. DEFINE k == v \o b
  <2>1. k \in Seq(Char) /\ h \in Seq(Char) /\ t \in Seq(Char)
    BY <1>2, <1>3
  <2>. HIDE DEF k
  <2>2. (k \o h) \o t = k \o (h \o t)
    BY ONLY <2>1, ConcatAssociative, SMTT(30)
  <2>. QED  BY <2>2 DEF k
<1>6. v \o b \o h \o <<>> = v \o b \o h
  BY <1>3, ConcatEmptySeq
<1>. QED  BY <1>1, <1>2, <1>3, <1>4, <1>5, <1>6 DEF h, t

LEMMA TakeWords ==
  ASSUME TextAssumption, P!IInv, FreqInv, text \in Seq(Char), FreqWords, F!Take
  PROVE  FreqWords'
<1>1. /\ at = "read" /\ file # <<>> /\ Head(file) \notin Spaces
      /\ UNCHANGED <<cap, arr, size, call, result>>
      /\ UNCHANGED <<cells, printed, text>>
      /\ \/ F!D!Fails /\ at' = "free" /\ status' = 1
         \/ F!D!Succeeds /\ at' = at /\ buf' = Append(buf, Head(file)) /\ file' = Tail(file)
  BY DEF F!Take
<1>2. failures \in Nat /\ failures' \in Nat /\ failures' >= failures
  BY <1>1, DictAlone
<1>3. file \in Seq(Char) /\ buf \in Seq(Char) /\ printed = <<>>
  BY <1>1 DEF FreqInv, FreqTypes, FreqWords, Unprinted
<1>4. CASE at' = "free" /\ status' = 1
  <2>1. Listed'
    BY <1>1, <1>3, <1>4, NothingListed
  <2>. QED  BY <1>4, <2>1 DEF FreqWords, Unprinted
<1>5. CASE at' = at /\ buf' = Append(buf, Head(file)) /\ file' = Tail(file)
  <2>1. PICK v : /\ ReadTo(v, text, buf, file)
                 /\ Counted(P!NodesIn(arr, cap), cells, failures, v)
    BY <1>1 DEF FreqWords
  <2>2. ReadTo(v, text', buf', file')
    <3>1. v \o Append(buf, Head(file)) \o Tail(file) = v \o buf \o file
      BY <1>1, <1>3, <2>1, OneRead, ZenonT(60) DEF ReadTo
    <3>2. ASSUME NEW k \in 1 .. Len(Append(buf, Head(file)))
          PROVE  Append(buf, Head(file))[k] \notin Spaces
      BY <1>1, <1>3, <2>1 DEF ReadTo
    <3>. QED  BY <1>1, <1>5, <2>1, <3>1, <3>2 DEF ReadTo
  <2>3. Counted(P!NodesIn(arr, cap)', cells', failures', v)
    <3>1. P!NodesIn(arr, cap)' = P!NodesIn(arr, cap) /\ cells' = cells /\ (failures' = 0 => failures = 0)
      BY <1>1, <1>2
    <3>. QED  BY <2>1, <3>1, CountedAs
  <2>. QED  BY <1>1, <1>3, <1>5, <2>2, <2>3 DEF FreqWords, Unprinted
<1>. QED  BY <1>1, <1>4, <1>5

\* A space, or the end of the file, after the characters of a word.
LEMMA WordRead ==
  ASSUME C!LF \in Spaces, NEW v, NEW t, NEW b \in Seq(Char), NEW f \in Seq(Char),
         ReadTo(v, t, b, f), b # <<>>, f # <<>> => Head(f) \in Spaces
  PROVE  \E u : ReadPast(u, v, t, b, f)
<1>. DEFINE c == IF f = <<>> THEN C!LF ELSE Head(f)
            g == IF f = <<>> THEN f ELSE Tail(f)
            u == v \o b \o <<c>>
<1>1. c \in Char /\ c \in Spaces
  BY CharsAre, Ends
<1>2. v \in Seq(Char) /\ v \o b \in Seq(Char) /\ AtBreak(v)
  BY DEF ReadTo
<1>3. ASSUME NEW w PROVE Count(t, w) = Count(u \o <<>> \o g, w)
  <2>1. CASE f = <<>>
    <3>1. u \o <<>> \o g = u /\ v \o b \o f = v \o b
      BY <1>1, <1>2, <2>1
    <3>2. Count(v \o b \o <<c>>, w) = Count(v \o b, w)
      BY <1>1, <1>2, SpaceAtEnd
    <3>. QED  BY <3>1, <3>2 DEF ReadTo
  <2>2. CASE f # <<>>
    <3>1. u \o <<>> \o g = v \o b \o f
      BY <1>2, <2>2, OneRead, SMTT(30)
    <3>. QED  BY <3>1 DEF ReadTo
  <2>. QED  BY <2>1, <2>2
<1>4. u \in Seq(Char) /\ AtBreak(u)
  <2>1. u \in Seq(Char) /\ u[Len(u)] = c
    BY <1>1, <1>2
  <2>. QED  BY <1>1, <2>1 DEF AtBreak
<1>5. ASSUME NEW w PROVE Count(u, w) = Count(v, w) + (IF F!Strip(b) = w THEN 1 ELSE 0)
  BY <1>1, <1>2, WordComplete DEF ReadTo
<1>. HIDE DEF u, c, g
<1>6. ReadTo(u, t, <<>>, g)
  BY <1>3, <1>4 DEF ReadTo
<1>7. ReadPast(u, v, t, b, f)
  BY <1>5, <1>6 DEF ReadPast, g
<1>. QED  BY <1>7

\* A word that is counted once more.
LEMMA CountAgainWords ==
  ASSUME TextAssumption, P!IInv, FreqTypes, OwnsLive, cap # 0, NEW word \in Keys, word # <<>>,
         F!D!Lookup(word) # NULL, F!CountAgain(word), NEW v \in Seq(Char), NEW u,
         Counted(P!NodesIn(arr, cap), cells, failures, v),
         \A w : Count(u, w) = Count(v, w) + (IF word = w THEN 1 ELSE 0)
  PROVE  Counted(P!NodesIn(arr, cap)', cells', failures', u)
<1>. DEFINE ns == P!NodesIn(arr, cap)
<1>1. /\ UNCHANGED <<cap, arr, failures>>
      /\ cells' = [cells EXCEPT ![F!D!Lookup(word)] = @ + 1]
  BY DEF F!CountAgain, F!dictionary
<1>2. P!DictAssumption /\ P!Core /\ P!Placed(arr, cap)
  BY Assumed DEF P!IInv, P!Core
<1>3. PICK n \in ns : n.key = word /\ F!D!Lookup(word) = n.val
  <2>1. word \in DOMAIN P!TheMap /\ P!Lookup(word) = P!TheMap[word]
    BY <1>2, P!LookupFinds, SameLookup
  <2>2. PICK n \in ns : n.key = word
    BY <2>1, P!EntryKeys DEF P!TheMap, P!HasKey
  <2>3. P!TheMap[n.key] = n.val
    BY <1>2, <2>2, P!EntryOf DEF P!TheMap
  <2>. QED  BY <2>1, <2>2, <2>3, SameLookup
<1>4. P!NodesIn(arr, cap)' = ns
  BY <1>1
<1>. HIDE DEF ns
<1>5. ASSUME NEW w PROVE Count(v, w) \in Nat
  BY CountType
<1>6. ASSUME NEW m \in ns
      PROVE  /\ m.val \in DOMAIN cells /\ cells[m.val] \in Nat
             /\ cells'[m.val] = cells[m.val] + (IF m.key = word THEN 1 ELSE 0)
  <2>1. m.val \in DOMAIN cells
    BY DEF ns, OwnsLive, FreqTypes, F!TypeOK
  <2>2. m.key = word => m = n
    BY <1>2, <1>3, P!OneNode DEF ns
  <2>3. m.val = n.val => m = n
    BY DEF OwnsLive, ns
  <2>4. cells[m.val] \in Nat
    BY <2>1 DEF FreqTypes, F!TypeOK
  <2>. QED  BY <1>1, <1>3, <2>1, <2>2, <2>3, <2>4
<1>7. ASSUME NEW m \in ns
      PROVE  /\ m.key # <<>> /\ cells'[m.val] <= Count(u, m.key)
             /\ failures = 0 => cells'[m.val] = Count(u, m.key)
  <2>1. /\ m.key # <<>> /\ cells[m.val] <= Count(v, m.key)
        /\ failures = 0 => cells[m.val] = Count(v, m.key)
    BY DEF Counted, ns
  <2>2. Count(u, m.key) = Count(v, m.key) + (IF m.key = word THEN 1 ELSE 0)
    OBVIOUS
  <2>. QED  BY <1>5, <1>6, <2>1, <2>2
<1>8. ASSUME failures = 0, NEW w, w # <<>>, Count(u, w) > 0 PROVE \E m \in ns : m.key = w
  <2>1. CASE w = word
    BY <1>3, <2>1
  <2>2. CASE w # word
    <3>1. Count(v, w) > 0
      BY <1>5, <1>8, <2>2
    <3>. QED  BY <1>8, <3>1 DEF Counted, ns
  <2>. QED  BY <2>1, <2>2
<1>. QED  BY <1>1, <1>4, <1>7, <1>8 DEF Counted

\* A word that is counted first, or not, for want of memory.
LEMMA CountFirstWords ==
  ASSUME TextAssumption, P!IInv, FreqTypes, OwnsLive, cap # 0, NEW word \in Keys, word # <<>>,
         F!D!Lookup(word) = NULL, F!CountFirst(word), NEW v \in Seq(Char), NEW u,
         Counted(P!NodesIn(arr, cap), cells, failures, v),
         \A w : Count(u, w) = Count(v, w) + (IF word = w THEN 1 ELSE 0)
  PROVE  Counted(P!NodesIn(arr, cap)', cells', failures', u)
<1>. DEFINE ns  == P!NodesIn(arr, cap)
            cnt == CHOOSE p \in Vals : p \notin DOMAIN cells
<1>1. \/ F!D!Fails /\ UNCHANGED <<cap, arr, size, call, result, cells>>
      \/ /\ Vals \ DOMAIN cells # {}
         /\ cells' = [p \in DOMAIN cells \cup {cnt} |-> IF p = cnt THEN 1 ELSE cells[p]]
         /\ F!D!dctinsert(word, cnt)
  BY DEF F!CountFirst
<1>2. P!DictAssumption /\ P!Core /\ P!Lookup(word) = NULL
  BY Assumed, SameLookup DEF P!IInv
<1>3. ASSUME NEW w PROVE Count(v, w) \in Nat
  BY CountType
<1>4. ASSUME NEW m \in ns
      PROVE  /\ m.val \in DOMAIN cells /\ cells[m.val] \in Nat
             /\ m.key # <<>> /\ cells[m.val] <= Count(v, m.key)
             /\ failures = 0 => cells[m.val] = Count(v, m.key)
  <2>1. m.val \in DOMAIN cells
    BY DEF OwnsLive, FreqTypes, F!TypeOK
  <2>2. cells[m.val] \in Nat
    BY <2>1 DEF FreqTypes, F!TypeOK
  <2>. QED  BY <2>1, <2>2 DEF Counted
<1>5. ASSUME failures = 0, NEW w, w # <<>>, Count(v, w) > 0 PROVE \E m \in ns : m.key = w
  BY <1>5 DEF Counted
<1>6. \A m \in ns : m.key # word
  <2>1. word \notin DOMAIN P!TheMap
    <3>1. word \in DOMAIN P!TheMap => P!TheMap[word] \in Vals
      BY <1>2, P!MapType
    <3>. QED  BY <1>2, <3>1, P!LookupFinds, Assumed
  <2>. QED  BY <2>1, P!EntryKeys DEF P!TheMap, P!HasKey
<1>. HIDE DEF ns, cnt
<1>7. CASE F!D!Fails /\ UNCHANGED <<cap, arr, size, call, result, cells>>
  <2>1. failures' # 0
    BY <1>7, DictAlone
  <2>2. P!NodesIn(arr, cap)' = ns
    BY <1>7 DEF ns
  <2>3. ASSUME NEW m \in ns PROVE m.key # <<>> /\ cells'[m.val] <= Count(u, m.key)
    BY <1>3, <1>4, <1>7
  <2>. QED  BY <2>1, <2>2, <2>3 DEF Counted
<1>8. CASE /\ Vals \ DOMAIN cells # {}
           /\ cells' = [p \in DOMAIN cells \cup {cnt} |-> IF p = cnt THEN 1 ELSE cells[p]]
           /\ F!D!dctinsert(word, cnt)
  <2>1. cnt \in Vals /\ cnt \notin DOMAIN cells
    BY <1>8 DEF cnt
  <2>2. P!dctinsert(word, cnt)
    BY <1>8, SameDctinsert
  <2>3. /\ failures \in Nat /\ failures' \in Nat /\ failures' >= failures
        /\ \/ \A m : m \in P!NodesIn(arr, cap)' <=> m \in ns \/ m = [key |-> word, val |-> cnt]
           \/ failures' > failures /\ \A m : m \in P!NodesIn(arr, cap)' <=> m \in ns
    BY <1>2, <2>1, <2>2, P!InsertsNew DEF P!Keeps, ns
  <2>4. ASSUME NEW m \in ns
        PROVE  /\ m.key # <<>> /\ cells'[m.val] <= Count(u, m.key)
               /\ failures = 0 => cells'[m.val] = Count(u, m.key)
    <3>1. cells'[m.val] = cells[m.val]
      BY <1>4, <1>8, <2>1
    <3>2. Count(u, m.key) = Count(v, m.key)
      BY <1>3, <1>6
    <3>. QED  BY <1>4, <3>1, <3>2
  <2>5. CASE failures' > failures /\ \A m : m \in P!NodesIn(arr, cap)' <=> m \in ns
    <3>1. failures' # 0
      BY <2>3, <2>5
    <3>. QED  BY <2>4, <2>5, <3>1 DEF Counted
  <2>6. CASE \A m : m \in P!NodesIn(arr, cap)' <=> m \in ns \/ m = [key |-> word, val |-> cnt]
    <3>. DEFINE n == [key |-> word, val |-> cnt]
    <3>1. failures' = 0 => failures = 0
      BY <2>3
    <3>2. n.key = word /\ n.val = cnt /\ cells'[cnt] = 1
      BY <1>8
    <3>3. cells'[cnt] <= Count(u, word) /\ (failures = 0 => cells'[cnt] = Count(u, word))
      <4>1. failures = 0 => Count(v, word) = 0
        BY <1>3, <1>5, <1>6
      <4>2. Count(u, word) = Count(v, word) + 1
        OBVIOUS
      <4>. QED  BY <1>3, <3>2, <4>1, <4>2
    <3>. HIDE DEF n
    <3>4. \A m : m \in P!NodesIn(arr, cap)' <=> m \in ns \/ m = n
      BY <2>6 DEF n
    <3>5. ASSUME NEW m, m \in P!NodesIn(arr, cap)'
          PROVE  /\ m.key # <<>> /\ cells'[m.val] <= Count(u, m.key)
                 /\ failures' = 0 => cells'[m.val] = Count(u, m.key)
      BY <2>4, <3>1, <3>2, <3>3, <3>4, <3>5
    <3>6. ASSUME failures' = 0, NEW w, w # <<>>, Count(u, w) > 0
          PROVE  \E m : m \in P!NodesIn(arr, cap)' /\ m.key = w
      <4>1. CASE w = word
        BY <3>2, <3>4, <4>1
      <4>2. CASE w # word
        <5>1. Count(v, w) > 0
          BY <1>3, <3>6, <4>2
        <5>. QED  BY <1>5, <3>1, <3>4, <3>6, <5>1
      <4>. QED  BY <4>1, <4>2
    <3>. QED  BY <3>5, <3>6 DEF Counted
  <2>. QED  BY <2>3, <2>5, <2>6
<1>. QED  BY <1>1, <1>7, <1>8

LEMMA EndOfWordWords ==
  ASSUME TextAssumption, WordsAreKeys, P!IInv, FreqInv, text \in Seq(Char), FreqWords,
         F!EndOfWord
  PROVE  FreqWords'
<1>. DEFINE word == F!Strip(buf)
<1>1. /\ at = "read" /\ buf # <<>> /\ (file # <<>> => Head(file) \in Spaces)
      /\ buf' = <<>> /\ file' = IF file = <<>> THEN file ELSE Tail(file)
      /\ UNCHANGED <<at, printed, text>>
      /\ \/ word = <<>> /\ UNCHANGED <<F!dictionary, cells, live>>
         \/ word # <<>> /\ F!D!Lookup(word) # NULL /\ F!CountAgain(word)
         \/ word # <<>> /\ F!D!Lookup(word) = NULL /\ F!CountFirst(word)
  BY DEF F!EndOfWord
<1>2. /\ file \in Seq(Char) /\ buf \in Seq(Char) /\ printed = <<>> /\ word \in Keys \cup {<<>>}
      /\ FreqTypes /\ OwnsLive /\ cap # 0
  BY <1>1 DEF FreqInv, FreqTypes, FreqWords, Unprinted, WordsAreKeys, Ownership
<1>3. PICK v : /\ ReadTo(v, text, buf, file)
               /\ Counted(P!NodesIn(arr, cap), cells, failures, v)
  BY <1>1 DEF FreqWords
<1>4. PICK u : /\ ReadTo(u, text, <<>>, IF file = <<>> THEN file ELSE Tail(file))
               /\ \A w : Count(u, w) = Count(v, w) + (IF word = w THEN 1 ELSE 0)
  <2>1. /\ buf \in Seq(Char) /\ file \in Seq(Char) /\ ReadTo(v, text, buf, file)
        /\ buf # <<>> /\ (file # <<>> => Head(file) \in Spaces) /\ C!LF \in Spaces
    BY <1>1, <1>2, <1>3 DEF TextAssumption
  <2>2. \E u : ReadPast(u, v, text, buf, file)
    BY ONLY <2>1, WordRead
  <2>. QED  BY <2>2 DEF ReadPast
<1>5. v \in Seq(Char)
  BY <1>3 DEF ReadTo
<1>. HIDE DEF word
<1>6. Counted(P!NodesIn(arr, cap)', cells', failures', u)
  <2>1. CASE word = <<>> /\ UNCHANGED <<F!dictionary, cells, live>>
    <3>1. /\ P!NodesIn(arr, cap)' = P!NodesIn(arr, cap) /\ cells' = cells
          /\ failures' = 0 => failures = 0
      BY <2>1 DEF F!dictionary
    <3>2. ASSUME NEW w, w # <<>> PROVE Count(u, w) = Count(v, w)
      <4>1. Count(v, w) \in Nat
        BY <1>5, CountType
      <4>. QED  BY <1>4, <2>1, <3>2, <4>1
    <3>. QED  BY <1>3, <3>1, <3>2, CountedAs
  <2>2. CASE word # <<>> /\ F!D!Lookup(word) # NULL /\ F!CountAgain(word)
    BY <1>2, <1>3, <1>4, <1>5, <2>2, CountAgainWords
  <2>3. CASE word # <<>> /\ F!D!Lookup(word) = NULL /\ F!CountFirst(word)
    BY <1>2, <1>3, <1>4, <1>5, <2>3, CountFirstWords
  <2>. QED  BY <1>1, <2>1, <2>2, <2>3
<1>7. ReadTo(u, text', buf', file')
  BY <1>1, <1>4
<1>. QED  BY <1>1, <1>2, <1>6, <1>7 DEF FreqWords, Unprinted

LEMMA SkipSpaceWords ==
  ASSUME TextAssumption, P!IInv, FreqInv, text \in Seq(Char), FreqWords, F!SkipSpace
  PROVE  FreqWords'
<1>1. /\ at = "read" /\ file # <<>> /\ Head(file) \in Spaces /\ buf = <<>>
      /\ file' = Tail(file) /\ UNCHANGED <<F!dictionary, at, buf, cells, printed, text>>
  BY DEF F!SkipSpace, F!locals
<1>2. file \in Seq(Char) /\ printed = <<>> /\ Head(file) \in Char
  BY <1>1, Ends DEF FreqInv, FreqTypes, FreqWords, Unprinted
<1>3. PICK v : /\ ReadTo(v, text, buf, file)
               /\ Counted(P!NodesIn(arr, cap), cells, failures, v)
  BY <1>1 DEF FreqWords
<1>. DEFINE u == v \o <<Head(file)>>
<1>4. v \in Seq(Char) /\ u \in Seq(Char) /\ AtBreak(u)
  <2>1. v \in Seq(Char)
    BY <1>3 DEF ReadTo
  <2>2. u \in Seq(Char) /\ u[Len(u)] = Head(file)
    BY <1>2, <2>1
  <2>. QED  BY <1>1, <2>1, <2>2 DEF AtBreak
<1>5. \A w : Count(u, w) = Count(v, w)
  BY <1>1, <1>2, <1>4, SpaceAtEnd
<1>6. u \o <<>> \o Tail(file) = v \o <<>> \o file
  <2>1. v \o <<>> \o <<Head(file)>> \o <<>> \o Tail(file) = v \o <<>> \o file
    <3>1. <<>> \in Seq(Char)
      OBVIOUS
    <3>. QED  BY <1>1, <1>2, <1>4, <3>1, OneRead
  <2>2. v \o <<>> = v
    BY <1>4
  <2>. QED  BY <2>1, <2>2
<1>. HIDE DEF u
<1>7. ReadTo(u, text', buf', file')
  <2>1. 1 .. Len(<<>>) = {}
    OBVIOUS
  <2>. QED  BY <1>1, <1>3, <1>4, <1>6, <2>1 DEF ReadTo
<1>8. Counted(P!NodesIn(arr, cap)', cells', failures', u)
  <2>1. /\ P!NodesIn(arr, cap)' = P!NodesIn(arr, cap) /\ cells' = cells
        /\ failures' = 0 => failures = 0
    BY <1>1 DEF F!dictionary
  <2>. QED  BY <1>3, <1>5, <2>1, CountedAs
<1>. QED  BY <1>1, <1>2, <1>7, <1>8 DEF FreqWords, Unprinted

LEMMA EndOfFileWords ==
  ASSUME TextAssumption, P!IInv, FreqInv, text \in Seq(Char), FreqWords, F!EndOfFile
  PROVE  FreqWords'
<1>1. /\ at = "read" /\ file = <<>> /\ buf = <<>>
      /\ \/ size = 0 /\ at' = "free" /\ UNCHANGED F!dictionary
         \/ size # 0 /\ at' = "print" /\ F!D!dctkeys
      /\ UNCHANGED <<file, text, buf, cells, live, printed, status>>
  BY DEF F!EndOfFile, F!locals
<1>2. /\ printed = <<>> /\ FreqTypes /\ OwnsLive /\ P!Core /\ P!DictAssumption
  BY <1>1, Assumed DEF FreqInv, FreqWords, Unprinted, Ownership, P!IInv
<1>3. Counted(P!NodesIn(arr, cap), cells, failures, text)
  <2>1. PICK v : /\ ReadTo(v, text, buf, file)
                 /\ Counted(P!NodesIn(arr, cap), cells, failures, v)
    BY <1>1 DEF FreqWords
  <2>2. ASSUME NEW w PROVE Count(text, w) = Count(v, w)
    <3>1. v \in Seq(Char) /\ Count(text, w) = Count(v \o buf \o file, w)
      BY <2>1 DEF ReadTo
    <3>2. v \o <<>> \o <<>> = v
      BY <3>1
    <3>. QED  BY <1>1, <3>1, <3>2
  <2>. QED  BY <2>1, <2>2, CountedAs
<1>4. CASE size = 0 /\ at' = "free" /\ UNCHANGED F!dictionary
  <2>1. \A m : m \notin P!NodesIn(arr, cap)
    BY <1>2, <1>4, P!EmptyHasNone
  <2>2. failures = 0 => \A w : ~(w # <<>> /\ Count(text, w) > 0)
    BY <1>3, <2>1 DEF Counted
  <2>3. failures = 0 => F!Words = {}
    BY <2>2, PartsAre
  <2>4. F!Words' = F!Words /\ failures' = failures
    BY <1>1, <1>4 DEF F!Words, F!Parts, F!dictionary
  <2>5. Listed'
    BY <1>1, <1>2, <2>3, <2>4, NothingListed
  <2>. QED  BY <1>4, <2>5 DEF FreqWords, Unprinted
<1>5. CASE size # 0 /\ at' = "print" /\ F!D!dctkeys
  <2>1. /\ UNCHANGED <<cap, arr, size>>
        /\ failures \in Nat /\ failures' \in Nat /\ failures' >= failures
        /\ \/ result' = NULL /\ (size = 0 \/ failures' > 0)
           \/ result' = P!TheKeys /\ P!TheKeys # NULL
    BY <1>2, <1>5, SameDctkeys, P!ListsAll
  <2>2. P!TheKeys' = P!TheKeys /\ P!NodesIn(arr, cap)' = P!NodesIn(arr, cap)
    BY <2>1 DEF P!TheKeys, P!AllNodes
  <2>3. Counted(P!NodesIn(arr, cap)', cells', failures', text)
    <3>1. cells' = cells /\ (failures' = 0 => failures = 0)
      BY <1>1, <2>1
    <3>. QED  BY <1>3, <2>2, <3>1, CountedAs
  <2>. QED  BY <1>1, <1>2, <1>5, <2>1, <2>2, <2>3 DEF FreqWords, Unprinted
<1>. QED  BY <1>1, <1>4, <1>5

\* Once the list is printed, freq only frees memory.
LEMMA EndWords ==
  ASSUME TextAssumption, P!IInv, FreqInv, FreqWords, F!KeysToFree \/ F!FreeCounts \/ F!Destroy
  PROVE  FreqWords'
<1>1. at \notin Unprinted /\ at' \notin Unprinted /\ UNCHANGED <<text, printed, status>>
  BY DEF F!KeysToFree, F!FreeCounts, F!Destroy, F!locals, Unprinted
<1>2. at' \notin {"open", "buffer", "read", "print"}
  BY <1>1 DEF Unprinted
<1>3. failures' = 0 => failures = 0
  <2>1. CASE F!KeysToFree
    <3>1. P!DictAssumption /\ P!Core /\ P!dctkeys
      BY <2>1, Assumed, SameDctkeys DEF P!IInv, F!KeysToFree
    <3>. QED  BY <3>1, P!ListsAll
  <2>2. CASE F!FreeCounts
    BY <2>2 DEF F!FreeCounts, F!dictionary
  <2>3. CASE F!Destroy
    <3>1. P!dctdestroy
      BY <2>3, SameDctdestroy DEF F!Destroy
    <3>. QED  BY <3>1 DEF P!dctdestroy, P!Succeeds
  <2>. QED  BY <2>1, <2>2, <2>3
<1>4. Listed'
  BY <1>1, <1>3, ListedKept DEF FreqWords
<1>. QED  BY <1>1, <1>2, <1>4 DEF FreqWords

\* A list of all x in S, in order.
InOrder(S, s) ==
  /\ s \in [1 .. Cardinality(S) -> S]
  /\ \A j, k \in DOMAIN s : j < k => F!cmp_wordcount(s[j], s[k])

\* Its first l elements.
IsTop(S, p, l) ==
  /\ DOMAIN p = 1 .. l /\ Len(p) = l
  /\ \A k \in 1 .. l : p[k] \in S /\ (k > 1 => F!cmp_wordcount(p[k - 1], p[k]))
  /\ \A x \in S : (\E k \in 1 .. l : p[k] = x) \/ F!cmp_wordcount(p[l], x)

LEMMA TopOf ==
  ASSUME NEW S, IsFiniteSet(S), S \subseteq Counts, NEW s, InOrder(S, s),
         NEW l \in Nat, l <= Cardinality(S), Cardinality(S) > 0 => l > 0
  PROVE  IsTop(S, SubSeq(s, 1, l), l)
<1>. DEFINE n == Cardinality(S)
            p == SubSeq(s, 1, l)
<1>1. /\ n \in Nat /\ s \in [1 .. n -> S] /\ l <= n /\ (n > 0 => l > 0)
      /\ \A j, k \in 1 .. n : j < k => F!cmp_wordcount(s[j], s[k])
  BY FS_CardinalityType DEF InOrder
<1>. HIDE DEF n
<1>2. /\ p \in Seq(S) /\ Len(p) = l /\ \A k \in 1 .. l : p[k] = s[k]
  <2>1. \A k \in 1 .. l : s[k] \in S
    BY <1>1
  <2>2. /\ p \in Seq(S) /\ Len(p) = (IF 1 <= l THEN l - 1 + 1 ELSE 0)
        /\ \A k \in 1 .. l - 1 + 1 : p[k] = s[1 + k - 1]
    BY <2>1, SubSeqProperties
  <2>. QED  BY <2>2
<1>. HIDE DEF p
<1>3. \A x \in S : ~F!cmp_wordcount(x, x)
  <2>1. \A x \in S : x.word \in Seq(Int) /\ x.count \in Int
    BY DEF Counts
  <2>. QED  BY <2>1, BeforeOrders DEF F!cmp_wordcount
<1>4. \A x \in S : \E k \in 1 .. n : s[k] = x
  <2>1. ASSUME NEW j \in 1 .. n, NEW k \in 1 .. n, s[j] = s[k] PROVE j = k
    <3>1. ~(j < k) /\ ~(k < j)
      BY <1>1, <1>3, <2>1
    <3>. QED  BY <3>1
  <2>2. s \in Injection(1 .. n, S)
    BY <1>1, <2>1 DEF Injection, IsInjective
  <2>3. Cardinality(1 .. n) = Cardinality(S)
    BY <1>1, FS_Interval DEF n
  <2>4. s \in Surjection(1 .. n, S)
    BY <2>2, <2>3, FS_Injection
  <2>. QED  BY <2>4 DEF Surjection
<1>5. ASSUME NEW k \in 1 .. l
      PROVE  p[k] \in S /\ (k > 1 => F!cmp_wordcount(p[k - 1], p[k]))
  <2>1. k \in 1 .. n /\ s[k] \in S /\ (k > 1 => k - 1 \in 1 .. n /\ k - 1 \in 1 .. l /\ k - 1 < k)
    BY <1>1
  <2>. QED  BY <1>1, <1>2, <2>1
<1>6. ASSUME NEW x \in S PROVE (\E k \in 1 .. l : p[k] = x) \/ F!cmp_wordcount(p[l], x)
  <2>1. PICK k \in 1 .. n : s[k] = x
    BY <1>4
  <2>2. CASE k <= l
    BY <1>2, <2>1, <2>2
  <2>3. CASE k > l
    <3>1. l \in 1 .. l /\ l \in 1 .. n /\ l < k
      BY <1>1, <2>3
    <3>. QED  BY <1>1, <1>2, <2>1, <3>1
  <2>. QED  BY <1>1, <2>2, <2>3
<1>7. DOMAIN p = 1 .. l
  BY <1>2
<1>. QED  BY <1>2, <1>5, <1>6, <1>7 DEF IsTop, p

\* The entries of the list: the keys with their counts.
Entry(m) == [word |-> m.key, count |-> cells[m.val]]
Entries == {Entry(m) : m \in P!NodesIn(arr, cap)}

LEMMA EntriesListed ==
  ASSUME TextAssumption, P!IInv, FreqInv, at = "print", result = P!TheKeys
  PROVE  /\ {[word |-> result[i], count |-> cells[F!D!Lookup(result[i])]]
               : i \in DOMAIN result} = Entries
         /\ IsFiniteSet(Entries) /\ Entries \subseteq Counts
         /\ \A m \in P!NodesIn(arr, cap) : Entry(m).word = m.key /\ Entry(m).count > 0
         /\ \A x, y \in Entries : x.word = y.word => x = y
<1>. DEFINE ns == P!NodesIn(arr, cap)
            e  == [i \in DOMAIN result |->
                     [word |-> result[i], count |-> cells[F!D!Lookup(result[i])]]]
<1>1. /\ FreqTypes /\ OwnsLive /\ cap # 0 /\ P!Core /\ P!DictAssumption
      /\ P!Placed(arr, cap) /\ P!Table(arr, cap)
  BY Assumed DEF FreqInv, Ownership, P!IInv, P!Core
<1>2. /\ {result[j] : j \in DOMAIN result} = DOMAIN P!TheMap /\ result \in Seq(Keys)
  BY <1>1, P!KeysListed DEF P!Abstract!Lists
<1>3. \A k : k \in DOMAIN P!TheMap <=> \E m \in ns : m.key = k
  BY P!EntryKeys DEF P!TheMap, P!HasKey
<1>4. ASSUME NEW m \in ns
      PROVE  /\ m.key \in Keys /\ F!D!Lookup(m.key) = m.val
             /\ m.val \in DOMAIN cells /\ cells[m.val] \in Nat \ {0}
  <2>1. m.key \in Keys
    BY <1>1, P!NodesInType
  <2>2. m.key \in DOMAIN P!TheMap /\ P!TheMap[m.key] = m.val
    BY <1>1, P!EntryOf DEF P!TheMap
  <2>3. F!D!Lookup(m.key) = m.val
    BY <1>1, <2>1, <2>2, P!LookupFinds, SameLookup
  <2>4. m.val \in DOMAIN cells
    BY <1>1 DEF OwnsLive, FreqTypes, F!TypeOK
  <2>5. cells[m.val] \in Nat \ {0}
    BY <1>1, <2>4 DEF FreqTypes, F!TypeOK
  <2>. QED  BY <2>1, <2>3, <2>4, <2>5
<1>5. ASSUME NEW m \in ns
      PROVE  /\ Entry(m).word = m.key /\ Entry(m).count = cells[m.val]
             /\ Entry(m) \in Counts /\ Entry(m).count > 0
  <2>1. Entry(m).word = m.key /\ Entry(m).count = cells[m.val]
    BY DEF Entry
  <2>2. m.key \in Seq(Int)
    <3>1. Keys \subseteq Seq(Nat)
      BY DEF TextAssumption, F!FreqAssumption
    <3>. QED  BY <1>4, <3>1
  <2>3. cells[m.val] \in Int /\ cells[m.val] > 0
    BY <1>4
  <2>. QED  BY <2>1, <2>2, <2>3 DEF Entry, Counts
<1>6. \A i \in DOMAIN result : \E m \in ns : m.key = result[i] /\ e[i] = Entry(m)
  <2>1. \A i \in DOMAIN result : \E m \in ns : m.key = result[i]
    BY <1>2, <1>3
  <2>. QED  BY <1>4, <2>1 DEF Entry
<1>7. \A m \in ns : \E i \in DOMAIN result : e[i] = Entry(m)
  <2>1. ASSUME NEW m \in ns PROVE \E i \in DOMAIN result : result[i] = m.key
    <3>1. m.key \in DOMAIN P!TheMap
      BY <1>3
    <3>. QED  BY <1>2, <3>1
  <2>. QED  BY <1>4, <2>1 DEF Entry
<1>8. {[word |-> result[i], count |-> cells[F!D!Lookup(result[i])]] : i \in DOMAIN result}
        = {e[i] : i \in DOMAIN result}
  OBVIOUS
<1>. HIDE DEF ns, e
<1>9. {e[i] : i \in DOMAIN result} = Entries
  BY <1>6, <1>7 DEF Entries, ns
<1>10. IsFiniteSet(Entries)
  <2>1. e \in [DOMAIN result -> Entries]
    <3>1. \A i \in DOMAIN result : e[i] \in Entries
      BY <1>9
    <3>. QED  BY <3>1 DEF e
  <2>2. \A x \in Entries : \E i \in DOMAIN result : e[i] = x
    BY <1>9
  <2>3. e \in Surjection(DOMAIN result, Entries)
    BY <2>1, <2>2 DEF Surjection
  <2>4. IsFiniteSet(DOMAIN result)
    <3>1. DOMAIN result = 1 .. Len(result) /\ Len(result) \in Nat
      BY <1>2
    <3>. QED  BY <3>1, FS_Interval
  <2>. QED  BY <2>3, <2>4, FS_Surjection
<1>11. Entries \subseteq Counts
  BY <1>5 DEF Entries, ns
<1>12. \A x, y \in Entries : x.word = y.word => x = y
  <2>1. \A m, n \in ns : m.key = n.key => m = n
    BY <1>1, P!OneNode DEF ns
  <2>2. \A x \in Entries : \E m \in ns : x = Entry(m)
    BY DEF Entries, ns
  <2>. QED  BY <1>5, <2>1, <2>2
<1>. QED  BY <1>5, <1>8, <1>9, <1>10, <1>11, <1>12 DEF ns

\* What is counted when all of the text has been read, and all of its words if
\* memory suffices, each once.
LEMMA WordsListed ==
  ASSUME TextAssumption, P!IInv, FreqInv, text \in Seq(Char), at = "print",
         result = P!TheKeys, Counted(P!NodesIn(arr, cap), cells, failures, text)
  PROVE  /\ \A x \in Entries : x.word \in F!Words /\ x.count <= Count(text, x.word)
         /\ failures = 0 =>
              /\ \A x \in Entries : x.count = Count(text, x.word)
              /\ \A w \in F!Words : \E x \in Entries : x.word = w
              /\ Cardinality(Entries) = Cardinality(F!Words)
<1>1. /\ IsFiniteSet(Entries) /\ Entries \subseteq Counts
      /\ \A m \in P!NodesIn(arr, cap) : Entry(m).word = m.key /\ Entry(m).count > 0
      /\ \A x, y \in Entries : x.word = y.word => x = y
  BY EntriesListed
<1>2. ASSUME NEW x \in Entries
      PROVE  /\ x.word # <<>> /\ x.count > 0 /\ x.count <= Count(text, x.word)
             /\ failures = 0 => x.count = Count(text, x.word)
  <2>1. PICK m \in P!NodesIn(arr, cap) : x = Entry(m)
    BY DEF Entries
  <2>2. x.word = m.key /\ x.count = cells[m.val] /\ x.count > 0
    BY <1>1, <2>1 DEF Entry
  <2>. QED  BY <2>2 DEF Counted
<1>3. ASSUME NEW x \in Entries PROVE x.word \in F!Words
  <2>1. Count(text, x.word) \in Nat /\ x.count \in Int
    BY <1>1, CountType DEF Counts
  <2>2. Count(text, x.word) > 0
    BY <1>2, <2>1
  <2>. QED  BY <1>2, <2>2, PartsAre
<1>4. ASSUME failures = 0, NEW w \in F!Words PROVE \E x \in Entries : x.word = w
  <2>1. w # <<>> /\ Count(text, w) > 0
    BY PartsAre
  <2>2. PICK m \in P!NodesIn(arr, cap) : m.key = w
    BY <1>4, <2>1 DEF Counted
  <2>3. Entry(m) \in Entries /\ Entry(m).word = w
    BY <1>1, <2>2 DEF Entries
  <2>. QED  BY <2>3
<1>5. ASSUME failures = 0 PROVE Cardinality(Entries) = Cardinality(F!Words)
  <2>. DEFINE f == [x \in Entries |-> x.word]
  <2>1. f \in Injection(Entries, F!Words)
    BY <1>1, <1>3 DEF Injection, IsInjective
  <2>2. \A w \in F!Words : \E x \in Entries : f[x] = w
    BY <1>4, <1>5
  <2>3. f \in Surjection(Entries, F!Words)
    BY <1>3, <2>2 DEF Surjection
  <2>. HIDE DEF f
  <2>4. ExistsBijection(Entries, F!Words)
    BY <2>1, <2>3 DEF ExistsBijection, Bijection
  <2>. QED  BY <1>1, <2>4, FS_Bijection
<1>. QED  BY <1>2, <1>3, <1>4, <1>5

LEMMA ShowTopWords ==
  ASSUME TextAssumption, P!IInv, FreqInv, text \in Seq(Char), FreqWords, F!ShowTop
  PROVE  FreqWords'
<1>. DEFINE n     == Cardinality(Entries)
            order == CHOOSE s \in [1 .. n -> Entries] :
                       \A j, k \in DOMAIN s : j < k => F!cmp_wordcount(s[j], s[k])
            l     == IF Top <= n THEN Top ELSE n
<1>1. /\ at = "print" /\ at' = "free"
      /\ UNCHANGED <<cap, arr, size, call, result, cells, live, status, text>>
      /\ F!D!Fails \/ F!D!Succeeds
  BY DEF F!ShowTop
<1>2. /\ failures \in Nat /\ failures' \in Nat /\ failures' >= failures
      /\ F!D!Fails => failures' > failures
  BY <1>1, DictAlone
<1>3. /\ printed = <<>> /\ Counted(P!NodesIn(arr, cap), cells, failures, text)
      /\ \/ result = NULL /\ failures > 0
         \/ result = P!TheKeys /\ P!TheKeys # NULL
  BY <1>1 DEF FreqWords, Unprinted
<1>4. CASE printed' = printed /\ (F!D!Fails \/ result = NULL)
  <2>1. failures' # 0
    BY <1>2, <1>3, <1>4
  <2>2. Listed'
    BY <1>3, <1>4, <2>1, NothingListed
  <2>. QED  BY <1>1, <2>2 DEF FreqWords, Unprinted
<1>5. ASSUME F!D!Succeeds, result # NULL,
             LET counted == {[word |-> result[i], count |-> cells[F!D!Lookup(result[i])]]
                               : i \in DOMAIN result}
                 list    == CHOOSE s \in [1 .. F!Cardinality(counted) -> counted] :
                              \A j, k \in DOMAIN s : j < k => F!cmp_wordcount(s[j], s[k])
             IN  printed' = SubSeq(list, 1, F!Min({Top, Len(list)}))
      PROVE  FreqWords'
  <2>1. /\ result = P!TheKeys
        /\ {[word |-> result[i], count |-> cells[F!D!Lookup(result[i])]]
              : i \in DOMAIN result} = Entries
        /\ IsFiniteSet(Entries) /\ Entries \subseteq Counts
        /\ \A x, y \in Entries : x.word = y.word => x = y
    BY <1>1, <1>3, <1>5, EntriesListed
  <2>2. n \in Nat
    BY <2>1, FS_CardinalityType
  <2>3. printed' = SubSeq(order, 1, F!Min({Top, Len(order)}))
    BY <1>5, <2>1, SameCardinality
  <2>4. InOrder(Entries, order)
    <3>1. \E s \in [1 .. n -> Entries] :
            \A j, k \in DOMAIN s : j < k => F!cmp_wordcount(s[j], s[k])
      BY <2>1, ListExists
    <3>. QED  BY <3>1 DEF InOrder
  <2>. HIDE DEF order, n
  <2>5. Top \in Nat \ {0} /\ l \in Nat /\ l <= n /\ (n > 0 => l > 0)
    <3>1. Top \in Nat \ {0}
      BY DEF TextAssumption, F!FreqAssumption
    <3>. QED  BY <2>2, <3>1
  <2>6. printed' = SubSeq(order, 1, l)
    <3>1. Len(order) = n
      BY <2>2, <2>4 DEF InOrder, n
    <3>2. F!Min({Top, n}) = l
      BY <2>2, <2>5, LeastOfTwo
    <3>. QED  BY <2>3, <3>1, <3>2
  <2>. HIDE DEF l
  <2>7. /\ DOMAIN printed' = 1 .. l /\ Len(printed') = l
        /\ \A k \in 1 .. l : printed'[k] \in Entries
                             /\ (k > 1 => F!cmp_wordcount(printed'[k - 1], printed'[k]))
        /\ \A x \in Entries : \/ \E k \in 1 .. l : printed'[k] = x
                              \/ F!cmp_wordcount(printed'[l], x)
    <3>1. l <= Cardinality(Entries) /\ (Cardinality(Entries) > 0 => l > 0)
      BY <2>5 DEF n
    <3>2. IsTop(Entries, SubSeq(order, 1, l), l)
      BY ONLY <2>1, <2>4, <2>5, <3>1, TopOf
    <3>. QED  BY <2>6, <3>2 DEF IsTop
  <2>8. /\ \A x \in Entries : x.word \in F!Words /\ x.count <= Count(text, x.word)
        /\ failures = 0 =>
             /\ \A x \in Entries : x.count = Count(text, x.word)
             /\ \A w \in F!Words : \E x \in Entries : x.word = w
             /\ n = Cardinality(F!Words)
    BY <1>1, <1>3, <2>1, WordsListed DEF n
  <2>9. F!Words' = F!Words /\ text' = text /\ (failures' = 0 => failures = 0)
    BY <1>1, <1>2 DEF F!Words, F!Parts
  <2>10. \A x, y : F!cmp_wordcount(x, y) <=> F!Precedes(x.word, x.count, y.word, y.count)
    BY DEF F!cmp_wordcount, F!Precedes
  <2>11. ASSUME failures = 0
         PROVE  /\ l = IF Top <= Cardinality(F!Words) THEN Top ELSE Cardinality(F!Words)
                /\ \A w \in F!Words \ {printed'[k].word : k \in 1 .. l} :
                     F!Precedes(printed'[l].word, printed'[l].count, w, Count(text, w))
    <3>1. l = IF Top <= Cardinality(F!Words) THEN Top ELSE Cardinality(F!Words)
      BY <2>8, <2>11 DEF l
    <3>2. ASSUME NEW w \in F!Words, w \notin {printed'[k].word : k \in 1 .. l}
          PROVE  F!Precedes(printed'[l].word, printed'[l].count, w, Count(text, w))
      <4>1. PICK x \in Entries : x.word = w
        BY <2>8, <2>11
      <4>2. x.count = Count(text, w)
        BY <2>8, <2>11, <4>1
      <4>3. F!cmp_wordcount(printed'[l], x)
        BY <2>7, <3>2, <4>1
      <4>. QED  BY <2>10, <4>1, <4>2, <4>3
    <3>. QED  BY <3>1, <3>2
  <2>12. F!Last(printed)' = printed'[l]
    BY <2>7 DEF F!Last
  <2>13. Listed'
    BY <2>7, <2>8, <2>9, <2>10, <2>11, <2>12 DEF Listed
  <2>. QED  BY <1>1, <2>13 DEF FreqWords, Unprinted
<1>. QED  BY <1>4, <1>5 DEF F!ShowTop

\* Every step of freq.
LEMMA FreqWordsStep ==
  ASSUME TextAssumption, WordsAreKeys, P!IInv, FreqInv, text \in Seq(Char), FreqWords, F!Next
  PROVE  FreqWords'
BY CannotStartWords, StartWords, BufferWords, TakeWords, SkipSpaceWords, EndOfWordWords,
   EndOfFileWords, ShowTopWords, EndWords DEF F!Next

-----------------------------------------------------------------------------
(* The programs together: the words, from the file to the list.             *)

\* The files for freq are plain text: of anything else a conversion leaves out
\* or replaces characters.
EssaysAreText == \A s \in Essays : \A k \in 1 .. Len(s) : C!istext(s[k])

\* One more character through a function f that has taken t, given g and may
\* hold a carriage return back.
LEMMA SameConverted ==
  ASSUME {C!CR, C!LF} \subseteq Spaces, NEW f, NEW t \in Seq(Char), NEW g \in Seq(Char),
         NEW p \in BOOLEAN, SameWords(t, g \o C!Held(p)), NEW c \in Char
  PROVE  /\ c = C!LF => SameWords(Append(t, c), g \o C!Newline(f) \o C!Held(FALSE))
         /\ c = C!CR => SameWords(Append(t, c), g \o C!Held(p) \o C!Held(TRUE))
         /\ SameWords(Append(t, c), g \o (C!Held(p) \o <<c>>) \o C!Held(FALSE))
<1>. DEFINE h == C!Held(p)
            nl == C!Newline(f)
<1>1. /\ h = IF p THEN <<C!CR>> ELSE <<>>
      /\ C!Held(TRUE) = <<C!CR>> /\ C!Held(FALSE) = <<>>
  BY DEF C!Held
<1>2. nl = <<C!LF>> \/ nl = <<C!CR, C!LF>>
  BY DEF C!Newline
<1>. HIDE DEF h, nl
<1>3. /\ <<C!CR>> \in Seq(Char) /\ <<C!LF>> \in Seq(Char) /\ <<C!CR, C!LF>> \in Seq(Char)
      /\ <<c>> \in Seq(Char) /\ C!CR \in Char /\ C!LF \in Char
  BY CharsAre
<1>4. h \in Seq(Char) /\ g \o h \in Seq(Char) /\ nl \in Seq(Char) /\ g \o nl \in Seq(Char)
  <2>1. h \in Seq(Char)
    <3>1. <<>> \in Seq(Char)
      OBVIOUS
    <3>. QED  BY <1>1, <1>3, <3>1
  <2>2. nl \in Seq(Char)
    BY <1>2, <1>3
  <2>. QED  BY <2>1, <2>2, ConcatProperties
<1>5. SameWords(Append(t, c), (g \o h) \o <<c>>) /\ (g \o h) \o <<c>> \in Seq(Char)
  <2>1. SameWords(t \o <<c>>, (g \o h) \o <<c>>)
    BY <1>3, <1>4, SameWordsAppend DEF h
  <2>2. Append(t, c) = t \o <<c>>
    OBVIOUS
  <2>. QED  BY <1>3, <1>4, <2>1, <2>2
<1>6. SameWords(Append(t, c), g \o (h \o <<c>>) \o <<>>)
  <2>1. g \o (h \o <<c>>) = (g \o h) \o <<c>>
    BY <1>3, <1>4, ConcatAssociative
  <2>2. ((g \o h) \o <<c>>) \o <<>> = (g \o h) \o <<c>>
    BY <1>5, ConcatEmptySeq
  <2>. QED  BY <1>5, <2>1, <2>2
<1>7. ASSUME c = C!LF PROVE SameWords(Append(t, c), g \o nl \o <<>>)
  <2>1. SameWords((g \o h) \o <<C!LF>>, g \o nl)
    <3>1. /\ SameWords(g \o <<C!CR>>, g \o <<C!LF>>)
          /\ SameWords(g \o <<C!CR>>, g \o <<C!CR, C!LF>>)
      BY <1>3, SpacesAreSame
    <3>2. /\ SameWords(g \o <<C!LF>>, g \o <<C!LF>>)
          /\ SameWords(g \o <<C!LF>>, g \o <<C!CR, C!LF>>)
          /\ SameWords(g \o <<C!CR, C!LF>>, g \o <<C!LF>>)
          /\ SameWords(g \o <<C!CR, C!LF>>, g \o <<C!CR, C!LF>>)
      <4>. DEFINE a == g \o <<C!CR>>
                  b == g \o <<C!LF>>
                  e == g \o <<C!CR, C!LF>>
      <4>1. SameWords(a, b) /\ SameWords(a, e)
        BY <3>1
      <4>. HIDE DEF a, b, e
      <4>2. SameWords(b, a) /\ SameWords(e, a)
        BY ONLY <4>1, SameWordsSym
      <4>3. SameWords(b, b) /\ SameWords(b, e) /\ SameWords(e, b) /\ SameWords(e, e)
        BY ONLY <4>1, <4>2, SameWordsTrans
      <4>. QED  BY <4>3 DEF a, b, e
    <3>3. (g \o h) \o <<C!LF>> \in {g \o <<C!LF>>, g \o <<C!CR, C!LF>>}
      <4>1. (g \o <<C!CR>>) \o <<C!LF>> = g \o (<<C!CR>> \o <<C!LF>>)
        BY <1>3, ConcatAssociative
      <4>2. <<C!CR>> \o <<C!LF>> = <<C!CR, C!LF>>
        <5>1. ASSUME NEW x \in Char, NEW y \in Char PROVE <<x>> \o <<y>> = <<x, y>>
          <6>. DEFINE k == <<x>>
          <6>1. k \in Seq(Char) /\ k = <<x>> /\ Len(k) = 1 /\ k[1] = x
            OBVIOUS
          <6>. HIDE DEF k
          <6>2. k \o <<y>> = Append(k, y)
            BY <6>1
          <6>3. Append(k, y) = <<x, y>>
            <7>1. /\ Append(k, y) \in Seq(Char) /\ Len(Append(k, y)) = 2
                  /\ Append(k, y)[1] = x /\ Append(k, y)[2] = y
              BY <6>1, AppendProperties
            <7>2. <<x, y>> \in Seq(Char) /\ Len(<<x, y>>) = 2
              OBVIOUS
            <7>3. <<x, y>>[1] = x /\ <<x, y>>[2] = y
              OBVIOUS
            <7>4. \A i \in 1 .. Len(<<x, y>>) : Append(k, y)[i] = <<x, y>>[i]
              BY <7>1, <7>2, <7>3
            <7>. QED  BY <7>1, <7>2, <7>4, SeqEqual
          <6>. QED  BY <6>1, <6>2, <6>3
        <5>. QED  BY <1>3, <5>1
      <4>3. g \o <<>> = g
        BY ConcatEmptySeq
      <4>. QED  BY <1>1, <4>1, <4>2, <4>3
    <3>4. g \o nl \in {g \o <<C!LF>>, g \o <<C!CR, C!LF>>}
      BY <1>2
    <3>. QED  BY ONLY <3>2, <3>3, <3>4
  <2>2. g \o nl \o <<>> = g \o nl
    BY <1>4, ConcatEmptySeq
  <2>3. SameWords(Append(t, c), (g \o h) \o <<C!LF>>)
    BY <1>5, <1>7
  <2>4. SameWords(Append(t, c), g \o nl)
    BY ONLY <2>1, <2>3, SameWordsTrans
  <2>. QED  BY <2>2, <2>4
<1>8. ASSUME c = C!CR PROVE SameWords(Append(t, c), g \o h \o <<C!CR>>)
  BY <1>5, <1>8
<1>. QED  BY <1>1, <1>6, <1>7, <1>8 DEF h, nl

\* The file is as it was written, but for what the filter has converted.
Fn == IF job.filter = "tounix" THEN "dtou" ELSE "utod"

Filtering ==
  /\ job.filter \in {"none", "tounix", "todos"} /\ printed = <<>>
  /\ \A k \in 1 .. Len(rest) : C!istext(rest[k])
  /\ job.filter = "none" => rest = text
  /\ job.filter # "none" =>
       /\ taken[Fn] \o rest = text
       /\ SameWords(taken[Fn], given[Fn] \o C!Held(pending_cr[Fn]))

WordsInv ==
  /\ text \in Seq(Char)
  /\ job.reader = "freq" => Filtering
  /\ job.reader = "in freq" => FreqWords

LEMMA WordsInit ==
  ASSUME TextAssumption, EssaysAreText, Init
  PROVE  WordsInv
<1>1. /\ text = rest /\ printed = <<>> /\ rest \in Seq(Char) /\ job.reader # "in freq"
  <2>1. rest \in Seq(Char)
    BY FilesInit DEF FilesInv
  <2>. QED  BY <2>1 DEF Init, F!InitWith
<1>2. ASSUME job.reader = "freq" PROVE Filtering
  <2>1. /\ rest \in Essays /\ job.filter \in {"none", "tounix", "todos"}
        /\ taken = [f \in C!Fns |-> <<>>] /\ given = [f \in C!Fns |-> <<>>]
        /\ pending_cr = [f \in C!Fns |-> FALSE]
    BY <1>2 DEF Init, C!Init
  <2>2. Fn \in C!Fns
    BY DEF Fn, C!Fns
  <2>3. taken[Fn] = <<>> /\ given[Fn] \o C!Held(pending_cr[Fn]) = <<>>
    BY <2>1, <2>2 DEF C!Held
  <2>4. SameWords(taken[Fn], given[Fn] \o C!Held(pending_cr[Fn]))
    BY <2>3 DEF SameWords
  <2>5. taken[Fn] \o rest = text
    <3>1. <<>> \o rest = rest
      BY <1>1, ConcatEmptySeq, ZenonT(60)
    <3>. QED  BY <1>1, <2>3, <3>1
  <2>. QED  BY <1>1, <2>1, <2>4, <2>5 DEF Filtering, EssaysAreText
<1>. QED  BY <1>1, <1>2 DEF WordsInv

LEMMA FilterWords ==
  ASSUME TextAssumption, FilesInv, text \in Seq(Char), Filtering, tounix \/ todos
  PROVE  Filtering'
<1>. DEFINE c == Head(rest)
            t == taken[Fn]
            g == given[Fn]
            p == pending_cr[Fn]
<1>1. /\ job.filter # "none" /\ rest # <<>> /\ rest' = Tail(rest)
      /\ C!Call(Fn, c, "NUL") /\ UNCHANGED <<job, text, printed>>
  BY DEF tounix, todos, Filter, Fn, freq
<1>2. /\ rest \in Seq(Char) /\ t \in Seq(Char) /\ g \in Seq(Char) /\ p \in BOOLEAN
      /\ Fn \in C!Fns /\ taken \in [C!Fns -> Seq(Char)] /\ given \in [C!Fns -> Seq(Char)]
      /\ pending_cr \in [C!Fns -> BOOLEAN]
  BY DEF FilesInv, CharsInv, Fn, C!Fns
<1>3. /\ c \in Char /\ Tail(rest) \in Seq(Char) /\ rest = <<c>> \o Tail(rest)
      /\ C!istext(c) /\ \A k \in 1 .. Len(Tail(rest)) : C!istext(Tail(rest)[k])
  <2>1. c \in Char /\ Tail(rest) \in Seq(Char) /\ rest = <<c>> \o Tail(rest)
    BY <1>1, <1>2, Ends
  <2>2. 1 \in 1 .. Len(rest) /\ rest[1] = c
    BY <1>1, <1>2
  <2>3. ASSUME NEW k \in 1 .. Len(Tail(rest))
        PROVE  k + 1 \in 1 .. Len(rest) /\ Tail(rest)[k] = rest[k + 1]
    BY <1>1, <1>2
  <2>. QED  BY <2>1, <2>2, <2>3 DEF Filtering
<1>4. /\ t \o rest = text /\ SameWords(t, g \o C!Held(p))
  BY <1>1 DEF Filtering
<1>5. /\ c = C!LF => SameWords(Append(t, c), g \o C!Newline(Fn) \o C!Held(FALSE))
      /\ c = C!CR => SameWords(Append(t, c), g \o C!Held(p) \o C!Held(TRUE))
      /\ SameWords(Append(t, c), g \o (C!Held(p) \o <<c>>) \o C!Held(FALSE))
  <2>1. {C!CR, C!LF} \subseteq Spaces
    BY DEF TextAssumption
  <2>. QED  BY ONLY <1>2, <1>3, <1>4, <2>1, SameConverted
<1>6. C!Convert(Fn, c)
  BY <1>1, <1>3 DEF C!Call
<1>7. ASSUME NEW out, NEW pending, C!Gives(Fn, c, out, pending)
      PROVE  /\ taken'[Fn] = Append(t, c) /\ given'[Fn] = g \o out
             /\ pending_cr'[Fn] = pending
  BY <1>2, <1>7 DEF C!Gives
<1>8. /\ taken'[Fn] = Append(t, c)
      /\ SameWords(Append(t, c), given'[Fn] \o C!Held(pending_cr'[Fn]))
  <2>1. CASE c = C!LF /\ C!EndOfLine(Fn)
    <3>1. C!Gives(Fn, c, C!Newline(Fn), FALSE)
      BY <2>1 DEF C!EndOfLine
    <3>. QED  BY <1>5, <1>7, <2>1, <3>1
  <2>2. CASE c = C!CR /\ C!HoldBack(Fn)
    <3>1. C!Gives(Fn, c, C!Held(p), TRUE)
      BY <2>2 DEF C!HoldBack
    <3>. QED  BY <1>5, <1>7, <2>2, <3>1
  <2>3. CASE C!Pass(Fn, c)
    <3>1. C!Gives(Fn, c, C!Held(p) \o <<c>>, FALSE)
      BY <2>3 DEF C!Pass
    <3>. QED  BY <1>5, <1>7, <3>1
  <2>. QED  BY <1>6, <2>1, <2>2, <2>3 DEF C!Convert
<1>9. Append(t, c) \o Tail(rest) = text
  <2>1. Append(t, c) = t \o <<c>> /\ <<c>> \in Seq(Char)
    BY <1>2, <1>3
  <2>2. (t \o <<c>>) \o Tail(rest) = t \o (<<c>> \o Tail(rest))
    BY <1>2, <1>3, <2>1, ConcatAssociative, SMTT(30)
  <2>. QED  BY <1>3, <1>4, <2>1, <2>2
<1>10. Fn' = Fn
  BY <1>1 DEF Fn
<1>. HIDE DEF c, t, g, p
<1>. QED  BY <1>1, <1>3, <1>8, <1>9, <1>10 DEF Filtering

\* What reaches freq has the words of the file as it was written.
LEMMA StreamWords ==
  ASSUME TextAssumption, FilesInv, text \in Seq(Char), Filtering, Filtered
  PROVE  \A w : Count(text, w) = Count(Stream, w)
<1>1. CASE job.filter = "none"
  BY <1>1 DEF Filtering, Stream
<1>2. CASE job.filter # "none"
  <2>1. rest = <<>> /\ Stream = given[Fn] /\ Fn \in C!Fns
    BY <1>2 DEF Filtered, Stream, Fn, C!Fns
  <2>2. given[Fn] \in Seq(Char) /\ taken[Fn] \in Seq(Char) /\ pending_cr[Fn] \in BOOLEAN
    BY <2>1 DEF FilesInv, CharsInv
  <2>3. taken[Fn] = text
    <3>1. taken[Fn] \o <<>> = text
      BY <1>2, <2>1 DEF Filtering
    <3>. QED  BY <2>2, <3>1
  <2>4. ASSUME NEW w PROVE Count(text, w) = Count(given[Fn] \o C!Held(pending_cr[Fn]), w)
    <3>1. <<>> \in Seq(Char)
      OBVIOUS
    <3>2. SameWords(taken[Fn], given[Fn] \o C!Held(pending_cr[Fn]))
      BY <1>2 DEF Filtering
    <3>3. Count(taken[Fn] \o <<>>, w) = Count((given[Fn] \o C!Held(pending_cr[Fn])) \o <<>>, w)
      BY <3>1, <3>2 DEF SameWords
    <3>4. C!Held(pending_cr[Fn]) \in Seq(Char)
      BY <2>2, CharsAre DEF C!Held
    <3>5. given[Fn] \o C!Held(pending_cr[Fn]) \in Seq(Char)
      BY <2>2, <3>4
    <3>. QED  BY <2>2, <2>3, <3>3, <3>5, ConcatEmptySeq
  <2>5. ASSUME NEW w PROVE Count(given[Fn] \o C!Held(pending_cr[Fn]), w) = Count(given[Fn], w)
    <3>1. CASE pending_cr[Fn] = TRUE
      <4>1. C!Held(pending_cr[Fn]) = <<C!CR>> /\ C!CR \in Char /\ C!CR \in Spaces
        BY <3>1, CharsAre DEF C!Held, TextAssumption
      <4>. QED  BY <2>2, <4>1, SpaceAtEnd
    <3>2. CASE pending_cr[Fn] = FALSE
      <4>1. C!Held(pending_cr[Fn]) = <<>> /\ given[Fn] \o <<>> = given[Fn]
        BY <2>2, <3>2 DEF C!Held
      <4>. QED  BY <4>1
    <3>. QED  BY <2>2, <3>1, <3>2
  <2>. QED  BY <2>1, <2>4, <2>5
<1>. QED  BY <1>1, <1>2

\* A step that touches neither the dictionary nor freq.
LEMMA FreqWordsRest ==
  ASSUME FreqWords, UNCHANGED <<dict, freq>>
  PROVE  FreqWords'
<1>1. /\ UNCHANGED <<cap, arr, result, failures>>
      /\ UNCHANGED <<at, file, buf, cells, printed, status, text>>
  BY DEF dict, freq
<1>2. /\ P!TheKeys' = P!TheKeys /\ P!NodesIn(arr, cap)' = P!NodesIn(arr, cap)
      /\ F!Words' = F!Words
  BY <1>1 DEF P!TheKeys, P!AllNodes, F!Words, F!Parts
<1>3. Listed => Listed'
  BY <1>1, ListedKept
<1>. QED  BY <1>1, <1>2, <1>3 DEF FreqWords

LEMMA WordsStep ==
  ASSUME TextAssumption, WordsAreKeys, Inv, WordsInv, [Next]_vars
  PROVE  WordsInv'
<1>1. CASE UNCHANGED <<chars, dict, freq, shell>>
  <2>1. UNCHANGED <<text, job>>
    BY <1>1 DEF freq, shell
  <2>2. Filtering => Filtering'
    BY <1>1 DEF Filtering, Fn, chars, freq, shell
  <2>. QED  BY <1>1, <2>1, <2>2, FreqWordsRest DEF WordsInv
<1>2. CASE tounix \/ todos
  <2>1. UNCHANGED <<dict, freq, job>>
    BY <1>2 DEF tounix, todos, Filter
  <2>2. UNCHANGED <<text, job>>
    BY <2>1 DEF freq
  <2>. QED  BY <1>2, <2>1, <2>2, FilterWords, FreqWordsRest DEF WordsInv, Inv
<1>3. CASE Connect
  <2>1. /\ job.reader \in {"hist", "freq"} /\ Filtered
        /\ file' = IF job.reader = "freq" THEN Stream ELSE <<>>
        /\ job' = [job EXCEPT !.reader = IF @ = "hist" THEN "in hist" ELSE "in freq"]
        /\ UNCHANGED <<at, printed, text>>
    BY <1>3 DEF Connect
  <2>2. job'.reader \in {"in hist", "in freq"} /\ (job'.reader = "in freq" => job.reader = "freq")
        /\ at = "open"
    BY <2>1 DEF Inv, JobInv
  <2>3. ASSUME job.reader = "freq" PROVE FreqWords'
    <3>1. /\ Filtering /\ \A w : Count(text, w) = Count(Stream, w)
      BY <2>1, <2>3, StreamWords DEF WordsInv, Inv
    <3>2. printed' = <<>> /\ text' = text /\ file' = Stream /\ at' = "open"
      BY <2>1, <2>2, <2>3, <3>1 DEF Filtering
    <3>. QED  BY <3>1, <3>2 DEF FreqWords, Unprinted
  <2>. QED  BY <2>1, <2>2, <2>3 DEF WordsInv
<1>4. CASE job.reader = "in freq" /\ F!Next /\ UNCHANGED <<chars, hist, shell>>
  <2>1. FreqWords'
    BY <1>4, FreqWordsStep DEF WordsInv, Inv
  <2>2. text' = text
    BY <1>4 DEF F!Next, F!CannotStart, F!Start, F!Buffer, F!Take, F!SkipSpace, F!EndOfWord,
                F!EndOfFile, F!ShowTop, F!KeysToFree, F!FreeCounts, F!Destroy
  <2>. QED  BY <1>4, <2>1, <2>2 DEF WordsInv, shell
<1>5. CASE job.filter = "chartests" /\ UNCHANGED <<dict, freq, shell>>
  <2>1. UNCHANGED <<text, job>>
    BY <1>5 DEF freq, shell
  <2>2. job.reader # "freq"
    BY <1>5 DEF WordsInv, Filtering
  <2>. QED  BY <1>5, <2>1, <2>2, FreqWordsRest DEF WordsInv
<1>6. CASE job.filter = "dicttests" /\ UNCHANGED <<chars, hist, freq, shell>>
  <2>1. job.reader = "none"
    BY <1>6 DEF Inv, JobInv
  <2>2. UNCHANGED <<text, job>>
    BY <1>6 DEF freq, shell
  <2>. QED  BY <2>1, <2>2 DEF WordsInv
<1>7. CASE Finished \/ UNCHANGED vars
  BY <1>1, <1>7 DEF Finished, vars
<1>. QED  BY <1>1, <1>2, <1>3, <1>4, <1>5, <1>6, <1>7 DEF Next

LEMMA WordsInvariant ==
  ASSUME TextAssumption, WordsAreKeys, EssaysAreText
  PROVE  Spec => [](Inv /\ WordsInv)
<1>1. Init => WordsInv
  BY WordsInit
<1>2. Inv /\ WordsInv /\ [Next]_vars => WordsInv'
  BY WordsStep
<1>. QED  BY <1>1, <1>2, Invariant, PTL DEF Spec

-----------------------------------------------------------------------------
(* The theorems.                                                            *)

\* tounix and todos change the line ends of a file, and nothing else, and so
\* do dtou and utod in any order of calls, with any characters (chars.c).
THEOREM TextConverts == ASSUME TextAssumption PROVE Spec => []Converts
<1>1. FilesInv => Converts
  BY CharsInvIs DEF FilesInv
<1>. QED  BY <1>1, FilesInvariant, PTL

\* Every variable of the programs that read text has its type: the null
\* character of a word fits into the buffer of freq, no more data are kept than
\* hist has places for, and a conversion writes at most two characters.
THEOREM TextTypes == ASSUME TextAssumption, WordsAreKeys PROVE Spec => []TypeOK
<1>1. Inv => TypeOK
  BY CharsInvIs, FreqInvIs, P!IInvIs, SameProperties DEF Inv, FilesInv, HistInv, TypeOK
<1>. QED  BY <1>1, Invariant, PTL

\* hist draws the histogram of its data: every datapoint is in exactly one bar,
\* odd or even, negative or not, and if the number of intervals fits into an
\* int, in that of its value, between two multiples of ten (hist.c).
THEOREM TextHistogram == ASSUME TextAssumption PROVE Spec => []Histogram
<1>1. FilesInv => Histogram
  BY Assumed, DrawnIs DEF FilesInv, Histogram
<1>. QED  BY <1>1, FilesInvariant, PTL

\* freq prints the most frequent words of the file as it was written, in order,
\* with their frequencies, whether the file has the line ends of Unix, of DOS or
\* of both, and whether it comes through tounix, todos or neither.  If memory
\* runs short, what it prints are words of the file that occur so often at least.
THEOREM TextTopWords ==
  ASSUME TextAssumption, WordsAreKeys, EssaysAreText PROVE Spec => []TopWords
<1>1. ASSUME Inv, WordsInv, at = "exit" PROVE F!TopWords
  <2>1. Listed
    <3>1. job.reader = "in freq"
      BY <1>1 DEF Inv, JobInv
    <3>. QED  BY <1>1, <3>1 DEF WordsInv, FreqWords, Unprinted
  <2>2. /\ text \in Seq(Char) /\ \A w : F!Occurrences(w) = Count(text, w)
    BY <1>1, PartsAre DEF WordsInv
  <2>3. failures = 0 /\ status = 0 => Len(printed) = F!Min({Top, F!Cardinality(F!Words)})
    <3>. DEFINE n == Cardinality(F!Words)
    <3>1. Top \in Nat \ {0}
      BY DEF TextAssumption, F!FreqAssumption
    <3>2. n \in Nat
      <4>1. IsFiniteSet(F!Words)
        BY <2>2, WordsFinite
      <4>. QED  BY <4>1, FS_CardinalityType
    <3>3. F!Cardinality(F!Words) = n
      BY SameCardinality
    <3>. HIDE DEF n
    <3>4. F!Min({Top, n}) = IF Top <= n THEN Top ELSE n
      BY <3>1, <3>2, LeastOfTwo
    <3>. QED  BY <2>1, <3>3, <3>4 DEF Listed, n
  <2>. QED  BY <2>1, <2>2, <2>3 DEF Listed, F!TopWords
<1>2. Inv /\ WordsInv => TopWords
  BY <1>1 DEF TopWords, F!TopWords
<1>. QED  BY <1>2, WordsInvariant, PTL

\* freq frees each of its counts once, and every one that no failed allocation
\* has lost; it never uses one that it has freed (freq.c).
THEOREM TextCountsOwned == ASSUME TextAssumption, WordsAreKeys PROVE Spec => []CountsOwned
<1>1. Inv => CountsOwned
  BY FreqInvIs DEF Inv
<1>. QED  BY <1>1, Invariant, PTL

\* The dictionary that freq uses, or any program, finds every key where it
\* looks it up (dict.c).
THEOREM TextWellPlaced == ASSUME TextAssumption, WordsAreKeys PROVE Spec => []WellPlaced
<1>1. Inv => WellPlaced
  BY P!IInvIs, SameProperties DEF Inv, WellPlaced
<1>. QED  BY <1>1, Invariant, PTL

\* It has no more entries than chains and failed allocations.
THEOREM TextLoadBounded == ASSUME TextAssumption, WordsAreKeys PROVE Spec => []LoadBounded
<1>1. Inv => LoadBounded
  BY P!IInvIs, SameProperties DEF Inv, LoadBounded
<1>. QED  BY <1>1, Invariant, PTL

\* Whatever the programs do, they see a map: no step of theirs, nor a failed
\* allocation of their own, shows that there is a table.
THEOREM TextIsMap == ASSUME TextAssumption, WordsAreKeys PROVE Spec => IsMap
<1>1. Init => D!Abstract!Init
  BY InitInv, SameMap
<1>2. Inv /\ [Next]_vars => [D!Abstract!Next]_(D!Abstract!vars)
  BY NextInv, SameMap DEF DictStep
<1>. QED  BY <1>1, <1>2, Invariant, PTL DEF Spec, IsMap, D!IsMap, D!Abstract!Spec
=============================================================================
