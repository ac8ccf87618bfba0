----------------------------- MODULE TreeProofs -----------------------------
(***************************************************************************)
(* Proofs about the directory listing, for every set of paths, every file   *)
(* system, and any number of changes and failures.                          *)
(***************************************************************************)
EXTENDS Tree, FiniteSetTheorems, SequenceTheorems, WellFoundedInduction, TLAPS

\* Every nonempty set of natural numbers has a least element.
LEMMA Least ==
  ASSUME NEW T, T \subseteq Nat, T # {}
  PROVE  \E m \in T : \A k \in T : m <= k
<1>. DEFINE R == OpToRel(<, Nat)
<1>1. IsWellFoundedOn(R, Nat)
  BY NatLessThanWellFounded
<1>2. R = OpToRel(<, Nat)
  OBVIOUS
<1>. HIDE DEF R
<1>3. \E x \in T : \A y \in T : ~ (<<y, x>> \in R)
  BY <1>1, WFMin
<1>4. \A x, y \in Nat : y < x => <<y, x>> \in R
  BY <1>2 DEF OpToRel
<1>5. PICK x \in T : \A y \in T : ~ (<<y, x>> \in R)
  BY <1>3
<1>6. ASSUME NEW k \in T PROVE x <= k
  <2>1. x \in Nat /\ k \in Nat /\ ~(k < x)
    BY <1>4, <1>5
  <2>. QED  BY <2>1
<1>. QED  BY <1>6

-----------------------------------------------------------------------------
(* Paths.                                                                   *)

\* A path is a sequence of numbers.
LEMMA PathType ==
  ASSUME NEW p \in Paths
  PROVE  /\ p \in Seq(Nat) /\ Len(p) \in Nat /\ DOMAIN p = 1 .. Len(p)
         /\ \A n \in 1 .. Len(p) : p[n] \in Nat
         /\ p = <<>> <=> Len(p) = 0
<1>1. p \in Seq(Nat)
  BY TreeAssumption
<1>. QED  BY <1>1

\* Paths with the same names are the same.
LEMMA SamePath ==
  ASSUME NEW p \in Paths, NEW q \in Paths, Len(p) = Len(q),
         \A n \in 1 .. Len(p) : p[n] = q[n]
  PROVE  p = q
<1>1. p \in Seq(Nat) /\ q \in Seq(Nat)
  BY PathType
<1>. QED  BY <1>1, SeqEqual

\* What a path has more than its parent.
LEMMA ParentIs ==
  ASSUME NEW p \in Paths, p # <<>>
  PROVE  /\ Parent(p) \in Paths /\ Len(Parent(p)) + 1 = Len(p)
         /\ \A n \in 1 .. Len(Parent(p)) : Parent(p)[n] = p[n]
         /\ Name(p) = p[Len(p)] /\ Name(p) \in Nat
<1>1. p \in Seq(Nat) /\ Len(p) \in Nat /\ Len(p) > 0
  BY PathType
<1>2. Parent(p) \in Paths
  BY TreeAssumption DEF Parent
<1>3. Parent(p) = SubSeq(p, 1, Len(p) - 1)
  BY DEF Parent, Front
<1>4. PICK m \in Nat : Len(p) = m + 1
  <2>1. Len(p) - 1 \in Nat /\ Len(p) = (Len(p) - 1) + 1
    BY <1>1
  <2>. QED  BY <2>1
<1>5. \A i \in 1 .. m : p[i] \in Nat
  BY <1>1, <1>4
<1>6. Len(Parent(p)) = m /\ \A n \in 1 .. m : Parent(p)[n] = p[n]
  <2>1. 1 \in 1 .. Len(p) + 1 /\ m \in 0 .. Len(p)
    BY <1>4
  <2>2. Parent(p) = SubSeq(p, 1, m)
    BY <1>3, <1>4
  <2>. QED  BY <1>1, <1>4, <2>2
<1>7. Name(p) = p[Len(p)] /\ Name(p) \in Nat
  BY <1>1 DEF Name, Last
<1>. QED  BY <1>2, <1>4, <1>6, <1>7

\* What a prefix is, name by name.
LEMMA PrefixIs ==
  ASSUME NEW p \in Paths, NEW q \in Paths
  PROVE  IsPrefix(p, q) <=> Len(p) <= Len(q) /\ \A n \in 1 .. Len(p) : p[n] = q[n]
<1>1. p \in Seq(Nat) /\ q \in Seq(Nat) /\ Len(p) \in Nat /\ Len(q) \in Nat
  BY PathType
<1>2. CASE Len(p) <= Len(q)
  <2>. DEFINE u == SubSeq(p, 1, Len(p))
              v == SubSeq(q, 1, Len(p))
  <2>1. /\ u \in Seq(Nat) /\ Len(u) = Len(p) /\ \A n \in 1 .. Len(p) : u[n] = p[n]
        /\ v \in Seq(Nat) /\ Len(v) = Len(p) /\ \A n \in 1 .. Len(p) : v[n] = q[n]
    BY <1>1, <1>2
  <2>2. u = v <=> \A n \in 1 .. Len(p) : p[n] = q[n]
    <3>. HIDE DEF u, v
    <3>1. ASSUME \A n \in 1 .. Len(p) : p[n] = q[n] PROVE u = v
      BY <2>1, <3>1, SeqEqual
    <3>. QED  BY <2>1, <3>1
  <2>. QED  BY <1>2, <2>2 DEF IsPrefix
<1>3. CASE ~(Len(p) <= Len(q))
  BY <1>3 DEF IsPrefix
<1>. QED  BY <1>2, <1>3

\* A path is before those below it, and before those with a larger name at the
\* first place where they differ.
LEMMA PrecedesIs ==
  ASSUME NEW p \in Paths, NEW q \in Paths
  PROVE  Precedes(p, q) <=>
           \/ Len(p) < Len(q) /\ \A n \in 1 .. Len(p) : p[n] = q[n]
           \/ \E n \in 1 .. Len(p) : /\ n <= Len(q) /\ p[n] < q[n]
                                     /\ \A m \in 1 .. n - 1 : p[m] = q[m]
<1>1. p \in Seq(Nat) /\ q \in Seq(Nat) /\ Len(p) \in Nat /\ Len(q) \in Nat
  BY PathType
<1>2. IsStrictPrefix(p, q) <=> Len(p) < Len(q) /\ \A n \in 1 .. Len(p) : p[n] = q[n]
  <2>1. ASSUME IsPrefix(p, q), Len(p) = Len(q) PROVE p = q
    BY <2>1, PrefixIs, SamePath
  <2>. QED  BY <1>1, <2>1, PrefixIs DEF IsStrictPrefix
<1>3. ASSUME NEW n \in 1 .. Len(p), n <= Len(q)
      PROVE  SubSeq(p, 1, n - 1) = SubSeq(q, 1, n - 1)
               <=> \A m \in 1 .. n - 1 : p[m] = q[m]
  <2>. DEFINE u == SubSeq(p, 1, n - 1)
              v == SubSeq(q, 1, n - 1)
  <2>1. /\ u \in Seq(Nat) /\ Len(u) = n - 1 /\ \A m \in 1 .. n - 1 : u[m] = p[m]
        /\ v \in Seq(Nat) /\ Len(v) = n - 1 /\ \A m \in 1 .. n - 1 : v[m] = q[m]
    BY <1>1, <1>3
  <2>. HIDE DEF u, v
  <2>2. u = v <=> \A m \in 1 .. n - 1 : p[m] = q[m]
    <3>1. ASSUME \A m \in 1 .. n - 1 : p[m] = q[m] PROVE u = v
      BY <2>1, <3>1, SeqEqual
    <3>. QED  BY <2>1, <3>1
  <2>. QED  BY <2>2 DEF u, v
<1>. QED  BY <1>2, <1>3 DEF Precedes

\* The prefixes of a path, and those before it.
LEMMA PrefixOrder ==
  ASSUME NEW p \in Paths, NEW q \in Paths, NEW r \in Paths
  PROVE  /\ IsPrefix(p, p)
         /\ IsPrefix(p, q) /\ IsPrefix(q, r) => IsPrefix(p, r)
         /\ IsPrefix(p, q) /\ Len(q) <= Len(p) => p = q
         /\ IsStrictPrefix(p, q) <=> IsPrefix(p, q) /\ Len(p) < Len(q)
         /\ IsPrefix(p, r) /\ IsPrefix(q, r) /\ Len(p) <= Len(q) => IsPrefix(p, q)
<1>1. Len(p) \in Nat /\ Len(q) \in Nat /\ Len(r) \in Nat
  BY PathType
<1>2. ASSUME IsPrefix(p, q), Len(q) <= Len(p) PROVE p = q
  <2>1. Len(p) = Len(q) /\ \A n \in 1 .. Len(p) : p[n] = q[n]
    BY <1>1, <1>2, PrefixIs
  <2>. QED  BY <2>1, SamePath
<1>3. IsStrictPrefix(p, q) <=> IsPrefix(p, q) /\ Len(p) < Len(q)
  BY <1>1, <1>2, PrefixIs DEF IsStrictPrefix
<1>4. IsPrefix(p, p)
  BY <1>1, PrefixIs
<1>5. IsPrefix(p, q) /\ IsPrefix(q, r) => IsPrefix(p, r)
  BY <1>1, PrefixIs
<1>6. IsPrefix(p, r) /\ IsPrefix(q, r) /\ Len(p) <= Len(q) => IsPrefix(p, q)
  BY <1>1, PrefixIs
<1>. QED  BY <1>2, <1>3, <1>4, <1>5, <1>6

\* The parent of a path is a prefix, and has all its shorter prefixes.
LEMMA ParentPrefix ==
  ASSUME NEW p \in Paths, p # <<>>, NEW q \in Paths
  PROVE  /\ IsPrefix(Parent(p), p)
         /\ IsPrefix(q, p) /\ q # p => IsPrefix(q, Parent(p))
<1>1. /\ Parent(p) \in Paths /\ Len(Parent(p)) + 1 = Len(p)
      /\ \A n \in 1 .. Len(Parent(p)) : Parent(p)[n] = p[n]
      /\ Len(Parent(p)) \in Nat /\ Len(q) \in Nat /\ Len(p) \in Nat
  BY ParentIs, PathType
<1>2. IsPrefix(Parent(p), p)
  BY <1>1, PrefixIs
<1>3. ASSUME IsPrefix(q, p), q # p PROVE IsPrefix(q, Parent(p))
  <2>1. Len(q) < Len(p)
    BY <1>1, <1>3, PrefixOrder
  <2>. QED  BY <1>1, <1>2, <1>3, <2>1, PrefixOrder
<1>. QED  BY <1>2, <1>3

\* The child of d on the way to a path below it.
LEMMA ChildTowards ==
  ASSUME NEW d \in Paths, NEW p \in Paths, IsStrictPrefix(d, p)
  PROVE  \E a \in Paths : a # <<>> /\ Parent(a) = d /\ IsPrefix(a, p)
<1>. DEFINE A == {q \in Paths : IsPrefix(q, p) /\ IsPrefix(d, q) /\ Len(d) < Len(q)}
            T == {Len(q) : q \in A}
<1>1. p \in A
  BY PrefixOrder
<1>2. T \subseteq Nat /\ T # {}
  BY <1>1, PathType
<1>3. PICK m \in T : \A k \in T : m <= k
  BY <1>2, Least
<1>4. PICK a \in A : m = Len(a)
  BY <1>3
<1>5. a # <<>> /\ Len(a) \in Nat /\ Len(d) \in Nat
  <2>1. Len(a) \in Nat /\ Len(d) \in Nat /\ Len(d) < Len(a)
    BY <1>4, PathType
  <2>. QED  BY <1>4, <2>1, PathType
<1>6. /\ Parent(a) \in Paths /\ Len(Parent(a)) + 1 = Len(a) /\ Len(Parent(a)) \in Nat
      /\ IsPrefix(Parent(a), a) /\ IsPrefix(d, Parent(a))
  <2>1. a # d
    BY <1>4, <1>5
  <2>. QED  BY <1>4, <1>5, <2>1, ParentIs, ParentPrefix, PathType
<1>7. Parent(a) \notin A
  <2>1. ASSUME Parent(a) \in A PROVE FALSE
    <3>1. Len(Parent(a)) \in T
      BY <2>1
    <3>2. Len(a) <= Len(Parent(a))
      BY <1>3, <1>4, <3>1
    <3>. QED  BY <1>5, <1>6, <3>2
  <2>. QED  BY <2>1
<1>8. Len(Parent(a)) <= Len(d)
  <2>1. IsPrefix(Parent(a), p)
    BY <1>4, <1>6, PrefixOrder
  <2>. QED  BY <1>5, <1>6, <1>7, <2>1
<1>9. Parent(a) = d
  BY <1>6, <1>8, PrefixOrder
<1>. QED  BY <1>4, <1>5, <1>9

\* A directory is before what is in it.
LEMMA BeforeChild ==
  ASSUME NEW c \in Paths, c # <<>>
  PROVE  Precedes(Parent(c), c)
<1>1. /\ Len(Parent(c)) + 1 = Len(c) /\ \A n \in 1 .. Len(Parent(c)) : Parent(c)[n] = c[n]
      /\ Len(Parent(c)) \in Nat /\ Len(c) \in Nat /\ Parent(c) \in Paths
  BY ParentIs, PathType
<1>. QED  BY <1>1, PrecedesIs

\* What is below a file is before its later siblings.
LEMMA BeforeSibling ==
  ASSUME NEW e \in Paths, e # <<>>, NEW c \in Paths, c # <<>>, Parent(e) = Parent(c),
         Name(e) < Name(c), NEW p \in Paths, IsPrefix(e, p)
  PROVE  Precedes(p, c)
<1>1. /\ Len(e) = Len(c) /\ Len(e) \in Nat /\ Len(e) >= 1 /\ Len(p) \in Nat
      /\ \A n \in 1 .. Len(e) - 1 : e[n] = c[n]
      /\ e[Len(e)] < c[Len(e)]
  <2>1. /\ Len(Parent(e)) + 1 = Len(e) /\ \A n \in 1 .. Len(Parent(e)) : Parent(e)[n] = e[n]
        /\ Name(e) = e[Len(e)] /\ Parent(e) \in Paths
    BY ParentIs
  <2>2. /\ Len(Parent(e)) + 1 = Len(c) /\ \A n \in 1 .. Len(Parent(e)) : Parent(e)[n] = c[n]
        /\ Name(c) = c[Len(c)]
    BY ParentIs
  <2>3. Len(Parent(e)) \in Nat /\ Len(e) \in Nat /\ Len(c) \in Nat /\ Len(p) \in Nat
    BY <2>1, PathType
  <2>. QED  BY <2>1, <2>2, <2>3
<1>2. Len(e) <= Len(p) /\ \A n \in 1 .. Len(e) : e[n] = p[n]
  BY PrefixIs
<1>3. /\ Len(e) \in 1 .. Len(p) /\ Len(e) <= Len(c) /\ p[Len(e)] < c[Len(e)]
      /\ \A m \in 1 .. Len(e) - 1 : p[m] = c[m]
  BY <1>1, <1>2
<1>. QED  BY <1>3, PrecedesIs

\* Files in one directory with one name are one file.
LEMMA SameName ==
  ASSUME NEW p \in Paths, p # <<>>, NEW q \in Paths, q # <<>>,
         Parent(p) = Parent(q), Name(p) = Name(q)
  PROVE  p = q
<1>1. /\ Len(Parent(p)) + 1 = Len(p) /\ \A n \in 1 .. Len(Parent(p)) : Parent(p)[n] = p[n]
      /\ Name(p) = p[Len(p)] /\ Parent(p) \in Paths
      /\ Len(Parent(p)) + 1 = Len(q) /\ \A n \in 1 .. Len(Parent(p)) : Parent(p)[n] = q[n]
      /\ Name(q) = q[Len(q)]
      /\ Len(Parent(p)) \in Nat /\ Len(p) \in Nat /\ Len(q) \in Nat
  BY ParentIs, PathType
<1>2. PICK m \in Nat : m = Len(Parent(p))
  BY <1>1
<1>3. Len(p) = m + 1 /\ Len(q) = m + 1
  BY <1>1, <1>2
<1>4. ASSUME NEW n \in 1 .. m + 1 PROVE p[n] = q[n]
  <2>1. n \in 1 .. m \/ n = m + 1
    BY <1>2
  <2>. QED  BY <1>1, <1>2, <1>3, <2>1
<1>. QED  BY <1>3, <1>4, SamePath

-----------------------------------------------------------------------------
(* The inductive invariant.                                                 *)

Frame == [dir : Paths, entries : Seq(Paths), i : Nat \ {0}, rc : {0, 1}]
Lines == [path : Paths, err : {"none", "lstat", "opendir"}, target : BOOLEAN]

\* traverse() is at a path that it has not printed yet.
Here == pc \in {"lstat", "readlink", "opendir"}

\* Every variable has its type, and there is a loop to go on with.
Typed ==
  /\ opt \in [show_all : BOOLEAN, long_format : BOOLEAN, max_depth : Int]
  /\ stack \in Seq(Frame) /\ path \in Paths /\ rc \in {0, 1}
  /\ pc \in {"lstat", "readlink", "opendir", "readdir", "next", "done"}
  /\ out \in Seq(Lines)
  /\ fs \in [Paths -> Kinds]
  /\ fresh \subseteq touched /\ touched \subseteq Paths
  /\ pc \in {"readdir", "next"} => stack # <<>>
  /\ pc = "done" => stack = <<>>

\* What exists is in a directory, or is reached by a link to one.
FileTree ==
  \A p \in Paths \ {<<>>} : fs[p] # "none" => fs[Parent(p)] \in Parents

\* The entries of every open directory are in it, and wanted.
Levels(s) ==
  \A l \in 1 .. Len(s) :
    /\ Len(s[l].dir) + 1 = l
    /\ \A k \in 1 .. Len(s[l].entries) :
         /\ s[l].entries[k] # <<>> /\ Parent(s[l].entries[k]) = s[l].dir
         /\ Wanted(s[l].entries[k])

\* The current entry of every level of s is on the way to p.
Leads(s, p) ==
  \A l \in 1 .. Len(s) : /\ s[l].i <= Len(s[l].entries)
                         /\ IsPrefix(s[l].entries[s[l].i], p)

\* Each level was entered by the current entry of the one above.
Nested(s) ==
  \A l, m \in 1 .. Len(s) :
    l < m => /\ s[l].i <= Len(s[l].entries)
             /\ IsPrefix(s[l].entries[s[l].i], s[m].dir)

\* The stack leads to the path.
Branch ==
  /\ Levels(stack) /\ Nested(stack)
  /\ Here => Len(path) = depth /\ Leads(stack, path)
  /\ pc = "readdir" => path = top.dir /\ top.i = 1 /\ top.rc = 0
  /\ opt.max_depth >= 0 => depth <= opt.max_depth
  /\ pc = "opendir" => ~AtMaxDepth
  /\ pc = "readlink" => path \in touched \/ fs[path] \in Links

Ascending(e) == \A j, k \in 1 .. Len(e) :
                  j < k => Name(e[j]) < Name(e[k]) \/ (e[j] = e[k] /\ e[j] \in touched)
Distinct(e)  == \A j, k \in 1 .. Len(e) : e[j] = e[k] => j = k \/ e[j] \in touched

\* The entries are sorted when the directory is closed, each is there once if others
\* have not touched it.
Arranged ==
  \A l \in 1 .. depth :
    \/ Ascending(stack[l].entries)
    \/ l = depth /\ pc = "readdir" /\ Distinct(stack[l].entries)

\* What is still to come: the path, and the later entries on all levels.
After(s) == {c \in Paths : \E l \in 1 .. Len(s) : \E k \in 1 .. Len(s[l].entries) :
                             s[l].i < k /\ c = s[l].entries[k]}
Now == {c \in Paths :
          \/ Here /\ c = path
          \/ /\ pc \in {"readdir", "next"} /\ top.i <= Len(top.entries)
             /\ c = top.entries[top.i]}
Coming == After(stack) \cup Now

\* The last line of the listing.
LastLine == out[Len(out)]

\* The listing so far is in order, and so it is with whatever comes next; a directory
\* that is read was the last to be printed.
InOrder ==
  /\ \A j \in 2 .. Len(out) : Follows(out[j - 1].path, out[j].path)
  /\ out # <<>> => \A c \in Coming : Follows(LastLine.path, c)
  /\ pc = "readdir" => out # <<>> /\ LastLine.path = path

\* The listing so far is below its directories.
Rooted ==
  /\ \A j \in 1 .. Len(out) : out[j].path # <<>> =>
       \E k \in 1 .. Len(out) :
         k < j /\ out[k].path = Parent(out[j].path) /\ out[k].err = "none"
  /\ \A l \in 1 .. depth :
       \E k \in 1 .. Len(out) : out[k].path = stack[l].dir /\ out[k].err = "none"

\* A failure is known on some level, or to main.
Known(s) == \E l \in 1 .. Len(s) : s[l].rc = 1
Failures ==
  /\ pc # "done" => rc = 0 /\ (lost # {} <=> Known(stack))
  /\ pc = "done" => (rc = 1 <=> lost # {})

OnlyAsked == \A j \in 1 .. Len(out) : Asked(out[j].path)

\* p is below something that was not listed for want of means.
Missed(p) == \E q \in lost \cup cut : IsPrefix(q, p)
\* The listing will come to p.
Awaited(p) ==
  \/ \E c \in Coming : IsPrefix(c, p)
  \/ pc = "readdir" /\ IsStrictPrefix(path, p)
Untouched(p) == \A q \in touched : ~IsPrefix(q, p)
NothingForgotten ==
  \A p \in Paths :
    Asked(p) /\ Reached(p) /\ Untouched(p) =>
      p \in Listed \/ Missed(p) \/ Awaited(p)

Inv ==
  /\ Typed /\ FileTree /\ Branch /\ Arranged /\ InOrder /\ Rooted /\ Failures
  /\ OnlyAsked /\ NothingForgotten

-----------------------------------------------------------------------------
(* The file system and the stack.                                           *)

\* All directories on the way to a file that exists are there.
LEMMA Exists ==
  ASSUME Typed, FileTree, NEW a \in Paths, NEW p \in Paths, IsPrefix(a, p),
         fs[p] # "none"
  PROVE  /\ fs[a] # "none"
         /\ a # p => fs[a] \in Parents
<1>1. ASSUME NEW b \in Paths, IsPrefix(b, p), fs[b] = "none" PROVE FALSE
  <2>. DEFINE A == {q \in Paths : IsPrefix(q, p) /\ IsPrefix(b, q) /\ fs[q] # "none"}
              T == {Len(q) : q \in A}
  <2>1. p \in A
    BY <1>1, PrefixOrder
  <2>2. T \subseteq Nat /\ T # {}
    BY <2>1, PathType
  <2>3. PICK m \in T : \A k \in T : m <= k
    BY <2>2, Least
  <2>4. PICK q \in A : m = Len(q)
    BY <2>3
  <2>5. q # b
    BY <1>1, <2>4
  <2>6. q # <<>>
    <3>1. Len(b) \in Nat /\ Len(q) \in Nat
      BY <1>1, <2>4, PathType
    <3>2. ~(Len(q) <= Len(b))
      BY <1>1, <2>4, <2>5, PrefixOrder
    <3>. QED  BY <2>4, <3>1, <3>2, PathType
  <2>7. /\ Parent(q) \in Paths /\ IsPrefix(Parent(q), p) /\ IsPrefix(b, Parent(q))
        /\ Len(Parent(q)) + 1 = Len(q) /\ Len(Parent(q)) \in Nat /\ Len(q) \in Nat
    <3>1. Parent(q) \in Paths /\ Len(Parent(q)) + 1 = Len(q)
      BY <2>4, <2>6, ParentIs
    <3>2. IsPrefix(Parent(q), q) /\ IsPrefix(b, Parent(q))
      BY <1>1, <2>4, <2>5, <2>6, ParentPrefix
    <3>3. IsPrefix(Parent(q), p)
      BY <2>4, <3>1, <3>2, PrefixOrder
    <3>. QED  BY <2>4, <3>1, <3>2, <3>3, PathType
  <2>8. fs[Parent(q)] # "none"
    BY <2>4, <2>6 DEF FileTree, Parents, Dirs, Opened
  <2>9. Len(Parent(q)) \in T
    BY <2>7, <2>8
  <2>10. Len(q) <= Len(Parent(q))
    BY <2>3, <2>4, <2>9
  <2>. QED  BY <2>7, <2>10
<1>2. ASSUME a # p PROVE fs[a] \in Parents
  <2>1. PICK c \in Paths : c # <<>> /\ Parent(c) = a /\ IsPrefix(c, p)
    BY <1>2, ChildTowards DEF IsStrictPrefix
  <2>2. fs[c] # "none"
    BY <1>1, <2>1
  <2>. QED  BY <2>1, <2>2 DEF FileTree
<1>. QED  BY <1>1, <1>2

\* What a level of the stack is.
LEMMA FrameType ==
  ASSUME NEW s \in Seq(Frame), NEW l \in 1 .. Len(s)
  PROVE  /\ s[l] \in Frame /\ s[l].dir \in Paths /\ s[l].entries \in Seq(Paths)
         /\ s[l].i \in Nat /\ s[l].i # 0 /\ s[l].rc \in {0, 1}
         /\ Len(s[l].entries) \in Nat
         /\ \A k \in 1 .. Len(s[l].entries) : s[l].entries[k] \in Paths
<1>1. s[l] \in Frame
  OBVIOUS
<1>2. /\ s[l].dir \in Paths /\ s[l].entries \in Seq(Paths)
      /\ s[l].i \in Nat /\ s[l].i # 0 /\ s[l].rc \in {0, 1}
  BY <1>1 DEF Frame
<1>. QED  BY <1>1, <1>2

\* The stack after a return.
LEMMA ReturnIs ==
  ASSUME NEW s \in Seq(Frame), NEW code \in {0, 1}, Return(code, s)
  PROVE  /\ stack' \in Seq(Frame) /\ Len(stack') = Len(s)
         /\ \A l \in 1 .. Len(s) : /\ stack'[l].dir = s[l].dir
                                   /\ stack'[l].entries = s[l].entries
         /\ \A l \in 1 .. Len(s) : l # Len(s) => stack'[l] = s[l]
         /\ s = <<>> => pc' = "done" /\ rc' = code /\ stack' = <<>>
         /\ s # <<>> => /\ pc' = "next" /\ rc' = rc /\ Len(s) \in 1 .. Len(s)
                        /\ stack'[Len(s)].i = s[Len(s)].i + 1
                        /\ stack'[Len(s)].rc = IF code = 0 THEN s[Len(s)].rc ELSE 1
<1>1. CASE s = <<>>
  BY <1>1 DEF Return
<1>2. CASE s # <<>>
  <2>. DEFINE n == Len(s)
              r == IF code = 0 THEN s[n].rc ELSE 1
              f == [s[n] EXCEPT !.rc = r, !.i = s[n].i + 1]
  <2>1. n \in Nat /\ n \in 1 .. n
    BY <1>2
  <2>2. /\ s[n] \in Frame /\ s[n].dir \in Paths /\ s[n].entries \in Seq(Paths)
        /\ s[n].i \in Nat /\ s[n].i # 0 /\ s[n].rc \in {0, 1}
    BY <2>1, FrameType
  <2>3. /\ f \in Frame /\ f.dir = s[n].dir /\ f.entries = s[n].entries
        /\ f.i = s[n].i + 1 /\ f.rc = r
    <3>1. s[n].i + 1 \in Nat \ {0} /\ r \in {0, 1}
      BY <2>2
    <3>. HIDE DEF r
    <3>2. PICK a \in Frame : a = s[n]
      BY <2>2
    <3>3. PICK y \in Nat \ {0} : y = s[n].i + 1
      BY <3>1
    <3>4. f = [a EXCEPT !.rc = r, !.i = y]
      BY <3>2, <3>3
    <3>. HIDE DEF f
    <3>5. f \in Frame /\ f.dir = a.dir /\ f.entries = a.entries /\ f.i = y /\ f.rc = r
      BY <3>1, <3>4 DEF Frame
    <3>. QED  BY <3>2, <3>3, <3>5
  <2>4. stack' = [s EXCEPT ![n] = f] /\ pc' = "next" /\ rc' = rc
    BY <1>2 DEF Return
  <2>. HIDE DEF f
  <2>5. /\ stack' \in Seq(Frame) /\ Len(stack') = Len(s)
        /\ \A l \in 1 .. Len(s) : stack'[l] = IF l = n THEN f ELSE s[l]
    BY <2>1, <2>3, <2>4, ExceptSeq
  <2>. QED  BY <1>2, <2>1, <2>3, <2>4, <2>5
<1>. QED  BY <1>1, <1>2

\* What is kept of a stack, and still to come of it, after a return to it.
LEMMA ReturnTo ==
  ASSUME NEW s \in Seq(Frame), NEW code \in {0, 1}, Return(code, s), UNCHANGED opt
  PROVE  /\ Levels(s) => Levels(stack)'
         /\ Nested(s) => Nested(stack)'
         /\ Coming' = After(s)
         /\ ~Here' /\ pc' \in {"next", "done"}
         /\ pc' = "next" => rc' = rc /\ (Known(stack)' <=> Known(s) \/ code = 1)
         /\ pc' = "done" => (rc' = 1 <=> Known(s) \/ code = 1)
         /\ (pc' = "done") <=> (stack' = <<>>)
<1>1. /\ stack' \in Seq(Frame) /\ Len(stack') = Len(s) /\ Len(s) \in Nat
      /\ \A l \in 1 .. Len(s) : /\ stack'[l].dir = s[l].dir
                                /\ stack'[l].entries = s[l].entries
      /\ \A l \in 1 .. Len(s) : l # Len(s) => stack'[l] = s[l]
      /\ s = <<>> => pc' = "done" /\ rc' = code /\ stack' = <<>>
      /\ s # <<>> => /\ pc' = "next" /\ rc' = rc /\ Len(s) \in 1 .. Len(s)
                     /\ stack'[Len(s)].i = s[Len(s)].i + 1
                     /\ stack'[Len(s)].rc = IF code = 0 THEN s[Len(s)].rc ELSE 1
  BY ReturnIs
<1>2. Levels(s) => Levels(stack)'
  <2>2. SUFFICES ASSUME Levels(s), NEW l \in 1 .. Len(s)
                 PROVE  (/\ Len(stack[l].dir) + 1 = l
                         /\ \A k \in 1 .. Len(stack[l].entries) :
                              /\ stack[l].entries[k] # <<>>
                              /\ Parent(stack[l].entries[k]) = stack[l].dir
                              /\ Wanted(stack[l].entries[k]))'
    BY <1>1 DEF Levels
  <2>3. /\ stack'[l].dir = s[l].dir /\ stack'[l].entries = s[l].entries
        /\ \A k \in 1 .. Len(s[l].entries) : Wanted(s[l].entries[k])
    BY <1>1, <2>2 DEF Levels
  <2>4. ASSUME NEW k \in 1 .. Len(s[l].entries) PROVE (Wanted(stack[l].entries[k]))'
    BY <2>3, <2>4 DEF Wanted
  <2>. QED  BY <1>1, <2>2, <2>3, <2>4 DEF Levels
<1>3. Nested(s) => Nested(stack)'
  <2>1. SUFFICES ASSUME Nested(s), NEW l \in 1 .. Len(s), NEW m \in 1 .. Len(s), l < m
                 PROVE  /\ stack'[l].i <= Len(stack'[l].entries)
                        /\ IsPrefix(stack'[l].entries[stack'[l].i], stack'[m].dir)
    BY <1>1 DEF Nested
  <2>2. l # Len(s)
    BY <1>1, <2>1
  <2>. QED  BY <1>1, <2>1, <2>2 DEF Nested
<1>4. ~Here' /\ pc' \in {"next", "done"}
  BY <1>1 DEF Here
<1>5. Coming' = After(s)
  <2>1. CASE s = <<>>
    <3>1. After(s) = {} /\ After(stack)' = {}
      BY <1>1, <2>1 DEF After
    <3>2. Now' = {}
      BY <1>1, <1>4, <2>1 DEF Now
    <3>. QED  BY <3>1, <3>2 DEF Coming
  <2>2. CASE s # <<>>
    <3>. DEFINE n == Len(s)
    <3>1. /\ pc' = "next" /\ n \in 1 .. n /\ stack'[n].i = s[n].i + 1
          /\ s[n].i \in Nat /\ Len(s[n].entries) \in Nat
          /\ stack'[n].entries = s[n].entries
      BY <1>1, <2>2, FrameType
    <3>2. ASSUME NEW c \in Paths
          PROVE  c \in Coming' <=> c \in After(s)
      <4>1. c \in Now' <=> /\ s[n].i + 1 <= Len(s[n].entries)
                           /\ c = s[n].entries[s[n].i + 1]
        <5>1. top' = stack'[n]
          BY <1>1 DEF top, depth
        <5>. QED  BY <1>1, <1>4, <3>1, <5>1 DEF Now
      <4>2. c \in After(stack)' <=>
              \E l \in 1 .. n : \E k \in 1 .. Len(s[l].entries) :
                stack'[l].i < k /\ c = s[l].entries[k]
        BY <1>1 DEF After
      <4>3. c \in After(s) <=>
              \E l \in 1 .. n : \E k \in 1 .. Len(s[l].entries) :
                s[l].i < k /\ c = s[l].entries[k]
        BY DEF After
      <4>4. ASSUME c \in Now' \/ c \in After(stack)' PROVE c \in After(s)
        <5>1. CASE c \in Now'
          <6>1. /\ s[n].i + 1 \in 1 .. Len(s[n].entries) /\ s[n].i < s[n].i + 1
                /\ c = s[n].entries[s[n].i + 1]
            BY <3>1, <4>1, <5>1
          <6>. QED  BY <3>1, <4>3, <6>1
        <5>2. CASE c \in After(stack)'
          <6>1. PICK l \in 1 .. n : \E k \in 1 .. Len(s[l].entries) :
                  stack'[l].i < k /\ c = s[l].entries[k]
            BY <4>2, <5>2
          <6>2. PICK k \in 1 .. Len(s[l].entries) : stack'[l].i < k /\ c = s[l].entries[k]
            BY <6>1
          <6>3. s[l].i < k
            BY <1>1, <3>1, <6>2
          <6>. QED  BY <4>3, <6>2, <6>3
        <5>. QED  BY <4>4, <5>1, <5>2
      <4>5. ASSUME c \in After(s) PROVE c \in Now' \/ c \in After(stack)'
        <5>1. PICK l \in 1 .. n : \E k \in 1 .. Len(s[l].entries) :
                s[l].i < k /\ c = s[l].entries[k]
          BY <4>3, <4>5
        <5>2. PICK k \in 1 .. Len(s[l].entries) : s[l].i < k /\ c = s[l].entries[k]
          BY <5>1
        <5>3. CASE l # n
          BY <1>1, <4>2, <5>2, <5>3
        <5>4. CASE l = n /\ k = s[n].i + 1
          BY <3>1, <4>1, <5>2, <5>4
        <5>5. CASE l = n /\ k # s[n].i + 1
          <6>1. stack'[n].i < k
            BY <3>1, <5>2, <5>5
          <6>. QED  BY <4>2, <5>2, <5>5, <6>1
        <5>. QED  BY <5>3, <5>4, <5>5
      <4>. QED  BY <4>4, <4>5 DEF Coming
    <3>3. Coming' \subseteq Paths /\ After(s) \subseteq Paths
      BY DEF Coming, Now, After
    <3>. QED  BY <3>2, <3>3
  <2>. QED  BY <2>1, <2>2
<1>6. ASSUME s # <<>> PROVE Known(stack)' <=> Known(s) \/ code = 1
  <2>1. Known(s) <=> \E l \in 1 .. Len(s) : s[l].rc = 1
    BY DEF Known
  <2>2. Known(stack)' <=> \E l \in 1 .. Len(s) : stack'[l].rc = 1
    BY <1>1 DEF Known
  <2>3. CASE code = 0
    BY <1>1, <1>6, <2>1, <2>2, <2>3
  <2>4. CASE code = 1
    BY <1>1, <1>6, <2>2, <2>4
  <2>. QED  BY <2>3, <2>4
<1>7. s = <<>> => ~Known(s)
  BY DEF Known
<1>8. s # <<>> => stack' # <<>>
  BY <1>1
<1>. QED  BY <1>1, <1>2, <1>3, <1>4, <1>5, <1>6, <1>7, <1>8
-----------------------------------------------------------------------------
(* What is still to come.                                                   *)

\* The entries of a level from the n-th on.
Later(f, n) == {c \in Paths : \E k \in 1 .. Len(f.entries) : n <= k /\ c = f.entries[k]}

\* The top of a stack, and the rest.
LEMMA TopAndRest ==
  ASSUME NEW s \in Seq(Frame), s # <<>>
  PROVE  /\ Front(s) \in Seq(Frame) /\ Len(s) \in 1 .. Len(s)
         /\ Len(Front(s)) \in Nat /\ Len(s) \in Nat /\ Len(Front(s)) + 1 = Len(s)
         /\ \A l \in 1 .. Len(Front(s)) : Front(s)[l] = s[l] /\ l \in 1 .. Len(s) /\ l # Len(s)
         /\ \A l \in 1 .. Len(s) : l # Len(s) => l \in 1 .. Len(Front(s))
         /\ After(s) = After(Front(s)) \cup Later(s[Len(s)], s[Len(s)].i + 1)
<1>1. /\ Front(s) \in Seq(Frame) /\ Len(s) \in 1 .. Len(s)
      /\ Len(Front(s)) \in Nat /\ Len(s) \in Nat /\ Len(Front(s)) + 1 = Len(s)
      /\ \A l \in 1 .. Len(Front(s)) : Front(s)[l] = s[l] /\ l \in 1 .. Len(s) /\ l # Len(s)
      /\ \A l \in 1 .. Len(s) : l # Len(s) => l \in 1 .. Len(Front(s))
  <2>1. PICK m \in Nat : Len(s) = m + 1
    <3>1. Len(s) \in Nat /\ Len(s) # 0
      OBVIOUS
    <3>2. Len(s) - 1 \in Nat /\ Len(s) = (Len(s) - 1) + 1
      BY <3>1
    <3>. QED  BY <3>2
  <2>2. Front(s) = SubSeq(s, 1, m)
    <3>1. Len(s) - 1 = m
      BY <2>1
    <3>. QED  BY <3>1 DEF Front
  <2>3. /\ SubSeq(s, 1, m) \in Seq(Frame) /\ Len(SubSeq(s, 1, m)) = m
        /\ \A l \in 1 .. m : SubSeq(s, 1, m)[l] = s[l]
    BY <2>1
  <2>. QED  BY <2>1, <2>2, <2>3
<1>2. ASSUME NEW c \in Paths
      PROVE  c \in After(s)
               <=> c \in After(Front(s)) \/ c \in Later(s[Len(s)], s[Len(s)].i + 1)
  <2>1. ASSUME c \in After(s)
        PROVE  c \in After(Front(s)) \/ c \in Later(s[Len(s)], s[Len(s)].i + 1)
    <3>1. PICK l \in 1 .. Len(s) : \E k \in 1 .. Len(s[l].entries) :
            s[l].i < k /\ c = s[l].entries[k]
      BY <2>1 DEF After
    <3>2. PICK k \in 1 .. Len(s[l].entries) : s[l].i < k /\ c = s[l].entries[k]
      BY <3>1
    <3>3. CASE l = Len(s)
      <4>1. s[l].i + 1 <= k
        BY <3>2, FrameType
      <4>. QED  BY <3>2, <3>3, <4>1 DEF Later
    <3>4. CASE l # Len(s)
      <4>1. l \in 1 .. Len(Front(s)) /\ Front(s)[l] = s[l]
        BY <1>1, <3>4
      <4>. QED  BY <3>2, <4>1 DEF After
    <3>. QED  BY <3>3, <3>4
  <2>2. ASSUME c \in After(Front(s)) PROVE c \in After(s)
    <3>1. PICK l \in 1 .. Len(Front(s)) : \E k \in 1 .. Len(Front(s)[l].entries) :
            Front(s)[l].i < k /\ c = Front(s)[l].entries[k]
      BY <2>2 DEF After
    <3>2. l \in 1 .. Len(s) /\ Front(s)[l] = s[l]
      BY <1>1
    <3>. QED  BY <3>1, <3>2 DEF After
  <2>3. ASSUME c \in Later(s[Len(s)], s[Len(s)].i + 1) PROVE c \in After(s)
    <3>. DEFINE n == Len(s)
    <3>1. PICK k \in 1 .. Len(s[n].entries) : s[n].i + 1 <= k /\ c = s[n].entries[k]
      BY <2>3 DEF Later
    <3>2. n \in 1 .. Len(s) /\ s[n].i < k
      BY <1>1, <3>1, FrameType
    <3>. QED  BY <3>1, <3>2 DEF After
  <2>. QED  BY <2>1, <2>2, <2>3
<1>3. After(s) \subseteq Paths /\ After(Front(s)) \subseteq Paths
      /\ Later(s[Len(s)], s[Len(s)].i + 1) \subseteq Paths
  BY DEF After, Later
<1>4. After(s) = After(Front(s)) \cup Later(s[Len(s)], s[Len(s)].i + 1)
  BY <1>2, <1>3
<1>. QED  BY <1>1, <1>4

\* What is to come while a path is looked at, and in the loop over the entries.
LEMMA ComingIs ==
  ASSUME Typed
  PROVE  /\ Here => Coming = After(stack) \cup {path}
         /\ pc \in {"readdir", "next"} =>
              /\ stack # <<>> /\ depth \in Nat /\ depth \in 1 .. depth
              /\ top = stack[depth] /\ depth = Len(stack)
              /\ top \in Frame /\ top.dir \in Paths /\ top.entries \in Seq(Paths)
              /\ top.i \in Nat /\ top.i # 0 /\ top.rc \in {0, 1}
              /\ Len(top.entries) \in Nat
              /\ \A k \in 1 .. Len(top.entries) : top.entries[k] \in Paths
              /\ Coming = After(Front(stack)) \cup Later(top, top.i)
         /\ Coming \subseteq Paths
<1>1. ASSUME Here PROVE Coming = After(stack) \cup {path}
  <2>1. Now = {path}
    BY <1>1 DEF Now, Here, Typed
  <2>. QED  BY <2>1 DEF Coming
<1>2. ASSUME pc \in {"readdir", "next"}
      PROVE  /\ stack # <<>> /\ depth \in Nat /\ depth \in 1 .. depth
             /\ top = stack[depth] /\ depth = Len(stack)
             /\ top \in Frame /\ top.dir \in Paths /\ top.entries \in Seq(Paths)
             /\ top.i \in Nat /\ top.i # 0 /\ top.rc \in {0, 1}
             /\ Len(top.entries) \in Nat
             /\ \A k \in 1 .. Len(top.entries) : top.entries[k] \in Paths
             /\ Coming = After(Front(stack)) \cup Later(top, top.i)
  <2>1. stack \in Seq(Frame) /\ stack # <<>>
    BY <1>2 DEF Typed
  <2>2. depth \in Nat /\ depth \in 1 .. depth /\ top = stack[depth] /\ depth = Len(stack)
    BY <2>1, TopAndRest DEF depth, top
  <2>3. /\ top \in Frame /\ top.dir \in Paths /\ top.entries \in Seq(Paths)
        /\ top.i \in Nat /\ top.i # 0 /\ top.rc \in {0, 1} /\ Len(top.entries) \in Nat
        /\ \A k \in 1 .. Len(top.entries) : top.entries[k] \in Paths
    BY <2>1, <2>2, FrameType
  <2>4. After(stack) = After(Front(stack)) \cup Later(top, top.i + 1)
    BY <2>1, <2>2, TopAndRest
  <2>5. Later(top, top.i) = Later(top, top.i + 1) \cup Now
    <3>. HIDE DEF top
    <3>1. \A i, k \in Nat : i <= k <=> i + 1 <= k \/ k = i
      OBVIOUS
    <3>2. \A k \in 1 .. Len(top.entries) : k \in Nat
      OBVIOUS
    <3>3. \A c : c \in Now <=> c \in Paths /\ top.i <= Len(top.entries) /\ c = top.entries[top.i]
      BY <1>2 DEF Now, Here
    <3>. QED  BY <2>3, <3>1, <3>2, <3>3 DEF Later
  <2>. QED  BY <2>1, <2>2, <2>3, <2>4, <2>5 DEF Coming
<1>3. Coming \subseteq Paths
  BY DEF Coming, After, Now
<1>. QED  BY <1>1, <1>2, <1>3

\* The path at which traverse() is: it is asked for, it is an entry of the
\* directory that was opened last, and all that is left may follow it.
LEMMA AtPath ==
  ASSUME Typed, Branch, Arranged, Here
  PROVE  /\ Asked(path)
         /\ path # <<>> => depth \in 1 .. depth /\ Parent(path) = stack[depth].dir
         /\ \A c \in After(stack) : Follows(path, c)
<1>1. /\ stack \in Seq(Frame) /\ path \in Paths /\ Len(path) = depth /\ depth \in Nat
      /\ depth = Len(stack) /\ Len(path) \in Nat
  BY PathType DEF Typed, Branch, depth
<1>2. ASSUME NEW l \in 1 .. depth
      PROVE  \E e \in Paths : /\ stack[l].i \in 1 .. Len(stack[l].entries)
                              /\ e = stack[l].entries[stack[l].i] /\ e # <<>>
                              /\ Parent(e) = stack[l].dir /\ Wanted(e) /\ IsPrefix(e, path)
                              /\ Len(e) = l
  <2>1. stack[l].i \in 1 .. Len(stack[l].entries)
    BY <1>1, FrameType DEF Branch, Leads
  <2>2. PICK e \in Paths : e = stack[l].entries[stack[l].i]
    BY <1>1, <2>1, FrameType
  <2>3. /\ e # <<>> /\ Parent(e) = stack[l].dir /\ Wanted(e) /\ IsPrefix(e, path)
        /\ Len(stack[l].dir) + 1 = l
    BY <1>1, <2>1, <2>2 DEF Branch, Leads, Levels
  <2>4. Len(e) = l
    BY <2>3, ParentIs
  <2>. QED  BY <2>1, <2>2, <2>3, <2>4
<1>3. Asked(path)
  <2>1. ASSUME NEW n \in DOMAIN path PROVE opt.show_all \/ path[n] \notin Hidden
    <3>1. n \in 1 .. depth
      BY <1>1, PathType
    <3>2. PICK e \in Paths : e # <<>> /\ Wanted(e) /\ IsPrefix(e, path) /\ Len(e) = n
      BY <1>2, <3>1
    <3>3. Name(e) = path[n]
      <4>1. Name(e) = e[n] /\ n \in 1 .. Len(e)
        BY <1>1, <3>1, <3>2, ParentIs
      <4>2. e[n] = path[n]
        BY <1>1, <3>2, <4>1, PrefixIs
      <4>. QED  BY <4>1, <4>2
    <3>. QED  BY <3>2, <3>3 DEF Wanted
  <2>. QED  BY <1>1, <2>1 DEF Asked, Branch
<1>4. ASSUME path # <<>> PROVE depth \in 1 .. depth /\ Parent(path) = stack[depth].dir
  <2>1. depth \in 1 .. depth
    BY <1>1, <1>4, PathType
  <2>2. PICK e \in Paths : /\ e # <<>> /\ Parent(e) = stack[depth].dir
                           /\ IsPrefix(e, path) /\ Len(e) = depth
    BY <1>2, <2>1
  <2>3. e = path
    BY <1>1, <2>2, PrefixOrder
  <2>. QED  BY <2>1, <2>2, <2>3
<1>5. ASSUME NEW c \in After(stack) PROVE Follows(path, c)
  <2>1. PICK l \in 1 .. depth : \E k \in 1 .. Len(stack[l].entries) :
          stack[l].i < k /\ c = stack[l].entries[k]
    BY <1>1 DEF After
  <2>2. PICK k \in 1 .. Len(stack[l].entries) : stack[l].i < k /\ c = stack[l].entries[k]
    BY <2>1
  <2>3. PICK e \in Paths : /\ stack[l].i \in 1 .. Len(stack[l].entries)
                           /\ e = stack[l].entries[stack[l].i] /\ e # <<>>
                           /\ Parent(e) = stack[l].dir /\ IsPrefix(e, path)
    BY <1>2
  <2>4. c \in Paths /\ c # <<>> /\ Parent(c) = stack[l].dir
    BY <1>1, <2>2 DEF Branch, Levels, After
  <2>5. Name(e) < Name(c) \/ (c \in touched /\ IsPrefix(c, path))
    BY <1>1, <2>2, <2>3 DEF Arranged, Ascending, Here
  <2>. QED  BY <1>1, <2>3, <2>4, <2>5, BeforeSibling DEF Follows
<1>. QED  BY <1>3, <1>4, <1>5
-----------------------------------------------------------------------------
(* What the actions have in common.                                         *)

\* The listing after a line for the path.
LEMMA AfterPrint ==
  ASSUME Typed, Branch, Arranged, InOrder, Rooted, OnlyAsked, Here, UNCHANGED opt,
         NEW err \in {"none", "lstat", "opendir"}, NEW target \in BOOLEAN,
         Prints(Line(err, target))
  PROVE  /\ out' \in Seq(Lines) /\ Listed' = Listed \cup {path}
         /\ OnlyAsked'
         /\ \A j \in 2 .. Len(out') : Follows(out'[j - 1].path, out'[j].path)
         /\ out' # <<>> /\ out'[Len(out')].path = path
         /\ \A c \in After(stack) : Follows(path, c)
         /\ \A j \in 1 .. Len(out') : out'[j].path # <<>> =>
              \E k \in 1 .. Len(out') : /\ k < j /\ out'[k].err = "none"
                                        /\ out'[k].path = Parent(out'[j].path)
         /\ \A l \in 1 .. depth :
              \E k \in 1 .. Len(out') : out'[k].path = stack[l].dir /\ out'[k].err = "none"
         /\ \E k \in 1 .. Len(out') : out'[k].path = path /\ out'[k].err = err
<1>. DEFINE line == Line(err, target)
<1>1. PICK n \in Nat : n = Len(out)
  BY DEF Typed
<1>2. line \in Lines /\ line.path = path /\ line.err = err
  BY DEF Line, Lines, Typed
<1>3. out' = Append(out, line) /\ out \in Seq(Lines)
  BY DEF Prints, Typed
<1>. HIDE DEF line
<1>4. /\ out' \in Seq(Lines) /\ Len(out') = n + 1 /\ out'[n + 1] = line
      /\ \A j \in 1 .. n : out'[j] = out[j] /\ out[j] \in Lines
      /\ n + 1 \in 1 .. n + 1
      /\ \A j \in 1 .. n + 1 : j # n + 1 => j \in 1 .. n
      /\ 1 .. n \subseteq 1 .. n + 1
  BY <1>1, <1>2, <1>3
<1>5. /\ path \in Coming /\ After(stack) \subseteq Coming
      /\ depth \in Nat /\ path \in Paths /\ depth = Len(stack)
  BY ComingIs DEF Typed, depth
<1>6. /\ \A j \in 2 .. n : Follows(out[j - 1].path, out[j].path)
      /\ n # 0 => Follows(out[n].path, path)
      /\ \A c \in After(stack) : Follows(path, c)
  <2>1. n # 0 => out # <<>>
    BY <1>1, <1>3
  <2>. QED  BY <1>1, <1>5, <2>1, AtPath DEF InOrder, LastLine
<1>7. Listed' = Listed \cup {path}
  <2>1. Listed = {out[j].path : j \in 1 .. n}
    BY <1>1, <1>3 DEF Listed
  <2>2. Listed' = {out'[j].path : j \in 1 .. n + 1}
    BY <1>4 DEF Listed
  <2>3. \A j \in 1 .. n + 1 : out'[j].path = IF j = n + 1 THEN path ELSE out[j].path
    BY <1>2, <1>4
  <2>. QED  BY <1>4, <2>1, <2>2, <2>3
<1>8. OnlyAsked'
  <2>1. \A p : Asked(p)' <=> Asked(p)
    BY DEF Asked
  <2>2. ASSUME NEW j \in 1 .. n + 1 PROVE Asked(out'[j].path)
    BY <1>1, <1>2, <1>4, AtPath DEF OnlyAsked
  <2>3. ASSUME NEW j \in 1 .. n + 1 PROVE Asked(out[j].path)'
    BY <2>2 DEF Asked
  <2>. QED  BY <1>4, <2>3 DEF OnlyAsked
<1>9. ASSUME NEW j \in 2 .. n + 1 PROVE Follows(out'[j - 1].path, out'[j].path)
  <2>1. CASE j = n + 1
    <3>1. j - 1 = n /\ n \in 1 .. n /\ n # 0
      BY <2>1
    <3>. QED  BY <1>2, <1>4, <1>6, <2>1, <3>1
  <2>2. CASE j # n + 1
    <3>1. j \in 2 .. n /\ j \in 1 .. n /\ j - 1 \in 1 .. n
      BY <2>2
    <3>. QED  BY <1>4, <1>6, <3>1
  <2>. QED  BY <2>1, <2>2
<1>10. \A l \in 1 .. depth :
         \E k \in 1 .. n : out[k].path = stack[l].dir /\ out[k].err = "none"
  BY <1>1 DEF Rooted
<1>11. ASSUME NEW j \in 1 .. n + 1
       PROVE  out'[j].path # <<>> =>
                \E k \in 1 .. n + 1 : /\ k < j /\ out'[k].err = "none"
                                      /\ out'[k].path = Parent(out'[j].path)
  <2>2. ASSUME j \in 1 .. n, out'[j].path # <<>>
        PROVE  \E k \in 1 .. n + 1 : /\ k < j /\ out'[k].err = "none"
                                     /\ out'[k].path = Parent(out'[j].path)
    <3>1. PICK k \in 1 .. n : /\ k < j /\ out[k].path = Parent(out[j].path)
                              /\ out[k].err = "none"
      BY <1>1, <1>4, <2>2 DEF Rooted
    <3>. QED  BY <1>4, <2>2, <3>1
  <2>3. ASSUME j = n + 1, path # <<>>
        PROVE  \E k \in 1 .. n + 1 : /\ k < j /\ out'[k].err = "none"
                                     /\ out'[k].path = Parent(out'[j].path)
    <3>1. depth \in 1 .. depth /\ Parent(path) = stack[depth].dir
      BY <2>3, AtPath
    <3>2. PICK k \in 1 .. n : out[k].path = Parent(path) /\ out[k].err = "none"
      BY <1>10, <3>1
    <3>3. k < n + 1 /\ k \in 1 .. n + 1 /\ out'[k] = out[k] /\ out'[j].path = path
      BY <1>2, <1>4, <2>3
    <3>. QED  BY <2>3, <3>2, <3>3
  <2>. QED  BY <1>2, <1>4, <2>2, <2>3
<1>12. ASSUME NEW l \in 1 .. depth
       PROVE  \E k \in 1 .. n + 1 : out'[k].path = stack[l].dir /\ out'[k].err = "none"
  BY <1>4, <1>10
<1>13. out'[n + 1].path = path /\ out'[n + 1].err = err /\ out' # <<>>
  BY <1>2, <1>4
<1>. QED  BY <1>4, <1>6, <1>7, <1>8, <1>9, <1>11, <1>12, <1>13

\* Nothing is forgotten if what was awaited is listed, missed or still awaited.
LEMMA Remains ==
  ASSUME NothingForgotten, UNCHANGED opt, UNCHANGED <<fs, touched>>,
         lost \subseteq lost', cut \subseteq cut', Listed \subseteq Listed',
         \A p \in Paths : Asked(p) /\ Reached(p) /\ Untouched(p) /\ Awaited(p)
                            => p \in Listed' \/ Missed(p)' \/ Awaited(p)'
  PROVE  NothingForgotten'
<1>1. SUFFICES ASSUME NEW p \in Paths, Asked(p)', Reached(p)', Untouched(p)'
               PROVE  p \in Listed' \/ Missed(p)' \/ Awaited(p)'
  BY DEF NothingForgotten
<1>2. Asked(p) /\ Reached(p) /\ Untouched(p)
  BY <1>1 DEF Asked, Untouched, Reached, IsDir
<1>3. Missed(p) => Missed(p)'
  BY DEF Missed
<1>. QED  BY <1>2, <1>3 DEF NothingForgotten

\* The parts of the invariant that say nothing of the loops.
LEMMA NoChange ==
  ASSUME UNCHANGED <<opt, fs, touched>>
  PROVE  /\ FileTree => FileTree'
         /\ \A p : Untouched(p)' <=> Untouched(p)
         /\ \A p : Asked(p)' <=> Asked(p)
BY DEF FileTree, Untouched, Asked
\* What keeps the stack in order after a return to s, a stack that is all of the
\* current one or all but its top.
LEMMA ReturnKeeps ==
  ASSUME Typed, Branch, Arranged, NEW code \in {0, 1},
         NEW s \in Seq(Frame), Return(code, s), UNCHANGED <<opt, path, fs, touched, fresh>>,
         out' \in Seq(Lines), pc # "done",
         \/ s = stack /\ pc # "readdir"
         \/ s = Front(stack) /\ stack # <<>>
  PROVE  Typed' /\ Branch' /\ Arranged'
<1>1. /\ stack' \in Seq(Frame) /\ Len(stack') = Len(s)
      /\ \A l \in 1 .. Len(s) : stack'[l].entries = s[l].entries
      /\ s = <<>> => rc' = code
      /\ s # <<>> => rc' = rc
  BY ReturnIs
<1>2. /\ Levels(s) => Levels(stack)'
      /\ Nested(s) => Nested(stack)'
      /\ ~Here' /\ pc' \in {"next", "done"}
      /\ (pc' = "done") <=> (stack' = <<>>)
  BY ReturnTo
<1>3. /\ Len(s) <= depth /\ Len(s) \in Nat /\ depth \in Nat /\ depth = Len(stack)
      /\ \A l \in 1 .. Len(s) : s[l] = stack[l] /\ l \in 1 .. depth
      /\ \A l \in 1 .. Len(s) : l = depth => pc # "readdir"
  BY TopAndRest DEF depth, Typed
<1>4. Levels(s) /\ Nested(s)
  <2>1. CASE s = stack
    BY <2>1 DEF Branch
  <2>2. CASE s # stack
    <3>1. ASSUME NEW l \in 1 .. Len(s)
          PROVE  /\ Len(s[l].dir) + 1 = l
                 /\ \A k \in 1 .. Len(s[l].entries) :
                      /\ s[l].entries[k] # <<>> /\ Parent(s[l].entries[k]) = s[l].dir
                      /\ Wanted(s[l].entries[k])
      <4>1. l \in 1 .. Len(stack) /\ s[l] = stack[l]
        BY <1>3
      <4>. QED  BY <4>1 DEF Branch, Levels
    <3>2. ASSUME NEW l \in 1 .. Len(s), NEW m \in 1 .. Len(s), l < m
          PROVE  /\ s[l].i <= Len(s[l].entries)
                 /\ IsPrefix(s[l].entries[s[l].i], s[m].dir)
      <4>1. /\ l \in 1 .. Len(stack) /\ s[l] = stack[l]
            /\ m \in 1 .. Len(stack) /\ s[m] = stack[m]
        BY <1>3
      <4>. QED  BY <3>2, <4>1 DEF Branch, Nested
    <3>. QED  BY <3>1, <3>2 DEF Levels, Nested
  <2>. QED  BY <2>1, <2>2
<1>5. Typed'
  BY <1>1, <1>2 DEF Typed
<1>6. Branch'
  <2>1. depth' = Len(s)
    BY <1>1 DEF depth
  <2>2. opt.max_depth >= 0 => Len(s) <= opt.max_depth
    BY <1>3 DEF Branch, Typed
  <2>. QED  BY <1>2, <1>4, <2>1, <2>2 DEF Branch
<1>7. Arranged'
  <2>1. ASSUME NEW l \in 1 .. Len(s) PROVE Ascending(stack'[l].entries)
    <3>1. stack'[l].entries = stack[l].entries
      BY <1>1, <1>3
    <3>. QED  BY <1>3, <3>1 DEF Arranged
  <2>2. touched' = touched /\ depth' = Len(s)
    BY <1>1 DEF depth
  <2>. QED  BY <2>1, <2>2 DEF Arranged, Ascending
<1>. QED  BY <1>5, <1>6, <1>7

\* A path is printed, and traverse() returns.
LEMMA PrintAndReturn ==
  ASSUME Inv, Here, UNCHANGED <<opt, path, cut, world>>,
         NEW err \in {"none", "lstat", "opendir"}, NEW target \in BOOLEAN,
         NEW code \in {0, 1}, Prints(Line(err, target)), Return(code, stack),
         \/ code = 1 /\ lost' = lost \cup {path}
         \/ /\ code = 0 /\ UNCHANGED lost
            /\ ~IsDir(path) \/ path \in touched \/ AtMaxDepth
  PROVE  Inv'
<1>1. /\ Typed /\ FileTree /\ Branch /\ Arranged /\ InOrder /\ Rooted /\ Failures
      /\ OnlyAsked /\ NothingForgotten
      /\ stack \in Seq(Frame) /\ path \in Paths
      /\ UNCHANGED <<fs, touched, fresh>> /\ pc # "done" /\ pc # "readdir"
  BY DEF Inv, Typed, world, Here
<1>2. /\ out' \in Seq(Lines) /\ Listed' = Listed \cup {path} /\ OnlyAsked'
      /\ \A j \in 2 .. Len(out') : Follows(out'[j - 1].path, out'[j].path)
      /\ out' # <<>> /\ out'[Len(out')].path = path
      /\ \A c \in After(stack) : Follows(path, c)
      /\ \A j \in 1 .. Len(out') : out'[j].path # <<>> =>
           \E k \in 1 .. Len(out') : /\ k < j /\ out'[k].err = "none"
                                     /\ out'[k].path = Parent(out'[j].path)
      /\ \A l \in 1 .. depth :
           \E k \in 1 .. Len(out') : out'[k].path = stack[l].dir /\ out'[k].err = "none"
  BY <1>1, AfterPrint
<1>3. Typed' /\ Branch' /\ Arranged'
  BY <1>1, <1>2, ReturnKeeps
<1>4. /\ Coming' = After(stack) /\ ~Here' /\ pc' \in {"next", "done"}
      /\ pc' = "next" => rc' = rc /\ (Known(stack)' <=> Known(stack) \/ code = 1)
      /\ pc' = "done" => (rc' = 1 <=> Known(stack) \/ code = 1)
  BY <1>1, ReturnTo
<1>5. InOrder'
  BY <1>1, <1>2, <1>4 DEF InOrder, LastLine, Follows
<1>6. Rooted'
  <2>1. depth' = depth /\ \A l \in 1 .. depth : stack'[l].dir = stack[l].dir
    BY <1>1, ReturnIs DEF depth
  <2>. QED  BY <1>2, <2>1 DEF Rooted
<1>7. Failures'
  BY <1>1, <1>4 DEF Failures
<1>8. NothingForgotten'
  <2>1. ASSUME NEW p \in Paths, Asked(p), Reached(p), Untouched(p), Awaited(p)
        PROVE  p \in Listed' \/ Missed(p)' \/ Awaited(p)'
    <3>1. PICK c \in Coming : IsPrefix(c, p)
      BY <1>1, <2>1 DEF Awaited
    <3>2. CASE c \in After(stack)
      BY <1>4, <3>1, <3>2 DEF Awaited
    <3>3. CASE c = path /\ code = 1
      BY <3>1, <3>3 DEF Missed
    <3>4. CASE c = path /\ code = 0
      <4>1. CASE p = path
        BY <1>2, <4>1
      <4>2. CASE p # path
        <5>1. IsDir(path)
          BY <1>1, <2>1, <3>1, <3>4, <4>2 DEF Reached, IsStrictPrefix
        <5>2. path \notin touched
          BY <2>1, <3>1, <3>4 DEF Untouched
        <5>3. AtMaxDepth
          BY <3>4, <5>1, <5>2
        <5>4. Len(path) < Len(p) /\ Len(path) = depth /\ Len(path) \in Nat /\ Len(p) \in Nat
          BY <1>1, <3>1, <3>4, <4>2, PrefixOrder, PathType DEF IsStrictPrefix, Branch
        <5>. QED  BY <1>1, <2>1, <5>3, <5>4 DEF AtMaxDepth, Asked, Typed
      <4>. QED  BY <4>1, <4>2
    <3>. QED  BY <1>1, <3>1, <3>2, <3>3, <3>4, ComingIs
  <2>2. lost \subseteq lost' /\ cut \subseteq cut' /\ Listed \subseteq Listed'
    BY <1>2
  <2>. QED  BY <1>1, <2>1, <2>2, Remains
<1>9. FileTree'
  BY <1>1, NoChange
<1>. QED  BY <1>2, <1>3, <1>5, <1>6, <1>7, <1>8, <1>9 DEF Inv

\* The loop over the entries is left, or the directory is given up.
LEMMA LeaveDirectory ==
  ASSUME Inv, UNCHANGED <<opt, path, out, cut, world>>,
         NEW code \in {0, 1}, Return(code, Front(stack)),
         \/ /\ pc = "readdir" /\ code = 1 /\ lost' = lost \cup {path}
         \/ /\ pc = "next" /\ top.i > Len(top.entries) /\ code = top.rc /\ UNCHANGED lost
  PROVE  Inv'
<1>1. /\ Typed /\ FileTree /\ Branch /\ Arranged /\ InOrder /\ Rooted /\ Failures
      /\ OnlyAsked /\ NothingForgotten
      /\ stack \in Seq(Frame) /\ path \in Paths /\ out' \in Seq(Lines)
      /\ UNCHANGED <<fs, touched, fresh>> /\ pc # "done" /\ stack # <<>>
      /\ pc \in {"readdir", "next"} /\ ~Here
  BY DEF Inv, Typed, world, Here
<1>2. /\ depth \in Nat /\ depth \in 1 .. depth /\ top = stack[depth] /\ depth = Len(stack)
      /\ top.dir \in Paths /\ top.i \in Nat /\ top.i # 0 /\ top.rc \in {0, 1}
      /\ Len(top.entries) \in Nat
      /\ Coming = After(Front(stack)) \cup Later(top, top.i)
  BY <1>1, ComingIs
<1>3. /\ Front(stack) \in Seq(Frame) /\ Len(Front(stack)) \in Nat
      /\ Len(Front(stack)) + 1 = Len(stack)
      /\ \A l \in 1 .. Len(Front(stack)) : /\ Front(stack)[l] = stack[l]
                                           /\ l \in 1 .. Len(stack) /\ l # Len(stack)
      /\ \A l \in 1 .. Len(stack) : l # Len(stack) => l \in 1 .. Len(Front(stack))
  BY <1>1, TopAndRest
<1>4. Typed' /\ Branch' /\ Arranged'
  BY <1>1, <1>3, ReturnKeeps
<1>5. /\ Coming' = After(Front(stack)) /\ ~Here' /\ pc' \in {"next", "done"}
      /\ pc' = "next" => rc' = rc /\ (Known(stack)' <=> Known(Front(stack)) \/ code = 1)
      /\ pc' = "done" => (rc' = 1 <=> Known(Front(stack)) \/ code = 1)
  BY <1>1, <1>3, ReturnTo
<1>6. InOrder'
  BY <1>1, <1>2, <1>5 DEF InOrder, LastLine, Follows
<1>7. Rooted'
  <2>1. /\ depth' = Len(Front(stack))
        /\ \A l \in 1 .. Len(Front(stack)) : stack'[l].dir = Front(stack)[l].dir
    BY <1>3, ReturnIs DEF depth
  <2>2. \A l \in 1 .. Len(Front(stack)) :
          \E k \in 1 .. Len(out) : out[k].path = stack'[l].dir /\ out[k].err = "none"
    BY <1>1, <1>2, <1>3, <2>1 DEF Rooted
  <2>. QED  BY <1>1, <2>1, <2>2 DEF Rooted
<1>8. Failures'
  <2>1. Known(stack) <=> Known(Front(stack)) \/ top.rc = 1
    BY <1>2, <1>3 DEF Known
  <2>. QED  BY <1>1, <1>2, <1>5, <2>1 DEF Failures
<1>9. NothingForgotten'
  <2>1. ASSUME NEW p \in Paths, Asked(p), Reached(p), Untouched(p), Awaited(p)
        PROVE  p \in Listed' \/ Missed(p)' \/ Awaited(p)'
    <3>1. CASE \E c \in After(Front(stack)) : IsPrefix(c, p)
      BY <1>5, <3>1 DEF Awaited
    <3>2. CASE pc = "readdir" /\ IsPrefix(path, p)
      BY <3>2, <1>1 DEF Missed
    <3>3. CASE \E c \in Later(top, top.i) : IsPrefix(c, p)
      <4>1. PICK k \in 1 .. Len(top.entries) :
              /\ top.i <= k /\ top.entries[k] \in Paths /\ IsPrefix(top.entries[k], p)
        BY <3>3 DEF Later
      <4>2. pc = "readdir"
        BY <1>1, <1>2, <4>1
      <4>3. top.entries[k] # <<>> /\ Parent(top.entries[k]) = path
        BY <1>1, <1>2, <4>2 DEF Branch, Levels
      <4>4. IsPrefix(path, p)
        BY <1>1, <4>1, <4>3, ParentPrefix, PrefixOrder
      <4>. QED  BY <3>2, <4>2, <4>4
    <3>. QED  BY <1>2, <2>1, <3>1, <3>2, <3>3 DEF Awaited, IsStrictPrefix
  <2>2. lost \subseteq lost' /\ cut \subseteq cut' /\ Listed \subseteq Listed'
    BY DEF Listed
  <2>. QED  BY <1>1, <2>1, <2>2, Remains
<1>10. FileTree' /\ OnlyAsked'
  <2>1. OnlyAsked'
    BY <1>1 DEF OnlyAsked, Asked
  <2>. QED  BY <1>1, <2>1, NoChange
<1>. QED  BY <1>4, <1>6, <1>7, <1>8, <1>9, <1>10 DEF Inv
-----------------------------------------------------------------------------
(* The other steps of traverse().                                           *)

\* A path is looked at again.
LEMMA LookAgain ==
  ASSUME Inv, Here, UNCHANGED <<opt, stack, path, rc, out, failures, lost, cut, world>>,
         \/ pc' = "opendir" /\ ~AtMaxDepth
         \/ pc' = "readlink" /\ fs[path] \in Links
  PROVE  Inv'
<1>1. /\ Typed /\ FileTree /\ Branch /\ Arranged /\ InOrder /\ Rooted /\ Failures
      /\ OnlyAsked /\ NothingForgotten /\ UNCHANGED <<fs, touched, fresh>>
      /\ Here' /\ pc # "readdir" /\ pc # "done"
  BY DEF Inv, world, Here
<1>2. Typed'
  BY <1>1 DEF Typed
<1>3. Branch'
  <2>1. Levels(stack)' /\ Nested(stack)'
    BY <1>1 DEF Branch, Levels, Nested, Wanted
  <2>2. Len(path') = depth' /\ Leads(stack, path)'
    BY <1>1 DEF Branch, Leads, depth
  <2>3. (opt.max_depth >= 0 => depth <= opt.max_depth)'
    BY <1>1 DEF Branch, depth
  <2>4. (pc = "opendir" => ~AtMaxDepth)'
    BY DEF AtMaxDepth, depth
  <2>5. (pc = "readlink" => path \in touched \/ fs[path] \in Links)' /\ pc' # "readdir"
    BY <1>1
  <2>. QED  BY <2>1, <2>2, <2>3, <2>4, <2>5 DEF Branch
<1>4. Coming' = Coming
  <2>1. Now = {path} /\ Now' = {path}
    BY <1>1 DEF Now, Here, Typed
  <2>2. After(stack)' = After(stack)
    BY DEF After
  <2>. QED  BY <2>1, <2>2 DEF Coming
<1>5. Arranged'
  BY <1>1 DEF Arranged, Ascending, Distinct, depth
<1>6. InOrder'
  BY <1>1, <1>4 DEF InOrder, LastLine, Follows, Here
<1>7. Rooted' /\ Failures' /\ OnlyAsked' /\ FileTree'
  <2>1. Rooted'
    BY <1>1 DEF Rooted, depth
  <2>2. Failures'
    BY <1>1 DEF Failures, Known, Here
  <2>3. OnlyAsked'
    BY <1>1 DEF OnlyAsked, Asked
  <2>. QED  BY <1>1, <2>1, <2>2, <2>3, NoChange
<1>8. NothingForgotten'
  <2>1. ASSUME NEW p \in Paths, Awaited(p) PROVE Awaited(p)'
    BY <1>1, <1>4, <2>1 DEF Awaited
  <2>2. lost \subseteq lost' /\ cut \subseteq cut' /\ Listed \subseteq Listed'
    BY DEF Listed
  <2>. QED  BY <1>1, <2>1, <2>2, Remains
<1>. QED  BY <1>2, <1>3, <1>5, <1>6, <1>7, <1>8 DEF Inv

\* A directory is printed and opened.
LEMMA OpenDirectory ==
  ASSUME Inv, pc = "opendir", Prints(Line("none", FALSE)),
         UNCHANGED <<opt, path, rc, lost, cut, fs, changes, touched>>,
         pc' = "readdir", fresh' = {},
         stack' = Append(stack, [dir |-> path, entries |-> <<>>, i |-> 1, rc |-> 0])
  PROVE  Inv'
<1>. DEFINE f == [dir |-> path, entries |-> <<>>, i |-> 1, rc |-> 0]
<1>1. /\ Typed /\ FileTree /\ Branch /\ Arranged /\ InOrder /\ Rooted /\ Failures
      /\ OnlyAsked /\ NothingForgotten /\ Here /\ ~Here'
      /\ stack \in Seq(Frame) /\ path \in Paths
  BY DEF Inv, Here, Typed
<1>2. /\ out' \in Seq(Lines) /\ Listed' = Listed \cup {path} /\ OnlyAsked'
      /\ \A j \in 2 .. Len(out') : Follows(out'[j - 1].path, out'[j].path)
      /\ out' # <<>> /\ out'[Len(out')].path = path
      /\ \A c \in After(stack) : Follows(path, c)
      /\ \A j \in 1 .. Len(out') : out'[j].path # <<>> =>
           \E k \in 1 .. Len(out') : /\ k < j /\ out'[k].err = "none"
                                     /\ out'[k].path = Parent(out'[j].path)
      /\ \A l \in 1 .. depth :
           \E k \in 1 .. Len(out') : out'[k].path = stack[l].dir /\ out'[k].err = "none"
      /\ \E k \in 1 .. Len(out') : out'[k].path = path /\ out'[k].err = "none"
  BY <1>1, AfterPrint
<1>3. f \in Frame /\ f.dir = path /\ f.entries = <<>> /\ f.i = 1 /\ f.rc = 0
  BY <1>1 DEF Frame
<1>. HIDE DEF f
<1>4. PICK n \in Nat : n = Len(stack)
  BY <1>1
<1>5. stack' = Append(stack, f)
  BY DEF f
<1>6. /\ stack' \in Seq(Frame) /\ Len(stack') = n + 1 /\ stack'[n + 1] = f
      /\ \A l \in 1 .. n : stack'[l] = stack[l] /\ l \in 1 .. n + 1
      /\ \A l \in 1 .. n + 1 : l # n + 1 => l \in 1 .. n
      /\ n + 1 \in 1 .. n + 1 /\ depth = n /\ depth' = n + 1 /\ top' = f
  BY <1>1, <1>3, <1>4, <1>5 DEF depth, top
<1>7. Typed'
  <2>1. stack' # <<>>
    BY <1>6
  <2>. QED  BY <1>1, <1>2, <1>6, <2>1 DEF Typed
<1>8. Branch'
  <2>1. ~AtMaxDepth /\ Len(path) = n /\ Levels(stack) /\ Nested(stack) /\ Leads(stack, path)
    BY <1>1, <1>6 DEF Branch
  <2>2. Levels(stack)'
    <3>1. SUFFICES ASSUME NEW l \in 1 .. n + 1
                   PROVE  /\ Len(stack'[l].dir) + 1 = l
                          /\ \A k \in 1 .. Len(stack'[l].entries) :
                               /\ stack'[l].entries[k] # <<>>
                               /\ Parent(stack'[l].entries[k]) = stack'[l].dir
                               /\ Wanted(stack'[l].entries[k])
      BY <1>6 DEF Levels, Wanted
    <3>2. CASE l = n + 1
      BY <1>3, <1>6, <2>1, <3>2
    <3>3. CASE l # n + 1
      BY <1>4, <1>6, <2>1, <3>3 DEF Levels
    <3>. QED  BY <3>2, <3>3
  <2>3. Nested(stack)'
    <3>1. SUFFICES ASSUME NEW l \in 1 .. n + 1, NEW m \in 1 .. n + 1, l < m
                   PROVE  /\ stack'[l].i <= Len(stack'[l].entries)
                          /\ IsPrefix(stack'[l].entries[stack'[l].i], stack'[m].dir)
      BY <1>6 DEF Nested
    <3>2. l \in 1 .. n /\ stack'[l] = stack[l]
      BY <1>6, <3>1
    <3>3. CASE m = n + 1
      BY <1>3, <1>4, <1>6, <2>1, <3>2, <3>3 DEF Leads
    <3>4. CASE m # n + 1
      BY <1>4, <1>6, <2>1, <3>1, <3>2, <3>4 DEF Nested
    <3>. QED  BY <3>3, <3>4
  <2>4. (opt.max_depth >= 0 => depth <= opt.max_depth)'
    <3>1. opt'.max_depth = opt.max_depth /\ opt.max_depth \in Int
      BY <1>1 DEF Typed
    <3>. QED  BY <1>6, <2>1, <3>1 DEF AtMaxDepth
  <2>. QED  BY <1>1, <1>3, <1>6, <2>2, <2>3, <2>4 DEF Branch
<1>9. Arranged'
  <2>1. SUFFICES ASSUME NEW l \in 1 .. n + 1 PROVE Ascending(stack'[l].entries)
    BY <1>6 DEF Arranged, Ascending
  <2>2. CASE l = n + 1
    BY <1>3, <1>6, <2>2 DEF Ascending
  <2>3. CASE l # n + 1
    BY <1>1, <1>6, <2>3 DEF Arranged
  <2>. QED  BY <2>2, <2>3
<1>10. Coming' = After(stack)
  <2>1. Front(stack') = stack
    <3>1. /\ Front(stack') \in Seq(Frame) /\ Len(Front(stack')) + 1 = n + 1
          /\ Len(Front(stack')) \in Nat
          /\ \A l \in 1 .. Len(Front(stack')) : Front(stack')[l] = stack'[l]
      <4>1. stack' # <<>>
        BY <1>6
      <4>. QED  BY <1>6, <4>1, TopAndRest
    <3>2. Len(Front(stack')) = n
      BY <3>1
    <3>. QED  BY <1>1, <1>4, <1>6, <3>1, <3>2, SeqEqual
  <2>2. Later(f, 1) = {}
    BY <1>3 DEF Later
  <2>3. Coming' = After(Front(stack')) \cup Later(top', top'.i)
    <3>1. (pc \in {"readdir", "next"} => Coming = After(Front(stack)) \cup Later(top, top.i))'
      BY <1>7, ComingIs, PTL
    <3>2. (After(Front(stack)))' = After(Front(stack'))
      BY DEF After
    <3>3. (Later(top, top.i))' = Later(top', top'.i)
      BY DEF Later
    <3>. QED  BY <3>1, <3>2, <3>3
  <2>. QED  BY <1>3, <1>6, <2>1, <2>2, <2>3
<1>11. InOrder'
  BY <1>2, <1>10 DEF InOrder, LastLine, Follows
<1>12. Rooted'
  <2>1. ASSUME NEW l \in 1 .. n + 1
        PROVE  \E k \in 1 .. Len(out') : out'[k].path = stack'[l].dir /\ out'[k].err = "none"
    <3>1. CASE l = n + 1
      <4>1. stack'[l].dir = path
        BY <1>3, <1>6, <3>1
      <4>. QED  BY <1>2, <4>1
    <3>2. CASE l # n + 1
      <4>1. l \in 1 .. depth /\ stack'[l] = stack[l]
        BY <1>6, <3>2
      <4>. QED  BY <1>2, <4>1
    <3>. QED  BY <3>1, <3>2
  <2>. QED  BY <1>2, <1>6, <2>1 DEF Rooted
<1>13. Failures'
  <2>1. Known(stack)' <=> Known(stack)
    <3>1. Known(stack)' <=> \E l \in 1 .. n + 1 : stack'[l].rc = 1
      BY <1>6 DEF Known
    <3>2. Known(stack) <=> \E l \in 1 .. n : stack[l].rc = 1
      BY <1>4 DEF Known
    <3>3. stack'[n + 1].rc # 1
      BY <1>3, <1>6
    <3>. QED  BY <1>6, <3>1, <3>2, <3>3
  <2>. QED  BY <1>1, <2>1 DEF Failures, Here
<1>14. NothingForgotten'
  <2>1. ASSUME NEW p \in Paths, Awaited(p) PROVE p \in Listed' \/ Missed(p)' \/ Awaited(p)'
    <3>1. PICK c \in Coming : IsPrefix(c, p)
      BY <1>1, <2>1 DEF Awaited, Here
    <3>2. CASE c \in After(stack)
      BY <1>10, <3>1, <3>2 DEF Awaited
    <3>3. CASE c = path
      BY <1>2, <3>1, <3>3 DEF Awaited, IsStrictPrefix
    <3>. QED  BY <1>1, <3>1, <3>2, <3>3, ComingIs
  <2>2. lost \subseteq lost' /\ cut \subseteq cut' /\ Listed \subseteq Listed'
    BY <1>2
  <2>. QED  BY <1>1, <2>1, <2>2, Remains
<1>15. FileTree'
  BY <1>1, NoChange
<1>. QED  BY <1>2, <1>7, <1>8, <1>9, <1>11, <1>12, <1>13, <1>14, <1>15 DEF Inv
\* The entries of the directory that is open are others.
LEMMA NewEntries ==
  ASSUME Typed, pc = "readdir", NEW e \in Seq(Paths),
         stack' = [stack EXCEPT ![depth].entries = e]
  PROVE  /\ stack' \in Seq(Frame) /\ Len(stack') = Len(stack) /\ depth' = depth
         /\ \A l \in 1 .. depth : l # depth => stack'[l] = stack[l]
         /\ top' = stack'[depth] /\ top'.dir = top.dir /\ top'.entries = e
         /\ top'.i = top.i /\ top'.rc = top.rc
         /\ \A l \in 1 .. depth : /\ stack'[l].dir = stack[l].dir
                                  /\ stack'[l].i = stack[l].i
                                  /\ stack'[l].rc = stack[l].rc
         /\ Front(stack') = Front(stack)
<1>. DEFINE f == [top EXCEPT !.entries = e]
<1>1. /\ depth \in Nat /\ depth \in 1 .. depth /\ top = stack[depth] /\ depth = Len(stack)
      /\ top \in Frame /\ stack # <<>> /\ stack \in Seq(Frame)
      /\ top.dir \in Paths /\ top.i \in Nat /\ top.i # 0 /\ top.rc \in {0, 1}
  BY ComingIs DEF Typed
<1>2. /\ f \in Frame /\ f.dir = top.dir /\ f.entries = e /\ f.i = top.i /\ f.rc = top.rc
  <2>1. PICK a \in Frame : a = top
    BY <1>1
  <2>2. f = [a EXCEPT !.entries = e]
    BY <2>1
  <2>. HIDE DEF f
  <2>3. f \in Frame /\ f.dir = a.dir /\ f.entries = e /\ f.i = a.i /\ f.rc = a.rc
    BY <2>2 DEF Frame
  <2>. QED  BY <2>1, <2>3
<1>3. stack' = [stack EXCEPT ![depth] = f]
  BY <1>1
<1>. HIDE DEF f
<1>4. /\ stack' \in Seq(Frame) /\ Len(stack') = Len(stack)
      /\ \A l \in 1 .. Len(stack) : stack'[l] = IF l = depth THEN f ELSE stack[l]
  <2>1. PICK n \in 1 .. Len(stack) : n = depth
    BY <1>1
  <2>2. stack' = [stack EXCEPT ![n] = f]
    BY <1>3, <2>1
  <2>3. /\ [stack EXCEPT ![n] = f] \in Seq(Frame)
        /\ Len([stack EXCEPT ![n] = f]) = Len(stack)
        /\ \A l \in 1 .. Len(stack) :
             [stack EXCEPT ![n] = f][l] = IF l = n THEN f ELSE stack[l]
    BY <1>1, <1>2, ExceptSeq
  <2>. QED  BY <2>1, <2>2, <2>3
<1>5. depth' = depth /\ top' = stack'[depth] /\ top' = f
  BY <1>1, <1>4 DEF depth, top
<1>6. Front(stack') = Front(stack)
  <2>1. /\ Front(stack') \in Seq(Frame) /\ Len(Front(stack')) + 1 = Len(stack)
        /\ Len(Front(stack')) \in Nat /\ Len(Front(stack)) \in Nat
        /\ Front(stack) \in Seq(Frame) /\ Len(Front(stack)) + 1 = Len(stack)
        /\ \A l \in 1 .. Len(Front(stack')) : Front(stack')[l] = stack'[l]
        /\ \A l \in 1 .. Len(Front(stack)) : /\ Front(stack)[l] = stack[l]
                                             /\ l \in 1 .. depth /\ l # depth
    <3>1. stack' # <<>>
      BY <1>1, <1>4
    <3>. QED  BY <1>1, <1>4, <3>1, TopAndRest
  <2>2. Len(Front(stack')) = Len(Front(stack))
    BY <2>1
  <2>3. \A l \in 1 .. Len(Front(stack)) : Front(stack')[l] = Front(stack)[l]
    BY <1>1, <1>4, <2>1, <2>2
  <2>. QED  BY <2>1, <2>2, <2>3, SeqEqual
<1>. QED  BY <1>1, <1>2, <1>4, <1>5, <1>6

\* The entries of the directory grow, or are put in order.
LEMMA DirectoryRead ==
  ASSUME Inv, pc = "readdir", UNCHANGED <<opt, path, rc, out, lost, fs, touched>>,
         fresh' \subseteq fresh, NEW e \in Seq(Paths), stack' = [stack EXCEPT ![depth].entries = e],
         \A k \in 1 .. Len(e) : e[k] # <<>> /\ Parent(e[k]) = path /\ Wanted(e[k]),
         \/ pc' = "readdir" /\ Distinct(e)
         \/ pc' = "next" /\ Ascending(e)
  PROVE  /\ Typed' /\ FileTree' /\ Branch' /\ Arranged' /\ InOrder' /\ Rooted' /\ Failures'
         /\ OnlyAsked'
         /\ Coming' = After(Front(stack)) \cup {e[k] : k \in 1 .. Len(e)}
         /\ Coming = After(Front(stack)) \cup {top.entries[k] : k \in 1 .. Len(top.entries)}
<1>1. /\ Typed /\ FileTree /\ Branch /\ Arranged /\ InOrder /\ Rooted /\ Failures
      /\ OnlyAsked /\ ~Here /\ ~Here' /\ stack \in Seq(Frame) /\ path \in Paths
      /\ pc' \in {"readdir", "next"}
  BY DEF Inv, Typed, Here
<1>2. /\ stack # <<>> /\ depth \in Nat /\ depth \in 1 .. depth /\ top = stack[depth]
      /\ depth = Len(stack) /\ top.dir = path /\ top.i = 1 /\ top.rc = 0
      /\ \A k \in 1 .. Len(top.entries) : top.entries[k] \in Paths
      /\ Coming = After(Front(stack)) \cup Later(top, top.i)
  BY <1>1, ComingIs DEF Branch
<1>3. /\ stack' \in Seq(Frame) /\ Len(stack') = Len(stack) /\ depth' = depth
      /\ \A l \in 1 .. depth : l # depth => stack'[l] = stack[l]
      /\ top' = stack'[depth] /\ top'.dir = path /\ top'.entries = e
      /\ top'.i = 1 /\ top'.rc = 0
      /\ \A l \in 1 .. depth : /\ stack'[l].dir = stack[l].dir
                               /\ stack'[l].i = stack[l].i
                               /\ stack'[l].rc = stack[l].rc
      /\ Front(stack') = Front(stack)
  BY <1>1, <1>2, NewEntries
<1>4. Typed'
  <2>1. stack' # <<>>
    BY <1>2, <1>3
  <2>. QED  BY <1>1, <1>3, <2>1 DEF Typed
<1>5. Branch'
  <2>1. Levels(stack)'
    <3>1. SUFFICES ASSUME NEW l \in 1 .. depth
                   PROVE  /\ Len(stack'[l].dir) + 1 = l
                          /\ \A k \in 1 .. Len(stack'[l].entries) :
                               /\ stack'[l].entries[k] # <<>>
                               /\ Parent(stack'[l].entries[k]) = stack'[l].dir
                               /\ Wanted(stack'[l].entries[k])
      BY <1>2, <1>3 DEF Levels, Wanted
    <3>2. Len(stack[l].dir) + 1 = l
      BY <1>1, <1>2 DEF Branch, Levels
    <3>3. CASE l = depth
      BY <1>2, <1>3, <3>2, <3>3
    <3>4. CASE l # depth
      BY <1>1, <1>2, <1>3, <3>4 DEF Branch, Levels
    <3>. QED  BY <3>3, <3>4
  <2>2. Nested(stack)'
    <3>1. SUFFICES ASSUME NEW l \in 1 .. depth, NEW m \in 1 .. depth, l < m
                   PROVE  /\ stack'[l].i <= Len(stack'[l].entries)
                          /\ IsPrefix(stack'[l].entries[stack'[l].i], stack'[m].dir)
      BY <1>2, <1>3 DEF Nested
    <3>2. l # depth
      BY <1>2, <3>1
    <3>. QED  BY <1>1, <1>2, <1>3, <3>1, <3>2 DEF Branch, Nested
  <2>3. (opt.max_depth >= 0 => depth <= opt.max_depth)'
    BY <1>1, <1>3 DEF Branch
  <2>. QED  BY <1>1, <1>3, <2>1, <2>2, <2>3 DEF Branch
<1>6. Arranged'
  <2>1. SUFFICES ASSUME NEW l \in 1 .. depth
                 PROVE  \/ Ascending(stack'[l].entries)
                        \/ l = depth /\ pc' = "readdir" /\ Distinct(stack'[l].entries)
    <3>1. touched' = touched /\ depth' = depth
      BY <1>3
    <3>. QED  BY <3>1 DEF Arranged, Ascending, Distinct
  <2>2. CASE l = depth
    BY <1>3, <2>2
  <2>3. CASE l # depth
    BY <1>1, <1>3, <2>3 DEF Arranged
  <2>. QED  BY <2>2, <2>3
<1>7. /\ Coming' = After(Front(stack)) \cup {e[k] : k \in 1 .. Len(e)}
      /\ Coming = After(Front(stack)) \cup {top.entries[k] : k \in 1 .. Len(top.entries)}
  <2>1. Coming' = After(Front(stack')) \cup Later(top', top'.i)
    <3>1. (pc \in {"readdir", "next"} => Coming = After(Front(stack)) \cup Later(top, top.i))'
      BY <1>4, ComingIs, PTL
    <3>2. (After(Front(stack)))' = After(Front(stack'))
      BY DEF After
    <3>3. (Later(top, top.i))' = Later(top', top'.i)
      BY DEF Later
    <3>. QED  BY <1>1, <3>1, <3>2, <3>3
  <2>2. Later(top', 1) = {e[k] : k \in 1 .. Len(e)}
    BY <1>3 DEF Later
  <2>3. Later(top, 1) = {top.entries[k] : k \in 1 .. Len(top.entries)}
    <3>. HIDE DEF top
    <3>. QED  BY <1>2 DEF Later
  <2>. QED  BY <1>2, <1>3, <2>1, <2>2, <2>3
<1>8. InOrder'
  <2>1. /\ out # <<>> /\ LastLine.path = path
        /\ \A j \in 2 .. Len(out) : Follows(out[j - 1].path, out[j].path)
    BY <1>1 DEF InOrder
  <2>2. ASSUME NEW c \in Coming' PROVE Follows(path, c)
    <3>1. CASE c \in After(Front(stack))
      BY <1>1, <1>2, <2>1, <3>1 DEF InOrder
    <3>2. CASE \E k \in 1 .. Len(e) : c = e[k]
      <4>1. c \in Paths /\ c # <<>> /\ Parent(c) = path
        BY <3>2
      <4>. QED  BY <4>1, BeforeChild DEF Follows
    <3>. QED  BY <1>7, <3>1, <3>2
  <2>. QED  BY <2>1, <2>2 DEF InOrder, LastLine, Follows
<1>9. Rooted'
  BY <1>1, <1>3 DEF Rooted
<1>10. Failures'
  <2>1. Known(stack)' <=> Known(stack)
    BY <1>2, <1>3 DEF Known
  <2>. QED  BY <1>1, <2>1 DEF Failures
<1>11. FileTree' /\ OnlyAsked'
  <2>1. OnlyAsked'
    BY <1>1 DEF OnlyAsked, Asked
  <2>. QED  BY <1>1, <2>1, NoChange
<1>. QED  BY <1>4, <1>5, <1>6, <1>7, <1>8, <1>9, <1>10, <1>11
-----------------------------------------------------------------------------
(* Sorting.                                                                 *)

\* The entries that are not after the k-th.
Upto(e, k) ==
  {j \in DOMAIN e : Name(e[j]) < Name(e[k]) \/ (Name(e[j]) = Name(e[k]) /\ j <= k)}

\* There is one entry for every place, and they are in order.
LEMMA Placed ==
  ASSUME NEW e \in Seq(Paths), \A k \in 1 .. Len(e) : e[k] # <<>>
  PROVE  /\ \A n \in 1 .. Len(e) : \E k \in 1 .. Len(e) : Place(e, k) = n
         /\ \A k \in 1 .. Len(e) : Place(e, k) \in 1 .. Len(e)
         /\ \A j, k \in 1 .. Len(e) : Place(e, j) = Place(e, k) => j = k
         /\ \A j, k \in 1 .. Len(e) : Place(e, j) < Place(e, k) =>
              Name(e[j]) < Name(e[k]) \/ (Name(e[j]) = Name(e[k]) /\ j < k)
<1>1. PICK n \in Nat : n = Len(e)
  OBVIOUS
<1>2. /\ DOMAIN e = 1 .. n /\ \A k \in 1 .. n : Name(e[k]) \in Nat
      /\ IsFiniteSet(1 .. n) /\ Cardinality(1 .. n) = n
  <2>1. \A k \in 1 .. n : e[k] \in Paths /\ e[k] # <<>>
    BY <1>1
  <2>2. \A k \in 1 .. n : Name(e[k]) \in Nat
    BY <2>1, ParentIs
  <2>3. IsFiniteSet(1 .. n) /\ Cardinality(1 .. n) = n
    BY FS_Interval
  <2>. QED  BY <1>1, <2>2, <2>3
<1>3. \A k : Place(e, k) = Cardinality(Upto(e, k))
  BY DEF Place, Upto
<1>4. ASSUME NEW k \in 1 .. n
      PROVE  /\ IsFiniteSet(Upto(e, k)) /\ k \in Upto(e, k)
             /\ Place(e, k) \in 1 .. n
  <2>1. Upto(e, k) \subseteq 1 .. n /\ k \in Upto(e, k)
    BY <1>2 DEF Upto
  <2>2. IsFiniteSet(Upto(e, k)) /\ Place(e, k) <= n
    BY <1>2, <1>3, <2>1, FS_Subset
  <2>3. Place(e, k) \in Nat /\ Place(e, k) # 0
    BY <1>3, <2>1, <2>2, FS_CardinalityType, FS_EmptySet
  <2>. QED  BY <2>1, <2>2, <2>3
<1>5. ASSUME NEW j \in 1 .. n, NEW k \in 1 .. n, j \in Upto(e, k), j # k
      PROVE  Place(e, j) < Place(e, k)
  <2>1. Name(e[j]) \in Nat /\ Name(e[k]) \in Nat
    BY <1>2
  <2>2. Upto(e, j) \subseteq Upto(e, k)
    BY <1>2, <1>5, <2>1 DEF Upto
  <2>3. k \notin Upto(e, j)
    BY <1>5, <2>1 DEF Upto
  <2>4. /\ Place(e, j) <= Place(e, k)
        /\ Place(e, k) = Place(e, j) => Upto(e, k) = Upto(e, j)
    BY <1>3, <1>4, <2>2, FS_Subset
  <2>5. Place(e, k) # Place(e, j)
    BY <1>4, <2>3, <2>4
  <2>. QED  BY <1>4, <2>4, <2>5
<1>6. ASSUME NEW j \in 1 .. n, NEW k \in 1 .. n
      PROVE  j \in Upto(e, k) \/ k \in Upto(e, j)
  <2>1. Name(e[j]) \in Nat /\ Name(e[k]) \in Nat
    BY <1>2
  <2>. QED  BY <1>2, <2>1 DEF Upto
<1>7. ASSUME NEW j \in 1 .. n, NEW k \in 1 .. n, Place(e, j) = Place(e, k)
      PROVE  j = k
  <2>1. Place(e, j) \in Nat
    BY <1>4
  <2>. QED  BY <1>5, <1>6, <1>7, <2>1
<1>8. ASSUME NEW j \in 1 .. n, NEW k \in 1 .. n, Place(e, j) < Place(e, k)
      PROVE  Name(e[j]) < Name(e[k]) \/ (Name(e[j]) = Name(e[k]) /\ j < k)
  <2>1. j # k /\ k \notin Upto(e, j)
    <3>1. Place(e, j) \in Nat /\ Place(e, k) \in Nat
      BY <1>4
    <3>2. j # k
      BY <1>8, <3>1
    <3>3. k \in Upto(e, j) => Place(e, k) < Place(e, j)
      BY <1>5, <3>2
    <3>. QED  BY <1>8, <3>1, <3>2, <3>3
  <2>2. j \in Upto(e, k)
    BY <1>6, <2>1
  <2>. QED  BY <2>1, <2>2 DEF Upto
<1>. DEFINE rank == [k \in 1 .. n |-> Place(e, k)]
<1>9. rank \in Injection(1 .. n, 1 .. n)
  BY <1>4, <1>7 DEF Injection, IsInjective
<1>10. rank \in Surjection(1 .. n, 1 .. n)
  <2>. HIDE DEF rank
  <2>. QED  BY <1>2, <1>9, FS_Injection
<1>11. \A m \in 1 .. n : \E k \in 1 .. n : Place(e, k) = m
  BY <1>10 DEF Surjection
<1>. QED  BY <1>1, <1>4, <1>7, <1>8, <1>11

\* In order, none is there twice but those that others have touched.
LEMMA AscendingDistinct ==
  ASSUME NEW e \in Seq(Paths), \A k \in 1 .. Len(e) : e[k] # <<>>, Ascending(e)
  PROVE  Distinct(e)
<1>1. ASSUME NEW j \in 1 .. Len(e), NEW k \in 1 .. Len(e), e[j] = e[k], j # k
      PROVE  e[j] \in touched
  <2>1. e[j] \in Paths /\ Name(e[j]) \in Nat
    BY ParentIs
  <2>2. ~(Name(e[j]) < Name(e[k])) /\ ~(Name(e[k]) < Name(e[j]))
    BY <1>1, <2>1
  <2>3. j < k \/ k < j
    BY <1>1
  <2>. QED  BY <1>1, <2>2, <2>3 DEF Ascending
<1>. QED  BY <1>1 DEF Distinct

\* What the entries become when the directory is closed.
LEMMA SortedIs ==
  ASSUME Inv, pc = "readdir"
  PROVE  /\ Sorted \in Seq(Paths) /\ Ascending(Sorted)
         /\ \A p : (\E k \in 1 .. Len(Sorted) : Sorted[k] = p)
                     <=> \E k \in 1 .. Len(top.entries) : top.entries[k] = p
<1>1. /\ Typed /\ Branch /\ Arranged
  BY DEF Inv
<1>2. PICK e : e = top.entries
  OBVIOUS
<1>3. /\ depth \in 1 .. depth /\ top = stack[depth] /\ depth = Len(stack)
      /\ e \in Seq(Paths) /\ Len(e) \in Nat /\ \A k \in 1 .. Len(e) : e[k] \in Paths
      /\ DOMAIN e = 1 .. Len(e)
  BY <1>1, <1>2, ComingIs
<1>4. \A k \in 1 .. Len(e) : e[k] # <<>> /\ Parent(e[k]) = top.dir
  BY <1>1, <1>2, <1>3 DEF Branch, Levels
<1>5. Distinct(e)
  BY <1>1, <1>2, <1>3, <1>4, AscendingDistinct DEF Arranged
<1>6. PICK n \in Nat : n = Len(e)
  BY <1>3
<1>. DEFINE At(m) == CHOOSE k \in DOMAIN top.entries : Place(top.entries, k) = m
<1>7. Sorted = [m \in DOMAIN top.entries |-> top.entries[At(m)]]
  BY DEF Sorted
<1>8. /\ \A m \in 1 .. n : \E k \in 1 .. n : Place(e, k) = m
      /\ \A k \in 1 .. n : Place(e, k) \in 1 .. n
      /\ \A j, k \in 1 .. n : Place(e, j) = Place(e, k) => j = k
      /\ \A j, k \in 1 .. n : Place(e, j) < Place(e, k) =>
           Name(e[j]) < Name(e[k]) \/ (Name(e[j]) = Name(e[k]) /\ j < k)
  BY <1>3, <1>4, <1>6, Placed
<1>9. \A m \in 1 .. n : At(m) \in 1 .. n /\ Place(e, At(m)) = m
  <2>1. \A m \in 1 .. n : \E k \in DOMAIN top.entries : Place(top.entries, k) = m
    BY <1>2, <1>3, <1>6, <1>8
  <2>2. \A m \in 1 .. n : At(m) \in DOMAIN top.entries /\ Place(top.entries, At(m)) = m
    BY <2>1
  <2>. HIDE DEF At
  <2>. QED  BY <1>2, <1>3, <1>6, <2>2
<1>. HIDE DEF At
<1>10. Sorted = [m \in 1 .. n |-> e[At(m)]]
  BY <1>2, <1>3, <1>6, <1>7
<1>11. Sorted \in Seq(Paths) /\ Len(Sorted) = n
  <2>1. Sorted \in [1 .. n -> Paths]
    BY <1>3, <1>6, <1>9, <1>10
  <2>. QED  BY <2>1, IsASeq
<1>12. \A m \in 1 .. n : Sorted[m] = e[At(m)]
  BY <1>10
<1>13. ASSUME NEW j \in 1 .. n, NEW k \in 1 .. n, j < k
       PROVE  Name(Sorted[j]) < Name(Sorted[k]) \/ (Sorted[j] = Sorted[k] /\ Sorted[j] \in touched)
  <2>1. PICK x \in 1 .. n : x = At(j) /\ Place(e, x) = j
    BY <1>9
  <2>2. PICK y \in 1 .. n : y = At(k) /\ Place(e, y) = k
    BY <1>9
  <2>3. Name(e[x]) < Name(e[y]) \/ (Name(e[x]) = Name(e[y]) /\ x < y)
    <3>1. Place(e, x) < Place(e, y)
      BY <1>13, <2>1, <2>2
    <3>. QED  BY <1>8, <3>1
  <2>4. Sorted[j] = e[x] /\ Sorted[k] = e[y]
    BY <1>12, <2>1, <2>2
  <2>5. ASSUME Name(e[x]) = Name(e[y]), x < y PROVE e[x] = e[y] /\ e[x] \in touched
    <3>1. e[x] = e[y]
      BY <1>3, <1>4, <1>6, <2>5, SameName
    <3>. QED  BY <1>5, <1>6, <2>5, <3>1 DEF Distinct
  <2>. QED  BY <2>3, <2>4, <2>5
<1>14. ASSUME NEW k \in 1 .. n PROVE \E m \in 1 .. n : Sorted[m] = e[k]
  <2>1. PICK m \in 1 .. n : m = Place(e, k)
    BY <1>8
  <2>2. PICK x \in 1 .. n : x = At(m) /\ Place(e, x) = m
    BY <1>9
  <2>3. x = k
    BY <1>8, <2>1, <2>2
  <2>. QED  BY <1>12, <2>1, <2>2, <2>3
<1>15. \A p : (\E k \in 1 .. n : Sorted[k] = p) <=> \E k \in 1 .. n : e[k] = p
  BY <1>9, <1>12, <1>14
<1>. QED  BY <1>2, <1>6, <1>11, <1>13, <1>15 DEF Ascending

\* An entry is read.
LEMMA EntryRead ==
  ASSUME Inv, pc = "readdir", UNCHANGED <<opt, path, pc, rc, out, lost, cut, fs, touched>>,
         NEW p \in Unread, stack' = [stack EXCEPT ![depth].entries = Append(@, p)],
         fresh' = fresh \ {p}
  PROVE  Inv'
<1>1. Typed /\ Branch /\ Arranged /\ NothingForgotten
  BY DEF Inv
<1>2. /\ depth \in 1 .. depth /\ top = stack[depth] /\ depth = Len(stack)
      /\ top.entries \in Seq(Paths) /\ top.dir = path
      /\ \A k \in 1 .. Len(top.entries) :
           top.entries[k] # <<>> /\ Parent(top.entries[k]) = path /\ Wanted(top.entries[k])
      /\ Distinct(top.entries)
  <2>1. /\ depth \in 1 .. depth /\ top = stack[depth] /\ depth = Len(stack)
        /\ top.entries \in Seq(Paths) /\ top.dir = path
        /\ \A k \in 1 .. Len(top.entries) :
             top.entries[k] # <<>> /\ Parent(top.entries[k]) = path /\ Wanted(top.entries[k])
        /\ Ascending(top.entries) \/ Distinct(top.entries)
    BY <1>1, ComingIs DEF Branch, Levels, Arranged
  <2>. QED  BY <2>1, AscendingDistinct
<1>3. /\ p \in Paths /\ p # <<>> /\ Parent(p) = path /\ Wanted(p)
      /\ p \notin ToSet(top.entries) \/ p \in touched
  BY <1>1 DEF Unread, Children, Typed
<1>. DEFINE e == Append(top.entries, p)
<1>4. PICK n \in Nat : n = Len(top.entries)
  BY <1>2
<1>5. /\ e \in Seq(Paths) /\ Len(e) = n + 1 /\ e[n + 1] = p
      /\ \A k \in 1 .. n : e[k] = top.entries[k]
      /\ \A k \in 1 .. n + 1 : k \in 1 .. n \/ k = n + 1
      /\ \A k \in 1 .. n : k \in 1 .. n + 1
  BY <1>2, <1>3, <1>4
<1>6. stack' = [stack EXCEPT ![depth].entries = e]
  BY <1>2
<1>. HIDE DEF e
<1>7. \A k \in 1 .. Len(e) : e[k] # <<>> /\ Parent(e[k]) = path /\ Wanted(e[k])
  BY <1>2, <1>3, <1>4, <1>5
<1>8. Distinct(e)
  <2>1. ASSUME NEW j \in 1 .. n, NEW k \in 1 .. n, top.entries[j] = top.entries[k]
        PROVE  j = k \/ top.entries[j] \in touched
    BY <1>2, <1>4, <2>1 DEF Distinct
  <2>2. ASSUME NEW k \in 1 .. n, top.entries[k] = p PROVE p \in touched
    BY <1>2, <1>3, <1>4, <2>2 DEF ToSet
  <2>. QED  BY <1>5, <2>1, <2>2 DEF Distinct
<1>9. /\ Typed' /\ FileTree' /\ Branch' /\ Arranged' /\ InOrder' /\ Rooted' /\ Failures'
      /\ OnlyAsked'
      /\ Coming' = After(Front(stack)) \cup {e[k] : k \in 1 .. Len(e)}
      /\ Coming = After(Front(stack)) \cup {top.entries[k] : k \in 1 .. Len(top.entries)}
  BY <1>5, <1>6, <1>7, <1>8, DirectoryRead
<1>10. Coming \subseteq Coming'
  BY <1>4, <1>5, <1>9
<1>11. NothingForgotten'
  <2>1. ASSUME NEW q \in Paths, Awaited(q) PROVE Awaited(q)'
    BY <1>10, <2>1 DEF Awaited
  <2>2. lost \subseteq lost' /\ cut \subseteq cut' /\ Listed \subseteq Listed'
    BY DEF Listed
  <2>. QED  BY <1>1, <2>1, <2>2, Remains
<1>. QED  BY <1>9, <1>11 DEF Inv

\* The directory is closed: whoever was in it all the time was read.
LEMMA DirectoryClosed ==
  ASSUME Inv, pc = "readdir", UNCHANGED <<opt, path, rc, out, lost, world>>,
         \/ Unread \subseteq fresh /\ UNCHANGED cut
         \/ cut' = cut \cup {path},
         stack' = [stack EXCEPT ![depth].entries = Sorted], pc' = "next"
  PROVE  Inv'
<1>1. /\ Typed /\ FileTree /\ Branch /\ NothingForgotten /\ UNCHANGED <<fs, touched, fresh>>
      /\ path \in Paths
  BY DEF Inv, world, Typed
<1>2. /\ depth \in 1 .. depth /\ top = stack[depth] /\ depth = Len(stack)
      /\ top.dir = path /\ Len(path) + 1 = depth
      /\ \A k \in 1 .. Len(top.entries) :
           /\ top.entries[k] # <<>> /\ Parent(top.entries[k]) = path
           /\ Wanted(top.entries[k])
      /\ top.entries \in Seq(Paths)
  BY <1>1, ComingIs DEF Branch, Levels
<1>3. /\ Sorted \in Seq(Paths) /\ Ascending(Sorted)
      /\ \A p : (\E k \in 1 .. Len(Sorted) : Sorted[k] = p)
                  <=> \E k \in 1 .. Len(top.entries) : top.entries[k] = p
  BY SortedIs
<1>4. \A k \in 1 .. Len(Sorted) :
        Sorted[k] # <<>> /\ Parent(Sorted[k]) = path /\ Wanted(Sorted[k])
  <2>1. ASSUME NEW k \in 1 .. Len(Sorted)
        PROVE  Sorted[k] # <<>> /\ Parent(Sorted[k]) = path /\ Wanted(Sorted[k])
    <3>1. PICK j \in 1 .. Len(top.entries) : top.entries[j] = Sorted[k]
      BY <1>3
    <3>. QED  BY <1>2, <3>1
  <2>. QED  BY <2>1
<1>5. /\ Typed' /\ FileTree' /\ Branch' /\ Arranged' /\ InOrder' /\ Rooted' /\ Failures'
      /\ OnlyAsked'
      /\ Coming' = After(Front(stack)) \cup {Sorted[k] : k \in 1 .. Len(Sorted)}
      /\ Coming = After(Front(stack)) \cup {top.entries[k] : k \in 1 .. Len(top.entries)}
  BY <1>1, <1>3, <1>4, DirectoryRead
<1>6. Coming' = Coming
  BY <1>3, <1>5
<1>7. NothingForgotten'
  <2>1. ASSUME NEW p \in Paths, Asked(p), Reached(p), Untouched(p), Awaited(p)
        PROVE  p \in Listed' \/ Missed(p)' \/ Awaited(p)'
    <3>1. CASE \E c \in Coming : IsPrefix(c, p)
      BY <1>6, <3>1 DEF Awaited
    <3>2. CASE IsStrictPrefix(path, p) /\ cut' = cut \cup {path}
      BY <3>2 DEF IsStrictPrefix, Missed
    <3>3. CASE IsStrictPrefix(path, p) /\ Unread \subseteq fresh
      <4>1. PICK a \in Paths : a # <<>> /\ Parent(a) = path /\ IsPrefix(a, p)
        BY <1>1, <3>3, ChildTowards
      <4>2. fs[a] # "none"
        BY <1>1, <2>1, <4>1, Exists DEF Reached
      <4>3. a \notin fresh
        BY <1>1, <2>1, <4>1 DEF Untouched, Typed
      <4>4. Wanted(a)
        <5>1. Len(a) \in 1 .. Len(p) /\ Name(a) = a[Len(a)]
          BY <4>1, ParentIs, PathType, PrefixIs
        <5>2. Len(a) \in DOMAIN p /\ Name(a) = p[Len(a)]
          BY <4>1, <5>1, PathType, PrefixIs
        <5>. QED  BY <2>1, <5>2 DEF Asked, Wanted
      <4>5. a \in ToSet(top.entries)
        BY <3>3, <4>1, <4>2, <4>3, <4>4 DEF Unread, Children
      <4>6. a \in Coming
        BY <1>2, <1>5, <4>5 DEF ToSet
      <4>. QED  BY <1>6, <4>1, <4>6 DEF Awaited
    <3>. QED  BY <2>1, <3>1, <3>2, <3>3 DEF Awaited
  <2>2. lost \subseteq lost' /\ cut \subseteq cut' /\ Listed \subseteq Listed'
    BY DEF Listed
  <2>. QED  BY <1>1, <2>1, <2>2, Remains
<1>. QED  BY <1>5, <1>7 DEF Inv
-----------------------------------------------------------------------------
(* The loop over the entries, and everybody else.                           *)

\* The loop goes on to the next entry.
LEMMA EntryTaken ==
  ASSUME Inv, pc = "next", top.i <= Len(top.entries), path' = top.entries[top.i],
         pc' = "lstat", UNCHANGED <<opt, stack, rc, out, lost, cut, world>>
  PROVE  Inv'
<1>1. /\ Typed /\ FileTree /\ Branch /\ Arranged /\ InOrder /\ Rooted /\ Failures
      /\ OnlyAsked /\ NothingForgotten /\ UNCHANGED <<fs, touched, fresh>>
      /\ Here' /\ ~Here /\ stack \in Seq(Frame)
  BY DEF Inv, world, Here, Typed
<1>2. /\ depth \in Nat /\ depth \in 1 .. depth /\ top = stack[depth] /\ depth = Len(stack)
      /\ top.dir \in Paths /\ top.i \in Nat /\ top.i # 0 /\ Len(top.entries) \in Nat
      /\ top.i \in 1 .. Len(top.entries) /\ path' \in Paths
  <2>1. /\ top.i \in Nat /\ top.i # 0 /\ Len(top.entries) \in Nat
        /\ \A k \in 1 .. Len(top.entries) : top.entries[k] \in Paths
    BY <1>1, ComingIs
  <2>2. top.i \in 1 .. Len(top.entries)
    BY <2>1
  <2>. QED  BY <1>1, <2>1, <2>2, ComingIs
<1>3. path' # <<>> /\ Parent(path') = top.dir /\ Len(top.dir) + 1 = depth
  BY <1>1, <1>2 DEF Branch, Levels
<1>4. Len(path') = depth /\ IsPrefix(top.dir, path')
  BY <1>2, <1>3, ParentIs, ParentPrefix
<1>5. Typed'
  BY <1>1, <1>2 DEF Typed
<1>6. Coming' = Coming
  <2>1. Now' = {path'}
    BY <1>1, <1>2 DEF Now, Here
  <2>2. Now = {path'}
    BY <1>1, <1>2 DEF Now
  <2>3. After(stack)' = After(stack)
    BY DEF After
  <2>. QED  BY <2>1, <2>2, <2>3 DEF Coming
<1>7. Branch'
  <2>1. Levels(stack)' /\ Nested(stack)'
    BY <1>1 DEF Branch, Levels, Nested, Wanted
  <2>2. ASSUME NEW l \in 1 .. depth
        PROVE  /\ stack[l].i <= Len(stack[l].entries)
               /\ IsPrefix(stack[l].entries[stack[l].i], path')
    <3>1. CASE l = depth
      BY <1>2, <3>1, PrefixOrder
    <3>2. CASE l # depth
      <4>1. l < depth
        BY <1>2, <3>2
      <4>2. /\ stack[l].i <= Len(stack[l].entries)
            /\ IsPrefix(stack[l].entries[stack[l].i], top.dir)
        BY <1>1, <1>2, <4>1 DEF Branch, Nested
      <4>3. stack[l].entries[stack[l].i] \in Paths
        BY <1>1, <1>2, <4>2, FrameType
      <4>. QED  BY <1>2, <1>4, <4>2, <4>3, PrefixOrder
    <3>. QED  BY <3>1, <3>2
  <2>3. Len(path') = depth' /\ Leads(stack, path)'
    BY <1>2, <1>4, <2>2 DEF Leads, depth
  <2>4. (opt.max_depth >= 0 => depth <= opt.max_depth)'
    BY <1>1 DEF Branch, depth
  <2>. QED  BY <2>1, <2>3, <2>4 DEF Branch
<1>8. Arranged'
  BY <1>1 DEF Arranged, Ascending, depth
<1>9. InOrder'
  BY <1>1, <1>6 DEF InOrder, LastLine, Follows
<1>10. Rooted' /\ Failures' /\ OnlyAsked' /\ FileTree'
  <2>1. Rooted'
    BY <1>1 DEF Rooted, depth
  <2>2. Failures'
    BY <1>1 DEF Failures, Known
  <2>3. OnlyAsked'
    BY <1>1 DEF OnlyAsked, Asked
  <2>. QED  BY <1>1, <2>1, <2>2, <2>3, NoChange
<1>11. NothingForgotten'
  <2>1. ASSUME NEW p \in Paths, Awaited(p) PROVE Awaited(p)'
    BY <1>6, <2>1 DEF Awaited
  <2>2. lost \subseteq lost' /\ cut \subseteq cut' /\ Listed \subseteq Listed'
    BY DEF Listed
  <2>. QED  BY <1>1, <2>1, <2>2, Remains
<1>. QED  BY <1>5, <1>7, <1>8, <1>9, <1>10, <1>11 DEF Inv

\* An entry is left out for want of memory.
LEMMA EntryLost ==
  ASSUME Inv, pc = "next", top.i <= Len(top.entries),
         stack' = [stack EXCEPT ![depth].rc = 1, ![depth].i = @ + 1],
         lost' = lost \cup {top.entries[top.i]},
         UNCHANGED <<opt, path, pc, rc, out, cut, world>>
  PROVE  Inv'
<1>1. /\ Typed /\ FileTree /\ Branch /\ Arranged /\ InOrder /\ Rooted /\ Failures
      /\ OnlyAsked /\ NothingForgotten
      /\ stack \in Seq(Frame) /\ path \in Paths /\ out' \in Seq(Lines)
      /\ UNCHANGED <<fs, touched, fresh>> /\ stack # <<>>
      /\ pc # "done" /\ pc # "readdir" /\ ~Here
  BY DEF Inv, Typed, world, Here
<1>2. Return(1, stack)
  BY <1>1 DEF Return, depth
<1>3. Typed' /\ Branch' /\ Arranged'
  BY <1>1, <1>2, ReturnKeeps
<1>4. /\ Coming' = After(stack) /\ ~Here'
      /\ Known(stack)'
  BY <1>1, <1>2, ReturnTo
<1>5. /\ depth \in Nat /\ depth = Len(stack) /\ top = stack[depth]
      /\ top.i \in Nat /\ Len(top.entries) \in Nat
      /\ Coming = After(Front(stack)) \cup Later(top, top.i)
      /\ After(stack) = After(Front(stack)) \cup Later(top, top.i + 1)
  BY <1>1, ComingIs, TopAndRest
<1>6. /\ After(stack) \subseteq Coming
      /\ \A c \in Coming : c \in After(stack) \/ c = top.entries[top.i]
  <2>. HIDE DEF top
  <2>1. \A i, k \in Nat : i <= k <=> i + 1 <= k \/ k = i
    OBVIOUS
  <2>2. \A k \in 1 .. Len(top.entries) : k \in Nat
    OBVIOUS
  <2>. QED  BY <1>5, <2>1, <2>2 DEF Later
<1>7. InOrder'
  BY <1>1, <1>4, <1>6 DEF InOrder, LastLine, Follows
<1>8. Rooted'
  <2>1. depth' = depth /\ \A l \in 1 .. depth : stack'[l].dir = stack[l].dir
    BY <1>1, <1>2, ReturnIs DEF depth
  <2>. QED  BY <1>1, <2>1 DEF Rooted
<1>9. Failures'
  BY <1>1, <1>4 DEF Failures
<1>10. NothingForgotten'
  <2>1. ASSUME NEW p \in Paths, Awaited(p) PROVE Missed(p)' \/ Awaited(p)'
    BY <1>1, <1>4, <1>6, <2>1 DEF Awaited, Missed
  <2>2. lost \subseteq lost' /\ cut \subseteq cut' /\ Listed \subseteq Listed'
    BY DEF Listed
  <2>. QED  BY <1>1, <2>1, <2>2, Remains
<1>11. FileTree' /\ OnlyAsked'
  <2>1. OnlyAsked'
    BY <1>1 DEF OnlyAsked, Asked
  <2>. QED  BY <1>1, <2>1, NoChange
<1>. QED  BY <1>3, <1>7, <1>8, <1>9, <1>10, <1>11 DEF Inv

\* Others create, remove or change a file.
LEMMA FileChanged ==
  ASSUME Inv, NEW a \in Paths \ {<<>>}, fs[Parent(a)] \in Opened, NEW kind \in Kinds,
         Becomes(a, kind), UNCHANGED <<opt, stack, path, rc, pc, out, failures, lost, cut>>
  PROVE  Inv'
<1>. DEFINE gone == {q \in Below(a) \ {a} : fs[q] # "none"}
<1>1. /\ Typed /\ FileTree /\ Branch /\ Arranged /\ InOrder /\ Rooted /\ Failures
      /\ OnlyAsked /\ NothingForgotten
  BY DEF Inv
<1>2. /\ touched' = touched \cup {a} \cup gone /\ fresh' = fresh \cup {a} \cup gone
      /\ fs' = [q \in Paths |-> IF q = a THEN kind ELSE IF q \in gone THEN "none" ELSE fs[q]]
  BY DEF Becomes
<1>3. /\ gone \subseteq Paths
      /\ \A q \in gone : IsPrefix(a, q) /\ q # a
      /\ \A q \in Paths : IsPrefix(a, q) /\ q # a /\ fs[q] # "none" => q \in gone
  BY DEF Below
<1>. HIDE DEF gone
<1>4. fs' \in [Paths -> Kinds]
  BY <1>1, <1>2 DEF Typed, Kinds
<1>5. Typed'
  BY <1>1, <1>2, <1>3, <1>4 DEF Typed
<1>6. FileTree'
  <2>1. SUFFICES ASSUME NEW p \in Paths \ {<<>>}, fs'[p] # "none"
                 PROVE  fs'[Parent(p)] \in Parents
    BY DEF FileTree
  <2>2. p \notin gone /\ (p = a \/ fs'[p] = fs[p])
    <3>1. p = a => p \notin gone
      BY <1>3
    <3>. QED  BY <1>2, <2>1, <3>1
  <2>3. Parent(p) \in Paths /\ fs[Parent(p)] \in Parents
    <3>1. CASE p = a
      BY <3>1, ParentIs DEF Parents
    <3>2. CASE p # a
      BY <1>1, <2>1, <2>2, <3>2, ParentIs DEF FileTree
    <3>. QED  BY <3>1, <3>2
  <2>4. Parent(p) # a /\ Parent(p) \notin gone
    <3>1. CASE p = a
      <4>1. ~IsPrefix(a, Parent(a))
        BY ParentIs, PathType, PrefixIs
      <4>2. IsPrefix(a, a)
        BY PrefixOrder
      <4>. QED  BY <1>3, <3>1, <4>1, <4>2
    <3>2. ASSUME p # a, Parent(p) = a \/ Parent(p) \in gone PROVE FALSE
      <4>1. IsPrefix(a, Parent(p)) /\ IsPrefix(Parent(p), p)
        BY <1>3, <2>3, <3>2, ParentPrefix, PrefixOrder
      <4>2. IsPrefix(a, p)
        BY <2>3, <4>1, PrefixOrder
      <4>. QED  BY <1>3, <2>1, <2>2, <3>2, <4>2
    <3>. QED  BY <3>1, <3>2
  <2>. QED  BY <1>2, <2>3, <2>4
<1>7. /\ Here' <=> Here
      /\ depth' = depth /\ top' = top /\ Coming' = Coming /\ Listed' = Listed
  BY DEF Here, depth, top, Coming, After, Now, Listed
<1>8. Branch'
  <2>1. Levels(stack)' /\ Nested(stack)' /\ (Leads(stack, path)' <=> Leads(stack, path))
    BY <1>1 DEF Branch, Levels, Nested, Leads, Wanted
  <2>2. AtMaxDepth' <=> AtMaxDepth
    BY <1>7 DEF AtMaxDepth
  <2>3. pc = "readlink" => path \in touched' \/ fs'[path] \in Links
    BY <1>1, <1>2 DEF Branch, Typed
  <2>. QED  BY <1>1, <1>7, <2>1, <2>2, <2>3 DEF Branch
<1>9. Arranged' /\ Rooted'
  BY <1>1, <1>2, <1>7 DEF Arranged, Ascending, Distinct, Rooted
<1>10. InOrder'
  BY <1>1, <1>2, <1>7 DEF InOrder, LastLine, Follows
<1>11. Failures' /\ OnlyAsked'
  BY <1>1 DEF Failures, Known, OnlyAsked, Asked
<1>12. NothingForgotten'
  <2>1. SUFFICES ASSUME NEW p \in Paths, Asked(p)', Reached(p)', Untouched(p)'
                 PROVE  p \in Listed' \/ Missed(p)' \/ Awaited(p)'
    BY DEF NothingForgotten
  <2>2. Asked(p) /\ Untouched(p) /\ \A q \in gone \cup {a} : ~IsPrefix(q, p)
    BY <1>2, <2>1 DEF Asked, Untouched
  <2>3. Reached(p)
    <3>1. ASSUME NEW q \in Paths, IsPrefix(q, p) PROVE fs'[q] = fs[q]
      BY <1>2, <2>2, <3>1
    <3>2. IsPrefix(p, p)
      BY PrefixOrder
    <3>. QED  BY <2>1, <3>1, <3>2 DEF Reached, IsDir, IsStrictPrefix
  <2>4. (Missed(p)' <=> Missed(p)) /\ (Awaited(p)' <=> Awaited(p))
    BY <1>7 DEF Missed, Awaited
  <2>. QED  BY <1>1, <1>7, <2>1, <2>2, <2>3, <2>4 DEF NothingForgotten
<1>. QED  BY <1>5, <1>6, <1>8, <1>9, <1>10, <1>11, <1>12 DEF Inv

\* A step that changes nothing.
LEMMA Unchanged ==
  ASSUME Inv, UNCHANGED vars
  PROVE  Inv'
<1>1. UNCHANGED <<opt, stack, path, rc, pc, out, lost, cut, fs, touched, fresh>>
  BY DEF vars, world
<1>2. /\ Coming' = Coming /\ Listed' = Listed /\ (Here' <=> Here)
      /\ depth' = depth /\ top' = top
  BY <1>1 DEF Coming, After, Now, Listed, Here, top, depth
<1>3. Typed' /\ FileTree' /\ Arranged' /\ InOrder' /\ Rooted' /\ Failures' /\ OnlyAsked'
  BY <1>1, <1>2 DEF Inv, Typed, FileTree, Arranged, Ascending, Distinct, InOrder, LastLine,
                    Follows, Rooted, Failures, Known, OnlyAsked, Asked
<1>4. Branch'
  BY <1>1, <1>2 DEF Inv, Branch, Levels, Nested, Leads, Wanted, AtMaxDepth
<1>5. NothingForgotten'
  BY <1>1, <1>2 DEF Inv, NothingForgotten, Asked, Reached, IsDir, Untouched, Missed, Awaited
<1>. QED  BY <1>3, <1>4, <1>5 DEF Inv

-----------------------------------------------------------------------------
(* The invariant.                                                           *)

LEMMA InitInv == Init => Inv
<1>1. SUFFICES ASSUME Init PROVE Inv
  OBVIOUS
<1>2. /\ fs \in [Paths -> Kinds] /\ FileTree /\ <<>> \in Paths
      /\ opt \in [show_all : BOOLEAN, long_format : BOOLEAN, max_depth : Int]
  BY <1>1, TreeAssumption DEF Init, FileTree, Parent
<1>3. /\ stack = <<>> /\ out = <<>> /\ path = <<>> /\ rc = 0 /\ pc = "lstat"
      /\ touched = {} /\ fresh = {} /\ lost = {} /\ Here /\ depth = 0
  BY <1>1 DEF Init, Here, depth
<1>4. Typed
  BY <1>2, <1>3 DEF Typed
<1>5. Branch
  BY <1>3 DEF Branch, Levels, Nested, Leads
<1>6. Arranged /\ InOrder /\ Rooted /\ Failures /\ OnlyAsked
  BY <1>3 DEF Arranged, InOrder, Rooted, Failures, OnlyAsked, Known
<1>7. NothingForgotten
  <2>1. path \in Coming
    BY <1>4, <1>3, ComingIs
  <2>2. ASSUME NEW p \in Paths PROVE IsPrefix(path, p)
    BY <1>2, <1>3, <2>2, PathType, PrefixIs
  <2>. QED  BY <2>1, <2>2 DEF NothingForgotten, Awaited
<1>. QED  BY <1>2, <1>4, <1>5, <1>6, <1>7 DEF Inv

LEMMA NextInv == Inv /\ [Next]_vars => Inv'
<1>1. SUFFICES ASSUME Inv, [Next]_vars PROVE Inv'
  OBVIOUS
<1>2. /\ Typed /\ Branch /\ path \in Paths
  BY <1>1 DEF Inv, Typed
<1>3. CASE LstatFails
  BY <1>1, <1>3, PrintAndReturn DEF LstatFails, Here
<1>4. CASE PrintEntry
  <2>1. CASE fs[path] \in Links /\ opt.long_format
    <3>1. /\ Here /\ pc' = "readlink"
          /\ UNCHANGED <<opt, stack, path, rc, out, failures, lost, cut, world>>
      BY <1>4, <2>1 DEF PrintEntry, Here
    <3>. QED  BY <1>1, <2>1, <3>1, LookAgain
  <2>2. CASE ~(fs[path] \in Links /\ opt.long_format)
    BY <1>1, <1>4, <2>2, PrintAndReturn DEF PrintEntry, Here
  <2>. QED  BY <2>1, <2>2
<1>5. CASE PrintLink
  <2>1. ~IsDir(path) \/ path \in touched
    BY <1>2, <1>5 DEF PrintLink, Branch, IsDir, Dirs, Links
  <2>. QED  BY <1>1, <1>5, <2>1, PrintAndReturn DEF PrintLink, Here
<1>6. CASE Lstat
  <2>1. /\ Here /\ pc' = "opendir" /\ ~AtMaxDepth
        /\ UNCHANGED <<opt, stack, path, rc, out, failures, lost, cut, world>>
    BY <1>6 DEF Lstat, Here
  <2>. QED  BY <1>1, <2>1, LookAgain
<1>7. CASE OpendirFails
  BY <1>1, <1>7, PrintAndReturn DEF OpendirFails, Here
<1>8. CASE Opendir
  <2>1. CASE /\ pc' = "readdir" /\ fresh' = {} /\ UNCHANGED <<rc, lost>>
             /\ stack' = Append(stack, [dir |-> path, entries |-> <<>>, i |-> 1, rc |-> 0])
    BY <1>1, <1>8, <2>1, OpenDirectory DEF Opendir
  <2>2. CASE Return(1, stack) /\ lost' = lost \cup {path} /\ UNCHANGED fresh
    BY <1>1, <1>8, <2>2, PrintAndReturn DEF Opendir, Here, world
  <2>. QED  BY <1>8, <2>1, <2>2 DEF Opendir
<1>9. CASE Readdir
  <2>1. PICK p \in Unread :
          \/ /\ Succeeds
             /\ stack' = [stack EXCEPT ![depth].entries = Append(@, p)]
             /\ fresh' = fresh \ {p}
             /\ UNCHANGED <<pc, rc, lost>>
          \/ /\ Fails /\ Return(1, Front(stack))
             /\ lost' = lost \cup {path} /\ UNCHANGED fresh
    BY <1>9 DEF Readdir
  <2>. QED  BY <1>1, <1>9, <2>1, EntryRead, LeaveDirectory DEF Readdir, world
<1>10. CASE Closedir
  BY <1>1, <1>10, DirectoryClosed DEF Closedir
<1>11. CASE Child
  BY <1>1, <1>11, EntryTaken, EntryLost DEF Child
<1>12. CASE LastChild
  <2>1. top.rc \in {0, 1}
    BY <1>2, <1>12, ComingIs DEF LastChild
  <2>. QED  BY <1>1, <1>12, <2>1, LeaveDirectory DEF LastChild
<1>13. CASE Change
  BY <1>1, <1>13, FileChanged DEF Change
<1>14. CASE UNCHANGED vars
  BY <1>1, <1>14, Unchanged
<1>. QED
  BY <1>1, <1>3, <1>4, <1>5, <1>6, <1>7, <1>8, <1>9, <1>10, <1>11, <1>12, <1>13, <1>14
  DEF Next, Traverse, Done

\* The invariant holds throughout.
THEOREM Invariant == Spec => []Inv
<1>. QED  BY InitInv, NextInv, PTL DEF Spec

-----------------------------------------------------------------------------
(* What it implies.                                                         *)

\* Every variable has its type, however deep the tree and long the listing.
THEOREM TypeCorrect == Spec => []TypeOK
<1>1. Inv => TypeOK
  BY DEF Inv, Typed, TypeOK, Frame, Lines
<1>. QED  BY <1>1, Invariant, PTL

\* The listing is depth-first, every file in its place, whatever comes and goes while
\* it is made, and once, unless others touched it or what it is in.
THEOREM ListingInOrder == Spec => []Preorder
<1>1. ASSUME Inv PROVE Preorder
  <2>1. /\ out \in Seq(Lines) /\ Len(out) \in Nat
        /\ \A j \in 2 .. Len(out) : Follows(out[j - 1].path, out[j].path)
        /\ \A j \in 1 .. Len(out) : out[j].path # <<>> =>
             \E k \in 1 .. Len(out) :
               k < j /\ out[k].path = Parent(out[j].path) /\ out[k].err = "none"
    <3>1. Typed /\ InOrder /\ Rooted
      BY <1>1 DEF Inv
    <3>2. out \in Seq(Lines)
      BY <3>1 DEF Typed
    <3>. QED  BY <3>1, <3>2 DEF InOrder, Rooted
  <2>2. ASSUME NEW j \in DOMAIN out, out[j].path # <<>>
        PROVE  \E k \in 1 .. j - 1 : out[k].path = Parent(out[j].path) /\ out[k].err = "none"
    <3>1. j \in 1 .. Len(out)
      BY <2>1
    <3>2. PICK k \in 1 .. Len(out) :
            k < j /\ out[k].path = Parent(out[j].path) /\ out[k].err = "none"
      BY <2>1, <2>2, <3>1
    <3>3. k \in 1 .. j - 1
      BY <2>1, <3>1, <3>2
    <3>. QED  BY <3>2, <3>3
  <2>. QED  BY <2>1, <2>2 DEF Preorder
<1>. QED  BY <1>1, Invariant, PTL

\* A failure stays where it happened, and the exit status tells of it: all that
\* was asked for and nobody touched is listed, except below the failure and behind
\* links.
THEOREM FailuresStay == Spec => []FailuresContained
<1>1. ASSUME Inv PROVE FailuresContained
  <2>1. /\ Typed /\ Failures /\ OnlyAsked /\ NothingForgotten
    BY <1>1 DEF Inv
  <2>2. \A p \in Listed : Asked(p)
    <3>1. DOMAIN out = 1 .. Len(out)
      BY <2>1 DEF Typed
    <3>. QED  BY <2>1, <3>1 DEF OnlyAsked, Listed
  <2>3. ASSUME pc = "done" PROVE ~\E p : Awaited(p)
    <3>1. ~Here /\ stack = <<>>
      BY <2>1, <2>3 DEF Typed, Here
    <3>2. After(stack) = {} /\ Now = {}
      BY <2>3, <3>1 DEF After, Now
    <3>. QED  BY <2>3, <3>2 DEF Awaited, Coming
  <2>4. ASSUME pc = "done", NEW p \in Paths, Asked(p), Reached(p),
               \A q \in touched : ~IsPrefix(q, p)
        PROVE  p \in Listed \/ \E q \in lost \cup cut : IsPrefix(q, p)
    BY <2>1, <2>3, <2>4 DEF NothingForgotten, Untouched, Missed
  <2>5. pc = "done" => (rc = 1 <=> lost # {})
    BY <2>1 DEF Failures
  <2>. QED  BY <2>2, <2>4, <2>5 DEF FailuresContained
<1>. QED  BY <1>1, Invariant, PTL
=============================================================================
