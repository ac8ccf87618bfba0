-------------------------------- MODULE Tree --------------------------------
(***************************************************************************)
(* The directory listing of Asgn 5 (tree.c): traverse() recurs over a file  *)
(* system that others may change while it is read, and goes on after a call *)
(* that fails.  A path is a sequence of names, the root is <<>>; a name is  *)
(* a number, and the order of numbers that of strcmp.                       *)
(***************************************************************************)
EXTENDS Integers, SequencesExt

CONSTANTS
  Paths,        \* the paths that may exist, with their parents
  Hidden,       \* the names that begin with a dot
  Systems,      \* the file systems there may be at the start
  MaxDepths,    \* the values given to -d, -1 if it is not given
  MaxChanges,   \* bound on the changes others make
  MaxFailures   \* bound on the calls that fail for lack of resources

\* "locked" is a directory that may be searched and not read, "dirlink" a link
\* to a directory that may be read.
Kinds   == {"none", "dir", "locked", "file", "link", "dirlink"}
Dirs    == {"dir", "locked"}
Links   == {"link", "dirlink"}
Opened  == {"dir", "dirlink"}        \* by opendir(), which follows links
Parents == Dirs \cup Opened          \* what a path may lead through

\* What exists is in a directory, or is reached by a link to one.
ASSUME TreeAssumption ==
  /\ Paths \subseteq Seq(Nat) /\ <<>> \in Paths
  /\ \A p \in Paths \ {<<>>} : Front(p) \in Paths
  /\ Systems \subseteq [Paths -> Kinds]
  /\ \A f \in Systems : \A p \in Paths \ {<<>>} :
       f[p] # "none" => f[Front(p)] \in Parents
  /\ MaxDepths \subseteq Int
  /\ MaxChanges \in Nat /\ MaxFailures \in Nat

VARIABLES
  \* the arguments and the locals of the invocations of traverse(), and their
  \* return value
  opt, stack, path, rc,
  pc,
  out,           \* what was printed: a path, an error, the target of a link
  fs,            \* what each path is
  failures, changes,
  \* history: the paths that others have created, removed or changed; those since
  \* the directory was opened, or since readdir() returned them; those that could
  \* not be accessed or kept in memory; the directories that readdir() did not
  \* read to the end
  touched, fresh, lost, cut

world == <<fs, changes, touched, fresh>>
vars  == <<opt, stack, path, rc, pc, out, failures, lost, cut, world>>

Parent(p)   == Front(p)
Name(p)     == Last(p)
Children(p) == {q \in Paths : q # <<>> /\ Parent(q) = p /\ fs[q] # "none"}
depth       == Len(stack)
top         == stack[depth]

IsDir(p) == fs[p] \in Dirs

Init ==
  /\ opt \in [show_all : BOOLEAN, long_format : BOOLEAN, max_depth : MaxDepths]
  /\ fs \in Systems
  /\ stack = <<>> /\ path = <<>> /\ rc = 0 /\ pc = "lstat"
  /\ out = <<>>
  /\ failures = 0 /\ changes = 0
  /\ touched = {} /\ fresh = {} /\ lost = {} /\ cut = {}

Fails == failures < MaxFailures /\ failures' = failures + 1
Succeeds == UNCHANGED failures

Line(err, target) == [path |-> path, err |-> err, target |-> target]
Prints(line) == out' = Append(out, line)

-----------------------------------------------------------------------------
(* traverse.                                                                *)

\* Mutant of Return: the result of the last child is the result.
ReturnLast(code, s) ==
  IF s = <<>> THEN pc' = "done" /\ rc' = code /\ stack' = s
  ELSE /\ pc' = "next" /\ UNCHANGED rc
       /\ stack' = [s EXCEPT ![Len(s)].rc = code, ![Len(s)].i = @ + 1]

\* Mutant of Return: the failures are counted.
ReturnCounts(code, s) ==
  IF s = <<>> THEN pc' = "done" /\ rc' = code /\ stack' = s
  ELSE /\ pc' = "next" /\ UNCHANGED rc
       /\ stack' = [s EXCEPT ![Len(s)].rc = @ + code, ![Len(s)].i = @ + 1]

\* traverse() returns to the loop over the entries, or to main.
Return(code, s) ==
  IF s = <<>> THEN pc' = "done" /\ rc' = code /\ stack' = s
  ELSE /\ pc' = "next" /\ UNCHANGED rc
       /\ stack' = [s EXCEPT ![Len(s)].rc = IF code = 0 THEN @ ELSE 1,
                             ![Len(s)].i = @ + 1]

\* lstat() fails: the path is no more, or for another reason.
LstatFails ==
  /\ pc = "lstat"
  /\ \/ fs[path] = "none" /\ Succeeds
     \/ fs[path] # "none" /\ Fails
  /\ Prints(Line("lstat", FALSE)) /\ lost' = lost \cup {path}
  /\ Return(1, stack)
  /\ UNCHANGED <<opt, path, cut, world>>

AtMaxDepth == opt.max_depth >= 0 /\ depth >= opt.max_depth

PrintEntry ==
  /\ pc = "lstat" /\ fs[path] # "none" /\ (~IsDir(path) \/ AtMaxDepth)
  /\ IF fs[path] \in Links /\ opt.long_format
     THEN pc' = "readlink" /\ UNCHANGED <<stack, rc, out>>
     ELSE Prints(Line("none", FALSE)) /\ Return(0, stack)
  /\ UNCHANGED <<opt, path, failures, lost, cut, world>>

\* print_link_target: without memory or without the link, the line ends.
PrintLink ==
  /\ pc = "readlink"
  /\ \/ fs[path] \in Links /\ Succeeds /\ Prints(Line("none", TRUE))
     \/ fs[path] \notin Links /\ Succeeds /\ Prints(Line("none", FALSE))
     \/ fs[path] \in Links /\ Fails /\ Prints(Line("none", FALSE))
  /\ Return(0, stack)
  /\ UNCHANGED <<opt, path, lost, cut, world>>

Lstat ==
  /\ pc = "lstat" /\ IsDir(path) /\ ~AtMaxDepth
  /\ pc' = "opendir"
  /\ UNCHANGED <<opt, stack, path, rc, out, failures, lost, cut, world>>

\* The directory is gone, is none any more, may not be read, or there is no
\* descriptor for it.
OpendirFails ==
  /\ pc = "opendir"
  /\ \/ fs[path] \notin Opened /\ Succeeds
     \/ fs[path] \in Opened /\ Fails
  /\ Prints(Line("opendir", FALSE)) /\ lost' = lost \cup {path}
  /\ Return(1, stack)
  /\ UNCHANGED <<opt, path, cut, world>>

\* The directory is open and printed, or the one that a link leads to which is in
\* its place now; without memory for the entries that is all.
Opendir ==
  /\ pc = "opendir" /\ fs[path] \in Opened
  /\ Prints(Line("none", FALSE))
  /\ \/ /\ Succeeds
        /\ pc' = "readdir" /\ fresh' = {}
        /\ stack' = Append(stack, [dir |-> path, entries |-> <<>>, i |-> 1, rc |-> 0])
        /\ UNCHANGED <<rc, lost>>
     \/ Fails /\ Return(1, stack) /\ lost' = lost \cup {path} /\ UNCHANGED fresh
  /\ UNCHANGED <<opt, path, cut, fs, changes, touched>>

Wanted(p) == opt.show_all \/ Name(p) \notin Hidden

\* The paths that readdir() has still to return; those that have come or gone
\* since the directory was opened it may return or not, and again after it
\* returned them.
Unread ==
  {p \in Children(path) \cup fresh :
     p # <<>> /\ Parent(p) = path /\ Wanted(p)} \ (ToSet(top.entries) \ fresh)

\* Without memory for the name or for the larger array, nothing of the directory
\* is listed.
Readdir ==
  /\ pc = "readdir"
  /\ \E p \in Unread :
       \/ /\ Succeeds
          /\ stack' = [stack EXCEPT ![depth].entries = Append(@, p)]
          /\ fresh' = fresh \ {p}
          /\ UNCHANGED <<pc, rc, lost>>
       \/ /\ Fails /\ Return(1, Front(stack))
          /\ lost' = lost \cup {path} /\ UNCHANGED fresh
  /\ UNCHANGED <<opt, path, out, cut, fs, changes, touched>>

\* Mutant of Sorted: in the order of the directory.
UnsortedEntries == top.entries

\* The place of the k-th entry in the order of name_cmp.
Place(e, k) ==
  Cardinality({j \in DOMAIN e : Name(e[j]) < Name(e[k]) \/ (Name(e[j]) = Name(e[k]) /\ j <= k)})

\* qsort with name_cmp; a name that was read twice stays there twice.
Sorted ==
  LET e == top.entries
  IN  [n \in DOMAIN e |-> e[CHOOSE k \in DOMAIN e : Place(e, k) = n]]

\* The end of the directory: nothing that must be returned is left. An error is
\* taken for the end.
Closedir ==
  /\ pc = "readdir"
  /\ \/ Unread \subseteq fresh /\ Succeeds /\ UNCHANGED cut
     \/ Fails /\ cut' = cut \cup {path}
  /\ stack' = [stack EXCEPT ![depth].entries = Sorted]
  /\ pc' = "next"
  /\ UNCHANGED <<opt, path, rc, out, lost, world>>

\* The next entry; without memory for its path it is left out.
Child ==
  /\ pc = "next" /\ top.i <= Len(top.entries)
  /\ \/ /\ Succeeds
        /\ path' = top.entries[top.i] /\ pc' = "lstat"
        /\ UNCHANGED <<stack, lost>>
     \/ /\ Fails
        /\ stack' = [stack EXCEPT ![depth].rc = 1, ![depth].i = @ + 1]
        /\ lost' = lost \cup {top.entries[top.i]}
        /\ UNCHANGED <<path, pc>>
  /\ UNCHANGED <<opt, rc, out, cut, world>>

LastChild ==
  /\ pc = "next" /\ top.i > Len(top.entries)
  /\ Return(top.rc, Front(stack))
  /\ UNCHANGED <<opt, path, out, failures, lost, cut, world>>

Traverse ==
  \/ LstatFails \/ PrintEntry \/ PrintLink \/ Lstat
  \/ OpendirFails \/ Opendir \/ Readdir \/ Closedir
  \/ Child \/ LastChild

-----------------------------------------------------------------------------
(* Everybody else.                                                          *)

Below(p) == {q \in Paths : IsPrefix(p, q)}

Becomes(p, kind) ==
  LET gone == {q \in Below(p) \ {p} : fs[q] # "none"}
  IN  /\ fs' = [q \in Paths |-> IF q = p THEN kind
                                 ELSE IF q \in gone THEN "none" ELSE fs[q]]
      /\ touched' = touched \cup {p} \cup gone
      /\ fresh' = fresh \cup {p} \cup gone

\* A path is created, is removed with all below it, or comes to be another kind
\* of file.
Change ==
  /\ pc # "done" /\ changes < MaxChanges
  /\ changes' = changes + 1
  /\ \E p \in Paths \ {<<>>} :
       /\ fs[Parent(p)] \in Opened
       /\ \E kind \in Kinds \ {fs[p]} :
            Becomes(p, kind)
  /\ UNCHANGED <<opt, stack, path, rc, pc, out, failures, lost, cut>>

Done == pc = "done" /\ UNCHANGED vars

Next == Traverse \/ Change \/ Done

Spec == Init /\ [][Next]_vars

-----------------------------------------------------------------------------
(* Properties.                                                              *)

\* Every variable has its type.
TypeOK ==
  /\ path \in Paths /\ rc \in {0, 1}
  /\ pc \in {"lstat", "readlink", "opendir", "readdir", "next", "done"}
  /\ stack \in Seq([dir : Paths, entries : Seq(Paths), i : Nat \ {0}, rc : {0, 1}])
  /\ out \in Seq([path : Paths, err : {"none", "lstat", "opendir"}, target : BOOLEAN])
  /\ fs \in [Paths -> Kinds]

\* p comes before q in a depth-first listing with sorted names.
Precedes(p, q) ==
  \/ IsStrictPrefix(p, q)
  \/ \E n \in 1 .. Len(p) : /\ n <= Len(q) /\ p[n] < q[n]
                            /\ SubSeq(p, 1, n - 1) = SubSeq(q, 1, n - 1)

\* q may be the next line after p: it comes later, or the listing comes back to a
\* file on the way to p, because it was removed or changed by others.
Follows(p, q) == Precedes(p, q) \/ (q \in touched /\ IsPrefix(q, p))

\* "Files must be listed according to a depth-first, pre-order traversal", after
\* their directory, also while files come and go: the indentation always shows
\* where a file is.  Each is listed once, unless others have touched it or what it
\* is in: what they touched may come again, at once after what was below it.
Preorder ==
  /\ \A j \in 2 .. Len(out) : Follows(out[j - 1].path, out[j].path)
  /\ \A j \in DOMAIN out : out[j].path # <<>> =>
       \E k \in 1 .. j - 1 : out[k].path = Parent(out[j].path) /\ out[k].err = "none"

Listed == {out[j].path : j \in DOMAIN out}

\* p exists, and not behind a link.
Reached(p) == fs[p] # "none" /\ \A q \in Paths : IsStrictPrefix(q, p) => IsDir(q)

\* What the options ask for.
Asked(p) ==
  /\ opt.max_depth >= 0 => Len(p) <= opt.max_depth
  /\ opt.show_all \/ \A n \in DOMAIN p : p[n] \notin Hidden

\* A failure stays where it happened, and the exit status tells of it: only what
\* was asked for is listed, and all of it that nobody has touched, except below
\* the file that could not be accessed and behind links.
FailuresContained ==
  /\ \A p \in Listed : Asked(p)
  /\ pc = "done" =>
       /\ (rc = 1) <=> (lost # {})
       /\ \A p \in Paths :
            Asked(p) /\ Reached(p) /\ (\A q \in touched : ~IsPrefix(q, p)) =>
              p \in Listed \/ \E q \in lost \cup cut : IsPrefix(q, p)
=============================================================================
