-------------------------------- MODULE Fsort -------------------------------
(***************************************************************************)
(* The parallel merge sort of Asgn 7 (fsort.c).  A call of fsort on more    *)
(* than `min' elements forks a child, which sorts the right half in its own *)
(* copy of the array and writes it into a pipe, sorts the left half by a    *)
(* recursive call, reads the right half from the pipe, waits for the child  *)
(* and merges.                                                              *)
(*                                                                          *)
(* A call is named by the part of the array it sorts, <<first, length>>, and *)
(* a process by the call it was forked for.  An element is a pair of its key *)
(* and its place at the start, the latter only to tell equal keys apart.    *)
(* The unit of the pipes is one element.                                    *)
(***************************************************************************)
EXTENDS Integers, Sequences, FiniteSets

CONSTANTS
  N,             \* the number of elements
  Min,           \* `min', the length up to which no child is forked
  Keys,          \* the keys of the elements
  PipeCap,       \* the number of elements that fit into a pipe
  CallsMayFail,  \* whether pipe() and fork() may fail
  MallocMayFail, \* whether malloc() in merge may fail
  MaxErrors      \* bound on the failures of read, write and waitpid, and on
                 \* the children that are killed

ASSUME FsortAssumption ==
  /\ N \in Nat \ {0} /\ Min \in Nat
  /\ Keys \subseteq Nat
  /\ PipeCap \in Nat \ {0}
  /\ CallsMayFail \in BOOLEAN /\ MallocMayFail \in BOOLEAN
  /\ MaxErrors \in Nat

-----------------------------------------------------------------------------
(* The tree of calls.                                                       *)

Forks(c) == c[2] > 1 /\ c[2] > Min
Mid(c)   == c[2] \div 2
Left(c)  == <<c[1], Mid(c)>>
Right(c) == <<c[1] + Mid(c), c[2] - Mid(c)>>

\* The parts of the array, and their places.
Parts     == {c \in (1 .. N) \X (1 .. N) : c[1] + c[2] <= N + 1}
Region(c) == c[1] .. c[1] + c[2] - 1

Root == <<1, N>>

CallsUnder[c \in Parts] ==
  {c} \cup IF Forks(c) THEN CallsUnder[Left(c)] \cup CallsUnder[Right(c)] ELSE {}

Calls == CallsUnder[Root]
Pipes == {c \in Calls : Forks(c)}   \* the pipe that a call creates
Procs == {Root} \cup {Right(c) : c \in Pipes}

\* The process that runs c, and the call that forked p.
Owner(c)  == CHOOSE p \in Procs : p[1] = c[1]
Forker(p) == CHOOSE c \in Pipes : Right(c) = p

-----------------------------------------------------------------------------
(* Sorting in one process.                                                  *)

cmp(x, y) == x[1] - y[1]

\* The last n of s.
Rest(s, n) == SubSeq(s, Len(s) - n + 1, Len(s))

\* Mutant of Merged: what is left when the right half is used up is copied
\* from the wrong end.
MergedReversesRest(s, t) ==
  LET m[n \in (0 .. Len(s)) \X (0 .. Len(t))] ==
        IF n[1] = 0 THEN Rest(t, n[2])
        ELSE IF n[2] = 0 THEN [k \in 1 .. n[1] |-> s[Len(s) - k + 1]]
        ELSE LET x == s[Len(s) - n[1] + 1]
                 y == t[Len(t) - n[2] + 1]
             IN  IF cmp(x, y) <= 0 THEN <<x>> \o m[<<n[1] - 1, n[2]>>]
                                   ELSE <<y>> \o m[<<n[1], n[2] - 1>>]
  IN  m[<<Len(s), Len(t)>>]

\* merge(): m[<<i, j>>] merges the last i of s with the last j of t.
Merged(s, t) ==
  LET m[n \in (0 .. Len(s)) \X (0 .. Len(t))] ==
        IF n[1] = 0 THEN Rest(t, n[2])
        ELSE IF n[2] = 0 THEN Rest(s, n[1])
        ELSE LET x == s[Len(s) - n[1] + 1]
                 y == t[Len(t) - n[2] + 1]
             IN  IF cmp(x, y) <= 0 THEN <<x>> \o m[<<n[1] - 1, n[2]>>]
                                   ELSE <<y>> \o m[<<n[1], n[2] - 1>>]
  IN  m[<<Len(s), Len(t)>>]

\* What merge() makes of two halves: nothing at all if malloc() fails.
MergeResults(s, t) ==
  {Merged(s, t)} \cup IF MallocMayFail THEN {s \o t} ELSE {}

Part(a, c) == [k \in 1 .. c[2] |-> a[c[1] + k - 1]]

\* a with its part c replaced by s.
WithPart(a, c, s) ==
  [j \in 1 .. N |-> IF j \in Region(c) THEN s[j - c[1] + 1] ELSE a[j]]

\* What the calls that do not fork can make of part c of array a.
Sorted(a, c0) ==
  LET r[c \in Parts] ==
        IF c[2] <= 1 THEN {Part(a, c)}
        ELSE UNION {MergeResults(s, t) : s \in r[Left(c)], t \in r[Right(c)]}
  IN  r[c0]

-----------------------------------------------------------------------------
VARIABLES
  pc,       \* pc[c]: where call c is
  ret,      \* ret[c]: what call c returned
  arr,      \* arr[p]: the array in the memory of process p
  pipe,     \* pipe[c]: what is in the pipe of call c
  read_total, written,
  proc,     \* proc[p]: "none", "alive", "zombie", "reaped"
  exited,   \* exited[p]: the status of p, its exit code, or Killed
  readers,  \* readers[c]: the processes that hold the read end of pipe c
  writers,
  failed,   \* history: whether a pipe() or fork() failed
  errors    \* the number of errors so far

vars == <<pc, ret, arr, pipe, read_total, written, proc, exited, readers,
          writers, failed, errors>>

Killed == -1     \* terminated by a signal

Bytes(c) == Right(c)[2]

Init ==
  /\ \E a \in [1 .. N -> Keys] :
       arr = [p \in Procs |-> [j \in 1 .. N |-> <<a[j], j>>]]
  /\ pc = [c \in Calls |-> IF c = Root THEN "call" ELSE "none"]
  /\ ret = [c \in Calls |-> 0]
  /\ pipe = [c \in Pipes |-> <<>>]
  /\ read_total = [c \in Pipes |-> 0]
  /\ written = [p \in Procs |-> 0]
  /\ proc = [p \in Procs |-> IF p = Root THEN "alive" ELSE "none"]
  /\ exited = [p \in Procs |-> 0]
  /\ readers = [c \in Pipes |-> {}] /\ writers = [c \in Pipes |-> {}]
  /\ failed = FALSE
  /\ errors = 0

At(c, label) == pc[c] = label /\ proc[Owner(c)] = "alive"

Return(c, r) ==
  /\ pc' = [pc EXCEPT ![c] = "done"]
  /\ ret' = [ret EXCEPT ![c] = r]

\* n <= min, or n <= 1.
SortAlone(c) ==
  /\ At(c, "call") /\ ~Forks(c)
  /\ \E s \in Sorted(arr[Owner(c)], c) :
       arr' = [arr EXCEPT ![Owner(c)] = WithPart(@, c, s)]
  /\ Return(c, 0)
  /\ UNCHANGED <<pipe, read_total, written, proc, exited, readers, writers,
                 failed, errors>>

\* Mutant of ForkFails: the result of fork() is passed on.
ForkFailsMinusOne(c) ==
  /\ At(c, "call") /\ Forks(c) /\ CallsMayFail
  /\ Return(c, -1)
  /\ failed' = TRUE
  /\ UNCHANGED <<arr, pipe, read_total, written, proc, exited, readers,
                 writers, errors>>

\* pipe() or fork() fails; in the second case both ends are closed again.
ForkFails(c) ==
  /\ At(c, "call") /\ Forks(c) /\ CallsMayFail
  /\ Return(c, 1)
  /\ failed' = TRUE
  /\ UNCHANGED <<arr, pipe, read_total, written, proc, exited, readers,
                 writers, errors>>

\* Mutant of Fork: the parent does not close its write end.
ForkKeepsWriteEnd(c) ==
  LET p == Owner(c)
      q == Right(c)
      Inherited(ends) ==
        [d \in Pipes |-> IF p \in ends[d] THEN ends[d] \cup {q} ELSE ends[d]]
  IN  /\ At(c, "call") /\ Forks(c)
      /\ pc' = [pc EXCEPT ![c] = "left", ![Left(c)] = "call", ![q] = "call"]
      /\ arr' = [arr EXCEPT ![q] = arr[p]]
      /\ proc' = [proc EXCEPT ![q] = "alive"]
      /\ readers' = [Inherited(readers) EXCEPT ![c] = {p}]
      /\ writers' = [Inherited(writers) EXCEPT ![c] = {p, q}]
      /\ UNCHANGED <<ret, pipe, read_total, written, exited, failed, errors>>

\* The child gets a copy of the array and of every end that is open.  Of the
\* new pipe it closes the read end, and the parent the write end.
Fork(c) ==
  LET p == Owner(c)
      q == Right(c)
      Inherited(ends) ==
        [d \in Pipes |-> IF p \in ends[d] THEN ends[d] \cup {q} ELSE ends[d]]
  IN  /\ At(c, "call") /\ Forks(c)
      /\ pc' = [pc EXCEPT ![c] = "left", ![Left(c)] = "call", ![q] = "call"]
      /\ arr' = [arr EXCEPT ![q] = arr[p]]
      /\ proc' = [proc EXCEPT ![q] = "alive"]
      /\ readers' = [Inherited(readers) EXCEPT ![c] = {p}]
      /\ writers' = [Inherited(writers) EXCEPT ![c] = {q}]
      /\ UNCHANGED <<ret, pipe, read_total, written, exited, failed, errors>>

\* Mutant of LeftDone: a failure in the left half is returned at once.
LeftDoneReturns(c) ==
  /\ c \in Pipes /\ At(c, "left") /\ pc[Left(c)] = "done"
  /\ IF ret[Left(c)] # 0 THEN Return(c, 1)
     ELSE pc' = [pc EXCEPT ![c] = "read"] /\ UNCHANGED ret
  /\ UNCHANGED <<arr, pipe, read_total, written, proc, exited, readers,
                 writers, failed, errors>>

LeftDone(c) ==
  /\ c \in Pipes /\ At(c, "left") /\ pc[Left(c)] = "done"
  /\ pc' = [pc EXCEPT ![c] = "read"]
  /\ UNCHANGED <<ret, arr, pipe, read_total, written, proc, exited, readers,
                 writers, failed, errors>>

\* Mutant of Read: every read() starts at the same place.
ReadOverwrites(c) ==
  LET p == Owner(c)
  IN  /\ c \in Pipes /\ At(c, "read") /\ pipe[c] # <<>>
      /\ arr' = [arr EXCEPT ![p] =
                   WithPart(@, <<Right(c)[1], Len(pipe[c])>>, pipe[c])]
      /\ read_total' = [read_total EXCEPT ![c] = @ + Len(pipe[c])]
      /\ pipe' = [pipe EXCEPT ![c] = <<>>]
      /\ UNCHANGED <<pc, ret, written, proc, exited, readers, writers, failed,
                     errors>>

\* read() takes what is there.
Read(c) ==
  LET p == Owner(c)
      first == Right(c)[1] + read_total[c]
  IN  /\ c \in Pipes /\ At(c, "read") /\ pipe[c] # <<>>
      /\ arr' = [arr EXCEPT ![p] = WithPart(@, <<first, Len(pipe[c])>>, pipe[c])]
      /\ read_total' = [read_total EXCEPT ![c] = @ + Len(pipe[c])]
      /\ pipe' = [pipe EXCEPT ![c] = <<>>]
      /\ UNCHANGED <<pc, ret, written, proc, exited, readers, writers, failed,
                     errors>>

\* The loop ends because all was read, at the end of the pipe (when nobody is
\* left to write), or because read() fails; the read end is closed.
ReadEnd(c) ==
  /\ c \in Pipes /\ At(c, "read")
  /\ \/ read_total[c] = Bytes(c) /\ UNCHANGED errors
     \/ pipe[c] = <<>> /\ writers[c] = {} /\ UNCHANGED errors
     \/ errors < MaxErrors /\ read_total[c] < Bytes(c) /\ errors' = errors + 1
  /\ pc' = [pc EXCEPT ![c] = "wait"]
  /\ readers' = [readers EXCEPT ![c] = @ \ {Owner(c)}]
  /\ UNCHANGED <<ret, arr, pipe, read_total, written, proc, exited, writers,
                 failed>>

\* Mutant of Conclude: the result of the left half is ignored.
ConcludeIgnoresLeft(c, child_failed) ==
  IF child_failed \/ read_total[c] # Bytes(c)
  THEN Return(c, 1) /\ UNCHANGED arr
  ELSE /\ Return(c, 0)
       /\ \E s \in MergeResults(Part(arr[Owner(c)], Left(c)),
                                Part(arr[Owner(c)], Right(c))) :
            arr' = [arr EXCEPT ![Owner(c)] = WithPart(@, c, s)]

\* Return 1 on any sign of a failure, otherwise merge and return 0.
Conclude(c, child_failed) ==
  IF ret[Left(c)] # 0 \/ child_failed \/ read_total[c] # Bytes(c)
  THEN Return(c, 1) /\ UNCHANGED arr
  ELSE /\ Return(c, 0)
       /\ \E s \in MergeResults(Part(arr[Owner(c)], Left(c)),
                                Part(arr[Owner(c)], Right(c))) :
            arr' = [arr EXCEPT ![Owner(c)] = WithPart(@, c, s)]

Wait(c) ==
  /\ c \in Pipes /\ At(c, "wait") /\ proc[Right(c)] = "zombie"
  /\ proc' = [proc EXCEPT ![Right(c)] = "reaped"]
  /\ Conclude(c, exited[Right(c)] # 0)
  /\ UNCHANGED <<pipe, read_total, written, exited, readers, writers, failed,
                 errors>>

\* waitpid() fails: what it should have stored was never initialized.
WaitFails(c) ==
  /\ c \in Pipes /\ At(c, "wait") /\ errors < MaxErrors
  /\ errors' = errors + 1
  /\ \E child_failed \in BOOLEAN : Conclude(c, child_failed)
  /\ UNCHANGED <<pipe, read_total, written, proc, exited, readers, writers,
                 failed>>

-----------------------------------------------------------------------------
(* What a child does when its call has returned.                            *)

Child(p) == p # Root /\ At(p, "done")

Writing(p) == Child(p) /\ ret[p] = 0 /\ written[p] < p[2]

Write(p) ==
  /\ Writing(p)
  /\ readers[Forker(p)] # {} /\ Len(pipe[Forker(p)]) < PipeCap
  /\ pipe' = [pipe EXCEPT ![Forker(p)] = Append(@, arr[p][p[1] + written[p]])]
  /\ written' = [written EXCEPT ![p] = @ + 1]
  /\ UNCHANGED <<pc, ret, arr, read_total, proc, exited, readers, writers,
                 failed, errors>>

\* The process is gone, and all its ends are closed.
Exit(p, s) ==
  /\ proc' = [proc EXCEPT ![p] = "zombie"]
  /\ exited' = [exited EXCEPT ![p] = s]
  /\ readers' = [c \in Pipes |-> readers[c] \ {p}]
  /\ writers' = [c \in Pipes |-> writers[c] \ {p}]
  /\ UNCHANGED <<pc, ret, arr, pipe, read_total, written, failed>>

ChildExit(p) == Child(p) /\ ~Writing(p) /\ Exit(p, ret[p]) /\ UNCHANGED errors

\* write() fails: the child gives up and exits with the result of its sort.
WriteFails(p) ==
  /\ Writing(p) /\ errors < MaxErrors
  /\ errors' = errors + 1
  /\ Exit(p, ret[p])

\* SIGPIPE.
WriteKills(p) ==
  /\ Writing(p) /\ readers[Forker(p)] = {}
  /\ Exit(p, Killed)
  /\ UNCHANGED errors

\* Somebody kills a child, whatever it is doing.
Kill(p) ==
  /\ p # Root /\ proc[p] = "alive" /\ errors < MaxErrors
  /\ errors' = errors + 1
  /\ Exit(p, Killed)

Step(p) ==
  \/ \E c \in Calls :
       /\ Owner(c) = p
       /\ \/ SortAlone(c) \/ Fork(c) \/ ForkFails(c) \/ LeftDone(c)
          \/ Read(c) \/ ReadEnd(c) \/ Wait(c) \/ WaitFails(c)
  \/ Write(p) \/ ChildExit(p) \/ WriteFails(p) \/ WriteKills(p)

Returned == pc[Root] = "done"

\* fsort has returned and its children are gone.
Finished ==
  /\ Returned /\ \A p \in Procs \ {Root} : proc[p] # "alive"
  /\ UNCHANGED vars

Next == (\E p \in Procs : Step(p) \/ Kill(p)) \/ Finished

Spec == Init /\ [][Next]_vars

FairSpec == Spec /\ \A p \in Procs : WF_vars(Step(p))

-----------------------------------------------------------------------------
(* Properties.                                                              *)

Elements == Keys \X (1 .. N)

\* Every variable has its type.
TypeOK ==
  /\ pc \in [Calls -> {"none", "call", "left", "read", "wait", "done"}]
  /\ ret \in [Calls -> {0, 1}]
  /\ \A p \in Procs : arr[p] \in Seq(Elements) /\ Len(arr[p]) = N
  /\ \A c \in Pipes : /\ pipe[c] \in Seq(Elements)
                      /\ Len(pipe[c]) <= PipeCap
                      /\ read_total[c] \in 0 .. Bytes(c)
  /\ written \in [Procs -> 0 .. N]
  /\ proc \in [Procs -> {"none", "alive", "zombie", "reaped"}]
  /\ exited \in [Procs -> {0, 1, Killed}]
  /\ readers \in [Pipes -> SUBSET Procs] /\ writers \in [Pipes -> SUBSET Procs]
  /\ failed \in BOOLEAN /\ errors \in 0 .. MaxErrors

IsSorted(a) ==
  \A j \in 1 .. N - 1 : \/ cmp(a[j], a[j + 1]) < 0
                        \/ a[j][1] = a[j + 1][1] /\ a[j][2] < a[j + 1][2]

IsPermutation(a) == {a[j][2] : j \in 1 .. N} = 1 .. N

\* The comment before fsort: it should sort the elements, and returns 0 if it
\* did.  Holds through every failure that the code meets, but for malloc.
ZeroMeansSorted ==
  Returned /\ ret[Root] = 0 => IsPermutation(arr[Root]) /\ IsSorted(arr[Root])

\* The same comment: 1 is returned if a child could not be created, at any
\* depth of the tree, and only then as long as nothing else fails.
OneMeansFailed ==
  Returned => /\ failed => ret[Root] = 1
              /\ ret[Root] = 1 /\ errors = 0 => failed

\* The assignment: if fork fails, the array is left partially sorted, so
\* with all its elements, wherever in the tree it fails.
NothingLost ==
  Returned /\ errors = 0 => IsPermutation(arr[Root])

\* The child is waited for before the call that forked it returns, also when
\* the left half, the child or one of its children has failed.
AllReaped ==
  errors = 0 =>
    \A c \in Pipes : pc[c] = "done" => proc[Right(c)] \in {"none", "reaped"}

\* Whatever fails or is killed, fsort returns and no process stays behind: the
\* ends of the pipes that children inherit keep nobody waiting for ever.
AllEnd == <>(Returned /\ \A p \in Procs \ {Root} : proc[p] # "alive")
=============================================================================
