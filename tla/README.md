# Verification of the CSC 357 programs

TLA+ models of the programs in `src/`, the TLC configurations that check them
on small instances, and proofs, checked by TLAPS, of what holds for any size.

The repository is a set of independent C programs, one per assignment. They
share no code (only `freq` uses `dict`), but those that read text are filters that
a user puts together. Most of what is hard to test is in
three of them, in which several processes, or a process and a signal handler,
or several hosts act at the same time: `batch`, `fsort` and `gossip`. The rest
are sequential programs; there the interest is in data structures and in
conversions that must be inverse to each other.

## 1. Inventory

| component | state | operations | interacts with | hard parts |
|---|---|---|---|---|
| `Asgn 6/batch.c` parallel job runner | the table `jobs_running`, `active`, `next_cmd`, flags set by a signal handler; the children | launch, `add_job`, `wait`, `remove_job`, `kill_all_running`, handler | kernel (fork, wait, kill, signals), the commands | handler interleaved with the table updates, signals lost between `fork` and `add_job` or before the child resets its handlers, failures of fork/malloc/realloc, inherited children |
| `Asgn 7/fsort.c` forking merge sort | a copy of the array per process, a pipe per call, the inherited ends of pipes | `fsort` (recursive), `merge`, the child's writes, the parent's reads | kernel (pipe, fork, waitpid), caller's comparator | a tree of processes, pipes that fill up, descriptors that are inherited, any call failing at any depth |
| `Asgn 8/gossip.c` chat node and network | the poll table `pfds`, `stdin_open`; TCP connections | listen, connect, poll, accept, read, forward, timeout | other nodes over TCP, the user | entries move while they are served, peers leave at any time, full send buffers, many nodes |
| `Asgn 3/dict.c` hash table | `cap`, `arr`, `size` | create, destroy, get, insert (rehash), remove, keys | `freq` | rehashing, equal hash codes, failing allocations |
| `Asgn 3/freq.c` word frequencies | word buffer, a dictionary of counts on the heap | read, count, sort, print, free | `dict`; files that `todos` or `tounix` wrote | growth of the buffer, ties, who owns the counts, allocations that fail without a sign |
| `Asgn 4/lzw.c` compressor | dictionary, current string, bit writer and reader | encode, decode | files | the two dictionaries one step apart, the full dictionary, half bytes |
| `Asgn 1/chars.c` (`todos`, `tounix`) line ends | one pending CR per direction, kept between calls | `dtou`, `utod` | standard streams; what reads the file next | several CRs, characters that are replaced or left out, the end of the input |
| `Asgn 2/hist.c` histogram | the columns, the datapoints, the intervals | read, sum, bin, draw | standard streams | interval boundaries below zero, the width of `int`, line ends of DOS |
| `Asgn 5/tree.c` directory listing | the recursion with the sorted entries of each level | `traverse`: lstat, opendir, readdir, recurse | the file system, whoever changes it | files that come and go meanwhile, failures at any depth |

What makes each correct:

- **batch**: at most `-n` commands at a time; the table the handler reads lists
  the live children; the exit status says what happened; nothing is left behind;
  after a failure with `-e`, or a signal, nothing more starts and the batch ends.
- **fsort**: 0 means sorted; 1 means a process could not be created; no element
  is lost; every process ends and is waited for.
- **gossip, node**: each descriptor is watched once, each ready one is served,
  nobody is shut out, the node leaves only after a real timeout.
- **gossip, network**: a line is printed once everywhere, in order, never at home.
- **dict**: it is a map, with at most one entry per chain on average.
- **lzw**: expanding what was compressed gives the text back; nothing but a byte
  that is no character is looked for in vain.
- **chars**: the text keeps everything but its line ends, however it is cut into
  calls. **hist**: each bar is as high as there are rows in its interval.
  **freq**: the most frequent words with their counts, ties in alphabetical order,
  and every count is freed once. **tree**: depth first, each file below its
  directory and once, unless others touch it or what it is in meanwhile; what is missing is reported.

The hazards, each at its line, are listed in `PROJECT.json` with the properties
that would catch them.

## 2. Modules

| module | models | abstract specification |
|---|---|---|
| `Batch` | `batch.c` | |
| `BatchProofs` | theorems about `Batch` | |
| `GossipNode` | one node's poll loop | |
| `GossipProofs` | theorems about `GossipNode` | |
| `GossipNet` (`MCGossipNet`) | the network of nodes | `Chat` |
| `GossipNetProofs` | theorems about `GossipNet`, and that it implements `Chat` | |
| `Fsort` | `fsort.c` | |
| `FsortProofs` | theorems about `Fsort` | |
| `Dict` | `dict.c` | `Map` |
| `DictProofs` | theorems about `Dict`, and that it implements `Map` | |
| `Chars` | `chars.c` | |
| `Hist` | `hist.c` | |
| `Freq` | `freq.c`, over an instance of `Dict` | |
| `Text` (`MCText`) | `todos.c`, `tounix.c`, and the pipe from them to `hist` and `freq`: composes `Chars`, `Hist`, `Freq` and `Dict` | `Map` |
| `TextProofs` | theorems about `Text`: `Chars`, `Hist`, `Freq` and their dictionary | |
| `Lzw` | `lzw.c` | |
| `LzwProofs` | theorems about `Lzw` | |
| `Tree` (`MCTree`) | `tree.c` and the file system it reads | |
| `TreeProofs` | theorems about `Tree` | |

Definitions have the names of the functions and variables they stand for where
TLA+ allows it. An operator that is introduced by a comment "Mutant of" is not
part of a specification: it is the body a definition would have with a
plausible bug in it, and `PROJECT.json` names the property that notices it.

### Batch

`main` is one process with a program counter `pc`; the steps are cut where the
handler or a child could tell the difference:

| action | code |
|---|---|
| `Loop` | the head of `while (next_cmd < cmd_cnt \|\| active > 0)` and the test of `got_term_signal` that follows |
| `Fork`, `LaunchFails`, `LaunchDone` | the launching loop: fork, its failure, `if (active == 0) break` |
| `Grow`, `GrowFails`, `Publish` | `add_job`: around `realloc`, then the assignments that make the pid visible to the handler |
| `Reap` | `wait`, retried on EINTR, or failing because there is no child |
| `Remove`, `Compact`, `RemoveUnknown` | `remove_job`: first the count, then the move of the last entry; a pid that is not in the table |
| `CheckStatus`, `Recheck` | the status, `-e`, the flag again |
| `signal_handler` | the handler, between any two steps of `main` |
| `ChildHandler`, `ChildExec`, `ChildExit` | a child: it inherits the handler and a copy of the table, resets its signals, executes its command |

`child[c]` is the kernel's view of child `c`. A SIGTERM that comes before the
child has reset its handlers makes it "signalled": it runs the handler of
`main` on its own copy of the table and goes on. While `realloc` works ("grow")
`jobs_running` may point to freed memory; what the handler then kills is any
subset of the table. That it reads pids which are none of the table's, or is killed
itself, is not modelled. Standard error and the parsing of the arguments are left
out, but not what becomes of the n of `-n`: it is checked as a long (`GivenN`) and
converted to `int` (`ToInt`), so that the limit may come out as zero, as negative or
as the -1 that stands for no limit (`Limit`). `main` starts with `-e`, this limit and
the number of commands known.

### GossipNode

The array `pfds`, the pass `i` over it with the `revents` that `poll` left, and
for every descriptor the state of the connection: "up", closed ("fin") or reset
by the peer, or "broken" (a write after a reset, the next of which raises
SIGPIPE). The environment (user, peers, time) may act between any two steps.
`Accept` takes any number of connections that the failure of `accept` or the
supply of descriptors allows and may hand out the number of a descriptor that
was closed earlier in the same pass. `StdinNoMemory` is the `break` out of the
pass when `malloc` fails; what is left of the pass is given up (`due` is emptied) and
reported by the next `poll`. A `poll` may be interrupted (`PollInterrupted`: it is called
again, with the whole TIMEOUT) or fail otherwise (`PollFails`: the node ends with
success, as it does after a timeout). Between the return of 0 (`PollTimeout`) and
the closing of the sockets (`Exit`) the environment may act; what comes in
then is lost and remembered in `missed`. `quiet` (time since data came in), `due` (what
`poll` reported and the pass has not yet come to) and `missed` are history variables.

### GossipNet and Chat

The nodes of a network, at the granularity of one ready descriptor per step.
Node `l`'s own connection is the link `l`; `wire[<<l, n>>]` is what travels to `n` on
it. `send_all` drops what does not fit, as the code does with a non-blocking
socket; `Leave` loses what was on its way to the node. A line is one unit.
`Trees` limits who is told to connect to whom: the addresses form a forest.

`Chat` says what users may rely on: at each node every line of another user at
most once, those of one user in order. Lines may be missing. `IsChat` is the
refinement, under which `typed` and `printed` are themselves and everything else
is hidden.

### Fsort

A call is `<<first, length>>`, a process the call it was forked for. Every
process has its own `arr`, as after `fork`. `readers` and `writers` are the
processes that hold an end of a pipe, inherited ends included: the end of a pipe
is seen only when `writers` is empty. A call's steps are `Fork`, `LeftDone`,
`Read`*, `ReadEnd`, `Wait`; a child's are `Write`*, `ChildExit`. `ForkFails` stands
for a failing `pipe` or `fork`; `WriteFails`, `WaitFails`, the failing read in
`ReadEnd` and `Kill` (somebody kills a child) are limited by `MaxErrors`. A
`waitpid` that fails leaves `status` uninitialized: the result is arbitrary.
Sorting in one process is a recursive function of the array.

### Dict and Map

A call is one step; the chains are sequences with the newest node first and
`Rehashed` keeps the order in which the code moves nodes.
When `calloc` and then `malloc` fail in one call, this counts as one failure (`AddNothing`). `call` remembers which
call `result` answers, so that `IsMap` says that every answer is right. Hash
codes are computed as in `dcthash` from the first `HashChars` characters. The
calls come from `Freq` or, in any order, from a program like `dicttests.c`.

### Chars, Hist, Freq and Text

`Chars` keeps `pending_cr` for each of the two functions, and what each of them has
taken and given. A call passes a character and its replacement; which of the
cases applies is `Convert`.

`Hist` is `main` line by line: `Header`, `Row`, `BadRow` read one line as `fgets` cuts it,
`Draw` computes the intervals. A number is one character, so that a cell is a short
sequence; blanks, quotes and carriage returns are characters of their own.
Division truncates (`Quot`, `Rem`) and `ToInt` cuts a number to one of the
`IntValues` values of an `int` (2^32).

`Freq` is `main` character by character. A count is known by its pointer: `cells`
gives its value, `live` the pointers not yet freed, and the dictionary, an instance
of `Dict`, maps words to pointers. `malloc`, `calloc` and `realloc` may fail
wherever they are called; `malloc` gives an address that is not in use.

`Text` lets a user run one of these programs on a file: `tounix`, `todos` or nothing
in front of `hist` or `freq`, and the conversions and the dictionary under the free
calls of a test program. One set of variables serves all of them, and each module
is an instance over its part. The history `table` is what the rows of the file
were before they became characters.

### Tree

`stack` holds the invocations of `traverse()` that are in their loop over the
entries: directory, entries, index, `rc`. `pc` is the next system call, so that others
(`Change`) can create, remove or replace files between any two of them; `fresh` are
the files touched since the directory was opened, or since `readdir` returned
them. POSIX leaves it open whether `readdir` returns those: it may or may not, and
once more after each change (`Unread`). `tree` keeps no set of the names it has seen,
so such a name is in `entries` twice, and `Sorted` leaves it there twice. A directory may be
replaced by a link to a directory ("dirlink") after `lstat`: `opendir` follows it and
it is listed; what is below such a link is taken to be apart from
everything else. Each allocation and each call may fail while `MaxFailures` allows. `out` is
the list of lines, without indentation: the depth of a line is the length of its
path.

### Lzw

`encode_file` step by step (`EncodeFirst`, `Extend`, `Emit`, `EncodeEnd`), its bytes in
`file`, then `decode_file` on that file. The source is made of any bytes (`Input`), also of
those that are no characters of the initial dictionary: `dict_find` returns -1 for
such a byte, which is written cut to three digits (`Digits`), that is as `MaxCode`; where
the decoder reads an entry that does not exist yet, it gets an empty string or what was in memory
(`Entry`). Digits in base `Base` replace nibbles, so
that a dictionary with three-digit codes can fill up in a short run. Without memory
the encoder ends at once (`EncodeFails`), loses an entry without notice (`Add`) or is
killed with a part of the file written (`EncodeDies`); the decoder ends or is
killed (`DecodeFails`).

## 3. Runs

Every run takes at most about two and a half minutes with two workers. Deadlock is checked in all of them but
`fsort`, where a deadlock is what `AllEnd` excludes; a
program that has ended stutters explicitly (`Finished`, `Gone`, `Quiet`).

| run | bounds | shows |
|---|---|---|
| `batch_safety` | 4 commands, `-n` 1, 2, 3, none, or cut by an `int` of 16 values to 2, 0, -1 or -4, 1 signal, first capacity 1 | `AtMostN`, `TableMatches`, `WaitsForSomething`, `Verdict`, `NoOrphans`, `NoStartAfterFailure` |
| `batch_live` | 3 commands, `-n` 1, 2, none, or cut to 0, -1 or -4, 1 signal, 1 inherited child | `FailureRemembered`, `BatchEnds`, `QuietShutdown` |
| `batch_bad_signal` | 3 commands, 1 signal | refutes `SignalStopsBatch` (section 6) |
| `gossip_node` | 2 descriptors, backlog of 1, calls may fail | `WatchesOpenOnes`, `PassServesAll`, `NoEarlyExit`, `EveryoneServed` |
| `gossip_chat` | 4 nodes, 2 lines, 1 line per buffer, 1 node leaves | `LinksMatch`, `IsChat` |
| `gossip_reach` | 3 nodes, 2 lines, buffers that suffice | `ReachesEveryone` |
| `gossip_bad_full` | 2 nodes, 2 lines, 1 line per buffer | refutes `ReachesEveryone` (section 6) |
| `fsort` | 6 elements, `min` 2, 2 keys, pipes of 2 elements, 1 error | `ZeroMeansSorted`, `OneMeansFailed`, `NothingLost`, `AllReaped`, `AllEnd` |
| `fsort_bad_malloc` | 4 elements, `malloc` may fail | refutes `ZeroMeansSorted` (section 6) |
| `text` | files of up to 5 characters or 4 words for `freq`, tables of up to 5 rows and 3 columns for `hist`, 6-bit `int`, 5 calls of the conversions, 4 keys (some collide) and 2 values for other users of the dictionary, 1 failed allocation | `Converts`, `Histogram`, `RowsSummed`, `TopWords`, `CountsOwned`, `WellPlaced`, `IsMap` |
| `lzw` | sources of up to 8 bytes, of two of three characters and one byte that is none, 8 codes, 1 failed allocation | `RoundTrip`, `Matching`, `InStep` |
| `tree` | 5 paths on 3 levels, two of them hidden, `-d` absent or 1, 2 changes, 1 failed call | `Preorder`, `FailuresContained` |

Why the bounds suffice:

- *batch*: with a first capacity of 1 the table grows at the first, second and
  third job, so `realloc` meets every state; four commands and three places give
  replacement of a job from the front, the middle and the end of the table, and
  a launch with others still running. An `int` of 16 values lets the conversion of `-n`
  give zero, the -1 that stands for no limit, another negative number, and a positive one
  that was not meant. The theorems of section 5 have no
  bounds, here and for the gossip node.
- *gossip node*: two peers are what it takes for a removal to move an entry that
  is not yet served and for a descriptor to be reused within a pass. The backlog
  fills again while the pass goes on, and one tick of TIMEOUT lets `poll` return 0 early,
  late and after an interruption.
- *gossip network*: four nodes have the path of three links and the star; with a
  buffer of one line both the loss and the passing of lines occur.
- *fsort*: six elements with `min` 2 are two levels of forks (both halves fork
  again) above parts of one and of two elements, the latter sorted by the
  recursion without a fork; a pipe of two elements makes the root's child block.
- *dict*: from one chain the array grows at the second and the fourth key.
- *text*: five calls cover every pair of held-back, replaced and left-out
  characters around a line end; the datapoints lie on both sides of zero and of a
  multiple of ten, at odd and even distances, and with 6 bits the number of
  intervals overflows; a fifth row is one more than `MaxRows`; a buffer of two
  characters grows in the first word; two of four words are printed. The lines of the
  tables are shorter than the buffer of `fgets`, whose cut this run does not reach.
- *lzw*: eight codes, three of them for characters: the dictionary is full after five
  entries, and texts of seven bytes fill it, and those of eight go on after that. The fourth value
  of a byte is no character.
- *tree*: three levels let a failure pass through a level that has gone on; two
  changes let a file go and come back as another kind, and be returned by `readdir`
  twice.

## 4. Fairness

- `Batch!FairSpec`: `main` runs, a child gets to execute its command. Commands
  may run for ever; `BatchEnds` makes their end a hypothesis of its own
  (`CommandsEnd`), `QuietShutdown` does not.
- `GossipNode!FairSpec`: the node's process runs, and from some time on `accept`,
  `malloc` and `realloc` no longer fail (`<>[][~CallFails]_vars`): a node that never gets
  memory for a line or a descriptor for a connection cannot serve them. Nothing is
  assumed of users, peers or time.
- `GossipNet!FairSpec`: each node that was started connects, accepts and reads
  each of its links (what `EveryoneServed` shows of one node).
- `Fsort!FairSpec`: each process runs when it can. Kills and errors are not fair.

All of it is the weak fairness of a scheduler that lets every runnable process
run; a step that stays enabled is the next one of its process, or, in
`GossipNet`, of a loop that was shown to serve all of its descriptors.

## 5. Proofs

`BatchProofs` proves, for every number of commands, every `-n`, every initial
capacity, any number of signals and with every allocation and fork free to fail:

| theorem | statement |
|---|---|
| `TypeCorrect` | `Spec => []TypeOK`, also with inherited children |
| `TableCorrect` | `Spec => []TableMatches` |
| `LimitHolds` | `Spec => []AtMostN` |
| `NoneLeftBehind` | `Spec => []NoOrphans` |
| `FailureNotLost` | `Spec => []FailureRemembered`, also with inherited children |
| `StopsAtFailure` | `Spec => NoStartAfterFailure`, also with inherited children |
| `VerdictIsRight` | `Spec => []Verdict` |
| `WaitIsJustified` | `Spec => []WaitsForSomething` |

So every safety property that the runs check of `Batch` is also a theorem. Those
not marked assume `NForeign = 0`, that is that the process had no children
when it became `batch`. With inherited children `AtMostN` is false: when `wait`
returns one of them the code counts a job as finished, and one command more
than `-n` may run.

The argument has layers. `TInv` adds to the types which counters are bounded
where (`next_cmd < NCmds` from `Fork` to `Publish`, `jobs_running_cnt` against the
length of the array); it is inductive. `Table` then relates the array, the
counter `active` and the children: the entries are distinct and are exactly the
children not yet waited for (less the one between `fork` and `add_job`, plus the
one being removed), and `active` is their number. It is needed because none of
the three goals is inductive: the limit is tested on `active`, what it should
bound is the set of live children, and the link between the two is the table.
`AtMostN` follows by counting, `NoOrphans` because `main` returns only when
`active` is 0 or `wait` has said that there are no children.

`FailureCounts` (a failed child that was waited for is in `overall_success` and,
with `-e`, in `abort_requested`, or is the one `main` is about to look at) gives
`FailureRemembered`, and with it `NoStartAfterFailure`: `Fork` is the only step
that starts a child, and at `"launch"` no failure is still to be looked at. It does
not need `Table`, so it holds for inherited children too. `Reasons` says why
`overall_success` has its value (nothing skipped while it is `TRUE`; a signal, a
failure or a skipped command when it is `FALSE`); at `"exit"`, with `NoOrphans` and
`FailureCounts`, it is `Verdict`. `Verdict` has two sides: with a limit of one or more,
success means that every command was started, waited for and successful; with a limit below
one, which the conversion to `int` can give, it says what success means instead: no
command was started at all (section 6). `NoIdlePlace` keeps what `LaunchDone` tested until
`wait` returns; a bijection from the indices of the array to the children turns
its count into the number of children, which is `WaitsForSomething`.

`GossipProofs` proves, for any finite number of peers, every TIMEOUT, any amount of
waiting data and connections, and with `accept` and the allocations free to fail
or not:

| theorem | statement |
|---|---|
| `TypeCorrect` | `Spec => []TypeOK` |
| `WatchCorrect` | `Spec => []WatchesOpenOnes` |
| `PassCorrect` | `Spec => []PassServesAll` |
| `ExitIsJustified` | `Spec => []NoEarlyExit` |

So every safety property that the run checks of `GossipNode` is also a theorem. They
rest on three facts about the array (`RemoveProperties`, `AcceptProperties`,
`DropProperties`): a removal keeps every other entry and moves the last one only,
to the place of the one that goes; what `accept` returns is appended, each
descriptor once, in an order that is a bijection. `WatchesOpenOnes` is inductive
together with `TypeOK`. `PassServesAll` is not inductive without them: serving the
entry at `i` takes one descriptor from what is still due, and that is what the rest of the
array loses only if no other entry has the same descriptor. `ServedPending`,
`DroppedPending` and `AcceptedPending` say it for the three ways to go on; the second
is where the `i--` after a removal is needed. `NoEarlyExit` needs `ClocksAgree`: while
the node is in `poll()`, the time since that call is not more than the time
since the last data; and `ClosedIsEmpty`, by which nothing is unread in a descriptor that
the array does not watch, so that what `poll` does not see does not exist. It is about the
exit after `poll` returned 0. After a `poll` that fails the node ends with the same status at any
time (pc "failed"), and nothing is claimed of it.

`GossipNetProofs` proves, for any finite number of nodes, every forest of addresses,
every capacity of the buffers, any number of lines and nodes that leave at any
time:

| theorem | statement |
|---|---|
| `TypeCorrect` | `Spec => []TypeOK` |
| `EndsAgree` | `Spec => []LinksMatch` |
| `NetworkIsChat` | `Spec => IsChat`: the network implements `Chat` |

`LinksMatch` compares the two ends of a link and is not inductive: `LinkStates` says where
a link is when its node has not started, has made it or is gone, `Matched` what
each end may rely on of the other while the accept is still to come. For the
refinement, cutting a link of a forest leaves two sides; `Behind(l)` is the side of
`l`, defined as the least set with `l` that is closed under who connects to whom, so that
no induction is needed. `Away(l, n, o)`: on its way to `n`, link `l` leads away from
`o`. `Faithful` says that every line travels away from the node where it was
typed, that those it has passed know it, and that the lines of one node
follow each other on every link and in front of it. When a node receives a line
it has therefore not printed it, nor a later one of the same user, whatever was
dropped before; that is the step of `Chat`.

`LzwProofs` proves, for every set of bytes that sources have, every number of characters,
every base of the digits and number of codes they can write, any length of the
source and any allocation that fails:

| theorem | statement |
|---|---|
| `TypeCorrect` | `Spec => []TypeOK` |
| `MatchingCorrect` | `Spec => []Matching` |
| `InStepCorrect` | `Spec => []InStep` |
| `RoundTripCorrect` | `Spec => []RoundTrip` |

`TypeCorrect` and `MatchingCorrect` are about any source. `RoundTrip` and `InStep` have the
precondition `Text`: all bytes of the source are characters of the initial dictionary. It is that of
the assignment: "You may assume, for the sake of simplicity, that no file to be encoded will
contain characters outside the range 0x01 - 0x7F" (`asgn4.pdf`). The program does not
check it; section 6 says what becomes of other files.

`Encoder` is inductive alone and gives `Matching`: entries are distinct, each is an
earlier one and a byte, or begins with a byte that is no character, and what is being matched is an
entry or such a byte. `Codec` adds that there
are `n` codes and the places where they cut the source (`Sent`): the file holds
their digits up to half a byte (`InFile`, `Aligned`), and entry `j` of the dictionary
is the string of code `j` with the character behind it (`Entries`). `Received` says
that the decoder has read a number of these codes, has written what lies before
that cut, and has the encoder's dictionary less one entry. The case in which a code
refers to the entry that the decoder is about to make is `EntryCorrect`: what was
read last, with its own first character. `RoundTrip` is what `Received` says at the end
of the file.

`FsortProofs` proves, for every number of elements, every `min`, all keys, every
capacity of the pipes, any number of failures and kills:

| theorem | statement |
|---|---|
| `TypeCorrect` | `Spec => []TypeOK` |
| `ChildrenReaped` | `Spec => []AllReaped` |
| `FailureReported` | `Spec => []OneMeansFailed` |
| `ZeroSorted` | `Spec => []ZeroMeansSorted`, if `~MallocMayFail` |
| `ElementsKept` | `Spec => []NothingLost` |

`ZeroSorted` needs its assumption: the run `fsort_bad_malloc` refutes the same formula
without it. So every safety property that the runs check of `Fsort` is a theorem.
`FsortProofs` first shows that the recursive functions exist, and then the shape of the
tree: of two calls, one is within a half of the other or they are apart (`Laminar`), so
that a process runs the calls of one place, each in the left half of the next
(`Shorter`, `RightLongest`). `MergingIs` shows that `Merged` of two ascending
sequences is ascending and has their elements, `SortedIs` that sorting in one process
does what it should.

`Control` is the inductive invariant about processes and results. Its core is
`Nested` (of the calls of one process at most one is at work, the longer ones wait
for their left halves) and `Amounts` (what was read and what is in a pipe is what
the child has written, and it writes only when its sort returned 0);
`Undisturbed` and `Reported` follow a failure to the root. `Data` relates the arrays
of different processes: a part not yet begun is as it was (`Unsorted`); what was
read, with what is in the pipe, is the beginning of what the child has in its own
array (`Sent`); a returned call has permuted its part and, if it returned 0, sorted it,
as long as no longer call of the same place has returned since (`Halves`,
`Current`). `NothingLost` needs `errors = 0` in `Halves` for the calls that returned
1: a read that stops half way has overwritten the front of the right half.

`TreeProofs` proves, for every set of paths, every file system on it, every name that is
hidden, any `-d`, and any number of changes and failures:

| theorem | statement |
|---|---|
| `TypeCorrect` | `Spec => []TypeOK` |
| `ListingInOrder` | `Spec => []Preorder` |
| `FailuresStay` | `Spec => []FailuresContained` |

So every safety property that the run checks of `Tree` is a theorem. `TreeAssumption` says
that paths are closed under parents and that what exists at the start is in a directory or behind a link to one;
`FileTree` keeps the latter through every change. `Coming` is the set of paths to which the
listing will still come: the one at hand and the later entries of every open
directory. `InOrder` says that any of them may follow what was printed last, and is
inductive with `Branch` (the current entries of the stack lead to the path at hand) and
`Arranged` (closed directories are in order, a name twice only if others touched it): what
lies below an entry comes before the later entries of the same directory
(`BeforeSibling`), and the second of two equal entries is a path that the listing comes back to
(`Follows`). `Sorted` is defined by `CHOOSE`: `Placed` shows that the places of the entries are all
different, so that each place has its entry, and `SortedIs` what order they are in then.
`Preorder` is about pairs of lines that follow each other, because the order is not transitive
any more where a path comes again; of a file that nobody has touched, nor any directory it is in,
it still follows that no later line can be the same. `NothingForgotten` says
of every existing path that nobody has touched that it is listed, lies below a failure, or
will be come to; when a directory is closed this needs that the way to such a path
exists and is untouched too (`Exists`, `ChildTowards`), so that `readdir` had to return it.
`Failures` follows the 1 of a failed call up the stack. At the end nothing is to come,
and what remains is `FailuresContained`.

In all of these proofs induction over data is done with a least element of a set of
numbers, which first-order provers can follow, since the induction theorems of the
library take operators as parameters.

`DictProofs` proves, for every set of keys and values, every hash function that gives
natural numbers, every first capacity and any number of failed allocations:

| theorem | statement |
|---|---|
| `DictTypes` | `Spec => []TypeOK` |
| `DictWellPlaced` | `Spec => []WellPlaced` |
| `DictLoadBounded` | `Spec => []LoadBounded` |
| `DictIsMap` | `Spec => IsMap`: the hash table implements `Map` |

The three invariants are inductive only together (`IInv`): the load can be bounded after an
insertion because `size` is the number of nodes, and that needs that a removal takes exactly one,
for no key has two. The proof speaks of the set of nodes (`NodesIn`), their keys and
their number. `NodeAdded`, `NodeRemoved` and `NodeOverwritten` say how a change of one chain
changes them; `Moved` follows the loop that moves nodes to the larger array, node by
node, and `RehashedNodes` concludes that it loses none and puts each where its
new index is, also when the loop reads the chains in an order that reverses them.
For the refinement, `LookupFinds` and `EntriesAre` identify the map with the set of nodes, which
makes a step that moves all nodes a stutter of `Map`, and `KeysListed` shows that `dctkeys`, which goes through
the chains, lists each key once.

`TextProofs` proves, for any characters, essays, tables and line ends, any calls of the tests and
any number of failed allocations:

| theorem | statement |
|---|---|
| `TextConverts` | `Spec => []Converts` |
| `TextHistogram` | `Spec => []Histogram` |
| `TextTopWords` | `Spec => []TopWords`, if `WordsAreKeys` and `EssaysAreText` |
| `TextTypes` | `Spec => []TypeOK`, if `WordsAreKeys` |
| `TextCountsOwned` | `Spec => []CountsOwned`, if `WordsAreKeys` |
| `TextWellPlaced` | `Spec => []WellPlaced`, if `WordsAreKeys` |
| `TextLoadBounded` | `Spec => []LoadBounded`, if `WordsAreKeys`: proved only, no run has it |
| `TextIsMap` | `Spec => IsMap`, if `WordsAreKeys`: whoever uses the dictionary sees a map |

`TextAssumption` says that files are made of characters, and what tests call of keys.
`WordsAreKeys` says that every word of any text is a key: in C a key is a string, and nothing
limits it; TLC has only the words of its essays as `Keys`. `EssaysAreText` says that the files
for `freq` are plain text: of other characters a conversion drops or replaces some, and the
words of the converted file are then not those of the file as it was written. `Text` has one `Dict` for `freq` and
one for the tests, over the same variables; lemmas named `Same...` show that they
are the dictionary of `DictProofs`, whose facts then hold of all.

The inductive invariant is a conjunction of one per program (`Inv`), for a step of one
leaves the variables of the others alone; `JobInv` says who is running.

- `CharsInv`: what was given, with a carriage return held back, is the conversion of what was
  taken (`Converted`). `Converts` is not inductive as it stands, for it does not say *when* a
  carriage return is pending: exactly when what was taken ends in one that was not given yet.
- `HistInv`: what is drawn is what `Draw` computes (`Drawn`); that this is the histogram is a
  theorem about the arithmetic of `main` (`DrawnIs`). `Rounds` shows that division
  that truncates, with its correction, rounds down and up to multiples of ten on both
  sides of zero; `Span` and `EvenSpan` that from the first to the last of them is an even
  number of intervals; `BinsAre` that the index of a datapoint, odd or even, is that of its interval, as
  long as `ToInt` cuts nothing off. That no datapoint is lost when it does is
  `SumOfClasses`: the sizes of the classes of a finite set add up to its own.
- `FreqInv`: the dictionary points to live counts, to each at most once, and no more live counts are
  missing from it than allocations have failed (`OwnsLive`). Being no more than `failures`
  is what makes it inductive: at the end all counts in the dictionary are freed, and
  those that remain are such a number, 0 if nothing has failed.

For `TopWords` a further invariant (`WordsInv`) follows the words from the file to the list.

- `Count` is the number of words of a text, as the definition of `TopWords` has them: pieces between
  white space. `CountJoined` is the key: of two texts with a space between them, a word is counted as
  often as of both together. `WordComplete` and the lemmas beside it say what one more
  character does to what has been read.
- While the file is filtered, what was taken and what was given have the same words whatever follows
  (`SameWords`, in `Filtering`): a conversion puts white space for white space, and it does not
  matter whether it gives CR, LF, both or holds a CR back. This needs the text after it in the statement,
  for a word may go on across what has been converted so far.
- While `freq` reads, the counts in the dictionary are those of the words before the one in
  the buffer (`Counted`, `ReadTo`); each word that failed allocations lost may lower a count, but
  never raise it. A word counted again and a word met first change one count by one.
- `ShowTop` picks by `CHOOSE` a list in order of frequencies. `Arranged` shows that every finite set with
  a total order has such a list, `BeforeOrders` that `cmp_wordcount` is such an order, and
  `TopOf` that the first `Top` of the list are what `TopWords` asks for.

Model-checked only:

- Liveness (`BatchEnds`, `QuietShutdown`, `EveryoneServed`, `ReachesEveryone`, `AllEnd`), which
  with `ENABLED` is out of the prover's reach.
- `RowsSummed`: `Csv` writes the cells of a line with `FlattenSeq` and `parse_cell` reads them with
  `SelectSeq`, and what these compute of every table takes an induction over data for each
  of them. (`TextHistogram` is about the data that were read.)

## 6. Where code and documents disagree

Checked by runs that expect a violation:

- `SignalStopsBatch`: a signal between `fork()` (line 163) and the end of `add_job`
  misses the new child, and `wait` is retried without a look at the flag: the
  batch goes on until that command ends by itself.
- `ReachesEveryone` with full buffers: `send_all` gives up on EAGAIN, nobody looks
  at its result, and the rest of the data is dropped.
- `ZeroMeansSorted` with `MallocMayFail = TRUE`: when `malloc` fails, `merge` returns
  silently and `fsort` returns 0 for an array that is not sorted.

Visible in the models, without a run of their own:

- `batch`: `-n 4294967296` passes the test of line 88, and line 89 makes it 0: no command is
  started (line 145), line 191 leaves the loop, and the exit status is success, where the
  assignment says that it tells how the commands ended. Any other n whose conversion to `int` is
  negative, but for -1, does the same. `Verdict` states both sides (runs `batch_safety` and
  `batch_live` have such values, the theorem all).
- `batch`: with `-e`, a SIGTERM that reaches a child before its handlers are reset is
  swallowed by `main`'s handler in the child (`ChildHandler`). A signal after the
  last test of `got_term_signal` (line 220) leaves the exit status a success.
- `chars`: a carriage return at the very end of a file is held back for ever by
  `todos` and `tounix` (`Converts` has it still in `Held`).
- `hist`: the number of intervals is converted to `int` (line 79). The assignment lets
  values have 32 bits, and when the datapoints span 2^32 or more the number wraps,
  perhaps to 1, and all datapoints that lie beyond fall into the last interval
  (`Histogram` is only exact below that). In a file with the line ends of DOS the last
  cell of each row counts as 0, for `strtol` stops at the CR; `tounix` cures it.
- `freq`: when `malloc` fails for a count, or a dictionary call for want of memory, a word
  or the whole list is missing and the exit status is 0; a count that `dctinsert`
  did not take is not freed.
- `lzw`: when `dict_add` fails nobody notices, the expanded file differs from the source and
  both programs end with success (`lost`). Errors of `fputc` are not looked at either.
- `lzw`: a byte above 127 has no code: `dict_find` returns -1 (lines 174, 191), 0xFFF is written,
  the decoder takes it for an entry it may not have, and the copy differs from the source with
  status 0. The assignment excludes such files, the program does not look.
- `tree`: a name that is removed and created anew while its directory is read may be
  listed twice. A file that `lstat` cannot access is printed as its whole path at the margin,
  where the assignment appends the error to the file's own indented line. An
  error of `readdir` is taken for the end of the directory, and the status stays 0.
- `gossip`: connections, hangups and the end of stdin restart the timeout, so a node
  may stay for longer than TIMEOUT without data. A peer's departure can end a
  node by SIGPIPE (`pc = "killed"`). When `poll` fails for another reason than a signal
  (line 218) the node leaves with EXIT_SUCCESS, however little time has passed; a signal restarts
  the timeout. What comes between the return of 0 and `close` is lost. Two nodes that are given each other's address and
  start together get two links and pass each line to and fro (excluded by
  `Trees`).

## 7. Not modelled

- Parsing of command lines, wording of messages, argument checks.
- `batch`: the exact bytes of commands; the handler that runs while `realloc` has freed the table
  kills some of the jobs in it, never anything else. `gossip`: TCP as a stream (a line is one unit),
  name resolution, the terminal. `fsort`: element width, alignment.
- `lzw`: write errors, and files that are not the beginning of an output of `lzw -c`.
- `hist`: the layout of the drawing; numbers of more than one character, which `strtol`
  reads as one. `tree`: the mode, the link's target and the wording of errors; a
  directory that may be read but not searched (its files fail in `lstat` like any
  other); the root is not changed by others; a change is to one file (a directory that is
  replaced by one with files in it takes several), and a link to a directory leads to
  nothing else that is listed, so that there are no loops. `readdir` returns a
  name again at most once for each time that it was touched. `freq`: `int` counts that overflow.
- The programs `chartests.c`, `dicttests.c`, `fsorttests.c`, `testprog.c` and the scripts
  `test*.sh` are tests: of what the first two call, any sequence is modelled.

## 8. Plan

Written in the order of what matters most: processes and signals (`Batch`,
`Fsort`), the network (`GossipNode`, `GossipNet`), then data (`Dict`, `Lzw`) and the
filters over it (`Chars`, `Hist`, `Freq`, `Text`), and `Tree`.

1. Done: all programs are modelled; the filters share one composed model.
2. Done: the safety properties of `Batch`, `GossipNode`, `GossipNet`, `Lzw`, `Fsort`, `Tree`, `Dict`
   and `Text` are proved, except `RowsSummed`; and that `GossipNet` implements `Chat`
   and `Dict` implements `Map`.
3. Open: `RowsSummed` for every table, and `JobPool`, an abstract job runner that
   `Batch` implements.
