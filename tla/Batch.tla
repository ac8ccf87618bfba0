------------------------------- MODULE Batch -------------------------------
(***************************************************************************)
(* The parallel job runner of Asgn 6 (batch.c).  One process, `main', forks *)
(* a child per command, keeps the pids of the children in the array         *)
(* jobs_running and waits for them; signal_handler may interrupt main       *)
(* between any two of its steps and reads that array; the children run      *)
(* concurrently.  The command number stands for the pid of its child.       *)
(*                                                                          *)
(* A step of main is the code between two points where an interruption by   *)
(* the handler, or a step of a child, can be told apart.                    *)
(***************************************************************************)
EXTENDS Integers, Sequences, FiniteSets

CONSTANTS
  NCmds,        \* cmd_cnt, the number of commands
  GivenN,       \* values that may be given to -n
  IntValues,    \* the number of values of an int (2^32)
  Cap0,         \* capacity of the first allocation of jobs_running (8)
  MaxSignals,   \* bound on the signals sent to main
  NForeign,     \* children that the process had before it became batch
  CallsMayFail  \* whether malloc, realloc and fork may fail

ASSUME BatchAssumption ==
  /\ NCmds \in Nat \ {0}
  /\ GivenN \subseteq Nat \ {0}
  /\ IntValues \in Nat \ {0} /\ IntValues % 2 = 0
  /\ Cap0 \in Nat \ {0}
  /\ MaxSignals \in Nat
  /\ NForeign \in Nat
  /\ CallsMayFail \in BOOLEAN

Cmds    == 0 .. NCmds - 1
Foreign == NCmds .. NCmds + NForeign - 1
Procs   == Cmds \cup Foreign

VARIABLES
  \* the locals of main
  pc, eflag, max_jobs, next_cmd, active, overall_success, abort_requested,
  done,             \* the pid wait() returned last
  \* the statics that main shares with the handler
  jobs_running, jobs_running_cnt, jobs_running_cap, got_term_signal,
  \* the kernel's view of the children
  child, status,
  inherited,        \* the copy of jobs_running a child got from fork()
  signals           \* the number of signals sent to main

locals == <<eflag, max_jobs, next_cmd, active, overall_success,
            abort_requested, done>>
table  == <<jobs_running, jobs_running_cnt, jobs_running_cap>>
kernel == <<child, status, inherited>>
vars   == <<pc, locals, table, got_term_signal, kernel, signals>>

(***************************************************************************)
(* "forked": after fork(), before signal(SIGTERM, SIG_DFL), so still with   *)
(* the handler of main; "signalled": the same with a SIGTERM pending;       *)
(* "running": the default disposition is back, the command executes;        *)
(* "zombie": terminated and not yet waited for.                             *)
(***************************************************************************)
Executing == {c \in Cmds : child[c] \in {"forked", "signalled", "running"}}
Unreaped  == {c \in Procs : child[c] \notin {"none", "reaped"}}

\* The pids that kill_all_running() would signal now.
RunningJobs == {jobs_running[i] : i \in 1 .. jobs_running_cnt}

\* kill(pid, SIGTERM) for the pids in S, applied to the children ch.
Killed(ch, S) ==
  [c \in Procs |-> CASE c \in S /\ ch[c] = "forked"  -> "signalled"
                    [] c \in S /\ ch[c] = "running" -> "zombie"
                    [] OTHER -> ch[c]]

Kill(ch, S) ==
  /\ child' = Killed(ch, S)
  /\ status' = [c \in Procs |-> IF c \in S /\ ch[c] = "running"
                               THEN "killed" ELSE status[c]]
  /\ UNCHANGED inherited

\* (int)n: the low bits of n, as a signed number.
ToInt(n) ==
  LET low == n % IntValues
  IN  IF low < IntValues \div 2 THEN low ELSE low - IntValues

\* The limit: -1 stands for "no -n" until it is replaced by cmd_cnt, also when
\* it is what became of the n of -n, which is checked before the conversion.
Limit(n) == IF ToInt(n) = -1 THEN NCmds ELSE ToInt(n)

\* The options: -n with a long n >= 1, or as many as there are commands; -e.
Init ==
  /\ pc = "loop"
  /\ eflag \in BOOLEAN
  /\ max_jobs \in {NCmds} \cup {Limit(n) : n \in GivenN}
  /\ next_cmd = 0 /\ active = 0 /\ done = 0
  /\ overall_success = TRUE /\ abort_requested = FALSE
  /\ jobs_running = <<>> /\ jobs_running_cnt = 0 /\ jobs_running_cap = 0
  /\ got_term_signal = FALSE
  /\ child = [c \in Procs |-> IF c \in Cmds THEN "none" ELSE "running"]
  /\ status = [c \in Procs |-> "none"]
  /\ inherited = [c \in Procs |-> {}]
  /\ signals = 0

-----------------------------------------------------------------------------
(* Steps of main.                                                           *)

\* Mutant of Abort: the jobs are killed but the flag is not set.
AbortKillsOnly ==
  /\ UNCHANGED abort_requested
  /\ Kill(child, RunningJobs)

\* Give up on the batch: no later command starts, the current ones are killed.
Abort ==
  /\ abort_requested' = TRUE
  /\ Kill(child, RunningJobs)

\* Mutant of CheckSignal: the flag set by the handler is never looked at.
CheckSignalNever == UNCHANGED <<overall_success, abort_requested, kernel>>

CheckSignal ==
  IF got_term_signal /\ ~abort_requested
  THEN overall_success' = FALSE /\ Abort
  ELSE UNCHANGED <<overall_success, abort_requested, kernel>>

\* Mutant of Loop: it ends when the last command was started.
LoopForgetsActive ==
  /\ pc = "loop"
  /\ IF next_cmd < NCmds
     THEN pc' = "launch" /\ CheckSignal
     ELSE /\ pc' = "exit"
          /\ UNCHANGED <<overall_success, abort_requested, kernel>>
  /\ UNCHANGED <<eflag, max_jobs, next_cmd, active, done, table,
                 got_term_signal, signals>>

Loop ==
  /\ pc = "loop"
  /\ IF next_cmd < NCmds \/ active > 0
     THEN pc' = "launch" /\ CheckSignal
     ELSE /\ pc' = "exit"
          /\ UNCHANGED <<overall_success, abort_requested, kernel>>
  /\ UNCHANGED <<eflag, max_jobs, next_cmd, active, done, table,
                 got_term_signal, signals>>

\* Mutants of CanLaunch: an off-by-one in the limit, the missing end of cmds.
CanLaunchOneMore == ~abort_requested /\ next_cmd < NCmds /\ active <= max_jobs
CanLaunchPastEnd == ~abort_requested /\ active < max_jobs

CanLaunch == ~abort_requested /\ next_cmd < NCmds /\ active < max_jobs

Fork ==
  /\ pc = "launch" /\ CanLaunch
  /\ child' = [child EXCEPT ![next_cmd] = "forked"]
  /\ inherited' = [inherited EXCEPT ![next_cmd] = RunningJobs]
  /\ pc' = "add"
  /\ UNCHANGED <<locals, table, got_term_signal, status, signals>>

\* malloc of child_argv or fork() fails: the command is given up.
LaunchFails ==
  /\ pc = "launch" /\ CanLaunch /\ CallsMayFail
  /\ overall_success' = FALSE
  /\ IF eflag THEN Abort ELSE UNCHANGED <<abort_requested, kernel>>
  /\ next_cmd' = next_cmd + 1
  /\ UNCHANGED <<pc, eflag, max_jobs, active, done, table, got_term_signal,
                 signals>>

\* Mutants of LaunchDone: wait() even when nothing runs; `continue' for `break'.
LaunchDoneAlwaysWaits ==
  /\ pc = "launch" /\ ~CanLaunch
  /\ pc' = "wait"
  /\ UNCHANGED <<locals, table, got_term_signal, kernel, signals>>

LaunchDoneContinues ==
  /\ pc = "launch" /\ ~CanLaunch
  /\ pc' = IF active = 0 THEN "loop" ELSE "wait"
  /\ UNCHANGED <<locals, table, got_term_signal, kernel, signals>>

LaunchDone ==
  /\ pc = "launch" /\ ~CanLaunch
  /\ pc' = IF active = 0 THEN "exit" ELSE "wait"
  /\ UNCHANGED <<locals, table, got_term_signal, kernel, signals>>

\* add_job: realloc() frees the old array before jobs_running is assigned;
\* until then ("grow") the handler would follow a dangling pointer.
Grow ==
  /\ pc = "add" /\ jobs_running_cnt >= jobs_running_cap
  /\ jobs_running_cap' = IF jobs_running_cap = 0 THEN Cap0
                         ELSE jobs_running_cap * 2
  /\ pc' = "grow"
  /\ UNCHANGED <<locals, jobs_running, jobs_running_cnt, got_term_signal,
                 kernel, signals>>

\* add_job when realloc() fails: kill the jobs that are in the array, exit.
GrowFails ==
  /\ pc = "add" /\ jobs_running_cnt >= jobs_running_cap /\ CallsMayFail
  /\ Kill(child, RunningJobs)
  /\ jobs_running_cap' = IF jobs_running_cap = 0 THEN Cap0
                         ELSE jobs_running_cap * 2
  /\ pc' = "fatal"
  /\ UNCHANGED <<locals, jobs_running, jobs_running_cnt, got_term_signal,
                 signals>>

\* add_job: the new pid becomes visible to the handler.
Publish ==
  /\ \/ pc = "add" /\ jobs_running_cnt < jobs_running_cap
     \/ pc = "grow"
  /\ jobs_running' = Append(jobs_running, next_cmd)
  /\ jobs_running_cnt' = jobs_running_cnt + 1
  /\ active' = active + 1
  /\ next_cmd' = next_cmd + 1
  /\ pc' = "launch"
  /\ UNCHANGED <<eflag, max_jobs, overall_success, abort_requested, done,
                 jobs_running_cap, got_term_signal, kernel, signals>>

\* wait() is retried on EINTR, so a signal alone does not end it.
Reap ==
  /\ pc = "wait"
  /\ IF Unreaped = {}
     THEN pc' = "exit" /\ UNCHANGED <<child, done>>
     ELSE \E c \in Procs :
            /\ child[c] = "zombie"
            /\ child' = [child EXCEPT ![c] = "reaped"]
            /\ done' = c
            /\ pc' = "remove"
  /\ UNCHANGED <<eflag, max_jobs, next_cmd, active, overall_success,
                 abort_requested, table, got_term_signal, status, inherited,
                 signals>>

\* remove_job: jobs_running_cnt is decremented first ...
Remove ==
  /\ pc = "remove" /\ done \in RunningJobs
  /\ jobs_running_cnt' = jobs_running_cnt - 1
  /\ pc' = "compact"
  /\ UNCHANGED <<locals, jobs_running, jobs_running_cap, got_term_signal, kernel,
                 signals>>

\* Mutant of Compact: the last entry is dropped instead of moved.
CompactDropsLast ==
  /\ pc = "compact"
  /\ jobs_running' = SubSeq(jobs_running, 1, jobs_running_cnt)
  /\ active' = active - 1
  /\ pc' = "status"
  /\ UNCHANGED <<eflag, max_jobs, next_cmd, overall_success, abort_requested,
                 done, jobs_running_cnt, jobs_running_cap, got_term_signal,
                 kernel, signals>>

\* ... and the last entry then takes the place of the removed one.
Compact ==
  /\ pc = "compact"
  /\ \E i \in 1 .. jobs_running_cnt + 1 :
       /\ jobs_running[i] = done
       /\ jobs_running' =
            SubSeq([jobs_running EXCEPT ![i] = jobs_running[jobs_running_cnt + 1]],
                   1, jobs_running_cnt)
  /\ active' = active - 1
  /\ pc' = "status"
  /\ UNCHANGED <<eflag, max_jobs, next_cmd, overall_success, abort_requested,
                 done, jobs_running_cnt, jobs_running_cap, got_term_signal,
                 kernel, signals>>

\* Mutant of RemoveUnknown: the status of such a child is not looked at.
RemoveUnknownIgnored ==
  /\ pc = "remove" /\ done \notin RunningJobs
  /\ active' = IF active > 0 THEN active - 1 ELSE active
  /\ pc' = "recheck"
  /\ UNCHANGED <<eflag, max_jobs, next_cmd, overall_success, abort_requested,
                 done, table, got_term_signal, kernel, signals>>

\* wait() returned a child that main did not start.
RemoveUnknown ==
  /\ pc = "remove" /\ done \notin RunningJobs
  /\ active' = IF active > 0 THEN active - 1 ELSE active
  /\ pc' = "status"
  /\ UNCHANGED <<eflag, max_jobs, next_cmd, overall_success, abort_requested,
                 done, table, got_term_signal, kernel, signals>>

\* Mutant of CheckStatus: only -e takes notice of a failure.
CheckStatusOnlyWithE ==
  /\ pc = "status"
  /\ IF status[done] # "success" /\ eflag /\ ~abort_requested
     THEN overall_success' = FALSE /\ Abort
     ELSE UNCHANGED <<overall_success, abort_requested, kernel>>
  /\ pc' = "recheck"
  /\ UNCHANGED <<eflag, max_jobs, next_cmd, active, done, table,
                 got_term_signal, signals>>

CheckStatus ==
  /\ pc = "status"
  /\ IF status[done] # "success"
     THEN /\ overall_success' = FALSE
          /\ IF eflag /\ ~abort_requested
             THEN Abort
             ELSE UNCHANGED <<abort_requested, kernel>>
     ELSE UNCHANGED <<overall_success, abort_requested, kernel>>
  /\ pc' = "recheck"
  /\ UNCHANGED <<eflag, max_jobs, next_cmd, active, done, table,
                 got_term_signal, signals>>

Recheck ==
  /\ pc = "recheck"
  /\ CheckSignal
  /\ pc' = "loop"
  /\ UNCHANGED <<eflag, max_jobs, next_cmd, active, done, table,
                 got_term_signal, signals>>

Main ==
  \/ Loop \/ Fork \/ LaunchFails \/ LaunchDone \/ Grow \/ GrowFails
  \/ Publish \/ Reap \/ Remove \/ Compact \/ RemoveUnknown
  \/ CheckStatus \/ Recheck

-----------------------------------------------------------------------------
(* The handler, and the children.                                           *)

\* SIGINT, SIGQUIT or SIGTERM reaches main.  What it kills while the array is
\* being reallocated depends on what became of the freed memory.
signal_handler ==
  /\ pc \notin {"exit", "fatal"} /\ signals < MaxSignals
  /\ signals' = signals + 1
  /\ got_term_signal' = TRUE
  /\ IF pc = "grow"
     THEN \E S \in SUBSET RunningJobs : Kill(child, S)
     ELSE Kill(child, RunningJobs)
  /\ UNCHANGED <<pc, locals, table>>

\* A child that still has main's handler runs it on its copy of the array.
ChildHandler(c) ==
  /\ child[c] = "signalled"
  /\ Kill([child EXCEPT ![c] = "forked"], inherited[c])
  /\ UNCHANGED <<pc, locals, table, got_term_signal, signals>>

ChildExec(c) ==
  /\ child[c] = "forked"
  /\ child' = [child EXCEPT ![c] = "running"]
  /\ UNCHANGED <<pc, locals, table, got_term_signal, status, inherited, signals>>

\* The command ends by itself, or execvp() fails and the child exits.
ChildExit(c) ==
  /\ child[c] = "running"
  /\ child' = [child EXCEPT ![c] = "zombie"]
  /\ \E s \in {"success", "failure"} : status' = [status EXCEPT ![c] = s]
  /\ UNCHANGED <<pc, locals, table, got_term_signal, inherited, signals>>

Finished == pc \in {"exit", "fatal"} /\ Executing = {} /\ UNCHANGED vars

Next ==
  \/ Main
  \/ signal_handler
  \/ \E c \in Procs : ChildHandler(c) \/ ChildExec(c) \/ ChildExit(c)
  \/ Finished

Spec == Init /\ [][Next]_vars

\* main and the start of a child make progress; a command may run for ever.
FairSpec ==
  /\ Spec
  /\ WF_vars(Main)
  /\ \A c \in Cmds : WF_vars(ChildHandler(c)) /\ WF_vars(ChildExec(c))

\* An assumption that one property makes: every command ends by itself.
CommandsEnd == \A c \in Procs : WF_vars(ChildExit(c))

-----------------------------------------------------------------------------
(* Properties.                                                              *)

Statuses == {"none", "success", "failure", "killed"}

\* Every variable has its type.
TypeOK ==
  /\ pc \in {"loop", "launch", "add", "grow", "wait", "remove", "compact",
             "status", "recheck", "exit", "fatal"}
  /\ eflag \in BOOLEAN
  /\ max_jobs \in Int
  /\ next_cmd \in 0 .. NCmds
  /\ active \in Nat
  /\ overall_success \in BOOLEAN
  /\ abort_requested \in BOOLEAN
  /\ done \in Procs
  /\ jobs_running \in Seq(Cmds)
  /\ jobs_running_cnt \in Nat
  /\ jobs_running_cap \in Nat
  /\ got_term_signal \in BOOLEAN
  /\ child \in [Procs -> {"none", "forked", "signalled", "running", "zombie",
                          "reaped"}]
  /\ status \in [Procs -> Statuses]
  /\ inherited \in [Procs -> SUBSET Cmds]
  /\ signals \in 0 .. MaxSignals

\* "-n N: at most N commands may be executing simultaneously": the count main
\* keeps in `active' really bounds the children that are alive.
AtMostN == Executing # {} => Cardinality(Executing) <= max_jobs

Entries == {jobs_running[i] : i \in 1 .. Len(jobs_running)}

\* The array from which the handler takes its victims holds every child that
\* was not waited for yet, each once, but for two windows: a child between
\* fork() and add_job, and the last entry while remove_job moves it.
TableMatches ==
  /\ \A i, j \in 1 .. Len(jobs_running) :
       jobs_running[i] = jobs_running[j] => i = j
  /\ Entries = CASE pc \in {"add", "grow", "fatal"} -> Unreaped \ {next_cmd}
                 [] pc \in {"remove", "compact"}    -> Unreaped \cup {done}
                 [] OTHER                           -> Unreaped
  /\ jobs_running_cnt = IF pc = "compact" THEN Len(jobs_running) - 1
                        ELSE Len(jobs_running)

\* main blocks in wait() only when it has a child to wait for, and as long as
\* commands are left and the batch goes on, only with all N places taken.
WaitsForSomething ==
  pc = "wait" =>
    /\ Unreaped # {}
    /\ ~abort_requested /\ next_cmd < NCmds => Cardinality(Unreaped) = max_jobs

AllSucceeded == \A c \in Cmds : child[c] = "reaped" /\ status[c] = "success"

\* What the exit status says: success only if every command was started,
\* waited for and successful, or if the n of -n became a limit below one and
\* none was started at all; failure only for a reason.
Verdict ==
  pc = "exit" =>
    /\ overall_success =>
         IF max_jobs >= 1 THEN AllSucceeded
                          ELSE \A c \in Cmds : child[c] = "none"
    /\ AllSucceeded /\ ~got_term_signal => overall_success

\* Unless realloc() fails, main leaves no child behind, alive or a zombie.
NoOrphans == pc = "exit" => Unreaped = {}

\* A failure that main has waited for is never forgotten, whoever's it was.
FailureRemembered ==
  pc = "exit" /\ overall_success =>
    \A c \in Procs : child[c] = "reaped" => status[c] = "success"

\* With -e no command is started once a failed one was waited for: from
\* then on a step can only end a command.
NoStartAfterFailure ==
  [][eflag /\ (\E c \in Cmds : child[c] = "reaped" /\ status[c] # "success")
       => Executing' \subseteq Executing]_vars

Stopped == pc \in {"exit", "fatal"}

\* A signal that comes while main is in wait() and every child has its command
\* stops the batch, even if no command would ever end by itself.
QuietShutdown ==
  (pc = "wait" /\ got_term_signal /\ Executing = {}) ~> Stopped

\* The batch ends when its commands do, after any signals and failures.
BatchEnds == CommandsEnd => <>Stopped

\* The assignment says: if a signal is sent to the program, it must immediately
\* terminate all commands that are executing and itself.
SignalStopsBatch == got_term_signal ~> Stopped
=============================================================================
