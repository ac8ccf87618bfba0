----------------------------- MODULE BatchProofs ----------------------------
(***************************************************************************)
(* Proofs about Batch, for every number of commands, signals and foreign    *)
(* children, every -n and every first capacity of the array.                *)
(*                                                                          *)
(* TypeOK needs a little of how the table and main's counters go together   *)
(* (Counters).  That -n bounds the commands in execution, and that no child *)
(* is left behind, holds when main has no children but those it forked: then *)
(* the array has one entry for each child that was not waited for, and       *)
(* `active' is its length (Table).  FailureCounts and Reasons say what main  *)
(* remembers of the children it has waited for.                              *)
(***************************************************************************)
EXTENDS Batch, FiniteSetTheorems, FunctionTheorems, TLAPS

ChildStates == {"none", "forked", "signalled", "running", "zombie", "reaped"}

\* How the array and the counters go together, whoever's child was waited for.
Counters ==
  /\ Len(jobs_running) = IF pc = "compact" THEN jobs_running_cnt + 1
                         ELSE jobs_running_cnt
  /\ pc \in {"wait", "remove", "compact"} => active >= 1
  /\ pc \in {"add", "grow", "fatal"} => next_cmd < NCmds

TInv == TypeOK /\ Counters

\* What holds in addition when there are no foreign children: `active' is the
\* number of entries, it leaves room for a child that is being added, a limit
\* below one lets no command start, and the commands from next_cmd on were not
\* started, but for that child.
Table ==
  /\ TableMatches
  /\ active = Len(jobs_running)
  /\ active = 0 \/ active <= max_jobs
  /\ next_cmd = 0 \/ max_jobs >= 1
  /\ pc \in {"add", "grow", "fatal"} => active < max_jobs /\ next_cmd \in Unreaped
  /\ pc \in {"remove", "compact"} => child[done] = "reaped"
  /\ \A c \in Cmds :
       c >= next_cmd => \/ child[c] = "none"
                        \/ c = next_cmd /\ pc \in {"add", "grow", "fatal"}

-----------------------------------------------------------------------------
(* What a step may do to the children without main noticing.                *)

\* The children keep their types, none is waited for, none is started.
Harmless ==
  /\ child' \in [Procs -> ChildStates]
  /\ status' \in [Procs -> Statuses]
  /\ inherited' = inherited
  /\ Unreaped' = Unreaped
  /\ \A c \in Procs : child[c] \in {"none", "reaped"} => child'[c] = child[c]

\* kill() ends or marks children, and neither starts one nor waits for one.
LEMMA KillHarmless ==
  ASSUME TypeOK, NEW S, Kill(child, S)
  PROVE  Harmless
  BY DEF TypeOK, Kill, Killed, Harmless, Unreaped, ChildStates, Statuses

\* The same when a child has run the handler of main before.
LEMMA HandlerHarmless ==
  ASSUME TypeOK, NEW c \in Procs, ChildHandler(c)
  PROVE  Harmless
  BY DEF TypeOK, ChildHandler, Kill, Killed, Harmless, Unreaped, ChildStates,
         Statuses

\* A child that starts its command or ends is nothing main has to do with.
LEMMA ChildHarmless ==
  ASSUME TypeOK, NEW c \in Procs, ChildExec(c) \/ ChildExit(c)
  PROVE  Harmless
  BY DEF TypeOK, ChildExec, ChildExit, Harmless, Unreaped, ChildStates, Statuses

LEMMA UnchangedHarmless ==
  ASSUME TypeOK, UNCHANGED kernel
  PROVE  Harmless
  BY DEF TypeOK, kernel, Harmless, Unreaped, ChildStates, Statuses

\* Giving up on the batch, or not.
LEMMA AbortHarmless ==
  ASSUME TypeOK, Abort
  PROVE  Harmless /\ abort_requested' \in BOOLEAN
  BY KillHarmless DEF Abort

LEMMA CheckSignalHarmless ==
  ASSUME TypeOK, CheckSignal
  PROVE  Harmless /\ abort_requested' \in BOOLEAN /\ overall_success' \in BOOLEAN
<1>1. CASE got_term_signal /\ ~abort_requested
  BY <1>1, AbortHarmless DEF CheckSignal
<1>2. CASE ~(got_term_signal /\ ~abort_requested)
  BY <1>2, UnchangedHarmless DEF CheckSignal, TypeOK, kernel
<1>. QED  BY <1>1, <1>2

\* The entries that the handler goes through are commands.
LEMMA RunningJobsAreCmds ==
  ASSUME TInv
  PROVE  RunningJobs \subseteq Cmds
  BY DEF TInv, TypeOK, Counters, RunningJobs

-----------------------------------------------------------------------------
(* Types.                                                                   *)

LEMMA TInvInit == Init => TInv
<1>. SUFFICES ASSUME Init PROVE TInv
  OBVIOUS
<1>1. 0 \in Procs
  BY BatchAssumption DEF Procs, Cmds
<1>2. max_jobs \in Int
  <2>1. \A n \in GivenN : Limit(n) \in Int
    <3>. SUFFICES ASSUME NEW n \in GivenN PROVE Limit(n) \in Int
      OBVIOUS
    <3>1. n \in Nat /\ IntValues \in Nat \ {0} /\ NCmds \in Nat
      BY BatchAssumption
    <3>2. n % IntValues \in Int
      BY <3>1
    <3>. QED  BY <3>1, <3>2 DEF Limit, ToInt
  <2>. QED  BY <2>1, BatchAssumption DEF Init
<1>3. next_cmd \in 0 .. NCmds /\ signals \in 0 .. MaxSignals
  BY BatchAssumption DEF Init
<1>4. /\ child \in [Procs -> ChildStates]
      /\ status \in [Procs -> Statuses]
      /\ inherited \in [Procs -> SUBSET Cmds]
  BY DEF Init, ChildStates, Statuses
<1>5. jobs_running \in Seq(Cmds) /\ Len(jobs_running) = 0
  BY DEF Init
<1>. QED  BY <1>1, <1>2, <1>3, <1>4, <1>5
          DEF Init, TInv, TypeOK, Counters, ChildStates

LEMMA TInvStep == TInv /\ [Next]_vars => TInv'
<1>. SUFFICES ASSUME TInv, [Next]_vars PROVE TInv'
  OBVIOUS
<1>. USE BatchAssumption DEF TInv, Counters
<1>1. CASE Loop
  <2>1. Harmless /\ abort_requested' \in BOOLEAN /\ overall_success' \in BOOLEAN
    BY <1>1, CheckSignalHarmless, UnchangedHarmless DEF Loop, TypeOK, kernel
  <2>. QED  BY <1>1, <2>1 DEF Loop, TypeOK, table, Harmless, ChildStates
<1>2. CASE Fork
  <2>1. child' \in [Procs -> ChildStates] /\ inherited' \in [Procs -> SUBSET Cmds]
    BY <1>2, RunningJobsAreCmds DEF Fork, TypeOK, ChildStates
  <2>. QED  BY <1>2, <2>1 DEF Fork, CanLaunch, TypeOK, table, locals, ChildStates
<1>3. CASE LaunchFails
  <2>1. Harmless /\ abort_requested' \in BOOLEAN
    BY <1>3, AbortHarmless, UnchangedHarmless DEF LaunchFails, TypeOK
  <2>2. /\ pc = "launch" /\ overall_success' = FALSE
        /\ next_cmd < NCmds /\ next_cmd' = next_cmd + 1
        /\ UNCHANGED <<pc, eflag, max_jobs, active, done, table, got_term_signal,
                       signals>>
    BY <1>3 DEF LaunchFails, CanLaunch
  <2>3. next_cmd' \in 0 .. NCmds
    BY <2>2 DEF TypeOK
  <2>. QED  BY <2>1, <2>2, <2>3 DEF TypeOK, table, Harmless, ChildStates
<1>4. CASE LaunchDone
  BY <1>4 DEF LaunchDone, TypeOK, locals, table, kernel
<1>5. CASE Grow
  BY <1>5 DEF Grow, TypeOK, locals, kernel
<1>6. CASE GrowFails
  <2>1. Harmless
    BY <1>6, KillHarmless DEF GrowFails
  <2>. QED  BY <1>6, <2>1 DEF GrowFails, TypeOK, locals, Harmless, ChildStates
<1>7. CASE Publish
  <2>1. next_cmd \in Cmds
    BY <1>7 DEF Publish, TypeOK, Cmds
  <2>2. /\ jobs_running' \in Seq(Cmds)
        /\ Len(jobs_running') = Len(jobs_running) + 1
    BY <1>7, <2>1 DEF Publish, TypeOK
  <2>. QED  BY <1>7, <2>2 DEF Publish, TypeOK, kernel
<1>8. CASE Reap
  BY <1>8 DEF Reap, TypeOK, table
<1>9. CASE Remove
  <2>1. jobs_running_cnt >= 1
    BY <1>9 DEF Remove, RunningJobs, TypeOK
  <2>. QED  BY <1>9, <2>1 DEF Remove, TypeOK, locals, kernel
<1>10. CASE Compact
  <2>1. PICK i \in 1 .. jobs_running_cnt + 1 :
          jobs_running' =
            SubSeq([jobs_running EXCEPT ![i] = jobs_running[jobs_running_cnt + 1]],
                   1, jobs_running_cnt)
    BY <1>10 DEF Compact
  <2>2. Len(jobs_running) = jobs_running_cnt + 1 /\ jobs_running_cnt \in Nat
    BY <1>10 DEF Compact, TypeOK
  <2>3. [jobs_running EXCEPT ![i] = jobs_running[jobs_running_cnt + 1]]
          \in Seq(Cmds)
    BY <2>2 DEF TypeOK
  <2>4. Len([jobs_running EXCEPT ![i] = jobs_running[jobs_running_cnt + 1]])
          = jobs_running_cnt + 1
    BY <2>2 DEF TypeOK
  <2>5. jobs_running' \in Seq(Cmds) /\ Len(jobs_running') = jobs_running_cnt
    BY <2>1, <2>2, <2>3, <2>4
  <2>. QED  BY <1>10, <2>5 DEF Compact, TypeOK, kernel
<1>11. CASE RemoveUnknown
  BY <1>11 DEF RemoveUnknown, TypeOK, table, kernel
<1>12. CASE CheckStatus
  <2>1. Harmless /\ abort_requested' \in BOOLEAN /\ overall_success' \in BOOLEAN
    BY <1>12, AbortHarmless, UnchangedHarmless DEF CheckStatus, TypeOK
  <2>. QED  BY <1>12, <2>1 DEF CheckStatus, TypeOK, table, Harmless, ChildStates
<1>13. CASE Recheck
  <2>1. Harmless /\ abort_requested' \in BOOLEAN /\ overall_success' \in BOOLEAN
    BY <1>13, CheckSignalHarmless DEF Recheck
  <2>. QED  BY <1>13, <2>1 DEF Recheck, TypeOK, table, Harmless, ChildStates
<1>14. CASE signal_handler
  <2>1. Harmless
    BY <1>14, KillHarmless DEF signal_handler
  <2>. QED  BY <1>14, <2>1
            DEF signal_handler, TypeOK, locals, table, Harmless, ChildStates
<1>15. CASE \E c \in Procs : ChildHandler(c) \/ ChildExec(c) \/ ChildExit(c)
  <2>1. Harmless /\ UNCHANGED <<pc, locals, table, got_term_signal, signals>>
    BY <1>15, HandlerHarmless, ChildHarmless
    DEF ChildHandler, ChildExec, ChildExit
  <2>. QED  BY <2>1 DEF TypeOK, locals, table, Harmless, ChildStates
<1>16. CASE UNCHANGED vars
  BY <1>16 DEF TypeOK, vars, locals, table, kernel
<1>. QED
  BY <1>1, <1>2, <1>3, <1>4, <1>5, <1>6, <1>7, <1>8, <1>9, <1>10, <1>11, <1>12,
     <1>13, <1>14, <1>15, <1>16 DEF Next, Main, Finished

\* Every variable has its type, in every reachable state: in particular the
\* counters never go below zero and no command past the last is started.
THEOREM TypeCorrect == Spec => []TypeOK
<1>1. TInv => TypeOK
  BY DEF TInv
<1>. QED  BY TInvInit, TInvStep, <1>1, PTL DEF Spec

-----------------------------------------------------------------------------
(* The table, when there are no foreign children.                           *)

LEMMA ProcsAreCmds ==
  ASSUME NForeign = 0
  PROVE  Procs = Cmds
  BY BatchAssumption DEF Procs, Cmds, Foreign

\* The program points at which the table is complete.
Plain == {"loop", "launch", "wait", "status", "recheck", "exit"}

\* A step that leaves the entries and the counters alone.
LEMMA TableUntouched ==
  ASSUME NForeign = 0, TInv, Table, Harmless,
         UNCHANGED <<jobs_running, jobs_running_cnt, active, max_jobs, next_cmd,
                     done>>,
         \/ pc' = pc
         \/ pc \in Plain /\ pc' \in Plain
         \/ pc = "add" /\ pc' \in {"grow", "fatal"}
  PROVE  Table'
<1>1. TableMatches'
  BY DEF Table, TableMatches, Entries, Harmless, Plain
<1>2. pc' \in {"remove", "compact"} => child'[done] = "reaped"
  BY DEF Table, Harmless, Plain, TInv, TypeOK
<1>3. \A c \in Cmds :
        c >= next_cmd => \/ child'[c] = "none"
                         \/ c = next_cmd /\ pc' \in {"add", "grow", "fatal"}
  BY ProcsAreCmds DEF Table, Harmless, Plain
<1>4. pc' \in {"add", "grow", "fatal"} => next_cmd' \in Unreaped'
  BY DEF Table, Harmless, Plain
<1>. QED  BY <1>1, <1>2, <1>3, <1>4 DEF Table, Plain

LEMMA TableInit == NForeign = 0 /\ Init => Table
<1>. SUFFICES ASSUME NForeign = 0, Init PROVE Table
  OBVIOUS
<1>1. Unreaped = {}
  BY ProcsAreCmds DEF Init, Unreaped
<1>2. Entries = {}
  BY DEF Init, Entries
<1>3. TableMatches
  BY <1>1, <1>2 DEF Init, TableMatches
<1>4. \A c \in Cmds : child[c] = "none"
  BY ProcsAreCmds DEF Init
<1>5. active = 0 /\ Len(jobs_running) = 0
  BY BatchAssumption DEF Init
<1>. QED  BY <1>3, <1>4, <1>5 DEF Init, Table

\* fork(): the command next_cmd is the only new child.
LEMMA TableFork == NForeign = 0 /\ TInv /\ Table /\ Fork => Table'
<1>. SUFFICES ASSUME NForeign = 0, TInv, Table, Fork PROVE Table'
  OBVIOUS
<1>1. next_cmd \in Cmds /\ next_cmd \in Procs
  <2>1. next_cmd \in 0 .. NCmds /\ next_cmd < NCmds /\ NCmds \in Nat
    BY BatchAssumption DEF TInv, TypeOK, Fork, CanLaunch
  <2>2. next_cmd \in Cmds
    BY <2>1 DEF Cmds
  <2>. QED  BY <2>2, ProcsAreCmds
<1>2. child[next_cmd] = "none"
  BY <1>1 DEF Table, Fork, TInv, TypeOK, Cmds
<1>3. Unreaped' = Unreaped \cup {next_cmd} /\ next_cmd \notin Unreaped
  BY <1>1, <1>2 DEF Fork, TInv, TypeOK, Unreaped
<1>4. TableMatches'
  BY <1>3 DEF Table, TableMatches, Entries, Fork, table, locals
<1>5. \A c \in Cmds : c >= next_cmd => child'[c] = "none" \/ c = next_cmd
  BY ProcsAreCmds DEF Table, Fork, TInv, TypeOK
<1>. QED  BY <1>3, <1>4, <1>5 DEF Table, Fork, CanLaunch, table, locals

\* add_job: the new child gets its entry.
LEMMA TablePublish == NForeign = 0 /\ TInv /\ Table /\ Publish => Table'
<1>. SUFFICES ASSUME NForeign = 0, TInv, Table, Publish PROVE Table'
  OBVIOUS
<1>. DEFINE n == Len(jobs_running)
<1>1. next_cmd \in Cmds /\ n \in Nat /\ jobs_running_cnt = n
  BY BatchAssumption DEF TInv, TypeOK, Counters, Publish, Cmds
<1>2. /\ Len(jobs_running') = n + 1
      /\ \A i \in 1 .. n : jobs_running'[i] = jobs_running[i]
      /\ jobs_running'[n + 1] = next_cmd
  BY <1>1 DEF TInv, TypeOK, Publish
<1>3. next_cmd \notin Entries /\ Entries = Unreaped \ {next_cmd}
  BY DEF Table, TableMatches, Publish
<1>4. Entries' = Entries \cup {next_cmd}
  BY <1>1, <1>2 DEF Entries
<1>5. \A i, j \in 1 .. n + 1 : jobs_running'[i] = jobs_running'[j] => i = j
  BY <1>1, <1>2, <1>3 DEF Table, TableMatches, Entries
<1>6. TableMatches'
  <2>1. Unreaped' = Unreaped
    BY DEF Publish, kernel, Unreaped
  <2>2. next_cmd \in Unreaped
    BY DEF Table, Publish
  <2>. QED  BY <1>1, <1>2, <1>3, <1>4, <1>5, <2>1, <2>2 DEF TableMatches, Publish
<1>7. active' = Len(jobs_running') /\ (active' = 0 \/ active' <= max_jobs')
  BY <1>1, <1>2 DEF Table, Publish, TInv, TypeOK
<1>8. \A c \in Cmds : c >= next_cmd' => child'[c] = "none"
  BY <1>1 DEF Table, Publish, kernel, Cmds
<1>9. max_jobs' >= 1
  BY DEF Table, Publish, TInv, TypeOK
<1>. QED  BY <1>6, <1>7, <1>8, <1>9 DEF Table, Publish

\* wait(): a child that has an entry is waited for.
LEMMA TableReap == NForeign = 0 /\ TInv /\ Table /\ Reap => Table'
<1>. SUFFICES ASSUME NForeign = 0, TInv, Table, Reap PROVE Table'
  OBVIOUS
<1>. USE DEF Reap
<1>1. CASE Unreaped = {}
  BY <1>1, UnchangedHarmless, TableUntouched
  DEF Table, TableMatches, Entries, Unreaped, table, Plain
<1>2. CASE Unreaped # {}
  <2>1. PICK c \in Procs : /\ child[c] = "zombie"
                           /\ child' = [child EXCEPT ![c] = "reaped"]
                           /\ done' = c
                           /\ pc' = "remove"
    BY <1>2
  <2>2. c \in Unreaped /\ Unreaped' = Unreaped \ {c} /\ child'[c] = "reaped"
    BY <2>1 DEF Unreaped, TInv, TypeOK
  <2>3. TableMatches'
    BY <2>1, <2>2 DEF Table, TableMatches, Entries, table
  <2>4. \A d \in Cmds : d >= next_cmd => child'[d] = "none"
    BY <2>1, ProcsAreCmds DEF Table, TInv, TypeOK
  <2>. QED  BY <2>1, <2>2, <2>3, <2>4 DEF Table, table
<1>. QED  BY <1>1, <1>2

\* remove_job, first half: the count goes down.
LEMMA TableRemove == NForeign = 0 /\ TInv /\ Table /\ Remove => Table'
<1>. SUFFICES ASSUME NForeign = 0, TInv, Table, Remove PROVE Table'
  OBVIOUS
<1>1. Unreaped' = Unreaped /\ Entries' = Entries
  BY DEF Remove, kernel, Unreaped, Entries
<1>2. TableMatches'
  BY <1>1 DEF Remove, Table, TableMatches, TInv, TypeOK, locals
<1>. QED  BY <1>1, <1>2 DEF Remove, Table, locals, kernel

\* There is always an entry to remove.
LEMMA NoUnknownChild == TInv /\ Table => ~RemoveUnknown
  BY DEF TInv, TypeOK, Table, TableMatches, Entries, RunningJobs, RemoveUnknown

\* remove_job, second half: the last entry moves to the place of the removed
\* one, and nothing but the removed one is gone.
LEMMA TableCompact == NForeign = 0 /\ TInv /\ Table /\ Compact => Table'
<1>. SUFFICES ASSUME NForeign = 0, TInv, Table, Compact PROVE Table'
  OBVIOUS
<1>. DEFINE n == jobs_running_cnt
<1>1. n \in Nat /\ Len(jobs_running) = n + 1 /\ jobs_running \in Seq(Cmds)
  BY DEF TInv, TypeOK, Counters, Compact
<1>2. PICK i \in 1 .. n + 1 :
        /\ jobs_running[i] = done
        /\ jobs_running' =
             SubSeq([jobs_running EXCEPT ![i] = jobs_running[n + 1]], 1, n)
  BY DEF Compact
<1>3. /\ Len(jobs_running') = n
      /\ \A k \in 1 .. n : jobs_running'[k] = IF k = i THEN jobs_running[n + 1]
                                              ELSE jobs_running[k]
  BY <1>1, <1>2
<1>4. \A k, l \in 1 .. n + 1 : jobs_running[k] = jobs_running[l] => k = l
  BY <1>1 DEF Table, TableMatches
<1>5. Entries' = Entries \ {done}
  <2>1. \A k \in 1 .. n : jobs_running'[k] \in Entries \ {done}
    BY <1>1, <1>2, <1>3, <1>4 DEF Entries
  <2>2. \A x \in Entries \ {done} : \E k \in 1 .. n : jobs_running'[k] = x
    <3>. SUFFICES ASSUME NEW x \in Entries \ {done}
                  PROVE  \E k \in 1 .. n : jobs_running'[k] = x
      OBVIOUS
    <3>1. PICK k \in 1 .. n + 1 : jobs_running[k] = x
      BY <1>1 DEF Entries
    <3>2. k # i
      BY <1>2, <3>1
    <3>3. CASE k = n + 1
      BY <1>1, <1>2, <1>3, <3>1, <3>2, <3>3
    <3>4. CASE k # n + 1
      BY <1>1, <1>3, <3>1, <3>2, <3>4
    <3>. QED  BY <3>3, <3>4
  <2>. QED  BY <1>1, <1>3, <2>1, <2>2 DEF Entries
<1>6. \A k, l \in 1 .. n : jobs_running'[k] = jobs_running'[l] => k = l
  BY <1>1, <1>2, <1>3, <1>4
<1>7. Unreaped' = Unreaped /\ done \notin Unreaped
  BY DEF Compact, kernel, Unreaped, Table
<1>8. TableMatches'
  BY <1>1, <1>3, <1>5, <1>6, <1>7 DEF Table, TableMatches, Compact
<1>9. active' = Len(jobs_running') /\ (active' = 0 \/ active' <= max_jobs')
  BY <1>1, <1>3 DEF Table, Compact, TInv, TypeOK
<1>. QED  BY <1>8, <1>9 DEF Table, Compact, kernel

\* All the steps together.
LEMMA TableStep == NForeign = 0 /\ TInv /\ Table /\ [Next]_vars => Table'
<1>. SUFFICES ASSUME NForeign = 0, TInv, Table, [Next]_vars PROVE Table'
  OBVIOUS
<1>. DEFINE Same == UNCHANGED <<jobs_running, jobs_running_cnt, active, max_jobs,
                                next_cmd, done>>
<1>0. TypeOK
  BY DEF TInv
<1>1. CASE Loop
  <2>1. Harmless
    BY <1>0, <1>1, CheckSignalHarmless, UnchangedHarmless DEF Loop
  <2>2. Same /\ pc \in Plain /\ pc' \in Plain
    BY <1>1 DEF Loop, table, Plain
  <2>. QED  BY <2>1, <2>2, TableUntouched
<1>2. CASE Fork
  BY <1>2, TableFork
<1>3. CASE LaunchFails
  <2>1. Harmless
    BY <1>0, <1>3, AbortHarmless, UnchangedHarmless DEF LaunchFails
  <2>2. /\ UNCHANGED <<pc, jobs_running, jobs_running_cnt, active, max_jobs, done>>
        /\ pc = "launch" /\ next_cmd' = next_cmd + 1 /\ next_cmd \in Nat
    BY <1>0, <1>3, BatchAssumption DEF LaunchFails, table, TypeOK
  <2>3. TableMatches'
    BY <2>1, <2>2 DEF Table, TableMatches, Entries, Harmless
  <2>4. \A c \in Cmds : c >= next_cmd' => child'[c] = "none"
    BY <2>1, <2>2, ProcsAreCmds DEF Table, Harmless, Cmds
  <2>5. max_jobs' >= 1
    BY <1>0, <1>3 DEF LaunchFails, CanLaunch, TypeOK
  <2>. QED  BY <2>2, <2>3, <2>4, <2>5 DEF Table
<1>4. CASE LaunchDone
  <2>1. Harmless
    BY <1>0, <1>4, UnchangedHarmless DEF LaunchDone
  <2>2. Same /\ pc \in Plain /\ pc' \in Plain
    BY <1>4 DEF LaunchDone, table, locals, Plain
  <2>. QED  BY <2>1, <2>2, TableUntouched
<1>5. CASE Grow
  <2>1. Harmless
    BY <1>0, <1>5, UnchangedHarmless DEF Grow
  <2>2. Same /\ pc = "add" /\ pc' \in {"grow", "fatal"}
    BY <1>5 DEF Grow, locals
  <2>. QED  BY <2>1, <2>2, TableUntouched
<1>6. CASE GrowFails
  <2>1. Harmless
    BY <1>0, <1>6, KillHarmless DEF GrowFails
  <2>2. Same /\ pc = "add" /\ pc' \in {"grow", "fatal"}
    BY <1>6 DEF GrowFails, locals
  <2>. QED  BY <2>1, <2>2, TableUntouched
<1>7. CASE Publish
  BY <1>7, TablePublish
<1>8. CASE Reap
  BY <1>8, TableReap
<1>9. CASE Remove
  BY <1>9, TableRemove
<1>10. CASE Compact
  BY <1>10, TableCompact
<1>11. CASE RemoveUnknown
  BY <1>11, NoUnknownChild
<1>12. CASE CheckStatus
  <2>1. Harmless
    BY <1>0, <1>12, AbortHarmless, UnchangedHarmless DEF CheckStatus
  <2>2. Same /\ pc \in Plain /\ pc' \in Plain
    BY <1>12 DEF CheckStatus, table, Plain
  <2>. QED  BY <2>1, <2>2, TableUntouched
<1>13. CASE Recheck
  <2>1. Harmless
    BY <1>0, <1>13, CheckSignalHarmless DEF Recheck
  <2>2. Same /\ pc \in Plain /\ pc' \in Plain
    BY <1>13 DEF Recheck, table, Plain
  <2>. QED  BY <2>1, <2>2, TableUntouched
<1>14. CASE signal_handler
  <2>1. Harmless
    BY <1>0, <1>14, KillHarmless DEF signal_handler
  <2>2. Same /\ pc' = pc
    BY <1>14 DEF signal_handler, table, locals
  <2>. QED  BY <2>1, <2>2, TableUntouched
<1>15. CASE \E c \in Procs : ChildHandler(c) \/ ChildExec(c) \/ ChildExit(c)
  <2>1. Harmless
    BY <1>0, <1>15, HandlerHarmless, ChildHarmless
  <2>2. Same /\ pc' = pc
    BY <1>15 DEF ChildHandler, ChildExec, ChildExit, table, locals
  <2>. QED  BY <2>1, <2>2, TableUntouched
<1>16. CASE UNCHANGED vars
  <2>1. Harmless
    BY <1>0, <1>16, UnchangedHarmless DEF vars
  <2>2. Same /\ pc' = pc
    BY <1>16 DEF vars, table, locals
  <2>. QED  BY <2>1, <2>2, TableUntouched
<1>. QED
  BY <1>1, <1>2, <1>3, <1>4, <1>5, <1>6, <1>7, <1>8, <1>9, <1>10, <1>11, <1>12,
     <1>13, <1>14, <1>15, <1>16 DEF Next, Main, Finished

\* A child is killed through the array: the handler's victims are the children
\* that were not waited for, each once, up to the two windows.
THEOREM TableCorrect ==
  ASSUME NForeign = 0
  PROVE  Spec => []TableMatches
<1>1. Init => TInv /\ Table
  BY TInvInit, TableInit
<1>2. (TInv /\ Table) /\ [Next]_vars => (TInv /\ Table)'
  BY TInvStep, TableStep
<1>3. Table => TableMatches
  BY DEF Table
<1>. QED  BY <1>1, <1>2, <1>3, PTL DEF Spec

-----------------------------------------------------------------------------
(* The limit.                                                               *)

\* How many indices a sequence of length n has.
LEMMA IndexCount ==
  ASSUME NEW n \in Nat
  PROVE  IsFiniteSet(1 .. n) /\ Cardinality(1 .. n) = n
<1>1. IsFiniteSet(1 .. n)
  BY FS_Interval
<1>2. Cardinality(1 .. n) = n
  BY FS_Interval
<1>. QED  BY <1>1, <1>2

\* A sequence has at most as many different entries as its length.
LEMMA EntriesBounded ==
  ASSUME TypeOK
  PROVE  IsFiniteSet(Entries) /\ Cardinality(Entries) <= Len(jobs_running)
<1>. DEFINE f == [i \in 1 .. Len(jobs_running) |-> jobs_running[i]]
<1>1. Len(jobs_running) \in Nat
  BY DEF TypeOK
<1>2. f \in Surjection(1 .. Len(jobs_running), Entries)
  BY DEF Entries, Surjection
<1>3. /\ IsFiniteSet(1 .. Len(jobs_running))
      /\ Cardinality(1 .. Len(jobs_running)) = Len(jobs_running)
  BY <1>1, IndexCount
<1>4. IsFiniteSet(Entries) /\ Cardinality(Entries) <= Cardinality(1 .. Len(jobs_running))
  <2>. HIDE DEF f
  <2>. QED  BY <1>2, <1>3, FS_Surjection
<1>. QED  BY <1>3, <1>4

LEMMA TableBounds == TInv /\ Table => AtMostN
<1>. SUFFICES ASSUME TInv, Table PROVE AtMostN
  OBVIOUS
<1>1. /\ IsFiniteSet(Entries) /\ Cardinality(Entries) \in Nat
      /\ Cardinality(Entries) <= active
      /\ active \in Nat /\ max_jobs \in Int
      /\ active = 0 \/ active <= max_jobs
  BY EntriesBounded, FS_CardinalityType DEF TInv, Table, TypeOK
<1>2. CASE pc \in {"add", "grow", "fatal"}
  <2>1. Executing \subseteq Entries \cup {next_cmd}
    BY <1>2 DEF Table, TableMatches, Executing, Unreaped, Procs
  <2>2. /\ IsFiniteSet(Entries \cup {next_cmd})
        /\ Cardinality(Entries \cup {next_cmd}) <= Cardinality(Entries) + 1
    <3>1. /\ IsFiniteSet(Entries \cup {next_cmd})
          /\ Cardinality(Entries \cup {next_cmd}) =
               IF next_cmd \in Entries THEN Cardinality(Entries)
               ELSE Cardinality(Entries) + 1
      BY <1>1, FS_AddElement
    <3>. QED  BY <1>1, <3>1
  <2>3. IsFiniteSet(Executing) /\ Cardinality(Executing) \in Nat
    BY <2>1, <2>2, FS_Subset, FS_CardinalityType
  <2>4. Cardinality(Executing) <= Cardinality(Entries \cup {next_cmd})
    BY <2>1, <2>2, FS_Subset
  <2>5. active < max_jobs
    BY <1>2 DEF Table
  <2>6. Cardinality(Entries \cup {next_cmd}) \in Nat
    BY <2>2, FS_CardinalityType
  <2>. QED  BY <1>1, <2>2, <2>3, <2>4, <2>5, <2>6 DEF AtMostN
<1>3. CASE pc \notin {"add", "grow", "fatal"}
  <2>1. Executing \subseteq Entries
    BY <1>3 DEF Table, TableMatches, Executing, Unreaped, Procs
  <2>2. Cardinality(Executing) <= Cardinality(Entries) /\ Cardinality(Executing) \in Nat
    BY <1>1, <2>1, FS_Subset, FS_CardinalityType
  <2>3. IsFiniteSet(Executing)
    BY <1>1, <2>1, FS_Subset
  <2>4. Executing # {} => Cardinality(Executing) # 0
    BY <2>3, FS_EmptySet
  <2>. QED  BY <1>1, <2>2, <2>4 DEF AtMostN
<1>. QED  BY <1>2, <1>3

\* "At most N commands may be executing simultaneously", for every N, every
\* number of commands, and whatever signals and failures there are.
THEOREM LimitHolds ==
  ASSUME NForeign = 0
  PROVE  Spec => []AtMostN
<1>1. Init => TInv /\ Table
  BY TInvInit, TableInit
<1>2. (TInv /\ Table) /\ [Next]_vars => (TInv /\ Table)'
  BY TInvStep, TableStep
<1>. QED  BY <1>1, <1>2, TableBounds, PTL DEF Spec

-----------------------------------------------------------------------------
(* The end.                                                                 *)

LEMMA NoOrphansInit == Init => NoOrphans
  BY DEF Init, NoOrphans

\* main leaves when `active' is 0, and then the table is empty.
LEMMA NoOrphansStep ==
  TInv /\ Table /\ NoOrphans /\ Table' /\ [Next]_vars => NoOrphans'
<1>. SUFFICES ASSUME TInv, Table, NoOrphans, Table', [Next]_vars, pc' = "exit"
              PROVE  Unreaped' = {}
  BY DEF NoOrphans
<1>1. Unreaped' = Entries'
  BY DEF Table, TableMatches
<1>2. active' = 0 => Entries' = {}
  BY DEF Table, Entries
<1>3. CASE pc # "exit"
  <2>1. CASE Loop
    BY <1>1, <1>2, <1>3, <2>1, BatchAssumption DEF Loop, TInv, TypeOK
  <2>2. CASE LaunchDone
    BY <1>1, <1>2, <1>3, <2>2 DEF LaunchDone, locals
  <2>3. CASE Reap
    BY <1>3, <2>3 DEF Reap, Unreaped
  <2>4. ~(Fork \/ LaunchFails \/ Grow \/ GrowFails \/ Publish \/ Remove \/ Compact
          \/ RemoveUnknown \/ CheckStatus \/ Recheck)
    BY DEF Fork, LaunchFails, Grow, GrowFails, Publish, Remove, Compact,
           RemoveUnknown, CheckStatus, Recheck
  <2>5. ~(signal_handler \/ Finished
          \/ \E c \in Procs : ChildHandler(c) \/ ChildExec(c) \/ ChildExit(c))
    BY <1>3 DEF signal_handler, Finished, vars, ChildHandler, ChildExec, ChildExit
  <2>. QED  BY <1>3, <2>1, <2>2, <2>3, <2>4, <2>5 DEF Next, Main, vars
<1>4. CASE pc = "exit"
  <2>1. Unreaped = {}
    BY <1>4 DEF NoOrphans
  <2>2. ~Main /\ ~signal_handler
    BY <1>4 DEF Main, Loop, Fork, LaunchFails, LaunchDone, Grow, GrowFails, Publish,
                Reap, Remove, Compact, RemoveUnknown, CheckStatus, Recheck,
                signal_handler
  <2>3. CASE \E c \in Procs : ChildHandler(c) \/ ChildExec(c) \/ ChildExit(c)
    BY <2>1, <2>3, HandlerHarmless, ChildHarmless DEF TInv, Harmless
  <2>4. CASE UNCHANGED vars
    BY <2>1, <2>4 DEF vars, kernel, Unreaped
  <2>. QED  BY <2>2, <2>3, <2>4 DEF Next, Finished
<1>. QED  BY <1>3, <1>4

\* main exits only when it has waited for every child, so it leaves none behind,
\* alive or a zombie, also when it aborts.
THEOREM NoneLeftBehind ==
  ASSUME NForeign = 0
  PROVE  Spec => []NoOrphans
<1>. DEFINE IInv == TInv /\ Table /\ NoOrphans
<1>1. Init => IInv
  BY TInvInit, TableInit, NoOrphansInit
<1>2. IInv /\ [Next]_vars => IInv'
  BY TInvStep, TableStep, NoOrphansStep
<1>3. IInv => NoOrphans
  OBVIOUS
<1>. QED  BY <1>1, <1>2, <1>3, PTL DEF Spec
-----------------------------------------------------------------------------
(* Failures, whoever's children they are.                                   *)

\* A failure that was waited for counts: it is in the exit status and, with -e,
\* has ended the batch; or main is about to look at it.
FailureCounts ==
  \A c \in Procs :
    child[c] = "reaped" /\ status[c] # "success" =>
      \/ ~overall_success /\ (eflag => abort_requested)
      \/ pc \in {"remove", "compact", "status"} /\ c = done

\* No child is started or waited for, and what was waited for stays as it was.
Quiet ==
  /\ Executing' \subseteq Executing
  /\ \A c \in Procs :
       child'[c] = "reaped" => child[c] = "reaped" /\ status'[c] = status[c]

LEMMA KillQuiet ==
  ASSUME TypeOK, NEW S, Kill(child, S)
  PROVE  Quiet
  BY DEF TypeOK, Kill, Killed, Quiet, Executing, Procs

LEMMA ChildQuiet ==
  ASSUME TypeOK, NEW c \in Procs, ChildHandler(c) \/ ChildExec(c) \/ ChildExit(c)
  PROVE  Quiet
<1>1. CASE ChildHandler(c)
  BY <1>1 DEF TypeOK, ChildHandler, Kill, Killed, Quiet, Executing, Procs
<1>2. CASE ChildExec(c) \/ ChildExit(c)
  BY <1>2 DEF TypeOK, ChildExec, ChildExit, Quiet, Executing, Procs
<1>. QED  BY <1>1, <1>2

LEMMA UnchangedQuiet ==
  ASSUME UNCHANGED kernel
  PROVE  Quiet
  BY DEF kernel, Quiet, Executing

\* Once the verdict is failure or the batch is aborted, it stays so.
LEMMA CheckSignalQuiet ==
  ASSUME TypeOK, CheckSignal
  PROVE  /\ Quiet
         /\ ~overall_success => ~overall_success'
         /\ abort_requested => abort_requested'
<1>1. CASE got_term_signal /\ ~abort_requested
  BY <1>1, KillQuiet DEF CheckSignal, Abort
<1>2. CASE ~(got_term_signal /\ ~abort_requested)
  BY <1>2, UnchangedQuiet DEF CheckSignal
<1>. QED  BY <1>1, <1>2

\* A quiet step that keeps the verdict, and the child main has yet to look at.
LEMMA FailureCountsKept ==
  ASSUME FailureCounts, Quiet,
         ~overall_success => ~overall_success',
         abort_requested => abort_requested',
         eflag' = eflag,
         pc \in {"remove", "compact", "status"} =>
           pc' \in {"remove", "compact", "status"} /\ done' = done
  PROVE  FailureCounts'
  BY DEF FailureCounts, Quiet

LEMMA FailureCountsInit == Init => FailureCounts
  BY DEF Init, FailureCounts

LEMMA FailureCountsStep == TypeOK /\ FailureCounts /\ [Next]_vars => FailureCounts'
<1>. SUFFICES ASSUME TypeOK, FailureCounts, [Next]_vars PROVE FailureCounts'
  OBVIOUS
<1>1. CASE Loop
  BY <1>1, CheckSignalQuiet, UnchangedQuiet, FailureCountsKept DEF Loop
<1>2. CASE Fork
  <2>1. \A c \in Procs :
          child'[c] = "reaped" => child[c] = "reaped" /\ status'[c] = status[c]
    BY <1>2 DEF Fork, TypeOK
  <2>. QED  BY <1>2, <2>1 DEF Fork, FailureCounts, locals
<1>3. CASE LaunchFails
  <2>1. Quiet /\ (abort_requested => abort_requested')
    BY <1>3, KillQuiet, UnchangedQuiet DEF LaunchFails, Abort
  <2>. QED  BY <1>3, <2>1, FailureCountsKept DEF LaunchFails
<1>4. CASE LaunchDone \/ Grow \/ Publish \/ Remove \/ Compact \/ RemoveUnknown
  <2>1. Quiet
    BY <1>4, UnchangedQuiet
    DEF LaunchDone, Grow, Publish, Remove, Compact, RemoveUnknown
  <2>. QED  BY <1>4, <2>1, FailureCountsKept
            DEF LaunchDone, Grow, Publish, Remove, Compact, RemoveUnknown, locals
<1>5. CASE GrowFails
  <2>1. Quiet
    BY <1>5, KillQuiet DEF GrowFails
  <2>. QED  BY <1>5, <2>1, FailureCountsKept DEF GrowFails, locals
<1>6. CASE Reap
  BY <1>6 DEF Reap, TypeOK, FailureCounts
<1>7. CASE CheckStatus
  <2>1. Quiet /\ (abort_requested => abort_requested')
    BY <1>7, KillQuiet, UnchangedQuiet DEF CheckStatus, Abort
  <2>2. CASE status[done] # "success"
    BY <1>7, <2>1, <2>2 DEF CheckStatus, Abort, FailureCounts, Quiet
  <2>3. CASE status[done] = "success"
    BY <1>7, <2>1, <2>3 DEF CheckStatus, FailureCounts, Quiet
  <2>. QED  BY <2>2, <2>3
<1>8. CASE Recheck
  BY <1>8, CheckSignalQuiet, FailureCountsKept DEF Recheck
<1>9. CASE signal_handler
  <2>1. Quiet
    BY <1>9, KillQuiet DEF signal_handler
  <2>. QED  BY <1>9, <2>1, FailureCountsKept DEF signal_handler, locals
<1>10. CASE \E c \in Procs : ChildHandler(c) \/ ChildExec(c) \/ ChildExit(c)
  <2>1. Quiet
    BY <1>10, ChildQuiet
  <2>. QED  BY <1>10, <2>1, FailureCountsKept
            DEF ChildHandler, ChildExec, ChildExit, locals
<1>11. CASE UNCHANGED vars
  <2>1. Quiet
    BY <1>11, UnchangedQuiet DEF vars
  <2>. QED  BY <1>11, <2>1, FailureCountsKept DEF vars, locals
<1>. QED
  BY <1>1, <1>2, <1>3, <1>4, <1>5, <1>6, <1>7, <1>8, <1>9, <1>10, <1>11
  DEF Next, Main, Finished

\* A failure that main waited for is in its exit status, also that of a child
\* it did not start, and whatever signals and failed calls come in between.
THEOREM FailureNotLost == Spec => []FailureRemembered
<1>1. Init => TInv /\ FailureCounts
  BY TInvInit, FailureCountsInit
<1>2. (TInv /\ FailureCounts) /\ [Next]_vars => (TInv /\ FailureCounts)'
  BY TInvStep, FailureCountsStep DEF TInv
<1>3. FailureCounts => FailureRemembered
  BY DEF FailureCounts, FailureRemembered
<1>. QED  BY <1>1, <1>2, <1>3, PTL DEF Spec

\* The step of NoStartAfterFailure: only fork() starts a child, it comes after
\* a look at abort_requested, and main cannot be between the wait() for a
\* failed child and its look at the status.
LEMMA OnlyForkStarts ==
  ASSUME TypeOK, FailureCounts, [Next]_vars, eflag,
         NEW c \in Cmds, child[c] = "reaped", status[c] # "success"
  PROVE  Executing' \subseteq Executing
<1>1. c \in Procs
  BY DEF Procs
<1>2. ~Fork
  BY <1>1 DEF Fork, CanLaunch, FailureCounts
<1>3. CASE Loop \/ Recheck
  BY <1>3, CheckSignalQuiet, UnchangedQuiet DEF Loop, Recheck, Quiet
<1>4. CASE LaunchFails \/ CheckStatus \/ GrowFails \/ signal_handler
  BY <1>4, KillQuiet, UnchangedQuiet
  DEF LaunchFails, CheckStatus, GrowFails, signal_handler, Abort, Quiet
<1>5. CASE LaunchDone \/ Grow \/ Publish \/ Remove \/ Compact \/ RemoveUnknown
  BY <1>5, UnchangedQuiet
  DEF LaunchDone, Grow, Publish, Remove, Compact, RemoveUnknown, Quiet
<1>6. CASE Reap
  BY <1>6 DEF Reap, TypeOK, Executing, Procs
<1>7. CASE \E d \in Procs : ChildHandler(d) \/ ChildExec(d) \/ ChildExit(d)
  BY <1>7, ChildQuiet DEF Quiet
<1>8. CASE UNCHANGED vars
  BY <1>8, UnchangedQuiet DEF vars, Quiet
<1>. QED
  BY <1>2, <1>3, <1>4, <1>5, <1>6, <1>7, <1>8 DEF Next, Main, Finished

\* With -e no command is started once a failed one was waited for.
THEOREM StopsAtFailure == Spec => NoStartAfterFailure
<1>1. Init => TInv /\ FailureCounts
  BY TInvInit, FailureCountsInit
<1>2. (TInv /\ FailureCounts) /\ [Next]_vars => (TInv /\ FailureCounts)'
  BY TInvStep, FailureCountsStep DEF TInv
<1>3. TInv /\ FailureCounts /\ [Next]_vars =>
        [eflag /\ (\E c \in Cmds : child[c] = "reaped" /\ status[c] # "success")
           => Executing' \subseteq Executing]_vars
  BY OnlyForkStarts DEF TInv
<1>. QED  BY <1>1, <1>2, <1>3, PTL DEF Spec, NoStartAfterFailure
-----------------------------------------------------------------------------
(* The exit status, when there are no foreign children.                     *)

\* Why overall_success has the value it has: after an abort, or when a command
\* could not be started, it is FALSE, and it is FALSE for no other reason than
\* these, a signal or a failure; main leaves before the last command only then.
Reasons ==
  /\ abort_requested => ~overall_success
  /\ overall_success => \A c \in Cmds : c < next_cmd => child[c] # "none"
  /\ ~overall_success =>
       \/ got_term_signal
       \/ \E c \in Cmds : \/ child[c] = "reaped" /\ status[c] # "success"
                          \/ child[c] = "none" /\ c < next_cmd
  /\ pc = "exit" => ~overall_success \/ next_cmd = NCmds \/ max_jobs < 1
  /\ pc \in {"remove", "compact", "status"} => child[done] = "reaped"

LEMMA ReasonsInit == Init => Reasons
  BY DEF Init, Reasons, Cmds

\* A step that neither forks nor waits and comes to no new verdict.
LEMMA ReasonsKept ==
  ASSUME NForeign = 0, TypeOK, Reasons, Harmless, Quiet,
         UNCHANGED <<overall_success, abort_requested, next_cmd, max_jobs>>,
         got_term_signal => got_term_signal',
         pc' = "exit" => pc = "exit",
         pc' \in {"remove", "compact", "status"} =>
           pc \in {"remove", "compact", "status"} /\ done' = done
  PROVE  Reasons'
<1>1. \A c \in Cmds : /\ child'[c] = "none" <=> child[c] = "none"
                      /\ child[c] = "reaped" =>
                           child'[c] = "reaped" /\ status'[c] = status[c]
  BY ProcsAreCmds DEF Harmless, Quiet, Unreaped
<1>2. pc' \in {"remove", "compact", "status"} => child'[done'] = "reaped"
  BY DEF Reasons, Harmless, TypeOK
<1>. QED  BY <1>1, <1>2 DEF Reasons

\* The same, but for a signal that is noticed now.
LEMMA ReasonsSignal ==
  ASSUME NForeign = 0, TypeOK, Reasons, CheckSignal,
         UNCHANGED <<next_cmd, got_term_signal, max_jobs>>,
         pc' \in {"launch", "loop"}
  PROVE  Reasons'
<1>1. CASE got_term_signal /\ ~abort_requested
  BY <1>1 DEF CheckSignal, Abort, Reasons
<1>2. CASE ~(got_term_signal /\ ~abort_requested)
  BY <1>2, UnchangedHarmless, UnchangedQuiet, ReasonsKept DEF CheckSignal
<1>. QED  BY <1>1, <1>2

LEMMA ReasonsStep ==
  NForeign = 0 /\ TInv /\ Table /\ Reasons /\ [Next]_vars => Reasons'
<1>. SUFFICES ASSUME NForeign = 0, TInv, Table, Reasons, [Next]_vars
              PROVE  Reasons'
  OBVIOUS
<1>0. TypeOK /\ next_cmd \in 0 .. NCmds /\ NCmds \in Nat
  BY BatchAssumption DEF TInv, TypeOK
<1>1. CASE Loop
  <2>1. CASE next_cmd < NCmds \/ active > 0
    BY <1>0, <1>1, <2>1, ReasonsSignal DEF Loop
  <2>2. CASE ~(next_cmd < NCmds \/ active > 0)
    BY <1>0, <1>1, <2>2 DEF Loop, Reasons, kernel
  <2>. QED  BY <2>1, <2>2
<1>2. CASE Fork
  <2>1. next_cmd \in Procs /\ child[next_cmd] # "reaped"
    BY <1>0, <1>2, ProcsAreCmds DEF Fork, CanLaunch, Table, Cmds
  <2>2. \A c \in Cmds : c # next_cmd => child'[c] = child[c]
    BY <1>0, <1>2, ProcsAreCmds DEF Fork, TypeOK
  <2>3. child'[next_cmd] = "forked"
    BY <1>0, <1>2, <2>1 DEF Fork, TypeOK
  <2>. QED  BY <1>0, <1>2, <2>1, <2>2, <2>3 DEF Fork, Reasons, locals, Cmds
<1>3. CASE LaunchFails
  <2>1. Harmless
    BY <1>0, <1>3, AbortHarmless, UnchangedHarmless DEF LaunchFails
  <2>2. next_cmd \in Cmds /\ child[next_cmd] = "none"
    BY <1>0, <1>3 DEF LaunchFails, CanLaunch, Table, Cmds
  <2>3. child'[next_cmd] = "none" /\ next_cmd < next_cmd'
    BY <1>0, <1>3, <2>1, <2>2, ProcsAreCmds DEF LaunchFails, Harmless
  <2>. QED  BY <1>3, <2>2, <2>3 DEF LaunchFails, Reasons
<1>4. CASE LaunchDone
  <2>1. CASE active = 0
    BY <1>0, <1>4, <2>1 DEF LaunchDone, CanLaunch, Reasons, locals, kernel, TypeOK
  <2>2. CASE active # 0
    BY <1>0, <1>4, <2>2, UnchangedHarmless, UnchangedQuiet, ReasonsKept
    DEF LaunchDone, locals
  <2>. QED  BY <2>1, <2>2
<1>5. CASE Grow \/ Remove \/ Compact \/ RemoveUnknown
  <2>1. UNCHANGED kernel
    BY <1>5 DEF Grow, Remove, Compact, RemoveUnknown
  <2>. QED  BY <1>0, <1>5, <2>1, UnchangedHarmless, UnchangedQuiet, ReasonsKept
            DEF Grow, Remove, Compact, RemoveUnknown, locals
<1>6. CASE GrowFails
  <2>1. Harmless /\ Quiet
    BY <1>0, <1>6, KillHarmless, KillQuiet DEF GrowFails
  <2>. QED  BY <1>0, <1>6, <2>1, ReasonsKept DEF GrowFails, locals
<1>7. CASE Publish
  <2>1. child[next_cmd] # "none"
    BY <1>7 DEF Publish, Table, Unreaped
  <2>. QED  BY <1>0, <1>7, <2>1 DEF Publish, Reasons, kernel, Cmds
<1>8. CASE Reap
  <2>1. Unreaped # {}
    BY <1>8 DEF Reap, TInv, Counters, Table, TableMatches, Entries
  <2>2. PICK c \in Procs : /\ child[c] = "zombie"
                           /\ child' = [child EXCEPT ![c] = "reaped"]
                           /\ done' = c
                           /\ pc' = "remove"
    BY <1>8, <2>1 DEF Reap
  <2>3. \A d \in Cmds : /\ child'[d] = "none" <=> child[d] = "none"
                        /\ child[d] = "reaped" => child'[d] = "reaped"
    BY <1>0, <2>2, ProcsAreCmds DEF TypeOK
  <2>4. child'[done'] = "reaped"
    BY <1>0, <2>2 DEF TypeOK
  <2>. QED  BY <1>8, <2>2, <2>3, <2>4 DEF Reap, Reasons
<1>9. CASE CheckStatus
  <2>1. CASE status[done] # "success"
    <3>1. ASSUME eflag /\ ~abort_requested
          PROVE  overall_success' = FALSE /\ Harmless /\ Quiet
      <4>1. overall_success' = FALSE /\ Kill(child, RunningJobs)
        BY <1>9, <2>1, <3>1 DEF CheckStatus, Abort
      <4>. QED  BY <1>0, <4>1, KillHarmless, KillQuiet
    <3>2. ASSUME ~(eflag /\ ~abort_requested)
          PROVE  overall_success' = FALSE /\ Harmless /\ Quiet
      <4>1. overall_success' = FALSE /\ UNCHANGED kernel
        BY <1>9, <2>1, <3>2 DEF CheckStatus
      <4>. QED  BY <1>0, <4>1, UnchangedHarmless, UnchangedQuiet
    <3>3. /\ done \in Cmds /\ child[done] = "reaped"
          /\ child'[done] = "reaped" /\ status'[done] # "success"
      BY <1>0, <1>9, <2>1, <3>1, <3>2, ProcsAreCmds
      DEF TypeOK, CheckStatus, Reasons, Harmless, Quiet
    <3>. QED  BY <1>9, <2>1, <3>1, <3>2, <3>3 DEF CheckStatus, Reasons
  <2>2. CASE status[done] = "success"
    BY <1>0, <1>9, <2>2, UnchangedHarmless, UnchangedQuiet, ReasonsKept
    DEF CheckStatus
  <2>. QED  BY <2>1, <2>2
<1>10. CASE Recheck
  BY <1>0, <1>10, ReasonsSignal DEF Recheck
<1>11. CASE signal_handler
  <2>1. Harmless /\ Quiet
    BY <1>0, <1>11, KillHarmless, KillQuiet DEF signal_handler
  <2>. QED  BY <1>0, <1>11, <2>1, ReasonsKept DEF signal_handler, locals
<1>12. CASE \E c \in Procs : ChildHandler(c) \/ ChildExec(c) \/ ChildExit(c)
  <2>1. Harmless /\ Quiet
    BY <1>0, <1>12, HandlerHarmless, ChildHarmless, ChildQuiet
  <2>. QED  BY <1>0, <1>12, <2>1, ReasonsKept DEF ChildHandler, ChildExec, ChildExit, locals
<1>13. CASE UNCHANGED vars
  BY <1>0, <1>13, UnchangedHarmless, UnchangedQuiet, ReasonsKept DEF vars, locals
<1>. QED
  BY <1>1, <1>2, <1>3, <1>4, <1>5, <1>6, <1>7, <1>8, <1>9, <1>10, <1>11, <1>12,
     <1>13 DEF Next, Main, Finished

\* When main leaves, every child was waited for (NoOrphans), every failure
\* counts (FailureCounts) and the verdict has its reasons (Reasons).
LEMMA ExitVerdict ==
  ASSUME NForeign = 0, TypeOK, Table, NoOrphans, FailureCounts, Reasons
  PROVE  Verdict
<1>. SUFFICES ASSUME pc = "exit" PROVE Verdict
  BY DEF Verdict
<1>. DEFINE Good(c) == child[c] = "reaped" /\ status[c] = "success"
<1>1. ASSUME overall_success, max_jobs >= 1, NEW c \in Cmds PROVE Good(c)
  <2>1. child[c] # "none"
    <3>1. next_cmd = NCmds
      BY <1>1 DEF Reasons, TypeOK
    <3>. QED  BY <1>1, <3>1, BatchAssumption DEF Reasons, Cmds
  <2>2. child[c] = "reaped"
    BY <2>1, ProcsAreCmds DEF NoOrphans, Unreaped
  <2>. QED  BY <1>1, <2>2, ProcsAreCmds DEF FailureCounts
<1>2. ASSUME \A c \in Cmds : Good(c), ~got_term_signal PROVE overall_success
  BY <1>2 DEF Reasons
<1>3. ASSUME ~(max_jobs >= 1), NEW c \in Cmds PROVE child[c] = "none"
  BY <1>3 DEF Table, Cmds
<1>. QED  BY <1>1, <1>2, <1>3 DEF Verdict, AllSucceeded

\* The exit status is right whenever the limit is one at least: success means
\* that every command was started, waited for and successful, and failure that
\* one was not, or a signal.  With the limit below one that the conversion of
\* the n of -n can give, success comes without any command having run.
THEOREM VerdictIsRight ==
  ASSUME NForeign = 0
  PROVE  Spec => []Verdict
<1>. DEFINE IInv == TInv /\ Table /\ NoOrphans /\ FailureCounts /\ Reasons
<1>1. Init => IInv
  BY TInvInit, TableInit, NoOrphansInit, FailureCountsInit, ReasonsInit
<1>2. IInv /\ [Next]_vars => IInv'
  BY TInvStep, TableStep, NoOrphansStep, FailureCountsStep, ReasonsStep DEF TInv
<1>3. IInv => Verdict
  BY ExitVerdict DEF TInv
<1>. QED  BY <1>1, <1>2, <1>3, PTL DEF Spec

-----------------------------------------------------------------------------
(* Waiting.                                                                 *)

\* Main goes to wait() with free places only when it may start nothing more.
NoIdlePlace ==
  pc = "wait" /\ ~abort_requested /\ next_cmd < NCmds => active >= max_jobs

LEMMA NoIdlePlaceStep == TypeOK /\ NoIdlePlace /\ [Next]_vars => NoIdlePlace'
<1>. SUFFICES ASSUME TypeOK, NoIdlePlace, [Next]_vars, pc' = "wait"
              PROVE  NoIdlePlace'
  BY DEF NoIdlePlace
<1>1. CASE LaunchDone
  BY <1>1 DEF LaunchDone, CanLaunch, NoIdlePlace, TypeOK, locals
<1>2. ~(Loop \/ Fork \/ LaunchFails \/ Grow \/ GrowFails \/ Publish \/ Reap
        \/ Remove \/ Compact \/ RemoveUnknown \/ CheckStatus \/ Recheck)
  BY DEF Loop, Fork, LaunchFails, Grow, GrowFails, Publish, Reap, Remove, Compact,
         RemoveUnknown, CheckStatus, Recheck
<1>3. CASE \/ signal_handler
           \/ \E c \in Procs : ChildHandler(c) \/ ChildExec(c) \/ ChildExit(c)
           \/ UNCHANGED vars
  BY <1>3 DEF signal_handler, ChildHandler, ChildExec, ChildExit, vars, locals,
              NoIdlePlace
<1>. QED  BY <1>1, <1>2, <1>3 DEF Next, Main, Finished

\* While no window is open the array has an entry for each child: `active' of
\* them, as the entries differ.
LEMMA ActiveCounts ==
  ASSUME TInv, Table, pc = "wait"
  PROVE  Cardinality(Unreaped) = active
<1>. DEFINE f == [i \in 1 .. Len(jobs_running) |-> jobs_running[i]]
<1>0. Len(jobs_running) \in Nat
  BY DEF TInv, TypeOK
<1>1. active = Len(jobs_running) /\ Entries = Unreaped
  BY DEF TInv, TypeOK, Table, TableMatches
<1>2. ExistsBijection(1 .. Len(jobs_running), Entries)
  <2>1. /\ f \in [1 .. Len(jobs_running) -> Entries]
        /\ \A i, j \in 1 .. Len(jobs_running) : f[i] = f[j] => i = j
        /\ \A e \in Entries : \E i \in 1 .. Len(jobs_running) : f[i] = e
    BY DEF Entries, Table, TableMatches
  <2>2. f \in Bijection(1 .. Len(jobs_running), Entries)
    <3>. HIDE DEF f
    <3>. QED  BY <2>1, Fun_IsBij
  <2>. QED  BY <2>2 DEF ExistsBijection
<1>3. /\ IsFiniteSet(1 .. Len(jobs_running))
      /\ Cardinality(1 .. Len(jobs_running)) = Len(jobs_running)
  BY <1>0, IndexCount
<1>4. Cardinality(Entries) = Cardinality(1 .. Len(jobs_running))
  BY <1>2, <1>3, FS_Bijection
<1>. QED  BY <1>1, <1>3, <1>4

\* main blocks in wait() only with a child to wait for, and with commands left
\* to start only when all N places are taken.
THEOREM WaitIsJustified ==
  ASSUME NForeign = 0
  PROVE  Spec => []WaitsForSomething
<1>. DEFINE IInv == TInv /\ Table /\ NoIdlePlace
<1>1. Init => IInv
  <2>1. Init => NoIdlePlace
    BY DEF Init, NoIdlePlace
  <2>. QED  BY <2>1, TInvInit, TableInit
<1>2. IInv /\ [Next]_vars => IInv'
  BY TInvStep, TableStep, NoIdlePlaceStep DEF TInv
<1>3. IInv => WaitsForSomething
  <2>. SUFFICES ASSUME IInv, pc = "wait"
                PROVE  /\ Unreaped # {}
                       /\ ~abort_requested /\ next_cmd < NCmds =>
                            Cardinality(Unreaped) = max_jobs
    BY DEF WaitsForSomething
  <2>1. active >= 1 /\ active <= max_jobs /\ active \in Nat /\ max_jobs \in Int
    BY DEF TInv, TypeOK, Counters, Table
  <2>2. Cardinality(Unreaped) = active
    BY ActiveCounts
  <2>3. Unreaped # {}
    BY <2>1, <2>2, FS_EmptySet
  <2>. QED  BY <2>1, <2>2, <2>3 DEF NoIdlePlace
<1>. QED  BY <1>1, <1>2, <1>3, PTL DEF Spec
=============================================================================
