----------------------------- MODULE GossipNode -----------------------------
(***************************************************************************)
(* One node of the chat network of Asgn 8 (gossip.c): the array pfds that   *)
(* poll() watches and the loop that serves it.  stdin, the listening socket *)
(* and the peers, everything outside the node, act at any time.             *)
(*                                                                          *)
(* What is said does not matter here (module GossipNet follows messages), so *)
(* a descriptor only counts the pieces of data that can be read from it.    *)
(* Time is counted in ticks, shorter than TIMEOUT.                          *)
(***************************************************************************)
EXTENDS Integers, Sequences, FiniteSets

CONSTANTS
  Socks,        \* the descriptors accept() and connect() can return
  Timeout,      \* the TIMEOUT of -t, in ticks
  MaxUnread,    \* bound on the pieces of data waiting at a descriptor
  MaxBacklog,   \* bound on the connections waiting to be accepted
  CallsMayFail  \* whether poll(), accept(), malloc() and realloc() may fail

Stdin    == "stdin"
Listener == "listener"

ASSUME GossipNodeAssumption ==
  /\ IsFiniteSet(Socks) /\ Stdin \notin Socks /\ Listener \notin Socks
  /\ Timeout \in Nat \ {0}
  /\ MaxUnread \in Nat \ {0}
  /\ MaxBacklog \in Nat \ {0}
  /\ CallsMayFail \in BOOLEAN

Fds == Socks \cup {Stdin, Listener}

VARIABLES
  \* the node
  pc, pfds, i, stdin_open,
  \* its descriptors: "free", "up", "fin" (the peer has closed it), "reset"
  \* (the peer has reset it), "broken" (a write to it would raise SIGPIPE)
  conn,
  unread,      \* the pieces of data that can be read from a descriptor
  backlog,     \* connections that were made and not yet accepted
  \* ticks since poll() was called, and since data came in
  elapsed, quiet,
  due,         \* history: what poll() reported and the pass has not yet served
  missed       \* history: where something came in after poll() had returned 0

node   == <<pc, pfds, i, stdin_open>>
clocks == <<elapsed, quiet>>
vars   == <<node, conn, unread, backlog, clocks, due, missed>>

pfds_len == Len(pfds)
Watched  == {pfds[j].fd : j \in 1 .. pfds_len}

NoEvents == {}

\* The peers a broadcast is sent to.
Others(from) == Watched \ {Stdin, Listener, from}

\* What poll() reports: descriptors that have data, or connections to accept,
\* and those whose other end is gone.  Of the latter, without data, it may
\* report POLLHUP, or POLLIN for a read of 0, or both.
HasData == {fd \in Watched : IF fd = Listener THEN backlog > 0 ELSE unread[fd] > 0}
Ended   == {fd \in Watched \ {Listener} : conn[fd] # "up"}

SomethingReady == HasData \cup Ended # {}

pfds_add(p, fd) == Append(p, [fd |-> fd, revents |-> NoEvents])

\* The last entry takes the place of the removed one.
pfds_remove(p, idx) == SubSeq([p EXCEPT ![idx] = p[Len(p)]], 1, Len(p) - 1)

\* At most one connection of its own, to the HOSTNAME:PORT given, at the start.
Init ==
  /\ pc = "poll" /\ i = 1 /\ stdin_open = TRUE
  /\ \E own \in {{}} \cup {{s} : s \in Socks} :
       /\ conn = [fd \in Socks \cup {Stdin} |->
                    IF fd = Stdin \/ fd \in own THEN "up" ELSE "free"]
       /\ pfds = LET base == pfds_add(pfds_add(<<>>, Stdin), Listener)
                 IN  IF own = {} THEN base
                     ELSE pfds_add(base, CHOOSE s \in own : TRUE)
  /\ unread = [fd \in Socks \cup {Stdin} |-> 0]
  /\ backlog = 0
  /\ elapsed = 0 /\ quiet = 0
  /\ due = {} /\ missed = {}

-----------------------------------------------------------------------------
(* The loop.                                                                *)

\* poll() returns with events, and the pass over the array starts.
Poll ==
  /\ pc = "poll" /\ SomethingReady
  /\ \E eof \in SUBSET (Ended \ HasData), hup \in SUBSET Ended :
       LET in == HasData \cup eof
           revents(fd) == (IF fd \in in THEN {"IN"} ELSE {})
                            \cup (IF fd \in hup THEN {"HUP"} ELSE {})
       IN  /\ Ended \subseteq in \cup hup
           /\ pfds' = [j \in 1 .. pfds_len |->
                         [fd |-> pfds[j].fd, revents |-> revents(pfds[j].fd)]]
           /\ due' = in \cup hup
  /\ i' = 1 /\ pc' = "pass"
  /\ UNCHANGED <<stdin_open, conn, unread, backlog, clocks>>

\* poll() returns 0, and the node is about to leave.
PollTimeout ==
  /\ pc = "poll" /\ elapsed = Timeout
  /\ ~SomethingReady
  /\ pc' = "leave"
  /\ UNCHANGED <<pfds, i, stdin_open, conn, unread, backlog, clocks, due>>

\* poll() fails with EINTR: it is called again, with the whole TIMEOUT.
PollInterrupted ==
  /\ pc = "poll" /\ CallsMayFail
  /\ elapsed' = 0
  /\ UNCHANGED <<node, conn, unread, backlog, quiet, due>>

\* poll() fails otherwise: the node leaves, with EXIT_SUCCESS too.
PollFails ==
  /\ pc = "poll" /\ CallsMayFail
  /\ pc' = "failed"
  /\ UNCHANGED <<pfds, i, stdin_open, conn, unread, backlog, clocks, due>>

\* Every socket is closed; nobody reads what came in since poll() returned 0.
Exit ==
  /\ pc = "leave"
  /\ pc' = "exit"
  /\ UNCHANGED <<pfds, i, stdin_open, conn, unread, backlog, clocks, due>>

AtEntry(fd) == pc = "pass" /\ i <= pfds_len /\ pfds[i].fd = fd
Has(event)  == event \in pfds[i].revents

\* Back to poll(), which overwrites the revents of the last pass.
PollAgain ==
  /\ pc' = "poll" /\ i' = 1
  /\ pfds' = [j \in DOMAIN pfds |-> [pfds[j] EXCEPT !.revents = NoEvents]]

\* Mutant of PassEnd: one TIMEOUT for the whole run, not for each poll().
PassEndKeepsClock ==
  /\ pc = "pass" /\ i > pfds_len
  /\ PollAgain
  /\ elapsed' = elapsed
  /\ UNCHANGED <<stdin_open, conn, unread, backlog, clocks, due>>

\* The end of the pass: poll() again, with the whole TIMEOUT.
PassEnd ==
  /\ pc = "pass" /\ i > pfds_len
  /\ PollAgain
  /\ elapsed' = 0
  /\ UNCHANGED <<stdin_open, conn, unread, backlog, quiet, due>>

Skip ==
  /\ pc = "pass" /\ i <= pfds_len /\ pfds[i].revents = NoEvents
  /\ i' = i + 1
  /\ UNCHANGED <<pc, pfds, stdin_open, conn, unread, backlog, clocks, due>>

\* A write to each of the peers, in some state of its connection: the first
\* one after the peer has closed succeeds and is answered with a reset, one
\* after a reset fails, and the next one kills the node.
Broadcast(from) ==
  /\ pc' = IF \E s \in Others(from) : conn[s] = "broken" THEN "killed" ELSE pc
  /\ \E late \in SUBSET {s \in Others(from) : conn[s] = "fin"} :
       conn' = [fd \in DOMAIN conn |->
                  IF fd \in late \/ (fd \in Others(from) /\ conn[fd] = "reset")
                  THEN "broken" ELSE conn[fd]]

\* Mutants of Drop: the loop steps on after the removal, or back twice.
DropSkips(fd) ==
  /\ pfds' = pfds_remove(pfds, i)
  /\ i' = i + 1
  /\ due' = due \ {fd}
  /\ UNCHANGED <<pc, backlog, clocks>>

DropStepsBack(fd) ==
  /\ pfds' = pfds_remove(pfds, i)
  /\ i' = i - 1
  /\ due' = due \ {fd}
  /\ UNCHANGED <<pc, backlog, clocks>>

\* pfds_remove(i), i-- and the i++ of the loop.
Drop(fd) ==
  /\ pfds' = pfds_remove(pfds, i)
  /\ due' = due \ {fd}
  /\ UNCHANGED <<pc, i, backlog, clocks>>

\* Mutant of StdinData: line after line, as long as the user types.
StdinDataRepeats ==
  /\ AtEntry(Stdin) /\ stdin_open /\ Has("IN") /\ unread[Stdin] > 0
  /\ unread' = [unread EXCEPT ![Stdin] = @ - 1]
  /\ Broadcast(Stdin)
  /\ quiet' = 0
  /\ UNCHANGED <<i, pfds, stdin_open, backlog, elapsed, due>>

StdinData ==
  /\ AtEntry(Stdin) /\ stdin_open /\ Has("IN") /\ unread[Stdin] > 0
  /\ unread' = [unread EXCEPT ![Stdin] = @ - 1]
  /\ Broadcast(Stdin)
  /\ quiet' = 0
  /\ i' = i + 1
  /\ due' = due \ {Stdin}
  /\ UNCHANGED <<pfds, stdin_open, backlog, elapsed>>

\* malloc() fails: the line is lost, and `break' gives up the rest of the pass.
StdinNoMemory ==
  /\ AtEntry(Stdin) /\ stdin_open /\ Has("IN") /\ unread[Stdin] > 0
  /\ CallsMayFail
  /\ unread' = [unread EXCEPT ![Stdin] = @ - 1]
  /\ quiet' = 0 /\ elapsed' = 0
  /\ PollAgain
  /\ due' = {}
  /\ UNCHANGED <<stdin_open, conn, backlog>>

\* read() returns 0, or poll() reports POLLHUP without POLLIN.
StdinEnd ==
  /\ AtEntry(Stdin) /\ stdin_open
  /\ (Has("IN") /\ unread[Stdin] = 0) \/ (Has("HUP") /\ ~Has("IN"))
  /\ stdin_open' = FALSE
  /\ Drop(Stdin)
  /\ UNCHANGED <<conn, unread>>

\* accept() until it fails: each connection gets a free descriptor.
Accept ==
  /\ AtEntry(Listener) /\ Has("IN")
  /\ \E new \in SUBSET {s \in Socks : conn[s] = "free"} :
       LET free == {s \in Socks : conn[s] = "free"}
       IN  /\ Cardinality(new) <= backlog
           /\ \/ Cardinality(new) = backlog
              \/ new = free
              \/ CallsMayFail
           /\ backlog' = backlog - Cardinality(new)
           /\ conn' = [fd \in DOMAIN conn |-> IF fd \in new THEN "up" ELSE conn[fd]]
           /\ \E order \in [1 .. Cardinality(new) -> new] :
                /\ \A s \in new : \E j \in DOMAIN order : order[j] = s
                /\ pfds' = pfds \o [j \in DOMAIN order |->
                                      [fd |-> order[j], revents |-> NoEvents]]
  /\ i' = i + 1
  /\ due' = due \ {Listener}
  /\ UNCHANGED <<pc, stdin_open, unread, clocks>>

\* realloc() fails in pfds_add: the node exits with EXIT_FAILURE.
AcceptNoMemory ==
  /\ AtEntry(Listener) /\ Has("IN") /\ CallsMayFail
  /\ pc' = "fatal"
  /\ UNCHANGED <<pfds, i, stdin_open, conn, unread, backlog, clocks, due>>

PeerData(s) ==
  /\ AtEntry(s) /\ Has("IN") /\ unread[s] > 0
  /\ unread' = [unread EXCEPT ![s] = @ - 1]
  /\ Broadcast(s)
  /\ quiet' = 0
  /\ i' = i + 1
  /\ due' = due \ {s}
  /\ UNCHANGED <<pfds, stdin_open, backlog, elapsed>>

\* Mutant of PeerEnd: the entry is removed, the descriptor is not closed.
PeerEndLeaks(s) ==
  /\ AtEntry(s)
  /\ (Has("IN") /\ unread[s] = 0) \/ (Has("HUP") /\ ~Has("IN"))
  /\ Drop(s)
  /\ UNCHANGED <<conn, unread, stdin_open>>

\* read() returns 0 or fails, or POLLHUP comes alone: close().
PeerEnd(s) ==
  /\ AtEntry(s)
  /\ (Has("IN") /\ unread[s] = 0) \/ (Has("HUP") /\ ~Has("IN"))
  /\ conn' = [conn EXCEPT ![s] = "free"]
  /\ unread' = [unread EXCEPT ![s] = 0]
  /\ Drop(s)
  /\ UNCHANGED stdin_open

Node ==
  /\ \/ Poll \/ PollTimeout \/ PollInterrupted \/ PollFails \/ Exit
     \/ PassEnd \/ Skip
     \/ StdinData \/ StdinNoMemory \/ StdinEnd
     \/ Accept \/ AcceptNoMemory
     \/ \E s \in Socks : PeerData(s) \/ PeerEnd(s)
  /\ UNCHANGED missed

-----------------------------------------------------------------------------
(* Everybody else.                                                          *)

\* The user types a line, or a peer sends something.
Talk(fd) ==
  /\ conn[fd] = "up" /\ unread[fd] < MaxUnread
  /\ unread' = [unread EXCEPT ![fd] = @ + 1]
  /\ UNCHANGED <<node, conn, backlog, clocks, due>>

\* The user ends stdin; a peer closes its end, or dies with data unread.
Leave(fd) ==
  /\ conn[fd] = "up"
  /\ \E e \in IF fd = Stdin THEN {"fin"} ELSE {"fin", "reset"} :
       conn' = [conn EXCEPT ![fd] = e]
  /\ UNCHANGED <<node, unread, backlog, clocks, due>>

Visit ==
  /\ backlog < MaxBacklog
  /\ backlog' = backlog + 1
  /\ UNCHANGED <<node, conn, unread, clocks, due>>

\* Time passes while poll() waits; quiet counts to one tick over TIMEOUT.
Tick ==
  /\ pc = "poll" /\ elapsed < Timeout
  /\ ~SomethingReady
  /\ elapsed' = elapsed + 1
  /\ quiet' = IF quiet > Timeout THEN quiet ELSE quiet + 1
  /\ UNCHANGED <<node, conn, unread, backlog, due>>

Notice(fd) == missed' = IF pc = "leave" THEN missed \cup {fd} ELSE missed

Environment ==
  /\ pc \in {"poll", "pass", "leave"}
  /\ \/ Visit /\ Notice(Listener)
     \/ Tick /\ UNCHANGED missed
     \/ \E fd \in Socks \cup {Stdin} : (Talk(fd) \/ Leave(fd)) /\ Notice(fd)

Gone == pc \in {"exit", "failed", "fatal", "killed"} /\ UNCHANGED vars

Next == Node \/ Environment \/ Gone

Spec == Init /\ [][Next]_vars

\* poll() or malloc() fails, or accept() while there is a connection and a
\* descriptor.
CallFails ==
  \/ PollInterrupted \/ PollFails \/ StdinNoMemory
  \/ Accept /\ backlog' > 0 /\ \E s \in Socks : conn'[s] = "free"

\* The node runs, and calls do not fail for ever; nothing is assumed of the
\* others.
FairSpec == Spec /\ WF_vars(Node) /\ <>[][~CallFails]_vars

-----------------------------------------------------------------------------
(* Properties.                                                              *)

\* Every variable has its type.
TypeOK ==
  /\ pc \in {"poll", "pass", "leave", "exit", "failed", "fatal", "killed"}
  /\ pfds \in Seq([fd : Fds, revents : SUBSET {"IN", "HUP"}])
  /\ i \in 1 .. pfds_len + 1
  /\ stdin_open \in BOOLEAN
  /\ conn \in [Socks \cup {Stdin} -> {"free", "up", "fin", "reset", "broken"}]
  /\ unread \in [Socks \cup {Stdin} -> 0 .. MaxUnread]
  /\ backlog \in 0 .. MaxBacklog
  /\ elapsed \in 0 .. Timeout
  /\ quiet \in 0 .. Timeout + 1
  /\ due \subseteq Fds
  /\ missed \subseteq Fds

\* Whatever removals, arrivals and reuse of descriptors there were, the array
\* watches each open descriptor exactly once and no closed one.
WatchesOpenOnes ==
  /\ \A j, k \in 1 .. pfds_len : pfds[j].fd = pfds[k].fd => j = k
  /\ Watched = {Listener} \cup (IF stdin_open THEN {Stdin} ELSE {})
                          \cup {s \in Socks : conn[s] # "free"}

\* One pass serves exactly what poll() reported, although entries move while
\* it runs: what is still to come in the array is what is not yet served.
PassServesAll ==
  /\ pc = "pass" => due =
                      {pfds[j].fd : j \in {k \in i .. pfds_len :
                                             pfds[k].revents # NoEvents}}
  /\ pc = "poll" => due = {}

\* "terminate if neither user input nor data is received for TIMEOUT": a node
\* that leaves when poll() returns 0 had no data for that long, and nothing
\* that came before is left unread or waiting in any open connection, watched
\* or not.  What comes later is lost (missed).
NoEarlyExit ==
  pc \in {"leave", "exit"} =>
    /\ quiet >= Timeout
    /\ \A s \in Socks : unread[s] > 0 => s \in missed
    /\ stdin_open /\ unread[Stdin] > 0 => Stdin \in missed
    /\ backlog > 0 => Listener \in missed

\* The node has been killed by a write, has given up for want of memory, or
\* has left because poll() failed.
Down == pc \in {"killed", "fatal", "failed"}

\* A peer that keeps a busy line cannot shut out the others: what a peer has
\* sent is read, connections are accepted, hangups are noticed, but for what
\* comes when the node has already decided to leave.
EveryoneServed ==
  /\ \A s \in Socks : unread[s] > 0 ~> (unread[s] = 0 \/ s \in missed \/ Down)
  /\ backlog > 0 ~> \/ backlog = 0 \/ Listener \in missed \/ Down
                    \/ \A s \in Socks : conn[s] # "free"
  /\ \A s \in Socks : conn[s] \in {"fin", "reset"} ~>
                        (conn[s] \in {"free", "up"} \/ s \in missed \/ Down)
=============================================================================
