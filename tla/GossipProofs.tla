---------------------------- MODULE GossipProofs ----------------------------
(***************************************************************************)
(* Proofs about GossipNode, for any finite number of descriptors, any        *)
(* TIMEOUT and any bounds on what waits at a descriptor.                    *)
(*                                                                          *)
(* The array watches each open descriptor once; with that, what is still to *)
(* come in the array stays what is not yet served, wherever an entry moves. *)
(***************************************************************************)
EXTENDS GossipNode, FiniteSetTheorems, FunctionTheorems, SequenceTheorems, TLAPS

Events  == {"IN", "HUP"}
Entries == [fd : Fds, revents : SUBSET Events]
States  == {"free", "up", "fin", "reset", "broken"}

\* The descriptors of what the pass has still to come to.
Pending == {pfds[j].fd : j \in {k \in i .. pfds_len : pfds[k].revents # NoEvents}}

\* The clock of poll() is never ahead of the time without data.
ClocksAgree == pc \in {"poll", "leave", "exit"} => elapsed <= quiet

\* A descriptor that is closed has nothing to be read.
ClosedIsEmpty == \A s \in Socks : conn[s] = "free" => unread[s] = 0

-----------------------------------------------------------------------------
(* The array.                                                               *)

\* pfds_remove keeps all entries but one, and only the last one moves.
LEMMA RemoveProperties ==
  ASSUME NEW p \in Seq(Entries), NEW k \in 1 .. Len(p)
  PROVE  /\ pfds_remove(p, k) \in Seq(Entries)
         /\ Len(pfds_remove(p, k)) = Len(p) - 1
         /\ \A j \in 1 .. Len(p) - 1 :
              pfds_remove(p, k)[j] = IF j = k THEN p[Len(p)] ELSE p[j]
<1>1. Len(p) \in Nat \ {0}
  BY LenProperties
<1>2. p[Len(p)] \in Entries
  BY <1>1, ElementOfSeq
<1> DEFINE q == [p EXCEPT ![k] = p[Len(p)]]
<1>3. /\ q \in Seq(Entries) /\ Len(q) = Len(p)
      /\ \A j \in 1 .. Len(p) : q[j] = IF j = k THEN p[Len(p)] ELSE p[j]
  BY <1>1, <1>2, ExceptSeq, LenProperties
<1>4. /\ SubSeq(q, 1, Len(p) - 1) \in Seq(Entries)
      /\ Len(SubSeq(q, 1, Len(p) - 1)) = Len(p) - 1
      /\ \A j \in 1 .. Len(p) - 1 : SubSeq(q, 1, Len(p) - 1)[j] = q[j]
  <2>. HIDE DEF q
  <2>. QED  BY <1>1, <1>3
<1>. QED  BY <1>1, <1>3, <1>4 DEF pfds_remove

\* The array holds entries.
LEMMA ArrayType ==
  ASSUME TypeOK
  PROVE  /\ pfds \in Seq(Entries) /\ Len(pfds) \in Nat
         /\ \A j \in 1 .. Len(pfds) : pfds[j].fd \in Fds
         /\ Watched \subseteq Fds
<1>1. pfds \in Seq(Entries) /\ Len(pfds) \in Nat
  BY DEF TypeOK, Entries, Events
<1>2. \A j \in 1 .. Len(pfds) : pfds[j].fd \in Fds
  <2>. SUFFICES ASSUME NEW j \in 1 .. Len(pfds) PROVE pfds[j].fd \in Fds
    OBVIOUS
  <2>1. pfds[j] \in Entries
    BY <1>1
  <2>. QED  BY <2>1 DEF Entries
<1>. QED  BY <1>1, <1>2 DEF Watched, pfds_len

\* PollAgain only clears the events.
LEMMA PollAgainProperties ==
  ASSUME TypeOK, PollAgain
  PROVE  /\ pc' = "poll" /\ i' = 1
         /\ pfds' \in Seq(Entries) /\ Len(pfds') = Len(pfds)
         /\ \A j \in 1 .. Len(pfds) : pfds'[j].fd = pfds[j].fd
<1>1. pfds \in Seq(Entries) /\ Len(pfds) \in Nat /\ DOMAIN pfds = 1 .. Len(pfds)
  BY DEF TypeOK, Entries, Events
<1>2. \A j \in 1 .. Len(pfds) :
        [pfds[j] EXCEPT !.revents = NoEvents] \in Entries
  <2>. SUFFICES ASSUME NEW j \in 1 .. Len(pfds)
                PROVE  [pfds[j] EXCEPT !.revents = NoEvents] \in Entries
    OBVIOUS
  <2>1. pfds[j] \in Entries
    BY <1>1
  <2>. QED  BY <2>1 DEF Entries, NoEvents
<1>3. pfds' \in [1 .. Len(pfds) -> Entries]
  BY <1>1, <1>2 DEF PollAgain
<1>4. pfds' \in Seq(Entries) /\ Len(pfds') = Len(pfds)
  BY <1>1, <1>3
<1>5. \A j \in 1 .. Len(pfds) : pfds'[j].fd = pfds[j].fd
  <2>. SUFFICES ASSUME NEW j \in 1 .. Len(pfds) PROVE pfds'[j].fd = pfds[j].fd
    OBVIOUS
  <2>1. pfds[j] \in Entries
    BY <1>1
  <2>2. pfds'[j] = [pfds[j] EXCEPT !.revents = NoEvents]
    BY <1>1 DEF PollAgain
  <2>. QED  BY <2>1, <2>2 DEF Entries
<1>. QED  BY <1>4, <1>5 DEF PollAgain

\* The connections accept() returns are appended, each once.
LEMMA AcceptProperties ==
  ASSUME TypeOK, Accept
  PROVE  \E new \in SUBSET {s \in Socks : conn[s] = "free"} :
           /\ backlog' \in 0 .. MaxBacklog
           /\ conn' = [fd \in DOMAIN conn |-> IF fd \in new THEN "up" ELSE conn[fd]]
           /\ pfds' \in Seq(Entries) /\ Len(pfds') \in Nat /\ Len(pfds) <= Len(pfds')
           /\ \A j \in 1 .. Len(pfds) : pfds'[j] = pfds[j]
           /\ \A j \in Len(pfds) + 1 .. Len(pfds') :
                pfds'[j].revents = NoEvents /\ pfds'[j].fd \in new
           /\ \A j, k \in Len(pfds) + 1 .. Len(pfds') :
                pfds'[j].fd = pfds'[k].fd => j = k
           /\ \A s \in new : \E j \in Len(pfds) + 1 .. Len(pfds') : pfds'[j].fd = s
<1>1. PICK new \in SUBSET {s \in Socks : conn[s] = "free"} :
        /\ Cardinality(new) <= backlog
        /\ backlog' = backlog - Cardinality(new)
        /\ conn' = [fd \in DOMAIN conn |-> IF fd \in new THEN "up" ELSE conn[fd]]
        /\ \E order \in [1 .. Cardinality(new) -> new] :
             /\ \A s \in new : \E j \in DOMAIN order : order[j] = s
             /\ pfds' = pfds \o [j \in DOMAIN order |->
                                   [fd |-> order[j], revents |-> NoEvents]]
  BY DEF Accept
<1> DEFINE n == Cardinality(new)
<1>2. PICK order \in [1 .. n -> new] :
        /\ \A s \in new : \E j \in DOMAIN order : order[j] = s
        /\ pfds' = pfds \o [j \in DOMAIN order |->
                              [fd |-> order[j], revents |-> NoEvents]]
  BY <1>1
<1>3. IsFiniteSet(new) /\ n \in Nat
  BY GossipNodeAssumption, FS_Subset, FS_CardinalityType
<1>4. \A j, k \in 1 .. n : order[j] = order[k] => j = k
  <2>1. IsFiniteSet(1 .. n) /\ Cardinality(1 .. n) = n
    BY <1>3, FS_Interval
  <2>2. order \in Surjection(1 .. n, new)
    BY <1>2 DEF Surjection
  <2>3. order \in Injection(1 .. n, new)
    BY <2>1, <2>2, FS_SurjSameCardinalityImpliesInj
  <2>. QED  BY <2>3 DEF Injection, IsInjective
<1> DEFINE more == [j \in 1 .. n |-> [fd |-> order[j], revents |-> NoEvents]]
<1>5. more \in Seq(Entries) /\ Len(more) = n
  <2>1. \A j \in 1 .. n : [fd |-> order[j], revents |-> NoEvents] \in Entries
    BY <1>2 DEF Entries, Fds, NoEvents
  <2>2. more \in [1 .. n -> Entries]
    BY <2>1
  <2>. QED  BY <2>2, <1>3
<1>6. \A j \in 1 .. n : more[j].fd = order[j] /\ more[j].revents = NoEvents
  OBVIOUS
<1>7. pfds \in Seq(Entries) /\ Len(pfds) \in Nat
  BY DEF TypeOK, Entries, Events
<1>8. /\ pfds' \in Seq(Entries) /\ Len(pfds') = Len(pfds) + n
      /\ \A j \in 1 .. Len(pfds) : pfds'[j] = pfds[j]
      /\ \A j \in 1 .. n : pfds'[Len(pfds) + j] = more[j]
  <2>1. pfds' = pfds \o more
    BY <1>2
  <2>. HIDE DEF more
  <2>. QED  BY <2>1, <1>5, <1>7, <1>3, ConcatProperties
<1>9. \A j \in Len(pfds) + 1 .. Len(pfds') :
        /\ j - Len(pfds) \in 1 .. n
        /\ pfds'[j] = more[j - Len(pfds)]
  <2>. HIDE DEF more, n
  <2>. QED  BY <1>8, <1>7, <1>3
<1>10. \A s \in new : \E j \in Len(pfds) + 1 .. Len(pfds') : pfds'[j].fd = s
  <2>. SUFFICES ASSUME NEW s \in new
                PROVE  \E j \in Len(pfds) + 1 .. Len(pfds') : pfds'[j].fd = s
    OBVIOUS
  <2>1. PICK k \in 1 .. n : order[k] = s
    BY <1>2
  <2>2. Len(pfds) + k \in Len(pfds) + 1 .. Len(pfds')
    BY <1>8, <1>7, <1>3
  <2>3. pfds'[Len(pfds) + k].fd = s
    BY <1>8, <1>6, <2>1
  <2>. QED  BY <2>2, <2>3
<1>11. backlog' \in 0 .. MaxBacklog
  BY <1>1, <1>3, GossipNodeAssumption DEF TypeOK
<1>12. \A j \in Len(pfds) + 1 .. Len(pfds') :
         pfds'[j].revents = NoEvents /\ pfds'[j].fd \in new
  <2>. SUFFICES ASSUME NEW j \in Len(pfds) + 1 .. Len(pfds')
                PROVE  pfds'[j].revents = NoEvents /\ pfds'[j].fd \in new
    OBVIOUS
  <2>1. order[j - Len(pfds)] \in new
    BY <1>9, <1>2
  <2>. HIDE DEF more
  <2>. QED  BY <2>1, <1>9, <1>6
<1>13. \A j, k \in Len(pfds) + 1 .. Len(pfds') :
         pfds'[j].fd = pfds'[k].fd => j = k
  <2>. SUFFICES ASSUME NEW j \in Len(pfds) + 1 .. Len(pfds'),
                       NEW k \in Len(pfds) + 1 .. Len(pfds'),
                       pfds'[j].fd = pfds'[k].fd
                PROVE  j = k
    OBVIOUS
  <2>1. order[j - Len(pfds)] = order[k - Len(pfds)]
    BY <1>9, <1>6
  <2>2. j - Len(pfds) = k - Len(pfds)
    BY <2>1, <1>9, <1>4
  <2>. QED  BY <2>2, <1>7, <1>8, <1>3
<1>14. Len(pfds') \in Nat /\ Len(pfds) <= Len(pfds')
  BY <1>8, <1>7, <1>3
<1>. HIDE DEF more, n
<1>. QED  BY <1>1, <1>8, <1>14, <1>10, <1>11, <1>12, <1>13

\* A broadcast changes connections, but opens and closes none.
LEMMA BroadcastProperties ==
  ASSUME TypeOK, NEW from, Broadcast(from)
  PROVE  /\ conn' \in [Socks \cup {Stdin} -> States]
         /\ \A s \in Socks : conn'[s] = "free" <=> conn[s] = "free"
         /\ pc' = pc \/ pc' = "killed"
<1>1. PICK late \in SUBSET {s \in Others(from) : conn[s] = "fin"} :
        conn' = [fd \in DOMAIN conn |->
                   IF fd \in late \/ (fd \in Others(from) /\ conn[fd] = "reset")
                   THEN "broken" ELSE conn[fd]]
  BY DEF Broadcast
<1>2. conn \in [Socks \cup {Stdin} -> States]
  BY DEF TypeOK, States
<1>3. conn' \in [Socks \cup {Stdin} -> States]
  BY <1>1, <1>2 DEF States
<1>4. \A s \in Socks : conn'[s] = "free" <=> conn[s] = "free"
  BY <1>1, <1>2
<1>5. pc' = pc \/ pc' = "killed"
  BY DEF Broadcast
<1>. QED  BY <1>3, <1>4, <1>5

\* An entry goes, and what was in the array is there no more once.
LEMMA DropProperties ==
  ASSUME TypeOK, NEW fd, AtEntry(fd), Drop(fd)
  PROVE  /\ i \in 1 .. Len(pfds) /\ i' = i /\ pc' = pc /\ pc = "pass"
         /\ Len(pfds) \in Nat /\ Len(pfds') = Len(pfds) - 1
         /\ pfds' \in Seq(Entries)
         /\ \A j \in 1 .. Len(pfds') :
              pfds'[j] = IF j = i THEN pfds[Len(pfds)] ELSE pfds[j]
         /\ due' = due \ {fd}
<1>1. pfds \in Seq(Entries) /\ Len(pfds) \in Nat
  BY DEF TypeOK, Entries, Events
<1>2. i \in 1 .. Len(pfds)
  BY <1>1 DEF TypeOK, AtEntry, pfds_len
<1>. QED  BY <1>1, <1>2, RemoveProperties DEF Drop, AtEntry

-----------------------------------------------------------------------------
(* Types.                                                                   *)

\* The first state has the types.
LEMMA TypeInit == Init => TypeOK
<1>. SUFFICES ASSUME Init PROVE TypeOK
  OBVIOUS
<1>1. PICK own \in {{}} \cup {{s} : s \in Socks} :
        /\ conn = [fd \in Socks \cup {Stdin} |->
                     IF fd = Stdin \/ fd \in own THEN "up" ELSE "free"]
        /\ pfds = LET base == pfds_add(pfds_add(<<>>, Stdin), Listener)
                  IN  IF own = {} THEN base
                      ELSE pfds_add(base, CHOOSE s \in own : TRUE)
  BY DEF Init
<1>2. \A fd \in Fds : [fd |-> fd, revents |-> NoEvents] \in Entries
  BY DEF Entries, NoEvents
<1>3. Stdin \in Fds /\ Listener \in Fds /\ Socks \subseteq Fds
  BY DEF Fds
<1>4. own # {} => (CHOOSE s \in own : TRUE) \in Socks
  BY <1>1
<1>5. pfds \in Seq(Entries) /\ Len(pfds) \in Nat \ {0}
  BY <1>1, <1>2, <1>3, <1>4 DEF pfds_add
<1>. QED  BY <1>1, <1>5, GossipNodeAssumption
          DEF Init, TypeOK, Entries, Events, pfds_len

\* No step leaves the types, for any array and any number of connections.
LEMMA TypeStep == TypeOK /\ [Next]_vars => TypeOK'
<1>. SUFFICES ASSUME TypeOK, [Next]_vars PROVE TypeOK'
  OBVIOUS
<1>a. missed' \subseteq Fds
  BY DEF TypeOK, Next, Node, Environment, Notice, Gone, vars, Fds
<1>. USE GossipNodeAssumption, <1>a
<1>0. pfds \in Seq(Entries) /\ Len(pfds) \in Nat
  BY DEF TypeOK, Entries, Events
<1>1. CASE Poll
  <2>1. PICK eof \in SUBSET (Ended \ HasData), hup \in SUBSET Ended :
          LET in == HasData \cup eof
              revents(fd) == (IF fd \in in THEN {"IN"} ELSE {})
                               \cup (IF fd \in hup THEN {"HUP"} ELSE {})
          IN  /\ Ended \subseteq in \cup hup
              /\ pfds' = [j \in 1 .. pfds_len |->
                            [fd |-> pfds[j].fd, revents |-> revents(pfds[j].fd)]]
              /\ due' = in \cup hup
    BY <1>1 DEF Poll
  <2>2. pfds' \in [1 .. Len(pfds) -> Entries]
    BY <2>1, ArrayType DEF Entries, Events, pfds_len
  <2>3. pfds' \in Seq(Entries) /\ Len(pfds') = Len(pfds)
    BY <2>2, <1>0
  <2>4. due' \subseteq Fds
    BY <2>1, ArrayType DEF HasData, Ended
  <2>. QED  BY <1>1, <1>0, <2>3, <2>4 DEF Poll, TypeOK, Entries, Events, pfds_len, clocks
<1>2. CASE PollTimeout \/ PollFails \/ Exit
  BY <1>2 DEF PollTimeout, PollFails, Exit, TypeOK, pfds_len, clocks
<1>2a. CASE PollInterrupted
  BY <1>2a DEF PollInterrupted, TypeOK, pfds_len, node
<1>3. CASE PassEnd
  BY <1>3, <1>0, PollAgainProperties
     DEF PassEnd, TypeOK, Entries, Events, pfds_len
<1>4. CASE Skip
  BY <1>4, <1>0 DEF Skip, TypeOK, pfds_len, clocks
<1>5. ASSUME NEW fd \in Socks \cup {Stdin}, AtEntry(fd), Broadcast(fd),
             unread[fd] > 0, unread' = [unread EXCEPT ![fd] = @ - 1],
             i' = i + 1, due' = due \ {fd}, quiet' = 0,
             UNCHANGED <<pfds, stdin_open, backlog, elapsed>>
      PROVE  TypeOK'
  <2>1. i' \in 1 .. Len(pfds) + 1
    BY <1>5, <1>0 DEF AtEntry, TypeOK, pfds_len
  <2>2. /\ conn' \in [Socks \cup {Stdin} -> {"free", "up", "fin", "reset", "broken"}]
        /\ pc' = pc \/ pc' = "killed"
    BY <1>5, BroadcastProperties DEF States
  <2>3. unread' \in [Socks \cup {Stdin} -> 0 .. MaxUnread]
    BY <1>5 DEF TypeOK
  <2>. QED  BY <1>5, <2>1, <2>2, <2>3 DEF TypeOK, pfds_len
<1>6. CASE StdinData
  BY <1>5, <1>6 DEF StdinData
<1>7. CASE StdinNoMemory
  <2>1. unread' \in [Socks \cup {Stdin} -> 0 .. MaxUnread]
    BY <1>7 DEF StdinNoMemory, TypeOK
  <2>. QED  BY <1>7, <1>0, <2>1, PollAgainProperties
            DEF StdinNoMemory, TypeOK, Entries, Events, pfds_len
<1>8. CASE StdinEnd
  <2>1. AtEntry(Stdin) /\ Drop(Stdin) /\ stdin_open' = FALSE
        /\ UNCHANGED <<conn, unread, backlog, clocks>>
    BY <1>8 DEF StdinEnd, Drop
  <2>2. /\ i \in 1 .. Len(pfds) /\ i' = i /\ pc' = pc /\ Len(pfds) \in Nat
        /\ Len(pfds') = Len(pfds) - 1 /\ pfds' \in Seq(Entries)
        /\ due' = due \ {Stdin}
    BY <2>1, DropProperties
  <2>3. stdin_open' \in BOOLEAN
    BY <2>1
  <2>4. UNCHANGED <<conn, unread, backlog, elapsed, quiet>>
    BY <2>1 DEF clocks
  <2>. QED  BY <2>2, <2>3, <2>4 DEF TypeOK, Entries, Events, pfds_len
<1>9. CASE Accept
  <2>1. PICK new \in SUBSET {s \in Socks : conn[s] = "free"} :
          /\ backlog' \in 0 .. MaxBacklog
          /\ conn' = [fd \in DOMAIN conn |-> IF fd \in new THEN "up" ELSE conn[fd]]
          /\ pfds' \in Seq(Entries) /\ Len(pfds') \in Nat
          /\ Len(pfds) <= Len(pfds')
    BY <1>9, AcceptProperties
  <2>2. i' \in 1 .. Len(pfds') + 1
    <3>1. i \in 1 .. Len(pfds) /\ i' = i + 1
      BY <1>9, <1>0 DEF Accept, AtEntry, TypeOK, pfds_len
    <3>. QED  BY <3>1, <2>1, <1>0
  <2>3. conn' \in [Socks \cup {Stdin} -> {"free", "up", "fin", "reset", "broken"}]
    BY <2>1 DEF TypeOK
  <2>. QED  BY <1>9, <2>1, <2>2, <2>3 DEF Accept, TypeOK, Entries, Events, pfds_len, clocks
<1>10. CASE AcceptNoMemory
  BY <1>10 DEF AcceptNoMemory, TypeOK, pfds_len, clocks
<1>11. ASSUME NEW s \in Socks, PeerData(s)
       PROVE  TypeOK'
  BY <1>5, <1>11 DEF PeerData
<1>12. ASSUME NEW s \in Socks, PeerEnd(s)
       PROVE  TypeOK'
  <2>1. /\ AtEntry(s) /\ Drop(s) /\ conn' = [conn EXCEPT ![s] = "free"]
        /\ unread' = [unread EXCEPT ![s] = 0]
        /\ UNCHANGED <<stdin_open, backlog, clocks>>
    BY <1>12 DEF PeerEnd, Drop
  <2>2. /\ i \in 1 .. Len(pfds) /\ i' = i /\ pc' = pc /\ Len(pfds) \in Nat
        /\ Len(pfds') = Len(pfds) - 1 /\ pfds' \in Seq(Entries)
        /\ due' = due \ {s}
    BY <2>1, DropProperties
  <2>. QED  BY <2>1, <2>2 DEF TypeOK, Entries, Events, pfds_len, clocks
<1>13. CASE Environment
  <2>1. CASE Visit
    BY <2>1 DEF Visit, TypeOK, node, clocks, pfds_len
  <2>2. CASE Tick
    BY <2>2 DEF Tick, TypeOK, node, pfds_len
  <2>3. ASSUME NEW fd \in Socks \cup {Stdin}, Talk(fd)
        PROVE  TypeOK'
    <3>1. unread' \in [Socks \cup {Stdin} -> 0 .. MaxUnread]
      BY <2>3 DEF Talk, TypeOK
    <3>. QED  BY <2>3, <3>1 DEF Talk, TypeOK, node, clocks, pfds_len
  <2>4. ASSUME NEW fd \in Socks \cup {Stdin}, Leave(fd)
        PROVE  TypeOK'
    BY <2>4 DEF Leave, TypeOK, node, clocks, pfds_len
  <2>. QED  BY <1>13, <2>1, <2>2, <2>3, <2>4 DEF Environment
<1>14. CASE Gone
  BY <1>14 DEF Gone, vars, TypeOK, node, clocks, pfds_len
<1>15. CASE UNCHANGED vars
  BY <1>15 DEF vars, TypeOK, node, clocks, pfds_len
<1>. QED  BY <1>1, <1>2, <1>2a, <1>3, <1>4, <1>6, <1>7, <1>8, <1>9, <1>10, <1>11,
             <1>12, <1>13, <1>14, <1>15 DEF Next, Node

\* The node keeps its types: the index stays within the array, however entries
\* come and go, and no counter leaves its range.
THEOREM TypeCorrect == Spec => []TypeOK
<1>. QED  BY TypeInit, TypeStep, PTL DEF Spec

-----------------------------------------------------------------------------
(* The array and the open descriptors.                                      *)

\* What is watched when no entry is added or removed.
LEMMA SameEntries ==
  ASSUME Len(pfds') = Len(pfds), \A j \in 1 .. Len(pfds) : pfds'[j].fd = pfds[j].fd
  PROVE  Watched' = Watched
  BY DEF Watched, pfds_len

\* Steps that add and remove no entry, and open and close no descriptor.
LEMMA SameWatch ==
  ASSUME WatchesOpenOnes, Len(pfds') = Len(pfds),
         \A j \in 1 .. Len(pfds) : pfds'[j].fd = pfds[j].fd,
         stdin_open' = stdin_open,
         \A s \in Socks : conn'[s] = "free" <=> conn[s] = "free"
  PROVE  WatchesOpenOnes'
<1>1. Watched' = Watched
  BY SameEntries
<1>2. {s \in Socks : conn'[s] # "free"} = {s \in Socks : conn[s] # "free"}
  OBVIOUS
<1>3. \A j, k \in 1 .. Len(pfds') : pfds'[j].fd = pfds'[k].fd => j = k
  BY DEF WatchesOpenOnes, pfds_len
<1>. QED  BY <1>1, <1>2, <1>3 DEF WatchesOpenOnes, pfds_len

\* A descriptor that is dropped is watched no more, and all others still once.
LEMMA DropWatch ==
  ASSUME TypeOK, WatchesOpenOnes, NEW fd, AtEntry(fd), Drop(fd)
  PROVE  /\ Watched' = Watched \ {fd}
         /\ \A j, k \in 1 .. Len(pfds') : pfds'[j].fd = pfds'[k].fd => j = k
<1>1. /\ i \in 1 .. Len(pfds) /\ pfds[i].fd = fd
      /\ Len(pfds) \in Nat /\ Len(pfds') = Len(pfds) - 1
      /\ \A j \in 1 .. Len(pfds') :
           pfds'[j] = IF j = i THEN pfds[Len(pfds)] ELSE pfds[j]
  BY DropProperties DEF AtEntry
<1>2. \A j, k \in 1 .. Len(pfds) : pfds[j].fd = pfds[k].fd => j = k
  BY DEF WatchesOpenOnes, pfds_len
<1>3. \A j, k \in 1 .. Len(pfds') : pfds'[j].fd = pfds'[k].fd => j = k
  <2>. SUFFICES ASSUME NEW j \in 1 .. Len(pfds'), NEW k \in 1 .. Len(pfds'),
                       pfds'[j].fd = pfds'[k].fd
                PROVE  j = k
    OBVIOUS
  <2> DEFINE old(x) == IF x = i THEN Len(pfds) ELSE x
  <2>1. \A x \in 1 .. Len(pfds') : old(x) \in 1 .. Len(pfds) /\ pfds'[x] = pfds[old(x)]
    BY <1>1
  <2>2. old(j) = old(k)
    BY <2>1, <1>2
  <2>. QED  BY <2>2, <1>1
<1>4. Watched' \subseteq Watched \ {fd}
  <2>. SUFFICES ASSUME NEW j \in 1 .. Len(pfds')
                PROVE  pfds'[j].fd \in Watched \ {fd}
    BY DEF Watched, pfds_len
  <2>1. PICK x \in 1 .. Len(pfds) : x # i /\ pfds'[j] = pfds[x]
    BY <1>1
  <2>. QED  BY <2>1, <1>1, <1>2 DEF Watched, pfds_len
<1>5. Watched \ {fd} \subseteq Watched'
  <2>. SUFFICES ASSUME NEW x \in 1 .. Len(pfds), pfds[x].fd # fd
                PROVE  pfds[x].fd \in Watched'
    BY DEF Watched, pfds_len
  <2>1. PICK j \in 1 .. Len(pfds') : pfds'[j] = pfds[x]
    <3>1. CASE x = Len(pfds)
      <4>1. i # Len(pfds)
        BY <3>1, <1>1
      <4>. QED  BY <3>1, <4>1, <1>1
    <3>2. CASE x # Len(pfds)
      <4>1. x # i
        BY <1>1
      <4>. QED  BY <3>2, <4>1, <1>1
    <3>. QED  BY <3>1, <3>2
  <2>. QED  BY <2>1 DEF Watched, pfds_len
<1>. QED  BY <1>3, <1>4, <1>5

\* At first the array has the user, the listener and at most one connection.
LEMMA WatchInit == Init => WatchesOpenOnes
<1>. SUFFICES ASSUME Init PROVE WatchesOpenOnes
  OBVIOUS
<1>. USE GossipNodeAssumption
<1>0. Stdin # Listener
  BY DEF Stdin, Listener
<1>1. PICK own \in {{}} \cup {{s} : s \in Socks} :
        /\ conn = [fd \in Socks \cup {Stdin} |->
                     IF fd = Stdin \/ fd \in own THEN "up" ELSE "free"]
        /\ pfds = LET base == pfds_add(pfds_add(<<>>, Stdin), Listener)
                  IN  IF own = {} THEN base
                      ELSE pfds_add(base, CHOOSE s \in own : TRUE)
  BY DEF Init
<1>2. stdin_open = TRUE
  BY DEF Init
<1>3. {s \in Socks : conn[s] # "free"} = own
  BY <1>1
<1>4. CASE own = {}
  <2>1. Len(pfds) = 2 /\ pfds[1].fd = Stdin /\ pfds[2].fd = Listener
    BY <1>1, <1>4 DEF pfds_add
  <2>2. Watched = {Stdin, Listener}
    BY <2>1 DEF Watched, pfds_len
  <2>. QED  BY <2>1, <2>2, <1>0, <1>2, <1>3, <1>4 DEF WatchesOpenOnes, pfds_len
<1>5. ASSUME NEW s \in Socks, own = {s}
      PROVE  WatchesOpenOnes
  <2>0. (CHOOSE t \in own : TRUE) = s
    BY <1>5
  <2>1. /\ Len(pfds) = 3 /\ pfds[1].fd = Stdin /\ pfds[2].fd = Listener
        /\ pfds[3].fd = s
    BY <1>1, <1>5, <2>0 DEF pfds_add
  <2>2. Watched = {Stdin, Listener, s}
    BY <2>1 DEF Watched, pfds_len
  <2>3. \A j, k \in 1 .. 3 : pfds[j].fd = pfds[k].fd => j = k
    BY <2>1, <1>0
  <2>. QED  BY <2>1, <2>2, <2>3, <1>2, <1>3, <1>5 DEF WatchesOpenOnes, pfds_len
<1>. QED  BY <1>1, <1>4, <1>5

\* No step leaves an open descriptor unwatched, or watches one twice.
LEMMA WatchStep == TypeOK /\ WatchesOpenOnes /\ [Next]_vars => WatchesOpenOnes'
<1>. SUFFICES ASSUME TypeOK, WatchesOpenOnes, [Next]_vars PROVE WatchesOpenOnes'
  OBVIOUS
<1>. USE GossipNodeAssumption
<1>0. Stdin # Listener
  BY DEF Stdin, Listener
<1>1. CASE Poll
  <2>1. Len(pfds') = Len(pfds) /\ \A j \in 1 .. Len(pfds) : pfds'[j].fd = pfds[j].fd
    <3>1. PICK r \in [1 .. Len(pfds) -> SUBSET Events] :
            pfds' = [j \in 1 .. Len(pfds) |-> [fd |-> pfds[j].fd, revents |-> r[j]]]
      <4>1. PICK eof \in SUBSET (Ended \ HasData), hup \in SUBSET Ended :
              pfds' = [j \in 1 .. pfds_len |->
                         [fd |-> pfds[j].fd,
                          revents |-> (IF pfds[j].fd \in HasData \cup eof THEN {"IN"} ELSE {})
                                 \cup (IF pfds[j].fd \in hup THEN {"HUP"} ELSE {})]]
        BY <1>1 DEF Poll
      <4> DEFINE r == [j \in 1 .. Len(pfds) |->
                         (IF pfds[j].fd \in HasData \cup eof THEN {"IN"} ELSE {})
                           \cup (IF pfds[j].fd \in hup THEN {"HUP"} ELSE {})]
      <4>2. r \in [1 .. Len(pfds) -> SUBSET Events]
        BY DEF Events
      <4>3. pfds' = [j \in 1 .. Len(pfds) |-> [fd |-> pfds[j].fd, revents |-> r[j]]]
        BY <4>1 DEF pfds_len
      <4>. QED  BY <4>2, <4>3
    <3>. QED  BY <3>1, ArrayType
  <2>. QED  BY <1>1, <2>1, SameWatch DEF Poll
<1>2. CASE PassEnd \/ StdinNoMemory
  BY <1>2, PollAgainProperties, SameWatch DEF PassEnd, StdinNoMemory
<1>3. CASE PollTimeout \/ PollInterrupted \/ PollFails \/ Exit \/ Skip
           \/ AcceptNoMemory
  BY <1>3, SameWatch DEF PollTimeout, PollInterrupted, PollFails, Exit, Skip,
                         AcceptNoMemory, node
<1>4. CASE StdinData
  BY <1>4, BroadcastProperties, SameWatch DEF StdinData
<1>5. ASSUME NEW s \in Socks, PeerData(s)
      PROVE  WatchesOpenOnes'
  BY <1>5, BroadcastProperties, SameWatch DEF PeerData
<1>6. CASE StdinEnd
  <2>1. /\ Watched' = Watched \ {Stdin}
        /\ \A j, k \in 1 .. Len(pfds') : pfds'[j].fd = pfds'[k].fd => j = k
    BY <1>6, DropWatch DEF StdinEnd
  <2>2. stdin_open' = FALSE /\ conn' = conn
    BY <1>6 DEF StdinEnd
  <2>3. Watched' = {Listener} \cup {s \in Socks : conn[s] # "free"}
    BY <2>1, <1>0 DEF WatchesOpenOnes
  <2>. QED  BY <2>1, <2>2, <2>3 DEF WatchesOpenOnes, pfds_len
<1>7. ASSUME NEW s \in Socks, PeerEnd(s)
      PROVE  WatchesOpenOnes'
  <2>1. /\ Watched' = Watched \ {s}
        /\ \A j, k \in 1 .. Len(pfds') : pfds'[j].fd = pfds'[k].fd => j = k
    BY <1>7, DropWatch DEF PeerEnd
  <2>2. stdin_open' = stdin_open /\ conn' = [conn EXCEPT ![s] = "free"]
    BY <1>7 DEF PeerEnd
  <2>3. {t \in Socks : conn'[t] # "free"} = {t \in Socks : conn[t] # "free"} \ {s}
    BY <2>2 DEF TypeOK
  <2>. QED  BY <2>1, <2>2, <2>3 DEF WatchesOpenOnes, pfds_len
<1>8. CASE Accept
  <2>1. PICK new \in SUBSET {s \in Socks : conn[s] = "free"} :
          /\ conn' = [fd \in DOMAIN conn |-> IF fd \in new THEN "up" ELSE conn[fd]]
          /\ Len(pfds') \in Nat /\ Len(pfds) <= Len(pfds')
          /\ \A j \in 1 .. Len(pfds) : pfds'[j] = pfds[j]
          /\ \A j \in Len(pfds) + 1 .. Len(pfds') : pfds'[j].fd \in new
          /\ \A j, k \in Len(pfds) + 1 .. Len(pfds') :
               pfds'[j].fd = pfds'[k].fd => j = k
          /\ \A s \in new : \E j \in Len(pfds) + 1 .. Len(pfds') : pfds'[j].fd = s
    BY <1>8, AcceptProperties
  <2>2. Len(pfds) \in Nat
    BY ArrayType
  <2>3. \A j \in 1 .. Len(pfds') : j \in 1 .. Len(pfds) \/ j \in Len(pfds) + 1 .. Len(pfds')
    BY <2>1, <2>2
  <2>4. new \cap Watched = {}
    BY DEF WatchesOpenOnes
  <2>5. \A j \in 1 .. Len(pfds) : pfds'[j].fd \in Watched
    BY <2>1 DEF Watched, pfds_len
  <2>6. \A j, k \in 1 .. Len(pfds) : pfds'[j].fd = pfds'[k].fd => j = k
    BY <2>1 DEF WatchesOpenOnes, pfds_len
  <2>7. \A j, k \in 1 .. Len(pfds') : pfds'[j].fd = pfds'[k].fd => j = k
    BY <2>1, <2>3, <2>4, <2>5, <2>6
  <2>8. Watched' = Watched \cup new
    <3>1. Watched' \subseteq Watched \cup new
      BY <2>1, <2>3, <2>5 DEF Watched, pfds_len
    <3>2. Watched \subseteq Watched'
      <4>. SUFFICES ASSUME NEW j \in 1 .. Len(pfds)
                    PROVE  pfds[j].fd \in Watched'
        BY DEF Watched, pfds_len
      <4>1. j \in 1 .. Len(pfds') /\ pfds'[j] = pfds[j]
        BY <2>1, <2>2
      <4>. QED  BY <4>1 DEF Watched, pfds_len
    <3>3. new \subseteq Watched'
      <4>. SUFFICES ASSUME NEW s \in new PROVE s \in Watched'
        OBVIOUS
      <4>1. PICK j \in Len(pfds) + 1 .. Len(pfds') : pfds'[j].fd = s
        BY <2>1
      <4>2. j \in 1 .. Len(pfds')
        BY <2>1, <2>2
      <4>. QED  BY <4>1, <4>2 DEF Watched, pfds_len
    <3>. QED  BY <3>1, <3>2, <3>3
  <2>9. {s \in Socks : conn'[s] # "free"} = {s \in Socks : conn[s] # "free"} \cup new
    BY <2>1 DEF TypeOK
  <2>10. stdin_open' = stdin_open
    BY <1>8 DEF Accept
  <2>. QED  BY <2>7, <2>8, <2>9, <2>10 DEF WatchesOpenOnes, pfds_len
<1>9. CASE Environment
  <2>1. /\ pfds' = pfds /\ stdin_open' = stdin_open
        /\ \A s \in Socks : conn'[s] = "free" <=> conn[s] = "free"
    BY <1>9 DEF Environment, Visit, Tick, Talk, Leave, node, TypeOK
  <2>. QED  BY <2>1, SameWatch
<1>10. CASE Gone \/ UNCHANGED vars
  <2>1. UNCHANGED <<pfds, stdin_open, conn>>
    BY <1>10 DEF Gone, vars, node
  <2>. QED  BY <2>1, SameWatch
<1>. QED  BY <1>1, <1>2, <1>3, <1>4, <1>5, <1>6, <1>7, <1>8, <1>9, <1>10
          DEF Next, Node

\* The array watches each open descriptor once and no closed one, after any
\* sequence of removals, arrivals and reuse of descriptors.
THEOREM WatchCorrect == Spec => []WatchesOpenOnes
<1>1. Init => TypeOK /\ WatchesOpenOnes
  BY TypeInit, WatchInit
<1>2. TypeOK /\ WatchesOpenOnes /\ [Next]_vars => (TypeOK /\ WatchesOpenOnes)'
  BY TypeStep, WatchStep
<1>. QED  BY <1>1, <1>2, PTL DEF Spec

-----------------------------------------------------------------------------
(* The pass.                                                                *)

\* The entry that was served is done, and no other has its descriptor.
LEMMA ServedPending ==
  ASSUME TypeOK, WatchesOpenOnes, NEW fd, AtEntry(fd),
         pfds' = pfds, i' = i + 1
  PROVE  Pending' = Pending \ {fd}
<1>1. Len(pfds) \in Nat /\ i \in 1 .. Len(pfds) /\ pfds[i].fd = fd
  BY ArrayType DEF AtEntry, TypeOK, pfds_len
<1>2. \A j \in 1 .. Len(pfds) : pfds[j].fd = fd <=> j = i
  BY <1>1 DEF WatchesOpenOnes, pfds_len
<1>3. \A j \in i .. Len(pfds) : j \in 1 .. Len(pfds) /\ (j # i <=> j \in i + 1 .. Len(pfds))
  BY <1>1
<1>4. \A j \in i + 1 .. Len(pfds) : j \in i .. Len(pfds)
  BY <1>1
<1>. QED  BY <1>2, <1>3, <1>4 DEF Pending, pfds_len

\* The entry that takes the place of a removed one is still to come.
LEMMA DroppedPending ==
  ASSUME TypeOK, WatchesOpenOnes, NEW fd, AtEntry(fd), Drop(fd)
  PROVE  Pending' = Pending \ {fd}
<1>1. /\ i \in 1 .. Len(pfds) /\ pfds[i].fd = fd /\ i' = i
      /\ Len(pfds) \in Nat /\ Len(pfds') = Len(pfds) - 1
      /\ \A j \in 1 .. Len(pfds') :
           pfds'[j] = IF j = i THEN pfds[Len(pfds)] ELSE pfds[j]
  BY DropProperties DEF AtEntry
<1>2. \A j \in 1 .. Len(pfds) : pfds[j].fd = fd <=> j = i
  BY <1>1 DEF WatchesOpenOnes, pfds_len
<1>3. \A j \in i .. Len(pfds') :
        \E x \in i .. Len(pfds) : x # i /\ pfds'[j] = pfds[x]
  <2>. SUFFICES ASSUME NEW j \in i .. Len(pfds')
                PROVE  \E x \in i .. Len(pfds) : x # i /\ pfds'[j] = pfds[x]
    OBVIOUS
  <2>1. CASE j = i
    <3>1. Len(pfds) \in i .. Len(pfds) /\ Len(pfds) # i /\ pfds'[j] = pfds[Len(pfds)]
      BY <1>1, <2>1
    <3>. QED  BY <3>1
  <2>2. CASE j # i
    <3>1. j \in i .. Len(pfds) /\ pfds'[j] = pfds[j]
      BY <1>1, <2>2
    <3>. QED  BY <3>1, <2>2
  <2>. QED  BY <2>1, <2>2
<1>4. \A x \in i .. Len(pfds) :
        x # i => \E j \in i .. Len(pfds') : pfds'[j] = pfds[x]
  <2>. SUFFICES ASSUME NEW x \in i .. Len(pfds), x # i
                PROVE  \E j \in i .. Len(pfds') : pfds'[j] = pfds[x]
    OBVIOUS
  <2>1. CASE x = Len(pfds)
    <3>1. i \in i .. Len(pfds') /\ pfds'[i] = pfds[x]
      BY <1>1, <2>1
    <3>. QED  BY <3>1
  <2>2. CASE x # Len(pfds)
    <3>1. x \in i .. Len(pfds') /\ pfds'[x] = pfds[x]
      BY <1>1, <2>2
    <3>. QED  BY <3>1
  <2>. QED  BY <2>1, <2>2
<1>5. Pending' \subseteq Pending \ {fd}
  <2>. SUFFICES ASSUME NEW j \in i .. Len(pfds'), pfds'[j].revents # NoEvents
                PROVE  pfds'[j].fd \in Pending \ {fd}
    BY <1>1 DEF Pending, pfds_len
  <2>1. PICK x \in i .. Len(pfds) : x # i /\ pfds'[j] = pfds[x]
    BY <1>3
  <2>2. x \in 1 .. Len(pfds)
    BY <1>1
  <2>. QED  BY <2>1, <2>2, <1>2 DEF Pending, pfds_len
<1>6. Pending \ {fd} \subseteq Pending'
  <2>. SUFFICES ASSUME NEW x \in i .. Len(pfds), pfds[x].revents # NoEvents,
                       pfds[x].fd # fd
                PROVE  pfds[x].fd \in Pending'
    BY DEF Pending, pfds_len
  <2>1. PICK j \in i .. Len(pfds') : pfds'[j] = pfds[x]
    BY <1>4, <1>1
  <2>. QED  BY <2>1, <1>1 DEF Pending, pfds_len
<1>. QED  BY <1>5, <1>6

\* Accepted connections have no events yet.
LEMMA AcceptedPending ==
  ASSUME TypeOK, WatchesOpenOnes, Accept
  PROVE  Pending' = Pending \ {Listener}
<1>1. PICK new \in SUBSET {s \in Socks : conn[s] = "free"} :
        /\ Len(pfds') \in Nat /\ Len(pfds) <= Len(pfds')
        /\ \A j \in 1 .. Len(pfds) : pfds'[j] = pfds[j]
        /\ \A j \in Len(pfds) + 1 .. Len(pfds') : pfds'[j].revents = NoEvents
  BY AcceptProperties
<1>2. /\ Len(pfds) \in Nat /\ i \in 1 .. Len(pfds) /\ pfds[i].fd = Listener
      /\ i' = i + 1
  BY ArrayType DEF Accept, AtEntry, TypeOK, pfds_len
<1>3. \A j \in 1 .. Len(pfds) : pfds[j].fd = Listener <=> j = i
  BY <1>2 DEF WatchesOpenOnes, pfds_len
<1>4. Pending' \subseteq Pending \ {Listener}
  <2>. SUFFICES ASSUME NEW j \in i + 1 .. Len(pfds'), pfds'[j].revents # NoEvents
                PROVE  pfds'[j].fd \in Pending \ {Listener}
    BY <1>2 DEF Pending, pfds_len
  <2>1. j \in 1 .. Len(pfds) /\ j \in i .. Len(pfds) /\ j # i
    BY <1>1, <1>2
  <2>. QED  BY <2>1, <1>1, <1>3 DEF Pending, pfds_len
<1>5. Pending \ {Listener} \subseteq Pending'
  <2>. SUFFICES ASSUME NEW x \in i .. Len(pfds), pfds[x].revents # NoEvents,
                       pfds[x].fd # Listener
                PROVE  pfds[x].fd \in Pending'
    BY DEF Pending, pfds_len
  <2>1. x \in 1 .. Len(pfds) /\ x \in i + 1 .. Len(pfds')
    BY <1>1, <1>2
  <2>. QED  BY <2>1, <1>1, <1>2 DEF Pending, pfds_len
<1>. QED  BY <1>4, <1>5

\* What poll() reported and is not yet served is ahead of i, after any step.
LEMMA PassStep ==
  TypeOK /\ WatchesOpenOnes /\ PassServesAll /\ [Next]_vars => PassServesAll'
<1>. SUFFICES ASSUME TypeOK, WatchesOpenOnes, PassServesAll, [Next]_vars
              PROVE  PassServesAll'
  OBVIOUS
<1>0. /\ PassServesAll  <=> /\ pc = "pass" => due = Pending
                            /\ pc = "poll" => due = {}
      /\ PassServesAll' <=> /\ pc' = "pass" => due' = Pending'
                            /\ pc' = "poll" => due' = {}
  BY DEF PassServesAll, Pending
<1>1. CASE Poll
  <2>1. PICK eof \in SUBSET (Ended \ HasData), hup \in SUBSET Ended :
          /\ Ended \subseteq (HasData \cup eof) \cup hup
          /\ pfds' = [j \in 1 .. pfds_len |->
                        [fd |-> pfds[j].fd,
                         revents |-> (IF pfds[j].fd \in HasData \cup eof THEN {"IN"} ELSE {})
                                \cup (IF pfds[j].fd \in hup THEN {"HUP"} ELSE {})]]
          /\ due' = (HasData \cup eof) \cup hup
    BY <1>1 DEF Poll
  <2>2. Len(pfds) \in Nat /\ Len(pfds') = Len(pfds) /\ i' = 1 /\ pc' = "pass"
    BY <1>1, <2>1, ArrayType DEF Poll, pfds_len
  <2>3. \A j \in 1 .. Len(pfds) :
          /\ pfds'[j].fd = pfds[j].fd
          /\ pfds'[j].revents # NoEvents <=> pfds[j].fd \in due'
    <3>. SUFFICES ASSUME NEW j \in 1 .. Len(pfds)
                  PROVE  /\ pfds'[j].fd = pfds[j].fd
                         /\ pfds'[j].revents # NoEvents <=> pfds[j].fd \in due'
      OBVIOUS
    <3>1. pfds'[j] = [fd |-> pfds[j].fd,
                      revents |-> (IF pfds[j].fd \in HasData \cup eof THEN {"IN"} ELSE {})
                             \cup (IF pfds[j].fd \in hup THEN {"HUP"} ELSE {})]
      BY <2>1 DEF pfds_len
    <3>2. pfds'[j].revents = (IF pfds[j].fd \in HasData \cup eof THEN {"IN"} ELSE {})
                        \cup (IF pfds[j].fd \in hup THEN {"HUP"} ELSE {})
      BY <3>1
    <3>3. due' = (HasData \cup eof) \cup hup
      BY <2>1
    <3>4. CASE pfds[j].fd \in HasData \cup eof
      <4>1. "IN" \in pfds'[j].revents
        BY <3>2, <3>4
      <4>. QED  BY <3>1, <3>3, <3>4, <4>1 DEF NoEvents
    <3>5. CASE pfds[j].fd \in hup
      <4>1. "HUP" \in pfds'[j].revents
        BY <3>2, <3>5
      <4>. QED  BY <3>1, <3>3, <3>5, <4>1 DEF NoEvents
    <3>6. CASE pfds[j].fd \notin HasData \cup eof /\ pfds[j].fd \notin hup
      <4>1. pfds'[j].revents = {}
        BY <3>2, <3>6
      <4>. QED  BY <3>1, <3>3, <3>6, <4>1 DEF NoEvents
    <3>. QED  BY <3>4, <3>5, <3>6
  <2>4. due' \subseteq Watched
    BY <2>1 DEF HasData, Ended
  <2>5. due' = Pending'
    BY <2>2, <2>3, <2>4 DEF Watched, Pending, pfds_len
  <2>. QED  BY <1>0, <2>2, <2>5
<1>2. CASE PollTimeout \/ PollFails \/ Exit \/ AcceptNoMemory
  BY <1>0, <1>2 DEF PollTimeout, PollFails, Exit, AcceptNoMemory
<1>2a. CASE PollInterrupted
  BY <1>0, <1>2a DEF PollInterrupted, node
<1>3. CASE PassEnd
  <2>1. Pending = {}
    BY <1>3, ArrayType DEF PassEnd, Pending, TypeOK, pfds_len
  <2>. QED  BY <1>0, <1>3, <2>1 DEF PassEnd, PollAgain
<1>4. CASE StdinNoMemory
  BY <1>0, <1>4 DEF StdinNoMemory, PollAgain
<1>5. CASE Skip
  <2>1. Len(pfds) \in Nat /\ i \in 1 .. Len(pfds) /\ i' = i + 1 /\ pfds' = pfds
        /\ pfds[i].revents = NoEvents
    BY <1>5, ArrayType DEF Skip, TypeOK, pfds_len
  <2>2. Pending' = Pending
    <3>1. \A j \in i .. Len(pfds) : j = i \/ j \in i + 1 .. Len(pfds)
      BY <2>1
    <3>2. \A j \in i + 1 .. Len(pfds) : j \in i .. Len(pfds)
      BY <2>1
    <3>. QED  BY <2>1, <3>1, <3>2 DEF Pending, pfds_len
  <2>. QED  BY <1>0, <1>5, <2>2 DEF Skip
<1>6. ASSUME NEW fd, AtEntry(fd), Broadcast(fd), i' = i + 1, pfds' = pfds,
             due' = due \ {fd}
      PROVE  PassServesAll'
  <2>1. Pending' = Pending \ {fd} /\ pc = "pass" /\ (pc' = pc \/ pc' = "killed")
    BY <1>6, ServedPending, BroadcastProperties DEF AtEntry
  <2>. QED  BY <1>0, <1>6, <2>1
<1>7. CASE StdinData
  BY <1>6, <1>7 DEF StdinData
<1>8. ASSUME NEW s \in Socks, PeerData(s)
      PROVE  PassServesAll'
  BY <1>6, <1>8 DEF PeerData
<1>9. ASSUME NEW fd, AtEntry(fd), Drop(fd)
      PROVE  PassServesAll'
  BY <1>0, <1>9, DroppedPending, DropProperties
<1>10. CASE StdinEnd
  BY <1>9, <1>10 DEF StdinEnd
<1>11. ASSUME NEW s \in Socks, PeerEnd(s)
       PROVE  PassServesAll'
  BY <1>9, <1>11 DEF PeerEnd
<1>12. CASE Accept
  <2>1. pc = "pass" /\ pc' = pc /\ due' = due \ {Listener}
    BY <1>12 DEF Accept, AtEntry
  <2>. QED  BY <1>0, <1>12, <2>1, AcceptedPending
<1>13. CASE Environment \/ Gone \/ UNCHANGED vars
  <2>1. UNCHANGED <<pc, pfds, i, due>>
    BY <1>13 DEF Environment, Visit, Tick, Talk, Leave, Gone, vars, node
  <2>. QED  BY <1>0, <2>1 DEF Pending, pfds_len
<1>. QED  BY <1>1, <1>2, <1>2a, <1>3, <1>4, <1>5, <1>7, <1>8, <1>10, <1>11, <1>12,
             <1>13 DEF Next, Node

\* One pass serves exactly what poll() reported, for any number of descriptors
\* and however entries move while it runs.
THEOREM PassCorrect == Spec => []PassServesAll
<1>1. Init => TypeOK /\ WatchesOpenOnes /\ PassServesAll
  BY TypeInit, WatchInit DEF Init, PassServesAll
<1>2. TypeOK /\ WatchesOpenOnes /\ PassServesAll /\ [Next]_vars
        => (TypeOK /\ WatchesOpenOnes /\ PassServesAll)'
  BY TypeStep, WatchStep, PassStep
<1>. QED  BY <1>1, <1>2, PTL DEF Spec

-----------------------------------------------------------------------------
(* The timeout.                                                             *)

\* No step lets the clock of poll() get ahead of the time without data.
LEMMA ClocksStep == TypeOK /\ ClocksAgree /\ [Next]_vars => ClocksAgree'
<1>. SUFFICES ASSUME TypeOK, ClocksAgree, [Next]_vars PROVE ClocksAgree'
  OBVIOUS
<1>. USE GossipNodeAssumption
<1>0. elapsed \in 0 .. Timeout /\ quiet \in 0 .. Timeout + 1
  BY DEF TypeOK
<1>1. CASE Poll \/ PollFails \/ Skip \/ AcceptNoMemory
  BY <1>1, <1>0 DEF Poll, PollFails, Skip, AcceptNoMemory, ClocksAgree
<1>2. CASE PollTimeout \/ Exit
  BY <1>2, <1>0 DEF PollTimeout, Exit, ClocksAgree, clocks
<1>3. CASE PassEnd \/ StdinNoMemory \/ PollInterrupted
  BY <1>3, <1>0 DEF PassEnd, StdinNoMemory, PollInterrupted, ClocksAgree
<1>4. CASE StdinData \/ \E s \in Socks : PeerData(s)
  <2>1. pc = "pass" /\ (pc' = pc \/ pc' = "killed")
    BY <1>4 DEF StdinData, PeerData, AtEntry, Broadcast
  <2>. QED  BY <2>1 DEF ClocksAgree
<1>5. CASE StdinEnd \/ Accept \/ \E s \in Socks : PeerEnd(s)
  <2>1. pc = "pass" /\ pc' = pc
    BY <1>5 DEF StdinEnd, PeerEnd, Accept, AtEntry, Drop
  <2>. QED  BY <2>1 DEF ClocksAgree
<1>6. CASE Tick
  <2>1. pc = "poll" /\ elapsed < Timeout /\ elapsed' = elapsed + 1
        /\ quiet' = IF quiet > Timeout THEN quiet ELSE quiet + 1
    BY <1>6 DEF Tick
  <2>. QED  BY <2>1, <1>0 DEF ClocksAgree
<1>7. CASE Visit \/ \E fd \in Socks \cup {Stdin} : Talk(fd) \/ Leave(fd)
  BY <1>7 DEF Visit, Talk, Leave, node, clocks, ClocksAgree
<1>8. CASE Gone \/ UNCHANGED vars
  BY <1>8 DEF Gone, vars, node, clocks, ClocksAgree
<1>. QED  BY <1>1, <1>2, <1>3, <1>4, <1>5, <1>6, <1>7, <1>8
          DEF Next, Node, Environment

\* No step leaves data at a closed descriptor: close() throws it away, and a
\* connection that was just accepted has none yet.
LEMMA ClosedStep == TypeOK /\ ClosedIsEmpty /\ [Next]_vars => ClosedIsEmpty'
<1>. SUFFICES ASSUME TypeOK, ClosedIsEmpty, [Next]_vars,
                     NEW s \in Socks, conn'[s] = "free"
              PROVE  unread'[s] = 0
  BY DEF ClosedIsEmpty
<1>1. CASE Poll \/ PollTimeout \/ PollInterrupted \/ PollFails \/ Exit \/ PassEnd
           \/ Skip \/ StdinEnd \/ AcceptNoMemory
  BY <1>1 DEF ClosedIsEmpty, Poll, PollTimeout, PollInterrupted, PollFails, Exit,
              PassEnd, Skip, StdinEnd, AcceptNoMemory
<1>2. ASSUME NEW fd \in Socks \cup {Stdin}, Broadcast(fd) \/ UNCHANGED conn,
             unread[fd] > 0, unread' = [unread EXCEPT ![fd] = @ - 1],
             fd = Stdin \/ conn[fd] # "free"
      PROVE  unread'[s] = 0
  <2>1. conn[s] = "free"
    BY <1>2, BroadcastProperties
  <2>2. fd # s
    BY <1>2, <2>1, GossipNodeAssumption
  <2>. QED  BY <1>2, <2>1, <2>2 DEF ClosedIsEmpty, TypeOK
<1>3. CASE StdinData \/ StdinNoMemory
  BY <1>2, <1>3 DEF StdinData, StdinNoMemory
<1>4. ASSUME NEW t \in Socks, PeerData(t) PROVE unread'[s] = 0
  <2>1. /\ Broadcast(t) /\ unread[t] > 0
        /\ unread' = [unread EXCEPT ![t] = @ - 1]
    BY <1>4 DEF PeerData
  <2>2. conn[t] # "free"
    BY <2>1 DEF ClosedIsEmpty
  <2>. QED  BY <1>2, <2>1, <2>2
<1>5. ASSUME NEW t \in Socks, PeerEnd(t) PROVE unread'[s] = 0
  BY <1>5 DEF PeerEnd, ClosedIsEmpty, TypeOK
<1>6. CASE Accept
  <2>1. conn[s] = "free"
    BY <1>6, AcceptProperties DEF TypeOK
  <2>. QED  BY <1>6, <2>1 DEF Accept, ClosedIsEmpty
<1>7. CASE Environment
  <2>1. CASE Visit \/ Tick
    BY <2>1 DEF Visit, Tick, ClosedIsEmpty
  <2>2. ASSUME NEW fd \in Socks \cup {Stdin}, Talk(fd) \/ Leave(fd)
        PROVE  unread'[s] = 0
    BY <2>2 DEF Talk, Leave, ClosedIsEmpty, TypeOK
  <2>. QED  BY <1>7, <2>1, <2>2 DEF Environment
<1>8. CASE Gone \/ UNCHANGED vars
  BY <1>8 DEF Gone, vars, ClosedIsEmpty
<1>. QED  BY <1>1, <1>3, <1>4, <1>5, <1>6, <1>7, <1>8 DEF Next, Node

\* poll() returns 0 when both clocks are at TIMEOUT and no open descriptor has
\* anything; what comes in from then on is noted.
LEMMA ExitStep ==
  TypeOK /\ WatchesOpenOnes /\ ClosedIsEmpty /\ ClocksAgree /\ NoEarlyExit
    /\ [Next]_vars => NoEarlyExit'
<1>. SUFFICES ASSUME TypeOK, WatchesOpenOnes, ClosedIsEmpty, ClocksAgree,
                     NoEarlyExit, [Next]_vars, pc' \in {"leave", "exit"}
              PROVE  NoEarlyExit'
  BY DEF NoEarlyExit
<1>. USE GossipNodeAssumption
<1>1. CASE PollTimeout
  <2>1. /\ pc = "poll" /\ elapsed = Timeout /\ HasData = {}
        /\ UNCHANGED <<stdin_open, unread, backlog, quiet>>
    BY <1>1 DEF PollTimeout, SomethingReady, clocks
  <2>2. quiet >= Timeout
    BY <2>1 DEF ClocksAgree, TypeOK
  <2>3. \A s \in Socks : unread[s] = 0
    <3>. SUFFICES ASSUME NEW s \in Socks, unread[s] # 0 PROVE FALSE
      OBVIOUS
    <3>1. s \in Watched /\ s # Listener
      BY DEF WatchesOpenOnes, ClosedIsEmpty
    <3>. QED  BY <2>1, <3>1 DEF HasData, TypeOK
  <2>4. stdin_open => unread[Stdin] = 0
    <3>. SUFFICES ASSUME stdin_open, unread[Stdin] # 0 PROVE FALSE
      OBVIOUS
    <3>1. Stdin \in Watched /\ Stdin # Listener
      BY DEF WatchesOpenOnes, Stdin, Listener
    <3>. QED  BY <2>1, <3>1 DEF HasData, TypeOK
  <2>5. backlog = 0
    <3>1. Listener \in Watched
      BY DEF WatchesOpenOnes
    <3>. QED  BY <2>1, <3>1 DEF HasData, TypeOK
  <2>. QED  BY <2>1, <2>2, <2>3, <2>4, <2>5 DEF NoEarlyExit
<1>2. CASE Exit /\ UNCHANGED missed
  BY <1>2 DEF Exit, NoEarlyExit, clocks
<1>3. CASE Environment
  <2>1. pc = "leave" /\ UNCHANGED <<quiet, stdin_open>>
    BY <1>3 DEF Environment, Visit, Tick, Talk, Leave, node, clocks
  <2>2. CASE Visit /\ Notice(Listener)
    BY <2>1, <2>2 DEF NoEarlyExit, Visit, Notice
  <2>3. ASSUME NEW fd \in Socks \cup {Stdin}, Talk(fd) \/ Leave(fd), Notice(fd)
        PROVE  NoEarlyExit'
    <3>1. missed' = missed \cup {fd} /\ backlog' = backlog
      BY <2>1, <2>3 DEF Notice, Talk, Leave
    <3>2. \A d \in (Socks \cup {Stdin}) \ {fd} : unread'[d] = unread[d]
      BY <2>3 DEF Talk, Leave, TypeOK
    <3>. QED  BY <2>1, <3>1, <3>2 DEF NoEarlyExit
  <2>. QED  BY <1>3, <2>1, <2>2, <2>3 DEF Environment, Tick
<1>4. CASE Gone \/ UNCHANGED vars
  BY <1>4 DEF Gone, vars, node, clocks, NoEarlyExit
<1>5. CASE Node /\ ~PollTimeout /\ ~Exit
  BY <1>5 DEF Node, Poll, PollInterrupted, PollFails, PassEnd, Skip, StdinData,
              StdinNoMemory, StdinEnd, Accept, AcceptNoMemory, PeerData, PeerEnd,
              PollAgain, Broadcast, Drop, AtEntry, node
<1>. QED  BY <1>1, <1>2, <1>3, <1>4, <1>5 DEF Next, Node

\* A node that leaves because poll() returned 0 had no data for the whole
\* TIMEOUT, and all that came before that was read, in every open connection,
\* for every TIMEOUT and any number of peers.
THEOREM ExitIsJustified == Spec => []NoEarlyExit
<1>. DEFINE IInv == /\ TypeOK /\ WatchesOpenOnes /\ ClosedIsEmpty
                    /\ ClocksAgree /\ NoEarlyExit
<1>1. Init => IInv
  <2>1. Init => ClosedIsEmpty /\ ClocksAgree /\ NoEarlyExit
    BY DEF Init, ClosedIsEmpty, ClocksAgree, NoEarlyExit
  <2>. QED  BY <2>1, TypeInit, WatchInit
<1>2. IInv /\ [Next]_vars => IInv'
  BY TypeStep, WatchStep, ClosedStep, ClocksStep, ExitStep
<1>3. IInv => NoEarlyExit
  OBVIOUS
<1>. QED  BY <1>1, <1>2, <1>3, PTL DEF Spec
=============================================================================
