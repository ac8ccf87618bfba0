----------------------------- MODULE GossipNet ------------------------------
(***************************************************************************)
(* The network that the nodes of Asgn 8 (gossip.c) form.  A node listens,    *)
(* then makes at most one connection, then accepts connections and forwards *)
(* what it reads from one of them to all the others.  What a node does to   *)
(* one ready descriptor is a step; module GossipNode shows how its loop     *)
(* gets to every one.                                                       *)
(*                                                                          *)
(* The link that node l makes is named l.  TCP carries data both ways on a  *)
(* link, in order, as far as the buffers of the two kernels hold it.        *)
(***************************************************************************)
EXTENDS Integers, Sequences, FiniteSets, Functions

CONSTANTS
  Nodes,
  MaxLines,  \* bound on the lines typed at a node
  MaxTyped,  \* bound on the lines typed in all
  Capacity,  \* the number of lines that fit into one direction of a link
  MaxLeaves  \* bound on the nodes that leave

NoOne == "no one"

ASSUME GossipNetAssumption ==
  /\ NoOne \notin Nodes
  /\ MaxLines \in Nat
  /\ MaxTyped \in Nat
  /\ Capacity \in Nat \ {0}
  /\ MaxLeaves \in Nat

VARIABLES
  dial,      \* dial[n]: the node whose HOSTNAME:PORT n was given, or NoOne
  state,     \* "off", "listening", "up", "gone"
  link,      \* "none", "made" (in the backlog of dial[l]), "open"
  table,     \* table[n]: the links in the array pfds of n
  wire,      \* wire[<<l, n>>]: what is under way to n on link l
  typed, printed,
  audience   \* history: the nodes that were reachable when a line was typed

net  == <<dial, state, link, table>>
vars == <<net, wire, typed, printed, audience>>

Lines   == Nodes \X (1 .. MaxLines)
Ends(l) == {l, dial[l]}
Peer(l, n) == CHOOSE o \in Ends(l) : o # n
Departed == {n \in Nodes : state[n] = "gone"}

\* m sends what it reads to o: its array holds an end of a link between them.
Feeds(m, o) ==
  \E l \in Nodes : /\ Ends(l) = {m, o}
                   /\ link[l] = "open" \/ (link[l] = "made" /\ l = m)

\* The nodes that are up and that a line typed at n can get to.
Reachable(n) ==
  LET near(m) == {o \in Nodes : state[o] = "up" /\ Feeds(m, o)}
  IN  {o \in Nodes : \A S \in SUBSET Nodes :
         (n \in S /\ \A m \in S : near(m) \subseteq S) => o \in S}

\* Who is told to connect to whom: any trees, as when a node is only given the
\* address of one that is there already.
Trees ==
  {d \in [Nodes -> Nodes \cup {NoOne}] :
     \A S \in (SUBSET Nodes) \ {{}} : \E n \in S : d[n] \notin S}

Init ==
  /\ dial \in Trees
  /\ state = [n \in Nodes |-> "off"]
  /\ link = [n \in Nodes |-> "none"]
  /\ table = [n \in Nodes |-> {}]
  /\ wire = [d \in Nodes \X Nodes |-> <<>>]
  /\ typed = [n \in Nodes |-> 0]
  /\ printed = [n \in Nodes |-> <<>>]
  /\ audience = [m \in Lines |-> {}]

-----------------------------------------------------------------------------
(* Starting.                                                                *)

\* make_listener: from now on others can connect to n.
Listen(n) ==
  /\ state[n] = "off"
  /\ state' = [state EXCEPT ![n] = "listening"]
  /\ UNCHANGED <<dial, link, table, wire, typed, printed, audience>>

\* make_connection, when a HOSTNAME:PORT was given.
Connect(n) ==
  /\ state[n] = "listening" /\ dial[n] # NoOne
  /\ state[dial[n]] \in {"listening", "up"}
  /\ state' = [state EXCEPT ![n] = "up"]
  /\ link' = [link EXCEPT ![n] = "made"]
  /\ table' = [table EXCEPT ![n] = {n}]
  /\ UNCHANGED <<dial, wire, typed, printed, audience>>

\* Nobody listens there: the node exits.
ConnectFails(n) ==
  /\ state[n] = "listening" /\ dial[n] # NoOne
  /\ state[dial[n]] \in {"off", "gone"}
  /\ state' = [state EXCEPT ![n] = "gone"]
  /\ UNCHANGED <<dial, link, table, wire, typed, printed, audience>>

NoConnect(n) ==
  /\ state[n] = "listening" /\ dial[n] = NoOne
  /\ state' = [state EXCEPT ![n] = "up"]
  /\ UNCHANGED <<dial, link, table, wire, typed, printed, audience>>

-----------------------------------------------------------------------------
(* The loop.                                                                *)

\* Mutant of send_all: the data is kept until there is room for it.
send_all_Unbounded(m, links, n, w) ==
  [d \in Nodes \X Nodes |->
     IF d[1] \in links /\ d[2] = Peer(d[1], n) /\ d[2] \notin Departed
     THEN Append(w[d], m) ELSE w[d]]

\* What is written to a full socket is lost: it is in non-blocking mode and
\* send_all gives up.  So is what is written to a node that is gone.
send_all(m, links, n, w) ==
  [d \in Nodes \X Nodes |->
     IF /\ d[1] \in links /\ d[2] = Peer(d[1], n)
        /\ d[2] \notin Departed
        /\ Len(w[d]) < Capacity
     THEN Append(w[d], m) ELSE w[d]]

\* Mutant of Accept: the accepted socket is not added to the array.
AcceptForgets(n) ==
  /\ state[n] = "up"
  /\ LET new == {l \in Nodes : link[l] = "made" /\ dial[l] = n}
     IN  /\ new # {}
         /\ link' = [l \in Nodes |-> IF l \in new THEN "open" ELSE link[l]]
  /\ UNCHANGED <<dial, state, table, wire, typed, printed, audience>>

\* A link in the backlog of n moves to its array.
Accept(n) ==
  /\ state[n] = "up"
  /\ LET new == {l \in Nodes : link[l] = "made" /\ dial[l] = n}
     IN  /\ new # {}
         /\ link' = [l \in Nodes |-> IF l \in new THEN "open" ELSE link[l]]
         /\ table' = [table EXCEPT ![n] = @ \cup new]
  /\ UNCHANGED <<dial, state, wire, typed, printed, audience>>

\* A line read from stdin goes to every link.
Type(n) ==
  /\ state[n] = "up"
  /\ typed[n] < MaxLines /\ FoldFunction(+, 0, typed) < MaxTyped
  /\ typed' = [typed EXCEPT ![n] = @ + 1]
  /\ wire' = send_all(<<n, typed'[n]>>, table[n], n, wire)
  /\ audience' = [audience EXCEPT ![<<n, typed'[n]>>] = Reachable(n) \ {n}]
  /\ UNCHANGED <<net, printed>>

\* Mutants of Receive: the line is echoed to the link it came from; it is
\* not passed on.
ReceiveEchoes(n, l) ==
  /\ state[n] = "up" /\ l \in table[n] /\ wire[<<l, n>>] # <<>>
  /\ printed' = [printed EXCEPT ![n] = Append(@, Head(wire[<<l, n>>]))]
  /\ wire' = send_all(Head(wire[<<l, n>>]), table[n], n,
                      [wire EXCEPT ![<<l, n>>] = Tail(@)])
  /\ UNCHANGED <<net, typed, audience>>

ReceivePrintsOnly(n, l) ==
  /\ state[n] = "up" /\ l \in table[n] /\ wire[<<l, n>>] # <<>>
  /\ printed' = [printed EXCEPT ![n] = Append(@, Head(wire[<<l, n>>]))]
  /\ wire' = [wire EXCEPT ![<<l, n>>] = Tail(@)]
  /\ UNCHANGED <<net, typed, audience>>

\* A line read from a link is printed and goes to every other link.
Receive(n, l) ==
  /\ state[n] = "up" /\ l \in table[n] /\ wire[<<l, n>>] # <<>>
  /\ printed' = [printed EXCEPT ![n] = Append(@, Head(wire[<<l, n>>]))]
  /\ wire' = send_all(Head(wire[<<l, n>>]), table[n] \ {l}, n,
                      [wire EXCEPT ![<<l, n>>] = Tail(@)])
  /\ UNCHANGED <<net, typed, audience>>

\* The peer is gone and all it has sent is read.
HangUp(n, l) ==
  /\ state[n] = "up" /\ l \in table[n]
  /\ wire[<<l, n>>] = <<>> /\ Peer(l, n) \in Departed
  /\ table' = [table EXCEPT ![n] = @ \ {l}]
  /\ UNCHANGED <<dial, state, link, wire, typed, printed, audience>>

\* The timeout, or an interrupt: what was under way to n is lost.
Leave(n) ==
  /\ state[n] = "up" /\ Cardinality(Departed) < MaxLeaves
  /\ state' = [state EXCEPT ![n] = "gone"]
  /\ table' = [table EXCEPT ![n] = {}]
  /\ wire' = [d \in Nodes \X Nodes |-> IF d[2] = n THEN <<>> ELSE wire[d]]
  /\ UNCHANGED <<dial, link, typed, printed, audience>>

Node(n) ==
  \/ Connect(n) \/ ConnectFails(n) \/ NoConnect(n) \/ Accept(n)
  \/ \E l \in Nodes : Receive(n, l) \/ HangUp(n, l)

Quiet == UNCHANGED vars

Next ==
  \/ \E n \in Nodes : Node(n) \/ Listen(n) \/ Type(n) \/ Leave(n)
  \/ Quiet

Spec == Init /\ [][Next]_vars

\* A node that was started runs; nobody has to start one or to type a line.
FairSpec ==
  /\ Spec
  /\ \A n \in Nodes :
       /\ WF_vars(Connect(n) \/ ConnectFails(n) \/ NoConnect(n))
       /\ WF_vars(Accept(n))
       /\ \A l \in Nodes : WF_vars(Receive(n, l))

-----------------------------------------------------------------------------
(* Properties.                                                              *)

\* Every variable has its type.
TypeOK ==
  /\ dial \in [Nodes -> Nodes \cup {NoOne}]
  /\ state \in [Nodes -> {"off", "listening", "up", "gone"}]
  /\ link \in [Nodes -> {"none", "made", "open"}]
  /\ table \in [Nodes -> SUBSET Nodes]
  /\ \A l, n \in Nodes : /\ wire[<<l, n>>] \in Seq(Lines)
                         /\ Len(wire[<<l, n>>]) <= Capacity
  /\ typed \in [Nodes -> 0 .. MaxLines]
  /\ printed \in [Nodes -> Seq(Lines)]
  /\ audience \in [Lines -> SUBSET Nodes]

Abstract == INSTANCE Chat

\* However nodes start, lines race and links come and go, the network is a
\* chat: no line comes twice, late or back to its author.
IsChat == Abstract!Spec

\* Both ends of a link that is open watch it, and nobody else does, until an
\* end is gone: nothing is sent into a link that nobody will read.
LinksMatch ==
  \A l, n \in Nodes :
    l \in table[n] => /\ n \in Ends(l)
                      /\ link[l] = "open" \/ n = l
                      /\ \/ link[l] = "made"
                         \/ l \in table[Peer(l, n)]
                         \/ Peer(l, n) \in Departed

\* "Any user input must be sent to all connected nodes. Any data received
\* must be printed and sent to all other connected nodes": a line reaches
\* everyone who was reachable when it was typed.
ReachesEveryone ==
  \A o, n \in Nodes : \A k \in 1 .. MaxLines :
    n \in audience[<<o, k>>] ~> \E j \in 1 .. Len(printed[n]) :
                                  printed[n][j] = <<o, k>>
=============================================================================
