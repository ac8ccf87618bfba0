-------------------------- MODULE GossipNetProofs ---------------------------
(***************************************************************************)
(* Proofs about GossipNet, for any set of nodes, any forest of links and    *)
(* any bounds: types, the agreement of the two ends of a link, and that the *)
(* network implements Chat.                                                 *)
(*                                                                          *)
(* The last of these is about the way of a line.  Link l cuts its tree in   *)
(* two: Behind(l) is the side of the node that made it.  A line of o is     *)
(* only ever under way from the side of o to the other one, and a node has  *)
(* one link at most that leads to it from o.                                *)
(***************************************************************************)
EXTENDS GossipNet, SequenceTheorems, TLAPS

\* The nodes that are connected to l without its own link.
Behind(l) ==
  {o \in Nodes : \A S \in SUBSET Nodes :
     (l \in S /\ \A m \in Nodes : dial[m] \in S => m \in S) => o \in S}

\* On its way to n, link l leads away from o.
Away(l, n, o) ==
  /\ dial[l] \in Nodes
  /\ \/ n = l /\ o \notin Behind(l)
     \/ n = dial[l] /\ o \in Behind(l)

\* p has typed the line m, or printed it.
Knows(p, m, pr) == p = m[1] \/ \E j \in 1 .. Len(pr[p]) : pr[p][j] = m

\* Every line is on its way from the node where it was typed, and known to those
\* it has passed; the lines of one node follow each other on every link, and
\* what is printed was ahead of what is still to come.
Faithful(w, pr, ty) ==
  /\ \A l, n \in Nodes : \A j \in 1 .. Len(w[<<l, n>>]) :
       /\ Away(l, n, w[<<l, n>>][j][1])
       /\ w[<<l, n>>][j][2] <= ty[w[<<l, n>>][j][1]]
       /\ Knows(Peer(l, n), w[<<l, n>>][j], pr)
  /\ \A n \in Nodes : \A j \in 1 .. Len(pr[n]) :
       /\ pr[n][j][1] # n
       /\ pr[n][j][2] <= ty[pr[n][j][1]]
       /\ \A l \in Nodes : Away(l, n, pr[n][j][1]) => Knows(Peer(l, n), pr[n][j], pr)
  /\ \A l, n \in Nodes : \A i, j \in 1 .. Len(w[<<l, n>>]) :
       i < j /\ w[<<l, n>>][i][1] = w[<<l, n>>][j][1] => w[<<l, n>>][i][2] < w[<<l, n>>][j][2]
  /\ \A l, n \in Nodes : \A i \in 1 .. Len(pr[n]) : \A j \in 1 .. Len(w[<<l, n>>]) :
       pr[n][i][1] = w[<<l, n>>][j][1] => pr[n][i][2] < w[<<l, n>>][j][2]

LinesFaithful == Faithful(wire, printed, typed)

\* A forest, and a queue for each direction of each link.
Shape ==
  /\ dial \in Trees
  /\ wire \in [Nodes \X Nodes -> Seq(Lines)]

\* Where a link is when a node has started, has made it, or is gone.
LinkStates ==
  /\ \A n \in Nodes : /\ state[n] \in {"off", "listening"} => link[n] = "none"
                      /\ state[n] # "up" => table[n] = {}
  /\ \A l \in Nodes : link[l] # "none" => dial[l] \in Nodes
  /\ \A l \in Nodes : link[l] = "made" =>
       l \in table[l] \/ state[l] = "gone" \/ state[dial[l]] = "gone"

\* LinksMatch, and what it needs to be kept: for the two ends of a link apart.
Matched ==
  \A l, n \in Nodes : l \in table[n] =>
    /\ link[l] # "none"
    /\ n = l \/ (n = dial[l] /\ link[l] = "open")
    /\ link[l] = "made" \/ n # l \/ l \in table[dial[l]] \/ state[dial[l]] = "gone"
    /\ n = l \/ l \in table[l] \/ state[l] = "gone"

-----------------------------------------------------------------------------
(* The sides of a link.                                                     *)

\* The trees are functions, and no node is its own parent.
LEMMA TreeType ==
  ASSUME dial \in Trees
  PROVE  /\ dial \in [Nodes -> Nodes \cup {NoOne}]
         /\ \A l \in Nodes : dial[l] # l
<1>1. dial \in [Nodes -> Nodes \cup {NoOne}]
  BY DEF Trees
<1>2. ASSUME NEW l \in Nodes PROVE dial[l] # l
  <2>1. {l} \in (SUBSET Nodes) \ {{}}
    OBVIOUS
  <2>2. \E n \in {l} : dial[n] \notin {l}
    BY <2>1 DEF Trees
  <2>. QED  BY <2>2
<1>. QED  BY <1>1, <1>2

\* A node is behind its own link, with all that is behind a node there.
LEMMA BehindSelf ==
  ASSUME NEW l \in Nodes
  PROVE  /\ l \in Behind(l)
         /\ Behind(l) \subseteq Nodes
         /\ \A m \in Nodes : dial[m] \in Behind(l) => m \in Behind(l)
BY DEF Behind

\* Nothing smaller is closed in this way.
LEMMA BehindLeast ==
  ASSUME NEW l \in Nodes, NEW S \in SUBSET Nodes, l \in S,
         \A m \in Nodes : dial[m] \in S => m \in S
  PROVE  Behind(l) \subseteq S
BY DEF Behind

\* Of the nodes behind a link, only the one that made it looks ahead.
LEMMA BehindParent ==
  ASSUME NEW l \in Nodes, NEW m \in Behind(l), m # l
  PROVE  dial[m] \in Behind(l)
<1>. DEFINE S == {x \in Behind(l) : x = l \/ dial[x] \in Behind(l)}
<1>1. S \in SUBSET Nodes /\ l \in S
  BY BehindSelf
<1>2. ASSUME NEW x \in Nodes, dial[x] \in S PROVE x \in S
  BY <1>2, BehindSelf
<1>3. Behind(l) \subseteq S
  <2>. HIDE DEF S
  <2>. QED  BY <1>1, <1>2, BehindLeast
<1>. QED  BY <1>3

\* The trees have no circles.
LEMMA DialAhead ==
  ASSUME dial \in Trees, NEW l \in Nodes
  PROVE  dial[l] \notin Behind(l)
<1>. SUFFICES ASSUME dial[l] \in Behind(l) PROVE FALSE
  OBVIOUS
<1>1. \A m \in Behind(l) : dial[m] \in Behind(l)
  BY BehindParent
<1>2. Behind(l) \in (SUBSET Nodes) \ {{}}
  BY BehindSelf
<1>3. \E n \in Behind(l) : dial[n] \notin Behind(l)
  BY <1>2 DEF Trees
<1>. QED  BY <1>1, <1>3

\* What is behind the link of a child is behind the link of its parent.
LEMMA BehindNested ==
  ASSUME NEW l \in Nodes, NEW m \in Nodes, dial[m] = l
  PROVE  Behind(m) \subseteq Behind(l)
<1>1. m \in Behind(l)
  BY BehindSelf
<1>. QED  BY <1>1, BehindSelf, BehindLeast

\* What is behind the links of two children is apart.
LEMMA BehindSiblings ==
  ASSUME dial \in Trees, NEW l \in Nodes, NEW m \in Nodes,
         dial[l] = dial[m], l # m
  PROVE  Behind(l) \cap Behind(m) = {}
<1>. DEFINE S == Behind(l) \ Behind(m)
<1>1. S \in SUBSET Nodes
  BY BehindSelf
<1>2. l \in S
  BY BehindSelf, BehindParent, DialAhead
<1>3. ASSUME NEW x \in Nodes, dial[x] \in S PROVE x \in S
  <2>1. x \in Behind(l)
    BY <1>3, BehindSelf
  <2>2. x # m
    BY <1>3, DialAhead
  <2>3. x \notin Behind(m)
    BY <1>3, <2>2, BehindParent
  <2>. QED  BY <2>1, <2>3
<1>4. Behind(l) \subseteq S
  <2>. HIDE DEF S
  <2>. QED  BY <1>1, <1>2, <1>3, BehindLeast
<1>. QED  BY <1>4

\* The two ends of a link, and who is on the other one.
LEMMA PeerProperties ==
  ASSUME dial \in Trees, NEW l \in Nodes, dial[l] \in Nodes
  PROVE  /\ Ends(l) = {l, dial[l]} /\ l # dial[l]
         /\ Peer(l, l) = dial[l]
         /\ Peer(l, dial[l]) = l
BY TreeType DEF Ends, Peer

\* A line of o that comes to n on its way is not one of n, and comes on the one
\* link that leads to n from o.
LEMMA AwayProperties ==
  ASSUME dial \in Trees, NEW l \in Nodes, NEW n \in Nodes, NEW o \in Nodes,
         Away(l, n, o)
  PROVE  /\ o # n
         /\ n \in Ends(l)
         /\ \A k \in Nodes : Away(k, n, o) => k = l
<1>1. o # n /\ n \in Ends(l)
  BY BehindSelf, DialAhead DEF Away, Ends
<1>2. ASSUME NEW k \in Nodes, Away(k, n, o), k # l PROVE FALSE
  <2>1. CASE n = l
    <3>1. n = dial[k] /\ o \in Behind(k) /\ o \notin Behind(n)
      BY <1>2, <2>1, DialAhead, TreeType DEF Away
    <3>. QED  BY <3>1, BehindNested
  <2>2. CASE n = k
    <3>1. n = dial[l] /\ o \in Behind(l) /\ o \notin Behind(n)
      BY <1>2, <2>2, DialAhead, TreeType DEF Away
    <3>. QED  BY <3>1, BehindNested
  <2>3. CASE n # l /\ n # k
    <3>1. n = dial[l] /\ n = dial[k] /\ o \in Behind(l) /\ o \in Behind(k)
      BY <1>2, <2>3 DEF Away
    <3>. QED  BY <3>1, <1>2, BehindSiblings
  <2>. QED  BY <2>1, <2>2, <2>3
<1>. QED  BY <1>1, <1>2

\* A node passes on what comes away from o, on any other link, away from o.
LEMMA AwayFromHere ==
  ASSUME dial \in Trees, NEW l \in Nodes, NEW n \in Nodes, NEW o \in Nodes,
         Away(l, n, o),
         NEW k \in Nodes, k # l, n \in Ends(k), dial[k] \in Nodes
  PROVE  Away(k, Peer(k, n), o)
<1>1. CASE n = k
  <2>1. n = dial[l] /\ o \in Behind(l)
    BY <1>1 DEF Away
  <2>2. o \in Behind(k) /\ Peer(k, n) = dial[k]
    BY <1>1, <2>1, BehindNested, PeerProperties
  <2>. QED  BY <2>2 DEF Away
<1>2. CASE n # k
  <2>1. n = dial[k] /\ Peer(k, n) = k
    BY <1>2, PeerProperties DEF Ends
  <2>2. o \notin Behind(k)
    <3>1. CASE n = l
      BY <3>1, <2>1, BehindNested, DialAhead, TreeType DEF Away
    <3>2. CASE n = dial[l] /\ o \in Behind(l)
      BY <3>2, <2>1, BehindSiblings
    <3>. QED  BY <3>1, <3>2 DEF Away
  <2>. QED  BY <2>1, <2>2 DEF Away
<1>. QED  BY <1>1, <1>2

\* Whatever link n sends its own lines to leads away from n.
LEMMA AwayFromAuthor ==
  ASSUME dial \in Trees, NEW n \in Nodes,
         NEW k \in Nodes, n \in Ends(k), dial[k] \in Nodes
  PROVE  Away(k, Peer(k, n), n)
<1>1. CASE n = k
  BY <1>1, BehindSelf, PeerProperties DEF Away
<1>2. CASE n # k
  <2>1. n = dial[k] /\ Peer(k, n) = k
    BY <1>2, PeerProperties DEF Ends
  <2>. QED  BY <2>1, DialAhead DEF Away
<1>. QED  BY <1>1, <1>2

-----------------------------------------------------------------------------
(* Types.                                                                   *)

Wires == [Nodes \X Nodes -> Seq(Lines)]
WithinCapacity(w) == \A l, n \in Nodes : Len(w[<<l, n>>]) <= Capacity

\* send_all appends to the far ends of the links, and changes nothing else.
LEMMA SendEntries ==
  \A m \in Lines, links \in SUBSET Nodes, n \in Nodes, w \in Wires, l \in Nodes, q \in Nodes :
    \/ send_all(m, links, n, w)[<<l, q>>] = w[<<l, q>>]
    \/ /\ l \in links /\ q = Peer(l, n)
       /\ send_all(m, links, n, w)[<<l, q>>] = Append(w[<<l, q>>], m)
<1>. TAKE m \in Lines, links \in SUBSET Nodes, n \in Nodes, w \in Wires, l \in Nodes, q \in Nodes
<1>. DEFINE d == <<l, q>>
<1>1. d \in Nodes \X Nodes /\ d[1] = l /\ d[2] = q
  OBVIOUS
<1>2. \/ send_all(m, links, n, w)[d] = w[d]
      \/ /\ d[1] \in links /\ d[2] = Peer(d[1], n)
         /\ send_all(m, links, n, w)[d] = Append(w[d], m)
  <2>. HIDE DEF d
  <2>. QED  BY <1>1 DEF send_all
<1>. QED  BY <1>1, <1>2

\* It keeps the types, and appends only where there is room.
LEMMA SendProperties ==
  ASSUME NEW m \in Lines, NEW links, NEW n \in Nodes, NEW w \in Wires
  PROVE  /\ send_all(m, links, n, w) \in Wires
         /\ WithinCapacity(w) => WithinCapacity(send_all(m, links, n, w))
<1>. DEFINE u == send_all(m, links, n, w)
<1>1. \A d \in Nodes \X Nodes : w[d] \in Seq(Lines) /\ Append(w[d], m) \in Seq(Lines)
                               /\ Len(Append(w[d], m)) = Len(w[d]) + 1
                               /\ Len(w[d]) \in Nat
  BY AppendProperties DEF Wires
<1>2. \A d \in Nodes \X Nodes :
        \/ u[d] = w[d]
        \/ /\ d[1] \in links /\ d[2] = Peer(d[1], n) /\ Len(w[d]) < Capacity
           /\ u[d] = Append(w[d], m)
  BY DEF send_all
<1>3. u \in Wires
  <2>1. u = [d \in Nodes \X Nodes |-> u[d]]
    BY DEF send_all
  <2>. HIDE DEF u
  <2>. QED  BY <2>1, <1>1, <1>2 DEF Wires
<1>. HIDE DEF u
<1>4. ASSUME WithinCapacity(w) PROVE WithinCapacity(u)
  <2>. SUFFICES ASSUME NEW l \in Nodes, NEW q \in Nodes
                PROVE  Len(u[<<l, q>>]) <= Capacity
    BY DEF WithinCapacity
  <2>1. Len(w[<<l, q>>]) <= Capacity
    BY <1>4 DEF WithinCapacity
  <2>2. <<l, q>> \in Nodes \X Nodes
    OBVIOUS
  <2>. QED  BY <2>1, <2>2, <1>1, <1>2, GossipNetAssumption
<1>. QED  BY <1>3, <1>4 DEF u

\* What is taken off a link is a line; the rest of the queue moves up.
LEMMA TakeProperties ==
  ASSUME NEW w \in Wires, NEW l \in Nodes, NEW n \in Nodes, w[<<l, n>>] # <<>>
  PROVE  LET u == [w EXCEPT ![<<l, n>>] = Tail(@)]
         IN  /\ Head(w[<<l, n>>]) \in Lines /\ Head(w[<<l, n>>]) = w[<<l, n>>][1]
             /\ Len(w[<<l, n>>]) \in Nat /\ Len(w[<<l, n>>]) >= 1
             /\ u \in Wires
             /\ WithinCapacity(w) => WithinCapacity(u)
             /\ \A k, q \in Nodes : <<k, q>> # <<l, n>> => u[<<k, q>>] = w[<<k, q>>]
             /\ Len(u[<<l, n>>]) = Len(w[<<l, n>>]) - 1
             /\ \A j \in 1 .. Len(u[<<l, n>>]) : u[<<l, n>>][j] = w[<<l, n>>][j + 1]
<1>. DEFINE u == [w EXCEPT ![<<l, n>>] = Tail(@)]
<1>0. w[<<l, n>>] \in Seq(Lines)
  BY DEF Wires
<1>1. /\ Head(w[<<l, n>>]) \in Lines /\ Head(w[<<l, n>>]) = w[<<l, n>>][1]
      /\ Len(w[<<l, n>>]) \in Nat /\ Len(w[<<l, n>>]) >= 1
      /\ Tail(w[<<l, n>>]) \in Seq(Lines)
      /\ Len(Tail(w[<<l, n>>])) = Len(w[<<l, n>>]) - 1
      /\ \A j \in 1 .. Len(Tail(w[<<l, n>>])) : Tail(w[<<l, n>>])[j] = w[<<l, n>>][j + 1]
  BY <1>0, HeadTailProperties, LenProperties
<1>2. u[<<l, n>>] = Tail(w[<<l, n>>]) /\ u \in Wires
  BY <1>1 DEF Wires
<1>3. \A k, q \in Nodes : <<k, q>> # <<l, n>> => u[<<k, q>>] = w[<<k, q>>]
  BY DEF Wires
<1>. HIDE DEF u
<1>4. ASSUME WithinCapacity(w) PROVE WithinCapacity(u)
  <2>. SUFFICES ASSUME NEW k \in Nodes, NEW q \in Nodes
                PROVE  Len(u[<<k, q>>]) <= Capacity
    BY DEF WithinCapacity
  <2>1. Len(w[<<k, q>>]) <= Capacity /\ Len(w[<<l, n>>]) <= Capacity
    BY <1>4 DEF WithinCapacity
  <2>2. CASE <<k, q>> = <<l, n>>
    BY <2>1, <2>2, <1>1, <1>2, GossipNetAssumption
  <2>3. CASE <<k, q>> # <<l, n>>
    BY <2>1, <2>3, <1>3
  <2>. QED  BY <2>2, <2>3
<1>. QED  BY <1>1, <1>2, <1>3, <1>4 DEF u

\* The types, and what the queues are.
Types == TypeOK /\ Shape

\* What TypeOK says of the queues, for all of them together.
LEMMA WireTypes ==
  ASSUME NEW w \in Wires, WithinCapacity(w)
  PROVE  \A l, n \in Nodes : w[<<l, n>>] \in Seq(Lines) /\ Len(w[<<l, n>>]) <= Capacity
BY DEF Wires, WithinCapacity

\* The first state has the types.
LEMMA TypeInit == Init => Types
<1>. SUFFICES ASSUME Init PROVE Types
  OBVIOUS
<1>. USE GossipNetAssumption
<1>1. dial \in [Nodes -> Nodes \cup {NoOne}] /\ dial \in Trees
  BY TreeType DEF Init
<1>2. wire \in Wires /\ WithinCapacity(wire)
  BY DEF Init, Wires, WithinCapacity
<1>3. \A l, n \in Nodes : wire[<<l, n>>] \in Seq(Lines) /\ Len(wire[<<l, n>>]) <= Capacity
  BY <1>2, WireTypes
<1>4. state \in [Nodes -> {"off", "listening", "up", "gone"}]
  BY DEF Init
<1>5. link \in [Nodes -> {"none", "made", "open"}] /\ table \in [Nodes -> SUBSET Nodes]
  BY DEF Init
<1>6. typed \in [Nodes -> 0 .. MaxLines] /\ printed \in [Nodes -> Seq(Lines)]
  BY DEF Init
<1>7. audience \in [Lines -> SUBSET Nodes]
  BY DEF Init
<1>. QED  BY <1>1, <1>2, <1>3, <1>4, <1>5, <1>6, <1>7 DEF Types, TypeOK, Shape, Wires

\* No step leaves the types.
LEMMA TypeStep == Types /\ [Next]_vars => Types'
<1>. SUFFICES ASSUME Types, [Next]_vars PROVE Types'
  OBVIOUS
<1>. USE GossipNetAssumption
<1>0. wire \in Wires /\ WithinCapacity(wire) /\ dial \in Trees
  BY DEF Types, TypeOK, Shape, Wires, WithinCapacity
<1>a. ASSUME UNCHANGED dial, wire' \in Wires, WithinCapacity(wire'),
             state' \in [Nodes -> {"off", "listening", "up", "gone"}],
             link' \in [Nodes -> {"none", "made", "open"}],
             table' \in [Nodes -> SUBSET Nodes],
             typed' \in [Nodes -> 0 .. MaxLines],
             printed' \in [Nodes -> Seq(Lines)],
             audience' \in [Lines -> SUBSET Nodes]
      PROVE  Types'
  <2>1. \A l, n \in Nodes : wire'[<<l, n>>] \in Seq(Lines) /\ Len(wire'[<<l, n>>]) <= Capacity
    BY <1>a, WireTypes
  <2>2. dial' \in [Nodes -> Nodes \cup {NoOne}] /\ dial' \in Trees
    BY <1>a, <1>0, TreeType
  <2>. QED  BY <1>a, <2>1, <2>2 DEF Types, TypeOK, Shape, Wires
<1>1. ASSUME NEW n \in Nodes, Connect(n) \/ ConnectFails(n) \/ NoConnect(n) \/ Listen(n)
      PROVE  Types'
  <2>1. /\ UNCHANGED <<dial, wire, typed, printed, audience>>
        /\ state' \in [Nodes -> {"off", "listening", "up", "gone"}]
        /\ link' \in [Nodes -> {"none", "made", "open"}]
        /\ table' \in [Nodes -> SUBSET Nodes]
    <3>1. CASE Connect(n)
      BY <3>1 DEF Connect, Types, TypeOK
    <3>2. CASE ConnectFails(n) \/ NoConnect(n) \/ Listen(n)
      BY <3>2 DEF ConnectFails, NoConnect, Listen, Types, TypeOK
    <3>. QED  BY <1>1, <3>1, <3>2
  <2>. QED  BY <1>0, <1>a, <2>1 DEF Types, TypeOK
<1>2. ASSUME NEW n \in Nodes, Accept(n) PROVE Types'
  <2>1. /\ UNCHANGED <<dial, state, wire, typed, printed, audience>>
        /\ link' \in [Nodes -> {"none", "made", "open"}]
        /\ table' \in [Nodes -> SUBSET Nodes]
    BY <1>2 DEF Accept, Types, TypeOK
  <2>. QED  BY <1>0, <1>a, <2>1 DEF Types, TypeOK
<1>3. ASSUME NEW n \in Nodes, Type(n) PROVE Types'
  <2>1. /\ UNCHANGED <<dial, state, link, table, printed>>
        /\ typed[n] < MaxLines /\ typed' = [typed EXCEPT ![n] = @ + 1]
        /\ wire' = send_all(<<n, typed'[n]>>, table[n], n, wire)
        /\ audience' = [audience EXCEPT ![<<n, typed'[n]>>] = Reachable(n) \ {n}]
    BY <1>3 DEF Type, net
  <2>2. typed' \in [Nodes -> 0 .. MaxLines] /\ typed'[n] \in 1 .. MaxLines
    BY <2>1 DEF Types, TypeOK
  <2>3. <<n, typed'[n]>> \in Lines
    BY <2>2 DEF Lines
  <2>4. wire' \in Wires /\ WithinCapacity(wire')
    BY <1>0, <2>1, <2>3, SendProperties
  <2>5. audience' \in [Lines -> SUBSET Nodes]
    <3>1. Reachable(n) \ {n} \in SUBSET Nodes
      BY DEF Reachable
    <3>. QED  BY <2>1, <3>1 DEF Types, TypeOK
  <2>. QED  BY <1>a, <2>1, <2>2, <2>4, <2>5 DEF Types, TypeOK
<1>4. ASSUME NEW n \in Nodes, NEW l \in Nodes, Receive(n, l) PROVE Types'
  <2>1. /\ wire[<<l, n>>] # <<>>
        /\ UNCHANGED <<dial, state, link, table, typed, audience>>
        /\ printed' = [printed EXCEPT ![n] = Append(@, Head(wire[<<l, n>>]))]
        /\ wire' = send_all(Head(wire[<<l, n>>]), table[n] \ {l}, n,
                            [wire EXCEPT ![<<l, n>>] = Tail(@)])
    BY <1>4 DEF Receive, net
  <2>2. /\ Head(wire[<<l, n>>]) \in Lines
        /\ [wire EXCEPT ![<<l, n>>] = Tail(@)] \in Wires
        /\ WithinCapacity([wire EXCEPT ![<<l, n>>] = Tail(@)])
    BY <1>0, <2>1, TakeProperties
  <2>3. wire' \in Wires /\ WithinCapacity(wire')
    <3>1. ASSUME NEW m \in Lines, NEW w \in Wires, WithinCapacity(w),
                 wire' = send_all(m, table[n] \ {l}, n, w)
          PROVE  wire' \in Wires /\ WithinCapacity(wire')
      BY <3>1, SendProperties
    <3>. QED  BY <2>1, <2>2, <3>1
  <2>4. printed' \in [Nodes -> Seq(Lines)]
    BY <2>1, <2>2, AppendProperties DEF Types, TypeOK
  <2>. QED  BY <1>a, <2>1, <2>3, <2>4 DEF Types, TypeOK
<1>5. ASSUME NEW n \in Nodes, NEW l \in Nodes, HangUp(n, l) PROVE Types'
  <2>1. /\ UNCHANGED <<dial, state, link, wire, typed, printed, audience>>
        /\ table' \in [Nodes -> SUBSET Nodes]
    BY <1>5 DEF HangUp, Types, TypeOK
  <2>. QED  BY <1>0, <1>a, <2>1 DEF Types, TypeOK
<1>6. ASSUME NEW n \in Nodes, Leave(n) PROVE Types'
  <2>1. /\ UNCHANGED <<dial, link, typed, printed, audience>>
        /\ state' \in [Nodes -> {"off", "listening", "up", "gone"}]
        /\ table' \in [Nodes -> SUBSET Nodes]
    BY <1>6 DEF Leave, Types, TypeOK
  <2>2. wire' = [d \in Nodes \X Nodes |-> IF d[2] = n THEN <<>> ELSE wire[d]]
    BY <1>6 DEF Leave
  <2>3. wire' \in Wires
    BY <1>0, <2>2 DEF Wires
  <2>4. WithinCapacity(wire')
    <3>. SUFFICES ASSUME NEW l \in Nodes, NEW q \in Nodes
                  PROVE  Len(wire'[<<l, q>>]) <= Capacity
      BY DEF WithinCapacity
    <3>1. wire'[<<l, q>>] = IF q = n THEN <<>> ELSE wire[<<l, q>>]
      BY <2>2
    <3>. QED  BY <3>1, <1>0 DEF WithinCapacity
  <2>. QED  BY <1>a, <2>1, <2>3, <2>4 DEF Types, TypeOK
<1>7. CASE Quiet \/ UNCHANGED vars
  <2>1. UNCHANGED <<dial, state, link, table, wire, typed, printed, audience>>
    BY <1>7 DEF Quiet, vars, net
  <2>. QED  BY <1>0, <1>a, <2>1 DEF Types, TypeOK
<1>. QED  BY <1>1, <1>2, <1>3, <1>4, <1>5, <1>6, <1>7 DEF Next, Node

\* Whoever comes, types, forwards and leaves, in any network: every variable
\* keeps its type, and no queue holds more than the buffers do.
THEOREM TypeCorrect == Spec => []TypeOK
<1>1. Types => TypeOK
  BY DEF Types
<1>. QED  BY <1>1, TypeInit, TypeStep, PTL DEF Spec

-----------------------------------------------------------------------------
(* The two ends of a link.                                                  *)

\* Who is at the other end of a link in an array.
LEMMA TablePeer ==
  ASSUME Types, LinkStates, Matched,
         NEW l \in Nodes, NEW n \in Nodes, l \in table[n]
  PROVE  /\ dial[l] \in Nodes /\ n \in Ends(l) /\ Peer(l, n) \in Nodes
         /\ Peer(l, n) # n
         /\ n = l => Peer(l, n) = dial[l]
         /\ n # l => n = dial[l] /\ Peer(l, n) = l
<1>1. dial \in Trees
  BY DEF Types, Shape
<1>2. dial[l] \in Nodes /\ (n = l \/ n = dial[l])
  BY DEF LinkStates, Matched
<1>. QED  BY <1>1, <1>2, PeerProperties

\* What is kept for the ends apart is LinksMatch.
LEMMA MatchedEnds ==
  ASSUME Types, LinkStates, Matched
  PROVE  LinksMatch
<1>. SUFFICES ASSUME NEW l \in Nodes, NEW n \in Nodes, l \in table[n]
              PROVE  /\ n \in Ends(l)
                     /\ link[l] = "open" \/ n = l
                     /\ \/ link[l] = "made"
                        \/ l \in table[Peer(l, n)]
                        \/ Peer(l, n) \in Departed
  BY DEF LinksMatch
<1>1. /\ dial[l] \in Nodes /\ n \in Ends(l)
      /\ n = l => Peer(l, n) = dial[l]
      /\ n # l => n = dial[l] /\ Peer(l, n) = l
  BY TablePeer
<1>2. CASE n = l
  <2>1. link[l] = "made" \/ l \in table[dial[l]] \/ state[dial[l]] = "gone"
    BY <1>2 DEF Matched
  <2>. QED  BY <1>1, <1>2, <2>1 DEF Departed
<1>3. CASE n # l
  <2>1. link[l] = "open" /\ (l \in table[l] \/ state[l] = "gone")
    BY <1>3 DEF Matched
  <2>. QED  BY <1>1, <1>3, <2>1 DEF Departed
<1>. QED  BY <1>2, <1>3

\* No step breaks what is kept of the links.
LEMMA LinksStep ==
  Types /\ LinkStates /\ Matched /\ [Next]_vars => LinkStates' /\ Matched'
<1>. SUFFICES ASSUME Types, LinkStates, Matched, [Next]_vars
              PROVE  LinkStates' /\ Matched'
  OBVIOUS
<1>. USE GossipNetAssumption
<1>0. /\ dial \in [Nodes -> Nodes \cup {NoOne}] /\ \A l \in Nodes : dial[l] # l
      /\ state \in [Nodes -> {"off", "listening", "up", "gone"}]
      /\ link \in [Nodes -> {"none", "made", "open"}]
      /\ table \in [Nodes -> SUBSET Nodes]
  BY TreeType DEF Types, TypeOK, Shape
<1>1. ASSUME NEW n \in Nodes, Listen(n) \/ NoConnect(n)
      PROVE  LinkStates' /\ Matched'
  <2>1. /\ UNCHANGED <<dial, link, table>>
        /\ state[n] \in {"off", "listening"} /\ state'[n] \in {"listening", "up"}
        /\ \A m \in Nodes : m # n => state'[m] = state[m]
    BY <1>1, <1>0 DEF Listen, NoConnect
  <2>2. LinkStates'
    BY <2>1, <1>0 DEF LinkStates
  <2>3. \A m \in Nodes : state[m] = "gone" => state'[m] = "gone"
    BY <2>1
  <2>4. Matched'
    BY <2>1, <2>3 DEF Matched, LinkStates
  <2>. QED  BY <2>2, <2>4
<1>2. ASSUME NEW n \in Nodes, Connect(n) PROVE LinkStates' /\ Matched'
  <2>1. /\ state[n] = "listening" /\ dial[n] \in Nodes
        /\ state[dial[n]] \in {"listening", "up"}
        /\ state'[n] = "up" /\ \A m \in Nodes : m # n => state'[m] = state[m]
        /\ link'[n] = "made" /\ \A m \in Nodes : m # n => link'[m] = link[m]
        /\ table'[n] = {n} /\ \A m \in Nodes : m # n => table'[m] = table[m]
        /\ dial' = dial
    BY <1>2, <1>0 DEF Connect
  <2>2. LinkStates'
    BY <2>1, <1>0 DEF LinkStates
  <2>3. \A m \in Nodes : n \notin table[m]
    BY <2>1 DEF LinkStates, Matched
  <2>4. Matched'
    <3>. SUFFICES ASSUME NEW l \in Nodes, NEW m \in Nodes, l \in table'[m]
                  PROVE  /\ link'[l] # "none"
                         /\ m = l \/ (m = dial[l] /\ link'[l] = "open")
                         /\ \/ link'[l] = "made" \/ m # l
                            \/ l \in table'[dial[l]] \/ state'[dial[l]] = "gone"
                         /\ m = l \/ l \in table'[l] \/ state'[l] = "gone"
      BY <2>1 DEF Matched
    <3>1. CASE m = n
      BY <3>1, <2>1
    <3>2. CASE m # n
      <4>1. l \in table[m] /\ l # n
        BY <3>2, <2>1, <2>3
      <4>2. /\ link[l] # "none"
            /\ m = l \/ (m = dial[l] /\ link[l] = "open")
            /\ link[l] = "made" \/ m # l \/ l \in table[dial[l]] \/ state[dial[l]] = "gone"
            /\ m = l \/ l \in table[l] \/ state[l] = "gone"
        BY <4>1 DEF Matched
      <4>3. dial[l] = n => table[n] = {} /\ state[n] # "gone"
        BY <2>1 DEF LinkStates
      <4>4. dial[l] \in Nodes
        BY <4>2 DEF LinkStates
      <4>. QED  BY <4>1, <4>2, <4>3, <4>4, <2>1
    <3>. QED  BY <3>1, <3>2
  <2>. QED  BY <2>2, <2>4
<1>3. ASSUME NEW n \in Nodes, ConnectFails(n) PROVE LinkStates' /\ Matched'
  <2>1. /\ UNCHANGED <<dial, link, table>>
        /\ state[n] = "listening" /\ state'[n] = "gone"
        /\ \A m \in Nodes : m # n => state'[m] = state[m]
    BY <1>3, <1>0 DEF ConnectFails
  <2>2. LinkStates'
    BY <2>1, <1>0 DEF LinkStates
  <2>3. \A m \in Nodes : state[m] = "gone" => state'[m] = "gone"
    BY <2>1
  <2>4. Matched'
    BY <2>1, <2>3 DEF Matched, LinkStates
  <2>. QED  BY <2>2, <2>4
<1>4. ASSUME NEW n \in Nodes, Accept(n) PROVE LinkStates' /\ Matched'
  <2>. DEFINE new == {l \in Nodes : link[l] = "made" /\ dial[l] = n}
  <2>1. /\ UNCHANGED <<dial, state>> /\ state[n] = "up"
        /\ \A l \in new : link'[l] = "open" /\ link[l] = "made" /\ dial[l] = n
        /\ \A l \in Nodes \ new : link'[l] = link[l] /\ (link[l] # "made" \/ dial[l] # n)
        /\ table'[n] = table[n] \cup new
        /\ \A m \in Nodes : m # n => table'[m] = table[m]
        /\ new \subseteq Nodes
    BY <1>4, <1>0 DEF Accept
  <2>. HIDE DEF new
  <2>2. LinkStates'
    <3>1. \A m \in Nodes : /\ state'[m] \in {"off", "listening"} => link'[m] = "none"
                           /\ state'[m] # "up" => table'[m] = {}
      BY <2>1 DEF LinkStates
    <3>2. \A l \in Nodes : link'[l] # "none" => dial'[l] \in Nodes
      BY <2>1 DEF LinkStates
    <3>3. \A l \in Nodes : link'[l] = "made" =>
            l \in table'[l] \/ state'[l] = "gone" \/ state'[dial'[l]] = "gone"
      BY <2>1 DEF LinkStates
    <3>. QED  BY <3>1, <3>2, <3>3 DEF LinkStates
  <2>3. ASSUME NEW l \in new PROVE l \in table[l] \/ state[l] = "gone"
    BY <2>1, <2>3 DEF LinkStates
  <2>4. Matched'
    <3>. SUFFICES ASSUME NEW l \in Nodes, NEW m \in Nodes, l \in table'[m]
                  PROVE  /\ link'[l] # "none"
                         /\ m = l \/ (m = dial[l] /\ link'[l] = "open")
                         /\ \/ link'[l] = "made" \/ m # l
                            \/ l \in table'[dial[l]] \/ state'[dial[l]] = "gone"
                         /\ m = l \/ l \in table'[l] \/ state'[l] = "gone"
      BY <2>1 DEF Matched
    <3>1. CASE l \in new
      <4>1. link'[l] = "open" /\ dial[l] = n /\ l \in table'[n] /\ l # n
        BY <3>1, <2>1, <1>0
      <4>2. table'[l] = table[l]
        BY <4>1, <2>1
      <4>3. l \in table[m] \/ m = n
        BY <2>1
      <4>4. l \in table[m] => m = l
        BY <3>1, <2>1 DEF Matched
      <4>. QED  BY <3>1, <4>1, <4>2, <4>3, <4>4, <2>1, <2>3
    <3>2. CASE l \notin new
      <4>1. l \in table[m] /\ link'[l] = link[l]
        BY <3>2, <2>1
      <4>2. \A k \in Nodes : table[k] \subseteq table'[k]
        BY <2>1
      <4>3. dial[l] \in Nodes
        BY <4>1 DEF Matched, LinkStates
      <4>. QED  BY <4>1, <4>2, <4>3, <2>1 DEF Matched
    <3>. QED  BY <3>1, <3>2
  <2>. QED  BY <2>2, <2>4
<1>5. ASSUME NEW n \in Nodes, NEW k \in Nodes, HangUp(n, k)
      PROVE  LinkStates' /\ Matched'
  <2>1. /\ UNCHANGED <<dial, state, link>> /\ state[n] = "up" /\ k \in table[n]
        /\ Peer(k, n) \in Departed
        /\ table'[n] = table[n] \ {k}
        /\ \A m \in Nodes : m # n => table'[m] = table[m]
    BY <1>5, <1>0 DEF HangUp
  <2>2. /\ dial[k] \in Nodes
        /\ n = k => state[dial[k]] = "gone"
        /\ n # k => n = dial[k] /\ state[k] = "gone"
    BY <2>1, TablePeer DEF Departed
  <2>3. \A m \in Nodes : state[m] = "gone" => table[m] = {}
    BY DEF LinkStates
  <2>4. LinkStates'
    <3>1. \A m \in Nodes : /\ state'[m] \in {"off", "listening"} => link'[m] = "none"
                           /\ state'[m] # "up" => table'[m] = {}
      BY <2>1 DEF LinkStates
    <3>2. \A l \in Nodes : link'[l] # "none" => dial'[l] \in Nodes
      BY <2>1 DEF LinkStates
    <3>3. \A l \in Nodes : link'[l] = "made" =>
            l \in table'[l] \/ state'[l] = "gone" \/ state'[dial'[l]] = "gone"
      BY <2>1, <2>2 DEF LinkStates
    <3>. QED  BY <3>1, <3>2, <3>3 DEF LinkStates
  <2>5. Matched'
    <3>. SUFFICES ASSUME NEW l \in Nodes, NEW m \in Nodes, l \in table'[m]
                  PROVE  /\ link[l] # "none"
                         /\ m = l \/ (m = dial[l] /\ link[l] = "open")
                         /\ \/ link[l] = "made" \/ m # l
                            \/ l \in table'[dial[l]] \/ state[dial[l]] = "gone"
                         /\ m = l \/ l \in table'[l] \/ state[l] = "gone"
      BY <2>1 DEF Matched
    <3>1. l \in table[m] /\ (l # k \/ m # n)
      BY <2>1
    <3>2. /\ link[l] # "none"
          /\ m = l \/ (m = dial[l] /\ link[l] = "open")
          /\ link[l] = "made" \/ m # l \/ l \in table[dial[l]] \/ state[dial[l]] = "gone"
          /\ m = l \/ l \in table[l] \/ state[l] = "gone"
      BY <3>1 DEF Matched
    <3>3. l # k
      BY <3>1, <3>2, <2>2, <2>3
    <3>4. \A x \in Nodes : l \in table[x] => l \in table'[x]
      BY <3>3, <2>1
    <3>5. dial[l] \in Nodes
      BY <3>2 DEF LinkStates
    <3>. QED  BY <3>2, <3>4, <3>5
  <2>. QED  BY <2>4, <2>5
<1>6. ASSUME NEW n \in Nodes, Leave(n) PROVE LinkStates' /\ Matched'
  <2>1. /\ UNCHANGED <<dial, link>> /\ state[n] = "up" /\ state'[n] = "gone"
        /\ \A m \in Nodes : m # n => state'[m] = state[m]
        /\ table'[n] = {}
        /\ \A m \in Nodes : m # n => table'[m] = table[m]
    BY <1>6, <1>0 DEF Leave
  <2>2. LinkStates'
    <3>1. \A m \in Nodes : /\ state'[m] \in {"off", "listening"} => link'[m] = "none"
                           /\ state'[m] # "up" => table'[m] = {}
      BY <2>1 DEF LinkStates
    <3>2. \A l \in Nodes : link'[l] # "none" => dial'[l] \in Nodes
      BY <2>1 DEF LinkStates
    <3>3. \A l \in Nodes : link'[l] = "made" =>
            l \in table'[l] \/ state'[l] = "gone" \/ state'[dial'[l]] = "gone"
      BY <2>1 DEF LinkStates
    <3>. QED  BY <3>1, <3>2, <3>3 DEF LinkStates
  <2>3. Matched'
    BY <2>1 DEF Matched, LinkStates
  <2>. QED  BY <2>2, <2>3
<1>7. ASSUME UNCHANGED net PROVE LinkStates' /\ Matched'
  BY <1>7 DEF net, LinkStates, Matched
<1>8. CASE Quiet \/ UNCHANGED vars \/ \E n \in Nodes : Type(n) \/ \E l \in Nodes : Receive(n, l)
  BY <1>7, <1>8 DEF Quiet, vars, Type, Receive
<1>. QED  BY <1>1, <1>2, <1>3, <1>4, <1>5, <1>6, <1>8 DEF Next, Node

\* Both ends of an open link watch it, and nobody else does, until one of them is
\* gone: for any number of nodes that start, connect and leave in any order.
THEOREM EndsAgree == Spec => []LinksMatch
<1>1. Init => LinkStates /\ Matched
  BY DEF Init, LinkStates, Matched
<1>2. Types /\ LinkStates /\ Matched => LinksMatch
  BY MatchedEnds
<1>. QED  BY <1>1, <1>2, TypeInit, TypeStep, LinksStep, PTL DEF Spec

-----------------------------------------------------------------------------
(* The way of a line.                                                       *)

Printeds == [Nodes -> Seq(Lines)]
Counts   == [Nodes -> Nat]

\* What Faithful says of one line, and of two.
LEMMA FaithfulProperties ==
  ASSUME NEW w, NEW pr, NEW ty, Faithful(w, pr, ty), NEW l \in Nodes, NEW n \in Nodes
  PROVE  /\ \A j \in 1 .. Len(w[<<l, n>>]) :
              /\ Away(l, n, w[<<l, n>>][j][1])
              /\ w[<<l, n>>][j][2] <= ty[w[<<l, n>>][j][1]]
              /\ Knows(Peer(l, n), w[<<l, n>>][j], pr)
              /\ \A i \in 1 .. Len(w[<<l, n>>]) :
                   i < j /\ w[<<l, n>>][i][1] = w[<<l, n>>][j][1]
                     => w[<<l, n>>][i][2] < w[<<l, n>>][j][2]
              /\ \A i \in 1 .. Len(pr[n]) :
                   pr[n][i][1] = w[<<l, n>>][j][1] => pr[n][i][2] < w[<<l, n>>][j][2]
         /\ \A j \in 1 .. Len(pr[n]) :
              /\ pr[n][j][1] # n
              /\ pr[n][j][2] <= ty[pr[n][j][1]]
              /\ Away(l, n, pr[n][j][1]) => Knows(Peer(l, n), pr[n][j], pr)
BY DEF Faithful

\* The lines in a queue and on a screen.
LEMMA LineTypes ==
  ASSUME NEW s \in Seq(Lines)
  PROVE  /\ Len(s) \in Nat
         /\ \A j \in 1 .. Len(s) : /\ s[j] \in Lines
                                   /\ s[j][1] \in Nodes
                                   /\ s[j][2] \in 1 .. MaxLines
<1>1. Len(s) \in Nat /\ \A j \in 1 .. Len(s) : s[j] \in Lines
  BY ElementOfSeq, LenProperties
<1>2. \A m \in Lines : m[1] \in Nodes /\ m[2] \in 1 .. MaxLines
  BY DEF Lines
<1>. QED  BY <1>1, <1>2

\* A line that n knows and that is later than all of its author's on the way
\* may be sent to any link that leads away from its author.
LEMMA SendFaithful ==
  ASSUME dial \in Trees,
         NEW w \in Wires, NEW pr \in Printeds, NEW ty \in Counts, Faithful(w, pr, ty),
         NEW n \in Nodes, NEW m \in Lines, NEW links \in SUBSET Nodes,
         m[2] <= ty[m[1]], Knows(n, m, pr),
         \A l \in links :
           /\ n \in Ends(l) /\ dial[l] \in Nodes /\ Away(l, Peer(l, n), m[1])
           /\ \A j \in 1 .. Len(w[<<l, Peer(l, n)>>]) :
                w[<<l, Peer(l, n)>>][j][1] = m[1] => w[<<l, Peer(l, n)>>][j][2] < m[2]
           /\ \A j \in 1 .. Len(pr[Peer(l, n)]) :
                pr[Peer(l, n)][j][1] = m[1] => pr[Peer(l, n)][j][2] < m[2]
  PROVE  Faithful(send_all(m, links, n, w), pr, ty)
<1>. DEFINE u == send_all(m, links, n, w)
<1>1. \A l, q \in Nodes :
        \/ u[<<l, q>>] = w[<<l, q>>]
        \/ /\ l \in links /\ q = Peer(l, n)
           /\ u[<<l, q>>] = Append(w[<<l, q>>], m)
  <2>1. \A l, q \in Nodes :
          \/ send_all(m, links, n, w)[<<l, q>>] = w[<<l, q>>]
          \/ /\ l \in links /\ q = Peer(l, n)
             /\ send_all(m, links, n, w)[<<l, q>>] = Append(w[<<l, q>>], m)
    BY SendEntries
  <2>. QED  BY <2>1
<1>. HIDE DEF u
\* What there is of an entry of u, be it the new one or not.
<1>2. ASSUME NEW l \in Nodes, NEW q \in Nodes, NEW j \in 1 .. Len(u[<<l, q>>])
      PROVE  \/ /\ j \in 1 .. Len(w[<<l, q>>])
                /\ \A i \in 1 .. j : i \in 1 .. Len(w[<<l, q>>])
                                     /\ u[<<l, q>>][i] = w[<<l, q>>][i]
             \/ /\ l \in links /\ q = Peer(l, n) /\ u[<<l, q>>][j] = m
                /\ \A i \in 1 .. j - 1 : i \in 1 .. Len(w[<<l, q>>])
                                         /\ u[<<l, q>>][i] = w[<<l, q>>][i]
  <2>1. w[<<l, q>>] \in Seq(Lines) /\ Len(w[<<l, q>>]) \in Nat
    BY LineTypes DEF Wires
  <2>2. CASE u[<<l, q>>] = w[<<l, q>>]
    BY <2>1, <2>2
  <2>3. CASE l \in links /\ q = Peer(l, n) /\ u[<<l, q>>] = Append(w[<<l, q>>], m)
    <3>1. /\ Len(u[<<l, q>>]) = Len(w[<<l, q>>]) + 1
          /\ u[<<l, q>>][Len(w[<<l, q>>]) + 1] = m
          /\ \A i \in 1 .. Len(w[<<l, q>>]) : u[<<l, q>>][i] = w[<<l, q>>][i]
      BY <2>1, <2>3, AppendProperties
    <3>2. CASE j = Len(w[<<l, q>>]) + 1
      BY <2>1, <2>3, <3>1, <3>2
    <3>3. CASE j \in 1 .. Len(w[<<l, q>>])
      <4>1. ASSUME NEW i \in 1 .. j
            PROVE  /\ i \in 1 .. Len(w[<<l, q>>])
                   /\ u[<<l, q>>][i] = w[<<l, q>>][i]
        <5>1. i \in 1 .. Len(w[<<l, q>>])
          BY <2>1, <3>3
        <5>. QED  BY <5>1, <3>1
      <4>. QED  BY <3>3, <4>1
    <3>4. j = Len(w[<<l, q>>]) + 1 \/ j \in 1 .. Len(w[<<l, q>>])
      BY <2>1, <3>1
    <3>. QED  BY <3>2, <3>3, <3>4
  <2>. QED  BY <1>1, <2>2, <2>3
<1>3. ASSUME NEW l \in links
      PROVE  Peer(l, n) \in Nodes /\ Peer(l, Peer(l, n)) = n
  BY PeerProperties DEF Ends
<1>4. \A l, q \in Nodes : \A j \in 1 .. Len(u[<<l, q>>]) :
        /\ Away(l, q, u[<<l, q>>][j][1])
        /\ u[<<l, q>>][j][2] <= ty[u[<<l, q>>][j][1]]
        /\ Knows(Peer(l, q), u[<<l, q>>][j], pr)
  <2>. SUFFICES ASSUME NEW l \in Nodes, NEW q \in Nodes, NEW j \in 1 .. Len(u[<<l, q>>])
                PROVE  /\ Away(l, q, u[<<l, q>>][j][1])
                       /\ u[<<l, q>>][j][2] <= ty[u[<<l, q>>][j][1]]
                       /\ Knows(Peer(l, q), u[<<l, q>>][j], pr)
    OBVIOUS
  <2>1. CASE j \in 1 .. Len(w[<<l, q>>]) /\ u[<<l, q>>][j] = w[<<l, q>>][j]
    BY <2>1, FaithfulProperties
  <2>2. CASE l \in links /\ q = Peer(l, n) /\ u[<<l, q>>][j] = m
    BY <2>2, <1>3
  <2>. QED  BY <1>2, <2>1, <2>2
<1>5. \A l, q \in Nodes : \A i, j \in 1 .. Len(u[<<l, q>>]) :
        i < j /\ u[<<l, q>>][i][1] = u[<<l, q>>][j][1]
          => u[<<l, q>>][i][2] < u[<<l, q>>][j][2]
  <2>. SUFFICES ASSUME NEW l \in Nodes, NEW q \in Nodes,
                       NEW i \in 1 .. Len(u[<<l, q>>]), NEW j \in 1 .. Len(u[<<l, q>>]),
                       i < j, u[<<l, q>>][i][1] = u[<<l, q>>][j][1]
                PROVE  u[<<l, q>>][i][2] < u[<<l, q>>][j][2]
    OBVIOUS
  <2>0. i \in 1 .. j /\ i \in 1 .. j - 1
    BY LineTypes
  <2>1. CASE /\ j \in 1 .. Len(w[<<l, q>>]) /\ i \in 1 .. Len(w[<<l, q>>])
             /\ u[<<l, q>>][j] = w[<<l, q>>][j] /\ u[<<l, q>>][i] = w[<<l, q>>][i]
    BY <2>1, FaithfulProperties
  <2>2. CASE /\ l \in links /\ q = Peer(l, n) /\ u[<<l, q>>][j] = m
             /\ i \in 1 .. Len(w[<<l, q>>]) /\ u[<<l, q>>][i] = w[<<l, q>>][i]
    BY <2>2
  <2>. QED  BY <1>2, <2>0, <2>1, <2>2
<1>6. \A l, q \in Nodes : \A i \in 1 .. Len(pr[q]) : \A j \in 1 .. Len(u[<<l, q>>]) :
        pr[q][i][1] = u[<<l, q>>][j][1] => pr[q][i][2] < u[<<l, q>>][j][2]
  <2>. SUFFICES ASSUME NEW l \in Nodes, NEW q \in Nodes,
                       NEW i \in 1 .. Len(pr[q]), NEW j \in 1 .. Len(u[<<l, q>>]),
                       pr[q][i][1] = u[<<l, q>>][j][1]
                PROVE  pr[q][i][2] < u[<<l, q>>][j][2]
    OBVIOUS
  <2>1. CASE j \in 1 .. Len(w[<<l, q>>]) /\ u[<<l, q>>][j] = w[<<l, q>>][j]
    BY <2>1, FaithfulProperties
  <2>2. CASE l \in links /\ q = Peer(l, n) /\ u[<<l, q>>][j] = m
    BY <2>2
  <2>. QED  BY <1>2, <2>1, <2>2
<1>. QED  BY <1>4, <1>5, <1>6 DEF Faithful, u

\* A line may be taken off its link and printed.
LEMMA TakeFaithful ==
  ASSUME dial \in Trees,
         NEW w \in Wires, NEW pr \in Printeds, NEW ty \in Counts, Faithful(w, pr, ty),
         NEW l \in Nodes, NEW n \in Nodes, w[<<l, n>>] # <<>>
  PROVE  Faithful([w EXCEPT ![<<l, n>>] = Tail(@)],
                  [pr EXCEPT ![n] = Append(@, Head(w[<<l, n>>]))], ty)
<1>. DEFINE m  == Head(w[<<l, n>>])
            u  == [w EXCEPT ![<<l, n>>] = Tail(@)]
            ps == [pr EXCEPT ![n] = Append(@, m)]
<1>1. /\ m \in Lines /\ m = w[<<l, n>>][1]
      /\ Len(w[<<l, n>>]) \in Nat /\ Len(w[<<l, n>>]) >= 1
      /\ \A k, q \in Nodes : <<k, q>> # <<l, n>> => u[<<k, q>>] = w[<<k, q>>]
      /\ Len(u[<<l, n>>]) = Len(w[<<l, n>>]) - 1
      /\ \A j \in 1 .. Len(u[<<l, n>>]) : u[<<l, n>>][j] = w[<<l, n>>][j + 1]
  BY TakeProperties
<1>2. /\ \A q \in Nodes : q # n => ps[q] = pr[q]
      /\ Len(pr[n]) \in Nat /\ Len(ps[n]) = Len(pr[n]) + 1
      /\ \A j \in 1 .. Len(pr[n]) : ps[n][j] = pr[n][j]
      /\ ps[n][Len(pr[n]) + 1] = m
  <2>1. pr[n] \in Seq(Lines) /\ ps[n] = Append(pr[n], m)
    BY DEF Printeds
  <2>. QED  BY <2>1, <1>1, AppendProperties, LenProperties DEF Printeds
<1>. HIDE DEF m, u, ps
<1>3. ASSUME NEW k \in Nodes, NEW q \in Nodes, NEW j \in 1 .. Len(u[<<k, q>>])
      PROVE  \E d \in {0, 1} :
               /\ j + d \in 1 .. Len(w[<<k, q>>])
               /\ <<k, q>> = <<l, n>> => d = 1
               /\ \A i \in 1 .. j : /\ i + d \in 1 .. Len(w[<<k, q>>])
                                    /\ u[<<k, q>>][i] = w[<<k, q>>][i + d]
  <2>1. Len(w[<<k, q>>]) \in Nat
    BY LineTypes DEF Wires
  <2>2. CASE <<k, q>> = <<l, n>>
    <3>1. \A i \in 1 .. j : i + 1 \in 1 .. Len(w[<<k, q>>]) /\ i \in 1 .. Len(u[<<k, q>>])
      BY <2>1, <2>2, <1>1
    <3>2. \A i \in 1 .. j : u[<<k, q>>][i] = w[<<k, q>>][i + 1]
      BY <3>1, <2>2, <1>1
    <3>3. j \in 1 .. j
      BY <2>1, <2>2, <1>1
    <3>. QED  BY <3>1, <3>2, <3>3
  <2>3. CASE <<k, q>> # <<l, n>>
    <3>1. u[<<k, q>>] = w[<<k, q>>]
      BY <2>3, <1>1
    <3>2. /\ j + 0 \in 1 .. Len(w[<<k, q>>])
          /\ \A i \in 1 .. j : /\ i + 0 \in 1 .. Len(w[<<k, q>>])
                               /\ u[<<k, q>>][i] = w[<<k, q>>][i + 0]
      BY <3>1, <2>1
    <3>. QED  BY <3>2, <2>3
  <2>. QED  BY <2>2, <2>3
<1>4. ASSUME NEW p, p \in Nodes \/ p = NoOne, NEW x, Knows(p, x, pr), x \in Lines, p \in Nodes
      PROVE  Knows(p, x, ps)
  <2>1. CASE p = n
    <3>1. 1 .. Len(pr[n]) \subseteq 1 .. Len(ps[n])
      BY <1>2
    <3>. QED  BY <2>1, <3>1, <1>2, <1>4 DEF Knows
  <2>2. CASE p # n
    BY <2>2, <1>2, <1>4 DEF Knows
  <2>. QED  BY <2>1, <2>2
<1>5. ASSUME NEW k \in Nodes, NEW q \in Nodes, NEW o, Away(k, q, o)
      PROVE  Peer(k, q) \in Nodes
  BY <1>5, PeerProperties DEF Away
<1>6. \A k, q \in Nodes : \A j \in 1 .. Len(u[<<k, q>>]) :
        /\ Away(k, q, u[<<k, q>>][j][1])
        /\ u[<<k, q>>][j][2] <= ty[u[<<k, q>>][j][1]]
        /\ Knows(Peer(k, q), u[<<k, q>>][j], ps)
  <2>. SUFFICES ASSUME NEW k \in Nodes, NEW q \in Nodes, NEW j \in 1 .. Len(u[<<k, q>>])
                PROVE  /\ Away(k, q, u[<<k, q>>][j][1])
                       /\ u[<<k, q>>][j][2] <= ty[u[<<k, q>>][j][1]]
                       /\ Knows(Peer(k, q), u[<<k, q>>][j], ps)
    OBVIOUS
  <2>1. PICK e \in 1 .. Len(w[<<k, q>>]) : u[<<k, q>>][j] = w[<<k, q>>][e]
    BY <1>3, LineTypes
  <2>2. /\ Away(k, q, w[<<k, q>>][e][1])
        /\ w[<<k, q>>][e][2] <= ty[w[<<k, q>>][e][1]]
        /\ Knows(Peer(k, q), w[<<k, q>>][e], pr)
    BY FaithfulProperties
  <2>3. w[<<k, q>>][e] \in Lines
    BY LineTypes DEF Wires
  <2>. QED  BY <2>1, <2>2, <2>3, <1>4, <1>5
<1>7. \A q \in Nodes : \A j \in 1 .. Len(ps[q]) :
        /\ ps[q][j][1] # q
        /\ ps[q][j][2] <= ty[ps[q][j][1]]
        /\ \A k \in Nodes : Away(k, q, ps[q][j][1]) => Knows(Peer(k, q), ps[q][j], ps)
  <2>. SUFFICES ASSUME NEW q \in Nodes, NEW j \in 1 .. Len(ps[q]), NEW k \in Nodes
                PROVE  /\ ps[q][j][1] # q
                       /\ ps[q][j][2] <= ty[ps[q][j][1]]
                       /\ Away(k, q, ps[q][j][1]) => Knows(Peer(k, q), ps[q][j], ps)
    OBVIOUS
  <2>1. CASE j \in 1 .. Len(pr[q]) /\ ps[q][j] = pr[q][j]
    <3>1. /\ pr[q][j][1] # q
          /\ pr[q][j][2] <= ty[pr[q][j][1]]
          /\ Away(k, q, pr[q][j][1]) => Knows(Peer(k, q), pr[q][j], pr)
      BY <2>1, FaithfulProperties
    <3>2. pr[q][j] \in Lines
      BY <2>1, LineTypes DEF Printeds
    <3>. QED  BY <2>1, <3>1, <3>2, <1>4, <1>5
  <2>2. CASE q = n /\ ps[q][j] = m
    <3>1. /\ Away(l, n, m[1]) /\ m[2] <= ty[m[1]] /\ Knows(Peer(l, n), m, pr)
      <4>1. 1 \in 1 .. Len(w[<<l, n>>])
        BY <1>1
      <4>. QED  BY <4>1, <1>1, FaithfulProperties
    <3>2. m[1] \in Nodes
      BY <1>1 DEF Lines
    <3>3. m[1] # n /\ (Away(k, n, m[1]) => k = l)
      BY <3>1, <3>2, AwayProperties
    <3>. QED  BY <2>2, <3>1, <3>3, <1>1, <1>4, <1>5
  <2>3. \/ j \in 1 .. Len(pr[q]) /\ ps[q][j] = pr[q][j]
        \/ q = n /\ ps[q][j] = m
    BY <1>2
  <2>. QED  BY <2>1, <2>2, <2>3
<1>8. \A k, q \in Nodes : \A i, j \in 1 .. Len(u[<<k, q>>]) :
        i < j /\ u[<<k, q>>][i][1] = u[<<k, q>>][j][1]
          => u[<<k, q>>][i][2] < u[<<k, q>>][j][2]
  <2>. SUFFICES ASSUME NEW k \in Nodes, NEW q \in Nodes,
                       NEW i \in 1 .. Len(u[<<k, q>>]), NEW j \in 1 .. Len(u[<<k, q>>]),
                       i < j, u[<<k, q>>][i][1] = u[<<k, q>>][j][1]
                PROVE  u[<<k, q>>][i][2] < u[<<k, q>>][j][2]
    OBVIOUS
  <2>1. PICK d \in {0, 1} :
          \A x \in 1 .. j : /\ x + d \in 1 .. Len(w[<<k, q>>])
                            /\ u[<<k, q>>][x] = w[<<k, q>>][x + d]
    BY <1>3
  <2>2. i \in 1 .. j /\ j \in 1 .. j /\ i + d < j + d
    OBVIOUS
  <2>3. /\ i + d \in 1 .. Len(w[<<k, q>>]) /\ j + d \in 1 .. Len(w[<<k, q>>])
        /\ u[<<k, q>>][i] = w[<<k, q>>][i + d] /\ u[<<k, q>>][j] = w[<<k, q>>][j + d]
    BY <2>1, <2>2
  <2>4. \A x, y \in 1 .. Len(w[<<k, q>>]) :
          x < y /\ w[<<k, q>>][x][1] = w[<<k, q>>][y][1]
            => w[<<k, q>>][x][2] < w[<<k, q>>][y][2]
    BY FaithfulProperties
  <2>. QED  BY <2>2, <2>3, <2>4
<1>9. \A k, q \in Nodes : \A i \in 1 .. Len(ps[q]) : \A j \in 1 .. Len(u[<<k, q>>]) :
        ps[q][i][1] = u[<<k, q>>][j][1] => ps[q][i][2] < u[<<k, q>>][j][2]
  <2>. SUFFICES ASSUME NEW k \in Nodes, NEW q \in Nodes,
                       NEW i \in 1 .. Len(ps[q]), NEW j \in 1 .. Len(u[<<k, q>>]),
                       ps[q][i][1] = u[<<k, q>>][j][1]
                PROVE  ps[q][i][2] < u[<<k, q>>][j][2]
    OBVIOUS
  <2>0. PICK d \in {0, 1} :
          /\ j + d \in 1 .. Len(w[<<k, q>>])
          /\ <<k, q>> = <<l, n>> => d = 1
          /\ \A x \in 1 .. j : /\ x + d \in 1 .. Len(w[<<k, q>>])
                               /\ u[<<k, q>>][x] = w[<<k, q>>][x + d]
    BY <1>3
  <2>1. PICK e \in 1 .. Len(w[<<k, q>>]) :
          /\ u[<<k, q>>][j] = w[<<k, q>>][e]
          /\ <<k, q>> = <<l, n>> => 1 < e
    <3>1. j \in 1 .. j /\ j \in Nat /\ j >= 1
      BY LineTypes
    <3>2. <<k, q>> = <<l, n>> => 1 < j + d
      BY <2>0, <3>1
    <3>. QED  BY <2>0, <3>1, <3>2
  <2>2. CASE i \in 1 .. Len(pr[q]) /\ ps[q][i] = pr[q][i]
    <3>1. pr[q][i][1] = w[<<k, q>>][e][1] => pr[q][i][2] < w[<<k, q>>][e][2]
      BY <2>2, FaithfulProperties
    <3>. QED  BY <2>1, <2>2, <3>1
  <2>3. CASE q = n /\ ps[q][i] = m
    <3>0. 1 \in 1 .. Len(w[<<l, n>>])
      BY <1>1
    <3>1. Away(l, n, m[1]) /\ m[1] \in Nodes
      <4>1. Away(l, n, w[<<l, n>>][1][1])
        BY <3>0, FaithfulProperties
      <4>. QED  BY <4>1, <1>1 DEF Lines
    <3>2. Away(k, n, m[1])
      <4>1. Away(k, q, w[<<k, q>>][e][1])
        BY FaithfulProperties
      <4>. QED  BY <4>1, <2>1, <2>3
    <3>3. k = l
      BY <3>1, <3>2, AwayProperties
    <3>4. 1 < e /\ e \in 1 .. Len(w[<<l, n>>])
      BY <2>1, <2>3, <3>3
    <3>5. w[<<l, n>>][1][1] = w[<<l, n>>][e][1] => w[<<l, n>>][1][2] < w[<<l, n>>][e][2]
      BY <3>0, <3>4, FaithfulProperties
    <3>. QED  BY <1>1, <2>1, <2>3, <3>3, <3>5
  <2>4. \/ i \in 1 .. Len(pr[q]) /\ ps[q][i] = pr[q][i]
        \/ q = n /\ ps[q][i] = m
    BY <1>2
  <2>. QED  BY <2>2, <2>3, <2>4
<1>. QED  BY <1>6, <1>7, <1>8, <1>9 DEF Faithful, u, ps, m

\* The links stay where they are: what is faithful is so in the next state too.
LEMMA FaithfulNext ==
  ASSUME dial' = dial, Faithful(wire', printed', typed')
  PROVE  LinesFaithful'
<1>1. \A l : Behind(l)' = Behind(l)
  BY DEF Behind
<1>2. \A l, n, o : Away(l, n, o)' <=> Away(l, n, o)
  BY <1>1 DEF Away
<1>3. \A l, n : Peer(l, n)' = Peer(l, n)
  BY DEF Peer, Ends
<1>. QED  BY <1>2, <1>3 DEF LinesFaithful, Faithful, Knows

\* More lines typed make no difference to those that are there.
LEMMA TypedFaithful ==
  ASSUME NEW w \in Wires, NEW pr \in Printeds, NEW ty \in Counts, Faithful(w, pr, ty),
         NEW tz \in Counts, \A n \in Nodes : ty[n] <= tz[n]
  PROVE  Faithful(w, pr, tz)
<1>1. ASSUME NEW l \in Nodes, NEW n \in Nodes, NEW j \in 1 .. Len(w[<<l, n>>])
      PROVE  w[<<l, n>>][j][2] <= tz[w[<<l, n>>][j][1]]
  <2>1. w[<<l, n>>][j][1] \in Nodes /\ w[<<l, n>>][j][2] \in Nat
    BY LineTypes DEF Wires
  <2>2. w[<<l, n>>][j][2] <= ty[w[<<l, n>>][j][1]]
    BY FaithfulProperties
  <2>. QED  BY <2>1, <2>2 DEF Counts
<1>2. ASSUME NEW n \in Nodes, NEW j \in 1 .. Len(pr[n])
      PROVE  pr[n][j][2] <= tz[pr[n][j][1]]
  <2>1. pr[n][j][1] \in Nodes /\ pr[n][j][2] \in Nat
    BY LineTypes DEF Printeds
  <2>2. pr[n][j][2] <= ty[pr[n][j][1]]
    BY FaithfulProperties
  <2>. QED  BY <2>1, <2>2 DEF Counts
<1>. QED  BY <1>1, <1>2 DEF Faithful

\* Lines that are lost make no difference to the others.
LEMMA LossFaithful ==
  ASSUME NEW w, NEW pr, NEW ty, Faithful(w, pr, ty),
         NEW u, \A l, n \in Nodes : u[<<l, n>>] \in {<<>>, w[<<l, n>>]}
  PROVE  Faithful(u, pr, ty)
<1>1. ASSUME NEW l \in Nodes, NEW n \in Nodes, NEW j \in 1 .. Len(u[<<l, n>>])
      PROVE  u[<<l, n>>] = w[<<l, n>>]
  <2>1. Len(<<>>) = 0
    BY EmptySeq
  <2>2. u[<<l, n>>] # <<>>
    BY <1>1, <2>1
  <2>. QED  BY <2>2
<1>2. \A l, n \in Nodes : \A j \in 1 .. Len(u[<<l, n>>]) : u[<<l, n>>] = w[<<l, n>>]
  BY <1>1
<1>. QED  BY <1>2 DEF Faithful

\* What is typed at n is later than all of its lines that there are.
LEMMA TypeFaithful ==
  ASSUME Types, LinkStates, Matched, LinesFaithful, NEW n \in Nodes, Type(n)
  PROVE  Faithful(wire', printed', typed')
<1>. DEFINE m == <<n, typed[n] + 1>>
<1>1. /\ dial \in Trees /\ wire \in Wires /\ printed \in Printeds /\ typed \in Counts
      /\ typed[n] \in 0 .. MaxLines
  BY GossipNetAssumption DEF Types, TypeOK, Shape, Wires, Printeds, Counts
<1>2. /\ typed[n] < MaxLines /\ typed' = [typed EXCEPT ![n] = @ + 1]
      /\ wire' = send_all(<<n, typed'[n]>>, table[n], n, wire)
      /\ printed' = printed
  BY DEF Type, net
<1>3. /\ typed' \in Counts /\ \A q \in Nodes : typed[q] <= typed'[q]
      /\ typed'[n] = typed[n] + 1 /\ m \in Lines
  BY <1>1, <1>2, GossipNetAssumption DEF Counts, Lines
<1>4. Faithful(wire, printed, typed')
  BY <1>1, <1>3, TypedFaithful DEF LinesFaithful
<1>5. table[n] \in SUBSET Nodes
  BY DEF Types, TypeOK
<1>6. ASSUME NEW l \in table[n]
      PROVE  /\ n \in Ends(l) /\ dial[l] \in Nodes /\ Away(l, Peer(l, n), n)
             /\ \A j \in 1 .. Len(wire[<<l, Peer(l, n)>>]) :
                  wire[<<l, Peer(l, n)>>][j][1] = n
                    => wire[<<l, Peer(l, n)>>][j][2] < typed[n] + 1
             /\ \A j \in 1 .. Len(printed[Peer(l, n)]) :
                  printed[Peer(l, n)][j][1] = n
                    => printed[Peer(l, n)][j][2] < typed[n] + 1
  <2>1. l \in Nodes /\ dial[l] \in Nodes /\ n \in Ends(l) /\ Peer(l, n) \in Nodes
    BY <1>5, TablePeer
  <2>2. Away(l, Peer(l, n), n)
    BY <1>1, <2>1, AwayFromAuthor
  <2>. DEFINE q == Peer(l, n)
  <2>. HIDE DEF q
  <2>3. q \in Nodes
    BY <2>1 DEF q
  <2>4. ASSUME NEW j \in 1 .. Len(wire[<<l, q>>]), wire[<<l, q>>][j][1] = n
        PROVE  wire[<<l, q>>][j][2] < typed[n] + 1
    <3>1. wire[<<l, q>>][j][2] <= typed[wire[<<l, q>>][j][1]]
      BY <2>1, <2>3, FaithfulProperties DEF LinesFaithful
    <3>2. wire[<<l, q>>][j][2] \in Nat
      BY <1>1, <2>1, <2>3, LineTypes DEF Wires
    <3>. QED  BY <2>4, <3>1, <3>2, <1>1
  <2>5. ASSUME NEW j \in 1 .. Len(printed[q]), printed[q][j][1] = n
        PROVE  printed[q][j][2] < typed[n] + 1
    <3>1. printed[q][j][2] <= typed[printed[q][j][1]]
      BY <2>1, <2>3, FaithfulProperties DEF LinesFaithful
    <3>2. printed[q][j][2] \in Nat
      BY <1>1, <2>3, LineTypes DEF Printeds
    <3>. QED  BY <2>5, <3>1, <3>2, <1>1
  <2>. QED  BY <2>1, <2>2, <2>4, <2>5 DEF q
<1>7. m[1] = n /\ m[2] = typed[n] + 1 /\ m[2] <= typed'[m[1]] /\ Knows(n, m, printed)
  BY <1>1, <1>3 DEF Knows
<1>. HIDE DEF m
<1>8. Faithful(send_all(m, table[n], n, wire), printed, typed')
  BY <1>1, <1>3, <1>4, <1>5, <1>6, <1>7, SendFaithful
<1>. QED  BY <1>2, <1>3, <1>8 DEF m

\* What n has read is later than what it has passed on of the same author.
LEMMA ReceiveFaithful ==
  ASSUME Types, LinkStates, Matched, LinesFaithful,
         NEW n \in Nodes, NEW l \in Nodes, Receive(n, l)
  PROVE  Faithful(wire', printed', typed')
<1>. DEFINE m == Head(wire[<<l, n>>])
            u == [wire EXCEPT ![<<l, n>>] = Tail(@)]
            o == m[1]
<1>1. /\ dial \in Trees /\ wire \in Wires /\ printed \in Printeds /\ typed \in Counts
      /\ table[n] \in SUBSET Nodes
  BY GossipNetAssumption DEF Types, TypeOK, Shape, Wires, Printeds, Counts
<1>2. /\ l \in table[n] /\ wire[<<l, n>>] # <<>>
      /\ printed' = [printed EXCEPT ![n] = Append(@, m)]
      /\ wire' = send_all(m, table[n] \ {l}, n, u)
      /\ typed' = typed
  BY DEF Receive
<1>3. /\ m \in Lines /\ m = wire[<<l, n>>][1] /\ 1 \in 1 .. Len(wire[<<l, n>>])
      /\ u \in Wires
      /\ \A k, q \in Nodes : <<k, q>> # <<l, n>> => u[<<k, q>>] = wire[<<k, q>>]
  <2>1. /\ m \in Lines /\ m = wire[<<l, n>>][1]
        /\ Len(wire[<<l, n>>]) \in Nat /\ Len(wire[<<l, n>>]) >= 1
        /\ u \in Wires
        /\ \A k, q \in Nodes : <<k, q>> # <<l, n>> => u[<<k, q>>] = wire[<<k, q>>]
    BY <1>1, <1>2, TakeProperties
  <2>2. 1 \in 1 .. Len(wire[<<l, n>>])
    BY <2>1
  <2>. QED  BY <2>1, <2>2
<1>4. printed' \in Printeds /\ \A q \in Nodes : q # n => printed'[q] = printed[q]
  BY <1>1, <1>2, <1>3, AppendProperties DEF Printeds
<1>5. Faithful(u, printed', typed)
  BY <1>1, <1>2, TakeFaithful DEF LinesFaithful
<1>6. o \in Nodes /\ m[2] \in Nat
  BY <1>3 DEF Lines
<1>. HIDE DEF u
<1>7. /\ Away(l, n, o) /\ m[2] <= typed[o]
      /\ \A i \in 1 .. Len(printed[n]) : printed[n][i][1] = o => printed[n][i][2] < m[2]
  BY <1>3, FaithfulProperties DEF LinesFaithful
<1>8. o # n
  BY <1>1, <1>6, <1>7, AwayProperties
<1>. HIDE DEF m
<1>9. Knows(n, m, printed')
  <2>1. /\ printed[n] \in Seq(Lines) /\ printed'[n] = Append(printed[n], m)
        /\ Len(printed[n]) \in Nat
    BY <1>1, <1>2, LineTypes DEF Printeds
  <2>2. /\ Len(printed[n]) + 1 \in 1 .. Len(printed'[n])
        /\ printed'[n][Len(printed[n]) + 1] = m
    BY <2>1, <1>3, AppendProperties
  <2>. QED  BY <2>2 DEF Knows
\* Nothing of o that n has passed on is as late as m.
<1>10. ASSUME NEW x, x[1] = o, Knows(n, x, printed)
       PROVE  x[2] < m[2]
  BY <1>7, <1>8, <1>10 DEF Knows
<1>11. ASSUME NEW k \in table[n] \ {l}
       PROVE  /\ n \in Ends(k) /\ dial[k] \in Nodes /\ Away(k, Peer(k, n), o)
              /\ \A j \in 1 .. Len(u[<<k, Peer(k, n)>>]) :
                   u[<<k, Peer(k, n)>>][j][1] = o => u[<<k, Peer(k, n)>>][j][2] < m[2]
              /\ \A j \in 1 .. Len(printed'[Peer(k, n)]) :
                   printed'[Peer(k, n)][j][1] = o => printed'[Peer(k, n)][j][2] < m[2]
  <2>. DEFINE q == Peer(k, n)
  <2>1. /\ k \in Nodes /\ dial[k] \in Nodes /\ n \in Ends(k) /\ q \in Nodes /\ q # n
    BY <1>1, TablePeer
  <2>2. Away(k, q, o)
    BY <1>1, <1>6, <1>7, <2>1, AwayFromHere
  <2>3. Peer(k, q) = n
    BY <1>1, <2>1, PeerProperties DEF Ends
  <2>. HIDE DEF q
  <2>4. ASSUME NEW j \in 1 .. Len(u[<<k, q>>]), u[<<k, q>>][j][1] = o
        PROVE  u[<<k, q>>][j][2] < m[2]
    <3>1. u[<<k, q>>] = wire[<<k, q>>]
      BY <1>3, <2>1
    <3>2. Knows(Peer(k, q), wire[<<k, q>>][j], printed)
      BY <2>1, <2>4, <3>1, FaithfulProperties DEF LinesFaithful
    <3>. QED  BY <1>10, <2>3, <2>4, <3>1, <3>2
  <2>5. ASSUME NEW j \in 1 .. Len(printed'[q]), printed'[q][j][1] = o
        PROVE  printed'[q][j][2] < m[2]
    <3>1. printed'[q] = printed[q]
      BY <1>4, <2>1
    <3>2. Away(k, q, printed[q][j][1]) => Knows(Peer(k, q), printed[q][j], printed)
      BY <2>1, <2>5, <3>1, FaithfulProperties DEF LinesFaithful
    <3>. QED  BY <1>10, <2>2, <2>3, <2>5, <3>1, <3>2
  <2>. QED  BY <2>1, <2>2, <2>4, <2>5 DEF q
<1>12. table[n] \ {l} \in SUBSET Nodes /\ m[2] <= typed[m[1]]
  BY <1>1, <1>7
<1>13. Faithful(send_all(m, table[n] \ {l}, n, u), printed', typed)
  BY <1>1, <1>3, <1>4, <1>5, <1>9, <1>11, <1>12, SendFaithful
<1>. QED  BY <1>2, <1>13

\* No step breaks the way of a line.
LEMMA FaithfulStep ==
  Types /\ LinkStates /\ Matched /\ LinesFaithful /\ [Next]_vars => LinesFaithful'
<1>. SUFFICES ASSUME Types, LinkStates, Matched, LinesFaithful, [Next]_vars
              PROVE  LinesFaithful'
  OBVIOUS
<1>1. ASSUME UNCHANGED <<dial, wire, printed, typed>> PROVE LinesFaithful'
  BY <1>1, FaithfulNext DEF LinesFaithful
<1>2. ASSUME NEW n \in Nodes, Type(n) PROVE LinesFaithful'
  BY <1>2, TypeFaithful, FaithfulNext DEF Type, net
<1>3. ASSUME NEW n \in Nodes, NEW l \in Nodes, Receive(n, l) PROVE LinesFaithful'
  BY <1>3, ReceiveFaithful, FaithfulNext DEF Receive, net
<1>4. ASSUME NEW n \in Nodes, Leave(n) PROVE LinesFaithful'
  <2>1. /\ UNCHANGED <<dial, typed, printed>>
        /\ wire' = [d \in Nodes \X Nodes |-> IF d[2] = n THEN <<>> ELSE wire[d]]
    BY <1>4 DEF Leave
  <2>2. \A l, q \in Nodes : wire'[<<l, q>>] \in {<<>>, wire[<<l, q>>]}
    BY <2>1
  <2>3. Faithful(wire', printed, typed)
    BY <2>2, LossFaithful DEF LinesFaithful
  <2>. QED  BY <2>1, <2>3, FaithfulNext
<1>5. ASSUME NEW n \in Nodes, NEW l \in Nodes,
             \/ Listen(n) \/ Connect(n) \/ ConnectFails(n) \/ NoConnect(n)
             \/ Accept(n) \/ HangUp(n, l)
      PROVE  LinesFaithful'
  BY <1>1, <1>5 DEF Listen, Connect, ConnectFails, NoConnect, Accept, HangUp
<1>6. CASE Quiet \/ UNCHANGED vars
  BY <1>1, <1>6 DEF Quiet, vars, net
<1>. QED  BY <1>2, <1>3, <1>4, <1>5, <1>6 DEF Next, Node

\* In the first state there are no lines.
LEMMA FaithfulInit == Init => LinkStates /\ Matched /\ LinesFaithful
<1>. SUFFICES ASSUME Init PROVE LinkStates /\ Matched /\ LinesFaithful
  OBVIOUS
<1>1. LinkStates /\ Matched
  BY DEF Init, LinkStates, Matched
<1>2. /\ \A l, n \in Nodes : wire[<<l, n>>] = <<>>
      /\ \A n \in Nodes : printed[n] = <<>>
  BY DEF Init
<1>3. \A j : j \notin 1 .. Len(<<>>)
  BY EmptySeq
<1>4. LinesFaithful
  BY <1>2, <1>3 DEF LinesFaithful, Faithful
<1>. QED  BY <1>1, <1>4

-----------------------------------------------------------------------------
(* The network is a chat.                                                   *)

\* What is received is delivered.
LEMMA ReceiveDelivers ==
  ASSUME Types, LinkStates, Matched, LinesFaithful,
         NEW n \in Nodes, NEW l \in Nodes, Receive(n, l)
  PROVE  Abstract!Next
<1>. DEFINE m == wire[<<l, n>>][1]
<1>1. /\ dial \in Trees /\ wire \in Wires
      /\ l \in table[n] /\ wire[<<l, n>>] # <<>>
      /\ printed' = [printed EXCEPT ![n] = Append(@, Head(wire[<<l, n>>]))]
      /\ typed' = typed
  BY DEF Types, Shape, Wires, Receive
<1>2. /\ m \in Lines /\ m = Head(wire[<<l, n>>])
      /\ Len(wire[<<l, n>>]) \in Nat /\ Len(wire[<<l, n>>]) >= 1
  BY <1>1, TakeProperties
<1>3. 1 \in 1 .. Len(wire[<<l, n>>])
  BY <1>2
<1>4. /\ Away(l, n, m[1]) /\ m[2] <= typed[m[1]]
      /\ \A i \in 1 .. Len(printed[n]) : printed[n][i][1] = m[1] => printed[n][i][2] < m[2]
  BY <1>3, FaithfulProperties DEF LinesFaithful
<1>5. m[1] \in Nodes /\ m[2] \in 1 .. MaxLines /\ m = <<m[1], m[2]>>
  BY <1>2 DEF Lines
<1>6. n # m[1]
  BY <1>1, <1>4, <1>5, AwayProperties
<1>7. typed[m[1]] \in Nat
  BY <1>5, GossipNetAssumption DEF Types, TypeOK
<1>. HIDE DEF m
<1>8. m[2] \in 1 .. typed[m[1]]
  BY <1>4, <1>5, <1>7, GossipNetAssumption
<1>9. Abstract!Deliver(n, m[1], m[2])
  BY <1>1, <1>2, <1>4, <1>5, <1>6, <1>8 DEF Abstract!Deliver
<1>. QED  BY <1>5, <1>9 DEF Abstract!Next

\* Every other step types a line, or leaves the users alone.
LEMMA ChatStep ==
  Types /\ LinkStates /\ Matched /\ LinesFaithful /\ [Next]_vars
    => [Abstract!Next]_Abstract!vars
<1>. SUFFICES ASSUME Types, LinkStates, Matched, LinesFaithful, [Next]_vars
              PROVE  [Abstract!Next]_Abstract!vars
  OBVIOUS
<1>1. ASSUME NEW n \in Nodes, Type(n) PROVE Abstract!Next
  BY <1>1 DEF Type, Abstract!Next, Abstract!Type
<1>2. ASSUME NEW n \in Nodes, NEW l \in Nodes, Receive(n, l) PROVE Abstract!Next
  BY <1>2, ReceiveDelivers
<1>3. ASSUME NEW n \in Nodes, NEW l \in Nodes,
             \/ Listen(n) \/ Connect(n) \/ ConnectFails(n) \/ NoConnect(n)
             \/ Accept(n) \/ HangUp(n, l) \/ Leave(n)
      PROVE  UNCHANGED Abstract!vars
  BY <1>3 DEF Listen, Connect, ConnectFails, NoConnect, Accept, HangUp, Leave, Abstract!vars
<1>4. CASE Quiet \/ UNCHANGED vars
  BY <1>4 DEF Quiet, vars, net, Abstract!vars
<1>. QED  BY <1>1, <1>2, <1>3, <1>4 DEF Next, Node

\* However many nodes there are, however they start, lines race and links come and
\* go: no line comes twice, late, or back to its author.
THEOREM NetworkIsChat == Spec => IsChat
<1>1. Init => Abstract!Init
  BY DEF Init, Abstract!Init
<1>. QED  BY <1>1, TypeInit, TypeStep, FaithfulInit, LinksStep, FaithfulStep, ChatStep, PTL
          DEF Spec, IsChat, Abstract!Spec
=============================================================================
