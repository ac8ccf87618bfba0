-------------------------------- MODULE Chat --------------------------------
(***************************************************************************)
(* What a network of gossip nodes promises its users (Asgn 8): the lines    *)
(* that are typed at one node are printed at the others, none of them twice *)
(* or at the node where it was typed, and those of one user in the order in *)
(* which they were typed.  Lines may be lost: nodes come and go.            *)
(***************************************************************************)
EXTENDS Integers, Sequences

CONSTANTS
  Nodes,
  MaxLines  \* bound on the lines typed at a node

VARIABLES
  typed,    \* typed[n]: the number of lines typed at n
  printed   \* printed[n]: the lines printed at n; <<o, k>> is the k-th line of o

vars == <<typed, printed>>

Lines == Nodes \X (1 .. MaxLines)

Init ==
  /\ typed = [n \in Nodes |-> 0]
  /\ printed = [n \in Nodes |-> <<>>]

Type(n) ==
  /\ typed[n] < MaxLines
  /\ typed' = [typed EXCEPT ![n] = @ + 1]
  /\ UNCHANGED printed

\* Lines of o may be missing at n, but none comes late.
Deliver(n, o, k) ==
  /\ n # o
  /\ k \in 1 .. typed[o]
  /\ \A j \in 1 .. Len(printed[n]) :
       printed[n][j][1] = o => printed[n][j][2] < k
  /\ printed' = [printed EXCEPT ![n] = Append(@, <<o, k>>)]
  /\ UNCHANGED typed

Next ==
  \/ \E n \in Nodes : Type(n)
  \/ \E n, o \in Nodes : \E k \in 1 .. MaxLines : Deliver(n, o, k)

Spec == Init /\ [][Next]_vars
=============================================================================
