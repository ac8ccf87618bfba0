------------------------------- MODULE MCTree -------------------------------
(* Tree for TLC: a root with two names, one of them a directory with files   *)
(* in it, or to become one; the other name, there and below, is hidden.      *)
EXTENDS Tree

MCPaths == {<<>>, <<1>>, <<1, 1>>, <<1, 2>>, <<2>>}

MCSystems ==
  {f \in [MCPaths -> Kinds] :
     /\ f[<<1>>] \in {"none", "dir", "dirlink"} /\ f[<<2>>] = "locked"
     /\ f[<<1, 1>>] \in IF f[<<1>>] = "dir" THEN {"none", "link"} ELSE {"none"}
     /\ f[<<1, 2>>] = IF f[<<1>>] = "none" THEN "none" ELSE "file"
     /\ \A p \in MCPaths \ {<<>>} : f[p] # "none" => f[Front(p)] \in Parents}

MCMaxDepths == {-1, 1}
=============================================================================
