---------------------------- MODULE MCGossipNet -----------------------------
(* GossipNet for TLC: the nodes are interchangeable. *)
EXTENDS GossipNet, TLC

Symmetry == Permutations(Nodes)
=============================================================================
