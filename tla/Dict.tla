-------------------------------- MODULE Dict --------------------------------
(***************************************************************************)
(* The dictionary of Asgn 3 (dict.c): an array of chains that is replaced   *)
(* by a larger one when there are more entries than chains.  A key is a     *)
(* sequence of characters, a chain a sequence of nodes, the newest first.   *)
(* A call is one step: the code is sequential.                              *)
(***************************************************************************)
EXTENDS Integers, FiniteSets, SequencesExt

CONSTANTS
  Keys, Vals, NULL,
  Cap0,         \* the number of chains of an empty dictionary (5)
  HashChars,    \* the number of characters that are hashed (8)
  Word,         \* the number of values of an unsigned long (2^64)
  MaxFailures   \* bound on the calls of malloc and calloc that fail

\* dcthash.
dcthash(key) ==
  LET n == IF Len(key) < HashChars THEN Len(key) ELSE HashChars
      code[i \in 0 .. n] == IF i = 0 THEN 0 ELSE (key[i] + 31 * code[i - 1]) % Word
  IN  code[n]

DictAssumption ==
  /\ NULL \notin Vals /\ NULL \notin Seq(Keys)
  /\ Cap0 \in Nat \ {0}
  /\ MaxFailures \in Nat
  /\ \A k \in Keys : dcthash(k) \in Nat

VARIABLES cap, arr, size,
          call,      \* history: the last call
          result,    \* what it returned
          failures   \* the number of failed allocations so far

vars == <<cap, arr, size, call, result, failures>>

Nodes == [key : Keys, val : Vals]

Idx(key, c) == dcthash(key) % c

\* The places of the nodes with this key in a chain.
Found(chain, key) == {j \in 1 .. Len(chain) : chain[j].key = key}
First(S) == CHOOSE j \in S : \A k \in S : j <= k

\* No dictionary, which has no chains.
Init ==
  /\ cap = 0
  /\ arr = <<>>
  /\ size = 0
  /\ call = NULL /\ result = NULL
  /\ failures = 0

\* All nodes, chain by chain.
AllNodes == FlattenSeq([i \in 1 .. cap |-> arr[i - 1]])

\* Mutant of Rehashed: the chains are copied and not taken apart.
RehashedInPlace(newcap) ==
  [j \in 0 .. newcap - 1 |-> IF j < cap THEN arr[j] ELSE <<>>]

\* The new chains: each node is put in front of those moved before it.
Rehashed(newcap) ==
  LET nodes == AllNodes
      moved[k \in 0 .. Len(nodes)] ==
        IF k = 0 THEN [j \in 0 .. newcap - 1 |-> <<>>]
        ELSE [moved[k - 1] EXCEPT ![Idx(nodes[k].key, newcap)] = <<nodes[k]>> \o @]
  IN  moved[Len(nodes)]

Fails == failures < MaxFailures /\ failures' = failures + 1
Succeeds == UNCHANGED failures

dctcreate ==
  /\ cap = 0
  /\ \/ /\ Succeeds
        /\ cap' = Cap0
        /\ arr' = [i \in 0 .. Cap0 - 1 |-> <<>>]
     \/ Fails /\ UNCHANGED <<cap, arr>>
  /\ call' = <<"create">> /\ result' = NULL
  /\ UNCHANGED size

dctdestroy ==
  /\ cap # 0
  /\ cap' = 0 /\ arr' = <<>> /\ size' = 0
  /\ call' = <<"destroy">> /\ result' = NULL
  /\ Succeeds

Overwrite(key, val) ==
  LET idx == Idx(key, cap)
      at  == Found(arr[idx], key)
  IN  /\ at # {}
      /\ arr' = [arr EXCEPT ![idx] = [@ EXCEPT ![First(at)].val = val]]
      /\ Succeeds
      /\ UNCHANGED <<cap, size>>

MustGrow == size + 1 > cap

\* The new node comes first in its chain of the array a, if there is memory.
Prepend(key, val, a, c) ==
  LET idx == Idx(key, c)
  IN  /\ arr' = [a EXCEPT ![idx] = <<[key |-> key, val |-> val]>> \o @]
      /\ size' = size + 1

\* A key that is not there, and enough memory.
Add(key, val) ==
  /\ Found(arr[Idx(key, cap)], key) = {}
  /\ Succeeds
  /\ IF MustGrow
     THEN /\ cap' = 2 * cap + 1
          /\ Prepend(key, val, Rehashed(cap'), cap')
     ELSE Prepend(key, val, arr, cap) /\ UNCHANGED cap

\* calloc() fails: the new node goes into the old array.
AddWithoutGrowing(key, val) ==
  /\ Found(arr[Idx(key, cap)], key) = {}
  /\ MustGrow /\ Fails
  /\ Prepend(key, val, arr, cap)
  /\ UNCHANGED cap

\* malloc() of the node or of its key fails, perhaps after the array has grown
\* or after calloc() failed as well (counted as one failure).
AddNothing(key) ==
  /\ Found(arr[Idx(key, cap)], key) = {}
  /\ Fails
  /\ \/ MustGrow /\ cap' = 2 * cap + 1 /\ arr' = Rehashed(cap')
     \/ UNCHANGED <<cap, arr>>
  /\ UNCHANGED size

dctinsert(key, val) ==
  /\ Overwrite(key, val) \/ Add(key, val) \/ AddWithoutGrowing(key, val)
     \/ AddNothing(key)
  /\ call' = <<"insert", key, val>> /\ result' = NULL

\* Mutant of Lookup: the hash codes are compared and not the keys.
LookupByHash(key) ==
  LET chain == arr[Idx(key, cap)]
      at    == {j \in 1 .. Len(chain) : dcthash(chain[j].key) = dcthash(key)}
  IN  IF at = {} THEN NULL ELSE chain[First(at)].val

\* What dctget returns.
Lookup(key) ==
  LET chain == arr[Idx(key, cap)]
      at    == Found(chain, key)
  IN  IF at = {} THEN NULL ELSE chain[First(at)].val

dctget(key) ==
  /\ call' = <<"get", key>> /\ result' = Lookup(key)
  /\ UNCHANGED <<cap, arr, size, failures>>

\* Mutant of dctremove: the size is counted down when nothing was removed.
dctremoveAlwaysCounts(key) ==
  LET idx == Idx(key, cap)
      at  == Found(arr[idx], key)
  IN  /\ call' = <<"remove", key>>
      /\ IF at = {}
         THEN result' = NULL /\ UNCHANGED arr
         ELSE /\ result' = arr[idx][First(at)].val
              /\ arr' = [arr EXCEPT ![idx] = RemoveAt(@, First(at))]
      /\ size' = size - 1
      /\ UNCHANGED <<cap, failures>>

dctremove(key) ==
  LET idx == Idx(key, cap)
      at  == Found(arr[idx], key)
  IN  /\ call' = <<"remove", key>>
      /\ IF at = {}
         THEN result' = NULL /\ UNCHANGED <<arr, size>>
         ELSE /\ result' = arr[idx][First(at)].val
              /\ arr' = [arr EXCEPT ![idx] = RemoveAt(@, First(at))]
              /\ size' = size - 1
      /\ UNCHANGED <<cap, failures>>

\* The array of keys has `size' elements; malloc() of it may fail.
dctkeys ==
  /\ call' = <<"keys">>
  /\ \/ result' = NULL /\ size = 0 /\ Succeeds
     \/ result' = NULL /\ size # 0 /\ Fails
     \/ /\ size # 0 /\ Succeeds
        /\ result' = [j \in 1 .. Len(AllNodes) |-> AllNodes[j].key]
  /\ UNCHANGED <<cap, arr, size>>

\* Any call of any user of the dictionary, with some keys and values.
Calls(keys, vals) ==
  \/ dctcreate \/ dctdestroy
  \/ /\ cap # 0
     /\ \/ \E k \in keys : \/ dctget(k) \/ dctremove(k)
                           \/ \E v \in vals : dctinsert(k, v)
        \/ dctkeys

Next == Calls(Keys, Vals)

Spec == Init /\ [][Next]_vars

-----------------------------------------------------------------------------
(* Properties.                                                              *)

\* Every variable has its type.
TypeOK ==
  /\ cap \in Nat
  /\ arr \in [0 .. cap - 1 -> Seq(Nodes)]
  /\ size \in Nat
  /\ result \in Vals \cup {NULL} \cup Seq(Keys)
  /\ failures \in 0 .. MaxFailures

\* Every node is in the chain where a lookup of its key starts, at any size of
\* the array, no key has two nodes, and `size' counts them: it is the length
\* of the array that dctkeys fills.
WellPlaced ==
  /\ \A i \in 0 .. cap - 1 :
       /\ \A j \in 1 .. Len(arr[i]) : Idx(arr[i][j].key, cap) = i
       /\ \A j, k \in 1 .. Len(arr[i]) : arr[i][j].key = arr[i][k].key => j = k
  /\ size = Len(AllNodes)

\* The array grows when the load factor would exceed 1: there are never more
\* entries than chains, but for one per failed allocation.
LoadBounded == size <= cap + failures

InUse ==
  UNION {{arr[i][j].key : j \in 1 .. Len(arr[i])} : i \in 0 .. cap - 1}

Abstract == INSTANCE Map WITH
  map <- [k \in InUse |->
            LET chain == arr[Idx(k, cap)] IN chain[First(Found(chain, k))].val]

\* Collisions, rehashing and failed allocations cannot be seen from outside:
\* the dictionary is a map.
IsMap == Abstract!Spec
=============================================================================
