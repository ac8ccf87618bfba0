-------------------------------- MODULE Map ---------------------------------
(***************************************************************************)
(* What the dictionary of Asgn 3 promises (dict.h): a map from keys to       *)
(* values.  An insertion may come to nothing when memory is short, but it    *)
(* never disturbs what is there.                                            *)
(***************************************************************************)
EXTENDS Sequences

CONSTANTS Keys, Vals, NULL

VARIABLES
  map,      \* a function from the keys that are in the dictionary
  call,     \* the last call
  result    \* what it returned

vars == <<map, call, result>>

Init == map = <<>> /\ call = NULL /\ result = NULL

Create == call' = <<"create">> /\ map = <<>> /\ map' = map /\ result' = NULL

Destroy == call' = <<"destroy">> /\ map' = <<>> /\ result' = NULL

Insert(k, v) ==
  /\ call' = <<"insert", k, v>> /\ result' = NULL
  /\ \/ map' = [x \in DOMAIN map \cup {k} |-> IF x = k THEN v ELSE map[x]]
     \/ k \notin DOMAIN map /\ map' = map

Get(k) ==
  /\ call' = <<"get", k>>
  /\ result' = IF k \in DOMAIN map THEN map[k] ELSE NULL
  /\ UNCHANGED map

Remove(k) ==
  /\ call' = <<"remove", k>>
  /\ result' = IF k \in DOMAIN map THEN map[k] ELSE NULL
  /\ map' = [x \in DOMAIN map \ {k} |-> map[x]]

\* s is an enumeration of S without repetitions.
Lists(s, S) ==
  /\ {s[j] : j \in DOMAIN s} = S
  /\ \A i, j \in DOMAIN s : s[i] = s[j] => i = j

Enumerate ==
  /\ call' = <<"keys">>
  /\ result' = NULL \/ (map # <<>> /\ Lists(result', DOMAIN map))
  /\ UNCHANGED map

Next ==
  \/ Create \/ Destroy
  \/ \E k \in Keys : Get(k) \/ Remove(k) \/ \E v \in Vals : Insert(k, v)
  \/ Enumerate

Spec == Init /\ [][Next]_vars
=============================================================================
