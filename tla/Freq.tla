-------------------------------- MODULE Freq --------------------------------
(***************************************************************************)
(* The word counter of Asgn 3 (freq.c) over its dictionary (dict.c): the    *)
(* words of a file are looked up and inserted, the value of a word is a     *)
(* pointer to its count, which freq allocates and must free.                *)
(***************************************************************************)
EXTENDS Integers, SequencesExt

CONSTANTS
  Keys, Vals, NULL, Cap0, HashChars, Word, MaxFailures,   \* as in Dict
  Lower,     \* isalpha and tolower: the letters, each with its lower-case code
  Spaces,    \* the characters isspace() accepts
  BufCap0,   \* the first size of buf (32)
  Top        \* the number of words printed (10)

FreqAssumption ==
  /\ BufCap0 \in Nat \ {0, 1} /\ Top \in Nat \ {0}
  /\ Keys \subseteq Seq(Nat)

VARIABLES
  cap, arr, size, call, result, failures,   \* the dictionary, as in Dict
  at,              \* where main is
  file,            \* what is still to be read
  buf, bufcap,     \* the characters of a word, and the space for them
  cells, live,     \* the counts by their pointers, and those not freed
  printed, status,
  text             \* history: the text as it was written

D == INSTANCE Dict

dictionary == <<cap, arr, size, call, result, failures>>
locals     == <<buf, bufcap, cells, live, printed, status>>
vars       == <<dictionary, at, file, locals, text>>

InitWith(contents) ==
  /\ at = "open" /\ file = contents /\ text = contents
  /\ buf = <<>> /\ bufcap = 0
  /\ cells = <<>> /\ live = {}
  /\ printed = <<>> /\ status = 0

\* The letters of a word in lower case, and nothing else.
Strip(s) ==
  LET w == SelectSeq(s, LAMBDA c : c \in DOMAIN Lower)
  IN  [i \in DOMAIN w |-> Lower[w[i]]]

-----------------------------------------------------------------------------
(* main.                                                                    *)

\* fopen() fails, or dctcreate() does.
CannotStart ==
  /\ at = "open"
  /\ UNCHANGED dictionary \/ (D!dctcreate /\ cap' = 0)
  /\ at' = "exit" /\ status' = 1
  /\ UNCHANGED <<file, buf, bufcap, cells, live, printed, text>>

Start ==
  /\ at = "open"
  /\ D!dctcreate /\ cap' # 0
  /\ at' = "buffer"
  /\ UNCHANGED <<file, locals, text>>

Buffer ==
  /\ at = "buffer"
  /\ \/ D!Succeeds /\ bufcap' = BufCap0 /\ at' = "read" /\ UNCHANGED status
     \/ D!Fails /\ at' = "destroy" /\ status' = 1 /\ UNCHANGED bufcap
  /\ UNCHANGED <<cap, arr, size, call, result, file, buf, cells, live,
                 printed, text>>

\* Mutant of BufferFull: no place is kept for the null character.
BufferFullLate == Len(buf) >= bufcap

BufferFull == Len(buf) + 1 >= bufcap

\* A character of a word; realloc() fails for some.
Take ==
  /\ at = "read" /\ file # <<>> /\ Head(file) \notin Spaces
  /\ \/ /\ BufferFull /\ D!Fails
        /\ at' = "free" /\ status' = 1
        /\ UNCHANGED <<file, buf, bufcap>>
     \/ /\ D!Succeeds
        /\ bufcap' = IF BufferFull THEN 2 * bufcap ELSE bufcap
        /\ buf' = Append(buf, Head(file)) /\ file' = Tail(file)
        /\ UNCHANGED <<at, status>>
  /\ UNCHANGED <<cap, arr, size, call, result, cells, live, printed, text>>

SkipSpace ==
  /\ at = "read" /\ file # <<>> /\ Head(file) \in Spaces /\ buf = <<>>
  /\ file' = Tail(file)
  /\ UNCHANGED <<dictionary, at, locals, text>>

CountAgain(word) ==
  /\ cells' = [cells EXCEPT ![D!Lookup(word)] = @ + 1]
  /\ UNCHANGED <<dictionary, live>>

\* malloc() fails and the word is not counted, or it gives an address that is
\* not in use; dctinsert() may still fail, which freq does not notice.
CountFirst(word) ==
  LET cnt == CHOOSE p \in Vals : p \notin DOMAIN cells
  IN  \/ D!Fails /\ UNCHANGED <<cap, arr, size, call, result, cells, live>>
      \/ /\ Vals \ DOMAIN cells # {}
         /\ cells' = [p \in DOMAIN cells \cup {cnt} |-> IF p = cnt THEN 1 ELSE cells[p]]
         /\ live' = live \cup {cnt}
         /\ D!dctinsert(word, cnt)

\* A space, or the end of the file, after the characters of a word.
EndOfWord ==
  /\ at = "read" /\ buf # <<>>
  /\ file # <<>> => Head(file) \in Spaces
  /\ LET word == Strip(buf)
     IN  \/ word = <<>> /\ UNCHANGED <<dictionary, cells, live>>
         \/ word # <<>> /\ D!Lookup(word) # NULL /\ CountAgain(word)
         \/ word # <<>> /\ D!Lookup(word) = NULL /\ CountFirst(word)
  /\ buf' = <<>>
  /\ file' = IF file = <<>> THEN file ELSE Tail(file)
  /\ UNCHANGED <<at, bufcap, printed, status, text>>

\* The end of the file, and the keys if there are any.
EndOfFile ==
  /\ at = "read" /\ file = <<>> /\ buf = <<>>
  /\ \/ size = 0 /\ at' = "free" /\ UNCHANGED dictionary
     \/ size # 0 /\ at' = "print" /\ D!dctkeys
  /\ UNCHANGED <<file, locals, text>>

\* strcmp.
Before(u, v) ==
  \E n \in 0 .. Len(u) :
    /\ n < Len(v) /\ SubSeq(u, 1, n) = SubSeq(v, 1, n)
    /\ n = Len(u) \/ u[n + 1] < v[n + 1]

\* Mutant of cmp_wordcount: the alphabet alone decides.
cmp_wordcount_Alphabet(a, b) == Before(a.word, b.word)

cmp_wordcount(a, b) ==
  a.count > b.count \/ (a.count = b.count /\ Before(a.word, b.word))

\* The keys with their counts, in order (qsort); without memory for the keys or for the
\* array, nothing is printed.
ShowTop ==
  /\ at = "print"
  /\ \/ D!Fails /\ UNCHANGED printed
     \/ D!Succeeds /\ result = NULL /\ UNCHANGED printed
     \/ /\ D!Succeeds /\ result # NULL
        /\ LET counted == {[word |-> result[i], count |-> cells[D!Lookup(result[i])]]
                             : i \in DOMAIN result}
               order   == CHOOSE s \in [1 .. Cardinality(counted) -> counted] :
                            \A j, k \in DOMAIN s : j < k => cmp_wordcount(s[j], s[k])
           IN  printed' = SubSeq(order, 1, Min({Top, Len(order)}))
  /\ at' = "free"
  /\ UNCHANGED <<cap, arr, size, call, result, file, buf, bufcap, cells, live,
                 status, text>>

\* dctkeys() again, to free the counts.
KeysToFree ==
  /\ at = "free"
  /\ D!dctkeys
  /\ at' = "freeing"
  /\ UNCHANGED <<file, locals, text>>

\* Mutant of FreeCounts: only as many as are printed.
FreeCountsOfTop ==
  /\ at = "freeing"
  /\ live' = IF result = NULL THEN live
             ELSE live \ {D!Lookup(result[i]) : i \in 1 .. Min({Top, Len(result)})}
  /\ at' = "destroy"
  /\ UNCHANGED <<dictionary, file, buf, bufcap, cells, printed, status, text>>

FreeCounts ==
  /\ at = "freeing"
  /\ live' = IF result = NULL THEN live
             ELSE live \ {D!Lookup(result[i]) : i \in DOMAIN result}
  /\ at' = "destroy"
  /\ UNCHANGED <<dictionary, file, buf, bufcap, cells, printed, status, text>>

Destroy ==
  /\ at = "destroy"
  /\ D!dctdestroy
  /\ at' = "exit"
  /\ UNCHANGED <<file, locals, text>>

Next ==
  \/ CannotStart \/ Start \/ Buffer
  \/ Take \/ SkipSpace \/ EndOfWord \/ EndOfFile
  \/ ShowTop \/ KeysToFree \/ FreeCounts \/ Destroy

-----------------------------------------------------------------------------
(* Properties.                                                              *)

\* Every variable has its type, and the null character fits into the buffer.
TypeOK ==
  /\ at \in {"open", "buffer", "read", "print", "free", "freeing", "destroy", "exit"}
  /\ bufcap \in Nat /\ (at = "read" => Len(buf) < bufcap)
  /\ live \subseteq DOMAIN cells /\ DOMAIN cells \subseteq Vals
  /\ \A p \in DOMAIN cells : cells[p] \in Nat \ {0}
  /\ status \in {0, 1}

\* The words of the text: its longest parts without spaces.
Parts ==
  {p \in (DOMAIN text) \X (DOMAIN text) :
     /\ p[1] <= p[2] /\ \A k \in p[1] .. p[2] : text[k] \notin Spaces
     /\ p[1] = 1 \/ text[p[1] - 1] \in Spaces
     /\ p[2] = Len(text) \/ text[p[2] + 1] \in Spaces}

Occurrences(w) == Cardinality({p \in Parts : Strip(SubSeq(text, p[1], p[2])) = w})

Words == {Strip(SubSeq(text, p[1], p[2])) : p \in Parts} \ {<<>>}

\* More frequent, or as frequent and earlier in the alphabet.
Precedes(w, n, v, m) == n > m \/ (n = m /\ Before(w, v))

\* What is printed are words of the file in the order of their frequencies, and
\* of the alphabet among equals. No word is counted more than it occurs, and if
\* memory suffices they are the first words, with their frequencies.
TopWords ==
  at = "exit" =>
    /\ \A k \in DOMAIN printed :
         /\ printed[k].word \in Words
         /\ printed[k].count <= Occurrences(printed[k].word)
         /\ k > 1 => Precedes(printed[k - 1].word, printed[k - 1].count,
                              printed[k].word, printed[k].count)
    /\ failures = 0 /\ status = 0 =>
         /\ \A k \in DOMAIN printed : printed[k].count = Occurrences(printed[k].word)
         /\ Len(printed) = Min({Top, Cardinality(Words)})
         /\ \A w \in Words \ {printed[k].word : k \in DOMAIN printed} :
              Precedes(Last(printed).word, Last(printed).count, w, Occurrences(w))

Owned == UNION {{arr[i][j].val : j \in DOMAIN arr[i]} : i \in DOMAIN arr}

\* The dictionary owns the counts: it points only to counts that are allocated,
\* never twice to the same, and all are freed in the end, but for those lost to
\* a failed allocation.
CountsOwned ==
  /\ at \in {"read", "print", "free"} =>
       /\ Owned \subseteq live /\ Cardinality(Owned) = size
       /\ Cardinality(live \ Owned) <= failures
  /\ at = "exit" /\ failures = 0 => live = {}
=============================================================================
