-------------------------------- MODULE Text --------------------------------
(***************************************************************************)
(* The programs that read text files, as a user puts them together: a file, *)
(* with the line ends of Unix or of DOS, goes through todos, tounix or      *)
(* neither (Chars) into hist or into freq, which uses the dictionary.  The  *)
(* dictionary and the conversions are also called in any order by programs  *)
(* of their own, as dicttests.c and chartests.c do.                         *)
(***************************************************************************)
EXTENDS Integers, SequencesExt

CONSTANTS
  Plain, Others, MaxTaken,                                \* as in Chars
  Num, Blanks, MaxRows, MaxLine, IntValues,                 \* as in Hist
  Keys, Vals, NULL, Cap0, HashChars, Word, MaxFailures,   \* as in Dict
  Lower, Spaces, BufCap0, Top,                            \* as in Freq
  Tables,                 \* the tables for hist: rows of cells
  Essays,                 \* the files for freq
  TestChars,              \* what chartests.c uses
  TestKeys, TestVals      \* what dicttests.c uses

VARIABLES
  pending_cr, str, taken, given,                          \* Chars
  step, stdin, cols, data, start, counts, hist_status,    \* Hist
  cap, arr, size, call, result, failures,                 \* Dict
  at, file, buf, bufcap, cells, live, printed, status, text,   \* Freq
  job,       \* which programs run
  rest,      \* what is not yet through the first of them
  table      \* history: the table hist gets

chars == <<pending_cr, str, taken, given>>
hist  == <<step, stdin, cols, data, start, counts, hist_status>>
dict  == <<cap, arr, size, call, result, failures>>
freq  == <<at, file, buf, bufcap, cells, live, printed, status, text>>
shell == <<job, rest, table>>
vars  == <<chars, hist, dict, freq, shell>>

C == INSTANCE Chars
H == INSTANCE Hist WITH status <- hist_status
D == INSTANCE Dict
F == INSTANCE Freq

\* A table as a file, with each line ended in the same way.
Csv(rows, eol) ==
  FlattenSeq([i \in DOMAIN rows |->
    FlattenSeq([k \in DOMAIN rows[i] |->
      IF k = 1 THEN rows[i][k] ELSE <<",">> \o rows[i][k]]) \o eol])

Eols == {<<"LF">>, <<"CR", "LF">>}

\* Files are made of characters, and tests call a function as it is declared.
ASSUME TextAssumption ==
  /\ D!DictAssumption /\ H!HistAssumption /\ F!FreqAssumption
  /\ {C!CR, C!LF} \subseteq Spaces
  /\ "NUL" \in C!Chars /\ Essays \subseteq Seq(C!Chars)
  /\ \A rows \in Tables, eol \in Eols : Csv(rows, eol) \in Seq(C!Chars)
  /\ TestChars \subseteq C!Chars /\ TestKeys \subseteq Keys /\ TestVals \subseteq Vals

\* A job: the program that converts the file, the one that reads it, and the
\* line ends of the file.
Init ==
  /\ C!Init /\ H!InitWith(<<>>) /\ D!Init
  /\ \/ /\ job \in [filter : {"none", "tounix", "todos"}, reader : {"hist"}, eol : Eols]
        /\ table \in Tables /\ rest = Csv(table, job.eol)
     \/ /\ job \in [filter : {"none", "tounix", "todos"}, reader : {"freq"}, eol : {<<>>}]
        /\ table = <<>> /\ rest \in Essays
     \/ /\ job \in [filter : {"chartests", "dicttests"}, reader : {"none"}, eol : {<<>>}]
        /\ table = <<>> /\ rest = <<>>
  /\ F!InitWith(rest)

\* The next character of the file goes through a function, until the end.
Filter(program, f) ==
  /\ job.filter = program /\ rest # <<>>
  /\ C!Call(f, Head(rest), "NUL")
  /\ rest' = Tail(rest)
  /\ UNCHANGED <<hist, dict, freq, job, table>>

tounix == Filter("tounix", "dtou")
todos  == Filter("todos", "utod")

\* What the reader gets, once the filter is at the end of the file.
Filtered == job.filter = "none" \/ rest = <<>>
Stream   == IF job.filter = "none" THEN rest
            ELSE given[IF job.filter = "tounix" THEN "dtou" ELSE "utod"]

Connect ==
  /\ job.reader \in {"hist", "freq"} /\ Filtered
  /\ stdin' = IF job.reader = "hist" THEN Stream ELSE <<>>
  /\ file' = IF job.reader = "freq" THEN Stream ELSE <<>>
  /\ job' = [job EXCEPT !.reader = IF @ = "hist" THEN "in hist" ELSE "in freq"]
  /\ rest' = <<>>
  /\ UNCHANGED <<chars, step, cols, data, start, counts, hist_status, dict, at,
                 buf, bufcap, cells, live, printed, status, text, table>>

\* All have ended, or the tests have made as many calls as they may.
Finished ==
  /\ \/ job.reader = "in hist" /\ step = "exit"
     \/ job.reader = "in freq" /\ at = "exit"
     \/ job.filter = "chartests" /\ Len(taken["dtou"]) + Len(taken["utod"]) = MaxTaken
  /\ UNCHANGED vars

Next ==
  \/ tounix \/ todos \/ Connect \/ Finished
  \/ job.reader = "in hist" /\ H!Next /\ UNCHANGED <<chars, dict, freq, shell>>
  \/ job.reader = "in freq" /\ F!Next /\ UNCHANGED <<chars, hist, shell>>
  \/ job.filter = "chartests" /\ C!Calls(TestChars) /\ UNCHANGED <<hist, dict, freq, shell>>
  \/ /\ job.filter = "dicttests" /\ D!Calls(TestKeys, TestVals)
     /\ UNCHANGED <<chars, hist, freq, shell>>

Spec == Init /\ [][Next]_vars

-----------------------------------------------------------------------------
(* Properties.                                                              *)

\* Every variable has its type.
TypeOK == C!TypeOK /\ H!TypeOK /\ D!TypeOK /\ F!TypeOK

\* tounix and todos change the line ends of the file, and nothing else.
Converts == C!Converts

\* The sum of the cells of a row of the table.
Sum(row) ==
  LET value(cell) == IF Len(cell) > 0 /\ Last(cell) \in DOMAIN Num
                     THEN Num[Last(cell)] ELSE 0
  IN  MapThenSumSet(LAMBDA k : value(row[k]), DOMAIN row)

\* hist draws the histogram of its data, whatever file it reads.
Histogram == H!Histogram

\* Its data are the sums of the rows of the table: of a file with the line ends
\* of Unix, or of any file after tounix.
RowsSummed ==
  counts # <<>> /\ (job.filter = "tounix" \/ (job.filter = "none" /\ Len(job.eol) = 1)) =>
    data = [i \in 1 .. Min({MaxRows, Len(table) - 1}) |-> Sum(table[i + 1])]

\* freq prints the most frequent words of the file, whatever its line ends and
\* whatever program has converted them.
TopWords == F!TopWords

\* freq frees its counts once, and uses none that the dictionary lost.
CountsOwned == F!CountsOwned

\* Every key is found where it is looked up, used by freq or by any program.
WellPlaced == D!WellPlaced

\* There are never many more entries than chains.
LoadBounded == D!LoadBounded

\* Whoever uses it, the dictionary is a map.
IsMap == D!IsMap
=============================================================================
