-------------------------------- MODULE Hist --------------------------------
(***************************************************************************)
(* The histogram of Asgn 2 (hist.c): rows of comma-separated cells are read *)
(* from stdin, the sum of a row is a datapoint, and the datapoints are      *)
(* counted in intervals (u - 2, u] from a multiple of ten to another.  A    *)
(* number is one character here, a maximal run of digits with its sign.     *)
(***************************************************************************)
EXTENDS Integers, SequencesExt

CONSTANTS
  Num,       \* the values of the characters that stand for a number
  Blanks,    \* space and tab
  MaxRows,   \* MAX_ROWS (1024)
  MaxLine,   \* MAX_LINE (2048)
  IntValues  \* the number of values of an int (2^32)

HistAssumption ==
  /\ \A c \in DOMAIN Num : Num[c] \in Int
  /\ MaxRows \in Nat \ {0} /\ MaxLine \in Nat \ {0, 1} /\ IntValues \in Nat \ {0}

VARIABLES
  step,          \* where main is
  stdin,         \* what is still to be read
  cols, data,
  start, counts, \* the first interval, and the number of datapoints in each
  status         \* the exit status

vars == <<step, stdin, cols, data, start, counts, status>>

-----------------------------------------------------------------------------
(* Arithmetic of C: division truncates.                                     *)

Quot(a, d) == IF a >= 0 THEN a \div d ELSE -((-a) \div d)
Rem(a, d)  == a - d * Quot(a, d)

\* Mutant of floor_div: rounds towards zero.
floor_div_Truncates(a, d) == Quot(a, d)

floor_div(a, d) == IF a < 0 /\ Rem(a, d) # 0 THEN Quot(a, d) - 1 ELSE Quot(a, d)
ceil_div(a, d)  == IF a > 0 /\ Rem(a, d) # 0 THEN Quot(a, d) + 1 ELSE Quot(a, d)

round_down_10(x) == floor_div(x, 10) * 10
round_up_10(x)   == ceil_div(x, 10) * 10

\* The conversion of a long to an int.
ToInt(x) == ((x + IntValues \div 2) % IntValues) - IntValues \div 2

-----------------------------------------------------------------------------
(* The input.                                                               *)

\* fgets.
Line(s) ==
  SubSeq(s, 1, Min({i \in DOMAIN s : s[i] = "LF" \/ i \in {MaxLine - 1, Len(s)}}))

Commas(line)      == {i \in DOMAIN line : line[i] = ","}
count_cells(line) == 1 + Cardinality(Commas(line))
Quoted(line)      == Contains(line, "QUOTE")

\* The value of a cell: blanks are dropped, and what remains is a number, or
\* counts as 0. strtol skips a carriage return before the number, not after it.
parse_cell(cell) ==
  LET s == SelectSeq(cell, LAMBDA c : c \notin Blanks)
      n == Len(s)
  IN  IF n > 0 /\ s[n] \in DOMAIN Num /\ \A i \in 1 .. n - 1 : s[i] = "CR"
      THEN Num[s[n]] ELSE 0

\* Mutant of RowSum: the last cell is not added.
RowSumWithoutLast(line) ==
  LET row     == IF Last(line) = "LF" THEN Front(line) ELSE line
      next(i) == Min({e \in Commas(row) : e > i})
  IN  MapThenSumSet(LAMBDA i : parse_cell(SubSeq(row, i + 1, next(i) - 1)),
                    {i \in Commas(row) \cup {0} : \E e \in Commas(row) : e > i})

\* The sum of the cells of a line, up to the newline.
RowSum(line) ==
  LET row  == IF Last(line) = "LF" THEN Front(line) ELSE line
      ends == Commas(row) \cup {Len(row) + 1}
      next(i) == Min({e \in ends : e > i})
  IN  MapThenSumSet(LAMBDA i : parse_cell(SubSeq(row, i + 1, next(i) - 1)),
                    Commas(row) \cup {0})

-----------------------------------------------------------------------------
(* main.                                                                    *)

InitWith(text) ==
  /\ step = "header" /\ stdin = text
  /\ cols = 0 /\ data = <<>> /\ start = 0 /\ counts = <<>> /\ status = 0

Exit(code) ==
  /\ step' = "exit" /\ status' = code
  /\ UNCHANGED <<cols, data, start, counts>>

Consume == stdin' = SubSeq(stdin, Len(Line(stdin)) + 1, Len(stdin))

NoInput == step = "header" /\ stdin = <<>> /\ Exit(0) /\ UNCHANGED stdin

Header ==
  /\ step = "header" /\ stdin # <<>>
  /\ Consume
  /\ IF Quoted(Line(stdin)) THEN Exit(2)
     ELSE /\ step' = "rows" /\ cols' = count_cells(Line(stdin))
          /\ UNCHANGED <<data, start, counts, status>>

\* A line with quotes or with another number of cells ends the program.
BadRow ==
  /\ step = "rows" /\ stdin # <<>>
  /\ Consume
  /\ \/ Quoted(Line(stdin)) /\ Exit(2)
     \/ ~Quoted(Line(stdin)) /\ count_cells(Line(stdin)) # cols /\ Exit(1)

\* The row after the last one that fits ends the input, without being counted.
Row ==
  /\ step = "rows" /\ stdin # <<>>
  /\ ~Quoted(Line(stdin)) /\ count_cells(Line(stdin)) = cols
  /\ Consume
  /\ IF Len(data) < MaxRows
     THEN data' = Append(data, RowSum(Line(stdin))) /\ UNCHANGED step
     ELSE step' = "draw" /\ UNCHANGED data
  /\ UNCHANGED <<cols, start, counts, status>>

EndOfInput ==
  /\ step = "rows" /\ stdin = <<>>
  /\ step' = "draw"
  /\ UNCHANGED <<stdin, cols, data, start, counts, status>>

first == round_down_10(Min(ToSet(data)))
last  == round_up_10(Max(ToSet(data)))

\* The number of intervals, at least 1.
bins == Max({1, ToInt(Quot(last - first, 2)) + 1})

\* The index of the interval of a datapoint.
Bin(x) ==
  LET u == IF Rem(x, 2) = 0 THEN x ELSE x + 1
  IN  Min({bins - 1, Max({0, ToInt(Quot(u - first, 2))})})

Draw ==
  /\ step = "draw" /\ data # <<>>
  /\ start' = first
  /\ counts' = [k \in 1 .. bins |->
                  Cardinality({i \in DOMAIN data : Bin(data[i]) = k - 1})]
  /\ step' = "exit"
  /\ UNCHANGED <<stdin, cols, data, status>>

\* No row, or calloc() fails: nothing is drawn, and the status is 0.
DrawNothing ==
  /\ step = "draw"
  /\ Exit(0)
  /\ UNCHANGED stdin

Next ==
  NoInput \/ Header \/ BadRow \/ Row \/ EndOfInput \/ Draw \/ DrawNothing

-----------------------------------------------------------------------------
(* Properties.                                                              *)

\* Every variable has its type.
TypeOK ==
  /\ step \in {"header", "rows", "draw", "exit"}
  /\ cols \in Nat /\ start \in Int /\ status \in 0 .. 2
  /\ data \in Seq(Int) /\ Len(data) <= MaxRows
  /\ counts \in Seq(Nat)

\* The number of datapoints in the interval (u - 2, u].
InInterval(u) == Cardinality({i \in DOMAIN data : u - 2 < data[i] /\ data[i] <= u})

\* The last interval, seen from the first.
End == start + 2 * (Len(counts) - 1)

\* What is drawn is the histogram of the data: it goes from the minimum, rounded
\* down to a multiple of ten, to the maximum, rounded up, and each bar is as high
\* as there are datapoints in its interval, odd or even, negative or not. If
\* the number of intervals does not fit into an int, no datapoint is lost yet.
Histogram ==
  counts # <<>> =>
    /\ Len(data) = MapThenSumSet(LAMBDA k : counts[k], DOMAIN counts)
    /\ last - first < IntValues - 2 =>
         /\ start % 10 = 0 /\ End % 10 = 0
         /\ \A i \in DOMAIN data : start <= data[i] /\ data[i] <= End
         /\ \E i \in DOMAIN data : data[i] < start + 10
         /\ \E i \in DOMAIN data : data[i] > End - 10
         /\ \A k \in DOMAIN counts : counts[k] = InInterval(start + 2 * (k - 1))
=============================================================================
