------------------------------- MODULE Chars --------------------------------
(***************************************************************************)
(* The conversion of line ends of Asgn 1 (chars.c): dtou and utod take a    *)
(* text character by character, and each holds a carriage return back in a  *)
(* static variable until the next character shows what it is.  The program  *)
(* tounix calls dtou, todos calls utod; chartests.c calls both.             *)
(***************************************************************************)
EXTENDS Integers, SequencesExt

CONSTANTS
  Plain,     \* plain text (istext) other than the line ends
  Others,    \* characters that are not plain text
  MaxTaken   \* bound on the characters that the tests give to the functions

CR == "CR"
LF == "LF"
Chars  == Plain \cup Others \cup {CR, LF}
Fns == {"dtou", "utod"}

VARIABLES
  pending_cr,     \* the static of each function
  str,            \* the caller's buffer: two characters and a null
  taken, given    \* history: what each function took and gave so far

vars == <<pending_cr, str, taken, given>>

istext(c) == c \notin Others

\* The carriage return that was held back.
Held(pending) == IF pending THEN <<CR>> ELSE <<>>

\* What becomes of a newline.
Newline(f) == IF f = "dtou" THEN <<LF>> ELSE <<CR, LF>>

Init ==
  /\ pending_cr = [f \in Fns |-> FALSE]
  /\ str = <<>>
  /\ taken = [f \in Fns |-> <<>>] /\ given = [f \in Fns |-> <<>>]

Gives(f, c, out, pending) ==
  /\ str' = out
  /\ pending_cr' = [pending_cr EXCEPT ![f] = pending]
  /\ taken' = [taken EXCEPT ![f] = Append(@, c)]
  /\ given' = [given EXCEPT ![f] = @ \o out]

\* Neither the character nor its replacement is plain text.
Nothing == str' = <<>> /\ UNCHANGED <<pending_cr, taken, given>>

\* Mutant of EndOfLine: the carriage return stays pending.
EndOfLineStaysPending(f) == Gives(f, LF, Newline(f), pending_cr[f])

\* The carriage return held back, if there is one, belongs to this newline. A
\* newline that follows something else is left alone by dtou.
EndOfLine(f) == Gives(f, LF, Newline(f), FALSE)

\* An earlier carriage return was no line end.
HoldBack(f) == Gives(f, CR, Held(pending_cr[f]), TRUE)

Pass(f, c) == Gives(f, c, Held(pending_cr[f]) \o <<c>>, FALSE)

Convert(f, c) ==
  \/ c = LF /\ EndOfLine(f)
  \/ c = CR /\ HoldBack(f)
  \/ c \notin {CR, LF} /\ Pass(f, c)

\* dtou and utod.
Call(f, next, dflt) ==
  \/ istext(next) /\ Convert(f, next)
  \/ ~istext(next) /\ istext(dflt) /\ Convert(f, dflt)
  \/ ~istext(next) /\ ~istext(dflt) /\ Nothing

\* Calls of both functions, with any character and any replacement.
Calls(chars) ==
  /\ Len(taken["dtou"]) + Len(taken["utod"]) < MaxTaken
  /\ \E f \in Fns, next, dflt \in chars : Call(f, next, dflt)

Next == Calls(Chars)

Spec == Init /\ [][Next]_vars

-----------------------------------------------------------------------------
(* Properties.                                                              *)

\* Every variable has its type, and a call writes at most two characters.
TypeOK ==
  /\ pending_cr \in [Fns -> BOOLEAN]
  /\ str \in Seq(Chars) /\ Len(str) <= 2
  /\ taken \in [Fns -> Seq(Chars)] /\ given \in [Fns -> Seq(Chars)]

\* A text without the carriage returns that are part of a line end.
Unix(s) ==
  FlattenSeq([i \in DOMAIN s |->
    IF s[i] = CR /\ i < Len(s) /\ s[i + 1] = LF THEN <<>> ELSE <<s[i]>>])

Dos(s) ==
  FlattenSeq([i \in DOMAIN Unix(s) |->
    IF Unix(s)[i] = LF THEN <<CR, LF>> ELSE <<Unix(s)[i]>>])

\* Taken together, what a function has given for a text up to here is that text
\* with the other line ends, whatever was held back, replaced or left out in
\* between, and only a carriage return at its end may still be missing.
Converts ==
  \A f \in Fns : given[f] \o Held(pending_cr[f])
                   = IF f = "dtou" THEN Unix(taken[f]) ELSE Dos(taken[f])
=============================================================================
