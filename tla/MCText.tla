------------------------------- MODULE MCText -------------------------------
(* Text for TLC.  Of the keys, three have the same hash code.               *)
EXTENDS Text

MCNum == [c \in {"-31", "-9", "-1", "0", "9", "11", "31"} |->
            CASE c = "-31" -> -31 [] c = "-9" -> -9 [] c = "-1" -> -1 [] c = "0" -> 0
              [] c = "9" -> 9 [] c = "11" -> 11 [] c = "31" -> 31]

MCPlain == DOMAIN MCNum \cup {"a", "B", "1", "x", " ", ",", "QUOTE"}

Header == <<<<"x">>>>
Rows   == {<<<<c>>>> : c \in DOMAIN MCNum \cup {"QUOTE"}}
            \cup {<<<<"x">>, <<"9">>>>}
Wide   == {<<<<" ", "9">>, <<"x">>, <<"-1">>>>, <<<<>>, <<"11">>, <<"31">>>>}

MCTables ==
  {<<Header>> \o rows : rows \in BoundedSeq(Rows, 3)}
    \cup {<<Header>> \o rows : rows \in BoundedSeq({<<<<"9">>>>, <<<<"11">>>>}, 5)}
    \cup {<<<<<<"x">>, <<"x">>, <<"x">>>>>> \o rows : rows \in BoundedSeq(Wide, 2)}
    \cup {<<<<<<"QUOTE">>>>>>, <<>>}

MCLower  == [c \in {"a", "B"} |-> IF c = "a" THEN 1 ELSE 4]
\* Files of up to five characters, with words of up to three letters, and of
\* up to four words.
Words3   == BoundedSeq({1, 4}, 3) \ {<<>>}
MCEssays ==
  {s \in BoundedSeq({"a", "B", "1", "CR", "LF"}, 5) :
     \A i \in 1 .. Len(s) - 3 : \E k \in i .. i + 3 : s[k] \in {"CR", "LF"}}
  \cup {FlattenSeq([i \in DOMAIN w |-> w[i] \o <<"LF">>]) :
          w \in BoundedSeq({<<"a">>, <<"B">>, <<"a", "B">>}, 4)}

TheKeys == {<<1>>, <<4, 1>>, <<4, 1, 2>>, <<5, 2>>}
MCKeys  == TheKeys \cup Words3
=============================================================================
