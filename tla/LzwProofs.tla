----------------------------- MODULE LzwProofs ------------------------------
(***************************************************************************)
(* The invariants of Lzw, for every base, number of characters, source and  *)
(* number of failed allocations.                                            *)
(*                                                                          *)
(* Encoder is inductive alone, for any bytes: the dictionary has no         *)
(* repetitions, has every character, and every longer string without its    *)
(* last byte unless that leaves a byte that is no character.  So are the    *)
(* types of the decoder.  What is read from the file of a text needs a      *)
(* witness that no variable holds: the codes that were written, and the     *)
(* places (cuts) where they cut the source.                                 *)
(* Codec says that there is one list of codes that is in the file digit by  *)
(* digit, of which entry InitDictSize + j of the dictionary is string j and *)
(* the character behind it, and of which the decoder has read the first m.  *)
(***************************************************************************)
EXTENDS Lzw, SequenceTheorems, TLAPS

\* Dividing twice is dividing by the product.
LEMMA DivTwice ==
  ASSUME NEW c \in Nat
  PROVE  c \div (Base * Base) = (c \div Base) \div Base
<1>1. Base \in Nat /\ Base > 1
  BY LzwAssumption
<1>2. PICK q \in Nat, d \in 0 .. Base - 1 : c = Base * q + d /\ q = c \div Base
  <2>1. c \div Base \in Nat /\ c % Base \in 0 .. Base - 1
    BY <1>1
  <2>2. c = Base * (c \div Base) + (c % Base)
    BY <1>1
  <2>. QED  BY <2>1, <2>2
<1>3. PICK r \in Nat, e \in 0 .. Base - 1 : q = Base * r + e /\ r = q \div Base
  <2>1. q \div Base \in Nat /\ q % Base \in 0 .. Base - 1
    BY <1>1
  <2>2. q = Base * (q \div Base) + (q % Base)
    BY <1>1
  <2>. QED  BY <2>1, <2>2
<1>4. c = (Base * Base) * r + (Base * e + d)
  <2>1. Base * (Base * r + e) = Base * (Base * r) + Base * e
    BY <1>1
  <2>2. Base * (Base * r) = (Base * Base) * r
    BY <1>1
  <2>3. Base * r \in Nat /\ Base * e \in Nat /\ (Base * Base) * r \in Nat
    BY <1>1
  <2>. QED  BY <1>1, <1>2, <1>3, <2>1, <2>2, <2>3
<1>5. Base * e + d \in 0 .. Base * Base - 1
  BY <1>1
<1>6. c \div (Base * Base) = r
  BY <1>1, <1>4, <1>5
<1>. QED  BY <1>2, <1>3, <1>6

Number(d) == (d[1] * Base + d[2]) * Base + d[3]

\* Three digits are enough for a code, and the code can be read from them.
LEMMA DigitsProperties ==
  ASSUME NEW c \in 0 .. MaxCode
  PROVE  /\ Digits(c) \in Seq(Digit) /\ Len(Digits(c)) = 3
         /\ \A k \in 1 .. 3 : Digits(c)[k] \in Digit
         /\ Digits(c) = <<Digits(c)[1], Digits(c)[2], Digits(c)[3]>>
         /\ Number(Digits(c)) = c
<1>1. Base \in Nat /\ Base > 1
  BY LzwAssumption
<1>. DEFINE q == c \div Base
            r == q \div Base
<1>2. c \in Nat /\ c < Base * Base * Base
  <2>1. Base * Base \in Nat /\ (Base * Base) * Base \in Nat
    BY <1>1
  <2>. QED  BY <2>1 DEF MaxCode
<1>0. c % (MaxCode + 1) = c
  BY <1>1, <1>2 DEF MaxCode
<1>3. q \in Nat /\ c % Base \in 0 .. Base - 1 /\ c = q * Base + (c % Base)
  BY <1>1, <1>2
<1>4. r \in Nat /\ q % Base \in 0 .. Base - 1 /\ q = r * Base + (q % Base)
  BY <1>1, <1>3
<1>5. q < Base * Base
  <2>1. q >= Base * Base => q * Base >= (Base * Base) * Base
    BY <1>1, <1>3
  <2>2. (Base * Base) * Base \in Nat /\ q * Base \in Nat /\ Base * Base \in Nat
    BY <1>1, <1>3
  <2>. QED  BY <1>2, <1>3, <2>1, <2>2
<1>6. r < Base
  <2>1. r >= Base => r * Base >= Base * Base
    BY <1>1, <1>4
  <2>2. Base * Base \in Nat /\ r * Base \in Nat
    BY <1>1, <1>4
  <2>. QED  BY <1>1, <1>4, <1>5, <2>1, <2>2
<1>7. c \div (Base * Base) = r
  BY <1>2, DivTwice
<1>. DEFINE d1 == c \div (Base * Base)
            d2 == q % Base
            d3 == c % Base
<1>8. d1 \in Digit /\ d2 \in Digit /\ d3 \in Digit
  BY <1>1, <1>3, <1>4, <1>6, <1>7 DEF Digit
<1>9. Digits(c) = <<d1, d2, d3>>
  BY <1>0 DEF Digits
<1>10. (d1 * Base + d2) * Base + d3 = c
  BY <1>3, <1>4, <1>7
<1>. HIDE DEF d1, d2, d3
<1>. QED  BY <1>8, <1>9, <1>10 DEF Number

-----------------------------------------------------------------------------
(* Strings and where they stand.                                            *)

\* w stands in s after the first a characters.
At(w, s, a) ==
  /\ a + Len(w) <= Len(s)
  /\ \A i \in 1 .. Len(w) : w[i] = s[a + i]

\* A string that stands in s does so when s grows.
LEMMA AtLonger ==
  ASSUME NEW w \in Strings, NEW s \in Strings, NEW a \in Nat, At(w, s, a), NEW c \in Byte
  PROVE  At(w, Append(s, c), a)
<1>1. Len(w) \in Nat /\ Len(s) \in Nat
  BY LenProperties DEF Strings
<1>2. /\ Len(Append(s, c)) = Len(s) + 1
      /\ \A i \in 1 .. Len(s) : Append(s, c)[i] = s[i]
  BY AppendProperties DEF Strings
<1>3. \A i \in 1 .. Len(w) : a + i \in 1 .. Len(s)
  BY <1>1 DEF At
<1>. QED  BY <1>1, <1>2, <1>3 DEF At

\* A string at the end of s grows with s.
LEMMA AtEnd ==
  ASSUME NEW w \in Strings, NEW s \in Strings, NEW a \in Nat, At(w, s, a),
         a + Len(w) = Len(s), NEW c \in Byte
  PROVE  At(Append(w, c), Append(s, c), a)
<1>1. Len(w) \in Nat /\ Len(s) \in Nat
  BY LenProperties DEF Strings
<1>2. /\ Len(Append(s, c)) = Len(s) + 1
      /\ \A i \in 1 .. Len(s) : Append(s, c)[i] = s[i]
      /\ Append(s, c)[Len(s) + 1] = c
      /\ Len(Append(w, c)) = Len(w) + 1
      /\ \A i \in 1 .. Len(w) : Append(w, c)[i] = w[i]
      /\ Append(w, c)[Len(w) + 1] = c
  BY AppendProperties DEF Strings
<1>3. ASSUME NEW i \in 1 .. Len(w) + 1 PROVE Append(w, c)[i] = Append(s, c)[a + i]
  <2>1. CASE i \in 1 .. Len(w)
    <3>1. a + i \in 1 .. Len(s)
      BY <1>1, <2>1
    <3>. QED  BY <1>2, <2>1, <3>1 DEF At
  <2>2. CASE i = Len(w) + 1
    <3>1. a + i = Len(s) + 1
      BY <1>1, <2>2
    <3>. QED  BY <1>2, <2>2, <3>1
  <2>3. i \in 1 .. Len(w) \/ i = Len(w) + 1
    BY <1>1
  <2>. QED  BY <2>1, <2>2, <2>3
<1>. QED  BY <1>1, <1>2, <1>3 DEF At

\* There is one string of a length in one place.
LEMMA AtEqual ==
  ASSUME NEW u \in Strings, NEW w \in Strings, NEW s, NEW a, At(u, s, a), At(w, s, a),
         Len(u) = Len(w)
  PROVE  u = w
BY SeqEqual DEF At, Strings

\* A string, and the first character of the one behind it.
LEMMA AtNext ==
  ASSUME NEW u \in Strings, NEW w \in Strings, NEW s \in Strings, NEW a \in Nat,
         At(u, s, a), At(w, s, a + Len(u)), Len(w) >= 1
  PROVE  /\ Append(u, w[1]) \in Strings
         /\ Len(Append(u, w[1])) = Len(u) + 1
         /\ At(Append(u, w[1]), s, a)
<1>1. Len(w) \in Nat /\ Len(u) \in Nat /\ Len(s) \in Nat /\ w[1] \in Byte
  <2>1. Len(w) \in Nat /\ Len(u) \in Nat /\ Len(s) \in Nat
    BY LenProperties DEF Strings
  <2>2. 1 \in 1 .. Len(w)
    BY <2>1
  <2>. QED  BY <2>1, <2>2, ElementOfSeq DEF Strings
<1>. DEFINE x == Append(u, w[1])
<1>2. /\ x \in Strings /\ Len(x) = Len(u) + 1
      /\ \A i \in 1 .. Len(u) : x[i] = u[i]
      /\ x[Len(u) + 1] = w[1]
  BY <1>1, AppendProperties DEF Strings
<1>. HIDE DEF x
<1>3. a + Len(u) + 1 <= Len(s) /\ w[1] = s[a + Len(u) + 1]
  <2>1. 1 \in 1 .. Len(w)
    BY <1>1
  <2>. QED  BY <1>1, <2>1 DEF At
<1>4. ASSUME NEW i \in 1 .. Len(u) + 1 PROVE x[i] = s[a + i]
  <2>1. CASE i \in 1 .. Len(u)
    BY <1>2, <2>1 DEF At
  <2>2. CASE i = Len(u) + 1
    <3>1. a + i = a + Len(u) + 1
      BY <1>1, <2>2
    <3>. QED  BY <1>2, <1>3, <2>2, <3>1
  <2>3. i \in 1 .. Len(u) \/ i = Len(u) + 1
    BY <1>1
  <2>. QED  BY <2>1, <2>2, <2>3
<1>5. At(x, s, a)
  BY <1>1, <1>2, <1>3, <1>4 DEF At
<1>. QED  BY <1>2, <1>5 DEF x

\* Two strings, one behind the other.
LEMMA AtConcat ==
  ASSUME NEW u \in Strings, NEW w \in Strings, NEW s \in Strings,
         At(u, s, 0), At(w, s, Len(u))
  PROVE  /\ u \o w \in Strings
         /\ Len(u \o w) = Len(u) + Len(w)
         /\ At(u \o w, s, 0)
<1>1. Len(w) \in Nat /\ Len(u) \in Nat /\ Len(s) \in Nat
  BY LenProperties DEF Strings
<1>. DEFINE x == u \o w
<1>2. /\ x \in Strings /\ Len(x) = Len(u) + Len(w)
      /\ \A i \in 1 .. Len(u) + Len(w) : x[i] = IF i <= Len(u) THEN u[i] ELSE w[i - Len(u)]
  BY ConcatProperties DEF Strings
<1>. HIDE DEF x
<1>3. ASSUME NEW i \in 1 .. Len(u) + Len(w) PROVE x[i] = s[0 + i]
  <2>1. CASE i <= Len(u)
    <3>1. i \in 1 .. Len(u)
      BY <1>1, <2>1
    <3>. QED  BY <1>2, <2>1, <3>1 DEF At
  <2>2. CASE ~(i <= Len(u))
    <3>1. i - Len(u) \in 1 .. Len(w) /\ Len(u) + (i - Len(u)) = 0 + i
      BY <1>1, <2>2
    <3>2. w[i - Len(u)] = s[Len(u) + (i - Len(u))]
      BY <3>1 DEF At
    <3>. QED  BY <1>2, <2>2, <3>1, <3>2
  <2>. QED  BY <2>1, <2>2
<1>4. At(x, s, 0)
  BY <1>1, <1>2, <1>3 DEF At
<1>. QED  BY <1>2, <1>4 DEF x

\* What stands at the beginning is a prefix, and everything if it is as long.
LEMMA AtBeginning ==
  ASSUME NEW u \in Strings, NEW s \in Strings, At(u, s, 0)
  PROVE  /\ IsPrefix(u, s)
         /\ Len(u) = Len(s) => u = s
<1>1. Len(u) \in Nat /\ Len(s) \in Nat /\ Len(u) <= Len(s)
  BY LenProperties DEF Strings, At
<1>2. \A i \in 1 .. Len(u) : u[i] = s[i]
  BY DEF At
<1>3. Len(u) = Len(s) => u = s
  BY <1>2, SeqEqual DEF Strings
<1>4. SubSeq(u, 1, Len(u)) = SubSeq(s, 1, Len(u))
  BY <1>1, <1>2 DEF Strings
<1>. QED  BY <1>1, <1>3, <1>4 DEF IsPrefix

-----------------------------------------------------------------------------
(* The bytes of a code.                                                     *)

Bytes == Seq(Digit \X Digit)

\* The pairs that the digits d come to, after those of f.
Pack(f, d) == f \o [i \in 1 .. Len(d) \div 2 |-> <<d[2*i - 1], d[2*i]>>]

\* Three digits are a byte, four are two.
LEMMA PackThree ==
  ASSUME NEW f \in Bytes, NEW a \in Digit, NEW b \in Digit, NEW c \in Digit
  PROVE  /\ Pack(f, <<a, b, c>>) = Append(f, <<a, b>>)
         /\ Last(<<a, b, c>>) = c
<1>. DEFINE d == <<a, b, c>>
            g == [i \in 1 .. Len(d) \div 2 |-> <<d[2*i - 1], d[2*i]>>]
<1>1. Len(d) = 3 /\ d[1] = a /\ d[2] = b /\ d[3] = c
  OBVIOUS
<1>2. Len(d) \div 2 = 1
  BY <1>1
<1>3. g = <<<<a, b>>>>
  <2>1. g = [i \in 1 .. 1 |-> <<a, b>>]
    BY <1>1, <1>2
  <2>2. <<<<a, b>>>> = [i \in 1 .. 1 |-> <<a, b>>]
    OBVIOUS
  <2>. QED  BY <2>1, <2>2
<1>4. Append(f, <<a, b>>) = f \o <<<<a, b>>>>
  BY AppendIsConcat DEF Bytes
<1>. QED  BY <1>1, <1>3, <1>4 DEF Pack, Last

\* Four of them are two bytes.
LEMMA PackFour ==
  ASSUME NEW f \in Bytes, NEW a \in Digit, NEW b \in Digit, NEW c \in Digit, NEW e \in Digit
  PROVE  Pack(f, <<a, b, c, e>>) = Append(Append(f, <<a, b>>), <<c, e>>)
<1>. DEFINE d == <<a, b, c, e>>
            g == [i \in 1 .. Len(d) \div 2 |-> <<d[2*i - 1], d[2*i]>>]
<1>1. Len(d) = 4 /\ d[1] = a /\ d[2] = b /\ d[3] = c /\ d[4] = e
  OBVIOUS
<1>2. Len(d) \div 2 = 2
  BY <1>1
<1>3. g = <<<<a, b>>, <<c, e>>>>
  <2>1. g = [i \in 1 .. 2 |-> IF i = 1 THEN <<a, b>> ELSE <<c, e>>]
    BY <1>1, <1>2
  <2>2. <<<<a, b>>, <<c, e>>>> = [i \in 1 .. 2 |-> IF i = 1 THEN <<a, b>> ELSE <<c, e>>]
    OBVIOUS
  <2>. QED  BY <2>1, <2>2
<1>4. <<a, b>> \in Digit \X Digit /\ <<c, e>> \in Digit \X Digit
  OBVIOUS
<1>. DEFINE h == Append(Append(f, <<a, b>>), <<c, e>>)
<1>5. /\ Len(f) \in Nat /\ h \in Bytes /\ Len(h) = Len(f) + 2
      /\ \A i \in 1 .. Len(f) : h[i] = f[i]
      /\ h[Len(f) + 1] = <<a, b>> /\ h[Len(f) + 2] = <<c, e>>
  BY <1>4, AppendProperties, LenProperties DEF Bytes
<1>6. /\ g \in Bytes /\ Len(g) = 2 /\ g[1] = <<a, b>> /\ g[2] = <<c, e>>
  BY <1>3, <1>4 DEF Bytes
<1>. HIDE DEF g, h
<1>7. /\ f \o g \in Bytes /\ Len(f \o g) = Len(f) + 2
      /\ \A i \in 1 .. Len(f) + 2 : (f \o g)[i] = IF i <= Len(f) THEN f[i] ELSE g[i - Len(f)]
  <2>1. /\ f \o g \in Bytes /\ Len(f \o g) = Len(f) + Len(g)
        /\ \A i \in 1 .. Len(f) + Len(g) :
             (f \o g)[i] = IF i <= Len(f) THEN f[i] ELSE g[i - Len(f)]
    BY <1>6, ConcatProperties DEF Bytes
  <2>. QED  BY <1>6, <2>1
<1>8. \A i \in 1 .. Len(f) + 2 : (f \o g)[i] = h[i]
  BY <1>5, <1>6, <1>7
<1>9. f \o g = h
  BY <1>5, <1>7, <1>8, SeqEqual DEF Bytes
<1>. QED  BY <1>9 DEF Pack, g, h

\* Sequences of four, in two parts.
LEMMA Literals ==
  ASSUME NEW a \in Digit, NEW b \in Digit, NEW c \in Digit, NEW e \in Digit
  PROVE  /\ <<a>> \o <<b, c, e>> = <<a, b, c, e>>
         /\ Append(<<a, b, c>>, e) = <<a, b, c, e>>
<1>. DEFINE s == <<a, b, c, e>>
            u == <<a>> \o <<b, c, e>>
            v == Append(<<a, b, c>>, e)
<1>1. s \in Seq(Digit) /\ Len(s) = 4 /\ s[1] = a /\ s[2] = b /\ s[3] = c /\ s[4] = e
  OBVIOUS
<1>2. u \in Seq(Digit) /\ Len(u) = 4 /\ u[1] = a /\ u[2] = b /\ u[3] = c /\ u[4] = e
  <2>1. <<a>> \in Seq(Digit) /\ <<b, c, e>> \in Seq(Digit)
    OBVIOUS
  <2>2. /\ u \in Seq(Digit) /\ Len(u) = Len(<<a>>) + Len(<<b, c, e>>)
        /\ \A i \in 1 .. Len(<<a>>) + Len(<<b, c, e>>) :
             u[i] = IF i <= Len(<<a>>) THEN <<a>>[i] ELSE <<b, c, e>>[i - Len(<<a>>)]
    BY <2>1, ConcatProperties
  <2>3. Len(<<a>>) = 1 /\ Len(<<b, c, e>>) = 3
    OBVIOUS
  <2>. HIDE DEF u
  <2>4. \A i \in 1 .. 4 : u[i] = IF i <= 1 THEN <<a>>[i] ELSE <<b, c, e>>[i - 1]
    BY <2>2, <2>3
  <2>5. u[1] = <<a>>[1] /\ u[2] = <<b, c, e>>[1] /\ u[3] = <<b, c, e>>[2] /\ u[4] = <<b, c, e>>[3]
    BY <2>4
  <2>. QED  BY <2>2, <2>3, <2>5
<1>3. v \in Seq(Digit) /\ Len(v) = 4 /\ v[1] = a /\ v[2] = b /\ v[3] = c /\ v[4] = e
  <2>1. <<a, b, c>> \in Seq(Digit) /\ Len(<<a, b, c>>) = 3
    OBVIOUS
  <2>. QED  BY <2>1, AppendProperties
<1>. HIDE DEF s, u, v
<1>4. \A i \in 1 .. 4 : u[i] = s[i] /\ v[i] = s[i]
  BY <1>1, <1>2, <1>3
<1>5. u = s /\ v = s
  BY <1>1, <1>2, <1>3, <1>4, SeqEqual
<1>. QED  BY <1>5 DEF s, u, v

\* What is left when the pairs of d are taken.
Left(d) == IF Len(d) % 2 = 1 THEN <<Last(d)>> ELSE <<>>

\* d with a zero at the end if that makes the last pair whole.
Padded(d) == IF Len(d) % 2 = 1 THEN Append(d, 0) ELSE d

\* Nothing, or half a byte.
Rest == {<<>>} \cup {<<e>> : e \in Digit}

\* These are the sequences of at most one digit.
LEMMA RestProperties ==
  /\ \A b \in Rest : b \in Seq(Digit) /\ Len(b) <= 1
  /\ \A b \in Rest : b # <<>> => Len(b) = 1 /\ b[1] \in Digit
  /\ Len(<<>>) = 0
<1>1. ASSUME NEW e \in Digit
      PROVE  <<e>> \in Seq(Digit) /\ Len(<<e>>) = 1 /\ <<e>>[1] = e /\ Len(<<e>>) <= 1
  OBVIOUS
<1>2. <<>> \in Seq(Digit) /\ Len(<<>>) = 0 /\ Len(<<>>) <= 1
  OBVIOUS
<1>. QED  BY <1>1, <1>2, Zenon DEF Rest

\* Half a byte is left of a code, or was waiting for the next one.
LEMMA PackProperties ==
  ASSUME NEW c \in 0 .. MaxCode, NEW f \in Bytes
  PROVE  /\ Left(<<>> \o Digits(c)) = <<Digits(c)[3]>>
         /\ Pack(f, <<>> \o Digits(c)) = Append(f, <<Digits(c)[1], Digits(c)[2]>>)
         /\ Pack(f, Padded(<<>> \o Digits(c)))
              = Append(Append(f, <<Digits(c)[1], Digits(c)[2]>>), <<Digits(c)[3], 0>>)
         /\ \A e \in Digit :
              /\ Left(<<e>> \o Digits(c)) = <<>>
              /\ Padded(<<e>> \o Digits(c)) = <<e>> \o Digits(c)
              /\ Pack(f, <<e>> \o Digits(c))
                   = Append(Append(f, <<e, Digits(c)[1]>>), <<Digits(c)[2], Digits(c)[3]>>)
<1>. DEFINE x == Digits(c)[1]
            y == Digits(c)[2]
            z == Digits(c)[3]
<1>1. /\ x \in Digit /\ y \in Digit /\ z \in Digit
      /\ Digits(c) = <<x, y, z>>
  BY DigitsProperties
<1>2. 0 \in Digit
  BY LzwAssumption DEF Digit
<1>. HIDE DEF x, y, z
<1>3. /\ Left(<<x, y, z>>) = <<z>>
      /\ Pack(f, <<x, y, z>>) = Append(f, <<x, y>>)
      /\ Pack(f, Padded(<<x, y, z>>)) = Append(Append(f, <<x, y>>), <<z, 0>>)
      /\ <<>> \o <<x, y, z>> = <<x, y, z>>
  <2>1. Len(<<x, y, z>>) = 3 /\ 3 % 2 = 1 /\ <<>> \o <<x, y, z>> = <<x, y, z>>
    OBVIOUS
  <2>2. Pack(f, <<x, y, z>>) = Append(f, <<x, y>>) /\ Last(<<x, y, z>>) = z
    BY <1>1, PackThree
  <2>3. Left(<<x, y, z>>) = <<Last(<<x, y, z>>)>>
    BY <2>1 DEF Left
  <2>4. Padded(<<x, y, z>>) = Append(<<x, y, z>>, 0)
    BY <2>1 DEF Padded
  <2>5. Append(<<x, y, z>>, 0) = <<x, y, z, 0>>
    <3>1. \A a, b, d, e \in Digit : Append(<<a, b, d>>, e) = <<a, b, d, e>>
      BY Literals
    <3>. QED  BY <1>1, <1>2, <3>1
  <2>6. Pack(f, <<x, y, z, 0>>) = Append(Append(f, <<x, y>>), <<z, 0>>)
    BY <1>1, <1>2, PackFour
  <2>. QED  BY <2>1, <2>2, <2>3, <2>4, <2>5, <2>6, Zenon
<1>4. ASSUME NEW e \in Digit
      PROVE  /\ <<e>> \o <<x, y, z>> = <<e, x, y, z>>
             /\ Left(<<e, x, y, z>>) = <<>>
             /\ Padded(<<e, x, y, z>>) = <<e, x, y, z>>
             /\ Pack(f, <<e, x, y, z>>) = Append(Append(f, <<e, x>>), <<y, z>>)
  <2>1. Len(<<e, x, y, z>>) = 4 /\ ~(4 % 2 = 1)
    OBVIOUS
  <2>2. <<e>> \o <<x, y, z>> = <<e, x, y, z>>
    BY <1>1, Literals
  <2>3. Left(<<e, x, y, z>>) = <<>> /\ Padded(<<e, x, y, z>>) = <<e, x, y, z>>
    BY <2>1 DEF Left, Padded
  <2>4. Pack(f, <<e, x, y, z>>) = Append(Append(f, <<e, x>>), <<y, z>>)
    BY <1>1, PackFour
  <2>. QED  BY <2>2, <2>3, <2>4, Zenon
<1>5. /\ Left(<<>> \o Digits(c)) = <<z>>
      /\ Pack(f, <<>> \o Digits(c)) = Append(f, <<x, y>>)
      /\ Pack(f, Padded(<<>> \o Digits(c))) = Append(Append(f, <<x, y>>), <<z, 0>>)
  BY <1>1, <1>3, Zenon
<1>6. \A e \in Digit :
        /\ Left(<<e>> \o Digits(c)) = <<>>
        /\ Padded(<<e>> \o Digits(c)) = <<e>> \o Digits(c)
        /\ Pack(f, <<e>> \o Digits(c)) = Append(Append(f, <<e, x>>), <<y, z>>)
  BY <1>1, <1>4, Zenon
<1>. QED  BY <1>5, <1>6 DEF x, y, z

\* The two operators that write a code are made of these.
LEMMA Writes ==
  ASSUME NEW c
  PROVE  /\ bw_write_code(c) <=> /\ file' = Pack(file, bw \o Digits(c))
                                 /\ bw' = Left(bw \o Digits(c))
         /\ WriteLast(c) <=> /\ file' = Pack(file, Padded(bw \o Digits(c)))
                             /\ bw' = <<>>
BY DEF bw_write_code, WriteLast, Pack, Left, Padded

-----------------------------------------------------------------------------
(* The dictionary of the encoder.                                           *)

Dicts == Seq(Strings)

\* The two halves of Matching that are about the dictionary alone.
Distinct(d) == \A i, j \in DOMAIN d : d[i] = d[j] => i = j
Rooted(d)   == \A i \in DOMAIN d : Len(d[i]) > 1 =>
                 \/ \E j \in 1 .. i - 1 : d[j] = Front(d[i])
                 \/ Foreign(Front(d[i]))

\* The positions of a dictionary, and its strings.
LEMMA DictTypes ==
  ASSUME NEW d \in Dicts
  PROVE  /\ Len(d) \in Nat /\ DOMAIN d = 1 .. Len(d)
         /\ \A i \in 1 .. Len(d) : d[i] \in Strings /\ Len(d[i]) \in Nat
<1>1. Len(d) \in Nat /\ DOMAIN d = 1 .. Len(d) /\ \A i \in 1 .. Len(d) : d[i] \in Strings
  BY LenProperties, ElementOfSeq DEF Dicts
<1>2. \A s \in Strings : Len(s) \in Nat
  BY LenProperties DEF Strings
<1>. QED  BY <1>1, <1>2

\* In a dictionary without repetitions dict_find returns the position of a string.
LEMMA FindProperties ==
  ASSUME NEW d \in Dicts, Distinct(d), NEW i \in 1 .. Len(d)
  PROVE  dict_find(d, d[i]) = i - 1
<1>1. DOMAIN d = 1 .. Len(d) /\ Len(d) \in Nat
  BY DictTypes
<1>2. \A k \in DOMAIN d : (d[k] = d[i] /\ \A j \in 1 .. k - 1 : d[j] # d[i]) <=> k = i
  <2>1. ASSUME NEW k \in DOMAIN d, d[k] = d[i] PROVE k = i
    BY <1>1, <2>1 DEF Distinct
  <2>2. \A j \in 1 .. i - 1 : j \in 1 .. Len(d) /\ j # i
    BY <1>1
  <2>3. \A j \in 1 .. i - 1 : d[j] # d[i]
    BY <1>1, <2>2 DEF Distinct
  <2>. QED  BY <2>1, <2>3
<1>. DEFINE k == CHOOSE k \in DOMAIN d : d[k] = d[i] /\ \A j \in 1 .. k - 1 : d[j] # d[i]
<1>3. k = i
  BY <1>1, <1>2
<1>4. Has(d, d[i])
  BY <1>1 DEF Has
<1>. QED  BY <1>3, <1>4 DEF dict_find

\* Without its last character a string is what it was made of.
LEMMA FrontOfAppend ==
  ASSUME NEW w \in Strings, NEW c \in Byte
  PROVE  /\ Append(w, c) \in Strings /\ Len(Append(w, c)) = Len(w) + 1
         /\ Front(Append(w, c)) = w
<1>1. /\ Append(w, c) \in Strings /\ Len(Append(w, c)) = Len(w) + 1
      /\ \A i \in 1 .. Len(w) : Append(w, c)[i] = w[i]
      /\ Len(w) \in Nat /\ \A i \in 1 .. Len(w) : w[i] \in Byte
  BY AppendProperties, LenProperties, ElementOfSeq DEF Strings
<1>. DEFINE s == Append(w, c)
<1>. HIDE DEF s
<1>2. Front(s) = SubSeq(s, 1, Len(w))
  <2>1. Len(s) - 1 = Len(w)
    BY <1>1 DEF s
  <2>. QED  BY <2>1 DEF Front
<1>3. /\ SubSeq(s, 1, Len(w)) \in Seq(Byte)
      /\ Len(SubSeq(s, 1, Len(w))) = IF 1 <= Len(w) THEN Len(w) - 1 + 1 ELSE 0
      /\ \A i \in 1 .. Len(w) - 1 + 1 : SubSeq(s, 1, Len(w))[i] = s[1 + i - 1]
  <2>1. \A i \in 1 .. Len(w) : s[i] \in Byte
    BY <1>1 DEF s
  <2>. QED  BY <1>1, <2>1, SubSeqProperties
<1>4. Len(SubSeq(s, 1, Len(w))) = Len(w)
  BY <1>1, <1>3
<1>5. \A i \in 1 .. Len(w) : SubSeq(s, 1, Len(w))[i] = w[i]
  BY <1>1, <1>3 DEF s
<1>6. SubSeq(s, 1, Len(w)) = w
  BY <1>3, <1>4, <1>5, SeqEqual DEF Strings
<1>. QED  BY <1>1, <1>2, <1>6 DEF s

\* A dictionary that lacks a string and has it but for its last byte, or could not
\* have that, may get it.
LEMMA GrowDict ==
  ASSUME NEW d \in Dicts, Distinct(d), Rooted(d),
         NEW w \in Strings, NEW c \in Byte, Has(d, w) \/ Foreign(w), ~Has(d, Append(w, c)),
         NEW e, e = Append(d, Append(w, c))
  PROVE  /\ e \in Dicts /\ Len(e) = Len(d) + 1
         /\ \A i \in 1 .. Len(d) : e[i] = d[i]
         /\ e[Len(d) + 1] = Append(w, c)
         /\ Distinct(e) /\ Rooted(e)
<1>1. Append(w, c) \in Strings /\ Front(Append(w, c)) = w
  BY FrontOfAppend
<1>2. /\ e \in Dicts /\ Len(e) = Len(d) + 1
      /\ \A i \in 1 .. Len(d) : e[i] = d[i]
      /\ e[Len(d) + 1] = Append(w, c)
  BY <1>1, AppendProperties DEF Dicts
<1>3. /\ DOMAIN d = 1 .. Len(d) /\ Len(d) \in Nat
      /\ DOMAIN e = 1 .. Len(e)
  BY <1>2, DictTypes
<1>4. ASSUME NEW i \in DOMAIN e PROVE i \in 1 .. Len(d) \/ i = Len(d) + 1
  BY <1>2, <1>3
<1>5. \A i \in 1 .. Len(d) : d[i] # Append(w, c)
  BY <1>3 DEF Has
<1>6. Distinct(e)
  <2>. SUFFICES ASSUME NEW i \in DOMAIN e, NEW j \in DOMAIN e, e[i] = e[j]
                PROVE  i = j
    BY DEF Distinct
  <2>1. CASE i \in 1 .. Len(d) /\ j \in 1 .. Len(d)
    BY <1>2, <1>3, <2>1 DEF Distinct
  <2>2. CASE i = Len(d) + 1 /\ j \in 1 .. Len(d)
    BY <1>2, <1>5, <2>2
  <2>3. CASE j = Len(d) + 1 /\ i \in 1 .. Len(d)
    BY <1>2, <1>5, <2>3
  <2>. QED  BY <1>4, <2>1, <2>2, <2>3
<1>7. Rooted(e)
  <2>. SUFFICES ASSUME NEW i \in DOMAIN e, Len(e[i]) > 1
                PROVE  \/ \E j \in 1 .. i - 1 : e[j] = Front(e[i])
                       \/ Foreign(Front(e[i]))
    BY DEF Rooted
  <2>1. CASE i \in 1 .. Len(d)
    <3>1. (\E j \in 1 .. i - 1 : d[j] = Front(d[i])) \/ Foreign(Front(d[i]))
      BY <1>2, <1>3, <2>1 DEF Rooted
    <3>2. \A j \in 1 .. i - 1 : j \in 1 .. Len(d)
      BY <1>3, <2>1
    <3>. QED  BY <1>2, <2>1, <3>1, <3>2
  <2>2. CASE i = Len(d) + 1
    <3>1. (\E j \in 1 .. Len(d) : d[j] = w) \/ Foreign(w)
      BY <1>3 DEF Has
    <3>2. \A j \in 1 .. Len(d) : j \in 1 .. i - 1
      BY <1>3, <2>2
    <3>. QED  BY <1>1, <1>2, <2>2, <3>1, <3>2
  <2>. QED  BY <1>4, <2>1, <2>2
<1>. QED  BY <1>2, <1>6, <1>7

\* What the encoder keeps: every character has its code, and what it is matching
\* is in the dictionary or a byte that is no character, whatever is lost.
Encoder ==
  /\ pc \in {"encode_first", "encode", "decode_first", "decode", "done"}
  /\ source \in Strings /\ curr \in Strings
  /\ dict \in Dicts /\ InitDictSize <= Len(dict) /\ Len(dict) <= MaxCode + 1
  /\ \A i \in 1 .. InitDictSize : dict[i] = <<i - 1>>
  /\ \A i \in 1 .. Len(dict) : Len(dict[i]) >= 1
  /\ Distinct(dict) /\ Rooted(dict)
  /\ pc = "encode" => Has(dict, curr) \/ (Foreign(curr) /\ ~Text)
  /\ pc = "encode_first" => source = <<>>
  /\ bw \in Rest /\ file \in Bytes
  /\ failures \in 0 .. MaxFailures /\ lost \in BOOLEAN
  /\ lost => failures > 0

\* The numbers.
LEMMA Sizes ==
  /\ MaxCode \in Nat /\ InitDictSize \in Nat /\ InitDictSize >= 1
  /\ InitDictSize <= MaxCode + 1
  /\ MaxInput \in Nat /\ MaxFailures \in Nat
  /\ Base \in Nat /\ Base > 1
  /\ \A i \in 1 .. InitDictSize : i - 1 \in Byte
  /\ \A c \in Chars : c + 1 \in 1 .. InitDictSize /\ (c + 1) - 1 = c
<1>1. /\ Base * Base \in Nat /\ Base * Base * Base \in Nat
      /\ Base * Base * Base >= 1 /\ Base * Base <= Base * Base * Base
  <2>1. Base \in Nat /\ Base >= 1
    BY LzwAssumption
  <2>2. Base * Base \in Nat /\ Base * Base >= 1
    BY <2>1
  <2>3. \A x \in Nat : x >= 1 => x * Base >= x /\ x * Base \in Nat
    BY <2>1
  <2>. QED  BY <2>2, <2>3
<1>2. InitDictSize \in Nat /\ InitDictSize >= 1 /\ InitDictSize <= Base * Base
  BY <1>1, LzwAssumption
<1>3. \A i \in 1 .. InitDictSize : i - 1 \in Byte
  BY <1>1, <1>2 DEF Byte
<1>4. \A c \in Chars : c + 1 \in 1 .. InitDictSize /\ (c + 1) - 1 = c
  BY <1>2 DEF Chars
<1>. QED  BY <1>1, <1>2, <1>3, <1>4, LzwAssumption DEF MaxCode

\* What is appended to a file of bytes.
LEMMA BytesAppend ==
  ASSUME NEW f \in Bytes, NEW a \in Digit, NEW b \in Digit
  PROVE  /\ Append(f, <<a, b>>) \in Bytes
         /\ Len(f) \in Nat /\ Len(Append(f, <<a, b>>)) = Len(f) + 1
         /\ \A i \in 1 .. Len(f) : Append(f, <<a, b>>)[i] = f[i]
         /\ Append(f, <<a, b>>)[Len(f) + 1] = <<a, b>>
<1>1. <<a, b>> \in Digit \X Digit
  OBVIOUS
<1>. QED  BY <1>1, AppendProperties, LenProperties DEF Bytes

\* Whatever is written, the file has bytes and less than one is left.
LEMMA PackTypes ==
  ASSUME NEW c \in 0 .. MaxCode, NEW b \in Rest, NEW f \in Bytes
  PROVE  /\ Pack(f, b \o Digits(c)) \in Bytes /\ Left(b \o Digits(c)) \in Rest
         /\ Pack(f, Padded(b \o Digits(c))) \in Bytes
<1>1. \A k \in 1 .. 3 : Digits(c)[k] \in Digit
  BY DigitsProperties
<1>2. 0 \in Digit
  BY Sizes DEF Digit
<1>3. Digits(c)[1] \in Digit /\ Digits(c)[2] \in Digit /\ Digits(c)[3] \in Digit
  BY <1>1
<1>. DEFINE x == Digits(c)[1]
            y == Digits(c)[2]
            z == Digits(c)[3]
<1>4. /\ Append(f, <<x, y>>) \in Bytes
      /\ Append(Append(f, <<x, y>>), <<z, 0>>) \in Bytes
      /\ \A e \in Digit : Append(Append(f, <<e, x>>), <<y, z>>) \in Bytes
  BY <1>2, <1>3, BytesAppend, Zenon
<1>5. /\ Left(<<>> \o Digits(c)) = <<z>>
      /\ Pack(f, <<>> \o Digits(c)) = Append(f, <<x, y>>)
      /\ Pack(f, Padded(<<>> \o Digits(c))) = Append(Append(f, <<x, y>>), <<z, 0>>)
  BY PackProperties, Zenon
<1>6. \A e \in Digit :
        /\ Left(<<e>> \o Digits(c)) = <<>>
        /\ Padded(<<e>> \o Digits(c)) = <<e>> \o Digits(c)
        /\ Pack(f, <<e>> \o Digits(c)) = Append(Append(f, <<e, x>>), <<y, z>>)
  BY PackProperties, Zenon
<1>7. z \in Digit
  BY <1>3
<1>. HIDE DEF x, y, z
<1>8. CASE b = <<>>
  BY <1>4, <1>5, <1>7, <1>8, Zenon DEF Rest
<1>9. ASSUME NEW e \in Digit, b = <<e>>
      PROVE  /\ Pack(f, b \o Digits(c)) \in Bytes /\ Left(b \o Digits(c)) \in Rest
             /\ Pack(f, Padded(b \o Digits(c))) \in Bytes
  BY <1>4, <1>6, <1>9, Zenon DEF Rest
<1>. QED  BY <1>8, <1>9 DEF Rest

\* dict_add, and what is left when it is not called or fails.
LEMMA AddProperties ==
  ASSUME Encoder, NEW c \in Byte, pc = "encode", ~Has(dict, Append(curr, c)),
         Add(Append(curr, c))
  PROVE  /\ dict' \in Dicts /\ Len(dict) <= Len(dict') /\ Len(dict') <= MaxCode + 1
         /\ \A i \in 1 .. Len(dict) : dict'[i] = dict[i]
         /\ Distinct(dict') /\ Rooted(dict')
         /\ \/ Len(dict') = Len(dict) + 1 /\ dict'[Len(dict) + 1] = Append(curr, c)
            \/ dict' = dict /\ (Len(dict) = MaxCode + 1 \/ lost')
         /\ failures' \in 0 .. MaxFailures /\ lost' \in BOOLEAN
         /\ lost' => failures' > 0
         /\ ~lost' => ~lost /\ failures' = failures
<1>1. /\ dict \in Dicts /\ Len(dict) <= MaxCode + 1 /\ Distinct(dict) /\ Rooted(dict)
      /\ Len(dict) \in Nat /\ MaxCode \in Nat /\ curr \in Strings
      /\ Has(dict, curr) \/ Foreign(curr)
  BY DictTypes, Sizes DEF Encoder
<1>2. /\ failures' \in 0 .. MaxFailures /\ lost' \in BOOLEAN
      /\ lost' => failures' > 0
      /\ ~lost' => ~lost /\ failures' = failures
  <2>1. CASE UNCHANGED memory
    BY <2>1 DEF Encoder, memory
  <2>2. CASE Fails /\ lost'
    BY <2>2, Sizes DEF Encoder, Fails
  <2>3. UNCHANGED memory \/ (Fails /\ lost')
    BY DEF Add
  <2>. QED  BY <2>1, <2>2, <2>3
<1>3. CASE dict' = Append(dict, Append(curr, c)) /\ Len(dict) <= MaxCode
  <2>1. /\ dict' \in Dicts /\ Len(dict') = Len(dict) + 1
        /\ \A i \in 1 .. Len(dict) : dict'[i] = dict[i]
        /\ dict'[Len(dict) + 1] = Append(curr, c)
        /\ Distinct(dict') /\ Rooted(dict')
    <3>1. \A d \in Dicts, w \in Strings : \A e :
            /\ Distinct(d) /\ Rooted(d) /\ (Has(d, w) \/ Foreign(w)) /\ ~Has(d, Append(w, c))
            /\ e = Append(d, Append(w, c))
            => /\ e \in Dicts /\ Len(e) = Len(d) + 1
               /\ \A i \in 1 .. Len(d) : e[i] = d[i]
               /\ e[Len(d) + 1] = Append(w, c)
               /\ Distinct(e) /\ Rooted(e)
      BY GrowDict
    <3>2. ~Has(dict, Append(curr, c)) /\ dict' = Append(dict, Append(curr, c))
      BY <1>3
    <3>3. \A e :
            e = Append(dict, Append(curr, c))
            => /\ e \in Dicts /\ Len(e) = Len(dict) + 1
               /\ \A i \in 1 .. Len(dict) : e[i] = dict[i]
               /\ e[Len(dict) + 1] = Append(curr, c)
               /\ Distinct(e) /\ Rooted(e)
      BY <1>1, <3>1, <3>2, Zenon
    <3>. HIDE <1>3
    <3>. QED  BY <3>2, <3>3, Zenon
  <2>2. Len(dict') <= MaxCode + 1 /\ Len(dict) <= Len(dict')
    BY <1>1, <1>3, <2>1
  <2>. QED  BY <1>2, <2>1, <2>2
<1>4. CASE dict' = dict /\ (Len(dict) = MaxCode + 1 \/ lost')
  BY <1>1, <1>2, <1>4
<1>5. \/ dict' = Append(dict, Append(curr, c)) /\ Len(dict) <= MaxCode
      \/ dict' = dict /\ (Len(dict) = MaxCode + 1 \/ lost')
  BY <1>1 DEF Add, dict_add
<1>. QED  BY <1>3, <1>4, <1>5

\* In a text the code that is written is that of an entry that was there before.
LEMMA EmitCode ==
  ASSUME Encoder, NEW c \in Byte, pc = "encode", ~Has(dict, Append(curr, c)),
         Add(Append(curr, c)), Text
  PROVE  \E i \in 1 .. Len(dict) : dict[i] = curr /\ dict_find(dict', curr) = i - 1
<1>1. PICK i \in 1 .. Len(dict) : dict[i] = curr
  BY DictTypes DEF Encoder, Has
<1>2. /\ dict' \in Dicts /\ Distinct(dict') /\ dict'[i] = dict[i]
      /\ Len(dict) <= Len(dict') /\ Len(dict') \in Nat /\ Len(dict) \in Nat
  BY AddProperties, DictTypes DEF Encoder
<1>3. i \in 1 .. Len(dict')
  BY <1>2
<1>4. dict_find(dict', dict'[i]) = i - 1
  BY <1>2, <1>3, FindProperties
<1>. QED  BY <1>1, <1>2, <1>4

\* So is the last one.
LEMMA LastCode ==
  ASSUME Encoder, pc = "encode", Text
  PROVE  \E i \in 1 .. Len(dict) : dict[i] = curr /\ dict_find(dict, curr) = i - 1
<1>1. PICK i \in 1 .. Len(dict) : dict[i] = curr
  BY DictTypes DEF Encoder, Has
<1>. QED  BY <1>1, FindProperties DEF Encoder

\* Whatever dict_find returns, the digits are those of some code.
LEMMA AnyCode ==
  ASSUME NEW d \in Dicts, Distinct(d), Len(d) <= MaxCode + 1, NEW w
  PROVE  \E x \in 0 .. MaxCode : Digits(dict_find(d, w)) = Digits(x)
<1>1. CASE Has(d, w)
  <2>1. PICK i \in 1 .. Len(d) : d[i] = w
    BY <1>1, DictTypes DEF Has
  <2>2. dict_find(d, w) = i - 1
    BY <2>1, FindProperties
  <2>3. i - 1 \in 0 .. MaxCode
    BY DictTypes, Sizes
  <2>. QED  BY <2>2, <2>3
<1>2. CASE ~Has(d, w)
  <2>1. dict_find(d, w) = -1
    BY <1>2 DEF dict_find
  <2>2. (-1) % (MaxCode + 1) = MaxCode /\ MaxCode % (MaxCode + 1) = MaxCode
    <3>. DEFINE K == MaxCode + 1
    <3>1. K \in Nat /\ K >= 1
      BY Sizes
    <3>2. \A k \in Nat : k >= 1 => (-1) % k = k - 1 /\ (k - 1) % k = k - 1
      OBVIOUS
    <3>. QED  BY <3>1, <3>2, Sizes
  <2>3. Digits(-1) = Digits(MaxCode)
    BY <2>2 DEF Digits
  <2>. QED  BY <2>1, <2>3, Sizes
<1>. QED  BY <1>1, <1>2

\* A source that is a text when it has grown was one before.
LEMMA TextGrows ==
  ASSUME Encoder, [Next]_vars, Text'
  PROVE  Text
<1>1. source \in Seq(Byte) /\ (pc = "encode_first" => source = <<>>)
  BY DEF Encoder, Strings
<1>2. CASE UNCHANGED source
  BY <1>2 DEF Text
<1>3. ASSUME NEW c \in Byte, source' = Append(source, c) PROVE Text
  <2>1. /\ DOMAIN source = 1 .. Len(source) /\ Len(source) \in Nat
        /\ DOMAIN source' = 1 .. Len(source) + 1
        /\ \A i \in 1 .. Len(source) : source'[i] = source[i]
    BY <1>1, <1>3, AppendProperties, LenProperties
  <2>2. \A i \in 1 .. Len(source) : i \in 1 .. Len(source) + 1
    BY <2>1
  <2>. QED  BY <2>1, <2>2 DEF Text
<1>4. CASE pc = "encode_first"
  BY <1>1, <1>4 DEF Text
<1>5. \/ UNCHANGED source
      \/ \E c \in Byte : source' = Append(source, c)
      \/ pc = "encode_first"
  BY LzwAssumption DEF Next, EncodeFirst, Extend, Emit, EncodeNothing, EncodeEnd, EncodeFails,
     EncodeDies, DecodeFirst, Decode, DecodeEnd, DecodeFails, Finished, encoder, vars
<1>. QED  BY <1>2, <1>3, <1>4, <1>5

\* The first dictionary has all characters, once.
LEMMA EncoderInit == Init => Encoder
<1>. SUFFICES ASSUME Init PROVE Encoder
  OBVIOUS
<1>1. /\ pc = "encode_first" /\ source = <<>> /\ curr = <<>> /\ dict = dict_init_ascii
      /\ bw = <<>> /\ file = <<>> /\ failures = 0 /\ lost = FALSE
  BY DEF Init
<1>2. <<>> \in Strings /\ <<>> \in Bytes /\ <<>> \in Rest
  BY EmptySeq DEF Strings, Bytes, Rest
<1>3. /\ dict \in Dicts /\ Len(dict) = InitDictSize
      /\ \A i \in 1 .. InitDictSize : dict[i] = <<i - 1>>
  <2>1. dict = [i \in 1 .. InitDictSize |-> <<i - 1>>]
    BY <1>1 DEF dict_init_ascii
  <2>2. \A i \in 1 .. InitDictSize : <<i - 1>> \in Strings
    BY Sizes DEF Strings
  <2>. QED  BY <2>1, <2>2, Sizes DEF Dicts
<1>4. \A i \in 1 .. InitDictSize : Len(dict[i]) = 1
  <2>1. \A x : Len(<<x>>) = 1
    OBVIOUS
  <2>. QED  BY <2>1, <1>3
<1>5. DOMAIN dict = 1 .. InitDictSize
  BY <1>3, DictTypes
<1>6. Distinct(dict)
  <2>1. ASSUME NEW i \in 1 .. InitDictSize, NEW j \in 1 .. InitDictSize, dict[i] = dict[j]
        PROVE  i = j
    <3>1. <<i - 1>>[1] = <<j - 1>>[1]
      BY <1>3, <2>1
    <3>. QED  BY <3>1
  <2>. QED  BY <1>5, <2>1 DEF Distinct
<1>7. Rooted(dict)
  <2>1. \A n : n = 1 => ~(n > 1)
    OBVIOUS
  <2>2. \A i \in DOMAIN dict : ~(Len(dict[i]) > 1)
    BY <1>4, <1>5, <2>1, Zenon
  <2>. QED  BY <2>2, Zenon DEF Rooted
<1>8. \A i \in 1 .. Len(dict) : Len(dict[i]) >= 1
  BY <1>3, <1>4
<1>9. InitDictSize <= Len(dict) /\ Len(dict) <= MaxCode + 1
  BY <1>3, Sizes
<1>10. failures \in 0 .. MaxFailures /\ lost \in BOOLEAN /\ ~lost
  <2>1. lost \in BOOLEAN /\ ~lost
    BY <1>1, Zenon
  <2>. QED  BY <1>1, <2>1, Sizes
<1>11. pc \in {"encode_first", "encode", "decode_first", "decode", "done"} /\ pc # "encode"
  BY <1>1
<1>. QED  BY <1>1, <1>2, <1>3, <1>6, <1>7, <1>8, <1>9, <1>10, <1>11, Zenon DEF Encoder

\* No step of the encoder or of the decoder breaks it.
LEMMA EncoderStep == Encoder /\ [Next]_vars => Encoder'
<1>. SUFFICES ASSUME Encoder, [Next]_vars PROVE Encoder'
  OBVIOUS
<1>. DEFINE Memory(f, l) == f \in 0 .. MaxFailures /\ l \in BOOLEAN /\ (l => f > 0)
<1>0. Memory(failures, lost) /\ (Fails /\ UNCHANGED lost => Memory(failures', lost'))
  BY Sizes DEF Encoder, Fails
<1>. HIDE DEF Memory
\* A step that does not touch the dictionary.
<1>a. ASSUME UNCHANGED dict, source' \in Strings, curr' \in Strings,
             pc' \in {"encode_first", "encode", "decode_first", "decode", "done"},
             pc' = "encode" => Has(dict, curr') \/ (Foreign(curr') /\ ~Text'),
             pc' = "encode_first" => source' = <<>>,
             bw' \in Rest, file' \in Bytes, Memory(failures', lost')
      PROVE  Encoder'
  <2>1. /\ dict' \in Dicts /\ InitDictSize <= Len(dict') /\ Len(dict') <= MaxCode + 1
        /\ \A i \in 1 .. InitDictSize : dict'[i] = <<i - 1>>
        /\ \A i \in 1 .. Len(dict') : Len(dict'[i]) >= 1
        /\ Distinct(dict') /\ Rooted(dict')
        /\ pc' = "encode" => Has(dict', curr') \/ (Foreign(curr') /\ ~Text')
    BY <1>a DEF Encoder
  <2>2. (Foreign(curr))' <=> Foreign(curr')
    BY DEF Foreign
  <2>. QED  BY <1>a, <2>1, <2>2 DEF Encoder, Distinct, Rooted, Has, Foreign, Memory
<1>1. ASSUME UNCHANGED encoder, Memory(failures', lost'),
             pc' \in {"decode_first", "decode", "done"}
      PROVE  Encoder'
  BY <1>1, <1>a DEF encoder, Encoder
<1>2. ASSUME NEW c \in Byte, EncodeFirst(c) PROVE Encoder'
  <2>1. /\ <<c>> \in Strings
        /\ UNCHANGED <<dict, bw, file, failures, lost>>
        /\ source' = <<c>> /\ curr' = <<c>> /\ pc' = "encode"
    BY <1>2 DEF EncodeFirst, Strings, memory
  <2>2. ASSUME c \in Chars PROVE Has(dict, <<c>>)
    <3>1. c + 1 \in 1 .. InitDictSize /\ (c + 1) - 1 = c
      BY <2>2, Sizes
    <3>2. dict[c + 1] = <<c>>
      BY <3>1 DEF Encoder
    <3>3. c + 1 \in DOMAIN dict
      BY <3>1, DictTypes, Sizes DEF Encoder
    <3>. QED  BY <3>2, <3>3 DEF Has
  <2>3. Memory(failures', lost')
    BY <1>0, <2>1
  <2>4. ASSUME c \notin Chars PROVE Foreign(curr') /\ ~Text'
    <3>1. DOMAIN <<c>> = 1 .. 1 /\ <<c>>[1] = c /\ 1 \in 1 .. 1
      OBVIOUS
    <3>. QED  BY <2>1, <2>4, <3>1 DEF Foreign, Text
  <2>. QED  BY <1>a, <2>1, <2>2, <2>3, <2>4 DEF Encoder
<1>3. ASSUME NEW c \in Byte, Extend(c) PROVE Encoder'
  <2>1. /\ UNCHANGED <<dict, bw, file, failures, lost>> /\ pc' = "encode"
        /\ source' = Append(source, c) /\ curr' = Append(curr, c)
        /\ Has(dict, Append(curr, c))
    BY <1>3 DEF Extend, memory
  <2>2. source' \in Strings /\ curr' \in Strings
    BY <2>1, AppendProperties DEF Encoder, Strings
  <2>3. Memory(failures', lost')
    BY <1>0, <2>1
  <2>. QED  BY <1>a, <2>1, <2>2, <2>3 DEF Encoder
<1>4. ASSUME NEW c \in Byte, Emit(c) PROVE Encoder'
  <2>1. /\ pc = "encode" /\ pc' = "encode" /\ ~Has(dict, Append(curr, c))
        /\ source' = Append(source, c) /\ curr' = <<c>>
        /\ Add(Append(curr, c))
        /\ bw_write_code(dict_find(dict', curr))
    BY <1>4 DEF Emit
  <2>2. source' \in Strings /\ curr' \in Strings
    BY <2>1, AppendProperties DEF Encoder, Strings
  <2>3. /\ dict' \in Dicts /\ Len(dict) <= Len(dict') /\ Len(dict') <= MaxCode + 1
        /\ \A i \in 1 .. Len(dict) : dict'[i] = dict[i]
        /\ Distinct(dict') /\ Rooted(dict')
        /\ \/ Len(dict') = Len(dict) + 1 /\ dict'[Len(dict) + 1] = Append(curr, c)
           \/ dict' = dict
        /\ Memory(failures', lost')
    BY <2>1, AddProperties DEF Memory
  <2>4. /\ Len(dict) \in Nat /\ Len(dict') \in Nat /\ InitDictSize <= Len(dict)
        /\ \A i \in 1 .. InitDictSize : dict[i] = <<i - 1>>
        /\ \A i \in 1 .. Len(dict) : Len(dict[i]) >= 1
    BY <2>3, DictTypes DEF Encoder
  <2>5. InitDictSize <= Len(dict') /\ \A i \in 1 .. InitDictSize : dict'[i] = <<i - 1>>
    <3>1. InitDictSize <= Len(dict')
      BY <2>3, <2>4, Sizes
    <3>2. ASSUME NEW i \in 1 .. InitDictSize PROVE i \in 1 .. Len(dict)
      BY <2>4, Sizes
    <3>. QED  BY <2>3, <2>4, <3>1, <3>2
  <2>6. \A i \in 1 .. Len(dict') : Len(dict'[i]) >= 1
    <3>1. Len(Append(curr, c)) >= 1
      <4>1. Len(Append(curr, c)) = Len(curr) + 1 /\ Len(curr) \in Nat
        BY FrontOfAppend, LenProperties DEF Encoder, Strings
      <4>. QED  BY <4>1
    <3>2. ASSUME NEW i \in 1 .. Len(dict') PROVE Len(dict'[i]) >= 1
      <4>1. i \in 1 .. Len(dict) \/ (i = Len(dict) + 1 /\ dict'[i] = Append(curr, c))
        BY <2>3, <2>4
      <4>. QED  BY <2>3, <2>4, <3>1, <4>1
    <3>. QED  BY <3>2
  <2>7. ASSUME c \in Chars PROVE Has(dict', curr')
    <3>1. c + 1 \in 1 .. InitDictSize /\ (c + 1) - 1 = c
      BY <2>7, Sizes
    <3>2. dict'[c + 1] = <<c>>
      BY <3>1, <2>5
    <3>3. c + 1 \in DOMAIN dict'
      BY <3>1, <2>3, <2>4, <2>5, DictTypes, Sizes
    <3>. QED  BY <2>1, <3>2, <3>3 DEF Has
  <2>8. bw' \in Rest /\ file' \in Bytes
    <3>1. PICK x \in 0 .. MaxCode : Digits(dict_find(dict', curr)) = Digits(x)
      BY <2>3, AnyCode
    <3>2. file' = Pack(file, bw \o Digits(x)) /\ bw' = Left(bw \o Digits(x))
      BY <2>1, <3>1, Writes
    <3>. QED  BY <3>2, PackTypes DEF Encoder
  <2>9. ASSUME c \notin Chars PROVE Foreign(curr') /\ ~Text'
    <3>1. /\ source' \in Seq(Byte) /\ DOMAIN source' = 1 .. Len(source) + 1
          /\ Len(source) + 1 \in 1 .. Len(source) + 1 /\ source'[Len(source) + 1] = c
      BY <2>1, AppendProperties, LenProperties DEF Encoder, Strings
    <3>. QED  BY <2>1, <2>9, <3>1 DEF Foreign, Text
  <2>10. Has(dict', curr') \/ (Foreign(curr') /\ ~Text')
    BY <2>7, <2>9
  <2>. QED  BY <2>1, <2>2, <2>3, <2>5, <2>6, <2>8, <2>10
            DEF Encoder, Memory, Distinct, Rooted, Has, Foreign
<1>5. CASE EncodeEnd
  <2>1. /\ pc = "encode" /\ pc' = "decode_first"
        /\ WriteLast(dict_find(dict, curr))
        /\ UNCHANGED <<source, dict, curr, failures, lost>>
    BY <1>5 DEF EncodeEnd, memory
  <2>2. bw' \in Rest /\ file' \in Bytes
    <3>1. PICK x \in 0 .. MaxCode : Digits(dict_find(dict, curr)) = Digits(x)
      BY AnyCode DEF Encoder
    <3>2. file' = Pack(file, Padded(bw \o Digits(x))) /\ bw' = <<>>
      BY <2>1, <3>1, Writes
    <3>. QED  BY <3>2, PackTypes DEF Encoder, Rest
  <2>3. Memory(failures', lost')
    BY <1>0, <2>1
  <2>. QED  BY <1>a, <2>1, <2>2, <2>3 DEF Encoder
<1>6. CASE EncodeDies
  <2>1. /\ Fails /\ pc' = "decode_first"
        /\ UNCHANGED <<source, dict, curr, bw, lost>>
    BY <1>6 DEF EncodeDies
  <2>2. PICK n \in 0 .. Len(file) : file' = SubSeq(file, 1, n)
    BY <1>6 DEF EncodeDies
  <2>3. file' \in Bytes
    <3>1. \A i \in 1 .. n : file[i] \in Digit \X Digit
      BY ElementOfSeq, LenProperties DEF Encoder, Bytes
    <3>. QED  BY <2>2, <3>1, SubSeqProperties DEF Bytes
  <2>4. Memory(failures', lost')
    BY <1>0, <2>1
  <2>. QED  BY <1>a, <2>1, <2>3, <2>4 DEF Encoder
<1>7. CASE EncodeNothing \/ DecodeFirst \/ Decode \/ DecodeEnd
  <2>1. /\ UNCHANGED <<encoder, failures, lost>>
        /\ pc' \in {"decode_first", "decode", "done"}
    BY <1>7 DEF EncodeNothing, DecodeFirst, Decode, DecodeEnd, memory
  <2>. QED  BY <1>0, <1>1, <2>1
<1>8. CASE EncodeFails \/ DecodeFails
  <2>1. /\ UNCHANGED <<encoder, lost>> /\ Fails
        /\ pc' \in {"decode_first", "done"}
    BY <1>8 DEF EncodeFails, DecodeFails
  <2>. QED  BY <1>0, <1>1, <2>1
<1>9. CASE Finished \/ UNCHANGED vars
  BY <1>9 DEF Finished, vars, encoder, memory, Encoder, Distinct, Rooted, Has, Foreign, Text
<1>. QED  BY <1>2, <1>3, <1>4, <1>5, <1>6, <1>7, <1>8, <1>9, LzwAssumption DEF Next

\* What encode_file is matching has a code, and only one, unless it is a byte that is
\* no character; for any file, any size of the dictionary and whatever allocation
\* fails.
THEOREM MatchingCorrect == Spec => []Matching
<1>1. Encoder => Matching
  BY DEF Encoder, Matching, Distinct, Rooted
<1>. QED  BY <1>1, EncoderInit, EncoderStep, PTL DEF Spec

-----------------------------------------------------------------------------
(* The codes in the file.                                                   *)

\* Half h of byte i is digit d of code j, if that is its place.
InFile(f, n, code) ==
  \A i \in 1 .. Len(f), h \in 1 .. 2, j \in 1 .. n, d \in 1 .. 3 :
    2 * (i - 1) + h = 3 * (j - 1) + d => f[i][h] = Digits(code[j])[d]

\* All of the codes is written but for half a byte in b.
Aligned(f, b, n, code) ==
  \/ b = <<>> /\ 2 * Len(f) = 3 * n
  \/ n >= 1 /\ b = <<Digits(code[n])[3]>> /\ 2 * Len(f) + 1 = 3 * n

\* One more byte.
LEMMA InFileAppend ==
  ASSUME NEW f \in Bytes, NEW n \in Nat, NEW code, InFile(f, n, code),
         NEW x \in Digit, NEW y \in Digit,
         \A j \in 1 .. n, d \in 1 .. 3 :
           /\ 2 * Len(f) + 1 = 3 * (j - 1) + d => x = Digits(code[j])[d]
           /\ 2 * Len(f) + 2 = 3 * (j - 1) + d => y = Digits(code[j])[d]
  PROVE  InFile(Append(f, <<x, y>>), n, code)
<1>. DEFINE g == Append(f, <<x, y>>)
<1>1. /\ Len(f) \in Nat /\ Len(g) = Len(f) + 1
      /\ \A i \in 1 .. Len(f) : g[i] = f[i]
      /\ g[Len(f) + 1] = <<x, y>>
  BY BytesAppend
<1>. HIDE DEF g
<1>2. SUFFICES ASSUME NEW i \in 1 .. Len(g), NEW h \in 1 .. 2, NEW j \in 1 .. n, NEW d \in 1 .. 3,
                      2 * (i - 1) + h = 3 * (j - 1) + d
               PROVE  g[i][h] = Digits(code[j])[d]
  BY DEF InFile, g
<1>3. CASE i \in 1 .. Len(f)
  BY <1>1, <1>2, <1>3 DEF InFile
<1>4. CASE i = Len(f) + 1
  <2>1. g[i][1] = x /\ g[i][2] = y
    BY <1>1, <1>4
  <2>2. CASE h = 1
    <3>1. 2 * Len(f) + 1 = 3 * (j - 1) + d
      BY <1>1, <1>2, <1>4, <2>2
    <3>. QED  BY <2>1, <2>2, <3>1
  <2>3. CASE h = 2
    <3>1. 2 * Len(f) + 2 = 3 * (j - 1) + d
      BY <1>1, <1>2, <1>4, <2>3
    <3>. QED  BY <2>1, <2>3, <3>1
  <2>. QED  BY <2>2, <2>3
<1>5. i \in 1 .. Len(f) \/ i = Len(f) + 1
  BY <1>1
<1>. QED  BY <1>3, <1>4, <1>5

\* One more code, the last one or not.
LEMMA FileCode ==
  ASSUME NEW f \in Bytes, NEW b \in Rest, NEW n \in Nat, NEW code,
         InFile(f, n, code), Aligned(f, b, n, code),
         NEW c \in 0 .. MaxCode, NEW more, \A j \in 1 .. n : more[j] = code[j], more[n + 1] = c
  PROVE  /\ InFile(Pack(f, b \o Digits(c)), n + 1, more)
         /\ Aligned(Pack(f, b \o Digits(c)), Left(b \o Digits(c)), n + 1, more)
         /\ InFile(Pack(f, Padded(b \o Digits(c))), n + 1, more)
         /\ 2 * Len(Pack(f, Padded(b \o Digits(c)))) \in 3 * (n + 1) .. 3 * (n + 1) + 1
<1>. DEFINE x == Digits(c)[1]
            y == Digits(c)[2]
            z == Digits(c)[3]
<1>1. x \in Digit /\ y \in Digit /\ z \in Digit /\ 0 \in Digit
  <2>1. 0 \in Digit
    BY Sizes DEF Digit
  <2>. QED  BY <2>1, DigitsProperties
<1>2. Len(f) \in Nat /\ 2 * Len(f) <= 3 * n
  BY LenProperties DEF Bytes, Aligned
<1>3. InFile(f, n + 1, more)
  <2>. SUFFICES ASSUME NEW i \in 1 .. Len(f), NEW h \in 1 .. 2, NEW j \in 1 .. n + 1,
                       NEW d \in 1 .. 3, 2 * (i - 1) + h = 3 * (j - 1) + d
                PROVE  f[i][h] = Digits(more[j])[d]
    BY DEF InFile
  <2>1. j \in 1 .. n
    BY <1>2
  <2>. QED  BY <2>1 DEF InFile
<1>4. \A d \in 1 .. 3 : Digits(more[n + 1])[d] = Digits(c)[d]
  OBVIOUS
<1>. HIDE DEF x, y, z
<1>5. CASE b = <<>> /\ 2 * Len(f) = 3 * n
  <2>. DEFINE g == Append(f, <<x, y>>)
  <2>1. g \in Bytes /\ Len(g) = Len(f) + 1
    BY <1>1, BytesAppend
  <2>2. InFile(g, n + 1, more)
    <3>1. ASSUME NEW j \in 1 .. n + 1, NEW d \in 1 .. 3
          PROVE  /\ 2 * Len(f) + 1 = 3 * (j - 1) + d => x = Digits(more[j])[d]
                 /\ 2 * Len(f) + 2 = 3 * (j - 1) + d => y = Digits(more[j])[d]
      <4>1. ASSUME 2 * Len(f) + 1 = 3 * (j - 1) + d PROVE x = Digits(more[j])[d]
        <5>1. j = n + 1 /\ d = 1
          BY <4>1, <1>5, <1>2
        <5>. QED  BY <5>1, <1>4 DEF x
      <4>2. ASSUME 2 * Len(f) + 2 = 3 * (j - 1) + d PROVE y = Digits(more[j])[d]
        <5>1. j = n + 1 /\ d = 2
          BY <4>2, <1>5, <1>2
        <5>. QED  BY <5>1, <1>4 DEF y
      <4>. QED  BY <4>1, <4>2
    <3>2. n + 1 \in Nat
      OBVIOUS
    <3>. QED  BY <3>2, <3>1, <1>1, <1>3, InFileAppend, Zenon
  <2>. HIDE DEF g
  <2>3. InFile(Append(g, <<z, 0>>), n + 1, more)
    <3>1. ASSUME NEW j \in 1 .. n + 1, NEW d \in 1 .. 3
          PROVE  /\ 2 * Len(g) + 1 = 3 * (j - 1) + d => z = Digits(more[j])[d]
                 /\ 2 * Len(g) + 2 = 3 * (j - 1) + d => 0 = Digits(more[j])[d]
      <4>1. ASSUME 2 * Len(g) + 1 = 3 * (j - 1) + d PROVE z = Digits(more[j])[d]
        <5>1. j = n + 1 /\ d = 3
          BY <4>1, <1>5, <1>2, <2>1
        <5>. QED  BY <5>1, <1>4 DEF z
      <4>2. 2 * Len(g) + 2 # 3 * (j - 1) + d
        BY <1>5, <1>2, <2>1
      <4>. QED  BY <4>1, <4>2
    <3>2. n + 1 \in Nat
      OBVIOUS
    <3>. QED  BY <3>2, <3>1, <1>1, <2>1, <2>2, InFileAppend, Zenon
  <2>4. /\ Pack(f, <<>> \o Digits(c)) = g /\ Left(<<>> \o Digits(c)) = <<z>>
        /\ Pack(f, Padded(<<>> \o Digits(c))) = Append(g, <<z, 0>>)
    BY PackProperties, Zenon DEF x, y, z, g
  <2>5. Aligned(g, <<z>>, n + 1, more)
    <3>1. 2 * Len(g) + 1 = 3 * (n + 1) /\ n + 1 >= 1
      BY <1>5, <1>2, <2>1
    <3>. QED  BY <1>4, <3>1 DEF Aligned, z
  <2>6. 2 * Len(Append(g, <<z, 0>>)) \in 3 * (n + 1) .. 3 * (n + 1) + 1
    <3>1. Len(Append(g, <<z, 0>>)) = Len(g) + 1
      BY <1>1, <2>1, BytesAppend
    <3>. QED  BY <3>1, <1>5, <1>2, <2>1
  <2>. QED  BY <1>5, <2>2, <2>3, <2>4, <2>5, <2>6, Zenon
<1>6. CASE n >= 1 /\ b = <<Digits(code[n])[3]>> /\ 2 * Len(f) + 1 = 3 * n
  <2>. DEFINE e == Digits(code[n])[3]
              g == Append(f, <<e, x>>)
  <2>0. e \in Digit
    <3>1. \A e1, e2 : <<e1>> = <<e2>> => e1 = e2
      OBVIOUS
    <3>. QED  BY <1>6, <3>1 DEF Rest
  <2>1. g \in Bytes /\ Len(g) = Len(f) + 1
    BY <1>1, <2>0, BytesAppend
  <2>2. InFile(g, n + 1, more)
    <3>1. ASSUME NEW j \in 1 .. n + 1, NEW d \in 1 .. 3
          PROVE  /\ 2 * Len(f) + 1 = 3 * (j - 1) + d => e = Digits(more[j])[d]
                 /\ 2 * Len(f) + 2 = 3 * (j - 1) + d => x = Digits(more[j])[d]
      <4>1. ASSUME 2 * Len(f) + 1 = 3 * (j - 1) + d PROVE e = Digits(more[j])[d]
        <5>1. j = n /\ d = 3
          BY <4>1, <1>6, <1>2
        <5>. QED  BY <5>1, <1>6
      <4>2. ASSUME 2 * Len(f) + 2 = 3 * (j - 1) + d PROVE x = Digits(more[j])[d]
        <5>1. j = n + 1 /\ d = 1
          BY <4>2, <1>6, <1>2
        <5>. QED  BY <5>1, <1>4 DEF x
      <4>. QED  BY <4>1, <4>2
    <3>. HIDE DEF e
    <3>2. n + 1 \in Nat
      OBVIOUS
    <3>. QED  BY <3>2, <3>1, <1>1, <1>3, <2>0, InFileAppend, Zenon
  <2>. HIDE DEF g
  <2>3. InFile(Append(g, <<y, z>>), n + 1, more)
    <3>1. ASSUME NEW j \in 1 .. n + 1, NEW d \in 1 .. 3
          PROVE  /\ 2 * Len(g) + 1 = 3 * (j - 1) + d => y = Digits(more[j])[d]
                 /\ 2 * Len(g) + 2 = 3 * (j - 1) + d => z = Digits(more[j])[d]
      <4>1. ASSUME 2 * Len(g) + 1 = 3 * (j - 1) + d PROVE y = Digits(more[j])[d]
        <5>1. j = n + 1 /\ d = 2
          BY <4>1, <1>6, <1>2, <2>1
        <5>. QED  BY <5>1, <1>4 DEF y
      <4>2. ASSUME 2 * Len(g) + 2 = 3 * (j - 1) + d PROVE z = Digits(more[j])[d]
        <5>1. j = n + 1 /\ d = 3
          BY <4>2, <1>6, <1>2, <2>1
        <5>. QED  BY <5>1, <1>4 DEF z
      <4>. QED  BY <4>1, <4>2
    <3>2. n + 1 \in Nat
      OBVIOUS
    <3>. QED  BY <3>2, <3>1, <1>1, <2>1, <2>2, InFileAppend, Zenon
  <2>4. /\ Left(<<e>> \o Digits(c)) = <<>>
        /\ Padded(<<e>> \o Digits(c)) = <<e>> \o Digits(c)
        /\ Pack(f, <<e>> \o Digits(c)) = Append(g, <<y, z>>)
    <3>. HIDE DEF e
    <3>. QED  BY <2>0, PackProperties, Zenon DEF x, y, z, g
  <2>5. Len(Append(g, <<y, z>>)) = Len(f) + 2
    <3>1. Len(Append(g, <<y, z>>)) = Len(g) + 1
      BY <1>1, <2>1, BytesAppend
    <3>. QED  BY <3>1, <2>1, <1>2
  <2>6. 2 * Len(Append(g, <<y, z>>)) = 3 * (n + 1)
    BY <2>5, <1>6, <1>2
  <2>7. Aligned(Append(g, <<y, z>>), <<>>, n + 1, more)
    BY <2>6 DEF Aligned
  <2>8. 2 * Len(Append(g, <<y, z>>)) \in 3 * (n + 1) .. 3 * (n + 1) + 1
    BY <2>6
  <2>9. b = <<e>>
    BY <1>6
  <2>. HIDE DEF e
  <2>. QED  BY <2>3, <2>4, <2>7, <2>8, <2>9, Zenon
<1>. QED  BY <1>5, <1>6 DEF Aligned

-----------------------------------------------------------------------------
(* What the encoder has written.                                            *)

Codes(n) == [1 .. n -> 0 .. MaxCode]
Cuts(n)  == [0 .. n -> Nat]

\* The text is cut into the strings of n codes, each of which was an entry when
\* it was used.
Words(d, text, n, code, cut) ==
  /\ cut[0] = 0
  /\ \A j \in 1 .. n :
       /\ code[j] < Len(d) /\ code[j] + 2 <= InitDictSize + j
       /\ At(d[code[j] + 1], text, cut[j - 1])
       /\ cut[j] = cut[j - 1] + Len(d[code[j] + 1])

\* Entry InitDictSize + j is string j with the character behind it.
Entries(d, text, n, cut) ==
  \A j \in 1 .. n : InitDictSize + j <= Len(d) =>
    /\ At(d[InitDictSize + j], text, cut[j - 1])
    /\ Len(d[InitDictSize + j]) = cut[j] - cut[j - 1] + 1

\* What is being matched is the rest of the source, and the dictionary has an
\* entry for every code.
Writing(n, code, cut) ==
  /\ At(curr, source, cut[n]) /\ cut[n] + Len(curr) = Len(source)
  /\ Len(dict) <= InitDictSize + n
  /\ ~lost => Len(dict) = MaxCode + 1 \/ Len(dict) = InitDictSize + n
  /\ Aligned(file, bw, n, code)

\* All of the source is written.
Written(n, cut) == cut[n] = Len(source) /\ 3 * n <= 2 * Len(file)

Sent(n, code, cut) ==
  /\ Words(dict, source, n, code, cut)
  /\ ~lost => /\ Entries(dict, source, n, cut)
              /\ Len(dict) = MaxCode + 1 \/ InitDictSize + n <= Len(dict) + 1
  /\ InFile(file, n, code) /\ 2 * Len(file) <= 3 * n + 1
  /\ pc = "encode_first" =>
       /\ n = 0 /\ ~lost /\ Len(dict) = InitDictSize
       /\ source = <<>> /\ bw = <<>> /\ file = <<>>
  /\ pc = "encode" => Writing(n, code, cut)
  /\ pc \in {"decode_first", "decode", "done"} /\ failures = 0 => Written(n, cut)

\* One more code and one more cut.
LEMMA OneMore ==
  ASSUME NEW n \in Nat, NEW code \in Codes(n), NEW cut \in Cuts(n),
         NEW x \in 0 .. MaxCode, NEW y \in Nat
  PROVE  \E code2 \in Codes(n + 1), cut2 \in Cuts(n + 1) :
           /\ code2[n + 1] = x /\ cut2[n + 1] = y
           /\ \A j \in 1 .. n : code2[j] = code[j]
           /\ \A j \in 0 .. n : cut2[j] = cut[j]
<1>. DEFINE code2 == [j \in 1 .. n + 1 |-> IF j = n + 1 THEN x ELSE code[j]]
            cut2  == [j \in 0 .. n + 1 |-> IF j = n + 1 THEN y ELSE cut[j]]
<1>1. \A j \in 1 .. n + 1 : j = n + 1 \/ (j \in 1 .. n /\ code[j] \in 0 .. MaxCode)
  BY DEF Codes
<1>2. \A j \in 0 .. n + 1 : j = n + 1 \/ (j \in 0 .. n /\ cut[j] \in Nat)
  BY DEF Cuts
<1>3. \A j \in 1 .. n + 1 : code2[j] \in 0 .. MaxCode
  BY <1>1
<1>4. \A j \in 0 .. n + 1 : cut2[j] \in Nat
  BY <1>2
<1>5. code2 \in Codes(n + 1)
  BY <1>3 DEF Codes
<1>6. cut2 \in Cuts(n + 1)
  BY <1>4 DEF Cuts
<1>7. code2[n + 1] = x /\ \A j \in 1 .. n : code2[j] = code[j]
  OBVIOUS
<1>8. cut2[n + 1] = y /\ \A j \in 0 .. n : cut2[j] = cut[j]
  OBVIOUS
<1>. HIDE DEF code2, cut2
<1>. QED  BY <1>5, <1>6, <1>7, <1>8, Zenon

\* The strings of the codes stay where they are when the dictionary and the text
\* grow, and one more is added.
LEMMA MoreWords ==
  ASSUME NEW d \in Dicts, NEW e \in Dicts, Len(d) <= Len(e), \A j \in 1 .. Len(d) : e[j] = d[j],
         NEW t, NEW u, \A w \in Strings, a \in Nat : At(w, t, a) => At(w, u, a),
         NEW n \in Nat, NEW code \in Codes(n), NEW cut \in Cuts(n), Words(d, t, n, code, cut),
         NEW i \in 1 .. Len(d), i < InitDictSize + n + 1, At(d[i], t, cut[n]),
         NEW code2, NEW cut2, code2[n + 1] = i - 1, cut2[n + 1] = cut[n] + Len(d[i]),
         \A j \in 1 .. n : code2[j] = code[j], \A j \in 0 .. n : cut2[j] = cut[j]
  PROVE  Words(e, u, n + 1, code2, cut2)
<1>1. /\ Len(d) \in Nat /\ Len(e) \in Nat /\ InitDictSize \in Nat
      /\ \A j \in 1 .. Len(d) : d[j] \in Strings
  BY DictTypes, Sizes
<1>2. /\ \A j \in 1 .. n : code[j] \in Nat
      /\ \A j \in 0 .. n : cut[j] \in Nat
  BY Sizes DEF Codes, Cuts
<1>3. cut2[0] = 0
  BY DEF Words
<1>4. ASSUME NEW j \in 1 .. n
      PROVE  /\ code2[j] < Len(e) /\ code2[j] + 2 <= InitDictSize + j
             /\ At(e[code2[j] + 1], u, cut2[j - 1])
             /\ cut2[j] = cut2[j - 1] + Len(e[code2[j] + 1])
  <2>1. /\ code[j] < Len(d) /\ code[j] + 2 <= InitDictSize + j
        /\ At(d[code[j] + 1], t, cut[j - 1])
        /\ cut[j] = cut[j - 1] + Len(d[code[j] + 1])
    BY DEF Words
  <2>2. j - 1 \in 0 .. n /\ j \in 0 .. n
    OBVIOUS
  <2>3. /\ code2[j] = code[j] /\ cut2[j] = cut[j] /\ cut2[j - 1] = cut[j - 1]
        /\ code[j] \in Nat /\ cut[j - 1] \in Nat
    BY <1>2, <2>2
  <2>4. code[j] + 1 \in 1 .. Len(d)
    <3>1. code[j] < Len(d) /\ code[j] \in Nat /\ Len(d) \in Nat
      BY <1>1, <2>1, <2>3
    <3>2. \A a, b \in Nat : a < b => a + 1 \in 1 .. b
      OBVIOUS
    <3>. QED  BY <3>1, <3>2
  <2>5. e[code[j] + 1] = d[code[j] + 1] /\ d[code[j] + 1] \in Strings
    BY <1>1, <2>4
  <2>6. At(d[code[j] + 1], u, cut[j - 1])
    BY <2>1, <2>3, <2>5
  <2>7. code[j] < Len(e)
    BY <1>1, <2>1, <2>3
  <2>. QED  BY <2>1, <2>3, <2>5, <2>6, <2>7
<1>5. ASSUME NEW j, j = n + 1
      PROVE  /\ code2[j] < Len(e) /\ code2[j] + 2 <= InitDictSize + j
             /\ At(e[code2[j] + 1], u, cut2[j - 1])
             /\ cut2[j] = cut2[j - 1] + Len(e[code2[j] + 1])
  <2>1. j - 1 = n /\ n \in 0 .. n /\ (i - 1) + 1 = i
    BY <1>5
  <2>2. code2[j] = i - 1 /\ cut2[j - 1] = cut[n] /\ cut[n] \in Nat
    BY <1>2, <1>5, <2>1
  <2>3. e[code2[j] + 1] = d[i] /\ d[i] \in Strings
    BY <1>1, <2>1, <2>2
  <2>4. At(d[i], u, cut[n])
    BY <2>2, <2>3
  <2>5. i - 1 < Len(e) /\ (i - 1) + 2 <= InitDictSize + j
    BY <1>1, <1>5
  <2>. QED  BY <1>5, <2>2, <2>3, <2>4, <2>5
<1>6. \A j \in 1 .. n + 1 : j \in 1 .. n \/ j = n + 1
  OBVIOUS
<1>. QED  BY <1>3, <1>4, <1>5, <1>6 DEF Words

\* Emit adds a code, and an entry if there is room.
LEMMA EmitSent ==
  ASSUME Encoder, Text, NEW n \in Nat, NEW code \in Codes(n), NEW cut \in Cuts(n), Sent(n, code, cut),
         NEW c \in Byte, Emit(c)
  PROVE  \E code2 \in Codes(n + 1), cut2 \in Cuts(n + 1) : Sent(n + 1, code2, cut2)'
<1>. DEFINE s == Append(curr, c)
<1>1. /\ pc = "encode" /\ pc' = "encode" /\ ~Has(dict, s)
      /\ source' = Append(source, c) /\ curr' = <<c>>
      /\ Add(s)
      /\ bw_write_code(dict_find(dict', curr))
  BY DEF Emit
<1>2. PICK i \in 1 .. Len(dict) : dict[i] = curr /\ dict_find(dict', curr) = i - 1
  BY <1>1, EmitCode
<1>3. /\ dict' \in Dicts /\ Len(dict) <= Len(dict') /\ Len(dict') <= MaxCode + 1
      /\ \A j \in 1 .. Len(dict) : dict'[j] = dict[j]
      /\ \/ Len(dict') = Len(dict) + 1 /\ dict'[Len(dict) + 1] = s
         \/ dict' = dict /\ (Len(dict) = MaxCode + 1 \/ lost')
      /\ ~lost' => ~lost
  BY <1>1, AddProperties
<1>4. /\ source \in Strings /\ curr \in Strings /\ dict \in Dicts
      /\ Len(source) \in Nat /\ Len(curr) \in Nat /\ Len(dict) \in Nat /\ Len(dict') \in Nat
      /\ InitDictSize <= Len(dict) /\ Len(dict) <= MaxCode + 1
      /\ bw \in Rest /\ file \in Bytes
      /\ MaxCode \in Nat /\ InitDictSize \in Nat
  BY <1>3, DictTypes, LenProperties, Sizes DEF Encoder, Strings
<1>5. /\ Words(dict, source, n, code, cut) /\ InFile(file, n, code) /\ Writing(n, code, cut)
      /\ ~lost => Entries(dict, source, n, cut)
  BY <1>1 DEF Sent
<1>6. /\ source' \in Strings /\ Len(source') = Len(source) + 1 /\ source'[Len(source) + 1] = c
      /\ s \in Strings /\ Len(s) = Len(curr) + 1
      /\ <<c>> \in Strings /\ Len(<<c>>) = 1 /\ <<c>>[1] = c
  BY <1>1, <1>4, AppendProperties DEF Strings
<1>7. i - 1 \in 0 .. MaxCode /\ i \in 1 .. Len(dict')
  BY <1>3, <1>4
<1>8. PICK code2 \in Codes(n + 1), cut2 \in Cuts(n + 1) :
        /\ code2[n + 1] = i - 1 /\ cut2[n + 1] = Len(source)
        /\ \A j \in 1 .. n : code2[j] = code[j]
        /\ \A j \in 0 .. n : cut2[j] = cut[j]
  <2>1. i - 1 \in 0 .. MaxCode /\ Len(source) \in Nat
    BY <1>4, <1>7
  <2>2. ASSUME NEW x \in 0 .. MaxCode, NEW y \in Nat
        PROVE  \E code2 \in Codes(n + 1), cut2 \in Cuts(n + 1) :
                 /\ code2[n + 1] = x /\ cut2[n + 1] = y
                 /\ \A j \in 1 .. n : code2[j] = code[j]
                 /\ \A j \in 0 .. n : cut2[j] = cut[j]
    BY OneMore, SMTT(30)
  <2>. HIDE DEF s
  <2>. QED  BY <2>1, <2>2
<1>. HIDE DEF s
<1>9. \A w \in Strings, a \in Nat : At(w, source, a) => At(w, source', a)
  BY <1>1, <1>4, AtLonger
<1>10. /\ At(curr, source, cut[n]) /\ cut[n] + Len(curr) = Len(source) /\ cut[n] \in Nat
       /\ Len(dict) <= InitDictSize + n
       /\ ~lost => Len(dict) = MaxCode + 1 \/ Len(dict) = InitDictSize + n
       /\ Aligned(file, bw, n, code)
  <2>1. cut[n] \in Nat
    BY DEF Cuts
  <2>. QED  BY <1>5, <2>1 DEF Writing
<1>11. Words(dict', source', n + 1, code2, cut2)
  <2>1. i < InitDictSize + n + 1 /\ At(dict[i], source, cut[n])
    BY <1>2, <1>4, <1>10
  <2>2. cut2[n + 1] = cut[n] + Len(dict[i])
    BY <1>2, <1>8, <1>10
  <2>. QED  BY <1>3, <1>4, <1>5, <1>8, <1>9, <2>1, <2>2, MoreWords
<1>12. ~lost' => Entries(dict', source', n + 1, cut2)
  <2>. SUFFICES ASSUME ~lost', NEW j \in 1 .. n + 1, InitDictSize + j <= Len(dict')
                PROVE  /\ At(dict'[InitDictSize + j], source', cut2[j - 1])
                       /\ Len(dict'[InitDictSize + j]) = cut2[j] - cut2[j - 1] + 1
    BY DEF Entries
  <2>1. ~lost
    BY <1>3
  <2>2. CASE InitDictSize + j <= Len(dict)
    <3>1. j \in 1 .. n
      BY <1>4, <1>10, <2>2
    <3>2. /\ At(dict[InitDictSize + j], source, cut[j - 1])
          /\ Len(dict[InitDictSize + j]) = cut[j] - cut[j - 1] + 1
      BY <1>5, <2>1, <2>2, <3>1 DEF Entries
    <3>3. InitDictSize + j \in 1 .. Len(dict)
      BY <1>4, <2>2
    <3>4. dict'[InitDictSize + j] = dict[InitDictSize + j] /\ dict[InitDictSize + j] \in Strings
      BY <1>3, <1>4, <3>3, DictTypes
    <3>5. j \in 0 .. n /\ j - 1 \in 0 .. n
      BY <3>1
    <3>6. cut2[j] = cut[j] /\ cut2[j - 1] = cut[j - 1] /\ cut[j - 1] \in Nat
      BY <1>8, <3>5 DEF Cuts
    <3>7. At(dict[InitDictSize + j], source', cut[j - 1])
      BY <1>9, <3>2, <3>4, <3>6
    <3>. QED  BY <3>2, <3>4, <3>6, <3>7
  <2>3. CASE InitDictSize + j > Len(dict)
    <3>1. /\ Len(dict') = Len(dict) + 1 /\ dict'[Len(dict) + 1] = s
      BY <1>3, <1>4, <2>3
    <3>2. InitDictSize + j = Len(dict) + 1
      BY <1>4, <2>3, <3>1
    <3>3. j = n + 1
      <4>1. Len(dict) # MaxCode + 1
        BY <1>3, <1>4, <3>1
      <4>2. Len(dict) = InitDictSize + n
        BY <1>10, <2>1, <4>1
      <4>. QED  BY <1>4, <3>2, <4>2
    <3>4. At(s, source', cut[n])
      BY <1>1, <1>4, <1>10, AtEnd DEF s
    <3>5. cut2[j] = Len(source) /\ cut2[j - 1] = cut[n]
      <4>1. j - 1 = n /\ n \in 0 .. n
        BY <3>3
      <4>. QED  BY <1>8, <3>3, <4>1
    <3>6. Len(source) - cut[n] + 1 = Len(curr) + 1
      <4>1. cut[n] \in Nat /\ Len(curr) \in Nat /\ Len(source) \in Nat
        BY <1>4, <1>10, Zenon
      <4>2. cut[n] + Len(curr) = Len(source)
        BY <1>10, Zenon
      <4>3. ASSUME NEW a \in Nat, NEW b \in Nat, NEW l \in Nat, a + b = l
            PROVE  l - a + 1 = b + 1
        BY <4>3
      <4>. QED  BY <4>1, <4>2, <4>3
    <3>. QED  BY <1>6, <3>1, <3>2, <3>4, <3>5, <3>6
  <2>. QED  BY <1>4, <2>2, <2>3
<1>13. ~lost' => Len(dict') = MaxCode + 1 \/ Len(dict') = InitDictSize + (n + 1)
  BY <1>3, <1>4, <1>10
<1>14. ~lost' => Len(dict') = MaxCode + 1 \/ InitDictSize + (n + 1) <= Len(dict') + 1
  BY <1>4, <1>13
<1>16. /\ InFile(file', n + 1, code2) /\ Aligned(file', bw', n + 1, code2)
  <2>1. file' = Pack(file, bw \o Digits(i - 1)) /\ bw' = Left(bw \o Digits(i - 1))
    BY <1>1, <1>2, Writes
  <2>2. \A j \in 1 .. n : code2[j] = code[j]
    BY <1>8
  <2>. QED  BY <1>4, <1>5, <1>7, <1>8, <1>10, <2>1, <2>2, FileCode
<1>17. Writing(n + 1, code2, cut2)'
  <2>1. At(<<c>>, source', Len(source))
    <3>1. \A k \in 1 .. 1 : k = 1
      OBVIOUS
    <3>. QED  BY <1>4, <1>6, <3>1 DEF At
  <2>2. Len(source) + Len(<<c>>) = Len(source')
    BY <1>4, <1>6
  <2>3. Len(dict') <= InitDictSize + (n + 1)
    BY <1>3, <1>4, <1>10
  <2>4. At(curr', source', cut2[n + 1]) /\ cut2[n + 1] + Len(curr') = Len(source')
    BY <1>1, <1>8, <2>1, <2>2
  <2>. QED  BY <1>13, <1>16, <2>3, <2>4, Zenon DEF Writing
<1>18. 2 * Len(file') <= 3 * (n + 1) + 1
  <2>1. Len(file') \in Nat
    BY EncoderStep, LenProperties DEF Next, Encoder, Bytes
  <2>. QED  BY <1>16, <2>1 DEF Aligned
<1>19. Sent(n + 1, code2, cut2)'
  BY <1>1, <1>11, <1>12, <1>14, <1>16, <1>17, <1>18 DEF Sent
<1>. QED  BY <1>8, <1>19

\* Extend leaves the codes and the dictionary alone.
LEMMA ExtendSent ==
  ASSUME Encoder, Text, NEW n \in Nat, NEW code \in Codes(n), NEW cut \in Cuts(n), Sent(n, code, cut),
         NEW c \in Byte, Extend(c)
  PROVE  Sent(n, code, cut)'
<1>1. /\ pc = "encode" /\ pc' = "encode"
      /\ source' = Append(source, c) /\ curr' = Append(curr, c)
      /\ UNCHANGED <<dict, bw, file, failures, lost>>
  BY DEF Extend, memory
<1>2. /\ source \in Strings /\ curr \in Strings /\ dict \in Dicts
      /\ Len(source) \in Nat /\ Len(curr) \in Nat /\ Len(dict) \in Nat
      /\ InitDictSize \in Nat
  BY DictTypes, LenProperties, Sizes DEF Encoder, Strings
<1>3. /\ Words(dict, source, n, code, cut) /\ Writing(n, code, cut)
      /\ ~lost => Entries(dict, source, n, cut)
      /\ ~lost => Len(dict) = MaxCode + 1 \/ InitDictSize + n <= Len(dict) + 1
      /\ InFile(file, n, code) /\ 2 * Len(file) <= 3 * n + 1
  BY <1>1 DEF Sent
<1>4. \A w \in Strings, a \in Nat : At(w, source, a) => At(w, source', a)
  BY <1>1, <1>2, AtLonger
<1>5. \A j \in 0 .. n : cut[j] \in Nat
  BY DEF Cuts
<1>6. \A j \in 1 .. n : j - 1 \in 0 .. n
  OBVIOUS
<1>7. \A j \in 1 .. Len(dict) : dict[j] \in Strings
  BY <1>2, DictTypes
<1>8. Words(dict, source', n, code, cut)
  <2>1. ASSUME NEW j \in 1 .. n PROVE At(dict[code[j] + 1], source', cut[j - 1])
    <3>1. code[j] < Len(dict) /\ code[j] \in Nat /\ At(dict[code[j] + 1], source, cut[j - 1])
      BY <1>3, Sizes DEF Words, Codes
    <3>2. \A a, b \in Nat : a < b => a + 1 \in 1 .. b
      OBVIOUS
    <3>3. code[j] + 1 \in 1 .. Len(dict)
      BY <1>2, <3>1, <3>2
    <3>4. dict[code[j] + 1] \in Strings /\ cut[j - 1] \in Nat
      BY <1>5, <1>6, <1>7, <3>3
    <3>. QED  BY <1>4, <3>1, <3>4
  <2>. QED  BY <1>3, <2>1 DEF Words
<1>9. ~lost => Entries(dict, source', n, cut)
  <2>1. ASSUME ~lost, NEW j \in 1 .. n, InitDictSize + j <= Len(dict)
        PROVE  /\ At(dict[InitDictSize + j], source', cut[j - 1])
               /\ Len(dict[InitDictSize + j]) = cut[j] - cut[j - 1] + 1
    <3>1. /\ At(dict[InitDictSize + j], source, cut[j - 1])
          /\ Len(dict[InitDictSize + j]) = cut[j] - cut[j - 1] + 1
      BY <1>3, <2>1 DEF Entries
    <3>2. InitDictSize + j \in 1 .. Len(dict)
      BY <1>2, <2>1
    <3>3. dict[InitDictSize + j] \in Strings /\ cut[j - 1] \in Nat
      BY <1>5, <1>6, <1>7, <3>2
    <3>. QED  BY <1>4, <3>1, <3>3
  <2>. QED  BY <2>1 DEF Entries
<1>10. At(Append(curr, c), source', cut[n]) /\ cut[n] + Len(Append(curr, c)) = Len(source')
  <2>1. At(curr, source, cut[n]) /\ cut[n] + Len(curr) = Len(source) /\ cut[n] \in Nat
    BY <1>3, <1>5 DEF Writing
  <2>2. Len(Append(curr, c)) = Len(curr) + 1 /\ Len(source') = Len(source) + 1
    BY <1>1, <1>2, FrontOfAppend
  <2>3. cut[n] + (Len(curr) + 1) = Len(source) + 1
    BY <1>2, <2>1
  <2>. QED  BY <1>1, <1>2, <2>1, <2>2, <2>3, AtEnd
<1>11. Writing(n, code, cut)'
  BY <1>1, <1>3, <1>10 DEF Writing
<1>. QED  BY <1>1, <1>3, <1>8, <1>9, <1>11 DEF Sent

\* EncodeEnd writes the last code.
LEMMA EndSent ==
  ASSUME Encoder, Text, NEW n \in Nat, NEW code \in Codes(n), NEW cut \in Cuts(n), Sent(n, code, cut),
         EncodeEnd
  PROVE  \E code2 \in Codes(n + 1), cut2 \in Cuts(n + 1) : Sent(n + 1, code2, cut2)'
<1>1. /\ pc = "encode" /\ pc' = "decode_first"
      /\ WriteLast(dict_find(dict, curr))
      /\ UNCHANGED <<source, dict, curr, failures, lost>>
  BY DEF EncodeEnd, memory
<1>2. PICK i \in 1 .. Len(dict) : dict[i] = curr /\ dict_find(dict, curr) = i - 1
  BY <1>1, LastCode
<1>3. /\ source \in Strings /\ curr \in Strings /\ dict \in Dicts
      /\ Len(source) \in Nat /\ Len(curr) \in Nat /\ Len(dict) \in Nat
      /\ InitDictSize <= Len(dict) /\ Len(dict) <= MaxCode + 1
      /\ bw \in Rest /\ file \in Bytes
      /\ MaxCode \in Nat /\ InitDictSize \in Nat
  BY DictTypes, LenProperties, Sizes DEF Encoder, Strings
<1>4. /\ Words(dict, source, n, code, cut) /\ InFile(file, n, code) /\ Writing(n, code, cut)
      /\ ~lost => Entries(dict, source, n, cut)
  BY <1>1 DEF Sent
<1>5. i - 1 \in 0 .. MaxCode
  BY <1>3
<1>6. PICK code2 \in Codes(n + 1), cut2 \in Cuts(n + 1) :
        /\ code2[n + 1] = i - 1 /\ cut2[n + 1] = Len(source)
        /\ \A j \in 1 .. n : code2[j] = code[j]
        /\ \A j \in 0 .. n : cut2[j] = cut[j]
  <2>1. Len(source) \in Nat
    BY <1>3
  <2>2. ASSUME NEW x \in 0 .. MaxCode, NEW y \in Nat
        PROVE  \E code2 \in Codes(n + 1), cut2 \in Cuts(n + 1) :
                 /\ code2[n + 1] = x /\ cut2[n + 1] = y
                 /\ \A j \in 1 .. n : code2[j] = code[j]
                 /\ \A j \in 0 .. n : cut2[j] = cut[j]
    BY OneMore, SMTT(30)
  <2>. QED  BY <1>5, <2>1, <2>2
<1>7. /\ At(curr, source, cut[n]) /\ cut[n] + Len(curr) = Len(source) /\ cut[n] \in Nat
      /\ Len(dict) <= InitDictSize + n
      /\ ~lost => Len(dict) = MaxCode + 1 \/ Len(dict) = InitDictSize + n
      /\ Aligned(file, bw, n, code)
  <2>1. cut[n] \in Nat
    BY DEF Cuts
  <2>. QED  BY <1>4, <2>1 DEF Writing
<1>8. Words(dict, source, n + 1, code2, cut2)
  <2>1. i < InitDictSize + n + 1 /\ At(dict[i], source, cut[n])
    BY <1>2, <1>3, <1>7
  <2>2. cut2[n + 1] = cut[n] + Len(dict[i])
    BY <1>2, <1>6, <1>7
  <2>3. Len(dict) <= Len(dict)
    BY <1>3
  <2>. QED  BY <1>3, <1>4, <1>6, <2>1, <2>2, <2>3, MoreWords
<1>9. ~lost => Entries(dict, source, n + 1, cut2)
  <2>. SUFFICES ASSUME ~lost, NEW j \in 1 .. n + 1, InitDictSize + j <= Len(dict)
                PROVE  /\ At(dict[InitDictSize + j], source, cut2[j - 1])
                       /\ Len(dict[InitDictSize + j]) = cut2[j] - cut2[j - 1] + 1
    BY DEF Entries
  <2>1. j \in 1 .. n /\ j \in 0 .. n /\ j - 1 \in 0 .. n
    BY <1>3, <1>7
  <2>2. cut2[j] = cut[j] /\ cut2[j - 1] = cut[j - 1]
    BY <1>6, <2>1
  <2>. QED  BY <1>4, <2>1, <2>2 DEF Entries
<1>10. ~lost => Len(dict) = MaxCode + 1 \/ InitDictSize + (n + 1) <= Len(dict) + 1
  BY <1>3, <1>7
<1>11. /\ InFile(file', n + 1, code2) /\ 2 * Len(file') \in 3 * (n + 1) .. 3 * (n + 1) + 1
  <2>1. file' = Pack(file, Padded(bw \o Digits(i - 1)))
    BY <1>1, <1>2, Writes
  <2>2. \A j \in 1 .. n : code2[j] = code[j]
    BY <1>6
  <2>. QED  BY <1>3, <1>4, <1>5, <1>6, <1>7, <2>1, <2>2, FileCode
<1>12. Written(n + 1, cut2)'
  BY <1>1, <1>6, <1>11 DEF Written
<1>13. Sent(n + 1, code2, cut2)'
  BY <1>1, <1>8, <1>9, <1>10, <1>11, <1>12 DEF Sent
<1>. QED  BY <1>6, <1>13

\* With the codes written, nothing changes them any more.
LEMMA DecoderSent ==
  ASSUME NEW n \in Nat, NEW code \in Codes(n), NEW cut \in Cuts(n), Sent(n, code, cut),
         UNCHANGED <<encoder, lost>>, failures' = 0 => failures = 0,
         pc \in {"decode_first", "decode", "done"}, pc' \in {"decode_first", "decode", "done"}
  PROVE  Sent(n, code, cut)'
BY DEF Sent, encoder, Written

\* Every step of the encoder leaves the file and the dictionary with one list of
\* codes that explains both.
LEMMA EncoderSent ==
  ASSUME Encoder, Text, NEW n \in Nat, NEW code \in Codes(n), NEW cut \in Cuts(n), Sent(n, code, cut),
         \/ \E c \in Input : EncodeFirst(c) \/ Extend(c) \/ Emit(c)
         \/ EncodeNothing \/ EncodeEnd \/ EncodeFails \/ EncodeDies
  PROVE  \E k \in Nat : \E code2 \in Codes(k), cut2 \in Cuts(k) : Sent(k, code2, cut2)'
<1>1. /\ Words(dict, source, n, code, cut)
      /\ ~lost => Entries(dict, source, n, cut)
      /\ ~lost => Len(dict) = MaxCode + 1 \/ InitDictSize + n <= Len(dict) + 1
      /\ InFile(file, n, code) /\ 2 * Len(file) <= 3 * n + 1
      /\ pc = "encode_first" =>
           /\ n = 0 /\ ~lost /\ Len(dict) = InitDictSize
           /\ source = <<>> /\ bw = <<>> /\ file = <<>>
  BY DEF Sent
<1>2. failures \in Nat /\ Len(<<>>) = 0 /\ InitDictSize \in Nat /\ MaxCode \in Nat /\ n + 1 \in Nat
  BY RestProperties, Sizes DEF Encoder
<1>3. ASSUME NEW c \in Byte, EncodeFirst(c) PROVE Sent(n, code, cut)'
  <2>1. /\ pc = "encode_first" /\ pc' = "encode" /\ source' = <<c>> /\ curr' = <<c>>
        /\ UNCHANGED <<dict, bw, file, failures, lost>>
    BY <1>3 DEF EncodeFirst, memory
  <2>2. n = 0 /\ cut[0] = 0
    BY <1>1, <2>1 DEF Words
  <2>3. Words(dict, <<c>>, 0, code, cut) /\ Entries(dict, <<c>>, 0, cut)
    BY <2>2 DEF Words, Entries
  <2>4. At(<<c>>, <<c>>, 0)
    <3>1. Len(<<c>>) = 1 /\ \A k \in 1 .. 1 : k = 1 /\ 0 + k = 1
      OBVIOUS
    <3>. QED  BY <3>1 DEF At
  <2>5. 0 + Len(<<c>>) = Len(<<c>>)
    OBVIOUS
  <2>6. Aligned(file, bw, 0, code)
    BY <1>1, <1>2, <2>1 DEF Aligned
  <2>7. Writing(n, code, cut)'
    BY <1>1, <1>2, <2>1, <2>2, <2>4, <2>5, <2>6 DEF Writing
  <2>. QED  BY <1>1, <2>1, <2>2, <2>3, <2>7 DEF Sent
<1>4. CASE EncodeNothing \/ EncodeFails
  <2>1. /\ pc = "encode_first" /\ pc' = "decode_first"
        /\ UNCHANGED <<source, dict, curr, bw, file, lost>>
    BY <1>4 DEF EncodeNothing, EncodeFails, encoder, memory
  <2>2. n = 0 /\ cut[0] = 0
    BY <1>1, <2>1 DEF Words
  <2>3. Written(n, cut)
    BY <1>1, <1>2, <2>1, <2>2 DEF Written
  <2>4. Sent(n, code, cut)'
    BY <1>1, <2>1, <2>3 DEF Sent, Written
  <2>. QED  BY <2>4
<1>5. CASE EncodeDies
  <2>1. /\ pc = "encode" /\ pc' = "decode_first" /\ failures' # 0
        /\ UNCHANGED <<source, dict, curr, bw, lost>>
    BY <1>2, <1>5 DEF EncodeDies, Fails
  <2>2. PICK k \in 0 .. Len(file) : file' = SubSeq(file, 1, k)
    BY <1>5 DEF EncodeDies
  <2>3. Len(file) \in Nat /\ \A i \in 1 .. Len(file) : file[i] \in Digit \X Digit
    BY LenProperties, ElementOfSeq DEF Encoder, Bytes
  <2>4. Len(file') = k /\ \A i \in 1 .. k : file'[i] = file[i]
    BY <2>2, <2>3 DEF Encoder, Bytes
  <2>5. InFile(file', n, code)
    BY <1>1, <2>3, <2>4 DEF InFile
  <2>6. 2 * Len(file') <= 3 * n + 1
    BY <1>1, <2>3, <2>4
  <2>7. Sent(n, code, cut)'
    BY <1>1, <2>1, <2>5, <2>6 DEF Sent
  <2>. QED  BY <2>7
<1>6. ASSUME NEW c \in Byte, Emit(c)
      PROVE  \E k \in Nat : \E code2 \in Codes(k), cut2 \in Cuts(k) : Sent(k, code2, cut2)'
  BY <1>2, <1>6, EmitSent
<1>7. ASSUME EncodeEnd
      PROVE  \E k \in Nat : \E code2 \in Codes(k), cut2 \in Cuts(k) : Sent(k, code2, cut2)'
  BY <1>2, <1>7, EndSent
<1>8. ASSUME NEW c \in Byte, Extend(c) PROVE Sent(n, code, cut)'
  BY <1>8, ExtendSent
<1>. QED  BY <1>3, <1>4, <1>5, <1>6, <1>7, <1>8, LzwAssumption

-----------------------------------------------------------------------------
(* What the decoder reads.                                                  *)

\* The reader has read m codes, and maybe the first digit of the next one.
Reader(b, p, m, n, code) ==
  \/ b = <<>> /\ 2 * p = 3 * m
  \/ \E e \in Digit : /\ b = <<e>> /\ 2 * p = 3 * m + 1
                      /\ m < n => e = Digits(code[m + 1])[1]

\* A byte is two digits.
LEMMA ByteDigits ==
  ASSUME NEW u \in Digit \X Digit
  PROVE  u \in Seq(Digit) /\ Len(u) = 2 /\ u[1] \in Digit /\ u[2] \in Digit
<1>1. PICK a \in Digit, b \in Digit : u = <<a, b>>
  OBVIOUS
<1>2. <<a, b>> \in Seq(Digit) /\ Len(<<a, b>>) = 2 /\ <<a, b>>[1] = a /\ <<a, b>>[2] = b
  OBVIOUS
<1>. QED  BY <1>1, <1>2

\* What is ahead of the reader when it has to read two bytes.
LEMMA AheadTwo ==
  ASSUME NEW u \in Digit \X Digit, NEW v \in Digit \X Digit
  PROVE  /\ (u \o v)[1] = u[1] /\ (u \o v)[2] = u[2] /\ (u \o v)[3] = v[1]
         /\ SubSeq(u \o v, 4, Len(u \o v)) = <<v[2]>>
<1>. DEFINE x == u \o v
<1>1. /\ u \in Seq(Digit) /\ Len(u) = 2 /\ v \in Seq(Digit) /\ Len(v) = 2 /\ v[2] \in Digit
  BY ByteDigits
<1>2. /\ x \in Seq(Digit) /\ Len(x) = Len(u) + Len(v)
      /\ \A i \in 1 .. Len(u) + Len(v) : x[i] = IF i <= Len(u) THEN u[i] ELSE v[i - Len(u)]
  BY <1>1, ConcatProperties
<1>. HIDE DEF x
<1>3. Len(x) = 4 /\ \A i \in 1 .. 4 : x[i] = IF i <= 2 THEN u[i] ELSE v[i - 2]
  BY <1>1, <1>2
<1>4. x[1] = u[1] /\ x[2] = u[2] /\ x[3] = v[1] /\ x[4] = v[2]
  BY <1>3
<1>5. SubSeq(x, 4, 4) = <<x[4]>>
  <2>1. SubSeq(x, 4, 4) = [i \in 1 .. 1 |-> x[4]]
    BY <1>2
  <2>2. <<x[4]>> = [i \in 1 .. 1 |-> x[4]]
    OBVIOUS
  <2>. QED  BY <2>1, <2>2
<1>6. SubSeq(x, 4, Len(x)) = <<v[2]>>
  BY <1>3, <1>4, <1>5
<1>. QED  BY <1>4, <1>6 DEF x

\* The same when it has a digit and reads one byte.
LEMMA AheadOne ==
  ASSUME NEW e \in Digit, NEW u \in Digit \X Digit
  PROVE  /\ (<<e>> \o u)[1] = e /\ (<<e>> \o u)[2] = u[1] /\ (<<e>> \o u)[3] = u[2]
         /\ SubSeq(<<e>> \o u, 4, Len(<<e>> \o u)) = <<>>
<1>. DEFINE w == <<e>>
            x == w \o u
<1>1. w \in Seq(Digit) /\ Len(w) = 1 /\ w[1] = e
  OBVIOUS
<1>2. u \in Seq(Digit) /\ Len(u) = 2
  BY ByteDigits
<1>. HIDE DEF w
<1>3. /\ x \in Seq(Digit) /\ Len(x) = Len(w) + Len(u)
      /\ \A i \in 1 .. Len(w) + Len(u) : x[i] = IF i <= Len(w) THEN w[i] ELSE u[i - Len(w)]
  BY <1>1, <1>2, ConcatProperties
<1>. HIDE DEF x
<1>4. Len(x) = 3 /\ \A i \in 1 .. 3 : x[i] = IF i <= 1 THEN w[i] ELSE u[i - 1]
  BY <1>1, <1>2, <1>3
<1>5. x[1] = e /\ x[2] = u[1] /\ x[3] = u[2]
  BY <1>1, <1>4
<1>6. SubSeq(x, 4, 3) = <<>>
  BY <1>3
<1>7. SubSeq(x, 4, Len(x)) = <<>>
  BY <1>4, <1>6
<1>. QED  BY <1>5, <1>7 DEF x, w

\* br_read_code reads the codes that were written, in their order.
LEMMA ReadCode ==
  ASSUME NEW n \in Nat, NEW code \in Codes(n), file \in Bytes, InFile(file, n, code),
         2 * Len(file) <= 3 * n + 1,
         NEW m \in Nat, br \in Rest, pos \in 0 .. Len(file), Reader(br, pos, m, n, code), MoreCode
  PROVE  /\ m < n /\ NextCode = code[m + 1]
         /\ br_read_code =>
              br' \in Rest /\ pos' \in 0 .. Len(file) /\ Reader(br', pos', m + 1, n, code)
<1>1. /\ Len(file) \in Nat /\ pos \in Nat
      /\ \A i \in 1 .. Len(file) : file[i] \in Digit \X Digit
      /\ \A j \in 1 .. n : code[j] \in 0 .. MaxCode
  BY LenProperties, ElementOfSeq DEF Bytes, Codes
<1>2. \A u \in Digit \X Digit : u[1] \in Digit /\ u[2] \in Digit
  OBVIOUS
<1>3. ASSUME m < n
      PROVE  /\ code[m + 1] \in 0 .. MaxCode
             /\ \A x : x = Digits(code[m + 1]) => Number(x) = code[m + 1]
  <2>1. \A c \in 0 .. MaxCode : Number(Digits(c)) = c
    BY DigitsProperties
  <2>2. m + 1 \in 1 .. n
    BY <1>3
  <2>. QED  BY <1>1, <2>1, <2>2
<1>4. <<>> \in Rest /\ \A e \in Digit : <<e>> \in Rest /\ <<e>> # <<>>
  <2>1. \A e : <<e>> # <<>>
    OBVIOUS
  <2>. QED  BY <2>1 DEF Rest
<1>5. CASE br = <<>> /\ 2 * pos = 3 * m
  <2>. DEFINE u == file[pos + 1]
              v == file[pos + 2]
  <2>1. Need = 2 /\ pos + 2 <= Len(file) /\ Ahead = u \o v
    BY <1>5 DEF Need, MoreCode, Ahead
  <2>2. pos + 1 \in 1 .. Len(file) /\ pos + 2 \in 1 .. Len(file)
    BY <1>1, <2>1
  <2>3. u \in Digit \X Digit /\ v \in Digit \X Digit
    BY <1>1, <2>2
  <2>4. m < n /\ m + 1 \in 1 .. n
    BY <1>1, <1>5, <2>1
  <2>5. /\ u[1] = Digits(code[m + 1])[1] /\ u[2] = Digits(code[m + 1])[2]
        /\ v[1] = Digits(code[m + 1])[3]
    <3>1. /\ 2 * ((pos + 1) - 1) + 1 = 3 * ((m + 1) - 1) + 1
          /\ 2 * ((pos + 1) - 1) + 2 = 3 * ((m + 1) - 1) + 2
          /\ 2 * ((pos + 2) - 1) + 1 = 3 * ((m + 1) - 1) + 3
      BY <1>1, <1>5
    <3>. QED  BY <2>2, <2>4, <3>1 DEF InFile
  <2>6. m + 1 < n => v[2] = Digits(code[(m + 1) + 1])[1]
    <3>1. 2 * ((pos + 2) - 1) + 2 = 3 * (((m + 1) + 1) - 1) + 1
      BY <1>1, <1>5
    <3>2. m + 1 < n => (m + 1) + 1 \in 1 .. n
      OBVIOUS
    <3>. QED  BY <2>2, <3>1, <3>2 DEF InFile
  <2>. HIDE DEF u, v
  <2>7. /\ Ahead[1] = u[1] /\ Ahead[2] = u[2] /\ Ahead[3] = v[1]
        /\ SubSeq(Ahead, 4, Len(Ahead)) = <<v[2]>> /\ v[2] \in Digit
    BY <1>2, <2>1, <2>3, AheadTwo
  <2>8. NextCode = code[m + 1]
    <3>1. NextCode = Number(Digits(code[m + 1]))
      BY <2>5, <2>7 DEF NextCode, Number
    <3>. QED  BY <1>3, <2>4, <3>1
  <2>9. ASSUME br_read_code
        PROVE  br' \in Rest /\ pos' \in 0 .. Len(file) /\ Reader(br', pos', m + 1, n, code)
    <3>1. br' = <<v[2]>> /\ pos' = pos + 2
      BY <2>1, <2>7, <2>9 DEF br_read_code
    <3>2. 2 * (pos + 2) = 3 * (m + 1) + 1 /\ pos + 2 \in 0 .. Len(file)
      BY <1>1, <1>5, <2>1
    <3>3. Reader(<<v[2]>>, pos + 2, m + 1, n, code)
      BY <2>6, <2>7, <3>2 DEF Reader
    <3>. QED  BY <1>4, <2>7, <3>1, <3>2, <3>3
  <2>. QED  BY <2>4, <2>8, <2>9
<1>6. ASSUME NEW e \in Digit, br = <<e>>, 2 * pos = 3 * m + 1,
             m < n => e = Digits(code[m + 1])[1]
      PROVE  /\ m < n /\ NextCode = code[m + 1]
             /\ br_read_code =>
                  br' \in Rest /\ pos' \in 0 .. Len(file) /\ Reader(br', pos', m + 1, n, code)
  <2>. DEFINE u == file[pos + 1]
  <2>1. Need = 1 /\ pos + 1 <= Len(file) /\ Ahead = <<e>> \o u
    BY <1>4, <1>6 DEF Need, MoreCode, Ahead
  <2>2. pos + 1 \in 1 .. Len(file)
    BY <1>1, <2>1
  <2>3. u \in Digit \X Digit
    BY <1>1, <2>2
  <2>4. m < n /\ m + 1 \in 1 .. n
    BY <1>1, <1>6, <2>1
  <2>5. u[1] = Digits(code[m + 1])[2] /\ u[2] = Digits(code[m + 1])[3]
    <3>1. /\ 2 * ((pos + 1) - 1) + 1 = 3 * ((m + 1) - 1) + 2
          /\ 2 * ((pos + 1) - 1) + 2 = 3 * ((m + 1) - 1) + 3
      BY <1>1, <1>6
    <3>2. \A h \in 1 .. 2, d \in 1 .. 3 :
            2 * ((pos + 1) - 1) + h = 3 * ((m + 1) - 1) + d => u[h] = Digits(code[m + 1])[d]
      BY <2>2, <2>4 DEF InFile
    <3>3. 1 \in 1 .. 2 /\ 2 \in 1 .. 2 /\ 2 \in 1 .. 3 /\ 3 \in 1 .. 3
      OBVIOUS
    <3>. HIDE DEF u
    <3>. QED  BY <3>1, <3>2, <3>3, Zenon
  <2>. HIDE DEF u
  <2>6. /\ Ahead[1] = e /\ Ahead[2] = u[1] /\ Ahead[3] = u[2]
        /\ SubSeq(Ahead, 4, Len(Ahead)) = <<>>
    BY <2>1, <2>3, AheadOne
  <2>7. NextCode = code[m + 1]
    <3>1. NextCode = Number(Digits(code[m + 1]))
      BY <1>6, <2>4, <2>5, <2>6 DEF NextCode, Number
    <3>. QED  BY <1>3, <2>4, <3>1
  <2>8. ASSUME br_read_code
        PROVE  br' \in Rest /\ pos' \in 0 .. Len(file) /\ Reader(br', pos', m + 1, n, code)
    <3>1. br' = <<>> /\ pos' = pos + 1
      BY <2>1, <2>6, <2>8 DEF br_read_code
    <3>2. 2 * (pos + 1) = 3 * (m + 1) /\ pos + 1 \in 0 .. Len(file)
      BY <1>1, <1>6, <2>1
    <3>3. Reader(<<>>, pos + 1, m + 1, n, code)
      BY <3>2 DEF Reader
    <3>. QED  BY <1>4, <3>1, <3>2, <3>3
  <2>. QED  BY <2>4, <2>7, <2>8
<1>. QED  BY <1>5, <1>6 DEF Reader

\* When there is no other code, all that are in the file have been read.
LEMMA ReadAll ==
  ASSUME NEW n \in Nat, NEW code, file \in Bytes, 3 * n <= 2 * Len(file),
         NEW m \in 0 .. n, pos \in 0 .. Len(file), Reader(br, pos, m, n, code), ~MoreCode
  PROVE  m = n
<1>1. Len(file) \in Nat /\ pos \in Nat
  BY LenProperties DEF Bytes
<1>2. CASE br = <<>> /\ 2 * pos = 3 * m
  <2>1. ~(pos + 2 <= Len(file))
    BY <1>2 DEF MoreCode, Need
  <2>. QED  BY <1>1, <1>2, <2>1
<1>3. ASSUME NEW e, br = <<e>>, 2 * pos = 3 * m + 1 PROVE m = n
  <2>1. <<e>> # <<>>
    OBVIOUS
  <2>2. ~(pos + 1 <= Len(file))
    BY <1>3, <2>1 DEF MoreCode, Need
  <2>. QED  BY <1>1, <1>3, <2>2
<1>. QED  BY <1>2, <1>3 DEF Reader

\* Whatever is in the file, what is read from it is a code.
LEMMA ReadTypes ==
  ASSUME file \in Bytes, br \in Rest, pos \in 0 .. Len(file), MoreCode
  PROVE  /\ NextCode \in Nat
         /\ br_read_code => br' \in Rest /\ pos' \in 0 .. Len(file)
<1>1. /\ Len(file) \in Nat /\ pos \in Nat
      /\ \A i \in 1 .. Len(file) : file[i] \in Digit \X Digit
  BY LenProperties, ElementOfSeq DEF Bytes
<1>2. \A u \in Digit \X Digit : u[1] \in Digit /\ u[2] \in Digit
  OBVIOUS
<1>3. \A x, y, z \in Digit : (x * Base + y) * Base + z \in Nat
  BY Sizes DEF Digit
<1>4. <<>> \in Rest /\ \A e \in Digit : <<e>> \in Rest /\ <<e>> # <<>>
  <2>1. \A e : <<e>> # <<>>
    OBVIOUS
  <2>. QED  BY <2>1 DEF Rest
<1>5. CASE br = <<>>
  <2>. DEFINE u == file[pos + 1]
              v == file[pos + 2]
  <2>1. Need = 2 /\ pos + 2 <= Len(file) /\ Ahead = u \o v
    BY <1>5 DEF Need, MoreCode, Ahead
  <2>2. pos + 1 \in 1 .. Len(file) /\ pos + 2 \in 1 .. Len(file) /\ pos + 2 \in 0 .. Len(file)
    BY <1>1, <2>1
  <2>3. u \in Digit \X Digit /\ v \in Digit \X Digit
    BY <1>1, <2>2
  <2>. HIDE DEF u, v
  <2>4. /\ Ahead[1] \in Digit /\ Ahead[2] \in Digit /\ Ahead[3] \in Digit
        /\ SubSeq(Ahead, 4, Len(Ahead)) = <<v[2]>> /\ v[2] \in Digit
    BY <1>2, <2>1, <2>3, AheadTwo
  <2>5. NextCode \in Nat
    BY <1>3, <2>4 DEF NextCode
  <2>6. br_read_code => br' = <<v[2]>> /\ pos' = pos + 2
    BY <2>1, <2>4 DEF br_read_code
  <2>. QED  BY <1>4, <2>2, <2>4, <2>5, <2>6
<1>6. ASSUME NEW e \in Digit, br = <<e>>
      PROVE  /\ NextCode \in Nat
             /\ br_read_code => br' \in Rest /\ pos' \in 0 .. Len(file)
  <2>. DEFINE u == file[pos + 1]
  <2>1. Need = 1 /\ pos + 1 <= Len(file) /\ Ahead = <<e>> \o u
    BY <1>4, <1>6 DEF Need, MoreCode, Ahead
  <2>2. pos + 1 \in 1 .. Len(file) /\ pos + 1 \in 0 .. Len(file)
    BY <1>1, <2>1
  <2>3. u \in Digit \X Digit
    BY <1>1, <2>2
  <2>. HIDE DEF u
  <2>4. /\ Ahead[1] \in Digit /\ Ahead[2] \in Digit /\ Ahead[3] \in Digit
        /\ SubSeq(Ahead, 4, Len(Ahead)) = <<>>
    BY <1>2, <2>1, <2>3, AheadOne
  <2>5. NextCode \in Nat
    BY <1>3, <2>4 DEF NextCode
  <2>6. br_read_code => br' = <<>> /\ pos' = pos + 1
    BY <2>1, <2>4 DEF br_read_code
  <2>. QED  BY <1>4, <2>2, <2>5, <2>6
<1>. QED  BY <1>5, <1>6 DEF Rest

-----------------------------------------------------------------------------
(* What the decoder knows.                                                  *)

\* The entries of e are the first ones of d.
Beginning(e, d) == Len(e) <= Len(d) /\ \A i \in 1 .. Len(e) : e[i] = d[i]

\* The decoder before it starts.
Fresh ==
  ddict = dict_init_ascii /\ prev = <<>> /\ br = <<>> /\ pos = 0 /\ copy = <<>>

\* The variables of the decoder.
Decoder ==
  /\ ddict \in Dicts /\ InitDictSize <= Len(ddict) /\ Len(ddict) <= MaxCode + 1
  /\ \A i \in 1 .. Len(ddict) : Len(ddict[i]) >= 1
  /\ prev \in Strings /\ copy \in Strings
  /\ br \in Rest /\ pos \in 0 .. Len(file)

\* The decoder has read m of the n codes; it is one entry behind, and has written
\* the strings of the codes it has read.
Following(m, n, code, cut) ==
  /\ Reader(br, pos, m, n, code)
  /\ Len(ddict) = MaxCode + 1 \/ Len(ddict) = InitDictSize + m - 1
  /\ Len(prev) >= 1
  /\ ~lost => /\ Len(copy) = cut[m]
              /\ At(prev, source, cut[m - 1]) /\ cut[m] = cut[m - 1] + Len(prev)

\* Until the encoder is done the decoder has done nothing.
Idle == pc \in {"encode_first", "encode", "decode_first"} => Fresh

Received(n, code, cut) ==
  /\ ~lost => At(copy, source, 0) /\ Beginning(ddict, dict)
  /\ pc = "decode" => \E m \in 1 .. n : Following(m, n, code, cut)
  /\ pc = "done" /\ failures = 0 => copy = source

\* The first dictionary is the beginning of any later one.
LEMMA FirstDictionary ==
  ASSUME NEW d \in Dicts, InitDictSize <= Len(d),
         \A i \in 1 .. InitDictSize : d[i] = <<i - 1>>,
         NEW e, e = dict_init_ascii
  PROVE  /\ e \in Dicts /\ Len(e) = InitDictSize
         /\ \A i \in 1 .. Len(e) : Len(e[i]) >= 1
         /\ Beginning(e, d)
<1>1. /\ e \in Dicts /\ Len(e) = InitDictSize
      /\ \A i \in 1 .. InitDictSize : e[i] = <<i - 1>>
  <2>1. \A i \in 1 .. InitDictSize : <<i - 1>> \in Strings
    BY Sizes DEF Strings
  <2>. QED  BY <2>1, Sizes DEF dict_init_ascii, Dicts
<1>2. \A x : Len(<<x>>) >= 1
  OBVIOUS
<1>. QED  BY <1>1, <1>2 DEF Beginning

\* The empty string stands everywhere.
LEMMA AtEmpty ==
  ASSUME NEW s \in Strings
  PROVE  <<>> \in Strings /\ At(<<>>, s, 0)
<1>1. Len(s) \in Nat /\ Len(<<>>) = 0 /\ <<>> \in Strings
  BY LenProperties, EmptySeq DEF Strings
<1>. QED  BY <1>1 DEF At

\* While the encoder works the decoder has done nothing.
LEMMA FreshReceived ==
  ASSUME Encoder', Fresh', pc' \in {"encode_first", "encode", "decode_first"},
         NEW n, NEW code, NEW cut
  PROVE  Received(n, code, cut)'
<1>1. /\ ddict' \in Dicts /\ Len(ddict') = InitDictSize
      /\ \A i \in 1 .. Len(ddict') : Len(ddict'[i]) >= 1
      /\ Beginning(ddict', dict')
  BY FirstDictionary DEF Encoder, Fresh
<1>2. At(copy', source', 0)
  BY AtEmpty DEF Encoder, Fresh
<1>. QED  BY <1>1, <1>2 DEF Received

\* The string of any code is one.
LEMMA EntryTypes ==
  ASSUME Decoder, NEW x \in Nat, NEW b \in Byte
  PROVE  Entry(x, b) \in Strings /\ Len(Entry(x, b)) >= 1
<1>1. /\ Len(ddict) \in Nat /\ \A i \in 1 .. Len(ddict) : ddict[i] \in Strings
      /\ Len(prev) \in Nat
  BY DictTypes, LenProperties DEF Decoder, Strings
<1>2. CASE x < Len(ddict)
  <2>1. x + 1 \in 1 .. Len(ddict)
    BY <1>1, <1>2
  <2>. QED  BY <1>1, <1>2, <2>1 DEF Entry, Decoder
<1>3. CASE ~(x < Len(ddict))
  <2>. DEFINE y == IF prev = <<>> THEN b ELSE prev[1]
  <2>1. prev # <<>> => 1 \in 1 .. Len(prev)
    BY <1>1, EmptySeq DEF Decoder, Strings
  <2>2. y \in Byte
    BY <2>1, ElementOfSeq DEF Decoder, Strings
  <2>. HIDE DEF y
  <2>3. /\ Append(prev, y) \in Strings
        /\ Len(Append(prev, y)) = Len(prev) + 1
    BY <2>2, FrontOfAppend DEF Decoder
  <2>4. Entry(x, b) = Append(prev, y)
    BY <1>3 DEF Entry, y
  <2>5. Len(prev) + 1 >= 1
    BY <1>1
  <2>. QED  BY <2>3, <2>4, <2>5
<1>. QED  BY <1>2, <1>3

\* The string of the next code is the one that was encoded, also if its entry is
\* the one that the decoder adds next.
LEMMA EntryCorrect ==
  ASSUME Encoder, Decoder, NEW n \in Nat, NEW code \in Codes(n), NEW cut \in Cuts(n),
         Sent(n, code, cut), ~lost, Beginning(ddict, dict),
         NEW m \in 1 .. n, m < n, Following(m, n, code, cut), NEW b
  PROVE  /\ Entry(code[m + 1], b) = dict[code[m + 1] + 1]
         /\ At(Entry(code[m + 1], b), source, cut[m])
         /\ cut[m + 1] = cut[m] + Len(Entry(code[m + 1], b))
<1>. DEFINE x == code[m + 1]
            w == dict[x + 1]
<1>1. /\ x < Len(dict) /\ x + 2 <= InitDictSize + (m + 1)
      /\ At(w, source, cut[m]) /\ cut[m + 1] = cut[m] + Len(w)
  <2>1. m + 1 \in 1 .. n /\ (m + 1) - 1 = m
    OBVIOUS
  <2>. QED  BY <2>1 DEF Sent, Words
<1>2. /\ x \in 0 .. MaxCode /\ cut[m] \in Nat /\ cut[m - 1] \in Nat
      /\ Len(dict) \in Nat /\ Len(ddict) \in Nat /\ MaxCode \in Nat /\ InitDictSize \in Nat
      /\ Len(prev) \in Nat /\ Len(prev) >= 1
      /\ source \in Strings /\ prev \in Strings /\ dict \in Dicts
  <2>1. m + 1 \in 1 .. n /\ m \in 0 .. n /\ m - 1 \in 0 .. n
    OBVIOUS
  <2>2. x \in 0 .. MaxCode /\ cut[m] \in Nat /\ cut[m - 1] \in Nat
    BY <2>1 DEF Codes, Cuts
  <2>3. Len(prev) \in Nat
    BY LenProperties DEF Decoder, Strings
  <2>. QED  BY <2>2, <2>3, DictTypes, Sizes DEF Encoder, Decoder, Following
<1>. HIDE DEF x
<1>3. x + 1 \in 1 .. Len(dict)
  BY <1>1, <1>2
<1>4. w \in Strings /\ Len(w) \in Nat /\ Len(w) >= 1
  BY <1>2, <1>3, DictTypes DEF Encoder
<1>5. CASE x < Len(ddict)
  <2>1. x + 1 \in 1 .. Len(ddict)
    BY <1>2, <1>5
  <2>2. Entry(x, b) = w
    BY <1>5, <2>1 DEF Entry, Beginning
  <2>. QED  BY <1>1, <2>2 DEF x
<1>6. CASE ~(x < Len(ddict))
  <2>1. x + 1 = InitDictSize + m
    <3>1. Len(ddict) = MaxCode + 1 \/ Len(ddict) = InitDictSize + m - 1
      BY DEF Following
    <3>. QED  BY <1>1, <1>2, <1>6, <3>1
  <2>2. At(w, source, cut[m - 1]) /\ Len(w) = cut[m] - cut[m - 1] + 1
    <3>1. InitDictSize + m <= Len(dict)
      BY <1>3, <2>1
    <3>. QED  BY <2>1, <3>1 DEF Sent, Entries
  <2>3. /\ At(prev, source, cut[m - 1]) /\ cut[m] = cut[m - 1] + Len(prev)
    BY DEF Following
  <2>4. Len(w) = Len(prev) + 1
    BY <1>2, <2>2, <2>3
  <2>. HIDE DEF w
  <2>5. /\ Append(prev, w[1]) \in Strings
        /\ Len(Append(prev, w[1])) = Len(prev) + 1
        /\ At(Append(prev, w[1]), source, cut[m - 1])
    BY <1>1, <1>2, <1>4, <2>3, AtNext
  <2>6. Append(prev, w[1]) = w
    BY <1>4, <2>2, <2>4, <2>5, AtEqual
  <2>7. prev[1] = w[1]
    <3>1. 1 \in 1 .. Len(prev) /\ 1 \in 1 .. Len(w)
      BY <1>2, <1>4
    <3>. QED  BY <2>2, <2>3, <3>1 DEF At
  <2>8. prev # <<>>
    <3>1. Len(<<>>) = 0
      OBVIOUS
    <3>. QED  BY <1>2, <3>1
  <2>9. Entry(x, b) = w
    BY <1>6, <2>6, <2>7, <2>8 DEF Entry
  <2>. QED  BY <1>1, <2>9 DEF x, w
<1>. QED  BY <1>5, <1>6

\* The decoder's dictionary takes one more string until it is full.
LEMMA LearnProperties ==
  ASSUME Decoder, NEW c \in Byte, NEW d, d = Learn(Append(prev, c))
  PROVE  /\ d \in Dicts /\ InitDictSize <= Len(d) /\ Len(d) <= MaxCode + 1
         /\ \A i \in 1 .. Len(d) : Len(d[i]) >= 1
         /\ \/ Len(ddict) = MaxCode + 1 /\ d = ddict
            \/ /\ Len(d) = Len(ddict) + 1 /\ Len(ddict) <= MaxCode
               /\ \A i \in 1 .. Len(ddict) : d[i] = ddict[i]
               /\ d[Len(ddict) + 1] = Append(prev, c)
<1>1. /\ ddict \in Dicts /\ Len(ddict) \in Nat /\ InitDictSize \in Nat /\ MaxCode \in Nat
      /\ InitDictSize <= Len(ddict) /\ Len(ddict) <= MaxCode + 1 /\ Len(prev) \in Nat
      /\ \A i \in 1 .. Len(ddict) : Len(ddict[i]) >= 1
  BY DictTypes, LenProperties, Sizes DEF Decoder, Strings
<1>2. Append(prev, c) \in Strings /\ Len(Append(prev, c)) >= 1
  <2>1. Append(prev, c) \in Strings /\ Len(Append(prev, c)) = Len(prev) + 1
    BY FrontOfAppend DEF Decoder
  <2>. QED  BY <1>1, <2>1
<1>3. CASE Len(ddict) <= MaxCode
  <2>1. /\ d \in Dicts /\ Len(d) = Len(ddict) + 1
        /\ \A i \in 1 .. Len(ddict) : d[i] = ddict[i]
        /\ d[Len(ddict) + 1] = Append(prev, c)
    BY <1>1, <1>2, <1>3, AppendProperties DEF Learn, Dicts
  <2>2. ASSUME NEW i \in 1 .. Len(d) PROVE Len(d[i]) >= 1
    <3>1. i \in 1 .. Len(ddict) \/ i = Len(ddict) + 1
      BY <1>1, <2>1
    <3>. QED  BY <1>1, <1>2, <2>1, <3>1
  <2>3. InitDictSize <= Len(d) /\ Len(d) <= MaxCode + 1
    BY <1>1, <1>3, <2>1
  <2>. QED  BY <1>3, <2>1, <2>2, <2>3
<1>4. CASE ~(Len(ddict) <= MaxCode)
  <2>1. d = ddict /\ Len(ddict) = MaxCode + 1
    BY <1>1, <1>4 DEF Learn
  <2>. QED  BY <1>1, <2>1
<1>. QED  BY <1>3, <1>4

\* The decoder starts when the encoder is done.
LEMMA IdleStep == Idle /\ [Next]_vars => Idle'
<1>. SUFFICES ASSUME Idle, [Next]_vars, pc' \in {"encode_first", "encode", "decode_first"}
              PROVE  Fresh'
  BY DEF Idle
<1>1. pc \in {"encode_first", "encode", "decode_first"} /\ UNCHANGED decoder
  BY DEF Next, EncodeFirst, Extend, Emit, EncodeNothing, EncodeEnd, EncodeFails,
     EncodeDies, DecodeFirst, Decode, DecodeEnd, DecodeFails, Finished, vars, decoder
<1>. QED  BY <1>1 DEF Idle, Fresh, decoder

\* The types of the decoder, whatever is in the file.
LEMMA DecoderStep == Encoder /\ Decoder /\ Idle /\ [Next]_vars => Decoder'
<1>. SUFFICES ASSUME Encoder, Decoder, Idle, [Next]_vars PROVE Decoder'
  OBVIOUS
<1>0. UNCHANGED <<ddict, prev, br, copy>> /\ pos' \in 0 .. Len(file') => Decoder'
  BY DEF Decoder
<1>1. CASE pc \in {"encode_first", "encode"}
  <2>1. UNCHANGED decoder
    BY <1>1 DEF Next, EncodeFirst, Extend, Emit, EncodeNothing, EncodeEnd, EncodeFails,
       EncodeDies, DecodeFirst, Decode, DecodeEnd, DecodeFails, Finished, vars
  <2>2. pos' = 0
    BY <1>1, <2>1 DEF Idle, Fresh, decoder
  <2>3. Len(file') \in Nat
    BY EncoderStep, LenProperties DEF Encoder, Bytes
  <2>. QED  BY <1>0, <2>1, <2>2, <2>3 DEF decoder
<1>2. CASE DecodeFirst /\ MoreCode
  <2>1. /\ br_read_code /\ copy' = prev' /\ UNCHANGED <<ddict, file>>
        /\ prev' = IF NextCode < Len(ddict) THEN ddict[NextCode + 1] ELSE <<>>
    BY <1>2 DEF DecodeFirst, encoder
  <2>2. NextCode \in Nat /\ br' \in Rest /\ pos' \in 0 .. Len(file)
    BY <1>2, <2>1, ReadTypes DEF Encoder, Decoder
  <2>3. Len(ddict) \in Nat /\ \A i \in 1 .. Len(ddict) : ddict[i] \in Strings
    BY DictTypes DEF Decoder
  <2>4. NextCode < Len(ddict) => NextCode + 1 \in 1 .. Len(ddict)
    BY <2>2, <2>3
  <2>5. <<>> \in Strings
    BY EmptySeq DEF Strings
  <2>6. prev' \in Strings
    BY <2>1, <2>3, <2>4, <2>5
  <2>. QED  BY <2>1, <2>2, <2>6 DEF Decoder
<1>3. CASE Decode
  <2>1. PICK b \in Byte :
          /\ copy' = copy \o Entry(NextCode, b)
          /\ ddict' = Learn(Append(prev, Entry(NextCode, b)[1]))
          /\ prev' = Entry(NextCode, b)
    BY <1>3 DEF Decode
  <2>2. br_read_code /\ MoreCode /\ UNCHANGED file
    BY <1>3 DEF Decode, br_read_code, encoder
  <2>3. NextCode \in Nat /\ br' \in Rest /\ pos' \in 0 .. Len(file)
    BY <2>2, ReadTypes DEF Encoder, Decoder
  <2>. DEFINE e == Entry(NextCode, b)
  <2>4. e \in Strings /\ Len(e) >= 1
    BY <2>3, EntryTypes
  <2>. HIDE DEF e
  <2>5. e[1] \in Byte
    <3>1. Len(e) \in Nat
      BY <2>4, LenProperties DEF Strings
    <3>2. 1 \in 1 .. Len(e)
      BY <2>4, <3>1
    <3>. QED  BY <2>4, <3>2, ElementOfSeq DEF Strings
  <2>6. /\ ddict' \in Dicts /\ InitDictSize <= Len(ddict') /\ Len(ddict') <= MaxCode + 1
        /\ \A i \in 1 .. Len(ddict') : Len(ddict'[i]) >= 1
    <3>1. \A d : d = Learn(Append(prev, e[1])) =>
            /\ d \in Dicts /\ InitDictSize <= Len(d) /\ Len(d) <= MaxCode + 1
            /\ \A i \in 1 .. Len(d) : Len(d[i]) >= 1
      BY <2>5, LearnProperties
    <3>2. ddict' = Learn(Append(prev, e[1]))
      BY <2>1 DEF e
    <3>. QED  BY <3>1, <3>2, Zenon
  <2>7. copy' \in Strings
    BY <2>1, <2>4, ConcatProperties DEF Decoder, Strings, e
  <2>8. prev' = e
    BY <2>1 DEF e
  <2>. QED  BY <2>2, <2>3, <2>4, <2>6, <2>7, <2>8 DEF Decoder
<1>4. CASE DecodeFails
  <2>1. UNCHANGED <<ddict, prev, br, pos, file>>
    BY <1>4 DEF DecodeFails, encoder
  <2>2. copy' \in Strings
    <3>1. CASE UNCHANGED copy
      BY <3>1 DEF Decoder
    <3>2. ASSUME MoreCode, NEW b \in Byte, copy' = copy \o Entry(NextCode, b)
          PROVE  copy' \in Strings
      <4>1. NextCode \in Nat
        BY <3>2, ReadTypes DEF Encoder, Decoder
      <4>2. Entry(NextCode, b) \in Strings
        BY <4>1, EntryTypes
      <4>. QED  BY <3>2, <4>2, ConcatProperties DEF Decoder, Strings
    <3>. QED  BY <1>4, <3>1, <3>2 DEF DecodeFails
  <2>. QED  BY <2>1, <2>2 DEF Decoder
<1>5. CASE (DecodeFirst /\ ~MoreCode) \/ DecodeEnd \/ Finished \/ UNCHANGED vars
  BY <1>0, <1>5 DEF Decoder, DecodeFirst, DecodeEnd, Finished, vars, encoder, decoder
<1>. QED  BY <1>1, <1>2, <1>3, <1>4, <1>5 DEF Next, EncodeFirst, Extend, Emit, EncodeNothing,
              EncodeEnd, EncodeFails, EncodeDies

\* In a text the first code is that of a character.
LEMMA DecodeFirstReceived ==
  ASSUME Encoder, Decoder, Idle, NEW n \in Nat, NEW code \in Codes(n), NEW cut \in Cuts(n),
         Sent(n, code, cut), Received(n, code, cut), DecodeFirst
  PROVE  Received(n, code, cut)'
<1>1. /\ pc = "decode_first" /\ UNCHANGED <<ddict, source, dict, file, failures, lost>>
      /\ Fresh
  BY DEF DecodeFirst, Idle, encoder, memory
<1>2. Reader(br, pos, 0, n, code)
  BY <1>1 DEF Fresh, Reader
<1>3. /\ Words(dict, source, n, code, cut) /\ InFile(file, n, code) /\ 2 * Len(file) <= 3 * n + 1
      /\ failures = 0 => Written(n, cut)
  BY <1>1 DEF Sent
<1>4. ~lost => At(copy, source, 0) /\ Beginning(ddict, dict)
  BY DEF Received
<1>5. CASE MoreCode
  <2>1. /\ br_read_code /\ pc' = "decode" /\ copy' = prev'
        /\ prev' = IF NextCode < Len(ddict) THEN ddict[NextCode + 1] ELSE <<>>
    BY <1>5 DEF DecodeFirst
  <2>2. /\ 0 < n /\ NextCode = code[0 + 1]
        /\ br' \in Rest /\ pos' \in 0 .. Len(file) /\ Reader(br', pos', 0 + 1, n, code)
    BY <1>2, <1>3, <1>5, <2>1, ReadCode DEF Encoder, Decoder
  <2>3. 0 + 1 = 1 /\ 1 \in 1 .. n /\ 1 - 1 = 0
    BY <2>2
  <2>4. /\ code[1] \in Nat /\ code[1] + 2 <= InitDictSize + 1
        /\ At(dict[code[1] + 1], source, 0)
        /\ cut[1] = Len(dict[code[1] + 1])
    <3>1. /\ code[1] + 2 <= InitDictSize + 1
          /\ At(dict[code[1] + 1], source, cut[0])
          /\ cut[1] = cut[0] + Len(dict[code[1] + 1]) /\ cut[0] = 0
      BY <1>3, <2>3 DEF Words
    <3>2. code[1] \in Nat /\ cut[1] \in Nat
      BY <2>3, Sizes DEF Codes, Cuts
    <3>3. code[1] + 1 \in 1 .. Len(dict)
      <4>1. InitDictSize \in Nat /\ Len(dict) \in Nat /\ InitDictSize <= Len(dict)
        BY Sizes, DictTypes DEF Encoder
      <4>2. code[1] + 2 <= InitDictSize + 1
        BY <3>1
      <4>3. \A a, b, c \in Nat : a + 2 <= b + 1 /\ b <= c => a + 1 \in 1 .. c
        OBVIOUS
      <4>. QED  BY <3>2, <4>1, <4>2, <4>3
    <3>4. Len(dict[code[1] + 1]) \in Nat
      BY <3>3, DictTypes DEF Encoder
    <3>. QED  BY <3>1, <3>2, <3>4
  <2>5. /\ ddict \in Dicts /\ Len(ddict) = InitDictSize
        /\ \A i \in 1 .. Len(ddict) : Len(ddict[i]) >= 1
        /\ Beginning(ddict, dict)
    BY <1>1, FirstDictionary DEF Encoder, Fresh
  <2>6. code[1] + 1 \in 1 .. Len(ddict) /\ code[1] < Len(ddict)
    BY <2>4, <2>5, Sizes
  <2>7. prev' = dict[code[1] + 1] /\ prev' \in Strings /\ Len(prev') >= 1 /\ Len(prev') \in Nat
    <3>1. prev' = ddict[code[1] + 1]
      BY <2>1, <2>2, <2>3, <2>6
    <3>2. ddict[code[1] + 1] \in Strings /\ Len(ddict[code[1] + 1]) \in Nat
      BY <2>5, <2>6, DictTypes
    <3>. QED  BY <2>5, <2>6, <3>1, <3>2 DEF Beginning
  <2>8. Following(1, n, code, cut)'
    <3>1. Len(ddict) = InitDictSize + 1 - 1
      BY <2>5, Sizes
    <3>2. cut[0] = 0
      BY <1>3 DEF Words
    <3>3. Len(copy') = cut[1] /\ At(prev', source, 0) /\ cut[1] = 0 + Len(prev')
      BY <2>1, <2>4, <2>7
    <3>4. 1 - 1 = 0
      OBVIOUS
    <3>. QED  BY <1>1, <2>2, <2>3, <2>7, <3>1, <3>2, <3>3, <3>4 DEF Following
  <2>9. At(copy', source, 0)
    BY <2>1, <2>4, <2>7
  <2>. QED  BY <1>1, <2>1, <2>3, <2>5, <2>8, <2>9 DEF Received
<1>6. CASE ~MoreCode
  <2>1. pc' = "done" /\ UNCHANGED <<prev, br, pos, copy>>
    BY <1>6 DEF DecodeFirst
  <2>2. ASSUME failures = 0 PROVE copy = source
    <3>1. 0 = n
      BY <1>2, <1>3, <1>6, <2>2, ReadAll DEF Encoder, Decoder, Written
    <3>2. Len(source) = 0
      BY <1>3, <2>2, <3>1 DEF Words, Written
    <3>3. <<>> \in Strings /\ At(<<>>, source, 0) /\ Len(<<>>) = Len(source)
      BY <3>2, AtEmpty, RestProperties DEF Encoder
    <3>4. <<>> = source
      BY <3>3, AtBeginning DEF Encoder
    <3>. QED  BY <1>1, <3>4 DEF Fresh
  <2>. QED  BY <1>1, <1>4, <2>1, <2>2 DEF Received
<1>. QED  BY <1>5, <1>6

\* Every other code.
LEMMA DecodeReceived ==
  ASSUME Encoder, Decoder, NEW n \in Nat, NEW code \in Codes(n), NEW cut \in Cuts(n),
         Sent(n, code, cut), Received(n, code, cut), Decode
  PROVE  Received(n, code, cut)'
<1>0. PICK b \in Byte :
        /\ copy' = copy \o Entry(NextCode, b)
        /\ ddict' = Learn(Append(prev, Entry(NextCode, b)[1]))
        /\ prev' = Entry(NextCode, b)
  BY DEF Decode
<1>. DEFINE e == Entry(NextCode, b)
<1>1. /\ pc = "decode" /\ pc' = "decode" /\ MoreCode /\ br_read_code
      /\ copy' = copy \o e /\ ddict' = Learn(Append(prev, e[1])) /\ prev' = e
      /\ UNCHANGED <<source, dict, file, failures, lost>>
  BY <1>0 DEF Decode, encoder, memory, br_read_code
<1>. HIDE DEF e
<1>2. PICK m \in 1 .. n : Following(m, n, code, cut)
  BY <1>1 DEF Received
<1>3. /\ Words(dict, source, n, code, cut) /\ InFile(file, n, code) /\ 2 * Len(file) <= 3 * n + 1
      /\ ~lost => Entries(dict, source, n, cut)
      /\ ~lost => Len(dict) = MaxCode + 1 \/ InitDictSize + n <= Len(dict) + 1
  BY DEF Sent
<1>4. ~lost => At(copy, source, 0) /\ Beginning(ddict, dict)
  BY DEF Received
<1>5. /\ m < n /\ NextCode = code[m + 1]
      /\ br' \in Rest /\ pos' \in 0 .. Len(file) /\ Reader(br', pos', m + 1, n, code)
  <2>1. m \in Nat /\ Reader(br, pos, m, n, code)
    BY <1>2 DEF Following
  <2>. QED  BY <1>1, <1>3, <2>1, ReadCode DEF Encoder, Decoder
<1>6. /\ m + 1 \in 1 .. n /\ (m + 1) - 1 = m /\ m \in 0 .. n /\ m - 1 \in 0 .. n
      /\ NextCode \in Nat /\ cut[m] \in Nat /\ cut[m - 1] \in Nat
  <2>1. m + 1 \in 1 .. n /\ (m + 1) - 1 = m /\ m \in 0 .. n /\ m - 1 \in 0 .. n
    BY <1>5
  <2>2. code[m + 1] \in 0 .. MaxCode
    BY <2>1 DEF Codes
  <2>. QED  BY <1>5, <2>1, <2>2, Sizes DEF Cuts
<1>7. Len(prev) >= 1
  BY <1>2 DEF Following
<1>8. e \in Strings /\ Len(e) >= 1 /\ Len(e) \in Nat /\ e[1] \in Byte
  <2>1. e \in Strings /\ Len(e) >= 1
    BY <1>6, EntryTypes DEF e
  <2>2. Len(e) \in Nat
    BY <2>1, LenProperties DEF Strings
  <2>3. 1 \in 1 .. Len(e)
    BY <2>1, <2>2
  <2>. QED  BY <2>1, <2>2, <2>3, ElementOfSeq DEF Strings
<1>9. /\ ddict' \in Dicts /\ InitDictSize <= Len(ddict') /\ Len(ddict') <= MaxCode + 1
      /\ \A i \in 1 .. Len(ddict') : Len(ddict'[i]) >= 1
      /\ \/ Len(ddict) = MaxCode + 1 /\ ddict' = ddict
         \/ /\ Len(ddict') = Len(ddict) + 1 /\ Len(ddict) <= MaxCode
            /\ \A i \in 1 .. Len(ddict) : ddict'[i] = ddict[i]
            /\ ddict'[Len(ddict) + 1] = Append(prev, e[1])
  <2>1. \A d : d = Learn(Append(prev, e[1])) =>
          /\ d \in Dicts /\ InitDictSize <= Len(d) /\ Len(d) <= MaxCode + 1
          /\ \A i \in 1 .. Len(d) : Len(d[i]) >= 1
          /\ \/ Len(ddict) = MaxCode + 1 /\ d = ddict
             \/ /\ Len(d) = Len(ddict) + 1 /\ Len(ddict) <= MaxCode
                /\ \A i \in 1 .. Len(ddict) : d[i] = ddict[i]
                /\ d[Len(ddict) + 1] = Append(prev, e[1])
    BY <1>8, LearnProperties
  <2>2. ddict' = Learn(Append(prev, e[1]))
    BY <1>1
  <2>. QED  BY <2>1, <2>2, Zenon
<1>10. /\ Len(dict) \in Nat /\ Len(ddict) \in Nat /\ MaxCode \in Nat /\ InitDictSize \in Nat
       /\ Len(prev) \in Nat /\ Len(dict) <= MaxCode + 1
  BY DictTypes, LenProperties, Sizes DEF Encoder, Decoder, Strings
<1>11. ASSUME ~lost
       PROVE  /\ At(copy', source, 0) /\ Len(copy') = cut[m + 1]
              /\ At(e, source, cut[m]) /\ cut[m + 1] = cut[m] + Len(e)
              /\ Beginning(ddict', dict)
  <2>1. At(e, source, cut[m]) /\ cut[m + 1] = cut[m] + Len(e)
    BY <1>2, <1>4, <1>5, <1>11, EntryCorrect DEF e
  <2>2. /\ Len(copy) = cut[m] /\ At(prev, source, cut[m - 1])
        /\ cut[m] = cut[m - 1] + Len(prev)
    BY <1>2, <1>11 DEF Following
  <2>3. At(copy', source, 0) /\ Len(copy') = cut[m + 1]
    BY <1>1, <1>4, <1>8, <1>11, <2>1, <2>2, AtConcat DEF Encoder, Decoder
  <2>4. CASE ddict' = ddict
    BY <1>4, <1>11, <2>1, <2>3, <2>4
  <2>5. CASE /\ Len(ddict') = Len(ddict) + 1 /\ Len(ddict) <= MaxCode
             /\ \A i \in 1 .. Len(ddict) : ddict'[i] = ddict[i]
             /\ ddict'[Len(ddict) + 1] = Append(prev, e[1])
    <3>1. Len(ddict) = InitDictSize + m - 1 /\ Len(ddict) + 1 = InitDictSize + m
      <4>1. Len(ddict) = MaxCode + 1 \/ Len(ddict) = InitDictSize + m - 1
        BY <1>2 DEF Following
      <4>2. Len(ddict) <= MaxCode
        BY <2>5
      <4>. QED  BY <1>10, <4>1, <4>2
    <3>2. InitDictSize + m <= Len(dict) /\ InitDictSize + m \in 1 .. Len(dict)
      <4>1. Len(dict) = MaxCode + 1 \/ InitDictSize + n <= Len(dict) + 1
        BY <1>3, <1>11
      <4>. QED  BY <1>5, <1>10, <2>5, <3>1, <4>1
    <3>. DEFINE w == dict[InitDictSize + m]
    <3>3. At(w, source, cut[m - 1]) /\ Len(w) = cut[m] - cut[m - 1] + 1
      BY <1>3, <1>11, <3>2 DEF Entries
    <3>4. w \in Strings
      BY <3>2, DictTypes DEF Encoder
    <3>. HIDE DEF w
    <3>5. Len(w) = Len(prev) + 1
      BY <1>6, <1>10, <2>2, <3>3
    <3>6. /\ Append(prev, e[1]) \in Strings
          /\ Len(Append(prev, e[1])) = Len(prev) + 1
          /\ At(Append(prev, e[1]), source, cut[m - 1])
      BY <1>6, <1>8, <2>1, <2>2, AtNext DEF Encoder, Decoder
    <3>7. Append(prev, e[1]) = w
      BY <3>3, <3>4, <3>5, <3>6, AtEqual
    <3>8. ASSUME NEW i \in 1 .. Len(ddict') PROVE ddict'[i] = dict[i]
      <4>1. i \in 1 .. Len(ddict) \/ i = Len(ddict) + 1
        BY <1>10, <2>5
      <4>2. \A j \in 1 .. Len(ddict) : ddict[j] = dict[j]
        BY <1>4, <1>11 DEF Beginning
      <4>3. ddict'[Len(ddict) + 1] = dict[Len(ddict) + 1]
        BY <2>5, <3>1, <3>7 DEF w
      <4>. QED  BY <2>5, <4>1, <4>2, <4>3
    <3>9. Len(ddict') <= Len(dict)
      BY <2>5, <3>1, <3>2
    <3>. QED  BY <2>1, <2>3, <3>8, <3>9 DEF Beginning
  <2>. QED  BY <1>9, <2>4, <2>5
<1>12. Following(m + 1, n, code, cut)'
  <2>1. Len(ddict') = MaxCode + 1 \/ Len(ddict') = InitDictSize + (m + 1) - 1
    <3>1. Len(ddict) = MaxCode + 1 \/ Len(ddict) = InitDictSize + m - 1
      BY <1>2 DEF Following
    <3>. QED  BY <1>9, <1>10, <3>1
  <2>. QED  BY <1>1, <1>5, <1>6, <1>8, <1>11, <2>1 DEF Following
<1>. QED  BY <1>1, <1>6, <1>11, <1>12 DEF Received

\* Without another code the decoder is done, and has all of the source if nothing
\* has failed.
LEMMA DecodeEndReceived ==
  ASSUME Encoder, Decoder, NEW n \in Nat, NEW code \in Codes(n), NEW cut \in Cuts(n),
         Sent(n, code, cut), Received(n, code, cut), DecodeEnd
  PROVE  Received(n, code, cut)'
<1>1. /\ pc = "decode" /\ pc' = "done" /\ ~MoreCode
      /\ UNCHANGED <<source, dict, file, ddict, prev, br, pos, copy, failures, lost>>
  BY DEF DecodeEnd, encoder, decoder, memory
<1>2. PICK m \in 1 .. n : Following(m, n, code, cut)
  BY <1>1 DEF Received
<1>3. ASSUME failures = 0 PROVE copy = source
  <2>1. ~lost /\ Written(n, cut)
    BY <1>1, <1>3, Sizes DEF Encoder, Sent
  <2>2. At(copy, source, 0) /\ Len(copy) = cut[m]
    BY <1>2, <2>1 DEF Received, Following
  <2>3. m = n
    <3>1. m \in 0 .. n
      OBVIOUS
    <3>. QED  BY <1>1, <1>2, <2>1, <3>1, ReadAll DEF Encoder, Decoder, Written, Following
  <2>. QED  BY <2>1, <2>2, <2>3, AtBeginning DEF Encoder, Decoder, Written
<1>. QED  BY <1>1, <1>3 DEF Received

\* When memory fails the string of the last code may have been written.
LEMMA DecodeFailsReceived ==
  ASSUME Encoder, Decoder, NEW n \in Nat, NEW code \in Codes(n), NEW cut \in Cuts(n),
         Sent(n, code, cut), Received(n, code, cut), DecodeFails
  PROVE  Received(n, code, cut)'
<1>1. /\ pc \in {"decode_first", "decode"} /\ pc' = "done" /\ failures' # 0
      /\ UNCHANGED <<source, dict, file, ddict, prev, br, pos, lost>>
  BY DEF DecodeFails, Fails, encoder, Encoder
<1>2. ~lost => At(copy, source, 0) /\ Beginning(ddict, dict)
  BY DEF Received
<1>3. CASE UNCHANGED copy
  BY <1>1, <1>2, <1>3 DEF Received
<1>4. ASSUME pc = "decode", MoreCode, NEW b \in Byte, copy' = copy \o Entry(NextCode, b)
      PROVE  Received(n, code, cut)'
  <2>1. PICK m \in 1 .. n : Following(m, n, code, cut)
    BY <1>4 DEF Received
  <2>2. m < n /\ NextCode = code[m + 1]
    <3>1. m \in Nat /\ Reader(br, pos, m, n, code)
      BY <2>1 DEF Following
    <3>2. InFile(file, n, code) /\ 2 * Len(file) <= 3 * n + 1
      BY DEF Sent
    <3>. QED  BY <1>4, <3>1, <3>2, ReadCode DEF Encoder, Decoder
  <2>3. NextCode \in Nat
    <3>1. m + 1 \in 1 .. n
      BY <2>2
    <3>. QED  BY <2>2, <3>1, Sizes DEF Codes
  <2>. DEFINE e == Entry(NextCode, b)
  <2>4. e \in Strings
    BY <1>4, <2>3, EntryTypes
  <2>5. copy' = copy \o e
    BY <1>4
  <2>6. ASSUME ~lost PROVE At(copy', source, 0)
    <3>1. At(e, source, cut[m]) /\ Len(copy) = cut[m]
      BY <1>2, <2>1, <2>2, <2>6, EntryCorrect DEF Following
    <3>. HIDE DEF e
    <3>. QED  BY <1>2, <2>4, <2>5, <2>6, <3>1, AtConcat DEF Encoder, Decoder
  <2>. QED  BY <1>1, <1>2, <2>6 DEF Received
<1>. QED  BY <1>3, <1>4 DEF DecodeFails

-----------------------------------------------------------------------------
(* The theorems.                                                            *)

\* If the source is a text there is a list of codes that is in the file, explains the
\* dictionary of the encoder and is what the decoder follows.
Codec ==
  /\ Encoder /\ Decoder /\ Idle
  /\ Text => \E n \in Nat : \E code \in Codes(n), cut \in Cuts(n) :
                Sent(n, code, cut) /\ Received(n, code, cut)

\* At first there are no codes.
LEMMA CodecInit == Init => Codec
<1>. SUFFICES ASSUME Init PROVE Codec
  OBVIOUS
<1>1. Encoder
  BY EncoderInit
<1>2. /\ pc = "encode_first" /\ source = <<>> /\ dict = dict_init_ascii
      /\ bw = <<>> /\ file = <<>> /\ lost = FALSE
      /\ Fresh
  BY DEF Init, Fresh
<1>3. /\ ddict \in Dicts /\ Len(ddict) = InitDictSize
      /\ \A i \in 1 .. Len(ddict) : Len(ddict[i]) >= 1
      /\ Beginning(ddict, dict)
  BY <1>1, <1>2, FirstDictionary DEF Encoder, Fresh
<1>4. copy \in Strings /\ At(copy, source, 0) /\ prev \in Strings /\ br \in Rest
  BY <1>1, <1>2, AtEmpty DEF Encoder, Fresh, Rest
<1>5. InitDictSize <= Len(ddict) /\ Len(ddict) <= MaxCode + 1
  BY <1>3, Sizes
<1>6. pos \in 0 .. Len(file) /\ Len(file) = 0
  BY <1>2, RestProperties DEF Fresh
<1>7. Decoder
  BY <1>3, <1>4, <1>5, <1>6 DEF Decoder
<1>. DEFINE code == [j \in 1 .. 0 |-> 0]
            cut  == [j \in 0 .. 0 |-> 0]
<1>8. code \in Codes(0) /\ cut \in Cuts(0) /\ cut[0] = 0
  BY DEF Codes, Cuts
<1>. HIDE DEF code, cut
<1>9. Sent(0, code, cut)
  <2>1. Words(dict, source, 0, code, cut) /\ Entries(dict, source, 0, cut)
    BY <1>8 DEF Words, Entries
  <2>2. InFile(file, 0, code) /\ 2 * Len(file) <= 3 * 0 + 1
    BY <1>6 DEF InFile
  <2>3. Len(dict) = InitDictSize /\ InitDictSize + 0 <= Len(dict) + 1
    BY <1>2, <1>3, Sizes DEF Fresh
  <2>. QED  BY <1>2, <2>1, <2>2, <2>3 DEF Sent
<1>10. Received(0, code, cut) /\ Idle
  BY <1>2, <1>3, <1>4 DEF Received, Idle
<1>. QED  BY <1>1, <1>7, <1>8, <1>9, <1>10 DEF Codec

\* The steps of the encoder make the list, those of the decoder follow it.
LEMMA CodecStep == Codec /\ [Next]_vars => Codec'
<1>. SUFFICES ASSUME Codec, [Next]_vars PROVE Codec'
  OBVIOUS
<1>1. /\ Encoder /\ Decoder /\ Idle
      /\ Encoder' /\ Decoder' /\ Idle'
  BY EncoderStep, DecoderStep, IdleStep DEF Codec
<1>. SUFFICES ASSUME Text'
              PROVE  \E n \in Nat : \E code \in Codes(n), cut \in Cuts(n) :
                       Sent(n, code, cut)' /\ Received(n, code, cut)'
  BY <1>1 DEF Codec
<1>2. Text
  BY <1>1, TextGrows
<1>3. PICK n \in Nat : \E code \in Codes(n), cut \in Cuts(n) :
        Sent(n, code, cut) /\ Received(n, code, cut)
  BY <1>2 DEF Codec
<1>4. PICK code \in Codes(n), cut \in Cuts(n) : Sent(n, code, cut) /\ Received(n, code, cut)
  BY <1>3
<1>5. CASE \/ \E c \in Input : EncodeFirst(c) \/ Extend(c) \/ Emit(c)
           \/ EncodeNothing \/ EncodeEnd \/ EncodeFails \/ EncodeDies
  <2>1. PICK k \in Nat : \E code2 \in Codes(k), cut2 \in Cuts(k) : Sent(k, code2, cut2)'
    BY <1>1, <1>2, <1>4, <1>5, EncoderSent
  <2>2. PICK code2 \in Codes(k), cut2 \in Cuts(k) : Sent(k, code2, cut2)'
    BY <2>1
  <2>3. pc' \in {"encode_first", "encode", "decode_first"}
    BY <1>5 DEF EncodeFirst, Extend, Emit, EncodeNothing, EncodeEnd, EncodeFails, EncodeDies
  <2>4. Received(k, code2, cut2)'
    BY <1>1, <2>3, FreshReceived DEF Idle
  <2>. QED  BY <2>2, <2>4
<1>6. CASE DecodeFirst \/ Decode \/ DecodeEnd \/ DecodeFails
  <2>1. /\ UNCHANGED <<encoder, lost>> /\ (failures' = 0 => failures = 0)
        /\ pc \in {"decode_first", "decode", "done"} /\ pc' \in {"decode_first", "decode", "done"}
    BY <1>1, <1>6 DEF DecodeFirst, Decode, DecodeEnd, DecodeFails, Fails, memory, Encoder
  <2>2. Sent(n, code, cut)'
    BY <1>4, <2>1, DecoderSent
  <2>3. Received(n, code, cut)'
    BY <1>1, <1>4, <1>6, DecodeFirstReceived, DecodeReceived, DecodeEndReceived,
       DecodeFailsReceived
  <2>. QED  BY <2>2, <2>3
<1>7. CASE Finished \/ UNCHANGED vars
  <2>1. UNCHANGED <<pc, source, dict, curr, bw, file, ddict, prev, br, pos, copy, failures, lost>>
    BY <1>7 DEF Finished, vars, encoder, decoder, memory
  <2>2. Sent(n, code, cut)'
    BY <1>4, <2>1 DEF Sent, Writing, Written
  <2>3. Received(n, code, cut)'
    BY <1>4, <2>1 DEF Received, Following
  <2>. QED  BY <2>2, <2>3
<1>. QED  BY <1>5, <1>6, <1>7 DEF Next

\* Codec is an invariant.
LEMMA CodecInvariant == Spec => []Codec
BY CodecInit, CodecStep, PTL DEF Spec

\* The variables of encoder and decoder have their types, the dictionaries never
\* have more strings than there are codes, and the reader stays in the file.
THEOREM TypeCorrect == Spec => []TypeOK
<1>1. Codec => TypeOK
  <2>. SUFFICES ASSUME Codec PROVE TypeOK
    OBVIOUS
  <2>1. Encoder /\ Decoder
    BY DEF Codec
  <2>2. /\ bw \in Seq(Digit) /\ Len(bw) <= 1
        /\ br \in Seq(Digit) /\ Len(br) <= 1
    BY <2>1, RestProperties, Zenon DEF Encoder, Decoder
  <2>. QED  BY <2>1, <2>2, Zenon DEF TypeOK, Encoder, Decoder, Dicts, Bytes
<1>. QED  BY <1>1, CodecInvariant, PTL

\* If encode_file has read a text, decode_file writes nothing but a beginning of it, as
\* long as no entry was lost, and all of it when no allocation has failed.
THEOREM RoundTripCorrect == Spec => []RoundTrip
<1>1. Codec => RoundTrip
  <2>. SUFFICES ASSUME Codec, Text
                PROVE  /\ ~lost => IsPrefix(copy, source)
                       /\ pc = "done" /\ failures = 0 => copy = source
    BY DEF RoundTrip
  <2>1. PICK n \in Nat : \E code \in Codes(n), cut \in Cuts(n) : Received(n, code, cut)
    BY DEF Codec
  <2>2. PICK code \in Codes(n), cut \in Cuts(n) : Received(n, code, cut)
    BY <2>1
  <2>3. source \in Strings /\ copy \in Strings
    BY DEF Codec, Encoder, Decoder
  <2>4. ~lost => IsPrefix(copy, source)
    BY <2>2, <2>3, AtBeginning DEF Received
  <2>5. pc = "done" /\ failures = 0 => copy = source
    BY <2>2 DEF Received
  <2>. QED  BY <2>4, <2>5
<1>. QED  BY <1>1, CodecInvariant, PTL

\* Of a text the dictionary of the decoder is the beginning of that of the encoder, and
\* a code that is read is that of an entry or of the next one, whatever has failed.
THEOREM InStepCorrect == Spec => []InStep
<1>1. Codec => InStep
  <2>. SUFFICES ASSUME Codec, Text
                PROVE  /\ ~lost => IsPrefix(ddict, dict)
                       /\ pc = "decode" /\ MoreCode => NextCode <= Len(ddict)
                       /\ pc = "decode_first" /\ MoreCode => NextCode < Len(ddict)
    BY DEF InStep
  <2>0. Encoder /\ Decoder /\ Idle
    BY DEF Codec
  <2>1. PICK n \in Nat : \E code \in Codes(n), cut \in Cuts(n) :
          Sent(n, code, cut) /\ Received(n, code, cut)
    BY DEF Codec
  <2>2. PICK code \in Codes(n), cut \in Cuts(n) : Sent(n, code, cut) /\ Received(n, code, cut)
    BY <2>1
  <2>3. /\ Words(dict, source, n, code, cut) /\ InFile(file, n, code)
        /\ 2 * Len(file) <= 3 * n + 1
    BY <2>2 DEF Sent
  <2>4. /\ InitDictSize \in Nat /\ MaxCode \in Nat /\ Len(ddict) \in Nat /\ Len(dict) \in Nat
        /\ ddict \in Dicts /\ dict \in Dicts /\ InitDictSize <= Len(ddict)
    BY <2>0, DictTypes, Sizes DEF Encoder, Decoder
  <2>5. ~lost => IsPrefix(ddict, dict)
    <3>1. SUFFICES ASSUME ~lost PROVE IsPrefix(ddict, dict)
      OBVIOUS
    <3>2. Beginning(ddict, dict)
      BY <2>2, <3>1 DEF Received
    <3>3. SubSeq(ddict, 1, Len(ddict)) = SubSeq(dict, 1, Len(ddict))
      BY <2>4, <3>2 DEF Beginning, Dicts
    <3>. QED  BY <3>2, <3>3 DEF IsPrefix, Beginning
  <2>6. ASSUME pc = "decode", MoreCode PROVE NextCode <= Len(ddict)
    <3>1. PICK m \in 1 .. n : Following(m, n, code, cut)
      BY <2>2, <2>6 DEF Received
    <3>2. m < n /\ NextCode = code[m + 1]
      <4>1. m \in Nat /\ Reader(br, pos, m, n, code)
        BY <3>1 DEF Following
      <4>. QED  BY <2>0, <2>3, <2>6, <4>1, ReadCode DEF Encoder, Decoder
    <3>3. m + 1 \in 1 .. n
      BY <3>2
    <3>4. code[m + 1] + 2 <= InitDictSize + (m + 1) /\ code[m + 1] \in 0 .. MaxCode
      BY <2>3, <3>3 DEF Words, Codes
    <3>5. Len(ddict) = MaxCode + 1 \/ Len(ddict) = InitDictSize + m - 1
      BY <3>1 DEF Following
    <3>. QED  BY <2>4, <3>2, <3>4, <3>5
  <2>7. ASSUME pc = "decode_first", MoreCode PROVE NextCode < Len(ddict)
    <3>1. Reader(br, pos, 0, n, code)
      BY <2>0, <2>7 DEF Idle, Fresh, Reader
    <3>2. 0 < n /\ NextCode = code[0 + 1]
      BY <2>0, <2>3, <2>7, <3>1, ReadCode DEF Encoder, Decoder
    <3>3. 1 \in 1 .. n /\ 0 + 1 = 1
      BY <3>2
    <3>4. code[1] + 2 <= InitDictSize + 1 /\ code[1] \in 0 .. MaxCode
      BY <2>3, <3>3 DEF Words, Codes
    <3>. QED  BY <2>4, <3>2, <3>3, <3>4
  <2>. QED  BY <2>5, <2>6, <2>7
<1>. QED  BY <1>1, CodecInvariant, PTL
=============================================================================
