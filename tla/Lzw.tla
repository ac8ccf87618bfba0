-------------------------------- MODULE Lzw ---------------------------------
(***************************************************************************)
(* The compressor of Asgn 4 (lzw.c): encode_file, the packing of its codes  *)
(* into bytes, and decode_file on the file that came out.  Both build their *)
(* dictionary from what they have seen so far, the decoder one entry later. *)
(*                                                                          *)
(* A code is three digits in base Base and a byte is two: 12 and 8 bits in  *)
(* nibbles.  The dictionary is the sequence of its strings, code 0 first.   *)
(* It starts with the characters (ASCII), but the source is a file of any   *)
(* bytes: one that is not a character has no code, and is written as -1.    *)
(***************************************************************************)
EXTENDS Integers, FiniteSets, SequencesExt

CONSTANTS
  Base,          \* the number of values of half a byte (16)
  InitDictSize,  \* the number of characters (128)
  Input,         \* the bytes that sources are made of (0 .. 255)
  MaxInput,      \* bound on the length of the source
  MaxFailures    \* bound on the calls of malloc and realloc that fail

MaxCode == Base * Base * Base - 1
Byte    == 0 .. Base * Base - 1
Digit   == 0 .. Base - 1
Chars   == 0 .. InitDictSize - 1

ASSUME LzwAssumption ==
  /\ Base \in Nat /\ Base > 1
  /\ InitDictSize \in 1 .. Base * Base
  /\ Input \subseteq Byte
  /\ MaxInput \in Nat /\ MaxFailures \in Nat

VARIABLES
  pc,
  source,      \* the bytes that encode_file has read
  dict, curr,  \* its dictionary, and the string it is matching
  bw,          \* the digits in the bit_writer
  file,        \* the compressed file
  ddict, prev, \* the dictionary of decode_file, and the last string it wrote
  br, pos,     \* the digits in the bit_reader, the bytes it has read
  copy,        \* what decode_file has written
  failures,    \* the number of failed allocations so far
  lost         \* history: whether one of them has cost dict an entry

encoder == <<source, dict, curr, bw, file>>
decoder == <<ddict, prev, br, pos, copy>>
memory  == <<failures, lost>>
vars    == <<pc, encoder, decoder, memory>>

dict_init_ascii == [i \in 1 .. InitDictSize |-> <<i - 1>>]

\* Mutant of Has: the loop ends one entry early.
HasButLast(d, s) == \E i \in 1 .. Len(d) - 1 : d[i] = s

Has(d, s) == \E i \in DOMAIN d : d[i] = s

\* The code of s: the first entry that is equal to it, or -1.
dict_find(d, s) ==
  IF Has(d, s)
  THEN (CHOOSE i \in DOMAIN d : d[i] = s /\ \A j \in 1 .. i - 1 : d[j] # s) - 1
  ELSE -1

\* Mutant of dict_add: no limit.
dict_addUnlimited(d, s) == Append(d, s)

\* One more string, as long as there is a code left for it.
dict_add(d, s) == IF Len(d) <= MaxCode THEN Append(d, s) ELSE d

Init ==
  /\ pc = "encode_first"
  /\ source = <<>> /\ dict = dict_init_ascii /\ curr = <<>>
  /\ bw = <<>> /\ file = <<>>
  /\ ddict = dict_init_ascii /\ prev = <<>>
  /\ br = <<>> /\ pos = 0 /\ copy = <<>>
  /\ failures = 0 /\ lost = FALSE

Fails == failures < MaxFailures /\ failures' = failures + 1

-----------------------------------------------------------------------------
(* Codes and bytes.                                                         *)

\* The code is cut to three digits: -1 becomes MaxCode.
Digits(code) ==
  LET c == code % (MaxCode + 1)
  IN  <<c \div (Base * Base), (c \div Base) % Base, c % Base>>

\* bw_write_code: as many whole bytes as there are digits for.
bw_write_code(code) ==
  LET d == bw \o Digits(code)
  IN  /\ file' = file \o [i \in 1 .. Len(d) \div 2 |-> <<d[2*i - 1], d[2*i]>>]
      /\ bw' = IF Len(d) % 2 = 1 THEN <<Last(d)>> ELSE <<>>

\* Mutant of WriteLast: bw_flush is not called.
WriteLastUnflushed(code) == bw_write_code(code)

\* The last code is written and half a byte of zeros fills the last byte.
WriteLast(code) ==
  LET d == bw \o Digits(code)
      p == IF Len(d) % 2 = 1 THEN Append(d, 0) ELSE d
  IN  /\ file' = file \o [i \in 1 .. Len(p) \div 2 |-> <<p[2*i - 1], p[2*i]>>]
      /\ bw' = <<>>

\* br_read_code: whether there is one more code, the code, and what the reader
\* is left with.
Need     == IF br = <<>> THEN 2 ELSE 1
MoreCode == pos + Need <= Len(file)
Ahead    == IF br = <<>> THEN file[pos + 1] \o file[pos + 2] ELSE br \o file[pos + 1]
NextCode == (Ahead[1] * Base + Ahead[2]) * Base + Ahead[3]

br_read_code ==
  /\ MoreCode
  /\ br' = SubSeq(Ahead, 4, Len(Ahead))
  /\ pos' = pos + Need

-----------------------------------------------------------------------------
(* encode_file.                                                             *)

EncodeFirst(c) ==
  /\ pc = "encode_first" /\ MaxInput > 0
  /\ pc' = "encode"
  /\ source' = <<c>> /\ curr' = <<c>>
  /\ UNCHANGED <<dict, bw, file, decoder, memory>>

\* An empty source gives an empty file.
EncodeNothing ==
  /\ pc = "encode_first"
  /\ pc' = "decode_first"
  /\ UNCHANGED <<encoder, decoder, memory>>

\* There is no memory for the dictionary or for the first string: the program
\* ends, and the file is empty.
EncodeFails ==
  /\ pc = "encode_first" /\ Fails
  /\ pc' = "decode_first"
  /\ UNCHANGED <<encoder, decoder, lost>>

\* The string gets the next code; without memory it gets none, and nobody
\* looks.
Add(s) ==
  \/ dict' = dict_add(dict, s) /\ UNCHANGED memory
  \/ dict' = dict /\ Fails /\ Len(dict) <= MaxCode /\ lost' = TRUE

\* curr followed by the next byte is in the dictionary.
Extend(c) ==
  /\ pc = "encode" /\ Len(source) < MaxInput
  /\ Has(dict, Append(curr, c))
  /\ source' = Append(source, c)
  /\ curr' = Append(curr, c)
  /\ UNCHANGED <<pc, dict, bw, file, decoder, memory>>

\* It is not: it is added, and the code of curr is written, whatever it is.
Emit(c) ==
  /\ pc = "encode" /\ Len(source) < MaxInput
  /\ ~Has(dict, Append(curr, c))
  /\ source' = Append(source, c)
  /\ Add(Append(curr, c))
  /\ bw_write_code(dict_find(dict', curr))
  /\ curr' = <<c>>
  /\ UNCHANGED <<pc, decoder>>

EncodeEnd ==
  /\ pc = "encode"
  /\ WriteLast(dict_find(dict, curr))
  /\ pc' = "decode_first"
  /\ UNCHANGED <<source, dict, curr, decoder, memory>>

\* There is no memory for the next string, which is used all the same: the
\* program is killed, and a part of what it has written is in the file.
EncodeDies ==
  /\ pc = "encode" /\ Fails
  /\ \E n \in 0 .. Len(file) : file' = SubSeq(file, 1, n)
  /\ pc' = "decode_first"
  /\ UNCHANGED <<source, dict, curr, bw, decoder, lost>>

-----------------------------------------------------------------------------
(* decode_file.                                                             *)

\* The dictionary has room for all codes, and its unused entries are empty.
DecodeFirst ==
  /\ pc = "decode_first"
  /\ IF MoreCode
     THEN /\ br_read_code
          /\ pc' = "decode"
          /\ prev' = IF NextCode < Len(ddict) THEN ddict[NextCode + 1] ELSE <<>>
          /\ copy' = prev'
     ELSE pc' = "done" /\ UNCHANGED <<prev, br, pos, copy>>
  /\ UNCHANGED <<ddict, encoder, memory>>

\* The string of a code; one that the decoder does not know stands for prev and
\* its first byte, which is what is in memory (b) if prev is empty.
Entry(code, b) ==
  IF code < Len(ddict) THEN ddict[code + 1]
  ELSE Append(prev, IF prev = <<>> THEN b ELSE prev[1])

\* The decoder has a limit of its own.
Learn(s) == IF Len(ddict) <= MaxCode THEN Append(ddict, s) ELSE ddict

\* Mutant of Decode: the new entry ends with the last character of the string.
DecodeLastChar ==
  /\ pc = "decode" /\ br_read_code
  /\ \E b \in Byte : LET entry == Entry(NextCode, b) IN
       /\ copy' = copy \o entry
       /\ ddict' = Learn(Append(prev, Last(entry)))
       /\ prev' = entry
  /\ UNCHANGED <<pc, encoder, memory>>

Decode ==
  /\ pc = "decode" /\ br_read_code
  /\ \E b \in Byte : LET entry == Entry(NextCode, b) IN
       /\ copy' = copy \o entry
       /\ ddict' = Learn(Append(prev, entry[1]))
       /\ prev' = entry
  /\ UNCHANGED <<pc, encoder, memory>>

DecodeEnd ==
  /\ pc = "decode" /\ ~MoreCode
  /\ pc' = "done"
  /\ UNCHANGED <<encoder, decoder, memory>>

\* There is no memory for the dictionary, with which the program ends, or for a
\* string, before or after another one is written, which kills it.
DecodeFails ==
  /\ pc \in {"decode_first", "decode"} /\ Fails
  /\ \/ UNCHANGED copy
     \/ pc = "decode" /\ MoreCode /\ \E b \in Byte : copy' = copy \o Entry(NextCode, b)
  /\ pc' = "done"
  /\ UNCHANGED <<encoder, ddict, prev, br, pos, lost>>

Finished == pc = "done" /\ UNCHANGED vars

Next ==
  \/ \E c \in Input : EncodeFirst(c) \/ Extend(c) \/ Emit(c)
  \/ EncodeNothing \/ EncodeEnd \/ EncodeFails \/ EncodeDies
  \/ DecodeFirst \/ Decode \/ DecodeEnd \/ DecodeFails
  \/ Finished

Spec == Init /\ [][Next]_vars

-----------------------------------------------------------------------------
(* Properties.                                                              *)

Strings == Seq(Byte)

\* What the program is for: the source has only characters of the dictionary. Its
\* assignment allows to assume this; encode_file does not look.
Text == \A i \in DOMAIN source : source[i] \in Chars

\* A byte without a code.
Foreign(s) == \E c \in Byte \ Chars : s = <<c>>

\* Every variable has its type, and a code never has more than three digits.
TypeOK ==
  /\ pc \in {"encode_first", "encode", "decode_first", "decode", "done"}
  /\ source \in Strings /\ curr \in Strings
  /\ dict \in Seq(Strings) /\ Len(dict) <= MaxCode + 1
  /\ bw \in Seq(Digit) /\ Len(bw) <= 1
  /\ file \in Seq(Digit \X Digit)
  /\ ddict \in Seq(Strings) /\ Len(ddict) <= MaxCode + 1
  /\ prev \in Strings
  /\ br \in Seq(Digit) /\ Len(br) <= 1
  /\ pos \in 0 .. Len(file)
  /\ copy \in Strings
  /\ failures \in 0 .. MaxFailures /\ lost \in BOOLEAN

\* At any time the decoder has written a beginning of the text, also of a file that
\* was cut short, and all of it in the end, also when the dictionary is full or the
\* last byte is padded; unless the encoder has lost an entry.
RoundTrip == Text =>
  /\ ~lost => IsPrefix(copy, source)
  /\ pc = "done" /\ failures = 0 => copy = source

\* When dict_find is asked for the code of what is being matched (lines 174 and 191)
\* it finds it, unless that is a single byte that is no character; so it always does
\* in a text. The dictionary has every string once, and none before its own
\* beginning, unless that is such a byte.
Matching ==
  /\ pc = "encode" /\ ~Has(dict, curr) => Foreign(curr) /\ ~Text
  /\ \A i, j \in DOMAIN dict : dict[i] = dict[j] => i = j
  /\ \A i \in DOMAIN dict : Len(dict[i]) > 1 =>
       \/ \E j \in 1 .. i - 1 : dict[j] = Front(dict[i])
       \/ Foreign(Front(dict[i]))

\* The dictionary that the decoder makes of a text is the beginning of the
\* encoder's. The next code is in it or the next to be added, even if the encoder
\* has lost an entry or not written all: an entry that does not exist is never read.
InStep == Text =>
  /\ ~lost => IsPrefix(ddict, dict)
  /\ pc = "decode" /\ MoreCode => NextCode <= Len(ddict)
  /\ pc = "decode_first" /\ MoreCode => NextCode < Len(ddict)
=============================================================================
