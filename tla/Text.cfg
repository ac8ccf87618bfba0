SPECIFICATION Spec
CONSTANTS
  Plain <- MCPlain
  Others = {"NUL"}
  MaxTaken = 5
  Num <- MCNum
  Blanks = {" "}
  MaxRows = 4
  MaxLine = 16
  IntValues = 64
  Keys <- MCKeys
  Vals = {v1, v2, v3, v4}
  NULL = NULL
  Cap0 = 1
  HashChars = 2
  Word = 128
  MaxFailures = 1
  Lower <- MCLower
  Spaces = {"CR", "LF", " "}
  BufCap0 = 2
  Top = 2
  Tables <- MCTables
  Essays <- MCEssays
  TestChars = {"a", "CR", "LF", "NUL"}
  TestKeys <- TheKeys
  TestVals = {v1, v2}
INVARIANTS
  TypeOK
  Converts
  Histogram
  RowsSummed
  TopWords
  CountsOwned
  WellPlaced
PROPERTIES
  IsMap
