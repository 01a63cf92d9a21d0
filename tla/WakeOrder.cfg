\* Small types: an int has 6 values, a double every integer up to 6; unsigned long long
\* has 7 to 15 besides.
SPECIFICATION WakeSpec
CONSTANTS
  ShortHalf = 1
  IntHalf = 3
  LongHalf = 8
  Exactly = 6
  Plain = 4
  ByteSize = 3
  Bytes = {0, 1, 2}
  NULL = NULL
INVARIANTS NumbersAreKept MacArrives
