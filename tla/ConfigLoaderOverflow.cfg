\* All files of up to one line.
SPECIFICATION Spec
CONSTANTS
  Keys <- MCKeys
  Texts <- MCTexts
  Booleans <- MCBooleans
  Integers64 <- MCIntegers64
  Overflows <- MCOverflows
  Empty = ""
  MaxLines = 1
INVARIANT OverflowIsAnError
