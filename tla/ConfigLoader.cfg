\* All files of up to three lines.
SPECIFICATION Spec
CONSTANTS
  Keys <- MCKeys
  Texts <- MCTexts
  Booleans <- MCBooleans
  Integers64 <- MCIntegers64
  Overflows <- MCOverflows
  Empty = ""
  MaxLines = 3
INVARIANTS
  LastAssignmentWins
  
