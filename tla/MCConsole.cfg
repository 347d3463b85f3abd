\* Each function once: every number, and every two areas of every memory.
CONSTANTS
  Word = 128
  Decimal = 3
  Hex = 4
  Places = 4
  Cells = 4
  Index = 3
  Byte <- MCByte
  MaxCalls = 1
SPECIFICATION Spec
INVARIANTS TypeOK NumberShown BufferLarge CopiesRight CompareRight
CHECK_DEADLOCK FALSE
