\* The red of the bitmap is the red of a RedGreenBlueReserved screen.
CONSTANTS
  Images <- MCImages
  Modes <- MCModes
  Byte <- MCByte
  Unread = Unread
  Black <- MCBlack
  White <- MCWhite
  SquareX <- MCSquareX
  SquareY <- MCSquareY
  Word = 120
  MaxCommands = 2
SPECIFICATION Spec
PROPERTIES ColoursKept
CHECK_DEADLOCK FALSE
