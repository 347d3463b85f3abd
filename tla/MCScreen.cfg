\* One icon and the square up to twice on each screen.
CONSTANTS
  Images <- MCImages
  Modes <- MCModes
  Byte <- MCByte
  Unread = Unread
  Black <- MCBlack
  White <- MCWhite
  SquareX <- MCSquareX
  SquareY <- MCSquareY
  Word = 120
  MaxCommands = 2
SPECIFICATION FairSpec
INVARIANTS TypeOK IconShown
PROPERTIES BootGoesOn
CHECK_DEADLOCK FALSE
