\* Two lines, of which the second is typed over the rest of the first.
CONSTANTS
  BufSize = 7
  MaxArgs = 2
  Chars <- MCChars
  Space = " "
  Quote = "quote"
  Nul = "0"
  Commands <- MCCommands
  Stacks <- MCStacks
  MaxLines = 2
SPECIFICATION FairSpec
INVARIANTS TypeOK ArgsInLine OnlyUnknownKept
PROPERTIES Refines SplitEnds
CHECK_DEADLOCK FALSE
