\* The same, for what is said of the ELF header.
CONSTANTS
  Word = 64
  PageSize = 4
  NPages = 9
  Firmware = {0}
  VirtAddr = 48
  HeaderSize = 2
  MagicSize = 1
  PhdrSize = 1
  Files <- MCFiles
  StackHeaders <- MCStackHeaders
  NoFile = NoFile
  MaxCalls = 2
  Zero = Zero
  Junk = Junk
SPECIFICATION Spec
INVARIANT HeaderChecked
CHECK_DEADLOCK FALSE
