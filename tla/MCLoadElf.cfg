\* Every kind of file, two calls.
CONSTANTS
  Word = 64
  PageSize = 4
  NPages = 9
  Firmware = {0}
  VirtAddr = 48
  HeaderSize = 2
  MagicSize = 1
  PhdrSize = 1
  Files <- MCFiles
  StackHeaders <- MCStackHeaders
  NoFile = NoFile
  MaxCalls = 2
  Zero = Zero
  Junk = Junk
SPECIFICATION FairSpec
INVARIANTS TypeOK LoadedImagesIntact EntryOfLastSuccess LeakBound
PROPERTIES WritesStayInImage CallsEnd
CHECK_DEADLOCK FALSE
