\* The icon and three commands, of which one may be misled.
CONSTANTS
  Node <- MCNode
  Dirs <- MCDirs
  Top = "top"
  NoNode = "nothing"
  Path <- MCPath
  Found <- MCFound
  Bytes <- MCBytes
  Entries <- MCEntries
  Size <- MCSize
  Handle = {1, 2, 3, 4}
  Buffer = {1, 2, 3, 4, 5}
  Null = Null
  Candidates <- MCCandidates
  Magic = "BM"
  Junk = "junk"
  JunkSizes = {1, 4}
  IconPaths <- MCIconPaths
  MaxCalls = 4
  MaxFaults = 1
SPECIFICATION FairSpec
INVARIANTS TypeOK DirectoryOpen LeakBound
PROPERTIES Refines CommandsEnd
CHECK_DEADLOCK FALSE
