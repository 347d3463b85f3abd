\* Two loads and two mappings in any order, also a second kernel taking the
\* place of the first.
CONSTANTS
  Word = 162
  PageSize = 2
  NPages = 21
  Firmware = {0, 1, 2}
  HeaderSize = 1
  MagicSize = 1
  PhdrSize = 1
  Files <- MCFiles
  StackHeaders <- MCStackHeaders
  NoFile = NoFile
  Zero = Zero
  Junk = Junk
  MaxCalls = 2
  N = 3
  Absent = Absent
  Root = 0
  Layouts <- MCLayouts
  Candidates <- MCCandidates
  Overwritten <- MCOverwritten
  MaxMappings = 2
SPECIFICATION Spec
INVARIANTS KernelVisible TablesNotImages
CHECK_DEADLOCK FALSE
