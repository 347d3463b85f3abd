\* Two mappings and the loads between them; the frames run out in the last.
CONSTANTS
  N = 3
  Absent = Absent
  NFrames = 20
  ImagePages = 2
  Root = 0
  Firmware <- MCFirmware
  Layouts <- MCLayouts
  Contents <- MCContents
  Candidates <- MCCandidates
  MaxCommands = 4
SPECIFICATION FairSpec
INVARIANTS TypeOK LiveAllocated PagesKept
PROPERTIES LiveUntouched Refines CallEnds
CHECK_DEADLOCK FALSE
