\* Two commands, of which one or both boot a kernel, and one timer event.
CONSTANTS
  NFrames = 11
  Layouts <- MCLayouts
  Stack = 1
  k1 = k1
  k2 = k2
  Kernels <- MCKernels
  Pages <- MCPages
  NoKernel = NoKernel
  DescSize = 48
  Slack = 60
  InitBytes = 8
  Garbage = Garbage
  Candidates <- MCCandidates
  MaxCommands = 2
  MaxEvents = 1
SPECIFICATION FairSpec
INVARIANTS TypeOK MapCurrent KernelMemoryKept EntryConsistent InitReadable FirmwareKept RetryAccepted
PROPERTIES BootEnds
CHECK_DEADLOCK FALSE
