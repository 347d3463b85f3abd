\* The init file is missing.
CONSTANTS
  NFrames = 11
  Layouts <- MCLayouts
  Stack = 1
  k1 = k1
  k2 = k2
  Kernels <- MCKernels
  Pages <- MCPages
  NoKernel = NoKernel
  DescSize = 48
  Slack = 60
  InitBytes = 8
  Garbage = Garbage
  Candidates <- MCCandidates
  MaxCommands = 2
  MaxEvents = 1
SPECIFICATION Spec
INVARIANT InitSizeInBytes
CHECK_DEADLOCK FALSE
