----------------------------- MODULE MCHandover -----------------------------
(* Two kernels of one and of two pages, and two memories: one with a hole   *)
(* between two runs of free frames, and one with memory of every kind.      *)
EXTENDS Handover, FiniteSetsExt, TLC

CONSTANTS k1, k2

MCKernels == {k1, k2}
MCPages == k1 :> 1 @@ k2 :> 2

hole ==
  [f \in 0 .. NFrames - 1 |->
     CASE f = 1 -> "BootServicesData"
       [] f = 4 -> "ACPIReclaimMemory"
       [] OTHER -> "ConventionalMemory"]

mixed ==
  [f \in 0 .. NFrames - 1 |->
     CASE f = 0 -> "RuntimeServicesData"
       [] f = 1 -> "BootServicesData"
       [] f = 2 -> "MemoryMappedIO"
       [] f = 3 -> "PersistentMemory"
       [] OTHER -> "ConventionalMemory"]

MCLayouts == {hole, mixed}

\* The firmware gives the lowest free frame, and at times the one before the
\* highest.
MCCandidates(F) ==
  IF Cardinality(F) < 2 THEN F
  ELSE IF Cardinality(F) % 3 = 0 THEN {Min(F), Max(F \ {Max(F)})} ELSE {Min(F)}
=============================================================================
