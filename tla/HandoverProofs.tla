--------------------------- MODULE HandoverProofs ---------------------------
(* Proofs about Handover, for every memory map, every set of kernels and any *)
(* number of commands and timer events.                                      *)
EXTENDS Handover, FiniteSetTheorems, TLAPS

-----------------------------------------------------------------------------
(* Allocation and the memory map.                                            *)

\* A frame the firmware gives was free.
LEMMA CandidateIsFree ==
  ASSUME NEW F \in SUBSET Frame, NEW f \in Candidates(F)
  PROVE  f \in F /\ f \in Frame
BY AllocatorAssumption

LEMMA FreeFrames == Free \subseteq Frame /\ \A f \in Free : kind[f] = "ConventionalMemory"
BY DEF Free

\* The kernel is told that a frame is usable only if it is free.
LEMMA OnlyFreeIsUsable ==
  ASSUME NEW t \in EfiType
  PROVE  /\ checkMemType(t) \in MemType
         /\ checkMemType(t) = "USABLE" <=> t = "ConventionalMemory"
         /\ t \in {"LoaderData", "BootServicesData"} => checkMemType(t) \in {"BOOTLOADER", "UEFIDATA"}
BY DEF EfiType, MemType, checkMemType, reserved, bootloader, uefi, acpi, memoryMapped

LEMMA EfiTypes ==
  {"LoaderData", "BootServicesData", "ConventionalMemory"} \subseteq EfiType
BY DEF EfiType, bootloader, uefi

\* The type of the memory map.
KindOK == kind \in [Frame -> EfiType] /\ keyFresh \in BOOLEAN

\* What each of the ways memory is given to the boot loader does to the map:
\* frames that were in use keep their type.
Grows == \A f \in Frame : kind[f] # "ConventionalMemory" => kind'[f] = kind[f]

LEMMA AllocatedType ==
  ASSUME KindOK, NEW F \in SUBSET Free, Allocated(F, "LoaderData")
  PROVE  /\ KindOK' /\ Grows /\ ~ keyFresh'
         /\ \A f \in F : f \in Frame /\ kind'[f] = "LoaderData"
BY EfiTypes, FreeFrames DEF KindOK, Allocated, Grows

LEMMA PoolType ==
  ASSUME KindOK, NEW f \in Frame, Pool(f)
  PROVE  KindOK' /\ Grows /\ kind'[f] = "LoaderData" /\ (keyFresh' => keyFresh)
<1>1. CASE f \in Candidates(Free) /\ Allocated({f}, "LoaderData")
  <2>1. f \in Free
    BY <1>1, CandidateIsFree, FreeFrames
  <2> QED
    BY <1>1, <2>1, AllocatedType
<1>2. CASE kind[f] = "LoaderData" /\ UNCHANGED memory
  BY <1>2 DEF memory, KindOK, Grows
<1> QED
  BY <1>1, <1>2 DEF Pool

LEMMA TablesType ==
  ASSUME KindOK, NEW f \in Candidates(Free), NEW g \in Candidates(Free \ {f}), Tables(f, g)
  PROVE  /\ KindOK' /\ Grows /\ ~ keyFresh'
         /\ f \in Frame /\ g \in Frame
         /\ kind'[f] = "LoaderData" /\ kind'[g] = "BootServicesData"
<1>1. f \in Free /\ g \in Free /\ f \in Frame /\ g \in Frame /\ f # g
  BY CandidateIsFree, FreeFrames DEF Tables
<1>2. kind' = [kind EXCEPT ![f] = "LoaderData", ![g] = "BootServicesData"] /\ keyFresh' = FALSE
  BY DEF Tables
<1> QED
  BY <1>1, <1>2, EfiTypes, FreeFrames DEF KindOK, Grows

-----------------------------------------------------------------------------
(* The globals that loadElf assigns.                                         *)

GlobalsOK ==
  /\ content \in [Frame -> Kernels \union {NoKernel}]
  /\ loadedBin \in Frame /\ kernelPages \in Nat /\ elfEntry \in Kernels \union {NoKernel}

LEMMA LoadedAtType ==
  ASSUME KindOK, GlobalsOK, NEW k \in Kernels, NEW b \in Candidates(Free), LoadedAt(k, b)
  PROVE  /\ KindOK' /\ GlobalsOK' /\ Grows /\ ~ keyFresh'
         /\ elfEntry' = k /\ loadedBin' = b /\ kernelPages' = Pages[k]
         /\ \A f \in b .. b + Pages[k] - 1 :
              f \in Frame /\ kind'[f] = "LoaderData" /\ content'[f] = k
<1> DEFINE run == b .. b + Pages[k] - 1
<1>1. b \in Frame /\ Pages[k] \in Nat
  BY CandidateIsFree, FreeFrames, ConstantsAssumption
<1>2. run \subseteq Free /\ Allocated(run, "LoaderData")
  BY DEF LoadedAt
<1>3. /\ content' = [f \in Frame |-> IF f \in run THEN k ELSE content[f]]
      /\ loadedBin' = b /\ kernelPages' = Pages[k] /\ elfEntry' = k
  BY DEF LoadedAt
<1> HIDE DEF run
<1>4. /\ KindOK' /\ Grows /\ ~ keyFresh'
      /\ \A f \in run : f \in Frame /\ kind'[f] = "LoaderData"
  BY <1>2, AllocatedType
<1>5. GlobalsOK' /\ \A f \in run : content'[f] = k
  BY <1>1, <1>3, <1>4 DEF GlobalsOK
<1> QED
  BY <1>3, <1>4, <1>5 DEF run

LEMMA LoadFailsType ==
  ASSUME KindOK, GlobalsOK, NEW k \in Kernels, LoadFails(k)
  PROVE  KindOK' /\ GlobalsOK' /\ Grows /\ (keyFresh' => keyFresh)
<1>1. CASE UNCHANGED <<globals, memory>>
  BY <1>1 DEF globals, memory, KindOK, GlobalsOK, Grows
<1>2. ASSUME NEW b \in Candidates(Free), LoadFailsAt(k, b)
      PROVE  KindOK' /\ GlobalsOK' /\ Grows /\ (keyFresh' => keyFresh)
  <2> DEFINE run == b .. b + Pages[k] - 1
  <2>1. b \in Frame /\ Pages[k] \in Nat
    BY CandidateIsFree, FreeFrames, ConstantsAssumption
  <2>2. run \subseteq Free /\ Allocated(run, "LoaderData")
    BY <1>2 DEF LoadFailsAt
  <2>3. /\ content' = [f \in Frame |-> IF f \in run THEN NoKernel ELSE content[f]]
        /\ loadedBin' = b /\ kernelPages' = Pages[k] /\ elfEntry' = elfEntry
    BY <1>2 DEF LoadFailsAt
  <2> HIDE DEF run
  <2>4. KindOK' /\ Grows /\ ~ keyFresh'
    BY <2>2, AllocatedType
  <2> QED
    BY <2>1, <2>3, <2>4 DEF GlobalsOK
<1> QED
  BY <1>1, <1>2 DEF LoadFails

LEMMA LoadHaltsType ==
  ASSUME KindOK, GlobalsOK, NEW k \in Kernels, LoadHalts(k)
  PROVE  KindOK' /\ GlobalsOK' /\ Grows /\ keyFresh' = keyFresh /\ pc' = "halt"
<1>1. Pages[k] \in Nat
  BY ConstantsAssumption
<1> QED
  BY <1>1 DEF LoadHalts, Halt, memory, KindOK, GlobalsOK, Grows

-----------------------------------------------------------------------------
(* Type correctness. *)

\* The rest of the state: everything but the memory map and the globals.
RestOK ==
  /\ pc \in {"idle", "kernel file", "init file", "mapping", "map size", "map buffer",
             "map", "exit", "kernel", "halt"}
  /\ services \in {"on", "partial", "off"} /\ (pc = "kernel" <=> services = "off")
  /\ mapped \in Frame
  /\ info \in [kernelPhysicalAddress : Frame, kernelSize : Nat, init : Frame,
               initSize : {InitBytes, Garbage}, memoryMap : [Frame -> MemType]]
  /\ own \in [info : Frame, map : Frame, init : Frame, tables : SUBSET Frame]
  /\ memMapSize \in Nat /\ commands \in Nat /\ events \in Nat

LEMMA TypeParts == TypeOK <=> KindOK /\ GlobalsOK /\ RestOK
BY DEF TypeOK, KindOK, GlobalsOK, RestOK

LEMMA TypePartsNext == TypeOK' <=> KindOK' /\ GlobalsOK' /\ RestOK'
BY DEF TypeOK, KindOK, GlobalsOK, RestOK

\* A memory map has a finite number of descriptors.
LEMMA MapSizeType == MapSize \in Nat
<1> DEFINE R == {f \in Frame : f = 0 \/ kind[f] # kind[f - 1]}
<1>1. IsFiniteSet(Frame)
  BY FS_Interval, ConstantsAssumption DEF Frame
<1>2. IsFiniteSet(R)
  BY <1>1, FS_Subset
<1>3. Cardinality(R) \in Nat
  BY <1>2, FS_CardinalityType
<1> HIDE DEF R
<1>4. MapSize = DescSize * Cardinality(R)
  BY DEF MapSize, R
<1> QED
  BY <1>3, <1>4, ConstantsAssumption

LEMMA ConvertedType ==
  ASSUME KindOK
  PROVE  Converted \in [Frame -> MemType]
BY OnlyFreeIsUsable DEF KindOK, Converted

LEMMA TypeInit == Init => TypeOK
<1> SUFFICES ASSUME Init PROVE TypeOK
  OBVIOUS
<1>1. Stack \in Frame /\ 0 \in Frame /\ InitBytes \in Nat
  BY ConstantsAssumption DEF Frame
<1>2. KindOK
  BY ConstantsAssumption DEF Init, KindOK
<1>3. GlobalsOK
  BY <1>1 DEF Init, GlobalsOK
<1>4. RestOK
  BY <1>1 DEF Init, RestOK, MemType
<1> QED
  BY <1>2, <1>3, <1>4, TypeParts

LEMMA CommandType ==
  ASSUME TypeOK, Command
  PROVE  TypeOK' /\ Grows
<1>0. KindOK /\ GlobalsOK /\ RestOK
  BY TypeParts
<1>1. /\ UNCHANGED <<services, info, memMapSize, events>> /\ commands' \in Nat
      /\ pc = "idle"
  BY <1>0 DEF Command, RestOK
<1>2. ASSUME NEW k \in Kernels,
             \/ pc' = "idle" /\ LoadFails(k)
             \/ pc' = "idle" /\ \E b \in Candidates(Free) : LoadedAt(k, b)
             \/ LoadHalts(k),
             UNCHANGED <<mapped, own>>
      PROVE  TypeOK' /\ Grows
  <2>1. KindOK' /\ GlobalsOK' /\ Grows /\ pc' \in {"idle", "halt"}
    BY <1>0, <1>2, LoadFailsType, LoadedAtType, LoadHaltsType
  <2>2. RestOK'
    BY <1>0, <1>1, <1>2, <2>1 DEF RestOK
  <2> QED
    BY <2>1, <2>2, TypePartsNext
<1>3. CASE Halt /\ UNCHANGED <<mapped, own>> /\ UNCHANGED globals
  <2>1. KindOK' /\ GlobalsOK' /\ Grows
    BY <1>0, <1>3 DEF Halt, memory, globals, KindOK, GlobalsOK, Grows
  <2>2. RestOK'
    BY <1>0, <1>1, <1>3 DEF RestOK, Halt
  <2> QED
    BY <2>1, <2>2, TypePartsNext
<1>4. ASSUME NEW f \in Candidates(Free), NEW g \in Candidates(Free \ {f}), Tables(f, g),
             pc' = "idle", UNCHANGED globals
      PROVE  TypeOK' /\ Grows
  <2>1. KindOK' /\ Grows /\ f \in Frame /\ g \in Frame
    BY <1>0, <1>4, TablesType
  <2>2. mapped' \in Frame /\ own' \in [info : Frame, map : Frame, init : Frame, tables : SUBSET Frame]
    BY <1>0, <1>4, <2>1 DEF Tables, GlobalsOK, RestOK
  <2>3. GlobalsOK' /\ RestOK'
    BY <1>0, <1>1, <1>4, <2>2 DEF GlobalsOK, RestOK, globals
  <2> QED
    BY <2>1, <2>3, TypePartsNext
<1> QED
  BY <1>2, <1>3, <1>4 DEF Command

LEMMA StartType ==
  ASSUME TypeOK, Start
  PROVE  TypeOK' /\ Grows
<1>0. KindOK /\ GlobalsOK /\ RestOK
  BY TypeParts
<1>1. /\ UNCHANGED <<services, globals, mapped, info, memMapSize, events>>
      /\ commands' \in Nat /\ pc = "idle"
  <2>1. commands \in Nat
    BY <1>0 DEF RestOK
  <2>2. commands' = commands + 1
    BY DEF Start
  <2>3. commands' \in Nat
    BY <2>1, <2>2
  <2> QED
    BY <2>3, Zenon DEF Start
<1>2. GlobalsOK'
  BY <1>0, <1>1 DEF GlobalsOK, globals
<1>3. KindOK' /\ Grows /\ pc' \in {"halt", "kernel file"}
      /\ own' \in [info : Frame, map : Frame, init : Frame, tables : SUBSET Frame]
  <2>1. CASE Halt /\ UNCHANGED own
    BY <1>0, <2>1 DEF Halt, memory, KindOK, Grows, RestOK
  <2>2. ASSUME NEW f \in Frame, Pool(f), own' = [own EXCEPT !.info = f], pc' = "kernel file"
        PROVE  /\ KindOK' /\ Grows /\ pc' \in {"halt", "kernel file"}
               /\ own' \in [info : Frame, map : Frame, init : Frame, tables : SUBSET Frame]
    BY <1>0, <2>2, PoolType DEF RestOK
  <2> QED
    BY <2>1, <2>2 DEF Start
<1>4. RestOK'
  BY <1>0, <1>1, <1>3 DEF RestOK
<1> QED
  BY <1>2, <1>3, <1>4, TypePartsNext

LEMMA LoadKernelType ==
  ASSUME TypeOK, LoadKernel
  PROVE  TypeOK' /\ Grows
<1>0. KindOK /\ GlobalsOK /\ RestOK
  BY TypeParts
<1>1. UNCHANGED <<services, mapped, own, memMapSize, bounds>> /\ pc = "kernel file"
  BY DEF LoadKernel
<1>2. PICK k \in Kernels :
        \/ LoadHalts(k) /\ UNCHANGED info
        \/ LoadFails(k) /\ Return /\ UNCHANGED info
        \/ /\ \E b \in Candidates(Free) : LoadedAt(k, b)
           /\ info' = [info EXCEPT !.kernelPhysicalAddress = loadedBin', !.kernelSize = kernelPages']
           /\ pc' = "init file"
  BY DEF LoadKernel
<1>3. KindOK' /\ GlobalsOK' /\ Grows /\ pc' \in {"idle", "halt", "init file"}
  BY <1>0, <1>2, LoadFailsType, LoadedAtType, LoadHaltsType DEF Return
<1>4. info' \in [kernelPhysicalAddress : Frame, kernelSize : Nat, init : Frame,
                 initSize : {InitBytes, Garbage}, memoryMap : [Frame -> MemType]]
  <2>1. loadedBin' \in Frame /\ kernelPages' \in Nat
    BY <1>3 DEF GlobalsOK
  <2> QED
    BY <1>0, <1>2, <2>1 DEF RestOK
<1>5. RestOK'
  BY <1>0, <1>1, <1>3, <1>4 DEF RestOK, bounds
<1> QED
  BY <1>3, <1>5, TypePartsNext

LEMMA LoadInitType ==
  ASSUME TypeOK, LoadInit
  PROVE  TypeOK' /\ Grows
<1>0. KindOK /\ GlobalsOK /\ RestOK
  BY TypeParts
<1>1. UNCHANGED <<services, globals, mapped, memMapSize, bounds>> /\ pc = "init file"
  BY DEF LoadInit
<1>2. GlobalsOK' /\ Stack \in Frame
  BY <1>0, <1>1, ConstantsAssumption DEF GlobalsOK, globals
<1>3. /\ KindOK' /\ Grows /\ pc' \in {"halt", "mapping"}
      /\ own' \in [info : Frame, map : Frame, init : Frame, tables : SUBSET Frame]
      /\ info' \in [kernelPhysicalAddress : Frame, kernelSize : Nat, init : Frame,
                    initSize : {InitBytes, Garbage}, memoryMap : [Frame -> MemType]]
  <2>1. CASE Halt /\ UNCHANGED <<info, own>>
    BY <1>0, <2>1 DEF Halt, memory, KindOK, Grows, RestOK
  <2>2. CASE /\ info' = [info EXCEPT !.init = Stack, !.initSize = Garbage]
             /\ pc' = "mapping"
             /\ UNCHANGED <<memory, own>>
    BY <1>0, <1>2, <2>2 DEF memory, KindOK, Grows, RestOK
  <2>3. ASSUME NEW f \in Frame, Pool(f), own' = [own EXCEPT !.init = f],
               info' = [info EXCEPT !.init = f, !.initSize = InitBytes], pc' = "mapping"
        PROVE  /\ KindOK' /\ Grows /\ pc' \in {"halt", "mapping"}
               /\ own' \in [info : Frame, map : Frame, init : Frame, tables : SUBSET Frame]
               /\ info' \in [kernelPhysicalAddress : Frame, kernelSize : Nat, init : Frame,
                             initSize : {InitBytes, Garbage}, memoryMap : [Frame -> MemType]]
    BY <1>0, <2>3, PoolType DEF RestOK
  <2> QED
    BY <2>1, <2>2, <2>3 DEF LoadInit
<1>4. RestOK'
  BY <1>0, <1>1, <1>3 DEF RestOK, bounds
<1> QED
  BY <1>2, <1>3, <1>4, TypePartsNext

LEMMA MapKernelType ==
  ASSUME TypeOK, MapKernel
  PROVE  TypeOK' /\ Grows
<1>0. KindOK /\ GlobalsOK /\ RestOK
  BY TypeParts
<1>1. UNCHANGED <<services, globals, info, memMapSize, bounds>> /\ pc = "mapping"
  BY DEF MapKernel
<1>2. GlobalsOK'
  BY <1>0, <1>1 DEF GlobalsOK, globals
<1>3. /\ KindOK' /\ Grows /\ pc' \in {"halt", "map size"}
      /\ mapped' \in Frame
      /\ own' \in [info : Frame, map : Frame, init : Frame, tables : SUBSET Frame]
  <2>1. CASE Halt /\ UNCHANGED <<mapped, own>>
    BY <1>0, <2>1 DEF Halt, memory, KindOK, Grows, RestOK
  <2>2. ASSUME NEW f \in Candidates(Free), NEW g \in Candidates(Free \ {f}), Tables(f, g),
               pc' = "map size"
        PROVE  /\ KindOK' /\ Grows /\ pc' \in {"halt", "map size"}
               /\ mapped' \in Frame
               /\ own' \in [info : Frame, map : Frame, init : Frame, tables : SUBSET Frame]
    <3>1. KindOK' /\ Grows /\ f \in Frame /\ g \in Frame
      BY <1>0, <2>2, TablesType
    <3> QED
      BY <1>0, <2>2, <3>1 DEF Tables, GlobalsOK, RestOK
  <2> QED
    BY <2>1, <2>2 DEF MapKernel
<1>4. RestOK'
  BY <1>0, <1>1, <1>3 DEF RestOK, bounds
<1> QED
  BY <1>2, <1>3, <1>4, TypePartsNext

LEMMA MapSteps ==
  ASSUME TypeOK, QuerySize \/ AllocMap \/ GetMap \/ Exit
  PROVE  TypeOK' /\ Grows
<1>0. KindOK /\ GlobalsOK /\ RestOK
  BY TypeParts
<1>1. UNCHANGED <<globals, mapped, bounds>>
  BY DEF QuerySize, AllocMap, GetMap, Exit
<1>2. GlobalsOK'
  BY <1>0, <1>1 DEF GlobalsOK, globals
<1>3. CASE QuerySize
  <2>1. memMapSize' \in Nat /\ pc' = "map buffer" /\ UNCHANGED <<services, memory, info, own>>
    BY <1>3, MapSizeType DEF QuerySize
  <2>2. KindOK' /\ Grows
    BY <1>0, <2>1 DEF memory, KindOK, Grows
  <2>3. RestOK'
    BY <1>0, <1>1, <1>3, <2>1 DEF RestOK, bounds, QuerySize
  <2> QED
    BY <1>2, <2>2, <2>3, TypePartsNext
<1>4. CASE AllocMap
  <2>1. memMapSize' \in Nat /\ UNCHANGED <<services, info>> /\ pc = "map buffer"
    <3>1. memMapSize \in Nat /\ Slack \in Nat
      BY <1>0, ConstantsAssumption DEF RestOK
    <3>2. memMapSize' \in {memMapSize, memMapSize + Slack}
      BY <1>4 DEF AllocMap
    <3>3. memMapSize' \in Nat
      BY <3>1, <3>2
    <3> QED
      BY <1>4, <3>3, Zenon DEF AllocMap
  <2>2. /\ KindOK' /\ Grows /\ pc' \in {"halt", "map"}
        /\ own' \in [info : Frame, map : Frame, init : Frame, tables : SUBSET Frame]
    <3>1. CASE Halt /\ UNCHANGED own
      BY <1>0, <3>1 DEF Halt, memory, KindOK, Grows, RestOK
    <3>2. ASSUME NEW f \in Frame, Pool(f), own' = [own EXCEPT !.map = f], pc' = "map"
          PROVE  /\ KindOK' /\ Grows /\ pc' \in {"halt", "map"}
                 /\ own' \in [info : Frame, map : Frame, init : Frame, tables : SUBSET Frame]
      BY <1>0, <3>2, PoolType DEF RestOK
    <3> QED
      BY <1>4, <3>1, <3>2 DEF AllocMap
  <2>3. RestOK'
    BY <1>0, <1>1, <2>1, <2>2 DEF RestOK, bounds
  <2> QED
    BY <1>2, <2>2, <2>3, TypePartsNext
<1>5. CASE GetMap
  <2>1. /\ UNCHANGED <<services, kind, own>> /\ pc = "map" /\ pc' \in {"exit", "idle"}
        /\ keyFresh' \in {TRUE, keyFresh}
    BY <1>5 DEF GetMap, Return
  <2>2. memMapSize' \in Nat
    BY <1>0, <1>5, MapSizeType DEF GetMap, RestOK
  <2>3. info' \in [kernelPhysicalAddress : Frame, kernelSize : Nat, init : Frame,
                   initSize : {InitBytes, Garbage}, memoryMap : [Frame -> MemType]]
    BY <1>0, <1>5, ConvertedType DEF GetMap, RestOK
  <2>4. KindOK' /\ Grows
    BY <1>0, <2>1 DEF KindOK, Grows
  <2>5. RestOK'
    BY <1>0, <1>1, <2>1, <2>2, <2>3 DEF RestOK, bounds
  <2> QED
    BY <1>2, <2>4, <2>5, TypePartsNext
<1>6. CASE Exit
  <2>1. UNCHANGED <<memory, info, own, memMapSize>> /\ pc = "exit"
    BY <1>6 DEF Exit
  <2>2. \/ pc' = "kernel" /\ services' = "off"
        \/ pc' = "idle" /\ services' \in {services, "partial"}
    BY <1>6 DEF Exit, Return
  <2>3. KindOK' /\ Grows
    BY <1>0, <2>1 DEF memory, KindOK, Grows
  <2>4. RestOK'
    BY <1>0, <1>1, <2>1, <2>2 DEF RestOK, bounds
  <2> QED
    BY <1>2, <2>3, <2>4, TypePartsNext
<1> QED
  BY <1>3, <1>4, <1>5, <1>6

\* A timer event leaves alone what the boot loader has allocated, its stack,
\* and its page tables.
Keeps ==
  \A f \in Frame :
    kind[f] = "LoaderData" \/ (kind[f] = "BootServicesData" /\ f \in own.tables \union {Stack})
      => kind'[f] = kind[f]

LEMMA TimerType ==
  ASSUME TypeOK, TimerEvent
  PROVE  TypeOK' /\ Keeps
<1>0. KindOK /\ GlobalsOK /\ RestOK
  BY TypeParts
<1>1. /\ UNCHANGED <<pc, services, globals, mapped, info, own, memMapSize, commands>>
      /\ keyFresh' = FALSE
  BY DEF TimerEvent
<1>2. events' \in Nat
  <2>1. events \in Nat
    BY <1>0 DEF RestOK
  <2> QED
    BY <2>1 DEF TimerEvent
<1>3. PICK f \in Frame \ {Stack} :
        \/ kind[f] = "ConventionalMemory" /\ kind' = [kind EXCEPT ![f] = "BootServicesData"]
        \/ /\ kind[f] = "BootServicesData" /\ f \notin own.tables
           /\ kind' = [kind EXCEPT ![f] = "ConventionalMemory"]
  BY DEF TimerEvent
<1>4. KindOK'
  BY <1>0, <1>1, <1>3, EfiTypes DEF KindOK
<1>5. Keeps
  BY <1>0, <1>3 DEF KindOK, Keeps
<1>6. GlobalsOK' /\ RestOK'
  BY <1>0, <1>1, <1>2 DEF GlobalsOK, RestOK, globals
<1> QED
  BY <1>4, <1>5, <1>6, TypePartsNext

LEMMA TypeStep ==
  ASSUME TypeOK, [Next]_vars
  PROVE  TypeOK' /\ Keeps
<1>1. Grows => Keeps
  BY DEF Grows, Keeps
<1>2. CASE UNCHANGED vars
  BY <1>2 DEF vars, TypeOK, Keeps
<1> QED
  BY <1>1, <1>2, CommandType, StartType, LoadKernelType, LoadInitType, MapKernelType,
     MapSteps, TimerType DEF Next, Step

\* The state of a boot is well-formed throughout, and the kernel runs if and
\* only if the boot services have ended.
THEOREM TypeCorrect == Spec => []TypeOK
<1>1. TypeOK /\ [Next]_vars => TypeOK'
  BY TypeStep
<1> QED
  BY <1>1, TypeInit, PTL DEF Spec

-----------------------------------------------------------------------------
(* What a boot has gathered so far.  Each part holds from the step that      *)
(* establishes it until the kernel runs.                                     *)

WithMap    == {"map", "exit", "kernel"}
WithTables == {"map size", "map buffer"} \union WithMap
WithInit   == {"mapping"} \union WithTables
WithImage  == {"init file"} \union WithInit
Running    == {"kernel file"} \union WithImage

Loader(f) == kind[f] = "LoaderData"

StackInv == kind[Stack] = "BootServicesData"

InfoInv == pc \in Running => Loader(own.info)

\* The globals and the boot information describe one complete image.
ImageInv ==
  pc \in WithImage =>
    /\ elfEntry \in Kernels /\ kernelPages = Pages[elfEntry]
    /\ info.kernelPhysicalAddress = loadedBin /\ info.kernelSize = Pages[elfEntry]
    /\ \A f \in loadedBin .. loadedBin + Pages[elfEntry] - 1 :
         f \in Frame /\ Loader(f) /\ content[f] = elfEntry

InitInv == pc \in WithInit => info.init = Stack \/ Loader(info.init)

TablesInv ==
  pc \in WithTables =>
    /\ mapped = loadedBin
    /\ \A f \in own.tables : kind[f] \in {"LoaderData", "BootServicesData"}

BufferInv == pc \in WithMap => Loader(own.map)

\* As long as mapKey is good, the map in the buffer is the firmware's.
MapInv == (pc = "exit" /\ keyFresh) \/ pc = "kernel" => info.memoryMap = Converted

BootInv == TypeOK /\ StackInv /\ InfoInv /\ ImageInv /\ InitInv /\ TablesInv /\ BufferInv /\ MapInv

\* The memory a boot depends on keeps its type in every step.
LEMMA KeptFrames ==
  ASSUME BootInv, Keeps
  PROVE  /\ StackInv'
         /\ \A f \in Frame : Loader(f) => kind'[f] = "LoaderData"
         /\ \A f \in own.tables :
              kind[f] \in {"LoaderData", "BootServicesData"} => kind'[f] = kind[f]
<1>1. Stack \in Frame /\ own.tables \subseteq Frame
  BY ConstantsAssumption DEF BootInv, TypeOK
<1> QED
  BY <1>1 DEF BootInv, StackInv, Keeps, Loader

LEMMA BootInit == Init => BootInv
<1> SUFFICES ASSUME Init PROVE BootInv
  OBVIOUS
<1>1. StackInv
  BY ConstantsAssumption DEF Init, StackInv
<1> QED
  BY <1>1, TypeInit DEF Init, BootInv, InfoInv, ImageInv, InitInv, TablesInv, BufferInv, MapInv,
     Running, WithImage, WithInit, WithTables, WithMap

\* A boot that is over, or that stops, keeps nothing.
LEMMA BootOver ==
  ASSUME BootInv, [Next]_vars, pc' \in {"idle", "halt"}
  PROVE  BootInv'
<1>1. TypeOK' /\ StackInv'
  BY TypeStep, KeptFrames DEF BootInv
<1> QED
  BY <1>1 DEF BootInv, InfoInv, ImageInv, InitInv, TablesInv, BufferInv, MapInv,
     Running, WithImage, WithInit, WithTables, WithMap

\* The boot information and the image stay described by what is unchanged.
LEMMA ImageKept ==
  ASSUME BootInv, Keeps, pc \in WithImage, UNCHANGED globals,
         info'.kernelPhysicalAddress = info.kernelPhysicalAddress,
         info'.kernelSize = info.kernelSize
  PROVE  ImageInv'
BY KeptFrames DEF BootInv, ImageInv, globals, Loader

LEMMA InfoKept ==
  ASSUME BootInv, Keeps, pc \in Running, own'.info = own.info
  PROVE  InfoInv'
<1>1. own.info \in Frame
  BY DEF BootInv, TypeOK
<1> QED
  BY <1>1, KeptFrames DEF BootInv, InfoInv, Loader

LEMMA InitKept ==
  ASSUME BootInv, Keeps, pc \in WithInit, info'.init = info.init
  PROVE  InitInv'
<1>1. info.init \in Frame
  BY DEF BootInv, TypeOK
<1> QED
  BY <1>1, KeptFrames DEF BootInv, InitInv, Loader

LEMMA TablesKept ==
  ASSUME BootInv, Keeps, pc \in WithTables, UNCHANGED globals, mapped' = mapped,
         own'.tables = own.tables
  PROVE  TablesInv'
BY KeptFrames DEF BootInv, TablesInv, globals

LEMMA BufferKept ==
  ASSUME BootInv, Keeps, pc \in WithMap, own'.map = own.map
  PROVE  BufferInv'
<1>1. own.map \in Frame
  BY DEF BootInv, TypeOK
<1> QED
  BY <1>1, KeptFrames DEF BootInv, BufferInv, Loader

\* One step per action; those that end the boot are covered by BootOver.
LEMMA BootStep ==
  ASSUME BootInv, [Next]_vars
  PROVE  BootInv'
<1> USE DEF WithMap, WithTables, WithInit, WithImage, Running
<1>0. TypeOK /\ KindOK /\ GlobalsOK /\ RestOK
  BY TypeParts DEF BootInv
<1>1. TypeOK' /\ Keeps /\ StackInv'
  BY TypeStep, KeptFrames DEF BootInv
<1>2. CASE pc' \in {"idle", "halt"}
  BY <1>2, BootOver
<1>3. CASE UNCHANGED vars
  <2>1. UNCHANGED <<pc, globals, mapped, info, own, memory>>
    BY <1>3 DEF vars, globals, memory
  <2>2. MapInv'
    BY <2>1 DEF BootInv, MapInv, Converted, memory
  <2>3. ImageInv' /\ InfoInv' /\ InitInv' /\ TablesInv' /\ BufferInv'
    BY <2>1 DEF BootInv, ImageInv, InfoInv, InitInv, TablesInv, BufferInv, Loader, globals, memory
  <2> QED
    BY <1>1, <2>2, <2>3 DEF BootInv
<1>4. CASE Command
  <2>1. pc' \in {"idle", "halt"}
    BY <1>4 DEF Command, LoadHalts, Halt
  <2> QED
    BY <1>2, <2>1
<1>5. CASE Start /\ pc' \notin {"idle", "halt"}
  <2>1. PICK f \in Frame : Pool(f) /\ own' = [own EXCEPT !.info = f] /\ pc' = "kernel file"
    BY <1>5 DEF Start, Halt
  <2>2. own'.info = f /\ kind'[f] = "LoaderData"
    BY <1>0, <2>1, PoolType DEF RestOK
  <2> QED
    BY <1>1, <2>1, <2>2 DEF BootInv, InfoInv, ImageInv, InitInv, TablesInv, BufferInv, MapInv, Loader
<1>6. CASE LoadKernel /\ pc' \notin {"idle", "halt"}
  <2>1. PICK k \in Kernels, b \in Candidates(Free) :
          /\ LoadedAt(k, b)
          /\ info' = [info EXCEPT !.kernelPhysicalAddress = loadedBin', !.kernelSize = kernelPages']
          /\ pc' = "init file"
    BY <1>6 DEF LoadKernel, LoadHalts, Halt, Return
  <2>2. /\ elfEntry' = k /\ loadedBin' = b /\ kernelPages' = Pages[k]
        /\ \A f \in b .. b + Pages[k] - 1 :
             f \in Frame /\ kind'[f] = "LoaderData" /\ content'[f] = k
    BY <1>0, <2>1, LoadedAtType
  <2>3. info'.kernelPhysicalAddress = b /\ info'.kernelSize = Pages[k]
    BY <1>0, <2>1, <2>2 DEF RestOK
  <2>4. ImageInv'
    BY <2>1, <2>2, <2>3 DEF ImageInv, Loader
  <2>5. pc = "kernel file" /\ own' = own
    BY <1>6 DEF LoadKernel
  <2>6. InfoInv'
    BY <1>1, <2>5, InfoKept
  <2> QED
    BY <1>1, <2>1, <2>4, <2>6 DEF BootInv, InitInv, TablesInv, BufferInv, MapInv
<1>7. CASE LoadInit /\ pc' \notin {"idle", "halt"}
  <2>1. pc = "init file" /\ pc' = "mapping" /\ UNCHANGED globals
    BY <1>7 DEF LoadInit, Halt
  <2>2. /\ info'.kernelPhysicalAddress = info.kernelPhysicalAddress
        /\ info'.kernelSize = info.kernelSize
        /\ own'.info = own.info
        /\ info'.init = Stack \/ kind'[info'.init] = "LoaderData"
    <3>1. CASE info' = [info EXCEPT !.init = Stack, !.initSize = Garbage] /\ own' = own
      BY <1>0, <3>1 DEF RestOK
    <3>2. ASSUME NEW f \in Frame, Pool(f), own' = [own EXCEPT !.init = f],
                 info' = [info EXCEPT !.init = f, !.initSize = InitBytes]
          PROVE  /\ info'.kernelPhysicalAddress = info.kernelPhysicalAddress
                 /\ info'.kernelSize = info.kernelSize
                 /\ own'.info = own.info
                 /\ info'.init = Stack \/ kind'[info'.init] = "LoaderData"
      BY <1>0, <3>2, PoolType DEF RestOK
    <3> QED
      BY <1>7, <3>1, <3>2 DEF LoadInit, Halt
  <2>3. ImageInv' /\ InfoInv' /\ InitInv'
    BY <1>1, <2>1, <2>2, ImageKept, InfoKept DEF InitInv, Loader
  <2> QED
    BY <1>1, <2>1, <2>3 DEF BootInv, TablesInv, BufferInv, MapInv
<1>8. CASE MapKernel /\ pc' \notin {"idle", "halt"}
  <2>0. PICK f \in Candidates(Free) :
          \E g \in Candidates(Free \ {f}) : Tables(f, g) /\ pc' = "map size"
    BY <1>8 DEF MapKernel, Halt
  <2>1. PICK g \in Candidates(Free \ {f}) : Tables(f, g) /\ pc' = "map size"
    BY <2>0
  <2>2. pc = "mapping" /\ UNCHANGED globals /\ info' = info
    BY <1>8 DEF MapKernel
  <2>3. kind'[f] = "LoaderData" /\ kind'[g] = "BootServicesData"
    BY <1>0, <2>1, TablesType
  <2>4. own'.tables = {f, g} /\ own'.info = own.info /\ mapped' = loadedBin
    BY <1>0, <2>1 DEF Tables, RestOK
  <2>5. TablesInv'
    BY <2>2, <2>3, <2>4 DEF TablesInv, globals
  <2>6. ImageInv' /\ InfoInv' /\ InitInv'
    BY <1>1, <2>2, <2>4, ImageKept, InfoKept, InitKept
  <2> QED
    BY <1>1, <2>1, <2>5, <2>6 DEF BootInv, BufferInv, MapInv
<1>9. CASE QuerySize
  <2>1. /\ pc = "map size" /\ pc' = "map buffer"
        /\ UNCHANGED <<memory, globals, mapped, info, own>>
    BY <1>9 DEF QuerySize
  <2>2. ImageInv' /\ InfoInv' /\ InitInv' /\ TablesInv'
    BY <1>1, <2>1, ImageKept, InfoKept, InitKept, TablesKept
  <2> QED
    BY <1>1, <2>1, <2>2 DEF BootInv, BufferInv, MapInv
<1>10. CASE AllocMap /\ pc' \notin {"idle", "halt"}
  <2>1. PICK f \in Frame : Pool(f) /\ own' = [own EXCEPT !.map = f] /\ pc' = "map"
    BY <1>10 DEF AllocMap, Halt
  <2>2. pc = "map buffer" /\ UNCHANGED <<globals, mapped, info>>
    BY <1>10 DEF AllocMap
  <2>3. own'.map = f /\ own'.info = own.info /\ own'.tables = own.tables /\ kind'[f] = "LoaderData"
    BY <1>0, <2>1, PoolType DEF RestOK
  <2>4. ImageInv' /\ InfoInv' /\ InitInv' /\ TablesInv' /\ BufferInv'
    BY <1>1, <2>2, <2>3, ImageKept, InfoKept, InitKept, TablesKept DEF BufferInv, Loader
  <2> QED
    BY <1>1, <2>1, <2>4 DEF BootInv, MapInv
<1>11. CASE GetMap /\ pc' \notin {"idle", "halt"}
  <2>1. /\ pc = "map" /\ pc' = "exit" /\ UNCHANGED <<kind, globals, mapped, own>>
        /\ info' = [info EXCEPT !.memoryMap = Converted]
    BY <1>11 DEF GetMap, Return
  <2>2. /\ info'.memoryMap = Converted
        /\ info'.kernelPhysicalAddress = info.kernelPhysicalAddress
        /\ info'.kernelSize = info.kernelSize /\ info'.init = info.init
    BY <1>0, <2>1 DEF RestOK
  <2>3. MapInv'
    BY <2>1, <2>2 DEF MapInv, Converted
  <2>4. ImageInv' /\ InfoInv' /\ InitInv' /\ TablesInv' /\ BufferInv'
    BY <1>1, <2>1, <2>2, ImageKept, InfoKept, InitKept, TablesKept, BufferKept
  <2> QED
    BY <1>1, <2>3, <2>4 DEF BootInv
<1>12. CASE Exit /\ pc' \notin {"idle", "halt"}
  <2>1. /\ pc = "exit" /\ pc' = "kernel" /\ keyFresh
        /\ UNCHANGED <<memory, globals, mapped, info, own>>
    BY <1>12 DEF Exit, Return
  <2>2. MapInv'
    BY <2>1 DEF BootInv, MapInv, Converted, memory
  <2>3. ImageInv' /\ InfoInv' /\ InitInv' /\ TablesInv' /\ BufferInv'
    BY <1>1, <2>1, ImageKept, InfoKept, InitKept, TablesKept, BufferKept
  <2> QED
    BY <1>1, <2>2, <2>3 DEF BootInv
<1>13. CASE TimerEvent /\ pc' \notin {"idle", "halt"}
  <2>1. /\ pc' = pc /\ services = "on" /\ ~ keyFresh'
        /\ UNCHANGED <<globals, mapped, info, own>>
    BY <1>13 DEF TimerEvent
  <2>2. pc # "kernel"
    BY <1>0, <2>1 DEF RestOK
  <2>3. MapInv'
    BY <2>1, <2>2 DEF MapInv
  <2>4. ImageInv'
    BY <1>1, <2>1, ImageKept DEF ImageInv
  <2>5. InfoInv' /\ InitInv' /\ TablesInv' /\ BufferInv'
    BY <1>1, <2>1, InfoKept, InitKept, TablesKept, BufferKept
       DEF InfoInv, InitInv, TablesInv, BufferInv
  <2> QED
    BY <1>1, <2>3, <2>4, <2>5 DEF BootInv
<1> QED
  BY <1>2, <1>3, <1>4, <1>5, <1>6, <1>7, <1>8, <1>9, <1>10, <1>11, <1>12, <1>13 DEF Next, Step

-----------------------------------------------------------------------------
(* What the kernel can rely on. *)

LEMMA BootAlways == Spec => []BootInv
<1>1. BootInv /\ [Next]_vars => BootInv'
  BY BootStep
<1> QED
  BY <1>1, BootInit, PTL DEF Spec

\* The kernel is told the truth about every frame (adachiite.c:93-123).
THEOREM MapIsCurrent == Spec => []MapCurrent
<1>1. BootInv => MapCurrent
  BY DEF BootInv, MapInv, MapCurrent, InKernel, Converted
<1> QED
  BY <1>1, BootAlways, PTL

\* Nothing the kernel starts with is offered to it as usable memory.
THEOREM KernelMemoryIsKept == Spec => []KernelMemoryKept
<1>1. BootInv => KernelMemoryKept
  <2> SUFFICES ASSUME BootInv, pc = "kernel",
                      NEW f \in ImageFrames \union own.tables \union {own.info, own.map, Stack}
               PROVE  info.memoryMap[f] # "USABLE"
    BY DEF KernelMemoryKept, InKernel
  <2>1. /\ info.memoryMap = Converted
        /\ kind \in [Frame -> EfiType] /\ own.tables \subseteq Frame
        /\ own.info \in Frame /\ own.map \in Frame /\ Stack \in Frame
    BY ConstantsAssumption DEF BootInv, MapInv, TypeOK
  <2>2. f \in Frame /\ kind[f] \in {"LoaderData", "BootServicesData"}
    BY <2>1 DEF BootInv, ImageInv, ImageFrames, TablesInv, InfoInv, BufferInv, StackInv, Loader,
       WithMap, WithTables, WithInit, WithImage, Running
  <2> QED
    BY <2>1, <2>2, OnlyFreeIsUsable DEF Converted
<1> QED
  BY <1>1, BootAlways, PTL

\* The kernel is entered at the entry point of the image that is mapped and
\* that it is told of, whatever was loaded before (adachiite.c:61-67, 123).
THEOREM EntryIsConsistent == Spec => []EntryConsistent
<1>1. BootInv => EntryConsistent
  BY DEF BootInv, ImageInv, TablesInv, EntryConsistent, InKernel,
     WithMap, WithTables, WithInit, WithImage
<1> QED
  BY <1>1, BootAlways, PTL

\* The address of init lies in memory the kernel does not reuse, whether or
\* not there is an init file (adachiite.c:70-80).
THEOREM InitIsReadable == Spec => []InitReadable
<1>1. BootInv => InitReadable
  <2> SUFFICES ASSUME BootInv, pc = "kernel"
               PROVE  info.memoryMap[info.init] \in {"BOOTLOADER", "UEFIDATA"}
    BY DEF InitReadable, InKernel
  <2>1. info.memoryMap = Converted /\ info.init \in Frame /\ kind \in [Frame -> EfiType]
    BY DEF BootInv, MapInv, TypeOK
  <2>2. kind[info.init] \in {"LoaderData", "BootServicesData"}
    BY DEF BootInv, InitInv, StackInv, Loader, WithMap, WithTables, WithInit
  <2> QED
    BY <2>1, <2>2, OnlyFreeIsUsable DEF Converted
<1> QED
  BY <1>1, BootAlways, PTL

\* What the firmware and the hardware still use is never offered to the kernel,
\* for every memory map the machine may have (adachiite.c:6-40).
THEOREM FirmwareIsKept == Spec => []FirmwareKept
<1>1. BootInv => FirmwareKept
  <2> SUFFICES ASSUME BootInv, pc = "kernel", NEW f \in Frame, kind[f] # "ConventionalMemory"
               PROVE  info.memoryMap[f] # "USABLE"
    BY DEF FirmwareKept, InKernel
  <2>1. info.memoryMap = Converted /\ kind[f] \in EfiType
    BY DEF BootInv, MapInv, TypeOK
  <2> QED
    BY <2>1, OnlyFreeIsUsable DEF Converted
<1> QED
  BY <1>1, BootAlways, PTL

\* A boot after a failed one is never refused for an old map (adachiite.c:97-121).
THEOREM RetryIsAccepted == Spec => []RetryAccepted
<1>1. Init => RetryAccepted
  BY DEF Init, RetryAccepted
<1>2. RetryAccepted /\ [Next]_vars => RetryAccepted'
  <2> SUFFICES ASSUME RetryAccepted, [Next]_vars, pc' = "exit", services' = "partial"
               PROVE  keyFresh'
    BY DEF RetryAccepted
  <2>1. CASE GetMap
    BY <2>1 DEF GetMap, Return
  <2>2. CASE Exit
    BY <2>2 DEF Exit, Return
  <2>3. CASE TimerEvent
    BY <2>3 DEF TimerEvent
  <2>4. CASE Command \/ Start \/ LoadKernel \/ LoadInit \/ MapKernel \/ QuerySize \/ AllocMap
    BY <2>4 DEF Command, Start, LoadKernel, LoadInit, MapKernel, QuerySize, AllocMap,
       Halt, Return, LoadHalts
  <2>5. CASE UNCHANGED vars
    BY <2>5 DEF vars, RetryAccepted
  <2> QED
    BY <2>1, <2>2, <2>3, <2>4, <2>5 DEF Next, Step
<1> QED
  BY <1>1, <1>2, PTL DEF Spec
=============================================================================
