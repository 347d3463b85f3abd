------------------------------ MODULE Handover ------------------------------
(* The boot of a kernel, adachiite/adachiite.c: adachiite(), started by      *)
(* efi_main() and by the shell command `adachiite`, between the commands     *)
(* `loadelf` and `mapaddr`, which assign the same globals.                   *)
(*                                                                           *)
(* A boot loads the kernel and the init file, maps the kernel, fetches the   *)
(* firmware's memory map into a buffer sized beforehand, and enters the      *)
(* kernel if the firmware accepts the map as current.  The firmware's timer  *)
(* events may allocate and free memory between any two steps.  The map is a  *)
(* function from frames to types; a descriptor stands for a run of frames of *)
(* the same type.  LoadElf and MapAddress model in detail the two calls that *)
(* are single steps here.                                                    *)
EXTENDS Naturals, FiniteSets

CONSTANTS
  NFrames,        \* frames of physical memory
  Layouts,        \* the memory maps the boot loader may find
  Stack,          \* the frame of the boot loader's stack
  Kernels,        \* the kernel files a path may name
  Pages,          \* how many pages loadElf allocates for each
  NoKernel,       \* no kernel, or a part of one
  DescSize,       \* sizeof(EFI_MEMORY_DESCRIPTOR) of the firmware: 48
  Slack,          \* the 60 bytes added to the size of the map
  InitBytes,      \* the size of the init file
  Garbage,        \* a variable nothing was assigned to
  Candidates(_),  \* of the frames that are free, those the firmware may give
  MaxCommands,    \* bound on the commands
  MaxEvents       \* bound on the timer events that change the memory map

Frame == 0 .. NFrames - 1

reserved == {"ReservedMemoryType", "UnusableMemory", "PalCode", "UnacceptedMemoryType"}
bootloader == {"LoaderCode", "LoaderData"}
uefi == {"BootServicesCode", "RuntimeServicesCode", "BootServicesData"}
acpi == {"ACPIMemoryNVS", "ACPIReclaimMemory"}
memoryMapped == {"MemoryMappedIO", "MemoryMappedIOPortSpace"}

\* EFI_MEMORY_TYPE; the code has no list with RuntimeServicesData.
EfiType == reserved \union bootloader \union uefi \union acpi \union memoryMapped
             \union {"ConventionalMemory", "PersistentMemory", "RuntimeServicesData"}

\* MEMORYTYPE, what the kernel is told of a frame.
MemType == {"RESERVED", "BOOTLOADER", "UEFIDATA", "ACPI", "MEMORY_MAPPEDIO", "USABLE", "PERSISTENT"}

ASSUME ConstantsAssumption ==
  /\ NFrames \in Nat /\ Stack \in Frame
  /\ Layouts # {} /\ Layouts \subseteq [Frame -> EfiType]
  /\ \A m \in Layouts : m[Stack] = "BootServicesData"
  /\ NoKernel \notin Kernels /\ Pages \in [Kernels -> Nat \ {0}]
  /\ DescSize \in Nat /\ Slack \in Nat /\ InitBytes \in Nat /\ Garbage \notin Nat
  /\ MaxCommands \in Nat /\ MaxEvents \in Nat

\* The firmware gives no frame that is in use.
ASSUME AllocatorAssumption == \A F \in SUBSET Frame : Candidates(F) \subseteq F

VARIABLES
  pc,           \* the next step of the running boot, "idle" in the shell
  services,     \* the boot services: "on", "partial" (shut down in part), "off"
  kind,         \* the type of every frame
  keyFresh,     \* the memory map has not changed since mapKey was obtained
  content,      \* the kernel whose image a frame holds
  loadedBin, kernelPages, elfEntry,  \* the globals of loadElf.c
  mapped,       \* the page at 0xffffffff80000000, once mapAddress has run
  info,         \* the AdachiiteBootInfo of the running boot
  own,          \* the frames of its info, map, init and page tables
  memMapSize,   \* the size of the map buffer
  commands, events

vars == <<pc, services, kind, keyFresh, content, loadedBin, kernelPages, elfEntry,
          mapped, info, own, memMapSize, commands, events>>

memory  == <<kind, keyFresh>>
globals == <<loadedBin, kernelPages, elfEntry, content>>
bounds  == <<commands, events>>

-----------------------------------------------------------------------------
(* The memory map. *)

\* Mutant: memory of the boot loader counts as usable.
checkMemTypeLoaderUsable(t) ==
  IF t \in bootloader \union {"ConventionalMemory"} THEN "USABLE"
  ELSE IF t \in uefi THEN "UEFIDATA" ELSE "RESERVED"

\* Mutant: what is in none of the lists is usable.
checkMemTypeOtherUsable(t) ==
  CASE t \in bootloader   -> "BOOTLOADER"
    [] t \in uefi         -> "UEFIDATA"
    [] t \in acpi         -> "ACPI"
    [] t \in memoryMapped -> "MEMORY_MAPPEDIO"
    [] OTHER              -> "USABLE"

checkMemType(t) ==
  CASE t \in bootloader            -> "BOOTLOADER"
    [] t \in uefi                  -> "UEFIDATA"
    [] t \in acpi                  -> "ACPI"
    [] t \in memoryMapped          -> "MEMORY_MAPPEDIO"
    [] t = "ConventionalMemory"    -> "USABLE"
    [] t = "PersistentMemory"      -> "PERSISTENT"
    [] OTHER                       -> "RESERVED"

\* convertMemMapType on a map just obtained.
Converted == [f \in Frame |-> checkMemType(kind[f])]

\* The bytes GetMemoryMap needs: a descriptor for each run of one type.
MapSize == DescSize * Cardinality({f \in Frame : f = 0 \/ kind[f] # kind[f - 1]})

Free == {f \in Frame : kind[f] = "ConventionalMemory"}

\* The frames in F are given to the boot loader; an old mapKey is stale then.
Allocated(F, type) ==
  /\ kind' = [f \in Frame |-> IF f \in F THEN type ELSE kind[f]]
  /\ keyFresh' = FALSE

\* allocPool gives a part of frame f: of a new one, or of one that other
\* buffers of the boot loader share, and then the map does not change.
Pool(f) ==
  \/ /\ f \in Candidates(Free)
     /\ Allocated({f}, "LoaderData")
  \/ f = own.info /\ kind[f] = "LoaderData" /\ UNCHANGED memory

Return == pc' = "idle"
Halt == pc' = "halt" /\ UNCHANGED memory  \* for (;;) after OUT OF MEMORY

-----------------------------------------------------------------------------
(* loadElf and mapAddress, for a boot and for the shell. *)

\* loadElf loads kernel k to the frames from b on, and the globals with it.
LoadedAt(k, b) ==
  LET run == b .. b + Pages[k] - 1 IN
  /\ run \subseteq Free
  /\ Allocated(run, "LoaderData")
  /\ content' = [f \in Frame |-> IF f \in run THEN k ELSE content[f]]
  /\ loadedBin' = b /\ kernelPages' = Pages[k] /\ elfEntry' = k

\* loadElf fails after it has allocated the frames from b on.
LoadFailsAt(k, b) ==
  LET run == b .. b + Pages[k] - 1 IN
  /\ run \subseteq Free
  /\ Allocated(run, "LoaderData")
  /\ content' = [f \in Frame |-> IF f \in run THEN NoKernel ELSE content[f]]
  /\ loadedBin' = b /\ kernelPages' = Pages[k] /\ UNCHANGED elfEntry

LoadFails(k) ==
  \/ UNCHANGED <<globals, memory>>
  \/ \E b \in Candidates(Free) : LoadFailsAt(k, b)

\* loadElf has set kernelPages when allocPage finds no frames.
LoadHalts(k) ==
  /\ Halt
  /\ kernelPages' \in {kernelPages, Pages[k]}
  /\ UNCHANGED <<loadedBin, elfEntry, content>>

\* mapAddress: the page tables are boot services data, the rest loader data.
Tables(f, g) ==
  /\ f # g
  /\ kind' = [kind EXCEPT ![f] = "LoaderData", ![g] = "BootServicesData"]
  /\ keyFresh' = FALSE
  /\ mapped' = loadedBin
  /\ own' = [own EXCEPT !.tables = {f, g}]

\* The shell commands `loadelf` and `mapaddr`.
Command ==
  /\ pc = "idle" /\ commands < MaxCommands
  /\ commands' = commands + 1
  /\ \/ /\ \E k \in Kernels :
             \/ pc' = "idle" /\ LoadFails(k)
             \/ pc' = "idle" /\ \E b \in Candidates(Free) : LoadedAt(k, b)
             \/ LoadHalts(k)
        /\ UNCHANGED <<mapped, own>>
     \/ /\ \/ Halt /\ UNCHANGED <<mapped, own>>
           \/ pc' = "idle" /\ \E f \in Candidates(Free) : \E g \in Candidates(Free \ {f}) : Tables(f, g)
        /\ UNCHANGED globals
  /\ UNCHANGED <<services, info, memMapSize, events>>

-----------------------------------------------------------------------------
(* A boot: adachiite(kernelPath, initPath). *)

Start ==
  /\ pc = "idle" /\ commands < MaxCommands
  /\ commands' = commands + 1
  /\ \/ Halt /\ UNCHANGED own
     \/ \E f \in Frame : Pool(f) /\ own' = [own EXCEPT !.info = f] /\ pc' = "kernel file"
  /\ UNCHANGED <<services, globals, mapped, info, memMapSize, events>>

\* Mutant: the result of loadElf is not looked at.
LoadKernelUnchecked ==
  /\ pc = "kernel file"
  /\ \E k \in Kernels : LoadFails(k) \/ \E b \in Candidates(Free) : LoadedAt(k, b)
  /\ info' = [info EXCEPT !.kernelPhysicalAddress = loadedBin', !.kernelSize = kernelPages']
  /\ pc' = "init file"
  /\ UNCHANGED <<services, mapped, own, memMapSize, bounds>>

LoadKernel ==
  /\ pc = "kernel file"
  /\ \E k \in Kernels :
       \/ LoadHalts(k) /\ UNCHANGED info
       \/ LoadFails(k) /\ Return /\ UNCHANGED info
       \/ /\ \E b \in Candidates(Free) : LoadedAt(k, b)
          /\ info' = [info EXCEPT !.kernelPhysicalAddress = loadedBin', !.kernelSize = kernelPages']
          /\ pc' = "init file"
  /\ UNCHANGED <<services, mapped, own, memMapSize, bounds>>

\* Mutant: initAddress starts as a null pointer.
LoadInitNull ==
  /\ pc = "init file"
  /\ info' = [info EXCEPT !.init = 0, !.initSize = Garbage]
  /\ pc' = "mapping"
  /\ UNCHANGED <<services, memory, globals, mapped, own, memMapSize, bounds>>

\* loadFile and what follows it.  If the file cannot be opened, init is the
\* address of a variable on the stack and initSize was never assigned; if it
\* can, init is the buffer, whether or not it could be read.
LoadInit ==
  /\ pc = "init file"
  /\ \/ Halt /\ UNCHANGED <<info, own>>
     \/ /\ info' = [info EXCEPT !.init = Stack, !.initSize = Garbage]
        /\ pc' = "mapping"
        /\ UNCHANGED <<memory, own>>
     \/ \E f \in Frame :
          /\ Pool(f)
          /\ own' = [own EXCEPT !.init = f]
          /\ info' = [info EXCEPT !.init = f, !.initSize = InitBytes]
          /\ pc' = "mapping"
  /\ UNCHANGED <<services, globals, mapped, memMapSize, bounds>>

MapKernel ==
  /\ pc = "mapping"
  /\ \/ Halt /\ UNCHANGED <<mapped, own>>
     \/ /\ \E f \in Candidates(Free) : \E g \in Candidates(Free \ {f}) : Tables(f, g)
        /\ pc' = "map size"
  /\ UNCHANGED <<services, globals, info, memMapSize, bounds>>

\* GetMemoryMap without a buffer.  It fails, and returns no mapKey.
QuerySize ==
  /\ pc = "map size"
  /\ memMapSize' = MapSize
  /\ pc' = "map buffer"
  /\ UNCHANGED <<services, memory, globals, mapped, info, own, bounds>>

AllocMap ==
  /\ pc = "map buffer"
  /\ \/ Halt /\ UNCHANGED <<own, memMapSize>>
     \/ \E f \in Frame :
          /\ Pool(f)
          /\ own' = [own EXCEPT !.map = f] /\ memMapSize' = memMapSize + Slack
          /\ pc' = "map"
  /\ UNCHANGED <<services, globals, mapped, info, bounds>>

\* Mutant: mapKey is that of the query for the size.
GetMapOldKey ==
  /\ pc = "map"
  /\ IF MapSize <= memMapSize
     THEN /\ memMapSize' = MapSize /\ pc' = "exit"
          /\ info' = [info EXCEPT !.memoryMap = Converted]
     ELSE Return /\ UNCHANGED <<memMapSize, info>>
  /\ UNCHANGED <<services, memory, globals, mapped, own, bounds>>

\* GetMemoryMap into the buffer, and convertMemMapType.
GetMap ==
  /\ pc = "map"
  /\ IF MapSize <= memMapSize
     THEN /\ memMapSize' = MapSize /\ keyFresh' = TRUE
          /\ info' = [info EXCEPT !.memoryMap = Converted]
          /\ pc' = "exit"
     ELSE Return /\ UNCHANGED <<memMapSize, keyFresh, info>>
  /\ UNCHANGED <<services, kind, globals, mapped, own, bounds>>

\* Mutant: the status of ExitBootServices is not looked at.
ExitUnchecked ==
  /\ pc = "exit"
  /\ pc' = "kernel"
  /\ services' = IF keyFresh THEN "off" ELSE "partial"
  /\ UNCHANGED <<memory, globals, mapped, info, own, memMapSize, bounds>>

\* Mutant: a failed ExitBootServices starts again with the size of the map.
ExitRetry ==
  /\ pc = "exit"
  /\ \/ keyFresh /\ pc' = "kernel" /\ services' = "off"
     \/ pc' = "map size" /\ services' = "partial"
  /\ UNCHANGED <<memory, globals, mapped, info, own, memMapSize, bounds>>

\* ExitBootServices succeeds only if mapKey is that of the current map.  When
\* it fails it may have shut down a part of the firmware; the code returns.
Exit ==
  /\ pc = "exit"
  /\ \/ keyFresh /\ pc' = "kernel" /\ services' = "off"  \* callKernel
     \/ Return /\ services' \in {services, "partial"}
  /\ UNCHANGED <<memory, globals, mapped, info, own, memMapSize, bounds>>

\* A timer event in which the firmware allocates or frees a frame.
TimerEvent ==
  /\ services = "on" /\ events < MaxEvents
  /\ events' = events + 1
  /\ \E f \in Frame \ {Stack} :
       \/ kind[f] = "ConventionalMemory" /\ kind' = [kind EXCEPT ![f] = "BootServicesData"]
       \/ /\ kind[f] = "BootServicesData" /\ f \notin own.tables
          /\ kind' = [kind EXCEPT ![f] = "ConventionalMemory"]
  /\ keyFresh' = FALSE
  /\ UNCHANGED <<pc, services, globals, mapped, info, own, memMapSize, commands>>

Init ==
  /\ pc = "idle" /\ services = "on"
  /\ kind \in Layouts /\ keyFresh = FALSE
  /\ content = [f \in Frame |-> NoKernel]
  /\ loadedBin = 0 /\ kernelPages = 0 /\ elfEntry = NoKernel /\ mapped = 0
  /\ info = [kernelPhysicalAddress |-> 0, kernelSize |-> 0, init |-> 0, initSize |-> Garbage,
             memoryMap |-> [f \in Frame |-> "RESERVED"]]
  /\ own = [info |-> Stack, map |-> Stack, init |-> Stack, tables |-> {}]
  /\ memMapSize = 0 /\ commands = 0 /\ events = 0

Step == LoadKernel \/ LoadInit \/ MapKernel \/ QuerySize \/ AllocMap \/ GetMap \/ Exit

Next == Command \/ Start \/ Step \/ TimerEvent

Spec == Init /\ [][Next]_vars

\* A boot that has started goes on.
FairSpec == Spec /\ WF_vars(Step)

-----------------------------------------------------------------------------
(* Properties. *)

TypeOK ==
  /\ pc \in {"idle", "kernel file", "init file", "mapping", "map size", "map buffer",
             "map", "exit", "kernel", "halt"}
  /\ services \in {"on", "partial", "off"} /\ (pc = "kernel" <=> services = "off")
  /\ kind \in [Frame -> EfiType] /\ keyFresh \in BOOLEAN
  /\ content \in [Frame -> Kernels \union {NoKernel}]
  /\ loadedBin \in Frame /\ kernelPages \in Nat /\ elfEntry \in Kernels \union {NoKernel}
  /\ mapped \in Frame
  /\ info \in [kernelPhysicalAddress : Frame, kernelSize : Nat, init : Frame,
               initSize : {InitBytes, Garbage}, memoryMap : [Frame -> MemType]]
  /\ own \in [info : Frame, map : Frame, init : Frame, tables : SUBSET Frame]
  /\ memMapSize \in Nat /\ commands \in Nat /\ events \in Nat

InKernel == pc = "kernel"

\* The kernel is told the truth about every frame: the map was converted
\* from the one that is current when the kernel is entered, although timer
\* events may change it up to the moment the boot services end.
MapCurrent == InKernel => info.memoryMap = [f \in Frame |-> checkMemType(kind[f])]

ImageFrames == loadedBin .. loadedBin + kernelPages - 1

\* Nothing the kernel lives on or needs to start is offered to it as usable
\* memory: its image, its page tables, the stack it is entered on, and the
\* boot information with the map in it.
KernelMemoryKept ==
  InKernel => \A f \in ImageFrames \union own.tables \union {own.info, own.map, Stack} :
                info.memoryMap[f] # "USABLE"

\* The kernel is entered at the entry point of the file whose image is
\* complete in memory, mapped at the kernel's addresses, and described by
\* the boot information, whatever other kernels were loaded or failed to
\* load before, and although the loader replaces its globals one by one.
EntryConsistent ==
  InKernel =>
    /\ elfEntry \in Kernels
    /\ mapped = loadedBin /\ info.kernelPhysicalAddress = loadedBin
    /\ info.kernelSize = Pages[elfEntry]
    /\ \A f \in loadedBin .. loadedBin + Pages[elfEntry] - 1 : content[f] = elfEntry

\* The address of init can be read by the kernel, and the kernel cannot give
\* the memory away, also when the init file is missing (adachiite.c:70).
InitReadable == InKernel => info.memoryMap[info.init] \in {"BOOTLOADER", "UEFIDATA"}

\* What the firmware and the hardware use after the boot services have ended
\* is not offered as usable memory, although runtime services data, among
\* others, is in none of the lists (adachiite.c:6-18).
FirmwareKept ==
  InKernel => \A f \in Frame :
    kind[f] \notin bootloader \union {"ConventionalMemory"} => info.memoryMap[f] # "USABLE"

\* A failed ExitBootServices may have shut down a part of the firmware; the
\* code goes back to the shell all the same (adachiite.c:118-121).  The events
\* are off then, and nothing the code does itself after it has obtained the
\* map makes mapKey stale: no later boot can be refused for that reason.
RetryAccepted == services = "partial" /\ pc = "exit" => keyFresh

\* Every boot comes to an end: the kernel runs, or the boot returns, or it
\* stops for lack of memory.
BootEnds == (pc # "idle") ~> (pc \in {"idle", "kernel", "halt"})

\* The buffer for the memory map is large enough (adachiite.c:99).
MapFits == pc = "map" => MapSize <= memMapSize

\* initSize is the size of the init file in bytes (protocol.h:47).
InitSizeInBytes == InKernel => info.initSize \in Nat
=============================================================================
