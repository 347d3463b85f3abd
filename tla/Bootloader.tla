----------------------------- MODULE Bootloader -----------------------------
(* LoadElf and MapAddress on one machine: a loader that writes bytes and a  *)
(* mapper that writes page tables into the same memory, with pages from the *)
(* same allocator, called one after the other by adachiite() and by the     *)
(* commands `loadelf` and `mapaddr`.  A page seen as bytes is `mem`, seen   *)
(* as a table is `tables`; a step that writes one view changes the other.   *)
EXTENDS Naturals, Sequences

CONSTANTS
  Word, PageSize, NPages, Firmware, HeaderSize, MagicSize, PhdrSize, Files, StackHeaders, NoFile,
  Zero, Junk, MaxCalls,                         \* see LoadElf
  N, Absent, Root, Layouts, Candidates(_),      \* see MapAddress; Firmware is one for both
  Overwritten,                                  \* a page of bytes, read as a table
  MaxMappings                                   \* bound on the calls of mapAddress

\* virtAddr is where the tables put loadedBin: PML4[511], PDP[510], in bytes.
VirtAddr == ((N - 1) * (N * N * N) + (N - 2) * (N * N)) * PageSize

\* What one page directory maps, 1 GiB.
Window == (N * N) * PageSize

VARIABLES
  pc, file, header, programHeaders, i, largestMemAdd, largestMemSize,
  elfEntry, loadedBin, kernelPages, mem, pages, handles, pool, history,  \* see LoadElf
  step, cr3, tables, PML4, PD, PDP, j, mappings,                         \* see MapAddress
  shows,      \* the call of loadElf whose kernel was mapped last, or 0
  images      \* the pages loadElf was ever given, whether its call succeeded or not

loader == <<pc, file, header, programHeaders, i, largestMemAdd, largestMemSize,
            elfEntry, loadedBin, kernelPages, handles, pool, history>>
mapper == <<step, cr3, PML4, PD, PDP, j, mappings>>
vars == <<loader, mapper, mem, tables, pages, shows, images>>

Elf == INSTANCE LoadElf

Map == INSTANCE MapAddress WITH
         pc <- step, i <- j, used <- pages, loadedBin <- loadedBin \div PageSize,
         image <- images, commands <- mappings, MaxCommands <- MaxMappings,
         NFrames <- NPages, ImagePages <- 1, Contents <- {Overwritten}

ASSUME MapAssumption ==
  Map!EntryAssumption /\ Map!FrameAssumption /\ Map!LayoutAssumption /\ Map!AllocatorAssumption
ASSUME ElfAssumption ==
  /\ Elf!SizeAssumption /\ Elf!FirmwareAssumption /\ Elf!FilesAssumption
  /\ Elf!ByteAssumption /\ Elf!MaxCallsAssumption

\* An address is what the processor translates of it, its lower 48 bits: an
\* index into a table of each level and an offset.
ASSUME MachineAssumption == Word = (N * N * N * N) * PageSize

PageOf(a) == a \div PageSize

\* A step of a running loadElf, or the call of one.
LoaderStep ==
  /\ step = "idle"
  /\ Elf!Next
  /\ tables' = [f \in Map!Frame |->
                  IF \E o \in 0 .. PageSize - 1 : mem'[f * PageSize + o] # mem[f * PageSize + o]
                  THEN Overwritten ELSE tables[f]]
  /\ images' = images \union (pages' \ pages)
  /\ UNCHANGED <<mapper, shows>>

\* A step of a running mapAddress, or the call of one.
MapperStep ==
  /\ pc = "idle"
  /\ UNCHANGED <<loader, images>>
  /\ Map!Call \/ Map!Step
  /\ mem' = [a \in Elf!Addr |->
               IF PageOf(a) < NPages /\ tables'[PageOf(a)] # tables[PageOf(a)]
               THEN Junk ELSE mem[a]]
  /\ shows' = IF step # "cr3" THEN shows
              ELSE IF history # <<>> /\ history[Len(history)].ok THEN Len(history) ELSE 0

Init ==
  /\ Elf!Init
  /\ step = "idle" /\ cr3 = Root /\ tables \in Layouts
  /\ PML4 = Root /\ PD = Root /\ PDP = Root /\ j = 0 /\ mappings = 0
  /\ shows = 0 /\ images = {}

Next == LoaderStep \/ MapperStep

Spec == Init /\ [][Next]_vars

-----------------------------------------------------------------------------
(* Properties. *)

\* The entry the processor finds for the virtual address v.
Translation(v) ==
  LET p == PageOf(v) IN
  Map!Level1(tables, cr3, [pml4 |-> (p \div (N * N * N)) % N, pdp |-> (p \div (N * N)) % N,
                           pd |-> (p \div N) % N, pt |-> p % N])

\* The kernel in call c of loadElf is what the processor finds at the addresses
\* it was linked at: every byte of its segments, its bss cleared, as far as
\* one page directory reaches; behind that nothing, and never another byte.
Visible(c) ==
  \A k \in Elf!Loads(c.file.phdrs) :
    LET s == c.file.phdrs[k] IN
    \A o \in 0 .. s.memsz - 1 :
      LET e == Translation(s.va + o) IN
      IF s.va + o < VirtAddr + Window
      THEN /\ e # Absent
           /\ mem[e.page * PageSize + ((s.va + o) % PageSize)] =
                IF o < s.filesz THEN Elf!FileByte(c.file, s.off + o) ELSE Zero
      ELSE e = Absent

\* A kernel that was loaded with success and then mapped is visible, and stays
\* visible while others are loaded, or fail to load, and while tables are
\* built for them, up to the moment they take its place.
KernelVisible ==
  /\ shows # 0
  /\ \A n \in DOMAIN history : Elf!Harmless(history[n].file)
  /\ pc # "idle" => Elf!Harmless(file)
  /\ Elf!Complete(history[shows].file)
  => Visible(history[shows])

\* Memory is given out once: a walk from cr3 reads its tables from pages that
\* are in use and were never part of an image, the images that failed calls
\* left behind included.
TablesNotImages ==
  /\ \A n \in DOMAIN history : Elf!Harmless(history[n].file)
  /\ pc # "idle" => Elf!Harmless(file)
  => Map!Closed(tables, cr3, pages \ images)
=============================================================================
