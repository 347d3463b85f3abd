----------------------------- MODULE MapAddress -----------------------------
(* The page tables of the kernel, adachiite/mapAdress.c: mapAddress(),      *)
(* called by adachiite() and by the shell command `mapaddr`, any number of  *)
(* times and for any value of loadedBin that loadElf() left.                *)
(*                                                                          *)
(* A call copies the PML4 that cr3 points to, builds N page tables below a  *)
(* new page directory, links them into the copy, and loads cr3 with it.     *)
(* Every table comes from allocPage, which never returns when no page is    *)
(* free.  The tables are in memory that the firmware, the kernels loaded    *)
(* before and the tables of earlier calls share, so what a frame holds is a *)
(* function from frames, and a new frame holds what was left in it.         *)
EXTENDS PageTables, FiniteSets

CONSTANTS
  NFrames,        \* frames of physical memory
  ImagePages,     \* frames of a kernel image
  Root,           \* the firmware's PML4
  Firmware,       \* the frames the firmware uses
  Layouts,        \* what the frames may hold when the boot loader starts
  Contents,       \* what a frame of a kernel image may hold
  Candidates(_),  \* of the frames that are free, those the firmware may give
  MaxCommands     \* bound on the calls of loadElf and mapAddress

VARIABLES
  pc,              \* the next step of the running call, "idle" between calls
  loadedBin,       \* the global of loadElf.c, as a page number
  cr3,
  tables,          \* the entries a frame holds
  used,            \* the frames that are allocated
  image,           \* those of them that belong to a kernel
  PML4, PD, PDP,   \* the local variables of mapAddress
  i,               \* the loop index
  commands         \* how many calls there were

vars == <<pc, loadedBin, cr3, tables, used, image, PML4, PD, PDP, i, commands>>

Frame == 0 .. NFrames - 1

ASSUME FrameAssumption ==
  /\ NFrames \in Nat /\ ImagePages \in Nat \ {0} /\ MaxCommands \in Nat
  /\ Root \in Firmware /\ Firmware \subseteq Frame
  /\ Contents # {} /\ Contents \subseteq Table
  /\ Layouts # {} /\ Layouts \subseteq [Frame -> Table]

\* The firmware's page tables are in memory it has allocated.
ASSUME LayoutAssumption == \A t \in Layouts : Closed(t, Root, Firmware)

\* The firmware gives no frame that is in use.
ASSUME AllocatorAssumption == \A F \in SUBSET Frame : Candidates(F) \subseteq F

-----------------------------------------------------------------------------
(* The steps of a call. *)

\* Local variables keep their value, and nothing happens to the machine.
Locals == <<PML4, PD, PDP, i>>

\* A frame that allocPage returns.
Fresh == Candidates(Frame \ used)

\* Memory after the entries of frame f are set to table.
Write(f, table) == [tables EXCEPT ![f] = table]

\* The page table of mapPT for the pages from base on.
PageTable(base) == [k \in Idx |-> Mapped(base + k)]

\* Mutant: allocPage asks again until the firmware has a page.
HaltRetry == UNCHANGED <<pc, tables, used, Locals>>

\* allocPage found no page: it prints and loops for ever.
Halt == pc' = "halt" /\ UNCHANGED <<tables, used, Locals>>

\* loadElf: it allocates the image, assigns loadedBin, and writes only there.
Load ==
  /\ pc = "idle"
  /\ commands < MaxCommands
  /\ commands' = commands + 1
  /\ \E b \in Fresh : LET run == b .. b + ImagePages - 1 IN
       /\ run \subseteq Frame \ used
       /\ loadedBin' = b
       /\ used' = used \union run
       /\ image' = image \union run
       /\ \E c \in Contents : tables' = [f \in Frame |-> IF f \in run THEN c ELSE tables[f]]
  /\ UNCHANGED <<pc, cr3, Locals>>

Call ==
  /\ pc = "idle"
  /\ commands < MaxCommands
  /\ commands' = commands + 1
  /\ pc' = "pml4"
  /\ UNCHANGED <<loadedBin, cr3, tables, used, image, Locals>>

\* Mutant: the PML4 in use is changed where it is.
CopyPML4InPlace ==
  /\ pc = "pml4"
  /\ PML4' = cr3 /\ pc' = "pd"
  /\ UNCHANGED <<loadedBin, cr3, tables, used, image, PD, PDP, i, commands>>

\* The new PML4 is a copy of the one in use.
CopyPML4 ==
  /\ pc = "pml4"
  /\ \/ Halt
     \/ \E f \in Fresh :
          /\ PML4' = f /\ used' = used \union {f}
          /\ tables' = Write(f, tables[cr3])
          /\ pc' = "pd"
          /\ UNCHANGED <<PD, PDP, i>>
  /\ UNCHANGED <<loadedBin, cr3, image, commands>>

AllocPD ==
  /\ pc = "pd"
  /\ \/ Halt
     \/ \E f \in Fresh :
          /\ PD' = f /\ used' = used \union {f}
          /\ i' = 0
          /\ pc' = "pt"
          /\ UNCHANGED <<tables, PML4, PDP>>
  /\ UNCHANGED <<loadedBin, cr3, image, commands>>

\* Mutant: the loop over PD runs once too often.
MapPTOverrun ==
  /\ pc = "pt"
  /\ \E f \in Fresh :
       /\ used' = used \union {f}
       /\ tables' = [tables EXCEPT ![f] = PageTable(loadedBin + i * N),
                                   ![PD] = [tables[PD] EXCEPT ![i] = Mapped(f)]]
  /\ i <= N /\ i' = i + 1
  /\ UNCHANGED <<pc, PML4, PD, PDP, loadedBin, cr3, image, commands>>

\* One iteration of the loop over PD: mapPT fills a page table with the N
\* pages from loadedBin + i * N on, and PD[i] points to it.
MapPT ==
  /\ pc = "pt"
  /\ i < N
  /\ \/ Halt
     \/ \E f \in Fresh :
          /\ used' = used \union {f}
          /\ tables' = [tables EXCEPT ![f] = PageTable(loadedBin + i * N),
                                      ![PD] = [tables[PD] EXCEPT ![i] = Mapped(f)]]
          /\ i' = i + 1
          /\ UNCHANGED <<pc, PML4, PD, PDP>>
  /\ UNCHANGED <<loadedBin, cr3, image, commands>>

\* Mutant: the PDP keeps the entries that its frame held.
MapPDPUncleared ==
  /\ pc = "pt"
  /\ i = N
  /\ \E f \in Fresh :
       /\ PDP' = f /\ used' = used \union {f}
       /\ tables' = [tables EXCEPT ![f] = [tables[f] EXCEPT ![Pdp] = Mapped(PD)],
                                   ![PML4] = [tables[PML4] EXCEPT ![Top] = Mapped(f)]]
  /\ pc' = "cr3"
  /\ UNCHANGED <<PML4, PD, i, loadedBin, cr3, image, commands>>

\* Mutant: the frame of the PDP is given back.
MapPDPFreed ==
  /\ pc = "pt"
  /\ i = N
  /\ \E f \in Fresh :
       tables' = [tables EXCEPT ![f] = [k \in Idx |-> IF k = Pdp THEN Mapped(PD) ELSE Absent],
                                ![PML4] = [tables[PML4] EXCEPT ![Top] = Mapped(f)]]
  /\ pc' = "cr3"
  /\ UNCHANGED <<used, PML4, PD, PDP, i, loadedBin, cr3, image, commands>>

\* The PDP is cleared, and the new tables are linked together.
MapPDP ==
  /\ pc = "pt"
  /\ i = N
  /\ \/ Halt
     \/ \E f \in Fresh :
          /\ PDP' = f /\ used' = used \union {f}
          /\ tables' = [tables EXCEPT
                          ![f] = [k \in Idx |-> IF k = Pdp THEN Mapped(PD) ELSE Absent],
                          ![PML4] = [tables[PML4] EXCEPT ![Top] = Mapped(f)]]
          /\ pc' = "cr3"
          /\ UNCHANGED <<PML4, PD, i>>
  /\ UNCHANGED <<loadedBin, cr3, image, commands>>

\* invlpgM, and the return.
LoadCr3 ==
  /\ pc = "cr3"
  /\ cr3' = PML4
  /\ pc' = "idle"
  /\ UNCHANGED <<loadedBin, tables, used, image, Locals, commands>>

Init ==
  /\ pc = "idle" /\ loadedBin = 0 /\ cr3 = Root
  /\ tables \in Layouts
  /\ used = Firmware /\ image = {}
  /\ PML4 = Root /\ PD = Root /\ PDP = Root /\ i = 0  \* assigned before they are read
  /\ commands = 0

Step == CopyPML4 \/ AllocPD \/ MapPT \/ MapPDP \/ LoadCr3

Next == Load \/ Call \/ Step

Spec == Init /\ [][Next]_vars

\* A call that has started goes on; nobody has to start one.
FairSpec == Spec /\ WF_vars(Step)

-----------------------------------------------------------------------------
(* Properties. *)

TypeOK ==
  /\ pc \in {"idle", "pml4", "pd", "pt", "cr3", "halt"}
  /\ loadedBin \in Nat
  /\ used \subseteq Frame /\ image \subseteq used /\ cr3 \in used
  /\ tables \in [Frame -> Table]
  /\ PML4 \in used /\ PD \in used /\ PDP \in used
  /\ i \in 0 .. N
  /\ commands \in Nat

\* The tables a walk from the table r reads.
Reach(r) ==
  {r} \union {f \in Frame : \E v \in VAddr :
                \E e \in {Level4(tables, r, v), Level3(tables, r, v), Level2(tables, r, v)} :
                  e # Absent /\ ~ e.huge /\ e.page = f}

\* No step, whether it loads a kernel or builds tables for one, writes a
\* table the processor is using or a byte of a kernel that is loaded: the
\* new tables are built aside, on top of nothing that matters.
LiveUntouched ==
  [][\A f \in Reach(cr3) \union image : tables'[f] = tables[f]]_vars

\* The processor only ever reads tables from frames that are allocated.
LiveAllocated == Closed(tables, cr3, used)

\* Each call of mapAddress keeps N + 3 frames, 515 pages, and no call gives
\* back those of the call before (mapAdress.c:30-51): what is in use between
\* calls is counted by the calls there were.
PagesKept ==
  pc = "idle" =>
    ImagePages * Cardinality(used \ (image \union Firmware)) =
      (N + 3) * (ImagePages * commands - Cardinality(image))

\* mapAddress changes the address space in one step, to the one that shows
\* loadedBin at the kernel's addresses (mapAdress.c:26-60).
Space == INSTANCE AddressSpace WITH space <- View(tables, cr3)
Refines == Space!Spec

\* Every call returns, or stops for lack of memory.
CallEnds == (pc # "idle") ~> (pc \in {"idle", "halt"})
=============================================================================
