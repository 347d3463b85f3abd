# Adachiite in TLA+

Adachiite is a UEFI boot loader for the Grandidierite kernel: about a thousand
lines of C and assembly that the firmware starts as an application.  It draws an
icon, tries to boot `boot/grand` with the init file `boot/init`, and if that
fails offers a shell from which the user looks at files, loads kernels, maps
them and boots them.

This directory holds a model of it, the TLC configurations that check the model
on small instances, and proofs that TLAPS checks for all instances.  References
such as loadElf.c:79 are to files and lines under `src/adachiite/`.

## Checking it

    tlc -config MCLoadElf.cfg MCLoadElf.tla          # about 10 s
    tlc -config MCMapAddress.cfg MCMapAddress.tla    # about 15 s
    tlc -config MCHandover.cfg MCHandover.tla        # about 15 s
    tlc -config MCShell.cfg MCShell.tla              # about 1 min
    tlc -config MCFiles.cfg MCFiles.tla              # about 1 min
    tlc -config MCBootloader.cfg MCBootloader.tla    # about 2 min
    tlc -config MCScreen.cfg MCScreen.tla            # a few seconds
    tlc -config MCConsole.cfg MCConsole.tla          # about 20 s
    tlc -config MCHeader.cfg MCLoadElf.tla           # ends with a violation
    tlc -config MCMapFits.cfg MCHandover.tla         # ends with a violation
    tlc -config MCInitSize.cfg MCHandover.tla        # ends with a violation
    tlc -config MCColoursKept.cfg MCScreen.tla       # ends with a violation
    tlapm LoadElfProofs.tla
    tlapm MapAddressProofs.tla
    tlapm BootloaderProofs.tla
    tlapm HandoverProofs.tla
    tlapm ShellProofs.tla
    tlapm FilesProofs.tla
    tlapm ScreenProofs.tla
    tlapm ConsoleProofs.tla

## The system

Everything runs on one processor with interrupts in the hands of the firmware.
The only concurrency is the firmware's own: its timer events run between any two
instructions of the boot loader and may allocate and free memory.  Components
call each other and share global variables (`elfEntry`, `loadedBin`,
`kernelPages`, `currentDir`, `gop`, `sysTab`), and never undo what they did when
a later step fails: an early `return false` leaves handles, buffers, pages and
globals as they are.  Nothing is persisted.

| Component | Source | State it keeps | Operations | Hard about it |
|---|---|---|---|---|
| Entry point | main.c | `sysTab`, `imgHandle`, `root`, `currentDir` | `efi_main` | unchecked statuses; which boot runs before the shell |
| Kernel loader | loadElf.c, elf.h | `elfEntry`, `loadedBin`, `kernelPages`, an open file, buffers, memory | `loadElf`, `fillBss` | half-finished calls, address arithmetic, short reads |
| Kernel mapping | mapAdress.c, .asm | cr3 and page tables in memory | `mapAddress`, `mapPT` | tables built beside live ones, in memory nobody cleared |
| Boot and handover | adachiite.c, protocol.h, callKernel.asm | boot information, memory map, map key, boot services | `adachiite`, `convertMemMapType` | a memory map that changes while it is fetched; globals of other calls |
| Memory allocation | memory.c | the firmware's allocator | `allocPool`, `allocPage`, `freePool` | stops for ever when memory is out |
| Shell | shell.c | line buffer, argument array | `shell`, `executeShell`, ten commands | indices and quotes at the ends of buffers |
| Files | file.c | `currentDir`, open handles, buffers | `cd`, `loadFile`, `listDir`, `convertPath` | who owns a handle or a buffer after a failure |
| Console, C library | console.c | none | `printUint`, `printHex`, `mem*`, `c16strcmp` | fixed buffers, overlapping areas |
| Bitmap, graphics | bmp/, gop.c | `gop`, the image | `loadBmp`, `drawIcon`, `putPixel` | buffer ownership, values taken from a file |
| Boot entries | bootEntry.c, boot/*.ent | none | `findBootEntries` (never called) | - |

What makes each component correct:

- **Kernel loader.** Writes only into the pages it allocated.  After success the
  file's segments are in memory with their bss cleared, and stay there.  Rejects
  what is no ELF file.  `elfEntry` is that of the last success.
- **Kernel mapping.** Afterwards the kernel's addresses show the image and every
  other address shows what it showed before; there is no moment in which
  anything else is true; live tables and loaded kernels are not written.
- **Boot and handover.** The kernel is entered only with a memory map that is
  current, that does not offer it the memory it lives on, with an entry point
  that belongs to the image that is mapped, and with an init address it can read.
- **Kernel loader and mapping together.** The processor finds the kernel that was
  mapped, byte for byte, where it was linked, while others are loaded beside it.
- **Shell.** Indices stay in their buffers; commands get the words of the line.
- **Files.** There is always an open working directory; commands deliver what the
  files hold; a command that fails leaves a bounded number of handles and buffers,
  one that succeeds no handle and no buffer but those of the icon and the init file.
- **Bitmap, graphics.** The icon stands upright and in one piece where it should,
  whatever the length of a scan line, and a bad bitmap does not stop the boot unless
  it makes the code read or write outside its buffers, which nothing checks.
- **Console.** The text printed is the number; nothing outside buffers is written;
  the functions on memory are right on overlapping areas.

The hazards that make these worth checking are listed line by line under
`hazards` in PROJECT.json, with the property that covers each, or why none does.

## The modules

    AddressSpace        CommandLine        FileCommands
         ^ refines           ^ refines          ^ refines
    MapAddress  LoadElf    Shell              Files          Handover    Screen    Console
        \_________/         |                  |               |           |         |
         Bootloader          |                  |               |           |         |
             |               |                  |               |           |         |
       MCBootloader       MCShell            MCFiles        MCHandover  MCScreen  MCConsole

`LoadElf` and `MapAddress` also have MC modules of their own, `MapAddress` and
`AddressSpace` extend `PageTables`, `Files` and `FileCommands` extend `Volume`.  The
proofs about a module are in the module named after it with `Proofs` behind, for
instance `LoadElfProofs`; `BootloaderProofs` instantiates those of the two parts.

### LoadElf: loadElf() and fillBss()

One action per firmware call or loop iteration, in the order of the code:
`Call` (22-24), `Open` (23-30), `GetInfo` with the directory test and `freePool`
(32-44), `ReadHeader` (46-57), `ReadTable` (59-63), `Scan`, one iteration (69-81),
`AllocPages` (83-91), `LoadSegment`, one iteration with its `fillBss` (93-103) and
`Finish` (105-108).  Every action of a firmware call has a disjunct for its failure:
`return false` with everything acquired so far left behind, or the endless loop of
allocPool and allocPage (`Halt`).

State: the locals that survive a step, the three globals, physical memory byte by
byte (`mem`), the pages in use, and counters of the open handles and pool
buffers.  `header` is the stack slot of the local variable: the code does not look
at how many bytes `Read` delivered, so of a file that is too short at most the magic
number is new, and the rest is what an earlier call left, or whatever overwrote it
(`HeadersRead`, `StackHeaders`).  In the same way a table
that is cut off holds junk (`TableRead`), which the model draws from the headers of
all files.  `history` records the calls that returned; it exists for the properties.

Data: a byte of a file is the pair of the file's name and the offset, so that a byte
from the wrong place is a different byte.  Addresses are modulo `Word`.  The file's
`programHeaderSize` is taken to be `sizeof(ProgramHeader)`, as in every ELF64 file.

### PageTables, AddressSpace, MapAddress: mapAddress()

`PageTables` defines entries, tables and the processor's walk from a PML4 through a
function from frames to tables.  The size of a table is the constant `N`, the
kernel's place is the last entry of the PML4 and the last but one of the PDP,
which is 0xffffffff80000000 for N = 512.

`AddressSpace` is what the function promises: `Remap` replaces the address space in
one step by the one that shows `loadedBin` and the pages after it at the kernel's
addresses, nothing else below the last entry of the PML4, and everything else as
before.

`MapAddress` is how: `CopyPML4` (27-34), `AllocPD` (36-38), `MapPT`, one iteration
with the page table it fills (39-42), `MapPDP` (44-50), `LoadCr3` (52), each with the
failure of its allocation.  `Load` stands for `loadElf`, which moves `loadedBin` and
writes a kernel image between mappings.  Frames are never cleared by the firmware: a
new frame holds what `Layouts` or an earlier use left.  The refinement mapping takes
the abstract `space` to be the walk from `cr3` (`View`).

### Handover: adachiite()

`Start` (57-59), `LoadKernel` (61-67), `LoadInit` (69-80), `MapKernel` (88-89),
`QuerySize` (93-98), `AllocMap` (99-100), `GetMap` with `convertMemMapType`
(101-114), `Exit` with `callKernel` (116-126).  `Command` is the shell's `loadelf` and
`mapaddr`.  `TimerEvent` is the firmware, between any two of them.

Memory is a function from frames to EFI memory types, a map is such a function, and
its size is one descriptor per run of equal types (`MapSize`).  `keyFresh` says that
nothing has been allocated or freed since the map key was handed out;
ExitBootServices succeeds only then.  It may also fail, and may then have shut down a
part of the firmware (`services`), after which the model lets the remaining calls
behave as before.  loadElf and mapAddress are single steps here that do to the
globals and to memory what the detailed modules say: success, failure before the
allocation (nothing assigned), failure after it (`loadedBin` and `kernelPages`
replaced, image incomplete), and memory out.  `info.init = Stack` is the address of
the local variable `info` (adachiite.c:70), `Garbage` a variable that was never
assigned.  The pool is coarse: allocPool returns part of a new frame or of the frame
that holds the boot information.  Pool memory that loadElf and loadFile take and give
back does not change the map here; it would do so only before the size is queried.
One frame stands for the init file, one for the loader-data tables of a mapping and
one for its page tables, which are boot services data (mapAdress.c:17).

### CommandLine, Shell: shell() and executeShell()

`CommandLine` is what a shell is: a line that is edited at its end and, when it is
entered, a command that is called with the words of the line.  Words are defined by an
automaton over the characters, not by the loops of the code.

`Shell` is the code: one buffer that is typed into (`Type`, 45-49), shortened
(`Backspace`, 34-38), ended with a 0 (`Enter`, 39-41), cut up in place one argument at a
time (`TextArg`, 232-243, `QuotedArg`, 244-257, `Trailing`) and dispatched (`Run`,
`NotFound`, 260-275).  Arguments are indices of the buffer, whose characters behind the
line are left from before.  A command may not come back (`away`).  `entered`, `ran`,
`lines` and `unknown` exist for the properties and the bound.  A key with an error status
is like a key that was pressed, since the code handles whatever is in `key`.  What the
commands do, and that they replace slashes in their arguments, is left out: the buffer
is emptied before it is used again.

### Bootloader: loadElf() and mapAddress() over one memory

`Bootloader` instantiates `LoadElf` and `MapAddress` on one allocator (`pages`) and one
memory, which has two views: bytes (`mem`) and page tables (`tables`).  A step of the
loader turns the pages it writes into the table `Overwritten`, a step of the mapper
turns those it writes into `Junk` bytes, so each would notice the other's work in its
own pages.  `images` are the pages the loader was ever given, those of failed calls
included; they are what the mapper's tables must not be in.  `Firmware` are the pages in
use at the start, among them the page tables the firmware runs with, in as many pages as
it likes (three levels in three pages in the run).
`loadedBin` of the mapper is the loader's, as a page number.  Calls do not
overlap: the processor is one, and both run to their end or stop for ever.
`Translation` is the processor's walk for a virtual address, and `VirtAddr` the address
that the indices 511 and 510 of the tables stand for, N - 1 and N - 2 here.

### Volume, FileCommands, Files: file.c, loadBmp() and the commands ls, cd, cat

`Volume` is what the firmware shows: files, directories, where a path leads to from a
directory.  Paths are sequences of names and separators; `convertPath` (57-64) replaces
the separators.  `cd` does not call it, so `cd boot/x` does not find what `cat boot/x`
does.

`FileCommands` is the promise: a working directory that `cd` moves to a directory
(`Cd`), and commands that deliver the content of a file (`Show`) or the entries of the
directory (`List`) whole and in order, or nothing.  What loads a file has no test for a
directory, unlike loadElf.c:41, and opens one as readily; its size (`Size`) is up to the
firmware, and many report the space it takes on the volume.  If there is room for an
entry, Read delivers the raw record of the first one, and `cat` prints that and what the
rest of the buffer held before: `Whole` says so of a directory, and of a file that it is
delivered byte for byte.  `misled` marks a command during
which the firmware failed without the code noticing; what it delivers may be anything.

`Files` is the code: `Start` opens the volume (main.c:30-42, no status is looked at),
`Open` (67-75 and 31-38), `CheckDir`, the rest of cd (39-54), `GetSize` (77-86), `Read`
(87-95), `Deliver` (cmdCat, and the init file that adachiite() keeps), `Convert`
(loadBmp), `Ls`, `ListEntry` and `ListEnd` (shell.c:72-102).  `open` says which handles
are open, for which node and with which position, `pool` what each buffer is for.  `loads` counts the commands that were to load the icon or
an init file, whose buffers stay: imgBuffer (loadBmp.c:23) is never freed, and neither is
the init file of a boot that fails later.  Pool
buffers that are taken and freed in one step are not seen, but their failure is.  The
states at the end are "halt" (memory is out, by design), "returned" (no graphics output,
main.c:39-42), and "lost": a call through a pointer that is null or was never assigned,
which is where efi_main goes if the volume cannot be opened, and the listing loop if no
buffer can be had.

### Screen: drawIcon(), putPixel(), initGOP()

The framebuffer is an array of words (`screen`), a word four bytes.  `LoadIcon` is the
copy of loadBmp with its size from the file (20-31), `DrawIcon`, one iteration of the
inner loop (60-65), `IconRow` and `IconEnd` the outer one, `InitGop` and `DrawSquare`
the command initgop (gop.c:39-55).  `Cell` is the address putPixel writes, in words from
FrameBufferBase, with the start of the line computed in 32 bits (gop.c:7-8).  The code
compares neither the place of a pixel with the framebuffer nor imageSize with the file or
with width and height.  A store outside the framebuffer hits the memory that is there, as
far as the model has any (`Addr`), or faults; a read behind a buffer gives `Unread` or
faults ("fault").  The same may happen if the height is zero, because loadBmp.c:54 divides
by it; whether the unused quotient is computed is the compiler's choice.  A negative height
is a very large one, since img->height is unsigned (loadBmp.c:21, bmp.h:19).

### Console: console.c

One action per iteration of each loop.  Numbers: `PrintNumber`, `Digit`, `Flush`, with
the buffer of 19 places and the index that may leave it ("undefined").  Memory: `memcpy`,
`memmove`, `memset`, `memcmp`, `c16strcmp` on one array of bytes, with an index of fewer
values (2^32, `Index`) than a length may have.

## The runs

| Run | Checks | Bounds, and why they are enough |
|---|---|---|
| `load_elf` | TypeOK, LoadedImagesIntact, EntryOfLastSuccess, LeakBound, WritesStayInImage, CallsEnd | 64 addresses, the kernel's at the top so that arithmetic wraps; 9 pages of 4 bytes; 11 files: two segments that share a page, segments not in order, a note, a file cut in its segments, in its table, in its header, an empty one, a text, a directory, and three that break the linker's contract. Two calls: a first one to leave something behind, a second one to meet it. |
| `map_address` | TypeOK, LiveAllocated, PagesKept, LiveUntouched, Refines, CallEnds | Tables of 3 entries, so that entries exist that nothing writes; 20 frames, which are out in the last of 4 commands; two mappings and two loads in any order; the firmware's last PML4 entry absent and present; stale entries in all frames. |
| `handover` | TypeOK, MapCurrent, KernelMemoryKept, EntryConsistent, InitReadable, FirmwareKept, RetryAccepted, BootEnds | 11 frames, two memory layouts (with a hole; with every kind of memory), two kernels of one and two pages, two commands, one timer event: a command or a failed boot before a boot, and an event at every point of it. |
| `shell` | TypeOK, ArgsInLine, OnlyUnknownKept, Refines, SplitEnds | A buffer of 7 places, so lines of up to 5 characters out of a letter, a space, a quote and 0: every pattern of quotes and spaces with up to three words, of which two have a place. Two lines: the second is typed over the rest of the first. |
| `files` | TypeOK, DirectoryOpen, LeakBound, Refines, CommandsEnd | A volume of two directories, one with a size in which an entry has room and one of size 0, and three files (a bitmap, an image that is none, a text); 4 handles and 5 buffers, which commands that fail use up; the icon and three commands, one of them misled: a failure, a command that meets what it left, and one after that. |
| `bootloader` | KernelVisible, TablesNotImages | Tables of 3 entries, 21 pages of 2 bytes, the kernel's addresses 126 to 161 of which one page directory maps 126 to 143; the firmware's own tables in three pages; a kernel inside that window and one that ends behind it; two loads and two mappings in any order, with memory for both mappings to complete after both loads of the small kernel; firmware choices at both ends of free memory, stale entries everywhere. |
| `screen` | TypeOK, IconShown, BootGoesOn | 8 screens: with and without padding in the scan lines, landscape and portrait, with room for the icon and without, all three formats; 9 bitmaps: 3 shapes, wrong sizes, one cut off, one of 24 bits, one without rows, one with a height of minus three; the square drawn never, once and twice. |
| `console` | TypeOK, NumberShown, BufferLarge, CopiesRight, CompareRight | Every number of 7 bits in base 4 (fits in 4 places, as 16 digits do in 19) and base 3 (does not always, as 20 digits do not); every pair of areas of every memory of 4 bytes out of 3 values; an index of 3 values, which areas of 3 and more bytes exceed. |
| `elf_header` | HeaderChecked is violated | as `load_elf` |
| `map_fits` | MapFits is violated | as `handover` |
| `init_size` | InitSizeInBytes is violated | as `handover` |
| `colours_kept` | ColoursKept is violated | as `screen` |

`Candidates` is the firmware's choice among free frames, handles or buffers; the MC modules let it take the
lowest one and, at times, one at the other end, so that runs of free frames are split
and results are not always adjacent.  `CHECK_DEADLOCK FALSE` is given because the system
stops: in the kernel, in the endless loop after "OUT OF MEMORY", and in the model when
the bound on commands is reached.

Properties of the loader that depend on the linker say so: `Sound` (segments not empty,
above `virtAddr`, disjoint, not larger in the file than in memory), `Complete` and
`TableComplete` (the file is not cut off).  The code checks none of this; the malformed
files are in the run so that everything else is checked with them as well.

The four violations are statements of the sources that the code does not keep:

- loadElf.c:46 says "check elf header", but a file that consists of the magic number is
  loaded with success if the length of the table in the stack slot happens to be 0:
  nothing compares the bytes read with the size of the header (loadElf.c:50).

- adachiite.c:99 adds 60 bytes to the size of the memory map because "sometimes it
  increased after allocated".  A descriptor has 48 bytes, so this holds one more, and
  an allocation inside a run of free memory makes two more.  In the counterexample the
  allocation of the buffer itself does it, and no timer event is needed; the second
  GetMemoryMap fails and the boot returns to the shell.
- protocol.h:47 promises `initSize` in bytes.  If the init file does not exist, loadFile
  has not assigned it (file.c:72-75) and the kernel receives an uninitialised variable.
- main.c:45 names the format "PixelRedGreenBlueReserved8BitPerColor" and drawIcon has a
  branch for it, `flipColor` (loadBmp.c:41-44).  Its result has its empty byte first, not
  last, so red ends up in the place of green, green in that of blue, and blue in the
  reserved byte.

Other things the models show without a run of their own, because nothing in the
repository states the contrary or a bound is what can be said: `LeakBound` of `Files`
counts the buffer that loadBmp keeps of a file that is no bitmap (loadBmp.c:18) among
those failed commands leave, and the init file of a boot that fails later, which nobody
frees although file.c:66 asks the caller to; `cat` of a directory succeeds where the
firmware gives it a size; a `cd` that is misled may make a file the working directory
(file.c:45); `CopiesRight` names the areas on which memmove, unlike memcpy, loses bytes;
`BufferLarge` the numbers for which printUint leaves its buffer; `HasRoom` the screens
that the icon does not fit, whose column is computed from their height (main.c:51);
`KernelVisible` says that a kernel is mapped only as far as one page directory reaches.

## Fairness

`FairSpec` of each module adds weak fairness of the steps of a call that has started:
the processor executes the call and firmware calls return.  No fairness is assumed of
the user, who need not enter a command, nor of timer events, and none for a firmware
call to succeed.  `CallsEnd`, `CallEnds` and `BootEnds` say that every call returns
or ends in the loop for lack of memory (or in the kernel), `SplitEnds` that a line that
was entered is dealt with.

In `Files` the same fairness is enough for `CommandsEnd` only because unnoticed failures
come to an end (`MaxFaults`): the listing loop of shell.c:84-99 has no other bound, and a
firmware whose reads fail for ever without setting the size keeps it going for ever.  A
command also ends in "halt" or "lost".  In `Screen` fairness is of `Draw`, the loops and
what leads to them: `BootGoesOn` says that drawing the icon ends, in the shell or for lack
of memory, and that only an icon that is not `Contained` (a height of zero or less, words
that are not in the file, pixels outside the framebuffer) may stop the boot with a fault
instead.  Of such an icon nothing else is claimed; with a negative height the model's
memory takes the stores or faults, and a machine's may do worse.  `Bootloader` and `Console` state safety only.

## What is proved

The proofs hold for every value of the constants that satisfies the ASSUMEs of the
modules: these say what constants are (sizes, sets of files, what the firmware's
allocator and its page tables are like), and TLC evaluates them in the runs.

- **LoadElfProofs.** `TypeCorrect`, and `WritesInImage`: the page count computed from
  the segment with the largest address is enough for every segment of a sound table.
  The invariant behind it says, while scanning, that the largest address is that of a
  segment already seen and exceeds all of them (`ScanInv`), and after the allocation
  that the image ends after the last segment and before the end of the address space
  (`AllocInv`).  No-wrap of the modular arithmetic follows from those two.
  `LoadedImagesStay` is what a kernel relies on: its segments are in memory, and stay
  there.  It needs more than it says (`KernelInv`): the table in use is the file's
  (`TableInv`, because the header was read, `HeaderMagic`), the segments before the i-th
  are in their places (`SoFarLoaded`), all of the image lies in allocated pages
  (`ImageInPages`), and every kernel loaded before lies in pages apart from those of the
  running call (`LoadedApart`).  A store then changes one segment's place, which is
  disjoint from those of the others (the table is `Sound`) and of the other kernels.
  It is for files that keep the linker's contract (`Harmless`): one file that breaks it
  may be loaded over anything.  `EntryIsOfLastSuccess` and `LeakIsBounded` are by
  invariants on `history`.
- **MapAddressProofs.** `TypeCorrect`, `LiveFramesAllocated`, `LiveTablesUntouched`,
  `PagesAreKept` and `MapAddressRefines`.  The invariant `WalkInv` says that a walk from cr3 stays in
  allocated frames and, by program counter, how much of the new tables exists: the PML4
  is a copy of the live one (`CopyInv`), the first i page tables are filled with the
  right pages and the frames involved are distinct and not live (`BuildInv`), and all is
  linked (`LinkedInv`).  The refinement is then: every step before `LoadCr3` changes only
  frames outside the walk and is a stutter, `LoadCr3` is `Remap`.  `PagesAreKept` is a
  count (`CountInv`): N + 3 pages for each call that returned and, by program counter,
  those the running one has taken.
- **HandoverProofs.** `TypeCorrect`, `MapIsCurrent`, `KernelMemoryIsKept`,
  `EntryIsConsistent`, `InitIsReadable`,
  `FirmwareIsKept` and `RetryIsAccepted`.  The invariant `BootInv` ties each variable of
  a running boot to memory from the step on that assigns it: the frames of the boot's
  buffers, image and tables have the types they were allocated with, which neither
  another allocation nor a timer event changes, and between `GetMap` and `Exit` the
  converted map is that of the current types unless the key is stale.

- **BootloaderProofs.** `TablesAreNoImages` and `KernelIsVisible`: loadElf and
  mapAddress work over one memory and one allocator without a step of either harming
  the other, in any order of calls.  The proofs about the parts are used as they are, by
  instantiation.  The loader's apply to its steps directly; a step of the mapper writes
  pages that were free, so it changes no byte of a kernel.  The mapper's apply to a machine on
  which the pages given to images count as free (`Walk`, with `pages \ images`): `WalkInv`
  then says that the walk stays in pages that are in use and were never part of an image,
  which is `TablesNotImages`; a load takes its pages from those that are free, and one that
  fails leaves them in use and among the images.  The firmware's own tables may lie in any
  of the pages that are in use at the start.  The inductive invariant (`SharedInv`) joins `KernelInv`,
  `WalkInv` under the condition that all files are `Harmless`, the alignment of images
  (`BaseInv`), that every byte of a kernel is in a page of an image (`ImagesInv`) and what the walk from cr3 shows (`ShowsInv`).  `KernelIsVisible` adds the arithmetic
  of the four indices of an address (`Indices`, `KernelAddress`).  `MachineAssumption`
  says that an address is what the processor translates of it, its lower 48 bits.  The
  proof showed that `TablesNotImages` has to exclude the file that is being loaded, and not
  only those that were, if it breaks the linker's contract: its segments may already have
  been written over a table.

- **ShellProofs.** `TypeCorrect`, `ArgumentsInLine` and `OnlyUnknownLinesKept`, from the
  invariant that joins them (`ShellInv`).  The central lemma, `LoopEnds`, is that a loop
  that stops at 0 and starts in the line stops in the line, because of the 0 at c.  That
  the arguments end is needed for the type of what a command gets.
  `ShellIsCommandLine` is the refinement of `CommandLine`, whose words are read by an
  automaton.  Its invariant (`ReadInv`) runs both side by side: the part of the buffer that
  is still to be split is the line as entered, the arguments found so far are the words
  the automaton has read before the index, and there the automaton is between words or
  the line is over.  One step of the splitter is then many of the automaton: spaces are
  passed over (`ReadSpaces`), a word is read to its end (`ReadWord`), and the texts of
  earlier arguments are not disturbed (`TextKept`).  When the splitter stops because the
  argument array is full, the words the automaton goes on to read come behind
  (`WordsStay`).

- **FilesProofs.** `TypeCorrect`, `DirectoryIsOpen`, `LeakIsBounded` and
  `FilesImplementsCommands`.  currentDir is open and differs from the handle of the
  running command (`PlaceInv`), so no close hits it.  The leaks are counted with what the
  running command holds (`HandleInv`, `BufferInv`); buffers of a file that was loaded are
  counted together with either kind, because a command fails in loadFile or after it,
  not twice.  The buffers of the icon and of init files are fewer than the commands for
  them while one is still loading (`ForGoodInv`).  For the refinement, what was read so far is
  what a buffer of the reported size holds of the path's file or directory in the working
  directory (`FileInv`, `ContentWhole`), and what was listed is the entries before the
  position (`ListInv`), unless the command was misled.

- **ScreenProofs.** `TypeCorrect`, `IconIsShown` and `ContainedIconsAreSafe`, the safety part
  of `BootGoesOn`: while an icon that is `Contained` is drawn, the next word is in the buffer
  and its place in the framebuffer (`FaultInv`).  For `IconIsShown`, the invariant (`ScreenInv`) says of
  every word of the framebuffer, after each iteration of drawIcon, whether it shows a
  pixel of the icon, and which one, or is still black: those of the rows from y on, and
  the first x of row y - 1 (`SoFar`), the words that pad a scan line never; and that the
  index into the image, which the code only increments, is the one of that place (`LoopInv`).  The
  square that initgop draws lies over it.  That a word
  has one row and one column (`OnePlace`, for a scan line that is not shorter than the
  screen is wide) makes each store change one place of the picture.

- **ConsoleProofs.** `TypeCorrect`.  `NumbersAreShown` and `OnlyLargeLeaveBuffer`, for every
  size of the numbers and of the digit buffer: `NumberInv` says that the places behind the
  index hold the last digits, and that the number left is the quotient by the
  corresponding power of the base (`PrintInv`).  The quotients and the value of a numeral
  are defined by recursion, so facts about them are by induction (`QuotientRule`,
  `Magnitude`).  `CopiesAreRight` and `ComparesAreRight`, by a loop invariant for
  each function: memory is as the result should be as far as the index says, and as it
  was before the call from there on (`CopyInv`, `SetInv`, `MoveInv`, `CompareInv`; for
  strings, `StringInv` also says that both end at the index or later).  memmove's
  invariant needs that the destination is before the source or behind its end: else an
  iteration clears the byte it has just copied, or overwrites one that a later iteration
  needs.  All are for lengths that the index can count, as the properties are.

Induction.  The induction theorems of the library take an operator, which the provers
cannot instantiate.  Where a proof is about a recursive function (the automaton of
`CommandLine`, the numerals of `Console`), it takes the least counterexample instead
(`Least`, from the theorem that the order of the naturals is well founded, whose
parameters are sets) and proves first that a function that satisfies the recursive
equation exists (`Recursion`, `ReadExists`), which is what lets the definition be used.
One proof failed for a good reason: the cases of the automaton overlapped, for a
space or a 0 between words, so that its definition relied on the order in which TLC
tries them and did not determine a value.  They are now disjoint.

Only model-checked: the liveness properties (`CallsEnd`, `CallEnds`, `BootEnds`,
`SplitEnds`, `CommandsEnd`, `BootGoesOn`), since fairness and ENABLED are out of reach of
the prover, and the statements of the sources that the code violates.  Every other
property of the runs is a theorem.

## What is not modelled

- Printing: the text of messages and numbers' prefixes, `echo`, `help`, `clear`,
  `printGOPMode`, `queryGOPModes`, and `listDir`, which has no caller and the loop of
  `cmdListDir`.
- Boot entries: `findBootEntries` is not called and returns 0 in every case; the files
  boot/*.ent are read by nothing.
- The framebuffer fields of the boot information, copied from `gop` unchanged, among
  them a PixelFormat that the protocol may not have (protocol.h:8).
- What a firmware does after a partial shutdown, see `services` above.
- A cut program header table: what junk segments do to memory is not bounded by
  anything; such files are in the run, and `Harmless` excludes them from what is claimed.
- Lengths of 2^32 and more in the functions on memory, whose index has 32 bits.
- The composition of the shell with the commands: `Handover` and `Files` are given the
  commands in any order, which is all the shell adds.
- The UEFI headers under `src/inc`, the vendored gnu-efi declarations.  They are nine
  tenths of the lines of the repository and contain no statement, so the share of all
  lines that the definitions stand for is small; of the roughly 1300 lines of the boot
  loader itself it is about six tenths, and the rest prints, includes or declares.

## Plan

Done: the modules above, with their runs and proofs.  What would come next:

1. Facts behind the liveness properties that are plain invariants: a measure for each
   loop that a step decreases (segments left, rows left, characters left), so that TLC's
   runs are left with the part about fairness only.
2. Theorems without the condition `Harmless` for the parts of `KernelInv` that hold with
   any file, so that fewer conclusions depend on the linker.
