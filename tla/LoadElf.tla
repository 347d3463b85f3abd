------------------------------ MODULE LoadElf ------------------------------
(***************************************************************************)
(* The kernel loader, adachiite/loadElf.c: loadElf() and fillBss(), called *)
(* again and again by adachiite() and by the shell command `loadelf`.      *)
(*                                                                         *)
(* A call opens a file, checks that it is an ELF binary, reads the program *)
(* header table, allocates pages for the segment with the largest virtual  *)
(* address, and copies every PT_LOAD segment to its place in them.  Each   *)
(* firmware call may fail; a failed call returns false at once and leaves  *)
(* behind whatever the call had acquired or assigned so far.               *)
(*                                                                         *)
(* Memory is a function from physical byte addresses to bytes.  A byte of  *)
(* a file is identified by its file and offset, so that a byte loaded from *)
(* the wrong place is a different value.  Address arithmetic is modulo     *)
(* Word, as uint64_t arithmetic is modulo 2^64.                            *)
(***************************************************************************)
EXTENDS Integers, Sequences, FiniteSets

CONSTANTS
  Word,        \* the number of addresses: 2^64 in the code
  PageSize,    \* 0x1000
  NPages,      \* the number of pages of physical memory
  Firmware,    \* the pages in use from the start, those of the boot loader among them
  VirtAddr,    \* virtAddr, the address kernels are linked at
  HeaderSize,  \* sizeof(ELFHeader)
  MagicSize,   \* the bytes of it that hold the magic number: 4
  PhdrSize,    \* sizeof(ProgramHeader)
  Files,       \* the files a path may name
  StackHeaders,  \* what the slot of a local ELFHeader may hold, uninitialised
  NoFile,      \* the value of file before the first call
  Zero, Junk,  \* a cleared byte, and a byte nothing was stored in
  MaxCalls     \* bound on the number of calls of loadElf

Addr == 0 .. Word - 1
Page == 0 .. NPages - 1

\* A program header; load holds when its type is PT_LOAD.
Phdr == [load : BOOLEAN, va : Addr, off : Nat, filesz : Addr, memsz : Addr]

\* The fields of an ELFHeader the loader uses; magic holds for 7f 'E' 'L' 'F'.
Header == [magic : BOOLEAN, entry : Addr, phoff : Nat, phnum : Nat]

\* What a path names: its length, whether it is a directory, the header at
\* its start and the program header table at offset header.phoff.
File == [name : STRING, dir : BOOLEAN, len : Nat, header : Header, phdrs : Seq(Phdr)]

ASSUME SizeAssumption ==
  /\ Word \in Nat /\ PageSize \in Nat \ {0} /\ NPages \in Nat \ {0}
  /\ NPages * PageSize <= Word
  /\ VirtAddr \in 1 .. Word - 1
  /\ HeaderSize \in Nat /\ MagicSize \in 1 .. HeaderSize /\ PhdrSize \in Nat \ {0}

ASSUME FirmwareAssumption == Firmware \subseteq Page

ASSUME FilesAssumption ==
  /\ Files \subseteq File /\ StackHeaders \subseteq Header
  /\ NoFile \notin Files
  /\ \A f \in Files : f.header.phnum = Len(f.phdrs)

ASSUME ByteAssumption ==
  /\ Zero # Junk
  /\ {Zero, Junk} \intersect (STRING \X Nat) = {}

ASSUME MaxCallsAssumption == MaxCalls \in Nat

\* The content of a byte of memory: cleared, arbitrary, or a byte of a file.
FileByte(f, o) == <<f.name, o>>
Byte == {Zero, Junk} \union (STRING \X Nat)

VARIABLES
  pc,              \* the next step of the running call, "idle" between calls
  file,            \* the file of the running, or of the last, call
  header,          \* the stack slot of the local ELFHeader
  programHeaders,  \* the pool buffer the table is read into
  i,               \* loop index
  largestMemAdd, largestMemSize,
  elfEntry, loadedBin, kernelPages,  \* the globals the loader assigns
  mem,             \* physical memory
  pages,           \* the pages in use
  handles, pool,   \* how many file handles and pool buffers the loader holds
  history          \* the calls that returned: file, image address, result

locals  == <<file, header, programHeaders, i, largestMemAdd, largestMemSize>>
globals == <<elfEntry, loadedBin, kernelPages>>
machine == <<mem, pages>>
held    == <<handles, pool>>
vars == <<pc, locals, globals, machine, held, history>>

-----------------------------------------------------------------------------
(* The arithmetic of the loader. *)

\* Mutant: largestMemSize is a signed integer, so nothing wraps around.
EndOffsetSigned(s) == s.va + s.memsz - VirtAddr

\* largestMemAdd + memSize - virtAddr: where segment s ends in the image.
EndOffset(s) == (s.va + s.memsz - VirtAddr) % Word

\* Mutant: the size is rounded down, and nothing is added to it.
PagesForTight(size) == size \div PageSize

\* The pages to allocate for an image of the given size.
PagesFor(size) == (size \div PageSize) + 2

\* (char *)ptr + (virtualAddress - virtAddr)
CurPtr(s) == (loadedBin + s.va - VirtAddr) % Word

\* Mutant: fillBss forgets to skip the bytes that were read.
InBssFromPtr(a, ptr, s) == (a - ptr) % Word < (s.memsz - s.filesz) % Word

\* fillBss clears n = memSize - fileSize bytes from ptr + fileSize on.
InBss(a, ptr, s) == (a - ptr - s.filesz) % Word < (s.memsz - s.filesz) % Word

\* Memory after a read of `got` bytes of segment s to ptr and fillBss.
Store(s, ptr, got) ==
  [a \in Addr |->
     IF InBss(a, ptr, s) THEN Zero
     ELSE IF (a - ptr) % Word < got THEN FileByte(file, s.off + ((a - ptr) % Word))
     ELSE mem[a]]

\* EFI_FILE.Read at pos: an error past the end of the file, else at most the
\* bytes that are left.  The code does not look at how many it got.
Readable(pos) == pos <= file.len
Got(pos, n) == IF pos + n <= file.len THEN n ELSE file.len - pos

\* The header read.  Of a file that is too short only the magic number is
\* read, or not even that: the rest of the stack slot stays as it was, the
\* header of an earlier call or whatever overwrote it.
HeadersRead ==
  IF file.len >= HeaderSize THEN {file.header}
  ELSE {[h EXCEPT !.magic = IF file.len >= MagicSize THEN file.header.magic ELSE @] :
          h \in StackHeaders \union {header}}

\* The table read.  An entry past the end of the file is the junk g that the
\* pool buffer held, and so is one read from another place than the table's.
TableRead(g) ==
  [k \in 1 .. header.phnum |->
     IF /\ k \in 1 .. Len(file.phdrs)
        /\ header.phoff = file.header.phoff /\ header.phoff + k * PhdrSize <= file.len
     THEN file.phdrs[k] ELSE g]

-----------------------------------------------------------------------------
(* The steps of a call. *)

Halt == pc' = "halt" /\ UNCHANGED history  \* for (;;) after OUT OF MEMORY

Return(ok) ==
  /\ pc' = "idle"
  /\ history' = Append(history, [file |-> file, base |-> loadedBin, ok |-> ok])

Goto(label) == pc' = label /\ UNCHANGED history

Call(f) ==
  /\ pc = "idle"
  /\ Len(history) < MaxCalls
  /\ Goto("open")
  /\ file' = f
  /\ UNCHANGED <<header, programHeaders, i, largestMemAdd, largestMemSize>>
  /\ UNCHANGED <<globals, machine, held>>

Open ==
  /\ pc = "open"
  /\ \/ Return(FALSE) /\ UNCHANGED handles
     \/ Goto("info") /\ handles' = handles + 1
  /\ UNCHANGED <<locals, globals, machine, pool>>

\* allocPool, GetInfo, the directory test and freePool; info and the handle
\* are kept on every early return.
GetInfo ==
  /\ pc = "info"
  /\ \/ Halt /\ UNCHANGED pool
     \/ Return(FALSE) /\ pool' = pool + 1
     \/ ~ file.dir /\ Goto("header") /\ UNCHANGED pool
  /\ UNCHANGED <<locals, globals, machine, handles>>

\* Mutant: the entry point is published as soon as the header is known.
ReadHeaderEarly ==
  /\ pc = "header"
  /\ \/ Return(FALSE) /\ UNCHANGED <<header, elfEntry>>
     \/ /\ header' \in HeadersRead
        /\ elfEntry' = header'.entry
        /\ IF header'.magic THEN Goto("table") ELSE Return(FALSE)
  /\ UNCHANGED <<file, programHeaders, i, largestMemAdd, largestMemSize>>
  /\ UNCHANGED <<loadedBin, kernelPages, machine, held>>

ReadHeader ==
  /\ pc = "header"
  /\ \/ Return(FALSE) /\ UNCHANGED header
     \/ /\ header' \in HeadersRead
        /\ IF header'.magic THEN Goto("table") ELSE Return(FALSE)
  /\ UNCHANGED <<file, programHeaders, i, largestMemAdd, largestMemSize>>
  /\ UNCHANGED <<globals, machine, held>>

ReadTable ==
  /\ pc = "table"
  /\ \/ Halt /\ UNCHANGED <<pool, programHeaders, i, largestMemAdd, largestMemSize>>
     \/ /\ Return(FALSE)
        /\ pool' = pool + 1
        /\ UNCHANGED <<programHeaders, i, largestMemAdd, largestMemSize>>
     \/ /\ Readable(header.phoff)
        /\ Goto("scan")
        /\ pool' = pool + 1
        /\ \E f \in Files : \E k \in DOMAIN f.phdrs :
             programHeaders' = TableRead(f.phdrs[k])
        /\ i' = 1 /\ largestMemAdd' = 0 /\ largestMemSize' = 0
  /\ UNCHANGED <<file, header, globals, machine, handles>>

\* One iteration of the loop that finds the largest virtual address.
Scan ==
  /\ pc = "scan"
  /\ i <= Len(programHeaders)
  /\ i' = i + 1
  /\ LET s == programHeaders[i] IN
       IF s.load /\ s.va > largestMemAdd
       THEN largestMemAdd' = s.va /\ largestMemSize' = EndOffset(s)
       ELSE UNCHANGED <<largestMemAdd, largestMemSize>>
  /\ UNCHANGED <<pc, history, file, header, programHeaders, globals, machine, held>>

\* A run of n free pages from page b on.
FreeRun(b, n) == b + n <= NPages /\ \A p \in b .. b + n - 1 : p \notin pages

AllocPages ==
  /\ pc = "scan"
  /\ i > Len(programHeaders)
  /\ kernelPages' = PagesFor(largestMemSize)
  /\ \/ Halt /\ UNCHANGED <<loadedBin, pages, i>>
     \/ \E b \in Page :
          /\ FreeRun(b, kernelPages')
          /\ loadedBin' = b * PageSize
          /\ pages' = pages \union (b .. b + kernelPages' - 1)
          /\ i' = 1
          /\ Goto("load")
  /\ UNCHANGED <<file, header, programHeaders, largestMemAdd, largestMemSize>>
  /\ UNCHANGED <<elfEntry, mem, held>>

\* Mutant: a read that fails is tried again.
LoadSegmentRetry ==
  /\ pc = "load"
  /\ i <= Len(programHeaders)
  /\ LET s == programHeaders[i] IN
       /\ s.load => Readable(s.off)
       /\ mem' = IF s.load THEN Store(s, CurPtr(s), Got(s.off, s.filesz)) ELSE mem
  /\ i' = i + 1
  /\ UNCHANGED <<pc, history, file, header, programHeaders, largestMemAdd, largestMemSize>>
  /\ UNCHANGED <<globals, pages, held>>

\* One iteration of the loop that loads the segments.
LoadSegment ==
  /\ pc = "load"
  /\ i <= Len(programHeaders)
  /\ LET s == programHeaders[i] IN
       \/ ~ s.load /\ i' = i + 1 /\ UNCHANGED <<pc, history, mem>>
       \/ s.load /\ Return(FALSE) /\ UNCHANGED <<i, mem>>
       \/ /\ s.load /\ Readable(s.off)
          /\ mem' = Store(s, CurPtr(s), Got(s.off, s.filesz))
          /\ i' = i + 1
          /\ UNCHANGED <<pc, history>>
  /\ UNCHANGED <<file, header, programHeaders, largestMemAdd, largestMemSize>>
  /\ UNCHANGED <<globals, pages, held>>

\* Mutant: the file is not closed.
FinishOpen ==
  /\ pc = "load"
  /\ i > Len(programHeaders)
  /\ elfEntry' = header.entry
  /\ Return(TRUE)
  /\ UNCHANGED <<locals, loadedBin, kernelPages, machine, held>>

Finish ==
  /\ pc = "load"
  /\ i > Len(programHeaders)
  /\ elfEntry' = header.entry
  /\ handles' = handles - 1
  /\ Return(TRUE)
  /\ UNCHANGED <<locals, loadedBin, kernelPages, machine, pool>>

Init ==
  /\ pc = "idle" /\ file = NoFile /\ header \in StackHeaders /\ programHeaders = <<>>
  /\ i = 1 /\ largestMemAdd = 0 /\ largestMemSize = 0
  /\ elfEntry = 0 /\ loadedBin = 0 /\ kernelPages = 0
  /\ mem = [a \in Addr |-> Junk]
  /\ pages = Firmware
  /\ handles = 0 /\ pool = 0
  /\ history = <<>>

Step ==
  \/ Open \/ GetInfo \/ ReadHeader \/ ReadTable \/ Scan \/ AllocPages
  \/ LoadSegment \/ Finish

Next == (\E f \in Files : Call(f)) \/ Step

Spec == Init /\ [][Next]_vars

\* A call that has started goes on: the processor executes it and every
\* firmware call returns.  Nobody has to start a call.
FairSpec == Spec /\ WF_vars(Step)

-----------------------------------------------------------------------------
(* What a kernel file must satisfy for the loader to be right.  The code   *)
(* checks none of it.                                                      *)

Loads(t) == {k \in DOMAIN t : t[k].load}

\* The linker's contract: the segments are not empty, lie above virtAddr,
\* do not overlap, and are not larger in the file than in memory.
Sound(t) ==
  /\ \A k \in Loads(t) :
       /\ VirtAddr <= t[k].va
       /\ t[k].va + t[k].memsz <= Word
       /\ 0 < t[k].memsz
       /\ t[k].filesz <= t[k].memsz
  /\ \A j, k \in Loads(t) :
       j # k => \/ t[j].va + t[j].memsz <= t[k].va
                \/ t[k].va + t[k].memsz <= t[j].va

\* The file holds its whole program header table.
TableComplete(f) == f.len >= HeaderSize /\ f.len >= f.header.phoff + Len(f.phdrs) * PhdrSize

\* The file holds its table and every byte of its segments.
Complete(f) ==
  /\ TableComplete(f)
  /\ \A k \in Loads(f.phdrs) : f.phdrs[k].off + f.phdrs[k].filesz <= f.len

\* The file holds a header, and either no ELF header or that of a sound table.
Harmless(f) ==
  f.len >= HeaderSize /\ (f.header.magic => TableComplete(f) /\ Sound(f.phdrs))

\* The segment s of file f is in memory m, in the image that starts at base.
SegmentAt(f, s, base, m) ==
  \A k \in 0 .. s.memsz - 1 :
    m[base + (s.va - VirtAddr) + k] = IF k < s.filesz THEN FileByte(f, s.off + k) ELSE Zero

Succeeded == {n \in DOMAIN history : history[n].ok}

-----------------------------------------------------------------------------
(* Properties.                                                             *)

TypeOK ==
  /\ pc \in {"idle", "open", "info", "header", "table", "scan", "load", "halt"}
  /\ file \in Files \union {NoFile} /\ (pc # "idle" => file \in Files)
  /\ header \in Header
  /\ programHeaders \in Seq(Phdr)
  /\ i \in Nat \ {0} /\ largestMemAdd \in Addr /\ largestMemSize \in Addr
  /\ elfEntry \in Addr /\ loadedBin \in Addr /\ kernelPages \in Nat
  /\ mem \in [Addr -> Byte]
  /\ pages \subseteq Page
  /\ handles \in Nat /\ pool \in Nat
  /\ history \in Seq([file : Files, base : Addr, ok : BOOLEAN])

\* The bytes of the pages the last allocation returned.
InImage(a) == loadedBin <= a /\ a < loadedBin + kernelPages * PageSize

\* While a kernel with a sound program header table is loaded, no step of the
\* loader writes a byte outside the pages allocated for this kernel: the page
\* count computed from one segment (loadElf.c:77-83) is enough for them all.
WritesStayInImage ==
  [][Sound(programHeaders) =>
       \A a \in Addr : mem'[a] # mem[a] => InImage(a)]_vars

\* Every kernel that was loaded with success from a complete file is in
\* memory byte for byte with its bss cleared, and stays so while other
\* harmless files are loaded or fail to load after it.
LoadedImagesIntact ==
  (\A n \in DOMAIN history : Harmless(history[n].file)) /\ (pc # "idle" => Harmless(file)) =>
    \A n \in Succeeded : Complete(history[n].file) =>
      \A k \in Loads(history[n].file.phdrs) :
        SegmentAt(history[n].file, history[n].file.phdrs[k], history[n].base, mem)

\* elfEntry is the entry point of the last kernel that was loaded with
\* success, if its file holds a header: a call that fails half-way replaces
\* loadedBin but never elfEntry.
EntryOfLastSuccess ==
  IF Succeeded = {} THEN elfEntry = 0
  ELSE \E n \in Succeeded :
         /\ \A m \in Succeeded : m <= n
         /\ history[n].file.len >= HeaderSize => elfEntry = history[n].file.header.entry

\* Calls that succeed keep no file handle, and no call keeps more than one
\* handle and one pool buffer.
LeakBound ==
  pc = "idle" =>
    /\ handles + Cardinality(Succeeded) <= Len(history)
    /\ pool <= Len(history)

\* Every call comes to an end: it returns, or it stops for lack of memory.
CallsEnd == (pc # "idle") ~> (pc \in {"idle", "halt"})

\* The ELF header of a file is checked before the file is loaded
\* (loadElf.c:46), so what is loaded with success holds one.
HeaderChecked == \A n \in Succeeded : history[n].file.len >= HeaderSize
=============================================================================
