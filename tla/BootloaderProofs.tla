-------------------------- MODULE BootloaderProofs --------------------------
(* Proofs about Bootloader, for every machine, every set of files, every     *)
(* firmware page table and any number of loads and mappings in any order.    *)
(*                                                                           *)
(* The proofs about the two parts are used here as they are.  Those of the   *)
(* loader hold for its steps, and what the mapper does keeps its invariant.  *)
(* Those of the mapper are instantiated for a machine on which the pages of  *)
(* all images count as free: the tables it walks and builds are in pages     *)
(* that are in use and were never part of an image.                          *)
EXTENDS Bootloader, Integers, TLAPS

ElfP == INSTANCE LoadElfProofs

\* The byte at a belongs to a kernel: to the image that is being loaded, or to
\* a segment of one that was loaded with success.
KernelByte(a) ==
  \/ pc = "load" /\ ElfP!InImage(a)
  \/ \E n \in ElfP!Succeeded : \E k \in ElfP!Loads(history[n].file.phdrs) :
       \E o \in 0 .. history[n].file.phdrs[k].memsz - 1 : a = ElfP!Place(history[n], k, o)

\* A firmware that gives any page.
AnyOf(F) == F

Walk == INSTANCE MapAddressProofs WITH
          pc <- step, i <- j, used <- pages \ images, loadedBin <- loadedBin \div PageSize,
          image <- {}, commands <- mappings, MaxCommands <- MaxMappings,
          NFrames <- NPages, ImagePages <- 1, Contents <- {Overwritten},
          Candidates <- AnyOf

-----------------------------------------------------------------------------
(* The parts and their proofs speak of the same things.                     *)

LEMMA ElfAssumed ==
  /\ ElfP!SizeAssumption /\ ElfP!FirmwareAssumption /\ ElfP!FilesAssumption
  /\ ElfP!ByteAssumption /\ ElfP!MaxCallsAssumption
BY ElfAssumption
DEF Elf!SizeAssumption, Elf!FirmwareAssumption, Elf!FilesAssumption, Elf!ByteAssumption,
    Elf!MaxCallsAssumption, ElfP!SizeAssumption, ElfP!FirmwareAssumption, ElfP!FilesAssumption,
    ElfP!ByteAssumption, ElfP!MaxCallsAssumption, Elf!Page, ElfP!Page,
    Elf!File, ElfP!File, Elf!Header, ElfP!Header, Elf!Phdr, ElfP!Phdr, Elf!Addr, ElfP!Addr

LEMMA WalkAssumed ==
  /\ Walk!EntryAssumption /\ Walk!FrameAssumption /\ Walk!LayoutAssumption
  /\ Walk!AllocatorAssumption
BY MapAssumption
DEF Map!EntryAssumption, Map!FrameAssumption, Map!LayoutAssumption,
    Walk!EntryAssumption, Walk!FrameAssumption, Walk!LayoutAssumption, Walk!AllocatorAssumption,
    Map!Frame, Walk!Frame, Map!Table, Walk!Table, Map!Idx, Walk!Idx, Map!Entry, Walk!Entry,
    Map!Closed, Walk!Closed, Map!Within, Walk!Within, Map!VAddr, Walk!VAddr,
    Map!Level4, Walk!Level4, Map!Level3, Walk!Level3, Map!Level2, Walk!Level2,
    Map!Descend, Walk!Descend, AnyOf

\* The steps of the loader.
LEMMA SameLoader ==
  /\ Elf!Addr = ElfP!Addr
  /\ Elf!Next => ElfP!Next
  /\ Elf!Init => ElfP!Init
<1>1. Elf!Addr = ElfP!Addr
  BY DEF Elf!Addr, ElfP!Addr
<1>2. Elf!Init => ElfP!Init
  BY <1>1 DEF Elf!Init, ElfP!Init
<1> USE DEF Elf!Goto, ElfP!Goto, Elf!Halt, ElfP!Halt, Elf!locals, ElfP!locals,
            Elf!globals, ElfP!globals, Elf!machine, ElfP!machine, Elf!held, ElfP!held
<1>3. \A ok : Elf!Return(ok) <=> ElfP!Return(ok)
  BY DEF Elf!Return, ElfP!Return
<1>4. \A f : Elf!Call(f) => ElfP!Call(f)
  BY DEF Elf!Call, ElfP!Call
<1>5. Elf!Open => ElfP!Open
  BY <1>3 DEF Elf!Open, ElfP!Open
<1>6. Elf!GetInfo => ElfP!GetInfo
  BY <1>3 DEF Elf!GetInfo, ElfP!GetInfo
<1>7. Elf!ReadHeader => ElfP!ReadHeader
  BY <1>3 DEF Elf!ReadHeader, ElfP!ReadHeader, Elf!HeadersRead, ElfP!HeadersRead
<1>8. Elf!ReadTable => ElfP!ReadTable
  BY <1>3 DEF Elf!ReadTable, ElfP!ReadTable, Elf!Readable, ElfP!Readable, Elf!TableRead, ElfP!TableRead
<1>9. Elf!Scan => ElfP!Scan
  BY DEF Elf!Scan, ElfP!Scan, Elf!EndOffset, ElfP!EndOffset
<1>10. Elf!AllocPages => ElfP!AllocPages
  BY DEF Elf!AllocPages, ElfP!AllocPages, Elf!PagesFor, ElfP!PagesFor, Elf!FreeRun, ElfP!FreeRun,
         Elf!Page, ElfP!Page
<1>11. Elf!LoadSegment => ElfP!LoadSegment
  BY <1>1, <1>3
  DEF Elf!LoadSegment, ElfP!LoadSegment, Elf!Readable, ElfP!Readable, Elf!Store, ElfP!Store,
      Elf!CurPtr, ElfP!CurPtr, Elf!Got, ElfP!Got, Elf!InBss, ElfP!InBss, Elf!FileByte, ElfP!FileByte
<1>12. Elf!Finish => ElfP!Finish
  BY <1>3 DEF Elf!Finish, ElfP!Finish
<1> QED
  BY <1>1, <1>2, <1>4, <1>5, <1>6, <1>7, <1>8, <1>9, <1>10, <1>11, <1>12
  DEF Elf!Next, ElfP!Next, Elf!Step, ElfP!Step

\* The words the properties use of kernels and of tables.
LEMMA SameWords ==
  /\ Elf!Succeeded = ElfP!Succeeded
  /\ \A f : Elf!Harmless(f) <=> ElfP!Harmless(f)
  /\ \A f : Elf!Complete(f) <=> ElfP!Complete(f)
  /\ \A t : Elf!Loads(t) = ElfP!Loads(t)
  /\ \A f, o : Elf!FileByte(f, o) = ElfP!FileByte(f, o)
  /\ Map!Frame = ElfP!Page /\ Walk!Frame = ElfP!Page
  /\ Map!Frame = Walk!Frame
  /\ \A t, r, v : Map!Level1(t, r, v) = Walk!Level1(t, r, v)
  /\ \A t, r, F : Map!Closed(t, r, F) <=> Walk!Closed(t, r, F)
BY DEF Elf!Succeeded, ElfP!Succeeded, Elf!Harmless, ElfP!Harmless, Elf!Complete, ElfP!Complete,
       Elf!TableComplete, ElfP!TableComplete, Elf!Sound, ElfP!Sound, Elf!Loads, ElfP!Loads,
       Elf!FileByte, ElfP!FileByte, Map!Frame, Walk!Frame, ElfP!Page,
       Map!Level1, Walk!Level1, Map!Level2, Walk!Level2, Map!Level3, Walk!Level3,
       Map!Level4, Walk!Level4, Map!Descend, Walk!Descend, Map!Closed, Walk!Closed,
       Map!Within, Walk!Within,
       Map!VAddr, Walk!VAddr, Map!Idx, Walk!Idx

-----------------------------------------------------------------------------
(* Pages.                                                                   *)

\* An address lies in its page, and in no other.
LEMMA InPage ==
  ASSUME NEW ps \in Nat \ {0}, NEW a \in Nat
  PROVE  /\ a \div ps \in Nat
         /\ (a \div ps) * ps <= a /\ a < (a \div ps) * ps + ps
         /\ a = (a \div ps) * ps + (a % ps)
<1> DEFINE q == a \div ps
<1>1. q \in Nat /\ a = ps * q + (a % ps) /\ a % ps \in 0 .. ps - 1
  OBVIOUS
<1>2. ps * q = q * ps /\ q * ps \in Int
  BY <1>1
<1> HIDE DEF q
<1>3. q * ps <= a /\ a < q * ps + ps /\ a = q * ps + (a % ps)
  BY <1>1, <1>2
<1> QED
  BY <1>1, <1>3 DEF q

LEMMA OnePage ==
  ASSUME NEW ps \in Nat \ {0}, NEW a \in Nat, NEW p \in Nat, p * ps <= a, a < p * ps + ps
  PROVE  a \div ps = p
<1> DEFINE q == a \div ps
<1>1. q \in Nat /\ q * ps <= a /\ a < q * ps + ps
  BY InPage
<1> HIDE DEF q
<1>2. ASSUME NEW x \in Nat, NEW y \in Nat, x < y PROVE x * ps + ps <= y * ps
  <2>1. y - x - 1 \in Nat /\ (y - x - 1) * ps \in Nat
    BY <1>2
  <2>2. y * ps = x * ps + ps + (y - x - 1) * ps
    BY <1>2
  <2> QED
    BY <2>1, <2>2
<1>3. ~ q < p /\ ~ p < q
  <2>1. q * ps \in Int /\ p * ps \in Int
    BY <1>1
  <2>2. q < p => q * ps + ps <= p * ps
    BY <1>1, <1>2
  <2>3. p < q => p * ps + ps <= q * ps
    BY <1>1, <1>2
  <2> QED
    BY <1>1, <2>1, <2>2, <2>3
<1> QED
  BY <1>1, <1>3 DEF q

\* The parameters of the machine.
LEMMA Sizes ==
  /\ PageSize \in Nat \ {0} /\ NPages \in Nat \ {0} /\ Word \in Nat /\ VirtAddr \in Nat
  /\ ElfP!Addr \subseteq Nat /\ ElfP!Page \subseteq Nat
BY ElfAssumed DEF ElfP!SizeAssumption, ElfP!Addr, ElfP!Page

-----------------------------------------------------------------------------
(* The invariant.                                                           *)

\* Images start at a page; the last one is where loadedBin points, between
\* calls.
BaseInv ==
  /\ \E b \in Nat : loadedBin = b * PageSize
  /\ \A n \in DOMAIN history : \E b \in Nat : history[n].base = b * PageSize
  /\ pc = "idle" /\ history # <<>> => loadedBin = history[Len(history)].base
  /\ \A n \in ElfP!Succeeded :
       ElfP!Harmless(history[n].file) => ElfP!Sound(history[n].file.phdrs)

\* Every byte of a harmless kernel is in a page that was given to an image.
ImagesInv ==
  /\ images \subseteq pages
  /\ ElfP!AllHarmless => \A a \in ElfP!Addr : KernelByte(a) => PageOf(a) \in images

\* The processor finds the pages from the base of the kernel that was mapped
\* last at the kernel's addresses, and nothing behind them.
ShowsInv ==
  shows # 0 =>
    /\ shows \in ElfP!Succeeded
    /\ \A v \in Walk!VAddr : v.pml4 = Walk!Top =>
         Walk!View(tables, cr3)[v] =
           IF v.pdp = Walk!Pdp THEN Walk!Mapped(PageOf(history[shows].base) + v.pd * N + v.pt)
           ELSE Absent

\* With harmless files, the mapper works in pages of its own.
SharedInv ==
  /\ ElfP!KernelInv /\ BaseInv /\ ImagesInv
  /\ ElfP!AllHarmless => Walk!WalkInv /\ ShowsInv

LEMMA InitHolds == Init => SharedInv
<1> SUFFICES ASSUME Init PROVE SharedInv
  OBVIOUS
<1>1. ElfP!Init
  BY SameLoader DEF Init
<1>2. ElfP!KernelInv
  BY <1>1, ElfAssumed, ElfP!IntactInit
<1>3. ElfP!Succeeded = {} /\ pc = "idle" /\ history = <<>> /\ loadedBin = 0 /\ pages = Firmware
  BY <1>1 DEF ElfP!Init, ElfP!Succeeded
<1>4. BaseInv
  <2>1. loadedBin = 0 * PageSize
    BY <1>3, Sizes
  <2> QED
    BY <1>3, <2>1 DEF BaseInv
<1>5. images = {} /\ ImagesInv
  BY <1>3 DEF Init, ImagesInv, KernelByte
<1>6. Walk!Init
  <2>1. pages \ images = Firmware /\ loadedBin \div PageSize = 0
    BY <1>3, <1>5, Sizes
  <2> QED
    BY <2>1 DEF Init, Walk!Init
<1>7. Walk!WalkInv
  BY <1>6, WalkAssumed, Walk!WalkInit
<1> QED
  BY <1>2, <1>4, <1>5, <1>7 DEF SharedInv, ShowsInv, Init

-----------------------------------------------------------------------------
(* Steps of the loader.                                                     *)

\* What a step of the loader does to the image, the pages and the history.
LEMMA LoaderShape ==
  ASSUME ElfP!TypeOK, ElfP!Next
  PROVE  /\ pages \subseteq pages'
         /\ \/ UNCHANGED <<loadedBin, kernelPages>> /\ (pc' = "load" => pc = "load")
            \/ ElfP!AllocPages
         /\ ElfP!AllocPages => pc = "scan" /\ pc' \in {"halt", "load"} /\ UNCHANGED <<history, mem>>
BY DEF ElfP!Next, ElfP!Step, ElfP!Call, ElfP!Open, ElfP!GetInfo, ElfP!ReadHeader, ElfP!ReadTable,
       ElfP!Scan, ElfP!AllocPages, ElfP!LoadSegment, ElfP!Finish, ElfP!Return, ElfP!Goto, ElfP!Halt,
       ElfP!globals, ElfP!machine

LEMMA BaseStep ==
  ASSUME ElfP!KernelInv, BaseInv, ElfP!Next
  PROVE  BaseInv'
<1>1. ElfP!TypeOK
  BY DEF ElfP!KernelInv, ElfP!ImageInv, ElfP!TypeInv
<1>2. CASE ElfP!AllocPages
  <2>1. pc' \in {"halt", "load"} /\ UNCHANGED history /\ pages \subseteq pages'
    BY <1>1, <1>2, LoaderShape
  <2>2. \E b \in Nat : loadedBin' = b * PageSize
    BY <1>2, Sizes DEF ElfP!AllocPages, BaseInv
  <2> QED
    BY <2>1, <2>2 DEF BaseInv, ElfP!Succeeded
<1>3. ASSUME UNCHANGED <<loadedBin, kernelPages>>, pc' = "load" => pc = "load", pages \subseteq pages'
      PROVE  BaseInv'
  <2>1. CASE UNCHANGED history /\ pc' # "idle"
    BY <1>3, <2>1 DEF BaseInv, ElfP!Succeeded
  <2>2. ASSUME NEW ok \in BOOLEAN, pc # "idle", ElfP!Return(ok),
               ok => pc = "load"
        PROVE  BaseInv'
    <3> DEFINE l == Len(history) + 1
    <3>1. file \in Files /\ history \in Seq([file : Files, base : ElfP!Addr, ok : BOOLEAN])
      BY <1>1, <2>2 DEF ElfP!TypeOK
    <3>2. /\ DOMAIN history' = DOMAIN history \union {l} /\ Len(history') = l
          /\ \A n \in DOMAIN history : history'[n] = history[n]
          /\ history'[l] = [file |-> file, base |-> loadedBin, ok |-> ok]
      BY <1>1, <2>2, <3>1, ElfAssumed, ElfP!ReturnAdds
    <3>3. /\ ok => ElfP!Succeeded' = ElfP!Succeeded \union {l}
          /\ ~ ok => ElfP!Succeeded' = ElfP!Succeeded
      BY <1>1, <2>2, <3>1, ElfAssumed, ElfP!SucceededAfter
    <3>4. history'[l].base = loadedBin
      BY <3>2
    <3>4a. history'[l].file = file
      BY <3>2
    <3>5a. ok /\ ElfP!Harmless(file) => ElfP!Sound(file.phdrs)
      BY <2>2 DEF ElfP!KernelInv, ElfP!TableInv
    <3> HIDE DEF l
    <3>6. \A n \in ElfP!Succeeded : n \in DOMAIN history
      BY DEF ElfP!Succeeded
    <3>7a. \A n \in ElfP!Succeeded' :
             ElfP!Harmless(history'[n].file) => ElfP!Sound(history'[n].file.phdrs)
      BY <3>2, <3>3, <3>4a, <3>5a, <3>6 DEF BaseInv
    <3>8. \A n \in DOMAIN history' : \E b \in Nat : history'[n].base = b * PageSize
      BY <3>2, <3>4 DEF BaseInv
    <3>9. pc' = "idle" /\ loadedBin' = history'[Len(history')].base
      BY <1>3, <2>2, <3>2, <3>4 DEF ElfP!Return
    <3>10. ElfP!Addr' = ElfP!Addr
      BY DEF ElfP!Addr
    <3> QED
      BY <1>3, <3>7a, <3>8, <3>9, <3>10
      DEF BaseInv, ElfP!Harmless, ElfP!TableComplete, ElfP!Sound, ElfP!Loads
  <2>3. ElfP!Finish => pc = "load" /\ ElfP!Return(TRUE)
    BY DEF ElfP!Finish
  <2> QED
    BY <1>1, <2>1, <2>2, <2>3, ElfAssumed, ElfP!StepShape
<1> QED
  BY <1>1, <1>2, <1>3, LoaderShape

\* Of a harmless file, every segment lies in the image when it is complete.
LEMMA PlacedInImage ==
  ASSUME ElfP!KernelInv, pc = "load", ElfP!Harmless(file),
         NEW k \in ElfP!Loads(file.phdrs), NEW o \in 0 .. file.phdrs[k].memsz - 1
  PROVE  ElfP!InImage(loadedBin + (file.phdrs[k].va - VirtAddr) + o)
<1> DEFINE s == file.phdrs[k]
           p == loadedBin + s.va - VirtAddr
<1>1. ElfP!TypeOK /\ ElfP!AllocInv /\ ElfP!TableInv
  BY DEF ElfP!KernelInv, ElfP!ImageInv, ElfP!TypeInv
<1>2. programHeaders = file.phdrs /\ ElfP!Sound(programHeaders)
  BY <1>1 DEF ElfP!TableInv
<1>3. s = programHeaders[k] /\ k \in ElfP!Loads(programHeaders)
  BY <1>2
<1>4. /\ s \in ElfP!Phdr /\ p \in Nat
      /\ loadedBin <= p /\ p + s.memsz <= loadedBin + kernelPages * PageSize
  BY <1>1, <1>2, <1>3, ElfAssumed, ElfP!SegmentPlace
<1>5. loadedBin \in Nat /\ kernelPages * PageSize \in Nat
  <2>1. loadedBin \in Nat /\ kernelPages \in Nat
    BY <1>1, Sizes DEF ElfP!TypeOK
  <2> QED
    BY <2>1, Sizes
<1>6. s.va \in Nat /\ s.memsz \in Nat
  BY <1>4, ElfAssumed, ElfP!PhdrFields
<1>7. loadedBin + (s.va - VirtAddr) + o = p + o /\ o < s.memsz /\ o \in Nat
  BY <1>5, <1>6, Sizes
<1> DEFINE n == kernelPages * PageSize
           m == s.memsz
<1>8. /\ n \in Nat /\ m \in Nat /\ p \in Nat /\ loadedBin \in Nat /\ o \in Nat /\ o < m
      /\ loadedBin <= p /\ p + m <= loadedBin + n
  BY <1>4, <1>5, <1>6, <1>7
<1> HIDE DEF n, m, p
<1>9. loadedBin <= p + o /\ p + o < loadedBin + n
  BY <1>8
<1> QED
  BY <1>7, <1>9 DEF n, ElfP!InImage

\* The kernel of a call that succeeds was the image of the call.
LEMMA KernelsOfFinish ==
  ASSUME ElfP!KernelInv, ElfP!AllHarmless, ElfP!Finish, NEW a \in ElfP!Addr, KernelByte(a)'
  PROVE  KernelByte(a)
<1> DEFINE l == Len(history) + 1
<1>1. /\ ElfP!TypeOK /\ pc = "load" /\ pc' = "idle" /\ file \in Files
      /\ ElfP!Return(TRUE)
  BY DEF ElfP!KernelInv, ElfP!ImageInv, ElfP!TypeInv, ElfP!TypeOK, ElfP!Finish, ElfP!Return
<1>2. /\ ElfP!Succeeded' = ElfP!Succeeded \union {l}
      /\ history'[l] = [file |-> file, base |-> loadedBin, ok |-> TRUE]
      /\ \A n \in DOMAIN history : history'[n] = history[n]
  BY <1>1, ElfAssumed, ElfP!SucceededAfter, ElfP!ReturnAdds
<1>3. history'[l].file = file /\ history'[l].base = loadedBin
  BY <1>2
<1> HIDE DEF l
<1>4. PICK n \in ElfP!Succeeded' :
        \E k \in ElfP!Loads(history'[n].file.phdrs) :
          \E o \in 0 .. history'[n].file.phdrs[k].memsz - 1 :
            a = history'[n].base + (history'[n].file.phdrs[k].va - VirtAddr) + o
  BY <1>1 DEF KernelByte, ElfP!Place, ElfP!Loads
<1>5. CASE n = l
  <2>1. ElfP!Harmless(file)
    BY <1>1 DEF ElfP!AllHarmless
  <2>2. ElfP!InImage(a)
    BY <1>1, <1>3, <1>4, <1>5, <2>1, PlacedInImage
  <2> QED
    BY <1>1, <2>2 DEF KernelByte
<1>6. CASE n \in ElfP!Succeeded
  <2>1. history'[n] = history[n]
    BY <1>2, <1>6 DEF ElfP!Succeeded
  <2> QED
    BY <1>4, <1>6, <2>1 DEF KernelByte, ElfP!Place
<1> QED
  BY <1>2, <1>5, <1>6

\* The pages of a new image are new, so no step of the loader gives away a
\* page of the mapper, and the bytes of every kernel are in pages of images.
LEMMA ImagesStep ==
  ASSUME ElfP!KernelInv, ImagesInv, LoaderStep, ElfP!Next
  PROVE  ImagesInv' /\ (pages \ images)' = pages \ images
<1>1. ElfP!TypeOK /\ pages \subseteq pages'
  BY LoaderShape DEF ElfP!KernelInv, ElfP!ImageInv, ElfP!TypeInv
<1>2. images' = images \union (pages' \ pages) /\ images \subseteq pages
  BY DEF LoaderStep, ImagesInv
<1>3. images' \subseteq pages' /\ pages' \ images' = pages \ images
  BY <1>1, <1>2
<1>4. ASSUME ElfP!AllHarmless', NEW a \in ElfP!Addr, KernelByte(a)'
      PROVE  PageOf(a) \in images'
  <2>1. ElfP!AllHarmless
    BY <1>1, <1>4, ElfAssumed, ElfP!HarmlessBefore
  <2>2. KernelByte(a) => PageOf(a) \in images'
    BY <1>2, <2>1 DEF ImagesInv
  <2>3. CASE ElfP!Finish
    BY <1>4, <2>1, <2>2, <2>3, KernelsOfFinish
  <2>4. CASE ~ ElfP!Finish
    <3>1. ElfP!Succeeded' = ElfP!Succeeded /\ \A n \in ElfP!Succeeded : history'[n] = history[n]
      <4>1. UNCHANGED history \/ (file \in Files /\ ElfP!Return(FALSE))
        BY <1>1, <2>4, ElfAssumed, ElfP!StepShape DEF ElfP!TypeOK
      <4> QED
        BY <1>1, <4>1, ElfAssumed, ElfP!SameSuccesses
    <3>2. KernelByte(a) \/ (pc' = "load" /\ ElfP!InImage(a)')
      BY <1>4, <3>1 DEF KernelByte, ElfP!Loads, ElfP!Place
    <3>3. CASE UNCHANGED <<loadedBin, kernelPages>> /\ (pc' = "load" => pc = "load")
      <4>1. ElfP!InImage(a)' <=> ElfP!InImage(a)
        BY <3>3 DEF ElfP!InImage
      <4>2. pc = "load" /\ ElfP!InImage(a) => KernelByte(a)
        BY DEF KernelByte
      <4> QED
        BY <2>2, <3>2, <3>3, <4>1, <4>2
    <3>4. CASE ElfP!AllocPages /\ pc' = "load" /\ ElfP!InImage(a)'
      <4> DEFINE n == kernelPages'
                 q == PageOf(a)
      <4>1. PICK b \in ElfP!Page : /\ ElfP!FreeRun(b, n) /\ loadedBin' = b * PageSize
                                   /\ pages' = pages \union (b .. b + n - 1)
        BY <3>4 DEF ElfP!AllocPages, ElfP!Halt
      <4>2. n \in Nat
        <5>1. largestMemSize \in Nat
          BY <1>1, Sizes DEF ElfP!TypeOK
        <5> QED
          BY <3>4, <5>1, ElfAssumed, ElfP!PagesForCovers DEF ElfP!AllocPages
      <4>3. b * PageSize <= a /\ a < b * PageSize + n * PageSize
        BY <3>4, <4>1 DEF ElfP!InImage
      <4> HIDE DEF n
      <4>4. a \in Nat /\ b \in Nat /\ q \in Nat /\ q * PageSize <= a /\ a < q * PageSize + PageSize
        BY <4>1, InPage, Sizes DEF PageOf
      <4>5. q \in b .. b + n - 1
        BY <4>2, <4>3, <4>4, ElfAssumed, ElfP!PageInRun, Sizes
      <4> QED
        BY <1>2, <4>1, <4>5 DEF ElfP!FreeRun
    <3> QED
      BY <1>1, <2>2, <3>2, <3>3, <3>4, LoaderShape
  <2> QED
    BY <2>3, <2>4
<1> QED
  BY <1>3, <1>4 DEF ImagesInv, ElfP!Addr, PageOf

\* And it writes no table of the mapper.
LEMMA TablesKept ==
  ASSUME ElfP!KernelInv, ImagesInv, ElfP!AllHarmless, LoaderStep, ElfP!Next, Walk!TypeOK
  PROVE  /\ tables' \in [Walk!Frame -> Walk!Table]
         /\ \A f \in pages \ images : tables'[f] = tables[f]
<1>1. /\ ElfP!TypeOK /\ ElfP!AllocInv /\ ElfP!TableInv
      /\ tables \in [Walk!Frame -> Walk!Table] /\ pages \ images \subseteq Walk!Frame
      /\ Overwritten \in Walk!Table
  BY WalkAssumed
  DEF ElfP!KernelInv, ElfP!ImageInv, ElfP!TypeInv, Walk!TypeOK, Walk!FrameAssumption
<1>2. tables' = [f \in Walk!Frame |->
                   IF \E o \in 0 .. PageSize - 1 : mem'[f * PageSize + o] # mem[f * PageSize + o]
                   THEN Overwritten ELSE tables[f]]
  BY SameWords DEF LoaderStep
<1>3. ASSUME NEW a \in ElfP!Addr, mem'[a] # mem[a] PROVE PageOf(a) \in images
  <2>1. ElfP!LoadSegment
    BY <1>3 DEF ElfP!Next, ElfP!Step, ElfP!Call, ElfP!Open, ElfP!GetInfo, ElfP!ReadHeader,
                ElfP!ReadTable, ElfP!Scan, ElfP!AllocPages, ElfP!Finish, ElfP!machine
  <2>2. pc = "load"
    BY <2>1 DEF ElfP!LoadSegment
  <2>3. ElfP!Sound(programHeaders)
    BY <1>1, <2>2 DEF ElfP!TableInv, ElfP!AllHarmless
  <2>4. KernelByte(a)
    BY <1>1, <1>3, <2>1, <2>2, <2>3, ElfAssumed, ElfP!StoreInImage DEF KernelByte
  <2> QED
    BY <2>4 DEF ImagesInv
<1>4. \A f \in pages \ images : f \in Walk!Frame /\ f \in ElfP!Page
  BY <1>1, SameWords
<1>5. ASSUME NEW f \in pages \ images, NEW o \in 0 .. PageSize - 1
      PROVE  mem'[f * PageSize + o] = mem[f * PageSize + o]
  <2> DEFINE a == f * PageSize + o
  <2>1. f \in Nat /\ f + 1 <= NPages /\ f * PageSize \in Nat /\ o \in Nat /\ o < PageSize
    BY <1>4, Sizes DEF ElfP!Page
  <2>2. a \in ElfP!Addr
    <3>1. (f + 1) * PageSize <= NPages * PageSize /\ (f + 1) * PageSize = f * PageSize + PageSize
      BY <2>1, Sizes
    <3>2. NPages * PageSize <= Word /\ NPages * PageSize \in Nat
      BY ElfAssumed, Sizes DEF ElfP!SizeAssumption
    <3> QED
      BY <2>1, <3>1, <3>2, Sizes DEF ElfP!Addr
  <2>3. PageOf(a) = f
    <3> DEFINE z == f * PageSize
    <3>1. a \in Nat /\ z <= a /\ a < z + PageSize
      <4>1. z \in Nat /\ o \in Nat /\ o < PageSize /\ PageSize \in Nat /\ a = z + o
        BY <2>1, Sizes
      <4> HIDE DEF z, a
      <4> QED
        BY <4>1
    <3> HIDE DEF a
    <3> QED
      BY <2>1, <3>1, OnePage, Sizes DEF PageOf
  <2> HIDE DEF a
  <2>4. mem'[a] = mem[a]
    BY <1>3, <2>2, <2>3
  <2> QED
    BY <2>4 DEF a
<1> QED
  BY <1>1, <1>2, <1>4, <1>5

\* Kernels that were loaded stay loaded.
LEMMA SucceededStay ==
  ASSUME ElfP!TypeOK, ElfP!Next, NEW n \in ElfP!Succeeded
  PROVE  n \in ElfP!Succeeded' /\ history'[n] = history[n]
<1>1. n \in DOMAIN history
  BY DEF ElfP!Succeeded
<1>2. CASE UNCHANGED history
  BY <1>2 DEF ElfP!Succeeded
<1>3. ASSUME NEW ok \in BOOLEAN, file \in Files, ElfP!Return(ok)
      PROVE  n \in ElfP!Succeeded' /\ history'[n] = history[n]
  BY <1>1, <1>3, ElfAssumed, ElfP!SucceededAfter, ElfP!ReturnAdds
<1>4. ElfP!Finish => pc # "idle" /\ ElfP!Return(TRUE)
  BY DEF ElfP!Finish
<1>5. pc # "idle" => file \in Files
  BY DEF ElfP!TypeOK
<1> QED
  BY <1>2, <1>3, <1>4, <1>5, ElfAssumed, ElfP!StepShape

LEMMA LoaderStepShared ==
  ASSUME SharedInv, LoaderStep
  PROVE  SharedInv'
<1>1. ElfP!Next /\ ElfP!KernelInv /\ BaseInv /\ ImagesInv /\ ElfP!TypeOK
  BY SameLoader DEF LoaderStep, SharedInv, ElfP!KernelInv, ElfP!ImageInv, ElfP!TypeInv
<1>2. ElfP!KernelInv'
  BY <1>1, ElfAssumed, ElfP!IntactStep
<1>3. BaseInv' /\ ImagesInv'
  BY <1>1, BaseStep, ImagesStep
<1>4. ASSUME ElfP!AllHarmless' PROVE Walk!WalkInv' /\ ShowsInv'
  <2> DEFINE own == pages \ images
  <2>1. ElfP!AllHarmless
    BY <1>1, <1>4, ElfAssumed, ElfP!HarmlessBefore
  <2>2. Walk!WalkInv /\ ShowsInv
    BY <2>1 DEF SharedInv
  <2>3. /\ Walk!TypeOK /\ Walk!Closed(tables, cr3, own)
        /\ step = "idle" /\ UNCHANGED <<step, cr3, PML4, PD, PDP, j, mappings, shows>>
    BY <2>2 DEF Walk!WalkInv, Walk!LiveAllocated, LoaderStep, mapper
  <2>4. own \subseteq own'
    BY <1>1, ImagesStep
  <2>5. /\ tables' \in [Walk!Frame -> Walk!Table]
        /\ \A f \in own : tables'[f] = tables[f]
    BY <1>1, <2>1, <2>3, TablesKept
  <2>6. own' \subseteq Walk!Frame
    <3>1. pages' \subseteq ElfP!Page
      BY <1>2 DEF ElfP!KernelInv, ElfP!ImageInv, ElfP!TypeInv, ElfP!TypeOK, ElfP!Page
    <3> QED
      BY <3>1, SameWords
  <2>7. Walk!LiveAllocated' /\ Walk!View(tables', cr3') = Walk!View(tables, cr3)
    BY <2>3, <2>4, <2>5, WalkAssumed, Walk!LiveKept DEF own
  <2>9. (loadedBin \div PageSize)' \in Nat
    <3>1. loadedBin' \in Nat
      BY <1>2, Sizes DEF ElfP!KernelInv, ElfP!ImageInv, ElfP!TypeInv, ElfP!TypeOK, ElfP!Addr
    <3>2. loadedBin' \div PageSize \in Nat
      BY <3>1, InPage, Sizes
    <3> QED
      BY <3>2
  <2>10. Walk!TypeOK'
    BY <2>3, <2>4, <2>5, <2>6, <2>9 DEF Walk!TypeOK, own
  <2>11. Walk!WalkInv'
    BY <2>3, <2>7, <2>10
    DEF Walk!WalkInv, Walk!CopyInv, Walk!BuildInv, Walk!LinkedInv
  <2>12. ShowsInv'
    <3>1. CASE shows = 0
      BY <2>3, <3>1 DEF ShowsInv
    <3>2. CASE shows # 0
      <4>1. shows \in ElfP!Succeeded
        BY <2>2, <3>2 DEF ShowsInv
      <4>2. shows \in ElfP!Succeeded' /\ history'[shows] = history[shows]
        BY <1>1, <4>1, SucceededStay
      <4> QED
        BY <2>2, <2>3, <2>7, <3>2, <4>2
        DEF ShowsInv, PageOf
    <3> QED
      BY <3>1, <3>2
  <2> QED
    BY <2>11, <2>12
<1> QED
  BY <1>2, <1>3, <1>4 DEF SharedInv

-----------------------------------------------------------------------------
(* Steps of the mapper.                                                     *)

LEMMA KernelsKept ==
  ASSUME UNCHANGED loader, NEW a
  PROVE  KernelByte(a)' <=> KernelByte(a)
<1>1. UNCHANGED <<pc, loadedBin, kernelPages, history>>
  BY DEF loader
<1> QED
  BY <1>1 DEF KernelByte, ElfP!InImage, ElfP!Succeeded, ElfP!Loads, ElfP!Place

\* A page that the firmware gives belongs to no image and to no table.
LEMMA FreshPage ==
  ASSUME NEW f \in Map!Fresh
  PROVE  /\ f \in Map!Frame /\ f \notin pages
         /\ f \in Walk!Fresh
<1>1. Map!Frame \ pages \in SUBSET Map!Frame
  OBVIOUS
<1>2. f \in Map!Frame \ pages
  BY <1>1, MapAssumption DEF Map!AllocatorAssumption, Map!Fresh
<1> QED
  BY <1>2, SameWords DEF Walk!Fresh, AnyOf

\* A step of the mapper is one in which the images count as free memory.
LEMMA SameMapper ==
  ASSUME MapperStep, images \subseteq pages
  PROVE  /\ Walk!Next
         /\ step = "cr3" => Walk!LoadCr3
<1> DEFINE own == pages \ images
<1>1. images' = images /\ (loadedBin \div PageSize)' = loadedBin \div PageSize
  BY DEF MapperStep, loader
<1>2. UNCHANGED pages => own' = own
  BY <1>1
<1>3. ASSUME NEW f \in Map!Fresh, pages' = pages \union {f}
      PROVE  own' = own \union {f} /\ f \in Walk!Fresh
  <2>1. f \notin pages /\ f \in Walk!Fresh
    BY FreshPage
  <2> QED
    BY <1>1, <1>3, <2>1
<1> HIDE DEF own
<1> USE DEF Map!Halt, Walk!Halt, Map!Locals, Walk!Locals, Map!Write, Walk!Write
<1>4. Map!Call => Walk!Call
  BY <1>1, <1>2 DEF Map!Call, Walk!Call, own
<1>5. Map!CopyPML4 => Walk!CopyPML4
  BY <1>1, <1>2, <1>3 DEF Map!CopyPML4, Walk!CopyPML4, own
<1>6. Map!AllocPD => Walk!AllocPD
  BY <1>1, <1>2, <1>3 DEF Map!AllocPD, Walk!AllocPD, own
<1>7. Map!MapPT => Walk!MapPT
  BY <1>1, <1>2, <1>3 DEF Map!MapPT, Walk!MapPT, own, Map!PageTable, Walk!PageTable,
                          Map!Mapped, Walk!Mapped, Map!Idx, Walk!Idx
<1>8. Map!MapPDP => Walk!MapPDP
  BY <1>1, <1>2, <1>3 DEF Map!MapPDP, Walk!MapPDP, own, Map!Mapped, Walk!Mapped,
                          Map!Idx, Walk!Idx, Map!Pdp, Walk!Pdp, Map!Top, Walk!Top
<1>9. Map!LoadCr3 => Walk!LoadCr3
  BY <1>1, <1>2 DEF Map!LoadCr3, Walk!LoadCr3, own
<1>10. Walk!Next
  BY <1>4, <1>5, <1>6, <1>7, <1>8, <1>9 DEF MapperStep, Map!Step, Walk!Next, Walk!Step
<1>11. step = "cr3" => Map!LoadCr3
  BY DEF MapperStep, Map!Step, Map!Call, Map!CopyPML4, Map!AllocPD, Map!MapPT, Map!MapPDP
<1> QED
  BY <1>9, <1>10, <1>11

\* A step of the mapper takes at most one page, and writes that and its tables.
LEMMA MapperShape ==
  ASSUME MapperStep, pages \subseteq Map!Frame
  PROVE  /\ pages \subseteq pages' /\ pages' \subseteq Map!Frame
         /\ tables \in [Map!Frame -> Map!Table] =>
              \A p \in pages : p \notin {PML4, PD} => tables'[p] = tables[p]
<1>1. \A f \in Map!Fresh : f \in Map!Frame /\ f \notin pages
  BY FreshPage
<1>2. CASE Map!Call \/ Map!LoadCr3
  BY <1>2 DEF Map!Call, Map!LoadCr3
<1>3. CASE Map!CopyPML4
  BY <1>1, <1>3 DEF Map!CopyPML4, Map!Halt, Map!Write
<1>4. CASE Map!AllocPD
  BY <1>1, <1>4 DEF Map!AllocPD, Map!Halt
<1>5. CASE Map!MapPT
  BY <1>1, <1>5 DEF Map!MapPT, Map!Halt
<1>6. CASE Map!MapPDP
  BY <1>1, <1>6 DEF Map!MapPDP, Map!Halt
<1> QED
  BY <1>2, <1>3, <1>4, <1>5, <1>6 DEF MapperStep, Map!Step

\* With harmless files, no byte of a kernel is written.
LEMMA KernelsUntouched ==
  ASSUME ElfP!KernelInv, ImagesInv, ElfP!AllHarmless, Walk!WalkInv, MapperStep,
         NEW a \in ElfP!Addr, KernelByte(a)
  PROVE  mem'[a] = mem[a]
<1>1. pages \subseteq ElfP!Page
  BY DEF ElfP!KernelInv, ElfP!ImageInv, ElfP!TypeInv, ElfP!TypeOK
<1>2. PageOf(a) \in images /\ PageOf(a) \in pages
  BY DEF ImagesInv
<1>3. PageOf(a) \notin {PML4, PD} /\ tables \in [Map!Frame -> Map!Table]
  BY <1>2 DEF Walk!WalkInv, Walk!TypeOK, Map!Frame, Walk!Frame, Map!Table, Walk!Table,
              Map!Idx, Walk!Idx, Map!Entry, Walk!Entry
<1>4. tables'[PageOf(a)] = tables[PageOf(a)]
  BY <1>1, <1>2, <1>3, MapperShape, SameWords
<1> QED
  BY <1>4, SameLoader DEF MapperStep

LEMMA MapperKernelInv ==
  ASSUME SharedInv, MapperStep
  PROVE  ElfP!KernelInv'
<1>1. /\ pc = "idle"
      /\ UNCHANGED <<pc, file, header, programHeaders, i, largestMemAdd, largestMemSize, elfEntry,
                     loadedBin, kernelPages, handles, pool, history>>
  BY DEF MapperStep, loader
<1>2. ElfP!KernelInv /\ ImagesInv /\ ElfP!TypeOK
  BY DEF SharedInv, ElfP!KernelInv, ElfP!ImageInv, ElfP!TypeInv
<1>3. pages \subseteq pages' /\ pages' \subseteq ElfP!Page
  BY <1>2, MapperShape, SameWords DEF ElfP!TypeOK
<1>4. mem' \in [ElfP!Addr -> ElfP!Byte]
  BY <1>2, SameLoader DEF MapperStep, ElfP!TypeOK, ElfP!Byte
<1>5. ElfP!TypeInv'
  BY <1>1, <1>2, <1>3, <1>4
  DEF ElfP!KernelInv, ElfP!ImageInv, ElfP!TypeInv, ElfP!TypeOK, ElfP!HandleHeld,
      ElfP!Page, ElfP!Addr, ElfP!Byte, ElfP!Phdr, ElfP!Header
<1>6. (ElfP!ScanInv /\ ElfP!AllocInv /\ ElfP!HeaderInv /\ ElfP!HeaderMagic /\ ElfP!TableInv
       /\ ElfP!ImageInPages /\ ElfP!SoFarLoaded)'
  BY <1>1 DEF ElfP!ScanInv, ElfP!AllocInv, ElfP!HeaderInv, ElfP!HeaderMagic, ElfP!TableInv,
              ElfP!ImageInPages, ElfP!SoFarLoaded
<1>7. ElfP!AllHarmless' <=> ElfP!AllHarmless
  BY <1>1 DEF ElfP!AllHarmless, ElfP!Harmless, ElfP!TableComplete, ElfP!Sound, ElfP!Loads
<1>8. ElfP!Succeeded' = ElfP!Succeeded /\ \A n \in ElfP!Succeeded : history'[n] = history[n]
  BY <1>1 DEF ElfP!Succeeded
<1>9. ASSUME ElfP!AllHarmless PROVE ElfP!LoadedApart' /\ ElfP!LoadedImagesIntact'
  <2>1. Walk!WalkInv /\ ElfP!LoadedApart /\ ElfP!LoadedImagesIntact
    BY <1>2, <1>9 DEF SharedInv, ElfP!KernelInv
  <2>2. \A a \in ElfP!Addr : ElfP!Apart(a) => ElfP!Apart(a)'
    BY <1>1, <1>3 DEF ElfP!Apart, ElfP!InPages
  <2>3. ElfP!LoadedApart'
    BY <1>8, <1>9, <2>1, <2>2, ElfAssumed, ElfP!ApartKept
  <2>4. ASSUME NEW n \in ElfP!Succeeded, NEW k \in ElfP!Loads(history[n].file.phdrs),
               NEW o \in 0 .. history[n].file.phdrs[k].memsz - 1
        PROVE  mem'[ElfP!Place(history[n], k, o)] = mem[ElfP!Place(history[n], k, o)]
    <3> DEFINE a == ElfP!Place(history[n], k, o)
    <3>1. a \in ElfP!Addr
      BY <1>9, <2>1 DEF ElfP!LoadedApart
    <3>2. KernelByte(a)
      BY DEF KernelByte
    <3> HIDE DEF a
    <3>3. mem'[a] = mem[a]
      BY <1>2, <1>9, <2>1, <3>1, <3>2, KernelsUntouched
    <3> QED
      BY <3>3 DEF a
  <2>5. ElfP!LoadedImagesIntact'
    BY <1>8, <1>9, <2>1, <2>4, ElfAssumed, ElfP!IntactKept
  <2> QED
    BY <2>3, <2>5
<1>10. ElfP!LoadedApart' /\ ElfP!LoadedImagesIntact'
  BY <1>7, <1>9 DEF ElfP!LoadedApart, ElfP!LoadedImagesIntact, ElfP!AllHarmless
<1> QED
  BY <1>5, <1>6, <1>10 DEF ElfP!KernelInv, ElfP!ImageInv

\* Loading cr3 shows the kernel that was loaded last, if the last call of
\* loadElf succeeded; every other step leaves the address space alone.
LEMMA MapperShows ==
  ASSUME SharedInv, ElfP!AllHarmless, MapperStep
  PROVE  Walk!WalkInv' /\ ShowsInv'
<1>1. /\ ElfP!KernelInv /\ BaseInv /\ ImagesInv /\ Walk!WalkInv /\ ShowsInv
      /\ pc = "idle" /\ UNCHANGED <<pc, loadedBin, history>>
  BY DEF SharedInv, MapperStep, loader
<1>2. Walk!Next /\ (step = "cr3" => Walk!LoadCr3)
  BY <1>1, SameMapper DEF ImagesInv
<1>3. Walk!WalkInv'
  BY <1>1, <1>2, WalkAssumed, Walk!WalkStep
<1>4. ElfP!Succeeded' = ElfP!Succeeded
  BY <1>1 DEF ElfP!Succeeded
<1>5. CASE step # "cr3"
  <2>1. shows' = shows
    BY <1>5 DEF MapperStep
  <2>2. Walk!View(tables', cr3') = Walk!View(tables, cr3)
    <3>1. ~ Walk!LoadCr3
      BY <1>5 DEF Walk!LoadCr3
    <3> QED
      BY <1>1, <1>2, <3>1, WalkAssumed, Walk!OtherSteps DEF Walk!StepKeeps
  <2> QED
    BY <1>1, <1>3, <1>4, <2>1, <2>2
    DEF ShowsInv, Walk!VAddr, Walk!Idx, Walk!Top, Walk!Pdp, Walk!Mapped, PageOf
<1>6. CASE step = "cr3"
  <2>1. /\ Walk!View(tables', cr3') = Walk!Space!WithKernel(Walk!View(tables, cr3), loadedBin \div PageSize)
    BY <1>1, <1>2, <1>6, WalkAssumed, Walk!LoadCr3Step
  <2>2. shows' = IF history # <<>> /\ history[Len(history)].ok THEN Len(history) ELSE 0
    BY <1>6 DEF MapperStep
  <2>3. CASE history # <<>> /\ history[Len(history)].ok
    <3>1. shows' = Len(history) /\ loadedBin = history[Len(history)].base
      BY <1>1, <2>2, <2>3 DEF BaseInv
    <3>2. Len(history) \in ElfP!Succeeded
      <4>1. history \in Seq([file : Files, base : ElfP!Addr, ok : BOOLEAN])
        BY <1>1 DEF ElfP!KernelInv, ElfP!ImageInv, ElfP!TypeInv, ElfP!TypeOK
      <4>2. Len(history) \in DOMAIN history
        BY <2>3, <4>1
      <4> QED
        BY <2>3, <4>2 DEF ElfP!Succeeded
    <3>3. ASSUME NEW v \in Walk!VAddr, v.pml4 = Walk!Top
          PROVE  Walk!View(tables', cr3')[v] =
                   IF v.pdp = Walk!Pdp
                   THEN Walk!Mapped(PageOf(loadedBin) + v.pd * N + v.pt) ELSE Absent
      BY <2>1, <3>3
      DEF Walk!Space!WithKernel, Walk!Space!VAddr, Walk!VAddr, Walk!Space!Idx, Walk!Idx,
          Walk!Space!Top, Walk!Top, Walk!Space!Pdp, Walk!Pdp,
          Walk!Space!Mapped, Walk!Mapped, PageOf
    <3> QED
      BY <1>1, <1>3, <1>4, <3>1, <3>2, <3>3
      DEF ShowsInv, PageOf, Walk!VAddr, Walk!Idx, Walk!Top, Walk!Pdp, Walk!Mapped
  <2>4. CASE ~ (history # <<>> /\ history[Len(history)].ok)
    BY <1>3, <2>2, <2>4 DEF ShowsInv
  <2> QED
    BY <2>3, <2>4
<1> QED
  BY <1>3, <1>5, <1>6

LEMMA MapperStepShared ==
  ASSUME SharedInv, MapperStep
  PROVE  SharedInv'
<1>1. ElfP!KernelInv'
  BY MapperKernelInv
<1>2. UNCHANGED <<pc, loadedBin, kernelPages, history, file>>
  BY DEF MapperStep, loader
<1>3. pages \subseteq pages'
  BY MapperShape, SameWords DEF SharedInv, ElfP!KernelInv, ElfP!ImageInv, ElfP!TypeInv, ElfP!TypeOK
<1>4. BaseInv'
  <2>1. ElfP!Succeeded' = ElfP!Succeeded
    BY <1>2 DEF ElfP!Succeeded
  <2> QED
    BY <1>2, <2>1 DEF SharedInv, BaseInv
<1>5. ElfP!AllHarmless' => ElfP!AllHarmless
  BY <1>2 DEF ElfP!AllHarmless, ElfP!Harmless, ElfP!TableComplete, ElfP!Sound, ElfP!Loads
<1>6. ImagesInv'
  <2>1. \A a : KernelByte(a)' <=> KernelByte(a)
    BY KernelsKept DEF MapperStep
  <2> QED
    BY <1>3, <1>5, <2>1 DEF SharedInv, ImagesInv, MapperStep, ElfP!Addr, PageOf
<1> QED
  BY <1>1, <1>4, <1>5, <1>6, MapperShows DEF SharedInv

LEMMA SharedStep == SharedInv /\ [Next]_vars => SharedInv'
<1> SUFFICES ASSUME SharedInv, [Next]_vars PROVE SharedInv'
  OBVIOUS
<1>1. CASE LoaderStep
  BY <1>1, LoaderStepShared
<1>2. CASE MapperStep
  BY <1>2, MapperStepShared
<1>3. CASE UNCHANGED vars
  <2>1. UNCHANGED <<pc, file, header, programHeaders, i, largestMemAdd, largestMemSize, elfEntry,
                    loadedBin, kernelPages, handles, pool, history, mem, pages>>
    BY <1>3 DEF vars, loader
  <2>2. UNCHANGED <<step, cr3, PML4, PD, PDP, j, mappings, tables, shows>>
    BY <1>3 DEF vars, mapper
  <2>3. ElfP!KernelInv'
    <3>1. UNCHANGED ElfP!vars
      BY <2>1 DEF ElfP!vars, ElfP!locals, ElfP!globals, ElfP!machine, ElfP!held
    <3> QED
      BY <3>1, ElfAssumed, ElfP!IntactStep DEF SharedInv
  <2>4. BaseInv' /\ ImagesInv'
    <3>1. BaseInv'
      <4>1. ElfP!Succeeded' = ElfP!Succeeded /\ UNCHANGED <<history, loadedBin, kernelPages>>
        BY <2>1 DEF ElfP!Succeeded
      <4> QED
        BY <4>1, <2>1 DEF SharedInv, BaseInv
    <3>2. images' = images /\ \A a : KernelByte(a)' <=> KernelByte(a)
      BY <1>3, <2>1, KernelsKept DEF vars, loader
    <3>3. ElfP!AllHarmless' => ElfP!AllHarmless
      BY <2>1 DEF ElfP!AllHarmless, ElfP!Harmless, ElfP!TableComplete, ElfP!Sound, ElfP!Loads
    <3> QED
      BY <2>1, <3>1, <3>2, <3>3 DEF SharedInv, ImagesInv, ElfP!Addr, PageOf
  <2>5. ElfP!AllHarmless' => ElfP!AllHarmless
    BY <2>1 DEF ElfP!AllHarmless, ElfP!Harmless, ElfP!TableComplete, ElfP!Sound, ElfP!Loads
  <2>6. ASSUME ElfP!AllHarmless PROVE Walk!WalkInv' /\ ShowsInv'
    <3>1. UNCHANGED Walk!vars
      <4>1. images' = images
        BY <1>3 DEF vars
      <4> QED
        BY <2>1, <2>2, <4>1 DEF Walk!vars
    <3>2. Walk!WalkInv'
      BY <2>6, <3>1, WalkAssumed, Walk!WalkStep DEF SharedInv
    <3>3. ShowsInv'
      <4>1. ElfP!Succeeded' = ElfP!Succeeded
        BY <2>1 DEF ElfP!Succeeded
      <4>2. shows' = shows /\ history' = history /\ tables' = tables /\ cr3' = cr3
        BY <2>1, <2>2
      <4>3. ShowsInv
        BY <2>6 DEF SharedInv
      <4> QED
        BY <4>1, <4>2, <4>3 DEF ShowsInv
    <3> QED
      BY <3>2, <3>3
  <2> QED
    BY <2>3, <2>4, <2>5, <2>6 DEF SharedInv
<1> QED
  BY <1>1, <1>2, <1>3 DEF Next

-----------------------------------------------------------------------------
(* What the processor finds.                                                *)

\* The processor reads its tables from pages that are in use and were never
\* part of an image, also of the image of a call that failed: images and tables
\* are given different memory, however loads and mappings follow one another
\* (loadElf.c:84, mapAdress.c:17-60).
THEOREM TablesAreNoImages == Spec => []TablesNotImages
<1>1. SharedInv => TablesNotImages
  <2> SUFFICES ASSUME SharedInv, ElfP!AllHarmless
               PROVE  Walk!Closed(tables, cr3, pages \ images)
    BY SameWords DEF TablesNotImages, ElfP!AllHarmless
  <2> QED
    BY DEF SharedInv, Walk!WalkInv, Walk!LiveAllocated
<1> QED
  BY <1>1, InitHolds, SharedStep, PTL DEF Spec

\* The quotient and the remainder of q * n + r.
LEMMA Divide ==
  ASSUME NEW n \in Nat \ {0}, NEW q \in Nat, NEW r \in 0 .. n - 1
  PROVE  (q * n + r) \div n = q /\ (q * n + r) % n = r
<1> DEFINE a == q * n + r
<1>1. a \in Nat /\ q * n \in Nat
  OBVIOUS
<1>2. a \div n = q
  BY <1>1, OnePage
<1>3. a = (a \div n) * n + (a % n) /\ a % n \in 0 .. n - 1
  BY <1>1, InPage
<1>4. a % n = r
  BY <1>1, <1>2, <1>3
<1> QED
  BY <1>2, <1>4

\* The indices of page x of the upper 2 GiB of a four-level address space.
LEMMA Indices ==
  ASSUME NEW n \in Nat, n >= 2, NEW x \in Nat, x < 2 * (n * n),
         NEW p \in Nat, p = (n - 1) * (n * n * n) + (n - 2) * (n * n) + x
  PROVE  /\ (p \div (n * n * n)) % n = n - 1
         /\ x < n * n => /\ (p \div (n * n)) % n = n - 2
                         /\ (p \div n) % n \in 0 .. n - 1 /\ p % n \in 0 .. n - 1
                         /\ ((p \div n) % n) * n + (p % n) = x
         /\ ~ x < n * n => (p \div (n * n)) % n = n - 1
<1> DEFINE n2 == n * n
           n3 == n * n * n
<1>1. n2 \in Nat \ {0} /\ n3 \in Nat \ {0} /\ n3 = n2 * n /\ n - 1 \in Nat /\ n - 2 \in Nat
  OBVIOUS
<1>2. (n - 2) * n2 + x \in 0 .. n3 - 1
  <2>1. (n - 2) * n2 = n3 - 2 * n2
    OBVIOUS
  <2>2. (n - 2) * n2 \in Nat
    BY <1>1
  <2> HIDE DEF n2, n3
  <2> QED
    BY <1>1, <2>1, <2>2 DEF n2
<1>3. p = (n - 1) * n3 + ((n - 2) * n2 + x)
  OBVIOUS
<1>4. p \in Nat /\ p \div n3 = n - 1
  <2> DEFINE r == (n - 2) * n2 + x
  <2>1. r \in 0 .. n3 - 1 /\ p = (n - 1) * n3 + r
    BY <1>2, <1>3
  <2>2. (n - 1) * n3 \in Nat
    BY <1>1
  <2> HIDE DEF r, n3, n2
  <2> QED
    BY <1>1, <2>1, <2>2, Divide
<1>5. \A q \in 0 .. n - 1 : q % n = q
  OBVIOUS
<1> DEFINE top == (n - 1) * n + (n - 2)
<1>6. top \in Nat /\ top % n = n - 2 /\ (top + 1) % n = n - 1
  <2>1. n - 2 \in 0 .. n - 1 /\ n - 1 \in 0 .. n - 1 /\ (n - 1) * n \in Nat
    OBVIOUS
  <2>2. top + 1 = (n - 1) * n + (n - 1)
    BY <2>1
  <2>3. ((n - 1) * n + (n - 2)) % n = n - 2 /\ ((n - 1) * n + (n - 1)) % n = n - 1
    <3> DEFINE a == n - 1
               b == n - 2
    <3>1. a \in Nat /\ b \in 0 .. n - 1 /\ a \in 0 .. n - 1 /\ n \in Nat \ {0}
      BY <1>1
    <3> HIDE DEF a, b
    <3>2. (a * n + b) % n = b /\ (a * n + a) % n = a
      BY <3>1, Divide
    <3> QED
      BY <3>2 DEF a, b
  <2> QED
    BY <2>1, <2>2, <2>3
<1>7. p = top * n2 + x
  OBVIOUS
<1>8. ASSUME x < n2
      PROVE  /\ (p \div n2) % n = n - 2
             /\ (p \div n) % n \in 0 .. n - 1 /\ p % n \in 0 .. n - 1
             /\ ((p \div n) % n) * n + (p % n) = x
  <2>1. p \div n2 = top
    <3> HIDE DEF top, n2
    <3> QED
      BY <1>1, <1>6, <1>7, <1>8, Divide, SMTT(40)
  <2> DEFINE q == x \div n
             r == x % n
  <2>2. q \in Nat /\ r \in 0 .. n - 1 /\ x = q * n + r
    BY InPage
  <2>3. q < n
    <3>1. n <= q => n * n <= q * n
      BY <2>2
    <3>2. q * n \in Int /\ n * n \in Int
      BY <2>2
    <3> HIDE DEF q, r
    <3> QED
      BY <1>8, <2>2, <3>1, <3>2
  <2> HIDE DEF q, r
  <2>4. p = (top * n + q) * n + r
    <3>1. (top * n + q) * n = top * (n * n) + q * n
      BY <1>6, <2>2
    <3>2. top * (n * n) \in Nat /\ q * n \in Nat
      BY <1>6, <2>2
    <3> HIDE DEF top
    <3> QED
      BY <1>7, <2>2, <3>1, <3>2
  <2>5. top * n + q \in Nat
    BY <1>6, <2>2
  <2>6. p \div n = top * n + q /\ p % n = r
    <3> DEFINE a == top * n + q
    <3>1. a \in Nat /\ p = a * n + r /\ n \in Nat \ {0}
      BY <2>4, <2>5
    <3> HIDE DEF top, a
    <3>2. p \div n = a /\ p % n = r
      BY <2>2, <3>1, Divide
    <3> QED
      BY <3>2 DEF a
  <2>7. (top * n + q) % n = q
    <3>1. q \in 0 .. n - 1 /\ n \in Nat \ {0}
      BY <2>2, <2>3
    <3> HIDE DEF top
    <3> QED
      BY <1>6, <3>1, Divide
  <2> HIDE DEF top
  <2> QED
    BY <1>6, <2>1, <2>2, <2>3, <2>6, <2>7
<1>9. ASSUME ~ x < n2
      PROVE  (p \div n2) % n = n - 1
  <2> DEFINE y == x - n2
  <2>1. y \in 0 .. n2 - 1
    BY <1>1, <1>9
  <2>2. p = (top + 1) * n2 + y
    <3>1. (top + 1) * n2 = top * n2 + n2 /\ top * n2 \in Nat
      BY <1>1, <1>6
    <3> HIDE DEF top, n2
    <3> QED
      BY <1>1, <1>7, <3>1 DEF n2
  <2>3. p \div n2 = top + 1
    <3> DEFINE a == top + 1
    <3>1. a \in Nat /\ p = a * n2 + y
      BY <1>6, <2>2
    <3> HIDE DEF top, n2, y, a
    <3>2. p \div n2 = a
      BY <1>1, <2>1, <3>1, Divide
    <3> QED
      BY <3>2 DEF a
  <2> HIDE DEF top, n2, y
  <2> QED
    BY <1>6, <2>3
<1> HIDE DEF top
<1> QED
  BY <1>1, <1>4, <1>5, <1>8, <1>9

\* The numbers of the address space.
LEMMA Space ==
  /\ N \in Nat /\ N >= 2 /\ PageSize \in Nat \ {0}
  /\ Word = (N * N * N * N) * PageSize
  /\ VirtAddr = ((N - 1) * (N * N * N) + (N - 2) * (N * N)) * PageSize
  /\ N * N * N * N = ((N - 1) * (N * N * N) + (N - 2) * (N * N)) + 2 * (N * N)
<1>1. N \in Nat /\ N >= 2
  BY MapAssumption DEF Map!EntryAssumption
<1>2. N * N * N * N = ((N - 1) * (N * N * N) + (N - 2) * (N * N)) + 2 * (N * N)
  BY <1>1
<1> QED
  BY <1>1, <1>2, MachineAssumption, Sizes DEF VirtAddr

\* The indices of the virtual address v.
Index(v) ==
  LET p == PageOf(v) IN
  [pml4 |-> (p \div (N * N * N)) % N, pdp |-> (p \div (N * N)) % N,
   pd |-> (p \div N) % N, pt |-> p % N]

\* A kernel's address v is byte v % PageSize of page x of the upper 2 GiB.
LEMMA KernelAddress ==
  ASSUME NEW v \in Nat, VirtAddr <= v, v < Word
  PROVE  \E x \in Nat :
           /\ v = VirtAddr + x * PageSize + (v % PageSize)
           /\ Index(v) \in Walk!VAddr /\ Index(v).pml4 = Walk!Top
           /\ v < VirtAddr + Window =>
                Index(v).pdp = Walk!Pdp /\ Index(v).pd * N + Index(v).pt = x
           /\ ~ v < VirtAddr + Window => Index(v).pdp # Walk!Pdp
<1> DEFINE ps == PageSize
           p == v \div ps
           f == (N - 1) * (N * N * N) + (N - 2) * (N * N)
           n2 == N * N
           x == p - f
<1>0. ps \in Nat \ {0} /\ N \in Nat /\ N >= 2 /\ f \in Nat /\ n2 \in Nat
  <2>1. N \in Nat /\ N >= 2
    BY Space
  <2>2. (N - 1) * (N * N * N) \in Nat /\ (N - 2) * (N * N) \in Nat
    <3>1. N - 1 \in Nat /\ N - 2 \in Nat /\ N * N * N \in Nat /\ N * N \in Nat
      BY <2>1
    <3> QED
      BY <3>1
  <2> QED
    BY <2>1, <2>2, Space
<1>1. p \in Nat /\ p * ps <= v /\ v < p * ps + ps /\ v = p * ps + (v % ps) /\ v % ps \in Nat
  BY <1>0, InPage
<1>2. /\ VirtAddr = f * ps /\ Word = (f + 2 * n2) * ps
      /\ VirtAddr + Window = (f + n2) * ps
  <2>1. VirtAddr = f * ps /\ Word = (f + 2 * n2) * ps
    BY Space
  <2>2. (f + n2) * ps = f * ps + n2 * ps
    BY <1>0
  <2> QED
    BY <2>1, <2>2 DEF Window
<1>3. Index(v) = [pml4 |-> (p \div (N * N * N)) % N, pdp |-> (p \div (N * N)) % N,
                  pd |-> (p \div N) % N, pt |-> p % N]
  BY DEF Index, PageOf
<1> HIDE DEF ps, f, n2, p
<1>4. ASSUME NEW a \in Nat, NEW b \in Nat PROVE a <= b => a * ps <= b * ps
  BY <1>0
<1>5. ASSUME NEW a \in Nat PROVE /\ v < a * ps => p < a
                                 /\ a * ps <= v => a <= p
  <2>1. a <= p => a * ps <= p * ps
    BY <1>1, <1>4
  <2>2. p + 1 <= a => (p + 1) * ps <= a * ps
    BY <1>1, <1>4
  <2>3. (p + 1) * ps = p * ps + ps /\ p * ps \in Nat /\ a * ps \in Nat
    BY <1>0, <1>1
  <2> QED
    BY <1>0, <1>1, <2>1, <2>2, <2>3
<1>6. f <= p /\ p < f + 2 * n2 /\ (v < VirtAddr + Window <=> p < f + n2)
  <2>1. f <= p
    BY <1>0, <1>2, <1>5
  <2>2. f + 2 * n2 \in Nat /\ f + n2 \in Nat
    BY <1>0
  <2>3. p < f + 2 * n2
    BY <1>2, <1>5, <2>2
  <2>4. (f + n2) * ps \in Nat
    BY <1>0, <2>2
  <2> QED
    BY <1>1, <1>2, <1>5, <2>1, <2>2, <2>3, <2>4
<1>7. x \in Nat /\ x < 2 * n2 /\ p = f + x /\ (v < VirtAddr + Window <=> x < n2)
  BY <1>0, <1>1, <1>6
<1>8. v = VirtAddr + x * ps + (v % ps)
  <2>1. p * ps = f * ps + x * ps
    BY <1>0, <1>7
  <2> QED
    BY <1>1, <1>2, <2>1
<1> HIDE DEF x
<1>9. /\ (p \div (N * N * N)) % N = N - 1
      /\ x < n2 => /\ (p \div (N * N)) % N = N - 2
                   /\ (p \div N) % N \in 0 .. N - 1 /\ p % N \in 0 .. N - 1
                   /\ ((p \div N) % N) * N + (p % N) = x
      /\ ~ x < n2 => (p \div (N * N)) % N = N - 1
  <2>1. /\ N \in Nat /\ N >= 2 /\ x \in Nat /\ p \in Nat /\ x < 2 * (N * N)
        /\ p = (N - 1) * (N * N * N) + (N - 2) * (N * N) + x
    BY <1>0, <1>1, <1>7 DEF f, n2
  <2>2. /\ (p \div (N * N * N)) % N = N - 1
        /\ x < N * N => /\ (p \div (N * N)) % N = N - 2
                        /\ (p \div N) % N \in 0 .. N - 1 /\ p % N \in 0 .. N - 1
                        /\ ((p \div N) % N) * N + (p % N) = x
        /\ ~ x < N * N => (p \div (N * N)) % N = N - 1
    BY <2>1, Indices, ZenonT(150)
  <2> QED
    BY <2>2 DEF n2
<1>10. (p \div N) % N \in 0 .. N - 1 /\ p % N \in 0 .. N - 1
  <2>1. p \div N \in Nat
    BY <1>0, <1>1
  <2> QED
    BY <1>0, <1>1, <2>1
<1>11. N - 1 \in 0 .. N - 1 /\ N - 2 \in 0 .. N - 1 /\ N - 1 # N - 2
  BY <1>0
<1>12. Index(v) \in Walk!VAddr
  BY <1>3, <1>9, <1>10, <1>11 DEF Walk!VAddr, Walk!Idx
<1>13. /\ Index(v).pml4 = (p \div (N * N * N)) % N /\ Index(v).pdp = (p \div (N * N)) % N
       /\ Index(v).pd = (p \div N) % N /\ Index(v).pt = p % N
  BY <1>3
<1> QED
  BY <1>7, <1>8, <1>9, <1>11, <1>12, <1>13 DEF Walk!Top, Walk!Pdp, ps

\* The kernel that was loaded with success and mapped last is what the
\* processor finds at the addresses it was linked at, byte for byte, as far as
\* one page directory reaches, and behind that nothing; and so it stays while
\* others are loaded, or fail to load, and while tables are built for them
\* (loadElf.c:67-104, mapAdress.c:17-60).
THEOREM KernelIsVisible == Spec => []KernelVisible
<1>1. SharedInv => KernelVisible
  <2> SUFFICES ASSUME SharedInv, shows # 0, ElfP!AllHarmless,
                      ElfP!Complete(history[shows].file)
               PROVE  Visible(history[shows])
    BY SameWords DEF KernelVisible, ElfP!AllHarmless
  <2> DEFINE c == history[shows]
  <2>1. /\ ElfP!TypeOK /\ ElfP!LoadedImagesIntact /\ BaseInv /\ ShowsInv
        /\ shows \in ElfP!Succeeded /\ shows \in DOMAIN history
    BY DEF SharedInv, ElfP!KernelInv, ElfP!ImageInv, ElfP!TypeInv, ShowsInv, ElfP!Succeeded
  <2>2. ElfP!Harmless(c.file) /\ ElfP!Sound(c.file.phdrs)
    BY <2>1 DEF ElfP!AllHarmless, BaseInv
  <2>3. c.file \in Files /\ c.base \in ElfP!Addr /\ c.file.phdrs \in Seq(ElfP!Phdr)
    <3>1. c \in [file : Files, base : ElfP!Addr, ok : BOOLEAN]
      <4> DEFINE Calls == [file : Files, base : ElfP!Addr, ok : BOOLEAN]
      <4>1. history \in Seq(Calls) /\ shows \in DOMAIN history
        BY <2>1 DEF ElfP!TypeOK
      <4> HIDE DEF Calls
      <4>2. history[shows] \in Calls
        BY <4>1
      <4> QED
        BY <4>2 DEF Calls
    <3>2. c.file \in Files /\ c.base \in ElfP!Addr
      BY <3>1
    <3>3. Files \subseteq ElfP!File
      BY ElfAssumed DEF ElfP!FilesAssumption
    <3> HIDE DEF c
    <3> QED
      BY <3>2, <3>3 DEF ElfP!File
  <2>4. PICK b \in Nat : c.base = b * PageSize
    BY <2>1 DEF BaseInv
  <2>5. PageOf(c.base) = b /\ b * PageSize \in Nat
    <3>1. b * PageSize \in Nat /\ b * PageSize <= b * PageSize /\ b * PageSize < b * PageSize + PageSize
      BY Sizes
    <3> QED
      BY <2>4, <3>1, OnePage, Sizes DEF PageOf
  <2>6. ASSUME NEW k \in ElfP!Loads(c.file.phdrs),
               NEW o \in 0 .. c.file.phdrs[k].memsz - 1
        PROVE  LET s == c.file.phdrs[k]
                   e == Translation(s.va + o)
               IN  IF s.va + o < VirtAddr + Window
                   THEN /\ e # Absent
                        /\ mem[e.page * PageSize + ((s.va + o) % PageSize)] =
                             IF o < s.filesz THEN ElfP!FileByte(c.file, s.off + o) ELSE Zero
                   ELSE e = Absent
    <3> DEFINE s == c.file.phdrs[k]
               v == s.va + o
    <3>1. s \in ElfP!Phdr
      BY <2>3 DEF ElfP!Loads
    <3>2. s.va \in Nat /\ s.memsz \in Nat /\ o \in Nat /\ o < s.memsz
      <4>1. s.va \in Nat /\ s.memsz \in Nat
        BY <3>1, ElfAssumed, ElfP!PhdrFields
      <4> QED
        BY <4>1
    <3>3. VirtAddr <= s.va /\ s.va + s.memsz <= Word
      BY <2>2 DEF ElfP!Sound
    <3>4. v \in Nat /\ VirtAddr <= v /\ v < Word
      BY <3>2, <3>3, Sizes
    <3>5. PICK x \in Nat :
            /\ v = VirtAddr + x * PageSize + (v % PageSize)
            /\ Index(v) \in Walk!VAddr /\ Index(v).pml4 = Walk!Top
            /\ v < VirtAddr + Window =>
                 Index(v).pdp = Walk!Pdp /\ Index(v).pd * N + Index(v).pt = x
            /\ ~ v < VirtAddr + Window => Index(v).pdp # Walk!Pdp
      <4> HIDE DEF v
      <4> QED
        BY <3>4, KernelAddress
    <3>6. Translation(v) = Walk!View(tables, cr3)[Index(v)]
      <4>1. Translation(v) = Walk!Level1(tables, cr3, Index(v))
        BY SameWords DEF Translation, Index
      <4> HIDE DEF v
      <4> QED
        BY <3>5, <4>1 DEF Walk!View
    <3>7. Translation(v) = IF Index(v).pdp = Walk!Pdp
                           THEN Walk!Mapped(b + Index(v).pd * N + Index(v).pt) ELSE Absent
      <4> HIDE DEF v
      <4> QED
        BY <2>1, <2>5, <3>5, <3>6 DEF ShowsInv
    <3>8. CASE v < VirtAddr + Window
      <4>1. b + Index(v).pd * N + Index(v).pt = b + x
        <5> DEFINE u == Index(v)
        <5>1. \A a \in Walk!VAddr : a.pd * N \in Int /\ a.pt \in Int
          BY Space DEF Walk!VAddr, Walk!Idx
        <5>2. u \in Walk!VAddr /\ u.pd * N + u.pt = x
          BY <3>5, <3>8
        <5> HIDE DEF u
        <5>3. u.pd * N \in Int /\ u.pt \in Int /\ b \in Nat
          BY <2>1, <5>1, <5>2
        <5>4. b + u.pd * N + u.pt = b + x
          BY <5>2, <5>3
        <5> QED
          BY <5>4 DEF u
      <4>2. Translation(v) = Walk!Mapped(b + x) /\ b + x \in Nat
        <5>1. Index(v).pdp = Walk!Pdp /\ x \in Nat /\ b \in Nat
          BY <2>1, <3>5, <3>8
        <5>2. Translation(v) = Walk!Mapped(b + Index(v).pd * N + Index(v).pt)
          BY <3>7, <5>1
        <5> HIDE DEF v
        <5> QED
          BY <4>1, <5>1, <5>2
      <4>3. Translation(v) # Absent /\ Translation(v).page = b + x
        <5>1. \A q \in Nat : Walk!Mapped(q) # Absent /\ Walk!Mapped(q).page = q
          BY WalkAssumed, Walk!MadeEntries
        <5> HIDE DEF v
        <5> QED
          BY <4>2, <5>1
      <4>4. (b + x) * PageSize + (v % PageSize) = c.base + (s.va - VirtAddr) + o
        <5>1. (b + x) * PageSize = b * PageSize + x * PageSize /\ x * PageSize \in Nat
          BY Sizes
        <5>2. v % PageSize \in Nat
          BY <3>4, Sizes
        <5>3. /\ c.base = b * PageSize /\ b * PageSize \in Nat /\ s.va \in Nat /\ o \in Nat
              /\ s.va + o = VirtAddr + x * PageSize + (v % PageSize) /\ VirtAddr \in Nat
          BY <2>4, <2>5, <3>2, <3>5, Sizes
        <5> DEFINE l == v % PageSize
                   y == x * PageSize
                   z == b * PageSize
                   w == s.va
        <5>4. /\ c.base = z /\ z \in Nat /\ w \in Nat /\ o \in Nat /\ l \in Nat /\ y \in Nat
              /\ w + o = VirtAddr + y + l /\ (b + x) * PageSize = z + y /\ VirtAddr \in Nat
          BY <5>1, <5>2, <5>3
        <5> HIDE DEF l, y, z, w, c
        <5>5. (b + x) * PageSize + l = c.base + (w - VirtAddr) + o
          BY <5>4
        <5> QED
          BY <5>5 DEF l, w
      <4>5. mem[c.base + (s.va - VirtAddr) + o] =
              IF o < s.filesz THEN ElfP!FileByte(c.file, s.off + o) ELSE Zero
        BY <2>1 DEF ElfP!LoadedImagesIntact, ElfP!AllHarmless, ElfP!SegmentAt
      <4> QED
        BY <3>8, <4>3, <4>4, <4>5
    <3>9. CASE ~ v < VirtAddr + Window
      BY <3>5, <3>7, <3>9
    <3> QED
      BY <3>8, <3>9
  <2> QED
    BY <2>6, SameWords DEF Visible
<1> QED
  BY <1>1, InitHolds, SharedStep, PTL DEF Spec
=============================================================================
