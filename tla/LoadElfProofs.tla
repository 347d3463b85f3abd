--------------------------- MODULE LoadElfProofs ---------------------------
(* Proofs about LoadElf, for every machine and every set of files.         *)
EXTENDS LoadElf, FiniteSetTheorems, TLAPS

-----------------------------------------------------------------------------
(* Arithmetic modulo Word, and the size of an allocation.                  *)

\* A value in range is its own residue.
LEMMA ModSmall ==
  ASSUME NEW w \in Nat \ {0}, NEW x \in 0 .. w - 1
  PROVE  x % w = x
OBVIOUS

\* A negative value wraps around once.
LEMMA ModNegative ==
  ASSUME NEW w \in Nat \ {0}, NEW x \in Int, -w <= x, x < 0
  PROVE  x % w = x + w
OBVIOUS

\* A residue is an address.
LEMMA ModInAddr ==
  ASSUME NEW x \in Int
  PROVE  x % Word \in Addr
BY SizeAssumption DEF Addr

\* The pages allocated for an image of some size hold that many bytes.
LEMMA PagesForCovers ==
  ASSUME NEW size \in Nat
  PROVE  /\ PagesFor(size) \in Nat /\ PagesFor(size) >= 2
         /\ PagesFor(size) * PageSize \in Nat
         /\ size <= PagesFor(size) * PageSize
BY SizeAssumption DEF PagesFor

\* A run of pages that exists lies within the addresses.
LEMMA RunInMemory ==
  ASSUME NEW b \in Page, NEW n \in Nat, n >= 1, b + n <= NPages
  PROVE  /\ b .. b + n - 1 \subseteq Page
         /\ b * PageSize \in Addr
         /\ b * PageSize + n * PageSize <= Word
<1>1. (b + n) * PageSize <= NPages * PageSize
  BY SizeAssumption DEF Page
<1>2. (b + n) * PageSize = b * PageSize + n * PageSize /\ n * PageSize >= 1 /\ b * PageSize >= 0
  BY SizeAssumption DEF Page
<1>3. b * PageSize \in Int /\ n * PageSize \in Int
  BY SizeAssumption DEF Page
<1>4. b .. b + n - 1 \subseteq Page
  BY SizeAssumption DEF Page
<1> QED
  BY <1>1, <1>2, <1>3, <1>4, SizeAssumption DEF Addr

-----------------------------------------------------------------------------
(* Type correctness.  A call that has opened its file holds a handle, which *)
(* is what keeps `handles` a natural number when it is closed.              *)

HandleHeld == pc \in {"info", "header", "table", "scan", "load"} => handles >= 1

TypeInv == TypeOK /\ HandleHeld

\* The fields of a program header, and of the current one.
LEMMA PhdrFields ==
  ASSUME NEW s \in Phdr
  PROVE  /\ s.load \in BOOLEAN /\ s.off \in Nat
         /\ s.va \in Nat /\ s.filesz \in Nat /\ s.memsz \in Nat
         /\ s.va \in Addr /\ s.filesz \in Addr /\ s.memsz \in Addr
BY SizeAssumption DEF Phdr, Addr

LEMMA CurrentPhdr ==
  ASSUME TypeOK, i <= Len(programHeaders)
  PROVE  programHeaders[i] \in Phdr
BY DEF TypeOK

\* Memory after a segment was stored is still a function to bytes.
LEMMA StoreType ==
  ASSUME TypeOK, file \in Files, NEW s \in Phdr, NEW ptr \in Addr, NEW got \in Int
  PROVE  Store(s, ptr, got) \in [Addr -> Byte]
<1> SUFFICES ASSUME NEW a \in Addr
             PROVE  Store(s, ptr, got)[a] \in Byte
  BY DEF Store
<1>1. (a - ptr) % Word \in Nat
  BY ModInAddr, SizeAssumption DEF Addr
<1>2. FileByte(file, s.off + ((a - ptr) % Word)) \in Byte
  BY <1>1, FilesAssumption DEF FileByte, File, Phdr, Byte
<1>3. Zero \in Byte
  BY DEF Byte
<1>4. mem[a] \in Byte
  BY DEF TypeOK
<1> QED
  BY <1>2, <1>3, <1>4 DEF Store

\* A function on 1 .. n is a sequence of length n.
LEMMA FunctionIsSeq ==
  ASSUME NEW S, NEW n \in Nat, NEW f \in [1 .. n -> S]
  PROVE  f \in Seq(S) /\ Len(f) = n
OBVIOUS

\* The table read is a sequence of as many program headers as the header says.
LEMMA TableReadType ==
  ASSUME TypeOK, file \in Files, NEW g \in Phdr
  PROVE  TableRead(g) \in Seq(Phdr) /\ Len(TableRead(g)) = header.phnum
<1> DEFINE n == header.phnum
<1>1. n \in Nat /\ file.phdrs \in Seq(Phdr)
  BY FilesAssumption DEF TypeOK, Header, File
<1>2. \A k \in 1 .. n : TableRead(g)[k] \in Phdr
  BY <1>1 DEF TableRead
<1>3. TableRead(g) \in [1 .. n -> Phdr]
  BY <1>1, <1>2 DEF TableRead
<1> QED
  BY <1>1, <1>3, FunctionIsSeq

\* A record appended to the history by Return.
LEMMA ReturnType ==
  ASSUME TypeOK, file \in Files, NEW ok \in BOOLEAN, Return(ok)
  PROVE  /\ pc' = "idle"
         /\ history' \in Seq([file : Files, base : Addr, ok : BOOLEAN])
BY DEF Return, TypeOK

LEMMA TypeInit == Init => TypeInv
BY SizeAssumption, FirmwareAssumption, FilesAssumption DEF Init, TypeInv, TypeOK, HandleHeld, Addr, Page, Byte

\* One step per action; the types that need an argument are those of the
\* header and table read, of the allocated address and of the stored bytes.
LEMMA TypeStep == TypeInv /\ [Next]_vars => TypeInv'
<1> SUFFICES ASSUME TypeInv, [Next]_vars PROVE TypeInv'
  OBVIOUS
<1> USE DEF TypeInv, HandleHeld
<1>0. TypeOK
  OBVIOUS
<1>1. ASSUME NEW f \in Files, Call(f) PROVE TypeInv'
  BY <1>1 DEF TypeOK, Call, Goto, globals, machine, held
<1>2. CASE Open
  <2>1. file \in Files
    BY <1>2 DEF TypeOK, Open
  <2>2. CASE Return(FALSE) /\ UNCHANGED handles
    BY <1>2, <2>1, <2>2, ReturnType DEF TypeOK, Open, locals, globals, machine
  <2>3. CASE Goto("info") /\ handles' = handles + 1
    BY <1>2, <2>1, <2>3 DEF TypeOK, Open, Goto, locals, globals, machine
  <2> QED
    BY <1>2, <2>2, <2>3 DEF Open
<1>3. CASE GetInfo
  <2>1. file \in Files /\ UNCHANGED <<locals, globals, machine, handles>>
    BY <1>3 DEF TypeOK, GetInfo
  <2>2. CASE Return(FALSE) /\ pool' = pool + 1
    <3>1. pc' = "idle" /\ history' \in Seq([file : Files, base : Addr, ok : BOOLEAN])
      BY <1>0, <2>1, <2>2, ReturnType
    <3> QED
      BY <2>1, <2>2, <3>1 DEF TypeOK, locals, globals, machine
  <2>3. CASE Halt /\ UNCHANGED pool
    BY <2>1, <2>3 DEF TypeOK, Halt, locals, globals, machine
  <2>4. CASE Goto("header") /\ UNCHANGED pool
    <3>1. handles >= 1
      BY <1>3 DEF GetInfo
    <3> QED
      BY <2>1, <2>4, <3>1 DEF TypeOK, Goto, locals, globals, machine
  <2> QED
    BY <1>3, <2>2, <2>3, <2>4 DEF GetInfo
<1>4. CASE ReadHeader
  <2>1. file \in Files /\ file.header \in Header /\ file.header.magic \in BOOLEAN
    BY <1>4, FilesAssumption DEF TypeOK, ReadHeader, File, Header
  <2>2. ASSUME NEW h \in StackHeaders \union {header}, NEW b \in BOOLEAN
        PROVE  [h EXCEPT !.magic = b] \in Header /\ h.magic \in BOOLEAN
    <3>1. h \in Header
      BY FilesAssumption DEF TypeOK
    <3> QED
      BY <3>1 DEF Header
  <2>3. HeadersRead \subseteq Header
    BY <2>1, <2>2 DEF HeadersRead
  <2>4. header' \in Header
    BY <1>4, <2>3 DEF TypeOK, ReadHeader
  <2> QED
    BY <1>4, <2>1, <2>4, ReturnType DEF TypeOK, ReadHeader, Goto, globals, machine, held
<1>5. CASE ReadTable
  <2>1. file \in Files
    BY <1>5 DEF TypeOK, ReadTable
  <2>2. ASSUME NEW f \in Files, NEW k \in DOMAIN f.phdrs PROVE f.phdrs[k] \in Phdr
    BY <2>2, FilesAssumption DEF File
  <2>3. UNCHANGED <<file, header, globals, machine, handles>>
    BY <1>5 DEF ReadTable
  <2>4. CASE Halt /\ UNCHANGED <<pool, programHeaders, i, largestMemAdd, largestMemSize>>
    BY <2>1, <2>3, <2>4 DEF TypeOK, Halt, globals, machine
  <2>5. CASE /\ Return(FALSE)
             /\ pool' = pool + 1
             /\ UNCHANGED <<programHeaders, i, largestMemAdd, largestMemSize>>
    <3>1. pc' = "idle" /\ history' \in Seq([file : Files, base : Addr, ok : BOOLEAN])
      BY <1>0, <2>1, <2>5, ReturnType
    <3> QED
      BY <2>1, <2>3, <2>5, <3>1 DEF TypeOK, globals, machine
  <2>6. CASE /\ Goto("scan")
             /\ pool' = pool + 1
             /\ \E f \in Files : \E k \in DOMAIN f.phdrs :
                  programHeaders' = TableRead(f.phdrs[k])
             /\ i' = 1 /\ largestMemAdd' = 0 /\ largestMemSize' = 0
    <3>1. programHeaders' \in Seq(Phdr)
      BY <1>0, <2>1, <2>2, <2>6, TableReadType
    <3>2. 0 \in Addr
      BY SizeAssumption DEF Addr
    <3>3. handles >= 1
      BY <1>5 DEF ReadTable
    <3> QED
      BY <2>1, <2>3, <2>6, <3>1, <3>2, <3>3 DEF TypeOK, Goto, globals, machine
  <2> QED
    BY <1>5, <2>4, <2>5, <2>6 DEF ReadTable
<1>6. CASE Scan
  <2> DEFINE s == programHeaders[i]
  <2>1. s \in Phdr
    BY <1>0, <1>6, CurrentPhdr DEF Scan
  <2>2. s.va \in Addr /\ s.va + s.memsz - VirtAddr \in Int
    BY <2>1, PhdrFields, SizeAssumption
  <2>3. EndOffset(s) \in Addr
    BY <2>2, ModInAddr DEF EndOffset
  <2>4. /\ largestMemAdd' \in {largestMemAdd, s.va}
        /\ largestMemSize' \in {largestMemSize, EndOffset(s)}
    BY <1>6 DEF Scan
  <2> HIDE DEF s
  <2>5. largestMemAdd' \in Addr /\ largestMemSize' \in Addr
    <3>1. largestMemAdd \in Addr /\ largestMemSize \in Addr
      BY DEF TypeOK
    <3> QED
      BY <2>2, <2>3, <2>4, <3>1
  <2>6. /\ i' = i + 1
        /\ UNCHANGED <<pc, history, file, header, programHeaders, globals, machine, held>>
    BY <1>6 DEF Scan
  <2> QED
    BY <2>5, <2>6 DEF TypeOK, globals, machine, held
<1>7. CASE AllocPages
  <2>1. kernelPages' \in Nat /\ kernelPages' >= 2
    BY <1>7, PagesForCovers DEF TypeOK, AllocPages, Addr
  <2>2. ASSUME NEW b \in Page, FreeRun(b, kernelPages')
        PROVE  b * PageSize \in Addr /\ b .. b + kernelPages' - 1 \subseteq Page
    <3>1. b + kernelPages' <= NPages
      BY <2>2 DEF FreeRun
    <3> QED
      BY <2>1, <3>1, RunInMemory
  <2>3. loadedBin' \in Addr /\ pages' \subseteq Page /\ i' \in Nat \ {0}
    BY <1>7, <2>2 DEF TypeOK, AllocPages
  <2> QED
    BY <1>7, <2>1, <2>3 DEF TypeOK, AllocPages, Halt, Goto, held
<1>8. CASE LoadSegment
  <2> DEFINE s == programHeaders[i]
  <2>1. file \in Files /\ s \in Phdr
    BY <1>0, <1>8, CurrentPhdr DEF TypeOK, LoadSegment
  <2>2. loadedBin + s.va - VirtAddr \in Int
    <3>1. loadedBin \in Int
      BY <1>0, SizeAssumption DEF TypeOK, Addr
    <3> QED
      BY <2>1, <3>1, PhdrFields, SizeAssumption
  <2>3. CurPtr(s) \in Addr
    BY <2>2, ModInAddr DEF CurPtr
  <2>4. Got(s.off, s.filesz) \in Int
    <3>1. file.len \in Nat
      BY <2>1, FilesAssumption DEF File
    <3> QED
      BY <2>1, <3>1, PhdrFields DEF Got
  <2>5. Store(s, CurPtr(s), Got(s.off, s.filesz)) \in [Addr -> Byte]
    BY <1>0, <2>1, <2>3, <2>4, StoreType
  <2>6. mem' \in [Addr -> Byte]
    BY <1>8, <2>5 DEF TypeOK, LoadSegment
  <2>7. UNCHANGED <<file, header, programHeaders, largestMemAdd, largestMemSize>>
        /\ UNCHANGED <<globals, pages, held>>
    BY <1>8 DEF LoadSegment
  <2>8. CASE Return(FALSE) /\ UNCHANGED i
    BY <2>1, <2>6, <2>7, <2>8, ReturnType DEF TypeOK, globals, held
  <2>9. CASE i' = i + 1 /\ UNCHANGED <<pc, history>>
    BY <2>1, <2>6, <2>7, <2>9 DEF TypeOK, globals, held
  <2> QED
    BY <1>8, <2>8, <2>9 DEF LoadSegment
<1>9. CASE Finish
  <2>1. file \in Files /\ Return(TRUE) /\ header.entry \in Addr
    BY <1>9 DEF TypeOK, Finish, Header
  <2>2. pc' = "idle" /\ history' \in Seq([file : Files, base : Addr, ok : BOOLEAN])
    BY <1>0, <2>1, ReturnType
  <2>3. handles' \in Nat /\ elfEntry' \in Addr
    BY <1>9, <2>1 DEF TypeOK, Finish
  <2> QED
    BY <1>9, <2>2, <2>3 DEF TypeOK, Finish, locals, machine
<1>10. CASE UNCHANGED vars
  BY <1>10 DEF TypeOK, vars, locals, globals, machine, held
<1> QED
  BY <1>1, <1>2, <1>3, <1>4, <1>5, <1>6, <1>7, <1>8, <1>9, <1>10 DEF Next, Step

\* The loader is type-correct, whatever files it is given.
THEOREM TypeCorrect == Spec => []TypeOK
<1>1. TypeInv => TypeOK
  BY DEF TypeInv
<1> QED
  BY <1>1, TypeInit, TypeStep, PTL DEF Spec

-----------------------------------------------------------------------------
(* A sound kernel is written inside its own pages.                         *)

\* Where segment s ends in the image, when nothing wraps around.
End(s) == s.va + s.memsz - VirtAddr

\* The scan has found the largest virtual address among the headers it has
\* passed, and the end of the segment that has it.
ScanInv ==
  pc = "scan" /\ Sound(programHeaders) =>
    \/ /\ \A k \in Loads(programHeaders) : ~ k < i
       /\ largestMemAdd = 0 /\ largestMemSize = 0
    \/ /\ \E k \in Loads(programHeaders) :
            k < i /\ largestMemAdd = programHeaders[k].va /\ largestMemSize = End(programHeaders[k])
       /\ \A k \in Loads(programHeaders) : k < i => programHeaders[k].va <= largestMemAdd

\* The pages allocated for a sound kernel hold every segment of it.
AllocInv ==
  pc = "load" =>
    /\ loadedBin + kernelPages * PageSize <= Word
    /\ Sound(programHeaders) =>
         \A k \in Loads(programHeaders) : End(programHeaders[k]) <= kernelPages * PageSize

ImageInv == TypeInv /\ ScanInv /\ AllocInv

\* The addresses that lie less than n beyond p, modulo w, when that range does
\* not wrap around.
LEMMA InWindow ==
  ASSUME NEW w \in Nat \ {0}, NEW p \in Nat, NEW n \in Nat, p + n <= w,
         NEW a \in 0 .. w - 1, (a - p) % w < n
  PROVE  p <= a /\ a < p + n
<1>1. CASE a >= p
  <2>1. (a - p) % w = a - p
    BY <1>1, ModSmall
  <2> QED
    BY <1>1, <2>1
<1>2. CASE a < p
  <2>1. (a - p) % w = a - p + w
    BY <1>2, ModNegative
  <2> QED
    BY <1>2, <2>1
<1> QED
  BY <1>1, <1>2

\* The end of a segment above virtAddr does not wrap around.
LEMMA SegmentEnd ==
  ASSUME NEW s \in Phdr, VirtAddr <= s.va, s.va + s.memsz <= Word, 0 < s.memsz
  PROVE  /\ End(s) = EndOffset(s)
         /\ End(s) \in Nat
         /\ s.va > 0
<1>1. s.va \in Nat /\ s.memsz \in Nat
  BY PhdrFields
<1>2. Word \in Nat \ {0} /\ VirtAddr \in Nat /\ VirtAddr >= 1
  BY SizeAssumption
<1>3. End(s) \in 0 .. Word - 1
  BY <1>1, <1>2 DEF End
<1>4. EndOffset(s) = End(s) % Word
  BY DEF End, EndOffset
<1> QED
  BY <1>1, <1>2, <1>3, <1>4, ModSmall

\* The end of a segment of a sound table does not wrap around.
LEMMA EndInAddr ==
  ASSUME NEW t \in Seq(Phdr), Sound(t), NEW k \in Loads(t)
  PROVE  /\ t[k] \in Phdr
         /\ End(t[k]) = EndOffset(t[k])
         /\ End(t[k]) \in Nat
         /\ t[k].va > 0
<1>1. t[k] \in Phdr
  BY DEF Loads
<1>2. VirtAddr <= t[k].va /\ t[k].va + t[k].memsz <= Word /\ 0 < t[k].memsz
  BY DEF Sound
<1> QED
  BY <1>1, <1>2, SegmentEnd

\* Of two segments that do not overlap, the higher one ends last.
LEMMA ApartEnds ==
  ASSUME NEW s \in Phdr, NEW r \in Phdr, 0 < r.memsz, s.va <= r.va,
         s.va + s.memsz <= r.va \/ r.va + r.memsz <= s.va
  PROVE  End(s) <= End(r)
<1>1. s.va \in Nat /\ s.memsz \in Nat /\ r.va \in Nat /\ r.memsz \in Nat /\ VirtAddr \in Nat
  BY PhdrFields, SizeAssumption
<1> QED
  BY <1>1 DEF End

\* Of two segments of a sound table, the one with the larger virtual address
\* ends last.
LEMMA LargestEndsLast ==
  ASSUME NEW t \in Seq(Phdr), Sound(t), NEW m \in Loads(t), NEW k \in Loads(t),
         t[k].va <= t[m].va
  PROVE  End(t[k]) <= End(t[m])
<1>1. t[k] \in Phdr /\ t[m] \in Phdr
  BY DEF Loads
<1>2. 0 < t[m].memsz /\ 0 < t[k].memsz
  BY DEF Sound
<1>3. CASE k = m
  BY <1>1, <1>3, PhdrFields, SizeAssumption DEF End
<1>4. CASE k # m
  <2>1. \/ t[k].va + t[k].memsz <= t[m].va
        \/ t[m].va + t[m].memsz <= t[k].va
    BY <1>4 DEF Sound
  <2> QED
    BY <1>1, <1>2, <2>1, ApartEnds
<1> QED
  BY <1>3, <1>4

LEMMA ImageInit == Init => ImageInv
BY TypeInit DEF Init, ImageInv, ScanInv, AllocInv

\* One iteration of the scan keeps the largest address so far.
LEMMA ScanKeepsLargest ==
  ASSUME TypeOK, ScanInv, Scan, Sound(programHeaders)
  PROVE  ScanInv'
<1> DEFINE t == programHeaders
           s == t[i]
<1>1. t \in Seq(Phdr) /\ i \in DOMAIN t /\ t' = t /\ i' = i + 1 /\ i \in Nat
  BY DEF TypeOK, Scan
<1>2. \A k \in Loads(t) : t[k].va \in Nat /\ t[k].va > 0 /\ End(t[k]) = EndOffset(t[k])
  BY <1>1, EndInAddr, PhdrFields
<1>3. \A k \in Loads(t) : k \in Nat /\ (k < i + 1 <=> k < i \/ k = i)
  BY <1>1 DEF Loads
<1>4. largestMemAdd \in Nat
  BY SizeAssumption DEF TypeOK, Addr
<1>5. \/ /\ \A k \in Loads(t) : ~ k < i
         /\ largestMemAdd = 0 /\ largestMemSize = 0
      \/ /\ \E k \in Loads(t) :
              k < i /\ largestMemAdd = t[k].va /\ largestMemSize = End(t[k])
         /\ \A k \in Loads(t) : k < i => t[k].va <= largestMemAdd
  BY DEF ScanInv, Scan
<1>6. CASE s.load /\ s.va > largestMemAdd
  <2>1. i \in Loads(t)
    BY <1>1, <1>6 DEF Loads
  <2>2. largestMemAdd' = s.va /\ largestMemSize' = End(s)
    BY <1>2, <1>6, <2>1 DEF Scan
  <2>3. \A k \in Loads(t) : k < i + 1 => t[k].va <= s.va
    BY <1>2, <1>3, <1>4, <1>5, <1>6, <2>1
  <2> HIDE DEF t
  <2> QED
    BY <1>1, <1>3, <2>1, <2>2, <2>3 DEF ScanInv, t
<1>7. CASE ~ (s.load /\ s.va > largestMemAdd)
  <2>1. largestMemAdd' = largestMemAdd /\ largestMemSize' = largestMemSize
    BY <1>7 DEF Scan
  <2>2. i \in Loads(t) => t[i].va <= largestMemAdd
    BY <1>2, <1>4, <1>7 DEF Loads
  <2>3. CASE \A k \in Loads(t) : ~ k < i
    <3>1. largestMemAdd = 0 /\ largestMemSize = 0
      BY <1>5, <2>3
    <3>2. i \notin Loads(t)
      BY <1>2, <2>2, <3>1
    <3> QED
      BY <1>1, <1>3, <2>1, <2>3, <3>1, <3>2 DEF ScanInv
  <2>4. CASE \E k \in Loads(t) : k < i
    <3>1. PICK k \in Loads(t) : k < i /\ largestMemAdd = t[k].va /\ largestMemSize = End(t[k])
      BY <1>5, <2>4
    <3>2. \A j \in Loads(t) : j < i + 1 => t[j].va <= largestMemAdd
      BY <1>3, <1>5, <2>2, <2>4
    <3>3. k < i + 1
      BY <1>3, <3>1
    <3> QED
      BY <1>1, <2>1, <3>1, <3>2, <3>3 DEF ScanInv
  <2> QED
    BY <2>3, <2>4
<1> QED
  BY <1>6, <1>7

\* What the scan found is enough for every segment.
LEMMA AllocationCovers ==
  ASSUME TypeOK, ScanInv, AllocPages, pc' = "load"
  PROVE  AllocInv'
<1> DEFINE t == programHeaders
<1>1. t \in Seq(Phdr) /\ t' = t /\ i > Len(t) /\ i \in Nat /\ largestMemSize \in Nat
  BY SizeAssumption DEF TypeOK, AllocPages, Addr
<1>2. /\ kernelPages' \in Nat /\ kernelPages' >= 2
      /\ largestMemSize <= kernelPages' * PageSize
      /\ kernelPages' * PageSize \in Nat
  <2>1. kernelPages' = PagesFor(largestMemSize)
    BY DEF AllocPages
  <2> QED
    BY <1>1, <2>1, PagesForCovers
<1>3. PICK b \in Page : FreeRun(b, kernelPages') /\ loadedBin' = b * PageSize
  BY DEF AllocPages, Halt
<1>4. loadedBin' + kernelPages' * PageSize <= Word
  <2>1. b + kernelPages' <= NPages
    BY <1>3 DEF FreeRun
  <2>2. kernelPages' >= 1
    BY <1>2
  <2> QED
    BY <1>2, <1>3, <2>1, <2>2, RunInMemory
<1>5. ASSUME Sound(t), NEW k \in Loads(t) PROVE End(t[k]) <= kernelPages' * PageSize
  <2>1. End(t[k]) \in Nat
    BY <1>1, <1>5, EndInAddr
  <2>2. k < i
    BY <1>1 DEF Loads
  <2>3. PICK m \in Loads(t) : /\ largestMemAdd = t[m].va /\ largestMemSize = End(t[m])
                              /\ t[k].va <= t[m].va
    BY <1>5, <2>2 DEF ScanInv, AllocPages
  <2>4. End(t[k]) <= End(t[m])
    BY <1>1, <1>5, <2>3, LargestEndsLast
  <2> QED
    BY <1>1, <1>2, <2>1, <2>3, <2>4
<1> QED
  BY <1>1, <1>4, <1>5 DEF AllocInv, Sound, Loads, End

\* A step changes what ScanInv and AllocInv speak of only while it scans or
\* allocates; a new table starts the scan at the first header.
LEMMA ImageStep == ImageInv /\ [Next]_vars => ImageInv'
<1> SUFFICES ASSUME ImageInv, [Next]_vars PROVE ImageInv'
  OBVIOUS
<1>0. TypeInv /\ TypeOK /\ ScanInv /\ AllocInv
  BY DEF ImageInv, TypeInv
<1>1. TypeInv'
  BY <1>0, TypeStep
<1>2. ScanInv' /\ AllocInv'
  <2>1. ASSUME NEW f \in Files, Call(f) PROVE ScanInv' /\ AllocInv'
    BY <2>1 DEF Call, Goto, ScanInv, AllocInv
  <2>2. CASE Open \/ GetInfo \/ ReadHeader \/ Finish
    <3>1. pc' \notin {"scan", "load"}
      BY <2>2 DEF Open, GetInfo, ReadHeader, Finish, Goto, Return, Halt
    <3> QED
      BY <3>1 DEF ScanInv, AllocInv
  <2>3. CASE ReadTable
    <3>1. pc' # "load"
      BY <2>3 DEF ReadTable, Goto, Return, Halt
    <3>2. CASE pc' = "scan"
      <4>1. i' = 1 /\ largestMemAdd' = 0 /\ largestMemSize' = 0
        BY <2>3, <3>2 DEF ReadTable, Return, Halt
      <4>2. programHeaders' \in Seq(Phdr)
        BY <1>1 DEF TypeInv, TypeOK
      <4>3. \A k \in Loads(programHeaders') : ~ k < 1
        BY <4>2 DEF Loads
      <4> QED
        BY <3>1, <4>1, <4>3 DEF ScanInv, AllocInv, Loads
    <3> QED
      BY <3>1, <3>2 DEF ScanInv, AllocInv
  <2>4. CASE Scan
    <3>1. pc' = "scan" /\ programHeaders' = programHeaders
      BY <2>4 DEF Scan
    <3>2. CASE Sound(programHeaders)
      BY <1>0, <2>4, <3>1, <3>2, ScanKeepsLargest DEF AllocInv
    <3>3. CASE ~ Sound(programHeaders)
      BY <3>1, <3>3 DEF ScanInv, AllocInv, Sound, Loads
    <3> QED
      BY <3>2, <3>3
  <2>5. CASE AllocPages
    <3>1. pc' \in {"halt", "load"}
      BY <2>5 DEF AllocPages, Halt, Goto
    <3>2. CASE pc' = "halt"
      BY <3>2 DEF ScanInv, AllocInv
    <3>3. CASE pc' = "load"
      BY <1>0, <2>5, <3>3, AllocationCovers DEF ScanInv
    <3> QED
      BY <3>1, <3>2, <3>3
  <2>6. CASE LoadSegment
    <3>1. /\ pc = "load" /\ pc' \in {"load", "idle"}
          /\ UNCHANGED <<programHeaders, loadedBin, kernelPages>>
      BY <2>6 DEF LoadSegment, Return, globals
    <3> QED
      BY <1>0, <3>1 DEF ScanInv, AllocInv, Sound, Loads, End
  <2>7. CASE UNCHANGED vars
    BY <1>0, <2>7 DEF ScanInv, AllocInv, Sound, Loads, End, vars, locals, globals
  <2> QED
    BY <2>1, <2>2, <2>3, <2>4, <2>5, <2>6, <2>7 DEF Next, Step
<1> QED
  BY <1>1, <1>2 DEF ImageInv

\* A segment is stored between its place p in memory and its end there, and
\* nothing else is written.
LEMMA StoreInSegment ==
  ASSUME NEW s \in Phdr, s.filesz <= s.memsz, s.memsz < Word,
         NEW p \in Nat, p + s.memsz <= Word,
         NEW got \in Int, got <= s.filesz,
         NEW a \in Addr, Store(s, p, got)[a] # mem[a]
  PROVE  p <= a /\ a < p + s.memsz
<1>1. /\ s.memsz \in Nat /\ s.filesz \in Nat /\ Word \in Nat \ {0}
      /\ a \in 0 .. Word - 1 /\ a \in Nat
  BY PhdrFields, SizeAssumption DEF Addr
<1>2. InBss(a, p, s) \/ (a - p) % Word < got
  BY DEF Store
<1>3. CASE InBss(a, p, s)
  <2> DEFINE e == p + s.filesz
             m == s.memsz - s.filesz
  <2>1. e \in Nat /\ m \in Nat /\ e + m <= Word /\ m \in 0 .. Word - 1
    BY <1>1
  <2>2. (a - e) % Word < m % Word
    <3>1. a - p - s.filesz = a - e
      BY <1>1
    <3> QED
      BY <1>3, <3>1 DEF InBss
  <2>3. m % Word = m
    BY <1>1, <2>1, ModSmall
  <2> HIDE DEF e, m
  <2>4. e <= a /\ a < e + m
    BY <1>1, <2>1, <2>2, <2>3, InWindow
  <2> QED
    BY <1>1, <2>4 DEF e, m
<1>4. CASE (a - p) % Word < got
  <2>1. (a - p) % Word \in Int
    BY <1>1
  <2>2. (a - p) % Word < s.memsz
    BY <1>1, <1>4, <2>1
  <2> QED
    BY <1>1, <2>2, InWindow
<1> QED
  BY <1>2, <1>3, <1>4

\* Of a segment that the file holds in full, every byte is in its place, and
\* the rest up to its size in memory is cleared.
LEMMA StoreWrites ==
  ASSUME NEW s \in Phdr, s.filesz <= s.memsz, s.memsz < Word,
         NEW p \in Nat, p + s.memsz <= Word,
         NEW o \in 0 .. s.memsz - 1
  PROVE  Store(s, p, s.filesz)[p + o] = IF o < s.filesz THEN FileByte(file, s.off + o) ELSE Zero
<1> DEFINE a == p + o
           m == s.memsz - s.filesz
<1>1. s.memsz \in Nat /\ s.filesz \in Nat /\ Word \in Nat \ {0} /\ a \in Addr /\ o \in Nat
  BY PhdrFields, SizeAssumption DEF Addr
<1>2. (a - p) % Word = o
  <2>1. a - p = o /\ o \in 0 .. Word - 1
    BY <1>1
  <2> QED
    BY <1>1, <2>1, ModSmall
<1>3. m % Word = m
  <2>1. m \in 0 .. Word - 1
    BY <1>1
  <2> QED
    BY <1>1, <2>1, ModSmall
<1>4. a - p - s.filesz = o - s.filesz
  BY <1>1
<1>5. CASE o < s.filesz
  <2>1. o - s.filesz \in Int /\ -Word <= o - s.filesz /\ o - s.filesz < 0
    BY <1>1, <1>5
  <2>2. (o - s.filesz) % Word = o - s.filesz + Word
    BY <1>1, <2>1, ModNegative
  <2>3. ~ (o - s.filesz + Word < m)
    BY <1>1
  <2>4. ~ InBss(a, p, s)
    BY <1>3, <1>4, <2>2, <2>3 DEF InBss
  <2> QED
    BY <1>1, <1>2, <1>5, <2>4 DEF Store
<1>6. CASE ~ o < s.filesz
  <2>1. o - s.filesz \in 0 .. Word - 1 /\ o - s.filesz < m
    BY <1>1, <1>6
  <2>2. (o - s.filesz) % Word = o - s.filesz
    BY <1>1, <2>1, ModSmall
  <2>3. InBss(a, p, s)
    BY <1>3, <1>4, <2>1, <2>2 DEF InBss
  <2> QED
    BY <1>1, <1>6, <2>3 DEF Store
<1> QED
  BY <1>5, <1>6

\* Where the loader stores a segment of a sound table: within the image.
LEMMA SegmentPlace ==
  ASSUME TypeOK, AllocInv, pc = "load", Sound(programHeaders),
         NEW k \in Loads(programHeaders),
         NEW s, s = programHeaders[k], NEW p, p = loadedBin + s.va - VirtAddr
  PROVE  /\ s \in Phdr /\ s.filesz <= s.memsz /\ s.memsz < Word
         /\ p \in Nat /\ p + s.memsz <= Word /\ CurPtr(s) = p
         /\ loadedBin <= p /\ p + s.memsz <= loadedBin + kernelPages * PageSize
<1> DEFINE n == kernelPages * PageSize
<1>1. s \in Phdr
  BY DEF TypeOK, Loads
<1>2. /\ s.va \in Nat /\ s.memsz \in Nat /\ s.filesz \in Nat
      /\ loadedBin \in Nat /\ VirtAddr \in Nat /\ Word \in Nat \ {0} /\ n \in Int
      /\ s.memsz < Word
  <2>1. loadedBin \in Nat /\ n \in Int
    BY SizeAssumption DEF TypeOK, Addr
  <2>2. s.va \in Nat /\ s.memsz \in Addr /\ s.memsz \in Nat /\ s.filesz \in Nat
    BY <1>1, PhdrFields
  <2> QED
    BY <2>1, <2>2, SizeAssumption DEF Addr
<1>3. /\ VirtAddr <= s.va /\ 0 < s.memsz /\ s.filesz <= s.memsz
      /\ s.va + s.memsz - VirtAddr <= n
      /\ loadedBin + n <= Word
  BY DEF AllocInv, Sound, End
<1> HIDE DEF n
<1>4. p \in Nat /\ p + s.memsz <= loadedBin + n /\ p + s.memsz <= Word /\ loadedBin <= p
  BY <1>2, <1>3
<1>5. CurPtr(s) = p
  <2>1. p \in 0 .. Word - 1
    BY <1>2, <1>3, <1>4
  <2> QED
    BY <1>2, <2>1, ModSmall DEF CurPtr
<1> QED
  BY <1>1, <1>2, <1>3, <1>4, <1>5 DEF n

\* What a read delivers is not more than what was asked for.
LEMMA GotType ==
  ASSUME TypeOK, pc # "idle", NEW s \in Phdr
  PROVE  Got(s.off, s.filesz) \in Int /\ Got(s.off, s.filesz) <= s.filesz
<1>1. file.len \in Nat
  BY FilesAssumption DEF TypeOK, File
<1> QED
  BY <1>1, PhdrFields DEF Got

\* A segment of a sound table that is stored at its place changes no byte
\* outside the image.
LEMMA StoreInImage ==
  ASSUME TypeOK, AllocInv, LoadSegment, Sound(programHeaders),
         NEW a \in Addr, mem'[a] # mem[a]
  PROVE  InImage(a)
<1> DEFINE s == programHeaders[i]
           p == loadedBin + s.va - VirtAddr
<1>1. i \in Loads(programHeaders) /\ pc = "load" /\ pc # "idle"
  <2>1. s.load
    BY DEF LoadSegment
  <2> QED
    BY <2>1 DEF TypeOK, LoadSegment, Loads
<1>2. mem' = Store(s, CurPtr(s), Got(s.off, s.filesz))
  BY DEF LoadSegment
<1> HIDE DEF s, p
<1>3. /\ s \in Phdr /\ s.filesz <= s.memsz /\ s.memsz < Word
      /\ p \in Nat /\ p + s.memsz <= Word /\ CurPtr(s) = p
      /\ loadedBin <= p /\ p + s.memsz <= loadedBin + kernelPages * PageSize
  BY <1>1, SegmentPlace DEF s, p
<1>4. Got(s.off, s.filesz) \in Int /\ Got(s.off, s.filesz) <= s.filesz
  BY <1>1, <1>3, GotType
<1>5. p <= a /\ a < p + s.memsz
  BY <1>2, <1>3, <1>4, StoreInSegment
<1>6. loadedBin \in Int /\ kernelPages * PageSize \in Int /\ a \in Int /\ s.memsz \in Int
  BY <1>3, PhdrFields, SizeAssumption DEF TypeOK, Addr
<1> QED
  BY <1>3, <1>5, <1>6 DEF InImage

\* While a kernel with a sound program header table is loaded, no step writes
\* outside the pages allocated for it, whatever the size of memory and of pages
\* (loadElf.c:67-104).
THEOREM WritesInImage == Spec => WritesStayInImage
<1> DEFINE Stays == Sound(programHeaders) =>
                      \A a \in Addr : mem'[a] # mem[a] => InImage(a)
<1>1. ImageInv /\ [Next]_vars => [Stays]_vars
  <2> SUFFICES ASSUME ImageInv, Next PROVE Stays
    BY DEF vars
  <2>1. CASE UNCHANGED mem
    BY <2>1
  <2>2. CASE LoadSegment
    BY <2>2, StoreInImage DEF ImageInv, TypeInv
  <2>3. LoadSegment \/ UNCHANGED mem
    BY DEF Next, Step, Call, Open, GetInfo, ReadHeader, ReadTable, Scan, AllocPages, Finish, machine
  <2> QED
    BY <2>1, <2>2, <2>3
<1>2. Spec => [][Stays]_vars
  BY <1>1, ImageInit, ImageStep, PTL DEF Spec
<1> QED
  BY <1>2 DEF WritesStayInImage

-----------------------------------------------------------------------------
(* What a sequence of calls leaves behind.                                 *)

\* What a call that returns adds to the history.
LEMMA ReturnAdds ==
  ASSUME TypeOK, file \in Files, NEW ok \in BOOLEAN, Return(ok)
  PROVE  /\ Len(history') = Len(history) + 1
         /\ DOMAIN history' = DOMAIN history \union {Len(history) + 1}
         /\ \A n \in DOMAIN history : history'[n] = history[n]
         /\ history'[Len(history) + 1] = [file |-> file, base |-> loadedBin, ok |-> ok]
         /\ Len(history) + 1 \notin DOMAIN history
BY DEF Return, TypeOK

\* The calls that succeeded, after one more has returned.
LEMMA SucceededAfter ==
  ASSUME TypeOK, file \in Files, NEW ok \in BOOLEAN, Return(ok)
  PROVE  /\ ok => Succeeded' = Succeeded \union {Len(history) + 1}
         /\ ~ ok => Succeeded' = Succeeded
         /\ Len(history) + 1 \notin Succeeded
<1> DEFINE n == Len(history) + 1
           r == [file |-> file, base |-> loadedBin, ok |-> ok]
<1>1. history'[n] = r /\ DOMAIN history' = DOMAIN history \union {n} /\ n \notin DOMAIN history
  BY ReturnAdds
<1>2. \A m \in DOMAIN history : history'[m] = history[m]
  BY ReturnAdds
<1>3. r.ok = ok
  OBVIOUS
<1> HIDE DEF n, r
<1>4. history'[n].ok = ok
  BY <1>1, <1>3
<1> QED
  BY <1>1, <1>2, <1>4 DEF Succeeded, n

\* There are finitely many of them.
LEMMA SucceededFinite ==
  ASSUME TypeOK
  PROVE  IsFiniteSet(Succeeded) /\ Cardinality(Succeeded) \in Nat
<1>1. Len(history) \in Nat /\ DOMAIN history = 1 .. Len(history)
  BY DEF TypeOK
<1>2. IsFiniteSet(1 .. Len(history))
  BY <1>1, FS_Interval
<1>3. IsFiniteSet(Succeeded)
  BY <1>1, <1>2, FS_Subset DEF Succeeded
<1> QED
  BY <1>3, FS_CardinalityType

\* A handle or a pool buffer the running call may have acquired.
OpenHandle == IF pc \in {"idle", "open"} THEN 0 ELSE 1
OpenPool == IF pc \in {"scan", "load", "halt"} THEN 1 ELSE 0

LeakInv ==
  /\ TypeInv
  /\ handles + Cardinality(Succeeded) <= Len(history) + OpenHandle
  /\ pool <= Len(history) + OpenPool

LEMMA LeakInit == Init => LeakInv
<1> SUFFICES ASSUME Init PROVE LeakInv
  OBVIOUS
<1>1. TypeInv
  BY TypeInit
<1>2. Succeeded = {} /\ Len(history) = 0
  BY DEF Init, Succeeded
<1>3. Cardinality(Succeeded) = 0
  BY <1>2, FS_EmptySet
<1> QED
  BY <1>1, <1>2, <1>3 DEF Init, LeakInv, OpenHandle, OpenPool

LEMMA LeakStep == LeakInv /\ [Next]_vars => LeakInv'
<1> SUFFICES ASSUME LeakInv, [Next]_vars PROVE LeakInv'
  OBVIOUS
<1> DEFINE l == Len(history)
           c == Cardinality(Succeeded)
<1>0. TypeInv /\ TypeOK /\ TypeInv'
  BY TypeStep DEF LeakInv, TypeInv
<1>1. l \in Nat /\ c \in Nat /\ handles \in Nat /\ pool \in Nat
  BY <1>0, SucceededFinite DEF TypeOK
<1>2. handles + c <= l + OpenHandle /\ pool <= l + OpenPool
  BY DEF LeakInv
<1>3. ASSUME UNCHANGED history
      PROVE  Len(history') = l /\ Cardinality(Succeeded') = c
  BY <1>3 DEF Succeeded
<1>4. ASSUME file \in Files, Return(FALSE)
      PROVE  pc' = "idle" /\ Len(history') = l + 1 /\ Cardinality(Succeeded') = c
  BY <1>0, <1>4, ReturnAdds, SucceededAfter DEF Return
<1>5. ASSUME file \in Files, Return(TRUE)
      PROVE  pc' = "idle" /\ Len(history') = l + 1 /\ Cardinality(Succeeded') = c + 1
  <2>1. /\ Succeeded' = Succeeded \union {l + 1} /\ l + 1 \notin Succeeded
        /\ Len(history') = l + 1 /\ pc' = "idle"
    BY <1>0, <1>5, ReturnAdds, SucceededAfter DEF Return
  <2> QED
    BY <1>0, <2>1, SucceededFinite, FS_AddElement
<1>6. ASSUME pc # "idle" PROVE file \in Files
  BY <1>0, <1>6 DEF TypeOK
<1> SUFFICES /\ handles' + Cardinality(Succeeded') <= Len(history') + OpenHandle'
             /\ pool' <= Len(history') + OpenPool'
  BY <1>0 DEF LeakInv
<1> HIDE DEF l, c
<1>7. ASSUME NEW f \in Files, Call(f)
      PROVE  handles' + Cardinality(Succeeded') <= Len(history') + OpenHandle'
             /\ pool' <= Len(history') + OpenPool'
  BY <1>1, <1>2, <1>3, <1>7 DEF Call, Goto, held, OpenHandle, OpenPool
<1>8. CASE Open
  <2>1. pc = "open" /\ pool' = pool
    BY <1>8 DEF Open
  <2>2. CASE Return(FALSE) /\ handles' = handles
    <3>1. pc' = "idle" /\ Len(history') = l + 1 /\ Cardinality(Succeeded') = c
      BY <1>4, <1>6, <2>1, <2>2
    <3> QED
      BY <1>1, <1>2, <2>1, <2>2, <3>1 DEF OpenHandle, OpenPool
  <2>3. CASE Goto("info") /\ handles' = handles + 1
    BY <1>1, <1>2, <1>3, <2>1, <2>3 DEF Goto, OpenHandle, OpenPool
  <2> QED
    BY <1>8, <2>2, <2>3 DEF Open
<1>9. CASE GetInfo
  <2>1. pc = "info" /\ handles' = handles
    BY <1>9 DEF GetInfo
  <2>2. CASE Return(FALSE) /\ pool' = pool + 1
    <3>1. pc' = "idle" /\ Len(history') = l + 1 /\ Cardinality(Succeeded') = c
      BY <1>4, <1>6, <2>1, <2>2
    <3> QED
      BY <1>1, <1>2, <2>1, <2>2, <3>1 DEF OpenHandle, OpenPool
  <2>3. CASE (Halt \/ Goto("header")) /\ pool' = pool
    BY <1>1, <1>2, <1>3, <2>1, <2>3 DEF Goto, Halt, OpenHandle, OpenPool
  <2> QED
    BY <1>9, <2>2, <2>3 DEF GetInfo
<1>10. CASE ReadHeader
  <2>1. UNCHANGED <<handles, pool>> /\ pc = "header" /\ (Return(FALSE) \/ Goto("table"))
    BY <1>10 DEF ReadHeader, held
  <2>2. CASE Return(FALSE)
    <3>1. pc' = "idle" /\ Len(history') = l + 1 /\ Cardinality(Succeeded') = c
      BY <1>4, <1>6, <2>1, <2>2
    <3> QED
      BY <1>1, <1>2, <2>1, <3>1 DEF OpenHandle, OpenPool
  <2>3. CASE Goto("table")
    BY <1>1, <1>2, <1>3, <2>1, <2>3 DEF Goto, OpenHandle, OpenPool
  <2> QED
    BY <2>1, <2>2, <2>3
<1>11. CASE ReadTable
  <2>1. /\ pc = "table" /\ handles' = handles
        /\ \/ Halt /\ pool' = pool
           \/ Return(FALSE) /\ pool' = pool + 1
           \/ Goto("scan") /\ pool' = pool + 1
    BY <1>11 DEF ReadTable
  <2>2. CASE Return(FALSE) /\ pool' = pool + 1
    <3>1. pc' = "idle" /\ Len(history') = l + 1 /\ Cardinality(Succeeded') = c
      BY <1>4, <1>6, <2>1, <2>2
    <3> QED
      BY <1>1, <1>2, <2>1, <2>2, <3>1 DEF OpenHandle, OpenPool
  <2>3. CASE Halt /\ pool' = pool
    BY <1>1, <1>2, <1>3, <2>1, <2>3 DEF Halt, OpenHandle, OpenPool
  <2>4. CASE Goto("scan") /\ pool' = pool + 1
    BY <1>1, <1>2, <1>3, <2>1, <2>4 DEF Goto, OpenHandle, OpenPool
  <2> QED
    BY <2>1, <2>2, <2>3, <2>4
<1>12. CASE Scan
  BY <1>1, <1>2, <1>3, <1>12 DEF Scan, held, OpenHandle, OpenPool
<1>13. CASE AllocPages
  <2>1. UNCHANGED <<handles, pool>> /\ pc = "scan" /\ (Halt \/ Goto("load"))
    BY <1>13 DEF AllocPages, held
  <2> QED
    BY <1>1, <1>2, <1>3, <2>1 DEF Goto, Halt, OpenHandle, OpenPool
<1>14. CASE LoadSegment
  <2>1. /\ UNCHANGED <<handles, pool>> /\ pc = "load"
        /\ Return(FALSE) \/ UNCHANGED <<pc, history>>
    BY <1>14 DEF LoadSegment, held
  <2>2. CASE Return(FALSE)
    <3>1. pc' = "idle" /\ Len(history') = l + 1 /\ Cardinality(Succeeded') = c
      BY <1>4, <1>6, <2>1, <2>2
    <3> QED
      BY <1>1, <1>2, <2>1, <3>1 DEF OpenHandle, OpenPool
  <2>3. CASE UNCHANGED <<pc, history>>
    BY <1>1, <1>2, <1>3, <2>1, <2>3 DEF OpenHandle, OpenPool
  <2> QED
    BY <2>1, <2>2, <2>3
<1>15. CASE Finish
  <2>1. handles' = handles - 1 /\ pool' = pool /\ pc = "load" /\ Return(TRUE)
    BY <1>15 DEF Finish
  <2>2. pc' = "idle" /\ Len(history') = l + 1 /\ Cardinality(Succeeded') = c + 1
    BY <1>5, <1>6, <2>1
  <2> QED
    BY <1>1, <1>2, <2>1, <2>2 DEF OpenHandle, OpenPool
<1>16. CASE UNCHANGED vars
  BY <1>1, <1>2, <1>3, <1>16 DEF vars, held, OpenHandle, OpenPool
<1> QED
  BY <1>7, <1>8, <1>9, <1>10, <1>11, <1>12, <1>13, <1>14, <1>15, <1>16 DEF Next, Step

\* A call keeps at most one file handle and one pool buffer, and a call that
\* succeeds keeps no handle, after any number of calls (loadElf.c:22-108).
THEOREM LeakIsBounded == Spec => []LeakBound
<1>1. LeakInv => LeakBound
  BY DEF LeakInv, LeakBound, TypeInv, TypeOK, OpenHandle, OpenPool
<1> QED
  BY <1>1, LeakInit, LeakStep, PTL DEF Spec

-----------------------------------------------------------------------------
(* The entry point belongs to the last kernel that was loaded.             *)

\* The header of a file that holds one is the one that was read.
HeaderInv ==
  pc \in {"table", "scan", "load"} /\ file.len >= HeaderSize => header = file.header

EntryInv == TypeInv /\ HeaderInv /\ EntryOfLastSuccess

LEMMA HeaderStep == TypeInv /\ HeaderInv /\ [Next]_vars => HeaderInv'
<1> SUFFICES ASSUME TypeInv, HeaderInv, [Next]_vars PROVE HeaderInv'
  OBVIOUS
<1>1. ASSUME NEW f \in Files, Call(f) PROVE HeaderInv'
  BY <1>1 DEF Call, Goto, HeaderInv
<1>2. CASE Open \/ GetInfo \/ Finish
  BY <1>2 DEF Open, GetInfo, Finish, Goto, Return, Halt, HeaderInv
<1>3. CASE ReadHeader
  BY <1>3 DEF ReadHeader, Return, HeadersRead, HeaderInv
<1>4. CASE ReadTable
  BY <1>4 DEF ReadTable, Goto, Return, Halt, HeaderInv
<1>5. CASE Scan \/ AllocPages \/ LoadSegment
  BY <1>5 DEF Scan, AllocPages, LoadSegment, Goto, Return, Halt, HeaderInv
<1>6. CASE UNCHANGED vars
  BY <1>6 DEF vars, locals, HeaderInv
<1> QED
  BY <1>1, <1>2, <1>3, <1>4, <1>5, <1>6 DEF Next, Step

LEMMA EntryStep == EntryInv /\ [Next]_vars => EntryInv'
<1> SUFFICES ASSUME EntryInv, [Next]_vars PROVE EntryOfLastSuccess'
  BY TypeStep, HeaderStep DEF EntryInv
<1> DEFINE l == Len(history)
<1>0. TypeInv /\ TypeOK /\ HeaderInv /\ EntryOfLastSuccess
  BY DEF EntryInv, TypeInv
<1>1. ASSUME UNCHANGED <<elfEntry, history>> PROVE EntryOfLastSuccess'
  BY <1>0, <1>1 DEF EntryOfLastSuccess, Succeeded
<1>2. ASSUME file \in Files, Return(FALSE), UNCHANGED elfEntry PROVE EntryOfLastSuccess'
  <2>1. Succeeded' = Succeeded /\ Succeeded \subseteq DOMAIN history
    BY <1>0, <1>2, SucceededAfter DEF Succeeded
  <2>2. \A n \in Succeeded : history'[n] = history[n]
    BY <1>0, <1>2, <2>1, ReturnAdds
  <2> QED
    BY <1>0, <1>2, <2>1, <2>2 DEF EntryOfLastSuccess
<1>3. CASE Finish
  <2>1. file \in Files /\ Return(TRUE) /\ elfEntry' = header.entry /\ pc = "load"
    BY <1>0, <1>3 DEF TypeOK, Finish
  <2>2. Succeeded' = Succeeded \union {l + 1} /\ l \in Nat /\ history'[l + 1].file = file
    <3>1. history'[l + 1] = [file |-> file, base |-> loadedBin, ok |-> TRUE]
      BY <1>0, <2>1, ReturnAdds
    <3>2. Succeeded' = Succeeded \union {l + 1}
      BY <1>0, <2>1, SucceededAfter
    <3>3. l \in Nat
      BY <1>0 DEF TypeOK
    <3> QED
      BY <3>1, <3>2, <3>3
  <2>3. \A m \in Succeeded : m \in Nat /\ m <= l
    BY <1>0 DEF TypeOK, Succeeded
  <2>4. \A m \in Succeeded' : m <= l + 1
    BY <2>2, <2>3
  <2>5. file.len >= HeaderSize => elfEntry' = file.header.entry
    BY <1>0, <2>1 DEF HeaderInv
  <2> HIDE DEF l
  <2> QED
    BY <2>2, <2>4, <2>5 DEF EntryOfLastSuccess
<1>4. ASSUME NEW f \in Files, Call(f) PROVE EntryOfLastSuccess'
  BY <1>1, <1>4 DEF Call, Goto, globals
<1>5. CASE Next /\ ~ Finish /\ ~ \E f \in Files : Call(f)
  <2>1. elfEntry' = elfEntry /\ (UNCHANGED history \/ (pc # "idle" /\ Return(FALSE)))
    BY <1>5 DEF Next, Step, Open, GetInfo, ReadHeader, ReadTable, Scan, AllocPages,
                LoadSegment, Goto, Halt, globals
  <2> QED
    BY <1>0, <1>1, <1>2, <2>1 DEF TypeOK
<1>6. CASE UNCHANGED vars
  BY <1>1, <1>6 DEF vars, globals
<1> QED
  BY <1>3, <1>4, <1>5, <1>6

\* elfEntry is the entry point of the last kernel loaded with success, after
\* any sequence of calls that fail or succeed (loadElf.c:50, 105).
THEOREM EntryIsOfLastSuccess == Spec => []EntryOfLastSuccess
<1>1. Init => EntryInv
  BY TypeInit DEF Init, EntryInv, HeaderInv, EntryOfLastSuccess, Succeeded
<1>2. EntryInv => EntryOfLastSuccess
  BY DEF EntryInv
<1> QED
  BY <1>1, <1>2, EntryStep, PTL DEF Spec

-----------------------------------------------------------------------------
(* Loaded kernels stay in memory.                                          *)

\* The files of all calls so far do not mislead the loader.
AllHarmless ==
  (\A n \in DOMAIN history : Harmless(history[n].file)) /\ (pc # "idle" => Harmless(file))

\* The table of a harmless file is read as it is, and sound.
HeaderMagic == pc \in {"table", "scan", "load"} => header.magic

TableInv ==
  pc \in {"scan", "load"} /\ Harmless(file) =>
    programHeaders = file.phdrs /\ Sound(file.phdrs)

\* The byte at a belongs to a page in use; and the running call, if it has
\* allocated its image, will not write it.
InPages(a) == \E p \in pages : p * PageSize <= a /\ a < p * PageSize + PageSize
Apart(a) == InPages(a) /\ (pc = "load" => ~ InImage(a))

ImageInPages == pc = "load" => \A a \in Addr : InImage(a) => InPages(a)

\* Byte o of segment k of the kernel loaded by call c.
Place(c, k, o) == c.base + (c.file.phdrs[k].va - VirtAddr) + o

LoadedApart ==
  AllHarmless =>
    \A n \in Succeeded : \A k \in Loads(history[n].file.phdrs) :
      \A o \in 0 .. history[n].file.phdrs[k].memsz - 1 :
        Place(history[n], k, o) \in Addr /\ Apart(Place(history[n], k, o))

\* The segments the running call has passed are in their places.
SoFarLoaded ==
  pc = "load" /\ Harmless(file) /\ Complete(file) =>
    \A k \in Loads(file.phdrs) : k < i => SegmentAt(file, file.phdrs[k], loadedBin, mem)

KernelInv ==
  /\ ImageInv /\ HeaderInv /\ HeaderMagic /\ TableInv
  /\ ImageInPages /\ LoadedApart /\ SoFarLoaded
  /\ LoadedImagesIntact

\* The entries of a table that the file holds in full are those of the file.
LEMMA TableReadWhole ==
  ASSUME TypeOK, file \in Files, header = file.header, TableComplete(file), NEW g
  PROVE  TableRead(g) = file.phdrs
<1> DEFINE n == Len(file.phdrs)
<1>1. /\ file.phdrs \in Seq(Phdr) /\ n \in Nat /\ header.phnum = n
      /\ file.len \in Nat /\ header.phoff \in Nat
  BY FilesAssumption DEF TypeOK, File, Header
<1>2. file.header.phoff + n * PhdrSize <= file.len
  BY DEF TableComplete
<1>3. ASSUME NEW k \in 1 .. n PROVE header.phoff + k * PhdrSize <= file.len
  <2>1. k * PhdrSize <= n * PhdrSize /\ k * PhdrSize \in Int /\ n * PhdrSize \in Int
    BY <1>1, SizeAssumption
  <2> HIDE DEF n
  <2> QED
    BY <1>1, <1>2, <2>1
<1>4. TableRead(g) = [k \in 1 .. n |-> file.phdrs[k]]
  BY <1>1, <1>3 DEF TableRead
<1> QED
  BY <1>1, <1>4

LEMMA TableStep ==
  ASSUME TypeInv, HeaderInv, HeaderMagic, TableInv, [Next]_vars
  PROVE  HeaderMagic' /\ TableInv'
<1>1. ASSUME NEW f \in Files, Call(f) PROVE HeaderMagic' /\ TableInv'
  BY <1>1 DEF Call, Goto, HeaderMagic, TableInv
<1>2. CASE Open \/ GetInfo \/ Finish
  BY <1>2 DEF Open, GetInfo, Finish, Goto, Return, Halt, HeaderMagic, TableInv
<1>3. CASE ReadHeader
  BY <1>3 DEF ReadHeader, Goto, Return, HeaderMagic, TableInv
<1>4. CASE ReadTable
  <2>1. pc = "table" /\ UNCHANGED <<file, header>> /\ pc' \in {"halt", "idle", "scan"}
    BY <1>4 DEF ReadTable, Goto, Return, Halt
  <2>2. ASSUME pc' = "scan", Harmless(file)
        PROVE  programHeaders' = file.phdrs /\ Sound(file.phdrs)
    <3>1. \E g : programHeaders' = TableRead(g)
      BY <1>4, <2>2 DEF ReadTable, Return, Halt
    <3>2. file \in Files /\ header = file.header /\ header.magic
      BY <2>1, <2>2 DEF TypeInv, TypeOK, HeaderInv, HeaderMagic, Harmless
    <3>3. TableComplete(file) /\ Sound(file.phdrs)
      BY <2>2, <3>2 DEF Harmless
    <3> QED
      BY <3>1, <3>2, <3>3, TableReadWhole DEF TypeInv
  <2> QED
    BY <2>1, <2>2 DEF HeaderMagic, TableInv
<1>5. CASE Scan \/ AllocPages \/ LoadSegment
  BY <1>5 DEF Scan, AllocPages, LoadSegment, Goto, Return, Halt, HeaderMagic, TableInv
<1>6. CASE UNCHANGED vars
  BY <1>6 DEF vars, locals, HeaderMagic, TableInv
<1> QED
  BY <1>1, <1>2, <1>3, <1>4, <1>5, <1>6 DEF Next, Step

\* How a step changes the history: not at all, by a failure, or by a success.
LEMMA StepShape ==
  ASSUME TypeOK, Next
  PROVE  \/ pc = "idle" /\ pc' # "idle" /\ UNCHANGED history
         \/ pc # "idle" /\ pc' # "idle" /\ UNCHANGED <<file, history>>
         \/ pc # "idle" /\ UNCHANGED file /\ Return(FALSE)
         \/ Finish
<1>1. ASSUME NEW f \in Files, Call(f)
      PROVE  pc = "idle" /\ pc' # "idle" /\ UNCHANGED history
  BY <1>1 DEF Call, Goto
<1>2. CASE Open \/ GetInfo \/ ReadHeader \/ ReadTable
  BY <1>2 DEF Open, GetInfo, ReadHeader, ReadTable, Goto, Halt, locals
<1>3. CASE Scan \/ AllocPages \/ LoadSegment
  BY <1>3 DEF Scan, AllocPages, LoadSegment, Goto, Halt
<1> QED
  BY <1>1, <1>2, <1>3 DEF Next, Step

LEMMA HarmlessBefore ==
  ASSUME TypeOK, Next, AllHarmless'
  PROVE  AllHarmless
<1>1. CASE UNCHANGED history /\ (pc = "idle" \/ (pc' # "idle" /\ UNCHANGED file))
  BY <1>1 DEF AllHarmless
<1>2. CASE pc # "idle" /\ \E ok \in BOOLEAN : Return(ok)
  <2>1. file \in Files
    BY <1>2 DEF TypeOK
  <2>2. PICK ok \in BOOLEAN : Return(ok)
    BY <1>2
  <2>3. /\ \A n \in DOMAIN history : n \in DOMAIN history' /\ history'[n] = history[n]
        /\ Len(history) + 1 \in DOMAIN history'
    BY <2>1, <2>2, ReturnAdds
  <2>4. history'[Len(history) + 1].file = file
    <3>1. history'[Len(history) + 1] = [file |-> file, base |-> loadedBin, ok |-> ok]
      BY <2>1, <2>2, ReturnAdds
    <3> QED
      BY <3>1
  <2> QED
    BY <2>3, <2>4 DEF AllHarmless
<1>3. Finish => pc # "idle" /\ Return(TRUE)
  BY DEF Finish
<1> QED
  BY <1>1, <1>2, <1>3, StepShape

\* The successes a step that is no success leaves as they are.
LEMMA SameSuccesses ==
  ASSUME TypeOK, UNCHANGED history \/ (file \in Files /\ Return(FALSE))
  PROVE  Succeeded' = Succeeded /\ \A n \in Succeeded : history'[n] = history[n]
<1>1. CASE UNCHANGED history
  BY <1>1 DEF Succeeded
<1>2. CASE file \in Files /\ Return(FALSE)
  <2>1. Succeeded' = Succeeded
    BY <1>2, SucceededAfter
  <2>2. \A n \in DOMAIN history : history'[n] = history[n]
    BY <1>2, ReturnAdds
  <2> QED
    BY <2>1, <2>2 DEF Succeeded
<1> QED
  BY <1>1, <1>2

\* What is in memory stays in memory if its bytes are left alone.
LEMMA IntactKept ==
  ASSUME LoadedImagesIntact, AllHarmless,
         Succeeded' = Succeeded, \A n \in Succeeded : history'[n] = history[n],
         \A n \in Succeeded : \A k \in Loads(history[n].file.phdrs) :
           \A o \in 0 .. history[n].file.phdrs[k].memsz - 1 :
             mem'[Place(history[n], k, o)] = mem[Place(history[n], k, o)]
  PROVE  LoadedImagesIntact'
<1> SUFFICES ASSUME NEW n \in Succeeded, Complete(history[n].file),
                    NEW k \in Loads(history[n].file.phdrs)
             PROVE  SegmentAt(history[n].file, history[n].file.phdrs[k], history[n].base, mem')
  BY DEF LoadedImagesIntact
<1>1. SegmentAt(history[n].file, history[n].file.phdrs[k], history[n].base, mem)
  BY DEF LoadedImagesIntact, AllHarmless
<1> QED
  BY <1>1 DEF SegmentAt, Place

\* And it stays out of reach if no page is given back.
LEMMA ApartKept ==
  ASSUME LoadedApart, AllHarmless,
         Succeeded' = Succeeded, \A n \in Succeeded : history'[n] = history[n],
         \A a \in Addr : Apart(a) => Apart(a)'
  PROVE  LoadedApart'
<1> SUFFICES ASSUME NEW n \in Succeeded, NEW k \in Loads(history[n].file.phdrs),
                    NEW o \in 0 .. history[n].file.phdrs[k].memsz - 1
             PROVE  /\ Place(history[n], k, o) \in Addr
                    /\ Apart(Place(history[n], k, o))'
  BY DEF LoadedApart, Place, Apart, InPages, InImage
<1>1. Place(history[n], k, o) \in Addr /\ Apart(Place(history[n], k, o))
  BY DEF LoadedApart
<1> QED
  BY <1>1 DEF Place, Apart, InPages, InImage

\* The page of an address in a run of pages is a page of the run, and an
\* address lies in one page only.
LEMMA PageInRun ==
  ASSUME NEW ps \in Nat \ {0}, NEW b \in Nat, NEW n \in Nat, NEW a \in Nat,
         b * ps <= a, a < b * ps + n * ps
  PROVE  /\ \E p \in b .. b + n - 1 : p * ps <= a /\ a < p * ps + ps
         /\ \A p \in Nat : p * ps <= a /\ a < p * ps + ps => p \in b .. b + n - 1
<1>1. ASSUME NEW x \in Int, NEW y \in Int, x <= y PROVE x * ps <= y * ps
  BY <1>1
<1>2. /\ (b + n) * ps = b * ps + n * ps
      /\ \A p \in Nat : (p + 1) * ps = p * ps + ps
  OBVIOUS
<1>3. ASSUME NEW p \in Nat, p * ps <= a, a < p * ps + ps PROVE p \in b .. b + n - 1
  <2>1. b * ps \in Int /\ n * ps \in Int /\ p * ps \in Int
    OBVIOUS
  <2>2. ~ p + 1 <= b
    <3>1. p + 1 <= b => (p + 1) * ps <= b * ps
      BY <1>1
    <3> QED
      BY <1>2, <1>3, <2>1, <3>1
  <2>3. ~ b + n <= p
    <3>1. b + n <= p => (b + n) * ps <= p * ps
      BY <1>1
    <3> QED
      BY <1>2, <1>3, <2>1, <3>1
  <2> QED
    BY <2>2, <2>3
<1>4. \E p \in Nat : p * ps <= a /\ a < p * ps + ps
  <2> DEFINE q == a \div ps
  <2>1. q \in Nat /\ a = ps * q + (a % ps) /\ a % ps \in 0 .. ps - 1
    OBVIOUS
  <2>2. ps * q = q * ps /\ q * ps \in Int
    BY <2>1
  <2> HIDE DEF q
  <2>3. q * ps <= a /\ a < q * ps + ps
    BY <2>1, <2>2
  <2> QED
    BY <2>1, <2>3
<1> QED
  BY <1>3, <1>4

LEMMA IntactInit == Init => KernelInv
<1> SUFFICES ASSUME Init PROVE KernelInv
  OBVIOUS
<1>1. Succeeded = {} /\ pc = "idle"
  BY DEF Init, Succeeded
<1> QED
  BY <1>1, ImageInit
  DEF KernelInv, HeaderInv, HeaderMagic, TableInv, ImageInPages, LoadedApart, SoFarLoaded,
      LoadedImagesIntact

\* A step that neither allocates, stores nor succeeds.
LEMMA IntactQuiet ==
  ASSUME KernelInv, Next, ~ Finish, UNCHANGED <<mem, pages>>, pc' # "load"
  PROVE  (ImageInPages /\ LoadedApart /\ SoFarLoaded /\ LoadedImagesIntact)'
<1>1. TypeOK /\ LoadedApart /\ LoadedImagesIntact
  BY DEF KernelInv, ImageInv, TypeInv
<1>2. Succeeded' = Succeeded /\ \A n \in Succeeded : history'[n] = history[n]
  <2>1. UNCHANGED history \/ (file \in Files /\ Return(FALSE))
    BY <1>1, StepShape DEF TypeOK
  <2> QED
    BY <1>1, <2>1, SameSuccesses
<1>3. ASSUME AllHarmless' PROVE AllHarmless
  BY <1>1, <1>3, HarmlessBefore
<1>4. \A a \in Addr : Apart(a) => Apart(a)'
  BY DEF Apart, InPages
<1>5. LoadedApart'
  BY <1>1, <1>2, <1>3, <1>4, ApartKept DEF LoadedApart
<1>6. LoadedImagesIntact'
  BY <1>1, <1>2, <1>3, IntactKept DEF LoadedImagesIntact, AllHarmless
<1> QED
  BY <1>5, <1>6 DEF ImageInPages, SoFarLoaded

\* A new image is allocated apart from all others.
LEMMA IntactAlloc ==
  ASSUME KernelInv, AllocPages, pc' = "load"
  PROVE  (ImageInPages /\ LoadedApart /\ SoFarLoaded /\ LoadedImagesIntact)'
<1> DEFINE n == kernelPages'
<1>1. TypeOK /\ LoadedApart /\ LoadedImagesIntact
  BY DEF KernelInv, ImageInv, TypeInv
<1>2. UNCHANGED <<mem, history, file>> /\ pc = "scan" /\ i' = 1
  BY DEF AllocPages, Halt, Goto
<1>3. PICK b \in Page : /\ FreeRun(b, n) /\ loadedBin' = b * PageSize
                        /\ pages' = pages \union (b .. b + n - 1)
  BY DEF AllocPages, Halt
<1>4. n \in Nat
  BY <1>1, PagesForCovers DEF TypeOK, AllocPages, Addr
<1>5. PageSize \in Nat \ {0} /\ b \in Nat /\ pages \subseteq Nat /\ Addr \subseteq Nat
  BY <1>1, SizeAssumption DEF TypeOK, Page, Addr
<1> HIDE DEF n
<1>6. ASSUME NEW a \in Addr, b * PageSize <= a, a < b * PageSize + n * PageSize
      PROVE  /\ \E p \in b .. b + n - 1 : p * PageSize <= a /\ a < p * PageSize + PageSize
             /\ ~ InPages(a)
  <2>1. a \in Nat
    BY <1>5
  <2>2. /\ \E p \in b .. b + n - 1 : p * PageSize <= a /\ a < p * PageSize + PageSize
        /\ \A p \in Nat : p * PageSize <= a /\ a < p * PageSize + PageSize => p \in b .. b + n - 1
    BY <1>4, <1>5, <1>6, <2>1, PageInRun
  <2> QED
    BY <1>3, <1>5, <2>2 DEF InPages, FreeRun
<1>7. \A a \in Addr : InImage(a)' <=> b * PageSize <= a /\ a < b * PageSize + n * PageSize
  BY <1>3 DEF InImage, n
<1>8. \A a \in Addr : InPages(a) => InPages(a)'
  BY <1>3 DEF InPages
<1>9. ImageInPages'
  <2>1. \A a \in Addr : InImage(a)' => InPages(a)'
    BY <1>3, <1>6, <1>7 DEF InPages
  <2> QED
    BY <2>1 DEF ImageInPages, InImage, InPages
<1>10. \A a \in Addr : Apart(a) => Apart(a)'
  <2>1. \A a \in Addr : Apart(a) => InPages(a)' /\ ~ InImage(a)'
    BY <1>6, <1>7, <1>8 DEF Apart
  <2> QED
    BY <2>1 DEF Apart, InImage, InPages
<1>11. ASSUME AllHarmless' PROVE AllHarmless
  BY <1>2, <1>11 DEF AllHarmless
<1>12. Succeeded' = Succeeded /\ \A m \in Succeeded : history'[m] = history[m]
  BY <1>2 DEF Succeeded
<1>13. LoadedApart'
  BY <1>1, <1>10, <1>11, <1>12, ApartKept DEF LoadedApart
<1>14. LoadedImagesIntact'
  BY <1>1, <1>2, <1>11, <1>12, IntactKept DEF LoadedImagesIntact, AllHarmless
<1>15. SoFarLoaded'
  <2>1. file.phdrs \in Seq(Phdr)
    BY <1>1, <1>2, FilesAssumption DEF TypeOK, File
  <2> QED
    BY <1>2, <2>1 DEF SoFarLoaded, Loads
<1> QED
  BY <1>9, <1>13, <1>14, <1>15

\* A segment is stored in its place, and on nothing that is there already.
LEMMA IntactStore ==
  ASSUME KernelInv, LoadSegment, pc' = "load"
  PROVE  (ImageInPages /\ LoadedApart /\ SoFarLoaded /\ LoadedImagesIntact)'
<1>1. /\ TypeOK /\ AllocInv /\ TableInv /\ ImageInPages
      /\ LoadedApart /\ SoFarLoaded /\ LoadedImagesIntact
  BY DEF KernelInv, ImageInv, TypeInv
<1>2. /\ pc = "load" /\ UNCHANGED <<pc, history, file, programHeaders, loadedBin, kernelPages, pages>>
      /\ i' = i + 1 /\ i \in DOMAIN programHeaders /\ i \in Nat
  BY <1>1 DEF LoadSegment, Return, globals, TypeOK
<1>3. ASSUME Harmless(file)
      PROVE  /\ programHeaders = file.phdrs /\ Sound(file.phdrs) /\ file \in Files
             /\ \A a \in Addr : ~ InImage(a) => mem'[a] = mem[a]
  <2>1. programHeaders = file.phdrs /\ Sound(file.phdrs) /\ file \in Files
    BY <1>1, <1>2, <1>3 DEF TableInv, TypeOK
  <2> QED
    BY <1>1, <2>1, StoreInImage
<1>4. ImageInPages'
  BY <1>1, <1>2 DEF ImageInPages, InImage, InPages
<1>5. ASSUME AllHarmless' PROVE AllHarmless
  BY <1>2, <1>5 DEF AllHarmless
<1>6. Succeeded' = Succeeded /\ \A m \in Succeeded : history'[m] = history[m]
  BY <1>2 DEF Succeeded
<1>7. LoadedApart'
  <2>1. \A a \in Addr : Apart(a) => Apart(a)'
    BY <1>2 DEF Apart, InPages, InImage
  <2> QED
    BY <1>1, <1>5, <1>6, <2>1, ApartKept DEF LoadedApart
<1>8. LoadedImagesIntact'
  <2>1. ASSUME AllHarmless
        PROVE  \A n \in Succeeded : \A k \in Loads(history[n].file.phdrs) :
                 \A o \in 0 .. history[n].file.phdrs[k].memsz - 1 :
                   mem'[Place(history[n], k, o)] = mem[Place(history[n], k, o)]
    BY <1>1, <1>2, <1>3, <2>1 DEF LoadedApart, Apart, AllHarmless
  <2> QED
    BY <1>1, <1>5, <1>6, <2>1, IntactKept DEF LoadedImagesIntact, AllHarmless
<1>9. SoFarLoaded'
  <2> SUFFICES ASSUME Harmless(file), Complete(file),
                      NEW k \in Loads(file.phdrs), k < i + 1
               PROVE  SegmentAt(file, file.phdrs[k], loadedBin, mem')
    BY <1>2 DEF SoFarLoaded
  <2> DEFINE r == file.phdrs[k]
             q == loadedBin + r.va - VirtAddr
  <2>1. programHeaders = file.phdrs /\ Sound(file.phdrs) /\ file \in Files
    BY <1>3
  <2>2. Sound(programHeaders) /\ k \in Loads(programHeaders) /\ r = programHeaders[k] /\ k \in Nat
    BY <1>1, <2>1 DEF Loads, TypeOK
  <2>3. /\ r \in Phdr /\ r.filesz <= r.memsz /\ r.memsz < Word
        /\ q \in Nat /\ q + r.memsz <= Word /\ CurPtr(r) = q
    BY <1>1, <1>2, <2>2, SegmentPlace
  <2>4. loadedBin \in Int /\ VirtAddr \in Int /\ r.va \in Int /\ r.memsz \in Nat
    <3>1. loadedBin \in Int /\ VirtAddr \in Int
      BY <1>1, SizeAssumption DEF TypeOK, Addr
    <3> HIDE DEF r
    <3> QED
      BY <2>3, <3>1, PhdrFields
  <2>5. \A o \in 0 .. r.memsz - 1 : loadedBin + (r.va - VirtAddr) + o = q + o
    BY <2>4
  <2>6. CASE k = i
    <3>1. programHeaders[i].load /\ programHeaders[i] = r
      BY <2>2, <2>6 DEF Loads
    <3>2. mem' = Store(programHeaders[i], CurPtr(programHeaders[i]),
                       Got(programHeaders[i].off, programHeaders[i].filesz))
      <4> HIDE DEF r, q
      <4> QED
        BY <1>2, <3>1 DEF LoadSegment, Return
    <3>2a. mem' = Store(r, q, Got(r.off, r.filesz))
      <4> HIDE DEF r, q
      <4> QED
        BY <2>3, <3>1, <3>2
    <3>3. Got(r.off, r.filesz) = r.filesz
      BY DEF Got, Complete
    <3> HIDE DEF r, q
    <3>4. \A o \in 0 .. r.memsz - 1 :
            mem'[q + o] = IF o < r.filesz THEN FileByte(file, r.off + o) ELSE Zero
      BY <2>3, <3>2a, <3>3, StoreWrites
    <3> QED
      BY <2>5, <3>4 DEF SegmentAt, r
  <2>7. CASE k # i
    <3>1. k < i
      BY <1>2, <2>2, <2>7
    <3>2. SegmentAt(file, r, loadedBin, mem)
      BY <1>1, <1>2, <3>1 DEF SoFarLoaded
    <3>3. ASSUME NEW o \in 0 .. r.memsz - 1 PROVE mem'[q + o] = mem[q + o]
      <4> DEFINE s == programHeaders[i]
                 p == loadedBin + s.va - VirtAddr
                 a == q + o
      <4>1. CASE ~ s.load
        BY <4>1 DEF LoadSegment
      <4>2. CASE s.load
        <5>1. i \in Loads(programHeaders)
          BY <1>2, <4>2 DEF Loads
        <5>2. r.va + r.memsz <= s.va \/ s.va + s.memsz <= r.va
          BY <2>2, <2>7, <5>1 DEF Sound
        <5>3. mem' = Store(s, CurPtr(s), Got(s.off, s.filesz)) \/ mem' = mem
          BY DEF LoadSegment
        <5> HIDE DEF s, p, r, q
        <5>4. /\ s \in Phdr /\ s.filesz <= s.memsz /\ s.memsz < Word
              /\ p \in Nat /\ p + s.memsz <= Word /\ CurPtr(s) = p
          BY <1>1, <1>2, <2>2, <5>1, SegmentPlace DEF s, p
        <5>5. Got(s.off, s.filesz) \in Int /\ Got(s.off, s.filesz) <= s.filesz
          BY <1>1, <1>2, <5>4, GotType
        <5>6. a \in Addr /\ a \in Int
          BY <2>3, <2>4, SizeAssumption DEF Addr
        <5>7. ~ (p <= a /\ a < p + s.memsz)
          BY <2>4, <5>2, <5>4, PhdrFields DEF p, q
        <5>8. Store(s, p, Got(s.off, s.filesz))[a] = mem[a]
          BY <5>4, <5>5, <5>6, <5>7, StoreInSegment
        <5> QED
          BY <5>3, <5>4, <5>8
      <4> QED
        BY <4>1, <4>2
    <3> HIDE DEF r, q
    <3> QED
      BY <2>5, <3>2, <3>3 DEF SegmentAt, r
  <2> QED
    BY <2>6, <2>7
<1> QED
  BY <1>4, <1>7, <1>8, <1>9

\* The kernel of a call that succeeds is one more that is in memory.
LEMMA IntactFinish ==
  ASSUME KernelInv, Finish
  PROVE  (ImageInPages /\ LoadedApart /\ SoFarLoaded /\ LoadedImagesIntact)'
<1> DEFINE l == Len(history) + 1
<1>1. /\ TypeOK /\ AllocInv /\ TableInv /\ ImageInPages
      /\ LoadedApart /\ SoFarLoaded /\ LoadedImagesIntact
  BY DEF KernelInv, ImageInv, TypeInv
<1>2. /\ pc = "load" /\ pc' = "idle" /\ Return(TRUE) /\ UNCHANGED <<mem, pages>>
      /\ file \in Files /\ i > Len(programHeaders) /\ i \in Nat
  BY <1>1 DEF Finish, Return, TypeOK, machine
<1>3. /\ Succeeded' = Succeeded \union {l} /\ l \notin Succeeded
      /\ \A n \in Succeeded : history'[n] = history[n]
      /\ history'[l] = [file |-> file, base |-> loadedBin, ok |-> TRUE]
  BY <1>1, <1>2, SucceededAfter, ReturnAdds DEF Succeeded
<1>4. history'[l].file = file /\ history'[l].base = loadedBin
  BY <1>3
<1> HIDE DEF l
<1>5. ASSUME AllHarmless' PROVE AllHarmless /\ Harmless(file)
  <2>1. AllHarmless
    BY <1>1, <1>5, HarmlessBefore DEF Next, Step
  <2> QED
    BY <1>2, <2>1 DEF AllHarmless
<1>6. ASSUME Harmless(file), NEW k \in Loads(file.phdrs)
      PROVE  /\ k < i
             /\ \A o \in 0 .. file.phdrs[k].memsz - 1 :
                  LET a == loadedBin + (file.phdrs[k].va - VirtAddr) + o IN
                  a \in Addr /\ InPages(a)
  <2> DEFINE r == file.phdrs[k]
             q == loadedBin + r.va - VirtAddr
  <2>1. programHeaders = file.phdrs /\ Sound(file.phdrs)
    BY <1>1, <1>2, <1>6 DEF TableInv
  <2>2. Sound(programHeaders) /\ k \in Loads(programHeaders) /\ r = programHeaders[k]
    BY <1>6, <2>1
  <2>3. k < i
    BY <1>1, <1>2, <2>2 DEF Loads, TypeOK
  <2>4. /\ r \in Phdr /\ q \in Nat /\ q + r.memsz <= Word
        /\ loadedBin <= q /\ q + r.memsz <= loadedBin + kernelPages * PageSize
    BY <1>1, <1>2, <2>2, SegmentPlace
  <2>5. /\ loadedBin \in Int /\ VirtAddr \in Int /\ r.va \in Int /\ r.memsz \in Nat
        /\ kernelPages * PageSize \in Int /\ Word \in Int
    <3>1. loadedBin \in Int /\ VirtAddr \in Int /\ PageSize \in Int /\ Word \in Int
          /\ kernelPages \in Int
      BY <1>1, SizeAssumption DEF TypeOK, Addr
    <3> HIDE DEF r
    <3> QED
      BY <2>4, <3>1, PhdrFields
  <2>6. ASSUME NEW o \in 0 .. r.memsz - 1
        PROVE  LET a == loadedBin + (r.va - VirtAddr) + o IN a \in Addr /\ InPages(a)
    <3> DEFINE a == loadedBin + (r.va - VirtAddr) + o
    <3>1. a = q + o
      BY <2>5
    <3> HIDE DEF r, q, a
    <3>2. a \in Addr /\ InImage(a)
      BY <2>4, <2>5, <3>1 DEF Addr, InImage
    <3> QED
      BY <1>1, <1>2, <3>2 DEF ImageInPages, a
  <2> QED
    BY <2>3, <2>6
<1>7. LoadedApart'
  <2> SUFFICES ASSUME AllHarmless', NEW n \in Succeeded',
                      NEW k \in Loads(history'[n].file.phdrs),
                      NEW o \in 0 .. history'[n].file.phdrs[k].memsz - 1
               PROVE  LET a == history'[n].base + (history'[n].file.phdrs[k].va - VirtAddr) + o IN
                      a \in Addr /\ InPages(a)
    BY <1>2 DEF LoadedApart, Place, Apart, InPages
  <2>1. CASE n = l
    BY <1>4, <1>5, <1>6, <2>1
  <2>2. CASE n \in Succeeded
    BY <1>1, <1>3, <1>5, <2>2 DEF LoadedApart, Apart, Place
  <2> QED
    BY <1>3, <2>1, <2>2
<1>8. LoadedImagesIntact'
  <2> SUFFICES ASSUME AllHarmless', NEW n \in Succeeded', Complete(history'[n].file),
                      NEW k \in Loads(history'[n].file.phdrs)
               PROVE  SegmentAt(history'[n].file, history'[n].file.phdrs[k], history'[n].base, mem)
    BY <1>2 DEF LoadedImagesIntact, AllHarmless
  <2>1. CASE n = l
    BY <1>1, <1>2, <1>4, <1>5, <1>6, <2>1 DEF SoFarLoaded
  <2>2. CASE n \in Succeeded
    BY <1>1, <1>3, <1>5, <2>2 DEF LoadedImagesIntact, AllHarmless
  <2> QED
    BY <1>3, <2>1, <2>2
<1> QED
  BY <1>2, <1>7, <1>8 DEF ImageInPages, SoFarLoaded

LEMMA IntactStep == KernelInv /\ [Next]_vars => KernelInv'
<1> SUFFICES ASSUME KernelInv, [Next]_vars PROVE KernelInv'
  OBVIOUS
<1>1. (ImageInv /\ HeaderInv /\ HeaderMagic /\ TableInv)'
  BY ImageStep, HeaderStep, TableStep DEF KernelInv, ImageInv
<1>2. (ImageInPages /\ LoadedApart /\ SoFarLoaded /\ LoadedImagesIntact)'
  <2>1. CASE Finish
    BY <2>1, IntactFinish
  <2>2. CASE AllocPages /\ pc' = "load"
    BY <2>2, IntactAlloc
  <2>3. CASE LoadSegment /\ pc' = "load"
    BY <2>3, IntactStore
  <2>4. CASE Next /\ ~ Finish /\ UNCHANGED <<mem, pages>> /\ pc' # "load"
    BY <2>4, IntactQuiet
  <2>5. CASE UNCHANGED vars
    BY <2>5 DEF vars, locals, globals, machine, KernelInv, ImageInPages, LoadedApart,
                SoFarLoaded, LoadedImagesIntact, AllHarmless, Apart, InPages, InImage, Place, Succeeded
  <2>6. ASSUME Next, ~ Finish, ~ (AllocPages /\ pc' = "load"), ~ (LoadSegment /\ pc' = "load")
        PROVE  UNCHANGED <<mem, pages>> /\ pc' # "load"
    BY <2>6 DEF Next, Step, Call, Open, GetInfo, ReadHeader, ReadTable, Scan, AllocPages,
                LoadSegment, Goto, Return, Halt, machine
  <2> QED
    BY <2>1, <2>2, <2>3, <2>4, <2>5, <2>6
<1> QED
  BY <1>1, <1>2 DEF KernelInv

\* A kernel that was loaded with success from a complete file is in memory,
\* byte for byte and with its bss cleared, for as long as harmless files are
\* loaded or fail to load after it (loadElf.c:93-103).
THEOREM LoadedImagesStay == Spec => []LoadedImagesIntact
<1>1. KernelInv => LoadedImagesIntact
  BY DEF KernelInv
<1> QED
  BY <1>1, IntactInit, IntactStep, PTL DEF Spec

=============================================================================
