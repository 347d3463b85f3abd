-------------------------- MODULE MapAddressProofs --------------------------
(* Proofs about MapAddress, for tables of every size, every memory, every   *)
(* firmware page table and every number of calls.                           *)
EXTENDS MapAddress, FiniteSetTheorems, TLAPS

-----------------------------------------------------------------------------
(* Walks.                                                                   *)

\* The walk from r is the same in u as in t when u holds the same tables in
\* the frames that it reads.
LEMMA WalkFrame ==
  ASSUME NEW t, NEW u, NEW r, NEW F, Closed(t, r, F), \A f \in F : u[f] = t[f]
  PROVE  /\ Closed(u, r, F)
         /\ \A v \in VAddr : Level1(u, r, v) = Level1(t, r, v)
<1>1. r \in F /\ u[r] = t[r]
  BY DEF Closed
<1>2. ASSUME NEW v \in VAddr
      PROVE  /\ Level4(u, r, v) = Level4(t, r, v)
             /\ Level3(u, r, v) = Level3(t, r, v)
             /\ Level2(u, r, v) = Level2(t, r, v)
             /\ Level1(u, r, v) = Level1(t, r, v)
  <2>1. /\ Within(Level4(t, r, v), F)
        /\ Within(Level3(t, r, v), F)
        /\ Within(Level2(t, r, v), F)
    BY DEF Closed
  <2>2. Level4(u, r, v) = Level4(t, r, v)
    BY <1>1 DEF Level4
  <2>3. \A e, k : Within(e, F) => Descend(u, e, k) = Descend(t, e, k)
    BY DEF Within, Descend
  <2>4. Level3(u, r, v) = Level3(t, r, v)
    BY <2>1, <2>2, <2>3 DEF Level3
  <2>5. Level2(u, r, v) = Level2(t, r, v)
    BY <2>1, <2>3, <2>4 DEF Level2
  <2> QED
    BY <2>1, <2>2, <2>3, <2>4, <2>5 DEF Level1
<1>3. Closed(u, r, F)
  BY <1>1, <1>2 DEF Closed
<1> QED
  BY <1>2, <1>3

\* A larger set of frames holds the tables of a walk too.
LEMMA ClosedMono ==
  ASSUME NEW t, NEW r, NEW F, NEW G, Closed(t, r, F), F \subseteq G
  PROVE  Closed(t, r, G)
BY DEF Closed, Within

\* A walk through well-formed tables ends in an entry.
LEMMA WalkType ==
  ASSUME NEW t \in [Frame -> Table], NEW r, Closed(t, r, Frame)
  PROVE  View(t, r) \in [VAddr -> Entry]
<1> SUFFICES ASSUME NEW v \in VAddr PROVE Level1(t, r, v) \in Entry
  BY DEF View
<1>1. v.pml4 \in Idx /\ v.pdp \in Idx /\ v.pd \in Idx /\ v.pt \in Idx
  BY DEF VAddr
<1>2. \A e \in Entry, k \in Idx : Within(e, Frame) => Descend(t, e, k) \in Entry
  BY DEF Within, Descend, Table
<1>3. /\ r \in Frame
      /\ Within(Level4(t, r, v), Frame)
      /\ Within(Level3(t, r, v), Frame)
      /\ Within(Level2(t, r, v), Frame)
  BY DEF Closed
<1>4. Level4(t, r, v) \in Entry
  BY <1>1, <1>3 DEF Level4, Table
<1>5. Level3(t, r, v) \in Entry
  BY <1>1, <1>2, <1>3, <1>4 DEF Level3
<1>6. Level2(t, r, v) \in Entry
  BY <1>1, <1>2, <1>3, <1>5 DEF Level2
<1> QED
  BY <1>1, <1>2, <1>3, <1>6 DEF Level1

\* A frame that is allocated was free.
LEMMA FreshIsFree ==
  ASSUME NEW f \in Fresh
  PROVE  f \in Frame /\ f \notin used
BY AllocatorAssumption DEF Fresh

\* The entries the code makes.
LEMMA MadeEntries ==
  /\ Absent \in Entry
  /\ Top \in Idx /\ Pdp \in Idx /\ Top # Pdp
  /\ \A p \in Nat : Mapped(p) \in Entry /\ Mapped(p) # Absent /\ ~ Mapped(p).huge /\ Mapped(p).page = p
<1>1. Top \in Idx /\ Pdp \in Idx /\ Top # Pdp
  BY EntryAssumption DEF Idx, Top, Pdp
<1>2. ASSUME NEW p \in Nat
      PROVE  Mapped(p) \in Entry /\ Mapped(p) # Absent /\ ~ Mapped(p).huge /\ Mapped(p).page = p
  <2>1. Mapped(p) \in [page : Nat, huge : BOOLEAN] /\ ~ Mapped(p).huge /\ Mapped(p).page = p
    BY DEF Mapped
  <2> QED
    BY <2>1, EntryAssumption DEF Entry
<1> QED
  BY <1>1, <1>2 DEF Entry

-----------------------------------------------------------------------------
(* Type correctness. *)

LEMMA TypeInit == Init => TypeOK
BY FrameAssumption, EntryAssumption DEF Init, TypeOK

\* The tables that a step writes, and the frames it allocates.
LEMMA TypeStep == TypeOK /\ [Next]_vars => TypeOK'
<1> SUFFICES ASSUME TypeOK, [Next]_vars PROVE TypeOK'
  OBVIOUS
<1>0. N \in Nat /\ N >= 2 /\ Frame \subseteq Nat
  BY EntryAssumption DEF Frame
<1>1. CASE Load
  <2>1. PICK b \in Fresh, c \in Contents :
          /\ b .. b + ImagePages - 1 \subseteq Frame \ used
          /\ loadedBin' = b
          /\ used' = used \union (b .. b + ImagePages - 1)
          /\ image' = image \union (b .. b + ImagePages - 1)
          /\ tables' = [f \in Frame |-> IF f \in b .. b + ImagePages - 1 THEN c ELSE tables[f]]
    BY <1>1 DEF Load
  <2>2. tables' \in [Frame -> Table]
    BY <2>1, FrameAssumption DEF TypeOK
  <2>3. loadedBin' \in Nat
    BY <1>0, <2>1, FreshIsFree
  <2>4. UNCHANGED <<pc, cr3, PML4, PD, PDP, i>> /\ commands' = commands + 1
    BY <1>1 DEF Load, Locals
  <2> QED
    BY <2>1, <2>2, <2>3, <2>4 DEF TypeOK
<1>2. CASE Call
  BY <1>2 DEF TypeOK, Call, Locals
<1>3. CASE CopyPML4
  <2>1. CASE Halt
    BY <1>3, <2>1 DEF TypeOK, CopyPML4, Halt, Locals
  <2>2. CASE \E f \in Fresh :
               /\ PML4' = f /\ used' = used \union {f}
               /\ tables' = Write(f, tables[cr3])
               /\ pc' = "pd"
               /\ UNCHANGED <<PD, PDP, i>>
    <3>1. PICK f \in Fresh : PML4' = f /\ used' = used \union {f} /\ tables' = Write(f, tables[cr3])
      BY <2>2
    <3>2. f \in Frame /\ tables' \in [Frame -> Table]
      BY <3>1, FreshIsFree DEF TypeOK, Write
    <3> QED
      BY <1>3, <2>2, <3>1, <3>2 DEF TypeOK, CopyPML4
  <2> QED
    BY <1>3, <2>1, <2>2 DEF CopyPML4
<1>4. CASE AllocPD
  <2>1. CASE Halt
    BY <1>4, <2>1 DEF TypeOK, AllocPD, Halt, Locals
  <2>2. CASE \E f \in Fresh :
               /\ PD' = f /\ used' = used \union {f}
               /\ i' = 0
               /\ pc' = "pt"
               /\ UNCHANGED <<tables, PML4, PDP>>
    <3>1. PICK f \in Fresh : PD' = f /\ used' = used \union {f}
      BY <2>2
    <3>2. f \in Frame /\ i' \in 0 .. N
      BY <1>0, <2>2, <3>1, FreshIsFree
    <3> QED
      BY <1>4, <2>2, <3>1, <3>2 DEF TypeOK, AllocPD
  <2> QED
    BY <1>4, <2>1, <2>2 DEF AllocPD
<1>5. CASE MapPT
  <2>1. CASE Halt
    BY <1>5, <2>1 DEF TypeOK, MapPT, Halt, Locals
  <2>2. ASSUME NEW f \in Fresh,
               used' = used \union {f},
               tables' = [tables EXCEPT ![f] = PageTable(loadedBin + i * N),
                                        ![PD] = [tables[PD] EXCEPT ![i] = Mapped(f)]],
               i' = i + 1,
               UNCHANGED <<pc, PML4, PD, PDP>>
        PROVE  TypeOK'
    <3>1. f \in Frame /\ f \in Nat
      BY <1>0, FreshIsFree
    <3>2. loadedBin + i * N \in Nat
      BY <1>0 DEF TypeOK
    <3>3. PageTable(loadedBin + i * N) \in Table
      BY <3>2, MadeEntries DEF PageTable, Table, Idx
    <3>4. [tables[PD] EXCEPT ![i] = Mapped(f)] \in Table
      BY <3>1, MadeEntries DEF TypeOK, Table
    <3>5. tables' \in [Frame -> Table]
      BY <2>2, <3>3, <3>4 DEF TypeOK
    <3>6. i' \in 0 .. N
      BY <1>0, <1>5, <2>2 DEF TypeOK, MapPT
    <3> QED
      BY <1>5, <2>2, <3>1, <3>5, <3>6 DEF TypeOK, MapPT
  <2> QED
    BY <1>5, <2>1, <2>2 DEF MapPT
<1>6. CASE MapPDP
  <2>1. CASE Halt
    BY <1>6, <2>1 DEF TypeOK, MapPDP, Halt, Locals
  <2>2. ASSUME NEW f \in Fresh,
               PDP' = f, used' = used \union {f},
               tables' = [tables EXCEPT
                            ![f] = [k \in Idx |-> IF k = Pdp THEN Mapped(PD) ELSE Absent],
                            ![PML4] = [tables[PML4] EXCEPT ![Top] = Mapped(f)]],
               pc' = "cr3",
               UNCHANGED <<PML4, PD, i>>
        PROVE  TypeOK'
    <3>1. f \in Frame /\ f \in Nat /\ PD \in Nat
      BY <1>0, FreshIsFree DEF TypeOK
    <3>2. [k \in Idx |-> IF k = Pdp THEN Mapped(PD) ELSE Absent] \in Table
      BY <3>1, MadeEntries DEF Table
    <3>3. [tables[PML4] EXCEPT ![Top] = Mapped(f)] \in Table
      BY <3>1, MadeEntries DEF TypeOK, Table
    <3>4. tables' \in [Frame -> Table]
      BY <2>2, <3>2, <3>3 DEF TypeOK
    <3> QED
      BY <1>6, <2>2, <3>1, <3>4 DEF TypeOK, MapPDP
  <2> QED
    BY <1>6, <2>1, <2>2 DEF MapPDP
<1>7. CASE LoadCr3
  BY <1>7 DEF TypeOK, LoadCr3, Locals
<1>8. CASE UNCHANGED vars
  BY <1>8 DEF TypeOK, vars
<1> QED
  BY <1>1, <1>2, <1>3, <1>4, <1>5, <1>6, <1>7, <1>8 DEF Next, Step

\* The page tables and the state of mapAddress are well-formed throughout.
THEOREM TypeCorrect == Spec => []TypeOK
BY TypeInit, TypeStep, PTL DEF Spec

-----------------------------------------------------------------------------
(* The tables under construction.  Until cr3 is loaded, the PML4 and the PD *)
(* that a call is writing are neither read by the processor nor part of a   *)
(* kernel; the page tables that PD points to so far map the kernel.         *)

\* PD[k] points to a page table, outside the frames in F, of the N pages from
\* loadedBin + k * N on.
Maps(k, F) ==
  \E p \in used \ F : tables[PD][k] = Mapped(p) /\ tables[p] = PageTable(loadedBin + k * N)

\* The frames in F belong to the call alone.
Aside(F) == Closed(tables, cr3, used \ F) /\ F \intersect image = {}

CopyInv == pc = "pd" => Aside({PML4}) /\ tables[PML4] = tables[cr3]

BuildInv ==
  pc = "pt" =>
    /\ PD # PML4
    /\ Aside({PML4, PD})
    /\ tables[PML4] = tables[cr3]
    /\ \A k \in 0 .. i - 1 : Maps(k, {PML4, PD})

LinkedInv ==
  pc = "cr3" =>
    /\ Closed(tables, PML4, used)
    /\ View(tables, PML4) = Space!WithKernel(View(tables, cr3), loadedBin)

WalkInv == TypeOK /\ LiveAllocated /\ CopyInv /\ BuildInv /\ LinkedInv

\* A step that leaves the tables of the processor's walk alone leaves them
\* allocated, and the address space as it was.
LEMMA LiveKept ==
  ASSUME NEW F, Closed(tables, cr3, F), F \subseteq used', cr3' = cr3,
         \A f \in F : tables'[f] = tables[f]
  PROVE  /\ LiveAllocated'
         /\ Closed(tables', cr3', F)
         /\ View(tables', cr3') = View(tables, cr3)
BY WalkFrame, ClosedMono DEF LiveAllocated, View

LEMMA WalkInit == Init => WalkInv
<1> SUFFICES ASSUME Init PROVE WalkInv
  OBVIOUS
<1>1. LiveAllocated
  BY LayoutAssumption DEF Init, LiveAllocated
<1> QED
  BY <1>1, TypeInit DEF Init, WalkInv, CopyInv, BuildInv, LinkedInv

\* What a step of the kind does to the processor's walk: it stays allocated,
\* and the address space is the same until cr3 is loaded.
StepKeeps == LiveAllocated' /\ View(tables', cr3') = View(tables, cr3)

LEMMA LoadStep ==
  ASSUME WalkInv, Load
  PROVE  WalkInv' /\ StepKeeps
<1>1. TypeOK'
  BY TypeStep DEF WalkInv, Next
<1>2. PICK b \in Fresh :
        /\ b .. b + ImagePages - 1 \subseteq Frame \ used
        /\ used' = used \union (b .. b + ImagePages - 1)
        /\ \E c \in Contents :
             tables' = [f \in Frame |-> IF f \in b .. b + ImagePages - 1 THEN c ELSE tables[f]]
  BY DEF Load
<1>3. \A f \in used : tables'[f] = tables[f]
  BY <1>2 DEF WalkInv, TypeOK
<1>4. StepKeeps
  <2>1. used \subseteq used' /\ cr3' = cr3 /\ Closed(tables, cr3, used)
    BY <1>2 DEF Load, WalkInv, LiveAllocated
  <2> QED
    BY <1>3, <2>1, LiveKept DEF StepKeeps
<1>5. pc' = "idle"
  BY DEF Load
<1> QED
  BY <1>1, <1>4, <1>5 DEF WalkInv, StepKeeps, CopyInv, BuildInv, LinkedInv

\* allocPage that never returns changes nothing.
LEMMA HaltStep ==
  ASSUME WalkInv, Next, Halt, cr3' = cr3
  PROVE  WalkInv' /\ StepKeeps
<1>1. TypeOK'
  BY TypeStep DEF WalkInv
<1>2. pc' = "halt" /\ tables' = tables /\ used' = used
  BY DEF Halt
<1> QED
  BY <1>1, <1>2 DEF WalkInv, StepKeeps, LiveAllocated, CopyInv, BuildInv, LinkedInv

LEMMA CopyStep ==
  ASSUME WalkInv, CopyPML4
  PROVE  WalkInv' /\ StepKeeps
<1>0. Next /\ TypeOK'
  BY TypeStep DEF WalkInv, Next, Step
<1>1. CASE Halt
  BY <1>0, <1>1, HaltStep DEF CopyPML4
<1>2. ASSUME NEW f \in Fresh,
             PML4' = f, used' = used \union {f},
             tables' = Write(f, tables[cr3]), pc' = "pd"
      PROVE  WalkInv' /\ StepKeeps
  <2>1. f \in Frame /\ f \notin used /\ cr3 \in used /\ image \subseteq used
    BY FreshIsFree DEF WalkInv, TypeOK
  <2>2. cr3' = cr3 /\ image' = image
    BY DEF CopyPML4
  <2>3. \A g \in used : tables'[g] = tables[g]
    BY <1>2, <2>1 DEF Write, WalkInv, TypeOK
  <2>4. tables'[f] = tables[cr3]
    BY <1>2, <2>1 DEF Write, WalkInv, TypeOK
  <2>5. StepKeeps /\ Closed(tables', cr3', used)
    BY <1>2, <2>2, <2>3, LiveKept DEF WalkInv, StepKeeps, LiveAllocated
  <2>6. used' \ {PML4'} = used
    BY <1>2, <2>1
  <2>7. CopyInv'
    BY <1>2, <2>1, <2>2, <2>3, <2>4, <2>5, <2>6 DEF CopyInv, Aside
  <2> QED
    BY <1>0, <1>2, <2>5, <2>7 DEF WalkInv, StepKeeps, BuildInv, LinkedInv
<1> QED
  BY <1>1, <1>2 DEF CopyPML4

LEMMA AllocPDStep ==
  ASSUME WalkInv, AllocPD
  PROVE  WalkInv' /\ StepKeeps
<1>0. Next /\ TypeOK'
  BY TypeStep DEF WalkInv, Next, Step
<1>1. CASE Halt
  BY <1>0, <1>1, HaltStep DEF AllocPD
<1>2. ASSUME NEW f \in Fresh,
             PD' = f, used' = used \union {f}, i' = 0, pc' = "pt",
             UNCHANGED <<tables, PML4, PDP>>
      PROVE  WalkInv' /\ StepKeeps
  <2>1. f \notin used /\ image \subseteq used /\ PML4 \in used
    BY FreshIsFree DEF WalkInv, TypeOK
  <2>2. cr3' = cr3 /\ image' = image
    BY DEF AllocPD
  <2>3. Closed(tables, cr3, used \ {PML4}) /\ PML4 \notin image /\ tables[PML4] = tables[cr3]
    BY DEF WalkInv, CopyInv, Aside, AllocPD
  <2>4. used' \ {PML4', PD'} = used \ {PML4}
    BY <1>2, <2>1
  <2>5. StepKeeps
    <3>1. used \ {PML4} \subseteq used'
      BY <1>2
    <3> QED
      BY <1>2, <2>2, <2>3, <3>1, LiveKept DEF StepKeeps
  <2>6. BuildInv'
    <3>1. \A k \in 0 .. i' - 1 : FALSE
      BY <1>2
    <3>2. Aside({PML4, PD})'
      BY <1>2, <2>1, <2>2, <2>3, <2>4 DEF Aside
    <3> QED
      BY <1>2, <2>1, <2>2, <2>3, <3>1, <3>2 DEF BuildInv
  <2> QED
    BY <1>0, <1>2, <2>5, <2>6 DEF WalkInv, StepKeeps, CopyInv, LinkedInv
<1> QED
  BY <1>1, <1>2 DEF AllocPD

LEMMA MapPTStep ==
  ASSUME WalkInv, MapPT
  PROVE  WalkInv' /\ StepKeeps
<1>0. Next /\ TypeOK'
  BY TypeStep DEF WalkInv, Next, Step
<1>1. CASE Halt
  BY <1>0, <1>1, HaltStep DEF MapPT
<1>2. ASSUME NEW f \in Fresh,
             used' = used \union {f},
             tables' = [tables EXCEPT ![f] = PageTable(loadedBin + i * N),
                                      ![PD] = [tables[PD] EXCEPT ![i] = Mapped(f)]],
             i' = i + 1,
             UNCHANGED <<pc, PML4, PD, PDP>>
      PROVE  WalkInv' /\ StepKeeps
  <2>1. /\ f \in Frame /\ f \notin used /\ PD \in used /\ PML4 \in used /\ PD # f
        /\ PD \in Frame
    BY FreshIsFree DEF WalkInv, TypeOK
  <2>2. cr3' = cr3 /\ image' = image /\ loadedBin' = loadedBin /\ pc' = "pt"
    BY <1>2 DEF MapPT
  <2>3. /\ PD # PML4 /\ Aside({PML4, PD}) /\ tables[PML4] = tables[cr3]
        /\ \A k \in 0 .. i - 1 : Maps(k, {PML4, PD})
    BY DEF WalkInv, BuildInv, MapPT
  <2>4. \A g \in used : g # PD => tables'[g] = tables[g]
    BY <1>2, <2>1 DEF WalkInv, TypeOK
  <2>5. tables'[f] = PageTable(loadedBin + i * N)
    BY <1>2, <2>1 DEF WalkInv, TypeOK
  <2>6. i \in Idx /\ tables[PD] \in Table
    BY <2>1, EntryAssumption DEF WalkInv, TypeOK, MapPT, Idx
  <2>7. tables'[PD] = [tables[PD] EXCEPT ![i] = Mapped(f)]
    BY <1>2, <2>1 DEF WalkInv, TypeOK
  <2>8. tables'[PD][i] = Mapped(f) /\ \A k \in Idx : k # i => tables'[PD][k] = tables[PD][k]
    BY <2>6, <2>7 DEF Table
  <2>9. StepKeeps /\ Aside({PML4, PD})'
    <3>1. /\ Closed(tables, cr3, used \ {PML4, PD})
          /\ used \ {PML4, PD} \subseteq used'
          /\ \A g \in used \ {PML4, PD} : tables'[g] = tables[g]
      BY <1>2, <2>3, <2>4 DEF Aside
    <3>2. StepKeeps /\ Closed(tables', cr3', used \ {PML4, PD})
      BY <2>2, <3>1, LiveKept DEF StepKeeps
    <3>3. Closed(tables', cr3', used' \ {PML4', PD'})
      <4>1. used \ {PML4, PD} \subseteq used' \ {PML4', PD'}
        BY <1>2
      <4> QED
        BY <3>2, <4>1, ClosedMono
    <3> QED
      BY <1>2, <2>2, <2>3, <3>2, <3>3 DEF Aside
  <2>10. ASSUME NEW k \in 0 .. i' - 1
         PROVE  \E p \in used' \ {PML4', PD'} :
                  tables'[PD'][k] = Mapped(p) /\ tables'[p] = PageTable(loadedBin' + k * N)
    <3>1. i \in Nat /\ k \in Nat /\ N \in Nat /\ i < N /\ k <= i
      BY <1>2, EntryAssumption DEF WalkInv, TypeOK, MapPT
    <3>2. CASE k = i
      BY <1>2, <2>1, <2>2, <2>5, <2>8, <3>2
    <3>3. CASE k # i
      <4>1. k \in 0 .. i - 1 /\ k \in Idx
        BY <3>1, <3>3 DEF Idx
      <4>2. PICK p \in used \ {PML4, PD} :
              tables[PD][k] = Mapped(p) /\ tables[p] = PageTable(loadedBin + k * N)
        BY <2>3, <4>1 DEF Maps
      <4>3. tables'[PD][k] = Mapped(p) /\ tables'[p] = PageTable(loadedBin + k * N)
        BY <2>4, <2>8, <3>3, <4>1, <4>2
      <4>4. p \in used' \ {PML4', PD'}
        BY <1>2, <4>2
      <4> QED
        BY <1>2, <2>2, <4>3, <4>4
    <3> QED
      BY <3>2, <3>3
  <2>11. tables'[PML4] = tables'[cr3]
    <3>1. cr3 \in used /\ cr3 # PD
      BY <2>3 DEF Aside, Closed
    <3> QED
      BY <2>1, <2>3, <2>4, <3>1
  <2>12. BuildInv'
    BY <1>2, <2>2, <2>3, <2>9, <2>10, <2>11 DEF BuildInv, Maps
  <2> QED
    BY <1>0, <2>2, <2>9, <2>12 DEF WalkInv, StepKeeps, CopyInv, LinkedInv
<1> QED
  BY <1>1, <1>2 DEF MapPT

\* The new tables show the old address space with the kernel in it.
LEMMA LinkedView ==
  ASSUME TypeOK, BuildInv, pc = "pt", i = N,
         NEW f \in Frame, f \notin used,
         NEW t,
         \A g \in used : g # PML4 => t[g] = tables[g],
         \A k \in Idx : t[f][k] = IF k = Pdp THEN Mapped(PD) ELSE Absent,
         \A k \in Idx : t[PML4][k] = IF k = Top THEN Mapped(f) ELSE tables[PML4][k],
         NEW v \in VAddr
  PROVE  /\ Within(Level4(t, PML4, v), used \union {f})
         /\ Within(Level3(t, PML4, v), used \union {f})
         /\ Within(Level2(t, PML4, v), used \union {f})
         /\ Level1(t, PML4, v) =
              IF v.pml4 # Top THEN Level1(tables, cr3, v)
              ELSE IF v.pdp = Pdp THEN Mapped(loadedBin + v.pd * N + v.pt)
              ELSE Absent
<1> DEFINE F == used \ {PML4, PD}
<1>1. /\ v.pml4 \in Idx /\ v.pdp \in Idx /\ v.pd \in Idx /\ v.pt \in Idx
      /\ \A k \in Idx : k \in Nat /\ k \in 0 .. N - 1
      /\ N \in Nat /\ loadedBin \in Nat
  BY EntryAssumption DEF VAddr, Idx, TypeOK
<1>2. /\ f \in Nat /\ PD \in Nat /\ PD \in used /\ PML4 \in used /\ PD # PML4
  BY DEF TypeOK, Frame, BuildInv
<1>3. /\ Closed(tables, cr3, F) /\ tables[PML4] = tables[cr3]
      /\ \A k \in 0 .. N - 1 : Maps(k, {PML4, PD})
  BY DEF BuildInv, Aside
<1>4. CASE v.pml4 # Top
  <2>1. /\ Within(Level4(tables, cr3, v), F)
        /\ Within(Level3(tables, cr3, v), F)
        /\ Within(Level2(tables, cr3, v), F)
    BY <1>3 DEF Closed
  <2>2. Level4(t, PML4, v) = Level4(tables, cr3, v)
    BY <1>1, <1>3, <1>4 DEF Level4
  <2>3. \A e, k : Within(e, F) => Descend(t, e, k) = Descend(tables, e, k)
    BY DEF Within, Descend
  <2>4. Level3(t, PML4, v) = Level3(tables, cr3, v)
    BY <2>1, <2>2, <2>3 DEF Level3
  <2>5. Level2(t, PML4, v) = Level2(tables, cr3, v)
    BY <2>1, <2>3, <2>4 DEF Level2
  <2>6. Level1(t, PML4, v) = Level1(tables, cr3, v)
    BY <2>1, <2>3, <2>5 DEF Level1
  <2>7. \A e : Within(e, F) => Within(e, used \union {f})
    BY DEF Within
  <2> QED
    BY <1>4, <2>1, <2>2, <2>4, <2>5, <2>6, <2>7
<1>5. CASE v.pml4 = Top
  <2>1. \A p \in Nat : /\ Mapped(p) # Absent /\ ~ Mapped(p).huge /\ Mapped(p).page = p
    BY MadeEntries
  <2>2. \A p \in Nat : \A k : Descend(t, Mapped(p), k) = t[p][k]
    BY <2>1 DEF Descend
  <2>3. Level4(t, PML4, v) = Mapped(f)
    BY <1>1, <1>5 DEF Level4
  <2>4. Level3(t, PML4, v) = IF v.pdp = Pdp THEN Mapped(PD) ELSE Absent
    BY <1>1, <1>2, <2>2, <2>3 DEF Level3
  <2>5. Within(Mapped(f), used \union {f}) /\ Within(Mapped(PD), used \union {f})
    BY <1>2, <2>1 DEF Within
  <2>6. Within(Absent, used \union {f}) /\ \A k : Descend(t, Absent, k) = Absent
    BY DEF Within, Descend
  <2>7. CASE v.pdp # Pdp
    <3>1. Level2(t, PML4, v) = Absent /\ Level1(t, PML4, v) = Absent
      BY <2>4, <2>6, <2>7 DEF Level2, Level1
    <3> QED
      BY <1>5, <2>3, <2>4, <2>5, <2>6, <2>7, <3>1
  <2>8. CASE v.pdp = Pdp
    <3>1. PICK p \in used \ {PML4, PD} :
            tables[PD][v.pd] = Mapped(p) /\ tables[p] = PageTable(loadedBin + v.pd * N)
      BY <1>1, <1>3 DEF Maps
    <3>2. p \in Nat
      BY <3>1 DEF TypeOK, Frame
    <3>3. Level2(t, PML4, v) = Mapped(p)
      <4>1. t[PD] = tables[PD]
        BY <1>2
      <4> QED
        BY <1>2, <2>2, <2>4, <2>8, <3>1, <4>1 DEF Level2
    <3>4. Level1(t, PML4, v) = t[p][v.pt] /\ t[p] = PageTable(loadedBin + v.pd * N)
      BY <2>2, <3>1, <3>2, <3>3 DEF Level1
    <3>5. Level1(t, PML4, v) = Mapped(loadedBin + v.pd * N + v.pt)
      BY <1>1, <3>4 DEF PageTable
    <3>6. Within(Mapped(p), used \union {f})
      BY <2>1, <3>1, <3>2 DEF Within
    <3> QED
      BY <1>5, <2>3, <2>4, <2>5, <2>8, <3>3, <3>5, <3>6
  <2> QED
    BY <2>7, <2>8
<1> QED
  BY <1>4, <1>5

LEMMA MapPDPStep ==
  ASSUME WalkInv, MapPDP
  PROVE  WalkInv' /\ StepKeeps
<1>0. Next /\ TypeOK'
  BY TypeStep DEF WalkInv, Next, Step
<1>1. CASE Halt
  BY <1>0, <1>1, HaltStep DEF MapPDP
<1>2. ASSUME NEW f \in Fresh,
             used' = used \union {f},
             tables' = [tables EXCEPT
                          ![f] = [k \in Idx |-> IF k = Pdp THEN Mapped(PD) ELSE Absent],
                          ![PML4] = [tables[PML4] EXCEPT ![Top] = Mapped(f)]],
             pc' = "cr3",
             UNCHANGED <<PML4, PD, i>>
      PROVE  WalkInv' /\ StepKeeps
  <2>1. /\ f \in Frame /\ f \notin used /\ PML4 \in used /\ PML4 # f
        /\ PML4 \in Frame /\ tables[PML4] \in Table
    BY FreshIsFree DEF WalkInv, TypeOK
  <2>2. cr3' = cr3 /\ loadedBin' = loadedBin /\ pc = "pt" /\ i = N
    BY DEF MapPDP
  <2>3. \A g \in used : g # PML4 => tables'[g] = tables[g]
    BY <1>2, <2>1 DEF WalkInv, TypeOK
  <2>4. /\ \A k \in Idx : tables'[f][k] = IF k = Pdp THEN Mapped(PD) ELSE Absent
        /\ tables'[PML4] = [tables[PML4] EXCEPT ![Top] = Mapped(f)]
    BY <1>2, <2>1 DEF WalkInv, TypeOK
  <2>5. \A k \in Idx : tables'[PML4][k] = IF k = Top THEN Mapped(f) ELSE tables[PML4][k]
    BY <2>1, <2>4 DEF Table
  <2>6. StepKeeps
    <3>1. Closed(tables, cr3, used \ {PML4, PD})
      BY <2>2 DEF WalkInv, BuildInv, Aside
    <3>2. used \ {PML4, PD} \subseteq used' /\ \A g \in used \ {PML4, PD} : tables'[g] = tables[g]
      BY <1>2, <2>3
    <3> QED
      BY <2>2, <3>1, <3>2, LiveKept DEF StepKeeps
  <2>7. ASSUME NEW v \in VAddr
        PROVE  /\ Within(Level4(tables', PML4, v), used')
               /\ Within(Level3(tables', PML4, v), used')
               /\ Within(Level2(tables', PML4, v), used')
               /\ Level1(tables', PML4, v) =
                    IF v.pml4 # Top THEN Level1(tables, cr3, v)
                    ELSE IF v.pdp = Pdp THEN Mapped(loadedBin + v.pd * N + v.pt)
                    ELSE Absent
    <3> DEFINE t == tables'
    <3>1. TypeOK /\ BuildInv
      BY DEF WalkInv
    <3>2. /\ \A g \in used : g # PML4 => t[g] = tables[g]
          /\ \A k \in Idx : t[f][k] = IF k = Pdp THEN Mapped(PD) ELSE Absent
          /\ \A k \in Idx : t[PML4][k] = IF k = Top THEN Mapped(f) ELSE tables[PML4][k]
      BY <2>3, <2>4, <2>5
    <3> HIDE DEF t
    <3>3. /\ Within(Level4(t, PML4, v), used \union {f})
          /\ Within(Level3(t, PML4, v), used \union {f})
          /\ Within(Level2(t, PML4, v), used \union {f})
          /\ Level1(t, PML4, v) =
               IF v.pml4 # Top THEN Level1(tables, cr3, v)
               ELSE IF v.pdp = Pdp THEN Mapped(loadedBin + v.pd * N + v.pt)
               ELSE Absent
      BY <2>1, <2>2, <3>1, <3>2, LinkedView
    <3> QED
      BY <1>2, <3>3 DEF t
  <2>8. Closed(tables', PML4, used')
    BY <1>2, <2>1, <2>7 DEF Closed
  <2>9. View(tables', PML4) = Space!WithKernel(View(tables, cr3), loadedBin)
    BY <2>7 DEF View, Space!WithKernel, Space!VAddr, Space!Idx, Space!Top, Space!Pdp,
                Space!Mapped, VAddr, Idx, Top, Pdp, Mapped
  <2>10. LinkedInv'
    BY <1>2, <2>2, <2>6, <2>8, <2>9 DEF LinkedInv, StepKeeps
  <2> QED
    BY <1>0, <1>2, <2>6, <2>10 DEF WalkInv, StepKeeps, CopyInv, BuildInv
<1> QED
  BY <1>1, <1>2 DEF MapPDP

\* Loading cr3 is the step in which the address space changes.
LEMMA LoadCr3Step ==
  ASSUME WalkInv, LoadCr3
  PROVE  /\ WalkInv'
         /\ View(tables', cr3') = Space!WithKernel(View(tables, cr3), loadedBin)
         /\ loadedBin' = loadedBin
<1>1. TypeOK'
  BY TypeStep DEF WalkInv, Next, Step
<1>2. cr3' = PML4 /\ tables' = tables /\ used' = used /\ pc' = "idle" /\ loadedBin' = loadedBin
  BY DEF LoadCr3
<1>3. /\ Closed(tables, PML4, used)
      /\ View(tables, PML4) = Space!WithKernel(View(tables, cr3), loadedBin)
  BY DEF WalkInv, LinkedInv, LoadCr3
<1> QED
  BY <1>1, <1>2, <1>3 DEF WalkInv, LiveAllocated, CopyInv, BuildInv, LinkedInv

\* A step that neither loads cr3 nor a kernel keeps loadedBin.
LEMMA OtherSteps ==
  ASSUME WalkInv, [Next]_vars
  PROVE  \/ LoadCr3
         \/ WalkInv' /\ StepKeeps /\ (loadedBin' = loadedBin \/ Load)
<1>1. CASE Load
  BY <1>1, LoadStep
<1>2. CASE Call
  <2>1. TypeOK'
    BY TypeStep DEF WalkInv
  <2>2. pc' = "pml4" /\ UNCHANGED <<tables, cr3, used, loadedBin>>
    BY <1>2 DEF Call
  <2> QED
    BY <2>1, <2>2 DEF WalkInv, StepKeeps, LiveAllocated, CopyInv, BuildInv, LinkedInv
<1>3. CASE CopyPML4 \/ AllocPD \/ MapPT \/ MapPDP
  <2>1. loadedBin' = loadedBin
    BY <1>3 DEF CopyPML4, AllocPD, MapPT, MapPDP
  <2> QED
    BY <1>3, <2>1, CopyStep, AllocPDStep, MapPTStep, MapPDPStep
<1>4. CASE UNCHANGED vars
  <2>1. TypeOK'
    BY TypeStep DEF WalkInv
  <2>2. UNCHANGED <<pc, tables, cr3, used, image, loadedBin, PML4, PD, i>>
    BY <1>4 DEF vars
  <2> QED
    BY <2>1, <2>2 DEF WalkInv, StepKeeps, LiveAllocated, CopyInv, BuildInv, LinkedInv, Aside, Maps
<1> QED
  BY <1>1, <1>2, <1>3, <1>4 DEF Next, Step

LEMMA WalkStep == WalkInv /\ [Next]_vars => WalkInv'
BY OtherSteps, LoadCr3Step

\* The processor never walks through a frame that is not allocated.
THEOREM LiveFramesAllocated == Spec => []LiveAllocated
<1>1. WalkInv => LiveAllocated
  BY DEF WalkInv
<1> QED
  BY <1>1, WalkInit, WalkStep, PTL DEF Spec

\* mapAddress implements its promise for tables of any size: whatever the
\* firmware's tables, however often it is called and wherever it stops, the
\* address space changes only when cr3 is loaded, and then to the one with
\* loadedBin at the kernel's addresses (mapAdress.c:26-60).
THEOREM MapAddressRefines == Spec => Refines
<1>1. Init => Space!Init
  <2> SUFFICES ASSUME Init PROVE Space!Init
    OBVIOUS
  <2>1. Closed(tables, cr3, Firmware) /\ Firmware \subseteq Frame /\ tables \in [Frame -> Table]
    BY LayoutAssumption, FrameAssumption DEF Init
  <2>2. Closed(tables, cr3, Frame)
    BY <2>1, ClosedMono
  <2>3. View(tables, cr3) \in [VAddr -> Entry]
    BY <2>1, <2>2, WalkType
  <2> QED
    BY <2>3 DEF Init, Space!Init, Space!VAddr, Space!Idx, Space!Entry, VAddr, Idx, Entry
<1>2. WalkInv /\ [Next]_vars => [Space!Next]_<<loadedBin, View(tables, cr3)>>
  <2> SUFFICES ASSUME WalkInv, [Next]_vars
               PROVE  Space!Next \/ UNCHANGED <<loadedBin, View(tables, cr3)>>
    OBVIOUS
  <2>1. CASE LoadCr3
    BY <2>1, LoadCr3Step DEF Space!Next, Space!Remap
  <2>2. CASE WalkInv' /\ StepKeeps /\ (loadedBin' = loadedBin \/ Load)
    BY <2>2 DEF StepKeeps, Space!Next, Space!Load, WalkInv, TypeOK
  <2> QED
    BY <2>1, <2>2, OtherSteps
<1> QED
  BY <1>1, <1>2, WalkInit, WalkStep, PTL DEF Spec, Refines, Space!Spec

-----------------------------------------------------------------------------
(* Live tables and kernels are left alone. *)

\* The frames no step writes: those in use, but for the two tables that the
\* call is filling.
Protected == IF pc = "pt" THEN used \ {PML4, PD} ELSE used

LEMMA ProtectedHolds ==
  ASSUME WalkInv
  PROVE  Reach(cr3) \union image \subseteq Protected
<1>1. Closed(tables, cr3, Protected) /\ image \subseteq Protected
  BY DEF WalkInv, LiveAllocated, BuildInv, Aside, TypeOK, Protected
<1>2. Reach(cr3) \subseteq Protected
  BY <1>1 DEF Reach, Closed, Within
<1> QED
  BY <1>1, <1>2

LEMMA ProtectedKept ==
  ASSUME WalkInv, [Next]_vars
  PROVE  \A f \in Protected : tables'[f] = tables[f]
<1>0. TypeOK /\ \A f \in Fresh : f \notin used
  BY FreshIsFree DEF WalkInv
<1>1. CASE Load
  BY <1>0, <1>1 DEF Load, Protected, TypeOK
<1>2. CASE CopyPML4
  BY <1>0, <1>2 DEF CopyPML4, Halt, Write, Protected, TypeOK
<1>3. CASE MapPT
  BY <1>0, <1>3 DEF MapPT, Halt, Protected, TypeOK
<1>4. CASE MapPDP
  BY <1>0, <1>4 DEF MapPDP, Halt, Protected, TypeOK
<1>5. CASE Call \/ AllocPD \/ LoadCr3 \/ UNCHANGED vars
  BY <1>5 DEF Call, AllocPD, Halt, LoadCr3, vars
<1> QED
  BY <1>1, <1>2, <1>3, <1>4, <1>5 DEF Next, Step

\* No step writes a table the processor reads or a kernel that is loaded,
\* also when a call stops half-way for lack of memory and when kernels are
\* loaded between calls (mapAdress.c:17-60, loadElf.c:84-104).
THEOREM LiveTablesUntouched == Spec => LiveUntouched
<1> DEFINE Untouched == \A f \in Reach(cr3) \union image : tables'[f] = tables[f]
<1>1. WalkInv /\ [Next]_vars => Untouched
  BY ProtectedHolds, ProtectedKept
<1>2. Spec => [][Untouched]_vars
  BY <1>1, WalkInit, WalkStep, PTL DEF Spec
<1> QED
  BY <1>2 DEF LiveUntouched
-----------------------------------------------------------------------------
(* The pages that calls of mapAddress keep. *)

KeptFrames == used \ (image \union Firmware)

\* ImagePages for each call of mapAddress that returned.
Due == ImagePages * commands - Cardinality(image) - (IF pc = "idle" THEN 0 ELSE ImagePages)

\* The frames that the running call has taken.
Taken ==
  IF pc = "pd" THEN 1 ELSE IF pc = "pt" THEN 2 + i ELSE IF pc = "cr3" THEN N + 3 ELSE 0

CountInv ==
  /\ Firmware \subseteq used
  /\ pc # "halt" =>
       ImagePages * Cardinality(KeptFrames) = (N + 3) * Due + ImagePages * Taken

LEMMA FiniteFrames ==
  ASSUME NEW F, F \subseteq Frame
  PROVE  IsFiniteSet(F) /\ Cardinality(F) \in Nat
<1>1. IsFiniteSet(Frame)
  <2>1. 0 \in Int /\ NFrames - 1 \in Int
    BY FrameAssumption
  <2> QED
    BY <2>1, FS_Interval DEF Frame
<1> QED
  BY <1>1, FS_Subset, FS_CardinalityType

\* A step that takes the frame f for the running call.
LEMMA TakesFrame ==
  ASSUME TypeOK, CountInv, NEW f \in Fresh, used' = used \union {f},
         image' = image, commands' = commands, pc # "idle", pc' # "idle", pc # "halt",
         Taken' = Taken + 1, Taken \in Nat
  PROVE  CountInv'
<1>1. f \in Frame /\ f \notin used
  BY FreshIsFree
<1>2. /\ f \notin KeptFrames /\ KeptFrames' = KeptFrames \union {f} /\ KeptFrames \subseteq Frame
      /\ image \subseteq Frame
  BY <1>1 DEF KeptFrames, TypeOK, CountInv
<1>3. IsFiniteSet(KeptFrames) /\ Cardinality(KeptFrames) \in Nat /\ Cardinality(image) \in Nat
  BY <1>2, FiniteFrames
<1>4. Cardinality(KeptFrames') = Cardinality(KeptFrames) + 1
  BY <1>2, <1>3, FS_AddElement
<1>5. Due' = Due /\ Due \in Int
  BY <1>3, FrameAssumption DEF Due, TypeOK
<1> DEFINE k == Cardinality(KeptFrames)
           d == (N + 3) * Due
<1>6. ImagePages * k = d + ImagePages * Taken /\ d \in Int /\ k \in Nat
  BY <1>3, <1>5, EntryAssumption DEF CountInv
<1>7. Firmware \subseteq used'
  BY DEF CountInv
<1> HIDE DEF k, d
<1>8. ImagePages * (k + 1) = d + ImagePages * (Taken + 1)
  BY <1>6, FrameAssumption
<1>9. ImagePages * Cardinality(KeptFrames') = (N + 3) * Due' + ImagePages * Taken'
  BY <1>4, <1>5, <1>8 DEF k, d
<1> QED
  BY <1>7, <1>9 DEF CountInv

LEMMA CountStep == TypeOK /\ TypeOK' /\ CountInv /\ [Next]_vars => CountInv'
<1> SUFFICES ASSUME TypeOK, TypeOK', CountInv, [Next]_vars PROVE CountInv'
  OBVIOUS
<1>0. /\ KeptFrames \subseteq Frame /\ image \subseteq Frame /\ commands \in Nat /\ i \in Nat
      /\ Firmware \subseteq used
  BY EntryAssumption DEF TypeOK, KeptFrames, CountInv
<1>1. /\ IsFiniteSet(image) /\ Cardinality(image) \in Nat /\ Cardinality(KeptFrames) \in Nat
  BY <1>0, FiniteFrames
<1>2. CASE Load
  <2> PICK b \in Fresh : LET run == b .. b + ImagePages - 1 IN
        run \subseteq Frame \ used /\ used' = used \union run /\ image' = image \union run
    BY <1>2 DEF Load
  <2> DEFINE run == b .. b + ImagePages - 1
  <2>1. /\ run \subseteq Frame \ used /\ used' = used \union run /\ image' = image \union run
        /\ b \in Nat /\ commands' = commands + 1 /\ pc = "idle" /\ pc' = "idle"
    BY <1>2, FreshIsFree DEF Load, Frame
  <2>2. IsFiniteSet(run) /\ Cardinality(run) = ImagePages
    <3>1. b \in Int /\ b + ImagePages - 1 \in Int /\ ~ (b > b + ImagePages - 1)
          /\ (b + ImagePages - 1) - b + 1 = ImagePages
      BY <2>1, FrameAssumption
    <3> QED
      BY <3>1, FS_Interval
  <2> HIDE DEF run
  <2>3. KeptFrames' = KeptFrames /\ image \cap run = {}
    BY <1>0, <2>1 DEF KeptFrames, TypeOK
  <2>4. Cardinality(image') = Cardinality(image) + ImagePages
    <3>1. Cardinality(image \union run) =
            Cardinality(image) + Cardinality(run) - Cardinality(image \cap run)
      BY <1>1, <2>2, FS_Union
    <3>2. Cardinality(image \cap run) = 0
      BY <2>3, FS_EmptySet
    <3> DEFINE c == Cardinality(image)
               u == Cardinality(image \union run)
    <3>3. c \in Nat /\ u = c + ImagePages - 0
      BY <1>1, <2>2, <3>1, <3>2
    <3>4. Cardinality(image') = u
      BY <2>1
    <3> HIDE DEF c, u
    <3>5. u = c + ImagePages
      BY <3>3, FrameAssumption
    <3> QED
      BY <3>4, <3>5 DEF c
  <2>5. Due' = Due
    <3>1. ImagePages * (commands + 1) = ImagePages * commands + ImagePages
      BY <1>0, FrameAssumption
    <3>2. ImagePages * commands \in Int
      BY <1>0, FrameAssumption
    <3> QED
      BY <1>1, <2>1, <2>4, <3>1, <3>2, FrameAssumption DEF Due
  <2>6. Taken = 0 /\ Taken' = 0
    BY <2>1 DEF Taken
  <2> QED
    BY <1>0, <2>1, <2>3, <2>5, <2>6 DEF CountInv
<1>3. CASE Call
  <2>1. /\ pc = "idle" /\ pc' = "pml4" /\ used' = used /\ image' = image /\ commands' = commands + 1
    BY <1>3 DEF Call
  <2>2. Due' = Due
    <3>1. ImagePages * (commands + 1) = ImagePages * commands + ImagePages
      BY <1>0, FrameAssumption
    <3>2. ImagePages * commands \in Int
      BY <1>0, FrameAssumption
    <3> QED
      BY <1>1, <2>1, <3>1, <3>2, FrameAssumption DEF Due
  <2>3. Taken = 0 /\ Taken' = 0 /\ KeptFrames' = KeptFrames
    BY <2>1 DEF Taken, KeptFrames
  <2> QED
    BY <1>0, <2>1, <2>2, <2>3 DEF CountInv
<1>h. CASE Halt /\ image' = image
  BY <1>0, <1>h DEF Halt, CountInv
<1>4. CASE CopyPML4
  <2>1. ASSUME NEW f \in Fresh, used' = used \union {f}, pc = "pml4", pc' = "pd",
               image' = image, commands' = commands
        PROVE  CountInv'
    <3>1. Taken = 0 /\ Taken' = 1
      BY <2>1 DEF Taken
    <3> QED
      BY <2>1, <3>1, TakesFrame
  <2> QED
    BY <1>4, <1>h, <2>1 DEF CopyPML4
<1>5. CASE AllocPD
  <2>1. ASSUME NEW f \in Fresh, used' = used \union {f}, pc = "pd", pc' = "pt", i' = 0,
               image' = image, commands' = commands
        PROVE  CountInv'
    <3>1. Taken = 1 /\ Taken' = 2
      BY <2>1 DEF Taken
    <3> QED
      BY <2>1, <3>1, TakesFrame
  <2> QED
    BY <1>5, <1>h, <2>1 DEF AllocPD
<1>6. CASE MapPT
  <2>1. ASSUME NEW f \in Fresh, used' = used \union {f}, pc = "pt", pc' = "pt", i' = i + 1,
               image' = image, commands' = commands
        PROVE  CountInv'
    <3>1. Taken = 2 + i /\ Taken' = 2 + (i + 1)
      BY <2>1 DEF Taken
    <3>2. Taken \in Nat /\ Taken' = Taken + 1
      BY <1>0, <3>1
    <3> QED
      BY <2>1, <3>2, TakesFrame
  <2> QED
    BY <1>6, <1>h, <2>1 DEF MapPT
<1>7. CASE MapPDP
  <2>1. ASSUME NEW f \in Fresh, used' = used \union {f}, pc = "pt", pc' = "cr3", i = N,
               image' = image, commands' = commands
        PROVE  CountInv'
    <3>1. Taken = 2 + N /\ Taken' = N + 3
      BY <2>1 DEF Taken
    <3>2. Taken \in Nat /\ Taken' = Taken + 1
      BY <3>1, EntryAssumption
    <3> QED
      BY <2>1, <3>2, TakesFrame
  <2> QED
    BY <1>7, <1>h, <2>1 DEF MapPDP
<1>8. CASE LoadCr3
  <2>1. pc = "cr3" /\ pc' = "idle" /\ used' = used /\ image' = image /\ commands' = commands
    BY <1>8 DEF LoadCr3
  <2>2. Taken = N + 3 /\ Taken' = 0 /\ KeptFrames' = KeptFrames
    BY <2>1 DEF Taken, KeptFrames
  <2>3. Due \in Int /\ Due' = Due + ImagePages
    BY <1>0, <1>1, <2>1, FrameAssumption DEF Due
  <2>4. ImagePages * Cardinality(KeptFrames) = (N + 3) * Due + ImagePages * (N + 3)
    BY <2>1, <2>2 DEF CountInv
  <2>5. (N + 3) * (Due + ImagePages) = (N + 3) * Due + ImagePages * (N + 3)
    BY <2>3, FrameAssumption, EntryAssumption
  <2>6. ImagePages * 0 = 0 /\ (N + 3) * (Due + ImagePages) \in Int
    BY <2>3, FrameAssumption, EntryAssumption
  <2>7. ImagePages * Cardinality(KeptFrames') = (N + 3) * Due' + ImagePages * Taken'
    BY <2>2, <2>3, <2>4, <2>5, <2>6
  <2> QED
    BY <1>0, <2>1, <2>7 DEF CountInv
<1>9. CASE UNCHANGED vars
  <2>1. UNCHANGED <<pc, used, image, commands, i>>
    BY <1>9 DEF vars
  <2>2. KeptFrames' = KeptFrames /\ Due' = Due /\ Taken' = Taken
    BY <2>1 DEF KeptFrames, Due, Taken
  <2> QED
    BY <1>0, <2>1, <2>2 DEF CountInv
<1> QED
  BY <1>2, <1>3, <1>4, <1>5, <1>6, <1>7, <1>8, <1>9 DEF Next, Step

\* Between calls exactly N + 3 frames are kept for each call of mapAddress
\* there was (mapAdress.c:30-51), however many there were, wherever the firmware
\* put them and whatever was loaded in between.
THEOREM PagesAreKept == Spec => []PagesKept
<1>1. Init => CountInv
  <2> SUFFICES ASSUME Init PROVE CountInv
    OBVIOUS
  <2>1. KeptFrames = {} /\ image = {} /\ pc = "idle" /\ commands = 0 /\ used = Firmware
    BY DEF Init, KeptFrames
  <2>2. Cardinality(KeptFrames) = 0 /\ Cardinality(image) = 0
    BY <2>1, FS_EmptySet
  <2>3. Due = 0 /\ Taken = 0
    BY <2>1, <2>2, FrameAssumption DEF Due, Taken
  <2> QED
    BY <2>1, <2>2, <2>3, FrameAssumption, EntryAssumption DEF CountInv
<1>2. TypeOK /\ CountInv => PagesKept
  <2> SUFFICES ASSUME TypeOK, CountInv, pc = "idle"
               PROVE  ImagePages * Cardinality(used \ (image \union Firmware)) =
                        (N + 3) * (ImagePages * commands - Cardinality(image))
    BY DEF PagesKept
  <2>1. image \subseteq Frame /\ commands \in Nat
    BY DEF TypeOK
  <2>2. Cardinality(image) \in Nat
    BY <2>1, FiniteFrames
  <2>3. Due = ImagePages * commands - Cardinality(image) /\ Due \in Int /\ Taken = 0
    BY <2>1, <2>2, FrameAssumption DEF Due, Taken
  <2>4. ImagePages * Cardinality(KeptFrames) = (N + 3) * Due + ImagePages * Taken
    BY DEF CountInv
  <2>5. (N + 3) * Due \in Int /\ ImagePages * 0 = 0
    BY <2>3, FrameAssumption, EntryAssumption
  <2> QED
    BY <2>3, <2>4, <2>5 DEF KeptFrames
<1> QED
  BY <1>1, <1>2, CountStep, TypeInit, TypeStep, PTL DEF Spec
=============================================================================
