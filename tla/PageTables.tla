----------------------------- MODULE PageTables -----------------------------
(* Page tables as the processor reads them.  A frame of memory holds a table *)
(* of N entries, a function from indices; a walk goes down four tables.      *)
(* Addresses are page numbers.                                               *)
EXTENDS Naturals

CONSTANTS
  N,       \* entries of a page table, 512 in the code
  Absent   \* an entry that is not present

ASSUME EntryAssumption ==
  /\ N \in Nat /\ N >= 2
  /\ Absent \notin [page : Nat, huge : BOOLEAN]

Idx == 0 .. N - 1
Top == N - 1  \* PML4[511]
Pdp == N - 2  \* PDP[510]; the two give 0xffffffff80000000

\* A virtual page, by its index in the table of each level.
VAddr == [pml4 : Idx, pdp : Idx, pd : Idx, pt : Idx]

\* An entry: the page it points to, and the HUGE_PAGE bit.
Entry == [page : Nat, huge : BOOLEAN] \union {Absent}

Table == [Idx -> Entry]

\* createPageEntry(address, PRESENT | RW)
Mapped(p) == [page |-> p, huge |-> FALSE]

\* From entry e down by index k; a huge page or an absent entry ends the walk.
Descend(t, e, k) == IF e = Absent \/ e.huge THEN e ELSE t[e.page][k]

\* The entry a walk from the PML4 in frame r reaches at each level.
Level4(t, r, v) == t[r][v.pml4]
Level3(t, r, v) == Descend(t, Level4(t, r, v), v.pdp)
Level2(t, r, v) == Descend(t, Level3(t, r, v), v.pd)
Level1(t, r, v) == Descend(t, Level2(t, r, v), v.pt)

\* The address space of the PML4 in frame r: where each virtual page ends.
View(t, r) == [v \in VAddr |-> Level1(t, r, v)]

\* The entry e is no table, or is one of the frames in F.
Within(e, F) == e = Absent \/ e.huge \/ e.page \in F

\* Every table a walk from r reads is one of the frames in F.
Closed(t, r, F) ==
  /\ r \in F
  /\ \A v \in VAddr : /\ Within(Level4(t, r, v), F)
                      /\ Within(Level3(t, r, v), F)
                      /\ Within(Level2(t, r, v), F)
=============================================================================
