---------------------------- MODULE AddressSpace ----------------------------
(* What mapAddress() promises: an address space in which the kernel's part  *)
(* of the higher half shows the memory that starts at loadedBin, changed in *)
(* one step, and in which every address outside the last entry of the PML4  *)
(* stays what it was.  MapAddress implements this with page tables.         *)
EXTENDS PageTables

VARIABLES
  loadedBin,  \* the page the last kernel was loaded at
  space       \* the entry each virtual page ends in

\* The address space s with the pages from base on at 0xffffffff80000000, and
\* nothing else below the last entry of the PML4.
WithKernel(s, base) ==
  [v \in VAddr |->
     IF v.pml4 # Top THEN s[v]
     ELSE IF v.pdp = Pdp THEN Mapped(base + v.pd * N + v.pt)
     ELSE Absent]

Init == loadedBin = 0 /\ space \in [VAddr -> Entry]

Load == loadedBin' \in Nat /\ UNCHANGED space

Remap == space' = WithKernel(space, loadedBin) /\ UNCHANGED loadedBin

Next == Load \/ Remap

Spec == Init /\ [][Next]_<<loadedBin, space>>
=============================================================================
