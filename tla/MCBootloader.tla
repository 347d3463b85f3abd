---------------------------- MODULE MCBootloader ----------------------------
(* Tables of three entries and pages of two bytes, so that the kernel's     *)
(* addresses are 126 to 161 and a page directory reaches to 143.            *)
EXTENDS Bootloader, FiniteSetsExt, TLC

elf(name, len, phdrs) ==
  [name |-> name, dir |-> FALSE, len |-> len, phdrs |-> phdrs,
   header |-> [magic |-> TRUE, entry |-> 127, phoff |-> 1, phnum |-> Len(phdrs)]]

seg(va, off, filesz, memsz) ==
  [load |-> TRUE, va |-> va, off |-> off, filesz |-> filesz, memsz |-> memsz]

\* Two segments that share a page; and one more that ends behind the window.
small == elf("small", 5, <<seg(126, 3, 1, 1), seg(127, 4, 1, 2)>>)
large == elf("large", 6, <<seg(127, 3, 2, 4), seg(142, 5, 1, 4)>>)

MCFiles == {small, large}
MCStackHeaders == {[magic |-> FALSE, entry |-> 0, phoff |-> 0, phnum |-> 0]}

to(p) == [page |-> p, huge |-> FALSE]
first(e) == (0 :> e) @@ (1 :> Absent) @@ (2 :> Absent)

\* The firmware's tables are in three pages and map the lowest pages with one
\* large entry; every other page is full of stale entries.
MCLayouts ==
  {[f \in 0 .. NPages - 1 |->
      CASE f = 0 -> first(to(1))
        [] f = 1 -> first(to(2))
        [] f = 2 -> first([page |-> 0, huge |-> TRUE])
        [] OTHER -> [k \in 0 .. 2 |-> to(k)]]}
MCOverwritten == [k \in 0 .. 2 |-> to(0)]

\* The firmware gives the lowest page that is free, and at times the highest.
MCCandidates(F) ==
  IF F = {} THEN {} ELSE IF Cardinality(F) % 4 = 0 THEN {Min(F), Max(F)} ELSE {Min(F)}
=============================================================================
