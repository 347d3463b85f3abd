---------------------------- MODULE MCMapAddress ----------------------------
(* Tables of three entries.  The firmware uses four frames for an identity *)
(* map of the lowest pages, has a huge page, and may use the kernel's slot *)
(* in its PML4 too; every other frame is full of stale entries.            *)
EXTENDS MapAddress, FiniteSetsExt, TLC

to(p) == [page |-> p, huge |-> FALSE]
big(p) == [page |-> p, huge |-> TRUE]

row(a, b, c) == (0 :> a) @@ (1 :> b) @@ (2 :> c)

stale == row(to(0), big(7), to(1))

layout(top) ==
  [f \in 0 .. NFrames - 1 |->
     CASE f = 0 -> row(to(1), Absent, top)
       [] f = 1 -> row(to(2), big(9), Absent)
       [] f = 2 -> row(to(3), big(3), Absent)
       [] f = 3 -> row(to(0), to(1), to(2))
       [] OTHER -> stale]

MCLayouts == {layout(Absent), layout(to(1))}
MCContents == {stale, row(Absent, Absent, Absent)}
MCFirmware == 0 .. 3

\* The firmware gives the lowest frame that is free, and at times the highest.
MCCandidates(F) ==
  IF F = {} THEN {} ELSE IF Cardinality(F) % 4 = 0 THEN {Min(F), Max(F)} ELSE {Min(F)}
=============================================================================
