----------------------------- MODULE MCLoadElf -----------------------------
(* A small machine for LoadElf: 64 addresses, of which the last 16 are the *)
(* kernel's, and 12 pages of 4 bytes.                                      *)
EXTENDS LoadElf

seg(va, off, filesz, memsz) ==
  [load |-> TRUE, va |-> va, off |-> off, filesz |-> filesz, memsz |-> memsz]
note(off) == [load |-> FALSE, va |-> 60, off |-> off, filesz |-> 1, memsz |-> 1]

elf(name, len, entry, phdrs) ==
  [name |-> name, dir |-> FALSE, len |-> len, phdrs |-> phdrs,
   header |-> [magic |-> TRUE, entry |-> entry, phoff |-> 2, phnum |-> Len(phdrs)]]

other(name, isDir, len) ==
  [name |-> name, dir |-> isDir, len |-> len, phdrs |-> <<>>,
   header |-> [magic |-> FALSE, entry |-> 0, phoff |-> 0, phnum |-> 0]]

\* Text, a note, and data with a bss; the segments share a page.
kernel == elf("kernel", 9, 49, <<seg(48, 5, 3, 3), note(0), seg(51, 7, 1, 4)>>)
\* The segments are not in the order of their addresses, and end a page.
unordered == elf("unordered", 8, 53, <<seg(53, 4, 2, 3), seg(50, 6, 2, 2)>>)

SoundFiles == {kernel, unordered}

\* A kernel whose last bytes are missing, one cut off inside its program
\* header table, and one shorter than an ELF header.
truncated == [kernel EXCEPT !.name = "truncated", !.len = 7]
cut == [kernel EXCEPT !.name = "cut", !.len = 4]
tiny == [kernel EXCEPT !.name = "tiny", !.len = 1]
empty == other("empty", FALSE, 0)
text == other("text", FALSE, 9)
folder == other("folder", TRUE, 4)

OddFiles == {truncated, cut, tiny, empty, text, folder}

\* Files that break the linker's contract: an overlap, a segment below
\* virtAddr, and one larger in the file than in memory.
nested == elf("nested", 9, 48, <<seg(48, 5, 4, 12), seg(49, 5, 1, 1)>>)
low == elf("low", 9, 1, <<seg(1, 5, 2, 2), seg(48, 7, 2, 2)>>)
shrinking == elf("shrinking", 9, 48, <<seg(48, 5, 3, 2)>>)

MCFiles == SoundFiles \union OddFiles \union {nested, low, shrinking}

\* What the stack may look like: no header at all, or anything else that has
\* no ELF magic.
MCStackHeaders ==
  {[magic |-> FALSE, entry |-> 0, phoff |-> 0, phnum |-> 0],
   [magic |-> FALSE, entry |-> 7, phoff |-> 1, phnum |-> 1]}
=============================================================================
