------------------------------ MODULE Console ------------------------------
(* The loops of adachiite/console.c.  printUint() and printHex() write the   *)
(* digits of a number from the last one on into a buffer on the stack, and   *)
(* print the buffer from the first digit on.  memcpy, memmove, memset,       *)
(* memcmp and c16strcmp go through areas that may overlap, cell by cell,     *)
(* with a loop index of 32 bits and a length of 64.                          *)
EXTENDS Integers, Sequences

CONSTANTS
  Word,     \* how many numbers there are, 2^64
  Decimal,  \* the base of printUint, 10
  Hex,      \* the base of printHex, 16
  Places,   \* the digits a buffer holds, 19
  Cells,    \* the size of memory
  Index,    \* how many values the loop index has, 2^32
  Byte,     \* the values of a char, which is signed
  MaxCalls  \* bound on the calls

\* b to the power of k.
Power(b, k) ==
  LET p[j \in Nat] == IF j = 0 THEN 1 ELSE b * p[j - 1] IN p[k]

ASSUME ConsoleAssumption ==
  /\ Word \in Nat \ {0} /\ Places \in Nat \ {0}
  /\ Decimal \in Nat /\ Decimal > 1 /\ Hex \in Nat /\ Hex > 1
  /\ Word <= Power(Hex, Places)   \* 16 digits are enough for 2^64
  /\ Cells \in Nat \ {0} /\ Index \in Nat \ {0} /\ MaxCalls \in Nat
  /\ Byte \subseteq Int /\ 0 \in Byte

VARIABLES
  op,              \* the running function, "idle", or "undefined" once a place
                   \* before the buffer was written
  last,            \* the function that returned last
  calls,
  base, number,    \* of printUint and printHex: the argument,
  n, c,            \* what is left of it, the place of the next digit,
  buffer,          \* buffer[0] .. buffer[18],
  shown,           \* and the digits printed
  dest, src, len,  \* of the functions on memory: the arguments, ptr1 and ptr2 of the
                   \* comparisons are dest and src,
  value,           \* the byte memset writes,
  i,               \* the loop index
  mem, before,     \* memory, and memory when the function was called,
  result           \* and what a comparison returned

call == <<last, calls>>
args == <<dest, src, len, value>>
print == <<base, number, n, c, buffer, shown>>
memory == <<args, i, mem, before, result>>
vars == <<op, call, print, memory>>

-----------------------------------------------------------------------------
(* Numbers. *)

\* What a place of a new buffer holds: it could be any digit.
Stale == 0

\* Mutant: the places are counted from one.
StartAfter == Places

\* Mutant: a place is left free before the last digit.
StartBefore == Places - 2

\* The place of the last digit.
Start == Places - 1

PrintNumber(v, b) ==
  /\ op = "idle" /\ calls < MaxCalls
  /\ calls' = calls + 1
  /\ number' = v /\ base' = b
  /\ IF v = 0
     THEN shown' = <<0>> /\ last' = "print" /\ UNCHANGED <<op, n, c, buffer>>
     ELSE /\ op' = "print" /\ n' = v /\ c' = Start
          /\ buffer' = [p \in 0 .. Places - 1 |-> Stale]
          /\ shown' = <<>> /\ UNCHANGED last
  /\ UNCHANGED memory

\* One iteration of the loop.
Digit ==
  /\ op = "print" /\ n # 0
  /\ n' = n \div base /\ c' = c - 1
  /\ IF c >= 0
     THEN buffer' = [buffer EXCEPT ![c] = n % base] /\ UNCHANGED op
     ELSE op' = "undefined" /\ UNCHANGED buffer
  /\ UNCHANGED <<base, number, shown, call, memory>>

\* Mutant: the first digit is left out.
FlushLate ==
  /\ op = "print" /\ n = 0
  /\ shown' = [p \in 1 .. Places - 2 - c |-> buffer[c + 1 + p]]
  /\ op' = "idle" /\ last' = "print"
  /\ UNCHANGED <<calls, base, number, n, c, buffer, memory>>

\* print(&buffer[c + 1])
Flush ==
  /\ op = "print" /\ n = 0
  /\ shown' = [p \in 1 .. Places - 1 - c |-> buffer[c + p]]
  /\ op' = "idle" /\ last' = "print"
  /\ UNCHANGED <<calls, base, number, n, c, buffer, memory>>

-----------------------------------------------------------------------------
(* Memory. *)

Addr == 0 .. Cells - 1
Area(a, l) == a .. a + l - 1

\* The string at a ends within memory, and within the range of the index.
Terminated(a) == \E e \in a .. Cells - 1 : mem[e] = 0 /\ e - a < Index

Call(f, d, s, l, v) ==
  /\ op = "idle" /\ calls < MaxCalls
  /\ d + l <= Cells /\ s + l <= Cells
  /\ f # "memset" => v = 0
  /\ f = "c16strcmp" => l = 0 /\ Terminated(d) /\ Terminated(s)
  /\ op' = f /\ dest' = d /\ src' = s /\ len' = l /\ value' = v
  /\ i' = IF f = "memcpy" /\ d > s THEN l % Index ELSE 0
  /\ before' = mem /\ calls' = calls + 1
  /\ UNCHANGED <<mem, last, result, print>>

Return(r) ==
  /\ op' = "idle" /\ last' = op /\ result' = r
  /\ UNCHANGED <<args, i, mem, before, calls, print>>

\* The loop goes on, and memory is m.
Again(next, m) ==
  /\ i' = next % Index /\ mem' = m
  /\ UNCHANGED <<op, args, last, before, result, calls, print>>

\* From the first byte on if the source is behind, else from the last.
memcpy ==
  /\ op = "memcpy"
  /\ \/ src > dest /\ i < len /\ Again(i + 1, [mem EXCEPT ![dest + i] = mem[src + i]])
     \/ dest > src /\ i > 0 /\ Again(i - 1, [mem EXCEPT ![dest + i - 1] = mem[src + i - 1]])
     \/ (src > dest => i >= len) /\ (dest > src => i = 0) /\ Return(0)

\* Mutant: the copy is from the last byte on.
memmoveBackward ==
  /\ op = "memmove"
  /\ \/ i < len /\ Again(i + 1, [mem EXCEPT ![dest + len - 1 - i] = mem[src + len - 1 - i],
                                            ![src + len - 1 - i] = 0])
     \/ i >= len /\ Return(0)

\* Every byte is copied, and then cleared where it was.
memmove ==
  /\ op = "memmove"
  /\ \/ i < len /\ Again(i + 1, [mem EXCEPT ![dest + i] = mem[src + i], ![src + i] = 0])
     \/ i >= len /\ Return(0)

memset ==
  /\ op = "memset"
  /\ \/ i < len /\ Again(i + 1, [mem EXCEPT ![dest + i] = value])
     \/ i >= len /\ Return(0)

\* Mutant: the last byte is not compared.
memcmpShort ==
  /\ op = "memcmp"
  /\ \/ i < len - 1 /\ mem[dest + i] = mem[src + i] /\ Again(i + 1, mem)
     \/ i < len - 1 /\ mem[dest + i] # mem[src + i]
        /\ Return(IF mem[dest + i] > mem[src + i] THEN 1 ELSE -1)
     \/ i >= len - 1 /\ Return(0)

memcmp ==
  /\ op = "memcmp"
  /\ \/ i < len /\ mem[dest + i] = mem[src + i] /\ Again(i + 1, mem)
     \/ i < len /\ mem[dest + i] # mem[src + i]
        /\ Return(IF mem[dest + i] > mem[src + i] THEN 1 ELSE -1)
     \/ i >= len /\ Return(0)

\* The loop stops at the end of a string or where they differ.
c16strcmp ==
  /\ op = "c16strcmp"
  /\ LET p == mem[dest + i]
         q == mem[src + i] IN
     IF p # 0 /\ q # 0 /\ p = q THEN Again(i + 1, mem)
     ELSE Return(IF p = q THEN 1 ELSE 0)

Init ==
  /\ op = "idle" /\ last = "idle" /\ calls = 0
  /\ base = Decimal /\ number = 0 /\ n = 0 /\ c = 0
  /\ buffer = [p \in 0 .. Places - 1 |-> Stale] /\ shown = <<>>
  /\ dest = 0 /\ src = 0 /\ len = 0 /\ value = 0 /\ i = 0
  /\ mem \in [Addr -> Byte] /\ before = mem /\ result = 0

Functions == {"memcpy", "memmove", "memset", "memcmp", "c16strcmp"}

Step == Digit \/ Flush \/ memcpy \/ memmove \/ memset \/ memcmp \/ c16strcmp

Next ==
  \/ \E v \in 0 .. Word - 1, b \in {Decimal, Hex} : PrintNumber(v, b)
  \/ \E f \in Functions, d, s, l \in Addr, v \in Byte : Call(f, d, s, l, v)
  \/ Step

Spec == Init /\ [][Next]_vars

-----------------------------------------------------------------------------
(* Properties.  Lengths of 2^32 and more make the loops run on, or copy the  *)
(* wrong bytes; the code has none, so they are left out here.                *)

TypeOK ==
  /\ op \in Functions \union {"idle", "print", "undefined"}
  /\ last \in Functions \union {"idle", "print"} /\ calls \in 0 .. MaxCalls
  /\ base \in {Decimal, Hex} /\ number \in 0 .. Word - 1 /\ n \in 0 .. number
  /\ c \in -2 .. Places - 1 /\ buffer \in [0 .. Places - 1 -> Nat] /\ shown \in Seq(Nat)
  /\ dest \in Addr /\ src \in Addr /\ len \in 0 .. Cells /\ value \in Byte
  /\ i \in 0 .. Index - 1 /\ result \in {-1, 0, 1}
  /\ mem \in [Addr -> Byte] /\ before \in [Addr -> Byte]

Returned(f) == op = "idle" /\ last = f /\ (f = "print" \/ len < Index)

\* The number that the digits s stand for in base b.
Numeral(s, b) ==
  LET v[k \in 0 .. Len(s)] == IF k = 0 THEN 0 ELSE b * v[k - 1] + s[k] IN v[Len(s)]

\* What is on the screen is the number that was to be printed, in its base
\* and without a leading zero.
NumberShown ==
  Returned("print") =>
    /\ \A p \in DOMAIN shown : shown[p] < base
    /\ Numeral(shown, base) = number
    /\ number # 0 => shown[1] # 0

\* A place before the buffer is written for a number with more digits than
\* there are places, and for no other: never by printHex, and by printUint
\* from 10^19 on (console.c:36-43).
BufferLarge ==
  /\ op = "undefined" => base = Decimal /\ number >= Power(Decimal, Places)
  /\ Returned("print") => base = Hex \/ number < Power(Decimal, Places)

\* memcpy is right however the areas overlap: it need not be, and memmove,
\* which should be, is not.  memmove brings every byte to its place if the
\* destination lies before the source, or behind all of it, and leaves zeros
\* where nothing was put.  No function writes outside its areas.
CopiesRight ==
  \A a \in Addr :
    LET within == a \in Area(dest, len) IN
    /\ Returned("memcpy") => mem[a] = IF within THEN before[src + (a - dest)] ELSE before[a]
    /\ Returned("memset") => mem[a] = IF within THEN value ELSE before[a]
    /\ Returned("memmove") /\ (dest < src \/ src + len <= dest) =>
         mem[a] = IF within THEN before[src + (a - dest)]
                  ELSE IF a \in Area(src, len) THEN 0 ELSE before[a]

\* memcmp finds out whether two areas are equal, which is all the loader asks
\* of it, and orders them as signed bytes; c16strcmp whether two strings are.
CompareRight ==
  /\ Returned("memcmp") =>
       LET differ == {k \in 0 .. len - 1 : mem[dest + k] # mem[src + k]} IN
       IF differ = {} THEN result = 0
       ELSE \E k \in differ :
              /\ \A m \in differ : k <= m
              /\ result = IF mem[dest + k] > mem[src + k] THEN 1 ELSE -1
  /\ Returned("c16strcmp") =>
       (result = 1) = \E l \in 0 .. Cells - 1 :
          /\ dest + l < Cells /\ src + l < Cells
          /\ mem[dest + l] = 0 /\ mem[src + l] = 0
          /\ \A k \in 0 .. l - 1 : mem[dest + k] = mem[src + k] /\ mem[dest + k] # 0
=============================================================================
