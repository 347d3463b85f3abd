------------------------------ MODULE MCScreen ------------------------------
(* Screens of a few pixels, landscape, portrait, and with scan lines longer *)
(* than the screen is wide; and bitmaps that the loader does not check.     *)
EXTENDS Screen

MCByte == 0 .. 9
MCBlack == <<0, 0, 0, 0>>
MCWhite == <<9, 9, 9, 0>>

mode_(w, h, line, f) == [width |-> w, height |-> h, scanLine |-> line, format |-> f]

MCModes ==
  {mode_(w, 4, line, f) : w \in {8}, line \in {8, 9},
     f \in {"RedGreenBlueReserved", "BlueGreenRedReserved", "BitMask"}}
  \union {mode_(20, 5, 20, "BlueGreenRedReserved"), mode_(4, 7, 4, "BlueGreenRedReserved")}

word(n) == <<n, n + 1, n + 2, 0>>

bitmap(depth, w, h, size, n) ==
  [depth |-> depth, width |-> w, height |-> h, imageSize |-> size,
   data |-> [k \in 1 .. n |-> word(k)]]

\* Two and one column; a size that is short, or zero as the format allows;
\* a file that is cut off; 24 bits for each pixel; no row at all; and a height
\* of minus three, with four bytes to a word.
MCImages ==
  {bitmap(32, 2, 3, 24, 6), bitmap(32, 3, 2, 24, 6), bitmap(32, 1, 3, 12, 3),
   bitmap(32, 2, 3, 22, 6), bitmap(32, 2, 3, 0, 6), bitmap(32, 2, 3, 24, 4),
   bitmap(24, 2, 3, 24, 6), bitmap(32, 2, 0, 24, 6),
   bitmap(32, 1, 4 * Word - 3, 12, 3)}

MCSquareX == {4, 5}
MCSquareY == {0, 1}
=============================================================================
