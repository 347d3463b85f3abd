------------------------------- MODULE Screen -------------------------------
(* What the boot loader draws: the icon (bmp/loadBmp.c, called by efi_main), *)
(* and the square of the command `initgop` (gop.c), pixel by pixel.          *)
(*                                                                           *)
(* A word of the framebuffer is four bytes, lowest address first.  Addresses *)
(* count words from FrameBufferBase on, and go on behind the framebuffer.    *)
(* Nothing checks that a store stays inside it, or that a read stays inside  *)
(* a buffer: a stray one hits whatever memory is there, or stops the boot.   *)
EXTENDS Integers, Sequences

CONSTANTS
  Images,      \* the bitmaps that boot/icon.bmp may be
  Modes,       \* the graphics modes the firmware may have set
  Byte,        \* the values of a colour channel
  Unread,      \* a word that lies behind a buffer
  Black,       \* the word the screen is cleared with
  White,       \* 0xfffffff
  SquareX, SquareY,  \* the columns 400 .. 499 and the rows 200 .. 299
  Word,        \* how many words there are from FrameBufferBase on
  MaxCommands  \* bound on the commands `initgop`

Colour == Byte \X Byte \X Byte \X Byte \* <<blue, green, red, reserved>> in a bitmap

\* width and height in pixels, the scan line in words; PixelBltOnly has no
\* framebuffer and is left out.
Mode == [width : Nat, height : Nat, scanLine : Nat,
         format : {"RedGreenBlueReserved", "BlueGreenRedReserved", "BitMask"}]

\* A bitmap: imageSize is in bytes, data are the words from offset on.  Width
\* and height are read as uint32_t, so a negative height is a very large one.
Image == [depth : Nat, width : Nat, height : Nat, imageSize : Nat, data : Seq(Colour)]

ASSUME ScreenAssumption ==
  /\ Images \subseteq Image /\ Modes \subseteq Mode
  /\ 0 \in Byte /\ Unread \notin Colour /\ {Black, White} \subseteq Colour
  /\ Word \in Nat \ {0} /\ MaxCommands \in Nat
  /\ SquareX \subseteq Nat /\ SquareY \subseteq Nat

VARIABLES
  pc,        \* "start", "icon", "shell", "square", "halt", "fault"
  mode,      \* gop->Mode->Info
  image,     \* the file; what drawIcon knows of it is a copy of its header
  buffer,    \* imgBuffer, as words
  x, y,      \* the loop variables of drawIcon, and of initGOP
  color,     \* the index of the word drawIcon draws next
  screen,    \* the words from FrameBufferBase on
  square,    \* initgop was called
  commands

vars == <<pc, mode, image, buffer, x, y, color, screen, square, commands>>

Addr == 0 .. Word - 1

-----------------------------------------------------------------------------
(* Pixels. *)

\* Mutant: the rows are as long as the screen is wide.
CellNoPadding(px, py) == ((mode.width * py) % Word) + px

\* The word that putPixel writes: the start of a line is computed in 32 bits.
Cell(px, py) == ((mode.scanLine * py) % Word) + px

FrameBuffer == 0 .. mode.scanLine * mode.height - 1

\* Memory after a pixel is stored; what lies outside it is not modelled.
Put(px, py, c) ==
  IF Cell(px, py) \in Addr THEN [screen EXCEPT ![Cell(px, py)] = c] ELSE screen

\* (b << 24) | (g << 16) | (r << 8)
flipColor(c) == IF c = Unread THEN c ELSE <<0, c[3], c[2], c[1]>>

\* The word drawIcon puts on the screen for the word c of the bitmap.
Pixel(c) == IF mode.format = "BlueGreenRedReserved" THEN c ELSE flipColor(c)

\* The arguments of drawIcon (main.c:50-53).
offsetx == mode.height - mode.height \div 100 - 1
offsety == mode.width \div 20 - 1

\* imgBuffer after the copy, four bytes at a time, from the file's buffer.
Copied(img) ==
  [k \in 1 .. (img.imageSize + 3) \div 4 |->
     IF k \in DOMAIN img.data THEN img.data[k] ELSE Unread]

-----------------------------------------------------------------------------
(* The steps. *)

\* The copy reads behind the file's data or writes behind imgBuffer.
Overrun(img) == img.imageSize % 4 # 0 \/ img.imageSize \div 4 > Len(img.data)

\* loadBmp fails and nothing is drawn, or allocPool has no memory, or it copies
\* the image.  A height of zero divides by zero, if the compiler keeps the
\* unused quotient.
LoadIcon ==
  /\ pc = "start"
  /\ \/ pc' \in {"shell", "halt"} /\ UNCHANGED <<buffer, x, y, color>>
     \/ /\ buffer' = Copied(image)
        /\ x' = 0 /\ y' = image.height /\ color' = 1
        /\ \/ pc' = "icon"
           \/ (image.height = 0 \/ Overrun(image)) /\ pc' = "fault"
  /\ UNCHANGED <<mode, image, screen, square, commands>>

\* Mutant: the next word is not taken.
DrawIconStill ==
  /\ pc = "icon" /\ image.depth = 32 /\ y > 0 /\ x < image.width
  /\ screen' = Put(x + offsetx, y + offsety, Pixel(Black))
  /\ UNCHANGED <<pc, mode, image, buffer, x, y, color, square, commands>>

\* What *color reads: a word of imgBuffer, or what lies behind it.
NextColor == IF color \in DOMAIN buffer THEN buffer[color] ELSE Unread

\* Mutant: the inner loop runs once too often.
DrawIconWide ==
  /\ pc = "icon" /\ image.depth = 32 /\ y > 0 /\ x <= image.width
  /\ screen' = Put(x + offsetx, y + offsety, Pixel(NextColor))
  /\ color' = color + 1 /\ x' = x + 1
  /\ UNCHANGED <<pc, mode, image, buffer, y, square, commands>>

\* One iteration of the inner loop.
DrawIcon ==
  /\ pc = "icon" /\ image.depth = 32 /\ y > 0 /\ x < image.width
  /\ \/ /\ screen' = Put(x + offsetx, y + offsety, Pixel(NextColor))
        /\ color' = color + 1 /\ x' = x + 1
        /\ UNCHANGED pc
     \/ /\ Cell(x + offsetx, y + offsety) \notin FrameBuffer \/ color \notin DOMAIN buffer
        /\ pc' = "fault"
        /\ UNCHANGED <<screen, color, x>>
  /\ UNCHANGED <<mode, image, buffer, y, square, commands>>

\* The outer loop goes on to the row above.
IconRow ==
  /\ pc = "icon" /\ image.depth = 32 /\ y > 0 /\ x >= image.width
  /\ x' = 0 /\ y' = y - 1
  /\ UNCHANGED <<pc, mode, image, buffer, color, screen, square, commands>>

IconEnd ==
  /\ pc = "icon" /\ (image.depth # 32 \/ y = 0)
  /\ pc' = "shell"
  /\ UNCHANGED <<mode, image, buffer, x, y, color, screen, square, commands>>

\* The command `initgop`.
InitGop ==
  /\ pc = "shell" /\ commands < MaxCommands
  /\ commands' = commands + 1
  /\ pc' = "square" /\ square' = TRUE
  /\ UNCHANGED <<mode, image, buffer, x, y, color, screen>>

\* The loops over the square.
DrawSquare ==
  /\ pc = "square"
  /\ \/ /\ screen' = [a \in Addr |->
             IF \E px \in SquareX, py \in SquareY : a = Cell(px, py) THEN White ELSE screen[a]]
        /\ pc' = "shell"
     \/ /\ \E px \in SquareX, py \in SquareY : Cell(px, py) \notin FrameBuffer
        /\ pc' = "fault" /\ UNCHANGED screen
  /\ UNCHANGED <<mode, image, buffer, x, y, color, square, commands>>

Init ==
  /\ pc = "start"
  /\ mode \in Modes /\ image \in Images
  /\ buffer = <<>> /\ x = 0 /\ y = 0 /\ color = 1
  /\ screen = [a \in Addr |-> Black]
  /\ square = FALSE
  /\ commands = 0

Draw == LoadIcon \/ DrawIcon \/ IconRow \/ IconEnd \/ DrawSquare

Next == Draw \/ InitGop

Spec == Init /\ [][Next]_vars

\* The processor goes on drawing; nobody has to type a command.
FairSpec == Spec /\ WF_vars(Draw)

-----------------------------------------------------------------------------
(* Properties. *)

TypeOK ==
  /\ pc \in {"start", "icon", "shell", "square", "halt", "fault"}
  /\ mode \in Modes /\ image \in Images
  /\ buffer \in Seq(Colour \union {Unread})
  /\ x \in 0 .. image.width /\ y \in 0 .. image.height
  /\ color \in 1 .. image.width * image.height + 1
  /\ screen \in [Addr -> Colour \union {Unread}]
  /\ square \in BOOLEAN /\ commands \in Nat

\* The kind of bitmap that drawIcon is for: 32 bits for each pixel, and an
\* image size that says so, as boot/icon.bmp has.
WellFormed ==
  /\ image.depth = 32 /\ image.height > 0
  /\ image.imageSize = 4 * image.width * image.height
  /\ Len(image.data) = image.width * image.height

\* The icon has room on the screen.  offsetx is computed from the height
\* of the screen, so on a narrow screen it has not.
HasRoom ==
  /\ mode.width <= mode.scanLine /\ mode.scanLine * mode.height <= Word
  /\ offsetx + image.width <= mode.width
  /\ offsety + image.height < mode.height

SquareFits ==
  \A px \in SquareX, py \in SquareY : px < mode.width /\ py < mode.height

\* What a viewer should see in row r and column k of the screen: the bitmap,
\* whose last row is stored first, the right way up.
Expected(k, r) ==
  LET row == r - offsety - 1
      col == k - offsetx IN
  IF square /\ k \in SquareX /\ r \in SquareY THEN White
  ELSE IF row \in 0 .. image.height - 1 /\ col \in 0 .. image.width - 1
  THEN Pixel(image.data[(image.height - 1 - row) * image.width + col + 1])
  ELSE Black

\* The icon stands on the screen upright and in one piece, the square where
\* initgop puts it, and nothing else has changed: not the words of a scan line
\* that are not shown, and not the memory behind the framebuffer.
IconShown ==
  WellFormed /\ HasRoom /\ SquareFits /\ pc = "shell" /\ buffer # <<>> =>
    \A a \in Addr :
      LET k == a % mode.scanLine
          r == a \div mode.scanLine IN
      screen[a] = IF k < mode.width /\ r < mode.height THEN Expected(k, r) ELSE Black

\* The bitmap's header promises no more words than the file holds, and the
\* icon, if it is drawn, does not leave the framebuffer: not so with a height
\* that is negative, or one that does not fit on the screen.
Contained ==
  /\ image.height > 0 /\ ~ Overrun(image)
  /\ image.depth = 32 =>
       /\ image.width * image.height <= image.imageSize \div 4
       /\ \A px \in 0 .. image.width - 1, py \in 1 .. image.height :
            Cell(px + offsetx, py + offsety) \in FrameBuffer

\* Drawing the icon comes to an end whatever the bitmap holds: the boot gets to
\* the shell, or stops for lack of memory, and only an icon that reads or
\* writes where it should not (loadBmp.c:26-30,53-67) can stop it otherwise.
BootGoesOn == <>(pc \in {"shell", "halt"} \/ (pc = "fault" /\ ~ Contained))

\* The colours of the icon do not depend on the format of the screen, which
\* has red, green and blue in this order in its RedGreenBlueReserved format.
ColoursKept ==
  [][pc = "icon" /\ WellFormed /\ mode.format = "RedGreenBlueReserved" =>
       \A a \in Addr : screen'[a] # screen[a] =>
         \E k \in DOMAIN image.data :
           \A n \in 1 .. 3 : screen'[a][n] = image.data[k][4 - n]]_vars
=============================================================================
