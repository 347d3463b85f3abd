---------------------------- MODULE ScreenProofs ----------------------------
(* Proofs of the theorems about Screen: after each step of drawIcon the      *)
(* screen shows the words of the bitmap that are drawn by now, each at its   *)
(* place.                                                                    *)
EXTENDS Screen, TLAPS

-----------------------------------------------------------------------------
(* The inductive invariant.                                                 *)

\* The loop variables of drawIcon; the index of the next word follows them.
LoopInv ==
  /\ pc = "start" => buffer = <<>> /\ ~ square /\ screen = [a \in Addr |-> Black]
  /\ pc = "icon" => color = (image.height - y) * image.width + x + 1 /\ ~ square
  /\ pc = "square" => square

\* The kind of bitmap and of screen that IconShown is about.
Good == WellFormed /\ HasRoom /\ SquareFits

\* Row row and column col of the image are on the screen: drawIcon starts with
\* the last row and has x columns of row y - 1.
Done(row, col) == row >= y \/ (row = y - 1 /\ col < x)

\* What a viewer should see of the icon and the square so far.
SoFar(k, r) ==
  LET row == r - offsety - 1
      col == k - offsetx IN
  IF square /\ k \in SquareX /\ r \in SquareY THEN White
  ELSE IF /\ row \in 0 .. image.height - 1 /\ col \in 0 .. image.width - 1
          /\ Done(row, col)
  THEN Pixel(image.data[(image.height - 1 - row) * image.width + col + 1])
  ELSE Black

\* The word of the screen in row r and column k of the framebuffer.
WordShown(a, k, r) ==
  IF k < mode.width /\ r < mode.height
  THEN (pc = "square" /\ k \in SquareX /\ r \in SquareY) \/ screen[a] = SoFar(k, r)
  ELSE screen[a] = Black

PictureInv ==
  Good /\ buffer # <<>> =>
    /\ pc \in {"icon", "shell", "square"}
    /\ buffer = image.data
    /\ pc # "icon" => y = 0
    /\ pc = "square" => square
    /\ \A a \in Addr : WordShown(a, a % mode.scanLine, a \div mode.scanLine)

ScreenInv == TypeOK /\ LoopInv /\ PictureInv

-----------------------------------------------------------------------------
(* Numbers and types.                                                       *)

\* The quotient and the remainder of a.
LEMMA InLine ==
  ASSUME NEW s \in Nat \ {0}, NEW a \in Nat
  PROVE  a \div s \in Nat /\ a % s \in 0 .. s - 1 /\ a = s * (a \div s) + (a % s)
OBVIOUS

\* A product grows with its factor.
LEMMA Grows ==
  ASSUME NEW s \in Nat, NEW p \in Nat, NEW q \in Nat, p < q
  PROVE  s * p + s <= s * q
<1>1. q - p - 1 \in Nat /\ s * (q - p - 1) \in Nat
  OBVIOUS
<1>2. s * q = s * p + s + s * (q - p - 1)
  OBVIOUS
<1> QED
  BY <1>1, <1>2

\* A word has one place.
LEMMA OnePlace ==
  ASSUME NEW s \in Nat \ {0}, NEW q \in Nat, NEW r \in 0 .. s - 1
  PROVE  /\ s * q + r \in Nat
         /\ (s * q + r) \div s = q /\ (s * q + r) % s = r
<1> DEFINE a == s * q + r
<1>1. a \in Nat /\ s * q \in Nat
  OBVIOUS
<1>3. a = s * q + r
  OBVIOUS
<1> DEFINE p == a \div s
<1> HIDE DEF a
<1>2. p \in Nat /\ a % s \in 0 .. s - 1 /\ a = s * p + (a % s)
  BY <1>1, InLine
<1> HIDE DEF p
<1>7. s * p \in Nat
  BY <1>2
<1>4. ~ p < q /\ ~ q < p
  <2>1. p < q => s * p + s <= s * q
    BY <1>2, Grows
  <2>2. q < p => s * q + s <= s * p
    BY <1>2, Grows
  <2> QED
    BY <1>1, <1>2, <1>3, <1>7, <2>1, <2>2
<1>5. p = q
  BY <1>2, <1>4
<1>6. a % s = r
  BY <1>1, <1>2, <1>3, <1>5
<1> QED
  BY <1>1, <1>5, <1>6 DEF a, p

\* What the types of the file and of the mode say.
LEMMA Fields ==
  ASSUME TypeOK
  PROVE  /\ image.width \in Nat /\ image.height \in Nat /\ image.imageSize \in Nat
         /\ image.data \in Seq(Colour)
         /\ mode.width \in Nat /\ mode.height \in Nat /\ mode.scanLine \in Nat
         /\ Word \in Nat \ {0}
BY ScreenAssumption DEF TypeOK, Image, Mode

\* Flipped or not, a word stays a word.
LEMMA PixelType ==
  ASSUME NEW c \in Colour \union {Unread}
  PROVE  Pixel(c) \in Colour \union {Unread}
<1>1. ASSUME c # Unread PROVE <<0, c[3], c[2], c[1]>> \in Colour
  BY <1>1, ScreenAssumption DEF Colour
<1> QED
  BY <1>1 DEF Pixel, flipColor

\* The buffer holds words of the file, or what lay behind them.
LEMMA CopiedType ==
  ASSUME TypeOK
  PROVE  Copied(image) \in Seq(Colour \union {Unread})
<1> DEFINE n == (image.imageSize + 3) \div 4
<1>1. n \in Nat
  BY Fields
<1>2. \A k \in DOMAIN image.data : image.data[k] \in Colour
  BY Fields
<1> HIDE DEF n
<1>3. [k \in 1 .. n |-> IF k \in DOMAIN image.data THEN image.data[k] ELSE Unread]
        \in [1 .. n -> Colour \union {Unread}]
  BY <1>2
<1>4. \A f \in [1 .. n -> Colour \union {Unread}] : f \in Seq(Colour \union {Unread})
  BY <1>1
<1> QED
  BY <1>3, <1>4 DEF Copied, n

\* The copy of a well-formed file's image is the image.
LEMMA CopiedWhole ==
  ASSUME TypeOK, WellFormed
  PROVE  Copied(image) = image.data /\ ~ Overrun(image)
<1> DEFINE n == image.width * image.height
<1>1. n \in Nat /\ image.imageSize = 4 * n
  BY Fields, SMTT(40) DEF WellFormed
<1>2. image.data \in Seq(Colour) /\ Len(image.data) = n
  BY Fields DEF WellFormed
<1>3. (image.imageSize + 3) \div 4 = n
  <2> HIDE DEF n
  <2> QED
    BY <1>1
<1>5. ~ Overrun(image)
  <2> HIDE DEF n
  <2>1. image.imageSize % 4 = 0 /\ image.imageSize \div 4 = n
    BY <1>1
  <2> QED
    BY <1>2, <2>1 DEF Overrun
<1> HIDE DEF n
<1>4. image.data = [k \in 1 .. n |-> image.data[k]]
  BY <1>2
<1> QED
  BY <1>2, <1>3, <1>4, <1>5 DEF Copied

\* A small address is left alone.
LEMMA BelowWord ==
  ASSUME NEW w \in Nat \ {0}, NEW a \in 0 .. w - 1
  PROVE  a % w = a
OBVIOUS

\* Pixels of the screen are different words, and none lies behind the screen.
LEMMA OneCell ==
  ASSUME TypeOK, HasRoom, NEW px \in Nat, NEW py \in Nat, px < mode.width, py < mode.height
  PROVE  /\ mode.scanLine \in Nat \ {0}
         /\ Cell(px, py) \in Addr
         /\ Cell(px, py) % mode.scanLine = px /\ Cell(px, py) \div mode.scanLine = py
         /\ Cell(px, py) = mode.scanLine * py + px
         /\ Cell(px, py) \in FrameBuffer
<1> DEFINE s == mode.scanLine
<1>1. s \in Nat \ {0} /\ px \in 0 .. s - 1 /\ s * mode.height <= Word /\ mode.height \in Nat
  BY Fields DEF HasRoom
<1>2. s * py + px \in Nat /\ (s * py + px) \div s = py /\ (s * py + px) % s = px
  BY <1>1, OnePlace
<1>3. s * py + s <= s * mode.height /\ s * py \in Nat /\ s * mode.height \in Nat
  BY <1>1, Grows
<1>4. /\ s * py + px \in 0 .. Word - 1 /\ s * py \in 0 .. Word - 1
      /\ s * py + px \in 0 .. s * mode.height - 1
  <2> DEFINE u == s * py
             v == s * mode.height
  <2> HIDE DEF u, v
  <2>1. u \in Nat /\ v \in Nat /\ u + s <= v /\ v <= Word
    BY <1>1, <1>3 DEF u, v
  <2>2. u + px \in 0 .. Word - 1 /\ u \in 0 .. Word - 1 /\ u + px \in 0 .. v - 1
    BY <1>1, <2>1, Fields
  <2> QED
    BY <2>2 DEF u, v
<1>5. Cell(px, py) = s * py + px
  <2> DEFINE u == s * py
  <2>1. u \in 0 .. Word - 1 /\ Word \in Nat \ {0}
    BY <1>4, Fields
  <2> HIDE DEF u
  <2>2. u % Word = u
    BY <2>1, BelowWord
  <2> QED
    BY <2>2 DEF u, Cell
<1> QED
  BY <1>1, <1>2, <1>4, <1>5, Fields DEF Addr, FrameBuffer

\* The word in column a % scanLine and row a \div scanLine is a itself.
LEMMA CellOf ==
  ASSUME TypeOK, HasRoom, NEW a \in Addr,
         a % mode.scanLine < mode.width, a \div mode.scanLine < mode.height,
         mode.scanLine # 0
  PROVE  /\ Cell(a % mode.scanLine, a \div mode.scanLine) = a
         /\ a % mode.scanLine \in Nat /\ a \div mode.scanLine \in Nat
<1>1. a \in Nat /\ mode.scanLine \in Nat \ {0}
  BY Fields DEF Addr
<1>2. /\ a \div mode.scanLine \in Nat /\ a % mode.scanLine \in 0 .. mode.scanLine - 1
      /\ a = mode.scanLine * (a \div mode.scanLine) + (a % mode.scanLine)
  BY <1>1, InLine
<1>3. a % mode.scanLine \in Nat
  BY <1>1, <1>2
<1> QED
  BY <1>2, <1>3, OneCell

-----------------------------------------------------------------------------
(* The types of the steps.                                                  *)

\* While drawIcon draws, the next word belongs to the image.
LEMMA NextWord ==
  ASSUME TypeOK, LoopInv, pc = "icon", y > 0, x < image.width
  PROVE  color \in 1 .. image.width * image.height
<1> DEFINE w == image.width
           h == image.height
           d == h - y
<1>0. w \in Nat /\ h \in Nat /\ x \in 0 .. w /\ y \in 0 .. h
  <2>1. x \in 0 .. w /\ y \in 0 .. h
    BY DEF TypeOK
  <2> QED
    BY <2>1, Fields
<1>1. x \in Nat /\ d \in Nat /\ d < h /\ x < w
  <2> HIDE DEF w, h
  <2>1. x < w
    BY DEF w
  <2> QED
    BY <1>0, <2>1
<1>2. w * d + w <= w * h /\ w * d \in Nat /\ w * h \in Nat
  BY <1>0, <1>1, Grows
<1>3. color = w * d + x + 1
  BY <1>0, <1>1 DEF LoopInv
<1> HIDE DEF w, h, d
<1> QED
  BY <1>0, <1>1, <1>2, <1>3 DEF w, h

LEMMA InitHolds == Init => ScreenInv
<1> SUFFICES ASSUME Init PROVE ScreenInv
  OBVIOUS
<1>1. image \in Image /\ mode \in Mode
  BY ScreenAssumption DEF Init
<1>2. image.width \in Nat /\ image.height \in Nat /\ image.width * image.height \in Nat
  BY <1>1 DEF Image
<1>3. screen \in [Addr -> Colour \union {Unread}]
  BY ScreenAssumption DEF Init
<1>4. 1 \in 1 .. image.width * image.height + 1
  BY <1>2
<1>5. x \in 0 .. image.width /\ y \in 0 .. image.height
  BY <1>2 DEF Init
<1>6. buffer \in Seq(Colour \union {Unread})
  BY DEF Init
<1>7. TypeOK
  BY <1>3, <1>4, <1>5, <1>6 DEF Init, TypeOK
<1> QED
  BY <1>7 DEF Init, LoopInv, PictureInv, ScreenInv

\* Where the header and the screen are as before, so is what is said of them.
LEMMA SameFile ==
  ASSUME UNCHANGED <<mode, image>>
  PROVE  (Good' <=> Good) /\ \A c : Pixel(c)' = Pixel(c)
BY DEF Good, WellFormed, HasRoom, SquareFits, offsetx, offsety, Pixel, flipColor

\* A row's last word is followed by the first of the row above.
LEMMA RowAbove ==
  ASSUME NEW h \in Nat, NEW w \in Nat, NEW r \in Nat
  PROVE  (h - r) * w + w + 1 = (h - (r - 1)) * w + 0 + 1
OBVIOUS

LEMMA TypeStep ==
  ASSUME ScreenInv, [Next]_vars
  PROVE  TypeOK' /\ LoopInv'
<1> USE DEF ScreenInv
<1>1. CASE LoadIcon
  <2>1. 1 \in 1 .. image.width * image.height + 1
    BY Fields
  <2>2. image.height \in 0 .. image.height /\ 0 \in 0 .. image.width
    BY Fields
  <2>3. TypeOK'
    BY <1>1, <2>1, <2>2, CopiedType DEF LoadIcon, TypeOK
  <2>4. (image.height - image.height) * image.width + 0 + 1 = 1
    BY Fields
  <2> QED
    BY <1>1, <2>3, <2>4 DEF LoadIcon, LoopInv
<1>2. CASE DrawIcon /\ pc' = pc
  <2>1. color \in 1 .. image.width * image.height /\ image.width * image.height \in Nat
    BY <1>2, NextWord, Fields DEF DrawIcon
  <2>2. color + 1 \in 1 .. image.width * image.height + 1
    BY <2>1
  <2>3. x + 1 \in 0 .. image.width
    BY <1>2, Fields, SMTT(40) DEF DrawIcon, TypeOK
  <2>4. \A c \in Colour \union {Unread} : Pixel(c) \in Colour \union {Unread}
    BY PixelType
  <2>5. NextColor \in Colour \union {Unread}
    BY DEF TypeOK, NextColor
  <2>5a. /\ screen' = Put(x + offsetx, y + offsety, Pixel(NextColor))
         /\ color' = color + 1 /\ x' = x + 1
         /\ UNCHANGED <<pc, mode, image, buffer, y, square, commands>>
    BY <1>2 DEF DrawIcon
  <2>6. screen' \in [Addr -> Colour \union {Unread}]
    BY <2>4, <2>5, <2>5a DEF Put, TypeOK
  <2>7. TypeOK'
    BY <2>2, <2>3, <2>5a, <2>6 DEF TypeOK
  <2>8. color + 1 = (image.height - y) * image.width + (x + 1) + 1
    <3> DEFINE u == (image.height - y) * image.width
    <3>1. color = u + x + 1 /\ u \in Int /\ x \in Nat
      BY <1>2, Fields, SMTT(40) DEF DrawIcon, LoopInv, TypeOK
    <3> HIDE DEF u
    <3>2. color + 1 = u + (x + 1) + 1
      BY <3>1
    <3> QED
      BY <3>2 DEF u
  <2> QED
    BY <1>2, <2>5a, <2>7, <2>8 DEF DrawIcon, LoopInv
<1>2a. CASE DrawIcon /\ pc' = "fault"
  <2>1. UNCHANGED <<mode, image, buffer, x, y, color, screen, square, commands>>
    BY <1>2a DEF DrawIcon
  <2> QED
    BY <1>2a, <2>1 DEF TypeOK, LoopInv
<1>3. CASE IconRow
  <2>1. x = image.width /\ y \in Nat /\ y - 1 \in 0 .. image.height /\ 0 \in 0 .. image.width
    BY <1>3, Fields, SMTT(40) DEF IconRow, TypeOK
  <2>2. TypeOK'
    BY <1>3, <2>1 DEF IconRow, TypeOK
  <2>3. color = (image.height - (y - 1)) * image.width + 0 + 1
    BY <1>3, <2>1, RowAbove, Fields DEF IconRow, LoopInv
  <2> QED
    BY <1>3, <2>2, <2>3 DEF IconRow, LoopInv
<1>4. CASE IconEnd
  BY <1>4 DEF IconEnd, TypeOK, LoopInv
<1>5. CASE DrawSquare
  <2>1. screen' \in [Addr -> Colour \union {Unread}]
    BY <1>5, ScreenAssumption DEF DrawSquare, TypeOK
  <2> QED
    BY <1>5, <2>1 DEF DrawSquare, TypeOK, LoopInv
<1>6. CASE InitGop
  BY <1>6 DEF InitGop, TypeOK, LoopInv
<1>7. CASE UNCHANGED vars
  BY <1>7 DEF vars, TypeOK, LoopInv
<1> QED
  BY <1>1, <1>2, <1>2a, <1>3, <1>4, <1>5, <1>6, <1>7 DEF Next, Draw, DrawIcon

-----------------------------------------------------------------------------
(* The picture, step by step.                                               *)

\* The icon's place: the column and the row of each of its pixels are on the
\* screen.  A screen of less than 20 columns shows the icon from row 0 on.
LEMMA Room ==
  ASSUME TypeOK, HasRoom, WellFormed
  PROVE  /\ offsetx \in Int /\ offsety \in Int
         /\ offsetx >= 0
         /\ offsety >= -1
         /\ mode.height > 0
         /\ image.width # 0 => mode.scanLine \in Nat \ {0}
<1>1. mode.width \in Nat /\ mode.height \in Nat /\ image.width \in Nat /\ image.height \in Nat
      /\ mode.scanLine \in Nat
  BY Fields
<1>2. offsetx \in Int /\ offsety \in Int /\ offsety >= -1
  BY <1>1 DEF offsetx, offsety
<1>3. mode.height > 0
  BY <1>1, <1>2 DEF HasRoom, WellFormed
<1>4. offsetx >= 0
  BY <1>1, <1>3 DEF offsetx
<1>5. image.width # 0 => mode.scanLine # 0
  BY <1>1, <1>2, <1>4 DEF HasRoom
<1> QED
  BY <1>1, <1>2, <1>3, <1>4, <1>5

\* An image with a word has a column.
LEMMA Columns ==
  ASSUME TypeOK, WellFormed, image.data # <<>>
  PROVE  image.width # 0
<1>1. image.width = 0 => image.width * image.height = 0
  BY Fields
<1>2. Len(image.data) # 0
  BY Fields
<1> QED
  BY <1>1, <1>2 DEF WellFormed

\* What a step leaves alone of the premises of PictureInv.
LEMMA LoadPicture ==
  ASSUME ScreenInv, LoadIcon
  PROVE  PictureInv'
<1>1. mode' = mode /\ image' = image /\ screen' = screen /\ square' = square
  BY DEF LoadIcon
<1>2. buffer = <<>> /\ ~ square /\ screen = [a \in Addr |-> Black]
  BY DEF ScreenInv, LoopInv, LoadIcon
<1> SUFFICES ASSUME Good', buffer' # <<>>
             PROVE  /\ pc' \in {"icon", "shell", "square"}
                    /\ buffer' = image'.data
                    /\ pc' # "icon" => y' = 0
                    /\ pc' = "square" => square'
                    /\ \A a \in Addr : WordShown(a, a % mode.scanLine, a \div mode.scanLine)'
  BY <1>1 DEF PictureInv
<1>3. Good /\ TypeOK /\ image.height # 0
  BY <1>1, SameFile DEF ScreenInv, Good, WellFormed
<1>4. pc' = "icon" /\ buffer' = image.data /\ y' = image.height /\ x' = 0
  BY <1>2, <1>3, CopiedWhole DEF LoadIcon, Good
<1>5. ASSUME NEW a \in Addr, NEW k, NEW r PROVE WordShown(a, k, r)'
  <2>1. screen'[a] = Black
    BY <1>1, <1>2
  <2>2. SoFar(k, r)' = Black
    <3>1. ASSUME NEW row \in 0 .. image.height - 1, NEW col \in 0 .. image.width - 1
          PROVE  ~ Done(row, col)'
      BY <1>4, Fields, <1>3 DEF Done
    <3> QED
      BY <1>1, <1>2, <3>1 DEF SoFar
  <2> QED
    BY <2>1, <2>2 DEF WordShown
<1> QED
  BY <1>1, <1>4, <1>5

\* drawIcon puts the next word where it belongs.
LEMMA DrawPicture ==
  ASSUME ScreenInv, DrawIcon
  PROVE  PictureInv'
<1>1. mode' = mode /\ image' = image /\ buffer' = buffer /\ square' = square
      /\ y' = y /\ pc = "icon" /\ y > 0 /\ x < image.width
  BY DEF DrawIcon
<1> SUFFICES ASSUME Good', buffer' # <<>>
             PROVE  /\ buffer' = image'.data /\ pc' = pc
                    /\ \A a \in Addr : WordShown(a, a % mode.scanLine, a \div mode.scanLine)'
  BY <1>1 DEF PictureInv
<1>2. Good /\ buffer # <<>> /\ TypeOK /\ LoopInv /\ HasRoom /\ WellFormed
  BY <1>1, SameFile DEF ScreenInv, Good
<1>3. /\ buffer = image.data /\ ~ square
      /\ \A a \in Addr : WordShown(a, a % mode.scanLine, a \div mode.scanLine)
  BY <1>1, <1>2 DEF ScreenInv, PictureInv, LoopInv
<1>0. /\ x \in Nat /\ y \in Nat /\ y <= image.height
      /\ offsetx \in Nat /\ offsety \in Int /\ offsety >= -1
      /\ image.width \in Nat /\ image.height \in Nat /\ mode.width \in Nat /\ mode.height \in Nat
      /\ offsetx + image.width <= mode.width /\ offsety + image.height < mode.height
  <2>1. x \in Nat /\ y \in Nat /\ y <= image.height
    BY <1>2, Fields DEF TypeOK
  <2>2. offsetx \in Nat /\ offsety \in Int /\ offsety >= -1
    BY <1>2, Room
  <2>3. offsetx + image.width <= mode.width /\ offsety + image.height < mode.height
    BY <1>2 DEF HasRoom
  <2> QED
    BY <1>2, <2>1, <2>2, <2>3, Fields
<1> DEFINE k0 == x + offsetx
           r0 == y + offsety
<1>4. /\ k0 \in Nat /\ k0 < mode.width /\ r0 \in Nat /\ r0 < mode.height
      /\ r0 - offsety - 1 = y - 1 /\ k0 - offsetx = x
      /\ y - 1 \in 0 .. image.height - 1 /\ x \in 0 .. image.width - 1
  <2>1. x < image.width /\ y > 0
    BY <1>1
  <2>2. k0 \in Nat /\ k0 < mode.width /\ k0 - offsetx = x /\ x \in 0 .. image.width - 1
    BY <1>0, <2>1
  <2>3. r0 \in Nat /\ r0 < mode.height /\ r0 - offsety - 1 = y - 1
    BY <1>0, <2>1
  <2>4. y - 1 \in 0 .. image.height - 1
    BY <1>0, <2>1
  <2> QED
    BY <2>2, <2>3, <2>4
<1>5. /\ Cell(k0, r0) \in Addr /\ Cell(k0, r0) \in FrameBuffer /\ mode.scanLine \in Nat \ {0}
      /\ Cell(k0, r0) % mode.scanLine = k0 /\ Cell(k0, r0) \div mode.scanLine = r0
  BY <1>2, <1>4, OneCell
<1>6. color = (image.height - 1 - (y - 1)) * image.width + x + 1 /\ color \in DOMAIN image.data
  <2>1. image.height - 1 - (y - 1) = image.height - y
    BY <1>1, <1>2, Fields DEF TypeOK
  <2>2. image.width * image.height = Len(image.data)
    BY <1>2 DEF WellFormed
  <2>3. color \in 1 .. image.width * image.height
    BY <1>1, <1>2, NextWord
  <2>4. color \in DOMAIN image.data
    BY <1>2, <2>2, <2>3, Fields
  <2> QED
    BY <1>1, <1>2, <2>1, <2>4 DEF LoopInv
<1>7. /\ screen' = [screen EXCEPT ![Cell(k0, r0)] = Pixel(image.data[color])]
      /\ pc' = pc /\ x' = x + 1
  BY <1>3, <1>5, <1>6 DEF DrawIcon, Put, NextColor
<1>8. ASSUME NEW a \in Addr
      PROVE  WordShown(a, a % mode.scanLine, a \div mode.scanLine)'
  <2> DEFINE k == a % mode.scanLine
             r == a \div mode.scanLine
  <2>1. k \in Nat /\ r \in Nat
    <3>1. a \in Nat
      BY <1>2, Fields DEF Addr
    <3>2. k \in 0 .. mode.scanLine - 1 /\ r \in Nat
      BY <1>5, <3>1, InLine
    <3> QED
      BY <1>5, <3>2
  <2>2. WordShown(a, k, r)
    BY <1>3
  <2>3. CASE a = Cell(k0, r0)
    <3>1. k = k0 /\ r = r0
      BY <1>5, <2>3
    <3>2. screen'[a] = Pixel(image.data[color])
      BY <1>2, <1>7, <2>3 DEF TypeOK
    <3>3. SoFar(k, r)' = Pixel(image.data[color])
      <4> DEFINE row == r - offsety - 1
                 col == k - offsetx
      <4>1. row = y - 1 /\ col = x
        BY <1>4, <3>1
      <4>2. offsetx' = offsetx /\ offsety' = offsety
        BY <1>1 DEF offsetx, offsety
      <4>3. Done(row, col)'
        BY <1>0, <1>1, <1>7, <4>1, <4>2, <2>1 DEF Done
      <4>4. \A c : Pixel(c)' = Pixel(c)
        BY <1>1, SameFile
      <4> QED
        BY <1>1, <1>3, <1>4, <1>6, <4>1, <4>2, <4>3, <4>4 DEF SoFar
    <3> QED
      BY <1>1, <1>4, <1>7, <3>1, <3>2, <3>3 DEF WordShown
  <2>4. CASE a # Cell(k0, r0)
    <3>1. screen'[a] = screen[a]
      BY <1>2, <1>7, <2>4 DEF TypeOK
    <3>2. ~ (k < mode.width /\ r < mode.height) => screen[a] = Black
      BY <2>2 DEF WordShown
    <3>3. ASSUME k < mode.width, r < mode.height PROVE screen[a] = SoFar(k, r)'
      <4>1. Cell(k, r) = a
        BY <1>2, <1>5, <3>3, CellOf
      <4>2. ~ (k = k0 /\ r = r0)
        BY <4>1, <2>4
      <4>3. screen[a] = SoFar(k, r)
        BY <1>1, <2>2, <3>3 DEF WordShown
      <4>4. SoFar(k, r)' = SoFar(k, r)
        <5>1. offsetx' = offsetx /\ offsety' = offsety
          BY <1>1 DEF offsetx, offsety
        <5>2. \A c : Pixel(c)' = Pixel(c)
          BY <1>1, SameFile
        <5> DEFINE row == r - offsety - 1
                   col == k - offsetx
        <5>3. Done(row, col)' <=> Done(row, col)
          <6>1. ~ (row = y - 1 /\ col = x)
            <7> HIDE DEF k, r
            <7>1. ASSUME row = y - 1 PROVE r = r0
              BY <1>0, <2>1, <7>1
            <7>2. ASSUME col = x PROVE k = k0
              BY <1>0, <2>1, <7>2
            <7> QED
              BY <4>2, <7>1, <7>2
          <6>2. row \in Int /\ col \in Int /\ x \in Nat /\ y \in Nat
            BY <1>0, <2>1
          <6>3. row' = row /\ col' = col
            BY <1>1, <5>1
          <6> HIDE DEF row, col
          <6> QED
            BY <1>1, <1>7, <6>1, <6>2, <6>3 DEF Done
        <5> QED
          BY <1>1, <1>3, <5>1, <5>2, <5>3 DEF SoFar
      <4> QED
        BY <4>3, <4>4
    <3> QED
      BY <1>1, <1>7, <3>1, <3>2, <3>3 DEF WordShown
  <2> QED
    BY <2>3, <2>4
<1> QED
  BY <1>1, <1>3, <1>7, <1>8

\* A new row changes nothing on the screen: the words drawn are the same.
LEMMA RowPicture ==
  ASSUME ScreenInv, IconRow
  PROVE  PictureInv'
<1>1. mode' = mode /\ image' = image /\ buffer' = buffer /\ pc' = pc /\ square' = square
      /\ screen' = screen /\ y' = y - 1 /\ x' = 0 /\ pc = "icon" /\ x >= image.width
  BY DEF IconRow
<1> SUFFICES ASSUME Good', buffer' # <<>>
             PROVE  /\ buffer' = image'.data
                    /\ \A a \in Addr : WordShown(a, a % mode.scanLine, a \div mode.scanLine)'
  BY <1>1 DEF PictureInv
<1>2. Good /\ buffer # <<>> /\ TypeOK
  BY <1>1, SameFile DEF ScreenInv
<1>3. /\ buffer = image.data
      /\ \A a \in Addr : WordShown(a, a % mode.scanLine, a \div mode.scanLine)
  BY <1>1, <1>2 DEF ScreenInv, PictureInv
<1>4. x = image.width /\ image.width \in Nat /\ image.height \in Nat /\ y \in Nat
  BY <1>1, <1>2, Fields DEF TypeOK
<1>5. offsetx' = offsetx /\ offsety' = offsety
  BY <1>1 DEF offsetx, offsety
<1>6. \A c : Pixel(c)' = Pixel(c)
  BY <1>1, SameFile
<1>7. ASSUME NEW k, NEW r PROVE SoFar(k, r)' = SoFar(k, r)
  <2>1. ASSUME NEW row \in 0 .. image.height - 1, NEW col \in 0 .. image.width - 1
        PROVE  Done(row, col)' <=> Done(row, col)
    BY <1>1, <1>4 DEF Done
  <2> QED
    BY <1>1, <1>5, <1>6, <2>1 DEF SoFar
<1>8. ASSUME NEW a \in Addr, NEW k, NEW r, WordShown(a, k, r) PROVE WordShown(a, k, r)'
  BY <1>1, <1>7, <1>8 DEF WordShown
<1> QED
  BY <1>1, <1>3, <1>8

\* The loop of drawIcon ends after the first row of the image.
LEMMA EndPicture ==
  ASSUME ScreenInv, IconEnd
  PROVE  PictureInv'
<1>1. mode' = mode /\ image' = image /\ buffer' = buffer /\ pc' = "shell" /\ square' = square
      /\ screen' = screen /\ y' = y /\ x' = x /\ pc = "icon" /\ (image.depth # 32 \/ y = 0)
  BY DEF IconEnd
<1> SUFFICES ASSUME Good', buffer' # <<>>
             PROVE  /\ buffer' = image'.data /\ y' = 0
                    /\ \A a \in Addr : WordShown(a, a % mode.scanLine, a \div mode.scanLine)'
  BY <1>1 DEF PictureInv
<1>2. Good /\ buffer # <<>>
  BY <1>1, SameFile
<1>3. /\ buffer = image.data
      /\ \A a \in Addr : WordShown(a, a % mode.scanLine, a \div mode.scanLine)
  BY <1>1, <1>2 DEF ScreenInv, PictureInv
<1>4. y = 0
  BY <1>1, <1>2 DEF Good, WellFormed
<1>5. offsetx' = offsetx /\ offsety' = offsety
  BY <1>1 DEF offsetx, offsety
<1>6. \A c : Pixel(c)' = Pixel(c)
  BY <1>1, SameFile
<1>7. ASSUME NEW k, NEW r PROVE SoFar(k, r)' = SoFar(k, r)
  BY <1>1, <1>5, <1>6 DEF SoFar, Done
<1>8. ASSUME NEW a \in Addr, NEW k, NEW r, WordShown(a, k, r) PROVE WordShown(a, k, r)'
  BY <1>1, <1>7, <1>8 DEF WordShown
<1> QED
  BY <1>1, <1>3, <1>4, <1>8

\* From the command on, the words of the square are free to change.
LEMMA CommandPicture ==
  ASSUME ScreenInv, InitGop
  PROVE  PictureInv'
<1>1. mode' = mode /\ image' = image /\ buffer' = buffer /\ pc' = "square" /\ square'
      /\ screen' = screen /\ y' = y /\ x' = x /\ pc = "shell"
  BY DEF InitGop
<1> SUFFICES ASSUME Good', buffer' # <<>>
             PROVE  /\ buffer' = image'.data /\ y' = 0
                    /\ \A a \in Addr : WordShown(a, a % mode.scanLine, a \div mode.scanLine)'
  BY <1>1 DEF PictureInv
<1>2. Good /\ buffer # <<>>
  BY <1>1, SameFile
<1>3. /\ buffer = image.data /\ y = 0
      /\ \A a \in Addr : WordShown(a, a % mode.scanLine, a \div mode.scanLine)
  BY <1>1, <1>2 DEF ScreenInv, PictureInv
<1>5. offsetx' = offsetx /\ offsety' = offsety
  BY <1>1 DEF offsetx, offsety
<1>6. \A c : Pixel(c)' = Pixel(c)
  BY <1>1, SameFile
<1>7. ASSUME NEW k, NEW r, ~ (k \in SquareX /\ r \in SquareY) PROVE SoFar(k, r)' = SoFar(k, r)
  BY <1>1, <1>5, <1>6, <1>7 DEF SoFar, Done
<1>8. ASSUME NEW a \in Addr, NEW k, NEW r, WordShown(a, k, r) PROVE WordShown(a, k, r)'
  BY <1>1, <1>7, <1>8 DEF WordShown
<1> QED
  BY <1>1, <1>3, <1>8

\* The words that turn white are those of the square.
LEMMA SquarePicture ==
  ASSUME ScreenInv, DrawSquare
  PROVE  PictureInv'
<1>1. mode' = mode /\ image' = image /\ buffer' = buffer /\ square' = square
      /\ y' = y /\ x' = x /\ pc = "square"
  BY DEF DrawSquare
<1> SUFFICES ASSUME Good', buffer' # <<>>
             PROVE  /\ buffer' = image'.data /\ y' = 0 /\ pc' = "shell"
                    /\ \A a \in Addr : WordShown(a, a % mode.scanLine, a \div mode.scanLine)'
  BY <1>1 DEF PictureInv
<1>2. Good /\ buffer # <<>> /\ TypeOK /\ HasRoom /\ WellFormed
  BY <1>1, SameFile DEF ScreenInv, Good
<1>3. /\ buffer = image.data /\ y = 0 /\ square
      /\ \A a \in Addr : WordShown(a, a % mode.scanLine, a \div mode.scanLine)
  BY <1>1, <1>2 DEF ScreenInv, PictureInv
<1>4. mode.scanLine # 0
  BY <1>2, <1>3, Columns, Room
<1>4a. /\ pc' = "shell"
       /\ screen' = [a \in Addr |->
            IF \E px \in SquareX, py \in SquareY : a = Cell(px, py) THEN White ELSE screen[a]]
  <2>1. ASSUME NEW px \in SquareX, NEW py \in SquareY PROVE Cell(px, py) \in FrameBuffer
    <3>1. px \in Nat /\ py \in Nat /\ px < mode.width /\ py < mode.height
      BY <1>2, ScreenAssumption DEF Good, SquareFits
    <3> QED
      BY <1>2, <3>1, OneCell
  <2> QED
    BY <2>1 DEF DrawSquare
<1>5. offsetx' = offsetx /\ offsety' = offsety
  BY <1>1 DEF offsetx, offsety
<1>6. \A c : Pixel(c)' = Pixel(c)
  BY <1>1, SameFile
<1>7. ASSUME NEW k, NEW r PROVE SoFar(k, r)' = SoFar(k, r)
  BY <1>1, <1>5, <1>6 DEF SoFar, Done
<1>8. ASSUME NEW a \in Addr
      PROVE  WordShown(a, a % mode.scanLine, a \div mode.scanLine)'
  <2> DEFINE k == a % mode.scanLine
             r == a \div mode.scanLine
             inside == k < mode.width /\ r < mode.height /\ k \in SquareX /\ r \in SquareY
  <2>1. inside <=> \E px \in SquareX, py \in SquareY : a = Cell(px, py)
    <3>1. ASSUME inside PROVE a = Cell(k, r)
      BY <1>2, <1>4, <3>1, CellOf
    <3>2. ASSUME NEW px \in SquareX, NEW py \in SquareY, a = Cell(px, py) PROVE inside
      <4>1. px \in Nat /\ py \in Nat /\ px < mode.width /\ py < mode.height
        BY <1>2, ScreenAssumption DEF Good, SquareFits
      <4>2. k = px /\ r = py
        BY <1>2, <3>2, <4>1, OneCell
      <4> QED
        BY <4>1, <4>2
    <3> QED
      BY <3>1, <3>2
  <2>2. screen'[a] = IF inside THEN White ELSE screen[a]
    BY <1>4a, <2>1
  <2>3. WordShown(a, k, r)
    BY <1>3
  <2>4. inside => SoFar(k, r) = White
    BY <1>3 DEF SoFar
  <2> HIDE DEF k, r
  <2>5. WordShown(a, k, r) => (IF k < mode.width /\ r < mode.height
                               THEN screen'[a] = SoFar(k, r) ELSE screen'[a] = Black)
    BY <2>2, <2>4 DEF WordShown
  <2>6. k' = k /\ r' = r
    BY <1>1 DEF k, r
  <2>7. WordShown(a, k, r)'
    BY <1>1, <1>4a, <1>7, <2>3, <2>5, <2>6 DEF WordShown
  <2> QED
    BY <2>7 DEF k, r
<1> QED
  BY <1>1, <1>3, <1>4a, <1>8

LEMMA ScreenStep == ScreenInv /\ [Next]_vars => ScreenInv'
<1> SUFFICES ASSUME ScreenInv, [Next]_vars PROVE ScreenInv'
  OBVIOUS
<1>1. TypeOK' /\ LoopInv'
  BY TypeStep
<1>2. PictureInv'
  <2>1. CASE UNCHANGED vars
    <3>1. mode' = mode /\ image' = image /\ buffer' = buffer /\ pc' = pc /\ square' = square
          /\ screen' = screen /\ y' = y /\ x' = x
      BY <2>1 DEF vars
    <3>2. Good' <=> Good
      BY <3>1, SameFile
    <3>3. \A c : Pixel(c)' = Pixel(c)
      BY <3>1, SameFile
    <3>4. ASSUME NEW k, NEW r PROVE SoFar(k, r)' = SoFar(k, r)
      BY <3>1, <3>3 DEF SoFar, Done, offsetx, offsety
    <3>5. ASSUME NEW a \in Addr, NEW k, NEW r, WordShown(a, k, r) PROVE WordShown(a, k, r)'
      BY <3>1, <3>4, <3>5 DEF WordShown
    <3> QED
      BY <3>1, <3>2, <3>5 DEF ScreenInv, PictureInv
  <2> QED
    BY <2>1, LoadPicture, DrawPicture, RowPicture, EndPicture, CommandPicture, SquarePicture
    DEF Next, Draw
<1> QED
  BY <1>1, <1>2 DEF ScreenInv

LEMMA ScreenAlways == Spec => []ScreenInv
BY InitHolds, ScreenStep, PTL DEF Spec

-----------------------------------------------------------------------------
(* The theorems.                                                            *)

\* The variables of the boot loader's drawing code keep their types: the loop
\* variables of drawIcon (bmp/loadBmp.c) stay within the image, and the index
\* of the next word goes at most one past it, whatever the header says of the
\* image's size.
THEOREM TypeCorrect == Spec => []TypeOK
<1>1. ScreenInv => TypeOK
  BY DEF ScreenInv
<1> QED
  BY <1>1, ScreenAlways, PTL

\* For every well-formed bitmap and every screen it has room on, the icon that
\* drawIcon (bmp/loadBmp.c) draws stands upright and in one piece at its place
\* in the framebuffer, the square of `initgop` (gop.c) where it belongs, and
\* no other word has changed: not one of the padding of a scan line, and not
\* one behind the framebuffer.
THEOREM IconIsShown == Spec => []IconShown
<1>1. ScreenInv => IconShown
  <2> SUFFICES ASSUME ScreenInv, WellFormed, HasRoom, SquareFits, pc = "shell", buffer # <<>>,
                      NEW a \in Addr
               PROVE  LET k == a % mode.scanLine
                          r == a \div mode.scanLine
                      IN  screen[a] = IF k < mode.width /\ r < mode.height
                                      THEN Expected(k, r) ELSE Black
    BY DEF IconShown
  <2>1. y = 0 /\ WordShown(a, a % mode.scanLine, a \div mode.scanLine)
    BY DEF ScreenInv, PictureInv, Good
  <2>2. image.height \in Nat
    BY Fields DEF ScreenInv
  <2>3. ASSUME NEW k, NEW r PROVE SoFar(k, r) = Expected(k, r)
    <3>1. \A row \in 0 .. image.height - 1, col \in 0 .. image.width - 1 : Done(row, col)
      BY <2>1, <2>2 DEF Done
    <3> QED
      BY <3>1 DEF SoFar, Expected
  <2> QED
    BY <2>1, <2>3 DEF WordShown
<1> QED
  BY <1>1, ScreenAlways, PTL

-----------------------------------------------------------------------------
(* What stops the boot.                                                     *)

\* While the icon is drawn, imgBuffer is the copy of the file's image; and
\* before initgop only an icon that is not contained has stopped the boot.
FaultInv ==
  /\ pc = "icon" => buffer = Copied(image)
  /\ pc = "fault" => ~ Contained \/ square

LEMMA FaultStep == ScreenInv /\ FaultInv /\ [Next]_vars => FaultInv'
<1> SUFFICES ASSUME ScreenInv, FaultInv, [Next]_vars PROVE FaultInv'
  OBVIOUS
<1>1. UNCHANGED <<mode, image>>
  BY DEF Next, Draw, LoadIcon, DrawIcon, IconRow, IconEnd, DrawSquare, InitGop, vars
<1>2. /\ Contained' <=> Contained
      /\ Copied(image)' = Copied(image)
  BY <1>1 DEF Contained, Overrun, Cell, FrameBuffer, offsetx, offsety, Copied
<1>3. CASE LoadIcon
  BY <1>1, <1>2, <1>3 DEF LoadIcon, FaultInv, Contained
<1>4. CASE DrawIcon
  <2>1. TypeOK /\ LoopInv /\ pc = "icon" /\ image.depth = 32 /\ y > 0 /\ x < image.width
    BY <1>4 DEF ScreenInv, DrawIcon
  <2>2. ASSUME Contained
        PROVE  Cell(x + offsetx, y + offsety) \in FrameBuffer /\ color \in DOMAIN buffer
    <3>1. x \in 0 .. image.width - 1 /\ y \in 1 .. image.height
      BY <2>1, Fields DEF TypeOK
    <3>2. color \in 1 .. image.width * image.height /\ image.width * image.height \in Nat
      BY <2>1, NextWord, Fields
    <3>3. /\ image.width * image.height <= image.imageSize \div 4
          /\ image.imageSize % 4 = 0 /\ image.imageSize \in Nat
      BY <2>1, <2>2, Fields DEF Contained, Overrun
    <3>4. (image.imageSize + 3) \div 4 >= image.imageSize \div 4
      BY <3>3
    <3>5. DOMAIN buffer = 1 .. (image.imageSize + 3) \div 4
      BY <2>1 DEF FaultInv, Copied
    <3>6. color \in DOMAIN buffer
      <4> DEFINE n == image.width * image.height
                 m == image.imageSize \div 4
                 l == (image.imageSize + 3) \div 4
      <4>1. n \in Nat /\ m \in Int /\ l \in Int /\ color \in 1 .. n /\ n <= m /\ m <= l
        BY <3>2, <3>3, <3>4
      <4> HIDE DEF n, m, l
      <4>2. color \in 1 .. l
        BY <4>1
      <4> QED
        BY <3>5, <4>2 DEF l
    <3> QED
      BY <2>1, <2>2, <3>1, <3>6 DEF Contained
  <2> QED
    BY <1>1, <1>2, <1>4, <2>1, <2>2 DEF DrawIcon, FaultInv
<1>5. CASE IconRow \/ IconEnd \/ InitGop \/ UNCHANGED vars
  BY <1>1, <1>2, <1>5 DEF IconRow, IconEnd, InitGop, vars, FaultInv
<1>6. CASE DrawSquare
  <2>1. pc = "square" => square
    BY DEF ScreenInv, LoopInv
  <2> QED
    BY <1>6, <2>1 DEF DrawSquare, FaultInv
<1> QED
  BY <1>3, <1>4, <1>5, <1>6 DEF Next, Draw

\* An icon whose header promises no more words than its file holds, and which
\* stays inside the framebuffer, never stops the boot (loadBmp.c:26-30,53-67),
\* whatever else is wrong with it: a depth that is not 32, or a size that is
\* larger than the picture.
THEOREM ContainedIconsAreSafe == Spec => [](pc = "fault" => ~ Contained \/ square)
<1>1. Init => FaultInv
  BY DEF Init, FaultInv
<1>2. FaultInv => (pc = "fault" => ~ Contained \/ square)
  BY DEF FaultInv
<1> QED
  BY <1>1, <1>2, FaultStep, ScreenAlways, PTL DEF Spec
=============================================================================
