--------------------------- MODULE ConsoleProofs ---------------------------
(* Proofs about Console: the numbers, for every base and every size of the  *)
(* buffer, and the functions on memory, for memories of every size and      *)
(* content, every index width and every pair of areas.                      *)
EXTENDS Console, WellFoundedInduction, TLAPS

-----------------------------------------------------------------------------
(* Induction.  The theorems of the library that take an operator cannot be  *)
(* used, but WFMin takes a set: the least counterexample does the work.     *)

\* The least number principle, which is induction.
LEMMA Least ==
  ASSUME NEW T \in SUBSET Nat, T # {}
  PROVE  \E x \in T : \A y \in T : x <= y
<1>1. PICK x \in T : \A y \in T : ~ (<<y, x>> \in OpToRel(<, Nat))
  BY NatLessThanWellFounded, WFMin, Zenon
<1>2. \A y \in T : ~ (y < x)
  BY <1>1 DEF OpToRel
<1> QED
  BY <1>2

Sequels(S, a, F) == {f \in [Nat -> S] : f[0] = a /\ \A k \in Nat : f[k + 1] = F[k][f[k]]}

\* Recursion: a step function F has a sequence of values that starts with a.
LEMMA Recursion ==
  ASSUME NEW S, NEW a \in S, NEW F, F \in [Nat -> [S -> S]]
  PROVE  Sequels(S, a, F) # {}
<1> DEFINE Runs(m) == {f \in [0 .. m -> S] : f[0] = a /\ \A k \in 0 .. m - 1 : f[k + 1] = F[k][f[k]]}
<1>1. ASSUME NEW m \in Nat PROVE Runs(m) # {}
  <2> DEFINE T == {q \in Nat : Runs(q) = {}}
  <2> SUFFICES ASSUME T # {} PROVE FALSE
    BY <1>1
  <2>1. PICK q \in T : \A y \in T : q <= y
    BY Least
  <2>2. q # 0
    <3>1. [k \in 0 .. 0 |-> a] \in Runs(0)
      OBVIOUS
    <3> QED
      BY <3>1
  <2>3. q - 1 \in Nat /\ Runs(q - 1) # {}
    <3>1. q - 1 \in Nat /\ ~ (q <= q - 1)
      BY <2>2
    <3>2. q - 1 \notin T
      BY <2>1, <3>1
    <3> QED
      BY <3>1, <3>2
  <2>4. PICK f \in [0 .. q - 1 -> S] :
          f[0] = a /\ \A k \in 0 .. q - 1 - 1 : f[k + 1] = F[k][f[k]]
    BY <2>3
  <2> DEFINE g == [k \in 0 .. q |-> IF k = q THEN F[q - 1][f[q - 1]] ELSE f[k]]
  <2>5. g \in [0 .. q -> S]
    BY <2>3, <2>4
  <2>6. g[0] = a
    BY <2>2, <2>3, <2>4
  <2>7. ASSUME NEW k \in 0 .. q - 1 PROVE g[k + 1] = F[k][g[k]]
    <3>1. g[k] = f[k] /\ k \in Nat
      BY <2>3
    <3>2. CASE k = q - 1
      <4>1. k + 1 = q /\ q \in 0 .. q
        BY <3>2
      <4> QED
        BY <4>1, <3>1, <3>2
    <3>3. CASE k # q - 1
      <4>1. k \in 0 .. q - 1 - 1 /\ k + 1 # q /\ k + 1 \in 0 .. q
        BY <3>3, <2>3
      <4> QED
        BY <4>1, <3>1, <2>4
    <3> QED
      BY <3>2, <3>3
  <2>8. g \in Runs(q)
    BY <2>5, <2>6, <2>7
  <2> QED
    BY <2>1, <2>8
<1>2. ASSUME NEW m \in Nat, NEW r \in Nat, NEW f \in Runs(m), NEW g \in Runs(r), NEW k \in Nat,
             k <= m, k <= r
      PROVE  f[k] = g[k]
  <2> DEFINE T == {q \in Nat : q <= m /\ q <= r /\ f[q] # g[q]}
  <2> SUFFICES ASSUME T # {} PROVE FALSE
    BY <1>2
  <2>1. PICK q \in T : \A y \in T : q <= y
    BY Least
  <2>2. q # 0
    BY <2>1
  <2>3. q - 1 \in Nat /\ q - 1 <= m /\ q - 1 <= r /\ f[q - 1] = g[q - 1]
    BY <2>1, <2>2
  <2>4. q - 1 \in 0 .. m - 1 /\ q - 1 \in 0 .. r - 1 /\ (q - 1) + 1 = q
    BY <2>1, <2>3
  <2> QED
    BY <2>1, <2>3, <2>4
<1> DEFINE run(k) == CHOOSE f \in Runs(k) : TRUE
           f == [k \in Nat |-> run(k)[k]]
<1>3. \A k \in Nat : run(k) \in Runs(k)
  BY <1>1
<1> HIDE DEF run
<1>4. f \in [Nat -> S]
  BY <1>3
<1>5. f[0] = a
  BY <1>3
<1>6. ASSUME NEW k \in Nat PROVE f[k + 1] = F[k][f[k]]
  <2>1. run(k + 1) \in Runs(k + 1) /\ run(k) \in Runs(k) /\ k \in 0 .. k + 1 - 1
    BY <1>3
  <2>2. run(k + 1)[k] = run(k)[k]
    <3> DEFINE h == run(k + 1)
               l == run(k)
    <3>1. h \in Runs(k + 1) /\ l \in Runs(k) /\ k + 1 \in Nat /\ k <= k + 1 /\ k <= k
      BY <2>1
    <3> HIDE DEF h, l, Runs
    <3>2. h[k] = l[k]
      BY <3>1, <1>2
    <3> QED
      BY <3>2 DEF h, l
  <2> QED
    BY <2>1, <2>2
<1> QED
  BY <1>4, <1>5, <1>6 DEF Sequels

-----------------------------------------------------------------------------
(* Powers, digits and quotients. *)

\* The equations of the recursive definition of Power.
LEMMA PowerRule ==
  ASSUME NEW b \in Nat
  PROVE  /\ Power(b, 0) = 1
         /\ \A k \in Nat : Power(b, k) \in Nat /\ Power(b, k + 1) = b * Power(b, k)
<1> DEFINE IsPower(f) == f = [j \in Nat |-> IF j = 0 THEN 1 ELSE b * f[j - 1]]
           p == CHOOSE f : IsPower(f)
<1>1. PICK f \in [Nat -> Nat] : f[0] = 1 /\ \A k \in Nat : f[k + 1] = b * f[k]
  <2> DEFINE F == [k \in Nat |-> [v \in Nat |-> b * v]]
  <2>1. F \in [Nat -> [Nat -> Nat]]
    OBVIOUS
  <2>2. \A k, v \in Nat : F[k][v] = b * v
    OBVIOUS
  <2> HIDE DEF F
  <2>3. Sequels(Nat, 1, F) # {}
    BY <2>1, Recursion
  <2>4. PICK f \in [Nat -> Nat] : f[0] = 1 /\ \A k \in Nat : f[k + 1] = F[k][f[k]]
    BY <2>3 DEF Sequels
  <2>5. \A k \in Nat : f[k + 1] = b * f[k]
    BY <2>2, <2>4
  <2> QED
    BY <2>4, <2>5
<1>2. IsPower(f)
  <2>1. ASSUME NEW j \in Nat PROVE f[j] = IF j = 0 THEN 1 ELSE b * f[j - 1]
    <3>1. j = 0 \/ (j - 1 \in Nat /\ (j - 1) + 1 = j)
      OBVIOUS
    <3> QED
      BY <3>1, <1>1
  <2> QED
    BY <2>1
<1>3. IsPower(p)
  BY <1>2, Zenon
<1>4. \A k \in Nat : Power(b, k) = p[k]
  BY DEF Power
<1> HIDE DEF p
<1>5. \A j \in Nat : p[j] = IF j = 0 THEN 1 ELSE b * p[j - 1]
  BY <1>3
<1>6. ASSUME NEW k \in Nat PROVE p[k + 1] = b * p[k]
  <2>1. k + 1 \in Nat /\ k + 1 # 0 /\ (k + 1) - 1 = k
    OBVIOUS
  <2> QED
    BY <2>1, <1>5
<1>7. \A k \in Nat : p[k] \in Nat
  <2> DEFINE T == {k \in Nat : p[k] \notin Nat}
  <2> SUFFICES ASSUME T # {} PROVE FALSE
    OBVIOUS
  <2>1. PICK q \in T : \A y \in T : q <= y
    BY Least
  <2>2. q # 0
    BY <2>1, <1>5
  <2>3. q - 1 \in Nat /\ p[q - 1] \in Nat /\ p[q] = b * p[q - 1]
    BY <2>1, <2>2, <1>5
  <2> QED
    BY <2>1, <2>3
<1>8. p[0] = 1
  BY <1>5
<1>9. \A k \in Nat : Power(b, k) \in Nat /\ Power(b, k + 1) = b * Power(b, k)
  BY <1>4, <1>6, <1>7
<1> QED
  BY <1>4, <1>8, <1>9


LEMMA PowerPositive ==
  ASSUME NEW b \in Nat \ {0}
  PROVE  \A k \in Nat : Power(b, k) >= 1
<1> DEFINE T == {k \in Nat : ~ Power(b, k) >= 1}
<1> SUFFICES ASSUME T # {} PROVE FALSE
  OBVIOUS
<1>1. PICK q \in T : \A y \in T : q <= y
  BY Least
<1>2. q # 0
  BY <1>1, PowerRule
<1>3. q - 1 \in Nat /\ q - 1 \notin T /\ (q - 1) + 1 = q
  BY <1>1, <1>2
<1>4. Power(b, q - 1) \in Nat /\ Power(b, q - 1) >= 1 /\ Power(b, q) = b * Power(b, q - 1)
  BY <1>3, PowerRule
<1>5. \A x \in Nat : x >= 1 => b * x >= 1
  OBVIOUS
<1> QED
  BY <1>1, <1>4, <1>5

\* The larger the exponent, the larger the power.
LEMMA PowerMonotone ==
  ASSUME NEW b \in Nat \ {0}, NEW m \in Nat, NEW k \in Nat, k <= m
  PROVE  Power(b, k) <= Power(b, m)
<1> DEFINE T == {r \in Nat : k <= r /\ ~ Power(b, k) <= Power(b, r)}
<1> SUFFICES ASSUME T # {} PROVE FALSE
  OBVIOUS
<1>1. PICK q \in T : \A y \in T : q <= y
  BY Least
<1>0. \A r \in Nat : Power(b, r) \in Nat /\ Power(b, r + 1) = b * Power(b, r)
  BY PowerRule
<1>2. q # k
  BY <1>0, <1>1
<1>3. q - 1 \in Nat /\ k <= q - 1 /\ q - 1 \notin T /\ (q - 1) + 1 = q
  BY <1>1, <1>2
<1>4. Power(b, q - 1) \in Nat /\ Power(b, k) <= Power(b, q - 1) /\ Power(b, q) = b * Power(b, q - 1)
  BY <1>0, <1>3
<1>5. \A x \in Nat : x <= b * x
  OBVIOUS
<1>6. Power(b, k) \in Nat /\ Power(b, q) \in Nat
  BY <1>0
<1> QED
  BY <1>1, <1>4, <1>5, <1>6

\* What a row of digits stands for, given the values of its beginnings.
LEMMA NumeralRule ==
  ASSUME NEW s \in Seq(Nat), NEW b \in Nat, NEW w \in [0 .. Len(s) -> Nat], w[0] = 0,
         \A k \in 1 .. Len(s) : w[k] = b * w[k - 1] + s[k]
  PROVE  Numeral(s, b) = w[Len(s)]
<1> DEFINE IsValue(f) == f = [k \in 0 .. Len(s) |-> IF k = 0 THEN 0 ELSE b * f[k - 1] + s[k]]
           v == CHOOSE f : IsValue(f)
<1>0. Len(s) \in Nat
  OBVIOUS
<1>1. IsValue(w)
  <2>1. ASSUME NEW k \in 0 .. Len(s) PROVE w[k] = IF k = 0 THEN 0 ELSE b * w[k - 1] + s[k]
    <3>1. k = 0 \/ k \in 1 .. Len(s)
      BY <1>0
    <3> QED
      BY <3>1
  <2> QED
    BY <2>1
<1>2. IsValue(v)
  BY <1>1, Zenon
<1>3. Numeral(s, b) = v[Len(s)]
  BY DEF Numeral
<1> HIDE DEF v
<1>4. \A k \in 0 .. Len(s) : v[k] = IF k = 0 THEN 0 ELSE b * v[k - 1] + s[k]
  BY <1>2
<1> DEFINE T == {k \in Nat : k <= Len(s) /\ v[k] # w[k]}
<1>5. ASSUME T # {} PROVE FALSE
  <2>1. PICK q \in T : \A y \in T : q <= y
    BY <1>5, Least
  <2>2. q # 0
    BY <2>1, <1>0, <1>4
  <2>3. q - 1 \in Nat /\ q - 1 \notin T /\ q - 1 <= Len(s) /\ q \in 1 .. Len(s)
    BY <2>1, <2>2, <1>0
  <2>4. v[q - 1] = w[q - 1]
    BY <2>3
  <2>5. v[q] = b * v[q - 1] + s[q] /\ w[q] = b * w[q - 1] + s[q]
    BY <2>3, <1>4
  <2> QED
    BY <2>1, <2>4, <2>5
<1> QED
  BY <1>0, <1>3, <1>5

LEMMA Division ==
  ASSUME NEW b \in Nat \ {0}, NEW x \in Nat
  PROVE  /\ x \div b \in Nat /\ x % b \in Nat /\ x % b < b
         /\ x = (x \div b) * b + (x % b)
OBVIOUS

\* What is left of v after each digit in base b.
Quotients(v, b) ==
  CHOOSE f \in Sequels(Nat, v, [k \in Nat |-> [q \in Nat |-> q \div b]]) : TRUE

LEMMA QuotientRule ==
  ASSUME NEW v \in Nat, NEW b \in Nat \ {0}
  PROVE  /\ Quotients(v, b) \in [Nat -> Nat] /\ Quotients(v, b)[0] = v
         /\ \A k \in Nat : Quotients(v, b)[k + 1] = Quotients(v, b)[k] \div b
<1> DEFINE F == [k \in Nat |-> [q \in Nat |-> q \div b]]
<1>1. F \in [Nat -> [Nat -> Nat]]
  OBVIOUS
<1>2. \A k, q \in Nat : F[k][q] = q \div b
  OBVIOUS
<1>3. Quotients(v, b) = CHOOSE f \in Sequels(Nat, v, F) : TRUE
  BY DEF Quotients
<1> HIDE DEF F
<1>4. Sequels(Nat, v, F) # {}
  BY <1>1, Recursion
<1>5. Quotients(v, b) \in Sequels(Nat, v, F)
  BY <1>3, <1>4
<1> QED
  BY <1>2, <1>5 DEF Sequels

\* The k-th quotient times b^k is v, but for the k digits that are gone.
LEMMA Magnitude ==
  ASSUME NEW v \in Nat, NEW b \in Nat \ {0}, NEW k \in Nat
  PROVE  /\ Quotients(v, b)[k] * Power(b, k) <= v
         /\ v < (Quotients(v, b)[k] + 1) * Power(b, k)
<1> DEFINE q == Quotients(v, b)
           Right(m) == q[m] * Power(b, m) <= v /\ v < (q[m] + 1) * Power(b, m)
           T == {m \in Nat : ~ Right(m)}
<1>0. q \in [Nat -> Nat] /\ q[0] = v /\ \A m \in Nat : q[m + 1] = q[m] \div b
  BY QuotientRule
<1>1. Power(b, 0) = 1 /\ \A m \in Nat : Power(b, m) \in Nat /\ Power(b, m + 1) = b * Power(b, m)
  BY PowerRule
<1> HIDE DEF q
<1>2. Right(0)
  BY <1>0, <1>1
<1>3. ASSUME NEW m \in Nat, Right(m) PROVE Right(m + 1)
  <2> DEFINE d == q[m] \div b
             r == q[m] % b
             p == Power(b, m)
  <2>1. q[m] \in Nat /\ p \in Nat /\ q[m + 1] = d /\ Power(b, m + 1) = b * p
    BY <1>0, <1>1
  <2>2. d \in Nat /\ r \in Nat /\ r < b /\ q[m] = d * b + r
    BY <2>1, Division
  <2> HIDE DEF d, r, p
  <2>3. (d * b) * p = d * (b * p) /\ ((d + 1) * b) * p = (d + 1) * (b * p)
    BY <2>1, <2>2
  <2>4. (d * b) <= q[m] /\ q[m] + 1 <= (d + 1) * b
    BY <2>2
  <2>5. \A x, y, z \in Nat : x <= y => x * z <= y * z
    OBVIOUS
  <2>6. (d * b) * p <= q[m] * p /\ (q[m] + 1) * p <= ((d + 1) * b) * p
    BY <2>1, <2>2, <2>4, <2>5
  <2>7. q[m] * p <= v /\ v < (q[m] + 1) * p
    BY <1>3 DEF p
  <2>8. d * (b * p) <= v /\ v < (d + 1) * (b * p)
    BY <2>1, <2>2, <2>3, <2>6, <2>7
  <2> QED
    BY <2>1, <2>8
<1>4. T = {}
  <2> SUFFICES ASSUME T # {} PROVE FALSE
    OBVIOUS
  <2>1. PICK m \in T : \A y \in T : m <= y
    BY Least
  <2>2. m # 0
    BY <1>2, <2>1
  <2>3. m - 1 \in Nat /\ m - 1 \notin T /\ (m - 1) + 1 = m
    BY <2>1, <2>2
  <2> HIDE DEF Right
  <2> QED
    BY <1>3, <2>1, <2>3
<1> QED
  BY <1>4 DEF q

-----------------------------------------------------------------------------
(* Numbers. *)

\* While a number is printed: the places from c + 1 on hold its last digits,
\* and n is the rest.
PrintInv ==
  op = "print" =>
    LET q == Quotients(number, base) IN
    /\ number # 0 /\ c >= -1
    /\ n = q[Start - c]
    /\ \A k \in 0 .. Start - c - 1 : q[k] # 0 /\ buffer[Start - k] = q[k] % base

NumberType ==
  /\ base \in {Decimal, Hex} /\ number \in 0 .. Word - 1 /\ n \in 0 .. number
  /\ c \in -2 .. Places - 1 /\ buffer \in [0 .. Places - 1 -> Nat] /\ shown \in Seq(Nat)
  /\ op \notin {"print", "undefined"} => n = 0

NumberInv == NumberType /\ PrintInv /\ NumberShown /\ BufferLarge

\* What the steps need to know about the base and the quotients.
LEMMA Bases ==
  ASSUME NumberType
  PROVE  /\ base \in Nat \ {0} /\ base > 1 /\ number \in Nat /\ Start \in Nat
         /\ Quotients(number, base) \in [Nat -> Nat] /\ Quotients(number, base)[0] = number
         /\ \A k \in Nat : Quotients(number, base)[k + 1] = Quotients(number, base)[k] \div base
<1>1. base \in Nat \ {0} /\ base > 1 /\ number \in Nat /\ Start \in Nat
  BY ConsoleAssumption DEF NumberType, Start
<1> QED
  BY <1>1, QuotientRule

LEMMA NumberInit == Init => NumberInv
<1> SUFFICES ASSUME Init PROVE NumberInv
  OBVIOUS
<1>1. buffer \in [0 .. Places - 1 -> Nat]
  BY DEF Init, Stale
<1>2. NumberType
  BY <1>1, ConsoleAssumption DEF Init, NumberType
<1> QED
  BY <1>2 DEF Init, NumberInv, PrintInv, NumberShown, BufferLarge, Returned

\* The number 0 is printed at once.
LEMMA ZeroShown ==
  ASSUME NEW b \in Nat
  PROVE  Numeral(<<0>>, b) = 0
<1> DEFINE w == [k \in 0 .. 1 |-> 0]
<1>1. w \in [0 .. 1 -> Nat] /\ w[0] = 0 /\ w[1] = 0 /\ <<0>> \in Seq(Nat) /\ Len(<<0>>) = 1
  OBVIOUS
<1>2. \A k \in 1 .. 1 : w[k] = b * w[k - 1] + <<0>>[k]
  <2>1. w[1] = b * w[0] + <<0>>[1]
    OBVIOUS
  <2> QED
    BY <2>1
<1> HIDE DEF w
<1> QED
  BY <1>1, <1>2, NumeralRule

\* A number that is not 0 starts with an empty buffer.
LEMMA PrintNumberStep ==
  ASSUME NumberInv, NEW v \in 0 .. Word - 1, NEW b \in {Decimal, Hex}, PrintNumber(v, b)
  PROVE  NumberInv'
<1> USE ConsoleAssumption
<1>0. NumberType /\ op = "idle" /\ n = 0 /\ number' = v /\ base' = b /\ b \in Nat \ {0} /\ b > 1
  BY DEF NumberInv, NumberType, PrintNumber
<1>1. CASE v = 0
  <2>1. shown' = <<0>> /\ last' = "print" /\ UNCHANGED <<op, n, c, buffer>>
    BY <1>1 DEF PrintNumber
  <2>2. NumberType'
    BY <1>0, <1>1, <2>1 DEF NumberType
  <2>3. NumberShown'
    <3>1. \A p \in DOMAIN shown' : shown'[p] < base'
      BY <1>0, <2>1
    <3>2. Numeral(shown', base') = number'
      BY <1>0, <1>1, <2>1, ZeroShown
    <3> QED
      BY <1>0, <1>1, <3>1, <3>2 DEF NumberShown
  <2>4. BufferLarge'
    <3>1. Power(Decimal, Places) >= 1 /\ Power(Decimal, Places) \in Nat
      <4>1. Decimal \in Nat \ {0}
        OBVIOUS
      <4> QED
        BY <4>1, PowerPositive, PowerRule
    <3> QED
      BY <1>0, <1>1, <2>1, <3>1 DEF BufferLarge
  <2> QED
    BY <1>0, <2>1, <2>2, <2>3, <2>4 DEF NumberInv, PrintInv
<1>2. CASE v # 0
  <2>1. op' = "print" /\ n' = v /\ c' = Start /\ shown' = <<>>
        /\ buffer' = [p \in 0 .. Places - 1 |-> Stale]
    BY <1>2 DEF PrintNumber
  <2>2. NumberType'
    <3>1. buffer' \in [0 .. Places - 1 -> Nat] /\ shown' \in Seq(Nat)
      BY <2>1 DEF Stale
    <3>2. c' \in -2 .. Places - 1 /\ number' \in 0 .. Word - 1 /\ n' \in 0 .. number'
      BY <1>0, <2>1 DEF Start
    <3> QED
      BY <1>0, <2>1, <3>1, <3>2 DEF NumberType
  <2>3. PrintInv'
    <3>1. Quotients(v, b)[0] = v
      BY <1>0, QuotientRule
    <3>2. Start' = Start /\ Start \in Nat
      BY DEF Start
    <3>3. c' >= -1 /\ Start' - c' = 0 /\ number' # 0
      BY <1>0, <1>2, <2>1, <3>2
    <3>4. \A k \in 0 .. Start' - c' - 1 : FALSE
      BY <3>3
    <3> QED
      BY <1>0, <2>1, <3>1, <3>3, <3>4 DEF PrintInv
  <2> QED
    BY <2>1, <2>2, <2>3 DEF NumberInv, NumberShown, BufferLarge, Returned
<1> QED
  BY <1>1, <1>2

\* One more digit; or a place before the buffer is written, and the number is
\* at least base^Places.
LEMMA DigitStep == NumberInv /\ Digit => NumberInv'
<1> SUFFICES ASSUME NumberInv, Digit PROVE NumberInv'
  OBVIOUS
<1> USE ConsoleAssumption
<1> DEFINE q == Quotients(number, base)
           j == Start - c
<1>0. /\ NumberType /\ PrintInv /\ op = "print" /\ n # 0 /\ n' = n \div base /\ c' = c - 1
      /\ UNCHANGED <<base, number, shown>>
  BY DEF NumberInv, Digit
<1>1. /\ number # 0 /\ c >= -1 /\ n = q[j]
      /\ \A k \in 0 .. j - 1 : q[k] # 0 /\ buffer[Start - k] = q[k] % base
  BY <1>0 DEF PrintInv
<1>2. /\ base \in Nat \ {0} /\ base > 1 /\ number \in Nat /\ Start \in Nat
      /\ q \in [Nat -> Nat] /\ q[0] = number /\ \A k \in Nat : q[k + 1] = q[k] \div base
  BY <1>0, Bases
<1>3. Start = Places - 1 /\ c \in Int /\ c <= Start /\ j \in Nat /\ q' = q /\ n \in Nat
  BY <1>0, <1>1 DEF NumberType, Start
<1> HIDE DEF q
<1>4. n' \in 0 .. number' /\ n % base \in Nat
  <2>1. n \div base \in Nat /\ n % base \in Nat /\ n = (n \div base) * base + (n % base)
    BY <1>2, <1>3, Division
  <2>2. \A x \in Nat : x <= x * base
    BY <1>2
  <2>3. n \div base <= n /\ n <= number
    BY <2>1, <2>2, <1>0 DEF NumberType
  <2> QED
    BY <1>0, <1>2, <1>3, <2>1, <2>3
<1>5. CASE c >= 0
  <2>1. buffer' = [buffer EXCEPT ![c] = n % base] /\ op' = op
    BY <1>5 DEF Digit
  <2>2. c \in 0 .. Places - 1 /\ buffer \in [0 .. Places - 1 -> Nat]
    BY <1>0, <1>3, <1>5 DEF NumberType
  <2>3. buffer' \in [0 .. Places - 1 -> Nat]
    BY <1>4, <2>1, <2>2
  <2>4. NumberType'
    <3>1. c' \in -2 .. Places - 1
      BY <1>0, <2>2
    <3> QED
      BY <1>0, <1>4, <2>1, <2>3, <3>1 DEF NumberType
  <2>5. Start - c' = j + 1 /\ c' >= -1
    BY <1>0, <1>2, <1>3, <1>5
  <2>6. n' = q[j + 1]
    BY <1>0, <1>1, <1>2, <1>3
  <2>7. ASSUME NEW k \in 0 .. j PROVE q[k] # 0 /\ buffer'[Start - k] = q[k] % base
    <3>1. CASE k = j
      <4>1. Start - k = c
        BY <1>2, <1>3, <3>1
      <4>2. buffer'[c] = n % base
        BY <2>1, <2>2
      <4> QED
        BY <1>0, <1>1, <3>1, <4>1, <4>2
    <3>2. CASE k # j
      <4>1. k \in 0 .. j - 1 /\ Start - k \in 0 .. Places - 1 /\ Start - k # c
        BY <1>2, <1>3, <1>5, <3>2
      <4>2. buffer'[Start - k] = buffer[Start - k]
        BY <2>1, <2>2, <4>1
      <4> QED
        BY <1>1, <4>1, <4>2
    <3> QED
      BY <3>1, <3>2
  <2>8. PrintInv'
    <3>1. \A k \in 0 .. Start - c' - 1 : q[k] # 0 /\ buffer'[Start - k] = q[k] % base
      BY <1>3, <2>5, <2>7
    <3>2. n' = q[Start - c']
      BY <2>5, <2>6
    <3>3. Quotients(number', base') = q /\ Start' = Start
      BY <1>0 DEF q, Start
    <3> QED
      BY <1>0, <1>1, <2>5, <3>1, <3>2, <3>3 DEF PrintInv
  <2> QED
    BY <1>0, <2>1, <2>4, <2>8 DEF NumberInv, NumberShown, BufferLarge, Returned
<1>6. CASE c = -1
  <2>1. op' = "undefined" /\ buffer' = buffer
    BY <1>2, <1>6 DEF Digit
  <2>2. NumberType'
    <3>1. c' \in -2 .. Places - 1
      BY <1>0, <1>6
    <3> QED
      BY <1>0, <1>4, <2>1, <3>1 DEF NumberType
  <2>3. j = Places
    BY <1>3, <1>6
  <2>4. n * Power(base, Places) <= number /\ Power(base, Places) \in Nat
    BY <1>1, <1>2, <2>3, Magnitude, PowerRule DEF q
  <2>5. \A x, y \in Nat : x # 0 => y <= x * y
    OBVIOUS
  <2>6. Power(base, Places) <= number
    <3> DEFINE x == Power(base, Places)
    <3>1. x \in Nat /\ n * x <= number
      BY <2>4
    <3> HIDE DEF x
    <3>2. x <= n * x /\ n * x \in Nat
      BY <1>0, <1>3, <2>5, <3>1
    <3>3. x <= number
      BY <1>2, <3>1, <3>2
    <3> QED
      BY <3>3 DEF x
  <2>7. base = Decimal
    BY <1>0, <1>2, <2>4, <2>6 DEF NumberType
  <2> QED
    BY <1>0, <2>1, <2>2, <2>6, <2>7 DEF NumberInv, PrintInv, NumberShown, BufferLarge, Returned
<1> QED
  BY <1>1, <1>3, <1>5, <1>6

\* The quotients, read backwards, are the values of the beginnings of the
\* digits that are shown.
LEMMA FlushStep == NumberInv /\ Flush => NumberInv'
<1> SUFFICES ASSUME NumberInv, Flush PROVE NumberInv'
  OBVIOUS
<1> USE ConsoleAssumption
<1> DEFINE q == Quotients(number, base)
           j == Start - c
<1>0. /\ NumberType /\ PrintInv /\ op = "print" /\ n = 0 /\ op' = "idle" /\ last' = "print"
      /\ shown' = [p \in 1 .. Places - 1 - c |-> buffer[c + p]]
      /\ UNCHANGED <<base, number, n, c, buffer>>
  BY DEF NumberInv, Flush
<1>1. /\ number # 0 /\ c >= -1 /\ q[j] = 0
      /\ \A k \in 0 .. j - 1 : q[k] # 0 /\ buffer[Start - k] = q[k] % base
  BY <1>0 DEF PrintInv
<1>2. /\ base \in Nat \ {0} /\ base > 1 /\ number \in Nat
      /\ q \in [Nat -> Nat] /\ q[0] = number /\ \A k \in Nat : q[k + 1] = q[k] \div base
  BY <1>0, Bases
<1>3. Start = Places - 1 /\ c \in -1 .. Start /\ j \in 0 .. Places
  BY <1>0, <1>1 DEF NumberType, Start
<1>4. number < Power(base, Places)
  <2>0. j \in Nat /\ Places \in Nat /\ j <= Places
    BY <1>3
  <2> HIDE DEF j
  <2>1. number < (q[j] + 1) * Power(base, j)
    BY <1>2, <2>0, Magnitude
  <2>2. Power(base, j) \in Nat /\ Power(base, Places) \in Nat
    BY <1>2, <2>0, PowerRule
  <2>3. Power(base, j) <= Power(base, Places)
    BY <1>2, <2>0, PowerMonotone
  <2>4. number < Power(base, j)
    BY <1>1, <2>1, <2>2
  <2> QED
    BY <1>2, <2>2, <2>3, <2>4
<1> HIDE DEF q
<1>5. ASSUME NEW p \in 1 .. j
      PROVE  shown'[p] = q[j - p] % base /\ shown'[p] \in Nat /\ shown'[p] < base
  <2>1. j - p \in 0 .. j - 1 /\ Start - (j - p) = c + p /\ j - p \in Nat
    BY <1>3
  <2>2. shown'[p] = buffer[c + p]
    BY <1>0, <1>3
  <2>3. shown'[p] = q[j - p] % base
    BY <1>1, <2>1, <2>2
  <2> DEFINE x == q[j - p]
  <2>4. x \in Nat /\ shown'[p] = x % base
    BY <1>2, <2>1, <2>3
  <2> HIDE DEF x
  <2>5. x % base \in Nat /\ x % base < base
    BY <1>2, <2>4, Division
  <2> QED
    BY <2>3, <2>4, <2>5
<1>6. shown' \in [1 .. j -> Nat] /\ DOMAIN shown' = 1 .. j
  <2>1. shown' = [p \in 1 .. j |-> shown'[p]]
    BY <1>0, <1>3
  <2> QED
    BY <1>5, <2>1
<1>7. shown' \in Seq(Nat) /\ Len(shown') = j
  BY <1>3, <1>6
<1>8. Numeral(shown', base) = number
  <2> DEFINE w == [k \in 0 .. j |-> q[j - k]]
  <2>1. w \in [0 .. j -> Nat]
    BY <1>2, <1>3
  <2>2. w[0] = 0 /\ w[j] = number
    BY <1>1, <1>2, <1>3
  <2>3. ASSUME NEW k \in 1 .. j PROVE w[k] = base * w[k - 1] + shown'[k]
    <3>1. j - k \in Nat /\ (j - k) + 1 = j - (k - 1) /\ k - 1 \in 0 .. j /\ k \in 0 .. j
      BY <1>3
    <3>2. q[j - k] \in Nat /\ q[j - (k - 1)] = q[j - k] \div base
      BY <1>2, <3>1
    <3> DEFINE x == q[j - k]
               y == q[j - (k - 1)]
               d == shown'[k]
    <3>3. w[k] = x /\ w[k - 1] = y /\ x \in Nat /\ y = x \div base /\ d = x % base
      BY <1>5, <3>1, <3>2
    <3> HIDE DEF x, y, d
    <3>4. x = y * base + d /\ y \in Nat /\ d \in Nat
      <4>1. /\ x \div base \in Nat /\ x % base \in Nat
            /\ x = (x \div base) * base + (x % base)
        BY <1>2, <3>3, Division
      <4> QED
        BY <3>3, <4>1, Zenon
    <3>5. x = base * y + d
      BY <1>2, <3>4
    <3> QED
      BY <3>3, <3>5 DEF d
  <2> HIDE DEF w, j
  <2>4. base \in Nat /\ \A k \in 1 .. Len(shown') : w[k] = base * w[k - 1] + shown'[k]
    BY <1>2, <1>7, <2>3
  <2>5. w \in [0 .. Len(shown') -> Nat]
    BY <1>7, <2>1
  <2>6. Numeral(shown', base) = w[Len(shown')]
    BY <1>7, <2>2, <2>4, <2>5, NumeralRule
  <2> QED
    BY <1>7, <2>2, <2>6
<1>9. shown'[1] # 0
  <2>1. j # 0
    BY <1>1, <1>2
  <2>2. j - 1 \in Nat /\ 1 \in 1 .. j /\ j - 1 \in 0 .. j - 1 /\ (j - 1) + 1 = j
    BY <1>3, <2>1
  <2>3. q[j - 1] \in Nat /\ q[j - 1] # 0 /\ q[j - 1] \div base = 0
    BY <1>1, <1>2, <2>2
  <2>4. \A x \in Nat : x # 0 /\ x \div base = 0 => x % base # 0
    <3> SUFFICES ASSUME NEW x \in Nat, x # 0, x \div base = 0 PROVE x % base # 0
      OBVIOUS
    <3>1. x = (x \div base) * base + (x % base) /\ x % base \in Nat
      BY <1>2, Division
    <3> QED
      BY <1>2, <3>1
  <2>5. q[j - 1] % base # 0
    BY <2>3, <2>4
  <2> QED
    BY <1>5, <2>2, <2>5
<1>10. NumberType'
  BY <1>0, <1>7 DEF NumberType
<1>11. NumberShown'
  BY <1>0, <1>5, <1>6, <1>8, <1>9 DEF NumberShown
<1>12. BufferLarge'
  BY <1>0, <1>4 DEF BufferLarge, NumberType
<1> QED
  BY <1>0, <1>10, <1>11, <1>12 DEF NumberInv, PrintInv

\* All other steps leave the numbers alone.
LEMMA NumberStep == NumberInv /\ [Next]_vars => NumberInv'
<1> SUFFICES ASSUME NumberInv, [Next]_vars PROVE NumberInv'
  OBVIOUS
<1>0. NumberType /\ PrintInv /\ NumberShown /\ BufferLarge
  BY DEF NumberInv
<1>1. ASSUME NEW v \in 0 .. Word - 1, NEW b \in {Decimal, Hex}, PrintNumber(v, b) PROVE NumberInv'
  BY <1>1, PrintNumberStep
<1>2. CASE Digit \/ Flush
  BY <1>2, DigitStep, FlushStep
<1>3. ASSUME UNCHANGED print,
             \/ op' \in Functions /\ n = 0
             \/ op \in Functions /\ op' = "idle" /\ last' = op /\ n = 0
             \/ op' = op /\ last' = last
      PROVE  NumberInv'
  <2>1. UNCHANGED <<base, number, n, c, buffer, shown>>
    BY <1>3 DEF print
  <2>2. "print" \notin Functions /\ "idle" \notin Functions /\ "undefined" \notin Functions
    BY DEF Functions
  <2>3. CASE op' \in Functions /\ n = 0
    BY <1>0, <2>1, <2>2, <2>3 DEF NumberInv, NumberType, PrintInv, NumberShown, BufferLarge, Returned
  <2>4. CASE op \in Functions /\ op' = "idle" /\ last' = op /\ n = 0
    BY <1>0, <2>1, <2>2, <2>4 DEF NumberInv, NumberType, PrintInv, NumberShown, BufferLarge, Returned
  <2>5. CASE op' = op /\ last' = last
    <3>1. NumberType' /\ PrintInv'
      BY <1>0, <2>1, <2>5 DEF NumberType, PrintInv, Start
    <3>2. Returned("print")' = Returned("print")
      BY <2>5 DEF Returned
    <3>3. NumberShown' /\ BufferLarge'
      BY <1>0, <2>1, <2>5, <3>2 DEF NumberShown, BufferLarge
    <3> QED
      BY <3>1, <3>3 DEF NumberInv
  <2> QED
    BY <1>3, <2>3, <2>4, <2>5
<1>4. ASSUME NEW f \in Functions, NEW d \in Addr, NEW s \in Addr, NEW l \in Addr, NEW v \in Byte,
             Call(f, d, s, l, v)
      PROVE  NumberInv'
  BY <1>0, <1>3, <1>4 DEF Call, NumberType
<1>5. CASE memcpy \/ memmove \/ memset \/ memcmp \/ c16strcmp
  <2>1. op \in Functions /\ n = 0
    BY <1>0, <1>5 DEF memcpy, memmove, memset, memcmp, c16strcmp, Functions, NumberType
  <2>2. UNCHANGED print /\ (UNCHANGED <<op, last>> \/ (op' = "idle" /\ last' = op))
    BY <1>5 DEF memcpy, memmove, memset, memcmp, c16strcmp, Again, Return
  <2> QED
    BY <1>3, <2>1, <2>2
<1>6. CASE UNCHANGED vars
  BY <1>3, <1>6 DEF vars, call
<1> QED
  BY <1>1, <1>2, <1>4, <1>5, <1>6 DEF Next, Step

LEMMA NumberAlways == Spec => []NumberInv
BY NumberInit, NumberStep, PTL DEF Spec

\* printUint and printHex show the number, in its base and without a leading
\* zero, for all bases and sizes of the buffer (console.c:11-49).
THEOREM NumbersAreShown == Spec => []NumberShown
<1>1. NumberInv => NumberShown
  BY DEF NumberInv
<1> QED
  BY <1>1, NumberAlways, PTL

\* A place before the buffer is written for the numbers that have more digits
\* than there are places, and for no other (console.c:36-43).
THEOREM OnlyLargeLeaveBuffer == Spec => []BufferLarge
<1>1. NumberInv => BufferLarge
  BY DEF NumberInv
<1> QED
  BY <1>1, NumberAlways, PTL

-----------------------------------------------------------------------------
(* Memory.  The invariant: the loops have done their work as far as the     *)
(* index says.                                                               *)

MemType ==
  /\ mem \in [Addr -> Byte] /\ before \in [Addr -> Byte] /\ value \in Byte
  /\ dest \in Nat /\ src \in Nat /\ len \in Nat /\ i \in Nat
  /\ dest + len <= Cells /\ src + len <= Cells

\* memcpy counts up, or down; the copied bytes are behind the index, or before it.
CopyInv ==
  op = "memcpy" =>
    /\ src # dest => i <= len
    /\ src = dest => mem = before
    /\ src > dest =>
         \A a \in Addr :
           mem[a] = IF a \in dest .. dest + i - 1 THEN before[src + (a - dest)] ELSE before[a]
    /\ dest > src =>
         \A a \in Addr :
           mem[a] = IF a \in dest + i .. dest + len - 1 THEN before[src + (a - dest)]
                    ELSE before[a]

SetInv ==
  op = "memset" =>
    /\ i <= len
    /\ \A a \in Addr : mem[a] = IF a \in dest .. dest + i - 1 THEN value ELSE before[a]

\* What memmove has cleared is behind the index, and so is what it has copied.
MoveInv ==
  op = "memmove" /\ (dest < src \/ src + len <= dest) =>
    /\ i <= len
    /\ \A a \in Addr :
         mem[a] = IF a \in dest .. dest + i - 1 THEN before[src + (a - dest)]
                  ELSE IF a \in src .. src + i - 1 THEN 0 ELSE before[a]

CompareInv == op = "memcmp" => i <= len /\ \A k \in 0 .. i - 1 : mem[dest + k] = mem[src + k]

\* Neither string has ended before the index, which is not behind their ends.
StringInv ==
  op = "c16strcmp" =>
    /\ len = 0
    /\ \A k \in 0 .. i - 1 : mem[dest + k] = mem[src + k] /\ mem[dest + k] # 0
    /\ \E e \in Nat : dest + e < Cells /\ mem[dest + e] = 0 /\ e < Index /\ i <= e
    /\ \E e \in Nat : src + e < Cells /\ mem[src + e] = 0 /\ e < Index /\ i <= e

LoopInv ==
  /\ len < Index => CopyInv /\ SetInv /\ MoveInv /\ CompareInv
  /\ StringInv

MemInv == MemType /\ LoopInv /\ CopiesRight /\ CompareRight

-----------------------------------------------------------------------------

\* An index below 2^32 does not wrap.
LEMMA SmallIndex ==
  ASSUME NEW k \in Nat, k < Index
  PROVE  k % Index = k
BY ConsoleAssumption

LEMMA MemInit == Init => MemInv
BY ConsoleAssumption DEF Init, MemInv, MemType, LoopInv, CopyInv, SetInv, MoveInv, CompareInv,
     StringInv, CopiesRight, CompareRight, Returned

LEMMA TypeStep ==
  ASSUME MemType, [Next]_vars
  PROVE  MemType'
<1> USE ConsoleAssumption DEF MemType
<1>1. ASSUME NEW v \in 0 .. Word - 1, NEW b \in {Decimal, Hex}, PrintNumber(v, b) PROVE MemType'
  BY <1>1 DEF PrintNumber, memory, args
<1>2. ASSUME NEW f \in Functions, NEW d \in Addr, NEW s \in Addr, NEW l \in Addr, NEW v \in Byte,
             Call(f, d, s, l, v)
      PROVE  MemType'
  <2>1. l % Index \in Nat
    BY DEF Addr
  <2> QED
    BY <1>2, <2>1 DEF Call, Addr
<1>3. CASE Digit \/ Flush
  BY <1>3 DEF Digit, Flush, memory, args
<1>a. (i + 1) % Index \in Nat
  OBVIOUS
<1>4. CASE memcpy
  <2>1. CASE src > dest /\ i < len /\ Again(i + 1, [mem EXCEPT ![dest + i] = mem[src + i]])
    <3>1. [mem EXCEPT ![dest + i] = mem[src + i]] \in [Addr -> Byte]
      BY <2>1 DEF Addr
    <3> QED
      BY <2>1, <3>1, <1>a DEF Again, args
  <2>2. CASE dest > src /\ i > 0 /\ Again(i - 1, [mem EXCEPT ![dest + i - 1] = mem[src + i - 1]])
    <3>1. i - 1 \in Int
      OBVIOUS
    <3>2. (i - 1) % Index \in Nat
      BY <3>1
    <3>3. [mem EXCEPT ![dest + i - 1] = mem[src + i - 1]] \in [Addr -> Byte]
      <4> DEFINE p == dest + i - 1
                 q == src + i - 1
      <4>1. p \in Addr => q \in Addr
        BY <2>2 DEF Addr
      <4>2. ASSUME p \in Addr PROVE mem[q] \in Byte
        BY <4>1, <4>2
      <4> HIDE DEF p, q
      <4>3. [mem EXCEPT ![p] = mem[q]] \in [Addr -> Byte]
        BY <4>2
      <4> QED
        BY <4>3 DEF p, q
    <3> QED
      BY <2>2, <3>2, <3>3 DEF Again, args
  <2> QED
    BY <1>4, <2>1, <2>2 DEF memcpy, Return, args
<1>5. CASE memmove
  <2>1. CASE i < len /\ Again(i + 1, [mem EXCEPT ![dest + i] = mem[src + i], ![src + i] = 0])
    <3>1. [mem EXCEPT ![dest + i] = mem[src + i], ![src + i] = 0] \in [Addr -> Byte]
      BY <2>1 DEF Addr
    <3> QED
      BY <2>1, <3>1, <1>a DEF Again, args
  <2> QED
    BY <1>5, <2>1 DEF memmove, Return, args
<1>6. CASE memset
  <2>1. CASE i < len /\ Again(i + 1, [mem EXCEPT ![dest + i] = value])
    <3>1. [mem EXCEPT ![dest + i] = value] \in [Addr -> Byte]
      OBVIOUS
    <3> QED
      BY <2>1, <3>1, <1>a DEF Again, args
  <2> QED
    BY <1>6, <2>1 DEF memset, Return, args
<1>7. CASE memcmp \/ c16strcmp
  BY <1>7, <1>a DEF memcmp, c16strcmp, Again, Return, args
<1>8. CASE UNCHANGED vars
  BY <1>8 DEF vars, memory, args
<1> QED
  BY <1>1, <1>2, <1>3, <1>4, <1>5, <1>6, <1>7, <1>8 DEF Next, Step

\* An iteration of a loop that is not at its end keeps what the loop has done.
LEMMA MemcpyStep ==
  ASSUME MemType, LoopInv, memcpy, len < Index
  PROVE  CopyInv' /\ CopiesRight'
<1> USE ConsoleAssumption DEF MemType
<1>1. op = "memcpy" /\ CopyInv
  BY DEF memcpy, LoopInv
<1>2. CASE src > dest /\ i < len /\ Again(i + 1, [mem EXCEPT ![dest + i] = mem[src + i]])
  <2>1. i' = i + 1 /\ UNCHANGED <<op, dest, src, len, before>>
    BY <1>2, SmallIndex DEF Again, args
  <2>2. mem' = [mem EXCEPT ![dest + i] = mem[src + i]] /\ dest + i \in Addr /\ src + i \in Addr
    BY <1>2 DEF Again, Addr
  <2>3. mem[src + i] = before[src + i]
    BY <1>1, <1>2, <2>2 DEF CopyInv
  <2>4. ASSUME NEW a \in Addr
        PROVE  mem'[a] = IF a \in dest .. dest + i THEN before[src + (a - dest)] ELSE before[a]
    <3>1. mem[a] = IF a \in dest .. dest + i - 1 THEN before[src + (a - dest)] ELSE before[a]
      BY <1>1, <1>2 DEF CopyInv
    <3>2. mem'[a] = IF a = dest + i THEN mem[src + i] ELSE mem[a]
      BY <2>2
    <3>3. a \in Int
      BY DEF Addr
    <3>4. CASE a = dest + i
      <4>1. src + (a - dest) = src + i /\ a \in dest .. dest + i
        BY <3>3, <3>4
      <4> QED
        BY <2>3, <3>2, <3>4, <4>1
    <3>5. CASE a # dest + i
      BY <3>1, <3>2, <3>3, <3>5
    <3> QED
      BY <3>4, <3>5
  <2>5. CopyInv'
    <3>1. i' <= len' /\ dest' .. dest' + i' - 1 = dest .. dest + i
      BY <1>2, <2>1
    <3> QED
      BY <1>2, <2>1, <2>4, <3>1 DEF CopyInv
  <2> QED
    BY <1>1, <2>1, <2>5 DEF CopiesRight, Returned
<1>3. CASE dest > src /\ i > 0 /\ Again(i - 1, [mem EXCEPT ![dest + i - 1] = mem[src + i - 1]])
  <2>0. i <= len
    BY <1>1, <1>3 DEF CopyInv
  <2>1. i' = i - 1 /\ UNCHANGED <<op, dest, src, len, before>>
    <3>1. i - 1 \in Nat /\ i - 1 < Index
      BY <1>3, <2>0
    <3> QED
      BY <1>3, <3>1, SmallIndex DEF Again, args
  <2>2. /\ mem' = [mem EXCEPT ![dest + i - 1] = mem[src + i - 1]]
        /\ dest + i - 1 \in Addr /\ src + i - 1 \in Addr
    BY <1>3, <2>0 DEF Again, Addr
  <2>3. mem[src + i - 1] = before[src + i - 1]
    BY <1>1, <1>3, <2>2 DEF CopyInv
  <2>4. ASSUME NEW a \in Addr
        PROVE  mem'[a] = IF a \in dest + (i - 1) .. dest + len - 1 THEN before[src + (a - dest)]
                         ELSE before[a]
    <3>1. mem[a] = IF a \in dest + i .. dest + len - 1 THEN before[src + (a - dest)] ELSE before[a]
      BY <1>1, <1>3 DEF CopyInv
    <3>2. mem'[a] = IF a = dest + i - 1 THEN mem[src + i - 1] ELSE mem[a]
      BY <2>2
    <3>3. a \in Int
      BY DEF Addr
    <3>4. CASE a = dest + i - 1
      <4>1. src + (a - dest) = src + i - 1 /\ a \in dest + (i - 1) .. dest + len - 1
        BY <2>0, <3>3, <3>4
      <4> QED
        BY <2>3, <3>2, <3>4, <4>1
    <3>5. CASE a # dest + i - 1
      BY <3>1, <3>2, <3>3, <3>5
    <3> QED
      BY <3>4, <3>5
  <2>5. CopyInv'
    <3>1. i' <= len' /\ dest' + i' = dest + (i - 1)
      BY <2>0, <2>1
    <3> QED
      BY <1>3, <2>1, <2>4, <3>1 DEF CopyInv
  <2> QED
    BY <1>1, <2>1, <2>5 DEF CopiesRight, Returned
<1>4. CASE (src > dest => i >= len) /\ (dest > src => i = 0) /\ Return(0)
  <2>1. op' = "idle" /\ last' = "memcpy" /\ UNCHANGED <<dest, src, len, value, i, mem, before>>
    BY <1>1, <1>4 DEF Return, args
  <2>2. \A a \in Addr : mem[a] = IF a \in Area(dest, len) THEN before[src + (a - dest)] ELSE before[a]
    <3>1. CASE src > dest
      BY <1>1, <1>4, <3>1 DEF CopyInv, Area
    <3>2. CASE dest > src
      BY <1>1, <1>4, <3>2 DEF CopyInv, Area
    <3>3. CASE src = dest
      BY <1>1, <1>4, <3>3 DEF CopyInv, Area, Addr
    <3> QED
      BY <3>1, <3>2, <3>3
  <2> QED
    BY <2>1, <2>2 DEF CopyInv, CopiesRight, Returned, Area
<1> QED
  BY <1>2, <1>3, <1>4 DEF memcpy

LEMMA MemsetStep ==
  ASSUME MemType, LoopInv, memset, len < Index
  PROVE  SetInv' /\ CopiesRight'
<1> USE ConsoleAssumption DEF MemType
<1>1. op = "memset" /\ SetInv
  BY DEF memset, LoopInv
<1>2. CASE i < len /\ Again(i + 1, [mem EXCEPT ![dest + i] = value])
  <2>1. i' = i + 1 /\ UNCHANGED <<op, dest, len, value, before>>
    BY <1>2, SmallIndex DEF Again, args
  <2>2. mem' = [mem EXCEPT ![dest + i] = value] /\ dest + i \in Addr
    BY <1>2 DEF Again, Addr
  <2>3. SetInv'
    BY <1>1, <1>2, <2>1, <2>2 DEF SetInv, Addr
  <2> QED
    BY <1>1, <2>1, <2>3 DEF CopiesRight, Returned
<1>3. CASE i >= len /\ Return(0)
  <2>1. op' = "idle" /\ last' = "memset" /\ UNCHANGED <<dest, src, len, value, i, mem, before>>
    BY <1>1, <1>3 DEF Return, args
  <2> QED
    BY <1>1, <1>3, <2>1 DEF SetInv, CopiesRight, Returned, Area
<1> QED
  BY <1>2, <1>3 DEF memset

LEMMA MemmoveStep ==
  ASSUME MemType, LoopInv, memmove, len < Index
  PROVE  MoveInv' /\ CopiesRight'
<1> USE ConsoleAssumption DEF MemType
<1>1. op = "memmove" /\ MoveInv
  BY DEF memmove, LoopInv
<1>2. CASE i < len /\ Again(i + 1, [mem EXCEPT ![dest + i] = mem[src + i], ![src + i] = 0])
  <2>1. i' = i + 1 /\ UNCHANGED <<op, dest, src, len, before>>
    BY <1>2, SmallIndex DEF Again, args
  <2>2. /\ mem' = [mem EXCEPT ![dest + i] = mem[src + i], ![src + i] = 0]
        /\ dest + i \in Addr /\ src + i \in Addr
    BY <1>2 DEF Again, Addr
  <2>3. ASSUME dest < src \/ src + len <= dest
        PROVE  MoveInv'
    <3>1. mem[src + i] = before[src + i]
      BY <1>1, <1>2, <2>2, <2>3 DEF MoveInv
    <3>2. \A a \in Addr : mem'[a] = IF a = src + i THEN 0
                                    ELSE IF a = dest + i THEN mem[src + i] ELSE mem[a]
      BY <2>2
    <3>3. \A a \in Addr :
            mem'[a] = IF a \in dest .. dest + i THEN before[src + (a - dest)]
                      ELSE IF a \in src .. src + i THEN 0 ELSE before[a]
      <4> SUFFICES ASSUME NEW a \in Addr
                   PROVE  mem'[a] = IF a \in dest .. dest + i THEN before[src + (a - dest)]
                                    ELSE IF a \in src .. src + i THEN 0 ELSE before[a]
        OBVIOUS
      <4>1. mem[a] = IF a \in dest .. dest + i - 1 THEN before[src + (a - dest)]
                     ELSE IF a \in src .. src + i - 1 THEN 0 ELSE before[a]
        BY <1>1, <2>3 DEF MoveInv
      <4>2. mem'[a] = IF a = src + i THEN 0 ELSE IF a = dest + i THEN mem[src + i] ELSE mem[a]
        BY <3>2
      <4>3. a \in Int
        BY DEF Addr
      <4>4. CASE a = src + i
        BY <1>2, <2>3, <4>2, <4>3, <4>4
      <4>5. CASE a # src + i /\ a = dest + i
        <5>1. src + (a - dest) = src + i /\ a \in dest .. dest + i
          BY <4>3, <4>5
        <5> QED
          BY <3>1, <4>2, <4>5, <5>1
      <4>6. CASE a # src + i /\ a # dest + i
        BY <4>1, <4>2, <4>3, <4>6
      <4> QED
        BY <4>4, <4>5, <4>6
    <3> QED
      BY <1>2, <2>1, <3>3 DEF MoveInv
  <2> QED
    BY <1>1, <2>1, <2>3 DEF CopiesRight, Returned, MoveInv
<1>3. CASE i >= len /\ Return(0)
  <2>1. op' = "idle" /\ last' = "memmove" /\ UNCHANGED <<dest, src, len, value, i, mem, before>>
    BY <1>1, <1>3 DEF Return, args
  <2> QED
    BY <1>1, <1>3, <2>1 DEF MoveInv, CopiesRight, Returned, Area
<1> QED
  BY <1>2, <1>3 DEF memmove
LEMMA MemcmpStep ==
  ASSUME MemType, LoopInv, memcmp, len < Index
  PROVE  CompareInv' /\ CompareRight'
<1> USE ConsoleAssumption DEF MemType
<1>1. op = "memcmp" /\ i <= len /\ \A k \in 0 .. i - 1 : mem[dest + k] = mem[src + k]
  BY DEF memcmp, LoopInv, CompareInv
<1>2. CASE i < len /\ mem[dest + i] = mem[src + i] /\ Again(i + 1, mem)
  <2>1. i' = i + 1 /\ UNCHANGED <<op, dest, src, len, mem>>
    BY <1>2, SmallIndex DEF Again, args
  <2>2. CompareInv'
    BY <1>1, <1>2, <2>1 DEF CompareInv
  <2> QED
    BY <1>1, <2>1, <2>2 DEF CompareRight, Returned
<1>3. CASE /\ i < len /\ mem[dest + i] # mem[src + i]
           /\ Return(IF mem[dest + i] > mem[src + i] THEN 1 ELSE -1)
  <2>1. /\ op' = "idle" /\ last' = "memcmp" /\ UNCHANGED <<dest, src, len, i, mem>>
        /\ result' = IF mem[dest + i] > mem[src + i] THEN 1 ELSE -1
    BY <1>1, <1>3 DEF Return, args
  <2> DEFINE differ == {k \in 0 .. len - 1 : mem[dest + k] # mem[src + k]}
  <2>2. i \in differ /\ \A m \in differ : i <= m
    BY <1>1, <1>3
  <2> QED
    BY <2>1, <2>2 DEF CompareInv, CompareRight, Returned
<1>4. CASE i >= len /\ Return(0)
  <2>1. op' = "idle" /\ last' = "memcmp" /\ result' = 0 /\ UNCHANGED <<dest, src, len, mem>>
    BY <1>1, <1>4 DEF Return, args
  <2>2. {k \in 0 .. len - 1 : mem[dest + k] # mem[src + k]} = {}
    BY <1>1, <1>4
  <2> QED
    BY <2>1, <2>2 DEF CompareInv, CompareRight, Returned
<1> QED
  BY <1>2, <1>3, <1>4 DEF memcmp

LEMMA C16strcmpStep ==
  ASSUME MemType, LoopInv, c16strcmp
  PROVE  StringInv' /\ CompareRight'
<1> USE ConsoleAssumption DEF MemType
<1>1. /\ op = "c16strcmp" /\ len = 0
      /\ \A k \in 0 .. i - 1 : mem[dest + k] = mem[src + k] /\ mem[dest + k] # 0
  BY DEF c16strcmp, LoopInv, StringInv
<1>2. PICK d \in Nat : dest + d < Cells /\ mem[dest + d] = 0 /\ d < Index /\ i <= d
  BY <1>1 DEF LoopInv, StringInv
<1>3. PICK s \in Nat : src + s < Cells /\ mem[src + s] = 0 /\ s < Index /\ i <= s
  BY <1>1 DEF LoopInv, StringInv
<1> DEFINE p == mem[dest + i]
           q == mem[src + i]
<1>4. CASE p # 0 /\ q # 0 /\ p = q
  <2>1. i + 1 <= d /\ i + 1 <= s
    <3>1. i # d /\ i # s
      BY <1>2, <1>3, <1>4
    <3> QED
      BY <1>2, <1>3, <3>1
  <2>2. i + 1 < Index /\ i + 1 \in Nat
    BY <1>2, <2>1
  <2>3. (i + 1) % Index = i + 1
    BY <2>2, SmallIndex
  <2>4. i' = i + 1 /\ UNCHANGED <<op, dest, src, len, mem>>
    BY <1>4, <2>3 DEF c16strcmp, Again, args
  <2>5. \A k \in 0 .. i : mem[dest + k] = mem[src + k] /\ mem[dest + k] # 0
    BY <1>1, <1>4
  <2>6. StringInv'
    BY <1>1, <1>2, <1>3, <2>1, <2>4, <2>5 DEF StringInv
  <2> QED
    BY <1>1, <2>4, <2>6 DEF CompareRight, Returned
<1>5. CASE ~ (p # 0 /\ q # 0 /\ p = q)
  <2>1. /\ op' = "idle" /\ last' = "c16strcmp" /\ UNCHANGED <<dest, src, len, mem>>
        /\ result' = IF p = q THEN 1 ELSE 0
    BY <1>1, <1>5 DEF c16strcmp, Return, args
  <2> DEFINE Same(l) == /\ dest + l < Cells /\ src + l < Cells
                        /\ mem[dest + l] = 0 /\ mem[src + l] = 0
                        /\ \A k \in 0 .. l - 1 : mem[dest + k] = mem[src + k] /\ mem[dest + k] # 0
  <2>2. ASSUME p = q PROVE i \in 0 .. Cells - 1 /\ Same(i)
    BY <1>1, <1>2, <1>3, <1>5, <2>2
  <2>3. ASSUME p # q, NEW l \in 0 .. Cells - 1, Same(l) PROVE FALSE
    <3>1. CASE l < i
      BY <1>1, <2>3, <3>1
    <3>2. CASE l = i
      BY <2>3, <3>2
    <3>3. CASE l > i
      BY <2>3, <3>3
    <3> QED
      BY <3>1, <3>2, <3>3
  <2>4. (result' = 1) = \E l \in 0 .. Cells - 1 : Same(l)
    <3> DEFINE Found == \E l \in 0 .. Cells - 1 : Same(l)
    <3>1. (result' = 1) <=> Found
      <4> HIDE DEF Same, p, q
      <4> QED
        BY <2>1, <2>2, <2>3
    <3> HIDE DEF Found
    <3>2. (result' = 1) = Found
      BY <3>1, Zenon DEF Found
    <3> QED
      BY <3>2 DEF Found
  <2> QED
    BY <2>1, <2>4 DEF StringInv, CompareRight, Returned
<1> QED
  BY <1>4, <1>5

LEMMA MemStep == MemInv /\ [Next]_vars => MemInv'
<1> SUFFICES ASSUME MemInv, [Next]_vars PROVE LoopInv' /\ CopiesRight' /\ CompareRight'
  BY TypeStep DEF MemInv
<1> USE ConsoleAssumption
<1>0. MemType /\ LoopInv /\ CopiesRight /\ CompareRight
  BY DEF MemInv
<1>1. ASSUME NEW v \in 0 .. Word - 1, NEW b \in {Decimal, Hex}, PrintNumber(v, b) PROVE LoopInv' /\ CopiesRight' /\ CompareRight'
  <2>1. op' \in {"idle", "print"} /\ (op' = "idle" => last' = "print")
    BY <1>1 DEF PrintNumber
  <2> QED
    BY <2>1 DEF LoopInv, CopyInv, SetInv, MoveInv, CompareInv, StringInv, CopiesRight, CompareRight, Returned
<1>2. ASSUME NEW f \in Functions, NEW d \in Addr, NEW s \in Addr, NEW l \in Addr, NEW v \in Byte,
             Call(f, d, s, l, v)
      PROVE  LoopInv' /\ CopiesRight' /\ CompareRight'
  <2>1. /\ op' = f /\ f # "idle" /\ dest' = d /\ src' = s /\ len' = l /\ value' = v
        /\ mem' = mem /\ before' = mem /\ l \in Nat
        /\ i' = IF f = "memcpy" /\ d > s THEN l % Index ELSE 0
    BY <1>2 DEF Call, Functions, Addr
  <2>2. CopiesRight' /\ CompareRight'
    BY <2>1 DEF CopiesRight, CompareRight, Returned
  <2>3. l < Index => CopyInv' /\ SetInv' /\ MoveInv' /\ CompareInv'
    <3> SUFFICES ASSUME l < Index PROVE CopyInv' /\ SetInv' /\ MoveInv' /\ CompareInv'
      OBVIOUS
    <3>1. i' = IF f = "memcpy" /\ d > s THEN l ELSE 0
      BY <2>1, SmallIndex
    <3>2. CopyInv'
      BY <1>0, <2>1, <3>1 DEF CopyInv, Addr
    <3>3. SetInv' /\ MoveInv' /\ CompareInv'
      BY <1>0, <2>1, <3>1 DEF SetInv, MoveInv, CompareInv, Addr
    <3> QED
      BY <3>2, <3>3
  <2>4. StringInv'
    <3> SUFFICES ASSUME f = "c16strcmp" PROVE StringInv'
      BY <2>1 DEF StringInv
    <3>1. l = 0 /\ Terminated(d) /\ Terminated(s) /\ i' = 0
      BY <1>2, <2>1 DEF Call
    <3>2. PICK e \in d .. Cells - 1 : mem[e] = 0 /\ e - d < Index
      BY <3>1 DEF Terminated
    <3>3. PICK g \in s .. Cells - 1 : mem[g] = 0 /\ g - s < Index
      BY <3>1 DEF Terminated
    <3>4. e - d \in Nat /\ d + (e - d) = e /\ e < Cells /\ g - s \in Nat /\ s + (g - s) = g /\ g < Cells
      BY DEF Addr
    <3>5. \E m \in Nat : d + m < Cells /\ mem[d + m] = 0 /\ m < Index /\ 0 <= m
      BY <3>2, <3>4
    <3>6. \E m \in Nat : s + m < Cells /\ mem[s + m] = 0 /\ m < Index /\ 0 <= m
      BY <3>3, <3>4
    <3>7. len' = 0 /\ \A k \in 0 .. i' - 1 : FALSE
      BY <2>1, <3>1
    <3>8. \E m \in Nat : dest' + m < Cells /\ mem'[dest' + m] = 0 /\ m < Index /\ i' <= m
      BY <2>1, <3>1, <3>5
    <3>9. \E m \in Nat : src' + m < Cells /\ mem'[src' + m] = 0 /\ m < Index /\ i' <= m
      BY <2>1, <3>1, <3>6
    <3> QED
      BY <3>7, <3>8, <3>9, Zenon DEF StringInv
  <2> QED
    BY <2>1, <2>2, <2>3, <2>4 DEF LoopInv
<1>3. CASE Digit \/ Flush
  <2>1. op = "print" /\ op' \in {"print", "undefined", "idle"} /\ (op' = "idle" => last' = "print")
    BY <1>3 DEF Digit, Flush
  <2> QED
    BY <2>1 DEF LoopInv, CopyInv, SetInv, MoveInv, CompareInv, StringInv, CopiesRight, CompareRight, Returned
<1>4. CASE memcpy
  <2>1. op = "memcpy" /\ len' = len /\ (op' = "memcpy" \/ (op' = "idle" /\ last' = "memcpy"))
    BY <1>4 DEF memcpy, Again, Return, args
  <2>2. len < Index => CopyInv' /\ CopiesRight'
    BY <1>0, <1>4, MemcpyStep
  <2>3. CopiesRight' \/ len < Index
    BY <1>0, <2>1 DEF CopiesRight, Returned, MemType
  <2> QED
    BY <2>1, <2>2, <2>3 DEF LoopInv, SetInv, MoveInv, CompareInv, StringInv, CompareRight, Returned
<1>5. CASE memset
  <2>1. op = "memset" /\ len' = len /\ (op' = "memset" \/ (op' = "idle" /\ last' = "memset"))
    BY <1>5 DEF memset, Again, Return, args
  <2>2. len < Index => SetInv' /\ CopiesRight'
    BY <1>0, <1>5, MemsetStep
  <2>3. CopiesRight' \/ len < Index
    BY <1>0, <2>1 DEF CopiesRight, Returned, MemType
  <2> QED
    BY <2>1, <2>2, <2>3 DEF LoopInv, CopyInv, MoveInv, CompareInv, StringInv, CompareRight, Returned
<1>6. CASE memmove
  <2>1. op = "memmove" /\ len' = len /\ (op' = "memmove" \/ (op' = "idle" /\ last' = "memmove"))
    BY <1>6 DEF memmove, Again, Return, args
  <2>2. len < Index => MoveInv' /\ CopiesRight'
    BY <1>0, <1>6, MemmoveStep
  <2>3. CopiesRight' \/ len < Index
    BY <1>0, <2>1 DEF CopiesRight, Returned, MemType
  <2> QED
    BY <2>1, <2>2, <2>3 DEF LoopInv, CopyInv, SetInv, CompareInv, StringInv, CompareRight, Returned
<1>7. CASE memcmp
  <2>1. op = "memcmp" /\ len' = len /\ (op' = "memcmp" \/ (op' = "idle" /\ last' = "memcmp"))
    BY <1>7 DEF memcmp, Again, Return, args
  <2>2. len < Index => CompareInv' /\ CompareRight'
    BY <1>0, <1>7, MemcmpStep
  <2>3. CompareRight' \/ len < Index
    BY <1>0, <2>1 DEF CompareRight, Returned, MemType
  <2> QED
    BY <2>1, <2>2, <2>3 DEF LoopInv, CopyInv, SetInv, MoveInv, StringInv, CopiesRight, Returned
<1>8. CASE c16strcmp
  <2>1. op' = "c16strcmp" \/ (op' = "idle" /\ last' = "c16strcmp")
    BY <1>8 DEF c16strcmp, Again, Return
  <2>2. StringInv' /\ CompareRight'
    BY <1>0, <1>8, C16strcmpStep
  <2> QED
    BY <2>1, <2>2 DEF LoopInv, CopyInv, SetInv, MoveInv, CompareInv, CopiesRight, Returned
<1>9. CASE UNCHANGED vars
  <2>1. UNCHANGED <<op, last, dest, src, len, value, i, mem, before, result>>
    BY <1>9 DEF vars, call, memory, args
  <2>2. CopyInv' = CopyInv /\ SetInv' = SetInv /\ MoveInv' = MoveInv
    BY <2>1 DEF CopyInv, SetInv, MoveInv
  <2>3. CompareInv' = CompareInv /\ StringInv' = StringInv
    BY <2>1 DEF CompareInv, StringInv
  <2>4. CopiesRight' = CopiesRight
    BY <2>1 DEF CopiesRight, Returned
  <2>5. CompareRight' = CompareRight
    BY <2>1 DEF CompareRight, Returned
  <2>6. LoopInv'
    BY <1>0, <2>1, <2>2, <2>3 DEF LoopInv
  <2> QED
    BY <1>0, <2>4, <2>5, <2>6
<1> QED
  BY <1>0, <1>1, <1>2, <1>3, <1>4, <1>5, <1>6, <1>7, <1>8, <1>9 DEF Next, Step

LEMMA MemAlways == Spec => []MemInv
BY MemInit, MemStep, PTL DEF Spec

\* memcpy and memset always, and memmove on areas where the destination is not
\* inside the source, do what they should, in memories of every size
\* (console.c:57-89).
THEOREM CopiesAreRight == Spec => []CopiesRight
<1>1. MemInv => CopiesRight
  BY DEF MemInv
<1> QED
  BY <1>1, MemAlways, PTL

\* memcmp finds the first byte that differs, c16strcmp whether two strings are
\* the same (console.c:91-114).
THEOREM ComparesAreRight == Spec => []CompareRight
<1>1. MemInv => CompareRight
  BY DEF MemInv
<1> QED
  BY <1>1, MemAlways, PTL

-----------------------------------------------------------------------------
(* Types. *)

CallType ==
  /\ op \in Functions \union {"idle", "print", "undefined"}
  /\ last \in Functions \union {"idle", "print"} /\ calls \in 0 .. MaxCalls
  /\ dest \in Addr /\ src \in Addr /\ len \in 0 .. Cells
  /\ i \in 0 .. Index - 1 /\ result \in {-1, 0, 1}

LEMMA CallTypeInit == Init => CallType
BY ConsoleAssumption DEF Init, CallType, Addr

LEMMA CallTypeStep == CallType /\ [Next]_vars => CallType'
<1> SUFFICES ASSUME CallType, [Next]_vars PROVE CallType'
  OBVIOUS
<1> USE ConsoleAssumption DEF CallType
<1>0. \A k \in Int : k % Index \in 0 .. Index - 1
  OBVIOUS
<1>1. ASSUME NEW v \in 0 .. Word - 1, NEW b \in {Decimal, Hex}, PrintNumber(v, b) PROVE CallType'
  BY <1>1 DEF PrintNumber, memory, args
<1>2. ASSUME NEW f \in Functions, NEW d \in Addr, NEW s \in Addr, NEW l \in Addr, NEW v \in Byte,
             Call(f, d, s, l, v)
      PROVE  CallType'
  <2>1. l \in Int /\ l \in 0 .. Cells /\ 0 \in 0 .. Index - 1
    BY DEF Addr
  <2>2. l % Index \in 0 .. Index - 1
    BY <1>0, <2>1
  <2> QED
    BY <1>2, <2>1, <2>2 DEF Call
<1>3. CASE Digit \/ Flush
  BY <1>3 DEF Digit, Flush, memory, args, call
<1>4. CASE memcpy \/ memmove \/ memset \/ memcmp \/ c16strcmp
  <2>1. op \in Functions
    BY <1>4 DEF memcpy, memmove, memset, memcmp, c16strcmp, Functions
  <2>2. UNCHANGED <<args, calls>>
    BY <1>4 DEF memcpy, memmove, memset, memcmp, c16strcmp, Again, Return
  <2>3. \/ UNCHANGED <<op, last, result>> /\ i' \in 0 .. Index - 1
        \/ op' = "idle" /\ last' = op /\ result' \in {-1, 0, 1} /\ i' = i
    BY <1>0, <1>4 DEF memcpy, memmove, memset, memcmp, c16strcmp, Again, Return
  <2> QED
    BY <2>1, <2>2, <2>3 DEF args
<1>5. CASE UNCHANGED vars
  BY <1>5 DEF vars, call, memory, args
<1> QED
  BY <1>1, <1>2, <1>3, <1>4, <1>5 DEF Next, Step

\* The type invariant, for numbers of every size and memories of every content
\* (console.c).
THEOREM TypeCorrect == Spec => []TypeOK
<1>1. CallType /\ NumberInv /\ MemInv => TypeOK
  BY DEF CallType, NumberInv, NumberType, MemInv, MemType, TypeOK
<1>2. Spec => []CallType
  BY CallTypeInit, CallTypeStep, PTL DEF Spec
<1> QED
  BY <1>1, <1>2, NumberAlways, MemAlways, PTL
=============================================================================
