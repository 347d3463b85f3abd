---------------------------- MODULE ShellProofs ----------------------------
(* Proofs about Shell for every size of the buffer, every number of         *)
(* arguments and every set of characters.                                   *)
EXTENDS Shell, WellFoundedInduction, TLAPS

\* What is proved together: where the arguments end must be known to know
\* that the words a command gets are sequences.
Counted ==
  /\ pc = "key" => held = unknown
  /\ pc = "split" => held = unknown + 1

ShellInv == TypeOK /\ ArgsInLine /\ Counted

\* The shell starts with nothing typed.
LEMMA InvInit == Init => ShellInv
<1> SUFFICES ASSUME Init PROVE ShellInv
  OBVIOUS
<1>1. 0 \in Place /\ buffer \in [Place -> Chars]
  BY SizeAssumption, CharsAssumption DEF Init, Place
<1> QED
  BY <1>1, SizeAssumption DEF Init, ShellInv, TypeOK, ArgsInLine, Counted

\* The line on the screen is a sequence of characters.
LEMMA TypedType == TypeOK => Typed \in Seq(Chars)
<1> SUFFICES ASSUME TypeOK PROVE Typed \in Seq(Chars)
  OBVIOUS
<1>1. c \in Nat /\ \A k \in 1 .. c : k - 1 \in Place
  BY SizeAssumption DEF TypeOK, Place
<1>2. Typed \in [1 .. c -> Chars]
  BY <1>1 DEF Typed, TypeOK
<1> QED
  BY <1>1, <1>2

\* Keys leave everything but the line alone.
LEMMA KeySteps ==
  ASSUME ShellInv, NEW ch \in Chars, Type(ch) \/ Backspace \/ Escape
  PROVE  ShellInv'
<1>1. CASE Type(ch)
  <2>1. c \in Place /\ c' \in Place /\ buffer' \in [Place -> Chars]
    BY <1>1, SizeAssumption DEF Type, Key, ShellInv, TypeOK, Place
  <2> QED
    BY <1>1, <2>1 DEF Type, Key, ShellInv, TypeOK, ArgsInLine, Counted, splitter, counts
<1>2. CASE Backspace
  <2>1. c' \in Place
    BY <1>2, SizeAssumption DEF Backspace, Key, Place
  <2> QED
    BY <1>2, <2>1 DEF Backspace, Key, ShellInv, TypeOK, ArgsInLine, Counted, splitter, counts
<1>3. CASE Escape
  BY <1>3 DEF Escape, ShellInv, TypeOK, ArgsInLine, Counted, editor, splitter, counts
<1> QED
  BY <1>1, <1>2, <1>3

\* Enter ends the line with a 0 at c, which is where the splitter must stop.
LEMMA EnterStep == ShellInv /\ Enter => ShellInv'
<1> SUFFICES ASSUME ShellInv, Enter PROVE ShellInv'
  OBVIOUS
<1>0. TypeOK /\ Counted /\ pc = "key"
  BY DEF ShellInv, Enter, Key
<1>1. entered' \in Seq(Chars) /\ lines' \in Nat
  BY <1>0, TypedType DEF Enter, TypeOK
<1>2. buffer' \in [Place -> Chars] /\ buffer'[c] = Nul /\ c' = c /\ c \in Place
  BY <1>0, CharsAssumption DEF Enter, TypeOK
<1>3. UNCHANGED <<ran, unknown>>
  BY DEF Enter
<1>4. CASE pc' = "halt" /\ UNCHANGED <<held, splitter>>
  BY <1>0, <1>1, <1>2, <1>3, <1>4 DEF ShellInv, TypeOK, ArgsInLine, Counted, splitter
<1>5. CASE pc' = "split" /\ held' = held + 1 /\ i' = 0 /\ args' = <<>>
  <2>1. held' \in Nat /\ i' \in Place /\ i' <= c' /\ Len(args') <= MaxArgs
    BY <1>0, <1>2, <1>5, SizeAssumption DEF TypeOK, Place
  <2>2. held' = unknown' + 1
    BY <1>0, <1>3, <1>5 DEF Counted
  <2> QED
    BY <1>0, <1>1, <1>2, <1>3, <1>5, <2>1, <2>2 DEF ShellInv, TypeOK, ArgsInLine, Counted
<1> QED
  BY <1>4, <1>5 DEF Enter

\* A loop of the splitter that starts in the line ends in it, if it stops at 0.
LEMMA LoopEnds ==
  ASSUME ShellInv, pc = "split", NEW j \in Place, NEW e \in Place, NEW stop,
         j <= c, Nul \in stop, EndsAt(j, stop, e)
  PROVE  e <= c
<1> SUFFICES ASSUME e > c PROVE FALSE
  BY DEF ShellInv, TypeOK, Place
<1>1. c \in j .. e - 1 /\ buffer[c] = Nul
  BY DEF ShellInv, TypeOK, ArgsInLine, Place
<1> QED
  BY <1>1 DEF EndsAt

\* An argument that starts at a, in the line and not before i, and ends at e
\* is taken.
LEMMA TakeStep ==
  ASSUME ShellInv, pc = "split", Len(args) < MaxArgs,
         NEW a \in Place, NEW e \in Place, i <= a, a <= e, e <= c,
         NEW stop, Nul \in stop, EndsAt(a, stop, e), Take(a, e)
  PROVE  ShellInv'
<1>0. TypeOK /\ ArgsInLine /\ Counted
  BY DEF ShellInv
<1>1. /\ a \in Nat /\ e \in Nat /\ i \in Nat /\ c \in Nat
      /\ \A p \in Nat : p <= c => p \in Place
  BY <1>0, SizeAssumption DEF TypeOK, Place
<1>2. buffer' \in [Place -> Chars] /\ buffer' = [buffer EXCEPT ![e] = Nul] /\ buffer'[c] = Nul
  BY <1>0, CharsAssumption DEF Take, TypeOK, ArgsInLine
<1>3. i' \in Nat /\ i' <= c /\ e <= i' /\ i <= i'
  <2>1. buffer[e] # Nul => e < c
    BY <1>0, <1>1 DEF ArgsInLine
  <2> QED
    BY <1>1, <2>1 DEF Take
<1>4. i' \in Place /\ c' = c /\ pc' = pc
  BY <1>1, <1>3 DEF Take
<1>5. args' = Append(args, a) /\ args' \in Seq(Place) /\ Len(args') = Len(args) + 1
  BY <1>0 DEF Take, TypeOK
<1>6. Len(args') <= MaxArgs
  BY <1>0, <1>5, SizeAssumption DEF TypeOK
<1>7. ASSUME NEW k \in DOMAIN args'
      PROVE  \E x \in args'[k] .. i' : /\ buffer'[x] = Nul
                                     /\ \A m \in args'[k] .. x - 1 : buffer'[m] # Nul
  <2>1. CASE k \in DOMAIN args
    <3>1. args'[k] = args[k] /\ args[k] \in Place
      BY <1>0, <1>5, <2>1 DEF TypeOK
    <3>2. PICK x \in args[k] .. i : EndsAt(args[k], {Nul}, x)
      BY <1>0, <2>1 DEF ArgsInLine
    <3>3. args[k] \in Nat /\ x \in Nat /\ x <= i /\ x \in Place /\ x \in args[k] .. i'
      BY <1>0, <1>1, <1>3, <3>1, <3>2 DEF Place
    <3>4. buffer'[x] = Nul
      BY <1>0, <1>2, <3>2, <3>3 DEF EndsAt, TypeOK
    <3>5. ASSUME NEW m \in args[k] .. x - 1 PROVE buffer'[m] # Nul
      <4>1. m \in Place /\ m # e
        BY <1>0, <1>1, <3>3 DEF TypeOK, Place
      <4>2. buffer[m] # Nul
        BY <3>2 DEF EndsAt
      <4> QED
        BY <1>0, <1>2, <4>1, <4>2 DEF TypeOK
    <3> QED
      BY <3>1, <3>3, <3>4, <3>5
  <2>2. CASE k \notin DOMAIN args
    <3>1. k = Len(args) + 1 /\ args'[k] = a
      BY <1>0, <1>5, <2>2 DEF TypeOK
    <3>2. e \in a .. i' /\ buffer'[e] = Nul
      BY <1>0, <1>1, <1>2, <1>3 DEF TypeOK
    <3>3. ASSUME NEW m \in a .. e - 1 PROVE buffer'[m] # Nul
      <4>1. m \in Place /\ m # e /\ buffer[m] # Nul
        BY <1>1 DEF EndsAt, Place
      <4> QED
        BY <1>0, <1>2, <4>1 DEF TypeOK
    <3> QED
      BY <3>1, <3>2, <3>3
  <2> QED
    BY <2>1, <2>2
<1>8. TypeOK'
  BY <1>0, <1>2, <1>4, <1>5, <1>6 DEF Take, TypeOK, counts
<1>9. ArgsInLine'
  BY <1>2, <1>3, <1>4, <1>7 DEF ArgsInLine, EndsAt
<1>10. Counted'
  BY <1>0, <1>4 DEF Take, Counted, counts
<1> QED
  BY <1>8, <1>9, <1>10 DEF ShellInv

LEMMA ArgSteps == ShellInv /\ (TextArg \/ QuotedArg \/ Trailing) => ShellInv'
<1> SUFFICES ASSUME ShellInv, TextArg \/ QuotedArg \/ Trailing PROVE ShellInv'
  OBVIOUS
<1>0. /\ pc = "split" /\ Len(args) < MaxArgs /\ i <= c /\ buffer[c] = Nul
      /\ i \in Place /\ c \in Place
  BY DEF ShellInv, TypeOK, ArgsInLine, TextArg, QuotedArg, Trailing, More
<1>1. Nul \in NotSpace /\ Quote # Nul
  BY CharsAssumption DEF NotSpace
<1>2. CASE TextArg
  <2>1. PICK a \in Place, e \in Place :
          /\ i <= a /\ EndsAt(i, NotSpace, a)
          /\ a <= e /\ EndsAt(a, {Nul, Space}, e)
          /\ Take(a, e)
    BY <1>2 DEF TextArg
  <2>2. a <= c
    BY <1>0, <1>1, <2>1, LoopEnds
  <2>3. e <= c
    BY <1>0, <2>1, <2>2, LoopEnds
  <2> QED
    BY <1>0, <2>1, <2>3, TakeStep
<1>3. CASE QuotedArg
  <2>1. PICK a \in Place, e \in Place :
          /\ i <= a /\ EndsAt(i, NotSpace, a) /\ buffer[a] = Quote
          /\ a < e /\ EndsAt(a + 1, {Nul, Quote}, e)
          /\ Take(a + 1, e)
    BY <1>3 DEF QuotedArg
  <2>2. a <= c /\ a # c
    BY <1>0, <1>1, <2>1, LoopEnds
  <2>3. a + 1 \in Place /\ a + 1 <= c /\ i <= a + 1 /\ a + 1 <= e
    BY <1>0, <2>1, <2>2, SizeAssumption DEF Place
  <2>4. e <= c
    BY <1>0, <2>1, <2>3, LoopEnds
  <2> QED
    BY <1>0, <2>1, <2>3, <2>4, TakeStep
<1>4. CASE Trailing
  <2>1. PICK e \in Place : i <= e /\ EndsAt(i, NotSpace, e) /\ i' = e
    BY <1>4 DEF Trailing
  <2>2. UNCHANGED <<pc, editor, args, counts, entered, ran>>
    BY <1>4 DEF Trailing
  <2>3. e <= c
    BY <1>0, <1>1, <2>1, LoopEnds
  <2>4. TypeOK' /\ Counted'
    BY <2>1, <2>2 DEF ShellInv, TypeOK, Counted, editor, counts
  <2>5. ASSUME NEW k \in DOMAIN args PROVE \E x \in args[k] .. e : EndsAt(args[k], {Nul}, x)
    <3>1. PICK x \in args[k] .. i : EndsAt(args[k], {Nul}, x)
      BY <1>0 DEF ShellInv, ArgsInLine
    <3>2. args[k] \in Place
      BY DEF ShellInv, TypeOK
    <3>3. x \in args[k] .. e
      BY <1>0, <2>1, <3>2 DEF Place
    <3> QED
      BY <3>1, <3>3
  <2>6. ArgsInLine'
    BY <1>0, <2>1, <2>2, <2>3, <2>5 DEF ArgsInLine, EndsAt, editor
  <2> QED
    BY <2>4, <2>6 DEF ShellInv
<1> QED
  BY <1>2, <1>3, <1>4

\* An argument is text: there is a 0 behind it.
LEMMA TextType ==
  ASSUME ShellInv, pc = "split", NEW k \in DOMAIN args
  PROVE  Text(args[k]) \in Seq(Chars)
<1>0. TypeOK /\ ArgsInLine
  BY DEF ShellInv
<1> DEFINE a == args[k]
           e == CHOOSE x \in Place : a <= x /\ EndsAt(a, {Nul}, x)
<1>1. a \in Place
  BY <1>0 DEF TypeOK
<1>2. \E x \in Place : a <= x /\ EndsAt(a, {Nul}, x)
  <2>1. PICK x \in a .. i : EndsAt(a, {Nul}, x)
    BY <1>0 DEF ArgsInLine
  <2>2. x \in Place /\ a <= x
    BY <1>0, <1>1, <2>1, SizeAssumption DEF TypeOK, Place
  <2> QED
    BY <2>1, <2>2
<1>3. e \in Place /\ a <= e
  BY <1>2
<1> HIDE DEF e
<1>4. e - a \in Nat /\ \A m \in 1 .. e - a : a + m - 1 \in Place
  BY <1>1, <1>3, SizeAssumption DEF Place
<1>5. [m \in 1 .. e - a |-> buffer[a + m - 1]] \in [1 .. e - a -> Chars]
  BY <1>0, <1>4 DEF TypeOK
<1>6. [m \in 1 .. e - a |-> buffer[a + m - 1]] \in Seq(Chars)
  BY <1>4, <1>5
<1> QED
  BY <1>6 DEF Text, e

LEMMA CallSteps == ShellInv /\ (Run \/ NotFound) => ShellInv'
<1> SUFFICES ASSUME ShellInv, Run \/ NotFound PROVE ShellInv'
  OBVIOUS
<1>0. TypeOK /\ Counted /\ pc = "split"
  BY DEF ShellInv, Run, NotFound, Split
<1>1. ran' \in Seq(Seq(Chars))
  <2>1. CASE Run
    <3>1. Len(args) \in Nat /\ DOMAIN args = 1 .. Len(args)
      BY <1>0 DEF TypeOK
    <3>2. ran' \in [1 .. Len(args) -> Seq(Chars)]
      BY <1>0, <2>1, <3>1, TextType DEF Run
    <3> QED
      BY <3>1, <3>2
  <2>2. CASE NotFound
    BY <1>0, <2>2 DEF NotFound, TypeOK
  <2> QED
    BY <2>1, <2>2
<1>2. ASSUME Prompt PROVE /\ pc' = "key" /\ c' \in Place /\ i' \in Place
                          /\ buffer' \in [Place -> Chars]
                          /\ args' = <<>> /\ entered' = <<>>
  BY <1>0, <1>2, SizeAssumption, CharsAssumption DEF Prompt, TypeOK, Place
<1>3. 0 <= MaxArgs
  BY SizeAssumption
<1>4. CASE Run
  <2>1. UNCHANGED <<lines, unknown>> /\ held = unknown + 1
    BY <1>0, <1>4 DEF Run, Counted
  <2>2. CASE pc' = "away" /\ UNCHANGED <<editor, splitter, entered, held>>
    BY <1>0, <1>1, <2>1, <2>2 DEF ShellInv, TypeOK, ArgsInLine, Counted, editor, splitter
  <2>3. CASE Prompt /\ held' = held - 1
    <3>1. held' = unknown' /\ held' \in Nat
      BY <1>0, <2>1, <2>3 DEF TypeOK
    <3> QED
      BY <1>0, <1>1, <1>2, <1>3, <2>1, <2>3, <3>1 DEF ShellInv, TypeOK, ArgsInLine, Counted
  <2> QED
    BY <1>4, <2>2, <2>3 DEF Run
<1>5. CASE NotFound
  <2>1. UNCHANGED <<held, lines>> /\ unknown' = unknown + 1 /\ Prompt
    BY <1>5 DEF NotFound
  <2>2. unknown' \in Nat /\ held' = unknown'
    BY <1>0, <2>1 DEF TypeOK, Counted
  <2> QED
    BY <1>0, <1>1, <1>2, <1>3, <2>1, <2>2 DEF ShellInv, TypeOK, ArgsInLine, Counted
<1> QED
  BY <1>4, <1>5

LEMMA InvStep == ShellInv /\ [Next]_vars => ShellInv'
<1>1. ASSUME ShellInv, UNCHANGED vars PROVE ShellInv'
  BY <1>1 DEF ShellInv, TypeOK, ArgsInLine, EndsAt, Counted, vars
<1>2. ASSUME ShellInv, Next PROVE ShellInv'
  <2>1. CASE \E ch \in Chars : Type(ch)
    BY <1>2, <2>1, KeySteps
  <2>2. CASE Backspace \/ Escape
    BY <1>2, <2>2, KeySteps, CharsAssumption
  <2>3. CASE Enter
    BY <1>2, <2>3, EnterStep
  <2>4. CASE Step
    BY <1>2, <2>4, ArgSteps, CallSteps DEF Step
  <2> QED
    BY <1>2, <2>1, <2>2, <2>3, <2>4 DEF Next
<1> QED
  BY <1>1, <1>2

\* What the type and the two properties below rest on always holds.
THEOREM Invariance == Spec => []ShellInv
BY InvInit, InvStep, PTL DEF Spec

\* The indices of the editor and of the splitter stay in the buffer, and no
\* command gets more arguments than args holds (shell.c:33-50 and 220-258).
THEOREM TypeCorrect == Spec => []TypeOK
<1>1. ShellInv => TypeOK
  BY DEF ShellInv
<1> QED
  BY <1>1, Invariance, PTL

\* The splitter never gets behind the end of the line, and every argument
\* found so far ends before the rest of it, for every line (shell.c:220-258).
THEOREM ArgumentsInLine == Spec => []ArgsInLine
<1>1. ShellInv => ArgsInLine
  BY DEF ShellInv
<1> QED
  BY <1>1, Invariance, PTL

\* At the prompt, only lines that named no command have left an args array
\* behind (shell.c:264-274).
THEOREM OnlyUnknownLinesKept == Spec => []OnlyUnknownKept
<1>1. ShellInv => OnlyUnknownKept
  BY DEF ShellInv, Counted, OnlyUnknownKept
<1> QED
  BY <1>1, Invariance, PTL

-----------------------------------------------------------------------------
(* The words of the line.  Reading is what the automaton of CommandLine has *)
(* after each character; the induction over the line is by the least        *)
(* counterexample.                                                          *)

\* The least number principle, which is induction.
LEMMA Least ==
  ASSUME NEW T \in SUBSET Nat, T # {}
  PROVE  \E x \in T : \A y \in T : x <= y
<1>1. PICK x \in T : \A y \in T : ~ (<<y, x>> \in OpToRel(<, Nat))
  BY NatLessThanWellFounded, WFMin, Zenon
<1>2. \A y \in T : ~ (y < x)
  BY <1>1 DEF OpToRel
<1> QED
  BY <1>2


Modes == {"between", "text", "quoted", "end"}

\* The states of the automaton: inside a word there is a word.
States == {q \in [mode : Modes, words : Seq(Seq(Chars))] :
             q.mode \in {"text", "quoted"} => q.words # <<>>}

Start == [mode |-> "between", words |-> <<>>]

\* The states after the characters of l up to each place, step by step.
Read(l, R, n) ==
  /\ R \in [0 .. n -> States] /\ R[0] = Start
  /\ \A k \in 1 .. n : R[k] = Line!After(R[k - 1], l[k])

\* In a word, its last character so far is replaced by one more.
LEMMA LastWord ==
  ASSUME NEW W \in Seq(Seq(Chars)), W # <<>>, NEW ch \in Chars
  PROVE  [W EXCEPT ![Len(W)] = Append(@, ch)] \in Seq(Seq(Chars)) \ {<<>>}
<1>1. Len(W) \in DOMAIN W /\ W[Len(W)] \in Seq(Chars)
  OBVIOUS
<1>2. Append(W[Len(W)], ch) \in Seq(Chars)
  BY <1>1
<1> QED
  BY <1>1, <1>2

LEMMA AfterType ==
  ASSUME NEW q \in States, NEW ch \in Chars
  PROVE  Line!After(q, ch) \in States
<1>0. q \in [mode : Modes, words : Seq(Seq(Chars))] /\ q.words \in Seq(Seq(Chars))
  BY DEF States
<1>1. ASSUME NEW w \in Seq(Chars), NEW m \in Modes PROVE Line!Begin(q, m, w) \in States
  BY <1>0 DEF Line!Begin, States
<1>2. ASSUME q.mode \in {"text", "quoted"} PROVE Line!Extend(q, ch) \in States
  <2>1. q.words # <<>>
    BY <1>2 DEF States
  <2>2. [q.words EXCEPT ![Len(q.words)] = Append(@, ch)] \in Seq(Seq(Chars)) \ {<<>>}
    BY <1>0, <2>1, LastWord
  <2> QED
    BY <1>0, <2>2 DEF Line!Extend, States
<1>3. ASSUME NEW m \in {"between", "end"} PROVE [q EXCEPT !.mode = m] \in States
  BY <1>0 DEF States, Modes
<1>4. <<>> \in Seq(Chars) /\ <<ch>> \in Seq(Chars)
  OBVIOUS
<1>5. q.mode \in Modes
  BY <1>0
<1> QED
  BY <1>1, <1>2, <1>3, <1>4, <1>5 DEF Line!After, Modes

\* The automaton reads a line: there is a state after each character.
LEMMA ReadExists ==
  ASSUME NEW l \in Seq(Chars)
  PROVE  \A n \in 0 .. Len(l) : \E R : Read(l, R, n)
<1> DEFINE T == {n \in 0 .. Len(l) : ~ \E R : Read(l, R, n)}
<1> SUFFICES ASSUME T # {} PROVE FALSE
  OBVIOUS
<1>1. PICK n \in T : \A y \in T : n <= y
  <2>1. T \in SUBSET Nat
    OBVIOUS
  <2> HIDE DEF T
  <2> QED
    BY <2>1, Least
<1>2. Start \in States
  BY DEF Start, States, Modes
<1>3. n # 0
  <2>1. Read(l, [k \in 0 .. 0 |-> Start], 0)
    BY <1>2 DEF Read
  <2> QED
    BY <1>1, <2>1
<1>4. n - 1 \in 0 .. Len(l) /\ n - 1 \in Nat /\ n \in Nat /\ l[n] \in Chars
  BY <1>1, <1>3
<1>5. PICK R : Read(l, R, n - 1)
  <2>1. n - 1 \notin T
    BY <1>1, <1>4
  <2> QED
    BY <1>4, <2>1
<1> DEFINE S == [k \in 0 .. n |-> IF k = n THEN Line!After(R[n - 1], l[n]) ELSE R[k]]
<1>6. R[n - 1] \in States
  BY <1>4, <1>5 DEF Read
<1>7. Line!After(R[n - 1], l[n]) \in States
  BY <1>4, <1>6, AfterType
<1>8. S \in [0 .. n -> States]
  BY <1>4, <1>5, <1>7 DEF Read
<1>9. S[0] = Start
  BY <1>3, <1>4, <1>5 DEF Read
<1>10. ASSUME NEW k \in 1 .. n PROVE S[k] = Line!After(S[k - 1], l[k])
  <2>1. k - 1 \in 0 .. n - 1 /\ S[k - 1] = R[k - 1]
    BY <1>4
  <2>2. CASE k = n
    BY <1>4, <2>1, <2>2
  <2>3. CASE k # n
    <3>1. k \in 1 .. n - 1 /\ S[k] = R[k]
      BY <1>4, <2>3
    <3> QED
      BY <1>5, <2>1, <3>1 DEF Read
  <2> QED
    BY <2>2, <2>3
<1>11. Read(l, S, n)
  BY <1>8, <1>9, <1>10 DEF Read
<1> QED
  BY <1>1, <1>11

\* The recursive function is such a reading.
LEMMA ReadingRule ==
  ASSUME NEW l \in Seq(Chars)
  PROVE  Read(l, Line!Reading(l), Len(l))
<1> DEFINE n == Len(l)
           Body(f) == [k \in 0 .. n |-> IF k = 0 THEN Start ELSE Line!After(f[k - 1], l[k])]
           read == CHOOSE f : f = Body(f)
<1>1. PICK R : Read(l, R, n)
  BY ReadExists
<1>2. R = Body(R)
  BY <1>1 DEF Read
<1>3. read = Body(read)
  BY <1>2
<1>4. Line!Reading(l) = read
  BY Zenon DEF Line!Reading, Start
<1> HIDE DEF read
<1>5. Start \in States
  BY DEF Start, States, Modes
<1>6. n \in Nat /\ \A k \in 1 .. n : l[k] \in Chars
  OBVIOUS
<1>7. read[0] = Start /\ \A k \in 1 .. n : read[k] = Line!After(read[k - 1], l[k])
  BY <1>3, <1>6
<1>8. \A k \in 0 .. n : read[k] \in States
  <2> DEFINE T == {k \in 0 .. n : read[k] \notin States}
  <2> SUFFICES ASSUME T # {} PROVE FALSE
    OBVIOUS
  <2>1. PICK k \in T : \A y \in T : k <= y
    <3>1. T \in SUBSET Nat
      BY <1>6
    <3> HIDE DEF T
    <3> QED
      BY <3>1, Least
  <2>2. k # 0
    BY <1>5, <1>7, <2>1
  <2>3. k \in 1 .. n /\ k - 1 \in 0 .. n
    BY <1>6, <2>1, <2>2
  <2>4. read[k - 1] \in States
    BY <2>1, <2>3
  <2>5. read[k] \in States
    BY <1>6, <1>7, <2>3, <2>4, AfterType
  <2> QED
    BY <2>1, <2>5
<1>9. read \in [0 .. n -> States]
  BY <1>3, <1>8
<1> QED
  BY <1>4, <1>7, <1>9 DEF Read

\* Between words, spaces are passed over.
LEMMA ReadSpaces ==
  ASSUME NEW l \in Seq(Chars), NEW R, Read(l, R, Len(l)),
         NEW j \in Nat, NEW a \in Nat, j <= a, a <= Len(l), R[j].mode = "between",
         \A k \in j .. a - 1 : l[k + 1] = Space
  PROVE  R[a] = R[j]
<1> DEFINE T == {k \in j .. a : R[k] # R[j]}
<1> SUFFICES ASSUME T # {} PROVE FALSE
  OBVIOUS
<1>1. PICK k \in T : \A y \in T : k <= y
  <2>1. T \in SUBSET Nat
    OBVIOUS
  <2> HIDE DEF T
  <2> QED
    BY <2>1, Least
<1>2. k \in Nat /\ k - 1 \in j .. a - 1 /\ k - 1 \in Nat /\ k \in 1 .. Len(l)
  BY <1>1
<1>3. R[k - 1] = R[j]
  BY <1>1, <1>2
<1>4. R[k] = Line!After(R[j], Space)
  <2>1. l[k] = Space
    BY <1>2
  <2> QED
    BY <1>2, <1>3, <2>1 DEF Read
<1>5. Line!After(R[j], Space) = R[j]
  <2>1. Space # Nul /\ Space # Quote
    BY CharsAssumption
  <2>2. \A q : q.mode = "between" => Line!After(q, Space) = q
    BY <2>1 DEF Line!After
  <2> QED
    BY <2>2
<1> QED
  BY <1>1, <1>4, <1>5

\* A sequence with one more element, as a function.
LEMMA AppendIs ==
  ASSUME NEW S, NEW W \in Seq(S), NEW w \in S, NEW n \in Nat, n = Len(W) + 1
  PROVE  Append(W, w) = [k \in 1 .. n |-> IF k = n THEN w ELSE W[k]]
<1> DEFINE u == Append(W, w)
<1>1. u \in Seq(S) /\ Len(u) = n /\ u[n] = w /\ \A k \in 1 .. n : k # n => u[k] = W[k]
  OBVIOUS
<1> HIDE DEF u
<1>2. u = [k \in 1 .. n |-> u[k]]
  BY <1>1
<1> QED
  BY <1>1, <1>2 DEF u

\* The characters of a line from place a to place e.
Part(l, a, e) == [k \in 1 .. e - a |-> l[a + k]]

LEMMA PartType ==
  ASSUME NEW l \in Seq(Chars), NEW a \in Nat, NEW e \in Nat, a <= e, e <= Len(l)
  PROVE  /\ Part(l, a, e) \in Seq(Chars)
         /\ e < Len(l) => Append(Part(l, a, e), l[e + 1]) = Part(l, a, e + 1)
<1>1. e - a \in Nat /\ \A k \in 1 .. e - a : l[a + k] \in Chars
  OBVIOUS
<1>2. Part(l, a, e) \in [1 .. e - a -> Chars]
  BY <1>1 DEF Part
<1>3. Part(l, a, e) \in Seq(Chars) /\ Len(Part(l, a, e)) = e - a
  BY <1>1, <1>2
<1>4. ASSUME e < Len(l) PROVE Append(Part(l, a, e), l[e + 1]) = Part(l, a, e + 1)
  <2>1. e + 1 - a = (e - a) + 1 /\ a + (e - a + 1) = e + 1
    OBVIOUS
  <2>2. Append(Part(l, a, e), l[e + 1]) =
          [k \in 1 .. (e - a) + 1 |-> IF k = (e - a) + 1 THEN l[e + 1] ELSE Part(l, a, e)[k]]
    <3> DEFINE P == Part(l, a, e)
               n == (e - a) + 1
    <3>1. P \in Seq(Chars) /\ n = Len(P) + 1 /\ n \in Nat /\ l[e + 1] \in Chars
      BY <1>1, <1>3, <1>4
    <3> HIDE DEF P, n
    <3>2. Append(P, l[e + 1]) = [k \in 1 .. n |-> IF k = n THEN l[e + 1] ELSE P[k]]
      BY <3>1, AppendIs
    <3> QED
      BY <3>2 DEF P, n
  <2>3. \A k \in 1 .. e - a : Part(l, a, e)[k] = l[a + k]
    BY DEF Part
  <2>4. \A k \in 1 .. (e - a) + 1 :
          (IF k = (e - a) + 1 THEN l[e + 1] ELSE Part(l, a, e)[k]) = l[a + k]
    BY <1>1, <2>1, <2>3
  <2> QED
    BY <2>1, <2>2, <2>4 DEF Part
<1> QED
  BY <1>3, <1>4

\* The last element is replaced.
LEMMA LastReplaced ==
  ASSUME NEW S, NEW W \in Seq(S), NEW w \in S, NEW u \in S
  PROVE  [Append(W, w) EXCEPT ![Len(Append(W, w))] = u] = Append(W, u)
<1> DEFINE n == Len(W) + 1
<1>1. n \in Nat /\ Len(Append(W, w)) = n
  OBVIOUS
<1>2. Append(W, w) = [k \in 1 .. n |-> IF k = n THEN w ELSE W[k]]
  BY <1>1, AppendIs
<1>3. Append(W, u) = [k \in 1 .. n |-> IF k = n THEN u ELSE W[k]]
  BY <1>1, AppendIs
<1> HIDE DEF n
<1>4. [[k \in 1 .. n |-> IF k = n THEN w ELSE W[k]] EXCEPT ![n] = u]
        = [k \in 1 .. n |-> IF k = n THEN u ELSE W[k]]
  BY <1>1
<1> QED
  BY <1>1, <1>2, <1>3, <1>4

\* In a word, a character that does not end it is added to it.
LEMMA AfterInWord ==
  ASSUME NEW W \in Seq(Seq(Chars)), NEW w \in Seq(Chars), NEW ch \in Chars,
         NEW m \in {"text", "quoted"}, ch # Nul,
         m = "text" => ch # Space, m = "quoted" => ch # Quote
  PROVE  Line!After([mode |-> m, words |-> Append(W, w)], ch)
           = [mode |-> m, words |-> Append(W, Append(w, ch))]
<1> DEFINE V == Append(W, w)
           q == [mode |-> m, words |-> V]
<1>1. Len(V) = Len(W) + 1 /\ V[Len(V)] = w /\ V \in Seq(Seq(Chars))
  OBVIOUS
<1>2. [V EXCEPT ![Len(V)] = Append(@, ch)] = Append(W, Append(w, ch))
  <2>1. Append(w, ch) \in Seq(Chars)
    OBVIOUS
  <2>2. \A x \in Seq(Chars) : [V EXCEPT ![Len(V)] = x] = Append(W, x)
    <3> SUFFICES ASSUME NEW x \in Seq(Chars) PROVE [V EXCEPT ![Len(V)] = x] = Append(W, x)
      OBVIOUS
    <3> DEFINE S == Seq(Chars)
    <3>1. W \in Seq(S) /\ w \in S /\ x \in S
      OBVIOUS
    <3> HIDE DEF S
    <3> QED
      BY <3>1, LastReplaced
  <2> QED
    BY <1>1, <2>1, <2>2
<1>3. Line!Extend(q, ch) = [mode |-> m, words |-> Append(W, Append(w, ch))]
  <2>1. \A n : [q EXCEPT !.words[n] = Append(@, ch)] = [mode |-> m, words |-> [V EXCEPT ![n] = Append(@, ch)]]
    <3> HIDE DEF V
    <3> QED
      BY SMTT(40)
  <2>2. q.words = V
    OBVIOUS
  <2> QED
    BY <1>2, <2>1, <2>2 DEF Line!Extend
<1>4. Line!After(q, ch) = Line!Extend(q, ch)
  <2>1. q.mode = m
    OBVIOUS
  <2> HIDE DEF q
  <2> QED
    BY <2>1 DEF Line!After
<1> QED
  BY <1>3, <1>4

\* At place b the automaton is in a word that starts at place a, and no
\* character from b to place e ends it.
InWord(l, R, W, m, a, b, e) ==
  /\ l \in Seq(Chars) /\ Read(l, R, Len(l)) /\ W \in Seq(Seq(Chars)) /\ m \in {"text", "quoted"}
  /\ a \in Nat /\ b \in Nat /\ e \in Nat /\ a <= b /\ b <= e /\ e <= Len(l)
  /\ R[b] = [mode |-> m, words |-> Append(W, Part(l, a, b))]
  /\ \A k \in b .. e - 1 : l[k + 1] # Nul /\ (m = "text" => l[k + 1] # Space)
                                          /\ (m = "quoted" => l[k + 1] # Quote)

\* A word is read to its end.
LEMMA ReadWord ==
  ASSUME NEW l, NEW R, NEW W, NEW m, NEW a, NEW b, NEW e, InWord(l, R, W, m, a, b, e)
  PROVE  R[e] = [mode |-> m, words |-> Append(W, Part(l, a, e))]
<1> USE DEF InWord
<1> DEFINE Q(k) == [mode |-> m, words |-> Append(W, Part(l, a, k))]
           T == {k \in b .. e : R[k] # Q(k)}
<1> SUFFICES ASSUME T # {} PROVE FALSE
  <2>1. e \in b .. e
    OBVIOUS
  <2>2. ASSUME T = {} PROVE R[e] = Q(e)
    <3> HIDE DEF Q
    <3> QED
      BY <2>1, <2>2
  <2> QED
    BY <2>2
<1>1. PICK k \in T : \A y \in T : k <= y
  <2>1. T \in SUBSET Nat
    OBVIOUS
  <2> HIDE DEF T
  <2> QED
    BY <2>1, Least
<1>2. k # b
  BY <1>1
<1>3. k \in Nat /\ k - 1 \in b .. e - 1 /\ k - 1 \in Nat /\ k \in 1 .. Len(l) /\ a <= k - 1
      /\ k - 1 <= Len(l) /\ k - 1 < Len(l) /\ (k - 1) + 1 = k
  BY <1>1, <1>2
<1>4. R[k - 1] = Q(k - 1)
  BY <1>1, <1>3
<1>5. R[k] = Line!After(Q(k - 1), l[k])
  BY <1>3, <1>4 DEF Read
<1>6. l[k] \in Chars /\ l[k] # Nul /\ (m = "text" => l[k] # Space) /\ (m = "quoted" => l[k] # Quote)
  <2>1. l[k] \in Chars
    BY <1>3
  <2> QED
    BY <1>3, <2>1
<1>7. /\ Part(l, a, k - 1) \in Seq(Chars)
      /\ Append(Part(l, a, k - 1), l[k]) = Part(l, a, k)
  <2>1. /\ Part(l, a, k - 1) \in Seq(Chars)
        /\ Append(Part(l, a, k - 1), l[(k - 1) + 1]) = Part(l, a, (k - 1) + 1)
    BY <1>3, PartType
  <2> QED
    BY <1>3, <2>1
<1>8. Line!After(Q(k - 1), l[k]) = Q(k)
  <2> DEFINE w == Part(l, a, k - 1)
             ch == l[k]
  <2>1. w \in Seq(Chars) /\ ch \in Chars /\ Append(w, ch) = Part(l, a, k)
    BY <1>6, <1>7
  <2>2. ch # Nul /\ (m = "text" => ch # Space) /\ (m = "quoted" => ch # Quote)
    BY <1>6
  <2> HIDE DEF w, ch
  <2>3. Line!After([mode |-> m, words |-> Append(W, w)], ch)
          = [mode |-> m, words |-> Append(W, Append(w, ch))]
    BY <2>1, <2>2, AfterInWord
  <2> QED
    BY <2>1, <2>3 DEF w, ch
<1> QED
  BY <1>1, <1>5, <1>8

\* What a character does between words, and at the end of one.
LEMMA AfterRules ==
  ASSUME NEW q \in States, NEW ch \in Chars
  PROVE  /\ q.mode = "between" /\ ch \notin {Nul, Space, Quote} =>
              Line!After(q, ch) = [mode |-> "text", words |-> Append(q.words, <<ch>>)]
         /\ q.mode = "between" /\ ch = Quote =>
              Line!After(q, ch) = [mode |-> "quoted", words |-> Append(q.words, <<>>)]
         /\ q.mode = "text" /\ ch = Space =>
              Line!After(q, ch) = [mode |-> "between", words |-> q.words]
         /\ q.mode = "quoted" /\ ch = Quote =>
              Line!After(q, ch) = [mode |-> "between", words |-> q.words]
         /\ ch = Nul \/ q.mode = "end" =>
              Line!After(q, ch) = [mode |-> "end", words |-> q.words]
<1>1. Space # Nul /\ Space # Quote /\ Quote # Nul
  BY CharsAssumption
<1>2. q \in [mode : Modes, words : Seq(Seq(Chars))]
  BY DEF States
<1>3. \A m \in Modes : [q EXCEPT !.mode = m] = [mode |-> m, words |-> q.words]
  BY <1>2
<1>4. "between" \in Modes /\ "end" \in Modes
  BY DEF Modes
<1> QED
  BY <1>1, <1>3, <1>4 DEF Line!After, Line!Begin

\* Words that were read between words stay, and a word that is begun later
\* comes behind them.
LEMMA WordsStay ==
  ASSUME NEW l \in Seq(Chars), NEW R, Read(l, R, Len(l)), NEW j \in 0 .. Len(l),
         R[j].mode = "between", NEW e \in j .. Len(l)
  PROVE  /\ Len(R[j].words) <= Len(R[e].words)
         /\ \A k \in 1 .. Len(R[j].words) : R[e].words[k] = R[j].words[k]
<1> DEFINE W == R[j].words
           n == Len(W)
           Kept(q) == /\ n <= Len(q.words) /\ \A k \in 1 .. n : q.words[k] = W[k]
                      /\ q.mode \in {"text", "quoted"} => n < Len(q.words)
           T == {k \in j .. Len(l) : ~ Kept(R[k])}
<1>0. Len(l) \in Nat /\ R[j] \in States /\ W \in Seq(Seq(Chars)) /\ n \in Nat
  BY DEF Read, States
<1>1. Kept(R[j])
  BY <1>0
<1>2. ASSUME NEW q \in States, Kept(q), NEW ch \in Chars PROVE Kept(Line!After(q, ch))
  <2> DEFINE V == q.words
  <2>1. V \in Seq(Seq(Chars)) /\ q = [mode |-> q.mode, words |-> V] /\ q.mode \in Modes
    BY DEF States
  <2>2. ASSUME NEW w \in Seq(Chars), NEW m \in Modes PROVE Kept(Line!Begin(q, m, w))
    <3> DEFINE U == Append(V, w)
    <3>1. Len(U) = Len(V) + 1 /\ \A k \in 1 .. Len(V) : U[k] = V[k]
      BY <2>1
    <3>2. Line!Begin(q, m, w).words = U
      BY DEF Line!Begin
    <3> HIDE DEF U, W
    <3>3. Len(V) \in Nat /\ n <= Len(V) /\ \A k \in 1 .. n : V[k] = W[k]
      BY <1>2, <2>1
    <3>4. n < Len(U)
      BY <1>0, <3>1, <3>3
    <3>5. ASSUME NEW k \in 1 .. n PROVE U[k] = W[k]
      <4>1. k \in 1 .. Len(V)
        BY <1>0, <3>3
      <4> QED
        BY <3>1, <3>3, <4>1
    <3> QED
      BY <1>0, <3>1, <3>2, <3>3, <3>4, <3>5
  <2>3. ASSUME q.mode \in {"text", "quoted"} PROVE Kept(Line!Extend(q, ch))
    <3> DEFINE U == [V EXCEPT ![Len(V)] = Append(@, ch)]
    <3>1. n < Len(V) /\ \A k \in 1 .. n : V[k] = W[k]
      BY <1>2, <2>3
    <3>2. Len(U) = Len(V) /\ \A k \in 1 .. Len(V) - 1 : U[k] = V[k]
      BY <2>1
    <3>3. Line!Extend(q, ch).words = U /\ Line!Extend(q, ch).mode = q.mode
      BY <2>1 DEF Line!Extend
    <3> HIDE DEF U, W
    <3>4. n <= Len(U) /\ n < Len(U) /\ \A k \in 1 .. n : U[k] = W[k]
      <4>1. Len(V) \in Nat
        BY <2>1
      <4> QED
        BY <1>0, <3>1, <3>2, <4>1
    <3> QED
      BY <3>3, <3>4
  <2>4. ASSUME NEW m \in {"between", "end"} PROVE Kept([q EXCEPT !.mode = m])
    <3>1. [q EXCEPT !.mode = m].words = V /\ [q EXCEPT !.mode = m].mode = m
      BY <2>1
    <3> HIDE DEF V, W
    <3> QED
      BY <1>2, <2>4, <3>1 DEF V
  <2>5. <<>> \in Seq(Chars) /\ <<ch>> \in Seq(Chars)
    OBVIOUS
  <2>6. {"text", "quoted"} \subseteq Modes
    BY DEF Modes
  <2> HIDE DEF Kept
  <2> QED
    BY <1>2, <2>1, <2>2, <2>3, <2>4, <2>5, <2>6 DEF Line!After, Modes
<1>3. T = {}
  <2> SUFFICES ASSUME T # {} PROVE FALSE
    OBVIOUS
  <2> HIDE DEF Kept
  <2>1. PICK k \in T : \A y \in T : k <= y
    <3>1. T \in SUBSET Nat
      BY <1>0
    <3> HIDE DEF T
    <3> QED
      BY <3>1, Least
  <2>2. k # j
    BY <1>1, <2>1
  <2>3. k \in Nat /\ k - 1 \in j .. Len(l) /\ k \in 1 .. Len(l) /\ k - 1 \in 0 .. Len(l)
    BY <1>0, <2>1, <2>2
  <2>4. Kept(R[k - 1]) /\ R[k - 1] \in States /\ l[k] \in Chars
    BY <2>1, <2>3 DEF Read
  <2>5. R[k] = Line!After(R[k - 1], l[k])
    BY <2>3 DEF Read
  <2>6. Kept(R[k])
    BY <1>2, <2>4, <2>5
  <2> QED
    BY <2>1, <2>6
<1>4. Kept(R[e])
  <2> HIDE DEF Kept
  <2> QED
    BY <1>0, <1>3
<1> QED
  BY <1>4

\* Behind a 0 nothing is read.
LEMMA NothingBehind ==
  ASSUME NEW l \in Seq(Chars), NEW R, Read(l, R, Len(l)), NEW j \in 0 .. Len(l),
         j < Len(l), l[j + 1] = Nul
  PROVE  R[Len(l)].words = R[j].words
<1> DEFINE Q == [mode |-> "end", words |-> R[j].words]
           T == {k \in j + 1 .. Len(l) : R[k] # Q}
<1>0. Len(l) \in Nat /\ R[j] \in States /\ Nul \in Chars /\ \A k \in 0 .. Len(l) : R[k] \in States
  BY CharsAssumption DEF Read
<1>1. R[j + 1] = Q
  <2>1. j + 1 \in 1 .. Len(l) /\ (j + 1) - 1 = j
    BY <1>0
  <2>2. R[j + 1] = Line!After(R[j], Nul)
    BY <2>1 DEF Read
  <2> QED
    BY <1>0, <2>2, AfterRules
<1>2. T = {}
  <2> SUFFICES ASSUME T # {} PROVE FALSE
    OBVIOUS
  <2>1. PICK k \in T : \A y \in T : k <= y
    <3>1. T \in SUBSET Nat
      BY <1>0
    <3> HIDE DEF T
    <3> QED
      BY <3>1, Least
  <2>2. k # j + 1
    BY <1>1, <2>1
  <2>3. k - 1 \in j + 1 .. Len(l) /\ k \in 1 .. Len(l) /\ k - 1 \in 0 .. Len(l) /\ k - 1 < k
    BY <1>0, <2>1, <2>2
  <2>4. R[k - 1] = Q /\ Q \in States /\ l[k] \in Chars
    BY <1>0, <2>1, <2>3
  <2>5. R[k] = Line!After(Q, l[k])
    BY <2>3, <2>4 DEF Read
  <2>6. R[k] = Q
    BY <2>4, <2>5, AfterRules
  <2> QED
    BY <2>1, <2>6
<1>3. R[Len(l)] = Q
  BY <1>0, <1>2
<1> QED
  BY <1>3

-----------------------------------------------------------------------------
(* The splitter and the automaton.                                          *)

\* Text, for any buffer b.
TextAt(b, a) ==
  LET e == CHOOSE e \in Place : a <= e /\ b[e] \in {Nul} /\ \A k \in a .. e - 1 : b[k] \notin {Nul}
  IN  [k \in 1 .. e - a |-> b[a + k - 1]]

\* The arguments found so far, as text.
Texts == [k \in 1 .. Len(args) |-> TextAt(buffer, args[k])]

\* At place i the automaton has read the arguments found so far, and what is
\* behind i in the buffer is what was entered.
ReadInv ==
  pc = "split" =>
    /\ Len(entered) = c
    /\ \A k \in i .. c - 1 : buffer[k] = entered[k + 1]
    /\ Line!Reading(entered)[i].words = Texts
    /\ Line!Reading(entered)[i].mode = "between" \/ buffer[i] = Nul

\* A text ends at the first 0.
LEMMA EndChosen ==
  ASSUME NEW b, NEW a \in Place, NEW e \in Place, a <= e, b[e] = Nul,
         \A k \in a .. e - 1 : b[k] # Nul
  PROVE  (CHOOSE x \in Place : a <= x /\ b[x] \in {Nul} /\ \A k \in a .. x - 1 : b[k] \notin {Nul}) = e
<1> DEFINE P(x) == a <= x /\ b[x] \in {Nul} /\ \A k \in a .. x - 1 : b[k] \notin {Nul}
<1>1. P(e)
  OBVIOUS
<1>2. ASSUME NEW x \in Place, P(x) PROVE x = e
  <2>1. x \in Nat /\ e \in Nat /\ a \in Nat
    BY DEF Place
  <2>2. ~ x < e
    BY <1>2, <2>1
  <2>3. ~ e < x
    BY <1>2, <2>1
  <2> QED
    BY <2>1, <2>2, <2>3
<1> HIDE DEF P
<1>3. (CHOOSE x \in Place : P(x)) = e
  BY <1>1, <1>2
<1> QED
  BY <1>3 DEF P

LEMMA TextIs ==
  ASSUME NEW b, NEW a \in Place, NEW e \in Place, a <= e, b[e] = Nul,
         \A k \in a .. e - 1 : b[k] # Nul
  PROVE  TextAt(b, a) = [k \in 1 .. e - a |-> b[a + k - 1]]
<1>1. (CHOOSE x \in Place : a <= x /\ b[x] \in {Nul} /\ \A k \in a .. x - 1 : b[k] \notin {Nul}) = e
  BY EndChosen
<1> QED
  BY <1>1 DEF TextAt

\* The text at a, the start of an argument found before, stays: what is
\* written lies behind it.
LEMMA TextKept ==
  ASSUME ShellInv, pc = "split", NEW k \in DOMAIN args, NEW e \in Place, i <= e,
         buffer' = [buffer EXCEPT ![e] = Nul]
  PROVE  TextAt(buffer', args[k]) = TextAt(buffer, args[k])
<1> DEFINE a == args[k]
<1>0. TypeOK /\ ArgsInLine
  BY DEF ShellInv
<1>1. a \in Place /\ a \in Nat /\ i \in Nat /\ i \in Place
  <2>1. a \in Place /\ i \in Place
    BY <1>0 DEF TypeOK
  <2>2. Place \subseteq Nat
    BY DEF Place
  <2> QED
    BY <2>1, <2>2
<1>2. PICK x \in a .. i : EndsAt(a, {Nul}, x)
  BY <1>0 DEF ArgsInLine
<1> HIDE DEF a
<1>3. x \in Place /\ a <= x /\ x <= e /\ x \in Nat /\ e \in Nat
  BY <1>1, <1>2, SizeAssumption DEF Place
<1>4. buffer[x] = Nul /\ \A m \in a .. x - 1 : buffer[m] # Nul
  BY <1>2 DEF EndsAt
<1>5. ASSUME NEW m \in a .. x - 1 PROVE buffer'[m] = buffer[m]
  <2>1. m \in Place /\ m # e
    BY <1>1, <1>3, SizeAssumption DEF Place
  <2> QED
    BY <1>0, <2>1 DEF TypeOK
<1>6. buffer'[x] = Nul
  BY <1>0, <1>3, <1>4 DEF TypeOK
<1>7. TextAt(buffer, a) = [m \in 1 .. x - a |-> buffer[a + m - 1]]
  BY <1>1, <1>3, <1>4, TextIs
<1>8. TextAt(buffer', a) = [m \in 1 .. x - a |-> buffer'[a + m - 1]]
  <2> DEFINE b == buffer'
  <2>1. b[x] = Nul /\ \A m \in a .. x - 1 : b[m] # Nul
    BY <1>4, <1>5, <1>6
  <2> HIDE DEF b
  <2>2. TextAt(b, a) = [m \in 1 .. x - a |-> b[a + m - 1]]
    BY <1>1, <1>3, <2>1, TextIs
  <2> QED
    BY <2>2 DEF b
<1>9. \A m \in 1 .. x - a : buffer'[a + m - 1] = buffer[a + m - 1]
  <2> SUFFICES ASSUME NEW m \in 1 .. x - a PROVE a + m - 1 \in a .. x - 1
    BY <1>5
  <2> QED
    BY <1>1, <1>3
<1> QED
  BY <1>7, <1>8, <1>9 DEF a

\* An argument that was read to its end is taken.
LEMMA TakeReads ==
  ASSUME ShellInv, ReadInv, pc = "split", NEW a \in Place, NEW e \in Place, NEW m,
         i <= a, a <= e, e <= c, \A k \in a .. e - 1 : buffer[k] # Nul,
         Take(a, e),
         Line!Reading(entered)[e] = [mode |-> m, words |-> Append(Texts, Part(entered, a, e))],
         buffer[e] # Nul => Line!Reading(entered)[e + 1] =
           [mode |-> "between", words |-> Append(Texts, Part(entered, a, e))]
  PROVE  ReadInv'
<1>0. TypeOK /\ ArgsInLine
  BY DEF ShellInv
<1>1. /\ pc' = "split" /\ c' = c /\ entered' = entered /\ args' = Append(args, a)
      /\ buffer' = [buffer EXCEPT ![e] = Nul]
      /\ i' = IF buffer[e] = Nul THEN e ELSE e + 1
  BY DEF Take
<1>2. /\ a \in Nat /\ e \in Nat /\ i \in Nat /\ c \in Nat
      /\ \A p \in Nat : p <= c => p \in Place
  BY <1>0, SizeAssumption DEF TypeOK, Place
<1>3. ASSUME NEW k \in 1 .. e - a PROVE buffer[a + k - 1] = entered[a + k] /\ buffer'[a + k - 1] = buffer[a + k - 1]
  <2>1. a + k - 1 \in i .. c - 1 /\ a + k - 1 \in Place /\ a + k - 1 # e /\ (a + k - 1) + 1 = a + k
    BY <1>2
  <2>2. buffer[a + k - 1] = entered[(a + k - 1) + 1]
    BY <2>1 DEF ReadInv
  <2> QED
    BY <1>0, <1>1, <2>1, <2>2 DEF TypeOK
<1>4. TextAt(buffer', a) = Part(entered, a, e)
  <2>1. buffer'[e] = Nul
    BY <1>0, <1>1 DEF TypeOK
  <2>2. \A k \in a .. e - 1 : buffer'[k] # Nul
    <3> SUFFICES ASSUME NEW k \in a .. e - 1 PROVE buffer'[k] = buffer[k]
      OBVIOUS
    <3>1. k \in Place /\ k # e
      BY <1>2 DEF Place
    <3> QED
      BY <1>0, <1>1, <3>1 DEF TypeOK
  <2>3. TextAt(buffer', a) = [k \in 1 .. e - a |-> buffer'[a + k - 1]]
    BY <2>1, <2>2, TextIs
  <2> QED
    BY <1>3, <2>3 DEF Part
<1>5. Texts' = Append(Texts, Part(entered, a, e))
  <2> DEFINE n == Len(args)
             p == Part(entered, a, e)
  <2>1. n \in Nat /\ DOMAIN args = 1 .. n /\ Len(args') = n + 1
        /\ args'[n + 1] = a /\ \A k \in 1 .. n : args'[k] = args[k]
    BY <1>0, <1>1 DEF TypeOK
  <2>2. \A k \in 1 .. n : TextAt(buffer, args[k]) \in Seq(Chars)
    BY <2>1, TextType DEF Text, TextAt, EndsAt
  <2>3. Texts \in Seq(Seq(Chars)) /\ Len(Texts) = n
    BY <2>1, <2>2 DEF Texts
  <2>4. entered \in Seq(Chars) /\ Len(entered) = c
    BY <1>0 DEF TypeOK, ReadInv
  <2>5. p \in Seq(Chars)
    BY <1>2, <2>4, PartType
  <2>6. Append(Texts, p) = [k \in 1 .. n + 1 |-> IF k = n + 1 THEN p ELSE Texts[k]]
    <3> DEFINE S == Seq(Chars)
    <3>1. Texts \in Seq(S) /\ p \in S /\ n + 1 = Len(Texts) + 1 /\ n + 1 \in Nat
      BY <2>1, <2>3, <2>5
    <3> HIDE DEF S, p, n
    <3> QED
      BY <3>1, AppendIs
  <2>7. Texts' = [k \in 1 .. n + 1 |-> TextAt(buffer', args'[k])]
    BY <2>1 DEF Texts
  <2>8. ASSUME NEW k \in 1 .. n PROVE TextAt(buffer', args'[k]) = Texts[k]
    <3>1. k \in DOMAIN args /\ args'[k] = args[k] /\ i <= e
      BY <1>2, <2>1
    <3>2. TextAt(buffer', args[k]) = TextAt(buffer, args[k])
      BY <1>1, <3>1, TextKept
    <3> QED
      BY <2>1, <3>1, <3>2 DEF Texts
  <2>9. TextAt(buffer', args'[n + 1]) = p
    BY <1>4, <2>1
  <2>10. \A k \in 1 .. n + 1 : TextAt(buffer', args'[k]) = IF k = n + 1 THEN p ELSE Texts[k]
    <3> HIDE DEF n, p
    <3>1. \A k \in 1 .. n + 1 : k # n + 1 => k \in 1 .. n
      BY <2>1
    <3> QED
      BY <2>8, <2>9, <3>1
  <2> HIDE DEF n, p
  <2> QED
    BY <2>6, <2>7, <2>10 DEF p
<1>6. ASSUME NEW k \in i' .. c - 1 PROVE buffer'[k] = entered[k + 1]
  <2>1. k \in i .. c - 1 /\ k \in Place /\ e <= k
    BY <1>1, <1>2
  <2>2. buffer[k] = entered[k + 1]
    BY <2>1 DEF ReadInv
  <2>3. k = e => buffer[e] = Nul
    BY <1>1, <1>2
  <2> QED
    BY <1>0, <1>1, <2>1, <2>2, <2>3 DEF TypeOK
<1>7. /\ Line!Reading(entered)[i'].words = Texts'
      /\ Line!Reading(entered)[i'].mode = "between" \/ buffer'[i'] = Nul
  <2>1. CASE buffer[e] = Nul
    BY <1>0, <1>1, <1>5, <2>1 DEF TypeOK
  <2>2. CASE buffer[e] # Nul
    BY <1>1, <1>5, <2>2
  <2> QED
    BY <2>1, <2>2
<1>8. Len(entered) = c
  BY DEF ReadInv
<1>9. Line!Reading(entered)' = Line!Reading(entered)
  BY <1>1
<1> QED
  BY <1>1, <1>6, <1>7, <1>8, <1>9 DEF ReadInv

\* What the splitter starts from: a line that is read up to i, where another
\* argument may begin.
LEMMA AtArgument ==
  ASSUME ShellInv, ReadInv, More
  PROVE  /\ i \in Nat /\ c \in Nat /\ i <= c /\ c <= BufSize - 1 /\ i \in Place /\ c \in Place
         /\ buffer[c] = Nul /\ \A k \in i .. c : buffer[k] \in Chars
         /\ entered \in Seq(Chars) /\ Len(entered) = c
         /\ \A k \in i .. c - 1 : buffer[k] = entered[k + 1]
         /\ Read(entered, Line!Reading(entered), c)
         /\ Line!Reading(entered)[i] = [mode |-> "between", words |-> Texts]
         /\ Texts \in Seq(Seq(Chars))
<1>0. TypeOK /\ ArgsInLine /\ pc = "split" /\ buffer[i] # Nul
  BY DEF ShellInv, More
<1>1. i \in Nat /\ c \in Nat /\ i <= c /\ c <= BufSize - 1 /\ i \in Place /\ c \in Place /\ buffer[c] = Nul
  <2>1. i \in Place /\ c \in Place /\ i <= c /\ buffer[c] = Nul
    BY <1>0 DEF TypeOK, ArgsInLine
  <2> QED
    BY <2>1, SizeAssumption DEF Place
<1>2. \A k \in i .. c : buffer[k] \in Chars
  <2> SUFFICES ASSUME NEW k \in i .. c PROVE k \in Place
    BY <1>0 DEF TypeOK
  <2> QED
    BY <1>1, SizeAssumption DEF Place
<1>3. entered \in Seq(Chars) /\ Len(entered) = c
  BY <1>0 DEF TypeOK, ReadInv
<1>4. Read(entered, Line!Reading(entered), c)
  BY <1>3, ReadingRule
<1> DEFINE q == Line!Reading(entered)[i]
<1>5. q \in States
  BY <1>1, <1>4 DEF Read
<1>6. q.words = Texts /\ q.mode = "between"
  BY <1>0 DEF ReadInv
<1> HIDE DEF q
<1>7. q = [mode |-> "between", words |-> Texts] /\ Texts \in Seq(Seq(Chars))
  BY <1>5, <1>6 DEF States
<1> QED
  BY <1>0, <1>1, <1>2, <1>3, <1>4, <1>7 DEF q, ReadInv

\* Spaces lead the automaton to a with nothing read.
LEMMA SpacesRead ==
  ASSUME ShellInv, ReadInv, More, NEW a \in Place, i <= a, a <= c, EndsAt(i, NotSpace, a)
  PROVE  Line!Reading(entered)[a] = [mode |-> "between", words |-> Texts]
<1> DEFINE R == Line!Reading(entered)
<1>1. /\ i \in Nat /\ c \in Nat /\ entered \in Seq(Chars) /\ Len(entered) = c
      /\ Read(entered, R, Len(entered)) /\ R[i] = [mode |-> "between", words |-> Texts]
  BY AtArgument
<1>2. a \in Nat
  BY DEF Place
<1>3. ASSUME NEW k \in i .. a - 1 PROVE entered[k + 1] = Space
  <2>1. k \in i .. c - 1 /\ k \in i .. c
    BY <1>1, <1>2
  <2>2. buffer[k] = entered[k + 1] /\ buffer[k] \in Chars
    BY <2>1, AtArgument
  <2>3. buffer[k] \notin NotSpace
    BY DEF EndsAt
  <2> QED
    BY <2>2, <2>3 DEF NotSpace
<1>4. R[i].mode = "between"
  BY <1>1
<1> HIDE DEF R
<1>5. R[a] = R[i]
  BY <1>1, <1>2, <1>3, <1>4, ReadSpaces
<1> QED
  BY <1>1, <1>5 DEF R

LEMMA TextArgReads == ShellInv /\ ReadInv /\ TextArg => ReadInv'
<1> SUFFICES ASSUME ShellInv, ReadInv, TextArg PROVE ReadInv'
  OBVIOUS
<1>0. More /\ pc = "split"
  BY DEF TextArg, More
<1>1. PICK a \in Place, e \in Place :
        /\ i <= a /\ EndsAt(i, NotSpace, a) /\ buffer[a] \notin {Nul, Quote}
        /\ a <= e /\ EndsAt(a, {Nul, Space}, e)
        /\ Take(a, e)
  BY DEF TextArg
<1>2. /\ i \in Nat /\ c \in Nat /\ i <= c /\ buffer[c] = Nul /\ entered \in Seq(Chars) /\ Len(entered) = c
      /\ \A k \in i .. c - 1 : buffer[k] = entered[k + 1]
      /\ \A k \in i .. c : buffer[k] \in Chars
      /\ Texts \in Seq(Seq(Chars))
  BY <1>0, AtArgument
<1>3. a <= c
  <2>1. Nul \in NotSpace
    BY CharsAssumption DEF NotSpace
  <2>2. i \in Place
    BY <1>0, AtArgument
  <2> QED
    BY <1>0, <1>1, <1>2, <2>1, <2>2, LoopEnds
<1>4. e <= c
  BY <1>0, <1>1, <1>3, LoopEnds
<1>5. a \in Nat /\ e \in Nat /\ a < c /\ a < e
  <2>1. a \in Nat /\ e \in Nat /\ a # c
    BY <1>1, <1>2 DEF Place
  <2>2. buffer[a] \in NotSpace /\ buffer[a] # Nul /\ buffer[e] \in {Nul, Space}
    BY <1>1 DEF EndsAt
  <2>3. a # e
    BY <2>2 DEF NotSpace
  <2> QED
    BY <1>1, <1>2, <1>3, <2>1, <2>3
<1> DEFINE R == Line!Reading(entered)
           W == Texts
<1>6. Read(entered, R, Len(entered)) /\ R[a] = [mode |-> "between", words |-> W]
  BY <1>0, <1>1, <1>2, <1>3, AtArgument, SpacesRead
<1>7. R[a + 1] = [mode |-> "text", words |-> Append(W, Part(entered, a, a + 1))]
  <2> DEFINE ch == entered[a + 1]
  <2>1. ch = buffer[a] /\ ch \in Chars /\ a + 1 \in 1 .. Len(entered) /\ (a + 1) - 1 = a
    BY <1>1, <1>2, <1>5
  <2>2. ch \notin {Nul, Space, Quote}
    BY <1>1, <2>1 DEF EndsAt, NotSpace
  <2>3. R[a + 1] = Line!After(R[a], ch) /\ R[a] \in States
    BY <1>5, <1>6, <2>1 DEF Read
  <2>4. Part(entered, a, a + 1) = <<ch>>
    <3>1. (a + 1) - a = 1
      BY <1>5
    <3> QED
      BY <3>1 DEF Part
  <2> HIDE DEF R, W, ch
  <2>5. R[a].mode = "between" /\ R[a].words = W
    BY <1>6
  <2>6. R[a + 1] = [mode |-> "text", words |-> Append(W, <<ch>>)]
    BY <2>1, <2>2, <2>3, <2>5, AfterRules
  <2> QED
    BY <2>4, <2>6
<1>8. ASSUME NEW k \in a + 1 .. e - 1 PROVE entered[k + 1] # Nul /\ entered[k + 1] # Space
  <2>1. k \in i .. c - 1 /\ k \in a .. e - 1
    BY <1>1, <1>2, <1>4, <1>5
  <2>2. buffer[k] = entered[k + 1]
    BY <1>2, <2>1
  <2> QED
    BY <1>1, <2>1, <2>2 DEF EndsAt
<1>9. R[e] = [mode |-> "text", words |-> Append(W, Part(entered, a, e))]
  <2> DEFINE l == entered
             b == a + 1
             m == "text"
  <2>1. InWord(l, R, W, m, a, b, e)
    BY <1>2, <1>4, <1>5, <1>6, <1>7, <1>8 DEF InWord
  <2> HIDE DEF R, W, l, b, m
  <2>3. R[e] = [mode |-> m, words |-> Append(W, Part(l, a, e))]
    BY <2>1, ReadWord
  <2> QED
    BY <2>3 DEF l, m
<1>10. ASSUME buffer[e] # Nul
       PROVE  R[e + 1] = [mode |-> "between", words |-> Append(W, Part(entered, a, e))]
  <2>1. buffer[e] = Space /\ e < c
    BY <1>1, <1>2, <1>4, <1>5, <1>10 DEF EndsAt
  <2>2. entered[e + 1] = Space /\ e + 1 \in 1 .. Len(entered) /\ (e + 1) - 1 = e /\ Space \in Chars
    BY <1>1, <1>2, <1>5, <2>1
  <2>3. R[e + 1] = Line!After(R[e], Space) /\ R[e] \in States
    BY <1>5, <1>6, <2>2 DEF Read
  <2> HIDE DEF R, W
  <2>4. R[e].mode = "text" /\ R[e].words = Append(W, Part(entered, a, e))
    BY <1>9
  <2> QED
    BY <2>2, <2>3, <2>4, AfterRules
<1>11. \A k \in a .. e - 1 : buffer[k] # Nul
  BY <1>1 DEF EndsAt
<1> QED
  BY <1>0, <1>1, <1>4, <1>9, <1>10, <1>11, TakeReads

LEMMA QuotedArgReads == ShellInv /\ ReadInv /\ QuotedArg => ReadInv'
<1> SUFFICES ASSUME ShellInv, ReadInv, QuotedArg PROVE ReadInv'
  OBVIOUS
<1>0. More /\ pc = "split"
  BY DEF QuotedArg, More
<1>1. PICK a \in Place, e \in Place :
        /\ i <= a /\ EndsAt(i, NotSpace, a) /\ buffer[a] = Quote
        /\ a < e /\ EndsAt(a + 1, {Nul, Quote}, e)
        /\ Take(a + 1, e)
  BY DEF QuotedArg
<1>2. /\ i \in Nat /\ c \in Nat /\ i <= c /\ buffer[c] = Nul /\ entered \in Seq(Chars) /\ Len(entered) = c
      /\ \A k \in i .. c - 1 : buffer[k] = entered[k + 1]
      /\ \A k \in i .. c : buffer[k] \in Chars
      /\ Texts \in Seq(Seq(Chars)) /\ c <= BufSize - 1 /\ c \in Place
  BY <1>0, AtArgument
<1>3. a <= c
  <2>1. Nul \in NotSpace
    BY CharsAssumption DEF NotSpace
  <2>2. i \in Place
    BY <1>0, AtArgument
  <2> QED
    BY <1>0, <1>1, <1>2, <2>1, <2>2, LoopEnds
<1> DEFINE b == a + 1
<1>4. a \in Nat /\ e \in Nat /\ a < c /\ b \in Nat /\ b <= c /\ b <= e /\ i <= b /\ b \in Place
  <2>1. a \in Nat /\ e \in Nat
    BY DEF Place
  <2>2. a # c
    BY <1>1, <1>2, CharsAssumption
  <2>3. a < c
    BY <1>2, <1>3, <2>1, <2>2
  <2>4. b \in Nat /\ b <= c /\ b <= e /\ i <= b
    BY <1>1, <1>2, <2>1, <2>3
  <2> QED
    BY <1>2, <2>1, <2>3, <2>4, SizeAssumption DEF Place
<1>5. e <= c
  BY <1>0, <1>1, <1>4, LoopEnds
<1> DEFINE R == Line!Reading(entered)
           W == Texts
<1>6. Read(entered, R, Len(entered)) /\ R[a] = [mode |-> "between", words |-> W]
  BY <1>0, <1>1, <1>2, <1>3, AtArgument, SpacesRead
<1>7. R[b] = [mode |-> "quoted", words |-> Append(W, Part(entered, b, b))]
  <2>1. entered[b] = Quote /\ b \in 1 .. Len(entered) /\ b - 1 = a /\ Quote \in Chars
    BY <1>1, <1>2, <1>4
  <2>2. R[b] = Line!After(R[a], Quote) /\ R[a] \in States
    BY <1>4, <1>6, <2>1 DEF Read
  <2>3. Part(entered, b, b) = <<>>
    <3>1. b - b = 0
      BY <1>4
    <3> QED
      BY <3>1 DEF Part
  <2> HIDE DEF R, W, b
  <2>4. R[a].mode = "between" /\ R[a].words = W
    BY <1>6
  <2>5. R[b] = [mode |-> "quoted", words |-> Append(W, <<>>)]
    BY <2>1, <2>2, <2>4, AfterRules
  <2> QED
    BY <2>3, <2>5
<1>8. ASSUME NEW k \in b .. e - 1 PROVE entered[k + 1] # Nul /\ entered[k + 1] # Quote
  <2>1. k \in i .. c - 1 /\ k \in a + 1 .. e - 1
    BY <1>1, <1>2, <1>4, <1>5
  <2>2. buffer[k] = entered[k + 1]
    BY <1>2, <2>1
  <2> QED
    BY <1>1, <2>1, <2>2 DEF EndsAt
<1>9. R[e] = [mode |-> "quoted", words |-> Append(W, Part(entered, b, e))]
  <2> DEFINE l == entered
             m == "quoted"
             s == b
  <2>1. InWord(l, R, W, m, s, b, e)
    BY <1>2, <1>4, <1>5, <1>6, <1>7, <1>8 DEF InWord
  <2> HIDE DEF R, W, l, b, m, s
  <2>3. R[e] = [mode |-> m, words |-> Append(W, Part(l, s, e))]
    BY <2>1, ReadWord
  <2> QED
    BY <2>3 DEF l, m, s
<1>10. ASSUME buffer[e] # Nul
       PROVE  R[e + 1] = [mode |-> "between", words |-> Append(W, Part(entered, b, e))]
  <2>1. buffer[e] = Quote /\ e < c
    BY <1>1, <1>2, <1>4, <1>5, <1>10 DEF EndsAt
  <2>2. entered[e + 1] = Quote /\ e + 1 \in 1 .. Len(entered) /\ (e + 1) - 1 = e /\ Quote \in Chars
    BY <1>1, <1>2, <1>4, <2>1, CharsAssumption
  <2>3. R[e + 1] = Line!After(R[e], Quote) /\ R[e] \in States
    BY <1>4, <1>6, <2>2 DEF Read
  <2> HIDE DEF R, W, b
  <2>4. R[e].mode = "quoted" /\ R[e].words = Append(W, Part(entered, b, e))
    BY <1>9
  <2> QED
    BY <2>2, <2>3, <2>4, AfterRules
<1>11. \A k \in b .. e - 1 : buffer[k] # Nul
  BY <1>1 DEF EndsAt
<1> QED
  <2> HIDE DEF b
  <2>1. Take(b, e)
    BY <1>1 DEF b
  <2> QED
    BY <1>0, <1>1, <1>4, <1>5, <1>9, <1>10, <1>11, <2>1, TakeReads

LEMMA TrailingReads == ShellInv /\ ReadInv /\ Trailing => ReadInv'
<1> SUFFICES ASSUME ShellInv, ReadInv, Trailing PROVE ReadInv'
  OBVIOUS
<1>0. More /\ pc = "split"
  BY DEF Trailing, More
<1>1. PICK e \in Place : i <= e /\ EndsAt(i, NotSpace, e) /\ buffer[e] = Nul /\ i' = e
  BY DEF Trailing
<1>2. UNCHANGED <<pc, buffer, c, args, entered>>
  BY DEF Trailing, editor
<1>3. /\ i \in Nat /\ c \in Nat /\ i <= c /\ i \in Place /\ Len(entered) = c
      /\ \A k \in i .. c - 1 : buffer[k] = entered[k + 1]
  BY <1>0, AtArgument
<1>4. e <= c /\ e \in Nat
  <2>1. Nul \in NotSpace
    BY CharsAssumption DEF NotSpace
  <2>2. e <= c
    BY <1>0, <1>1, <1>3, <2>1, LoopEnds
  <2> QED
    BY <2>2 DEF Place
<1>5. Line!Reading(entered)[e] = [mode |-> "between", words |-> Texts]
  BY <1>0, <1>1, <1>4, SpacesRead
<1>6. \A k \in e .. c - 1 : buffer[k] = entered[k + 1]
  BY <1>1, <1>3, <1>4
<1>7. Texts' = Texts
  BY <1>2 DEF Texts
<1> QED
  BY <1>1, <1>2, <1>3, <1>5, <1>6, <1>7 DEF ReadInv

LEMMA ReadInit == Init => ReadInv
BY DEF Init, ReadInv

\* Enter hands the line over as it was typed.
LEMMA EnterReads == ShellInv /\ Enter => ReadInv'
<1> SUFFICES ASSUME ShellInv, Enter, pc' = "split" PROVE ReadInv'
  BY DEF ReadInv
<1>0. TypeOK /\ pc = "key"
  BY DEF ShellInv, Enter, Key
<1>1. /\ c' = c /\ entered' = Typed /\ buffer' = [buffer EXCEPT ![c] = Nul] /\ i' = 0 /\ args' = <<>>
  BY <1>0 DEF Enter
<1>2. Typed \in Seq(Chars) /\ c \in Nat /\ c \in Place
  <2>1. c \in Place
    BY <1>0 DEF TypeOK
  <2> QED
    BY <1>0, <2>1, TypedType DEF Place
<1>3. Len(Typed) = c
  BY <1>2 DEF Typed
<1>4. ASSUME NEW k \in 0 .. c - 1 PROVE buffer'[k] = Typed[k + 1]
  <2>1. k \in Place /\ k # c /\ k + 1 \in 1 .. c /\ (k + 1) - 1 = k
    BY <1>2, SizeAssumption DEF Place
  <2>2. buffer'[k] = buffer[k]
    BY <1>0, <1>1, <2>1 DEF TypeOK
  <2> QED
    BY <2>1, <2>2 DEF Typed
<1>5. Texts' = <<>>
  <2>1. Len(args') = 0
    BY <1>1
  <2> QED
    BY <2>1 DEF Texts
<1>6. Line!Reading(entered')[0] = Start
  BY <1>1, <1>2, ReadingRule DEF Read
<1>7. Line!Reading(entered)' = Line!Reading(entered')
  OBVIOUS
<1> QED
  BY <1>1, <1>3, <1>4, <1>5, <1>6, <1>7 DEF ReadInv, Start

LEMMA ReadStep == ShellInv /\ ReadInv /\ [Next]_vars => ReadInv'
<1> SUFFICES ASSUME ShellInv, ReadInv, [Next]_vars PROVE ReadInv'
  OBVIOUS
<1>1. CASE \E ch \in Chars : Type(ch)
  BY <1>1 DEF Type, Key, ReadInv
<1>2. CASE Backspace \/ Escape
  BY <1>2 DEF Backspace, Escape, Key, ReadInv
<1>3. CASE Run \/ NotFound
  BY <1>3 DEF Run, NotFound, Prompt, ReadInv
<1>4. CASE UNCHANGED vars
  <2>1. Texts' = Texts
    BY <1>4 DEF Texts, vars
  <2> QED
    BY <1>4, <2>1 DEF ReadInv, vars
<1> QED
  BY <1>1, <1>2, <1>3, <1>4, EnterReads, TextArgReads, QuotedArgReads, TrailingReads DEF Next, Step

\* Whatever is typed and however far the splitter is, the arguments found are
\* the words the automaton has read so far, and it stands where the splitter
\* does (shell.c:220-258).
THEOREM ReadAlways == Spec => [](ShellInv /\ ReadInv)
<1>1. Init => ShellInv /\ ReadInv
  BY InvInit, ReadInit
<1>2. (ShellInv /\ ReadInv) /\ [Next]_vars => (ShellInv /\ ReadInv)'
  BY InvStep, ReadStep
<1> QED
  BY <1>1, <1>2, PTL DEF Spec

\* When the line is split, its words are the arguments.
LEMMA SplitWords ==
  ASSUME ShellInv, ReadInv, Split
  PROVE  Line!Words(entered) = Texts
<1> DEFINE l == entered
           R == Line!Reading(l)
           all == R[Len(l)].words
           n == Len(args)
<1>0. TypeOK /\ ArgsInLine /\ pc = "split"
  BY DEF ShellInv, Split
<1>1. /\ l \in Seq(Chars) /\ Len(l) = c /\ c \in Nat /\ i \in Nat /\ i <= c /\ i \in 0 .. Len(l)
      /\ i < c => buffer[i] = l[i + 1]
  <2>1. l \in Seq(Chars) /\ Len(l) = c /\ c \in Place /\ i \in Place /\ i <= c
    BY <1>0 DEF TypeOK, ArgsInLine, ReadInv
  <2>2. c \in Nat /\ i \in Nat
    BY <2>1 DEF Place
  <2>3. ASSUME i < c PROVE buffer[i] = l[i + 1]
    BY <1>0, <2>2, <2>3 DEF ReadInv
  <2> HIDE DEF l
  <2> QED
    BY <2>1, <2>2, <2>3
<1>2. Read(l, R, Len(l))
  BY <1>1, ReadingRule
<1>3. R[i].words = Texts /\ (R[i].mode = "between" \/ buffer[i] = Nul)
  BY <1>0 DEF ReadInv
<1>4. n \in Nat /\ n <= MaxArgs /\ Len(Texts) = n /\ Texts = [k \in 1 .. n |-> Texts[k]]
  BY <1>0 DEF TypeOK, Texts
<1>5. all \in Seq(Seq(Chars))
  <2>1. R[Len(l)] \in States
    BY <1>1, <1>2 DEF Read
  <2> QED
    BY <2>1 DEF States
<1> HIDE DEF l, R
<1>6. Line!Words(entered) = SubSeq(all, 1, IF Len(all) < MaxArgs THEN Len(all) ELSE MaxArgs)
  BY DEF Line!Words, R, l
<1>7. CASE buffer[i] = Nul
  <2>1. all = Texts
    <3>1. CASE i = c
      BY <1>1, <1>3, <3>1
    <3>2. CASE i < c
      BY <1>1, <1>2, <1>3, <1>7, <3>2, NothingBehind
    <3> QED
      BY <1>1, <3>1, <3>2
  <2>2. (IF Len(all) < MaxArgs THEN Len(all) ELSE MaxArgs) = n
    BY <1>4, <2>1, SizeAssumption
  <2> HIDE DEF all
  <2>3. SubSeq(all, 1, n) = all
    BY <1>4, <1>5, <2>1
  <2> QED
    BY <1>6, <2>1, <2>2, <2>3
<1>8. CASE buffer[i] # Nul
  <2>1. n = MaxArgs /\ R[i].mode = "between"
    BY <1>3, <1>8 DEF Split
  <2>2. n <= Len(all) /\ \A k \in 1 .. n : all[k] = Texts[k]
    <3>1. Len(l) \in i .. Len(l)
      BY <1>1
    <3>2. /\ Len(R[i].words) <= Len(R[Len(l)].words)
          /\ \A k \in 1 .. Len(R[i].words) : R[Len(l)].words[k] = R[i].words[k]
      BY <1>1, <1>2, <2>1, <3>1, WordsStay
    <3> QED
      BY <1>3, <1>4, <3>2
  <2> HIDE DEF all
  <2>3. (IF Len(all) < MaxArgs THEN Len(all) ELSE MaxArgs) = n
    BY <1>4, <1>5, <2>1, <2>2
  <2>4. SubSeq(all, 1, n) = [k \in 1 .. n |-> all[k]]
    BY <1>4, <1>5, <2>2
  <2>5. \A k \in 1 .. n : all[k] = Texts[k]
    BY <2>2
  <2> QED
    BY <1>4, <1>6, <2>3, <2>4, <2>5
<1> QED
  BY <1>7, <1>8

-----------------------------------------------------------------------------
(* The refinement.                                                          *)

\* The line of the command line.
LineBar == IF pc = "split" THEN entered ELSE IF pc = "away" THEN <<>> ELSE Typed

\* A key edits the line.
LEMMA KeysRefine ==
  ASSUME ShellInv, NEW ch \in Chars, Type(ch) \/ Backspace \/ Escape
  PROVE  Line!Next \/ (LineBar' = LineBar /\ ran' = ran)
<1>0. TypeOK
  BY DEF ShellInv
<1>1. c \in Nat /\ c \in Place
  BY <1>0 DEF TypeOK, Place
<1>2. CASE Type(ch)
  <2>1. /\ pc = "key" /\ pc' = "key" /\ ran' = ran /\ c < BufSize - 2 /\ c' = c + 1
        /\ buffer' = [buffer EXCEPT ![c] = ch]
    BY <1>2 DEF Type, Key
  <2>2. Typed' = Append(Typed, ch)
    <3>1. Typed \in Seq(Chars) /\ Len(Typed) = c
      BY <1>0, <1>1, TypedType DEF Typed
    <3>2. Append(Typed, ch) = [k \in 1 .. c + 1 |-> IF k = c + 1 THEN ch ELSE Typed[k]]
      BY <1>1, <3>1, AppendIs
    <3>3. Typed' = [k \in 1 .. c + 1 |-> buffer'[k - 1]]
      BY <2>1 DEF Typed
    <3>4. ASSUME NEW k \in 1 .. c + 1
          PROVE  buffer'[k - 1] = IF k = c + 1 THEN ch ELSE Typed[k]
      <4>1. k - 1 \in Place /\ (k - 1 = c <=> k = c + 1) /\ (k # c + 1 => k \in 1 .. c)
        BY <1>1, SizeAssumption DEF Place
      <4> QED
        BY <1>0, <2>1, <4>1 DEF Typed, TypeOK
    <3> QED
      BY <3>2, <3>3, <3>4
  <2>3. Len(Typed) = c
    BY <1>1 DEF Typed
  <2>4. Line!Type(ch)
    BY <2>1, <2>2, <2>3 DEF Line!Type
  <2> QED
    BY <2>4 DEF Line!Next
<1>3. CASE Backspace
  <2>1. pc = "key" /\ pc' = "key" /\ ran' = ran /\ c > 0 /\ c' = c - 1 /\ buffer' = buffer
    BY <1>3 DEF Backspace, Key
  <2>2. Typed \in Seq(Chars) /\ Len(Typed) = c /\ \A k \in 1 .. c : Typed[k] = buffer[k - 1]
    BY <1>0, <1>1, TypedType DEF Typed
  <2>3. SubSeq(Typed, 1, c - 1) = [k \in 1 .. c - 1 |-> Typed[k]]
    BY <1>1, <2>1, <2>2
  <2>4. Typed' = [k \in 1 .. c - 1 |-> buffer[k - 1]]
    BY <2>1 DEF Typed
  <2>5. Typed' = SubSeq(Typed, 1, Len(Typed) - 1) /\ Typed # <<>>
    BY <1>1, <2>1, <2>2, <2>3, <2>4
  <2>6. Line!Erase
    BY <2>1, <2>5 DEF Line!Erase
  <2> QED
    BY <2>6 DEF Line!Next
<1>4. CASE Escape
  BY <1>4 DEF Escape, editor, LineBar, Typed
<1> QED
  BY <1>2, <1>3, <1>4

\* Entering a line takes no step of the command line yet.
LEMMA EnterRefines == ShellInv /\ Enter => LineBar' = LineBar /\ ran' = ran
<1> SUFFICES ASSUME ShellInv, Enter PROVE LineBar' = LineBar /\ ran' = ran
  OBVIOUS
<1>0. TypeOK /\ pc = "key" /\ ran' = ran /\ entered' = Typed /\ c' = c /\ c \in Nat
  BY DEF ShellInv, Enter, Key, TypeOK, Place
<1>1. CASE pc' = "split"
  BY <1>0, <1>1 DEF LineBar
<1>2. CASE pc' = "halt"
  <2>1. buffer' = [buffer EXCEPT ![c] = Nul]
    BY DEF Enter
  <2>2. \A k \in 1 .. c : buffer'[k - 1] = buffer[k - 1]
    <3> SUFFICES ASSUME NEW k \in 1 .. c PROVE k - 1 # c
      BY <1>0, <2>1 DEF TypeOK
    <3> QED
      BY <1>0
  <2>3. Typed' = Typed
    BY <1>0, <2>2 DEF Typed
  <2> QED
    BY <1>0, <1>2, <2>3 DEF LineBar
<1> QED
  BY <1>1, <1>2 DEF Enter

\* A command is called with the words of the line.
LEMMA CallRefines == ShellInv /\ ReadInv /\ (Run \/ NotFound) => Line!Enter
<1> SUFFICES ASSUME ShellInv, ReadInv, Run \/ NotFound PROVE Line!Enter
  OBVIOUS
<1>0. Split /\ pc = "split" /\ TypeOK
  BY DEF Run, NotFound, Split, ShellInv
<1>1. Line!Words(entered) = Texts
  BY <1>0, SplitWords
<1>2. Texts = [k \in 1 .. Len(args) |-> Text(args[k])]
  BY DEF Texts, TextAt, Text, EndsAt
<1>3. Called <=> Texts # <<>> /\ Texts[1] \in Commands
  <2>1. Len(args) \in Nat /\ (args # <<>> <=> Len(args) # 0)
    BY <1>0 DEF TypeOK
  <2>2. ASSUME args # <<>> PROVE Texts # <<>> /\ Texts[1] = Text(args[1])
    <3>1. 1 \in 1 .. Len(args)
      BY <2>1, <2>2
    <3> QED
      BY <1>2, <3>1
  <2>3. ASSUME args = <<>> PROVE Texts = <<>>
    BY <1>2, <2>3
  <2> QED
    BY <2>2, <2>3 DEF Called
<1>4. LineBar = entered
  BY <1>0 DEF LineBar
<1>5. LineBar' = <<>>
  <2>1. CASE pc' = "away"
    BY <2>1 DEF LineBar
  <2>2. CASE Prompt
    <3>1. Typed' = <<>>
      BY <2>2 DEF Prompt, Typed
    <3> QED
      BY <2>2, <3>1 DEF Prompt, LineBar
  <2> QED
    BY <2>1, <2>2 DEF Run, NotFound
<1>6. ran' = IF Texts # <<>> /\ Texts[1] \in Commands THEN Texts ELSE ran
  <2>1. CASE Run
    BY <1>2, <1>3, <2>1 DEF Run
  <2>2. CASE NotFound
    BY <1>3, <2>2 DEF NotFound
  <2> QED
    BY <2>1, <2>2
<1> QED
  BY <1>1, <1>4, <1>5, <1>6 DEF Line!Enter, LineBar

\* The splitter works on a line that was entered already.
LEMMA ArgsRefine == TextArg \/ QuotedArg \/ Trailing => LineBar' = LineBar /\ ran' = ran
BY DEF TextArg, QuotedArg, Trailing, More, Take, LineBar

\* The shell is a command line: what was typed and not erased is the line, and
\* a command gets the words of the line, with quotes, up to the number it can
\* get, for every line and buffer (shell.c:33-50 and 220-275), though the
\* buffer is cut up in place and used again.
THEOREM ShellIsCommandLine == Spec => Refines
<1>1. Init => Line!Init
  <2> SUFFICES ASSUME Init PROVE Line!Init
    OBVIOUS
  <2>1. Typed = <<>>
    BY DEF Init, Typed
  <2> QED
    BY <2>1 DEF Init, Line!Init
<1>2. ShellInv /\ ReadInv /\ [Next]_vars => [Line!Next]_<<LineBar, ran>>
  <2> SUFFICES ASSUME ShellInv, ReadInv, [Next]_vars
               PROVE  Line!Next \/ (LineBar' = LineBar /\ ran' = ran)
    OBVIOUS
  <2>1. CASE \E ch \in Chars : Type(ch)
    BY <2>1, KeysRefine
  <2>2. CASE Backspace \/ Escape
    BY <2>2, KeysRefine, CharsAssumption
  <2>3. CASE Run \/ NotFound
    BY <2>3, CallRefines DEF Line!Next
  <2>4. CASE UNCHANGED vars
    BY <2>4 DEF vars, LineBar, Typed
  <2> QED
    BY <2>1, <2>2, <2>3, <2>4, EnterRefines, ArgsRefine DEF Next, Step
<1> QED
  BY <1>1, <1>2, ReadAlways, PTL DEF Spec, Refines, Line!Spec, LineBar

=============================================================================
