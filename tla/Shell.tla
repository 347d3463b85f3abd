------------------------------- MODULE Shell -------------------------------
(* The shell, adachiite/shell.c: the line editor shell() and executeShell(),*)
(* which splits the line into arguments and calls a command.                *)
(*                                                                          *)
(* There is one buffer.  The editor writes characters at index c, enter puts*)
(* a 0 there, and the splitter overwrites the ends of the arguments with 0; *)
(* an argument is an index into the buffer.  The characters behind c are    *)
(* those of longer lines before, or whatever the stack held.                *)
EXTENDS Naturals, Sequences

CONSTANTS
  BufSize,              \* places in the buffer, 256
  MaxArgs,              \* places in args, 120
  Chars,                \* what the keyboard may deliver as UnicodeChar
  Space, Quote, Nul,    \* those the splitter looks for
  Commands,             \* the names in cmds
  Stacks,               \* what the buffer may hold before anything is typed
  MaxLines              \* bound on the number of lines entered

ASSUME SizeAssumption ==
  /\ BufSize \in Nat /\ BufSize >= 2 /\ MaxArgs \in Nat \ {0} /\ MaxLines \in Nat

ASSUME CharsAssumption ==
  /\ {Space, Quote, Nul} \subseteq Chars
  /\ Space # Quote /\ Quote # Nul /\ Nul # Space
  /\ Commands \subseteq Seq(Chars \ {Nul})
  /\ Stacks \subseteq [0 .. BufSize - 1 -> Chars]

VARIABLES
  pc,       \* "key", "split", and where the shell is gone: "away", "quit", "halt"
  buffer,
  c,        \* where the next character goes
  i,        \* the position of the splitter
  args,     \* the arguments found so far, as indices of buffer
  held,     \* the args arrays that are allocated
  entered,  \* the line as it was when it was entered
  ran,      \* the words the last command was called with
  lines,    \* how many lines were entered,
  unknown   \* and how many of them named no command

vars == <<pc, buffer, c, i, args, held, entered, ran, lines, unknown>>

editor   == <<buffer, c>>
splitter == <<i, args>>
counts   == <<held, lines, unknown>>

Place == 0 .. BufSize - 1

-----------------------------------------------------------------------------
(* The line editor.  When ReadKeyStroke fails, the key is what the stack    *)
(* holds, the key before as a rule: a key nobody pressed is handled like    *)
(* one that was.                                                            *)

\* The line on the screen.
Typed == [k \in 1 .. c |-> buffer[k - 1]]

Key == pc = "key" /\ c \in Place

\* Mutant: the line may fill the buffer, and leave no place for the 0.
TypeFull(ch) ==
  /\ Key
  /\ c < BufSize
  /\ buffer' = [buffer EXCEPT ![c] = ch]
  /\ c' = c + 1
  /\ UNCHANGED <<pc, splitter, counts, entered, ran>>

Type(ch) ==
  /\ Key
  /\ c < BufSize - 2
  /\ buffer' = [buffer EXCEPT ![c] = ch]
  /\ c' = c + 1
  /\ UNCHANGED <<pc, splitter, counts, entered, ran>>

Backspace ==
  /\ Key
  /\ c > 0
  /\ c' = c - 1
  /\ UNCHANGED <<pc, buffer, splitter, counts, entered, ran>>

\* Mutant: there is no 0 behind the line.
EnterOpen ==
  /\ Key
  /\ lines < MaxLines
  /\ lines' = lines + 1
  /\ entered' = Typed
  /\ pc' = "split" /\ held' = held + 1 /\ i' = 0 /\ args' = <<>>
  /\ UNCHANGED <<buffer, c, ran, unknown>>

\* The 0 behind the line, and the allocation of args.
Enter ==
  /\ Key
  /\ lines < MaxLines
  /\ lines' = lines + 1
  /\ buffer' = [buffer EXCEPT ![c] = Nul]
  /\ entered' = Typed
  /\ \/ pc' = "halt" /\ UNCHANGED <<held, splitter>>
     \/ pc' = "split" /\ held' = held + 1 /\ i' = 0 /\ args' = <<>>
  /\ UNCHANGED <<c, ran, unknown>>

Escape ==
  /\ pc = "key"
  /\ pc' = "quit"
  /\ UNCHANGED <<editor, splitter, counts, entered, ran>>

-----------------------------------------------------------------------------
(* executeShell. *)

\* The loop that starts at j and passes over what is not in stop ends at e.
EndsAt(j, stop, e) == buffer[e] \in stop /\ \A k \in j .. e - 1 : buffer[k] \notin stop

NotSpace == Chars \ {Space}

\* Another argument is taken: there is something left, and room for it.
More ==
  /\ pc = "split" /\ buffer[i] # Nul
  /\ Len(args) < MaxArgs

\* The argument that starts at a and ends at e is taken, and the loop goes on
\* behind its end, or at the end of the line.
Take(a, e) ==
  /\ args' = Append(args, a)
  /\ buffer' = [buffer EXCEPT ![e] = Nul]
  /\ i' = IF buffer[e] = Nul THEN e ELSE e + 1
  /\ UNCHANGED <<pc, c, counts, entered, ran>>

\* Spaces, and an argument without quotes, which ends at a space.
TextArg ==
  /\ More
  /\ \E a, e \in Place :
       /\ i <= a /\ EndsAt(i, NotSpace, a) /\ buffer[a] \notin {Nul, Quote}
       /\ a <= e /\ EndsAt(a, {Nul, Space}, e)
       /\ Take(a, e)

\* Mutant: the end of the line is passed over like a quote.
QuotedArgUnclosed ==
  /\ More
  /\ \E a, e \in Place :
       /\ i <= a /\ EndsAt(i, NotSpace, a) /\ buffer[a] = Quote
       /\ a < e /\ EndsAt(a + 1, {Nul, Quote}, e)
       /\ args' = Append(args, a + 1)
       /\ buffer' = [buffer EXCEPT ![e] = Nul]
       /\ i' = e + 1
  /\ UNCHANGED <<pc, c, counts, entered, ran>>

\* Spaces, and an argument in quotes.
QuotedArg ==
  /\ More
  /\ \E a, e \in Place :
       /\ i <= a /\ EndsAt(i, NotSpace, a) /\ buffer[a] = Quote
       /\ a < e /\ EndsAt(a + 1, {Nul, Quote}, e)
       /\ Take(a + 1, e)

\* Spaces to the end of the line.
Trailing ==
  /\ More
  /\ \E e \in Place : i <= e /\ EndsAt(i, NotSpace, e) /\ buffer[e] = Nul /\ i' = e
  /\ UNCHANGED <<pc, editor, args, counts, entered, ran>>

\* The text a command finds at index a: the characters up to a 0.
Text(a) ==
  LET e == CHOOSE e \in Place : a <= e /\ EndsAt(a, {Nul}, e)
  IN  [k \in 1 .. e - a |-> buffer[a + k - 1]]

\* Mutant: with all arguments taken the loop does not end.
SplitOn == pc = "split" /\ buffer[i] = Nul

\* The line is split: its end is reached, or args is full.
Split == pc = "split" /\ (buffer[i] = Nul \/ Len(args) = MaxArgs)

\* The first argument names a command.
Called == args # <<>> /\ Text(args[1]) \in Commands

\* executeShell returns, and its variables are gone.
Prompt ==
  /\ pc' = "key" /\ c' = 0
  /\ buffer' = [buffer EXCEPT ![0] = Nul]
  /\ i' = 0 /\ args' = <<>> /\ entered' = <<>>

\* Mutant: args is kept.
RunKept ==
  /\ Split
  /\ Called
  /\ ran' = [k \in 1 .. Len(args) |-> Text(args[k])]
  /\ Prompt
  /\ UNCHANGED counts

\* A command is called.  It may not come back: adachiite and what is out of
\* memory.
Run ==
  /\ Split
  /\ Called
  /\ ran' = [k \in 1 .. Len(args) |-> Text(args[k])]
  /\ \/ pc' = "away" /\ UNCHANGED <<editor, splitter, entered, held>>
     \/ Prompt /\ held' = held - 1
  /\ UNCHANGED <<lines, unknown>>

\* An empty line, or one that names no command.
NotFound ==
  /\ Split
  /\ ~ Called
  /\ Prompt
  /\ unknown' = unknown + 1
  /\ UNCHANGED <<held, ran, lines>>

Init ==
  /\ pc = "key"
  /\ buffer \in Stacks
  /\ c = 0 /\ i = 0 /\ args = <<>> /\ held = 0
  /\ entered = <<>> /\ ran = <<>> /\ lines = 0 /\ unknown = 0

Step == TextArg \/ QuotedArg \/ Trailing \/ Run \/ NotFound

Next == (\E ch \in Chars : Type(ch)) \/ Backspace \/ Enter \/ Escape \/ Step

Spec == Init /\ [][Next]_vars

\* A line that was entered is worked on; nobody has to press a key.
FairSpec == Spec /\ WF_vars(Step)

-----------------------------------------------------------------------------
(* Properties.                                                              *)

TypeOK ==
  /\ pc \in {"key", "split", "away", "quit", "halt"}
  /\ buffer \in [Place -> Chars]
  /\ c \in Place /\ i \in Place
  /\ args \in Seq(Place) /\ Len(args) <= MaxArgs
  /\ held \in Nat /\ lines \in Nat /\ unknown \in Nat
  /\ entered \in Seq(Chars) /\ ran \in Seq(Seq(Chars))

\* Whatever quotes and spaces are in the line, the splitter never gets behind
\* the 0 that ends the line, whatever the buffer holds there, and every
\* argument found so far ends before the part that is still to be split.
ArgsInLine ==
  pc = "split" =>
    /\ buffer[c] = Nul /\ i <= c
    /\ \A k \in DOMAIN args : \E e \in args[k] .. i : EndsAt(args[k], {Nul}, e)

\* The shell is a command line: what the user typed and erased is the line,
\* and a command is called with its words (shell.c:33-50 and 220-275), even
\* though the line is cut up in a buffer that is used again for the next.
Line == INSTANCE CommandLine WITH
          MaxLine <- BufSize - 2,
          line <- IF pc = "split" THEN entered ELSE IF pc = "away" THEN <<>> ELSE Typed

Refines == Line!Spec

\* Only a line that names no command leaves its args array behind.
OnlyUnknownKept == pc = "key" => held = unknown

\* A line that was entered is split up and dealt with.
SplitEnds == (pc = "split") ~> (pc # "split")
=============================================================================
