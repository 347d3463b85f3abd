---------------------------- MODULE CommandLine ----------------------------
(* What the shell promises: a line that the user edits at its end, and a    *)
(* command that is called with the words of the line.  Shell implements     *)
(* this with one buffer, which the tokenizer cuts up where it is.           *)
EXTENDS Naturals, Sequences

CONSTANTS
  Chars,                \* the characters of a line
  Space, Quote, Nul,    \* those with a meaning
  MaxLine,              \* the longest line
  MaxArgs,              \* how many words a command gets at most
  Commands              \* the words that name a command

VARIABLES
  line,  \* the line as typed so far
  ran    \* the words the last command was called with

\* Reading words is an automaton: it is between words, in a word, in a word
\* in quotes, or behind the end of the line.
Begin(q, mode, w) == [mode |-> mode, words |-> Append(q.words, w)]

Extend(q, ch) ==
  [q EXCEPT !.words[Len(q.words)] = Append(@, ch)]

After(q, ch) ==
  IF ch = Nul \/ q.mode = "end" THEN [q EXCEPT !.mode = "end"]
  ELSE IF q.mode = "between"
  THEN IF ch = Space THEN q
       ELSE IF ch = Quote THEN Begin(q, "quoted", <<>>) ELSE Begin(q, "text", <<ch>>)
  ELSE IF ch = (IF q.mode = "quoted" THEN Quote ELSE Space) THEN [q EXCEPT !.mode = "between"]
  ELSE Extend(q, ch)

\* What is read of a line after each of its characters.
Reading(l) ==
  LET read[k \in 0 .. Len(l)] ==
        IF k = 0 THEN [mode |-> "between", words |-> <<>>] ELSE After(read[k - 1], l[k])
  IN  read

\* The words of a line, as many as a command gets.
Words(l) ==
  LET all == Reading(l)[Len(l)].words
  IN  SubSeq(all, 1, IF Len(all) < MaxArgs THEN Len(all) ELSE MaxArgs)

Init == line = <<>> /\ ran = <<>>

Type(ch) == Len(line) < MaxLine /\ line' = Append(line, ch) /\ UNCHANGED ran

Erase == line # <<>> /\ line' = SubSeq(line, 1, Len(line) - 1) /\ UNCHANGED ran

Enter ==
  /\ line' = <<>>
  /\ ran' = IF Words(line) # <<>> /\ Words(line)[1] \in Commands THEN Words(line) ELSE ran

Next == (\E ch \in Chars : Type(ch)) \/ Erase \/ Enter

Spec == Init /\ [][Next]_<<line, ran>>
=============================================================================
