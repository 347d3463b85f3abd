---------------------------- MODULE FilesProofs ----------------------------
(* Proofs about Files, for every volume, every number of handles and pool   *)
(* buffers, and any number of commands and failures.                        *)
EXTENDS Files, FiniteSetTheorems, TLAPS

-----------------------------------------------------------------------------
(* What the firmware gives, and where a path leads. *)

LEMMA GivenHandle ==
  ASSUME NEW F \in SUBSET Handle, NEW h \in Candidates(F)
  PROVE  h \in F /\ h \in Handle
BY GivesFree

LEMMA GivenBuffer ==
  ASSUME NEW F \in SUBSET Buffer, NEW b \in Candidates(F)
  PROVE  b \in F /\ b \in Buffer
BY GivesFree

LEMMA FreeOnes ==
  /\ ClosedHandles \subseteq Handle /\ \A h \in ClosedHandles : open[h] = Closed
  /\ FreeBuffers \subseteq Buffer /\ \A b \in FreeBuffers : pool[b] = "free"
BY DEF ClosedHandles, FreeBuffers

\* A handle that was opened, or read from, is no closed one.
LEMMA OpenIsNotClosed ==
  /\ \A n \in Node : At(n) # Closed /\ At(n).node = n /\ At(n).pos >= 1
                     /\ At(n) \in [node : Node \union {NoNode}, pos : Nat]
  /\ Closed \in [node : Node \union {NoNode}, pos : Nat] /\ Top \in Node
BY VolumeAssumption DEF At, Closed

\* A sequence, cut off or filled up to n elements.
LEMMA FilledUp ==
  ASSUME NEW S, NEW s \in Seq(S), NEW x \in S, NEW n \in Nat
  PROVE  [k \in 1 .. n |-> IF k <= Len(s) THEN s[k] ELSE x] \in Seq(S)
<1>1. ASSUME NEW k \in 1 .. n, k <= Len(s)
      PROVE  s[k] \in S
  BY <1>1
<1>2. [k \in 1 .. n |-> IF k <= Len(s) THEN s[k] ELSE x] \in [1 .. n -> S]
  BY <1>1
<1> QED
  BY <1>2

LEMMA StoredType ==
  ASSUME NEW f \in Node
  PROVE  Stored(f) \in Seq(STRING) /\ Size[f] \in Nat
<1>1. Bytes[f] \in Seq(STRING) /\ Entries[f] \in Seq(STRING) /\ Size[f] \in Nat
  BY VolumeAssumption
<1>2. ASSUME Entries[f] # <<>> PROVE <<Head(Entries[f])>> \in Seq(STRING)
  BY <1>1, <1>2
<1> QED
  BY <1>1, <1>2 DEF Stored

LEMMA ContentType ==
  ASSUME NEW f \in Node, NEW n \in Nat
  PROVE  Content(f, n) \in Seq(STRING)
BY FilledUp, StoredType, FilesAssumption DEF Content

\* What can be read with the size that the firmware reports is read whole.  A
\* file always can.
LEMMA ContentWhole ==
  ASSUME NEW f \in Node, Entries[f] # <<>> => Content(f, Size[f]) # <<>>
  PROVE  Whole(f, Content(f, Size[f]))
<1>1. /\ Size[f] \in Nat /\ Stored(f) \in Seq(STRING) /\ Len(Stored(f)) \in Nat
      /\ Content(f, Size[f]) \in Seq(STRING) /\ Len(Content(f, Size[f])) = Size[f]
  <2>1. Size[f] \in Nat /\ Stored(f) \in Seq(STRING)
    BY StoredType
  <2>2. Content(f, Size[f]) \in Seq(STRING)
    BY <2>1, ContentType
  <2>3. Len(Content(f, Size[f])) = Size[f]
    BY <2>1 DEF Content
  <2> QED
    BY <2>1, <2>2, <2>3
<1>2. Len(Stored(f)) <= Size[f]
  <2>1. CASE Entries[f] # <<>>
    <3>1. Size[f] # 0
      BY <1>1, <2>1
    <3>2. Len(Stored(f)) = 1
      BY <2>1 DEF Stored
    <3> QED
      BY <1>1, <3>1, <3>2
  <2>2. CASE f \notin Dirs
    BY <1>1, <2>2, VolumeAssumption DEF Stored
  <2>3. CASE f \in Dirs /\ Entries[f] = <<>>
    <3>1. Stored(f) = <<>>
      BY <2>3, VolumeAssumption DEF Stored
    <3> QED
      BY <1>1, <3>1
  <2> QED
    BY <2>1, <2>2, <2>3
<1>3. \A k \in 1 .. Len(Stored(f)) : k \in 1 .. Size[f]
  BY <1>1, <1>2
<1> QED
  BY <1>1, <1>3 DEF Whole, Content

-----------------------------------------------------------------------------
(* Type correctness, and the working directory.  Each needs the other: the  *)
(* position that ls moves is that of an open handle.                        *)

\* The parts of TypeOK.
PlaceOK ==
  /\ pc \in {"start", "icon", "idle", "open", "info", "read", "loaded", "list",
             "returned", "halt", "lost"}
  /\ root \in Handle \union {Null} /\ currentDir \in Handle \union {Null}
  /\ open \in [Handle -> [node : Node \union {NoNode}, pos : Nat]]
  /\ file \in Handle \union {Null} /\ (pc \in {"info", "read"} => file \in Handle)

PoolOK ==
  /\ pool \in [Buffer -> Use]
  /\ info \in Buffer \union {Null} /\ (pc = "read" => info \in Buffer)
  /\ data \in Buffer \union {Null} /\ (pc \in {"read", "loaded"} => data \in Buffer)

TextOK ==
  /\ cmd \in {"none", "icon", "init", "cat", "cd", "ls"}
  /\ path \in Path \union {<<>>}
  /\ text \in Seq(STRING) /\ shown \in Seq(STRING)

CountOK ==
  misled \in BOOLEAN /\ failed \in Nat /\ calls \in Nat /\ loads \in Nat /\ faults \in Nat

LEMMA TypeParts == TypeOK <=> PlaceOK /\ PoolOK /\ TextOK /\ CountOK
BY DEF TypeOK, PlaceOK, PoolOK, TextOK, CountOK

LEMMA TypePartsNext == TypeOK' <=> PlaceOK' /\ PoolOK' /\ TextOK' /\ CountOK'
BY DEF TypeOK, PlaceOK, PoolOK, TextOK, CountOK

\* A handle that is open stands for a node, and a command has a path.
NodesOpen ==
  /\ \A h \in Handle : open[h] = Closed \/ (open[h].node \in Node /\ open[h].pos >= 1)
  /\ pc = "open" => path \in Path

PlaceInv == PlaceOK /\ DirectoryOpen /\ NodesOpen

LEMMA PlaceInit == Init => PlaceInv
BY OpenIsNotClosed DEF Init, PlaceInv, PlaceOK, DirectoryOpen, NodesOpen, Started

LEMMA PlaceStep == PlaceInv /\ [Next]_vars => PlaceInv'
<1> SUFFICES ASSUME PlaceInv, [Next]_vars PROVE PlaceInv'
  OBVIOUS
<1> USE DEF PlaceInv, PlaceOK, DirectoryOpen, NodesOpen, Started, Goto, Fail, Succeed, Halt
<1>1. CASE Start
  <2>1. CASE \E label \in {"returned", "lost"} : Goto(label) /\ UNCHANGED <<globals, open>>
    BY <1>1, <2>1 DEF Start, globals, locals
  <2>2. ASSUME NEW h \in Candidates(ClosedHandles), currentDir' = h,
               root' = Null, open' = [open EXCEPT ![h] = At(Top)],
               NEW label \in {"returned", "icon"}, Goto(label), UNCHANGED locals
        PROVE  PlaceInv'
    <3>1. h \in Handle
      BY GivenHandle, FreeOnes
    <3> QED
      BY <2>2, <3>1, OpenIsNotClosed DEF locals
  <2>3. ASSUME NEW h \in Candidates(ClosedHandles), currentDir' = h,
               NEW g \in Candidates(ClosedHandles \ {h}),
               root' = g, open' = [open EXCEPT ![h] = At(Top), ![g] = At(Top)],
               NEW label \in {"returned", "icon"}, Goto(label), UNCHANGED locals
        PROVE  PlaceInv'
    <3>1. h \in Handle /\ g \in Handle /\ g # h
      BY GivenHandle, FreeOnes
    <3> QED
      BY <2>3, <3>1, OpenIsNotClosed DEF locals
  <2> QED
    BY <1>1, <2>1, <2>2, <2>3 DEF Start
<1>2. ASSUME NEW d \in {"icon", "init", "cat", "cd"}, NEW p \in Path, Call(d, p) PROVE PlaceInv'
  BY <1>2 DEF Call, globals, locals
<1>3. CASE Ls
  <2>1. currentDir \in Handle /\ open[currentDir] # Closed
    BY <1>3 DEF Ls
  <2>2. /\ open' = [open EXCEPT ![currentDir] = [open[currentDir] EXCEPT !.pos = 1]]
        /\ pc' = "list" /\ UNCHANGED <<globals, locals>>
    BY <1>3 DEF Ls
  <2>3. [open[currentDir] EXCEPT !.pos = 1] \in [node : Node \union {NoNode}, pos : Nat]
        /\ [open[currentDir] EXCEPT !.pos = 1] # Closed
        /\ [open[currentDir] EXCEPT !.pos = 1].node \in Node
        /\ [open[currentDir] EXCEPT !.pos = 1].pos >= 1
    BY <2>1 DEF Closed
  <2> QED
    BY <2>1, <2>2, <2>3 DEF globals, locals
<1>4. CASE Open
  <2>1. CASE Fail /\ UNCHANGED <<open, file>>
    BY <1>4, <2>1 DEF Open, globals
  <2>2. ASSUME Target # NoNode, NEW h \in Candidates(ClosedHandles),
               file' = h, open' = [open EXCEPT ![h] = At(Target)], Goto("info"),
               pc = "open", UNCHANGED globals
        PROVE  PlaceInv'
    <3>1. h \in Handle /\ open[h] = Closed /\ h # currentDir
      BY <2>2, GivenHandle, FreeOnes
    <3>2. Target \in Node
      <4>1. open[currentDir].node \in Node /\ path \in Path /\ convertPath(path) \in Path
        BY <2>2, PathAssumption DEF Closed
      <4> QED
        BY <4>1, <2>2, VolumeAssumption DEF Target
    <3> QED
      BY <2>2, <3>1, <3>2, OpenIsNotClosed DEF globals
  <2> QED
    BY <1>4, <2>1, <2>2 DEF Open
<1>5. CASE CheckDir
  BY <1>5 DEF CheckDir, locals, Closed
<1>6. CASE GetSize
  BY <1>6 DEF GetSize, locals
<1>7. CASE Read
  BY <1>7, OpenIsNotClosed DEF Read, globals, locals
<1>8. CASE Deliver
  BY <1>8 DEF Deliver, globals, locals
<1>9. CASE Convert
  BY <1>9 DEF Convert, locals
<1>10. CASE ListEnd
  BY <1>10 DEF ListEnd, globals, locals
<1>11. CASE ListEntry
  <2> DEFINE moved == [open EXCEPT ![currentDir] = [open[currentDir] EXCEPT !.pos = open[currentDir].pos + 1]]
  <2>1. currentDir \in Handle /\ open[currentDir] # Closed /\ pc = "list"
    BY <1>11 DEF ListEntry
  <2>2. open' \in {open, moved} /\ pc' \in {"list", "lost"} /\ UNCHANGED <<globals, locals>>
    BY <1>11 DEF ListEntry
  <2>3. [open[currentDir] EXCEPT !.pos = open[currentDir].pos + 1] \in [node : Node \union {NoNode}, pos : Nat]
        /\ [open[currentDir] EXCEPT !.pos = open[currentDir].pos + 1] # Closed
        /\ [open[currentDir] EXCEPT !.pos = open[currentDir].pos + 1].node \in Node
        /\ [open[currentDir] EXCEPT !.pos = open[currentDir].pos + 1].pos >= 1
    BY <2>1 DEF Closed
  <2> QED
    BY <2>1, <2>2, <2>3 DEF globals, locals
<1>12. CASE UNCHANGED vars
  BY <1>12 DEF vars, globals, locals
<1> QED
  BY <1>1, <1>2, <1>3, <1>4, <1>5, <1>6, <1>7, <1>8, <1>9, <1>10, <1>11, <1>12 DEF Next, Step
-----------------------------------------------------------------------------
(* The rest of the types. *)

TypeInv == TypeOK /\ DirectoryOpen /\ NodesOpen

LEMMA PoolStep == PoolOK /\ [Next]_vars => PoolOK'
<1> SUFFICES ASSUME PoolOK, [Next]_vars PROVE PoolOK'
  OBVIOUS
<1> USE DEF PoolOK, Use, Goto, Fail, Succeed, Halt
<1>1. CASE Start
  BY <1>1 DEF Start, locals
<1>2. ASSUME NEW d \in {"icon", "init", "cat", "cd"}, NEW p \in Path, Call(d, p) PROVE PoolOK'
  BY <1>2 DEF Call, locals
<1>3. CASE Ls
  BY <1>3 DEF Ls, locals
<1>4. CASE Open
  BY <1>4 DEF Open
<1>5. CASE CheckDir
  BY <1>5 DEF CheckDir, locals
<1>6. CASE GetSize
  <2>1. CASE Halt
    BY <1>6, <2>1 DEF locals
  <2>2. ASSUME NEW b \in Candidates(FreeBuffers), NEW d \in Candidates(FreeBuffers \ {b}),
               info' = b, data' = d, pool' = [pool EXCEPT ![b] = "info", ![d] = "data"]
        PROVE  PoolOK'
    <3>1. b \in Buffer /\ d \in Buffer
      BY GivenBuffer, FreeOnes
    <3> QED
      BY <2>2, <3>1
  <2> QED
    BY <1>6, <2>1, <2>2 DEF GetSize
<1>7. CASE Read
  BY <1>7 DEF Read, locals
<1>8. CASE Deliver
  BY <1>8 DEF Deliver, locals
<1>9. CASE Convert
  <2>1. ASSUME NEW b \in Candidates(FreeBuffers)
        PROVE  b \in Buffer
    BY GivenBuffer, FreeOnes
  <2> QED
    BY <1>9, <2>1 DEF Convert, locals
<1>10. CASE ListEnd
  BY <1>10 DEF ListEnd, locals
<1>11. CASE ListEntry
  BY <1>11 DEF ListEntry, locals
<1>12. CASE UNCHANGED vars
  BY <1>12 DEF vars, locals
<1> QED
  BY <1>1, <1>2, <1>3, <1>4, <1>5, <1>6, <1>7, <1>8, <1>9, <1>10, <1>11, <1>12 DEF Next, Step

\* What was listed, or read, is text.
LEMMA TextStep == PlaceInv /\ TextOK /\ CountOK /\ [Next]_vars => TextOK' /\ CountOK'
<1> SUFFICES ASSUME PlaceInv, TextOK, CountOK, [Next]_vars PROVE TextOK' /\ CountOK'
  OBVIOUS
<1> USE DEF TextOK, CountOK, Goto, Fail, Succeed, Halt, Noticed, Unnoticed
<1>0. <<>> \in Seq(STRING) /\ \A n \in Nat : n + 1 \in Nat
  OBVIOUS
<1>1. CASE Start
  BY <1>1 DEF Start
<1>2. ASSUME NEW d \in {"icon", "init", "cat", "cd"}, NEW p \in Path, Call(d, p)
      PROVE  TextOK' /\ CountOK'
  BY <1>0, <1>2 DEF Call
<1>3. CASE Ls
  BY <1>0, <1>3 DEF Ls
<1>4. CASE Open
  BY <1>0, <1>4 DEF Open
<1>5. CASE CheckDir
  BY <1>0, <1>5 DEF CheckDir
<1>6. CASE GetSize
  <2>1. CASE Halt
    BY <1>6, <2>1 DEF GetSize
  <2>2. CASE pc' = "read"
    <3>1. open[file].node \in Node
      BY <1>6 DEF GetSize, PlaceInv, PlaceOK, DirectoryOpen, Started, NodesOpen, Closed
    <3>2. Content(open[file].node, Size[open[file].node]) \in Seq(STRING)
      BY <3>1, ContentType, StoredType
    <3>3. \A n \in JunkSizes : Content(open[file].node, n) \in Seq(STRING)
      BY <3>1, ContentType, FilesAssumption
    <3> HIDE DEF Halt
    <3> QED
      BY <1>0, <1>6, <2>2, <3>2, <3>3 DEF GetSize, Halt
  <2> QED
    BY <1>6, <2>1, <2>2 DEF GetSize
<1>7. CASE Read
  BY <1>0, <1>7 DEF Read, counts
<1>8. CASE Deliver
  BY <1>0, <1>8 DEF Deliver
<1>9. CASE Convert
  BY <1>0, <1>9 DEF Convert
<1>10. CASE ListEnd
  BY <1>0, <1>10 DEF ListEnd
<1>11. CASE ListEntry
  <2>1. /\ open[currentDir].node \in Node /\ Junk \in STRING
        /\ open[currentDir].pos \in Nat /\ open[currentDir].pos >= 1
    BY <1>11, FilesAssumption DEF ListEntry, PlaceInv, PlaceOK, DirectoryOpen, Started, NodesOpen, Closed
  <2>2. Listed \in Seq(STRING)
    BY <2>1, VolumeAssumption DEF Listed
  <2>3. ~ AtEnd => Listed[open[currentDir].pos] \in STRING
    BY <2>1, <2>2 DEF AtEnd
  <2>4. TextOK'
    <3>1. ~ AtEnd /\ UNCHANGED <<cmd, path, shown>>
          /\ (text' = Append(text, Listed[open[currentDir].pos]) \/ text' = Append(text, Junk))
      BY <1>11 DEF ListEntry
    <3>2. \A e \in STRING : Append(text, e) \in Seq(STRING)
      OBVIOUS
    <3> QED
      BY <3>1, <3>2, <2>1, <2>3
  <2>5. CountOK'
    BY <1>0, <1>11 DEF ListEntry
  <2> QED
    BY <2>4, <2>5
<1>12. CASE UNCHANGED vars
  BY <1>12 DEF vars, counts
<1> QED
  BY <1>1, <1>2, <1>3, <1>4, <1>5, <1>6, <1>7, <1>8, <1>9, <1>10, <1>11, <1>12 DEF Next, Step

LEMMA TypeAlways == Spec => []TypeInv
<1>1. Init => TypeInv
  <2> SUFFICES ASSUME Init PROVE TypeInv
    OBVIOUS
  <2>1. PlaceInv
    BY PlaceInit
  <2>2. PoolOK
    BY DEF Init, PoolOK, Use
  <2>3. TextOK
    BY DEF Init, TextOK
  <2>4. CountOK
    BY DEF Init, CountOK
  <2> QED
    BY <2>1, <2>2, <2>3, <2>4, TypeParts DEF PlaceInv, TypeInv
<1>2. TypeInv /\ [Next]_vars => TypeInv'
  BY TypeParts, TypePartsNext, PlaceStep, PoolStep, TextStep DEF PlaceInv, TypeInv
<1> QED
  BY <1>1, <1>2, PTL DEF Spec

\* Type correctness of the file commands.
THEOREM TypeCorrect == Spec => []TypeOK
<1>1. TypeInv => TypeOK
  BY DEF TypeInv
<1> QED
  BY <1>1, TypeAlways, PTL

\* Every command has a directory to start from, whatever failed before it
\* (file.c:31-55).
THEOREM DirectoryIsOpen == Spec => []DirectoryOpen
<1>1. TypeInv => DirectoryOpen
  BY DEF TypeInv
<1> QED
  BY <1>1, TypeAlways, PTL

-----------------------------------------------------------------------------
(* What the commands leave behind.  A command that runs holds one handle, and *)
(* in the end one buffer of each kind, more than those that failed before it. *)

HandlesAllowed ==
  IF pc = "start" THEN 0 ELSE IF pc \in {"info", "read"} THEN 3 + failed ELSE 2 + failed

HandleInv == pc \notin {"returned", "halt", "lost"} => Cardinality(OpenHandles) <= HandlesAllowed

\* The buffers for the use u, or that were for it.
Kept(u) == {b \in Buffer : pool[b] \in {u, "loaded"}}

BufferInv ==
  /\ pc \in {"start", "icon", "idle", "open", "info", "list"} =>
       \A u \in {"info", "data"} : Cardinality(Kept(u)) <= failed
  /\ pc \in {"read", "loaded"} =>
       \A u \in {"info", "data"} : Cardinality(Kept(u)) <= failed + 1
  /\ pc = "read" => pool[info] = "info" /\ pool[data] = "data"
  /\ pc = "loaded" => pool[data] = "loaded"

LEMMA FiniteOnes ==
  /\ IsFiniteSet(OpenHandles) /\ Cardinality(OpenHandles) \in Nat
  /\ \A u : IsFiniteSet(Kept(u)) /\ Cardinality(Kept(u)) \in Nat
<1>1. OpenHandles \in SUBSET Handle /\ \A u : Kept(u) \in SUBSET Buffer
  BY DEF OpenHandles, Kept
<1>2. IsFiniteSet(Handle) /\ IsFiniteSet(Buffer)
  BY FilesAssumption
<1> QED
  BY <1>1, <1>2, FS_Subset, FS_CardinalityType

LEMMA FiniteOnesNext ==
  /\ IsFiniteSet(OpenHandles') /\ Cardinality(OpenHandles') \in Nat
  /\ \A u : LET T == {b \in Buffer : pool'[b] \in {u, "loaded"}} IN
            IsFiniteSet(T) /\ Cardinality(T) \in Nat
<1>1. OpenHandles' \in SUBSET Handle /\ \A u : {b \in Buffer : pool'[b] \in {u, "loaded"}} \in SUBSET Buffer
  BY DEF OpenHandles
<1>2. IsFiniteSet(Handle) /\ IsFiniteSet(Buffer)
  BY FilesAssumption
<1> QED
  BY <1>1, <1>2, FS_Subset, FS_CardinalityType

\* A handle more, or one less, if the others stay.
LEMMA OneMore ==
  ASSUME NEW S, IsFiniteSet(S), NEW T, NEW e, T \subseteq S \union {e}
  PROVE  IsFiniteSet(T) /\ Cardinality(T) <= Cardinality(S) + 1
<1>1. /\ IsFiniteSet(S \union {e}) /\ Cardinality(S) \in Nat
      /\ Cardinality(S \union {e}) <= Cardinality(S) + 1
      /\ Cardinality(S \union {e}) \in Nat
  BY FS_AddElement, FS_CardinalityType
<1>2. IsFiniteSet(T) /\ Cardinality(T) <= Cardinality(S \union {e}) /\ Cardinality(T) \in Nat
  BY <1>1, FS_Subset, FS_CardinalityType
<1> QED
  BY <1>1, <1>2

LEMMA OneLess ==
  ASSUME NEW S, IsFiniteSet(S), NEW e \in S, NEW T, T \subseteq S \ {e}
  PROVE  IsFiniteSet(T) /\ Cardinality(T) <= Cardinality(S) - 1
<1>1. /\ IsFiniteSet(S \ {e}) /\ Cardinality(S) \in Nat
      /\ Cardinality(S \ {e}) = Cardinality(S) - 1
      /\ Cardinality(S \ {e}) \in Nat
  BY FS_RemoveElement, FS_CardinalityType
<1>2. IsFiniteSet(T) /\ Cardinality(T) <= Cardinality(S \ {e}) /\ Cardinality(T) \in Nat
  BY <1>1, FS_Subset, FS_CardinalityType
<1> QED
  BY <1>1, <1>2

LEMMA NotMore ==
  ASSUME NEW S, IsFiniteSet(S), NEW T, T \subseteq S
  PROVE  IsFiniteSet(T) /\ Cardinality(T) <= Cardinality(S)
BY FS_Subset

LEMMA HandleStep == TypeInv /\ HandleInv /\ [Next]_vars => HandleInv'
<1> SUFFICES ASSUME TypeInv, HandleInv, [Next]_vars PROVE HandleInv'
  OBVIOUS
<1> DEFINE S == OpenHandles
           T == OpenHandles'
<1>0. /\ PlaceOK /\ DirectoryOpen /\ failed \in Nat /\ failed + 1 \in Nat
      /\ IsFiniteSet(S) /\ Cardinality(S) \in Nat /\ Cardinality(T) \in Nat
  BY TypeParts, FiniteOnes, FiniteOnesNext DEF TypeInv, CountOK
<1> USE <1>0 DEF HandleInv, HandlesAllowed, Goto, Fail, Succeed, Halt
<1>s. ASSUME open' = open PROVE T = S
  BY <1>s DEF OpenHandles
<1>1. CASE Start
  <2>1. CASE \E label \in {"returned", "lost"} : Goto(label)
    BY <2>1
  <2>2. ASSUME NEW h \in Handle, open' = [open EXCEPT ![h] = At(Top)], pc = "start", failed' = failed
        PROVE  Cardinality(T) <= 2 + failed
    <3>1. T \subseteq S \union {h}
      BY <2>2 DEF OpenHandles, PlaceOK
    <3> QED
      BY <2>2, <3>1, OneMore
  <2>3. ASSUME NEW h \in Handle, NEW g \in Handle,
               open' = [open EXCEPT ![h] = At(Top), ![g] = At(Top)], pc = "start", failed' = failed
        PROVE  Cardinality(T) <= 2 + failed
    <3>1. T \subseteq (S \union {h}) \union {g}
      BY <2>3 DEF OpenHandles, PlaceOK
    <3>2. IsFiniteSet(S \union {h}) /\ Cardinality(S \union {h}) <= Cardinality(S) + 1
      BY OneMore
    <3>3. Cardinality(T) <= Cardinality(S \union {h}) + 1 /\ Cardinality(S \union {h}) \in Nat
      BY <3>1, <3>2, OneMore, FS_CardinalityType
    <3> QED
      BY <2>3, <3>2, <3>3
  <2>4. ASSUME NEW h \in Candidates(ClosedHandles) PROVE h \in Handle
    BY GivenHandle, FreeOnes
  <2>5. ASSUME NEW h \in Handle, NEW g \in Candidates(ClosedHandles \ {h}) PROVE g \in Handle
    BY GivenHandle, FreeOnes
  <2>6. ASSUME NEW h \in Candidates(ClosedHandles),
               \/ open' = [open EXCEPT ![h] = At(Top)]
               \/ \E g \in Candidates(ClosedHandles \ {h}) :
                    open' = [open EXCEPT ![h] = At(Top), ![g] = At(Top)],
               NEW label \in {"returned", "icon"}, pc' = label, failed' = failed
        PROVE  HandleInv'
    <3>1. h \in Handle /\ pc = "start"
      BY <2>4, <1>1 DEF Start
    <3>2. Cardinality(T) <= 2 + failed
      BY <2>6, <3>1, <2>2, <2>3, <2>5
    <3> QED
      BY <2>6, <3>2
  <2> QED
    BY <1>1, <2>1, <2>6 DEF Start
<1>2. ASSUME NEW d \in {"icon", "init", "cat", "cd"}, NEW p \in Path, Call(d, p) PROVE HandleInv'
  BY <1>2, <1>s DEF Call
<1>3. CASE Ls
  <2>1. T \subseteq S
    BY <1>3 DEF Ls, OpenHandles, PlaceOK, DirectoryOpen, Started
  <2>2. Cardinality(T) <= Cardinality(S)
    BY <2>1, NotMore
  <2> QED
    BY <1>3, <2>2 DEF Ls
<1>4. CASE Open
  <2>1. CASE Fail /\ open' = open
    BY <1>4, <2>1, <1>s DEF Open
  <2>2. ASSUME NEW h \in Candidates(ClosedHandles), open' = [open EXCEPT ![h] = At(Target)],
               pc = "open", pc' = "info", failed' = failed
        PROVE  HandleInv'
    <3>1. h \in Handle
      BY GivenHandle, FreeOnes
    <3>2. T \subseteq S \union {h}
      BY <2>2, <3>1 DEF OpenHandles, PlaceOK
    <3>3. Cardinality(T) <= Cardinality(S) + 1
      BY <3>2, OneMore
    <3> QED
      BY <2>2, <3>3
  <2> QED
    BY <1>4, <2>1, <2>2 DEF Open
<1>5. CASE CheckDir
  <2>0. CASE pc' = "halt"
    BY <2>0
  <2>1. CASE open' = open /\ pc' = "idle" /\ failed' = failed + 1
    <3>1. pc = "info"
      BY <1>5 DEF CheckDir
    <3> QED
      BY <2>1, <3>1, <1>s
  <2>2. CASE open' = [open EXCEPT ![currentDir] = Closed] /\ pc' = "idle" /\ failed' = failed
    <3>1. currentDir \in S /\ T \subseteq S \ {currentDir}
      BY <1>5, <2>2 DEF CheckDir, OpenHandles, PlaceOK, DirectoryOpen, Started
    <3>2. Cardinality(T) <= Cardinality(S) - 1
      BY <3>1, OneLess
    <3> QED
      BY <1>5, <2>2, <3>2 DEF CheckDir
  <2> QED
    BY <1>5, <2>0, <2>1, <2>2 DEF CheckDir
<1>6. CASE GetSize
  <2>1. open' = open /\ pc = "info" /\ (pc' = "halt" \/ (pc' = "read" /\ failed' = failed))
    BY <1>6 DEF GetSize
  <2> QED
    BY <2>1, <1>s
<1>7. CASE Read
  <2>1. CASE Fail /\ open' = open
    BY <1>7, <2>1, <1>s DEF Read
  <2>2. CASE open' = [open EXCEPT ![file] = Closed] /\ pc' = "loaded" /\ failed' = failed
    <3>1. file \in S /\ T \subseteq S \ {file}
      BY <1>7, <2>2 DEF Read, OpenHandles, PlaceOK, DirectoryOpen, Started
    <3>2. Cardinality(T) <= Cardinality(S) - 1
      BY <3>1, OneLess
    <3> QED
      BY <1>7, <2>2, <3>2 DEF Read
  <2> QED
    BY <1>7, <2>1, <2>2 DEF Read
<1>8. CASE Deliver
  BY <1>8, <1>s DEF Deliver
<1>9. CASE Convert
  <2>1. open' = open /\ pc = "loaded" /\ (pc' = "halt" \/ (pc' = "idle" /\ failed' >= failed /\ failed' \in Nat))
    BY <1>9 DEF Convert
  <2> QED
    BY <2>1, <1>s
<1>10. CASE ListEnd
  BY <1>10, <1>s DEF ListEnd
<1>11. CASE ListEntry
  <2>1. T \subseteq S
    BY <1>11 DEF ListEntry, OpenHandles, PlaceOK, DirectoryOpen, Started
  <2>2. Cardinality(T) <= Cardinality(S)
    BY <2>1, NotMore
  <2> QED
    BY <1>11, <2>2 DEF ListEntry
<1>12. CASE UNCHANGED vars
  BY <1>12, <1>s DEF vars
<1> QED
  BY <1>1, <1>2, <1>3, <1>4, <1>5, <1>6, <1>7, <1>8, <1>9, <1>10, <1>11, <1>12 DEF Next, Step

LEMMA BufferStep == TypeInv /\ BufferInv /\ [Next]_vars => BufferInv'
<1> SUFFICES ASSUME TypeInv, BufferInv, [Next]_vars PROVE BufferInv'
  OBVIOUS
<1> DEFINE H(u) == {b \in Buffer : pool'[b] \in {u, "loaded"}}
<1>0. /\ PlaceOK /\ PoolOK /\ failed \in Nat /\ failed + 1 \in Nat
      /\ \A u : IsFiniteSet(Kept(u)) /\ Cardinality(Kept(u)) \in Nat
      /\ \A u : IsFiniteSet(H(u)) /\ Cardinality(H(u)) \in Nat
  <2>1. \A u : IsFiniteSet(H(u)) /\ Cardinality(H(u)) \in Nat
    BY FiniteOnesNext
  <2> HIDE DEF H
  <2> QED
    BY <2>1, TypeParts, FiniteOnes DEF TypeInv, CountOK
<1>h. \A u : Kept(u)' = H(u)
  BY DEF Kept
<1> USE <1>0 DEF Goto, Fail, Succeed, Halt
<1>s. ASSUME pool' = pool, pc' # "read", pc' # "loaded", failed' \in Nat,
             pc \notin {"returned", "halt", "lost"},
             failed' >= failed, pc \in {"read", "loaded"} => failed' >= failed + 1
      PROVE  BufferInv'
  <2>1. \A u : H(u) = Kept(u)
    BY <1>s DEF Kept
  <2> HIDE DEF H
  <2>2. \A u \in {"info", "data"} : Cardinality(Kept(u)) <= failed'
    BY <1>s DEF BufferInv, PlaceOK
  <2>3. \A u \in {"info", "data"} : Cardinality(Kept(u)') <= failed'
    BY <2>1, <2>2, <1>h
  <2> QED
    BY <1>s, <2>3 DEF BufferInv
<1>1. CASE Start
  <2>1. pool' = pool /\ pc = "start" /\ pc' # "read" /\ pc' # "loaded" /\ failed' = failed
    BY <1>1 DEF Start
  <2> QED
    BY <2>1, <1>s
<1>2. ASSUME NEW d \in {"icon", "init", "cat", "cd"}, NEW p \in Path, Call(d, p) PROVE BufferInv'
  <2>1. pool' = pool /\ pc \in {"icon", "idle"} /\ pc' = "open" /\ failed' = failed
    BY <1>2 DEF Call
  <2> QED
    BY <2>1, <1>s
<1>3. CASE Ls
  <2>1. pool' = pool /\ pc = "idle" /\ pc' = "list" /\ failed' = failed
    BY <1>3 DEF Ls
  <2> QED
    BY <2>1, <1>s
<1>4. CASE Open
  <2>1. pool' = pool /\ pc = "open" /\ pc' \in {"idle", "info"} /\ failed' \in {failed, failed + 1}
    BY <1>4 DEF Open
  <2> QED
    BY <2>1, <1>s
<1>5. CASE CheckDir
  <2>1. pool' = pool /\ pc = "info" /\ pc' \in {"idle", "halt"} /\ failed' \in {failed, failed + 1}
    BY <1>5 DEF CheckDir
  <2> QED
    BY <2>1, <1>s
<1>6. CASE GetSize
  <2>1. CASE Halt
    BY <2>1 DEF BufferInv
  <2>2. ASSUME NEW b \in Candidates(FreeBuffers), NEW d \in Candidates(FreeBuffers \ {b}),
               info' = b, data' = d, pool' = [pool EXCEPT ![b] = "info", ![d] = "data"],
               pc = "info", pc' = "read", failed' = failed
        PROVE  BufferInv'
    <3>1. b \in Buffer /\ d \in Buffer /\ b # d
      BY GivenBuffer, FreeOnes
    <3>2. H("info") \subseteq Kept("info") \union {b} /\ H("data") \subseteq Kept("data") \union {d}
      BY <2>2, <3>1 DEF Kept, PoolOK
    <3>3. /\ Cardinality(H("info")) <= Cardinality(Kept("info")) + 1
          /\ Cardinality(H("data")) <= Cardinality(Kept("data")) + 1
      BY <3>2, OneMore
    <3>4. pool'[b] = "info" /\ pool'[d] = "data"
      BY <2>2, <3>1 DEF PoolOK
    <3> HIDE DEF H
    <3>5. Cardinality(Kept("info")) <= failed /\ Cardinality(Kept("data")) <= failed
      BY <2>2 DEF BufferInv
    <3>6. Cardinality(H("info")) <= failed + 1 /\ Cardinality(H("data")) <= failed + 1
      BY <3>3, <3>5
    <3> QED
      BY <2>2, <3>4, <3>6, <1>h DEF BufferInv
  <2> QED
    BY <1>6, <2>1, <2>2 DEF GetSize
<1>7. CASE Read
  <2>1. CASE Fail /\ pool' = pool
    BY <1>7, <2>1, <1>s DEF Read
  <2>2. CASE pool' = [pool EXCEPT ![info] = "free", ![data] = "loaded"] /\ pc' = "loaded" /\ failed' = failed
    <3>1. /\ pc = "read" /\ info \in Buffer /\ data \in Buffer
          /\ pool[info] = "info" /\ pool[data] = "data" /\ data' = data
      BY <1>7 DEF Read, PoolOK, BufferInv, locals
    <3> DEFINE S == Kept("info") \ {info}
    <3>2. /\ info \in Kept("info") /\ S \subseteq Kept("info") \ {info}
          /\ H("info") \subseteq S \union {data} /\ H("data") \subseteq Kept("data")
      BY <2>2, <3>1 DEF Kept, PoolOK
    <3> HIDE DEF S, H
    <3>3. IsFiniteSet(S) /\ Cardinality(S) <= Cardinality(Kept("info")) - 1 /\ Cardinality(S) \in Nat
      BY <3>2, OneLess, FS_CardinalityType
    <3>4. /\ Cardinality(H("info")) <= Cardinality(S) + 1
          /\ Cardinality(H("data")) <= Cardinality(Kept("data"))
      BY <3>2, <3>3, OneMore, NotMore
    <3>5. pool'[data] = "loaded"
      BY <2>2, <3>1 DEF PoolOK
    <3>6. Cardinality(Kept("info")) <= failed + 1 /\ Cardinality(Kept("data")) <= failed + 1
      BY <3>1 DEF BufferInv
    <3>7. Cardinality(H("info")) \in Nat /\ Cardinality(H("data")) \in Nat
      BY <1>0
    <3>8. Cardinality(H("info")) <= failed + 1 /\ Cardinality(H("data")) <= failed + 1
      BY <3>3, <3>4, <3>6, <3>7
    <3> QED
      BY <2>2, <3>1, <3>5, <3>8, <1>h DEF BufferInv
  <2> QED
    BY <1>7, <2>1, <2>2 DEF Read
<1>l. ASSUME pc = "loaded", pc' = "idle", failed' = failed,
             \A u \in {"info", "data"} : H(u) \subseteq Kept(u) \ {data}
      PROVE  BufferInv'
  <2>1. \A u \in {"info", "data"} : data \in Kept(u)
    BY <1>l DEF BufferInv, Kept, PoolOK
  <2>2. \A u \in {"info", "data"} : Cardinality(Kept(u)) <= failed + 1
    BY <1>l DEF BufferInv
  <2> HIDE DEF H
  <2>3. \A u \in {"info", "data"} : Cardinality(H(u)) <= Cardinality(Kept(u)) - 1
    BY <1>l, <2>1, OneLess
  <2>4. \A u \in {"info", "data"} : Cardinality(H(u)) <= failed'
    BY <1>l, <2>2, <2>3
  <2> QED
    BY <1>l, <2>4, <1>h DEF BufferInv
<1>8. CASE Deliver
  <2>1. \A u \in {"info", "data"} : H(u) \subseteq Kept(u) \ {data}
    BY <1>8 DEF Deliver, Kept, PoolOK
  <2> QED
    BY <1>8, <2>1, <1>l DEF Deliver
<1>9. CASE Convert
  <2>1. CASE pc' = "halt"
    BY <2>1 DEF BufferInv
  <2>2. CASE pool' = pool /\ pc = "loaded" /\ Fail
    BY <2>2, <1>s
  <2>3. ASSUME NEW b \in Candidates(FreeBuffers),
               pool' = [pool EXCEPT ![b] = "image", ![data] = "free"],
               pc = "loaded", pc' = "idle", failed' = failed
        PROVE  BufferInv'
    <3>1. \A u \in {"info", "data"} : H(u) \subseteq Kept(u) \ {data}
      BY <2>3 DEF Kept, PoolOK
    <3> QED
      BY <2>3, <3>1, <1>l
  <2> QED
    BY <1>9, <2>1, <2>2, <2>3 DEF Convert
<1>10. CASE ListEnd
  <2>1. pool' = pool /\ pc = "list" /\ pc' = "idle" /\ failed' = failed
    BY <1>10 DEF ListEnd
  <2> QED
    BY <2>1, <1>s
<1>11. CASE ListEntry
  <2>1. pool' = pool /\ pc = "list" /\ pc' \in {"list", "lost"} /\ failed' = failed
    BY <1>11 DEF ListEntry
  <2> QED
    BY <2>1, <1>s
<1>12. CASE UNCHANGED vars
  <2>1. \A u : H(u) = Kept(u)
    BY <1>12 DEF vars, Kept
  <2> QED
    BY <1>12, <2>1, <1>h DEF vars, locals, BufferInv
<1> QED
  BY <1>1, <1>2, <1>3, <1>4, <1>5, <1>6, <1>7, <1>8, <1>9, <1>10, <1>11, <1>12 DEF Next, Step

(* The buffers that stay with the kernel, or with nobody.  A command that is  *)
(* still loading an icon or an init file has one to come.                     *)

ForGood == {b \in Buffer : pool[b] \in {"init", "image"}}

Running == pc \in {"open", "info", "read", "loaded"}

ForGoodInv ==
  /\ Running => cmd \in {"icon", "init", "cat", "cd"}
  /\ pc \in {"read", "loaded"} => cmd # "cd"
  /\ Cardinality(ForGood) <= loads
  /\ Running /\ cmd \in {"icon", "init"} => Cardinality(ForGood) + 1 <= loads

LEMMA ForGoodStep == TypeInv /\ ForGoodInv /\ [Next]_vars => ForGoodInv'
<1> SUFFICES ASSUME TypeInv, ForGoodInv, [Next]_vars PROVE ForGoodInv'
  OBVIOUS
<1> DEFINE S == ForGood
           T == ForGood'
<1>0. /\ PoolOK /\ loads \in Nat
      /\ IsFiniteSet(S) /\ Cardinality(S) \in Nat /\ Cardinality(T) \in Nat
  <2>1. S \in SUBSET Buffer /\ T \in SUBSET Buffer /\ IsFiniteSet(Buffer)
    BY FilesAssumption DEF ForGood
  <2> QED
    BY <2>1, TypeParts, FS_Subset, FS_CardinalityType DEF TypeInv, CountOK
<1>i. /\ Running => cmd \in {"icon", "init", "cat", "cd"}
      /\ pc \in {"read", "loaded"} => cmd # "cd"
      /\ Cardinality(S) <= loads
      /\ Running /\ cmd \in {"icon", "init"} => Cardinality(S) + 1 <= loads
  BY DEF ForGoodInv
<1>f. ForGoodInv' <=>
        /\ Running' => cmd' \in {"icon", "init", "cat", "cd"}
        /\ pc' \in {"read", "loaded"} => cmd' # "cd"
        /\ Cardinality(T) <= loads'
        /\ Running' /\ cmd' \in {"icon", "init"} => Cardinality(T) + 1 <= loads'
  BY DEF ForGoodInv
<1>s. ASSUME T \subseteq S, loads' = loads, Running' => Running /\ cmd' = cmd,
             pc' \in {"read", "loaded"} => cmd' # "cd"
      PROVE  ForGoodInv'
  <2>1. Cardinality(T) <= Cardinality(S)
    BY <1>0, <1>s, NotMore
  <2> HIDE DEF S, T
  <2> QED
    BY <1>0, <1>i, <1>f, <1>s, <2>1
<1>t. ASSUME pool' = pool PROVE T = S
  BY <1>t DEF ForGood
<1> USE DEF Goto, Fail, Succeed, Halt
<1>1. CASE Start \/ Ls \/ Open \/ CheckDir \/ ListEnd \/ ListEntry
  <2>1. /\ pool' = pool /\ loads' = loads /\ pc' \notin {"read", "loaded"}
        /\ Running' => Running /\ cmd' = cmd
    BY <1>1 DEF Start, Ls, Open, CheckDir, ListEnd, ListEntry, Running
  <2> QED
    BY <2>1, <1>s, <1>t
<1>2. ASSUME NEW d \in {"icon", "init", "cat", "cd"}, NEW p \in Path, Call(d, p) PROVE ForGoodInv'
  <2>1. /\ pool' = pool /\ pc' = "open" /\ cmd' = d
        /\ loads' = IF d \in {"icon", "init"} THEN loads + 1 ELSE loads
    BY <1>2 DEF Call
  <2>2. T = S
    BY <2>1, <1>t
  <2> HIDE DEF S, T
  <2> QED
    BY <1>0, <1>i, <1>f, <2>1, <2>2
<1>3. CASE GetSize
  <2>1. CASE pc' = "halt"
    <3>1. pool' = pool /\ loads' = loads
      BY <1>3, <2>1 DEF GetSize
    <3> QED
      BY <2>1, <3>1, <1>s, <1>t DEF Running
  <2>2. ASSUME NEW b \in Buffer, NEW d \in Buffer, pool' = [pool EXCEPT ![b] = "info", ![d] = "data"]
        PROVE  T \subseteq S
    BY <1>0, <2>2 DEF ForGood, PoolOK
  <2>3. CASE pc' = "read"
    <3>1. /\ pc = "info" /\ cmd # "cd" /\ cmd' = cmd /\ loads' = loads
          /\ \E b \in Candidates(FreeBuffers) : \E d \in Candidates(FreeBuffers \ {b}) :
               pool' = [pool EXCEPT ![b] = "info", ![d] = "data"]
      BY <1>3, <2>3 DEF GetSize
    <3>2. \A b \in Candidates(FreeBuffers) : b \in Buffer /\ \A d \in Candidates(FreeBuffers \ {b}) : d \in Buffer
      BY GivenBuffer, FreeOnes
    <3>3. T \subseteq S
      BY <2>2, <3>1, <3>2
    <3> QED
      BY <2>3, <3>1, <3>3, <1>s DEF Running
  <2> QED
    BY <1>3, <2>1, <2>3 DEF GetSize
<1>4. CASE Read
  <2>1. /\ pc = "read" /\ cmd' = cmd /\ loads' = loads /\ pc' \in {"idle", "loaded"}
        /\ pool' = pool \/ pool' = [pool EXCEPT ![info] = "free", ![data] = "loaded"]
    BY <1>4 DEF Read
  <2>2. T \subseteq S
    BY <1>0, <2>1 DEF ForGood, PoolOK
  <2>3. cmd # "cd"
    BY <1>i, <2>1
  <2> QED
    BY <2>1, <2>2, <2>3, <1>s DEF Running
<1>o. ASSUME NEW b, T \subseteq S \union {b}, pc = "loaded", pc' = "idle",
             cmd \in {"icon", "init"}, loads' = loads
      PROVE  ForGoodInv'
  <2>1. Cardinality(T) <= Cardinality(S) + 1
    BY <1>0, <1>o, OneMore
  <2>2. Running /\ ~ Running'
    BY <1>o DEF Running
  <2> HIDE DEF S, T
  <2> QED
    BY <1>0, <1>i, <1>f, <1>o, <2>1, <2>2
<1>5. CASE Deliver
  <2>1. /\ pc = "loaded" /\ pc' = "idle" /\ cmd # "icon" /\ loads' = loads /\ data \in Buffer
        /\ pool' = [pool EXCEPT ![data] = IF cmd = "cat" THEN "free" ELSE "init"]
    BY <1>0, <1>5 DEF Deliver, PoolOK
  <2>2. cmd \in {"init", "cat"}
    BY <1>i, <2>1 DEF Running
  <2>3. CASE cmd = "cat"
    <3>1. T \subseteq S
      BY <1>0, <2>1, <2>3 DEF ForGood, PoolOK
    <3> QED
      BY <2>1, <3>1, <1>s DEF Running
  <2>4. CASE cmd = "init"
    <3>1. T \subseteq S \union {data}
      BY <1>0, <2>1, <2>4 DEF ForGood, PoolOK
    <3> QED
      BY <2>1, <2>4, <3>1, <1>o
  <2> QED
    BY <2>2, <2>3, <2>4
<1>6. CASE Convert
  <2>1. pc = "loaded" /\ cmd = "icon" /\ loads' = loads
    BY <1>6 DEF Convert
  <2>2. CASE pool' = pool /\ pc' \in {"halt", "idle"}
    BY <2>1, <2>2, <1>s, <1>t DEF Running
  <2>3. ASSUME NEW b \in Candidates(FreeBuffers), pc' = "idle",
               pool' = [pool EXCEPT ![b] = "image", ![data] = "free"]
        PROVE  ForGoodInv'
    <3>1. T \subseteq S \union {b}
      BY <1>0, <2>3 DEF ForGood, PoolOK
    <3> QED
      BY <2>1, <2>3, <3>1, <1>o
  <2> QED
    BY <1>6, <2>2, <2>3 DEF Convert
<1>7. CASE UNCHANGED vars
  <2>1. UNCHANGED <<pc, pool, cmd, loads>>
    BY <1>7 DEF vars, counts
  <2>2. T = S
    BY <2>1, <1>t
  <2>3. Running' = Running
    BY <2>1 DEF Running
  <2> HIDE DEF S, T
  <2> QED
    BY <1>i, <1>f, <2>1, <2>2, <2>3
<1> QED
  BY <1>1, <1>2, <1>3, <1>4, <1>5, <1>6, <1>7 DEF Next, Step

\* A command that fails leaves at most a handle and two buffers, one that
\* succeeds at most the buffer of the icon or of an init file (file.c:31-95,
\* loadBmp.c:18-23).
THEOREM LeakIsBounded == Spec => []LeakBound
<1>1. Init => HandleInv /\ BufferInv /\ ForGoodInv
  <2> SUFFICES ASSUME Init PROVE HandleInv /\ BufferInv /\ ForGoodInv
    OBVIOUS
  <2>1. /\ OpenHandles = {} /\ pc = "start" /\ failed = 0 /\ loads = 0
        /\ ForGood = {} /\ \A u \in {"info", "data"} : Kept(u) = {}
    BY DEF Init, OpenHandles, Kept, ForGood
  <2> QED
    BY <2>1, FS_EmptySet DEF HandleInv, HandlesAllowed, BufferInv, ForGoodInv, Running
<1>2. TypeInv /\ HandleInv /\ BufferInv /\ ForGoodInv /\ [Next]_vars
        => HandleInv' /\ BufferInv' /\ ForGoodInv'
  BY HandleStep, BufferStep, ForGoodStep
<1>3. TypeInv /\ HandleInv /\ BufferInv /\ ForGoodInv => LeakBound
  <2> SUFFICES ASSUME TypeInv, HandleInv, BufferInv, ForGoodInv, pc = "idle"
               PROVE  /\ Cardinality(OpenHandles) <= 2 + failed
                      /\ Cardinality(Held("info")) + Cardinality(Held("data"))
                           + Cardinality(Held("loaded")) <= 2 * failed
                      /\ Cardinality(Held("init")) + Cardinality(Held("image")) <= loads
    BY DEF LeakBound
  <2>3. Cardinality(Held("init")) + Cardinality(Held("image")) <= loads
    <3>1. /\ ForGood = Held("init") \union Held("image") /\ Held("init") \cap Held("image") = {}
          /\ Held("init") \in SUBSET Buffer /\ Held("image") \in SUBSET Buffer
      BY DEF ForGood, Held
    <3>2. IsFiniteSet(Held("init")) /\ IsFiniteSet(Held("image"))
      BY <3>1, FilesAssumption, FS_Subset
    <3>3. Cardinality(Held("init")) \in Nat /\ Cardinality(Held("image")) \in Nat
      BY <3>2, FS_CardinalityType
    <3>4. Cardinality(Held("init") \union Held("image")) =
            Cardinality(Held("init")) + Cardinality(Held("image"))
              - Cardinality(Held("init") \cap Held("image"))
      BY <3>2, FS_Union
    <3>5. Cardinality(Held("init") \cap Held("image")) = 0
      BY <3>1, FS_EmptySet
    <3>6. Cardinality(ForGood) <= loads
      BY DEF ForGoodInv
    <3>7. Cardinality(ForGood) = Cardinality(Held("init")) + Cardinality(Held("image")) - 0
      BY <3>1, <3>4, <3>5
    <3> QED
      BY <3>3, <3>6, <3>7
  <2>1. failed \in Nat /\ Cardinality(Kept("info")) <= failed /\ Cardinality(Kept("data")) <= failed
    BY TypeParts DEF TypeInv, CountOK, BufferInv
  <2>2. ASSUME NEW u \in {"info", "data"}
        PROVE  /\ Cardinality(Held(u)) \in Nat /\ Cardinality(Held("loaded")) \in Nat
               /\ Cardinality(Kept(u)) = Cardinality(Held(u)) + Cardinality(Held("loaded"))
    <3>1. /\ Kept(u) = Held(u) \union Held("loaded") /\ Held(u) \cap Held("loaded") = {}
          /\ Held(u) \in SUBSET Buffer /\ Held("loaded") \in SUBSET Buffer
      BY DEF Kept, Held
    <3>2. IsFiniteSet(Held(u)) /\ IsFiniteSet(Held("loaded"))
      BY <3>1, FilesAssumption, FS_Subset
    <3>3. Cardinality(Held(u)) \in Nat /\ Cardinality(Held("loaded")) \in Nat
      BY <3>2, FS_CardinalityType
    <3>4. Cardinality(Held(u) \union Held("loaded")) =
            Cardinality(Held(u)) + Cardinality(Held("loaded")) - Cardinality(Held(u) \cap Held("loaded"))
      BY <3>2, FS_Union
    <3>5. Cardinality(Held(u) \cap Held("loaded")) = 0
      BY <3>1, FS_EmptySet
    <3>6. Cardinality(Kept(u)) = Cardinality(Held(u)) + Cardinality(Held("loaded")) - 0
      BY <3>1, <3>4, <3>5
    <3> QED
      BY <3>3, <3>6
  <2> QED
    BY <2>1, <2>2, <2>3 DEF HandleInv, HandlesAllowed
<1> QED
  BY <1>1, <1>2, <1>3, TypeAlways, PTL DEF Spec

-----------------------------------------------------------------------------
(* Files implements FileCommands.  What a running command has found, read or *)
(* listed so far belongs to the working directory it will be checked         *)
(* against: no step in between moves it.                                     *)

Cwd == IF currentDir = Null THEN NoNode ELSE open[currentDir].node

\* The file that was opened, and what was read from it.
FileInv ==
  /\ pc \in {"info", "read"} => path \in Path /\ open[file].node = Target
  /\ pc \in {"read", "loaded"} =>
       /\ cmd # "cd" /\ path \in Path /\ Target # NoNode
  /\ pc = "read" => misled \/ text = Content(Target, Size[Target])
  /\ pc = "loaded" => misled \/ Whole(Target, text)

\* The entries that were listed are those before the position.
ListInv ==
  pc = "list" => misled \/
    /\ open[currentDir].pos <= Len(Listed) + 1
    /\ text = SubSeq(Listed, 1, open[currentDir].pos - 1)

WorkInv == FileInv /\ ListInv /\ (pc = "start" => currentDir = Null /\ shown = <<>>)

\* The current directory of a command, and where its path leads.
LEMMA CwdOpen ==
  ASSUME TypeInv, Started
  PROVE  /\ currentDir \in Handle /\ currentDir # Null
         /\ Cwd = open[currentDir].node /\ Cwd \in Node /\ Cwd # NoNode
         /\ open[currentDir].pos \in Nat /\ open[currentDir].pos >= 1
         /\ Entries[Cwd] \in Seq(STRING) /\ Listed = Entries[Cwd]
BY FilesAssumption, VolumeAssumption, TypeParts
   DEF TypeInv, DirectoryOpen, NodesOpen, PlaceOK, Cwd, Listed, Closed

\* An opened file stands for a node.
LEMMA FileOpen ==
  ASSUME TypeInv, pc \in {"info", "read"}
  PROVE  file \in Handle /\ file # currentDir /\ open[file].node \in Node
BY TypeParts DEF TypeInv, DirectoryOpen, NodesOpen, PlaceOK, Started, Closed

\* What a command found stays found while currentDir stays where it is.
LEMMA TargetKept ==
  ASSUME open'[currentDir].node = open[currentDir].node, UNCHANGED <<currentDir, cmd, path>>
  PROVE  Target' = Target /\ Cwd' = Cwd
BY DEF Target, Cwd

LEMMA FileStep == TypeInv /\ FileInv /\ [Next]_vars => FileInv'
<1> SUFFICES ASSUME TypeInv, FileInv, [Next]_vars PROVE FileInv'
  OBVIOUS
<1> USE DEF FileInv, Goto, Fail, Succeed, Halt, Noticed, Unnoticed
<1>1. CASE Start
  BY <1>1 DEF Start
<1>2. ASSUME NEW d \in {"icon", "init", "cat", "cd"}, NEW p \in Path, Call(d, p) PROVE FileInv'
  BY <1>2 DEF Call
<1>3. CASE Ls
  BY <1>3 DEF Ls
<1>4. CASE Open
  <2>1. CASE pc' = "idle"
    BY <2>1
  <2>2. ASSUME Target # NoNode, NEW h \in Candidates(ClosedHandles),
               file' = h, open' = [open EXCEPT ![h] = At(Target)]
        PROVE  FileInv'
    <3>1. /\ pc = "open" /\ UNCHANGED <<currentDir, cmd, path>> /\ path \in Path /\ pc' \in {"idle", "info"}
      BY <1>4 DEF Open, globals, TypeInv, NodesOpen
    <3>2. h \in Handle /\ open[h] = Closed /\ h # currentDir
      BY <3>1, GivenHandle, FreeOnes DEF TypeInv, DirectoryOpen, Started
    <3>3. open'[h].node = Target /\ open'[currentDir].node = open[currentDir].node
      BY <2>2, <3>2, TypeParts DEF TypeInv, PlaceOK, At
    <3>4. Target' = Target
      BY <3>1, <3>3, TargetKept
    <3> QED
      BY <2>2, <3>1, <3>3, <3>4
  <2> QED
    BY <1>4, <2>1, <2>2 DEF Open
<1>5. CASE CheckDir
  BY <1>5 DEF CheckDir
<1>6. CASE GetSize
  <2>1. CASE Halt
    BY <2>1
  <2>2. CASE pc' = "read"
    <3>1. /\ pc = "info" /\ cmd # "cd" /\ UNCHANGED <<open, currentDir, cmd, path, file>>
          /\ misled' \/ text' = Content(open[file].node, Size[open[file].node])
      BY <1>6, <2>2 DEF GetSize
    <3>2. open[file].node \in Node /\ Target \in Node /\ Target # NoNode /\ Target = open[file].node
      BY <3>1, FileOpen, VolumeAssumption
    <3>3. Target' = Target
      BY <3>1, TargetKept
    <3> QED
      BY <2>2, <3>1, <3>2, <3>3
  <2> QED
    BY <1>6, <2>1, <2>2 DEF GetSize
<1>7. CASE Read
  <2>1. CASE pc' = "idle"
    BY <2>1
  <2>2. CASE pc' = "loaded"
    <3>1. /\ pc = "read" /\ UNCHANGED <<currentDir, cmd, path, text, misled>>
          /\ open' = [open EXCEPT ![file] = Closed]
      BY <1>7, <2>2 DEF Read, globals
    <3>2. open'[currentDir].node = open[currentDir].node
      BY <3>1, FileOpen, CwdOpen, TypeParts DEF TypeInv, PlaceOK, Started
    <3>3. Target' = Target
      BY <3>1, <3>2, TargetKept
    <3>4. Entries[Target] # <<>> => text # <<>>
      BY <1>7, <2>2, <3>1 DEF Read
    <3>5. misled \/ Whole(Target, text)
      BY <3>1, <3>4, FileOpen, ContentWhole
    <3> QED
      BY <2>2, <3>1, <3>3, <3>5
  <2> QED
    BY <1>7, <2>1, <2>2 DEF Read
<1>8. CASE Deliver
  BY <1>8 DEF Deliver
<1>9. CASE Convert
  BY <1>9 DEF Convert
<1>10. CASE ListEnd
  BY <1>10 DEF ListEnd
<1>11. CASE ListEntry
  BY <1>11 DEF ListEntry
<1>12. CASE UNCHANGED vars
  BY <1>12 DEF vars, globals, locals, Target
<1> QED
  BY <1>1, <1>2, <1>3, <1>4, <1>5, <1>6, <1>7, <1>8, <1>9, <1>10, <1>11, <1>12 DEF Next, Step

LEMMA ListStep == TypeInv /\ ListInv /\ [Next]_vars => ListInv'
<1> SUFFICES ASSUME TypeInv, ListInv, [Next]_vars, pc' = "list", ~ misled'
             PROVE  /\ open'[currentDir'].pos <= Len(Listed') + 1
                    /\ text' = SubSeq(Listed', 1, open'[currentDir'].pos - 1)
  BY DEF ListInv
<1> USE DEF Goto, Fail, Succeed, Halt
<1>1. CASE Ls
  <2>1. /\ pc = "idle" /\ text' = <<>> /\ currentDir' = currentDir
        /\ open' = [open EXCEPT ![currentDir] = [open[currentDir] EXCEPT !.pos = 1]]
    BY <1>1 DEF Ls, globals
  <2>2. currentDir \in Handle /\ Listed \in Seq(STRING)
    BY <2>1, CwdOpen DEF Started
  <2>3. open'[currentDir].pos = 1 /\ open'[currentDir].node = open[currentDir].node
    BY <2>1, <2>2, TypeParts DEF TypeInv, PlaceOK
  <2>4. Listed' = Listed
    BY <2>1, <2>3 DEF Listed
  <2>5. SubSeq(Listed, 1, 0) = <<>> /\ Len(Listed) \in Nat
    BY <2>2
  <2> QED
    BY <2>1, <2>3, <2>4, <2>5
<1>2. CASE ListEntry
  <2>1. /\ pc = "list" /\ ~ AtEnd /\ ~ misled /\ currentDir' = currentDir
        /\ text' = Append(text, Listed[open[currentDir].pos])
        /\ open' = [open EXCEPT ![currentDir] = [open[currentDir] EXCEPT !.pos = open[currentDir].pos + 1]]
    BY <1>2 DEF ListEntry, globals, Noticed, Unnoticed
  <2>2. /\ currentDir \in Handle /\ Listed \in Seq(STRING)
        /\ open[currentDir].pos \in Nat /\ open[currentDir].pos >= 1
    BY <2>1, CwdOpen DEF Started
  <2>3. open'[currentDir].pos = open[currentDir].pos + 1 /\ open'[currentDir].node = open[currentDir].node
    BY <2>1, <2>2, TypeParts DEF TypeInv, PlaceOK
  <2>4. Listed' = Listed
    BY <2>1, <2>3 DEF Listed
  <2>5. text = SubSeq(Listed, 1, open[currentDir].pos - 1) /\ open[currentDir].pos <= Len(Listed)
    BY <2>1, <2>2 DEF ListInv, AtEnd
  <2>6. ASSUME NEW s \in Seq(STRING), NEW k \in Nat, k >= 1, k <= Len(s)
        PROVE  Append(SubSeq(s, 1, k - 1), s[k]) = SubSeq(s, 1, (k + 1) - 1)
    BY <2>6
  <2>7. Append(text, Listed[open[currentDir].pos]) = SubSeq(Listed, 1, (open[currentDir].pos + 1) - 1)
    BY <2>2, <2>5, <2>6
  <2> QED
    BY <2>1, <2>2, <2>3, <2>4, <2>5, <2>7
<1>3. CASE UNCHANGED vars
  BY <1>3 DEF vars, globals, ListInv, Listed
<1>4. ASSUME NEW d \in {"icon", "init", "cat", "cd"}, NEW p \in Path, Call(d, p) PROVE FALSE
  BY <1>4 DEF Call
<1>5. CASE Start \/ Open \/ CheckDir \/ GetSize \/ Read \/ Deliver \/ Convert \/ ListEnd
  BY <1>5 DEF Start, Open, CheckDir, GetSize, Read, Deliver, Convert, ListEnd
<1> QED
  BY <1>1, <1>2, <1>3, <1>4, <1>5 DEF Next, Step

\* Every step is one of FileCommands: the volume is mounted, a command that
\* succeeds does what it promises, and everything else leaves the working
\* directory and what was shown alone.
LEMMA RefinesStep ==
  TypeInv /\ WorkInv /\ [Next]_vars => Commands!Next \/ UNCHANGED <<Cwd, shown, misled>>
<1> SUFFICES ASSUME TypeInv, WorkInv, [Next]_vars
             PROVE  Commands!Next \/ UNCHANGED <<Cwd, shown, misled>>
  OBVIOUS
<1> USE DEF Goto, Fail, Succeed, Halt, Commands!Next
<1>o. ASSUME Cwd' = Cwd, shown' = shown PROVE Commands!Other
  BY <1>o DEF Commands!Other, Cwd
<1>s. ASSUME UNCHANGED <<open, currentDir>> PROVE Cwd' = Cwd
  BY <1>s DEF Cwd
<1>1. CASE Start
  <2>1. Cwd = NoNode /\ shown' = shown /\ pc = "start"
    BY <1>1 DEF Start, WorkInv, Cwd
  <2>2. CASE UNCHANGED <<globals, open>>
    BY <2>1, <2>2, <1>o, <1>s DEF globals
  <2>3. ASSUME NEW h \in Candidates(ClosedHandles), currentDir' = h,
               \/ open' = [open EXCEPT ![h] = At(Top)]
               \/ \E g \in Candidates(ClosedHandles \ {h}) :
                    open' = [open EXCEPT ![h] = At(Top), ![g] = At(Top)]
        PROVE  Commands!Mount
    <3>1. h \in Handle /\ h # Null
      BY GivenHandle, FreeOnes, FilesAssumption
    <3>2. open'[h] = At(Top)
      BY <2>3, <3>1, TypeParts, GivenHandle, FreeOnes DEF TypeInv, PlaceOK
    <3>3. Cwd' = Top
      BY <2>3, <3>1, <3>2, OpenIsNotClosed DEF Cwd
    <3> QED
      BY <2>1, <3>3 DEF Commands!Mount, Cwd
  <2> QED
    BY <1>1, <2>2, <2>3 DEF Start
<1>2. ASSUME NEW d \in {"icon", "init", "cat", "cd"}, NEW p \in Path, Call(d, p)
      PROVE  Commands!Other
  BY <1>2, <1>o, <1>s DEF Call, globals
<1>3. CASE Ls
  <2>1. /\ currentDir \in Handle /\ UNCHANGED <<currentDir, shown>>
        /\ open' = [open EXCEPT ![currentDir] = [open[currentDir] EXCEPT !.pos = 1]]
    BY <1>3, CwdOpen DEF Ls, globals, Started
  <2>2. Cwd' = Cwd
    BY <2>1, TypeParts DEF TypeInv, PlaceOK, Cwd
  <2> QED
    BY <2>1, <2>2, <1>o
<1>4. CASE Open
  <2>1. shown' = shown /\ currentDir' = currentDir /\ pc = "open"
    BY <1>4 DEF Open, globals
  <2>2. ASSUME NEW h \in Candidates(ClosedHandles), open' = [open EXCEPT ![h] = At(Target)]
        PROVE  Cwd' = Cwd
    <3>1. h \in Handle /\ open[h] = Closed /\ h # currentDir
      BY <2>1, GivenHandle, FreeOnes DEF TypeInv, DirectoryOpen, Started
    <3> QED
      BY <2>1, <2>2, <3>1, CwdOpen, TypeParts DEF TypeInv, PlaceOK, Cwd, Started
  <2> QED
    BY <1>4, <2>1, <2>2, <1>o, <1>s DEF Open
<1>5. CASE CheckDir
  <2>1. CASE UNCHANGED <<open, currentDir>>
    BY <1>5, <2>1, <1>o, <1>s DEF CheckDir
  <2>2. CASE /\ open' = [open EXCEPT ![currentDir] = Closed] /\ currentDir' = file
             /\ (open[file].node \in Dirs /\ Noticed) \/ Unnoticed
             /\ shown' = shown
    <3>1. pc = "info" /\ cmd = "cd"
      BY <1>5 DEF CheckDir
    <3>2. file \in Handle /\ file # currentDir /\ open[file].node \in Node /\ file # Null
      BY <3>1, FileOpen, FilesAssumption
    <3>3. Cwd' = open[file].node
      BY <2>2, <3>2, TypeParts DEF TypeInv, PlaceOK, Cwd
    <3>4. Cwd = open[currentDir].node /\ Cwd # NoNode /\ path \in Path
          /\ Found[Cwd][path] = open[file].node /\ Found[Cwd][path] # NoNode
      BY <3>1, <3>2, CwdOpen, VolumeAssumption DEF Started, WorkInv, FileInv, Target
    <3>5. Commands!Cd(path)
      BY <2>2, <3>3, <3>4 DEF Commands!Cd, Unnoticed, Cwd
    <3> QED
      BY <3>4, <3>5
  <2> QED
    BY <1>5, <2>1, <2>2 DEF CheckDir
<1>6. CASE GetSize
  BY <1>6, <1>o, <1>s DEF GetSize
<1>7. CASE Read
  <2>1. shown' = shown /\ currentDir' = currentDir /\ pc = "read"
    BY <1>7 DEF Read, globals
  <2>2. CASE open' = [open EXCEPT ![file] = Closed]
    BY <2>1, <2>2, <1>o, FileOpen, TypeParts DEF TypeInv, PlaceOK, Cwd
  <2> QED
    BY <1>7, <2>1, <2>2, <1>o, <1>s DEF Read
<1>w. ASSUME pc = "loaded", shown' = text, misled' = misled, UNCHANGED <<open, currentDir>>
      PROVE  Commands!Next
  <2>1. /\ path \in Path /\ Cwd # NoNode /\ Target # NoNode
        /\ Target = Found[Cwd][convertPath(path)]
        /\ misled \/ Whole(Target, text)
    BY <1>w, CwdOpen DEF Started, WorkInv, FileInv, Target
  <2>2. Commands!Show(path)
    BY <1>w, <1>s, <2>1
       DEF Commands!Show, Cwd, convertPath, Commands!convertPath, Whole, Commands!Whole,
           Stored, Commands!Stored
  <2> QED
    BY <2>1, <2>2
<1>8. CASE Deliver
  BY <1>8, <1>w DEF Deliver, globals
<1>9. CASE Convert
  <2>1. pc = "loaded" /\ UNCHANGED <<open, currentDir, misled>> /\ (shown' = shown \/ shown' = text)
    BY <1>9 DEF Convert
  <2> QED
    BY <2>1, <1>w, <1>o, <1>s
<1>10. CASE ListEnd
  <2>1. /\ pc = "list" /\ shown' = text /\ UNCHANGED <<open, currentDir>>
        /\ misled' \/ (AtEnd /\ ~ misled)
    BY <1>10 DEF ListEnd, globals, Noticed, Unnoticed
  <2>2. /\ Cwd # NoNode /\ Entries[Cwd] \in Seq(STRING) /\ Listed = Entries[Cwd]
        /\ open[currentDir].pos \in Nat
    BY <2>1, CwdOpen DEF Started
  <2>3. misled' \/ text = Entries[Cwd]
    <3>1. CASE AtEnd /\ ~ misled
      <4>1. /\ open[currentDir].pos <= Len(Listed) + 1 /\ open[currentDir].pos > Len(Listed)
            /\ text = SubSeq(Listed, 1, open[currentDir].pos - 1)
        BY <2>1, <3>1 DEF WorkInv, ListInv, AtEnd
      <4>2. Len(Listed) \in Nat /\ SubSeq(Listed, 1, Len(Listed)) = Listed
        BY <2>2
      <4>3. open[currentDir].pos - 1 = Len(Listed)
        BY <2>2, <4>1, <4>2
      <4> QED
        BY <2>2, <4>1, <4>2, <4>3
    <3> QED
      BY <2>1, <3>1
  <2> QED
    BY <2>1, <2>2, <2>3, <1>s DEF Commands!List, Cwd
<1>11. CASE ListEntry
  <2>1. /\ currentDir \in Handle /\ UNCHANGED <<currentDir, shown>>
        /\ open' = open \/ open' = [open EXCEPT ![currentDir] = [open[currentDir] EXCEPT !.pos = open[currentDir].pos + 1]]
    BY <1>11, CwdOpen DEF ListEntry, globals, Started
  <2>2. Cwd' = Cwd
    BY <2>1, TypeParts DEF TypeInv, PlaceOK, Cwd
  <2> QED
    BY <2>1, <2>2, <1>o
<1>12. CASE UNCHANGED vars
  BY <1>12, <1>s DEF vars, globals
<1> QED
  BY <1>1, <1>2, <1>3, <1>4, <1>5, <1>6, <1>7, <1>8, <1>9, <1>10, <1>11, <1>12 DEF Next, Step

\* The commands work on a volume with a working directory: cd moves it, and
\* what is shown is what it holds (file.c:31-95, shell.c:72-142).
THEOREM FilesImplementsCommands == Spec => Refines
<1>1. Init => WorkInv /\ Commands!Init
  BY DEF Init, WorkInv, FileInv, ListInv, Commands!Init
<1>2. TypeInv /\ WorkInv /\ [Next]_vars => WorkInv'
  <2> SUFFICES ASSUME TypeInv, WorkInv, [Next]_vars PROVE WorkInv'
    OBVIOUS
  <2>1. pc' = "start" => pc = "start" /\ currentDir' = currentDir /\ shown' = shown
    BY DEF Next, Step, vars, globals, Start, Call, Ls, Open, CheckDir, GetSize, Read, Deliver,
       Convert, ListEnd, ListEntry, Goto, Fail, Succeed, Halt
  <2> QED
    BY <2>1, FileStep, ListStep DEF WorkInv
<1>3. TypeInv /\ WorkInv /\ [Next]_vars => [Commands!Next]_<<Cwd, shown, misled>>
  BY RefinesStep
<1> QED
  BY <1>1, <1>2, <1>3, TypeAlways, PTL DEF Spec, Refines, Commands!Spec, Cwd
=============================================================================
