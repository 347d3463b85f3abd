------------------------------- MODULE Files -------------------------------
(* File access: file.c, the commands ls, cd and cat of shell.c, loadBmp(),  *)
(* and the way efi_main() opens the volume before all of them.              *)
(*                                                                          *)
(* A command opens a file relative to currentDir, takes buffers from the    *)
(* pool and gives back handle and buffers on some of its ways out.  The     *)
(* handle of a directory keeps a position from one listing to the next.     *)
(* Every firmware call may fail; some failures are not looked at, and then  *)
(* the code goes on with what a variable or a buffer happens to hold.       *)
EXTENDS Volume, FiniteSets

CONSTANTS
  Handle, Buffer,    \* the handles and the pool buffers of the firmware
  Null,              \* a pointer that was not assigned
  Candidates(_),     \* of those that are free, the ones the firmware may give
  Magic, Junk,       \* the first datum of a bitmap; what nothing was stored in
  JunkSizes,         \* what a FileSize may be that was not filled in
  IconPaths,         \* what "boot/icon.bmp" may stand for on a volume
  MaxCalls,          \* bound on the commands
  MaxFaults          \* bound on the failures that the code does not notice

ASSUME FilesAssumption ==
  /\ Null \notin Handle /\ IsFiniteSet(Handle) /\ IsFiniteSet(Buffer)
  /\ {Magic, Junk} \subseteq STRING
  /\ JunkSizes \subseteq Nat /\ IconPaths \subseteq Path
  /\ MaxCalls \in Nat /\ MaxFaults \in Nat

\* The firmware gives nothing that is in use.
ASSUME GivesFree ==
  /\ \A F \in SUBSET Handle : Candidates(F) \subseteq F
  /\ \A F \in SUBSET Buffer : Candidates(F) \subseteq F

VARIABLES
  pc,                \* the next step; "idle" in the shell
  root, currentDir,  \* the globals of main.c
  open,              \* what each handle stands for, and the position in it
  pool,              \* what each buffer is used for
  cmd, path,         \* the running command and its argument
  file, info, data,  \* currentFile or tmp, its information, and *ptr
  text,              \* what is in *ptr, or was listed so far
  shown,             \* what the last command that succeeded delivered
  misled,            \* this command suffered a failure it did not notice
  failed, calls,     \* how many commands failed, were given
  loads, faults      \* and loaded the icon or an init file, were misled

globals == <<root, currentDir>>
locals  == <<file, info, data>>
counts  == <<calls, loads, faults>>
vars == <<pc, globals, open, pool, cmd, path, locals, text, shown, misled, failed, counts>>

Closed == [node |-> NoNode, pos |-> 0]
At(n) == [node |-> n, pos |-> 1]

ClosedHandles == {h \in Handle : open[h] = Closed}
FreeBuffers == {b \in Buffer : pool[b] = "free"}

-----------------------------------------------------------------------------
(* How a command ends, and how it goes wrong without noticing. *)

Goto(label) == pc' = label /\ UNCHANGED <<shown, failed>>

Fail == pc' = "idle" /\ failed' = failed + 1 /\ UNCHANGED shown

Succeed(t) == pc' = "idle" /\ shown' = t /\ UNCHANGED failed

\* for (;;) after OUT OF MEMORY
Halt == Goto("halt") /\ UNCHANGED <<open, pool, currentDir, locals, text, misled, faults>>

Noticed == UNCHANGED <<misled, faults>>
Unnoticed == misled' = TRUE /\ faults < MaxFaults /\ faults' = faults + 1

-----------------------------------------------------------------------------
(* The start, and the commands. *)

\* efi_main opens the volume twice and looks at no status.  Without a graphics
\* output it returns, else the icon is loaded through currentDir; a call
\* through a pointer that is null or was never assigned is the end ("lost").
Start ==
  /\ pc = "start"
  /\ \/ \E label \in {"returned", "lost"} : Goto(label) /\ UNCHANGED <<globals, open>>
     \/ \E h \in Candidates(ClosedHandles) :
          /\ currentDir' = h
          /\ \/ root' = Null /\ open' = [open EXCEPT ![h] = At(Top)]
             \/ \E g \in Candidates(ClosedHandles \ {h}) :
                  root' = g /\ open' = [open EXCEPT ![h] = At(Top), ![g] = At(Top)]
          /\ \E label \in {"returned", "icon"} : Goto(label)
  /\ UNCHANGED <<pool, cmd, path, locals, text, misled, calls, loads, faults>>

\* The first command is the loading of the icon; then come those of the shell
\* and the boots, which load an init file.
Call(c, p) ==
  /\ IF c = "icon" THEN pc = "icon" /\ p \in IconPaths ELSE pc = "idle"
  /\ calls < MaxCalls /\ calls' = calls + 1
  /\ loads' = IF c \in {"icon", "init"} THEN loads + 1 ELSE loads
  /\ Goto("open")
  /\ cmd' = c /\ path' = p /\ text' = <<>> /\ misled' = FALSE
  /\ UNCHANGED <<globals, open, pool, locals, faults>>

-----------------------------------------------------------------------------
(* cd and loadFile. *)

\* cd does not convert its path.
Target == Found[open[currentDir].node][IF cmd = "cd" THEN path ELSE convertPath(path)]

Open ==
  /\ pc = "open"
  /\ \/ Fail /\ UNCHANGED <<open, file>>
     \/ /\ Target # NoNode
        /\ \E h \in Candidates(ClosedHandles) :
             file' = h /\ open' = [open EXCEPT ![h] = At(Target)]
        /\ Goto("info")
  /\ UNCHANGED <<globals, pool, cmd, path, info, data, text, misled, calls, loads, faults>>

\* Mutant: currentDir is closed before it is known that there is another.
CheckDirEarly ==
  /\ pc = "info" /\ cmd = "cd"
  /\ open' = [open EXCEPT ![currentDir] = Closed]
  /\ IF open[file].node \in Dirs
     THEN currentDir' = file /\ Succeed(shown)
     ELSE Fail /\ UNCHANGED currentDir
  /\ UNCHANGED <<root, pool, cmd, path, locals, text, misled, calls, loads, faults>>

\* The rest of cd.  info is allocated and freed; the attributes in it are
\* those of the file, or anything at all if GetInfo failed.
CheckDir ==
  /\ pc = "info" /\ cmd = "cd"
  /\ \/ Halt
     \/ /\ (open[file].node \notin Dirs /\ Noticed) \/ Unnoticed
        /\ Fail
        /\ UNCHANGED <<open, pool, currentDir, locals, text>>
     \/ /\ (open[file].node \in Dirs /\ Noticed) \/ Unnoticed
        /\ open' = [open EXCEPT ![currentDir] = Closed]
        /\ currentDir' = file
        /\ Succeed(shown)
        /\ UNCHANGED <<pool, locals, text>>
  /\ UNCHANGED <<root, cmd, path, calls, loads>>

\* What a buffer of n bytes holds after a read of the node f.
Content(f, n) == [k \in 1 .. n |-> IF k <= Len(Stored(f)) THEN Stored(f)[k] ELSE Junk]

\* Mutant: an allocation that fails is not noticed.
GetSizeUnchecked ==
  /\ pc = "info" /\ cmd # "cd"
  /\ data' = Null /\ text' = Content(open[file].node, Size[open[file].node])
  /\ Goto("read")
  /\ UNCHANGED <<globals, open, pool, cmd, path, file, info, misled, calls, loads, faults>>

\* The information about the file, with its size, and the buffer for it.
\* Nothing asks whether it is a file.
GetSize ==
  /\ pc = "info" /\ cmd # "cd"
  /\ \/ Halt
     \/ /\ \/ Noticed /\ text' = Content(open[file].node, Size[open[file].node])
           \/ Unnoticed /\ \E n \in JunkSizes : text' = Content(open[file].node, n)
        /\ \E b \in Candidates(FreeBuffers) : \E d \in Candidates(FreeBuffers \ {b}) :
             /\ info' = b /\ data' = d
             /\ pool' = [pool EXCEPT ![b] = "info", ![d] = "data"]
        /\ Goto("read")
        /\ UNCHANGED <<open, currentDir, file>>
  /\ UNCHANGED <<root, cmd, path, calls, loads>>

\* Mutant: the file stays open.
ReadOpen ==
  /\ pc = "read"
  /\ pool' = [pool EXCEPT ![info] = "free", ![data] = "loaded"]
  /\ Goto("loaded")
  /\ UNCHANGED <<globals, open, cmd, path, locals, text, misled, calls, loads, faults>>

\* Read, and the return of loadFile.  A directory that is not empty fails
\* only if the buffer has no room for an entry.
Read ==
  /\ pc = "read"
  /\ \/ Fail /\ UNCHANGED <<open, pool>>
     \/ /\ Entries[open[file].node] # <<>> => text # <<>>
        /\ pool' = [pool EXCEPT ![info] = "free", ![data] = "loaded"]
        /\ open' = [open EXCEPT ![file] = Closed]
        /\ Goto("loaded")
  /\ UNCHANGED <<globals, cmd, path, locals, text, misled, calls, loads, faults>>

\* cat prints the buffer and frees it; the init file is kept for the kernel.
Deliver ==
  /\ pc = "loaded" /\ cmd # "icon"
  /\ Succeed(text)
  /\ pool' = [pool EXCEPT ![data] = IF cmd = "cat" THEN "free" ELSE "init"]
  /\ UNCHANGED <<globals, open, cmd, path, locals, text, misled, calls, loads, faults>>

\* What loadBmp takes for the magic number: of an empty file it is what
\* follows its buffer, and that can be anything, as what nothing was stored in.
MagicRead == IF text = <<>> THEN Junk ELSE text[1]

\* loadBmp: the content goes to a buffer that is never freed, if the magic
\* number is right.
Convert ==
  /\ pc = "loaded" /\ cmd = "icon"
  /\ \/ Halt
     \/ /\ MagicRead # Magic
        /\ Fail
        /\ UNCHANGED <<open, pool, currentDir, locals, text, misled, faults>>
     \/ /\ MagicRead \in {Magic, Junk}
        /\ \E b \in Candidates(FreeBuffers) :
             pool' = [pool EXCEPT ![b] = "image", ![data] = "free"]
        /\ Succeed(text)
        /\ UNCHANGED <<open, currentDir, locals, text, misled, faults>>
  /\ UNCHANGED <<root, cmd, path, calls, loads>>

-----------------------------------------------------------------------------
(* ls. *)

\* Mutant: the position of the last listing is kept.
LsFromThere ==
  /\ pc = "idle"
  /\ calls < MaxCalls /\ calls' = calls + 1
  /\ Goto("list")
  /\ cmd' = "ls" /\ text' = <<>> /\ misled' = FALSE
  /\ UNCHANGED <<globals, open, pool, path, locals, loads, faults>>

\* The command is given, and the position set to the first entry.
Ls ==
  /\ pc = "idle"
  /\ calls < MaxCalls /\ calls' = calls + 1
  /\ open' = [open EXCEPT ![currentDir].pos = 1]
  /\ Goto("list")
  /\ cmd' = "ls" /\ text' = <<>> /\ misled' = FALSE
  /\ UNCHANGED <<globals, pool, path, locals, loads, faults>>

Listed == Entries[open[currentDir].node]
AtEnd == open[currentDir].pos > Len(Listed)

\* Mutant: a size of 0 does not end the loop, only a status would.
ListEndByStatus ==
  /\ pc = "list"
  /\ Unnoticed
  /\ Succeed(text)
  /\ UNCHANGED <<globals, open, pool, cmd, path, locals, text, calls, loads>>

\* The size of the next entry is 0: there is none, or the read failed.
ListEnd ==
  /\ pc = "list"
  /\ (AtEnd /\ Noticed) \/ Unnoticed
  /\ Succeed(text)
  /\ UNCHANGED <<globals, open, pool, cmd, path, locals, text, calls, loads>>

\* One entry, in a buffer that is allocated and freed.  A read that fails
\* leaves the position where it is.  If nothing can be allocated the entry is
\* read to, and freed at, an address that was never assigned.
ListEntry ==
  /\ pc = "list" /\ ~ AtEnd
  /\ \/ /\ text' = Append(text, Listed[open[currentDir].pos])
        /\ open' = [open EXCEPT ![currentDir].pos = @ + 1]
        /\ Noticed /\ Goto("list")
     \/ /\ text' = Append(text, Junk)
        /\ open' \in {open, [open EXCEPT ![currentDir].pos = @ + 1]}
        /\ Unnoticed
        /\ \E label \in {"list", "lost"} : Goto(label)
  /\ UNCHANGED <<globals, pool, cmd, path, locals, calls, loads>>

-----------------------------------------------------------------------------

Init ==
  /\ pc = "start" /\ root = Null /\ currentDir = Null
  /\ open = [h \in Handle |-> Closed] /\ pool = [b \in Buffer |-> "free"]
  /\ cmd = "none" /\ path = <<>> /\ file = Null /\ info = Null /\ data = Null
  /\ text = <<>> /\ shown = <<>> /\ misled = FALSE
  /\ failed = 0 /\ calls = 0 /\ loads = 0 /\ faults = 0

Step ==
  \/ Start \/ Open \/ CheckDir \/ GetSize \/ Read \/ Deliver \/ Convert
  \/ ListEnd \/ ListEntry

Next ==
  \/ \E c \in {"icon", "init", "cat", "cd"} : \E p \in Path : Call(c, p)
  \/ Ls
  \/ Step

Spec == Init /\ [][Next]_vars

\* A command that was given goes on, and unnoticed failures come to an end.
FairSpec == Spec /\ WF_vars(Step)

-----------------------------------------------------------------------------
(* Properties. *)

Use == {"free", "info", "data", "loaded", "init", "image"}

TypeOK ==
  /\ pc \in {"start", "icon", "idle", "open", "info", "read", "loaded", "list",
             "returned", "halt", "lost"}
  /\ root \in Handle \union {Null} /\ currentDir \in Handle \union {Null}
  /\ open \in [Handle -> [node : Node \union {NoNode}, pos : Nat]]
  /\ pool \in [Buffer -> Use]
  /\ cmd \in {"none", "icon", "init", "cat", "cd", "ls"}
  /\ path \in Path \union {<<>>}
  /\ file \in Handle \union {Null} /\ (pc \in {"info", "read"} => file \in Handle)
  /\ info \in Buffer \union {Null} /\ (pc = "read" => info \in Buffer)
  /\ data \in Buffer \union {Null} /\ (pc \in {"read", "loaded"} => data \in Buffer)
  /\ text \in Seq(STRING) /\ shown \in Seq(STRING)
  /\ misled \in BOOLEAN
  /\ failed \in Nat /\ calls \in Nat /\ loads \in Nat /\ faults \in Nat

Started == pc \notin {"start", "returned", "lost"}

\* From the first file on, currentDir is a handle that is open, and never the
\* handle a running command may still close: however cd fails, and whichever
\* handles it leaves behind, every later command has a directory to start
\* from (file.c:31-55).
DirectoryOpen ==
  Started =>
    /\ currentDir \in Handle /\ open[currentDir] # Closed
    /\ pc \in {"info", "read"} => open[file] # Closed /\ file # currentDir

OpenHandles == {h \in Handle : open[h] # Closed}
Held(use) == {b \in Buffer : pool[b] = use}

\* What the commands leave behind.  A command that fails leaves at most a
\* handle and two buffers, those of loadFile or of a file that loadBmp refused
\* (loadBmp.c:18).  One that succeeds leaves no handle, and a buffer only if it
\* loads the icon, whose imgBuffer is never freed (loadBmp.c:23), or an init
\* file, which stays allocated after a boot that fails later, although the
\* caller should free it (file.c:66): at most one for each such command.
LeakBound ==
  pc = "idle" =>
    /\ Cardinality(OpenHandles) <= 2 + failed
    /\ Cardinality(Held("info")) + Cardinality(Held("data")) + Cardinality(Held("loaded"))
         <= 2 * failed
    /\ Cardinality(Held("init")) + Cardinality(Held("image")) <= loads

\* The commands work on a volume with a working directory.
Commands == INSTANCE FileCommands WITH
              cwd <- IF currentDir = Null THEN NoNode ELSE open[currentDir].node

Refines == Commands!Spec

\* Every command comes to an end.
CommandsEnd ==
  (pc \notin {"idle", "icon"}) ~> (pc \in {"idle", "icon", "returned", "halt", "lost"})
=============================================================================
