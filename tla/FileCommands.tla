---------------------------- MODULE FileCommands ----------------------------
(* What the file commands promise: there is a working directory, `cd` moves *)
(* it to a directory, `ls` delivers its entries, and `cat` and the loading  *)
(* of the icon and of the init file deliver a file whole and in order.      *)
(* What loads a file does not ask whether it is one: of a directory whose   *)
(* size is not 0 it delivers as many bytes as that, of which only the raw   *)
(* record of the first entry is the directory's.  Files implements this     *)
(* with handles and pool buffers.                                           *)
EXTENDS Volume

VARIABLES
  cwd,     \* the working directory, NoNode before the volume is opened
  shown,   \* what the last command that succeeded delivered
  misled   \* the firmware failed in this command and the code did not notice

\* efi_main opens the volume.
Mount == cwd = NoNode /\ cwd' = Top /\ UNCHANGED shown

\* cd takes the path as it is, what loads a file converts it.
Cd(p) ==
  /\ cwd # NoNode /\ Found[cwd][p] # NoNode
  /\ cwd' = Found[cwd][p]
  /\ cwd' \in Dirs \/ misled'
  /\ UNCHANGED shown

Show(p) ==
  /\ cwd # NoNode /\ Found[cwd][convertPath(p)] # NoNode
  /\ Whole(Found[cwd][convertPath(p)], shown') \/ misled'
  /\ UNCHANGED cwd

List ==
  /\ cwd # NoNode
  /\ shown' = Entries[cwd] \/ misled'
  /\ UNCHANGED cwd

\* A command starts, goes on, or fails.
Other == UNCHANGED <<cwd, shown>>

Init == cwd = NoNode /\ shown = <<>> /\ misled = FALSE

Next == Mount \/ (\E p \in Path : Cd(p) \/ Show(p)) \/ List \/ Other

Spec == Init /\ [][Next]_<<cwd, shown, misled>>
=============================================================================
