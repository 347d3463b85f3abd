------------------------------- MODULE Volume -------------------------------
(* The volume the boot loader was started from, as the firmware shows it.   *)
(* Nothing in the boot loader writes to it.                                 *)
EXTENDS Naturals, Sequences

CONSTANTS
  Node,     \* its files and directories
  Dirs,     \* those that are directories
  Top,      \* the one OpenVolume opens
  NoNode,   \* what a path leads to if there is nothing
  Path,     \* paths, as sequences of names and separators
  Found,    \* where a path leads to from a node
  Bytes,    \* the content of a file
  Entries,  \* the content of a directory, in the order it is read
  Size      \* the FileSize the firmware reports

ASSUME VolumeAssumption ==
  /\ Dirs \subseteq Node /\ Top \in Dirs /\ NoNode \notin Node
  /\ Path \subseteq Seq(STRING)
  /\ Found \in [Node -> [Path -> Node \union {NoNode}]]
  /\ \A n \in Node : \A p \in Path : n \notin Dirs => Found[n][p] = NoNode
  /\ DOMAIN Bytes = Node /\ DOMAIN Entries = Node
  /\ \A n \in Node : IF n \in Dirs THEN Bytes[n] = <<>> ELSE Entries[n] = <<>>
  /\ \A n \in Node : Bytes[n] \in Seq(STRING) /\ Entries[n] \in Seq(STRING)
  /\ Size \in [Node -> Nat] /\ \A n \in Node \ Dirs : Size[n] = Len(Bytes[n])

\* The size of a directory is the firmware's own affair: many report 0, some
\* the space it takes on the volume.

\* What one read from the start stores: of a file its bytes, of a directory
\* the record of its first entry, here a single datum.
Stored(n) == IF Entries[n] # <<>> THEN <<Head(Entries[n])>> ELSE Bytes[n]

\* t is what a buffer of the size of n holds after that read: for a file, the
\* file; for a directory a record, and then what was in the buffer before.
Whole(n, t) ==
  /\ Len(t) = Size[n]
  /\ \A k \in 1 .. Len(Stored(n)) : k <= Len(t) /\ t[k] = Stored(n)[k]

\* Every '/' becomes a '\', the separator of the firmware.
convertPath(p) == [k \in DOMAIN p |-> IF p[k] = "/" THEN "\\" ELSE p[k]]

ASSUME PathAssumption == \A p \in Path : convertPath(p) \in Path
=============================================================================
