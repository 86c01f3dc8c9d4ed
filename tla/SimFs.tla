------------------------------- MODULE SimFs --------------------------------
(***************************************************************************)
(* The simulated file system (crates/stratamoto-dst/src/fs.rs): a map of   *)
(* files per node.  A File is the inode it was opened on and whether it    *)
(* may write; nothing removes an inode, so a file is named here by its     *)
(* node and path.  Bytes are abstract, 0 being what a file is grown with.  *)
(***************************************************************************)
EXTENDS Integers, Sequences

CONSTANTS
  Paths,     \* the paths a node uses
  Buffers    \* the buffers written, as sequences of bytes

ASSUME BuffersAssumption == Buffers \subseteq Seq(Nat)

VARIABLES
  data,      \* the contents of every inode, by node and path
  handles,   \* the Files handed out: node, path and can_write
  read,      \* what the last read_at or write_all_at returned
  image      \* history: what was last put at each offset of each inode

fs_vars == <<data, handles, read, image>>

FsInit == data = << >> /\ handles = {} /\ read = [tag |-> "none"] /\ image = << >>

Lesser(x, y) == IF x < y THEN x ELSE y

\* f with x mapped to y.
With(f, x, y) == [z \in DOMAIN f \cup {x} |-> IF z = x THEN y ELSE f[z]]

File(a, path, can_write) == [inode |-> <<a, path>>, can_write |-> can_write]

\* open: an error if there is no such file, a handle that may only read otherwise.
Open(a, path) ==
  /\ IF <<a, path>> \in DOMAIN data
       THEN /\ handles' = handles \cup {File(a, path, FALSE)}
            /\ read' = [tag |-> "opened"]
       ELSE handles' = handles /\ read' = [tag |-> "NotFound"]
  /\ UNCHANGED <<data, image>>

\* create: a file that is there keeps its contents.
Create(a, path) ==
  /\ data' = IF <<a, path>> \in DOMAIN data THEN data ELSE With(data, <<a, path>>, << >>)
  /\ image' = IF <<a, path>> \in DOMAIN data THEN image
              ELSE With(image, <<a, path>>, << >>)
  /\ handles' = handles \cup {File(a, path, TRUE)}
  /\ read' = [tag |-> "opened"]

-----------------------------------------------------------------------------
(* Files. *)

\* The end of what an access covers within a file of len bytes.
End(len, size, offset) == Lesser(len, offset + size)

\* `end - offset as usize` underflows.
PastEnd(file, size, offset) == End(Len(data[file.inode]), size, offset) < offset

\* Mutant: the length of the buffer is taken for where the read ends.
ReadAtToSize(file, size, offset) ==
  LET bytes == data[file.inode]
  IN /\ ~PastEnd(file, size, offset)
     /\ read' = [tag |-> "read", inode |-> file.inode, offset |-> offset, size |-> size,
                 bytes |-> SubSeq(bytes, offset + 1, Lesser(Len(bytes), size))]
     /\ UNCHANGED <<data, handles, image>>

\* read_at: the bytes between the offset and the end.
ReadAt(file, size, offset) ==
  LET bytes == data[file.inode]
  IN /\ ~PastEnd(file, size, offset)
     /\ read' = [tag |-> "read", inode |-> file.inode, offset |-> offset, size |-> size,
                 bytes |-> SubSeq(bytes, offset + 1, End(Len(bytes), size, offset))]
     /\ UNCHANGED <<data, handles, image>>

\* Mutant: the whole buffer extends the file, after a part of it has overwritten.
OverwrittenTwice(bytes, buf, offset) ==
  LET end == End(Len(bytes), Len(buf), offset)
  IN SubSeq(bytes, 1, offset) \o SubSeq(buf, 1, end - offset)
       \o SubSeq(bytes, end + 1, Len(bytes)) \o buf

\* The part of the buffer that fits overwrites, the rest extends.
Overwritten(bytes, buf, offset) ==
  LET end == End(Len(bytes), Len(buf), offset)
      len == end - offset
  IN SubSeq(bytes, 1, offset) \o SubSeq(buf, 1, len) \o SubSeq(bytes, end + 1, Len(bytes))
       \o SubSeq(buf, len + 1, Len(buf))

\* The image of a file on which buf was put at offset.
Imprinted(bytes, buf, offset) ==
  [n \in 1..(IF Len(bytes) > offset + Len(buf) THEN Len(bytes) ELSE offset + Len(buf)) |->
     IF n > offset /\ n <= offset + Len(buf) THEN buf[n - offset] ELSE bytes[n]]

WriteAllAt(file, buf, offset) ==
  /\ file.can_write
  /\ ~PastEnd(file, Len(buf), offset)
  /\ data' = [data EXCEPT ![file.inode] = Overwritten(@, buf, offset)]
  /\ image' = [image EXCEPT ![file.inode] = Imprinted(@, buf, offset)]
  /\ read' = [tag |-> "written"]
  /\ UNCHANGED handles

WriteDenied(file) ==
  /\ ~file.can_write
  /\ read' = [tag |-> "PermissionDenied"]
  /\ UNCHANGED <<data, handles, image>>

\* set_len, which asks no permission: the file is cut or grown with zeros.
SetLen(file, size) ==
  LET resized(bytes) == [n \in 1..size |-> IF n <= Len(bytes) THEN bytes[n] ELSE 0]
  IN /\ data' = [data EXCEPT ![file.inode] = resized(@)]
     /\ image' = [image EXCEPT ![file.inode] = resized(@)]
     /\ read' = [tag |-> "resized"]
     /\ UNCHANGED handles

\* An access past the end panics in the subtraction, or in the slice where overflow wraps.
Overruns(file, size, offset) == PastEnd(file, size, offset)
=============================================================================
