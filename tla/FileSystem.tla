----------------------------- MODULE FileSystem -----------------------------
(***************************************************************************)
(* The file system as the utilities use it through Go's os package: a tree *)
(* of directories, regular files with hard links, and symbolic links, on   *)
(* two devices.                                                            *)
(*                                                                         *)
(* A name is a number, so that directories are read in the order of their  *)
(* names; a path is absolute and a sequence of names.  A tree is a         *)
(* function from the paths that exist to what is there; the names of one   *)
(* regular file have the same inode number and the same contents.  Every   *)
(* call returns the tree it leaves and whether it succeeded.               *)
(***************************************************************************)
EXTENDS Integers, Sequences, SequencesExt, FiniteSetsExt, Functions

CONSTANTS
    Mount,      \* the directory where the second device is mounted
    MaxPath,    \* the longest path the kernel takes
    MaxLinks    \* how many symbolic links it follows one after another

Directory == [kind |-> "dir"]
File(i, b) == [kind |-> "file", ino |-> i, bytes |-> b]
SymbolicLink(abs, to) == [kind |-> "link", abs |-> abs, to |-> to]

Nowhere == <<-1>>

KindOf(fs, p) == IF p \in DOMAIN fs THEN fs[p].kind ELSE "none"

(* The place a path leads to, all symbolic links followed, whether or not  *)
(* something is there.                                                     *)
RECURSIVE Walk(_, _, _, _)
Walk(fs, at, path, n) ==
    LET here == Append(at, Head(path))
    IN  IF path = <<>> THEN at
        ELSE IF KindOf(fs, at) # "dir" THEN Nowhere
        ELSE IF KindOf(fs, here) # "link" THEN Walk(fs, here, Tail(path), n)
        ELSE IF n = 0 THEN Nowhere
        ELSE Walk(fs, IF fs[here].abs THEN <<>> ELSE at, fs[here].to \o Tail(path), n - 1)

Real(fs, path) == IF Len(path) > MaxPath THEN Nowhere ELSE Walk(fs, <<>>, path, MaxLinks)

(* The same without following a link that the path itself names. *)
EntryOf(fs, parent, name) == IF KindOf(fs, parent) # "dir" THEN Nowhere ELSE Append(parent, name)
Place(fs, path) ==
    IF path = <<>> THEN <<>>
    ELSE IF Len(path) > MaxPath THEN Nowhere
    ELSE EntryOf(fs, Real(fs, Front(path)), Last(path))

Stat(fs, path) == KindOf(fs, Real(fs, path))
Lstat(fs, path) == KindOf(fs, Place(fs, path))

Children(fs, p) == {q \in DOMAIN fs : q # <<>> /\ Front(q) = p}
Below(fs, p) == {q \in DOMAIN fs : IsPrefix(p, q)}
OtherDevice(p) == IsPrefix(Mount, p)

Ok(fs) == [fs |-> fs, ok |-> TRUE]
Err(fs) == [fs |-> fs, ok |-> FALSE]

Without(fs, places) == [q \in DOMAIN fs \ places |-> fs[q]]
With(fs, p, node) == [q \in DOMAIN fs \union {p} |-> IF q = p THEN node ELSE fs[q]]

Inodes(fs) == {fs[q].ino : q \in {p \in DOMAIN fs : fs[p].kind = "file"}}
FreeInode(fs) == Min((1 .. Cardinality(DOMAIN fs) + 1) \ Inodes(fs))

(* A new name for something that is not there yet. *)
EnterAt(fs, p, node) == IF p = Nowhere \/ p \in DOMAIN fs THEN Err(fs) ELSE Ok(With(fs, p, node))
Enter(fs, path, node) == EnterAt(fs, Place(fs, path), node)

osMkdir(fs, path) == Enter(fs, path, Directory)
osSymlink(fs, abs, to, path) == Enter(fs, path, SymbolicLink(abs, to))

LinkFrom(fs, o, path) ==
    IF \/ KindOf(fs, o) \notin {"file", "link"}
       \/ OtherDevice(o) # OtherDevice(Place(fs, path))
    THEN Err(fs)
    ELSE Enter(fs, path, fs[o])
osLink(fs, old, path) == LinkFrom(fs, Place(fs, old), path)

RECURSIVE osMkdirAll(_, _)
osMkdirAll(fs, path) ==
    LET above == osMkdirAll(fs, Front(path))
    IN  IF Stat(fs, path) = "dir" THEN Ok(fs)
        ELSE IF above.ok THEN osMkdir(above.fs, path) ELSE above

(* open with O_CREATE, with and without O_TRUNC. *)
Store(fs, p, bytes) ==
    [q \in DOMAIN fs |-> IF fs[q].kind = "file" /\ fs[q].ino = fs[p].ino
                         THEN [fs[q] EXCEPT !.bytes = bytes] ELSE fs[q]]
OpenAt(fs, p, truncate) ==
    IF p = Nowhere \/ KindOf(fs, p) = "dir" THEN Err(fs)
    ELSE IF p \notin DOMAIN fs THEN Ok(With(fs, p, File(FreeInode(fs), <<>>)))
    ELSE Ok(IF truncate THEN Store(fs, p, <<>>) ELSE fs)
osOpenFile(fs, path, truncate) == OpenAt(fs, Real(fs, path), truncate)

(* What io.Copy has written when it stops: all of a file, or what comes     *)
(* before a byte that cannot be read or for which there is no room.         *)
badByte == -7
Breaks(bytes) == Contains(bytes, badByte)
ioCopy(bytes) == IF Breaks(bytes) THEN SubSeq(bytes, 1, SelectInSeq(bytes, LAMBDA b : b = badByte) - 1)
                 ELSE bytes

(* A file, a link or an empty directory. *)
UnlinkAt(fs, p) ==
    IF p \notin DOMAIN fs \/ p \in {<<>>, Mount} \/ Children(fs, p) # {} THEN Err(fs)
    ELSE Ok(Without(fs, {p}))
osRemove(fs, path) == UnlinkAt(fs, Place(fs, path))

(* Everything at and below a path; nothing to remove is no error. *)
RemoveBelow(fs, p, path) ==
    LET busy == {q \in Below(fs, p) : IsPrefix(q, Mount)}
        missing == \E n \in DOMAIN path :
                      Real(fs, SubSeq(path, 1, n)) \notin {Nowhere} \union DOMAIN fs
    IN  [fs |-> Without(fs, Below(fs, p) \ busy),
         ok |-> busy = {} /\ (p # Nowhere \/ missing)]
osRemoveAll(fs, path) == RemoveBelow(fs, Place(fs, path), path)

(* Go refuses to rename to a directory, empty or not. *)
Renamed(fs, o, n) ==
    LET moved == Below(fs, o)
        stay == DOMAIN fs \ (moved \union {n})
        To(q) == n \o SubSeq(q, Len(o) + 1, Len(q))
    IN  [q \in stay \union {To(m) : m \in moved} |->
            IF q \in stay THEN fs[q] ELSE fs[CHOOSE m \in moved : To(m) = q]]
RenameAt(fs, o, n) ==
    IF \/ KindOf(fs, o) = "none" \/ o = <<>> \/ n = Nowhere
       \/ KindOf(fs, n) = "dir"
       \/ KindOf(fs, o) = "dir" /\ (n \in DOMAIN fs \/ IsPrefix(o, n) \/ IsPrefix(o, Mount))
       \/ OtherDevice(o) # OtherDevice(n)
    THEN Err(fs)
    ELSE Ok(IF KindOf(fs, o) = "file" /\ KindOf(fs, n) = "file" /\ fs[o] = fs[n]
            THEN fs ELSE Renamed(fs, o, n))
osRename(fs, old, new) == RenameAt(fs, Place(fs, old), Place(fs, new))
=============================================================================
