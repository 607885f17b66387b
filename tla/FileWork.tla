------------------------------ MODULE FileWork ------------------------------
(***************************************************************************)
(* The utilities that change the file system: cp, mv, rm, ln, link,        *)
(* unlink, mkdir, rmdir, touch and tee; and those that look at it:         *)
(* realpath, readlink -f, find, ls, tree and du.  A command returns the    *)
(* tree it leaves, its exit status and, for the latter, what it prints.    *)
(* A few of them are run one after the other, on one file system.          *)
(***************************************************************************)
EXTENDS FileSystem, GoStrings

CONSTANTS
    preservedRoots,  \* the paths rm refuses
    maxSymlinks      \* how many links realpath and readlink -f follow

Done(fs, ok) == [fs |-> fs, status |-> IF ok THEN 0 ELSE 1, out |-> {}]

(* Operands go to a directory under their last name. *)
Target(fs, src, dst) == IF Stat(fs, dst) = "dir" THEN Append(dst, Last(src)) ELSE dst

(* One operand after the other, until one fails. *)
EachUntilError(fs, operands, Do(_, _)) ==
    LET r == FoldLeft(LAMBDA acc, p : IF acc.ok THEN Do(acc.fs, p) ELSE acc, Ok(fs), operands)
    IN  Done(r.fs, r.ok)

(***************************************************************************)
(* cp                                                                      *)
(***************************************************************************)

(* Mutant of copyRegularFile: the destination is not truncated. *)
copyRegularFileNoTruncate(fs, src, dst) ==
    LET opened == osOpenFile(fs, dst, FALSE)
        new == fs[Real(fs, src)].bytes
        old == opened.fs[Real(fs, dst)].bytes
    IN  IF Stat(fs, src) = "none" \/ ~opened.ok THEN Err(fs)
        ELSE Ok(Store(opened.fs, Real(fs, dst), new \o SubSeq(old, Len(new) + 1, Len(old))))

(* The destination is truncated before the source is read, and keeps what  *)
(* was written when the copy breaks off.                                   *)
copyRegularFile(fs, src, dst) ==
    LET opened == osOpenFile(fs, dst, TRUE)
        bytes == opened.fs[Real(fs, src)].bytes
        written == Store(opened.fs, Real(fs, dst), ioCopy(bytes))
    IN  IF Stat(fs, src) = "none" \/ ~opened.ok THEN Err(fs)
        ELSE IF Breaks(bytes) THEN Err(written) ELSE Ok(written)

LinkAs(fs, node, dst) == osSymlink(osRemove(fs, dst).fs, node.abs, node.to, dst)
copyLink(fs, src, dst) == LinkAs(fs, fs[Place(fs, src)], dst)

(* The entries are read once the destination is made, which may be one. *)
NamesIn(fs, p) == SetToSortSeq({Last(q) : q \in Children(fs, p)}, <)

RECURSIVE copyDir(_, _, _, _)
RECURSIVE copyEntries(_, _, _, _, _)
copyDir(fs, src, dst, follow) ==
    LET made == osMkdirAll(fs, dst)
    IN  IF Stat(fs, src) # "dir" \/ ~made.ok THEN Err(made.fs)
        ELSE copyEntries(made.fs, src, dst, follow, NamesIn(made.fs, Real(made.fs, src)))

copyEntries(fs, src, dst, follow, names) ==
    LET s == Append(src, Head(names))
        d == Append(dst, Head(names))
        kind == IF follow THEN Stat(fs, s) ELSE Lstat(fs, s)
        r == CASE kind = "none" -> Err(fs)
               [] kind = "dir" -> copyDir(fs, s, d, follow)
               [] kind = "link" -> copyLink(fs, s, d)
               [] kind = "file" -> copyRegularFile(fs, s, d)
    IN  IF names = <<>> THEN Ok(fs)
        ELSE IF ~r.ok THEN r
        ELSE copyEntries(r.fs, src, dst, follow, Tail(names))

(* mode is "preserve", "follow" or "args"; every operand is an argument. *)
copySingle(fs, src, dst, mode, recursive) ==
    LET kind == IF mode = "preserve" THEN Lstat(fs, src) ELSE Stat(fs, src)
    IN  CASE kind = "none" -> Err(fs)
          [] kind = "dir" -> IF recursive THEN copyDir(fs, src, dst, mode = "follow") ELSE Err(fs)
          [] kind = "link" -> copyLink(fs, src, dst)
          [] kind = "file" -> copyRegularFile(fs, src, dst)

(* A regular file met before is linked to its first copy, and copied only  *)
(* if that fails.  first leads from inodes to where they were copied to;   *)
(* 0 is no inode.                                                          *)
InodeOf(fs, p) == IF KindOf(fs, p) = "file" THEN fs[p].ino ELSE 0

LinkToFirst(fs, first, ino, target) ==
    IF ino \in DOMAIN first THEN osLink(osRemove(fs, target).fs, first[ino], target)
    ELSE Err(fs)

RECURSIVE cp(_, _, _, _, _, _, _)
cp(fs, srcs, dst, mode, recursive, first, ok) ==
    LET target == Target(fs, Head(srcs), dst)
        ino == InodeOf(fs, Place(fs, Head(srcs)))
        linked == LinkToFirst(fs, first, ino, target)
        copied == copySingle(IF ino \in DOMAIN first THEN osRemove(fs, target).fs ELSE fs,
                             Head(srcs), target, mode, recursive)
    IN  IF srcs = <<>> THEN Done(fs, ok)
        ELSE IF linked.ok THEN cp(linked.fs, Tail(srcs), dst, mode, recursive, first, ok)
        ELSE cp(copied.fs, Tail(srcs), dst, mode, recursive,
                IF ino = 0 THEN first ELSE (ino :> target) @@ first, ok /\ copied.ok)

RECURSIVE cpParents(_, _, _, _, _, _)
cpParents(fs, srcs, dst, mode, recursive, ok) ==
    LET made == osMkdirAll(fs, dst \o Front(Head(srcs)))
        copied == copySingle(made.fs, Head(srcs), dst \o Head(srcs), mode, recursive)
    IN  IF Stat(fs, dst) # "dir" THEN Done(fs, FALSE)
        ELSE IF srcs = <<>> THEN Done(fs, ok)
        ELSE IF ~made.ok THEN cpParents(made.fs, Tail(srcs), dst, mode, recursive, FALSE)
        ELSE cpParents(copied.fs, Tail(srcs), dst, mode, recursive, ok /\ copied.ok)
-----------------------------------------------------------------------------
(***************************************************************************)
(* mv                                                                      *)
(***************************************************************************)

(* Mutant of CopyAndRemove: the source goes also if it was not copied. *)
RemoveAnyway(copied, src) == [fs |-> osRemove(copied.fs, src).fs, ok |-> copied.ok]

CopyAndRemove(copied, src) == IF copied.ok THEN osRemove(copied.fs, src) ELSE copied

(* Whatever made rename fail, the file is then copied and removed. *)
moveFile(fs, src, dst) ==
    LET renamed == osRename(fs, src, dst)
    IN  IF renamed.ok THEN renamed
        ELSE IF Stat(fs, src) = "dir" THEN Err(osOpenFile(fs, dst, TRUE).fs)
        ELSE CopyAndRemove(copyRegularFile(fs, src, dst), src)

mv(fs, srcs, dst) ==
    LET isDir == Stat(fs, dst) = "dir"
        Move(f, src) == moveFile(f, src, IF isDir THEN Append(dst, Last(src)) ELSE dst)
    IN  EachUntilError(fs, srcs, Move)

(***************************************************************************)
(* rm, unlink, mkdir, rmdir                                                *)
(***************************************************************************)
rm(fs, operands, recursive, force, noPreserveRoot) ==
    LET Delete(acc, p) ==
            LET r == IF recursive THEN osRemoveAll(acc.fs, p) ELSE osRemove(acc.fs, p)
            IN  IF p \in preservedRoots /\ ~noPreserveRoot THEN Err(acc.fs)
                ELSE [fs |-> r.fs, ok |-> acc.ok /\ (r.ok \/ force)]
        r == FoldLeft(Delete, Ok(fs), operands)
    IN  Done(r.fs, r.ok)

unlink(fs, p) ==
    LET r == osRemove(fs, p)
    IN  IF Lstat(fs, p) = "dir" THEN Done(fs, FALSE) ELSE Done(r.fs, r.ok)

mkdir(fs, operands, parents) ==
    LET Make(f, p) == IF parents THEN osMkdirAll(f, p) ELSE osMkdir(f, p)
    IN  EachUntilError(fs, operands, Make)

(* -p goes on to the parents until one is not empty. *)
rmdir(fs, operands, parents) ==
    LET Up(r, n) == IF r.ok THEN osRemove(r.fs, n) ELSE r
        Ancestors(p) == [n \in 1 .. Len(p) - 1 |-> SubSeq(p, 1, Len(p) - n)]
        Take(f, p) ==
            LET r == osRemove(f, p)
            IN  IF ~r.ok \/ ~parents THEN r ELSE Ok(FoldLeft(Up, r, Ancestors(p)).fs)
    IN  EachUntilError(fs, operands, Take)

(***************************************************************************)
(* ln, link, touch, tee                                                    *)
(***************************************************************************)
ln(fs, target, abs, name, symbolic, force) ==
    LET p == Target(fs, target, name)
        cleared == IF force THEN osRemove(fs, p).fs ELSE fs
        r == IF symbolic THEN osSymlink(cleared, abs, target, p) ELSE osLink(cleared, target, p)
    IN  Done(r.fs, r.ok)

link(fs, src, dst) == LET r == osLink(fs, src, dst) IN Done(r.fs, r.ok)

(* Without -c a directory is opened for writing too, and refused. *)
touch(fs, operands, noCreate) ==
    LET Touch(f, p) == IF noCreate /\ Stat(f, p) \in {"none", "dir"} THEN Ok(f)
                       ELSE osOpenFile(f, p, FALSE)
    IN  EachUntilError(fs, operands, Touch)

(* All files are opened before any is written. *)
tee(fs, operands, append, stdin) ==
    LET Open(acc, p) ==
            LET r == osOpenFile(acc.fs, p, ~append)
            IN  [fs |-> r.fs, ok |-> acc.ok /\ r.ok,
                 files |-> IF r.ok THEN Append(acc.files, Real(r.fs, p)) ELSE acc.files]
        opened == FoldLeft(Open, [fs |-> fs, ok |-> TRUE, files |-> <<>>], operands)
        Put(f, p) == Store(f, p, IF append THEN f[p].bytes \o stdin ELSE stdin)
    IN  Done(FoldLeft(Put, opened.fs, opened.files), opened.ok)
-----------------------------------------------------------------------------
(***************************************************************************)
(* realpath, readlink -f, find                                             *)
(***************************************************************************)
Printing(fs, path) == [fs |-> fs, status |-> IF path = Nowhere THEN 1 ELSE 0, out |-> {path}]

(* After a link the walk starts again at the root. *)
realpath(fs, path, existing, missingOk, noSymlinks) ==
    LET W[curr \in Seq(Int), parts \in Seq(Int), n \in 0 .. maxSymlinks] ==
            LET next == Append(curr, Head(parts))
                kind == Lstat(fs, next)
                to == (IF fs[next].abs THEN <<>> ELSE curr) \o fs[next].to
            IN  IF parts = <<>> THEN curr
                ELSE IF kind = "none" THEN
                    IF missingOk THEN curr \o parts
                    ELSE IF Len(parts) = 1 /\ ~existing THEN next
                    ELSE Nowhere
                ELSE IF kind # "link" THEN W[next, Tail(parts), n]
                ELSE IF n = 0 THEN Nowhere
                ELSE W[<<>>, to \o Tail(parts), n - 1]
        resolved == IF noSymlinks
                    THEN IF existing /\ Stat(fs, path) = "none" THEN Nowhere ELSE path
                    ELSE W[<<>>, path, maxSymlinks]
    IN  Printing(fs, resolved)

(* Links are followed as long as they stay below the working directory,    *)
(* whose own path is kept as it is; otherwise the physical path is printed.*)
readlinkF(fs, path, base) ==
    LET Rel(p) == SubSeq(p, Len(base) + 1, Len(p))
        U[at \in Seq(Int), parts \in Seq(Int), n \in 0 .. maxSymlinks + 1] ==
            LET here == Append(at, Head(parts))
                p == Place(fs, here)
                kind == KindOf(fs, p)
                target == (IF fs[p].abs THEN <<>> ELSE at) \o fs[p].to
            IN  IF parts = <<>> THEN at
                ELSE IF kind = "link"
                THEN IF n = 0 \/ ~IsPrefix(base, target) THEN Nowhere
                     ELSE U[base, Rel(target) \o Tail(parts), n - 1]
                ELSE IF kind = "none" /\ Stat(fs, at) # "file" THEN Nowhere
                ELSE U[here, Tail(parts), n]
        logical == IF IsPrefix(base, path) THEN U[base, Rel(path), maxSymlinks + 1] ELSE Nowhere
        physical == IF Stat(fs, path) = "none" THEN Nowhere ELSE Real(fs, path)
    IN  Printing(fs, IF logical # Nowhere THEN logical ELSE physical)

(* -maxdepth (-1 for none) and -type; links are not followed. *)
find(fs, root, maxDepth, type) ==
    LET all == IF Lstat(fs, root) = "none" THEN {}
               ELSE {root \o SubSeq(q, Len(Place(fs, root)) + 1, Len(q)) :
                        q \in Below(fs, Place(fs, root))}
        Wanted(p) == /\ maxDepth < 0 \/ Len(p) - Len(root) <= maxDepth
                     /\ type \in {"any", Lstat(fs, p)}
    IN  [fs |-> fs, status |-> 0, out |-> {p \in all : Wanted(p)}]
-----------------------------------------------------------------------------
(***************************************************************************)
(* ls, tree and du                                                         *)
(***************************************************************************)

(* A name that begins with a dot comes before the others. *)
Hidden(name) == name <= 0
dotName == -3
dotdotName == -2

dirSize == 4096
NodeSize(node) ==
    CASE node.kind = "dir" -> dirSize
      [] node.kind = "file" -> Len(node.bytes)
      [] node.kind = "link" -> Len(node.to)

EntriesOf(fs, path) ==
    SelectSeq(NamesIn(fs, Place(fs, path)), LAMBDA n : Lstat(fs, Append(path, n)) # "none")
DirsAmong(fs, path, names) == SelectSeq(names, LAMBDA n : Lstat(fs, Append(path, n)) = "dir")

(* What is listed is shown under its own name, an operand as it was given. *)
buildFileInfo(fs, path, shown) ==
    [shown |-> shown, kind |-> Lstat(fs, path), size |-> NodeSize(fs[Place(fs, path)])]
lsNames(fs, path, names, showAll) ==
    (IF showAll THEN <<buildFileInfo(fs, path, <<dotName>>),
                       buildFileInfo(fs, SubSeq(path, 1, Len(path) - 1), <<dotdotName>>)>>
     ELSE <<>>)
    \o [i \in DOMAIN names |-> buildFileInfo(fs, Append(path, names[i]), <<names[i]>>)]

(* -R goes into hidden directories too, which may not be shown themselves. *)
RECURSIVE lsDir(_, _, _, _)
lsDir(fs, path, names, lsFlags) ==
    LET visible == SelectSeq(names, LAMBDA n : ~Hidden(n) \/ lsFlags \intersect {"a", "A"} # {})
        Sub(n) == lsDir(fs, Append(path, n), EntriesOf(fs, Append(path, n)), lsFlags)
        dirs == IF "R" \in lsFlags THEN DirsAmong(fs, path, names) ELSE <<>>
    IN  <<[path |-> path, files |-> lsNames(fs, path, visible, "a" \in lsFlags)]>>
        \o FlattenSeq([i \in DOMAIN dirs |-> Sub(dirs[i])])

(* Files first.  Nothing is listed unless all operands are there. *)
lsResults(fs, paths, lsFlags) ==
    LET IsDir(p) == Lstat(fs, p) = "dir"
        ordered == SelectSeq(paths, LAMBDA p : ~IsDir(p)) \o SelectSeq(paths, IsDir)
    IN  FlattenSeq([i \in DOMAIN ordered |->
            IF "d" \in lsFlags \/ ~IsDir(ordered[i])
            THEN <<[path |-> ordered[i], files |-> <<buildFileInfo(fs, ordered[i], ordered[i])>>]>>
            ELSE lsDir(fs, ordered[i], EntriesOf(fs, ordered[i]), lsFlags)])

(* As sort.Slice inserts up to a dozen elements.  -r turns the comparison  *)
(* around, and with it the order of what compares equal.                   *)
sortFiles(files, lsFlags) ==
    LET less(a, b) == IF "S" \in lsFlags THEN a.size > b.size ELSE a.shown[1] < b.shown[1]
        Stays(f, e) == less(f, e) = ("r" \in lsFlags)
    IN  FoldLeft(LAMBDA done, f : InsertAt(done, SelectLastInSeq(done, LAMBDA e : Stays(f, e)) + 1, f),
                 <<>>, files)

isSingleFile(fs, r, lsFlags) == Len(r.files) = 1 /\ ("d" \in lsFlags \/ Lstat(fs, r.path) # "dir")
lsPrinted(fs, results, lsFlags) ==
    [i \in DOMAIN results |->
        [path |-> results[i].path, files |-> sortFiles(results[i].files, lsFlags),
         header |-> Len(results) > 1 /\ ~isSingleFile(fs, results[i], lsFlags)]]
ls(fs, paths, lsFlags) ==
    IF \E i \in DOMAIN paths : Lstat(fs, paths[i]) = "none" THEN [fs |-> fs, status |-> 2, out |-> <<>>]
    ELSE [fs |-> fs, status |-> 0, out |-> lsPrinted(fs, lsResults(fs, paths, lsFlags), lsFlags)]

(* A tree is its lines, the number of directories and of files in it, and  *)
(* whether all of it could be read.                                        *)
treeOf(lines, dirsCount, filesCount, ok) ==
    [lines |-> lines, dirsCount |-> dirsCount, filesCount |-> filesCount, ok |-> ok]
treeWith(t, u, counted) ==
    treeOf(t.lines \o u.lines, t.dirsCount + u.dirsCount + (IF counted = "dir" THEN 1 ELSE 0),
           t.filesCount + u.filesCount + (IF counted \in {"file", "link"} THEN 1 ELSE 0), t.ok /\ u.ok)
RECURSIVE buildTree(_, _, _, _, _)
buildTree(fs, path, depth, maxDepth, treeFlags) ==
    LET node == treeOf(<<path>>, 0, 0, Lstat(fs, path) # "none")
        Wanted(n) == /\ "a" \in treeFlags \/ ~Hidden(n)
                     /\ "d" \in treeFlags => Lstat(fs, Append(path, n)) = "dir"
        Child(t, n) == treeWith(t, buildTree(fs, Append(path, n), depth + 1, maxDepth, treeFlags),
                                Lstat(fs, Append(path, n)))
    IN  IF Lstat(fs, path) # "dir" \/ (maxDepth >= 0 /\ depth >= maxDepth) THEN node
        ELSE FoldLeft(Child, node, SelectSeq(EntriesOf(fs, path), Wanted))
tree(fs, roots, maxDepth, treeFlags) ==
    LET Report(t) == [fs |-> fs, status |-> IF t.ok THEN 0 ELSE 1, out |-> t]
    IN  Report(FoldLeft(LAMBDA t, root : treeWith(t, buildTree(fs, root, 0, maxDepth, treeFlags), "none"),
                        treeOf(<<>>, 0, 0, TRUE), roots))

(* A file with several names is counted once for every operand. *)
duRoot(fs, root, countLinks) ==
    LET Add(q, t) ==
            IF ~countLinks /\ fs[q].kind = "file" /\ fs[q].ino \in t.seen THEN t
            ELSE [size |-> t.size + NodeSize(fs[q]), files |-> t.files + 1,
                  seen |-> IF fs[q].kind = "file" THEN t.seen \union {fs[q].ino} ELSE t.seen]
        Info(t) == [path |-> root, size |-> t.size, files |-> t.files]
    IN  Info(FoldSet(Add, [size |-> 0, files |-> 0, seen |-> {}],
                     IF Lstat(fs, root) = "none" THEN {} ELSE Below(fs, Place(fs, root))))
du(fs, roots, countLinks) ==
    [fs |-> fs, status |-> IF \E i \in DOMAIN roots : Lstat(fs, roots[i]) = "none" THEN 1 ELSE 0,
     out |-> [i \in DOMAIN roots |-> duRoot(fs, roots[i], countLinks)]]

-----------------------------------------------------------------------------
(* The commands, one after the other. *)

CONSTANTS
    FileSystems,  \* what there may be at the start
    Commands,     \* the command lines: [tool, srcs, dst, flags]
    MaxCommands   \* how many of them are run

VARIABLES
    fs,       \* the file system
    before,   \* as it was before the last command
    command,  \* the last command
    result,   \* its exit status and what it printed
    commands  \* how many were run

fileVars == <<fs, before, command, result, commands>>

NoCommand == [tool |-> "none", srcs |-> <<>>, dst |-> <<>>, flags |-> {}]
NoTree == <<>> :> Directory

FileStart(n, f) ==
    /\ fs = f /\ before = f /\ command = NoCommand /\ commands = n
    /\ result = [status |-> 0, out |-> {}]

FileInit == \E f \in FileSystems : FileStart(0, f)

Has(c, flag) == flag \in c.flags

(* -L, -H, -P and -d; links are kept with -r and followed without. *)
SymlinkMode(c) ==
    IF Has(c, "L") THEN "follow"
    ELSE IF Has(c, "H") THEN "args"
    ELSE IF Has(c, "P") \/ Has(c, "r") THEN "preserve"
    ELSE "follow"

Effect(f, c) ==
    CASE c.tool = "cp" -> IF Has(c, "parents")
                          THEN cpParents(f, c.srcs, c.dst, SymlinkMode(c), Has(c, "r"), TRUE)
                          ELSE cp(f, c.srcs, c.dst, SymlinkMode(c), Has(c, "r"), <<>>, TRUE)
      [] c.tool = "mv" -> mv(f, c.srcs, c.dst)
      [] c.tool = "rm" -> rm(f, c.srcs, Has(c, "r"), Has(c, "f"), Has(c, "no-preserve-root"))
      [] c.tool = "unlink" -> unlink(f, c.srcs[1])
      [] c.tool = "mkdir" -> mkdir(f, c.srcs, Has(c, "p"))
      [] c.tool = "rmdir" -> rmdir(f, c.srcs, Has(c, "p"))
      [] c.tool = "ln" -> ln(f, c.srcs[1], ~Has(c, "relative"), c.dst, Has(c, "s"), Has(c, "f"))
      [] c.tool = "link" -> link(f, c.srcs[1], c.dst)
      [] c.tool = "touch" -> touch(f, c.srcs, Has(c, "c"))
      [] c.tool = "tee" -> tee(f, c.srcs, Has(c, "a"), <<0>>)
      [] c.tool = "realpath" -> realpath(f, c.srcs[1], Has(c, "e"), Has(c, "m"), Has(c, "s"))
      [] c.tool = "readlink" -> readlinkF(f, c.srcs[1], c.dst)
      [] c.tool = "find" -> find(f, c.srcs[1], IF Has(c, "maxdepth") THEN 1 ELSE -1,
                                 IF Has(c, "type") THEN "dir" ELSE "any")
      [] c.tool = "ls" -> ls(f, c.srcs, c.flags)
      [] c.tool = "tree" -> tree(f, c.srcs, IF Has(c, "L1") THEN 1 ELSE -1, c.flags)
      [] c.tool = "du" -> du(f, c.srcs, Has(c, "l"))

RunCommand ==
    /\ command = NoCommand /\ commands < MaxCommands
    /\ \E c \in Commands :
        /\ c.tool = "readlink" => Stat(fs, c.dst) = "dir"
        /\ command' = c
        /\ \E r \in {Effect(fs, c)} :
            fs' = r.fs /\ result' = [status |-> r.status, out |-> r.out]
    /\ before' = fs
    /\ commands' = commands + 1

(* The next command finds the tree and nothing else. *)
NextCommand ==
    /\ command # NoCommand
    /\ command' = NoCommand /\ before' = fs /\ result' = [status |-> 0, out |-> {}]
    /\ UNCHANGED <<fs, commands>>

FileNext == RunCommand \/ NextCommand

FileSpec == FileInit /\ [][FileNext]_fileVars
-----------------------------------------------------------------------------
Names(f, bytes) == {p \in DOMAIN f : f[p].kind = "file" /\ f[p].bytes = bytes}
Goal == Target(before, command.srcs[1], command.dst)
Single == Len(command.srcs) = 1
SameFile(f, p, q) == Real(f, p) = Real(f, q) \/
                     /\ Stat(f, p) = "file" /\ Stat(f, q) = "file"
                     /\ f[Real(f, p)].ino = f[Real(f, q)].ino

(* What is at and below a place, by the path from there. *)
Shape(f, p) ==
    LET Node(n) == IF n.kind = "file" THEN File(0, n.bytes) ELSE n
    IN  {[at |-> SubSeq(q, Len(p) + 1, Len(q)), node |-> Node(f[q])] : q \in Below(f, p)}

CpAsTold ==
    LET s == IF SymlinkMode(command) = "preserve" THEN Place(before, command.srcs[1])
             ELSE Real(before, command.srcs[1])
        t == Place(before, Goal)
        links == {q \in Below(before, s) : before[q].kind = "link"}
    IN  /\ /\ t \notin DOMAIN before \union {Nowhere} /\ ~IsPrefix(s, t)
           /\ SymlinkMode(command) = "follow" => links = {}
           => /\ Shape(fs, t) = Shape(before, s)
              /\ \A q \in DOMAIN before : fs[q] = before[q]
        /\ /\ KindOf(before, s) = "file" /\ Stat(before, Goal) = "file"
           /\ ~SameFile(before, s, Goal)
           => fs[Real(fs, Goal)].bytes = before[s].bytes

MvAsTold ==
    LET s == Place(before, command.srcs[1])
        t == Place(before, Goal)
    IN  IF KindOf(before, t) = "file" /\ before[s] = before[t] THEN fs = before
        ELSE s # t =>
             /\ s \notin DOMAIN fs
             /\ "link" \notin {KindOf(before, s), KindOf(before, t)}
                    => Shape(fs, t) = Shape(before, s)

(* realpath -e prints where the kernel gets to, and fails if there is      *)
(* nothing; without -e the last name may be missing.  What readlink -f     *)
(* prints leads to the same place as its operand and, after the working    *)
(* directory's own path, through no further link.                          *)
PathsResolve ==
    LET path == command.srcs[1]
        real == Real(before, path)
    IN  /\ command.tool = "realpath" /\ command.flags = {"e"} =>
            result = IF real \in DOMAIN before THEN [status |-> 0, out |-> {real}]
                     ELSE [status |-> 1, out |-> {Nowhere}]
        /\ command.tool = "realpath" /\ command.flags \in {{}, {"m"}} /\ real # Nowhere =>
            result = [status |-> 0, out |-> {real}]
        /\ command.tool = "readlink" /\ result.status = 0 /\ real # Nowhere =>
            \A printed \in result.out :
                /\ Real(fs, printed) = real
                /\ IsPrefix(command.dst, printed) =>
                    \A n \in Len(command.dst) + 1 .. Len(printed) :
                        Lstat(fs, SubSeq(printed, 1, n)) # "link"

(* What is at and below a path, as a path that begins with it. *)
Reached(path) == {path \o SubSeq(q, Len(Place(before, path)) + 1, Len(q)) :
                    q \in IF Lstat(before, path) = "none" THEN {} ELSE Below(before, Place(before, path))}
AllThere == \A p \in ToSet(command.srcs) : Lstat(before, p) # "none"
SeenIn(path) ==
    {q \in Reached(path) : \A n \in Len(path) + 1 .. Len(q) : Has(command, "a") \/ ~Hidden(q[n])}

(* ls shows every entry of a directory once, in order, and the directories *)
(* below it with -R; where there are several lists every name can be       *)
(* traced to its directory.                                                *)
Sorted1(files) ==
    \A i \in 1 .. Len(files) - 1 :
        LET a == IF Has(command, "r") THEN files[i + 1] ELSE files[i]
            b == IF Has(command, "r") THEN files[i] ELSE files[i + 1]
        IN  IF Has(command, "S") THEN a.size >= b.size ELSE a.shown[1] < b.shown[1]
ListsAll(r) ==
    LET names == {n \in {Last(q) : q \in Children(before, Place(before, r.path))} :
                    ~Hidden(n) \/ Has(command, "a") \/ Has(command, "A")}
                 \union (IF Has(command, "a") THEN {dotName, dotdotName} ELSE {})
    IN  /\ {f.shown : f \in ToSet(r.files)} = {<<n>> : n \in names}
        /\ Len(r.files) = Cardinality(names) /\ Sorted1(r.files)
LsIsRight ==
    LET lists == SelectSeq(result.out, LAMBDA r : Lstat(before, r.path) = "dir" /\ ~Has(command, "d"))
        single == SelectSeq(result.out, LAMBDA r : Lstat(before, r.path) # "dir" \/ Has(command, "d"))
        dirs == IF Has(command, "d") THEN {}
                ELSE {q \in UNION {IF Has(command, "R") THEN Reached(p) ELSE {p} : p \in ToSet(command.srcs)} :
                        Lstat(before, q) = "dir"}
    IN  /\ result.status = IF AllThere THEN 0 ELSE 2
        /\ ~AllThere => result.out = <<>>
        /\ AllThere =>
            /\ result.out = single \o lists
            /\ {r.path : r \in ToSet(lists)} = dirs
            /\ \A r \in ToSet(lists) : ListsAll(r) /\ (r.header <=> Len(result.out) > 1)
            /\ [i \in DOMAIN single |-> single[i].files[1].shown] =
                    SelectSeq(command.srcs, LAMBDA p : Lstat(before, p) # "dir")
                    \o SelectSeq(command.srcs, LAMBDA p : Has(command, "d") /\ Lstat(before, p) = "dir")

(* tree prints what find would, and counts it. *)
TreeIsRight ==
    LET Below1(p) == {q \in SeenIn(p) : /\ Has(command, "L1") => Len(q) <= Len(p) + 1
                                        /\ Has(command, "d") /\ q # p => Lstat(before, q) = "dir"}
        under == UNION {Below1(p) \ {p} : p \in ToSet(command.srcs)}
        lines == result.out.lines
        p == command.srcs[1]
    IN  /\ result.status = 0 <=> AllThere
        /\ Len(command.srcs) = 1 /\ AllThere =>
            /\ ToSet(lines) = {p} \union under
            /\ \A i \in 1 .. Len(lines) - 1 : Less(lines[i], lines[i + 1])
            /\ result.out.dirsCount = Cardinality({q \in under : Lstat(before, q) = "dir"})
            /\ result.out.filesCount = Cardinality({q \in under : Lstat(before, q) # "dir"})

(* du adds up what is there, every file once if it is not told otherwise. *)
DuIsRight ==
    LET Size(q) == NodeSize(before[Place(before, q)])
        First(q, all) == \A r \in all \ {q} : SameFile(before, q, r) /\ Lstat(before, r) = "file" => Less(q, r)
        Counted(all) == {q \in all : Has(command, "l") \/ Lstat(before, q) # "file" \/ First(q, all)}
    IN  /\ result.status = 0 <=> AllThere
        /\ \A i \in DOMAIN result.out :
            \E counted \in {Counted(Reached(command.srcs[i]))} :
                /\ result.out[i].files = Cardinality(counted)
                /\ result.out[i].size = MapThenSumSet(Size, counted)

(* A command that exits with 0 has done what it was asked to.  A copy has  *)
(* the shape and the contents of the original, which is unchanged; a       *)
(* renamed tree is what it was, under the new name only; removed operands  *)
(* are gone, made ones are there.  (cp onto an existing tree, of a tree    *)
(* into itself, or of a file onto itself is left out.)  realpath and       *)
(* readlink print where their operand leads (PathsResolve); ls, tree and   *)
(* du report all of what is there, and miss no operand that is not.        *)
CommandsDoAsTold ==
    /\ PathsResolve
    /\ command.tool = "ls" => LsIsRight
    /\ command.tool = "tree" => TreeIsRight
    /\ command.tool = "du" => DuIsRight
    /\ result.status = 0 =>
        CASE command.tool = "cp" ->
                Single /\ ~Has(command, "parents") => CpAsTold
          [] command.tool = "mv" -> Single => MvAsTold
          [] command.tool \in {"rm", "unlink"} ->
                Has(command, "f") \/ \A i \in DOMAIN command.srcs :
                    Place(before, command.srcs[i]) \notin DOMAIN fs
          [] command.tool = "mkdir" -> \A i \in DOMAIN command.srcs : Stat(fs, command.srcs[i]) = "dir"
          [] command.tool = "rmdir" -> \A i \in DOMAIN command.srcs : Lstat(fs, command.srcs[i]) = "none"
          [] command.tool = "ln" ->
                IF Has(command, "s") THEN fs[Place(before, Goal)].to = command.srcs[1]
                ELSE fs[Place(before, Goal)] = fs[Place(fs, command.srcs[1])]
          [] command.tool = "tee" -> \A i \in DOMAIN command.srcs :
                Last(fs[Real(fs, command.srcs[i])].bytes) = 0
          [] OTHER -> TRUE

(* The paths of the operands and those they are copied or moved to, and    *)
(* the places they lead to before or after.                                *)
Destinations == IF command.tool \notin {"cp", "mv", "ln", "link"} THEN {}
                ELSE {command.dst} \union {command.dst \o s : s \in ToSet(command.srcs)}
                     \union {Target(before, s, command.dst) : s \in ToSet(command.srcs)}
Paths == ToSet(command.srcs) \union Destinations
LeadsTo(path) == {Place(before, path), Real(before, path), Place(fs, path), Real(fs, path)}
Named == UNION {LeadsTo(p) : p \in Paths}
Overwritten == UNION {LeadsTo(p) : p \in Destinations}
Above == UNION {LeadsTo(SubSeq(p, 1, Min({n, Len(p)}))) : p \in Paths, n \in 1 .. MaxPath}

Sharing(places) == {q \in DOMAIN before : \E n \in places : before[q].kind = "file"
                            /\ KindOf(before, n) = "file" /\ before[q].ino = before[n].ino}

Lost == {b \in {before[p].bytes : p \in {q \in DOMAIN before : before[q].kind = "file"}} :
            b # <<>> /\ Names(fs, b) = {}}

(* A source that is its own destination: cp has truncated it when it comes *)
(* to read it, and ln -f has removed it.  mv of a directory onto a file    *)
(* truncates the file and then fails, and mv of two files to one place     *)
(* replaces the first by the second.  rmdir removes regular files.         *)
KnownLoss ==
    \/ command.tool = "rmdir"
    \/ command.tool = "cp" /\ \E s \in ToSet(command.srcs) :
            LET t == Target(before, s, command.dst)
            IN  SameFile(before, s, t) \/ Stat(before, t) = "dir"
    \/ command.tool = "ln" /\ Has(command, "f") /\ result.status # 0
    \/ command.tool = "mv" /\ \E s \in ToSet(command.srcs) :
            \/ Stat(before, s) = "dir"
            \/ \E r \in ToSet(command.srcs) \ {s} :
                    Target(before, r, command.dst) = Target(before, s, command.dst)

(* cp -r onto a directory that is there writes through the links in it. *)
ThroughLinks ==
    command.tool = "cp" /\ \E s \in ToSet(command.srcs) :
        \E q \in Below(before, Real(before, Target(before, s, command.dst))) :
            before[q].kind = "link"

(* A file to copy, or one in a tree to copy, whose copy breaks off. *)
BreaksOff ==
    command.tool \in {"cp", "mv"} /\ \E s \in ToSet(command.srcs) : \E q \in Below(before, Real(before, s)) :
        before[q].kind = "file" /\ Breaks(before[q].bytes)

(* What a command does stays with its operands: every name that changes is *)
(* at, below or (-p, --parents, cp -r) above a place they name, or a hard  *)
(* link to one.  And contents disappear only if rm, unlink or tee is told  *)
(* to, or where cp, mv or ln puts something else: what is copied or moved  *)
(* is never lost, not even when the copy breaks off and the command fails. *)
(* What was at the destination then is, and only then: a command that      *)
(* fails for another reason has lost nothing (cp.go:110-118, mv.go:47-54). *)
OnlyOperandsChange ==
    /\ \A q \in DOMAIN before \union DOMAIN fs :
            \/ q \in DOMAIN before /\ q \in DOMAIN fs /\ fs[q] = before[q]
            \/ \E n \in Named : IsPrefix(n, q)
            \/ q \in Above /\ command.flags \intersect {"p", "parents", "r"} # {}
            \/ q \in Sharing(Named) \/ ThroughLinks
    /\ Lost # {} /\ ~KnownLoss =>
            \/ command.tool \in {"rm", "unlink", "tee"}
            \/ /\ command.tool \in {"cp", "mv", "ln"}
               /\ Single => result.status = 0 \/ BreaksOff
               /\ \A b \in Lost : \E n \in Overwritten :
                    Names(before, b) \subseteq Below(before, n) \union Sharing(Overwritten)

=============================================================================
