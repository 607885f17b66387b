------------------------------ MODULE Archives ------------------------------
(***************************************************************************)
(* The utilities that put files into archives and take them out: tar, ar,  *)
(* unzip, cpio, gzip and gunzip, and those that only decompress.  A        *)
(* command returns the tree it leaves, its exit status and what it prints, *)
(* a sequence of names or of contents.                                     *)
(*                                                                         *)
(* An archive is a file.  Its bytes are those of its members one after the *)
(* other, and a closing 0; a member has a kind, a name and a body, which   *)
(* is a file's contents or where a link leads.                             *)
(***************************************************************************)
EXTENDS FileSystem, GoStrings

Outcome(fs, ok, out) == [fs |-> fs, status |-> IF ok THEN 0 ELSE 1, out |-> out]

BytesOf(fs, path) == fs[Real(fs, path)].bytes
Keep(fs, path, bytes) == Store(fs, Real(fs, path), bytes)

Kinds == <<"dir", "file", "link", "abslink", "hard", "damaged">>
Member(kind, name, body) == [kind |-> kind, name |-> name, body |-> body]

Encode(m) == <<SelectInSeq(Kinds, LAMBDA k : k = m.kind), Len(m.name)>> \o m.name
             \o <<Len(m.body)>> \o m.body
Pack(members) == FoldLeft(LAMBDA bytes, m : bytes \o Encode(m), <<>>, members) \o <<0>>

(* The members up to the end, or up to where the bytes make no sense. *)
RECURSIVE UnpackFrom(_, _)
UnpackFrom(b, members) ==
    LET body == 3 + b[2]
        next == body + b[body] + 1
    IN  IF b = <<>> \/ b[1] = 0 THEN [ok |-> TRUE, members |-> members]
        ELSE IF b[1] \notin DOMAIN Kinds \/ Len(b) < 2 THEN [ok |-> FALSE, members |-> members]
        ELSE IF Len(b) < body \/ Len(b) < next - 1 THEN [ok |-> FALSE, members |-> members]
        ELSE UnpackFrom(SubSeq(b, next, Len(b)),
                        Append(members, Member(Kinds[b[1]], SubSeq(b, 3, body - 1),
                                               SubSeq(b, body + 1, next - 1))))
Unpack(bytes) == UnpackFrom(bytes, <<>>)

(* Compressed data has a first byte of its own and a checksum at the end. *)
gzipMagic == -1
gzipTrailer == -2
Compress(bytes) == <<gzipMagic>> \o bytes \o <<gzipTrailer>>
IsCompressed(bytes) == bytes # <<>> /\ bytes[1] = gzipMagic
Decompress(bytes) ==
    IF ~IsCompressed(bytes) THEN [ok |-> FALSE, bytes |-> <<>>]
    ELSE IF Last(bytes) # gzipTrailer THEN [ok |-> FALSE, bytes |-> Tail(bytes)]
    ELSE [ok |-> TRUE, bytes |-> Front(Tail(bytes))]
-----------------------------------------------------------------------------
(***************************************************************************)
(* gzip and gunzip                                                         *)
(***************************************************************************)

(* A name with .gz at its end is another name. *)
gz == 10
GzName(path) == [path EXCEPT ![Len(path)] = @ + gz]
HasGz(path) == Last(path) > gz
PlainName(path) == [path EXCEPT ![Len(path)] = @ - gz]

(* An error of io.Copy counts.  One of closing the compressor, which       *)
(* writes what it still holds, does not, and the output lacks its end.     *)
unflushed == -8
Flushed(bytes) == ~Contains(bytes, unflushed)
Processed(fs, file, decompress) ==
    LET bytes == BytesOf(fs, file)
        written == Compress(ioCopy(bytes))
    IN  IF Stat(fs, file) # "file" THEN [ok |-> FALSE, bytes |-> <<>>]
        ELSE IF decompress THEN Decompress(bytes)
        ELSE [ok |-> ~Breaks(bytes), bytes |-> IF Flushed(bytes) THEN written ELSE Front(written)]

(* Mutant of Finished: the original goes whether or not it was processed. *)
FinishedAnyway(fs, file, outName, done, keepOriginal) ==
    Outcome(IF keepOriginal THEN fs ELSE osRemove(fs, file).fs, done.ok, <<>>)

(* An incomplete output is removed; after a complete one the original is. *)
Finished(fs, file, outName, done, keepOriginal) ==
    IF ~done.ok THEN Outcome(osRemove(fs, outName).fs, FALSE, <<>>)
    ELSE Outcome(IF keepOriginal THEN fs ELSE osRemove(fs, file).fs, TRUE, <<>>)

(* What is opened has been truncated when it is read. *)
gzipInto(fs, file, outName, decompress, keepOriginal) ==
    LET opened == osOpenFile(fs, outName, TRUE)
        done == Processed(opened.fs, file, decompress)
    IN  IF ~opened.ok THEN Outcome(fs, FALSE, <<>>)
        ELSE Finished(Keep(opened.fs, outName, done.bytes), file, outName, done, keepOriginal)

gzipOne(fs, file, decompress, flags) ==
    LET outName == IF decompress THEN PlainName(file) ELSE GzName(file)
        done == Processed(fs, file, decompress)
    IN  IF Stat(fs, file) = "none" \/ (decompress /\ ~HasGz(file)) THEN Outcome(fs, FALSE, <<>>)
        ELSE IF "c" \in flags THEN Outcome(fs, done.ok, <<done.bytes>>)
        ELSE IF "f" \notin flags /\ Stat(fs, outName) # "none" THEN Outcome(fs, FALSE, <<>>)
        ELSE gzipInto(fs, file, outName, decompress, "k" \in flags)

(* One file after the other, whatever became of those before. *)
gzip(fs, files, decompress, flags) ==
    LET Also(acc, r) == Outcome(r.fs, acc.status = 0 /\ r.status = 0, acc.out \o r.out)
    IN  FoldLeft(LAMBDA acc, file : Also(acc, gzipOne(acc.fs, file, decompress, flags)),
                 Outcome(fs, TRUE, <<>>), files)
-----------------------------------------------------------------------------
(***************************************************************************)
(* bunzip2, bzcat, unlzma and uncompress                                   *)
(***************************************************************************)

(* A name is a stem, which may be empty, and a suffix: none, the tool's    *)
(* own, that of a compressed archive, or .tar.                             *)
tbz == 20
tarSuffix == 30
StemOf(path) == Last(path) % gz
SuffixOf(path) == Last(path) - StemOf(path)
DestName(path) ==
    IF Last(path) = gz THEN Front(path)
    ELSE Append(Front(path), IF SuffixOf(path) = tbz THEN StemOf(path) + tarSuffix ELSE StemOf(path))

(* Whether the reader looks at the data when it is made, and whether a     *)
(* panic in the library is taken for an error.                             *)
DecompressSpec ==
    [bunzip2 |-> [suffixes |-> {gz, tbz}, early |-> FALSE, cat |-> FALSE, recoverPanics |-> FALSE],
     bzcat |-> [suffixes |-> {}, early |-> FALSE, cat |-> TRUE, recoverPanics |-> FALSE],
     unlzma |-> [suffixes |-> {gz}, early |-> TRUE, cat |-> FALSE, recoverPanics |-> FALSE],
     uncompress |-> [suffixes |-> {gz}, early |-> TRUE, cat |-> FALSE, recoverPanics |-> TRUE]]

(* Data that ends like this makes a library panic. *)
badCode == -3
Panics(bytes) == bytes # <<>> /\ Last(bytes) = badCode
Reading(bytes) ==
    IF Panics(bytes) THEN [ok |-> FALSE, bytes |-> SubSeq(bytes, 2, Len(bytes) - 1)] ELSE Decompress(bytes)

(* Only in an envelope does the output of a failed decompression not show. *)
ToStdout(fs, done, flags) ==
    Outcome(fs, done.ok, IF done.ok \/ "json" \notin flags THEN <<done.bytes>> ELSE <<>>)

(* An error removes what was written, a panic does not. *)
Unpacked2(fs, file, dest, ok, panics, keepMode) ==
    IF ok THEN Outcome(IF keepMode THEN fs ELSE osRemove(fs, file).fs, TRUE, <<>>)
    ELSE Outcome(IF panics THEN fs ELSE osRemove(fs, dest).fs, FALSE, <<>>)
Copied(fs, file, dest, done, panics, keepMode) ==
    Unpacked2(Keep(fs, dest, done.bytes), file, dest, done.ok, panics, keepMode)

(* What is opened has been truncated when it is read. *)
DecompressInto(opened, file, dest, recoverPanics, keepMode) ==
    IF ~opened.ok THEN Outcome(opened.fs, FALSE, <<>>)
    ELSE Copied(opened.fs, file, dest, Reading(BytesOf(opened.fs, file)),
                recoverPanics /\ Panics(BytesOf(opened.fs, file)), keepMode)
DecompressFile(fs, file, spec, flags) ==
    IF \/ Stat(fs, file) # "file"
       \/ spec.suffixes # {} /\ SuffixOf(file) \notin spec.suffixes
       \/ spec.early /\ ~IsCompressed(BytesOf(fs, file))
    THEN Outcome(fs, FALSE, <<>>)
    ELSE IF spec.cat \/ "c" \in flags THEN ToStdout(fs, Reading(BytesOf(fs, file)), flags)
    ELSE IF Stat(fs, DestName(file)) # "none" /\ "f" \notin flags THEN Outcome(fs, FALSE, <<>>)
    ELSE DecompressInto(osOpenFile(fs, DestName(file), TRUE), file, DestName(file),
                        spec.recoverPanics, "k" \in flags)

(* Without an operand standard input is decompressed to standard output. *)
DecompressMode(fs, stdin, files, spec, flags) ==
    IF files = <<>> THEN ToStdout(fs, Reading(stdin), flags)
    ELSE LET Also(acc, r) == Outcome(r.fs, acc.status = 0 /\ r.status = 0, acc.out \o r.out)
         IN  FoldLeft(LAMBDA acc, file : Also(acc, DecompressFile(acc.fs, file, spec, flags)),
                      Outcome(fs, TRUE, <<>>), files)
-----------------------------------------------------------------------------
(***************************************************************************)
(* tar.  All names are relative to the directory root, which -C chooses.   *)
(***************************************************************************)

(* In what is asked for, 0 stands for "..", and -1 for "." or nothing      *)
(* between two slashes.  A ".." takes back the component before it; the    *)
(* first that has none before it drops the next one.                       *)
resolveTarPath(target) ==
    LET Step(acc, p) ==
            CASE p = -1 -> acc
              [] p = 0 /\ acc.stack # <<>> -> [acc EXCEPT !.stack = Front(@)]
              [] p = 0 /\ acc.stack = <<>> ->
                    [acc EXCEPT !.skipNext = @ \/ acc.firstEmptyPop, !.firstEmptyPop = FALSE]
              [] p > 0 /\ acc.skipNext -> [acc EXCEPT !.skipNext = FALSE]
              [] OTHER -> [acc EXCEPT !.stack = Append(@, p)]
    IN  FoldLeft(Step, [stack |-> <<>>, skipNext |-> FALSE, firstEmptyPop |-> TRUE], target).stack

(* filepath.Walk: a directory before its entries, those by name. *)
WalkFrom(fs, root, start) ==
    LET p == Place(fs, root \o start)
        names == {start \o SubSeq(q, Len(p) + 1, Len(q)) : q \in Below(fs, p)}
    IN  [i \in 1 .. Cardinality(names) |->
            CHOOSE n \in names : Cardinality({m \in names : Less(m, n)}) = i - 1]

Nlink(fs, ino) == Cardinality({q \in DOMAIN fs : fs[q].kind = "file" /\ fs[q].ino = ino})

(* seen leads from inodes to the first member with that inode. *)
MemberFor(node, name, seen) ==
    CASE node.kind = "dir" -> Member("dir", name, <<>>)
      [] node.kind = "link" -> Member(IF node.abs THEN "abslink" ELSE "link", name, node.to)
      [] node.kind = "file" /\ node.ino \in DOMAIN seen -> Member("hard", name, seen[node.ino])
      [] OTHER -> Member("file", name, node.bytes)

Seen(fs, node, name, seen) ==
    IF node.kind # "file" THEN seen
    ELSE IF Nlink(fs, node.ino) > 1 /\ node.ino \notin DOMAIN seen
    THEN (node.ino :> name) @@ seen
    ELSE seen

(* Until a target is missing; the archive itself is left out. *)
createArchiveStream(fs, root, targets, archive) ==
    LET Put(acc, name) ==
            LET node == fs[Place(fs, root \o name)]
            IN  IF root \o name = archive THEN acc
                ELSE [acc EXCEPT !.members = Append(@, MemberFor(node, name, acc.seen)),
                                 !.seen = Seen(fs, node, name, @)]
        AddTarget(acc, target) ==
            LET start == resolveTarPath(target)
            IN  IF ~acc.ok \/ Lstat(fs, root \o start) = "none" THEN [acc EXCEPT !.ok = FALSE]
                ELSE FoldLeft(Put, acc, WalkFrom(fs, root, start))
    IN  FoldLeft(AddTarget, [ok |-> TRUE, members |-> <<>>, seen |-> <<>>], targets)

(* What was written before a failure stays. *)
doCreate(fs, root, targets, archive, useGzip) ==
    LET opened == osOpenFile(fs, archive, TRUE)
        stream == createArchiveStream(opened.fs, root, targets, archive)
        bytes == Pack(stream.members)
    IN  IF ~opened.ok THEN Outcome(fs, FALSE, <<>>)
        ELSE Outcome(Keep(opened.fs, archive, IF useGzip THEN Compress(bytes) ELSE bytes),
                     stream.ok, <<>>)

isExcluded(name, excludePatterns) == \E p \in excludePatterns : IsPrefix(p, name)

(* No links of these trees lead upwards, so only absolute ones lead out. *)
isSymlinkSafe(m) == m.kind # "abslink"
hasConflict(m, members) ==
    \/ Cardinality({i \in DOMAIN members : members[i].name = m.name}) > 1
    \/ \E i \in DOMAIN members : IsStrictPrefix(m.name, members[i].name)
hasDangerousParent(name, dangerous) == \E d \in dangerous : IsStrictPrefix(d, name)

Dir(path) == SubSeq(path, 1, Len(path) - 1)

(* What is in the way is removed, if it can be; nobody looks whether the   *)
(* link could then be made.                                                *)
Clear(fs, path) == IF Lstat(fs, path) = "none" THEN fs ELSE osRemove(fs, path).fs
extractLink(fs, root, path, m) ==
    LET cleared == osMkdirAll(Clear(fs, path), Dir(path)).fs
    IN  IF m.kind = "hard" THEN osLink(cleared, root \o m.body, path).fs
        ELSE osSymlink(cleared, m.kind = "abslink", m.body, path).fs

extractFile(fs, path, bytes, overwrite) ==
    LET made == osMkdirAll(IF Lstat(fs, path) = "link" THEN osRemove(fs, path).fs ELSE fs, Dir(path))
        opened == osOpenFile(made.fs, path, TRUE)
    IN  IF ~made.ok \/ ~opened.ok \/ (overwrite /\ Stat(made.fs, path) = "none") THEN Err(made.fs)
        ELSE Ok(Keep(opened.fs, path, bytes))

(* acc holds the tree, whether nothing has failed, what was printed, the   *)
(* links that were refused and whether a file was to go below one.         *)
extractMember(acc, root, m, members, flags) ==
    LET path == root \o m.name
        held == Lstat(acc.fs, path) # "none" /\ "k" \in flags
        r == CASE m.kind = "dir" -> osMkdirAll(acc.fs, path)
               [] m.kind = "file" -> IF held THEN Ok(acc.fs)
                                     ELSE extractFile(acc.fs, path, m.body, "overwrite" \in flags)
               [] OTHER -> Ok(IF held \/ (m.kind = "hard" /\ m.body = m.name) THEN acc.fs
                              ELSE extractLink(acc.fs, root, path, m))
    IN  IF "O" \in flags THEN
            [acc EXCEPT !.out = IF m.kind = "file" THEN Append(@, m.body) ELSE @]
        ELSE IF m.kind = "abslink" /\ ~isSymlinkSafe(m) /\ hasConflict(m, members) THEN
            [acc EXCEPT !.dangerous = @ \union {m.name}]
        ELSE [acc EXCEPT !.fs = r.fs, !.ok = r.ok,
                         !.dependents = @ \/ (m.kind = "file" /\ hasDangerousParent(m.name, acc.dangerous))]

(* All members are read before the first is extracted. *)
extractArchiveStream(fs, root, bytes, flags, excludePatterns, includeSet) ==
    LET read == Unpack(bytes)
        chosen == SelectSeq(read.members,
                            LAMBDA m : /\ ~isExcluded(m.name, excludePatterns)
                                       /\ includeSet = {} \/ m.name \in includeSet)
        Extract(acc, m) ==
            IF acc.ok THEN extractMember(acc, root, m, read.members, flags) ELSE acc
        After(r) == Outcome(r.fs, r.ok /\ ~r.dependents /\ (includeSet = {} \/ chosen # <<>>), r.out)
    IN  IF bytes = <<>> \/ ~read.ok THEN Outcome(fs, FALSE, <<>>)
        ELSE After(FoldLeft(Extract, [fs |-> fs, ok |-> TRUE, out |-> <<>>, dangerous |-> {},
                                      dependents |-> FALSE], chosen))

(* The archive's bytes, decompressed if asked for or if it looks so.  In   *)
(* damaged data an error comes after the last byte that can be read.       *)
readError == -9
Readable(d) == IF d.ok THEN d.bytes ELSE d.bytes \o <<readError>>
OpenArchive(fs, archive, useGzip) ==
    LET bytes == BytesOf(fs, archive)
    IN  IF Stat(fs, archive) # "file" THEN [ok |-> FALSE, bytes |-> <<>>]
        ELSE IF useGzip \/ IsCompressed(bytes)
        THEN [ok |-> IsCompressed(bytes), bytes |-> Readable(Decompress(bytes))]
        ELSE [ok |-> TRUE, bytes |-> bytes]

doExtract(fs, root, archive, flags, excludePatterns, includeSet) ==
    LET opened == OpenArchive(fs, archive, "z" \in flags)
    IN  IF ~opened.ok THEN Outcome(fs, FALSE, <<>>)
        ELSE extractArchiveStream(fs, root, opened.bytes, flags, excludePatterns, includeSet)

(* The members before the damage are listed. *)
listArchiveStream(fs, bytes, excludePatterns) ==
    LET read == Unpack(bytes)
        shown == SelectSeq(read.members, LAMBDA m : ~isExcluded(m.name, excludePatterns))
    IN  Outcome(fs, bytes # <<>> /\ read.ok, [i \in DOMAIN shown |-> shown[i].name])

doList(fs, archive, flags, excludePatterns) ==
    LET opened == OpenArchive(fs, archive, "z" \in flags)
    IN  IF ~opened.ok THEN Outcome(fs, FALSE, <<>>)
        ELSE listArchiveStream(fs, opened.bytes, excludePatterns)

(* Exactly one of -c, -x and -t, in a directory that is there. *)
tar(fs, modes, root, archive, flags, excludePatterns, operands) ==
    IF Cardinality(modes) # 1 \/ Stat(fs, root) # "dir" THEN Outcome(fs, FALSE, <<>>)
    ELSE CASE modes = {"c"} -> doCreate(fs, root, operands, archive, "z" \in flags)
           [] modes = {"x"} -> doExtract(fs, root, archive, flags, excludePatterns, ToSet(operands))
           [] modes = {"t"} -> doList(fs, archive, flags, excludePatterns)
-----------------------------------------------------------------------------
(***************************************************************************)
(* ar                                                                      *)
(***************************************************************************)
Base(path) == <<Last(path)>>
makeSet(operands) == {Base(operands[i]) : i \in DOMAIN operands}
Matching(members, operands) ==
    SelectSeq(members, LAMBDA m : operands = <<>> \/ m.name \in makeSet(operands))

arMagic == -3
arBytes(entries) == <<arMagic>> \o Pack(entries)
Entries(fs, archive) ==
    IF Stat(fs, archive) # "file" THEN [ok |-> FALSE, members |-> <<>>]
    ELSE Unpack(SubSeq(BytesOf(fs, archive), 2, Len(BytesOf(fs, archive))))

(* An archive that is not there is empty. *)
readArchive(fs, archive) ==
    IF Stat(fs, archive) = "none" THEN [ok |-> TRUE, members |-> <<>>] ELSE Entries(fs, archive)

(* Written under another name first, which then takes the archive's place. *)
tmp == 30
TmpName(path) == [path EXCEPT ![Len(path)] = @ + tmp]
flushArchive(fs, archive, entries) ==
    LET opened == osOpenFile(fs, TmpName(archive), TRUE)
        renamed == osRename(Keep(opened.fs, TmpName(archive), arBytes(entries)),
                            TmpName(archive), archive)
    IN  IF ~opened.ok THEN Outcome(fs, FALSE, <<>>) ELSE Outcome(renamed.fs, renamed.ok, <<>>)

PutEntry(entries, e) ==
    LET at == SelectLastInSeq(entries, LAMBDA x : x.name = e.name)
    IN  IF at = 0 THEN Append(entries, e) ELSE [entries EXCEPT ![at] = e]

(* Nothing is written unless all files can be read. *)
arReplace(fs, archive, files) ==
    LET read == readArchive(fs, archive)
        Put(entries, file) == PutEntry(entries, Member("file", Base(file), BytesOf(fs, file)))
    IN  IF ~read.ok \/ \E i \in DOMAIN files : Stat(fs, files[i]) # "file"
        THEN Outcome(fs, FALSE, <<>>)
        ELSE flushArchive(fs, archive, FoldLeft(Put, read.members, files))

arDelete(fs, archive, operands) ==
    LET read == readArchive(fs, archive)
        kept == SelectSeq(read.members, LAMBDA m : m.name \notin makeSet(operands))
    IN  IF operands = <<>> \/ ~read.ok THEN Outcome(fs, FALSE, <<>>)
        ELSE flushArchive(fs, archive, kept)

arList(fs, archive, operands) ==
    LET read == Entries(fs, archive)
        shown == Matching(read.members, operands)
    IN  Outcome(fs, read.ok, [i \in DOMAIN shown |-> shown[i].name])

arPrint(fs, archive, operands) ==
    LET read == Entries(fs, archive)
        shown == Matching(read.members, operands)
    IN  Outcome(fs, read.ok, [i \in DOMAIN shown |-> shown[i].body])

(* Until one cannot be written, or the archive makes no sense. *)
arExtract(fs, archive, operands, cwd) ==
    LET read == Entries(fs, archive)
        Write(acc, m) ==
            LET opened == osOpenFile(acc.fs, cwd \o m.name, TRUE)
            IN  IF ~acc.ok \/ ~opened.ok THEN Err(acc.fs)
                ELSE Ok(Keep(opened.fs, cwd \o m.name, m.body))
        r == FoldLeft(Write, Ok(fs), Matching(read.members, operands))
    IN  Outcome(r.fs, r.ok /\ read.ok, <<>>)

ar(fs, op, archive, operands, cwd) ==
    CASE op = "r" -> arReplace(fs, archive, operands)
      [] op = "d" -> arDelete(fs, archive, operands)
      [] op = "t" -> arList(fs, archive, operands)
      [] op = "p" -> arPrint(fs, archive, operands)
      [] op = "x" -> arExtract(fs, archive, operands, cwd)
-----------------------------------------------------------------------------
(***************************************************************************)
(* unzip.  A member may be damaged, which shows when it has been read.     *)
(***************************************************************************)

(* The names of directories end in a slash, which no filter here does. *)
shouldExtract(m, filters) == filters = {} \/ (m.kind # "dir" /\ m.name \in filters)

unzipMember(fs, m, destDir, overwriteMode) ==
    LET path == destDir \o m.name
        above == osMkdirAll(fs, Dir(path))
        opened == osOpenFile(above.fs, path, TRUE)
    IN  IF m.kind = "dir" THEN osMkdirAll(fs, path)
        ELSE IF ~above.ok THEN above
        ELSE IF Stat(above.fs, path) # "none" /\ ~overwriteMode THEN above
        ELSE IF ~opened.ok THEN Err(above.fs)
        ELSE [fs |-> Keep(opened.fs, path, m.body), ok |-> m.kind # "damaged"]

(* A member that fails does not keep the others from being extracted. *)
unzipAll(fs, members, destDir, overwriteMode) ==
    LET Extract(acc, m) ==
            LET r == unzipMember(acc.fs, m, destDir, overwriteMode)
            IN  [fs |-> r.fs, ok |-> acc.ok /\ r.ok]
        r == FoldLeft(Extract, Ok(fs), members)
    IN  Outcome(r.fs, r.ok, <<>>)

unzip(fs, archive, flags, destDir, filters) ==
    LET read == Unpack(BytesOf(fs, archive))
        chosen == SelectSeq(read.members, LAMBDA m : shouldExtract(m, filters))
        whole == \A i \in DOMAIN chosen : chosen[i].kind # "damaged"
    IN  IF Stat(fs, archive) # "file" THEN Outcome(fs, FALSE, <<>>)
        ELSE IF ~read.ok THEN Outcome(fs, FALSE, <<>>)
        ELSE CASE "l" \in flags -> Outcome(fs, TRUE, [i \in DOMAIN chosen |-> chosen[i].name])
               [] "t" \in flags -> Outcome(fs, whole, <<>>)
               [] "p" \in flags -> Outcome(fs, whole, [i \in DOMAIN chosen |-> chosen[i].body])
               [] OTHER -> unzipAll(fs, chosen, destDir, "o" \in flags)
-----------------------------------------------------------------------------
(***************************************************************************)
(* cpio.  Names come from standard input; what is stored is regular files. *)
(***************************************************************************)

(* A name that leads nowhere is left out, and no error. *)
cpioCreate(fs, archive, names, cwd) ==
    LET opened == osOpenFile(fs, archive, TRUE)
        found == SelectSeq(names, LAMBDA n : Lstat(opened.fs, cwd \o n) # "none")
        members == [i \in DOMAIN found |-> Member("file", found[i], BytesOf(opened.fs, cwd \o found[i]))]
    IN  IF ~opened.ok THEN Outcome(fs, FALSE, <<>>)
        ELSE Outcome(Keep(opened.fs, archive, Pack(members)), TRUE, <<>>)

(* Only a file that cannot be opened is an error. *)
cpioMember(fs, m, dest, makeDirs) ==
    LET made == IF makeDirs THEN osMkdirAll(fs, Dir(dest)).fs ELSE fs
        opened == osOpenFile(made, dest, TRUE)
    IN  CASE m.kind = "dir" -> Ok(IF makeDirs THEN osMkdirAll(fs, dest).fs ELSE fs)
          [] m.kind \in {"link", "abslink"} ->
                Ok(osSymlink(osRemove(made, dest).fs, m.kind = "abslink", m.body, dest).fs)
          [] m.kind = "file" -> IF opened.ok THEN Ok(Keep(opened.fs, dest, m.body)) ELSE Err(made)

(* Members are extracted as they are read, so those before any damage are. *)
cpioExtract(fs, archive, listOnly, flags, filter, cwd) ==
    LET read == Unpack(BytesOf(fs, archive))
        chosen == SelectSeq(read.members, LAMBDA m : filter = {} \/ m.name \in filter)
        Take(acc, m) ==
            LET r == IF listOnly THEN Ok(acc.fs) ELSE cpioMember(acc.fs, m, cwd \o m.name, "d" \in flags)
            IN  IF ~acc.ok THEN acc
                ELSE r @@ [out |-> IF listOnly \/ "v" \in flags THEN Append(acc.out, m.name) ELSE acc.out]
        r == FoldLeft(Take, Ok(fs) @@ [out |-> <<>>], chosen)
    IN  IF Stat(fs, archive) # "file" THEN Outcome(fs, FALSE, <<>>)
        ELSE Outcome(r.fs, r.ok /\ read.ok, r.out)

(* The copy is opened, and so truncated, before the original is read. *)
cpioPass(fs, dest, names, cwd) ==
    LET Pass(t, n) ==
            LET made == osMkdirAll(t, Dir(dest \o n)).fs
                opened == osOpenFile(made, dest \o n, TRUE)
            IN  CASE Lstat(t, cwd \o n) = "none" -> t
                  [] Lstat(t, cwd \o n) = "file" ->
                        IF opened.ok THEN Keep(opened.fs, dest \o n, BytesOf(opened.fs, cwd \o n)) ELSE made
                  [] Lstat(t, cwd \o n) = "dir" -> osMkdirAll(made, dest \o n).fs
                  [] Lstat(t, cwd \o n) = "link" -> made
    IN  Outcome(FoldLeft(Pass, fs, names), TRUE, <<>>)

(* One of -o, -i and -p, or any of them with -t, which gives way to -o and -p. *)
cpio(fs, modes, archive, flags, pos, names, cwd) ==
    IF modes = {} \/ (Cardinality(modes) > 1 /\ "t" \notin modes) THEN Outcome(fs, FALSE, <<>>)
    ELSE CASE "o" \in modes -> cpioCreate(fs, archive, names, cwd)
           [] "p" \in modes /\ "o" \notin modes ->
                IF pos = <<>> THEN Outcome(fs, FALSE, <<>>) ELSE cpioPass(fs, pos[1], names, cwd)
           [] modes \intersect {"o", "p"} = {} ->
                cpioExtract(fs, archive, "t" \in modes, flags, ToSet(pos), cwd)
=============================================================================
