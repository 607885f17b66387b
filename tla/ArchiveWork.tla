----------------------------- MODULE ArchiveWork -----------------------------
(***************************************************************************)
(* A few archive commands one after the other, on one file system.         *)
(***************************************************************************)
EXTENDS Archives

CONSTANT Packings  \* what is there and what is run: [tree, jobs]

VARIABLES
    world,        \* the file system
    worldBefore,  \* as it was before the last command
    job,          \* the last command: [tool, modes, archive, dir, operands, flags, exclude]
    jobs,         \* the commands that are left
    answer,       \* the last one's exit status and what it printed
    packed        \* the last command that succeeded in storing something, and
                  \* the file system it found

archiveVars == <<world, worldBefore, job, jobs, answer, packed>>

NoJob == [tool |-> "none", modes |-> {}, archive |-> <<>>, dir |-> <<>>, operands |-> <<>>,
          flags |-> {}, exclude |-> {}]

ArchiveStart(tree, js) ==
    /\ world = tree /\ worldBefore = tree /\ job = NoJob /\ jobs = js
    /\ answer = [status |-> 0, out |-> <<>>]
    /\ packed = [by |-> NoJob, from |-> tree]

ArchiveInit == \E p \in Packings : ArchiveStart(p.tree, p.jobs)

(* The names that cpio reads from standard input: with -o the operands of  *)
(* the job, with -p those after the destination.                           *)
CpioArgs(j) ==
    IF "o" \in j.modes THEN <<>>
    ELSE IF "p" \in j.modes /\ j.operands # <<>> THEN <<j.operands[1]>> ELSE j.operands
CpioNames(j) == IF "o" \in j.modes \/ j.operands = <<>> THEN j.operands ELSE Tail(j.operands)

(* What a file holds that standard input is redirected from. *)
Arrived(fs, path) == IF Stat(fs, path) = "file" THEN BytesOf(fs, path) ELSE <<>>

(* gzip -d and gunzip are one. *)
JobEffect(fs, j) ==
    CASE j.tool = "gzip" -> gzip(fs, j.operands, j.modes = {"d"}, j.flags)
      [] j.tool = "tar" -> tar(fs, j.modes, j.dir, j.archive, j.flags, j.exclude, j.operands)
      [] j.tool = "ar" -> ar(fs, CHOOSE op \in j.modes : TRUE, j.archive, j.operands, j.dir)
      [] j.tool = "unzip" -> unzip(fs, j.archive, j.flags, j.dir, ToSet(j.operands))
      [] j.tool \in DOMAIN DecompressSpec ->
            DecompressMode(fs, Arrived(fs, j.archive), j.operands, DecompressSpec[j.tool], j.flags)
      [] j.tool = "cpio" -> cpio(fs, j.modes, j.archive, j.flags, CpioArgs(j), CpioNames(j), j.dir)

Storing(j) == j.modes \in {{"c"}, {"r"}} \/ "o" \in j.modes \/ (j.tool = "gzip" /\ j.modes = {})

RunJob ==
    /\ jobs # <<>>
    /\ \E r \in {JobEffect(world, Head(jobs))} :
        /\ world' = r.fs
        /\ answer' = [status |-> r.status, out |-> r.out]
        /\ packed' = IF Storing(Head(jobs)) /\ r.status = 0
                     THEN [by |-> Head(jobs), from |-> world] ELSE packed
    /\ job' = Head(jobs)
    /\ jobs' = Tail(jobs)
    /\ worldBefore' = world

ArchiveNext == RunJob

ArchiveSpec == ArchiveInit /\ [][ArchiveNext]_archiveVars
-----------------------------------------------------------------------------
Succeeded == answer.status = 0
Contents(fs, p) == IF KindOf(fs, p) = "file" THEN fs[p].bytes ELSE <<>>
SameInode(fs, p, q) == KindOf(fs, p) = "file" /\ KindOf(fs, q) = "file" /\ fs[p].ino = fs[q].ino
Untouched(places) ==
    \A q \in (DOMAIN world \union DOMAIN worldBefore) \ places :
        q \in DOMAIN world /\ q \in DOMAIN worldBefore /\ world[q] = worldBefore[q]

(* What tar -c was asked to store, by name: what is at and below its       *)
(* targets, without the archive itself.                                    *)
Asked(fs, j) ==
    UNION {{t \o SubSeq(q, Len(Place(fs, j.dir \o t)) + 1, Len(q)) : q \in Below(fs, Place(fs, j.dir \o t))} :
              t \in {resolveTarPath(j.operands[i]) : i \in DOMAIN j.operands}}
Stowed == {n \in Asked(packed.from, packed.by) : packed.by.dir \o n # packed.by.archive}

(* An absolute link that is stored twice is not extracted; and nothing can *)
(* be extracted below a link.                                              *)
Refused(n) ==
    LET node == packed.from[Place(packed.from, packed.by.dir \o n)]
        Times == {i \in DOMAIN packed.by.operands : IsPrefix(resolveTarPath(packed.by.operands[i]), n)}
    IN  /\ node.kind = "link"
        /\ (\E m \in Stowed : IsStrictPrefix(n, m)) \/ (node.abs /\ Cardinality(Times) > 1)

AsStowed(n) ==
    LET old == packed.from[Place(packed.from, packed.by.dir \o n)]
        new == world[Place(world, job.dir \o n)]
    IN  /\ Lstat(world, job.dir \o n) = old.kind
        /\ old.kind = "link" => new = old
        /\ old.kind = "file" => new.bytes = old.bytes

(* tar -x in an empty directory makes there what tar -c had found, with    *)
(* the same files sharing their contents.                                  *)
RoundTrip ==
    LET Old(n) == Place(packed.from, packed.by.dir \o n)
        New(n) == Place(world, job.dir \o n)
    IN  /\ \A n \in Stowed : AsStowed(n)
        /\ \A n, m \in Stowed : Old(n) # Old(m) =>
                (SameInode(world, New(n), New(m)) <=> SameInode(packed.from, Old(n), Old(m)))
        /\ \A q \in Below(world, job.dir) :
                \E n \in Stowed : IsPrefix(SubSeq(q, Len(job.dir) + 1, Len(q)), n)

(* A refused link is not made, and a later file to go below it is an error. *)
RefusedIsRefused ==
    packed.by.archive = job.archive /\ job.operands = <<>> /\ job.exclude = {} =>
        \A n \in Stowed : Refused(n) /\ packed.from[Place(packed.from, packed.by.dir \o n)].abs =>
            /\ Lstat(world, job.dir \o n) # "link"
            /\ Succeeded /\ "O" \notin job.flags /\ n = resolveTarPath(packed.by.operands[1]) =>
                   \A m \in Stowed : IsStrictPrefix(n, m) => Lstat(world, job.dir \o m) # "file"

(* What is there already is replaced, unless a directory, or a link to     *)
(* one that serves instead of a directory member, is in the way of         *)
(* something else or a file or a dangling link in the way of a directory;  *)
(* a file with other names gets its new contents under all of them.        *)
Replaced(n) ==
    LET q == Place(worldBefore, job.dir \o n)
    IN  \/ AsStowed(n)
        \/ KindOf(worldBefore, q) = "dir"
        \/ Lstat(packed.from, packed.by.dir \o n) = "dir" /\ Stat(world, job.dir \o n) = "dir"
        \/ \E k \in 1 .. Len(n) - 1 :
             /\ Lstat(worldBefore, job.dir \o SubSeq(n, 1, k)) # "none"
             /\ Stat(worldBefore, job.dir \o SubSeq(n, 1, k)) # "dir"
        \/ \E r \in DOMAIN worldBefore \ {q} : SameInode(worldBefore, q, r)

Damaged ==
    LET opened == OpenArchive(worldBefore, job.archive, "z" \in job.flags)
    IN  ~opened.ok \/ opened.bytes = <<>> \/ ~Unpack(opened.bytes).ok

(* The names below which something may change when names are extracted. *)
Touchable == {q \in DOMAIN world \union DOMAIN worldBefore :
                 \/ \E i \in DOMAIN job.operands :
                        \E p \in {job.dir \o job.operands[i], Place(world, job.dir \o job.operands[i]),
                                  Place(worldBefore, job.dir \o job.operands[i])} : IsPrefix(q, p)
                 \/ \E i \in DOMAIN job.operands : \E n \in {job.dir \o job.operands[i]} :
                        SameInode(worldBefore, q, Real(worldBefore, n))}

TarIsRight ==
    CASE job.modes = {"c"} ->
            /\ Untouched({Real(world, job.archive), Place(world, job.archive)})
            /\ Succeeded <=> /\ KindOf(worldBefore, Real(worldBefore, job.archive)) # "dir"
                             /\ Real(world, job.archive) \in DOMAIN world
                             /\ \A i \in DOMAIN job.operands :
                                    Lstat(worldBefore, job.dir \o resolveTarPath(job.operands[i])) # "none"
      [] job.modes = {"t"} ->
            /\ world = worldBefore
            /\ Succeeded /\ packed.by.archive = job.archive => ToSet(answer.out) = {n \in Stowed : ~\E x \in job.exclude : IsPrefix(x, n)}
      [] job.modes = {"x"} ->
            /\ "O" \in job.flags \/ Damaged => world = worldBefore
            /\ Damaged => ~Succeeded
            /\ "k" \in job.flags => \A q \in DOMAIN worldBefore : world[q] = worldBefore[q]
            /\ Below(worldBefore, job.dir) = {job.dir} => Untouched(Below(world, job.dir)) /\ RefusedIsRefused
            /\ job.operands # <<>> /\ "O" \notin job.flags => Untouched(Touchable)
            /\ \A x \in job.exclude :
                    Untouched((DOMAIN world \union DOMAIN worldBefore) \ Below(world, job.dir \o x))
            /\ /\ Succeeded /\ job.flags = {} /\ job.operands = <<>> /\ job.exclude = {}
               /\ packed.by.archive = job.archive
               => \A n \in Stowed : Refused(n) \/ Replaced(n)
            /\ /\ Below(worldBefore, job.dir) = {job.dir} /\ job.flags \subseteq {"k"} \union packed.by.flags
               /\ job.operands = <<>> /\ job.exclude = {} /\ packed.by.archive = job.archive
               /\ ~\E n \in Stowed : Refused(n)
               => Succeeded /\ RoundTrip
      [] OTHER -> world = worldBefore /\ ~Succeeded

(***************************************************************************)
(* An archive of ar is a table of names and contents, in the order of the  *)
(* names' first appearance.                                                *)
(***************************************************************************)
Table(fs) == IF Stat(fs, job.archive) = "file" THEN Entries(fs, job.archive).members ELSE <<>>
NamesOf(table) == [i \in DOMAIN table |-> table[i].name]
OperandNames == [i \in DOMAIN job.operands |-> Base(job.operands[i])]
Chosen(table) == {i \in DOMAIN table : job.operands = <<>> \/ table[i].name \in ToSet(OperandNames)}

LastOperand(name) == job.operands[SelectLastInSeq(job.operands, LAMBDA p : Base(p) = name)]
ArReplaced ==
    /\ IsPrefix(NamesOf(Table(worldBefore)), NamesOf(Table(world)))
    /\ ToSet(NamesOf(Table(world))) = ToSet(NamesOf(Table(worldBefore)) \o OperandNames)
    /\ \A i \in DOMAIN Table(world) :
            Table(world)[i].body = IF Table(world)[i].name \in ToSet(OperandNames)
                                   THEN BytesOf(worldBefore, LastOperand(Table(world)[i].name))
                                   ELSE Table(worldBefore)[i].body

ArDest(i) == Real(worldBefore, job.dir \o Table(worldBefore)[i].name)

ArIsRight ==
    /\ IsInjective(NamesOf(Table(world)))
    /\ CASE job.modes = {"r"} -> /\ Untouched({Place(world, job.archive)})
                                 /\ IF Succeeded THEN ArReplaced ELSE world = worldBefore
         [] job.modes = {"d"} ->
                /\ Untouched({Place(world, job.archive)})
                /\ IF Succeeded
                   THEN /\ ToSet(Table(world)) = {m \in ToSet(Table(worldBefore)) :
                                                      m.name \notin ToSet(OperandNames)}
                        /\ \A i, k \in DOMAIN Table(world) :
                              i < k <=> SelectInSeq(Table(worldBefore), LAMBDA m : m = Table(world)[i])
                                        < SelectInSeq(Table(worldBefore), LAMBDA m : m = Table(world)[k])
                   ELSE world = worldBefore
         [] job.modes = {"x"} /\ Succeeded ->
                \A i \in Chosen(Table(worldBefore)) :
                    \/ Contents(world, ArDest(i)) = Table(worldBefore)[i].body
                    \/ \E k \in Chosen(Table(worldBefore)) \ {i} :
                            SameInode(worldBefore, ArDest(i), ArDest(k))
         [] job.modes = {"p"} /\ Succeeded ->
                ToSet(answer.out) = {Table(world)[i].body : i \in Chosen(Table(world))}
         [] job.modes = {"t"} /\ Succeeded ->
                ToSet(answer.out) = {Table(world)[i].name : i \in Chosen(Table(world))}
         [] OTHER -> TRUE

(***************************************************************************)
(* gzip, bunzip2, unlzma and uncompress keep the original until they have  *)
(* the whole result, also when a copy breaks off, and leave nothing        *)
(* half-written unless the library panics; what exists is only overwritten *)
(* with -f.  What bunzip2 and the like print is all that was compressed.   *)
(* Left out, by name: gzip removes the original too when only closing the  *)
(* compressor fails (Unfinished).                                          *)
(***************************************************************************)
OutName(file) ==
    IF job.tool # "gzip" THEN DestName(file) ELSE IF job.modes = {"d"} THEN PlainName(file) ELSE GzName(file)
Kept(file) == Stat(world, file) = "file" /\ BytesOf(world, file) = BytesOf(worldBefore, file)
Converted(file) ==
    /\ Stat(world, OutName(file)) = "file"
    /\ IF job.modes = {"d"} THEN Compress(BytesOf(world, OutName(file))) = BytesOf(worldBefore, file)
       ELSE BytesOf(world, OutName(file)) = Compress(BytesOf(worldBefore, file))
OntoItself(file) ==
    \E g \in ToSet(job.operands) :
        SameInode(worldBefore, Real(worldBefore, file), Real(worldBefore, OutName(g)))
Unfinished(file) == job.modes = {} /\ Stat(worldBefore, file) = "file" /\ ~Flushed(BytesOf(worldBefore, file))
PrintsOnly == job.operands = <<>> \/ "c" \in job.flags \/ job.tool = "bzcat"
Half(file) == job.tool = "uncompress" /\ Panics(BytesOf(worldBefore, file))
AtOutput(file) ==
    {Place(world, file), Place(world, OutName(file)), Real(worldBefore, OutName(file))} \union
    {q \in DOMAIN worldBefore : SameInode(worldBefore, q, Real(worldBefore, OutName(file)))}

ConversionIsRight ==
    /\ PrintsOnly => world = worldBefore
    /\ \A f \in ToSet(job.operands) :
        /\ Stat(worldBefore, f) = "file" /\ ~OntoItself(f) =>
                Kept(f) \/ Converted(f) \/ Unfinished(f)
        /\ ~Succeeded /\ Len(job.operands) = 1 /\ Lstat(worldBefore, OutName(f)) = "none" =>
                Lstat(world, OutName(f)) = "none" \/ Half(f)
        /\ Succeeded /\ ~PrintsOnly /\ ~OntoItself(f) /\ ~Unfinished(f) /\ Len(job.operands) = 1 =>
                Converted(f) /\ ("k" \notin job.flags => Lstat(world, f) = "none")
        /\ Stat(worldBefore, OutName(f)) = "file" /\ "f" \notin job.flags => Kept(OutName(f))
        /\ job.tool # "gzip" /\ SuffixOf(f) = 0 /\ Len(job.operands) = 1 => world = worldBefore
    /\ Untouched(UNION {AtOutput(f) : f \in ToSet(job.operands)})
PrintsAll ==
    LET from == IF job.operands = <<>> THEN <<job.archive>> ELSE job.operands
    IN  PrintsOnly /\ Succeeded /\ job.tool # "gzip" =>
            /\ Len(answer.out) = Len(from)
            /\ \A i \in DOMAIN from : Compress(answer.out[i]) = BytesOf(world, from[i])

(* gunzip of what gzip made leaves the regular files as they were. *)
Restores ==
    LET files == ToSet(packed.by.operands)
    IN  /\ packed.by.tool = "gzip" /\ packed.by.flags = {} /\ job.flags = {} /\ Succeeded
        /\ ToSet(job.operands) = {GzName(f) : f \in files}
        /\ \A f \in files : Lstat(packed.from, f) = "file"
        => /\ DOMAIN world = DOMAIN packed.from
           /\ \A q \in DOMAIN world : Contents(world, q) = Contents(packed.from, q)

(***************************************************************************)
(* unzip: a damaged member does not keep the others from being extracted,  *)
(* and -t fails for just the archives that have one.                       *)
(***************************************************************************)
ZipMembers == Unpack(BytesOf(worldBefore, job.archive)).members
Sought == {i \in DOMAIN ZipMembers : shouldExtract(ZipMembers[i], ToSet(job.operands))}
Lands(i) == job.dir \o ZipMembers[i].name

UnzipIsRight ==
    LET sound == \A i \in Sought : ZipMembers[i].kind # "damaged"
        InTheWay(i, k) == /\ IsPrefix(ZipMembers[i].name, ZipMembers[k].name)
                          /\ ZipMembers[i].kind # "dir" \/ ZipMembers[i].name = ZipMembers[k].name
        Free(i) == \A k \in Sought \ {i} : ~InTheWay(i, k) /\ ~InTheWay(k, i)
    IN  /\ job.flags \intersect {"l", "t", "p"} # {} => world = worldBefore
        /\ job.flags \intersect {"t", "p"} # {} => (Succeeded <=> sound)
        /\ "o" \notin job.flags => \A q \in DOMAIN worldBefore : world[q] = worldBefore[q]
        /\ job.flags \subseteq {"o"} =>
            /\ Succeeded => sound \/ "o" \notin job.flags
            /\ Below(worldBefore, job.dir) = {job.dir} =>
                \A i \in Sought : Free(i) =>
                    IF ZipMembers[i].kind = "dir" THEN Stat(world, Lands(i)) = "dir"
                    ELSE BytesOf(world, Lands(i)) = ZipMembers[i].body

(***************************************************************************)
(* cpio -o stores the files it is told of that are there, and -i brings    *)
(* them back, through a link that stands in a file's place if there is     *)
(* one; -p copies them, to a directory that they are not in already.       *)
(***************************************************************************)
CpioMembers == Unpack(BytesOf(worldBefore, job.archive)).members
CpioChosen == {i \in DOMAIN CpioMembers : job.operands = <<>> \/ CpioMembers[i].name \in ToSet(job.operands)}
CpioStowed == SelectSeq(CpioNames(packed.by), LAMBDA n : Lstat(packed.from, packed.by.dir \o n) # "none")
FromCpio == packed.by.tool = "cpio" /\ packed.by.archive = job.archive
Directories(fs) == {q \in DOMAIN fs : fs[q].kind = "dir"}

CpioBrings(i) ==
    LET m == CpioMembers[i]
        dest == job.dir \o m.name
    IN  CASE m.kind = "file" -> Stat(world, dest) = "file" /\ BytesOf(world, dest) = m.body
          [] m.kind = "dir" -> "d" \in job.flags => Stat(world, dest) = "dir"
          [] OTHER -> Dir(dest) \in Directories(world) =>
                Lstat(world, dest) = "link" /\ world[Place(world, dest)].to = m.body
CpioExtracts ==
    LET empty == Below(worldBefore, job.dir) = {job.dir}
        Apart(i) == \A k \in CpioChosen \ {i} : ~IsPrefix(CpioMembers[i].name, CpioMembers[k].name)
                                             /\ ~(/\ CpioMembers[k].kind # "dir"
                                                  /\ IsPrefix(CpioMembers[k].name, CpioMembers[i].name))
    IN  /\ "d" \notin job.flags => Directories(world) \subseteq Directories(worldBefore)
        /\ empty => Untouched(Below(world, job.dir))
        /\ Succeeded => \A i \in CpioChosen :
                /\ Apart(i)
                /\ \/ empty
                   \/ /\ CpioMembers[i].kind \in {"link", "abslink"}
                      /\ Children(worldBefore, job.dir \o CpioMembers[i].name) = {}
                => CpioBrings(i)
        /\ job.operands # <<>> =>
            Untouched(Touchable \union {Real(world, job.dir \o n) : n \in ToSet(job.operands)})
        /\ FromCpio /\ empty /\ job.operands = <<>> /\ "d" \in job.flags =>
            /\ Succeeded
            /\ \A n \in ToSet(CpioStowed) :
                Contents(world, job.dir \o n) = BytesOf(packed.from, packed.by.dir \o n)
            /\ \A q \in Below(world, job.dir) \ {job.dir} :
                \E n \in ToSet(CpioStowed) : IsPrefix(q, job.dir \o n)
CpioCopies ==
    LET dest == job.operands[1]
    IN  /\ Succeeded
        /\ dest # job.dir => Untouched(Below(world, dest) \union Below(worldBefore, dest))
        /\ Stat(worldBefore, dest) = "dir" /\ Below(worldBefore, dest) = {dest} /\ dest # job.dir =>
            \A n \in ToSet(CpioNames(job)) :
                /\ Lstat(worldBefore, job.dir \o n) = "file" =>
                        Contents(world, dest \o n) = BytesOf(worldBefore, job.dir \o n)
                /\ Lstat(worldBefore, job.dir \o n) = "dir" => Stat(world, dest \o n) = "dir"
CpioIsRight ==
    CASE "o" \in job.modes /\ job.modes \subseteq {"o", "t"} -> Untouched({job.archive})
      [] "p" \in job.modes /\ job.modes \subseteq {"p", "t"} /\ job.operands # <<>> -> CpioCopies
      [] job.modes \in {{"t"}, {"i", "t"}} ->
            /\ world = worldBefore
            /\ FromCpio => Succeeded /\ answer.out = SelectSeq(CpioStowed, LAMBDA n : job.operands = <<>> \/ n \in ToSet(job.operands))
      [] job.modes = {"i"} /\ Stat(worldBefore, job.archive) = "file" ->
            /\ CpioExtracts
            /\ ~Unpack(BytesOf(worldBefore, job.archive)).ok => ~Succeeded
      [] OTHER -> world = worldBefore /\ ~Succeeded

(* What comes out of an archive is what was put in.  tar -x makes what     *)
(* tar -c found, hard links included, and leaves alone what it is not to   *)
(* extract; ar keeps a table in which every name stands once, and changes  *)
(* it entirely or not at all; gzip and those that only decompress never    *)
(* leave a file in neither form; unzip extracts all it can; cpio brings    *)
(* back the files it was told of.                                          *)
ArchivesAreRight ==
    CASE job.tool = "tar" -> TarIsRight
      [] job.tool = "ar" -> ArIsRight
      [] job.tool = "gzip" -> ConversionIsRight /\ Restores
      [] job.tool \in DOMAIN DecompressSpec -> ConversionIsRight /\ PrintsAll
      [] job.tool = "cpio" -> CpioIsRight
      [] job.tool = "unzip" ->
            IF Stat(worldBefore, job.archive) = "file" /\ Unpack(BytesOf(worldBefore, job.archive)).ok
            THEN UnzipIsRight ELSE world = worldBefore /\ ~Succeeded
      [] OTHER -> TRUE
=============================================================================
