----------------------------- MODULE DiffPatch ------------------------------
(***************************************************************************)
(* diff -u between two files, and patch of one of them with the output,    *)
(* forwards or in reverse.                                                 *)
(*                                                                         *)
(* The diff utility (pkg/diff/diff.go): the edit script, its hunks, and    *)
(* the unified format; and patch (pkg/patch/patch.go), fed with what       *)
(* diff -u prints: parsing, finding the place of a hunk, applying it, and  *)
(* what is written.                                                        *)
(*                                                                         *)
(* A line is the sequence of its characters, a file the sequence of its    *)
(* lines and whether it ends in a newline.  An edit script is a sequence   *)
(* of items [op, text]; a hunk's lines carry their "+", "-" or " ".        *)
(***************************************************************************)
EXTENDS Integers, Sequences, SequencesExt, FiniteSetsExt

Space == " "
IsFile(f) == IF f.lines = <<>> THEN f.newline ELSE f.newline \/ Last(f.lines) # <<>>

-----------------------------------------------------------------------------
(* Normal forms of a line under -b and -w, and what -B calls blank. *)

stripAllSpace(line) == SelectSeq(line, LAMBDA c : c # Space)

(* Trailing space goes, a run of space within becomes one. *)
normalizeSpace(line) ==
    LET kept == {i \in DOMAIN line :
                    \/ line[i] # Space
                    \/ /\ i = 1 \/ line[i - 1] # Space
                       /\ \E j \in i .. Len(line) : line[j] # Space}
    IN  [i \in 1 .. Cardinality(kept) |->
            line[CHOOSE p \in kept : Cardinality({q \in kept : q <= p}) = i]]

Blank(line) == stripAllSpace(line) = <<>>

(* What two lines are compared by; -w wins over -b. *)
Compared(mode, line) ==
    CASE mode.allSpace -> stripAllSpace(line)
      [] mode.space /\ ~mode.allSpace -> normalizeSpace(line)
      [] OTHER -> line

-----------------------------------------------------------------------------
Item(op, text) == [op |-> op, text |-> text]

(* Mutant of Downward: a tie goes down, the overshoot is not preferred. *)
DownwardWrong(v, d, k) == k = -d \/ (k # d /\ v[k - 1] > v[k + 1])

(* On diagonal k the path of d edits comes from k + 1, by an insertion,    *)
(* and not from k - 1, by a deletion.                                      *)
Downward(v, d, k) == k = -d \/ (k # d /\ v[k - 1] < v[k + 1])

RECURSIVE Snake(_, _, _, _)
Snake(a, b, x, y) ==
    IF x < Len(a) /\ y < Len(b) /\ a[x + 1] = b[y + 1] THEN Snake(a, b, x + 1, y + 1) ELSE x

(* The O(ND) search.  v[k] is the furthest x reached on diagonal k; one    *)
(* round of the outer loop extends the diagonals -d, -d + 2, .., d in turn *)
(* and stops when one of them reaches both ends.                           *)
Reach(a, b, v, k, x) ==
    [v |-> [v EXCEPT ![k] = x], end |-> x >= Len(a) /\ x - k >= Len(b)]
Extend(a, b, v, k, x) == Reach(a, b, v, k, Snake(a, b, x, x - k))
StartOf(v, d, k) == IF Downward(v, d, k) THEN v[k + 1] ELSE v[k - 1] + 1

RECURSIVE Diagonals(_, _, _, _, _)
Diagonals(a, b, w, d, k) ==
    IF w.end \/ k > d THEN w
    ELSE Diagonals(a, b, Extend(a, b, w.v, k, StartOf(w.v, d, k)), d, k + 2)

RECURSIVE Rounds(_, _, _, _)
Rounds(a, b, trace, d) ==
    IF Last(trace).end THEN trace
    ELSE Rounds(a, b, Append(trace, Diagonals(a, b, Last(trace), d, -d)), d + 1)

Trace(a, b) ==
    LET maxD == Len(a) + Len(b)
    IN  Tail(Rounds(a, b, <<[v |-> [k \in -maxD - 1 .. maxD + 1 |-> 0], end |-> FALSE]>>, 0))

(* Back from both ends along the trace, one edit and the snake after it at *)
(* a time.                                                                 *)
Equals(a, from, to) == [i \in 1 .. to - from |-> Item("eq", a[from + i])]

RECURSIVE Back(_, _, _, _, _, _)
Back(a, b, trace, d, x, y) ==
    LET k == x - y
        from == StartOf(trace[d].v, d, k)
    IN  IF d = 0 THEN Equals(a, 0, x)
        ELSE IF Downward(trace[d].v, d, k)
        THEN Append(Back(a, b, trace, d - 1, from, from - k - 1), Item("ins", b[from - k]))
             \o Equals(a, from, x)
        ELSE Append(Back(a, b, trace, d - 1, from - 1, from - k), Item("del", a[from]))
             \o Equals(a, from, x)

BackFromEnd(a, b, trace) == Back(a, b, trace, Len(trace) - 1, Len(a), Len(b))

Script(a, b) == IF Len(a) + Len(b) = 0 THEN <<>> ELSE BackFromEnd(a, b, Trace(a, b))

-----------------------------------------------------------------------------
Old(items) == SelectSeq(items, LAMBDA t : t.op \notin {"ins", "ignoredIns"})
New(items) == SelectSeq(items, LAMBDA t : t.op \notin {"del", "ignoredDel"})
Changed(item) == item.op \in {"del", "ins"}

(* The script is found on the compared forms and then given the original   *)
(* lines, an unchanged line's text from the old file.                      *)
Restored(script, a, b) ==
    [i \in DOMAIN script |->
        LET before == SubSeq(script, 1, i)
        IN  Item(script[i].op, IF script[i].op = "ins" THEN b[Len(New(before))]
                               ELSE a[Len(Old(before))])]

(* -B: a block of changes that are all blank is marked as ignored. *)
filterBlankLineChanges(script) ==
    LET Block(i) == {j \in DOMAIN script :
                        \A m \in Min({i, j}) .. Max({i, j}) : Changed(script[m])}
        Ignored(op) == IF op = "del" THEN "ignoredDel" ELSE "ignoredIns"
    IN  [i \in DOMAIN script |->
            IF Changed(script[i]) /\ \A j \in Block(i) : Blank(script[j].text)
            THEN Item(Ignored(script[i].op), script[i].text)
            ELSE script[i]]

EditScript(mode, a, b) ==
    LET Form(lines) == [i \in DOMAIN lines |-> Compared(mode, lines[i])]
        script == Restored(Script(Form(a), Form(b)), a, b)
    IN  IF mode.blankLines THEN filterBlankLineChanges(script) ELSE script

-----------------------------------------------------------------------------
Sign(op) == CASE op = "eq" -> <<" ">>
              [] op \in {"del", "ignoredDel"} -> <<"-">>
              [] op \in {"ins", "ignoredIns"} -> <<"+">>

(* The hunk of the items after the first "from" ones up to "to". *)
Hunk(script, from, to) ==
    LET before == SubSeq(script, 1, from)
        part == SubSeq(script, from + 1, to)
    IN  [oldStart |-> 1 + Len(Old(before)), oldLines |-> Len(Old(part)),
         newStart |-> 1 + Len(New(before)), newLines |-> Len(New(part)),
         lines |-> [i \in DOMAIN part |-> Sign(part[i].op) \o part[i].text]]

(* Changes at most 2 * context lines apart share a hunk; each hunk has up  *)
(* to context lines before and after.                                      *)
BuildHunks(script, context) ==
    LET n == Len(script)
        RunEnd(i, P(_)) == Max({j \in i .. n : \A m \in i + 1 .. j : P(script[m])})
        Equal(item) == ~Changed(item)
        End[i \in 0 .. n] ==
            LET eq == RunEnd(i, Changed)
                next == RunEnd(eq, Equal)
            IN  IF next = n \/ next - eq > 2 * context
                THEN Min({eq + context, next})
                ELSE End[next]
        Hunks[i \in 0 .. n] ==
            LET change == RunEnd(i, Equal)
            IN  IF change = n THEN <<>>
                ELSE <<Hunk(script, Max({0, change - context}), End[change])>>
                     \o Hunks[End[change]]
    IN  Hunks[0]

GenerateDiff(mode, context, f, g) ==
    LET script == EditScript(mode, f.lines, g.lines)
    IN  [differ |-> \E i \in DOMAIN script : Changed(script[i]),
         hunks |-> BuildHunks(script, context)]

(* "\ No newline at end of file". *)
NoNewline == <<"\\", "N">>

(* The unified format: what patch reads.  An empty side is numbered by the *)
(* line before it, and the last line of a hunk, when it belongs to one     *)
(* side only, is marked if that side's file has no final newline.          *)
Printed(hunk, f, g) ==
    LET last == Last(hunk.lines)[1]
        marked == (last = "-" /\ ~f.newline) \/ (last = "+" /\ ~g.newline)
    IN  [oldStart |-> IF hunk.oldLines = 0 THEN hunk.oldStart - 1 ELSE hunk.oldStart,
         oldCount |-> hunk.oldLines,
         newStart |-> IF hunk.newLines = 0 THEN hunk.newStart - 1 ELSE hunk.newStart,
         newCount |-> hunk.newLines,
         lines |-> IF marked THEN Append(hunk.lines, NoNewline) ELSE hunk.lines]

(* diff -u f g: exit status and output. *)
RunDiff(mode, context, f, g) ==
    LET d == GenerateDiff(mode, context, f, g)
    IN  IF d.differ
        THEN [status |-> 1, out |-> [i \in DOMAIN d.hunks |-> Printed(d.hunks[i], f, g)]]
        ELSE [status |-> 0, out |-> <<>>]

-----------------------------------------------------------------------------
(* diff -r: trees are functions from relative paths to files, where a      *)
(* record with kind "other" is not a regular file.                         *)
Empty == [kind |-> "regular", lines |-> <<>>, newline |-> TRUE]

DirEntry(mode, context, treatNew, one, two, path) ==
    LET first == path \in DOMAIN one
        second == path \in DOMAIN two
        f == IF first THEN one[path] ELSE Empty
        g == IF second THEN two[path] ELSE Empty
    IN  IF ~(first /\ second) /\ ~treatNew THEN [report |-> "only", status |-> 1]
        ELSE IF "other" \in {f.kind, g.kind} THEN [report |-> "skipped", status |-> 1]
        ELSE [report |-> "compared", status |-> RunDiff(mode, context, f, g).status]

diffDirs(mode, context, treatNew, one, two) ==
    Max({0} \union {DirEntry(mode, context, treatNew, one, two, path).status :
                    path \in DOMAIN one \union DOMAIN two})
-----------------------------------------------------------------------------
(***************************************************************************)
(* patch: parsing                                                          *)
(***************************************************************************)
Starts(prefix, line) == IsPrefix(prefix, line)

(* ParsePatch looks at the beginning of a line before it asks whether it   *)
(* is inside a hunk: a deleted line that begins with "-- " is taken for    *)
(* the header of the next file, and an inserted "++ " for a file name, and *)
(* a hunk goes on only with the lines it knows.  Only the first file's     *)
(* patch is used.                                                          *)
OldHeader(line) == Starts(<<"-", "-", "-", " ">>, line)
NewHeader(line) == Starts(<<"+", "+", "+", " ">>, line)

ParsePatch(out) ==
    LET FirstHeader(h) == Min({i \in DOMAIN h.lines : OldHeader(h.lines[i])}
                              \union {Len(h.lines) + 1})
        Body(h) == [h EXCEPT !.lines =
                        SelectSeq(SubSeq(h.lines, 1, FirstHeader(h) - 1),
                                  LAMBDA l : ~NewHeader(l))]
        cut == Min({i \in DOMAIN out : FirstHeader(out[i]) <= Len(out[i].lines)}
                   \union {Len(out)})
    IN  [i \in 1 .. cut |-> Body(out[i])]

(***************************************************************************)
(* One hunk                                                                *)
(***************************************************************************)
Inserted(l) == Starts(<<"+">>, l)
Deleted(l) == Starts(<<"-">>, l)
Context(l) == l = <<>> \/ Starts(<<" ">>, l)
Text(l) == IF l = <<>> THEN <<>> ELSE Tail(l)

Texts(h, P(_)) == LET ls == SelectSeq(h.lines, P) IN [i \in DOMAIN ls |-> Text(ls[i])]

reverseHunk(h) ==
    [oldStart |-> h.newStart, oldCount |-> h.newCount,
     newStart |-> h.oldStart, newCount |-> h.oldCount,
     lines |-> [i \in DOMAIN h.lines |->
                    LET l == h.lines[i]
                    IN  CASE Inserted(l) -> <<"-">> \o Tail(l)
                          [] Deleted(l) -> <<"+">> \o Tail(l)
                          [] OTHER -> l]]

(* Deleted and context lines are where the hunk says.  Beyond the end of   *)
(* the file a deleted line and an empty context line pass.                 *)
verifyHunk(lines, h, pos) ==
    LET expected == SelectSeq(h.lines, LAMBDA l : Deleted(l) \/ Context(l))
    IN  \A i \in DOMAIN expected :
            IF pos + i <= Len(lines) THEN lines[pos + i] = Text(expected[i])
            ELSE Deleted(expected[i]) \/ Text(expected[i]) = <<>>

(* Mutant of applyAt: the lines replaced are counted on the new side. *)
applyAtNewCount(lines, h, pos) ==
    SubSeq(lines, 1, Min({pos, Len(lines)}))
        \o Texts(h, LAMBDA l : Inserted(l) \/ Context(l))
        \o SubSeq(lines, pos + h.newCount + 1, Len(lines))

applyAt(lines, h, pos) ==
    SubSeq(lines, 1, Min({pos, Len(lines)}))
        \o Texts(h, LAMBDA l : Inserted(l) \/ Context(l))
        \o SubSeq(lines, pos + h.oldCount + 1, Len(lines))

(* The text the hunk would leave is found in the file, from the hunk's     *)
(* place to ten lines on.                                                  *)
alreadyApplied(lines, h) ==
    LET expected == Texts(h, LAMBDA l : l # <<>> /\ ~Deleted(l))
        start == Max({h.oldStart - 1, 0})
        n == Len(expected)
    IN  /\ n > 0
        /\ \E pos \in start .. Min({start + 10, Len(lines) - n}) :
                \A i \in 1 .. n : lines[pos + i] = expected[i]

(* The places that are tried, in order: the hunk's own, then one line up,  *)
(* one line down, two lines up and so on.                                  *)
Places(lines, h) ==
    LET pos == Max({h.oldStart - 1, 0})
        at(i) == IF i % 2 = 1 THEN pos + i \div 2 ELSE pos - i \div 2
        Tried(p) == 0 <= p /\ (p < pos \/ p + h.oldCount <= Len(lines))
    IN  SelectSeq([i \in 1 .. 2 * Len(lines) + 1 |-> at(i)], Tried)

(* A hunk without old lines goes to the top of the file, wherever it came  *)
(* from.                                                                   *)
applyHunk(lines, h, ignoreApplied) ==
    LET good == SelectSeq(Places(lines, h), LAMBDA p : verifyHunk(lines, h, p))
    IN  IF h.oldCount = 0 THEN [ok |-> TRUE, lines |-> applyAt(lines, h, 0)]
        ELSE IF alreadyApplied(lines, h) THEN [ok |-> ignoreApplied, lines |-> lines]
        ELSE IF good = <<>> THEN [ok |-> FALSE, lines |-> lines]
        ELSE [ok |-> TRUE, lines |-> applyAt(lines, h, Head(good))]

(***************************************************************************)
(* The whole patch                                                         *)
(***************************************************************************)

(* strings.Split leaves one empty line of an empty file. *)
Loaded(f) == IF f.lines = <<>> THEN <<<<>>>> ELSE f.lines

(* The lines joined, with a final newline if the original had one. *)
Written(lines, newline) ==
    IF newline THEN [lines |-> IF lines = <<>> THEN <<<<>>>> ELSE lines, newline |-> TRUE]
    ELSE IF lines \in {<<>>, <<<<>>>>} THEN [lines |-> <<>>, newline |-> TRUE]
    ELSE IF Last(lines) = <<>> THEN [lines |-> Front(lines), newline |-> TRUE]
    ELSE [lines |-> lines, newline |-> FALSE]

(* The hunks are applied in order up to the first that fails; the file is  *)
(* written if any was applied.  An input without hunks is an error.        *)
RunPatch(hunks, f, reverse, ignoreApplied) ==
    LET Apply(r, hunk) ==
            LET h == IF reverse THEN reverseHunk(hunk) ELSE hunk
                a == applyHunk(r.lines, h, ignoreApplied)
            IN  IF r.rejected > 0 THEN r
                ELSE IF a.ok THEN [r EXCEPT !.lines = a.lines, !.applied = @ + 1]
                ELSE [r EXCEPT !.rejected = 1]
        r == FoldLeft(Apply, [lines |-> Loaded(f), applied |-> 0, rejected |-> 0],
                      hunks)
        newline == f.lines # <<>> /\ f.newline
    IN  [status |-> IF hunks = <<>> \/ r.rejected > 0 THEN 1 ELSE 0,
         file |-> IF r.applied > 0 THEN Written(r.lines, newline) ELSE f]

-----------------------------------------------------------------------------
(* The two commands, one after the other. *)

CONSTANTS
    Comparisons,  \* the command lines of diff: [old, new, mode, context]
    Walks         \* those of diff -r, with what the directories may hold

VARIABLES
    stage,     \* "idle", "files", "dirs", "diffed", "patched", "walked"
    old, new,  \* the operands of diff
    opts,      \* its options
    report,    \* its exit status and output
    trees,     \* the operands of diff -r
    use,       \* the options of patch
    patched    \* its exit status and the file it leaves

diffVars == <<stage, old, new, opts, report, trees, use, patched>>

NoFile == [lines |-> <<>>, newline |-> TRUE]
NoMode == [space |-> FALSE, allSpace |-> FALSE, blankLines |-> FALSE]

DiffStart(s, c) ==
    /\ stage = s /\ old = c.old /\ new = c.new
    /\ opts = [mode |-> c.mode, context |-> c.context]
    /\ report = [status |-> 0, out |-> <<>>]
    /\ trees = [one |-> <<>>, two |-> <<>>, treatNew |-> FALSE]
    /\ use = [reverse |-> FALSE, ignoreApplied |-> FALSE]
    /\ patched = [status |-> 0, file |-> NoFile]

DiffInit ==
    \/ \E c \in Comparisons : DiffStart("files", c)
    \/ \E c \in Walks : DiffStart("dirs", c)

(* diff -U context [-b] [-w] [-B] old new *)
Compare ==
    /\ stage = "files"
    /\ report' = RunDiff(opts.mode, opts.context, old, new)
    /\ stage' = "diffed"
    /\ UNCHANGED <<old, new, opts, trees, use, patched>>

(* diff -r [-N] between directories that hold old and new, or a link, or   *)
(* nothing.                                                                *)
Regular(f) == [kind |-> "regular", lines |-> f.lines, newline |-> f.newline]
Other == [Empty EXCEPT !.kind = "other"]
Trees(f) == {<<>>, <<Regular(f)>>, <<Other>>, <<Regular(f), Regular(NoFile)>>}

CompareTrees ==
    /\ stage = "dirs"
    /\ \E one \in Trees(old), two \in Trees(new), treatNew \in BOOLEAN :
        /\ trees' = [one |-> one, two |-> two, treatNew |-> treatNew]
        /\ report' = [status |-> diffDirs(opts.mode, opts.context, treatNew, one, two),
                      out |-> <<>>]
    /\ stage' = "walked"
    /\ UNCHANGED <<old, new, opts, use, patched>>

(* patch [-R] [-N] with diff's output, on the file it was made from. *)
Repair ==
    /\ stage = "diffed"
    /\ \E u \in [reverse : BOOLEAN, ignoreApplied : BOOLEAN] :
        /\ use' = u
        /\ patched' = RunPatch(ParsePatch(report.out), IF u.reverse THEN new ELSE old,
                               u.reverse, u.ignoreApplied)
    /\ stage' = "patched"
    /\ UNCHANGED <<old, new, opts, report, trees>>

DiffNext == Compare \/ CompareTrees \/ Repair

DiffSpec == DiffInit /\ [][DiffNext]_diffVars
-----------------------------------------------------------------------------
(* The length of a longest common subsequence, by its usual recurrence. *)
LCS(a, b) ==
    LET L[i \in 0 .. Len(a), j \in 0 .. Len(b)] ==
            IF i = 0 \/ j = 0 THEN 0
            ELSE IF a[i] = b[j] THEN 1 + L[i - 1, j - 1]
            ELSE Max({L[i - 1, j], L[i, j - 1]})
    IN  L[Len(a), Len(b)]

Form(lines) == [i \in DOMAIN lines |-> Compared(opts.mode, lines[i])]

Edits == FoldLeft(LAMBDA n, h : n + Len(Texts(h, Inserted)) + Len(Texts(h, Deleted)),
                  0, report.out)

DiffIsMinimal ==
    LET a == Form(old.lines)
        b == Form(new.lines)
    IN  /\ Edits = Len(a) + Len(b) - 2 * LCS(a, b)
        /\ (report.status = 0) <=> (a = b)

(* Line i of the old file, where it is not part of a hunk, is line         *)
(* i + shift of the new one, shift being what the hunks before it add.     *)
HunksFit ==
    LET At(start, count) == (IF count = 0 THEN start + 1 ELSE start) - 1
        Side(h, P(_)) == LET t == Texts(h, P) IN Form(t)
        hunks == report.out
        After(i) == [old |-> At(hunks[i].oldStart, hunks[i].oldCount) + hunks[i].oldCount,
                     new |-> At(hunks[i].newStart, hunks[i].newCount) + hunks[i].newCount]
        from(i) == IF i = 0 THEN [old |-> 0, new |-> 0] ELSE After(i)
        to(i) == IF i = Len(hunks) THEN [old |-> Len(old.lines), new |-> Len(new.lines)]
                 ELSE [old |-> At(hunks[i + 1].oldStart, hunks[i + 1].oldCount),
                       new |-> At(hunks[i + 1].newStart, hunks[i + 1].newCount)]
    IN  /\ \A i \in DOMAIN hunks :
            LET h == hunks[i]
                o == At(h.oldStart, h.oldCount)
                n == At(h.newStart, h.newCount)
            IN  /\ Texts(h, LAMBDA l : Deleted(l) \/ Context(l))
                        = SubSeq(old.lines, o + 1, o + h.oldCount)
                /\ Side(h, LAMBDA l : Inserted(l) \/ Context(l))
                        = Form(SubSeq(new.lines, n + 1, n + h.newCount))
        /\ \A i \in 0 .. Len(hunks) :
                Form(SubSeq(old.lines, from(i).old + 1, to(i).old))
                    = Form(SubSeq(new.lines, from(i).new + 1, to(i).new))

WithoutBlankLines(lines) == SelectSeq(lines, LAMBDA l : ~Blank(l))

FilesCompared ==
    IF opts.mode.blankLines
    THEN report.status = 0 =>
            Form(WithoutBlankLines(old.lines)) = Form(WithoutBlankLines(new.lines))
    ELSE DiffIsMinimal /\ HunksFit

TreesCompared ==
    LET paths == DOMAIN trees.one \union DOMAIN trees.two
        At(tree, p) == IF p \in DOMAIN tree THEN tree[p] ELSE Empty
    IN  opts.mode.blankLines \/
        ((report.status = 0) <=>
            \A p \in paths :
                /\ trees.treatNew \/ p \in DOMAIN trees.one \intersect DOMAIN trees.two
                /\ {At(trees.one, p).kind, At(trees.two, p).kind} = {"regular"}
                /\ Form(At(trees.one, p).lines) = Form(At(trees.two, p).lines))

(* diff -u prints a shortest edit script ("Diff computes the differences   *)
(* ... using an O(ND) algorithm"), in hunks whose numbers, counts and      *)
(* lines are right for both files, and exits with 0 exactly if there is    *)
(* nothing to edit; with -B it exits with 0 only if what remains without   *)
(* blank lines is equal.  diff -r exits with 0 exactly if every path leads *)
(* to regular files with equal lines, where under -N a missing file is an  *)
(* empty one.                                                              *)
DiffIsRight ==
    /\ stage = "diffed" => FilesCompared
    /\ stage = "walked" => TreesCompared

(* A file whose lines diff and patch can pass on: it is not empty, ends in *)
(* a newline, and no line looks like a file header once it is marked as    *)
(* deleted or inserted.                                                    *)
Transmissible(f) ==
    /\ f.newline /\ f.lines # <<>>
    /\ \A i \in DOMAIN f.lines : ~OldHeader(<<"-">> \o f.lines[i])
                                 /\ ~NewHeader(<<"+">> \o f.lines[i])

(* When patch says it succeeded with a hunk of diff's that keeps or        *)
(* replaces some line, the file is the other one, line for line, in either *)
(* direction; and when it refuses the hunk the file is as before.          *)
PatchRebuilds ==
    /\ stage = "patched"
    /\ opts.mode = NoMode
    /\ Transmissible(old) /\ Transmissible(new)
    /\ Len(report.out) = 1
    /\ report.out[1].oldCount > 0 /\ report.out[1].newCount > 0
    /\ ~use.ignoreApplied
    => LET target == IF use.reverse THEN new ELSE old
           goal == IF use.reverse THEN old ELSE new
       IN  patched.file = IF patched.status = 0 THEN goal ELSE target

=============================================================================
