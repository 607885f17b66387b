-------------------------------- MODULE Grep ---------------------------------
(***************************************************************************)
(* grep, egrep and fgrep (grep.go).  A job is [patterns, patternFiles,     *)
(* operands, stdin, flags, before, after]; a file is [name, kind, text,    *)
(* members], of kind "file", "dir" or "missing", members being the files   *)
(* below a directory.  What is printed is a sequence of [file, line, mark, *)
(* text], with "" and 0 for a file name and a line number that are not     *)
(* printed.                                                                *)
(***************************************************************************)
EXTENDS GoWords, FiniteSets
LOCAL INSTANCE GoStrings

TextLines(text) ==
    LET parts == SplitWhere(text, LAMBDA c : c = "\n")
    IN  IF Last(parts) = <<>> THEN Front(parts) ELSE parts

CaseFold == [c \in {"A", "B"} |-> IF c = "A" THEN "a" ELSE "b"]
Folded(s) == [i \in DOMAIN s |-> IF s[i] \in DOMAIN CaseFold THEN CaseFold[s[i]] ELSE s[i]]

-----------------------------------------------------------------------------
(* The patterns: those of -e, one to a line, then those of the files.  A    *)
(* file that cannot be read is an error unless -s is given.                 *)
Patterns(job) ==
    LET readable == SelectSeq(job.patternFiles, LAMBDA f : f.kind = "file")
    IN  NonEmpty(FlattenSeq([i \in DOMAIN job.patterns |-> SplitWhere(job.patterns[i], LAMBDA c : c = "\n")]
                            \o [i \in DOMAIN readable |-> TextLines(readable[i].text)]))

QuoteMeta(p) ==
    FlattenSeq([i \in DOMAIN p |-> IF p[i] \in {".", "*", "^", "$", "(", ")", "|", "\\"}
                                   THEN <<"\\", p[i]>> ELSE <<p[i]>>])
Boundary == <<"\\", "b">>

(* -F compares texts, unless the case or words count too. *)
IsFixed(flags) == "F" \in flags /\ flags \cap {"i", "w"} = {}

(* The alternatives of the expression that is compiled from the patterns. *)
Alternatives(flags, patterns) ==
    LET given == IF "F" \in flags THEN [i \in DOMAIN patterns |-> QuoteMeta(patterns[i])]
                 ELSE FlattenSeq([i \in DOMAIN patterns |-> SplitWhere(patterns[i], LAMBDA c : c = "|")])
        words == IF "w" \notin flags THEN given
                 ELSE IF "F" \notin flags /\ given \in {<<<<"^">>>>, <<<<"$">>>>} THEN <<<<"a", "^">>>>
                 ELSE [i \in DOMAIN given |-> Boundary \o given[i] \o Boundary]
        whole == IF "x" \notin flags THEN words
                 ELSE [i \in DOMAIN words |-> <<"^">> \o words[i] \o <<"$">>]
    IN  IF "i" \in flags THEN [i \in DOMAIN whole |-> Folded(whole[i])] ELSE whole

(* The leftmost match from position i on, of the first alternative that    *)
(* has one there; all of them in turn.                                     *)
RECURSIVE FindAlternative(_, _, _), FindAlternatives(_, _, _, _)
FindAlternative(alts, s, i) ==
    LET k == SelectInSeq(alts, LAMBDA p : Match(p, s, i, <<>>) # NoMatch)
    IN  IF i > Len(s) THEN [start |-> -1, end |-> -1]
        ELSE IF k # 0 THEN [start |-> i, end |-> Match(alts[k], s, i, <<>>).end]
        ELSE FindAlternative(alts, s, i + 1)
FindAlternatives(alts, s, i, before) ==
    LET m == FindAlternative(alts, s, i)
        next == IF m.end = m.start THEN m.end + 1 ELSE m.end
    IN  IF m.start < 0 THEN <<>>
        ELSE (IF m.end = m.start /\ m.start = before THEN <<>> ELSE <<m>>)
             \o FindAlternatives(alts, s, next, m.end)

-----------------------------------------------------------------------------
(* A line: whether it is selected, and the parts that match.  A search is  *)
(* [flags, patterns, alts].                                                *)
Occurs(pat, text) == \E i \in 0 .. Len(text) - Len(pat) : SubSeq(text, i + 1, i + Len(pat)) = pat
LineOf(search, text, fixed, found) ==
    LET matches == (IF IsFixed(search.flags) THEN fixed # <<>> ELSE found # <<>>)
        parts == IF IsFixed(search.flags) THEN fixed
                 ELSE IF "x" \in search.flags THEN <<>>
                 ELSE NonEmpty([k \in DOMAIN found |-> SubSeq(text, found[k].start + 1, found[k].end)])
    IN  [selected |-> matches # ("v" \in search.flags),
         parts |-> IF "v" \in search.flags THEN <<>> ELSE parts]
MatchLine(search, text) ==
    LineOf(search, text,
           SelectSeq(search.patterns, LAMBDA p : IF "x" \in search.flags THEN text = p ELSE Occurs(p, text)),
           FindAlternatives(search.alts, IF "i" \in search.flags THEN Folded(text) ELSE text, 0, -1))

(* The lines printed with context, and those before which a line is missing. *)
ContextLines(matched, n, before, after) ==
    matched \cup {j \in 1 .. n : \E i \in matched :
                    \/ j < i /\ i - j <= before
                    \/ j > i /\ j - i <= after /\ \A k \in i + 1 .. j : k \notin matched}
scanWithContext(matched, lines, before, after) ==
    LET shown == ContextLines(matched, Len(lines), before, after)
        of(i) == (IF i - 1 \notin shown /\ \E j \in shown : j < i
                  THEN <<[line |-> 0, mark |-> "--", text |-> <<>>]>> ELSE <<>>)
                 \o <<[line |-> i, mark |-> IF i \in matched THEN ":" ELSE "-", text |-> lines[i]]>>
    IN  FlattenSeq([i \in 1 .. Len(lines) |-> IF i \in shown THEN of(i) ELSE <<>>])

-----------------------------------------------------------------------------
(* The files searched, and whether an operand was missed on the way. *)
Readers(job) ==
    IF job.operands = <<>> THEN <<job.stdin>>
    ELSE IF "r" \in job.flags
    THEN FlattenSeq([i \in DOMAIN job.operands |->
            CASE job.operands[i].kind = "dir" -> job.operands[i].members
              [] job.operands[i].kind = "file" -> <<job.operands[i]>>
              [] job.operands[i].kind = "missing" -> <<>>])
    ELSE job.operands
Missed(job) == "r" \in job.flags /\ \E i \in DOMAIN job.operands : job.operands[i].kind = "missing"

(* What one file adds: whether it cannot be read, whether it counts as a    *)
(* match, and what is printed if grep is not quiet.  Reading a directory    *)
(* fails, which -a notices only behind the place where its lines would be   *)
(* printed.                                                                 *)
OutLine(job, file, line, mark, text) ==
    LET several == Len(job.operands) > 1 \/ "r" \in job.flags
        prefix == "H" \in job.flags \/ ("h" \notin job.flags /\ several)
    IN  [file |-> IF prefix \/ "json" \in job.flags THEN file.name ELSE "",
         line |-> IF "n" \in job.flags \/ "json" \in job.flags THEN line ELSE 0,
         mark |-> mark, text |-> text]
NameOnly(file) == <<[file |-> file.name, line |-> 0, mark |-> "", text |-> <<>>]>>
SearchOf(error, hit, out) == [error |-> error, hit |-> hit, out |-> out]

(* Only that a binary file matches, or its name. *)
SearchBinary(job, file, hit) ==
    LET json == "json" \in job.flags
        listed == IF hit THEN "l" \in job.flags ELSE "L" \in job.flags
    IN  SearchOf(FALSE, hit,
                 IF listed /\ ~json THEN NameOnly(file)
                 ELSE IF ~hit \/ ("L" \in job.flags /\ ~json) THEN <<>>
                 ELSE <<[file |-> file.name, line |-> 0, mark |-> "binary", text |-> <<>>]>>)

SearchAround(job, file, hit, around) ==
    LET json == "json" \in job.flags
        of(o) == (IF o.mark = "--" /\ ~json
                  THEN <<[file |-> "", line |-> 0, mark |-> "--", text |-> <<>>]>> ELSE <<>>)
                 \o <<OutLine(job, file, o.line, IF json \/ o.mark = "--" THEN "" ELSE o.mark, o.text)>>
    IN  SearchOf(FALSE, hit, FlattenSeq([k \in DOMAIN around |-> of(around[k])]))

(* Names, a number, lines or the parts of lines, in this order of precedence. *)
SearchLines(job, file, lines, seen, matched) ==
    LET form == CASE "json" \in job.flags -> "lines"
                  [] "json" \notin job.flags /\ job.flags \cap {"l", "L"} # {} -> "name"
                  [] job.flags \cap {"json", "l", "L"} = {} /\ "c" \in job.flags -> "count"
                  [] job.flags \cap {"json", "l", "L", "c"} = {} -> IF "o" \in job.flags THEN "parts" ELSE "lines"
        hit == IF form = "name" /\ "l" \notin job.flags THEN matched = {} ELSE matched # {}
        of(i) == [k \in 1 .. (IF form = "parts" THEN Len(seen[i].parts) ELSE 1) |->
                    OutLine(job, file, i, "", IF form = "parts" THEN seen[i].parts[k] ELSE lines[i])]
    IN  SearchOf(file.kind # "file", hit,
                 CASE form = "name" -> IF hit THEN NameOnly(file) ELSE <<>>
                   [] form = "count" -> <<[OutLine(job, file, 0, "", FormatNat(Cardinality(matched))) EXCEPT !.line = 0]>>
                   [] form \in {"lines", "parts"} ->
                        FlattenSeq([i \in DOMAIN lines |-> IF i \in matched THEN of(i) ELSE <<>>]))

SearchSeen(job, file, lines, seen) ==
    LET matched == {i \in DOMAIN lines : seen[i].selected}
    IN  IF file.kind = "missing" \/ (file.kind = "dir" /\ "a" \notin job.flags) THEN SearchOf(TRUE, FALSE, <<>>)
        ELSE IF "a" \notin job.flags /\ Contains(file.text, NUL) THEN SearchBinary(job, file, matched # {})
        ELSE IF job.before + job.after > 0 /\ job.flags \cap {"c", "l", "L", "o"} = {}
        THEN SearchAround(job, file, matched # {}, scanWithContext(matched, lines, job.before, job.after))
        ELSE SearchLines(job, file, lines, seen, matched)

SearchText(job, search, file, lines) ==
    SearchSeen(job, file, lines, [i \in DOMAIN lines |-> MatchLine(search, lines[i])])
SearchFile(job, search, file) ==
    SearchText(job, search, file, IF file.kind = "file" THEN TextLines(file.text) ELSE <<>>)

(* The files in turn, until one matches that is enough for -q.  An error    *)
(* stays in the status, except that -q forgets it.                          *)
AfterFile(job, sofar, e) ==
    LET json == "json" \in job.flags
        early == IF ~json /\ job.flags \cap {"l", "L"} # {} /\ Head(e.out).mark # "binary" THEN e.out ELSE <<>>
        code == IF e.error THEN 2 ELSE IF e.hit /\ sofar.status # 2 THEN 0 ELSE sofar.status
    IN  IF "q" \in job.flags /\ e.hit
        THEN [status |-> 0, out |-> IF json THEN <<>> ELSE sofar.out \o early, more |-> FALSE]
        ELSE [status |-> code, out |-> sofar.out \o e.out, more |-> TRUE]
SearchFiles(job, search, files, status) ==
    FoldLeft(LAMBDA sofar, f : IF sofar.more THEN AfterFile(job, sofar, SearchFile(job, search, f)) ELSE sofar,
             [status |-> status, out |-> <<>>, more |-> TRUE], files)

NotSearched(job, patterns) ==
    \/ job.patterns = <<>> /\ job.patternFiles = <<>>
    \/ "s" \notin job.flags /\ \E i \in DOMAIN job.patternFiles : job.patternFiles[i].kind # "file"
    \/ "F" \notin job.flags /\ ~Compiles(FlattenSeq(patterns))

SearchFor(job, patterns) ==
    [flags |-> job.flags, patterns |-> patterns,
     alts |-> IF IsFixed(job.flags) THEN <<>> ELSE Alternatives(job.flags, patterns)]
grep(job) ==
    LET found == SearchFiles(job, SearchFor(job, Patterns(job)), Readers(job), IF Missed(job) THEN 2 ELSE 1)
    IN  IF NotSearched(job, Patterns(job)) THEN [status |-> 2, out |-> <<>>]
        ELSE [status |-> found.status, out |-> found.out]

-----------------------------------------------------------------------------
(* What a search means, without an order of trying things: some part of a   *)
(* line, from i to j, is one that a pattern stands for, the whole of it     *)
(* with -x, a part between boundaries with -w, and none for a lone anchor.  *)
RECURSIVE Spans(_, _, _)
Spans(p, s, i) ==
    LET rest == SubSeq(p, ElementLen(p) + 1, Len(p))
        one == IF i < Len(s) /\ Accepts(p, s[i + 1]) THEN {i + 1} ELSE {}
    IN  CASE p = <<>> -> {i}
          [] p # <<>> /\ p[1] = "^" -> IF i = 0 THEN Spans(Tail(p), s, i) ELSE {}
          [] p # <<>> /\ p[1] = "$" -> IF i = Len(s) THEN Spans(Tail(p), s, i) ELSE {}
          [] OTHER -> IF rest # <<>> /\ Head(rest) = "*"
                      THEN Spans(Tail(rest), s, i) \cup UNION {Spans(p, s, k) : k \in one}
                      ELSE UNION {Spans(rest, s, k) : k \in one}
StandsFor(job, pattern, text, i) ==
    LET fold(s) == IF "i" \in job.flags THEN Folded(s) ELSE s
        choices == SplitWhere(pattern, LAMBDA c : c = "|")
    IN  IF "F" \in job.flags
        THEN {j \in i .. Len(text) : fold(SubSeq(text, i + 1, j)) = fold(pattern)}
        ELSE UNION {Spans(fold(choices[k]), fold(text), i) : k \in DOMAIN choices}
Hits(job, text) ==
    LET patterns == Patterns(job)
        spans(i) == UNION {StandsFor(job, patterns[k], text, i) : k \in DOMAIN patterns}
    IN  {<<i, j>> \in UNION {{i} \X spans(i) : i \in 0 .. Len(text)} :
            /\ "x" \in job.flags => i = 0 /\ j = Len(text)
            /\ "w" \in job.flags => /\ AtBoundary(text, i) /\ AtBoundary(text, j)
                                   /\ patterns \notin {<<<<"^">>>>, <<<<"$">>>>}}
Selects(job, text) == (Hits(job, text) # {}) # ("v" \in job.flags)

(* The parts of a line that -o prints lie in it one behind the other.       *)
RECURSIVE LieIn(_, _, _, _)
LieIn(job, parts, text, from) ==
    \/ parts = <<>>
    \/ \E h \in Hits(job, text) : /\ h[1] >= from /\ SubSeq(text, h[1] + 1, h[2]) = Head(parts)
                                 /\ LieIn(job, Tail(parts), text, h[2])

(* grep selects the lines its patterns mean and prints them in order: the   *)
(* lines, or their numbers, or the names of the files that have some or     *)
(* none; with context, the lines around them once each.  Its status is 2    *)
(* if a file could not be read, else whether something was selected; -q     *)
(* ends with 0 at the first one.  Nothing is claimed of -o with -F or -x,   *)
(* which print a pattern once and no part, of the status of -L for a binary *)
(* file, or of what -a prints for a directory; the empty line behind a "--" *)
(* is left out.                                                             *)
GrepRight(job, outcome) ==
    LET files == SelectSeq(Readers(job), LAMBDA f : f.kind = "file")
        broken == Missed(job) \/ Len(files) # Len(Readers(job))
        binary(f) == "a" \notin job.flags /\ Contains(f.text, NUL)
        of(f) == LET ls == TextLines(f.text) IN {i \in DOMAIN ls : Selects(job, ls[i])}
        hit(f) == IF "L" \in job.flags /\ "l" \notin job.flags THEN of(f) = {} ELSE of(f) # {}
        some == \E k \in DOMAIN files : hit(files[k])
        names(p(_)) == LET fs == SelectSeq(files, p) IN [k \in DOMAIN fs |-> fs[k].name]
        gap(o) == \/ o.mark = "--"
                  \/ job.before + job.after > 0 /\ o.mark = "" /\ ("json" \in job.flags => o.line = 0)
        printed == SelectSeq(outcome.out, LAMBDA o : ~gap(o))
        near(f, i) == \E m \in of(f) : (i <= m /\ m - i <= job.before) \/ (i >= m /\ i - m <= job.after)
        shown(f) == LET ls == TextLines(f.text)
                        all == SetToSortSeq({i \in DOMAIN ls : near(f, i)}, <)
                    IN  IF binary(f) THEN IF of(f) = {} THEN <<>> ELSE <<<<>>>> ELSE [k \in DOMAIN all |-> ls[all[k]]]
    IN  IF NotSearched(job, Patterns(job)) THEN outcome = [status |-> 2, out |-> <<>>]
        ELSE IF "q" \in job.flags /\ "L" \notin job.flags
        THEN outcome.status = (IF some THEN 0 ELSE IF broken THEN 2 ELSE 1)
        ELSE /\ outcome.status # 2 <=> ~broken
             /\ ~broken /\ (\A k \in DOMAIN files : ~binary(files[k])) => (outcome.status = 0 <=> some)
             /\ ~(broken /\ "a" \in job.flags) =>
                CASE job.flags \cap {"l", "L"} # {} ->
                        [k \in DOMAIN outcome.out |-> outcome.out[k].file] = names(hit)
                  [] job.flags \cap {"l", "L"} = {} /\ "c" \in job.flags ->
                        \A k \in DOMAIN files : (\A m \in DOMAIN files : ~binary(files[m])) =>
                            outcome.out[k].text = FormatNat(Cardinality(of(files[k])))
                  [] job.flags \cap {"l", "L", "c", "o"} = {} ->
                        [k \in DOMAIN printed |-> printed[k].text]
                            = FlattenSeq([k \in DOMAIN files |-> shown(files[k])])
                  [] job.flags \cap {"l", "L", "c"} = {} /\ "o" \in job.flags ->
                        job.flags \cap {"F", "x"} = {} /\ Len(files) = 1 /\ ~binary(files[1]) /\ "n" \in job.flags =>
                            \A i \in DOMAIN TextLines(files[1].text) :
                                LET mine == SelectSeq(outcome.out, LAMBDA o : o.line = i)
                                    text == TextLines(files[1].text)[i]
                                IN  /\ LieIn(job, [k \in DOMAIN mine |-> mine[k].text], text, 0)
                                    /\ mine = <<>> <=> "v" \in job.flags \/ \A h \in Hits(job, text) : h[1] = h[2]
=============================================================================
