------------------------------- MODULE Filters -------------------------------
(***************************************************************************)
(* The filters: utilities that read text and print text (head, tail, cat,  *)
(* cut, paste, tr, fold, expand, unexpand, nl, split, tsort, cmp and wc).  *)
(*                                                                         *)
(* A command reads operands, files that exist or not, and returns its exit *)
(* status and what it prints: a sequence of sections, which are the texts  *)
(* under the headers of head and tail.  A filter of lines is modelled by   *)
(* what it does to one line or one list of lines.                          *)
(***************************************************************************)
EXTENDS GoStrings

CONSTANT
    suffixDigits  \* how many letters split uses for suffixes

Printed1(text) == [status |-> 0, out |-> <<[header |-> FALSE, text |-> text]>>]
Failed(status) == [status |-> status, out |-> <<>>]
AllExist(operands) == \A i \in DOMAIN operands : operands[i].exists
Concatenated(operands) == FoldLeft(LAMBDA t, f : t \o f.text, <<>>, operands)
FirstOf(s, n) == SubSeq(s, 1, Min({n, Len(s)}))
LastOf(s, n) == SubSeq(s, Len(s) - Min({n, Len(s)}) + 1, Len(s))
From(s, n) == SubSeq(s, n, Len(s))
-----------------------------------------------------------------------------
(***************************************************************************)
(* head and tail                                                           *)
(***************************************************************************)
headLines(text, n) == Println(FirstOf(Lines(text), n))
runNegative(text, n) == Println(FirstOf(Lines(text), Max({Len(Lines(text)) - n, 0})))
runBytes(text, n) == FirstOf(text, n)

headOf(text, o) ==
    CASE o.unit = "bytes" -> runBytes(text, o.n)
      [] o.unit = "lines" -> headLines(text, o.n)
      [] o.unit = "butlast" -> runNegative(text, o.n)

(* Files that cannot be opened are left out, with their headers. *)
head(operands, o) ==
    LET opened == SelectSeq(operands, LAMBDA f : f.exists)
    IN  [status |-> IF AllExist(operands) THEN 0 ELSE 1,
         out |-> [i \in DOMAIN opened |-> [header |-> Len(opened) > 1,
                                           text |-> headOf(opened[i].text, o)]]]

(* A count of no bytes counts as no count of bytes: ten lines. *)
tailOf(text, o) ==
    LET n == IF o.unit = "bytes" THEN 10 ELSE o.n
    IN  IF o.unit = "bytes" /\ o.n > 0
        THEN IF o.fromStart THEN From(text, Min({o.n, Len(text) + 1})) ELSE LastOf(text, o.n)
        ELSE Println(IF o.fromStart THEN From(Lines(text), Max({n, 1})) ELSE LastOf(Lines(text), n))

(* The header comes before the file is opened. *)
tail(operands, o) ==
    LET Section(f) == [header |-> Len(operands) > 1,
                       text |-> IF f.exists THEN tailOf(f.text, o) ELSE <<>>]
        shown == SelectSeq(operands, LAMBDA f : f.exists \/ Len(operands) > 1)
    IN  [status |-> IF AllExist(operands) THEN 0 ELSE 1,
         out |-> [i \in DOMAIN shown |-> Section(shown[i])]]

(***************************************************************************)
(* cat and nl: a line is printed with its number, if it has one.           *)
(***************************************************************************)
Unnumbered == -1
IsBlank(line) == Trim(line) = <<>>

(* Every file is numbered from 1. *)
catLines(text, o) ==
    LET Add(acc, line) ==
            LET numbered == o.number = "all" \/ (o.number = "nonblank" /\ ~IsBlank(line))
            IN  IF o.squeeze /\ IsBlank(line) /\ acc.prevBlank THEN acc
                ELSE [prevBlank |-> IsBlank(line),
                      lineNum |-> IF numbered THEN acc.lineNum + 1 ELSE acc.lineNum,
                      lines |-> Append(acc.lines,
                                    [number |-> IF numbered THEN acc.lineNum + 1 ELSE Unnumbered,
                                     line |-> line])]
    IN  FoldLeft(Add, [prevBlank |-> FALSE, lineNum |-> 0, lines |-> <<>>], Lines(text)).lines

cat(operands, o) ==
    IF ~AllExist(operands) THEN Failed(1)
    ELSE IF o.number = "none" /\ ~o.squeeze THEN Printed1(Concatenated(operands))
    ELSE [status |-> 0, out |-> [i \in DOMAIN operands |-> catLines(operands[i].text, o)]]

(* A number that is not positive is not printed, but counted. *)
nlLines(text, o) ==
    LET Add(acc, line) ==
            LET numbered == o.body = "a" \/ (o.body = "t" /\ ~IsBlank(line))
            IN  [num |-> IF numbered THEN acc.num + 1 ELSE acc.num,
                 lines |-> Append(acc.lines,
                               [number |-> IF numbered /\ acc.num > 0 THEN acc.num ELSE Unnumbered,
                                line |-> line])]
    IN  FoldLeft(Add, [num |-> o.start, lines |-> <<>>], Lines(text)).lines

(* Only the first operand is read. *)
nl(operands, o) ==
    IF ~operands[1].exists THEN Failed(1)
    ELSE [status |-> 0, out |-> <<nlLines(operands[1].text, o)>>]
-----------------------------------------------------------------------------
(***************************************************************************)
(* cut and paste                                                           *)
(***************************************************************************)

(* A list is a sequence of ranges; 0 stands for a number that is refused. *)
parseListOk(list) == \A i \in DOMAIN list : list[i].start >= 1 /\ list[i].end >= 1
inRange(idx, list) == \E i \in DOMAIN list : idx \in list[i].start .. list[i].end

(* Fields come in the order of the list. *)
Selected(parts, list) ==
    FoldLeft(LAMBDA sel, r : sel \o SubSeq(parts, r.start, Min({r.end, Len(parts)})), <<>>, list)

(* The lines printed for a line: one or, with -s, none. *)
cutLine(line, o) ==
    CASE o.by = "chars" ->
            <<FoldLeftDomain(LAMBDA t, i : IF inRange(i, o.list) THEN Append(t, line[i]) ELSE t, <<>>, line)>>
      [] o.by = "blanks" -> <<JoinWith(Selected(Fields(line), o.list), blank)>>
      [] o.by = "fields" ->
            IF Contains(line, o.delimiter)
            THEN <<JoinWith(Selected(Split(line, o.delimiter), o.list), o.delimiter)>>
            ELSE IF o.noSuppress THEN <<<<>>>>
            ELSE IF o.onlyDelimited THEN <<>>
            ELSE <<line>>

cut(operands, o) ==
    LET Cut(t, f) == t \o Println(FlattenSeq([i \in DOMAIN Lines(f.text) |-> cutLine(Lines(f.text)[i], o)]))
    IN  IF ~AllExist(operands) \/ ~parseListOk(o.list) THEN Failed(1)
        ELSE Printed1(FoldLeft(Cut, <<>>, operands))

RECURSIVE TrimTrailing(_)
TrimTrailing(row) ==
    IF row # <<>> /\ Last(row) = <<>> THEN TrimTrailing(Front(row)) ELSE row

(* Parallel: the k-th lines of all files, until none has one. *)
Merge(columns, serial) ==
    LET rows == Max({0} \union {Len(columns[i]) : i \in DOMAIN columns})
        Row(k) == [i \in DOMAIN columns |-> IF k <= Len(columns[i]) THEN columns[i][k] ELSE <<>>]
    IN  IF serial THEN columns ELSE [k \in 1 .. rows |-> TrimTrailing(Row(k))]

(* An empty delimiter is none at that position. *)
Format(row, delimiters) ==
    FoldLeftDomain(LAMBDA t, i : IF i = 1 THEN row[1]
                                 ELSE t \o delimiters[((i - 2) % Len(delimiters)) + 1] \o row[i],
                   <<>>, row)

(* With several operands "-" each gets every n-th line of standard input. *)
Columns(operands, stdin) ==
    LET stdins == {i \in DOMAIN operands : operands[i].stdin}
        Nth(i) == Cardinality({j \in stdins : j < i})
        Share(i) == [k \in 1 .. (Len(stdin) - Nth(i) + Cardinality(stdins) - 1) \div Cardinality(stdins) |->
                        stdin[Nth(i) + 1 + (k - 1) * Cardinality(stdins)]]
    IN  [i \in DOMAIN operands |-> IF i \in stdins THEN Share(i) ELSE Lines(operands[i].text)]

paste(operands, o) ==
    LET columns == Columns(operands, Lines(o.stdin))
        records == Merge(columns, o.serial)
    IN  IF ~AllExist(operands) THEN Failed(1)
        ELSE Printed1(Println([k \in DOMAIN records |-> Format(records[k], o.delimiters)]))
-----------------------------------------------------------------------------
(***************************************************************************)
(* tr                                                                      *)
(***************************************************************************)
RECURSIVE expandSetList(_)
expandSetList(s) ==
    IF s = <<>> THEN <<>>
    ELSE IF Len(s) > 2 /\ s[2] = hyphen
    THEN [k \in 1 .. Max({s[3] - s[1] + 1, 0}) |-> s[1] + k - 1] \o expandSetList(From(s, 4))
    ELSE <<s[1]>> \o expandSetList(Tail(s))

(* A character listed twice is translated as it is listed last; the last   *)
(* of a shorter second set stands for the rest.  With -s nothing is        *)
(* translated, except by -c.                                               *)
Translated(c, s1, s2, o) ==
    IF o.delete \/ s2 = <<>> \/ o.complement = Contains(s1, c) THEN c
    ELSE IF o.complement THEN Last(s2)
    ELSE IF o.squeeze THEN c
    ELSE s2[Min({SelectLastInSeq(s1, LAMBDA d : d = c), Len(s2)})]

trText(text, s1, s2, o) ==
    LET In1(c) == Contains(s1, c) # o.complement
        Squeezed(out, c, c2) == /\ o.squeeze /\ out # <<>> /\ c2 = Last(out)
                                /\ IF s2 # <<>> THEN Contains(s2, c2) ELSE In1(c)
        Put(out, c, c2) == IF (o.delete /\ In1(c)) \/ Squeezed(out, c, c2) THEN out ELSE Append(out, c2)
    IN  FoldLeft(LAMBDA out, c : Put(out, c, Translated(c, s1, s2, o)), <<>>, text)

tr(operands, o) == Printed1(trText(operands[1].text, expandSetList(o.set1), expandSetList(o.set2), o))

(***************************************************************************)
(* fold, expand, unexpand                                                  *)
(***************************************************************************)
(* -t, or 8. *)
TabWidth(o) == IF o.tabs > 0 THEN o.tabs ELSE 8
Advance(c, pos, width) == IF c = tab THEN width - (pos % width) ELSE 1

(* Where the piece that begins a line ends if it is cut before i. *)
BreakAt(line, i, spaceBreak) ==
    LET blanks == {j \in 1 .. i - 1 : line[j] = blank}
    IN  IF spaceBreak /\ blanks # {} THEN Max(blanks) ELSE i - 1

(* The pieces of a line; a blank after a break at blanks is dropped. *)
RECURSIVE foldFrom(_, _, _, _)
foldFrom(line, i, pos, o) ==
    LET advance == IF o.bytes THEN 1 ELSE Advance(line[i], pos, 8)
        rest == From(line, BreakAt(line, i, o.spaces) + 1)
    IN  IF i > Len(line) THEN <<line>>
        ELSE IF pos + advance > o.width /\ pos > 0
        THEN <<SubSeq(line, 1, BreakAt(line, i, o.spaces))>>
             \o foldFrom(IF o.spaces /\ rest # <<>> /\ Head(rest) = blank THEN Tail(rest) ELSE rest, 1, 0, o)
        ELSE foldFrom(line, i + 1, pos + advance, o)

EachLine(text, Do(_)) ==
    LET lines == Split(text, newline)
    IN  JoinWith([i \in DOMAIN lines |-> Do(lines[i])], newline)

fold(operands, o) ==
    LET Fold(line) == JoinWith(foldFrom(line, 1, 0, o), newline)
    IN  IF ~AllExist(operands) THEN Failed(1) ELSE Printed1(EachLine(Concatenated(operands), Fold))

RECURSIVE expandFrom(_, _, _)
expandFrom(line, col, o) ==
    IF line = <<>> THEN <<>>
    ELSE IF Head(line) = tab
    THEN [k \in 1 .. Advance(tab, col, TabWidth(o)) |-> blank]
         \o expandFrom(Tail(line), col + Advance(tab, col, TabWidth(o)), o)
    ELSE IF o.initialOnly /\ Head(line) # blank THEN line
    ELSE <<Head(line)>> \o expandFrom(Tail(line), col + 1, o)

(* Operands that cannot be read are passed over in silence. *)
expand(operands, o) ==
    LET Expand(line) == expandFrom(line, 0, o)
    IN  Printed1(EachLine(Concatenated(SelectSeq(operands, LAMBDA f : f.exists)), Expand))

(* Mutant of blanksToTabs: a tab also where it goes too far. *)
RECURSIVE blanksToTabsTooFar(_, _, _)
blanksToTabsTooFar(col, end, width) ==
    IF col >= end THEN <<>>
    ELSE <<tab>> \o blanksToTabsTooFar(col + Advance(tab, col, width), end, width)

RECURSIVE blanksToTabs(_, _, _)
blanksToTabs(col, end, width) ==
    LET next == col + Advance(tab, col, width)
    IN  IF col >= end THEN <<>>
        ELSE IF next <= end THEN <<tab>> \o blanksToTabs(next, end, width)
        ELSE <<blank>> \o blanksToTabs(col + 1, end, width)

(* The blanks and tabs a line begins with, and the column they lead to. *)
BlankRun(line) == FirstOf(line, SelectInSeq(Append(line, 1), LAMBDA c : c \notin {blank, tab}) - 1)
ColumnAfter(col, run, width) == FoldLeft(LAMBDA c, r : c + Advance(r, c, width), col, run)

(* Only blanks at the beginning and runs with a tab are changed, unless    *)
(* there is -a, or -t without -f.                                          *)
AllBlanks(o) == o.all \/ (o.tabs > 0 /\ ~o.firstOnly)

RECURSIVE unexpandFrom(_, _, _)
unexpandFrom(line, col, o) ==
    LET run == BlankRun(line)
        end == ColumnAfter(col, run, TabWidth(o))
    IN  IF line = <<>> THEN <<>>
        ELSE IF run # <<>> /\ (AllBlanks(o) \/ col = 0 \/ Contains(run, tab))
        THEN blanksToTabs(col, end, TabWidth(o)) \o unexpandFrom(From(line, Len(run) + 1), end, o)
        ELSE <<Head(line)>> \o unexpandFrom(Tail(line), col + 1, o)

unexpand(operands, o) ==
    LET Unexpand(line) == unexpandFrom(line, 0, o)
    IN  IF ~AllExist(operands) THEN Failed(1)
        ELSE Printed1(EachLine(Concatenated(operands), Unexpand))
-----------------------------------------------------------------------------
(***************************************************************************)
(* split                                                                   *)
(***************************************************************************)

(* The pieces: as long as input is left, and one that meets its end. *)
ByteChunks(text, size) ==
    [k \in 1 .. Len(text) \div size + 1 |-> FirstOf(From(text, (k - 1) * size + 1), size)]
LineChunks(lines, size) ==
    [k \in 1 .. Max({1, (Len(lines) + size - 1) \div size}) |->
        Println(FirstOf(From(lines, (k - 1) * size + 1), size))]

(* Letters start again when they are used up, and the file is overwritten. *)
(* Numbers grow longer than -a allows: split stops there, with -b as if    *)
(* that were the end.                                                      *)
Stored(chunks, names, numeric) ==
    [n \in 1 .. Min({names, Len(chunks)}) |->
        IF numeric THEN chunks[n]
        ELSE chunks[Max({k \in DOMAIN chunks : (k - n) % names = 0})]]

split(operands, o) ==
    LET text == operands[1].text
        chunks == IF o.unit = "bytes" THEN ByteChunks(text, o.size) ELSE LineChunks(Lines(text), o.size)
        names == suffixDigits ^ o.suffixLen
        stored == Stored(chunks, names, o.numeric)
    IN  IF ~operands[1].exists THEN Failed(1)
        ELSE [status |-> IF o.numeric /\ o.unit = "lines" /\ Len(chunks) > names THEN 1 ELSE 0,
              out |-> [n \in DOMAIN stored |-> [header |-> FALSE, text |-> stored[n]]]]

(***************************************************************************)
(* tsort                                                                   *)
(***************************************************************************)
Distinct(s) == FoldLeft(LAMBDA d, x : IF Contains(d, x) THEN d ELSE Append(d, x), <<>>, s)

Pairing(words) ==
    LET pairs == [k \in 1 .. Len(words) \div 2 |-> <<words[2 * k - 1], words[2 * k]>>]
    IN  Distinct(SelectSeq(pairs, LAMBDA e : e[1] # e[2]))

(* The neighbours of the node taken from the queue lose one predecessor. *)
Release(u, inDegree, queue, edges) ==
    FoldLeft(LAMBDA acc, e :
                LET d == acc.inDegree[e[2]] - 1
                IN  IF e[1] # u THEN acc
                    ELSE [inDegree |-> [acc.inDegree EXCEPT ![e[2]] = d],
                          queue |-> IF d = 0 THEN Append(acc.queue, e[2]) ELSE acc.queue],
             [inDegree |-> inDegree, queue |-> queue], edges)

RECURSIVE Kahn(_, _, _)
Kahn(r, edges, result) ==
    IF r.queue = <<>> THEN result
    ELSE Kahn(Release(Head(r.queue), r.inDegree, Tail(r.queue), edges), edges,
              Append(result, Head(r.queue)))

tsortWords(words) ==
    LET nodes == Distinct(words)
        edges == Pairing(words)
        inDegree == [v \in ToSet(nodes) |-> Cardinality({k \in DOMAIN edges : edges[k][2] = v})]
        result == Kahn([inDegree |-> inDegree, queue |-> SelectSeq(nodes, LAMBDA v : inDegree[v] = 0)],
                       edges, <<>>)
    IN  IF Len(words) % 2 # 0 THEN Failed(1)
        ELSE [status |-> IF Len(result) < Len(nodes) THEN 1 ELSE 0, out |-> result]

tsort(operands) ==
    IF Len(operands) > 1 \/ ~operands[1].exists THEN Failed(1) ELSE tsortWords(Fields(operands[1].text))

(***************************************************************************)
(* cmp and wc                                                              *)
(***************************************************************************)
Newlines(text) == Cardinality({i \in DOMAIN text : text[i] = newline})

(* A newline counts before it is compared.  -n is 0 or more, -1 if absent. *)
Difference(d1, d2) ==
    LET common == Min({Len(d1), Len(d2)})
        differing == {i \in 1 .. common : d1[i] # d2[i]}
        at == Min(differing)
    IN  IF differing # {} THEN <<[eof |-> FALSE, byte |-> at, line |-> 1 + Newlines(FirstOf(d1, at))]>>
        ELSE IF Len(d1) # Len(d2)
        THEN <<[eof |-> TRUE, byte |-> common + 1, line |-> 1 + Newlines(FirstOf(d1, common))]>>
        ELSE <<>>

cmp(operands, o) ==
    LET Read(f) == IF o.limit >= 0 THEN FirstOf(f.text, o.limit) ELSE f.text
        found == Difference(Read(operands[1]), Read(operands[2]))
    IN  IF ~AllExist(operands) THEN Failed(2)
        ELSE [status |-> IF found = <<>> THEN 0 ELSE 1, out |-> found]

CountProper(text) ==
    LET Add(acc, c) ==
            IF c = newline
            THEN [acc EXCEPT !.lines = @ + 1, !.longest = Max({@, acc.length}), !.length = 0, !.inWord = FALSE]
            ELSE [acc EXCEPT !.length = @ + 1, !.inWord = ~IsSpace(c),
                             !.words = IF IsSpace(c) \/ acc.inWord THEN @ ELSE @ + 1]
        r == FoldLeft(Add, [lines |-> 0, words |-> 0, longest |-> 0, length |-> 0, inWord |-> FALSE], text)
    IN  [lines |-> r.lines, words |-> r.words, bytes |-> Len(text), longest |-> Max({r.longest, r.length})]

(* The longest line of all is not looked for. *)
wc(operands) ==
    LET opened == SelectSeq(operands, LAMBDA f : f.exists)
        counts == [i \in DOMAIN opened |-> CountProper(opened[i].text)]
        Plus(t, c) == [lines |-> t.lines + c.lines, words |-> t.words + c.words,
                       bytes |-> t.bytes + c.bytes, longest |-> 0]
        total == FoldLeft(Plus, [lines |-> 0, words |-> 0, bytes |-> 0, longest |-> 0], counts)
    IN  [status |-> IF AllExist(operands) THEN 0 ELSE 1,
         out |-> IF Len(operands) > 1 THEN Append(counts, total) ELSE counts]
=============================================================================
