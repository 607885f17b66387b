---------------------------- MODULE SortPipeline ----------------------------
(***************************************************************************)
(* The utilities that order lines or rely on their order: sort, uniq, comm *)
(* and join (pkg/sort, pkg/uniq, pkg/comm, pkg/join); sort on two files,   *)
(* and uniq, comm or join on what it printed.                              *)
(*                                                                         *)
(* A line is a sequence of characters, see GoStrings.                      *)
(***************************************************************************)
EXTENDS GoStrings, Functions, Bags

CONSTANTS
    suffixRank,   \* letter -> rank of the size suffix it is
    monthOrder,   \* letter, for the first three of a name -> number of the month
    toLower       \* letter -> its lower case, if that is another letter

(***************************************************************************)
(* sort                                                                    *)
(***************************************************************************)
NoDelimiter == -1

Characters(key, from, to) ==
    IF from = 0 THEN key ELSE SubSeq(key, from, IF to \in 1 .. Len(key) THEN to ELSE Len(key))

KeyFields(parts, ks, sep) ==
    JoinWith(SubSeq(parts, ks.startField, Min({Max({ks.startField, ks.endField}), Len(parts)})),
             sep)

extractKey(line, ks, delimiter) ==
    LET from == IF ks.startChar = 0 /\ ks.endChar > 0 THEN 1 ELSE ks.startChar
    IN  IF ks.startField = 0 THEN line
        ELSE IF delimiter = NoDelimiter
        THEN Characters(KeyFields(Fields(line), ks, blank), from, ks.endChar)
        ELSE Characters(KeyFields(Split(line, delimiter), ks, delimiter), from, ks.endChar)

(* A leading number: how many characters it has and its value. *)
LeadingDigits(s) == Max({i \in 0 .. Len(s) : \A j \in 1 .. i : IsDigit(s[j])})
Number(digits) == FoldLeft(LAMBDA v, c : 10 * v + c - 1, 0, digits)

NumericPrefix(s) == [valid |-> LeadingDigits(s) > 0, num |-> Number(SubSeq(s, 1, LeadingDigits(s)))]
parseNumericPrefix(s) == NumericPrefix(TrimLeft(s))

MonthOf(t) ==
    IF t # <<>> /\ Head(t) \in DOMAIN monthOrder
    THEN [valid |-> TRUE, num |-> monthOrder[Head(t)]]
    ELSE [valid |-> FALSE, num |-> 0]
parseMonth(s) == MonthOf(Trim(s))

HumanVal(t, n) ==
    [num |-> Number(SubSeq(t, 1, n)), orig |-> t,
     suffix |-> IF n \in 1 .. Len(t) - 1 /\ t[n + 1] \in DOMAIN suffixRank
                THEN suffixRank[t[n + 1]] ELSE 0]
parseHumanVal(s) == HumanVal(Trim(s), LeadingDigits(Trim(s)))

(* A number without suffix comes before any with one. *)
compareHuman(a, b) ==
    IF a.suffix # b.suffix THEN CompareNumber(a.suffix, b.suffix)
    ELSE IF a.num # b.num THEN CompareNumber(a.num, b.num)
    ELSE CompareText(a.orig, b.orig)

(* The comparison of one key, before the key's own r.  A key that is not a *)
(* number sorts before those that are; one that is not a month is compared *)
(* as text, even with a month.                                             *)
CompareParsed(ks, va, vb, a, b) ==
    IF va.valid /\ vb.valid THEN CompareNumber(va.num, vb.num)
    ELSE IF ks.numeric /\ va.valid # vb.valid THEN Order(vb.valid, va.valid)
    ELSE CompareText(a, b)

CompareKey(ks, a, b) ==
    CASE ks.human -> compareHuman(parseHumanVal(a), parseHumanVal(b))
      [] ks.numeric /\ ~ks.human ->
            CompareParsed(ks, parseNumericPrefix(a), parseNumericPrefix(b), a, b)
      [] ks.month /\ ~ks.numeric /\ ~ks.human ->
            CompareParsed(ks, parseMonth(a), parseMonth(b), a, b)
      [] OTHER -> CompareText(a, b)

Keys(line, o) ==
    IF o.specs = <<>> THEN <<line>>
    ELSE [i \in DOMAIN o.specs |-> extractKey(line, o.specs[i], o.delimiter)]

Flip(order, flipped) == IF flipped THEN -order ELSE order

(* The first key that differs decides, then the whole line. *)
RECURSIVE CompareKeys(_, _, _)
CompareKeys(specs, ka, kb) ==
    LET first == CompareKey(Head(specs), Head(ka), Head(kb))
    IN  IF specs = <<>> THEN 0
        ELSE IF first # 0 THEN Flip(first, Head(specs).reverse)
        ELSE CompareKeys(Tail(specs), Tail(ka), Tail(kb))

LastResort(order, a, b, o) ==
    IF order # 0 \/ o.stable THEN order ELSE Flip(CompareText(a, b), o.tieReverse)

CompareLines(a, b, o) ==
    LastResort(IF o.specs = <<>> THEN CompareText(a, b)
               ELSE CompareKeys(o.specs, Keys(a, o), Keys(b, o)), a, b, o)

(* What sortRun makes of -r, -n, -M, -h and the -k options.  -r reverses   *)
(* the keys if all of them are text, and only the last resort otherwise.   *)
WholeLine == [startField |-> 0, startChar |-> 0, endField |-> 0, endChar |-> 0]

SortOptions(f) ==
    LET Given(k) == [k EXCEPT !.numeric = @ \/ (f.numeric /\ ~k.month /\ ~k.human),
                              !.month = @ \/ f.month, !.human = @ \/ f.human]
        given == [i \in DOMAIN f.keys |-> Given(f.keys[i])]
        special == \E i \in DOMAIN given : given[i].numeric \/ given[i].month \/ given[i].human
        flipped == [i \in DOMAIN given |-> [given[i] EXCEPT !.reverse = ~@]]
        line == WholeLine @@ [numeric |-> f.numeric, reverse |-> f.reverse,
                              month |-> f.month, human |-> f.human]
        specs == IF f.keys # <<>> THEN IF f.reverse /\ ~special THEN flipped ELSE given
                 ELSE IF f.reverse \/ f.numeric \/ f.month \/ f.human THEN <<line>>
                 ELSE <<>>
    IN  [specs |-> specs, tieReverse |-> f.reverse /\ f.keys # <<>> /\ special,
         stable |-> f.stable, unique |-> f.unique, delimiter |-> f.delimiter]

(* slices.SortStableFunc: an insertion sort, for up to twenty lines. *)
RECURSIVE Insert(_, _, _)
Insert(sorted, line, o) ==
    IF sorted # <<>> /\ CompareLines(line, Last(sorted), o) < 0
    THEN Append(Insert(Front(sorted), line, o), Last(sorted))
    ELSE Append(sorted, line)

RECURSIVE InsertAll(_, _, _)
InsertAll(sorted, lines, o) ==
    IF lines = <<>> THEN sorted
    ELSE InsertAll(Insert(sorted, Head(lines), o), Tail(lines), o)

(* -u: of neighbours with the same keys the first stays. *)
Unique(lines, o) ==
    LET first == {i \in DOMAIN lines : i = 1 \/ Keys(lines[i], o) # Keys(lines[i - 1], o)}
    IN  [i \in 1 .. Cardinality(first) |->
            lines[CHOOSE p \in first : Cardinality({q \in first : q <= p}) = i]]

Sort(lines, o) ==
    IF o.unique THEN Unique(InsertAll(<<>>, lines, o), o) ELSE InsertAll(<<>>, lines, o)

(***************************************************************************)
(* uniq                                                                    *)
(***************************************************************************)
extractCompareKey(line, o) ==
    LET Lower(l) == [i \in DOMAIN l |-> IF l[i] \in DOMAIN toLower THEN toLower[l[i]]
                                        ELSE l[i]]
        SkipField(l, n) ==
            LET t == TrimLeft(l)
                end == SelectInSeq(t, LAMBDA c : c = blank)
            IN  IF end = 0 THEN <<>> ELSE SubSeq(t, end, Len(t))
        fields == FoldLeft(SkipField, IF o.ignoreCase THEN Lower(line) ELSE line,
                           [i \in 1 .. o.skipFields |-> i])
        rest == SubSeq(fields, o.skipChars + 1, Len(fields))
    IN  IF o.checkChars > 0 THEN SubSeq(rest, 1, Min({o.checkChars, Len(rest)})) ELSE rest

(* A run of lines with equal keys is one item: its first line and length. *)
Uniq(lines, o) ==
    LET Same(i) == extractCompareKey(lines[i], o) = extractCompareKey(lines[i - 1], o)
        Step(items, i) ==
            IF i > 1 /\ Same(i) THEN [items EXCEPT ![Len(items)].count = @ + 1]
            ELSE Append(items, [line |-> lines[i], count |-> 1])
        items == FoldLeft(Step, <<>>, [i \in DOMAIN lines |-> i])
        Shown(item) == /\ o.duplicatesOnly => item.count > 1
                       /\ o.uniqueOnly => item.count = 1
    IN  IF o.duplicatesOnly /\ o.uniqueOnly THEN <<>> ELSE SelectSeq(items, Shown)

(***************************************************************************)
(* comm and join: two cursors over sorted input                            *)
(***************************************************************************)

(* Column 1, 2 or 3 for every line that is not suppressed. *)
Column(col, text, suppress) == IF col \in suppress THEN <<>> ELSE <<[col |-> col, text |-> text]>>

RECURSIVE Comm(_, _, _)
Comm(file1, file2, suppress) ==
    IF file1 = <<>> /\ file2 = <<>> THEN <<>>
    ELSE IF file2 = <<>> \/ (file1 # <<>> /\ Less(Head(file1), Head(file2)))
         THEN Column(1, Head(file1), suppress) \o Comm(Tail(file1), file2, suppress)
    ELSE IF file1 = <<>> \/ Less(Head(file2), Head(file1))
         THEN Column(2, Head(file2), suppress) \o Comm(file1, Tail(file2), suppress)
    ELSE Column(3, Head(file1), suppress) \o Comm(Tail(file1), Tail(file2), suppress)

JoinKey(line, field) ==
    LET fs == Split(line, blank) IN IF field <= Len(fs) THEN fs[field] ELSE <<>>

(* Mutant of formatOutput: the key is taken out by its place in file 1. *)
formatOutputOtherKey(l1, l2, o) ==
    LET f1 == Split(l1, blank)
        f2 == Split(l2, blank)
    IN  JoinWith(f1 \o (IF o.field1 <= Len(f2) THEN RemoveAt(f2, o.field1) ELSE f2), blank)

(* The fields of the first line and those of the second without its key,   *)
(* or the fields -o lists as <<file, field>>.                              *)
formatOutput(l1, l2, o) ==
    LET f1 == Split(l1, blank)
        f2 == Split(l2, blank)
        Pick(p) == LET fs == IF p[1] = 1 THEN f1 ELSE f2
                   IN  IF p[1] \in {1, 2} /\ p[2] \in 1 .. Len(fs) THEN fs[p[2]] ELSE <<>>
    IN  IF o.output # <<>> THEN JoinWith([i \in DOMAIN o.output |-> Pick(o.output[i])], blank)
        ELSE IF l1 = <<>> THEN l2
        ELSE IF l2 = <<>> THEN l1
        ELSE JoinWith(f1 \o (IF o.field2 <= Len(f2) THEN RemoveAt(f2, o.field2) ELSE f2),
                      blank)

(* -a and -v name the file whose unpaired lines are wanted; -v drops the   *)
(* pairs.  The lines of both files with one key are paired at once.        *)
Unpaired(f, line, o) == IF f \in {o.also, o.only} THEN <<line>> ELSE <<>>

SameKey(lines, field) ==
    SelectInSeq(lines, LAMBDA l : JoinKey(l, field) # JoinKey(Head(lines), field))
Group(lines, n) == IF n = 0 THEN lines ELSE SubSeq(lines, 1, n - 1)
After(lines, n) == IF n = 0 THEN <<>> ELSE SubSeq(lines, n, Len(lines))

Pairs(group1, group2, o) ==
    IF o.only # 0 THEN <<>>
    ELSE FlattenSeq([i \in DOMAIN group1 |->
            [j \in DOMAIN group2 |-> formatOutput(group1[i], group2[j], o)]])

RECURSIVE Join(_, _, _)
Join(file1, file2, o) ==
    LET k1 == JoinKey(Head(file1), o.field1)
        k2 == JoinKey(Head(file2), o.field2)
        n1 == SameKey(file1, o.field1)
        n2 == SameKey(file2, o.field2)
    IN  IF file1 = <<>> /\ file2 = <<>> THEN <<>>
        ELSE IF file2 = <<>> \/ (file1 # <<>> /\ Less(k1, k2))
             THEN Unpaired(1, Head(file1), o) \o Join(Tail(file1), file2, o)
        ELSE IF file1 = <<>> \/ Less(k2, k1)
             THEN Unpaired(2, Head(file2), o) \o Join(file1, Tail(file2), o)
        ELSE Pairs(Group(file1, n1), Group(file2, n2), o)
             \o Join(After(file1, n1), After(file2, n2), o)

-----------------------------------------------------------------------------
(* The commands, one after the other. *)

CONSTANTS
    Sortings,   \* [inputs, flags]: two files and the options of sort
    Merges,     \* [kind, opts]: what is done with the sorted files
    MergedFlags \* the options of sort after which that is tried

VARIABLES
    sortStage,  \* "idle", "lines", "sorted" or "merged"
    inputs, flags,
    sorted,     \* what sort printed for each file
    merge,      \* the command that read it
    printed     \* and its output

sortVars == <<sortStage, inputs, flags, sorted, merge, printed>>

NoMerge == [kind |-> "none", opts |-> <<>>]

SortStart(s, c) ==
    /\ sortStage = s /\ inputs = c.inputs /\ flags = c.flags
    /\ sorted = <<<<>>, <<>>>> /\ merge = NoMerge /\ printed = <<>>

SortInit == \E c \in Sortings : SortStart("lines", c)

SortFiles ==
    /\ sortStage = "lines"
    /\ sorted' = [i \in 1 .. 2 |-> Sort(inputs[i], SortOptions(flags))]
    /\ sortStage' = "sorted"
    /\ UNCHANGED <<inputs, flags, merge, printed>>

(* uniq reads one file. *)
RunUniq(m) == m.kind = "uniq" /\ inputs[2] = <<>> /\ printed' = Uniq(sorted[1], m.opts)
RunComm(m) == m.kind = "comm" /\ printed' = Comm(sorted[1], sorted[2], m.opts)
RunJoin(m) == m.kind = "join" /\ printed' = Join(sorted[1], sorted[2], m.opts)

MergeFiles ==
    /\ sortStage = "sorted" /\ flags \in MergedFlags
    /\ \E m \in Merges :
        /\ RunUniq(m) \/ RunComm(m) \/ RunJoin(m)
        /\ merge' = m
    /\ sortStage' = "merged"
    /\ UNCHANGED <<inputs, flags, sorted>>

SortNext == SortFiles \/ MergeFiles

SortSpec == SortInit /\ [][SortNext]_sortVars
-----------------------------------------------------------------------------
(* Text and months do not mix in one order. *)
Comparable(lines, o) ==
    \A i \in DOMAIN o.specs :
        \/ ~o.specs[i].month \/ o.specs[i].numeric \/ o.specs[i].human
        \/ \A k \in DOMAIN lines : parseMonth(Keys(lines[k], o)[i]).valid

(* Keys that compare equal have the same text. *)
Canonical(lines, o) ==
    \A i, j \in DOMAIN lines :
        CompareLines(lines[i], lines[j], [o EXCEPT !.stable = TRUE]) = 0
            => Keys(lines[i], o) = Keys(lines[j], o)

(* sort prints the lines it read, in an order in which no line is greater  *)
(* than one after it, with lines that compare equal under -s in the order  *)
(* they came in; with -u it prints for every combination of keys exactly   *)
(* one line.  Two things are left out.  Keys that are not months make -M   *)
(* inconsistent: b comes after apr and before feb.  And -u compares the    *)
(* text of keys, so that sort -n -s -u prints 1, 01, 1 unchanged.          *)
SortPrintsInOrder ==
    sortStage = "sorted" =>
        \A f \in 1 .. 2 :
            LET o == SortOptions(flags)
                in == inputs[f]
                out == sorted[f]
            IN  Comparable(in, o) =>
                /\ \A i \in DOMAIN out : \A j \in i + 1 .. Len(out) :
                        CompareLines(out[i], out[j], o) <= 0
                /\ IF flags.unique
                   THEN /\ {Keys(out[i], o) : i \in DOMAIN out} = {Keys(in[i], o) : i \in DOMAIN in}
                        /\ Canonical(in, o) =>
                            \A i, j \in DOMAIN out : Keys(out[i], o) = Keys(out[j], o) => i = j
                        /\ ToSet(out) \subseteq ToSet(in)
                   ELSE \A i \in DOMAIN in :
                            SelectSeq(out, LAMBDA l : CompareLines(l, in[i], o) = 0)
                                = SelectSeq(in, LAMBDA l : CompareLines(l, in[i], o) = 0)

Copies(x, s) == Cardinality({i \in DOMAIN s : s[i] = x})
Ordered(s) == \A i \in DOMAIN s : \A j \in i + 1 .. Len(s) : ~Less(s[j], s[i])

(* Every line of the first file once, with the number of its copies. *)
UniqCounts ==
    LET o == merge.opts
        in == sorted[1]
        Total == FoldLeft(LAMBDA n, item : n + item.count, 0, printed)
    IN  /\ ~o.duplicatesOnly /\ ~o.uniqueOnly => Total = Len(in)
        /\ o.skipFields + o.skipChars + o.checkChars = 0 /\ ~o.ignoreCase /\ Ordered(in) =>
            /\ \A k \in DOMAIN printed :
                    /\ printed[k].count = Copies(printed[k].line, in)
                    /\ \A l \in DOMAIN printed : printed[k].line = printed[l].line => k = l
            /\ \A i \in DOMAIN in :
                    (\E k \in DOMAIN printed : printed[k].line = in[i]) <=>
                        /\ o.duplicatesOnly => Copies(in[i], in) > 1
                        /\ o.uniqueOnly => Copies(in[i], in) = 1

(* Of a line with m and n copies the smaller number is common. *)
CommCounts ==
    LET Expected(x, col) ==
            LET m == Copies(x, sorted[1])
                n == Copies(x, sorted[2])
                both == Min({m, n})
            IN  IF col \in merge.opts THEN 0 ELSE <<m - both, n - both, both>>[col]
    IN  Ordered(sorted[1]) /\ Ordered(sorted[2]) =>
            /\ \A x \in ToSet(sorted[1]) \union ToSet(sorted[2]), col \in 1 .. 3 :
                    Copies([col |-> col, text |-> x], printed) = Expected(x, col)
            /\ Ordered([k \in DOMAIN printed |-> printed[k].text])

(* The pairs of lines with equal keys, and the lines without a partner. *)
JoinIsRelational ==
    LET o == merge.opts
        one == sorted[1]
        two == sorted[2]
        k1 == [i \in DOMAIN one |-> JoinKey(one[i], o.field1)]
        k2 == [j \in DOMAIN two |-> JoinKey(two[j], o.field2)]
        Others(line) == LET fs == Split(line, blank)
                        IN  FlattenSeq([f \in DOMAIN fs |-> IF f = o.field2 THEN <<>> ELSE <<fs[f]>>])
        Paired(i, j) == IF o.output # <<>> THEN formatOutput(one[i], two[j], o)
                        ELSE JoinWith(Split(one[i], blank) \o Others(two[j]), blank)
        pairs == IF o.only # 0 THEN {}
                 ELSE {p \in (DOMAIN one) \X (DOMAIN two) : k1[p[1]] = k2[p[2]]}
        lone1 == IF 1 \notin {o.also, o.only} THEN {}
                 ELSE {i \in DOMAIN one : k1[i] \notin ToSet(k2)}
        lone2 == IF 2 \notin {o.also, o.only} THEN {}
                 ELSE {j \in DOMAIN two : k2[j] \notin ToSet(k1)}
        Expected(x) == Cardinality({p \in pairs : Paired(p[1], p[2]) = x})
                       + Cardinality({i \in lone1 : one[i] = x})
                       + Cardinality({j \in lone2 : two[j] = x})
    IN  Ordered(k1) /\ Ordered(k2) /\ <<>> \notin ToSet(one) \union ToSet(two) =>
            /\ Len(printed) = Cardinality(pairs) + Cardinality(lone1) + Cardinality(lone2)
            /\ \A k \in DOMAIN printed : Copies(printed[k], printed) = Expected(printed[k])

(* On sorted input the single pass of uniq, comm and join computes what a  *)
(* definition without an order says: the multiplicities of the lines       *)
(* (uniq -c, -d, -u), the multiset differences and the intersection        *)
(* (comm), and the equi-join with -a and -v (join).                        *)
MergesAreRelational ==
    /\ sortStage = "merged"
    => /\ merge.kind = "uniq" => UniqCounts
       /\ merge.kind = "comm" => CommCounts
       /\ merge.kind = "join" => JoinIsRelational

(* What sort prints is a stable sorting of what it read, and what uniq,    *)
(* comm and join make of it in one pass is what their definitions without  *)
(* an order say, if it is in the order that they compare lines or keys by. *)
SortIsRight == SortPrintsInOrder /\ MergesAreRelational

=============================================================================
