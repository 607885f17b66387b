--------------------------- MODULE FilterPipeline ---------------------------
(***************************************************************************)
(* A filter on files and, for some, a second one on what it printed.       *)
(***************************************************************************)
EXTENDS Bytes

CONSTANT
    Pipelines  \* [operands, first, then], with filters [tool, opts]

VARIABLES
    filterStage,  \* "idle", "files", "first" or "second"
    piped,        \* the pipeline
    filtered      \* what the last filter returned

filterVars == <<filterStage, piped, filtered>>

NoFilter == [tool |-> "none", opts |-> <<>>]

FilterStart(s, p) == filterStage = s /\ piped = p /\ filtered = Failed(0)
FilterInit == \E p \in Pipelines : FilterStart("files", p)

(* What arrives of an encoded text: some lines, the last one maybe cut,    *)
(* the one that ends the data maybe gone, a stray character in the first.  *)
Shortened(lines, lost) ==
    IF lost = 0 \/ lines = <<>> THEN lines
    ELSE Append(Front(lines), FirstOf(Last(lines), Max({0, Len(Last(lines)) - lost})))
LosingEnd(lines, bare) == SelectSeq(lines, LAMBDA l : ~bare \/ l # <<backquote>>)
Strayed(lines, stray) ==
    [k \in DOMAIN lines |-> IF k = 2 /\ stray THEN Append(lines[k], 33) ELSE lines[k]]
Arriving(operands, o) ==
    LET Came(lines) == Strayed(LosingEnd(Shortened(FirstOf(lines, o.arrive), o.cut), o.bare), o.stray)
    IN  IF ~AllExist(operands) THEN operands
        ELSE [operands EXCEPT ![1].text = Println(Came(Lines(@)))]

Filter(f, operands) ==
    CASE f.tool = "head" -> head(operands, f.opts)
      [] f.tool = "tail" -> tail(operands, f.opts)
      [] f.tool = "cat" -> cat(operands, f.opts)
      [] f.tool = "nl" -> nl(operands, f.opts)
      [] f.tool = "cut" -> cut(operands, f.opts)
      [] f.tool = "paste" -> paste(operands, f.opts)
      [] f.tool = "tr" -> tr(operands, f.opts)
      [] f.tool = "fold" -> fold(operands, f.opts)
      [] f.tool = "expand" -> expand(operands, f.opts)
      [] f.tool = "unexpand" -> unexpand(operands, f.opts)
      [] f.tool = "split" -> split(operands, f.opts)
      [] f.tool = "tsort" -> tsort(operands)
      [] f.tool = "cmp" -> cmp(operands, f.opts)
      [] f.tool = "wc" -> wc(operands)
      [] f.tool = "dd" -> dd(operands, f.opts)
      [] f.tool = "uuencode" -> uuencode(operands, f.opts)
      [] f.tool = "uudecode" -> uudecode(Arriving(operands, f.opts), f.opts)
      [] f.tool = "xxd" -> xxd(operands, f.opts)
      [] f.tool = "od" -> od(operands, f.opts)
      [] f.tool = "hexdump" -> hexdump(operands, f.opts)
      [] f.tool = "strings" -> strings(operands, f.opts)
      [] f.tool = "rev" -> rev(operands)

Printing1 == [i \in DOMAIN filtered.out |->
                [exists |-> TRUE, stdin |-> FALSE, text |-> filtered.out[i].text]]

(* What may run now: the first filter, then the second if that worked. *)
Runnable ==
    IF filterStage = "files"
    THEN {[stage |-> "first", filter |-> piped.first, operands |-> piped.operands]}
    ELSE IF filterStage = "first" /\ piped.then # NoFilter /\ filtered.status = 0
    THEN {[stage |-> "second", filter |-> piped.then, operands |-> Printing1]}
    ELSE {}

RunFilter ==
    /\ \E r \in Runnable :
        /\ filterStage' = r.stage
        /\ filtered' = Filter(r.filter, r.operands)
    /\ UNCHANGED piped

FilterNext == RunFilter

FilterSpec == FilterInit /\ [][FilterNext]_filterVars
-----------------------------------------------------------------------------
given == piped.first.opts
text1 == piped.operands[1].text
output == filtered.out[1].text

(* Together head and tail print every line, or every byte, once; tail      *)
(* -c 0, which prints ten lines, is left out.                              *)
HeadAndTail(text, o) ==
    LET Rest(unit, n, fromStart) == tailOf(text, [unit |-> unit, n |-> n, fromStart |-> fromStart])
    IN  CASE o.unit = "lines" -> headOf(text, o) \o Rest("lines", o.n + 1, TRUE) = Println(Lines(text))
          [] o.unit = "bytes" -> headOf(text, o) \o Rest("bytes", o.n + 1, TRUE) = text
          [] o.unit = "butlast" -> headOf(text, o) \o Rest("lines", o.n, FALSE) = Println(Lines(text))
TailIsSuffix(text, o, t) ==
    o.unit = "bytes" /\ o.n > 0 => IsSuffix(t, text) /\ (o.fromStart \/ Len(t) = Min({o.n, Len(text)}))

(* Numbers follow each other, and the lines that should have one do. *)
Numbering(lines, from, Wanted(_)) ==
    LET numbered == SelectSeq(lines, LAMBDA l : l.number # Unnumbered)
    IN  /\ \A k \in DOMAIN numbered : numbered[k].number = from + k - 1
        /\ \A k \in DOMAIN lines : Wanted(lines[k].line) <=> lines[k].number # Unnumbered
CatIsRight(lines, in, o) ==
    LET Bare == [k \in DOMAIN lines |-> lines[k].line]
        Kept == {k \in DOMAIN in : o.squeeze /\ IsBlank(in[k]) => k = 1 \/ ~IsBlank(in[k - 1])}
        Wanted(l) == o.number = "all" \/ (o.number = "nonblank" /\ ~IsBlank(l))
    IN  /\ Len(Bare) = Cardinality(Kept)
        /\ \A k \in Kept : Bare[Cardinality({j \in Kept : j <= k})] = in[k]
        /\ Numbering(lines, 1, Wanted)
NlIsRight(lines, in, o) ==
    LET Wanted(l) == o.body = "a" \/ (o.body = "t" /\ ~IsBlank(l))
    IN  /\ [k \in DOMAIN lines |-> lines[k].line] = in
        /\ o.start >= 1 => Numbering(lines, o.start, Wanted)

(* A list from 1 to n and one from n + 1 on have every character once; a   *)
(* list in ascending order selects the fields it contains.                 *)
CutIsRight(in, out, o) ==
    LET Rest(l) == cutLine(l, [o EXCEPT !.list = <<[start |-> o.list[1].end + 1, end |-> 99]>>])[1]
        ascending == \A i \in 1 .. Len(o.list) - 1 : o.list[i].end < o.list[i + 1].start
        Wanted(parts) == {i \in DOMAIN parts : inRange(i, o.list)}
        Counted(l) == LET parts == Split(l, o.delimiter)
                      IN  Max({1, Cardinality(Wanted(parts))})
    IN  /\ o.by = "chars" /\ Len(o.list) = 1 /\ o.list[1].start = 1 =>
                [k \in DOMAIN in |-> out[k] \o Rest(in[k])] = in
        /\ o.by = "fields" /\ ascending /\ o.onlyDelimited /\ ~o.noSuppress =>
                LET delimited == SelectSeq(in, LAMBDA l : Contains(l, o.delimiter))
                IN  /\ Len(out) = Len(delimited)
                    /\ \A k \in DOMAIN out : Len(Split(out[k], o.delimiter)) = Counted(delimited[k])

(* No cut piece is wider than it may be, none is shorter than it must be,  *)
(* and together they are the line; -s cuts after the last blank before the *)
(* word that does not fit, and may drop one blank for each cut.            *)
FoldIsRight(line, pieces, o) ==
    LET Width(p) == IF o.bytes THEN Len(p) ELSE ColumnAfter(0, p, 8)
        together == FlattenSeq(pieces)
        Solid(s) == SelectSeq(s, LAMBDA c : c # blank)
    IN  /\ \A k \in DOMAIN pieces : Width(pieces[k]) <= o.width \/ Len(pieces[k]) = 1
        /\ IF o.spaces
           THEN /\ Solid(together) = Solid(line)
                /\ Len(line) - Len(together) < Len(pieces)
                /\ \A k \in 1 .. Len(pieces) - 1 :
                        Contains(pieces[k], blank) =>
                            /\ Last(pieces[k]) = blank
                            /\ ~Contains(line, tab) =>
                                Width(pieces[k]) + Len(Head(Split(pieces[k + 1], blank))) >= o.width
           ELSE /\ together = line
                /\ \A k \in 1 .. Len(pieces) - 1 :
                        Width(Append(pieces[k], pieces[k + 1][1])) > o.width

(* Deleted characters are gone, squeezed ones not repeated, and the last   *)
(* place a character is listed at says what it becomes.                    *)
TrIsRight(out, o) ==
    LET l1 == expandSetList(o.set1)
        l2 == expandSetList(o.set2)
        s1 == ToSet(l1)
        s2 == ToSet(l2)
        Becomes(c, d) == \E k \in DOMAIN l1 : /\ l1[k] = c /\ \A j \in k + 1 .. Len(l1) : l1[j] # c
                                             /\ d = IF k <= Len(l2) THEN l2[k] ELSE Last(l2)
        In1(c) == (c \in s1) # o.complement
    IN  /\ o.delete => \A i \in DOMAIN out : ~In1(out[i])
        /\ o.squeeze => \A i \in 1 .. Len(out) - 1 :
                out[i] = out[i + 1] => IF s2 # {} THEN out[i] \notin s2 ELSE ~In1(out[i])
        /\ o.delete /\ ~o.squeeze => out = SelectSeq(text1, LAMBDA c : ~In1(c))
        /\ ~o.delete /\ ~o.squeeze /\ s2 # {} =>
                /\ Len(out) = Len(text1)
                /\ \A i \in DOMAIN out : IF ~In1(text1[i]) THEN out[i] = text1[i]
                                         ELSE IF o.complement THEN out[i] = Last(l2)
                                         ELSE Becomes(text1[i], out[i])

(* Nodes that are in or behind a cycle have a set with a predecessor for   *)
(* each of its members; the others are printed, after their predecessors.  *)
TsortIsRight(words) ==
    LET nodes == ToSet(words)
        edges == ToSet(Pairing(words))
        stuck == UNION {S \in SUBSET nodes : \A v \in S : \E u \in S : <<u, v>> \in edges}
        Position(v) == CHOOSE i \in DOMAIN filtered.out : filtered.out[i] = v
    IN  Len(words) % 2 = 0 =>
            /\ filtered.status = 0 <=> stuck = {}
            /\ ToSet(filtered.out) = nodes \ stuck
            /\ Len(filtered.out) = Cardinality(nodes \ stuck)
            /\ \A e \in edges : e[2] \notin stuck => Position(e[1]) < Position(e[2])

(* The first difference is reported.  (Its line is one too high if the     *)
(* first file has a newline there.)                                        *)
CmpIsRight(f, g, found) ==
    /\ found = <<>> <=> f = g
    /\ found # <<>> => LET at == found[1].byte
                       IN  /\ FirstOf(f, at - 1) = FirstOf(g, at - 1)
                           /\ FirstOf(f, at) # FirstOf(g, at)
                           /\ (at > Len(f) \/ f[at] # newline) =>
                                found[1].line = Len(Split(FirstOf(f, at - 1), newline))

WcIsRight(text, c) ==
    /\ c.words = Len(Fields(text))
    /\ c.lines = Len(Split(text, newline)) - 1
    /\ c.longest = Max({Len(l) : l \in ToSet(Split(text, newline))})

(* dd copies what is behind the skipped blocks, in order: all of it, the   *)
(* bytes that count_bytes asks for or, of a file, the blocks.  With sync   *)
(* only NULs are added, up to whole blocks; a full output, and input that  *)
(* fails, are reported (unless noerror, which then never ends).            *)
DdIsRight(all, o, in) ==
    LET Size(own) == Head(SelectSeq(<<o.bs, own, 512>>, LAMBDA n : n > 0))
        ibs == Size(o.ibs)
        obs == Size(o.obs)
        skipped == Min({Max({o.skip, 0}) * ibs, Len(all)})
        available == Len(all) - skipped
        copied == filtered.records.out
        Solid(s) == SelectSeq(s, LAMBDA b : b # 0)
        limit == IF o.count <= 0 THEN available
                 ELSE Min({available, o.count * (IF "count_bytes" \in o.iflag THEN 1 ELSE ibs)})
        known == o.count <= 0 \/ "count_bytes" \in o.iflag \/ Len(piped.operands) = 1
        wanted == SubSeq(all, skipped + 1, skipped + limit)
        full == Len(copied) = in.room
        sync == "sync" \in o.conv
    IN  /\ IsPrefix(Solid(copied), Solid(wanted))
        /\ ~sync => IsPrefix(copied, wanted)
        /\ filtered.status = 0 /\ known => Solid(copied) = Solid(wanted) /\ (~sync => copied = wanted)
        /\ filtered.status = 0 /\ sync /\ ibs <= obs =>
                Len(copied) = obs * (filtered.records.inFull + filtered.records.inPart)
        /\ filtered.status = 1 => full \/ in.broken
        /\ filtered.status = Endless => in.broken /\ "noerror" \in o.conv
        /\ filtered.status = 0 /\ in.broken => o.count > 0 /\ limit <= available
        /\ Len(copied) <= in.room
        /\ o.of => output = IF "notrunc" \in o.conv THEN in.old \o copied
                           ELSE IF copied = <<>> THEN <<>>
                           ELSE Zeros(Max({o.seek, 0}) * obs) \o copied

(* Encoded lines are short and have no character a mail system changes. *)
UuencodeIsRight(text, o) ==
    LET body == Tail(Lines(text))
    IN  \A k \in DOMAIN body :
            /\ Len(body[k]) <= 61 /\ body[k] # <<>>
            /\ \A i \in DOMAIN body[k] : body[k][i] \in 33 .. 122

Unhurt(came, bytes, lost) ==
    LET ofLast == bytes - (came - 2) * lineBytes
        chars == Max({0, 4 * ((ofLast + 2) \div 3) - lost})
    IN  IF lost = 0 \/ came < 2 THEN bytes
        ELSE (came - 2) * lineBytes + Min({ofLast, (3 * chars) \div 4})
Agree(a, b, n) == FirstOf(a, n) = FirstOf(b, n)
DecodedIsRight(o, came, bytes) ==
    /\ filtered.status = 0
    /\ filtered.dest = IF o.out = <<>> THEN <<given.name>> ELSE o.out
    /\ Agree(output, text1, Unhurt(came, bytes, o.cut))
    /\ Len(output) <= bytes
    /\ o.cut = 0 => Len(output) = bytes
(* Of a text that lost its end the lines that arrived are decoded; of a    *)
(* line that lost its end, the bytes all of whose bits arrived.  A text    *)
(* without a header is refused.                                            *)
UudecodeIsRight(o) ==
    LET came == Min({o.arrive, 1 + Len(Chunked(text1, lineBytes))})
    IN  IF o.arrive = 0 THEN filtered.status = 1
        ELSE IF o.out \in o.unwritable THEN filtered.status = 1
        ELSE IF o.cut > 0 /\ (given.base64 \/ o.arrive > 1 + Len(Chunked(text1, lineBytes))) THEN TRUE
        ELSE IF o.cut > 0 /\ o.arrive = 1 THEN TRUE
        ELSE DecodedIsRight(o, came, Min({Len(text1), (came - 1) * lineBytes}))

(* A dump has the offset of every line in front of it. *)
XxdIsRight(all, lines) ==
    LET Value(digits) == FoldLeft(LAMBDA n, c : 16 * n + c - 1, 0, digits)
        BytesOf(ls) == FoldLeft(LAMBDA n, l : n + Len(l) - 51, 0, ls)
    IN  /\ \A k \in DOMAIN lines : Value(FirstOf(lines[k], 8)) = BytesOf(FirstOf(lines, k - 1))
        /\ BytesOf(lines) = Len(all)

(* Two bad characters side by side end a line, others separate it; what is *)
(* between them is pairs of digits.                                        *)
HexIsRight(line, bytes) ==
    LET Bad(c) == ~IsHexDigit(c) /\ ~IsSpace(c)
        ends == {i \in 1 .. Len(line) - 1 : Bad(line[i]) /\ Bad(line[i + 1])}
        used == IF ends = {} THEN line ELSE FirstOf(line, Min(ends) - 1)
        runs == SplitWhere(SelectSeq(used, LAMBDA c : ~IsSpace(c)), Bad)
        Pairs(r) == [i \in 1 .. Len(r) \div 2 |-> 16 * (r[2 * i - 1] - 1) + r[2 * i] - 1]
    IN  bytes = FlattenSeq([k \in DOMAIN runs |-> Pairs(runs[k])])

(* A dump read back has the bytes, with the offset in front of every line  *)
(* and at the end; input that fails before the limit is read for ever.     *)
ValueIn(digits, base) == FoldLeft(LAMBDA n, c : base * n + c - 1, 0, digits)
BytesOfValue(v, size) == [i \in 1 .. size |-> (v \div 256 ^ (i - 1)) % 256]
RECURSIVE CharsBack(_)
CharsBack(cells) ==
    LET c == cells[3]
        rest == From(cells, IF c # blank /\ c # escape THEN 6 ELSE 5)
        back == {b \in 0 .. 255 : charEscape(b) = SubSeq(cells, 2, Len(cells) - Len(rest))}
    IN  IF cells = <<>> THEN <<>>
        ELSE <<IF Cardinality(back) = 1 THEN Min(back) ELSE -1>> \o CharsBack(rest)
NumbersBack(cells, base, size) ==
    LET words == Fields(cells)
        Value(w) == IF w[1] = minus THEN -ValueIn(Tail(w), base) ELSE ValueIn(w, base)
    IN  FlattenSeq([i \in DOMAIN words |-> BytesOfValue(Value(words[i]), size)])
ReadsBack(back, data, size) ==
    /\ FirstOf(back, Len(data)) = data
    /\ Len(back) - Len(data) \in 0 .. size - 1 /\ ToSet(From(back, Len(data) + 1)) \subseteq {0}
OdIsRight(all, o) ==
    LET shown == IF o.limit > 0 THEN FirstOf(all, o.limit) ELSE all
        lines == Lines(output)
        parts == Chunked(shown, 16)
        format == odFormat(o)
        size == odGroup(format)
        base == IF format \in {"hex", "hexBytes"} THEN 16 ELSE IF format = "ints" THEN 10 ELSE 8
        Back(cells) == IF format = "chars" THEN CharsBack(cells) ELSE NumbersBack(cells, base, size)
    IN  IF o.broken /\ (o.limit <= 0 \/ Len(all) < o.limit) THEN filtered.status = Endless
        ELSE /\ filtered.status = 0 /\ Len(lines) = Len(parts) + 1
             /\ \A k \in DOMAIN parts : /\ ValueIn(FirstOf(lines[k], 7), 8) = 16 * (k - 1)
                                        /\ ReadsBack(Back(From(lines[k], 8)), parts[k], size)
             /\ Len(Last(lines)) = 7 /\ ValueIn(Last(lines), 8) = Len(shown)

(* A star stands for the block before it, up to the next offset; blocks    *)
(* that are alike are printed once.  o.cell says how the values look.      *)
HexdumpIsRight(all, o) ==
    LET skipped == From(all, o.skip + 1)
        shown == IF o.length >= 0 THEN FirstOf(skipped, o.length) ELSE skipped
        fails == o.broken /\ (Len(all) < o.skip \/ o.length < 0 \/ o.length > Len(skipped))
        lines == Lines(output)
        At(k) == ValueIn(Fields(lines[k])[1], 16) - o.skip
        Cells(k) == LET line == UntilIn(lines[k], LAMBDA c : o.canonical /\ c = bar) IN From(line, Len(Fields(line)[1]) + 1)
        CharBack(w) == {b \in 0 .. 255 : shownValue(ValueAs("c", 0), <<b>>) = w}
        Chars1(k) == LET words == Fields(Cells(k)) IN [i \in DOMAIN words |->
            IF Cardinality(CharBack(words[i])) = 1 THEN Min(CharBack(words[i])) ELSE -1]
        Block(k) == IF o.cell.conv = "c" THEN Chars1(k) ELSE NumbersBack(Cells(k), hexdumpBase[o.cell.conv], o.cell.bytes)
        Shown(k) == Front(From(lines[k], SelectInSeq(lines[k], LAMBDA c : c = bar) + 1))
        IsStar(k) == lines[k] = <<star>>
        Repeated(data, size, n) == data \o [i \in 1 .. n - Len(data) |-> data[Len(data) - size + ((i - 1) % size) + 1]]
        whole == FoldLeft(LAMBDA data, k : IF IsStar(k) THEN Repeated(data, o.cell.block, At(k + 1)) ELSE data \o Block(k),
                          <<>>, [k \in 1 .. Len(lines) - 1 |-> k])
    IN  /\ filtered.status = IF fails THEN 1 ELSE 0
        /\ Len(all) < o.skip => filtered.out = <<>> \/ output = <<>>
        /\ ~fails /\ Len(all) >= o.skip =>
            /\ At(Len(lines)) = Len(shown) /\ ReadsBack(whole, shown, o.cell.bytes)
            /\ \A k \in 1 .. Len(lines) - 1 : ~IsStar(k) =>
                    /\ At(k) % o.cell.block = 0
                    /\ o.canonical => Shown(k) = [i \in 1 .. Min({16, Len(shown) - At(k)}) |->
                            LET b == shown[At(k) + i] IN IF b \in 32 .. 126 THEN AsciiShown(b) ELSE dot]
            /\ IF o.verbose THEN \A k \in 1 .. Len(lines) : ~IsStar(k)
               ELSE \A k \in 1 .. Len(lines) - 2 : ~IsStar(k) /\ ~IsStar(k + 1) =>
                        At(k + 1) + o.cell.block > Len(shown) \/ Block(k) # Block(k + 1)

(* What is found are the longest runs of printable bytes that are long     *)
(* enough, in order.                                                       *)
StringsAreRight(data, n) ==
    LET Run(i, j) == /\ \A k \in i .. j : isPrintable(data[k])
                     /\ i = 1 \/ ~isPrintable(data[i - 1])
                     /\ j = Len(data) \/ ~isPrintable(data[j + 1])
        runs == {<<i, j>> \in (DOMAIN data) \X (DOMAIN data) : i <= j /\ j - i + 1 >= n /\ Run(i, j)}
    IN  /\ {<<e.offset + 1, e.offset + Len(e.value)>> : e \in ToSet(filtered.out)} = runs
        /\ \A k \in DOMAIN filtered.out : LET e == filtered.out[k]
                                         IN  e.value = SubSeq(data, e.offset + 1, e.offset + Len(e.value))
        /\ \A k \in 1 .. Len(filtered.out) - 1 : filtered.out[k].offset < filtered.out[k + 1].offset

(* Lines keep their places; what is behind a NUL is lost, the newline too. *)
RevIsRight(text) ==
    /\ ToSet(text) \cap {nul, cr} = {} =>
            /\ Len(output) = Len(text)
            /\ \A i \in DOMAIN text : text[i] = newline <=> output[i] = newline
    /\ nul \notin ToSet(text) =>
            /\ Len(Split(output, newline)) = Len(Split(text, newline))
            /\ Len(text) - Len(output) =
                    Cardinality({i \in 1 .. Len(text) - 1 : text[i] = cr /\ text[i + 1] = newline})
    /\ nul \notin ToSet(output)

(* One filter is right on its own terms. *)
FirstIsRight ==
    CASE piped.first.tool = "head" -> HeadAndTail(text1, given)
      [] piped.first.tool = "tail" -> filtered.out # <<>> => TailIsSuffix(text1, given, output)
      [] piped.first.tool = "cat" ->
            filtered.status = 0 /\ (given.number # "none" \/ given.squeeze) =>
                \A i \in DOMAIN filtered.out : CatIsRight(filtered.out[i], Lines(piped.operands[i].text), given)
      [] piped.first.tool = "nl" -> NlIsRight(filtered.out[1], Lines(text1), given)
      [] piped.first.tool = "cut" -> filtered.status = 0 => CutIsRight(Lines(text1), Lines(output), given)
      [] piped.first.tool = "fold" -> FoldIsRight(text1, Split(output, newline), given)
      [] piped.first.tool = "tr" -> TrIsRight(output, given)
      [] piped.first.tool = "unexpand" -> Len(output) <= Len(text1)
      [] piped.first.tool = "tsort" -> TsortIsRight(Fields(text1))
      [] piped.first.tool = "cmp" ->
            LET n == IF given.limit < 0 THEN 99 ELSE given.limit
            IN  CmpIsRight(FirstOf(text1, n), FirstOf(piped.operands[2].text, n), filtered.out)
      [] piped.first.tool = "wc" -> filtered.status = 0 => WcIsRight(text1, filtered.out[1])
      [] piped.first.tool = "dd" -> DdIsRight(Concatenated(piped.operands), parseOperands(given.args), given)
      [] piped.first.tool = "uuencode" -> UuencodeIsRight(output, given)
      [] piped.first.tool = "xxd" ->
            IF given.reverse THEN given.plain => HexIsRight(text1, output)
            ELSE IF given.plain THEN \A l \in ToSet(Lines(output)) : Len(l) <= 60
            ELSE XxdIsRight(Concatenated(piped.operands), Lines(output))
      [] piped.first.tool = "od" -> OdIsRight(Concatenated(piped.operands), given)
      [] piped.first.tool = "hexdump" -> HexdumpIsRight(Concatenated(piped.operands), given)
      [] piped.first.tool = "strings" ->
            StringsAreRight(Concatenated(piped.operands), IF given.n > 0 THEN given.n ELSE 4)
      [] piped.first.tool = "rev" -> RevIsRight(Concatenated(piped.operands))
      [] OTHER -> TRUE

(* The second undoes the first: expand has unexpand's columns back, cat    *)
(* the file that split cut (if the suffixes last), cut the columns that    *)
(* paste joined (if no row ends in an empty field, which paste drops), tr  *)
(* with the sets exchanged the text, uudecode what arrived of it encoded,  *)
(* xxd -r the bytes however they were read, and rev the text.              *)
SecondUndoes ==
    LET columns == [i \in DOMAIN piped.operands |-> Lines(piped.operands[i].text)]
        k == piped.then.opts.list[1].start
    IN  CASE piped.first.tool = "unexpand" -> output = expand(piped.operands, piped.then.opts).out[1].text
          [] piped.first.tool = "split" ->
                IF given.unit = "bytes"
                THEN Len(text1) < given.size * suffixDigits ^ given.suffixLen => output = text1
                ELSE Len(Lines(text1)) <= given.size * suffixDigits ^ given.suffixLen
                        => output = Println(Lines(text1))
          [] piped.first.tool = "paste" ->
                /\ \A i \in DOMAIN columns : Len(columns[i]) = Len(columns[1])
                /\ <<>> \notin ToSet(Last(columns))
                => output = Println(columns[k])
          [] piped.first.tool = "tr" ->
                ToSet(text1) \subseteq ToSet(given.set1) => output = text1
          [] piped.first.tool = "uuencode" -> UudecodeIsRight(piped.then.opts)
          [] piped.first.tool = "xxd" -> output = Concatenated(piped.operands)
          [] piped.first.tool = "rev" -> ToSet(text1) \cap {nul, cr} = {} => output = text1

(* Every filter does what its definition without an algorithm says, and    *)
(* pipelines that should leave a text as it was do; the bytes can be read  *)
(* back from what od and hexdump print of them.  The exit status tells     *)
(* whether all operands were read, except for expand and strings, which do *)
(* not look.                                                               *)
FiltersAreRight ==
    /\ filterStage = "first" =>
        /\ ~AllExist(piped.operands) /\ piped.first.tool \notin {"expand", "nl", "strings"} => filtered.status # 0
        /\ AllExist(piped.operands) => FirstIsRight
    /\ filterStage = "second" => SecondUndoes
=============================================================================
