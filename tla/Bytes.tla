------------------------------- MODULE Bytes -------------------------------
(***************************************************************************)
(* The utilities that work on bytes: dd, uuencode, uudecode, xxd, od,      *)
(* hexdump, strings and rev.                                               *)
(*                                                                         *)
(* A byte is a number from 0 to 255.  Input that is read as it arrives     *)
(* (dd, xxd) comes in pieces, one for each operand: a regular file in one, *)
(* what a pipe brings in several.  The encoded lines of uuencode are made  *)
(* of ASCII codes, those of xxd of the characters of GoStrings, in which   *)
(* the sixteen digits are 1 .. 16.                                         *)
(***************************************************************************)
EXTENDS Filters

Chunked(s, n) ==
    [k \in 1 .. (Len(s) + n - 1) \div n |-> SubSeq(s, (k - 1) * n + 1, Min({k * n, Len(s)}))]
Zeros(n) == [i \in 1 .. n |-> 0]
Arrivals(operands) ==
    LET texts == [i \in DOMAIN operands |-> operands[i].text]
    IN  SelectSeq(texts, LAMBDA t : t # <<>>)

(* Reader.Read takes what has arrived, io.ReadFull as much as it asked for. *)
ReadOnce(pieces, n) ==
    IF pieces = <<>> THEN [data |-> <<>>, rest |-> <<>>]
    ELSE LET left == From(Head(pieces), n + 1)
         IN  [data |-> FirstOf(Head(pieces), n),
              rest |-> (IF left = <<>> THEN <<>> ELSE <<left>>) \o Tail(pieces)]
RECURSIVE ReadFull(_, _)
ReadFull(pieces, n) ==
    LET once == ReadOnce(pieces, n)
        more == ReadFull(once.rest, n - Len(once.data))
    IN  IF once.data = <<>> \/ Len(once.data) = n THEN once
        ELSE [data |-> once.data \o more.data, rest |-> more.rest]
-----------------------------------------------------------------------------
(***************************************************************************)
(* dd.  An operand has a key and a number (its sign, digits and suffix) or *)
(* a list of words.                                                        *)
(***************************************************************************)
ddSuffix == [b |-> 512, k |-> 1024, m |-> 1024 * 1024, w |-> 2, x |-> 1, none |-> 1]

(* A number that does not parse is zero: the error is not looked at. *)
parseInt64(v) ==
    LET base == IF v.suffix = "x" THEN 16 ELSE 10
    IN  IF v.digits = <<>> \/ \E i \in DOMAIN v.digits : v.digits[i] >= base THEN 0
        ELSE v.sign * ddSuffix[v.suffix] * FoldLeft(LAMBDA n, d : base * n + d, 0, v.digits)

ddNumbers == {"bs", "ibs", "obs", "count", "skip", "seek"}
parseOperands(args) ==
    FoldLeft(LAMBDA o, a :
                IF a.key \in ddNumbers THEN [o EXCEPT ![a.key] = parseInt64(a.number)]
                ELSE IF a.key \in {"conv", "iflag"} THEN [o EXCEPT ![a.key] = @ \union ToSet(a.words)]
                ELSE IF a.key = "of" THEN [o EXCEPT !.of = TRUE]
                ELSE o,
             [bs |-> 0, ibs |-> 0, obs |-> 0, count |-> 0, skip |-> 0, seek |-> 0,
              conv |-> {}, iflag |-> {}, of |-> FALSE],
             args)
BlockSize(o, own) == IF o.bs > 0 THEN o.bs ELSE IF own <= 0 THEN 512 ELSE own

RECURSIVE ddSkip(_, _, _)
ddSkip(pieces, n, ibs) ==
    LET read == ReadFull(pieces, ibs)
    IN  IF n <= 0 THEN pieces
        ELSE IF Len(read.data) < ibs THEN read.rest
        ELSE ddSkip(read.rest, n - 1, ibs)

ddPadded(block, o, obs) ==
    IF "sync" \in o.conv /\ Len(block) < obs THEN block \o Zeros(obs - Len(block)) ELSE block

(* What is copied of the pieces: the loop of Run.  broken says that input  *)
(* fails once the pieces are read, and room how much the output can take.  *)
(* With conv=noerror a read that fails is tried again, for ever.           *)
Endless == -1
RECURSIVE ddLoop(_, _, _, _)
ddLoop(pieces, o, in, s) ==
    LET ibs == BlockSize(o, o.ibs)
        obs == BlockSize(o, o.obs)
        byBytes == "count_bytes" \in o.iflag /\ o.count > 0
        read == ReadOnce(pieces, IF byBytes THEN Min({ibs, o.count - s.bytes}) ELSE ibs)
        block == ddPadded(read.data, o, obs)
        fits == Len(s.out) + Len(block) <= in.room
        whole == Len(read.data) = ibs
        full == Len(block) = obs
        next == [bytes |-> s.bytes + Len(read.data),
                 out |-> s.out \o FirstOf(block, in.room - Len(s.out)),
                 inFull |-> s.inFull + (IF whole THEN 1 ELSE 0),
                 inPart |-> s.inPart + (IF whole THEN 0 ELSE 1),
                 outFull |-> s.outFull + (IF fits /\ full THEN 1 ELSE 0),
                 outPart |-> s.outPart + (IF fits /\ ~full THEN 1 ELSE 0),
                 status |-> IF fits THEN 0 ELSE 1]
        last == "count_bytes" \notin o.iflag /\ s.inFull + s.inPart + 1 = o.count
    IN  IF byBytes /\ s.bytes >= o.count THEN s
        ELSE IF read.data = <<>>
        THEN [s EXCEPT !.status = IF ~in.broken THEN 0 ELSE IF "noerror" \in o.conv THEN Endless ELSE 1]
        ELSE IF ~fits \/ last THEN next
        ELSE ddLoop(read.rest, o, in, next)

(* conv=notrunc opens the output for appending, which makes seeking idle.  *)
ddFile(o, old, out) ==
    IF ~o.of THEN out
    ELSE IF "notrunc" \in o.conv THEN old \o out
    ELSE IF out = <<>> \/ o.seek <= 0 THEN out
    ELSE Zeros(o.seek * BlockSize(o, o.obs)) \o out

dd(operands, in) ==
    LET o == parseOperands(in.args)
        s == ddLoop(ddSkip(Arrivals(operands), o.skip, BlockSize(o, o.ibs)), o, in,
                    [bytes |-> 0, out |-> <<>>, inFull |-> 0, inPart |-> 0,
                     outFull |-> 0, outPart |-> 0, status |-> 0])
    IN  IF ~AllExist(operands) THEN Failed(1)
        ELSE [status |-> s.status, out |-> <<[header |-> FALSE, text |-> ddFile(o, in.old, s.out)]>>,
              records |-> s]
-----------------------------------------------------------------------------
(***************************************************************************)
(* uuencode and uudecode.  The words begin and begin-base64 are characters *)
(* of their own, as are the mode and the name behind them; a name may be a *)
(* hyphen.                                                                 *)
(***************************************************************************)
begin == 256
beginBase64 == 257
mode644 == 258
uuEnd == <<101, 110, 100>>
base64End == <<61, 61, 61, 61>>
backquote == 96
lineBytes == 45

uuenc(val) == LET v == (val % 64) + 32 IN IF v = 32 THEN backquote ELSE v
Sextets(b1, b2, b3) ==
    <<b1 \div 4, (b1 % 4) * 16 + b2 \div 16, (b2 % 16) * 4 + b3 \div 64, b3 % 64>>
SextetsOf(data) ==
    LET At(i) == IF i <= Len(data) THEN data[i] ELSE 0
    IN  FlattenSeq([k \in 1 .. (Len(data) + 2) \div 3 |->
                        Sextets(At(3 * k - 2), At(3 * k - 1), At(3 * k))])
encodeTraditionalLine(data) ==
    LET values == SextetsOf(data)
    IN  <<uuenc(Len(data))>> \o [i \in DOMAIN values |-> uuenc(values[i])]

(* base64.StdEncoding: its alphabet, and = for values that are not there.  *)
Base64Char(v) ==
    IF v < 26 THEN 65 + v ELSE IF v < 52 THEN 71 + v ELSE IF v < 62 THEN v - 4
    ELSE IF v = 62 THEN 43 ELSE 47
Base64Value == [c \in {Base64Char(v) : v \in 0 .. 63} |-> CHOOSE v \in 0 .. 63 : Base64Char(v) = c]
padChar == 61
EncodeToString(data) ==
    LET values == SextetsOf(data)
        known == (4 * Len(data) + 2) \div 3
    IN  [i \in DOMAIN values |-> IF i <= known THEN Base64Char(values[i]) ELSE padChar]
OctetsOf(values) ==
    FlattenSeq([k \in 1 .. Len(values) \div 4 |->
        LET V(i) == values[4 * (k - 1) + i]
        IN  <<V(1) * 4 + V(2) \div 16, (V(2) % 16) * 16 + V(3) \div 4, (V(3) % 4) * 64 + V(4)>>])
DecodeString(s) ==
    LET pads == Len(SelectSeq(s, LAMBDA c : c = padChar))
        values == [i \in DOMAIN s |-> IF s[i] = padChar THEN 0 ELSE Base64Value[s[i]]]
        ok == /\ Len(s) % 4 = 0 /\ pads <= 2
              /\ \A i \in DOMAIN s : IF i <= Len(s) - pads THEN s[i] \in DOMAIN Base64Value
                                      ELSE s[i] = padChar
    IN  [ok |-> ok, data |-> IF ok THEN FirstOf(OctetsOf(values), (Len(s) \div 4) * 3 - pads) ELSE <<>>]

(* The operand is the file to read, the name goes into the header. *)
uuencode(operands, o) ==
    LET chunks == Chunked(operands[1].text, lineBytes)
        Header(word) == JoinWith(<<<<word>>, <<mode644>>, <<o.name>>>>, blank)
    IN  IF ~AllExist(operands) THEN Failed(1)
        ELSE Printed1(Println(
                IF o.base64
                THEN <<Header(beginBase64)>> \o [k \in DOMAIN chunks |-> EncodeToString(chunks[k])]
                     \o <<base64End>>
                ELSE <<Header(begin)>> \o [k \in DOMAIN chunks |-> encodeTraditionalLine(chunks[k])]
                     \o <<<<backquote>>, uuEnd>>))

(* Four characters, or the two or three that are there, are three bytes. *)
decodeTraditionalLine(line) ==
    LET decLen == (line[1] - 32) % 64
        chars == Tail(line)
        usable == IF Len(chars) % 4 = 1 THEN Front(chars) ELSE chars
        At(i) == IF i <= Len(usable) THEN usable[i] ELSE 32
        values == [i \in 1 .. 4 * ((Len(usable) + 3) \div 4) |-> (At(i) - 32) % 64]
    IN  FirstOf(OctetsOf(values), decLen)
UntilIn(lines, Stops(_)) ==
    LET at == SelectInSeq(lines, Stops)
    IN  IF at = 0 THEN lines ELSE FirstOf(lines, at - 1)
decodeTraditional(lines) ==
    LET Stops(l) == l = uuEnd \/ (l # <<>> /\ (l[1] - 32) % 64 = 0)
        data == SelectSeq(UntilIn(lines, Stops), LAMBDA l : l # <<>>)
    IN  FlattenSeq([k \in DOMAIN data |-> decodeTraditionalLine(data[k])])
OrCleaned(strict, text) ==
    IF strict.ok THEN strict
    ELSE DecodeString(SelectSeq(text, LAMBDA c : c \in DOMAIN Base64Value \union {padChar}))
decodeText(text) == OrCleaned(DecodeString(text), text)
decodeBase64(lines) ==
    decodeText(FlattenSeq(UntilIn([k \in DOMAIN lines |-> Trim(lines[k])],
                                  LAMBDA l : l \in {base64End, uuEnd})))

IsBegin(line) == Len(line) > 1 /\ line[1] \in {begin, beginBase64} /\ line[2] = blank

(* The data goes to the file -o names, or the header; nothing is written   *)
(* if it cannot be decoded.  That the end is missing is not noticed.       *)
WriteDecoded(decoded, dest, unwritable) ==
    IF ~decoded.ok \/ dest \in unwritable THEN Failed(1)
    ELSE [status |-> 0, out |-> <<[header |-> FALSE, text |-> decoded.data]>>, dest |-> dest]
decodeBody(fields, rest, o) ==
    IF Len(fields) < 3 THEN Failed(1)
    ELSE WriteDecoded(IF fields[1] = <<beginBase64>> THEN decodeBase64(rest)
                      ELSE [ok |-> TRUE, data |-> decodeTraditional(rest)],
                      IF o.out # <<>> THEN o.out ELSE fields[3], o.unwritable)
decodeFrom(lines, at, o) ==
    IF at = 0 THEN Failed(1) ELSE decodeBody(Fields(lines[at]), From(lines, at + 1), o)
decodeLines(lines, o) == decodeFrom(lines, SelectInSeq(lines, LAMBDA l : IsBegin(Trim(l))), o)
uudecode(operands, o) ==
    IF Len(operands) > 1 \/ ~AllExist(operands) THEN Failed(1)
    ELSE decodeLines(Lines(operands[1].text), o)
-----------------------------------------------------------------------------
(***************************************************************************)
(* xxd: what is read at once is a line.  Behind the second column, two     *)
(* blanks and more, the bytes that are characters are shown as such.       *)
(***************************************************************************)
colon == 98
dot == 97
hexDigit(v) == v + 1
hexVal(c) == c - 1
IsHexDigit(c) == c \in 1 .. 16
Hex2(b) == <<hexDigit(b \div 16), hexDigit(b % 16)>>
Hex8(n) == [i \in 1 .. 8 |-> hexDigit(IF i = 1 THEN 0 ELSE (n \div 16 ^ (8 - i)) % 16)]
Blanks(n) == [i \in 1 .. n |-> blank]
AsciiShown(b) ==
    IF b = 32 THEN blank ELSE IF b \in 48 .. 57 THEN b - 47 ELSE IF b = 58 THEN colon
    ELSE IF b \in 33 .. 126 THEN 100 + b ELSE dot
hexOf(data) == FlattenSeq([i \in DOMAIN data |-> Hex2(data[i])])

RECURSIVE ReadAll(_, _)
ReadAll(pieces, n) ==
    LET read == ReadOnce(pieces, n)
    IN  IF read.data = <<>> THEN <<>> ELSE <<read.data>> \o ReadAll(read.rest, n)
Before(parts, k) == Len(FlattenSeq(FirstOf(parts, k - 1)))

dumpPlain(pieces) ==
    LET parts == ReadAll(pieces, 30)
    IN  [k \in DOMAIN parts |-> hexOf(parts[k])]
dumpStandard(pieces) ==
    LET parts == ReadAll(pieces, 16)
        HexColumn(data) == JoinWith([i \in DOMAIN Chunked(data, 2) |-> hexOf(Chunked(data, 2)[i])], blank)
    IN  [k \in DOMAIN parts |->
            Hex8(Before(parts, k)) \o <<colon, blank>>
            \o HexColumn(parts[k]) \o Blanks(39 - Len(HexColumn(parts[k])))
            \o <<blank, blank>> \o [i \in DOMAIN parts[k] |-> AsciiShown(parts[k][i])]]

(* The bytes of a line: bad counts characters that are no digits and       *)
(* follow each other, d holds the first digit of a byte.  A bad character  *)
(* drops the first digit; a second one ends the line.                      *)
RECURSIVE hexBytes(_, _, _)
hexBytes(line, bad, d) ==
    LET c == Head(line)
        rest == Tail(line)
    IN  IF line = <<>> THEN <<>>
        ELSE IF c \in {blank, tab} THEN hexBytes(rest, 0, d)
        ELSE IF ~IsHexDigit(c) THEN (IF bad = 1 THEN <<>> ELSE hexBytes(rest, bad + 1, <<>>))
        ELSE IF d = <<>> THEN hexBytes(rest, 0, <<hexVal(c)>>)
        ELSE <<16 * d[1] + hexVal(c)>> \o hexBytes(rest, 0, <<>>)
reversePlain(lines) == FlattenSeq([k \in DOMAIN lines |-> hexBytes(lines[k], 0, <<>>)])
hexContent(line) ==
    LET after == From(line, SelectInSeq(line, LAMBDA c : c = colon) + 1)
        gaps == {i \in 1 .. Len(after) - 1 : after[i] = blank /\ after[i + 1] = blank}
    IN  IF ~Contains(line, colon) THEN <<>>
        ELSE IF gaps = {} THEN after ELSE FirstOf(after, Min(gaps) - 1)
reverseStandard(lines) ==
    FlattenSeq([k \in DOMAIN lines |-> hexBytes(hexContent(TrimLeft(lines[k])), 0, <<>>)])

(* Operands behind the first are the next pieces of its input. *)
xxd(operands, o) ==
    IF ~AllExist(operands) THEN Failed(1)
    ELSE LET pieces == Arrivals(operands)
             lines == Lines(FlattenSeq(pieces))
         IN  Printed1(IF o.reverse THEN (IF o.plain THEN reversePlain(lines) ELSE reverseStandard(lines))
                      ELSE Println(IF o.plain THEN dumpPlain(pieces) ELSE dumpStandard(pieces)))
-----------------------------------------------------------------------------
(***************************************************************************)
(* od: sixteen bytes are a line, in octal or hexadecimal, as integers of   *)
(* four bytes, or as characters.  The lowest byte of a number comes first. *)
(***************************************************************************)
escape == AsciiShown(92)
escapeLetter == 0 :> 1 @@ 7 :> AsciiShown(97) @@ 8 :> AsciiShown(98) @@ 9 :> AsciiShown(116)
                @@ 10 :> AsciiShown(110) @@ 11 :> AsciiShown(118) @@ 12 :> AsciiShown(102)
                @@ 13 :> AsciiShown(114)
minus == AsciiShown(45)
FixedDigits(n, base, width) == [i \in 1 .. width |-> hexDigit((n \div base ^ (width - i)) % base)]
Wide(text, width) == Blanks(width - Len(text)) \o text
RECURSIVE DigitsIn(_, _)
DigitsIn(n, base) ==
    (IF n < base THEN <<>> ELSE DigitsIn(n \div base, base)) \o <<hexDigit(n % base)>>
LittleEndian(bytes) == FoldLeft(LAMBDA n, b : 256 * n + b, 0, Reverse(bytes))
Signed32(bytes) ==
    IF Len(bytes) = 4 /\ bytes[4] >= 128
    THEN LittleEndian([bytes EXCEPT ![4] = @ - 128]) - 2 ^ 30 - 2 ^ 30 ELSE LittleEndian(bytes)
Decimal(n) == IF n < 0 THEN <<minus>> \o DigitsIn(-n, 10) ELSE DigitsIn(n, 10)

charEscape(b) ==
    IF b = 92 THEN <<blank, escape, escape>>
    ELSE IF b \in DOMAIN escapeLetter THEN <<blank, escape, escapeLetter[b]>>
    ELSE IF b \in 32 .. 126 THEN <<blank, blank, AsciiShown(b)>>
    ELSE <<blank>> \o FixedDigits(b, 8, 3)

(* -t goes before the other flags if it is one of the known types. *)
odTypes == [x1 |-> "hexBytes", x |-> "hexBytes", x2 |-> "hex", o1 |-> "bytes", b |-> "bytes",
            o2 |-> "shorts", o |-> "shorts", c |-> "chars", i |-> "ints", d4 |-> "ints"]
odFormat(o) ==
    IF o.t \in DOMAIN odTypes THEN odTypes[o.t]
    ELSE IF "b" \in o.flags THEN "bytes"
    ELSE IF "c" \in o.flags THEN "chars"
    ELSE IF "x" \in o.flags THEN "hex"
    ELSE IF "i" \in o.flags THEN "ints"
    ELSE "shorts"
odGroup(format) == IF format \in {"hex", "shorts"} THEN 2 ELSE IF format = "ints" THEN 4 ELSE 1
odCell(format, g) ==
    CASE format = "bytes" -> <<blank>> \o FixedDigits(g[1], 8, 3)
      [] format = "chars" -> <<blank>> \o charEscape(g[1])
      [] format = "hexBytes" -> <<blank>> \o FixedDigits(g[1], 16, 2)
      [] format = "hex" -> <<blank>> \o FixedDigits(LittleEndian(g), 16, 4)
      [] format = "shorts" -> <<blank>> \o FixedDigits(LittleEndian(g), 8, 7)
      [] format = "ints" -> Wide(Decimal(Signed32(g)), 12)
odLine(format, offset, data) ==
    LET groups == Chunked(data, odGroup(format))
    IN  FixedDigits(offset, 8, 7) \o FlattenSeq([k \in DOMAIN groups |-> odCell(format, groups[k])])

(* A read that fails, unlike the end of the input, is tried again for ever. *)
RECURSIVE odLoop(_, _, _, _)
odData(read, o, offset) == IF o.limit > 0 THEN FirstOf(read.data, o.limit - offset) ELSE read.data
odNext(rest, data, o, offset, lines) ==
    odLoop(rest, o, offset + Len(data), Append(lines, odLine(odFormat(o), offset, data)))
odRead(read, o, offset, lines) ==
    IF (read.data = <<>> /\ ~o.broken) \/ (o.limit > 0 /\ offset >= o.limit)
    THEN [status |-> 0, lines |-> Append(lines, FixedDigits(offset, 8, 7))]
    ELSE IF read.data = <<>> THEN [status |-> Endless, lines |-> lines]
    ELSE odNext(read.rest, odData(read, o, offset), o, offset, lines)
odLoop(pieces, o, offset, lines) == odRead(ReadFull(pieces, 16), o, offset, lines)
odDone(s) == [status |-> s.status, out |-> <<[header |-> FALSE, text |-> Println(s.lines)]>>]
od(operands, o) ==
    IF ~AllExist(operands) THEN Failed(1) ELSE odDone(odLoop(Arrivals(operands), o, 0, <<>>))
-----------------------------------------------------------------------------
(***************************************************************************)
(* hexdump.  A format is a sequence of units, each done some times on some *)
(* bytes: text, the offset, or the value of the bytes.  A number is filled *)
(* with zeros to its width.                                                *)
(***************************************************************************)
Literal(text) == [k |-> "literal", text |-> text]
AtOffset(conv, width) == [k |-> "offset", conv |-> conv, width |-> width]
ValueAs(conv, width) == [k |-> "value", conv |-> conv, width |-> width]
FormatUnit(times, bytes, actions) == [times |-> times, bytes |-> bytes, actions |-> actions]
Once(actions) == FormatUnit(1, 1, actions)
bar == AsciiShown(124)
canonicalFormat ==
    LET eight == FormatUnit(8, 1, <<ValueAs("x", 2), Literal(<<blank>>)>>)
    IN  <<<<Once(<<AtOffset("x", 8), Literal(<<blank, blank>>)>>), eight, Once(<<Literal(<<blank>>)>>),
            eight, Once(<<Literal(<<blank, bar>>)>>)>>,
          <<FormatUnit(16, 1, <<ValueAs("p", 0)>>), Once(<<Literal(<<bar, newline>>)>>)>>>>
defaultFormat ==
    <<<<Once(<<AtOffset("x", 7)>>), FormatUnit(8, 2, <<Literal(<<blank>>), ValueAs("x", 4)>>),
        Once(<<Literal(<<newline>>)>>)>>>>
getFormatStrings(o) ==
    IF o.canonical THEN canonicalFormat ELSE IF o.formats # <<>> THEN o.formats ELSE defaultFormat

HasValue(u) == \E i \in DOMAIN u.actions : u.actions[i].k = "value"
UsedBy(units) == FoldLeft(LAMBDA n, u : IF HasValue(u) THEN n + u.times * u.bytes ELSE n, 0, units)
blockSizeOf(formats) ==
    LET size == Max({UsedBy(formats[i]) : i \in DOMAIN formats}) IN IF size = 0 THEN 16 ELSE size

hexdumpBase == [x |-> 16, o |-> 8, d |-> 10, u |-> 10]
ZeroFilled(n, conv, width) ==
    LET digits == DigitsIn(n, hexdumpBase[conv])
    IN  [i \in 1 .. width - Len(digits) |-> hexDigit(0)] \o digits
spacePadding(a) == Blanks(IF a.width > 0 THEN a.width ELSE IF a.conv \in {"x", "d"} THEN 2 ELSE 1)
controlShown(b) ==
    IF b \in DOMAIN escapeLetter THEN <<escape, escapeLetter[b]>> ELSE <<escape>> \o FixedDigits(b, 8, 3)
shownValue(a, bytes) ==
    LET b == bytes[1]
    IN  IF bytes = <<>> THEN (IF a.conv \in {"p", "c"} THEN <<>> ELSE spacePadding(a))
        ELSE IF a.conv = "p" THEN <<IF b \in 32 .. 126 THEN AsciiShown(b) ELSE dot>>
        ELSE IF a.conv = "c" THEN Wide(IF b \in 32 .. 126 THEN <<AsciiShown(b)>> ELSE controlShown(b), a.width)
        ELSE ZeroFilled(LittleEndian(bytes), a.conv, a.width)

(* The actions of a unit look at the same bytes, and only a unit that has  *)
(* a value takes them.                                                     *)
formatBlock(units, block, offset) ==
    LET Done(s, u) ==
            LET bytes == SubSeq(block, s.cursor + 1, Min({s.cursor + u.bytes, Len(block)}))
                Act(a) == CASE a.k = "literal" -> a.text
                            [] a.k = "offset" -> ZeroFilled(offset, a.conv, a.width)
                            [] a.k = "value" -> shownValue(a, bytes)
            IN  [cursor |-> IF HasValue(u) THEN s.cursor + u.bytes ELSE s.cursor,
                 text |-> s.text \o FlattenSeq([i \in DOMAIN u.actions |-> Act(u.actions[i])])]
        steps == FlattenSeq([i \in DOMAIN units |-> [j \in 1 .. units[i].times |-> units[i]]])
    IN  FoldLeft(Done, [cursor |-> 0, text |-> <<>>], steps).text
trimLineWhitespaces(text) ==
    LET lines == Split(text, newline)
    IN  JoinWith([i \in DOMAIN lines |-> Reverse(TrimLeft(Reverse(lines[i])))], newline)

star == AsciiShown(42)
RECURSIVE hexdumpLoop(_, _, _, _)
hexdumpShown(formats, data, offset) ==
    trimLineWhitespaces(FlattenSeq([i \in DOMAIN formats |-> formatBlock(formats[i], data, offset)]))
hexdumpFolded(s) == IF s.folded THEN <<>> ELSE <<star, newline>>
hexdumpNext(data, same, formats, s) ==
    [offset |-> s.offset + Len(data), folded |-> same,
     prevBlock |-> IF same THEN s.prevBlock ELSE data,
     out |-> s.out \o (IF same THEN hexdumpFolded(s) ELSE hexdumpShown(formats, data, s.offset))]
hexdumpMore(rest, last, formats, o, s) == IF last THEN s ELSE hexdumpLoop(rest, formats, o, s)
hexdumpBlock(read, size, formats, o, s) ==
    LET same == ~o.verbose /\ Len(read.data) = size /\ read.data = s.prevBlock
    IN  IF read.data = <<>> THEN s
        ELSE hexdumpMore(read.rest, Len(read.data) < size, formats, o, hexdumpNext(read.data, same, formats, s))
hexdumpSized(pieces, size, formats, o, s) == hexdumpBlock(ReadFull(pieces, size), size, formats, o, s)
hexdumpLoop(pieces, formats, o, s) == hexdumpSized(pieces, blockSizeOf(formats), formats, o, s)

(* Output ends with the offset if a format has one; not after an error,    *)
(* and nothing is printed when there is less than should be skipped.       *)
OffsetsIn(formats) ==
    SelectSeq(FlattenSeq([i \in DOMAIN formats |->
                  FlattenSeq([j \in DOMAIN formats[i] |-> formats[i][j].actions])]),
              LAMBDA a : a.k = "offset")
hexdumpTail(offset, offsets) ==
    IF offsets = <<>> THEN <<>>
    ELSE Append(ZeroFilled(offset, Last(offsets).conv, Last(offsets).width), newline)
hexdumpEnd(s, formats, failed) ==
    IF failed THEN [Printed1(s.out) EXCEPT !.status = 1]
    ELSE Printed1(s.out \o hexdumpTail(s.offset, OffsetsIn(formats)))
hexdumpFrom(data, limited, formats, o) ==
    hexdumpEnd(hexdumpLoop(<<IF limited THEN FirstOf(data, o.length) ELSE data>>, formats, o,
                           [offset |-> o.skip, folded |-> FALSE, prevBlock |-> <<>>, out |-> <<>>]),
               formats, o.broken /\ ~limited)
hexdumpOf(all, formats, o) ==
    IF Len(all) < o.skip THEN (IF o.broken THEN Failed(1) ELSE Printed1(<<>>))
    ELSE hexdumpFrom(From(all, o.skip + 1), o.length >= 0 /\ o.length <= Len(all) - o.skip, formats, o)
hexdump(operands, o) ==
    IF ~AllExist(operands) THEN Failed(1)
    ELSE hexdumpOf(FlattenSeq(Arrivals(operands)), getFormatStrings(o), o)
-----------------------------------------------------------------------------
(***************************************************************************)
(* strings: the files are searched as if they were one, and one that       *)
(* cannot be read is left out.  rev: a line ends at a NUL.                 *)
(***************************************************************************)
isPrintable(b) == b \in 32 .. 126 \/ b = 9

(* The printable bytes since the last other one, and where they start. *)
Scan(data, minLen) ==
    LET Ended(s) == IF Len(s.run) >= minLen
                    THEN Append(s.entries, [offset |-> s.start, value |-> s.run]) ELSE s.entries
        Step1(s, i) ==
            IF isPrintable(data[i])
            THEN [s EXCEPT !.run = Append(@, data[i]), !.start = IF @ < 0 THEN i - 1 ELSE @]
            ELSE [entries |-> Ended(s), run |-> <<>>, start |-> -1]
    IN  Ended(FoldLeft(Step1, [entries |-> <<>>, run |-> <<>>, start |-> -1], [i \in DOMAIN data |-> i]))

strings(operands, o) ==
    LET readable == SelectSeq(operands, LAMBDA f : f.exists)
    IN  [status |-> 0, out |-> Scan(Concatenated(readable), IF o.n > 0 THEN o.n ELSE 4)]

nul == 95
cr == 94
Chomped(line, c) == IF line # <<>> /\ Last(line) = c THEN Front(line) ELSE line
ReverseShown(shown, bare) ==
    IF bare = shown THEN Reverse(bare) ELSE Append(Reverse(Chomped(bare, cr)), newline)
revShown(shown) == ReverseShown(shown, Chomped(shown, newline))
revLine(line) == revShown(UntilIn(line, LAMBDA c : c = nul))
revParts(parts) ==
    FlattenSeq([k \in DOMAIN parts |->
                    revLine(IF k < Len(parts) THEN Append(parts[k], newline) ELSE parts[k])])
revOf(text) == revParts(Split(text, newline))
rev(operands) ==
    LET opened == SelectSeq(operands, LAMBDA f : f.exists)
    IN  [status |-> IF AllExist(operands) THEN 0 ELSE 1,
         out |-> <<[header |-> FALSE, text |-> FlattenSeq([i \in DOMAIN opened |-> revOf(opened[i].text)])]>>]
=============================================================================
