----------------------------- MODULE Formatters -----------------------------
(***************************************************************************)
(* The utilities that print what they are given or what the clock says:    *)
(* echo and printf with the escapes they share, date with its time zones,  *)
(* and cal.                                                                *)
(*                                                                         *)
(* Text is a sequence of ASCII codes; notice stands for a message that     *)
(* printf writes between its output.  A format, a time zone and a date are *)
(* sequences of the items their parsers find.                              *)
(***************************************************************************)
EXTENDS GoWords, GoStrings, FiniteSetsExt, TLC

backslash == 92
lineFeed == 10
space == 32
notice == 256
badVerb == 257

(* What strconv.ParseUint makes of digits, and the digits at the front. *)
DigitOf(c) ==
    IF c \in 48 .. 57 THEN c - 48 ELSE IF c \in 97 .. 102 THEN c - 87
    ELSE IF c \in 65 .. 70 THEN c - 55 ELSE 99
DigitRun(s, base, most) ==
    LET count == Max({n \in 0 .. Min({most, Len(s)}) : \A i \in 1 .. n : DigitOf(s[i]) < base})
    IN  SubSeq(s, 1, count)
ParseUint(digits, base) == FoldLeft(LAMBDA n, c : base * n + DigitOf(c), 0, digits)
Codes(n, base) == LET d == n % base IN IF d < 10 THEN 48 + d ELSE 87 + d
RECURSIVE FormatUint(_, _)
FormatUint(n, base) ==
    (IF n < base THEN <<>> ELSE FormatUint(n \div base, base)) \o <<Codes(n, base)>>
-----------------------------------------------------------------------------
(* Escapes: \c stays for the caller, an octal number that is no byte is a  *)
(* NUL before its digits, and \1 to \7 are octal only in arguments.        *)
namedEscape ==
    110 :> 10 @@ 116 :> 9 @@ 114 :> 13 @@ 92 :> 92 @@ 97 :> 7 @@ 98 :> 8 @@ 102 :> 12 @@ 118 :> 11

RECURSIVE ExpandEscapes(_, _)
ExpandEscapes(s, mode) ==
    LET c == s[2]
        After(n) == ExpandEscapes(SubSeq(s, n + 1, Len(s)), mode)
        hex == DigitRun(SubSeq(s, 3, Len(s)), 16, 2)
        zero == DigitRun(SubSeq(s, 3, Len(s)), 8, 3)
        octal == DigitRun(Tail(s), 8, 3)
    IN  IF s = <<>> THEN <<>>
        ELSE IF s[1] # backslash \/ Len(s) = 1 THEN <<s[1]>> \o After(1)
        ELSE IF c \in DOMAIN namedEscape THEN <<namedEscape[c]>> \o After(2)
        ELSE IF c = 120 /\ hex # <<>> THEN <<ParseUint(hex, 16)>> \o After(2 + Len(hex))
        ELSE IF c = 48
        THEN IF zero # <<>> /\ ParseUint(zero, 8) < 256
             THEN <<ParseUint(zero, 8)>> \o After(2 + Len(zero)) ELSE <<0>> \o After(2)
        ELSE IF mode = "arg" /\ c \in 49 .. 55 THEN <<ParseUint(octal, 8) % 256>> \o After(1 + Len(octal))
        ELSE <<backslash, c>> \o After(2)

(* echo: a word of the letters n, e and E alone is a group of flags.  Each *)
(* group says anew whether there is a newline.                             *)
jsonFlag == <<45, 45, 106>>
IsEchoGroup(a) == Len(a) >= 2 /\ a[1] = 45 /\ \A i \in 2 .. Len(a) : a[i] \in {110, 101, 69}
parseEchoFlags(args) ==
    LET IsWord(a) == ~IsEchoGroup(a) /\ a # jsonFlag
        first == IF \E i \in DOMAIN args : IsWord(args[i]) THEN SelectInSeq(args, IsWord) ELSE Len(args) + 1
        Applied(f, a) ==
            LET e == SelectSeq(a, LAMBDA c : c \in {101, 69})
            IN  IF a = jsonFlag THEN [f EXCEPT !.json = TRUE]
                ELSE [f EXCEPT !.noNewline = 110 \in ToSet(a),
                               !.escape = IF e = <<>> THEN @ ELSE Last(e) = 101]
    IN  [flags |-> FoldLeft(Applied, [noNewline |-> FALSE, escape |-> FALSE, json |-> FALSE],
                            SubSeq(args, 1, first - 1)),
         words |-> SubSeq(args, first, Len(args))]
echo(args) ==
    LET p == parseEchoFlags(args)
        joined == JoinWith(p.words, space)
        text == IF p.flags.escape THEN ExpandEscapes(joined, "arg") ELSE joined
    IN  [status |-> 0, json |-> p.flags.json,
         out |-> IF p.flags.noNewline \/ p.flags.json THEN text ELSE Append(text, lineFeed)]
-----------------------------------------------------------------------------
(***************************************************************************)
(* printf.  An item of a format is text, \c, a conversion, or a % with     *)
(* which nothing can be done.  A width or a precision is a number or the   *)
(* next argument (star); the argument after the last is the first again.   *)
(***************************************************************************)
radix == [d |-> 10, u |-> 10, o |-> 8, x |-> 16]

Atoi(s) ==
    LET digits == IF s # <<>> /\ s[1] \in {43, 45} THEN Tail(s) ELSE s
        ok == digits # <<>> /\ DigitRun(digits, 10, Len(digits)) = digits
    IN  [ok |-> ok, val |-> IF ~ok THEN 0 ELSE (IF s[1] = 45 THEN -1 ELSE 1) * ParseUint(digits, 10)]

(* A number, or the code behind a quote; octal and hexadecimal constants   *)
(* and quoted escapes are left out.  An empty argument and two quotes are  *)
(* no number, a blank one and a plus alone are zero.                       *)
parseInt(arg, signed) ==
    LET trimmed == SubSeq(arg, Min({i \in 1 .. Len(arg) + 1 : i > Len(arg) \/ arg[i] # space}), Len(arg))
        plain == IF trimmed # <<>> /\ trimmed[1] = 43 THEN Tail(trimmed) ELSE trimmed
        refused == ~signed /\ plain # <<>> /\ plain[1] \in {43, 45}
    IN  IF signed /\ arg = <<39, 39>> THEN [ok |-> FALSE, val |-> 0]
        ELSE IF signed /\ Len(arg) >= 2 /\ arg[1] \in {34, 39} THEN [ok |-> TRUE, val |-> arg[2]]
        ELSE IF plain = <<>> THEN [ok |-> arg # <<>>, val |-> 0]
        ELSE IF refused THEN [ok |-> FALSE, val |-> 0] ELSE Atoi(plain)

PadOf(n, c) == [i \in 1 .. n |-> c]
Widened(text, width, left) ==
    LET pad == PadOf(width - Len(text), space) IN IF left THEN text \o pad ELSE pad \o text

(* What Sprintf makes of an integer: a precision, or zeros up to the       *)
(* width, is a least number of digits; no digits are needed for zero.      *)
Sprintf(val, base, o) ==
    LET sign == IF val < 0 THEN <<45>> ELSE IF o.plus THEN <<43>> ELSE <<>>
        least == IF o.hasPrecision THEN o.precision
                 ELSE IF o.zero /\ ~o.left THEN o.width - Len(sign) ELSE 0
        digits == FormatUint(IF val < 0 THEN -val ELSE val, base)
    IN  IF o.hasPrecision /\ o.precision = 0 /\ val = 0 THEN PadOf(o.width, space)
        ELSE Widened(sign \o PadOf(least - Len(digits), 48) \o digits, o.width, o.left)

(* A width that is not there is -1, and for numbers that means one column, *)
(* to the left.                                                            *)
formatInt(val, base, o) ==
    Sprintf(val, base, [o EXCEPT !.left = @ \/ o.width < 0,
                                 !.width = IF @ < 0 THEN -@ ELSE @,
                                 !.precision = IF @ < 0 THEN 0 ELSE @])
(* Sprintf has no verb u: it says so, with the number inside.              *)
formatUint(val, conv, o) ==
    IF conv # "u" THEN formatInt(val, radix[conv], o)
    ELSE <<badVerb>> \o formatInt(val, 10, o) \o <<badVerb>>
formatString(arg, o) ==
    LET kept == IF o.hasPrecision /\ o.precision >= 0 /\ o.precision < Len(arg)
                THEN SubSeq(arg, 1, o.precision) ELSE arg
    IN  Widened(kept, o.width, o.left)

formatError(out) == (IF out # <<>> /\ Last(out) # lineFeed THEN Append(out, lineFeed) ELSE out)
                    \o <<notice, lineFeed>>
nextArg(s, args) == IF args = <<>> THEN <<>> ELSE args[(s.argIdx % Len(args)) + 1]
TookArg(s, args, n) == IF args = <<>> THEN s ELSE [s EXCEPT !.argIdx = @ + n]

(* A star takes its argument before the conversion does; one that is no    *)
(* number is zero.  The code behind a double quote is read even where the  *)
(* argument ends with it, and that ends the program.                       *)
FormatSize(s, args, size) ==
    IF size.star THEN [n |-> Atoi(nextArg(s, args)).val, s |-> TookArg(s, args, 1)]
    ELSE [n |-> size.n, s |-> s]
ConvertArg(s, it, o, arg) ==
    LET number == parseInt(arg, it.conv = "d")
        told == IF number.ok THEN s.out ELSE formatError(s.out)
    IN  IF it.conv = "s" THEN [s EXCEPT !.out = @ \o formatString(arg, o)]
        ELSE IF it.conv = "c" THEN [s EXCEPT !.out = @ \o SubSeq(arg, 1, Min({1, Len(arg)}))]
        ELSE IF it.conv = "b" THEN [s EXCEPT !.out = @ \o ExpandEscapes(arg, "arg")]
        ELSE IF it.conv = "d" /\ arg = <<34>> THEN [s EXCEPT !.going = FALSE, !.panics = TRUE]
        ELSE [s EXCEPT !.out = told \o (IF it.conv = "d" THEN formatInt(number.val, 10, o)
                                        ELSE formatUint(number.val, it.conv, o)),
                       !.hadErr = @ \/ ~number.ok]
ConvertSized(it, width, precision, args) ==
    ConvertArg(TookArg(precision.s, args, 1), it,
               [left |-> "-" \in it.flags, zero |-> "0" \in it.flags, plus |-> "+" \in it.flags,
                width |-> width, precision |-> precision.n, hasPrecision |-> it.precision.has],
               nextArg(precision.s, args))
ConvertWide(it, width, args) == ConvertSized(it, width.n, FormatSize(width.s, args, it.precision), args)
Convert(s, it, args) == ConvertWide(it, FormatSize(s, args, it.width), args)

processOnePass(state, items, args) ==
    FoldLeft(LAMBDA s, it :
                IF ~s.going THEN s
                ELSE IF it.k = "text" THEN [s EXCEPT !.out = @ \o ExpandEscapes(it.text, "format")]
                ELSE IF it.k = "stop" THEN [s EXCEPT !.going = FALSE]
                ELSE IF it.k = "bad" THEN [s EXCEPT !.going = FALSE, !.hadErr = TRUE, !.out = formatError(@)]
                ELSE Convert(s, it, args),
             state, items)

(* The format is used until there are no more arguments, which a pass that *)
(* takes none never changes.                                               *)
RECURSIVE printfFormat(_, _, _)
UsedAgain(before, after, items, args) ==
    IF items = <<>> \/ ~after.going \/ after.argIdx >= Len(args) THEN [after EXCEPT !.going = FALSE]
    ELSE IF after.argIdx = before.argIdx THEN after
    ELSE printfFormat(after, items, args)
printfFormat(state, items, args) == UsedAgain(state, processOnePass(state, items, args), items, args)

EndedWith(s) == [status |-> IF s.panics THEN 2 ELSE IF s.hadErr THEN 1 ELSE 0,
                 out |-> IF s.panics THEN <<>> ELSE s.out, endless |-> s.going]
printf(items, args) ==
    EndedWith(printfFormat([out |-> <<>>, argIdx |-> 0, hadErr |-> FALSE, going |-> TRUE, panics |-> FALSE],
                           items, args))
-----------------------------------------------------------------------------
(***************************************************************************)
(* The calendar of Go's package time: days are counted from the first of   *)
(* January 1970, a Thursday; Sunday is day 0 of the week.  A month that is *)
(* no month belongs to another year, a day to another month.               *)
(***************************************************************************)
isLeapYear(y) == y % 4 = 0 /\ (y % 100 # 0 \/ y % 400 = 0)
daysBefore == <<0, 31, 59, 90, 120, 151, 181, 212, 243, 273, 304, 334>>
LeapsTo(y) == y \div 4 - y \div 100 + y \div 400
DayOf(y, m, d) ==
    LET year == y + (m - 1) \div 12
        month == ((m - 1) % 12) + 1
    IN  365 * (year - 1970) + LeapsTo(year - 1) - LeapsTo(1969) + daysBefore[month]
        + (IF month > 2 /\ isLeapYear(year) THEN 1 ELSE 0) + d - 1
Weekday(day) == (day + 4) % 7
daysInMonth(y, m) == DayOf(y, m + 1, 1) - DayOf(y, m, 1)
YearOf(day) == LET about == 1970 + (400 * day) \div 146097 IN
    CHOOSE y \in about - 1 .. about + 1 : DayOf(y, 1, 1) <= day /\ day < DayOf(y + 1, 1, 1)
MonthOfDay(day) == CHOOSE m \in 1 .. 12 :
    DayOf(YearOf(day), m, 1) <= day /\ day < DayOf(YearOf(day), m + 1, 1)
DayOfMonth(day) == day - DayOf(YearOf(day), MonthOfDay(day), 1) + 1
YearDay(day) == day - DayOf(YearOf(day), 1, 1) + 1
perDay == 86400
Instant(day, seconds, offset) == day * perDay + seconds - offset

(* The week of the Thursday between Monday and Sunday. *)
ISOWeek(day) == LET thursday == day - ((Weekday(day) + 6) % 7) + 3 IN ((YearDay(thursday) - 1) \div 7) + 1
-----------------------------------------------------------------------------
(***************************************************************************)
(* date: time zones as POSIX writes them, in items: a name, a number or a  *)
(* mark.                                                                   *)
(***************************************************************************)
NumberItem(n) == [k |-> "number", v |-> n]
NameItem(n) == [k |-> "name", v |-> n]
Mark(c) == [k |-> c, v |-> 0]
IsMark(items, c) == items # <<>> /\ items[1].k = c
NotParsed == [ok |-> FALSE]

UpToMark(items, marks) ==
    LET stop == {i \in DOMAIN items : items[i].k \in marks}
    IN  IF stop = {} THEN items ELSE SubSeq(items, 1, Min(stop) - 1)
Behind(items, front) == SubSeq(items, Len(front) + 1, Len(items))
IntOf(part) ==
    LET signed == IsMark(part, "-") \/ IsMark(part, "+")
        rest == IF signed THEN Tail(part) ELSE part
        ok == Len(rest) = 1 /\ rest[1].k = "number"
    IN  [ok |-> ok, val |-> IF ~ok THEN 0 ELSE IF IsMark(part, "-") THEN -rest[1].v ELSE rest[1].v]
PartsAt(items, mark) == SplitWhere(items, LAMBDA t : t.k = mark)
Seconds(parts) ==
    LET At(i) == IF i <= Len(parts) THEN IntOf(parts[i]).val ELSE 0
    IN  At(1) * 3600 + At(2) * 60 + At(3)

parseOffset(items) ==
    LET signed == IsMark(items, "-") \/ IsMark(items, "+")
        rest == IF signed THEN Tail(items) ELSE items
        other == {"name", "+", "-", ",", "/", ".", "M", "J"}
        front == UpToMark(rest, other)
        parts == PartsAt(front, ":")
    IN  IF front = <<>> \/ Len(parts) > 3 \/ \E i \in DOMAIN parts : ~IntOf(parts[i]).ok THEN NotParsed
        ELSE [ok |-> TRUE, rest |-> Behind(rest, front),
              offset |-> IF IsMark(items, "-") THEN -Seconds(parts) ELSE Seconds(parts)]

(* Hours that are no number, or more than seconds, leave two o'clock;      *)
(* minutes and seconds that are none are zero, and always add up.          *)
timeOfTransition(items) ==
    LET parts == PartsAt(items, ":")
    IN  IF Len(parts) > 3 \/ ~IntOf(parts[1]).ok THEN 7200 ELSE Seconds(parts)

parseRule(items, isStart) ==
    LET day == UpToMark(IF IsMark(items, "M") \/ IsMark(items, "J") THEN Tail(items) ELSE items, {",", "/"})
        kind == IF IsMark(items, "M") THEN "M" ELSE IF IsMark(items, "J") THEN "J" ELSE "n"
        parts == IF kind = "M" THEN PartsAt(day, ".") ELSE <<day>>
        rest == SubSeq(items, Len(day) + (IF kind = "n" THEN 1 ELSE 2), Len(items))
        time == UpToMark(Tail(rest), {","})
        timed == IsMark(rest, "/")
    IN  IF items = <<>> \/ items[1].k \notin {"M", "J", "number"} THEN NotParsed
        ELSE IF (kind = "M" /\ Len(parts) # 3) \/ \E i \in DOMAIN parts : ~IntOf(parts[i]).ok THEN NotParsed
        ELSE [ok |-> TRUE, rest |-> IF timed THEN Behind(Tail(rest), time) ELSE rest,
              rule |-> [kind |-> kind, isStart |-> isStart, on |-> [i \in DOMAIN parts |-> IntOf(parts[i]).val],
                        time |-> IF timed THEN timeOfTransition(time) ELSE 7200]]

DefaultRule(month, week, isStart) ==
    [kind |-> "M", isStart |-> isStart, on |-> <<month, week, 0>>, time |-> 7200]

withEnd(zone, start, end) ==
    IF ~end.ok THEN NotParsed ELSE [zone EXCEPT !.start = start, !.end = end.rule]
withStart(zone, start) ==
    IF ~start.ok \/ ~IsMark(start.rest, ",") THEN NotParsed
    ELSE withEnd(zone, start.rule, parseRule(Tail(start.rest), FALSE))
withRules(zone, items) ==
    IF items = <<>> THEN [zone EXCEPT !.start = DefaultRule(3, 2, TRUE), !.end = DefaultRule(11, 1, FALSE)]
    ELSE IF items[1].k # "," THEN NotParsed
    ELSE withStart(zone, parseRule(Tail(items), TRUE))

(* What follows the offset without being a name is not looked at; without  *)
(* an offset of its own summer time is an hour ahead.                      *)
withSummer(zone, dst) ==
    IF ~dst.ok THEN NotParsed ELSE withRules([zone EXCEPT !.dstOffset = -dst.offset], dst.rest)
withOffset(name, std) ==
    LET none == DefaultRule(0, 0, TRUE)
        zone == [ok |-> TRUE, stdName |-> name, stdOffset |-> -std.offset, hasDST |-> FALSE,
                 dstName |-> 0, dstOffset |-> 0, start |-> none, end |-> none]
        rest == Tail(std.rest)
        own == rest # <<>> /\ rest[1].k \in {"+", "-", "number"}
    IN  IF ~std.ok THEN NotParsed
        ELSE IF ~IsMark(std.rest, "name") THEN zone
        ELSE withSummer([zone EXCEPT !.hasDST = TRUE, !.dstName = std.rest[1].v],
                        IF own THEN parseOffset(rest)
                        ELSE [ok |-> TRUE, offset |-> std.offset - 3600, rest |-> rest])
parsePOSIXTZ(items) ==
    IF ~IsMark(items, "name") THEN NotParsed ELSE withOffset(items[1].v, parseOffset(Tail(items)))

getDayOfMonth(year, m, w, d) ==
    LET first == 1 + ((d - Weekday(DayOf(year, m, 1)) + 7) % 7)
    IN  IF w \in 1 .. 4 THEN first + (w - 1) * 7
        ELSE IF w # 5 THEN first
        ELSE IF first + 28 <= daysInMonth(year, m) THEN first + 28 ELSE first + 21

(* A day counted from January keeps its month, day and time, in the year   *)
(* asked for.                                                              *)
ruleEval(rule, year, zone) ==
    LET offset == IF rule.isStart THEN zone.stdOffset ELSE zone.dstOffset
        skipped == rule.kind = "n" \/ (isLeapYear(year) /\ rule.on[1] >= 60)
        counted == DayOf(year, 1, 1) + rule.on[1] - (IF skipped THEN 0 ELSE 1) + rule.time \div perDay
    IN  IF rule.kind = "M"
        THEN Instant(DayOf(year, rule.on[1], getDayOfMonth(year, rule.on[1], rule.on[2], rule.on[3])),
                     rule.time, offset)
        ELSE Instant(DayOf(year, MonthOfDay(counted), DayOfMonth(counted)), rule.time % perDay, offset)

(* The year is that of the instant in UTC. *)
within(t, start, end) == IF start < end THEN t >= start /\ t < end ELSE t >= start \/ t < end
inDST(zone, t, year) == within(t, ruleEval(zone.start, year, zone), ruleEval(zone.end, year, zone))
tzEval(zone, t) ==
    IF zone.hasDST /\ inDST(zone, t, YearOf(t \div perDay))
    THEN [name |-> zone.dstName, offset |-> zone.dstOffset]
    ELSE [name |-> zone.stdName, offset |-> zone.stdOffset]

(* The forms of a date: an ISO date must be one, the others are brought    *)
(* into order; a time alone is today's, a month and day this year's.  The  *)
(* text may end in a zone of its own.                                      *)
IsDate(f) == /\ f.month \in 1 .. 12 /\ f.day \in 1 .. daysInMonth(f.year, f.month)
             /\ f.hour \in 0 .. 23 /\ f.min \in 0 .. 59 /\ f.sec \in 0 .. 59
parseDateString(given, offset, now) ==
    LET zone == IF given.hasZone THEN given.zone ELSE offset
        today == (now + zone) \div perDay
        f == given.fields
        time == f.hour * 3600 + f.min * 60 + f.sec
    IN  IF given.form = "@" THEN [ok |-> TRUE, unix |-> given.unix]
        ELSE IF given.form = "none" \/ (given.form = "iso" /\ ~IsDate(f)) THEN NotParsed
        ELSE [ok |-> TRUE, unix |->
                CASE given.form \in {"iso", "compact", "dotted"} -> Instant(DayOf(f.year, f.month, f.day), time, zone)
                  [] given.form = "thisYear" -> Instant(DayOf(YearOf(today), f.month, f.day), time, zone)
                  [] given.form = "today" -> Instant(today, time, zone)]

(* The numbers formatDate prints, by the letter that asks for them. *)
weekFrom(day, before) == IF YearDay(day) - 1 < before THEN 0 ELSE 1 + (YearDay(day) - 1 - before) \div 7
formatDate(local) ==
    LET day == local \div perDay
        second == local % perDay
        hour == second \div 3600
        newYear == Weekday(DayOf(YearOf(day), 1, 1))
        twelve == IF hour % 12 = 0 THEN 12 ELSE hour % 12
    IN  [Y |-> YearOf(day), y |-> YearOf(day) % 100, m |-> MonthOfDay(day), d |-> DayOfMonth(day),
         j |-> YearDay(day), H |-> hour, l |-> twelve, p |-> hour \div 12,
         M |-> (second \div 60) % 60, S |-> second % 60,
         w |-> Weekday(day), u |-> IF Weekday(day) = 0 THEN 7 ELSE Weekday(day), V |-> ISOWeek(day),
         W |-> weekFrom(day, (8 - newYear) % 7), U |-> weekFrom(day, (7 - newYear) % 7)]

(* A date that was given is read in the zone's standard time.  Local time  *)
(* is that of the system.                                                  *)
ShownIn(unix, zone) ==
    [status |-> 0, unix |-> unix, zone |-> zone, shown |-> formatDate(unix + zone.offset)]
dateIn(job, zone) ==
    LET home == IF zone.ok THEN zone.stdOffset ELSE IF job.utc THEN 0 ELSE job.local
        parsed == IF job.hasDate THEN parseDateString(job.given, home, job.now)
                  ELSE [ok |-> TRUE, unix |-> job.now]
        own == job.hasDate /\ job.given.hasZone /\ job.given.form # "@"
        shown == IF zone.ok THEN tzEval(zone, parsed.unix)
                 ELSE [name |-> 0, offset |-> IF own THEN job.given.zone ELSE home]
    IN  IF job.extra \/ ~parsed.ok THEN [status |-> 1] ELSE ShownIn(parsed.unix, shown)
date(job) == dateIn(job, IF job.utc \/ job.tz = <<>> THEN NotParsed ELSE parsePOSIXTZ(job.tz))
-----------------------------------------------------------------------------
(* cal: a grid of six weeks; with -j the days are those of the year. *)
monthNames == <<"january", "february", "march", "april", "may", "june", "july", "august", "september",
                "october", "november", "december">>
calMonth(word) ==
    LET found == {m \in 1 .. 12 : IsPrefix(word, Chars(monthNames[m]))}
    IN  IF IsNumeral(word) THEN (IF DigitsValue(word) \in 1 .. 12 THEN DigitsValue(word) ELSE 0)
        ELSE IF Cardinality(found) = 1 THEN CHOOSE m \in found : TRUE ELSE 0

RenderMonth(year, month, julian, mondayStart) ==
    LET first == Weekday(DayOf(year, month, 1))
        startSlot == IF ~mondayStart THEN first ELSE IF first = 0 THEN 6 ELSE first - 1
        Day(r, c) == 7 * r + c - startSlot + 1
    IN  [r \in 0 .. 5 |-> [c \in 0 .. 6 |->
            IF Day(r, c) \notin 1 .. daysInMonth(year, month) THEN 0
            ELSE IF julian THEN YearDay(DayOf(year, month, Day(r, c))) ELSE Day(r, c)]]
RenderYear(year, julian, mondayStart) ==
    LET cols == IF julian THEN 2 ELSE 3
    IN  [r \in 1 .. 12 \div cols |-> [c \in 1 .. cols |->
            RenderMonth(year, cols * (r - 1) + c, julian, mondayStart)]]

(* One operand is a year, two are a month and a year; -y shows the year. *)
IsYear(word) == IsNumeral(word) /\ DigitsValue(word) \in 1 .. 9999
cal(words, o) ==
    LET year == IF words = <<>> THEN o.year ELSE DigitsValue(Last(words))
        month == IF Len(words) = 1 \/ o.forceYear THEN 0
                 ELSE IF words = <<>> THEN o.month ELSE calMonth(words[1])
    IN  IF Len(words) > 2 \/ (Len(words) = 2 /\ calMonth(words[1]) = 0)
           \/ (words # <<>> /\ ~IsYear(Last(words))) THEN [status |-> 1]
        ELSE [status |-> 0, months |-> IF month = 0 THEN RenderYear(year, o.julian, o.mondayStart)
                                      ELSE <<<<RenderMonth(year, month, o.julian, o.mondayStart)>>>>]
=============================================================================
