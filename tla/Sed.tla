-------------------------------- MODULE Sed --------------------------------
(***************************************************************************)
(* sed: the parser, from the characters of a script to instructions, and   *)
(* the engine, the cycle over the lines of the operands, one line ahead of *)
(* the script, which runs as a flat list of instructions.                  *)
(*                                                                         *)
(* A function that parses takes the script t and a position i and returns  *)
(* what it found with the position behind it; it returns Unparsed on an    *)
(* error, which ends the run.  Bracket expressions are left out.           *)
(*                                                                         *)
(* The engine's state is a record; fs holds the files by name, out what    *)
(* has gone to standard output.  Sets of instructions (the ranges that are *)
(* open, those whose first line has been seen) are sets of positions.      *)
(***************************************************************************)
EXTENDS GoWords, TLC

NoAddress == [type |-> "none", line |-> 0, step |-> 0, re |-> <<>>]
NoInst == [cmd |-> "", addr1 |-> NoAddress, addr2 |-> NoAddress, invert |-> FALSE,
           re |-> <<>>, repl |-> <<>>, global |-> FALSE, print |-> FALSE, subNum |-> 0,
           wfile |-> <<>>, text |-> <<>>, label |-> <<>>, file |-> <<>>, block |-> <<>>, jump |-> 0]

Found(it, pos) == [ok |-> TRUE, it |-> it, pos |-> pos]
Unparsed == [ok |-> FALSE, it |-> NoInst, pos |-> 0]

RECURSIVE Skip(_, _, _), Until(_, _, _)
Skip(t, i, chars) == IF CharAt(t, i) \in chars THEN Skip(t, i + 1, chars) ELSE i
Until(t, i, chars) == IF CharAt(t, i) \in chars \cup {""} THEN i ELSE Until(t, i + 1, chars)
skipWhitespace(t, i) == Skip(t, i, {" ", "\t", "\n", "\r", ";"})
SkipBlanks(t, i) == Skip(t, i, {" ", "\t"})

(* Where the unescaped delimiter is, or 0 when the line ends before it. *)
RECURSIVE Delimiter(_, _, _)
Delimiter(t, i, delim) ==
    CASE CharAt(t, i) \in {"", "\n"} -> 0
      [] CharAt(t, i) = "\\" -> Delimiter(t, IF CharAt(t, i + 1) = "" THEN i + 1 ELSE i + 2, delim)
      [] CharAt(t, i) = delim -> i
      [] OTHER -> Delimiter(t, i + 1, delim)

(* A basic expression as an extended one: what is special bare in one is   *)
(* special escaped in the other.                                           *)
Swapped == {"|", "+", "?", "(", ")", "{", "}"}
RECURSIVE compileBRE(_, _)
compileBRE(e, delim) ==
    IF e = <<>> THEN <<>>
    ELSE IF e[1] = "\\" /\ Len(e) > 1
    THEN (IF e[2] = delim
          THEN IF e[2] \in Swapped \cup {".", "*", "[", "]", "^", "$", "\\"}
               THEN <<"\\", e[2]>> ELSE <<e[2]>>
          ELSE IF e[2] \in Swapped THEN <<e[2]>> ELSE <<"\\", e[2]>>)
         \o compileBRE(SubSeq(e, 3, Len(e)), delim)
    ELSE (IF e[1] \in Swapped THEN <<"\\", e[1]>> ELSE <<e[1]>>) \o compileBRE(Tail(e), delim)

(* An empty expression stands for the one used last. *)
parseAddress(t, i) ==
    LET c == CharAt(t, i)
        start == IF c = "\\" THEN i + 2 ELSE i + 1
        delim == CharAt(t, start - 1)
        end == Delimiter(t, start, delim)
        re == compileBRE(SubSeq(t, start, end - 1), delim)
    IN  IF c \in DOMAIN DigitValue
        THEN Found([NoAddress EXCEPT !.type = "line",
                                     !.line = DigitsValue(SubSeq(t, i, DigitsEnd(t, i) - 1))],
                   DigitsEnd(t, i))
        ELSE IF c = "$" THEN Found([NoAddress EXCEPT !.type = "last"], i + 1)
        ELSE IF c \notin {"/", "\\"} THEN Found(NoAddress, i)
        ELSE IF end = 0 THEN Unparsed
        ELSE IF ~Compiles(re) THEN Unparsed
        ELSE Found([NoAddress EXCEPT !.type = "re", !.re = re], end + 1)

(* What follows the comma: an address, or a plus and a number of lines. *)
parseAddress2(t, i) ==
    LET end == DigitsEnd(t, i + 2)
    IN  IF CharAt(t, i) # "," THEN Found(NoAddress, i)
        ELSE IF CharAt(t, i + 1) = "+"
        THEN Found([NoAddress EXCEPT !.type = "line",
                                     !.step = DigitsValue(SubSeq(t, i + 2, end - 1))], end)
        ELSE parseAddress(t, i + 1)

(* The replacement as a template for Expand: & and \n become references. *)
RECURSIVE Template(_, _)
Template(raw, delim) ==
    IF raw = <<>> THEN <<>>
    ELSE IF raw[1] = "\\" /\ Len(raw) > 1
    THEN (CASE raw[2] = delim -> <<delim>>
            [] raw[2] # delim /\ raw[2] \in DOMAIN DigitValue -> <<"$", raw[2]>>
            [] raw[2] # delim /\ raw[2] = "n" -> <<"\n">>
            [] raw[2] # delim /\ raw[2] = "t" -> <<"\t">>
            [] raw[2] # delim /\ raw[2] = "r" -> <<"\r">>
            [] OTHER -> <<raw[2]>>) \o Template(SubSeq(raw, 3, Len(raw)), delim)
    ELSE (IF raw[1] = "&" THEN <<"$", "0">> ELSE <<raw[1]>>) \o Template(Tail(raw), delim)

(* The flags of s from i on; the pattern in re is not compiled yet, and so *)
(* what the flag I puts in front of it is escaped with the rest.           *)
RECURSIVE parseFlags(_, _, _)
parseFlags(t, i, inst) ==
    LET c == CharAt(t, i)
        name == SkipBlanks(t, i + 1)
        end == Until(t, name, {" ", "\t", "\n", ";"})
    IN  CASE c = "g" -> parseFlags(t, i + 1, [inst EXCEPT !.global = TRUE])
          [] c = "p" -> parseFlags(t, i + 1, [inst EXCEPT !.print = TRUE])
          [] c \in {"I", "i"} -> parseFlags(t, i + 1, [inst EXCEPT !.re = <<"(", "?", "i", ")">> \o @])
          [] c \in DOMAIN DigitValue \ {"0"} -> parseFlags(t, i + 1, [inst EXCEPT !.subNum = DigitValue[c]])
          [] c = "w" -> parseFlags(t, end, [inst EXCEPT !.wfile = SubSeq(t, name, end - 1)])
          [] OTHER -> Found(inst, i)

parseSubstitute(t, i, inst) ==
    LET delim == CharAt(t, i)
        middle == Delimiter(t, i + 1, delim)
        end == Delimiter(t, middle + 1, delim)
        flagged == parseFlags(t, end + 1,
                     [inst EXCEPT !.re = SubSeq(t, i + 1, middle - 1),
                                  !.repl = Template(SubSeq(t, middle + 1, end - 1), delim)])
        re == compileBRE(flagged.it.re, delim)
    IN  IF delim \in {"", "\n"} \/ middle = 0 \/ end = 0 THEN Unparsed
        ELSE IF ~Compiles(re) THEN Unparsed
        ELSE Found([flagged.it EXCEPT !.re = re], flagged.pos)

(* The text of a, i and c goes to the end of the line. *)
RECURSIVE TextEnd(_, _), Unescaped(_)
TextEnd(t, i) ==
    CASE CharAt(t, i) = "" -> i
      [] CharAt(t, i) = "\n" -> i + 1
      [] CharAt(t, i) = "\\" /\ CharAt(t, i + 1) # "" -> TextEnd(t, i + 2)
      [] OTHER -> TextEnd(t, i + 1)
Unescaped(raw) ==
    IF raw = <<>> THEN <<>>
    ELSE IF raw[1] = "\\" /\ Len(raw) > 1
    THEN (CASE raw[2] = "n" -> <<"\n">>
            [] raw[2] = "t" -> <<"\t">>
            [] raw[2] = "r" -> <<"\r">>
            [] raw[2] = "\n" -> <<>>
            [] OTHER -> <<raw[2]>>) \o Unescaped(SubSeq(raw, 3, Len(raw)))
    ELSE <<raw[1]>> \o Unescaped(Tail(raw))
parseText(t, i, inst) ==
    LET first == SkipBlanks(t, i)
        second == IF CharAt(t, first) = "\\" THEN first + 1 ELSE first
        start == IF CharAt(t, second) = "\n" THEN second + 1 ELSE second
        text == Unescaped(SubSeq(t, start, TextEnd(t, start) - 1))
    IN  Found([inst EXCEPT !.text = IF text # <<>> /\ Last(text) = "\n" THEN Front(text) ELSE text],
              TextEnd(t, start))

(* A label or file name: a closing brace does not end it. *)
parseName(t, i, inst) ==
    LET start == SkipBlanks(t, i)
        end == Until(t, start, {" ", "\t", "\n", ";"})
        name == SubSeq(t, start, end - 1)
    IN  Found(IF inst.cmd \in {"r", "w"} THEN [inst EXCEPT !.file = name]
              ELSE [inst EXCEPT !.label = name], end)

Bare1 == {"d", "D", "p", "P", "n", "N", "g", "G", "h", "H", "x", "q", "=", "l"}

RECURSIVE parseBlock(_, _, _, _), parseInstruction(_, _), parseCommand(_, _, _), nextInstruction(_, _, _, _)

Enclosing(inst, block) == IF block.ok THEN Found([inst EXCEPT !.block = block.it], block.pos) ELSE Unparsed
parseCommand(t, at, inst) ==
    CASE inst.cmd = "{" -> Enclosing(inst, parseBlock(t, at + 1, TRUE, <<>>))
      [] inst.cmd = "s" -> parseSubstitute(t, at + 1, inst)
      [] inst.cmd \in {"a", "i", "c"} -> parseText(t, at + 1, inst)
      [] inst.cmd \in {"b", "t", "T", ":", "r", "w"} -> parseName(t, at + 1, inst)
      [] inst.cmd \in Bare1 \cup {""} -> Found(inst, at + 1)
      [] OTHER -> Unparsed

Addressed(t, addr1, addr2, bang) ==
    LET at == IF CharAt(t, bang) = "!" THEN skipWhitespace(t, bang + 1) ELSE bang
    IN  IF ~addr2.ok THEN Unparsed
        ELSE parseCommand(t, at, [NoInst EXCEPT !.cmd = CharAt(t, at), !.addr1 = addr1.it, !.addr2 = addr2.it,
                                                !.invert = CharAt(t, bang) = "!"])
AfterAddress(t, addr1, addr2) == Addressed(t, addr1, addr2, skipWhitespace(t, addr2.pos))
AfterFirst(t, addr1) == IF addr1.ok THEN AfterAddress(t, addr1, parseAddress2(t, addr1.pos)) ELSE Unparsed
parseInstruction(t, i) == AfterFirst(t, parseAddress(t, i))

(* At the end of the script an address without a command is dropped. *)
parseBlock(t, i, inBlock, insts) ==
    LET at == skipWhitespace(t, i)
    IN  CASE CharAt(t, at) = "" -> IF inBlock THEN Unparsed ELSE Found(insts, at)
          [] CharAt(t, at) = "}" -> IF inBlock THEN Found(insts, at + 1) ELSE Unparsed
          [] CharAt(t, at) = "#" -> parseBlock(t, Until(t, at, {"\n"}), inBlock, insts)
          [] OTHER -> nextInstruction(t, parseInstruction(t, at), inBlock, insts)
nextInstruction(t, next, inBlock, insts) ==
    IF ~next.ok THEN Unparsed
    ELSE parseBlock(t, next.pos, inBlock, IF next.it.cmd = "" THEN insts ELSE Append(insts, next.it))

Parse(script) == parseBlock(script, 1, FALSE, <<>>)
-----------------------------------------------------------------------------
(* The engine. *)

Engine(fs, suppress, inPlace) ==
    [pat |-> <<>>, hold |-> <<>>, lineNum |-> 0, isEOF |-> FALSE, substituted |-> FALSE,
     skipRead |-> FALSE, lastRegex |-> <<>>, pending |-> <<>>,
     open |-> {}, begun |-> {}, until |-> <<>>,
     unread |-> <<>>, next |-> <<>>, nextEnded |-> FALSE, ended |-> FALSE, hasNext |-> FALSE,
     lastFile |-> FALSE, current |-> <<>>, tmp |-> <<>>, lacked |-> {},
     suppress |-> suppress, inPlace |-> inPlace, fs |-> fs, out |-> <<>>]

-----------------------------------------------------------------------------
(* compileAst and truncateWFiles *)

RECURSIVE flatten(_)
flatten(insts) ==
    LET inst == Head(insts)
        inner == flatten(inst.block)
    IN  IF insts = <<>> THEN <<>>
        ELSE (IF inst.cmd = "{"
              THEN <<[inst EXCEPT !.block = <<>>, !.jump = Len(inner) + 1]>> \o inner
                   \o <<[NoInst EXCEPT !.cmd = "}"]>>
              ELSE <<inst>>) \o flatten(Tail(insts))

IsBranch(inst) == inst.cmd \in {"b", "t", "T"}
LabelAt(flat, label) ==
    LET places == {i \in DOMAIN flat : flat[i].cmd = ":" /\ flat[i].label = label}
    IN  IF label = <<>> THEN Len(flat) + 1
        ELSE IF places = {} THEN 0 ELSE Max(places)

(* The flat list, or nothing when a label is missing. *)
compileAst(insts) ==
    LET flat == flatten(insts)
        linked == [i \in DOMAIN flat |-> IF IsBranch(flat[i])
                                         THEN [flat[i] EXCEPT !.jump = LabelAt(flat, flat[i].label)]
                                         ELSE flat[i]]
    IN  [ok |-> \A i \in DOMAIN linked : IsBranch(linked[i]) => linked[i].jump > 0, it |-> linked]

WFiles(flat) ==
    ({flat[i].file : i \in {j \in DOMAIN flat : flat[j].cmd = "w"}}
        \cup {flat[i].wfile : i \in DOMAIN flat}) \ {<<>>}
truncateWFiles(fs, flat) == [f \in WFiles(flat) |-> <<>>] @@ fs

-----------------------------------------------------------------------------
(* Output.  A line whose newline was missing gets it when another follows. *)

Write(e, s) ==
    IF e.tmp = <<>> THEN [e EXCEPT !.out = @ \o s] ELSE [e EXCEPT !.fs[e.tmp] = @ \o s]
StreamID(e) == IF e.inPlace THEN e.current ELSE <<>>

Framed(e, s, id, ended) ==
    (IF id \in e.lacked THEN <<"\n">> ELSE <<>>) \o s \o (IF ended THEN <<"\n">> ELSE <<>>)
Noted(e, id, ended) == [e EXCEPT !.lacked = IF ended THEN @ \ {id} ELSE @ \cup {id}]

printLine(e, s) ==
    Write(Noted(e, StreamID(e), e.ended), Framed(e, s, StreamID(e), e.ended))
printText(e, s) ==
    Write(Noted(e, StreamID(e), TRUE), Framed(e, s, StreamID(e), TRUE))
printFile(e, file) ==
    IF file = <<>> THEN e
    ELSE [Noted(e, file, e.ended) EXCEPT !.fs[file] = @ \o Framed(e, e.pat, file, e.ended)]

-----------------------------------------------------------------------------
(* Input: the line ahead, and whether the one in hand is the last. *)

readNext(e) ==
    LET end == SelectInSeq(e.unread, LAMBDA c : c = "\n")
        line == SubSeq(e.unread, 1, IF end = 0 THEN Len(e.unread) ELSE end - 1)
        cr == end > 0 /\ line # <<>> /\ line[Len(line)] = "\r"
    IN  [e EXCEPT !.next = IF cr THEN Front(line) ELSE line,
                  !.nextEnded = IF e.unread = <<>> THEN @ ELSE end > 0,
                  !.hasNext = e.unread # <<>>,
                  !.isEOF = e.unread = <<>> /\ (e.inPlace \/ e.lastFile),
                  !.unread = SubSeq(@, IF end = 0 THEN Len(@) + 1 ELSE end + 1, Len(@))]

-----------------------------------------------------------------------------
(* matchAddress and shouldRun *)

ReOf(e, re) == IF re = <<>> THEN e.lastRegex ELSE re
Remember(e, re) == [e EXCEPT !.lastRegex = ReOf(e, re)]
Seeing(e, addr) == IF addr.type = "re" THEN Remember(e, addr.re) ELSE e

matchAddress(e, addr) ==
    CASE addr.type = "line" -> e.lineNum = addr.line
      [] addr.type = "last" -> e.isEOF
      [] addr.type = "re" -> ReOf(e, addr.re) # <<>> /\ Matches(ReOf(e, addr.re), e.pat)

(* A range that starts at a line starts once, at or after that line; its   *)
(* end is looked for from its first line on.                               *)
Begins(e, inst, ip) ==
    IF inst.addr1.type = "line" THEN e.lineNum >= inst.addr1.line /\ ip \notin e.begun
    ELSE matchAddress(e, inst.addr1)
Opened(e, inst, ip) ==
    IF ip \in e.open THEN e
    ELSE IF ~Begins(e, inst, ip) THEN Seeing(e, inst.addr1)
    ELSE [Seeing(e, inst.addr1) EXCEPT
            !.open = @ \cup {ip},
            !.begun = IF inst.addr1.type = "line" THEN @ \cup {ip} ELSE @,
            !.until = (ip :> e.lineNum + inst.addr2.step) @@ @]
(* Mutant of Ends: the range goes one line on. *)
EndsLate(e, inst, ip) ==
    IF inst.addr2.type # "line" THEN matchAddress(e, inst.addr2)
    ELSE e.lineNum > IF inst.addr2.step > 0 THEN e.until[ip] ELSE inst.addr2.line
Ends(e, inst, ip) ==
    IF inst.addr2.type # "line" THEN matchAddress(e, inst.addr2)
    ELSE e.lineNum >= IF inst.addr2.step > 0 THEN e.until[ip] ELSE inst.addr2.line

shouldRun(e, inst, ip) ==
    LET begun == Opened(e, inst, ip)
        inside == ip \in begun.open
        seen == IF inside THEN Seeing(begun, inst.addr2) ELSE begun
    IN  IF inst.addr1.type = "none" THEN [run |-> ~inst.invert, e |-> e]
        ELSE IF inst.addr2.type = "none"
        THEN [run |-> matchAddress(e, inst.addr1) # inst.invert, e |-> Seeing(e, inst.addr1)]
        ELSE [run |-> inside # inst.invert,
              e |-> IF inside /\ Ends(begun, inst, ip) THEN [seen EXCEPT !.open = @ \ {ip}] ELSE seen]

-----------------------------------------------------------------------------
(* execFlat *)

(* The first or n-th match is replaced by matching it again on its own. *)
replaceNth(pat, re, repl, found, k) ==
    IF k > Len(found) THEN pat
    ELSE SubSeq(pat, 1, found[k].start)
         \o ReplaceMatches(re, SubSeq(pat, found[k].start + 1, found[k].end), repl)
         \o SubSeq(pat, found[k].end + 1, Len(pat))
Replaced2(pat, re, inst) ==
    IF inst.global THEN ReplaceMatches(re, pat, inst.repl)
    ELSE replaceNth(pat, re, inst.repl, FindAll(re, pat), Max({inst.subNum, 1}))

substituted(e, inst) == printFile(IF inst.print THEN printLine(e, e.pat) ELSE e, inst.wfile)
substitute(e, inst) ==
    LET re == ReOf(e, inst.re)
    IN  IF re = <<>> THEN e
        ELSE IF ~Matches(re, e.pat) THEN Remember(e, inst.re)
        ELSE substituted([Remember(e, inst.re) EXCEPT !.substituted = TRUE,
                                                      !.pat = Replaced2(e.pat, re, inst)], inst)

FirstNewline(s) == SelectInSeq(s, LAMBDA c : c = "\n")

(* The commands the script goes on behind.  (r and l are parsed, and do    *)
(* nothing.)  P and = write past the bookkeeping of missing newlines.      *)
Simple(e, inst) ==
    CASE inst.cmd = "s" -> substitute(e, inst)
      [] inst.cmd = "p" -> printLine(e, e.pat)
      [] inst.cmd = "P" -> IF FirstNewline(e.pat) = 0 THEN printLine(e, e.pat)
                           ELSE Write(e, SubSeq(e.pat, 1, FirstNewline(e.pat)))
      [] inst.cmd = "a" -> [e EXCEPT !.pending = Append(@, inst.text)]
      [] inst.cmd = "i" -> printText(e, inst.text)
      [] inst.cmd = "=" -> Write(e, Append(FormatNat(e.lineNum), "\n"))
      [] inst.cmd = "h" -> [e EXCEPT !.hold = e.pat]
      [] inst.cmd = "H" -> [e EXCEPT !.hold = @ \o <<"\n">> \o e.pat]
      [] inst.cmd = "g" -> [e EXCEPT !.pat = e.hold]
      [] inst.cmd = "G" -> [e EXCEPT !.pat = @ \o <<"\n">> \o e.hold]
      [] inst.cmd = "x" -> [e EXCEPT !.pat = e.hold, !.hold = e.pat]
      [] inst.cmd = "w" -> printFile(e, inst.file)
      [] OTHER -> e

(* n and N replace or extend the pattern space by the line ahead. *)
takeNext(e, pat) ==
    readNext([e EXCEPT !.pat = pat, !.ended = e.nextEnded, !.lineNum = @ + 1])

Stop(e, why) == [e |-> e, why |-> why]
Default(e) == IF e.suppress THEN e ELSE printLine(e, e.pat)

RECURSIVE execFlat(_, _, _), execute(_, _, _, _)

execFlat(e, insts, ip) ==
    IF ip > Len(insts) THEN Stop(e, "end")
    ELSE execute(shouldRun(e, insts[ip], ip), insts, ip, insts[ip])

execute(sel, insts, ip, inst) ==
    LET e == sel.e
        jumps == inst.cmd = "b" \/ e.substituted = (inst.cmd = "t")
        cleared == IF inst.cmd = "b" THEN e ELSE [e EXCEPT !.substituted = FALSE]
    IN  CASE ~sel.run ->
               execFlat(e, insts, IF inst.cmd = "{" THEN ip + inst.jump + 1 ELSE ip + 1)
          [] sel.run /\ inst.cmd = "d" -> Stop(e, "next")
          [] sel.run /\ inst.cmd = "D" ->
               IF FirstNewline(e.pat) = 0 THEN Stop(e, "next")
               ELSE execFlat([e EXCEPT !.pat = SubSeq(@, FirstNewline(@) + 1, Len(@)),
                                       !.skipRead = TRUE], insts, 1)
          [] sel.run /\ inst.cmd = "n" ->
               IF e.isEOF THEN Stop(Default(e), "quit_no_print")
               ELSE execFlat(takeNext(Default(e), e.next), insts, ip + 1)
          [] sel.run /\ inst.cmd = "N" ->
               IF e.isEOF THEN Stop(e, "quit")
               ELSE execFlat(takeNext(e, e.pat \o <<"\n">> \o e.next), insts, ip + 1)
          [] sel.run /\ inst.cmd = "c" -> Stop(printText(e, inst.text), "next")
          [] sel.run /\ inst.cmd = "q" -> Stop(e, "quit")
          [] sel.run /\ IsBranch(inst) ->
               execFlat(cleared, insts, IF jumps THEN inst.jump ELSE ip + 1)
          [] OTHER -> execFlat(Simple(e, inst), insts, ip + 1)

-----------------------------------------------------------------------------
(* runEngineInternal *)

NewCycle(e) ==
    readNext([(IF e.skipRead THEN e
               ELSE [e EXCEPT !.pat = e.next, !.ended = e.nextEnded,
                              !.lineNum = @ + 1, !.substituted = FALSE]) EXCEPT !.skipRead = FALSE])
flushAppends(e) == [FoldLeft(printText, e, e.pending) EXCEPT !.pending = <<>>]

RECURSIVE Cycles(_, _), EndCycle(_, _), RunFiles(_, _, _, _), EndFile(_, _, _, _)

(* One turn per cycle, while there is a line ahead. *)
Cycles(e, insts) ==
    IF e.hasNext THEN EndCycle(execFlat(NewCycle(e), insts, 1), insts) ELSE Stop(e, "end")
EndCycle(r, insts) ==
    CASE r.why = "quit" -> Stop(IF r.e.skipRead THEN r.e ELSE Default(r.e), "quit")
      [] r.why = "quit_no_print" -> r
      [] r.why = "end" -> Cycles(flushAppends(Default(r.e)), insts)
      [] r.why = "next" -> Cycles(flushAppends(r.e), insts)

TmpPath(path) == path \o <<".", "t", "m", "p">>
Renamed2(fs, path) == [f \in (DOMAIN fs \cup {path}) \ {TmpPath(path)} |->
                        IF f = path THEN fs[TmpPath(path)] ELSE fs[f]]

(* With -i every file starts afresh and is replaced by what was written    *)
(* once it has been read to its end; a quit ends the run before that.      *)
NewFile(e, path, isLast) ==
    LET fresh == [e EXCEPT !.current = path, !.lastFile = isLast,
                           !.unread = IF path \in DOMAIN e.fs THEN e.fs[path] ELSE <<>>]
    IN  IF ~e.inPlace THEN fresh
        ELSE [fresh EXCEPT !.lineNum = 0, !.open = {}, !.begun = {}]
Editing2(e) ==
    IF e.inPlace THEN [e EXCEPT !.tmp = TmpPath(e.current), !.fs = (TmpPath(e.current) :> <<>>) @@ @]
    ELSE e

RunFiles(e, insts, files, status) ==
    IF files = <<>> THEN [status |-> status, e |-> e]
    ELSE LET begun == NewFile(e, Head(files), Len(files) = 1)
         IN  IF Head(files) \notin DOMAIN e.fs THEN RunFiles(begun, insts, Tail(files), 1)
             ELSE EndFile(Cycles(readNext(Editing2(begun)), insts), insts, files, status)
EndFile(r, insts, files, status) ==
    IF r.why # "end" THEN [status |-> status, e |-> r.e]
    ELSE RunFiles(IF r.e.inPlace THEN [r.e EXCEPT !.fs = Renamed2(@, Head(files))] ELSE r.e,
                  insts, Tail(files), status)

Outcome2(status, out, fs) == [status |-> status, out |-> out, fs |-> fs]
Reported(ran) == Outcome2(ran.status, ran.e.out, ran.e.fs)

runEngineInternal(flat, job, fs) ==
    IF ~flat.ok THEN Outcome2(1, <<>>, fs)
    ELSE Reported(RunFiles(Engine(truncateWFiles(fs, flat.it), job.suppress, job.inPlace),
                           flat.it, IF job.files = <<>> THEN <<<<"-">>>> ELSE job.files, 0))

(* sedRun with the script of its options or first operand. *)
Interpret(parsed, job, fs) ==
    IF parsed.ok THEN runEngineInternal(compileAst(parsed.it), job, fs) ELSE Outcome2(1, <<>>, fs)
sed(job, fs) ==
    IF job.script = <<>> THEN Outcome2(1, <<>>, fs) ELSE Interpret(Parse(job.script), job, fs)
=============================================================================
