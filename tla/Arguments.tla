------------------------------ MODULE Arguments ------------------------------
(***************************************************************************)
(* Argument lists: how every utility takes its own apart (common/flags.go, *)
(* compiled.go) and how xargs makes those of the commands it runs          *)
(* (xargs.go).  A word is a sequence of characters, a character a          *)
(* one-letter string, NUL the byte zero.                                   *)
(***************************************************************************)
EXTENDS GoWords, FiniteSetsExt
LOCAL INSTANCE GoStrings

-----------------------------------------------------------------------------
(* A flag: [short, long, type], a name being a word and <<>> none; a        *)
(* specification: [defs, stopAtFirst].  A result holds the names set        *)
(* (bools), the values given to each name in turn, and how often each       *)
(* FlagBool was set.                                                        *)

NoName == <<>>
ParseResult == [bools |-> {}, values |-> <<>>, count |-> <<>>, positional |-> <<>>, stdin |-> FALSE]

GetAll(f, name) == IF name \in DOMAIN f THEN f[name] ELSE <<>>
CountOf(f, name) == IF name \in DOMAIN f THEN f[name] ELSE 0

SetBool(res, cf) ==
    LET names == {cf.short} \cup ({cf.long} \ {NoName})
    IN  [res EXCEPT !.bools = @ \cup names,
                    !.count = [n \in names |-> CountOf(@, n) + 1] @@ @]
SetValue(res, cf, value) ==
    LET names == {cf.short, cf.long} \ {NoName}
    IN  [res EXCEPT !.bools = @ \cup names,
                    !.values = [n \in names |-> Append(GetAll(@, n), value)] @@ @]

(* The last definition of a letter counts, and the first of a long name. *)
Undefined == [type |-> "none"]
lookupShort(spec, c) ==
    LET at == SelectLastInSeq(spec.defs, LAMBDA d : d.short = <<c>>)
    IN  IF at = 0 THEN Undefined ELSE spec.defs[at]
lookupLong(spec, name) ==
    LET at == SelectInSeq(spec.defs, LAMBDA d : d.long # NoName /\ d.long = name)
    IN  IF at = 0 THEN Undefined ELSE spec.defs[at]

(* What is parsed so far and the arguments that are left, or an error. *)
Parsed(res, rest) == [ok |-> TRUE, res |-> res, rest |-> rest]
FlagError == [ok |-> FALSE, res |-> ParseResult, rest |-> <<>>]

parseLong(spec, args, res) ==
    LET text == SubSeq(Head(args), 3, Len(Head(args)))
        eq == SelectInSeq(text, LAMBDA c : c = "=")
        cf == lookupLong(spec, IF eq = 0 THEN text ELSE SubSeq(text, 1, eq - 1))
        rest == Tail(args)
    IN  CASE cf.type = "none" -> FlagError
          [] cf.type = "bool" -> Parsed(SetBool(res, cf), rest)
          [] cf.type \in {"value", "optional"} /\ eq # 0 ->
                Parsed(SetValue(res, cf, SubSeq(text, eq + 1, Len(text))), rest)
          [] cf.type = "optional" /\ eq = 0 -> Parsed(SetValue(res, cf, <<>>), rest)
          [] cf.type = "value" /\ eq = 0 ->
                IF rest = <<>> THEN FlagError ELSE Parsed(SetValue(res, cf, Head(rest)), Tail(rest))

(* chars are the letters left of the first argument. *)
RECURSIVE parseShort(_, _, _, _)
parseShort(spec, chars, rest, res) ==
    LET cf == lookupShort(spec, Head(chars))
        remainder == Tail(chars)
    IN  IF chars = <<>> THEN Parsed(res, rest)
        ELSE CASE cf.type = "none" -> FlagError
               [] cf.type = "bool" -> parseShort(spec, remainder, rest, SetBool(res, cf))
               [] cf.type \in {"value", "optional"} /\ remainder # <<>> ->
                    Parsed(SetValue(res, cf, remainder), rest)
               [] cf.type = "optional" /\ remainder = <<>> -> Parsed(SetValue(res, cf, <<>>), rest)
               [] cf.type = "value" /\ remainder = <<>> ->
                    IF rest = <<>> THEN FlagError ELSE Parsed(SetValue(res, cf, Head(rest)), Tail(rest))

RECURSIVE ParseArgs(_, _, _)
ParseArgs(spec, args, res) ==
    LET arg == Head(args)
        operands(words) == [res EXCEPT !.positional = @ \o words]
        next == IF arg[2] = "-" THEN parseLong(spec, args, res)
                ELSE parseShort(spec, Tail(arg), Tail(args), res)
    IN  CASE args = <<>> -> Parsed(res, <<>>)
          [] args # <<>> /\ arg = <<"-", "-">> -> Parsed(operands(Tail(args)), <<>>)
          [] args # <<>> /\ arg = <<"-">> ->
                ParseArgs(spec, Tail(args), [operands(<<arg>>) EXCEPT !.stdin = TRUE])
          [] args # <<>> /\ (Len(arg) < 2 \/ arg[1] # "-") /\ arg # <<"-">> ->
                IF spec.stopAtFirst THEN Parsed(operands(args), <<>>)
                ELSE ParseArgs(spec, Tail(args), operands(<<arg>>))
          [] OTHER -> IF next.ok THEN ParseArgs(spec, next.rest, next.res) ELSE FlagError

ParseFlags(args, spec) == ParseArgs(spec, args, ParseResult)

-----------------------------------------------------------------------------
(* What a command line says: flags with their values and operands, in some *)
(* order.  An item is [def, value]: def a flag, or OperandDef, UnknownDef.   *)

OperandDef == [type |-> "operand"]
UnknownDef == [type |-> "unknown"]
Said(def, value) == [def |-> def, value |-> value]

(* An item's spellings, as one or two arguments. *)
Spellings(item) ==
    LET d == item.def
        v == item.value
        short(more) == IF d.short = NoName THEN {} ELSE {<<"-">> \o d.short \o more}
        long(more) == IF d.long = NoName THEN {} ELSE {<<"-", "-">> \o d.long \o more}
    IN  CASE d.type = "operand" -> {<<v>>}
          [] d.type = "unknown" -> {<<<<"-", "z">>>>, <<<<"-", "-", "z">>>>}
          [] d.type = "bool" -> {<<w>> : w \in short(<<>>) \cup long(<<>>)}
          [] d.type = "value" ->
                {<<w>> : w \in (IF v = <<>> THEN {} ELSE short(v)) \cup long(<<"=">> \o v)}
                \cup {<<w, v>> : w \in short(<<>>) \cup long(<<>>)}
          [] d.type = "optional" ->
                {<<w>> : w \in short(v) \cup long(<<"=">> \o v) \cup (IF v = <<>> THEN long(v) ELSE {})}

(* The spellings of a list of items: letters may share an argument, and    *)
(* "--" may stand before operands that only operands follow.  An operand   *)
(* that starts with a hyphen has to follow it, unless flags end at the     *)
(* first operand (stop) and it is not that.                                *)
IsLetters(word) == Len(word) > 1 /\ word[1] = "-" /\ word[2] # "-"
Needs(word) == Len(word) > 1 /\ word[1] = "-"
RECURSIVE SpellingsOf(_, _)
SpellingsOf(items, stop) ==
    LET first == items[1]
        operands == \A i \in DOMAIN items : items[i].def = OperandDef
        joined(s, rest) == IF first.def.type = "bool" /\ IsLetters(s[1]) /\ rest # <<>> /\ IsLetters(rest[1])
                           THEN {<<s[1] \o Tail(rest[1])>> \o Tail(rest)} ELSE {}
        words == [i \in DOMAIN items |-> items[i].value]
        plain == IF first.def = OperandDef /\ Needs(first.value) THEN {}
                 ELSE IF first.def = OperandDef /\ stop THEN {words}
                 ELSE UNION {{s \o rest} \cup joined(s, rest) :
                                s \in Spellings(first), rest \in SpellingsOf(Tail(items), stop)}
    IN  IF items = <<>> THEN {<<>>, <<<<"-", "-">>>>}
        ELSE plain \cup (IF operands THEN {<<<<"-", "-">>>> \o words} ELSE {})

(* However a command line is spelled, its flags, their values and its      *)
(* operands are found in their order, and an unknown flag is an error.     *)
(* Nothing is claimed of "-" where flags end at the first operand, since   *)
(* they do not end there.                                                  *)
FlagsRight(spec, items, parsed) ==
    LET of(name) == SelectSeq(items, LAMBDA it : it.def.type \in {"bool", "value", "optional"}
                                                 /\ name \in {it.def.short, it.def.long})
        given == UNION {{items[i].def.short, items[i].def.long} :
                            i \in {j \in DOMAIN items : items[j].def.type \in {"bool", "value", "optional"}}}
        ofKind(kind) == SelectSeq(items, LAMBDA it : it.def = kind)
    IN  IF ofKind(UnknownDef) # <<>> THEN ~parsed.ok
        ELSE /\ parsed.ok
             /\ parsed.res.bools \ {NoName} = given \ {NoName}
             /\ \A n \in given \ {NoName} :
                    LET all == of(n)
                    IN  IF all[1].def.type = "bool" THEN CountOf(parsed.res.count, n) = Len(all)
                        ELSE GetAll(parsed.res.values, n) = [i \in DOMAIN all |-> all[i].value]
             /\ parsed.res.positional = [i \in DOMAIN ofKind(OperandDef) |-> ofKind(OperandDef)[i].value]
-----------------------------------------------------------------------------
(* xargs: a job is [baseCmd, cmdArgs, maxArgs, maxSize, replaceStr, eofStr, *)
(* null, stdin, codes].  codes are what the commands it runs exit with, in  *)
(* turn; NotStarted stands for one that cannot be started, a negative code  *)
(* for one that a signal ended.                                             *)

NotStarted == 999
IsGap(c) == c \in {" ", "\t", "\n"}

(* bufio.ScanWords, bufio.ScanLines and scanNulls. *)
Ended2(parts) == IF Last(parts) = <<>> THEN Front(parts) ELSE parts
Scanned(job) ==
    IF job.null THEN Ended2(SplitWhere(job.stdin, LAMBDA c : c = NUL))
    ELSE IF job.replaceStr # <<>> THEN Ended2(SplitWhere(job.stdin, LAMBDA c : c = "\n"))
    ELSE NonEmpty(SplitWhere(job.stdin, IsGap))

BeforeEOF(job, words) ==
    LET at == IF job.eofStr = <<>> THEN 0 ELSE SelectInSeq(words, LAMBDA w : w = job.eofStr)
    IN  IF at = 0 THEN words ELSE SubSeq(words, 1, at - 1)

WithoutIndent(w) ==
    LET first == SelectInSeq(w, LAMBDA c : ~IsGap(c))
    IN  IF first = 0 THEN <<>> ELSE SubSeq(w, first, Len(w))
ReplaceAllIn(arg, old, new) ==
    FoldLeft(LAMBDA done, c : IF <<c>> = old THEN done \o new ELSE Append(done, c), <<>>, arg)

SizeOf(words) == FoldLeft(LAMBDA n, w : n + Len(w) + 1, 0, words)

(* A word goes to the current batch, or begins the next one. *)
RECURSIVE Batches(_, _, _, _)
Batches(job, words, done, current) ==
    LET word == Head(words)
        size == SizeOf(<<job.baseCmd>> \o job.cmdArgs \o current)
        sizeLimitHit == job.maxSize > 0 /\ size + Len(word) + 1 > job.maxSize /\ current # <<>>
        argsLimitHit == job.maxArgs > 0 /\ Len(current) >= job.maxArgs
    IN  IF words = <<>> THEN IF current = <<>> THEN done ELSE Append(done, current)
        ELSE IF sizeLimitHit \/ argsLimitHit
        THEN Batches(job, Tail(words), Append(done, current), <<word>>)
        ELSE Batches(job, Tail(words), done, Append(current, word))

(* The argument lists of the commands to be run: one for each line, or for  *)
(* each batch, and one in any case.                                         *)
Filled(job, lines) ==
    [i \in DOMAIN lines |-> [k \in DOMAIN job.cmdArgs |-> ReplaceAllIn(job.cmdArgs[k], job.replaceStr, lines[i])]]
Supplied(job, batches) ==
    IF batches = <<>> THEN <<job.cmdArgs>> ELSE [i \in DOMAIN batches |-> job.cmdArgs \o batches[i]]
CommandArgs(job, words) ==
    LET lines == NonEmpty([i \in DOMAIN words |-> WithoutIndent(words[i])])
    IN  IF job.replaceStr = <<>> THEN Supplied(job, Batches(job, words, <<>>, <<>>))
        ELSE IF lines = <<>> THEN <<<<>>>> ELSE Filled(job, lines)

(* They are run in turn, until one exits with 255. *)
RunAll(job, all) ==
    LET stop == SelectInSeq(SubSeq(job.codes, 1, Len(all)), LAMBDA c : c = 255)
        ran == IF stop = 0 THEN all ELSE SubSeq(all, 1, stop)
    IN  [status |-> IF stop # 0 THEN 124
                    ELSE IF \E i \in DOMAIN ran : job.codes[i] # 0 THEN 123 ELSE 0,
         ran |-> ran]
xargs(job) == RunAll(job, CommandArgs(job, BeforeEOF(job, Scanned(job))))

(* xargs hands on every word before the end-of-file string once and in      *)
(* order, each command getting as many as the limits allow, but at least    *)
(* one word however long it is; one that exits with 255 ends it, another    *)
(* failure does not, and both show in the status.  With -I there is one     *)
(* command for each line that is not blank.                                 *)
XargsRight(job, outcome) ==
    LET words == BeforeEOF(job, Scanned(job))
        n == Len(outcome.ran)
        own == [i \in 1 .. n |-> SubSeq(outcome.ran[i], Len(job.cmdArgs) + 1, Len(outcome.ran[i]))]
        fits(ws) == /\ job.maxArgs = 0 \/ Len(ws) <= job.maxArgs
                    /\ job.maxSize = 0 \/ Len(ws) <= 1
                       \/ SizeOf(<<job.baseCmd>> \o job.cmdArgs \o ws) <= job.maxSize
        stopped == n > 0 /\ job.codes[n] = 255
        failed == \E i \in 1 .. n : job.codes[i] # 0
    IN  /\ \A i \in 1 .. n - 1 : job.codes[i] # 255
        /\ outcome.status = IF stopped THEN 124 ELSE IF failed THEN 123 ELSE 0
        /\ IF job.replaceStr # <<>>
           THEN LET lines == SelectSeq(words, LAMBDA w : \E i \in DOMAIN w : ~IsGap(w[i]))
                    template == job.cmdArgs[1]
                    at == CHOOSE k \in DOMAIN template : <<template[k]>> = job.replaceStr
                IN  lines # <<>> =>
                        /\ IF stopped THEN n <= Len(lines) ELSE n = Len(lines)
                        /\ \A i \in 1 .. n : \E k \in 0 .. Len(lines[i]) - 1 :
                              /\ ~IsGap(lines[i][k + 1]) /\ \A j \in 1 .. k : IsGap(lines[i][j])
                              /\ outcome.ran[i][1] = SubSeq(template, 1, at - 1) \o SubSeq(lines[i], k + 1, Len(lines[i]))
                                                     \o SubSeq(template, at + 1, Len(template))
           ELSE /\ \A i \in 1 .. n : IsPrefix(job.cmdArgs, outcome.ran[i]) /\ fits(own[i])
                /\ IF stopped THEN IsPrefix(FlattenSeq(own), words) ELSE FlattenSeq(own) = words
                /\ words # <<>> => \A i \in 1 .. n : own[i] # <<>>
                /\ \A i \in 1 .. n - 1 : ~fits(Append(own[i], own[i + 1][1]))
                /\ words = <<>> => n = 1
=============================================================================
