---------------------------- MODULE Expressions ----------------------------
(***************************************************************************)
(* expr and test: recursive-descent parsers that evaluate as they go, over *)
(* one shared token cursor; and the modes of chmod.                        *)
(*                                                                         *)
(* A parser takes the tokens and the cursor and returns the value, the     *)
(* new cursor and whether there was no error; after an error every caller  *)
(* returns at once.                                                        *)
(***************************************************************************)
EXTENDS GoWords

(* TokenCursor: past the end, the token is the empty string. *)
Peek(tokens, pos) == IF pos > Len(tokens) THEN <<>> ELSE tokens[pos]
HasToken(tokens, pos) == pos <= Len(tokens)

Value(val, pos) == [ok |-> TRUE, val |-> val, pos |-> pos]
Broken == [ok |-> FALSE, val |-> <<>>, pos |-> 0]

-----------------------------------------------------------------------------
(* expr *)

Falsy(val) == val \in {<<>>, <<"0">>}
Truth(b) == IF b THEN <<"1">> ELSE <<"0">>

(* The left-associative operators, from the loosest to the tightest. *)
ExprOps == << {"|"}, {"&"}, {"=", "!=", "<", "<=", ">", ">="}, {"+", "-"}, {"*", "/", "%"} >>

Relates(op, less, equal) ==
    CASE op = "=" -> equal
      [] op = "!=" -> ~equal
      [] op = "<" -> less
      [] op = "<=" -> less \/ equal
      [] op = ">" -> ~less /\ ~equal
      [] op = ">=" -> ~less

cmpResult(l, op, r) ==
    IF ParsesAsInt(l) /\ ParsesAsInt(r)
    THEN Truth(Relates(op, ParseValue(l) < ParseValue(r), ParseValue(l) = ParseValue(r)))
    ELSE Truth(Relates(op, WordLess(l, r), l = r))

Arithmetic(l, op, r) ==
    CASE op = "+" -> l + r
      [] op = "-" -> l - r
      [] op = "*" -> l * r
      [] op = "/" -> Quo(l, r)
      [] op = "%" -> Rem(l, r)

(* One turn of the loop of parseOr, parseAnd, parseCmp, parseAdd or        *)
(* parseMul: the operands have been parsed, and so evaluated, already.     *)
Combined(l, op, r, pos) ==
    CASE op = "|" -> Value(IF Falsy(l) THEN r ELSE l, pos)
      [] op = "&" -> Value(IF Falsy(l) \/ Falsy(r) THEN <<"0">> ELSE l, pos)
      [] op \in ExprOps[3] -> Value(cmpResult(l, op, r), pos)
      [] OTHER ->
            IF /\ ParsesAsInt(l) /\ ParsesAsInt(r)
               /\ op \in {"/", "%"} => ParseValue(r) # 0
            THEN Value(FormatInt(Wrap(Arithmetic(ParseValue(l), op, ParseValue(r)))), pos)
            ELSE Broken

matchStr(str, pattern, pos) ==
    LET m == Match(pattern, str, 0, <<>>)
    IN  IF ~Compiles(pattern) THEN Broken
        ELSE IF m = NoMatch
             THEN Value(IF Contains(pattern, "(") THEN <<>> ELSE <<"0">>, pos)
        ELSE IF m.groups # <<>> THEN Value(SubSeq(str, m.groups[1] + 1, m.groups[2]), pos)
        ELSE Value(FormatInt(m.end), pos)

(* The sum may wrap; slicing to an end before the start is a panic. *)
substrStr(str, posStr, lenStr, pos) ==
    IF ~ParsesAsInt(posStr) \/ ~ParsesAsInt(lenStr) THEN Broken
    ELSE LET from == IF ParseValue(posStr) < 1 THEN 0 ELSE ParseValue(posStr) - 1
             to == Wrap(from + ParseValue(lenStr))
         IN  IF from >= Len(str) THEN Value(<<>>, pos)
             ELSE IF to < from THEN Broken
             ELSE Value(SubSeq(str, from + 1, IF to > Len(str) THEN Len(str) ELSE to), pos)

indexStr(str, chars) == FormatInt(SelectInSeq(str, LAMBDA c : Contains(chars, c)))

Arity == [match |-> 2, substr |-> 3, index |-> 2, length |-> 1]
IsFunction(tok) == Len(tok) = 1 /\ tok[1] \in DOMAIN Arity

ApplyFunction(name, a, pos) ==
    CASE name = "match" -> matchStr(a[1], a[2], pos)
      [] name = "substr" -> substrStr(a[1], a[2], a[3], pos)
      [] name = "index" -> Value(indexStr(a[1], a[2]), pos)
      [] name = "length" -> Value(FormatInt(Len(a[1])), pos)

RECURSIVE parseLevel(_, _, _), parseLoop(_, _, _), parsePrimary(_, _), parseArgs(_, _, _, _)

(* parseOr (level 1), parseAnd, parseCmp, parseAdd, parseMul, parseUnary (6). *)
parseLevel(tokens, pos, level) ==
    IF level <= Len(ExprOps)
    THEN parseLoop(tokens, parseLevel(tokens, pos, level + 1), level)
    ELSE IF IsFunction(Peek(tokens, pos))
    THEN parseArgs(tokens, pos + 1, tokens[pos][1], <<>>)
    ELSE parsePrimary(tokens, pos)

parseLoop(tokens, left, level) ==
    LET op == Peek(tokens, left.pos)
        right == parseLevel(tokens, left.pos + 1, level + 1)
    IN  IF ~left.ok \/ Len(op) # 1 THEN left
        ELSE IF op[1] \notin ExprOps[level] THEN left
        ELSE IF ~right.ok THEN Broken
        ELSE parseLoop(tokens, Combined(left.val, op[1], right.val, right.pos), level)

parseArgs(tokens, pos, name, args) ==
    LET arg == parsePrimary(tokens, pos)
    IN  IF Len(args) = Arity[name] THEN ApplyFunction(name, args, pos)
        ELSE IF \/ ~arg.ok
                \/ name = "length" /\ Peek(tokens, pos) \in {<<")">>, <<"|">>, <<"&">>}
             THEN Broken
        ELSE parseArgs(tokens, arg.pos, name, Append(args, arg.val))

(* A colon is looked for only behind an atom, and takes the rest first. *)
parsePrimary(tokens, pos) ==
    LET tok == Peek(tokens, pos)
        inner == parseLevel(tokens, pos + 1, 1)
        pattern == parsePrimary(tokens, pos + 2)
    IN  IF tok = <<"(">>
        THEN IF inner.ok /\ Peek(tokens, inner.pos) = <<")">>
             THEN Value(inner.val, inner.pos + 1) ELSE Broken
        ELSE IF tok = <<>> THEN Broken
        ELSE IF Peek(tokens, pos + 1) # <<":">> THEN Value(tok, pos + 1)
        ELSE IF pattern.ok THEN matchStr(tok, pattern.val, pattern.pos) ELSE Broken

Answered(status, result) == [status |-> status, result |-> result]

exitCode(result) == IF Falsy(result) THEN 1 ELSE 0

Eval(tokens) ==
    LET parsed == parseLevel(tokens, 1, 1)
    IN  IF ~parsed.ok \/ HasToken(tokens, parsed.pos) THEN Answered(2, <<>>)
        ELSE Answered(exitCode(parsed.val), parsed.val)

WithoutJson(args) == SelectSeq(args, LAMBDA a : a # <<"--json">>)
expr(args) == Eval(WithoutJson(args))

-----------------------------------------------------------------------------
(* test and [ *)

isUnaryOp(tok) ==
    tok \in {<<op>> : op \in {"-e", "-f", "-d", "-s", "-r", "-w", "-x", "-L", "-h", "-b", "-c",
                             "-p", "-S", "-g", "-u", "-k", "-t", "-z", "-n"}}
isBinaryOp(tok) ==
    tok \in {<<op>> : op \in {"=", "==", "!=", "-eq", "-ne", "-lt", "-le", "-gt", "-ge"}}

(* What the file tests read: named[f] is what f itself is, leads[f] what   *)
(* it is after following links.                                            *)
CONSTANTS named, leads

Exists(f) == f \in DOMAIN named

evalUnary(op, arg, pos) ==
    IF op = "-z" THEN Value(arg = <<>>, pos)
    ELSE IF op = "-n" THEN Value(arg # <<>>, pos)
    ELSE IF op = "-e" THEN Value(Exists(arg), pos)
    ELSE IF op = "-t" THEN Broken
    ELSE IF op \in {"-r", "-w", "-x"}
    THEN Value(IF arg \in DOMAIN leads THEN op \in leads[arg].bits ELSE FALSE, pos)
    ELSE IF ~Exists(arg) THEN Value(FALSE, pos)
    ELSE Value(CASE op = "-f" -> named[arg].kind = "file"
                 [] op = "-d" -> named[arg].kind = "dir"
                 [] op = "-s" -> named[arg].size > 0
                 [] op \in {"-L", "-h"} -> named[arg].kind = "link"
                 [] op = "-b" -> named[arg].kind \in {"block", "char"}
                 [] op = "-c" -> named[arg].kind = "char"
                 [] op = "-p" -> named[arg].kind = "pipe"
                 [] op = "-S" -> named[arg].kind = "socket"
                 [] op \in {"-g", "-u", "-k"} -> op \in named[arg].bits, pos)

evalBinary(l, op, r, pos) ==
    IF op \in {"=", "=="} THEN Value(l = r, pos)
    ELSE IF op = "!=" THEN Value(l # r, pos)
    ELSE IF ~ParsesAsInt(l) \/ ~ParsesAsInt(r) THEN Broken
    ELSE LET m == ParseValue(l)
             n == ParseValue(r)
         IN  Value(CASE op = "-eq" -> m = n
                     [] op = "-ne" -> m # n
                     [] op = "-lt" -> m < n
                     [] op = "-le" -> m <= n
                     [] op = "-gt" -> m > n
                     [] op = "-ge" -> m >= n, pos)

RECURSIVE testOr(_, _), testOrLoop(_, _), testAndLoop(_, _), testNot(_, _), testPrimary(_, _)

Either(left, right) == IF right.ok THEN Value(left.val \/ right.val, right.pos) ELSE Broken
Both(left, right) == IF right.ok THEN Value(left.val /\ right.val, right.pos) ELSE Broken
Negated(inner) == IF inner.ok THEN Value(~inner.val, inner.pos) ELSE Broken
Enclosed(inner, tokens) ==
    IF inner.ok /\ Peek(tokens, inner.pos) = <<")">> THEN Value(inner.val, inner.pos + 1) ELSE Broken

testAnd(tokens, pos) == testAndLoop(tokens, testNot(tokens, pos))
testOr(tokens, pos) == testOrLoop(tokens, testAnd(tokens, pos))

testOrLoop(tokens, left) ==
    IF ~left.ok \/ Peek(tokens, left.pos) # <<"-o">> THEN left
    ELSE testOrLoop(tokens, Either(left, testAnd(tokens, left.pos + 1)))

testAndLoop(tokens, left) ==
    IF ~left.ok \/ Peek(tokens, left.pos) # <<"-a">> THEN left
    ELSE testAndLoop(tokens, Both(left, testNot(tokens, left.pos + 1)))

(* A binary operator behind it makes any token an operand. *)
testNot(tokens, pos) ==
    IF Peek(tokens, pos) # <<"!">> \/ isBinaryOp(Peek(tokens, pos + 1))
    THEN testPrimary(tokens, pos)
    ELSE IF ~HasToken(tokens, pos + 1) THEN Value(TRUE, pos + 1)
    ELSE Negated(testNot(tokens, pos + 1))

testPrimary(tokens, pos) ==
    LET tok == Peek(tokens, pos)
        binary == isBinaryOp(Peek(tokens, pos + 1))
    IN  IF tok = <<"(">> /\ ~binary THEN Enclosed(testOr(tokens, pos + 1), tokens)
        ELSE IF isUnaryOp(tok) /\ HasToken(tokens, pos + 1) /\ ~binary
        THEN evalUnary(tok[1], tokens[pos + 1], pos + 2)
        ELSE IF ~HasToken(tokens, pos) THEN Value(FALSE, pos)
        ELSE IF ~binary THEN Value(tok # <<>>, pos + 1)
        ELSE IF ~HasToken(tokens, pos + 2) THEN Broken
        ELSE evalBinary(tok, tokens[pos + 1][1], tokens[pos + 2], pos + 3)

(* The exit status: 0 for true, 1 for false, 2 for an error. *)
ExitStatus(parsed, tokens) ==
    IF ~parsed.ok \/ HasToken(tokens, parsed.pos) THEN 2
    ELSE IF parsed.val THEN 0 ELSE 1
Evaluate(tokens) == IF tokens = <<>> THEN 1 ELSE ExitStatus(testOr(tokens, 1), tokens)

runTest(args) == Evaluate(WithoutJson(args))
runBracket(args) ==
    LET cleaned == WithoutJson(args)
    IN  IF cleaned = <<>> \/ Last(cleaned) # <<"]">> THEN 2 ELSE Evaluate(Front(cleaned))
-----------------------------------------------------------------------------
(* chmod: a mode is a set of bits, named by a class and a permission; sUID, *)
(* sGID and sticky are the others.                                         *)

Classes == {"u", "g", "o"}
Permissions == {"r", "w", "x"}
Bits(classes, perms) == {c \o p : c \in classes, p \in perms}

applySymbolicMode(word, current) ==
    LET opIdx == SelectInSeq(word, LAMBDA c : c \in {"-", "+", "="})
        op == word[opIdx]
        who == ToSet(SubSeq(word, 1, opIdx - 1))
        named1 == IF "a" \in who \/ who \cap Classes = {} THEN Classes ELSE who \cap Classes
        bits == Bits(named1, ToSet(SubSeq(word, opIdx + 1, Len(word))) \cap Permissions)
    IN  IF Len(word) < 3 \/ opIdx <= 1 THEN [ok |-> FALSE, bits |-> current]
        ELSE [ok |-> TRUE, bits |-> CASE op = "+" -> current \union bits
                                      [] op = "-" -> current \ bits
                                      [] op = "=" -> (current \ Bits(named1, Permissions)) \union bits]

IsOctal(word) == word # <<>> /\ \A i \in DOMAIN word : word[i] \in DOMAIN DigitValue /\ word[i] \notin {"8", "9"}
isSymbolicMode(word) == ~IsOctal(word) /\ \E i \in DOMAIN word : word[i] \in {"-", "+", "="}

(* Of a number only the last three digits reach the file: the bits above   *)
(* them are not those Go's FileMode has for sUID, sGID and sticky.         *)
NumericMode(word) ==
    LET Digit(k) == IF k < Len(word) THEN DigitValue[word[Len(word) - k]] ELSE 0
        Perms(d) == (IF d >= 4 THEN {"r"} ELSE {}) \union (IF d % 4 >= 2 THEN {"w"} ELSE {})
                    \union (IF d % 2 = 1 THEN {"x"} ELSE {})
    IN  Bits({"u"}, Perms(Digit(2))) \union Bits({"g"}, Perms(Digit(1))) \union Bits({"o"}, Perms(Digit(0)))

(* A file is there or not, and may be changed or not; failures are passed. *)
chmod(word, files) ==
    LET wanted == [i \in DOMAIN files |-> IF isSymbolicMode(word) THEN applySymbolicMode(word, files[i].bits)
                                          ELSE [ok |-> TRUE, bits |-> NumericMode(word)]]
        done == {i \in DOMAIN files : files[i].exists /\ wanted[i].ok /\ files[i].own}
    IN  IF files = <<>> \/ ~(isSymbolicMode(word) \/ IsOctal(word)) THEN [status |-> 1, files |-> files]
        ELSE [status |-> IF done = DOMAIN files THEN 0 ELSE 1,
              files |-> [i \in DOMAIN files |-> IF i \in done THEN [files[i] EXCEPT !.bits = wanted[i].bits]
                                                ELSE files[i]]]
=============================================================================
