--------------------------------- MODULE Bc ---------------------------------
(***************************************************************************)
(* bc: the lexer, the parser, and the interpreter that walks the tree.     *)
(*                                                                         *)
(* A name or a numeral is a sequence of characters.  A node of the tree is *)
(* a record whose field k says what it is.  Numbers are those of dc:       *)
(* fractions with a count of decimal places, and here a sign for zero.     *)
(***************************************************************************)
EXTENDS Calculator

-----------------------------------------------------------------------------
(* The lexer.  The type of an operator or a keyword is its spelling.       *)

LowerCase == ToSet(Chars("abcdefghijklmnopqrstuvwxyz_"))
DigitOrder == Digits \o Chars("ABCDEFGHIJKLMNOPQRSTUVWXYZ")
digitVal == [c \in ToSet(DigitOrder) |-> RankIn(DigitOrder)[c] - 1]

OneChar == ToSet(Chars("()[]{},;+-*/%^=<>!."))
TwoChars == {"++", "--", "+=", "-=", "*=", "/=", "%=", "^=", "==", "<=", ">=", "!=", "&&", "||"}
KeywordNames == {"if", "else", "while", "for", "define", "auto", "return", "break", "continue",
                 "halt", "print"}
Keyword == [w \in {Chars(k) : k \in KeywordNames} |-> CHOOSE k \in KeywordNames : Chars(k) = w]

Token(type, val, end) == [type |-> type, val |-> val, end |-> end]

(* NewLexer: a backslash before a newline hides both. *)
RECURSIVE Spliced(_)
Spliced(t) ==
    IF t = <<>> THEN <<>>
    ELSE IF t[1] = "\\" /\ CharAt(t, 2) = "\n" THEN Spliced(SubSeq(t, 3, Len(t)))
    ELSE <<t[1]>> \o Spliced(Tail(t))

RECURSIVE CommentEnd(_, _), WordEnd(_, _), NumberEnd(_, _, _), QuoteEnd(_, _)
CommentEnd(t, i) ==
    IF i > Len(t) THEN i
    ELSE IF t[i] = "*" /\ CharAt(t, i + 1) = "/" THEN i + 2 ELSE CommentEnd(t, i + 1)
WordEnd(t, i) ==
    IF CharAt(t, i) \in LowerCase \cup DOMAIN digitVal THEN WordEnd(t, i + 1) ELSE i
NumberEnd(t, i, hasDot) ==
    IF CharAt(t, i) \in DOMAIN digitVal THEN NumberEnd(t, i + 1, hasDot)
    ELSE IF CharAt(t, i) = "." /\ ~hasDot THEN NumberEnd(t, i + 1, TRUE) ELSE i
QuoteEnd(t, i) ==
    IF i > Len(t) \/ CharAt(t, i) = "\"" THEN i
    ELSE QuoteEnd(t, IF t[i] = "\\" THEN i + 2 ELSE i + 1)

WordToken(t, i, end) ==
    LET word == SubSeq(t, i, end - 1)
    IN  Token(IF word \in DOMAIN Keyword THEN Keyword[word] ELSE "ident", word, end)
StringToken(t, i, end) ==
    IF end > Len(t) THEN Token("error", <<>>, Len(t) + 1)
    ELSE Token("string", SubSeq(t, i + 1, end - 1), end + 1)
StartsNumber(t, i) ==
    \/ t[i] \in DOMAIN digitVal
    \/ t[i] = "." /\ CharAt(t, i + 1) \in DOMAIN DigitValue
NextToken(t, i) ==
    LET two == t[i] \o CharAt(t, i + 1)
    IN  IF t[i] \in LowerCase THEN WordToken(t, i, WordEnd(t, i))
        ELSE IF StartsNumber(t, i)
        THEN Token("number", SubSeq(t, i, NumberEnd(t, i, FALSE) - 1), NumberEnd(t, i, FALSE))
        ELSE IF t[i] = "\"" THEN StringToken(t, i, QuoteEnd(t, i + 1))
        ELSE IF two \in TwoChars THEN Token(two, <<>>, i + 2)
        ELSE IF t[i] = "\n" THEN Token("newline", <<>>, i + 1)
        ELSE Token(IF t[i] \in OneChar THEN t[i] ELSE "error", <<>>, i + 1)

(* NewParser: all tokens, those between blanks and comments. *)
RECURSIVE Tokens(_, _), TokensFrom(_, _)
TokensFrom(t, tok) == <<tok>> \o Tokens(t, tok.end)
Tokens(t, i) ==
    IF i > Len(t) THEN <<>>
    ELSE IF t[i] \in {" ", "\t", "\r"} THEN Tokens(t, i + 1)
    ELSE IF t[i] = "#" THEN Tokens(t, LineEnd(t, i))
    ELSE IF t[i] = "/" /\ CharAt(t, i + 1) = "*" THEN Tokens(t, CommentEnd(t, i + 2))
    ELSE TokensFrom(t, NextToken(t, i))

-----------------------------------------------------------------------------
(* The parser of expressions.  A function that parses takes the tokens T   *)
(* and a position i, and returns what it found with the position behind it *)
(* or NotGot.                                                           *)

Got(it, at) == [ok |-> TRUE, it |-> it, at |-> at]
NotGot == [ok |-> FALSE, it |-> <<>>, at |-> 0]
None == [k |-> "none"]

TypeAt(T, i) == IF i \in DOMAIN T THEN T[i].type ELSE "eof"
Optional(T, p, type) == IF TypeAt(T, p.at) = type THEN [p EXCEPT !.at = @ + 1] ELSE p
Expect(T, p, type) ==
    IF p.ok /\ TypeAt(T, p.at) = type THEN [p EXCEPT !.at = @ + 1] ELSE NotGot
(* What p found, made into node unless p or what follows it is an error. *)
Into(p, node) == IF p.ok THEN [p EXCEPT !.it = node] ELSE NotGot
RECURSIVE skipNewlines(_, _)
skipNewlines(T, i) == IF TypeAt(T, i) = "newline" THEN skipNewlines(T, i + 1) ELSE i

Binary(op, l, r) == [k |-> "binary", op |-> op, l |-> l, r |-> r]
Unary(op, e, post) == [k |-> "unary", op |-> op, e |-> e, post |-> post]
Variable(name) == [k |-> "var", name |-> name]

(* The operators that associate to the left, by precedence, and those that assign. *)
BcOps == <<{"||"}, {"&&"}, {"==", "!=", "<", "<=", ">", ">="}, {"+", "-"}, {"*", "/", "%"}>>
AssignOps == [op \in {"=", "+=", "-=", "*=", "/=", "%=", "^="} |-> SubSeq(op, 1, 1)]

RECURSIVE parseAssignment(_, _), BcLevel(_, _, _), BcLoop(_, _, _), parsePower(_, _), parseUnary(_, _),
          bcPrimary(_, _), BcArgs(_, _, _)

(* x op= y is x = x op y. *)
Assigned(T, left, right) ==
    Into(right, [k |-> "assign", l |-> left.it,
                 r |-> IF TypeAt(T, left.at) = "=" THEN right.it
                       ELSE Binary(AssignOps[TypeAt(T, left.at)], left.it, right.it)])
AssignedTo(T, left) ==
    IF left.ok /\ TypeAt(T, left.at) \in DOMAIN AssignOps
    THEN Assigned(T, left, parseAssignment(T, left.at + 1)) ELSE left
parseAssignment(T, i) == AssignedTo(T, BcLevel(T, i, 1))

Joined2(T, left, right) == Into(right, Binary(TypeAt(T, left.at), left.it, right.it))
BcLoop(T, left, level) ==
    IF left.ok /\ TypeAt(T, left.at) \in BcOps[level]
    THEN BcLoop(T, Joined2(T, left, BcLevel(T, left.at + 1, level + 1)), level) ELSE left
BcLevel(T, i, level) ==
    IF level > Len(BcOps) THEN parsePower(T, i) ELSE BcLoop(T, BcLevel(T, i, level + 1), level)

Raised(T, left) ==
    IF left.ok /\ TypeAt(T, left.at) = "^" THEN Joined2(T, left, parsePower(T, left.at + 1)) ELSE left
parsePower(T, i) == Raised(T, parseUnary(T, i))

Signed(op, e) == Into(e, Unary(op, e.it, FALSE))
parseUnary(T, i) ==
    IF TypeAt(T, i) \in {"-", "+", "!", "++", "--"} THEN Signed(TypeAt(T, i), parseUnary(T, i + 1))
    ELSE bcPrimary(T, i)

(* The rest of a list of arguments, which a comma may end. *)
BcArg(T, args, arg) ==
    IF ~arg.ok THEN NotGot
    ELSE IF TypeAt(T, arg.at) = "," THEN BcArgs(T, arg.at + 1, Append(args, arg.it))
    ELSE Got(Append(args, arg.it), arg.at)
BcArgs(T, i, args) ==
    IF TypeAt(T, i) \in {")", "eof"} THEN Got(args, i) ELSE BcArg(T, args, parseAssignment(T, i))

Postfix(T, i, name) ==
    IF TypeAt(T, i) \in {"++", "--"} THEN Got(Unary(TypeAt(T, i), Variable(name), TRUE), i + 1)
    ELSE Got(Variable(name), i)
Called(name, args) == Into(args, [k |-> "call", name |-> name, args |-> args.it])
Indexed(name, index) == Into(index, [k |-> "index", name |-> name, index |-> index.it])
Enclosed2(e) == Into(e, [k |-> "paren", e |-> e.it])
Named2(T, i, name) ==
    IF TypeAt(T, i) = "(" THEN Called(name, Expect(T, BcArgs(T, i + 1, <<>>), ")"))
    ELSE IF TypeAt(T, i) = "[" /\ TypeAt(T, i + 1) = "]" THEN Indexed(name, Got(None, i + 2))
    ELSE IF TypeAt(T, i) = "[" THEN Indexed(name, Expect(T, parseAssignment(T, i + 1), "]"))
    ELSE Postfix(T, i, name)
bcPrimary(T, i) ==
    CASE TypeAt(T, i) \in {"number", "string"} -> Got([k |-> T[i].type, val |-> T[i].val], i + 1)
      [] TypeAt(T, i) = "ident" -> Named2(T, i + 1, T[i].val)
      [] TypeAt(T, i) = "(" -> Enclosed2(Expect(T, parseAssignment(T, i + 1), ")"))
      [] TypeAt(T, i) = "." -> Postfix(T, i + 1, Chars("last"))
      [] OTHER -> NotGot

-----------------------------------------------------------------------------
(* The parser of statements.  An empty statement is None, and left out of  *)
(* the list that it stands in.                                             *)

RECURSIVE parseStmt(_, _), BcBlock(_, _, _, _), BcParams(_, _, _), BcAutos(_, _, _)

Listed(stmts, s) == IF s.it.k = "none" THEN stmts ELSE Append(stmts, s.it)
BcBlockAfter(T, stmts, s, end) == IF s.ok THEN BcBlock(T, s.at, Listed(stmts, s), end) ELSE NotGot
BcBlock(T, i, stmts, end) ==
    IF TypeAt(T, skipNewlines(T, i)) = end THEN Got(stmts, skipNewlines(T, i) + 1)
    ELSE BcBlockAfter(T, stmts, parseStmt(T, skipNewlines(T, i)), end)
Block(b) == Into(b, [k |-> "block", stmts |-> b.it])

(* The expression of a return or a part of for, if there is one. *)
OptExpr(T, i, ends) == IF TypeAt(T, i) \in ends THEN Got(None, i) ELSE parseAssignment(T, i)
Body(T, p) == IF p.ok THEN parseStmt(T, skipNewlines(T, p.at)) ELSE NotGot

IfElse(cond, then, else) ==
    Into(else, [k |-> "if", cond |-> cond.it, then |-> then.it, else |-> else.it])
parseElse(T, cond, then, i) ==
    IF TypeAt(T, i) = "else" THEN IfElse(cond, then, Body(T, Got(None, i + 1)))
    ELSE IfElse(cond, then, Got(None, i))
parseThen(T, cond, then) ==
    IF then.ok THEN parseElse(T, cond, then, skipNewlines(T, then.at)) ELSE NotGot
parseIf(T, cond) == parseThen(T, cond, Body(T, cond))

WhileBody(cond, body) == Into(body, [k |-> "while", cond |-> cond.it, body |-> body.it])
parseWhile(T, cond) == WhileBody(cond, Body(T, cond))

ForBody(init, cond, step, body) ==
    Into(body, [k |-> "for", init |-> init.it, cond |-> cond.it, step |-> step.it, body |-> body.it])
ForStep(T, init, cond, step) == ForBody(init, cond, step, Body(T, step))
ForCond(T, init, cond) ==
    IF cond.ok THEN ForStep(T, init, cond, Expect(T, OptExpr(T, cond.at, {")"}), ")")) ELSE NotGot
parseFor(T, init) ==
    IF init.ok THEN ForCond(T, init, Expect(T, OptExpr(T, init.at, {";"}), ";")) ELSE NotGot

parseReturn(T, e) == IF e.ok THEN Optional(T, Into(e, [k |-> "return", e |-> e.it]), ";") ELSE NotGot
parsePrint(T, args) ==
    IF args.ok THEN Optional(T, Into(args, [k |-> "print", args |-> args.it]), ";") ELSE NotGot
parseExprStmt(T, e) ==
    IF e.ok THEN Optional(T, Optional(T, Into(e, [k |-> "expr", e |-> e.it]), ";"), "newline")
    ELSE NotGot
RECURSIVE PrintArgs(_, _, _)
PrintArgs(T, args, arg) ==
    IF arg.ok /\ TypeAt(T, arg.at) = ","
    THEN PrintArgs(T, Append(args, arg.it), parseAssignment(T, arg.at + 1))
    ELSE Into(arg, Append(args, arg.it))

(* A parameter or an auto variable: a name, and whether it is an array. *)
Brackets(T, i) == IF TypeAt(T, i) # "[" THEN 0 ELSE IF TypeAt(T, i + 1) = "]" THEN 2 ELSE -1
Declared(T, i, ref) == [name |-> T[i].val, array |-> Brackets(T, i + 1) = 2, ref |-> ref]
IsDeclared(T, i) == TypeAt(T, i) = "ident" /\ Brackets(T, i + 1) >= 0
BcDeclare(T, i, ref, list) ==
    IF IsDeclared(T, i) /\ (ref => Brackets(T, i + 1) = 2)
    THEN Got(Append(list, Declared(T, i, ref)), i + 1 + Brackets(T, i + 1)) ELSE NotGot
NextParam(T, p) == IF p.ok /\ TypeAt(T, p.at) = "," THEN BcParams(T, p.at + 1, p.it) ELSE p
BcParams(T, i, list) ==
    IF TypeAt(T, i) \in {")", "eof"} THEN Got(list, i)
    ELSE IF TypeAt(T, i) = "*" THEN NextParam(T, BcDeclare(T, i + 1, TRUE, list))
    ELSE NextParam(T, BcDeclare(T, i, FALSE, list))
NextAuto(T, p) == IF p.ok /\ TypeAt(T, p.at) = "," THEN BcAutos(T, p.at + 1, p.it) ELSE p
BcAutos(T, i, list) == NextAuto(T, BcDeclare(T, i, FALSE, list))

Define(void, name, params, autos, body) ==
    Into(body, [k |-> "define", void |-> void, name |-> name, params |-> params.it,
                autos |-> autos.it, body |-> body.it])
DefineBody(T, void, name, params, autos) ==
    IF autos.ok THEN Define(void, name, params, autos, Block(BcBlock(T, autos.at, <<>>, "}")))
    ELSE NotGot
DefineAutos(T, void, name, params, i) ==
    IF TypeAt(T, i) = "auto"
    THEN DefineBody(T, void, name, params, Optional(T, BcAutos(T, i + 1, <<>>), ";"))
    ELSE DefineBody(T, void, name, params, Got(<<>>, i))
DefineParams(T, void, name, params) ==
    IF params.ok /\ TypeAt(T, skipNewlines(T, params.at)) = "{"
    THEN DefineAutos(T, void, name, params, skipNewlines(T, skipNewlines(T, params.at) + 1))
    ELSE NotGot
IsVoid(T, i) == TypeAt(T, i) = "ident" /\ T[i].val = Chars("void") /\ TypeAt(T, i + 1) = "ident"
DefineNamed(T, void, i) ==
    IF TypeAt(T, i) = "ident" /\ TypeAt(T, i + 1) = "("
    THEN DefineParams(T, void, T[i].val, Expect(T, BcParams(T, i + 2, <<>>), ")")) ELSE NotGot
parseDefine(T, i) == DefineNamed(T, IsVoid(T, i), IF IsVoid(T, i) THEN i + 1 ELSE i)

Opened2(T, i) == Expect(T, Got(None, i), "(")
InParens(T, p) == IF p.ok THEN Expect(T, parseAssignment(T, p.at), ")") ELSE NotGot
parseStmt(T, i) ==
    CASE TypeAt(T, i) = ";" -> Got(None, i + 1)
      [] TypeAt(T, i) = "{" -> Block(BcBlock(T, i + 1, <<>>, "}"))
      [] TypeAt(T, i) = "if" -> parseIf(T, InParens(T, Opened2(T, i + 1)))
      [] TypeAt(T, i) = "while" -> parseWhile(T, InParens(T, Opened2(T, i + 1)))
      [] TypeAt(T, i) = "for" ->
            IF TypeAt(T, i + 1) = "(" THEN parseFor(T, Expect(T, OptExpr(T, i + 2, {";"}), ";"))
            ELSE NotGot
      [] TypeAt(T, i) = "return" ->
            parseReturn(T, OptExpr(T, i + 1, {"newline", ";", "eof", "}"}))
      [] TypeAt(T, i) \in {"break", "continue", "halt"} ->
            Optional(T, Got([k |-> TypeAt(T, i)], i + 1), ";")
      [] TypeAt(T, i) = "print" -> parsePrint(T, PrintArgs(T, <<>>, parseAssignment(T, i + 1)))
      [] TypeAt(T, i) = "define" -> parseDefine(T, i + 1)
      [] OTHER -> parseExprStmt(T, parseAssignment(T, i))

ParseBc(text) == LET T == Tokens(Spliced(text), 1) IN BcBlock(T, 1, <<>>, "eof")

-----------------------------------------------------------------------------
(* Values: numbers, strings, nothing, and references to arrays. *)

BcNum(r, fd, neg) == [type |-> "num", n |-> r.n, d |-> r.d, fd |-> fd, neg |-> neg \/ r.n < 0]
newValNum(r, fd) == BcNum(r, fd, FALSE)
BcInt(n) == newValNum([n |-> n, d |-> 1], 0)
newValStr(s) == [type |-> "str", str |-> s]
newValVoid == [type |-> "void"]
newValArrayRef(at) == [type |-> "array", at |-> at]
IsTrue(v) == IF v.type = "num" THEN v.n # 0 ELSE FALSE
OneIf(b) == [n |-> IF b THEN 1 ELSE 0, d |-> 1]

(* A digit beyond the base counts as the largest, unless it stands alone. *)
InBase(digits, ibase) ==
    FoldLeft(LAMBDA n, c : n * ibase + (IF digitVal[c] < ibase THEN digitVal[c] ELSE ibase - 1), 0, digits)
Significant(digits) ==
    LET first == SelectInSeq(digits, LAMBDA c : c # "0")
    IN  IF first = 0 THEN <<>> ELSE SubSeq(digits, first, Len(digits))
parseNumberInBase(s, ibase) ==
    LET point == SelectInSeq(s, LAMBDA c : c = ".")
        places == IF point = 0 THEN 0 ELSE Len(s) - point
        digits == SelectSeq(s, LAMBDA c : c # ".")
    IN  IF point = 0 /\ Len(Significant(digits)) = 1
        THEN newValNum([n |-> digitVal[Last(digits)], d |-> 1], 0)
        ELSE newValNum(Fraction(InBase(digits, ibase), ibase ^ places), places)

(* The places shown of a number in a base that is not ten are as many as   *)
(* it takes for the same precision; a zero shows its own.                  *)
RECURSIVE BaseDigits(_, _), FractionDigits(_, _, _)
BaseDigits(n, base) == IF n = 0 THEN <<>> ELSE Append(BaseDigits(n \div base, base), n % base)
FractionDigits(r, base, places) ==
    IF places = 0 THEN <<>>
    ELSE <<(r.n * base) \div r.d>> \o FractionDigits([n |-> (r.n * base) % r.d, d |-> r.d], base, places - 1)
PrintScale(v, obase) ==
    IF obase = 10 \/ v.fd <= 0 \/ v.n = 0 THEN v.fd
    ELSE CHOOSE k \in 1 .. 4 * v.fd : obase ^ k >= 10 ^ v.fd /\ obase ^ (k - 1) < 10 ^ v.fd
formatDigit(n, obase) ==
    IF obase <= 16 THEN <<DigitOrder[n + 1]>> ELSE <<Digits[(n \div 10) + 1], Digits[(n % 10) + 1]>>
WholeText(digits, obase) ==
    FlattenSeq([i \in DOMAIN digits |-> (IF obase > 16 THEN <<" ">> ELSE <<>>) \o formatDigit(digits[i], obase)])
FractionText(digits, obase) ==
    FlattenSeq([i \in DOMAIN digits |->
        (IF obase > 16 /\ i > 1 THEN <<" ">> ELSE <<>>) \o formatDigit(digits[i], obase)])
ShownWith(whole, fraction, obase, places) ==
    IF places <= 0 THEN WholeText(IF whole = <<>> THEN <<0>> ELSE whole, obase)
    ELSE WholeText(whole, obase) \o <<".">> \o FractionText(fraction, obase)
bcFormat(v, obase) ==
    IF v.n = 0 /\ (v.fd <= 0 \/ ~v.neg) THEN <<"0">>
    ELSE (IF v.neg THEN <<"-">> ELSE <<>>)
         \o ShownWith(BaseDigits(Abs(v.n) \div v.d, obase),
                      FractionDigits([n |-> Abs(v.n) % v.d, d |-> v.d], obase, MaxOf(0, PrintScale(v, obase))),
                      obase, PrintScale(v, obase))

(* valLength: the digits without leading zeros; all decimals of a zero. *)
valLength(v) ==
    IF v.n = 0 THEN MaxOf(v.fd, 1)
    ELSE Len(Significant(SelectSeq(bcFormat(v, 10), LAMBDA c : c \notin {"-", "."})))

(* valSqrt: what the root, taken with many more binary places, shows. *)
valSqrt(v, scale) ==
    LET fd == MaxOf(v.fd, scale)
    IN  newValNum(Fraction(IntSqrt((v.n * 10 ^ (2 * fd)) \div v.d), 10 ^ fd), fd)

(* printWrapped: a long number goes over several lines. *)
RECURSIVE printWrapped(_, _)
printWrapped(s, width) ==
    IF width = 2 THEN <<"\\", "\n">> \o s
    ELSE IF width < 2 \/ Len(s) <= width - 2 THEN s
    ELSE SubSeq(s, 1, width - 2) \o <<"\\", "\n">> \o printWrapped(SubSeq(s, width - 1, Len(s)), width)

(* unescapeBcString: an escape that means nothing loses its character. *)
Escapes == ("a" :> "BEL") @@ ("b" :> "BS") @@ ("f" :> "\f") @@ ("n" :> "\n") @@ ("r" :> "\r")
           @@ ("t" :> "\t") @@ ("\\" :> "\\") @@ ("\"" :> "\"")
RECURSIVE unescapeBcString(_)
unescapeBcString(s) ==
    IF s = <<>> THEN <<>>
    ELSE IF s[1] # "\\" \/ Len(s) = 1 THEN <<s[1]>> \o unescapeBcString(Tail(s))
    ELSE <<IF s[2] \in DOMAIN Escapes THEN Escapes[s[2]] ELSE "\\">>
         \o unescapeBcString(SubSeq(s, 3, Len(s)))

(* Numbers that lose their value lose their places too. *)
Settled(v) == IF v.n = 0 THEN [v EXCEPT !.fd = 0] ELSE v
FromDc(v) == Settled(newValNum(v, v.fd))
Compared3(op, a, b) ==
    CASE op = "==" -> RatEqual(a, b)
      [] op = "!=" -> ~RatEqual(a, b)
      [] op = "<" -> RatLess(a, b)
      [] op = "<=" -> ~RatLess(b, a)
      [] op = ">" -> RatLess(b, a)
      [] op = ">=" -> ~RatLess(a, b)
      [] op = "&&" -> IsTrue(a) /\ IsTrue(b)
      [] op = "||" -> IsTrue(a) \/ IsTrue(b)
BinaryValue(op, a, b, scale) ==
    CASE op = "+" -> newValNum(RatAdd(a, b), MaxOf(a.fd, b.fd))
      [] op = "-" -> newValNum(RatSub(a, b), MaxOf(a.fd, b.fd))
      [] op = "*" -> FromDc(Product(a, b, scale))
      [] op = "/" -> FromDc(Quotient(a, b, scale))
      [] op = "%" -> FromDc(Remainder(a, b, scale))
      [] op = "^" -> FromDc(Power(a, b, scale))
      [] OTHER -> newValNum(OneIf(Compared3(op, a, b)), 0)
UnaryValue(op, v) ==
    CASE op = "-" -> BcNum([n |-> -v.n, d |-> v.d], v.fd, ~v.neg)
      [] op = "+" -> v
      [] op = "!" -> BcNum(OneIf(~IsTrue(v)), v.fd, FALSE)

-----------------------------------------------------------------------------
(* The interpreter: the scopes, which are the globals and, in a function,  *)
(* its own; the arrays that they name; the functions; what was printed.    *)

NewScope == [vars |-> <<>>, arrays |-> <<>>]
NewInterpreter(stdin, width) ==
    [scopes |-> <<NewScope>>, heap |-> <<>>, functions |-> <<>>, scale |-> 0, ibase |-> 10, obase |-> 10,
     last |-> BcInt(0), halted |-> FALSE, ok |-> TRUE, stdin |-> stdin, width |-> width, out |-> <<>>]

Ret(m, v) == [m |-> m, v |-> v]
Fails(m) == Ret([m EXCEPT !.ok = FALSE], newValVoid)
Write2(m, text) == [m EXCEPT !.out = @ \o text]

(* The innermost scope that knows a name; 0 if there is none. *)
VarHome(m, name) == SelectLastInSeq(m.scopes, LAMBDA s : name \in DOMAIN s.vars)
ArrayHome(m, name) == SelectLastInSeq(m.scopes, LAMBDA s : name \in DOMAIN s.arrays)
Home(m, found) == IF found = 0 THEN Len(m.scopes) ELSE found

Get(m, name) ==
    IF VarHome(m, name) = 0 THEN BcInt(0) ELSE m.scopes[VarHome(m, name)].vars[name]
Set(m, name, v) ==
    [m EXCEPT !.scopes[Home(m, VarHome(m, name))].vars = (name :> v) @@ @]

(* GetArrayRef and SetArray make an array that nobody knows in the innermost scope. *)
NewArray(m, name, contents) ==
    [m EXCEPT !.heap = Append(@, contents), !.scopes[Len(m.scopes)].arrays = (name :> Len(m.heap) + 1) @@ @]
GetArrayRef(m, name) == IF ArrayHome(m, name) = 0 THEN NewArray(m, name, <<>>) ELSE m
AddressOf(m, name) == m.scopes[ArrayHome(m, name)].arrays[name]
GetArray(m, name, i) ==
    IF ArrayHome(m, name) = 0 THEN BcInt(0)
    ELSE IF i \in DOMAIN m.heap[AddressOf(m, name)] THEN m.heap[AddressOf(m, name)][i] ELSE BcInt(0)
SetCell(m, at, i, v) == [m EXCEPT !.heap[at] = (i :> v) @@ @]
SetArray(m, name, i, v) ==
    SetCell(GetArrayRef(m, name), AddressOf(GetArrayRef(m, name), name), i, v)
arrayLength(cells) == Max({i + 1 : i \in DOMAIN cells} \cup {0})

(* The variables of the interpreter itself. *)
Scale == Chars("scale")
Ibase == Chars("ibase")
Obase == Chars("obase")
LastValue == Chars("last")
GetVar(m, name) ==
    CASE name = Scale -> BcInt(m.scale)
      [] name = Ibase -> BcInt(m.ibase)
      [] name = Obase -> BcInt(m.obase)
      [] name = LastValue -> m.last
      [] OTHER -> Get(m, name)
SetVar(m, name, v) ==
    CASE name = Scale -> [m EXCEPT !.scale = RatToInt64(v)]
      [] name = Ibase -> [m EXCEPT !.ibase = Max({2, Min({36, RatToInt64(v)})})]
      [] name = Obase -> [m EXCEPT !.obase = RatToInt64(v)]
      [] name = LastValue -> [m EXCEPT !.last = v]
      [] OTHER -> Set(m, name, v)

-----------------------------------------------------------------------------
(* Expressions: the value with the interpreter after it. *)

RECURSIVE eval(_, _), execStmt(_, _), EvalArgs(_, _, _), execBlock(_, _), Loop(_, _, _), ReadStmts(_, _, _)

IndexedValue(i, name) ==
    IF i.m.ok THEN Ret(i.m, GetArray(i.m, name, RatToInt64(i.v))) ELSE Fails(i.m)
ReferenceTo(m, name) == Ret(m, newValArrayRef(AddressOf(m, name)))

AssignCell(i, name, v) == IF i.m.ok THEN Ret(SetArray(i.m, name, RatToInt64(i.v), v), v) ELSE Fails(i.m)
AssignTo(m, lhs, v) ==
    CASE lhs.k = "var" -> Ret(SetVar(m, lhs.name, v), v)
      [] lhs.k = "index" -> AssignCell(eval(m, lhs.index), lhs.name, v)
      [] OTHER -> Fails(m)
AssignValue(r, lhs) ==
    IF r.m.ok /\ r.v.type = "num" THEN AssignTo(r.m, lhs, r.v) ELSE Fails(r.m)

BinaryOf(a, r, op) ==
    IF ~r.m.ok \/ a.type # "num" \/ r.v.type # "num" THEN Fails(r.m)
    ELSE IF op \in {"/", "%"} /\ r.v.n = 0 THEN Fails(r.m)
    ELSE Ret(r.m, BinaryValue(op, a, r.v, r.m.scale))
BinaryLeft(l, e) == IF l.m.ok THEN BinaryOf(l.v, eval(l.m, e.r), e.op) ELSE Fails(l.m)
UnaryOf(r, op) ==
    IF r.m.ok /\ r.v.type = "num" THEN Ret(r.m, UnaryValue(op, r.v)) ELSE Fails(r.m)

Stepped(op, v, fd) ==
    newValNum([n |-> IF op = "++" THEN v.n + v.d ELSE v.n - v.d, d |-> v.d], fd)
OldOrNew(post, m, old, new) == Ret(m, IF post THEN old ELSE new)
StepVar(m, e, old, new) == OldOrNew(e.post, SetVar(m, e.e.name, new), old, new)
StepCell(m, e, i, old, new) == OldOrNew(e.post, SetArray(m, e.e.name, i, new), old, new)
StepPlaces(name, v) == IF name \in {Scale, Ibase, Obase, LastValue} THEN 0 ELSE v.fd
StepVarFrom(m, e, old) == StepVar(m, e, old, Stepped(e.op, old, StepPlaces(e.e.name, old)))
StepCellFrom(m, e, i, old) == StepCell(m, e, i, old, Stepped(e.op, old, old.fd))
StepAt(i, e) ==
    IF i.m.ok THEN StepCellFrom(i.m, e, RatToInt64(i.v), GetArray(i.m, e.e.name, RatToInt64(i.v)))
    ELSE Fails(i.m)
Step(m, e) ==
    CASE e.e.k = "var" -> StepVarFrom(m, e, GetVar(m, e.e.name))
      [] e.e.k = "index" -> StepAt(eval(m, e.e.index), e)
      [] OTHER -> Fails(m)

EvalArgs(m, args, vs) ==
    IF ~m.ok \/ args = <<>> THEN [m |-> m, vs |-> vs]
    ELSE LET arg == eval(m, Head(args)) IN EvalArgs(arg.m, Tail(args), Append(vs, arg.v))

Length(m, v) == BcInt(IF v.type = "array" THEN arrayLength(m.heap[v.at]) ELSE valLength(v))
Builtins == {Chars("length"), Scale, Chars("sqrt")}
BuiltinOf(a, name) ==
    CASE ~a.m.ok -> Fails(a.m)
      [] a.m.ok /\ name = Chars("length") -> Ret(a.m, Length(a.m, a.v))
      [] a.m.ok /\ name = Scale -> Ret(a.m, BcInt(a.v.fd))
      [] a.m.ok /\ name = Chars("sqrt") ->
            IF a.v.n < 0 THEN Fails(a.m) ELSE Ret(a.m, valSqrt(a.v, a.m.scale))
Builtin(m, name, args) == IF Len(args) = 1 THEN BuiltinOf(eval(m, args[1]), name) ELSE Fails(m)

(* read: a line of standard input is run as a program; its last expression *)
(* is the value, and is not printed.                                       *)
ReadStmts(m, stmts, v) ==
    IF ~m.ok THEN Fails(m)
    ELSE IF stmts = <<>> THEN Ret(m, v)
    ELSE IF Head(stmts).k = "expr"
    THEN LET r == eval(m, Head(stmts).e) IN ReadStmts(r.m, Tail(stmts), r.v)
    ELSE ReadStmts(execStmt(m, Head(stmts)).m, Tail(stmts), v)
ReadParsed(m, p) == IF p.ok THEN ReadStmts(m, p.it, BcInt(0)) ELSE Fails(m)
Read(m, args) ==
    IF args # <<>> THEN Fails(m)
    ELSE IF m.stdin = <<>> THEN Ret(m, BcInt(0))
    ELSE ReadParsed([m EXCEPT !.stdin = Tail(@)], ParseBc(Head(m.stdin)))

(* The scope of a call: an array is bound as it is if the parameter is a   *)
(* reference, and copied otherwise.                                        *)
BindParam(m, p, v) ==
    IF ~p.array THEN [m EXCEPT !.scopes[2].vars = (p.name :> v) @@ @]
    ELSE IF v.type # "array" THEN NewArray(m, p.name, <<>>)
    ELSE IF p.ref THEN [m EXCEPT !.scopes[2].arrays = (p.name :> v.at) @@ @]
    ELSE NewArray(m, p.name, m.heap[v.at])
BindAuto(m, a) ==
    IF a.array THEN NewArray(m, a.name, <<>>) ELSE [m EXCEPT !.scopes[2].vars = (a.name :> BcInt(0)) @@ @]
BindParams(m, decl, vs) ==
    FoldLeft(LAMBDA b, i : BindParam(b, decl.params[i], vs[i]),
             [m EXCEPT !.scopes = <<m.scopes[1], NewScope>>], [i \in DOMAIN vs |-> i])
Bound(m, decl, vs) == FoldLeft(BindAuto, BindParams(m, decl, vs), decl.autos)

Returned(m, decl, r) ==
    IF ~r.m.ok THEN Fails(r.m)
    ELSE Ret([r.m EXCEPT !.scopes = <<@[1]>> \o Tail(m.scopes)],
             IF decl.void THEN newValVoid
             ELSE IF r.flow = "return" /\ r.v.type # "void" THEN r.v ELSE BcInt(0))
CallWith(a, decl) ==
    IF a.m.ok THEN Returned(a.m, decl, execStmt(Bound(a.m, decl, a.vs), decl.body)) ELSE Fails(a.m)
CallNamed(m, decl, args) ==
    IF Len(args) = Len(decl.params) THEN CallWith(EvalArgs(m, args, <<>>), decl) ELSE Fails(m)
Call(m, name, args) ==
    IF name \in Builtins THEN Builtin(m, name, args)
    ELSE IF name = Chars("read") THEN Read(m, args)
    ELSE IF name \in DOMAIN m.functions THEN CallNamed(m, m.functions[name], args) ELSE Fails(m)

eval(m, e) ==
    CASE e.k = "paren" -> eval(m, e.e)
      [] e.k = "number" -> Ret(m, parseNumberInBase(e.val, m.ibase))
      [] e.k = "string" -> Ret(m, newValStr(e.val))
      [] e.k = "var" -> Ret(m, GetVar(m, e.name))
      [] e.k = "index" -> IF e.index.k = "none" THEN ReferenceTo(GetArrayRef(m, e.name), e.name)
                          ELSE IndexedValue(eval(m, e.index), e.name)
      [] e.k = "assign" -> AssignValue(eval(m, e.r), e.l)
      [] e.k = "binary" -> BinaryLeft(eval(m, e.l), e)
      [] e.k = "unary" -> IF e.op \in {"++", "--"} THEN Step(m, e) ELSE UnaryOf(eval(m, e.e), e.op)
      [] e.k = "call" -> Call(m, e.name, e.args)

-----------------------------------------------------------------------------
(* Statements: where they leave the flow of control. *)

Flow(m, flow) == [m |-> m, flow |-> flow, v |-> newValVoid]
Normal(m) == Flow(m, "normal")

printNum(m, v) == Write2(m, printWrapped(bcFormat(v, m.obase), m.width))
ShowValue(r) ==
    CASE r.v.type = "num" -> Write2(printNum([r.m EXCEPT !.last = r.v], r.v), <<"\n">>)
      [] r.v.type = "str" -> Write2(r.m, r.v.str)
      [] OTHER -> r.m
execExpr(r, e) == IF r.m.ok /\ e.k # "assign" THEN Normal(ShowValue(r)) ELSE Normal(r.m)

PrintValue(r) ==
    CASE r.v.type = "num" -> printNum(r.m, r.v)
      [] r.v.type = "str" -> Write2(r.m, unescapeBcString(r.v.str))
      [] OTHER -> r.m
execPrint(m, args) ==
    FoldLeft(LAMBDA n, arg : IF n.ok THEN PrintValue(eval(n, arg)) ELSE n, m, args)

BlockAfter(r, stmts) == IF r.m.ok /\ r.flow = "normal" THEN execBlock(r.m, stmts) ELSE r
execBlock(m, stmts) ==
    IF stmts = <<>> THEN Normal(m) ELSE BlockAfter(execStmt(m, Head(stmts)), Tail(stmts))

execIf(c, s) ==
    IF ~c.m.ok THEN Normal(c.m) ELSE execStmt(c.m, IF IsTrue(c.v) THEN s.then ELSE s.else)

(* The loops of while and for, which has a step: a break ends one, and     *)
(* what a continue leaves out does not include the step.                   *)
Test(m, cond) == IF cond.k = "none" THEN Ret(m, BcInt(1)) ELSE eval(m, cond)
StepLoop(m, step) == IF step.k = "none" THEN m ELSE eval(m, step).m
LoopAfter(r, s, step) ==
    IF ~r.m.ok \/ r.flow = "break" THEN Normal(r.m)
    ELSE IF r.flow = "return" THEN r
    ELSE Loop(StepLoop(r.m, step), s, step)
LoopTested(c, s, step) ==
    IF c.m.ok /\ IsTrue(c.v) THEN LoopAfter(execStmt(c.m, s.body), s, step) ELSE Normal(c.m)
Loop(m, s, step) == IF m.ok THEN LoopTested(Test(m, s.cond), s, step) ELSE Normal(m)

execReturn(r) == IF r.m.ok THEN [m |-> r.m, flow |-> "return", v |-> r.v] ELSE Normal(r.m)
execStmt(m, s) ==
    CASE s.k = "none" -> Normal(m)
      [] s.k = "define" -> Normal([m EXCEPT !.functions = (s.name :> s) @@ @])
      [] s.k = "expr" -> execExpr(eval(m, s.e), s.e)
      [] s.k = "block" -> execBlock(m, s.stmts)
      [] s.k = "if" -> execIf(eval(m, s.cond), s)
      [] s.k = "while" -> Loop(m, s, None)
      [] s.k = "for" -> Loop(StepLoop(m, s.init), s, s.step)
      [] s.k = "return" -> execReturn(IF s.e.k = "none" THEN Ret(m, newValVoid) ELSE eval(m, s.e))
      [] s.k = "halt" -> Normal([m EXCEPT !.halted = TRUE])
      [] s.k = "print" -> Normal(execPrint(m, s.args))
      [] s.k \in {"break", "continue"} -> Flow(m, s.k)

(* Execute: a halt takes effect between the statements of the program. *)
Execute(m, stmts) ==
    FoldLeft(LAMBDA n, s : IF n.ok /\ ~n.halted THEN execStmt(n, s).m ELSE n, m, stmts)

(* Run: the whole text is parsed before any of it is executed. *)
Finished3(m) == [status |-> IF m.ok THEN 0 ELSE 1, out |-> m.out]
RunParsed(m, p) == Finished3(IF p.ok THEN Execute(m, p.it) ELSE [m EXCEPT !.ok = FALSE])
bc(job) == RunParsed(NewInterpreter(job.stdin, job.width), ParseBc(job.text))
=============================================================================
