----------------------------- MODULE Calculator -----------------------------
(***************************************************************************)
(* dc: a stack machine on rational numbers and strings, whose registers    *)
(* are stacks too and whose macros are strings run by a nested call.       *)
(*                                                                         *)
(* A number is the fraction n/d in lowest terms with the count fd of       *)
(* decimal places it is printed with.  The flag negZero is left out: it    *)
(* is handed from zero to zero, and a zero prints as 0 whatever it says.   *)
(*                                                                         *)
(* factor: unsigned integers of UintBits bits and their prime factors.     *)
(***************************************************************************)
EXTENDS GoWords, TLC

CONSTANT UintBits

MaxOf(a, b) == IF a > b THEN a ELSE b

-----------------------------------------------------------------------------
(* math/big: fractions. *)

RECURSIVE GCD(_, _), IntSqrt(_)
GCD(a, b) == IF b = 0 THEN a ELSE GCD(b, a % b)
Abs(n) == IF n < 0 THEN -n ELSE n
Fraction(n, d) ==
    LET g == GCD(Abs(n), Abs(d))
        sign == IF d < 0 THEN -1 ELSE 1
    IN  [n |-> sign * (n \div g), d |-> Abs(d) \div g]
IntSqrt(n) ==
    LET r == 2 * IntSqrt(n \div 4)
    IN  IF n = 0 THEN 0 ELSE IF (r + 1) * (r + 1) <= n THEN r + 1 ELSE r

RatAdd(a, b) == Fraction(a.n * b.d + b.n * a.d, a.d * b.d)
RatSub(a, b) == Fraction(a.n * b.d - b.n * a.d, a.d * b.d)
RatMul(a, b) == Fraction(a.n * b.n, a.d * b.d)
RatQuo(a, b) == Fraction(a.n * b.d, a.d * b.n)
RatLess(a, b) == a.n * b.d < b.n * a.d
RatEqual(a, b) == a.n * b.d = b.n * a.d

RatToInt64(r) == Quo(r.n, r.d)
RatTruncate(r, scale) ==
    LET factor == 10 ^ MaxOf(0, scale)
    IN  Fraction(Quo(r.n * factor, r.d), factor)

RECURSIVE ratPowInt(_, _)
ratPowInt(b, e) == IF e = 0 THEN Fraction(1, 1) ELSE RatMul(b, ratPowInt(b, e - 1))

ratSqrtNewton(a, scale) ==
    Fraction(IntSqrt(a.n * a.d * 10 ^ (2 * (scale + 2))), a.d * 10 ^ (scale + 2))

(* big.Int.Exp: the Euclidean remainder.  (For exponents that are not      *)
(* negative; the others ask for a modular inverse.)                        *)
ratModExpVal(base, exp, mod) ==
    LET b == RatToInt64(base)
        e == RatToInt64(exp)
        m == Abs(RatToInt64(mod))
    IN  IF exp.n = 0 THEN 1
        ELSE IF m = 0 THEN 0
        ELSE ratPowInt([n |-> b % m, d |-> 1], e).n % m

-----------------------------------------------------------------------------
(* Values. *)

Exact(r, fd) == [isStr |-> FALSE, str |-> <<>>, n |-> r.n, d |-> r.d, fd |-> fd]
Integer(n) == Exact([n |-> n, d |-> 1], 0)
Macro(s) == [isStr |-> TRUE, str |-> s, n |-> 0, d |-> 1, fd |-> 0]
IsNull(v) == IF v.isStr THEN v.str = <<>> ELSE v.n = 0
AsNumber(v) == IF v.isStr THEN Integer(0) ELSE v

(* parseNumber: where the number that starts at i ends, or i. *)
parseNumber(code, i) ==
    LET start == IF CharAt(code, i) = "_" THEN i + 1 ELSE i
        point == DigitsEnd(code, start)
        first == IF CharAt(code, start) = "." THEN start + 1 ELSE start
    IN  IF CharAt(code, first) \notin DOMAIN DigitValue THEN i
        ELSE IF CharAt(code, point) = "." THEN DigitsEnd(code, point + 1)
        ELSE point

(* A point with no digit behind it counts as one decimal place. *)
newNumStr(s) ==
    LET sign == IF s[1] = "_" THEN -1 ELSE 1
        digits == SelectSeq(s, LAMBDA c : c \notin {"_", "."})
        point == SelectInSeq(s, LAMBDA c : c = ".")
        places == IF point = 0 THEN 0 ELSE Len(s) - point
    IN  Exact(Fraction(sign * DigitsValue(digits), 10 ^ places),
               IF point = Len(s) THEN 1 ELSE places)

RECURSIVE Padded(_, _)
Padded(n, width) ==
    IF width = 0 THEN <<>> ELSE Append(Padded(n \div 10, width - 1), Digits[(n % 10) + 1])

(* With scale 0 a fraction shows all its decimals, else exactly scale. *)
formatRat(r, scale) ==
    LET whole == Abs(r.n) \div r.d
        rest == Abs(r.n) % r.d
        width == IF scale > 0 THEN scale
                 ELSE CHOOSE w \in 0 .. 9 : /\ (rest * 10 ^ w) % r.d = 0
                                            /\ \A u \in 0 .. w - 1 : (rest * 10 ^ u) % r.d # 0
        decimals == Padded((rest * 10 ^ width) \div r.d, width)
    IN  IF r.n = 0 THEN <<"0">>
        ELSE (IF r.n < 0 THEN <<"-">> ELSE <<>>)
             \o (IF whole = 0 THEN <<>> ELSE FormatNat(whole))
             \o (IF width = 0 THEN <<>> ELSE <<".">> \o decimals)

Shown(v) == IF v.isStr THEN v.str ELSE formatRat(v, v.fd)

(* Z: the digits as formatted to the current scale, zeros in front of them left out. *)
DigitCount(v, scale) ==
    LET shown == SelectSeq(formatRat(v, scale), LAMBDA c : c \notin {"-", "."})
        padded == shown \o [j \in 1 .. MaxOf(0, v.fd - Len(shown)) |-> "0"]
        first == SelectInSeq(padded, LAMBDA c : c # "0")
    IN  IF v.isStr THEN Len(v.str)
        ELSE IF first = 0 THEN 1 ELSE Len(padded) - first + 1

-----------------------------------------------------------------------------
(* Arithmetic: what replaces the operands a and b, the second on top. *)

(* Mutant of Remainder: it gets the places of the dividend only. *)
RemainderShort(a, b, scale) ==
    LET q == RatTruncate(RatQuo(a, b), scale)
    IN  Exact(RatTruncate(RatSub(a, RatMul(q, b)), a.fd), a.fd)
Remainder(a, b, scale) ==
    LET q == RatTruncate(RatQuo(a, b), scale)
        fd == MaxOf(a.fd, scale + b.fd)
    IN  Exact(RatTruncate(RatSub(a, RatMul(q, b)), fd), fd)
Quotient(a, b, scale) == Exact(RatTruncate(RatQuo(a, b), scale), scale)

Product(a, b, scale) ==
    LET most == MaxOf(MaxOf(scale, a.fd), b.fd)
        fd == IF a.fd + b.fd > most THEN most ELSE a.fd + b.fd
    IN  Exact(RatTruncate(RatMul(a, b), fd), fd)

Power(a, b, scale) ==
    LET e == RatToInt64(b)
        most == MaxOf(scale, a.fd)
        fd == IF e * a.fd > most THEN most ELSE e * a.fd
    IN  IF e = 0 THEN Integer(1)
        ELSE IF a.n = 0 THEN Integer(0)
        ELSE IF e < 0
        THEN Exact(RatTruncate(RatQuo([n |-> 1, d |-> 1], ratPowInt(a, -e)), scale), scale)
        ELSE Exact(RatTruncate(ratPowInt(a, e), fd), fd)

Calculated(op, a, b, scale) ==
    CASE op = "+" -> <<Exact(RatAdd(a, b), MaxOf(a.fd, b.fd))>>
      [] op = "-" -> <<Exact(RatSub(a, b), MaxOf(a.fd, b.fd))>>
      [] op = "*" -> <<Product(a, b, scale)>>
      [] op = "/" -> <<Quotient(a, b, scale)>>
      [] op = "%" -> <<Remainder(a, b, scale)>>
      [] op = "~" -> <<Quotient(a, b, scale), Remainder(a, b, scale)>>
      [] op = "^" -> <<Power(a, b, scale)>>

Compared2(op, a, b) ==
    Integer(IF CASE op = "(" -> RatLess(b, a)
                 [] op = "{" -> ~RatLess(a, b)
                 [] op = "G" -> RatEqual(a, b)
            THEN 1 ELSE 0)

-----------------------------------------------------------------------------
(* The machine: its stacks, the scale, the lines printed and those still   *)
(* unread on standard input, and whether evalDC has returned an error.     *)

Machine(extended, stdin) ==
    [stack |-> <<>>, regs |-> <<>>, scale |-> 0, out |-> <<>>, stdin |-> stdin,
     extended |-> extended, failed |-> FALSE]

Depth(m) == Len(m.stack)
Push(m, v) == [m EXCEPT !.stack = Append(@, v)]
PushAll(m, vs) == [m EXCEPT !.stack = @ \o vs]
Top(m, k) == m.stack[Depth(m) - k]
Drop(m, k) == [m EXCEPT !.stack = SubSeq(@, 1, Len(@) - k)]
Failing(m) == [m EXCEPT !.failed = TRUE]
Emit(m, line) == [m EXCEPT !.out = Append(@, line)]
EmitOn(m, s) ==
    IF m.out = <<>> THEN Emit(m, s) ELSE [m EXCEPT !.out[Len(m.out)] = @ \o s]

Register(m, name) == IF name \in DOMAIN m.regs THEN m.regs[name] ELSE <<>>
SetRegister(m, name, vs) == [m EXCEPT !.regs = (name :> vs) @@ @]

(* popTwoNumFD and popTwoNumVal when there are not two values: the one     *)
(* there is comes back as a number, from popTwoNumVal without its places.  *)
TooFew(m, keepsPlaces) ==
    IF Depth(m) = 0 THEN Failing(m)
    ELSE LET v == AsNumber(Top(m, 0))
         IN  Failing(Push(Drop(m, 1), IF keepsPlaces THEN v ELSE Exact(v, 0)))

RunArithmetic(m, op) ==
    LET a == AsNumber(Top(m, 1))
        b == AsNumber(Top(m, 0))
    IN  IF Depth(m) < 2 THEN TooFew(m, TRUE)
        ELSE IF op \in {"/", "%", "~"} /\ b.n = 0 THEN Failing(Drop(m, 2))
        ELSE PushAll(Drop(m, 2), Calculated(op, a, b, m.scale))

RunComparison(m, op) ==
    IF Depth(m) < 2 THEN TooFew(m, FALSE)
    ELSE Push(Drop(m, 2), Compared2(op, AsNumber(Top(m, 1)), AsNumber(Top(m, 0))))

RunSqrt(m) ==
    LET a == AsNumber(Top(m, 0))
        fd == MaxOf(m.scale, a.fd)
    IN  IF Depth(m) = 0 THEN Failing(m)
        ELSE IF a.n < 0 THEN Failing(Drop(m, 1))
        ELSE Push(Drop(m, 1), Exact(RatTruncate(ratSqrtNewton(a, m.scale), fd), fd))

(* The operands there are come back without their places. *)
RunModExp(m) ==
    LET v == [k \in 0 .. 2 |-> AsNumber(Top(m, k))]
    IN  IF Depth(m) < 3
        THEN Failing([m EXCEPT !.stack = [i \in DOMAIN @ |-> Exact(AsNumber(@[i]), 0)]])
        ELSE Push(Drop(m, 3), Integer(ratModExpVal(v[2], v[1], v[0])))

RECURSIVE parseStringEscapes(_)
parseStringEscapes(s) ==
    IF s = <<>> THEN <<>>
    ELSE IF s[1] # "\\" \/ Len(s) = 1 THEN <<s[1]>> \o parseStringEscapes(Tail(s))
    ELSE (CASE s[2] = "n" -> <<"\n">>
            [] s[2] = "t" -> <<"\t">>
            [] s[2] = "r" -> <<"\r">>
            [] s[2] = "\\" -> <<"\\">>
            [] OTHER -> <<"\\", s[2]>>) \o parseStringEscapes(SubSeq(s, 3, Len(s)))

(* The character of a code: the digits, and one that stands for the rest. *)
CharOf(code) == IF code % 256 \in 48 .. 57 THEN Digits[(code % 256) - 47] ELSE "?"

(* The commands that neither name a register nor run a macro; the others   *)
(* are ignored.                                                            *)
Plain(m, op) ==
    CASE op = "p" -> IF Depth(m) = 0 THEN m ELSE Emit(m, Shown(Top(m, 0)))
      [] op = "n" -> IF Depth(m) = 0 THEN m ELSE EmitOn(Drop(m, 1), Shown(Top(m, 0)))
      [] op = "P" -> IF Depth(m) = 0 THEN m
                     ELSE IF Top(m, 0).isStr
                     THEN EmitOn(Drop(m, 1), parseStringEscapes(Top(m, 0).str))
                     ELSE Drop(m, 1)
      [] op = "f" -> [m EXCEPT !.out = @ \o Reverse([i \in 1 .. Depth(m) |-> Shown(m.stack[i])])]
      [] op = "c" -> Drop(m, Depth(m))
      [] op = "d" -> IF Depth(m) = 0 THEN m ELSE Push(m, Top(m, 0))
      [] op = "r" -> IF Depth(m) < 2 THEN m ELSE PushAll(Drop(m, 2), <<Top(m, 0), Top(m, 1)>>)
      [] op = "R" -> IF Depth(m) = 0 THEN m ELSE Drop(m, 1)
      [] op = "z" -> Push(m, Integer(Depth(m)))
      [] op = "Z" -> IF Depth(m) = 0 THEN m
                     ELSE Push(Drop(m, 1), Integer(DigitCount(Top(m, 0), m.scale)))
      [] op \in {"+", "-", "*", "/", "%", "~", "^"} -> RunArithmetic(m, op)
      [] op \in {"(", "{", "G"} -> RunComparison(m, op)
      [] op = "v" -> RunSqrt(m)
      [] op = "|" -> RunModExp(m)
      [] op = "k" -> IF Depth(m) = 0 THEN Failing(m)
                     ELSE [Drop(m, 1) EXCEPT !.scale = MaxOf(0, RatToInt64(AsNumber(Top(m, 0))))]
      [] op = "K" -> Push(m, Exact([n |-> m.scale, d |-> 1], m.scale))
      [] op = "N" -> IF Depth(m) = 0 THEN Failing(m)
                     ELSE Push(Drop(m, 1), Integer(IF IsNull(Top(m, 0)) THEN 1 ELSE 0))
      [] op = "a" -> IF Depth(m) = 0 THEN Failing(m)
                     ELSE IF Top(m, 0).isStr THEN m
                     ELSE Push(Drop(m, 1), Macro(<<CharOf(RatToInt64(Top(m, 0)))>>))
      [] OTHER -> m

(* The commands that name a register. *)
Stored2(m, op, name) ==
    LET reg == Register(m, name)
    IN  CASE op = "s" -> IF Depth(m) = 0 THEN SetRegister(m, name, <<Macro(<<>>)>>)
                         ELSE SetRegister(Drop(m, 1), name, <<Top(m, 0)>>)
          [] op = "S" -> IF Depth(m) = 0 THEN m
                         ELSE SetRegister(Drop(m, 1), name, Append(reg, Top(m, 0)))
          [] op = "l" -> Push(m, IF reg = <<>> THEN Integer(0) ELSE Last(reg))
          [] op = "L" -> IF reg = <<>> THEN m
                         ELSE Push(SetRegister(m, name, Front(reg)), Last(reg))

(* parseRegName: where the name at i ends.  In extended mode a blank       *)
(* starts a longer name, which may be empty.                               *)
RECURSIVE NameEnd(_, _)
NameEnd(code, i) ==
    IF CharAt(code, i) \in DOMAIN DigitValue \cup {"a", "b", "c", "_"} THEN NameEnd(code, i + 1)
    ELSE i
IsLong(m, code, i) == m.extended /\ CharAt(code, i) = " "
RegNameEnd(m, code, i) == IF IsLong(m, code, i) THEN NameEnd(code, i + 1) ELSE i + 1
parseRegName(m, code, i) ==
    IF IsLong(m, code, i) THEN SubSeq(code, i + 1, NameEnd(code, i + 1) - 1)
    ELSE IF i > Len(code) THEN <<>> ELSE <<code[i]>>

(* Where the string that starts at i ends: at the bracket that closes it.  *)
(* (A backslash hides no bracket.)                                         *)
RECURSIVE Closing(_, _, _)
Closing(code, i, depth) ==
    CASE i > Len(code) -> i
      [] CharAt(code, i) = "]" /\ depth = 1 -> i
      [] OTHER -> Closing(code, i + 1, depth + (CASE CharAt(code, i) = "[" -> 1
                                                  [] CharAt(code, i) = "]" -> -1
                                                  [] OTHER -> 0))

RECURSIVE LineEnd(_, _)
LineEnd(code, i) == IF CharAt(code, i) \in {"\n", ""} THEN i ELSE LineEnd(code, i + 1)

Holds(op, a, b) ==
    CASE op = ">" -> RatLess(a, b)
      [] op = "<" -> RatLess(b, a)
      [] op = "=" -> RatEqual(a, b)

RECURSIVE evalDC(_, _, _), runRegister(_, _), runConditional(_, _, _, _)

runRegister(m, name) ==
    LET reg == Register(m, name)
    IN  IF reg = <<>> THEN m
        ELSE IF Last(reg).isStr THEN evalDC(m, Last(reg).str, 1) ELSE m

(* The conditional whose register's name starts at i, and what follows it. *)
(* The else clause is looked at only when the condition does not hold.     *)
runConditional(m, code, i, want) ==
    LET op == code[i - 1]
        next == RegNameEnd(m, code, i)
        name == parseRegName(m, code, i)
        popped == Drop(m, 2)
        other == parseRegName(m, code, next + 1)
    IN  IF name = <<>> THEN evalDC(m, code, next)
        ELSE IF Depth(m) < 2 THEN TooFew(m, FALSE)
        ELSE IF Holds(op, AsNumber(Top(m, 1)), AsNumber(Top(m, 0))) = want
        THEN evalDC(runRegister(popped, name), code, next)
        ELSE IF CharAt(code, next) = "e"
        THEN evalDC(IF other = <<>> THEN popped ELSE runRegister(popped, other),
                    code, RegNameEnd(m, code, next + 1))
        ELSE evalDC(popped, code, next)

(* The loop of evalDC from position i of the code on.  The error of a line *)
(* read with ? is dropped.                                                 *)
evalDC(m, code, i) ==
    LET ch == code[i]
        close == Closing(code, i + 1, 1)
        afterNumber == parseNumber(code, i)
        name == parseRegName(m, code, i + 1)
        read == evalDC([m EXCEPT !.stdin = Tail(@)], Head(m.stdin), 1)
    IN  IF m.failed \/ i > Len(code) THEN m
        ELSE IF ch = "#" THEN evalDC(m, code, LineEnd(code, i))
        ELSE IF ch = "[" THEN evalDC(Push(m, Macro(SubSeq(code, i + 1, close - 1))), code, close + 1)
        ELSE IF ch \in DOMAIN DigitValue \cup {"_", "."}
        THEN IF afterNumber = i THEN evalDC(m, code, i + 1)
             ELSE evalDC(Push(m, newNumStr(SubSeq(code, i, afterNumber - 1))), code, afterNumber)
        ELSE IF ch \in {"s", "S", "l", "L"}
        THEN evalDC(IF name = <<>> THEN m ELSE Stored2(m, ch, name), code, RegNameEnd(m, code, i + 1))
        ELSE IF ch = "x"
        THEN IF Depth(m) > 0 /\ Top(m, 0).isStr
             THEN evalDC(evalDC(Drop(m, 1), Top(m, 0).str, 1), code, i + 1)
             ELSE evalDC(m, code, i + 1)
        ELSE IF ch \in {">", "<", "="} THEN runConditional(m, code, i + 1, TRUE)
        ELSE IF ch = "!" /\ CharAt(code, i + 1) \in {">", "<", "="}
        THEN runConditional(m, code, i + 2, FALSE)
        ELSE IF ch = "?"
        THEN IF m.stdin = <<>> THEN evalDC(m, code, i + 1)
             ELSE evalDC([read EXCEPT !.failed = FALSE], code, i + 1)
        ELSE evalDC(Plain(m, ch), code, i + 1)

(* run: the program is the expressions and the files; without either it is *)
(* the operands, each a file or else code itself; without those, standard  *)
(* input.  An error is reported but does not show in the status.           *)
Code(parts) == FlattenSeq([i \in DOMAIN parts |-> Append(parts[i].code, " ")])
Finished2(m) == [status |-> 0, out |-> m.out, machine |-> m]
dc(job) ==
    LET given == job.expressions \o job.files
        typed == FlattenSeq([i \in DOMAIN job.stdin |-> Append(job.stdin[i], "\n")])
        fromStdin == given = <<>> /\ job.operands = <<>>
    IN  IF \E i \in DOMAIN job.files : ~job.files[i].readable
        THEN [status |-> 1, out |-> <<>>, machine |-> Machine(job.extended, job.stdin)]
        ELSE Finished2(evalDC(Machine(job.extended, IF fromStdin THEN <<>> ELSE job.stdin),
                             IF given # <<>> THEN Code(given)
                             ELSE IF fromStdin THEN typed ELSE Code(job.operands), 1))
-----------------------------------------------------------------------------
(* factor.  The product of two numbers below m is divided as it is, the    *)
(* sum of the next step of pollardRho is cut to UintBits.                  *)

mulMod(a, b, m) == (a * b) % m
RECURSIVE powLoop(_, _, _, _)
powLoop(result, base, exp, mod) ==
    IF exp = 0 THEN result
    ELSE powLoop(IF exp % 2 = 1 THEN mulMod(result, base, mod) ELSE result,
                 mulMod(base, base, mod), exp \div 2, mod)
powMod(base, exp, mod) == powLoop(1, base % mod, exp, mod)

PrimeBases == {2, 3, 5, 7, 11, 13, 17, 19, 23, 29, 31, 37}
RECURSIVE Halvings(_), SquaresTo(_, _, _)
Halvings(d) == IF d % 2 = 0 THEN 1 + Halvings(d \div 2) ELSE 0
SquaresTo(x, r, n) == r > 0 /\ (mulMod(x, x, n) = n - 1 \/ SquaresTo(mulMod(x, x, n), r - 1, n))
millerRabin(n) ==
    LET s == Halvings(n - 1)
        d == (n - 1) \div 2 ^ s
        Passes(x) == x \in {1, n - 1} \/ SquaresTo(x, s - 1, n)
    IN  IF n < 2 THEN FALSE
        ELSE IF n \in {2, 3} THEN TRUE
        ELSE n % 2 = 1 /\ \A a \in PrimeBases : a < n => Passes(powMod(a, d, n))

RECURSIVE rhoWalk(_, _, _, _), rhoFrom(_, _)
rhoWalk(x, y, c, n) ==
    LET f(z) == ((mulMod(z, z, n) + c) % 2 ^ UintBits) % n
        d == GCD(Abs(f(x) - f(f(y))), n)
    IN  IF d = 1 THEN rhoWalk(f(x), f(f(y)), c, n) ELSE d
rhoFrom(c, n) == LET d == rhoWalk(2, 2, c, n) IN IF d # n THEN d ELSE rhoFrom(c + 1, n)
pollardRho(n) == IF n % 2 = 0 THEN 2 ELSE IF n % 3 = 0 THEN 3 ELSE rhoFrom(1, n)

RECURSIVE factorize(_), factorSplit(_, _)
factorSplit(n, d) == factorize(d) \o factorize(n \div d)
factorize(n) == IF n < 2 THEN <<>> ELSE IF millerRabin(n) THEN <<n>> ELSE factorSplit(n, pollardRho(n))

(* A number may have a plus sign; what is no number is passed over. *)
factorInput(word) == IF word # <<>> /\ word[1] = "+" THEN Tail(word) ELSE word
IsUint(word) == IsNumeral(word) /\ DigitsValue(word) < 2 ^ UintBits
factor(words) ==
    LET clean == [i \in DOMAIN words |-> factorInput(words[i])]
        numbers == SelectSeq(clean, IsUint)
    IN  [status |-> IF Len(numbers) = Len(words) THEN 0 ELSE 1,
         results |-> [i \in DOMAIN numbers |->
                        [val |-> DigitsValue(numbers[i]),
                         factors |-> SortSeq(factorize(DigitsValue(numbers[i])), LAMBDA a, b : a < b)]]]
=============================================================================
