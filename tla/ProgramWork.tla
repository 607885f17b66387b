----------------------------- MODULE ProgramWork -----------------------------
(***************************************************************************)
(* A program in one of the small languages the utilities interpret, run    *)
(* once: an expression for expr, a condition for test, a calculation for   *)
(* dc, a program for bc, numbers for factor, a mode for chmod, words for   *)
(* echo, a format for printf, a time zone and an instant for date, a month *)
(* for cal, a script for sed, an argument list for the parser of flags,    *)
(* input for xargs, patterns for grep.                                     *)
(*                                                                         *)
(* Properties compare what the interpreter makes of the program's text     *)
(* with what the program means.                                            *)
(***************************************************************************)
EXTENDS Expressions, Bc, Sed, Arguments, Grep, Formatters

CONSTANT Programs  \* what is run

VARIABLES program, outcome

programVars == <<program, outcome>>

NotRun == [status |-> -1]

-----------------------------------------------------------------------------
(* expr: a tree, and the tokens that spell it, with parentheses where the  *)
(* precedence of the operators asks for them.                              *)

Atom(word) == [op |-> "atom", word |-> word, args |-> <<>>]
Node(op, args) == [op |-> op, word |-> <<>>, args |-> args]

LevelOf(op) ==
    IF op \in {"atom", ":"} THEN 7
    ELSE IF op \in DOMAIN Arity THEN 6
    ELSE CHOOSE l \in DOMAIN ExprOps : op \in ExprOps[l]

RECURSIVE Spelled(_, _)
Spelled(t, level) ==
    LET own == LevelOf(t.op)
        tokens == IF t.op = "atom" THEN <<t.word>>
                  ELSE IF t.op \in DOMAIN Arity
                  THEN <<<<t.op>>>> \o FlattenSeq([i \in DOMAIN t.args |-> Spelled(t.args[i], 7)])
                  ELSE IF t.op = ":"
                  THEN <<t.args[1].word, <<":">>>> \o Spelled(t.args[2], 8)
                  ELSE Spelled(t.args[1], own) \o <<<<t.op>>>> \o Spelled(t.args[2], own + 1)
    IN  IF own >= level \/ t.op = "atom" THEN tokens ELSE <<<<"(">>>> \o tokens \o <<<<")">>>>

(* What a tree means: an error, or a value; it is exact unless some number *)
(* on the way is beyond the range of the integers.                         *)
Meaning(ok, val, exact) == [ok |-> ok, val |-> val, exact |-> exact]
Wanted == [eq |-> {0}, ne |-> {-1, 1}, lt |-> {-1}, le |-> {-1, 0}, gt |-> {1}, ge |-> {0, 1}]
RelationName(op) ==
    CASE op \in {"=", "-eq"} -> "eq" [] op \in {"!=", "-ne"} -> "ne"
      [] op \in {"<", "-lt"} -> "lt" [] op \in {"<=", "-le"} -> "le"
      [] op \in {">", "-gt"} -> "gt" [] op \in {">=", "-ge"} -> "ge"
SignOf(n) == IF n < 0 THEN -1 ELSE IF n > 0 THEN 1 ELSE 0
IsInteger(s) == IsNumeral(Unsigned(s))
OrderOf(l, r) ==
    IF IsInteger(l) /\ IsInteger(r) THEN SignOf(ParseValue(l) - ParseValue(r))
    ELSE IF l = r THEN 0 ELSE IF WordLess(l, r) THEN -1 ELSE 1
MeansNumber(n, exact) == Meaning(TRUE, FormatInt(n), exact /\ n \in MinInt .. MaxInt)

RECURSIVE MeaningOf(_)
MeaningOf(t) ==
    LET sub == [i \in DOMAIN t.args |-> MeaningOf(t.args[i])]
        v == [i \in DOMAIN t.args |-> sub[i].val]
        n == [i \in DOMAIN t.args |-> ParseValue(v[i])]
        exact == \A i \in DOMAIN sub : sub[i].exact
        numbers == IsInteger(v[1]) /\ IsInteger(v[2])
    IN  IF t.op = "atom" THEN Meaning(TRUE, t.word, IsInteger(t.word) => ParsesAsInt(t.word))
        ELSE IF \E i \in DOMAIN sub : ~sub[i].ok THEN Meaning(FALSE, <<>>, exact)
        ELSE CASE t.op = "|" -> Meaning(TRUE, IF v[1] \in {<<>>, <<"0">>} THEN v[2] ELSE v[1], exact)
               [] t.op = "&" -> Meaning(TRUE, IF {v[1], v[2]} \cap {<<>>, <<"0">>} = {} THEN v[1]
                                              ELSE <<"0">>, exact)
               [] t.op \in ExprOps[3] ->
                    Meaning(TRUE, IF OrderOf(v[1], v[2]) \in Wanted[RelationName(t.op)]
                                  THEN <<"1">> ELSE <<"0">>, exact)
               [] t.op \in ExprOps[4] \cup ExprOps[5] ->
                    IF ~numbers \/ (t.op \in {"/", "%"} /\ n[2] = 0) THEN Meaning(FALSE, <<>>, exact)
                    ELSE IF t.op \in {"/", "%"}
                    THEN LET q == CHOOSE q \in -Abs(n[1]) .. Abs(n[1]) :
                                    /\ Abs(q * n[2]) <= Abs(n[1])
                                    /\ Abs(n[1] - q * n[2]) < Abs(n[2])
                         IN  MeansNumber(IF t.op = "/" THEN q ELSE n[1] - q * n[2], exact)
                    ELSE MeansNumber(CASE t.op = "+" -> n[1] + n[2]
                                       [] t.op = "-" -> n[1] - n[2]
                                       [] t.op = "*" -> n[1] * n[2], exact)
               [] t.op \in {":", "match"} ->
                    LET ends == {k \in 0 .. Len(v[1]) :
                                    Matches(<<"^">> \o v[2] \o <<"$">>, SubSeq(v[1], 1, k))}
                    IN  MeansNumber(IF ends = {} THEN 0 ELSE Max(ends), exact /\ ~Contains(v[2], "("))
               [] t.op = "length" -> MeansNumber(Len(v[1]), exact)
               [] t.op = "index" ->
                    LET hits == {i \in DOMAIN v[1] : Contains(v[2], v[1][i])}
                    IN  MeansNumber(IF hits = {} THEN 0 ELSE Min(hits), exact)
               [] t.op = "substr" ->
                    IF ~IsInteger(v[2]) \/ ~IsInteger(v[3]) THEN Meaning(FALSE, <<>>, exact)
                    ELSE LET from == IF n[2] < 1 THEN 1 ELSE n[2]
                         IN  Meaning(TRUE, SubSeq(v[1], from, Min({from + n[3] - 1, Len(v[1])})),
                                     exact /\ n[3] >= 0 /\ from - 1 + n[3] <= MaxInt)

(* expr prints what the expression means and says by its status whether    *)
(* that is null or zero, or that it means nothing.                         *)
ExprIsRight ==
    program.tool = "expr" /\ outcome # NotRun =>
        LET meant == MeaningOf(program.tree)
        IN  meant.exact =>
                /\ outcome.status = IF ~meant.ok THEN 2
                                   ELSE IF meant.val \in {<<>>, <<"0">>} THEN 1 ELSE 0
                /\ outcome.result = IF meant.ok THEN meant.val ELSE <<>>

-----------------------------------------------------------------------------
(* test: what POSIX says of up to four arguments, by their number.  The    *)
(* answer is a status, or Unspecified.                                     *)

Unspecified == -1
StatusOf(b) == IF b THEN 0 ELSE 1
Negation(status) == IF status \in {0, 1} THEN 1 - status ELSE status

(* A file test follows links, unless it is about links.  The code's tests  *)
(* do not; nothing is claimed of what they say of a link.                  *)
IsLink(arg) == IF arg \in DOMAIN named THEN named[arg].kind = "link" ELSE FALSE
UnaryMeans(op, arg) ==
    LET known == IF op \in {"-h", "-L"} THEN named ELSE leads
        is(kind) == arg \in DOMAIN known /\ known[arg].kind = kind
    IN  CASE op = "-z" -> StatusOf(arg = <<>>)
          [] op = "-n" -> StatusOf(arg # <<>>)
          [] op \in {"-e", "-f", "-d", "-s"} /\ IsLink(arg) -> Unspecified
          [] op = "-e" /\ ~IsLink(arg) -> StatusOf(arg \in DOMAIN known)
          [] op = "-f" /\ ~IsLink(arg) -> StatusOf(is("file"))
          [] op = "-d" /\ ~IsLink(arg) -> StatusOf(is("dir"))
          [] op = "-s" /\ ~IsLink(arg) ->
                StatusOf(IF arg \in DOMAIN known THEN known[arg].size > 0 ELSE FALSE)
          [] op \in {"-h", "-L"} -> StatusOf(is("link"))
          [] OTHER -> Unspecified

BinaryMeans(l, op, r) ==
    CASE op \in {"=", "=="} -> StatusOf(l = r)
      [] op = "!=" -> StatusOf(l # r)
      [] OTHER -> IF ParsesAsInt(l) /\ ParsesAsInt(r)
                  THEN StatusOf(SignOf(ParseValue(l) - ParseValue(r)) \in Wanted[RelationName(op)])
                  ELSE 2

(* An operand spelled like an operator is one for the parser only if a     *)
(* binary operator follows; elsewhere it takes it for the operator, where  *)
(* POSIX goes by the number of arguments.  Nothing is claimed of those.    *)
Wordlike(tok) == ~isUnaryOp(tok) /\ ~isBinaryOp(tok)
                 /\ tok \notin {<<"!">>, <<"(">>, <<")">>, <<"-a">>, <<"-o">>}
If(clear, status) == IF clear THEN status ELSE Unspecified

RECURSIVE TestMeans(_)
TestMeans(a) ==
    LET n == Len(a)
        negated == a[1] = <<"!">> /\ ~isBinaryOp(a[2])
        enclosed == a[1] = <<"(">> /\ a[n] = <<")">>
    IN  CASE n = 0 -> 1
          [] n = 1 -> If(a[1] # <<"(">>, StatusOf(a[1] # <<>>))
          [] n = 2 -> IF negated THEN Negation(TestMeans(Tail(a)))
                      ELSE IF isUnaryOp(a[1])
                      THEN If(~isBinaryOp(a[2]), UnaryMeans(a[1][1], a[2]))
                      ELSE Unspecified
          [] n = 3 -> IF isBinaryOp(a[2]) THEN BinaryMeans(a[1], a[2][1], a[3])
                      ELSE IF a[2] = <<"-a">>
                      THEN If(Wordlike(a[1]) /\ Wordlike(a[3]), StatusOf(a[1] # <<>> /\ a[3] # <<>>))
                      ELSE IF a[2] = <<"-o">>
                      THEN If(Wordlike(a[1]) /\ Wordlike(a[3]), StatusOf(a[1] # <<>> \/ a[3] # <<>>))
                      ELSE IF negated THEN Negation(TestMeans(Tail(a)))
                      ELSE If(enclosed /\ Wordlike(a[2]), TestMeans(<<a[2]>>))
          [] n = 4 -> IF negated THEN If(a[3] \notin {<<"-a">>, <<"-o">>}, Negation(TestMeans(Tail(a))))
                      ELSE If(enclosed /\ Wordlike(a[3]), TestMeans(SubSeq(a, 2, 3)))
          [] OTHER -> Unspecified

(* test and [ answer as POSIX says for the number of their arguments; [    *)
(* wants a ] behind them.                                                  *)
TestIsRight ==
    program.tool \in {"test", "["} /\ outcome # NotRun =>
        LET meant == IF program.tool = "test" THEN TestMeans(program.args)
                     ELSE IF Last(program.args) # <<"]">> THEN 2
                     ELSE TestMeans(Front(program.args))
        IN  meant # Unspecified => outcome.status = meant

-----------------------------------------------------------------------------
(* dc: calculations by their kind, with the code for them. *)

DcCode(t) ==
    CASE t.kind = "binary" -> t.scale \o <<"k">> \o t.a \o <<" ">> \o t.b \o <<t.op, "f">>
      [] t.kind = "sqrt" -> t.scale \o <<"k">> \o t.a \o <<"v", "f">>
      [] t.kind = "modexp" -> t.a \o <<" ">> \o t.b \o <<" ">> \o t.c \o <<"|", "f">>
      [] t.kind = "choice" -> Chars("[1]sa[2]sb") \o t.a \o <<" ">> \o t.b \o Chars(t.op) \o Chars("aebf")
      [] t.kind = "shelved" -> t.a \o <<" ">> \o t.b \o <<" ">> \o t.c \o Chars("SaSaSaLaLaLaf")
      [] t.kind = "factorial" -> t.a \o Chars("[d1-d1<F*]dsFxf")
      [] t.kind = "gcd" -> t.a \o <<" ">> \o t.b \o Chars("[dSarLa%d0<a]dsaxrf")
      [] t.kind = "typed" -> t.a \o Chars(" ?f")
DcJob(t) ==
    [expressions |-> <<[code |-> DcCode(t)]>>, files |-> <<>>, operands |-> <<>>, extended |-> FALSE,
     stdin |-> IF t.kind = "typed" THEN <<<<t.op>>>> ELSE <<>>]

(* The value and the decimal places of a number as written. *)
Written2(s) == newNumStr(s)
Ulp(k) == [n |-> 1, d |-> 10 ^ k]
Magnitude(r) == [n |-> Abs(r.n), d |-> r.d]
One1 == [n |-> 1, d |-> 1]

(* r is x cut to k decimal places, towards zero. *)
IsCut(r, x, k) ==
    /\ (r.n * 10 ^ k) % r.d = 0
    /\ ~RatLess(Magnitude(x), Magnitude(r))
    /\ RatLess(Magnitude(x), RatAdd(Magnitude(r), Ulp(k)))
    /\ r.n # 0 => SignOf(r.n) = SignOf(x.n)

PowerOf(a, e) ==
    IF e >= 0 THEN FoldLeft(LAMBDA p, i : RatMul(p, a), One1, [i \in 1 .. e |-> i])
    ELSE RatQuo(One1, FoldLeft(LAMBDA p, i : RatMul(p, a), One1, [i \in 1 .. -e |-> i]))

(* The stack s, its top last, is what a op b leaves at this scale. *)
BinaryIsRight(a, op, b, scale, s) ==
    CASE op = "+" -> RatEqual(s[1], RatAdd(a, b))
      [] op = "-" -> RatEqual(s[1], RatSub(a, b))
      [] op = "*" -> IsCut(s[1], RatMul(a, b), Min({a.fd + b.fd, Max({scale, a.fd, b.fd})}))
      [] op = "/" -> b.n = 0 \/ IsCut(s[1], RatQuo(a, b), scale)
      [] op = "~" -> b.n = 0 \/ /\ IsCut(s[1], RatQuo(a, b), scale)
                                /\ RatEqual(a, RatAdd(RatMul(s[1], b), s[2]))
      [] op = "%" -> b.n = 0 \/ \E q \in {RatQuo(RatSub(a, s[1]), b)} : IsCut(q, RatQuo(a, b), scale)
      [] op = "^" -> LET e == RatToInt64(b)
                     IN  \/ a.n = 0 /\ e < 0
                         \/ IsCut(s[1], PowerOf(a, e),
                                  IF e < 0 THEN scale ELSE Min({e * a.fd, Max({scale, a.fd})}))
      [] op \in {"(", "{", "G"} ->
            s[1].n = IF SignOf(RatSub(a, b).n) \in Wanted[CASE op = "(" -> "gt" [] op = "{" -> "ge"
                                                           [] op = "G" -> "eq"]
                     THEN 1 ELSE 0

(* The conditionals compare the top of the stack with what is below it. *)
Condition(op, a, b) ==
    SignOf(RatSub(b, a).n) \in Wanted[CASE op = ">" -> "gt" [] op = "<" -> "lt" [] op = "=" -> "eq"
                                      [] op = "!>" -> "le" [] op = "!<" -> "ge" [] op = "!=" -> "ne"]

(* Text that shows the number v and all its places. *)
Shows(text, v) ==
    LET typed == [i \in DOMAIN text |-> IF text[i] = "-" THEN "_" ELSE text[i]]
    IN  /\ parseNumber(typed, 1) = Len(typed) + 1
        /\ RatEqual(newNumStr(typed), v)
        /\ v.n # 0 => newNumStr(typed).fd = v.fd

(* What the stack holds after each kind of program. *)
DcStackIsRight(m, s, a, b, c, scale) ==
    LET fd == Max({scale, a.fd})
    IN  /\ outcome.status = 0
        /\ outcome.out = IF m.failed THEN <<>> ELSE Reverse([i \in DOMAIN s |-> Shown(s[i])])
        /\ program.kind # "typed" => \A i \in DOMAIN s : Shows(Shown(s[i]), s[i])
        /\ program.kind = "binary" =>
            /\ BinaryIsRight(a, program.op, b, scale, s)
            /\ m.failed <=> program.op \in {"/", "%", "~"} /\ b.n = 0
        /\ program.kind = "sqrt" /\ a.n >= 0 /\ a.fd <= scale + 2 =>
            LET above == RatAdd(s[1], Ulp(fd))
            IN  /\ (s[1].n * 10 ^ fd) % s[1].d = 0 /\ s[1].n >= 0
                /\ ~RatLess(a, RatMul(s[1], s[1]))
                /\ RatLess(a, RatMul(above, above))
        /\ program.kind = "modexp" =>
            \/ b.n = 0 /\ s[1].n = 1
            \/ c.n = 0 /\ s[1].n = 0
            \/ s[1].n \in 0 .. Abs(c.n) - 1 /\ (PowerOf(a, b.n).n - s[1].n) % Abs(c.n) = 0
        /\ program.kind = "choice" => Last(s) = Integer(IF Condition(program.op, a, b) THEN 1 ELSE 2)
        /\ program.kind = "shelved" => s = <<a, b, c>>
        /\ program.kind = "factorial" =>
            s = <<Integer(FoldLeft(LAMBDA p, i : p * i, 1, [i \in 1 .. a.n |-> i]))>>
        /\ program.kind = "gcd" => s[Len(s)].n = Max({g \in 1 .. a.n : a.n % g = 0 /\ b.n % g = 0})
        /\ program.kind = "typed" =>
            /\ RatEqual(s[1], a)
            /\ program.op \notin {"(", "{", "G"} => s[1] = a
(* dc calculates what the operators are defined to: sums exactly, products *)
(* and quotients cut to their scale, quotient and remainder that give back *)
(* the dividend; its macros recurse; and every number it holds is a        *)
(* multiple of its last decimal place, so that what it prints is exact.    *)
(* A square root has only two places more than the scale; a comparison     *)
(* that lacks an operand forgets the places of the one there is.           *)
DcIsRight ==
    program.tool = "dc" /\ outcome # NotRun =>
        DcStackIsRight(outcome.machine, outcome.machine.stack, Written2(program.a), Written2(program.b),
                       Written2(program.c), DigitsValue(program.scale))
-----------------------------------------------------------------------------
(* bc: expressions as trees, spelled with parentheses where the precedence *)
(* of the operators asks for them; programs by name, for two numbers.      *)

BcLevelOf(op) ==
    IF op = "leaf" THEN 8 ELSE IF op \in {"neg", "not"} THEN 7 ELSE IF op = "^" THEN 6
    ELSE CHOOSE l \in DOMAIN BcOps : op \in BcOps[l]
RECURSIVE BcSpelled(_, _)
BcSpelled(t, level) ==
    LET own == BcLevelOf(t.op)
        right == t.op = "^"
        text == CASE t.op = "leaf" -> t.word
                  [] t.op \in {"neg", "not"} ->
                        <<IF t.op = "neg" THEN "-" ELSE "!", " ">> \o BcSpelled(t.args[1], 7)
                  [] OTHER -> BcSpelled(t.args[1], IF right THEN own + 1 ELSE own)
                              \o <<" ">> \o Chars(t.op) \o <<" ">>
                              \o BcSpelled(t.args[2], IF right THEN own ELSE own + 1)
    IN  IF own >= level THEN text ELSE <<"(">> \o text \o <<")">>

(* The number a tree stands for, and its places.  Its parts may be too     *)
(* short to matter; then it stands for zero, which has none.               *)
Places2(op, a, b, scale) ==
    CASE op \in {"+", "-"} -> Max({a.fd, b.fd})
      [] op = "*" -> Min({a.fd + b.fd, Max({scale, a.fd, b.fd})})
      [] op = "/" -> scale
      [] op = "%" -> Max({scale + b.fd, a.fd})
      [] op = "^" -> IF b.n < 0 THEN scale
                     ELSE Min({a.fd * RatToInt64(b), Max({scale, a.fd})})
      [] OTHER -> 0
Exactly(op, a, b, scale) ==
    CASE op = "+" -> RatAdd(a, b)
      [] op = "-" -> RatSub(a, b)
      [] op = "*" -> RatMul(a, b)
      [] op = "/" -> RatQuo(a, b)
      [] op = "%" -> RatSub(a, RatMul(b, RatTruncate(RatQuo(a, b), scale)))
      [] op = "^" -> PowerOf(a, RatToInt64(b))
      [] op = "&&" -> Integer(IF a.n # 0 /\ b.n # 0 THEN 1 ELSE 0)
      [] op = "||" -> Integer(IF a.n # 0 \/ b.n # 0 THEN 1 ELSE 0)
      [] OTHER -> Integer(IF SignOf(RatSub(a, b).n) \in Wanted[RelationName(IF op = "==" THEN "=" ELSE op)]
                          THEN 1 ELSE 0)
Impossible(op, a, b) == (op \in {"/", "%"} /\ b.n = 0) \/ (op = "^" /\ a.n = 0 /\ b.n < 0)
Cut(r, fd) == Exact(RatTruncate(r, fd), IF RatTruncate(r, fd).n = 0 THEN 0 ELSE fd)
RECURSIVE BcValue(_, _)
BcValue(t, scale) ==
    IF t.op = "leaf" THEN <<newNumStr(t.word)>>
    ELSE LET vs == FlattenSeq([i \in DOMAIN t.args |-> BcValue(t.args[i], scale)])
         IN  IF Len(vs) < Len(t.args) THEN <<>>
             ELSE IF t.op = "neg" THEN <<Exact(RatSub(Integer(0), vs[1]), vs[1].fd)>>
             ELSE IF t.op = "not" THEN <<Exact(Integer(IF vs[1].n = 0 THEN 1 ELSE 0), vs[1].fd)>>
             ELSE IF Impossible(t.op, vs[1], vs[2]) THEN <<>>
             ELSE <<Cut(Exactly(t.op, vs[1], vs[2], scale), Places2(t.op, vs[1], vs[2], scale))>>

BcScript ==
    [factorial |-> "define f(n){if(n<2)return 1;return n*f(n-1)}\nf(a)",
     fibonacci |-> "define f(n){auto x,y\nif(n<2)return(n);x=f(n-1);y=f(n-2);return x+y}\nf(a)",
     gcd |-> "while(b){t=a%b;a=b;b=t}\na",
     odd |-> "for(i=1;;i++){if(i>a)break\nif(i%2==0)continue\ns+=i}\ns;i",
     nested |-> "for(i=0;i<a;++i){for(j=0;;++j)if(j>=b){break}else c+=1;d+=1};c;d",
     search |-> "define f(n){while(1)for(;;n--)if(n<b)return n}\nf(a)",
     shadow |-> "x=a;define f(x,y){auto a;a=x;x=y;y=a;return 9*x+y}\nf(b,x);x;a;y",
     global |-> "x=a;define void f(){x+=b}\nf();f();x",
     arrays |-> "define void v(a[],n){a[1]=n}\ndefine void r(*a[],n){v(a[],9);a[0]+=n}\nx[0]=a;"
                \o "v(x[],b);r(x[],b);x[0];x[1];length(x[])",
     sorted |-> "define void s(*x[]){auto i,j,t;for(i=0;i<length(x[]);++i)for(j=0;j<i;++j)"
                \o "if(x[i]<x[j]){t=x[i];x[i]=x[j];x[j]=t}}\n"
                \o "y[0]=3;y[1]=a;y[2]=b;s(y[]);y[0];y[1];y[2]",
     dangling |-> "if(a)if(b)1 else 2\n3",
     steps |-> "x=a;x++ + ++x;x-- - --x;y=x=b;y;x^=2;x;.+1",
     typed |-> "x=read();x+b", halts |-> "a;halt;b", fails |-> "a;a/0;b", broken |-> "a\n(b",
     arity |-> "define f(x){return x}\nf(a);f(a,b)", output |-> "obase=b;a", wrapped |-> "a^b"]
BcText(t) ==
    LET a == FormatInt(t.a)
        b == FormatInt(t.b)
    IN  CASE t.kind = "tree" -> Chars("scale=") \o b \o <<"\n">> \o BcSpelled(t.tree, 1)
          [] t.kind = "lexed" -> Chars("/* 1 */ ") \o a \o Chars(" # 2\n1\\\n2+") \o b
          [] t.kind = "input" -> Chars("ibase=") \o b \o <<"\n">> \o t.word
          [] OTHER -> Chars("a=") \o a \o Chars(";b=") \o b \o <<"\n">> \o Chars(BcScript[t.kind])
BcJob(t) ==
    [text |-> BcText(t), width |-> IF t.kind = "wrapped" THEN 6 ELSE 70,
     stdin |-> IF t.kind = "typed" THEN <<FormatInt(t.a) \o Chars("*2")>> ELSE <<>>]

Fibonacci[n \in Nat] == IF n < 2 THEN n ELSE Fibonacci[n - 1] + Fibonacci[n - 2]
FactorialOf(n) == FoldLeft(LAMBDA p, i : p * i, 1, [i \in 1 .. n |-> i])
Positional(word, base) ==
    FoldLeft(LAMBDA n, i : n + digitVal[word[i]] * base ^ (Len(word) - i), 0, [i \in DOMAIN word |-> i])

(* The numbers that a program prints for a and b. *)
BcPrints(kind, a, b) ==
    CASE kind = "factorial" -> <<FactorialOf(a)>>
      [] kind = "fibonacci" -> <<Fibonacci[a]>>
      [] kind = "gcd" -> <<Max({g \in 1 .. a + b : a % g = 0 /\ b % g = 0})>>
      [] kind = "odd" -> <<((a + 1) \div 2) ^ 2, a + 1>>
      [] kind = "nested" -> <<a * b, a>>
      [] kind = "search" -> <<Min({a, b - 1})>>
      [] kind = "shadow" -> <<9 * a + b, a, a, 0>>
      [] kind = "global" -> <<a + 2 * b>>
      [] kind = "arrays" -> <<a + b, 0, 1>>
      [] kind = "sorted" -> SortSeq(<<3, a, b>>, <)
      [] kind = "dangling" -> IF a = 0 THEN <<3>> ELSE IF b = 0 THEN <<2, 3>> ELSE <<1, 3>>
      [] kind = "steps" -> <<2 * a + 2, 2, b, b ^ 2, b ^ 2 + 1>>
      [] kind = "lexed" -> <<a, 12 + b>>
      [] kind = "typed" -> <<2 * a + b>>
      [] kind \in {"halts", "fails", "arity"} -> <<a>>
      [] kind = "broken" -> <<>>
      [] kind = "wrapped" -> <<a ^ b>>

(* The lines of a text. *)
RECURSIVE LinesIn(_)
LinesIn(text) ==
    LET end == SelectInSeq(text, LAMBDA c : c = "\n")
    IN  IF text = <<>> THEN <<>>
        ELSE IF end = 0 THEN <<text>>
        ELSE <<SubSeq(text, 1, end - 1)>> \o LinesIn(SubSeq(text, end + 1, Len(text)))

(* bc evaluates an expression by its precedences to the number it stands   *)
(* for, with the places it has by the rules for each operator, and shows   *)
(* all of them; its loops, functions, scopes and arrays compute what the   *)
(* program means; what is printed before an error stays; a line too long   *)
(* is continued, not cut.                                                  *)
BcIsRight ==
    program.tool = "bc" /\ outcome # NotRun =>
        LET lines == LinesIn(outcome.out)
            prints == BcPrints(program.kind, program.a, program.b)
            value == BcValue(program.tree, program.b)
        IN  CASE program.kind = "tree" ->
                    IF value = <<>> THEN outcome = [status |-> 1, out |-> <<>>]
                    ELSE outcome.status = 0 /\ Len(lines) = 1 /\ Shows(lines[1], value[1])
              [] program.kind = "input" ->
                    lines = <<FormatInt(Positional(program.word, program.b))>>
              [] program.kind = "output" -> Positional(lines[1], program.b) = program.a
              [] program.kind = "wrapped" ->
                    /\ \A i \in DOMAIN lines : Len(lines[i]) <= 5
                    /\ SelectSeq(outcome.out, LAMBDA c : c \notin {"\\", "\n"}) = FormatInt(prints[1])
              [] OTHER ->
                    /\ lines = [i \in DOMAIN prints |-> FormatInt(prints[i])]
                    /\ outcome.status = IF program.kind \in {"fails", "broken", "arity"} THEN 1 ELSE 0

-----------------------------------------------------------------------------
(* sed: scripts by name, and what each makes of the lines of its input.    *)

SedScript ==
    [twice |-> "p", last |-> "$!d", count |-> "$=", reverse |-> "1!G;h;$!d", odd |-> "n;d",
     same |-> "$!N;P;D", pairs |-> "N;s/\\n/,/", joined |-> ":a\nN;$!ba\ns/\\n/,/g",
     spaced |-> "G", shifted |-> "x", gathered |-> "H;$!d;x", numbered |-> "=",
     first2 |-> "2q", first |-> "s/a/x/", every |-> "s/a/x/g", second |-> "s/a/x/2",
     doubled |-> "s/a/&&/g", wrapped |-> "s/\\(b\\)a/[\\1]/", stars |-> "s/a*/x/g",
     squeezed |-> ":l;s/aa/a/;tl", either |-> "s/a/x/;te;s/b/y/;:e", both |-> "s/a/x/;Te;s/b/y/;:e",
     again |-> "/a/s//x/", block |-> "/a/{s/a/x/\n/b/!p\n}", append |-> "a\\\nT", insert |-> "2i\\\nT",
     change |-> "/a/c\\\nT", copied |-> "w f", marked |-> "s/a/x/w f",
     lines |-> "2,3p", toRe |-> "2,/a/p", fromRe |-> "/a/,2p", reToRe |-> "/a/,/b/p",
     plus |-> "/a/,+1p", backwards |-> "3,1p", toEnd |-> "/b/,$p", outside |-> "2,3!p",
     broken |-> "{p", unknown |-> "bz", badRe |-> "s/\\(a/x/"]
Quiet == {"count", "lines", "toRe", "fromRe", "reToRe", "plus", "backwards", "toEnd", "outside"}
Refusals == {"broken", "unknown", "badRe"}

FileName(i) == <<"f">> \o FormatNat(i)
SedJob(t) ==
    LET names == [i \in DOMAIN t.texts |-> FileName(i)]
    IN  [script |-> Chars(SedScript[t.script]), suppress |-> t.script \in Quiet,
         inPlace |-> t.mode = "inPlace",
         files |-> CASE t.mode = "pipe" -> <<>>
                     [] t.mode = "missing" -> <<<<"z">>>> \o names
                     [] OTHER -> names]
SedFiles(t) ==
    IF t.mode = "pipe" THEN <<"-">> :> t.texts[1]
    ELSE [f \in {FileName(i) : i \in DOMAIN t.texts} |->
            t.texts[CHOOSE i \in DOMAIN t.texts : FileName(i) = f]]

(* Whether the last line of a text is ended. *)
IsEnded(text) == text = <<>> \/ Last(text) = "\n"
AllLines(texts) == FlattenSeq([i \in DOMAIN texts |-> LinesIn(texts[i])])

Joined(L, sep) ==
    IF L = <<>> THEN <<>> ELSE FoldLeft(LAMBDA t, l : t \o sep \o l, Head(L), Tail(L))
Each(line, Of(_)) == FlattenSeq([i \in DOMAIN line |-> Of(i)])

(* The line with its k-th c replaced. *)
WithNth(line, k, c, new) ==
    [i \in DOMAIN line |-> IF line[i] = c /\ Cardinality({j \in 1 .. i : line[j] = c}) = k
                           THEN new ELSE line[i]]
(* The line with x for every run of a, and where there is room for one. *)
Starred(line) ==
    LET after(i) == i > 1 /\ line[i - 1] = "a"
    IN  Each(line, LAMBDA i : (IF after(i) THEN <<>> ELSE <<"x">>)
                              \o (IF line[i] = "a" THEN <<>> ELSE <<line[i]>>))
        \o (IF after(Len(line) + 1) THEN <<>> ELSE <<"x">>)

(* What the substitutions make of one line. *)
Substituted(script, line) ==
    CASE script \in {"first", "again", "marked"} -> WithNth(line, 1, "a", "x")
      [] script = "every" -> Each(line, LAMBDA i : IF line[i] = "a" THEN <<"x">> ELSE <<line[i]>>)
      [] script = "second" -> WithNth(line, 2, "a", "x")
      [] script = "doubled" -> Each(line, LAMBDA i : IF line[i] = "a" THEN <<"a", "a">> ELSE <<line[i]>>)
      [] script = "wrapped" ->
            LET places == {i \in 1 .. Len(line) - 1 : line[i] = "b" /\ line[i + 1] = "a"}
            IN  IF places = {} THEN line
                ELSE SubSeq(line, 1, Min(places) - 1) \o <<"[", "b", "]">>
                     \o SubSeq(line, Min(places) + 2, Len(line))
      [] script = "stars" -> Starred(line)
      [] script = "squeezed" ->
            Each(line, LAMBDA i : IF i > 1 /\ line[i] = "a" /\ line[i - 1] = "a" THEN <<>> ELSE <<line[i]>>)
      [] script = "either" -> IF Contains(line, "a") THEN WithNth(line, 1, "a", "x")
                              ELSE WithNth(line, 1, "b", "y")
      [] script = "both" -> IF Contains(line, "a") THEN WithNth(WithNth(line, 1, "a", "x"), 1, "b", "y")
                            ELSE line
      [] OTHER -> line

(* Where ranges start, where one that starts at i ends, and the lines they *)
(* select together.                                                        *)
RangeStarts(script, L) ==
    {i \in DOMAIN L : CASE script \in {"lines", "toRe", "outside"} -> i = 2
                        [] script = "backwards" -> i = 3
                        [] script = "toEnd" -> Contains(L[i], "b")
                        [] OTHER -> Contains(L[i], "a")}
FirstAfter(L, i, c) == Min({j \in i + 1 .. Len(L) : Contains(L[j], c)} \cup {Len(L)})
RangeEnd(script, L, i) ==
    Min({Len(L), CASE script \in {"lines", "outside"} -> 3
                   [] script = "toRe" -> FirstAfter(L, i, "a")
                   [] script = "fromRe" -> Max({i, 2})
                   [] script = "reToRe" -> FirstAfter(L, i, "b")
                   [] script = "plus" -> i + 1
                   [] script = "backwards" -> i
                   [] script = "toEnd" -> Len(L)})
RECURSIVE Ranges(_, _, _)
Ranges(script, L, k) ==
    LET starts == {i \in RangeStarts(script, L) : i >= k}
        to == RangeEnd(script, L, Min(starts))
    IN  IF starts = {} THEN {} ELSE (Min(starts) .. to) \cup Ranges(script, L, to + 1)
SelectedLines(script, L) ==
    IF script = "outside" THEN DOMAIN L \ Ranges(script, L, 1) ELSE Ranges(script, L, 1)

(* The output for the lines L, piece by piece: each with the input line    *)
(* that it is printed for, 0 when it always ends with a newline.           *)
For(i, text) == [at |-> i, text |-> text]
Pieces(script, L) ==
    LET n == Len(L)
        each(Of(_)) == FlattenSeq([i \in 1 .. n |-> Of(i)])
        once(text) == IF n = 0 THEN <<>> ELSE <<For(n, text)>>
        a(i) == Contains(L[i], "a")
        line(i) == <<For(i, L[i])>>
        said(text) == <<For(0, text)>>
    IN  CASE script = "twice" -> each(LAMBDA i : line(i) \o line(i))
          [] script = "last" -> once(Last(L))
          [] script = "count" -> IF n = 0 THEN <<>> ELSE said(FormatNat(n))
          [] script = "reverse" -> once(Joined(Reverse(L), <<"\n">>))
          [] script = "odd" -> each(LAMBDA i : IF i % 2 = 1 THEN line(i) ELSE <<>>)
          [] script = "pairs" -> each(LAMBDA i : IF i % 2 = 0 THEN <<For(i, L[i - 1] \o <<",">> \o L[i])>>
                                                 ELSE IF i = n THEN line(i) ELSE <<>>)
          [] script = "joined" -> once(Joined(L, <<",">>))
          [] script = "spaced" -> each(LAMBDA i : <<For(i, Append(L[i], "\n"))>>)
          [] script = "shifted" -> each(LAMBDA i : <<For(i, IF i = 1 THEN <<>> ELSE L[i - 1])>>)
          [] script = "gathered" -> once(<<"\n">> \o Joined(L, <<"\n">>))
          [] script = "numbered" -> each(LAMBDA i : said(FormatNat(i)) \o line(i))
          [] script = "first2" -> each(LAMBDA i : IF i <= 2 THEN line(i) ELSE <<>>)
          [] script = "block" ->
                each(LAMBDA i : LET new == <<For(i, WithNth(L[i], 1, "a", "x"))>>
                                IN  IF a(i) /\ ~Contains(L[i], "b") THEN new \o new ELSE new)
          [] script = "append" -> each(LAMBDA i : line(i) \o said(<<"T">>))
          [] script = "insert" -> each(LAMBDA i : IF i = 2 THEN said(<<"T">>) \o line(i) ELSE line(i))
          [] script = "change" -> each(LAMBDA i : IF a(i) THEN said(<<"T">>) ELSE line(i))
          [] script \in Quiet \ {"count"} ->
                each(LAMBDA i : IF i \in SelectedLines(script, L) THEN line(i) ELSE <<>>)
          [] OTHER -> each(LAMBDA i : <<For(i, Substituted(script, L[i]))>>)

(* The last piece lacks the newline that the line it stands for lacks. *)
Unended(texts) ==
    {Len(AllLines(SubSeq(texts, 1, n))) : n \in {m \in DOMAIN texts : ~IsEnded(texts[m])}}
TextOf(pieces, unended) ==
    Joined([i \in DOMAIN pieces |-> pieces[i].text], <<"\n">>)
    \o (IF pieces = <<>> THEN <<>>
        ELSE IF Last(pieces).at \in unended THEN <<>> ELSE <<"\n">>)
SedMeans(script, texts) ==
    TextOf(Pieces(script, AllLines(texts)), Unended(texts))
FileMeans(script, texts) ==
    TextOf(SelectSeq(Pieces(script, AllLines(texts)),
                     LAMBDA p : script = "marked" => Contains(p.text, "x")), Unended(texts))

(* The runs nothing is claimed of: a range that could end on its own first *)
(* line; scripts that look ahead, over the end of one file into the next;  *)
(* a quit, or what remains in the hold space, within an edit in place.     *)
Quits(script, L) ==
    \/ script = "first2" /\ Len(L) >= 2
    \/ script \in {"odd", "pairs"} /\ Len(L) % 2 = 1
    \/ script = "joined" /\ Len(L) = 1
EndsAtOnce(script, L) ==
    \/ script = "toRe" /\ Len(L) > 1 /\ Contains(L[2], "a")
    \/ script = "reToRe" /\ \E i \in DOMAIN L : Contains(L[i], "a") /\ Contains(L[i], "b")
Claimed(t, Ls) ==
    /\ ~EndsAtOnce(t.script, FlattenSeq(Ls))
    /\ t.mode = "inPlace" => /\ \A i \in DOMAIN Ls : ~Quits(t.script, Ls[i])
                             /\ Len(Ls) > 1 => t.script \notin {"same", "shifted", "gathered"}
    /\ t.mode # "inPlace" /\ Len(Ls) > 1 =>
        /\ t.script \notin {"odd", "pairs", "joined", "same"}
        /\ Last(Ls) = <<>> => t.script \notin {"last", "count", "reverse", "gathered", "toEnd"}
        /\ ~IsEnded(t.texts[1]) => t.script # "numbered"

(* sed prints for every script what it means for the lines of all operands *)
(* together, or edits each file to what it means for its lines alone and   *)
(* leaves no other file behind; newlines are missing at the end of the     *)
(* output only where one is missing at the end of the input.               *)
SedIsRight ==
    program.tool = "sed" /\ outcome # NotRun =>
        LET Ls == [i \in DOMAIN program.texts |-> LinesIn(program.texts[i])]
            edited == program.mode = "inPlace"
            copies == IF program.script \in {"copied", "marked"}
                      THEN <<"f">> :> FileMeans(program.script, program.texts) ELSE <<>>
            before == SedFiles(program)
        IN  IF program.script \in Refusals THEN outcome = Outcome2(1, <<>>, before)
            ELSE Claimed(program, Ls) =>
                /\ outcome.status = IF program.mode = "missing" THEN 1 ELSE 0
                /\ outcome.out = IF edited THEN <<>> ELSE SedMeans(program.script, program.texts)
                /\ DOMAIN outcome.fs = DOMAIN before \cup DOMAIN copies
                /\ \A f \in DOMAIN copies : outcome.fs[f] = copies[f]
                /\ \A i \in DOMAIN Ls :
                    program.mode # "pipe" => outcome.fs[FileName(i)] =
                        IF edited THEN SedMeans(program.script, <<program.texts[i]>>)
                        ELSE program.texts[i]

-----------------------------------------------------------------------------
(* The process of a utility interprets its program, once. *)

-----------------------------------------------------------------------------
(* factor and chmod *)

(* Of every number, the primes whose product it is, in order. *)
IsPrime(n) == n > 1 /\ \A k \in 2 .. n - 1 : k * k <= n => n % k # 0
FactorRight(words, o) ==
    LET numbers == SelectSeq(words, LAMBDA w : IsNumeral(w) \/ (IsInteger(w) /\ w[1] = "+"))
        inRange == SelectSeq(numbers, LAMBDA w : ParseValue(w) < 2 ^ UintBits)
    IN  /\ o.status = StatusOf(Len(inRange) = Len(words))
        /\ Len(o.results) = Len(inRange)
        /\ \A i \in DOMAIN inRange :
                LET r == o.results[i]
                IN  /\ r.val = ParseValue(inRange[i])
                    /\ \A k \in DOMAIN r.factors : /\ IsPrime(r.factors[k])
                                                   /\ k > 1 => r.factors[k - 1] <= r.factors[k]
                    /\ FoldLeft(LAMBDA n, f : n * f, 1, r.factors) = MaxOf(r.val, 1)

(* A clause of classes, an operator and permissions changes the bits of    *)
(* these classes only: adds, removes, or leaves just the permissions.  A   *)
(* number sets all.  Files it cannot change, others notwithstanding, are   *)
(* as before, and the status says so.                                      *)
AllBits == Bits(Classes, Permissions)
ChmodRight(c, before, o) ==
    LET classes == IF "a" \in ToSet(c.who) THEN Classes ELSE ToSet(c.who)
        Has(bits, cl, p) == (cl \o p) \in bits
        Asked(cl, p) == cl \in classes /\ p \in ToSet(c.perms)
        After(bits, cl, p) ==
            IF c.op = "number"
            THEN (c.digits[cl] \div (CASE p = "r" -> 4 [] p = "w" -> 2 [] p = "x" -> 1)) % 2 = 1
            ELSE CASE c.op = "+" -> Has(bits, cl, p) \/ Asked(cl, p)
                   [] c.op = "-" -> Has(bits, cl, p) /\ ~Asked(cl, p)
                   [] c.op = "=" -> IF cl \in classes THEN Asked(cl, p) ELSE Has(bits, cl, p)
        Changed(f) == f.exists /\ f.own
    IN  /\ \A i \in DOMAIN before :
                LET old == before[i]
                    new == o.files[i]
                IN  IF ~Changed(old) THEN new = old
                    ELSE /\ \A cl \in Classes, p \in Permissions : Has(new.bits, cl, p) = After(old.bits, cl, p)
                         /\ c.op # "number" => new.bits \ AllBits = old.bits \ AllBits
        /\ o.status = StatusOf(before # <<>> /\ \A i \in DOMAIN before : Changed(before[i]))

(***************************************************************************)
(* echo and printf: bytes are spelled with escapes, items of a format      *)
(* taken one by one show what the whole format must.                       *)
(***************************************************************************)
Octal3(b) == <<48 + (b \div 64), 48 + ((b \div 8) % 8), 48 + (b % 8)>>
Escaped(b, how) ==
    CASE how = "plain" -> <<b>>
      [] how = "named" -> <<backslash, CHOOSE c \in DOMAIN namedEscape : namedEscape[c] = b>>
      [] how = "zero" -> <<backslash, 48>> \o Octal3(b)
      [] how = "octal" -> <<backslash>> \o Octal3(b)
      [] how = "hex" -> <<backslash, 120, Codes(b \div 16, 16), Codes(b, 16)>>
EscapedText(units) == FlattenSeq([i \in DOMAIN units |-> Escaped(units[i].byte, units[i].how)])
BytesMeant(units) == [i \in DOMAIN units |-> units[i].byte]
EchoWord(group) == <<45>> \o group
EchoArgs(p) == [i \in DOMAIN p.groups |-> EchoWord(p.groups[i])] \o <<EscapedText(p.units)>>

(* A word with a letter that is no flag is text, and so is what follows. A *)
(* group without n after one with it brings the newline back.              *)
EchoRight(p, o) ==
    LET text == {i \in DOMAIN p.groups : ~(ToSet(p.groups[i]) \subseteq {110, 101, 69})}
        count == IF text = {} THEN Len(p.groups) ELSE Min(text) - 1
        letters == FlattenSeq(SubSeq(p.groups, 1, count))
        ees == SelectSeq(letters, LAMBDA c : c # 110)
        escapes == ees # <<>> /\ Last(ees) = 101
        words == [i \in 1 .. Len(p.groups) - count |-> Append(EchoWord(p.groups[count + i]), space)]
        wanted == FlattenSeq(words) \o (IF escapes THEN BytesMeant(p.units) ELSE EscapedText(p.units))
    IN  /\ IsPrefix(wanted, o.out)
        /\ 110 \notin ToSet(letters) => o.out = Append(wanted, lineFeed)
        /\ count > 0 /\ 110 \in ToSet(p.groups[count]) => o.out = wanted

Takes(it) == IF it.k # "conv" THEN 0
             ELSE 1 + (IF it.width.star THEN 1 ELSE 0) + (IF it.precision.star THEN 1 ELSE 0)
TakesAll(items) == FoldLeft(LAMBDA n, it : n + Takes(it), 0, items)
EndsFormat(it) == it.k \in {"stop", "bad"}
Unmarked(text) == SelectSeq(text, LAMBDA c : c \notin {notice, lineFeed})

(* A conversion alone: the text, cut and widened as told, or the number,   *)
(* with the sign and as many digits as it must have.                       *)
TextRight(it, arg, out) ==
    LET kept == IF it.precision.has /\ it.precision.n < Len(arg) THEN SubSeq(arg, 1, it.precision.n) ELSE arg
    IN  /\ Len(out) = Max({it.width.n, Len(kept)})
        /\ IF "-" \in it.flags THEN IsPrefix(kept, out) ELSE IsSuffix(kept, out)
        /\ Len(SelectSeq(out, LAMBDA c : c # space)) = Len(SelectSeq(kept, LAMBDA c : c # space))
NumberRight(it, val, out) ==
    LET body == SelectSeq(out, LAMBDA c : c # space)
        signed == body # <<>> /\ body[1] \in {43, 45}
        digits == IF signed THEN Tail(body) ELSE body
        least == IF it.precision.has THEN it.precision.n
                 ELSE IF "0" \in it.flags /\ "-" \notin it.flags THEN it.width.n - (Len(body) - Len(digits)) ELSE 0
    IN  IF val = 0 /\ it.precision.has /\ it.precision.n = 0 THEN body = <<>>
        ELSE /\ ParseUint(digits, radix[it.conv]) = Abs(val)
             /\ signed = (val < 0 \/ "+" \in it.flags) /\ (signed => (body[1] = 45) = (val < 0))
             /\ Len(out) = Max({it.width.n, Len(body)})
             /\ Len(digits) >= least /\ (Len(digits) > Max({1, least}) => digits[1] # 48)
             /\ out[IF "-" \in it.flags THEN 1 ELSE Len(out)] # space
ItemRight(it, p, o) == LET text == Unmarked(o.out) IN
    \/ it.k # "conv" \/ it.width.star \/ it.precision.star \/ Len(p.args) # 1
    \/ it.conv = "s" /\ TextRight(it, p.args[1], o.out)
    \/ it.conv = "c" /\ o.out = SubSeq(p.args[1], 1, Min({1, Len(p.args[1])}))
    \/ it.conv = "b" /\ o.out = BytesMeant(p.units)
    \/ it.conv = "d" /\ p.args[1] = <<34>> /\ o.status = 2
    \/ it.conv \in DOMAIN radix /\ o.status = (IF p.numbers[1].ok THEN 0 ELSE 1)
       /\ it.conv = "u" => {i \in DOMAIN text : text[i] = badVerb} = {1, Len(text)} /\ Len(text) > 1
       /\ NumberRight(it, p.numbers[1].val, SelectSeq(text, LAMBDA c : c # badVerb))

(* Every argument is printed, in order, by the item whose turn it is, as   *)
(* often as the format is needed; the last use starts over with the first. *)
PrintfRight(p, o) ==
    LET n == Len(p.args)
        last == SelectInSeq(p.items, EndsFormat)
        items == IF last = 0 THEN p.items ELSE SubSeq(p.items, 1, last)
        each == TakesAll(items)
        uses == IF last # 0 \/ n = 0 \/ each = 0 THEN 1 ELSE (n + each - 1) \div each
        ArgsFor(u, i) ==
            LET before == (u - 1) * each + TakesAll(SubSeq(items, 1, i - 1))
            IN  IF n = 0 THEN <<>> ELSE [k \in 1 .. Takes(items[i]) |-> p.args[((before + k - 1) % n) + 1]]
        Alone(u, i) == printf(<<items[i]>>, ArgsFor(u, i))
        parts == [u \in 1 .. uses |-> [i \in DOMAIN items |-> Alone(u, i)]]
    IN  IF items # <<>> /\ last = 0 /\ each = 0 /\ n > 0 THEN o.endless
        ELSE /\ ~o.endless
             /\ Len(p.items) = 1 => ItemRight(p.items[1], p, o)
             /\ o.status = Max({0} \union {parts[u][i].status : u \in 1 .. uses, i \in DOMAIN items})
             /\ IF o.status = 2 THEN o.out = <<>>
                ELSE Unmarked(o.out) = FlattenSeq([u \in 1 .. uses |->
                         FlattenSeq([i \in DOMAIN items |-> Unmarked(parts[u][i].out)])])

(***************************************************************************)
(* date and cal.  What the calendar says is counted here: the days of a    *)
(* month that are the given day of the week, the days of a year, and which *)
(* change of time was the last.                                            *)
(***************************************************************************)
DaysOn(year, month, weekday) ==
    {d \in 1 .. daysInMonth(year, month) : Weekday(DayOf(year, month, d)) = weekday}
DayMeant(rule, year) ==
    LET on == rule.on
        falls == DaysOn(year, on[1], on[3])
        leapDay == IF isLeapYear(year) THEN {DayOf(year, 2, 29)} ELSE {}
        newYear == DayOf(year, 1, 1)
    IN  CASE rule.kind = "M" -> DayOf(year, on[1], IF on[2] = 5 THEN Max(falls)
                ELSE CHOOSE d \in falls : Cardinality({e \in falls : e <= d}) = on[2])
          [] rule.kind = "J" -> CHOOSE d \in (newYear .. newYear + 365) \ leapDay :
                d - newYear - Cardinality({e \in leapDay : e < d}) = on[1] - 1
          [] rule.kind = "n" -> DayOf(year, 1, 1) + on[1]
Changes(zone, years) ==
    {[at |-> Instant(DayMeant(zone.start, y), zone.start.time, zone.stdOffset), dst |-> TRUE] : y \in years}
    \union {[at |-> Instant(DayMeant(zone.end, y), zone.end.time, zone.dstOffset), dst |-> FALSE] : y \in years}
InSummer(zone, t) ==
    LET y == YearOf(t \div perDay)
        past == {c \in Changes(zone, y - 1 .. y + 1) : c.at <= t}
    IN  zone.hasDST /\ (CHOOSE c \in past : \A e \in past : e.at <= c.at).dst

FieldsOf(shown) == [year |-> shown.Y, month |-> shown.m, day |-> shown.d,
                    hour |-> shown.H, min |-> shown.M, sec |-> shown.S]
(* The numbers of the week count the Mondays or Sundays of the year so far. *)
ShownRight(shown) ==
    LET today == DayOf(shown.Y, shown.m, shown.d)
        sofar == DayOf(shown.Y, 1, 1) .. today
        Count(weekday) == Cardinality({d \in sofar : Weekday(d) = weekday})
    IN  /\ IsDate(FieldsOf(shown)) /\ shown.j = Cardinality(sofar)
        /\ shown.U = Count(0) /\ shown.W = Count(1)
        /\ shown.u % 7 = Weekday(today) /\ shown.u \in 1 .. 7 /\ shown.w = Weekday(today)
        /\ (shown.l % 12) + 12 * shown.p = shown.H /\ shown.l \in 1 .. 12

(* zone is what the items of TZ mean; a date is read in standard time. *)
DateRight(p, o) ==
    LET zone == p.zone
        job == p.job
        posix == ~job.utc /\ zone.ok
        home == IF posix THEN zone.stdOffset ELSE IF job.utc THEN 0 ELSE job.local
        g == job.given
        refused == job.extra \/ (job.hasDate /\ (g.form = "none" \/ (g.form = "iso" /\ ~IsDate(g.fields))))
        then == formatDate(o.unix + (IF g.hasZone THEN g.zone ELSE home))
    IN  IF refused THEN o = [status |-> 1]
        ELSE /\ o.status = 0 /\ ShownRight(o.shown)
             /\ LET f == FieldsOf(o.shown)
                IN  Instant(DayOf(f.year, f.month, f.day), f.hour * 3600 + f.min * 60 + f.sec, o.zone.offset) = o.unix
             /\ posix => o.zone = IF InSummer(zone, o.unix)
                                  THEN [name |-> zone.dstName, offset |-> zone.dstOffset]
                                  ELSE [name |-> zone.stdName, offset |-> zone.stdOffset]
             /\ ~posix /\ ~(job.hasDate /\ g.hasZone) => o.zone.offset = home
             /\ ~job.hasDate => o.unix = job.now
             /\ job.hasDate /\ g.form = "@" => o.unix = g.unix
             /\ job.hasDate /\ g.form \in {"iso", "compact", "dotted"} /\ IsDate(g.fields) => FieldsOf(then) = g.fields

(* The days of a month are all there, each below its day of the week, and  *)
(* a week ends where its last column does; with -j they go on through the  *)
(* year.                                                                   *)
MonthRight(year, month, grid, o) ==
    LET cells == {<<r, c>> \in (0 .. 5) \X (0 .. 6) : grid[r][c] # 0}
        offset == IF o.julian THEN DayOf(year, month, 1) - DayOf(year, 1, 1) ELSE 0
        Place(d) == CHOOSE x \in cells : grid[x[1]][x[2]] = d + offset
    IN  /\ {grid[x[1]][x[2]] : x \in cells} = {d + offset : d \in 1 .. Cardinality(cells)}
        /\ Cardinality(cells) = daysInMonth(year, month)
        /\ \A d \in 1 .. Cardinality(cells) :
                (Place(d)[2] + (IF o.mondayStart THEN 1 ELSE 0)) % 7 = Weekday(DayOf(year, month, d))
        /\ \A d \in 2 .. Cardinality(cells) :
                7 * Place(d)[1] + Place(d)[2] = 7 * Place(d - 1)[1] + Place(d - 1)[2] + 1
        /\ Place(1)[1] = 0
CalRight(p, o) ==
    IF ~p.ok THEN o = [status |-> 1]
    ELSE LET months == FlattenSeq(o.months)
         IN  /\ o.status = 0 /\ Len(months) = IF p.month = 0 THEN 12 ELSE 1
             /\ \A i \in DOMAIN months :
                    MonthRight(p.year, IF p.month = 0 THEN i ELSE p.month, months[i], p.options)

ProgramStart(p) == program = p /\ outcome = NotRun
ProgramInit == \E p \in Programs : ProgramStart(p)

RunExpr ==
    /\ program.tool = "expr"
    /\ outcome' = expr(Spelled(program.tree, 1))
RunTest ==
    /\ program.tool \in {"test", "["}
    /\ outcome' = [status |-> IF program.tool = "test" THEN runTest(program.args)
                             ELSE runBracket(program.args)]
RunDc ==
    /\ program.tool = "dc"
    /\ outcome' = dc(DcJob(program))
RunBc ==
    /\ program.tool = "bc"
    /\ outcome' = bc(BcJob(program))
RunFactor ==
    /\ program.tool = "factor"
    /\ outcome' = factor(program.words)
RunChmod ==
    /\ program.tool = "chmod"
    /\ outcome' = chmod(program.word, program.files)
RunEcho ==
    /\ program.tool = "echo"
    /\ outcome' = echo(EchoArgs(program))
RunPrintf ==
    /\ program.tool = "printf"
    /\ outcome' = printf(program.items, program.args)
RunDate ==
    /\ program.tool = "date"
    /\ outcome' = date(program.job)
RunCal ==
    /\ program.tool = "cal"
    /\ outcome' = cal(program.words, program.options)
RunSed ==
    /\ program.tool = "sed"
    /\ outcome' = sed(SedJob(program), SedFiles(program))

RunParser ==
    /\ program.tool = "flags"
    /\ outcome' = [status |-> 0] @@ ParseFlags(program.args, program.spec)
RunXargs ==
    /\ program.tool = "xargs"
    /\ outcome' = xargs(program)
RunGrep ==
    /\ program.tool = "grep"
    /\ outcome' = grep(program)

ProgramNext ==
    /\ outcome = NotRun
    /\ RunExpr \/ RunTest \/ RunDc \/ RunBc \/ RunFactor \/ RunChmod \/ RunEcho \/ RunPrintf
       \/ RunDate \/ RunCal \/ RunSed \/ RunParser \/ RunXargs \/ RunGrep
    /\ UNCHANGED program

ProgramSpec == ProgramInit /\ [][ProgramNext]_programVars

(* The evaluators compute what their programs mean: expr, test, dc and bc  *)
(* parse by their precedences and operators, and calculate exactly, factor *)
(* ends, with primes; chmod changes the bits its mode names; echo and      *)
(* printf write the bytes their escapes and conversions mean and print     *)
(* every argument; date and cal agree with the calendar, and date changes  *)
(* to summer time and back when its rules say so; the parser of flags      *)
(* finds what a command line says however it is spelled, xargs hands on    *)
(* every word, and grep selects what its patterns mean.                    *)
EvaluatorsAreRight ==
    /\ ExprIsRight /\ TestIsRight /\ DcIsRight /\ BcIsRight
    /\ program.tool = "flags" /\ outcome # NotRun => FlagsRight(program.spec, program.items, outcome)
    /\ program.tool = "xargs" /\ outcome # NotRun => XargsRight(program, outcome)
    /\ program.tool = "grep" /\ outcome # NotRun => GrepRight(program, outcome)
    /\ program.tool = "factor" /\ outcome # NotRun => FactorRight(program.words, outcome)
    /\ program.tool = "echo" /\ outcome # NotRun => EchoRight(program, outcome)
    /\ program.tool = "printf" /\ outcome # NotRun => PrintfRight(program, outcome)
    /\ program.tool = "date" /\ outcome # NotRun => DateRight(program, outcome)
    /\ program.tool = "cal" /\ outcome # NotRun => CalRight(program, outcome)
    /\ program.tool = "chmod" /\ outcome # NotRun =>
            IF program.clause.op = "none" THEN outcome = [status |-> 1, files |-> program.files]
            ELSE ChmodRight(program.clause, program.files, outcome)
=============================================================================
