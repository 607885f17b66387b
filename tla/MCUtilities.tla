----- MODULE MCUtilities -----
EXTENDS Utilities

FilesOf(lines, n) == {f \in [lines : BoundedSeq(lines, n), newline : BOOLEAN] : IsFile(f)}
ShortFiles == FilesOf({<<>>, <<"a">>, <<"-", "-", " ">>}, 3)
LongFiles == [lines : BoundedSeq({<<>>, <<"a">>}, 5), newline : {TRUE}]
SpacedFiles == FilesOf({<<>>, <<" ">>, <<"a">>, <<" ", " ", "a">>, <<" ", "a", " ">>}, 2)
Ignoring == {[NoMode EXCEPT !.space = TRUE], [NoMode EXCEPT !.allSpace = TRUE],
             [NoMode EXCEPT !.blankLines = TRUE],
             [space |-> TRUE, allSpace |-> TRUE, blankLines |-> TRUE]}
MCComparisons ==
    [old : ShortFiles, new : ShortFiles, mode : {NoMode}, context : {2}]
    \union [old : LongFiles, new : LongFiles, mode : {NoMode}, context : {0, 1}]
    \union [old : SpacedFiles, new : SpacedFiles, mode : Ignoring, context : {1}]
MCWalks == LET few == FilesOf({<<>>, <<"a">>}, 1)
           IN  [old : few, new : few, mode : Ignoring \union {NoMode}, context : {1}]

\* blank 0, digits 1 (0), 2 (1), 3 (2), letters 20 (A) 21 (K) 30 (a) 31 (k, a suffix)
MCsuffixRank == 21 :> 1 @@ 31 :> 1
MCmonthOrder == 20 :> 4 @@ 30 :> 4 @@ 31 :> 2
MCtoLower == 20 :> 30 @@ 21 :> 31

NoFlags == [numeric |-> FALSE, reverse |-> FALSE, month |-> FALSE, human |-> FALSE,
            stable |-> FALSE, unique |-> FALSE, delimiter |-> NoDelimiter, keys |-> <<>>]
Key == WholeLine @@ [numeric |-> FALSE, reverse |-> FALSE, month |-> FALSE, human |-> FALSE]
KeyLists == {<<>>, <<[Key EXCEPT !.startField = 2]>>,
             <<[Key EXCEPT !.startField = 2, !.numeric = TRUE], [Key EXCEPT !.startField = 1, !.reverse = TRUE]>>,
             <<[Key EXCEPT !.startField = 1, !.endField = 2, !.startChar = 2, !.endChar = 3]>>}
SortFlags == {[NoFlags EXCEPT !.numeric = n = "n", !.month = n = "M", !.human = n = "h", !.reverse = r,
                 !.stable = s = "s", !.unique = s = "u", !.keys = k] :
                 n \in {"", "n", "M", "h"}, r \in BOOLEAN, s \in {"", "s", "u"}, k \in KeyLists}
SortLines == {<<>>, <<2>>, <<1, 2>>, <<2, 31>>, <<30, 0, 3>>, <<0, 31, 0, 2>>}
JoinLines == {<<30>>, <<30, 0, 31>>, <<31, 0, 30>>, <<20>>, <<31, 0, 31>>}
MCSortings == [inputs : {<<l, <<>>>> : l \in SeqOf(SortLines, 3)}, flags : SortFlags]
     \union [inputs : SeqOf(JoinLines, 2) \X SeqOf(JoinLines, 2), flags : {NoFlags}]
     \union [inputs : {<<l, <<>>>> : l \in SeqOf(JoinLines, 3)}, flags : {NoFlags}]
UniqOpts == {[ignoreCase |-> i, duplicatesOnly |-> d, uniqueOnly |-> u,
              skipFields |-> k[1], skipChars |-> k[2], checkChars |-> k[3]] :
             i \in BOOLEAN, d \in BOOLEAN, u \in BOOLEAN, k \in {<<0, 0, 0>>, <<1, 0, 1>>, <<0, 1, 0>>}}
JoinOpts == [field1 : {1}, field2 : {1, 2}, also : {0, 1, 2}, only : {0, 1, 2}, output : {<<>>, <<<<2, 1>>, <<1, 2>>>>}]
MCMerges == [kind : {"uniq"}, opts : UniqOpts] \union [kind : {"comm"}, opts : {{}, {1,2}, {3}}]
     \union [kind : {"join"}, opts : JoinOpts]
MCMergedFlags == {NoFlags, [NoFlags EXCEPT !.numeric = TRUE]}
\* names: 1, 2 ordinary; 3 is the mount point, 4 is preserved
Base0 == <<>> :> Directory @@ <<3>> :> Directory
MCFileSystems == {
  Base0 @@ <<1>> :> File(1, <<1>>) @@ <<2>> :> Directory @@ <<2, 1>> :> File(2, <<2>>)
        @@ <<2, 0>> :> Directory @@ <<2, 0, 1>> :> File(3, <<>>),
  Base0 @@ <<1>> :> Directory @@ <<1, 1>> :> File(1, <<1>>) @@ <<1, 2>> :> File(1, <<1>>) @@ <<2>> :> SymbolicLink(TRUE, <<1>>),
  Base0 @@ <<1>> :> Directory @@ <<1, 1>> :> SymbolicLink(FALSE, <<2>>) @@ <<1, 2>> :> File(1, <<1>>) @@ <<3, 1>> :> File(2, <<2>>) @@ <<2>> :> SymbolicLink(FALSE, <<2>>),
  Base0 @@ <<1>> :> Directory @@ <<1, 1>> :> File(1, <<1, badByte>>) @@ <<1, 2>> :> File(2, <<2>>) @@ <<3, 1>> :> File(3, <<3>>)}
Ps == {<<1>>, <<2>>, <<1, 1>>, <<1, 2>>, <<2, 1>>, <<3, 1>>}
Ds == Ps \union {<<3>>}
C(t, s, d, fl) == [tool |-> t, srcs |-> s, dst |-> d, flags |-> fl]
One == {<<p>> : p \in Ps}
Two == {<<<<1, 1>>, <<1, 2>>>>, <<<<1>>, <<2, 1>>>>}
MCCommands ==
   {C("cp", s, d, f) : s \in One \union Two, d \in Ds, f \in {{}, {"r"}, {"r", "L"}, {"r", "H"}, {"P"}, {"r", "parents"}}}
   \union {C("mv", s, d, {}) : s \in One \union Two, d \in Ds}
   \union {C("rm", s, <<>>, f) : s \in One \union Two \union {<<<<>>>>}, f \in {{}, {"r"}, {"f"}, {"r", "f"}}}
   \union {C("unlink", s, <<>>, {}) : s \in One}
   \union {C(t, s, <<>>, f) : t \in {"mkdir", "rmdir"}, s \in One \union Two, f \in {{}, {"p"}}}
   \union {C("ln", s, d, f) : s \in One, d \in Ds, f \in {{}, {"f"}, {"s"}, {"s", "f"}, {"s", "relative"}}}
   \union {C("link", s, d, {}) : s \in One, d \in Ds}
   \union {C("touch", s, <<>>, f) : s \in One \union Two, f \in {{}, {"c"}}}
   \union {C("tee", s, <<>>, f) : s \in One \union Two, f \in {{}, {"a"}}}
   \union {C("realpath", <<p \o q>>, <<>>, f) : p \in Ps, q \in {<<>>, <<1>>, <<1, 2>>}, f \in {{}, {"e"}, {"m"}, {"s"}, {"s", "e"}}}
   \union {C("readlink", <<p \o q>>, d, {}) : p \in Ps, q \in {<<>>, <<1>>, <<1, 2>>}, d \in {<<>>, <<1>>, <<2>>}}
   \union {C("find", s, <<>>, f) : s \in One, f \in {{}, {"maxdepth"}, {"type"}}}
   \union {C("ls", s, <<>>, f) : s \in One \union Two \union {<<<<>>>>}, f \in {{}, {"a", "r"}, {"A", "R", "S"}, {"d"}, {"R", "r", "S"}}}
   \union {C("tree", s, <<>>, f) : s \in One \union Two \union {<<<<>>>>}, f \in {{}, {"a"}, {"d"}, {"L1", "a"}}}
   \union {C("du", s, <<>>, f) : s \in One \union Two \union {<<<<>>>>}, f \in {{}, {"l"}}}
MCMount == <<3>>
MCpreservedRoots == {<<>>, <<4>>}
\* letters 11, 12, 13
T(cs, n) == SeqOf(cs, n)
Operand(t) == [exists |-> TRUE, stdin |-> FALSE, text |-> t]
MissingFile == [exists |-> FALSE, stdin |-> FALSE, text |-> <<>>]
OnOne(texts) == {<<Operand(t)>> : t \in texts}
Pair(a, b) == {<<Operand(s), Operand(t)>> : s \in a, t \in b}
WithMissing == {<<MissingFile>>, <<Operand(<<11, newline>>), MissingFile>>, <<MissingFile, Operand(<<11>>)>>}
Alone(ops, t, os) == [operands : ops, first : [tool : {t}, opts : os], then : {NoFilter}]
Piped2(ops, t, os, t2, os2) == [operands : ops, first : [tool : {t}, opts : os], then : [tool : {t2}, opts : os2]]
TwoLines == OnOne(T({newline, 11}, 4))
HeadOpts == [unit : {"lines", "bytes", "butlast"}, n : 0 .. 3]
TailOpts == [unit : {"lines", "bytes"}, n : 0 .. 3, fromStart : BOOLEAN]
CatOpts == [number : {"none", "all", "nonblank"}, squeeze : BOOLEAN]
R(a, b) == [start |-> a, end |-> b]
CutLists == {<<R(1, 1)>>, <<R(2, 99)>>, <<R(1, 2)>>, <<R(3, 3), R(1, 1)>>, <<R(1, 1), R(3, 99)>>, <<R(0, 0)>>}
CutOpts == [by : {"chars", "fields", "blanks"}, list : CutLists, delimiter : {12}, onlyDelimited : BOOLEAN, noSuppress : BOOLEAN]
PasteOpts(in) == [serial : BOOLEAN, delimiters : {<<<<tab>>>>, <<<<12>>, <<>>>>}, stdin : in]
StdinOperand == [exists |-> TRUE, stdin |-> TRUE, text |-> <<>>]
CutTab == [by : {"fields"}, list : {<<R(1, 1)>>, <<R(2, 2)>>}, delimiter : {tab}, onlyDelimited : {FALSE}, noSuppress : {FALSE}]
TrSets == {<<11>>, <<11, hyphen, 13>>, <<12, 11, 12>>}
TrOpts == [set1 : TrSets, set2 : {<<>>, <<12>>, <<13, 12, 11>>}, delete : BOOLEAN, squeeze : BOOLEAN, complement : BOOLEAN]
Tr1(a, b) == [set1 |-> a, set2 |-> b, delete |-> FALSE, squeeze |-> FALSE, complement |-> FALSE]
Spaced == OnOne(T({blank, tab, 11}, 5) \union {<<newline>>, <<tab, newline, blank, blank, newline>>})
FoldOpts == [width : {1, 2, 3, 9}, bytes : BOOLEAN, spaces : BOOLEAN]
ExpandOpts(w) == [tabs : w, initialOnly : {FALSE}]
UnexpandOpts(w) == [tabs : w, all : BOOLEAN, firstOnly : BOOLEAN]
SplitOpts == [unit : {"bytes", "lines"}, size : {1, 2}, suffixLen : {1}, numeric : BOOLEAN]
PlainCat == {[number |-> "none", squeeze |-> FALSE]}
Words(s) == JoinWith([i \in DOMAIN s |-> <<s[i]>>], blank)
\* bytes: dd on what arrives in pieces, encodings at the lengths of their lines
Arrive(cuts) == [i \in 1 .. Len(cuts) - 1 |-> Operand([j \in 1 .. cuts[i + 1] - cuts[i] |-> cuts[i] + j])]
DdInputs == {Arrive(c) : c \in {<<0, 0>>, <<0, 1>>, <<0, 4>>, <<0, 5>>, <<0, 1, 5>>, <<0, 2, 3, 6>>, <<0, 3, 7>>}}
Plus(s, ds) == [sign |-> s, digits |-> ds, suffix |-> "none"]
Num(key, n) == [key |-> key, number |-> n, words |-> <<>>]
List(key, ws) == [key |-> key, number |-> Plus(1, <<>>), words |-> ws]
DdSizes == {<<Num("bs", Plus(1, <<2>>))>>, <<Num("ibs", Plus(1, <<2>>)), Num("obs", Plus(1, <<3>>))>>,
            <<Num("obs", [sign |-> 1, digits |-> <<1>>, suffix |-> "w"]), Num("ibs", [sign |-> 1, digits |-> <<3>>, suffix |-> "x"])>>}
DdCounts == {<<>>, <<Num("count", Plus(1, <<2>>))>>, <<Num("count", Plus(-1, <<1>>))>>, <<Num("count", Plus(1, <<3>>)), List("iflag", <<"count_bytes">>)>>}
DdSkips == {<<>>, <<Num("skip", Plus(1, <<1>>))>>, <<Num("skip", Plus(1, <<4>>)), Num("other", Plus(1, <<10>>))>>}
DdConvs == {<<>>, <<List("conv", <<"sync">>)>>, <<List("conv", <<"notrunc", "noerror">>)>>}
DdOutputs == {<<>>, <<List("of", <<>>)>>, <<List("of", <<>>), Num("seek", Plus(1, <<1>>))>>}
DdOpts(outs, rooms, fails) ==
    [args : {z \o n \o s \o c \o f : z \in DdSizes, n \in DdCounts, s \in DdSkips, c \in DdConvs, f \in outs},
     old : {<<9>>}, room : rooms, broken : fails]
DdOdd == [args : {<<>>, <<Num("bs", [sign |-> 1, digits |-> <<1>>, suffix |-> "k"])>>,
                  <<Num("bs", Plus(1, <<1, 10>>))>>, <<Num("count", [sign |-> 1, digits |-> <<1>>, suffix |-> "b"]), List("iflag", <<"count_bytes">>)>>},
          old : {<<>>}, room : {5000}, broken : {FALSE}]
Up(n) == [i \in 1 .. n |-> (i * 37) % 256]
UuTexts == {<<>>} \union BoundedSeq({0, 63, 131, 255}, 3) \union {Up(n) : n \in {4, 5, 30, 44, 45, 46, 47, 90, 91, 136}}
UuOpts == [base64 : BOOLEAN, name : {300, hyphen}]
UudecodeOpts(arrivals, cuts) == [arrive : arrivals, cut : cuts, bare : {FALSE}, stray : {FALSE}, out : {<<>>}, unwritable : {{}}]
XxdPieces == {<<Operand(t)>> : t \in BoundedSeq({0, 32, 58, 255}, 2) \union {Up(n) : n \in {15, 16, 17, 30, 31, 47}}} \union {<<Operand(Up(17)), Operand(Up(3)), Operand(Up(35))>>, <<Operand(Up(1)), Operand(<<48, 49, 32, 32>>)>>}
\* od and hexdump: every byte, blocks that repeat, and limits at and about the ends of lines
AllTo(n) == [i \in 1 .. n |-> i - 1]
OdOpts(limits, fails) == [t : {"", "x1", "x2", "o1", "c", "d4", "z"}, flags : {{}, {"b", "x"}, {"i"}, {"c", "i"}, {"x"}}, limit : limits, broken : fails]
DumpTexts == {<<>>, <<255>>, <<0, 127, 255, 254>>, <<1, 2, 3, 128>>, <<92, 32, 9>>, Up(15), Up(16), Up(17), Up(33)}
DumpPieces == {<<Operand(Up(7)), Operand(Up(11)), Operand(<<5>>)>>}
CellOf(bytes, conv, blk) == [bytes |-> bytes, conv |-> conv, block |-> blk]
DumpOpts(canonical, formats, cell, skips, lengths, fails) ==
    [canonical : {canonical}, formats : {formats}, cell : {cell}, skip : skips, length : lengths, verbose : BOOLEAN, broken : fails]
SmallFormat(n, bytes, conv) == <<<<Once(<<AtOffset("x", 2)>>), FormatUnit(n, bytes, <<Literal(<<blank>>), ValueAs(conv, 3)>>), Once(<<Literal(<<newline>>)>>)>>>>
BytePipelines == UNION {
    Alone(OnOne(DumpTexts) \union DumpPieces, "od", OdOpts({0, 3, 16, 17}, BOOLEAN)), Alone({<<MissingFile>>}, "od", OdOpts({0}, {FALSE})),
    Alone(OnOne({AllTo(256)}), "od", OdOpts({0}, {FALSE})),
    Alone(OnOne(DumpTexts \union {AllTo(256), Zeros(32), Zeros(40), Zeros(48)}) \union DumpPieces, "hexdump",
                 DumpOpts(TRUE, <<>>, CellOf(1, "x", 16), {0, 1, 17}, {-1, 0, 16, 20}, BOOLEAN)
                 \union DumpOpts(FALSE, <<>>, CellOf(2, "x", 16), {0, 1, 17}, {-1, 0, 16, 20}, BOOLEAN)),
    Alone(OnOne(T({0, 1}, 5) \union {FlattenSeq(b) : b \in BoundedSeq({<<0, 0>>, <<0, 1>>}, 6)}), "hexdump", DumpOpts(FALSE, SmallFormat(2, 1, "o"), CellOf(1, "o", 2), {0, 3}, {-1, 5}, {FALSE})
                 \union DumpOpts(FALSE, SmallFormat(1, 2, "d"), CellOf(2, "d", 2), {0}, {-1}, {FALSE})),
    Alone({<<MissingFile>>}, "hexdump", DumpOpts(FALSE, <<>>, CellOf(2, "x", 16), {0}, {-1}, {FALSE})),
    Alone(OnOne({From(AllTo(256), 34), AllTo(31)}), "hexdump", DumpOpts(FALSE, SmallFormat(4, 1, "c"), CellOf(1, "c", 4), {0}, {-1}, {FALSE})),
    Alone({<<MissingFile>>}, "dd", DdOdd), Alone(DdInputs, "dd", DdOpts(DdOutputs, {5000}, {FALSE})),
    Alone(DdInputs, "dd", DdOpts({<<>>}, {1, 3}, {FALSE}) \union DdOpts({<<>>}, {5000}, {TRUE})),
    Alone(OnOne({Up(600), Up(1030)}), "dd", DdOdd),
    Alone({<<MissingFile>>}, "uuencode", UuOpts),
    Piped2(OnOne(UuTexts), "uuencode", UuOpts, "uudecode", UudecodeOpts({0, 1, 2, 3, 99}, {0}) \union UudecodeOpts({2, 3}, 1 .. 6)
                    \union [arrive : {99}, cut : {0}, bare : {TRUE}, stray : {FALSE}, out : {<<301>>}, unwritable : {{}, {<<301>>}}]),
    Piped2(OnOne({Up(n) : n \in {1, 45, 47}}), "uuencode", [base64 : {TRUE}, name : {300}], "uudecode",
                  [arrive : {99}, cut : {0}, bare : {FALSE}, stray : {TRUE}, out : {<<>>}, unwritable : {{}}]),
    Alone(WithMissing, "xxd", [plain : BOOLEAN, reverse : BOOLEAN]),
    UNION {Piped2(XxdPieces, "xxd", {[plain |-> p, reverse |-> FALSE]}, "xxd", {[plain |-> p, reverse |-> TRUE]}) : p \in BOOLEAN},
    Alone(OnOne(T({blank, 1, 16, 50}, 5)), "xxd", {[plain |-> TRUE, reverse |-> TRUE]}),
    Alone(OnOne(T({0, 9, 65}, 4)) \union Pair(T({0, 126}, 3), T({0, 31, 65}, 3)) \union WithMissing, "strings", [n : 0 .. 3]),
    Piped2(OnOne(T({newline, 11, 12, nul, cr}, 4)), "rev", {<<>>}, "rev", {<<>>}),
    Alone(WithMissing \union Pair(T({newline, 11}, 2), T({newline, 12}, 2)), "rev", {<<>>})}
MCPipelines == UNION {BytePipelines,
    Alone(TwoLines \union WithMissing, "head", HeadOpts),
    Alone(TwoLines \union WithMissing, "tail", TailOpts),
    Alone(OnOne(T({newline, blank, 11}, 4)) \union WithMissing, "cat", CatOpts),
    Alone(OnOne(T({newline, blank, 11}, 4)) \union WithMissing, "nl", [body : {"a", "t", "n"}, start : {0, 1, 5}]),
    Alone(OnOne(T({blank, 11, 12}, 4)) \union WithMissing, "cut", CutOpts),
    Alone(WithMissing \union {<<StdinOperand, StdinOperand>>, <<StdinOperand, Operand(<<11>>), StdinOperand>>},
                 "paste", PasteOpts(T({newline, 11}, 4))),
    Piped2(Pair(T({newline, 11}, 4), T({newline, 12}, 4)), "paste", [serial : {FALSE}, delimiters : {<<<<tab>>>>}, stdin : {<<>>}], "cut", CutTab),
    Alone(OnOne(T({11, 12, 14}, 3)), "tr", TrOpts),
    Piped2(OnOne(T({11, 12, 13}, 3)), "tr", {Tr1(<<11, 12, 13>>, <<13, 11, 12>>)}, "tr", {Tr1(<<13, 11, 12>>, <<11, 12, 13>>)}),
    Alone(OnOne(T({blank, tab, 11}, 5)), "fold", FoldOpts),
    Alone(WithMissing, "fold", {[width |-> 2, bytes |-> FALSE, spaces |-> FALSE]}),
    Alone(WithMissing \union Spaced, "expand", [tabs : {2}, initialOnly : {TRUE}]),
    Alone(WithMissing, "unexpand", UnexpandOpts({0})),
    UNION {Piped2(Spaced, "unexpand", UnexpandOpts({w}), "expand", ExpandOpts({w})) : w \in {0, 2, 3}},
    Piped2(TwoLines, "split", SplitOpts, "cat", PlainCat),
    Alone({<<MissingFile>>}, "split", SplitOpts),
    Alone(OnOne({Words(s) : s \in T({11, 12, 13}, 6)}) \union WithMissing, "tsort", {<<>>}),
    Alone(Pair(T({newline, 11}, 3), T({newline, 11}, 3)) \union {<<MissingFile, Operand(<<>>)>>}, "cmp", [limit : -1 .. 2]),
    Alone(OnOne(T({newline, blank, 11}, 4)) \union WithMissing, "wc", {<<>>})}
\* archives: 5 in the root and <<1, 5>> among what is stored; 4 is where they are unpacked
Job(t, m, a, d, ops, fl, x) == [tool |-> t, modes |-> m, archive |-> a, dir |-> d, operands |-> ops, flags |-> fl, exclude |-> x]
Unpacked == Base0 @@ <<4>> :> Directory
Store1 == <<1>> :> Directory @@ <<1, 1>> :> File(1, <<1>>) @@ <<1, 2>> :> File(1, <<1>>) @@ <<2>> :> File(2, <<>>)
Store2 == <<1>> :> Directory @@ <<1, 1>> :> Directory @@ <<1, 1, 2>> :> File(1, <<2>>) @@ <<1, 2>> :> SymbolicLink(TRUE, <<1>>)
          @@ <<2>> :> SymbolicLink(FALSE, <<1, 1>>)
Store3 == <<1>> :> File(1, <<1>>) @@ <<2>> :> Directory @@ <<2, 1>> :> File(2, <<2>>) @@ <<2, 2>> :> SymbolicLink(FALSE, <<1>>)
          @@ <<3, 1>> :> File(2, <<2>>)
Store4 == <<1>> :> Directory @@ <<1, 1>> :> File(1, <<1>>) @@ <<2>> :> SymbolicLink(TRUE, <<1>>)
Before1 == <<4, 1>> :> File(7, <<3>>) @@ <<4, 2>> :> File(7, <<3>>)
Before2 == <<4, 1>> :> Directory @@ <<4, 1, 1>> :> SymbolicLink(FALSE, <<2>>) @@ <<4, 1, 2>> :> File(7, <<3>>) @@ <<4, 2>> :> Directory
Before3 == <<4, 1>> :> Directory @@ <<4, 1, 2>> :> SymbolicLink(FALSE, <<1>>) @@ <<4, 2>> :> SymbolicLink(FALSE, <<6>>)
Stores == {Store1, Store2, Store3}
TarTargets == {<<t>> : t \in {<<1>>, <<2>>, <<1, 2>>, <<2, 1>>, <<-1>>, <<6>>, <<1, 0, 2>>, <<0, 1, 2>>}}
     \union {<<s, t>> : s, t \in {<<1>>, <<2>>, <<1, 1>>, <<1, 2>>, <<2, 2>>}}
TarUnpack == {Job("tar", {"x"}, <<5>>, <<4>>, n, f, x) : n \in {<<>>, <<<<1, 2>>>>, <<<<1>>, <<2>>>>}, f \in {{}, {"k"}, {"O"}, {"overwrite"}, {"z"}}, x \in {{}, {<<1, 1>>}}}
     \union {Job("tar", m, <<5>>, <<4>>, <<>>, {}, x) : m \in {{"t"}, {"x", "t"}, {}}, x \in {{}, {<<1>>}}}
TarPackings == {[tree |-> Unpacked @@ s @@ b, jobs |-> <<Job("tar", {"c"}, <<5>>, <<>>, t, f, {}), u>>] :
                   s \in Stores, b \in {<<>>, Before1, Before2, Before3}, t \in TarTargets, f \in {{}}, u \in TarUnpack}
     \union {[tree |-> Unpacked @@ Store4, jobs |-> <<Job("tar", {"c"}, <<5>>, <<>>, t, {}, {}), u>>] :
                   t \in {<<<<2>>, <<2, 1>>>>, <<<<2, 1>>, <<2>>>>}, u \in TarUnpack}
     \union {[tree |-> Unpacked @@ s, jobs |-> <<Job("tar", {"c"}, <<5>>, <<>>, <<<<1>>, <<2>>>>, {"z"}, {}), u>>] : s \in Stores, u \in TarUnpack}
     \union {[tree |-> Unpacked @@ s, jobs |-> <<Job("tar", {"c"}, <<1, 5>>, d, t, {}, {}), Job("tar", {"x"}, <<1, 5>>, <<4>>, <<>>, {}, {})>>] :
                   s \in {Store1, Store2}, d \in {<<>>, <<1>>}, t \in {<<<<1>>>>, <<<<-1>>>>}}
     \union {[tree |-> Unpacked @@ Store1 @@ <<5>> :> File(9, b), jobs |-> <<Job("tar", {m}, <<5>>, <<4>>, <<>>, {}, {})>>] :
                   b \in {<<>>, <<1>>, <<gzipMagic, 2, 1, 1, 1, 5>>, <<2, 1, 1, 2, 5>>, <<2, 1, 1, 1, 5, 2, 1>>}, m \in {"x", "t"}}
GzFiles == {<<1>>, <<2>>, <<1, 1>>, <<1, 2>>, <<11>>}
GzStores == {Base0 @@ Store1, Base0 @@ Store2, Base0 @@ Store1 @@ <<12>> :> File(3, <<3>>), Base0 @@ Store1 @@ <<1, 11>> :> File(1, <<1>>),
             Base0 @@ Store2 @@ <<1, 12>> :> SymbolicLink(TRUE, <<2>>) @@ <<11>> :> File(3, <<gzipMagic, 3>>),
             Base0 @@ <<1>> :> Directory @@ <<1, 1>> :> File(1, <<1, badByte>>) @@ <<1, 2>> :> File(2, <<unflushed>>) @@ <<2>> :> File(3, <<3>>)}
GzJobs == {Job("gzip", {}, <<>>, <<>>, o, f, {}) : o \in {<<p>> : p \in GzFiles} \union {<<<<1, 1>>, <<2>>>>, <<<<1, 1>>, <<1, 2>>>>}, f \in {{}, {"k"}, {"f"}, {"c"}}}
GunzipJobs == {Job("gzip", {"d"}, <<>>, <<>>, o, f, {}) : o \in {<<<<1, 11>>>>, <<<<12>>>>, <<<<1, 1>>>>, <<<<11>>>>, <<<<1, 11>>, <<12>>>>}, f \in {{}, {"k"}, {"f"}, {"c"}}}
GzPackings == [tree : GzStores, jobs : (GzJobs \X GunzipJobs) \union {<<j>> : j \in GunzipJobs}]
\* 12, 13, 22 and <<1, 10>> can be decompressed, and 16 in part; 17 makes the library panic
Good(n) == File(n, <<gzipMagic, n, gzipTrailer>>)
DecStore == Base0 @@ <<1>> :> Directory @@ <<1, 10>> :> Good(1) @@ <<12>> :> Good(2) @@ <<13>> :> Good(3) @@ <<22>> :> Good(4) @@ <<32>> :> File(5, <<5>>)
            @@ <<16>> :> File(6, <<gzipMagic, 6>>) @@ <<17>> :> File(7, <<gzipMagic, 7, badCode>>) @@ <<18>> :> File(8, <<8>>)
DecBefores == {<<>>, <<2>> :> File(9, <<9>>) @@ <<6>> :> File(9, <<9>>) @@ <<7>> :> File(10, <<9>>) @@ <<8>> :> File(10, <<9>>),
               <<2>> :> SymbolicLink(TRUE, <<12>>) @@ <<6>> :> SymbolicLink(TRUE, <<9>>) @@ <<7>> :> SymbolicLink(FALSE, <<18>>)}
DecOperands == {<<p>> : p \in {<<1>>, <<1, 10>>, <<2>>, <<12>>, <<13>>, <<22>>, <<16>>, <<17>>, <<18>>, <<19>>}}
     \union {<<<<16>>, <<12>>>>, <<<<12>>, <<12>>>>, <<<<12>>, <<22>>, <<17>>>>}
DecJobs == {Job(t, {"d"}, <<>>, <<>>, o, f, {}) : t \in {"bunzip2", "unlzma", "uncompress"}, o \in DecOperands, f \in {{}, {"k"}, {"f"}, {"c"}, {"c", "json"}}}
     \union {Job("bzcat", {"d"}, a, <<>>, o, f, {}) : a \in {<<12>>, <<16>>, <<18>>}, o \in DecOperands \union {<<>>}, f \in {{}, {"json"}}}
DecPackings == {[tree |-> DecStore @@ b, jobs |-> <<j, k>>] : b \in DecBefores, j \in DecJobs,
                    k \in {Job("uncompress", {"d"}, <<>>, <<>>, <<<<17>>>>, {}, {}), Job("bunzip2", {"d"}, <<>>, <<>>, <<<<12>>, <<22>>>>, {"f"}, {})}}
ArOps == {<<p>> : p \in {<<1>>, <<1, 1>>, <<1, 2>>, <<2>>}} \union {<<<<1, 1>>, <<2>>>>, <<<<2>>, <<1, 2>>>>, <<<<2>>, <<1, 1>>, <<6>>>>}
ArPut == {Job("ar", {"r"}, a, <<>>, o, {}, {}) : a \in {<<5>>, <<3, 5>>}, o \in ArOps}
ArDo(a) == {Job("ar", {m}, a, <<4>>, o, {}, {}) : m \in {"r", "d", "x", "p", "t"}, o \in {<<>>, <<<<2>>>>, <<<<1, 1>>>>, <<<<2>>, <<1, 1>>>>}}
ArPackings == {[tree |-> Unpacked @@ s @@ b, jobs |-> <<j, k, l>>] : s \in {Store1, Store3}, b \in {<<>>, Before1}, j \in ArPut, k \in ArDo(<<5>>), l \in ArDo(<<5>>)}
     \union {[tree |-> Unpacked @@ Store1 @@ <<5>> :> File(9, b), jobs |-> <<k>>] : b \in {<<>>, <<arMagic, 2, 1>>}, k \in ArDo(<<5>>)}
Zips == SeqOf({Member("dir", <<1>>, <<>>), Member("file", <<1>>, <<1>>), Member("file", <<1, 2>>, <<2>>), Member("damaged", <<2>>, <<3>>), Member("file", <<2>>, <<4>>)}, 3)
ZipPackings == {[tree |-> Unpacked @@ b @@ <<5>> :> File(9, Pack(z)), jobs |-> <<Job("unzip", {}, <<5>>, <<4>>, n, f, {})>>] :
                   z \in Zips, b \in {<<>>, Before1, Before2}, n \in {<<>>, <<<<2>>>>}, f \in {{}, {"o"}, {"l"}, {"t"}, {"p"}}}
     \union {[tree |-> Unpacked @@ <<5>> :> File(9, <<2, 1>>), jobs |-> <<Job("unzip", {}, a, <<4>>, <<>>, {}, {})>>] : a \in {<<5>>, <<4>>}}
CpioNameLists == {<<>>, <<<<2>>>>, <<<<1, 1>>>>, <<<<2>>, <<6>>, <<1, 2>>>>, <<<<1, 2>>, <<1, 1>>, <<2>>>>, <<<<1, 1>>, <<1, 1>>>>}
CpioTakes == {Job("cpio", m, <<5>>, <<4>>, o, f, {}) : m \in {{"i"}}, o \in {<<>>, <<<<1, 2>>>>, <<<<2>>, <<6>>>>}, f \in {{}, {"d"}}}
     \union {Job("cpio", m, a, <<4>>, <<>>, {"d", "v"}, {}) : m \in {{"i"}, {"t"}, {"i", "t"}}, a \in {<<5>>, <<4>>, <<6>>}}
CpioMembersOf == SeqOf({Member("dir", <<1>>, <<>>), Member("file", <<1>>, <<1>>), Member("file", <<1, 2>>, <<2>>), Member("link", <<2>>, <<1>>), Member("abslink", <<1, 1>>, <<2>>)}, 2) \union {<<Member("dir", <<1>>, <<>>), Member("file", <<1, 2>>, <<2>>), Member("link", <<2>>, <<1>>)>>}
CpioPackings == UNION {{[tree |-> Unpacked @@ Store1 @@ b, jobs |-> <<Job("cpio", m, a, <<>>, o, {}, {}), u>>] :
                    m \in {{"o"}}, a \in {<<5>>, <<4>>}, b \in {<<>>, Before1, Before2, Before3}, o \in CpioNameLists, u \in CpioTakes},
    {[tree |-> Unpacked @@ b @@ <<5>> :> File(9, t), jobs |-> <<u>>] : b \in {<<>>, Before2},
                    t \in {Pack(z) : z \in CpioMembersOf} \union {Front(Pack(z)) \o <<99>> : z \in CpioMembersOf}, u \in CpioTakes},
    {[tree |-> Unpacked @@ s @@ b, jobs |-> <<Job("cpio", m, <<>>, c, <<d>> \o o, {}, {})>>] : s \in Stores, b \in {<<>>, Before1, Before2},
                    m \in {{"p"}, {"p", "t"}}, c \in {<<>>, <<1>>}, d \in {<<4>>, <<1>>}, o \in CpioNameLists \union {<<<<1>>, <<2>>, <<1, 1>>>>}},
    {[tree |-> Unpacked @@ Store1, jobs |-> <<Job("cpio", m, <<>>, <<>>, <<>>, {}, {})>>] : m \in {{}, {"o", "i"}, {"p", "i"}, {"p"}}},
    {[tree |-> Unpacked @@ Store1, jobs |-> <<Job("cpio", {"o", "t"}, <<5>>, <<>>, <<<<2>>>>, {}, {})>>]}}
MCPackings == UNION {DecPackings, CpioPackings, TarPackings, GzPackings, ArPackings, ZipPackings}
\* programs: f is a regular file, l a symbolic link to it, d a directory
MCleads == Chars("f") :> [kind |-> "file", size |-> 1, bits |-> {"-r"}] @@ Chars("d") :> [kind |-> "dir", size |-> 1, bits |-> {"-x"}]
           @@ Chars("l") :> [kind |-> "file", size |-> 1, bits |-> {"-r"}]
MCnamed == [MCleads EXCEPT ![Chars("l")] = [kind |-> "link", size |-> 1, bits |-> {}]]
Words1(ws) == {Atom(Chars(w)) : w \in ws}
Nodes(ops, lefts, rs) == {Node(o, <<l, r>>) : o \in ops, l \in lefts, r \in rs}
Atoms == Words1({"0", "2", "7", "-3", "ab", "a"})
Few == Words1({"0", "2", "a"})
FewOps == {"|", "&", "<", "-", "*", "/"}
Functions1 == Nodes({":"}, Atoms, Words1({"a", ".*", "ab*", "(b)"})) \union {Node("length", <<a>>) : a \in Atoms}
     \union {Node("substr", <<Atom(Chars("abc")), a, b>>) : a \in Atoms, b \in Atoms} \union Nodes({"index"}, Atoms, Atoms)
Inner == Nodes(FewOps, Few, Few)
Exprs == Atoms \union Functions1 \union Nodes({"|", "&", "=", "<", ">=", "-", "+", "*", "/", "%"}, Atoms, Atoms)
     \union Nodes(FewOps, Inner, Few) \union Nodes(FewOps, Few, Inner)
     \union {Node("length", <<a>>) : a \in Inner \union Functions1} \union Nodes({"*"}, Few, Functions1)
TestWords == {<<t>> : t \in {"!", "(", ")", "-a", "-o", "=", "-lt", "-n", "-f"}} \union {<<>>, Chars("a"), Chars("1"), Chars("f")}
MoreWords == {<<t>> : t \in {"]", "-d", "-s", "-h", "-e", "-ge", "-z", "!"}} \union {Chars("l"), Chars("d"), Chars("9"), Chars("-2"), <<>>}
Integers1 == {Chars(w) : w \in {"0", "1", "-2", "9", "a", ""}}
Tests == [tool : {"test"}, args : BoundedSeq(TestWords, 3) \union BoundedSeq(MoreWords, 3)
                                  \union {<<l, <<o>>, r>> : o \in {"-eq", "-ne", "-lt", "-le", "-gt", "-ge"},
                                                           l \in Integers1, r \in Integers1}
                                  \union [1 .. 4 -> TestWords \ {<<>>, <<"-o">>, <<"-f">>, Chars("f")}]]
     \union [tool : {"["}, args : BoundedSeq(MoreWords, 3) \ {<<>>}]
Dc(kind, k, a, op, b, c) == [tool |-> "dc", kind |-> kind, scale |-> Chars(k), a |-> Chars(a), op |-> op, b |-> Chars(b), c |-> Chars(c)]
Nums == {"0", "1", "7", "_3", ".5", "2.25", "_1.4", "_.03", "5."}
Calculations ==
    {Dc("binary", k, a, op, b, "0") : k \in {"0", "1", "2"}, a \in Nums, b \in Nums, op \in {"+", "-", "*", "/", "%", "~", "(", "{", "G"}}
     \union {Dc("binary", k, a, "^", b, "0") : k \in {"0", "1", "2"}, a \in {"0", "1", "7", "_3", ".5", "_1.4"}, b \in {"0", "2", "3", "_1", "_2"}}
     \union {Dc("sqrt", k, a, "v", "0", "0") : k \in {"0", "1"}, a \in Nums \union {"2", "2.000"}}
     \union {Dc("modexp", "0", a, "|", b, c) : a \in {"0", "2", "_3", "7"}, b \in {"0", "1", "3"}, c \in {"0", "1", "5", "_4"}}
     \union {Dc("choice", "0", a, op, b, "0") : a \in Nums, b \in Nums, op \in {">", "<", "=", "!>", "!<", "!="}}
     \union {Dc("shelved", "0", a, "", b, c) : a \in Nums, b \in Nums, c \in Nums}
     \union {Dc("factorial", "0", a, "", "0", "0") : a \in {"2", "3", "4", "6"}}
     \union {Dc("gcd", "0", a, "", b, "0") : a \in {"1", "2", "6", "9", "12"}, b \in {"1", "4", "6", "8"}}
     \union {Dc("typed", "0", a, op, "0", "0") : a \in Nums, op \in {"+", "/", "~", "^", "(", "G"}}
Bc1(kind, a, b, t, word) == [tool |-> "bc", kind |-> kind, a |-> a, b |-> b, tree |-> t, word |-> word]
Leaf(w) == [op |-> "leaf", word |-> Chars(w), args |-> <<>>]
Branch(op, args) == [op |-> op, word |-> <<>>, args |-> args]
BcBinary == {"||", "&&", "==", "!=", "<", "<=", ">", ">=", "+", "-", "*", "/", "%", "^"}
BcTrees(ops, x, y, z) ==
    {Branch(o, <<Branch(p, <<Leaf(x), Leaf(y)>>), Leaf(z)>>) : o \in ops, p \in ops}
    \union {Branch(o, <<Leaf(x), Branch(p, <<Leaf(y), Leaf(z)>>)>>) : o \in ops, p \in ops}
BcSigned(o, u, x, y) ==
    {Branch(o, <<Branch(u, <<Leaf(x)>>), Leaf(y)>>), Branch(o, <<Leaf(x), Branch(u, <<Leaf(y)>>)>>), Branch(u, <<Branch(o, <<Leaf(x), Leaf(y)>>)>>)}
BcRuns ==
    {Bc1("tree", 0, k, t, <<>>) : k \in {0, 2}, t \in BcTrees(BcBinary, "7", "3", "2") \union BcTrees(BcBinary, "0", "2", "2")}
     \union {Bc1("tree", 0, k, t, <<>>) : k \in {0, 1, 2}, t \in BcTrees({"<", "==", "-", "*", "/", "%"}, ".25", "1.5", "2.0")}
     \union {Bc1("tree", 0, 1, t, <<>>) : t \in UNION {BcSigned(o, u, "4", "2") : o \in BcBinary, u \in {"neg", "not"}}}
     \union {Bc1(kind, a, b, Leaf("0"), <<>>) : kind \in (DOMAIN BcScript \union {"lexed"}) \ {"output", "gcd", "wrapped"}, a \in 0 .. 5, b \in 0 .. 3}
     \union {Bc1("gcd", a, b, Leaf("0"), <<>>) : a \in {1, 6, 12}, b \in {1, 8, 9}}
     \union {Bc1("wrapped", a, b, Leaf("0"), <<>>) : a \in {7, 10, -3}, b \in {0, 3, 4, 5, 7, 8}}
     \union {Bc1("output", a, b, Leaf("0"), <<>>) : a \in {1, 2, 9, 16, 255}, b \in {2, 3, 10, 16}}
     \union {Bc1("input", 0, b, Leaf("0"), Chars(w)) : b \in {2, 10, 16}, w \in {"1", "10", "101", "0110", "A"}}
     \union {Bc1("input", 0, 16, Leaf("0"), Chars(w)) : w \in {"1F", "0C0", "FF"}}
SedLines == BoundedSeq({Chars(w) : w \in {"", "a", "ab", "aab", "ba"}}, 2) \union [1 .. 3 -> {<<>>, <<"a">>, <<"b">>}] \union [1 .. 4 -> {<<"a">>, <<"b">>}]
Ended(lefts) == FlattenSeq([i \in DOMAIN lefts |-> Append(lefts[i], "\n")])
SedTexts == {Ended(lefts) : lefts \in SedLines} \union {Front(Ended(lefts)) : lefts \in {m \in SedLines : m # <<>> /\ Last(m) # <<>>}}
FewTexts == {Chars(t) : t \in {"", "a\n", "b\na", "a", "b\nab\n"}}
\* $!N at the end of a file that is not the last one never gets to the next
Editing == {t \in [tool : {"sed"}, script : DOMAIN SedScript, mode : {"files", "inPlace", "missing"},
                   texts : {<<t>> : t \in FewTexts} \union {<<t, u>> : t \in FewTexts, u \in FewTexts}] :
               t.script \in {"same", "joined"} /\ t.mode # "inPlace" => Len(t.texts) = 1}
     \union [tool : {"sed"}, script : DOMAIN SedScript, mode : {"pipe"}, texts : {<<t>> : t \in SedTexts}]
Def(s, l, t) == [short |-> Chars(s), long |-> Chars(l), type |-> t]
FlagDefs == <<Def("a", "ab", "bool"), Def("o", "out", "value"), Def("e", "", "optional"), Def("", "a", "bool"), Def("q", "e", "optional")>>
FlagItems == {Said(FlagDefs[i], <<>>) : i \in {1, 3, 4, 5}} \union {Said(FlagDefs[i], Chars(v)) : i \in {2, 3, 5}, v \in {"a", "-"}}
     \union {Said(FlagDefs[2], v) : v \in {<<>>, Chars("--"), Chars("-a")}} \union {Said(OperandDef, Chars(v)) : v \in {"a", "-", "-a", "--"}}
     \union {Said(UnknownDef, <<>>)}
InOrder(items) == \A i, j \in DOMAIN items : i < j /\ items[i].def = OperandDef => items[j].def = OperandDef /\ items[i].value # <<"-">>
ItemLists == BoundedSeq(FlagItems, 2) \union [1 .. 3 -> {it \in FlagItems : Len(it.value) < 2 /\ it.def \notin {FlagDefs[4], FlagDefs[5], UnknownDef}}]
Spelled2(all, stop) == UNION {[tool : {"flags"}, spec : {[defs |-> FlagDefs, stopAtFirst |-> stop]}, items : {items}, args : SpellingsOf(items, stop)] : items \in all}
Arguments1 == Spelled2(ItemLists, FALSE) \union Spelled2({items \in ItemLists : InOrder(items)}, TRUE)
Xargs(c, n, s, r, e, z, in, codes) == [tool |-> "xargs", baseCmd |-> <<"c">>, cmdArgs |-> c, maxArgs |-> n, maxSize |-> s,
                                       replaceStr |-> r, eofStr |-> e, null |-> z, stdin |-> in, codes |-> codes]
AllWell == [i \in 1 .. 6 |-> 0]
XargsTexts == {FlattenSeq(t) : t \in BoundedSeq({<<"a">>, <<"b", "b">>, <<" ">>, <<"\n">>}, 4)}
XargsCodes == {[i \in 1 .. 6 |-> IF i = k THEN c ELSE 0] : k \in {1, 2}, c \in {0, 1, -1, 255, NotStarted}}
XargsRuns == {Xargs(c, n, s, <<>>, e, FALSE, t, AllWell) : c \in {<<<<"x">>>>}, n \in {0, 2}, s \in {0, 6, 8}, e \in {<<>>, <<"a">>}, t \in XargsTexts}
     \union {Xargs(<<<<"x", "%">>>>, 0, 0, <<"%">>, e, z, t, AllWell) : e \in {<<>>, <<"a">>}, z \in {FALSE}, t \in XargsTexts}
     \union {Xargs(<<>>, 1, 0, r, <<>>, TRUE, t, k) : r \in {<<>>}, t \in {<<"a", NUL, "b", " ", NUL>>, <<"a", NUL, NUL, "b">>}, k \in XargsCodes}
GrepFile(n, t) == [name |-> n, kind |-> "file", text |-> t, members |-> <<>>]
GrepMissing == [name |-> "m", kind |-> "missing", text |-> <<>>, members |-> <<>>]
GrepDir(ms) == [name |-> "d", kind |-> "dir", text |-> <<>>, members |-> ms]
GrepJob(ps, pf, ops, in, fl, b, a) == [tool |-> "grep", patterns |-> ps, patternFiles |-> pf, operands |-> ops, stdin |-> GrepFile("-", in), flags |-> fl, before |-> b, after |-> a]
GrepLines == {Chars(w) : w \in {"", "a", "ab", "bA", "a b"}}
GrepTexts == {Ended(lefts) : lefts \in BoundedSeq(GrepLines, 2)}
GrepPatterns == {<<Chars(w)>> : w \in {"a", "b*", "a|b", "^a", "ab$", "..", "(", "", "^"}} \union {<<Chars("ab"), Chars("a")>>, <<Chars("b\na")>>, <<>>}
GrepFlags == {{}, {"v"}, {"x"}, {"w"}, {"i"}, {"n"}, {"c"}, {"l"}, {"L"}, {"o", "n"}, {"F"}, {"F", "x"}, {"F", "w"}, {"F", "i"}, {"i", "x"}, {"w", "o", "n"}, {"v", "o", "n"}, {"q"}, {"json"}}
FewOperands == LET files == {GrepFile("f", Chars("a\nb\n")), GrepFile("g", Chars("b")), GrepFile("z", <<"a", NUL, "\n">>), GrepMissing, GrepDir(<<>>), GrepDir(<<GrepFile("e", Chars("a\n"))>>)}
               IN  {<<f>> : f \in files} \union (files \X files)
Searches == {GrepJob(ps, <<>>, <<GrepFile("f", t)>>, <<>>, fl, 0, 0) : ps \in GrepPatterns, t \in GrepTexts, fl \in GrepFlags}
     \union {GrepJob(<<<<"a">>>>, <<>>, ops, <<>>, fl, 0, 0) : ops \in FewOperands,
                 fl \in {m \union r : m \in {{}, {"l"}, {"L"}, {"c"}, {"q"}, {"json"}, {"v"}, {"l", "q"}, {"q", "c"}, {"h"}, {"H", "n"}}, r \in {{}, {"r"}, {"a"}, {"s"}}}}
     \union {GrepJob(<<<<"a">>>>, <<>>, <<>>, Ended(lefts), fl, b, a) : lefts \in BoundedSeq({<<"a">>, <<"b">>}, 5), fl \in {{"n"}, {"v"}, {"json"}, {"q"}, {"c"}}, b \in 0 .. 2, a \in 0 .. 2}
     \union {GrepJob(ps, pf, <<>>, Chars("a\nb\n"), fl, 0, 0) : ps \in {<<>>, <<<<"b">>>>}, pf \in {<<GrepFile("p", Chars("a\n\n"))>>, <<GrepMissing>>, <<GrepFile("p", <<>>)>>}, fl \in {{}, {"s"}, {"F"}}}
MCTransfers == [bytes : {<<>>, <<1>>, <<1, 2, 26>>, <<1, 26, 2, 3>>, <<1, 2, 3, 4, 5, 6, 7>>, Up(13)}, json : {FALSE}] \union [bytes : {<<1>>}, json : {TRUE}]
\* factor: every number, and words that are none; chmod: clauses and what they are applied to
FactorRuns == [tool : {"factor"}, words : {<<FormatNat(n)>> : n \in 0 .. 2 ^ UintBits + 1}
                    \union [1 .. 2 -> {<<"+", "9">>, <<"-", "9">>, <<"+">>, <<>>, <<"+", "-", "6">>, <<"1", "a">>, <<"0">>, <<"1", "2">>}]]
Clause(w, o, p) == [who |-> w, op |-> o, perms |-> p, digits |-> [u |-> 0, g |-> 0, o |-> 0]]
Clauses == [who : {<<"u">>, <<"g">>, <<"o", "u">>, <<"a">>, <<"g", "a">>}, op : {"+", "-", "="},
            perms : {<<"r">>, <<"x", "w">>, <<"s", "r">>, <<"t">>}, digits : {[u |-> 0, g |-> 0, o |-> 0]}]
ModeFile(e, w, b) == [exists |-> e, own |-> w, bits |-> b]
ModeFiles == {ModeFile(TRUE, TRUE, AllBits), ModeFile(TRUE, TRUE, {"ur", "uw", "gx", "sticky"}), ModeFile(TRUE, FALSE, {}), ModeFile(FALSE, TRUE, {})}
Digit8(d) == Digits[d + 1]
ChmodRuns ==
    {[tool |-> "chmod", clause |-> c, word |-> c.who \o <<c.op>> \o c.perms, files |-> f]
        : c \in Clauses, f \in BoundedSeq(ModeFiles, 2)}
    \union {[tool |-> "chmod", clause |-> [Clause(<<>>, "number", <<>>) EXCEPT !.digits = [u |-> u, g |-> g, o |-> o]],
             word |-> s \o <<Digit8(u), Digit8(g), Digit8(o)>>, files |-> f]
        : u \in {0, 7}, g \in 0 .. 7, o \in {2, 5}, s \in {<<>>, <<"4">>}, f \in BoundedSeq(ModeFiles, 1)}
    \union {[tool |-> "chmod", clause |-> Clause(<<>>, "none", <<>>), word |-> w, files |-> f]
        : w \in {<<"u", "+">>, <<"+", "x", "w">>, <<"8">>, <<"u", "x">>, <<>>}, f \in BoundedSeq(ModeFiles, 2)}
\* echo and printf: bytes as texts spell them, conversions with their arguments, formats used again
SpellUnits == {[byte |-> b, how |-> h] : b \in {65, 200}, h \in {"plain", "zero", "octal", "hex"}}
     \union {[byte |-> b, how |-> h] : b \in {7, 10, 92}, h \in {"named", "zero", "hex"}}
EchoGroups == BoundedSeq({<<110>>, <<101>>, <<69, 110>>, <<110, 101>>, <<101, 120>>}, 2)
EchoRuns == [tool : {"echo"}, groups : EchoGroups, units : BoundedSeq(SpellUnits, 1)]
     \union [tool : {"echo"}, groups : {<<>>, <<<<101>>>>}, units : [1 .. 2 -> SpellUnits]]
Conversion(c, f, w, p) == [k |-> "conv", conv |-> c, flags |-> f, width |-> w, precision |-> p]
SizeIs(n) == [star |-> FALSE, n |-> n]
NoSize == SizeIs(-1)
SizeArg == [star |-> TRUE, n |-> 0]
Precise(n) == [has |-> TRUE, star |-> FALSE, n |-> n]
Imprecise == [has |-> FALSE, star |-> FALSE, n |-> 0]
PreciseArg == [has |-> TRUE, star |-> TRUE, n |-> 0]
NumberArgs(c) == LET Means(a, ok, n) == [arg |-> a, ok |-> ok, val |-> n] IN
    {Means(<<48>>, TRUE, 0), Means(<<55>>, TRUE, 7), Means(<<43, 50, 57>>, TRUE, 29), Means(<<32, 51, 48, 48>>, TRUE, 300),
     Means(<<32>>, TRUE, 0), Means(<<>>, FALSE, 0), Means(<<55, 97>>, FALSE, 0), Means(<<39>>, FALSE, 0),
     Means(<<34>>, FALSE, 0), Means(<<43>>, TRUE, 0), Means(<<39, 39>>, FALSE, 0)}
    \union IF c = "d" THEN {Means(<<45, 49, 50>>, TRUE, -12), Means(<<39, 65>>, TRUE, 65)}
           ELSE {Means(<<45, 49, 50>>, FALSE, 0), Means(<<39, 65>>, FALSE, 0)}
PrintfRun(items, args) == [tool |-> "printf", items |-> items, args |-> args, numbers |-> <<>>, units |-> <<>>]
ManyItems == {[k |-> "text", text |-> <<65, 92, 110>>], [k |-> "stop"], [k |-> "bad"], Conversion("s", {}, NoSize, Imprecise),
              Conversion("d", {"0"}, SizeIs(3), Imprecise), Conversion("s", {"-"}, SizeArg, Imprecise), Conversion("x", {}, SizeArg, PreciseArg)}
PrintfRuns ==
    {PrintfRun(<<Conversion(c, f, w, p)>>, <<a>>) : c \in {"s", "c"}, f \in {{}, {"-"}, {"0"}}, w \in {NoSize, SizeIs(3)},
        p \in {Imprecise, Precise(0), Precise(2)}, a \in {<<>>, <<65>>, <<65, 32, 66>>, <<65, 66, 67, 68>>}}
    \union UNION {{[PrintfRun(<<Conversion(c, f, w, p)>>, <<n.arg>>) EXCEPT !.numbers = <<n>>] : n \in NumberArgs(c),
                      f \in {{}, {"0"}, {"-"}, {"-", "0"}} \union (IF c = "d" THEN {{"+", "0"}, {"+"}} ELSE {}),
                      w \in {NoSize, SizeIs(4)}, p \in {Imprecise, Precise(0), Precise(2)}} : c \in {"d", "u", "o", "x"}}
    \union {[PrintfRun(<<Conversion("b", {}, NoSize, Imprecise)>>, <<EscapedText(u)>>) EXCEPT !.units = u] : u \in BoundedSeq(SpellUnits, 2)}
    \union {PrintfRun(items, args) : items \in [1 .. 2 -> ManyItems] \union {<<>>, <<[k |-> "bad"]>>, <<[k |-> "text", text |-> <<65>>]>>}, args \in BoundedSeq({<<50>>, <<65>>, <<34>>}, 3)}
\* date: zones as they are spelled and what they mean, instants about every change of time and every new year
RuleOf(k, on, time, starts) == [kind |-> k, on |-> on, time |-> time, isStart |-> starts]
ClockItems(n) == <<NumberItem(n \div 3600)>> \o (IF n % 3600 = 0 THEN <<>> ELSE <<Mark(":"), NumberItem((n \div 60) % 60)>>)
OffsetItems(n) == IF n > 0 THEN <<Mark("-")>> \o ClockItems(n) ELSE ClockItems(-n)
RuleItems(r) == <<Mark(",")>> \o (IF r.kind = "M" THEN <<Mark("M"), NumberItem(r.on[1]), Mark("."), NumberItem(r.on[2]), Mark("."), NumberItem(r.on[3])>>
                                  ELSE (IF r.kind = "J" THEN <<Mark("J")>> ELSE <<>>) \o <<NumberItem(r.on[1])>>)
                \o (IF r.time = 7200 THEN <<>> ELSE <<Mark("/")>> \o ClockItems(r.time))
NoSummer(off) == [ok |-> TRUE, stdName |-> 1, stdOffset |-> off, hasDST |-> FALSE, dstName |-> 0, dstOffset |-> 0,
               start |-> DefaultRule(0, 0, TRUE), end |-> DefaultRule(0, 0, TRUE)]
Summer(off, dst, s, e) == [NoSummer(off) EXCEPT !.hasDST = TRUE, !.dstName = 2, !.dstOffset = dst, !.start = s, !.end = e]
FirstRule == RuleOf("M", <<3, 2, 0>>, 7200, TRUE)
LastRule == RuleOf("M", <<11, 1, 0>>, 7200, FALSE)
Zones == {NoSummer(-18000), NoSummer(19800), Summer(-18000, -14400, FirstRule, LastRule),
          Summer(3600, 7200, RuleOf("M", <<3, 5, 0>>, 7200, TRUE), RuleOf("M", <<10, 5, 0>>, 10800, FALSE)),
          Summer(36000, 39600, RuleOf("M", <<10, 1, 6>>, 7200, TRUE), RuleOf("M", <<4, 4, 1>>, 10800, FALSE)),
          Summer(-12600, -10800, RuleOf("J", <<60>>, 0, TRUE), RuleOf("J", <<300>>, 5400, FALSE)),
          Summer(43200, 46800, RuleOf("n", <<299>>, 90000, TRUE), RuleOf("n", <<59>>, 7200, FALSE))}
ZoneItems(z) ==
    <<NameItem(1)>> \o OffsetItems(z.stdOffset)
    \o (IF ~z.hasDST THEN <<>>
        ELSE <<NameItem(2)>> \o (IF z.dstOffset = z.stdOffset + 3600 THEN <<>> ELSE OffsetItems(z.dstOffset))
             \o (IF z.start = FirstRule /\ z.end = LastRule THEN <<>> ELSE RuleItems(z.start) \o RuleItems(z.end)))
BrokenZones == LET front == <<NameItem(1), NumberItem(5), NameItem(2)>> IN
    {<<>>, <<NameItem(1)>>, <<NumberItem(5)>>, Append(front, Mark(",")), front \o RuleItems(FirstRule),
     front \o RuleItems(FirstRule) \o <<Mark(","), Mark("M"), NumberItem(3)>>, front \o RuleItems([FirstRule EXCEPT !.on = <<3, 2, 0>>]) \o <<Mark("/")>>}
NoFields == [year |-> 2024, month |-> 1, day |-> 1, hour |-> 0, min |-> 0, sec |-> 0]
GivenDate(form, has, zone, unix, f) == [form |-> form, hasZone |-> has, zone |-> zone, unix |-> unix, fields |-> f]
AtUnix(t) == GivenDate("@", FALSE, 0, t, NoFields)
DateJob(tz, utc, has, g) == [tz |-> tz, utc |-> utc, local |-> 3600, now |-> 1709251199, hasDate |-> has, given |-> g, extra |-> FALSE]
DateRun(zone, j) == [tool |-> "date", zone |-> zone, job |-> j]
NearChanges(z) == IF ~z.hasDST THEN {} ELSE {c.at + d : c \in Changes(z, 2023 .. 2024), d \in {-1, 0, 1800}}
NearNewYear == {Instant(DayOf(y, 1, 1), s, 0) : y \in {2024, 2025}, s \in {-1, 0, 50000, -50000}}
DateFields == {[year |-> y, month |-> m, day |-> d, hour |-> h, min |-> 59, sec |-> 0] : y \in {2023, 2024}, m \in {0, 2, 7, 12, 13}, d \in {1, 29, 31}, h \in {0, 23, 24}}
DateRuns ==
    UNION {{DateRun(z, DateJob(ZoneItems(z), utc, TRUE, AtUnix(t))) : t \in NearChanges(z) \union NearNewYear, utc \in BOOLEAN} : z \in Zones}
    \union {DateRun(NotParsed, DateJob(items, FALSE, TRUE, AtUnix(t))) : items \in BrokenZones, t \in NearNewYear}
    \union {DateRun(NotParsed, DateJob(<<>>, utc, TRUE, AtUnix(DayOf(y, m, d) * perDay + 47000))) : utc \in {TRUE}, y \in 2000 .. 2028, m \in {1, 3, 12}, d \in {-1, 0, 1, 4, 6, 7, 8, 30}}
    \union {DateRun(NoSummer(19800), DateJob(ZoneItems(NoSummer(19800)), utc, TRUE, GivenDate(form, has, 7200, 0, f)))
              : utc \in BOOLEAN, form \in {"iso", "compact", "dotted", "thisYear", "today", "none"}, has \in BOOLEAN, f \in DateFields}
    \union {DateRun(NotParsed, [DateJob(<<>>, utc, FALSE, AtUnix(0)) EXCEPT !.extra = x]) : utc \in BOOLEAN, x \in BOOLEAN}
CalOptions == [year : {2024}, month : {2}, forceYear : BOOLEAN, julian : BOOLEAN, mondayStart : BOOLEAN]
CalRun(words, o, ok, y, m) == [tool |-> "cal", words |-> words, options |-> o, ok |-> ok, year |-> y, month |-> IF o.forceYear THEN 0 ELSE m]
CalRuns ==
    {CalRun(<<>>, o, TRUE, 2024, 2) : o \in CalOptions}
    \union {CalRun(<<FormatNat(y)>>, o, y \in 1 .. 9999, y, 0) : y \in {0, 1, 1752, 1900, 2000, 9999, 10000}, o \in CalOptions}
    \union {CalRun(<<FormatNat(m), FormatNat(y)>>, o, m \in 1 .. 12, y, m) : m \in 0 .. 13, y \in {1900, 2023, 2024}, o \in CalOptions}
    \union {CalRun(<<Chars(w.word), FormatNat(2023)>>, o, w.m # 0, 2023, w.m) : o \in CalOptions,
              w \in {[word |-> "ju", m |-> 0], [word |-> "jul", m |-> 7], [word |-> "f", m |-> 2], [word |-> "mayo", m |-> 0], [word |-> "", m |-> 0]}}
    \union {CalRun(w, o, FALSE, 2023, 1) : w \in {<<Chars("x")>>, <<Chars("1"), Chars("x")>>, <<Chars("1"), Chars("2"), Chars("3")>>}, o \in CalOptions}
MCPrograms == UNION {EchoRuns, PrintfRuns, DateRuns, CalRuns, FactorRuns, ChmodRuns, Searches, Arguments1, XargsRuns, [tool : {"expr"}, tree : Exprs], Tests, Calculations, BcRuns, Editing}
====
