------------------------------- MODULE GoWords -------------------------------
(***************************************************************************)
(* Words as the evaluators see them: a word is a sequence of characters, a *)
(* character a one-letter string.  An operator or keyword with a longer    *)
(* spelling is written as one character of its own; NUL is the byte zero.  *)
(*                                                                         *)
(* What they use of Go's packages strconv and strings, integers having     *)
(* IntBits bits, and of its package regexp, expressions being made of      *)
(* literals, escaped characters, the dot, the star of one of these, the    *)
(* anchors, word boundaries, and groups neither nested nor starred.        *)
(***************************************************************************)
EXTENDS Integers, Sequences, SequencesExt

CONSTANT IntBits

ASSUME IntBitsAssumption == IntBits \in Nat \ {0}

NUL == "NUL"
Chars(s) == [i \in 1 .. Len(s) |-> SubSeq(s, i, i)]
NonEmpty(parts) == SelectSeq(parts, LAMBDA w : w # <<>>)

Digits == <<"0", "1", "2", "3", "4", "5", "6", "7", "8", "9">>
Alphabet == <<"+", "-">> \o Digits \o <<"a", "b", "c">>

MaxInt == 2 ^ (IntBits - 1) - 1
MinInt == -MaxInt - 1
Wrap(n) == ((n - MinInt) % 2 ^ IntBits) + MinInt

RankIn(chars) == [c \in ToSet(chars) |-> SelectInSeq(chars, LAMBDA d : d = c)]
DigitValue == [c \in ToSet(Digits) |-> RankIn(Digits)[c] - 1]
RankOf == RankIn(Alphabet)

IsNumeral(s) == s # <<>> /\ \A i \in DOMAIN s : s[i] \in DOMAIN DigitValue
DigitsValue(s) == FoldLeft(LAMBDA n, c : 10 * n + DigitValue[c], 0, s)

(* The character at a position, if there is one; where a run of digits ends. *)
CharAt(text, i) == IF i <= Len(text) THEN text[i] ELSE ""
RECURSIVE DigitsEnd(_, _)
DigitsEnd(text, i) == IF CharAt(text, i) \in DOMAIN DigitValue THEN DigitsEnd(text, i + 1) ELSE i

(* strconv.ParseInt: an optional sign, digits, and a value in range. *)
Unsigned(s) == IF s # <<>> /\ s[1] \in {"+", "-"} THEN Tail(s) ELSE s
ParseValue(s) == (IF s[1] = "-" THEN -1 ELSE 1) * DigitsValue(Unsigned(s))
ParsesAsInt(s) == IsNumeral(Unsigned(s)) /\ ParseValue(s) \in MinInt .. MaxInt

RECURSIVE FormatNat(_)
FormatNat(n) ==
    IF n < 10 THEN <<Digits[n + 1]>> ELSE Append(FormatNat(n \div 10), Digits[(n % 10) + 1])
FormatInt(n) == IF n < 0 THEN <<"-">> \o FormatNat(-n) ELSE FormatNat(n)

(* Division and remainder as Go's: towards zero. *)
Quo(a, b) ==
    LET q == (IF a < 0 THEN -a ELSE a) \div (IF b < 0 THEN -b ELSE b)
    IN  IF (a < 0) = (b < 0) THEN q ELSE -q
Rem(a, b) == a - b * Quo(a, b)

(* strings.Compare(a, b) < 0 *)
WordLess(a, b) ==
    \/ IsStrictPrefix(a, b)
    \/ \E i \in 1 .. Len(a) :
        /\ i <= Len(b)
        /\ SubSeq(a, 1, i - 1) = SubSeq(b, 1, i - 1)
        /\ RankOf[a[i]] < RankOf[b[i]]

-----------------------------------------------------------------------------
(* An element of an expression is a character, escaped or not. *)
ElementLen(p) == IF p[1] = "\\" THEN 2 ELSE 1
Accepts(p, c) ==
    CASE p[1] = "." -> c # "\n"
      [] p[1] = "\\" -> c = (IF p[2] = "n" THEN "\n" ELSE p[2])
      [] OTHER -> c = p[1]

(* A match of the expression p from position i of s on: a star takes as    *)
(* much as lets the rest match.  groups holds the bounds of the groups so  *)
(* far, one after the other.                                               *)
NoMatch == [end |-> -1, groups |-> <<>>]

(* \b: a word character on one side of position i only. *)
NameChars == {"0", "1", "2", "3", "4", "5", "6", "7", "8", "9", "a", "b", "c", "x", "y", "A", "B", "_"}
IsNameAt(s, i) == i \in DOMAIN s /\ s[i] \in NameChars
AtBoundary(s, i) == IsNameAt(s, i) # IsNameAt(s, i + 1)

RECURSIVE Match(_, _, _, _)
Match(p, s, i, groups) ==
    IF p = <<>> THEN [end |-> i, groups |-> groups]
    ELSE IF p[1] \in {"(", ")"} THEN Match(Tail(p), s, i, Append(groups, i))
    ELSE IF p[1] = "^" THEN IF i = 0 THEN Match(Tail(p), s, i, groups) ELSE NoMatch
    ELSE IF p[1] = "$" THEN IF i = Len(s) THEN Match(Tail(p), s, i, groups) ELSE NoMatch
    ELSE IF p[1] = "\\" /\ p[2] = "b"
    THEN IF AtBoundary(s, i) THEN Match(SubSeq(p, 3, Len(p)), s, i, groups) ELSE NoMatch
    ELSE LET rest == SubSeq(p, ElementLen(p) + 1, Len(p))
             starred == rest # <<>> /\ Head(rest) = "*"
             taking == IF i < Len(s) /\ Accepts(p, s[i + 1])
                       THEN Match(IF starred THEN p ELSE rest, s, i + 1, groups)
                       ELSE NoMatch
         IN  IF starred /\ taking = NoMatch THEN Match(Tail(rest), s, i, groups) ELSE taking

(* regexp.Compile accepts p: its groups are closed and no escape is open. *)
RECURSIVE Bare(_)
Bare(p) ==
    IF p = <<>> THEN <<>>
    ELSE IF p[1] = "\\" THEN (IF Len(p) = 1 THEN <<"(">> ELSE Bare(SubSeq(p, 3, Len(p))))
    ELSE <<p[1]>> \o Bare(Tail(p))
Compiles(p) ==
    LET parens == SelectSeq(Bare(p), LAMBDA c : c \in {"(", ")"})
    IN  /\ Len(parens) % 2 = 0
        /\ \A i \in DOMAIN parens : parens[i] = IF i % 2 = 1 THEN "(" ELSE ")"

(* The leftmost match from position i on. *)
RECURSIVE FindFrom(_, _, _)
FindFrom(p, s, i) ==
    LET m == Match(p, s, i, <<>>)
    IN  IF i > Len(s) THEN [start |-> -1, end |-> -1, groups |-> <<>>]
        ELSE IF m # NoMatch THEN [start |-> i, end |-> m.end, groups |-> m.groups]
        ELSE FindFrom(p, s, i + 1)
Matches(p, s) == FindFrom(p, s, 0).start >= 0

(* All matches in turn; an empty one may not touch the one before it. *)
RECURSIVE FindAllFrom(_, _, _, _, _)
FindAllFrom(p, s, i, before, m) ==
    LET next == IF m.end = i THEN i + 1 ELSE m.end
    IN  IF m.start < 0 THEN <<>>
        ELSE (IF m.end = i /\ m.start = before THEN <<>> ELSE <<m>>)
             \o FindAllFrom(p, s, next, m.end, FindFrom(p, s, next))
FindAll(p, s) == FindAllFrom(p, s, 0, -1, FindFrom(p, s, 0))

(* Expand: a reference is a dollar and the longest name behind it; a name  *)
(* that is not the number of a group stands for nothing.                   *)
GroupText(s, m, name) ==
    IF name = <<"0">> THEN SubSeq(s, m.start + 1, m.end)
    ELSE LET k == SelectInSeq(<<"1", "2">>, LAMBDA d : <<d>> = name)
         IN  IF k = 0 \/ 2 * k > Len(m.groups) THEN <<>>
             ELSE SubSeq(s, m.groups[2 * k - 1] + 1, m.groups[2 * k])

RECURSIVE NamePrefix(_), Expand(_, _, _)
NamePrefix(t) ==
    IF t = <<>> THEN <<>>
    ELSE IF Head(t) \in NameChars THEN <<Head(t)>> \o NamePrefix(Tail(t)) ELSE <<>>
Expand(template, s, m) ==
    LET name == NamePrefix(Tail(template))
    IN  IF template = <<>> THEN <<>>
        ELSE IF Head(template) = "$" /\ name # <<>>
        THEN GroupText(s, m, name) \o Expand(SubSeq(template, Len(name) + 2, Len(template)), s, m)
        ELSE <<Head(template)>> \o Expand(Tail(template), s, m)

RECURSIVE ReplaceFrom(_, _, _, _)
ReplaceFrom(s, from, found, template) ==
    IF found = <<>> THEN SubSeq(s, from + 1, Len(s))
    ELSE SubSeq(s, from + 1, Head(found).start) \o Expand(template, s, Head(found))
         \o ReplaceFrom(s, Head(found).end, Tail(found), template)
ReplaceMatches(p, s, template) == ReplaceFrom(s, 0, FindAll(p, s), template)
=============================================================================
