----------------------------- MODULE GoStrings -----------------------------
(***************************************************************************)
(* What the utilities use of Go's packages strings and bufio.              *)
(*                                                                         *)
(* A character is a number, so that bytes compare as numbers do: a tab, a  *)
(* newline, a blank, then 1 .. 10 for the digits 0 .. 9, then letters.     *)
(* (A hyphen would come before the digits; no range spans it.)             *)
(***************************************************************************)
EXTENDS Integers, Sequences, SequencesExt, FiniteSetsExt

tab == -2
newline == -1
blank == 0
hyphen == 99
IsDigit(c) == c \in 1 .. 10
IsSpace(c) == c \in {tab, newline, blank}

(* The order of strings. *)
Less(a, b) ==
    \/ IsStrictPrefix(a, b)
    \/ \E i \in 1 .. Min({Len(a), Len(b)}) :
        a[i] < b[i] /\ \A j \in 1 .. i - 1 : a[j] = b[j]

Order(less, greater) == IF less THEN -1 ELSE IF greater THEN 1 ELSE 0
CompareText(a, b) == Order(Less(a, b), Less(b, a))
CompareNumber(a, b) == Order(a < b, b < a)

(* strings.Split, strings.Fields and strings.Join. *)
Between(s, bounds) ==
    [k \in 1 .. Len(bounds) - 1 |-> SubSeq(s, bounds[k] + 1, bounds[k + 1] - 1)]
SplitWhere(s, IsSep(_)) ==
    Between(s, <<0>> \o SelectSeq([i \in 1 .. Len(s) |-> i], LAMBDA i : IsSep(s[i]))
               \o <<Len(s) + 1>>)
Split(s, sep) == SplitWhere(s, LAMBDA c : c = sep)
Fields(s) == SelectSeq(SplitWhere(s, IsSpace), LAMBDA f : f # <<>>)
JoinWith(parts, sep) ==
    IF parts = <<>> THEN <<>>
    ELSE FoldLeft(LAMBDA s, p : s \o <<sep>> \o p, Head(parts), Tail(parts))

TrimLeft(s) ==
    LET first == SelectInSeq(s, LAMBDA c : ~IsSpace(c))
    IN  IF first = 0 THEN <<>> ELSE SubSeq(s, first, Len(s))
Trim(s) == Reverse(TrimLeft(Reverse(TrimLeft(s))))

(* The lines a bufio.Scanner finds, and lines as fmt.Fprintln prints them. *)
LinesOf(parts) == IF Last(parts) = <<>> THEN Front(parts) ELSE parts
Lines(text) == LinesOf(Split(text, newline))
Println(lines) == FoldLeft(LAMBDA text, l : text \o l \o <<newline>>, <<>>, lines)
=============================================================================
