---------------------------- MODULE XmodemProofs ----------------------------
(***************************************************************************)
(* What rx writes is right, for every file, block size, range of block     *)
(* numbers and number of faults (rx.go).                                   *)
(*                                                                         *)
(* The receiver has taken n blocks: At(n).  What is on the line comes in   *)
(* order and starts at place n or behind it, but rx only sees the number   *)
(* of a block, which comes round again.  So the invariant counts: Excess   *)
(* is how far the sender could get ahead of n if everything on its way,    *)
(* answers included, were good news.  Nothing but a fault adds to it, so   *)
(* it never exceeds the faults, and while these are too few to go round    *)
(* once a number that is expected is the block that is expected.  If       *)
(* nothing misled either side there is no such limit: then only one thing  *)
(* is under way at a time.                                                 *)
(***************************************************************************)
EXTENDS Xmodem, TLAPS

-----------------------------------------------------------------------------
(* Block numbers, and what is sent and kept. *)

(* Division with a remainder, as in a block number that is one byte.        *)
LEMMA Division ==
    ASSUME NEW R \in Nat \ {0}, NEW a \in Int
    PROVE  a \div R \in Int /\ a % R \in 0 .. R - 1 /\ a = R * (a \div R) + (a % R)
  BY SMTT(30)

(* The only multiple of R that is at least 0 and less than R is 0.          *)
LEMMA SmallMultiple ==
    ASSUME NEW R \in Nat \ {0}, NEW q \in Int, 0 <= R * q, R * q < R
    PROVE  q = 0
  BY SMTT(30)

(* Two places less than R apart with the same number are the same: what     *)
(* lets rx tell blocks by their numbers (rx.go:111).                        *)
LEMMA SameRemainder ==
    ASSUME NEW R \in Nat \ {0}, NEW a \in Int, NEW b \in Int, b <= a, a - b < R, a % R = b % R
    PROVE  a = b
  <1>. DEFINE p == a \div R
              q == b \div R
  <1>1. /\ p \in Int /\ q \in Int /\ a = R * p + (a % R) /\ b = R * q + (b % R)
        /\ a % R \in 0 .. R - 1
    BY Division
  <1>2. R * (p - q) = R * p - R * q
    BY <1>1
  <1>. HIDE DEF p, q
  <1>3. R * p \in Int /\ R * q \in Int
    BY <1>1
  <1>4. 0 <= R * (p - q) /\ R * (p - q) < R
    BY <1>1, <1>2, <1>3
  <1>5. p - q = 0
    BY <1>1, <1>4, SmallMultiple
  <1>6. p = q 
    BY <1>1, <1>5
  <1>. QED  BY <1>1, <1>6, <1>3

(* A remainder is determined by any way to divide.                          *)
LEMMA UniqueRemainder ==
    ASSUME NEW R \in Nat \ {0}, NEW a \in Int, NEW q \in Int, NEW r \in 0 .. R - 1, a = R * q + r
    PROVE  a % R = r
  BY SMTT(30)

(* The number behind that of place n is that of place n + 1, and the number *)
(* before that of place n + 1 is that of place n, wrapping round as         *)
(* blockExpected++ and blockExpected-1 do on a byte (rx.go:112, 128).       *)
LEMMA NextRemainder ==
    ASSUME NEW R \in Nat \ {0, 1}, NEW n \in Int
    PROVE  /\ ((n % R) + 1) % R = (n + 1) % R
           /\ (((n + 1) % R) - 1) % R = n % R
  <1>. DEFINE q == n \div R
              r == n % R
  <1>1. q \in Int /\ r \in 0 .. R - 1 /\ n = R * q + r /\ R * q \in Int
    BY Division
  <1>. HIDE DEF q, r
  <1>2. CASE r + 1 < R
    <2>1. (r + 1) % R = r + 1
      BY <1>1, <1>2, UniqueRemainder, R * 0 = 0
    <2>2. (n + 1) % R = r + 1
      BY <1>1, <1>2, UniqueRemainder
    <2>3. (r + 1) - 1 = r
      BY <1>1
    <2>4. r % R = r
      BY <1>1, UniqueRemainder, R * 0 = 0
    <2>. QED  BY <2>1, <2>2, <2>3, <2>4 DEF r
  <1>3. CASE r + 1 = R
    <2>1. R * (q + 1) = R * q + R
      BY <1>1
    <2>2. (n + 1) % R = 0
      BY <1>1, <1>3, <2>1, UniqueRemainder
    <2>3. (r + 1) % R = 0
      BY <1>3, UniqueRemainder, R = R * 1 + 0
    <2>4. (0 - 1) % R = R - 1
      BY UniqueRemainder, 0 - 1 = R * (-1) + (R - 1)
    <2>. QED  BY <1>1, <1>3, <2>2, <2>3, <2>4 DEF r
  <1>. QED  BY <1>1, <1>2, <1>3

(* The file and the padding consist of bytes.                               *)
LEMMA BytesSent ==
    ASSUME transfer \in Transfers, NEW i \in Nat \ {0}
    PROVE  ByteAt(i) \in Nat
  BY XmodemAssumption DEF ByteAt, Padding

(* n blocks hold n times blockSize bytes of what is sent.                   *)
LEMMA SentBytes ==
    ASSUME transfer \in Transfers, NEW n \in Nat
    PROVE  /\ n * blockSize \in Nat
           /\ Sent(n) \in Seq(Nat) /\ Len(Sent(n)) = n * blockSize
           /\ \A i \in 1 .. n * blockSize : Sent(n)[i] = ByteAt(i)
  <1>1. n * blockSize \in Nat
    BY XmodemAssumption
  <1>. DEFINE m == n * blockSize
  <1>. HIDE DEF m
  <1>2. [i \in 1 .. m |-> ByteAt(i)] \in Seq(Nat)
    BY <1>1, BytesSent DEF m
  <1>. QED  BY <1>1, <1>2 DEF Sent, m

(* n blocks and block n + 1 behind them are n + 1 blocks: what              *)
(* fileBuf.Write adds (rx.go:87, 127).                                      *)
LEMMA SentGrows ==
    ASSUME transfer \in Transfers, NEW n \in Nat
    PROVE  Sent(n) \o BlockData(n + 1) = Sent(n + 1)
  <1>. DEFINE m == n * blockSize
  <1>1. /\ m \in Nat /\ (n + 1) * blockSize = m + blockSize /\ blockSize \in Nat \ {0}
        /\ (n + 1) - 1 = n
    BY XmodemAssumption
  <1>. HIDE DEF m
  <1>2. /\ [i \in 1 .. m |-> ByteAt(i)] \in Seq(Nat)
        /\ [i \in 1 .. m + blockSize |-> ByteAt(i)] \in Seq(Nat)
    BY <1>1, BytesSent
  <1>3. [i \in 1 .. blockSize |-> ByteAt(m + i)] \in Seq(Nat)
    BY <1>1, BytesSent
  <1>4. BlockData(n + 1) = [i \in 1 .. blockSize |-> ByteAt(m + i)]
    BY <1>1 DEF BlockData, m
  <1>5. Sent(n) = [i \in 1 .. m |-> ByteAt(i)] /\ Sent(n + 1) = [i \in 1 .. m + blockSize |-> ByteAt(i)]
    BY <1>1 DEF Sent, m
  <1>. DEFINE a == [i \in 1 .. m |-> ByteAt(i)]
              b == [i \in 1 .. blockSize |-> ByteAt(m + i)]
              c == [i \in 1 .. m + blockSize |-> ByteAt(i)]
  <1>6. /\ Len(a) = m /\ Len(b) = blockSize /\ Len(c) = m + blockSize
        /\ \A i \in 1 .. m : a[i] = ByteAt(i)
        /\ \A i \in 1 .. blockSize : b[i] = ByteAt(m + i)
        /\ \A i \in 1 .. m + blockSize : c[i] = ByteAt(i)
    BY <1>1, <1>2, <1>3
  <1>. HIDE DEF a, b, c
  <1>7. a \o b = c
    BY <1>1, <1>2, <1>3, <1>6 DEF a, b, c
  <1>. QED  BY <1>4, <1>5, <1>7, ZenonT(30) DEF a, b, c

(* Rounding a length up to whole blocks leaves room for all of it.          *)
LEMMA Ceiling ==
    ASSUME NEW L \in Nat, NEW b \in Nat \ {0}
    PROVE  (L + b - 1) \div b \in Nat /\ L <= ((L + b - 1) \div b) * b
  <1>. DEFINE a == L + b - 1
              q == a \div b
              r == a % b
  <1>1. a \in Nat
    OBVIOUS
  <1>. HIDE DEF a
  <1>2. q \in Int /\ r \in 0 .. b - 1 /\ a = b * q + r
    BY <1>1, Division
  <1>. HIDE DEF q, r
  <1>3. b * q \in Int /\ b * q = q * b
    BY <1>2
  <1>4. L <= q * b
    BY <1>2, <1>3 DEF a
  <1>5. q >= 0
    <2>1. CASE q < 0
      <3>1. b * q <= -b
        BY <1>2, <2>1
      <3>. QED  BY <1>1, <1>2, <1>3, <3>1
    <2>. QED  BY <1>2, <2>1
  <1>. QED  BY <1>2, <1>4, <1>5 DEF q, a

(* The blocks of a transfer have room for the file.                         *)
LEMMA EnoughBlocks ==
    ASSUME transfer \in Transfers
    PROVE  /\ Blocks \in Nat /\ transfer.bytes \in Seq(Nat) /\ Len(transfer.bytes) \in Nat
           /\ Len(transfer.bytes) <= Blocks * blockSize
  <1>1. transfer.bytes \in Seq(Nat) /\ Len(transfer.bytes) \in Nat /\ blockSize \in Nat \ {0}
    BY XmodemAssumption
  <1>. QED  BY <1>1, Ceiling, ZenonT(30) DEF Blocks

(* What is left without the padding is a file, if an empty one              *)
(* (rx.go:139-144).                                                         *)
LEMMA StripsToBytes ==
    ASSUME NEW s \in Seq(Nat)
    PROVE  Strip(s) # NoBytes
  <1>1. \A i \in DOMAIN Strip(s) : Strip(s)[i] \in Nat
    BY DEF Strip
  <1>2. 1 \in DOMAIN NoBytes /\ NoBytes[1] = -1
    BY DEF NoBytes
  <1>3. -1 \notin Nat
    OBVIOUS
  <1>. QED  BY <1>1, <1>2, <1>3, ZenonT(30)

(* Stripping all blocks leaves what stripping the file leaves.              *)
LEMMA AllSent ==
    ASSUME transfer \in Transfers
    PROVE  Strip(Sent(Blocks)) = Strip(transfer.bytes)
  <1>. DEFINE s == Sent(Blocks)
              t == transfer.bytes
              K(q) == {i \in DOMAIN q : \E j \in i .. Len(q) : q[j] # Padding}
  <1>1. /\ s \in Seq(Nat) /\ t \in Seq(Nat) /\ Len(t) \in Nat /\ Len(t) <= Len(s)
        /\ \A i \in 1 .. Len(s) : s[i] = ByteAt(i)
    BY SentBytes, EnoughBlocks, ZenonT(30)
  <1>2. \A i \in 1 .. Len(s) : s[i] = IF i <= Len(t) THEN t[i] ELSE Padding
    BY <1>1 DEF ByteAt
  <1>. HIDE DEF s, t
  <1>3. \A i \in 1 .. Len(t) : i \in 1 .. Len(s) /\ s[i] = t[i]
    BY <1>1, <1>2, SMTT(30)
  <1>4. ASSUME NEW i \in K(s) PROVE i \in K(t)
    <2>1. PICK j \in i .. Len(s) : s[j] # Padding
      BY <1>4
    <2>2. i \in 1 .. Len(s)
      BY <1>1, <1>4
    <2>3. j \in 1 .. Len(s) /\ j <= Len(t)
      BY <1>1, <1>2, <2>1, <2>2
    <2>4. i \in 1 .. Len(t) /\ j \in i .. Len(t) /\ t[j] # Padding
      BY <1>1, <1>2, <2>1, <2>2, <2>3, SMTT(30)
    <2>5. i \in DOMAIN t
      BY <1>1, <2>4
    <2>. QED  BY <2>4, <2>5, ZenonT(30)
  <1>5. ASSUME NEW i \in K(t) PROVE i \in K(s)
    <2>1. PICK j \in i .. Len(t) : t[j] # Padding
      BY <1>5
    <2>2. i \in 1 .. Len(t)
      BY <1>1, <1>5, SMTT(30)
    <2>3. i \in 1 .. Len(s) /\ j \in i .. Len(s) /\ s[j] # Padding
      BY <1>1, <1>3, <2>1, <2>2, SMTT(30)
    <2>. QED  BY <1>1, <2>3, SMTT(30)
  <1>6. ASSUME NEW i \in K(t) PROVE s[i] = t[i]
    <2>1. i \in DOMAIN t /\ DOMAIN t = 1 .. Len(t)
      BY <1>1
    <2>. QED  BY <1>3, <2>1, ZenonT(30)
  <1>7. Strip(s) = [i \in K(s) |-> s[i]] /\ Strip(t) = [i \in K(t) |-> t[i]]
    BY DEF Strip
  <1>. HIDE DEF K
  <1>8. K(s) = K(t)
    BY <1>4, <1>5, ZenonT(30)
  <1>9. Strip(s) = Strip(t)
    BY <1>6, <1>7, <1>8
  <1>. QED  BY <1>9 DEF s, t

-----------------------------------------------------------------------------
(* What is on its way: items, and answers that are owed. *)

Tags == {"SOH", "EOT", "other", "CAN", "cut"}
Answers == {"C", "ACK", "NAK"}

Items == [tag : Tags, num : Int, comp : Int, data : Seq(Nat), crc : BOOLEAN, place : Nat]

(* What an item on the line can be, whatever happened to it: a block or the *)
(* end at its place, with a number that is right unless its two copies      *)
(* disagree.  B is the number of blocks and F their data.                   *)
Genuine(item, B, F) ==
    /\ item.place \in 1 .. B + 1
    /\ item.tag = "SOH" => /\ item.place <= B
                           /\ item.data = F[item.place]
                           /\ Sound(item) => item.num = item.place % ByteRange
    /\ item.tag = "EOT" => item.place = B + 1

(* Something happened to it. *)
Bad(item) == item.tag = "other" \/ (item.tag = "SOH" /\ (~Sound(item) \/ ~item.crc))

(* No more than o of the answers said are ACK or NAK: w counts down from    *)
(* no more than o along them.                                               *)
Owed(said, o) ==
    \E w \in [1 .. Len(said) + 1 -> 0 .. o] :
        \A i \in 1 .. Len(said), j \in 1 .. Len(said) + 1 :
            i < j => w[j] <= w[i] /\ (said[i] # "C" => w[j] < w[i])

(* What is left of a sequence behind its first element.                     *)
LEMMA TailFacts ==
    ASSUME NEW S, NEW s \in Seq(S), s # <<>>
    PROVE  /\ Len(s) \in Nat \ {0} /\ Head(s) = s[1] /\ s[1] \in S
           /\ Tail(s) \in Seq(S) /\ Len(Tail(s)) = Len(s) - 1
           /\ \A i \in 1 .. Len(s) - 1 : i + 1 \in 1 .. Len(s) /\ Tail(s)[i] = s[i + 1]
  <1>1. Len(s) \in Nat \ {0} /\ Head(s) = s[1]
    OBVIOUS
  <1>2. s[1] \in S
    BY <1>1
  <1>3. Tail(s) \in Seq(S) /\ Len(Tail(s)) = Len(s) - 1
    BY <1>1
  <1>4. \A i \in 1 .. Len(s) - 1 : i + 1 \in 1 .. Len(s) /\ Tail(s)[i] = s[i + 1]
    BY <1>1
  <1>. QED  BY <1>1, <1>2, <1>3, <1>4

(* An answer that is heard is owed no longer.                               *)
LEMMA OwedHeard ==
    ASSUME NEW said \in Seq(Answers), said # <<>>, NEW o \in Nat, Owed(said, o)
    PROVE  /\ Owed(Tail(said), o)
           /\ Head(said) # "C" => o - 1 \in Nat /\ Owed(Tail(said), o - 1)
  <1>. DEFINE rest == Tail(said)
              n == Len(rest)
              p == IF Head(said) = "C" THEN o ELSE o - 1
  <1>1. /\ rest \in Seq(Answers) /\ n \in Nat /\ Len(said) = n + 1
        /\ Head(said) = said[1]
        /\ \A i \in 1 .. n : rest[i] = said[i + 1]
    <2>1. /\ Len(said) \in Nat \ {0} /\ Head(said) = said[1]
          /\ rest \in Seq(Answers) /\ n = Len(said) - 1
          /\ \A i \in 1 .. Len(said) - 1 : rest[i] = said[i + 1]
      BY TailFacts, ZenonT(30)
    <2>. HIDE DEF rest
    <2>. QED  BY <2>1
  <1>. HIDE DEF rest, n
  <1>2. PICK w \in [1 .. n + 2 -> 0 .. o] :
           \A i \in 1 .. n + 1, j \in 1 .. n + 2 :
              i < j => w[j] <= w[i] /\ (said[i] # "C" => w[j] < w[i])
    <2>1. (n + 1) + 1 = n + 2
      BY <1>1
    <2>. QED  BY <1>1, <2>1, SMTT(30) DEF Owed
  <1>. DEFINE v == [i \in 1 .. n + 1 |-> w[i + 1]]
  <1>3. \A i \in 1 .. n + 1 : i + 1 \in 1 .. n + 2 /\ w[i + 1] \in 0 .. o
    BY <1>1
  <1>4. \A i \in 1 .. n + 1 : w[i + 1] <= w[1] /\ (said[1] # "C" => w[i + 1] < w[1])
    <2>1. 1 \in 1 .. n + 1 /\ \A i \in 1 .. n + 1 : 1 < i + 1
      BY <1>1
    <2>. QED  BY <1>2, <1>3, <2>1
  <1>5. w[1] \in 0 .. o /\ 1 \in 1 .. n + 1
    BY <1>1
  <1>6. /\ v \in [1 .. n + 1 -> 0 .. o]
        /\ said[1] # "C" => o - 1 \in Nat /\ v \in [1 .. n + 1 -> 0 .. o - 1]
    <2>1. v \in [1 .. n + 1 -> 0 .. o]
      BY <1>3
    <2>2. ASSUME said[1] # "C" PROVE o - 1 \in Nat /\ \A i \in 1 .. n + 1 : w[i + 1] \in 0 .. o - 1
      BY <1>3, <1>4, <1>5, <2>2
    <2>. QED  BY <2>1, <2>2
  <1>7. ASSUME NEW i \in 1 .. n, NEW j \in 1 .. n + 1, i < j
        PROVE  v[j] <= v[i] /\ (rest[i] # "C" => v[j] < v[i])
    <2>1. /\ i + 1 \in 1 .. n + 1 /\ j + 1 \in 1 .. n + 2 /\ i + 1 < j + 1 /\ i \in 1 .. n + 1
      BY <1>1, <1>7
    <2>2. w[j + 1] <= w[i + 1] /\ (said[i + 1] # "C" => w[j + 1] < w[i + 1])
      BY <1>2, <2>1
    <2>. QED  BY <1>1, <2>1, <2>2, SMTT(30)
  <1>. HIDE DEF v
  <1>8. Owed(rest, o)
    BY <1>6, <1>7, ZenonT(30) DEF Owed, n
  <1>9. said[1] # "C" => o - 1 \in Nat /\ Owed(rest, o - 1)
    BY <1>6, <1>7, ZenonT(30) DEF Owed, n
  <1>. QED  BY <1>1, <1>8, <1>9 DEF rest

(* ACK and NAK add one to what is owed, C does not.                         *)
LEMMA OwedSaid ==
    ASSUME NEW said \in Seq(Answers), NEW a \in Answers, NEW o \in Nat, Owed(said, o)
    PROVE  /\ said \o <<a>> \in Seq(Answers)
           /\ Owed(said \o <<a>>, o + 1)
           /\ a = "C" => Owed(said \o <<a>>, o)
  <1>. DEFINE both == said \o <<a>>
              n == Len(said)
  <1>1. /\ both \in Seq(Answers) /\ Len(both) = n + 1 /\ n \in Nat
        /\ both[n + 1] = a /\ \A i \in 1 .. n : both[i] = said[i]
    OBVIOUS
  <1>. HIDE DEF both, n
  <1>2. PICK w \in [1 .. n + 1 -> 0 .. o] :
           \A i \in 1 .. n, j \in 1 .. n + 1 :
              i < j => w[j] <= w[i] /\ (said[i] # "C" => w[j] < w[i])
    BY DEF Owed, n
  <1>3. ASSUME NEW d \in {0, 1}, a # "C" => d = 1 PROVE Owed(both, o + d)
    <2>. DEFINE v == [i \in 1 .. n + 2 |-> IF i = n + 2 THEN 0 ELSE w[i] + d]
    <2>1. \A i \in 1 .. n + 2 : i # n + 2 => i \in 1 .. n + 1 /\ w[i] \in 0 .. o
      BY <1>1
    <2>2. v \in [1 .. n + 2 -> 0 .. o + d]
      BY <2>1
    <2>3. ASSUME NEW i \in 1 .. n + 1, NEW j \in 1 .. n + 2, i < j
          PROVE  v[j] <= v[i] /\ (both[i] # "C" => v[j] < v[i])
      <3>1. i \in 1 .. n + 2 /\ i # n + 2 /\ v[i] = w[i] + d /\ w[i] \in 0 .. o
        BY <1>1, <2>1
      <3>2. CASE j = n + 2 /\ i = n + 1
        BY <1>1, <1>3, <3>1, <3>2
      <3>3. CASE j = n + 2 /\ i # n + 1
        <4>1. i \in 1 .. n /\ n + 1 \in 1 .. n + 1 /\ i < n + 1 /\ w[n + 1] \in 0 .. o
          BY <1>1, <2>3, <3>3
        <4>2. w[n + 1] <= w[i] /\ (said[i] # "C" => w[n + 1] < w[i])
          BY <1>2, <4>1
        <4>3. v[j] = 0 /\ both[i] = said[i]
          BY <1>1, <3>3, <4>1
        <4>. HIDE DEF v
        <4>. QED  BY <3>1, <4>1, <4>2, <4>3
      <3>4. CASE j # n + 2
        <4>1. i \in 1 .. n /\ j \in 1 .. n + 1 /\ w[j] \in 0 .. o /\ v[j] = w[j] + d
          BY <1>1, <2>1, <2>3, <3>4
        <4>2. w[j] <= w[i] /\ (said[i] # "C" => w[j] < w[i])
          BY <1>2, <2>3, <4>1
        <4>3. both[i] = said[i]
          BY <1>1, <4>1, SMTT(30)
        <4>. HIDE DEF v
        <4>. QED  BY <3>1, <4>1, <4>2, <4>3
      <3>. QED  BY <3>2, <3>3, <3>4
    <2>. HIDE DEF v
    <2>4. Len(both) + 1 = n + 2
      BY <1>1
    <2>. QED  BY <1>1, <2>2, <2>3, <2>4, ZenonT(30) DEF Owed
  <1>4. Owed(both, o + 1)
    BY <1>3
  <1>5. a = "C" => Owed(both, o)
    <2>1. a = "C" => Owed(both, o + 0)
      BY <1>3
    <2>2. o + 0 = o
      OBVIOUS
    <2>. QED  BY <2>1, <2>2
  <1>. QED  BY <1>1, <1>4, <1>5 DEF both

-----------------------------------------------------------------------------
(* The line in order, and how far the sender can get ahead. *)

(* The items l on the line are in order when the sender is at b and the     *)
(* receiver has taken n blocks: none is before n, one follows another at    *)
(* the same or at the next place, the last is what the sender is at, and    *)
(* only the first may have come to harm.                                    *)
InOrder(l, b, n, B, F) ==
    /\ l \in Seq(Items)
    /\ \A i \in 1 .. Len(l) : Genuine(l[i], B, F) /\ l[i].place <= b
    /\ \A i \in 1 .. Len(l) : i # 1 => l[i].place \in {l[i - 1].place, l[i - 1].place + 1} /\ ~Bad(l[i])
    /\ l # <<>> => n <= l[1].place /\ l[Len(l)].place = b
    /\ n <= b

(* How far the sender can get ahead of what the receiver has taken if       *)
(* everything on its way, o answers among it, is read as good news.         *)
Ahead(p, n) == IF n + 1 < p THEN p - (n + 1) ELSE 0
Harm(item) == IF Bad(item) THEN 1 ELSE 0
Excess(l, b, o, n) ==
    IF l = <<>> THEN b + o - (n + 1)
    ELSE Ahead(l[1].place, n) + Len(l) + o - 1 + Harm(l[1])

(* An item behind those on the line.                                        *)
LEMMA ItemAppended ==
    ASSUME NEW l \in Seq(Items), NEW x \in Items
    PROVE  /\ Append(l, x) \in Seq(Items) /\ Len(l) \in Nat /\ Len(Append(l, x)) = Len(l) + 1
           /\ Append(l, x)[Len(l) + 1] = x
           /\ \A i \in 1 .. Len(l) : Append(l, x)[i] = l[i]
  OBVIOUS

(* The items behind the first on the line.                                  *)
LEMMA ItemTail ==
    ASSUME NEW l \in Seq(Items), l # <<>>
    PROVE  /\ Len(l) \in Nat \ {0} /\ Head(l) = l[1] /\ l[1] \in Items
           /\ Tail(l) \in Seq(Items) /\ Len(Tail(l)) = Len(l) - 1
           /\ \A i \in 1 .. Len(l) - 1 : i + 1 \in 1 .. Len(l) /\ Tail(l)[i] = l[i + 1]
  BY TailFacts, ZenonT(30)

(* The line stays in order when the sender puts its next item, or the same  *)
(* again, behind it.                                                        *)
LEMMA PutOrder ==
    ASSUME NEW l, NEW b \in Nat, NEW n \in Nat, NEW B \in Nat, NEW F, InOrder(l, b, n, B, F),
           NEW c \in Nat, c \in {b, b + 1}, NEW x \in Items, x.place = c, Genuine(x, B, F), ~Bad(x)
    PROVE  InOrder(Append(l, x), c, n, B, F)
  <1>. DEFINE k == Append(l, x)
              m == Len(l)
  <1>0. l \in Seq(Items)
    BY ZenonT(30) DEF InOrder
  <1>1. /\ k \in Seq(Items) /\ m \in Nat /\ Len(k) = m + 1 /\ k[m + 1] = x
        /\ \A i \in 1 .. m : k[i] = l[i]
    BY <1>0, ItemAppended, ZenonT(30)
  <1>2. /\ \A i \in 1 .. m : Genuine(l[i], B, F) /\ l[i].place <= b
        /\ \A i \in 1 .. m : i # 1 => l[i].place \in {l[i - 1].place, l[i - 1].place + 1} /\ ~Bad(l[i])
        /\ l # <<>> => n <= l[1].place /\ l[m].place = b
        /\ n <= b
    BY ZenonT(30) DEF InOrder
  <1>6. l # <<>> <=> m # 0
    BY <1>0
  <1>7. \A i \in 1 .. m : l[i].place \in Nat
    <2>1. \A i \in 1 .. m : l[i] \in Items
      BY <1>0
    <2>2. \A y \in Items : y.place \in Nat
      BY DEF Items
    <2>. QED  BY <2>1, <2>2, ZenonT(30)
  <1>. HIDE DEF k, m
  <1>3. ASSUME NEW i \in 1 .. m + 1
        PROVE  Genuine(k[i], B, F) /\ k[i].place <= c
    <2>1. CASE i = m + 1
      BY <1>1, <2>1
    <2>2. CASE i # m + 1
      <3>1. i \in 1 .. m
        BY <1>1, <2>2
      <3>2. l[i].place <= b /\ b <= c /\ l[i].place \in Nat
        BY <1>2, <1>7, <3>1
      <3>. QED  BY <1>1, <1>2, <3>1, <3>2
    <2>. QED  BY <2>1, <2>2
  <1>4. ASSUME NEW i \in 1 .. m + 1, i # 1
        PROVE  k[i].place \in {k[i - 1].place, k[i - 1].place + 1} /\ ~Bad(k[i])
    <2>1. CASE i = m + 1
      <3>1. k[m].place = b /\ m # 0
        BY <1>1, <1>2, <1>4, <1>6, <2>1
      <3>. QED  BY <1>1, <2>1, <3>1
    <2>2. CASE i # m + 1
      <3>1. i \in 1 .. m /\ i - 1 \in 1 .. m
        BY <1>1, <1>4, <2>2
      <3>. QED  BY <1>1, <1>2, <1>4, <3>1
    <2>. QED  BY <2>1, <2>2
  <1>5. k # <<>> /\ n <= k[1].place /\ k[m + 1].place = c /\ n <= c
    BY <1>1, <1>2, <1>6, <1>7
  <1>. QED  BY <1>1, <1>3, <1>4, <1>5 DEF InOrder, k

(* That adds at most one to the excess, and nothing where the line was      *)
(* empty and the item is the same, unless nothing at all was ahead.         *)
LEMMA PutExcess ==
    ASSUME NEW l, NEW b \in Nat, NEW n \in Nat, NEW B \in Nat, NEW F, InOrder(l, b, n, B, F),
           NEW c \in Nat, c \in {b, b + 1}, NEW x \in Items, x.place = c, ~Bad(x), NEW o \in Nat
    PROVE  /\ Excess(Append(l, x), c, o, n) <= Excess(l, b, o, n) + 1
           /\ l = <<>> /\ c = b => Excess(Append(l, x), c, o, n) \in {Excess(l, b, o, n), o}
  <1>. DEFINE k == Append(l, x)
              m == Len(l)
  <1>0. l \in Seq(Items)
    BY ZenonT(30) DEF InOrder
  <1>1. /\ k \in Seq(Items) /\ m \in Nat /\ Len(k) = m + 1 /\ k[m + 1] = x
        /\ \A i \in 1 .. m : k[i] = l[i]
    BY <1>0, ItemAppended, ZenonT(30)
  <1>2. k # <<>> /\ (l = <<>> <=> m = 0)
    BY <1>0, <1>1
  <1>5. n <= b
    BY ZenonT(30) DEF InOrder
  <1>. HIDE DEF k, m
  <1>3. CASE m = 0
    <2>1. k[1] = x
      BY <1>1, <1>3
    <2>2. /\ Excess(k, c, o, n) = Ahead(c, n) + 1 + o - 1 + 0
          /\ Excess(l, b, o, n) = b + o - (n + 1)
      BY <1>1, <1>2, <1>3, <2>1 DEF Excess, Harm
    <2>. QED  BY <1>2, <1>3, <1>5, <2>2 DEF Ahead, k
  <1>4. CASE m # 0
    <2>1. k[1] = l[1] /\ l[1] \in Items
      BY <1>0, <1>1, <1>4 DEF m
    <2>2. Ahead(l[1].place, n) \in Nat /\ Harm(l[1]) \in Nat
      BY <2>1, SMTT(30) DEF Items, Ahead, Harm
    <2>3. /\ Excess(k, c, o, n) = Ahead(l[1].place, n) + (m + 1) + o - 1 + Harm(l[1])
          /\ Excess(l, b, o, n) = Ahead(l[1].place, n) + m + o - 1 + Harm(l[1])
      BY <1>1, <1>2, <1>4, <2>1 DEF Excess, m
    <2>. DEFINE u == Ahead(l[1].place, n)
                h == Harm(l[1])
    <2>. HIDE DEF u, h
    <2>4. u \in Nat /\ h \in Nat /\ m \in Nat
      BY <1>1, <2>2 DEF u, h
    <2>5. u + (m + 1) + o - 1 + h = (u + m + o - 1 + h) + 1 /\ u + (m + 1) + o - 1 + h \in Int
      BY <2>4
    <2>6. Excess(k, c, o, n) = Excess(l, b, o, n) + 1 /\ Excess(k, c, o, n) \in Int
      BY <2>3, <2>5 DEF u, h
    <2>. QED  BY <1>2, <1>4, <2>6 DEF k
  <1>. QED  BY <1>3, <1>4 DEF k

(* The line stays in order when its first item is lost or read, also if the *)
(* receiver has taken it.                                                   *)
LEMMA DropOrder ==
    ASSUME NEW l, NEW b \in Nat, NEW n \in Nat, NEW B \in Nat, NEW F, InOrder(l, b, n, B, F), l # <<>>,
           NEW m \in Nat, n <= m, m <= l[1].place
    PROVE  InOrder(Tail(l), b, m, B, F)
  <1>. DEFINE k == Tail(l)
              t == Len(l)
  <1>0. l \in Seq(Items)
    BY ZenonT(30) DEF InOrder
  <1>1. /\ k \in Seq(Items) /\ t \in Nat \ {0} /\ Len(k) = t - 1
        /\ \A i \in 1 .. t - 1 : i + 1 \in 1 .. t /\ k[i] = l[i + 1]
    BY <1>0, ItemTail, ZenonT(30)
  <1>2. /\ \A i \in 1 .. t : Genuine(l[i], B, F) /\ l[i].place <= b
        /\ \A i \in 1 .. t : i # 1 => l[i].place \in {l[i - 1].place, l[i - 1].place + 1} /\ ~Bad(l[i])
        /\ l[t].place = b
    BY ZenonT(30) DEF InOrder
  <1>3. \A i \in 1 .. t : l[i].place \in Nat
    <2>1. \A i \in 1 .. t : l[i] \in Items
      BY <1>0
    <2>2. \A y \in Items : y.place \in Nat
      BY DEF Items
    <2>. QED  BY <2>1, <2>2, ZenonT(30)
  <1>. HIDE DEF k, t
  <1>4. ASSUME NEW i \in 1 .. t - 1
        PROVE  Genuine(k[i], B, F) /\ k[i].place <= b
    BY <1>1, <1>2
  <1>5. ASSUME NEW i \in 1 .. t - 1, i # 1
        PROVE  k[i].place \in {k[i - 1].place, k[i - 1].place + 1} /\ ~Bad(k[i])
    <2>1. i - 1 \in 1 .. t - 1 /\ (i - 1) + 1 = i /\ (i + 1) - 1 = i /\ i + 1 # 1 /\ i + 1 \in 1 .. t
      BY <1>1, <1>5
    <2>2. k[i] = l[i + 1] /\ k[i - 1] = l[i]
      BY <1>1, <2>1
    <2>3. l[i + 1].place \in {l[(i + 1) - 1].place, l[(i + 1) - 1].place + 1} /\ ~Bad(l[i + 1])
      BY <1>2, <2>1
    <2>. QED  BY <2>1, <2>2, <2>3
  <1>6. ASSUME k # <<>> PROVE m <= k[1].place /\ k[t - 1].place = b
    <2>1. t - 1 # 0
      BY <1>1, <1>6
    <2>2. 1 \in 1 .. t - 1 /\ t - 1 \in 1 .. t - 1 /\ 2 \in 1 .. t /\ 1 \in 1 .. t
      BY <1>1, <2>1
    <2>3. k[1] = l[2] /\ k[t - 1] = l[t]
      BY <1>1, <2>2
    <2>4. l[2].place \in {l[1].place, l[1].place + 1} /\ l[1].place \in Nat
      BY <1>2, <1>3, <2>2
    <2>. QED  BY <1>2, <2>3, <2>4
  <1>7. m <= b
    <2>1. l[1].place <= b /\ l[1].place \in Nat
      BY <1>1, <1>2, <1>3
    <2>. QED  BY <2>1
  <1>. QED  BY <1>1, <1>4, <1>5, <1>6, <1>7, SMTT(30) DEF InOrder, k

(* Losing or reading an item adds nothing to the excess, and reading a      *)
(* harmed one, the last one taken, or the next one leaves room for an       *)
(* answer.                                                                  *)
LEMMA DropExcess ==
    ASSUME NEW l, NEW b \in Nat, NEW n \in Nat, NEW B \in Nat, NEW F, InOrder(l, b, n, B, F), l # <<>>,
           NEW o \in Nat
    PROVE  /\ Excess(Tail(l), b, o, n) + Harm(l[1]) <= Excess(l, b, o, n)
           /\ l[1].place = n => Excess(Tail(l), b, o, n) + 1 <= Excess(l, b, o, n)
           /\ l[1].place = n + 1 => Excess(Tail(l), b, o, n + 1) + 1 <= Excess(l, b, o, n)
  <1>. DEFINE k == Tail(l)
              t == Len(l)
              p == l[1].place
              h == Harm(l[1])
  <1>0. l \in Seq(Items) /\ n <= p /\ l[t].place = b
    BY ZenonT(30) DEF InOrder
  <1>1. /\ k \in Seq(Items) /\ t \in Nat \ {0} /\ Len(k) = t - 1 /\ l[1] \in Items
        /\ \A i \in 1 .. t - 1 : i + 1 \in 1 .. t /\ k[i] = l[i + 1]
    BY <1>0, ItemTail, ZenonT(30)
  <1>2. p \in Nat /\ h \in {0, 1}
    BY <1>1 DEF Items, Harm
  <1>3. Excess(l, b, o, n) = Ahead(p, n) + t + o - 1 + h
    BY DEF Excess
  <1>. HIDE DEF k, t, h
  <1>4. CASE t = 1
    <2>1. k = <<>> /\ p = b
      BY <1>0, <1>1, <1>4
    <2>2. /\ Excess(k, b, o, n) = b + o - (n + 1)
          /\ Excess(k, b, o, n + 1) = b + o - ((n + 1) + 1)
      BY <2>1 DEF Excess
    <2>. HIDE DEF p
    <2>3. /\ Excess(k, b, o, n) + h <= Ahead(p, n) + t + o - 1 + h
          /\ p = n => Excess(k, b, o, n) + 1 <= Ahead(p, n) + t + o - 1 + h
          /\ p = n + 1 => Excess(k, b, o, n + 1) + 1 <= Ahead(p, n) + t + o - 1 + h
      BY <1>0, <1>2, <1>4, <2>1, <2>2, SMTT(30) DEF Ahead
    <2>. QED  BY <1>3, <2>3 DEF k, h, p
  <1>5. CASE t # 1
    <2>. DEFINE q == l[2].place
    <2>1. 1 \in 1 .. t - 1 /\ 2 \in 1 .. t /\ 2 # 1 /\ 2 - 1 = 1
      BY <1>1, <1>5
    <2>2. k # <<>> /\ k[1] = l[2]
      BY <1>1, <1>5, <2>1
    <2>3. \A i \in 1 .. t : i # 1 => l[i].place \in {l[i - 1].place, l[i - 1].place + 1} /\ ~Bad(l[i])
      BY ZenonT(30) DEF InOrder, t
    <2>4. q \in {p, p + 1} /\ Harm(l[2]) = 0
      BY <2>1, <2>3 DEF Harm
    <2>5. /\ Excess(k, b, o, n) = Ahead(q, n) + (t - 1) + o - 1 + 0
          /\ Excess(k, b, o, n + 1) = Ahead(q, n + 1) + (t - 1) + o - 1 + 0
      BY <1>1, <2>2, <2>4 DEF Excess
    <2>. HIDE DEF p, q
    <2>6. /\ Excess(k, b, o, n) + h <= Ahead(p, n) + t + o - 1 + h
          /\ p = n => Excess(k, b, o, n) + 1 <= Ahead(p, n) + t + o - 1 + h
          /\ p = n + 1 => Excess(k, b, o, n + 1) + 1 <= Ahead(p, n) + t + o - 1 + h
      BY <1>0, <1>1, <1>2, <1>5, <2>4, <2>5, SMTT(30) DEF Ahead
    <2>. QED  BY <1>3, <2>6 DEF k, h, p
  <1>. QED  BY <1>4, <1>5

(* The first item comes to harm. *)
Harmed(l, x) == [l EXCEPT ![1] = x]

(* Damage leaves the line in order and adds at most one to the excess.      *)
LEMMA HarmOrder ==
    ASSUME NEW l, NEW b \in Nat, NEW n \in Nat, NEW B \in Nat, NEW F, InOrder(l, b, n, B, F), l # <<>>,
           NEW x \in Items, x.place = l[1].place, Genuine(x, B, F), NEW o \in Nat
    PROVE  /\ InOrder(Harmed(l, x), b, n, B, F)
           /\ Len(Harmed(l, x)) = Len(l) /\ Harmed(l, x) # <<>>
           /\ Harmed(l, x)[1] = x
           /\ \A i \in 1 .. Len(l) : i # 1 => Harmed(l, x)[i] = l[i]
           /\ Excess(Harmed(l, x), b, o, n) <= Excess(l, b, o, n) + 1
  <1>. DEFINE k == Harmed(l, x)
              t == Len(l)
  <1>0. l \in Seq(Items)
    BY ZenonT(30) DEF InOrder
  <1>1. /\ k \in Seq(Items) /\ t \in Nat \ {0} /\ Len(k) = t /\ k[1] = x /\ k # <<>> /\ l[1] \in Items
        /\ \A i \in 1 .. t : i # 1 => k[i] = l[i]
    BY <1>0 DEF Harmed
  <1>2. /\ \A i \in 1 .. t : Genuine(l[i], B, F) /\ l[i].place <= b
        /\ \A i \in 1 .. t : i # 1 => l[i].place \in {l[i - 1].place, l[i - 1].place + 1} /\ ~Bad(l[i])
        /\ n <= l[1].place /\ l[t].place = b /\ n <= b
    BY ZenonT(30) DEF InOrder
  <1>. HIDE DEF k, t
  <1>3. \A i \in 1 .. t : k[i].place = l[i].place /\ Genuine(k[i], B, F)
    BY <1>1, <1>2
  <1>4. ASSUME NEW i \in 1 .. t, i # 1
        PROVE  k[i].place \in {k[i - 1].place, k[i - 1].place + 1} /\ ~Bad(k[i])
    <2>1. i - 1 \in 1 .. t
      BY <1>1, <1>4
    <2>2. k[i].place = l[i].place /\ k[i - 1].place = l[i - 1].place /\ k[i] = l[i]
      BY <1>1, <1>3, <1>4, <2>1, ZenonT(30)
    <2>3. l[i].place \in {l[i - 1].place, l[i - 1].place + 1} /\ ~Bad(l[i])
      BY <1>2, <1>4, ZenonT(30)
    <2>. QED  BY <2>2, <2>3, ZenonT(30)
  <1>5. n <= k[1].place /\ k[t].place = b
    BY <1>1, <1>2, <1>3
  <1>6. InOrder(k, b, n, B, F)
    <2>1. \A i \in 1 .. Len(k) : Genuine(k[i], B, F) /\ k[i].place <= b
      BY <1>1, <1>2, <1>3
    <2>2. \A i \in 1 .. Len(k) : i # 1 => k[i].place \in {k[i - 1].place, k[i - 1].place + 1} /\ ~Bad(k[i])
      BY <1>1, <1>4, ZenonT(30)
    <2>. QED  BY <1>1, <1>2, <1>5, <2>1, <2>2, ZenonT(30) DEF InOrder
  <1>. DEFINE u == Ahead(l[1].place, n)
              g == Harm(l[1])
              h == Harm(x)
  <1>7. /\ Excess(k, b, o, n) = u + t + o - 1 + h
        /\ Excess(l, b, o, n) = u + t + o - 1 + g
    BY <1>1 DEF Excess, t
  <1>8. u \in Nat /\ g \in {0, 1} /\ h \in {0, 1}
    <2>1. l[1].place \in Nat
      BY <1>1 DEF Items
    <2>2. u \in Nat
      BY <2>1 DEF Ahead
    <2>. QED  BY <2>2 DEF Harm
  <1>. HIDE DEF u, g, h
  <1>9. Excess(k, b, o, n) <= Excess(l, b, o, n) + 1
    BY <1>1, <1>7, <1>8
  <1>. QED  BY <1>1, <1>6, <1>9 DEF k, t

-----------------------------------------------------------------------------
(* What the sender sends and what damage makes of it. *)

Data == [k \in 1 .. Blocks |-> BlockData(k)]

(* A block consists of bytes.                                               *)
LEMMA BlockBytes ==
    ASSUME transfer \in Transfers, NEW n \in Nat \ {0}
    PROVE  BlockData(n) \in Seq(Nat)
  <1>1. blockSize \in Nat \ {0}
    BY XmodemAssumption
  <1>. DEFINE m == (n - 1) * blockSize
  <1>2. m \in Nat
    BY <1>1
  <1>. HIDE DEF m
  <1>3. \A i \in 1 .. blockSize : m + i \in Nat \ {0}
    BY <1>1, <1>2
  <1>4. \A i \in 1 .. blockSize : ByteAt(m + i) \in Nat
    BY <1>3, BytesSent, ZenonT(30)
  <1>5. [i \in 1 .. blockSize |-> ByteAt(m + i)] \in Seq(Nat)
    BY <1>1, <1>4
  <1>. QED  BY <1>5 DEF BlockData, m

(* A block number is a byte.                                                *)
LEMMA Remainder ==
    ASSUME NEW n \in Nat
    PROVE  n % ByteRange \in 0 .. ByteRange - 1 /\ n % ByteRange \in Nat
  BY XmodemAssumption

(* A frame as it is sent is genuine and sound.                              *)
LEMMA FrameFacts ==
    ASSUME transfer \in Transfers, NEW n \in 1 .. Blocks
    PROVE  LET x == Frame(n) IN
           /\ x \in Items /\ x.place = n /\ x.tag = "SOH" /\ Sound(x) /\ ~Bad(x)
           /\ Genuine(x, Blocks, Data)
  <1>. DEFINE x == Frame(n)
              r == n % ByteRange
  <1>0. Blocks \in Nat /\ n \in Nat \ {0}
    BY EnoughBlocks
  <1>1. BlockData(n) \in Seq(Nat) /\ r \in 0 .. ByteRange - 1 /\ ByteRange \in Nat
    BY <1>0, BlockBytes, Remainder, XmodemAssumption, ZenonT(30)
  <1>2. /\ x.tag = "SOH" /\ x.num = r /\ x.comp = ByteRange - 1 - r /\ x.data = BlockData(n)
        /\ x.crc = TRUE /\ x.place = n
    BY DEF Frame
  <1>3. x \in Items
    <2>. HIDE DEF r
    <2>1. r \in Int /\ ByteRange - 1 - r \in Int
      BY <1>1
    <2>. QED  BY <1>0, <1>1, <2>1 DEF Frame, Items, Tags, r
  <1>. HIDE DEF x, r
  <1>4. Sound(x)
    BY <1>1, <1>2 DEF Sound
  <1>5. ~Bad(x)
    BY <1>2, <1>4 DEF Bad
  <1>6. Data[n] = BlockData(n)
    BY DEF Data
  <1>7. Genuine(x, Blocks, Data)
    BY <1>0, <1>2, <1>6 DEF Genuine, r
  <1>. QED  BY <1>2, <1>3, <1>4, <1>5, <1>7 DEF x

(* So is a byte that is sent on its own.                                    *)
LEMMA ByteFacts ==
    ASSUME NEW B \in Nat, NEW F, NEW n \in 1 .. B + 1, NEW tag \in Tags \ {"SOH"}, tag = "EOT" => n = B + 1
    PROVE  LET x == Byte(tag, n) IN
           /\ x \in Items /\ x.place = n /\ x.tag = tag /\ (tag # "other" => ~Bad(x))
           /\ Genuine(x, B, F)
  <1>. DEFINE x == Byte(tag, n)
  <1>1. x.tag = tag /\ x.place = n
    BY DEF Byte
  <1>2. x \in Items
    <2>1. <<>> \in Seq(Nat) /\ 0 \in Int /\ TRUE \in BOOLEAN /\ n \in Nat
      OBVIOUS
    <2>. QED  BY <2>1 DEF Byte, Items
  <1>. HIDE DEF x
  <1>. QED  BY <1>1, <1>2 DEF Genuine, Bad, x

(* What the sender sends as its nth item is genuine and sound.              *)
LEMMA ItemFacts ==
    ASSUME transfer \in Transfers, NEW n \in 1 .. Blocks + 1
    PROVE  LET x == ItemAt(n) IN
           /\ x \in Items /\ x.place = n /\ ~Bad(x) /\ Genuine(x, Blocks, Data)
           /\ x.tag \in {"SOH", "EOT"} /\ (x.tag = "SOH" => Sound(x))
  <1>1. Blocks \in Nat
    BY EnoughBlocks
  <1>2. CASE n <= Blocks
    <2>1. n \in 1 .. Blocks /\ ItemAt(n) = Frame(n)
      BY <1>1, <1>2 DEF ItemAt
    <2>. QED  BY <2>1, FrameFacts
  <1>3. CASE ~(n <= Blocks)
    <2>1. n = Blocks + 1 /\ ItemAt(n) = Byte("EOT", n)
      BY <1>1, <1>3 DEF ItemAt
    <2>2. "EOT" \in Tags \ {"SOH"} /\ "EOT" # "other" /\ "EOT" # "SOH"
      BY DEF Tags
    <2>. DEFINE x == Byte("EOT", n)
    <2>3. /\ x \in Items /\ x.place = n /\ x.tag = "EOT" /\ ("EOT" # "other" => ~Bad(x))
          /\ Genuine(x, Blocks, Data)
      BY <1>1, <2>1, <2>2, ByteFacts
    <2>. HIDE DEF x
    <2>. QED  BY <2>1, <2>2, <2>3 DEF x
  <1>. QED  BY <1>2, <1>3

(* One damaged byte cannot make a frame name another number twice: what rx  *)
(* checks with the complement (rx.go:118).                                  *)
LEMMA DamagedFacts ==
    ASSUME NEW B \in Nat, NEW F, NEW x \in Items, Genuine(x, B, F), NEW y \in DamagedForms(x)
    PROVE  /\ y \in Items /\ y.place = x.place /\ Genuine(y, B, F)
           /\ y.tag \in {"SOH", "other"} /\ x.tag \in {"SOH", "EOT"}
           /\ y.tag = "SOH" => x.tag = "SOH"
           /\ y.tag = "SOH" /\ y.num = x.num /\ y.comp = x.comp /\ Sound(x) => Sound(y)
  <1>1. /\ x.num \in Int /\ x.comp \in Int /\ x.data \in Seq(Nat) /\ x.crc \in BOOLEAN /\ x.place \in Nat
        /\ ByteRange \in Nat
    BY XmodemAssumption DEF Items
  <1>2. CASE x.tag = "EOT"
    <2>1. y = Byte("other", x.place) /\ "other" \in Tags \ {"SOH"} /\ x.place \in 1 .. B + 1 /\ "other" # "EOT"
      BY <1>2 DEF DamagedForms, Tags, Genuine
    <2>. QED  BY <1>2, <2>1, ByteFacts, SMTT(30)
  <1>3. CASE x.tag = "SOH"
    <2>1. PICK u \in Int, v \in Int, c \in BOOLEAN :
             /\ y = Garbled(x, u, v, c)
             /\ (u = x.num /\ v = x.comp) \/ (Sound(x) /\ (u = x.num \/ v = x.comp))
      <3>1. CASE y = Garbled(x, x.num, x.comp, FALSE)
        BY <1>1, <3>1, ZenonT(30)
      <3>2. CASE \E v \in {w \in 0 .. ByteRange - 1 : Sound(x)} : y = Garbled(x, v, x.comp, x.crc)
        BY <1>1, <3>2
      <3>3. CASE \E v \in {w \in 0 .. ByteRange - 1 : Sound(x)} : y = Garbled(x, x.num, v, x.crc)
        BY <1>1, <3>3
      <3>. QED  BY <1>3, <3>1, <3>2, <3>3, ZenonT(30) DEF DamagedForms
    <2>2. /\ y.tag = "SOH" /\ y.num = u /\ y.comp = v /\ y.data = x.data /\ y.place = x.place
      BY <2>1 DEF Garbled
    <2>3. y \in Items
      BY <1>1, <2>1 DEF Garbled, Items, Tags
    <2>4. Sound(y) => Sound(x) /\ u = x.num
      BY <1>1, <2>1, <2>2 DEF Sound
    <2>5. Genuine(y, B, F)
      BY <1>3, <2>2, <2>4 DEF Genuine
    <2>6. y.num = x.num /\ y.comp = x.comp /\ Sound(x) => Sound(y)
      BY DEF Sound
    <2>. QED  BY <1>3, <2>2, <2>3, <2>5, <2>6
  <1>4. x.tag \in {"EOT", "SOH"}
    BY ZenonT(30) DEF DamagedForms
  <1>. QED  BY <1>2, <1>3, <1>4

-----------------------------------------------------------------------------
(* What is on its way if nothing misled either side. *)

Acked(said) == \E i \in 1 .. Len(said) : said[i] = "ACK"

(* Where nothing was said nothing is owed, and where nothing is owed there  *)
(* is no ACK.                                                               *)
LEMMA NothingOwed ==
    /\ Owed(<<>>, 0) /\ ~Acked(<<>>)
    /\ \A said \in Seq(Answers) : Owed(said, 0) => ~Acked(said)
  <1>1. Owed(<<>>, 0)
    <2>1. [i \in 1 .. Len(<<>>) + 1 |-> 0] \in [1 .. Len(<<>>) + 1 -> 0 .. 0]
      OBVIOUS
    <2>2. 1 .. Len(<<>>) = {}
      OBVIOUS
    <2>. QED  BY <2>1, <2>2, ZenonT(30) DEF Owed
  <1>2. ~Acked(<<>>)
    BY DEF Acked
  <1>3. ASSUME NEW said \in Seq(Answers), Owed(said, 0) PROVE ~Acked(said)
    <2>1. PICK w \in [1 .. Len(said) + 1 -> 0 .. 0] :
             \A i \in 1 .. Len(said), j \in 1 .. Len(said) + 1 :
                i < j => w[j] <= w[i] /\ (said[i] # "C" => w[j] < w[i])
      BY <1>3, ZenonT(30) DEF Owed
    <2>2. ASSUME NEW i \in 1 .. Len(said), said[i] = "ACK" PROVE FALSE
      <3>1. i + 1 \in 1 .. Len(said) + 1 /\ i \in 1 .. Len(said) + 1 /\ i < i + 1
        OBVIOUS
      <3>2. w[i] \in 0 .. 0 /\ w[i + 1] \in 0 .. 0 /\ w[i + 1] < w[i]
        BY <2>1, <2>2, <3>1
      <3>. QED  BY <3>2
    <2>. QED  BY <2>2, ZenonT(30) DEF Acked
  <1>. QED  BY <1>1, <1>2, <1>3

(* What is left when an answer was heard or lost.                           *)
LEMMA Heard ==
    ASSUME NEW said \in Seq(Answers), said # <<>>, NEW o \in Nat, Owed(said, o)
    PROVE  /\ Head(said) \in Answers /\ Tail(said) \in Seq(Answers)
           /\ \E p \in Nat : Owed(Tail(said), p) /\ o = IF Head(said) = "C" THEN p ELSE p + 1
           /\ Acked(Tail(said)) => Acked(said)
           /\ Head(said) = "ACK" => Acked(said)
  <1>1. /\ Len(said) \in Nat \ {0} /\ Head(said) = said[1] /\ said[1] \in Answers
        /\ Tail(said) \in Seq(Answers) /\ Len(Tail(said)) = Len(said) - 1
        /\ \A i \in 1 .. Len(said) - 1 : i + 1 \in 1 .. Len(said) /\ Tail(said)[i] = said[i + 1]
    BY TailFacts, ZenonT(30)
  <1>2. \E p \in Nat : Owed(Tail(said), p) /\ o = IF Head(said) = "C" THEN p ELSE p + 1
    <2>1. /\ Owed(Tail(said), o)
          /\ Head(said) # "C" => o - 1 \in Nat /\ Owed(Tail(said), o - 1)
      BY OwedHeard
    <2>2. o = (o - 1) + 1
      OBVIOUS
    <2>. QED  BY <2>1, <2>2, ZenonT(30)
  <1>3. Acked(Tail(said)) => Acked(said)
    BY <1>1, ZenonT(30) DEF Acked
  <1>4. Head(said) = "ACK" => Acked(said)
    BY <1>1 DEF Acked
  <1>. QED  BY <1>1, <1>2, <1>3, <1>4, ZenonT(30)

(* What there is when rx has answered, or written its answer nowhere.       *)
LEMMA SaidOne ==
    ASSUME NEW said \in Seq(Answers), NEW a \in Answers, NEW after \in {said, said \o <<a>>},
           NEW o \in Nat, Owed(said, o)
    PROVE  /\ after \in Seq(Answers)
           /\ \E p \in {o, o + 1} : Owed(after, p) /\ (after = said \/ a = "C" => p = o)
           /\ Acked(after) => Acked(said) \/ (after # said /\ a = "ACK")
  <1>. DEFINE both == said \o <<a>>
  <1>1. both \in Seq(Answers) /\ Owed(both, o + 1) /\ (a = "C" => Owed(both, o))
    BY OwedSaid
  <1>2. Len(both) = Len(said) + 1 /\ Len(said) \in Nat /\ both[Len(said) + 1] = a /\ \A i \in 1 .. Len(said) : both[i] = said[i]
    OBVIOUS
  <1>. HIDE DEF both
  <1>3. both # said
    BY <1>2
  <1>4. Acked(both) => Acked(said) \/ a = "ACK"
    BY <1>2 DEF Acked
  <1>5. after \in {said, both}
    BY DEF both
  <1>. QED  BY <1>1, <1>3, <1>4, <1>5, ZenonT(30)

(* If nothing misled either side then what is on the line is what the       *)
(* receiver waits for ...                                                   *)
Fit(l, n) ==
    \A i \in 1 .. Len(l) : /\ l[i].tag \notin {"CAN", "cut"} => l[i].place <= n + 1
                           /\ l[i].tag = "SOH" => Sound(l[i])

(* ... and the sender has at most one thing under way, and moves on only    *)
(* when its item was taken.                                                 *)
Alone(l, b, s, said, o, n, B) ==
    s = "sending" => /\ Len(l) + o <= 1
                     /\ b <= n + 1
                     /\ Acked(said) => b <= n \/ b = B + 1

(* The line still holds what is waited for when such an item is put behind  *)
(* it.                                                                      *)
LEMMA PutFit ==
    ASSUME NEW l \in Seq(Items), NEW n, Fit(l, n), NEW x \in Items,
           x.tag \notin {"CAN", "cut"} => x.place <= n + 1, x.tag = "SOH" => Sound(x)
    PROVE  Fit(Append(l, x), n)
  <1>. DEFINE k == Append(l, x)
              m == Len(l)
  <1>1. /\ m \in Nat /\ Len(k) = m + 1 /\ k[m + 1] = x
        /\ \A i \in 1 .. m : k[i] = l[i]
    BY ItemAppended, ZenonT(30)
  <1>2. \A i \in 1 .. m : (l[i].tag \notin {"CAN", "cut"} => l[i].place <= n + 1) /\ (l[i].tag = "SOH" => Sound(l[i]))
    BY ZenonT(30) DEF Fit
  <1>. HIDE DEF k, m
  <1>3. \A i \in 1 .. m + 1 : i = m + 1 \/ i \in 1 .. m
    BY <1>1
  <1>. QED  BY <1>1, <1>2, <1>3, ZenonT(30) DEF Fit, k

(* It does so without its first item, also when the receiver is further on. *)
LEMMA DropFit ==
    ASSUME NEW l \in Seq(Items), l # <<>>, NEW n \in Nat, NEW m \in Nat, n <= m, Fit(l, n)
    PROVE  Fit(Tail(l), m)
  <1>1. /\ Len(l) \in Nat \ {0} /\ Len(Tail(l)) = Len(l) - 1
        /\ \A i \in 1 .. Len(l) - 1 : i + 1 \in 1 .. Len(l) /\ Tail(l)[i] = l[i + 1]
    BY ItemTail, ZenonT(30)
  <1>2. \A y \in Items : y.place <= n + 1 => y.place <= m + 1
    BY DEF Items
  <1>3. \A i \in 1 .. Len(l) : l[i] \in Items
    OBVIOUS
  <1>. QED  BY <1>1, <1>2, <1>3, ZenonT(30) DEF Fit

(* It does so when its first item is replaced by such a one.                *)
LEMMA HarmFit ==
    ASSUME NEW l \in Seq(Items), NEW k, Len(k) = Len(l), NEW n \in Nat, Fit(l, n),
           \A i \in 1 .. Len(l) : i # 1 => k[i] = l[i],
           k[1].tag \notin {"CAN", "cut"} => k[1].place <= n + 1, k[1].tag = "SOH" => Sound(k[1])
    PROVE  Fit(k, n)
  BY ZenonT(30) DEF Fit

-----------------------------------------------------------------------------
(* The inductive invariant. *)

Reading == {"ask", "handshake", "recvLoop"}

Types ==
    /\ transfer \in Transfers
    /\ sender \in {"waiting", "sending", "gone"} /\ block \in 1 .. Blocks + 1
    /\ answers \in Seq(Answers)
    /\ rx \in {"ask", "handshake", "recvLoop", "done", "failed", "ended"}
    /\ eot \in BOOLEAN /\ misled \in BOOLEAN /\ faults \in Nat

Outcome ==
    /\ rx # "ended" => received = NoBytes /\ rxStatus = -1
    /\ rxStatus = 0 => received = Strip(fileBuf)
    /\ received # NoBytes /\ rxStatus # 0 =>
         \E k \in 0 .. Len(Strip(fileBuf)) : received = SubSeq(Strip(fileBuf), 1, k)

(* The receiver has taken n blocks. *)
At(n) ==
    /\ Types
    /\ fileBuf = Sent(n) /\ blockExpected = (n + 1) % ByteRange
    /\ rx \in {"ask", "handshake"} => n = 0
    /\ InOrder(line, block, n, Blocks, Data)
    /\ ~misled => Fit(line, n) /\ (eot => n = Blocks)
    /\ \E o \in Nat :
          /\ Owed(answers, o)
          /\ sender = "waiting" => line = <<>> /\ o = 0 /\ n = 0 /\ block = 1
          /\ rx \in Reading => Excess(line, block, o, n) <= faults
          /\ ~misled => Alone(line, block, sender, answers, o, n, Blocks)
    /\ Outcome

(* The inductive invariant. *)
IInv ==
    /\ faults \in Nat /\ misled \in BOOLEAN
    /\ Tellable => \E n \in 0 .. Blocks : At(n)

(* What is sent depends on nothing but the transfer.                        *)
LEMMA SameTransfer ==
    ASSUME transfer' = transfer
    PROVE  Blocks' = Blocks /\ Data' = Data /\ \A n : Sent(n)' = Sent(n)
  <1>1. Blocks' = Blocks
    BY DEF Blocks
  <1>2. \A n : Sent(n)' = Sent(n)
    BY DEF Sent, ByteAt
  <1>3. Data' = Data
    BY <1>1 DEF Data, BlockData, ByteAt
  <1>. QED  BY <1>1, <1>2, <1>3

(* What a step of the sender or of the line has to keep.                    *)
LEMMA LineStep ==
    ASSUME NEW n \in 0 .. Blocks, At(n),
           UNCHANGED <<transfer, rxVars, received, rxStatus>>,
           sender' \in {"waiting", "sending", "gone"}, block' \in 1 .. Blocks + 1,
           answers' \in Seq(Answers), NEW p \in Nat, Owed(answers', p), misled' \in BOOLEAN, faults' \in Nat,
           sender' = "waiting" => line' = <<>> /\ p = 0 /\ n = 0 /\ block' = 1,
           InOrder(line', block', n, Blocks, Data),
           rx \in Reading => Excess(line', block', p, n) <= faults',
           ~misled' => /\ Fit(line', n) /\ Alone(line', block', sender', answers', p, n, Blocks)
                       /\ eot => n = Blocks
    PROVE  At(n)'
  <1>1. /\ Blocks' = Blocks /\ Data' = Data /\ Sent(n)' = Sent(n) /\ transfer' = transfer
        /\ rx' = rx /\ blockExpected' = blockExpected /\ fileBuf' = fileBuf /\ eot' = eot
        /\ received' = received /\ rxStatus' = rxStatus
    BY SameTransfer DEF rxVars
  <1>2. /\ Types /\ fileBuf = Sent(n) /\ blockExpected = (n + 1) % ByteRange
        /\ rx \in {"ask", "handshake"} => n = 0
        /\ Outcome
    BY DEF At
  <1>3. Types'
    BY <1>1, <1>2 DEF Types
  <1>4. Outcome'
    BY <1>1, <1>2 DEF Outcome
  <1>5. fileBuf' = Sent(n)' /\ blockExpected' = (n + 1) % ByteRange /\ (rx' \in {"ask", "handshake"} => n = 0)
    BY <1>1, <1>2
  <1>6. InOrder(line', block', n, Blocks', Data')
    BY <1>1
  <1>7. rx' \in Reading => Excess(line', block', p, n) <= faults'
    BY <1>1
  <1>8. ~misled' => /\ Fit(line', n) /\ Alone(line', block', sender', answers', p, n, Blocks')
                    /\ eot' => n = Blocks'
    BY <1>1
  <1>9. \E o \in Nat :
          /\ Owed(answers', o)
          /\ sender' = "waiting" => line' = <<>> /\ o = 0 /\ n = 0 /\ block' = 1
          /\ rx' \in Reading => Excess(line', block', o, n) <= faults'
          /\ ~misled' => Alone(line', block', sender', answers', o, n, Blocks')
    BY <1>7, <1>8, ZenonT(30)
  <1>. QED  BY <1>3, <1>4, <1>5, <1>6, <1>8, <1>9, ZenonT(30) DEF At

(* The excess is a number in which every answer counts one.                 *)
Additive(l, b, n) ==
    \A o \in Nat : Excess(l, b, o, n) \in Int /\ Excess(l, b, o, n) = Excess(l, b, 0, n) + o

(* So it is for what can be on the line.                                    *)
LEMMA ExcessOwed ==
    ASSUME NEW l \in Seq(Items), NEW b \in Nat, NEW n \in Nat
    PROVE  Additive(l, b, n)
  <1>. SUFFICES ASSUME NEW o \in Nat
                PROVE  Excess(l, b, o, n) \in Int /\ Excess(l, b, o, n) = Excess(l, b, 0, n) + o
    BY ZenonT(30) DEF Additive
  <1>1. CASE l = <<>>
    BY <1>1 DEF Excess
  <1>2. CASE l # <<>>
    <2>. DEFINE u == Ahead(l[1].place, n)
                h == Harm(l[1])
                m == Len(l)
    <2>1. l[1] \in Items /\ m \in Nat
      BY <1>2
    <2>2. l[1].place \in Nat
      BY <2>1 DEF Items
    <2>3. u \in Nat /\ h \in Nat
      BY <2>2 DEF Ahead, Harm
    <2>4. Excess(l, b, o, n) = u + m + o - 1 + h /\ Excess(l, b, 0, n) = u + m + 0 - 1 + h
      BY <1>2 DEF Excess
    <2>. HIDE DEF u, h, m
    <2>. QED  BY <2>1, <2>3, <2>4
  <1>. QED  BY <1>1, <1>2

(* The excess is a number.                                                  *)
LEMMA ExcessInt ==
    ASSUME NEW l \in Seq(Items), NEW b \in Nat, NEW n \in Nat, NEW o \in Nat
    PROVE  Excess(l, b, o, n) \in Int
  <1>1. Additive(l, b, n)
    BY ExcessOwed, ZenonT(30)
  <1>. QED  BY <1>1, ZenonT(30) DEF Additive

-----------------------------------------------------------------------------
(* The steps of the sender and of the line. *)

(* What is known when the receiver has taken n blocks.                      *)
LEMMA AtFacts ==
    ASSUME NEW n \in 0 .. Blocks, At(n)
    PROVE  /\ transfer \in Transfers /\ Blocks \in Nat /\ n \in Nat
           /\ block \in 1 .. Blocks + 1 /\ block \in Nat
           /\ line \in Seq(Items) /\ answers \in Seq(Answers)
           /\ faults \in Nat /\ misled \in BOOLEAN /\ eot \in BOOLEAN
           /\ sender \in {"waiting", "sending", "gone"}
           /\ InOrder(line, block, n, Blocks, Data) /\ n <= block
           /\ ~misled => Fit(line, n) /\ (eot => n = Blocks)
           /\ \E o \in Nat :
                 /\ Owed(answers, o)
                 /\ sender = "waiting" => line = <<>> /\ o = 0 /\ n = 0 /\ block = 1
                 /\ Excess(line, block, o, n) \in Int
                 /\ rx \in Reading => Excess(line, block, o, n) <= faults
                 /\ ~misled => Alone(line, block, sender, answers, o, n, Blocks)
  <1>1. /\ transfer \in Transfers /\ block \in 1 .. Blocks + 1 /\ answers \in Seq(Answers)
        /\ faults \in Nat /\ misled \in BOOLEAN /\ eot \in BOOLEAN
        /\ sender \in {"waiting", "sending", "gone"}
    BY ZenonT(30) DEF At, Types
  <1>2. InOrder(line, block, n, Blocks, Data) /\ (~misled => Fit(line, n) /\ (eot => n = Blocks))
    BY ZenonT(30) DEF At
  <1>3. line \in Seq(Items) /\ n <= block
    BY <1>2, ZenonT(30) DEF InOrder
  <1>4. Blocks \in Nat /\ n \in Nat /\ block \in Nat
    BY <1>1, EnoughBlocks
  <1>5. PICK o \in Nat :
           /\ Owed(answers, o)
           /\ sender = "waiting" => line = <<>> /\ o = 0 /\ n = 0 /\ block = 1
           /\ rx \in Reading => Excess(line, block, o, n) <= faults
           /\ ~misled => Alone(line, block, sender, answers, o, n, Blocks)
    BY ZenonT(30) DEF At
  <1>6. Excess(line, block, o, n) \in Int
    BY <1>3, <1>4, ExcessInt
  <1>. QED  BY <1>1, <1>2, <1>3, <1>4, <1>5, <1>6, ZenonT(30)

(* The sender hears an answer.                                              *)
LEMMA HearAnswerStep ==
    ASSUME NEW n \in 0 .. Blocks, At(n), HearAnswer
    PROVE  At(n)'
  <1>. DEFINE answer == Head(answers)
              c == IF answer = "ACK" THEN block + 1 ELSE block
  <1>1. PICK o \in Nat :
        /\ transfer \in Transfers /\ Blocks \in Nat /\ n \in Nat
        /\ block \in 1 .. Blocks + 1 /\ block \in Nat
        /\ line \in Seq(Items) /\ answers \in Seq(Answers) /\ Owed(answers, o)
        /\ faults \in Nat /\ misled \in BOOLEAN
        /\ sender = "waiting" => line = <<>> /\ o = 0 /\ n = 0 /\ block = 1
        /\ InOrder(line, block, n, Blocks, Data) /\ n <= block
        /\ Excess(line, block, o, n) \in Int
        /\ rx \in Reading => Excess(line, block, o, n) <= faults
        /\ ~misled => Fit(line, n) /\ Alone(line, block, sender, answers, o, n, Blocks) /\ (eot => n = Blocks)
    BY AtFacts, ZenonT(30)
  <1>2. /\ sender # "gone" /\ answers # <<>> /\ answers' = Tail(answers)
        /\ UNCHANGED <<transfer, rxVars, received, rxStatus>> /\ faults' = faults /\ misled' = misled
    BY DEF HearAnswer
  <1>3. PICK p \in Nat :
        /\ answer \in Answers /\ answers' \in Seq(Answers) /\ Owed(answers', p)
        /\ o = IF answer = "C" THEN p ELSE p + 1
        /\ Acked(answers') => Acked(answers)
        /\ answer = "ACK" => Acked(answers)
    BY <1>1, <1>2, Heard
  <1>4. Excess(line, block, p, n) = Excess(line, block, o, n) + p - o
    <2>1. line \in Seq(Items) /\ block \in Nat /\ n \in Nat
      BY <1>1
    <2>2. Additive(line, block, n)
      BY <2>1, ExcessOwed, ZenonT(30)
    <2>. QED  BY <2>2 DEF Additive
  <1>5. CASE /\ \/ sender = "waiting" /\ answer = "C"
                \/ sender = "sending" /\ answer \in {"ACK", "NAK"} /\ c <= Blocks + 1
             /\ sender' = "sending" /\ block' = c
             /\ Put(ItemAt(c))
    <2>. DEFINE x == ItemAt(c)
    <2>1. c \in Nat /\ c \in {block, block + 1} /\ c \in 1 .. Blocks + 1 /\ block' = c
      BY <1>1, <1>5
    <2>2. /\ x \in Items /\ x.place = c /\ ~Bad(x) /\ Genuine(x, Blocks, Data)
          /\ x.tag = "SOH" => Sound(x)
      BY <1>1, <2>1, ItemFacts
    <2>3. line' = Append(line, x)
      BY <1>5 DEF Put
    <2>. HIDE DEF x, c
    <2>4. InOrder(line', block', n, Blocks, Data)
      BY <1>1, <2>1, <2>2, <2>3, PutOrder, SMTT(30)
    <2>5. /\ Excess(line', c, p, n) <= Excess(line, block, p, n) + 1
          /\ line = <<>> /\ c = block => Excess(line', c, p, n) \in {Excess(line, block, p, n), p}
      BY <1>1, <1>3, <2>1, <2>2, <2>3, PutExcess, SMTT(30)
    <2>6. Excess(line', c, p, n) \in Int
      BY <1>1, <1>3, <2>1, <2>2, <2>3, ItemAppended, ExcessInt, ZenonT(30)
    <2>7. rx \in Reading => Excess(line', block', p, n) <= faults'
      <3>1. CASE sender = "waiting"
        <4>1. line = <<>> /\ o = 0 /\ p = 0 /\ c = block
          BY <1>1, <1>3, <1>5, <3>1 DEF c
        <4>. QED  BY <1>1, <1>2, <1>4, <2>1, <2>5, <2>6, <4>1
      <3>2. CASE sender # "waiting"
        <4>1. o = p + 1
          BY <1>3, <1>5, <3>2
        <4>. QED  BY <1>1, <1>2, <1>3, <1>4, <2>1, <2>5, <2>6, <4>1, SMTT(30)
      <3>. QED  BY <3>1, <3>2
    <2>8. ASSUME ~misled' PROVE Fit(line', n) /\ Alone(line', block', sender', answers', p, n, Blocks) /\ (eot => n = Blocks)
      <3>1. Fit(line, n) /\ Alone(line, block, sender, answers, o, n, Blocks) /\ (eot => n = Blocks)
        BY <1>1, <1>2, <2>8
      <3>2. Len(line) = 0 /\ p = 0 /\ c <= n + 1
        <4>1. CASE sender = "waiting"
          BY <1>1, <1>3, <1>5, <4>1 DEF c
        <4>2. CASE sender = "sending"
          <5>1. /\ Len(line) + o <= 1 /\ block <= n + 1 /\ Len(line) \in Nat
                /\ Acked(answers) => block <= n \/ block = Blocks + 1
            BY <1>1, <3>1, <4>2 DEF Alone
          <5>2. o = p + 1 /\ (answer = "ACK" => block <= n \/ block = Blocks + 1)
            BY <1>3, <1>5, <4>2, <5>1
          <5>. QED  BY <1>1, <1>3, <1>5, <2>1, <5>1, <5>2 DEF c
        <4>. QED  BY <1>5, <4>1, <4>2
      <3>3. Fit(line', n)
        BY <1>1, <2>2, <2>3, <3>1, <3>2, PutFit, ZenonT(30)
      <3>4. Len(line') = 1
        BY <1>1, <2>2, <2>3, <3>2, ItemAppended
      <3>5. ~Acked(answers')
        BY <1>3, <3>2, NothingOwed
      <3>. QED  BY <2>1, <3>1, <3>2, <3>3, <3>4, <3>5 DEF Alone
    <2>9. sender' \in {"waiting", "sending", "gone"} /\ sender' # "waiting"
      BY <1>5
    <2>. QED  BY <1>1, <1>2, <1>3, <2>1, <2>4, <2>7, <2>8, <2>9, LineStep, SMTT(30)
  <1>6. CASE sender' \in {sender, "gone"} /\ UNCHANGED <<block, line>>
    <2>1. block' = block /\ line' = line /\ sender' \in {"waiting", "sending", "gone"}
      BY <1>6, AtFacts
    <2>2. Excess(line', block', p, n) <= Excess(line, block, o, n)
      BY <1>1, <1>2, <1>3, <1>4, <2>1
    <2>3. rx \in Reading => Excess(line', block', p, n) <= faults'
      <3>1. Excess(line', block', p, n) \in Int
        BY <1>1, <1>2, <1>3, <2>1, ExcessInt
      <3>. QED  BY <1>1, <1>2, <2>2, <3>1
    <2>4. sender' = "waiting" => line' = <<>> /\ p = 0 /\ n = 0 /\ block' = 1
      BY <1>1, <1>2, <1>3, <1>6, <2>1
    <2>5. ~misled' => Fit(line', n) /\ Alone(line', block', sender', answers', p, n, Blocks) /\ (eot => n = Blocks)
      BY <1>1, <1>2, <1>3, <1>6, <2>1 DEF Alone
    <2>. QED  BY <1>1, <1>2, <1>3, <2>1, <2>3, <2>4, <2>5, LineStep
  <1>. QED  BY <1>5, <1>6 DEF HearAnswer, senderVars

(* The sender sends its item again, because all was lost or too early.      *)
LEMMA ResendStep ==
    ASSUME NEW n \in 0 .. Blocks, At(n), Resend
    PROVE  At(n)'
  <1>. DEFINE x == ItemAt(block)
              early == line # <<>> \/ answers # <<>> \/ rx = "ask"
  <1>1. PICK o \in Nat :
        /\ transfer \in Transfers /\ Blocks \in Nat /\ n \in Nat
        /\ block \in 1 .. Blocks + 1 /\ block \in Nat
        /\ line \in Seq(Items) /\ answers \in Seq(Answers) /\ Owed(answers, o)
        /\ faults \in Nat /\ misled \in BOOLEAN
        /\ InOrder(line, block, n, Blocks, Data) /\ n <= block
        /\ Excess(line, block, o, n) \in Int
        /\ rx \in Reading => Excess(line, block, o, n) <= faults
        /\ ~misled => Fit(line, n) /\ Alone(line, block, sender, answers, o, n, Blocks) /\ (eot => n = Blocks)
    BY AtFacts, ZenonT(30)
  <1>2. /\ sender = "sending" /\ line' = Append(line, x)
        /\ UNCHANGED <<transfer, rxVars, received, rxStatus>>
        /\ sender' = sender /\ block' = block /\ answers' = answers
        /\ faults' = (IF early THEN faults + 1 ELSE faults)
        /\ misled' = (misled \/ early)
    BY DEF Resend, Put, senderVars
  <1>3. /\ x \in Items /\ x.place = block /\ ~Bad(x) /\ Genuine(x, Blocks, Data)
        /\ x.tag = "SOH" => Sound(x)
    BY <1>1, ItemFacts
  <1>. HIDE DEF x
  <1>4. InOrder(line', block', n, Blocks, Data)
    BY <1>1, <1>2, <1>3, PutOrder
  <1>5. faults' \in Nat /\ misled' \in BOOLEAN /\ sender' # "waiting" /\ sender' \in {"waiting", "sending", "gone"}
    BY <1>1, <1>2, SMTT(30)
  <1>6. ASSUME NEW p \in Nat PROVE Excess(line, block, p, n) \in Int /\ Excess(line', block, p, n) \in Int
    BY <1>1, <1>2, <1>3, ItemAppended, ExcessInt, ZenonT(30)
  <1>7. CASE early
    <2>1. Excess(line', block, o, n) <= Excess(line, block, o, n) + 1
      BY <1>1, <1>2, <1>3, PutExcess
    <2>2. Owed(answers', o) /\ answers' \in Seq(Answers) /\ misled' /\ faults' = faults + 1
      BY <1>1, <1>2, <1>7, ZenonT(30)
    <2>3. rx \in Reading => Excess(line', block', o, n) <= faults'
      <3>1. Excess(line', block, o, n) \in Int /\ Excess(line, block, o, n) \in Int
        BY <1>6
      <3>2. block' = block
        BY <1>2, SMTT(30)
      <3>. QED  BY <1>1, <2>1, <2>2, <3>1, <3>2
    <2>. QED  BY <1>1, <1>2, <1>4, <1>5, <2>2, <2>3, LineStep, SMTT(30)
  <1>8. CASE ~early
    <2>1. line = <<>> /\ answers = <<>> /\ misled' = misled /\ faults' = faults
      <3>1. faults' = faults
        BY <1>2, <1>8, ZenonT(30)
      <3>. QED  BY <1>1, <1>2, <1>8, <3>1, ZenonT(30)
    <2>2. Owed(answers', 0) /\ ~Acked(answers') /\ answers' \in Seq(Answers) /\ 0 \in Nat
      BY <1>1, <1>2, <2>1, NothingOwed, SMTT(30)
    <2>3. Excess(line', block, 0, n) \in {Excess(line, block, 0, n), 0}
      BY <1>1, <1>2, <1>3, <2>1, <2>2, PutExcess, ZenonT(30)
    <2>4. Excess(line, block, 0, n) <= Excess(line, block, o, n)
      BY <1>1, <2>1 DEF Excess
    <2>5. rx \in Reading => Excess(line', block', 0, n) <= faults'
      <3>1. Excess(line', block, 0, n) \in Int /\ Excess(line, block, 0, n) \in Int
        BY <1>6
      <3>2. block' = block
        BY <1>2
      <3>. QED  BY <1>1, <2>1, <2>3, <2>4, <3>1, <3>2
    <2>6. ASSUME ~misled' PROVE Fit(line', n) /\ Alone(line', block', sender', answers', 0, n, Blocks) /\ (eot => n = Blocks)
      <3>1. Fit(line, n) /\ Alone(line, block, sender, answers, o, n, Blocks) /\ (eot => n = Blocks)
        BY <1>1, <2>1, <2>6
      <3>2. block <= n + 1
        BY <1>2, <3>1 DEF Alone
      <3>3. Fit(line', n)
        BY <1>1, <1>2, <1>3, <3>1, <3>2, PutFit, SMTT(30)
      <3>4. Len(line') = 1
        BY <1>1, <1>2, <1>3, <2>1, ItemAppended
      <3>. QED  BY <1>1, <1>2, <2>2, <3>1, <3>2, <3>3, <3>4 DEF Alone
    <2>. QED  BY <1>1, <1>2, <1>4, <1>5, <2>2, <2>5, <2>6, LineStep
  <1>. QED  BY <1>7, <1>8

(* The sender gives up.                                                     *)
LEMMA GiveUpStep ==
    ASSUME NEW n \in 0 .. Blocks, At(n), GiveUp
    PROVE  At(n)'
  <1>1. PICK o \in Nat :
        /\ transfer \in Transfers /\ Blocks \in Nat /\ n \in Nat
        /\ block \in 1 .. Blocks + 1 /\ block \in Nat
        /\ line \in Seq(Items) /\ answers \in Seq(Answers) /\ Owed(answers, o)
        /\ faults \in Nat /\ misled \in BOOLEAN
        /\ InOrder(line, block, n, Blocks, Data) /\ n <= block
        /\ Excess(line, block, o, n) \in Int
        /\ rx \in Reading => Excess(line, block, o, n) <= faults
        /\ ~misled => Fit(line, n) /\ Alone(line, block, sender, answers, o, n, Blocks) /\ (eot => n = Blocks)
    BY AtFacts, ZenonT(30)
  <1>2. /\ UNCHANGED <<transfer, rxVars, received, rxStatus>>
        /\ sender' = "gone" /\ block' = block /\ answers' = answers /\ faults' = faults + 1 /\ misled' = misled
        /\ \/ \E tag \in {"CAN", "cut"} : line' = Append(line, Byte(tag, block))
           \/ line' = line
    BY DEF GiveUp, Put
  <1>3. Owed(answers', o) /\ answers' \in Seq(Answers) /\ faults' \in Nat /\ misled' \in BOOLEAN /\ sender' # "waiting" /\ sender' \in {"waiting", "sending", "gone"}
    BY <1>1, <1>2
  <1>4. Alone(line', block', sender', answers', o, n, Blocks)
    BY <1>2, SMTT(30) DEF Alone
  <1>5. CASE line' = line
    <2>1. rx \in Reading => Excess(line', block', o, n) <= faults'
      BY <1>1, <1>2, <1>5
    <2>2. ~misled' => Fit(line', n) /\ Alone(line', block', sender', answers', o, n, Blocks) /\ (eot => n = Blocks)
      BY <1>1, <1>2, <1>4, <1>5
    <2>3. InOrder(line', block', n, Blocks, Data)
      BY <1>1, <1>2, <1>5, SMTT(30)
    <2>. QED  BY <1>1, <1>2, <1>3, <2>1, <2>2, <2>3, LineStep, SMTT(30)
  <1>6. CASE \E tag \in {"CAN", "cut"} : line' = Append(line, Byte(tag, block))
    <2>1. PICK tag \in {"CAN", "cut"} : line' = Append(line, Byte(tag, block))
      BY <1>6
    <2>. DEFINE x == Byte(tag, block)
    <2>2. tag \in Tags \ {"SOH"} /\ tag # "EOT" /\ tag # "other" /\ tag # "SOH"
      BY DEF Tags
    <2>3. x \in Items /\ x.place = block /\ x.tag = tag /\ ~Bad(x) /\ Genuine(x, Blocks, Data)
      BY <1>1, <2>2, ByteFacts
    <2>4. line' = Append(line, x)
      BY <2>1
    <2>. HIDE DEF x
    <2>5. InOrder(line', block', n, Blocks, Data)
      BY <1>1, <1>2, <2>3, <2>4, PutOrder, SMTT(30)
    <2>6. Excess(line', block, o, n) <= Excess(line, block, o, n) + 1
      BY <1>1, <2>3, <2>4, PutExcess, SMTT(30)
    <2>7. Excess(line', block, o, n) \in Int
      BY <1>1, <2>3, <2>4, ItemAppended, ExcessInt, ZenonT(30)
    <2>8. rx \in Reading => Excess(line', block', o, n) <= faults'
      BY <1>1, <1>2, <2>6, <2>7
    <2>9. ASSUME ~misled' PROVE Fit(line', n) /\ (eot => n = Blocks)
      <3>1. Fit(line, n) /\ (eot => n = Blocks)
        BY <1>1, <1>2, <2>9
      <3>. QED  BY <1>1, <2>2, <2>3, <2>4, <3>1, PutFit
    <2>. QED  BY <1>1, <1>2, <1>3, <1>4, <2>5, <2>8, <2>9, LineStep
  <1>. QED  BY <1>2, <1>5, <1>6

(* Something is lost.                                                       *)
LEMMA LoseStep ==
    ASSUME NEW n \in 0 .. Blocks, At(n), Lose
    PROVE  At(n)'
  <1>1. PICK o \in Nat :
        /\ transfer \in Transfers /\ Blocks \in Nat /\ n \in Nat
        /\ block \in 1 .. Blocks + 1 /\ block \in Nat
        /\ line \in Seq(Items) /\ answers \in Seq(Answers) /\ Owed(answers, o)
        /\ faults \in Nat /\ misled \in BOOLEAN
        /\ sender \in {"waiting", "sending", "gone"}
        /\ sender = "waiting" => line = <<>> /\ o = 0 /\ n = 0 /\ block = 1
        /\ InOrder(line, block, n, Blocks, Data) /\ n <= block
        /\ Excess(line, block, o, n) \in Int
        /\ rx \in Reading => Excess(line, block, o, n) <= faults
        /\ ~misled => Fit(line, n) /\ Alone(line, block, sender, answers, o, n, Blocks) /\ (eot => n = Blocks)
    BY AtFacts, ZenonT(30)
  <1>2. /\ UNCHANGED <<transfer, rxVars, received, rxStatus>>
        /\ sender' = sender /\ block' = block /\ faults' = faults + 1 /\ misled' = misled
        /\ \/ line # <<>> /\ line' = Tail(line) /\ answers' = answers
           \/ answers # <<>> /\ answers' = Tail(answers) /\ line' = line
    BY DEF Lose, senderVars
  <1>3. faults' \in Nat /\ misled' \in BOOLEAN /\ sender' \in {"waiting", "sending", "gone"}
    BY <1>1, <1>2, SMTT(30)
  <1>4. CASE line # <<>> /\ line' = Tail(line) /\ answers' = answers
    <2>1. n <= line[1].place
      BY <1>1, <1>4, ZenonT(30) DEF InOrder
    <2>2. InOrder(line', block', n, Blocks, Data)
      BY <1>1, <1>2, <1>4, <2>1, DropOrder, SMTT(30)
    <2>3. Excess(line', block, o, n) + Harm(line[1]) <= Excess(line, block, o, n)
      BY <1>1, <1>4, DropExcess, ZenonT(30)
    <2>4. Harm(line[1]) \in {0, 1}
      BY DEF Harm
    <2>5. line' \in Seq(Items) /\ Len(line') = Len(line) - 1 /\ Len(line) \in Nat
      BY <1>1, <1>4, ItemTail
    <2>6. Excess(line', block, o, n) \in Int
      BY <1>1, <2>5, ExcessInt
    <2>7. rx \in Reading => Excess(line', block', o, n) <= faults'
      <3>1. Excess(line', block, o, n) <= Excess(line, block, o, n)
        BY <1>1, <2>3, <2>4, <2>6
      <3>. QED  BY <1>1, <1>2, <1>4, <2>6, <3>1
    <2>8. ASSUME ~misled' PROVE Fit(line', n) /\ Alone(line', block', sender', answers', o, n, Blocks) /\ (eot => n = Blocks)
      <3>1. Fit(line, n) /\ Alone(line, block, sender, answers, o, n, Blocks) /\ (eot => n = Blocks)
        BY <1>1, <1>2, <2>8
      <3>2. Fit(line', n)
        BY <1>1, <1>4, <3>1, DropFit
      <3>3. Alone(line', block', sender', answers', o, n, Blocks)
        <4>1. \A b \in Nat : Len(line) + b <= 1 => Len(line') + b <= 1
          BY <2>5
        <4>. QED  BY <1>1, <1>2, <1>4, <3>1, <4>1, ZenonT(30) DEF Alone
      <3>. QED  BY <3>1, <3>2, <3>3
    <2>9. sender' # "waiting"
      BY <1>1, <1>2, <1>4, SMTT(30)
    <2>. QED  BY <1>1, <1>2, <1>3, <1>4, <2>2, <2>7, <2>8, <2>9, LineStep
  <1>5. CASE answers # <<>> /\ answers' = Tail(answers) /\ line' = line
    <2>1. PICK p \in Nat :
          /\ answers' \in Seq(Answers) /\ Owed(answers', p) /\ p <= o
          /\ Acked(answers') => Acked(answers)
      <3>1. PICK p \in Nat : Owed(Tail(answers), p) /\ o = IF Head(answers) = "C" THEN p ELSE p + 1
        BY <1>1, <1>5, Heard
      <3>2. Tail(answers) \in Seq(Answers) /\ (Acked(Tail(answers)) => Acked(answers))
        BY <1>1, <1>5, Heard
      <3>3. p <= o
        BY <3>1
      <3>. QED  BY <1>5, <3>1, <3>2, <3>3, SMTT(30)
    <2>2. Excess(line, block, p, n) = Excess(line, block, o, n) + p - o
      <3>1. line \in Seq(Items) /\ block \in Nat /\ n \in Nat
        BY <1>1, SMTT(30)
      <3>2. Additive(line, block, n)
        BY <3>1, ExcessOwed, ZenonT(30)
      <3>. QED  BY <3>2 DEF Additive
    <2>3. rx \in Reading => Excess(line', block', p, n) <= faults'
      BY <1>1, <1>2, <1>5, <2>1, <2>2, SMTT(30)
    <2>4. sender' = "waiting" => line' = <<>> /\ p = 0 /\ n = 0 /\ block' = 1
      BY <1>1, <1>2, <1>5, <2>1, SMTT(30)
    <2>5. ~misled' => Fit(line', n) /\ Alone(line', block', sender', answers', p, n, Blocks) /\ (eot => n = Blocks)
      BY <1>1, <1>2, <1>5, <2>1 DEF Alone
    <2>6. InOrder(line', block', n, Blocks, Data)
      BY <1>1, <1>2, <1>5, SMTT(30)
    <2>. QED  BY <1>1, <1>2, <1>3, <2>1, <2>3, <2>4, <2>5, <2>6, LineStep
  <1>. QED  BY <1>2, <1>4, <1>5

(* Something is damaged.                                                    *)
LEMMA DamageStep ==
    ASSUME NEW n \in 0 .. Blocks, At(n), Damage
    PROVE  At(n)'
  <1>. DEFINE x == Head(line)
  <1>1. PICK o \in Nat :
        /\ transfer \in Transfers /\ Blocks \in Nat /\ n \in Nat
        /\ block \in 1 .. Blocks + 1 /\ block \in Nat
        /\ line \in Seq(Items) /\ answers \in Seq(Answers) /\ Owed(answers, o)
        /\ faults \in Nat /\ misled \in BOOLEAN
        /\ sender \in {"waiting", "sending", "gone"}
        /\ sender = "waiting" => line = <<>> /\ o = 0 /\ n = 0 /\ block = 1
        /\ InOrder(line, block, n, Blocks, Data) /\ n <= block
        /\ Excess(line, block, o, n) \in Int
        /\ rx \in Reading => Excess(line, block, o, n) <= faults
        /\ ~misled => Fit(line, n) /\ Alone(line, block, sender, answers, o, n, Blocks) /\ (eot => n = Blocks)
    BY AtFacts, ZenonT(30)
  <1>2. /\ UNCHANGED <<transfer, rxVars, received, rxStatus>>
        /\ sender' = sender /\ block' = block /\ answers' = answers /\ faults' = faults + 1
        /\ line # <<>>
    BY DEF Damage, senderVars
  <1>3. PICK y \in DamagedForms(x) :
           /\ line' = [line EXCEPT ![1] = y]
           /\ misled' = (misled \/ y.num # x.num \/ y.comp # x.comp)
    BY ZenonT(30) DEF Damage
  <1>4. x = line[1] /\ x \in Items /\ Len(line) \in Nat \ {0}
    BY <1>1, <1>2, ItemTail
  <1>5. Genuine(x, Blocks, Data)
    <2>1. 1 \in 1 .. Len(line)
      BY <1>4, SMTT(30)
    <2>. QED  BY <1>1, <1>4, <2>1, ZenonT(30) DEF InOrder
  <1>. HIDE DEF x
  <1>6. /\ y \in Items /\ y.place = x.place /\ Genuine(y, Blocks, Data)
        /\ y.tag \in {"SOH", "other"} /\ x.tag \in {"SOH", "EOT"}
        /\ y.tag = "SOH" => x.tag = "SOH"
        /\ y.tag = "SOH" /\ y.num = x.num /\ y.comp = x.comp /\ Sound(x) => Sound(y)
    BY <1>1, <1>3, <1>4, <1>5, DamagedFacts, SMTT(30)
  <1>7. /\ InOrder(line', block, n, Blocks, Data)
        /\ Len(line') = Len(line) /\ line' # <<>> /\ line'[1] = y
        /\ \A i \in 1 .. Len(line) : i # 1 => line'[i] = line[i]
        /\ Excess(line', block, o, n) <= Excess(line, block, o, n) + 1
    <2>1. y.place = line[1].place
      BY <1>4, <1>6, SMTT(30)
    <2>2. /\ InOrder(line, block, n, Blocks, Data) /\ block \in Nat /\ n \in Nat /\ Blocks \in Nat
          /\ line # <<>> /\ y \in Items /\ Genuine(y, Blocks, Data)
          /\ line' = Harmed(line, y)
      BY <1>1, <1>2, <1>3, <1>6 DEF Harmed
    <2>. QED  BY <2>1, <2>2, HarmOrder, SMTT(30)
  <1>8. Excess(line', block, o, n) \in Int
    <2>1. line' \in Seq(Items)
      BY <1>7, ZenonT(30) DEF InOrder
    <2>2. block \in Nat /\ n \in Nat /\ o \in Nat
      BY <1>1, SMTT(30)
    <2>. QED  BY <2>1, <2>2, ExcessInt
  <1>9. rx \in Reading => Excess(line', block', o, n) <= faults'
    BY <1>1, <1>2, <1>7, <1>8
  <1>10. ASSUME ~misled' PROVE Fit(line', n) /\ Alone(line', block', sender', answers', o, n, Blocks) /\ (eot => n = Blocks)
    <2>1. ~misled /\ y.num = x.num /\ y.comp = x.comp
      BY <1>3, <1>10, ZenonT(30)
    <2>2. Fit(line, n) /\ Alone(line, block, sender, answers, o, n, Blocks) /\ (eot => n = Blocks)
      BY <1>1, <2>1
    <2>3. x.place <= n + 1 /\ (x.tag = "SOH" => Sound(x))
      <3>1. 1 \in 1 .. Len(line) /\ x.tag \notin {"CAN", "cut"}
        BY <1>4, <1>6
      <3>. QED  BY <1>4, <2>2, <3>1, ZenonT(30) DEF Fit
    <2>4. y.place <= n + 1 /\ (y.tag = "SOH" => Sound(y))
      BY <1>6, <2>1, <2>3, SMTT(30)
    <2>5. Fit(line', n)
      BY <1>1, <1>7, <2>2, <2>4, HarmFit, ZenonT(30)
    <2>6. Alone(line', block', sender', answers', o, n, Blocks)
      BY <1>2, <1>7, <2>2, SMTT(30) DEF Alone
    <2>. QED  BY <2>2, <2>5, <2>6
  <1>11. /\ Owed(answers', o) /\ answers' \in Seq(Answers)
         /\ faults' \in Nat /\ misled' \in BOOLEAN /\ sender' # "waiting"
         /\ sender' \in {"waiting", "sending", "gone"}
    BY <1>1, <1>2, <1>3
  <1>. QED  BY <1>1, <1>2, <1>7, <1>9, <1>10, <1>11, LineStep, SMTT(30)

-----------------------------------------------------------------------------
(* The steps of the receiver. *)

(* What a step of the receiver that does not end it has to keep.            *)
LEMMA RxStep ==
    ASSUME NEW n \in 0 .. Blocks, At(n), NEW m \in 0 .. Blocks,
           UNCHANGED <<transfer, senderVars, received, rxStatus, faults, misled>>,
           rx # "ended", rx' \in {"ask", "handshake", "recvLoop", "done", "failed"},
           eot' \in BOOLEAN, answers' \in Seq(Answers), NEW p \in Nat, Owed(answers', p),
           fileBuf' = Sent(m), blockExpected' = (m + 1) % ByteRange,
           rx' \in {"ask", "handshake"} => m = 0,
           sender = "waiting" => line' = <<>> /\ p = 0 /\ m = 0,
           InOrder(line', block, m, Blocks, Data),
           rx' \in Reading => Excess(line', block, p, m) <= faults,
           ~misled => Fit(line', m) /\ Alone(line', block, sender, answers', p, m, Blocks) /\ (eot' => m = Blocks)
    PROVE  At(m)'
  <1>1. /\ Blocks' = Blocks /\ Data' = Data /\ Sent(m)' = Sent(m) /\ transfer' = transfer
        /\ sender' = sender /\ block' = block /\ received' = received /\ rxStatus' = rxStatus
        /\ faults' = faults /\ misled' = misled
    BY SameTransfer DEF senderVars
  <1>2. Types /\ Outcome /\ (sender = "waiting" => block = 1)
    BY DEF At
  <1>3. Types'
    BY <1>1, <1>2 DEF Types
  <1>4. Outcome'
    <2>1. received = NoBytes /\ rxStatus = -1
      BY <1>2 DEF Outcome
    <2>2. -1 # 0 /\ rx' # "ended"
      OBVIOUS
    <2>. QED  BY <1>1, <2>1, <2>2, ZenonT(30) DEF Outcome
  <1>5. fileBuf' = Sent(m)' /\ blockExpected' = (m + 1) % ByteRange
    BY <1>1
  <1>6. InOrder(line', block', m, Blocks', Data')
    BY <1>1
  <1>7. rx' \in Reading => Excess(line', block', p, m) <= faults'
    BY <1>1
  <1>8. ~misled' => /\ Fit(line', m) /\ Alone(line', block', sender', answers', p, m, Blocks')
                    /\ eot' => m = Blocks'
    BY <1>1
  <1>9. sender' = "waiting" => line' = <<>> /\ p = 0 /\ m = 0 /\ block' = 1
    BY <1>1, <1>2
  <1>10. \E o \in Nat :
           /\ Owed(answers', o)
           /\ sender' = "waiting" => line' = <<>> /\ o = 0 /\ m = 0 /\ block' = 1
           /\ rx' \in Reading => Excess(line', block', o, m) <= faults'
           /\ ~misled' => Alone(line', block', sender', answers', o, m, Blocks')
    BY <1>7, <1>8, <1>9, ZenonT(30)
  <1>. QED  BY <1>3, <1>4, <1>5, <1>6, <1>8, <1>10, ZenonT(30) DEF At

(* What a step that ends it has to keep.                                    *)
LEMMA EndStep ==
    ASSUME NEW n \in 0 .. Blocks, At(n),
           UNCHANGED <<transfer, senderVars, line, answers, blockExpected, fileBuf, eot, faults, misled>>,
           rx' = "ended",
           \/ rxStatus' = 0 /\ received' = Strip(fileBuf)
           \/ /\ rxStatus' = 1
              /\ \/ received' = NoBytes
                 \/ \E k \in 0 .. Len(Strip(fileBuf)) : received' = SubSeq(Strip(fileBuf), 1, k)
    PROVE  At(n)'
  <1>1. /\ Blocks' = Blocks /\ Data' = Data /\ Sent(n)' = Sent(n) /\ transfer' = transfer
        /\ sender' = sender /\ block' = block /\ line' = line /\ answers' = answers
        /\ blockExpected' = blockExpected /\ fileBuf' = fileBuf /\ eot' = eot
        /\ faults' = faults /\ misled' = misled
    BY SameTransfer DEF senderVars
  <1>2. Types
    BY DEF At
  <1>3. Types'
    BY <1>1, <1>2 DEF Types
  <1>4. Outcome'
    <2>1. 1 # 0 /\ rx' = "ended"
      OBVIOUS
    <2>2. Strip(fileBuf)' = Strip(fileBuf)
      BY <1>1
    <2>. HIDE DEF Strip
    <2>. QED  BY <1>1, <2>1, <2>2, ZenonT(30) DEF Outcome
  <1>5. "ended" \notin {"ask", "handshake"} /\ "ended" \notin Reading
    BY DEF Reading
  <1>6. /\ fileBuf = Sent(n) /\ blockExpected = (n + 1) % ByteRange
        /\ InOrder(line, block, n, Blocks, Data)
        /\ ~misled => Fit(line, n) /\ (eot => n = Blocks)
    BY ZenonT(30) DEF At
  <1>7. PICK o \in Nat :
           /\ Owed(answers, o)
           /\ sender = "waiting" => line = <<>> /\ o = 0 /\ n = 0 /\ block = 1
           /\ ~misled => Alone(line, block, sender, answers, o, n, Blocks)
    BY ZenonT(30) DEF At
  <1>8. \E q \in Nat :
           /\ Owed(answers', q)
           /\ sender' = "waiting" => line' = <<>> /\ q = 0 /\ n = 0 /\ block' = 1
           /\ rx' \in Reading => Excess(line', block', q, n) <= faults'
           /\ ~misled' => Alone(line', block', sender', answers', q, n, Blocks')
    BY <1>1, <1>5, <1>7
  <1>. QED  BY <1>1, <1>3, <1>4, <1>5, <1>6, <1>8 DEF At

(* A loop of the handshake begins (rx.go:67-68).                            *)
LEMMA AskStep ==
    ASSUME NEW n \in 0 .. Blocks, At(n), Ask
    PROVE  At(n)'
  <1>1. PICK o \in Nat :
        /\ transfer \in Transfers /\ Blocks \in Nat /\ n \in Nat
        /\ answers \in Seq(Answers) /\ Owed(answers, o) /\ eot \in BOOLEAN
        /\ sender = "waiting" => line = <<>> /\ o = 0 /\ n = 0
        /\ InOrder(line, block, n, Blocks, Data)
        /\ rx \in Reading => Excess(line, block, o, n) <= faults
        /\ ~misled => Fit(line, n) /\ Alone(line, block, sender, answers, o, n, Blocks) /\ (eot => n = Blocks)
    BY AtFacts, ZenonT(30)
  <1>2. /\ fileBuf = Sent(n) /\ blockExpected = (n + 1) % ByteRange /\ rx = "ask"
        /\ rx \in {"ask", "handshake"} => n = 0
        /\ received = NoBytes
    BY DEF At, Ask, Outcome
  <1>3. /\ UNCHANGED <<transfer, senderVars, line, blockExpected, fileBuf, eot, received, faults, misled>>
        /\ \/ rx' = "handshake" /\ Say(<<"C">>) /\ rxStatus' = rxStatus
           \/ rx' = "ended" /\ rxStatus' = 1 /\ answers' = answers
    BY DEF Ask
  <1>4. CASE rx' = "ended" /\ rxStatus' = 1 /\ answers' = answers
    BY <1>2, <1>3, <1>4, EndStep, SMTT(30)
  <1>5. CASE rx' = "handshake" /\ Say(<<"C">>) /\ rxStatus' = rxStatus
    <2>1. answers' \in {answers, answers \o <<"C">>} /\ "C" \in Answers
      BY <1>5 DEF Say, Answers
    <2>2. /\ answers' \in Seq(Answers) /\ Owed(answers', o)
          /\ Acked(answers') => Acked(answers)
      <3>. DEFINE a == "C"
      <3>1. a \in Answers /\ answers' \in {answers, answers \o <<a>>}
        BY <2>1, SMTT(30)
      <3>. HIDE DEF a
      <3>2. /\ answers' \in Seq(Answers)
            /\ \E p \in {o, o + 1} : Owed(answers', p) /\ (answers' = answers \/ a = "C" => p = o)
            /\ Acked(answers') => Acked(answers) \/ (answers' # answers /\ a = "ACK")
        BY <1>1, <3>1, SaidOne, ZenonT(30)
      <3>3. a = "C" /\ a # "ACK"
        BY DEF a
      <3>. QED  BY <3>2, <3>3, ZenonT(30)
    <2>3. line' = line
      BY <1>3
    <2>4. rx' \in Reading => Excess(line', block, o, n) <= faults
      BY <1>1, <1>2, <2>2, <2>3, SMTT(30) DEF Reading
    <2>5. ~misled => Fit(line', n) /\ Alone(line', block, sender, answers', o, n, Blocks) /\ (eot' => n = Blocks)
      BY <1>1, <1>3, <2>2, <2>3 DEF Alone
    <2>6. InOrder(line', block, n, Blocks, Data)
      BY <1>1, <2>3, SMTT(30)
    <2>7. /\ fileBuf' = Sent(n) /\ blockExpected' = (n + 1) % ByteRange /\ n = 0 /\ eot' \in BOOLEAN
          /\ sender = "waiting" => line' = <<>> /\ o = 0 /\ n = 0
          /\ UNCHANGED <<transfer, senderVars, received, rxStatus, faults, misled>>
      BY <1>1, <1>2, <1>3, <1>5, <2>2
    <2>. QED  BY <1>2, <1>5, <2>2, <2>4, <2>5, <2>6, <2>7, RxStep
  <1>. QED  BY <1>3, <1>4, <1>5

(* The file is written (rx.go:138-149).                                     *)
LEMMA FinishStep ==
    ASSUME NEW n \in 0 .. Blocks, At(n), Finish
    PROVE  At(n)'
  <1>1. /\ UNCHANGED <<transfer, senderVars, line, answers, blockExpected, fileBuf, eot, faults, misled>>
        /\ rx' = "ended"
        /\ \/ rxStatus' = 0 /\ received' = Strip(fileBuf)
           \/ /\ rxStatus' = 1
              /\ received' \in {NoBytes} \union {SubSeq(Strip(fileBuf), 1, k) : k \in 0 .. Len(Strip(fileBuf))}
    BY DEF Finish
  <1>. QED  BY <1>1, EndStep

(* rx reports an error (rx.go:163-171).                                     *)
LEMMA FailStep ==
    ASSUME NEW n \in 0 .. Blocks, At(n), Fail
    PROVE  At(n)'
  <1>1. /\ UNCHANGED <<transfer, senderVars, line, answers, blockExpected, fileBuf, eot, faults, misled>>
        /\ rx' = "ended" /\ rxStatus' = 1 /\ received' = received /\ rx = "failed"
    BY DEF Fail
  <1>2. received = NoBytes
    BY <1>1 DEF At, Outcome
  <1>. QED  BY <1>1, <1>2, EndStep

(* Neither the number that is expected nor the one before it is that of     *)
(* another block, while the faults are too few to go round or nothing was   *)
(* misled.                                                                  *)
LEMMA NoAlias ==
    ASSUME NEW n \in 0 .. Blocks, At(n), Tellable, rx \in Reading, line # <<>>,
           line[1].tag = "SOH", Sound(line[1])
    PROVE  /\ line[1].num = (n + 1) % ByteRange => line[1].place = n + 1
           /\ line[1].num = n % ByteRange => line[1].place = n
  <1>. DEFINE x == line[1]
              t == Len(line)
              p == x.place
              R == ByteRange
  <1>1. PICK o \in Nat :
        /\ Blocks \in Nat /\ n \in Nat /\ block \in Nat
        /\ line \in Seq(Items)
        /\ faults \in Nat /\ misled \in BOOLEAN
        /\ InOrder(line, block, n, Blocks, Data)
        /\ Excess(line, block, o, n) <= faults
        /\ ~misled => Fit(line, n)
    BY AtFacts, ZenonT(30)
  <1>2. x \in Items /\ t \in Nat \ {0} /\ 1 \in 1 .. t
    BY <1>1, ItemTail
  <1>3. Genuine(x, Blocks, Data) /\ n <= p
    BY <1>1, <1>2, ZenonT(30) DEF InOrder
  <1>4. p \in Nat /\ x.num = p % R
    BY <1>2, <1>3 DEF Items, Genuine
  <1>5. Ahead(p, n) \in Nat /\ Harm(x) \in Nat
    BY <1>1, <1>4 DEF Ahead, Harm
  <1>6. Excess(line, block, o, n) = Ahead(p, n) + t + o - 1 + Harm(x)
    BY SMTT(30) DEF Excess
  <1>7. Ahead(p, n) <= faults
    <2>. HIDE DEF t, p, x
    <2>. QED  BY <1>1, <1>2, <1>5, <1>6, SMTT(30)
  <1>8. R \in Nat \ {0, 1}
    BY XmodemAssumption
  <1>9. p <= n + R - 1
    <2>1. CASE misled
      <3>1. faults + 1 < R
        BY <2>1 DEF Tellable
      <3>. HIDE DEF p, R
      <3>. QED  BY <1>1, <1>4, <1>7, <1>8, <3>1 DEF Ahead
    <2>2. CASE ~misled
      <3>1. p <= n + 1
        BY <1>1, <1>2, <2>2, ZenonT(30) DEF Fit
      <3>. HIDE DEF p, R
      <3>. QED  BY <1>1, <1>4, <1>8, <3>1
    <2>. QED  BY <2>1, <2>2
  <1>. HIDE DEF p, R
  <1>10. ASSUME p % R = n % R PROVE p = n
    <2>1. n \in Int /\ p \in Int /\ n <= p /\ p - n < R /\ R \in Nat \ {0}
      BY <1>1, <1>3, <1>4, <1>8, <1>9
    <2>. QED  BY <1>10, <2>1, SameRemainder, SMTT(30)
  <1>11. ASSUME p % R = (n + 1) % R PROVE p = n + 1
    <2>1. CASE p = n
      <3>1. n + 1 \in Int /\ n \in Int /\ n <= n + 1 /\ (n + 1) - n < R /\ (n + 1) % R = n % R /\ R \in Nat \ {0}
        BY <1>1, <1>8, <1>11, <2>1
      <3>2. n + 1 = n
        BY <3>1, SameRemainder, ZenonT(30)
      <3>. QED  BY <1>1, <3>2
    <2>2. CASE p # n
      <3>1. n + 1 \in Int /\ p \in Int /\ n + 1 <= p /\ p - (n + 1) < R /\ R \in Nat \ {0}
        BY <1>1, <1>3, <1>4, <1>8, <1>9, <2>2
      <3>. QED  BY <1>11, <3>1, SameRemainder, ZenonT(30)
    <2>. QED  BY <2>1, <2>2
  <1>. QED  BY <1>4, <1>10, <1>11 DEF p, R

(* Reading an item adds an answer only where there is room for it: the item *)
(* was harmed, or it is the last that was taken.                            *)
LEMMA ReadExcess ==
    ASSUME NEW l, NEW b \in Nat, NEW n \in Nat, NEW B \in Nat, NEW F, InOrder(l, b, n, B, F), l # <<>>,
           NEW o \in Nat, NEW p \in Nat, NEW m \in Nat
    PROVE  /\ m \in {n, n + 1} /\ (m = n + 1 => l[1].place = m)
           /\ p <= o + 1 /\ (p = o \/ Bad(l[1]) \/ l[1].place = m)
           => Excess(Tail(l), b, p, m) <= Excess(l, b, o, n)
  <1>. DEFINE k == Tail(l)
              e == Excess(k, b, o, m)
              g == Excess(l, b, o, n)
              h == Harm(l[1])
              q == l[1].place
  <1>1. l \in Seq(Items)
    BY ZenonT(30) DEF InOrder
  <1>2. k \in Seq(Items) /\ n + 1 \in Nat
    BY <1>1, ItemTail, SMTT(30)
  <1>3. /\ Excess(k, b, o, n) + h <= g
        /\ q = n => Excess(k, b, o, n) + 1 <= g
        /\ q = n + 1 => Excess(k, b, o, n + 1) + 1 <= g
    BY DropExcess
  <1>4. h \in {0, 1} /\ (Bad(l[1]) => h = 1)
    BY DEF Harm
  <1>. HIDE DEF k, h, q
  <1>5. e \in Int /\ g \in Int
    BY <1>1, <1>2, ExcessInt, ZenonT(30)
  <1>6. Excess(k, b, p, m) = e + p - o
    <2>. DEFINE z == Excess(k, b, 0, m)
                y == Excess(k, b, p, m)
    <2>1. Additive(k, b, m) /\ 0 \in Nat
      BY <1>2, ExcessOwed, ZenonT(30)
    <2>2. z \in Int /\ e = z + o /\ y = z + p
      BY <2>1, ZenonT(30) DEF Additive
    <2>. HIDE DEF e, g, z, y
    <2>3. y = e + p - o
      BY <2>2
    <2>. QED  BY <2>3 DEF y
  <1>7. SUFFICES ASSUME m \in {n, n + 1}, m = n + 1 => q = m, p <= o + 1, p = o \/ Bad(l[1]) \/ q = m
                 PROVE  Excess(k, b, p, m) <= g
    BY ZenonT(30) DEF k, q
  <1>8. (m = n => e + h <= g) /\ (q = m => e + 1 <= g)
    BY <1>3, <1>7, ZenonT(30)
  <1>. HIDE DEF e, g
  <1>9. m = n \/ q = m
    BY <1>7, ZenonT(30)
  <1>10. p = o \/ h = 1 \/ q = m
    BY <1>4, <1>7, ZenonT(30)
  <1>11. e + p - o <= g
    BY <1>4, <1>5, <1>7, <1>8, <1>9, <1>10, SMTT(30)
  <1>. QED  BY <1>6, <1>11, ZenonT(30)

(* The receiver has read the first item on the line, has now taken m blocks *)
(* and answers a, or nothing.                                               *)
Consumed(n, m, a) ==
    /\ line # <<>> /\ line' = Tail(line)
    /\ m \in {n, n + 1} /\ (m = n + 1 => line[1].place = m)
    /\ fileBuf' = Sent(m) /\ blockExpected' = (m + 1) % ByteRange
    /\ eot' = (line[1].tag = "EOT")
    /\ rx \in {"handshake", "recvLoop"}
    /\ rx' \in {"ask", "recvLoop", "done", "failed"} /\ (rx' = "ask" => m = 0)
    /\ a \in {"ACK", "NAK"} /\ answers' \in {answers, answers \o <<a>>}
    /\ rx' \in Reading => answers' = answers \/ Bad(line[1]) \/ line[1].place = m
    /\ ~misled => answers' = answers \/ a = "NAK" \/ line[1].place = m \/ line[1].tag = "EOT"
    /\ UNCHANGED <<transfer, senderVars, received, rxStatus, faults, misled>>

(* Such a step keeps what is known of the receiver, at m.                   *)
LEMMA ConsumedStep ==
    ASSUME NEW n \in 0 .. Blocks, At(n), NEW m \in 0 .. Blocks, NEW a, Consumed(n, m, a)
    PROVE  At(m)'
  <1>. DEFINE x == line[1]
  <1>0. /\ line # <<>> /\ line' = Tail(line)
        /\ m \in {n, n + 1} /\ (m = n + 1 => x.place = m)
        /\ rx \in {"handshake", "recvLoop"}
    BY ZenonT(30) DEF Consumed
  <1>1. PICK o \in Nat :
        /\ Blocks \in Nat /\ n \in Nat /\ block \in Nat
        /\ line \in Seq(Items) /\ answers \in Seq(Answers) /\ Owed(answers, o)
        /\ faults \in Nat
        /\ sender = "waiting" => line = <<>>
        /\ InOrder(line, block, n, Blocks, Data)
        /\ Excess(line, block, o, n) \in Int
        /\ rx \in Reading => Excess(line, block, o, n) <= faults
        /\ ~misled => Fit(line, n) /\ Alone(line, block, sender, answers, o, n, Blocks)
    BY AtFacts, ZenonT(30)
  <1>2. Excess(line, block, o, n) <= faults
    BY <1>0, <1>1, ZenonT(30) DEF Reading
  <1>3. x \in Items /\ Len(line) \in Nat \ {0} /\ 1 \in 1 .. Len(line) /\ line' \in Seq(Items) /\ Len(line') = Len(line) - 1
    <2>1. /\ x \in Items /\ Len(line) \in Nat \ {0}
          /\ Tail(line) \in Seq(Items) /\ Len(Tail(line)) = Len(line) - 1
      BY <1>0, <1>1, ItemTail, ZenonT(30)
    <2>2. 1 \in 1 .. Len(line)
      BY <2>1
    <2>. QED  BY <1>0, <2>1, <2>2, ZenonT(30)
  <1>4. Genuine(x, Blocks, Data) /\ n <= x.place /\ line[Len(line)].place = block
    BY <1>0, <1>1, <1>3, ZenonT(30) DEF InOrder
  <1>5. x.place \in Nat /\ m \in Nat /\ n <= m /\ m <= x.place
    <2>1. x.place \in Nat
      BY <1>3, ZenonT(30) DEF Items
    <2>. HIDE DEF x
    <2>. QED  BY <1>0, <1>1, <1>4, <2>1
  <1>6. PICK p \in Nat :
        /\ answers' \in Seq(Answers) /\ Owed(answers', p) /\ p <= o + 1 /\ (o = 0 => p <= 1)
        /\ answers' = answers => p = o
        /\ Acked(answers') => Acked(answers) \/ (answers' # answers /\ a = "ACK")
    <2>1. a \in Answers /\ answers' \in {answers, answers \o <<a>>}
      BY ZenonT(30) DEF Answers, Consumed
    <2>2. /\ answers' \in Seq(Answers)
          /\ \E p \in {o, o + 1} : Owed(answers', p) /\ (answers' = answers \/ a = "C" => p = o)
          /\ Acked(answers') => Acked(answers) \/ (answers' # answers /\ a = "ACK")
      BY <1>1, <2>1, SaidOne, ZenonT(30)
    <2>3. PICK p \in {o, o + 1} : Owed(answers', p) /\ (answers' = answers => p = o)
      BY <2>2, ZenonT(30)
    <2>4. p \in Nat /\ p <= o + 1 /\ (o = 0 => p <= 1)
      OBVIOUS
    <2>. QED  BY <2>2, <2>3, <2>4, ZenonT(30)
  <1>7. InOrder(line', block, m, Blocks, Data)
    BY <1>0, <1>1, <1>5, DropOrder, SMTT(30)
  <1>8. rx' \in Reading => Excess(line', block, p, m) <= faults
    <2>1. ASSUME rx' \in Reading PROVE p = o \/ Bad(x) \/ x.place = m
      BY <1>6, <2>1, ZenonT(30) DEF Consumed
    <2>. HIDE DEF x
    <2>2. ASSUME rx' \in Reading PROVE Excess(Tail(line), block, p, m) <= Excess(line, block, o, n)
      BY <1>0, <1>1, <1>5, <1>6, <2>1, <2>2, ReadExcess, ZenonT(30) DEF x
    <2>3. Excess(line', block, p, m) \in Int
      BY <1>1, <1>3, <1>5, <1>6, ExcessInt, ZenonT(30)
    <2>. QED  BY <1>0, <1>1, <1>2, <2>2, <2>3
  <1>9. ASSUME ~misled PROVE Fit(line', m) /\ Alone(line', block, sender, answers', p, m, Blocks) /\ (eot' => m = Blocks)
    <2>1. Fit(line, n) /\ Alone(line, block, sender, answers, o, n, Blocks)
      BY <1>1, <1>9, SMTT(30)
    <2>2. Fit(line', m)
      BY <1>0, <1>1, <1>5, <2>1, DropFit
    <2>3. eot' => m = Blocks
      <3>1. x.tag = "EOT" => x.place = Blocks + 1 /\ x.place <= n + 1
        <4>1. "EOT" \notin {"CAN", "cut"}
          OBVIOUS
        <4>. QED  BY <1>3, <1>4, <2>1, <4>1, ZenonT(30) DEF Fit, Genuine
      <3>2. eot' => x.tag = "EOT"
        BY ZenonT(30) DEF Consumed
      <3>3. Blocks + 1 <= n + 1 => m = Blocks
        BY <1>1, <1>5, SMTT(30)
      <3>. QED  BY <3>1, <3>2, <3>3, ZenonT(30)
    <2>4. ASSUME sender = "sending"
          PROVE  /\ Len(line') + p <= 1 /\ block <= m + 1
                 /\ Acked(answers') => block <= m \/ block = Blocks + 1
      <3>1. Len(line) + o <= 1 /\ block <= n + 1
        BY <2>1, <2>4 DEF Alone
      <3>2. Len(line) = 1 /\ o = 0 /\ Len(line') = 0
        BY <1>1, <1>3, <3>1
      <3>3. Len(line') + p <= 1 /\ block <= m + 1
        <4>1. p <= 1 /\ block \in Nat /\ n \in Nat /\ m \in Nat /\ n <= m
          BY <1>1, <1>5, <1>6, <3>2, ZenonT(30)
        <4>2. 0 + p <= 1
          BY <4>1
        <4>3. Len(line') + p <= 1
          BY <3>2, <4>2, ZenonT(30)
        <4>4. block <= m + 1
          BY <3>1, <4>1
        <4>. QED  BY <4>3, <4>4, ZenonT(30)
      <3>4. ~Acked(answers) /\ x.place = block
        <4>1. answers \in Seq(Answers) /\ Owed(answers, 0)
          BY <1>1, <3>2, SMTT(30)
        <4>2. x.place = block
          BY <1>4, <3>2
        <4>. QED  BY <4>1, <4>2, NothingOwed, ZenonT(30)
      <3>5. ASSUME Acked(answers') PROVE block <= m \/ block = Blocks + 1
        <4>1. x.place = m \/ x.tag = "EOT"
          <5>1. answers' # answers /\ a = "ACK" /\ "ACK" # "NAK"
            BY <1>6, <3>4, <3>5, ZenonT(30)
          <5>. QED  BY <1>9, <5>1, ZenonT(30) DEF Consumed
        <4>2. x.tag = "EOT" => x.place = Blocks + 1
          BY <1>4, ZenonT(30) DEF Genuine
        <4>. HIDE DEF x
        <4>. QED  BY <1>1, <1>5, <3>4, <4>1, <4>2
      <3>. QED  BY <3>3, <3>5, ZenonT(30)
    <2>. QED  BY <2>2, <2>3, <2>4 DEF Alone
  <1>10. /\ eot' \in BOOLEAN /\ rx # "ended" /\ rx' # "handshake"
         /\ rx' \in {"ask", "handshake", "recvLoop", "done", "failed"} /\ (rx' = "ask" => m = 0)
         /\ fileBuf' = Sent(m) /\ blockExpected' = (m + 1) % ByteRange
         /\ sender # "waiting"
         /\ UNCHANGED <<transfer, senderVars, received, rxStatus, faults, misled>>
    BY <1>1 DEF Consumed
  <1>. QED  BY <1>1, <1>6, <1>7, <1>8, <1>9, <1>10, RxStep

(* Nothing was answered.                                                    *)
LEMMA SaidNothing ==
    ASSUME answers \in Seq(Answers), Say(<<>>)
    PROVE  answers' = answers
  <1>1. answers \o <<>> = answers
    OBVIOUS
  <1>. QED  BY <1>1 DEF Say

(* What the receiver does with an item x. *)
Stays == UNCHANGED <<blockExpected, fileBuf>>
Passed == /\ rx' \in {"ask", "recvLoop", "done", "failed"} /\ (rx' = "ask" => rx = "handshake")
          /\ answers' = answers /\ Stays
Refused(x) == /\ rx' \in {"ask", "recvLoop"} /\ (rx' = "ask" => rx = "handshake")
              /\ x.tag = "SOH" /\ ~x.crc
              /\ answers' \in {answers, answers \o <<"NAK">>} /\ Stays
Repeats(x) == /\ rx' = "recvLoop" /\ x.tag = "SOH" /\ Repeated(x)
              /\ answers' \in {answers, answers \o <<"ACK">>} /\ Stays
Ended(x) == /\ rx' = "done" /\ x.tag = "EOT"
            /\ answers' \in {answers, answers \o <<"ACK">>} /\ Stays
Taken(x) == /\ rx' = "recvLoop" /\ x.tag = "SOH" /\ Sound(x) /\ Expected(x)
            /\ answers' \in {answers, answers \o <<"ACK">>}
            /\ fileBuf' = fileBuf \o x.data /\ blockExpected' = (blockExpected + 1) % ByteRange

(* An item is passed over, refused, taken for a repetition, for the end, or *)
(* taken (rx.go:69-136).                                                    *)
LEMMA ReceiveCases ==
    ASSUME NEW n \in 0 .. Blocks, At(n), NEW x,
           x.tag = "SOH" => x.num \in Int,
           \/ rx = "handshake" /\ Handshake(x)
           \/ rx = "recvLoop" /\ RecvLoop(x)
    PROVE  Passed \/ Refused(x) \/ Repeats(x) \/ Ended(x) \/ Taken(x)
  <1>1. answers \in Seq(Answers) /\ blockExpected = (n + 1) % ByteRange
    BY AtFacts DEF At
  <1>2. ASSUME NEW to \in {"recvLoop", "done", "failed"}, Goes(to, <<>>) PROVE Passed
    <2>1. rx' = to /\ answers' = answers /\ Stays
      BY <1>1, <1>2, SaidNothing DEF Goes, Stays
    <2>. QED  BY <2>1 DEF Passed
  <1>3. ASSUME NEW to, NEW a, Goes(to, <<a>>)
        PROVE  rx' = to /\ Stays /\ answers' \in {answers, answers \o <<a>>}
    BY <1>3 DEF Goes, Say, Stays
  <1>4. ASSUME Again(<<>>), rx = "handshake" PROVE Passed
    <2>1. rx' = "ask" /\ answers' = answers /\ Stays
      BY <1>1, <1>4, SaidNothing DEF Again, Stays
    <2>. QED  BY <1>4, <2>1 DEF Passed
  <1>5. ASSUME Again(<<"NAK">>), rx = "handshake", x.tag = "SOH", ~x.crc PROVE Refused(x)
    BY <1>5 DEF Again, Say, Stays, Refused
  <1>6. ASSUME Take(x), x.tag = "SOH", Sound(x), Expected(x) PROVE Taken(x)
    BY <1>6 DEF Take, Say, Taken
  <1>7. CASE rx = "handshake" /\ Handshake(x)
    <2>. DEFINE first == x.num = 1 /\ x.comp = ByteRange - 2
    <2>1. CASE x.tag = "SOH" /\ ~first /\ Goes("failed", <<>>)
      BY <1>2, <2>1
    <2>2. CASE x.tag = "SOH" /\ first /\ ~x.crc /\ Again(<<"NAK">>)
      BY <1>5, <1>7, <2>2
    <2>3. CASE x.tag = "SOH" /\ first /\ x.crc /\ Take(x)
      <3>1. n = 0
        BY <1>7 DEF At
      <3>2. ByteRange \in Nat \ {0, 1}
        BY XmodemAssumption
      <3>3. Sound(x)
        BY <2>3, <3>2 DEF Sound
      <3>4. 1 % ByteRange = 1 /\ 0 + 1 = 1
        BY <3>2, SMTT(30)
      <3>5. Expected(x)
        BY <1>1, <2>3, <3>1, <3>4, SMTT(30) DEF Expected
      <3>. QED  BY <1>6, <2>3, <3>3, <3>5, SMTT(30)
    <2>4. CASE x.tag = "EOT" /\ Goes("done", <<"ACK">>)
      BY <1>3, <2>4 DEF Ended
    <2>5. CASE x.tag \in {"CAN", "cut"} /\ Goes("failed", <<>>)
      BY <1>2, <2>5
    <2>6. CASE x.tag \in {"other", "EOF"} /\ Again(<<>>)
      BY <1>4, <1>7, <2>6
    <2>. QED  BY <1>7, <2>1, <2>2, <2>3, <2>4, <2>5, <2>6, ZenonT(30) DEF Handshake
  <1>8. CASE rx = "recvLoop" /\ RecvLoop(x)
    <2>1. CASE x.tag = "SOH" /\ ~Expected(x) /\ Repeated(x) /\ Goes("recvLoop", <<"ACK">>)
      BY <1>3, <2>1 DEF Repeats
    <2>2. CASE x.tag = "SOH" /\ Goes("done", <<>>)
      BY <1>2, <2>2, SMTT(30)
    <2>3. CASE x.tag = "SOH" /\ Expected(x) /\ Sound(x) /\ ~x.crc /\ Goes("recvLoop", <<"NAK">>)
      BY <1>3, <2>3 DEF Refused
    <2>4. CASE x.tag = "SOH" /\ Expected(x) /\ Sound(x) /\ x.crc /\ Take(x)
      BY <1>6, <2>4
    <2>5. CASE x.tag = "EOT" /\ Goes("done", <<"ACK">>)
      BY <1>3, <2>5 DEF Ended
    <2>6. CASE x.tag = "CAN" /\ Goes("failed", <<>>)
      BY <1>2, <2>6
    <2>7. CASE x.tag \in {"cut", "EOF"} /\ Goes("done", <<>>)
      BY <1>2, <2>7
    <2>8. CASE x.tag = "other" /\ Goes("recvLoop", <<>>)
      BY <1>2, <2>8
    <2>. QED  BY <1>8, <2>1, <2>2, <2>3, <2>4, <2>5, <2>6, <2>7, <2>8, ZenonT(30) DEF RecvLoop
  <1>. QED  BY <1>7, <1>8, SMTT(30)

(* The receiver reads an item or the end of input.                          *)
LEMMA ReceiveStep ==
    ASSUME NEW n \in 0 .. Blocks, At(n), Receive, Tellable
    PROVE  \E m \in 0 .. Blocks : At(m)'
  <1>. DEFINE x == IF line # <<>> THEN Head(line) ELSE Byte("EOF", block)
  <1>1. PICK o \in Nat :
        /\ transfer \in Transfers /\ Blocks \in Nat /\ n \in Nat /\ block \in Nat
        /\ line \in Seq(Items) /\ answers \in Seq(Answers) /\ Owed(answers, o)
        /\ InOrder(line, block, n, Blocks, Data)
        /\ rx \in Reading => Excess(line, block, o, n) <= faults
        /\ ~misled => Fit(line, n)
    BY AtFacts, ZenonT(30)
  <1>2. /\ fileBuf = Sent(n) /\ blockExpected = (n + 1) % ByteRange
        /\ rx \in {"ask", "handshake"} => n = 0
    BY DEF At
  <1>3. /\ rx \in {"handshake", "recvLoop"} /\ rx \in Reading
        /\ line # <<>> \/ sender = "gone"
        /\ IF rx = "handshake" THEN Handshake(x) ELSE RecvLoop(x)
        /\ eot' = (x.tag = "EOT")
        /\ line' = (IF line = <<>> THEN line ELSE Tail(line))
        /\ UNCHANGED <<transfer, senderVars, received, rxStatus, faults, misled>>
    BY ZenonT(30) DEF Receive, Reading
  <1>4. CASE line = <<>>
    <2>1. x = Byte("EOF", block) /\ sender = "gone" /\ line' = line
      BY <1>3, <1>4, SMTT(30)
    <2>2. x.tag = "EOF"
      BY <2>1 DEF Byte
    <2>. HIDE DEF x
    <2>3. Passed
      <3>1. Passed \/ Refused(x) \/ Repeats(x) \/ Ended(x) \/ Taken(x)
        BY <1>3, <2>2, ReceiveCases
      <3>. QED  BY <2>2, <3>1, SMTT(30) DEF Refused, Repeats, Ended, Taken
    <2>4. /\ rx' \in {"ask", "recvLoop", "done", "failed"} /\ (rx' = "ask" => n = 0) /\ rx' # "handshake"
          /\ answers' = answers /\ fileBuf' = Sent(n) /\ blockExpected' = (n + 1) % ByteRange
      BY <1>2, <2>3 DEF Passed, Stays
    <2>5. eot' = FALSE
      BY <1>3, <2>2, ZenonT(30)
    <2>6. Excess(line, block, o, n) <= faults
      BY <1>1, <1>3, SMTT(30)
    <2>7. ~misled => Fit(line', n) /\ Alone(line', block, sender, answers', o, n, Blocks) /\ (eot' => n = Blocks)
      BY <1>1, <2>1, <2>5, SMTT(30) DEF Alone
    <2>8. /\ InOrder(line', block, n, Blocks, Data) /\ answers' \in Seq(Answers)
          /\ Owed(answers', o) /\ Excess(line', block, o, n) <= faults
          /\ sender # "waiting" /\ eot' \in BOOLEAN /\ rx # "ended"
          /\ rx' \in {"ask", "handshake", "recvLoop", "done", "failed"}
      BY <1>1, <1>3, <2>1, <2>4, <2>5, <2>6, SMTT(30)
    <2>. QED  BY <1>3, <2>4, <2>7, <2>8, RxStep, SMTT(30)
  <1>5. CASE line # <<>>
    <2>. HIDE DEF x
    <2>1. x = line[1] /\ line[1] \in Items /\ Len(line) \in Nat \ {0} /\ line' = Tail(line) /\ 1 \in 1 .. Len(line)
      BY <1>1, <1>3, <1>5, ItemTail, SMTT(30) DEF x
    <2>2. x.num \in Int /\ eot' = (line[1].tag = "EOT")
      BY <1>3, <2>1, SMTT(30) DEF Items
    <2>3. Passed \/ Refused(x) \/ Repeats(x) \/ Ended(x) \/ Taken(x)
      BY <1>3, <2>2, ReceiveCases, SMTT(30)
    <2>4. Stays => fileBuf' = Sent(n) /\ blockExpected' = (n + 1) % ByteRange
      BY <1>2 DEF Stays
    <2>5. n # n + 1 /\ n \in {n, n + 1}
      BY <1>1
    <2>6. CASE Passed
      <3>1. At(n)'
        <4>1. /\ rx' \in {"ask", "recvLoop", "done", "failed"} /\ (rx' = "ask" => n = 0)
              /\ answers' \in {answers, answers \o <<"NAK">>} /\ answers' = answers
              /\ fileBuf' = Sent(n) /\ blockExpected' = (n + 1) % ByteRange
          BY <1>2, <2>4, <2>6, ZenonT(30) DEF Passed
        <4>2. Consumed(n, n, "NAK")
          BY <1>3, <1>5, <2>1, <2>2, <2>5, <4>1, ZenonT(30) DEF Consumed
        <4>. QED  BY <4>2, ConsumedStep, ZenonT(30)
      <3>. QED  BY <3>1, ZenonT(30)
    <2>7. CASE Refused(x)
      <3>1. At(n)'
        <4>1. /\ rx' \in {"ask", "recvLoop", "done", "failed"} /\ (rx' = "ask" => n = 0)
              /\ answers' \in {answers, answers \o <<"NAK">>} /\ Bad(line[1])
              /\ fileBuf' = Sent(n) /\ blockExpected' = (n + 1) % ByteRange
          BY <1>2, <2>1, <2>4, <2>7, ZenonT(30) DEF Refused, Bad
        <4>2. Consumed(n, n, "NAK")
          BY <1>3, <1>5, <2>1, <2>2, <2>5, <4>1, ZenonT(30) DEF Consumed
        <4>. QED  BY <4>2, ConsumedStep, ZenonT(30)
      <3>. QED  BY <3>1, ZenonT(30)
    <2>8. CASE Ended(x)
      <3>1. At(n)'
        <4>1. /\ rx' \in {"ask", "recvLoop", "done", "failed"} /\ rx' # "ask" /\ rx' \notin Reading
              /\ answers' \in {answers, answers \o <<"ACK">>} /\ line[1].tag = "EOT"
              /\ fileBuf' = Sent(n) /\ blockExpected' = (n + 1) % ByteRange
          BY <2>1, <2>4, <2>8, ZenonT(30) DEF Ended, Reading
        <4>2. Consumed(n, n, "ACK")
          BY <1>3, <1>5, <2>1, <2>2, <2>5, <4>1, ZenonT(30) DEF Consumed
        <4>. QED  BY <4>2, ConsumedStep, ZenonT(30)
      <3>. QED  BY <3>1, ZenonT(30)
    <2>9. ASSUME x.tag = "SOH", Sound(x)
          PROVE  /\ x.num = (n + 1) % ByteRange => x.place = n + 1
                 /\ x.num = n % ByteRange => x.place = n
      BY <1>3, <1>5, <2>1, <2>9, NoAlias, SMTT(30)
    <2>10. ByteRange \in Nat \ {0, 1} /\ n \in Int /\ n + 1 \in Int
      BY <1>1, XmodemAssumption
    <2>11. CASE Repeats(x)
      <3>1. Sound(x) => x.place = n
        <4>1. x.num = (((n + 1) % ByteRange) - 1) % ByteRange
          BY <1>2, <2>11, ZenonT(30) DEF Repeats, Repeated
        <4>2. x.num = n % ByteRange
          BY <2>10, <4>1, NextRemainder, ZenonT(30)
        <4>. QED  BY <2>9, <2>11, <4>2, ZenonT(30) DEF Repeats
      <3>2. Bad(line[1]) \/ line[1].place = n
        BY <2>1, <2>11, <3>1, SMTT(30) DEF Bad, Repeats
      <3>3. ~misled => line[1].place = n
        <4>1. ~misled => Sound(x)
          BY <1>1, <2>1, <2>11, ZenonT(30) DEF Fit, Repeats
        <4>. QED  BY <2>1, <3>1, <4>1
      <3>4. At(n)'
        <4>1. /\ rx' \in {"ask", "recvLoop", "done", "failed"} /\ rx' # "ask"
              /\ answers' \in {answers, answers \o <<"ACK">>}
              /\ fileBuf' = Sent(n) /\ blockExpected' = (n + 1) % ByteRange
          BY <2>4, <2>11, ZenonT(30) DEF Repeats
        <4>2. Consumed(n, n, "ACK")
          BY <1>3, <1>5, <2>1, <2>2, <2>5, <3>2, <3>3, <4>1, ZenonT(30) DEF Consumed
        <4>. QED  BY <4>2, ConsumedStep, ZenonT(30)
      <3>. QED  BY <3>4, ZenonT(30)
    <2>12. CASE Taken(x)
      <3>1. x.place = n + 1
        BY <1>2, <2>9, <2>12, ZenonT(30) DEF Taken, Expected
      <3>2. Genuine(x, Blocks, Data)
        BY <1>1, <2>1, ZenonT(30) DEF InOrder
      <3>3. n + 1 <= Blocks /\ x.data = Data[n + 1]
        BY <2>12, <3>1, <3>2, SMTT(30) DEF Genuine, Taken
      <3>4. n + 1 \in 0 .. Blocks /\ n + 1 \in 1 .. Blocks
        BY <1>1, <3>3
      <3>5. x.data = BlockData(n + 1)
        BY <3>3, <3>4, SMTT(30) DEF Data
      <3>6. fileBuf' = Sent(n + 1)
        BY <1>1, <1>2, <2>12, <3>5, SentGrows, ZenonT(30) DEF Taken
      <3>7. blockExpected' = ((n + 1) + 1) % ByteRange
        <4>1. blockExpected' = (((n + 1) % ByteRange) + 1) % ByteRange
          BY <1>2, <2>12, ZenonT(30) DEF Taken
        <4>. QED  BY <2>10, <4>1, NextRemainder, ZenonT(30)
      <3>8. At(n + 1)'
        <4>. DEFINE m == n + 1
        <4>1. /\ m \in 0 .. Blocks /\ m \in {n, n + 1} /\ line[1].place = m
              /\ rx' \in {"ask", "recvLoop", "done", "failed"} /\ rx' # "ask"
              /\ answers' \in {answers, answers \o <<"ACK">>}
              /\ fileBuf' = Sent(m) /\ blockExpected' = (m + 1) % ByteRange
          BY <2>1, <2>12, <3>1, <3>4, <3>6, <3>7, ZenonT(30) DEF Taken
        <4>. HIDE DEF m
        <4>2. At(m)'
          <5>1. Consumed(n, m, "ACK")
            BY <1>3, <1>5, <2>1, <2>2, <4>1, ZenonT(30) DEF Consumed
          <5>. QED  BY <4>1, <5>1, ConsumedStep, ZenonT(30)
        <4>. QED  BY <4>2, SMTT(30) DEF m
      <3>. QED  BY <3>4, <3>8
    <2>. QED  BY <2>3, <2>6, <2>7, <2>8, <2>11, <2>12, SMTT(30)
  <1>. QED  BY <1>4, <1>5

-----------------------------------------------------------------------------
(* The invariant holds, and is enough. *)

(* At the start nothing was taken.                                          *)
LEMMA Initially == XmodemInit => IInv
  <1>. SUFFICES ASSUME NEW t \in Transfers, XmodemStart(t, "waiting", "ask") PROVE IInv
    BY DEF XmodemInit
  <1>1. /\ transfer \in Transfers /\ sender = "waiting" /\ block = 1 /\ line = <<>> /\ answers = <<>>
        /\ rx = "ask" /\ blockExpected = 1 /\ fileBuf = <<>> /\ eot = FALSE
        /\ received = NoBytes /\ rxStatus = -1 /\ faults = 0 /\ misled = FALSE
    BY DEF XmodemStart
  <1>2. Blocks \in Nat
    BY <1>1, EnoughBlocks
  <1>3. Types
    <2>1. 1 \in 1 .. Blocks + 1
      BY <1>2
    <2>2. answers \in Seq(Answers)
      BY <1>1
    <2>. QED  BY <1>1, <2>1, <2>2, ZenonT(30) DEF Types
  <1>4. fileBuf = Sent(0)
    <2>1. Sent(0) \in Seq(Nat) /\ Len(Sent(0)) = 0 * blockSize /\ 0 * blockSize = 0
      <3>1. blockSize \in Nat
        BY XmodemAssumption
      <3>2. 0 * blockSize = 0
        BY <3>1
      <3>. QED  BY <1>1, <3>2, SentBytes
    <2>. QED  BY <1>1, <2>1
  <1>5. blockExpected = (0 + 1) % ByteRange
    <2>1. ByteRange \in Nat \ {0, 1}
      BY XmodemAssumption
    <2>. QED  BY <1>1, <2>1, SMTT(30)
  <1>6. Owed(answers, 0)
    BY <1>1, NothingOwed
  <1>7. InOrder(line, block, 0, Blocks, Data)
    BY <1>1 DEF InOrder
  <1>8. Excess(line, block, 0, 0) <= faults
    BY <1>1 DEF Excess
  <1>9. Fit(line, 0) /\ Alone(line, block, sender, answers, 0, 0, Blocks)
    BY <1>1 DEF Fit, Alone
  <1>10. Outcome
    BY <1>1, SMTT(30) DEF Outcome
  <1>11. \E o \in Nat :
           /\ Owed(answers, o)
           /\ sender = "waiting" => line = <<>> /\ o = 0 /\ 0 = 0 /\ block = 1
           /\ rx \in Reading => Excess(line, block, o, 0) <= faults
           /\ ~misled => Alone(line, block, sender, answers, o, 0, Blocks)
    BY <1>1, <1>6, <1>8, <1>9, SMTT(30)
  <1>12. At(0) /\ 0 \in 0 .. Blocks
    BY <1>1, <1>2, <1>3, <1>4, <1>5, <1>7, <1>9, <1>10, <1>11, SMTT(30) DEF At
  <1>. QED  BY <1>1, <1>12, ZenonT(30) DEF IInv

(* A count that grows by at most one.                                       *)
LEMMA CountUp ==
    ASSUME NEW f \in Nat, NEW g \in {f, f + 1}, NEW R \in Nat
    PROVE  g \in Nat /\ (g + 1 < R => f + 1 < R)
  OBVIOUS

(* Faults are only ever added, and who was misled stays so.                 *)
LEMMA StaysTellable ==
    ASSUME faults \in Nat, misled \in BOOLEAN, XmodemNext
    PROVE  faults' \in Nat /\ misled' \in BOOLEAN /\ (Tellable' => Tellable)
  <1>1. faults' \in {faults, faults + 1} /\ misled' \in BOOLEAN /\ (misled => misled')
    <2>1. CASE HearAnswer
      BY <2>1 DEF HearAnswer
    <2>2. CASE Resend
      <3>. DEFINE early == line # <<>> \/ answers # <<>> \/ rx = "ask"
      <3>1. faults' = (IF early THEN faults + 1 ELSE faults) /\ misled' = (misled \/ early)
        BY <2>2 DEF Resend
      <3>. QED  BY <3>1, ZenonT(30)
    <2>3. CASE GiveUp
      BY <2>3 DEF GiveUp
    <2>4. CASE Lose
      BY <2>4 DEF Lose
    <2>5. CASE Damage
      <3>1. PICK y : misled' = (misled \/ y.num # Head(line).num \/ y.comp # Head(line).comp)
        BY <2>5, ZenonT(30) DEF Damage
      <3>2. faults' = faults + 1
        BY <2>5 DEF Damage
      <3>. QED  BY <3>1, <3>2, ZenonT(30)
    <2>6. CASE Ask
      BY <2>6, SMTT(30) DEF Ask
    <2>7. CASE Receive
      BY <2>7 DEF Receive
    <2>8. CASE Finish
      BY <2>8 DEF Finish
    <2>9. CASE Fail
      BY <2>9 DEF Fail
    <2>. QED  BY <2>1, <2>2, <2>3, <2>4, <2>5, <2>6, <2>7, <2>8, <2>9, SMTT(30) DEF XmodemNext
  <1>2. ByteRange \in Nat
    BY XmodemAssumption
  <1>3. faults' \in Nat /\ (faults' + 1 < ByteRange => faults + 1 < ByteRange)
    <2>1. faults' \in {faults, faults + 1}
      BY <1>1, ZenonT(30)
    <2>. QED  BY <1>2, <2>1, CountUp, ZenonT(30)
  <1>4. Tellable' => Tellable
    <2>1. ASSUME Tellable', misled PROVE faults + 1 < ByteRange
      <3>1. misled'
        BY <1>1, <2>1, ZenonT(30)
      <3>2. faults' + 1 < ByteRange
        BY <2>1, <3>1, ZenonT(30) DEF Tellable
      <3>. QED  BY <1>3, <3>2, ZenonT(30)
    <2>. QED  BY <2>1, ZenonT(30) DEF Tellable
  <1>. QED  BY <1>1, <1>3, <1>4, SMTT(30)

(* Every step keeps the inductive invariant.                                *)
LEMMA IInvStep == IInv /\ [XmodemNext]_xmodemVars => IInv'
  <1>. SUFFICES ASSUME IInv, [XmodemNext]_xmodemVars PROVE IInv'
    OBVIOUS
  <1>1. CASE UNCHANGED xmodemVars
    <2>1. /\ transfer' = transfer /\ sender' = sender /\ block' = block /\ line' = line /\ answers' = answers
          /\ rx' = rx /\ blockExpected' = blockExpected /\ fileBuf' = fileBuf /\ eot' = eot
          /\ received' = received /\ rxStatus' = rxStatus /\ faults' = faults /\ misled' = misled
      BY <1>1 DEF xmodemVars, senderVars, rxVars
    <2>2. Blocks' = Blocks /\ Data' = Data /\ \A n : Sent(n)' = Sent(n)
      BY <2>1, SameTransfer, SMTT(30)
    <2>3. Types' <=> Types
      BY <2>1, <2>2, SMTT(30) DEF Types
    <2>4. Outcome' <=> Outcome
      BY <2>1, SMTT(30) DEF Outcome
    <2>5. ASSUME NEW n, At(n) PROVE At(n)'
      BY <2>1, <2>2, <2>3, <2>4, <2>5 DEF At
    <2>6. Tellable' <=> Tellable
      BY <2>1 DEF Tellable
    <2>. QED  BY <2>1, <2>2, <2>5, <2>6, SMTT(30) DEF IInv
  <1>2. CASE XmodemNext
    <2>1. faults' \in Nat /\ misled' \in BOOLEAN /\ (Tellable' => Tellable)
      BY <1>2, StaysTellable DEF IInv
    <2>2. ASSUME Tellable' PROVE \E m \in 0 .. Blocks' : At(m)'
      <3>1. PICK n \in 0 .. Blocks : At(n)
        BY <2>1, <2>2, SMTT(30) DEF IInv
      <3>2. transfer' = transfer
        BY <1>2, ZenonT(30) DEF XmodemNext, HearAnswer, Resend, GiveUp, Lose, Damage, Ask, Receive, Finish, Fail
      <3>3. Blocks' = Blocks
        BY <3>2, SameTransfer
      <3>4. \E m \in 0 .. Blocks : At(m)'
        <4>1. CASE HearAnswer
          BY <3>1, <4>1, HearAnswerStep
        <4>2. CASE Resend
          BY <3>1, <4>2, ResendStep, SMTT(30)
        <4>3. CASE GiveUp
          BY <3>1, <4>3, GiveUpStep
        <4>4. CASE Lose
          BY <3>1, <4>4, LoseStep
        <4>5. CASE Damage
          BY <3>1, <4>5, DamageStep
        <4>6. CASE Ask
          BY <3>1, <4>6, AskStep
        <4>7. CASE Receive
          BY <2>1, <2>2, <3>1, <4>7, ReceiveStep, SMTT(30)
        <4>8. CASE Finish
          BY <3>1, <4>8, FinishStep
        <4>9. CASE Fail
          BY <3>1, <4>9, FailStep
        <4>. QED  BY <1>2, <4>1, <4>2, <4>3, <4>4, <4>5, <4>6, <4>7, <4>8, <4>9, SMTT(30) DEF XmodemNext
      <3>. QED  BY <3>3, <3>4
    <2>. QED  BY <2>1, <2>2 DEF IInv
  <1>. QED  BY <1>1, <1>2

(* The inductive invariant says that what rx has written is right.          *)
LEMMA IInvIsEnough == IInv => TransfersAreRight
  <1>. SUFFICES ASSUME IInv, Tellable
                PROVE  /\ received # NoBytes =>
                             \E n \in 0 .. Blocks :
                                IF rxStatus = 0 THEN received = First(n)
                                ELSE \E k \in 0 .. Len(First(n)) : received = SubSeq(First(n), 1, k)
                       /\ rxStatus = 0 => received # NoBytes
                       /\ rxStatus = 0 /\ eot /\ ~misled => received = Strip(transfer.bytes)
    BY DEF TransfersAreRight
  <1>1. PICK n \in 0 .. Blocks : At(n)
    BY SMTT(30) DEF IInv
  <1>2. Strip(fileBuf) = First(n) /\ Outcome /\ transfer \in Transfers /\ n \in Nat
    BY <1>1, AtFacts DEF At, First
  <1>3. /\ rxStatus = 0 => received = First(n)
        /\ received # NoBytes /\ rxStatus # 0 => \E k \in 0 .. Len(First(n)) : received = SubSeq(First(n), 1, k)
    BY <1>2, ZenonT(30) DEF Outcome
  <1>4. First(n) # NoBytes
    <2>1. Sent(n) \in Seq(Nat)
      BY <1>2, SentBytes
    <2>. QED  BY <2>1, StripsToBytes DEF First
  <1>5. ASSUME rxStatus = 0, eot, ~misled PROVE received = Strip(transfer.bytes)
    <2>1. n = Blocks
      BY <1>1, <1>5, AtFacts
    <2>. QED  BY <1>2, <1>3, <1>5, <2>1, AllSent, SMTT(30) DEF First
  <1>. QED  BY <1>1, <1>3, <1>4, <1>5, SMTT(30)

(* For every transfer, block size, range of numbers and number of retries,  *)
(* through every interleaving of losses, damage and repetitions: what rx    *)
(* writes is no more than some first blocks of what was sent without the    *)
(* padding, just those if it reports success, and all of it if the end came *)
(* through and nothing misled either side (rx.go:61-149).                   *)
THEOREM TransfersAreRightHolds == XmodemSpec => []TransfersAreRight
  <1>. QED  BY Initially, IInvStep, IInvIsEnough, PTL DEF XmodemSpec
=============================================================================
