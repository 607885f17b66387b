----------------------------- MODULE IntakeProofs -----------------------------
(***************************************************************************)
(* What a connection lets in, for every rate, burst, request limit and     *)
(* stream: the promises of the rate limiter and of the request reader hold *)
(* of the handler that uses the two together.                              *)
(*                                                                         *)
(* WindowBound is not inductive: it says nothing of the tokens still in    *)
(* the bucket.  Credit adds them.  For every request let through, what was *)
(* taken since then plus what is left never exceeds a full bucket plus     *)
(* what the rate has earned since then.                                    *)
(*                                                                         *)
(* The reader's promises both need to know how much can have been read     *)
(* ahead (ReadAhead).                                                      *)
(***************************************************************************)
EXTENDS Intake, SequenceTheorems, TLAPS

-----------------------------------------------------------------------------
(* The handler takes every step of the limiter and of the reader, and no   *)
(* others: what holds of either by itself holds of it.                     *)
LEMMA IntakeIsLimiter == IntakeSpec => Spec
  <1>1. IntakeInit => Init
    BY DEF IntakeInit
  <1>2. [IntakeNext]_intakeVars => [Next]_vars
    BY DEF IntakeNext, intakeVars, Request, Next
  <1>. QED  BY <1>1, <1>2, PTL DEF IntakeSpec, Spec

(* The same for the reader. *)
LEMMA IntakeIsReader == IntakeSpec => ReaderSpec
  <1>1. IntakeInit => ReaderInit
    BY DEF IntakeInit
  <1>2. [IntakeNext]_intakeVars => [ReaderNext]_readerVars
    BY DEF IntakeNext, intakeVars, Request, ReaderNext
  <1>. QED  BY <1>1, <1>2, PTL DEF IntakeSpec, ReaderSpec

-----------------------------------------------------------------------------
(* The rate limiter. *)

Credit ==
    \A i \in 1 .. Len(grants) :
        (Len(grants) - i + 1) * Token + tokens
            <= Capacity + Rate * (lastUpdate - grants[i])

IInv == TypeOK /\ Credit /\ WindowBound

(* The capacity of the bucket is a whole number of units. *)
LEMMA CapacityType == burst \in Nat /\ Capacity \in Nat
  <1>1. Rate * TicksPerSecond \in Nat
    BY RateAssumption
  <1>2. burst \in Nat
    BY <1>1, RateAssumption DEF burst
  <1>. QED  BY <1>2, RateAssumption DEF Capacity

(* Multiplication by a fixed natural number preserves order and distributes *)
(* over the intervals the proofs split.                                     *)
LEMMA Distribute ==
    ASSUME NEW r \in Nat, NEW a \in Int, NEW b \in Int, NEW c \in Int
    PROVE  r * (a - b) + r * (b - c) = r * (a - c)
  OBVIOUS

(* One more token. *)
LEMMA OneMore ==
    ASSUME NEW t \in Nat, NEW n \in Int
    PROVE  (n + 1) * t = n * t + t
  OBVIOUS

(* A product of integers is one. *)
LEMMA ProductInt ==
    ASSUME NEW a \in Int, NEW b \in Int
    PROVE  a * b \in Int
  OBVIOUS

(* A sum is bounded by what bounds it together with something non-negative. *)
LEMMA DropSurplus ==
    ASSUME NEW a \in Int, NEW f \in Int, NEW t \in Int, NEW b \in Int,
           f >= t, a + (f - t) <= b
    PROVE  a <= b
  OBVIOUS

(* What the rate earns is a natural number, in whichever order it is written. *)
LEMMA Earned ==
    ASSUME NEW r \in Nat, NEW e \in Nat
    PROVE  r * e \in Nat /\ r * e = e * r
  OBVIOUS

(* What Refill returns: no less than nothing, no more than a full bucket,  *)
(* no more than what was there and what the elapsed time earned.           *)
LEMMA RefillBounds ==
    ASSUME NEW t \in 0 .. Capacity, NEW e \in Nat
    PROVE  /\ Refill(t, e) \in 0 .. Capacity
           /\ Refill(t, e) <= t + Rate * e
  <1>1. /\ Rate * e \in Nat
        /\ e * Rate = Rate * e
    BY Earned, RateAssumption
  <1>. QED  BY <1>1, CapacityType DEF Refill

(* The bucket starts full with nothing granted. *)
LEMMA InitIInv == Init => IInv
  BY CapacityType, RateAssumption DEF Init, IInv, TypeOK, Credit, WindowBound

(* Letting a request through keeps the credit of every earlier one, and    *)
(* the new request starts from a bucket that was at most full.             *)
LEMMA GrantIInv == IInv /\ Grant => IInv'
  <1>. SUFFICES ASSUME IInv, Grant PROVE IInv'
    OBVIOUS
  <1>. DEFINE full == Refill(tokens, now - lastUpdate)
              n == Len(grants)
  <1>0. /\ now \in Nat /\ lastUpdate \in Nat /\ now - lastUpdate \in Nat
        /\ tokens \in 0 .. Capacity
        /\ grants \in Seq(0 .. now) /\ n \in Nat
        /\ Capacity \in Nat /\ Token \in Nat /\ Rate \in Nat
    BY CapacityType, RateAssumption DEF IInv, TypeOK
  <1>1. full \in 0 .. Capacity /\ full <= tokens + Rate * (now - lastUpdate)
    BY <1>0, RefillBounds, ZenonT(30)
  <1>2. /\ full >= Token
        /\ tokens' = full - Token
        /\ lastUpdate' = now /\ now' = now
        /\ grants' = Append(grants, now)
    BY DEF Grant, TokenReady
  <1>3. /\ Len(grants') = n + 1
        /\ grants'[n + 1] = now
        /\ \A i \in 1 .. n : grants'[i] = grants[i] /\ grants[i] \in 0 .. now
    BY <1>0, <1>2, SMTT(30)
  <1>4. TypeOK'
    <2>1. tokens' \in 0 .. Capacity
      BY <1>0, <1>1, <1>2
    <2>2. grants' \in Seq(0 .. now')
      BY <1>0, <1>2
    <2>. QED  BY <1>0, <1>2, <2>1, <2>2 DEF TypeOK
  <1>5. Credit'
    <2>. SUFFICES ASSUME NEW i \in 1 .. n + 1
                  PROVE  (n + 1 - i + 1) * Token + (full - Token)
                             <= Capacity + Rate * (now - grants'[i])
      BY <1>2, <1>3, CapacityType DEF Credit, Capacity, burst
    <2>1. CASE i = n + 1
      <3>. DEFINE k == n + 1 - i + 1
                  d == now - grants'[i]
      <3>1. k = 1 /\ d = 0
        BY <1>0, <1>3, <2>1
      <3>2. 1 * Token = Token /\ Rate * 0 = 0
        BY <1>0
      <3>. HIDE DEF k, d, full
      <3>3. k * Token + (full - Token) <= Capacity + Rate * d
        BY <1>0, <1>1, <3>1, <3>2
      <3>. QED  BY <3>3 DEF k, d
    <2>2. CASE i \in 1 .. n
      <3>. DEFINE g == grants[i]
      <3>1. g \in Nat /\ grants'[i] = g
        BY <1>0, <1>3, <2>2
      <3>2. (n - i + 1) * Token + tokens <= Capacity + Rate * (lastUpdate - g)
        BY <2>2 DEF IInv, Credit
      <3>3. ((n - i + 1) + 1) * Token = (n - i + 1) * Token + Token
        BY <1>0, OneMore
      <3>4. Rate * (now - lastUpdate) + Rate * (lastUpdate - g) = Rate * (now - g)
        BY <1>0, <3>1, Distribute, SMTT(30)
      <3>5. /\ (n - i + 1) * Token \in Int
            /\ Rate * (lastUpdate - g) \in Int
            /\ Rate * (now - lastUpdate) \in Int
            /\ Rate * (now - g) \in Int
        <4>1. /\ n - i + 1 \in Int /\ lastUpdate - g \in Int
              /\ now - lastUpdate \in Int /\ now - g \in Int
              /\ Token \in Int /\ Rate \in Int
          BY <1>0, <3>1
        <4>. QED  BY <4>1, ProductInt, ZenonT(30)
      <3>6. n + 1 - i + 1 = (n - i + 1) + 1
        BY <1>0
      <3>. HIDE DEF g, full, n
      <3>. QED  BY <1>0, <1>1, <3>1, <3>2, <3>3, <3>4, <3>5, <3>6, SMTT(30)
    <2>. QED  BY <1>0, <2>1, <2>2
  <1>6. WindowBound'
    <2>. SUFFICES ASSUME NEW i \in 1 .. n + 1, NEW j \in 1 .. n + 1, i <= j
                  PROVE  (j - i + 1) * Token
                             <= Capacity + Rate * (grants'[j] - grants'[i])
      BY <1>3 DEF WindowBound, Capacity, burst
    <2>1. CASE j \in 1 .. n
      <3>1. i \in 1 .. n
        BY <1>0, <2>1
      <3>2. (j - i + 1) * Token <= Capacity + Rate * (grants[j] - grants[i])
        BY <2>1, <3>1 DEF IInv, WindowBound
      <3>3. grants'[i] = grants[i] /\ grants'[j] = grants[j]
        BY <1>3, <2>1, <3>1
      <3>. QED  BY <3>2, <3>3
    <2>2. CASE j = n + 1
      <3>1. (n + 1 - i + 1) * Token + (full - Token)
                <= Capacity + Rate * (now - grants'[i])
        BY <1>2, <1>3, <1>5 DEF Credit, Capacity, burst
      <3>2. /\ (n + 1 - i + 1) * Token \in Int
            /\ Rate * (now - grants'[i]) \in Int
        <4>1. grants'[i] \in Nat
          BY <1>0, <1>3
        <4>2. /\ n + 1 - i + 1 \in Int /\ now - grants'[i] \in Int
              /\ Token \in Int /\ Rate \in Int
          BY <1>0, <4>1
        <4>. QED  BY <4>2, ProductInt, ZenonT(30)
      <3>3. (n + 1 - i + 1) * Token <= Capacity + Rate * (now - grants'[i])
        <4>. DEFINE a == (n + 1 - i + 1) * Token
                    x == Rate * (now - grants'[i])
        <4>1. a + (full - Token) <= Capacity + x
          BY <3>1
        <4>2. a \in Int /\ x \in Int
          BY <3>2
        <4>3. full \in Int /\ Token \in Int /\ Capacity \in Int /\ full >= Token
          BY <1>0, <1>1, <1>2
        <4>. HIDE DEF a, x, full
        <4>4. a <= Capacity + x
          BY <4>1, <4>2, <4>3, DropSurplus
        <4>. QED  BY <4>4 DEF a, x
      <3>4. grants'[j] = now /\ j - i + 1 = n + 1 - i + 1
        BY <1>3, <2>2
      <3>. QED  BY <3>3, <3>4
    <2>. QED  BY <1>0, <2>1, <2>2
  <1>. QED  BY <1>4, <1>5, <1>6 DEF IInv

(* Refusing a request only moves the refill into the bucket. *)
LEMMA RefuseIInv == IInv /\ Refuse => IInv'
  <1>. SUFFICES ASSUME IInv, Refuse PROVE IInv'
    OBVIOUS
  <1>. DEFINE full == Refill(tokens, now - lastUpdate)
              n == Len(grants)
  <1>0. /\ now \in Nat /\ lastUpdate \in 0 .. now /\ now - lastUpdate \in Nat
        /\ tokens \in 0 .. Capacity
        /\ grants \in Seq(0 .. now) /\ n \in Nat
        /\ Capacity \in Nat /\ Token \in Nat /\ Rate \in Nat
    BY CapacityType, RateAssumption DEF IInv, TypeOK
  <1>1. full \in 0 .. Capacity /\ full <= tokens + Rate * (now - lastUpdate)
    BY <1>0, RefillBounds, ZenonT(30)
  <1>2. tokens' = full /\ lastUpdate' = now /\ now' = now /\ grants' = grants
    BY DEF Refuse
  <1>3. TypeOK'
    BY <1>0, <1>1, <1>2 DEF TypeOK
  <1>4. Credit'
    <2>. SUFFICES ASSUME NEW i \in 1 .. n
                  PROVE  (n - i + 1) * Token + full <= Capacity + Rate * (now - grants[i])
      BY <1>2 DEF Credit, Capacity, burst
    <2>. DEFINE g == grants[i]
                k == (n - i + 1) * Token
    <2>1. g \in Nat
      BY <1>0
    <2>2. k + tokens <= Capacity + Rate * (lastUpdate - g)
      BY DEF IInv, Credit
    <2>3. Rate * (now - lastUpdate) + Rate * (lastUpdate - g) = Rate * (now - g)
      BY <1>0, <2>1, Distribute
    <2>4. /\ k \in Int
          /\ Rate * (lastUpdate - g) \in Int
          /\ Rate * (now - lastUpdate) \in Int
          /\ Rate * (now - g) \in Int
      <3>1. /\ n - i + 1 \in Int /\ lastUpdate - g \in Int
            /\ now - lastUpdate \in Int /\ now - g \in Int
            /\ Token \in Int /\ Rate \in Int
        BY <1>0, <2>1
      <3>. QED  BY <3>1, ProductInt, ZenonT(30)
    <2>. HIDE DEF g, k, full
    <2>5. k + full <= Capacity + Rate * (now - g)
      <3>. DEFINE x == Rate * (now - lastUpdate)
                  y == Rate * (lastUpdate - g)
                  z == Rate * (now - g)
      <3>1. full \in Int /\ tokens \in Int /\ Capacity \in Int
        BY <1>0, <1>1
      <3>2. /\ k \in Int /\ x \in Int /\ y \in Int /\ z \in Int
            /\ k + tokens <= Capacity + y /\ full <= tokens + x /\ x + y = z
        BY <1>1, <2>2, <2>3, <2>4
      <3>. HIDE DEF x, y, z
      <3>3. k + full <= Capacity + z
        BY <3>1, <3>2
      <3>. QED  BY <3>3 DEF z
    <2>. QED  BY <2>5 DEF g, k
  <1>5. WindowBound'
    BY <1>2 DEF IInv, WindowBound, Capacity, burst
  <1>. QED  BY <1>3, <1>4, <1>5 DEF IInv

(* Time passing changes nothing the invariant relates. *)
LEMMA TickIInv == IInv /\ Tick => IInv'
  <1>. SUFFICES ASSUME IInv, Tick PROVE IInv'
    OBVIOUS
  <1>1. now' = now + 1 /\ UNCHANGED <<tokens, lastUpdate, grants>>
    BY DEF Tick
  <1>2. grants \in Seq(0 .. now + 1)
    <2>1. now \in Nat /\ grants \in Seq(0 .. now)
      BY DEF IInv, TypeOK
    <2>2. \A i \in 1 .. Len(grants) : grants[i] \in 0 .. now + 1
      BY <2>1
    <2>. QED  BY <2>1, <2>2
  <1>3. TypeOK'
    BY <1>1, <1>2 DEF IInv, TypeOK, Capacity, burst
  <1>4. Credit' /\ WindowBound'
    BY <1>1 DEF IInv, Credit, WindowBound, Capacity, burst
  <1>. QED  BY <1>3, <1>4 DEF IInv

(* Steps of others leave the limiter alone. *)
LEMMA StutterIInv == IInv /\ UNCHANGED vars => IInv'
  BY DEF IInv, TypeOK, Credit, WindowBound, Capacity, burst, vars

(* No step breaks the invariant. *)
LEMMA Invariance == Spec => []IInv
  <1>1. IInv /\ [Next]_vars => IInv'
    BY GrantIInv, RefuseIInv, TickIInv, StutterIInv DEF Next, Allow
  <1>. QED  BY InitIInv, <1>1, PTL DEF Spec

(* Whatever rate is configured and however requests arrive, the requests    *)
(* that Allow lets through in any window number at most a burst plus what   *)
(* the rate earns in that window.                                           *)
THEOREM WindowBoundHolds == IntakeSpec => []WindowBound
  <1>1. IInv => WindowBound
    BY DEF IInv
  <1>. QED  BY Invariance, IntakeIsLimiter, <1>1, PTL

(* With a configured rate of at least one request a second (so that the     *)
(* truncated burst is not zero) a client that waits long enough to earn a   *)
(* token is never refused.                                                  *)
THEOREM PacedClientHolds ==
    ASSUME burst >= 1
    PROVE  IntakeSpec => PacedClientIsServed
  <1>1. IInv /\ [Next]_vars
          => [Rate * (now - lastUpdate) >= Token => ~Refuse]_vars
    <2>. SUFFICES ASSUME IInv, Rate * (now - lastUpdate) >= Token
                  PROVE  TokenReady
      BY DEF Refuse
    <2>1. /\ now - lastUpdate \in Nat /\ tokens \in 0 .. Capacity
          /\ Capacity \in Nat /\ Token \in Nat /\ burst \in Nat
      BY CapacityType, RateAssumption DEF IInv, TypeOK
    <2>2. Capacity >= Token
      BY <2>1 DEF Capacity
    <2>3. /\ Rate * (now - lastUpdate) \in Nat
          /\ (now - lastUpdate) * Rate = Rate * (now - lastUpdate)
      BY <2>1, RateAssumption, Earned
    <2>. QED  BY <2>1, <2>2, <2>3 DEF TokenReady, Refill
  <1>. QED  BY Invariance, IntakeIsLimiter, <1>1, PTL DEF Spec, PacedClientIsServed

-----------------------------------------------------------------------------
(* The request reader. *)

(* A message queue's head and tail. *)
LEMMA QueueParts ==
    ASSUME NEW q \in Seq(Sizes), q # <<>>
    PROVE  Head(q) \in Sizes /\ Tail(q) \in Seq(Sizes)
  BY HeadTailProperties

(* A message sent joins the end of the queue. *)
LEMMA QueueGrows ==
    ASSUME NEW q \in Seq(Sizes), NEW size \in Sizes
    PROVE  /\ Append(q, size) \in Seq(Sizes) /\ Append(q, size) # <<>>
           /\ q # <<>> => Head(Append(q, size)) = Head(q)
  <1>1. /\ Append(q, size) \in Seq(Sizes)
        /\ Len(Append(q, size)) = Len(q) + 1
        /\ \A i \in 1 .. Len(q) : Append(q, size)[i] = q[i]
    BY AppendProperties
  <1>2. Len(q) \in Nat /\ (q # <<>> => Len(q) >= 1)
    BY EmptySeq, LenProperties
  <1>3. Append(q, size) # <<>>
    BY <1>1, <1>2
  <1>4. ASSUME q # <<>> PROVE Head(Append(q, size)) = Head(q)
    <2>1. Append(q, size)[1] = q[1]
      BY <1>1, <1>2, <1>4
    <2>. QED  BY <1>1, <1>3, <1>4, <2>1, HeadTailProperties
  <1>. QED  BY <1>1, <1>3, <1>4

(* The reader's invariant holds throughout, for every positive limit and    *)
(* every set of message lengths (PerRequestLimitReader in handleConn).      *)
THEOREM InductiveHolds == ReaderSpec => []Inductive
  <1>. USE LimitAssumption
  <1>1. ReaderInit => Inductive
    BY DEF ReaderInit, Inductive, ReaderTypeOK, ReadAhead, FitsIsServed
  <1>2. Inductive /\ [ReaderNext]_readerVars => Inductive'
    <2>. SUFFICES ASSUME Inductive, [ReaderNext]_readerVars PROVE Inductive'
      OBVIOUS
    <2>0. ReaderTypeOK /\ ReadAhead /\ FitsIsServed
      BY DEF Inductive
    <2>1. ASSUME NEW size \in Sizes, NEW part \in 0 .. size, ClientSends(size, part)
          PROVE  Inductive'
      <3>1. /\ Append(queue, size) \in Seq(Sizes) /\ Append(queue, size) # <<>>
            /\ queue # <<>> => Head(Append(queue, size)) = Head(queue)
        BY <2>0, QueueGrows DEF ReaderTypeOK
      <3>2. avail + part \in Nat
        BY <2>0 DEF ReaderTypeOK
      <3>3. ReaderTypeOK'
        BY <2>0, <2>1, <3>1, <3>2 DEF ReaderTypeOK, ClientSends
      <3>4. ReadAhead' /\ FitsIsServed'
        BY <2>0, <2>1, <3>1 DEF ClientSends, ReadAhead, FitsIsServed
      <3>. QED  BY <3>3, <3>4 DEF Inductive
    <2>2. CASE ClientCloses
      BY <2>0, <2>2 DEF ClientCloses, Inductive, ReaderTypeOK, ReadAhead, FitsIsServed
    <2>3. ASSUME NEW n \in 1 .. avail, Read(n) PROVE Inductive'
      <3>0. queue # <<>> /\ queue \in Seq(Sizes) /\ avail \in Nat
        BY <2>0, <2>3 DEF ReaderTypeOK, Read
      <3>1. n \in Nat /\ queue # <<>> /\ Head(queue) \in Nat
        <4>1. Head(queue) \in Sizes
          BY <3>0, QueueParts
        <4>2. Head(queue) \in Nat
          BY <4>1, ZenonT(30)
        <4>3. n \in Nat
          BY <2>3, <3>0
        <4>. QED  BY <3>0, <4>2, <4>3
      <3>2. buffered < Head(queue)
        BY <2>0, <2>3, <3>1 DEF Read, Decoding, Complete, ReaderTypeOK
      <3>3. ReaderTypeOK'
        BY <2>0, <2>3, <3>1 DEF ReaderTypeOK, Read
      <3>4. ReadAhead'
        BY <2>0, <2>3, <3>1, <3>2 DEF ReaderTypeOK, ReadAhead, Read
      <3>5. FitsIsServed'
        BY <2>0, <2>3 DEF FitsIsServed, Read
      <3>. QED  BY <3>3, <3>4, <3>5 DEF Inductive
    <2>4. CASE Take
      <3>0. queue # <<>> /\ queue \in Seq(Sizes) /\ buffered >= Head(queue)
        BY <2>0, <2>4 DEF ReaderTypeOK, Take, Complete
      <3>1. /\ queue # <<>> /\ Head(queue) \in Nat \ {0} /\ Tail(queue) \in Seq(Sizes)
            /\ buffered >= Head(queue)
        <4>1. Head(queue) \in Sizes /\ Tail(queue) \in Seq(Sizes)
          BY <3>0, QueueParts
        <4>. QED  BY <3>0, <4>1, ZenonT(30)
      <3>2. ReaderTypeOK'
        BY <2>0, <2>4, <3>1 DEF ReaderTypeOK, Take
      <3>3. ReadAhead' /\ FitsIsServed'
        BY <2>0, <2>4, <3>1 DEF ReaderTypeOK, ReadAhead, FitsIsServed, Take
      <3>. QED  BY <3>2, <3>3 DEF Inductive
    <2>5. CASE TooLarge
      <3>0. read > 0 /\ queue # <<>> /\ queue \in Seq(Sizes)
        BY <2>0, <2>5 DEF ReaderTypeOK, ReadAhead, TooLarge
      <3>1. read > 0 /\ queue # <<>> /\ Head(queue) \in Nat
        <4>1. Head(queue) \in Sizes
          BY <3>0, QueueParts
        <4>. QED  BY <3>0, <4>1, ZenonT(30)
      <3>2. Head(queue) > Limit
        BY <2>0, <2>5, <3>1 DEF ReaderTypeOK, ReadAhead, TooLarge, Decoding, Complete
      <3>. QED
        BY <2>0, <2>5, <3>1, <3>2
           DEF TooLarge, Inductive, ReaderTypeOK, ReadAhead, FitsIsServed
    <2>6. CASE EndOfStream
      BY <2>0, <2>6 DEF EndOfStream, Inductive, ReaderTypeOK, ReadAhead, FitsIsServed
    <2>7. CASE UNCHANGED readerVars
      BY <2>0, <2>7 DEF readerVars, Inductive, ReaderTypeOK, ReadAhead, FitsIsServed
    <2>. QED  BY <2>1, <2>2, <2>3, <2>4, <2>5, <2>6, <2>7 DEF ReaderNext, Fetch
  <1>. QED  BY <1>1, <1>2, PTL DEF ReaderSpec

(* For every limit, no request within it is refused for its size.           *)
THEOREM FitsIsServedHolds == IntakeSpec => []FitsIsServed
  <1>1. Inductive => FitsIsServed
    BY DEF Inductive
  <1>. QED  BY <1>1, InductiveHolds, IntakeIsReader, PTL

(* For every limit, the decoder never holds twice the limit in bytes.       *)
THEOREM BufferBoundHolds == IntakeSpec => []BufferBound
  <1>1. Inductive => BufferBound
    BY LimitAssumption DEF Inductive, ReaderTypeOK, ReadAhead, BufferBound
  <1>. QED  BY <1>1, InductiveHolds, IntakeIsReader, PTL

=============================================================================
