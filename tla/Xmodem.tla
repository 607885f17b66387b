------------------------------- MODULE Xmodem --------------------------------
(***************************************************************************)
(* rx receives a file by XMODEM (rx.go) from a sender, which is external,  *)
(* over a line that loses or damages what either of them says.             *)
(*                                                                         *)
(* A frame is lost whole or not at all, except that the sender may hang up *)
(* in the middle of one.  Damage changes one byte of a frame behind its    *)
(* SOH, or an EOT.  The CRC finds any damage to the data.                  *)
(***************************************************************************)
EXTENDS Integers, Sequences

CONSTANTS
    Transfers,    \* what is sent: [bytes, json], json being rx's flag
    blockSize,    \* bytes of data in a frame, 128
    ByteRange,    \* values of a byte in the header of a frame, 256
    maxRetries,   \* attempts at the handshake, 10
    MaxFaults,    \* bound on losses, damage and resending too early
    MaxQueued     \* bound on what is on its way in one direction

ASSUME XmodemAssumption ==
    /\ \A t \in Transfers : t \in [bytes : Seq(Nat), json : BOOLEAN]
    /\ blockSize \in Nat \ {0} /\ ByteRange \in Nat \ {0, 1}
    /\ maxRetries \in Nat /\ MaxFaults \in Nat /\ MaxQueued \in Nat

VARIABLES
    transfer,       \* the transfer
    sender,         \* what the sender is at: waiting, sending or gone
    block,          \* the place of the item that it sends
    line,           \* frames on their way to rx
    answers,        \* bytes on their way to the sender
    rx,             \* what rx is at
    attempt,        \* of the handshake
    blockExpected,  \* the number of the block that rx expects
    fileBuf,        \* the bytes that it has taken
    eot,            \* the item that it read last was EOT
    received,       \* what rx has written, or NoBytes
    rxStatus,       \* its exit status, or -1
    faults,         \* how many faults there were
    misled          \* history: a number was damaged, or sent again while an answer was due

senderVars == <<sender, block>>
rxVars == <<rx, attempt, blockExpected, fileBuf, eot>>
xmodemVars == <<transfer, senderVars, line, answers, rxVars, received, rxStatus, faults, misled>>

Padding == 26          \* 0x1A
NoBytes == <<-1>>      \* no file is there

-----------------------------------------------------------------------------
(* The sender. *)

Blocks == (Len(transfer.bytes) + blockSize - 1) \div blockSize

(* Byte i of what is sent: behind the last byte of the file comes padding. *)
ByteAt(i) == IF i <= Len(transfer.bytes) THEN transfer.bytes[i] ELSE Padding
BlockData(n) == [i \in 1 .. blockSize |-> ByteAt((n - 1) * blockSize + i)]

(* An item on the line.  Its place in the transfer is history: no byte of   *)
(* the item carries more of it than the number.                             *)
Byte(tag, n) == [tag |-> tag, num |-> 0, comp |-> 0, data |-> <<>>, crc |-> TRUE, place |-> n]
Frame(n) == [tag |-> "SOH", num |-> n % ByteRange, comp |-> ByteRange - 1 - (n % ByteRange),
             data |-> BlockData(n), crc |-> TRUE, place |-> n]

(* What it sends as its nth item: a block, or EOT behind the last. *)
ItemAt(n) == IF n <= Blocks THEN Frame(n) ELSE Byte("EOT", n)

Put(item) == line' = Append(line, item)

XmodemStart(t, spc, pc) ==
    /\ transfer = t
    /\ sender = spc /\ block = 1
    /\ line = <<>> /\ answers = <<>>
    /\ rx = pc /\ attempt = 0 /\ blockExpected = 1 /\ fileBuf = <<>> /\ eot = FALSE
    /\ received = NoBytes /\ rxStatus = -1
    /\ faults = 0 /\ misled = FALSE

(* An answer arrives.  ACK asks for the next item, NAK for the same, C for  *)
(* the first; after the ACK of EOT the sender is through.                   *)
HearAnswer ==
    /\ sender # "gone" /\ answers # <<>>
    /\ answers' = Tail(answers)
    /\ LET answer == Head(answers)
           n == IF answer = "ACK" THEN block + 1 ELSE block
       IN  \/ /\ \/ sender = "waiting" /\ answer = "C"
                 \/ sender = "sending" /\ answer \in {"ACK", "NAK"} /\ n <= Blocks + 1
              /\ sender' = "sending" /\ block' = n
              /\ Put(ItemAt(n))
           \/ /\ sender = "sending" /\ answer = "ACK" /\ n = Blocks + 2
              /\ sender' = "gone"
              /\ UNCHANGED <<block, line>>
           \/ /\ IF sender = "waiting" THEN answer # "C" ELSE answer = "C"
              /\ UNCHANGED <<senderVars, line>>
    /\ UNCHANGED <<transfer, rxVars, received, rxStatus, faults, misled>>

(* The sender waits no longer and sends the item again: because something   *)
(* was lost, or too early.                                                  *)
Resend ==
    /\ sender = "sending" /\ Len(line) < MaxQueued
    /\ LET early == line # <<>> \/ answers # <<>> \/ rx = "ask"
       IN  /\ early => faults < MaxFaults
           /\ faults' = IF early THEN faults + 1 ELSE faults
           /\ misled' = (misled \/ early)
    /\ Put(ItemAt(block))
    /\ UNCHANGED <<transfer, senderVars, answers, rxVars, received, rxStatus>>

(* The sender cancels, or is gone, perhaps in the middle of a frame. *)
GiveUp ==
    /\ sender # "gone" /\ faults < MaxFaults
    /\ sender' = "gone"
    /\ faults' = faults + 1
    /\ \/ Put(Byte("CAN", block))
       \/ sender = "sending" /\ Put(Byte("cut", block))
       \/ UNCHANGED line
    /\ UNCHANGED <<transfer, block, answers, rxVars, received, rxStatus, misled>>

-----------------------------------------------------------------------------
(* The line. *)

Lose ==
    /\ faults < MaxFaults
    /\ faults' = faults + 1
    /\ \/ line # <<>> /\ line' = Tail(line) /\ UNCHANGED answers
       \/ answers # <<>> /\ answers' = Tail(answers) /\ UNCHANGED line
    /\ UNCHANGED <<transfer, senderVars, rxVars, received, rxStatus, misled>>

(* A frame with another header or with damaged data. *)
Garbled(item, num, comp, crc) ==
    [tag |-> "SOH", num |-> num, comp |-> comp, data |-> item.data, crc |-> crc, place |-> item.place]

(* The header of a frame names its number twice. *)
Sound(item) == item.num + item.comp = ByteRange - 1

(* What one damaged byte makes of an item; one of a header at most. *)
DamagedForms(item) ==
    IF item.tag = "EOT" THEN {Byte("other", item.place)}
    ELSE IF item.tag # "SOH" THEN {}
    ELSE {Garbled(item, item.num, item.comp, FALSE)}
         \cup {Garbled(item, v, item.comp, item.crc) : v \in {w \in 0 .. ByteRange - 1 : Sound(item)}}
         \cup {Garbled(item, item.num, v, item.crc) : v \in {w \in 0 .. ByteRange - 1 : Sound(item)}}

Damage ==
    /\ faults < MaxFaults /\ line # <<>>
    /\ faults' = faults + 1
    /\ \E form \in DamagedForms(Head(line)) :
          /\ line' = [line EXCEPT ![1] = form]
          /\ misled' = (misled \/ form.num # Head(line).num \/ form.comp # Head(line).comp)
    /\ UNCHANGED <<transfer, senderVars, answers, rxVars, received, rxStatus>>

-----------------------------------------------------------------------------
(* The receiver.  Its answers are written to standard output, which carries *)
(* only the result if that is to be JSON.                                   *)

Say(said) == answers' = IF transfer.json THEN answers ELSE answers \o said

(* A loop of the handshake begins: C is written, or there were enough. *)
Ask ==
    /\ rx = "ask"
    /\ \/ attempt < maxRetries /\ rx' = "handshake" /\ Say(<<"C">>) /\ UNCHANGED rxStatus
       \/ attempt >= maxRetries /\ rx' = "ended" /\ rxStatus' = 1 /\ UNCHANGED answers
    /\ UNCHANGED <<transfer, senderVars, line, attempt, blockExpected, fileBuf, eot, received,
                   faults, misled>>

(* What rx does about an item: it goes on somewhere, tries the handshake    *)
(* again, or takes the block.                                               *)
Goes(to, said) == rx' = to /\ Say(said) /\ UNCHANGED <<attempt, blockExpected, fileBuf>>
Again(said) == rx' = "ask" /\ attempt' = attempt + 1 /\ Say(said) /\ UNCHANGED <<blockExpected, fileBuf>>
Take(item) ==
    /\ rx' = "recvLoop"
    /\ fileBuf' = fileBuf \o item.data
    /\ blockExpected' = (blockExpected + 1) % ByteRange
    /\ Say(<<"ACK">>)
    /\ UNCHANGED attempt

(* The next item, or the end of input, in the handshake ... *)
Handshake(item) ==
    \/ /\ item.tag = "SOH"
       /\ LET first == item.num = 1 /\ item.comp = ByteRange - 2
          IN  \/ ~first /\ Goes("failed", <<>>)
              \/ first /\ ~item.crc /\ Again(<<"NAK">>)
              \/ first /\ item.crc /\ Take(item)
    \/ item.tag = "EOT" /\ Goes("done", <<"ACK">>)
    \/ item.tag \in {"CAN", "cut"} /\ Goes("failed", <<>>)
    \/ item.tag \in {"other", "EOF"} /\ Again(<<>>)

(* Whether the item is the block that is expected, or the one before. *)
Expected(item) == item.num = blockExpected
Repeated(item) == item.num = (blockExpected - 1) % ByteRange

(* Mutant of RecvLoop: a block that comes again is taken again. *)
RecvLoopTakesTwice(item) ==
    \/ /\ item.tag = "SOH"
       /\ \/ ~Expected(item) /\ ~Repeated(item) /\ Goes("done", <<>>)
          \/ (Expected(item) \/ Repeated(item)) /\ ~Sound(item) /\ Goes("done", <<>>)
          \/ (Expected(item) \/ Repeated(item)) /\ Sound(item) /\ ~item.crc /\ Goes("recvLoop", <<"NAK">>)
          \/ (Expected(item) \/ Repeated(item)) /\ Sound(item) /\ item.crc /\ Take(item)
    \/ item.tag = "EOT" /\ Goes("done", <<"ACK">>)
    \/ item.tag = "CAN" /\ Goes("failed", <<>>)
    \/ item.tag \in {"cut", "EOF"} /\ Goes("done", <<>>)
    \/ item.tag = "other" /\ Goes("recvLoop", <<>>)

(* ... and in the loop behind it. *)
RecvLoop(item) ==
    \/ /\ item.tag = "SOH"
       /\ \/ ~Expected(item) /\ Repeated(item) /\ Goes("recvLoop", <<"ACK">>)
          \/ ~Expected(item) /\ ~Repeated(item) /\ Goes("done", <<>>)
          \/ Expected(item) /\ ~Sound(item) /\ Goes("done", <<>>)
          \/ Expected(item) /\ Sound(item) /\ ~item.crc /\ Goes("recvLoop", <<"NAK">>)
          \/ Expected(item) /\ Sound(item) /\ item.crc /\ Take(item)
    \/ item.tag = "EOT" /\ Goes("done", <<"ACK">>)
    \/ item.tag = "CAN" /\ Goes("failed", <<>>)
    \/ item.tag \in {"cut", "EOF"} /\ Goes("done", <<>>)
    \/ item.tag = "other" /\ Goes("recvLoop", <<>>)

Receive ==
    /\ rx \in {"handshake", "recvLoop"}
    /\ line # <<>> \/ sender = "gone"
    /\ Len(answers) < MaxQueued
    /\ LET item == IF line # <<>> THEN Head(line) ELSE Byte("EOF", block)
       IN  /\ IF rx = "handshake" THEN Handshake(item) ELSE RecvLoop(item)
           /\ eot' = (item.tag = "EOT")
    /\ line' = IF line = <<>> THEN line ELSE Tail(line)
    /\ UNCHANGED <<transfer, senderVars, received, rxStatus, faults, misled>>

(* The buffer without the padding at its end: the bytes with one that is    *)
(* no padding at their place or behind it.                                  *)
Strip(s) == [i \in {i \in DOMAIN s : \E j \in i .. Len(s) : s[j] # Padding} |-> s[i]]

(* The file is written, unless that fails, perhaps halfway ... *)
Finish ==
    /\ rx = "done"
    /\ rx' = "ended"
    /\ \/ received' = Strip(fileBuf) /\ rxStatus' = 0
       \/ /\ received' \in {NoBytes} \union {SubSeq(Strip(fileBuf), 1, n) : n \in 0 .. Len(Strip(fileBuf))}
          /\ rxStatus' = 1
    /\ UNCHANGED <<transfer, senderVars, line, answers, attempt, blockExpected, fileBuf, eot,
                   faults, misled>>

(* ... or there was an error before. *)
Fail ==
    /\ rx = "failed"
    /\ rx' = "ended"
    /\ rxStatus' = 1
    /\ UNCHANGED <<transfer, senderVars, line, answers, attempt, blockExpected, fileBuf, eot,
                   received, faults, misled>>

XmodemInit == \E t \in Transfers : XmodemStart(t, "waiting", "ask")

XmodemNext == HearAnswer \/ Resend \/ GiveUp \/ Lose \/ Damage \/ Ask \/ Receive \/ Finish \/ Fail

XmodemSpec == XmodemInit /\ [][XmodemNext]_xmodemVars

-----------------------------------------------------------------------------
(* The first n blocks of what is sent. *)
Sent(n) == [i \in 1 .. n * blockSize |-> ByteAt(i)]

(* What the blocks hold without the padding. *)
First(n) == Strip(Sent(n))

(* Block numbers come round again: what misleads rx or the sender can be    *)
(* told from progress only while there were fewer faults than that takes.   *)
Tellable == ~misled \/ faults + 1 < ByteRange

(* Whatever is lost, damaged or sent twice, what rx writes is no more than  *)
(* some first blocks of what was sent without the padding, and just those   *)
(* if it reports success.  If the sender's end came through then it reports *)
(* success only for all of it, provided that no block number was damaged    *)
(* and the sender resent only what was lost (rx.go:61-149).                 *)
TransfersAreRight ==
    Tellable =>
        /\ received # NoBytes =>
              \E n \in 0 .. Blocks :
                 IF rxStatus = 0 THEN received = First(n)
                 ELSE \E k \in 0 .. Len(First(n)) : received = SubSeq(First(n), 1, k)
        /\ rxStatus = 0 => received # NoBytes
        /\ rxStatus = 0 /\ eot /\ ~misled => received = Strip(transfer.bytes)

=============================================================================
