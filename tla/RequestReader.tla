---------------------------- MODULE RequestReader ----------------------------
(***************************************************************************)
(* How a connection's bytes become requests: PerRequestLimitReader under a *)
(* json.Decoder in handleConn (internal/daemon/server.go).                 *)
(*                                                                         *)
(* The decoder reads ahead: one Read may bring in the end of this message  *)
(* and the beginning of the next, and what is left over stays buffered     *)
(* when the limit is reset.  Only sizes matter, so a message is its length *)
(* in bytes, and the buffers are byte counts.  The decoder stops at a      *)
(* message's last byte and skips white space only when it looks for the    *)
(* next one: what separates two messages counts towards the later one.     *)
(***************************************************************************)
EXTENDS Naturals, Sequences

CONSTANTS
    Limit,     \* s.requestLimit
    Sizes,     \* lengths of the messages clients send, each with what precedes it
    MaxQueue   \* bound: messages sent and not yet decoded

ASSUME LimitAssumption ==
    /\ Limit \in Nat \ {0}
    /\ Sizes \subseteq Nat \ {0}
    /\ MaxQueue \in Nat

VARIABLES
    queue,     \* messages sent and not yet decoded, the current one first
    avail,     \* bytes sent and not yet read from the socket
    buffered,  \* bytes in the decoder's buffer
    read,      \* pr.read
    client,    \* "open" or "closed": whether the client still sends
    verdict    \* how handleConn ended, "none" while it reads

readerVars == <<queue, avail, buffered, read, client, verdict>>

ReaderInit ==
    /\ queue = <<>>
    /\ avail = 0
    /\ buffered = 0
    /\ read = 0
    /\ client = "open"
    /\ verdict = "none"

(* The decoder has a whole message. *)
Complete == queue # <<>> /\ buffered >= Head(queue)

Decoding == verdict = "none" /\ ~Complete

(* The client sends a message, or closes the connection after `part` of it. *)
ClientSends(size, part) ==
    /\ client = "open"
    /\ Len(queue) < MaxQueue
    /\ part <= size
    /\ queue' = Append(queue, size)
    /\ avail' = avail + part
    /\ client' = IF part = size THEN "open" ELSE "closed"
    /\ UNCHANGED <<buffered, read, verdict>>

ClientCloses ==
    /\ client = "open"
    /\ client' = "closed"
    /\ UNCHANGED <<queue, avail, buffered, read, verdict>>

(* Mutant of Read: the slice is not cut to what the limit leaves. *)
ReadUncut(n) ==
    /\ Decoding
    /\ queue # <<>>
    /\ read < Limit
    /\ n <= avail
    /\ avail' = avail - n
    /\ buffered' = buffered + n
    /\ read' = read + n
    /\ UNCHANGED <<queue, client, verdict>>

(* Mutant of Read: a request that fills its allowance exactly is refused    *)
(* by the last byte.                                                        *)
ReadStopsShort(n) ==
    /\ Decoding
    /\ queue # <<>>
    /\ read < Limit
    /\ n <= avail
    /\ n <= Limit - read
    /\ avail' = avail - n
    /\ buffered' = buffered + n
    /\ read' = IF read + n = Limit - 1 THEN Limit ELSE read + n
    /\ UNCHANGED <<queue, client, verdict>>

(* PerRequestLimitReader.Read brings n bytes, cut to what the limit leaves. *)
(* Bytes can only be there when some message was begun.                     *)
Read(n) ==
    /\ Decoding
    /\ queue # <<>>
    /\ read < Limit
    /\ n <= avail
    /\ n <= Limit - read
    /\ avail' = avail - n
    /\ buffered' = buffered + n
    /\ read' = read + n
    /\ UNCHANGED <<queue, client, verdict>>

(* Decode returns the message and handleConn comes round to Reset. *)
Take ==
    /\ verdict = "none"
    /\ Complete
    /\ queue' = Tail(queue)
    /\ buffered' = buffered - Head(queue)
    /\ read' = 0
    /\ UNCHANGED <<avail, client, verdict>>

(* Read fails because the limit is used up: handleConn reports "Parse error *)
(* or request too large" and returns.                                       *)
TooLarge ==
    /\ Decoding
    /\ read >= Limit
    /\ verdict' = "toolarge"
    /\ UNCHANGED <<queue, avail, buffered, read, client>>

(* The stream ends: silently between two messages, with an error within one. *)
EndOfStream ==
    /\ Decoding
    /\ read < Limit
    /\ client = "closed"
    /\ avail = 0
    /\ verdict' = IF buffered = 0 THEN "eof" ELSE "truncated"
    /\ UNCHANGED <<queue, avail, buffered, read, client>>

(* Every step but Take, which also asks the rate limiter. *)
Fetch ==
    \/ \E size \in Sizes : \E part \in 0 .. size : ClientSends(size, part)
    \/ ClientCloses
    \/ \E n \in 1 .. avail : Read(n)
    \/ TooLarge
    \/ EndOfStream

ReaderNext == Fetch \/ Take

ReaderSpec == ReaderInit /\ [][ReaderNext]_readerVars

-----------------------------------------------------------------------------
ReaderTypeOK ==
    /\ queue \in Seq(Sizes)
    /\ avail \in Nat
    /\ buffered \in Nat
    /\ read \in 0 .. Limit
    /\ client \in {"open", "closed"}
    /\ verdict \in {"none", "toolarge", "eof", "truncated"}

(* A request within the limit, the white space before it included, is never *)
(* refused for its size, however its bytes were cut into reads and whatever *)
(* was read ahead of it (server.go:301-312 with the Reset at 327).          *)
FitsIsServed == verdict = "toolarge" => queue # <<>> /\ Head(queue) > Limit

(* The memory a connection can make the decoder hold stays below twice the  *)
(* limit: what was read ahead plus one allowance (server.go:301-316).       *)
BufferBound == buffered < 2 * Limit

(* No request longer than the limit is decoded, as README.md:50 has it:     *)
(* "Max JSON-RPC request size in bytes".                                    *)
MaxRequestSize == Complete => Head(queue) <= Limit

-----------------------------------------------------------------------------
(* What was read ahead is less than one allowance: bytes beyond what this   *)
(* decode has read, and bytes beyond the current message once it has read.  *)
ReadAhead ==
    /\ read <= buffered
    /\ buffered < read + Limit
    /\ read > 0 => queue # <<>> /\ buffered < Head(queue) + Limit

Inductive == ReaderTypeOK /\ ReadAhead /\ FitsIsServed

=============================================================================
