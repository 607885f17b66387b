------------------------------ MODULE MCServer ------------------------------
(***************************************************************************)
(* A client that sends up to two messages of any kind, reads and leaves    *)
(* when it likes, while the daemon is stopped at any moment.               *)
(***************************************************************************)
EXTENDS Server

Request == [kind |-> "single", ids |-> <<TRUE>>]
Notification == [kind |-> "single", ids |-> <<FALSE>>]
MixedBatch == [kind |-> "batch", ids |-> <<TRUE, FALSE, TRUE>>]
SilentBatch == [kind |-> "batch", ids |-> <<FALSE, FALSE>>]
Invalid == [kind |-> "invalid", ids |-> <<>>]
Malformed == [kind |-> "malformed", ids |-> <<>>]

AllMessages == {Request, Notification, MixedBatch, SilentBatch, Invalid, Malformed}

TwoEach == [c \in Conns |-> 2]
=============================================================================
