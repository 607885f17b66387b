-------------------------- MODULE MCRequestPipeline --------------------------
(***************************************************************************)
(* Two connections share the pool: a request, a notification or a batch on *)
(* each.                                                                   *)
(***************************************************************************)
EXTENDS RequestPipeline

Request == [kind |-> "single", ids |-> <<TRUE>>]
Notification == [kind |-> "single", ids |-> <<FALSE>>]
SmallBatch == [kind |-> "batch", ids |-> <<TRUE, FALSE>>]

FewMessages == {Request, Notification, SmallBatch}

OneEach == [c \in Conns |-> 1]
=============================================================================
