------------------------------- MODULE Server -------------------------------
(***************************************************************************)
(* The whole daemon process: ConnLifecycle and RequestPipeline composed.   *)
(*                                                                         *)
(* They share the socket of each connection and meet in two steps: the     *)
(* accept loop's go statement starts a handler, and a handler that returns *)
(* closes its connection and goes on to its deferred clean-up.  Everything *)
(* else each does alone, on its own variables and the shared socket.       *)
(*                                                                         *)
(* When Stop returns, RunDaemon returns and the process exits: nothing     *)
(* moves any more, and what was running is lost.                           *)
(***************************************************************************)
EXTENDS Integers, Sequences

CONSTANTS Conns, MaxConns, Workers, Messages, MaxSend, OutCap

VARIABLES
    link, hungUp,                                       \* shared
    acceptPC, incoming, connSem, connWG, conns, hpc,    \* ConnLifecycle
    shuttingDown, stopPC, waiter, atStop,
    sent, inbox, outbox, pc, msg, nextReq, results,     \* RequestPipeline
    pending, reply, history, replies, jobs,
    swept    \* history: the connections the sweep of Stop closed

(* The handlers that wait for a slot of the pool or for their workers. *)
Waiting == {c \in Conns : pc[c] \in {"submit", "wait"}}

L == INSTANCE ConnLifecycle WITH busy <- Waiting
P == INSTANCE RequestPipeline

ASSUME ServerAssumption == L!LifecycleAssumption /\ P!PipelineAssumption

lifecycleVars == <<acceptPC, incoming, connSem, connWG, conns, hpc,
                   shuttingDown, stopPC, waiter, atStop, swept>>
pipelineVars == <<sent, inbox, outbox, pc, msg, nextReq, results, pending,
                  reply, history, replies, jobs>>
vars == <<link, hungUp, lifecycleVars, pipelineVars>>

Init == P!Init /\ L!Init /\ swept = {}

(* Steps of the accept loop, of Stop and of clean-up. *)
LifecycleStep ==
    /\ UNCHANGED <<pipelineVars, swept>>
    /\ \/ L!AcceptFails \/ L!AcquireConnSem \/ L!AddConnWG
       \/ L!StopBegins \/ L!StopClosesListener \/ L!StopStartsWaiter
       \/ L!WaiterWaits \/ L!StopDrained \/ L!StopTimesOut \/ L!StopJoins
       \/ L!StopReturns
       \/ \E c \in Conns : L!Connect(c) \/ L!HangUp(c) \/ L!Accept(c) \/ L!TearDown(c)

(* Mutant of Sweep: the sweep also takes the connections out of the map. *)
SweepAlsoUntracks ==
    /\ stopPC = "sweep"
    /\ link' = [c \in Conns |-> IF c \in conns THEN "closed" ELSE link[c]]
    /\ stopPC' = "join"
    /\ swept' = conns
    /\ conns' = {}
    /\ UNCHANGED <<hungUp, acceptPC, incoming, connSem, connWG, hpc,
                   shuttingDown, waiter, atStop, pipelineVars>>

(* The drain timeout has passed: the tracked connections are closed. *)
Sweep ==
    /\ UNCHANGED pipelineVars
    /\ L!StopSweeps
    /\ swept' = conns

(* go func(c net.Conn) { ... s.handleConn(c) }(conn). *)
Spawn(c) ==
    /\ P!Start(c)
    /\ L!Track(c)
    /\ UNCHANGED swept

(* s.handleConn(c) returns into the deferred functions. *)
HandlerReturns(c) ==
    /\ P!Return(c)
    /\ L!HandlerReturns(c)
    /\ UNCHANGED swept

(* Steps of handlers, workers and clients on messages. *)
PipelineStep ==
    /\ \/ \E c \in Conns :
            \/ \E m \in Messages : P!Send(c, m)
            \/ P!Receive(c) \/ P!Handler(c) \/ P!Submit(c)
       \/ \E j \in jobs : P!Worker(j)
    /\ UNCHANGED lifecycleVars

Next ==
    /\ stopPC # "returned"
    /\ \/ LifecycleStep
       \/ Sweep
       \/ PipelineStep
       \/ \E c \in Conns : Spawn(c) \/ HandlerReturns(c)

Spec == Init /\ [][Next]_vars

-----------------------------------------------------------------------------
(* The daemon behaves as ConnLifecycle says: serving messages changes      *)
(* nothing about how connections come and go.                              *)
ImplementsLifecycle == L!Spec

(* Replies stay one per message and in order on every connection, with     *)
(* connections coming and going and the daemon stopping.                   *)
AnsweredInOrder == P!AnsweredInOrder

(* The daemon never exits while it is executing a request, or writing the  *)
(* response, of a connection that was tracked when Stop was called: the    *)
(* handler waits for its worker even when the sweep closed the connection. *)
NoRequestIsCutShort ==
    stopPC = "returned" =>
        \A j \in jobs : j.conn \in atStop => j.at = "release"

(* A connection the sweep did not close and the client did not leave has   *)
(* an answer to every message taken from it when the server closes it.     *)
AnsweredBeforeClose ==
    \A c \in Conns :
        hpc[c] \notin {"none", "serving"} /\ ~hungUp[c] /\ c \notin swept
            => \A n \in P!Owed(c) : P!Answered(c, n)
=============================================================================
