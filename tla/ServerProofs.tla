----------------------------- MODULE ServerProofs -----------------------------
(***************************************************************************)
(* Proofs about the daemon as a whole, for any connections, messages and   *)
(* capacities.  The daemon implements the connection lifecycle, so the     *)
(* lifecycle's inductive invariant holds of it; the pipeline's is shown    *)
(* again for the daemon's steps, because there connections start, close    *)
(* and are swept while messages are served.  What ties the two together is *)
(* the invariant Joint.                                                    *)
(***************************************************************************)
EXTENDS Server, TLAPS

LP == INSTANCE ConnLifecycleProofs WITH busy <- Waiting
PP == INSTANCE RequestPipelineProofs

USE ZenonT(30)

(* The constants are as both parts assume. *)
LEMMA LifecycleConstants == LP!LifecycleAssumption
  BY ServerAssumption
     DEF L!LifecycleAssumption, LP!LifecycleAssumption, L!IsFiniteSet, LP!IsFiniteSet

(* And the pipeline assumes no more of them. *)
LEMMA PipelineConstants == PP!PipelineAssumption
  BY ServerAssumption
     DEF P!PipelineAssumption, PP!PipelineAssumption, P!MessageKind, PP!MessageKind

-----------------------------------------------------------------------------
(* The actions of the pipeline, under the names of its proof module. *)
LEMMA SameHandler == ASSUME NEW c \in Conns, P!Handler(c) \/ P!Submit(c)
                     PROVE  PP!Handler(c) \/ PP!Submit(c)
  <1>. USE DEF P!clientVars, PP!clientVars, P!handlerVars, PP!handlerVars
  <1>1. \A fate \in P!Fates : P!Decode(c, fate) => PP!Handler(c)
    BY DEF PP!Handler, P!Decode, PP!Decode, P!Fates, PP!Fates, P!MessageKind, PP!MessageKind
  <1>2. P!DecodeEOF(c) \/ P!DecodeClosed(c) => PP!Handler(c)
    BY DEF PP!Handler, P!DecodeEOF, PP!DecodeEOF, P!DecodeClosed, PP!DecodeClosed
  <1>3. P!HandlerWrites(c) => PP!Handler(c)
    BY DEF PP!Handler, P!HandlerWrites, PP!HandlerWrites, P!Write, PP!Write
  <1>4. P!HandlerResumes(c) => PP!HandlerResumes(c)
    <2>1. P!Indices(msg[c].ids, results[c]) = PP!Indices(msg[c].ids, results[c])
      BY DEF P!Indices, PP!Indices
    <2>. QED  BY <2>1, Zenon DEF P!HandlerResumes, PP!HandlerResumes
  <1>5. P!Submit(c) => PP!Submit(c)
    <2>1. P!Cardinality(jobs) = PP!Cardinality(jobs)
      BY DEF P!Cardinality, PP!Cardinality
    <2>. QED  BY <2>1 DEF P!Submit, PP!Submit
  <1>. QED  BY <1>1, <1>2, <1>3, <1>4, <1>5 DEF P!Handler, PP!Handler

(* The workers are the pipeline's. *)
LEMMA SameWorker == ASSUME NEW j \in jobs, P!Worker(j)
                    PROVE  PP!Worker(j)
  BY DEF P!Worker, PP!Worker, P!Process, PP!Process, P!WorkerWrites, PP!WorkerWrites,
         P!Release, PP!Release, P!Signal, PP!Signal, P!Moves, PP!Moves, P!Write, PP!Write,
         P!clientVars, PP!clientVars, P!handlerVars, PP!handlerVars

(* The clients are the pipeline's, but for hanging up. *)
LEMMA SameClient == ASSUME NEW c \in Conns,
                           P!Receive(c) \/ \E m \in Messages : P!Send(c, m)
                    PROVE  PP!Client(c)
  BY DEF PP!Client, P!Send, PP!Send, P!Receive, PP!Receive, P!clientVars, PP!clientVars,
         P!handlerVars, PP!handlerVars

(* Handlers start and return as the pipeline's do. *)
LEMMA SameStart == ASSUME NEW c \in Conns
                   PROVE  (P!Start(c) => PP!Start(c)) /\ (P!Return(c) => PP!Return(c))
  BY DEF P!Start, PP!Start, P!Return, PP!Return, P!clientVars, PP!clientVars,
         P!handlerVars, PP!handlerVars

-----------------------------------------------------------------------------
(* What ties the two parts together.  A connection has a handler in one    *)
(* when it has one in the other.  Only the sweep closes a connection under *)
(* its handler, and it comes once.  What a handler that was left alone     *)
(* took from its connection is answered when it is gone.                   *)
Joint ==
    /\ \A c \in Conns :
        /\ hpc[c] = "none" <=> pc[c] = "idle"
        /\ hpc[c] = "serving" <=> pc[c] \notin {"idle", "ended"}
        /\ hpc[c] = "serving" /\ c \notin swept => link[c] = "open"
        /\ pc[c] = "ended" /\ ~hungUp[c] /\ c \notin swept
             => \A n \in PP!Owed(c) : PP!Answered(c, n)
    /\ stopPC \notin {"join", "remove", "returned"} => swept = {}

IInv == LP!IInv /\ PP!IInv /\ Joint

(* Initially there are no connections and no requests. *)
LEMMA InitIInv == Init => IInv
  <1>1. Init => LP!Init
    BY DEF Init, L!Init, LP!Init
  <1>2. Init => PP!Init
    BY DEF Init, P!Init, PP!Init, P!NoMessage, PP!NoMessage, P!NoReply, PP!NoReply
  <1>3. Init => Joint
    BY DEF Init, L!Init, P!Init, Joint
  <1>. QED  BY <1>1, <1>2, <1>3, LifecycleConstants, LP!InitIInv, PipelineConstants,
               PP!InitIInv
            DEF IInv

(* Serving messages leaves the sockets and the server's own state alone. *)
LEMMA PipelineLeaves == PipelineStep => UNCHANGED <<link, hungUp, lifecycleVars>>
  <1>. SUFFICES ASSUME PipelineStep PROVE UNCHANGED <<link, hungUp, lifecycleVars>>
    OBVIOUS
  <1>. UNCHANGED <<link, hungUp>>
    BY DEF PipelineStep, P!Send, P!Receive, P!Handler, P!Submit, P!Worker, P!Decode,
       P!DecodeEOF, P!DecodeClosed, P!HandlerWrites, P!HandlerResumes, P!Process,
       P!WorkerWrites, P!Release, P!Write, P!clientVars
  <1>. QED  BY DEF PipelineStep

(* A handler that takes up a message begins to wait, one whose workers are *)
(* done ends it, and nothing else that serves messages does either.        *)
LEMMA WaitingStep ==
    ASSUME IInv, PipelineStep
    PROVE  \/ Waiting' = Waiting
           \/ \E c \in Conns : /\ hpc[c] = "serving" /\ c \notin Waiting
                               /\ Waiting' = Waiting \union {c}
           \/ \E c \in Waiting : Waiting' = Waiting \ {c}
  <1>. DEFINE Goal ==
            \/ Waiting' = Waiting
            \/ \E c \in Conns : /\ hpc[c] = "serving" /\ c \notin Waiting
                                /\ Waiting' = Waiting \union {c}
            \/ \E c \in Waiting : Waiting' = Waiting \ {c}
  <1>. /\ pc \in [Conns -> PP!Place]
       /\ \A c \in Conns : pc[c] \notin {"idle", "ended"} => hpc[c] = "serving"
    BY DEF IInv, Joint, PP!IInv, PP!TypeOK
  <1>1. CASE UNCHANGED pc
    BY <1>1 DEF Waiting
  <1>2. ASSUME NEW c \in Conns, NEW fate, P!Decode(c, fate) PROVE Goal
    <2>1. pc[c] = "decode" /\ hpc[c] = "serving" /\ c \notin Waiting
      BY <1>2 DEF P!Decode, Waiting
    <2>2. \/ pc' = [pc EXCEPT ![c] = "submit"] \/ pc' = [pc EXCEPT ![c] = "write"]
      BY <1>2 DEF P!Decode
    <2>3. CASE pc' = [pc EXCEPT ![c] = "submit"]
      BY <2>1, <2>3 DEF Waiting
    <2>4. CASE pc' = [pc EXCEPT ![c] = "write"]
      <3>1. Waiting' = Waiting
        BY <2>1, <2>4 DEF Waiting
      <3>. QED  BY <3>1
    <2>. QED  BY <2>2, <2>3, <2>4
  <1>3. ASSUME NEW c \in Conns, P!DecodeEOF(c) \/ P!DecodeClosed(c) \/ P!HandlerWrites(c)
        PROVE Goal
    <2>1. /\ pc[c] \in {"decode", "write"}
          /\ \E p \in {"return", "decode"} : pc' = [pc EXCEPT ![c] = p]
      BY <1>3 DEF P!DecodeEOF, P!DecodeClosed, P!HandlerWrites
    <2>2. Waiting' = Waiting
      BY <2>1 DEF Waiting
    <2>. QED  BY <2>2
  <1>4. ASSUME NEW c \in Conns, P!HandlerResumes(c) PROVE Goal
    <2>1. /\ pc[c] = "wait"
          /\ pc' = [pc EXCEPT ![c] = "write"] \/ pc' = [pc EXCEPT ![c] = "decode"]
      BY <1>4, Zenon DEF P!HandlerResumes
    <2>2. c \in Waiting /\ Waiting' = Waiting \ {c}
      BY <2>1 DEF Waiting
    <2>. QED  BY <2>2
  <1>5. ASSUME NEW c \in Conns, P!Submit(c) PROVE Goal
    <2>1. /\ pc[c] = "submit"
          /\ \E p \in {"wait", "submit"} : pc' = [pc EXCEPT ![c] = p]
      BY <1>5 DEF P!Submit
    <2>2. Waiting' = Waiting
      BY <2>1 DEF Waiting
    <2>. QED  BY <2>2
  <1>6. ASSUME NEW c \in Conns, P!Receive(c) \/ \E m \in Messages : P!Send(c, m)
        PROVE UNCHANGED pc
    BY <1>6 DEF P!Receive, P!Send, P!handlerVars
  <1>7. ASSUME NEW j \in jobs, P!Worker(j) PROVE UNCHANGED pc
    BY <1>7 DEF P!Worker, P!Process, P!WorkerWrites, P!Release, P!handlerVars
  <1>. QED  BY <1>1, <1>2, <1>3, <1>4, <1>5, <1>6, <1>7 DEF PipelineStep, P!Handler

(* Every step of the daemon is a step of the connection lifecycle, or     *)
(* leaves it alone.                                                       *)
LEMMA StepRefines == IInv /\ [Next]_vars => [L!Next]_(L!vars)
  <1>. SUFFICES ASSUME IInv, [Next]_vars PROVE [L!Next]_(L!vars)
    OBVIOUS
  <1>1. LifecycleStep => L!Next
    BY DEF LifecycleStep, L!Next, L!AcceptLoop, L!Stop
  <1>2. Sweep => L!Next
    BY DEF Sweep, L!Next, L!Stop
  <1>3. \A c \in Conns : Spawn(c) \/ HandlerReturns(c) => L!Next
    BY DEF Spawn, HandlerReturns, L!Next, L!AcceptLoop
  <1>4. UNCHANGED vars => UNCHANGED L!vars
    BY DEF vars, lifecycleVars, pipelineVars, L!vars, Waiting
  <1>5. ASSUME PipelineStep PROVE [L!Next]_(L!vars)
    <2>1. UNCHANGED <<link, hungUp, L!acceptVars, connSem, connWG, conns, hpc, L!stopVars>>
      BY <1>5, PipelineLeaves DEF lifecycleVars, L!acceptVars, L!stopVars
    <2>2. CASE Waiting' = Waiting
      BY <2>1, <2>2 DEF L!vars, L!acceptVars, L!stopVars
    <2>3. CASE \E c \in Conns : /\ hpc[c] = "serving" /\ c \notin Waiting
                                /\ Waiting' = Waiting \union {c}
      <3>1. \E c \in Conns : L!TakesUp(c)
        BY <2>1, <2>3 DEF L!TakesUp
      <3>. QED  BY <3>1 DEF L!Next
    <2>4. CASE \E c \in Waiting : Waiting' = Waiting \ {c}
      <3>1. \E c \in Conns : L!GetsDone(c)
        <4>1. Waiting \subseteq Conns
          BY DEF Waiting
        <4>. QED  BY <2>1, <2>4, <4>1 DEF L!GetsDone
      <3>. QED  BY <3>1 DEF L!Next
    <2>. QED  BY <1>5, <2>2, <2>3, <2>4, WaitingStep
  <1>. QED  BY <1>1, <1>2, <1>3, <1>4, <1>5 DEF Next

(* So the lifecycle's invariant is kept. *)
LEMMA LifecycleKept == IInv /\ [Next]_vars => LP!IInv'
  <1>1. [L!Next]_(L!vars) => [LP!Next]_(LP!vars)
    BY DEF
       L!vars, LP!vars, L!acceptVars, LP!acceptVars, L!stopVars, LP!stopVars,
       L!ListenerOpen, LP!ListenerOpen, L!Next, LP!Next, L!AcceptLoop,
       LP!AcceptLoop, L!Stop, LP!Stop, L!TearDown, LP!TearDown, L!Connect,
       LP!Connect, L!HangUp, LP!HangUp, L!Accept, LP!Accept, L!AcceptFails,
       LP!AcceptFails, L!AcquireConnSem, LP!AcquireConnSem, L!AddConnWG,
       LP!AddConnWG, L!Track, LP!Track, L!HandlerReturns, LP!HandlerReturns,
       L!TakesUp, LP!TakesUp, L!GetsDone, LP!GetsDone,
       L!Untrack, LP!Untrack, L!ReleaseConnSem, LP!ReleaseConnSem, L!DoneConnWG,
       LP!DoneConnWG, L!StopBegins, LP!StopBegins, L!StopClosesListener,
       LP!StopClosesListener, L!StopStartsWaiter, LP!StopStartsWaiter,
       L!WaiterWaits, LP!WaiterWaits, L!StopDrained, LP!StopDrained,
       L!StopTimesOut, LP!StopTimesOut, L!StopSweeps, LP!StopSweeps,
       L!StopJoins, LP!StopJoins, L!StopReturns, LP!StopReturns
  <1>2. LP!IInv /\ [LP!Next]_(LP!vars) => LP!IInv'
    BY LifecycleConstants, LP!NextStep
  <1>. QED  BY <1>1, <1>2, StepRefines DEF IInv

(* The steps that only one part takes: no socket is opened under a handler *)
(* and none is closed but by the sweep.                                    *)
LEMMA LinkStep ==
    ASSUME IInv, LifecycleStep, NEW d \in Conns
    PROVE  /\ link'[d] = "open" => link[d] = "open" \/ hpc[d] = "none"
           /\ link[d] = "open" => link'[d] = "open"
           /\ ~hungUp'[d] => ~hungUp[d]
           /\ hpc'[d] = "none" <=> hpc[d] = "none"
           /\ hpc'[d] = "serving" <=> hpc[d] = "serving"
  <1>. /\ link \in [Conns -> LP!LinkState] /\ hungUp \in [Conns -> BOOLEAN]
       /\ hpc \in [Conns -> LP!HandlerState]
       /\ \A c \in Conns : link[c] \in {"unused", "backlog"} => hpc[c] = "none"
    BY DEF IInv, LP!IInv, LP!Inductive, LP!TypeOK, LP!Bookkeeping
  <1>1. CASE \E c \in Conns : L!Connect(c) \/ L!HangUp(c) \/ L!Accept(c)
    BY <1>1 DEF L!Connect, L!HangUp, L!Accept, L!stopVars
  <1>2. CASE \E c \in Conns : L!TearDown(c)
    BY <1>2 DEF L!TearDown, L!Untrack, L!ReleaseConnSem, L!DoneConnWG, L!stopVars
  <1>3. CASE UNCHANGED <<link, hungUp, hpc>>
    BY <1>3
  <1>. QED  BY <1>1, <1>2, <1>3
               DEF LifecycleStep, L!AcceptFails, L!AcquireConnSem, L!AddConnWG,
            L!StopBegins, L!StopClosesListener, L!StopStartsWaiter, L!WaiterWaits, L!StopDrained,
            L!StopTimesOut, L!StopJoins, L!StopReturns, L!stopVars

(* What a step of a handler does to the handlers: the one that serves goes *)
(* on serving, and the records of the others stay as they are.             *)
LEMMA HandlerServes ==
    ASSUME IInv, NEW c \in Conns, PP!Handler(c) \/ PP!Submit(c), NEW d \in Conns
    PROVE  /\ pc[c] \notin {"idle", "ended"} /\ pc'[c] \notin {"idle", "ended"}
           /\ d # c => pc'[d] = pc[d] /\ history'[d] = history[d] /\ replies'[d] = replies[d]
  <1>. DEFINE Serves ==
                /\ pc[c] \notin {"idle", "ended"} /\ pc'[c] \notin {"idle", "ended"}
                /\ d # c => pc'[d] = pc[d] /\ history'[d] = history[d] /\ replies'[d] = replies[d]
  <1>. /\ pc \in [Conns -> PP!Place]
       /\ \E X : history \in [Conns -> X]
       /\ \E X : replies \in [Conns -> X]
    BY DEF IInv, PP!IInv, PP!TypeOK
  <1>1. PP!Submit(c) => Serves
    BY DEF PP!Submit, PP!clientVars, PP!handlerVars
  <1>2. (\E fate \in PP!Fates : PP!Decode(c, fate)) => Serves
    BY DEF PP!Decode
  <1>3. PP!DecodeEOF(c) \/ PP!DecodeClosed(c) => Serves
    BY DEF PP!DecodeEOF, PP!DecodeClosed, PP!clientVars
  <1>4. PP!HandlerWrites(c) => Serves
    BY DEF PP!HandlerWrites, PP!Write
  <1>5. ASSUME PP!HandlerResumes(c) PROVE Serves
    <2>1. /\ pc[c] = "wait" /\ UNCHANGED <<history, replies>>
          /\ pc' = [pc EXCEPT ![c] = "write"] \/ pc' = [pc EXCEPT ![c] = "decode"]
      BY <1>5, Zenon DEF PP!HandlerResumes, PP!clientVars
    <2>. QED  BY <2>1
  <1>. QED  BY <1>1, <1>2, <1>3, <1>4, <1>5 DEF PP!Handler

(* What any step of the pipeline does to them. *)
LEMMA ServeStep ==
    ASSUME IInv, PipelineStep, NEW d \in Conns
    PROVE  /\ pc'[d] = "idle" <=> pc[d] = "idle"
           /\ pc'[d] = "ended" <=> pc[d] = "ended"
           /\ pc[d] = "ended" => history'[d] = history[d] /\ replies'[d] = replies[d]
  <1>1. ASSUME NEW j \in jobs, PP!Worker(j)
        PROVE  /\ UNCHANGED <<pc, history>>
               /\ pc[d] = "ended" => replies'[d] = replies[d]
    <2>. /\ \E X : replies \in [Conns -> X]
         /\ j.conn \in Conns /\ PP!JobsInv(j.conn)
      BY DEF IInv, PP!IInv, PP!TypeOK, PP!ConnInv, PP!Job
    <2>. j.at = "write" => pc[j.conn] # "ended"
      BY DEF PP!JobsInv, PP!JobsOf
    <2>. QED  BY <1>1 DEF PP!Worker, PP!Process, PP!WorkerWrites, PP!Release, PP!Write,
              PP!clientVars, PP!handlerVars
  <1>2. CASE \E c \in Conns : P!Handler(c) \/ P!Submit(c)
    BY <1>2, SameHandler, HandlerServes
  <1>3. CASE \E c \in Conns : P!Receive(c) \/ \E m \in Messages : P!Send(c, m)
    BY <1>3 DEF P!Receive, P!Send, P!clientVars, P!handlerVars
  <1>. QED  BY <1>1, <1>2, <1>3, SameWorker DEF PipelineStep

-----------------------------------------------------------------------------
(* What steps outside the pipeline need to leave its invariant alone. *)
LEMMA OutsideKept ==
    ASSUME IInv, LP!IInv', UNCHANGED pipelineVars, \A d \in Conns : PP!Narrower(d)
    PROVE  PP!IInv'
  <1>. /\ PP!IInv /\ inbox' \in [Conns -> Seq(Messages)]
       /\ link' \in [Conns -> PP!LinkState] /\ hungUp' \in [Conns -> BOOLEAN]
    BY
       DEF IInv, LP!IInv, LP!TypeOK, LP!LinkState, PP!LinkState, PP!IInv, PP!TypeOK,
           pipelineVars
  <1>. QED  BY PipelineConstants, PP!OutsideStep DEF pipelineVars, PP!handlerVars

(* The accept loop, clean-up and Stop leave the pipeline alone. *)
LEMMA OutsidePipeline ==
    ASSUME IInv, LP!IInv', LifecycleStep \/ Sweep \/ UNCHANGED vars
    PROVE  PP!IInv'
  <1>1. UNCHANGED pipelineVars
    BY DEF LifecycleStep, Sweep, vars
  <1>2. CASE LifecycleStep
    BY <1>1, <1>2, LinkStep, OutsideKept DEF PP!Narrower, IInv, Joint
  <1>3. CASE Sweep
    BY <1>1, <1>3, OutsideKept DEF PP!Narrower, Sweep, L!StopSweeps
  <1>4. CASE UNCHANGED vars
    BY <1>1, <1>4, OutsideKept DEF PP!Narrower, vars
  <1>. QED  BY <1>2, <1>3, <1>4

(* The pipeline's own steps. *)
LEMMA InsidePipeline == ASSUME IInv, PipelineStep PROVE PP!IInv'
  <1>. PP!IInv
    BY DEF IInv
  <1>1. ASSUME NEW c \in Conns, P!Handler(c) \/ P!Submit(c) PROVE PP!IInv'
    BY <1>1, SameHandler, PipelineConstants, PP!HandlerStep
  <1>2. ASSUME NEW j \in jobs, P!Worker(j) PROVE PP!IInv'
    BY <1>2, SameWorker, PipelineConstants, PP!WorkerStep
  <1>3. ASSUME NEW c \in Conns, P!Receive(c) \/ \E m \in Messages : P!Send(c, m) PROVE PP!IInv'
    BY <1>3, SameClient, PipelineConstants, PP!ClientStep
  <1>. QED  BY <1>1, <1>2, <1>3 DEF PipelineStep

(* A handler that starts. *)
LEMMA SpawnPipeline == ASSUME IInv, LP!IInv', NEW c \in Conns, Spawn(c) PROVE PP!IInv'
  <1>. /\ PP!IInv /\ link' \in [Conns -> PP!LinkState]
    BY DEF IInv, LP!IInv, LP!TypeOK, LP!LinkState, PP!LinkState
  <1>. PP!Start(c) /\ \A d \in Conns : PP!Narrower(d)
    BY SameStart DEF Spawn, L!Track, PP!Narrower
  <1>. QED  BY PipelineConstants, PP!StartStep

(* A handler that returns. *)
LEMMA ReturnPipeline == ASSUME IInv, LP!IInv', NEW c \in Conns, HandlerReturns(c) PROVE PP!IInv'
  <1>. /\ PP!IInv /\ link' \in [Conns -> PP!LinkState]
    BY DEF IInv, LP!IInv, LP!TypeOK, LP!LinkState, PP!LinkState
  <1>. PP!Return(c)
    BY SameStart DEF HandlerReturns
  <1>. \A d \in Conns : PP!Narrower(d)
    BY DEF PP!Return, PP!Narrower, PP!clientVars, PP!IInv, PP!TypeOK
  <1>. QED  BY PipelineConstants, PP!LeaveStep

(* So no step of the daemon breaks the pipeline's invariant. *)
LEMMA PipelineKept == ASSUME IInv, LP!IInv', [Next]_vars PROVE PP!IInv'
  BY OutsidePipeline, InsidePipeline, SpawnPipeline, ReturnPipeline DEF Next

-----------------------------------------------------------------------------
(* What the proofs about Joint use of the two parts. *)
LEMMA JointTypes ==
    ASSUME IInv
    PROVE  /\ Joint
           /\ link \in [Conns -> LP!LinkState] /\ hpc \in [Conns -> LP!HandlerState]
           /\ pc \in [Conns -> PP!Place]
           /\ conns = {c \in Conns : hpc[c] \in {"serving", "untrack"}}
           /\ \A c \in incoming : c \in Conns => link[c] = "open" /\ hpc[c] = "none"
  BY DEF IInv, LP!IInv, LP!Inductive, LP!TypeOK, LP!Bookkeeping, PP!IInv, PP!TypeOK

(* What is owed and answered is read off the two records. *)
LEMMA SameOwed ==
    ASSUME NEW d \in Conns, history'[d] = history[d], replies'[d] = replies[d]
    PROVE  /\ PP!Owed(d)' = PP!Owed(d)
           /\ \A n : PP!Answered(d, n)' <=> PP!Answered(d, n)
  BY DEF PP!Owed, PP!Answered

(* The accept loop, clean-up and Stop up to the sweep. *)
LEMMA JointLifecycle == ASSUME IInv, LifecycleStep PROVE Joint'
  <1>1. UNCHANGED <<pc, history, replies, swept>>
    BY DEF LifecycleStep, pipelineVars
  <1>2. stopPC' \notin {"join", "remove", "returned"}
              => stopPC \notin {"join", "remove", "returned"}
    BY DEF LifecycleStep, L!StopBegins, L!StopClosesListener, L!StopStartsWaiter,
       L!WaiterWaits, L!StopDrained, L!StopTimesOut, L!StopJoins, L!StopReturns, L!stopVars,
       L!Connect, L!HangUp, L!Accept, L!TearDown, L!Untrack, L!ReleaseConnSem,
       L!DoneConnWG, L!AcceptFails, L!AcquireConnSem, L!AddConnWG
  <1>3. \A d \in Conns : PP!Owed(d)' = PP!Owed(d) /\ \A n : PP!Answered(d, n)' <=> PP!Answered(d, n)
    BY <1>1, SameOwed
  <1>. QED  BY <1>1, <1>2, <1>3, LinkStep DEF IInv, Joint

(* The sweep closes the tracked connections, which are those with a        *)
(* handler, and notes them.                                                *)
LEMMA JointSweep == ASSUME IInv, Sweep PROVE Joint'
  <1>. /\ UNCHANGED <<pc, history, replies, hpc, hungUp>> /\ swept' = conns /\ swept = {}
       /\ stopPC' = "join"
    BY DEF Sweep, L!StopSweeps, pipelineVars, IInv, Joint
  <1>. QED  BY JointTypes, SameOwed DEF Joint

(* Serving messages. *)
LEMMA JointPipeline == ASSUME IInv, PipelineStep PROVE Joint'
  <1>. UNCHANGED <<hpc, swept, stopPC, link, hungUp>>
    BY PipelineLeaves DEF lifecycleVars
  <1>. QED  BY ServeStep, SameOwed DEF IInv, Joint

(* A handler that starts. *)
LEMMA JointSpawn == ASSUME IInv, NEW c \in Conns, Spawn(c) PROVE Joint'
  <1>. /\ UNCHANGED <<history, replies, link, hungUp, swept, stopPC>>
       /\ c \in incoming
       /\ hpc' = [hpc EXCEPT ![c] = "serving"] /\ pc' = [pc EXCEPT ![c] = "decode"]
    BY DEF Spawn, L!Track, L!stopVars, P!Start, P!clientVars
  <1>. QED  BY JointTypes, SameOwed DEF Joint

(* A handler that returns has answered what it took, unless its connection *)
(* was closed under it.                                                    *)
LEMMA JointReturn == ASSUME IInv, NEW c \in Conns, HandlerReturns(c) PROVE Joint'
  <1>. /\ UNCHANGED <<history, replies, hungUp, swept, stopPC>>
       /\ hpc' = [hpc EXCEPT ![c] = "untrack"] /\ pc' = [pc EXCEPT ![c] = "ended"]
       /\ link' = [link EXCEPT ![c] = "closed"]
       /\ pc[c] = "return" /\ hpc[c] = "serving"
    BY DEF HandlerReturns, L!HandlerReturns, L!stopVars, P!Return, P!clientVars
  <1>. PP!RepliesInv(c) /\ (c \notin swept => link[c] = "open")
    BY DEF IInv, Joint, PP!IInv, PP!ConnInv
  <1>. ~hungUp[c] /\ c \notin swept => \A n \in PP!Owed(c) : PP!Answered(c, n)
    BY DEF PP!RepliesInv, PP!Due
  <1>. QED  BY JointTypes, SameOwed DEF Joint

(* So no step breaks what ties the two together. *)
LEMMA JointKept == ASSUME IInv, [Next]_vars PROVE Joint'
  <1>1. CASE UNCHANGED vars
    <2>. UNCHANGED <<pc, history, replies, hpc, hungUp, link, swept, stopPC>>
      BY <1>1 DEF vars, pipelineVars, lifecycleVars
    <2>. QED  BY SameOwed DEF IInv, Joint
  <1>. QED  BY <1>1, JointLifecycle, JointSweep, JointPipeline, JointSpawn, JointReturn
               DEF Next

(* The whole invariant holds throughout. *)
LEMMA Invariance == Spec => []IInv
  <1>1. IInv /\ [Next]_vars => IInv'
    BY LifecycleKept, PipelineKept, JointKept DEF IInv
  <1>. QED  BY InitIInv, <1>1, PTL DEF Spec

(* The daemon behaves as the connection lifecycle says: what is promised   *)
(* of connections coming and going there holds while messages are served   *)
(* (server.go:211-284).                                                    *)
THEOREM ImplementsLifecycleHolds == Spec => ImplementsLifecycle
  <1>1. Init => L!Init
    BY DEF Init
  <1>. QED  BY <1>1, Invariance, StepRefines, PTL DEF Spec, ImplementsLifecycle, L!Spec

(* Replies stay one per message and in order while connections come and    *)
(* go and the daemon stops.                                                *)
THEOREM AnsweredInOrderHolds == Spec => []AnsweredInOrder
  <1>1. IInv => AnsweredInOrder
    <2>. SUFFICES ASSUME IInv PROVE AnsweredInOrder
      OBVIOUS
    <2>1. PP!AnsweredInOrder
      BY PipelineConstants, PP!IInvAnsweredInOrder DEF IInv
    <2>2. \A n, h : P!Answer(n, h) = PP!Answer(n, h)
      <3>1. \A ids, keep : P!Indices(ids, keep) = PP!Indices(ids, keep)
        BY DEF P!Indices, PP!Indices
      <3>. QED  BY <3>1 DEF P!Answer, PP!Answer
    <2>. QED  BY <2>1, <2>2
                 DEF AnsweredInOrder, P!AnsweredInOrder, PP!AnsweredInOrder, P!Owed,
                PP!Owed, P!Answered, PP!Answered, P!NeedsAnswer, PP!NeedsAnswer
  <1>. QED  BY <1>1, Invariance, PTL

(* Stop never lets the process exit in the middle of a request of a        *)
(* connection that was tracked when it was called.                         *)
THEOREM NoRequestIsCutShortHolds == Spec => []NoRequestIsCutShort
  <1>1. IInv => NoRequestIsCutShort
    <2>. SUFFICES ASSUME IInv, stopPC = "returned", NEW j \in jobs, j.conn \in atStop
                  PROVE  j.at = "release"
      BY DEF NoRequestIsCutShort
    <2>1. j.conn \in Conns /\ hpc[j.conn] = "gone"
      BY DEF IInv, LP!IInv, LP!TypeOK, LP!Inductive, LP!DrainVerdict
    <2>2. pc[j.conn] = "ended"
      BY <2>1 DEF IInv, Joint
    <2>3. PP!JobsInv(j.conn)
      BY <2>1 DEF IInv, PP!IInv, PP!ConnInv
    <2>. QED  BY <2>2, <2>3 DEF PP!JobsInv, PP!JobsOf
  <1>. QED  BY <1>1, Invariance, PTL

(* A connection that neither the sweep nor its client closed has all its   *)
(* answers when the server closes it.                                      *)
THEOREM AnsweredBeforeCloseHolds == Spec => []AnsweredBeforeClose
  <1>1. IInv => AnsweredBeforeClose
    <2>. SUFFICES ASSUME IInv, NEW c \in Conns, hpc[c] \notin {"none", "serving"}, ~hungUp[c],
                         c \notin swept, NEW n \in P!Owed(c)
                  PROVE  P!Answered(c, n)
      BY DEF AnsweredBeforeClose
    <2>1. pc[c] = "ended"
      BY DEF IInv, Joint
    <2>2. n \in PP!Owed(c)
      BY DEF P!Owed, PP!Owed, P!NeedsAnswer, PP!NeedsAnswer
    <2>3. PP!Answered(c, n)
      BY <2>1, <2>2 DEF IInv, Joint
    <2>. QED  BY <2>3 DEF P!Answered, PP!Answered
  <1>. QED  BY <1>1, Invariance, PTL
=============================================================================
