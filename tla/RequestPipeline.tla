--------------------------- MODULE RequestPipeline ---------------------------
(***************************************************************************)
(* What happens to the messages of a connection once it is served          *)
(* (internal/daemon/server.go: handleConn, handleBatch, handleSingleAsync, *)
(* writeError and WorkerPool.Submit).                                      *)
(*                                                                         *)
(* Each connection has a handler goroutine that decodes messages one at a  *)
(* time; the requests in them run on goroutines that hold a slot of the    *)
(* shared worker pool.  A single request's worker writes the response      *)
(* itself, a batch's responses are collected and written by the handler.   *)
(*                                                                         *)
(* What a request computes is abstracted to whether it carries an id, the  *)
(* one thing that decides whether processRequest returns a response.  The  *)
(* rate limiter's verdict is nondeterministic (Intake has it).             *)
(***************************************************************************)
EXTENDS Integers, Sequences, FiniteSets

CONSTANTS
    Conns,      \* the connections
    Workers,    \* capacity of the worker pool's semaphore
    Messages,   \* the messages a client may send
    MaxSend,    \* bound: how many messages each connection's client sends
    OutCap      \* replies that fit in a connection's send buffer

(* A malformed text, a JSON value that is not a request (or an empty       *)
(* batch), one request, or a batch; `ids` says of each request in it       *)
(* whether it carries an id.                                               *)
MessageKind == {"malformed", "invalid", "single", "batch"}

ASSUME PipelineAssumption ==
    /\ Workers \in Nat \ {0}
    /\ MaxSend \in [Conns -> Nat]
    /\ OutCap \in Nat \ {0}
    /\ Messages \subseteq [kind : MessageKind, ids : Seq(BOOLEAN)]
    /\ \A m \in Messages :
           /\ m.kind = "single" => Len(m.ids) = 1
           /\ m.kind = "batch" => Len(m.ids) > 0

VARIABLES
    link,      \* the socket seen from the server: "open" while it is served
    hungUp,    \* the client has closed its end
    sent,      \* messages the client has sent so far
    inbox,     \* messages sent and not yet decoded
    outbox,    \* replies written and not yet read by the client
    pc,        \* where each handler is
    msg,       \* the message it handles, with what became of it
    nextReq,   \* index of the next request of msg to submit
    results,   \* handleBatch's results: the requests with a response
    pending,   \* workers of msg that have not signalled the handler
    reply,     \* the reply the handler is about to write
    history,   \* history: the messages decoded, each with its fate
    replies,   \* history: the replies written to an open connection
    jobs       \* the worker goroutines, one per slot of the pool in use

clientVars == <<hungUp, sent, inbox>>
handlerVars == <<pc, msg, nextReq, reply, history>>
vars == <<link, hungUp, sent, inbox, outbox, pc, msg, nextReq, results,
          pending, reply, history, replies, jobs>>

(* What becomes of a decoded message: it is handled by its kind, or the    *)
(* rate limiter refuses it before its kind is looked at.                   *)
Fates == MessageKind \union {"limited"}

NoMessage == [fate |-> "none", ids |-> <<>>]

NoReply == [no |-> 0, what |-> "none", idxs |-> <<>>]

(* The indices of a message's requests that are in the set keep, in order. *)
Indices(ids, keep) ==
    SelectSeq([i \in 1 .. Len(ids) |-> i], LAMBDA i : i \in keep)

Init ==
    /\ link = [c \in Conns |-> "unused"]
    /\ hungUp = [c \in Conns |-> FALSE]
    /\ sent = [c \in Conns |-> 0]
    /\ inbox = [c \in Conns |-> <<>>]
    /\ outbox = [c \in Conns |-> <<>>]
    /\ pc = [c \in Conns |-> "idle"]
    /\ msg = [c \in Conns |-> NoMessage]
    /\ nextReq = [c \in Conns |-> 1]
    /\ results = [c \in Conns |-> {}]
    /\ pending = [c \in Conns |-> 0]
    /\ reply = [c \in Conns |-> NoReply]
    /\ history = [c \in Conns |-> <<>>]
    /\ replies = [c \in Conns |-> <<>>]
    /\ jobs = {}

-----------------------------------------------------------------------------
(* Clients and the rest of the daemon. *)

(* The client sends a message; it may have been connected before the       *)
(* daemon got to serve it.                                                 *)
Send(c, m) ==
    /\ link[c] \in {"backlog", "open"}
    /\ ~hungUp[c]
    /\ sent[c] < MaxSend[c]
    /\ sent' = [sent EXCEPT ![c] = @ + 1]
    /\ inbox' = [inbox EXCEPT ![c] = Append(@, m)]
    /\ UNCHANGED <<link, hungUp, outbox, handlerVars, results, pending, replies, jobs>>

(* The client reads a reply. *)
Receive(c) ==
    /\ outbox[c] # <<>>
    /\ ~hungUp[c]
    /\ outbox' = [outbox EXCEPT ![c] = Tail(@)]
    /\ UNCHANGED <<link, clientVars, handlerVars, results, pending, replies, jobs>>

HangUp(c) ==
    /\ link[c] # "unused"
    /\ ~hungUp[c]
    /\ hungUp' = [hungUp EXCEPT ![c] = TRUE]
    /\ UNCHANGED <<link, sent, inbox, outbox, handlerVars, results, pending,
                   replies, jobs>>

(* The accept loop starts the handler on an admitted connection. *)
Start(c) ==
    /\ pc[c] = "idle"
    /\ pc' = [pc EXCEPT ![c] = "decode"]
    /\ UNCHANGED <<clientVars, outbox, msg, nextReq, reply, history, results,
                   pending, replies, jobs>>

(* The sweep of Stop closes a connection under its handler. *)
ForceClose(c) ==
    /\ link[c] = "open"
    /\ link' = [link EXCEPT ![c] = "closed"]
    /\ UNCHANGED <<clientVars, outbox, handlerVars, results, pending, replies, jobs>>

-----------------------------------------------------------------------------
(* Writing on a connection returns when the bytes fit in the send buffer,  *)
(* or at once with an error nobody looks at when either end is closed.     *)
Write(c, r) ==
    IF link[c] = "open" /\ ~hungUp[c]
      THEN /\ Len(outbox[c]) < OutCap
           /\ outbox' = [outbox EXCEPT ![c] = Append(@, r)]
           /\ replies' = [replies EXCEPT ![c] = Append(@, r)]
      ELSE UNCHANGED <<outbox, replies>>

(* dec.Decode returns a message, and its fate is decided: the limiter      *)
(* refuses it, it is not a request, or it goes to the pool.  A message     *)
(* that was decoded into the decoder's buffer is still returned after the  *)
(* connection was closed.                                                  *)
Decode(c, fate) ==
    /\ pc[c] = "decode"
    /\ inbox[c] # <<>>
    /\ LET m == Head(inbox[c])
           n == Len(history[c]) + 1
       IN  /\ fate = m.kind \/ (fate = "limited" /\ m.kind # "malformed")
           /\ msg' = [msg EXCEPT ![c] = [fate |-> fate, ids |-> m.ids]]
           /\ history' = [history EXCEPT ![c] = Append(@, [fate |-> fate, ids |-> m.ids])]
           /\ reply' = [reply EXCEPT ![c] = [no |-> n, what |-> fate, idxs |-> <<>>]]
    /\ inbox' = [inbox EXCEPT ![c] = Tail(@)]
    /\ pc' = [pc EXCEPT ![c] = IF fate \in {"single", "batch"} THEN "submit" ELSE "write"]
    /\ nextReq' = [nextReq EXCEPT ![c] = 1]
    /\ results' = [results EXCEPT ![c] = {}]
    /\ UNCHANGED <<link, hungUp, sent, outbox, pending, replies, jobs>>

(* dec.Decode returns io.EOF: the client hung up and everything it sent    *)
(* was decoded.  handleConn returns without a word.                        *)
DecodeEOF(c) ==
    /\ pc[c] = "decode"
    /\ inbox[c] = <<>>
    /\ hungUp[c]
    /\ pc' = [pc EXCEPT ![c] = "return"]
    /\ UNCHANGED <<link, clientVars, outbox, msg, nextReq, reply, history, results,
                   pending, replies, jobs>>

(* dec.Decode returns another error because the connection was closed      *)
(* under it; the parse error handleConn then writes goes nowhere.          *)
DecodeClosed(c) ==
    /\ pc[c] = "decode"
    /\ link[c] = "closed"
    /\ pc' = [pc EXCEPT ![c] = "return"]
    /\ UNCHANGED <<link, clientVars, outbox, msg, nextReq, reply, history, results,
                   pending, replies, jobs>>

(* The handler writes an error or the responses of a batch.  After a parse *)
(* error it returns, otherwise it goes on to the next message.             *)
HandlerWrites(c) ==
    /\ pc[c] = "write"
    /\ Write(c, reply[c])
    /\ pc' = [pc EXCEPT ![c] = IF msg[c].fate = "malformed" THEN "return" ELSE "decode"]
    /\ UNCHANGED <<link, clientVars, msg, nextReq, reply, history, results, pending, jobs>>

(* WorkerPool.Submit takes a slot, waiting while none is free, and starts  *)
(* the worker.  handleBatch submits its requests in order, then waits.     *)
Submit(c) ==
    /\ pc[c] = "submit"
    /\ Cardinality(jobs) < Workers
    /\ jobs' = jobs \union {[conn |-> c, no |-> Len(history[c]), idx |-> nextReq[c],
                             kind |-> msg[c].fate, hasId |-> msg[c].ids[nextReq[c]],
                             at |-> "run"]}
    /\ pending' = [pending EXCEPT ![c] = @ + 1]
    /\ nextReq' = [nextReq EXCEPT ![c] = @ + 1]
    /\ pc' = [pc EXCEPT ![c] = IF nextReq[c] = Len(msg[c].ids) THEN "wait" ELSE "submit"]
    /\ UNCHANGED <<link, clientVars, outbox, msg, results, reply, history, replies>>

(* Mutant of HandlerResumes: handleSingleAsync returns without <-done, and *)
(* handleBatch without wg.Wait().                                          *)
HandlerDoesNotWait(c) ==
    /\ pc[c] = "wait"
    /\ IF msg[c].fate = "batch" /\ results[c] # {}
         THEN /\ reply' = [reply EXCEPT ![c].idxs = Indices(msg[c].ids, results[c])]
              /\ pc' = [pc EXCEPT ![c] = "write"]
         ELSE /\ pc' = [pc EXCEPT ![c] = "decode"]
              /\ UNCHANGED reply
    /\ UNCHANGED <<link, clientVars, outbox, msg, nextReq, history, results, pending,
                   replies, jobs>>

(* <-done or wg.Wait() returns.  For a batch the nil results are dropped   *)
(* and, if any are left, the rest is written in the order of the requests. *)
HandlerResumes(c) ==
    /\ pc[c] = "wait"
    /\ pending[c] = 0
    /\ IF msg[c].fate = "batch" /\ results[c] # {}
         THEN /\ reply' = [reply EXCEPT ![c].idxs = Indices(msg[c].ids, results[c])]
              /\ pc' = [pc EXCEPT ![c] = "write"]
         ELSE /\ pc' = [pc EXCEPT ![c] = "decode"]
              /\ UNCHANGED reply
    /\ UNCHANGED <<link, clientVars, outbox, msg, nextReq, history, results, pending,
                   replies, jobs>>

(* handleConn returns and its deferred Close closes the connection. *)
Return(c) ==
    /\ pc[c] = "return"
    /\ pc' = [pc EXCEPT ![c] = "ended"]
    /\ link' = [link EXCEPT ![c] = "closed"]
    /\ UNCHANGED <<clientVars, outbox, msg, nextReq, reply, history, results,
                   pending, replies, jobs>>

-----------------------------------------------------------------------------
(* The worker goroutines. *)

(* The worker signals its handler: close(done), or wg.Done(). *)
Signal(j) == pending' = [pending EXCEPT ![j.conn] = @ - 1]

Moves(j, place) == jobs' = (jobs \ {j}) \union {[j EXCEPT !.at = place]}

(* Mutant of Process: a request without id gets no answer and its worker   *)
(* returns before it signals.                                              *)
ProcessForgetsSignal(j) ==
    /\ j.at = "run"
    /\ IF j.kind = "single" /\ j.hasId
         THEN Moves(j, "write") /\ UNCHANGED <<results, pending>>
         ELSE /\ results' = [results EXCEPT ![j.conn] =
                               IF j.hasId THEN @ \union {j.idx} ELSE @]
              /\ IF j.hasId THEN Signal(j) ELSE UNCHANGED pending
              /\ Moves(j, "release")
    /\ UNCHANGED <<link, clientVars, outbox, handlerVars, replies>>

(* Mutant of Process: processRequest answers notifications too. *)
ProcessAnswersAll(j) ==
    /\ j.at = "run"
    /\ IF j.kind = "single"
         THEN Moves(j, "write") /\ UNCHANGED <<results, pending>>
         ELSE /\ results' = [results EXCEPT ![j.conn] = @ \union {j.idx}]
              /\ Signal(j)
              /\ Moves(j, "release")
    /\ UNCHANGED <<link, clientVars, outbox, handlerVars, replies>>

(* processRequest returns: a response when the request has an id, nil when *)
(* it has not.  A single request's worker goes on to write the response; a *)
(* batch's worker leaves it in results.                                    *)
Process(j) ==
    /\ j.at = "run"
    /\ IF j.kind = "single" /\ j.hasId
         THEN Moves(j, "write") /\ UNCHANGED <<results, pending>>
         ELSE /\ results' = [results EXCEPT ![j.conn] =
                               IF j.hasId THEN @ \union {j.idx} ELSE @]
              /\ Signal(j)
              /\ Moves(j, "release")
    /\ UNCHANGED <<link, clientVars, outbox, handlerVars, replies>>

(* The worker of a single request writes the response and signals. *)
WorkerWrites(j) ==
    /\ j.at = "write"
    /\ Write(j.conn, [no |-> j.no, what |-> "single", idxs |-> <<1>>])
    /\ Signal(j)
    /\ Moves(j, "release")
    /\ UNCHANGED <<link, clientVars, handlerVars, results>>

(* The deferred <-wp.sem, after fn has returned. *)
Release(j) ==
    /\ j.at = "release"
    /\ jobs' = jobs \ {j}
    /\ UNCHANGED <<link, clientVars, outbox, handlerVars, results, pending, replies>>

-----------------------------------------------------------------------------
Worker(j) == Process(j) \/ WorkerWrites(j) \/ Release(j)

Handler(c) ==
    \/ \E fate \in Fates : Decode(c, fate)
    \/ DecodeEOF(c)
    \/ DecodeClosed(c)
    \/ HandlerWrites(c)
    \/ HandlerResumes(c)

Client(c) ==
    \/ \E m \in Messages : Send(c, m)
    \/ Receive(c)
    \/ HangUp(c)

(* On its own, the pipeline serves every connection from the start. *)
Open(c) ==
    /\ link[c] = "unused"
    /\ link' = [link EXCEPT ![c] = "open"]
    /\ Start(c)

Next ==
    \/ \E c \in Conns :
        Client(c) \/ Open(c) \/ ForceClose(c) \/ Handler(c) \/ Submit(c) \/ Return(c)
    \/ \E j \in jobs : Worker(j)

Spec == Init /\ [][Next]_vars

(* Handlers and workers keep running.  Goroutines blocked on the pool's    *)
(* channel are served in the order they came, so a handler that waits for  *)
(* a slot is not passed over for ever.  Clients read what they are sent.   *)
Fairness ==
    /\ \A c \in Conns :
        /\ WF_vars(Handler(c) \/ Return(c))
        /\ SF_vars(Submit(c))
        /\ WF_vars(Receive(c))
        /\ WF_vars(\E j \in jobs : j.conn = c /\ Worker(j))

FairSpec == Spec /\ Fairness

-----------------------------------------------------------------------------
(* What the reply to a decoded message is, if there is to be one: an error *)
(* for what could not be handled, the responses of its requests with an id *)
(* otherwise.                                                              *)
Answer(n, h) ==
    [no |-> n,
     what |-> h.fate,
     idxs |-> IF h.fate = "single" THEN <<1>>
              ELSE IF h.fate = "batch" THEN Indices(h.ids, {i \in DOMAIN h.ids : h.ids[i]})
              ELSE <<>>]

NeedsAnswer(h) == h.fate \in {"single", "batch"} => \E i \in DOMAIN h.ids : h.ids[i]

(* The messages decoded so far that are to be answered, and those that are. *)
Owed(c) == {n \in DOMAIN history[c] : NeedsAnswer(history[c][n])}
Answered(c, n) == \E i \in DOMAIN replies[c] : replies[c][i].no = n

(* The replies a client sees are the answers to its messages, one each, in *)
(* the order it sent them and with none left out in between, batches with  *)
(* the responses in the order of their requests, and none for a            *)
(* notification; and when the handler is back at Decode every message      *)
(* before has been answered.                                               *)
AnsweredInOrder ==
    \A c \in Conns :
        /\ \A i \in DOMAIN replies[c] :
              /\ replies[c][i].no \in Owed(c)
              /\ replies[c][i] = Answer(replies[c][i].no, history[c][replies[c][i].no])
        /\ \A i, k \in DOMAIN replies[c] : i < k => replies[c][i].no < replies[c][k].no
        /\ \A n \in Owed(c) :
              ~Answered(c, n) => \A i \in DOMAIN replies[c] : replies[c][i].no < n
        /\ pc[c] = "decode" /\ link[c] = "open" /\ ~hungUp[c]
               => \A n \in Owed(c) : Answered(c, n)

(* No two goroutines write on a connection at once, so replies cannot be   *)
(* interleaved; and what a handler waits for is exactly the jobs it has    *)
(* submitted that have not signalled.                                      *)
OneWriter ==
    \A c \in Conns :
        LET writers == {j \in jobs : j.conn = c /\ j.at = "write"}
        IN  /\ Cardinality(writers) <= 1
            /\ pc[c] \in {"decode", "write", "return", "ended"} => writers = {}
            /\ pending[c] = Cardinality({j \in jobs : j.conn = c /\ j.at # "release"})

(* A handler that has taken up a message gets done with it, whatever else  *)
(* competes for the pool, as long as clients read their replies.           *)
MessageIsFinished ==
    \A c \in Conns :
        (pc[c] \in {"submit", "wait", "write"}) ~> (pc[c] \in {"decode", "return"})
=============================================================================
