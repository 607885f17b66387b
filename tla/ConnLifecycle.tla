---------------------------- MODULE ConnLifecycle ----------------------------
(***************************************************************************)
(* How the daemon admits connections, keeps track of them and lets go of   *)
(* them (internal/daemon/server.go: acceptLoop and Stop).                  *)
(*                                                                         *)
(* Goroutines: the accept loop, one handler per admitted connection, Stop, *)
(* and the goroutine Stop starts to wait on connWG.  They meet on the      *)
(* connSem channel, the connWG counter, the conns map (under connsMu) and  *)
(* the listener.  Each action is one step between two of those meetings.   *)
(*                                                                         *)
(* What a handler does while it serves is module RequestPipeline; here it  *)
(* serves until it returns, and is deaf to its connection while it waits   *)
(* for the worker of a request.  Clients connect and hang up when they     *)
(* like.                                                                   *)
(***************************************************************************)
EXTENDS Integers, FiniteSets

CONSTANTS
    Conns,     \* the connections clients may open
    MaxConns   \* capacity of connSem

ASSUME LifecycleAssumption ==
    /\ IsFiniteSet(Conns)
    /\ MaxConns \in Nat \ {0}

VARIABLES
    link,          \* each connection's socket, seen from the server
    hungUp,        \* the client has closed its end
    acceptPC,      \* where the accept loop is
    incoming,      \* {c} when Accept returned c and c has no handler yet
    connSem,       \* number of slots of s.connSem that are taken
    connWG,        \* the counter of s.connWG
    conns,         \* s.conns
    hpc,           \* where each connection's handler goroutine is
    busy,          \* connections whose handler waits for the pool or a worker
    shuttingDown,  \* s.shuttingDown
    stopPC,        \* where Stop is
    waiter,        \* the goroutine that waits on connWG and closes doneChan
    atStop         \* history: the connections tracked when Stop was called

vars == <<link, hungUp, acceptPC, incoming, connSem, connWG, conns, hpc, busy,
          shuttingDown, stopPC, waiter, atStop>>

acceptVars == <<acceptPC, incoming>>
stopVars == <<shuttingDown, stopPC, waiter, atStop>>

LinkState == {"unused", "backlog", "open", "closed"}
AcceptState == {"accept", "acquire", "add", "track", "returned"}
HandlerState == {"none", "serving", "untrack", "release", "done", "gone"}
StopState == {"serving", "close", "wait", "select", "sweep", "join",
              "remove", "returned"}
WaiterState == {"none", "starting", "waiting", "done"}

Init ==
    /\ link = [c \in Conns |-> "unused"]
    /\ hungUp = [c \in Conns |-> FALSE]
    /\ acceptPC = "accept"
    /\ incoming = {}
    /\ connSem = 0
    /\ connWG = 0
    /\ conns = {}
    /\ hpc = [c \in Conns |-> "none"]
    /\ busy = {}
    /\ shuttingDown = FALSE
    /\ stopPC = "serving"
    /\ waiter = "none"
    /\ atStop = {}

ListenerOpen == stopPC \in {"serving", "close"}

-----------------------------------------------------------------------------
(* Clients. *)

(* A client connects: the kernel queues the connection on the listener. *)
Connect(c) ==
    /\ ListenerOpen
    /\ link[c] = "unused"
    /\ link' = [link EXCEPT ![c] = "backlog"]
    /\ UNCHANGED <<busy, hungUp, acceptPC, incoming, connSem, connWG, conns, hpc,
                   shuttingDown, stopPC, waiter, atStop>>

(* A client closes its end. *)
HangUp(c) ==
    /\ link[c] # "unused"
    /\ ~hungUp[c]
    /\ hungUp' = [hungUp EXCEPT ![c] = TRUE]
    /\ UNCHANGED <<busy, link, acceptPC, incoming, connSem, connWG, conns, hpc,
                   shuttingDown, stopPC, waiter, atStop>>

-----------------------------------------------------------------------------
(* The accept loop. *)

(* s.listener.Accept() returns a connection. *)
Accept(c) ==
    /\ acceptPC = "accept"
    /\ link[c] = "backlog"
    /\ link' = [link EXCEPT ![c] = "open"]
    /\ incoming' = {c}
    /\ acceptPC' = "acquire"
    /\ UNCHANGED <<busy, hungUp, connSem, connWG, conns, hpc, stopVars>>

(* Accept returns an error once the listener is closed; shuttingDown was   *)
(* set before that, so the loop returns.                                   *)
AcceptFails ==
    /\ acceptPC = "accept"
    /\ ~ListenerOpen
    /\ shuttingDown
    /\ acceptPC' = "returned"
    /\ UNCHANGED <<busy, link, hungUp, incoming, connSem, connWG, conns, hpc, stopVars>>

(* s.connSem <- struct{}{}: blocks while MaxConns slots are taken. *)
AcquireConnSem ==
    /\ acceptPC = "acquire"
    /\ connSem < MaxConns
    /\ connSem' = connSem + 1
    /\ acceptPC' = "add"
    /\ UNCHANGED <<busy, link, hungUp, incoming, connWG, conns, hpc, stopVars>>

(* Mutant of AddConnWG: the counter is taken up twice. *)
AddConnWGTwice ==
    /\ acceptPC = "add"
    /\ connWG' = connWG + 2
    /\ acceptPC' = "track"
    /\ UNCHANGED <<busy, link, hungUp, incoming, connSem, conns, hpc, stopVars>>

(* s.connWG.Add(1). *)
AddConnWG ==
    /\ acceptPC = "add"
    /\ connWG' = connWG + 1
    /\ acceptPC' = "track"
    /\ UNCHANGED <<busy, link, hungUp, incoming, connSem, conns, hpc, stopVars>>

(* Mutant of Track: the semaphore only guards the admission. *)
TrackAndRelease(c) ==
    /\ acceptPC = "track"
    /\ c \in incoming
    /\ conns' = conns \union {c}
    /\ hpc' = [hpc EXCEPT ![c] = "serving"]
    /\ incoming' = {}
    /\ acceptPC' = "accept"
    /\ connSem' = connSem - 1
    /\ UNCHANGED <<busy, link, hungUp, connWG, stopVars>>

(* s.conns[conn] = struct{}{} under connsMu, then the handler starts. *)
Track(c) ==
    /\ acceptPC = "track"
    /\ c \in incoming
    /\ conns' = conns \union {c}
    /\ hpc' = [hpc EXCEPT ![c] = "serving"]
    /\ incoming' = {}
    /\ acceptPC' = "accept"
    /\ UNCHANGED <<busy, link, hungUp, connSem, connWG, stopVars>>

-----------------------------------------------------------------------------
(* The handler goroutine of a connection. *)

(* A message is taken up: the handler waits for a slot of the pool and then *)
(* for its worker (<-done) or those of a batch (wg.Wait()).                 *)
TakesUp(c) ==
    /\ hpc[c] = "serving"
    /\ c \notin busy
    /\ busy' = busy \union {c}
    /\ UNCHANGED <<link, hungUp, acceptVars, connSem, connWG, conns, hpc, stopVars>>

(* The workers have signalled.  Nothing bounds how long a command takes.   *)
GetsDone(c) ==
    /\ c \in busy
    /\ busy' = busy \ {c}
    /\ UNCHANGED <<link, hungUp, acceptVars, connSem, connWG, conns, hpc, stopVars>>

(* handleConn returns; its deferred conn.Close() closes the connection.    *)
(* It must return once the connection is closed at either end and no       *)
(* worker is waited for, and it may return before (a parse error).         *)
HandlerReturns(c) ==
    /\ hpc[c] = "serving"
    /\ c \notin busy
    /\ link' = [link EXCEPT ![c] = "closed"]
    /\ hpc' = [hpc EXCEPT ![c] = "untrack"]
    /\ UNCHANGED <<busy, hungUp, acceptVars, connSem, connWG, conns, stopVars>>

(* delete(s.conns, c) under connsMu. *)
Untrack(c) ==
    /\ hpc[c] = "untrack"
    /\ conns' = conns \ {c}
    /\ hpc' = [hpc EXCEPT ![c] = "release"]
    /\ UNCHANGED <<busy, link, hungUp, acceptVars, connSem, connWG, stopVars>>

(* Mutant of ReleaseConnSem: the deferred release is missing. *)
LeakConnSem(c) ==
    /\ hpc[c] = "release"
    /\ hpc' = [hpc EXCEPT ![c] = "done"]
    /\ UNCHANGED <<busy, link, hungUp, acceptVars, connSem, connWG, conns, stopVars>>

(* <-s.connSem. *)
ReleaseConnSem(c) ==
    /\ hpc[c] = "release"
    /\ connSem' = connSem - 1
    /\ hpc' = [hpc EXCEPT ![c] = "done"]
    /\ UNCHANGED <<busy, link, hungUp, acceptVars, connWG, conns, stopVars>>

(* s.connWG.Done(), the first defer and so the last to run.  The runtime   *)
(* releases a waiter in the same step that takes the counter to zero.      *)
DoneConnWG(c) ==
    /\ hpc[c] = "done"
    /\ connWG' = connWG - 1
    /\ waiter' = IF connWG = 1 /\ waiter = "waiting" THEN "done" ELSE waiter
    /\ hpc' = [hpc EXCEPT ![c] = "gone"]
    /\ UNCHANGED <<busy, link, hungUp, acceptVars, connSem, conns,
                   shuttingDown, stopPC, atStop>>

-----------------------------------------------------------------------------
(* Stop. *)

(* atomic.StoreInt32(&s.shuttingDown, 1). *)
StopBegins ==
    /\ stopPC = "serving"
    /\ shuttingDown' = TRUE
    /\ atStop' = conns
    /\ stopPC' = "close"
    /\ UNCHANGED <<busy, link, hungUp, acceptVars, connSem, connWG, conns, hpc, waiter>>

(* The observability server and the session manager are stopped and the    *)
(* listener is closed, which resets the connections still queued on it.    *)
StopClosesListener ==
    /\ stopPC = "close"
    /\ link' = [c \in Conns |-> IF link[c] = "backlog" THEN "closed" ELSE link[c]]
    /\ stopPC' = "wait"
    /\ UNCHANGED <<busy, hungUp, acceptVars, connSem, connWG, conns, hpc,
                   shuttingDown, waiter, atStop>>

(* Stop starts the goroutine that will wait, and goes to its select. *)
StopStartsWaiter ==
    /\ stopPC = "wait"
    /\ waiter' = "starting"
    /\ stopPC' = "select"
    /\ UNCHANGED <<busy, link, hungUp, acceptVars, connSem, connWG, conns, hpc,
                   shuttingDown, atStop>>

(* That goroutine calls s.connWG.Wait(), which returns at once when the    *)
(* counter is zero.                                                        *)
WaiterWaits ==
    /\ waiter = "starting"
    /\ waiter' = IF connWG = 0 THEN "done" ELSE "waiting"
    /\ UNCHANGED <<busy, link, hungUp, acceptVars, connSem, connWG, conns, hpc,
                   shuttingDown, stopPC, atStop>>

(* <-doneChan before the timeout: drained gracefully. *)
StopDrained ==
    /\ stopPC = "select"
    /\ waiter = "done"
    /\ stopPC' = "remove"
    /\ UNCHANGED <<busy, link, hungUp, acceptVars, connSem, connWG, conns, hpc,
                   shuttingDown, waiter, atStop>>

(* <-time.After(timeout). *)
StopTimesOut ==
    /\ stopPC = "select"
    /\ stopPC' = "sweep"
    /\ UNCHANGED <<busy, link, hungUp, acceptVars, connSem, connWG, conns, hpc,
                   shuttingDown, waiter, atStop>>

(* Mutant of StopSweeps: the map is cleared instead of its members closed. *)
SweepForgets ==
    /\ stopPC = "sweep"
    /\ conns' = {}
    /\ stopPC' = "join"
    /\ UNCHANGED <<busy, link, hungUp, acceptVars, connSem, connWG, hpc,
                   shuttingDown, waiter, atStop>>

(* Under connsMu every tracked connection is closed. *)
StopSweeps ==
    /\ stopPC = "sweep"
    /\ link' = [c \in Conns |-> IF c \in conns THEN "closed" ELSE link[c]]
    /\ stopPC' = "join"
    /\ UNCHANGED <<busy, hungUp, acceptVars, connSem, connWG, conns, hpc,
                   shuttingDown, waiter, atStop>>

(* Mutant of StopJoins: Stop does not wait for the handlers it closed. *)
StopSkipsJoin ==
    /\ stopPC = "join"
    /\ stopPC' = "remove"
    /\ UNCHANGED <<busy, link, hungUp, acceptVars, connSem, connWG, conns, hpc,
                   shuttingDown, waiter, atStop>>

(* <-doneChan after the sweep. *)
StopJoins ==
    /\ stopPC = "join"
    /\ waiter = "done"
    /\ stopPC' = "remove"
    /\ UNCHANGED <<busy, link, hungUp, acceptVars, connSem, connWG, conns, hpc,
                   shuttingDown, waiter, atStop>>

(* os.Remove(s.socketPath), and Stop returns. *)
StopReturns ==
    /\ stopPC = "remove"
    /\ stopPC' = "returned"
    /\ UNCHANGED <<busy, link, hungUp, acceptVars, connSem, connWG, conns, hpc,
                   shuttingDown, waiter, atStop>>

-----------------------------------------------------------------------------
AcceptLoop ==
    \/ AcceptFails
    \/ AcquireConnSem
    \/ AddConnWG
    \/ \E c \in Conns : Accept(c) \/ Track(c)

TearDown(c) == Untrack(c) \/ ReleaseConnSem(c) \/ DoneConnWG(c)

Stop ==
    \/ StopClosesListener
    \/ StopStartsWaiter
    \/ StopDrained
    \/ StopTimesOut
    \/ StopSweeps
    \/ StopJoins
    \/ StopReturns

Next ==
    \/ AcceptLoop
    \/ StopBegins
    \/ Stop
    \/ WaiterWaits
    \/ \E c \in Conns :
        \/ Connect(c)
        \/ HangUp(c)
        \/ TakesUp(c)
        \/ GetsDone(c)
        \/ HandlerReturns(c)
        \/ TearDown(c)

Spec == Init /\ [][Next]_vars

(* Every goroutine of the daemon keeps running, the shutdown timer fires,  *)
(* and a handler whose connection is closed at either end notices it when  *)
(* it waits for no worker: its read fails, at the latest when the messages *)
(* that were already read are used up, hence strong fairness.  A worker    *)
(* may take for ever (GetsDone is not fair), nothing is assumed of clients,*)
(* and nobody has to ask the daemon to stop.                               *)
ServerFairness ==
    /\ WF_vars(AcceptLoop)
    /\ WF_vars(Stop)
    /\ WF_vars(WaiterWaits)
    /\ \A c \in Conns :
        /\ WF_vars(TearDown(c))
        /\ SF_vars((hungUp[c] \/ link[c] = "closed") /\ HandlerReturns(c))

FairSpec == Spec /\ ServerFairness

(* Clients that do not stay connected for ever. *)
PatientClients == \A c \in Conns : WF_vars(HangUp(c))

-----------------------------------------------------------------------------
TypeOK ==
    /\ link \in [Conns -> LinkState]
    /\ hungUp \in [Conns -> BOOLEAN]
    /\ acceptPC \in AcceptState
    /\ incoming \in SUBSET Conns
    /\ connSem \in 0 .. MaxConns
    /\ connWG \in Nat
    /\ conns \in SUBSET Conns
    /\ hpc \in [Conns -> HandlerState]
    /\ busy \in SUBSET Conns
    /\ shuttingDown \in BOOLEAN
    /\ stopPC \in StopState
    /\ waiter \in WaiterState
    /\ atStop \in SUBSET Conns

Serving == {c \in Conns : hpc[c] = "serving"}

(* The connections that hold a slot of connSem, and those connWG counts. *)
SlotHolders ==
    {c \in Conns : hpc[c] \in {"serving", "untrack", "release"}}
        \union {c \in incoming : acceptPC \in {"add", "track"}}

Counted ==
    {c \in Conns : hpc[c] \in {"serving", "untrack", "release", "done"}}
        \union {c \in incoming : acceptPC = "track"}

(* The channel and the counter say exactly how many connections hold a     *)
(* slot and how many handlers have not called Done.                        *)
Accounting ==
    /\ connSem = Cardinality(SlotHolders)
    /\ connWG = Cardinality(Counted)

(* Where a connection is: held by the accept loop, with its handler, or    *)
(* gone, and never in two of these places.  The map s.conns holds exactly  *)
(* the connections between the start of the handler and its cleanup, so    *)
(* the sweep of Stop misses nothing that is being served at that moment.   *)
Bookkeeping ==
    /\ acceptPC \in {"acquire", "add", "track"} => \E c \in Conns : incoming = {c}
    /\ acceptPC \in {"accept", "returned"} => incoming = {}
    /\ \A c \in Conns :
        /\ c \in incoming => link[c] = "open" /\ hpc[c] = "none"
        /\ link[c] \in {"unused", "backlog"} => hpc[c] = "none"
    /\ conns = {c \in Conns : hpc[c] \in {"serving", "untrack"}}

(* The waiter's verdict is about every connection tracked when Stop was    *)
(* called, and Stop goes on only with that verdict.                        *)
DrainVerdict ==
    /\ \A c \in atStop : hpc[c] # "none"
    /\ stopPC \in {"serving", "close", "wait"} => waiter = "none"
    /\ waiter = "done" => \A c \in atStop : hpc[c] = "gone"
    /\ stopPC \in {"remove", "returned"} => waiter = "done"

(* The inductive invariant of ConnLifecycleProofs, apart from types: the   *)
(* semaphore and the WaitGroup count what is where, and the waiter's       *)
(* verdict can be relied on.                                               *)
Inductive == Bookkeeping /\ Accounting /\ DrainVerdict

(* At most MaxConns connections are served at once ("Max 100 concurrent    *)
(* connections" in NewServer), however admissions and departures overlap.  *)
ConnLimit == Cardinality(Serving) <= MaxConns

(* When Stop gets as far as removing the socket file, every connection     *)
(* that was tracked when Stop was called has been served to the end: its   *)
(* handler has called Done.  It is not so for a connection that the accept *)
(* loop still holds at that time: connWG.Add(1) may come after Wait has    *)
(* seen zero, and then Stop returns while that connection is being served. *)
DrainTracked ==
    stopPC \in {"remove", "returned"} => \A c \in atStop : hpc[c] = "gone"

(* A connection that was tracked when Stop was called is torn down, even   *)
(* if its client never sends or closes anything, because of the drain      *)
(* timeout and the sweep (server.go:237-248), unless its own handler waits *)
(* for ever for a worker (server.go:397, 430), which has no deadline.      *)
TrackedIsTornDown ==
    \A c \in Conns : (c \in atStop) ~> (hpc[c] = "gone" \/ [](c \in busy))

(* When clients do not stay for ever, a connection the kernel queued is    *)
(* served to the end or reset, even while the server is full, unless its   *)
(* own handler waits for ever for a worker, or handlers that do hold every *)
(* slot: a command without an end keeps the slot of a client that has long *)
(* left (server.go:268, 281, 430).                                         *)
AdmissionProgress ==
    PatientClients =>
        \A c \in Conns :
            (link[c] = "backlog")
                ~> \/ hpc[c] = "gone"
                   \/ link[c] = "closed" /\ hpc[c] = "none"
                   \/ [](c \in busy)
                   \/ \E S \in SUBSET Conns :
                        Cardinality(S) = MaxConns /\ [](S \subseteq busy)

(* Stop returns once it is called, unless a handler waits for ever for a   *)
(* worker (server.go:210-251).                                             *)
StopTerminates ==
    (stopPC = "close") ~> (stopPC = "returned" \/ \E c \in Conns : [](c \in busy))

(* When clients do not stay for ever, it does. *)
StopTerminatesInTheEnd == PatientClients => StopTerminates
=============================================================================
