------------------------------ MODULE Forwarder ------------------------------
(***************************************************************************)
(* One command line given to the multicall binary (cmd/goposix/main.go)    *)
(* while daemons come and go: TryForward and forwardToDaemon               *)
(* (forwarder.go) hand the command to a daemon through its socket, and a   *)
(* negative answer makes main run it itself, the cold start.               *)
(*                                                                         *)
(* A daemon's life is Start, Stop and RunDaemon (internal/daemon/server.go) *)
(* as far as the socket file is concerned.  What it does with the request  *)
(* is reduced to: run the command or answer with an error.                 *)
(***************************************************************************)
EXTENDS Integers

CONSTANTS
    Daemons,   \* daemon processes, each started at most once
    NoSocket,  \* the socket path does not exist
    Codes,     \* what a command's Run may return; negative for a child
               \* that a signal ended (nice, nohup, taskset)
    Kinds      \* command lines: a "command", an "unknown" one, a "meta" flag,
               \* "upgrade", the meta flag that the forwarder does not know, or
               \* "builtin", the name of a method that only the daemon has

ASSUME ForwarderAssumption ==
    /\ NoSocket \notin Daemons
    /\ Codes \subseteq Int
    /\ Kinds \subseteq {"command", "unknown", "meta", "upgrade", "builtin"}

(* A response is an error or a code; status -1 is a process still running. *)
NoAnswer == [tag |-> "none", code |-> 0]
ErrorAnswer == [tag |-> "error", code |-> 0]
CodeAnswer(code) == [tag |-> "code", code |-> code]
Running == -1

VARIABLES
    phase,    \* each daemon: "new", "binding", "up", "draining", "gone"
    sock,     \* the daemon whose socket file is at the path, or NoSocket
    kind,     \* the command line
    piped,    \* standard input is not a terminal
    pc,       \* main: "check", "dial", "send", "await", "cold", "done"
    server,   \* the daemon main is connected to, or NoSocket
    conn,     \* the connection: "closed" or "open"
    job,      \* the request at the daemon: "none", "queued", "running", "over"
    answer,   \* the response on the connection
    slipped,  \* history: the write failed after the whole request was out
    starts,   \* history: how often the command was started
    ended,    \* history: what the runs that came to an end returned
    status    \* main's exit status, or Running

vars == <<phase, sock, kind, piped, pc, server, conn, job, answer, slipped, starts, ended,
          status>>

clientVars == <<kind, piped, pc, server, status>>
requestVars == <<conn, job, answer, slipped, starts, ended>>
daemonVars == <<phase, sock>>

Init ==
    /\ phase = [d \in Daemons |-> "new"]
    /\ sock = NoSocket
    /\ kind \in Kinds
    /\ piped \in BOOLEAN
    /\ pc = "check"
    /\ server = NoSocket
    /\ conn = "closed"
    /\ job = "none"
    /\ answer = NoAnswer
    /\ slipped = FALSE
    /\ starts = 0
    /\ ended = {}
    /\ status = Running

-----------------------------------------------------------------------------
(* The daemons' side of the socket file. *)

(* Server.Start removes whatever socket file is there ... *)
DaemonRemoves(d) ==
    /\ phase[d] = "new"
    /\ phase' = [phase EXCEPT ![d] = "binding"]
    /\ sock' = NoSocket
    /\ UNCHANGED <<clientVars, requestVars>>

(* ... and listens; net.Listen fails if the path has been taken meanwhile. *)
DaemonListens(d) ==
    /\ phase[d] = "binding"
    /\ IF sock = NoSocket
       THEN sock' = d /\ phase' = [phase EXCEPT ![d] = "up"]
       ELSE phase' = [phase EXCEPT ![d] = "gone"] /\ UNCHANGED sock
    /\ UNCHANGED <<clientVars, requestVars>>

(* Server.Stop closes the listener, which unlinks the path. *)
DaemonCloses(d) ==
    /\ phase[d] = "up"
    /\ phase' = [phase EXCEPT ![d] = "draining"]
    /\ sock' = NoSocket
    /\ UNCHANGED <<clientVars, requestVars>>

(* The drain times out: the connection is closed under the request. *)
DaemonCutsOff(d) ==
    /\ phase[d] = "draining"
    /\ server = d
    /\ conn = "open"
    /\ conn' = "closed"
    /\ UNCHANGED <<daemonVars, clientVars, job, answer, starts, ended, slipped>>

(* The handlers have returned; Stop removes the path once more. *)
DaemonEnds(d) ==
    /\ phase[d] = "draining"
    /\ server = d => conn = "closed" /\ job \notin {"queued", "running"}
    /\ phase' = [phase EXCEPT ![d] = "gone"]
    /\ sock' = NoSocket
    /\ UNCHANGED <<clientVars, requestVars>>

(* The daemon is killed: its socket file stays, its request is lost. *)
DaemonDies(d) ==
    /\ phase[d] \in {"binding", "up", "draining"}
    /\ phase' = [phase EXCEPT ![d] = "gone"]
    /\ conn' = IF server = d THEN "closed" ELSE conn
    /\ job' = IF server = d /\ job # "none" THEN "over" ELSE job
    /\ UNCHANGED <<sock, clientVars, answer, starts, ended, slipped>>

Daemon(d) ==
    \/ DaemonRemoves(d) \/ DaemonListens(d) \/ DaemonCloses(d)
    \/ DaemonCutsOff(d) \/ DaemonEnds(d) \/ DaemonDies(d)

-----------------------------------------------------------------------------
(* The request at the daemon.  It goes on when the client has given up.     *)

(* processRequest runs the command. *)
DaemonRuns ==
    /\ job = "queued"
    /\ kind = "command"
    /\ job' = "running"
    /\ starts' = starts + 1
    /\ UNCHANGED <<daemonVars, clientVars, conn, answer, ended, slipped>>

(* The command returns and its result is sent, if anyone still listens. *)
DaemonAnswers(code) ==
    /\ job = "running"
    /\ job' = "over"
    /\ ended' = ended \cup {code}
    /\ answer' = IF conn = "open" THEN CodeAnswer(code) ELSE answer
    /\ UNCHANGED <<daemonVars, clientVars, conn, starts, slipped>>

(* ping, session.create and shell.exec are methods of the daemon itself:    *)
(* it answers with a result in which the client finds no exit code, and    *)
(* takes it for 0.                                                          *)
DaemonBuiltin ==
    /\ job = "queued"
    /\ kind = "builtin"
    /\ job' = "over"
    /\ answer' = IF conn = "open" THEN CodeAnswer(0) ELSE answer
    /\ UNCHANGED <<daemonVars, clientVars, conn, starts, ended, slipped>>

(* No such method, a path that escapes, a request over the limits, or one   *)
(* of the daemon's methods that wants a session: an error, and no run.      *)
DaemonRefuses ==
    /\ job = "queued"
    /\ job' = "over"
    /\ answer' = IF conn = "open" THEN ErrorAnswer ELSE answer
    /\ UNCHANGED <<daemonVars, clientVars, conn, starts, ended, slipped>>

-----------------------------------------------------------------------------
(* The client, main and TryForward. *)

ColdStart == pc' = "cold"

(* os.Exit keeps the low eight bits. *)
Exit(code) == pc' = "done" /\ status' = code % 256 /\ conn' = "closed"

(* TryForward: forward only if the path is a socket and standard input is a *)
(* terminal; forwardToDaemon forwards no bare invocation and no meta flag.  *)
Check ==
    /\ pc = "check"
    /\ IF sock = NoSocket \/ piped \/ kind = "meta" THEN ColdStart ELSE pc' = "dial"
    /\ UNCHANGED <<daemonVars, requestVars, kind, piped, server, status>>

(* net.DialTimeout reaches the daemon that listens on the path. *)
Dial ==
    /\ pc = "dial"
    /\ sock # NoSocket
    /\ phase[sock] = "up"
    /\ pc' = "send"
    /\ server' = sock
    /\ conn' = "open"
    /\ UNCHANGED <<daemonVars, kind, piped, status, job, answer, starts, ended, slipped>>

(* The path is gone, nobody listens, or the daemon does not take it in time. *)
DialFails ==
    /\ pc = "dial"
    /\ ColdStart
    /\ UNCHANGED <<daemonVars, requestVars, kind, piped, server, status>>

Send ==
    /\ pc = "send"
    /\ conn = "open"
    /\ pc' = "await"
    /\ job' = "queued"
    /\ UNCHANGED <<daemonVars, kind, piped, server, status, conn, answer, starts, ended, slipped>>

(* The connection breaks, or the deadline passes, before the write is over. *)
(* The newline at its end may be all that is missing: the daemon's decoder  *)
(* does not wait for it, and takes up the request.                          *)
SendFails ==
    /\ pc = "send"
    /\ ColdStart
    /\ conn' = "closed"
    /\ \/ UNCHANGED <<job, slipped>>
       \/ conn = "open" /\ job' = "queued" /\ slipped' = TRUE
    /\ UNCHANGED <<daemonVars, kind, piped, server, status, answer, starts, ended>>

(* The response arrives: 126 for an error, else the command's own code,     *)
(* which main takes for "not forwarded" when it is negative.                *)
Receive ==
    /\ pc = "await"
    /\ answer # NoAnswer
    /\ \/ answer.tag = "error" /\ Exit(126)
       \/ answer.tag = "code" /\ answer.code >= 0 /\ Exit(answer.code)
       \/ /\ answer.tag = "code" /\ answer.code < 0
          /\ ColdStart /\ conn' = "closed" /\ UNCHANGED status
    /\ UNCHANGED <<daemonVars, kind, piped, server, job, answer, starts, ended, slipped>>

(* Mutant of ReceiveFails: the connection has no deadline. *)
ReceiveWithoutDeadline ==
    /\ pc = "await"
    /\ conn = "closed"
    /\ Exit(126)
    /\ UNCHANGED <<daemonVars, kind, piped, server, job, answer, starts, ended, slipped>>

(* Mutant of ReceiveFails: an unreadable response makes main start cold. *)
ReceiveFailsCold ==
    /\ pc = "await"
    /\ ColdStart
    /\ conn' = "closed"
    /\ UNCHANGED <<daemonVars, kind, piped, server, status, job, answer, starts, ended, slipped>>

(* The connection ends without a response, or the deadline passes: 126. *)
ReceiveFails ==
    /\ pc = "await"
    /\ Exit(126)
    /\ UNCHANGED <<daemonVars, kind, piped, server, job, answer, starts, ended, slipped>>

(* The cold start: Run dispatches in this process, 127 if it knows no such  *)
(* command.                                                                 *)
ColdRun(code) ==
    /\ pc = "cold"
    /\ kind \notin {"unknown", "builtin"}
    /\ kind = "meta" => code = 0
    /\ Exit(code)
    /\ starts' = starts + 1
    /\ ended' = ended \cup {code}
    /\ UNCHANGED <<daemonVars, kind, piped, server, job, answer, slipped>>

ColdUnknown ==
    /\ pc = "cold"
    /\ kind \in {"unknown", "builtin"}
    /\ Exit(127)
    /\ UNCHANGED <<daemonVars, kind, piped, server, job, answer, starts, ended, slipped>>

Cold == ColdUnknown \/ \E code \in Codes : ColdRun(code)

Client == Check \/ Dial \/ DialFails \/ Send \/ SendFails \/ Receive \/ ReceiveFails \/ Cold

Next ==
    \/ \E d \in Daemons : Daemon(d)
    \/ DaemonRuns
    \/ \E code \in Codes : DaemonAnswers(code)
    \/ DaemonBuiltin
    \/ DaemonRefuses
    \/ Client

(* The client always takes its next step: its calls have deadlines, and a   *)
(* cold command is one that ends.                                           *)
Spec == Init /\ [][Next]_vars /\ WF_vars(Client)

-----------------------------------------------------------------------------
(* A command line is carried out at most once, by a daemon or by this       *)
(* process, whatever daemons start, stop and die and whatever calls fail,   *)
(* unless the daemon's answer was a negative code, or the write failed when *)
(* nothing but its newline was left (forwarder.go:92-134).                  *)
OnceUnlessSignalled ==
    starts > 1 => slipped \/ (answer.tag = "code" /\ answer.code < 0)

(* A command whose result the daemon has sent is not run again by the       *)
(* caller, for -1 is returned only "if forwarding was not attempted"        *)
(* (forwarder.go:138-139).                                                  *)
ForwardedOnce == answer.tag = "code" => starts <= 1

=============================================================================
