------------------------------ MODULE Execution ------------------------------
(***************************************************************************)
(* The inside of processRequest (internal/daemon/server.go): what a worker *)
(* does between taking a request up and writing its response, with all the *)
(* state requests share while they run: the counters that the telemetry    *)
(* endpoints read (internal/daemon/observability.go), the pool of output   *)
(* buffers, and the working directory of the process, which tar -C changes *)
(* (pkg/tar/tar.go).                                                       *)
(*                                                                         *)
(* Atomic operations, critical sections of Metrics.mu and calls of         *)
(* sync.Pool are single steps; nothing else is protected, so everything    *)
(* else may happen between two of them.  Output is counted in units; unit  *)
(* k that request n writes on a stream is <<n, stream, k>>.                *)
(*                                                                         *)
(* start-stop-daemon -b starts its command with the request's two writers  *)
(* and does not wait for it (pkg/start-stop-daemon/start-stop-daemon.go):  *)
(* what copies the child's output goes on writing to the two buffers when  *)
(* they have long been put back, and taken by others.                      *)
(***************************************************************************)
EXTENDS Integers, Sequences, FiniteSetsExt

CONSTANTS
    Workers,       \* the pool's workers
    Loads,         \* workloads: the requests clients may send, the reports asked
                   \* for, and how many requests are taken up and refused
    Limit,         \* LimitWriter.Limit, in units
    Home,          \* the directory the daemon was started in
    Dirs,          \* directories named with tar -C
    Missing,       \* those of them that do not exist
    NoDir          \* no -C

(* A request: its method; whether it has an id and asks for raw output;    *)
(* how the utility ends: by itself ("once"); at the first write that fails *)
(* ("error"), as yes does; or not at all ("never"), like tail -f, printf   *)
(* with arguments for a format that takes none, dd conv=noerror or od on a *)
(* file that cannot be read, a sed script that branches back for ever, and *)
(* whatever waits for input that never comes; how many units it has        *)
(* written on standard output after each of its writes, and the units on   *)
(* standard error; whether its output is a JSON envelope; the directory    *)
(* tar works in; whether it leaves a child behind.  "builtin" methods,     *)
(* those of sessions and ping, run no utility.                             *)
Shape == [method : STRING, hasId : BOOLEAN, raw : BOOLEAN,
          ends : {"builtin", "once", "error", "never"},
          out : Seq(Nat), err : Nat, envelope : {"none", "data", "error"},
          dir : Dirs \cup {NoDir, Home}, leaves : BOOLEAN]

Requests == UNION {l.requests : l \in Loads}

(* The bytes.Buffers there may be: two per worker are in use at most. *)
Buffers == 1 .. 2 * Cardinality(Workers)

ASSUME ExecutionAssumption ==
    /\ \A l \in Loads : /\ l.requests \subseteq Shape
                        /\ l.reports \subseteq {"status", "metrics", "title"}
                        /\ l.taken \in Nat /\ l.limited \in Nat
    /\ Limit \in Nat \ {0}
    /\ NoDir \notin Dirs /\ Home \notin Dirs /\ Missing \subseteq Dirs
    /\ IsFiniteSet(Workers)
    /\ \A r \in Requests :
           /\ \A i, k \in DOMAIN r.out : i < k => r.out[i] <= r.out[k]
           /\ r.ends \in {"error", "never"} => Len(r.out) = 1 /\ r.err = 0
           /\ r.dir \in Dirs => r.ends = "once" /\ ~r.leaves
           /\ r.dir \in Missing => r.out = <<>> /\ r.err = 0

Methods == {r.method : r \in Requests}

VARIABLES
    load,      \* the workload, chosen once
    pc,        \* where each worker is
    req,       \* the request it handles
    no,        \* its number
    bufs,      \* the buffers it took for standard output and error
    wrote,     \* LimitWriter.Wrote of its two writers
    at,        \* how many writes the utility has made
    saved,     \* tar's curDir
    result,    \* the response processRequest returned
    taken,     \* how many requests have been taken up
    pool,      \* bufferPool
    content,   \* what each buffer holds
    strays,    \* the buffers that children left behind may write to
    pwd,       \* the working directory of the process
    total,     \* Server.totalRequests
    active,    \* Server.activeWorkers
    counts,    \* Metrics.durationCounts
    limited,   \* Metrics.rateLimitedTotal
    created,   \* SessionManager.totalSessionsCreated
    live,      \* how many sessions there are
    report,    \* the report under way or done: what was read so far
    clash,     \* history: a relative name was used while tar had moved pwd
    astray,    \* history: a name was looked up in a directory not meant
    tainted    \* history: a child wrote into a buffer the worker held

workerVars == <<pc, req, no, bufs, wrote, at, saved, result, taken>>
sessionVars == <<created, live>>
counterVars == <<total, active, counts, limited>>
childVars == <<strays, tainted>>
history == <<clash, astray, load>>
vars == <<workerVars, pool, content, childVars, pwd, counterVars, sessionVars, report, history>>

NoRequest == [ends |-> "none"]
NoResult == [form |-> "none"]
NoBuffer == <<>>
Leftover == << <<0, "left", 0>> >>

(* A report: how far it is, whether nothing has run since it was started,   *)
(* with the total of that time, and the figures it has read.                *)
Figures == {"methods", "sessions", "active", "created", "total", "limited"}
NewReport(kind, calm, from) ==
    [kind |-> kind, next |-> 1, calm |-> calm, from |-> from,
     figure |-> [f \in Figures |-> 0]]

Go(w, place) == pc' = [pc EXCEPT ![w] = place]

Init ==
    /\ load \in Loads
    /\ pc = [w \in Workers |-> "idle"]
    /\ req = [w \in Workers |-> NoRequest]
    /\ no = [w \in Workers |-> 0]
    /\ bufs = [w \in Workers |-> NoBuffer]
    /\ wrote = [w \in Workers |-> <<0, 0>>]
    /\ at = [w \in Workers |-> 0]
    /\ saved = [w \in Workers |-> NoDir]
    /\ result = [w \in Workers |-> NoResult]
    /\ taken = 0
    /\ pool = {}
    /\ content = [b \in Buffers |-> <<>>]
    /\ pwd = Home
    /\ total = 0 /\ active = 0 /\ limited = 0
    /\ counts = [m \in Methods |-> 0]
    /\ created = 0 /\ live = 0
    /\ report = NewReport("none", FALSE, 0)
    /\ clash = FALSE
    /\ astray = FALSE
    /\ strays = {}
    /\ tainted = [w \in Workers |-> FALSE]

-----------------------------------------------------------------------------
(* Counting a request in and out. *)

(* A worker takes up a request. *)
Begin(w, r) ==
    /\ pc[w] = "idle"
    /\ r \in load.requests
    /\ taken < load.taken
    /\ taken' = taken + 1
    /\ req' = [req EXCEPT ![w] = r]
    /\ no' = [no EXCEPT ![w] = taken + 1]
    /\ Go(w, "total")
    /\ UNCHANGED <<bufs, wrote, at, saved, result, pool, content, pwd, childVars,
                   counterVars, sessionVars, report, history>>

(* atomic.AddInt64(&s.totalRequests, 1). *)
CountTotal(w) ==
    /\ pc[w] = "total"
    /\ total' = total + 1
    /\ Go(w, "active")
    /\ UNCHANGED <<req, no, bufs, wrote, at, saved, result, taken, pool, content, pwd,
                   childVars, active, counts, limited, sessionVars, report, history>>

(* atomic.AddInt32(&s.activeWorkers, 1); from here the methods part ways. *)
CountActive(w) ==
    /\ pc[w] = "active"
    /\ active' = active + 1
    /\ Go(w, IF req[w].ends = "builtin" THEN "builtin" ELSE "buffers")
    /\ UNCHANGED <<req, no, bufs, wrote, at, saved, result, taken, pool, content, pwd,
                   childVars, total, counts, limited, sessionVars, report, history>>

(* The deferred RecordRequest, a critical section of Metrics.mu. *)
Record(w) ==
    /\ pc[w] = "record"
    /\ counts' = [counts EXCEPT ![req[w].method] = @ + 1]
    /\ Go(w, "inactive")
    /\ UNCHANGED <<req, no, bufs, wrote, at, saved, result, taken, pool, content, pwd,
                   childVars, total, active, limited, sessionVars, report, history>>

(* The deferred atomic.AddInt32(&s.activeWorkers, -1), the last to run. *)
CountInactive(w) ==
    /\ pc[w] = "inactive"
    /\ active' = active - 1
    /\ Go(w, "encode")
    /\ UNCHANGED <<req, no, bufs, wrote, at, saved, result, taken, pool, content, pwd,
                   childVars, total, counts, limited, sessionVars, report, history>>

(* handleConn refuses a request: RecordRateLimited. *)
Refuse ==
    /\ limited < load.limited
    /\ limited' = limited + 1
    /\ UNCHANGED <<workerVars, pool, content, pwd, childVars, total, active, counts,
                   sessionVars, report, history>>

-----------------------------------------------------------------------------
(* Methods without a utility. *)

(* session.create counts and adds a session, session.destroy removes one;   *)
(* a request without id does neither.                                       *)
Builtin(w) ==
    /\ pc[w] = "builtin"
    /\ LET r == req[w]
       IN  /\ created' = IF r.method = "session.create" /\ r.hasId THEN created + 1
                         ELSE created
           /\ live' = IF r.method = "session.create" /\ r.hasId THEN live + 1
                      ELSE IF r.method = "session.destroy" /\ r.hasId /\ live > 0 THEN live - 1
                      ELSE live
           /\ result' = [result EXCEPT ![w] =
                           IF r.hasId THEN [form |-> "builtin"] ELSE NoResult]
    /\ Go(w, "record")
    /\ UNCHANGED <<req, no, bufs, wrote, at, saved, taken, pool, content, pwd, childVars,
                   counterVars, report, history>>

-----------------------------------------------------------------------------
(* Running a utility. *)

(* What bufferPool.Get may return: a buffer that was put back or a new one. *)
(* Buffers of the same sort and content, both or neither in a child's hands, *)
(* are interchangeable, so the two least numbers of each stand for all.      *)
Available ==
    LET new == {b \in Buffers \ pool :
                   \A v \in Workers : bufs[v] # NoBuffer => b \notin {bufs[v][1], bufs[v][2]}}
        Alike(x, b) == content[x] = content[b] /\ (x \in strays <=> b \in strays)
        Least(S) == {b \in S : Cardinality({x \in S : x < b /\ Alike(x, b)}) < 2}
    IN  Least(pool) \cup Least(new)

(* Mutant of TakeBuffers: the buffers are not Reset. *)
TakeBuffersDirty(w, b, e) ==
    /\ pc[w] = "buffers"
    /\ b # e
    /\ {b, e} \subseteq Available
    /\ bufs' = [bufs EXCEPT ![w] = <<b, e>>]
    /\ pool' = pool \ {b, e}
    /\ content' = [x \in Buffers |->
                     IF x \in {b, e} /\ x \notin pool THEN <<>> ELSE content[x]]
    /\ wrote' = [wrote EXCEPT ![w] = <<0, 0>>]
    /\ at' = [at EXCEPT ![w] = 0]
    /\ tainted' = [tainted EXCEPT ![w] = FALSE]
    /\ Go(w, IF req[w].dir \in Dirs THEN "abs" ELSE IF req[w].leaves THEN "spawn" ELSE "work")
    /\ UNCHANGED <<req, no, saved, result, taken, pwd, strays, counterVars, sessionVars,
                   report, history>>

(* Two buffers from the pool, each one that was put back or a new one,      *)
(* since sync.Pool may drop what it holds; both are Reset.                  *)
TakeBuffers(w, b, e) ==
    /\ pc[w] = "buffers"
    /\ b # e
    /\ {b, e} \subseteq Available
    /\ bufs' = [bufs EXCEPT ![w] = <<b, e>>]
    /\ pool' = pool \ {b, e}
    /\ content' = [x \in Buffers |-> IF x \in {b, e} THEN <<>> ELSE content[x]]
    /\ wrote' = [wrote EXCEPT ![w] = <<0, 0>>]
    /\ at' = [at EXCEPT ![w] = 0]
    /\ tainted' = [tainted EXCEPT ![w] = FALSE]
    /\ Go(w, IF req[w].dir \in Dirs THEN "abs" ELSE IF req[w].leaves THEN "spawn" ELSE "work")
    /\ UNCHANGED <<req, no, saved, result, taken, pwd, strays, counterVars, sessionVars,
                   report, history>>

(* start-stop-daemon -b: cmd.Start, and no Wait. *)
Spawn(w) ==
    /\ pc[w] = "spawn"
    /\ strays' = strays \cup {bufs[w][1], bufs[w][2]}
    /\ Go(w, "work")
    /\ UNCHANGED <<req, no, bufs, wrote, at, saved, result, taken, pool, content, pwd, tainted,
                   counterVars, sessionVars, report, history>>

(* A child, or rather what copies its output, writes to its buffer, whoever *)
(* holds that by now.  Nothing orders this with what the holder does, so    *)
(* what the buffer then holds is anything.  The child may write for ever or *)
(* never; that its writer, too, has a limit is left out.                    *)
ChildWrites(b) ==
    /\ b \in strays
    /\ content' = [content EXCEPT ![b] = Leftover]
    /\ tainted' = [w \in Workers |->
                     tainted[w] \/ (bufs[w] # NoBuffer /\ b \in {bufs[w][1], bufs[w][2]})]
    /\ UNCHANGED <<workerVars, pool, strays, pwd, counterVars, sessionVars, report, history>>

(* The directory in which the utility means its relative names: Home for a  *)
(* utility like cat, which ignores the directory it is passed.              *)
Meant(r) == IF r.dir = NoDir THEN Home ELSE r.dir

UsesNames(r) == r.dir # NoDir

(* Another worker is between os.Getwd and the deferred os.Chdir back. *)
Moved(w) ==
    \E v \in Workers \ {w} : /\ pc[v] \in {"chdir", "work", "restore"}
                             /\ req[v].dir \in Dirs

(* tar -C: the archive's name is made absolute, ... *)
ResolveArchive(w) ==
    /\ pc[w] = "abs"
    /\ clash' = (clash \/ Moved(w))
    /\ astray' = (astray \/ pwd # Home)
    /\ Go(w, "save")
    /\ UNCHANGED <<req, no, bufs, wrote, at, saved, result, taken, pool, content, pwd,
                   childVars, counterVars, sessionVars, report, load>>

(* ... os.Getwd() notes where to return to, ... *)
SaveDir(w) ==
    /\ pc[w] = "save"
    /\ saved' = [saved EXCEPT ![w] = pwd]
    /\ clash' = (clash \/ Moved(w))
    /\ Go(w, "chdir")
    /\ UNCHANGED <<req, no, bufs, wrote, at, result, taken, pool, content, pwd, childVars,
                   counterVars, sessionVars, report, astray, load>>

(* ... and os.Chdir(dir) moves the process, or tar gives up. *)
Chdir(w) ==
    /\ pc[w] = "chdir"
    /\ pwd' = IF req[w].dir \in Missing THEN pwd ELSE req[w].dir
    /\ Go(w, IF req[w].dir \in Missing THEN "respond" ELSE "work")
    /\ UNCHANGED <<req, no, bufs, wrote, at, saved, result, taken, pool, content, childVars,
                   counterVars, sessionVars, report, history>>

(* Mutant of LimitWrite: what is beyond the limit is dropped in silence. *)
LimitWriteQuiet(wr, p) ==
    [p |-> SubSeq(p, 1, Min({Len(p), Limit - wr})), failed |-> FALSE]

(* LimitWriter.Write with wr units written before: the part of p that still *)
(* fits goes to the buffer, and an error says that not all of it did.       *)
LimitWrite(wr, p) ==
    [p |-> SubSeq(p, 1, Min({Len(p), Limit - wr})),
     failed |-> wr >= Limit \/ wr + Len(p) > Limit]

(* m units of a request's output on stream s, after the first i. *)
Units(n, s, i, m) == [k \in 1 .. m |-> <<n, s, i + k>>]

(* How many units the first k writes on standard output come to; a utility  *)
(* that goes on for ever repeats its only write.                            *)
Offset(r, k) ==
    IF k = 0 THEN 0 ELSE IF r.ends = "once" THEN r.out[k] ELSE k * r.out[1]

(* The utility looks its names up, if it uses any, and makes its next write *)
(* on standard output; yes and the like return when it fails.  The writes   *)
(* of an endless one are no longer counted once they all fail.              *)
Work(w) ==
    /\ pc[w] = "work"
    /\ LET r == req[w]
           more == r.ends # "once" \/ at[w] < Len(r.out)
           before == Offset(r, at[w])
           size == Offset(r, at[w] + 1) - before
           res == LimitWrite(wrote[w][1], Units(no[w], "out", before, size))
       IN  /\ more
           /\ wrote' = [wrote EXCEPT ![w] = <<@[1] + Len(res.p), @[2]>>]
           /\ content' = [content EXCEPT ![bufs[w][1]] = @ \o res.p]
           /\ at' = [at EXCEPT ![w] = IF r.ends # "once" /\ wrote[w][1] >= Limit THEN @
                                      ELSE @ + 1]
           /\ Go(w, IF r.ends = "error" /\ res.failed THEN "restore" ELSE "work")
           /\ clash' = (clash \/ (UsesNames(r) /\ Moved(w)))
           /\ astray' = (astray \/ (UsesNames(r) /\ pwd # Meant(r)))
    /\ UNCHANGED <<req, no, bufs, saved, result, taken, pool, pwd, childVars, counterVars,
                   sessionVars, report, load>>

(* The utility has made its writes, says what there is to say on standard   *)
(* error, and returns.                                                      *)
Finish(w) ==
    /\ pc[w] = "work"
    /\ req[w].ends = "once"
    /\ at[w] = Len(req[w].out)
    /\ LET res == LimitWrite(0, Units(no[w], "err", 0, req[w].err))
       IN  /\ content' = [content EXCEPT ![bufs[w][2]] = @ \o res.p]
           /\ wrote' = [wrote EXCEPT ![w] = <<@[1], Len(res.p)>>]
    /\ Go(w, "restore")
    /\ UNCHANGED <<req, no, bufs, at, saved, result, taken, pool, pwd, childVars,
                   counterVars, sessionVars, report, history>>

(* Mutant of Restore: tar leaves the directory as it is. *)
RestoreNot(w) ==
    /\ pc[w] = "restore"
    /\ Go(w, "respond")
    /\ UNCHANGED <<req, no, bufs, wrote, at, saved, result, taken, pool, content, pwd,
                   childVars, counterVars, sessionVars, report, history>>

(* tar's deferred os.Chdir(curDir). *)
Restore(w) ==
    /\ pc[w] = "restore"
    /\ pwd' = IF req[w].dir \in Dirs THEN saved[w] ELSE pwd
    /\ Go(w, "respond")
    /\ UNCHANGED <<req, no, bufs, wrote, at, saved, result, taken, pool, content, childVars,
                   counterVars, sessionVars, report, history>>

(* The response: none without an id, the text if raw output was asked for,  *)
(* the envelope's data or error if the output parses as one, else the text. *)
Respond(w) ==
    /\ pc[w] = "respond"
    /\ LET r == req[w]
           out == content[bufs[w][1]]
           parses == r.envelope # "none" /\ Len(out) = Offset(r, Len(r.out))
           form == IF r.raw THEN "raw" ELSE IF parses THEN r.envelope ELSE "text"
       IN  result' = [result EXCEPT ![w] =
                        IF r.hasId THEN [form |-> form, out |-> out,
                                         err |-> content[bufs[w][2]]]
                        ELSE NoResult]
    /\ Go(w, "put")
    /\ UNCHANGED <<req, no, bufs, wrote, at, saved, taken, pool, content, pwd, childVars,
                   counterVars, sessionVars, report, history>>

(* The deferred calls of bufferPool.Put.  What a buffer still holds then is *)
(* told apart from nothing and from any request's output, no further.       *)
PutBuffers(w) ==
    /\ pc[w] = "put"
    /\ pool' = pool \cup {bufs[w][1], bufs[w][2]}
    /\ content' = [b \in Buffers |->
                     IF b \in {bufs[w][1], bufs[w][2]} /\ content[b] # <<>> THEN Leftover
                     ELSE content[b]]
    /\ bufs' = [bufs EXCEPT ![w] = NoBuffer]
    /\ Go(w, "record")
    /\ UNCHANGED <<req, no, wrote, at, saved, result, taken, pwd, childVars, counterVars,
                   sessionVars, report, history>>

(* The response, if there is one, is encoded after processRequest returned. *)
Encode(w) ==
    /\ pc[w] = "encode"
    /\ Go(w, "idle")
    /\ req' = [req EXCEPT ![w] = NoRequest]
    /\ no' = [no EXCEPT ![w] = 0]
    /\ wrote' = [wrote EXCEPT ![w] = <<0, 0>>]
    /\ at' = [at EXCEPT ![w] = 0]
    /\ saved' = [saved EXCEPT ![w] = NoDir]
    /\ result' = [result EXCEPT ![w] = NoResult]
    /\ UNCHANGED <<bufs, taken, pool, content, pwd, childVars, counterVars, sessionVars,
                   report, history>>

-----------------------------------------------------------------------------
(* The reports: /status, /metrics and the process title each read the       *)
(* shared counters one after another.                                       *)

(* Mutant of StatusReads: the totals are read before what they sum up. *)
StatusReadsTotalsFirst == <<"total", "created", "methods", "sessions", "active", "limited">>

(* The order of handleStatus. *)
StatusReads == <<"methods", "sessions", "active", "created", "total", "limited">>

(* The order of handleMetrics. *)
MetricsReads == <<"total", "active", "sessions", "limited", "methods">>

(* The order of procTitle. *)
TitleReads == <<"active", "sessions", "total">>

Reads == [status |-> StatusReads, metrics |-> MetricsReads, title |-> TitleReads]

(* The calls of all methods together: one for every method and every number *)
(* it has counted.                                                          *)
Calls == Cardinality(UNION {{m} \X (1 .. counts[m]) : m \in Methods})

Counters == [methods |-> Calls, sessions |-> live, active |-> active, created |-> created,
             total |-> total, limited |-> limited]

(* No request is being processed. *)
Calm == \A w \in Workers : pc[w] \in {"idle", "total", "encode"}

StartReport(kind) ==
    /\ report.kind = "none"
    /\ kind \in load.reports
    /\ report' = NewReport(kind, Calm, total)
    /\ UNCHANGED <<workerVars, pool, content, pwd, childVars, counterVars, sessionVars,
                   history>>

ReadNext ==
    /\ report.kind # "none"
    /\ report.next <= Len(Reads[report.kind])
    /\ LET field == Reads[report.kind][report.next]
       IN  report' = [kind |-> report.kind, next |-> report.next + 1,
                      calm |-> report.calm /\ Calm /\ total = report.from,
                      from |-> report.from,
                      figure |-> [report.figure EXCEPT ![field] = Counters[field]]]
    /\ UNCHANGED <<workerVars, pool, content, pwd, childVars, counterVars, sessionVars,
                   history>>

-----------------------------------------------------------------------------
Worker(w) ==
    \/ CountTotal(w) \/ CountActive(w) \/ Builtin(w)
    \/ \E b \in Buffers, e \in Buffers : TakeBuffers(w, b, e)
    \/ Spawn(w) \/ ResolveArchive(w) \/ SaveDir(w) \/ Chdir(w) \/ Work(w) \/ Finish(w) \/ Restore(w)
    \/ Respond(w) \/ PutBuffers(w) \/ Record(w) \/ CountInactive(w) \/ Encode(w)

Next ==
    \/ \E w \in Workers : Worker(w) \/ \E r \in Requests : Begin(w, r)
    \/ \E b \in Buffers : ChildWrites(b)
    \/ Refuse
    \/ \E kind \in {"status", "metrics", "title"} : StartReport(kind)
    \/ ReadNext

(* Workers are goroutines, which the scheduler keeps running. *)
Spec == Init /\ [][Next]_vars /\ \A w \in Workers : WF_vars(Worker(w))

-----------------------------------------------------------------------------
(* What a request's utility wrote on standard output, up to the limit. *)
Kept(n, r) ==
    LET all == IF r.ends = "once" THEN Offset(r, Len(r.out)) ELSE Limit
    IN  Units(n, "out", 0, Min({all, Limit}))

(* The response a worker is about to encode holds what its own request's    *)
(* utility wrote, all of it up to the limit and nothing else, although      *)
(* buffers pass from request to request; and output that was cut short is   *)
(* never passed on as the data of an envelope.  The exception is a request  *)
(* into whose buffers a child wrote that start-stop-daemon -b had left      *)
(* behind, the request's own child or one of an earlier request             *)
(* (server.go:690-699, 714-785, io.go:15-31, start-stop-daemon.go:241-263). *)
AnswersAreTheirOwn ==
    \A w \in Workers :
        pc[w] = "encode" /\ result[w].form \notin {"none", "builtin"} /\ ~tainted[w] =>
            LET r == req[w]
                a == result[w]
            IN  /\ a.out = Kept(no[w], r)
                /\ a.err = Units(no[w], "err", 0, Min({r.err, Limit}))
                /\ a.form \in {"data", "error"} => Len(a.out) = Offset(r, Len(r.out))

Done == report.kind # "none" /\ report.next > Len(Reads[report.kind])

(* Every request is counted once by each counter, and a report of /status   *)
(* adds up although its figures are read one after another: the calls per   *)
(* method come to no more than the total, the sessions to no more than were *)
(* created; no report shows more workers than there are, and one taken      *)
(* while nothing runs agrees with itself (server.go:475-504,                *)
(* observability.go:34-39, 123-128, 208-218, 316-371).                      *)
ReportsAddUp ==
    /\ total = Calls
                 + Cardinality({w \in Workers : pc[w] \notin {"idle", "total", "inactive", "encode"}})
    /\ active = Cardinality({w \in Workers : pc[w] \notin {"idle", "total", "active", "encode"}})
    /\ Done =>
        LET f == report.figure
        IN  /\ f.active <= Cardinality(Workers)
            /\ report.kind = "status" => f.methods <= f.total /\ f.sessions <= f.created
            /\ report.kind # "title" /\ report.calm => f.methods = f.total

(* As long as no two requests used the directory of the process at once,    *)
(* one of them for tar -C, names are looked up in the directory meant, and  *)
(* the process is in its own directory whenever no tar is at work           *)
(* (tar.go:164-185).                                                        *)
DirectoryComesBack ==
    ~clash =>
        /\ ~astray
        /\ (\A w \in Workers : req[w].ends = "none" \/ req[w].dir \notin Dirs
                               \/ pc[w] \notin {"work", "restore"}) => pwd = Home

(* Every request ends whose utility makes finitely many writes, or gives up *)
(* at the first that fails, because the limit makes the writes of endless   *)
(* output fail; those that look at no write error, or wait for ever for     *)
(* something else, keep their worker (io.go:15-31, yes.go:65-74,            *)
(* tail.go:202-211).                                                        *)
RequestsEnd ==
    \A w \in Workers :
        (pc[w] # "idle" /\ req[w].ends # "never") ~> (pc[w] = "idle")
=============================================================================
