---------------------------- MODULE SessionManager ----------------------------
(***************************************************************************)
(* The daemon's sessions (internal/daemon/session.go) and the request      *)
(* handlers that use them (processRequest in internal/daemon/server.go).   *)
(*                                                                         *)
(* Every SessionManager method is one critical section under sm.mu, so one *)
(* step here.  A handler is several of them: session.setCwd calls Get and  *)
(* then SetCwd, shell.exec calls Get, runs the script and calls SetCwd,    *)
(* and other workers, expiry and the clock run in between.  The one reader *)
(* that does not take sm.mu is the encoder of the answer to                *)
(* session.create: it races with the stores of SetCwd (TellReads).         *)
(*                                                                         *)
(* Time is counted in ticks.  Only how long a session has been idle and    *)
(* how long the cleanup ticker still waits matter, so the model keeps those *)
(* instead of absolute times.                                              *)
(*                                                                         *)
(* The file system enters through Landing, what SecurePath followed by     *)
(* os.Stat makes of a path, and Inside, which directory lies physically    *)
(* in which.  MCSessions takes both from module SecurePath.                *)
(***************************************************************************)
EXTENDS Naturals

CONSTANTS
    Ids,       \* session identifiers, each handed out once
    Workers,   \* the pool's workers
    Dirs,      \* the paths of directories a session can be in
    Root,      \* "/"
    Targets,   \* the paths a client may send
    Refused,   \* the answer to a path that is refused
    Landing,   \* path -> base -> directory or Refused
    Escapes,   \* pairs (path, base) for which SecurePath fails
    Inside,    \* pairs (d, e) where d lies physically in e
    TTL,       \* sm.ttl, in ticks
    Interval   \* period of the cleanup ticker, in ticks

Paths == Targets \cup Dirs

ASSUME ClockAssumption == TTL \in Nat /\ Interval \in Nat \ {0}

ASSUME PathAssumption ==
    /\ Root \in Dirs
    /\ Refused \notin Dirs
    /\ Landing \in [Paths -> [Dirs -> Dirs \cup {Refused}]]
    /\ Escapes \subseteq Paths \X Dirs
    /\ Inside \subseteq Dirs \X Dirs

(* What SecurePath promises: a path accepted for a base other than "/"     *)
(* leads to a directory physically inside that base, and every directory   *)
(* lies in itself.                                                         *)
ASSUME SecurePathSound ==
    /\ \A p \in Paths : \A b \in Dirs \ {Root} :
          Landing[p][b] # Refused => <<Landing[p][b], b>> \in Inside
    /\ \A d \in Dirs : <<d, d>> \in Inside

VARIABLES
    live,      \* the keys of sm.sessions
    cwd,       \* Session.CWD of each session ever created
    had,       \* history: the values Session.CWD has had since Create
    base,      \* Session.BaseDir of each session ever created
    idle,      \* ticks since Session.LastActive, counted up to MaxIdle
    used,      \* ids handed out so far
    wait,      \* ticks until the cleanup ticker fires
    cleaning,  \* cleanupLoop runs
    job        \* what each worker is in the middle of

vars == <<live, cwd, had, base, idle, used, wait, cleaning, job>>

manager == <<live, cwd, had, base, idle, used>>

MaxIdle == TTL + Interval + 1

NoJob == [op |-> "none"]
SetJob(id, path) == [op |-> "setCwd", id |-> id, path |-> path]
ExecJob(id, from, dir, bound) ==
    [op |-> "exec", id |-> id, from |-> from, dir |-> dir, bound |-> bound]
RunJob(id, dir, bound) == [op |-> "run", id |-> id, dir |-> dir, bound |-> bound]
TellJob(id, n, seen) == [op |-> "tell", id |-> id, n |-> n, seen |-> seen]

Jobs == {NoJob}
        \cup {SetJob(i, p) : i \in Ids, p \in Targets}
        \cup {ExecJob(i, f, d, b) : i \in Ids, f \in Dirs, d \in Dirs, b \in Dirs}
        \cup {RunJob(i, d, b) : i \in Ids, d \in Dirs, b \in Dirs}
        \cup {TellJob(i, n, s) : i \in Ids, n \in 0..4, s \in [1..4 -> Dirs]}

(* Worker w answers: it is free for another request. *)
Respond(w) == job' = [job EXCEPT ![w] = NoJob]

-----------------------------------------------------------------------------
(* NewSessionManager. *)
Init ==
    /\ live = {}
    /\ cwd = [i \in Ids |-> Root]
    /\ had = [i \in Ids |-> {Root}]
    /\ base = [i \in Ids |-> Root]
    /\ idle = [i \in Ids |-> 0]
    /\ used = {}
    /\ wait = Interval
    /\ cleaning = TRUE
    /\ job = [w \in Workers |-> NoJob]

(* goposix.session.create: Create under a fresh random id.  The response    *)
(* holds the session itself, which is encoded after sm.mu is released.      *)
Create(w, id) ==
    /\ job[w] = NoJob
    /\ id \notin used
    /\ used' = used \cup {id}
    /\ live' = live \cup {id}
    /\ idle' = [idle EXCEPT ![id] = 0]
    /\ job' = [job EXCEPT ![w] = TellJob(id, 0, [k \in 1..4 |-> Root])]
    /\ UNCHANGED <<cwd, had, base, wait, cleaning>>

(* The encoder reads CWD and then BaseDir with no lock, and SetCwd stores    *)
(* them one after the other (session.go:112, 116).  A string is two words,  *)
(* so each field takes two reads.  They are data races: only Create comes   *)
(* before them for certain, and each word may be that of any value the      *)
(* field has had since.                                                     *)
TellReads(w) ==
    /\ job[w].op = "tell"
    /\ job[w].n < 4
    /\ LET id == job[w].id
           k == job[w].n + 1
       IN  \E d \in IF k <= 2 THEN had[id] ELSE {Root, base[id]} :
              job' = [job EXCEPT ![w] = TellJob(id, k, [job[w].seen EXCEPT ![k] = d])]
    /\ UNCHANGED <<manager, wait, cleaning>>

(* The answer to session.create is written. *)
TellEnds(w) ==
    /\ job[w].op = "tell"
    /\ job[w].n = 4
    /\ Respond(w)
    /\ UNCHANGED <<manager, wait, cleaning>>

(* The part of Get that changes the session: LastActive is now. *)
Touch(id) == idle' = [idle EXCEPT ![id] = 0]

(* goposix.session.setCwd, first call: Get finds the session, and the      *)
(* handler goes on to SetCwd.  An unknown id is answered at once.          *)
SetCwdGets(w, id, path) ==
    /\ job[w] = NoJob
    /\ id \in live
    /\ Touch(id)
    /\ job' = [job EXCEPT ![w] = SetJob(id, path)]
    /\ UNCHANGED <<live, cwd, had, base, used, wait, cleaning>>

(* Mutant of SetCwd: the session is put back when it is not in the map. *)
SetCwdRevives(id, path) ==
    LET d == Landing[path][base[id]]
    IN  IF d # Refused
        THEN /\ live' = live \cup {id}
             /\ cwd' = [cwd EXCEPT ![id] = d]
             /\ had' = [had EXCEPT ![id] = @ \cup {d}]
             /\ Touch(id)
             /\ base' = IF base[id] = Root THEN [base EXCEPT ![id] = d] ELSE base
             /\ UNCHANGED used
        ELSE UNCHANGED manager

(* Mutant of SetCwd: the base follows every change of directory. *)
SetCwdMovesBase(id, path) ==
    LET d == Landing[path][base[id]]
    IN  IF id \in live /\ d # Refused
        THEN /\ cwd' = [cwd EXCEPT ![id] = d]
             /\ had' = [had EXCEPT ![id] = @ \cup {d}]
             /\ Touch(id)
             /\ base' = [base EXCEPT ![id] = d]
             /\ UNCHANGED <<live, used>>
        ELSE UNCHANGED manager

(* Mutant of SetCwd: the path is resolved against "/" and not the base. *)
SetCwdFromRoot(id, path) ==
    LET d == Landing[path][Root]
    IN  IF id \in live /\ d # Refused
        THEN /\ cwd' = [cwd EXCEPT ![id] = d]
             /\ had' = [had EXCEPT ![id] = @ \cup {d}]
             /\ Touch(id)
             /\ base' = IF base[id] = Root THEN [base EXCEPT ![id] = d] ELSE base
             /\ UNCHANGED <<live, used>>
        ELSE UNCHANGED manager

(* SetCwd: false when the session is gone, the path leaves the base or is  *)
(* no directory; otherwise the directory changes, and the first directory  *)
(* other than "/" becomes the base for good.  It is one step, that of its  *)
(* first store, to all who take sm.mu; who does not may see the directory  *)
(* and not yet the base.                                                   *)
SetCwd(id, path) ==
    LET d == Landing[path][base[id]]
    IN  IF id \in live /\ d # Refused
        THEN /\ cwd' = [cwd EXCEPT ![id] = d]
             /\ had' = [had EXCEPT ![id] = @ \cup {d}]
             /\ Touch(id)
             /\ base' = IF base[id] = Root THEN [base EXCEPT ![id] = d] ELSE base
             /\ UNCHANGED <<live, used>>
        ELSE UNCHANGED manager

(* goposix.session.setCwd, second call, and the answer. *)
SetCwdSets(w) ==
    /\ job[w].op = "setCwd"
    /\ SetCwd(job[w].id, job[w].path)
    /\ Respond(w)
    /\ UNCHANGED <<wait, cleaning>>

(* goposix.session.destroy. *)
Destroy(w, id) ==
    /\ job[w] = NoJob
    /\ id \in live
    /\ live' = live \ {id}
    /\ UNCHANGED <<cwd, had, base, idle, used, wait, cleaning, job>>

(* goposix.shell.exec, before the script: the directory it starts in, and  *)
(* against which its redirections are resolved throughout, is copied out   *)
(* of the session, or is "/" when the id names no session.                 *)
ExecGets(w, id) ==
    /\ job[w] = NoJob
    /\ id \in used
    /\ IF id \in live
       THEN /\ Touch(id)
            /\ job' = [job EXCEPT ![w] = ExecJob(id, cwd[id], cwd[id], base[id])]
       ELSE /\ job' = [job EXCEPT ![w] = ExecJob(id, Root, Root, Root)]
            /\ UNCHANGED idle
    /\ UNCHANGED <<live, cwd, had, base, used, wait, cleaning>>

(* The script changes its directory.  The interpreter's cd knows nothing   *)
(* of the session's base.                                                  *)
ExecMoves(w, dir) ==
    /\ job[w].op = "exec"
    /\ job' = [job EXCEPT ![w] = ExecJob(job[w].id, job[w].from, dir, job[w].bound)]
    /\ UNCHANGED <<manager, wait, cleaning>>

(* goposix.shell.exec, after the script: the directory it is in goes back  *)
(* through SetCwd, whose verdict is ignored.                               *)
ExecSets(w) ==
    /\ job[w].op = "exec"
    /\ SetCwd(job[w].id, job[w].dir)
    /\ Respond(w)
    /\ UNCHANGED <<wait, cleaning>>

(* A script that does not parse ends with no directory: SetCwd is skipped. *)
ExecFails(w) ==
    /\ job[w].op = "exec"
    /\ Respond(w)
    /\ UNCHANGED <<manager, wait, cleaning>>

(* Mutant of UtilityGets: the directory comes from the wrong field, the    *)
(* root instead of the session's.                                          *)
UtilityGetsAtRoot(w, id, path) ==
    /\ job[w] = NoJob
    /\ id \in used
    /\ <<path, Root>> \notin Escapes
    /\ IF id \in live THEN Touch(id) ELSE UNCHANGED idle
    /\ job' = [job EXCEPT ![w] = RunJob(id, Root, IF id \in live THEN base[id] ELSE Root)]
    /\ UNCHANGED <<live, cwd, had, base, used, wait, cleaning>>

(* goposix.<utility>: Get copies the session, the path is confined to its  *)
(* directory, and the utility starts there, or at "/" without a session.   *)
(* A path that escapes is answered at once, after Get has touched it.      *)
UtilityGets(w, id, path) ==
    /\ job[w] = NoJob
    /\ id \in used
    /\ LET there == id \in live
           dir == IF there THEN cwd[id] ELSE Root
           bound == IF there THEN base[id] ELSE Root
       IN  /\ IF there THEN Touch(id) ELSE UNCHANGED idle
           /\ IF <<path, dir>> \in Escapes
              THEN UNCHANGED job
              ELSE job' = [job EXCEPT ![w] = RunJob(id, dir, bound)]
    /\ UNCHANGED <<live, cwd, had, base, used, wait, cleaning>>

(* The utility returns and its result is sent. *)
UtilityReturns(w) ==
    /\ job[w].op = "run"
    /\ Respond(w)
    /\ UNCHANGED <<manager, wait, cleaning>>

(* Mutant of Expired: the age is compared with the ticker's period too. *)
ExpiredLate(id) == idle[id] > TTL + Interval

(* A session cleanupLoop deletes: now.Sub(s.LastActive) > sm.ttl. *)
Expired(id) == idle[id] > TTL

(* cleanupLoop: the ticker fires. *)
Cleanup ==
    /\ cleaning
    /\ wait = 0
    /\ live' = {i \in live : ~Expired(i)}
    /\ wait' = Interval
    /\ UNCHANGED <<cwd, had, base, idle, used, cleaning, job>>

(* SessionManager.Stop: cleanupLoop returns. *)
Stop ==
    /\ cleaning
    /\ cleaning' = FALSE
    /\ UNCHANGED <<manager, wait, job>>

(* A tick of the clock.  The ticker is served before the next one. *)
Tick ==
    /\ wait > 0
    /\ idle' = [i \in Ids |->
                  IF i \in live /\ idle[i] < MaxIdle THEN idle[i] + 1 ELSE idle[i]]
    /\ wait' = IF cleaning THEN wait - 1 ELSE wait
    /\ UNCHANGED <<live, cwd, had, base, used, cleaning, job>>

Next ==
    \/ \E w \in Workers, id \in Ids :
          \/ Create(w, id)
          \/ Destroy(w, id)
          \/ ExecGets(w, id)
          \/ \E path \in Targets : SetCwdGets(w, id, path) \/ UtilityGets(w, id, path)
    \/ \E w \in Workers :
          \/ SetCwdSets(w)
          \/ \E dir \in Dirs : ExecMoves(w, dir)
          \/ ExecSets(w)
          \/ ExecFails(w)
          \/ UtilityReturns(w)
          \/ TellReads(w)
          \/ TellEnds(w)
    \/ Cleanup
    \/ Stop
    \/ Tick

Spec == Init /\ [][Next]_vars

-----------------------------------------------------------------------------
TypeOK ==
    /\ live \subseteq used
    /\ used \subseteq Ids
    /\ cwd \in [Ids -> Dirs]
    /\ had \in [Ids -> SUBSET Dirs]
    /\ base \in [Ids -> Dirs]
    /\ idle \in [Ids -> 0..MaxIdle]
    /\ wait \in 0..Interval
    /\ cleaning \in BOOLEAN
    /\ job \in [Workers -> Jobs]

(* The directory of every session, live or removed, lies physically inside  *)
(* its base directory, and it is "/" as long as no base has been fixed,     *)
(* however setCwd, shell.exec write-backs and removals interleave           *)
(* (SetCwd, session.go:97-117).                                             *)
CwdInsideBase ==
    \A i \in Ids : IF base[i] = Root THEN cwd[i] = Root ELSE <<cwd[i], base[i]>> \in Inside

(* A utility that runs for a session which had a base directory when the    *)
(* request read it runs inside that session's base directory as it is now,  *)
(* even if other requests have moved the session since, and a script's      *)
(* redirections are resolved there; where the script itself goes with cd is *)
(* not confined (server.go:611-618, 653-661, 706-710, interpreter.go:52-80).*)
RunsInsideBase ==
    \A w \in Workers :
        /\ job[w].op \in {"exec", "run"} /\ job[w].bound # Root
        => LET dir == IF job[w].op = "run" THEN job[w].dir ELSE job[w].from
           IN  <<dir, base[job[w].id]>> \in Inside

(* While cleanupLoop runs, no session stays in the map longer than its      *)
(* lifetime plus one period of the ticker after its last use                *)
(* (session.go:150-168).                                                    *)
ExpiryBound ==
    cleaning => \A i \in live : idle[i] <= TTL + Interval

(* The first directory other than "/" that a session enters is its base     *)
(* for good: no later request changes it (session.go:115-117).              *)
BaseIsForGood ==
    [][\A i \in Ids : base[i] # Root => base'[i] = base[i]]_vars

(* A session that was destroyed or has expired never comes back, whatever   *)
(* requests that read it earlier still do (session.go:92-95).               *)
GoneForGood ==
    [][\A i \in used \ live : i \notin live' /\ cwd'[i] = cwd[i]]_vars

(* A directory that is "/" or lies in base directory b. *)
Fits(d, b) == d = Root \/ (b # Root /\ <<d, b>> \in Inside)

(* The answer to session.create is read off the session itself while other  *)
(* requests may move it, and need not be the session of any one moment: it  *)
(* can show a new directory with the base "/", or half of one path and half *)
(* of another.  Yet each half of what it shows as the base is of "/" or of  *)
(* the base the session keeps, and each half of what it shows as the        *)
(* directory is of "/" or of a directory inside that base                   *)
(* (server.go:546-547, session.go:13-18, 112-117).                          *)
NewSessionIsToldRight ==
    \A w \in Workers :
        job[w].op = "tell" =>
            LET seen == job[w].seen
                b == base[job[w].id]
            IN  /\ {seen[3], seen[4]} \subseteq {Root, b}
                /\ Fits(seen[1], b) /\ Fits(seen[2], b)

-----------------------------------------------------------------------------
(* What a worker read from a session that had a base is still true of it:   *)
(* the base is the same, and the directory read lies inside it.             *)
Snapshots ==
    \A w \in Workers :
        /\ job[w].op \in {"exec", "run"} /\ job[w].bound # Root
        => /\ base[job[w].id] = job[w].bound
           /\ <<IF job[w].op = "run" THEN job[w].dir ELSE job[w].from, job[w].bound>> \in Inside

(* Whatever the directory of a session has been fits its base. *)
Held == \A i \in Ids : \A d \in had[i] : Fits(d, base[i])

(* An idle session is gone by the time the ticker has fired once after its  *)
(* lifetime: what is left until then still fits.                            *)
Deadline ==
    cleaning => \A i \in live : idle[i] + wait <= TTL + Interval

(* The inductive invariant of the session manager. *)
Inductive ==
    TypeOK /\ CwdInsideBase /\ Held /\ Snapshots /\ Deadline /\ NewSessionIsToldRight

=============================================================================
