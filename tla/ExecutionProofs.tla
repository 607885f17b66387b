--------------------------- MODULE ExecutionProofs ---------------------------
(***************************************************************************)
(* What requests share, for any number of workers, any directories, any    *)
(* limit on output and any requests: the working directory of the process, *)
(* the counters, and the pooled buffers.                                   *)
(*                                                                         *)
(* DirectoryComesBack is about a quiet daemon.  DirInv says where the      *)
(* process is while a tar -C is under way, as long as no second one noted  *)
(* its directory in between: there is at most one, and it will return to   *)
(* the daemon's own directory.                                             *)
(*                                                                         *)
(* ReportsAddUp compares counters that are read one after the other.       *)
(* CountInv ties each counter to the workers that have stepped past it, a  *)
(* set of calls standing for the sum over methods; ReportInv says how the  *)
(* figures already read relate to the counters that have moved on since.   *)
(*                                                                         *)
(* AnswersAreTheirOwn speaks of a response that is about to be encoded,    *)
(* after its buffers went back to the pool.  The invariant OutInv says     *)
(* what makes it right: between Get and Put a worker's two buffers are in  *)
(* no other hands and not in the pool (Holds, Apart), they hold the first  *)
(* units of the request's own output, as many as its writes came to or as  *)
(* the limit lets through (Progress), and from the response on, which      *)
(* copied them, nothing the next holder writes matters (Own).  A child     *)
(* that start-stop-daemon -b left behind may write into a buffer at any    *)
(* time; tainted notes whose it was, and what is said of the buffers'      *)
(* contents is said of the other workers.                                  *)
(*                                                                         *)
(* Leaves go to Zenon unless they name the SMT solver.                     *)
(***************************************************************************)
EXTENDS Execution, SequenceTheorems, FiniteSetTheorems, TLAPS

USE ZenonT(30)

(* Where a worker can be. *)
Places == {"idle", "total", "active", "builtin", "buffers", "spawn", "abs", "save", "chdir",
           "work", "restore", "respond", "put", "record", "inactive", "encode"}

(* Where workers can be, and what they can have taken up. *)
Working ==
    /\ load \in Loads
    /\ pc \in [Workers -> Places]
    /\ req \in [Workers -> Requests \cup {NoRequest}]
    /\ \A w \in Workers : pc[w] # "idle" => req[w] \in Requests
    /\ \A w \in Workers : pc[w] = "spawn" => req[w].leaves

(* Requests have the shape they are assumed to have. *)
LEMMA RequestShape ==
    /\ Requests \subseteq Shape
    /\ \A r \in Requests :
           /\ r.dir \in Dirs => r.ends = "once" /\ ~r.leaves
           /\ r.dir \in Missing => r.out = <<>> /\ r.err = 0
           /\ r.ends \in {"error", "never"} => Len(r.out) = 1 /\ r.err = 0
           /\ r.ends # "none"
    /\ NoDir \notin Dirs /\ Home \notin Dirs /\ Missing \subseteq Dirs
<1>1. Requests \subseteq Shape
  BY ExecutionAssumption DEF ExecutionAssumption, Requests
<1>2. \A r \in Requests : r.ends # "none"
  BY <1>1 DEF Shape
<1> QED
  BY <1>1, <1>2, ExecutionAssumption DEF ExecutionAssumption

(* Workers start idle. *)
LEMMA InitWorking == Init => Working
  BY DEF Init, Working, Places

(* No step takes a worker anywhere else. *)
LEMMA WorkingStep == Working /\ [Next]_vars => Working'
<1> SUFFICES ASSUME Working, [Next]_vars PROVE Working'
  OBVIOUS
<1>1. ASSUME NEW w \in Workers, NEW r \in Requests, Begin(w, r) PROVE Working'
  BY <1>1 DEF Begin, Go, Working, Places, history
<1>2. ASSUME NEW w \in Workers, Worker(w) PROVE Working'
  <2>1. CASE CountTotal(w) \/ CountActive(w) \/ Builtin(w)
    BY <2>1 DEF CountTotal, CountActive, Builtin, Go, Working, Places, history
  <2>2. CASE \E b \in Buffers, e \in Buffers : TakeBuffers(w, b, e)
    BY <2>2 DEF TakeBuffers, Go, Working, Places, history
  <2>3. CASE ResolveArchive(w) \/ SaveDir(w) \/ Chdir(w)
    BY <2>3 DEF ResolveArchive, SaveDir, Chdir, Go, Working, Places, history
  <2>4. CASE Work(w)
    <3>1. /\ pc' \in [Workers -> Places] /\ UNCHANGED <<req, load>>
          /\ \A v \in Workers : /\ pc'[v] # "idle" => pc[v] # "idle"
                                /\ pc'[v] = "spawn" => pc[v] = "spawn"
      BY <2>4 DEF Work, Go, Working, Places
    <3> QED
      BY <3>1 DEF Working
  <2>5. CASE Finish(w) \/ Restore(w) \/ Spawn(w)
    BY <2>5 DEF Finish, Restore, Spawn, Go, Working, Places, history
  <2>6. CASE Respond(w) \/ PutBuffers(w)
    BY <2>6 DEF Respond, PutBuffers, Go, Working, Places, history
  <2>7. CASE Record(w) \/ CountInactive(w) \/ Encode(w)
    BY <2>7 DEF Record, CountInactive, Encode, Go, Working, Places, history
  <2> QED
    BY <1>2, <2>1, <2>2, <2>3, <2>4, <2>5, <2>6, <2>7 DEF Worker
<1>3. CASE Refuse \/ ReadNext \/ \E kind \in {"status", "metrics", "title"} : StartReport(kind)
  BY <1>3 DEF Refuse, ReadNext, StartReport, Working, workerVars, history
<1>5. ASSUME NEW b \in Buffers, ChildWrites(b) PROVE Working'
  BY <1>5 DEF ChildWrites, Working, workerVars, history
<1>4. CASE UNCHANGED vars
  BY <1>4 DEF vars, workerVars, history, Working
<1> QED
  BY <1>1, <1>2, <1>3, <1>4, <1>5 DEF Next

-----------------------------------------------------------------------------
(* The directory of the process. *)

(* A tar -C that has noted where to return to and has not returned. *)
Mover(w) == pc[w] \in {"chdir", "work", "restore"} /\ req[w].dir \in Dirs

(* A tar -C that has moved the process. *)
Away(w) == pc[w] \in {"work", "restore"} /\ req[w].dir \in Dirs

(* As long as there was no clash, at most one tar has moved the process or  *)
(* is about to; it returns to the daemon's own directory, and the process   *)
(* is in the directory that it names, or else in its own.                   *)
DirInv ==
    /\ Working
    /\ \A w \in Workers : pc[w] \in {"abs", "save", "chdir"} => req[w].dir \in Dirs
    /\ clash \in BOOLEAN /\ astray \in BOOLEAN
    /\ ~clash =>
        /\ ~astray
        /\ \A v, w \in Workers : Mover(v) /\ Mover(w) => v = w
        /\ \A w \in Workers : Mover(w) => saved[w] = Home
        /\ \A w \in Workers : Away(w) => pwd = req[w].dir
        /\ (\A w \in Workers : ~Away(w)) => pwd = Home
    /\ saved \in [Workers -> Dirs \cup {NoDir, Home}]
    /\ pwd \in Dirs \cup {Home, NoDir}

(* The variables the directory is about. *)
dirVars == <<pwd, saved, clash, astray>>

(* Steps that leave the directory alone, and tar between its noting the    *)
(* directory and its return, disturb nothing.                              *)
LEMMA Elsewhere ==
    ASSUME DirInv, Working', NEW w \in Workers, UNCHANGED dirVars,
           \A v \in Workers \ {w} : pc'[v] = pc[v] /\ req'[v] = req[v],
           pc[w] \notin {"abs", "save", "chdir", "work", "restore"},
           pc'[w] \notin {"save", "chdir", "restore"},
           pc'[w] = "abs" => req'[w].dir \in Dirs,
           pc'[w] = "work" => req'[w].dir \notin Dirs
    PROVE  DirInv'
<1>1. \A v \in Workers : /\ Mover(v)' <=> Mover(v)
                         /\ Away(v)' <=> Away(v)
                         /\ Mover(v) => req'[v] = req[v]
  BY DEF Mover, Away
<1>2. \A v \in Workers : Away(v) => Mover(v)
  BY DEF Mover, Away
<1>3. \A v \in Workers : pc'[v] \in {"abs", "save", "chdir"} => req'[v].dir \in Dirs
  BY DEF DirInv
<1> QED
  BY <1>1, <1>2, <1>3 DEF DirInv, dirVars

(* The daemon starts in its own directory. *)
LEMMA InitDirInv == Init => DirInv
  BY InitWorking DEF Init, DirInv, Mover, Away

(* No step of any worker or report undoes the invariant. *)
LEMMA DirStep == DirInv /\ [Next]_vars => DirInv'
<1> SUFFICES ASSUME DirInv, [Next]_vars PROVE DirInv'
  OBVIOUS
<1>0. Working /\ Working'
  BY WorkingStep DEF DirInv
<1>1. ASSUME NEW w \in Workers, NEW r \in Requests, Begin(w, r) PROVE DirInv'
  <2>1. /\ UNCHANGED dirVars
        /\ pc[w] = "idle" /\ pc'[w] = "total"
        /\ \A v \in Workers \ {w} : pc'[v] = pc[v] /\ req'[v] = req[v]
    BY <1>0, <1>1 DEF Begin, Go, Working, history, dirVars
  <2> QED
    BY <1>0, <2>1, Elsewhere
<1>2. ASSUME NEW w \in Workers, Worker(w) PROVE DirInv'
  <2>1. CASE CountTotal(w) \/ CountActive(w) \/ Builtin(w)
    <3>1. /\ UNCHANGED dirVars
          /\ pc[w] \in {"total", "active", "builtin"}
          /\ pc'[w] \in {"active", "builtin", "buffers", "record"}
          /\ \A v \in Workers \ {w} : pc'[v] = pc[v] /\ req'[v] = req[v]
      BY <1>0, <2>1 DEF CountTotal, CountActive, Builtin, Go, Working, history, dirVars
    <3> QED
      BY <1>0, <3>1, Elsewhere
  <2>2. CASE \E b \in Buffers, e \in Buffers : TakeBuffers(w, b, e)
    <3>1. /\ UNCHANGED dirVars
          /\ pc[w] = "buffers"
          /\ IF req[w].dir \in Dirs THEN pc'[w] = "abs" ELSE pc'[w] \in {"spawn", "work"}
          /\ req'[w] = req[w]
          /\ \A v \in Workers \ {w} : pc'[v] = pc[v] /\ req'[v] = req[v]
      BY <1>0, <2>2 DEF TakeBuffers, Go, Working, history, dirVars
    <3> QED
      BY <1>0, <3>1, Elsewhere
  <2>12. CASE Spawn(w)
    <3>1. /\ UNCHANGED dirVars
          /\ pc[w] = "spawn" /\ pc'[w] = "work" /\ req'[w] = req[w]
          /\ \A v \in Workers \ {w} : pc'[v] = pc[v] /\ req'[v] = req[v]
      BY <1>0, <2>12 DEF Spawn, Go, Working, history, dirVars
    <3>2. req[w].dir \notin Dirs
      BY <1>0, <3>1, RequestShape DEF Working
    <3> QED
      BY <1>0, <3>1, <3>2, Elsewhere
  <2>3. CASE ResolveArchive(w)
    <3>1. /\ pc[w] = "abs" /\ UNCHANGED <<req, saved, pwd>>
          /\ pc' = [pc EXCEPT ![w] = "save"]
          /\ clash' = (clash \/ Moved(w)) /\ astray' = (astray \/ pwd # Home)
      BY <2>3 DEF ResolveArchive, Go
    <3>2. \A v \in Workers : /\ Mover(v)' <=> Mover(v)
                             /\ Away(v)' <=> Away(v)
                             /\ Away(v) => Mover(v)
      BY <1>0, <3>1 DEF Mover, Away, Working
    <3>3. ~clash' => \A v \in Workers : ~Mover(v)
      BY <3>1 DEF Moved, Mover
    <3>4. ~clash' => pwd = Home
      BY <3>1, <3>2, <3>3 DEF DirInv
    <3>5. \A v \in Workers : pc'[v] \in {"abs", "save", "chdir"} => req'[v].dir \in Dirs
      BY <1>0, <3>1 DEF DirInv, Working
    <3>6. clash' \in BOOLEAN /\ astray' \in BOOLEAN
      BY <3>1 DEF DirInv
    <3>7. ~clash' => ~astray'
      BY <3>1, <3>4 DEF DirInv
    <3> QED
      BY <1>0, <3>1, <3>2, <3>3, <3>4, <3>5, <3>6, <3>7 DEF DirInv
  <2>4. CASE SaveDir(w)
    <3>1. /\ pc[w] = "save" /\ UNCHANGED <<req, pwd, astray>>
          /\ pc' = [pc EXCEPT ![w] = "chdir"]
          /\ saved' = [saved EXCEPT ![w] = pwd]
          /\ clash' = (clash \/ Moved(w))
      BY <2>4 DEF SaveDir, Go
    <3>2. \A v \in Workers : Away(v)' <=> Away(v)
      BY <1>0, <3>1 DEF Away, Working
    <3>3. ~clash' => \A v \in Workers : ~Away(v) /\ (Mover(v)' => v = w)
      BY <1>0, <3>1 DEF Moved, Mover, Away, Working
    <3>4. ~clash' => pwd = Home
      BY <3>1, <3>3 DEF DirInv
    <3>5. \A v \in Workers : pc'[v] \in {"abs", "save", "chdir"} => req'[v].dir \in Dirs
      BY <1>0, <3>1 DEF DirInv, Working
    <3>6. clash' \in BOOLEAN
      BY <3>1 DEF DirInv
    <3>7. ~clash' => saved'[w] = Home
      BY <3>1, <3>4 DEF DirInv
    <3>8. saved' \in [Workers -> Dirs \cup {NoDir, Home}]
      BY <3>1 DEF DirInv
    <3> QED
      BY <1>0, <3>1, <3>2, <3>3, <3>4, <3>5, <3>6, <3>7, <3>8 DEF DirInv
  <2>5. CASE Chdir(w)
    <3>1. /\ pc[w] = "chdir" /\ UNCHANGED <<req, saved, clash, astray>>
          /\ pwd' = IF req[w].dir \in Missing THEN pwd ELSE req[w].dir
          /\ pc' = [pc EXCEPT ![w] = IF req[w].dir \in Missing THEN "respond" ELSE "work"]
      BY <2>5 DEF Chdir, Go, history
    <3>2. Mover(w) /\ ~Away(w) /\ req[w].dir \in Dirs
      BY <3>1 DEF Mover, Away, DirInv
    <3>3. ~clash => \A v \in Workers \ {w} : ~Mover(v) /\ ~Away(v)
      BY <3>2 DEF DirInv, Mover, Away
    <3>4. ~clash => pwd = Home
      BY <3>2, <3>3 DEF DirInv
    <3>5. \A v \in Workers \ {w} : /\ Mover(v)' <=> Mover(v)
                                   /\ Away(v)' <=> Away(v)
      BY <1>0, <3>1 DEF Mover, Away, Working
    <3>6. \A v \in Workers : pc'[v] \in {"abs", "save", "chdir"} => req'[v].dir \in Dirs
      BY <1>0, <3>1 DEF DirInv, Working
    <3>7. CASE req[w].dir \in Missing
      <4>1. ~Mover(w)' /\ ~Away(w)'
        BY <1>0, <3>1, <3>7 DEF Mover, Away, Working
      <4> QED
        BY <1>0, <3>1, <3>3, <3>4, <3>5, <3>6, <3>7, <4>1 DEF DirInv
    <3>8. CASE req[w].dir \notin Missing
      <4>1. Mover(w)' /\ Away(w)'
        BY <1>0, <3>1, <3>2, <3>8 DEF Mover, Away, Working
      <4> QED
        BY <1>0, <3>1, <3>2, <3>3, <3>5, <3>6, <3>8, <4>1 DEF DirInv
    <3> QED
      BY <3>7, <3>8
  <2>6. CASE Work(w)
    <3>1. /\ pc[w] = "work" /\ UNCHANGED <<req, saved, pwd>>
          /\ pc' \in [Workers -> Places]
          /\ pc'[w] \in {"work", "restore"}
          /\ \A v \in Workers \ {w} : pc'[v] = pc[v]
          /\ clash' = (clash \/ (UsesNames(req[w]) /\ Moved(w)))
          /\ astray' = (astray \/ (UsesNames(req[w]) /\ pwd # Meant(req[w])))
      BY <1>0, <2>6 DEF Work, Go, Working
    <3>2. \A v \in Workers : /\ Mover(v)' <=> Mover(v)
                             /\ Away(v)' <=> Away(v)
                             /\ Away(v) => Mover(v)
      BY <1>0, <3>1 DEF Mover, Away
    <3>3. \A v \in Workers : pc'[v] \in {"abs", "save", "chdir"} => req'[v].dir \in Dirs
      BY <1>0, <3>1 DEF DirInv
    <3>4. clash' \in BOOLEAN /\ astray' \in BOOLEAN
      BY <3>1 DEF DirInv
    <3>5. ~clash' /\ UsesNames(req[w]) => pwd = Meant(req[w])
      <4>1. CASE req[w].dir \in Dirs
        <5>1. Away(w)
          BY <3>1, <4>1 DEF Away
        <5> QED
          BY <3>1, <4>1, <5>1, RequestShape DEF DirInv, Meant
      <4>2. CASE req[w].dir \notin Dirs
        <5>1. ASSUME ~clash', UsesNames(req[w]) PROVE \A v \in Workers : ~Away(v)
          BY <3>1, <4>2, <5>1 DEF Moved, Away
        <5>2. req[w].dir \in Dirs \cup {NoDir, Home}
          BY <1>0, <3>1, RequestShape DEF Working, Shape
        <5> QED
          BY <3>1, <4>2, <5>1, <5>2 DEF DirInv, Meant, UsesNames
      <4> QED
        BY <4>1, <4>2
    <3>6. ~clash' => ~astray'
      BY <3>1, <3>5 DEF DirInv
    <3> QED
      BY <1>0, <3>1, <3>2, <3>3, <3>4, <3>6 DEF DirInv
  <2>7. CASE Finish(w)
    <3>1. /\ pc[w] = "work" /\ UNCHANGED <<req, saved, pwd, clash, astray>>
          /\ pc' = [pc EXCEPT ![w] = "restore"]
      BY <2>7 DEF Finish, Go, history
    <3>2. \A v \in Workers : /\ Mover(v)' <=> Mover(v)
                             /\ Away(v)' <=> Away(v)
      BY <1>0, <3>1 DEF Mover, Away, Working
    <3>3. \A v \in Workers : pc'[v] \in {"abs", "save", "chdir"} => req'[v].dir \in Dirs
      BY <1>0, <3>1 DEF DirInv, Working
    <3> QED
      BY <1>0, <3>1, <3>2, <3>3 DEF DirInv
  <2>8. CASE Restore(w)
    <3>1. /\ pc[w] = "restore" /\ UNCHANGED <<req, saved, clash, astray>>
          /\ pwd' = IF req[w].dir \in Dirs THEN saved[w] ELSE pwd
          /\ pc' = [pc EXCEPT ![w] = "respond"]
      BY <2>8 DEF Restore, Go, history
    <3>2. ~Mover(w)' /\ ~Away(w)'
      BY <1>0, <3>1 DEF Mover, Away, Working
    <3>3. \A v \in Workers \ {w} : /\ Mover(v)' <=> Mover(v)
                                   /\ Away(v)' <=> Away(v)
                                   /\ Away(v) => Mover(v)
      BY <1>0, <3>1 DEF Mover, Away, Working
    <3>4. \A v \in Workers : pc'[v] \in {"abs", "save", "chdir"} => req'[v].dir \in Dirs
      BY <1>0, <3>1 DEF DirInv, Working
    <3>5. CASE req[w].dir \in Dirs
      <4>1. Mover(w)
        BY <3>1, <3>5 DEF Mover
      <4>2. ~clash => \A v \in Workers \ {w} : ~Mover(v)
        BY <4>1 DEF DirInv
      <4>3. ~clash => saved[w] = Home
        BY <4>1 DEF DirInv
      <4>4. pwd' = saved[w] /\ pwd' \in Dirs \cup {Home, NoDir}
        BY <3>1, <3>5 DEF DirInv
      <4> QED
        BY <1>0, <3>1, <3>2, <3>3, <3>4, <4>2, <4>3, <4>4 DEF DirInv
    <3>6. CASE req[w].dir \notin Dirs
      <4>1. ~Mover(w) /\ ~Away(w) /\ pwd' = pwd
        BY <3>1, <3>6 DEF Mover, Away
      <4> QED
        BY <1>0, <3>1, <3>2, <3>3, <3>4, <4>1 DEF DirInv
    <3> QED
      BY <3>5, <3>6
  <2>9. CASE Respond(w) \/ PutBuffers(w)
    <3>1. /\ UNCHANGED dirVars
          /\ pc[w] \in {"respond", "put"} /\ pc'[w] \in {"put", "record"}
          /\ \A v \in Workers \ {w} : pc'[v] = pc[v] /\ req'[v] = req[v]
      BY <1>0, <2>9 DEF Respond, PutBuffers, Go, Working, history, dirVars
    <3> QED
      BY <1>0, <3>1, Elsewhere
  <2>10. CASE Record(w) \/ CountInactive(w)
    <3>1. /\ UNCHANGED dirVars
          /\ pc[w] \in {"record", "inactive"} /\ pc'[w] \in {"inactive", "encode"}
          /\ \A v \in Workers \ {w} : pc'[v] = pc[v] /\ req'[v] = req[v]
      BY <1>0, <2>10 DEF Record, CountInactive, Go, Working, history, dirVars
    <3> QED
      BY <1>0, <3>1, Elsewhere
  <2>11. CASE Encode(w)
    <3>1. /\ pc[w] = "encode" /\ UNCHANGED <<pwd, clash, astray>>
          /\ pc' = [pc EXCEPT ![w] = "idle"]
          /\ req' = [req EXCEPT ![w] = NoRequest]
          /\ saved' = [saved EXCEPT ![w] = NoDir]
      BY <2>11 DEF Encode, Go, history
    <3>2. ~Mover(w)' /\ ~Away(w)' /\ ~Mover(w) /\ ~Away(w)
      BY <1>0, <3>1 DEF Mover, Away, Working
    <3>3. \A v \in Workers \ {w} : /\ Mover(v)' <=> Mover(v)
                                   /\ Away(v)' <=> Away(v)
                                   /\ req'[v] = req[v] /\ saved'[v] = saved[v]
      BY <1>0, <3>1 DEF Mover, Away, Working, DirInv
    <3>4. \A v \in Workers : pc'[v] \in {"abs", "save", "chdir"} => req'[v].dir \in Dirs
      BY <1>0, <3>1 DEF DirInv, Working
    <3>5. saved' \in [Workers -> Dirs \cup {NoDir, Home}]
      BY <3>1 DEF DirInv
    <3> QED
      BY <1>0, <3>1, <3>2, <3>3, <3>4, <3>5 DEF DirInv
  <2> QED
    BY <1>2, <2>1, <2>2, <2>3, <2>4, <2>5, <2>6, <2>7, <2>8, <2>9, <2>10, <2>11, <2>12 DEF Worker
<1>3. ASSUME UNCHANGED <<pc, req, dirVars>> PROVE DirInv'
  BY <1>0, <1>3 DEF DirInv, Mover, Away, dirVars
<1>4. CASE Refuse \/ ReadNext \/ \E kind \in {"status", "metrics", "title"} : StartReport(kind)
  BY <1>3, <1>4 DEF Refuse, ReadNext, StartReport, workerVars, history, dirVars
<1>5. CASE UNCHANGED vars
  BY <1>3, <1>5 DEF vars, workerVars, history, dirVars
<1>6. ASSUME NEW b \in Buffers, ChildWrites(b) PROVE DirInv'
  BY <1>3, <1>6 DEF ChildWrites, workerVars, history, dirVars
<1> QED
  BY <1>1, <1>2, <1>4, <1>5, <1>6 DEF Next

(* As long as no two requests used the directory of the process at once,    *)
(* names are looked up in the directory meant, and the process is in its    *)
(* own directory whenever no tar -C is at work (tar.go:164-185).            *)
THEOREM DirectoryComesBackHolds == Spec => []DirectoryComesBack
<1>1. DirInv => DirectoryComesBack
  <2> SUFFICES ASSUME DirInv, ~clash,
                      \A w \in Workers : req[w].ends = "none" \/ req[w].dir \notin Dirs
                                         \/ pc[w] \notin {"work", "restore"}
               PROVE  pwd = Home
    BY DEF DirectoryComesBack, DirInv
  <2>1. \A w \in Workers : ~Away(w)
    BY RequestShape DEF Away, DirInv, Working
  <2> QED
    BY <2>1 DEF DirInv
<1> QED
  BY <1>1, InitDirInv, DirStep, PTL DEF Spec

-----------------------------------------------------------------------------
(* The counters and the reports. *)

(* The calls counted, one by one. *)
CallSet == UNION {{m} \X (1 .. counts[m]) : m \in Methods}

(* The requests counted in the total and not yet under their method, and    *)
(* those counted as active.                                                 *)
Uncounted == {w \in Workers : pc[w] \notin {"idle", "total", "inactive", "encode"}}
Busy == {w \in Workers : pc[w] \notin {"idle", "total", "active", "encode"}}

(* What the counters come to. *)
CountInv ==
    /\ Working
    /\ counts \in [Methods -> Nat] /\ IsFiniteSet(CallSet)
    /\ total = Cardinality(CallSet) + Cardinality(Uncounted)
    /\ active = Cardinality(Busy)
    /\ created \in Nat /\ live \in Nat /\ live <= created

(* What a report that has read so many of its figures has to say about the  *)
(* counters: figures read early bound the counters that are read late, and  *)
(* in a calm report the total does not move.                                *)
ReportInv ==
    LET Seen(f) == report.figure[f]
        Past(kind, i) == report.kind = kind /\ report.next > i
    IN  /\ report.kind \in {"none", "status", "metrics", "title"}
        /\ report.next \in Nat /\ report.next >= 1
        /\ report.calm \in BOOLEAN
        /\ report.figure \in [Figures -> Int]
        /\ limited \in Nat
        /\ Past("status", 3) \/ Past("metrics", 2) \/ Past("title", 1) =>
               Seen("active") <= Cardinality(Workers)
        /\ Past("status", 1) => Seen("methods") <= total
        /\ Past("status", 5) => Seen("methods") <= Seen("total")
        /\ Past("status", 2) => Seen("sessions") <= created
        /\ Past("status", 4) => Seen("sessions") <= Seen("created")
        /\ Past("status", 1) \/ Past("metrics", 5) =>
               (report.calm => Seen("methods") = report.from)
        /\ Past("status", 5) \/ Past("metrics", 1) =>
               (report.calm => Seen("total") = report.from)

(* Counting one more call of a method adds one call. *)
LEMMA OneMoreCall ==
    ASSUME counts \in [Methods -> Nat], IsFiniteSet(CallSet), NEW m \in Methods,
           counts' = [counts EXCEPT ![m] = @ + 1]
    PROVE  /\ counts' \in [Methods -> Nat] /\ IsFiniteSet(CallSet')
           /\ Cardinality(CallSet') = Cardinality(CallSet) + 1
<1> DEFINE new == <<m, counts[m] + 1>>
<1>1. new \notin CallSet
  BY SMTT(30) DEF CallSet
<1>2. CallSet' = CallSet \cup {new}
  <2>1. \A x : x \in CallSet <=> \E n \in Methods : \E k \in 1 .. counts[n] : x = <<n, k>>
    BY SMTT(30) DEF CallSet
  <2>2. \A x : x \in CallSet' <=> \E n \in Methods : \E k \in 1 .. counts'[n] : x = <<n, k>>
    BY SMTT(30) DEF CallSet
  <2>3. \A n \in Methods : counts'[n] = IF n = m THEN counts[n] + 1 ELSE counts[n]
    OBVIOUS
  <2>4. \A n \in Methods : counts[n] \in Nat
    OBVIOUS
  <2>5. ASSUME NEW x \in CallSet' PROVE x \in CallSet \cup {new}
    <3>1. PICK n \in Methods : \E k \in 1 .. counts'[n] : x = <<n, k>>
      BY <2>2, <2>5
    <3>2. PICK k \in 1 .. counts'[n] : x = <<n, k>>
      BY <3>1
    <3>3. k \in 1 .. counts[n] \/ (n = m /\ k = counts[m] + 1)
      BY <2>3, <2>4, <3>2, SMTT(30)
    <3> QED
      BY <2>1, <3>2, <3>3
  <2>6. ASSUME NEW x \in CallSet PROVE x \in CallSet'
    <3>1. PICK n \in Methods : \E k \in 1 .. counts[n] : x = <<n, k>>
      BY <2>1, <2>6
    <3>2. PICK k \in 1 .. counts[n] : x = <<n, k>>
      BY <3>1
    <3>3. k \in 1 .. counts'[n]
      BY <2>3, <2>4, <3>2, SMTT(30)
    <3> QED
      BY <2>2, <3>2, <3>3
  <2>7. new \in CallSet'
    <3>1. counts[m] + 1 \in 1 .. counts'[m]
      BY <2>3, <2>4, SMTT(30)
    <3> QED
      BY <2>2, <3>1
  <2> QED
    BY <2>5, <2>6, <2>7
<1> HIDE DEF new
<1>3. counts' \in [Methods -> Nat]
  BY SMTT(30)
<1> QED
  BY <1>1, <1>2, <1>3, FS_AddElement

(* Sets of workers are finite and no larger than the pool. *)
LEMMA WorkerSets ==
    ASSUME NEW S, S \subseteq Workers
    PROVE  /\ IsFiniteSet(S) /\ Cardinality(S) \in Nat
           /\ Cardinality(S) <= Cardinality(Workers) /\ Cardinality(Workers) \in Nat
  BY ExecutionAssumption, FS_Subset, FS_CardinalityType DEF ExecutionAssumption

(* A worker that comes or goes counts for one. *)
LEMMA OneWorker ==
    ASSUME NEW S, S \subseteq Workers, NEW w \in Workers
    PROVE  /\ w \notin S => Cardinality(S \cup {w}) = Cardinality(S) + 1
           /\ w \in S => Cardinality(S \ {w}) = Cardinality(S) - 1
  BY WorkerSets, FS_AddElement, FS_RemoveElement

(* The total and the number of active workers are numbers. *)
LEMMA CountTypes ==
    ASSUME CountInv
    PROVE  /\ total \in Nat /\ Cardinality(CallSet) \in Nat
           /\ active \in Nat /\ active <= Cardinality(Workers) /\ Cardinality(Workers) \in Nat
           /\ Cardinality(CallSet) <= total
<1>1. Cardinality(CallSet) \in Nat
  BY FS_CardinalityType DEF CountInv
<1>2. Uncounted \subseteq Workers /\ Busy \subseteq Workers
  BY DEF Uncounted, Busy
<1> QED
  BY <1>1, <1>2, WorkerSets, SMTT(30) DEF CountInv

(* The counters start at nothing, with no report under way. *)
LEMMA InitCountInv == Init => CountInv /\ ReportInv
<1> SUFFICES ASSUME Init PROVE CountInv /\ ReportInv
  OBVIOUS
<1>1. CallSet = {}
  BY SMTT(30) DEF Init, CallSet
<1>2. Uncounted = {} /\ Busy = {}
  BY DEF Init, Uncounted, Busy
<1>3. IsFiniteSet({}) /\ Cardinality({}) = 0
  BY FS_EmptySet
<1>4. CountInv
  BY <1>1, <1>2, <1>3, InitWorking, SMTT(30) DEF Init, CountInv
<1>5. ReportInv
  BY SMTT(30) DEF Init, ReportInv, NewReport, Figures
<1> QED
  BY <1>4, <1>5

(* A step that counts nothing and takes no worker past a counter changes    *)
(* nothing.                                                                 *)
LEMMA NothingCounted ==
    ASSUME CountInv, Working', UNCHANGED <<total, active, counts>>,
           Uncounted' = Uncounted, Busy' = Busy,
           created' \in Nat, live' \in Nat, live' <= created', created' >= created
    PROVE  CountInv' /\ total' >= total /\ created' >= created
<1>1. CallSet' = CallSet
  BY DEF CallSet
<1> QED
  BY <1>1, CountTypes, SMTT(30) DEF CountInv

(* Every step keeps the counters in step, and none takes total or created   *)
(* back.                                                                    *)
LEMMA CountStep == CountInv /\ [Next]_vars => CountInv' /\ total' >= total /\ created' >= created
<1> SUFFICES ASSUME CountInv, [Next]_vars
             PROVE  CountInv' /\ total' >= total /\ created' >= created
  OBVIOUS
<1> DEFINE Goal == CountInv' /\ total' >= total /\ created' >= created
<1> SUFFICES Goal
  OBVIOUS
<1>0. Working /\ Working'
  BY WorkingStep DEF CountInv
<1>t. created \in Nat /\ live \in Nat /\ live <= created
  BY DEF CountInv
<1> HIDE DEF Goal
<1>1. ASSUME UNCHANGED <<total, active, counts, created, live>>,
             NEW w \in Workers, \A v \in Workers \ {w} : pc'[v] = pc[v],
             \/ pc[w] \in {"idle", "total", "encode"} /\ pc'[w] \in {"idle", "total", "encode"}
             \/ /\ pc[w] \in Places \ {"idle", "total", "active", "inactive", "encode"}
                /\ pc'[w] \in Places \ {"idle", "total", "active", "inactive", "encode"}
      PROVE  Goal
  <2>1. Uncounted' = Uncounted /\ Busy' = Busy
    BY <1>1 DEF Uncounted, Busy
  <2> QED
    BY <1>0, <1>1, <1>t, <2>1, NothingCounted, SMTT(30) DEF Goal
<1>2. ASSUME NEW w \in Workers, NEW r \in Requests, Begin(w, r) PROVE Goal
  <2>1. /\ UNCHANGED <<total, active, counts, created, live>>
        /\ pc[w] = "idle" /\ pc'[w] = "total"
        /\ \A v \in Workers \ {w} : pc'[v] = pc[v]
    BY <1>0, <1>2 DEF Begin, Go, Working, counterVars, sessionVars
  <2> QED
    BY <1>1, <2>1
<1>3. ASSUME NEW w \in Workers, Worker(w) PROVE Goal
  <2>1. CASE CountTotal(w)
    <3>1. /\ UNCHANGED <<active, counts, created, live>>
          /\ total' = total + 1
          /\ pc[w] = "total" /\ pc' = [pc EXCEPT ![w] = "active"]
      BY <2>1 DEF CountTotal, Go, sessionVars
    <3>2. Uncounted' = Uncounted \cup {w} /\ w \notin Uncounted /\ Busy' = Busy
      BY <1>0, <3>1 DEF Uncounted, Busy, Working
    <3>3. CallSet' = CallSet
      BY <3>1 DEF CallSet
    <3>4. Cardinality(Uncounted') = Cardinality(Uncounted) + 1 /\ Cardinality(Uncounted) \in Nat
      BY <3>2, OneWorker, WorkerSets DEF Uncounted
    <3> QED
      BY <1>0, <1>t, <3>1, <3>2, <3>3, <3>4, CountTypes, SMTT(30) DEF CountInv, Goal
  <2>2. CASE CountActive(w)
    <3>1. /\ UNCHANGED <<total, counts, created, live>>
          /\ active' = active + 1
          /\ pc[w] = "active"
          /\ pc'[w] \in {"builtin", "buffers"}
          /\ \A v \in Workers \ {w} : pc'[v] = pc[v]
      BY <1>0, <2>2 DEF CountActive, Go, sessionVars, Working
    <3>2. Busy' = Busy \cup {w} /\ w \notin Busy /\ Uncounted' = Uncounted
      BY <1>0, <3>1 DEF Uncounted, Busy
    <3>3. CallSet' = CallSet
      BY <3>1 DEF CallSet
    <3>4. Cardinality(Busy') = Cardinality(Busy) + 1
      BY <3>2, OneWorker DEF Busy
    <3> QED
      BY <1>0, <1>t, <3>1, <3>2, <3>3, <3>4, CountTypes, SMTT(30) DEF CountInv, Goal
  <2>3. CASE Builtin(w)
    <3>1. /\ UNCHANGED <<total, active, counts>>
          /\ pc[w] = "builtin" /\ pc'[w] = "record"
          /\ \A v \in Workers \ {w} : pc'[v] = pc[v]
      BY <1>0, <2>3 DEF Builtin, Go, counterVars, Working
    <3>2. \/ created' = created + 1 /\ live' = live + 1
          \/ created' = created /\ (live' = live \/ (live > 0 /\ live' = live - 1))
      BY <2>3 DEF Builtin
    <3>3. Uncounted' = Uncounted /\ Busy' = Busy
      BY <3>1 DEF Uncounted, Busy
    <3>4. created' \in Nat /\ live' \in Nat /\ live' <= created' /\ created' >= created
      BY <1>t, <3>2, SMTT(30)
    <3> QED
      BY <1>0, <3>1, <3>3, <3>4, NothingCounted DEF Goal
  <2>4. CASE \E b \in Buffers, e \in Buffers : TakeBuffers(w, b, e)
    <3>1. /\ UNCHANGED <<total, active, counts, created, live>>
          /\ pc[w] = "buffers" /\ pc'[w] \in {"abs", "spawn", "work"}
          /\ \A v \in Workers \ {w} : pc'[v] = pc[v]
      BY <1>0, <2>4 DEF TakeBuffers, Go, Working, counterVars, sessionVars
    <3> QED
      BY <1>1, <3>1 DEF Places
  <2>5. CASE ResolveArchive(w) \/ SaveDir(w) \/ Chdir(w)
    <3>1. /\ UNCHANGED <<total, active, counts, created, live>>
          /\ pc[w] \in {"abs", "save", "chdir"} /\ pc'[w] \in {"save", "chdir", "work", "respond"}
          /\ \A v \in Workers \ {w} : pc'[v] = pc[v]
      BY <1>0, <2>5
         DEF ResolveArchive, SaveDir, Chdir, Go, Working, counterVars, sessionVars
    <3> QED
      BY <1>1, <3>1 DEF Places
  <2>6. CASE Work(w)
    <3>1. /\ UNCHANGED <<total, active, counts, created, live>>
          /\ pc[w] = "work" /\ pc'[w] \in {"work", "restore"}
          /\ \A v \in Workers \ {w} : pc'[v] = pc[v]
      BY <1>0, <2>6 DEF Work, Go, Working, counterVars, sessionVars
    <3> QED
      BY <1>1, <3>1 DEF Places
  <2>7. CASE Finish(w) \/ Restore(w) \/ Spawn(w)
    <3>1. /\ UNCHANGED <<total, active, counts, created, live>>
          /\ pc[w] \in {"spawn", "work", "restore"} /\ pc'[w] \in {"work", "restore", "respond"}
          /\ \A v \in Workers \ {w} : pc'[v] = pc[v]
      BY <1>0, <2>7 DEF Finish, Restore, Spawn, Go, Working, counterVars, sessionVars
    <3> QED
      BY <1>1, <3>1 DEF Places
  <2>8. CASE Respond(w) \/ PutBuffers(w)
    <3>1. /\ UNCHANGED <<total, active, counts, created, live>>
          /\ pc[w] \in {"respond", "put"} /\ pc'[w] \in {"put", "record"}
          /\ \A v \in Workers \ {w} : pc'[v] = pc[v]
      BY <1>0, <2>8 DEF Respond, PutBuffers, Go, Working, counterVars, sessionVars
    <3> QED
      BY <1>1, <3>1 DEF Places
  <2>9. CASE Record(w)
    <3>1. /\ UNCHANGED <<total, active, created, live>>
          /\ counts' = [counts EXCEPT ![req[w].method] = @ + 1]
          /\ pc[w] = "record" /\ pc' = [pc EXCEPT ![w] = "inactive"]
      BY <2>9 DEF Record, Go, sessionVars
    <3>2. req[w].method \in Methods
      BY <1>0, <3>1 DEF Working, Methods
    <3>3. /\ counts' \in [Methods -> Nat] /\ IsFiniteSet(CallSet')
          /\ Cardinality(CallSet') = Cardinality(CallSet) + 1
      BY <3>1, <3>2, OneMoreCall DEF CountInv
    <3>4. Uncounted' = Uncounted \ {w} /\ w \in Uncounted /\ Busy' = Busy
      BY <1>0, <3>1 DEF Uncounted, Busy, Working
    <3>5. Cardinality(Uncounted') = Cardinality(Uncounted) - 1 /\ Cardinality(Uncounted) \in Nat
      BY <3>4, OneWorker, WorkerSets DEF Uncounted
    <3> QED
      BY <1>0, <1>t, <3>1, <3>3, <3>4, <3>5, CountTypes, SMTT(30) DEF CountInv, Goal
  <2>10. CASE CountInactive(w)
    <3>1. /\ UNCHANGED <<total, counts, created, live>>
          /\ active' = active - 1
          /\ pc[w] = "inactive" /\ pc' = [pc EXCEPT ![w] = "encode"]
      BY <2>10 DEF CountInactive, Go, sessionVars
    <3>2. Busy' = Busy \ {w} /\ w \in Busy /\ Uncounted' = Uncounted
      BY <1>0, <3>1 DEF Uncounted, Busy, Working
    <3>3. CallSet' = CallSet
      BY <3>1 DEF CallSet
    <3>4. Cardinality(Busy') = Cardinality(Busy) - 1
      BY <3>2, OneWorker DEF Busy
    <3> QED
      BY <1>0, <1>t, <3>1, <3>2, <3>3, <3>4, CountTypes, SMTT(30) DEF CountInv, Goal
  <2>11. CASE Encode(w)
    <3>1. /\ UNCHANGED <<total, active, counts, created, live>>
          /\ pc[w] = "encode" /\ pc'[w] = "idle"
          /\ \A v \in Workers \ {w} : pc'[v] = pc[v]
      BY <1>0, <2>11 DEF Encode, Go, Working, counterVars, sessionVars
    <3> QED
      BY <1>1, <3>1
  <2> QED
    BY <1>3, <2>1, <2>2, <2>3, <2>4, <2>5, <2>6, <2>7, <2>8, <2>9, <2>10, <2>11 DEF Worker
<1>4. ASSUME UNCHANGED <<pc, total, active, counts, created, live>> PROVE Goal
  <2>1. Uncounted' = Uncounted /\ Busy' = Busy
    BY <1>4 DEF Uncounted, Busy
  <2> QED
    BY <1>0, <1>4, <1>t, <2>1, NothingCounted, SMTT(30) DEF Goal
<1>5. CASE Refuse \/ ReadNext \/ \E kind \in {"status", "metrics", "title"} : StartReport(kind)
  BY <1>4, <1>5 DEF Refuse, ReadNext, StartReport, workerVars, counterVars, sessionVars
<1>6. CASE UNCHANGED vars
  BY <1>4, <1>6 DEF vars, workerVars, counterVars, sessionVars
<1>7. ASSUME NEW b \in Buffers, ChildWrites(b) PROVE Goal
  BY <1>4, <1>7 DEF ChildWrites, workerVars, counterVars, sessionVars
<1> QED
  BY <1>2, <1>3, <1>5, <1>6, <1>7 DEF Next

(* When nothing is being processed every request counted in the total has   *)
(* been counted under its method.                                           *)
LEMMA CalmCounts == CountInv /\ Calm => Calls = total
<1> SUFFICES ASSUME CountInv, Calm PROVE Calls = total
  OBVIOUS
<1>1. Uncounted = {}
  BY DEF Calm, Uncounted
<1>2. Cardinality(Uncounted) = 0
  BY <1>1, FS_EmptySet
<1> QED
  BY <1>2, CountTypes, SMTT(30) DEF CountInv, Calls, CallSet

(* Only the reports write on a report, and only refusals are counted as     *)
(* such.                                                                    *)
LEMMA OnlyReports ==
    [Next]_vars => /\ \/ UNCHANGED report
                      \/ ReadNext
                      \/ \E kind \in {"status", "metrics", "title"} : StartReport(kind)
                   /\ limited' = limited \/ limited' = limited + 1
<1> DEFINE Reporting == ReadNext \/ \E kind \in {"status", "metrics", "title"} : StartReport(kind)
           Goal == /\ UNCHANGED report \/ Reporting
                   /\ limited' = limited \/ limited' = limited + 1
<1> SUFFICES ASSUME [Next]_vars PROVE Goal
  OBVIOUS
<1>1. ASSUME NEW w \in Workers, NEW r \in Requests, Begin(w, r) PROVE Goal
  BY <1>1 DEF Begin, counterVars
<1>2. ASSUME NEW w \in Workers, Worker(w) PROVE UNCHANGED <<report, limited>>
  <2>1. CASE CountTotal(w) \/ CountActive(w) \/ Builtin(w)
    BY <2>1 DEF CountTotal, CountActive, Builtin, counterVars
  <2>2. CASE \E b \in Buffers, e \in Buffers : TakeBuffers(w, b, e)
    BY <2>2 DEF TakeBuffers, counterVars
  <2>3. CASE ResolveArchive(w) \/ SaveDir(w) \/ Chdir(w)
    BY <2>3 DEF ResolveArchive, SaveDir, Chdir, counterVars
  <2>4. CASE Work(w)
    BY <2>4 DEF Work, counterVars
  <2>5. CASE Spawn(w) \/ Finish(w) \/ Restore(w) \/ Respond(w) \/ PutBuffers(w)
    BY <2>5 DEF Spawn, Finish, Restore, Respond, PutBuffers, counterVars
  <2>6. CASE Record(w) \/ CountInactive(w) \/ Encode(w)
    BY <2>6 DEF Record, CountInactive, Encode, counterVars
  <2> QED
    BY <1>2, <2>1, <2>2, <2>3, <2>4, <2>5, <2>6 DEF Worker
<1>3. CASE Refuse
  BY <1>3 DEF Refuse
<1>4. CASE Reporting
  BY <1>4 DEF ReadNext, StartReport, counterVars
<1>5. CASE UNCHANGED vars
  BY <1>5 DEF vars, counterVars
<1>6. ASSUME NEW b \in Buffers, ChildWrites(b) PROVE UNCHANGED <<report, limited>>
  BY <1>6 DEF ChildWrites, counterVars
<1> QED
  BY <1>1, <1>2, <1>3, <1>4, <1>5, <1>6 DEF Next

(* The order in which the reports read their figures. *)
LEMMA ReadOrder ==
    /\ Len(Reads["status"]) = 6 /\ Len(Reads["metrics"]) = 5 /\ Len(Reads["title"]) = 3
    /\ Reads["status"][1] = "methods" /\ Reads["status"][2] = "sessions"
    /\ Reads["status"][3] = "active" /\ Reads["status"][4] = "created"
    /\ Reads["status"][5] = "total" /\ Reads["status"][6] = "limited"
    /\ Reads["metrics"][1] = "total" /\ Reads["metrics"][2] = "active"
    /\ Reads["metrics"][3] = "sessions" /\ Reads["metrics"][4] = "limited"
    /\ Reads["metrics"][5] = "methods"
    /\ Reads["title"][1] = "active" /\ Reads["title"][2] = "sessions"
    /\ Reads["title"][3] = "total"
  BY DEF Reads, StatusReads, MetricsReads, TitleReads

(* Every read, and every step between two reads, keeps what a report has    *)
(* noted in line with the counters.                                         *)
LEMMA ReportStep == CountInv /\ ReportInv /\ [Next]_vars => ReportInv'
<1> SUFFICES ASSUME CountInv, ReportInv, [Next]_vars PROVE ReportInv'
  OBVIOUS
<1>0. total' >= total /\ created' >= created /\ CountInv'
  BY CountStep
<1>t. /\ total \in Nat /\ total' \in Nat /\ created \in Nat /\ created' \in Nat /\ live \in Nat
      /\ live <= created
  <2>1. total \in Nat
    BY CountTypes
  <2>2. total' \in Nat
    <3>1. Cardinality(CallSet') \in Nat
      BY <1>0, FS_CardinalityType DEF CountInv
    <3>2. Uncounted' \subseteq Workers
      BY DEF Uncounted
    <3>3. Cardinality(Uncounted') \in Nat
      BY <3>2, WorkerSets
    <3> QED
      BY <1>0, <3>1, <3>3, SMTT(30) DEF CountInv
  <2> QED
    BY <1>0, <2>1, <2>2 DEF CountInv
<1>l. limited' \in Nat
  BY OnlyReports, SMTT(30) DEF ReportInv
<1>1. CASE UNCHANGED report
  <2>1. /\ report.figure["methods"] \in Int /\ report.figure["sessions"] \in Int
    BY DEF ReportInv, Figures
  <2> QED
    BY <1>0, <1>1, <1>l, <1>t, <2>1, SMTT(30) DEF ReportInv
<1>2. ASSUME NEW kind \in {"status", "metrics", "title"}, StartReport(kind) PROVE ReportInv'
  <2>1. report' = NewReport(kind, Calm, total)
    BY <1>2 DEF StartReport
  <2>2. Calm \in BOOLEAN
    BY DEF Calm
  <2> QED
    BY <1>l, <2>1, <2>2, SMTT(30) DEF ReportInv, NewReport, Figures
<1>3. CASE ReadNext
  <2> DEFINE field == Reads[report.kind][report.next]
             i == report.next
             f == report.figure
             g == report'.figure
  <2>1. /\ report.kind # "none" /\ i <= Len(Reads[report.kind])
        /\ report'.kind = report.kind /\ report'.next = i + 1 /\ report'.from = report.from
        /\ report'.calm = (report.calm /\ Calm /\ total = report.from)
        /\ g = [f EXCEPT ![field] = Counters[field]]
        /\ UNCHANGED <<total, created, limited>>
    BY <1>3 DEF ReadNext, counterVars, sessionVars
  <2>2. f \in [Figures -> Int] /\ i \in Nat /\ i >= 1 /\ limited \in Nat
        /\ report.kind \in {"none", "status", "metrics", "title"} /\ report.calm \in BOOLEAN
    BY DEF ReportInv
  <2>0. report.kind = "status" \/ report.kind = "metrics" \/ report.kind = "title"
    BY <2>1, <2>2
  <2>3. /\ Calls \in Nat /\ Calls <= total /\ active \in Int /\ active <= Cardinality(Workers)
        /\ (Calm => Calls = total)
    BY CountTypes, CalmCounts, SMTT(30) DEF Calls, CallSet
  <2>4. report'.calm \in BOOLEAN
    BY <2>1
  <2>5. report'.calm => report.calm /\ Calls = report.from /\ total = report.from
    BY <2>1, <2>2, <2>3
  <2>6. /\ Counters["methods"] = Calls /\ Counters["sessions"] = live
        /\ Counters["active"] = active /\ Counters["created"] = created
        /\ Counters["total"] = total /\ Counters["limited"] = limited
    BY DEF Counters
  <2>7. field \in Figures
    <3>1. CASE report.kind = "status"
      BY <2>1, <2>2, <3>1, ReadOrder, SMTT(30) DEF Figures
    <3>2. CASE report.kind = "metrics"
      BY <2>1, <2>2, <3>2, ReadOrder, SMTT(30) DEF Figures
    <3>3. CASE report.kind = "title"
      BY <2>1, <2>2, <3>3, ReadOrder, SMTT(30) DEF Figures
    <3> QED
      BY <2>1, <2>2, <3>1, <3>2, <3>3
  <2>8. Counters[field] \in Int
    BY <1>t, <2>2, <2>3, <2>6, <2>7, SMTT(30) DEF Figures
  <2>9. g \in [Figures -> Int] /\ \A x \in Figures : g[x] = IF x = field THEN Counters[x] ELSE f[x]
    BY <2>1, <2>2, <2>7, <2>8
  <2>10. /\ f["methods"] \in Int /\ f["sessions"] \in Int /\ f["total"] \in Int
         /\ f["created"] \in Int /\ f["active"] \in Int
    BY <2>2 DEF Figures
  <2> DEFINE Gives(a, m, n, c, t) == /\ g["active"] = a /\ g["methods"] = m /\ g["sessions"] = n
                                     /\ g["created"] = c /\ g["total"] = t
  <2>11. /\ field = "methods" =>
              Gives(f["active"], Calls, f["sessions"], f["created"], f["total"])
         /\ field = "sessions" =>
              Gives(f["active"], f["methods"], live, f["created"], f["total"])
         /\ field = "active" =>
              Gives(active, f["methods"], f["sessions"], f["created"], f["total"])
         /\ field = "created" =>
              Gives(f["active"], f["methods"], f["sessions"], created, f["total"])
         /\ field = "total" =>
              Gives(f["active"], f["methods"], f["sessions"], f["created"], total)
         /\ field = "limited" =>
              Gives(f["active"], f["methods"], f["sessions"], f["created"], f["total"])
    BY <2>6, <2>9 DEF Figures
  <2>12. report.kind = "status" => /\ i = 1 \/ i = 2 \/ i = 3 \/ i = 4 \/ i = 5 \/ i = 6
                                   /\ (i = 1 => field = "methods")
                                   /\ (i = 2 => field = "sessions")
                                   /\ (i = 3 => field = "active")
                                   /\ (i = 4 => field = "created")
                                   /\ (i = 5 => field = "total")
                                   /\ (i = 6 => field = "limited")
    BY <2>1, <2>2, ReadOrder, SMTT(30)
  <2>13. report.kind = "metrics" => /\ i = 1 \/ i = 2 \/ i = 3 \/ i = 4 \/ i = 5
                                    /\ (i = 1 => field = "total")
                                    /\ (i = 2 => field = "active")
                                    /\ (i = 3 => field = "sessions")
                                    /\ (i = 4 => field = "limited")
                                    /\ (i = 5 => field = "methods")
    BY <2>1, <2>2, ReadOrder, SMTT(30)
  <2>14. report.kind = "title" => /\ i = 1 \/ i = 2 \/ i = 3
                                  /\ (i = 1 => field = "active")
                                  /\ (i = 2 => field = "sessions")
                                  /\ (i = 3 => field = "total")
    BY <2>1, <2>2, ReadOrder, SMTT(30)
  <2> HIDE DEF field
  <2> USE <1>t, <2>1, <2>2, <2>3, <2>4, <2>5, <2>9, <2>10, <2>11 DEF ReportInv
  <2>15. CASE report.kind = "status" /\ i = 1
    BY <2>12, <2>15, SMTT(30)
  <2>16. CASE report.kind = "status" /\ i = 2
    BY <2>12, <2>16, SMTT(30)
  <2>17. CASE report.kind = "status" /\ i = 3
    BY <2>12, <2>17, SMTT(30)
  <2>18. CASE report.kind = "status" /\ i = 4
    BY <2>12, <2>18, SMTT(30)
  <2>19. CASE report.kind = "status" /\ i = 5
    BY <2>12, <2>19, SMTT(30)
  <2>20. CASE report.kind = "status" /\ i = 6
    BY <2>12, <2>20, SMTT(30)
  <2>21. CASE report.kind = "metrics" /\ i = 1
    BY <2>13, <2>21, SMTT(30)
  <2>22. CASE report.kind = "metrics" /\ i = 2
    BY <2>13, <2>22, SMTT(30)
  <2>23. CASE report.kind = "metrics" /\ i = 3
    BY <2>13, <2>23, SMTT(30)
  <2>24. CASE report.kind = "metrics" /\ i = 4
    BY <2>13, <2>24, SMTT(30)
  <2>25. CASE report.kind = "metrics" /\ i = 5
    BY <2>13, <2>25, SMTT(30)
  <2>26. CASE report.kind = "title" /\ i = 1
    BY <2>14, <2>26, SMTT(30)
  <2>27. CASE report.kind = "title" /\ i = 2
    BY <2>14, <2>27, SMTT(30)
  <2>28. CASE report.kind = "title" /\ i = 3
    BY <2>14, <2>28, SMTT(30)
  <2> HIDE <1>t, <2>1, <2>2, <2>3, <2>4, <2>5, <2>9, <2>10, <2>11 DEF ReportInv
  <2> QED
    BY <2>0, <2>12, <2>13, <2>14, <2>15, <2>16, <2>17, <2>18, <2>19, <2>20, <2>21,
       <2>22, <2>23, <2>24, <2>25, <2>26, <2>27, <2>28
<1> QED
  BY <1>1, <1>2, <1>3, OnlyReports

(* Every request is counted once by each counter, and reports add up as the *)
(* daemon's order of reads promises (server.go:475-504,                     *)
(* observability.go:34-39, 123-128, 208-218, 316-371).                      *)
THEOREM ReportsAddUpHolds == Spec => []ReportsAddUp
<1>1. CountInv /\ ReportInv => ReportsAddUp
  <2> SUFFICES ASSUME CountInv, ReportInv PROVE ReportsAddUp
    OBVIOUS
  <2>1. /\ total = Calls + Cardinality({w \in Workers : pc[w] \notin
                                           {"idle", "total", "inactive", "encode"}})
        /\ active = Cardinality({w \in Workers : pc[w] \notin
                                           {"idle", "total", "active", "encode"}})
    BY DEF CountInv, Calls, CallSet, Uncounted, Busy
  <2>2. /\ Done /\ report.kind = "status" => report.next > 6
        /\ Done /\ report.kind = "metrics" => report.next > 5
        /\ Done /\ report.kind = "title" => report.next > 3
    BY ReadOrder DEF Done
  <2>3. ASSUME Done
        PROVE  /\ report.figure["active"] <= Cardinality(Workers)
               /\ report.kind = "status" =>
                    /\ report.figure["methods"] <= report.figure["total"]
                    /\ report.figure["sessions"] <= report.figure["created"]
               /\ report.kind # "title" /\ report.calm =>
                    report.figure["methods"] = report.figure["total"]
    <3>1. report.kind \in {"status", "metrics", "title"} /\ report.next \in Nat
      BY <2>3 DEF Done, ReportInv
    <3>2. CASE report.kind = "status"
      BY <2>2, <2>3, <3>1, <3>2, SMTT(30) DEF ReportInv
    <3>3. CASE report.kind = "metrics"
      BY <2>2, <2>3, <3>1, <3>3, SMTT(30) DEF ReportInv
    <3>4. CASE report.kind = "title"
      BY <2>2, <2>3, <3>1, <3>4, SMTT(30) DEF ReportInv
    <3> QED
      BY <3>1, <3>2, <3>3, <3>4
  <2> QED
    BY <2>1, <2>3 DEF ReportsAddUp
<1> QED
  BY <1>1, InitCountInv, CountStep, ReportStep, PTL DEF Spec

-----------------------------------------------------------------------------
(* What the operators on output compute. *)

(* The lesser of two numbers. *)
Lesser(a, b) == IF a <= b THEN a ELSE b

(* What Min chooses of two numbers. *)
LEMMA MinOfTwo == ASSUME NEW a \in Int, NEW b \in Int PROVE Min({a, b}) = Lesser(a, b)
<1>1. \A x \in {a, b} : (\A y \in {a, b} : x <= y) => x = Lesser(a, b)
  BY SMTT(30) DEF Lesser
<1>2. Lesser(a, b) \in {a, b} /\ \A y \in {a, b} : Lesser(a, b) <= y
  BY SMTT(30) DEF Lesser
<1> QED
  BY <1>1, <1>2 DEF Min

(* The units of a request on a stream. *)
Stream(n, s) == {<<n, s, k>> : k \in Int}

(* m units are a sequence of length m. *)
LEMMA UnitsLength ==
    ASSUME NEW n, NEW s, NEW i \in Nat, NEW m \in Nat
    PROVE  /\ Units(n, s, i, m) \in Seq(Stream(n, s))
           /\ Len(Units(n, s, i, m)) = m
           /\ \A k \in 1 .. m : Units(n, s, i, m)[k] = <<n, s, i + k>>
<1>1. \A k \in 1 .. m : <<n, s, i + k>> \in Stream(n, s)
  BY SMTT(30) DEF Stream
<1>2. Units(n, s, i, m) \in [1 .. m -> Stream(n, s)]
  BY <1>1 DEF Units
<1> QED
  BY <1>2, SMTT(30) DEF Units

(* Cut short, they are the first of them. *)
LEMMA UnitsCut ==
    ASSUME NEW n, NEW s, NEW i \in Nat, NEW l \in Nat, NEW m \in Nat, m <= l
    PROVE  SubSeq(Units(n, s, i, l), 1, m) = Units(n, s, i, m)
<1> DEFINE u == Units(n, s, i, l)
           t == Units(n, s, i, m)
           U == Stream(n, s)
<1>1. u \in Seq(U) /\ Len(u) = l /\ \A x \in 1 .. l : u[x] = <<n, s, i + x>>
  <2>1. u \in Seq(U)
    BY UnitsLength
  <2>2. Len(u) = l
    BY UnitsLength
  <2>3. \A x \in 1 .. l : u[x] = <<n, s, i + x>>
    BY DEF Units
  <2> QED
    BY <2>1, <2>2, <2>3
<1>2. t \in Seq(U) /\ Len(t) = m /\ \A x \in 1 .. m : t[x] = <<n, s, i + x>>
  <2>1. t \in Seq(U)
    BY UnitsLength
  <2>2. Len(t) = m
    BY UnitsLength
  <2>3. \A x \in 1 .. m : t[x] = <<n, s, i + x>>
    BY DEF Units
  <2> QED
    BY <2>1, <2>2, <2>3
<1> HIDE DEF u, t, U
<1>3. \A x \in 1 .. m : u[x] \in U
  BY <1>1, ElementOfSeq, SMTT(30)
<1> DEFINE c == SubSeq(u, 1, m)
<1>4. c \in Seq(U) /\ Len(c) = m /\ \A x \in 1 .. m : c[x] = u[x]
  <2>1. /\ c \in Seq(U) /\ Len(c) = IF 1 <= m THEN m - 1 + 1 ELSE 0
        /\ \A x \in 1 .. m - 1 + 1 : c[x] = u[1 + x - 1]
    BY <1>3, SubSeqProperties, SMTT(30)
  <2>2. m - 1 + 1 = m /\ (\A x \in 1 .. m : 1 + x - 1 = x) /\ (~(1 <= m) => m = 0)
    BY SMTT(30)
  <2> HIDE DEF c
  <2> QED
    BY <2>1, <2>2
<1> HIDE DEF c
<1>5. \A x \in 1 .. m : c[x] = t[x]
  <2> TAKE x \in 1 .. m
  <2>1. x \in 1 .. l
    BY SMTT(30)
  <2>2. c[x] = u[x] /\ u[x] = <<n, s, i + x>> /\ t[x] = <<n, s, i + x>>
    BY <1>1, <1>2, <1>4, <2>1
  <2> QED
    BY <2>2
<1>6. c = t
  BY <1>2, <1>4, <1>5, SeqEqual
<1> QED
  BY <1>6 DEF c, t, u

(* Units that follow one another make one run of units. *)
LEMMA UnitsJoin ==
    ASSUME NEW n, NEW s, NEW i \in Nat, NEW m \in Nat
    PROVE  Units(n, s, 0, i) \o Units(n, s, i, m) = Units(n, s, 0, i + m)
<1> DEFINE u == Units(n, s, 0, i)
           v == Units(n, s, i, m)
           t == Units(n, s, 0, i + m)
           U == Stream(n, s)
<1>0. 0 \in Nat /\ i + m \in Nat
  BY SMTT(30)
<1>1. u \in Seq(U) /\ Len(u) = i /\ \A x \in 1 .. i : u[x] = <<n, s, 0 + x>>
  <2>1. u \in Seq(U)
    BY <1>0, UnitsLength
  <2>2. Len(u) = i
    BY <1>0, UnitsLength
  <2>3. \A x \in 1 .. i : u[x] = <<n, s, 0 + x>>
    BY DEF Units
  <2> QED
    BY <2>1, <2>2, <2>3
<1>2. v \in Seq(U) /\ Len(v) = m /\ \A x \in 1 .. m : v[x] = <<n, s, i + x>>
  <2>1. v \in Seq(U)
    BY UnitsLength
  <2>2. Len(v) = m
    BY UnitsLength
  <2>3. \A x \in 1 .. m : v[x] = <<n, s, i + x>>
    BY DEF Units
  <2> QED
    BY <2>1, <2>2, <2>3
<1>3. t \in Seq(U) /\ Len(t) = i + m /\ \A x \in 1 .. (i + m) : t[x] = <<n, s, 0 + x>>
  <2>1. t \in Seq(U)
    BY <1>0, UnitsLength
  <2>2. Len(t) = i + m
    BY <1>0, UnitsLength
  <2>3. \A x \in 1 .. (i + m) : t[x] = <<n, s, 0 + x>>
    BY DEF Units
  <2> QED
    BY <2>1, <2>2, <2>3
<1> HIDE DEF u, v, t, U
<1>4. /\ u \o v \in Seq(U) /\ Len(u \o v) = i + m
      /\ \A x \in 1 .. (i + m) : (u \o v)[x] = IF x <= i THEN u[x] ELSE v[x - i]
  BY <1>1, <1>2, ConcatProperties
<1> DEFINE c == u \o v
<1> HIDE DEF c
<1>5. ASSUME NEW x \in 1 .. (i + m) PROVE c[x] = t[x]
  <2>0. c[x] = IF x <= i THEN u[x] ELSE v[x - i]
    BY <1>4 DEF c
  <2>1. CASE x <= i
    <3>1. x \in 1 .. i
      BY <2>1, SMTT(30)
    <3>2. c[x] = u[x]
      BY <2>0, <2>1
    <3>3. u[x] = <<n, s, 0 + x>> /\ t[x] = <<n, s, 0 + x>>
      BY <1>1, <1>3, <3>1
    <3> QED
      BY <3>2, <3>3
  <2>2. CASE ~(x <= i)
    <3>1. x - i \in 1 .. m
      BY <2>2, SMTT(30)
    <3>2. c[x] = v[x - i]
      BY <2>0, <2>2
    <3>3. i + (x - i) = 0 + x
      BY SMTT(30)
    <3>4. v[x - i] = <<n, s, i + (x - i)>> /\ t[x] = <<n, s, 0 + x>>
      BY <1>2, <1>3, <3>1
    <3> QED
      BY <3>2, <3>3, <3>4
  <2> QED
    BY <2>1, <2>2
<1>6. c \in Seq(U) /\ Len(c) = i + m
  BY <1>4 DEF c
<1>7. c = t
  BY <1>3, <1>5, <1>6, SeqEqual
<1> QED
  BY <1>7 DEF c, t, u, v

(* A LimitWriter has passed on what was written until it was full. *)
UpToLimit(k, written) == (k = written /\ written <= Limit) \/ (k = Limit /\ Limit <= written)

(* A write of m units after the first i to a LimitWriter that passed on wr. *)
Keeps(n, s, wr, i, m) ==
    LET res == LimitWrite(wr, Units(n, s, i, m))
        now == wr + Len(res.p)
    IN  /\ now \in Nat /\ Len(res.p) \in Nat
        /\ Units(n, s, 0, wr) \o res.p = Units(n, s, 0, now)
        /\ UpToLimit(now, i + m)
        /\ res.failed => now = Limit

(* What a LimitWriter that holds the first units of a stream holds after a  *)
(* write of the next ones: as many of them as fit, and an error says that   *)
(* it is full.                                                              *)
LEMMA LimitWriteKeeps ==
    ASSUME NEW n, NEW s, NEW wr \in Nat, NEW i \in Nat, NEW m \in Nat, UpToLimit(wr, i)
    PROVE  Keeps(n, s, wr, i, m)
<1> DEFINE u == Units(n, s, i, m)
           room == Lesser(m, Limit - wr)
           res == LimitWrite(wr, u)
<1>0. Limit \in Nat /\ Limit > 0
  BY ExecutionAssumption, SMTT(30) DEF ExecutionAssumption
<1>1. Len(u) = m
  BY UnitsLength
<1>2. room \in Nat /\ room <= m
  BY <1>0, SMTT(30) DEF Lesser, UpToLimit
<1>3. Min({Len(u), Limit - wr}) = room
  <2>1. m \in Int /\ Limit - wr \in Int
    BY <1>0, SMTT(30)
  <2> QED
    BY <1>1, <2>1, MinOfTwo
<1> HIDE DEF room
<1>4. res.p = SubSeq(u, 1, room) /\ res.failed = (wr >= Limit \/ wr + m > Limit)
  BY <1>1, <1>3 DEF LimitWrite
<1>5. res.p = Units(n, s, i, room)
  BY <1>2, <1>4, UnitsCut
<1>6. Len(res.p) = room
  <2>1. Len(Units(n, s, i, room)) = room
    BY <1>2, UnitsLength
  <2> QED
    BY <1>5, <2>1
<1>7. Units(n, s, 0, wr) \o res.p = Units(n, s, 0, wr + room)
  <2>1. CASE wr = i
    <3>1. Units(n, s, 0, i) \o Units(n, s, i, room) = Units(n, s, 0, i + room)
      <4>1. \A k \in Nat : Units(n, s, 0, i) \o Units(n, s, i, k) = Units(n, s, 0, i + k)
        BY UnitsJoin, SMTT(30)
      <4> QED
        BY <1>2, <4>1
    <3> QED
      BY <1>5, <2>1, <3>1
  <2>2. CASE wr = Limit /\ Limit <= i
    <3>1. room = 0 /\ wr + 0 = wr
      BY <1>0, <2>2, SMTT(30) DEF room, Lesser
    <3>2. Units(n, s, i, 0) = <<>>
      BY SMTT(30) DEF Units
    <3>3. 0 \in Nat
      OBVIOUS
    <3>4. Units(n, s, 0, wr) \in Seq(Stream(n, s))
      BY <3>3, UnitsLength
    <3>5. Units(n, s, 0, wr) \o <<>> = Units(n, s, 0, wr)
      BY <3>4, ConcatEmptySeq
    <3> QED
      BY <1>5, <3>1, <3>2, <3>5
  <2> QED
    BY <2>1, <2>2 DEF UpToLimit
<1>8. /\ wr + room \in Nat
      /\ UpToLimit(wr + room, i + m)
      /\ (wr >= Limit \/ wr + m > Limit) => wr + room = Limit
  BY <1>0, SMTT(30) DEF room, Lesser, UpToLimit
<1> HIDE DEF res, u
<1> QED
  BY <1>2, <1>4, <1>6, <1>7, <1>8 DEF res, u, Keeps

-----------------------------------------------------------------------------
(* The buffers and the output. *)

(* A worker holds its two buffers between Get and Put, its utility has      *)
(* returned at some of these places, and then there is a result.            *)
Holding == {"spawn", "abs", "save", "chdir", "work", "restore", "respond", "put"}
Returned == {"restore", "respond", "put"}
Responded == {"put", "record", "inactive", "encode"}

(* The values the variables take. *)
OutTypes ==
    /\ Working
    /\ no \in [Workers -> Nat] /\ taken \in Nat
    /\ bufs \in [Workers -> (Buffers \X Buffers) \cup {NoBuffer}]
    /\ wrote \in [Workers -> Nat \X Nat]
    /\ at \in [Workers -> Nat]
    /\ DOMAIN result = Workers /\ result = [w \in Workers |-> result[w]]
    /\ pool \subseteq Buffers
    /\ tainted \in [Workers -> BOOLEAN]
    /\ DOMAIN content = Buffers /\ content = [b \in Buffers |-> content[b]]

(* How far a worker's utility is: the buffers hold the first units of its   *)
(* own request's output, as many as its writes so far came to or as fit,    *)
(* unless a child wrote into them.                                          *)
Progress(w) ==
    /\ req[w].ends # "builtin"
    /\ tainted[w] \/ /\ content[bufs[w][1]] = Units(no[w], "out", 0, wrote[w][1])
                      /\ content[bufs[w][2]] = Units(no[w], "err", 0, wrote[w][2])
    /\ UpToLimit(wrote[w][1], Offset(req[w], at[w]))
    /\ req[w].ends = "once" => at[w] <= Len(req[w].out)
    /\ pc[w] \in {"spawn", "abs", "save", "chdir"} => at[w] = 0
    /\ pc[w] \notin Returned => wrote[w][2] = 0
    /\ pc[w] \in Returned =>
         /\ wrote[w][2] = Lesser(req[w].err, Limit)
         /\ req[w].ends = "once" => at[w] = Len(req[w].out)
         /\ req[w].ends # "once" => wrote[w][1] = Limit

(* The answer is the request's own, with the same exception. *)
Own(w) ==
    result[w].form \notin {"none", "builtin"} /\ ~tainted[w] =>
        /\ result[w].out = Kept(no[w], req[w])
        /\ result[w].err = Units(no[w], "err", 0, Min({req[w].err, Limit}))
        /\ result[w].form \in {"data", "error"} =>
             Len(result[w].out) = Offset(req[w], Len(req[w].out))

(* A worker's two buffers are not in the pool. *)
Holds(w) ==
    /\ bufs[w] \in Buffers \X Buffers
    /\ bufs[w][1] # bufs[w][2]
    /\ bufs[w][1] \notin pool /\ bufs[w][2] \notin pool

(* What a worker has to itself. *)
Mine(w) ==
    /\ pc[w] \in Holding => Holds(w) /\ Progress(w)
    /\ pc[w] \notin Holding => bufs[w] = NoBuffer
    /\ pc[w] = "buffers" => req[w].ends # "builtin"
    /\ pc[w] \in Responded => Own(w)

(* No buffer is held by two workers. *)
Apart(v, w) ==
    pc[v] \in Holding /\ pc[w] \in Holding =>
        /\ bufs[v][1] # bufs[w][1] /\ bufs[v][1] # bufs[w][2]
        /\ bufs[v][2] # bufs[w][1] /\ bufs[v][2] # bufs[w][2]

(* The inductive invariant of the output. *)
OutInv ==
    /\ OutTypes
    /\ \A w \in Workers : Mine(w)
    /\ \A v, w \in Workers : v # w => Apart(v, w)

(* Nothing of another worker's own state changes. *)
Same(v) ==
    /\ pc'[v] = pc[v] /\ req'[v] = req[v] /\ no'[v] = no[v] /\ bufs'[v] = bufs[v]
    /\ wrote'[v] = wrote[v] /\ at'[v] = at[v] /\ result'[v] = result[v]
    /\ tainted'[v] = tainted[v]

(* What one worker does leaves the others as they are if it keeps off their *)
(* buffers.                                                                 *)
LEMMA Frame ==
    ASSUME OutInv, OutTypes', NEW w \in Workers, Mine(w)',
           \A v \in Workers \ {w} : Same(v),
           \A v \in Workers \ {w} : pc[v] \in Holding =>
               /\ content'[bufs[v][1]] = content[bufs[v][1]]
               /\ content'[bufs[v][2]] = content[bufs[v][2]]
               /\ bufs[v][1] \notin pool' /\ bufs[v][2] \notin pool'
               /\ pc'[w] \in Holding => /\ bufs'[w][1] \notin {bufs[v][1], bufs[v][2]}
                                        /\ bufs'[w][2] \notin {bufs[v][1], bufs[v][2]}
    PROVE  OutInv'
<1>1. ASSUME NEW v \in Workers \ {w} PROVE Mine(v)'
  <2>1. Mine(v) /\ Same(v)
    BY DEF OutInv
  <2>2. pc'[v] \in Holding => Holds(v)' /\ Progress(v)'
    BY <2>1, SMTT(30) DEF Mine, Holds, Progress, Same
  <2>3. pc'[v] \notin Holding => bufs'[v] = NoBuffer
    BY <2>1 DEF Mine, Same
  <2>4. pc'[v] = "buffers" => req'[v].ends # "builtin"
    BY <2>1 DEF Mine, Same
  <2>5. pc'[v] \in Responded => Own(v)'
    BY <2>1 DEF Mine, Own, Same
  <2> QED
    BY <2>2, <2>3, <2>4, <2>5 DEF Mine
<1>2. ASSUME NEW u \in Workers, NEW v \in Workers, u # v PROVE Apart(u, v)'
  <2>1. CASE u # w /\ v # w
    BY <1>2, <2>1, SMTT(30) DEF OutInv, Apart, Same
  <2>2. CASE u = w \/ v = w
    BY <1>2, <2>2, SMTT(30) DEF Apart, Same
  <2> QED
    BY <2>1, <2>2
<1> QED
  BY <1>1, <1>2 DEF OutInv

(* A step that leaves buffers and pool alone. *)
LEMMA Quiet ==
    ASSUME OutInv, Working', NEW w \in Workers, Mine(w)',
           UNCHANGED <<bufs, content, pool, tainted>>,
           pc'[w] \in Holding => pc[w] \in Holding,
           \A v \in Workers \ {w} : Same(v),
           no' \in [Workers -> Nat], taken' \in Nat, wrote' \in [Workers -> Nat \X Nat],
           at' \in [Workers -> Nat], DOMAIN result' = Workers,
           result' = [v \in Workers |-> result'[v]]
    PROVE  OutInv'
<1>1. OutTypes'
  BY DEF OutInv, OutTypes
<1>2. ASSUME NEW v \in Workers \ {w}, pc[v] \in Holding
      PROVE  /\ bufs[v][1] \notin pool' /\ bufs[v][2] \notin pool'
             /\ pc'[w] \in Holding => /\ bufs'[w][1] \notin {bufs[v][1], bufs[v][2]}
                                      /\ bufs'[w][2] \notin {bufs[v][1], bufs[v][2]}
  <2>1. Mine(v) /\ Apart(v, w)
    BY DEF OutInv
  <2> QED
    BY <1>2, <2>1 DEF Mine, Holds, Apart
<1> QED
  BY <1>1, <1>2, Frame

(* No buffer is out at the start. *)
LEMMA InitOutInv == Init => OutInv
<1> SUFFICES ASSUME Init PROVE OutInv
  OBVIOUS
<1>1. OutTypes
  BY InitWorking DEF Init, OutTypes
<1>2. \A w \in Workers : Mine(w)
  BY DEF Init, Mine, Holding, Responded
<1>3. \A v, w \in Workers : Apart(v, w)
  BY DEF Init, Apart, Holding
<1> QED
  BY <1>1, <1>2, <1>3 DEF OutInv

(* Taking up a request. *)
LEMMA OutBegin ==
    ASSUME OutInv, Working', NEW w \in Workers, NEW r \in Requests, Begin(w, r) PROVE OutInv'
<1>1. /\ pc[w] = "idle" /\ pc' = [pc EXCEPT ![w] = "total"]
      /\ req' = [req EXCEPT ![w] = r] /\ no' = [no EXCEPT ![w] = taken + 1]
      /\ taken' = taken + 1 /\ UNCHANGED <<bufs, wrote, at, result, pool, content, tainted>>
  BY DEF Begin, Go, childVars
<1>2. Working /\ OutTypes /\ Mine(w)
  BY DEF OutInv, OutTypes
<1>3. \A v \in Workers \ {w} : Same(v)
  BY <1>1, <1>2 DEF Same, Working, OutTypes
<1>4. pc'[w] = "total" /\ bufs'[w] = NoBuffer
  BY <1>1, <1>2 DEF Working, Mine, Holding
<1>5. Mine(w)'
  BY <1>4 DEF Mine, Holding, Responded
<1>6. no' \in [Workers -> Nat] /\ taken' \in Nat
  BY <1>1, <1>2, SMTT(30) DEF OutTypes
<1> QED
  BY <1>1, <1>2, <1>3, <1>4, <1>5, <1>6, Quiet DEF OutTypes, Holding

(* The counters, the working directory and the methods without a utility    *)
(* have nothing to do with buffers.                                         *)
LEMMA OutCount ==
    ASSUME OutInv, Working', NEW w \in Workers,
           CountTotal(w) \/ CountActive(w) \/ Record(w) \/ CountInactive(w)
    PROVE  OutInv'
<1>1. /\ pc[w] \in {"total", "active", "record", "inactive"}
      /\ pc'[w] \in {"active", "builtin", "buffers", "inactive", "encode"}
      /\ pc'[w] = "buffers" => req[w].ends # "builtin"
      /\ pc'[w] \in Responded => pc[w] \in Responded
      /\ \A v \in Workers \ {w} : pc'[v] = pc[v]
      /\ UNCHANGED <<req, no, bufs, wrote, at, result, taken, pool, content, tainted>>
  BY
     DEF OutInv, OutTypes, Working, CountTotal, CountActive, Record, CountInactive, Go,
         Responded, childVars
<1>2. OutTypes /\ Mine(w)
  BY DEF OutInv
<1>3. \A v \in Workers \ {w} : Same(v)
  BY <1>1 DEF Same
<1>4. Own(w)' <=> Own(w)
  BY <1>1 DEF Own
<1>5. Mine(w)'
  BY <1>1, <1>2, <1>4 DEF Mine, Holding
<1> QED
  BY <1>1, <1>2, <1>3, <1>5, Quiet DEF OutTypes, Holding

(* A built-in method answers without buffers. *)
LEMMA OutBuiltin ==
    ASSUME OutInv, Working', NEW w \in Workers, Builtin(w) PROVE OutInv'
<1>1. /\ pc[w] = "builtin" /\ pc' = [pc EXCEPT ![w] = "record"]
      /\ result' = [result EXCEPT ![w] = IF req[w].hasId THEN [form |-> "builtin"] ELSE NoResult]
      /\ UNCHANGED <<req, no, bufs, wrote, at, taken, pool, content, tainted>>
  BY DEF Builtin, Go, childVars
<1>2. OutTypes /\ Working /\ Mine(w)
  BY DEF OutInv, OutTypes
<1>3. \A v \in Workers \ {w} : Same(v)
  BY <1>1, <1>2 DEF Same, Working, OutTypes
<1>4. result'[w].form \in {"builtin", "none"} /\ pc'[w] = "record"
  BY <1>1, <1>2 DEF OutTypes, Working, NoResult
<1>5. Mine(w)'
  BY <1>1, <1>2, <1>4 DEF Mine, Own, Holding
<1>6. DOMAIN result' = Workers /\ result' = [v \in Workers |-> result'[v]]
  BY <1>1, <1>2 DEF OutTypes
<1> QED
  BY <1>1, <1>2, <1>3, <1>4, <1>5, <1>6, Quiet DEF OutTypes, Holding

(* tar's changes of directory leave what it has written alone. *)
LEMMA OutDirectory ==
    ASSUME OutInv, Working', NEW w \in Workers,
           ResolveArchive(w) \/ SaveDir(w) \/ Chdir(w) \/ Restore(w)
    PROVE  OutInv'
<1>1. /\ pc[w] \in {"abs", "save", "chdir", "restore"}
      /\ pc'[w] \in {"save", "chdir", "work", "respond"}
      /\ pc[w] = "chdir" /\ pc'[w] = "respond" => req[w].dir \in Missing
      /\ pc[w] = "restore" => pc'[w] = "respond"
      /\ pc'[w] = "respond" => pc[w] \in {"chdir", "restore"}
      /\ \A v \in Workers \ {w} : pc'[v] = pc[v]
      /\ UNCHANGED <<req, no, bufs, wrote, at, result, taken, pool, content, tainted>>
  BY DEF OutInv, OutTypes, Working, ResolveArchive, SaveDir, Chdir, Restore, Go, childVars
<1>2. OutTypes /\ Mine(w) /\ Working
  BY DEF OutInv, OutTypes
<1>3. \A v \in Workers \ {w} : Same(v)
  BY <1>1 DEF Same
<1>4. Holds(w) /\ Progress(w) /\ (Holds(w)' <=> Holds(w))
  BY <1>1, <1>2 DEF Mine, Holding, Holds
<1>5. Progress(w)'
  <2>1. CASE pc[w] = "restore"
    BY <1>1, <1>4, <2>1 DEF Progress, Returned
  <2>2. CASE pc[w] # "restore" /\ pc'[w] # "respond"
    BY <1>1, <1>4, <2>2 DEF Progress, Returned
  <2>3. CASE pc[w] # "restore" /\ pc'[w] = "respond"
    <3>1. req[w] \in Requests /\ req[w].dir \in Missing
      BY <1>1, <1>2, <2>3 DEF Working
    <3>2. req[w].ends = "once" /\ req[w].out = <<>> /\ req[w].err = 0
      BY <3>1, RequestShape
    <3>3. Len(req[w].out) = 0 /\ Lesser(req[w].err, Limit) = 0
      BY <3>2, ExecutionAssumption, SMTT(30) DEF Lesser, ExecutionAssumption
    <3>4. at[w] = 0 /\ wrote[w][2] = 0
      BY <1>1, <1>4, <2>3 DEF Progress, Returned
    <3> QED
      BY <1>1, <1>4, <2>3, <3>2, <3>3, <3>4 DEF Progress, Returned
  <2> QED
    BY <2>1, <2>2, <2>3
<1>6. Mine(w)'
  BY <1>1, <1>4, <1>5 DEF Mine, Holding, Responded
<1> QED
  BY <1>1, <1>2, <1>3, <1>6, Quiet DEF OutTypes, Holding

(* A request's output before any write is empty. *)
LEMMA OffsetZero == ASSUME NEW r PROVE Offset(r, 0) = 0
  BY DEF Offset

(* No units make no output. *)
LEMMA UnitsZero == ASSUME NEW n, NEW s PROVE Units(n, s, 0, 0) = <<>>
  BY SMTT(30) DEF Units

(* The two buffers a worker gets from the pool are nobody else's. *)
LEMMA OutTakeBuffers ==
    ASSUME OutInv, Working', NEW w \in Workers, NEW b \in Buffers, NEW e \in Buffers,
           TakeBuffers(w, b, e)
    PROVE  OutInv'
<1>1. /\ pc[w] = "buffers" /\ b # e /\ {b, e} \subseteq Available
      /\ bufs' = [bufs EXCEPT ![w] = <<b, e>>] /\ pool' = pool \ {b, e}
      /\ content' = [x \in Buffers |-> IF x \in {b, e} THEN <<>> ELSE content[x]]
      /\ wrote' = [wrote EXCEPT ![w] = <<0, 0>>] /\ at' = [at EXCEPT ![w] = 0]
      /\ pc' = [pc EXCEPT ![w] = IF req[w].dir \in Dirs THEN "abs"
                                 ELSE IF req[w].leaves THEN "spawn" ELSE "work"]
      /\ tainted' = [tainted EXCEPT ![w] = FALSE]
      /\ UNCHANGED <<req, no, result, taken>>
  BY DEF TakeBuffers, Go
<1>2. OutTypes /\ Mine(w) /\ Working
  BY DEF OutInv, OutTypes
<1>3. \A v \in Workers \ {w} : Same(v)
  BY <1>1, <1>2 DEF Same, Working, OutTypes
<1>4. /\ bufs'[w] = <<b, e>> /\ wrote'[w] = <<0, 0>> /\ at'[w] = 0
      /\ pc'[w] \in {"abs", "spawn", "work"}
      /\ content'[b] = <<>> /\ content'[e] = <<>>
  BY <1>1, <1>2 DEF OutTypes, Working
<1>5. Limit \in Nat
  BY ExecutionAssumption DEF ExecutionAssumption
<1>6. Holds(w)'
  BY <1>1, <1>4, SMTT(30) DEF Holds
<1>7. Progress(w)'
  <2>1. req'[w].ends # "builtin" /\ req'[w] \in Requests
    BY <1>1, <1>2 DEF Mine, Working
  <2>2. UpToLimit(0, Offset(req'[w], 0))
    BY <1>5, OffsetZero, SMTT(30) DEF UpToLimit
  <2>3. Units(no'[w], "out", 0, 0) = <<>> /\ Units(no'[w], "err", 0, 0) = <<>>
    BY UnitsZero
  <2>4. Len(req'[w].out) \in Nat
    BY <2>1, RequestShape, SMTT(30) DEF Shape
  <2>5. pc'[w] \notin Returned
    BY <1>4 DEF Returned
  <2>6. wrote'[w][1] = 0 /\ wrote'[w][2] = 0 /\ bufs'[w][1] = b /\ bufs'[w][2] = e
    BY <1>4, SMTT(30)
  <2> QED
    BY <1>4, <2>1, <2>2, <2>3, <2>4, <2>5, <2>6, SMTT(30) DEF Progress
<1>8. Mine(w)'
  BY <1>4, <1>6, <1>7 DEF Mine, Holding, Responded
<1>9. OutTypes'
  BY <1>1, <1>2 DEF OutTypes
<1>10. ASSUME NEW v \in Workers \ {w}, pc[v] \in Holding
       PROVE  /\ b \notin {bufs[v][1], bufs[v][2]} /\ e \notin {bufs[v][1], bufs[v][2]}
              /\ bufs[v][1] \in Buffers /\ bufs[v][2] \in Buffers
              /\ bufs[v][1] \notin pool /\ bufs[v][2] \notin pool
  <2>1. Holds(v)
    BY <1>10 DEF OutInv, Mine
  <2>2. bufs[v] # NoBuffer
    BY <2>1, SMTT(30) DEF Holds, NoBuffer
  <2>3. \A x \in Available : x \in pool \/ x \notin {bufs[v][1], bufs[v][2]}
    BY <2>2 DEF Available
  <2> QED
    BY <1>1, <2>1, <2>3 DEF Holds
<1>11. ASSUME NEW v \in Workers \ {w}, pc[v] \in Holding
       PROVE  /\ content'[bufs[v][1]] = content[bufs[v][1]]
              /\ content'[bufs[v][2]] = content[bufs[v][2]]
              /\ bufs[v][1] \notin pool' /\ bufs[v][2] \notin pool'
              /\ bufs'[w][1] \notin {bufs[v][1], bufs[v][2]}
              /\ bufs'[w][2] \notin {bufs[v][1], bufs[v][2]}
  BY <1>1, <1>4, <1>10, <1>11, SMTT(30)
<1> QED
  BY <1>3, <1>8, <1>9, <1>11, Frame

(* What the next write of a utility comes to. *)
LEMMA OffsetGrows ==
    ASSUME NEW r \in Requests, NEW k \in Nat, r.ends # "builtin",
           r.ends = "once" => k < Len(r.out)
    PROVE  /\ Offset(r, k) \in Nat /\ Offset(r, k + 1) \in Nat
           /\ Offset(r, k) <= Offset(r, k + 1)
<1>1. /\ r.out \in Seq(Nat) /\ r.ends \in {"builtin", "once", "error", "never"}
  BY RequestShape DEF Shape
<1>2. CASE r.ends = "once"
  <2>1. \A i \in 1 .. Len(r.out) : r.out[i] \in Nat
    BY <1>1, SMTT(30)
  <2>2. DOMAIN r.out = 1 .. Len(r.out) /\ Len(r.out) \in Nat
    BY <1>1, SMTT(30)
  <2>3. k + 1 \in 1 .. Len(r.out) /\ (k # 0 => k \in 1 .. Len(r.out))
    BY <1>2, <2>2, SMTT(30)
  <2>4. k # 0 => r.out[k] <= r.out[k + 1]
    BY <2>2, <2>3, ExecutionAssumption, SMTT(30) DEF ExecutionAssumption
  <2>5. k + 1 # 0
    BY SMTT(30)
  <2>6. Offset(r, k + 1) = r.out[k + 1] /\ Offset(r, k) = IF k = 0 THEN 0 ELSE r.out[k]
    BY <1>2, <2>5 DEF Offset
  <2> QED
    BY <2>1, <2>3, <2>4, <2>6, SMTT(30)
<1>3. CASE r.ends # "once"
  <2>1. Len(r.out) = 1
    BY <1>1, <1>3, RequestShape
  <2>2. r.out[1] \in Nat
    BY <1>1, <2>1, SMTT(30)
  <2>3. \A m \in Nat : k * m \in Nat /\ (k + 1) * m \in Nat /\ k * m <= (k + 1) * m
    BY SMTT(30)
  <2>4. \A m \in Nat : k = 0 => k * m = 0
    BY SMTT(30)
  <2>5. Offset(r, k + 1) = (k + 1) * r.out[1] /\ Offset(r, k) = IF k = 0 THEN 0 ELSE k * r.out[1]
    BY <1>3, SMTT(30) DEF Offset
  <2> QED
    BY <2>2, <2>3, <2>4, <2>5
<1> QED
  BY <1>2, <1>3

(* A write to one's own buffer changes nobody else's. *)
LEMMA OwnBuffer ==
    ASSUME OutInv, NEW w \in Workers, pc[w] \in Holding, NEW k \in {1, 2}, NEW s,
           content' = [content EXCEPT ![bufs[w][k]] = s], UNCHANGED <<bufs, pool>>
    PROVE  /\ bufs[w][k] \in Buffers /\ content'[bufs[w][k]] = s
           /\ content'[bufs[w][3 - k]] = content[bufs[w][3 - k]]
           /\ DOMAIN content' = Buffers /\ content' = [b \in Buffers |-> content'[b]]
           /\ \A v \in Workers \ {w} : pc[v] \in Holding =>
                /\ content'[bufs[v][1]] = content[bufs[v][1]]
                /\ content'[bufs[v][2]] = content[bufs[v][2]]
                /\ bufs[v][1] \notin pool' /\ bufs[v][2] \notin pool'
                /\ bufs'[w][1] \notin {bufs[v][1], bufs[v][2]}
                /\ bufs'[w][2] \notin {bufs[v][1], bufs[v][2]}
<1>1. Holds(w) /\ OutTypes
  BY DEF OutInv, Mine
<1>2. /\ bufs[w][1] \in Buffers /\ bufs[w][2] \in Buffers /\ bufs[w][1] # bufs[w][2]
      /\ DOMAIN content = Buffers
  BY <1>1 DEF Holds, OutTypes
<1>3. \A b \in Buffers : b # bufs[w][k] => content'[b] = content[b]
  BY <1>2
<1>4. bufs[w][k] \in Buffers /\ content'[bufs[w][k]] = s
  BY <1>2
<1>5. bufs[w][3 - k] \in Buffers /\ bufs[w][3 - k] # bufs[w][k]
  BY <1>2, SMTT(30)
<1>6. DOMAIN content' = Buffers /\ content' = [b \in Buffers |-> content'[b]]
  BY <1>2
<1>7. ASSUME NEW v \in Workers \ {w}, pc[v] \in Holding
      PROVE  /\ content'[bufs[v][1]] = content[bufs[v][1]]
             /\ content'[bufs[v][2]] = content[bufs[v][2]]
             /\ bufs[v][1] \notin pool' /\ bufs[v][2] \notin pool'
             /\ bufs'[w][1] \notin {bufs[v][1], bufs[v][2]}
             /\ bufs'[w][2] \notin {bufs[v][1], bufs[v][2]}
  <2>1. Holds(v) /\ Apart(v, w)
    BY <1>7 DEF OutInv, Mine
  <2>2. /\ bufs[v][1] \in Buffers /\ bufs[v][2] \in Buffers
        /\ bufs[v][1] # bufs[w][1] /\ bufs[v][1] # bufs[w][2]
        /\ bufs[v][2] # bufs[w][1] /\ bufs[v][2] # bufs[w][2]
        /\ bufs[v][1] \notin pool /\ bufs[v][2] \notin pool
    BY <1>7, <2>1 DEF Holds, Apart
  <2> QED
    BY <1>3, <2>2
<1> QED
  BY <1>3, <1>4, <1>5, <1>6, <1>7

(* A write on standard output. *)
LEMMA OutWork ==
    ASSUME OutInv, Working', NEW w \in Workers, Work(w) PROVE OutInv'
<1> DEFINE r == req[w]
           before == Offset(r, at[w])
           size == Offset(r, at[w] + 1) - before
           res == LimitWrite(wrote[w][1], Units(no[w], "out", before, size))
           now == wrote[w][1] + Len(res.p)
<1>1. /\ pc[w] = "work" /\ (r.ends # "once" \/ at[w] < Len(r.out))
      /\ wrote' = [wrote EXCEPT ![w] = <<wrote[w][1] + Len(res.p), wrote[w][2]>>]
      /\ content' = [content EXCEPT ![bufs[w][1]] = content[bufs[w][1]] \o res.p]
      /\ at' = [at EXCEPT ![w] = IF r.ends # "once" /\ wrote[w][1] >= Limit THEN at[w]
                                 ELSE at[w] + 1]
      /\ pc' = [pc EXCEPT ![w] = IF r.ends = "error" /\ res.failed THEN "restore" ELSE "work"]
      /\ UNCHANGED <<req, no, bufs, result, taken, pool, tainted>>
  BY DEF Work, Go, childVars
<1>2. OutTypes /\ Mine(w) /\ Working /\ Holds(w) /\ Progress(w) /\ pc[w] \in Holding
  BY <1>1 DEF OutInv, OutTypes, Mine, Holding
<1>3. /\ r \in Requests /\ r.ends # "builtin" /\ at[w] \in Nat
      /\ wrote[w][1] \in Nat /\ wrote[w][2] = 0 /\ wrote[w] \in Nat \X Nat
  BY <1>1, <1>2 DEF Working, OutTypes, Progress, Returned
<1>4. before \in Nat /\ size \in Nat /\ before + size = Offset(r, at[w] + 1)
  BY <1>1, <1>3, OffsetGrows, SMTT(30)
<1>5. UpToLimit(wrote[w][1], before)
  BY <1>2 DEF Progress
<1> HIDE DEF before, size
<1>6. /\ now \in Nat
      /\ Units(no[w], "out", 0, wrote[w][1]) \o res.p = Units(no[w], "out", 0, now)
      /\ UpToLimit(now, before + size)
      /\ res.failed => now = Limit
  <2>1. Keeps(no[w], "out", wrote[w][1], before, size)
    BY <1>3, <1>4, <1>5, LimitWriteKeeps
  <2> QED
    BY <2>1 DEF Keeps
<1> DEFINE written == content[bufs[w][1]] \o res.p
<1>7. /\ wrote' = [wrote EXCEPT ![w] = <<now, wrote[w][2]>>]
      /\ content' = [content EXCEPT ![bufs[w][1]] = written]
      /\ tainted[w] \/ written = Units(no[w], "out", 0, now)
  <2>1. tainted[w] \/ content[bufs[w][1]] = Units(no[w], "out", 0, wrote[w][1])
    BY <1>2 DEF Progress
  <2>2. tainted[w] \/ written = Units(no[w], "out", 0, now)
    BY <1>6, <2>1
  <2> QED
    BY <1>1, <2>2
<1> HIDE DEF res, now, r, written
<1>8. /\ pc'[w] \in {"work", "restore"} /\ (pc'[w] = "restore" => r.ends = "error" /\ now = Limit)
      /\ \A v \in Workers \ {w} : pc'[v] = pc[v]
  BY <1>1, <1>2, <1>6 DEF Working
<1>9. /\ wrote'[w] = <<now, wrote[w][2]>> /\ wrote'[w][1] = now /\ wrote'[w][2] = 0
      /\ wrote' \in [Workers -> Nat \X Nat]
      /\ \A v \in Workers \ {w} : wrote'[v] = wrote[v]
  BY <1>2, <1>3, <1>6, <1>7 DEF OutTypes
<1>10. /\ at'[w] = IF r.ends # "once" /\ wrote[w][1] >= Limit THEN at[w] ELSE at[w] + 1
       /\ at' \in [Workers -> Nat]
       /\ \A v \in Workers \ {w} : at'[v] = at[v]
  BY <1>1, <1>2, <1>3, SMTT(30) DEF OutTypes
<1>11. Limit \in Nat
  BY ExecutionAssumption DEF ExecutionAssumption
<1>12. UpToLimit(now, Offset(r, at'[w]))
  <2>1. CASE r.ends # "once" /\ wrote[w][1] >= Limit
    <3>1. wrote[w][1] = Limit /\ Limit <= before
      BY <1>3, <1>4, <1>5, <1>11, <2>1, SMTT(30) DEF UpToLimit
    <3>2. now = Limit
      BY <1>4, <1>6, <1>11, <3>1, SMTT(30) DEF UpToLimit
    <3>3. Offset(r, at'[w]) = before
      BY <1>10, <2>1 DEF before
    <3> QED
      BY <3>1, <3>2, <3>3 DEF UpToLimit
  <2>2. CASE ~(r.ends # "once" /\ wrote[w][1] >= Limit)
    BY <1>4, <1>6, <1>10, <2>2
  <2> QED
    BY <2>1, <2>2
<1>13. r.ends = "once" => at'[w] <= Len(r.out)
  <2>1. Len(r.out) \in Nat
    BY <1>3, RequestShape, SMTT(30) DEF Shape
  <2> QED
    BY <1>1, <1>3, <1>10, <2>1, SMTT(30)
<1>14. /\ content'[bufs[w][1]] = written
       /\ content'[bufs[w][2]] = content[bufs[w][2]]
       /\ DOMAIN content' = Buffers /\ content' = [b \in Buffers |-> content'[b]]
       /\ \A v \in Workers \ {w} : pc[v] \in Holding =>
            /\ content'[bufs[v][1]] = content[bufs[v][1]]
            /\ content'[bufs[v][2]] = content[bufs[v][2]]
            /\ bufs[v][1] \notin pool' /\ bufs[v][2] \notin pool'
            /\ bufs'[w][1] \notin {bufs[v][1], bufs[v][2]}
            /\ bufs'[w][2] \notin {bufs[v][1], bufs[v][2]}
  <2>1. UNCHANGED <<bufs, pool>>
    BY <1>1
  <2>2. 1 \in {1, 2} /\ 3 - 1 = 2
    BY SMTT(30)
  <2> QED
    BY <1>2, <1>7, <2>1, <2>2, OwnBuffer
<1>15. Progress(w)'
  <2>1. req'[w] = r /\ no'[w] = no[w] /\ bufs'[w] = bufs[w] /\ tainted'[w] = tainted[w]
    BY <1>1 DEF r
  <2>2. tainted[w] \/ /\ content'[bufs[w][1]] = Units(no[w], "out", 0, wrote'[w][1])
                      /\ content'[bufs[w][2]] = Units(no[w], "err", 0, wrote'[w][2])
    BY <1>2, <1>3, <1>7, <1>9, <1>14 DEF Progress
  <2>3. pc'[w] \in Returned => wrote'[w][2] = Lesser(r.err, Limit) /\ r.ends # "once" /\ now = Limit
    <3> SUFFICES ASSUME pc'[w] \in Returned PROVE wrote'[w][2] = Lesser(r.err, Limit)
                                                 /\ r.ends # "once" /\ now = Limit
      OBVIOUS
    <3>1. r.ends = "error" /\ now = Limit
      BY <1>8 DEF Returned
    <3>2. r.err = 0
      BY <1>3, <3>1, RequestShape
    <3> QED
      BY <1>9, <1>11, <3>1, <3>2, SMTT(30) DEF Lesser
  <2> QED
    BY <1>3, <1>8, <1>9, <1>12, <1>13, <1>14, <2>1, <2>2, <2>3 DEF Progress
<1>16. Holds(w)'
  BY <1>1, <1>2 DEF Holds
<1>17. Mine(w)'
  BY <1>8, <1>15, <1>16 DEF Mine, Holding, Responded
<1>18. \A v \in Workers \ {w} : Same(v)
  BY <1>1, <1>8, <1>9, <1>10 DEF Same
<1>19. OutTypes'
  <2>1. /\ no' = no /\ taken' = taken /\ bufs' = bufs /\ pool' = pool
        /\ result' = result /\ tainted' = tainted
    BY <1>1
  <2>2. /\ wrote' \in [Workers -> Nat \X Nat] /\ at' \in [Workers -> Nat]
        /\ DOMAIN content' = Buffers /\ content' = [b \in Buffers |-> content'[b]]
    BY <1>9, <1>10, <1>14
  <2> QED
    BY <1>2, <2>1, <2>2 DEF OutTypes
<1>20. \A v \in Workers \ {w} : pc[v] \in Holding =>
           /\ content'[bufs[v][1]] = content[bufs[v][1]]
           /\ content'[bufs[v][2]] = content[bufs[v][2]]
           /\ bufs[v][1] \notin pool' /\ bufs[v][2] \notin pool'
           /\ pc'[w] \in Holding => /\ bufs'[w][1] \notin {bufs[v][1], bufs[v][2]}
                                    /\ bufs'[w][2] \notin {bufs[v][1], bufs[v][2]}
  BY <1>14
<1> QED
  BY <1>17, <1>18, <1>19, <1>20, Frame

(* What the utility says on standard error before it returns. *)
LEMMA OutFinish ==
    ASSUME OutInv, Working', NEW w \in Workers, Finish(w) PROVE OutInv'
<1> DEFINE res == LimitWrite(0, Units(no[w], "err", 0, req[w].err))
           now == Len(res.p)
<1>1. /\ pc[w] = "work" /\ req[w].ends = "once" /\ at[w] = Len(req[w].out)
      /\ content' = [content EXCEPT ![bufs[w][2]] = content[bufs[w][2]] \o res.p]
      /\ wrote' = [wrote EXCEPT ![w] = <<wrote[w][1], now>>]
      /\ pc' = [pc EXCEPT ![w] = "restore"]
      /\ UNCHANGED <<req, no, bufs, at, result, taken, pool, tainted>>
  BY DEF Finish, Go, childVars
<1>2. OutTypes /\ Mine(w) /\ Working /\ Holds(w) /\ Progress(w) /\ pc[w] \in Holding
  BY <1>1 DEF OutInv, OutTypes, Mine, Holding
<1>3. /\ req[w] \in Requests /\ wrote[w][1] \in Nat /\ wrote[w][2] = 0
  BY <1>1, <1>2 DEF Working, OutTypes, Progress, Returned
<1>4. Limit \in Nat /\ req[w].err \in Nat /\ 0 \in Nat
  BY <1>3, ExecutionAssumption, RequestShape DEF ExecutionAssumption, Shape
<1>5. /\ now \in Nat
      /\ Units(no[w], "err", 0, 0) \o res.p = Units(no[w], "err", 0, now)
      /\ now = Lesser(req[w].err, Limit)
  <2>1. UpToLimit(0, 0)
    BY <1>4, SMTT(30) DEF UpToLimit
  <2>2. Keeps(no[w], "err", 0, 0, req[w].err)
    BY <1>4, <2>1, LimitWriteKeeps
  <2>3. /\ 0 + now \in Nat /\ now \in Nat
        /\ Units(no[w], "err", 0, 0) \o res.p = Units(no[w], "err", 0, 0 + now)
        /\ UpToLimit(0 + now, 0 + req[w].err)
    BY <2>2 DEF Keeps
  <2> HIDE DEF now, res
  <2>4. 0 + now = now /\ 0 + req[w].err = req[w].err
    BY <1>4, <2>3, SMTT(30)
  <2>5. now = Lesser(req[w].err, Limit)
    BY <1>4, <2>3, <2>4, SMTT(30) DEF Lesser, UpToLimit
  <2> QED
    BY <2>3, <2>4, <2>5
<1> DEFINE written == content[bufs[w][2]] \o res.p
<1>6. /\ content' = [content EXCEPT ![bufs[w][2]] = written]
      /\ tainted[w] \/ written = Units(no[w], "err", 0, now)
  <2>1. tainted[w] \/ content[bufs[w][2]] = Units(no[w], "err", 0, 0)
    BY <1>2, <1>3 DEF Progress
  <2>2. tainted[w] \/ written = Units(no[w], "err", 0, now)
    BY <1>5, <2>1
  <2> QED
    BY <1>1, <2>2
<1> HIDE DEF now, res, written
<1>7. /\ pc'[w] = "restore" /\ pc'[w] \in Returned /\ \A v \in Workers \ {w} : pc'[v] = pc[v]
  BY <1>1, <1>2 DEF Working, Returned
<1>8. /\ wrote'[w][1] = wrote[w][1] /\ wrote'[w][2] = now
      /\ wrote' \in [Workers -> Nat \X Nat]
      /\ \A v \in Workers \ {w} : wrote'[v] = wrote[v]
  BY <1>1, <1>2, <1>3, <1>5 DEF OutTypes
<1>9. /\ content'[bufs[w][2]] = written
      /\ content'[bufs[w][1]] = content[bufs[w][1]]
      /\ DOMAIN content' = Buffers /\ content' = [b \in Buffers |-> content'[b]]
      /\ \A v \in Workers \ {w} : pc[v] \in Holding =>
           /\ content'[bufs[v][1]] = content[bufs[v][1]]
           /\ content'[bufs[v][2]] = content[bufs[v][2]]
           /\ bufs[v][1] \notin pool' /\ bufs[v][2] \notin pool'
           /\ bufs'[w][1] \notin {bufs[v][1], bufs[v][2]}
           /\ bufs'[w][2] \notin {bufs[v][1], bufs[v][2]}
  <2>1. UNCHANGED <<bufs, pool>>
    BY <1>1
  <2>2. 2 \in {1, 2} /\ 3 - 2 = 1
    BY SMTT(30)
  <2> QED
    BY <1>2, <1>6, <2>1, <2>2, OwnBuffer
<1>10. Progress(w)'
  <2>1. /\ req'[w] = req[w] /\ no'[w] = no[w] /\ bufs'[w] = bufs[w] /\ at'[w] = at[w]
        /\ tainted'[w] = tainted[w]
    BY <1>1
  <2>2. tainted[w] \/ /\ content'[bufs[w][1]] = Units(no[w], "out", 0, wrote'[w][1])
                      /\ content'[bufs[w][2]] = Units(no[w], "err", 0, wrote'[w][2])
    BY <1>2, <1>6, <1>8, <1>9 DEF Progress
  <2> QED
    BY <1>1, <1>2, <1>5, <1>7, <1>8, <2>1, <2>2 DEF Progress
<1>11. Holds(w)'
  BY <1>1, <1>2 DEF Holds
<1>12. Mine(w)'
  BY <1>7, <1>10, <1>11 DEF Mine, Holding, Responded
<1>13. \A v \in Workers \ {w} : Same(v)
  BY <1>1, <1>7, <1>8 DEF Same
<1>14. OutTypes'
  <2>1. /\ no' = no /\ taken' = taken /\ bufs' = bufs /\ pool' = pool /\ at' = at
        /\ result' = result /\ tainted' = tainted
    BY <1>1
  <2> QED
    BY <1>2, <1>8, <1>9, <2>1 DEF OutTypes
<1>15. \A v \in Workers \ {w} : pc[v] \in Holding =>
           /\ content'[bufs[v][1]] = content[bufs[v][1]]
           /\ content'[bufs[v][2]] = content[bufs[v][2]]
           /\ bufs[v][1] \notin pool' /\ bufs[v][2] \notin pool'
           /\ pc'[w] \in Holding => /\ bufs'[w][1] \notin {bufs[v][1], bufs[v][2]}
                                    /\ bufs'[w][2] \notin {bufs[v][1], bufs[v][2]}
  BY <1>9
<1> QED
  BY <1>12, <1>13, <1>14, <1>15, Frame

(* A utility that has returned wrote what is kept of its output. *)
LEMMA AllKept ==
    ASSUME OutInv, NEW w \in Workers, pc[w] \in Returned, Progress(w), ~tainted[w]
    PROVE  /\ content[bufs[w][1]] = Kept(no[w], req[w])
           /\ content[bufs[w][2]] = Units(no[w], "err", 0, Min({req[w].err, Limit}))
<1> DEFINE all == IF req[w].ends = "once" THEN Offset(req[w], Len(req[w].out)) ELSE Limit
<1>1. req[w] \in Requests
  BY DEF OutInv, OutTypes, Working, Returned
<1>2. Limit \in Nat /\ req[w].err \in Nat /\ req[w].out \in Seq(Nat) /\ Len(req[w].out) \in Nat
  BY <1>1, ExecutionAssumption, RequestShape, SMTT(30) DEF ExecutionAssumption, Shape
<1>3. all \in Nat
  <2>1. CASE req[w].ends = "once" /\ Len(req[w].out) # 0
    <3>1. Len(req[w].out) \in 1 .. Len(req[w].out)
      BY <1>2, <2>1, SMTT(30)
    <3>2. req[w].out[Len(req[w].out)] \in Nat
      BY <1>2, <3>1, ElementOfSeq
    <3> QED
      BY <2>1, <3>2 DEF Offset
  <2>2. CASE ~(req[w].ends = "once" /\ Len(req[w].out) # 0)
    BY <1>2, <2>2 DEF Offset
  <2> QED
    BY <2>1, <2>2
<1>4. wrote[w][1] = Lesser(all, Limit)
  <2>1. CASE req[w].ends = "once"
    <3>1. UpToLimit(wrote[w][1], all)
      BY <2>1 DEF Progress
    <3> HIDE DEF all
    <3> QED
      BY <1>2, <1>3, <3>1, SMTT(30) DEF UpToLimit, Lesser
  <2>2. CASE req[w].ends # "once"
    BY <1>2, <2>2 DEF Progress, Lesser
  <2> QED
    BY <2>1, <2>2
<1>5. Min({all, Limit}) = wrote[w][1]
  <2>1. all \in Int /\ Limit \in Int
    BY <1>2, <1>3, SMTT(30)
  <2> HIDE DEF all
  <2> QED
    BY <1>4, <2>1, MinOfTwo
<1>6. Min({req[w].err, Limit}) = wrote[w][2]
  <2>1. req[w].err \in Int /\ Limit \in Int
    BY <1>2, SMTT(30)
  <2>2. wrote[w][2] = Lesser(req[w].err, Limit)
    BY DEF Progress
  <2> QED
    BY <2>1, <2>2, MinOfTwo
<1>7. Kept(no[w], req[w]) = Units(no[w], "out", 0, wrote[w][1])
  BY <1>5 DEF Kept
<1> QED
  BY <1>6, <1>7 DEF Progress

(* The response is made of what the worker's own buffers hold. *)
LEMMA OutRespond ==
    ASSUME OutInv, Working', NEW w \in Workers, Respond(w) PROVE OutInv'
<1> DEFINE out == content[bufs[w][1]]
           parses == req[w].envelope # "none" /\ Len(out) = Offset(req[w], Len(req[w].out))
           form == IF req[w].raw THEN "raw" ELSE IF parses THEN req[w].envelope ELSE "text"
<1>1. /\ pc[w] = "respond" /\ pc' = [pc EXCEPT ![w] = "put"]
      /\ result' = [result EXCEPT ![w] =
                      IF req[w].hasId THEN [form |-> form, out |-> out,
                                            err |-> content[bufs[w][2]]]
                      ELSE NoResult]
      /\ UNCHANGED <<req, no, bufs, wrote, at, taken, pool, content, tainted>>
  BY DEF Respond, Go, childVars
<1>2. /\ OutTypes /\ Mine(w) /\ Working /\ Holds(w) /\ Progress(w)
      /\ pc[w] \in Holding /\ pc[w] \in Returned
  BY <1>1 DEF OutInv, OutTypes, Mine, Holding, Returned
<1>3. form \in {"data", "error"} => Len(out) = Offset(req[w], Len(req[w].out))
  OBVIOUS
<1>4. tainted[w] \/ /\ out = Kept(no[w], req[w])
                    /\ content[bufs[w][2]] = Units(no[w], "err", 0, Min({req[w].err, Limit}))
  BY <1>2, AllKept
<1>5. result'[w] = IF req[w].hasId THEN [form |-> form, out |-> out, err |-> content[bufs[w][2]]]
                   ELSE NoResult
  BY <1>1, <1>2 DEF OutTypes
<1> HIDE DEF form, out
<1>6. Own(w)'
  <2>1. req'[w] = req[w] /\ no'[w] = no[w] /\ tainted'[w] = tainted[w]
    BY <1>1
  <2>2. CASE req[w].hasId
    <3>1. /\ result'[w].form = form /\ result'[w].out = out
          /\ result'[w].err = content[bufs[w][2]]
      BY <1>5, <2>2, SMTT(30)
    <3> QED
      BY <1>3, <1>4, <2>1, <3>1 DEF Own
  <2>3. CASE ~req[w].hasId
    <3>1. result'[w].form = "none"
      BY <1>5, <2>3, SMTT(30) DEF NoResult
    <3> QED
      BY <3>1 DEF Own
  <2> QED
    BY <2>2, <2>3
<1>7. pc'[w] = "put" /\ \A v \in Workers \ {w} : pc'[v] = pc[v]
  BY <1>1, <1>2 DEF Working
<1>8. Holds(w)' /\ Progress(w)'
  BY <1>1, <1>2, <1>7 DEF Holds, Progress, Returned
<1>9. Mine(w)'
  BY <1>6, <1>7, <1>8 DEF Mine, Holding
<1>10. \A v \in Workers \ {w} : Same(v)
  BY <1>1, <1>2, <1>7 DEF Same, OutTypes
<1>11. DOMAIN result' = Workers /\ result' = [v \in Workers |-> result'[v]]
  BY <1>1, <1>2 DEF OutTypes
<1> QED
  BY <1>1, <1>2, <1>9, <1>10, <1>11, Quiet DEF OutTypes

(* The buffers go back to the pool. *)
LEMMA OutPutBuffers ==
    ASSUME OutInv, Working', NEW w \in Workers, PutBuffers(w) PROVE OutInv'
<1>1. /\ pc[w] = "put" /\ pc' = [pc EXCEPT ![w] = "record"]
      /\ pool' = pool \cup {bufs[w][1], bufs[w][2]}
      /\ content' = [b \in Buffers |->
                       IF b \in {bufs[w][1], bufs[w][2]} /\ content[b] # <<>> THEN Leftover
                       ELSE content[b]]
      /\ bufs' = [bufs EXCEPT ![w] = NoBuffer]
      /\ UNCHANGED <<req, no, wrote, at, result, taken, tainted>>
  BY DEF PutBuffers, Go, childVars
<1>2. OutTypes /\ Mine(w) /\ Working /\ Holds(w) /\ pc[w] \in Holding /\ pc[w] \in Responded
  BY <1>1 DEF OutInv, OutTypes, Mine, Holding, Responded
<1>3. pc'[w] = "record" /\ bufs'[w] = NoBuffer
  BY <1>1, <1>2 DEF Working, OutTypes
<1>4. Own(w)'
  BY <1>1, <1>2 DEF Mine, Own
<1>5. Mine(w)'
  BY <1>3, <1>4 DEF Mine, Holding
<1>6. \A v \in Workers \ {w} : Same(v)
  BY <1>1, <1>2 DEF Same, Working, OutTypes
<1>7. OutTypes'
  <2>1. pool' \subseteq Buffers
    BY <1>1, <1>2 DEF OutTypes, Holds
  <2>2. DOMAIN content' = Buffers /\ content' = [b \in Buffers |-> content'[b]]
    BY <1>1
  <2>3. bufs' \in [Workers -> (Buffers \X Buffers) \cup {NoBuffer}]
    BY <1>1, <1>2 DEF OutTypes
  <2> QED
    BY <1>1, <1>2, <2>1, <2>2, <2>3 DEF OutTypes
<1>8. ASSUME NEW v \in Workers \ {w}, pc[v] \in Holding
      PROVE  /\ content'[bufs[v][1]] = content[bufs[v][1]]
             /\ content'[bufs[v][2]] = content[bufs[v][2]]
             /\ bufs[v][1] \notin pool' /\ bufs[v][2] \notin pool'
  <2>1. Holds(v) /\ Apart(v, w)
    BY <1>8 DEF OutInv, Mine
  <2>2. /\ bufs[v][1] \in Buffers /\ bufs[v][2] \in Buffers
        /\ bufs[v][1] # bufs[w][1] /\ bufs[v][1] # bufs[w][2]
        /\ bufs[v][2] # bufs[w][1] /\ bufs[v][2] # bufs[w][2]
        /\ bufs[v][1] \notin pool /\ bufs[v][2] \notin pool
    BY <1>2, <1>8, <2>1 DEF Holds, Apart
  <2> QED
    BY <1>1, <2>2
<1>9. pc'[w] \notin Holding
  BY <1>3 DEF Holding
<1> QED
  BY <1>5, <1>6, <1>7, <1>8, <1>9, Frame

(* A child is started with the worker's own buffers. *)
LEMMA OutSpawn ==
    ASSUME OutInv, Working', NEW w \in Workers, Spawn(w) PROVE OutInv'
<1>1. /\ pc[w] = "spawn" /\ pc' = [pc EXCEPT ![w] = "work"]
      /\ UNCHANGED <<req, no, bufs, wrote, at, result, taken, pool, content, tainted>>
  BY DEF Spawn, Go
<1>2. OutTypes /\ Mine(w) /\ Working /\ Holds(w) /\ Progress(w) /\ pc[w] \in Holding
  BY <1>1 DEF OutInv, OutTypes, Mine, Holding
<1>3. pc'[w] = "work" /\ \A v \in Workers \ {w} : pc'[v] = pc[v]
  BY <1>1, <1>2 DEF Working
<1>4. Holds(w)' /\ Progress(w)'
  BY <1>1, <1>2, <1>3 DEF Holds, Progress, Returned
<1>5. Mine(w)'
  BY <1>3, <1>4 DEF Mine, Holding, Responded
<1>6. \A v \in Workers \ {w} : Same(v)
  BY <1>1, <1>3 DEF Same
<1> QED
  BY <1>1, <1>2, <1>5, <1>6, Quiet DEF OutTypes

(* What a child writes into a buffer is held against its holder only. *)
LEMMA OutChildWrites ==
    ASSUME OutInv, Working', NEW b \in Buffers, ChildWrites(b) PROVE OutInv'
<1>1. /\ UNCHANGED <<pc, req, no, bufs, wrote, at, result, taken, pool>>
      /\ content' = [content EXCEPT ![b] = Leftover]
      /\ tainted' = [w \in Workers |->
                       tainted[w] \/ (bufs[w] # NoBuffer /\ b \in {bufs[w][1], bufs[w][2]})]
  BY DEF ChildWrites, workerVars
<1>2. OutTypes
  BY DEF OutInv
<1>3. OutTypes'
  <2>1. tainted' \in [Workers -> BOOLEAN]
    BY <1>1, <1>2 DEF OutTypes
  <2>2. DOMAIN content' = Buffers /\ content' = [x \in Buffers |-> content'[x]]
    BY <1>1, <1>2 DEF OutTypes
  <2> QED
    BY <1>1, <1>2, <2>1, <2>2 DEF OutTypes
<1>4. ASSUME NEW w \in Workers PROVE Mine(w)'
  <2>1. Mine(w) /\ (tainted[w] => tainted'[w])
    BY <1>1 DEF OutInv
  <2>2. ASSUME pc[w] \in Holding
        PROVE  tainted'[w] \/ /\ ~tainted[w]
                              /\ content'[bufs[w][1]] = content[bufs[w][1]]
                              /\ content'[bufs[w][2]] = content[bufs[w][2]]
    <3>1. Holds(w)
      BY <2>1, <2>2 DEF Mine
    <3>2. bufs[w] # NoBuffer /\ bufs[w][1] \in Buffers /\ bufs[w][2] \in Buffers
      BY <3>1, SMTT(30) DEF Holds, NoBuffer
    <3>3. \A x \in Buffers : x # b => content'[x] = content[x]
      BY <1>1, <1>2 DEF OutTypes
    <3> QED
      BY <1>1, <3>2, <3>3
  <2>3. pc[w] \in Holding => Holds(w)' /\ Progress(w)'
    <3> SUFFICES ASSUME pc[w] \in Holding PROVE Holds(w)' /\ Progress(w)'
      OBVIOUS
    <3>1. Holds(w) /\ Progress(w)
      BY <2>1 DEF Mine
    <3>2. Holds(w)'
      BY <1>1, <3>1 DEF Holds
    <3>3. Progress(w)'
      BY <1>1, <2>2, <3>1 DEF Progress
    <3> QED
      BY <3>2, <3>3
  <2>4. pc[w] \in Responded => Own(w)'
    BY <1>1, <2>1 DEF Mine, Own
  <2> QED
    BY <1>1, <2>1, <2>3, <2>4 DEF Mine
<1>5. \A v, w \in Workers : v # w => Apart(v, w)'
  BY <1>1 DEF OutInv, Apart
<1> QED
  BY <1>3, <1>4, <1>5 DEF OutInv

(* The worker is done with its request. *)
LEMMA OutEncode ==
    ASSUME OutInv, Working', NEW w \in Workers, Encode(w) PROVE OutInv'
<1>1. /\ pc[w] = "encode" /\ pc' = [pc EXCEPT ![w] = "idle"]
      /\ req' = [req EXCEPT ![w] = NoRequest] /\ no' = [no EXCEPT ![w] = 0]
      /\ wrote' = [wrote EXCEPT ![w] = <<0, 0>>] /\ at' = [at EXCEPT ![w] = 0]
      /\ result' = [result EXCEPT ![w] = NoResult]
      /\ UNCHANGED <<bufs, taken, pool, content, tainted>>
  BY DEF Encode, Go, childVars
<1>2. OutTypes /\ Mine(w) /\ Working
  BY DEF OutInv, OutTypes
<1>3. pc'[w] = "idle" /\ bufs'[w] = NoBuffer
  BY <1>1, <1>2 DEF Working, Mine, Holding
<1>4. Mine(w)'
  BY <1>3 DEF Mine, Holding, Responded
<1>5. \A v \in Workers \ {w} : Same(v)
  BY <1>1, <1>2 DEF Same, Working, OutTypes
<1>6. /\ no' \in [Workers -> Nat] /\ wrote' \in [Workers -> Nat \X Nat] /\ at' \in [Workers -> Nat]
      /\ DOMAIN result' = Workers /\ result' = [v \in Workers |-> result'[v]]
  BY <1>1, <1>2 DEF OutTypes
<1>7. pc'[w] \notin Holding
  BY <1>3 DEF Holding
<1> QED
  BY <1>1, <1>2, <1>4, <1>5, <1>6, <1>7, Quiet DEF OutTypes

(* No step of any worker or report undoes the invariant. *)
LEMMA OutStep == OutInv /\ [Next]_vars => OutInv'
<1> SUFFICES ASSUME OutInv, [Next]_vars PROVE OutInv'
  OBVIOUS
<1>0. Working'
  BY WorkingStep DEF OutInv, OutTypes
<1>1. ASSUME NEW w \in Workers, NEW r \in Requests, Begin(w, r) PROVE OutInv'
  BY <1>0, <1>1, OutBegin
<1>2. ASSUME NEW w \in Workers, Worker(w) PROVE OutInv'
  <2>1. ASSUME NEW b \in Buffers, NEW e \in Buffers, TakeBuffers(w, b, e) PROVE OutInv'
    BY <1>0, <2>1, OutTakeBuffers
  <2>2. CASE CountTotal(w) \/ CountActive(w) \/ Record(w) \/ CountInactive(w)
    BY <1>0, <2>2, OutCount
  <2>3. CASE ResolveArchive(w) \/ SaveDir(w) \/ Chdir(w) \/ Restore(w)
    BY <1>0, <2>3, OutDirectory
  <2>4. CASE Builtin(w)
    BY <1>0, <2>4, OutBuiltin
  <2>5. CASE Work(w)
    BY <1>0, <2>5, OutWork
  <2>6. CASE Finish(w)
    BY <1>0, <2>6, OutFinish
  <2>7. CASE Respond(w)
    BY <1>0, <2>7, OutRespond
  <2>8. CASE PutBuffers(w)
    BY <1>0, <2>8, OutPutBuffers
  <2>9. CASE Encode(w)
    BY <1>0, <2>9, OutEncode
  <2>10. CASE Spawn(w)
    BY <1>0, <2>10, OutSpawn
  <2> QED
    BY <1>2, <2>1, <2>2, <2>3, <2>4, <2>5, <2>6, <2>7, <2>8, <2>9, <2>10 DEF Worker
<1>6. ASSUME NEW b \in Buffers, ChildWrites(b) PROVE OutInv'
  BY <1>0, <1>6, OutChildWrites
<1>3. ASSUME UNCHANGED <<workerVars, pool, content, tainted>> PROVE OutInv'
  <2>1. OutTypes'
    BY <1>0, <1>3 DEF OutInv, OutTypes, workerVars
  <2>2. \A w \in Workers : Mine(w)'
    BY <1>3 DEF OutInv, Mine, Holds, Progress, Own, workerVars
  <2>3. \A v, w \in Workers : v # w => Apart(v, w)'
    BY <1>3 DEF OutInv, Apart, workerVars
  <2> QED
    BY <2>1, <2>2, <2>3 DEF OutInv
<1>4. CASE Refuse \/ ReadNext \/ \E kind \in {"status", "metrics", "title"} : StartReport(kind)
  BY <1>3, <1>4 DEF Refuse, ReadNext, StartReport, childVars
<1>5. CASE UNCHANGED vars
  BY <1>3, <1>5 DEF vars, childVars
<1> QED
  BY <1>1, <1>2, <1>4, <1>5, <1>6 DEF Next

(* Every answer holds what its own request's utility wrote, all of it up to *)
(* the limit and nothing else, unless a child wrote into its buffers that   *)
(* start-stop-daemon -b had left behind, and output that was cut short is   *)
(* never passed on as the data of an envelope (server.go:690-699, 714-785,  *)
(* io.go:15-31).                                                            *)
THEOREM AnswersAreTheirOwnHolds == Spec => []AnswersAreTheirOwn
<1>1. OutInv => AnswersAreTheirOwn
  <2> SUFFICES ASSUME OutInv, NEW w \in Workers, pc[w] = "encode",
                      result[w].form \notin {"none", "builtin"}, ~tainted[w]
               PROVE  /\ result[w].out = Kept(no[w], req[w])
                      /\ result[w].err = Units(no[w], "err", 0, Min({req[w].err, Limit}))
                      /\ result[w].form \in {"data", "error"} =>
                           Len(result[w].out) = Offset(req[w], Len(req[w].out))
    BY DEF AnswersAreTheirOwn
  <2>1. Own(w)
    BY DEF OutInv, Mine, Responded
  <2> QED
    BY <2>1 DEF Own
<1> QED
  BY <1>1, InitOutInv, OutStep, PTL DEF Spec
=============================================================================
