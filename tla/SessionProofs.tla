---------------------------- MODULE SessionProofs ----------------------------
(***************************************************************************)
(* The promises of the session manager, for any number of sessions and     *)
(* workers, any lifetime and period, and any file system for which         *)
(* SecurePath is sound (assumption SecurePathSound of SessionManager).     *)
(*                                                                         *)
(* CwdInsideBase is inductive with the types.  RunsInsideBase is not: that *)
(* a directory read earlier is still inside the base needs the base to be  *)
(* the one read with it (Snapshots).  NewSessionIsToldRight needs every    *)
(* directory a session has been in to fit its base (Held), for the racing  *)
(* reads may return any of them.  ExpiryBound needs what is left until the *)
(* ticker fires (Deadline).                                                *)
(***************************************************************************)
EXTENDS SessionManager, TLAPS

(* The fields of a request under way. *)
LEMMA JobFields ==
    ASSUME NEW j \in Jobs
    PROVE  /\ j.op \in {"none", "setCwd", "exec", "run", "tell"}
           /\ j.op = "setCwd" => j.id \in Ids /\ j.path \in Targets
           /\ j.op \in {"exec", "run"} => j.id \in Ids /\ j.dir \in Dirs /\ j.bound \in Dirs
           /\ j.op = "exec" => j.from \in Dirs
           /\ j.op = "tell" => j.id \in Ids /\ j.n \in 0..4 /\ j.seen \in [1..4 -> Dirs]
  BY DEF Jobs, NoJob, SetJob, ExecJob, RunJob, TellJob

(* A request whose answer is being encoded. *)
LEMMA TellJobType ==
    ASSUME NEW i \in Ids, NEW n \in 0..4, NEW s \in [1..4 -> Dirs]
    PROVE  TellJob(i, n, s) \in Jobs /\ TellJob(i, n, s).op = "tell"
  <1>1. TellJob(i, n, s).op = "tell"
    BY DEF TellJob
  <1>2. TellJob(i, n, s) \in {TellJob(a, b, c) : a \in Ids, b \in 0..4, c \in [1..4 -> Dirs]}
    OBVIOUS
  <1>. QED  BY <1>1, <1>2 DEF Jobs

(* Where SetCwd's path leads, for any base a session can have. *)
LEMMA LandingType ==
    ASSUME NEW p \in Paths, NEW b \in Dirs, Landing[p][b] # Refused
    PROVE  /\ Landing[p][b] \in Dirs
           /\ b # Root => <<Landing[p][b], b>> \in Inside
           /\ <<Landing[p][b], Landing[p][b]>> \in Inside
  <1>1. Landing[p][b] \in Dirs
    BY PathAssumption
  <1>. QED  BY <1>1, SecurePathSound

(* NewSessionManager establishes the invariant. *)
LEMMA InitInductive == Init => Inductive
  <1>. SUFFICES ASSUME Init PROVE Inductive
    OBVIOUS
  <1>1. TypeOK
    <2>1. job \in [Workers -> Jobs]
      BY DEF Init, Jobs
    <2>2. cleaning \in BOOLEAN
      BY DEF Init
    <2>3. had \in [Ids -> SUBSET Dirs]
      BY PathAssumption DEF Init
    <2>. QED  BY <2>1, <2>2, <2>3, ClockAssumption, PathAssumption DEF Init, TypeOK, MaxIdle
  <1>2. CwdInsideBase /\ Held /\ Deadline
    BY DEF Init, CwdInsideBase, Held, Fits, Deadline
  <1>3. Snapshots /\ NewSessionIsToldRight
    BY DEF Init, Snapshots, NewSessionIsToldRight, NoJob
  <1>. QED  BY <1>1, <1>2, <1>3 DEF Inductive

(* Touch leaves the types and the deadline of every session intact. *)
LEMMA TouchStep ==
    ASSUME Inductive, NEW id \in Ids, Touch(id)
    PROVE  /\ idle' \in [Ids -> 0..MaxIdle]
           /\ \A i \in Ids : idle'[i] <= idle[i]
  <1>1. idle \in [Ids -> 0..MaxIdle] /\ 0 \in 0..MaxIdle
    BY ClockAssumption DEF Inductive, TypeOK, MaxIdle
  <1>2. idle' \in [Ids -> 0..MaxIdle]
    BY <1>1 DEF Touch
  <1>3. \A i \in Ids : idle'[i] <= idle[i]
    BY <1>1, ClockAssumption DEF Touch, MaxIdle
  <1>. QED  BY <1>2, <1>3

(* SetCwd, called by setCwd or after a script: the session manager's part   *)
(* of the invariant, and what no SetCwd does to a base.                     *)
LEMMA SetCwdStep ==
    ASSUME Inductive, NEW id \in Ids, NEW p \in Paths, SetCwd(id, p)
    PROVE  /\ live' = live /\ used' = used
           /\ cwd' \in [Ids -> Dirs] /\ base' \in [Ids -> Dirs]
           /\ had' \in [Ids -> SUBSET Dirs]
           /\ idle' \in [Ids -> 0..MaxIdle]
           /\ \A i \in Ids : idle'[i] <= idle[i]
           /\ \A i \in Ids : base[i] # Root => base'[i] = base[i]
           /\ \A i \in Ids \ live : cwd'[i] = cwd[i]
           /\ CwdInsideBase' /\ Held'
  <1>. DEFINE d == Landing[p][base[id]]
  <1>0. /\ cwd \in [Ids -> Dirs] /\ base \in [Ids -> Dirs] /\ CwdInsideBase
        /\ had \in [Ids -> SUBSET Dirs] /\ Held
        /\ idle \in [Ids -> 0..MaxIdle] /\ base[id] \in Dirs
    BY DEF Inductive, TypeOK
  <1>1. CASE id \in live /\ d # Refused
    <2>1. /\ live' = live /\ used' = used
          /\ cwd' = [cwd EXCEPT ![id] = d]
          /\ had' = [had EXCEPT ![id] = @ \cup {d}]
          /\ Touch(id)
          /\ base' = IF base[id] = Root THEN [base EXCEPT ![id] = d] ELSE base
      BY <1>1 DEF SetCwd
    <2>2. /\ d \in Dirs /\ <<d, d>> \in Inside
          /\ base[id] # Root => <<d, base[id]>> \in Inside
      BY <1>0, <1>1, LandingType
    <2>. HIDE DEF d
    <2>3. cwd' \in [Ids -> Dirs] /\ base' \in [Ids -> Dirs]
      BY <1>0, <2>1, <2>2
    <2>4. \A i \in Ids : base[i] # Root => base'[i] = base[i]
      BY <1>0, <2>1
    <2>5. CwdInsideBase'
      <3>. SUFFICES ASSUME NEW i \in Ids
                    PROVE  IF base'[i] = Root THEN cwd'[i] = Root
                                              ELSE <<cwd'[i], base'[i]>> \in Inside
        BY ZenonT(30) DEF CwdInsideBase
      <3>1. CASE i = id
        BY <1>0, <2>1, <2>2, <3>1
      <3>2. CASE i # id
        BY <1>0, <2>1, <3>2 DEF CwdInsideBase
      <3>. QED  BY <3>1, <3>2
    <2>6. \A i \in Ids \ live : cwd'[i] = cwd[i]
      BY <1>0, <1>1, <2>1
    <2>7. had' \in [Ids -> SUBSET Dirs]
      BY <1>0, <2>1, <2>2
    <2>8. Held'
      <3>. SUFFICES ASSUME NEW i \in Ids, NEW e \in had'[i] PROVE Fits(e, base'[i])
        BY DEF Held
      <3>1. CASE i = id /\ e = d
        BY <1>0, <2>1, <2>2, <3>1 DEF Fits
      <3>2. CASE ~(i = id /\ e = d)
        <4>1. e \in had[i]
          BY <1>0, <2>1, <3>2
        <4>2. Fits(e, base[i])
          BY <1>0, <4>1 DEF Held
        <4>3. base[i] # Root => base'[i] = base[i]
          BY <2>4
        <4>. QED  BY <4>2, <4>3 DEF Fits
      <3>. QED  BY <3>1, <3>2
    <2>. QED  BY <2>1, <2>3, <2>4, <2>5, <2>6, <2>7, <2>8, TouchStep
  <1>2. CASE ~(id \in live /\ d # Refused)
    <2>1. UNCHANGED manager
      BY <1>2 DEF SetCwd
    <2>2. \A i \in Ids : idle[i] <= idle[i]
      BY <1>0
    <2>. QED  BY <1>0, <2>1, <2>2 DEF manager, CwdInsideBase, Held, Fits
  <1>. QED  BY <1>1, <1>2

(* A step that leaves time and the map alone, or only touches sessions,     *)
(* keeps the deadline.                                                      *)
LEMMA DeadlineStep ==
    ASSUME Inductive, live' \subseteq live, wait' = wait, cleaning' = cleaning,
           idle' \in [Ids -> 0..MaxIdle], \A i \in Ids : idle'[i] <= idle[i]
    PROVE  Deadline'
  <1>. SUFFICES ASSUME cleaning', NEW i \in live'
                PROVE  idle'[i] + wait' <= TTL + Interval
    BY DEF Deadline
  <1>1. i \in Ids /\ idle[i] \in Nat /\ idle'[i] \in Nat /\ wait \in Nat
    BY ClockAssumption DEF Inductive, TypeOK, MaxIdle
  <1>2. idle[i] + wait <= TTL + Interval
    BY DEF Inductive, Deadline
  <1>. QED  BY <1>1, <1>2, ClockAssumption

(* Where a command is confined to. *)
Place(j) == IF j.op = "run" THEN j.dir ELSE j.from

(* Snapshots survive a step that fixes no base twice and gives one worker a *)
(* job that reads no session, or reads the session as it is.                *)
LEMMA SnapshotsStep ==
    ASSUME Inductive, NEW w \in Workers, NEW j \in Jobs,
           job' = [job EXCEPT ![w] = j],
           base' \in [Ids -> Dirs],
           \A i \in Ids : base[i] # Root => base'[i] = base[i],
           j.op \in {"exec", "run"} /\ j.bound # Root =>
               /\ base'[j.id] = j.bound
               /\ <<Place(j), j.bound>> \in Inside
    PROVE  Snapshots'
  <1>. SUFFICES ASSUME NEW v \in Workers,
                       job'[v].op \in {"exec", "run"}, job'[v].bound # Root
                PROVE  /\ base'[job'[v].id] = job'[v].bound
                       /\ <<Place(job'[v]), job'[v].bound>> \in Inside
    BY DEF Snapshots, Place
  <1>0. job \in [Workers -> Jobs]
    BY DEF Inductive, TypeOK
  <1>1. CASE v = w
    BY <1>0, <1>1
  <1>2. CASE v # w
    <2>1. job'[v] = job[v] /\ job[v] \in Jobs
      BY <1>0, <1>2
    <2>2. job[v].id \in Ids
      BY <2>1, JobFields
    <2>3. base[job[v].id] = job[v].bound /\ <<Place(job[v]), job[v].bound>> \in Inside
      BY <2>1 DEF Inductive, Snapshots, Place
    <2>. QED  BY <2>1, <2>2, <2>3
  <1>. QED  BY <1>1, <1>2

(* What one answer under way may show of a session with base b. *)
ToldRight(j, b) ==
    /\ {j.seen[3], j.seen[4]} \subseteq {Root, b}
    /\ Fits(j.seen[1], b) /\ Fits(j.seen[2], b)

(* Answers under way survive a step that fixes no base twice and gives one  *)
(* worker a job that is no answer, or an answer that is right.              *)
LEMMA ToldStep ==
    ASSUME Inductive, NEW w \in Workers, NEW j \in Jobs,
           job' = [job EXCEPT ![w] = j],
           base' \in [Ids -> Dirs],
           \A i \in Ids : base[i] # Root => base'[i] = base[i],
           j.op = "tell" => ToldRight(j, base'[j.id])
    PROVE  NewSessionIsToldRight'
  <1>. SUFFICES ASSUME NEW v \in Workers, job'[v].op = "tell"
                PROVE  ToldRight(job'[v], base'[job'[v].id])
    BY DEF NewSessionIsToldRight, ToldRight
  <1>0. job \in [Workers -> Jobs]
    BY DEF Inductive, TypeOK
  <1>1. CASE v = w
    BY <1>0, <1>1
  <1>2. CASE v # w
    <2>1. job'[v] = job[v] /\ job[v] \in Jobs
      BY <1>0, <1>2
    <2>2. job[v].id \in Ids
      BY <2>1, JobFields
    <2>3. ToldRight(job[v], base[job[v].id])
      BY <2>1 DEF Inductive, NewSessionIsToldRight, ToldRight
    <2>4. CASE base[job[v].id] # Root
      <3>1. base'[job[v].id] = base[job[v].id]
        BY <2>2, <2>4
      <3>. QED  BY <2>1, <2>3, <3>1
    <2>5. CASE base[job[v].id] = Root
      BY <2>1, <2>3, <2>5 DEF ToldRight, Fits
    <2>. QED  BY <2>4, <2>5
  <1>. QED  BY <1>1, <1>2

(* A worker that reads a session, or finds none, and starts a command. *)
LEMMA ReadStep ==
    ASSUME Inductive, NEW w \in Workers, NEW id \in Ids, NEW j \in Jobs,
           id \in live => Touch(id),
           id \notin live => UNCHANGED idle,
           j.op # "tell",
           job' = [job EXCEPT ![w] = j],
           UNCHANGED <<live, cwd, had, base, used, wait, cleaning>>,
           j.op \in {"exec", "run"} =>
               /\ j.id = id
               /\ id \in live => Place(j) = cwd[id] /\ j.bound = base[id]
               /\ id \notin live => j.bound = Root
    PROVE  Inductive'
  <1>0. TypeOK /\ CwdInsideBase
    BY DEF Inductive
  <1>1. idle' \in [Ids -> 0..MaxIdle] /\ \A i \in Ids : idle'[i] <= idle[i]
    <2>1. CASE id \in live
      BY <2>1, TouchStep
    <2>2. CASE id \notin live
      BY <1>0, <2>2 DEF TypeOK
    <2>. QED  BY <2>1, <2>2
  <1>2. TypeOK'
    BY <1>0, <1>1 DEF TypeOK
  <1>3. CwdInsideBase' /\ Held'
    BY <1>0 DEF Inductive, CwdInsideBase, Held, Fits
  <1>4. Deadline'
    BY <1>1, DeadlineStep
  <1>5. Snapshots'
    <2>1. base' \in [Ids -> Dirs] /\ base' = base
      BY <1>0 DEF TypeOK
    <2>2. j.op \in {"exec", "run"} /\ j.bound # Root =>
              /\ base'[j.id] = j.bound
              /\ <<Place(j), j.bound>> \in Inside
      BY <1>0, <2>1 DEF CwdInsideBase
    <2>. QED  BY <2>1, <2>2, SnapshotsStep, ZenonT(30)
  <1>6. NewSessionIsToldRight'
    <2>1. base' \in [Ids -> Dirs] /\ base' = base
      BY <1>0 DEF TypeOK
    <2>. QED  BY <2>1, ToldStep, ZenonT(30)
  <1>. QED  BY <1>2, <1>3, <1>4, <1>5, <1>6 DEF Inductive

(* A worker that hands a directory to SetCwd and answers. *)
LEMMA WriteStep ==
    ASSUME Inductive, NEW w \in Workers, NEW id \in Ids, NEW p \in Paths,
           SetCwd(id, p), Respond(w), UNCHANGED <<wait, cleaning>>
    PROVE  Inductive'
  <1>0. TypeOK
    BY DEF Inductive
  <1>1. NoJob \in Jobs /\ NoJob.op = "none"
    BY DEF Jobs, NoJob
  <1>2. TypeOK'
    BY <1>0, <1>1, SetCwdStep DEF TypeOK, Respond
  <1>3. Deadline'
    BY SetCwdStep, DeadlineStep
  <1>4. Snapshots' /\ NewSessionIsToldRight'
    BY <1>1, SetCwdStep, SnapshotsStep, ToldStep, ZenonT(30) DEF Respond
  <1>. QED  BY <1>2, <1>3, <1>4, SetCwdStep DEF Inductive

(* A worker that answers without another look at the session. *)
LEMMA AnswerStep ==
    ASSUME Inductive, NEW w \in Workers, Respond(w), UNCHANGED <<manager, wait, cleaning>>
    PROVE  Inductive'
  <1>0. TypeOK /\ CwdInsideBase
    BY DEF Inductive
  <1>1. NoJob \in Jobs /\ NoJob.op = "none"
    BY DEF Jobs, NoJob
  <1>2. TypeOK' /\ CwdInsideBase' /\ Held'
    BY <1>0, <1>1 DEF Inductive, TypeOK, CwdInsideBase, Held, Fits, Respond, manager
  <1>3. Deadline'
    BY DEF Inductive, Deadline, manager
  <1>4. Snapshots' /\ NewSessionIsToldRight'
    BY <1>0, <1>1, SnapshotsStep, ToldStep, ZenonT(30) DEF Respond, manager, TypeOK
  <1>. QED  BY <1>2, <1>3, <1>4 DEF Inductive

(* Every step keeps the invariant. *)
LEMMA NextInductive == Inductive /\ [Next]_vars => Inductive'
  <1>. SUFFICES ASSUME Inductive, [Next]_vars PROVE Inductive'
    OBVIOUS
  <1>0. TypeOK /\ CwdInsideBase /\ Held /\ Snapshots /\ Deadline /\ NewSessionIsToldRight
    BY DEF Inductive
  <1>1. ASSUME NEW w \in Workers, NEW id \in Ids, Create(w, id) PROVE Inductive'
    <2>. DEFINE j == TellJob(id, 0, [k \in 1..4 |-> Root])
    <2>0. j \in Jobs /\ j.op = "tell"
      BY PathAssumption, TellJobType
    <2>1. TypeOK'
      BY <1>0, <1>1, <2>0, ClockAssumption DEF TypeOK, Create, MaxIdle
    <2>2. CwdInsideBase' /\ Held'
      BY <1>0, <1>1 DEF CwdInsideBase, Held, Fits, Create
    <2>3. Deadline'
      BY <1>0, <1>1, ClockAssumption DEF TypeOK, Deadline, Create, MaxIdle
    <2>4. Snapshots'
      <3>1. job' = [job EXCEPT ![w] = j] /\ base' = base /\ base \in [Ids -> Dirs]
        BY <1>0, <1>1 DEF Create, TypeOK
      <3>. HIDE DEF j
      <3>. QED  BY <2>0, <3>1, SnapshotsStep, ZenonT(30)
    <2>5. NewSessionIsToldRight'
      <3>1. job' = [job EXCEPT ![w] = j] /\ base' = base /\ base \in [Ids -> Dirs]
        BY <1>0, <1>1 DEF Create, TypeOK
      <3>2. ToldRight(j, base'[j.id])
        BY DEF ToldRight, Fits, TellJob
      <3>. HIDE DEF j
      <3>. QED  BY <2>0, <3>1, <3>2, ToldStep, ZenonT(30)
    <2>. QED  BY <2>1, <2>2, <2>3, <2>4, <2>5 DEF Inductive
  <1>2. ASSUME NEW w \in Workers, NEW id \in Ids, Destroy(w, id) PROVE Inductive'
    BY <1>0, <1>2 
       DEF Inductive, TypeOK, CwdInsideBase, Held, Fits, Snapshots, Deadline,
           NewSessionIsToldRight, Destroy
  <1>3. ASSUME NEW w \in Workers, NEW id \in Ids, ExecGets(w, id) PROVE Inductive'
    <2>. DEFINE j == IF id \in live THEN ExecJob(id, cwd[id], cwd[id], base[id])
                                    ELSE ExecJob(id, Root, Root, Root)
    <2>1. j \in Jobs
      BY <1>0, PathAssumption DEF TypeOK, Jobs
    <2>2. /\ j.op = "exec" /\ j.id = id
          /\ id \in live => Place(j) = cwd[id] /\ j.bound = base[id]
          /\ id \notin live => j.bound = Root
      BY DEF ExecJob, Place
    <2>3. job' = [job EXCEPT ![w] = j]
      BY <1>3 DEF ExecGets
    <2>. HIDE DEF j
    <2>. QED  BY <1>3, <2>1, <2>2, <2>3, ReadStep, ZenonT(30) DEF ExecGets
  <1>4. ASSUME NEW w \in Workers, NEW id \in Ids, NEW path \in Targets,
               SetCwdGets(w, id, path)
        PROVE  Inductive'
    <2>1. SetJob(id, path) \in Jobs /\ SetJob(id, path).op = "setCwd"
      BY DEF Jobs, SetJob
    <2>. QED  BY <1>4, <2>1, ReadStep, ZenonT(30) DEF SetCwdGets
  <1>5. ASSUME NEW w \in Workers, NEW id \in Ids, NEW path \in Targets,
               UtilityGets(w, id, path)
        PROVE  Inductive'
    <2>. DEFINE dir == IF id \in live THEN cwd[id] ELSE Root
                bound == IF id \in live THEN base[id] ELSE Root
                j == IF <<path, dir>> \in Escapes THEN job[w] ELSE RunJob(id, dir, bound)
    <2>1. job[w] = NoJob /\ job \in [Workers -> Jobs]
      BY <1>0, <1>5 DEF UtilityGets, TypeOK
    <2>2. dir \in Dirs /\ bound \in Dirs
      BY <1>0, PathAssumption DEF TypeOK
    <2>3. j \in Jobs
      BY <2>1, <2>2 DEF Jobs
    <2>4. j.op \in {"exec", "run"} =>
              /\ j.id = id
              /\ id \in live => Place(j) = cwd[id] /\ j.bound = base[id]
              /\ id \notin live => j.bound = Root
      BY <2>1 DEF RunJob, NoJob, Place
    <2>5. job' = [job EXCEPT ![w] = j]
      BY <1>5, <2>1 DEF UtilityGets
    <2>6. j.op # "tell"
      BY <2>1 DEF RunJob, NoJob
    <2>. HIDE DEF j
    <2>. QED  BY <1>5, <2>3, <2>4, <2>5, <2>6, ReadStep, ZenonT(30) DEF UtilityGets
  <1>6. ASSUME NEW w \in Workers, SetCwdSets(w) PROVE Inductive'
    <2>1. job[w].id \in Ids /\ job[w].path \in Paths
      BY <1>0, <1>6, JobFields DEF TypeOK, SetCwdSets, Paths
    <2>. QED  BY <1>6, <2>1, WriteStep DEF SetCwdSets
  <1>7. ASSUME NEW w \in Workers, ExecSets(w) PROVE Inductive'
    <2>1. job[w].id \in Ids /\ job[w].dir \in Paths
      BY <1>0, <1>7, JobFields DEF TypeOK, ExecSets, Paths
    <2>. QED  BY <1>7, <2>1, WriteStep DEF ExecSets
  <1>8. ASSUME NEW w \in Workers, ExecFails(w) \/ UtilityReturns(w) \/ TellEnds(w)
        PROVE  Inductive'
    BY <1>8, AnswerStep DEF ExecFails, UtilityReturns, TellEnds
  <1>9. CASE Cleanup
    <2>1. TypeOK' /\ CwdInsideBase' /\ Held' /\ Snapshots' /\ NewSessionIsToldRight'
      BY <1>0, <1>9, ClockAssumption
         DEF TypeOK, CwdInsideBase, Held, Fits, Snapshots, NewSessionIsToldRight, Cleanup
    <2>2. Deadline'
      BY <1>0, <1>9, ClockAssumption, SMTT(30)
         DEF TypeOK, Deadline, Cleanup, Expired, MaxIdle
    <2>. QED  BY <2>1, <2>2, SMTT(30) DEF Inductive
  <1>10. CASE Stop
    BY <1>0, <1>10, ZenonT(30)
       DEF Inductive, TypeOK, CwdInsideBase, Held, Fits, Snapshots, Deadline,
           NewSessionIsToldRight, Stop, manager
  <1>11. CASE Tick
    <2>1. TypeOK'
      BY <1>0, <1>11, ClockAssumption DEF TypeOK, Tick, MaxIdle
    <2>2. CwdInsideBase' /\ Held' /\ Snapshots' /\ NewSessionIsToldRight'
      BY <1>0, <1>11
         DEF CwdInsideBase, Held, Fits, Snapshots, NewSessionIsToldRight, Tick
    <2>3. Deadline'
      BY <1>0, <1>11, ClockAssumption DEF TypeOK, Deadline, Tick, MaxIdle
    <2>. QED  BY <2>1, <2>2, <2>3 DEF Inductive
  <1>12. ASSUME NEW w \in Workers, TellReads(w) PROVE Inductive'
    <2>. DEFINE id == job[w].id
                k == job[w].n + 1
    <2>1. /\ id \in Ids /\ k \in 1..4 /\ k \in 0..4
          /\ job[w].seen \in [1..4 -> Dirs]
      BY <1>0, <1>12, JobFields DEF TypeOK, TellReads
    <2>2. PICK d \in IF k <= 2 THEN had[id] ELSE {Root, base[id]} :
                 job' = [job EXCEPT ![w] = TellJob(id, k, [job[w].seen EXCEPT ![k] = d])]
      BY <1>12 DEF TellReads
    <2>. DEFINE s == [job[w].seen EXCEPT ![k] = d]
                j == TellJob(id, k, s)
    <2>3. d \in Dirs
      BY <1>0, <2>1, <2>2, PathAssumption DEF TypeOK
    <2>4. s \in [1..4 -> Dirs]
      BY <2>1, <2>3
    <2>5. \A m \in 1..4 : s[m] = IF m = k THEN d ELSE job[w].seen[m]
      BY <2>1
    <2>6. ToldRight(job[w], base[id])
      BY <1>0, <1>12 DEF NewSessionIsToldRight, ToldRight, TellReads
    <2>7. (k <= 2 => Fits(d, base[id])) /\ (k > 2 => d \in {Root, base[id]})
      BY <1>0, <2>1, <2>2 DEF Held
    <2>. HIDE DEF s, k
    <2>8. /\ {s[3], s[4]} \subseteq {Root, base[id]}
          /\ Fits(s[1], base[id]) /\ Fits(s[2], base[id])
      BY <2>1, <2>5, <2>6, <2>7 DEF ToldRight
    <2>9. j \in Jobs /\ j.op = "tell"
      BY <2>1, <2>4, TellJobType
    <2>10. j.id = id /\ j.seen = s
      BY DEF TellJob
    <2>11. UNCHANGED <<manager, wait, cleaning>>
      BY <1>12 DEF TellReads
    <2>12. ToldRight(j, base'[j.id])
      BY <2>8, <2>10, <2>11 DEF ToldRight, manager
    <2>13. job' = [job EXCEPT ![w] = j]
      BY <2>2 DEF s, k
    <2>. HIDE DEF j, id
    <2>14. TypeOK' /\ CwdInsideBase' /\ Held' /\ Deadline'
      BY <1>0, <2>9, <2>11, <2>13
         DEF TypeOK, CwdInsideBase, Held, Fits, Deadline, manager
    <2>15. Snapshots'
      BY <1>0, <2>9, <2>11, <2>13, SnapshotsStep, ZenonT(30) DEF manager, TypeOK
    <2>. QED  BY <1>0, <2>9, <2>11, <2>12, <2>13, <2>14, <2>15, ToldStep, ZenonT(30)
                 DEF Inductive, manager, TypeOK
  <1>13. CASE UNCHANGED vars
    BY <1>0, <1>13
       DEF Inductive, TypeOK, CwdInsideBase, Held, Fits, Snapshots, Deadline,
           NewSessionIsToldRight, vars
  <1>14. ASSUME NEW w \in Workers, NEW dir \in Dirs, ExecMoves(w, dir) PROVE Inductive'
    <2>. DEFINE j == ExecJob(job[w].id, job[w].from, dir, job[w].bound)
    <2>1. /\ job[w].op = "exec" /\ job[w].id \in Ids
          /\ job[w].from \in Dirs /\ job[w].bound \in Dirs
      BY <1>0, <1>14, JobFields DEF TypeOK, ExecMoves
    <2>2. j \in Jobs
      BY <2>1 DEF Jobs
    <2>3. j.op = "exec" /\ j.id = job[w].id /\ j.bound = job[w].bound /\ Place(j) = job[w].from
      BY DEF ExecJob, Place
    <2>4. job' = [job EXCEPT ![w] = j] /\ UNCHANGED <<manager, wait, cleaning>>
      BY <1>14 DEF ExecMoves
    <2>5. j.bound # Root => base[j.id] = j.bound /\ <<Place(j), j.bound>> \in Inside
      BY <1>0, <2>1, <2>3 DEF Snapshots
    <2>. HIDE DEF j
    <2>6. TypeOK' /\ CwdInsideBase' /\ Held' /\ Deadline'
      BY <1>0, <2>2, <2>4 DEF TypeOK, CwdInsideBase, Held, Fits, Deadline, manager
    <2>7. base' = base /\ base' \in [Ids -> Dirs]
      BY <1>0, <2>4 DEF TypeOK, manager
    <2>8. Snapshots'
      BY <2>2, <2>4, <2>5, <2>7, SnapshotsStep, ZenonT(30)
    <2>9. NewSessionIsToldRight'
      BY <2>2, <2>3, <2>4, <2>7, ToldStep, ZenonT(30)
    <2>. QED  BY <2>6, <2>8, <2>9 DEF Inductive
  <1>. QED
    BY <1>1, <1>2, <1>3, <1>4, <1>5, <1>6, <1>7, <1>8, <1>9, <1>10, <1>11, <1>12, <1>13,
       <1>14
    DEF Next

-----------------------------------------------------------------------------
(* What no step does: move a base that is fixed, bring a removed session    *)
(* back or change it.                                                       *)
LEMMA StepsRespectSessions ==
    ASSUME Inductive, [Next]_vars
    PROVE  /\ \A i \in Ids : base[i] # Root => base'[i] = base[i]
           /\ \A i \in used \ live : i \notin live' /\ cwd'[i] = cwd[i]
  <1>0. TypeOK
    BY DEF Inductive
  <1>1. ASSUME NEW w \in Workers, SetCwdSets(w)
        PROVE  /\ \A i \in Ids : base[i] # Root => base'[i] = base[i]
               /\ \A i \in used \ live : i \notin live' /\ cwd'[i] = cwd[i]
    <2>1. job[w].id \in Ids /\ job[w].path \in Paths
      BY <1>0, <1>1, JobFields DEF TypeOK, SetCwdSets, Paths
    <2>. QED  BY <1>0, <1>1, <2>1, SetCwdStep DEF SetCwdSets, TypeOK
  <1>2. ASSUME NEW w \in Workers, ExecSets(w)
        PROVE  /\ \A i \in Ids : base[i] # Root => base'[i] = base[i]
               /\ \A i \in used \ live : i \notin live' /\ cwd'[i] = cwd[i]
    <2>1. job[w].id \in Ids /\ job[w].dir \in Paths
      BY <1>0, <1>2, JobFields DEF TypeOK, ExecSets, Paths
    <2>. QED  BY <1>0, <1>2, <2>1, SetCwdStep DEF ExecSets, TypeOK
  <1>3. ASSUME NEW w \in Workers, NEW id \in Ids, Create(w, id)
        PROVE  /\ UNCHANGED <<cwd, base>>
               /\ \A i \in used \ live : i \notin live'
    BY <1>3, SMTT(30) DEF Create
  <1>4. ASSUME NEW w \in Workers, NEW id \in Ids,
               \/ Destroy(w, id) \/ ExecGets(w, id)
               \/ \E path \in Targets : SetCwdGets(w, id, path) \/ UtilityGets(w, id, path)
        PROVE  UNCHANGED <<cwd, base>> /\ live' \subseteq live
    BY <1>4, ZenonT(30) DEF Destroy, ExecGets, SetCwdGets, UtilityGets
  <1>5. ASSUME \/ \E w \in Workers : ExecFails(w) \/ UtilityReturns(w) \/ TellReads(w)
                                      \/ TellEnds(w) \/ \E dir \in Dirs : ExecMoves(w, dir)
               \/ Cleanup \/ Stop \/ Tick \/ UNCHANGED vars
        PROVE  UNCHANGED <<cwd, base>> /\ live' \subseteq live
    BY <1>5, ZenonT(30)
       DEF ExecFails, UtilityReturns, TellReads, TellEnds, ExecMoves, Cleanup, Stop, Tick, manager,
           vars
  <1>. QED  BY <1>1, <1>2, <1>3, <1>4, <1>5 DEF Next

(* The inductive invariant holds in every reachable state of the session    *)
(* manager and the handlers that use it (session.go, processRequest).       *)
THEOREM InductiveHolds == Spec => []Inductive
  BY InitInductive, NextInductive, PTL DEF Spec

(* No interleaving of setCwd, shell.exec, expiry and destroy takes a        *)
(* session's directory out of its base (SessionManager.SetCwd).             *)
THEOREM CwdInsideBaseHolds == Spec => []CwdInsideBase
  <1>1. Inductive => CwdInsideBase
    BY DEF Inductive
  <1>. QED  BY <1>1, InductiveHolds, PTL

(* A utility runs, and a script's redirections are resolved, inside the     *)
(* session's present base, although the request works on a copy of the      *)
(* session (Get in processRequest).                                         *)
THEOREM RunsInsideBaseHolds == Spec => []RunsInsideBase
  <1>1. Inductive => RunsInsideBase
    BY ZenonT(30) DEF Inductive, Snapshots, RunsInsideBase
  <1>. QED  BY <1>1, InductiveHolds, PTL

(* Whatever the racing reads of the encoder return, the answer to           *)
(* session.create shows, word by word, "/" or what the session's base and   *)
(* the directories in it are (Create, SetCwd).                              *)
THEOREM NewSessionIsToldRightHolds == Spec => []NewSessionIsToldRight
  <1>1. Inductive => NewSessionIsToldRight
    BY DEF Inductive
  <1>. QED  BY <1>1, InductiveHolds, PTL

(* A session is removed within its lifetime plus a period of the ticker of  *)
(* its last use, for every lifetime and period (cleanupLoop).               *)
THEOREM ExpiryBoundHolds == Spec => []ExpiryBound
  <1>1. Inductive => ExpiryBound
    <2>. SUFFICES ASSUME Inductive, cleaning, NEW i \in live
                  PROVE  idle[i] <= TTL + Interval
      BY DEF ExpiryBound
    <2>1. idle[i] \in Nat /\ wait \in Nat /\ idle[i] + wait <= TTL + Interval
      BY ClockAssumption DEF Inductive, TypeOK, Deadline, MaxIdle
    <2>. QED  BY <2>1, ClockAssumption
  <1>. QED  BY <1>1, InductiveHolds, PTL

(* A base directory, once fixed, is never changed (SetCwd).                 *)
THEOREM BaseIsForGoodHolds == Spec => BaseIsForGood
  <1>1. Inductive /\ [Next]_vars => [\A i \in Ids : base[i] # Root => base'[i] = base[i]]_vars
    BY StepsRespectSessions
  <1>. QED  BY <1>1, InductiveHolds, PTL DEF Spec, BaseIsForGood

(* A session that was destroyed or has expired stays so, and no request     *)
(* that read it earlier changes it (Destroy, cleanupLoop, SetCwd).          *)
THEOREM GoneForGoodHolds == Spec => GoneForGood
  <1>1. Inductive /\ [Next]_vars =>
            [\A i \in used \ live : i \notin live' /\ cwd'[i] = cwd[i]]_vars
    BY StepsRespectSessions
  <1>. QED  BY <1>1, InductiveHolds, PTL DEF Spec, GoneForGood

=============================================================================
