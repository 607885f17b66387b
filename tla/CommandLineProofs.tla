-------------------------- MODULE CommandLineProofs --------------------------
(***************************************************************************)
(* A command line is carried out at most once and its exit status tells    *)
(* what happened, and an upgrade leaves a whole binary and never goes      *)
(* back, for any number of daemons and of upgrading processes, any codes   *)
(* and any releases.                                                       *)
(*                                                                         *)
(* Once needs to know where the request is while the client goes on: at a  *)
(* daemon that has not run it, has run it, or never will (RequestInv).     *)
(* LineInv ties the exit status of --upgrade to Upgrade's own end, and     *)
(* UpgradeInv says what each upgrading process has on disk and that it     *)
(* still replaces the version it compared with.                            *)
(***************************************************************************)
EXTENDS CommandLine, TLAPS

USE ZenonT(30)

ClientPlace == {"check", "dial", "send", "await", "cold", "upgrading", "done"}
Step == {"idle", "fetch", "compare", "copy", "rename", "done", "killed"}

RequestTypeOK ==
    /\ pc \in ClientPlace
    /\ kind \in {"command", "unknown", "meta", "upgrade", "builtin"}
    /\ job \in {"none", "queued", "running", "over"}
    /\ answer \in [tag : {"none", "error", "code"}, code : Int]
    /\ slipped \in BOOLEAN
    /\ starts \in Nat
    /\ ended \in SUBSET Int
    /\ status \in Int

UpgradeTypeOK ==
    /\ latest \in 1 .. Len(Releases)
    /\ disk \in [version : Version, whole : BOOLEAN]
    /\ tmp \in [Upgraders -> {"none", "partial", "whole"}]
    /\ own \in [Upgraders -> Version]
    /\ fetched \in [Upgraders -> Version]
    /\ place \in [Upgraders -> Step]
    /\ failed \in [Upgraders -> BOOLEAN]
    /\ overlap \in BOOLEAN

(* Where the request is, and how often the command has been started.  Of a  *)
(* request that slipped out nobody is told, and the client runs it itself.  *)
RequestInv ==
    /\ pc \in {"check", "dial", "send"} => job = "none"
    /\ slipped => pc \in {"cold", "upgrading", "done"} /\ conn = "closed" /\ answer.tag = "none"
    /\ job = "none" => /\ answer.tag = "none" /\ ~slipped
                       /\ (pc # "done" => starts = 0) /\ starts <= 1
    /\ job \in {"queued", "running"} => answer.tag = "none"
    /\ job = "queued" /\ ~slipped => pc \in {"await", "done"} /\ starts = 0
    /\ job = "running" /\ ~slipped => pc \in {"await", "done"} /\ starts = 1
    /\ job = "over" => \/ slipped \/ starts <= 1
                       \/ pc = "done" /\ starts <= 2 /\ answer.tag = "code" /\ answer.code < 0
    /\ pc = "cold" /\ job # "none" /\ ~slipped =>
           answer.tag = "code" /\ answer.code < 0 /\ starts <= 1 /\ job = "over"
    /\ answer.tag = "code" => \/ kind = "command" /\ answer.code \in ended
                              \/ kind = "builtin" /\ answer.code = 0
    /\ kind \in {"unknown", "upgrade", "builtin"} => starts = 0
    /\ job = "running" => kind = "command"
    /\ pc = "await" => job # "none"

(* What the exit status of a command line other than --upgrade tells. *)
StatusInv ==
    /\ pc # "done" => status = Running
    /\ kind # "upgrade" => \/ status = Running
                           \/ \E code \in ended : status = code % 256
                           \/ status = 127 /\ starts = 0 /\ kind \in {"unknown", "builtin"}
                           \/ status = 126 /\ starts <= 1 /\ job # "none" /\ ~slipped
                           \/ status = 0 /\ starts = 0 /\ kind = "builtin"

(* What --upgrade has come to. *)
LineInv ==
    /\ place[Me] # "idle" => kind = "upgrade" /\ pc \in {"upgrading", "done"}
    /\ pc = "upgrading" => kind = "upgrade"
    /\ kind = "upgrade" /\ pc = "done" =>
           \/ place[Me] = "idle" /\ status = 126
           \/ place[Me] = "done" /\ status = IF failed[Me] THEN 1 ELSE 0

(* What each upgrading process has on disk and goes by. *)
UpgradeInv ==
    /\ disk.whole
    /\ \A u \in Upgraders :
        /\ place[u] \in {"idle", "fetch", "compare", "done"} => tmp[u] = "none"
        /\ place[u] = "rename" => tmp[u] = "whole"
        /\ place[u] \in {"copy", "rename"} => Wanted(u)
        /\ ~overlap /\ UnderWay(u) => own[u] = disk.version
        /\ \A v \in Upgraders : ~overlap /\ UnderWay(u) /\ UnderWay(v) => u = v

IInv == RequestTypeOK /\ UpgradeTypeOK /\ RequestInv /\ StatusInv /\ LineInv /\ UpgradeInv

-----------------------------------------------------------------------------
(* A version's segments are numbers, as many as its length says. *)
LEMMA SegmentNumbers ==
    ASSUME NEW v \in Version
    PROVE  Len(v) \in Nat /\ \A j \in 1 .. Len(v) : v[j].num \in Nat
  <1>. DEFINE Segment == [num : Nat, hyphen : BOOLEAN]
  <1>1. v \in Seq(Segment)
    BY DEF Version
  <1>2. \A s \in Segment : s.num \in Nat
    OBVIOUS
  <1>. HIDE DEF Segment
  <1>3. Len(v) \in Nat /\ \A j \in 1 .. Len(v) : v[j] \in Segment
    BY <1>1, SMTT(30)
  <1>. QED  BY <1>2, <1>3

(* isNewer never holds of a version with smaller numbers: the first segment *)
(* in which the two differ is the one that makes the numbers smaller.       *)
LEMMA NewerIsNotBelow ==
    ASSUME NEW a \in Version, NEW b \in Version, isNewer(a, b)
    PROVE  ~NumbersBelow(a, b)
  <1>. SUFFICES ASSUME NumbersBelow(a, b) PROVE FALSE
    OBVIOUS
  <1>. DEFINE differ == {i \in 1 .. Len(a) : i <= Len(b) /\ a[i].num # b[i].num}
              first == CHOOSE i \in differ : \A j \in differ : i <= j
  <1>1. PICK i \in 1 .. Len(a) : /\ i <= Len(b) /\ a[i].num < b[i].num
                                 /\ \A j \in 1 .. i - 1 : a[j].num = b[j].num
    BY DEF NumbersBelow
  <1>2. /\ Len(a) \in Nat /\ Len(b) \in Nat /\ i \in Nat
        /\ \A j \in 1 .. Len(a) : a[j].num \in Nat
        /\ \A j \in 1 .. Len(b) : b[j].num \in Nat
    BY <1>1, SegmentNumbers, SMTT(30)
  <1>3. i \in differ /\ \A j \in differ : i <= j
    BY <1>1, <1>2, SMTT(30)
  <1>4. first \in differ /\ \A j \in differ : first <= j
    BY <1>3
  <1>5. first = i
    <2>. HIDE DEF first
    <2>1. first <= i /\ i <= first /\ first \in Nat
      BY <1>2, <1>3, <1>4, SMTT(30)
    <2>. QED  BY <1>2, <2>1, SMTT(30)
  <1>6. a[first].num > b[first].num
    <2>1. Len(parseVersion(a)) = Len(a) /\ Len(parseVersion(b)) = Len(b)
      BY <1>2, SMTT(30) DEF parseVersion
    <2>2. /\ \A j \in 1 .. Len(a) : parseVersion(a)[j] = a[j].num
          /\ \A j \in 1 .. Len(b) : parseVersion(b)[j] = b[j].num
      BY DEF parseVersion
    <2>3. {j \in {k \in 1 .. Len(parseVersion(a)) : k <= Len(parseVersion(b))} :
              parseVersion(a)[j] # parseVersion(b)[j]} = differ
      BY <1>2, <2>1, <2>2, SMTT(30)
    <2>4. differ # {}
      BY <1>3
    <2>5. parseVersion(a)[first] > parseVersion(b)[first]
      BY <2>3, <2>4 DEF isNewer
    <2>6. first \in 1 .. Len(a) /\ first \in 1 .. Len(b)
      BY <1>2, <1>4, SMTT(30)
    <2>. HIDE DEF first
    <2>. QED  BY <2>2, <2>5, <2>6
  <1>7. a[i].num > b[i].num /\ a[i].num \in Nat /\ b[i].num \in Nat
    <2>. HIDE DEF first
    <2>. QED  BY <1>1, <1>2, <1>5, <1>6, SMTT(30)
  <1>. QED  BY <1>1, <1>7, SMTT(30)

-----------------------------------------------------------------------------
(* The invariant holds before the first step. *)
LEMMA InitIInv == LineInit => IInv
  <1>. SUFFICES ASSUME LineInit PROVE IInv
    OBVIOUS
  <1>1. RequestTypeOK
    <2>1. slipped \in BOOLEAN
      BY DEF LineInit, Init
    <2>2. answer \in [tag : {"none", "error", "code"}, code : Int]
      BY SMTT(30) DEF LineInit, Init, NoAnswer
    <2>3. /\ pc \in ClientPlace /\ job \in {"none", "queued", "running", "over"}
          /\ kind \in {"command", "unknown", "meta", "upgrade", "builtin"}
          /\ starts \in Nat /\ ended \in SUBSET Int /\ status \in Int
      BY ForwarderAssumption, SMTT(30) DEF LineInit, Init, ClientPlace, Running
    <2>. QED  BY <2>1, <2>2, <2>3 DEF RequestTypeOK
  <1>2. UpgradeTypeOK
    <2>1. /\ tmp \in [Upgraders -> {"none", "partial", "whole"}]
          /\ own \in [Upgraders -> Version] /\ fetched \in [Upgraders -> Version]
          /\ place \in [Upgraders -> Step]
      BY CommandLineAssumption DEF LineInit, UpgradeInit, Step
    <2>2. failed \in [Upgraders -> BOOLEAN] /\ overlap \in BOOLEAN
      BY DEF LineInit, UpgradeInit
    <2>3. disk \in [version : Version, whole : BOOLEAN]
      BY CommandLineAssumption DEF LineInit, UpgradeInit
    <2>4. latest \in 1 .. Len(Releases)
      <3>. HIDE DEF Version
      <3>1. Releases \in Seq(Version) /\ Releases # <<>>
        BY CommandLineAssumption
      <3>. QED  BY <3>1, SMTT(30) DEF LineInit, UpgradeInit
    <2>. QED  BY <2>1, <2>2, <2>3, <2>4 DEF UpgradeTypeOK
  <1>3. RequestInv /\ StatusInv
    BY SMTT(30) DEF LineInit, Init, RequestInv, StatusInv, NoAnswer
  <1>4. LineInv
    BY CommandLineAssumption DEF LineInit, Init, UpgradeInit, LineInv
  <1>5. UpgradeInv
    BY DEF LineInit, UpgradeInit, UpgradeInv, UnderWay
  <1>. QED  BY <1>1, <1>2, <1>3, <1>4, <1>5 DEF IInv

(* A step that leaves the upgrading processes alone keeps their part. *)
LEMMA UpgradeAlone ==
    ASSUME UpgradeTypeOK, UpgradeInv, UNCHANGED upgradeVars
    PROVE  UpgradeTypeOK' /\ UpgradeInv'
  <1>1. UpgradeTypeOK'
    BY DEF UpgradeTypeOK, upgradeVars
  <1>2. \A u \in Upgraders : (UnderWay(u)' <=> UnderWay(u)) /\ (Wanted(u)' <=> Wanted(u))
    BY DEF upgradeVars, UnderWay, Wanted
  <1>3. UpgradeInv'
    BY <1>2 DEF UpgradeInv, upgradeVars
  <1>. QED  BY <1>1, <1>3

(* Daemons come and go, and carry out the request or lose it. *)
LEMMA DaemonStep ==
    ASSUME IInv, UNCHANGED upgradeVars,
           \/ \E d \in Daemons : Daemon(d)
           \/ DaemonRuns \/ DaemonBuiltin \/ DaemonRefuses
           \/ \E code \in Codes : DaemonAnswers(code)
    PROVE  IInv'
  <1>. USE DEF IInv, clientVars
  <1>1. RequestTypeOK' /\ RequestInv' /\ StatusInv'
    <2>1. CASE /\ UNCHANGED <<clientVars, answer, starts, ended, slipped>>
               /\ conn' = conn \/ conn' = "closed"
               /\ job' = job \/ (job # "none" /\ job' = "over")
      BY <2>1, SMTT(30) DEF RequestTypeOK, RequestInv, StatusInv
    <2>2. CASE \E d \in Daemons : Daemon(d)
      BY <2>1, <2>2 DEF Daemon, DaemonRemoves, DaemonListens, DaemonCloses, DaemonCutsOff,
         DaemonEnds, DaemonDies, requestVars
    <2>3. CASE DaemonRuns
      BY <2>3, SMTT(30) DEF DaemonRuns, RequestTypeOK, RequestInv, StatusInv
    <2>6. CASE DaemonBuiltin
      BY <2>6, SMTT(30) DEF DaemonBuiltin, RequestTypeOK, RequestInv, StatusInv, CodeAnswer
    <2>4. CASE DaemonRefuses
      BY <2>4, SMTT(30) DEF DaemonRefuses, RequestTypeOK, RequestInv, StatusInv, ErrorAnswer
    <2>5. ASSUME NEW code \in Codes, DaemonAnswers(code)
          PROVE  RequestTypeOK' /\ RequestInv' /\ StatusInv'
      <3>1. /\ code \in Int /\ job = "running" /\ job' = "over" /\ kind = "command"
            /\ UNCHANGED <<pc, kind, conn, starts, status, slipped>>
            /\ ended' = ended \union {code}
        BY <2>5, ForwarderAssumption DEF DaemonAnswers, RequestTypeOK, RequestInv
      <3>2. \/ answer' = answer
            \/ conn = "open" /\ answer' = [tag |-> "code", code |-> code]
        BY <2>5 DEF DaemonAnswers, CodeAnswer
      <3>3. RequestTypeOK'
        BY <3>1, <3>2, SMTT(30) DEF RequestTypeOK
      <3>4. RequestInv'
        BY <3>1, <3>2, SMTT(30) DEF RequestInv
      <3>5. StatusInv'
        BY <3>1 DEF StatusInv
      <3>. QED  BY <3>3, <3>4, <3>5
    <2>. QED  BY <2>2, <2>3, <2>4, <2>5, <2>6
  <1>2. LineInv'
    <2>1. UNCHANGED <<pc, kind, status>>
      BY DEF Daemon, DaemonRemoves, DaemonListens, DaemonCloses, DaemonCutsOff,
         DaemonEnds, DaemonDies, DaemonRuns, DaemonBuiltin, DaemonRefuses, DaemonAnswers
    <2>. QED  BY <2>1 DEF LineInv, upgradeVars
  <1>. QED  BY <1>1, <1>2, UpgradeAlone

(* The client forwards, receives, or runs the command itself. *)
LEMMA ClientStep ==
    ASSUME IInv, UNCHANGED upgradeVars, Client,
           pc = "cold" /\ kind = "upgrade" => pc' = "cold"
    PROVE  IInv'
  <1>. USE DEF IInv, requestVars, ColdStart, Exit
  <1>. SUFFICES RequestTypeOK' /\ RequestInv' /\ StatusInv' /\ LineInv'
    BY UpgradeAlone
  <1>0. RequestTypeOK /\ RequestInv /\ StatusInv /\ LineInv /\ place' = place /\ failed' = failed
    BY DEF upgradeVars
  <1>1. CASE Check \/ Dial \/ DialFails
    <2>1. /\ pc \in {"check", "dial"} /\ pc' \in {"dial", "send", "cold"}
          /\ UNCHANGED <<kind, job, answer, starts, ended, slipped, status>>
      BY <1>1 DEF Check, Dial, DialFails
    <2>2. job = "none" /\ ~slipped
      BY <1>0, <2>1 DEF RequestInv
    <2>3. RequestTypeOK' /\ RequestInv'
      BY <1>0, <2>1, <2>2 DEF RequestTypeOK, RequestInv, ClientPlace
    <2>4. StatusInv' /\ LineInv'
      BY <1>0, <2>1 DEF StatusInv, LineInv
    <2>. QED  BY <2>3, <2>4
  <1>2. CASE Send \/ SendFails
    <2>1. /\ pc = "send" /\ UNCHANGED <<kind, answer, starts, ended, status>>
          /\ \/ pc' = "await" /\ job' = "queued" /\ slipped' = slipped
             \/ pc' = "cold" /\ conn' = "closed" /\ UNCHANGED <<job, slipped>>
             \/ pc' = "cold" /\ conn' = "closed" /\ job' = "queued" /\ slipped' = TRUE
      BY <1>2 DEF Send, SendFails
    <2>2. job = "none" /\ ~slipped /\ answer.tag = "none" /\ starts = 0
      BY <1>0, <2>1 DEF RequestInv
    <2>3. RequestTypeOK'
      BY <1>0, <2>1 DEF RequestTypeOK, ClientPlace
    <2>4. RequestInv'
      <3>1. kind' = kind /\ answer'.tag = "none" /\ starts' = 0 /\ 0 <= 1
        BY <2>1, <2>2, SMTT(30)
      <3>. QED  BY <1>0, <2>1, <2>2, <3>1, SMTT(30) DEF RequestInv
    <2>5. StatusInv' /\ LineInv'
      <3>1. status = Running
        BY <1>0, <2>1 DEF StatusInv
      <3>. QED  BY <1>0, <2>1, <3>1 DEF StatusInv, LineInv
    <2>. QED  BY <2>3, <2>4, <2>5
  <1>3. CASE Receive
    <2>0. /\ pc = "await" /\ UNCHANGED <<kind, job, answer, starts, ended, slipped>>
          /\ answer.code \in Int /\ job # "none"
      BY <1>0, <1>3 DEF Receive, RequestTypeOK, RequestInv
    <2>1. CASE answer.tag = "error" /\ pc' = "done" /\ status' = 126
      BY <1>0, <2>0, <2>1, SMTT(30)
         DEF RequestTypeOK, RequestInv, StatusInv, LineInv, ClientPlace
    <2>2. CASE answer.tag = "code" /\ answer.code >= 0 /\ pc' = "done"
               /\ status' = answer.code % 256
      <3>1. /\ answer.code % 256 \in Int
            /\ \/ answer.code \in ended /\ kind = "command"
               \/ kind = "builtin" /\ starts = 0 /\ answer.code % 256 = 0
        BY <1>0, <2>0, <2>2, SMTT(30) DEF RequestInv
      <3>2. RequestTypeOK' /\ RequestInv' /\ LineInv'
        BY <1>0, <2>0, <2>2, <3>1 DEF RequestTypeOK, RequestInv, LineInv, ClientPlace
      <3>3. StatusInv'
        BY <2>0, <2>2, <3>1 DEF StatusInv
      <3>. QED  BY <3>2, <3>3
    <2>3. CASE answer.tag = "code" /\ answer.code < 0 /\ pc' = "cold" /\ UNCHANGED status
      BY <1>0, <2>0, <2>3 DEF RequestTypeOK, RequestInv, StatusInv, LineInv, ClientPlace
    <2>. QED  BY <1>3, <2>1, <2>2, <2>3, SMTT(30) DEF Receive
  <1>4. CASE ReceiveFails
    BY <1>0, <1>4, SMTT(30)
       DEF ReceiveFails, RequestTypeOK, RequestInv, StatusInv, LineInv, ClientPlace, Running
  <1>5. CASE ColdUnknown
    BY <1>0, <1>5, SMTT(30)
       DEF ColdUnknown, RequestTypeOK, RequestInv, StatusInv, LineInv, ClientPlace, Running
  <1>6. ASSUME NEW code \in Codes, ColdRun(code)
        PROVE  RequestTypeOK' /\ RequestInv' /\ StatusInv' /\ LineInv'
    BY <1>0, <1>6, ForwarderAssumption, SMTT(30)
       DEF ColdRun, RequestTypeOK, RequestInv, StatusInv, LineInv, ClientPlace, Running
  <1>. QED  BY <1>1, <1>2, <1>3, <1>4, <1>5, <1>6 DEF Client, Cold

(* Upgrade begins and ends in this process. *)
LEMMA UpgradeEdges ==
    ASSUME IInv, UpgradeStarts \/ UpgradeEnds
    PROVE  RequestTypeOK' /\ RequestInv' /\ StatusInv' /\ LineInv'
  <1>. USE DEF IInv
  <1>0. Me \in Upgraders /\ place \in [Upgraders -> Step] /\ failed \in [Upgraders -> BOOLEAN]
    BY CommandLineAssumption DEF UpgradeTypeOK
  <1>1. CASE UpgradeStarts
    <2>1. /\ pc = "cold" /\ pc' = "upgrading" /\ kind = "upgrade" /\ place'[Me] = "fetch"
          /\ UNCHANGED <<conn, job, answer, starts, ended, slipped, kind, status>>
      BY <1>0, <1>1 DEF UpgradeStarts, Start, Go, requestVars
    <2>. QED  BY <2>1 DEF RequestTypeOK, RequestInv, StatusInv, LineInv, ClientPlace
  <1>2. CASE UpgradeEnds
    <2>1. /\ pc = "upgrading" /\ pc' = "done" /\ place[Me] = "done" /\ kind = "upgrade"
          /\ status' = IF failed[Me] THEN 1 ELSE 0
          /\ conn' = "closed"
          /\ UNCHANGED <<job, answer, starts, ended, slipped, kind, place, failed>>
      BY <1>2, SMTT(30) DEF UpgradeEnds, Exit, upgradeVars, LineInv
    <2>. QED  BY <2>1, SMTT(30)
                 DEF RequestTypeOK, RequestInv, StatusInv, LineInv, ClientPlace
  <1>. QED  BY <1>1, <1>2

(* Upgrade goes on in this process or in another. *)
LEMMA UpgradeWithin ==
    ASSUME IInv, Upgrading
    PROVE  RequestTypeOK' /\ RequestInv' /\ StatusInv' /\ LineInv'
  <1>. USE DEF IInv
  <1>0. /\ Me \in Upgraders /\ place \in [Upgraders -> Step] /\ failed \in [Upgraders -> BOOLEAN]
        /\ UNCHANGED vars
    BY CommandLineAssumption DEF UpgradeTypeOK, Upgrading
  <1>1. RequestTypeOK' /\ RequestInv' /\ StatusInv'
    BY <1>0, SMTT(30) DEF vars, RequestTypeOK, RequestInv, StatusInv
  <1>2. /\ place'[Me] = "idle" <=> place[Me] = "idle"
        /\ place[Me] = "done" => place'[Me] = "done" /\ failed'[Me] = failed[Me]
    BY <1>0
       DEF Upgrading, Publish, Start, Fetch, UpToDate, Download, Copy, CopyFails, Rename,
       CallFails, Killed, Return, Go, UnderWay
  <1>. QED  BY <1>0, <1>1, <1>2 DEF vars, LineInv

(* What the steps of a process do to the temporary files and the binary. *)
LEMMA UpgradeStep ==
    ASSUME UpgradeTypeOK, UpgradeInv, NEW u \in Upgraders,
           \/ Start(u) \/ Fetch(u) \/ UpToDate(u) \/ Download(u) \/ Copy(u)
           \/ CopyFails(u) \/ Rename(u) \/ CallFails(u) \/ Killed(u)
    PROVE  UpgradeTypeOK' /\ UpgradeInv'
  <1>. USE DEF Go, Return
  <1>0. /\ tmp \in [Upgraders -> {"none", "partial", "whole"}]
        /\ own \in [Upgraders -> Version] /\ fetched \in [Upgraders -> Version]
        /\ place \in [Upgraders -> Step] /\ disk \in [version : Version, whole : BOOLEAN]
        /\ latest \in 1 .. Len(Releases) /\ disk.version \in Version
    BY DEF UpgradeTypeOK
  <1>1. UpgradeTypeOK'
    <2>1. tmp' \in [Upgraders -> {"none", "partial", "whole"}] /\ place' \in [Upgraders -> Step]
      BY <1>0
         DEF Start, Fetch, UpToDate, Download, Copy, CopyFails, Rename, CallFails, Killed,
             Step
    <2>2. own' \in [Upgraders -> Version] /\ fetched' \in [Upgraders -> Version]
      <3>. HIDE DEF Version
      <3>1. Releases[latest] \in Version
        BY <1>0, CommandLineAssumption, SMTT(30)
      <3>. QED  BY <1>0, <3>1 DEF Start, Fetch, UpToDate, Download, Copy, CopyFails, Rename,
                  CallFails, Killed
    <2>3. disk' \in [version : Version, whole : BOOLEAN] /\ latest' = latest
      <3>1. CASE Rename(u)
        <4>1. tmp[u] = "whole" /\ fetched[u] \in Version
          BY <1>0, <3>1 DEF UpgradeInv, Rename
        <4>2. disk' = [version |-> fetched[u], whole |-> TRUE] /\ latest' = latest
          BY <3>1, <4>1 DEF Rename
        <4>. QED  BY <4>1, <4>2
      <3>2. CASE ~Rename(u)
        BY <1>0, <3>2
           DEF Start, Fetch, UpToDate, Download, Copy, CopyFails, CallFails, Killed
      <3>. QED  BY <3>1, <3>2
    <2>4. failed' \in [Upgraders -> BOOLEAN] /\ overlap' \in BOOLEAN
      BY DEF UpgradeTypeOK, Start, Fetch, UpToDate, Download, Copy, CopyFails, Rename,
         CallFails, Killed
    <2>. QED  BY <1>0, <2>1, <2>2, <2>3, <2>4 DEF UpgradeTypeOK
  <1>2. disk'.whole
    BY <1>0, SMTT(30)
       DEF UpgradeInv, Start, Fetch, UpToDate, Download, Copy, CopyFails, Rename,
           CallFails, Killed
  <1>3. ASSUME NEW w \in Upgraders
        PROVE  /\ place'[w] \in {"idle", "fetch", "compare", "done"} => tmp'[w] = "none"
               /\ place'[w] = "rename" => tmp'[w] = "whole"
    BY <1>0
       DEF UpgradeInv, Start, Fetch, UpToDate, Download, Copy, CopyFails, Rename,
           CallFails, Killed
  <1>4. ASSUME NEW w \in Upgraders, place'[w] \in {"copy", "rename"}
        PROVE  Wanted(w)'
    <2>1. own'[w] = own[w] /\ fetched'[w] = fetched[w]
      BY <1>0, <1>4
         DEF Start, Fetch, UpToDate, Download, Copy, CopyFails, Rename, CallFails, Killed
    <2>2. Wanted(w)
      BY <1>0, <1>4
         DEF UpgradeInv, Start, Fetch, UpToDate, Download, Copy, CopyFails, Rename,
         CallFails, Killed
    <2>. QED  BY <2>1, <2>2 DEF Wanted
  <1>5. ASSUME NEW w \in Upgraders, ~overlap', UnderWay(w)'
        PROVE  own'[w] = disk'.version /\ \A v \in Upgraders : UnderWay(v)' => w = v
    <2>1. CASE Start(u)
      BY <1>0, <1>5, <2>1 DEF Start, UnderWay
    <2>2. CASE Rename(u)
      BY <1>0, <1>5, <2>2 DEF Rename, UnderWay, UpgradeInv
    <2>3. CASE \/ Fetch(u) \/ UpToDate(u) \/ Download(u) \/ Copy(u)
               \/ CopyFails(u) \/ CallFails(u) \/ Killed(u)
      BY <1>0, <1>5, <2>3, SMTT(30)
         DEF UpgradeInv, Fetch, UpToDate, Download, Copy, CopyFails, CallFails,
         Killed, UnderWay
    <2>. QED  BY <2>1, <2>2, <2>3
  <1>. QED  BY <1>1, <1>2, <1>3, <1>4, <1>5 DEF UpgradeInv

(* Nothing the client, a daemon or an upgrading process does breaks the    *)
(* invariant.                                                              *)
LEMMA NextStep == IInv /\ [LineNext]_lineVars => IInv'
  <1>. SUFFICES ASSUME IInv, [LineNext]_lineVars PROVE IInv'
    OBVIOUS
  <1>0. UpgradeTypeOK /\ UpgradeInv
    BY DEF IInv
  <1>1. CASE Next /\ ForwarderOnly
    BY <1>1, DaemonStep, ClientStep DEF Next, ForwarderOnly
  <1>2. CASE UpgradeStarts
    <2>1. UpgradeTypeOK' /\ UpgradeInv'
      BY <1>0, <1>2, UpgradeStep, CommandLineAssumption DEF UpgradeStarts
    <2>. QED  BY <1>2, <2>1, UpgradeEdges DEF IInv
  <1>3. CASE UpgradeEnds
    <2>1. UpgradeTypeOK' /\ UpgradeInv'
      BY <1>0, <1>3, UpgradeAlone DEF UpgradeEnds
    <2>. QED  BY <1>3, <2>1, UpgradeEdges DEF IInv
  <1>4. CASE Upgrading
    <2>1. CASE Publish
      <3>1. UpgradeTypeOK'
        <4>1. latest' \in 1 .. Len(Releases)
          <5>. HIDE DEF Version
          <5>1. Len(Releases) \in Nat
            BY CommandLineAssumption, SMTT(30)
          <5>. QED  BY <1>0, <2>1, <5>1, SMTT(30) DEF Publish, UpgradeTypeOK
        <4>. QED  BY <1>0, <2>1, <4>1 DEF Publish, UpgradeTypeOK
      <3>2. \A u \in Upgraders : (UnderWay(u)' <=> UnderWay(u)) /\ (Wanted(u)' <=> Wanted(u))
        BY <2>1 DEF Publish, UnderWay, Wanted
      <3>3. UpgradeInv'
        BY <1>0, <2>1, <3>2 DEF Publish, UpgradeInv
      <3>. QED  BY <1>4, <3>1, <3>3, UpgradeWithin DEF IInv
    <2>2. CASE ~Publish
      <3>1. UpgradeTypeOK' /\ UpgradeInv'
        BY <1>0, <1>4, <2>2, UpgradeStep DEF Upgrading
      <3>. QED  BY <1>4, <3>1, UpgradeWithin DEF IInv
    <2>. QED  BY <2>1, <2>2
  <1>5. CASE UNCHANGED lineVars
    <2>1. UpgradeTypeOK' /\ UpgradeInv'
      BY <1>0, <1>5, UpgradeAlone DEF lineVars
    <2>2. RequestTypeOK' /\ RequestInv' /\ StatusInv' /\ LineInv'
      BY <1>5, SMTT(30)
         DEF IInv, lineVars, vars, upgradeVars, RequestTypeOK, RequestInv, StatusInv,
             LineInv
    <2>. QED  BY <2>1, <2>2 DEF IInv
  <1>. QED  BY <1>1, <1>2, <1>3, <1>4, <1>5 DEF LineNext

(* The invariant holds throughout. *)
LEMMA Invariance == LineSpec => []IInv
  BY InitIInv, NextStep, PTL DEF LineSpec

(* A command is started at most once, by the daemon or by the caller,      *)
(* unless the daemon reported a negative code or the request slipped out.  *)
THEOREM OnceUnlessSignalledHolds == LineSpec => []OnceUnlessSignalled
  <1>1. IInv => OnceUnlessSignalled
    BY SMTT(30) DEF IInv, RequestTypeOK, RequestInv, OnceUnlessSignalled
  <1>. QED  BY <1>1, Invariance, PTL

(* The exit status tells what happened to the command line. *)
THEOREM StatusIsHonestHolds == LineSpec => []StatusIsHonest
  <1>1. IInv => StatusIsHonest
    <2>. SUFFICES ASSUME IInv PROVE StatusIsHonest
      OBVIOUS
    <2>1. CASE kind = "upgrade"
      BY <2>1, SMTT(30) DEF IInv, StatusInv, LineInv, StatusIsHonest, Running
    <2>2. CASE kind # "upgrade"
      BY <2>2 DEF IInv, StatusInv, StatusIsHonest
    <2>. QED  BY <2>1, <2>2
  <1>. QED  BY <1>1, Invariance, PTL

(* The binary is always a whole release, and no process that returned has  *)
(* left its temporary file.                                                *)
THEOREM UpgradeIsCleanHolds == LineSpec => []UpgradeIsClean
  <1>1. IInv => UpgradeIsClean
    BY DEF IInv, UpgradeInv, UpgradeIsClean
  <1>. QED  BY <1>1, Invariance, PTL

(* Upgrades that do not overlap never install smaller numbers. *)
THEOREM NoDowngradeHolds == LineSpec => NoDowngrade
  <1>1. ASSUME IInv, [LineNext]_lineVars
        PROVE  [~overlap' => ~NumbersBelow(disk'.version, disk.version)]_lineVars
    <2>. SUFFICES ASSUME ~overlap', disk' # disk
                  PROVE  ~NumbersBelow(disk'.version, disk.version)
      <3>1. disk.version \in Version
        BY <1>1 DEF IInv, UpgradeTypeOK
      <3>2. ~NumbersBelow(disk.version, disk.version)
        <4>1. \A i \in 1 .. Len(disk.version) : disk.version[i].num \in Nat
          BY <3>1, SegmentNumbers
        <4>. QED  BY <4>1, SMTT(30) DEF NumbersBelow
      <3>. QED  BY <3>2
    <2>1. PICK u \in Upgraders : Rename(u)
      BY <1>1
         DEF LineNext, ForwarderOnly, upgradeVars, UpgradeStarts, UpgradeEnds, Upgrading,
             Publish,
         Start, Fetch, UpToDate, Download, Copy, CopyFails, CallFails, Killed, lineVars
    <2>2. /\ disk'.version = fetched[u] /\ own[u] = disk.version /\ Wanted(u)
          /\ fetched[u] \in Version /\ own[u] \in Version
      BY <1>1, <2>1 DEF Rename, IInv, UpgradeInv, UpgradeTypeOK, UnderWay
    <2>3. CASE own[u] = <<>>
      BY <2>2, <2>3, SMTT(30) DEF NumbersBelow
    <2>4. CASE isNewer(fetched[u], own[u])
      BY <2>2, <2>4, NewerIsNotBelow
    <2>. QED  BY <2>2, <2>3, <2>4 DEF Wanted
  <1>. QED  BY <1>1, Invariance, PTL DEF LineSpec, NoDowngrade
=============================================================================
