----------------------------- MODULE CommandLine -----------------------------
(***************************************************************************)
(* A command line of the multicall binary from main to its exit status:    *)
(* Forwarder, which hands it to a daemon or runs it in this process, with  *)
(* --upgrade (Upgrade) as what a cold start of that flag does, beside      *)
(* other processes that upgrade the same binary.                           *)
(*                                                                         *)
(* The forwarder does not know --upgrade, so with a daemon running it is   *)
(* sent there as a method of that name, and refused.                       *)
(***************************************************************************)
EXTENDS Forwarder, Upgrade

CONSTANT Me   \* the process of this command line, one of Upgraders

ASSUME CommandLineAssumption ==
    /\ Me \in Upgraders
    /\ Releases \in Seq(Version) /\ Releases # <<>> /\ First \in Version

LineInit == Init /\ UpgradeInit

(* A cold start of --upgrade enters Upgrade ... *)
UpgradeStarts ==
    /\ pc = "cold"
    /\ kind = "upgrade"
    /\ Start(Me)
    /\ pc' = "upgrading"
    /\ UNCHANGED <<daemonVars, requestVars, kind, piped, server, status>>

(* Mutant of UpgradeEnds: the error is printed and not reported. *)
UpgradeEndsQuietly ==
    /\ pc = "upgrading"
    /\ place[Me] = "done"
    /\ Exit(0)
    /\ UNCHANGED <<daemonVars, upgradeVars, kind, piped, server, job, answer, slipped,
                   starts, ended>>

(* ... and exits with 1 if that returned an error, else 0. *)
UpgradeEnds ==
    /\ pc = "upgrading"
    /\ place[Me] = "done"
    /\ Exit(IF failed[Me] THEN 1 ELSE 0)
    /\ UNCHANGED <<daemonVars, upgradeVars, kind, piped, server, job, answer, slipped,
                   starts, ended>>

(* The steps of Upgrade, here and in the other processes. *)
Upgrading ==
    /\ \/ Publish
       \/ \E u \in Upgraders \ {Me} : Start(u)
       \/ \E u \in Upgraders :
             \/ Fetch(u) \/ UpToDate(u) \/ Download(u) \/ Copy(u)
             \/ CopyFails(u) \/ Rename(u) \/ CallFails(u) \/ Killed(u)
    /\ UNCHANGED vars

(* Everything of Forwarder, except that a cold --upgrade is the above. *)
ForwarderOnly ==
    /\ pc = "cold" /\ kind = "upgrade" => pc' = "cold"
    /\ UNCHANGED upgradeVars

LineNext == (Next /\ ForwarderOnly) \/ UpgradeStarts \/ Upgrading \/ UpgradeEnds

lineVars == <<vars, upgradeVars>>

(* The client's own steps are fair; Upgrade's are not, since its HTTP       *)
(* requests have no deadline.                                               *)
LineSpec ==
    /\ LineInit /\ [][LineNext]_lineVars
    /\ WF_lineVars((Client /\ ForwarderOnly) \/ UpgradeStarts \/ UpgradeEnds)

-----------------------------------------------------------------------------
(* The exit status tells what happened: other than 126 and 127 it is what a *)
(* run of the command returned, and unless a run returned it itself, 127    *)
(* means that nothing was started and 126 that nothing was started twice;   *)
(* for --upgrade, 0 means that Upgrade returned without error, 1 that it    *)
(* failed, and 126 that a daemon refused it and it never began.  The one    *)
(* exception is a name of the daemon's own methods (ping, session.create,   *)
(* shell.exec): with a daemon it ends with 0 and nothing was run            *)
(* (forwarder.go:120-134, goposix.go:101-106, 115-122, server.go:522-621).  *)
StatusIsHonest ==
    IF kind = "upgrade"
    THEN /\ status = 0 => place[Me] = "done" /\ ~failed[Me]
         /\ status = 1 => place[Me] = "done" /\ failed[Me]
         /\ status = 126 => place[Me] = "idle"
    ELSE \/ status = Running
         \/ \E code \in ended : status = code % 256
         \/ status = 127 /\ starts = 0
         \/ status = 126 /\ starts <= 1
         \/ status = 0 /\ starts = 0 /\ kind = "builtin"

(* Whatever fails and whenever a process is killed, the binary is one whole *)
(* release, and only a killed process leaves its temporary file             *)
(* (upgrade.go:67-77, 161-187).                                             *)
UpgradeIsClean ==
    /\ disk.whole
    /\ \A u \in Upgraders : place[u] = "done" => tmp[u] = "none"

(* Upgrades that do not overlap never replace a version by one with smaller *)
(* numbers, although releases are published and withdrawn and processes     *)
(* killed between their steps (upgrade.go:50-58, 221-239).                  *)
NoDowngrade ==
    [][~overlap' => ~NumbersBelow(disk'.version, disk.version)]_lineVars

(* A release is never replaced by one of its own pre-releases: upgrade.go   *)
(* says (219) that "Pre-release suffixes ("-rc1", "-beta") sort before      *)
(* stable releases", and (242) counts "-beta.2" among the suffixes.         *)
StableIsKept ==
    [][~(/\ ~hasSuffix(disk.version)
         /\ hasSuffix(disk'.version)
         /\ parseVersion(disk.version)
               = SubSeq(parseVersion(disk'.version), 1, Len(disk.version)))]_lineVars

(* The invocation ends, although the daemon may hang, stop or die at any    *)
(* point, or it comes to Upgrade (the dial timeout and the deadline,        *)
(* forwarder.go:92-99).                                                     *)
LineEnds == <>(pc \in {"done", "upgrading"})
=============================================================================
