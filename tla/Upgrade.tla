------------------------------- MODULE Upgrade -------------------------------
(***************************************************************************)
(* goposix --upgrade (upgrade.go): fetch the latest release, compare it    *)
(* with the running version, download it to a temporary file and rename    *)
(* that over the binary.  Any call may fail, the process may be killed     *)
(* between any two, releases are published meanwhile, and several          *)
(* processes may upgrade the same binary.                                  *)
(*                                                                         *)
(* A version is the sequence of its dot-separated segments, each with the  *)
(* number its leading digits make and whether a hyphen follows them, so    *)
(* "1.0-beta.2" is <<Seg(1), Pre(0), Seg(2)>>.                             *)
(***************************************************************************)
EXTENDS Naturals, Sequences

CONSTANTS
    Upgraders,   \* processes that run --upgrade, once each
    Releases,    \* the versions published as latest, in order
    First        \* the version of the binary at the start

Seg(n) == [num |-> n, hyphen |-> FALSE]
Pre(n) == [num |-> n, hyphen |-> TRUE]

Version == Seq([num : Nat, hyphen : BOOLEAN])

VARIABLES
    latest,    \* how many releases are out
    disk,      \* the binary: its version, and whether it is whole
    tmp,       \* each process's temporary file: "none", "partial", "whole"
    own,       \* the version each process was built as
    fetched,   \* the release each process was told is the latest
    place,     \* where each process is
    failed,    \* whether Upgrade returned an error
    overlap    \* history: two processes were under way at the same time

upgradeVars == <<latest, disk, tmp, own, fetched, place, failed, overlap>>

-----------------------------------------------------------------------------
(* parseVersion: the number of each segment, whatever follows its digits. *)
parseVersion(v) == [i \in 1 .. Len(v) |-> v[i].num]

(* hasSuffix: there is a hyphen somewhere. *)
hasSuffix(v) == \E i \in 1 .. Len(v) : v[i].hyphen

(* Mutant of isNewer: the first segment that is greater decides, and a      *)
(* smaller one before it is not looked at.                                  *)
IsNewerSomewhere(a, b) ==
    LET ap == parseVersion(a)
        bp == parseVersion(b)
    IN  \/ \E i \in 1 .. Len(ap) : i <= Len(bp) /\ ap[i] > bp[i]
        \/ ap = bp /\ ~hasSuffix(a) /\ hasSuffix(b)

(* isNewer: the first segment in which they differ decides, then the        *)
(* longer version, then a version without suffix over one with.             *)
isNewer(a, b) ==
    LET ap == parseVersion(a)
        bp == parseVersion(b)
        common == {i \in 1 .. Len(ap) : i <= Len(bp)}
        differ == {i \in common : ap[i] # bp[i]}
        first == CHOOSE i \in differ : \A j \in differ : i <= j
    IN  IF differ # {} THEN ap[first] > bp[first]
        ELSE IF Len(ap) # Len(bp) THEN Len(ap) > Len(bp)
        ELSE ~hasSuffix(a) /\ hasSuffix(b)

-----------------------------------------------------------------------------
UpgradeInit ==
    /\ latest = 1
    /\ disk = [version |-> First, whole |-> TRUE]
    /\ tmp = [u \in Upgraders |-> "none"]
    /\ own = [u \in Upgraders |-> First]
    /\ fetched = [u \in Upgraders |-> First]
    /\ place = [u \in Upgraders |-> "idle"]
    /\ failed = [u \in Upgraders |-> FALSE]
    /\ overlap = FALSE

(* Whether Upgrade goes on to download.  A binary built without a version,  *)
(* <<>> here, always does.                                                  *)
Wanted(u) ==
    /\ own[u] # fetched[u]
    /\ own[u] = <<>> \/ isNewer(fetched[u], own[u])

UnderWay(u) == place[u] \notin {"idle", "done", "killed"}

Go(u, p) == place' = [place EXCEPT ![u] = p]

(* Upgrade returns; its deferred Remove takes away what is left of the file. *)
Return(u, error) ==
    /\ Go(u, "done")
    /\ failed' = [failed EXCEPT ![u] = error]
    /\ tmp' = [tmp EXCEPT ![u] = "none"]

(* A new release becomes the latest. *)
Publish ==
    /\ latest < Len(Releases)
    /\ latest' = latest + 1
    /\ UNCHANGED <<disk, tmp, own, fetched, place, failed, overlap>>

(* A process starts from the binary that is there and finds its path. *)
Start(u) ==
    /\ place[u] = "idle"
    /\ own' = [own EXCEPT ![u] = disk.version]
    /\ Go(u, "fetch")
    /\ overlap' = (overlap \/ \E v \in Upgraders : UnderWay(v))
    /\ UNCHANGED <<latest, disk, tmp, fetched, failed>>

(* fetchLatestRelease, with an asset for this platform. *)
Fetch(u) ==
    /\ place[u] = "fetch"
    /\ fetched' = [fetched EXCEPT ![u] = Releases[latest]]
    /\ Go(u, "compare")
    /\ UNCHANGED <<latest, disk, tmp, own, failed, overlap>>

(* The release is the running version, or no newer: nothing is downloaded,  *)
(* and Upgrade returns nil, whatever its comment says (upgrade.go:24-26).   *)
UpToDate(u) ==
    /\ place[u] = "compare"
    /\ ~Wanted(u)
    /\ Return(u, FALSE)
    /\ UNCHANGED <<latest, disk, own, fetched, overlap>>

(* downloadBinary gets a response and creates the temporary file. *)
Download(u) ==
    /\ place[u] = "compare"
    /\ Wanted(u)
    /\ tmp' = [tmp EXCEPT ![u] = "partial"]
    /\ Go(u, "copy")
    /\ UNCHANGED <<latest, disk, own, fetched, failed, overlap>>

(* The body is copied, or the binary extracted from the archive. *)
Copy(u) ==
    /\ place[u] = "copy"
    /\ tmp' = [tmp EXCEPT ![u] = "whole"]
    /\ Go(u, "rename")
    /\ UNCHANGED <<latest, disk, own, fetched, failed, overlap>>

(* Mutant of CopyFails: the error of the copy is not looked at. *)
CopyErrorIgnored(u) ==
    /\ place[u] = "copy"
    /\ Go(u, "rename")
    /\ UNCHANGED <<latest, disk, tmp, own, fetched, failed, overlap>>

(* The body ends early, the archive holds no binary, or a write fails. *)
CopyFails(u) ==
    /\ place[u] = "copy"
    /\ Return(u, TRUE)
    /\ UNCHANGED <<latest, disk, own, fetched, overlap>>

(* Chmod and Rename: the file becomes the binary, in one step. *)
Rename(u) ==
    /\ place[u] = "rename"
    /\ disk' = [version |-> fetched[u], whole |-> tmp[u] = "whole"]
    /\ Return(u, FALSE)
    /\ UNCHANGED <<latest, own, fetched, overlap>>

(* The API, the download request, Chmod or Rename fail: across file         *)
(* systems, Rename always does.                                             *)
CallFails(u) ==
    /\ place[u] \in {"fetch", "compare", "rename"}
    /\ place[u] = "compare" => Wanted(u)
    /\ Return(u, TRUE)
    /\ UNCHANGED <<latest, disk, own, fetched, overlap>>

(* The process is killed: nothing is cleaned up. *)
Killed(u) ==
    /\ UnderWay(u)
    /\ Go(u, "killed")
    /\ UNCHANGED <<latest, disk, tmp, own, fetched, failed, overlap>>

-----------------------------------------------------------------------------
(* Version a has smaller numbers than b: they agree up to a segment that is *)
(* smaller in a.                                                            *)
NumbersBelow(a, b) ==
    \E i \in 1 .. Len(a) :
        /\ i <= Len(b)
        /\ a[i].num < b[i].num
        /\ \A j \in 1 .. i - 1 : a[j].num = b[j].num

=============================================================================
