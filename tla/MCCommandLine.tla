---------------------------- MODULE MCCommandLine ----------------------------
(***************************************************************************)
(* CommandLine with two daemons, of which the second may start while the   *)
(* first still runs or drains, commands that succeed, fail, or report a    *)
(* child that a signal ended, and releases that go up and down.            *)
(***************************************************************************)
EXTENDS CommandLine

MCCodes == {-1, 0, 1, 127}

(* 1.0-rc1 is installed; 1.0, 0.9 and 1.0.1 come out in turn. *)
MCFirst == <<Seg(1), Pre(0)>>
MCReleases == <<<<Seg(1), Seg(0)>>, <<Seg(0), Seg(9)>>,
                <<Seg(1), Seg(0), Seg(1)>>>>

(* 1.0 is installed; 1.0-beta.2 is the latest release. *)
MCStable == <<Seg(1), Seg(0)>>
MCBeta == <<<<Seg(1), Pre(0), Seg(2)>>>>
=============================================================================
