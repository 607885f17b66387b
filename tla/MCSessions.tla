------------------------------ MODULE MCSessions ------------------------------
(***************************************************************************)
(* SessionManager over a file system with nested directories, a sibling    *)
(* whose name another extends, a file, a link to a directory, and links    *)
(* that lead out of the directory that holds them.                         *)
(***************************************************************************)
EXTENDS SessionManager, Sequences

MCNames == {".", "..", "a", "ab", "b", "f", "l", "up", "out", "x"}

MCRoot == <<>>

MCFsDirs == {<<>>, <<"a">>, <<"a", "b">>, <<"ab">>}
MCFsFiles == {<<"a", "f">>}
MCFsLinks == [p \in {<<"l">>, <<"a", "up">>, <<"a", "out">>} |->
                CASE p = <<"l">>        -> <<".", "a">>
                  [] p = <<"a", "up">>  -> <<".", "..", "a", "b">>
                  [] p = <<"a", "out">> -> <<"ab">>]

FS == INSTANCE SecurePath WITH
        Names <- MCNames, FsDirs <- MCFsDirs, FsFiles <- MCFsFiles,
        FsLinks <- MCFsLinks, MaxLinks <- 4

(* The names under which a session can be in a directory. *)
MCDirs == MCFsDirs \cup {<<"l">>}

(* Paths a client sends: absolute and relative, through links, to a file,   *)
(* to what does not exist, and out of the directory.                        *)
MCTargets == {<<"a">>, <<"l">>, <<".", "b">>, <<".", "out">>, <<".", "..", "ab">>,
              <<"a", "f">>, <<".", "x">>}

(* SecurePath and then os.Stat, as SetCwd calls them. *)
MCLanding ==
    [p \in MCTargets \cup MCDirs |->
        [b \in MCDirs |->
            LET r == FS!SecurePath(p, b)
            IN  IF r.outcome = "found" /\ FS!IsDir(r.path) THEN r.path ELSE Refused]]

MCEscapes == {pb \in (MCTargets \cup MCDirs) \X MCDirs :
                FS!SecurePath(pb[1], pb[2]).outcome # "found"}

MCInside == {de \in MCDirs \X MCDirs :
                FS!IsPrefix(FS!EvalSymlinks(de[2]).path, FS!EvalSymlinks(de[1]).path)}
=============================================================================
