------------------------------ MODULE Utilities ------------------------------
(***************************************************************************)
(* The utilities that a goposix process runs and that these modules model: *)
(* a process works on text files that differ, on text files that are       *)
(* sorted, on the file system, filters text, works on archives, interprets *)
(* a program, or receives a file.                                          *)
(***************************************************************************)
EXTENDS DiffPatch, SortPipeline, FileWork, FilterPipeline, ArchiveWork, ProgramWork, Xmodem

vars == <<diffVars, sortVars, fileVars, filterVars, archiveVars, programVars, xmodemVars>>

DiffIdle == DiffStart("idle", [old |-> NoFile, new |-> NoFile, mode |-> NoMode, context |-> 0])
SortIdle == SortStart("idle", [inputs |-> <<<<>>, <<>>>>, flags |-> <<>>])
FileIdle == FileStart(MaxCommands, NoTree)
FilterIdle == FilterStart("idle", [operands |-> <<>>, first |-> NoFilter, then |-> NoFilter])
ArchiveIdle == ArchiveStart(NoTree, <<>>)
ProgramIdle == ProgramStart([tool |-> "none"])
XmodemIdle == XmodemStart([bytes |-> <<>>, json |-> FALSE], "gone", "ended")

Init ==
    \/ DiffIdle /\ SortIdle /\ FileIdle /\ FilterIdle /\ ArchiveIdle /\ ProgramIdle /\ XmodemInit
    \/ SortIdle /\ FileIdle /\ FilterIdle /\ ArchiveIdle /\ ProgramIdle /\ XmodemIdle /\ DiffInit
    \/ DiffIdle /\ FileIdle /\ FilterIdle /\ ArchiveIdle /\ ProgramIdle /\ XmodemIdle /\ SortInit
    \/ DiffIdle /\ SortIdle /\ FilterIdle /\ ArchiveIdle /\ ProgramIdle /\ XmodemIdle /\ FileInit
    \/ DiffIdle /\ SortIdle /\ FileIdle /\ ArchiveIdle /\ ProgramIdle /\ XmodemIdle /\ FilterInit
    \/ DiffIdle /\ SortIdle /\ FileIdle /\ FilterIdle /\ ProgramIdle /\ XmodemIdle /\ ArchiveInit
    \/ DiffIdle /\ SortIdle /\ FileIdle /\ FilterIdle /\ ArchiveIdle /\ XmodemIdle /\ ProgramInit

Next ==
    \/ XmodemNext /\ UNCHANGED <<diffVars, sortVars, fileVars, filterVars, archiveVars, programVars>>
    \/ DiffNext /\ UNCHANGED <<sortVars, fileVars, filterVars, archiveVars, programVars, xmodemVars>>
    \/ SortNext /\ UNCHANGED <<diffVars, fileVars, filterVars, archiveVars, programVars, xmodemVars>>
    \/ FileNext /\ UNCHANGED <<diffVars, sortVars, filterVars, archiveVars, programVars, xmodemVars>>
    \/ FilterNext /\ UNCHANGED <<diffVars, sortVars, fileVars, archiveVars, programVars, xmodemVars>>
    \/ ArchiveNext /\ UNCHANGED <<diffVars, sortVars, fileVars, filterVars, programVars, xmodemVars>>
    \/ ProgramNext /\ UNCHANGED <<diffVars, sortVars, fileVars, filterVars, archiveVars, xmodemVars>>

Spec == Init /\ [][Next]_vars
=============================================================================
