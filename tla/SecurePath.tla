------------------------------ MODULE SecurePath ------------------------------
(***************************************************************************)
(* Path confinement (pkg/common/security.go) over a small file system.     *)
(*                                                                         *)
(* A path is the sequence of its components.  A path that starts with "."  *)
(* is relative, any other is absolute, so "/" is <<>> and "" is <<".">>.   *)
(* The file system is a set of directories, a set of files and the target  *)
(* of each symbolic link, all named by their physical absolute paths.      *)
(***************************************************************************)
EXTENDS Naturals, SequencesExt

CONSTANTS
    Names,     \* the component names in use, "." and ".." included
    FsDirs,    \* physical paths of directories
    FsFiles,   \* physical paths of files
    FsLinks,   \* physical path of a link -> the path it holds
    MaxLinks   \* filepath.EvalSymlinks gives up after this many links

Path == Seq(Names)

Slash == <<>>

IsAbs(p) == p = <<>> \/ Head(p) # "."

(* What a path lookup can come to. *)
Found(p) == [outcome |-> "found", path |-> p]
NotExist == [outcome |-> "notexist", path |-> Slash]
Failed == [outcome |-> "failed", path |-> Slash]

(* One component of a path under filepath.Clean: ".." drops the component  *)
(* before it, and stays at the root.                                       *)
CleanStep(done, name) ==
    CASE name = "."  -> done
      [] name = ".." -> IF done = <<>> THEN done ELSE Front(done)
      [] OTHER       -> Append(done, name)

(* filepath.Clean of an absolute path: purely lexical. *)
Clean(p) == FoldLeft(CleanStep, <<>>, p)

(* filepath.Clean of the target itself, or of its Join with the base. *)
AbsTarget(target, absBase) ==
    IF IsAbs(target) THEN Clean(target) ELSE Clean(absBase \o target)

(* The walk of filepath.EvalSymlinks: `done` is the physical path reached,  *)
(* `rest` what remains to be walked, `left` the links it may still follow.  *)
Walk[st \in [done : Path, rest : Path, left : 0..MaxLinks]] ==
    IF st.rest = <<>> THEN Found(st.done)
    ELSE LET next == CleanStep(st.done, Head(st.rest))
             rest == Tail(st.rest)
         IN  CASE next \in DOMAIN FsLinks ->
                    IF st.left = 0 THEN Failed
                    ELSE Walk[[done |-> IF IsAbs(FsLinks[next]) THEN Slash ELSE st.done,
                               rest |-> FsLinks[next] \o rest,
                               left |-> st.left - 1]]
               [] next \in FsDirs -> Walk[[st EXCEPT !.done = next, !.rest = rest]]
               [] next \in FsFiles -> IF rest = <<>> THEN Found(next) ELSE Failed
               [] OTHER -> NotExist

EvalSymlinks(p) == Walk[[done |-> Slash, rest |-> p, left |-> MaxLinks]]

(* resolveSymlinks: the physical path, or, when it does not exist, the      *)
(* physical path of the deepest ancestor that does, with the missing tail   *)
(* appended.  An ancestor that fails in any other way is an error.          *)
resolveSymlinks(p) ==
    LET Ancestor(n) == EvalSymlinks(SubSeq(p, 1, n))
        Exists(n) == Ancestor(n).outcome # "notexist"
        deepest == CHOOSE n \in 0..Len(p) :
                      Exists(n) /\ \A m \in n+1..Len(p) : ~Exists(m)
    IN  IF Ancestor(deepest).outcome = "failed" THEN Failed
        ELSE Found(Ancestor(deepest).path \o SubSeq(p, deepest + 1, Len(p)))

(* The prefix test that ends SecurePath, on whole components because the    *)
(* code appends a separator to both sides.                                  *)
Encloses(realBase, realTarget) == IsPrefix(realBase, realTarget)

(* SecurePath: the confined path, or Failed for an error. *)
SecurePath(target, baseDir) ==
    LET absBase == Clean(baseDir)
        realBase == resolveSymlinks(absBase)
        absTarget == AbsTarget(target, absBase)
        realTarget == resolveSymlinks(absTarget)
    IN  CASE realBase.outcome # "found" -> Failed
          [] realBase.outcome = "found" /\ realBase.path = Slash -> Found(absTarget)
          [] OTHER ->
                IF /\ realTarget.outcome = "found"
                   /\ Encloses(realBase.path, realTarget.path)
                THEN realTarget
                ELSE Failed

(* The physical directory a name leads to, where it leads to one. *)
IsDir(p) == EvalSymlinks(p).outcome = "found" /\ EvalSymlinks(p).path \in FsDirs

=============================================================================
