----------------------------- MODULE CursorFile -----------------------------
(***************************************************************************)
(* The cursor of pkg/cursor.go and the file it is kept in.                 *)
(*                                                                         *)
(* A cursor is a map from repo to RepoState.  SaveCursor writes it to      *)
(* path.tmp and renames path.tmp over path; os.WriteFile is an open with   *)
(* O_TRUNC followed by a write, so a save is three steps, and every        *)
(* goroutine of the pod (the poll loop, the command consumer, the          *)
(* /resetcursor and /setcursor handlers) uses the SAME two names without a *)
(* lock.  The file system is modelled at the level that matters for that:  *)
(* what the two directory entries hold, and which of them a descriptor     *)
(* opened on path.tmp refers to by the time it is written through.         *)
(***************************************************************************)

EXTENDS Cursors

CONSTANTS
    Procs,      \* the goroutines that may save the cursor
    Missing,    \* no such file
    Truncated,  \* a file of length zero, as O_TRUNC leaves it
    Garbled     \* a file that is neither empty nor a complete cursor

\* What json.Unmarshal refuses.
Broken == {Truncated, Garbled}

ASSUME ContentAssumption ==
    /\ {Missing, Truncated, Garbled} \cap Cursor = {}
    /\ Missing \notin Broken

VARIABLES
    path,       \* what cursor.json holds, or Missing
    tmp,        \* what cursor.json.tmp holds, or Missing
    fd          \* fd[p]: the file p's open descriptor refers to

fileVars == <<path, tmp, fd>>

-----------------------------------------------------------------------------
FileTypeOK ==
    /\ path \in Cursor \cup Broken \cup {Missing}
    /\ tmp \in Cursor \cup Broken \cup {Missing}
    /\ fd \in [Procs -> {"closed", "tmp", "path", "unlinked"}]

FileInit ==
    /\ path = Missing
    /\ tmp = Missing
    /\ fd = [p \in Procs |-> "closed"]

(***************************************************************************)
(* LoadCursor: a missing file is a cold start, a broken one an error.      *)
(***************************************************************************)
CursorLoads == path \notin Broken

LoadCursor == IF path = Missing THEN EmptyCursor ELSE path

\* Mutant of OpenTmp: the file is written in place.
OpenInPlace(p) ==
    /\ path' = Truncated
    /\ fd' = [fd EXCEPT ![p] = "path"]
    /\ UNCHANGED tmp

(***************************************************************************)
(* SaveCursor, step 1: os.WriteFile opens path.tmp with O_CREATE|O_TRUNC.  *)
(***************************************************************************)
OpenTmp(p) ==
    /\ tmp' = Truncated
    /\ fd' = [fd EXCEPT ![p] = "tmp"]
    /\ UNCHANGED path

(***************************************************************************)
(* The possible contents after c is written at offset 0 over old: a longer *)
(* old content leaves its tail behind.  A write that fails (ok = FALSE)    *)
(* leaves a prefix of c, possibly none of it.                              *)
(***************************************************************************)
Written(old, c, ok) ==
    IF ok THEN IF old \in {Truncated, c} THEN {c} ELSE {c, Garbled}
          ELSE {old, Garbled}

(***************************************************************************)
(* SaveCursor, step 2: the bytes go to the file the descriptor refers to,  *)
(* which another goroutine may have truncated, renamed to path, or         *)
(* replaced since the open.                                                *)
(***************************************************************************)
WriteTmp(p, c, ok) ==
    /\ \/ /\ fd[p] = "tmp"
          /\ tmp' \in Written(tmp, c, ok)
          /\ UNCHANGED path
       \/ /\ fd[p] = "path"
          /\ path' \in Written(path, c, ok)
          /\ UNCHANGED tmp
       \/ /\ fd[p] = "unlinked"
          /\ UNCHANGED <<path, tmp>>
    /\ fd' = [fd EXCEPT ![p] = "closed"]

(***************************************************************************)
(* SaveCursor, step 3: os.Rename(path.tmp, path).  Descriptors follow the  *)
(* file, not its name.  Without a path.tmp the rename fails (ENOENT).      *)
(***************************************************************************)
AfterRename(f) == CASE f = "tmp"  -> "path"
                    [] f = "path" -> "unlinked"
                    [] OTHER      -> f

RenameTmp ==
    /\ tmp # Missing
    /\ path' = tmp
    /\ tmp' = Missing
    /\ fd' = [q \in Procs |-> AfterRename(fd[q])]

(***************************************************************************)
(* The pod is killed: descriptors are gone, both files stay on the volume. *)
(***************************************************************************)
CloseAll ==
    /\ fd' = [p \in Procs |-> "closed"]
    /\ UNCHANGED <<path, tmp>>
=============================================================================
