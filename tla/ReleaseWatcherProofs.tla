------------------------ MODULE ReleaseWatcherProofs ------------------------
(***************************************************************************)
(* Invariants of ReleaseWatcher for every number of goroutines, repos,     *)
(* commits and tags, and every choice of the filters' inputs.              *)
(***************************************************************************)
EXTENDS ReleaseWatcher, CursorsProofs

(***************************************************************************)
(* What a process knows about the release it gathers, by the step it is    *)
(* at.  TypeOK alone is not inductive: GetMasterSHA reads head[repo], and  *)
(* a published pair is made of rel[p].repo and rel[p].headSHA.             *)
(***************************************************************************)
GatherInv ==
    \A p \in Procs :
        /\ todo[p] \subseteq Owned
        /\ pc[p] \in Gathering => rel[p].repo \in Owned
        /\ pc[p] \in Gathering \ {"head"} =>
            /\ rel[p].headSHA \in Commits
            /\ head[rel[p].repo] \in window[p]
        /\ pc[p] \in {"config", "filter"} => rel[p].changelog \in window[p]
        /\ pc[p] = "filter" => rel[p].config \in window[p]

Inv == TypeOK /\ GatherInv

-----------------------------------------------------------------------------
\* A written file holds the cursor written, what it held, or neither.
LEMMA WrittenFacts ==
    ASSUME NEW old, NEW c, NEW ok \in BOOLEAN
    PROVE  \A x \in Written(old, c, ok) : x \in {old, c, Garbled}
  BY DEF Written

\* LoadCursor returns a cursor whenever it does not fail.
LEMMA LoadCursorType ==
    ASSUME FileTypeOK, CursorLoads
    PROVE  LoadCursor \in Cursor
  BY EmptyCursorFacts DEF FileTypeOK, CursorLoads, LoadCursor

\* The file operations keep the types of the file variables.
LEMMA OpenTmpType ==
    ASSUME FileTypeOK, NEW p \in Procs, OpenTmp(p)
    PROVE  FileTypeOK'
  BY DEF FileTypeOK, OpenTmp, Broken

\* The write keeps the types of the files.
LEMMA WriteTmpType ==
    ASSUME FileTypeOK, NEW p \in Procs, NEW c \in Cursor, NEW ok \in BOOLEAN,
           WriteTmp(p, c, ok)
    PROVE  FileTypeOK'
  <1>1. fd' \in [Procs -> {"closed", "tmp", "path", "unlinked"}]
    BY DEF FileTypeOK, WriteTmp
  <1>2. /\ path' \in {path, c, Garbled}
        /\ tmp' \in {tmp, c, Garbled}
    BY WrittenFacts DEF WriteTmp
  <1> QED
    BY <1>1, <1>2 DEF FileTypeOK, Broken

\* The rename keeps the types of the files.
LEMMA RenameTmpType ==
    ASSUME FileTypeOK, RenameTmp
    PROVE  FileTypeOK'
  <1>1. \A q \in Procs : AfterRename(fd[q]) \in {"closed", "tmp", "path", "unlinked"}
    BY DEF FileTypeOK, AfterRename
  <1> QED
    BY <1>1 DEF FileTypeOK, RenameTmp

-----------------------------------------------------------------------------
\* The invariant holds initially.
LEMMA InvInit == Init => Inv
  <1> SUFFICES ASSUME Init PROVE Inv
    OBVIOUS
  <1>1. FileTypeOK
    BY DEF Init, FileInit, FileTypeOK
  <1>2. TypeOK
    BY <1>1, EmptyCursorFacts
    DEF Init, TypeOK, LoopArgs, NoRelease, ReleaseType
  <1>3. GatherInv
    BY DEF Init, GatherInv, Gathering
  <1> QED
    BY <1>2, <1>3 DEF Inv

\* Returning from a call keeps the invariant of the process state.
LEMMA ReturnInv ==
    ASSUME Inv, NEW p \in Procs, Return(p), FileTypeOK',
           UNCHANGED <<head, published, pinned, handled>>
    PROVE  Inv'
  <1>1. TypeOK'
    BY EmptyCursorFacts
    DEF Inv, TypeOK, Return, Goto, LoopArgs, NoRelease, ReleaseType
  <1>2. GatherInv'
    BY DEF Inv, TypeOK, GatherInv, Return, Goto, Gathering, NoRelease
  <1> QED
    BY <1>1, <1>2 DEF Inv

\* So does moving on to the next repo with a well-typed cursor and history.
LEMMA DropReleaseInv ==
    ASSUME Inv, NEW p \in Procs, DropRelease(p),
           cur' \in [Procs -> Cursor],
           published' \subseteq Repos \X Commits
    PROVE  Inv'
  <1>1. TypeOK'
    BY DEF Inv, TypeOK, FileTypeOK, fileVars, DropRelease, Goto, NoRelease, ReleaseType
  <1>2. GatherInv'
    BY DEF Inv, TypeOK, GatherInv, DropRelease, Goto, Gathering, NoRelease
  <1> QED
    BY <1>1, <1>2 DEF Inv

\* Past its head read a process names a task of the right type.
LEMMA TaskIDType ==
    ASSUME Inv, NEW p \in Procs, pc[p] = "filter"
    PROVE  TaskID(rel[p]) \in Repos \X Commits
  BY RepoAssumption DEF Inv, GatherInv, Gathering, TaskID

-----------------------------------------------------------------------------
\* A push keeps the invariant.
LEMMA PushInv ==
    ASSUME Inv, NEW r \in Repos, NEW c \in Commits, Push(r, c)
    PROVE  Inv'
  <1>1. TypeOK'
    BY DEF Inv, TypeOK, FileTypeOK, Push, fileVars, procVars
  <1>2. GatherInv'
    <2> SUFFICES ASSUME NEW p \in Procs,
                        pc[p] \in Gathering \ {"head"}
                 PROVE  /\ head'[rel[p].repo] \in window'[p]
                        /\ window[p] \subseteq window'[p]
      BY DEF Inv, TypeOK, GatherInv, Push, procVars, Gathering
    <2>1. /\ rel[p].headSHA \in Commits
          /\ rel[p].headSHA # None
          /\ rel[p].repo \in Repos
          /\ head[rel[p].repo] \in window[p]
      BY NoneAssumption, RepoAssumption DEF Inv, GatherInv
    <2>2. window'[p] = IF rel[p].repo = r THEN window[p] \cup {c} ELSE window[p]
      BY <2>1 DEF Push, Inv, TypeOK
    <2>3. head'[rel[p].repo] = IF rel[p].repo = r THEN c ELSE head[rel[p].repo]
      BY <2>1 DEF Push, Inv, TypeOK
    <2> QED
      BY <2>1, <2>2, <2>3
  <1> QED
    BY <1>1, <1>2 DEF Inv

\* The start of a poll or of a handler keeps the invariant.
LEMMA CallInv ==
    ASSUME Inv, NEW p \in Procs, CallStep(p)
    PROVE  Inv'
  <1>1. ASSUME NEW a \in PollArgs, BeginPoll(p, a) PROVE Inv'
    <2>1. /\ LoadCursor \in Cursor
          /\ a \in [force : BOOLEAN, scope : Repos \cup {None}]
      BY <1>1, LoadCursorType, CallAssumption DEF Inv, TypeOK, BeginPoll
    <2>2. TypeOK'
      BY <1>1, <2>1 DEF Inv, TypeOK, FileTypeOK, BeginPoll, Goto, fileVars, histVars
    <2>3. GatherInv'
      BY <1>1 DEF Inv, TypeOK, GatherInv, BeginPoll, Goto, Gathering, histVars
    <2> QED
      BY <2>2, <2>3 DEF Inv
  <1>2. ASSUME NEW r \in Repos, ResetCursor(p, r) PROVE Inv'
    <2>1. WithoutEntry(LoadCursor, r) \in Cursor
      BY <1>2, LoadCursorType, WithoutEntryFacts DEF Inv, TypeOK, ResetCursor
    <2>2. TypeOK'
      BY <1>2, <2>1
      DEF Inv, TypeOK, FileTypeOK, ResetCursor, Goto, fileVars, histVars, Saving
    <2>3. GatherInv'
      BY <1>2 DEF Inv, TypeOK, GatherInv, ResetCursor, Goto, Gathering, histVars
    <2> QED
      BY <2>2, <2>3 DEF Inv
  <1>3. ASSUME NEW pin \in Pins, SetCursor(p, pin[1], pin[2]) PROVE Inv'
    <2>1. /\ pin[1] \in Repos
          /\ pin[2] \in Commits
      BY CallAssumption
    <2>2. PinnedAt(LoadCursor, pin[1], pin[2]) \in Cursor
      BY <1>3, <2>1, LoadCursorType, PinnedAtFacts DEF Inv, TypeOK, SetCursor
    <2>3. TypeOK'
      BY <1>3, <2>1, <2>2
      DEF Inv, TypeOK, FileTypeOK, SetCursor, Goto, fileVars, Saving
    <2>4. GatherInv'
      BY <1>3 DEF Inv, TypeOK, GatherInv, SetCursor, Goto, Gathering
    <2> QED
      BY <2>3, <2>4 DEF Inv
  <1> QED
    BY <1>1, <1>2, <1>3 DEF CallStep

\* Every step of a scan keeps the invariant.
LEMMA ScanInv ==
    ASSUME Inv, NEW p \in Procs, ScanStep(p)
    PROVE  Inv'
  <1>1. CASE ResolveRepos(p)
    <2>1. /\ CycleRepos(args[p].scope) \subseteq Owned
          /\ CycleRepos(args[p].scope) \subseteq Repos
      BY <1>1, RepoAssumption, NoneAssumption
      DEF Inv, TypeOK, ResolveRepos, CycleRepos
    <2>2. TypeOK'
      BY <1>1, <2>1 DEF Inv, TypeOK, FileTypeOK, ResolveRepos, Goto, fileVars, histVars
    <2>3. GatherInv'
      BY <1>1, <2>1 DEF Inv, TypeOK, GatherInv, ResolveRepos, Goto, Gathering, histVars
    <2> QED
      BY <2>2, <2>3 DEF Inv
  <1>2. CASE DeferScan(p) \/ ResolveFails(p)
    BY <1>2, ReturnInv DEF DeferScan, ResolveFails, fileVars, Inv, TypeOK, FileTypeOK
  <1>3. ASSUME NEW r \in Repos, NextRepo(p, r),
               cur' \in [Procs -> Cursor], handled' \subseteq Repos \X Tags
        PROVE  Inv'
    <2>1. TypeOK'
      BY <1>3 DEF Inv, TypeOK, FileTypeOK, NextRepo, Goto, fileVars, NoRelease,
                  ReleaseType, Gathering
    <2>2. GatherInv'
      BY <1>3 DEF Inv, TypeOK, GatherInv, NextRepo, Goto, NoRelease, Gathering
    <2> QED
      BY <2>1, <2>2 DEF Inv
  <1>4. ASSUME NEW r \in Repos, BackstopSilent(p, r) PROVE Inv'
    BY <1>3, <1>4 DEF BackstopSilent, Inv, TypeOK
  <1>5. ASSUME NEW r \in Repos, NEW t \in Tags, BackstopHandles(p, r, t) PROVE Inv'
    <2>1. RecordTag(cur[p], r, t) \in Cursor
      BY RecordTagFacts DEF Inv, TypeOK
    <2>2. cur' \in [Procs -> Cursor]
      BY <1>5, <2>1 DEF BackstopHandles, Inv, TypeOK
    <2>3. handled' \subseteq Repos \X Tags
      BY <1>5 DEF BackstopHandles, Inv, TypeOK
    <2> QED
      BY <1>3, <1>5, <2>2, <2>3 DEF BackstopHandles
  <1>6. CASE GetMasterSHA(p)
    <2>1. /\ rel[p].repo \in Repos
          /\ head[rel[p].repo] \in Commits
      BY <1>6, RepoAssumption DEF Inv, TypeOK, GatherInv, GetMasterSHA, Gathering
    <2>2. TypeOK'
      BY <1>6, <2>1 DEF Inv, TypeOK, FileTypeOK, GetMasterSHA, Goto, fileVars,
                        ReleaseType, Gathering
    <2>3. GatherInv'
      BY <1>6, <2>1 DEF Inv, TypeOK, GatherInv, GetMasterSHA, Goto, Gathering, ReleaseType
    <2> QED
      BY <2>2, <2>3 DEF Inv
  <1>7. CASE GetChangelogContent(p)
    <2>1. /\ rel[p].repo \in Repos
          /\ head[rel[p].repo] \in Commits
      BY <1>7, RepoAssumption DEF Inv, TypeOK, GatherInv, GetChangelogContent, Gathering
    <2>2. TypeOK'
      BY <1>7, <2>1 DEF Inv, TypeOK, FileTypeOK, GetChangelogContent, Goto, fileVars,
                        histVars, ReleaseType, Gathering
    <2>3. GatherInv'
      BY <1>7, <2>1 DEF Inv, TypeOK, GatherInv, GetChangelogContent, Goto, Gathering,
                        histVars, ReleaseType
    <2> QED
      BY <2>2, <2>3 DEF Inv
  <1>8. CASE GetMaintainerConfig(p)
    <2>1. /\ rel[p].repo \in Repos
          /\ head[rel[p].repo] \in Commits
      BY <1>8, RepoAssumption DEF Inv, TypeOK, GatherInv, GetMaintainerConfig, Gathering
    <2>2. TypeOK'
      BY <1>8, <2>1 DEF Inv, TypeOK, FileTypeOK, GetMaintainerConfig, Goto, fileVars,
                        histVars, ReleaseType, Gathering
    <2>3. GatherInv'
      BY <1>8, <2>1 DEF Inv, TypeOK, GatherInv, GetMaintainerConfig, Goto, Gathering,
                        histVars, ReleaseType
    <2> QED
      BY <2>2, <2>3 DEF Inv
  <1>9. CASE GatherRateLimited(p)
    BY <1>9, ReturnInv DEF GatherRateLimited, fileVars, Inv, TypeOK, FileTypeOK
  <1>10. CASE GatherDropped(p)
    BY <1>10, DropReleaseInv DEF GatherDropped, Inv, TypeOK
  <1>11. CASE SkipRelease(p)
    BY <1>11, DropReleaseInv DEF SkipRelease, Inv, TypeOK
  <1>12. CASE PublishCreate(p)
    <2>1. /\ rel[p].repo \in Repos
          /\ rel[p].headSHA \in Commits
      BY <1>12, RepoAssumption DEF PublishCreate, Inv, GatherInv, Gathering
    <2>2. RecordHead(cur[p], rel[p].repo, rel[p].headSHA) \in Cursor
      BY <2>1, RecordHeadFacts DEF Inv, TypeOK
    <2>3. cur' \in [Procs -> Cursor]
      BY <1>12, <2>2 DEF PublishCreate, Inv, TypeOK
    <2>4. published' \subseteq Repos \X Commits
      BY <1>12, TaskIDType DEF PublishCreate, Inv, TypeOK
    <2> QED
      BY <1>12, <2>3, <2>4, DropReleaseInv DEF PublishCreate
  <1>13. CASE PublishFails(p)
    <2>1. published' \subseteq Repos \X Commits
      BY <1>13, TaskIDType DEF PublishFails, Inv, TypeOK
    <2> QED
      BY <1>13, <2>1, DropReleaseInv DEF PublishFails, Inv, TypeOK
  <1>14. CASE FinishScan(p)
    <2>1. TypeOK'
      BY <1>14 DEF Inv, TypeOK, FileTypeOK, FinishScan, Goto, fileVars, histVars, Saving
    <2>2. GatherInv'
      BY <1>14 DEF Inv, TypeOK, GatherInv, FinishScan, Goto, Gathering, histVars
    <2> QED
      BY <2>1, <2>2 DEF Inv
  <1>15. CASE CancelScan(p)
    <2>1. TypeOK'
      BY <1>15 DEF Inv, TypeOK, FileTypeOK, CancelScan, Goto, fileVars, histVars, Saving
    <2>2. GatherInv'
      BY <1>15 DEF Inv, TypeOK, GatherInv, CancelScan, Goto, Gathering, histVars
    <2> QED
      BY <2>1, <2>2 DEF Inv
  <1>16. CASE PassGate(p)
    <2>1. TypeOK'
      BY <1>16 DEF Inv, TypeOK, FileTypeOK, PassGate, Goto, fileVars, histVars
    <2>2. GatherInv'
      BY <1>16 DEF Inv, TypeOK, GatherInv, PassGate, Goto, Gathering, histVars
    <2> QED
      BY <2>1, <2>2 DEF Inv
  <1> QED
    BY <1>1, <1>2, <1>4, <1>5, <1>6, <1>7, <1>8, <1>9, <1>10, <1>11, <1>12,
       <1>13, <1>14, <1>15, <1>16
    DEF ScanStep

\* Every step of SaveCursor keeps the invariant.
LEMMA SaveInv ==
    ASSUME Inv, NEW p \in Procs, SaveStep(p)
    PROVE  Inv'
  <1> USE DEF Inv
  <1>1. FileTypeOK /\ cur[p] \in Cursor
    BY DEF TypeOK
  <1>2. CASE SaveOpens(p)
    <2>1. FileTypeOK'
      BY <1>1, <1>2, OpenTmpType DEF SaveOpens
    <2>2. TypeOK'
      BY <1>2, <2>1 DEF TypeOK, SaveOpens, Goto, histVars, Saving
    <2> QED
      BY <1>2, <2>2 DEF TypeOK, GatherInv, SaveOpens, Goto, Gathering, histVars
  <1>3. CASE SaveWrites(p)
    <2>1. FileTypeOK'
      BY <1>1, <1>3, WriteTmpType DEF SaveWrites
    <2>2. TypeOK'
      BY <1>3, <2>1 DEF TypeOK, SaveWrites, Goto, histVars, Saving
    <2> QED
      BY <1>3, <2>2 DEF TypeOK, GatherInv, SaveWrites, Goto, Gathering, histVars
  <1>4. CASE SaveRenames(p)
    <2>1. FileTypeOK'
      BY <1>1, <1>4, RenameTmpType DEF SaveRenames
    <2> QED
      BY <1>4, <2>1, ReturnInv DEF SaveRenames
  <1>5. CASE SaveOpenFails(p)
    BY <1>1, <1>5, ReturnInv DEF SaveOpenFails, fileVars, FileTypeOK
  <1>6. CASE SaveWriteFails(p)
    <2>1. FileTypeOK'
      BY <1>1, <1>6, WriteTmpType DEF SaveWriteFails
    <2> QED
      BY <1>6, <2>1, ReturnInv DEF SaveWriteFails
  <1>7. CASE SaveRenameFails(p)
    BY <1>1, <1>7, ReturnInv DEF SaveRenameFails, fileVars, FileTypeOK
  <1> QED
    BY <1>2, <1>3, <1>4, <1>5, <1>6, <1>7 DEF SaveStep

\* A crash keeps the invariant.
LEMMA CrashInv ==
    ASSUME Inv, Crash
    PROVE  Inv'
  <1>1. FileTypeOK'
    BY DEF Inv, TypeOK, FileTypeOK, Crash, CloseAll
  <1>2. TypeOK'
    BY <1>1, EmptyCursorFacts
    DEF Inv, TypeOK, Crash, LoopArgs, NoRelease, ReleaseType
  <1>3. GatherInv'
    BY DEF GatherInv, Crash, Gathering
  <1> QED
    BY <1>2, <1>3 DEF Inv

\* Every step keeps the invariant.
LEMMA InvStep == Inv /\ [Next]_vars => Inv'
  <1> SUFFICES ASSUME Inv, [Next]_vars PROVE Inv'
    OBVIOUS
  <1>1. CASE \E r \in Repos, c \in Commits : Push(r, c)
    BY <1>1, PushInv
  <1>2. CASE \E p \in Procs : CallStep(p) \/ ScanStep(p) \/ SaveStep(p)
    BY <1>2, CallInv, ScanInv, SaveInv
  <1>3. CASE Crash
    BY <1>3, CrashInv
  <1>4. CASE UNCHANGED vars
    BY <1>4 DEF Inv, TypeOK, FileTypeOK, GatherInv, vars
  <1> QED
    BY <1>1, <1>2, <1>3, <1>4 DEF Next

(***************************************************************************)
(* The state of the files, of every goroutine and of the history stays     *)
(* well formed, and what a goroutine gathered was read after its head SHA. *)
(***************************************************************************)
THEOREM TypeCorrect == Spec => [](TypeOK /\ GatherInv)
  <1>1. Spec => []Inv
    BY InvInit, InvStep, PTL DEF Spec
  <1> QED
    BY <1>1, PTL DEF Inv

-----------------------------------------------------------------------------
(***************************************************************************)
(* CursorSound.  A step copies a whole cursor from one place to another    *)
(* (a load, a write, a rename), edits the copy in memory together with the *)
(* history, or destroys a copy; it never makes one up.                     *)
(***************************************************************************)
Heads == published \cup pinned

\* A file after a step holds what some file or some process held before.
Copies == {path, tmp, Missing, Truncated, Garbled} \cup {cur[q] : q \in Procs}

\* Initially no copy claims anything.
LEMMA SoundInit == Init => CursorSound
  BY RecordsOnlyEmpty, ContentAssumption
  DEF Init, FileInit, CursorSound, Accounted

\* Truth is kept by steps that only move copies and add to the history.
LEMMA SoundCopies ==
    ASSUME CursorSound,
           Heads \subseteq Heads', handled \subseteq handled',
           path' \in Copies, tmp' \in Copies,
           \A q \in Procs : RecordsOnly(cur'[q], Heads', handled')
    PROVE  CursorSound'
  <1>1. ASSUME NEW c \in Copies, c \in Cursor
        PROVE  RecordsOnly(c, Heads', handled')
    <2>1. RecordsOnly(c, Heads, handled)
      BY <1>1, ContentAssumption DEF Copies, CursorSound, Accounted, Heads
    <2> QED
      BY <2>1, RecordsOnlyMono
  <1> QED
    BY <1>1 DEF CursorSound, Accounted, Heads

\* A loaded cursor is accounted for.
LEMMA LoadSound ==
    ASSUME FileTypeOK, CursorLoads, CursorSound
    PROVE  RecordsOnly(LoadCursor, Heads, handled)
  BY RecordsOnlyEmpty
  DEF FileTypeOK, CursorLoads, LoadCursor, CursorSound, Accounted, Heads

\* A step that leaves the files alone and changes at most p's own cursor.
LEMMA SoundLocal ==
    ASSUME CursorSound, Inv, NEW p \in Procs, NEW c,
           UNCHANGED <<path, tmp>>, cur' = [cur EXCEPT ![p] = c],
           Heads \subseteq Heads', handled \subseteq handled',
           RecordsOnly(c, Heads', handled')
    PROVE  CursorSound'
  <1>1. \A q \in Procs : cur'[q] = IF q = p THEN c ELSE cur[q]
    BY DEF Inv, TypeOK
  <1>2. \A q \in Procs : RecordsOnly(cur[q], Heads', handled')
    BY RecordsOnlyMono DEF CursorSound, Accounted, Heads
  <1>3. \A q \in Procs : RecordsOnly(cur'[q], Heads', handled')
    BY <1>1, <1>2
  <1> QED
    BY <1>3, SoundCopies DEF Copies

\* A step that changes no cursor in memory, and moves copies between files.
LEMMA SoundFiles ==
    ASSUME CursorSound, UNCHANGED cur,
           Heads \subseteq Heads', handled \subseteq handled',
           path' \in Copies, tmp' \in Copies
    PROVE  CursorSound'
  <1>1. \A q \in Procs : RecordsOnly(cur'[q], Heads', handled')
    BY RecordsOnlyMono DEF CursorSound, Accounted, Heads
  <1> QED
    BY <1>1, SoundCopies

\* A call returns, after moving copies between files.
LEMMA SoundReturn ==
    ASSUME CursorSound, Inv, NEW p \in Procs, Return(p),
           path' \in Copies, tmp' \in Copies,
           UNCHANGED <<published, pinned, handled>>
    PROVE  CursorSound'
  <1>1. \A q \in Procs : cur'[q] = IF q = p THEN EmptyCursor ELSE cur[q]
    BY DEF Inv, TypeOK, Return
  <1>2. \A q \in Procs : RecordsOnly(cur'[q], Heads', handled')
    BY <1>1, RecordsOnlyEmpty DEF CursorSound, Accounted, Heads
  <1> QED
    BY <1>2, SoundCopies DEF Heads

\* A write leaves copies of what was there or of what is written.
LEMMA WriteCopies ==
    ASSUME NEW p \in Procs, NEW ok \in BOOLEAN, WriteTmp(p, cur[p], ok)
    PROVE  path' \in Copies /\ tmp' \in Copies
  <1>1. /\ path' \in {path, cur[p], Garbled}
        /\ tmp' \in {tmp, cur[p], Garbled}
    BY WrittenFacts DEF WriteTmp
  <1> QED
    BY <1>1 DEF Copies

\* A call starts from a copy of the file, and an edit claims what it sets.
LEMMA SoundCall ==
    ASSUME CursorSound, Inv, NEW p \in Procs, CallStep(p)
    PROVE  CursorSound'
  <1>1. ASSUME NEW a \in PollArgs, BeginPoll(p, a) PROVE CursorSound'
    BY <1>1, LoadSound, SoundLocal
    DEF BeginPoll, fileVars, histVars, Heads, Inv, TypeOK
  <1>2. ASSUME NEW r \in Repos, ResetCursor(p, r) PROVE CursorSound'
    <2>1. RecordsOnly(WithoutEntry(LoadCursor, r), Heads, handled)
      BY <1>2, LoadSound, LoadCursorType, RecordsOnlyWithout DEF ResetCursor, Inv, TypeOK
    <2> QED
      BY <1>2, <2>1, SoundLocal DEF ResetCursor, fileVars, histVars, Heads
  <1>3. ASSUME NEW pin \in Pins, SetCursor(p, pin[1], pin[2]) PROVE CursorSound'
    <2>1. /\ pin[1] \in Repos
          /\ pin[2] \in Commits
          /\ <<pin[1], pin[2]>> \in Heads'
          /\ Heads \subseteq Heads'
          /\ handled' = handled
      BY <1>3, CallAssumption DEF SetCursor, Heads
    <2>2. /\ LoadCursor \in Cursor
          /\ RecordsOnly(LoadCursor, Heads', handled')
      BY <1>3, <2>1, LoadSound, LoadCursorType, RecordsOnlyMono DEF SetCursor, Inv, TypeOK
    <2>3. RecordsOnly(PinnedAt(LoadCursor, pin[1], pin[2]), Heads', handled')
      BY <2>1, <2>2, RecordsOnlyPinned
    <2> QED
      BY <1>3, <2>1, <2>3, SoundLocal DEF SetCursor, fileVars
  <1> QED
    BY <1>1, <1>2, <1>3 DEF CallStep

\* A scan records a head or a tag only after the fact.
LEMMA SoundScan ==
    ASSUME CursorSound, Inv, NEW p \in Procs, ScanStep(p)
    PROVE  CursorSound'
  <1>1. cur[p] \in Cursor /\ RecordsOnly(cur[p], Heads, handled)
    BY DEF Inv, TypeOK, CursorSound, Accounted, Heads
  <1>2. ASSUME UNCHANGED <<path, tmp, cur>>,
               Heads \subseteq Heads', handled \subseteq handled'
        PROVE  CursorSound'
    BY <1>2, SoundFiles DEF Copies
  <1>3. ASSUME NEW r \in Repos, NEW t \in Tags, BackstopHandles(p, r, t)
        PROVE  CursorSound'
    <2>1. /\ Heads' = Heads
          /\ handled \subseteq handled'
          /\ <<r, t>> \in handled'
          /\ UNCHANGED <<path, tmp>>
      BY <1>3 DEF BackstopHandles, NextRepo, fileVars, Heads
    <2>2. RecordsOnly(cur[p], Heads', handled')
      BY <1>1, <2>1, RecordsOnlyMono
    <2>3. RecordsOnly(RecordTag(cur[p], r, t), Heads', handled')
      BY <1>1, <2>1, <2>2, RecordsOnlyTag
    <2> QED
      BY <1>3, <2>1, <2>3, SoundLocal DEF BackstopHandles
  <1>4. CASE PublishCreate(p)
    <2>1. /\ rel[p].repo \in Repos
          /\ rel[p].headSHA \in Commits
      BY <1>4, RepoAssumption DEF PublishCreate, Inv, GatherInv, Gathering
    <2>2. /\ Heads \subseteq Heads'
          /\ handled' = handled
          /\ <<rel[p].repo, rel[p].headSHA>> \in Heads'
          /\ UNCHANGED <<path, tmp>>
      BY <1>4 DEF PublishCreate, DropRelease, fileVars, Heads, TaskID
    <2>3. RecordsOnly(cur[p], Heads', handled')
      BY <1>1, <2>2, RecordsOnlyMono
    <2>4. RecordsOnly(RecordHead(cur[p], rel[p].repo, rel[p].headSHA), Heads', handled')
      BY <1>1, <2>1, <2>2, <2>3, RecordsOnlyHead
    <2> QED
      BY <1>4, <2>2, <2>4, SoundLocal DEF PublishCreate
  <1>5. CASE DeferScan(p) \/ ResolveFails(p) \/ GatherRateLimited(p)
    BY <1>5, SoundReturn DEF DeferScan, ResolveFails, GatherRateLimited, fileVars, Copies
  <1>6. CASE \E r \in Repos : BackstopSilent(p, r)
    BY <1>2, <1>6 DEF BackstopSilent, NextRepo, fileVars, Heads
  <1>7. CASE PassGate(p) \/ ResolveRepos(p) \/ GetMasterSHA(p)
              \/ GetChangelogContent(p) \/ GetMaintainerConfig(p) \/ FinishScan(p) \/ CancelScan(p)
    BY <1>2, <1>7 DEF PassGate, ResolveRepos, GetMasterSHA, GetChangelogContent,
       GetMaintainerConfig, FinishScan, CancelScan, fileVars, histVars, Heads
  <1>8. CASE GatherDropped(p) \/ SkipRelease(p) \/ PublishFails(p)
    BY <1>2, <1>8 DEF GatherDropped, SkipRelease, PublishFails, DropRelease,
       fileVars, Heads
  <1> QED
    BY <1>3, <1>4, <1>5, <1>6, <1>7, <1>8 DEF ScanStep

\* A save only moves copies.
LEMMA SoundSave ==
    ASSUME CursorSound, Inv, NEW p \in Procs, SaveStep(p)
    PROVE  CursorSound'
  <1>1. CASE SaveOpens(p)
    BY <1>1, SoundFiles DEF SaveOpens, OpenTmp, Copies, histVars, Heads
  <1>2. CASE SaveWrites(p)
    BY <1>2, WriteCopies, SoundFiles DEF SaveWrites, histVars, Heads
  <1>3. CASE SaveRenames(p)
    BY <1>3, SoundReturn DEF SaveRenames, RenameTmp, Copies
  <1>4. CASE SaveOpenFails(p) \/ SaveRenameFails(p)
    BY <1>4, SoundReturn DEF SaveOpenFails, SaveRenameFails, fileVars, Copies
  <1>5. CASE SaveWriteFails(p)
    BY <1>5, WriteCopies, SoundReturn DEF SaveWriteFails
  <1> QED
    BY <1>1, <1>2, <1>3, <1>4, <1>5 DEF SaveStep

\* Every step keeps the cursor truthful.
LEMMA SoundStep == CursorSound /\ Inv /\ [Next]_vars => CursorSound'
  <1> SUFFICES ASSUME CursorSound, Inv, [Next]_vars PROVE CursorSound'
    OBVIOUS
  <1>1. CASE \E r \in Repos, c \in Commits : Push(r, c)
    BY <1>1, SoundFiles DEF Push, fileVars, procVars, Copies, Heads
  <1>2. CASE \E p \in Procs : CallStep(p) \/ ScanStep(p) \/ SaveStep(p)
    BY <1>2, SoundCall, SoundScan, SoundSave
  <1>3. CASE Crash
    <2>1. \A q \in Procs : RecordsOnly(cur'[q], Heads', handled')
      BY <1>3, RecordsOnlyEmpty DEF Crash
    <2> QED
      BY <1>3, <2>1, SoundCopies DEF Crash, CloseAll, Copies, Heads
  <1>4. CASE UNCHANGED vars
    BY <1>4, SoundFiles DEF vars, Copies, Heads
  <1> QED
    BY <1>1, <1>2, <1>3, <1>4 DEF Next

(***************************************************************************)
(* However many goroutines share the cursor file without a lock, however   *)
(* they interleave, fail and crash: no copy of the cursor ever records a   *)
(* head nobody published or set, or a tag the backstop did not handle.     *)
(***************************************************************************)
THEOREM CursorNeverLies == Spec => []CursorSound
  <1>1. Spec => []Inv
    BY InvInit, InvStep, PTL DEF Spec
  <1> QED
    BY <1>1, SoundInit, SoundStep, PTL DEF Spec

-----------------------------------------------------------------------------
(***************************************************************************)
(* The gates.  Only PublishCreate and PublishFails add a task, both for    *)
(* the release of their own process, after the filters let it pass.        *)
(***************************************************************************)
Publishes(p) ==
    /\ pc[p] = "filter"
    /\ ~CycleFilterSkips(p)
    /\ published' \subseteq published \cup {TaskID(rel[p])}

\* Only a process at its filter step that is not skipped publishes.
LEMMA OnlyFilteredPublished ==
    ASSUME Next
    PROVE  published' = published \/ \E p \in Procs : Publishes(p)
  <1>1. CASE \E r \in Repos, c \in Commits : Push(r, c)
    BY <1>1 DEF Push
  <1>2. ASSUME NEW p \in Procs, CallStep(p)
        PROVE  published' = published
    BY <1>2 DEF CallStep, BeginPoll, ResetCursor, SetCursor, histVars
  <1>3. ASSUME NEW p \in Procs, ScanStep(p)
        PROVE  published' = published \/ Publishes(p)
    <2>1. CASE PublishCreate(p) \/ PublishFails(p)
      BY <2>1 DEF PublishCreate, PublishFails, Publishes
    <2>2. CASE PassGate(p) \/ DeferScan(p) \/ ResolveRepos(p) \/ ResolveFails(p)
                \/ GetMasterSHA(p) \/ GetChangelogContent(p) \/ GetMaintainerConfig(p)
      BY <2>2 DEF PassGate, DeferScan, ResolveRepos, ResolveFails, GetMasterSHA, GetChangelogContent,
         GetMaintainerConfig, histVars
    <2>3. CASE GatherRateLimited(p) \/ GatherDropped(p) \/ SkipRelease(p)
                \/ FinishScan(p) \/ CancelScan(p)
      BY <2>3 DEF GatherRateLimited, GatherDropped, SkipRelease, FinishScan,
         CancelScan, histVars
    <2>4. CASE \/ \E r \in Repos : BackstopSilent(p, r)
               \/ \E r \in Repos, t \in Tags : BackstopHandles(p, r, t)
      BY <2>4 DEF BackstopSilent, BackstopHandles, NextRepo
    <2> QED
      BY <1>3, <2>1, <2>2, <2>3, <2>4 DEF ScanStep
  <1>4. ASSUME NEW p \in Procs, SaveStep(p)
        PROVE  published' = published
    BY <1>4 DEF SaveStep, SaveOpens, SaveWrites, SaveRenames, SaveOpenFails,
       SaveWriteFails, SaveRenameFails, histVars
  <1>5. CASE Crash
    BY <1>5 DEF Crash
  <1> QED
    BY <1>1, <1>2, <1>3, <1>4, <1>5 DEF Next

\* A step that publishes a task has passed the gates.
LEMMA GatedStep ==
    ASSUME Inv, Next, NEW task \in published' \ published
    PROVE  TaskGated(task)
  <1>1. PICK p \in Procs : Publishes(p)
    BY OnlyFilteredPublished
  <1>2. task = <<rel[p].repo, rel[p].headSHA>>
    BY <1>1 DEF Publishes, TaskID
  <1>3. /\ rel[p].repo \in Owned
        /\ rel[p].changelog \in window[p]
        /\ rel[p].config \in window[p]
    BY <1>1 DEF Publishes, Inv, GatherInv, Gathering
  <1>4. /\ rel[p].repo \in Allowlisted
        /\ rel[p].changelog \in Bulleted
        /\ rel[p].config \in OptedIn
    BY <1>1 DEF Publishes, CycleFilterSkips, RepoAllowlistSkips,
       EmptyUnreleasedSkips, AutoReleaseSkips
  <1> QED
    BY <1>2, <1>3, <1>4 DEF TaskGated

(***************************************************************************)
(* Every task is for a repo of this owner on the allowlist that had        *)
(* unreleased bullets and the opt-in at, or after, the moment its head SHA *)
(* was read.                                                               *)
(***************************************************************************)
THEOREM EveryTaskGated == Spec => TasksAreGated
  <1>1. Inv /\ [Next]_vars => [\A task \in published' \ published : TaskGated(task)]_vars
    BY GatedStep
  <1>2. Spec => []Inv
    BY InvInit, InvStep, PTL DEF Spec
  <1> QED
    BY <1>1, <1>2, PTL DEF Spec, TasksAreGated

\* Without scoped polls no process ever works on a repo taken from a scope.
LEMMA UnscopedStep ==
    ASSUME \A a \in PollArgs : a.scope = None
    PROVE  Inv /\ (\A p \in Procs : args[p].scope = None) /\ [Next]_vars
             => (\A p \in Procs : args[p].scope = None)'
  <1> SUFFICES ASSUME Inv, \A p \in Procs : args[p].scope = None, [Next]_vars
               PROVE  \A p \in Procs : args'[p].scope = None
    OBVIOUS
  <1>1. CASE \E p \in Procs, a \in PollArgs : BeginPoll(p, a)
    BY <1>1 DEF BeginPoll, Inv, TypeOK
  <1>2. CASE \E p \in Procs : Return(p)
    BY <1>2 DEF Return, LoopArgs, Inv, TypeOK
  <1>3. CASE UNCHANGED args
    BY <1>3
  <1>4. CASE Crash
    BY <1>4 DEF Crash, LoopArgs
  <1>5. ASSUME NEW p \in Procs, CallStep(p)
        PROVE  UNCHANGED args \/ \E a \in PollArgs : BeginPoll(p, a)
    BY <1>5 DEF CallStep, ResetCursor, SetCursor
  <1>6. ASSUME NEW p \in Procs, ScanStep(p)
        PROVE  UNCHANGED args \/ Return(p)
    BY <1>6 DEF ScanStep, PassGate, DeferScan, ResolveRepos, ResolveFails, BackstopSilent, BackstopHandles,
       NextRepo, GetMasterSHA, GetChangelogContent, GetMaintainerConfig,
       GatherRateLimited, GatherDropped, SkipRelease, PublishCreate, PublishFails,
       DropRelease, FinishScan, CancelScan
  <1>7. ASSUME NEW p \in Procs, SaveStep(p)
        PROVE  UNCHANGED args \/ Return(p)
    BY <1>7 DEF SaveStep, SaveOpens, SaveWrites, SaveRenames, SaveOpenFails,
       SaveWriteFails, SaveRenameFails
  <1>8. CASE UNCHANGED vars
    BY <1>3, <1>8 DEF vars
  <1>9. CASE \E r \in Repos, c \in Commits : Push(r, c)
    BY <1>3, <1>9 DEF Push, procVars
  <1> QED
    BY <1>1, <1>2, <1>3, <1>4, <1>5, <1>6, <1>7, <1>8, <1>9 DEF Next

(***************************************************************************)
(* Full scans carry the fork flag of ListRepos: if no poll is scoped to a  *)
(* repo, a fork is only ever released after it set allowFork.              *)
(***************************************************************************)
THEOREM UnscopedForksGated ==
    ASSUME \A a \in PollArgs : a.scope = None
    PROVE  Spec => ForksAreGated
  <1> DEFINE Unscoped == \A p \in Procs : args[p].scope = None
  <1>1. Spec => []Inv
    BY InvInit, InvStep, PTL DEF Spec
  <1>2. Init => Unscoped
    BY DEF Init, LoopArgs
  <1>3. Inv /\ Unscoped /\ [Next]_vars => Unscoped'
    BY UnscopedStep
  <1>4. Inv /\ Unscoped /\ [Next]_vars
          => [\A task \in published' \ published : ForkGated(task)]_vars
    <2> SUFFICES ASSUME Inv, Unscoped, Next, NEW task \in published' \ published
                 PROVE  ForkGated(task)
      OBVIOUS
    <2>1. PICK p \in Procs : Publishes(p)
      BY OnlyFilteredPublished
    <2>2. task = <<rel[p].repo, rel[p].headSHA>>
      BY <2>1 DEF Publishes, TaskID
    <2>3. rel[p].config \in window[p]
      BY <2>1 DEF Publishes, Inv, GatherInv, Gathering
    <2>4. rel[p].repo \in Forks => rel[p].config \in ForkAllowed
      BY <2>1 DEF Publishes, CycleFilterSkips, ForkSkips, RepoFork
    <2> QED
      BY <2>2, <2>3, <2>4 DEF ForkGated
  <1> HIDE DEF Unscoped
  <1> QED
    BY <1>1, <1>2, <1>3, <1>4, PTL DEF Spec, ForksAreGated

-----------------------------------------------------------------------------
(***************************************************************************)
(* One call at a time.  While the single process writes, path.tmp is the   *)
(* file it truncated itself; when it renames, path.tmp holds its cursor.   *)
(***************************************************************************)
SerialInv ==
    /\ CursorLoads
    /\ \A p \in Procs :
        /\ pc[p] = "write" => fd[p] = "tmp" /\ tmp = Truncated
        /\ pc[p] = "rename" => tmp = cur[p]

\* The invariant of the single saver holds initially.
LEMMA SerialInit == Init => SerialInv
  BY ContentAssumption DEF Init, FileInit, SerialInv, CursorLoads

\* Steps that leave the files alone and do not enter the write or the rename.
LEMMA SerialQuiet ==
    ASSUME SerialInv, Inv, NEW p \in Procs, \A q \in Procs : q = p,
           UNCHANGED path,
           pc'[p] \notin {"write", "rename"}
    PROVE  SerialInv'
  BY DEF SerialInv, CursorLoads

\* The steps of a save keep the invariant of the single saver.
LEMMA SerialSave ==
    ASSUME SerialInv, Inv, NEW p \in Procs, \A q \in Procs : q = p, SaveStep(p)
    PROVE  SerialInv'
  <1>1. CASE SaveOpens(p)
    BY <1>1 DEF SaveOpens, OpenTmp, Goto, SerialInv, CursorLoads, Inv, TypeOK, FileTypeOK
  <1>2. CASE SaveWrites(p)
    <2>1. fd[p] = "tmp" /\ tmp = Truncated
      BY <1>2 DEF SaveWrites, SerialInv
    <2>2. tmp' = cur[p] /\ path' = path
      BY <1>2, <2>1 DEF SaveWrites, WriteTmp, Written
    <2> QED
      BY <1>2, <2>2 DEF SaveWrites, Goto, SerialInv, CursorLoads, Inv, TypeOK
  <1>3. CASE SaveRenames(p)
    <2>1. path' = cur[p] /\ cur[p] \in Cursor
      BY <1>3 DEF SaveRenames, RenameTmp, SerialInv, Inv, TypeOK
    <2>2. path' \notin Broken
      BY <2>1, ContentAssumption DEF Broken
    <2>3. pc'[p] = "idle"
      BY <1>3 DEF SaveRenames, Return, Goto, Inv, TypeOK
    <2> QED
      BY <2>2, <2>3 DEF SerialInv, CursorLoads
  <1>4. CASE SaveOpenFails(p) \/ SaveRenameFails(p)
    <2>1. path' = path /\ pc'[p] = "idle"
      BY <1>4 DEF SaveOpenFails, SaveRenameFails, fileVars, Return, Goto, Inv, TypeOK
    <2> QED
      BY <2>1, SerialQuiet
  <1>5. CASE SaveWriteFails(p)
    <2>1. path' = path
      BY <1>5 DEF SaveWriteFails, WriteTmp, SerialInv
    <2>2. pc'[p] = "idle"
      BY <1>5 DEF SaveWriteFails, Return, Goto, Inv, TypeOK
    <2> QED
      BY <2>1, <2>2, SerialQuiet
  <1> QED
    BY <1>1, <1>2, <1>3, <1>4, <1>5 DEF SaveStep

\* The steps outside a save do not touch the files.
LEMMA SerialOther ==
    ASSUME SerialInv, Inv, NEW p \in Procs, \A q \in Procs : q = p,
           CallStep(p) \/ ScanStep(p)
    PROVE  SerialInv'
  <1>1. CASE CallStep(p)
    <2>1. path' = path /\ pc'[p] \in {"gate", "resolve", "open"}
      BY <1>1 DEF CallStep, BeginPoll, ResetCursor, SetCursor, Goto, fileVars, Inv, TypeOK
    <2> QED
      BY <2>1, SerialQuiet
  <1>2. CASE ScanStep(p)
    <2>1. /\ path' = path
          /\ pc'[p] \in {"idle", "resolve", "next", "head", "changelog", "config",
                        "filter", "open"}
      <3>1. CASE PassGate(p) \/ DeferScan(p) \/ ResolveRepos(p) \/ ResolveFails(p)
                  \/ GetMasterSHA(p) \/ GetChangelogContent(p) \/ GetMaintainerConfig(p)
        BY <3>1 DEF PassGate, DeferScan, ResolveRepos, ResolveFails, GetMasterSHA, GetChangelogContent,
           GetMaintainerConfig, Return, Goto, fileVars, Inv, TypeOK
      <3>2. CASE GatherRateLimited(p) \/ GatherDropped(p) \/ SkipRelease(p)
                  \/ FinishScan(p) \/ CancelScan(p)
        BY <3>2 DEF GatherRateLimited, GatherDropped, SkipRelease, FinishScan,
           CancelScan, DropRelease, Return, Goto, fileVars, Inv, TypeOK
      <3>3. CASE PublishCreate(p) \/ PublishFails(p)
        BY <3>3 DEF PublishCreate, PublishFails, DropRelease, Goto, fileVars, Inv, TypeOK
      <3>4. CASE \/ \E r \in Repos : BackstopSilent(p, r)
                 \/ \E r \in Repos, t \in Tags : BackstopHandles(p, r, t)
        BY <3>4 DEF BackstopSilent, BackstopHandles, NextRepo, Goto, fileVars, Inv, TypeOK
      <3> QED
        BY <1>2, <3>1, <3>2, <3>3, <3>4 DEF ScanStep
    <2> QED
      BY <2>1, SerialQuiet
  <1> QED
    BY <1>1, <1>2

\* Every step keeps the invariant of the single saver.
LEMMA SerialStep ==
    ASSUME \A p, q \in Procs : p = q
    PROVE  SerialInv /\ Inv /\ [Next]_vars => SerialInv'
  <1> SUFFICES ASSUME SerialInv, Inv, [Next]_vars PROVE SerialInv'
    OBVIOUS
  <1>1. CASE \E r \in Repos, c \in Commits : Push(r, c)
    BY <1>1 DEF Push, fileVars, procVars, SerialInv, CursorLoads
  <1>2. CASE \E p \in Procs : CallStep(p) \/ ScanStep(p) \/ SaveStep(p)
    BY <1>2, SerialSave, SerialOther
  <1>3. CASE Crash
    BY <1>3 DEF Crash, CloseAll, SerialInv, CursorLoads
  <1>4. CASE UNCHANGED vars
    BY <1>4 DEF vars, SerialInv, CursorLoads
  <1> QED
    BY <1>1, <1>2, <1>3, <1>4 DEF Next

(***************************************************************************)
(* If calls never overlap, the cursor file can be loaded at every moment,  *)
(* through failed writes and crashes: temp file and rename do their job.   *)
(***************************************************************************)
THEOREM SerialFileIntact ==
    ASSUME \A p, q \in Procs : p = q
    PROVE  Spec => []CursorIntact
  <1>1. Spec => []Inv
    BY InvInit, InvStep, PTL DEF Spec
  <1>2. SerialInv => CursorIntact
    BY DEF SerialInv, CursorIntact
  <1>3. SerialInv /\ Inv /\ [Next]_vars => SerialInv'
    BY SerialStep
  <1> QED
    BY <1>1, <1>2, <1>3, SerialInit, PTL DEF Spec
=============================================================================
