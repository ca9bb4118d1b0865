---------------------------- MODULE LedgerProofs ----------------------------
(***************************************************************************)
(* With one call at a time, ReleaseWatcher implements CursorLedger.  The   *)
(* mapping: the ledger is what LoadCursor would return, the draft is the   *)
(* cursor of the busy process.  Only the rename commits; opening and       *)
(* writing path.tmp are stuttering steps of the ledger.                    *)
(***************************************************************************)
EXTENDS ReleaseWatcherProofs

\* With one process the draft is that process's cursor.
LEMMA DraftIs ==
    ASSUME NEW p \in Procs, \A q \in Procs : q = p
    PROVE  /\ Draft = IF pc[p] = "idle" THEN None ELSE cur[p]
           /\ Draft' = IF pc'[p] = "idle" THEN None ELSE cur'[p]
           /\ Forced <=> args[p].force
           /\ Forced' <=> args'[p].force
  <1>1. /\ pc[p] = "idle" => Busy = {}
        /\ pc[p] # "idle" => Busy = {p}
        /\ pc'[p] = "idle" => Busy' = {}
        /\ pc'[p] # "idle" => Busy' = {p}
    BY DEF Busy
  <1>2. (CHOOSE q \in {p} : TRUE) = p
    OBVIOUS
  <1>3. Draft = IF pc[p] = "idle" THEN None ELSE cur[p]
    BY <1>1, <1>2 DEF Draft
  <1>4. Draft' = IF pc'[p] = "idle" THEN None ELSE cur'[p]
    BY <1>1, <1>2 DEF Draft
  <1>5. (Forced <=> args[p].force) /\ (Forced' <=> args'[p].force)
    BY DEF Forced
  <1> QED
    BY <1>3, <1>4, <1>5

\* The ledger edits cursors the way the watcher does: both use module Cursors.
LEMMA LedgerOperators ==
    /\ Ledger!EmptyCursor = EmptyCursor
    /\ \A c, r : /\ Ledger!LastSeenSHA(c, r) = LastSeenSHA(c, r)
                 /\ Ledger!LastBuiltTag(c, r) = LastBuiltTag(c, r)
                 /\ Ledger!WithoutEntry(c, r) = WithoutEntry(c, r)
    /\ \A c, r, x : /\ Ledger!RecordHead(c, r, x) = RecordHead(c, r, x)
                    /\ Ledger!RecordTag(c, r, x) = RecordTag(c, r, x)
                    /\ Ledger!PinnedAt(c, r, x) = PinnedAt(c, r, x)
  BY DEF Ledger!EmptyCursor, Ledger!LastSeenSHA, Ledger!LastBuiltTag,
         Ledger!WithoutEntry, Ledger!RecordHead, Ledger!RecordTag,
         Ledger!PinnedAt, Ledger!EntryOf, Ledger!FreshState,
         EmptyCursor, LastSeenSHA, LastBuiltTag, WithoutEntry, RecordHead,
         RecordTag, PinnedAt, EntryOf, FreshState

\* The initial states map to the empty ledger.
LEMMA LedgerInit == Init => Ledger!Init
  <1> SUFFICES ASSUME Init PROVE Ledger!Init
    OBVIOUS
  <1>1. LoadCursor = EmptyCursor
    BY DEF Init, FileInit, LoadCursor
  <1>2. Draft = None
    BY DEF Init, Draft, Busy
  <1>3. Forced = FALSE
    BY DEF Init, Forced, LoopArgs
  <1> QED
    BY <1>1, <1>2, <1>3, LedgerOperators DEF Init, Ledger!Init

\* A call returns: its draft became the ledger, or is forgotten.
LEMMA LedgerClose ==
    ASSUME Inv, NEW p \in Procs, \A q \in Procs : q = p,
           pc[p] # "idle", Return(p), UNCHANGED published,
           LoadCursor' \in {LoadCursor, cur[p]}
    PROVE  Ledger!Close
  <1>1. Draft = cur[p] /\ Draft # None
    BY DraftIs, NoneAssumption DEF Inv, TypeOK
  <1>2. pc'[p] = "idle" /\ args'[p] = LoopArgs
    BY DEF Return, Goto, Inv, TypeOK
  <1>3. Draft' = None
    BY <1>2, DraftIs
  <1>4. Forced' = FALSE
    BY <1>2, DraftIs DEF LoopArgs, Forced
  <1> QED
    BY <1>1, <1>3, <1>4 DEF Ledger!Close

\* A step inside a call that the ledger does not see.
LEMMA LedgerStutter ==
    ASSUME NEW p \in Procs, \A q \in Procs : q = p,
           pc[p] # "idle", pc'[p] # "idle",
           UNCHANGED <<cur, args, published>>, LoadCursor' = LoadCursor
    PROVE  UNCHANGED Ledger!ledgerVars
  <1>1. Draft' = Draft
    BY DraftIs
  <1>2. Forced' = Forced
    BY DEF Forced
  <1> QED
    BY <1>1, <1>2 DEF Ledger!ledgerVars

\* A call starts a draft: Begin, or an Edit of one entry.
LEMMA LedgerCall ==
    ASSUME Inv, NEW p \in Procs, \A q \in Procs : q = p, CallStep(p)
    PROVE  Ledger!Next
  <1>1. ASSUME NEW a \in PollArgs, BeginPoll(p, a) PROVE Ledger!Begin
    <2>1. /\ pc[p] = "idle"
          /\ pc'[p] \in {"gate", "resolve"}
          /\ cur'[p] = LoadCursor
          /\ LoadCursor' = LoadCursor
          /\ published' = published
      BY <1>1 DEF BeginPoll, Goto, fileVars, histVars, LoadCursor, Inv, TypeOK
    <2>2. Draft = None /\ Draft' = LoadCursor
      BY <2>1, DraftIs
    <2>3. Forced' \in BOOLEAN
      BY DEF Forced
    <2> QED
      BY <2>1, <2>2, <2>3 DEF Ledger!Begin
  <1>2. ASSUME NEW edited, pc[p] = "idle", CursorLoads, Goto(p, "open"),
               cur' = [cur EXCEPT ![p] = edited],
               UNCHANGED <<path, args, published>>
        PROVE  Ledger!Edit(edited)
    <2>1. /\ pc'[p] = "open"
          /\ cur'[p] = edited
          /\ LoadCursor' = LoadCursor
      BY <1>2 DEF Goto, LoadCursor, Inv, TypeOK
    <2>2. Draft = None /\ Draft' = edited
      BY <1>2, <2>1, DraftIs
    <2>3. Forced' = Forced
      BY <1>2 DEF Forced
    <2> QED
      BY <1>2, <2>1, <2>2, <2>3 DEF Ledger!Edit
  <1>3. ASSUME NEW r \in Repos, ResetCursor(p, r)
        PROVE  Ledger!Edit(WithoutEntry(LoadCursor, r))
    BY <1>2, <1>3 DEF ResetCursor, fileVars, histVars
  <1>4. ASSUME NEW pin \in Pins, SetCursor(p, pin[1], pin[2])
        PROVE  Ledger!Edit(PinnedAt(LoadCursor, pin[1], pin[2]))
    BY <1>2, <1>4 DEF SetCursor, fileVars
  <1> QED
    BY <1>1, <1>3, <1>4, LedgerOperators DEF CallStep, Ledger!Next

\* The steps of a scan are Publish, Build, Close or no step at all.
LEMMA LedgerScan ==
    ASSUME Inv, NEW p \in Procs, \A q \in Procs : q = p, ScanStep(p)
    PROVE  Ledger!Next \/ UNCHANGED Ledger!ledgerVars
  <1>1. CASE DeferScan(p) \/ ResolveFails(p) \/ GatherRateLimited(p)
    <2>1. /\ pc[p] # "idle"
          /\ Return(p)
          /\ published' = published
          /\ LoadCursor' = LoadCursor
      BY <1>1 DEF DeferScan, ResolveFails, GatherRateLimited, fileVars, LoadCursor
    <2> QED
      BY <2>1, LedgerClose DEF Ledger!Next
  <1>2. CASE PassGate(p) \/ ResolveRepos(p) \/ GetMasterSHA(p)
              \/ GetChangelogContent(p) \/ GetMaintainerConfig(p) \/ FinishScan(p) \/ CancelScan(p)
    <2>1. /\ pc[p] # "idle"
          /\ pc'[p] # "idle"
          /\ UNCHANGED <<cur, args, published>>
          /\ LoadCursor' = LoadCursor
      BY <1>2 DEF PassGate, ResolveRepos, GetMasterSHA, GetChangelogContent,
         GetMaintainerConfig, FinishScan, CancelScan, Goto, fileVars, histVars,
         LoadCursor, Inv, TypeOK
    <2> QED
      BY <2>1, LedgerStutter
  <1>3. CASE \/ GatherDropped(p)
             \/ SkipRelease(p)
             \/ \E r \in Repos : BackstopSilent(p, r)
    <2>1. /\ pc[p] # "idle"
          /\ pc'[p] # "idle"
          /\ UNCHANGED <<cur, args, published>>
          /\ LoadCursor' = LoadCursor
      BY <1>3 DEF GatherDropped, SkipRelease, DropRelease, BackstopSilent, NextRepo,
         Goto, fileVars, LoadCursor, Inv, TypeOK
    <2> QED
      BY <2>1, LedgerStutter
  <1>4. ASSUME NEW r \in Repos, NEW t \in Tags, BackstopHandles(p, r, t)
        PROVE  Ledger!Build(r, t)
    <2>1. /\ pc[p] = "next"
          /\ pc'[p] = "head"
          /\ cur'[p] = RecordTag(cur[p], r, t)
          /\ t # LastBuiltTag(cur[p], r)
          /\ UNCHANGED <<args, published>>
          /\ LoadCursor' = LoadCursor
      BY <1>4 DEF BackstopHandles, NextRepo, Goto, fileVars, LoadCursor, Inv, TypeOK
    <2>2. /\ Draft = cur[p]
          /\ Draft' = RecordTag(cur[p], r, t)
          /\ Draft # None
      BY <2>1, DraftIs, NoneAssumption DEF Inv, TypeOK
    <2>3. Forced' = Forced
      BY <2>1 DEF Forced
    <2> QED
      BY <2>1, <2>2, <2>3, LedgerOperators DEF Ledger!Build
  <1>5. CASE PublishCreate(p) \/ PublishFails(p)
    <2> DEFINE r == rel[p].repo
               sha == rel[p].headSHA
    <2>1. r \in Repos /\ sha \in Commits
      BY <1>5, RepoAssumption DEF PublishCreate, PublishFails, Inv, GatherInv, Gathering
    <2>2. /\ pc[p] = "filter"
          /\ pc'[p] = "next"
          /\ ~CycleFilterSkips(p)
          /\ UNCHANGED args
          /\ LoadCursor' = LoadCursor
      BY <1>5 DEF PublishCreate, PublishFails, DropRelease, Goto, fileVars,
         LoadCursor, Inv, TypeOK
    <2>3. /\ cur'[p] \in {cur[p], RecordHead(cur[p], r, sha)}
          /\ published' \in {published, published \cup {<<r, sha>>}}
          /\ published' = published => cur'[p] = cur[p] \/ <<r, sha>> \in published
      BY <1>5 DEF PublishCreate, PublishFails, TaskID, Inv, TypeOK
    <2>4. /\ Draft = cur[p]
          /\ Draft' = cur'[p]
          /\ Draft # None
      BY <2>2, DraftIs, NoneAssumption DEF Inv, TypeOK
    <2>5. Forced' = Forced
      BY <2>2 DEF Forced
    <2>6. ~Forced => LastSeenSHA(cur[p], r) # sha
      BY <2>2, DraftIs DEF CycleFilterSkips, SHAUnchangedSkips
    <2> HIDE DEF r, sha
    <2>7. CASE published' = published \cup {<<r, sha>>}
      <3>1. Ledger!Publish(r, sha)
        BY <2>2, <2>3, <2>4, <2>5, <2>6, <2>7, LedgerOperators DEF Ledger!Publish
      <3> QED
        BY <2>1, <3>1 DEF Ledger!Next
    <2>8. CASE published' = published /\ cur'[p] = cur[p]
      BY <2>2, <2>4, <2>5, <2>8 DEF Ledger!ledgerVars
    <2> QED
      BY <2>3, <2>7, <2>8
  <1> QED
    BY <1>1, <1>2, <1>3, <1>4, <1>5 DEF ScanStep, Ledger!Next

\* Only the rename changes the ledger; a failed save forgets the draft.
LEMMA LedgerSave ==
    ASSUME Inv, SerialInv, NEW p \in Procs, \A q \in Procs : q = p, SaveStep(p)
    PROVE  Ledger!Next \/ UNCHANGED Ledger!ledgerVars
  <1>1. CASE SaveOpens(p) \/ SaveWrites(p)
    <2>1. path' = path
      BY <1>1 DEF SaveOpens, OpenTmp, SaveWrites, WriteTmp, SerialInv
    <2>2. /\ pc[p] # "idle"
          /\ pc'[p] # "idle"
          /\ UNCHANGED <<cur, args, published>>
          /\ LoadCursor' = LoadCursor
      BY <1>1, <2>1 DEF SaveOpens, SaveWrites, Goto, histVars, LoadCursor, Inv, TypeOK
    <2> QED
      BY <2>2, LedgerStutter
  <1>2. CASE SaveRenames(p)
    <2>1. path' = cur[p] /\ cur[p] # Missing
      BY <1>2, ContentAssumption DEF SaveRenames, RenameTmp, SerialInv, Inv, TypeOK
    <2>2. /\ pc[p] # "idle"
          /\ Return(p)
          /\ published' = published
          /\ LoadCursor' = cur[p]
      BY <1>2, <2>1 DEF SaveRenames, LoadCursor
    <2> QED
      BY <2>2, LedgerClose DEF Ledger!Next
  <1>3. CASE SaveOpenFails(p) \/ SaveRenameFails(p) \/ SaveWriteFails(p)
    <2>1. path' = path
      BY <1>3 DEF SaveOpenFails, SaveRenameFails, SaveWriteFails, WriteTmp,
         fileVars, SerialInv
    <2>2. /\ pc[p] # "idle"
          /\ Return(p)
          /\ published' = published
          /\ LoadCursor' = LoadCursor
      BY <1>3, <2>1 DEF SaveOpenFails, SaveRenameFails, SaveWriteFails, LoadCursor
    <2> QED
      BY <2>2, LedgerClose DEF Ledger!Next
  <1> QED
    BY <1>1, <1>2, <1>3 DEF SaveStep

\* A crash forgets the draft, whatever is left in path.tmp.
LEMMA LedgerCrash ==
    ASSUME Inv, Crash, \A p, q \in Procs : p = q
    PROVE  Ledger!Next
  <1>1. PICK p \in Procs : pc[p] # "idle"
    BY DEF Crash
  <1>2. \A q \in Procs : q = p
    OBVIOUS
  <1>3. Draft = cur[p] /\ Draft # None
    BY <1>1, <1>2, DraftIs, NoneAssumption DEF Inv, TypeOK
  <1>4. Draft' = None
    BY <1>2, DraftIs DEF Crash
  <1>5. Forced' = FALSE
    BY DEF Crash, Forced, LoopArgs
  <1>6. LoadCursor' = LoadCursor /\ published' = published
    BY DEF Crash, CloseAll, LoadCursor
  <1> QED
    BY <1>3, <1>4, <1>5, <1>6 DEF Ledger!Close, Ledger!Next

\* Every step of the serial watcher is a step of the ledger or none.
LEMMA LedgerStep ==
    ASSUME \A p, q \in Procs : p = q
    PROVE  Inv /\ SerialInv /\ [Next]_vars => [Ledger!Next]_Ledger!ledgerVars
  <1> SUFFICES ASSUME Inv, SerialInv, [Next]_vars
               PROVE  Ledger!Next \/ UNCHANGED Ledger!ledgerVars
    OBVIOUS
  <1>1. CASE \E r \in Repos, c \in Commits : Push(r, c)
    BY <1>1 DEF Push, fileVars, procVars, Ledger!ledgerVars, LoadCursor, Draft,
       Busy, Forced
  <1>2. ASSUME NEW p \in Procs, CallStep(p) \/ ScanStep(p) \/ SaveStep(p)
        PROVE  Ledger!Next \/ UNCHANGED Ledger!ledgerVars
    <2>1. \A q \in Procs : q = p
      OBVIOUS
    <2> QED
      BY <1>2, <2>1, LedgerCall, LedgerScan, LedgerSave
  <1>3. CASE Crash
    BY <1>3, LedgerCrash
  <1>4. CASE UNCHANGED vars
    BY <1>4 DEF vars, Ledger!ledgerVars, LoadCursor, Draft, Busy, Forced
  <1> QED
    BY <1>1, <1>2, <1>3, <1>4 DEF Next

(***************************************************************************)
(* If calls never overlap, load / edit / write / rename behaves as an      *)
(* atomic transaction on the ledger, whatever fails or crashes in between. *)
(***************************************************************************)
THEOREM SerialLedger ==
    ASSUME \A p, q \in Procs : p = q
    PROVE  Spec => ImplementsLedger
  <1>1. Spec => []Inv
    BY InvInit, InvStep, PTL DEF Spec
  <1>2. SerialInv /\ Inv /\ [Next]_vars => SerialInv'
    BY SerialStep
  <1>3. Spec => []SerialInv
    BY <1>1, <1>2, SerialInit, PTL DEF Spec
  <1>4. Inv /\ SerialInv /\ [Next]_vars => [Ledger!Next]_Ledger!ledgerVars
    BY LedgerStep
  <1> QED
    BY <1>1, <1>3, <1>4, LedgerInit, PTL DEF Spec, ImplementsLedger, Ledger!Spec
=============================================================================
