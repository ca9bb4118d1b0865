--------------------------- MODULE ReleaseWatcher ---------------------------
(***************************************************************************)
(* The release watcher of pkg/watcher.go: poll cycles over the repos of    *)
(* one owner, the task-creation filters of pkg/filter, the publication of  *)
(* CreateTaskCommands, and the cursor that keeps a head from being         *)
(* published twice; and the /resetcursor and /setcursor handlers of        *)
(* pkg/cursor_handler.go, which edit the same cursor file.                 *)
(*                                                                         *)
(* A process is a goroutine that runs one of these at a time.  In the pod  *)
(* they are the poll loop, the command consumer and the HTTP handlers;     *)
(* nothing excludes one while another is in the middle of its cycle.       *)
(*                                                                         *)
(* A commit determines the files of the repo, so CHANGELOG.md and          *)
(* .maintainer.yaml are abstracted to the sets of commits whose copy has   *)
(* what the filters ask for.  Each file is read by a request of its own,   *)
(* at the head the default branch has by then.                             *)
(***************************************************************************)
EXTENDS CursorFile

CONSTANTS
    Pollers,      \* the goroutines that call Poll (poll loop, command consumer)
    Operators,    \* the goroutines that serve /resetcursor and /setcursor
    Owned,        \* the repos of the watcher's owner
    Archived,     \* the repos GitHub reports as archived
    Allowlisted,  \* the repos REPO_ALLOWLIST lets through
    Forks,        \* the repos GitHub reports as forks
    Bulleted,     \* commits whose CHANGELOG has unreleased bullets
    OptedIn,      \* commits whose .maintainer.yaml has autoRelease: true
    ForkAllowed,  \* commits whose .maintainer.yaml has allowFork: true
    PollArgs,     \* the [force, scope] arguments Poll may be called with
    Pins          \* <<repo, sha>> pairs an operator may /setcursor to

ASSUME RepoAssumption ==
    /\ Owned \subseteq Repos
    /\ Archived \subseteq Repos
    /\ Allowlisted \subseteq Repos
    /\ Forks \subseteq Repos

ASSUME CommitAssumption ==
    /\ Bulleted \subseteq Commits
    /\ OptedIn \subseteq Commits
    /\ ForkAllowed \subseteq Commits

ASSUME CallAssumption ==
    /\ PollArgs \subseteq [force : BOOLEAN, scope : Repos \cup {None}]
    /\ Pins \subseteq Repos \X Commits
    /\ Pollers \cup Operators \subseteq Procs

VARIABLES
    head,       \* head[r]: the commit the default branch of r points to
    pc,         \* pc[p]: the step process p is at
    cur,        \* cur[p]: the *Cursor p holds in memory
    args,       \* args[p]: the arguments of p's Poll
    todo,       \* todo[p]: the repos p's cycle has still to process
    rel,        \* rel[p]: the Release p is gathering
    \* history variables, which no guard reads
    published,  \* <<repo, sha>> of every CreateTaskCommand on the topic
    pinned,     \* <<repo, sha>> of every /setcursor begun
    handled,    \* <<repo, tag>> the tag backstop returned without an error
    window      \* window[p]: the heads of rel[p].repo since p read its head

procVars == <<pc, cur, args, todo, rel>>
histVars == <<published, pinned, handled, window>>
vars == <<path, tmp, fd, head, pc, cur, args, todo, rel,
          published, pinned, handled, window>>

\* The arguments of the poll loop, and of a process that is not polling.
LoopArgs == [force |-> FALSE, scope |-> None]
NoRelease == [repo |-> None, headSHA |-> None,
              changelog |-> None, config |-> None]

Gathering == {"head", "changelog", "config", "filter"}
Saving == {"open", "write", "rename"}

ReleaseType == [repo : Repos \cup {None}, headSHA : Commits \cup {None},
                changelog : Commits \cup {None}, config : Commits \cup {None}]

(***************************************************************************)
(* Types.                                                                  *)
(***************************************************************************)
TypeOK ==
    /\ FileTypeOK
    /\ head \in [Repos -> Commits]
    /\ pc \in [Procs -> {"idle", "gate", "resolve", "next"} \cup Gathering \cup Saving]
    /\ cur \in [Procs -> Cursor]
    /\ args \in [Procs -> [force : BOOLEAN, scope : Repos \cup {None}]]
    /\ todo \in [Procs -> SUBSET Repos]
    /\ rel \in [Procs -> ReleaseType]
    /\ published \subseteq Repos \X Commits
    /\ pinned \subseteq Repos \X Commits
    /\ handled \subseteq Repos \X Tags
    /\ window \in [Procs -> SUBSET Commits]

Init ==
    /\ FileInit
    /\ head \in [Repos -> Commits]
    /\ pc = [p \in Procs |-> "idle"]
    /\ cur = [p \in Procs |-> EmptyCursor]
    /\ args = [p \in Procs |-> LoopArgs]
    /\ todo = [p \in Procs |-> {}]
    /\ rel = [p \in Procs |-> NoRelease]
    /\ published = {}
    /\ pinned = {}
    /\ handled = {}
    /\ window = [p \in Procs |-> {}]

Goto(p, step) == pc' = [pc EXCEPT ![p] = step]

\* p's call returns; its locals are gone.
Return(p) ==
    /\ Goto(p, "idle")
    /\ cur' = [cur EXCEPT ![p] = EmptyCursor]
    /\ args' = [args EXCEPT ![p] = LoopArgs]
    /\ todo' = [todo EXCEPT ![p] = {}]
    /\ rel' = [rel EXCEPT ![p] = NoRelease]
    /\ window' = [window EXCEPT ![p] = {}]

-----------------------------------------------------------------------------
(***************************************************************************)
(* GitHub: somebody pushes to the default branch of r (force pushes back   *)
(* to an older commit included).                                           *)
(***************************************************************************)
Push(r, c) ==
    /\ c # head[r]
    /\ head' = [head EXCEPT ![r] = c]
    /\ window' = [p \in Procs |->
                    IF rel[p].repo = r /\ rel[p].headSHA # None
                    THEN window[p] \cup {c} ELSE window[p]]
    /\ UNCHANGED <<fileVars, procVars, published, pinned, handled>>

-----------------------------------------------------------------------------
(***************************************************************************)
(* Poll(ctx, skipSHAUnchanged, scope): the cursor is loaded first; on a    *)
(* corrupt file Poll returns an error and changes nothing.  Only a full    *)
(* scan comes to the quota gate.                                           *)
(***************************************************************************)
BeginPoll(p, a) ==
    /\ pc[p] = "idle"
    /\ CursorLoads
    /\ cur' = [cur EXCEPT ![p] = LoadCursor]
    /\ args' = [args EXCEPT ![p] = a]
    /\ Goto(p, IF a.scope = None THEN "gate" ELSE "resolve")
    /\ UNCHANGED <<fileVars, head, todo, rel, histVars>>

(***************************************************************************)
(* The quota gate, which module QuotaGate models: the full scan goes on,   *)
(* or it is deferred and the cycle ends without a save.                    *)
(***************************************************************************)
PassGate(p) ==
    /\ pc[p] = "gate"
    /\ Goto(p, "resolve")
    /\ UNCHANGED <<fileVars, head, cur, args, todo, rel, histVars>>

DeferScan(p) ==
    /\ pc[p] = "gate"
    /\ Return(p)
    /\ UNCHANGED <<fileVars, head, published, pinned, handled>>

\* Mutant of CycleRepos: the empty scope is taken for a repo.
CycleReposScopeOnly(scope) == {scope}

\* ListRepos drops archived repos; scopeRepo only looks at the owner.
CycleRepos(scope) == IF scope = None THEN Owned \ Archived ELSE {scope}

(***************************************************************************)
(* resolveRepos succeeds; a scope outside the owner's repos is refused.    *)
(***************************************************************************)
ResolveRepos(p) ==
    /\ pc[p] = "resolve"
    /\ args[p].scope \in Owned \cup {None}
    /\ todo' = [todo EXCEPT ![p] = CycleRepos(args[p].scope)]
    /\ Goto(p, "next")
    /\ UNCHANGED <<fileVars, head, cur, args, rel, histVars>>

(***************************************************************************)
(* The cycle ends before any repo is scanned and without a save: ListRepos *)
(* fails, or the scope is foreign.                                         *)
(***************************************************************************)
ResolveFails(p) ==
    /\ pc[p] = "resolve"
    /\ args[p].scope \notin Owned
    /\ Return(p)
    /\ UNCHANGED <<fileVars, head, published, pinned, handled>>

(***************************************************************************)
(* processRepos takes the next repo and runs the tag backstop on it.  The  *)
(* backstop never returns the tag it was given; an error or "nothing new"  *)
(* leaves the cursor alone, without creating an entry.                     *)
(***************************************************************************)
NextRepo(p, r) ==
    /\ pc[p] = "next"
    /\ r \in todo[p]
    /\ todo' = [todo EXCEPT ![p] = @ \ {r}]
    /\ rel' = [rel EXCEPT ![p] = [NoRelease EXCEPT !.repo = r]]
    /\ Goto(p, "head")
    /\ UNCHANGED <<fileVars, head, args, published, pinned, window>>

\* Mutant of BackstopSilent: the tag is recorded although the dispatch failed.
BackstopRecordsError(p, r) ==
    /\ NextRepo(p, r)
    /\ \E t \in Tags : cur' = [cur EXCEPT ![p] = RecordTag(cur[p], r, t)]
    /\ UNCHANGED handled

BackstopSilent(p, r) ==
    /\ NextRepo(p, r)
    /\ UNCHANGED <<cur, handled>>

BackstopHandles(p, r, t) ==
    /\ NextRepo(p, r)
    /\ t # LastBuiltTag(cur[p], r)
    /\ handled' = handled \cup {<<r, t>>}
    /\ cur' = [cur EXCEPT ![p] = RecordTag(cur[p], r, t)]

(***************************************************************************)
(* gatherRelease: three reads, in this order, each at the current head.    *)
(***************************************************************************)
GetMasterSHA(p) ==
    /\ pc[p] = "head"
    /\ rel' = [rel EXCEPT ![p].headSHA = head[rel[p].repo]]
    /\ window' = [window EXCEPT ![p] = {head[rel[p].repo]}]
    /\ Goto(p, "changelog")
    /\ UNCHANGED <<fileVars, head, cur, args, todo, published, pinned, handled>>

GetChangelogContent(p) ==
    /\ pc[p] = "changelog"
    /\ rel' = [rel EXCEPT ![p].changelog = head[rel[p].repo]]
    /\ Goto(p, "config")
    /\ UNCHANGED <<fileVars, head, cur, args, todo, histVars>>

GetMaintainerConfig(p) ==
    /\ pc[p] = "config"
    /\ rel' = [rel EXCEPT ![p].config = head[rel[p].repo]]
    /\ Goto(p, "filter")
    /\ UNCHANGED <<fileVars, head, cur, args, todo, histVars>>

\* A rate limit on any of the three reads aborts the cycle: no save.
GatherRateLimited(p) ==
    /\ pc[p] \in {"head", "changelog", "config"}
    /\ Return(p)
    /\ UNCHANGED <<fileVars, head, published, pinned, handled>>

\* The loop moves on; the release it was looking at is gone.
DropRelease(p) ==
    /\ rel' = [rel EXCEPT ![p] = NoRelease]
    /\ window' = [window EXCEPT ![p] = {}]
    /\ Goto(p, "next")
    /\ UNCHANGED <<fileVars, head, args, todo, pinned, handled>>

\* Any other error of a read drops this repo from the cycle.
GatherDropped(p) ==
    /\ pc[p] \in {"head", "changelog", "config"}
    /\ DropRelease(p)
    /\ UNCHANGED <<cur, published>>

-----------------------------------------------------------------------------
(***************************************************************************)
(* The task-creation filters.  Only the metric label depends on their      *)
(* order; a release is skipped when any of them votes skip.                *)
(***************************************************************************)
\* Mutants: the bullets or the opt-in are not looked at; a fork passes on
\* autoRelease alone, or never.
NoUnreleasedCheck(release) == FALSE
ReleaseByDefault(release) == FALSE
ForkByAutoRelease(fork, release) == fork /\ release.config \notin OptedIn
ForkAlways(fork, release) == fork

RepoAllowlistSkips(release) == release.repo \notin Allowlisted
EmptyUnreleasedSkips(release) == release.changelog \notin Bulleted
AutoReleaseSkips(release) == release.config \notin OptedIn
ForkSkips(fork, release) == fork /\ release.config \notin ForkAllowed
SHAUnchangedSkips(c, release) == LastSeenSHA(c, release.repo) = release.headSHA

\* Repo.Fork comes from ListRepos; scopeRepo builds a Repo without it.
RepoFork(p) == args[p].scope = None /\ rel[p].repo \in Forks

CycleFilterSkips(p) ==
    \/ RepoAllowlistSkips(rel[p])
    \/ EmptyUnreleasedSkips(rel[p])
    \/ AutoReleaseSkips(rel[p])
    \/ ForkSkips(RepoFork(p), rel[p])
    \/ ~args[p].force /\ SHAUnchangedSkips(cur[p], rel[p])

SkipRelease(p) ==
    /\ pc[p] = "filter"
    /\ CycleFilterSkips(p)
    /\ DropRelease(p)
    /\ UNCHANGED <<cur, published>>

\* DeriveTaskID: the task identifier is a function of repo and head SHA.
TaskID(release) == <<release.repo, release.headSHA>>

\* Mutants of PublishCreate: the head is read again for the record; the entry
\* is replaced instead of updated.
PublishRecordsNewHead(p) ==
    /\ pc[p] = "filter"
    /\ ~CycleFilterSkips(p)
    /\ published' = published \cup {TaskID(rel[p])}
    /\ cur' = [cur EXCEPT ![p] = RecordHead(cur[p], rel[p].repo, head[rel[p].repo])]
    /\ DropRelease(p)

PublishReplacesEntry(p) ==
    /\ pc[p] = "filter"
    /\ ~CycleFilterSkips(p)
    /\ published' = published \cup {TaskID(rel[p])}
    /\ cur' = [cur EXCEPT ![p] = PinnedAt(cur[p], rel[p].repo, rel[p].headSHA)]
    /\ DropRelease(p)

(***************************************************************************)
(* PublishCreate returns true: the command is on the topic and the head is *)
(* recorded in the existing entry of the in-memory cursor.                 *)
(***************************************************************************)
PublishCreate(p) ==
    /\ pc[p] = "filter"
    /\ ~CycleFilterSkips(p)
    /\ published' = published \cup {TaskID(rel[p])}
    /\ cur' = [cur EXCEPT ![p] = RecordHead(cur[p], rel[p].repo, rel[p].headSHA)]
    /\ DropRelease(p)

(***************************************************************************)
(* SendCommand reports an error; the broker may have taken the message.    *)
(***************************************************************************)
PublishFails(p) ==
    /\ pc[p] = "filter"
    /\ ~CycleFilterSkips(p)
    /\ published' \in {published, published \cup {TaskID(rel[p])}}
    /\ DropRelease(p)
    /\ UNCHANGED cur

(***************************************************************************)
(* The loop is over: every repo was processed, or the context was          *)
(* cancelled.  Either way the cursor is saved.                             *)
(***************************************************************************)
FinishScan(p) ==
    /\ pc[p] = "next"
    /\ todo[p] = {}
    /\ Goto(p, "open")
    /\ UNCHANGED <<fileVars, head, cur, args, todo, rel, histVars>>

CancelScan(p) ==
    /\ pc[p] = "next"
    /\ todo[p] # {}
    /\ todo' = [todo EXCEPT ![p] = {}]
    /\ Goto(p, "open")
    /\ UNCHANGED <<fileVars, head, cur, args, rel, histVars>>

-----------------------------------------------------------------------------
(***************************************************************************)
(* The operator's handlers: load, edit, save.  A corrupt file (500) and a  *)
(* repo without an entry (404, reset only) end the request unchanged.      *)
(***************************************************************************)
ResetCursor(p, r) ==
    /\ pc[p] = "idle"
    /\ CursorLoads
    /\ LoadCursor[r] # None
    /\ cur' = [cur EXCEPT ![p] = WithoutEntry(LoadCursor, r)]
    /\ Goto(p, "open")
    /\ UNCHANGED <<fileVars, head, args, todo, rel, histVars>>

SetCursor(p, r, sha) ==
    /\ pc[p] = "idle"
    /\ CursorLoads
    /\ cur' = [cur EXCEPT ![p] = PinnedAt(LoadCursor, r, sha)]
    /\ pinned' = pinned \cup {<<r, sha>>}
    /\ Goto(p, "open")
    /\ UNCHANGED <<fileVars, head, args, todo, rel, published, handled, window>>

-----------------------------------------------------------------------------
(***************************************************************************)
(* SaveCursor, step by step, with its error returns.  Poll only logs a     *)
(* failed save; a handler answers 500.                                     *)
(***************************************************************************)
SaveOpens(p) ==
    /\ pc[p] = "open"
    /\ OpenTmp(p)
    /\ Goto(p, "write")
    /\ UNCHANGED <<head, cur, args, todo, rel, histVars>>

SaveWrites(p) ==
    /\ pc[p] = "write"
    /\ WriteTmp(p, cur[p], TRUE)
    /\ Goto(p, "rename")
    /\ UNCHANGED <<head, cur, args, todo, rel, histVars>>

SaveRenames(p) ==
    /\ pc[p] = "rename"
    /\ RenameTmp
    /\ Return(p)
    /\ UNCHANGED <<head, published, pinned, handled>>

SaveOpenFails(p) ==
    /\ pc[p] = "open"
    /\ Return(p)
    /\ UNCHANGED <<fileVars, head, published, pinned, handled>>

SaveWriteFails(p) ==
    /\ pc[p] = "write"
    /\ WriteTmp(p, cur[p], FALSE)
    /\ Return(p)
    /\ UNCHANGED <<head, published, pinned, handled>>

SaveRenameFails(p) ==
    /\ pc[p] = "rename"
    /\ Return(p)
    /\ UNCHANGED <<fileVars, head, published, pinned, handled>>

(***************************************************************************)
(* The pod is killed and restarted: only the volume survives.              *)
(***************************************************************************)
Crash ==
    /\ \E p \in Procs : pc[p] # "idle"
    /\ CloseAll
    /\ pc' = [p \in Procs |-> "idle"]
    /\ cur' = [p \in Procs |-> EmptyCursor]
    /\ args' = [p \in Procs |-> LoopArgs]
    /\ todo' = [p \in Procs |-> {}]
    /\ rel' = [p \in Procs |-> NoRelease]
    /\ window' = [p \in Procs |-> {}]
    /\ UNCHANGED <<head, published, pinned, handled>>

-----------------------------------------------------------------------------
ScanStep(p) ==
    \/ PassGate(p)
    \/ DeferScan(p)
    \/ ResolveRepos(p)
    \/ ResolveFails(p)
    \/ \E r \in Repos : BackstopSilent(p, r)
    \/ \E r \in Repos, t \in Tags : BackstopHandles(p, r, t)
    \/ GetMasterSHA(p)
    \/ GetChangelogContent(p)
    \/ GetMaintainerConfig(p)
    \/ GatherRateLimited(p)
    \/ GatherDropped(p)
    \/ SkipRelease(p)
    \/ PublishCreate(p)
    \/ PublishFails(p)
    \/ FinishScan(p)
    \/ CancelScan(p)

SaveStep(p) ==
    \/ SaveOpens(p)
    \/ SaveWrites(p)
    \/ SaveRenames(p)
    \/ SaveOpenFails(p)
    \/ SaveWriteFails(p)
    \/ SaveRenameFails(p)

CallStep(p) ==
    \/ p \in Pollers /\ \E a \in PollArgs : BeginPoll(p, a)
    \/ p \in Operators /\ \E r \in Repos : ResetCursor(p, r)
    \/ p \in Operators /\ \E pin \in Pins : SetCursor(p, pin[1], pin[2])

Next ==
    \/ \E r \in Repos, c \in Commits : Push(r, c)
    \/ \E p \in Procs : CallStep(p) \/ ScanStep(p) \/ SaveStep(p)
    \/ Crash

Spec == Init /\ [][Next]_vars

-----------------------------------------------------------------------------
\* A cursor that claims nothing but what really happened.
Accounted(c) == RecordsOnly(c, published \cup pinned, handled)

(***************************************************************************)
(* CursorSound: however the goroutines interleave, abort, fail or crash,   *)
(* no copy of the cursor (in memory, in path.tmp, in path) ever claims a   *)
(* head or a tag that was not really published, set or handled.  The       *)
(* SHA-unchanged filter and the backstop stay silent on the word of that   *)
(* record, so a false claim is a release or a build that never happens.    *)
(***************************************************************************)
CursorSound ==
    /\ path \in Cursor => Accounted(path)
    /\ tmp \in Cursor => Accounted(tmp)
    /\ \A p \in Procs : Accounted(cur[p])

(***************************************************************************)
(* TasksAreGated: a new task is one for a listed or scoped repo of this    *)
(* owner on the allowlist, and since the moment its head SHA was read the  *)
(* default branch has pointed to a commit with unreleased bullets and to   *)
(* one that is opted in.  The three reads of gatherRelease are separate    *)
(* requests: an opt-out pushed before the first of them is never           *)
(* overlooked.                                                             *)
(***************************************************************************)
TaskGated(task) ==
    \E p \in Procs :
        /\ task = <<rel[p].repo, rel[p].headSHA>>
        /\ rel[p].repo \in Owned \cap Allowlisted
        /\ window[p] \cap Bulleted # {}
        /\ window[p] \cap OptedIn # {}

TasksAreGated == [][\A task \in published' \ published : TaskGated(task)]_vars

(***************************************************************************)
(* CursorIntact: the cursor file can always be loaded, at every moment and *)
(* so also after a crash at that moment.  When it cannot, every later Poll *)
(* and every handler fails until someone repairs the volume.               *)
(***************************************************************************)
CursorIntact == CursorLoads

(***************************************************************************)
(* ForksAreGated: a task for a fork is published only if, since its head   *)
(* was read, the default branch has pointed to a commit that sets          *)
(* allowFork.  The fork flag is part of the Repo the cycle works on.       *)
(***************************************************************************)
ForkGated(task) ==
    task[1] \in Forks =>
        \E p \in Procs : rel[p].repo = task[1] /\ window[p] \cap ForkAllowed # {}

ForksAreGated == [][\A task \in published' \ published : ForkGated(task)]_vars

-----------------------------------------------------------------------------
(***************************************************************************)
(* The ledger the cursor file stands for.                                  *)
(***************************************************************************)
Busy == {p \in Procs : pc[p] # "idle"}
Draft == IF Busy = {} THEN None ELSE cur[CHOOSE p \in Busy : TRUE]
Forced == \E p \in Procs : args[p].force

Ledger == INSTANCE CursorLedger WITH
            ledger <- LoadCursor, draft <- Draft, forced <- Forced

(***************************************************************************)
(* ImplementsLedger: with one call at a time, load / edit / write / rename *)
(* is an atomic transaction on the ledger, whatever fails or crashes.      *)
(***************************************************************************)
ImplementsLedger == Ledger!Spec

-----------------------------------------------------------------------------
(***************************************************************************)
(* Fairness, of one goroutine: the poll loop.  Its ticker keeps calling    *)
(* Poll(false, ""), and a step it can take it takes (weak fairness).  What *)
(* lies outside the program is assumed not to fail every single time: each *)
(* of the requests of a full cycle, for each repo, succeeds again and      *)
(* again if it is made again and again (strong fairness).  Nothing is      *)
(* assumed of the quota gate, and nothing of the other goroutines.         *)
(***************************************************************************)
PollLoop == CHOOSE p \in Pollers : p \notin Operators

FleetScan(p, r) ==
    /\ args[p] = LoopArgs
    /\ \/ BackstopSilent(p, r)
       \/ \E t \in Tags : BackstopHandles(p, r, t)

Fairness(p) ==
    /\ SF_vars(BeginPoll(p, LoopArgs))
    /\ SF_vars(args[p] = LoopArgs /\ ResolveRepos(p))
    /\ WF_vars(ScanStep(p) \/ SaveStep(p))
    /\ \A r \in Repos :
        /\ SF_vars(FleetScan(p, r))
        /\ SF_vars(rel[p].repo = r /\ GetMasterSHA(p))
        /\ SF_vars(rel[p].repo = r /\ GetChangelogContent(p))
        /\ SF_vars(rel[p].repo = r /\ GetMaintainerConfig(p))
        /\ SF_vars(rel[p].repo = r /\ PublishCreate(p))

FairSpec == Spec /\ Fairness(PollLoop)

\* What the documentation asks of a head for its repo to be released.
Eligible(r, c) ==
    /\ r \in (Owned \ Archived) \cap Allowlisted
    /\ c \in Bulleted \cap OptedIn
    /\ r \in Forks => c \in ForkAllowed

(***************************************************************************)
(* GateOpens: the poll loop gets past the quota gate again and again.      *)
(* Nothing in the code guarantees it: a gate that shuts while this token   *)
(* makes no other request stays shut (QuotaGate).                          *)
(***************************************************************************)
GateOpens ==
    []<>(pc[PollLoop] \notin {"idle", "gate"} /\ args[PollLoop] = LoopArgs)

(***************************************************************************)
(* EligibleHeadReleased: a repo whose head settles on an eligible commit   *)
(* gets its task for that commit, unless an operator set the cursor to it. *)
(* This holds across failed reads, aborted cycles, failed saves, crashes   *)
(* and the lost updates of goroutines that overwrite each other's cursor,  *)
(* as long as the file does not stay corrupt and the quota gate does not   *)
(* stay shut: a lost record only repeats a task, it never loses one.       *)
(***************************************************************************)
EligibleHeadReleased ==
    \A r \in Repos, c \in Commits :
        Eligible(r, c) =>
            (<>[]CursorLoads /\ GateOpens /\ <>[](head[r] = c)
                => <>(<<r, c>> \in published \cup pinned))
=============================================================================
