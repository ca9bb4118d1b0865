# A TLA+ model of github-release-watcher

This directory holds TLA+ modules that model the release watcher, TLC
configurations that check them on small instances, and TLAPS proofs of their
main properties for every value of the constants. `PROJECT.json` maps each
definition to the source lines it stands for.

Contents: [the system](#the-system), [modules](#modules-and-the-code),
[runs](#runs), [fairness](#fairness), [proofs](#proofs),
[findings](#findings), [what is left out](#what-is-left-out), [plan](#plan).

## The system

The program is one pod. Several goroutines share one `Watcher`, one
`Dispatcher` and one file on a persistent volume, without a lock between them:

- the **poll loop** (`main.go`) calls `Poll(false, "")` on a ticker;
- the **command consumer** executes `TriggerReleaseCheckCommand`s from a Kafka
  topic: it dispatches a build if the command names a tag, then calls `Poll`
  for the command's scope;
- the **HTTP handlers** `/resetcursor` and `/setcursor` edit the cursor file;
  the webhook and `/trigger` handlers only send commands to the topic.

| Component | State it keeps | Operations | Talks to |
|---|---|---|---|
| Watcher (`pkg/watcher.go`) | none between cycles; in a cycle the loaded cursor, the repos left, the release being gathered | `Poll`: load, quota gate, resolve repos, per repo: backstop, three reads, filters, publish; save | cursor store, GitHub, filters, publisher, backstop |
| Cursor store (`pkg/cursor.go`) | `cursor.json`: per repo `LastSeenSHA` and `LastBuiltTag` | `LoadCursor`, `SaveCursor` (write `path.tmp`, rename) | volume |
| Cursor handlers (`pkg/cursor_handler.go`) | none | reset or set one entry | cursor store |
| Filters (`pkg/filter`) | none | allowlist, empty-unreleased, auto-release, fork, SHA-unchanged | - |
| Task publisher (`pkg/taskpublisher.go`) | none | derive the task ID, send `CreateTaskCommand` | Kafka |
| GitHub client (`pkg/githubclient.go`) | the quota of the last response | list repos, tags; read head, file, epoch | GitHub |
| Tag backstop (`pkg/backstop.go`) | none; `LastBuiltTag` is in the cursor | pick the newest unbuilt tag, dispatch it | GitHub, dispatcher |
| Build dispatcher (`pkg/build`) | none; the cluster and the registry are its memory | `Dispatch`: config, manifest, render, credentials, image probe, active Jobs, create | GitHub, registry, Kubernetes |
| Webhook, trigger (`pkg/handler`, `pkg/debounce.go`) | the debouncer's recent deliveries | verify, classify, debounce, send a command | Kafka |
| Command executor (`pkg/command`), offset store (`pkg/memdb.go`) | the offset, in memory | unmarshal, dispatch, then poll | dispatcher, watcher |
| Changelog parser (`pkg/changelog.go`) | none | a pass over the lines | - |
| Authentication, metrics, wiring | the quota gauge | set-up, counters | - |

What is hard about it:

- **Concurrency.** Load, edit and save of the cursor is not atomic between
  goroutines, and all savers use the one name `path.tmp`. The look-up of active
  Jobs and the create of a Job are two requests.
- **Failure.** Any of the requests of a cycle may fail; a rate limit aborts the
  cycle without a save, any other error drops one repo; a send may fail after
  the broker took the message; a save may fail at each of its three steps; the
  pod may be killed anywhere.
- **Stale reads.** Head SHA, changelog and configuration are read one after the
  other while people push. Tags move while their epochs are read. Builds finish
  between the registry probe and the look-up of Jobs.
- **Progress.** An aborted cycle, a lost update or a dropped repo must only
  delay a release, never lose it. The same goes for a webhook delivery that was
  lost, swallowed or answered with a 502, and for a command that was consumed
  under a rate limit.
- **Delivery.** A send that reports an error may have been stored, a command may
  be delivered again and again, and a restart replays the whole topic.

What makes the parts correct, in one line each:

- cursor: it claims only heads that were published (or set by an operator) and
  tags that were handed to the dispatcher, whatever became of their build (see
  `dropped_build`), and with one saver it can be loaded at every moment, so also
  after a crash at that moment;
- watcher: a task is published only for what passed the gates, and an eligible
  head gets its task in the end, unless the quota gate stays shut;
- dispatcher: bounded duplicates, bounded concurrency, no rebuild of an image
  the probe could have seen;
- backstop: a scan picks the newest tag; its record may be taken back (by an
  aborted cycle, a failed or a stale save, `/setcursor` or `/resetcursor`), and
  from wherever it is left the backstop comes back to the newest tag (or to the
  first of the page, which the shortcut of `newestUnbuiltTag` accepts);
- trigger path: commands are carried out in order and none is passed over; a
  delivery is swallowed only if the same command is on the topic or on its way
  there, or if its send failed with a 502 after the debouncer had recorded the
  delivery: then nothing is on its way, and the poll loop has to find the change;
- quota: a token that keeps full scans deferred shows on the gauge, and is to be
  forgotten when the window ends (it is not: `quota_stuck`);
- changelog: the bullets counted are the unreleased ones.

## Modules and the code

| Module | Models | Builds on |
|---|---|---|
| `Cursors` | `Cursor`, `RepoState` and the updates of one entry | - |
| `CursorFile` | `LoadCursor`, `SaveCursor` down to open (`O_TRUNC`), write, rename | `Cursors` |
| `ReleaseWatcher` | `Poll`, the filters, the publisher, the cursor handlers, crashes | `CursorFile` |
| `CursorLedger` | abstract: the cursor as a table changed by atomic transactions | `Cursors` |
| `BuildDispatch` | `Dispatch` and the answers of its adapters | - |
| `TagBackstop` | `tagBackstop.Poll`, `newestUnbuiltTag` and the recording in `runBackstop` | - |
| `CommandTopic` | the request topic and the command on it | - |
| `WebhookIntake` | the webhook and `/trigger` handlers, the debouncer, the send | `CommandTopic` |
| `CommandConsumer` | the executor behind the consumer framework, the offset store | `CommandTopic` |
| `TriggerPath` | both, with other producers and restarts of the pod | `WebhookIntake`, `CommandConsumer` |
| `CommandQueue` | abstract: commands are carried out in order, without a gap | - |
| `QuotaGate` | the shared token's quota, its cached copy, the gate of `Poll`, the gauge, the order of the repos | - |
| `Changelog` | `ParseChangelog` on classified lines, with a reference definition | - |
| `MCReleaseWatcher`, `MCBuildDispatch`, `MCTriggerPath`, `MCQuotaGate` | constants and symmetry for TLC | the module named |
| `CursorsProofs`, `ReleaseWatcherProofs`, `LedgerProofs`, `BuildDispatchProofs`, `TagBackstopProofs`, `TriggerPathProofs`, `QuotaGateProofs`, `ChangelogProofs` | theorems | the module named |

**Cursors.** A cursor is a function from repos to an entry or `None`; an entry
has the two fields of `RepoState`. `RecordHead` and `RecordTag` update one field and keep the
other, as `watcher.go` does; `PinnedAt` replaces the whole entry, as
`/setcursor` does (which so erases `LastBuiltTag`); `WithoutEntry` is the
reset.

**CursorFile.** `path` and `tmp` hold a cursor or one of `Missing`,
`Truncated`, `Garbled`. `fd[p]` says which inode the open descriptor of process
`p` refers to: the one under the name `path.tmp`, the one that another process
has since renamed to `path`, one without a name, or none. That is what makes the race of two savers
visible: a write through a descriptor lands in the file that was opened, not in
the name. A write over a different, possibly longer content may leave the tail
of that content behind (`Garbled`); a write that fails may leave a prefix.

**ReleaseWatcher.** A process is a goroutine in one call at a time. `pc[p]`
names the step: `idle`, `gate`, `resolve`, `next` (top of the loop in `processRepos`),
`head`, `changelog`, `config`, `filter`, `open`, `write`, `rename`.

| Action | Code |
|---|---|
| `BeginPoll` | start of `Poll`: load; a corrupt file ends the call unchanged |
| `PassGate`, `DeferScan` | the quota gate of a full scan; either may happen |
| `ResolveRepos`, `ResolveFails` | `resolveRepos`, `scopeRepo`: the repos, or a failed `ListRepos` or a foreign scope |
| `BackstopSilent`, `BackstopHandles` | the next repo and `runBackstop` on it |
| `GetMasterSHA`, `GetChangelogContent`, `GetMaintainerConfig` | the reads of `gatherRelease` |
| `GatherRateLimited`, `GatherDropped` | their errors: abort without save, or drop the repo |
| `SkipRelease`, `PublishCreate`, `PublishFails` | filters, send, in-memory record |
| `FinishScan`, `CancelScan` | end of the loop, context cancelled; both go on to save |
| `SaveOpens`, `SaveWrites`, `SaveRenames` and the three `...Fails` | `SaveCursor`, with any error of open, write or rename |
| `ResetCursor`, `SetCursor` | the handlers up to their save |
| `Push`, `Crash` | the world: a push to a default branch; the pod is killed |

A commit determines the repo's files, so the changelog and the configuration
are sets of commits (`Bulleted`, `OptedIn`, `ForkAllowed`) and a read is a read
of the current head. `Pollers` and `Operators` say which goroutines call `Poll`
and which serve the cursor handlers; the poll loop is the one poller that is no
operator. The variables `published`, `pinned`, `handled` and
`window` are history: no guard reads them.

**BuildDispatch.** `pc[c]` is the gate that caller `c` is at. `jobs` are the
non-terminal Jobs and `images` the images in the registry; both change between
any two steps of a call. A build Job has `backoffLimit: 0`
(`hack/build-job.yaml`), so one failure makes it terminal. `since[c]` (history)
collects the images published after `c`'s own probe.

What the look-up finds a Job by is written by the target repo: namespace, labels
and service annotation stand in its `hack/build-job.yaml`, `RenderJob` only fills
in tokens, and `ActiveByTag` reads them back. `Listed` are the recipes with the
labels and the namespace that it asks for, `Service` the annotation or
`NoService`. `Findable` recipes have all of it, and only for them is there a bound
on duplicates: the recipe of this repository, like any without the annotation,
has its Jobs counted for the cap and never recognised as its own. A create is
stored at once (`Create`), not at all or under a name in use (`CreateFails`), or
is given up on and stored later (`CreateTimesOut`, `CreateLands`), after any
number of retries; `MaxLate` bounds how many of these there are at one time.

**TagBackstop.** One repo: the page of tags in the order GitHub answers, the
committer epoch of each, the record, and the variables of the run in progress:
the page it listed, the baseline, the position of its loop, the best tag so far.
Each request is a step of its own: the list (`ListTags`), the record's epoch
(`ReadBaseline`), the epoch of one tag per turn of the loop (`ScanTag`), the
dispatch (`BackstopBuilds`, `BackstopDrops`). Between any two of them tags are
cut at any position of the page, deleted, and cut again on another commit; a tag
pushed off the single page is the same event as a deletion. So a scan compares
epochs of different moments, and what can be said of it is said of the tags that
stayed: `moved` (history) has the listed tags that were deleted since. `imaged`
(history) is FALSE if the run that recorded the tag dispatched it to nothing.
The record is a field of a cycle's in-memory cursor and is not durable when it
is set: the cycle may be aborted, its save may fail or be overwritten by a cycle
that loaded earlier, and an operator may clear it. `ReleaseWatcher` has these
steps one by one; here they are `TakenBack`, which sets the record to anything
between two runs.

**CommandTopic, WebhookIntake, CommandConsumer, TriggerPath.** The topic is an
append-only sequence of commands and malformed messages that survives the pod.
A command is its scope and its tag; `Force` is left out, since nothing between
the request and `Poll` looks at it.

| Action | Code |
|---|---|
| `Webhook` | `ServeHTTP` up to `SendCommand`: signature, event, `classify`, `Allow` |
| `Trigger` | `/trigger` up to `SendCommand` |
| `Send`, `SendFails` | `SendCommand` and the answer: 202, or 502 with the command stored or not |
| `Expire` | the debouncer's interval of a key has passed |
| `Fetch`, `SkipMalformed` | `unmarshalAndValidate` |
| `DispatchReturns`, `DispatchFails` | the build of a tag command |
| `PollReturns`, `PollFails` | the release check; nil also for a deferred or aborted cycle |
| `OtherProducer` | a tool publishes on the topic directly |
| `Restart` | debouncer, requests in flight and offset are gone |

`since` and `failed` are history. The consumer framework
(`cdb.RunCommandConsumerTxDefault`, not part of the repository) is modelled as
the executor's and `main.go`'s comments use it: messages in topic order, an
error has the message delivered again, `ErrCommandObjectSkipped` moves on, an
empty store starts at the oldest message. What is said of the trigger path
rests on that. `Poison` are tags that fail `Dispatch` whenever it is called,
above all those that are no Kubernetes label value: `Request.Validate` comes
before the opt-in gate.

**QuotaGate.** `quota` is what GitHub has left for the token, `rateRemaining`
the client's copy of the last response's header, `gauge` the metric. The other
watchers spend from the same quota. Both callers of `Poll` go through `Begin`,
the list of repos, one step per repo, and `Return`; the deferred call
`SetRateLimitRemaining(RateLimitRemaining())` has its argument evaluated in
`Begin` and its effect in `Return`. `changed` are the repos with something that
no check has read yet; what a check makes of it is `ReleaseWatcher`'s subject.

**Changelog.** A step is a turn of the scanner's loop, with the parser's flags
as variables; the behaviours show all files, line by line. The parser returns
when the scanner delivers no line, or panics on an untitled heading.
`SummaryIsTheReading` compares what it returns with the function's
documentation, restated by positions of headings and bullets.

## Runs

Passing runs:

| Run | Instance | Question | Answer |
|---|---|---|---|
| `watcher_calls` | 1 process, 2 repos (one a fork), 2 commits, 1 tag | full, forced scoped, reset and set calls, one at a time, with partial cycles, failed saves and crashes | the cursor is truthful (`CursorSound`) and loadable (`CursorIntact`), the calls are transactions (`ImplementsLedger`), no task without the opt-in (`TasksAreGated`) or for a fork that lacks `allowFork` (`ForksAreGated`) |
| `watcher_live` | 2 processes, 1 repo (a fork), 2 commits, polls and resets | two goroutines on one cursor file: does an eligible head get its task? | only if the loop keeps getting past the quota gate (`EligibleHeadReleased`, with `GateOpens` as a premise; `quota_stuck` shows that it may not); lost updates and a file that breaks for a while do not matter; no copy of the cursor ever lies, no task without bullets |
| `dispatch_two` | 2 callers, 2 repos (one recipe without annotation), 1 tag name, 5 Job names, cap 2, 1 late create | what do look-up, cap and probe really bound? | `DuplicatesBounded` (callers + late creates), `CapPerTag` (cap + callers - 1 + late creates), `FailsClosed` |
| `backstop` | 3 tags, 2 epochs | does the scan find the newest tag, and the record come to rest? | `PicksTheNewest`, `NewestIsRecorded`, `SettlesOnNewest` |
| `trigger_path` | 1 repo, 2 tags (1 poison), 1 request at a time, 2 messages, 1 restart | is a delivery or a command lost? | what is swallowed is covered or was answered with a 502 (`SwallowedIsCovered`); no gap and no reordering (`ImplementsQueue`); everything before the first poison tag is executed in the end (`CommandsExecuted`) |
| `quota_gate` | 2 repos, window 4, threshold 2, 1 restart | is a change missed that no command reported? does a stall show? | only behind the gate (`MissedOnlyBehindGate`); a gate that stays shut shows on the gauge (`StallShows`) |
| `changelog` | all texts of up to 6 lines, 2 versions | does the parser count what its documentation says? | `SummaryIsTheReading` |

Violated on purpose (see [findings](#findings)): `cursor_race`, `scoped_fork`,
`rebuild`, `dropped_build`, `quota_stuck`.

Why the bounds suffice for these questions:

- Two commits are enough for a head that moves between any two of the reads of
  `gatherRelease`, and for an entry that is stale; a third would only repeat
  the pattern. One commit passes the gates and one does not: `c2` lacks the
  opt-in in `watcher_calls` (`OptedIn = {c1}`, both have bullets) and lacks
  bullets in `watcher_live` (`Bulleted = {c1}`, both are opted in). In
  `watcher_calls` no commit sets `allowFork`.
- Two owned repos give a cycle that is cut between them, with an entry written
  for one and not for the other. Neither passing run of the watcher has a repo
  that is not allowlisted or a scope of another owner: these gates rest on
  `EveryTaskGated`, which is proved for all constants. Sets are in
  `watcher_calls`; sets beside a running cycle rest on `CursorNeverLies`.
- Two processes give every pairwise interleaving of cycle against cycle or
  reset, and the whole race on `path.tmp`. What holds there is proved for any
  number of processes.
- Two repos under one tag name, cap 2 and a late create let the callers reach
  both bounds: four builds of one tag name, and three of one repo, which is the
  most `DuplicatesBounded` allows. Five Job names are one more than can be active
  at once, so the bound never blocks a create.
- Three tags with two epochs contain ties, an old first entry above new ones, a
  recorded tag that left the page, and a tag cut again.
- Two messages are enough for one that waits behind another, and for a replay
  that meets both. Two requests at once, more messages and more restarts are
  covered by the theorems, which bound none of them.
- A window of 4 with two repos (three requests for a full scan) and threshold 2
  lets a scan run out of quota at each of its requests, be deferred, and be
  overtaken by a scoped check; the restart gives a second cold start.
- Six lines hold three headings with bullets under two of them in every order.

Symmetry (of callers and Job names) is used only in a run without liveness.
Deadlock checking is off in `changelog` alone: the parser returns.

## Fairness

`ReleaseWatcher!Fairness` speaks of one goroutine, the poll loop; nothing is
assumed of the others, which may stop anywhere.

- Weak fairness of its own steps: nothing blocks the goroutine inside a call.
- Strong fairness of starting `Poll(false, "")`: the ticker of `main.go` keeps
  calling it. It is strong, not weak, because another goroutine may keep
  replacing the file by a broken one for a moment; the property itself assumes
  `<>[]CursorLoads`.
- Strong fairness of each outside request that a cycle makes (`ListRepos`, and
  the others for each repo): GitHub and the broker do not fail every time they
  are asked. Without this nothing could be promised.

Nothing is assumed of the quota gate. With the default threshold a low cached
value can keep it shut for ever (`quota_stuck`, `GateStaysShut`), so that the
loop gets past it again and again is a premise of `EligibleHeadReleased`
(`GateOpens`); without it TLC refutes the property.

`TagBackstop!Fairness` is about the cycles that get to the repo, hence about a
gate that does not stay shut: they keep listing the tags and a run goes on to its
end (weak), and a dispatch that is reached again and again does not drop the
build every time (strong). That requests succeed is a premise of the properties
(`Settles`: from some point on no request fails, the record is not taken back and
no tag is deleted; `Quiet`: nor is one cut), so that what happened before is
arbitrary.

`ReleaseWatcher` takes the repos in any order, and its fairness per repo
excludes that the last ones of the list starve. `QuotaGate` has the order:
there weak fairness of the poll loop and of the end of a rate-limit window is
all that is assumed, and the outside conditions are in the property:
`MissedOnlyBehindGate` speaks of behaviours in which the loop has, from some
point on, the token to itself and is refused only for want of quota. Without
that condition the property is false: with a secondary rate limit, or with other
watchers that use up the quota, at the same place of each cycle, the repos
behind that place are never reached. A full scan must fit into one window
(`FleetFits`).

`TriggerPath!Fairness`: the consumer goes on while there is a message (weak),
and for each message a dispatch that can succeed, and a poll, succeed if they
are tried again and again (strong). Nothing is assumed of requests and sends.

## Proofs

All are checked by TLAPS; the assumptions are the named `ASSUME`s of the
modules (which sets contain which, finiteness of the callers and Job names, a
cap of at least one). TLC evaluates them in the runs.

| Theorem | Says |
|---|---|
| `TypeCorrect` | type correctness of the watcher, for all constants |
| `CursorNeverLies` | `CursorSound` for any number of goroutines and repos |
| `EveryTaskGated` | `TasksAreGated` |
| `UnscopedForksGated` | `ForksAreGated` if all polls are full-fleet polls |
| `SerialFileIntact` | `CursorIntact` if there is one saving goroutine |
| `SerialLedger` | the watcher with one goroutine implements `CursorLedger` |
| `DuplicatesHold` | `DuplicatesBounded` for any number of callers and late creates |
| `ProbeFailsClosed` | `FailsClosed` |
| `CapHolds` | `CapPerTag` |
| `DispatchTypes` | type correctness of the dispatcher, Job names are unique |
| `BackstopTypes` | type correctness of the backstop, on pages of any length |
| `ScanIsRight` | `PicksTheNewest` for any page, order and changes under the scan |
| `TriggerTypes` | type correctness of the trigger path; the executor is only ever at a command |
| `SwallowedCovered` | `SwallowedIsCovered` for any number of request goroutines |
| `TriggerQueue` | the trigger path implements `CommandQueue`, for any number of commands and restarts |
| `QuotaTypes` | type correctness of the quota gate, for any fleet and window |
| `DeferralIsJustified` | within one window a shut gate means a token below the threshold |
| `GateStaysShut` | a shut gate without a cycle under way stays shut until a scoped command or a restart |
| `ParserIsRight` | `SummaryIsTheReading` for texts of any length |

The arguments:

- *Type.* The inductive invariant is `TypeOK` with `GatherInv`: the repos of a
  cycle are the owner's, a process at a gathering step has one of them, after
  the head read it has a head, and what it has read since is in its `window`.
  `TypeOK` alone is not inductive: the reads could index `head` with `None`.
- *CursorSound* is inductive together with these. A cursor is copied (load,
  write, rename) or changed in one entry; the first kind needs that every copy
  it can come from is sound, the second that the entry's new value is in the
  history. `CursorsProofs` has one lemma for each update of an entry, and one
  saying that soundness survives a growing history.
- *TasksAreGated* and *ForksAreGated* follow from `GatherInv`: the changelog and
  the configuration that the filters judge are those of heads the branch has had
  since the head SHA was read.
- *SerialFileIntact* needs `SerialInv`: with one process the descriptor refers
  to the file under `path.tmp` exactly while it writes, and at the rename step
  `tmp` is the complete cursor.
- *SerialLedger* maps `ledger` to what `LoadCursor` would return and `draft` to
  the cursor of the one busy process. A rename is the commit; failures, crashes
  and early returns are rollbacks; reads, opens and writes are stuttering.
- *DispatchInv* is `TypeOK` and `Probed`: a caller past its probe whose image is
  published has it in `since`.
- *CapHolds* and *DuplicatesHold* are one counting argument. `Counted(S, k)` says
  that the Jobs for a request in `S`, active or still to land, and the callers
  about to create one are at most `k` together. A create moves one from the
  callers to the Jobs, and a landing moves one within the Jobs. Only `Admit` adds
  to the sum, and at that moment the active Jobs are few (below the cap, or none
  of this repo), so the rest of the sum, callers and late creates, bounds it. For
  the cap `S` is the listed requests of a tag, for the duplicates it is one
  findable request.
- *SwallowedCovered* needs `RecentIsCovered`, which speaks of every key that the
  debouncer holds and not only of those a delivery may bring again, and bounds
  `since` by the length of the topic. `CoveredKept` collects what a step must
  respect; each action is then a matter of its assignments.
- *TriggerQueue* maps `accepted` to the length of the topic and `done` to the
  positions executed. It needs `NoGap`: whatever is below the offset has been
  executed. A restart sets the offset to 0 and so keeps it.

- *BackstopInv* says what the loop of `newestUnbuiltTag` has established so far:
  the best tag qualifies (`BestInv`) and is at least as new as every tag passed
  that stayed (`PassedInv`). `PicksTheNewest` is `PassedInv` at the end of the
  page. Both speak of current epochs, so they need `StillThere`: a tag that has
  not moved is on the page, hence cannot be cut again, hence has kept its epoch.
  Cuts and deletions shift the page; the lemmas on `InsertAt` and `RemoveAt` say
  that they keep it free of repetitions.
- *ParserInv* says what each flag means for the lines read: `seenAnyH2` that
  there is a heading, `inUnreleased` that the last heading is the first section,
  `unreleasedBullets` the size of a set of positions. `HasLeast` (a nonempty set
  of positions has a least element) is part of it, because `Min` is a `CHOOSE`.
- *DeferralIsJustified*: a response sets the cache to the quota, and between two
  windows the quota only falls, so `NotUnderstated` (quota at most the cached
  value) is stable. *GateStaysShut*: behind the gate the poll loop makes no
  request, so nothing changes the cache; with the previous theorem, the one way
  to a gate that is wrongly shut is a window that ends while the cache is low.

The scan of the backstop and the pass of the parser are modelled one element per
step, as the code runs them; what they compute on inputs of any length is then
an invariant and needs no induction over data, which is beyond these provers.

Model-checked only: the liveness properties `EligibleHeadReleased`,
`NewestIsRecorded`, `SettlesOnNewest`, `CommandsExecuted`,
`MissedOnlyBehindGate` and `StallShows`.
Fairness and ENABLED are out of the provers' reach.

## Findings

Each is a run in which TLC finds a behaviour that a comment or the repository's
README rules out.

1. `cursor_race` - `cursor.go:71` calls `SaveCursor` atomic. With two savers one
   can rename the file the other has just truncated; `cursor.json` is then
   unreadable, and every `Poll` and handler fails until it is written again.
2. `scoped_fork` - `README.md:32` says a fork passes only with `allowFork`. A
   scoped check builds its `Repo` without the fork flag, so the filter never
   sees a fork.
3. `rebuild` - `dispatch.go:267` calls re-pushing an existing tag the failure
   the guard exists to prevent. The probe comes before the look-up of Jobs, so a
   build that ends in between is seen by neither; one caller is enough.
4. `dropped_build` - `dispatch.go:374` says a deferred build is retried by the
   next poll cycle. A deferral is a nil error, so the backstop records the tag
   as built and stays silent on it.
5. `quota_stuck` - `githubclient.go:139` says the cached quota is the live one.
   A value that is low but positive when the window ends is never refreshed by
   the poll loop, since a deferred cycle makes no request: full scans stay
   deferred until something else calls GitHub, or the pod restarts
   (`GateStaysShut` proves the "until").

Smaller disagreements met while reading, without a run of their own:

- The concurrency cap counts only Jobs of the same tag name (`config.go:88`
  reads as if it were global).
- `dispatch.go:89` says at most one build is dispatched per (repo, tag), and
  `dispatch_test.go:268-271` that the look-up keeps the webhook and the backstop
  from both building one tag. The consumer and the backstop may both
  look before either creates, a create may land after the retry's look-up, and a
  recipe without the service annotation is never recognised: `DuplicatesBounded`
  is what is left, and its bound is reached.
- `backstop.go:158` says a tie does not become a repeated-scan steady state;
  with an older tag first on the page, two tied tags replace each other in
  every cycle. `NewestIsRecorded` therefore speaks of a tag at the top of the
  page, and `SettlesOnNewest` lets tags of one epoch take turns.
- `watcher.go:106-109` says the gauge tracks the last response on every exit
  path, and the changelog of v0.5.0 that it shows the quota after every poll; the
  argument of the `defer` is evaluated at the start of the cycle, so it shows the
  quota from before. `StallShows` says only that a gate that stays shut shows.
- `executor.go:91` lists "rate-limited" among the errors that are redelivered;
  `Poll` returns nil on a rate limit, and the command counts as executed. The
  comment above the constructor calls `cmd.Scope` unread; it is read.
- `isVersionHeader` slices a heading from its third byte after `TrimRight` may
  have left two: a `## ` heading with nothing after it panics. The parser does
  not ask for the scanner's error, so a line of more than 64 KiB ends the text.
- `manifest.go:291` calls a Job name unique per run; `dnsLabel` cuts it to 63
  characters from the end, where the timestamp and the suffix are.
- The main README says a 5xx aborts the cycle, while the code drops the one
  repo; `/setcursor` erases `LastBuiltTag`.

## What is left out

- **Time**: intervals, tickers and windows pass at any moment; no property is
  about how long something takes.
- **Requests**: a check of a repo counts as one request in `QuotaGate`, and
  pages of a list as one; conditional requests and pagination are left out.
- **The consumer framework, Kafka and Kubernetes**: external, as described
  above; partitions and consumer groups are left out (one consumer, one
  partition).
- **Text**: image references, allowlist, YAML and JSON, the regular expression
  of a version, token substitution in manifests, Job names, wording of tasks.
  Their outcome is a set.
- **Authentication, flag parsing, counters**: no state that anything reads back.
- **`cmd/run-once`**: a single `Poll(false, "")` without a dispatcher, which is
  one call of `ReleaseWatcher` with a silent backstop.

## Plan

Done: the cursor, the watcher, the dispatcher, the backstop, the trigger path,
the quota gate and the changelog parser, each with its safety properties proved.
Left:

1. A composition of the backstop's record with the dispatcher's outcomes, so
   that `DroppedIsRetried` is stated over the real gates.
2. A composition of `TriggerPath` with `QuotaGate`, in which a command consumed
   under a rate limit is the change that the poll loop makes up for; today the
   two meet in `PollReturns` and `changed`.
