---------------------------- MODULE TagBackstop -----------------------------
(***************************************************************************)
(* The tag backstop of pkg/backstop.go for one repo: each poll cycle lists *)
(* one page of tags, picks the newest one by committer epoch, dispatches   *)
(* a build for it and records it as the last tag built (watcher.go's       *)
(* runBackstop).                                                           *)
(*                                                                         *)
(* GitHub promises no order of the page, so a new tag may show up anywhere *)
(* in it.  The epochs are read one request at a time, the recorded tag's   *)
(* first; between any two requests a tag can be deleted, or deleted and    *)
(* cut again on another commit.                                            *)
(*                                                                         *)
(* The record is a field of the cycle's in-memory cursor.  It is lost when *)
(* the cycle is aborted or its save fails or is overwritten by a cycle     *)
(* that loaded the cursor before, and /setcursor and /resetcursor clear    *)
(* it: ReleaseWatcher has the steps, here they are one, TakenBack.         *)
(***************************************************************************)
EXTENDS Integers, SequencesExt

CONSTANTS
    Tags,       \* tag names
    Epochs,     \* committer epochs
    None        \* the empty string: no tag

ASSUME TagAssumption ==
    /\ Epochs \subseteq Nat
    /\ 0 \in Epochs
    /\ None \notin Tags

VARIABLES
    page,       \* the tags, in the order ListTags answers
    epoch,      \* epoch[t]: committer epoch of the commit t points to; 0 for
                \* a tag that does not exist
    last,       \* RepoState.LastBuiltTag, as the next run will be given it
    imaged,     \* history: FALSE if the run that recorded the tag dispatched
                \* it to no Job, no active Job and no image
    phase,      \* of the backstop run: "idle", "baseline" or "scan"
    seen,       \* the page that the run has listed
    pos,        \* where in it the scan is
    baseline,   \* lastEpoch; -1 is "no baseline"
    best,       \* the best tag so far
    bestEpoch,  \* its epoch, as read
    moved       \* history: tags of seen that have been deleted since the list

github == <<page, epoch>>
record == <<last, imaged>>
run == <<phase, seen, pos, baseline, best, bestEpoch>>
vars == <<page, epoch, last, imaged, phase, seen, pos, baseline, best, bestEpoch, moved>>

\* Types; a page names a tag once, and a run asks for the epoch of the recorded
\* tag only if it listed that tag.
TypeOK ==
    /\ page \in Seq(Tags) /\ IsInjective(page)
    /\ epoch \in [Tags -> Epochs]
    /\ last \in Tags \cup {None}
    /\ imaged \in BOOLEAN
    /\ phase \in {"idle", "baseline", "scan"}
    /\ phase = "baseline" => Contains(seen, last)
    /\ seen \in Seq(Tags) /\ IsInjective(seen)
    /\ pos \in 1 .. Len(seen) + 1
    /\ baseline \in Epochs \cup {-1}
    /\ best \in Tags \cup {None}
    /\ bestEpoch \in Epochs
    /\ moved \subseteq ToSet(seen)

Init ==
    /\ page = <<>>
    /\ epoch = [t \in Tags |-> 0]
    /\ last \in Tags \cup {None}
    /\ imaged = TRUE
    /\ phase = "idle" /\ seen = <<>> /\ pos = 1
    /\ baseline = -1 /\ best = None /\ bestEpoch = 0
    /\ moved = {}

-----------------------------------------------------------------------------
\* The repo's owner cuts a tag, or deletes one.
CutTag(t, i, e) ==
    /\ ~Contains(page, t)
    /\ page' = InsertAt(page, i, t)
    /\ epoch' = [epoch EXCEPT ![t] = e]
    /\ UNCHANGED <<record, run, moved>>

DeleteTag(i) ==
    /\ page' = RemoveAt(page, i)
    /\ epoch' = [epoch EXCEPT ![page[i]] = 0]
    /\ moved' = moved \cup ({page[i]} \cap ToSet(seen))
    /\ UNCHANGED <<record, run>>

\* Between two runs the record falls back to an earlier one, or to none.
TakenBack(t) ==
    /\ phase = "idle"
    /\ last' = t
    /\ imaged' = TRUE
    /\ UNCHANGED <<github, run, moved>>

-----------------------------------------------------------------------------
\* Mutants of ListTags: a run ends if the record is anywhere on the page; a
\* baseline is asked for on a cold cursor, too.
ListTagsUnrecorded ==
    /\ phase = "idle"
    /\ page # <<>> /\ ~Contains(page, last)
    /\ seen' = page
    /\ phase' = "scan"
    /\ UNCHANGED <<github, record, pos, baseline, best, bestEpoch, moved>>

ListTagsNoCheck ==
    /\ phase = "idle"
    /\ page # <<>> /\ page[1] # last
    /\ seen' = page
    /\ phase' = "baseline"
    /\ UNCHANGED <<github, record, pos, baseline, best, bestEpoch, moved>>

(***************************************************************************)
(* A cycle reaches the repo.  An empty page, or one whose first entry is   *)
(* the recorded tag, ends the run at once.                                 *)
(***************************************************************************)
ListTags ==
    /\ phase = "idle"
    /\ page # <<>> /\ page[1] # last
    /\ seen' = page
    /\ phase' = IF Contains(page, last) THEN "baseline" ELSE "scan"
    /\ UNCHANGED <<github, record, pos, baseline, best, bestEpoch, moved>>

\* GetCommitEpoch answers 404 for a tag that has been deleted since the list.
GetCommitEpoch(t, e) == Contains(page, t) /\ e = epoch[t]

ReadBaseline ==
    /\ phase = "baseline"
    /\ GetCommitEpoch(last, baseline')
    /\ phase' = "scan"
    /\ UNCHANGED <<github, record, seen, pos, best, bestEpoch, moved>>

\* Mutants of Better: the oldest tag instead of the newest; a comparison that
\* drops a new tag on the same commit.
BetterOldest(e) == e >= baseline /\ (best = None \/ e < bestEpoch)

BetterStrict(e) == e > baseline /\ (best = None \/ e > bestEpoch)

\* The scan's test for replacing the best tag so far.
Better(e) == e >= baseline /\ (best = None \/ e > bestEpoch)

\* One turn of the scan's loop, at tag t; the recorded tag is passed over.
ScanTag(t) ==
    /\ phase = "scan" /\ pos <= Len(seen) /\ t = seen[pos]
    /\ \/ /\ t = last
          /\ UNCHANGED <<best, bestEpoch>>
       \/ /\ t # last
          /\ \E e \in Epochs :
                /\ GetCommitEpoch(t, e)
                /\ best' = IF Better(e) THEN t ELSE best
                /\ bestEpoch' = IF Better(e) THEN e ELSE bestEpoch
    /\ pos' = pos + 1
    /\ UNCHANGED <<github, record, phase, seen, baseline, moved>>

\* Poll returns: the variables of the run are gone.
Return ==
    /\ phase' = "idle" /\ seen' = <<>> /\ pos' = 1
    /\ baseline' = -1 /\ best' = None /\ bestEpoch' = 0
    /\ moved' = {}
    /\ UNCHANGED github

\* No tag is at least as new as the record.
NothingNew ==
    /\ phase = "scan" /\ pos > Len(seen)
    /\ best = None
    /\ Return
    /\ UNCHANGED record

\* A read or the dispatch fails, or the context is cancelled.
BackstopFails ==
    /\ phase # "idle"
    /\ pos <= Len(seen) \/ best # None
    /\ Return
    /\ UNCHANGED record

(***************************************************************************)
(* Dispatch returns nil and the tag is recorded.  Only some of the nils    *)
(* mean that there is, or will be, an image; the others (the cap is        *)
(* reached, the registry does not answer, the repo is not opted in) are    *)
(* recorded just the same.                                                 *)
(***************************************************************************)
Handle(t) ==
    /\ phase = "scan" /\ pos > Len(seen)
    /\ best = t
    /\ last' = t
    /\ Return

BackstopBuilds(t) == Handle(t) /\ imaged' = TRUE

BackstopDrops(t) == Handle(t) /\ imaged' = FALSE

Run ==
    \/ ReadBaseline
    \/ \E t \in Tags : ScanTag(t)
    \/ NothingNew
    \/ BackstopFails
    \/ \E t \in Tags : BackstopBuilds(t) \/ BackstopDrops(t)

Next ==
    \/ \E t \in Tags, i \in 1 .. Len(page) + 1, e \in Epochs : CutTag(t, i, e)
    \/ \E i \in DOMAIN page : DeleteTag(i)
    \/ \E t \in Tags \cup {None} : TakenBack(t)
    \/ ListTags
    \/ Run

Spec == Init /\ [][Next]_vars

(***************************************************************************)
(* Fairness: cycles keep getting to this repo (a quota gate that stays     *)
(* shut is QuotaGate's subject), and a run goes on to its end (weak); a    *)
(* dispatch that is reached again and again does not drop the build every  *)
(* single time (strong).                                                   *)
(***************************************************************************)
Fairness ==
    /\ WF_vars(ListTags)
    /\ WF_vars(Run)
    /\ SF_vars(\E t \in Tags : BackstopBuilds(t))

FairSpec == Spec /\ Fairness

-----------------------------------------------------------------------------
\* The tags of the listed page that have not been touched since.
Stayed == ToSet(seen) \ moved

(***************************************************************************)
(* PicksTheNewest: when the scan is through, however tags moved under it,  *)
(* its pick is a listed tag other than the recorded one, no older than it, *)
(* and at least as new as every other such tag that stayed where it was;   *)
(* and there is a pick if there is such a tag.  A record that is not on    *)
(* the page (or a cold cursor) rules out no tag.                           *)
(***************************************************************************)
PicksTheNewest ==
    phase = "scan" /\ pos > Len(seen) =>
        /\ IF Contains(seen, last)
           THEN last \in Stayed => baseline = epoch[last]
           ELSE baseline = -1
        /\ best # None =>
                /\ best \in ToSet(seen) \ {last}
                /\ bestEpoch >= baseline
                /\ best \in Stayed => bestEpoch = epoch[best]
        /\ \A t \in Stayed \ {last} :
                epoch[t] >= baseline => best # None /\ epoch[t] <= bestEpoch

\* t is at the top of the page and no tag on it is newer.
Leads(t) == page # <<>> /\ page[1] = t /\ \A i \in DOMAIN page : epoch[page[i]] <= epoch[t]

\* The record is not taken back by this step.
Kept == phase = "idle" => UNCHANGED record

\* From some point on no request fails, the record is kept, and no tag is
\* deleted under a scan.
Settles == <>[][~BackstopFails /\ Kept /\ Len(page') >= Len(page)]_vars

(***************************************************************************)
(* NewestIsRecorded: whatever happened before, once requests and dispatch  *)
(* succeed and tags are no longer deleted, a tag that stays at the top of  *)
(* the page and newest is recorded and stays so: the backstop reaches its  *)
(* silent steady state.                                                    *)
(***************************************************************************)
NewestIsRecorded ==
    \A t \in Tags : Settles /\ <>[]Leads(t) => <>[](last = t)

\* The same, and the tags stay as they are.
Quiet == <>[][~BackstopFails /\ Kept /\ UNCHANGED github]_vars

\* t is on the page and no tag on it is newer.
Newest(t) == Contains(page, t) /\ \A i \in DOMAIN page : epoch[page[i]] <= epoch[t]

(***************************************************************************)
(* SettlesOnNewest: wherever the record was left by aborted cycles, stale  *)
(* saves and operators, and in whatever order the page lists the tags:     *)
(* once nothing fails or changes any more, the record is the newest tag of *)
(* the page or, by the shortcut, the one at its top, and never leaves      *)
(* that.  Tags of the same epoch may take turns.                           *)
(***************************************************************************)
SettlesOnNewest ==
    Quiet => <>[](page = <<>> \/ page[1] = last \/ Newest(last))

(***************************************************************************)
(* DroppedIsRetried: a tag that stays newest gets its build in the end,    *)
(* also if its first dispatch was deferred by the cap.                     *)
(***************************************************************************)
DroppedIsRetried ==
    \A t \in Tags : Settles /\ <>[]Leads(t) => <>(last = t /\ imaged)
=============================================================================
