---------------------------- MODULE CursorLedger ----------------------------
(***************************************************************************)
(* What the cursor promises its users, with no file system in sight: a     *)
(* ledger that is read as a whole when a call begins, edited privately by  *)
(* one call at a time, and replaced as a whole, or not at all, when the    *)
(* call ends.  pkg/cursor.go states it as "the Watcher loads at poll start *)
(* and saves at poll end (single goroutine)" and "atomically via temp file *)
(* + rename"; the SHA-unchanged filter relies on it.                       *)
(***************************************************************************)
EXTENDS Cursors

CONSTANT Pins    \* <<repo, sha>> pairs an operator may set the ledger to

VARIABLES
    ledger,      \* the cursor every next call will load
    draft,       \* None, or the cursor the current call is editing
    forced,      \* the current call ignores what the draft records
    published    \* <<repo, sha>> of every task published

ledgerVars == <<ledger, draft, forced, published>>

Init ==
    /\ ledger = EmptyCursor
    /\ draft = None
    /\ forced = FALSE
    /\ published = {}

\* A poll cycle starts from the whole ledger.
Begin ==
    /\ draft = None
    /\ draft' = ledger
    /\ forced' \in BOOLEAN
    /\ UNCHANGED <<ledger, published>>

\* A task is published; unless forced, never for the head on record.
Publish(r, sha) ==
    /\ draft # None
    /\ ~forced => LastSeenSHA(draft, r) # sha
    /\ published' = published \cup {<<r, sha>>}
    /\ draft' \in {draft, RecordHead(draft, r, sha)}
    /\ UNCHANGED <<ledger, forced>>

\* The backstop handled a tag other than the one on record.
Build(r, tag) ==
    /\ draft # None
    /\ LastBuiltTag(draft, r) # tag
    /\ draft' = RecordTag(draft, r, tag)
    /\ UNCHANGED <<ledger, forced, published>>

\* An operator's request edits one entry of the whole ledger.
Edit(edited) ==
    /\ draft = None
    /\ draft' = edited
    /\ UNCHANGED <<ledger, forced, published>>

\* The call ends: its draft is the ledger, or it is forgotten.
Close ==
    /\ draft # None
    /\ ledger' \in {ledger, draft}
    /\ draft' = None
    /\ forced' = FALSE
    /\ UNCHANGED published

Next ==
    \/ Begin
    \/ \E r \in Repos, sha \in Commits : Publish(r, sha)
    \/ \E r \in Repos, tag \in Tags : Build(r, tag)
    \/ \E r \in Repos : Edit(WithoutEntry(ledger, r))
    \/ \E pin \in Pins : Edit(PinnedAt(ledger, pin[1], pin[2]))
    \/ Close

Spec == Init /\ [][Next]_ledgerVars
=============================================================================
