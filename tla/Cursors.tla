------------------------------ MODULE Cursors -------------------------------
(***************************************************************************)
(* The cursor of pkg/cursor.go as a value: a map from repo to RepoState.   *)
(* An absent entry and an empty string are None.                           *)
(***************************************************************************)
CONSTANTS
    Repos,      \* repositories (keys of Cursor.Repos)
    Commits,    \* head SHAs of the default branches
    Tags,       \* release tags
    None        \* the empty string / an absent map entry

RepoState == [lastSeenMasterSHA : Commits \cup {None},
              lastBuiltTag      : Tags \cup {None}]

Cursor == [Repos -> RepoState \cup {None}]

ASSUME NoneAssumption ==
    /\ None \notin Commits \cup Tags \cup Repos
    /\ None \notin RepoState
    /\ None \notin Cursor

\* The cold-start cursor, and the entry repoState() creates on first use.
EmptyCursor == [r \in Repos |-> None]
FreshState == [lastSeenMasterSHA |-> None, lastBuiltTag |-> None]

\* The read views of an entry; neither creates it.
LastSeenSHA(c, r) == IF c[r] = None THEN None ELSE c[r].lastSeenMasterSHA
LastBuiltTag(c, r) == IF c[r] = None THEN None ELSE c[r].lastBuiltTag

\* repoState(): the existing entry, or a fresh one.
EntryOf(c, r) == IF c[r] = None THEN FreshState ELSE c[r]

\* Both updates change one field of the entry and keep the other.
RecordHead(c, r, sha) ==
    [c EXCEPT ![r] = [EntryOf(c, r) EXCEPT !.lastSeenMasterSHA = sha]]
RecordTag(c, r, tag) ==
    [c EXCEPT ![r] = [EntryOf(c, r) EXCEPT !.lastBuiltTag = tag]]

\* The edits of the operator's handlers: /resetcursor and /setcursor.
WithoutEntry(c, r) == [c EXCEPT ![r] = None]
PinnedAt(c, r, sha) == [c EXCEPT ![r] = [FreshState EXCEPT !.lastSeenMasterSHA = sha]]

(***************************************************************************)
(* Every head c records is among heads, and every tag it records among     *)
(* tags (sets of pairs of a repo and a commit, a repo and a tag).          *)
(***************************************************************************)
RecordsOnly(c, heads, tags) ==
    \A r \in Repos :
        /\ LastSeenSHA(c, r) # None => <<r, LastSeenSHA(c, r)>> \in heads
        /\ LastBuiltTag(c, r) # None => <<r, LastBuiltTag(c, r)>> \in tags
=============================================================================
