--------------------------- MODULE CursorsProofs ----------------------------
(***************************************************************************)
(* What the operators of module Cursors return: every edit of a cursor is  *)
(* a cursor, and it changes the one field of the one entry it names.       *)
(***************************************************************************)
EXTENDS Cursors, TLAPS

\* The cold-start cursor is a cursor that records nothing.
LEMMA EmptyCursorFacts ==
    /\ EmptyCursor \in Cursor
    /\ \A r \in Repos : LastSeenSHA(EmptyCursor, r) = None
                        /\ LastBuiltTag(EmptyCursor, r) = None
  BY DEF EmptyCursor, Cursor, LastSeenSHA, LastBuiltTag

\* An entry, created on first use or not, has the fields of a RepoState.
LEMMA EntryOfType ==
    ASSUME NEW c \in Cursor, NEW r \in Repos
    PROVE  /\ EntryOf(c, r) \in RepoState
           /\ EntryOf(c, r).lastSeenMasterSHA = LastSeenSHA(c, r)
           /\ EntryOf(c, r).lastBuiltTag = LastBuiltTag(c, r)
  BY DEF EntryOf, FreshState, Cursor, RepoState, LastSeenSHA, LastBuiltTag

\* Recording a published head leaves the built tag and all other repos alone.
LEMMA RecordHeadFacts ==
    ASSUME NEW c \in Cursor, NEW r \in Repos, NEW sha \in Commits
    PROVE  /\ RecordHead(c, r, sha) \in Cursor
           /\ LastSeenSHA(RecordHead(c, r, sha), r) = sha
           /\ LastBuiltTag(RecordHead(c, r, sha), r) = LastBuiltTag(c, r)
           /\ \A s \in Repos \ {r} : RecordHead(c, r, sha)[s] = c[s]
  <1> DEFINE e == EntryOf(c, r)
             n == [e EXCEPT !.lastSeenMasterSHA = sha]
  <1>1. /\ e \in RepoState
        /\ e.lastBuiltTag = LastBuiltTag(c, r)
    BY EntryOfType
  <1>2. /\ n \in RepoState
        /\ n.lastSeenMasterSHA = sha
        /\ n.lastBuiltTag = e.lastBuiltTag
    BY <1>1 DEF RepoState
  <1>3. n # None
    BY <1>2, NoneAssumption
  <1>4. RecordHead(c, r, sha) = [c EXCEPT ![r] = n]
    BY DEF RecordHead
  <1> HIDE DEF n
  <1>5. /\ [c EXCEPT ![r] = n] \in Cursor
        /\ [c EXCEPT ![r] = n][r] = n
        /\ \A s \in Repos \ {r} : [c EXCEPT ![r] = n][s] = c[s]
    BY <1>2 DEF Cursor
  <1> QED
    BY <1>1, <1>2, <1>3, <1>4, <1>5 DEF LastSeenSHA, LastBuiltTag

\* Recording a built tag leaves the published head and all other repos alone.
LEMMA RecordTagFacts ==
    ASSUME NEW c \in Cursor, NEW r \in Repos, NEW tag \in Tags
    PROVE  /\ RecordTag(c, r, tag) \in Cursor
           /\ LastBuiltTag(RecordTag(c, r, tag), r) = tag
           /\ LastSeenSHA(RecordTag(c, r, tag), r) = LastSeenSHA(c, r)
           /\ \A s \in Repos \ {r} : RecordTag(c, r, tag)[s] = c[s]
  <1> DEFINE e == EntryOf(c, r)
             n == [e EXCEPT !.lastBuiltTag = tag]
  <1>1. /\ e \in RepoState
        /\ e.lastSeenMasterSHA = LastSeenSHA(c, r)
    BY EntryOfType
  <1>2. /\ n \in RepoState
        /\ n.lastBuiltTag = tag
        /\ n.lastSeenMasterSHA = e.lastSeenMasterSHA
    BY <1>1 DEF RepoState
  <1>3. n # None
    BY <1>2, NoneAssumption
  <1>4. RecordTag(c, r, tag) = [c EXCEPT ![r] = n]
    BY DEF RecordTag
  <1> HIDE DEF n
  <1>5. /\ [c EXCEPT ![r] = n] \in Cursor
        /\ [c EXCEPT ![r] = n][r] = n
        /\ \A s \in Repos \ {r} : [c EXCEPT ![r] = n][s] = c[s]
    BY <1>2 DEF Cursor
  <1> QED
    BY <1>1, <1>2, <1>3, <1>4, <1>5 DEF LastSeenSHA, LastBuiltTag

\* /resetcursor: the entry is gone, the others are untouched.
LEMMA WithoutEntryFacts ==
    ASSUME NEW c \in Cursor, NEW r \in Repos
    PROVE  /\ WithoutEntry(c, r) \in Cursor
           /\ LastSeenSHA(WithoutEntry(c, r), r) = None
           /\ LastBuiltTag(WithoutEntry(c, r), r) = None
           /\ \A s \in Repos \ {r} : WithoutEntry(c, r)[s] = c[s]
  BY DEF WithoutEntry, Cursor, LastSeenSHA, LastBuiltTag

\* /setcursor: the entry holds the SHA and no tag, the others are untouched.
LEMMA PinnedAtFacts ==
    ASSUME NEW c \in Cursor, NEW r \in Repos, NEW sha \in Commits
    PROVE  /\ PinnedAt(c, r, sha) \in Cursor
           /\ LastSeenSHA(PinnedAt(c, r, sha), r) = sha
           /\ LastBuiltTag(PinnedAt(c, r, sha), r) = None
           /\ \A s \in Repos \ {r} : PinnedAt(c, r, sha)[s] = c[s]
  <1> DEFINE n == [FreshState EXCEPT !.lastSeenMasterSHA = sha]
  <1>1. /\ n \in RepoState
        /\ n.lastSeenMasterSHA = sha
        /\ n.lastBuiltTag = None
    BY DEF FreshState, RepoState
  <1>2. n # None
    BY <1>1, NoneAssumption
  <1>3. PinnedAt(c, r, sha) = [c EXCEPT ![r] = n]
    BY DEF PinnedAt
  <1> HIDE DEF n
  <1>4. /\ [c EXCEPT ![r] = n] \in Cursor
        /\ [c EXCEPT ![r] = n][r] = n
        /\ \A s \in Repos \ {r} : [c EXCEPT ![r] = n][s] = c[s]
    BY <1>1 DEF Cursor
  <1> QED
    BY <1>1, <1>2, <1>3, <1>4 DEF LastSeenSHA, LastBuiltTag

-----------------------------------------------------------------------------
\* A record that is accounted for stays so while the history grows.
LEMMA RecordsOnlyMono ==
    ASSUME NEW c, NEW H, NEW T, NEW H2, NEW T2,
           RecordsOnly(c, H, T), H \subseteq H2, T \subseteq T2
    PROVE  RecordsOnly(c, H2, T2)
  BY DEF RecordsOnly

\* The cold-start cursor claims nothing.
LEMMA RecordsOnlyEmpty ==
    ASSUME NEW H, NEW T
    PROVE  RecordsOnly(EmptyCursor, H, T)
  BY EmptyCursorFacts DEF RecordsOnly

\* The four edits keep a cursor accounted for if the new record is.
LEMMA RecordsOnlyHead ==
    ASSUME NEW c \in Cursor, NEW r \in Repos, NEW sha \in Commits, NEW H, NEW T,
           RecordsOnly(c, H, T), <<r, sha>> \in H
    PROVE  RecordsOnly(RecordHead(c, r, sha), H, T)
  <1> DEFINE d == RecordHead(c, r, sha)
  <1>1. /\ LastSeenSHA(d, r) = sha
        /\ LastBuiltTag(d, r) = LastBuiltTag(c, r)
        /\ \A s \in Repos \ {r} : d[s] = c[s]
    BY RecordHeadFacts
  <1> HIDE DEF d
  <1>2. \A s \in Repos \ {r} : /\ LastSeenSHA(d, s) = LastSeenSHA(c, s)
                              /\ LastBuiltTag(d, s) = LastBuiltTag(c, s)
    BY <1>1 DEF LastSeenSHA, LastBuiltTag
  <1>3. RecordsOnly(d, H, T)
    BY <1>1, <1>2 DEF RecordsOnly
  <1> QED
    BY <1>3 DEF d

\* Recording a tag adds only that claim.
LEMMA RecordsOnlyTag ==
    ASSUME NEW c \in Cursor, NEW r \in Repos, NEW tag \in Tags, NEW H, NEW T,
           RecordsOnly(c, H, T), <<r, tag>> \in T
    PROVE  RecordsOnly(RecordTag(c, r, tag), H, T)
  <1> DEFINE d == RecordTag(c, r, tag)
  <1>1. /\ LastBuiltTag(d, r) = tag
        /\ LastSeenSHA(d, r) = LastSeenSHA(c, r)
        /\ \A s \in Repos \ {r} : d[s] = c[s]
    BY RecordTagFacts
  <1> HIDE DEF d
  <1>2. \A s \in Repos \ {r} : /\ LastSeenSHA(d, s) = LastSeenSHA(c, s)
                              /\ LastBuiltTag(d, s) = LastBuiltTag(c, s)
    BY <1>1 DEF LastSeenSHA, LastBuiltTag
  <1>3. RecordsOnly(d, H, T)
    BY <1>1, <1>2 DEF RecordsOnly
  <1> QED
    BY <1>3 DEF d

\* /resetcursor adds no claim.
LEMMA RecordsOnlyWithout ==
    ASSUME NEW c \in Cursor, NEW r \in Repos, NEW H, NEW T, RecordsOnly(c, H, T)
    PROVE  RecordsOnly(WithoutEntry(c, r), H, T)
  <1> DEFINE d == WithoutEntry(c, r)
  <1>1. /\ LastSeenSHA(d, r) = None
        /\ LastBuiltTag(d, r) = None
        /\ \A s \in Repos \ {r} : d[s] = c[s]
    BY WithoutEntryFacts
  <1> HIDE DEF d
  <1>2. RecordsOnly(d, H, T)
    BY <1>1 DEF RecordsOnly, LastSeenSHA, LastBuiltTag
  <1> QED
    BY <1>2 DEF d

\* /setcursor adds only the claim it sets.
LEMMA RecordsOnlyPinned ==
    ASSUME NEW c \in Cursor, NEW r \in Repos, NEW sha \in Commits, NEW H, NEW T,
           RecordsOnly(c, H, T), <<r, sha>> \in H
    PROVE  RecordsOnly(PinnedAt(c, r, sha), H, T)
  <1> DEFINE d == PinnedAt(c, r, sha)
  <1>1. /\ LastSeenSHA(d, r) = sha
        /\ LastBuiltTag(d, r) = None
        /\ \A s \in Repos \ {r} : d[s] = c[s]
    BY PinnedAtFacts
  <1> HIDE DEF d
  <1>2. \A s \in Repos \ {r} : /\ LastSeenSHA(d, s) = LastSeenSHA(c, s)
                              /\ LastBuiltTag(d, s) = LastBuiltTag(c, s)
    BY <1>1 DEF LastSeenSHA, LastBuiltTag
  <1>3. RecordsOnly(d, H, T)
    BY <1>1, <1>2 DEF RecordsOnly
  <1> QED
    BY <1>3 DEF d
=============================================================================
