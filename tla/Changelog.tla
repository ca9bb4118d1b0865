----------------------------- MODULE Changelog ------------------------------
(***************************************************************************)
(* ParseChangelog of pkg/changelog.go: one pass over the lines of a        *)
(* CHANGELOG.md with four flags, whose result (the unreleased bullets, the *)
(* place of their section, the latest version) decides whether a release   *)
(* task is created and which version it starts from.                       *)
(*                                                                         *)
(* A step is a turn of the scanner's loop; the file is any file, of which  *)
(* a behaviour shows the lines as they are read.  A line is what the       *)
(* parser makes of it: a version heading (the version), another "## "      *)
(* heading, a heading with nothing after "## ", a "- " bullet, or anything *)
(* else.                                                                   *)
(***************************************************************************)
EXTENDS Integers, FiniteSetsExt, SequencesExt

CONSTANTS
    Versions,   \* X.Y.Z or vX.Y.Z
    Section,    \* "## Unreleased", "## WIP", "## Next", ...
    Untitled,   \* "## " and blanks only
    Bullet,     \* "- ..."
    Other,      \* every other line: "# ", "### ", text, an indented bullet
    None,       \* the empty string: no version
    MaxLines    \* bound on the number of lines read

ASSUME LineAssumption ==
    /\ Section \notin Versions
    /\ Bullet \notin Versions \cup {Section}
    /\ Other \notin Versions \cup {Section, Bullet}
    /\ Untitled \notin Versions \cup {Section, Bullet, Other}
    /\ None \notin Versions
    /\ MaxLines \in Nat

VARIABLES
    pc,                 \* "scanning", "returned" or "panicked"
    text,               \* history: the lines read
    inUnreleased, seenAnyH2, unreleasedOpened, unreleasedIsFirstH2,
    unreleasedBullets, latestVersion

vars == <<pc, text, inUnreleased, seenAnyH2, unreleasedOpened,
          unreleasedIsFirstH2, unreleasedBullets, latestVersion>>

Init ==
    /\ pc = "scanning"
    /\ text = <<>>
    /\ inUnreleased = FALSE /\ seenAnyH2 = FALSE
    /\ unreleasedOpened = FALSE /\ unreleasedIsFirstH2 = FALSE
    /\ unreleasedBullets = 0
    /\ latestVersion = None

-----------------------------------------------------------------------------
\* scanner.Scan delivers a line.
Scan(l) ==
    /\ pc = "scanning"
    /\ Len(text) < MaxLines
    /\ text' = Append(text, l)

\* No heading: a bullet counts inside the unreleased section.
PlainLine(l) ==
    /\ Scan(l)
    /\ unreleasedBullets' = IF inUnreleased /\ l = Bullet
                            THEN unreleasedBullets + 1 ELSE unreleasedBullets
    /\ UNCHANGED <<pc, inUnreleased, seenAnyH2, unreleasedOpened,
                   unreleasedIsFirstH2, latestVersion>>

\* A version heading ends the section; the first one is the latest version.
VersionHeading(v) ==
    /\ Scan(v)
    /\ seenAnyH2' = TRUE
    /\ latestVersion' = IF latestVersion = None THEN v ELSE latestVersion
    /\ inUnreleased' = FALSE
    /\ UNCHANGED <<pc, unreleasedOpened, unreleasedIsFirstH2, unreleasedBullets>>

\* Mutant of SectionHeading: a later section is opened, too.
SectionHeadingReopens ==
    /\ Scan(Section)
    /\ seenAnyH2' = TRUE
    /\ unreleasedIsFirstH2' = (unreleasedIsFirstH2 \/ ~seenAnyH2)
    /\ inUnreleased' = TRUE
    /\ unreleasedOpened' = TRUE
    /\ UNCHANGED <<pc, unreleasedBullets, latestVersion>>

\* Only the first heading that is no version opens the unreleased section.
SectionHeading ==
    /\ Scan(Section)
    /\ seenAnyH2' = TRUE
    /\ unreleasedIsFirstH2' =
            (unreleasedIsFirstH2 \/ (~unreleasedOpened /\ ~seenAnyH2))
    /\ inUnreleased' = ~unreleasedOpened
    /\ unreleasedOpened' = TRUE
    /\ UNCHANGED <<pc, unreleasedBullets, latestVersion>>

\* TrimRight leaves "##" of the heading, and isVersionHeader slices it from
\* its third byte: out of range.
UntitledHeading ==
    /\ Scan(Untitled)
    /\ seenAnyH2' = TRUE
    /\ pc' = "panicked"
    /\ UNCHANGED <<inUnreleased, unreleasedOpened, unreleasedIsFirstH2,
                   unreleasedBullets, latestVersion>>

(***************************************************************************)
(* scanner.Scan delivers no line: the end of the file, or a line longer    *)
(* than bufio.MaxScanTokenSize; nobody asks for its Err.                   *)
(***************************************************************************)
Return ==
    /\ pc = "scanning"
    /\ pc' = "returned"
    /\ UNCHANGED <<text, inUnreleased, seenAnyH2, unreleasedOpened,
                   unreleasedIsFirstH2, unreleasedBullets, latestVersion>>

Next ==
    \/ \E l \in {Bullet, Other} : PlainLine(l)
    \/ \E v \in Versions : VersionHeading(v)
    \/ SectionHeading
    \/ UntitledHeading
    \/ Return

Spec == Init /\ [][Next]_vars

-----------------------------------------------------------------------------
(***************************************************************************)
(* What the documentation of ParseChangelog and ChangelogSummary says,     *)
(* without a parser: positions and what lies between them.                 *)
(***************************************************************************)
Places(kinds) == {i \in DOMAIN text : text[i] \in kinds}

Headings == Places(Versions \cup {Section})
Sections == Places({Section})

UnreleasedBullets ==
    {i \in Places({Bullet}) :
        /\ Sections # {}
        /\ Min(Sections) < i
        /\ \A h \in Headings : h <= Min(Sections) \/ h > i}

(***************************************************************************)
(* SummaryIsTheReading: unless the parser panics, the bullets it counts    *)
(* are those directly under the first "## " heading that is no version,    *)
(* up to the next "## " heading of any kind; UnreleasedIsFirst says        *)
(* whether that heading comes before all others; LatestVersion is the      *)
(* first version.  The text this is true of ends before the first line     *)
(* the scanner cannot hold.                                                *)
(***************************************************************************)
SummaryIsTheReading ==
    pc = "returned" =>
        /\ unreleasedBullets = Cardinality(UnreleasedBullets)
        /\ unreleasedIsFirstH2 <=>
                Sections # {} /\ Min(Sections) = Min(Headings)
        /\ latestVersion =
                IF Places(Versions) = {} THEN None
                ELSE text[Min(Places(Versions))]
=============================================================================
