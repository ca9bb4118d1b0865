-------------------------- MODULE ChangelogProofs ---------------------------
(***************************************************************************)
(* Proofs about Changelog: the one pass of ParseChangelog computes what    *)
(* its documentation says of the whole text, for texts of any length.      *)
(***************************************************************************)
EXTENDS Changelog, FiniteSetTheorems, SequenceTheorems, TLAPS

Line == Versions \cup {Section, Untitled, Bullet, Other}

\* Types.
ParserTypes ==
    /\ pc \in {"scanning", "returned", "panicked"}
    /\ text \in Seq(Line)
    /\ inUnreleased \in BOOLEAN /\ seenAnyH2 \in BOOLEAN
    /\ unreleasedOpened \in BOOLEAN /\ unreleasedIsFirstH2 \in BOOLEAN
    /\ unreleasedBullets \in Nat
    /\ latestVersion \in Versions \cup {None}

\* Min, a CHOOSE, speaks of a set only if the set has a least element.
HasLeast(S) == S # {} => \E m \in S : \A k \in S : m <= k

\* The flags say what has been read: any heading, a section, and whether the
\* first section is still open.
FlagsInv ==
    /\ seenAnyH2 <=> Headings # {}
    /\ unreleasedOpened <=> Sections # {}
    /\ inUnreleased <=> Sections # {} /\ \A h \in Headings : h <= Min(Sections)

\* What SummaryIsTheReading says, in parts.
BulletsInv == unreleasedBullets = Cardinality(UnreleasedBullets)

FirstInv == unreleasedIsFirstH2 <=> Sections # {} /\ Min(Sections) = Min(Headings)

VersionInv ==
    latestVersion = IF Places(Versions) = {} THEN None ELSE text[Min(Places(Versions))]

\* The inductive invariant.
ReadInv ==
    /\ HasLeast(Headings) /\ HasLeast(Sections) /\ HasLeast(Places(Versions))
    /\ FlagsInv
    /\ BulletsInv
    /\ FirstInv
    /\ VersionInv

ParserInv == ParserTypes /\ (pc # "panicked" => ReadInv)

-----------------------------------------------------------------------------
\* What Min is, where there is one.
LEMMA MinLeast ==
    ASSUME NEW S, HasLeast(S), S # {}
    PROVE  Min(S) \in S /\ \A k \in S : Min(S) <= k
BY DEF HasLeast, Min

\* An element above all others becomes the least of the empty set only.
LEMMA MinOfMore ==
    ASSUME NEW n \in Nat, NEW S \in SUBSET (1 .. n), HasLeast(S)
    PROVE  /\ HasLeast(S \cup {n + 1})
           /\ S = {} => Min(S \cup {n + 1}) = n + 1
           /\ S # {} => Min(S \cup {n + 1}) = Min(S)
<1> DEFINE T == S \cup {n + 1}
<1>1. CASE S = {}
    <2>1. HasLeast(T)
        BY <1>1 DEF HasLeast
    <2>2. Min(T) \in T
        BY <2>1, MinLeast
    <2> QED BY <1>1, <2>1, <2>2
<1>2. CASE S # {}
    <2>1. Min(S) \in S /\ \A k \in S : Min(S) <= k
        BY <1>2, MinLeast
    <2>2. Min(S) \in T /\ \A k \in T : Min(S) <= k
        <3>1. Min(S) \in 1 .. n
            BY <2>1
        <3>2. Min(S) <= n + 1
            BY <3>1
        <3> QED BY <2>1, <3>2, Zenon
    <2>3. HasLeast(T)
        BY <2>2 DEF HasLeast
    <2>4. Min(T) \in T /\ \A k \in T : Min(T) <= k
        BY <2>3, MinLeast
    <2>5. Min(T) = Min(S)
        <3>0. \A k \in T : k \in Int
            OBVIOUS
        <3>1. Min(S) \in Int /\ Min(T) \in Int
            BY <2>2, <2>4, <3>0, Zenon
        <3>2. Min(S) <= Min(T) /\ Min(T) <= Min(S)
            BY <2>2, <2>4, Zenon
        <3> QED BY <3>1, <3>2
    <2> QED BY <1>2, <2>3, <2>5
<1> QED BY <1>1, <1>2

\* Places are positions of the text.
LEMMA PlacesInText ==
    ASSUME text \in Seq(Line), NEW kinds
    PROVE  Len(text) \in Nat /\ Places(kinds) \in SUBSET (1 .. Len(text))
BY DEF Places

\* A line read is a new place of its kinds.
LEMMA PlacesScan ==
    ASSUME text \in Seq(Line), NEW l \in Line, Scan(l), NEW kinds
    PROVE  /\ l \in kinds => Places(kinds)' = Places(kinds) \cup {Len(text) + 1}
           /\ l \notin kinds => Places(kinds)' = Places(kinds)
<1>1. /\ text' \in Seq(Line) /\ Len(text') = Len(text) + 1
      /\ \A i \in 1 .. Len(text) : text'[i] = text[i]
      /\ text'[Len(text) + 1] = l
    BY DEF Scan
<1>2. /\ DOMAIN text = 1 .. Len(text)
      /\ DOMAIN text' = (1 .. Len(text)) \cup {Len(text) + 1}
      /\ Len(text) \in Nat
    BY <1>1
<1> QED BY <1>1, <1>2 DEF Places

\* A line read keeps what the places of any kinds are, up to a new one.
LEMMA PlacesKeepLeast ==
    ASSUME text \in Seq(Line), NEW l \in Line, Scan(l), NEW kinds,
           HasLeast(Places(kinds))
    PROVE  HasLeast(Places(kinds)')
BY PlacesInText, PlacesScan, MinOfMore

\* The bullets already counted stay so; the line read is one more if it is a
\* bullet and the section is open.
LEMMA BulletsScan ==
    ASSUME ParserTypes, ReadInv, NEW l \in Line, Scan(l)
    PROVE  UnreleasedBullets' =
             IF l = Bullet /\ inUnreleased
             THEN UnreleasedBullets \cup {Len(text) + 1} ELSE UnreleasedBullets
<1> DEFINE n == Len(text)
<1>0. /\ n \in Nat
      /\ Sections \in SUBSET (1 .. n) /\ Headings \in SUBSET (1 .. n)
      /\ Places({Bullet}) \in SUBSET (1 .. n)
      /\ HasLeast(Sections)
    BY PlacesInText DEF ParserTypes, Sections, Headings, ReadInv
<1>1. /\ l = Bullet => Places({Bullet})' = Places({Bullet}) \cup {n + 1}
      /\ l # Bullet => Places({Bullet})' = Places({Bullet})
    BY PlacesScan DEF ParserTypes
<1>2. /\ l = Section => Sections' = Sections \cup {n + 1}
      /\ l # Section => Sections' = Sections
    BY PlacesScan DEF ParserTypes, Sections
<1>3. Headings' = Headings \/ Headings' = Headings \cup {n + 1}
    BY PlacesScan DEF ParserTypes, Headings
<1>4. l = Bullet => Headings' = Headings /\ Sections' = Sections
    BY PlacesScan, LineAssumption DEF ParserTypes, Headings, Sections
<1>5. Sections # {} => Sections' # {} /\ Min(Sections') = Min(Sections) /\ Min(Sections) \in 1 .. n
    BY <1>0, <1>2, MinOfMore, MinLeast
<1>6. Sections = {} => Sections' = {} \/ Min(Sections') = n + 1
    BY <1>0, <1>2, MinOfMore
<1>7. inUnreleased <=> Sections # {} /\ \A h \in Headings : h <= Min(Sections)
    BY DEF ReadInv, FlagsInv
<1> HIDE DEF n
<1>8. ASSUME NEW i \in Places({Bullet})
      PROVE  i \in UnreleasedBullets' <=> i \in UnreleasedBullets
    <2>0. i \in 1 .. n /\ i \in Places({Bullet})'
        BY <1>0, <1>1
    <2>1. CASE Sections = {}
        <3>1. i \notin UnreleasedBullets
            BY <2>1 DEF UnreleasedBullets
        <3>2. i \notin UnreleasedBullets'
            BY <1>0, <1>6, <2>0, <2>1 DEF UnreleasedBullets
        <3> QED BY <3>1, <3>2
    <2>2. CASE Sections # {}
        <3>1. (\A h \in Headings' : h <= Min(Sections) \/ h > i)
                <=> (\A h \in Headings : h <= Min(Sections) \/ h > i)
            <4>1. n + 1 > i
                BY <1>0, <2>0
            <4> QED BY <1>3, <4>1, Zenon
        <3> QED BY <1>5, <2>0, <2>2, <3>1 DEF UnreleasedBullets
    <2> QED BY <2>1, <2>2
<1>9. ASSUME l = Bullet
      PROVE  n + 1 \in UnreleasedBullets' <=> inUnreleased
    <2>1. n + 1 \in Places({Bullet})'
        BY <1>1, <1>9
    <2>2. CASE Sections = {}
        BY <1>4, <1>7, <1>9, <2>2 DEF UnreleasedBullets
    <2>3. CASE Sections # {}
        <3>1. (\A h \in Headings : h <= Min(Sections) \/ h > n + 1)
                <=> (\A h \in Headings : h <= Min(Sections))
            BY <1>0, <1>5, <2>3
        <3>2. Min(Sections) < n + 1
            BY <1>0, <1>5, <2>3
        <3> QED BY <1>4, <1>7, <1>9, <2>1, <2>3, <3>1, <3>2 DEF UnreleasedBullets
    <2> QED BY <2>2, <2>3
<1>10. /\ UnreleasedBullets' \subseteq Places({Bullet})'
       /\ UnreleasedBullets \subseteq Places({Bullet})
    BY DEF UnreleasedBullets
<1>11. CASE l = Bullet
    <2>1. UnreleasedBullets' \ {n + 1} = UnreleasedBullets \ {n + 1}
        BY <1>1, <1>8, <1>10, <1>11
    <2>2. n + 1 \notin UnreleasedBullets
        BY <1>0, <1>10
    <2>3. CASE inUnreleased
        <3>1. UnreleasedBullets' = UnreleasedBullets \cup {n + 1}
            BY <1>9, <1>11, <2>1, <2>2, <2>3
        <3> QED BY <1>11, <2>3, <3>1 DEF n
    <2>4. CASE ~inUnreleased
        <3>1. UnreleasedBullets' = UnreleasedBullets
            BY <1>9, <1>11, <2>1, <2>2, <2>4
        <3> QED BY <2>4, <3>1
    <2> QED BY <2>3, <2>4
<1>12. CASE l # Bullet
    BY <1>1, <1>8, <1>10, <1>12
<1> QED BY <1>11, <1>12

\* There are finitely many bullets, and none after the end of the text.
LEMMA BulletsFinite ==
    ASSUME ParserTypes
    PROVE  IsFiniteSet(UnreleasedBullets) /\ Len(text) + 1 \notin UnreleasedBullets
<1>1. UnreleasedBullets \in SUBSET (1 .. Len(text)) /\ Len(text) \in Nat
    BY PlacesInText DEF UnreleasedBullets, ParserTypes
<1>2. IsFiniteSet(1 .. Len(text))
    BY <1>1, FS_Interval
<1>3. IsFiniteSet(UnreleasedBullets)
    BY <1>1, <1>2, FS_Subset
<1>4. Len(text) + 1 \notin 1 .. Len(text)
    BY <1>1
<1> QED BY <1>1, <1>3, <1>4, Zenon

-----------------------------------------------------------------------------
\* Nothing has been read.
LEMMA InitInv == Init => ParserInv
<1> SUFFICES ASSUME Init PROVE ParserInv
    OBVIOUS
<1>1. \A kinds : Places(kinds) = {}
    BY DEF Init, Places
<1>2. Headings = {} /\ Sections = {} /\ Places(Versions) = {} /\ UnreleasedBullets = {}
    BY <1>1 DEF Headings, Sections, UnreleasedBullets
<1>3. ParserTypes
    <2>1. text \in Seq(Line) /\ unreleasedBullets \in Nat
        BY DEF Init
    <2> QED BY <2>1, Zenon DEF Init, ParserTypes
<1>4. HasLeast(Headings) /\ HasLeast(Sections) /\ HasLeast(Places(Versions))
    BY <1>2 DEF HasLeast
<1>5. FlagsInv /\ FirstInv /\ VersionInv
    BY <1>2 DEF Init, FlagsInv, FirstInv, VersionInv
<1>6. BulletsInv
    BY <1>2, FS_EmptySet DEF Init, BulletsInv
<1> QED BY <1>3, <1>4, <1>5, <1>6 DEF ParserInv, ReadInv

\* A line read is a line of the text, whichever it is.
LEMMA ScanTypes ==
    ASSUME ParserTypes, NEW l \in Line, Scan(l)
    PROVE  text' \in Seq(Line)
BY DEF ParserTypes, Scan

\* A line that is no heading leaves the headings, and so the flags, alone.
LEMMA PlainLineInv ==
    ASSUME ParserInv, NEW l \in {Bullet, Other}, PlainLine(l)
    PROVE  ParserInv'
<1>0. l \in Line /\ Scan(l) /\ ParserTypes /\ ReadInv
    BY DEF PlainLine, Scan, ParserInv, Line
<1>1. text' \in Seq(Line)
    BY <1>0, ScanTypes
<1>2. ParserTypes'
    BY <1>1 DEF ParserInv, ParserTypes, PlainLine
<1>3. l \notin Versions \cup {Section} /\ l \notin {Section} /\ l \notin Versions
    BY LineAssumption
<1>4. /\ Headings' = Headings /\ Sections' = Sections
      /\ Places(Versions)' = Places(Versions)
    BY <1>0, <1>3, PlacesScan DEF ParserTypes, Headings, Sections
<1>5. HasLeast(Headings') /\ HasLeast(Sections') /\ HasLeast(Places(Versions)')
    BY <1>0, <1>4 DEF ReadInv
<1>6. FlagsInv' /\ FirstInv'
    BY <1>0, <1>4 DEF ReadInv, FlagsInv, FirstInv, PlainLine
<1>7. VersionInv'
    <2>1. Places(Versions) # {} => text'[Min(Places(Versions))] = text[Min(Places(Versions))]
        <3>1. Places(Versions) # {} => Min(Places(Versions)) \in 1 .. Len(text)
            BY <1>0, PlacesInText, MinLeast DEF ReadInv, ParserTypes
        <3> QED BY <1>0, <3>1 DEF ParserTypes, Scan
    <2> QED BY <1>0, <1>4, <2>1 DEF ReadInv, VersionInv, PlainLine
<1>8. BulletsInv'
    <2>1. IsFiniteSet(UnreleasedBullets) /\ Len(text) + 1 \notin UnreleasedBullets
        BY <1>0, BulletsFinite
    <2>2. unreleasedBullets = Cardinality(UnreleasedBullets)
        BY <1>0 DEF ReadInv, BulletsInv
    <2>3. CASE l = Bullet /\ inUnreleased
        <3>1. UnreleasedBullets' = UnreleasedBullets \cup {Len(text) + 1}
            BY <1>0, <2>3, BulletsScan
        <3>2. Cardinality(UnreleasedBullets') = Cardinality(UnreleasedBullets) + 1
            BY <2>1, <3>1, FS_AddElement
        <3> QED BY <2>2, <2>3, <3>2 DEF BulletsInv, PlainLine
    <2>4. CASE ~(l = Bullet /\ inUnreleased)
        <3>1. UnreleasedBullets' = UnreleasedBullets
            BY <1>0, <2>4, BulletsScan
        <3> QED BY <2>2, <2>4, <3>1 DEF BulletsInv, PlainLine
    <2> QED BY <2>3, <2>4
<1> QED BY <1>2, <1>5, <1>6, <1>7, <1>8 DEF ParserInv, ReadInv

\* A heading is no bullet.
LEMMA HeadingKeepsBullets ==
    ASSUME ParserTypes, ReadInv, NEW l \in Line, l # Bullet, Scan(l),
           UNCHANGED unreleasedBullets
    PROVE  BulletsInv'
<1>1. UnreleasedBullets' = UnreleasedBullets
    BY BulletsScan
<1> QED BY <1>1 DEF ReadInv, BulletsInv

\* A version heading ends the section, and is the latest if it is the first.
LEMMA VersionHeadingInv ==
    ASSUME ParserInv, NEW v \in Versions, VersionHeading(v)
    PROVE  ParserInv'
<1> DEFINE n == Len(text)
<1>0. v \in Line /\ Scan(v) /\ ParserTypes /\ ReadInv /\ v # Section /\ v # Bullet /\ v # None
    BY LineAssumption DEF VersionHeading, Scan, ParserInv, Line
<1>1. text' \in Seq(Line) /\ text'[n + 1] = v /\ \A i \in 1 .. n : text'[i] = text[i]
    BY <1>0, ScanTypes DEF ParserTypes, Scan
<1>2. ParserTypes'
    BY <1>0, <1>1 DEF ParserTypes, VersionHeading
<1>3. /\ Headings' = Headings \cup {n + 1} /\ Sections' = Sections
      /\ Places(Versions)' = Places(Versions) \cup {n + 1}
    BY <1>0, PlacesScan DEF ParserTypes, Headings, Sections
<1>4. /\ n \in Nat /\ Headings \in SUBSET (1 .. n) /\ Sections \in SUBSET (1 .. n)
      /\ Places(Versions) \in SUBSET (1 .. n)
      /\ HasLeast(Headings) /\ HasLeast(Sections) /\ HasLeast(Places(Versions))
    BY <1>0, PlacesInText DEF ParserTypes, ReadInv, Headings, Sections
<1> HIDE DEF n
<1>5. HasLeast(Headings') /\ HasLeast(Sections') /\ HasLeast(Places(Versions)')
    BY <1>3, <1>4, MinOfMore
<1>6. Sections # {} => Min(Sections) \in 1 .. n /\ Headings # {}
    <2>1. Sections \subseteq Headings
        BY DEF Sections, Headings, Places
    <2> QED BY <1>4, <2>1, MinLeast
<1>7. FlagsInv'
    <2>1. ~inUnreleased' /\ seenAnyH2' /\ Headings' # {}
        BY <1>3 DEF VersionHeading
    <2>2. unreleasedOpened' <=> Sections' # {}
        BY <1>0, <1>3 DEF ReadInv, FlagsInv, VersionHeading
    <2>3. Sections # {} => ~(n + 1 <= Min(Sections))
        BY <1>4, <1>6
    <2> QED BY <1>3, <2>1, <2>2, <2>3, Zenon DEF FlagsInv
<1>8. FirstInv'
    <2>1. Headings # {} => Min(Headings') = Min(Headings)
        BY <1>3, <1>4, MinOfMore
    <2> QED BY <1>0, <1>3, <1>6, <2>1 DEF ReadInv, FirstInv, VersionHeading
<1>9. VersionInv'
    <2>1. CASE Places(Versions) = {}
        <3>1. latestVersion = None
            BY <1>0, <2>1 DEF ReadInv, VersionInv
        <3>2. Min(Places(Versions)') = n + 1 /\ Places(Versions)' # {}
            BY <1>3, <1>4, <2>1, MinOfMore
        <3> QED BY <1>1, <3>1, <3>2 DEF VersionInv, VersionHeading
    <2>2. CASE Places(Versions) # {}
        <3>1. Min(Places(Versions)) \in Places(Versions)
            BY <1>4, <2>2, MinLeast
        <3>2. latestVersion = text[Min(Places(Versions))] /\ latestVersion # None
            BY <1>0, <2>2, <3>1, LineAssumption DEF ReadInv, VersionInv, Places
        <3>3. Min(Places(Versions)') = Min(Places(Versions)) /\ Places(Versions)' # {}
            BY <1>3, <1>4, <2>2, MinOfMore
        <3>4. text'[Min(Places(Versions))] = text[Min(Places(Versions))]
            BY <1>1, <1>4, <3>1
        <3> QED BY <3>2, <3>3, <3>4 DEF VersionInv, VersionHeading
    <2> QED BY <2>1, <2>2
<1>10. BulletsInv'
    BY <1>0, HeadingKeepsBullets DEF VersionHeading
<1> QED BY <1>2, <1>5, <1>7, <1>8, <1>9, <1>10 DEF ParserInv, ReadInv

\* The first section opens, a later one closes it.
LEMMA SectionHeadingInv ==
    ASSUME ParserInv, SectionHeading
    PROVE  ParserInv'
<1> DEFINE n == Len(text)
<1>0. Section \in Line /\ Scan(Section) /\ ParserTypes /\ ReadInv /\ Section # Bullet
    BY LineAssumption DEF SectionHeading, Scan, ParserInv, Line
<1>1. text' \in Seq(Line) /\ \A i \in 1 .. n : text'[i] = text[i]
    BY <1>0, ScanTypes DEF ParserTypes, Scan
<1>2. ParserTypes'
    BY <1>0, <1>1 DEF ParserTypes, SectionHeading
<1>3. /\ Headings' = Headings \cup {n + 1} /\ Sections' = Sections \cup {n + 1}
      /\ Places(Versions)' = Places(Versions)
    BY <1>0, LineAssumption, PlacesScan DEF ParserTypes, Headings, Sections
<1>4. /\ n \in Nat /\ Headings \in SUBSET (1 .. n) /\ Sections \in SUBSET (1 .. n)
      /\ Places(Versions) \in SUBSET (1 .. n)
      /\ HasLeast(Headings) /\ HasLeast(Sections) /\ HasLeast(Places(Versions))
    BY <1>0, PlacesInText DEF ParserTypes, ReadInv, Headings, Sections
<1> HIDE DEF n
<1>5. HasLeast(Headings') /\ HasLeast(Sections') /\ HasLeast(Places(Versions)')
    BY <1>3, <1>4, MinOfMore
<1>6. /\ Sections # {} => Min(Sections) \in 1 .. n /\ Headings # {}
      /\ Headings # {} => Min(Headings) \in 1 .. n
    <2>1. Sections \subseteq Headings
        BY DEF Sections, Headings, Places
    <2> QED BY <1>4, <2>1, MinLeast
<1>7. /\ Sections = {} => Min(Sections') = n + 1
      /\ Sections # {} => Min(Sections') = Min(Sections)
      /\ Headings = {} => Min(Headings') = n + 1
      /\ Headings # {} => Min(Headings') = Min(Headings)
    BY <1>3, <1>4, MinOfMore
<1>8. /\ seenAnyH2 <=> Headings # {}
      /\ unreleasedOpened <=> Sections # {}
      /\ unreleasedIsFirstH2 <=> Sections # {} /\ Min(Sections) = Min(Headings)
    BY <1>0 DEF ReadInv, FlagsInv, FirstInv
<1>9. FlagsInv'
    <2>1. seenAnyH2' /\ unreleasedOpened' /\ Headings' # {} /\ Sections' # {}
        BY <1>3 DEF SectionHeading
    <2>2. inUnreleased' <=> Sections = {}
        BY <1>8 DEF SectionHeading
    <2>3. CASE Sections = {}
        <3>1. \A h \in Headings' : h <= n + 1
            BY <1>3, <1>4
        <3> QED BY <1>7, <2>1, <2>2, <2>3, <3>1 DEF FlagsInv
    <2>4. CASE Sections # {}
        <3>1. ~(n + 1 <= Min(Sections'))
            BY <1>4, <1>6, <1>7, <2>4
        <3> QED BY <1>3, <2>1, <2>2, <2>4, <3>1, Zenon DEF FlagsInv
    <2> QED BY <2>3, <2>4
<1>10. FirstInv'
    <2>1. Sections' # {}
        BY <1>3
    <2>2. unreleasedIsFirstH2' <=>
             \/ Sections # {} /\ Min(Sections) = Min(Headings)
             \/ Sections = {} /\ Headings = {}
        BY <1>8 DEF SectionHeading
    <2>3. Sections = {} /\ Headings # {} => Min(Sections') # Min(Headings')
        BY <1>4, <1>6, <1>7
    <2> QED BY <1>6, <1>7, <2>1, <2>2, <2>3 DEF FirstInv
<1>11. VersionInv'
    <2>1. Places(Versions) # {} => text'[Min(Places(Versions))] = text[Min(Places(Versions))]
        BY <1>1, <1>4, MinLeast
    <2> QED BY <1>0, <1>3, <2>1 DEF ReadInv, VersionInv, SectionHeading
<1>12. BulletsInv'
    BY <1>0, HeadingKeepsBullets DEF SectionHeading
<1> QED BY <1>2, <1>5, <1>9, <1>10, <1>11, <1>12 DEF ParserInv, ReadInv

\* The panic leaves no summary, only a text.
LEMMA UntitledHeadingInv ==
    ASSUME ParserInv, UntitledHeading
    PROVE  ParserInv'
<1>1. Untitled \in Line /\ Scan(Untitled) /\ ParserTypes
    BY DEF UntitledHeading, ParserInv, Line
<1>2. text' \in Seq(Line)
    BY <1>1, ScanTypes
<1> QED BY <1>1, <1>2 DEF ParserInv, ParserTypes, UntitledHeading

\* A step that changes none of the parser's variables but, perhaps, pc.
LEMMA QuietInv ==
    ASSUME ParserInv, Return \/ UNCHANGED vars
    PROVE  ParserInv'
<1>1. /\ UNCHANGED <<text, inUnreleased, seenAnyH2, unreleasedOpened,
                      unreleasedIsFirstH2, unreleasedBullets, latestVersion>>
      /\ pc' # "panicked" => pc # "panicked"
      /\ pc' \in {"scanning", "returned", "panicked"}
    BY DEF Return, vars, ParserInv, ParserTypes
<1>2. ParserTypes'
    BY <1>1 DEF ParserInv, ParserTypes
<1>3. /\ Headings' = Headings /\ Sections' = Sections
      /\ Places(Versions)' = Places(Versions) /\ UnreleasedBullets' = UnreleasedBullets
    BY <1>1 DEF Headings, Sections, Places, UnreleasedBullets
<1>4. ReadInv => ReadInv'
    BY <1>1, <1>3 DEF ReadInv, FlagsInv, BulletsInv, FirstInv, VersionInv
<1> QED BY <1>1, <1>2, <1>4 DEF ParserInv

\* Every turn of the loop keeps the invariant.
LEMMA StepInv == ParserInv /\ [Next]_vars => ParserInv'
BY PlainLineInv, VersionHeadingInv, SectionHeadingInv, UntitledHeadingInv, QuietInv
   DEF Next

(***************************************************************************)
(* ParseChangelog's one pass with its flags returns what its documentation *)
(* says of the text as a whole, however long the text is and wherever the  *)
(* scanner stops: the bullets of the first section that is no version,     *)
(* whether that section is the first, and the first version.               *)
(***************************************************************************)
THEOREM ParserIsRight == Spec => []SummaryIsTheReading
<1>1. ParserInv => SummaryIsTheReading
    BY DEF ParserInv, ReadInv, BulletsInv, FirstInv, VersionInv, SummaryIsTheReading
<1> QED BY <1>1, InitInv, StepInv, PTL DEF Spec
=============================================================================
