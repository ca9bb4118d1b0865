------------------------- MODULE TagBackstopProofs --------------------------
(***************************************************************************)
(* Proofs about TagBackstop: what the scan of a page finds while tags come *)
(* and go under it, for any set of tags, any epochs and pages of any       *)
(* length.                                                                 *)
(***************************************************************************)
EXTENDS TagBackstop, SequenceTheorems, TLAPS

-----------------------------------------------------------------------------
\* The inductive invariant, in parts.

\* Between runs, and before the scan, the variables of the run are fresh.
Fresh ==
    /\ phase = "idle" => seen = <<>> /\ moved = {}
    /\ phase # "scan" => pos = 1 /\ baseline = -1 /\ best = None

\* A listed tag that has not been deleted is still on the page: only a tag
\* that has moved can be cut again.
StillThere == \A t \in Stayed : Contains(page, t)

\* The scan compares with the epoch of the record, or with none.
BaselineInv ==
    phase = "scan" =>
        IF Contains(seen, last)
        THEN last \in Stayed => baseline = epoch[last]
        ELSE baseline = -1

\* The best tag so far qualifies.
BestInv ==
    best # None =>
        /\ best \in ToSet(seen) \ {last}
        /\ bestEpoch >= baseline
        /\ best \in Stayed => bestEpoch = epoch[best]

\* It is at least as new as all the scan has passed.
PassedInv ==
    phase = "scan" =>
        \A i \in 1 .. pos - 1 :
            seen[i] \in Stayed \ {last} /\ epoch[seen[i]] >= baseline
                => best # None /\ epoch[seen[i]] <= bestEpoch

BackstopInv == TypeOK /\ Fresh /\ StillThere /\ BaselineInv /\ BestInv /\ PassedInv

-----------------------------------------------------------------------------
\* What InsertAt makes of a sequence, element by element.
LEMMA InsertAtProperties ==
    ASSUME NEW S, NEW s \in Seq(S), NEW i \in 1 .. Len(s) + 1, NEW e \in S
    PROVE  /\ InsertAt(s, i, e) \in Seq(S)
           /\ Len(InsertAt(s, i, e)) = Len(s) + 1
           /\ \A j \in 1 .. i - 1 : InsertAt(s, i, e)[j] = s[j]
           /\ InsertAt(s, i, e)[i] = e
           /\ \A j \in i + 1 .. Len(s) + 1 : InsertAt(s, i, e)[j] = s[j - 1]
<1> DEFINE left == SubSeq(s, 1, i - 1)
           right == SubSeq(s, i, Len(s))
           mid == <<e>>
<1>0. Len(s) \in Nat /\ i \in Int /\ \A j \in 1 .. Len(s) : s[j] \in S
    OBVIOUS
<1>1. /\ left \in Seq(S) /\ Len(left) = i - 1
      /\ \A j \in 1 .. i - 1 : left[j] = s[j]
    BY <1>0, SubSeqProperties
<1>2. /\ right \in Seq(S) /\ Len(right) = Len(s) - i + 1
      /\ \A j \in 1 .. Len(s) - i + 1 : right[j] = s[i + j - 1]
    BY <1>0, SubSeqProperties
<1>3. mid \in Seq(S) /\ Len(mid) = 1 /\ mid[1] = e
    OBVIOUS
<1> HIDE DEF left, right, mid
<1>4. /\ left \o mid \in Seq(S) /\ Len(left \o mid) = i
      /\ \A j \in 1 .. i : (left \o mid)[j] = IF j < i THEN s[j] ELSE e
    <2>1. /\ left \o mid \in Seq(S) /\ Len(left \o mid) = Len(left) + Len(mid)
          /\ \A j \in 1 .. Len(left) + Len(mid) : (left \o mid)[j] =
                IF j <= Len(left) THEN left[j] ELSE mid[j - Len(left)]
        BY <1>1, <1>3, ConcatProperties
    <2>2. \A j \in 1 .. i : (left \o mid)[j] = IF j < i THEN s[j] ELSE e
        BY <1>0, <1>1, <1>3, <2>1
    <2> QED BY <1>0, <1>1, <1>3, <2>1, <2>2
<1>5. /\ (left \o mid) \o right \in Seq(S)
      /\ Len((left \o mid) \o right) = Len(s) + 1
      /\ \A j \in 1 .. i - 1 : ((left \o mid) \o right)[j] = s[j]
      /\ ((left \o mid) \o right)[i] = e
      /\ \A j \in i + 1 .. Len(s) + 1 : ((left \o mid) \o right)[j] = s[j - 1]
    <2> DEFINE front == left \o mid
    <2>0. front \in Seq(S) /\ Len(front) = i
          /\ \A j \in 1 .. i : front[j] = IF j < i THEN s[j] ELSE e
        BY <1>4
    <2> HIDE DEF front
    <2>1. /\ front \o right \in Seq(S)
          /\ Len(front \o right) = Len(front) + Len(right)
          /\ \A j \in 1 .. Len(front) + Len(right) : (front \o right)[j] =
                IF j <= Len(front) THEN front[j] ELSE right[j - Len(front)]
        BY <1>2, <2>0, ConcatProperties
    <2>2. /\ \A j \in 1 .. i - 1 : (front \o right)[j] = s[j]
          /\ (front \o right)[i] = e
        BY <1>0, <1>2, <2>0, <2>1
    <2>3. ASSUME NEW j \in i + 1 .. Len(s) + 1
          PROVE  (front \o right)[j] = s[j - 1]
        <3>1. (front \o right)[j] = right[j - i] /\ j - i \in 1 .. Len(s) - i + 1
            BY <1>0, <1>2, <2>0, <2>1
        <3>2. right[j - i] = s[i + (j - i) - 1] /\ i + (j - i) - 1 = j - 1
            BY <1>0, <1>2, <3>1
        <3> QED BY <3>1, <3>2
    <2>4. Len(front \o right) = Len(s) + 1
        BY <1>0, <1>2, <2>0, <2>1
    <2>5. \A j \in i + 1 .. Len(s) + 1 : (front \o right)[j] = s[j - 1]
        BY <2>3
    <2> QED BY <2>1, <2>2, <2>4, <2>5, Zenon DEF front
<1> QED BY <1>5 DEF InsertAt, left, mid, right

\* The same for RemoveAt.
LEMMA RemoveAtProperties ==
    ASSUME NEW S, NEW s \in Seq(S), NEW i \in 1 .. Len(s)
    PROVE  /\ RemoveAt(s, i) \in Seq(S)
           /\ Len(RemoveAt(s, i)) = Len(s) - 1
           /\ \A j \in 1 .. i - 1 : RemoveAt(s, i)[j] = s[j]
           /\ \A j \in i .. Len(s) - 1 : RemoveAt(s, i)[j] = s[j + 1]
<1> DEFINE left == SubSeq(s, 1, i - 1)
           right == SubSeq(s, i + 1, Len(s))
<1>0. Len(s) \in Nat /\ i \in Int /\ \A j \in 1 .. Len(s) : s[j] \in S
    OBVIOUS
<1>1. /\ left \in Seq(S) /\ Len(left) = i - 1
      /\ \A j \in 1 .. i - 1 : left[j] = s[j]
    BY <1>0, SubSeqProperties
<1>2. /\ right \in Seq(S) /\ Len(right) = Len(s) - i
      /\ \A j \in 1 .. Len(s) - i : right[j] = s[i + j]
    BY <1>0, SubSeqProperties
<1> HIDE DEF left, right
<1>3. /\ left \o right \in Seq(S) /\ Len(left \o right) = Len(s) - 1
      /\ \A j \in 1 .. i - 1 : (left \o right)[j] = s[j]
      /\ \A j \in i .. Len(s) - 1 : (left \o right)[j] = s[j + 1]
    <2>1. /\ left \o right \in Seq(S)
          /\ Len(left \o right) = Len(left) + Len(right)
          /\ \A j \in 1 .. Len(left) + Len(right) : (left \o right)[j] =
                IF j <= Len(left) THEN left[j] ELSE right[j - Len(left)]
        BY <1>1, <1>2, ConcatProperties
    <2>2. \A j \in 1 .. i - 1 : (left \o right)[j] = s[j]
        BY <1>0, <1>1, <1>2, <2>1
    <2>3. ASSUME NEW j \in i .. Len(s) - 1
          PROVE  (left \o right)[j] = s[j + 1]
        <3>1. /\ (left \o right)[j] = right[j - (i - 1)]
              /\ j - (i - 1) \in 1 .. Len(s) - i
            BY <1>0, <1>1, <1>2, <2>1
        <3>2. right[j - (i - 1)] = s[i + (j - (i - 1))] /\ i + (j - (i - 1)) = j + 1
            BY <1>0, <1>2, <3>1
        <3> QED BY <3>1, <3>2
    <2> QED BY <1>0, <1>1, <1>2, <2>1, <2>2, <2>3
<1> QED BY <1>3 DEF RemoveAt, left, right

\* A page that gains a tag it does not have still names every tag once.
LEMMA InsertKeeps ==
    ASSUME NEW S, NEW s \in Seq(S), IsInjective(s), NEW i \in 1 .. Len(s) + 1,
           NEW e \in S, ~Contains(s, e)
    PROVE  /\ IsInjective(InsertAt(s, i, e))
           /\ \A x : Contains(s, x) => Contains(InsertAt(s, i, e), x)
<1> DEFINE t == InsertAt(s, i, e)
<1>1. /\ t \in Seq(S) /\ Len(t) = Len(s) + 1
      /\ \A j \in 1 .. i - 1 : t[j] = s[j]
      /\ t[i] = e
      /\ \A j \in i + 1 .. Len(s) + 1 : t[j] = s[j - 1]
    <2>1. /\ InsertAt(s, i, e) \in Seq(S) /\ Len(InsertAt(s, i, e)) = Len(s) + 1
          /\ \A j \in 1 .. i - 1 : InsertAt(s, i, e)[j] = s[j]
          /\ InsertAt(s, i, e)[i] = e
          /\ \A j \in i + 1 .. Len(s) + 1 : InsertAt(s, i, e)[j] = s[j - 1]
        BY InsertAtProperties
    <2> QED BY <2>1, Zenon DEF t
<1> HIDE DEF t
<1>2. DOMAIN t = 1 .. Len(s) + 1 /\ DOMAIN s = 1 .. Len(s) /\ Len(s) \in Nat
    BY <1>1
<1>3. \A j \in 1 .. Len(s) : s[j] # e
    BY DEF Contains
<1>4. IsInjective(t)
    <2> SUFFICES ASSUME NEW a \in 1 .. Len(s) + 1, NEW b \in 1 .. Len(s) + 1,
                        t[a] = t[b], a < b
                 PROVE  FALSE
        BY <1>2 DEF IsInjective
    <2>1. \A j, k \in 1 .. Len(s) : s[j] = s[k] => j = k
        BY <1>2, Zenon DEF IsInjective
    <2>2. CASE b < i
        <3>1. t[a] = s[a] /\ t[b] = s[b]
            BY <1>1, <2>2
        <3>2. a \in 1 .. Len(s) /\ b \in 1 .. Len(s) /\ a # b
            BY <1>2, <2>2
        <3> QED BY <2>1, <3>1, <3>2
    <2>3. CASE b = i
        BY <1>1, <1>2, <1>3, <2>3
    <2>4. CASE b > i /\ a = i
        <3>0. b \in i + 1 .. Len(s) + 1
            BY <1>2, <2>4
        <3>1. t[b] = s[b - 1] /\ b - 1 \in 1 .. Len(s)
            BY <1>1, <1>2, <3>0
        <3> QED BY <1>1, <1>3, <2>4, <3>1
    <2>5. CASE b > i /\ a < i
        <3>1. t[b] = s[b - 1] /\ b - 1 \in 1 .. Len(s)
            BY <1>1, <1>2, <2>5
        <3>2. t[a] = s[a] /\ a \in 1 .. Len(s) /\ a # b - 1
            BY <1>1, <1>2, <2>5
        <3> QED BY <2>1, <3>1, <3>2
    <2>6. CASE b > i /\ a > i
        <3>1. t[b] = s[b - 1] /\ b - 1 \in 1 .. Len(s)
            BY <1>1, <1>2, <2>6
        <3>2. t[a] = s[a - 1] /\ a - 1 \in 1 .. Len(s) /\ a - 1 # b - 1
            BY <1>1, <1>2, <2>6
        <3> QED BY <2>1, <3>1, <3>2
    <2> QED BY <1>2, <2>2, <2>3, <2>4, <2>5, <2>6
<1>5. ASSUME NEW x, Contains(s, x)
      PROVE  Contains(t, x)
    <2>1. PICK k \in 1 .. Len(s) : s[k] = x
        BY <1>5 DEF Contains
    <2>2. CASE k < i
        BY <1>1, <1>2, <2>1, <2>2 DEF Contains
    <2>3. CASE k >= i
        <3>1. k + 1 \in 1 .. Len(t) /\ t[k + 1] = s[(k + 1) - 1] /\ (k + 1) - 1 = k
            BY <1>1, <1>2, <2>3
        <3> QED BY <2>1, <3>1 DEF Contains
    <2> QED BY <1>2, <2>2, <2>3
<1> QED BY <1>4, <1>5 DEF t

\* A page that loses a tag keeps all the others.
LEMMA RemoveKeeps ==
    ASSUME NEW S, NEW s \in Seq(S), IsInjective(s), NEW i \in 1 .. Len(s)
    PROVE  /\ IsInjective(RemoveAt(s, i))
           /\ \A x : x # s[i] /\ Contains(s, x) => Contains(RemoveAt(s, i), x)
<1> DEFINE t == RemoveAt(s, i)
<1>1. /\ t \in Seq(S) /\ Len(t) = Len(s) - 1
      /\ \A j \in 1 .. i - 1 : t[j] = s[j]
      /\ \A j \in i .. Len(s) - 1 : t[j] = s[j + 1]
    BY RemoveAtProperties, Zenon
<1> HIDE DEF t
<1>2. DOMAIN t = 1 .. Len(s) - 1 /\ DOMAIN s = 1 .. Len(s) /\ Len(s) \in Nat
    BY <1>1
<1>3. IsInjective(t)
    <2> SUFFICES ASSUME NEW a \in 1 .. Len(s) - 1, NEW b \in 1 .. Len(s) - 1,
                        t[a] = t[b], a < b
                 PROVE  FALSE
        BY <1>2 DEF IsInjective
    <2>1. \A j, k \in 1 .. Len(s) : s[j] = s[k] => j = k
        BY <1>2, Zenon DEF IsInjective
    <2>2. CASE b < i
        <3>1. t[a] = s[a] /\ t[b] = s[b]
            BY <1>1, <2>2
        <3>2. a \in 1 .. Len(s) /\ b \in 1 .. Len(s) /\ a # b
            BY <1>2, <2>2
        <3> QED BY <2>1, <3>1, <3>2
    <2>3. CASE b >= i
        <3>1. t[b] = s[b + 1] /\ b + 1 \in 1 .. Len(s)
            BY <1>1, <1>2, <2>3
        <3>2. CASE a < i
            BY <1>1, <1>2, <2>1, <3>1, <3>2
        <3>3. CASE a >= i
            <4>1. t[a] = s[a + 1] /\ a + 1 \in 1 .. Len(s) /\ a + 1 # b + 1
                BY <1>1, <1>2, <3>3
            <4> QED BY <2>1, <3>1, <4>1
        <3> QED BY <3>2, <3>3
    <2> QED BY <2>2, <2>3
<1>4. ASSUME NEW x, x # s[i], Contains(s, x)
      PROVE  Contains(t, x)
    <2>1. PICK k \in 1 .. Len(s) : s[k] = x
        BY <1>4 DEF Contains
    <2>2. CASE k < i
        BY <1>1, <1>2, <2>1, <2>2 DEF Contains
    <2>3. CASE k > i
        <3>1. k - 1 \in 1 .. Len(t) /\ t[k - 1] = s[(k - 1) + 1] /\ (k - 1) + 1 = k
            BY <1>1, <1>2, <2>3
        <3> QED BY <2>1, <3>1 DEF Contains
    <2>4. k # i
        BY <1>4, <2>1
    <2> QED BY <1>2, <2>2, <2>3, <2>4
<1> QED BY <1>3, <1>4 DEF t

-----------------------------------------------------------------------------
\* The first state.
LEMMA InitInv == Init => BackstopInv
<1> SUFFICES ASSUME Init PROVE BackstopInv
    OBVIOUS
<1>1. Len(<<>>) = 0 /\ DOMAIN <<>> = {} /\ <<>> \in Seq(Tags)
    OBVIOUS
<1>2. TypeOK
    <2>1. page \in Seq(Tags) /\ IsInjective(page) /\ seen \in Seq(Tags) /\ IsInjective(seen)
        BY <1>1 DEF Init, IsInjective
    <2>2. pos \in 1 .. Len(seen) + 1 /\ moved \subseteq ToSet(seen)
        BY <1>1 DEF Init
    <2>3. epoch \in [Tags -> Epochs] /\ bestEpoch \in Epochs
        BY TagAssumption DEF Init
    <2>4. last \in Tags \cup {None} /\ imaged \in BOOLEAN
        BY DEF Init
    <2> QED BY <2>1, <2>2, <2>3, <2>4, Zenon DEF Init, TypeOK
<1>3. Fresh /\ BaselineInv /\ BestInv /\ PassedInv
    BY DEF Init, Fresh, BaselineInv, BestInv, PassedInv
<1>4. StillThere
    BY <1>1 DEF Init, StillThere, Stayed, ToSet
<1> QED BY <1>2, <1>3, <1>4 DEF BackstopInv

\* A cut tag is none of those that stayed: what the run has read of them holds.
LEMMA CutTagInv ==
    ASSUME BackstopInv, NEW t \in Tags, NEW i \in 1 .. Len(page) + 1,
           NEW e \in Epochs, CutTag(t, i, e)
    PROVE  BackstopInv'
<1> USE DEF CutTag, record, run
<1>1. /\ page' \in Seq(Tags) /\ IsInjective(page')
      /\ \A x : Contains(page, x) => Contains(page', x)
    <2>1. page \in Seq(Tags) /\ IsInjective(page)
        BY DEF BackstopInv, TypeOK
    <2>2. InsertAt(page, i, t) \in Seq(Tags)
        BY <2>1, InsertAtProperties
    <2> QED BY <2>1, <2>2, InsertKeeps
<1>2. TypeOK'
    BY <1>1 DEF BackstopInv, TypeOK, Contains, ToSet
<1>3. \A x \in Stayed : x # t
    BY DEF BackstopInv, StillThere
<1>4. Stayed' = Stayed /\ \A x \in Stayed : epoch'[x] = epoch[x]
    BY <1>3 DEF BackstopInv, TypeOK, Stayed, ToSet
<1>5. StillThere'
    BY <1>1, <1>4 DEF BackstopInv, StillThere
<1>6. Fresh'
    BY DEF BackstopInv, Fresh
<1>7. BaselineInv'
    BY <1>4 DEF BackstopInv, BaselineInv, Contains
<1>8. BestInv'
    BY <1>4 DEF BackstopInv, BestInv, ToSet
<1>9. PassedInv'
    BY <1>4 DEF BackstopInv, PassedInv
<1> QED BY <1>2, <1>5, <1>6, <1>7, <1>8, <1>9 DEF BackstopInv

\* A deleted tag joins those that moved.
LEMMA DeleteTagInv ==
    ASSUME BackstopInv, NEW i \in DOMAIN page, DeleteTag(i)
    PROVE  BackstopInv'
<1> USE DEF DeleteTag, record, run
<1>0. page \in Seq(Tags) /\ IsInjective(page) /\ i \in 1 .. Len(page) /\ page[i] \in Tags
    BY DEF BackstopInv, TypeOK
<1>1. /\ page' \in Seq(Tags) /\ IsInjective(page')
      /\ \A x : x # page[i] /\ Contains(page, x) => Contains(page', x)
    BY <1>0, RemoveAtProperties, RemoveKeeps
<1>2. TypeOK'
    BY <1>0, <1>1, TagAssumption DEF BackstopInv, TypeOK, Contains, ToSet
<1>3. Stayed' = Stayed \ {page[i]}
    BY DEF Stayed, ToSet
<1>4. \A x \in Stayed' : epoch'[x] = epoch[x]
    BY <1>0, <1>3 DEF BackstopInv, TypeOK
<1>5. StillThere'
    BY <1>1, <1>3 DEF BackstopInv, StillThere
<1>6. Fresh'
    BY DEF BackstopInv, Fresh, ToSet
<1>7. BaselineInv'
    BY <1>3, <1>4 DEF BackstopInv, BaselineInv, Contains
<1>8. BestInv'
    BY <1>3, <1>4 DEF BackstopInv, BestInv, ToSet
<1>9. PassedInv'
    BY <1>3, <1>4 DEF BackstopInv, PassedInv
<1> QED BY <1>2, <1>5, <1>6, <1>7, <1>8, <1>9 DEF BackstopInv

\* A record that is taken back between two runs: no run compares with it yet.
LEMMA TakenBackInv ==
    ASSUME BackstopInv, NEW t \in Tags \cup {None}, TakenBack(t)
    PROVE  BackstopInv'
<1> USE DEF TakenBack, github, run
<1>1. TypeOK'
    BY DEF BackstopInv, TypeOK, Contains, ToSet
<1>2. StillThere'
    BY DEF BackstopInv, StillThere, Stayed, ToSet, Contains
<1>3. Fresh' /\ BaselineInv' /\ PassedInv'
    BY DEF BackstopInv, Fresh, BaselineInv, PassedInv
<1>4. BestInv'
    BY DEF BackstopInv, Fresh, BestInv
<1> QED BY <1>1, <1>2, <1>3, <1>4 DEF BackstopInv

\* A listed page is the page.
LEMMA ListTagsInv ==
    ASSUME BackstopInv, ListTags
    PROVE  BackstopInv'
<1> USE DEF ListTags, github, record
<1>0. pos = 1 /\ baseline = -1 /\ best = None /\ moved = {} /\ seen = <<>>
    BY DEF BackstopInv, Fresh
<1>1. TypeOK'
    BY <1>0 DEF BackstopInv, TypeOK, Contains, ToSet
<1>2. StillThere'
    BY <1>0 DEF BackstopInv, TypeOK, StillThere, Stayed, ToSet, Contains
<1>3. Fresh' /\ BestInv' /\ PassedInv'
    BY <1>0 DEF Fresh, BestInv, PassedInv
<1>4. BaselineInv'
    BY <1>0 DEF BaselineInv, Contains
<1> QED BY <1>1, <1>2, <1>3, <1>4 DEF BackstopInv

\* The first request asks for the record's epoch.
LEMMA ReadBaselineInv ==
    ASSUME BackstopInv, ReadBaseline
    PROVE  BackstopInv'
<1> USE DEF ReadBaseline, GetCommitEpoch, github, record
<1>0. pos = 1 /\ best = None /\ Contains(seen, last) /\ last \in Tags
    BY DEF BackstopInv, Fresh, TypeOK, Contains
<1>1. TypeOK'
    BY <1>0 DEF BackstopInv, TypeOK, Contains, ToSet
<1>2. StillThere'
    BY DEF BackstopInv, StillThere, Stayed, ToSet, Contains
<1>3. Fresh' /\ BestInv' /\ PassedInv'
    BY <1>0 DEF BackstopInv, Fresh, BestInv, PassedInv
<1>4. BaselineInv'
    BY <1>0 DEF BaselineInv, Contains
<1> QED BY <1>1, <1>2, <1>3, <1>4 DEF BackstopInv

\* A turn of the loop: what it reads is compared with the best so far.
LEMMA ScanTagInv ==
    ASSUME BackstopInv, NEW t \in Tags, ScanTag(t)
    PROVE  BackstopInv'
<1> USE DEF ScanTag, github, record
<1>0. /\ Len(seen) \in Nat /\ pos \in 1 .. Len(seen) /\ pos' = pos + 1
      /\ t = seen[pos] /\ t \in ToSet(seen) /\ DOMAIN seen = 1 .. Len(seen)
    BY DEF BackstopInv, TypeOK, ToSet
<1>1. Stayed' = Stayed /\ epoch' = epoch
    BY DEF Stayed, ToSet
<1>2. StillThere'
    BY <1>1 DEF BackstopInv, StillThere, Contains
<1>3. BaselineInv'
    BY <1>1 DEF BackstopInv, BaselineInv, Contains
<1>4. Fresh'
    BY DEF BackstopInv, Fresh
<1>5. CASE t = last /\ UNCHANGED <<best, bestEpoch>>
    <2>1. TypeOK'
        BY <1>0, <1>5 DEF BackstopInv, TypeOK, ToSet, Contains
    <2>2. BestInv'
        BY <1>1, <1>5 DEF BackstopInv, BestInv, ToSet
    <2>3. PassedInv'
        <3> SUFFICES ASSUME NEW i \in 1 .. pos, seen[i] \in Stayed \ {last},
                            epoch[seen[i]] >= baseline
                     PROVE  best # None /\ epoch[seen[i]] <= bestEpoch
            BY <1>0, <1>1, <1>5 DEF PassedInv
        <3>0. i # pos
            BY <1>0, <1>5, Zenon
        <3>1. i \in 1 .. pos - 1
            BY <1>0, <3>0
        <3> QED BY <3>1 DEF BackstopInv, PassedInv
    <2> QED BY <1>2, <1>3, <1>4, <2>1, <2>2, <2>3 DEF BackstopInv
<1>6. ASSUME t # last, NEW e \in Epochs, GetCommitEpoch(t, e),
             best' = IF Better(e) THEN t ELSE best,
             bestEpoch' = IF Better(e) THEN e ELSE bestEpoch
      PROVE  BackstopInv'
    <2>0. e = epoch[t]
        BY <1>6 DEF GetCommitEpoch
    <2>1. TypeOK'
        BY <1>0, <1>6 DEF BackstopInv, TypeOK, ToSet, Contains
    <2>2. BestInv'
        BY <1>0, <1>1, <1>6, <2>0 DEF BackstopInv, BestInv, ToSet, Better
    <2>3. PassedInv'
        <3>0. e \in Int /\ baseline \in Int /\ bestEpoch \in Int /\ t # None
            BY TagAssumption DEF BackstopInv, TypeOK
        <3>e. \A x \in Epochs : x \in Int
            BY TagAssumption
        <3> SUFFICES ASSUME NEW i \in 1 .. pos, seen[i] \in Stayed \ {last},
                            epoch[seen[i]] >= baseline
                     PROVE  best' # None /\ epoch[seen[i]] <= bestEpoch'
            BY <1>0, <1>1 DEF PassedInv
        <3>1. CASE i = pos
            BY <1>0, <1>6, <2>0, <3>0, <3>1 DEF Better
        <3>2. CASE i \in 1 .. pos - 1
            <4>1. best # None /\ epoch[seen[i]] <= bestEpoch
                BY <3>2 DEF BackstopInv, PassedInv
            <4>2. epoch[seen[i]] \in Int
                <5>1. seen[i] \in Tags
                    BY <1>0 DEF BackstopInv, TypeOK
                <5>2. epoch[seen[i]] \in Epochs
                    BY <5>1, Zenon DEF BackstopInv, TypeOK
                <5> QED BY <3>e, <5>2, Zenon
            <4> QED BY <1>6, <3>0, <4>1, <4>2 DEF Better
        <3> QED BY <1>0, <3>1, <3>2
    <2> QED BY <1>2, <1>3, <1>4, <2>1, <2>2, <2>3 DEF BackstopInv
<1> QED BY <1>5, <1>6

\* A run that is over leaves nothing.
LEMMA ReturnInv ==
    ASSUME BackstopInv, Return, last' \in Tags \cup {None}, imaged' \in BOOLEAN
    PROVE  BackstopInv'
<1> USE DEF Return, github
<1>0. Len(<<>>) = 0 /\ DOMAIN <<>> = {} /\ <<>> \in Seq(Tags)
    OBVIOUS
<1>1. TypeOK'
    BY <1>0, TagAssumption DEF BackstopInv, TypeOK, IsInjective, ToSet
<1>2. Fresh' /\ BaselineInv' /\ BestInv' /\ PassedInv'
    BY DEF Fresh, BaselineInv, BestInv, PassedInv
<1>3. StillThere'
    BY <1>0 DEF StillThere, Stayed, ToSet
<1> QED BY <1>1, <1>2, <1>3 DEF BackstopInv

\* A run that records its pick.
LEMMA HandleInv ==
    ASSUME BackstopInv, NEW t \in Tags, Handle(t), imaged' \in BOOLEAN
    PROVE  BackstopInv'
BY ReturnInv DEF Handle

\* Every step of the backstop and of the repo's owner keeps the invariant.
LEMMA StepInv == BackstopInv /\ [Next]_vars => BackstopInv'
<1> SUFFICES ASSUME BackstopInv, [Next]_vars
             PROVE  BackstopInv'
    OBVIOUS
<1>1. ASSUME NEW t \in Tags, NEW i \in 1 .. Len(page) + 1, NEW e \in Epochs, CutTag(t, i, e)
      PROVE  BackstopInv'
    BY <1>1, CutTagInv
<1>2. ASSUME NEW i \in DOMAIN page, DeleteTag(i)
      PROVE  BackstopInv'
    BY <1>2, DeleteTagInv
<1>3. CASE ListTags
    BY <1>3, ListTagsInv
<1>4. CASE ReadBaseline
    BY <1>4, ReadBaselineInv
<1>5. ASSUME NEW t \in Tags, ScanTag(t)
      PROVE  BackstopInv'
    BY <1>5, ScanTagInv
<1>6. CASE NothingNew \/ BackstopFails
    BY <1>6, ReturnInv DEF NothingNew, BackstopFails, record, BackstopInv, TypeOK
<1>7. ASSUME NEW t \in Tags, BackstopBuilds(t) \/ BackstopDrops(t)
      PROVE  BackstopInv'
    BY <1>7, HandleInv DEF BackstopBuilds, BackstopDrops
<1>8. ASSUME NEW t \in Tags \cup {None}, TakenBack(t)
      PROVE  BackstopInv'
    BY <1>8, TakenBackInv
<1>9. CASE UNCHANGED vars
    BY <1>9 DEF vars, BackstopInv, TypeOK, Fresh, StillThere, Stayed, BaselineInv,
        BestInv, PassedInv, Contains, ToSet
<1> QED BY <1>1, <1>2, <1>3, <1>4, <1>5, <1>6, <1>7, <1>8, <1>9 DEF Next, Run

\* The inductive invariant holds throughout.
LEMMA BackstopInvariant == Spec => []BackstopInv
BY InitInv, StepInv, PTL DEF Spec

-----------------------------------------------------------------------------
(***************************************************************************)
(* The types of the backstop's variables, on pages of any length: a page   *)
(* never names a tag twice, the scan stays within the page it listed, and  *)
(* the epoch of the record is asked for only if the record was listed.     *)
(***************************************************************************)
THEOREM BackstopTypes == Spec => []TypeOK
<1>1. BackstopInv => TypeOK
    BY DEF BackstopInv
<1> QED BY <1>1, BackstopInvariant, PTL

\* At the end of the scan all of the page has been passed.
LEMMA ScanFindsNewest == BackstopInv => PicksTheNewest
<1> SUFFICES ASSUME BackstopInv, phase = "scan", pos > Len(seen)
             PROVE  /\ IF Contains(seen, last)
                       THEN last \in Stayed => baseline = epoch[last]
                       ELSE baseline = -1
                    /\ best # None =>
                            /\ best \in ToSet(seen) \ {last}
                            /\ bestEpoch >= baseline
                            /\ best \in Stayed => bestEpoch = epoch[best]
                    /\ \A t \in Stayed \ {last} :
                            epoch[t] >= baseline => best # None /\ epoch[t] <= bestEpoch
    BY DEF PicksTheNewest
<1>1. \A i \in DOMAIN seen : i \in 1 .. pos - 1
    BY DEF BackstopInv, TypeOK
<1>2. ASSUME NEW t \in Stayed \ {last}, epoch[t] >= baseline
      PROVE  best # None /\ epoch[t] <= bestEpoch
    <2>1. PICK i \in DOMAIN seen : seen[i] = t
        BY DEF Stayed, ToSet
    <2> QED BY <1>1, <1>2, <2>1 DEF BackstopInv, PassedInv
<1> QED BY <1>2 DEF BackstopInv, BaselineInv, BestInv

(***************************************************************************)
(* newestUnbuiltTag finds the newest tag of the page, whatever the order   *)
(* of the page and however tags are cut and deleted between the requests   *)
(* of its scan.                                                            *)
(***************************************************************************)
THEOREM ScanIsRight == Spec => []PicksTheNewest
BY BackstopInvariant, ScanFindsNewest, PTL
=============================================================================
