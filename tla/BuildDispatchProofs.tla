------------------------ MODULE BuildDispatchProofs -------------------------
(***************************************************************************)
(* Proofs about BuildDispatch: the fail-closed registry probe, and what    *)
(* the look-up before the create bounds, for any number of callers, repos, *)
(* tags and late creates, and whatever the repos' recipes say.             *)
(***************************************************************************)
EXTENDS BuildDispatch, FiniteSetTheorems, TLAPS

(***************************************************************************)
(* Probed: since a call's probe, its image has only become present the way *)
(* since[c] says.                                                          *)
(***************************************************************************)
Probed ==
    \A c \in Callers :
        pc[c] \in {"list", "create"} /\ req[c] \in images => req[c] \in since[c]

\* The inductive invariant.
DispatchInv == TypeOK /\ Probed

\* What a step that ends c's call without touching cluster or registry does.
LEMMA ReturnInv ==
    ASSUME DispatchInv, NEW c \in Callers, Return(c), UNCHANGED cluster
    PROVE  DispatchInv'
<1>1. TypeOK'
    BY DEF DispatchInv, TypeOK, Return, cluster
<1>2. Probed'
    BY DEF DispatchInv, TypeOK, Probed, Return, cluster
<1> QED BY <1>1, <1>2 DEF DispatchInv

\* A call that moves from one gate to the next keeps the types.
LEMMA PassTypes ==
    ASSUME DispatchInv, NEW c \in Callers, NEW gate \in Gates, NEW next \in Gates,
           Pass(c, gate, next), since' \in [Callers -> SUBSET Requests]
    PROVE  TypeOK'
<1>1. pc[c] # "idle"
    BY DEF Pass, Gates
<1> QED BY <1>1 DEF DispatchInv, TypeOK, Pass, cluster

\* A gate before the probe that is passed keeps the invariant.
LEMMA EarlyPassInv ==
    ASSUME DispatchInv, NEW c \in Callers, NEW gate \in Gates,
           NEW next \in Gates \ {"list", "create"},
           Pass(c, gate, next), UNCHANGED since
    PROVE  DispatchInv'
<1>1. TypeOK'
    BY PassTypes DEF DispatchInv, TypeOK
<1>2. Probed'
    BY DEF DispatchInv, TypeOK, Probed, Pass, cluster
<1> QED BY <1>1, <1>2 DEF DispatchInv

\* The start of a call keeps the invariant.
LEMMA DispatchStartInv ==
    ASSUME DispatchInv, NEW c \in Callers, NEW r \in Requests, Dispatch(c, r)
    PROVE  DispatchInv'
<1>1. TypeOK'
    BY DEF DispatchInv, TypeOK, Dispatch, Gates, cluster
<1>2. Probed'
    BY DEF DispatchInv, TypeOK, Probed, Dispatch, cluster
<1> QED BY <1>1, <1>2 DEF DispatchInv

\* The probe itself establishes Probed for its caller.
LEMMA ImageAbsentInv ==
    ASSUME DispatchInv, NEW c \in Callers, ImageAbsent(c)
    PROVE  DispatchInv'
<1>1. since' \in [Callers -> SUBSET Requests]
    BY DEF DispatchInv, TypeOK, ImageAbsent
<1>2. TypeOK'
    BY <1>1, PassTypes DEF ImageAbsent, Gates
<1>3. Probed'
    BY DEF DispatchInv, TypeOK, Probed, ImageAbsent, Pass, cluster
<1> QED BY <1>2, <1>3 DEF DispatchInv

\* The step from the look-up to the create keeps what the probe established.
LEMMA AdmitInv ==
    ASSUME DispatchInv, NEW c \in Callers, Admit(c)
    PROVE  DispatchInv'
<1>1. TypeOK'
    BY PassTypes DEF DispatchInv, TypeOK, Admit, Gates
<1>2. Probed'
    BY DEF DispatchInv, TypeOK, Probed, Admit, Pass, cluster
<1> QED BY <1>1, <1>2 DEF DispatchInv

\* A create, stored at once or late, adds one Job under a new name.
LEMMA CreateInv ==
    ASSUME DispatchInv, NEW c \in Callers, NEW n \in JobNames,
           Create(c, n) \/ CreateTimesOut(c, n)
    PROVE  DispatchInv'
<1> DEFINE new == NewJob(c, n)
<1>1. /\ pc[c] = "create" /\ FreshName(n) /\ Return(c) /\ images' = images
      /\ \/ jobs' = jobs \cup {new} /\ late' = late
         \/ jobs' = jobs /\ late' = late \cup {new} /\ Cardinality(late) < MaxLate
    BY DEF Create, CreateTimesOut
<1>2. new \in Job /\ new.name = n
    BY <1>1 DEF DispatchInv, TypeOK, Job, NewJob
<1>3. new \notin jobs \cup late
    BY <1>1, <1>2 DEF FreshName
<1>4. jobs' \subseteq Job /\ late' \subseteq Job /\ jobs' \cap late' = {}
    BY <1>1, <1>2, <1>3 DEF DispatchInv, TypeOK
<1>5. \A j, k \in jobs' \cup late' : j.name = k.name => j = k
  <2>1. jobs' \cup late' = (jobs \cup late) \cup {new}
      BY <1>1
  <2>2. \A j, k \in jobs \cup late : j.name = k.name => j = k
      BY DEF DispatchInv, TypeOK
  <2>3. \A j \in jobs \cup late : j.name # n
      BY <1>1 DEF FreshName
  <2> HIDE DEF new
  <2> QED BY <1>2, <2>1, <2>2, <2>3
<1>6. IsFiniteSet(late') /\ Cardinality(late') <= MaxLate
  <2>1. IsFiniteSet(late) /\ Cardinality(late) <= MaxLate /\ Cardinality(late) \in Nat
      BY FS_CardinalityType DEF DispatchInv, TypeOK
  <2>2. IsFiniteSet(late \cup {new}) /\ Cardinality(late \cup {new}) = Cardinality(late) + 1
      BY <1>3, <2>1, FS_AddElement
  <2>3. late' = late \/ (late' = late \cup {new} /\ Cardinality(late) < MaxLate)
      BY <1>1
  <2>4. CASE late' = late
      BY <2>1, <2>4
  <2>5. CASE late' = late \cup {new} /\ Cardinality(late) < MaxLate
    <3>1. Cardinality(late) + 1 <= MaxLate
        BY <2>1, <2>5, BuildAssumption
    <3> QED BY <2>2, <2>5, <3>1
  <2> QED BY <2>3, <2>4, <2>5
<1>7. /\ pc' \in [Callers -> Gates \cup {"idle"}]
      /\ req' \in [Callers -> Requests \cup {NoRequest}]
      /\ \A d \in Callers : pc'[d] # "idle" => req'[d] \in Requests
      /\ since' \in [Callers -> SUBSET Requests]
      /\ images' \subseteq Requests
    BY <1>1 DEF DispatchInv, TypeOK, Return
<1>8. TypeOK'
    BY <1>4, <1>5, <1>6, <1>7 DEF TypeOK
<1>9. Probed'
    BY <1>1 DEF DispatchInv, TypeOK, Probed, Return
<1> QED BY <1>8, <1>9 DEF DispatchInv

\* A late create that lands, the end of a Job, and the end of the pod.
LEMMA ClusterInv ==
    ASSUME DispatchInv,
           \/ \E j \in late : CreateLands(j)
           \/ \E j \in jobs : JobSucceeds(j) \/ JobFails(j)
           \/ Crash
    PROVE  DispatchInv'
<1>1. ASSUME NEW j \in late, CreateLands(j) PROVE DispatchInv'
  <2>1. jobs' \cup late' = jobs \cup late /\ jobs' \cap late' = {} /\ late' = late \ {j}
      BY <1>1 DEF CreateLands, DispatchInv, TypeOK
  <2>2. IsFiniteSet(late') /\ Cardinality(late') <= MaxLate
    <3>1. IsFiniteSet(late) /\ Cardinality(late) <= MaxLate /\ Cardinality(late) \in Nat
        BY FS_CardinalityType DEF DispatchInv, TypeOK
    <3>2. IsFiniteSet(late \ {j}) /\ Cardinality(late \ {j}) = Cardinality(late) - 1
        BY <1>1, <3>1, FS_RemoveElement
    <3> QED BY <2>1, <3>1, <3>2, BuildAssumption
  <2>3. TypeOK'
      BY <1>1, <2>1, <2>2 DEF DispatchInv, TypeOK, CreateLands
  <2>4. Probed'
      BY <1>1 DEF DispatchInv, Probed, CreateLands
  <2> QED BY <2>3, <2>4 DEF DispatchInv
<1>2. ASSUME NEW j \in jobs, JobSucceeds(j) PROVE DispatchInv'
  <2>1. TypeOK'
      BY <1>2 DEF DispatchInv, TypeOK, JobSucceeds, Job
  <2>2. Probed'
      BY <1>2 DEF DispatchInv, TypeOK, Probed, JobSucceeds
  <2> QED BY <2>1, <2>2 DEF DispatchInv
<1>3. ASSUME NEW j \in jobs, JobFails(j) PROVE DispatchInv'
    BY <1>3 DEF DispatchInv, TypeOK, Probed, JobFails
<1>4. CASE Crash
  <2>1. TypeOK'
      BY <1>4 DEF DispatchInv, TypeOK, Crash, cluster
  <2>2. Probed'
      BY <1>4 DEF DispatchInv, TypeOK, Probed, Crash
  <2> QED BY <2>1, <2>2 DEF DispatchInv
<1> QED BY <1>1, <1>2, <1>3, <1>4

\* Every step keeps the invariant.
LEMMA DispatchStep ==
    ASSUME DispatchInv, [Next]_vars
    PROVE  DispatchInv'
<1>1. ASSUME NEW c \in Callers, CallStep(c) PROVE DispatchInv'
  <2>1. ASSUME NEW r \in Requests, Dispatch(c, r) PROVE DispatchInv'
      BY <2>1, DispatchStartInv
  <2>2. CASE ReadConfig(c)
      BY <2>2, EarlyPassInv DEF ReadConfig, Gates
  <2>3. CASE LoadManifest(c)
      BY <2>3, EarlyPassInv DEF LoadManifest, Gates
  <2>4. CASE Render(c)
      BY <2>4, EarlyPassInv DEF Render, Gates
  <2>5. CASE ReadCredentials(c)
      BY <2>5, EarlyPassInv DEF ReadCredentials, Gates
  <2>6. CASE GateEnds(c) \/ ImageExists(c) \/ JobExists(c) \/ Deferred(c)
                \/ CreateFails(c)
      BY <2>6, ReturnInv DEF GateEnds, ImageExists, JobExists, Deferred, CreateFails
  <2>7. CASE ImageAbsent(c)
      BY <2>7, ImageAbsentInv
  <2>8. CASE Admit(c)
      BY <2>8, AdmitInv
  <2>9. ASSUME NEW n \in JobNames, Create(c, n) \/ CreateTimesOut(c, n)
        PROVE  DispatchInv'
      BY <2>9, CreateInv
  <2> QED BY <1>1, <2>1, <2>2, <2>3, <2>4, <2>5, <2>6, <2>7, <2>8, <2>9 DEF CallStep
<1>2. CASE UNCHANGED vars
    BY <1>2 DEF vars, DispatchInv, TypeOK, Probed
<1> QED BY <1>1, <1>2, ClusterInv DEF Next

\* The initial states satisfy the invariant.
LEMMA DispatchInit ==
    ASSUME Init
    PROVE  DispatchInv
<1>1. IsFiniteSet({}) /\ Cardinality({}) = 0
    BY FS_EmptySet
<1> QED BY <1>1, BuildAssumption DEF Init, DispatchInv, TypeOK, Probed

\* Every reachable state satisfies the invariant.
LEMMA DispatchInvariant == Spec => []DispatchInv
BY DispatchInit, DispatchStep, PTL DEF Spec

(***************************************************************************)
(* The types of the calls of Dispatch, for any number of callers: a        *)
(* caller at a gate has a request, and no two Jobs share a name.           *)
(***************************************************************************)
THEOREM DispatchTypes == Spec => []TypeOK
<1>1. DispatchInv => TypeOK
    BY DEF DispatchInv
<1> QED BY <1>1, DispatchInvariant, PTL

(***************************************************************************)
(* A published image is built again only when it was published between     *)
(* this call's probe and its create (the fail-closed rule of prepare).     *)
(***************************************************************************)
THEOREM ProbeFailsClosed == Spec => FailsClosed
<1> DEFINE Closed ==
        \A j \in (jobs' \cup late') \ (jobs \cup late) :
            j.builds \in images => j.builds \in since[j.by]
<1>1. ASSUME DispatchInv, [Next]_vars PROVE [Closed]_vars
  <2> SUFFICES ASSUME Next, NEW j \in jobs' \cup late', j \notin jobs \cup late,
                      j.builds \in images
               PROVE  j.builds \in since[j.by]
      BY <1>1
  <2>1. PICK c \in Callers, n \in JobNames : Create(c, n) \/ CreateTimesOut(c, n)
    <3>1. ASSUME NEW c \in Callers, CallStep(c)
          PROVE  \E n \in JobNames : Create(c, n) \/ CreateTimesOut(c, n)
        BY <3>1 DEF CallStep, Dispatch, ReadConfig, LoadManifest, Render,
            ReadCredentials, GateEnds, ImageExists, JobExists, Deferred,
            CreateFails, ImageAbsent, Admit, Pass, cluster
    <3>2. ~(\E k \in jobs : JobSucceeds(k) \/ JobFails(k))
        BY DEF JobSucceeds, JobFails
    <3>3. ~(\E k \in late : CreateLands(k))
        BY DEF CreateLands
    <3>4. ~Crash
        BY DEF Crash, cluster
    <3> QED BY <3>1, <3>2, <3>3, <3>4 DEF Next
  <2>2. j.builds = req[c] /\ j.by = c /\ pc[c] = "create"
      BY <2>1 DEF Create, CreateTimesOut, NewJob
  <2> QED BY <1>1, <2>2 DEF DispatchInv, Probed
<1> QED BY <1>1, DispatchInvariant, PTL DEF Spec, FailsClosed

-----------------------------------------------------------------------------
(***************************************************************************)
(* Counting.  For any set S of requests: the Jobs made for S, stored or    *)
(* still to be stored, and the callers admitted for S that have not sent   *)
(* their create.  A create moves one unit from Near to Made, a late create *)
(* that lands moves none; only Admit adds one, and it has seen the stored  *)
(* Jobs.                                                                   *)
(***************************************************************************)
Seen(S) == {j \in jobs : j.builds \in S}
Made(S) == {j \in jobs \cup late : j.builds \in S}
Near(S) == {c \in Callers : pc[c] = "create" /\ req[c] \in S}

Counted(S, k) ==
    IsFiniteSet(jobs) /\ Cardinality(Made(S)) + Cardinality(Near(S)) <= k

\* The sets that are counted are finite.
LEMMA CountsFinite ==
    ASSUME TypeOK, IsFiniteSet(jobs), NEW S
    PROVE  /\ IsFiniteSet(Made(S)) /\ Cardinality(Made(S)) \in Nat
           /\ IsFiniteSet(Seen(S)) /\ Cardinality(Seen(S)) \in Nat
           /\ IsFiniteSet(Near(S)) /\ Cardinality(Near(S)) \in Nat
           /\ Cardinality(Callers) \in Nat
           /\ Cardinality(Seen(S)) <= Cardinality(Made(S))
           /\ Cardinality(Made(S)) <= Cardinality(Seen(S)) + MaxLate
<1>1. IsFiniteSet(late) /\ Cardinality(late) <= MaxLate /\ Cardinality(late) \in Nat
    BY FS_CardinalityType DEF TypeOK
<1>2. IsFiniteSet(jobs \cup late)
    BY <1>1, FS_Union
<1>3. /\ Made(S) \subseteq jobs \cup late /\ Seen(S) \subseteq jobs
      /\ Near(S) \subseteq Callers /\ Seen(S) \subseteq Made(S)
      /\ Made(S) \subseteq Seen(S) \cup late
    BY DEF Made, Seen, Near
<1>4. /\ IsFiniteSet(Made(S)) /\ Cardinality(Made(S)) \in Nat
      /\ IsFiniteSet(Seen(S)) /\ Cardinality(Seen(S)) \in Nat
      /\ IsFiniteSet(Near(S)) /\ Cardinality(Near(S)) \in Nat
      /\ Cardinality(Callers) \in Nat
    BY <1>2, <1>3, BuildAssumption, FS_Subset, FS_CardinalityType
<1>5. Cardinality(Seen(S)) <= Cardinality(Made(S))
    BY <1>3, <1>4, FS_Subset
<1>6. /\ IsFiniteSet(Seen(S) \cup late)
      /\ Cardinality(Seen(S) \cup late)
            = Cardinality(Seen(S)) + Cardinality(late) - Cardinality(Seen(S) \cap late)
    BY <1>1, <1>4, FS_Union
<1>7. Cardinality(Seen(S) \cap late) \in Nat /\ Cardinality(Seen(S) \cup late) \in Nat
    BY <1>4, <1>6, FS_Subset, FS_CardinalityType
<1>8. Cardinality(Made(S)) <= Cardinality(Seen(S) \cup late)
    BY <1>3, <1>6, FS_Subset
<1> HIDE DEF Made, Seen, Near
<1> QED BY <1>1, <1>4, <1>5, <1>6, <1>7, <1>8, BuildAssumption

\* A step that adds no build and admits no caller keeps the count.
LEMMA CountShrinks ==
    ASSUME TypeOK, NEW S, NEW k \in Nat, Counted(S, k),
           IsFiniteSet(jobs'), Made(S)' \subseteq Made(S), Near(S)' \subseteq Near(S)
    PROVE  Counted(S, k)'
<1>1. /\ IsFiniteSet(Made(S)) /\ IsFiniteSet(Near(S))
      /\ Cardinality(Made(S)) \in Nat /\ Cardinality(Near(S)) \in Nat
    BY CountsFinite DEF Counted
<1>2. Cardinality(Made(S)') <= Cardinality(Made(S)) /\ Cardinality(Made(S)') \in Nat
    BY <1>1, FS_Subset, FS_CardinalityType
<1>3. Cardinality(Near(S)') <= Cardinality(Near(S)) /\ Cardinality(Near(S)') \in Nat
    BY <1>1, FS_Subset, FS_CardinalityType
<1>4. Cardinality(Made(S)) + Cardinality(Near(S)) <= k
    BY DEF Counted
<1>5. Cardinality(Made(S)') + Cardinality(Near(S)') <= k
  <2> HIDE DEF Made, Near
  <2> QED BY <1>1, <1>2, <1>3, <1>4
<1> QED BY <1>5 DEF Counted

\* A caller that is admitted has seen the stored Jobs; the late ones and the
\* other callers come on top.
LEMMA CountAdmit ==
    ASSUME TypeOK, NEW S, NEW k \in Nat, Counted(S, k), NEW c \in Callers, Admit(c),
           req[c] \in S =>
                Cardinality(Seen(S)) + MaxLate + Cardinality(Callers) <= k
    PROVE  Counted(S, k)'
<1>1. /\ jobs' = jobs /\ late' = late /\ req' = req
      /\ pc' = [pc EXCEPT ![c] = "create"]
    BY DEF Admit, Pass, cluster
<1>2. Made(S)' = Made(S)
    BY <1>1 DEF Made
<1>3. CASE req[c] \in S
  <2>1. Cardinality(Near(S)') <= Cardinality(Callers) /\ Cardinality(Near(S)') \in Nat
    <3>1. Near(S)' \subseteq Callers /\ IsFiniteSet(Callers)
        BY BuildAssumption DEF Near
    <3> QED BY <3>1, FS_Subset, FS_CardinalityType
  <2>2. /\ Cardinality(Made(S)) <= Cardinality(Seen(S)) + MaxLate
        /\ Cardinality(Made(S)) \in Nat /\ Cardinality(Seen(S)) \in Nat
        /\ Cardinality(Callers) \in Nat
      BY CountsFinite DEF Counted
  <2>3. Cardinality(Made(S)') + Cardinality(Near(S)') <= k
    <3> HIDE DEF Made, Near, Seen
    <3> QED BY <1>2, <1>3, <2>1, <2>2, BuildAssumption
  <2> QED BY <1>1, <2>3 DEF Counted
<1>4. CASE req[c] \notin S
  <2>1. Near(S)' = Near(S)
      BY <1>1, <1>4 DEF Near, TypeOK
  <2> QED BY <1>1, <1>2, <2>1 DEF Counted
<1> QED BY <1>3, <1>4

\* A create, stored at once or late, moves its caller's unit from Near to Made.
LEMMA CountCreate ==
    ASSUME TypeOK, NEW S, NEW k \in Nat, Counted(S, k), NEW c \in Callers,
           NEW n \in JobNames, Create(c, n) \/ CreateTimesOut(c, n)
    PROVE  Counted(S, k)'
<1> DEFINE new == NewJob(c, n)
<1>1. /\ pc[c] = "create" /\ FreshName(n)
      /\ pc' = [pc EXCEPT ![c] = "idle"]
      /\ req' = [req EXCEPT ![c] = NoRequest]
      /\ jobs' \cup late' = (jobs \cup late) \cup {new}
      /\ jobs' = jobs \/ jobs' = jobs \cup {new}
    BY DEF Create, CreateTimesOut, Return
<1>2. new \notin jobs \cup late /\ new.builds = req[c]
    BY <1>1 DEF FreshName, NewJob
<1>3. IsFiniteSet(jobs')
    BY <1>1, <1>2, FS_AddElement DEF Counted
<1>4. Near(S)' = Near(S) \ {c}
    BY <1>1 DEF Near, TypeOK
<1>5. /\ IsFiniteSet(Made(S)) /\ IsFiniteSet(Near(S))
      /\ Cardinality(Made(S)) \in Nat /\ Cardinality(Near(S)) \in Nat
    BY CountsFinite DEF Counted
<1>6. CASE req[c] \in S
  <2>1. Made(S)' = Made(S) \cup {new} /\ new \notin Made(S)
    <3> HIDE DEF new
    <3> QED BY <1>1, <1>2, <1>6 DEF Made
  <2>2. c \in Near(S)
      BY <1>1, <1>6 DEF Near
  <2>3. Cardinality(Made(S)') = Cardinality(Made(S)) + 1
      BY <1>5, <2>1, FS_AddElement
  <2>4. Cardinality(Near(S)') = Cardinality(Near(S)) - 1
      BY <1>4, <1>5, <2>2, FS_RemoveElement
  <2>5. Cardinality(Made(S)) + Cardinality(Near(S)) <= k
      BY DEF Counted
  <2>6. Cardinality(Made(S)') + Cardinality(Near(S)') <= k
    <3> HIDE DEF Made, Near
    <3> QED BY <1>5, <2>3, <2>4, <2>5
  <2> QED BY <1>3, <2>6 DEF Counted
<1>7. CASE req[c] \notin S
  <2>1. Made(S)' = Made(S)
    <3> HIDE DEF new
    <3> QED BY <1>1, <1>2, <1>7 DEF Made
  <2>2. Near(S)' \subseteq Near(S)
      BY <1>4
  <2> QED BY <1>3, <2>1, <2>2, CountShrinks
<1> QED BY <1>6, <1>7

\* Every step keeps the count, if Admit leaves room for what it cannot see.
LEMMA CountStep ==
    ASSUME TypeOK, NEW S, NEW k \in Nat, Counted(S, k), [Next]_vars,
           \A c \in Callers : Admit(c) /\ req[c] \in S =>
                Cardinality(Seen(S)) + MaxLate + Cardinality(Callers) <= k
    PROVE  Counted(S, k)'
<1> USE DEF Counted
<1>1. ASSUME NEW c \in Callers, CallStep(c) PROVE Counted(S, k)'
  <2>1. CASE Admit(c)
      BY <2>1, CountAdmit
  <2>2. ASSUME NEW n \in JobNames, Create(c, n) \/ CreateTimesOut(c, n)
        PROVE  Counted(S, k)'
      BY <2>2, CountCreate
  <2>3. CASE \/ \E r \in Requests : Dispatch(c, r)
             \/ ReadConfig(c) \/ LoadManifest(c) \/ Render(c)
             \/ ReadCredentials(c) \/ ImageAbsent(c)
    <3>1. /\ jobs' = jobs /\ late' = late
          /\ \E step \in Gates \ {"create"} : pc' = [pc EXCEPT ![c] = step]
          /\ \E r : req' = [req EXCEPT ![c] = r]
        BY <2>3 DEF Dispatch, ReadConfig, LoadManifest, Render, ReadCredentials,
            ImageAbsent, Pass, Gates, TypeOK, cluster
    <3>2. Made(S)' = Made(S) /\ Near(S)' \subseteq Near(S)
        BY <3>1 DEF Made, Near, TypeOK
    <3> QED BY <3>1, <3>2, CountShrinks
  <2>4. CASE GateEnds(c) \/ ImageExists(c) \/ JobExists(c) \/ Deferred(c)
                \/ CreateFails(c)
    <3>1. /\ jobs' = jobs /\ late' = late /\ pc' = [pc EXCEPT ![c] = "idle"]
          /\ req' = [req EXCEPT ![c] = NoRequest]
        BY <2>4 DEF GateEnds, ImageExists, JobExists, Deferred, CreateFails, Return,
            cluster
    <3>2. Made(S)' = Made(S) /\ Near(S)' \subseteq Near(S)
        BY <3>1 DEF Made, Near, TypeOK
    <3> QED BY <3>1, <3>2, CountShrinks
  <2> QED BY <1>1, <2>1, <2>2, <2>3, <2>4 DEF CallStep
<1>2. CASE \E j \in jobs : JobSucceeds(j) \/ JobFails(j)
  <2>1. jobs' \subseteq jobs /\ late' = late /\ pc' = pc /\ req' = req
      BY <1>2 DEF JobSucceeds, JobFails
  <2>2. IsFiniteSet(jobs') /\ Made(S)' \subseteq Made(S) /\ Near(S)' = Near(S)
      BY <2>1, FS_Subset DEF Made, Near
  <2> QED BY <2>2, CountShrinks
<1>3. CASE \E j \in late : CreateLands(j)
  <2>1. PICK j \in late : CreateLands(j)
      BY <1>3
  <2>2. jobs' \cup late' = jobs \cup late /\ pc' = pc /\ req' = req
        /\ jobs' = jobs \cup {j}
      BY <2>1 DEF CreateLands
  <2>3. IsFiniteSet(jobs') /\ Made(S)' = Made(S) /\ Near(S)' = Near(S)
      BY <2>2, FS_AddElement DEF Made, Near
  <2> QED BY <2>3, CountShrinks
<1>4. CASE Crash
  <2>1. jobs' = jobs /\ late' = late /\ Near(S)' = {}
      BY <1>4 DEF Crash, Near, cluster
  <2>2. Made(S)' = Made(S)
      BY <2>1 DEF Made
  <2> QED BY <2>1, <2>2, CountShrinks
<1>5. CASE UNCHANGED vars
  <2>1. jobs' = jobs /\ Made(S)' = Made(S) /\ Near(S)' = Near(S)
      BY <1>5 DEF vars, Made, Near
  <2> QED BY <2>1, CountShrinks
<1> QED BY <1>1, <1>2, <1>3, <1>4, <1>5 DEF Next

\* Nothing is counted in the initial states.
LEMMA CountInit ==
    ASSUME Init, NEW S, NEW k \in Nat
    PROVE  Counted(S, k)
<1>1. Made(S) = {} /\ Near(S) = {} /\ jobs = {}
    BY DEF Init, Made, Near
<1>2. IsFiniteSet({}) /\ Cardinality({}) = 0
    BY FS_EmptySet
<1> QED BY <1>1, <1>2 DEF Counted

\* What is counted bounds the stored Jobs.
LEMMA CountSeen ==
    ASSUME TypeOK, NEW S, NEW k \in Nat, Counted(S, k)
    PROVE  Cardinality(Seen(S)) <= k
<1>1. /\ Cardinality(Seen(S)) <= Cardinality(Made(S))
      /\ Cardinality(Seen(S)) \in Nat /\ Cardinality(Made(S)) \in Nat
      /\ Cardinality(Near(S)) \in Nat
    BY CountsFinite DEF Counted
<1>2. Cardinality(Made(S)) + Cardinality(Near(S)) <= k
    BY DEF Counted
<1> HIDE DEF Made, Near, Seen
<1> QED BY <1>1, <1>2

-----------------------------------------------------------------------------
\* The requests that the look-up counts under a tag, and the bound for them.
OfTag(t) == {r \in Listed : r[2] = t}
CapBound == MaxConcurrent + Cardinality(Callers) - 1 + MaxLate
CapInv == \A t \in Tags : Counted(OfTag(t), CapBound)

\* The bounds are natural numbers.
LEMMA BoundTypes ==
    CapBound \in Nat /\ Cardinality(Callers) + MaxLate \in Nat
BY BuildAssumption, FS_CardinalityType DEF CapBound

(***************************************************************************)
(* The cap of admit: the listed builds of one tag name never exceed        *)
(* MaxConcurrent by as many as there are callers and late creates, for any *)
(* number of them.                                                         *)
(***************************************************************************)
THEOREM CapHolds == Spec => []CapPerTag
<1>1. Init => CapInv
    BY CountInit, BoundTypes DEF CapInv
<1>2. ASSUME TypeOK, CapInv, [Next]_vars PROVE CapInv'
  <2> SUFFICES ASSUME NEW t \in Tags PROVE Counted(OfTag(t), CapBound)'
      BY DEF CapInv
  <2>1. ASSUME NEW c \in Callers, Admit(c), req[c] \in OfTag(t)
        PROVE  Cardinality(Seen(OfTag(t))) + MaxLate + Cardinality(Callers) <= CapBound
    <3>1. Seen(OfTag(t)) = ActiveByTag(req[c][2])
        BY <2>1 DEF Seen, OfTag, ActiveByTag
    <3>2. Cardinality(Seen(OfTag(t))) < MaxConcurrent
        BY <2>1, <3>1 DEF Admit
    <3>3. Cardinality(Seen(OfTag(t))) \in Nat /\ Cardinality(Callers) \in Nat
        BY <1>2, CountsFinite DEF CapInv, Counted
    <3> QED BY <3>2, <3>3, BuildAssumption DEF CapBound
  <2> QED BY <1>2, <2>1, CountStep, BoundTypes DEF CapInv
<1>3. ASSUME TypeOK, CapInv PROVE CapPerTag
  <2> SUFFICES ASSUME NEW t \in Tags
               PROVE  Cardinality(ActiveByTag(t)) <= CapBound
      BY DEF CapPerTag, CapBound
  <2>1. Seen(OfTag(t)) = ActiveByTag(t)
      BY DEF Seen, OfTag, ActiveByTag
  <2> QED BY <1>3, <2>1, CountSeen, BoundTypes DEF CapInv
<1> QED BY <1>1, <1>2, <1>3, DispatchTypes, PTL DEF Spec

\* The builds of each request that the look-up can find.
DuplicateInv ==
    \A r \in Requests : Findable(r) => Counted({r}, Cardinality(Callers) + MaxLate)

(***************************************************************************)
(* Two builds of one (repo, tag) at a time are possible, but only because  *)
(* of callers that look up before another one's create and of creates that *)
(* land late: retries, redelivered commands, polls and restarts add none,  *)
(* for any number of them, if the recipe lets the look-up find the Jobs.   *)
(***************************************************************************)
THEOREM DuplicatesHold == Spec => []DuplicatesBounded
<1>1. Init => DuplicateInv
    BY CountInit, BoundTypes DEF DuplicateInv
<1>2. ASSUME TypeOK, DuplicateInv, [Next]_vars PROVE DuplicateInv'
  <2> SUFFICES ASSUME NEW r \in Requests, Findable(r)
               PROVE  Counted({r}, Cardinality(Callers) + MaxLate)'
      BY DEF DuplicateInv, Findable
  <2>1. ASSUME NEW c \in Callers, Admit(c), req[c] \in {r}
        PROVE  Cardinality(Seen({r})) + MaxLate + Cardinality(Callers)
                    <= Cardinality(Callers) + MaxLate
    <3>1. Seen({r}) \subseteq SameService(req[c])
        BY <2>1 DEF Seen, SameService, ActiveByTag, Findable
    <3>2. SameService(req[c]) = {}
        BY <2>1 DEF Admit
    <3>3. Cardinality(Seen({r})) = 0
        BY <3>1, <3>2, FS_EmptySet
    <3>4. Cardinality(Callers) \in Nat
        BY BuildAssumption, FS_CardinalityType
    <3> QED BY <3>3, <3>4, BuildAssumption
  <2>2. Counted({r}, Cardinality(Callers) + MaxLate)
      BY <1>2 DEF DuplicateInv
  <2> QED BY <1>2, <2>1, <2>2, CountStep, BoundTypes
<1>3. ASSUME TypeOK, DuplicateInv PROVE DuplicatesBounded
  <2> SUFFICES ASSUME NEW r \in Requests, Findable(r)
               PROVE  Cardinality({j \in jobs : j.builds = r})
                        <= Cardinality(Callers) + MaxLate
      BY DEF DuplicatesBounded
  <2>1. Seen({r}) = {j \in jobs : j.builds = r}
      BY DEF Seen
  <2>2. Counted({r}, Cardinality(Callers) + MaxLate)
      BY <1>3 DEF DuplicateInv
  <2> QED BY <1>3, <2>1, <2>2, CountSeen, BoundTypes
<1> QED BY <1>1, <1>2, <1>3, DispatchTypes, PTL DEF Spec
=============================================================================
