--------------------------- MODULE BuildDispatch ----------------------------
(***************************************************************************)
(* The build dispatcher of pkg/build/dispatch.go with the adapters it      *)
(* reads the world through (pkg/buildadapters.go, pkg/build/image_exists): *)
(* one call of Dispatch(repo, tag) per caller at a time.  In the pod the   *)
(* callers are the command consumer (webhook trigger) and whichever        *)
(* goroutine runs the tag backstop (poll trigger); they share one          *)
(* dispatcher, which has no lock.                                          *)
(*                                                                         *)
(* The cluster is the set of its non-terminal build Jobs, the registry the *)
(* set of images it holds.  Both change between any two steps of a call.   *)
(* What a Job carries for the look-up to find it by (namespace, labels,    *)
(* service annotation) stands in the repo's own recipe, and RenderJob adds *)
(* none of it.                                                             *)
(***************************************************************************)
EXTENDS Integers, FiniteSets

CONSTANTS
    Callers,        \* goroutines that call Dispatch
    Repos, Tags,    \* what a Request names
    Labelled,       \* tags that are valid Kubernetes label values
    AutoBuild,      \* repos whose dockerBuild block opts in and is valid
    Recipes,        \* <<repo, tag>> with a hack/build-job.yaml that renders
    Listed,         \* those whose recipe has the labels and the namespace
                    \* that ActiveByTag asks for
    Service,        \* the service annotation in the recipe of <<repo, tag>>
    NoService,      \* a recipe without that annotation
    NoRequest,      \* a caller that is not in a call
    JobNames,       \* names of Jobs (bounds how many are active at once)
    MaxConcurrent,  \* Deps.MaxConcurrent
    MaxLate         \* bound on the creates that are late at one time

ASSUME BuildAssumption ==
    /\ Labelled \subseteq Tags
    /\ AutoBuild \subseteq Repos
    /\ Recipes \subseteq Repos \X Tags
    /\ Listed \subseteq Repos \X Tags
    /\ Service \in [Repos \X Tags -> Repos \cup {NoService}]
    /\ IsFiniteSet(Callers) /\ IsFiniteSet(JobNames)
    /\ MaxConcurrent \in Nat \ {0} /\ MaxLate \in Nat
    /\ NoRequest \notin Repos \X Tags

VARIABLES
    jobs,       \* the non-terminal build Jobs
    late,       \* Jobs the API server will store after their caller gave up
    images,     \* <<repo, tag>> of the images in the registry
    pc,         \* pc[c]: the gate caller c is at
    req,        \* req[c]: the <<repo, tag>> of c's call
    since       \* history: the images published since c's registry probe

cluster == <<jobs, late, images>>
vars == <<jobs, late, images, pc, req, since>>

Requests == Repos \X Tags
Gates == {"config", "manifest", "render", "credentials", "image", "list", "create"}

\* A Job: its name, what it builds, and (history) the caller that created it.
Job == [name : JobNames, builds : Requests, by : Callers]

\* Types; a Job name is in use at most once, and a late Job is not there yet.
TypeOK ==
    /\ jobs \subseteq Job /\ late \subseteq Job
    /\ \A j, k \in jobs \cup late : j.name = k.name => j = k
    /\ jobs \cap late = {}
    /\ IsFiniteSet(late) /\ Cardinality(late) <= MaxLate
    /\ images \subseteq Requests
    /\ pc \in [Callers -> Gates \cup {"idle"}]
    /\ req \in [Callers -> Requests \cup {NoRequest}]
    /\ \A c \in Callers : pc[c] # "idle" => req[c] \in Requests
    /\ since \in [Callers -> SUBSET Requests]

Init ==
    /\ jobs = {} /\ late = {}
    /\ images \in SUBSET Requests
    /\ pc = [c \in Callers |-> "idle"]
    /\ req = [c \in Callers |-> NoRequest]
    /\ since = [c \in Callers |-> {}]

-----------------------------------------------------------------------------
(***************************************************************************)
(* A call starts; a tag that is no label value is rejected at once.        *)
(***************************************************************************)
Dispatch(c, r) ==
    /\ pc[c] = "idle"
    /\ r[2] \in Labelled
    /\ req' = [req EXCEPT ![c] = r]
    /\ pc' = [pc EXCEPT ![c] = "config"]
    /\ UNCHANGED <<cluster, since>>

\* c's call is over.
Return(c) ==
    /\ pc' = [pc EXCEPT ![c] = "idle"]
    /\ req' = [req EXCEPT ![c] = NoRequest]
    /\ since' = [since EXCEPT ![c] = {}]

Pass(c, gate, next) ==
    /\ pc[c] = gate
    /\ pc' = [pc EXCEPT ![c] = next]
    /\ UNCHANGED <<cluster, req>>

\* Config, manifest, epoch and credentials: reads whose answer the repo fixes.
ReadConfig(c) ==
    /\ Pass(c, "config", "manifest")
    /\ req[c][1] \in AutoBuild
    /\ UNCHANGED since

LoadManifest(c) ==
    /\ Pass(c, "manifest", "render")
    /\ req[c] \in Recipes
    /\ UNCHANGED since

Render(c) == Pass(c, "render", "credentials") /\ UNCHANGED since

ReadCredentials(c) == Pass(c, "credentials", "image") /\ UNCHANGED since

(***************************************************************************)
(* A gate ends the call: no opt-in or no usable recipe (nil), or the read  *)
(* fails (an error; at the registry, the nil of "registry_unreachable").   *)
(***************************************************************************)
GateEnds(c) ==
    /\ pc[c] \in {"config", "manifest", "render", "credentials", "image", "list"}
    /\ Return(c)
    /\ UNCHANGED cluster

\* Mutant of ImageAbsent: an unreachable registry reads as "not there".
ImageUnknownIsAbsent(c) ==
    /\ Pass(c, "image", "list")
    /\ since' = [since EXCEPT ![c] = {}]

\* The registry probe: a clean 404 lets the call go on, an image ends it.
ImageAbsent(c) ==
    /\ Pass(c, "image", "list")
    /\ req[c] \notin images
    /\ since' = [since EXCEPT ![c] = {}]

ImageExists(c) ==
    /\ pc[c] = "image"
    /\ req[c] \in images
    /\ Return(c)
    /\ UNCHANGED cluster

\* ActiveByTag: the non-terminal Jobs in the build namespace whose recipe put
\* the tag on them.
ActiveByTag(tag) == {j \in jobs : j.builds \in Listed /\ j.builds[2] = tag}

\* The listed Jobs whose annotation names the repo of the request.
SameService(r) == {j \in ActiveByTag(r[2]) : Service[j.builds] = r[1]}

\* Mutants of Admit: no lookup; a cap that admits one too many.
AdmitWithoutLookup(c) ==
    /\ Pass(c, "list", "create")
    /\ Cardinality(ActiveByTag(req[c][2])) < MaxConcurrent
    /\ UNCHANGED since

AdmitOverCap(c) ==
    /\ Pass(c, "list", "create")
    /\ SameService(req[c]) = {}
    /\ Cardinality(ActiveByTag(req[c][2])) <= MaxConcurrent
    /\ UNCHANGED since

(***************************************************************************)
(* admit: no listed Job is for this repo, and the listed ones are below    *)
(* the cap.                                                                *)
(***************************************************************************)
Admit(c) ==
    /\ Pass(c, "list", "create")
    /\ SameService(req[c]) = {}
    /\ Cardinality(ActiveByTag(req[c][2])) < MaxConcurrent
    /\ UNCHANGED since

\* admit says "exists" or "deferred": nil either way.
JobExists(c) ==
    /\ pc[c] = "list"
    /\ SameService(req[c]) # {}
    /\ Return(c)
    /\ UNCHANGED cluster

Deferred(c) ==
    /\ pc[c] = "list"
    /\ SameService(req[c]) = {}
    /\ Cardinality(ActiveByTag(req[c][2])) >= MaxConcurrent
    /\ Return(c)
    /\ UNCHANGED cluster

(***************************************************************************)
(* create: the Job is stored under a fresh name; or it is not, or the name *)
(* is taken, which reads as success; or the caller gives up (an error, or  *)
(* the end of the pod) on a request that the API server has yet to carry   *)
(* out.                                                                    *)
(***************************************************************************)
FreshName(n) == \A j \in jobs \cup late : j.name # n

NewJob(c, n) == [name |-> n, builds |-> req[c], by |-> c]

\* Mutant of Create: the caller is not done after its create.
CreateAndStay(c, n) ==
    /\ pc[c] = "create"
    /\ FreshName(n)
    /\ jobs' = jobs \cup {NewJob(c, n)}
    /\ req' = [req EXCEPT ![c] = NoRequest]
    /\ since' = [since EXCEPT ![c] = {}]
    /\ UNCHANGED <<late, images, pc>>

Create(c, n) ==
    /\ pc[c] = "create"
    /\ FreshName(n)
    /\ jobs' = jobs \cup {NewJob(c, n)}
    /\ Return(c)
    /\ UNCHANGED <<late, images>>

CreateFails(c) ==
    /\ pc[c] = "create"
    /\ Return(c)
    /\ UNCHANGED cluster

CreateTimesOut(c, n) ==
    /\ pc[c] = "create"
    /\ FreshName(n)
    /\ Cardinality(late) < MaxLate
    /\ late' = late \cup {NewJob(c, n)}
    /\ Return(c)
    /\ UNCHANGED <<jobs, images>>

-----------------------------------------------------------------------------
\* The API server carries out a create that nobody waits for any more.
CreateLands(j) ==
    /\ late' = late \ {j}
    /\ jobs' = jobs \cup {j}
    /\ UNCHANGED <<images, pc, req, since>>

\* The cluster finishes a Job; a successful build has pushed its image.
JobSucceeds(j) ==
    /\ jobs' = jobs \ {j}
    /\ images' = images \cup {j.builds}
    /\ since' = [c \in Callers |-> IF pc[c] \in {"list", "create"}
                                   THEN since[c] \cup {j.builds} ELSE since[c]]
    /\ UNCHANGED <<late, pc, req>>

JobFails(j) ==
    /\ jobs' = jobs \ {j}
    /\ UNCHANGED <<late, images, pc, req, since>>

\* The pod is killed: every call is gone, the cluster and registry stay.
Crash ==
    /\ \E c \in Callers : pc[c] # "idle"
    /\ pc' = [c \in Callers |-> "idle"]
    /\ req' = [c \in Callers |-> NoRequest]
    /\ since' = [c \in Callers |-> {}]
    /\ UNCHANGED cluster

CallStep(c) ==
    \/ \E r \in Requests : Dispatch(c, r)
    \/ ReadConfig(c)
    \/ LoadManifest(c)
    \/ Render(c)
    \/ ReadCredentials(c)
    \/ GateEnds(c)
    \/ ImageAbsent(c)
    \/ ImageExists(c)
    \/ Admit(c)
    \/ JobExists(c)
    \/ Deferred(c)
    \/ \E n \in JobNames : Create(c, n) \/ CreateTimesOut(c, n)
    \/ CreateFails(c)

Next ==
    \/ \E c \in Callers : CallStep(c)
    \/ \E j \in late : CreateLands(j)
    \/ \E j \in jobs : JobSucceeds(j) \/ JobFails(j)
    \/ Crash

Spec == Init /\ [][Next]_vars

-----------------------------------------------------------------------------
\* The recipe of r lets the look-up find the Jobs of r.
Findable(r) == r \in Listed /\ Service[r] = r[1]

(***************************************************************************)
(* DuplicatesBounded: what is left of "at most one build per (repo, tag)". *)
(* The look-up and the create are separate requests, so the consumer and   *)
(* the backstop may both build one tag, and a create that was given up on  *)
(* may land after the retry's look-up; but retries, redelivered commands   *)
(* and restarts add nothing to that.  A repo whose recipe does not carry   *)
(* its service annotation has no such bound at all.                        *)
(***************************************************************************)
DuplicatesBounded ==
    \A r \in Requests :
        Findable(r) =>
            Cardinality({j \in jobs : j.builds = r}) <= Cardinality(Callers) + MaxLate

(***************************************************************************)
(* CapPerTag: the cap bounds the listed builds of one tag name across the  *)
(* repos, with one more for each caller that read the list before another  *)
(* one's create, and for each create that lands late.                      *)
(***************************************************************************)
CapPerTag ==
    \A t \in Tags :
        Cardinality(ActiveByTag(t))
            <= MaxConcurrent + Cardinality(Callers) - 1 + MaxLate

(***************************************************************************)
(* FailsClosed: a create is sent for an image that is already published    *)
(* only if it was published after this call's own probe had found it       *)
(* absent.  An answer of the registry that is not a clean 404 never leads  *)
(* to a rebuild.                                                           *)
(***************************************************************************)
FailsClosed ==
    [][\A j \in (jobs' \cup late') \ (jobs \cup late) :
            j.builds \in images => j.builds \in since[j.by]]_vars

(***************************************************************************)
(* NeverRebuilt: no build is created for an image that is published.  The  *)
(* probe comes before the look-up of active Jobs, so a build that finishes *)
(* between the two is seen by neither.                                     *)
(***************************************************************************)
NeverRebuilt == [][\A j \in jobs' \ jobs : j.builds \notin images]_vars
=============================================================================
