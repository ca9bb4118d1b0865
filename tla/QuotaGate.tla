----------------------------- MODULE QuotaGate ------------------------------
(***************************************************************************)
(* The request quota of the shared GitHub App token, and the poll cycles   *)
(* that live on it: the poll loop of main.go and the command consumer call *)
(* Watcher.Poll (pkg/watcher.go) with one GitHub client                    *)
(* (pkg/githubclient.go), which caches the X-RateLimit-Remaining of its    *)
(* last response.  A full scan is deferred while the cached value is low   *)
(* but positive; a rate limit aborts a cycle and ends it without an error; *)
(* the next cycle starts again at the first repo.                          *)
(*                                                                         *)
(* A check of a repo (its tags, head, changelog and config) counts as one  *)
(* request.  What a check finds out is left to ReleaseWatcher: here it     *)
(* matters only that the repo was looked at after it had changed.          *)
(***************************************************************************)
EXTENDS Integers, SequencesExt

CONSTANTS
    Fleet,          \* the repos of the owner, in the order ListRepos answers
    Window,         \* requests per rate-limit window
    QuotaMin,       \* quotaMinRemaining (0: no gate)
    MaxRestarts     \* bound on the number of restarts

Repos == ToSet(Fleet)

ASSUME QuotaAssumption ==
    /\ Fleet \in Seq(Repos) /\ IsInjective(Fleet)
    /\ Window \in Nat /\ QuotaMin \in Nat /\ MaxRestarts \in Nat

\* A full scan fits into one window of a token that nobody else uses.
ASSUME FleetFits == Len(Fleet) + 1 <= Window

Pollers == {"loop", "consumer"}

VARIABLES
    quota,          \* what is left of the current window, at GitHub
    rateRemaining,  \* the client's cached X-RateLimit-Remaining
    pc,             \* pc[p]: "idle", "list" or "scan"
    todo,           \* todo[p]: the repos p's cycle has still to check
    held,           \* held[p]: the quota p's cycle will publish when it ends
    gauge,          \* the rate_limit_remaining metric
    changed,        \* repos whose release state no check has read yet
    restarts        \* how often the pod has been restarted

vars == <<quota, rateRemaining, pc, todo, held, gauge, changed, restarts>>

\* Types; a cycle that is not scanning has nothing left to scan.
TypeOK ==
    /\ quota \in 0 .. Window
    /\ rateRemaining \in 0 .. Window
    /\ pc \in [Pollers -> {"idle", "list", "scan"}]
    /\ todo \in [Pollers -> Seq(Repos)]
    /\ \A p \in Pollers : pc[p] # "scan" => todo[p] = <<>>
    /\ held \in [Pollers -> 0 .. Window]
    /\ gauge \in 0 .. Window
    /\ changed \subseteq Repos
    /\ restarts \in 0 .. MaxRestarts

Init ==
    /\ quota \in 0 .. Window
    /\ rateRemaining = 0
    /\ pc = [p \in Pollers |-> "idle"]
    /\ todo = [p \in Pollers |-> <<>>]
    /\ held = [p \in Pollers |-> 0]
    /\ gauge = 0
    /\ changed = Repos
    /\ restarts = 0

-----------------------------------------------------------------------------
\* Mutant of GateDefers: a gauge that is not populated yet counts as low.
GateDefersUnknown == QuotaMin > 0 /\ rateRemaining < QuotaMin

\* The quota gate of Poll; 0 is "not populated yet" and never gates.
GateDefers ==
    /\ QuotaMin > 0
    /\ 0 < rateRemaining /\ rateRemaining < QuotaMin

\* A request is answered: it is counted, and its header is captured.
Answered ==
    /\ quota > 0
    /\ quota' = quota - 1
    /\ rateRemaining' = quota - 1

(***************************************************************************)
(* ErrRateLimited: the window is used up, or GitHub's secondary limit hits *)
(* while there is quota left.  GitHub's response carries the header, too;  *)
(* go-github may also refuse by itself, and then there is no response.     *)
(***************************************************************************)
RateLimited ==
    /\ rateRemaining' \in {quota, rateRemaining}
    /\ UNCHANGED quota

\* Any other failure: a status with the header, or no response at all.
Failed ==
    \/ Answered
    \/ UNCHANGED <<quota, rateRemaining>>

(***************************************************************************)
(* Poll sets the gauge in a defer.  Go evaluates the argument where the    *)
(* defer stands, before the gate: a cycle publishes, when it ends, the     *)
(* value that was cached when it began.                                    *)
(***************************************************************************)
Begin(p, step, repos) ==
    /\ pc[p] = "idle"
    /\ pc' = [pc EXCEPT ![p] = step]
    /\ todo' = [todo EXCEPT ![p] = repos]
    /\ held' = [held EXCEPT ![p] = rateRemaining]
    /\ UNCHANGED <<quota, rateRemaining, gauge, changed, restarts>>

Return(p) ==
    /\ gauge' = held[p]
    /\ pc' = [pc EXCEPT ![p] = "idle"]
    /\ todo' = [todo EXCEPT ![p] = <<>>]
    /\ held' = [held EXCEPT ![p] = 0]
    /\ UNCHANGED <<changed, restarts>>

-----------------------------------------------------------------------------
\* Poll with an empty scope.
BeginFullScan(p) == ~GateDefers /\ Begin(p, "list", <<>>)

\* Mutant of DeferScan: the gate comes before the defer.
DeferSilently(p) ==
    /\ pc[p] = "idle"
    /\ GateDefers
    /\ UNCHANGED vars

\* The gate ends a full scan before its first request.
DeferScan(p) ==
    /\ pc[p] = "idle"
    /\ GateDefers
    /\ gauge' = rateRemaining
    /\ UNCHANGED <<quota, rateRemaining, pc, todo, held, changed, restarts>>

\* Poll for the repo of a webhook command, which the gate lets through.
BeginScoped(p, r) == Begin(p, "scan", <<r>>)

ListRepos(p) ==
    /\ pc[p] = "list"
    /\ Answered
    /\ pc' = [pc EXCEPT ![p] = "scan"]
    /\ todo' = [todo EXCEPT ![p] = Fleet]
    /\ UNCHANGED <<held, gauge, changed, restarts>>

\* ListRepos fails, rate-limited or not: the cycle ends, Poll returns nil.
ListFails(p) ==
    /\ pc[p] = "list"
    /\ RateLimited \/ Failed
    /\ Return(p)

CheckRepo(p) ==
    /\ pc[p] = "scan" /\ todo[p] # <<>>
    /\ Answered
    /\ changed' = changed \ {Head(todo[p])}
    /\ todo' = [todo EXCEPT ![p] = Tail(@)]
    /\ UNCHANGED <<pc, held, gauge, restarts>>

\* A read fails: this repo is dropped from the cycle.
DropRepo(p) ==
    /\ pc[p] = "scan" /\ todo[p] # <<>>
    /\ Failed
    /\ todo' = [todo EXCEPT ![p] = Tail(@)]
    /\ UNCHANGED <<pc, held, gauge, changed, restarts>>

\* A rate limit: the cycle ends here, and Poll returns nil all the same.
AbortScan(p) ==
    /\ pc[p] = "scan" /\ todo[p] # <<>>
    /\ RateLimited
    /\ Return(p)

\* Mutant of FinishScan: the cycle goes back to its list, not to its caller.
FinishAndStay(p) ==
    /\ pc[p] = "scan" /\ todo[p] = <<>>
    /\ pc' = [pc EXCEPT ![p] = "list"]
    /\ todo' = [todo EXCEPT ![p] = Fleet]
    /\ UNCHANGED <<quota, rateRemaining, held, gauge, changed, restarts>>

FinishScan(p) ==
    /\ pc[p] = "scan" /\ todo[p] = <<>>
    /\ Return(p)
    /\ UNCHANGED <<quota, rateRemaining>>

-----------------------------------------------------------------------------
\* Somebody pushes a release-relevant change to r.
Change(r) ==
    /\ changed' = changed \cup {r}
    /\ UNCHANGED <<quota, rateRemaining, pc, todo, held, gauge, restarts>>

\* GitHub: the next window begins; the other watchers use the same token.
Refill ==
    /\ quota' = Window
    /\ UNCHANGED <<rateRemaining, pc, todo, held, gauge, changed, restarts>>

Spend ==
    /\ quota > 0
    /\ quota' = quota - 1
    /\ UNCHANGED <<rateRemaining, pc, todo, held, gauge, changed, restarts>>

\* The pod is restarted: a new client, which has seen no response yet.
Restart ==
    /\ restarts < MaxRestarts
    /\ restarts' = restarts + 1
    /\ rateRemaining' = 0
    /\ pc' = [p \in Pollers |-> "idle"]
    /\ todo' = [p \in Pollers |-> <<>>]
    /\ held' = [p \in Pollers |-> 0]
    /\ gauge' = 0
    /\ UNCHANGED <<quota, changed>>

Scan(p) ==
    \/ ListRepos(p) \/ ListFails(p)
    \/ CheckRepo(p) \/ DropRepo(p) \/ AbortScan(p)
    \/ FinishScan(p)

Loop == BeginFullScan("loop") \/ DeferScan("loop") \/ Scan("loop")

\* A command: /trigger scans the fleet, a webhook the repo it names.
Consumer ==
    \/ BeginFullScan("consumer") \/ DeferScan("consumer")
    \/ \E r \in Repos : BeginScoped("consumer", r)
    \/ Scan("consumer")

Next ==
    \/ Loop
    \/ Consumer
    \/ \E r \in Repos : Change(r)
    \/ Refill
    \/ Spend
    \/ Restart

Spec == Init /\ [][Next]_vars

(***************************************************************************)
(* Fairness: the ticker keeps the poll loop going, and a rate-limit window *)
(* comes to its end.  Nothing is assumed of the consumer.                  *)
(***************************************************************************)
Fairness ==
    /\ WF_vars(Loop)
    /\ WF_vars(Refill)

FairSpec == Spec /\ Fairness

-----------------------------------------------------------------------------
\* A step of the loop in which GitHub refuses nothing but for want of quota.
LoopServed ==
    \/ BeginFullScan("loop") \/ DeferScan("loop") \/ ListRepos("loop")
    \/ CheckRepo("loop") \/ FinishScan("loop")
    \/ quota = 0 /\ (ListFails("loop") \/ AbortScan("loop"))

\* From some point on the loop has the token to itself and is served so.
LoopAlone ==
    <>[][LoopServed \/ Refill \/ \E r \in Repos : Change(r)]_vars

\* The cached quota is positive and below the threshold.
KnownLow == 0 < rateRemaining /\ rateRemaining < QuotaMin

(***************************************************************************)
(* MissedOnlyBehindGate: a change that no webhook reported, whose command  *)
(* a rate limit consumed, or that the debouncer swallowed, is picked up by *)
(* the poll loop once it has the token to itself, although a cycle that    *)
(* runs out of quota is aborted and the next one starts at the first repo  *)
(* again.  The one way to miss it for good is to stay behind the quota     *)
(* gate.                                                                   *)
(***************************************************************************)
MissedOnlyBehindGate ==
    \A r \in Repos :
        LoopAlone => []<>(r \notin changed) \/ <>[]KnownLow

(***************************************************************************)
(* StallShows: a gate that stays shut shows on the gauge, on which the     *)
(* alert for a stall hangs: the deferred cycles make no request, but they  *)
(* publish the low value that defers them, and no scoped check that runs   *)
(* beside them puts a better one in its place for good.  While cycles do   *)
(* scan, the gauge lags one cycle behind the client.                       *)
(***************************************************************************)
StallShows == <>[]GateDefers => <>[](0 < gauge /\ gauge < QuotaMin)

(***************************************************************************)
(* ScanResumes: a full scan is deferred only while the shared token really *)
(* is short: once its quota stays at the threshold or above, the gate      *)
(* opens again.                                                            *)
(***************************************************************************)
ScanResumes == <>[](quota >= QuotaMin) => []<>~GateDefers
=============================================================================
