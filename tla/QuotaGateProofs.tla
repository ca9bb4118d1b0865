-------------------------- MODULE QuotaGateProofs ---------------------------
(***************************************************************************)
(* Proofs about QuotaGate, for any fleet, window and threshold: the types, *)
(* when the gate tells the truth about the token, and why it may stay shut *)
(* for good.                                                               *)
(***************************************************************************)
EXTENDS QuotaGate, SequenceTheorems, TLAPS

\* What a response, or the lack of one, makes of the quota and its cache.
LEMMA ReadTypes ==
    ASSUME TypeOK, RateLimited \/ Failed
    PROVE  quota' \in 0 .. Window /\ rateRemaining' \in 0 .. Window
BY QuotaAssumption DEF TypeOK, RateLimited, Failed, Answered

\* The end of a cycle keeps the types.
LEMMA ReturnTypes ==
    ASSUME TypeOK, NEW p \in Pollers, Return(p),
           quota' \in 0 .. Window, rateRemaining' \in 0 .. Window
    PROVE  TypeOK'
<1>1. <<>> \in Seq(Repos)
    OBVIOUS
<1>2. todo' \in [Pollers -> Seq(Repos)] /\ pc' \in [Pollers -> {"idle", "list", "scan"}]
    BY <1>1 DEF TypeOK, Return
<1>3. held' \in [Pollers -> 0 .. Window] /\ gauge' \in 0 .. Window
    BY QuotaAssumption DEF TypeOK, Return
<1>4. \A q \in Pollers : pc'[q] # "scan" => todo'[q] = <<>>
    BY DEF TypeOK, Return
<1> QED BY <1>2, <1>3, <1>4 DEF TypeOK, Return

\* The start of a cycle keeps the types.
LEMMA BeginTypes ==
    ASSUME TypeOK, NEW p \in Pollers, NEW step \in {"list", "scan"},
           NEW repos \in Seq(Repos), step = "list" => repos = <<>>,
           Begin(p, step, repos)
    PROVE  TypeOK'
<1>1. todo' \in [Pollers -> Seq(Repos)] /\ pc' \in [Pollers -> {"idle", "list", "scan"}]
    BY DEF TypeOK, Begin
<1>2. held' \in [Pollers -> 0 .. Window]
    BY DEF TypeOK, Begin
<1>3. \A q \in Pollers : pc'[q] # "scan" => todo'[q] = <<>>
    BY DEF TypeOK, Begin
<1> QED BY <1>1, <1>2, <1>3 DEF TypeOK, Begin

\* A repo that is done with leaves the list of p's cycle.
LEMMA TailTypes ==
    ASSUME TypeOK, NEW p \in Pollers, pc[p] = "scan", todo[p] # <<>>,
           todo' = [todo EXCEPT ![p] = Tail(@)]
    PROVE  /\ todo' \in [Pollers -> Seq(Repos)] /\ Head(todo[p]) \in Repos
           /\ \A q \in Pollers : pc[q] # "scan" => todo'[q] = <<>>
<1>1. todo[p] \in Seq(Repos)
    BY DEF TypeOK
<1>2. Head(todo[p]) \in Repos /\ Tail(todo[p]) \in Seq(Repos)
    BY <1>1, HeadTailProperties
<1> QED BY <1>2 DEF TypeOK

\* A step of a running cycle keeps the types.
LEMMA ScanTypes ==
    ASSUME TypeOK, NEW p \in Pollers, Scan(p)
    PROVE  TypeOK'
<1>1. CASE ListRepos(p)
    <2>1. quota' \in 0 .. Window /\ rateRemaining' \in 0 .. Window
        BY <1>1, ReadTypes DEF ListRepos, Failed
    <2>2. /\ todo' \in [Pollers -> Seq(Repos)]
          /\ pc' \in [Pollers -> {"idle", "list", "scan"}]
        BY <1>1, QuotaAssumption DEF TypeOK, ListRepos
    <2>3. \A q \in Pollers : pc'[q] # "scan" => todo'[q] = <<>>
        BY <1>1 DEF TypeOK, ListRepos
    <2> QED BY <1>1, <2>1, <2>2, <2>3 DEF TypeOK, ListRepos
<1>2. CASE ListFails(p)
    BY <1>2, ReadTypes, ReturnTypes DEF ListFails
<1>3. CASE CheckRepo(p)
    <2>1. quota' \in 0 .. Window /\ rateRemaining' \in 0 .. Window
        BY <1>3, ReadTypes DEF CheckRepo, Failed
    <2>2. /\ todo' \in [Pollers -> Seq(Repos)]
          /\ \A q \in Pollers : pc[q] # "scan" => todo'[q] = <<>>
        BY <1>3, TailTypes DEF CheckRepo
    <2> QED BY <1>3, <2>1, <2>2 DEF TypeOK, CheckRepo
<1>4. CASE DropRepo(p)
    <2>1. quota' \in 0 .. Window /\ rateRemaining' \in 0 .. Window
        BY <1>4, ReadTypes DEF DropRepo
    <2>2. /\ todo' \in [Pollers -> Seq(Repos)]
          /\ \A q \in Pollers : pc[q] # "scan" => todo'[q] = <<>>
        BY <1>4, TailTypes DEF DropRepo
    <2> QED BY <1>4, <2>1, <2>2 DEF TypeOK, DropRepo
<1>5. CASE AbortScan(p)
    BY <1>5, ReadTypes, ReturnTypes DEF AbortScan
<1>6. CASE FinishScan(p)
    BY <1>6, ReturnTypes DEF FinishScan, TypeOK
<1> QED BY <1>1, <1>2, <1>3, <1>4, <1>5, <1>6 DEF Scan

\* A call of Poll keeps the types.
LEMMA CallTypes ==
    ASSUME TypeOK, NEW p \in Pollers,
           BeginFullScan(p) \/ DeferScan(p) \/ \E r \in Repos : BeginScoped(p, r)
    PROVE  TypeOK'
<1>1. CASE BeginFullScan(p)
    <2>1. <<>> \in Seq(Repos)
        OBVIOUS
    <2> QED BY <1>1, <2>1, BeginTypes DEF BeginFullScan
<1>2. CASE DeferScan(p)
    BY <1>2 DEF TypeOK, DeferScan
<1>3. ASSUME NEW r \in Repos, BeginScoped(p, r)
      PROVE  TypeOK'
    <2>1. <<r>> \in Seq(Repos)
        OBVIOUS
    <2> QED BY <1>3, <2>1, BeginTypes DEF BeginScoped
<1> QED BY <1>1, <1>2, <1>3

\* A restart is a fresh start with what GitHub has left.
LEMMA RestartTypes ==
    ASSUME TypeOK, Restart
    PROVE  TypeOK'
<1>1. <<>> \in Seq(Repos) /\ 0 \in 0 .. Window
    BY QuotaAssumption
<1>2. restarts' \in 0 .. MaxRestarts
    BY QuotaAssumption DEF TypeOK, Restart
<1> QED BY <1>1, <1>2 DEF TypeOK, Restart

\* Every step keeps the types.
LEMMA StepTypes == TypeOK /\ [Next]_vars => TypeOK'
<1> SUFFICES ASSUME TypeOK, [Next]_vars
             PROVE  TypeOK'
    OBVIOUS
<1>0. "loop" \in Pollers /\ "consumer" \in Pollers
    BY DEF Pollers
<1>1. CASE Loop
    BY <1>0, <1>1, CallTypes, ScanTypes DEF Loop
<1>2. CASE Consumer
    BY <1>0, <1>2, CallTypes, ScanTypes DEF Consumer
<1>3. ASSUME NEW r \in Repos, Change(r)
      PROVE  TypeOK'
    BY <1>3 DEF TypeOK, Change
<1>4. CASE Refill
    BY <1>4, QuotaAssumption DEF TypeOK, Refill
<1>5. CASE Spend
    BY <1>5, QuotaAssumption DEF TypeOK, Spend
<1>6. CASE Restart
    BY <1>6, RestartTypes
<1>7. CASE UNCHANGED vars
    BY <1>7 DEF TypeOK, vars
<1> QED BY <1>1, <1>2, <1>3, <1>4, <1>5, <1>6, <1>7 DEF Next

(***************************************************************************)
(* The types of the quota and of both poll cycles, for any fleet and       *)
(* window: neither the quota nor what is cached or published of it leaves  *)
(* the window, and a cycle that does not scan has nothing left to scan.    *)
(***************************************************************************)
THEOREM QuotaTypes == Spec => []TypeOK
<1>1. Init => TypeOK
    <2>1. <<>> \in Seq(Repos) /\ 0 \in 0 .. Window /\ 0 \in 0 .. MaxRestarts
        BY QuotaAssumption
    <2> QED BY <2>1 DEF Init, TypeOK
<1> QED BY <1>1, StepTypes, PTL DEF Spec

-----------------------------------------------------------------------------
\* Cached is what GitHub has left, or more.
NotUnderstated == quota <= rateRemaining

\* A response brings the cache up to date; only a new window or a new client
\* can leave it behind.
LEMMA StepNotUnderstated ==
    TypeOK /\ NotUnderstated /\ [Next]_vars /\ [~Refill /\ ~Restart]_vars => NotUnderstated'
<1> SUFFICES ASSUME TypeOK, NotUnderstated, [Next]_vars, [~Refill /\ ~Restart]_vars
             PROVE  NotUnderstated'
    OBVIOUS
<1>0. quota \in Int /\ rateRemaining \in Int
    BY DEF TypeOK
<1>1. ASSUME NEW p \in Pollers, Scan(p)
      PROVE  NotUnderstated'
    <2>1. (RateLimited \/ Failed) \/ UNCHANGED <<quota, rateRemaining>>
        BY <1>1 DEF Scan, ListRepos, ListFails, CheckRepo, DropRepo, AbortScan,
            FinishScan, Failed
    <2> QED BY <1>0, <2>1 DEF RateLimited, Failed, Answered, NotUnderstated
<1>2. CASE UNCHANGED <<quota, rateRemaining>>
    BY <1>2 DEF NotUnderstated
<1>3. CASE Spend
    BY <1>0, <1>3 DEF Spend, NotUnderstated
<1>4. ~Scan("loop") /\ ~Scan("consumer") /\ ~Spend => UNCHANGED <<quota, rateRemaining>>
    BY DEF Next, vars, Loop, Consumer, BeginFullScan, DeferScan, BeginScoped, Begin, Change
<1>5. "loop" \in Pollers /\ "consumer" \in Pollers
    BY DEF Pollers
<1> QED BY <1>1, <1>2, <1>3, <1>4, <1>5

(***************************************************************************)
(* Within one window, and as long as the pod lives, a deferral is          *)
(* justified: the cache, once it is no less than what GitHub has left,     *)
(* stays so however the other users of the token spend, and a gate that is *)
(* shut then means that the token really is below the threshold.           *)
(***************************************************************************)
THEOREM DeferralIsJustified ==
    Spec /\ [][~Refill /\ ~Restart]_vars
        => [](NotUnderstated => [](GateDefers => quota < QuotaMin))
<1>1. TypeOK /\ NotUnderstated => (GateDefers => quota < QuotaMin)
    BY QuotaAssumption DEF TypeOK, NotUnderstated, GateDefers
<1> QED BY <1>1, QuotaTypes, StepNotUnderstated, PTL DEF Spec

-----------------------------------------------------------------------------
\* The gate is shut and no cycle is under way.
BehindGate == GateDefers /\ \A p \in Pollers : pc[p] = "idle"

\* A webhook command has a repo checked in spite of the gate.
ScopedCycle == \E r \in Repos : BeginScoped("consumer", r)

\* Behind the gate a full scan is deferred, and makes no request.
LEMMA StepBehindGate ==
    BehindGate /\ [Next]_vars /\ [~ScopedCycle /\ ~Restart]_vars => BehindGate'
<1> SUFFICES ASSUME BehindGate, [Next]_vars, [~ScopedCycle /\ ~Restart]_vars
             PROVE  BehindGate'
    OBVIOUS
<1>1. pc["loop"] = "idle" /\ pc["consumer"] = "idle"
    BY DEF BehindGate, Pollers
<1>2. UNCHANGED <<rateRemaining, pc>>
    <2>1. ~Scan("loop") /\ ~Scan("consumer")
        BY <1>1 DEF Scan, ListRepos, ListFails, CheckRepo, DropRepo, AbortScan, FinishScan
    <2>2. ~BeginFullScan("loop") /\ ~BeginFullScan("consumer")
        BY DEF BehindGate, BeginFullScan
    <2> QED BY <2>1, <2>2 DEF Next, vars, Loop, Consumer, DeferScan, Change, Refill,
                Spend, ScopedCycle
<1> QED BY <1>2 DEF BehindGate, GateDefers

(***************************************************************************)
(* The reason why full scans may never resume: once the gate is shut and   *)
(* no cycle is under way, it stays shut for ever, however full the token   *)
(* becomes and however often the windows change, until a webhook command   *)
(* or a restart happens to come.                                           *)
(***************************************************************************)
THEOREM GateStaysShut ==
    Spec /\ [][~ScopedCycle /\ ~Restart]_vars => [](BehindGate => []BehindGate)
BY StepBehindGate, PTL DEF Spec
=============================================================================
