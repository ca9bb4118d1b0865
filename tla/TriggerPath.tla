---------------------------- MODULE TriggerPath -----------------------------
(***************************************************************************)
(* The trigger path of the pod: HTTP requests become commands on the topic *)
(* (WebhookIntake), and the consumer carries them out (CommandConsumer).   *)
(* Other tools publish on the topic, too.  When one of the three functions *)
(* of main.go's Run ends, or the pod is killed, everything in memory is    *)
(* lost and the topic is read again from its beginning.                    *)
(***************************************************************************)
EXTENDS WebhookIntake, CommandConsumer

CONSTANT MaxRestarts    \* bound on the number of restarts

ASSUME RestartAssumption == MaxRestarts \in Nat

VARIABLE restarts       \* how often the pod has been restarted

vars == <<topic, recent, sending, since, failed,
          offset, step, executed, restarts>>

TypeOK ==
    /\ topic \in Seq(Message) /\ Len(topic) <= MaxCommands
    /\ IntakeTypeOK
    /\ ConsumerTypeOK
    /\ restarts \in 0 .. MaxRestarts

Init ==
    /\ topic = <<>>
    /\ IntakeInit
    /\ ConsumerInit
    /\ restarts = 0

\* A command-line tool, or anyone else, publishes on the request topic.
OtherProducer(m) ==
    /\ Publish(m)
    /\ UNCHANGED <<intakeVars, consumerVars, restarts>>

Restart ==
    /\ restarts < MaxRestarts
    /\ restarts' = restarts + 1
    /\ IntakeRestart
    /\ ConsumerRestart

Intake == IntakeNext /\ UNCHANGED <<consumerVars, restarts>>
Consume == ConsumerStep /\ UNCHANGED <<intakeVars, restarts>>

Next ==
    \/ Intake
    \/ Consume
    \/ \E m \in Message : OtherProducer(m)
    \/ Restart

Spec == Init /\ [][Next]_vars

(***************************************************************************)
(* Fairness: the consumer goes on while there is a message (weak), and     *)
(* what it calls does not fail every single time for the same message      *)
(* (strong).  Nothing is assumed of requests, sends or other producers.    *)
(***************************************************************************)
At(i) == Position = i

Fairness ==
    /\ WF_vars(Consume)
    /\ \A i \in 1 .. MaxCommands :
        /\ SF_vars(At(i) /\ DispatchReturns /\ UNCHANGED <<intakeVars, restarts>>)
        /\ SF_vars(At(i) /\ PollReturns /\ UNCHANGED <<intakeVars, restarts>>)

FairSpec == Spec /\ Fairness

-----------------------------------------------------------------------------
(***************************************************************************)
(* SwallowedIsCovered: when the debouncer swallows a delivery, the very    *)
(* command of that delivery has been put on the topic since its approval,  *)
(* or is about to be, or its send failed with a 502.  A tag push seconds   *)
(* after the push of its branch is therefore never swallowed.              *)
(***************************************************************************)
Swallowed(d) ==
    /\ Verified(d) /\ IsPush(d) /\ PassesFileGate(d)
    /\ DebounceKey(d) \in recent

Covered(c) ==
    \/ c \in failed
    \/ \E h \in Handlers : sending[h] = c
    \/ \E i \in since[c] + 1 .. Len(topic) : topic[i] = c

SwallowedIsCovered == \A d \in Deliveries : Swallowed(d) => Covered(CommandOf(d))

(***************************************************************************)
(* ImplementsQueue: across failed and repeated sends, redeliveries, lost   *)
(* offsets and replays, commands are carried out in the order of the topic *)
(* and none is passed over.                                                *)
(***************************************************************************)
Queue == INSTANCE CommandQueue WITH accepted <- Len(topic), done <- executed

ImplementsQueue == Queue!Spec

\* No message up to i is one that the consumer cannot get past.
Passable(i) ==
    \A j \in 1 .. i : topic[j] \in Command => topic[j].tag \notin Poison

(***************************************************************************)
(* CommandsExecuted: every message on the topic is handled in the end,     *)
(* across failed dispatches and polls and across restarts, unless it or a  *)
(* message before it names a tag whose dispatch can never succeed: that    *)
(* one is delivered again forever, and everything behind it waits.         *)
(***************************************************************************)
CommandsExecuted ==
    \A i \in 1 .. MaxCommands :
        (i <= Len(topic) /\ Passable(i)) ~> (i \in executed)
=============================================================================
