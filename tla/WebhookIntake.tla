--------------------------- MODULE WebhookIntake ----------------------------
(***************************************************************************)
(* The HTTP side of the trigger path: /webhook/github-release              *)
(* (pkg/handler/webhook_handler.go) with its debouncer (pkg/debounce.go),  *)
(* and /trigger (pkg/handler/trigger_handler.go).  Both publish a command  *)
(* and answer; the net/http server runs each request in a goroutine.       *)
(*                                                                         *)
(* GitHub may lose a delivery, repeat it and reorder it: any delivery may  *)
(* come at any time.  The answer to one that is rejected (401, 400), or    *)
(* acknowledged and skipped (200), changes nothing but a metric.           *)
(***************************************************************************)
EXTENDS CommandTopic

CONSTANT
    Handlers,       \* request goroutines
    Deliveries      \* the webhook requests that may arrive

\* What ServeHTTP tells apart: the signature, the event (a push whose payload
\* names a repo, a push whose payload does not, anything else), the ref and
\* the files of the commits.
Delivery == [signed : BOOLEAN, event : {"push", "malformed push", "other"},
             repo : Repos, tag : Tags \cup {None}, touches : BOOLEAN]

ASSUME DeliveryAssumption == Deliveries \subseteq Delivery

VARIABLES
    recent,     \* keys the debouncer approved less than its interval ago
    sending,    \* sending[h]: the command h is about to send, or None
    \* history variables, which no guard reads
    since,      \* since[c]: the length of the topic when c was last approved
    failed      \* commands whose send failed after they were approved

intakeVars == <<recent, sending, since, failed>>

IntakeTypeOK ==
    /\ recent \subseteq Command
    /\ sending \in [Handlers -> Command \cup {None}]
    /\ since \in [Command -> Nat]
    /\ failed \subseteq Command

IntakeInit ==
    /\ recent = {}
    /\ sending = [h \in Handlers |-> None]
    /\ since = [c \in Command |-> 0]
    /\ failed = {}

-----------------------------------------------------------------------------
\* verifyWebhookSignature: 401 without a good signature of the raw body.
Verified(d) == d.signed

\* 200 for any other event, 400 for a payload that is of no use.
IsPush(d) == d.event = "push"

\* The command of a delivery; parseTagRef decides whether it names a tag.
CommandOf(d) ==
    IF d.tag = None THEN PushCommand(d.repo) ELSE TagCommand(d.repo, d.tag)

\* A tag push carries no commits: the release-file gate is for branches only.
PassesFileGate(d) == d.tag # None \/ d.touches

\* Mutant of DebounceKey: one key for all the pushes of a repo.
RepoOnlyKey(d) == PushCommand(d.repo)

(***************************************************************************)
(* The debouncer's key: the repo, or repo@tag for a tag push, which is to  *)
(* say the command itself.                                                 *)
(***************************************************************************)
DebounceKey(d) == CommandOf(d)

\* The debouncer looks a key up and records it, under one lock.
Allow(k) ==
    /\ k \notin recent
    /\ recent' = recent \cup {k}

(***************************************************************************)
(* ServeHTTP up to SendCommand.  The key is recorded before it is known    *)
(* whether the command can be sent.                                        *)
(***************************************************************************)
Webhook(h, d) ==
    /\ sending[h] = None
    /\ Verified(d) /\ IsPush(d) /\ PassesFileGate(d)
    /\ Allow(DebounceKey(d))
    /\ sending' = [sending EXCEPT ![h] = CommandOf(d)]
    /\ since' = [since EXCEPT ![CommandOf(d)] = Len(topic)]
    /\ failed' = failed \ {CommandOf(d)}
    /\ UNCHANGED topic

\* /trigger is not debounced.
Trigger(h) ==
    /\ sending[h] = None
    /\ sending' = [sending EXCEPT ![h] = TriggerCommand]
    /\ UNCHANGED <<topic, recent, since, failed>>

\* SendCommand succeeds: 202.
Send(h) ==
    /\ sending[h] # None
    /\ Publish(sending[h])
    /\ sending' = [sending EXCEPT ![h] = None]
    /\ UNCHANGED <<recent, since, failed>>

(***************************************************************************)
(* SendCommand returns an error: 502.  The broker may have the command all *)
(* the same, and the debouncer keeps the key.                              *)
(***************************************************************************)
SendFails(h) ==
    /\ sending[h] # None
    /\ Publish(sending[h]) \/ UNCHANGED topic
    /\ sending' = [sending EXCEPT ![h] = None]
    /\ failed' = failed \cup {sending[h]}
    /\ UNCHANGED <<recent, since>>

\* The interval of a key has passed.
Expire(k) ==
    /\ k \in recent
    /\ recent' = recent \ {k}
    /\ since' = [since EXCEPT ![k] = 0]
    /\ failed' = failed \ {k}
    /\ UNCHANGED <<topic, sending>>

\* The pod is gone, and with it the debouncer and the requests in flight.
IntakeRestart ==
    /\ recent' = {}
    /\ sending' = [h \in Handlers |-> None]
    /\ since' = [c \in Command |-> 0]
    /\ failed' = {}

IntakeNext ==
    \/ \E h \in Handlers : (\E d \in Deliveries : Webhook(h, d))
                              \/ Trigger(h) \/ Send(h) \/ SendFails(h)
    \/ \E k \in Command : Expire(k)
=============================================================================
