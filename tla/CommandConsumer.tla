-------------------------- MODULE CommandConsumer ---------------------------
(***************************************************************************)
(* The in-pod command consumer: the executor of                            *)
(* pkg/command/trigger_release_check_executor.go behind                    *)
(* cdb.RunCommandConsumerTxDefault, with the in-memory offset store of     *)
(* pkg/memdb.go.  The consumer framework is not part of the repository; it *)
(* is modelled as the executor's comments use it: messages in the order of *)
(* the topic, a nil and an ErrCommandObjectSkipped move the offset on, any *)
(* other error has the same message delivered again, and a store without   *)
(* an offset starts at the oldest message.                                 *)
(***************************************************************************)
EXTENDS CommandTopic

CONSTANT
    Poison      \* tags whose Dispatch fails every time: no label value, or
                \* a build recipe at the tag that does not parse

ASSUME PoisonAssumption == Poison \subseteq Tags

VARIABLES
    offset,     \* messages the offset store counts as handled
    step,       \* where the executor is: "fetch", "dispatch" or "poll"
    executed    \* history: positions of the messages handled at least once

consumerVars == <<offset, step, executed>>

ConsumerTypeOK ==
    /\ offset \in 0 .. Len(topic)
    /\ step \in {"fetch", "dispatch", "poll"}
    /\ step # "fetch" => offset < Len(topic) /\ topic[offset + 1] \in Command
    /\ executed \subseteq 1 .. Len(topic)

ConsumerInit ==
    /\ offset = 0
    /\ step = "fetch"
    /\ executed = {}

-----------------------------------------------------------------------------
\* The message at the consumer's position, when there is one.
Position == offset + 1
Current == topic[Position]

\* The offset moves on inside the store's Update.
Complete ==
    /\ offset' = Position
    /\ executed' = executed \cup {Position}
    /\ step' = "fetch"

\* An error: the offset stays, and the message is delivered again.
Redeliver ==
    /\ step' = "fetch"
    /\ UNCHANGED <<offset, executed>>

\* unmarshalAndValidate fails; the message will never be any better.
SkipMalformed ==
    /\ step = "fetch"
    /\ offset < Len(topic)
    /\ Current = Malformed
    /\ Complete
    /\ UNCHANGED topic

\* Mutant of Fetch: a payload that does not unmarshal passes for an empty one.
FetchAnything ==
    /\ step = "fetch"
    /\ offset < Len(topic)
    /\ step' = IF Current \in Command /\ Current.tag # None
               THEN "dispatch" ELSE "poll"
    /\ UNCHANGED <<topic, offset, executed>>

\* A command arrives; a tag is dispatched before the release check.
Fetch ==
    /\ step = "fetch"
    /\ offset < Len(topic)
    /\ Current \in Command
    /\ step' = IF Current.tag = None THEN "poll" ELSE "dispatch"
    /\ UNCHANGED <<topic, offset, executed>>

DispatchReturns ==
    /\ step = "dispatch"
    /\ Current.tag \notin Poison
    /\ step' = "poll"
    /\ UNCHANGED <<topic, offset, executed>>

\* Mutant of DispatchFails: a failed command is dropped.
DispatchDropped ==
    /\ step = "dispatch"
    /\ offset' = Position
    /\ step' = "fetch"
    /\ UNCHANGED <<topic, executed>>

\* A failed dispatch ends the command before its release check.
DispatchFails ==
    /\ step = "dispatch"
    /\ Redeliver
    /\ UNCHANGED topic

(***************************************************************************)
(* Poll returns nil: a finished cycle, and just the same one that the      *)
(* quota gate deferred, a rate limit aborted or a foreign scope ended.     *)
(***************************************************************************)
PollReturns ==
    /\ step = "poll"
    /\ Complete
    /\ UNCHANGED topic

\* Poll returns an error: the cursor does not load.
PollFails ==
    /\ step = "poll"
    /\ Redeliver
    /\ UNCHANGED topic

\* Mutant of ConsumerRestart: a store without an offset starts at the newest.
RestartAtNewest ==
    /\ offset' = Len(topic)
    /\ step' = "fetch"
    /\ UNCHANGED <<topic, executed>>

\* NewMemDB: the offset store is empty after a restart of the pod.
ConsumerRestart ==
    /\ offset' = 0
    /\ step' = "fetch"
    /\ UNCHANGED <<topic, executed>>

ConsumerStep ==
    \/ SkipMalformed
    \/ Fetch
    \/ DispatchReturns
    \/ DispatchFails
    \/ PollReturns
    \/ PollFails
=============================================================================
