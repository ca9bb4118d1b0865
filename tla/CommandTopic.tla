---------------------------- MODULE CommandTopic ----------------------------
(***************************************************************************)
(* The Kafka request topic of the watcher and the TriggerReleaseCheck-     *)
(* Command that travels on it (pkg/command).  The topic is an append-only  *)
(* log; it survives the pod.  The Force flag is not kept: nothing on the   *)
(* way to Poll looks at it (ReleaseWatcher has it as an argument of Poll). *)
(***************************************************************************)
EXTENDS Naturals, Sequences

CONSTANTS
    Repos,          \* full names of repos
    Tags,           \* bare tag names
    None,           \* the empty string: no scope, no tag
    Malformed,      \* a message whose payload does not unmarshal
    MaxCommands     \* bound on the length of the topic

ASSUME TopicAssumption ==
    /\ None \notin Repos \cup Tags
    /\ MaxCommands \in Nat

\* Scope and Tag: a branch push has no tag, /trigger has neither.
PushCommand(r) == [scope |-> r, tag |-> None]
TagCommand(r, t) == [scope |-> r, tag |-> t]
TriggerCommand == [scope |-> None, tag |-> None]

Command == {TriggerCommand} \cup {PushCommand(r) : r \in Repos}
              \cup {TagCommand(r, t) : r \in Repos, t \in Tags}

ASSUME MalformedAssumption == Malformed \notin Command /\ None \notin Command

Message == Command \cup {Malformed}

VARIABLE topic      \* the messages, oldest first

HasRoom == Len(topic) < MaxCommands

\* The broker takes a message.
Publish(m) ==
    /\ HasRoom
    /\ topic' = Append(topic, m)
=============================================================================
