------------------------- MODULE TriggerPathProofs --------------------------
(***************************************************************************)
(* Theorems about TriggerPath, for any number of handlers, deliveries,     *)
(* commands and restarts.                                                  *)
(***************************************************************************)
EXTENDS TriggerPath, TLAPS

\* A delivery's command is a command.
LEMMA CommandOfType ==
    ASSUME NEW d \in Deliveries
    PROVE  CommandOf(d) \in Command
<1>1. d \in Delivery  BY DeliveryAssumption
<1>2. d.repo \in Repos /\ d.tag \in Tags \cup {None}  BY <1>1 DEF Delivery
<1>3. QED  BY <1>2 DEF CommandOf, Command, PushCommand, TagCommand

LEMMA TriggerCommandType == TriggerCommand \in Command
BY DEF Command

-----------------------------------------------------------------------------
(***************************************************************************)
(* Types.  Every action of the intake leaves the consumer's part alone and *)
(* only ever makes the topic longer, and the other way round.              *)
(***************************************************************************)
LEMMA InitTypes == Init => TypeOK
<1>1. SUFFICES ASSUME Init PROVE TypeOK  OBVIOUS
<1>2. topic = <<>> /\ Len(topic) = 0  BY <1>1 DEF Init
<1>3. IntakeTypeOK  BY <1>1 DEF Init, IntakeInit, IntakeTypeOK
<1>4. ConsumerTypeOK  BY <1>1, <1>2 DEF Init, ConsumerInit, ConsumerTypeOK
<1>5. restarts \in 0 .. MaxRestarts  BY <1>1, RestartAssumption DEF Init
<1>6. QED  BY <1>2, <1>3, <1>4, <1>5, TopicAssumption DEF TypeOK

\* The topic after a message was taken.
LEMMA PublishTypes ==
    ASSUME TypeOK, NEW m \in Message, Publish(m)
    PROVE  /\ topic' \in Seq(Message)
           /\ Len(topic') <= MaxCommands
           /\ Len(topic') = Len(topic) + 1
           /\ \A i \in 1 .. Len(topic) : topic'[i] = topic[i]
           /\ topic'[Len(topic')] = m
BY TopicAssumption DEF TypeOK, Publish, HasRoom

\* The consumer's types outlive a message that is appended.
LEMMA ConsumerKept ==
    ASSUME TypeOK, UNCHANGED consumerVars,
           \/ UNCHANGED topic
           \/ \E m \in Message : Publish(m)
    PROVE  ConsumerTypeOK'
<1>1. CASE UNCHANGED topic
  BY <1>1 DEF TypeOK, ConsumerTypeOK, consumerVars
<1>2. CASE \E m \in Message : Publish(m)
  <2>1. PICK m \in Message : Publish(m)  BY <1>2
  <2>2. /\ Len(topic') = Len(topic) + 1
        /\ \A i \in 1 .. Len(topic) : topic'[i] = topic[i]
        /\ Len(topic) \in Nat
    BY <2>1, PublishTypes DEF TypeOK
  <2>3. QED  BY <2>2 DEF TypeOK, ConsumerTypeOK, consumerVars
<1>3. QED  BY <1>1, <1>2

\* A step of the intake or of another producer: what it does to the topic.
LEMMA IntakePublishes ==
    ASSUME TypeOK, IntakeNext
    PROVE  UNCHANGED topic \/ \E m \in Message : Publish(m)
<1>1. \A h \in Handlers : sending[h] # None => sending[h] \in Message
  BY DEF TypeOK, IntakeTypeOK, Message
<1>2. QED
  BY <1>1 DEF IntakeNext, Webhook, Trigger, Send, SendFails, Expire

LEMMA IntakeTypes ==
    ASSUME TypeOK, IntakeNext
    PROVE  IntakeTypeOK'
<1>1. ASSUME NEW h \in Handlers, NEW d \in Deliveries, Webhook(h, d)
      PROVE  IntakeTypeOK'
  <2>1. CommandOf(d) \in Command  BY CommandOfType
  <2>2. Len(topic) \in Nat  BY DEF TypeOK
  <2>3. QED  BY <1>1, <2>1, <2>2 DEF TypeOK, IntakeTypeOK, Webhook, DebounceKey, Allow
<1>2. ASSUME NEW h \in Handlers, Trigger(h)
      PROVE  IntakeTypeOK'
  BY <1>2, TriggerCommandType DEF TypeOK, IntakeTypeOK, Trigger
<1>3. ASSUME NEW h \in Handlers, Send(h)
      PROVE  IntakeTypeOK'
  BY <1>3 DEF TypeOK, IntakeTypeOK, Send
<1>4. ASSUME NEW h \in Handlers, SendFails(h)
      PROVE  IntakeTypeOK'
  BY <1>4 DEF TypeOK, IntakeTypeOK, SendFails
<1>5. ASSUME NEW k \in Command, Expire(k)
      PROVE  IntakeTypeOK'
  BY <1>5 DEF TypeOK, IntakeTypeOK, Expire
<1>6. QED  BY <1>1, <1>2, <1>3, <1>4, <1>5 DEF IntakeNext

LEMMA ConsumerTypes ==
    ASSUME TypeOK, ConsumerStep
    PROVE  ConsumerTypeOK' /\ UNCHANGED topic
<1> USE DEF ConsumerTypeOK, TypeOK, Position, Current
<1>0. Len(topic) \in Nat  OBVIOUS
<1>1. CASE SkipMalformed  BY <1>0, <1>1 DEF SkipMalformed, Complete
<1>2. CASE Fetch  BY <1>0, <1>2 DEF Fetch
<1>3. CASE DispatchReturns  BY <1>0, <1>3 DEF DispatchReturns
<1>4. CASE DispatchFails  BY <1>0, <1>4 DEF DispatchFails, Redeliver
<1>5. CASE PollReturns  BY <1>0, <1>5 DEF PollReturns, Complete
<1>6. CASE PollFails  BY <1>0, <1>6 DEF PollFails, Redeliver
<1>7. QED  BY <1>1, <1>2, <1>3, <1>4, <1>5, <1>6 DEF ConsumerStep

LEMMA NextTypes == TypeOK /\ [Next]_vars => TypeOK'
<1>1. SUFFICES ASSUME TypeOK, [Next]_vars PROVE TypeOK'  OBVIOUS
<1>2. CASE Intake
  <2>1. ConsumerTypeOK'  BY <1>1, <1>2, IntakePublishes, ConsumerKept DEF Intake
  <2>2. topic' \in Seq(Message) /\ Len(topic') <= MaxCommands
    BY <1>1, <1>2, IntakePublishes, PublishTypes DEF Intake, TypeOK
  <2>3. IntakeTypeOK'  BY <1>1, <1>2, IntakeTypes DEF Intake
  <2>4. QED  BY <1>1, <1>2, <2>1, <2>2, <2>3 DEF TypeOK, Intake
<1>3. CASE Consume
  <2>1. ConsumerTypeOK' /\ UNCHANGED topic
    BY <1>1, <1>3, ConsumerTypes DEF Consume
  <2>2. IntakeTypeOK'  BY <1>1, <1>3 DEF TypeOK, IntakeTypeOK, Consume, intakeVars
  <2>3. QED  BY <1>1, <1>3, <2>1, <2>2 DEF TypeOK, Consume
<1>4. CASE \E m \in Message : OtherProducer(m)
  <2>1. PICK m \in Message : OtherProducer(m)  BY <1>4
  <2>2. ConsumerTypeOK'  BY <1>1, <2>1, ConsumerKept DEF OtherProducer
  <2>3. topic' \in Seq(Message) /\ Len(topic') <= MaxCommands
    BY <1>1, <2>1, PublishTypes DEF OtherProducer
  <2>4. IntakeTypeOK'
    BY <1>1, <2>1 DEF TypeOK, IntakeTypeOK, OtherProducer, intakeVars
  <2>5. QED  BY <1>1, <2>1, <2>2, <2>3, <2>4 DEF TypeOK, OtherProducer
<1>5. CASE Restart
  <2>1. IntakeTypeOK'  BY <1>1, <1>5 DEF Restart, IntakeRestart, IntakeTypeOK
  <2>2. ConsumerTypeOK' /\ UNCHANGED topic
    BY <1>1, <1>5 DEF Restart, ConsumerRestart, ConsumerTypeOK, TypeOK
  <2>3. restarts' \in 0 .. MaxRestarts
    BY <1>1, <1>5, RestartAssumption DEF Restart, TypeOK
  <2>4. QED  BY <1>1, <2>1, <2>2, <2>3 DEF TypeOK
<1>6. CASE UNCHANGED vars
  BY <1>1, <1>6 DEF TypeOK, IntakeTypeOK, ConsumerTypeOK, vars
<1>7. QED  BY <1>1, <1>2, <1>3, <1>4, <1>5, <1>6 DEF Next

(***************************************************************************)
(* Type correctness of the trigger path.                                   *)
(***************************************************************************)
THEOREM TriggerTypes == Spec => []TypeOK
BY InitTypes, NextTypes, PTL DEF Spec

-----------------------------------------------------------------------------
(***************************************************************************)
(* The debouncer.  The inductive invariant speaks of every key it holds,   *)
(* not only of those that a delivery could bring again.                    *)
(***************************************************************************)
RecentIsCovered == \A c \in recent : since[c] <= Len(topic) /\ Covered(c)

\* What must hold of a step for it to keep an approved command covered.
LEMMA CoveredKept ==
    ASSUME TypeOK, NEW c \in Command, Covered(c),
           since[c] <= Len(topic), since'[c] = since[c],
           c \in failed => c \in failed',
           UNCHANGED topic \/ \E m \in Message : Publish(m),
           \A h \in Handlers : sending[h] = c =>
               \/ \E g \in Handlers : sending'[g] = c
               \/ c \in failed'
               \/ Publish(c)
    PROVE  since'[c] <= Len(topic') /\ Covered(c)'
<1>0. Len(topic) \in Nat /\ since[c] \in Nat  BY DEF TypeOK, IntakeTypeOK
<1>1. \/ UNCHANGED topic
      \/ /\ Len(topic') = Len(topic) + 1
         /\ \A i \in 1 .. Len(topic) : topic'[i] = topic[i]
  BY PublishTypes
<1>2. since'[c] <= Len(topic')  BY <1>0, <1>1
<1>3. CASE c \in failed  BY <1>2, <1>3 DEF Covered
<1>4. CASE \E i \in since[c] + 1 .. Len(topic) : topic[i] = c
  <2>1. PICK i \in since[c] + 1 .. Len(topic) : topic[i] = c  BY <1>4
  <2>2. i \in since'[c] + 1 .. Len(topic') /\ topic'[i] = c
    BY <1>0, <1>1, <2>1
  <2>3. QED  BY <1>2, <2>2 DEF Covered
<1>5. CASE \E h \in Handlers : sending[h] = c
  <2>1. CASE (\E g \in Handlers : sending'[g] = c) \/ c \in failed'
    BY <1>2, <2>1 DEF Covered
  <2>2. CASE Publish(c)
    <3>1. c \in Message  BY DEF Message
    <3>2. Len(topic') = Len(topic) + 1 /\ topic'[Len(topic')] = c
      BY <2>2, <3>1, PublishTypes
    <3>3. Len(topic') \in since'[c] + 1 .. Len(topic')
      BY <1>0, <3>2
    <3>4. QED  BY <1>2, <3>2, <3>3 DEF Covered
  <2>3. QED  BY <1>5, <2>1, <2>2
<1>6. QED  BY <1>3, <1>4, <1>5 DEF Covered

LEMMA IntakeCovers ==
    ASSUME TypeOK, RecentIsCovered, IntakeNext
    PROVE  RecentIsCovered'
<1>1. recent \subseteq Command /\ Len(topic) \in Nat
  BY DEF TypeOK, IntakeTypeOK
<1>2. UNCHANGED topic \/ \E m \in Message : Publish(m)  BY IntakePublishes
<1>3. ASSUME NEW h \in Handlers, NEW d \in Deliveries, Webhook(h, d)
      PROVE  RecentIsCovered'
  <2>1. CommandOf(d) \in Command  BY CommandOfType
  <2>2. sending' = [sending EXCEPT ![h] = CommandOf(d)] /\ sending[h] = None
    BY <1>3 DEF Webhook
  <2>3. since'[CommandOf(d)] = Len(topic) /\ sending'[h] = CommandOf(d)
    BY <1>3, <2>1 DEF Webhook, TypeOK, IntakeTypeOK
  <2>4. since'[CommandOf(d)] <= Len(topic') /\ Covered(CommandOf(d))'
    BY <1>1, <1>3, <2>3 DEF Webhook, Covered
  <2>5. ASSUME NEW c \in recent, c # CommandOf(d)
        PROVE  since'[c] <= Len(topic') /\ Covered(c)'
    <3>1. c \in Command /\ since[c] <= Len(topic) /\ Covered(c)
      BY <1>1 DEF RecentIsCovered
    <3>2. since'[c] = since[c] /\ (c \in failed => c \in failed')
      BY <1>3, <2>1, <2>5, <3>1 DEF Webhook, TypeOK, IntakeTypeOK
    <3>3. \A g \in Handlers : sending[g] = c => sending'[g] = c
      BY <2>2, <3>1, MalformedAssumption DEF TypeOK, IntakeTypeOK
    <3>4. QED  BY <1>2, <3>1, <3>2, <3>3, CoveredKept
  <2>6. QED  BY <1>3, <2>4, <2>5 DEF Webhook, DebounceKey, Allow, RecentIsCovered
<1>4. ASSUME NEW h \in Handlers, Trigger(h) \/ Send(h) \/ SendFails(h)
      PROVE  RecentIsCovered'
  <2>1. SUFFICES ASSUME NEW c \in recent
                 PROVE  since'[c] <= Len(topic') /\ Covered(c)'
    BY <1>4 DEF Trigger, Send, SendFails, RecentIsCovered
  <2>2. c \in Command /\ since[c] <= Len(topic) /\ Covered(c)
    BY <1>1 DEF RecentIsCovered
  <2>3. since'[c] = since[c] /\ (c \in failed => c \in failed')
    BY <1>4 DEF Trigger, Send, SendFails
  <2>4. ASSUME NEW g \in Handlers, sending[g] = c
        PROVE  sending'[g] = c \/ c \in failed' \/ Publish(c)
    BY <1>4, <2>2, <2>4, MalformedAssumption
       DEF Trigger, Send, SendFails, TypeOK, IntakeTypeOK
  <2>5. QED  BY <1>2, <2>2, <2>3, <2>4, CoveredKept
<1>5. ASSUME NEW k \in Command, Expire(k)
      PROVE  RecentIsCovered'
  <2>1. SUFFICES ASSUME NEW c \in recent, c # k
                 PROVE  since'[c] <= Len(topic') /\ Covered(c)'
    BY <1>5 DEF Expire, RecentIsCovered
  <2>2. c \in Command /\ since[c] <= Len(topic) /\ Covered(c)
    BY <1>1 DEF RecentIsCovered
  <2>3. /\ since'[c] = since[c]
        /\ c \in failed => c \in failed'
        /\ UNCHANGED sending
    BY <1>5, <2>1, <2>2 DEF Expire, TypeOK, IntakeTypeOK
  <2>4. QED  BY <1>2, <2>2, <2>3, CoveredKept
<1>6. QED  BY <1>3, <1>4, <1>5 DEF IntakeNext

LEMMA NextCovers == TypeOK /\ RecentIsCovered /\ [Next]_vars => RecentIsCovered'
<1>1. SUFFICES ASSUME TypeOK, RecentIsCovered, [Next]_vars
               PROVE  RecentIsCovered'
  OBVIOUS
<1>2. CASE Intake  BY <1>1, <1>2, IntakeCovers DEF Intake
<1>3. ASSUME UNCHANGED intakeVars,
             UNCHANGED topic \/ \E m \in Message : Publish(m)
      PROVE  RecentIsCovered'
  <2>1. SUFFICES ASSUME NEW c \in recent
                 PROVE  since'[c] <= Len(topic') /\ Covered(c)'
    BY <1>3 DEF intakeVars, RecentIsCovered
  <2>2. c \in Command /\ since[c] <= Len(topic) /\ Covered(c)
    BY <1>1 DEF RecentIsCovered, TypeOK, IntakeTypeOK
  <2>3. QED  BY <1>1, <1>3, <2>2, CoveredKept DEF intakeVars
<1>4. CASE Consume
  BY <1>1, <1>3, <1>4, ConsumerTypes DEF Consume
<1>5. CASE \E m \in Message : OtherProducer(m)
  BY <1>3, <1>5 DEF OtherProducer
<1>6. CASE Restart
  BY <1>6 DEF Restart, IntakeRestart, RecentIsCovered
<1>7. CASE UNCHANGED vars
  BY <1>3, <1>7 DEF vars, intakeVars
<1>8. QED  BY <1>1, <1>2, <1>4, <1>5, <1>6, <1>7 DEF Next

(***************************************************************************)
(* A delivery that the debouncer swallows is covered, for any number of    *)
(* request goroutines: its command is on the topic since it was approved,  *)
(* is being sent, or was answered with a 502.                              *)
(***************************************************************************)
THEOREM SwallowedCovered == Spec => []SwallowedIsCovered
<1>1. Init => RecentIsCovered  BY DEF Init, IntakeInit, RecentIsCovered
<1>2. RecentIsCovered => SwallowedIsCovered
  BY DEF RecentIsCovered, SwallowedIsCovered, Swallowed, DebounceKey
<1>3. QED  BY <1>1, <1>2, TriggerTypes, NextCovers, PTL DEF Spec

-----------------------------------------------------------------------------
(***************************************************************************)
(* The queue.  What the offset store counts as handled has been handled,   *)
(* so that a step that handles one more message leaves no gap behind it.   *)
(***************************************************************************)
NoGap == 1 .. offset \subseteq executed

LEMMA NextNoGap == TypeOK /\ NoGap /\ [Next]_vars => NoGap'
<1>1. SUFFICES ASSUME TypeOK, NoGap, [Next]_vars PROVE NoGap'  OBVIOUS
<1>2. offset \in Nat  BY <1>1 DEF TypeOK, ConsumerTypeOK
<1>3. CASE Consume
  <2>1. CASE SkipMalformed \/ PollReturns
    BY <1>1, <1>2, <2>1 DEF SkipMalformed, PollReturns, Complete, Position, NoGap
  <2>2. CASE Fetch \/ DispatchReturns \/ DispatchFails \/ PollFails
    BY <1>1, <2>2
       DEF Fetch, DispatchReturns, DispatchFails, PollFails, Redeliver, NoGap
  <2>3. QED  BY <1>3, <2>1, <2>2 DEF Consume, ConsumerStep
<1>4. CASE Restart
  BY <1>4 DEF Restart, ConsumerRestart, NoGap
<1>5. CASE UNCHANGED consumerVars  BY <1>1, <1>5 DEF consumerVars, NoGap
<1>6. QED
  BY <1>1, <1>3, <1>4, <1>5 DEF Next, Intake, OtherProducer, vars, consumerVars

LEMMA QueueStep ==
    TypeOK /\ NoGap /\ [Next]_vars => [Queue!Next]_(Queue!vars)
<1>1. SUFFICES ASSUME TypeOK, NoGap, [Next]_vars
               PROVE  [Queue!Next]_(Queue!vars)
  OBVIOUS
<1>2. Len(topic) \in Nat /\ offset \in 0 .. Len(topic)
  BY <1>1 DEF TypeOK, ConsumerTypeOK
<1>3. ASSUME UNCHANGED executed, UNCHANGED topic \/ \E m \in Message : Publish(m)
      PROVE  [Queue!Next]_(Queue!vars)
  <2>1. CASE UNCHANGED topic  BY <1>3, <2>1 DEF Queue!vars
  <2>2. CASE \E m \in Message : Publish(m)
    <3>1. Len(topic') = Len(topic) + 1  BY <1>1, <2>2, PublishTypes
    <3>2. QED  BY <1>3, <3>1 DEF Queue!Next, Queue!Accept
  <2>3. QED  BY <1>3, <2>1, <2>2
<1>4. CASE Intake
  BY <1>1, <1>3, <1>4, IntakePublishes DEF Intake, consumerVars
<1>5. CASE Consume
  <2>1. UNCHANGED topic  BY <1>1, <1>5, ConsumerTypes DEF Consume
  <2>2. CASE SkipMalformed \/ PollReturns
    <3>1. Position \in 1 .. Len(topic)
      BY <1>1, <1>2, <2>2
         DEF SkipMalformed, PollReturns, Position, TypeOK, ConsumerTypeOK
    <3>2. executed' = executed \cup {Position}
      BY <2>2 DEF SkipMalformed, PollReturns, Complete
    <3>3. 1 .. Position - 1 \subseteq executed
      BY <1>1, <1>2 DEF Position, NoGap
    <3>4. QED  BY <2>1, <3>1, <3>2, <3>3 DEF Queue!Next, Queue!Finish
  <2>3. CASE Fetch \/ DispatchReturns \/ DispatchFails \/ PollFails
    BY <1>3, <2>1, <2>3
       DEF Fetch, DispatchReturns, DispatchFails, PollFails, Redeliver
  <2>4. QED  BY <1>5, <2>2, <2>3 DEF Consume, ConsumerStep
<1>6. CASE \E m \in Message : OtherProducer(m)
  BY <1>3, <1>6 DEF OtherProducer, consumerVars
<1>7. CASE Restart
  BY <1>3, <1>7 DEF Restart, ConsumerRestart
<1>8. CASE UNCHANGED vars  BY <1>3, <1>8 DEF vars
<1>9. QED  BY <1>1, <1>4, <1>5, <1>6, <1>7, <1>8 DEF Next

(***************************************************************************)
(* The trigger path implements the abstract queue: for any number of       *)
(* commands and restarts, they are carried out in the order of the topic   *)
(* and none is passed over.                                                *)
(***************************************************************************)
THEOREM TriggerQueue == Spec => ImplementsQueue
<1>1. Init => Queue!Init
  BY DEF Init, ConsumerInit, Queue!Init
<1>2. Init => NoGap
  BY DEF Init, ConsumerInit, NoGap
<1>3. QED
  BY <1>1, <1>2, TriggerTypes, NextNoGap, QueueStep, PTL
     DEF Spec, ImplementsQueue, Queue!Spec
=============================================================================
