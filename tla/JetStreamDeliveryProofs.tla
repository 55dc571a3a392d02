------------------------- MODULE JetStreamDeliveryProofs -------------------------
(***************************************************************************)
(* Safety of one JetStream subscription for every number of events, every  *)
(* delivery limit and every failure: DeliveryInv is inductive.             *)
(***************************************************************************)
EXTENDS JetStreamDelivery, TLAPS, SequenceTheorems, FiniteSetTheorems

Phases == {"remembering", "gated", "burying", "naking", "acking"}

\* What a subscription is made of.
LEMMA SubscriptionTypes ==
  ASSUME sub \in Subscriptions
  PROVE  Invalid \subseteq Events /\ Poison \subseteq Events /\ Durable \in BOOLEAN
<1>1. /\ sub.invalid \in SUBSET Events
      /\ sub.poison \in SUBSET Events
      /\ sub.durable \in BOOLEAN
  BY DeliveryAssumption
<1> QED
  BY <1>1 DEF Invalid, Poison, Durable

\* A callback that is not idle holds a message.
LEMMA BusyCallback ==
  ASSUME ClientTypes, callback.phase # "idle"
  PROVE  callback \in Callbacks /\ callback.event \in Events /\ callback.phase \in Phases
  BY DEF ClientTypes, Nothing, Callbacks, Phases

\* Moving on keeps the message.
LEMMA GotoFacts ==
  ASSUME callback \in Callbacks, NEW p \in Phases, Goto(p)
  PROVE  /\ callback' \in Callbacks
         /\ callback'.phase = p
         /\ callback'.event = callback.event
  BY DEF Goto, Callbacks, Phases

\* A failed delivery is asked for again or dead-lettered.
LEMMA FailurePhase == AfterFailure \in {"burying", "naking"} /\ AfterFailure \in Phases
  BY DEF AfterFailure, Phases

\* The consumer's types are preserved.
LEMMA ServerTypesStep == DeliveryInv /\ [Next]_vars => ServerTypes'
<1> SUFFICES ASSUME DeliveryInv, [Next]_vars PROVE ServerTypes'
  OBVIOUS
<1> USE DeliveryAssumption DEF Events
<1>0. ServerTypes /\ ConsumerControl /\ ClientTypes
  BY DEF DeliveryInv, TypeOK
<1>a. sub \in Subscriptions /\ sub' = sub
  BY DEF DeliveryInv, TypeOK, ServerTypes, Next, vars
<1>b. Invalid' = Invalid /\ Poison' = Poison
  BY <1>a DEF Invalid, Poison
<1>c. Invalid \subseteq Events /\ Poison \subseteq Events /\ Durable \in BOOLEAN
  BY <1>a, SubscriptionTypes
<1> USE <1>a, <1>b, <1>c
<1>1. CASE Publish
  BY <1>0, <1>1 DEF ServerTypes, ConsumerControl, Publish, stream, client, restoration, history
<1>2. CASE Subscribe
  BY <1>0, <1>2 DEF ServerTypes, ConsumerControl, Subscribe, StartsAs, stream, client, restoration, history
<1>3. CASE RestoreFails
  BY <1>0, <1>3 DEF ServerTypes, ConsumerControl, RestoreFails, Fault, stream, client, restoration, history
<1>4. CASE HandlerFails
  BY <1>0, <1>4 DEF ServerTypes, ConsumerControl, HandlerFails, Fault, stream, client, restoration, history
<1>5. CASE AnswerLost
  BY <1>0, <1>5 DEF ServerTypes, ConsumerControl, AnswerLost, Fault, stream, client, restoration, history
<1>6. CASE Crash
  <2>1. last' \in 0..Count /\ faults' \in 0..MaxFaults
    BY <1>0, <1>6 DEF ServerTypes, Crash, Fault, stream
  <2>2. consumer' \in BOOLEAN /\ up' \in BOOLEAN
    BY <1>c, <1>6, Zenon DEF Crash
  <2>3. server' \in [Events -> {"none", "pending", "outstanding", "waiting", "acked", "given_up"}]
    BY <1>0, <1>6 DEF ServerTypes, Crash
  <2>4. delivered' \in [Events -> 0..MaxDeliver]
    BY <1>0, <1>6 DEF ServerTypes, Crash
  <2> QED
    BY <2>1, <2>2, <2>3, <2>4 DEF ServerTypes
<1>7. CASE RestoreRead
  BY <1>0, <1>7 DEF ServerTypes, ConsumerControl, RestoreRead, stream, client, restoration, history
<1>8. CASE RestoreSave
  BY <1>0, <1>8 DEF ServerTypes, ConsumerControl, RestoreSave, NewestOf, stream, client, restoration, history
<1>9. CASE RestoreChoose
  BY <1>0, <1>9 DEF ServerTypes, ConsumerControl, RestoreChoose, FromSnapshot, stream, client, restoration, history
<1>10. CASE RestoreHandle
  BY <1>0, <1>10 DEF ServerTypes, ConsumerControl, RestoreHandle, stream, client, restoration, history
<1>11. CASE Take
  BY <1>0, <1>11 DEF ServerTypes, ConsumerControl, Take, Working, stream, client, restoration, history
<1>12. CASE RememberDelivered
  BY <1>0, <1>12 DEF ServerTypes, ConsumerControl, RememberDelivered, Working, NewestOf, stream, client, restoration, history
<1>13. CASE Handle
  BY <1>0, <1>13 DEF ServerTypes, ConsumerControl, Handle, Working, stream, client, restoration, history
<1>14. CASE HandlerRefuses
  BY <1>0, <1>14 DEF ServerTypes, ConsumerControl, HandlerRefuses, Working, stream, client, restoration, history
<1>15. CASE Bury
  BY <1>0, <1>15 DEF ServerTypes, ConsumerControl, Bury, Working, stream, client, restoration, history
<1>16. CASE Ack
  BY <1>0, <1>16 DEF ServerTypes, ConsumerControl, Ack, Working, Settle, AckPending, stream, client, restoration, history
<1>17. CASE Nak
  BY <1>0, <1>17 DEF ServerTypes, ConsumerControl, Nak, Working, Settle, AckPending, Unacked, stream, client, restoration, history
<1>18. ASSUME NEW e \in Events, DeliverNew(e) PROVE ServerTypes'
  BY <1>0, <1>18 DEF ServerTypes, ConsumerControl, DeliverNew, Push, stream, client, restoration, history
<1>19. ASSUME NEW e \in Events, Redeliver(e) PROVE ServerTypes'
  <2>1. delivered[e] < MaxDeliver
    BY <1>0, <1>19 DEF ServerTypes, ConsumerControl, Redeliver
  <2>2. delivered[e] + 1 \in 0..MaxDeliver
    BY <1>0, <2>1 DEF ServerTypes
  <2>3. delivered' = [delivered EXCEPT ![e] = delivered[e] + 1]
    BY <1>19 DEF Redeliver, Push
  <2>4. delivered' \in [Events -> 0..MaxDeliver]
    BY <1>0, <2>2, <2>3 DEF ServerTypes
  <2>5. QED
    BY <1>0, <1>19, <2>4 DEF ServerTypes, Redeliver, Push, stream
<1>20. ASSUME NEW e \in Events, AckWaitExpires(e) PROVE ServerTypes'
  BY <1>0, <1>20 DEF ServerTypes, ConsumerControl, AckWaitExpires, Expire, Unacked, stream, client, restoration, history
<1>21. ASSUME NEW e \in Events, Remember(e) PROVE ServerTypes'
  BY <1>0, <1>21 DEF ServerTypes, ConsumerControl, Remember, NewestOf, stream, client, restoration, history
<1>22. ASSUME NEW e \in Events, RememberLost(e) PROVE ServerTypes'
  BY <1>0, <1>22 DEF ServerTypes, ConsumerControl, RememberLost, Fault, stream, client, restoration, history
<1>23. ASSUME NEW e \in Events, AckWaitMissed(e) PROVE ServerTypes'
  BY <1>0, <1>23 DEF ServerTypes, ConsumerControl, AckWaitMissed, Expire, Unacked, Fault, stream, client, restoration, history
<1>24. CASE UNCHANGED vars
  BY <1>0, <1>24 DEF ServerTypes, ConsumerControl, vars, stream, client, restoration, history
<1> QED
  BY <1>1, <1>2, <1>3, <1>4, <1>5, <1>6, <1>7, <1>8, <1>9, <1>10, <1>11, <1>12, <1>13, <1>14, <1>15, <1>16, <1>17, <1>18, <1>19, <1>20, <1>21, <1>22, <1>23, <1>24 DEF Next, Step, Server, Restoring, Callback

\* The consumer's bookkeeping is preserved.
LEMMA ConsumerStep == DeliveryInv /\ [Next]_vars => ConsumerControl'
<1> SUFFICES ASSUME DeliveryInv, [Next]_vars PROVE ConsumerControl'
  OBVIOUS
<1> USE DeliveryAssumption DEF Events
<1>0. ServerTypes /\ ConsumerControl
  BY DEF DeliveryInv, TypeOK
<1>a. sub \in Subscriptions /\ sub' = sub
  BY DEF DeliveryInv, TypeOK, ServerTypes, Next, vars
<1>b. Invalid' = Invalid /\ Poison' = Poison
  BY <1>a DEF Invalid, Poison
<1>c. Invalid \subseteq Events /\ Poison \subseteq Events /\ Durable \in BOOLEAN
  BY <1>a, SubscriptionTypes
<1> USE <1>a, <1>b, <1>c
<1>1. CASE Publish
  BY <1>0, <1>1 DEF ServerTypes, ConsumerControl, Publish, stream, client, restoration, history
<1>2. CASE Subscribe
  BY <1>0, <1>2 DEF ServerTypes, ConsumerControl, Subscribe, StartsAs, stream, client, restoration, history
<1>3. CASE RestoreFails
  BY <1>0, <1>3 DEF ServerTypes, ConsumerControl, RestoreFails, Fault, stream, client, restoration, history
<1>4. CASE HandlerFails
  BY <1>0, <1>4 DEF ServerTypes, ConsumerControl, HandlerFails, Fault, stream, client, restoration, history
<1>5. CASE AnswerLost
  BY <1>0, <1>5 DEF ServerTypes, ConsumerControl, AnswerLost, Fault, stream, client, restoration, history
<1>6. CASE Crash
  BY <1>0, <1>6 DEF ServerTypes, ConsumerControl, Crash, Fault, stream, client, restoration, history
<1>7. CASE RestoreRead
  BY <1>0, <1>7 DEF ServerTypes, ConsumerControl, RestoreRead, stream, client, restoration, history
<1>8. CASE RestoreSave
  BY <1>0, <1>8 DEF ServerTypes, ConsumerControl, RestoreSave, NewestOf, stream, client, restoration, history
<1>9. CASE RestoreChoose
  BY <1>0, <1>9 DEF ServerTypes, ConsumerControl, RestoreChoose, FromSnapshot, stream, client, restoration, history
<1>10. CASE RestoreHandle
  BY <1>0, <1>10 DEF ServerTypes, ConsumerControl, RestoreHandle, stream, client, restoration, history
<1>11. CASE Take
  BY <1>0, <1>11 DEF ServerTypes, ConsumerControl, Take, Working, stream, client, restoration, history
<1>12. CASE RememberDelivered
  BY <1>0, <1>12 DEF ServerTypes, ConsumerControl, RememberDelivered, Working, NewestOf, stream, client, restoration, history
<1>13. CASE Handle
  BY <1>0, <1>13 DEF ServerTypes, ConsumerControl, Handle, Working, stream, client, restoration, history
<1>14. CASE HandlerRefuses
  BY <1>0, <1>14 DEF ServerTypes, ConsumerControl, HandlerRefuses, Working, stream, client, restoration, history
<1>15. CASE Bury
  BY <1>0, <1>15 DEF ServerTypes, ConsumerControl, Bury, Working, stream, client, restoration, history
<1>16. CASE Ack
  BY <1>0, <1>16 DEF ServerTypes, ConsumerControl, Ack, Working, Settle, AckPending, stream, client, restoration, history
<1>17. CASE Nak
  BY <1>0, <1>17 DEF ServerTypes, ConsumerControl, Nak, Working, Settle, AckPending, Unacked, stream, client, restoration, history
<1>18. ASSUME NEW e \in Events, DeliverNew(e) PROVE ConsumerControl'
  BY <1>0, <1>18 DEF ServerTypes, ConsumerControl, DeliverNew, Push, stream, client, restoration, history
<1>19. ASSUME NEW e \in Events, Redeliver(e) PROVE ConsumerControl'
  BY <1>0, <1>19 DEF ServerTypes, ConsumerControl, Redeliver, Push, stream, client, restoration, history
<1>20. ASSUME NEW e \in Events, AckWaitExpires(e) PROVE ConsumerControl'
  BY <1>0, <1>20 DEF ServerTypes, ConsumerControl, AckWaitExpires, Expire, Unacked, stream, client, restoration, history
<1>21. ASSUME NEW e \in Events, Remember(e) PROVE ConsumerControl'
  BY <1>0, <1>21 DEF ServerTypes, ConsumerControl, Remember, NewestOf, stream, client, restoration, history
<1>22. ASSUME NEW e \in Events, RememberLost(e) PROVE ConsumerControl'
  BY <1>0, <1>22 DEF ServerTypes, ConsumerControl, RememberLost, Fault, stream, client, restoration, history
<1>23. ASSUME NEW e \in Events, AckWaitMissed(e) PROVE ConsumerControl'
  BY <1>0, <1>23 DEF ServerTypes, ConsumerControl, AckWaitMissed, Expire, Unacked, Fault, stream, client, restoration, history
<1>24. CASE UNCHANGED vars
  BY <1>0, <1>24 DEF ServerTypes, ConsumerControl, vars, stream, client, restoration, history
<1> QED
  BY <1>1, <1>2, <1>3, <1>4, <1>5, <1>6, <1>7, <1>8, <1>9, <1>10, <1>11, <1>12, <1>13, <1>14, <1>15, <1>16, <1>17, <1>18, <1>19, <1>20, <1>21, <1>22, <1>23, <1>24 DEF Next, Step, Server, Restoring, Callback

\* The client's types are preserved.
LEMMA ClientTypesStep == DeliveryInv /\ [Next]_vars => ClientTypes'
<1> SUFFICES ASSUME DeliveryInv, [Next]_vars PROVE ClientTypes'
  OBVIOUS
<1> USE DeliveryAssumption DEF Events
<1>0. ServerTypes /\ ConsumerControl /\ ClientTypes
  BY DEF DeliveryInv, TypeOK
<1>a. sub \in Subscriptions /\ sub' = sub
  BY DEF DeliveryInv, TypeOK, ServerTypes, Next, vars
<1>b. Invalid' = Invalid /\ Poison' = Poison
  BY <1>a DEF Invalid, Poison
<1>c. Invalid \subseteq Events /\ Poison \subseteq Events /\ Durable \in BOOLEAN
  BY <1>a, SubscriptionTypes
<1> USE <1>a, <1>b, <1>c
<1>1. CASE Publish
  BY <1>0, <1>1 DEF ClientTypes, Publish, stream, client, restoration, history
<1>2. CASE Subscribe
  BY <1>0, <1>2 DEF ClientTypes, Subscribe, StartsAs, stream, client, restoration, history
<1>3. CASE RestoreFails
  BY <1>0, <1>3 DEF ClientTypes, RestoreFails, Fault, stream, client, restoration, history
<1>4. CASE HandlerFails
  <2>1. callback \in Callbacks
    BY <1>0, <1>4, BusyCallback DEF HandlerFails, Working
  <2>2. callback' \in Callbacks /\ callback'.phase = AfterFailure /\ callback'.event = callback.event
    BY <1>4, <2>1, GotoFacts, FailurePhase DEF HandlerFails, Phases
  <2> QED
    BY <1>0, <1>4, <2>1, <2>2, FailurePhase DEF ClientTypes, HandlerFails, Fault, stream, client, restoration, history
<1>5. CASE AnswerLost
  BY <1>0, <1>5 DEF ClientTypes, AnswerLost, Fault, stream, client, restoration, history
<1>6. CASE Crash
  BY <1>0, <1>6 DEF ClientTypes, Crash, Fault, stream, client, restoration, history
<1>7. CASE RestoreRead
  BY <1>0, <1>7 DEF ClientTypes, RestoreRead, stream, client, restoration, history
<1>8. CASE RestoreSave
  BY <1>0, <1>8 DEF ClientTypes, RestoreSave, NewestOf, stream, client, restoration, history
<1>9. CASE RestoreChoose
  BY <1>0, <1>9 DEF ClientTypes, RestoreChoose, FromSnapshot, stream, client, restoration, history
<1>10. CASE RestoreHandle
  BY <1>0, <1>10 DEF ClientTypes, RestoreHandle, stream, client, restoration, history
<1>11. CASE Take
  <2>1. Head(inbox) \in Deliveries /\ Tail(inbox) \in Seq(Deliveries)
    BY <1>0, <1>11 DEF ClientTypes, Take
  <2>2. callback' \in Callbacks
    BY <1>11, <2>1 DEF Take, Deliveries, Callbacks
  <2> QED
    BY <1>11, <2>1, <2>2 DEF ClientTypes, Take
<1>12. CASE RememberDelivered
  <2>1. callback \in Callbacks
    BY <1>0, <1>12, BusyCallback DEF RememberDelivered, Working
  <2>2. callback' \in Callbacks /\ callback'.phase = "gated" /\ callback'.event = callback.event
    BY <1>12, <2>1, GotoFacts, FailurePhase DEF RememberDelivered, Phases
  <2> QED
    BY <1>0, <1>12, <2>1, <2>2, FailurePhase DEF ClientTypes, RememberDelivered, Working, NewestOf, stream, client, restoration, history
<1>13. CASE Handle
  <2>1. callback \in Callbacks
    BY <1>0, <1>13, BusyCallback DEF Handle, Working
  <2>2. callback' \in Callbacks /\ callback'.phase = "acking" /\ callback'.event = callback.event
    BY <1>13, <2>1, GotoFacts, FailurePhase DEF Handle, Phases
  <2> QED
    BY <1>0, <1>13, <2>1, <2>2, FailurePhase DEF ClientTypes, Handle, Working, stream, client, restoration, history
<1>14. CASE HandlerRefuses
  <2>1. callback \in Callbacks
    BY <1>0, <1>14, BusyCallback DEF HandlerRefuses, Working
  <2>2. callback' \in Callbacks /\ callback'.phase = AfterFailure /\ callback'.event = callback.event
    BY <1>14, <2>1, GotoFacts, FailurePhase DEF HandlerRefuses, Phases
  <2> QED
    BY <1>0, <1>14, <2>1, <2>2, FailurePhase DEF ClientTypes, HandlerRefuses, Working, stream, client, restoration, history
<1>15. CASE Bury
  <2>1. callback \in Callbacks
    BY <1>0, <1>15, BusyCallback DEF Bury, Working
  <2>2. callback' \in Callbacks /\ callback'.phase = "acking" /\ callback'.event = callback.event
    BY <1>15, <2>1, GotoFacts, FailurePhase DEF Bury, Phases
  <2> QED
    BY <1>0, <1>15, <2>1, <2>2, FailurePhase DEF ClientTypes, Bury, Working, stream, client, restoration, history
<1>16. CASE Ack
  BY <1>0, <1>16 DEF ClientTypes, Ack, Working, Settle, AckPending, stream, client, restoration, history
<1>17. CASE Nak
  BY <1>0, <1>17 DEF ClientTypes, Nak, Working, Settle, AckPending, Unacked, stream, client, restoration, history
<1>18. ASSUME NEW e \in Events, DeliverNew(e) PROVE ClientTypes'
  BY <1>0, <1>18 DEF ClientTypes, ServerTypes, ConsumerControl, Deliveries, DeliverNew, Push, stream, client, restoration, history
<1>19. ASSUME NEW e \in Events, Redeliver(e) PROVE ClientTypes'
  BY <1>0, <1>19 DEF ClientTypes, ServerTypes, ConsumerControl, Deliveries, Redeliver, Push, stream, client, restoration, history
<1>20. ASSUME NEW e \in Events, AckWaitExpires(e) PROVE ClientTypes'
  BY <1>0, <1>20 DEF ClientTypes, AckWaitExpires, Expire, Unacked, stream, client, restoration, history
<1>21. ASSUME NEW e \in Events, Remember(e) PROVE ClientTypes'
  BY <1>0, <1>21 DEF ClientTypes, Remember, NewestOf, stream, client, restoration, history
<1>22. ASSUME NEW e \in Events, RememberLost(e) PROVE ClientTypes'
  BY <1>0, <1>22 DEF ClientTypes, RememberLost, Fault, stream, client, restoration, history
<1>23. ASSUME NEW e \in Events, AckWaitMissed(e) PROVE ClientTypes'
  BY <1>0, <1>23 DEF ClientTypes, AckWaitMissed, Expire, Unacked, Fault, stream, client, restoration, history
<1>24. CASE UNCHANGED vars
  BY <1>0, <1>24 DEF ClientTypes, vars, stream, client, restoration, history
<1> QED
  BY <1>1, <1>2, <1>3, <1>4, <1>5, <1>6, <1>7, <1>8, <1>9, <1>10, <1>11, <1>12, <1>13, <1>14, <1>15, <1>16, <1>17, <1>18, <1>19, <1>20, <1>21, <1>22, <1>23, <1>24 DEF Next, Step, Server, Restoring, Callback

\* The callback's and the restore task's bookkeeping is preserved.
LEMMA ClientStep == DeliveryInv /\ [Next]_vars => ClientControl'
<1> SUFFICES ASSUME DeliveryInv, [Next]_vars PROVE ClientControl'
  OBVIOUS
<1> USE DeliveryAssumption DEF Events
<1>0. StateTypes /\ ServerTypes /\ ClientTypes /\ ClientControl
  BY DEF DeliveryInv, TypeOK
<1>a. sub \in Subscriptions /\ sub' = sub
  BY DEF DeliveryInv, TypeOK, ServerTypes, Next, vars
<1>b. Invalid' = Invalid /\ Poison' = Poison
  BY <1>a DEF Invalid, Poison
<1>c. Invalid \subseteq Events /\ Poison \subseteq Events /\ Durable \in BOOLEAN
  BY <1>a, SubscriptionTypes
<1> USE <1>a, <1>b, <1>c
<1>1. CASE Publish
  BY <1>0, <1>1 DEF ClientControl, StateTypes, Publish, stream, client, restoration, history
<1>2. CASE Subscribe
  BY <1>0, <1>2 DEF ClientControl, StateTypes, Subscribe, StartsAs, stream, client, restoration, history
<1>3. CASE RestoreFails
  BY <1>0, <1>3 DEF ClientControl, StateTypes, RestoreFails, Fault, stream, client, restoration, history
<1>4. CASE HandlerFails
  <2>1. callback \in Callbacks
    BY <1>0, <1>4, BusyCallback DEF HandlerFails, Working
  <2>2. callback' \in Callbacks /\ callback'.phase = AfterFailure /\ callback'.event = callback.event
    BY <1>4, <2>1, GotoFacts, FailurePhase DEF HandlerFails, Phases
  <2> QED
    BY <1>0, <1>4, <2>1, <2>2, FailurePhase DEF ClientControl, StateTypes, HandlerFails, Fault, stream, client, restoration, history
<1>5. CASE AnswerLost
  BY <1>0, <1>5 DEF ClientControl, StateTypes, Nothing, AnswerLost, Fault, stream, client, restoration, history
<1>6. CASE Crash
  BY <1>0, <1>6 DEF ClientControl, StateTypes, Nothing, Crash, Fault, stream, client, restoration, history
<1>7. CASE RestoreRead
  BY <1>0, <1>7 DEF ClientControl, StateTypes, ServerTypes, RestoreRead, stream, client, restoration, history
<1>8. CASE RestoreSave
  BY <1>0, <1>8 DEF ClientControl, StateTypes, RestoreSave, NewestOf, stream, client, restoration, history
<1>9. CASE RestoreChoose
  BY <1>0, <1>9 DEF ClientControl, StateTypes, RestoreChoose, FromSnapshot, stream, client, restoration, history
<1>10. CASE RestoreHandle
  BY <1>0, <1>10 DEF ClientControl, StateTypes, RestoreHandle, stream, client, restoration, history
<1>11. CASE Take
  BY <1>0, <1>11 DEF ClientControl, StateTypes, Take, Working, stream, client, restoration, history
<1>12. CASE RememberDelivered
  <2>1. callback \in Callbacks
    BY <1>0, <1>12, BusyCallback DEF RememberDelivered, Working
  <2>2. callback' \in Callbacks /\ callback'.phase = "gated" /\ callback'.event = callback.event
    BY <1>12, <2>1, GotoFacts, FailurePhase DEF RememberDelivered, Phases
  <2> QED
    BY <1>0, <1>12, <2>1, <2>2, FailurePhase DEF ClientControl, StateTypes, Callbacks, RememberDelivered, Working, NewestOf, stream, client, restoration, history
<1>13. CASE Handle
  <2>1. callback \in Callbacks
    BY <1>0, <1>13, BusyCallback DEF Handle, Working
  <2>2. callback' \in Callbacks /\ callback'.phase = "acking" /\ callback'.event = callback.event
    BY <1>13, <2>1, GotoFacts, FailurePhase DEF Handle, Phases
  <2> QED
    BY <1>0, <1>13, <2>1, <2>2, FailurePhase DEF ClientControl, StateTypes, Handle, Working, stream, client, restoration, history
<1>14. CASE HandlerRefuses
  <2>1. callback \in Callbacks
    BY <1>0, <1>14, BusyCallback DEF HandlerRefuses, Working
  <2>2. callback' \in Callbacks /\ callback'.phase = AfterFailure /\ callback'.event = callback.event
    BY <1>14, <2>1, GotoFacts, FailurePhase DEF HandlerRefuses, Phases
  <2> QED
    BY <1>0, <1>14, <2>1, <2>2, FailurePhase DEF ClientControl, StateTypes, HandlerRefuses, Working, stream, client, restoration, history
<1>15. CASE Bury
  <2>1. callback \in Callbacks
    BY <1>0, <1>15, BusyCallback DEF Bury, Working
  <2>2. callback' \in Callbacks /\ callback'.phase = "acking" /\ callback'.event = callback.event
    BY <1>15, <2>1, GotoFacts, FailurePhase DEF Bury, Phases
  <2> QED
    BY <1>0, <1>15, <2>1, <2>2, FailurePhase DEF ClientControl, StateTypes, Bury, Working, stream, client, restoration, history
<1>16. CASE Ack
  BY <1>0, <1>16 DEF ClientControl, StateTypes, Nothing, Ack, Working, Settle, AckPending, stream, client, restoration, history
<1>17. CASE Nak
  BY <1>0, <1>17 DEF ClientControl, StateTypes, Nothing, Nak, Working, Settle, AckPending, Unacked, stream, client, restoration, history
<1>18. ASSUME NEW e \in Events, DeliverNew(e) PROVE ClientControl'
  BY <1>0, <1>18 DEF ClientControl, StateTypes, DeliverNew, Push, stream, client, restoration, history
<1>19. ASSUME NEW e \in Events, Redeliver(e) PROVE ClientControl'
  BY <1>0, <1>19 DEF ClientControl, StateTypes, Redeliver, Push, stream, client, restoration, history
<1>20. ASSUME NEW e \in Events, AckWaitExpires(e) PROVE ClientControl'
  BY <1>0, <1>20 DEF ClientControl, StateTypes, AckWaitExpires, Expire, Unacked, stream, client, restoration, history
<1>21. ASSUME NEW e \in Events, Remember(e) PROVE ClientControl'
  BY <1>0, <1>21 DEF ClientControl, StateTypes, Remember, NewestOf, stream, client, restoration, history
<1>22. ASSUME NEW e \in Events, RememberLost(e) PROVE ClientControl'
  BY <1>0, <1>22 DEF ClientControl, StateTypes, RememberLost, Fault, stream, client, restoration, history
<1>23. ASSUME NEW e \in Events, AckWaitMissed(e) PROVE ClientControl'
  BY <1>0, <1>23 DEF ClientControl, StateTypes, AckWaitMissed, Expire, Unacked, Fault, stream, client, restoration, history
<1>24. CASE UNCHANGED vars
  BY <1>0, <1>24 DEF ClientControl, StateTypes, vars, stream, client, restoration, history
<1> QED
  BY <1>1, <1>2, <1>3, <1>4, <1>5, <1>6, <1>7, <1>8, <1>9, <1>10, <1>11, <1>12, <1>13, <1>14, <1>15, <1>16, <1>17, <1>18, <1>19, <1>20, <1>21, <1>22, <1>23, <1>24 DEF Next, Step, Server, Restoring, Callback

\* The types of events taken in are preserved.
LEMMA StateTypesStep == DeliveryInv /\ [Next]_vars => StateTypes'
<1> SUFFICES ASSUME DeliveryInv, [Next]_vars PROVE StateTypes'
  OBVIOUS
<1> USE DeliveryAssumption DEF Events
<1>0. StateTypes /\ ServerTypes /\ ClientTypes /\ ClientControl
  BY DEF DeliveryInv, TypeOK
<1>a. sub \in Subscriptions /\ sub' = sub
  BY DEF DeliveryInv, TypeOK, ServerTypes, Next, vars
<1>b. Invalid' = Invalid /\ Poison' = Poison
  BY <1>a DEF Invalid, Poison
<1>c. Invalid \subseteq Events /\ Poison \subseteq Events /\ Durable \in BOOLEAN
  BY <1>a, SubscriptionTypes
<1> USE <1>a, <1>b, <1>c
<1>1. CASE Publish
  <2>1. last + 1 \in Events
    BY <1>0, <1>1 DEF ServerTypes, Publish
  <2>2. unsaved' \subseteq Events \ Invalid
    BY <1>0, <1>1, <2>1 DEF StateTypes, Publish
  <2> QED
    BY <1>0, <1>1, <2>2 DEF StateTypes, Publish, stream, client, restoration, history
<1>2. CASE Subscribe
  BY <1>0, <1>2 DEF StateTypes, Subscribe, StartsAs, stream, client, restoration, history
<1>3. CASE RestoreFails
  BY <1>0, <1>3 DEF StateTypes, RestoreFails, Fault, stream, client, restoration, history
<1>4. CASE HandlerFails
  BY <1>0, <1>4 DEF StateTypes, HandlerFails, Fault, stream, client, restoration, history
<1>5. CASE AnswerLost
  <2>1. callback \in Callbacks /\ callback.event \in Events
    BY <1>0, <1>5, BusyCallback DEF AnswerLost, Working
  <2> QED
    BY <1>0, <1>5, <2>1 DEF StateTypes, ClientControl, AnswerLost, Fault, stream, client, restoration, history
<1>6. CASE Crash
  <2>1. AckPending \subseteq Events
    BY DEF AckPending
  <2>2. excused' \subseteq Events /\ seen' = {} /\ restored' = 0 /\ restore' = "none"
    BY <1>0, <1>6, <2>1 DEF StateTypes, Crash
  <2>3. UNCHANGED <<stream, snapshot, handled, repeated, dlq>>
    BY <1>6 DEF Crash
  <2> QED
    BY <1>0, <2>2, <2>3 DEF StateTypes, stream
<1>7. CASE RestoreRead
  <2>1. restored' \in {0} \cup Events
    BY <1>0, <1>7 DEF ServerTypes, RestoreRead
  <2>2. restore' \in {"done", "failed", "saving"}
    BY <1>7 DEF RestoreRead
  <2>3. UNCHANGED <<stream, snapshot, seen, history, dlq>>
    BY <1>7 DEF RestoreRead
  <2> QED
    BY <1>0, <2>1, <2>2, <2>3 DEF StateTypes, stream, history
<1>8. CASE RestoreSave
  BY <1>0, <1>8 DEF StateTypes, ClientControl, ServerTypes, RestoreSave, NewestOf, stream, client, restoration, history
<1>9. CASE RestoreChoose
  BY <1>0, <1>9 DEF StateTypes, ClientControl, ServerTypes, RestoreChoose, FromSnapshot, stream, client, restoration, history
<1>10. CASE RestoreHandle
  BY <1>0, <1>10 DEF StateTypes, ClientControl, ServerTypes, RestoreHandle, stream, client, restoration, history
<1>11. CASE Take
  BY <1>0, <1>11 DEF StateTypes, Take, Working, stream, client, restoration, history
<1>12. CASE RememberDelivered
  <2>1. callback \in Callbacks /\ callback.event \in Events
    BY <1>0, <1>12, BusyCallback DEF RememberDelivered, Working
  <2> QED
    BY <1>0, <1>12, <2>1 DEF StateTypes, ClientControl, RememberDelivered, Working, NewestOf, stream, client, restoration, history
<1>13. CASE Handle
  <2>1. callback \in Callbacks /\ callback.event \in Events
    BY <1>0, <1>13, BusyCallback DEF Handle, Working
  <2> QED
    BY <1>0, <1>13, <2>1 DEF StateTypes, ClientControl, Handle, Working, stream, client, restoration, history
<1>14. CASE HandlerRefuses
  BY <1>0, <1>14 DEF StateTypes, HandlerRefuses, Working, stream, client, restoration, history
<1>15. CASE Bury
  <2>1. callback \in Callbacks /\ callback.event \in Events
    BY <1>0, <1>15, BusyCallback DEF Bury, Working
  <2> QED
    BY <1>0, <1>15, <2>1 DEF StateTypes, ClientControl, Bury, Working, stream, client, restoration, history
<1>16. CASE Ack
  BY <1>0, <1>16 DEF StateTypes, Ack, Working, Settle, AckPending, stream, client, restoration, history
<1>17. CASE Nak
  BY <1>0, <1>17 DEF StateTypes, Nak, Working, Settle, AckPending, Unacked, stream, client, restoration, history
<1>18. ASSUME NEW e \in Events, DeliverNew(e) PROVE StateTypes'
  BY <1>0, <1>18 DEF StateTypes, DeliverNew, Push, stream, client, restoration, history
<1>19. ASSUME NEW e \in Events, Redeliver(e) PROVE StateTypes'
  BY <1>0, <1>19 DEF StateTypes, Redeliver, Push, stream, client, restoration, history
<1>20. ASSUME NEW e \in Events, AckWaitExpires(e) PROVE StateTypes'
  BY <1>0, <1>20 DEF StateTypes, AckWaitExpires, Expire, Unacked, stream, client, restoration, history
<1>21. ASSUME NEW e \in Events, Remember(e) PROVE StateTypes'
  BY <1>0, <1>21 DEF StateTypes, Remember, NewestOf, stream, client, restoration, history
<1>22. ASSUME NEW e \in Events, RememberLost(e) PROVE StateTypes'
  BY <1>0, <1>22 DEF StateTypes, RememberLost, Fault, stream, client, restoration, history
<1>23. ASSUME NEW e \in Events, AckWaitMissed(e) PROVE StateTypes'
  BY <1>0, <1>23 DEF StateTypes, AckWaitMissed, Expire, Unacked, Fault, stream, client, restoration, history
<1>24. CASE UNCHANGED vars
  BY <1>0, <1>24 DEF StateTypes, vars, stream, client, restoration, history
<1> QED
  BY <1>1, <1>2, <1>3, <1>4, <1>5, <1>6, <1>7, <1>8, <1>9, <1>10, <1>11, <1>12, <1>13, <1>14, <1>15, <1>16, <1>17, <1>18, <1>19, <1>20, <1>21, <1>22, <1>23, <1>24 DEF Next, Step, Server, Restoring, Callback

\* Only settled events are acknowledged.
LEMMA SettledStep == DeliveryInv /\ [Next]_vars => AckedIsSettled'
<1> SUFFICES ASSUME DeliveryInv, [Next]_vars PROVE AckedIsSettled'
  OBVIOUS
<1> USE DeliveryAssumption DEF Events
<1>0. ServerTypes /\ ClientTypes /\ ClientControl /\ AckedIsSettled
  BY DEF DeliveryInv, TypeOK
<1>a. sub \in Subscriptions /\ sub' = sub
  BY DEF DeliveryInv, TypeOK, ServerTypes, Next, vars
<1>b. Invalid' = Invalid /\ Poison' = Poison
  BY <1>a DEF Invalid, Poison
<1>c. Invalid \subseteq Events /\ Poison \subseteq Events /\ Durable \in BOOLEAN
  BY <1>a, SubscriptionTypes
<1> USE <1>a, <1>b, <1>c
<1>1. CASE Publish
  BY <1>0, <1>1 DEF ServerTypes, AckedIsSettled, ClientControl, ClientTypes, Callbacks, Nothing, Publish, stream, client, restoration, history
<1>2. CASE Subscribe
  BY <1>0, <1>2 DEF ServerTypes, AckedIsSettled, ClientControl, ClientTypes, Callbacks, Nothing, Subscribe, StartsAs, stream, client, restoration, history
<1>3. CASE RestoreFails
  BY <1>0, <1>3 DEF ServerTypes, AckedIsSettled, ClientControl, ClientTypes, Callbacks, Nothing, RestoreFails, Fault, stream, client, restoration, history
<1>4. CASE HandlerFails
  BY <1>0, <1>4 DEF ServerTypes, AckedIsSettled, ClientControl, ClientTypes, Callbacks, Nothing, HandlerFails, Fault, stream, client, restoration, history
<1>5. CASE AnswerLost
  BY <1>0, <1>5 DEF ServerTypes, AckedIsSettled, ClientControl, ClientTypes, Callbacks, Nothing, AnswerLost, Fault, stream, client, restoration, history
<1>6. CASE Crash
  BY <1>0, <1>6 DEF ServerTypes, AckedIsSettled, ClientControl, ClientTypes, Callbacks, Nothing, Crash, Fault, stream, client, restoration, history
<1>7. CASE RestoreRead
  BY <1>0, <1>7 DEF ServerTypes, AckedIsSettled, ClientControl, ClientTypes, Callbacks, Nothing, RestoreRead, stream, client, restoration, history
<1>8. CASE RestoreSave
  BY <1>0, <1>8 DEF ServerTypes, AckedIsSettled, ClientControl, ClientTypes, Callbacks, Nothing, RestoreSave, NewestOf, stream, client, restoration, history
<1>9. CASE RestoreChoose
  BY <1>0, <1>9 DEF ServerTypes, AckedIsSettled, ClientControl, ClientTypes, Callbacks, Nothing, RestoreChoose, FromSnapshot, stream, client, restoration, history
<1>10. CASE RestoreHandle
  BY <1>0, <1>10 DEF ServerTypes, AckedIsSettled, ClientControl, ClientTypes, Callbacks, Nothing, RestoreHandle, stream, client, restoration, history
<1>11. CASE Take
  BY <1>0, <1>11 DEF ServerTypes, AckedIsSettled, ClientControl, ClientTypes, Callbacks, Nothing, Take, Working, stream, client, restoration, history
<1>12. CASE RememberDelivered
  BY <1>0, <1>12 DEF ServerTypes, AckedIsSettled, ClientControl, ClientTypes, Callbacks, Nothing, RememberDelivered, Working, NewestOf, stream, client, restoration, history
<1>13. CASE Handle
  BY <1>0, <1>13 DEF ServerTypes, AckedIsSettled, ClientControl, ClientTypes, Callbacks, Nothing, Handle, Working, stream, client, restoration, history
<1>14. CASE HandlerRefuses
  BY <1>0, <1>14 DEF ServerTypes, AckedIsSettled, ClientControl, ClientTypes, Callbacks, Nothing, HandlerRefuses, Working, stream, client, restoration, history
<1>15. CASE Bury
  BY <1>0, <1>15 DEF ServerTypes, AckedIsSettled, ClientControl, ClientTypes, Callbacks, Nothing, Bury, Working, stream, client, restoration, history
<1>16. CASE Ack
  BY <1>0, <1>16 DEF ServerTypes, AckedIsSettled, ClientControl, ClientTypes, Callbacks, Nothing, Ack, Working, Settle, AckPending, stream, client, restoration, history
<1>17. CASE Nak
  BY <1>0, <1>17 DEF ServerTypes, AckedIsSettled, ClientControl, ClientTypes, Callbacks, Nothing, Nak, Working, Settle, AckPending, Unacked, stream, client, restoration, history
<1>18. ASSUME NEW e \in Events, DeliverNew(e) PROVE AckedIsSettled'
  BY <1>0, <1>18 DEF ServerTypes, AckedIsSettled, ClientControl, ClientTypes, Callbacks, Nothing, DeliverNew, Push, stream, client, restoration, history
<1>19. ASSUME NEW e \in Events, Redeliver(e) PROVE AckedIsSettled'
  BY <1>0, <1>19 DEF ServerTypes, AckedIsSettled, ClientControl, ClientTypes, Callbacks, Nothing, Redeliver, Push, stream, client, restoration, history
<1>20. ASSUME NEW e \in Events, AckWaitExpires(e) PROVE AckedIsSettled'
  BY <1>0, <1>20 DEF ServerTypes, AckedIsSettled, ClientControl, ClientTypes, Callbacks, Nothing, AckWaitExpires, Expire, Unacked, stream, client, restoration, history
<1>21. ASSUME NEW e \in Events, Remember(e) PROVE AckedIsSettled'
  BY <1>0, <1>21 DEF ServerTypes, AckedIsSettled, ClientControl, ClientTypes, Callbacks, Nothing, Remember, NewestOf, stream, client, restoration, history
<1>22. ASSUME NEW e \in Events, RememberLost(e) PROVE AckedIsSettled'
  BY <1>0, <1>22 DEF ServerTypes, AckedIsSettled, ClientControl, ClientTypes, Callbacks, Nothing, RememberLost, Fault, stream, client, restoration, history
<1>23. ASSUME NEW e \in Events, AckWaitMissed(e) PROVE AckedIsSettled'
  BY <1>0, <1>23 DEF ServerTypes, AckedIsSettled, ClientControl, ClientTypes, Callbacks, Nothing, AckWaitMissed, Expire, Unacked, Fault, stream, client, restoration, history
<1>24. CASE UNCHANGED vars
  BY <1>0, <1>24 DEF ServerTypes, AckedIsSettled, ClientControl, ClientTypes, Callbacks, Nothing, vars, stream, client, restoration, history
<1> QED
  BY <1>1, <1>2, <1>3, <1>4, <1>5, <1>6, <1>7, <1>8, <1>9, <1>10, <1>11, <1>12, <1>13, <1>14, <1>15, <1>16, <1>17, <1>18, <1>19, <1>20, <1>21, <1>22, <1>23, <1>24 DEF Next, Step, Server, Restoring, Callback

\* The empty subscription satisfies the invariant.
LEMMA InitInv == Init => DeliveryInv
<1> SUFFICES ASSUME Init PROVE DeliveryInv
  OBVIOUS
<1> USE DeliveryAssumption DEF Init, Events
<1>1. ServerTypes
  <2>1. last \in 0..Count /\ faults \in 0..MaxFaults
    OBVIOUS
  <2>2. consumer \in BOOLEAN /\ up \in BOOLEAN
    BY Zenon
  <2>3. server \in [Events -> {"none", "pending", "outstanding", "waiting", "acked", "given_up"}]
    OBVIOUS
  <2>4. delivered \in [Events -> 0..MaxDeliver]
    OBVIOUS
  <2> QED
    BY <2>1, <2>2, <2>3, <2>4 DEF ServerTypes
<1>2. ClientTypes
  BY DEF ClientTypes
<1>3. StateTypes
  BY DEF StateTypes
<1>4. ConsumerControl
  BY DEF ConsumerControl
<1>5. ClientControl
  BY DEF ClientControl, Nothing
<1>6. AckedIsSettled
  BY DEF AckedIsSettled
<1> QED
  BY <1>1, <1>2, <1>3, <1>4, <1>5, <1>6 DEF DeliveryInv, TypeOK

\* Whatever the publishers, the server, the callback and the failures do, the
\* subscription's bookkeeping stays consistent.
THEOREM DeliveryInvariant == Spec => []DeliveryInv
<1>1. Init => DeliveryInv
  BY InitInv
<1>2. DeliveryInv /\ [Next]_vars => DeliveryInv'
  BY ServerTypesStep, ConsumerStep, ClientTypesStep, ClientStep, StateTypesStep, SettledStep
  DEF DeliveryInv, TypeOK
<1> QED
  BY <1>1, <1>2, PTL DEF Spec

\* The types of the subscription's state are kept; num_delivered never passes
\* max_deliver.
THEOREM DeliveryTypes == Spec => []TypeOK
<1>1. DeliveryInv => TypeOK
  BY DEF DeliveryInv
<1> QED
  BY <1>1, DeliveryInvariant, PTL

\* _deliver acknowledges an event only after the handler took it in or _dead_letter
\* preserved it, with any number of redeliveries, lost answers and crashes between.
THEOREM DeliveryAcksSettled == Spec => []AckedIsSettled
<1>1. DeliveryInv => AckedIsSettled
  BY DEF DeliveryInv
<1> QED
  BY <1>1, DeliveryInvariant, PTL

-----------------------------------------------------------------------------
(* What the subscriber of a consumer may rely on: SubscriberInv. *)

\* The steps, by what they do to the consumer.
LEMMA ServerCases ==
  ASSUME DeliveryInv, ConsumerScope, [Next]_vars
  PROVE  /\ sub' = sub
         /\ \/ Publish \/ Subscribe \/ Crash \/ Ack \/ Nak
            \/ \E e \in Events : DeliverNew(e)
            \/ \E e \in Events : Redeliver(e)
            \/ \E e \in Events : Expire(e)
            \/ /\ UNCHANGED <<last, server, delivered, consumer, up>>
               /\ up \/ UNCHANGED <<inbox, callback, restore>>
<1> DEFINE Quiet == /\ UNCHANGED <<last, server, delivered, consumer, up>>
                    /\ up \/ UNCHANGED <<inbox, callback, restore>>
<1>0. (callback.phase # "idle" => up) /\ (restore # "none" => up)
  BY DEF ConsumerScope, Nothing
<1>1. ASSUME RestoreFails \/ Restoring PROVE Quiet
  BY <1>0, <1>1 DEF RestoreFails, Restoring, RestoreRead, RestoreSave, RestoreChoose, RestoreHandle, stream
<1>2. ASSUME HandlerFails \/ AnswerLost \/ Take \/ RememberDelivered \/ Handle \/ HandlerRefuses \/ Bury
      PROVE  Quiet
  BY <1>0, <1>2 DEF HandlerFails, AnswerLost, Take, RememberDelivered, Handle, HandlerRefuses, Bury, Working, stream
<1>3. ASSUME NEW e \in Events, Remember(e) \/ RememberLost(e) PROVE Quiet
  BY <1>3 DEF Remember, RememberLost, client, restoration
<1>4. ASSUME UNCHANGED vars PROVE Quiet
  BY <1>4 DEF vars
<1>5. ASSUME NEW e \in Events, AckWaitExpires(e) \/ AckWaitMissed(e) PROVE Expire(e)
  BY <1>5 DEF AckWaitExpires, AckWaitMissed
<1>6. sub' = sub
  BY DEF Next, vars
<1> HIDE DEF Quiet
<1>7. QED
  BY <1>1, <1>2, <1>3, <1>4, <1>5, <1>6 DEF Next, Step, Server, Callback, Quiet

\* What an event becomes when its message is pushed, answered or not answered in time.
LEMMA ExpireMoves ==
  ASSUME ServerTypes, NEW e \in Events, Expire(e)
  PROVE  /\ server[e] = "outstanding" /\ server'[e] \in {"waiting", "given_up"}
         /\ \A d \in Events \ {e} : server'[d] = server[d]
  BY DEF ServerTypes, Expire, Unacked

LEMMA PushMoves ==
  ASSUME ServerTypes, NEW e \in Events, Push(e)
  PROVE  /\ up /\ server'[e] = "outstanding" /\ delivered'[e] = delivered[e] + 1
         /\ \A d \in Events \ {e} : server'[d] = server[d] /\ delivered'[d] = delivered[d]
  BY DEF ServerTypes, Push

LEMMA AnswerMoves ==
  ASSUME ServerTypes, ClientTypes, Ack \/ Nak
  PROVE  /\ callback.event \in Events
         /\ \A d \in Events \ {callback.event} : server'[d] = server[d]
         /\ callback.event \in AckPending =>
              server'[callback.event] \in {"acked", "waiting", "given_up"}
         /\ callback.event \notin AckPending =>
              server'[callback.event] = server[callback.event]
<1>1. callback.event \in Events
  BY BusyCallback DEF Ack, Nak, Working
<1>2. QED
  BY <1>1 DEF ServerTypes, Ack, Nak, Settle, Unacked

\* A running process keeps its consumer, and the consumer its scope.
LEMMA ScopeStep == DeliveryInv /\ ConsumerScope /\ [Next]_vars => ConsumerScope'
<1> SUFFICES ASSUME DeliveryInv, ConsumerScope, [Next]_vars PROVE ConsumerScope'
  OBVIOUS
<1>0. ServerTypes /\ ClientTypes /\ ConsumerControl /\ sub' = sub
  BY ServerCases DEF DeliveryInv, TypeOK
<1>a. ReplayAll' = ReplayAll /\ Durable' = Durable
  BY <1>0 DEF ReplayAll, Durable
<1>b. \A e \in 1..last : e \in Events
  BY <1>0, DeliveryAssumption DEF ServerTypes, Events
<1>1. ASSUME UNCHANGED <<last, server, delivered, consumer, up>>, up \/ UNCHANGED <<inbox, callback, restore>>
      PROVE  ConsumerScope'
  BY <1>1, <1>a DEF ConsumerScope
<1>2. CASE Publish
  <2>1. last + 1 \in Events /\ last \in Int
    BY <1>0, <1>2, DeliveryAssumption DEF Publish, ServerTypes, Events
  <2>2. /\ \A e \in Events \ {last + 1} : server'[e] = server[e]
        /\ server'[last + 1] = IF consumer THEN "pending" ELSE "none"
    BY <1>0, <1>2, <2>1 DEF Publish, ServerTypes
  <2>3. UNCHANGED <<consumer, up, delivered, inbox, callback, restore>> /\ last' = last + 1
    BY <1>2 DEF Publish, client, restoration
  <2>4. \A e \in 1..last' : e = last + 1 \/ (e \in 1..last /\ e \in Events \ {last + 1})
    BY <1>b, <2>1, <2>3
  <2>5. QED
    BY <1>a, <2>2, <2>3, <2>4 DEF ConsumerScope
<1>3. CASE Subscribe
  <2>1. up' = TRUE /\ consumer' = TRUE /\ UNCHANGED <<last, delivered>>
    BY <1>3 DEF Subscribe, stream
  <2>2. CASE consumer
    BY <1>3, <1>a, <2>1, <2>2 DEF Subscribe, ConsumerScope
  <2>3. CASE ~consumer
    <3>1. \A e \in Events : server'[e] = IF ReplayAll /\ e <= last THEN "pending" ELSE "none"
      BY <1>3, <2>3 DEF Subscribe, StartsAs
    <3>2. ReplayAll => \A e \in 1..last : server'[e] # "none"
      BY <1>0, <1>b, <3>1 DEF ServerTypes
    <3>3. QED
      BY <1>a, <2>1, <3>1, <3>2 DEF ConsumerScope
  <2>4. QED
    BY <2>2, <2>3
<1>4. CASE Crash
  <2>1. up' = FALSE /\ inbox' = <<>> /\ callback' = Nothing /\ restore' = "none" /\ last' = last
    BY <1>4 DEF Crash, stream
  <2>2. CASE Durable
    <3>1. server' = server /\ delivered' = delivered
      BY <1>4, <2>2 DEF Crash
    <3>2. consumer
      BY <1>4 DEF Crash, ConsumerScope
    <3>3. QED
      BY <1>a, <2>1, <3>1, <3>2 DEF ConsumerScope
  <2>3. CASE ~Durable
    <3>1. (\A e \in Events : server'[e] = "none") /\ ~consumer'
      BY <1>4, <2>3 DEF Crash
    <3>2. QED
      BY <1>a, <2>1, <3>1 DEF ConsumerScope
  <2>4. QED
    BY <2>2, <2>3
<1>5. CASE Ack \/ Nak
  <2>1. UNCHANGED <<last, delivered, consumer, up, inbox, restore>> /\ up
    BY <1>5 DEF Ack, Nak, stream, restoration, Working, ConsumerScope, Nothing
  <2>2. \A d \in Events : server'[d] # server[d] =>
          server[d] \in {"outstanding", "waiting"} /\ server'[d] \in {"acked", "waiting", "given_up"}
    BY <1>0, <1>5, AnswerMoves DEF AckPending
  <2>3. QED
    BY <1>a, <1>b, <2>1, <2>2 DEF ConsumerScope
<1>6. ASSUME NEW e \in Events, Push(e) PROVE ConsumerScope'
  <2>1. UNCHANGED <<last, consumer, up>> /\ up
    BY <1>6 DEF Push, stream
  <2>2. delivered[e] \in Nat /\ delivered'[e] = delivered[e] + 1
    BY <1>0, <1>6, PushMoves, DeliveryAssumption DEF ServerTypes
  <2>3. /\ server'[e] = "outstanding" /\ delivered'[e] > 0
        /\ \A d \in Events \ {e} : server'[d] = server[d] /\ delivered'[d] = delivered[d]
    BY <1>0, <1>6, <2>2, PushMoves
  <2>4. QED
    BY <1>a, <1>b, <2>1, <2>3 DEF ConsumerScope
<1>7. ASSUME NEW e \in Events, Expire(e) PROVE ConsumerScope'
  <2>1. UNCHANGED <<last, delivered, consumer, up, inbox, callback, restore>>
    BY <1>7 DEF Expire, stream, client, restoration
  <2>2. \A d \in Events : server'[d] # server[d] =>
          server[d] = "outstanding" /\ server'[d] \in {"waiting", "given_up"}
    BY <1>0, <1>7, ExpireMoves
  <2>3. QED
    BY <1>a, <1>b, <2>1, <2>2 DEF ConsumerScope
<1>8. QED
  BY <1>1, <1>2, <1>3, <1>4, <1>5, <1>6, <1>7, ServerCases DEF DeliverNew, Redeliver

\* With one message in flight the server pushes an event for the first time when no
\* earlier one is due or unanswered.
LEMMA OrderStep ==
  DeliveryInv /\ ConsumerScope /\ OneInFlightInOrder /\ [Next]_vars => OneInFlightInOrder'
<1> SUFFICES ASSUME DeliveryInv, ConsumerScope, OneInFlightInOrder, [Next]_vars, MaxAckPending' = 1,
                    NEW d \in Events, NEW e \in Events, d < e, delivered'[e] > 0
             PROVE  server'[d] \in {"none", "acked", "given_up"}
  BY DEF OneInFlightInOrder
<1>0. ServerTypes /\ ClientTypes /\ ConsumerControl /\ sub' = sub
  BY ServerCases DEF DeliveryInv, TypeOK
<1>a. delivered[e] > 0 => server[d] \in {"none", "acked", "given_up"}
  BY <1>0 DEF OneInFlightInOrder, MaxAckPending
<1>b. d \in Int /\ e \in Int /\ last \in Int /\ delivered[e] \in Int
  BY <1>0, DeliveryAssumption DEF Events, ServerTypes
<1>1. CASE UNCHANGED <<server, delivered>>
  BY <1>a, <1>1
<1>2. CASE Publish
  <2>1. UNCHANGED delivered /\ (d # last + 1 => server'[d] = server[d])
    BY <1>0, <1>2 DEF Publish, ServerTypes
  <2>2. d = last + 1 => server[e] = "none"
    BY <1>0, <1>b DEF ConsumerControl
  <2>3. d # last + 1
    BY <1>0, <2>1, <2>2 DEF ConsumerControl
  <2>4. QED
    BY <1>a, <2>1, <2>3
<1>3. CASE Subscribe
  <2>1. UNCHANGED delivered /\ (consumer => server' = server)
    BY <1>3 DEF Subscribe
  <2>2. consumer
    BY <1>0, <2>1 DEF ConsumerControl
  <2>3. QED
    BY <1>a, <2>1, <2>2
<1>4. CASE Crash
  <2>1. \/ UNCHANGED <<server, delivered>>
        \/ delivered' = [x \in Events |-> 0]
    BY <1>4 DEF Crash
  <2>2. QED
    BY <1>1, <2>1
<1>5. CASE Ack \/ Nak
  <2>1. UNCHANGED delivered
    BY <1>5 DEF Ack, Nak
  <2>2. server'[d] # server[d] => server[d] \in {"outstanding", "waiting"}
    BY <1>0, <1>5, AnswerMoves DEF AckPending
  <2>3. QED
    BY <1>a, <2>1, <2>2
<1>6. ASSUME NEW x \in Events, Expire(x) PROVE server'[d] \in {"none", "acked", "given_up"}
  <2>1. UNCHANGED delivered
    BY <1>6 DEF Expire
  <2>2. server'[d] # server[d] => server[d] = "outstanding"
    BY <1>0, <1>6, ExpireMoves
  <2>3. QED
    BY <1>a, <2>1, <2>2
<1>7. ASSUME NEW x \in Events, Redeliver(x) PROVE server'[d] \in {"none", "acked", "given_up"}
  <2>1. server[x] = "waiting" /\ Push(x)
    BY <1>7 DEF Redeliver
  <2>2. delivered[x] > 0
    BY <2>1 DEF ConsumerScope
  <2>3. delivered[e] > 0
    BY <1>0, <2>1, <2>2, PushMoves
  <2>4. d # x
    BY <1>a, <2>1, <2>3
  <2>5. QED
    BY <1>0, <1>a, <2>1, <2>3, <2>4, PushMoves
<1>8. ASSUME NEW x \in Events, DeliverNew(x) PROVE server'[d] \in {"none", "acked", "given_up"}
  <2>1. /\ server[x] = "pending" /\ Push(x) /\ Cardinality(AckPending) < MaxAckPending
        /\ \A y \in Events : server[y] = "pending" => y >= x
    BY <1>8 DEF DeliverNew, InFlight
  <2>2. AckPending = {}
    <3>1. IsFiniteSet(Events)
      BY FS_Interval, DeliveryAssumption DEF Events
    <3>2. IsFiniteSet(AckPending)
      BY <3>1, FS_Subset DEF AckPending
    <3>3. Cardinality(AckPending) \in Nat /\ Cardinality(AckPending) < 1
      BY <1>0, <2>1, <3>2, FS_CardinalityType DEF MaxAckPending
    <3>4. QED
      BY <3>2, <3>3, FS_EmptySet
  <2>3. \A y \in Events : server[y] \notin {"outstanding", "waiting"}
    BY <2>2 DEF AckPending
  <2>4. server[d] \in {"none", "pending", "acked", "given_up"}
    BY <1>0, <2>3 DEF ServerTypes
  <2>5. x \in Int
    BY DeliveryAssumption DEF Events
  <2>6. CASE e = x
    <3>1. server[d] # "pending" /\ d # x
      BY <1>b, <2>1, <2>5, <2>6
    <3>2. QED
      BY <1>0, <2>1, <2>4, <3>1, PushMoves
  <2>7. CASE e # x
    <3>1. delivered[e] > 0
      BY <1>0, <2>1, <2>7, PushMoves
    <3>2. d # x
      BY <1>a, <2>1, <3>1
    <3>3. QED
      BY <1>0, <1>a, <2>1, <3>1, <3>2, PushMoves
  <2>8. QED
    BY <2>6, <2>7
<1>9. QED
  BY <1>1, <1>2, <1>3, <1>4, <1>5, <1>6, <1>7, <1>8, ServerCases

-----------------------------------------------------------------------------
(* Copies of a message in the client. *)

\* Take moves the first message of the inbox into the callback.
LEMMA TakeFacts ==
  ASSUME ClientTypes, Take
  PROVE  /\ callback.phase = "idle" /\ callback = Nothing
         /\ Len(inbox) \in Nat /\ 1 \in 1..Len(inbox)
         /\ callback'.event = inbox[1].event /\ callback'.phase # "acking"
         /\ \A i \in 1..Len(inbox') :
              i \in Int /\ i + 1 \in 1..Len(inbox) /\ i + 1 # 1 /\ inbox'[i] = inbox[i + 1]
<1>1. inbox \in Seq(Deliveries) /\ inbox # <<>> /\ inbox' = Tail(inbox)
  BY DEF ClientTypes, Take
<1>2. /\ Head(inbox) = inbox[1] /\ Len(inbox) \in Nat /\ 1 \in 1..Len(inbox)
      /\ Len(inbox') = Len(inbox) - 1
      /\ \A i \in 1..(Len(inbox) - 1) : inbox'[i] = inbox[i + 1]
  <2>1. Len(inbox) \in Nat /\ Len(inbox) > 0
    BY <1>1, EmptySeq
  <2>2. QED
    BY <1>1, <2>1, HeadTailProperties
<1>3. \A i \in 1..Len(inbox') :
        i \in Int /\ i + 1 \in 1..Len(inbox) /\ i + 1 # 1 /\ inbox'[i] = inbox[i + 1]
  BY <1>2
<1>4. callback'.event = Head(inbox).event /\ callback'.phase # "acking"
  BY DEF Take
<1>5. callback.phase = "idle" /\ callback = Nothing
  BY DEF Take, Working, ClientTypes, Callbacks
<1>6. QED
  BY <1>2, <1>3, <1>4, <1>5

\* Push adds one message at the end of the inbox.
LEMMA PushFacts ==
  ASSUME ClientTypes, NEW e \in Events, Push(e)
  PROVE  /\ callback' = callback
         /\ \A i \in 1..Len(inbox') : \/ i \in 1..Len(inbox) /\ inbox'[i] = inbox[i]
                                      \/ i = Len(inbox) + 1 /\ inbox'[i].event = e
<1> DEFINE message == [event |-> e, attempt |-> delivered[e] + 1]
<1>1. inbox' = Append(inbox, message) /\ callback' = callback /\ message.event = e
  BY DEF Push
<1> HIDE DEF message
<1>2. /\ Len(inbox) \in Nat /\ Len(inbox') = Len(inbox) + 1
      /\ inbox'[Len(inbox) + 1] = message
      /\ \A i \in 1..Len(inbox) : inbox'[i] = inbox[i]
  <2>1. inbox \in Seq(Deliveries \cup {message})
    BY DEF ClientTypes
  <2>2. QED
    BY <1>1, <2>1, AppendProperties
<1>3. QED
  BY <1>1, <1>2

\* The steps, by what they do to the client.
LEMMA ClientCases ==
  ASSUME DeliveryInv, ConsumerScope, [Next]_vars
  PROVE  \/ Subscribe \/ Crash \/ Take \/ Ack \/ Nak \/ AnswerLost \/ Handle \/ Publish
         \/ \E e \in Events : server[e] \in {"pending", "waiting"} /\ Push(e)
         \/ \E e \in Events : AckWaitExpires(e)
         \/ \E e \in Events : AckWaitMissed(e)
         \/ /\ UNCHANGED <<last, server, consumer, inbox, handled, excused>>
            /\ \/ UNCHANGED callback
               \/ callback.phase # "acking" /\ callback'.event = callback.event
<1> DEFINE Quiet == /\ UNCHANGED <<last, server, consumer, inbox, handled, excused>>
                    /\ \/ UNCHANGED callback
                       \/ callback.phase # "acking" /\ callback'.event = callback.event
<1>0. ClientTypes
  BY DEF DeliveryInv, TypeOK
<1>1. ASSUME RestoreFails \/ Restoring PROVE Quiet
  BY <1>1 DEF RestoreFails, Restoring, RestoreRead, RestoreSave, RestoreChoose, RestoreHandle, stream,
              client, history
<1>2. ASSUME HandlerFails \/ RememberDelivered \/ HandlerRefuses \/ Bury PROVE Quiet
  <2>1. callback.phase \in {"remembering", "gated", "burying"}
    BY <1>2 DEF HandlerFails, RememberDelivered, HandlerRefuses, Bury, Working
  <2>2. callback \in Callbacks
    BY <1>0, <2>1, BusyCallback
  <2>3. callback'.event = callback.event
    BY <1>2, <2>2, GotoFacts, FailurePhase DEF HandlerFails, RememberDelivered, HandlerRefuses, Bury, Phases
  <2>4. UNCHANGED <<last, server, consumer, inbox, handled, excused>>
    BY <1>2 DEF HandlerFails, RememberDelivered, HandlerRefuses, Bury, stream, history
  <2>5. QED
    BY <2>1, <2>3, <2>4
<1>3. ASSUME NEW e \in Events, Remember(e) \/ RememberLost(e) PROVE Quiet
  BY <1>3 DEF Remember, RememberLost, client, history
<1>4. ASSUME UNCHANGED vars PROVE Quiet
  BY <1>4 DEF vars
<1>5. ASSUME NEW e \in Events, DeliverNew(e) \/ Redeliver(e)
      PROVE  server[e] \in {"pending", "waiting"} /\ Push(e)
  BY <1>5 DEF DeliverNew, Redeliver
<1> HIDE DEF Quiet
<1>6. QED
  BY <1>1, <1>2, <1>3, <1>4, <1>5 DEF Next, Step, Server, Callback, Quiet

\* A message that is new in the client was just pushed.
LEMMA ClientKept ==
  ASSUME DeliveryInv, ConsumerScope, [Next]_vars, NEW e \in Events, InClient(e)'
  PROVE  \/ InClient(e)
         \/ server[e] \in {"pending", "waiting"} /\ server'[e] = "outstanding"
<1>0. ServerTypes /\ ClientTypes
  BY DEF DeliveryInv, TypeOK
<1>a. Nothing.event = 0 /\ e # 0
  BY DeliveryAssumption DEF Events, Nothing
<1>1. CASE UNCHANGED inbox /\ (callback'.event = callback.event \/ callback' = Nothing)
  BY <1>a, <1>1 DEF InClient
<1>2. CASE Take
  BY <1>0, <1>2, TakeFacts DEF InClient
<1>3. CASE Crash
  <2>1. Len(inbox') = 0 /\ callback' = Nothing
    BY <1>3 DEF Crash
  <2>2. QED
    BY <1>a, <2>1 DEF InClient
<1>4. ASSUME NEW d \in Events, server[d] \in {"pending", "waiting"}, Push(d)
      PROVE  \/ InClient(e)
             \/ server[e] \in {"pending", "waiting"} /\ server'[e] = "outstanding"
  <2>1. server'[d] = "outstanding"
    BY <1>0, <1>4, PushMoves
  <2>2. QED
    BY <1>0, <1>4, <2>1, PushFacts DEF InClient
<1>5. CASE Subscribe \/ Publish \/ \E d \in Events : AckWaitExpires(d) \/ AckWaitMissed(d)
  BY <1>1, <1>5 DEF Subscribe, Publish, AckWaitExpires, AckWaitMissed, Expire, client
<1>6. CASE Ack \/ Nak \/ AnswerLost
  BY <1>1, <1>6 DEF Ack, Nak, AnswerLost
<1>7. CASE Handle
  <2>1. callback'.event = callback.event
    BY <1>0, <1>7, BusyCallback, GotoFacts DEF Handle, Working, Phases
  <2>2. QED
    BY <1>1, <1>7, <2>1 DEF Handle
<1>8. QED
  BY <1>1, <1>2, <1>3, <1>4, <1>5, <1>6, <1>7, ClientCases

\* The client holds, and the handler took in, published events only.
PublishedOnly ==
  /\ \A e \in Events : InClient(e) \/ e \in handled => e <= last
  /\ Durable /\ ~consumer => handled = {}

LEMMA PublishedOnlyStep ==
  DeliveryInv /\ ConsumerScope /\ PublishedOnly /\ [Next]_vars => PublishedOnly'
<1> SUFFICES ASSUME DeliveryInv, ConsumerScope, PublishedOnly, [Next]_vars PROVE PublishedOnly'
  OBVIOUS
<1>0. ServerTypes /\ ClientTypes /\ ConsumerControl /\ sub' = sub /\ Durable' = Durable
  BY ServerCases DEF DeliveryInv, TypeOK, Durable
<1>1. last \in Int /\ last' \in Int /\ last <= last'
  <2>1. last' = last \/ last' = last + 1
    BY ServerCases DEF Publish, Subscribe, Crash, Ack, Nak, DeliverNew, Redeliver, Push, Expire, stream
  <2>2. last \in Int
    BY <1>0 DEF ServerTypes
  <2>3. QED
    BY <2>1, <2>2
<1>2. \A e \in Events : e \in Int
  BY DEF Events
<1>3. \A e \in Events : server[e] # "none" => e <= last
  BY <1>0, <1>1, <1>2 DEF ConsumerControl
<1>4. \A e \in Events : InClient(e)' => e <= last
  BY <1>3, ClientKept DEF PublishedOnly
<1>5. handled' = handled \/ (handled' = handled \cup {callback.event} /\ InClient(callback.event) /\ up /\ consumer' = consumer)
  <2>1. CASE Handle
    <3>1. up
      BY <2>1 DEF Handle, Working, ConsumerScope, Nothing
    <3>2. QED
      BY <2>1, <3>1 DEF Handle, InClient
  <2>2. CASE ~Handle
    BY <2>2, ClientCases DEF Subscribe, Crash, Take, Ack, Nak, AnswerLost, Publish, Push, AckWaitExpires,
                             AckWaitMissed, Expire, history
  <2>3. QED
    BY <2>1, <2>2
<1>6. \A e \in Events : e \in handled' => e <= last
  BY <1>5 DEF PublishedOnly
<1>7. \A e \in Events : InClient(e)' \/ e \in handled' => e <= last'
  BY <1>1, <1>2, <1>4, <1>6
<1>8. Durable /\ ~consumer' => ~consumer /\ handled' = handled
  <2>1. Durable /\ consumer => consumer'
    BY ServerCases DEF Publish, Subscribe, Crash, Ack, Nak, DeliverNew, Redeliver, Push, Expire
  <2>2. up /\ consumer' = consumer => consumer'
    BY DEF ConsumerScope
  <2>3. QED
    BY <1>5, <2>1, <2>2
<1>9. QED
  BY <1>0, <1>7, <1>8 DEF PublishedOnly

\* A message without excuse stays the only copy, and its event is not handled twice.
LEMMA CopyStep ==
  DeliveryInv /\ ConsumerScope /\ CopyControl /\ [Next]_vars => CopyControl'
<1> SUFFICES ASSUME DeliveryInv, ConsumerScope, CopyControl, [Next]_vars PROVE CopyControl'
  OBVIOUS
<1>0. /\ ServerTypes /\ ClientTypes /\ ConsumerControl /\ PublishedOnly /\ sub' = sub
      /\ Durable' = Durable /\ ReplayAll' = ReplayAll
  BY ServerCases DEF DeliveryInv, TypeOK, Durable, ReplayAll, CopyControl, PublishedOnly
<1>1. PublishedOnly'
  BY <1>0, PublishedOnlyStep
<1>2. SUFFICES ASSUME ReplayAll => Durable, NEW e \in Events, e \notin excused' PROVE SoleCopy(e)'
  BY <1>0, <1>1 DEF CopyControl, PublishedOnly
<1>3. Nothing.event = 0 /\ e # 0 /\ e \in Int /\ Nothing.phase # "acking"
  BY DEF Events, Nothing
<1>4. e \notin excused => SoleCopy(e)
  BY <1>2 DEF CopyControl
<1>5. CASE /\ UNCHANGED <<last, server, consumer, inbox, handled, excused>>
           /\ \/ UNCHANGED callback
              \/ callback.phase # "acking" /\ callback'.event = callback.event
  BY <1>2, <1>4, <1>5 DEF SoleCopy, InClient
<1>6. CASE Publish
  <2>1. UNCHANGED <<inbox, callback, handled, excused>>
    BY <1>6 DEF Publish, client, history
  <2>2. last \in Int /\ last + 1 \in Events /\ \A d \in Events \ {last + 1} : server'[d] = server[d]
    BY <1>0, <1>6, DeliveryAssumption DEF Publish, ServerTypes, Events
  <2>3. CASE e # last + 1
    BY <1>2, <1>4, <2>1, <2>2, <2>3 DEF SoleCopy, InClient
  <2>4. CASE e = last + 1
    <3>1. ~InClient(e) /\ e \notin handled
      BY <1>0, <2>2, <2>4 DEF PublishedOnly
    <3>2. QED
      BY <2>1, <3>1 DEF SoleCopy, InClient
  <2>5. QED
    BY <2>3, <2>4
<1>7. CASE Subscribe
  <2>1. UNCHANGED <<inbox, callback, handled, excused>> /\ ~up
    BY <1>7 DEF Subscribe, client, history
  <2>2. ~InClient(e) /\ callback = Nothing
    BY <1>3, <2>1 DEF ConsumerScope, InClient
  <2>3. CASE consumer
    <3>1. server' = server
      BY <1>7, <2>3 DEF Subscribe
    <3>2. QED
      BY <1>2, <1>4, <2>1, <3>1 DEF SoleCopy, InClient
  <2>4. CASE ~consumer
    <3>1. server'[e] = IF ReplayAll /\ e <= last THEN "pending" ELSE "none"
      BY <1>7, <2>4 DEF Subscribe, StartsAs
    <3>2. e \in handled => server'[e] = "none"
      BY <1>0, <1>2, <2>4, <3>1 DEF PublishedOnly
    <3>3. QED
      BY <2>1, <2>2, <3>2 DEF SoleCopy, InClient
  <2>5. QED
    BY <2>3, <2>4
<1>8. CASE Crash
  <2>1. /\ callback' = Nothing /\ Len(inbox') = 0 /\ handled' = handled
        /\ excused' = excused \cup AckPending
    BY <1>8 DEF Crash
  <2>2. e \notin excused /\ server[e] # "outstanding"
    BY <1>2, <2>1 DEF AckPending
  <2>3. ~InClient(e)' /\ ~InClient(e)
    BY <1>3, <1>4, <2>1, <2>2 DEF InClient, SoleCopy
  <2>4. e \in handled => server[e] \in {"acked", "none"}
    BY <1>4, <2>2, <2>3 DEF SoleCopy, InClient
  <2>5. server'[e] = server[e] \/ server'[e] = "none"
    BY <1>8 DEF Crash
  <2>6. QED
    BY <1>3, <2>1, <2>3, <2>4, <2>5 DEF SoleCopy, InClient
<1>9. CASE Take
  <2>1. UNCHANGED <<server, handled, excused>>
    BY <1>9 DEF Take, history
  <2>2. SoleCopy(e)
    BY <1>2, <1>4, <2>1
  <2>3. /\ callback = Nothing /\ 1 \in 1..Len(inbox) /\ callback'.event = inbox[1].event
        /\ \A i \in 1..Len(inbox') :
             i \in Int /\ i + 1 \in 1..Len(inbox) /\ i + 1 # 1 /\ inbox'[i] = inbox[i + 1]
    BY <1>0, <1>9, TakeFacts
  <2>4. InClient(e)' => InClient(e)
    BY <2>3 DEF InClient
  <2>5. callback'.event = e => \A i \in 1..Len(inbox') : inbox'[i].event # e
    BY <2>2, <2>3 DEF SoleCopy
  <2>6. \A i, j \in 1..Len(inbox') : inbox'[i].event = e /\ inbox'[j].event = e => i = j
    <3> TAKE i, j \in 1..Len(inbox')
    <3>1. inbox'[i].event = e /\ inbox'[j].event = e => i + 1 = j + 1
      BY <2>2, <2>3 DEF SoleCopy
    <3>2. i \in Int /\ j \in Int
      BY <2>3
    <3>3. QED
      BY <3>1, <3>2
  <2>7. e \in handled => server[e] \in {"acked", "none"}
    BY <1>3, <2>2, <2>3 DEF SoleCopy
  <2>8. QED
    BY <2>1, <2>2, <2>4, <2>5, <2>6, <2>7 DEF SoleCopy
<1>10. CASE Ack \/ Nak
  <2>1. UNCHANGED <<inbox, handled, excused>> /\ callback' = Nothing
    BY <1>10 DEF Ack, Nak, history
  <2>2. SoleCopy(e)
    BY <1>2, <1>4, <2>1
  <2>3. callback.event \in Events /\ \A d \in Events \ {callback.event} : server'[d] = server[d]
    BY <1>0, <1>10, AnswerMoves
  <2>4. CASE e # callback.event
    <3>1. InClient(e)' => InClient(e)
      BY <1>3, <2>1 DEF InClient
    <3>2. server'[e] = server[e]
      BY <2>3, <2>4
    <3>3. QED
      BY <1>3, <2>1, <2>2, <2>4, <3>1, <3>2 DEF SoleCopy
  <2>5. CASE e = callback.event
    <3>1. server[e] = "outstanding" /\ ~InClient(e)'
      BY <1>3, <2>1, <2>2, <2>5 DEF SoleCopy, InClient
    <3>2. e \in handled => callback.phase = "acking"
      BY <2>2, <3>1 DEF SoleCopy
    <3>3. e \in handled => Ack
      BY <1>10, <3>2 DEF Nak, Working
    <3>4. Ack => server'[e] = "acked"
      BY <1>0, <2>5, <3>1 DEF Ack, Settle, AckPending, ServerTypes
    <3>5. QED
      BY <1>3, <2>1, <2>2, <3>1, <3>3, <3>4 DEF SoleCopy, InClient
  <2>6. QED
    BY <2>4, <2>5
<1>11. CASE AnswerLost
  <2>1. /\ UNCHANGED <<inbox, handled, server>> /\ callback' = Nothing
        /\ excused' = excused \cup {callback.event}
    BY <1>11 DEF AnswerLost
  <2>2. e # callback.event /\ SoleCopy(e)
    BY <1>2, <1>4, <2>1
  <2>3. InClient(e)' => InClient(e)
    BY <1>3, <2>1 DEF InClient
  <2>4. QED
    BY <1>3, <2>1, <2>2, <2>3 DEF SoleCopy
<1>12. CASE Handle
  <2>1. /\ callback'.event = callback.event /\ callback'.phase = "acking" /\ callback.phase # "acking"
        /\ UNCHANGED <<inbox, server, excused>> /\ handled' = handled \cup {callback.event}
    BY <1>0, <1>12, BusyCallback, GotoFacts DEF Handle, Working, Phases
  <2>2. SoleCopy(e)
    BY <1>2, <1>4, <2>1
  <2>3. InClient(e)' => InClient(e)
    BY <2>1 DEF InClient
  <2>4. QED
    BY <2>1, <2>2, <2>3 DEF SoleCopy
<1>13. ASSUME NEW d \in Events, server[d] \in {"pending", "waiting"}, Push(d) PROVE SoleCopy(e)'
  <2>1. UNCHANGED <<handled, excused>>
    BY <1>13 DEF Push, history
  <2>2. SoleCopy(e)
    BY <1>2, <1>4, <2>1
  <2>3. /\ callback' = callback
        /\ \A i \in 1..Len(inbox') : \/ i \in 1..Len(inbox) /\ inbox'[i] = inbox[i]
                                     \/ i = Len(inbox) + 1 /\ inbox'[i].event = d
    BY <1>0, <1>13, PushFacts
  <2>4. server'[d] = "outstanding" /\ \A x \in Events \ {d} : server'[x] = server[x]
    BY <1>0, <1>13, PushMoves
  <2>5. CASE e # d
    <3>1. InClient(e)' => InClient(e)
      BY <2>3, <2>5 DEF InClient
    <3>2. server'[e] = server[e]
      BY <2>4, <2>5
    <3>3. \A i \in 1..Len(inbox') : inbox'[i].event = e => i \in 1..Len(inbox) /\ inbox[i].event = e
      BY <2>3, <2>5
    <3>4. QED
      BY <2>1, <2>2, <2>3, <3>1, <3>2, <3>3 DEF SoleCopy
  <2>6. CASE e = d
    <3>1. ~InClient(e) /\ e \notin handled
      BY <1>13, <2>2, <2>6 DEF SoleCopy, InClient
    <3>2. \A i \in 1..Len(inbox') : inbox'[i].event = e => i = Len(inbox) + 1
      BY <2>3, <3>1 DEF InClient
    <3>3. callback'.event # e
      BY <2>3, <3>1 DEF InClient
    <3>4. QED
      BY <2>1, <2>4, <2>6, <3>1, <3>2, <3>3 DEF SoleCopy
  <2>7. QED
    BY <2>5, <2>6
<1>14. ASSUME NEW d \in Events, Expire(d), Unattended(d) \/ d \in excused', excused \subseteq excused'
       PROVE  SoleCopy(e)'
  <2>1. UNCHANGED <<inbox, callback, handled>>
    BY <1>14 DEF Expire, client
  <2>2. SoleCopy(e)
    BY <1>2, <1>4, <1>14
  <2>3. \A x \in Events \ {d} : server'[x] = server[x]
    BY <1>0, <1>14, ExpireMoves
  <2>4. CASE e # d
    BY <2>1, <2>2, <2>3, <2>4 DEF SoleCopy, InClient
  <2>5. CASE e = d
    <3>1. ~InClient(e) /\ server[e] = "outstanding"
      BY <1>0, <1>2, <1>14, <2>5, ExpireMoves DEF Unattended, InClient
    <3>2. e \notin handled
      BY <2>2, <3>1 DEF SoleCopy, InClient
    <3>3. QED
      BY <2>1, <2>2, <3>1, <3>2 DEF SoleCopy, InClient
  <2>6. QED
    BY <2>4, <2>5
<1>15. ASSUME NEW d \in Events, AckWaitExpires(d) PROVE SoleCopy(e)'
  BY <1>14, <1>15 DEF AckWaitExpires
<1>16. ASSUME NEW d \in Events, AckWaitMissed(d) PROVE SoleCopy(e)'
  BY <1>14, <1>16 DEF AckWaitMissed
<1>17. QED
  BY <1>5, <1>6, <1>7, <1>8, <1>9, <1>10, <1>11, <1>12, <1>13, <1>15, <1>16, ClientCases

\* The handler is called again only for an event with an excuse.
LEMMA RepeatsStep ==
  DeliveryInv /\ CopyControl /\ RepeatsExplained /\ [Next]_vars => RepeatsExplained'
<1> SUFFICES ASSUME DeliveryInv, CopyControl, RepeatsExplained, [Next]_vars, ReplayAll' => Durable'
             PROVE  repeated' \subseteq excused'
  BY DEF RepeatsExplained
<1>0. ClientTypes /\ sub' = sub
  BY DEF DeliveryInv, TypeOK, Next, vars
<1>1. repeated \subseteq excused /\ \A e \in Events \ excused : SoleCopy(e)
  BY <1>0 DEF RepeatsExplained, CopyControl, ReplayAll, Durable
<1>2. CASE Handle
  <2>1. callback.event \in Events /\ callback.phase = "gated"
    BY <1>0, <1>2, BusyCallback DEF Handle, Working
  <2>2. callback.event \in handled => callback.event \in excused
    BY <1>1, <2>1 DEF SoleCopy, InClient
  <2>3. QED
    BY <1>1, <1>2, <2>2 DEF Handle
<1>3. CASE ~Handle
  <2>1. repeated' = repeated /\ excused \subseteq excused'
    BY <1>3 DEF Next, Step, Restoring, Callback, Server, Publish, Subscribe, RestoreFails, HandlerFails,
                AnswerLost, Crash, RestoreRead, RestoreSave, RestoreChoose, RestoreHandle, Take,
                RememberDelivered, HandlerRefuses, Bury, Ack, Nak, DeliverNew, Redeliver, Push,
                AckWaitExpires, AckWaitMissed, Expire, Remember, RememberLost, history, vars
  <2>2. QED
    BY <1>1, <2>1
<1>4. QED
  BY <1>2, <1>3

-----------------------------------------------------------------------------
(* What a caught-up subscriber knows. *)

\* While the process runs, what it has or is owed stays so.
LEMMA OwedKept ==
  ASSUME DeliveryInv, ConsumerScope, CurrencyControl, [Next]_vars, up, up',
         NEW e \in Events, Owed(e)
  PROVE  Owed(e)'
<1>0. ServerTypes /\ ClientTypes
  BY DEF DeliveryInv, TypeOK
<1>1. ~Crash /\ ~Subscribe /\ consumer
  BY DEF Crash, Subscribe, ConsumerScope
<1>2. seen \subseteq seen' /\ dlq \subseteq dlq'
  BY <1>1 DEF Next, Step, Restoring, Callback, Server, Publish, RestoreFails, HandlerFails, AnswerLost,
              RestoreRead, RestoreSave, RestoreChoose, RestoreHandle, Take, RememberDelivered, Handle,
              HandlerRefuses, Bury, Ack, Nak, DeliverNew, Redeliver, Push, AckWaitExpires, AckWaitMissed,
              Expire, Remember, RememberLost, vars
<1>3. CASE server'[e] \in {server[e], "pending", "outstanding", "waiting", "given_up"}
  BY <1>2, <1>3 DEF Owed, NotLost
<1>4. CASE Publish
  BY <1>0, <1>1, <1>3, <1>4 DEF Publish, ServerTypes
<1>5. ASSUME NEW d \in Events, Push(d) PROVE Owed(e)'
  BY <1>0, <1>3, <1>5, PushMoves
<1>6. ASSUME NEW d \in Events, Expire(d) PROVE Owed(e)'
  BY <1>0, <1>3, <1>6, ExpireMoves
<1>7. CASE Nak
  <2>1. server'[e] \in {server[e], Unacked(callback.event)}
    BY <1>0, <1>7 DEF Nak, Settle, ServerTypes
  <2>2. QED
    BY <1>3, <2>1 DEF Unacked
<1>8. CASE Ack
  <2>1. callback.event \in seen \cup dlq
    BY <1>8 DEF Ack, Working, CurrencyControl
  <2>2. CASE e = callback.event
    BY <1>2, <2>1, <2>2 DEF Owed, NotLost
  <2>3. CASE e # callback.event
    BY <1>0, <1>3, <1>8, <2>3, AnswerMoves
  <2>4. QED
    BY <2>2, <2>3
<1>9. QED
  BY <1>1, <1>3, <1>4, <1>5, <1>6, <1>7, <1>8, ServerCases DEF DeliverNew, Redeliver

\* The restoration's part of CurrencyControl.
RestoreKnows ==
  /\ restore = "choosing" => Analysis
  /\ restore = "saving" \/ (~Analysis /\ restore \in {"handling", "done"}) =>
       \A e \in Events : restored < e /\ e <= last => Owed(e)
  /\ ~Analysis /\ restore = "done" => restored = 0 \/ restored \in seen
  /\ Analysis /\ restore \in {"choosing", "handling", "done"} =>
       \A e \in unsaved : Owed(e) \/ (snapshot # 0 /\ Order[e] <= Order[snapshot])
  /\ Analysis /\ restore = "handling" => RestoredOr(restored)
  /\ Analysis /\ restore = "done" => RestoredOr(0)

\* The newer of two evaluations, and what RestoredOr makes of it.
LEMMA NewestFacts ==
  ASSUME sub \in Subscriptions, sub' = sub, NEW s \in {0} \cup Events, NEW e \in Events
  PROVE  /\ Order' = Order /\ Order[e] \in Nat /\ (s # 0 => Order[s] \in Nat)
         /\ NewestOf(s, e) \in {s, e} /\ NewestOf(s, e) \in Events
         /\ Order[NewestOf(s, e)] >= Order[e]
         /\ s # 0 => Order[NewestOf(s, e)] >= Order[s]
         /\ NewestOf(s, e) = e \/ (s # 0 /\ NewestOf(s, e) = s)
<1>1. Order \in [Events -> Nat] /\ Order' = Order
  BY DeliveryAssumption DEF Order
<1>2. \A x \in Events : x # 0 /\ Order[x] \in Nat
  BY <1>1 DEF Events
<1>3. QED
  BY <1>1, <1>2 DEF NewestOf

\* A write to the snapshot keeps an analysis as new as it within reach: the event
\* written is owed to this process, or was no newer than the snapshot.
LEMMA SnapshotWrite ==
  ASSUME DeliveryInv, sub' = sub, NEW r, NEW e \in Events, RestoredOr(r),
         \A d \in Events : Owed(d) => Owed(d)',
         snapshot' = NewestOf(snapshot, e),
         Owed(e) \/ (snapshot # 0 /\ Order[e] <= Order[snapshot])
  PROVE  snapshot' # 0 => \E d \in Events : (Owed(d)' \/ d = r) /\ Order'[d] >= Order'[snapshot']
<1>1. /\ sub \in Subscriptions /\ snapshot \in {0} \cup Events
      /\ \A d \in Events : Order[d] \in Nat /\ Order' = Order
  <2>1. sub \in Subscriptions /\ snapshot \in {0} \cup Events
    BY DEF DeliveryInv, TypeOK, ServerTypes, StateTypes
  <2>2. QED
    BY <2>1, NewestFacts
<1>2. snapshot' = e \/ (snapshot # 0 /\ snapshot' = snapshot)
  BY <1>1, NewestFacts
<1>3. CASE Owed(e) /\ snapshot' = e
  BY <1>1, <1>3
<1>4. CASE snapshot # 0 /\ Order[snapshot'] <= Order[snapshot] /\ snapshot' \in Events
  <2>1. PICK d \in Events : (Owed(d) \/ d = r) /\ Order[d] >= Order[snapshot]
    BY <1>4 DEF RestoredOr
  <2>2. Order[d] \in Nat /\ Order[snapshot] \in Nat /\ Order[snapshot'] \in Nat
    BY <1>1, <1>4
  <2>3. Order[d] >= Order[snapshot']
    BY <1>4, <2>1, <2>2
  <2>4. QED
    BY <1>1, <2>1, <2>3
<1>5. QED
  BY <1>1, <1>2, <1>3, <1>4

\* What a step writes to the snapshot and to the restore task's variables.
LEMMA SnapshotCases ==
  ASSUME DeliveryInv, CopyControl, CurrencyControl, [Next]_vars
  PROVE  /\ \/ snapshot' = snapshot
            \/ \E e \in Events : e <= last /\ snapshot' = NewestOf(snapshot, e)
         /\ restored' \in {restored, last, snapshot, 0}
         /\ \/ UNCHANGED last /\ unsaved' \subseteq unsaved
            \/ last' = last + 1 /\ unsaved' \subseteq {last'}
<1>0. ServerTypes /\ ClientTypes /\ StateTypes /\ ClientControl
  BY DEF DeliveryInv, TypeOK
<1>1. CASE \E e \in Events : Remember(e)
  <2>1. PICK e \in Events : Remember(e)
    BY <1>1
  <2>2. e <= last
    BY <1>0, <2>1 DEF Remember, CurrencyControl, ServerTypes
  <2>3. QED
    BY <2>1, <2>2 DEF Remember, restoration
<1>2. CASE RestoreSave
  <2>1. restored \in Events /\ restored <= last
    BY <1>0, <1>2 DEF RestoreSave, ClientControl, CurrencyControl
  <2>2. QED
    BY <1>2, <2>1 DEF RestoreSave, stream
<1>3. CASE RememberDelivered
  <2>1. callback.event \in Events
    BY <1>0, <1>3, BusyCallback DEF RememberDelivered, Working
  <2>2. callback.event <= last
    BY <2>1 DEF CopyControl, InClient
  <2>3. QED
    BY <1>3, <2>1, <2>2 DEF RememberDelivered, stream, restoration
<1>4. CASE Publish
  BY <1>4 DEF Publish, CurrencyControl, restoration
<1>5. CASE ~Publish /\ ~RestoreSave /\ ~RememberDelivered /\ ~ \E e \in Events : Remember(e)
  <2>1. snapshot' = snapshot /\ UNCHANGED last
    BY <1>5 DEF Next, Step, Restoring, Callback, Server, Subscribe, RestoreFails, HandlerFails, AnswerLost,
                Crash, RestoreRead, RestoreChoose, RestoreHandle, Take, Handle, HandlerRefuses, Bury, Ack,
                Nak, DeliverNew, Redeliver, Push, AckWaitExpires, AckWaitMissed, Expire, RememberLost,
                stream, vars
  <2>2. unsaved' \subseteq unsaved
    BY <1>5 DEF Next, Step, Restoring, Callback, Server, Subscribe, RestoreFails, HandlerFails, AnswerLost,
                Crash, RestoreRead, RestoreChoose, RestoreHandle, Take, Handle, HandlerRefuses, Bury, Ack,
                Nak, DeliverNew, Redeliver, Push, AckWaitExpires, AckWaitMissed, Expire, RememberLost,
                stream, vars
  <2>3. restored' \in {restored, last, snapshot, 0}
    BY <1>5 DEF Next, Step, Restoring, Callback, Server, Subscribe, RestoreFails, HandlerFails, AnswerLost,
                Crash, RestoreRead, RestoreChoose, FromSnapshot, RestoreHandle, Take, Handle,
                HandlerRefuses, Bury, Ack, Nak, DeliverNew, Redeliver, Push, AckWaitExpires,
                AckWaitMissed, Expire, RememberLost, restoration, vars
  <2>4. QED
    BY <2>1, <2>2, <2>3
<1>6. QED
  BY <1>1, <1>2, <1>3, <1>4, <1>5

LEMMA SnapshotBounds ==
  ASSUME DeliveryInv, CopyControl, CurrencyControl, [Next]_vars
  PROVE  unsaved' \subseteq {last'} /\ snapshot' <= last' /\ restored' <= last'
<1>1. /\ sub \in Subscriptions /\ sub' = sub /\ last \in Nat
      /\ snapshot \in {0} \cup Events /\ restored \in {0} \cup Events
      /\ unsaved \subseteq {last} /\ snapshot <= last /\ restored <= last
  BY DeliveryAssumption DEF DeliveryInv, TypeOK, ServerTypes, StateTypes, CurrencyControl, Next, vars
<1>2. snapshot \in Int /\ restored \in Int /\ \A e \in Events : e \in Int
  BY <1>1 DEF Events
<1>3. snapshot' \in Int /\ snapshot' <= last
  BY <1>1, <1>2, SnapshotCases, NewestFacts
<1>4. restored' \in Int /\ restored' <= last
  BY <1>1, <1>2, SnapshotCases
<1>5. (last' = last \/ last' = last + 1) /\ unsaved' \subseteq {last'}
  BY <1>1, SnapshotCases
<1>6. QED
  BY <1>1, <1>3, <1>4, <1>5

\* Only Handle and Bury bring a callback to its acknowledgement.
LEMMA AckingStep ==
  ASSUME DeliveryInv, CurrencyControl, [Next]_vars, callback'.phase = "acking"
  PROVE  callback'.event \in seen' \cup dlq'
<1>0. ClientTypes /\ Nothing.phase # "acking" /\ (callback.phase = "acking" => callback.event \in seen \cup dlq)
  BY DEF DeliveryInv, TypeOK, Nothing, CurrencyControl
<1>1. CASE Handle \/ Bury
  <2>1. callback \in Callbacks /\ Goto("acking")
    BY <1>0, <1>1, BusyCallback DEF Handle, Bury, Working
  <2>2. callback'.event = callback.event
    BY <2>1, GotoFacts DEF Phases
  <2>3. QED
    BY <1>1, <2>2 DEF Handle, Bury
<1>2. ASSUME HandlerFails \/ HandlerRefuses \/ RememberDelivered PROVE FALSE
  <2>1. callback \in Callbacks
    BY <1>0, <1>2, BusyCallback DEF HandlerFails, HandlerRefuses, RememberDelivered, Working
  <2>2. callback'.phase \in {AfterFailure, "gated"}
    BY <1>2, <2>1, GotoFacts, FailurePhase DEF HandlerFails, HandlerRefuses, RememberDelivered, Phases
  <2>3. QED
    BY <2>2, FailurePhase
<1>3. CASE ~Handle /\ ~Bury /\ ~HandlerFails /\ ~HandlerRefuses /\ ~RememberDelivered
  <2>1. ~Take /\ ~Ack /\ ~Nak /\ ~AnswerLost /\ ~Crash
    BY <1>0, TakeFacts DEF Ack, Nak, AnswerLost, Crash
  <2>2. UNCHANGED <<callback, dlq>> /\ seen \subseteq seen'
    BY <1>3, <2>1 DEF Next, Step, Restoring, Callback, Server, Publish, Subscribe, RestoreFails,
                      RestoreRead, RestoreSave, RestoreChoose, RestoreHandle, DeliverNew, Redeliver, Push,
                      AckWaitExpires, AckWaitMissed, Expire, Remember, RememberLost, client, vars
  <2>3. QED
    BY <1>0, <2>2
<1>4. QED
  BY <1>1, <1>2, <1>3

\* The restore task of a running process hands over, or is owed, what is current.
LEMMA RestoreStep ==
  ASSUME DeliveryInv, ConsumerScope, CopyControl, CurrencyControl, [Next]_vars, up, up'
  PROVE  RestoreKnows'
<1>0. /\ ServerTypes /\ ClientTypes /\ StateTypes /\ ClientControl /\ sub' = sub /\ sub \in Subscriptions
      /\ unsaved \subseteq {last} /\ snapshot <= last /\ restored <= last
  BY DEF DeliveryInv, TypeOK, ServerTypes, CurrencyControl, Next, vars
<1>a. /\ Analysis' = Analysis /\ Order' = Order /\ \A e \in Events : Order[e] \in Nat
      /\ \A e \in Events : e \in Int /\ e > 0
      /\ last \in Nat /\ snapshot \in {0} \cup Events /\ restored \in {0} \cup Events
  <2>1. \A e \in Events : Order[e] \in Nat /\ Order' = Order
    BY <1>0, NewestFacts
  <2>2. Analysis' = Analysis /\ Order' = Order
    BY <1>0 DEF Analysis, Order
  <2>3. \A e \in Events : e \in Int /\ e > 0
    BY DEF Events
  <2>4. QED
    BY <1>0, <2>1, <2>2, <2>3 DEF ServerTypes, StateTypes
<1>b. RestoreKnows
  BY DEF CurrencyControl, RestoreKnows
<1>c. \A d \in Events : Owed(d) => Owed(d)'
  BY OwedKept
<1>1. ASSUME UNCHANGED <<restore, restored, snapshot, last>>, unsaved' \subseteq unsaved, seen \subseteq seen'
      PROVE  RestoreKnows'
  <2>1. \A r : RestoredOr(r) => (snapshot' # 0 => \E d \in Events : (Owed(d)' \/ d = r) /\ Order'[d] >= Order'[snapshot'])
    BY <1>1, <1>a, <1>c DEF RestoredOr
  <2>2. unsaved \subseteq Events
    BY <1>0 DEF StateTypes
  <2>3. /\ Analysis /\ restore = "handling" => RestoredOr(restored)'
        /\ Analysis /\ restore = "done" => RestoredOr(0)'
    BY <1>1, <1>b, <2>1 DEF RestoreKnows, RestoredOr
  <2>4. QED
    BY <1>1, <1>a, <1>b, <1>c, <2>2, <2>3 DEF RestoreKnows
<1>2. CASE Publish
  <2>0. /\ UNCHANGED <<restore, restored, snapshot, seen>> /\ last' = last + 1 /\ unsaved' \subseteq {last + 1}
        /\ last + 1 \in Events
    BY <1>0, <1>2, DeliveryAssumption DEF Publish, restoration, ServerTypes, Events
  <2>n. PICK n \in Events : n = last + 1
    BY <2>0
  <2>1. /\ UNCHANGED <<restore, restored, snapshot, seen>> /\ last' = n /\ unsaved' \subseteq {n}
    BY <2>0, <2>n
  <2>2. Owed(n)'
    <3>1. server'[n] = "pending"
      BY <1>0, <1>2, <2>n DEF Publish, ServerTypes, ConsumerScope
    <3>2. QED
      BY <3>1 DEF Owed
  <2>3. \A e \in Events : e <= last' => e <= last \/ e = n
    BY <1>a, <2>1, <2>n
  <2>4. \A r : RestoredOr(r) => (snapshot' # 0 => \E d \in Events : (Owed(d)' \/ d = r) /\ Order'[d] >= Order'[snapshot'])
    BY <1>a, <1>c, <2>1 DEF RestoredOr
  <2>5. /\ Analysis /\ restore = "handling" => RestoredOr(restored)'
        /\ Analysis /\ restore = "done" => RestoredOr(0)'
    BY <1>b, <2>1, <2>4 DEF RestoreKnows, RestoredOr
  <2>6. restore = "saving" \/ (~Analysis /\ restore \in {"handling", "done"}) =>
          \A e \in Events : restored < e /\ e <= last' => Owed(e)'
    BY <1>b, <1>c, <2>2, <2>3 DEF RestoreKnows
  <2>7. \A e \in unsaved' : Owed(e)'
    BY <2>1, <2>2
  <2>8. QED
    BY <1>a, <1>b, <2>1, <2>5, <2>6, <2>7 DEF RestoreKnows
<1>3. ASSUME NEW e \in Events, snapshot' = NewestOf(snapshot, e), UNCHANGED <<restore, restored, last, seen>>,
             unsaved' \subseteq unsaved, e \in unsaved \/ Owed(e), e \in unsaved => unsaved' = {}
      PROVE  RestoreKnows'
  <2>1. Analysis /\ restore \in {"handling", "done"} =>
          Owed(e) \/ (snapshot # 0 /\ Order[e] <= Order[snapshot])
    BY <1>3, <1>b DEF RestoreKnows
  <2>2. Analysis /\ restore = "handling" => RestoredOr(restored)'
    <3> HAVE Analysis /\ restore = "handling"
    <3>1. RestoredOr(restored)
      BY <1>b DEF RestoreKnows
    <3>2. snapshot' # 0 => \E d \in Events : (Owed(d)' \/ d = restored) /\ Order'[d] >= Order'[snapshot']
      BY <1>0, <1>3, <1>c, <2>1, <3>1, SnapshotWrite
    <3>3. QED
      BY <1>3, <3>2 DEF RestoredOr
  <2>3. Analysis /\ restore = "done" => RestoredOr(0)'
    <3> HAVE Analysis /\ restore = "done"
    <3>1. RestoredOr(0)
      BY <1>b DEF RestoreKnows
    <3>2. snapshot' # 0 => \E d \in Events : (Owed(d)' \/ d = 0) /\ Order'[d] >= Order'[snapshot']
      BY <1>0, <1>3, <1>c, <2>1, <3>1, SnapshotWrite
    <3>3. QED
      BY <3>2 DEF RestoredOr
  <2>4. Analysis /\ restore \in {"choosing", "handling", "done"} =>
          \A x \in unsaved' : Owed(x)' \/ (snapshot' # 0 /\ Order'[x] <= Order'[snapshot'])
    <3> HAVE Analysis /\ restore \in {"choosing", "handling", "done"}
    <3> TAKE x \in unsaved'
    <3>1. x \in Events /\ (Owed(x) \/ (snapshot # 0 /\ Order[x] <= Order[snapshot]))
      BY <1>0, <1>3, <1>b DEF RestoreKnows, StateTypes
    <3>2. CASE Owed(x)
      BY <1>c, <3>1, <3>2
    <3>3. CASE snapshot # 0 /\ Order[x] <= Order[snapshot]
      <4>1. snapshot' \in Events /\ Order[snapshot'] >= Order[snapshot] /\ snapshot \in Events
        BY <1>0, <1>3, <1>a, <3>3, NewestFacts
      <4>2. Order[x] \in Nat /\ Order[snapshot] \in Nat /\ Order[snapshot'] \in Nat /\ snapshot' # 0
        BY <1>a, <3>1, <4>1
      <4>3. QED
        BY <1>a, <3>3, <4>1, <4>2
    <3>4. QED
      BY <3>1, <3>2, <3>3
  <2>5. QED
    BY <1>3, <1>a, <1>b, <1>c, <2>2, <2>3, <2>4 DEF RestoreKnows
<1>4. ASSUME NEW e \in Events, Remember(e) PROVE RestoreKnows'
  BY <1>0, <1>3, <1>4 DEF Remember, restoration
<1>5. CASE RememberDelivered
  <2>1. callback.event \in Events
    BY <1>0, <1>5, BusyCallback DEF RememberDelivered, Working
  <2>2. Owed(callback.event)
    BY <2>1 DEF CurrencyControl, InClient
  <2>3. UNCHANGED <<restore, restored, last, seen, unsaved>> /\ snapshot' = NewestOf(snapshot, callback.event)
    BY <1>5 DEF RememberDelivered, stream, restoration
  <2>4. CASE callback.event \notin unsaved
    BY <1>3, <2>1, <2>2, <2>3, <2>4
  <2>5. CASE callback.event \in unsaved
    <3>1. \A x \in unsaved' : Owed(x)'
      BY <1>0, <1>c, <2>1, <2>2, <2>3, <2>5
    <3>2. Analysis /\ restore = "handling" => RestoredOr(restored)'
      <4> HAVE Analysis /\ restore = "handling"
      <4>1. RestoredOr(restored)
        BY <1>b DEF RestoreKnows
      <4>2. snapshot' # 0 => \E d \in Events : (Owed(d)' \/ d = restored) /\ Order'[d] >= Order'[snapshot']
        BY <1>0, <1>c, <2>1, <2>2, <2>3, <4>1, SnapshotWrite
      <4>3. QED
        BY <2>3, <4>2 DEF RestoredOr
    <3>3. Analysis /\ restore = "done" => RestoredOr(0)'
      <4> HAVE Analysis /\ restore = "done"
      <4>1. RestoredOr(0)
        BY <1>b DEF RestoreKnows
      <4>2. snapshot' # 0 => \E d \in Events : (Owed(d)' \/ d = 0) /\ Order'[d] >= Order'[snapshot']
        BY <1>0, <1>c, <2>1, <2>2, <2>3, <4>1, SnapshotWrite
      <4>3. QED
        BY <4>2 DEF RestoredOr
    <3>4. QED
      BY <1>a, <1>b, <1>c, <2>3, <3>1, <3>2, <3>3 DEF RestoreKnows
  <2>6. QED
    BY <2>4, <2>5
<1>6. CASE RestoreRead
  <2>1. restored' = last /\ UNCHANGED <<last, unsaved, snapshot, seen>>
    BY <1>6 DEF RestoreRead, stream
  <2>2. restore' \in {"done", "failed", "saving"} /\ (restore' = "done" => last = 0)
    BY <1>6 DEF RestoreRead
  <2>3. \A e \in Events : ~(restored' < e /\ e <= last')
    BY <1>a, <2>1
  <2>4. restore' = "done" => unsaved' = {} /\ snapshot' = 0 /\ restored' = 0
    <3> HAVE restore' = "done"
    <3>1. last = 0
      BY <2>2
    <3>2. 0 \notin Events
      BY <1>a
    <3>3. unsaved = {}
      BY <1>0, <3>1, <3>2 DEF StateTypes
    <3>4. snapshot = 0
      BY <1>0, <1>a, <3>1
    <3>5. QED
      BY <2>1, <3>1, <3>3, <3>4
  <2>5. QED
    BY <2>1, <2>2, <2>3, <2>4 DEF RestoreKnows, RestoredOr
<1>7. CASE RestoreSave
  <2>1. /\ restore = "saving" /\ restored \in Events /\ UNCHANGED <<last, unsaved, restored, seen>>
        /\ snapshot' = NewestOf(snapshot, restored)
        /\ restore' = IF Analysis THEN "choosing" ELSE "handling"
    BY <1>0, <1>7 DEF RestoreSave, stream, ClientControl
  <2>2. \A e \in Events : restored < e /\ e <= last => Owed(e)'
    BY <1>b, <1>c, <2>1 DEF RestoreKnows
  <2>3. snapshot' # 0 /\ Order'[restored] <= Order'[snapshot']
    <3>1. Order[snapshot'] >= Order[restored] /\ snapshot' \in Events
      BY <1>0, <1>a, <2>1, NewestFacts
    <3>2. Order[snapshot'] \in Nat /\ Order[restored] \in Nat /\ snapshot' # 0
      BY <1>a, <2>1, <3>1
    <3>3. QED
      BY <1>a, <3>1, <3>2
  <2>4. \A e \in unsaved' : Owed(e)' \/ (snapshot' # 0 /\ Order'[e] <= Order'[snapshot'])
    <3> TAKE e \in unsaved'
    <3>1. e = last /\ e \in Events
      BY <1>0, <2>1 DEF StateTypes
    <3>2. e = restored \/ restored < e
      BY <1>0, <1>a, <2>1, <3>1
    <3>3. QED
      BY <1>a, <2>2, <2>3, <3>1, <3>2
  <2>5. QED
    BY <1>a, <2>1, <2>2, <2>4 DEF RestoreKnows
<1>8. CASE RestoreChoose
  <2>1. /\ restore = "choosing" /\ restore' = "handling" /\ Analysis /\ restored' = snapshot
        /\ UNCHANGED <<last, unsaved, snapshot, seen>> /\ snapshot \in Events
    BY <1>0, <1>8, <1>b DEF RestoreChoose, FromSnapshot, stream, RestoreKnows, ClientControl
  <2>2. RestoredOr(restored)'
    <3>1. Order'[snapshot'] >= Order'[snapshot']
      BY <1>a, <2>1
    <3>2. QED
      BY <2>1, <3>1 DEF RestoredOr
  <2>3. unsaved \subseteq Events
    BY <1>0 DEF StateTypes
  <2>4. \A e \in unsaved' : Owed(e)' \/ (snapshot' # 0 /\ Order'[e] <= Order'[snapshot'])
    BY <1>a, <1>b, <1>c, <2>1, <2>3 DEF RestoreKnows
  <2>5. QED
    BY <1>a, <2>1, <2>2, <2>4 DEF RestoreKnows
<1>9. CASE RestoreHandle
  <2>1. /\ restore = "handling" /\ UNCHANGED <<last, unsaved, snapshot, restored>>
        /\ \/ restore' = "failed"
           \/ restore' = "done" /\ seen' = seen \cup {restored}
    BY <1>9 DEF RestoreHandle, stream
  <2>2. CASE restore' = "failed"
    BY <2>2 DEF RestoreKnows
  <2>3. CASE restore' = "done" /\ restored \in seen'
    <3>1. Owed(restored)'
      BY <2>1, <2>3 DEF Owed, NotLost
    <3>2. Analysis => RestoredOr(0)'
      <4> HAVE Analysis
      <4>1. RestoredOr(restored)
        BY <1>b, <2>1 DEF RestoreKnows
      <4>2. snapshot' # 0 => \E d \in Events : Owed(d)' /\ Order'[d] >= Order'[snapshot']
        BY <1>a, <1>c, <2>1, <3>1, <4>1 DEF RestoredOr
      <4>3. QED
        BY <4>2 DEF RestoredOr
    <3>3. unsaved \subseteq Events
      BY <1>0 DEF StateTypes
    <3>4. ~Analysis => \A e \in Events : restored < e /\ e <= last => Owed(e)'
      BY <1>b, <1>c, <2>1 DEF RestoreKnows
    <3>5. Analysis => \A e \in unsaved' : Owed(e)' \/ (snapshot' # 0 /\ Order'[e] <= Order'[snapshot'])
      BY <1>a, <1>b, <1>c, <2>1, <3>3 DEF RestoreKnows
    <3>6. QED
      BY <1>a, <2>1, <2>3, <3>2, <3>4, <3>5 DEF RestoreKnows
  <2>4. QED
    BY <2>1, <2>2, <2>3
<1>10. CASE RestoreFails
  BY <1>10 DEF RestoreFails, RestoreKnows
<1>11. CASE \/ ~ (\/ Publish \/ RememberDelivered \/ Restoring \/ RestoreFails
                  \/ \E e \in Events : Remember(e))
  <2>1. ~Crash /\ ~Subscribe
    BY DEF Crash, Subscribe
  <2>2. UNCHANGED <<restore, restored, snapshot, last>>
    BY <1>11, <2>1 DEF Next, Step, Restoring, Callback, Server, HandlerFails, AnswerLost, Take, Handle,
                       HandlerRefuses, Bury, Ack, Nak, DeliverNew, Redeliver, Push, AckWaitExpires,
                       AckWaitMissed, Expire, RememberLost, stream, restoration, vars
  <2>3. unsaved' \subseteq unsaved /\ seen \subseteq seen'
    BY <1>11, <2>1 DEF Next, Step, Restoring, Callback, Server, HandlerFails, AnswerLost, Take, Handle,
                       HandlerRefuses, Bury, Ack, Nak, DeliverNew, Redeliver, Push, AckWaitExpires,
                       AckWaitMissed, Expire, RememberLost, stream, restoration, vars
  <2>4. QED
    BY <1>1, <2>2, <2>3
<1>12. QED
  BY <1>2, <1>4, <1>5, <1>6, <1>7, <1>8, <1>9, <1>10, <1>11 DEF Restoring

LEMMA CurrencyStep ==
  DeliveryInv /\ ConsumerScope /\ CopyControl /\ CurrencyControl /\ [Next]_vars => CurrencyControl'
<1> SUFFICES ASSUME DeliveryInv, ConsumerScope, CopyControl, CurrencyControl, [Next]_vars
             PROVE  CurrencyControl'
  OBVIOUS
<1>0. ConsumerScope' /\ ServerTypes /\ ServerTypes'
  BY ScopeStep, ServerTypesStep DEF DeliveryInv, TypeOK
<1>1. unsaved' \subseteq {last'} /\ snapshot' <= last' /\ restored' <= last'
  BY SnapshotBounds
<1>2. callback'.phase = "acking" => callback'.event \in seen' \cup dlq'
  BY AckingStep
<1>3. (\A e \in Events : InClient(e)' => Owed(e)') /\ RestoreKnows'
  <2>0. \A e \in Events : e # 0
    BY DEF Events
  <2>1. CASE up /\ up'
    <3>1. \A e \in Events : InClient(e)' => Owed(e)'
      <4> TAKE e \in Events
      <4> HAVE InClient(e)'
      <4>1. InClient(e) => Owed(e)'
        BY <2>1, OwedKept DEF CurrencyControl
      <4>2. server'[e] = "outstanding" => Owed(e)'
        BY DEF Owed
      <4>3. QED
        BY <4>1, <4>2, ClientKept
    <3>2. QED
      BY <2>1, <3>1, RestoreStep
  <2>2. CASE ~up'
    <3>1. Len(inbox') = 0 /\ callback' = Nothing /\ restore' = "none"
      BY <1>0, <2>2 DEF ConsumerScope
    <3>2. QED
      BY <2>0, <3>1 DEF InClient, RestoreKnows, Nothing
  <2>3. CASE ~up /\ up'
    <3>1. Subscribe
      BY <2>3, ServerCases DEF Publish, Crash, Ack, Nak, DeliverNew, Redeliver, Push, Expire
    <3>2. Len(inbox') = 0 /\ callback' = Nothing
      BY <2>3, <3>1 DEF ConsumerScope, Subscribe, client
    <3>3. restore' \in {"none", "reading"}
      BY <3>1 DEF Subscribe
    <3>4. QED
      BY <2>0, <3>2, <3>3 DEF InClient, RestoreKnows, Nothing
  <2>4. QED
    BY <2>1, <2>2, <2>3
<1>4. QED
  BY <1>1, <1>2, <1>3 DEF CurrencyControl, RestoreKnows

-----------------------------------------------------------------------------
(* The subscriber's theorems. *)

LEMMA SubscriberInit == Init => SubscriberInv /\ RepeatsExplained
<1> SUFFICES ASSUME Init PROVE SubscriberInv /\ RepeatsExplained
  OBVIOUS
<1>1. DeliveryInv
  BY InitInv
<1>2. /\ Len(inbox) = 0 /\ callback = Nothing /\ Nothing.event = 0 /\ Nothing.phase = "idle"
      /\ \A e \in Events : e # 0
  BY DEF Init, Nothing, Events
<1>3. \A e \in Events : ~InClient(e)
  BY <1>2 DEF InClient
<1>4. ConsumerScope
  BY DEF Init, ConsumerScope
<1>5. CopyControl
  BY <1>2, <1>3 DEF Init, CopyControl, SoleCopy
<1>6. CurrencyControl
  BY <1>2, <1>3 DEF Init, CurrencyControl
<1>7. OneInFlightInOrder /\ RepeatsExplained
  BY DEF Init, OneInFlightInOrder, RepeatsExplained
<1>8. QED
  BY <1>1, <1>4, <1>5, <1>6, <1>7 DEF SubscriberInv

\* Whatever is published around it, lost, repeated or interrupted, the subscriber's
\* view of its consumer, its messages and its current state stays consistent.
THEOREM SubscriberInvariant == Spec => [](SubscriberInv /\ RepeatsExplained)
<1>1. SubscriberInv /\ RepeatsExplained /\ [Next]_vars => (SubscriberInv /\ RepeatsExplained)'
  <2>1. DeliveryInv /\ [Next]_vars => DeliveryInv'
    BY ServerTypesStep, ConsumerStep, ClientTypesStep, ClientStep, StateTypesStep, SettledStep
    DEF DeliveryInv, TypeOK
  <2>2. QED
    BY <2>1, ScopeStep, OrderStep, CopyStep, CurrencyStep, RepeatsStep DEF SubscriberInv
<1>2. QED
  BY <1>1, SubscriberInit, PTL DEF Spec

\* The handler is called again for an event of the live consumer only after a late, lost
\* or interrupted acknowledgement, for every subscription that keeps its consumer or
\* does not ask for the whole history.
THEOREM DeliveryRepeatsExplained == Spec => []RepeatsExplained
<1>1. SubscriberInv /\ RepeatsExplained => RepeatsExplained
  OBVIOUS
<1>2. QED
  BY <1>1, SubscriberInvariant, PTL

\* A subscriber that wait_until_caught_up lets go on knows what is current, however
\* publications, redeliveries and snapshot writes interleave with its restoration.
THEOREM DeliveryCaughtUpIsCurrent == Spec => []CaughtUpIsCurrent
<1>1. SubscriberInv => CaughtUpIsCurrent
  <2> SUFFICES ASSUME SubscriberInv, ReplayLatest, CaughtUp
               PROVE  IF Analysis
                      THEN snapshot # 0 => \E d \in Events : NotLost(d) /\ Order[d] >= Order[snapshot]
                      ELSE last # 0 => NotLost(last)
    BY DEF CaughtUpIsCurrent
  <2>1. /\ restore = "done" /\ \A e \in Events : Owed(e) => NotLost(e)
    BY DEF CaughtUp, Owed
  <2>2. CASE Analysis
    <3>1. RestoredOr(0)
      BY <2>1, <2>2 DEF SubscriberInv, CurrencyControl
    <3>2. \A d \in Events : d # 0
      BY DEF Events
    <3>3. QED
      BY <2>1, <2>2, <3>1, <3>2 DEF RestoredOr
  <2>3. CASE ~Analysis
    <3> SUFFICES ASSUME last # 0 PROVE NotLost(last)
      BY <2>3
    <3>1. last \in Events /\ last \in Int /\ restored \in Int /\ restored <= last
      BY DeliveryAssumption DEF SubscriberInv, DeliveryInv, TypeOK, ServerTypes, StateTypes, Events, CurrencyControl
    <3>2. CASE restored < last
      <4>1. last <= last
        BY <3>1
      <4>2. Owed(last)
        BY <2>1, <2>3, <3>1, <3>2, <4>1 DEF SubscriberInv, CurrencyControl
      <4>3. QED
        BY <2>1, <3>1, <4>2
    <3>3. CASE restored = last
      <4>1. restored \in seen
        BY <2>1, <2>3, <3>3 DEF SubscriberInv, CurrencyControl
      <4>2. QED
        BY <3>3, <4>1 DEF NotLost
    <3>4. QED
      BY <3>1, <3>2, <3>3
  <2>4. QED
    BY <2>2, <2>3
<1>2. QED
  BY <1>1, SubscriberInvariant, PTL

\* A subscriber of the whole history that has caught up has settled all of it.
THEOREM DeliveryCaughtUpIsComplete == Spec => []CaughtUpIsComplete
<1>1. SubscriberInv => CaughtUpIsComplete
  <2> SUFFICES ASSUME SubscriberInv, ReplayAll, CaughtUp, NEW e \in 1..last
               PROVE  e \in handled \cup dlq \/ server[e] = "given_up"
    BY DEF CaughtUpIsComplete
  <2>1. e \in Events
    BY DeliveryAssumption DEF SubscriberInv, DeliveryInv, TypeOK, ServerTypes, Events
  <2>2. server[e] # "none"
    BY DEF SubscriberInv, ConsumerScope, CaughtUp
  <2>3. server[e] \in {"acked", "given_up"}
    BY <2>1, <2>2 DEF SubscriberInv, DeliveryInv, TypeOK, ServerTypes, CaughtUp
  <2>4. QED
    BY <2>1, <2>3 DEF SubscriberInv, DeliveryInv, AckedIsSettled
<1>2. QED
  BY <1>1, SubscriberInvariant, PTL

\* max_ack_pending = 1 delivers in order, with redeliveries, crashes and late answers.
THEOREM DeliveryOneInFlightInOrder == Spec => []OneInFlightInOrder
<1>1. SubscriberInv => OneInFlightInOrder
  BY DEF SubscriberInv
<1>2. QED
  BY <1>1, SubscriberInvariant, PTL
=============================================================================
