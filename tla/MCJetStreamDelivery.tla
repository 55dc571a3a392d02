-------------------------- MODULE MCJetStreamDelivery --------------------------
(* Instances of the delivery model for TLC. *)
EXTENDS JetStreamDelivery, TLC

Rising == [e \in Events |-> e]
\* The second event is the newest evaluation: a bootstrap repeats an older one.
Bootstrap == [e \in Events |-> IF e = 2 THEN 3 ELSE 1]

\* A durable state subscriber of analysis results; the first message is malformed.
StateSubscriber ==
  [order |-> Bootstrap, invalid |-> {1}, poison |-> {}, analysis |-> TRUE,
   replay |-> "latest", durable |-> TRUE, maxAckPending |-> 2]

\* An ephemeral one of current events, one in flight; the second event is refused.
OrderedSubscriber ==
  [order |-> Rising, invalid |-> {}, poison |-> {2}, analysis |-> FALSE,
   replay |-> "latest", durable |-> FALSE, maxAckPending |-> 1]

\* The audit's: durable, over the whole history, with both kinds of bad message.
HistorySubscriber ==
  [order |-> Rising, invalid |-> {3}, poison |-> {2}, analysis |-> FALSE,
   replay |-> "all", durable |-> TRUE, maxAckPending |-> 2]

\* A durable subscriber of new events, the first of which is refused.
LiveSubscriber ==
  [order |-> Rising, invalid |-> {}, poison |-> {1}, analysis |-> FALSE,
   replay |-> "live", durable |-> TRUE, maxAckPending |-> 2]

\* A state subscriber of valid analysis results.
RestoredSubscriber == [StateSubscriber EXCEPT !.invalid = {}]

AllSubscribers == {StateSubscriber, OrderedSubscriber, HistorySubscriber}
LiveOne == {LiveSubscriber}
RestoredOne == {RestoredSubscriber}
=============================================================================
