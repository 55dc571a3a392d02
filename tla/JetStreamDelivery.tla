--------------------------- MODULE JetStreamDelivery ---------------------------
(***************************************************************************)
(* One subscription of NatsJetStreamEventBus: a JetStream push consumer    *)
(* with explicit acknowledgement, the callback that hands its messages to  *)
(* the engine's handler one after the other, the dead-letter subject, and  *)
(* the restoration of current state from the last message and the Redis    *)
(* snapshot of the subject.                                                *)
(*                                                                         *)
(* Events are the stream sequence numbers of one exact subject.  Delays    *)
(* (redelivery, cooldown) are not timed: what is due may happen.           *)
(***************************************************************************)
EXTENDS Integers, Sequences, FiniteSets

CONSTANTS
  Count,         \* events published to the subject
  Subscriptions, \* the kinds of subject and subscription considered
  MaxDeliver,    \* max_deliver
  MaxFaults      \* bound on failures and late acknowledgements

Events == 1..Count

ASSUME DeliveryAssumption ==
  /\ Count \in Nat
  /\ MaxDeliver \in Nat \ {0} /\ MaxFaults \in Nat
  /\ \A s \in Subscriptions :
       s \in [order : [Events -> Nat], invalid : SUBSET Events, poison : SUBSET Events,
              analysis : BOOLEAN, replay : {"live", "latest", "all"},
              durable : BOOLEAN, maxAckPending : Nat \ {0}]

VARIABLES
  sub,        \* the subject's traffic and the arguments of subscribe; never changes
  last,       \* events in the stream: 1..last
  unsaved,    \* the published event whose publisher has not written the snapshot
  snapshot,   \* the subject's event in Redis, 0 when there is none
  consumer,   \* the JetStream consumer exists
  server,     \* the consumer's view of each event
  delivered,  \* num_delivered of each event
  up,         \* the subscribed process runs
  inbox,      \* messages pushed to the client and not taken yet
  callback,   \* the message in _deliver, and how far it is
  restore,    \* the restore task of this process
  restored,   \* the event the restore task works on
  seen,       \* events the handler of this process has taken in
  handled,    \* history: events some process handled from the live consumer
  repeated,   \* history: those handled more than once
  excused,    \* history: those with a late, lost or interrupted acknowledgement
  dlq,        \* events preserved on the dead-letter subject
  faults

vars == <<sub, last, unsaved, snapshot, consumer, server, delivered, up, inbox, callback, restore,
          restored, seen, handled, repeated, excused, dlq, faults>>
stream == <<last, unsaved>>
client == <<inbox, callback>>
restoration == <<restore, restored>>
history == <<handled, repeated, excused>>

Order == sub.order          \* event_order: the evaluation time of an analysis result
Invalid == sub.invalid      \* events whose bytes are not a valid envelope
Poison == sub.poison        \* valid events the handler always refuses
Analysis == sub.analysis    \* the subject carries analysis.result.produced
ReplayLatest == sub.replay = "latest" \* replay_latest_per_subject
ReplayAll == sub.replay = "all"       \* replay_all
Durable == sub.durable      \* the subscription has a durable name
MaxAckPending == sub.maxAckPending    \* max_ack_pending

Nothing == [event |-> 0, attempt |-> 0, phase |-> "idle"]
Working(phase) == callback.phase = phase
Goto(phase) == callback' = [callback EXCEPT !.phase = phase]

\* The gate restoring.wait(): it opens however restoration ends.
GateOnSuccess == restore \in {"none", "done"}
GateOpen == restore \in {"none", "done", "failed"}

Init ==
  /\ sub \in Subscriptions
  /\ last = 0
  /\ unsaved = {}
  /\ snapshot = 0
  /\ consumer = FALSE
  /\ server = [e \in Events |-> "none"]
  /\ delivered = [e \in Events |-> 0]
  /\ up = FALSE
  /\ inbox = <<>>
  /\ callback = Nothing
  /\ restore = "none"
  /\ restored = 0
  /\ seen = {}
  /\ handled = {}
  /\ repeated = {}
  /\ excused = {}
  /\ dlq = {}
  /\ faults = 0

Fault == faults < MaxFaults /\ faults' = faults + 1

-----------------------------------------------------------------------------
(* Publishers and the snapshot in Redis. *)

\* RedisCurrentEvents.put: the newest evaluation wins, a tie goes to the later put.
NewestOf(s, e) == IF s = 0 \/ Order[e] >= Order[s] THEN e ELSE s

\* publish: the stream has the event and the consumer is to deliver it.  A subject
\* has one publisher, which awaits each publish.
Publish ==
  /\ last < Count
  /\ unsaved = {}
  /\ last' = last + 1
  /\ server' = [server EXCEPT ![last + 1] = IF consumer THEN "pending" ELSE "none"]
  /\ unsaved' = unsaved \cup ({last + 1} \ Invalid)
  /\ UNCHANGED <<snapshot, consumer, delivered, up, client, restoration, seen, history, dlq, faults>>

\* publish, after the stream answered: _remember.
Remember(e) ==
  /\ e \in unsaved
  /\ snapshot' = NewestOf(snapshot, e)
  /\ unsaved' = unsaved \ {e}
  /\ UNCHANGED <<last, consumer, server, delivered, up, client, restoration, seen, history, dlq, faults>>

\* The publisher stops, or Redis fails, between the two.
RememberLost(e) ==
  /\ e \in unsaved
  /\ Fault
  /\ unsaved' = unsaved \ {e}
  /\ UNCHANGED <<last, snapshot, consumer, server, delivered, up, client, restoration, seen, history, dlq>>

-----------------------------------------------------------------------------
(* subscribe and the restore task. *)

\* deliver_policy of a new consumer: with ALL it starts at the first message, with
\* NEW after the last.
LiveOnly(e) == "none"
StartsAs(e) == IF ReplayAll /\ e <= last THEN "pending" ELSE "none"

\* The consumer exists before anything is read back; a durable one resumes.
Subscribe ==
  /\ ~up
  /\ up' = TRUE
  /\ consumer' = TRUE
  /\ server' = IF consumer THEN server ELSE [e \in Events |-> StartsAs(e)]
  /\ restore' = IF ReplayLatest THEN "reading" ELSE "none"
  /\ UNCHANGED <<stream, snapshot, delivered, client, restored, seen, history, dlq, faults>>

\* get_last; bytes that do not decode fail the restoration.
RestoreRead ==
  /\ restore = "reading"
  /\ restored' = last
  /\ restore' = CASE last = 0 -> "done"
                  [] last \in Invalid -> "failed"
                  [] OTHER -> "saving"
  /\ UNCHANGED <<stream, snapshot, consumer, server, delivered, up, client, seen, history, dlq, faults>>

\* _remember of the event read: repairs a write its publisher never made.
RestoreSave ==
  /\ restore = "saving"
  /\ snapshot' = NewestOf(snapshot, restored)
  /\ restore' = IF Analysis THEN "choosing" ELSE "handling"
  /\ UNCHANGED <<stream, consumer, server, delivered, up, client, restored, seen, history, dlq, faults>>

\* An analysis is restored from the snapshot, which may be newer than the last.
LastPublished(s) == restored
FromSnapshot(s) == s
RestoreChoose ==
  /\ restore = "choosing"
  /\ restored' = FromSnapshot(snapshot)
  /\ restore' = "handling"
  /\ UNCHANGED <<stream, snapshot, consumer, server, delivered, up, client, seen, history, dlq, faults>>

RestoreHandle ==
  /\ restore = "handling"
  /\ IF restored \in Poison
     THEN restore' = "failed" /\ UNCHANGED seen
     ELSE restore' = "done" /\ seen' = seen \cup {restored}
  /\ UNCHANGED <<stream, snapshot, consumer, server, delivered, up, client, restored, history, dlq, faults>>

\* NATS, Redis or the handler fails the restoration, or the task is cancelled.
RestoreFails ==
  /\ restore \in {"reading", "saving", "choosing", "handling"}
  /\ Fault
  /\ restore' = "failed"
  /\ UNCHANGED <<stream, snapshot, consumer, server, delivered, up, client, restored, seen, history, dlq>>

-----------------------------------------------------------------------------
(* The JetStream server's side of the consumer. *)

AckPending == {e \in Events : server[e] \in {"outstanding", "waiting"}}

Push(e) ==
  /\ up
  /\ server' = [server EXCEPT ![e] = "outstanding"]
  /\ delivered' = [delivered EXCEPT ![e] = @ + 1]
  /\ inbox' = Append(inbox, [event |-> e, attempt |-> delivered[e] + 1])
  /\ UNCHANGED <<stream, snapshot, consumer, up, callback, restoration, seen, history, dlq, faults>>

\* The next event, in stream order, while the client may take more.
InFlightOver(limit) == Cardinality(AckPending) <= limit
InFlight(limit) == Cardinality(AckPending) < limit
DeliverNew(e) ==
  /\ server[e] = "pending"
  /\ \A d \in Events : server[d] = "pending" => d >= e
  /\ InFlight(MaxAckPending)
  /\ Push(e)

Redeliver(e) == server[e] = "waiting" /\ Push(e)

\* What the server does with an event that was not acknowledged.
AlwaysAgain(e) == "waiting"
Unacked(e) == IF delivered[e] < MaxDeliver THEN "waiting" ELSE "given_up"

Unattended(e) ==
  /\ \A i \in 1..Len(inbox) : inbox[i].event # e
  /\ callback.event # e

\* in_progress renews the message that is in the handler, and only that one.
Renewed(e) == callback.event = e /\ callback.phase \in {"remembering", "gated"}

Expire(e) ==
  /\ server[e] = "outstanding"
  /\ server' = [server EXCEPT ![e] = Unacked(e)]
  /\ UNCHANGED <<stream, snapshot, consumer, delivered, up, client, restoration, seen, handled, repeated, dlq>>

\* ack_wait runs out for a message the client no longer has.
AckWaitExpires(e) == Unattended(e) /\ Expire(e) /\ UNCHANGED <<excused, faults>>

\* ack_wait runs out while the message waits in the client or for its answer.
AckWaitMissed(e) ==
  /\ ~Unattended(e) /\ ~Renewed(e)
  /\ Fault
  /\ excused' = excused \cup {e}
  /\ Expire(e)

-----------------------------------------------------------------------------
(* _deliver: one message at a time. *)

Take ==
  /\ up /\ Working("idle")
  /\ inbox # <<>>
  /\ LET message == Head(inbox)
     IN  callback' = [event |-> message.event, attempt |-> message.attempt,
                      phase |-> IF message.event \in Invalid THEN "burying" ELSE "remembering"]
  /\ inbox' = Tail(inbox)
  /\ UNCHANGED <<stream, snapshot, consumer, server, delivered, up, restoration, seen, history, dlq, faults>>

\* handle(): first the snapshot, then the gate, then the handler.
RememberDelivered ==
  /\ Working("remembering")
  /\ snapshot' = NewestOf(snapshot, callback.event)
  /\ Goto("gated")
  /\ UNCHANGED <<stream, consumer, server, delivered, up, inbox, restoration, seen, history, dlq, faults>>

Handle ==
  /\ Working("gated") /\ GateOpen
  /\ callback.event \notin Poison
  /\ seen' = seen \cup {callback.event}
  /\ handled' = handled \cup {callback.event}
  /\ repeated' = repeated \cup (handled \cap {callback.event})
  /\ Goto("acking")
  /\ UNCHANGED <<stream, snapshot, consumer, server, delivered, up, inbox, restoration, excused, dlq, faults>>

\* The last permitted delivery is dead-lettered, an earlier one asked for again.
AfterFailure == IF callback.attempt >= MaxDeliver THEN "burying" ELSE "naking"

HandlerRefuses ==
  /\ Working("gated") /\ GateOpen
  /\ callback.event \in Poison
  /\ Goto(AfterFailure)
  /\ UNCHANGED <<stream, snapshot, consumer, server, delivered, up, inbox, restoration, seen, history, dlq, faults>>

\* Redis, the handler or an acknowledgement renewal fails, the task is cancelled.
HandlerFails ==
  /\ callback.phase \in {"remembering", "gated"}
  /\ Fault
  /\ Goto(AfterFailure)
  /\ UNCHANGED <<stream, snapshot, consumer, server, delivered, up, inbox, restoration, seen, history, dlq>>

\* _dead_letter, then the acknowledgement.
BuryForgotten ==
  /\ Working("burying")
  /\ Goto("acking")
  /\ UNCHANGED <<stream, snapshot, consumer, server, delivered, up, inbox, restoration, seen, history, dlq, faults>>
Bury ==
  /\ Working("burying")
  /\ dlq' = dlq \cup {callback.event}
  /\ Goto("acking")
  /\ UNCHANGED <<stream, snapshot, consumer, server, delivered, up, inbox, restoration, seen, history, faults>>

Settle(status) ==
  LET e == callback.event
  IN  server' = [server EXCEPT ![e] = IF e \in AckPending THEN status ELSE @]

AckForgotten ==
  /\ Working("acking")
  /\ callback' = Nothing
  /\ UNCHANGED <<stream, snapshot, consumer, server, delivered, up, inbox, restoration, seen, history, dlq, faults>>
Ack ==
  /\ Working("acking")
  /\ Settle("acked")
  /\ callback' = Nothing
  /\ UNCHANGED <<stream, snapshot, consumer, delivered, up, inbox, restoration, seen, history, dlq, faults>>

Nak ==
  /\ Working("naking")
  /\ Settle(Unacked(callback.event))
  /\ callback' = Nothing
  /\ UNCHANGED <<stream, snapshot, consumer, delivered, up, inbox, restoration, seen, history, dlq, faults>>

\* The dead-letter publish, the ack or the nak fails: the exception ends the
\* callback and the message is left to its ack_wait.
AnswerLost ==
  /\ callback.phase \in {"burying", "acking", "naking"}
  /\ Fault
  /\ callback' = Nothing
  /\ excused' = excused \cup {callback.event}
  /\ UNCHANGED <<stream, snapshot, consumer, server, delivered, up, inbox, restoration, seen, handled, repeated, dlq>>

\* The process stops; an ephemeral consumer goes with it.
Crash ==
  /\ up
  /\ Fault
  /\ up' = FALSE
  /\ inbox' = <<>>
  /\ callback' = Nothing
  /\ restore' = "none"
  /\ restored' = 0
  /\ seen' = {}
  /\ excused' = excused \cup AckPending
  /\ consumer' = Durable
  /\ server' = IF Durable THEN server ELSE [e \in Events |-> "none"]
  /\ delivered' = IF Durable THEN delivered ELSE [e \in Events |-> 0]
  /\ UNCHANGED <<stream, snapshot, handled, repeated, dlq>>

-----------------------------------------------------------------------------
Server == \E e \in Events : DeliverNew(e) \/ Redeliver(e) \/ AckWaitExpires(e)
Restoring == RestoreRead \/ RestoreSave \/ RestoreChoose \/ RestoreHandle
Callback == Take \/ RememberDelivered \/ Handle \/ HandlerRefuses \/ Bury \/ Ack \/ Nak

Step ==
  \/ Publish \/ Subscribe \/ RestoreFails \/ HandlerFails \/ AnswerLost \/ Crash
  \/ Restoring \/ Callback \/ Server
  \/ \E e \in Events : Remember(e) \/ RememberLost(e) \/ AckWaitMissed(e)

Next == Step /\ UNCHANGED sub

\* The server, the restore task and the callback of a running process make
\* progress: handlers and external calls end.  Nothing restarts a process.
Fairness ==
  /\ WF_vars(Server /\ UNCHANGED sub)
  /\ WF_vars(Restoring /\ UNCHANGED sub)
  /\ WF_vars(Callback /\ UNCHANGED sub)

Spec == Init /\ [][Next]_vars
FairSpec == Spec /\ Fairness

-----------------------------------------------------------------------------
Deliveries == [event : Events, attempt : 1..MaxDeliver]
Callbacks == [event : Events, attempt : 1..MaxDeliver,
              phase : {"remembering", "gated", "burying", "naking", "acking"}]

ServerTypes ==
  /\ sub \in Subscriptions
  /\ last \in 0..Count
  /\ consumer \in BOOLEAN /\ up \in BOOLEAN
  /\ server \in [Events -> {"none", "pending", "outstanding", "waiting", "acked", "given_up"}]
  /\ delivered \in [Events -> 0..MaxDeliver]
  /\ faults \in 0..MaxFaults

ClientTypes ==
  /\ inbox \in Seq(Deliveries)
  /\ callback = Nothing \/ callback \in Callbacks

StateTypes ==
  /\ unsaved \subseteq Events \ Invalid
  /\ snapshot \in {0} \cup (Events \ Invalid)
  /\ restore \in {"none", "reading", "saving", "choosing", "handling", "done", "failed"}
  /\ restored \in {0} \cup Events
  /\ seen \subseteq Events \ Poison /\ handled \subseteq Events \ Poison
  /\ dlq \subseteq Events /\ repeated \subseteq handled /\ excused \subseteq Events

\* Every variable keeps its type, and no event is delivered more than MaxDeliver
\* times.
TypeOK == ServerTypes /\ ClientTypes /\ StateTypes

\* An event the consumer will not deliver again because it was acknowledged has
\* been through the handler or is preserved on the dead-letter subject.
AckedIsSettled == \A e \in Events : server[e] = "acked" => e \in handled \cup dlq

\* Only an acknowledgement that is late, lost or cut off by a crash makes the live
\* consumer hand the same event to the handler again, unless a restarted process asks
\* a consumer of its own for the whole history.
RepeatsExplained == (ReplayAll => Durable) => repeated \subseteq excused

\* What wait_until_caught_up tests.
CaughtUp ==
  /\ up
  /\ restore = IF ReplayLatest THEN "done" ELSE "none"
  /\ \A e \in Events : server[e] \notin {"pending", "outstanding", "waiting"}

NotLost(e) == e \in seen \cup dlq \/ server[e] = "given_up"

\* A subscriber that is told it has caught up knows an analysis at least as new as
\* the shared snapshot, whatever was published around its restoration; on other
\* subjects it knows the last publication.
CaughtUpIsCurrent ==
  ReplayLatest /\ CaughtUp =>
    IF Analysis
    THEN snapshot # 0 => \E d \in Events : NotLost(d) /\ Order[d] >= Order[snapshot]
    ELSE last # 0 => NotLost(last)

\* A subscriber of the whole history that is told it has caught up has settled every
\* event of the stream, those published before it first subscribed included.
CaughtUpIsComplete ==
  ReplayAll /\ CaughtUp =>
    \A e \in 1..last : e \in handled \cup dlq \/ server[e] = "given_up"

\* With one message in flight, an event is handed over for the first time only
\* after every earlier event of the consumer is settled.
OneInFlightInOrder ==
  MaxAckPending = 1 =>
    \A d, e \in Events : d < e /\ delivered[e] > 0 => server[d] \in {"none", "acked", "given_up"}

\* While the process runs, an event of the consumer is eventually handled or
\* preserved; a refused event may instead meet a failure on its last delivery.
EventuallySettled ==
  \A e \in Events :
    up /\ server[e] \in {"pending", "outstanding", "waiting"} ~>
      ~up \/ e \in handled \cup dlq \/ (e \in Poison /\ server[e] = "given_up")

\* Delivery is at least once: an event the server no longer delivers was handled or
\* is preserved.
AtLeastOnce ==
  \A e \in Events :
    server[e] \in {"acked", "given_up"} /\ Unattended(e) => e \in handled \cup dlq

\* A missing Redis write is repaired: a subscriber that has caught up knows the
\* newest analysis the stream holds.
CaughtUpIsNewest ==
  Analysis /\ ReplayLatest /\ CaughtUp =>
    \A e \in 1..last : \E d \in Events : NotLost(d) /\ Order[d] >= Order[e]

-----------------------------------------------------------------------------
(* The inductive invariant behind the delivery theorems. *)

\* The consumer counts deliveries from none, does not exceed its maximum, and knows
\* nothing of events that are not published or of a time it did not exist.
ConsumerControl ==
  /\ \A e \in Events : server[e] \in {"none", "pending"} => delivered[e] = 0
  /\ \A e \in Events : server[e] = "waiting" => delivered[e] < MaxDeliver
  /\ \A e \in Events : e > last => server[e] = "none"
  /\ ~consumer => \A e \in Events : server[e] = "none"

\* A callback past its handler holds a settled event, and one on its way to the
\* handler a valid one; what the restore task saves or handles is a valid event.
ClientControl ==
  /\ callback.phase = "acking" => callback.event \in handled \cup dlq
  /\ callback.phase \in {"remembering", "gated"} => callback.event \notin Invalid
  /\ restore = "saving" => restored \in Events \ Invalid
  /\ restore \in {"choosing", "handling"} => restored \in Events
  /\ restore = "choosing" => snapshot \in Events

DeliveryInv == TypeOK /\ ConsumerControl /\ ClientControl /\ AckedIsSettled

\* A process that runs has its consumer, which counts what it pushed and, over the
\* whole history, misses no event; a process that does not run holds nothing.
ConsumerScope ==
  /\ up => consumer
  /\ ~up => inbox = <<>> /\ callback = Nothing /\ restore = "none"
  /\ \A e \in Events : server[e] \in {"outstanding", "waiting"} => delivered[e] > 0
  /\ ReplayAll /\ consumer => \A e \in 1..last : server[e] # "none"

InClient(e) == callback.event = e \/ \E i \in 1..Len(inbox) : inbox[i].event = e

\* A message of an event without excuse is the only one, its event is outstanding, and
\* an event handled without excuse is about to be acknowledged or is no longer due.
SoleCopy(e) ==
  /\ InClient(e) => server[e] = "outstanding"
  /\ callback.event = e => \A i \in 1..Len(inbox) : inbox[i].event # e
  /\ \A i, j \in 1..Len(inbox) : inbox[i].event = e /\ inbox[j].event = e => i = j
  /\ e \in handled => \/ callback.event = e /\ callback.phase = "acking"
                      \/ server[e] \in {"acked", "none"}

CopyControl ==
  /\ \A e \in Events : InClient(e) \/ e \in handled => e <= last
  /\ Durable /\ ~consumer => handled = {}
  /\ (ReplayAll => Durable) => \A e \in Events \ excused : SoleCopy(e)

\* This process has the event, or the server still owes it to this process.
Owed(e) == server[e] \in {"pending", "outstanding", "waiting"} \/ NotLost(e)

\* An event as new as the snapshot is owed to this process or about to be restored.
RestoredOr(r) ==
  snapshot # 0 => \E d \in Events : (Owed(d) \/ d = r) /\ Order[d] >= Order[snapshot]

\* What is newer than what the restore task read is owed to this process; from the
\* moment an analysis is chosen, so is one as new as the snapshot.
CurrencyControl ==
  /\ unsaved \subseteq {last} /\ snapshot <= last /\ restored <= last
  /\ restore = "choosing" => Analysis
  /\ callback.phase = "acking" => callback.event \in seen \cup dlq
  /\ \A e \in Events : InClient(e) => Owed(e)
  /\ restore = "saving" \/ (~Analysis /\ restore \in {"handling", "done"}) =>
       \A e \in Events : restored < e /\ e <= last => Owed(e)
  /\ ~Analysis /\ restore = "done" => restored = 0 \/ restored \in seen
  /\ Analysis /\ restore \in {"choosing", "handling", "done"} =>
       \A e \in unsaved : Owed(e) \/ (snapshot # 0 /\ Order[e] <= Order[snapshot])
  /\ Analysis /\ restore = "handling" => RestoredOr(restored)
  /\ Analysis /\ restore = "done" => RestoredOr(0)

SubscriberInv ==
  DeliveryInv /\ ConsumerScope /\ CopyControl /\ CurrencyControl /\ OneInFlightInOrder
=============================================================================
