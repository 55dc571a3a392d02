# MarketBot in TLA+

MarketBot is an event-driven market analysis system. Its engines are operating-system processes that
exchange events over NATS JetStream, keep durable state in PostgreSQL and current state in Redis, and
are fed by an Alpaca WebSocket. This directory specifies the parts on which the others rely for *not
losing, repeating or reordering* what they exchange, and the two engines that turn analyses into
(paper) entries and exits; it checks them with TLC, and proves what matters most of them with TLAPS.

Source paths below are relative to the repository; `PROJECT.json` maps every definition to its lines.

## 1. The system

    Alpaca socket --> ingress (reconnect, gate, buffer) --> JetStream ("MARKETBOT" stream)
                         ^ missed minutes                      |        ^
                  Market History <-- Alpaca REST               |        | publish
                                                               v        |
        subscriptions (consumer, callback, DLQ, restore) --> engines    |
                                                               |        |
        Entry Opportunity ingress --> command queue --> processor       |
                                      (PostgreSQL)        | one commit  |
                                                          v             |
                                        aggregate + outbox rows --> outbox relay

| Component | State it keeps | Operations | What makes it correct |
|---|---|---|---|
| **Entry Opportunity command queue** (`integration/entry_opportunity_commands.py`, `EntryOpportunityCommandRepository`) | rows with status, attempts, `available_at`, receipt order; the advisory lock; a readiness file | enqueue with capacity check; claim the head; apply and mark in one transaction; record failure; requeue rows left PROCESSING; report health | exactly-once effects, receipt order, no acknowledged input lost, outages do not use up retries, a bounded backlog, progress |
| **Transactional outbox and relay** (`integration/outbox_relay.py`, `OutboxRepository`) | rows with `published_at`, `available_at`, attempts | enqueue with the state change; claim a batch under a lease; publish; mark or record the failure with backoff | nothing marked that is not in the stream, nothing forgotten, exclusive while the lease lasts, no starvation behind bad rows |
| **JetStream event bus** (`event_bus/nats_jetstream.py`, `integration/redis_current_events.py`) | consumer (pending, outstanding, delivery counts), the callback's message, DLQ, Redis snapshot per subject, restore task | publish and remember; subscribe; restore; deliver, acknowledge, nak, dead-letter; wait until caught up | acknowledged means handled or preserved, "caught up" means caught up, order where it is asked for, progress |
| **Alpaca ingress and recovery** (`integration/market_stream_recovery.py`, `run_market_stream_process`) | gate, buffer, per-symbol cursors, start of the recovery | reconnect, read back, filter, release in order | no skipped minute, repeats only where explained, per-symbol order, every bar eventually out |
| **Entry Watcher** (`entry_watcher/`, `integration/entry_watch_store.py`) | one watch per symbol with status, anchor and decision state (latest analyses, impulse); the analyses it remembers | hydrate, arm, judge, early, continuation and pullback entry, track the impulse; optimistic transition, then the decision state, then the impulse, in three transactions | later transitions carry a price of now, no entry rests on superseded evidence, a pullback is seen in the order peak, low, reclaim |
| **Entry Opportunity engine** (`entry_opportunity_engine/`) | one opportunity per symbol: references of setups, checkpoints, horizon legs, latest analyses, last bar, source cursor | ingest watcher transitions, Core, analytical, SwingTrade and GERI signals, SHORT alerts, analyses, bars; reconcile deadlines | evidence closes only entries it is entitled to and none that are younger; L4 only after the L2 zone was retested; checkpoint and legs tell the same trade at prices that traded; what is stored can be loaded |
| **Entry Recovery engine** | set of emitted recoveries | watch invalidated opportunities | at most one recovery signal per opportunity |
| **Alert engine** | deduplication state, checkpointed | classify, suppress, send to sinks | no forgotten alert, bounded repeats after a crash |
| **Bar aggregators** | the open bucket of each frame | add minute, close bucket | a bucket is the fold of its minutes |
| **Shared ticker cache** | payloads, reference counts, owner leases | put view, touch, release | a payload lives exactly while a live owner refers to it |
| **Market History** | bar table, coverage, registrations | register, synchronise, load, prune | coverage never claims bars that are absent |
| **In-memory bus, process plan, audit log, strategy runtime** | see `PROJECT.json` | | |

The analytical engines (long, swing, intraday, order flow, ...) are sequential decimal arithmetic over
windows of bars; dashboards, command line and backtests read stored state. `PROJECT.json` lists all
of them with the reason they are left out.

**Interaction.** Engines never call each other: they publish envelopes on subjects and subscribe to
them. The command queue composes with the bus at its input (a delivery is acknowledged after its row is
committed) and with the outbox at its output (the outbox rows are written in the transaction that
marks the command). The relay publishes to the bus. The ingress publishes to the bus and asks Market
History, by request and reply, for what it missed.

**What is hard here.** Two processes of one service overlap during a redeploy; nothing restarts a
process that ended; a commit, a publish or an acknowledgement can succeed and its answer be lost; leases
and `ack_wait` run out under slow work; current state is restored while new state is published; a
reconnect races the socket it replaces; after a restart the analyses of earlier sessions are replayed in
any order; several strategies share one opportunity, and its inputs come late or out of order. Each of
these is listed, at the line where it bites, under `hazards` in `PROJECT.json` with the property that
would catch it, or with a note where none does.

## 2. Modules

| Module | Models | State and actions against the code |
|---|---|---|
| `EntryOpportunityQueue` | the command queue, any number of service processes | A row is `status`, `attempts`, `delayed` (`available_at > now`), `stamp` (`created_at, id`). `ClaimHead`/`DrainNothing`/`BlockedByFailedHead` are the cases of `drain_once` up to the handler; `CommitDrain` its commit; `HandlerFails` and `MarkFailed` the two halves of `run`'s error path; `Receive`, `Check`, `Enqueue`, `Ack` the steps of the ingress with their awaits between them. `InfraAbort`, `CommitUnknown`, `HealthFails`, `MarkInterrupted`, `IngressInterrupted`, `AckLost`, `Crash`, `Restart` are the failures |
| `CommandLog` | what the queue promises: accepted stays accepted, effects are appended at most once | the abstract specification of the queue |
| `OutboxRelay` | the outbox table and any number of relays | `Claim`, then per row `PublishOk`/`PublishInvalid`/`PublishFails` and `MarkPublished`/`RecordFailure`; `ResultLost` and `Crash` end `drain_once` early; `Tick` is the clock. `wait` is `available_at - now`, `line` the due rows in `ORDER BY available_at, created_at` |
| `JetStreamDelivery` | one subscription of the bus on one subject | `Publish`, `Remember` are the publisher's two steps; `Subscribe`, `RestoreRead`, `RestoreSave`, `RestoreChoose`, `RestoreHandle` subscribe and the restore task, one action per await; `DeliverNew`, `Redeliver`, `AckWaitExpires`, `AckWaitMissed` the server (external); `Take` to `Ack`/`Nak` the steps of `_deliver`. `sub` holds the arguments of `subscribe` and which of the subject's messages are malformed or refused |
| `MarketStreamRecovery` | the ingress process | `Begin`, `Connected`, `Fetch`, `Release`, `ReleaseMissing`, `ReleaseHeld`, `Released`, `NoticeStreamEnd` are the loop; `Subscribed`, `HoldBar`, `BufferOverflows`, `PublishLive` the reading task; `MakeBar`, `Tick` the provider |
| `EntryWatcher` | one watcher process and its store, one symbol, the horizons LONG, SWING and INTRADAY | `Publish` and `Restart` fill the inbox; `Accept` hydrates or lets an analysis in (V5.6), `Evaluate`/`EvaluateUnwatched` restore the saved evidence, judge and write the transition, `Save` writes the decision state, `Enter` the impulse and its entries, `Reclaim` the reclaim of an extended impulse, one transaction each; `Crash` comes between any two |
| `EntryOpportunityLifecycle` | the opportunity of one symbol under every kind of input, engine versions up to V23 | one action per handler: `IngestTransition`, `IngestSignal`, `IngestLeveragedCancellation`, `IngestSwingTrade`, `IngestCountertrend`, `IngestShortAlert`, `IngestShortBar`, `IngestAnalysis`, `IngestBar`, `IngestReferenceBar`, `Reconcile`; `opp` is the stored aggregate, and an input is taken from a `menu` and may be late |
| `PaperEntryExit` | how one entry, a checkpoint and its legs, leaves the market | `IngestBar` and `IngestReferenceBar`; `MarkCheckpoint` and `MarkLegs` are the two pieces of code that mark the same trade |
| `MC*` | instances for TLC | |
| `EntryOpportunityQueueProofs`, `EntryOpportunityQueueLimits`, `OutboxRelayProofs`, `JetStreamDeliveryProofs`, `MarketStreamRecoveryProofs`, `EntryWatcherProofs`, `EntryOpportunityLifecycleProofs`, `PaperEntryExitProofs` | the theorems of section 4 | each extends the module it is about; an inductive invariant is stated at the end of that module, or at the head of the proofs where it needs their vocabulary |

### What the models abstract

* *Queue.* A command is its source event; its aggregate change and outbox rows are one entry of
  `applied`. `stamp` is taken when the INSERT is built, before it commits, so with several processes rows
  can become visible out of stamp order; equal `created_at` values do not occur in the model. The operator's
  requeue of FAILED commands is a manual command outside the service and is not an action. The replay
  of missed bars at start belongs to the engine.
* *Outbox.* Rows commit in `created_at` order. `attempts` only enters the code through the backoff, so a row keeps
  `delay`, the backoff its attempts stand for, which doubles from `FirstBackoff` up to `MaxBackoff`. History counters
  saturate (`SendCap`).
* *Delivery.* One subject with one publisher that awaits each publish; the stream's own duplicate window is
  left out (it can only remove repeats); the DLQ is a set, and its subject's own subscribers are not
  modelled. Redelivery delays and the cooldown are untimed: what is due may happen. A subscription may be durable or
  not and start from the whole history or from now. `RepeatsExplained` excepts one combination, an ephemeral consumer of
  the whole history: its process, restarted, asks for everything again and handles it a second time by design.
* *Ingress.* Time is counted in minutes of the regular session, which is what `load_market_history` keeps.
  The provider (external) makes the bar of a minute during the next one and REST is as current as
  the socket. By the time it is read the table may be ahead of `connected_at` by fewer than `Slack` bars (ten in the
  code). Reconnect delays are untimed. The bars read back are published as one set, symbol by symbol in time order
  (`rest`), the buffered ones by position (`next`). `capped` records a recovery that asked for `MaxBars`, the most a request
  may name, because it needed more; what lies further back is not read, so `NoGap` and `GateKeepsOrder` speak of the others. Quotes, trades, updating and daily bars move no cursor and are left out,
  as are changes of the symbol universe within a session.
* *Watcher.* One process. An analysis is a time, a price and a view (what the gates of its horizon say, `Views`) of a
  thesis (`Theses`); prices are small numbers and compare exactly. Evaluation takes no time, and an analysis is published on time or two
  units late, when the process is idle or down. The bus retains the last analysis published of each horizon, which need not be the newest, and replays them in any
  order after a restart; the crash keeps or loses the remembered analyses (they may be kept in Redis). Dilution
  and news evidence, other horizons and the reconfirmation of mature candidates
  (off under `trigger_on_first_mature_confirmation`) are left out.
* *Opportunity.* Entries are made at price 3; a bar trades between that and its own price. The mark
  an analysis closes at is the price of the newest observation that is not too old (`MarkAt`, `MarkPrices`): the entry price for an arming or a checkpoint,
  the current price for the last bar (its close or, where a later input may have replaced it, the entry price: `Current`),
  or the price of an analysis; at equal times in that order, as in the code. A reclaim is judged at the
  price `_analysis_price` picks (`AnalysisPrices`): a late analysis leaves the current price alone.
  Where the code compares times of equal inputs with `>=`, the model
  allows either. Dropped inputs and raised errors are no step. Revision, progress and
  excursions are left out, and so are canonical setup ids (V7), the alert path before signals and the session gates;
  the reward/risk gate of V12 is the stage it leaves (none). `LEVERAGED` stands for all analytical
  families; a watch has all three horizons. `MenuAssumption` says what the contracts admit as a transition or a signal
  (a transition to POLICY_INELIGIBLE is dropped by its handler and is no input).
* *Exit.* One entry, minutes counted from the start of a bucket; the marks no exit depends on are left out.

## 3. Runs

All runs are finite and exhaustive. `faults` is a budget for every kind of failure together.

| Run | Instance | Shows |
|---|---|---|
| `queue_single` | 1 process, 3 commands (one a legacy PROCESSING row), capacity 2, 2 attempts, 2 faults, fair | types; receipt order behind delayed or FAILED heads; no acknowledged input without a row; outages leave the budget alone; no readiness while a FAILED row stands; refinement of `CommandLog`; progress |
| `queue_overlap` | 2 processes, 3 commands, capacity 1, 1 attempt, 2 faults, commands and processes symmetric | exactly-once effects although both processes claim, apply and retry; a backlog of at most one row over the capacity, although both ingresses may pass the check before either inserts |
| `queue_reopened` | 2 processes, no fault | *violation*, see below |
| `outbox` | 2 relays, 3 rows, batches of 2, lease 2, 1 fault; all rows valid, or a whole batch of invalid ones ahead of the valid one; fair | nothing marked that is not stored; exclusive leases and explained repeats until a lease is outlived; every valid row published, behind bad rows and after lost results |
| `delivery` | 3 events, 3 deliveries, 2 faults; a durable state subscriber of analyses with a prefetch of 2, an ephemeral one with one message in flight, the audit's over the whole history; fair | acknowledged is settled; explained repeats; caught up is current, and complete; order with one in flight; progress, whether or not restoration succeeded |
| `delivery_abandoned`, `delivery_stale_restore` | 1 and 3 events, 1 fault | *violations*, see below |
| `stream` | 2 symbols, 2 minutes, buffer of 2, 3 faults, requests of up to 3 bars, fair | no gap; explained repeats; order behind the gate; every bar is published although recoveries fail repeatedly |
| `paper_exit` | every candle of at most two ticks over six prices, five entries with and without protection and recovery reference, buckets of 2 minutes | checkpoint and legs agree; fills at traded prices; protection exactly what the completed closes call for; the recovery exit exactly after two complete failing buckets |
| `lifecycle` | four menus of nine to twelve inputs, up to five of them, each on time or two or four minutes late, marks of up to two minutes | no leg outlives its checkpoint; L4 only after the retest; Core evidence closes Core entries only; no entry closed by older evidence, unless the newest price reached its stop |
| `lifecycle_unreadable` | a GERI observation and an analytical signal | *violation*, see below |
| `watcher` | up to five analyses of three horizons, on time or late, a crash between any two transactions | contemporary prices; entries rest on nothing superseded; pullbacks in order |

**Why these bounds.** Three commands give a head, a successor and one that arrives during either; capacity 1
or 2 makes the check bite; two faults allow a crash with its restart, or a lost answer followed by a failed retry.
A batch of two with three rows has a rest of the batch to lose and a row outside it. Three events allow a newer
analysis between two older ones, which is what a bootstrap produces; three deliveries a first, a
middle and a last one. The faults of `delivery` (`MaxFaults`) are fewer
than its deliveries (`MaxDeliver`), so faults alone do not use up the deliveries of an event; `delivery_abandoned` shows what happens when they are used up. A recovery of several minutes with `Lookback` 1 and `Slack` 1 crosses every
boundary of `recovery_requirement` and `pending_recovery_bars`; a buffer of two overflows with one bar of each
symbol and another. Five inputs reach an
L2, its retest, the reclaim and what may overtake each of them, and entries of three strategies with evidence
against one; a delay of four minutes with marks of two is an analysis older than the entry it
meets, while the newest observation is younger than both; the menus keep apart questions whose inputs do not meet. Five analyses are an arming, an impulse, a pullback
and a reclaim with one to spare for a crash or a replay. Buckets of two minutes and seven minutes of bars hold two failing buckets, one
with a gap, and the bar after them. Two queue processes with one place between them are
the smallest instance in which the capacity check races the INSERT; the theorems of section 4 cover any number of processes,
symbols and minutes.

**Fairness.** The loops of a process that runs keep taking steps (the relay and ingress loops start over after every
exception, the queue's after all but the last failure of a command, which ends the process and does so in the
model; handlers and external calls end); delays and leases run out; the broker delivers what is not
acknowledged; the provider makes its bars. No fairness is put on failures, on `Restart`, on
`Subscribe` or on publishers: nothing in the repository restarts a process, so the progress
properties except the case that every process has ended. `CHECK_DEADLOCK FALSE` is set where the
system may come to rest: every event published and settled, every process ended, the clock at its bound.

### Where the documents and the code differ

* `queue_reopened`: *FAILED commands require investigation and explicit requeue*
  (`docs/entry-opportunity-queue-reliability.md:29`). `mark_failed` excludes only PROCESSED rows, so a process that
  rolled back its attempt before another one recorded FAILED can write PENDING over it.
* `delivery_abandoned`: *Delivery is at least once* (`app/event_bus/README.md:19`). After the last permitted delivery
  the server gives the event up; if that delivery ends in a crash or in a failed dead-letter publish, the event
  is neither handled nor preserved.
* `delivery_stale_restore`: *Direct last-message reconciliation repairs a missing Redis write*
  (`app/event_bus/README.md:57`). It repairs that of the last message only: when the restarted publisher has published an
  older bootstrap result since, a subscriber that starts later is told it has caught up with the older analysis.
* `lifecycle_unreadable`: *opportunity checkpoints are required outside CT0/CT1 observation*
  (`app/contracts/entry_opportunity.py:336`). An analytical signal that joins a GERI observation adds a reference of another family to an
  opportunity without checkpoints and stores it unvalidated; every later load of the symbol raises.

### Observations

Met while modelling; no run states them.

* The first transition of a watch is priced by the Long analysis's own `reference_price`, however old it is
  (`entry_watcher/engine.py:271`): the gate of V5.6 looks at the newest observation of any horizon, while the engine's README
  (lines 44-46) says no earlier session's price is stamped onto a new ARMED. `PriceContemporary` therefore begins
  with the second transition.
* Analyses that were only remembered, for want of a contemporary price, are not saved with the decision state: after a
  restart the replay of another horizon can confirm an entry against evidence they had superseded. `NotSuperseded`
  speaks of analyses that were evaluated.
* A SWING leg without a setup label is taken for the only SwingTrade setup of the opportunity
  (`engine.py:2796-2811`), also when GERI opened it: the SwingTrade rebound exit then closes it, although
  `engine.py:2287` says it consumes exits *without closing other strategies*.
* The terminal loss of a GERI setup (`engine.py:1787`) and a late bar of the session's last minute (`engine.py:612`) close
  entries younger than themselves; `EvidenceNotOlder` leaves both out.
* A second Core family that reaches the level of the peak opens legs, but a checkpoint only for Core Recovery (`engine.py:880`): such a
  leg has no checkpoint of its own. Once all checkpoints are closed, a bar at the invalidation price ends the thesis and closes the leg, also a
  bar older than the leg. `EvidenceNotOlder` therefore speaks of the legs that an open checkpoint stands for.
* A transition that comes after a later one of its source is dropped for good (source cursor, `engine.py:2992`); an event
  older than its opportunity is refused by validation after the handler ran (`contracts/entry_opportunity.py:390`), so its command fails on every retry.
* `reconcile` (V6) does nothing for an opportunity whose legs are all closed while a checkpoint is still open; only
  that checkpoint's own stop or target, or the removal of the symbol, ends it.

## 4. Proofs

**The queue** (`EntryOpportunityQueueProofs`), for any set of processes and commands, any capacity, budget
and number of faults, from `QueueAssumption` (positive capacity and budget, markers outside the sets).
`QueueInv` is inductive. Exactly-once is not inductive by itself: a commit appends a command to
`applied`, so one has to know that the command in the transaction is not PROCESSED yet. `WriterControl`
carries that: the lock is held exactly while a command is being applied, and that command is PENDING or
PROCESSING; it also keeps the attempts a process remembers within one of the row's, which is what
"FAILED only after the budget" needs. `IngressControl` says a delivery about to be acknowledged has its row.
From it follow `QueueTypes`, `QueueAppliesExactlyOnce`, `QueueLosesNothing`, `QueueSpendsBudget`, and, step by step,
`QueueImplementsLog`: every step of the queue is a step of `CommandLog` or leaves it unchanged.

*Limits* (`EntryOpportunityQueueLimits`). `QueueCapacity`: the backlog exceeds the capacity by less than one row per further process. The bound
alone is not inductive, since any number of ingresses may have passed the check; `Reserved` counts them
with the backlog: an ingress passes only below the capacity, when at most all others are inserting.
`QueueKeepsBudget`: an outstanding command has no more attempts than its handler
had failures. Several processes may be about to record a failure of one command, so `Budgeted` adds them (`Markers`): attempts in the
row plus failures still to be recorded stay within the failures that happened, until the command is PROCESSED. `Reported` says that a
process which reports after a commit reports on a PROCESSED command, so that a failing report costs nothing.

*One process.* Three properties hold only while a single process runs the queue, and are proved from the premise `Alone`
(at most one process) that each of these theorems states. `AloneInv` strengthens `QueueInv`: rows carry stamps in the order in which they
were committed (`StampControl`), the command in hand is the head until it is decided (`ClaimControl`), a FAILED command is the head and
leaves its process idle, ended and not ready (`FailedControl`). `QueueReceiptOrder`, `QueueFailedNotReady` and `QueueFailedStaysFailed`
follow; `queue_reopened` shows that the last one needs its premise.

**The outbox** (`OutboxRelayProofs`), for any relays, rows, batch size, lease, backoff, clock and number of faults. `OutboxInv` is inductive. That
relays hold disjoint rows is not inductive by itself: a claim takes what is due, so one has to know that a held row is not. `LeaseControl` carries it: until
a lease is outlived, a held row waits exactly as long as the lease of the one relay that holds it. `RelayControl` says a relay marks a row only
when the stream has it; `SendControl` counts publishes against failures, one of them allowed for the row that is marked or about to be. `OutboxTyped`,
`OutboxPublishedIsStored`, `OutboxLeaseExclusive` and `OutboxRepeatsExplained` follow.

**The subscription** (`JetStreamDeliveryProofs`), for any number of events, delivery limit, prefetch window, kind of
subscription and number of faults, from `DeliveryAssumption`. `DeliveryInv` is inductive. That an acknowledged
event is settled needs to know that a callback in phase `acking` holds a handled or dead-lettered event
(`ClientControl`); that `num_delivered` stays within `max_deliver` needs that an event waiting for redelivery has
deliveries left and one never delivered has a count of zero (`ConsumerControl`). `DeliveryTypes` and
`DeliveryAcksSettled` follow. `SubscriberInv` adds what the other four need. `CopyControl`: an event without excuse has one copy in the client, which
the server counts as outstanding, and once handled it is about to be acknowledged (`DeliveryRepeatsExplained`). `CurrencyControl` follows the restore task
through its awaits: from the moment it has chosen, an event as new as the snapshot is owed to this process or is the one being restored
(`DeliveryCaughtUpIsCurrent`). `ConsumerScope`: over the whole history the consumer misses no published event (`DeliveryCaughtUpIsComplete`).
`DeliveryOneInFlightInOrder` is inductive with these.

**The ingress** (`MarketStreamRecoveryProofs`), for any symbols, minutes, buffer, lookback, slack, request size and number of faults.
`StreamInv` is inductive. `NoGap` speaks of the past of the cursor, and what keeps it true is the whereabouts of bars that are not published yet:
`GapControl` says that such a bar is newer than its cursor, not older than the start of the recovery, and on its way in each phase (on the socket, buffered, read back
or being released), or still to be read back. `ArrivalOrder` and `GateOrder` say that what arrives meanwhile is newer than the cursor and either
read back as well or newer than all that was, so that releasing one set and then the other keeps the order and skips nothing; `Control` ties this to the
phases. `StreamTyped`, `StreamNoGap`, `StreamRepeatsExplained` and `StreamGateKeepsOrder` follow.

**The watcher** (`EntryWatcherProofs`), for any analyses, prices, ages and cooldowns, and any end of the process between two transactions.
`WatcherInv` is inductive. `WorkControl` says what the process knows between its transactions: the analysis it was given, a contemporary
price, and no less than the row holds; `HandledSaved` that what was acknowledged is in the row, so that a restart cannot fall behind it; `ImpulseControl`
and `SeenControl` that the observations of an impulse are in order and were evaluated for this watch. `WatcherTyped`, `WatcherPriceContemporary`,
`WatcherPullbackInOrder` and `WatcherNotSuperseded` follow. The proof corrected the property: an earlier `PullbackInOrder` also claimed that the price of the entry
is not older than the arming of the watch, which is not so (`v57.py:53-56` starts a sequence afresh from whatever observation comes first).

**The lifecycle** (`EntryOpportunityLifecycleProofs`), for any inputs that satisfy `MenuAssumption` and `SetupAssumption` (below), any delays, lifetimes and ends of sessions.
Each argument is about aggregates, operator by operator, and a handler is a composition of operators.
`Earned`, on the stored aggregate (`LifecycleInv`): its checkpoints lie at or below its peak, it has one L2 anchor, whose retest is later than
itself, and it is at L4 only after that retest. Closing, joining and replacing only make an aggregate that `Descends` from
the old one (its CORE_ENTRY checkpoints are old ones, open or closed); `Advance` and the recording of a retest have an argument of their own: `LifecycleL4Earned`.
`Typed` (`TypedInv`) gives `LifecycleTyped`; the peak of a setup, the deadline that is left and the exit mark are largest elements of sets of times, which exist because
the sets are bounded (`LargestOf`). `Spares(o, u, fams, cps, legs)`: what is open in `o` and neither of the families nor listed is in `u` unchanged; it
composes, because closing leaves the family of a leg alone (`OwnersDecide`): `LifecycleOwnEvidence`. `Closes(o, u, why, X)`: `u` is `o` with entries closed, by evidence `why`
(a time and perhaps a price) that `Counts` against a paper entry or a leg outside `X`, and no leg left open whose Core checkpoint closed. Evidence counts when it is not older than the entry or when its price
is at or below the entry's stop. For a transition, a bar and a rebound exit it is their time alone (`On`); for an analysis it is the analysis's own time, by which a contradiction closes
(`ApplyInvalidationCloses`), and the price of the mark, by which a stop is breached. That the mark is newer than an entry is no reason to close it: the price has to reach the stop. It composes as long as checkpoints have distinct
keys, which every handler knows from loading (`Keyed`); `_close_core_entries`, a retest, the marking by a bar, the session's end, the end of the thesis (what it may close
is no paper entry any more: `LeftLegs`) and the revisited analyses are each a `Closes`. Steps that close nothing `Keep` the entries; a SwingTrade rebound
exit, a GERI loss and a deadline touch no Core checkpoint. `LifecycleNoOrphanLeg` and `LifecycleEvidenceNotOlder` follow.
`MenuAssumption` is what the contracts admit. `SetupAssumption` says that a setup id of a SwingTrade or SHORT input is none of a Core entry: ids carry the
prefix of their engine (`swing-trade:`, `swing-short:`, `watch:`, `recovery:`, `alert:`; `swing_trade_engine/engine.py:368`, `swing_engine/v14.py:140`,
`entry_opportunity_engine/engine.py:285`, `entry_recovery_engine/engine.py:132`). Without it a deadline could close a Core checkpoint and leave its legs.

**The exit of an entry** (`PaperEntryExitProofs`), for every set of prices, candles (low below open and close, these below high), entries,
closing minutes and every bucket length, from `ExitAssumption`. Two lemmas carry it: what marking an open position with a bar returns
(`MarkPlainShape`: it stays open, or closes inside the candle with nothing else touched) and that the code of a leg
returns what the code of the checkpoint returns (`LegLikeCheckpoint`). The invariant adds to `SameExit` and `FillIsTraded` that a recovery
exit is pending only for a minute after the entry (else a leg would be closed without its checkpoint), that the session's end never closes the
checkpoint, and that a bucket is counted from its first minute, which bounds the count. `ExitTyped`, `LegsFollowCheckpoint` and
`FillsAreTraded` follow. `ProtInv` relates the stop to the history of closes: no close calls for a higher one (`ArmedByBest`), it stems from a bar already
seen (`ArmedBefore`), and it is left below only at the open of a gap (`LeftAbove`): `ProtectionIsExact`. `RecoveryInv` relates the observation of buckets to
the minutes seen: a bucket is counted exactly while none of its minutes was missed (`CountIsGapless`), the warning on record is the last complete failing bucket
(`WarningIsLatest`), an exit is pending exactly while the bucket just completed confirms it (`PendingIsConfirmed`); it rests on lemmas about the division of
minutes into buckets of any length. `RecoveryExitIsExact` follows.

**Only model-checked.** Every progress property (`EventuallyDecided`, `EventuallyPublished` of outbox and ingress, `EventuallySettled`):
liveness under fairness and ENABLED are out of the prover's reach. The four properties that are violated are shown
by TLC's counterexamples. `FailedAfterBudget` is the other way round: it is proved (`QueueSpendsBudget`) and no run repeats it. Every inductive invariant was
checked by TLC on the instances of section 3 before it was proved.

## 5. Not modelled

See `components` in `PROJECT.json` for each part and its reason. In short: indicator arithmetic, text and document
downloads, presentation and offline tools are outside what TLC can say anything about; the smaller stateful
parts below are planned. Most of the repository is of the first kind (analytical engines in decimal arithmetic, SQL,
presentation, offline tools), so the lines this project maps are a small share of all lines, though they are
most of the lines that decide about order, loss, repetition and the life of an entry.

Left out of the modelled parts, with what they would need: a second watcher process
(its guard is the status, not a revision), dilution and news evidence of the watcher, the replay of missed bars at start (live
bars and replayed ones meet in one queue), mutual exclusion by canonical setup ids (V7).

## 6. Plan

1. *Done*: command queue, outbox, delivery, ingress; Entry Watcher; Entry Opportunity lifecycle and exits; the safety
   of each as theorems.
2. *Done*: every invariant and action property of the passing runs is a theorem; what is left to TLC is progress.
3. Composition of delivery, queue and outbox along one event: an input acknowledged by the
   broker has its effects published, exactly once in the aggregate and at least once in the stream.
4. Two overlapping watcher processes; the replay of missed bars beside live ones; Entry Recovery.
5. Alert deduplication and its checkpoint; bar aggregators as operators against the fold of a bucket; reference
   counts and leases of the ticker cache; Market History coverage; in-memory bus.
