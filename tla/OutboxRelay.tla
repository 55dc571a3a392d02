------------------------------- MODULE OutboxRelay -------------------------------
(***************************************************************************)
(* The transactional outbox: rows of outbox_events written with the state  *)
(* they announce, leased by any number of relays, published to JetStream   *)
(* outside the transaction, then marked (OutboxRelay.drain_once and the    *)
(* OutboxRepository it uses).                                              *)
(*                                                                         *)
(* Time is relative: wait[e] is available_at - now of a row that is not    *)
(* due, so a step of the clock lowers every wait by one.  The due rows are *)
(* the queue line, in the order in which they became due: ORDER BY         *)
(* available_at, created_at.                                               *)
(***************************************************************************)
EXTENDS Integers, Sequences, FiniteSets

CONSTANTS
  Events,      \* outbox rows, one envelope each
  Created,     \* created_at: a rank per row
  Poisons,     \* the sets of rows whose stored envelope may not validate
  Relays,      \* relay processes
  Batch,       \* batch_size
  Lease,       \* lease_duration
  FirstBackoff,\* initial_backoff
  MaxBackoff,  \* maximum_backoff, or the delay after twenty doublings if shorter
  MaxFaults    \* bound on transport, database and process failures

ASSUME OutboxAssumption ==
  /\ IsFiniteSet(Events) /\ Created \in [Events -> Nat]
  /\ \A d, e \in Events : Created[d] = Created[e] => d = e
  /\ Poisons \subseteq SUBSET Events
  /\ Batch \in Nat \ {0} /\ Lease \in Nat \ {0}
  /\ FirstBackoff \in Nat \ {0} /\ MaxBackoff \in Nat /\ MaxBackoff >= FirstBackoff
  /\ MaxFaults \in Nat

VARIABLES
  poison,    \* rows whose stored envelope does not validate; never changes
  row,       \* "absent", "unpublished" or "published" (published_at set)
  wait,      \* available_at - now of a row that is not due yet, else 0
  line,      \* the due rows, by available_at and created_at
  delay,     \* the backoff that the row's attempts stand for, 0 before the first
  batch,     \* rows each relay still has to handle, with the delay it read
  phase,     \* "idle", "publishing", "marking" or "failing" the first of them
  lease,     \* history: time left of the lease a relay took with its batch
  stored,    \* envelopes that are in the stream, once or more
  sends,     \* history: publish calls per row
  excuses,   \* history: failures that explain another publish of a row
  overrun,   \* history: some relay kept working on a batch after its lease
  faults

vars == <<poison, row, wait, line, delay, batch, phase, lease, stored, sends, excuses, overrun, faults>>

\* The history counters saturate here; the properties compare smaller values.
SendCap == MaxFaults + 3
Capped(n) == IF n > SendCap THEN SendCap ELSE n

Init ==
  /\ poison \in Poisons
  /\ row = [e \in Events |-> "absent"]
  /\ wait = [e \in Events |-> 0]
  /\ line = <<>>
  /\ delay = [e \in Events |-> 0]
  /\ batch = [r \in Relays |-> <<>>]
  /\ phase = [r \in Relays |-> "idle"]
  /\ lease = [r \in Relays |-> 0]
  /\ stored = {}
  /\ sends = [e \in Events |-> 0]
  /\ excuses = [e \in Events |-> 0]
  /\ overrun = FALSE
  /\ faults = 0

-----------------------------------------------------------------------------
\* A row is due at most once: the line without it.
Without(s, e) ==
  IF \E i \in 1..Len(s) : s[i] = e
  THEN LET i == CHOOSE i \in 1..Len(s) : s[i] = e
       IN  SubSeq(s, 1, i - 1) \o SubSeq(s, i + 1, Len(s))
  ELSE s

\* enqueue, committed with the state change it announces; due at once.  Rows are
\* committed in the order of their created_at.
Enqueue(e) ==
  /\ row[e] = "absent"
  /\ \A d \in Events : Created[d] < Created[e] => row[d] # "absent"
  /\ row' = [row EXCEPT ![e] = "unpublished"]
  /\ line' = Append(line, e)
  /\ UNCHANGED <<wait, delay, batch, phase, lease, stored, sends, excuses, overrun, faults>>

ClaimSize == IF Len(line) < Batch THEN Len(line) ELSE Batch

\* claim_pending counts the attempt and _backoff doubles the delay for it, from the
\* second on and up to the maximum.
UncappedDelay(d) == IF d = 0 THEN FirstBackoff ELSE 2 * d
NextDelay(d) ==
  IF d = 0 THEN FirstBackoff ELSE IF 2 * d > MaxBackoff THEN MaxBackoff ELSE 2 * d

\* What a claim writes to available_at of the rows it takes.
ShortLease(e) == 1
LeaseFor(e) == Lease

\* claim_pending in its own transaction: lease the first rows, count the attempt.
Claim(r) ==
  /\ phase[r] = "idle"
  /\ line # <<>>
  /\ LET taken == {line[i] : i \in 1..ClaimSize}
     IN  /\ wait' = [e \in Events |-> IF e \in taken THEN LeaseFor(e) ELSE wait[e]]
         /\ delay' = [e \in Events |-> IF e \in taken THEN NextDelay(delay[e]) ELSE delay[e]]
  /\ batch' = [batch EXCEPT ![r] =
                 [i \in 1..ClaimSize |-> [event |-> line[i], delay |-> NextDelay(delay[line[i]])]]]
  /\ line' = SubSeq(line, ClaimSize + 1, Len(line))
  /\ phase' = [phase EXCEPT ![r] = "publishing"]
  /\ lease' = [lease EXCEPT ![r] = Lease]
  /\ UNCHANGED <<row, stored, sends, excuses, overrun, faults>>

Current(r) == Head(batch[r]).event

\* A fault is charged to the budget and explains another publish of the row.
Fault(e) ==
  /\ faults < MaxFaults
  /\ faults' = faults + 1
  /\ excuses' = [excuses EXCEPT ![e] = Capped(@ + 1)]

Send(e) == sends' = [sends EXCEPT ![e] = Capped(@ + 1)]

Publishing(r) == phase[r] = "publishing"

\* The stream stored the envelope, or recognised its Nats-Msg-Id, and said so.
PublishOk(r) ==
  /\ Publishing(r)
  /\ Current(r) \notin poison
  /\ stored' = stored \cup {Current(r)}
  /\ Send(Current(r))
  /\ phase' = [phase EXCEPT ![r] = "marking"]
  /\ UNCHANGED <<row, wait, line, delay, batch, lease, excuses, overrun, faults>>

\* A stored envelope that does not validate never reaches the bus.
PublishInvalid(r) ==
  /\ Publishing(r)
  /\ Current(r) \in poison
  /\ phase' = [phase EXCEPT ![r] = "failing"]
  /\ UNCHANGED <<row, wait, line, delay, batch, lease, stored, sends, excuses, overrun, faults>>

\* publish raises: nothing was stored, or it was and the answer or the snapshot
\* write after it failed.
PublishFails(r) ==
  /\ Publishing(r)
  /\ Current(r) \notin poison
  /\ Fault(Current(r))
  /\ Send(Current(r))
  /\ stored' \in {stored, stored \cup {Current(r)}}
  /\ phase' = [phase EXCEPT ![r] = "failing"]
  /\ UNCHANGED <<row, wait, line, delay, batch, lease, overrun>>

\* On to the next row of the batch, or out of drain_once.
Advance(r) ==
  /\ batch' = [batch EXCEPT ![r] = Tail(@)]
  /\ phase' = [phase EXCEPT ![r] = IF Len(batch[r]) > 1 THEN "publishing" ELSE "idle"]

\* drain_once ends early: the rest of the batch is left to its lease.
Abandon(r) ==
  /\ batch' = [batch EXCEPT ![r] = <<>>]
  /\ phase' = [phase EXCEPT ![r] = "idle"]

\* mark_published: the row leaves the due rows if a lease had expired.
SetPublished(r) ==
  /\ phase[r] = "marking"
  /\ row' = [row EXCEPT ![Current(r)] = "published"]
  /\ wait' = [wait EXCEPT ![Current(r)] = 0]
  /\ line' = Without(line, Current(r))

MarkPublished(r) ==
  /\ SetPublished(r)
  /\ Advance(r)
  /\ UNCHANGED <<delay, lease, stored, sends, excuses, overrun, faults>>

\* record_failure: a row that is not published waits for its backoff.
PublishedAnyway(r) ==
  /\ phase[r] = "failing"
  /\ row' = [row EXCEPT ![Current(r)] = "published"]
  /\ wait' = [wait EXCEPT ![Current(r)] = 0]
  /\ line' = Without(line, Current(r))
RetryAtOnce(r) ==
  /\ phase[r] = "failing"
  /\ wait' = [wait EXCEPT ![Current(r)] = 0]
  /\ line' = <<Current(r)>> \o Without(line, Current(r))
  /\ UNCHANGED row
SetDelay(r) ==
  /\ phase[r] = "failing"
  /\ IF row[Current(r)] = "published"
     THEN UNCHANGED <<wait, line>>
     ELSE /\ wait' = [wait EXCEPT ![Current(r)] = Head(batch[r]).delay]
          /\ line' = Without(line, Current(r))
  /\ UNCHANGED row

RecordFailure(r) ==
  /\ SetDelay(r)
  /\ Advance(r)
  /\ UNCHANGED <<delay, lease, stored, sends, excuses, overrun, faults>>

\* The transaction of the mark or of the record fails, with or without effect:
\* the exception leaves drain_once and run starts over.
ResultLost(r) ==
  /\ phase[r] \in {"marking", "failing"}
  /\ Fault(Current(r))
  /\ SetPublished(r) \/ SetDelay(r) \/ UNCHANGED <<row, wait, line>>
  /\ Abandon(r)
  /\ UNCHANGED <<delay, lease, stored, sends, overrun>>

\* The relay process dies with its batch and starts again.
Crash(r) ==
  /\ phase[r] # "idle"
  /\ Fault(Current(r))
  /\ Abandon(r)
  /\ UNCHANGED <<row, wait, line, delay, lease, stored, sends, overrun>>

\* The clock: leases and backoffs run down while relays may be anywhere.
Tick ==
  /\ wait' = [e \in Events |-> IF wait[e] > 0 THEN wait[e] - 1 ELSE 0]
  /\ LET due == {e \in Events : wait[e] = 1}
     IN  \E s \in [1..Cardinality(due) -> due] :
           /\ \A i, j \in 1..Cardinality(due) : i < j => Created[s[i]] < Created[s[j]]
           /\ line' = line \o s
  /\ lease' = [r \in Relays |-> IF lease[r] > 0 THEN lease[r] - 1 ELSE 0]
  /\ overrun' = (overrun \/ \E r \in Relays : phase[r] # "idle" /\ lease[r] <= 1)
  /\ UNCHANGED <<row, delay, batch, phase, stored, sends, excuses, faults>>

Relay(r) ==
  \/ Claim(r) \/ PublishOk(r) \/ PublishInvalid(r) \/ MarkPublished(r) \/ RecordFailure(r)

Step ==
  \/ \E e \in Events : Enqueue(e)
  \/ \E r \in Relays : Relay(r) \/ PublishFails(r) \/ ResultLost(r) \/ Crash(r)
  \/ Tick

Next == Step /\ UNCHANGED poison

\* The relay loop runs, and time passes.
Fairness ==
  /\ \A r \in Relays : WF_vars(Relay(r) /\ UNCHANGED poison)
  /\ WF_vars(Tick /\ UNCHANGED poison)

Spec == Init /\ [][Next]_vars
FairSpec == Spec /\ Fairness

-----------------------------------------------------------------------------
Held(r) == {batch[r][i].event : i \in 1..Len(batch[r])}

\* Every variable keeps its type.
TypeOK ==
  /\ row \in [Events -> {"absent", "unpublished", "published"}]
  /\ wait \in [Events -> Nat]
  /\ line \in Seq(Events)
  /\ delay \in [Events -> 0..MaxBackoff]
  /\ batch \in [Relays -> Seq([event : Events, delay : 0..MaxBackoff])]
  /\ phase \in [Relays -> {"idle", "publishing", "marking", "failing"}]
  /\ lease \in [Relays -> 0..Lease]
  /\ stored \subseteq Events
  /\ sends \in [Events -> 0..SendCap] /\ excuses \in [Events -> 0..SendCap]
  /\ overrun \in BOOLEAN /\ faults \in 0..MaxFaults

\* A row is marked published only when its envelope is in the stream: no committed
\* state change is left without its event, whatever fails in between.
PublishedIsStored == \A e \in Events : row[e] = "published" => e \in stored

\* Until a relay outlives its lease, no two relays hold the same row, and no relay
\* is still going to publish a row that is published.
LeaseExclusive ==
  ~overrun =>
    /\ \A q, r \in Relays : q # r => Held(q) \cap Held(r) = {}
    /\ \A r \in Relays : \A e \in Held(r) : row[e] # "published"

\* Until a relay outlives its lease, a row is published again only after a failure
\* of a previous try at that row.
RepeatsExplained ==
  ~overrun => \A e \in Events : sends[e] <= excuses[e] + 1

\* Every committed row with a valid envelope is eventually in the stream and
\* marked, even beside rows that can never be published.
EventuallyPublished ==
  \A e \in Events : row[e] = "unpublished" /\ e \notin poison ~> row[e] = "published"
-----------------------------------------------------------------------------
(* The inductive invariant behind the safety properties. *)

\* A row is due once, and a row that is due or waits is not published.
LineControl ==
  /\ \A i \in 1..Len(line) : wait[line[i]] = 0 /\ row[line[i]] = "unpublished"
  /\ \A i, j \in 1..Len(line) : line[i] = line[j] => i = j
  /\ \A e \in Events : wait[e] > 0 => row[e] = "unpublished"

\* A relay works on the first row of a batch of committed rows, each there once, and
\* marks a row whose envelope the stream holds.
RelayControl ==
  /\ \A r \in Relays : phase[r] = "idle" <=> batch[r] = <<>>
  /\ \A r \in Relays : phase[r] = "marking" => Current(r) \in stored
  /\ \A r \in Relays : \A i, j \in 1..Len(batch[r]) :
       batch[r][i].event = batch[r][j].event => i = j
  /\ \A r \in Relays : \A e \in Held(r) : row[e] # "absent"

\* While every lease outlives its batch, a row waits exactly as long as the lease of
\* the one relay that holds it.
LeaseControl ==
  ~overrun =>
    /\ \A q, r \in Relays : q # r => Held(q) \cap Held(r) = {}
    /\ \A r \in Relays : \A e \in Held(r) : wait[e] = lease[r] /\ lease[r] > 0

BeingMarked(e) == \E r \in Relays : phase[r] = "marking" /\ Current(r) = e

\* Every publish but the one that is marked, or being marked, has its excuse.
SendControl ==
  ~overrun =>
    \A e \in Events : /\ sends[e] <= excuses[e] + 1
                      /\ row[e] # "published" /\ ~BeingMarked(e) => sends[e] <= excuses[e]

OutboxInv ==
  TypeOK /\ LineControl /\ RelayControl /\ PublishedIsStored /\ LeaseControl /\ SendControl
=============================================================================
