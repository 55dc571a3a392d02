-------------------------- MODULE EntryOpportunityQueue --------------------------
(***************************************************************************)
(* The durable command queue of the Entry Opportunity service: rows of     *)
(* entry_opportunity_commands in PostgreSQL, filled by the ingress of each *)
(* service process (EntryOpportunityCommandIngress) and drained by its     *)
(* processor (EntryOpportunityCommandProcessor) under one transaction-     *)
(* scoped advisory lock.                                                   *)
(*                                                                         *)
(* What is abstracted.  A command is its source event.  The pair           *)
(* (created_at, id) that orders the queue is one number, stamp, taken from *)
(* the clock when the INSERT is built, before its transaction commits.     *)
(* available_at > now is the flag delayed.  A transaction is the interval  *)
(* between the action that takes the advisory lock and the one that commits*)
(* or rolls back: nothing it wrote is visible in between.  The aggregate   *)
(* change and the outbox rows of a command are one entry of applied.       *)
(***************************************************************************)
EXTENDS Integers, Sequences, FiniteSets

CONSTANTS
  Procs,        \* service processes (normally one; two overlap on a redeploy)
  Commands,     \* source events the broker delivers
  Legacy,       \* a row an older release left PROCESSING, or NoCommand
  Cap,          \* 10000 outstanding commands in the code
  MaxAttempts,  \* 5 in the code
  MaxFaults,    \* bound on crashes, restarts and infrastructure errors
  NoCommand,
  NoProc

ASSUME QueueAssumption ==
  /\ Cap \in Nat \ {0}
  /\ MaxAttempts \in Nat \ {0}
  /\ MaxFaults \in Nat
  /\ NoCommand \notin Commands
  /\ NoProc \notin Procs
  /\ Legacy \in Commands \cup {NoCommand}

\* Some process runs, and only so many do.
ASSUME ProcsAssumption == IsFiniteSet(Procs) /\ Procs # {}

VARIABLES
  status,     \* row status; "ABSENT" while there is no committed row
  attempts,   \* row attempts, as committed
  delayed,    \* row available_at lies in the future
  stamp,      \* row (created_at, id)
  applied,    \* commands whose aggregate change and outbox rows are committed
  nextStamp,  \* the clock that stamps rows
  lock,       \* holder of pg_advisory_xact_lock(724031, 1)
  pc,         \* where each processor loop is
  cmd,        \* self._command.id of each processor
  cmdAttempts,\* self._command.attempts of each processor
  recovered,  \* self._recovered of each processor
  ready,      \* "ready": the readiness file of a process exists; "full": removed
              \* by a healthy report of a full queue; "none": no healthy report
  ipc,        \* where each ingress is
  icmd,       \* delivery each ingress holds (one: self._lock)
  istamp,     \* created_at of the INSERT an ingress has in flight
  acked,      \* deliveries the broker saw acknowledged
  failures,   \* history: handler failures of each command
  faults      \* crashes, restarts and errors so far

rowVars  == <<status, attempts, delayed, stamp>>
procVars == <<pc, cmd, cmdAttempts, recovered, ready>>
inVars   == <<ipc, icmd, istamp>>
vars == <<status, attempts, delayed, stamp, applied, nextStamp, lock, pc, cmd,
          cmdAttempts, recovered, ready, ipc, icmd, istamp, acked, failures, faults>>

RowStatus == {"ABSENT", "PENDING", "PROCESSING", "PROCESSED", "FAILED"}

Init ==
  /\ status = [c \in Commands |-> IF c = Legacy THEN "PROCESSING" ELSE "ABSENT"]
  /\ attempts = [c \in Commands |-> 0]
  /\ delayed \in [Commands -> BOOLEAN]
  /\ \A c \in Commands \ {Legacy} : ~delayed[c]
  /\ stamp = [c \in Commands |-> 0]
  /\ applied = <<>>
  /\ nextStamp = 1
  /\ lock = NoProc
  /\ pc = [p \in Procs |-> "idle"]
  /\ cmd = [p \in Procs |-> NoCommand]
  /\ cmdAttempts = [p \in Procs |-> 0]
  /\ recovered = [p \in Procs |-> FALSE]
  /\ ready = [p \in Procs |-> "none"]
  /\ ipc = [p \in Procs |-> "idle"]
  /\ icmd = [p \in Procs |-> NoCommand]
  /\ istamp = [p \in Procs |-> 0]
  /\ acked = {}
  /\ failures = [c \in Commands |-> 0]
  /\ faults = 0

-----------------------------------------------------------------------------
(* Rows *)

Outstanding == {c \in Commands : status[c] \notin {"ABSENT", "PROCESSED"}}

\* backlog_size: the rows that are not PROCESSED.
BacklogSize == Cardinality(Outstanding)

\* The row claim_pending selects: first by (created_at, id) of the rows that
\* are not PROCESSED, whatever their state and whatever their delay.
IsHeadDue(c) ==
  /\ c \in Outstanding
  /\ ~delayed[c]
  /\ \A d \in Outstanding : ~delayed[d] => stamp[c] <= stamp[d]

IsHead(c) ==
  /\ c \in Outstanding
  /\ \A d \in Outstanding : stamp[c] <= stamp[d]

\* claim_pending counts the attempt it starts.
UncountedAttempt(c) == attempts[c] - 1
NextAttempt(c) == attempts[c] + 1

\* attempts >= 5: the failure being recorded is the last one allowed.
Terminal(n) == n >= MaxAttempts

\* mark_failed leaves a PROCESSED row alone.
AlwaysRecordable(c) == TRUE
Recordable(c) == status[c] # "PROCESSED"

\* A head is due when its delay has passed, or when it is a PROCESSING row that
\* requeue_processing makes available in the same transaction.
Due(p, c) == ~delayed[c] \/ (status[c] = "PROCESSING" /\ ~recovered[p])

\* requeue_processing, run by the first drain of a processor.
RequeuedStatus(p) ==
  [c \in Commands |-> IF ~recovered[p] /\ status[c] = "PROCESSING"
                      THEN "PENDING" ELSE status[c]]
RequeuedDelay(p) ==
  [c \in Commands |-> delayed[c] /\ ~(~recovered[p] /\ status[c] = "PROCESSING")]

-----------------------------------------------------------------------------
(* The processor: EntryOpportunityCommandProcessor.run and drain_once *)

\* The process ends: its tasks are cancelled, its transaction is rolled back and
\* the lock released with the connection; what it kept in memory is gone.
Down(p) ==
  /\ pc' = [pc EXCEPT ![p] = "down"]
  /\ cmd' = [cmd EXCEPT ![p] = NoCommand]
  /\ cmdAttempts' = [cmdAttempts EXCEPT ![p] = 0]
  /\ recovered' = [recovered EXCEPT ![p] = FALSE]
  /\ lock' = IF lock = p THEN NoProc ELSE lock
  /\ ipc' = [ipc EXCEPT ![p] = "idle"]
  /\ icmd' = [icmd EXCEPT ![p] = NoCommand]
  /\ istamp' = [istamp EXCEPT ![p] = 0]

\* An exception leaves run: gather raises, and the finally block removes the
\* readiness file.
Stop(p) == Down(p) /\ ready' = [ready EXCEPT ![p] = "none"]

Goto(p, where) == pc' = [pc EXCEPT ![p] = where]

\* Back to the top of run, where drain_once forgets the command.
Loop(p) ==
  /\ Goto(p, "idle")
  /\ cmd' = [cmd EXCEPT ![p] = NoCommand]
  /\ cmdAttempts' = [cmdAttempts EXCEPT ![p] = 0]

Withdraw(p) == ready' = [ready EXCEPT ![p] = "none"]

\* drain_once takes the lock, requeues on its first run and claims the head;
\* the transaction stays open while the handler runs.
ClaimHead(p) ==
  /\ pc[p] = "idle"
  /\ lock = NoProc
  /\ \E c \in Commands :
       /\ IsHead(c)
       /\ status[c] # "FAILED"
       /\ Due(p, c)
       /\ cmd' = [cmd EXCEPT ![p] = c]
       /\ cmdAttempts' = [cmdAttempts EXCEPT ![p] = NextAttempt(c)]
  /\ lock' = p
  /\ Goto(p, "applying")
  /\ UNCHANGED <<rowVars, applied, nextStamp, recovered, ready, inVars, acked, failures, faults>>

\* drain_once finds no row, or a head that is not due yet: it commits only the
\* requeue and reports no work.
DrainNothing(p) ==
  /\ pc[p] = "idle"
  /\ lock = NoProc
  /\ \A c \in Commands : IsHead(c) => status[c] # "FAILED" /\ ~Due(p, c)
  /\ status' = RequeuedStatus(p)
  /\ delayed' = RequeuedDelay(p)
  /\ cmd' = [cmd EXCEPT ![p] = NoCommand]
  /\ cmdAttempts' = [cmdAttempts EXCEPT ![p] = 0]
  /\ recovered' = [recovered EXCEPT ![p] = TRUE]
  /\ Goto(p, "reporting")
  /\ UNCHANGED <<attempts, stamp, applied, nextStamp, lock, ready, inVars, acked, failures, faults>>

\* claim_pending raises on a FAILED head; no command is set, so run re-raises.
BlockedByFailedHead(p) ==
  /\ pc[p] = "idle"
  /\ lock = NoProc
  /\ \E c \in Commands : IsHead(c) /\ status[c] = "FAILED"
  /\ Stop(p)
  /\ UNCHANGED <<rowVars, applied, nextStamp, acked, failures, faults>>

\* The handler returned, mark_processed ran and the transaction commits: the
\* aggregate change, the outbox rows and the PROCESSED status together.
Commit(p) ==
  /\ pc[p] = "applying"
  /\ status' = [RequeuedStatus(p) EXCEPT ![cmd[p]] = "PROCESSED"]
  /\ attempts' = [attempts EXCEPT ![cmd[p]] = @ + 1]
  /\ delayed' = RequeuedDelay(p)
  /\ applied' = Append(applied, cmd[p])
  /\ lock' = NoProc

CommitDrain(p) ==
  /\ Commit(p)
  /\ recovered' = [recovered EXCEPT ![p] = TRUE]
  /\ Goto(p, "reporting")
  /\ UNCHANGED <<stamp, nextStamp, cmd, cmdAttempts, ready, inVars, acked, failures, faults>>

\* The handler raised something that is not an infrastructure error: rollback,
\* readiness withdrawn, and the failure is still to be recorded.
WorkerDies(p) ==
  /\ pc[p] = "applying"
  /\ lock' = NoProc
  /\ Goto(p, "dead")
  /\ UNCHANGED <<rowVars, applied, nextStamp, cmd, cmdAttempts, recovered, ready, inVars, acked, failures, faults>>
FailsStillReady(p) ==
  /\ pc[p] = "applying"
  /\ lock' = NoProc
  /\ Goto(p, "marking")
  /\ failures' = [failures EXCEPT ![cmd[p]] = @ + 1]
  /\ UNCHANGED <<rowVars, applied, nextStamp, cmd, cmdAttempts, recovered, ready, inVars, acked, faults>>
HandlerFails(p) ==
  /\ pc[p] = "applying"
  /\ lock' = NoProc
  /\ Goto(p, "marking")
  /\ Withdraw(p)
  /\ failures' = [failures EXCEPT ![cmd[p]] = @ + 1]
  /\ UNCHANGED <<rowVars, applied, nextStamp, cmd, cmdAttempts, recovered, inVars, acked, faults>>

\* mark_failed in a transaction of its own, under the writer lock.
RecordFailure(p) ==
  /\ pc[p] = "marking"
  /\ lock = NoProc
  /\ IF Recordable(cmd[p])
     THEN /\ status' = [status EXCEPT ![cmd[p]] =
                          IF Terminal(cmdAttempts[p]) THEN "FAILED" ELSE "PENDING"]
          /\ attempts' = [attempts EXCEPT ![cmd[p]] = @ + 1]
          /\ delayed' = [delayed EXCEPT ![cmd[p]] = TRUE]
     ELSE UNCHANGED <<status, attempts, delayed>>
  /\ UNCHANGED <<stamp, applied, nextStamp, acked, failures>>

\* The failure is recorded; after the last attempt run raises.
MarkFailed(p) ==
  /\ RecordFailure(p)
  /\ IF Terminal(cmdAttempts[p])
     THEN Stop(p)
     ELSE Loop(p) /\ UNCHANGED <<lock, recovered, ready, inVars>>
  /\ UNCHANGED faults

\* report_health(True): skipped within 30 seconds of the last report, otherwise
\* the readiness file follows the backlog.
ReportHealth(p) ==
  /\ pc[p] = "reporting"
  /\ \/ ready' = [ready EXCEPT ![p] = IF BacklogSize < Cap THEN "ready" ELSE "full"]
     \/ ready[p] # "none" /\ UNCHANGED ready
  /\ Loop(p)
  /\ UNCHANGED <<rowVars, applied, nextStamp, lock, recovered, inVars, acked, failures, faults>>

\* The backoff delay of a row (at most 60 seconds) runs out.
DelayPasses(c) ==
  /\ delayed[c]
  /\ delayed' = [delayed EXCEPT ![c] = FALSE]
  /\ UNCHANGED <<status, attempts, stamp, applied, nextStamp, lock, procVars, inVars, acked, failures, faults>>

-----------------------------------------------------------------------------
(* The ingress: EntryOpportunityCommandIngress.enqueue *)

\* A delivery that was not acknowledged reaches the ingress.  While a process
\* holds one its in_progress heartbeats keep the broker from sending it again.
Receive(p, c) ==
  /\ pc[p] # "down"
  /\ ipc[p] = "idle"
  /\ c \notin acked
  /\ \A q \in Procs : icmd[q] # c
  /\ ipc' = [ipc EXCEPT ![p] = "checking"]
  /\ icmd' = [icmd EXCEPT ![p] = c]
  /\ UNCHANGED <<rowVars, applied, nextStamp, lock, procVars, istamp, acked, failures, faults>>

\* Room in the queue: the INSERT is built and its created_at read.  When there
\* is none the ingress sleeps and looks again, so the delivery stays in flight.
RoomUpTo(n) == BacklogSize <= n
Room(n) == BacklogSize < n
CheckOrDrop(p) ==
  /\ ipc[p] = "checking"
  /\ ipc' = [ipc EXCEPT ![p] = IF Room(Cap) THEN "inserting" ELSE "acking"]
  /\ istamp' = [istamp EXCEPT ![p] = nextStamp]
  /\ nextStamp' = nextStamp + 1
  /\ UNCHANGED <<rowVars, applied, lock, procVars, icmd, acked, failures, faults>>
Check(p) ==
  /\ ipc[p] = "checking"
  /\ Room(Cap)
  /\ ipc' = [ipc EXCEPT ![p] = "inserting"]
  /\ istamp' = [istamp EXCEPT ![p] = nextStamp]
  /\ nextStamp' = nextStamp + 1
  /\ UNCHANGED <<rowVars, applied, lock, procVars, icmd, acked, failures, faults>>

\* INSERT ... ON CONFLICT (source_event_id) DO NOTHING, committed.
InsertRow(p) ==
  /\ ipc[p] = "inserting"
  /\ IF status[icmd[p]] = "ABSENT"
     THEN /\ status' = [status EXCEPT ![icmd[p]] = "PENDING"]
          /\ stamp' = [stamp EXCEPT ![icmd[p]] = istamp[p]]
     ELSE UNCHANGED <<status, stamp>>
  /\ UNCHANGED <<attempts, delayed, applied, nextStamp, lock, procVars, icmd, acked, failures>>

Enqueue(p) ==
  /\ InsertRow(p)
  /\ istamp' = [istamp EXCEPT ![p] = 0]
  /\ ipc' = [ipc EXCEPT ![p] = "acking"]
  /\ UNCHANGED faults

\* enqueue returned, the subscription handler returned, the delivery is acked.
Ack(p) ==
  /\ ipc[p] = "acking"
  /\ acked' = acked \cup {icmd[p]}
  /\ ipc' = [ipc EXCEPT ![p] = "idle"]
  /\ icmd' = [icmd EXCEPT ![p] = NoCommand]
  /\ UNCHANGED <<rowVars, applied, nextStamp, lock, procVars, istamp, failures, faults>>

-----------------------------------------------------------------------------
(* Faults *)

Fault == faults < MaxFaults /\ faults' = faults + 1

\* The database drops the connection or the 60 second timeout expires before
\* the commit: rollback, backoff, no attempt is counted.
AbortCounted(p) ==
  /\ Fault
  /\ pc[p] = "applying"
  /\ lock' = NoProc
  /\ Goto(p, "marking")
  /\ Withdraw(p)
  /\ UNCHANGED <<rowVars, applied, nextStamp, cmd, cmdAttempts, recovered, inVars, acked, failures>>
InfraAbort(p) ==
  /\ Fault
  /\ pc[p] \in {"idle", "applying"}
  /\ lock' = IF lock = p THEN NoProc ELSE lock
  /\ Loop(p)
  /\ Withdraw(p)
  /\ UNCHANGED <<rowVars, applied, nextStamp, recovered, inVars, acked, failures>>

\* The commit reached the database, its answer did not reach the process.
CommitUnknown(p) ==
  /\ Fault
  /\ Commit(p)
  /\ Loop(p)
  /\ Withdraw(p)
  /\ UNCHANGED <<stamp, nextStamp, recovered, inVars, acked, failures>>

\* report_health raises after the commit, inside the same try block: an
\* infrastructure error only backs off, any other is taken for a failure of the
\* command that was just committed, or ends the service when there was none.
HealthFails(p) ==
  /\ Fault
  /\ pc[p] = "reporting"
  /\ \/ Loop(p) /\ Withdraw(p) /\ UNCHANGED <<lock, recovered, inVars>>
     \/ /\ cmd[p] # NoCommand
        /\ Goto(p, "marking")
        /\ Withdraw(p)
        /\ UNCHANGED <<lock, cmd, cmdAttempts, recovered, inVars>>
     \/ cmd[p] = NoCommand /\ Stop(p)
  /\ UNCHANGED <<rowVars, applied, nextStamp, acked, failures>>

\* The transaction of mark_failed meets an infrastructure error: the failure is
\* lost, or recorded although the process believes it lost; either way it loops.
MarkInterrupted(p) ==
  /\ Fault
  /\ pc[p] = "marking"
  /\ \/ RecordFailure(p)
     \/ UNCHANGED <<rowVars, applied, nextStamp, acked, failures>>
  /\ Loop(p)
  /\ UNCHANGED <<lock, recovered, ready, inVars>>

\* The ingress transaction fails, with or without its row committed.
IngressInterrupted(p) ==
  /\ Fault
  /\ \/ InsertRow(p)
     \/ /\ ipc[p] = "inserting"
        /\ UNCHANGED <<rowVars, applied, nextStamp, lock, procVars, icmd, acked, failures>>
  /\ ipc' = [ipc EXCEPT ![p] = "checking"]
  /\ istamp' = [istamp EXCEPT ![p] = 0]

\* The acknowledgement is lost: the broker will deliver again.
AckLost(p) ==
  /\ Fault
  /\ ipc[p] = "acking"
  /\ ipc' = [ipc EXCEPT ![p] = "idle"]
  /\ icmd' = [icmd EXCEPT ![p] = NoCommand]
  /\ UNCHANGED <<rowVars, applied, nextStamp, lock, procVars, istamp, acked, failures>>

\* The process is killed: its readiness file stays behind.
Crash(p) ==
  /\ Fault
  /\ pc[p] # "down"
  /\ Down(p)
  /\ UNCHANGED <<rowVars, applied, nextStamp, ready, acked, failures>>

\* An operator starts the process again (no supervisor does): it removes the
\* readiness file first.
Restart(p) ==
  /\ Fault
  /\ pc[p] = "down"
  /\ Goto(p, "idle")
  /\ Withdraw(p)
  /\ UNCHANGED <<rowVars, applied, nextStamp, lock, cmd, cmdAttempts, recovered, inVars, acked, failures>>

-----------------------------------------------------------------------------
Processor(p) ==
  \/ ClaimHead(p) \/ DrainNothing(p) \/ BlockedByFailedHead(p)
  \/ CommitDrain(p) \/ HandlerFails(p) \/ MarkFailed(p) \/ ReportHealth(p)

Ingress(p) == (\E c \in Commands : Receive(p, c)) \/ Check(p) \/ Enqueue(p) \/ Ack(p)

Faults(p) ==
  \/ InfraAbort(p) \/ CommitUnknown(p) \/ HealthFails(p) \/ MarkInterrupted(p)
  \/ IngressInterrupted(p) \/ AckLost(p) \/ Crash(p)

Next ==
  \/ \E p \in Procs : Processor(p) \/ Ingress(p) \/ Faults(p) \/ Restart(p)
  \/ \E c \in Commands : DelayPasses(c)

\* The loops of a live process keep running, delays run out and the broker
\* delivers what is not acknowledged.  Nothing restarts a process that ended.
Fairness ==
  /\ \A p \in Procs : WF_vars(Processor(p)) /\ WF_vars(Ingress(p))
  /\ \A c \in Commands : WF_vars(DelayPasses(c))

Spec == Init /\ [][Next]_vars
FairSpec == Spec /\ Fairness

-----------------------------------------------------------------------------
(* Properties *)

\* Every variable keeps its type (the columns and fields of the code).
TypeOK ==
  /\ status \in [Commands -> RowStatus]
  /\ attempts \in [Commands -> Nat]
  /\ delayed \in [Commands -> BOOLEAN]
  /\ stamp \in [Commands -> Nat]
  /\ applied \in Seq(Commands)
  /\ nextStamp \in Nat
  /\ lock \in Procs \cup {NoProc}
  /\ pc \in [Procs -> {"idle", "applying", "reporting", "marking", "down"}]
  /\ cmd \in [Procs -> Commands \cup {NoCommand}]
  /\ cmdAttempts \in [Procs -> Nat]
  /\ recovered \in [Procs -> BOOLEAN]
  /\ ready \in [Procs -> {"none", "ready", "full"}]
  /\ ipc \in [Procs -> {"idle", "checking", "inserting", "acking"}]
  /\ icmd \in [Procs -> Commands \cup {NoCommand}]
  /\ istamp \in [Procs -> Nat]
  /\ acked \subseteq Commands
  /\ failures \in [Commands -> Nat]
  /\ faults \in 0..MaxFaults

\* The effects of a command (aggregate change, outbox rows) are committed exactly
\* once, and exactly for the rows that are PROCESSED: whatever is retried,
\* redelivered, half committed or applied by an overlapping process.
AppliedExactlyOnce ==
  /\ \A i, j \in 1..Len(applied) : applied[i] = applied[j] => i = j
  /\ \A c \in Commands :
       status[c] = "PROCESSED" <=> \E i \in 1..Len(applied) : applied[i] = c

\* One service process: effects are committed in receipt order, and no command is
\* applied while an earlier one is outstanding, be it delayed or FAILED.
ReceiptOrder ==
  /\ \A i, j \in 1..Len(applied) : i < j => stamp[applied[i]] < stamp[applied[j]]
  /\ \A i \in 1..Len(applied), c \in Outstanding : stamp[applied[i]] < stamp[c]

\* The ingress acknowledges a delivery only when its row is durable: a crash, a
\* lost answer or a full queue loses no command.
AckedIsDurable == \A c \in acked : status[c] # "ABSENT"

\* Infrastructure outages do not consume the retry budget of a command: only
\* failures of its handler are ever counted while it is outstanding.
OutagesKeepBudget == \A c \in Outstanding : attempts[c] <= failures[c]

\* A command is given up only after its whole budget of failures is recorded.
FailedAfterBudget == \A c \in Commands : status[c] = "FAILED" => attempts[c] >= MaxAttempts

\* The capacity check and the INSERT are separate, so the queue may exceed its
\* cap, but by less than one command for every process that shares it.
BacklogBounded == BacklogSize <= Cap + Cardinality(Procs) - 1

\* One service process: a FAILED command withdraws readiness until it is resolved,
\* across restarts.
FailedHeadNotReady ==
  (\E c \in Commands : status[c] = "FAILED") => \A p \in Procs : ready[p] # "ready"

\* An outstanding command is eventually applied, unless the queue is blocked by a
\* FAILED command or every process has ended.
EventuallyDecided ==
  \A c \in Commands :
    c \in Outstanding ~> \/ status[c] = "PROCESSED"
                         \/ \E d \in Commands : status[d] = "FAILED"
                         \/ \A p \in Procs : pc[p] = "down"

\* A FAILED command changes only by an explicit requeue, which no step of the
\* service takes.
FailedStaysFailed ==
  [][\A c \in Commands : status[c] = "FAILED" => status'[c] = "FAILED"]_vars

\* The queue implements an exactly-once log of accepted commands.
Log == INSTANCE CommandLog WITH accepted <- {c \in Commands : status[c] # "ABSENT"}
ImplementsCommandLog == Log!Spec

-----------------------------------------------------------------------------
(* The inductive invariant behind the safety properties *)

\* The lock is held exactly while a claimed command is being applied, and that
\* command is neither absent nor decided; a command in hand has a row, and was
\* claimed with a number of attempts the row has kept up with.
WriterControl ==
  /\ \A p \in Procs : pc[p] = "applying" <=> lock = p
  /\ \A p \in Procs : pc[p] \in {"applying", "marking"} => cmd[p] \in Commands
  /\ \A p \in Procs : pc[p] = "applying" => status[cmd[p]] \in {"PENDING", "PROCESSING"}
  /\ \A p \in Procs : cmd[p] \in Commands =>
       /\ status[cmd[p]] # "ABSENT"
       /\ cmdAttempts[p] <= attempts[cmd[p]] + 1

\* A delivery about to be acknowledged has its row.
IngressControl ==
  /\ \A p \in Procs : ipc[p] # "idle" => icmd[p] \in Commands
  /\ \A p \in Procs : ipc[p] = "acking" => status[icmd[p]] # "ABSENT"

QueueInv ==
  /\ TypeOK
  /\ WriterControl
  /\ IngressControl
  /\ AppliedExactlyOnce
  /\ AckedIsDurable
  /\ FailedAfterBudget
-----------------------------------------------------------------------------
(* With one service process the queue is also ordered *)

Alone == \A p, q \in Procs : p = q

\* Rows are stamped in the order they are committed.
StampControl ==
  /\ \A c \in Commands : status[c] # "ABSENT" => stamp[c] < nextStamp
  /\ \A c, d \in Commands :
       status[c] # "ABSENT" /\ status[d] # "ABSENT" /\ stamp[c] = stamp[d] => c = d
  /\ \A p \in Procs : ipc[p] = "inserting" =>
       /\ istamp[p] < nextStamp
       /\ \A c \in Commands : status[c] # "ABSENT" => stamp[c] < istamp[p]

\* The command in hand is the head of the queue until it is decided.
ClaimControl ==
  \A p \in Procs :
    /\ pc[p] \in {"applying", "marking"} /\ cmd[p] \in Outstanding => IsHead(cmd[p])
    /\ pc[p] = "reporting" /\ cmd[p] \in Commands => status[cmd[p]] = "PROCESSED"

\* A FAILED command is the head, and the process that meets it is not ready.
FailedControl ==
  /\ \A c \in Commands : status[c] = "FAILED" =>
       IsHead(c) /\ \A p \in Procs : pc[p] \in {"idle", "down"} /\ ready[p] # "ready"
  /\ \A p \in Procs : pc[p] = "marking" => ready[p] = "none"

AloneInv == StampControl /\ ClaimControl /\ FailedControl /\ ReceiptOrder
=============================================================================
