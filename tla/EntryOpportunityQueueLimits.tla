---------------------- MODULE EntryOpportunityQueueLimits ----------------------
(* The limits of the command queue, for every number of processes and      *)
(* commands: its retry budget and its capacity.                            *)
EXTENDS EntryOpportunityQueueProofs, FiniteSetTheorems

-----------------------------------------------------------------------------
(* Outages do not consume the retry budget: the attempts a row has counted *)
(* and those about to be counted are all failures of its handler.          *)

\* The processes that are about to record a failure of command c.
Markers(c) == {p \in Procs : pc[p] = "marking" /\ cmd[p] = c}

\* What a process reports on after a drain is decided.
Reported ==
  \A p \in Procs : pc[p] = "reporting" /\ cmd[p] \in Commands => status[cmd[p]] = "PROCESSED"

Counted(c) == attempts[c] + Cardinality(Markers(c)) <= failures[c]

\* A command that is not PROCESSED has at least as many failures.
Budgeted == \A c \in Commands : status[c] # "PROCESSED" => Counted(c)

\* What a step does to the account of a command that it leaves undecided.
Idle(c) ==
  /\ attempts'[c] = attempts[c] /\ failures'[c] = failures[c]
  /\ Markers(c)' \subseteq Markers(c)
Fails(c) ==
  /\ attempts'[c] = attempts[c] /\ failures'[c] = failures[c] + 1
  /\ \E p \in Procs : p \notin Markers(c) /\ Markers(c)' = Markers(c) \cup {p}
Records(c) ==
  /\ attempts'[c] = attempts[c] + 1 /\ failures'[c] = failures[c]
  /\ \E p \in Markers(c) : Markers(c)' = Markers(c) \ {p}

BudgetKept == \A c \in Commands : status'[c] # "PROCESSED" =>
                status[c] # "PROCESSED" /\ (Idle(c) \/ Fails(c) \/ Records(c))

LEMMA MarkersFinite ==
  ASSUME NEW c \in Commands
  PROVE  IsFiniteSet(Markers(c)) /\ Cardinality(Markers(c)) \in Nat
<1>1. Markers(c) \subseteq Procs
  BY DEF Markers
<1>2. QED
  BY <1>1, ProcsAssumption, FS_Subset, FS_CardinalityType

\* Accounts that stay, while a process that does not mark goes anywhere else.
LEMMA SameAccounts ==
  ASSUME TypeOK, RowStep, UNCHANGED <<attempts, failures>>,
         \A q \in Procs : pc'[q] = "marking" => pc[q] = "marking" /\ cmd'[q] = cmd[q]
  PROVE  BudgetKept
<1>1. \A c \in Commands : Markers(c)' \subseteq Markers(c)
  BY DEF Markers
<1>2. QED
  BY <1>1, ProcessedStays DEF BudgetKept, Idle

\* A commit moves only the account of the command it decides.
LEMMA CommitAccounts ==
  ASSUME TypeOK, WriterControl, RowStep, NEW p \in Procs, Commit(p), UNCHANGED failures,
         \A q \in Procs : pc'[q] = "marking" => pc[q] = "marking" /\ cmd'[q] = cmd[q]
  PROVE  BudgetKept
<1>1. CommitEffect(p)
  BY CommitFacts
<1>2. \A c \in Commands : status'[c] # "PROCESSED" => c # cmd[p]
  BY <1>1 DEF CommitEffect
<1>3. \A c \in Commands : c # cmd[p] => attempts'[c] = attempts[c]
  BY <1>1 DEF CommitEffect, Commit, TypeOK
<1>4. \A c \in Commands : Markers(c)' \subseteq Markers(c)
  BY DEF Markers
<1>5. QED
  BY <1>2, <1>3, <1>4, ProcessedStays DEF BudgetKept, Idle

\* A recorded failure is taken from the marker's account, when the row takes it.
LEMMA RecordAccounts ==
  ASSUME TypeOK, WriterControl, RowStep, NEW p \in Procs, RecordFailure(p), pc'[p] # "marking",
         \A q \in Procs \ {p} : pc'[q] = pc[q] /\ cmd'[q] = cmd[q]
  PROVE  BudgetKept
<1>1. cmd[p] \in Commands /\ pc[p] = "marking" /\ failures' = failures
  BY DEF RecordFailure, WriterControl
<1>2. \A c \in Commands : Markers(c)' = Markers(c) \ {p}
  BY DEF Markers
<1>3. p \in Markers(cmd[p])
  BY <1>1 DEF Markers
<1>4. CASE Recordable(cmd[p])
  <2>1. attempts' = [attempts EXCEPT ![cmd[p]] = @ + 1]
    BY <1>4 DEF RecordFailure
  <2>2. \A c \in Commands : attempts'[c] = IF c = cmd[p] THEN attempts[c] + 1 ELSE attempts[c]
    BY <2>1 DEF TypeOK
  <2>3. \A c \in Commands : c # cmd[p] => Idle(c)
    BY <1>1, <1>2, <2>2 DEF Idle
  <2>4. \A c \in Commands : c = cmd[p] => Records(c)
    BY <1>1, <1>2, <1>3, <2>2 DEF Records
  <2>5. QED
    BY <2>3, <2>4, ProcessedStays DEF BudgetKept
<1>5. CASE ~Recordable(cmd[p])
  <2>1. attempts' = attempts
    BY <1>5 DEF RecordFailure
  <2>2. \A c \in Commands : Idle(c)
    BY <1>1, <1>2, <2>1 DEF Idle
  <2>3. QED
    BY <2>2, ProcessedStays DEF BudgetKept
<1>6. QED
  BY <1>4, <1>5

\* Every step keeps the accounts.
LEMMA BudgetKind ==
  TypeOK /\ WriterControl /\ IngressControl /\ Reported /\ [Next]_vars => BudgetKept
<1> SUFFICES ASSUME TypeOK, WriterControl, IngressControl, Reported, [Next]_vars
             PROVE  BudgetKept
  OBVIOUS
<1> USE QueueAssumption
<1>0. RowStep
  BY StepKind
<1>1. ASSUME NEW p \in Procs, Processor(p) PROVE BudgetKept
  <2>1. CASE HandlerFails(p)
    <3>1. /\ pc[p] = "applying" /\ cmd[p] \in Commands /\ pc' = [pc EXCEPT ![p] = "marking"]
          /\ failures' = [failures EXCEPT ![cmd[p]] = @ + 1]
          /\ UNCHANGED <<attempts, cmd>>
      BY <2>1 DEF HandlerFails, Goto, WriterControl, rowVars
    <3>2. \A c \in Commands : failures'[c] = IF c = cmd[p] THEN failures[c] + 1 ELSE failures[c]
      BY <3>1 DEF TypeOK
    <3>3. \A c \in Commands : c # cmd[p] => Markers(c)' = Markers(c)
      BY <3>1 DEF Markers, TypeOK
    <3>4. \A c \in Commands : c = cmd[p] =>
            p \notin Markers(c) /\ Markers(c)' = Markers(c) \cup {p}
      BY <3>1 DEF Markers, TypeOK
    <3>5. \A c \in Commands : c = cmd[p] => Fails(c)
      BY <3>1, <3>2, <3>4 DEF Fails
    <3>6. \A c \in Commands : c # cmd[p] => Idle(c)
      BY <3>1, <3>2, <3>3 DEF Idle
    <3>7. QED
      BY <1>0, <3>5, <3>6, ProcessedStays DEF BudgetKept
  <2>2. CASE CommitDrain(p)
    <3>1. Commit(p) /\ UNCHANGED <<cmd, failures>> /\ pc' = [pc EXCEPT ![p] = "reporting"]
      BY <2>2 DEF CommitDrain, Goto
    <3>2. \A q \in Procs : pc'[q] = "marking" => pc[q] = "marking" /\ cmd'[q] = cmd[q]
      BY <3>1 DEF TypeOK
    <3>3. QED
      BY <1>0, <3>1, <3>2, CommitAccounts
  <2>3. CASE MarkFailed(p)
    <3>1. RecordFailure(p)
      BY <2>3 DEF MarkFailed
    <3>2. pc'[p] # "marking" /\ \A q \in Procs \ {p} : pc'[q] = pc[q] /\ cmd'[q] = cmd[q]
      BY <2>3 DEF MarkFailed, Stop, Down, Loop, Goto, TypeOK
    <3>3. QED
      BY <1>0, <3>1, <3>2, RecordAccounts
  <2>4. CASE ClaimHead(p)
    <3>1. PICK c \in Commands : cmd' = [cmd EXCEPT ![p] = c]
      BY <2>4 DEF ClaimHead
    <3>2. UNCHANGED <<attempts, failures>> /\ pc' = [pc EXCEPT ![p] = "applying"]
      BY <2>4 DEF ClaimHead, Goto, rowVars
    <3>3. \A q \in Procs : pc'[q] = "marking" => pc[q] = "marking" /\ cmd'[q] = cmd[q]
      BY <3>1, <3>2 DEF TypeOK
    <3>4. QED
      BY <1>0, <3>2, <3>3, SameAccounts
  <2>5. CASE DrainNothing(p)
    BY <1>0, <2>5, SameAccounts DEF DrainNothing, Goto, TypeOK
  <2>6. CASE BlockedByFailedHead(p)
    BY <1>0, <2>6, SameAccounts DEF BlockedByFailedHead, Stop, Down, rowVars, TypeOK
  <2>7. CASE ReportHealth(p)
    BY <1>0, <2>7, SameAccounts DEF ReportHealth, Loop, Goto, rowVars, TypeOK
  <2>8. QED
    BY <1>1, <2>1, <2>2, <2>3, <2>4, <2>5, <2>6, <2>7 DEF Processor
<1>2. ASSUME NEW p \in Procs, Ingress(p) PROVE BudgetKept
  <2>1. UNCHANGED <<attempts, failures, pc, cmd>>
    BY <1>2 DEF Ingress, Receive, Check, Enqueue, InsertRow, Ack, rowVars, procVars
  <2>2. QED
    BY <1>0, <2>1, SameAccounts
<1>3. ASSUME NEW p \in Procs, Faults(p) PROVE BudgetKept
  <2>1. CASE CommitUnknown(p)
    <3>1. /\ Commit(p) /\ UNCHANGED failures
          /\ pc' = [pc EXCEPT ![p] = "idle"] /\ cmd' = [cmd EXCEPT ![p] = NoCommand]
      BY <2>1 DEF CommitUnknown, Loop, Goto
    <3>2. \A q \in Procs : pc'[q] = "marking" => pc[q] = "marking" /\ cmd'[q] = cmd[q]
      BY <3>1 DEF TypeOK
    <3>3. QED
      BY <1>0, <3>1, <3>2, CommitAccounts
  <2>2. CASE MarkInterrupted(p)
    <3>1. pc' = [pc EXCEPT ![p] = "idle"] /\ cmd' = [cmd EXCEPT ![p] = NoCommand]
      BY <2>2 DEF MarkInterrupted, Loop, Goto
    <3>2. pc'[p] # "marking" /\ \A q \in Procs \ {p} : pc'[q] = pc[q] /\ cmd'[q] = cmd[q]
      BY <3>1 DEF TypeOK
    <3>3. CASE RecordFailure(p)
      BY <1>0, <3>2, <3>3, RecordAccounts
    <3>4. CASE UNCHANGED <<rowVars, applied, nextStamp, acked, failures>>
      BY <1>0, <3>2, <3>4, SameAccounts DEF rowVars
    <3>5. QED
      BY <2>2, <3>3, <3>4 DEF MarkInterrupted
  <2>3. CASE HealthFails(p)
    <3>1. pc[p] = "reporting" /\ UNCHANGED <<status, attempts, failures>>
      BY <2>3 DEF HealthFails, rowVars
    <3>2. CASE Loop(p) \/ Stop(p)
      <4>1. \A q \in Procs : pc'[q] = "marking" => pc[q] = "marking" /\ cmd'[q] = cmd[q]
        BY <3>2 DEF Loop, Stop, Down, Goto, TypeOK
      <4>2. QED
        BY <1>0, <3>1, <4>1, SameAccounts
    <3>3. CASE cmd[p] # NoCommand /\ Goto(p, "marking") /\ UNCHANGED cmd
      <4>1. cmd[p] \in Commands /\ status[cmd[p]] = "PROCESSED"
        BY <3>1, <3>3 DEF TypeOK, Reported
      <4>2. \A c \in Commands : c # cmd[p] => Markers(c)' = Markers(c)
        BY <3>3 DEF Goto, Markers, TypeOK
      <4>3. \A c \in Commands : status'[c] # "PROCESSED" => c # cmd[p]
        BY <3>1, <4>1
      <4>4. QED
        BY <3>1, <4>2, <4>3 DEF BudgetKept, Idle
    <3>4. QED
      BY <2>3, <3>2, <3>3 DEF HealthFails
  <2>4. CASE InfraAbort(p)
    BY <1>0, <2>4, SameAccounts DEF InfraAbort, Loop, Goto, rowVars, TypeOK
  <2>5. CASE IngressInterrupted(p)
    <3>1. UNCHANGED <<attempts, failures, pc, cmd>>
      BY <2>5 DEF IngressInterrupted, InsertRow, rowVars, procVars
    <3>2. QED
      BY <1>0, <3>1, SameAccounts
  <2>6. CASE AckLost(p)
    BY <1>0, <2>6, SameAccounts DEF AckLost, rowVars, procVars
  <2>7. CASE Crash(p)
    BY <1>0, <2>7, SameAccounts DEF Crash, Down, rowVars, TypeOK
  <2>8. QED
    BY <1>3, <2>1, <2>2, <2>3, <2>4, <2>5, <2>6, <2>7 DEF Faults
<1>4. ASSUME NEW p \in Procs, Restart(p) PROVE BudgetKept
  BY <1>0, <1>4, SameAccounts DEF Restart, Goto, rowVars, TypeOK
<1>5. ASSUME NEW c \in Commands, DelayPasses(c) PROVE BudgetKept
  BY <1>0, <1>5, SameAccounts DEF DelayPasses, procVars
<1>6. CASE UNCHANGED vars
  BY <1>0, <1>6, SameAccounts DEF vars
<1>7. QED
  BY <1>1, <1>2, <1>3, <1>4, <1>5, <1>6 DEF Next

\* What is reported on stays decided.
LEMMA ReportedStep ==
  TypeOK /\ WriterControl /\ IngressControl /\ Reported /\ [Next]_vars => Reported'
<1> SUFFICES ASSUME TypeOK, WriterControl, IngressControl, Reported, [Next]_vars
             PROVE  Reported'
  OBVIOUS
<1> USE QueueAssumption
<1>0. RowStep
  BY StepKind
<1>a. ASSUME \A q \in Procs : pc'[q] = "reporting" =>
               cmd'[q] \notin Commands \/ (pc[q] = "reporting" /\ cmd'[q] = cmd[q])
      PROVE  Reported'
  <2> SUFFICES ASSUME NEW q \in Procs, pc'[q] = "reporting", cmd'[q] \in Commands
               PROVE  status'[cmd'[q]] = "PROCESSED"
    BY DEF Reported
  <2>1. pc[q] = "reporting" /\ cmd'[q] = cmd[q] /\ status[cmd[q]] = "PROCESSED"
    BY <1>a DEF Reported
  <2>2. QED
    BY <1>0, <2>1, ProcessedStays
<1>1. ASSUME NEW p \in Procs, Processor(p) PROVE Reported'
  <2>1. CASE CommitDrain(p)
    <3>1. CommitEffect(p) /\ UNCHANGED cmd /\ pc' = [pc EXCEPT ![p] = "reporting"]
      BY <2>1, CommitFacts DEF CommitDrain, Goto
    <3>2. ASSUME NEW q \in Procs, pc'[q] = "reporting", cmd'[q] \in Commands
          PROVE  status'[cmd'[q]] = "PROCESSED"
      <4>1. CASE q = p
        BY <3>1, <4>1 DEF CommitEffect
      <4>2. CASE q # p
        <5>1. pc[q] = "reporting" /\ cmd[q] \in Commands /\ cmd'[q] = cmd[q]
          BY <3>1, <3>2, <4>2 DEF TypeOK
        <5>2. QED
          BY <1>0, <5>1, ProcessedStays DEF Reported
      <4>3. QED
        BY <4>1, <4>2
    <3>3. QED
      BY <3>2 DEF Reported
  <2>2. CASE ClaimHead(p)
    <3>1. PICK c \in Commands : cmd' = [cmd EXCEPT ![p] = c]
      BY <2>2 DEF ClaimHead
    <3>2. QED
      BY <1>a, <2>2, <3>1 DEF ClaimHead, Goto, TypeOK
  <2>3. CASE DrainNothing(p)
    BY <1>a, <2>3 DEF DrainNothing, Goto, TypeOK
  <2>4. CASE BlockedByFailedHead(p)
    BY <1>a, <2>4 DEF BlockedByFailedHead, Stop, Down, TypeOK
  <2>5. CASE HandlerFails(p)
    BY <1>a, <2>5 DEF HandlerFails, Goto, TypeOK
  <2>6. CASE MarkFailed(p)
    BY <1>a, <2>6 DEF MarkFailed, Stop, Down, Loop, Goto, TypeOK
  <2>7. CASE ReportHealth(p)
    BY <1>a, <2>7 DEF ReportHealth, Loop, Goto, TypeOK
  <2>8. QED
    BY <1>1, <2>1, <2>2, <2>3, <2>4, <2>5, <2>6, <2>7 DEF Processor
<1>2. ASSUME NEW p \in Procs, Ingress(p) PROVE Reported'
  <2>1. UNCHANGED <<pc, cmd>>
    BY <1>2 DEF Ingress, Receive, Check, Enqueue, InsertRow, Ack, procVars
  <2>2. QED
    BY <1>a, <2>1
<1>3. ASSUME NEW p \in Procs, Faults(p) PROVE Reported'
  <2>1. CASE IngressInterrupted(p) \/ AckLost(p)
    <3>1. UNCHANGED <<pc, cmd>>
      BY <2>1 DEF IngressInterrupted, AckLost, InsertRow, procVars
    <3>2. QED
      BY <1>a, <3>1
  <2>2. CASE CommitUnknown(p) \/ InfraAbort(p) \/ MarkInterrupted(p)
    <3>1. Loop(p)
      BY <2>2 DEF CommitUnknown, InfraAbort, MarkInterrupted
    <3>2. QED
      BY <1>a, <3>1 DEF Loop, Goto, TypeOK
  <2>3. CASE HealthFails(p)
    BY <1>a, <2>3 DEF HealthFails, Loop, Goto, Stop, Down, TypeOK
  <2>4. CASE Crash(p)
    BY <1>a, <2>4 DEF Crash, Down, TypeOK
  <2>5. QED
    BY <1>3, <2>1, <2>2, <2>3, <2>4 DEF Faults
<1>4. ASSUME NEW p \in Procs, Restart(p) PROVE Reported'
  BY <1>a, <1>4 DEF Restart, Goto, TypeOK
<1>5. ASSUME NEW c \in Commands, DelayPasses(c) PROVE Reported'
  BY <1>a, <1>5 DEF DelayPasses, procVars
<1>6. CASE UNCHANGED vars
  BY <1>a, <1>6 DEF vars
<1>7. QED
  BY <1>1, <1>2, <1>3, <1>4, <1>5, <1>6 DEF Next

\* Accounts that are kept stay covered.
LEMMA BudgetedStep ==
  ASSUME TypeOK, TypeOK', Budgeted, BudgetKept
  PROVE  Budgeted'
<1> SUFFICES ASSUME NEW c \in Commands, status'[c] # "PROCESSED"
             PROVE  attempts'[c] + Cardinality(Markers(c)') <= failures'[c]
  BY DEF Budgeted, Counted
<1>1. /\ attempts[c] + Cardinality(Markers(c)) <= failures[c]
      /\ Idle(c) \/ Fails(c) \/ Records(c)
      /\ attempts[c] \in Nat /\ failures[c] \in Nat
  BY DEF Budgeted, Counted, BudgetKept, TypeOK
<1>2. IsFiniteSet(Markers(c)) /\ Cardinality(Markers(c)) \in Nat
  BY MarkersFinite
<1>3. CASE Idle(c)
  <2>1. Cardinality(Markers(c)') <= Cardinality(Markers(c)) /\ Cardinality(Markers(c)') \in Nat
    BY <1>2, <1>3, FS_Subset, FS_CardinalityType DEF Idle
  <2>2. QED
    BY <1>1, <1>2, <1>3, <2>1 DEF Idle
<1>4. CASE Fails(c)
  <2>1. PICK p \in Procs : p \notin Markers(c) /\ Markers(c)' = Markers(c) \cup {p}
    BY <1>4 DEF Fails
  <2>2. Cardinality(Markers(c)') = Cardinality(Markers(c)) + 1
    BY <1>2, <2>1, FS_AddElement
  <2>3. QED
    BY <1>1, <1>2, <1>4, <2>2 DEF Fails
<1>5. CASE Records(c)
  <2>1. PICK p \in Markers(c) : Markers(c)' = Markers(c) \ {p}
    BY <1>5 DEF Records
  <2>2. Cardinality(Markers(c)') = Cardinality(Markers(c)) - 1
    BY <1>2, <2>1, FS_RemoveElement
  <2>3. QED
    BY <1>1, <1>2, <1>5, <2>2 DEF Records
<1>6. QED
  BY <1>1, <1>3, <1>4, <1>5

\* No attempt that mark_failed counted for an undecided command was anything but
\* a failure of its handler, however many processes, outages and lost answers.
THEOREM QueueKeepsBudget == Spec => []OutagesKeepBudget
<1> DEFINE I == Reported /\ Budgeted
<1>1. Init => I
  <2> SUFFICES ASSUME Init PROVE I
    OBVIOUS
  <2>1. Reported
    BY DEF Init, Reported
  <2>2. \A c \in Commands : attempts[c] = 0 /\ failures[c] = 0 /\ Markers(c) = {}
    BY DEF Init, Markers
  <2>3. \A c \in Commands : Counted(c)
    BY <2>2, FS_EmptySet DEF Counted
  <2>4. QED
    BY <2>1, <2>3 DEF Budgeted
<1>2. QueueInv /\ QueueInv' /\ I /\ [Next]_vars => I'
  <2> SUFFICES ASSUME QueueInv, QueueInv', I, [Next]_vars PROVE I'
    OBVIOUS
  <2>1. TypeOK /\ TypeOK' /\ WriterControl /\ IngressControl
    BY DEF QueueInv
  <2>2. Reported'
    BY <2>1, ReportedStep
  <2>3. BudgetKept
    BY <2>1, BudgetKind
  <2>4. QED
    BY <2>1, <2>2, <2>3, BudgetedStep
<1>3. QueueInv /\ I => OutagesKeepBudget
  <2> SUFFICES ASSUME TypeOK, Budgeted, NEW c \in Outstanding
               PROVE  attempts[c] <= failures[c]
    BY DEF QueueInv, OutagesKeepBudget
  <2>1. /\ c \in Commands /\ attempts[c] \in Nat /\ failures[c] \in Nat
        /\ attempts[c] + Cardinality(Markers(c)) <= failures[c]
    BY DEF Outstanding, Budgeted, Counted, TypeOK
  <2>2. Cardinality(Markers(c)) \in Nat
    BY <2>1, MarkersFinite
  <2>3. QED
    BY <2>1, <2>2
<1>4. QED
  BY <1>1, <1>2, <1>3, QueueInvariant, PTL DEF Spec

-----------------------------------------------------------------------------
(* The queue exceeds its capacity by less than one row for every process:  *)
(* the rows there are and those about to be inserted stay within that      *)
(* bound together.                                                         *)

Inserting == {p \in Procs : ipc[p] = "inserting"}

\* Every process that found room may still add its row.
Reserved ==
  /\ IsFiniteSet(Outstanding)
  /\ BacklogSize + Cardinality(Inserting) <= Cap + Cardinality(Procs) - 1

\* Nothing new is outstanding and no ingress begins to insert.
Shrinks == Outstanding' \subseteq Outstanding /\ Inserting' \subseteq Inserting

\* One ingress finds room.
FindsRoom ==
  /\ BacklogSize < Cap
  /\ Outstanding' = Outstanding

\* One ingress is done with its INSERT.
Inserts(p) ==
  /\ p \in Inserting
  /\ Inserting' = Inserting \ {p}
  /\ Outstanding' \subseteq Outstanding \cup {icmd[p]}

CapacityStep == Shrinks \/ FindsRoom \/ \E p \in Procs : Inserts(p)

LEMMA InsertingFinite == IsFiniteSet(Inserting) /\ Cardinality(Inserting) \in Nat
                         /\ Cardinality(Inserting) <= Cardinality(Procs)
<1>1. Inserting \subseteq Procs
  BY DEF Inserting
<1>2. QED
  BY <1>1, ProcsAssumption, FS_Subset, FS_CardinalityType

\* A committed or interrupted INSERT ends the claim of its ingress on a place.
LEMMA InsertCapacity ==
  ASSUME TypeOK, IngressControl, NEW p \in Procs, InsertRow(p), NEW next,
         ipc' = [ipc EXCEPT ![p] = next], next # "inserting"
  PROVE  Inserts(p)
<1>1. InsertEffect(p)
  BY InsertFacts
<1>2. p \in Inserting /\ Inserting' = Inserting \ {p}
  BY <1>1 DEF InsertEffect, Inserting, TypeOK
<1>3. \A c \in Commands : c # icmd[p] => status'[c] = status[c]
  BY DEF InsertRow, TypeOK
<1>4. Outstanding' \subseteq Outstanding \cup {icmd[p]}
  BY <1>3 DEF Outstanding
<1>5. QED
  BY <1>2, <1>4 DEF Inserts

\* Rows that stay as they are, beside an ingress that goes elsewhere.
LEMMA SameRowsShrink ==
  ASSUME TypeOK, UNCHANGED status,
         ipc' = ipc \/ \E p \in Procs, next \in {"idle", "checking", "acking"} :
                          ipc' = [ipc EXCEPT ![p] = next]
  PROVE  Shrinks
<1>1. Outstanding' = Outstanding
  BY DEF Outstanding
<1>2. Inserting' \subseteq Inserting
  BY DEF Inserting, TypeOK
<1>3. QED
  BY <1>1, <1>2 DEF Shrinks

\* Quiet rows of an ingress that stays, or that the end of its process resets.
LEMMA QuietShrink ==
  ASSUME TypeOK, Quiet, ipc' = ipc \/ \E p \in Procs : ipc' = [ipc EXCEPT ![p] = "idle"]
  PROVE  Shrinks
<1>1. Outstanding' \subseteq Outstanding
  BY DEF Outstanding, Quiet
<1>2. Inserting' \subseteq Inserting
  BY DEF Inserting, TypeOK
<1>3. QED
  BY <1>1, <1>2 DEF Shrinks

\* A commit takes its row out of the backlog.
LEMMA CommitShrink ==
  ASSUME TypeOK, NEW p \in Procs, CommitEffect(p), ipc' = ipc
  PROVE  Shrinks
<1>1. Outstanding' \subseteq Outstanding
  <2> SUFFICES ASSUME NEW c \in Commands, status'[c] \notin {"ABSENT", "PROCESSED"}
               PROVE  status[c] \notin {"ABSENT", "PROCESSED"}
    BY DEF Outstanding
  <2>1. c # cmd[p]
    BY DEF CommitEffect
  <2>2. QED
    BY <2>1 DEF CommitEffect
<1>2. Inserting' = Inserting
  BY DEF Inserting
<1>3. QED
  BY <1>1, <1>2 DEF Shrinks

\* Every step is of one of the three kinds.
LEMMA CapacityKind ==
  TypeOK /\ WriterControl /\ IngressControl /\ [Next]_vars => CapacityStep
<1> SUFFICES ASSUME TypeOK, WriterControl, IngressControl, [Next]_vars
             PROVE  CapacityStep
  OBVIOUS
<1>1. ASSUME NEW p \in Procs, Processor(p) PROVE CapacityStep
  <2>1. CASE CommitDrain(p)
    BY <2>1, CommitFacts, CommitShrink DEF CommitDrain, inVars, CapacityStep
  <2>2. CASE DrainNothing(p)
    <3>1. RequeueEffect(p)
      BY RequeueFacts
    <3>2. status' = RequeuedStatus(p) /\ UNCHANGED <<attempts, applied, ipc>>
      BY <2>2 DEF DrainNothing, inVars
    <3>3. \A c \in Commands : attempts[c] \in Nat
      BY DEF TypeOK
    <3>4. Quiet
      BY <3>1, <3>2, <3>3 DEF RequeueEffect, Quiet
    <3>5. QED
      BY <3>2, <3>4, QuietShrink DEF CapacityStep
  <2>3. CASE MarkFailed(p)
    <3>1. Quiet
      BY <2>3, RecordFacts DEF MarkFailed, RecordEffect, Quiet
    <3>2. ipc' = ipc \/ ipc' = [ipc EXCEPT ![p] = "idle"]
      BY <2>3 DEF MarkFailed, Stop, Down, inVars
    <3>3. QED
      BY <3>1, <3>2, QuietShrink DEF CapacityStep
  <2>4. CASE ClaimHead(p)
    BY <2>4, SameRowsShrink DEF ClaimHead, rowVars, inVars, CapacityStep
  <2>5. CASE BlockedByFailedHead(p)
    BY <2>5, SameRowsShrink DEF BlockedByFailedHead, Stop, Down, rowVars, CapacityStep
  <2>6. CASE HandlerFails(p)
    BY <2>6, SameRowsShrink DEF HandlerFails, rowVars, inVars, CapacityStep
  <2>7. CASE ReportHealth(p)
    BY <2>7, SameRowsShrink DEF ReportHealth, rowVars, inVars, CapacityStep
  <2>8. QED
    BY <1>1, <2>1, <2>2, <2>3, <2>4, <2>5, <2>6, <2>7 DEF Processor
<1>2. ASSUME NEW p \in Procs, Ingress(p) PROVE CapacityStep
  <2>1. CASE Enqueue(p)
    <3>1. InsertRow(p) /\ ipc' = [ipc EXCEPT ![p] = "acking"]
      BY <2>1 DEF Enqueue
    <3>2. Inserts(p)
      BY <3>1, InsertCapacity
    <3>3. QED
      BY <3>2 DEF CapacityStep
  <2>2. CASE Check(p)
    <3>1. BacklogSize < Cap /\ status' = status
      BY <2>2 DEF Check, Room, rowVars
    <3>2. QED
      BY <3>1 DEF FindsRoom, Outstanding, CapacityStep
  <2>3. ASSUME NEW c \in Commands, Receive(p, c) PROVE CapacityStep
    BY <2>3, SameRowsShrink DEF Receive, rowVars, CapacityStep
  <2>4. CASE Ack(p)
    BY <2>4, SameRowsShrink DEF Ack, rowVars, CapacityStep
  <2>5. QED
    BY <1>2, <2>1, <2>2, <2>3, <2>4 DEF Ingress
<1>3. ASSUME NEW p \in Procs, Faults(p) PROVE CapacityStep
  <2>1. CASE CommitUnknown(p)
    BY <2>1, CommitFacts, CommitShrink DEF CommitUnknown, inVars, CapacityStep
  <2>2. CASE MarkInterrupted(p)
    <3>1. ipc' = ipc
      BY <2>2 DEF MarkInterrupted, inVars
    <3>2. CASE RecordFailure(p)
      <4>1. Quiet
        BY <3>2, RecordFacts DEF RecordEffect, Quiet
      <4>2. QED
        BY <3>1, <4>1, QuietShrink DEF CapacityStep
    <3>3. CASE UNCHANGED <<rowVars, applied, nextStamp, acked, failures>>
      BY <3>1, <3>3, SameRowsShrink DEF rowVars, CapacityStep
    <3>4. QED
      BY <2>2, <3>2, <3>3 DEF MarkInterrupted
  <2>3. CASE IngressInterrupted(p)
    <3>1. ipc' = [ipc EXCEPT ![p] = "checking"]
      BY <2>3 DEF IngressInterrupted
    <3>2. CASE InsertRow(p)
      <4>1. Inserts(p)
        BY <3>1, <3>2, InsertCapacity
      <4>2. QED
        BY <4>1 DEF CapacityStep
    <3>3. CASE UNCHANGED <<rowVars, applied, nextStamp, lock, procVars, icmd, acked, failures>>
      BY <3>1, <3>3, SameRowsShrink DEF rowVars, CapacityStep
    <3>4. QED
      BY <2>3, <3>2, <3>3 DEF IngressInterrupted
  <2>4. CASE InfraAbort(p)
    BY <2>4, SameRowsShrink DEF InfraAbort, rowVars, inVars, CapacityStep
  <2>5. CASE HealthFails(p)
    BY <2>5, SameRowsShrink DEF HealthFails, Stop, Down, rowVars, inVars, CapacityStep
  <2>6. CASE AckLost(p)
    BY <2>6, SameRowsShrink DEF AckLost, rowVars, CapacityStep
  <2>7. CASE Crash(p)
    BY <2>7, SameRowsShrink DEF Crash, Down, rowVars, CapacityStep
  <2>8. QED
    BY <1>3, <2>1, <2>2, <2>3, <2>4, <2>5, <2>6, <2>7 DEF Faults
<1>4. ASSUME NEW p \in Procs, Restart(p) PROVE CapacityStep
  BY <1>4, SameRowsShrink DEF Restart, rowVars, inVars, CapacityStep
<1>5. ASSUME NEW c \in Commands, DelayPasses(c) PROVE CapacityStep
  BY <1>5, SameRowsShrink DEF DelayPasses, inVars, CapacityStep
<1>6. CASE UNCHANGED vars
  BY <1>6, SameRowsShrink DEF vars, CapacityStep
<1>7. QED
  BY <1>1, <1>2, <1>3, <1>4, <1>5, <1>6 DEF Next

\* Each kind of step keeps the reservation.
LEMMA ReservedStep ==
  ASSUME Reserved, CapacityStep, IsFiniteSet(Inserting)
  PROVE  Reserved'
<1> USE QueueAssumption
<1> DEFINE N == Cardinality(Procs)
<1>1. /\ IsFiniteSet(Outstanding) /\ BacklogSize \in Nat
      /\ BacklogSize + Cardinality(Inserting) <= Cap + N - 1
      /\ Cardinality(Inserting) \in Nat /\ N \in Nat
  BY ProcsAssumption, FS_CardinalityType DEF Reserved, BacklogSize
<1>2. Cardinality(Inserting') \in Nat /\ Cardinality(Inserting') <= N
  <2>1. Inserting' \subseteq Procs
    BY DEF Inserting
  <2>2. QED
    BY <2>1, ProcsAssumption, FS_Subset, FS_CardinalityType
<1>3. CASE Shrinks
  <2>1. /\ IsFiniteSet(Outstanding') /\ Cardinality(Outstanding') <= BacklogSize
        /\ Cardinality(Outstanding') \in Nat
    BY <1>1, <1>3, FS_Subset, FS_CardinalityType DEF Shrinks, BacklogSize
  <2>2. Cardinality(Inserting') <= Cardinality(Inserting)
    BY <1>3, FS_Subset DEF Shrinks
  <2>3. Cardinality(Outstanding') + Cardinality(Inserting') <= Cap + N - 1
    BY <1>1, <1>2, <2>1, <2>2
  <2>4. QED
    BY <2>1, <2>3 DEF Reserved, BacklogSize
<1>4. CASE FindsRoom
  <2>1. BacklogSize < Cap /\ Outstanding' = Outstanding /\ BacklogSize' = BacklogSize
    BY <1>4 DEF FindsRoom, BacklogSize
  <2>2. BacklogSize' + Cardinality(Inserting') <= Cap + N - 1
    BY <1>1, <1>2, <2>1
  <2>3. IsFiniteSet(Outstanding')
    BY <1>1, <2>1
  <2>4. QED
    BY <2>2, <2>3 DEF Reserved
<1>5. ASSUME NEW p \in Procs, Inserts(p) PROVE Reserved'
  <2>1. Cardinality(Inserting') = Cardinality(Inserting) - 1
    BY <1>5, FS_RemoveElement DEF Inserts
  <2>2. /\ IsFiniteSet(Outstanding \cup {icmd[p]})
        /\ Cardinality(Outstanding \cup {icmd[p]}) \in Nat
        /\ Cardinality(Outstanding \cup {icmd[p]}) <= BacklogSize + 1
    <3>1. /\ IsFiniteSet(Outstanding \cup {icmd[p]})
          /\ \/ Cardinality(Outstanding \cup {icmd[p]}) = Cardinality(Outstanding)
             \/ Cardinality(Outstanding \cup {icmd[p]}) = Cardinality(Outstanding) + 1
      BY <1>1, FS_AddElement
    <3>2. QED
      BY <1>1, <3>1 DEF BacklogSize
  <2>3. /\ IsFiniteSet(Outstanding')
        /\ Cardinality(Outstanding') <= Cardinality(Outstanding \cup {icmd[p]})
        /\ Cardinality(Outstanding') \in Nat
    BY <1>5, <2>2, FS_Subset, FS_CardinalityType DEF Inserts
  <2>4. Cardinality(Outstanding') + Cardinality(Inserting') <= Cap + N - 1
    BY <1>1, <1>2, <2>1, <2>2, <2>3
  <2>5. QED
    BY <2>3, <2>4 DEF Reserved, BacklogSize
<1>6. QED
  BY <1>3, <1>4, <1>5 DEF CapacityStep

\* Initially there is at most the row an older release left behind.
LEMMA InitReserved == Init => Reserved
<1> SUFFICES ASSUME Init PROVE Reserved
  OBVIOUS
<1> USE QueueAssumption
<1>1. Inserting = {}
  BY DEF Init, Inserting
<1>2. Outstanding \subseteq {Legacy}
  BY DEF Init, Outstanding
<1>3. IsFiniteSet({Legacy}) /\ Cardinality({Legacy}) = 1
  BY FS_Singleton
<1>4. IsFiniteSet(Outstanding) /\ BacklogSize \in Nat /\ BacklogSize <= 1
  BY <1>2, <1>3, FS_Subset, FS_CardinalityType DEF BacklogSize
<1>5. Cardinality(Inserting) = 0
  BY <1>1, FS_EmptySet
<1>6. Cardinality(Procs) \in Nat /\ Cardinality(Procs) # 0
  BY ProcsAssumption, FS_CardinalityType, FS_EmptySet
<1>7. QED
  BY <1>4, <1>5, <1>6 DEF Reserved

\* enqueue's check and INSERT let the backlog grow past its capacity by less
\* than one row for every process, whatever the number of processes.
THEOREM QueueCapacity == Spec => []BacklogBounded
<1>1. Init => Reserved
  BY InitReserved
<1>2. QueueInv /\ Reserved /\ [Next]_vars => Reserved'
  <2> SUFFICES ASSUME QueueInv, Reserved, [Next]_vars PROVE Reserved'
    OBVIOUS
  <2>1. CapacityStep
    BY CapacityKind DEF QueueInv
  <2>2. QED
    BY <2>1, ReservedStep, InsertingFinite
<1>3. Reserved => BacklogBounded
  <2> SUFFICES ASSUME Reserved PROVE BacklogBounded
    OBVIOUS
  <2>1. BacklogSize \in Nat /\ Cardinality(Inserting) \in Nat /\ Cardinality(Procs) \in Nat
    BY InsertingFinite, ProcsAssumption, FS_CardinalityType DEF Reserved, BacklogSize
  <2>2. QED
    BY <2>1, QueueAssumption DEF Reserved, BacklogBounded
<1>4. QED
  BY <1>1, <1>2, <1>3, QueueInvariant, PTL DEF Spec

=============================================================================
