---------------------- MODULE EntryOpportunityQueueProofs ----------------------
(* Safety of the command queue for every number of processes and commands. *)
EXTENDS EntryOpportunityQueue, TLAPS

\* requeue_processing only turns PROCESSING rows into PENDING ones.
RequeueEffect(p) ==
  /\ RequeuedStatus(p) \in [Commands -> RowStatus]
  /\ RequeuedDelay(p) \in [Commands -> BOOLEAN]
  /\ \A c \in Commands :
       \/ RequeuedStatus(p)[c] = status[c]
       \/ status[c] = "PROCESSING" /\ RequeuedStatus(p)[c] = "PENDING"

LEMMA RequeueFacts ==
  ASSUME TypeOK, NEW p \in Procs
  PROVE  RequeueEffect(p)
<1>1. RequeuedStatus(p) \in [Commands -> RowStatus]
  BY DEF TypeOK, RequeuedStatus, RowStatus
<1>2. RequeuedDelay(p) \in [Commands -> BOOLEAN]
  BY DEF RequeuedDelay
<1>3. \A c \in Commands :
        \/ RequeuedStatus(p)[c] = status[c]
        \/ status[c] = "PROCESSING" /\ RequeuedStatus(p)[c] = "PENDING"
  BY DEF RequeuedStatus
<1>4. QED
  BY <1>1, <1>2, <1>3 DEF RequeueEffect

\* A commit decides its command and otherwise only requeues.
CommitEffect(p) ==
  /\ pc[p] = "applying" /\ cmd[p] \in Commands /\ lock' = NoProc
  /\ status' \in [Commands -> RowStatus]
  /\ attempts' \in [Commands -> Nat]
  /\ delayed' \in [Commands -> BOOLEAN]
  /\ applied' \in Seq(Commands) /\ applied' = Append(applied, cmd[p])
  /\ status[cmd[p]] \in {"PENDING", "PROCESSING"}
  /\ status'[cmd[p]] = "PROCESSED"
  /\ \A c \in Commands :
       /\ attempts[c] <= attempts'[c]
       /\ c # cmd[p] => \/ status'[c] = status[c]
                        \/ status[c] = "PROCESSING" /\ status'[c] = "PENDING"

LEMMA CommitFacts ==
  ASSUME TypeOK, WriterControl, NEW p \in Procs, Commit(p)
  PROVE  CommitEffect(p)
<1>1. cmd[p] \in Commands /\ pc[p] = "applying" /\ lock' = NoProc
  BY DEF Commit, WriterControl
<1>2. /\ status' \in [Commands -> RowStatus]
      /\ status'[cmd[p]] = "PROCESSED"
      /\ \A c \in Commands : c # cmd[p] => status'[c] = RequeuedStatus(p)[c]
  BY <1>1, RequeueFacts DEF Commit, RowStatus, RequeueEffect
<1>3. /\ attempts' \in [Commands -> Nat]
      /\ \A c \in Commands : attempts[c] <= attempts'[c]
  BY <1>1 DEF Commit, TypeOK
<1>4. delayed' \in [Commands -> BOOLEAN]
  BY RequeueFacts DEF Commit, RequeueEffect
<1>5. applied' \in Seq(Commands) /\ applied' = Append(applied, cmd[p])
  BY <1>1 DEF Commit, TypeOK
<1>6. status[cmd[p]] \in {"PENDING", "PROCESSING"}
  BY <1>1 DEF WriterControl
<1>7. QED
  BY <1>1, <1>2, <1>3, <1>4, <1>5, <1>6, RequeueFacts DEF RequeueEffect, CommitEffect

\* Recording a failure neither creates nor decides a row as PROCESSED, and
\* gives a row up only with its budget spent.
RecordEffect(p) ==
  /\ pc[p] = "marking" /\ cmd[p] \in Commands /\ lock = NoProc
  /\ status' \in [Commands -> RowStatus]
  /\ attempts' \in [Commands -> Nat]
  /\ delayed' \in [Commands -> BOOLEAN]
  /\ UNCHANGED <<stamp, applied, nextStamp, acked, failures>>
  /\ \A c \in Commands :
       /\ attempts[c] <= attempts'[c]
       /\ status'[c] = "PROCESSED" <=> status[c] = "PROCESSED"
       /\ status'[c] = "ABSENT" <=> status[c] = "ABSENT"
       /\ status'[c] = "FAILED" => status[c] = "FAILED" \/ attempts'[c] >= MaxAttempts

LEMMA RecordFacts ==
  ASSUME TypeOK, WriterControl, NEW p \in Procs, RecordFailure(p)
  PROVE  RecordEffect(p)
<1> USE QueueAssumption
<1>1. cmd[p] \in Commands /\ pc[p] = "marking" /\ lock = NoProc
  BY DEF RecordFailure, WriterControl
<1>2. status[cmd[p]] # "ABSENT" /\ cmdAttempts[p] <= attempts[cmd[p]] + 1
  BY <1>1 DEF WriterControl
<1>3. UNCHANGED <<stamp, applied, nextStamp, acked, failures>>
  BY DEF RecordFailure
<1>4. CASE Recordable(cmd[p])
  <2>1. /\ status' = [status EXCEPT ![cmd[p]] =
                        IF Terminal(cmdAttempts[p]) THEN "FAILED" ELSE "PENDING"]
        /\ attempts' = [attempts EXCEPT ![cmd[p]] = @ + 1]
        /\ delayed' = [delayed EXCEPT ![cmd[p]] = TRUE]
    BY <1>4 DEF RecordFailure
  <2>2. /\ status' \in [Commands -> RowStatus]
        /\ attempts' \in [Commands -> Nat]
        /\ \A c \in Commands : attempts[c] <= attempts'[c]
    BY <1>1, <2>1 DEF TypeOK, RowStatus
  <2>3. delayed' \in [Commands -> BOOLEAN]
    BY <1>1, <2>1 DEF TypeOK
  <2>4. \A c \in Commands :
          /\ status'[c] = "PROCESSED" <=> status[c] = "PROCESSED"
          /\ status'[c] = "ABSENT" <=> status[c] = "ABSENT"
    BY <1>1, <1>2, <1>4, <2>1 DEF TypeOK, Recordable
  <2>5. \A c \in Commands :
          status'[c] = "FAILED" => status[c] = "FAILED" \/ attempts'[c] >= MaxAttempts
    BY <1>1, <1>2, <2>1 DEF TypeOK, Terminal
  <2>6. QED
    BY <1>1, <1>3, <2>2, <2>3, <2>4, <2>5 DEF RecordEffect
<1>5. CASE ~Recordable(cmd[p])
  BY <1>1, <1>3, <1>5 DEF RecordFailure, TypeOK, RecordEffect
<1>6. QED
  BY <1>4, <1>5

\* The INSERT only turns an absent row into a PENDING one.
InsertEffect(p) ==
  /\ ipc[p] = "inserting" /\ icmd[p] \in Commands
  /\ status' \in [Commands -> RowStatus]
  /\ stamp' \in [Commands -> Nat]
  /\ UNCHANGED <<attempts, delayed, applied, nextStamp, lock, pc, cmd, cmdAttempts,
                recovered, ready, icmd, acked, failures>>
  /\ status'[icmd[p]] # "ABSENT"
  /\ \A c \in Commands :
       status'[c] = status[c] \/ (status[c] = "ABSENT" /\ status'[c] = "PENDING")

LEMMA InsertFacts ==
  ASSUME TypeOK, IngressControl, NEW p \in Procs, InsertRow(p)
  PROVE  InsertEffect(p)
<1>1. ipc[p] = "inserting" /\ icmd[p] \in Commands
  BY DEF InsertRow, IngressControl
<1>2. UNCHANGED <<attempts, delayed, applied, nextStamp, lock, pc, cmd, cmdAttempts,
                recovered, ready, icmd, acked, failures>>
  BY DEF InsertRow, procVars
<1>3. istamp[p] \in Nat /\ status \in [Commands -> RowStatus] /\ stamp \in [Commands -> Nat]
  BY DEF TypeOK
<1>4. CASE status[icmd[p]] = "ABSENT"
  <2>1. /\ status' = [status EXCEPT ![icmd[p]] = "PENDING"]
        /\ stamp' = [stamp EXCEPT ![icmd[p]] = istamp[p]]
    BY <1>4 DEF InsertRow
  <2>2. stamp' \in [Commands -> Nat] /\ status' \in [Commands -> RowStatus]
    BY <1>3, <2>1 DEF RowStatus
  <2>3. /\ status'[icmd[p]] # "ABSENT"
        /\ \A c \in Commands :
             status'[c] = status[c] \/ (status[c] = "ABSENT" /\ status'[c] = "PENDING")
    <3>1. \A c \in Commands : status'[c] = IF c = icmd[p] THEN "PENDING" ELSE status[c]
      BY <1>3, <2>1
    <3>2. QED
      BY <1>1, <1>4, <3>1
  <2>4. QED
    BY <1>1, <1>2, <2>2, <2>3 DEF InsertEffect
<1>5. CASE status[icmd[p]] # "ABSENT"
  <2>1. status' = status /\ stamp' = stamp
    BY <1>5 DEF InsertRow
  <2>2. \A c \in Commands : status'[c] = status[c]
    BY <2>1
  <2>3. status' \in [Commands -> RowStatus] /\ stamp' \in [Commands -> Nat]
    BY <1>3, <2>1
  <2>4. QED
    BY <1>1, <1>2, <1>5, <2>2, <2>3 DEF InsertEffect
<1>6. QED
  BY <1>4, <1>5

\* Every step keeps the types; the control facts say which commands are in hand.
LEMMA TypeStep ==
  TypeOK /\ WriterControl /\ IngressControl /\ [Next]_vars => TypeOK'
<1> SUFFICES ASSUME TypeOK, WriterControl, IngressControl, [Next]_vars
             PROVE  TypeOK'
  OBVIOUS
<1> USE QueueAssumption
<1>1. ASSUME NEW p \in Procs, ClaimHead(p) PROVE TypeOK'
  BY <1>1 DEF ClaimHead, Goto, NextAttempt, rowVars, inVars, TypeOK
<1>2. ASSUME NEW p \in Procs, DrainNothing(p) PROVE TypeOK'
  <2>1. RequeueEffect(p)
    BY <1>2, RequeueFacts DEF DrainNothing
  <2>2. QED
    BY <1>2, <2>1 DEF DrainNothing, Goto, inVars, RequeueEffect, TypeOK
<1>3. ASSUME NEW p \in Procs, BlockedByFailedHead(p) PROVE TypeOK'
  BY <1>3 DEF BlockedByFailedHead, Stop, Down, rowVars, TypeOK
<1>4. ASSUME NEW p \in Procs, CommitDrain(p) PROVE TypeOK'
  <2>1. CommitEffect(p)
    BY <1>4, CommitFacts DEF CommitDrain
  <2>2. /\ recovered' = [recovered EXCEPT ![p] = TRUE]
        /\ Goto(p, "reporting")
        /\ UNCHANGED <<stamp, nextStamp, cmd, cmdAttempts, ready, ipc, icmd, istamp, acked, failures, faults>>
    BY <1>4 DEF CommitDrain, Goto, inVars
  <2>3. QED
    BY <2>1, <2>2 DEF CommitEffect, Goto, TypeOK
<1>5. ASSUME NEW p \in Procs, HandlerFails(p) PROVE TypeOK'
  <2>1. cmd[p] \in Commands
    BY <1>5 DEF HandlerFails, WriterControl
  <2>2. failures' \in [Commands -> Nat]
    BY <1>5, <2>1 DEF HandlerFails, TypeOK
  <2>3. /\ pc' \in [Procs -> {"idle", "applying", "reporting", "marking", "down"}]
        /\ ready' \in [Procs -> {"none", "ready", "full"}]
    BY <1>5 DEF HandlerFails, Goto, Withdraw, TypeOK
  <2>4. /\ lock' = NoProc
        /\ UNCHANGED <<rowVars, applied, nextStamp, cmd, cmdAttempts, recovered, inVars, acked, faults>>
    BY <1>5 DEF HandlerFails
  <2>5. QED
    BY <2>2, <2>3, <2>4 DEF rowVars, inVars, TypeOK
<1>6. ASSUME NEW p \in Procs, MarkFailed(p) PROVE TypeOK'
  <2>1. RecordEffect(p)
    BY <1>6, RecordFacts DEF MarkFailed
  <2>2. CASE Terminal(cmdAttempts[p])
    <3>1. Stop(p) /\ UNCHANGED faults
      BY <1>6, <2>2 DEF MarkFailed
    <3>2. QED
      BY <2>1, <3>1 DEF RecordEffect, Stop, Down, TypeOK
  <2>3. CASE ~Terminal(cmdAttempts[p])
    <3>1. Loop(p) /\ UNCHANGED <<lock, recovered, ready, ipc, icmd, istamp, faults>>
      BY <1>6, <2>3 DEF MarkFailed, inVars
    <3>2. QED
      BY <2>1, <3>1 DEF RecordEffect, Loop, Goto, TypeOK
  <2>4. QED
    BY <2>2, <2>3
<1>7. ASSUME NEW p \in Procs, ReportHealth(p) PROVE TypeOK'
  BY <1>7 DEF ReportHealth, Loop, Goto, rowVars, inVars, TypeOK
<1>8. ASSUME NEW p \in Procs, Check(p) PROVE TypeOK'
  <2>1. /\ ipc' \in [Procs -> {"idle", "checking", "inserting", "acking"}]
        /\ istamp' \in [Procs -> Nat]
        /\ nextStamp' \in Nat
    BY <1>8 DEF Check, TypeOK
  <2>2. QED
    BY <1>8, <2>1 DEF Check, rowVars, procVars, TypeOK
<1>9. ASSUME NEW p \in Procs, Enqueue(p) PROVE TypeOK'
  <2>1. InsertEffect(p)
    BY <1>9, InsertFacts DEF Enqueue
  <2>2. QED
    BY <1>9, <2>1 DEF Enqueue, InsertEffect, TypeOK
<1>10. ASSUME NEW p \in Procs, Ack(p) PROVE TypeOK'
  BY <1>10 DEF Ack, IngressControl, rowVars, procVars, TypeOK
<1>11. ASSUME NEW p \in Procs, InfraAbort(p) PROVE TypeOK'
  BY <1>11 DEF InfraAbort, Fault, Loop, Goto, Withdraw, rowVars, inVars, TypeOK
<1>12. ASSUME NEW p \in Procs, CommitUnknown(p) PROVE TypeOK'
  <2>1. CommitEffect(p)
    BY <1>12, CommitFacts DEF CommitUnknown
  <2>2. /\ faults < MaxFaults /\ faults' = faults + 1
        /\ Loop(p) /\ ready' = [ready EXCEPT ![p] = "none"]
        /\ UNCHANGED <<stamp, nextStamp, recovered, ipc, icmd, istamp, acked, failures>>
    BY <1>12 DEF CommitUnknown, Fault, Loop, Goto, Withdraw, inVars
  <2>3. faults' \in 0..MaxFaults
    BY <2>2 DEF TypeOK
  <2>4. /\ pc' \in [Procs -> {"idle", "applying", "reporting", "marking", "down"}]
        /\ cmd' \in [Procs -> Commands \cup {NoCommand}]
        /\ cmdAttempts' \in [Procs -> Nat]
        /\ ready' \in [Procs -> {"none", "ready", "full"}]
    BY <2>2 DEF Loop, Goto, TypeOK
  <2>5. UNCHANGED <<stamp, nextStamp, recovered, ipc, icmd, istamp, acked, failures>>
    BY <2>2
  <2>6. QED
    BY <2>1, <2>3, <2>4, <2>5 DEF CommitEffect, TypeOK
<1>13. ASSUME NEW p \in Procs, HealthFails(p) PROVE TypeOK'
  <2>1. CASE Loop(p) /\ Withdraw(p) /\ UNCHANGED <<lock, recovered, inVars>>
    BY <1>13, <2>1 DEF HealthFails, Fault, Loop, Goto, Withdraw, rowVars, inVars, TypeOK
  <2>2. CASE cmd[p] # NoCommand /\ Goto(p, "marking") /\ Withdraw(p)
             /\ UNCHANGED <<lock, cmd, cmdAttempts, recovered, inVars>>
    BY <1>13, <2>2 DEF HealthFails, Fault, Goto, Withdraw, rowVars, inVars, TypeOK
  <2>3. CASE cmd[p] = NoCommand /\ Stop(p)
    BY <1>13, <2>3 DEF HealthFails, Fault, Stop, Down, rowVars, TypeOK
  <2>4. QED
    BY <1>13, <2>1, <2>2, <2>3 DEF HealthFails
<1>14. ASSUME NEW p \in Procs, MarkInterrupted(p) PROVE TypeOK'
  <2>1. CASE RecordFailure(p)
    <3>1. RecordEffect(p)
      BY <2>1, RecordFacts
    <3>2. Fault /\ Loop(p) /\ UNCHANGED <<lock, recovered, ready, ipc, icmd, istamp>>
      BY <1>14 DEF MarkInterrupted, inVars
    <3>3. faults' \in 0..MaxFaults
      BY <3>2 DEF Fault, TypeOK
    <3>4. /\ pc' \in [Procs -> {"idle", "applying", "reporting", "marking", "down"}]
          /\ cmd' \in [Procs -> Commands \cup {NoCommand}]
          /\ cmdAttempts' \in [Procs -> Nat]
      BY <3>2 DEF Loop, Goto, TypeOK
    <3>5. UNCHANGED <<lock, recovered, ready, ipc, icmd, istamp>>
      BY <3>2
    <3>6. QED
      BY <3>1, <3>3, <3>4, <3>5 DEF RecordEffect, TypeOK
  <2>2. CASE UNCHANGED <<rowVars, applied, nextStamp, acked, failures>>
    BY <1>14, <2>2 DEF MarkInterrupted, Fault, Loop, Goto, rowVars, inVars, TypeOK
  <2>3. QED
    BY <1>14, <2>1, <2>2 DEF MarkInterrupted
<1>15. ASSUME NEW p \in Procs, IngressInterrupted(p) PROVE TypeOK'
  <2>1. CASE InsertRow(p)
    <3>1. InsertEffect(p)
      BY <2>1, InsertFacts
    <3>2. Fault /\ ipc' = [ipc EXCEPT ![p] = "checking"] /\ istamp' = [istamp EXCEPT ![p] = 0]
      BY <1>15 DEF IngressInterrupted
    <3>3. faults' \in 0..MaxFaults
      BY <3>2, QueueAssumption DEF Fault, TypeOK
    <3>4. /\ ipc' \in [Procs -> {"idle", "checking", "inserting", "acking"}]
          /\ istamp' \in [Procs -> Nat]
      BY <3>2 DEF TypeOK
    <3>5. QED
      BY <3>1, <3>3, <3>4 DEF InsertEffect, TypeOK
  <2>2. CASE ipc[p] = "inserting"
             /\ UNCHANGED <<rowVars, applied, nextStamp, lock, procVars, icmd, acked, failures>>
    BY <1>15, <2>2 DEF IngressInterrupted, Fault, rowVars, procVars, TypeOK
  <2>3. QED
    BY <1>15, <2>1, <2>2 DEF IngressInterrupted
<1>16. ASSUME NEW p \in Procs, AckLost(p) PROVE TypeOK'
  BY <1>16 DEF AckLost, Fault, rowVars, procVars, TypeOK
<1>17. ASSUME NEW p \in Procs, Crash(p) PROVE TypeOK'
  BY <1>17 DEF Crash, Fault, Down, rowVars, TypeOK
<1>18. ASSUME NEW p \in Procs, Restart(p) PROVE TypeOK'
  BY <1>18 DEF Restart, Fault, Goto, Withdraw, rowVars, inVars, TypeOK
<1>19. ASSUME NEW p \in Procs, NEW c \in Commands, Receive(p, c) PROVE TypeOK'
  BY <1>19 DEF Receive, rowVars, procVars, TypeOK
<1>20. ASSUME NEW c \in Commands, DelayPasses(c) PROVE TypeOK'
  BY <1>20 DEF DelayPasses, procVars, inVars, TypeOK
<1>21. CASE UNCHANGED vars
  BY <1>21 DEF vars, TypeOK
<1>22. QED
  BY <1>1, <1>2, <1>3, <1>4, <1>5, <1>6, <1>7, <1>8, <1>9, <1>10, <1>11, <1>12, <1>13, <1>14, <1>15, <1>16, <1>17, <1>18, <1>19, <1>20, <1>21 DEF Next, Processor, Ingress, Faults

\* Every step keeps the writer discipline.
LEMMA WriterStep ==
  TypeOK /\ WriterControl /\ IngressControl /\ [Next]_vars => WriterControl'
<1> SUFFICES ASSUME TypeOK, WriterControl, IngressControl, [Next]_vars
             PROVE  WriterControl'
  OBVIOUS
<1> USE QueueAssumption
<1>1. ASSUME NEW p \in Procs, ClaimHead(p) PROVE WriterControl'
  <2>1. PICK c \in Commands :
          /\ IsHead(c) /\ status[c] # "FAILED"
          /\ cmd' = [cmd EXCEPT ![p] = c]
          /\ cmdAttempts' = [cmdAttempts EXCEPT ![p] = NextAttempt(c)]
    BY <1>1 DEF ClaimHead
  <2>2. status[c] \in {"PENDING", "PROCESSING"}
    BY <2>1 DEF IsHead, Outstanding, TypeOK, RowStatus
  <2>3. lock = NoProc /\ lock' = p /\ pc' = [pc EXCEPT ![p] = "applying"]
        /\ UNCHANGED <<status, attempts>>
    BY <1>1 DEF ClaimHead, Goto, rowVars
  <2>4. \A q \in Procs : pc'[q] = "applying" <=> q = p
    BY <2>3 DEF TypeOK, WriterControl
  <2>5. cmd'[p] = c /\ cmdAttempts'[p] = attempts[c] + 1
        /\ \A q \in Procs : q # p => cmd'[q] = cmd[q] /\ cmdAttempts'[q] = cmdAttempts[q]
                                   /\ pc'[q] = pc[q]
    BY <2>1, <2>3 DEF TypeOK, NextAttempt
  <2>6. \A q \in Procs : cmd'[q] \in Commands =>
          status[cmd'[q]] # "ABSENT" /\ cmdAttempts'[q] <= attempts[cmd'[q]] + 1
    <3>1. TAKE q \in Procs
    <3>2. CASE q = p
      BY <2>2, <2>5, <3>2 DEF TypeOK
    <3>3. CASE q # p
      BY <2>5, <3>3 DEF WriterControl
    <3>4. QED
      BY <3>2, <3>3
  <2>7. \A q \in Procs : pc'[q] \in {"applying", "marking"} => cmd'[q] \in Commands
    BY <2>4, <2>5 DEF WriterControl
  <2>8. QED
    BY <2>2, <2>3, <2>4, <2>5, <2>6, <2>7 DEF WriterControl
<1>2. ASSUME NEW p \in Procs, DrainNothing(p) PROVE WriterControl'
  <2>1. RequeueEffect(p)
    BY <1>2, RequeueFacts DEF DrainNothing
  <2>2. QED
    BY <1>2, <2>1 DEF DrainNothing, Goto, inVars, RequeueEffect, TypeOK, WriterControl
<1>3. ASSUME NEW p \in Procs, BlockedByFailedHead(p) PROVE WriterControl'
  BY <1>3 DEF BlockedByFailedHead, Stop, Down, rowVars, TypeOK, WriterControl
<1>4. ASSUME NEW p \in Procs, CommitDrain(p) PROVE WriterControl'
  <2>1. CommitEffect(p)
    BY <1>4, CommitFacts DEF CommitDrain
  <2>2. /\ recovered' = [recovered EXCEPT ![p] = TRUE]
        /\ Goto(p, "reporting")
        /\ UNCHANGED <<stamp, nextStamp, cmd, cmdAttempts, ready, ipc, icmd, istamp, acked, failures, faults>>
    BY <1>4 DEF CommitDrain, Goto, inVars
  <2>3. \A c \in Commands : /\ status[c] # "ABSENT" => status'[c] # "ABSENT"
                             /\ attempts[c] <= attempts'[c]
                             /\ attempts[c] \in Nat /\ attempts'[c] \in Nat
    BY <2>1 DEF CommitEffect, TypeOK
  <2>4. lock = p /\ lock' = NoProc /\ pc'[p] # "applying" /\ p \in DOMAIN pc
    BY <2>1, <2>2 DEF CommitEffect, WriterControl, TypeOK, Loop, Goto
  <2>5. \A q \in Procs : pc'[q] # "applying"
    BY <2>2, <2>4 DEF WriterControl, TypeOK, Loop, Goto
  <2>6. \A q \in Procs : cmd'[q] \in Commands =>
          cmd'[q] = cmd[q] /\ cmdAttempts'[q] = cmdAttempts[q] /\ cmdAttempts[q] \in Nat
    BY <2>2 DEF TypeOK, Loop, Goto
  <2>7. \A q \in Procs : cmd'[q] \in Commands =>
          status'[cmd'[q]] # "ABSENT" /\ cmdAttempts'[q] <= attempts'[cmd'[q]] + 1
    BY <2>3, <2>6 DEF WriterControl
  <2>8. \A q \in Procs : pc'[q] = "marking" => cmd'[q] \in Commands
    BY <2>2 DEF WriterControl, TypeOK, Loop, Goto
  <2>9. QED
    BY <2>4, <2>5, <2>7, <2>8 DEF WriterControl
<1>5. ASSUME NEW p \in Procs, HandlerFails(p) PROVE WriterControl'
  BY <1>5 DEF HandlerFails, Goto, Withdraw, rowVars, inVars, TypeOK, WriterControl
<1>6. ASSUME NEW p \in Procs, MarkFailed(p) PROVE WriterControl'
  <2>1. RecordEffect(p)
    BY <1>6, RecordFacts DEF MarkFailed
  <2>2. CASE Terminal(cmdAttempts[p])
    <3>1. Stop(p) /\ UNCHANGED faults
      BY <1>6, <2>2 DEF MarkFailed
    <3>2. \A c \in Commands : /\ status[c] # "ABSENT" => status'[c] # "ABSENT"
                               /\ attempts[c] <= attempts'[c]
                               /\ attempts[c] \in Nat /\ attempts'[c] \in Nat
      BY <2>1 DEF RecordEffect, TypeOK
    <3>3. lock = NoProc /\ lock' = NoProc /\ \A q \in Procs : pc[q] # "applying" /\ pc'[q] # "applying"
      BY <2>1, <3>1 DEF RecordEffect, Stop, Down, WriterControl, TypeOK
    <3>4. \A q \in Procs : cmd'[q] \in Commands =>
            cmd'[q] = cmd[q] /\ cmdAttempts'[q] = cmdAttempts[q] /\ cmdAttempts[q] \in Nat
      BY <3>1 DEF Stop, Down, TypeOK
    <3>5. \A q \in Procs : cmd'[q] \in Commands =>
            status'[cmd'[q]] # "ABSENT" /\ cmdAttempts'[q] <= attempts'[cmd'[q]] + 1
      BY <3>2, <3>4 DEF WriterControl
    <3>6. \A q \in Procs : pc'[q] = "marking" => cmd'[q] \in Commands
      BY <3>1 DEF Stop, Down, WriterControl, TypeOK
    <3>7. QED
      BY <3>3, <3>5, <3>6 DEF WriterControl
  <2>3. CASE ~Terminal(cmdAttempts[p])
    <3>1. Loop(p) /\ UNCHANGED <<lock, recovered, ready, ipc, icmd, istamp, faults>>
      BY <1>6, <2>3 DEF MarkFailed, inVars
    <3>2. \A c \in Commands : /\ status[c] # "ABSENT" => status'[c] # "ABSENT"
                               /\ attempts[c] <= attempts'[c]
                               /\ attempts[c] \in Nat /\ attempts'[c] \in Nat
      BY <2>1 DEF RecordEffect, TypeOK
    <3>3. lock = NoProc /\ lock' = NoProc /\ \A q \in Procs : pc[q] # "applying" /\ pc'[q] # "applying"
      BY <2>1, <3>1 DEF RecordEffect, Loop, Goto, WriterControl, TypeOK
    <3>4. \A q \in Procs : cmd'[q] \in Commands =>
            cmd'[q] = cmd[q] /\ cmdAttempts'[q] = cmdAttempts[q] /\ cmdAttempts[q] \in Nat
      BY <3>1 DEF Loop, Goto, TypeOK
    <3>5. \A q \in Procs : cmd'[q] \in Commands =>
            status'[cmd'[q]] # "ABSENT" /\ cmdAttempts'[q] <= attempts'[cmd'[q]] + 1
      BY <3>2, <3>4 DEF WriterControl
    <3>6. \A q \in Procs : pc'[q] = "marking" => cmd'[q] \in Commands
      BY <3>1 DEF Loop, Goto, WriterControl, TypeOK
    <3>7. QED
      BY <3>3, <3>5, <3>6 DEF WriterControl
  <2>4. QED
    BY <2>2, <2>3
<1>7. ASSUME NEW p \in Procs, ReportHealth(p) PROVE WriterControl'
  BY <1>7 DEF ReportHealth, Loop, Goto, rowVars, inVars, TypeOK, WriterControl
<1>8. ASSUME NEW p \in Procs, Check(p) PROVE WriterControl'
  BY <1>8 DEF Check, rowVars, procVars, TypeOK, WriterControl
<1>9. ASSUME NEW p \in Procs, Enqueue(p) PROVE WriterControl'
  <2>1. InsertEffect(p)
    BY <1>9, InsertFacts DEF Enqueue
  <2>2. \A c \in Commands : status[c] # "ABSENT" => status'[c] = status[c]
    BY <2>1 DEF InsertEffect
  <2>3. UNCHANGED <<attempts, lock, pc, cmd, cmdAttempts>>
    BY <2>1 DEF InsertEffect
  <2>4. QED
    BY <2>2, <2>3 DEF WriterControl
<1>10. ASSUME NEW p \in Procs, Ack(p) PROVE WriterControl'
  BY <1>10 DEF Ack, rowVars, procVars, TypeOK, WriterControl
<1>11. ASSUME NEW p \in Procs, InfraAbort(p) PROVE WriterControl'
  <2>1. UNCHANGED <<status, attempts>>
    BY <1>11 DEF InfraAbort, rowVars
  <2>2. /\ Loop(p)
        /\ lock' = IF lock = p THEN NoProc ELSE lock
    BY <1>11 DEF InfraAbort
  <2>3. \A q \in Procs : pc'[q] = "applying" <=> lock' = q
    BY <2>2 DEF Loop, Goto, TypeOK, WriterControl
  <2>4. \A q \in Procs : cmd'[q] \in Commands =>
          cmd'[q] = cmd[q] /\ cmdAttempts'[q] = cmdAttempts[q]
    BY <2>2 DEF Loop, Goto, TypeOK
  <2>5. \A q \in Procs : pc'[q] \in {"applying", "marking"} =>
          pc'[q] = pc[q] /\ cmd'[q] = cmd[q]
    BY <2>2 DEF Loop, Goto, TypeOK
  <2>6. QED
    BY <2>1, <2>3, <2>4, <2>5 DEF WriterControl
<1>12. ASSUME NEW p \in Procs, CommitUnknown(p) PROVE WriterControl'
  <2>1. CommitEffect(p)
    BY <1>12, CommitFacts DEF CommitUnknown
  <2>2. /\ faults < MaxFaults /\ faults' = faults + 1
        /\ Loop(p) /\ ready' = [ready EXCEPT ![p] = "none"]
        /\ UNCHANGED <<stamp, nextStamp, recovered, ipc, icmd, istamp, acked, failures>>
    BY <1>12 DEF CommitUnknown, Fault, Loop, Goto, Withdraw, inVars
  <2>3. \A c \in Commands : /\ status[c] # "ABSENT" => status'[c] # "ABSENT"
                             /\ attempts[c] <= attempts'[c]
                             /\ attempts[c] \in Nat /\ attempts'[c] \in Nat
    BY <2>1 DEF CommitEffect, TypeOK
  <2>4. lock = p /\ lock' = NoProc /\ pc'[p] # "applying" /\ p \in DOMAIN pc
    BY <2>1, <2>2 DEF CommitEffect, WriterControl, TypeOK, Loop, Goto
  <2>5. \A q \in Procs : pc'[q] # "applying"
    BY <2>2, <2>4 DEF WriterControl, TypeOK, Loop, Goto
  <2>6. \A q \in Procs : cmd'[q] \in Commands =>
          cmd'[q] = cmd[q] /\ cmdAttempts'[q] = cmdAttempts[q] /\ cmdAttempts[q] \in Nat
    BY <2>2 DEF TypeOK, Loop, Goto
  <2>7. \A q \in Procs : cmd'[q] \in Commands =>
          status'[cmd'[q]] # "ABSENT" /\ cmdAttempts'[q] <= attempts'[cmd'[q]] + 1
    BY <2>3, <2>6 DEF WriterControl
  <2>8. \A q \in Procs : pc'[q] = "marking" => cmd'[q] \in Commands
    BY <2>2 DEF WriterControl, TypeOK, Loop, Goto
  <2>9. QED
    BY <2>4, <2>5, <2>7, <2>8 DEF WriterControl
<1>13. ASSUME NEW p \in Procs, HealthFails(p) PROVE WriterControl'
  <2>1. CASE Loop(p) /\ Withdraw(p) /\ UNCHANGED <<lock, recovered, inVars>>
    BY <1>13, <2>1 DEF HealthFails, Fault, Loop, Goto, Withdraw, rowVars, inVars, TypeOK, WriterControl
  <2>2. CASE cmd[p] # NoCommand /\ Goto(p, "marking") /\ Withdraw(p)
             /\ UNCHANGED <<lock, cmd, cmdAttempts, recovered, inVars>>
    BY <1>13, <2>2 DEF HealthFails, Fault, Goto, Withdraw, rowVars, inVars, TypeOK, WriterControl
  <2>3. CASE cmd[p] = NoCommand /\ Stop(p)
    BY <1>13, <2>3 DEF HealthFails, Fault, Stop, Down, rowVars, TypeOK, WriterControl
  <2>4. QED
    BY <1>13, <2>1, <2>2, <2>3 DEF HealthFails
<1>14. ASSUME NEW p \in Procs, MarkInterrupted(p) PROVE WriterControl'
  <2>1. CASE RecordFailure(p)
    <3>1. RecordEffect(p)
      BY <2>1, RecordFacts
    <3>2. Fault /\ Loop(p) /\ UNCHANGED <<lock, recovered, ready, ipc, icmd, istamp>>
      BY <1>14 DEF MarkInterrupted, inVars
    <3>3. \A c \in Commands : /\ status[c] # "ABSENT" => status'[c] # "ABSENT"
                               /\ attempts[c] <= attempts'[c]
                               /\ attempts[c] \in Nat /\ attempts'[c] \in Nat
      BY <3>1 DEF RecordEffect, TypeOK
    <3>4. lock = NoProc /\ lock' = NoProc /\ \A q \in Procs : pc[q] # "applying" /\ pc'[q] # "applying"
      BY <3>1, <3>2 DEF RecordEffect, Loop, Goto, WriterControl, TypeOK
    <3>5. \A q \in Procs : cmd'[q] \in Commands =>
            cmd'[q] = cmd[q] /\ cmdAttempts'[q] = cmdAttempts[q] /\ cmdAttempts[q] \in Nat
      BY <3>2 DEF Loop, Goto, TypeOK
    <3>6. \A q \in Procs : cmd'[q] \in Commands =>
            status'[cmd'[q]] # "ABSENT" /\ cmdAttempts'[q] <= attempts'[cmd'[q]] + 1
      BY <3>3, <3>5 DEF WriterControl
    <3>7. \A q \in Procs : pc'[q] = "marking" => cmd'[q] \in Commands
      BY <3>2 DEF Loop, Goto, WriterControl, TypeOK
    <3>8. QED
      BY <3>4, <3>6, <3>7 DEF WriterControl
  <2>2. CASE UNCHANGED <<rowVars, applied, nextStamp, acked, failures>>
    <3>1. UNCHANGED <<status, attempts, lock>> /\ Loop(p) /\ pc[p] = "marking"
      BY <1>14, <2>2 DEF MarkInterrupted, rowVars
    <3>2. \A q \in Procs : pc'[q] = "applying" <=> lock' = q
      BY <3>1 DEF Loop, Goto, TypeOK, WriterControl
    <3>3. \A q \in Procs : cmd'[q] \in Commands =>
            cmd'[q] = cmd[q] /\ cmdAttempts'[q] = cmdAttempts[q]
      BY <3>1 DEF Loop, Goto, TypeOK
    <3>4. \A q \in Procs : pc'[q] \in {"applying", "marking"} =>
            pc'[q] = pc[q] /\ cmd'[q] = cmd[q]
      BY <3>1 DEF Loop, Goto, TypeOK
    <3>5. QED
      BY <3>1, <3>2, <3>3, <3>4 DEF WriterControl
  <2>3. QED
    BY <1>14, <2>1, <2>2 DEF MarkInterrupted
<1>15. ASSUME NEW p \in Procs, IngressInterrupted(p) PROVE WriterControl'
  <2>1. CASE InsertRow(p)
    <3>1. InsertEffect(p)
      BY <2>1, InsertFacts
    <3>2. Fault /\ ipc' = [ipc EXCEPT ![p] = "checking"] /\ istamp' = [istamp EXCEPT ![p] = 0]
      BY <1>15 DEF IngressInterrupted
    <3>3. \A c \in Commands : status[c] # "ABSENT" => status'[c] = status[c]
      BY <3>1 DEF InsertEffect
    <3>4. UNCHANGED <<attempts, lock, pc, cmd, cmdAttempts>>
      BY <3>1 DEF InsertEffect
    <3>5. QED
      BY <3>3, <3>4 DEF WriterControl
  <2>2. CASE ipc[p] = "inserting"
             /\ UNCHANGED <<rowVars, applied, nextStamp, lock, procVars, icmd, acked, failures>>
    BY <1>15, <2>2 DEF IngressInterrupted, Fault, rowVars, procVars, TypeOK, WriterControl
  <2>3. QED
    BY <1>15, <2>1, <2>2 DEF IngressInterrupted
<1>16. ASSUME NEW p \in Procs, AckLost(p) PROVE WriterControl'
  BY <1>16 DEF AckLost, Fault, rowVars, procVars, TypeOK, WriterControl
<1>17. ASSUME NEW p \in Procs, Crash(p) PROVE WriterControl'
  BY <1>17 DEF Crash, Fault, Down, rowVars, TypeOK, WriterControl
<1>18. ASSUME NEW p \in Procs, Restart(p) PROVE WriterControl'
  BY <1>18 DEF Restart, Fault, Goto, Withdraw, rowVars, inVars, TypeOK, WriterControl
<1>19. ASSUME NEW p \in Procs, NEW c \in Commands, Receive(p, c) PROVE WriterControl'
  BY <1>19 DEF Receive, rowVars, procVars, TypeOK, WriterControl
<1>20. ASSUME NEW c \in Commands, DelayPasses(c) PROVE WriterControl'
  BY <1>20 DEF DelayPasses, procVars, inVars, TypeOK, WriterControl
<1>21. CASE UNCHANGED vars
  BY <1>21 DEF vars, TypeOK, WriterControl
<1>22. QED
  BY <1>1, <1>2, <1>3, <1>4, <1>5, <1>6, <1>7, <1>8, <1>9, <1>10, <1>11, <1>12, <1>13, <1>14, <1>15, <1>16, <1>17, <1>18, <1>19, <1>20, <1>21 DEF Next, Processor, Ingress, Faults

\* Every step keeps the ingress facts.
LEMMA IngressStep ==
  TypeOK /\ WriterControl /\ IngressControl /\ [Next]_vars => IngressControl'
<1> SUFFICES ASSUME TypeOK, WriterControl, IngressControl, [Next]_vars
             PROVE  IngressControl'
  OBVIOUS
<1> USE QueueAssumption
<1>1. ASSUME NEW p \in Procs, ClaimHead(p) PROVE IngressControl'
  BY <1>1 DEF ClaimHead, Goto, NextAttempt, IsHead, Outstanding, rowVars, inVars, TypeOK, IngressControl
<1>2. ASSUME NEW p \in Procs, DrainNothing(p) PROVE IngressControl'
  <2>1. RequeueEffect(p)
    BY <1>2, RequeueFacts DEF DrainNothing
  <2>2. QED
    BY <1>2, <2>1 DEF DrainNothing, Goto, inVars, RequeueEffect, TypeOK, IngressControl
<1>3. ASSUME NEW p \in Procs, BlockedByFailedHead(p) PROVE IngressControl'
  BY <1>3 DEF BlockedByFailedHead, Stop, Down, rowVars, TypeOK, IngressControl
<1>4. ASSUME NEW p \in Procs, CommitDrain(p) PROVE IngressControl'
  <2>1. CommitEffect(p)
    BY <1>4, CommitFacts DEF CommitDrain
  <2>2. /\ recovered' = [recovered EXCEPT ![p] = TRUE]
        /\ Goto(p, "reporting")
        /\ UNCHANGED <<stamp, nextStamp, cmd, cmdAttempts, ready, ipc, icmd, istamp, acked, failures, faults>>
    BY <1>4 DEF CommitDrain, Goto, inVars
  <2>3. \A c \in Commands : status[c] # "ABSENT" => status'[c] # "ABSENT"
    BY <2>1 DEF CommitEffect
  <2>4. QED
    BY <2>2, <2>3 DEF IngressControl
<1>5. ASSUME NEW p \in Procs, HandlerFails(p) PROVE IngressControl'
  BY <1>5 DEF HandlerFails, Goto, Withdraw, rowVars, inVars, TypeOK, IngressControl
<1>6. ASSUME NEW p \in Procs, MarkFailed(p) PROVE IngressControl'
  <2>1. RecordEffect(p)
    BY <1>6, RecordFacts DEF MarkFailed
  <2>2. CASE Terminal(cmdAttempts[p])
    <3>1. Stop(p) /\ UNCHANGED faults
      BY <1>6, <2>2 DEF MarkFailed
    <3>2. QED
      BY <2>1, <3>1 DEF RecordEffect, Stop, Down, TypeOK, IngressControl
  <2>3. CASE ~Terminal(cmdAttempts[p])
    <3>1. Loop(p) /\ UNCHANGED <<lock, recovered, ready, ipc, icmd, istamp, faults>>
      BY <1>6, <2>3 DEF MarkFailed, inVars
    <3>2. QED
      BY <2>1, <3>1 DEF RecordEffect, Loop, Goto, TypeOK, IngressControl
  <2>4. QED
    BY <2>2, <2>3
<1>7. ASSUME NEW p \in Procs, ReportHealth(p) PROVE IngressControl'
  BY <1>7 DEF ReportHealth, Loop, Goto, rowVars, inVars, TypeOK, IngressControl
<1>8. ASSUME NEW p \in Procs, Check(p) PROVE IngressControl'
  BY <1>8 DEF Check, rowVars, procVars, TypeOK, IngressControl
<1>9. ASSUME NEW p \in Procs, Enqueue(p) PROVE IngressControl'
  <2>1. InsertEffect(p)
    BY <1>9, InsertFacts DEF Enqueue
  <2>2. QED
    BY <1>9, <2>1 DEF Enqueue, InsertEffect, TypeOK, IngressControl
<1>10. ASSUME NEW p \in Procs, Ack(p) PROVE IngressControl'
  BY <1>10 DEF Ack, rowVars, procVars, TypeOK, IngressControl
<1>11. ASSUME NEW p \in Procs, InfraAbort(p) PROVE IngressControl'
  BY <1>11 DEF InfraAbort, Fault, Loop, Goto, Withdraw, rowVars, inVars, TypeOK, IngressControl
<1>12. ASSUME NEW p \in Procs, CommitUnknown(p) PROVE IngressControl'
  <2>1. CommitEffect(p)
    BY <1>12, CommitFacts DEF CommitUnknown
  <2>2. /\ faults < MaxFaults /\ faults' = faults + 1
        /\ Loop(p) /\ ready' = [ready EXCEPT ![p] = "none"]
        /\ UNCHANGED <<stamp, nextStamp, recovered, ipc, icmd, istamp, acked, failures>>
    BY <1>12 DEF CommitUnknown, Fault, Loop, Goto, Withdraw, inVars
  <2>3. \A c \in Commands : status[c] # "ABSENT" => status'[c] # "ABSENT"
    BY <2>1 DEF CommitEffect
  <2>4. QED
    BY <2>2, <2>3 DEF IngressControl
<1>13. ASSUME NEW p \in Procs, HealthFails(p) PROVE IngressControl'
  <2>1. CASE Loop(p) /\ Withdraw(p) /\ UNCHANGED <<lock, recovered, inVars>>
    BY <1>13, <2>1 DEF HealthFails, Fault, Loop, Goto, Withdraw, rowVars, inVars, TypeOK, IngressControl
  <2>2. CASE cmd[p] # NoCommand /\ Goto(p, "marking") /\ Withdraw(p)
             /\ UNCHANGED <<lock, cmd, cmdAttempts, recovered, inVars>>
    BY <1>13, <2>2 DEF HealthFails, Fault, Goto, Withdraw, rowVars, inVars, TypeOK, IngressControl
  <2>3. CASE cmd[p] = NoCommand /\ Stop(p)
    BY <1>13, <2>3 DEF HealthFails, Fault, Stop, Down, rowVars, TypeOK, IngressControl
  <2>4. QED
    BY <1>13, <2>1, <2>2, <2>3 DEF HealthFails
<1>14. ASSUME NEW p \in Procs, MarkInterrupted(p) PROVE IngressControl'
  <2>1. CASE RecordFailure(p)
    <3>1. RecordEffect(p)
      BY <2>1, RecordFacts
    <3>2. Fault /\ Loop(p) /\ UNCHANGED <<lock, recovered, ready, ipc, icmd, istamp>>
      BY <1>14 DEF MarkInterrupted, inVars
    <3>3. QED
      BY <3>1, <3>2 DEF RecordEffect, Fault, Loop, Goto, TypeOK, IngressControl
  <2>2. CASE UNCHANGED <<rowVars, applied, nextStamp, acked, failures>>
    BY <1>14, <2>2 DEF MarkInterrupted, Fault, Loop, Goto, rowVars, inVars, TypeOK, IngressControl
  <2>3. QED
    BY <1>14, <2>1, <2>2 DEF MarkInterrupted
<1>15. ASSUME NEW p \in Procs, IngressInterrupted(p) PROVE IngressControl'
  <2>1. CASE InsertRow(p)
    <3>1. InsertEffect(p)
      BY <2>1, InsertFacts
    <3>2. Fault /\ ipc' = [ipc EXCEPT ![p] = "checking"] /\ istamp' = [istamp EXCEPT ![p] = 0]
      BY <1>15 DEF IngressInterrupted
    <3>3. \A c \in Commands : status[c] # "ABSENT" => status'[c] = status[c]
      BY <3>1 DEF InsertEffect
    <3>4. icmd' = icmd /\ icmd[p] \in Commands
      BY <3>1 DEF InsertEffect
    <3>5. \A q \in Procs : q # p => ipc'[q] = ipc[q]
      BY <3>2 DEF TypeOK
    <3>6. ipc'[p] = "checking"
      BY <3>2 DEF TypeOK
    <3>7. QED
      BY <3>3, <3>4, <3>5, <3>6 DEF IngressControl
  <2>2. CASE ipc[p] = "inserting"
             /\ UNCHANGED <<rowVars, applied, nextStamp, lock, procVars, icmd, acked, failures>>
    BY <1>15, <2>2 DEF IngressInterrupted, Fault, rowVars, procVars, TypeOK, IngressControl
  <2>3. QED
    BY <1>15, <2>1, <2>2 DEF IngressInterrupted
<1>16. ASSUME NEW p \in Procs, AckLost(p) PROVE IngressControl'
  BY <1>16 DEF AckLost, Fault, rowVars, procVars, TypeOK, IngressControl
<1>17. ASSUME NEW p \in Procs, Crash(p) PROVE IngressControl'
  BY <1>17 DEF Crash, Fault, Down, rowVars, TypeOK, IngressControl
<1>18. ASSUME NEW p \in Procs, Restart(p) PROVE IngressControl'
  BY <1>18 DEF Restart, Fault, Goto, Withdraw, rowVars, inVars, TypeOK, IngressControl
<1>19. ASSUME NEW p \in Procs, NEW c \in Commands, Receive(p, c) PROVE IngressControl'
  BY <1>19 DEF Receive, rowVars, procVars, TypeOK, IngressControl
<1>20. ASSUME NEW c \in Commands, DelayPasses(c) PROVE IngressControl'
  BY <1>20 DEF DelayPasses, procVars, inVars, TypeOK, IngressControl
<1>21. CASE UNCHANGED vars
  BY <1>21 DEF vars, TypeOK, IngressControl
<1>22. QED
  BY <1>1, <1>2, <1>3, <1>4, <1>5, <1>6, <1>7, <1>8, <1>9, <1>10, <1>11, <1>12, <1>13, <1>14, <1>15, <1>16, <1>17, <1>18, <1>19, <1>20, <1>21 DEF Next, Processor, Ingress, Faults


-----------------------------------------------------------------------------
(* What a step does to the durable rows: nothing that matters, accept, apply *)

\* No row appears, disappears, or changes to or from PROCESSED.
Quiet ==
  /\ applied' = applied
  /\ \A c \in Commands :
       /\ status'[c] = "ABSENT" <=> status[c] = "ABSENT"
       /\ status'[c] = "PROCESSED" <=> status[c] = "PROCESSED"
       /\ attempts[c] <= attempts'[c]
       /\ status'[c] = "FAILED" => status[c] = "FAILED" \/ attempts'[c] >= MaxAttempts

\* Command c gets its row.
Accepts(c) ==
  /\ applied' = applied
  /\ attempts' = attempts
  /\ status[c] = "ABSENT"
  /\ status' = [status EXCEPT ![c] = "PENDING"]

RowStep == Quiet \/ (\E c \in Commands : Accepts(c)) \/ (\E p \in Procs : CommitEffect(p))

\* A step that keeps status, attempts and applied is quiet.
LEMMA SameRowsQuiet ==
  ASSUME TypeOK, UNCHANGED <<status, attempts, applied>>
  PROVE  Quiet
<1>1. \A c \in Commands : attempts[c] \in Nat /\ attempts'[c] = attempts[c]
  BY DEF TypeOK
<1>2. QED
  BY <1>1 DEF Quiet

\* The INSERT accepts its command or does nothing.
LEMMA InsertKind ==
  ASSUME TypeOK, IngressControl, NEW p \in Procs, InsertRow(p)
  PROVE  RowStep
<1>1. icmd[p] \in Commands /\ UNCHANGED <<attempts, applied>>
  BY DEF InsertRow, IngressControl
<1>2. CASE status[icmd[p]] = "ABSENT"
  <2>1. Accepts(icmd[p])
    BY <1>1, <1>2 DEF InsertRow, Accepts
  <2>2. QED
    BY <1>1, <2>1 DEF RowStep
<1>3. CASE status[icmd[p]] # "ABSENT"
  <2>1. UNCHANGED <<status, attempts, applied>>
    BY <1>1, <1>3 DEF InsertRow
  <2>2. QED
    BY <2>1, SameRowsQuiet DEF RowStep
<1>4. QED
  BY <1>2, <1>3

\* Recording a failure is quiet.
LEMMA RecordKind ==
  ASSUME TypeOK, WriterControl, NEW p \in Procs, RecordFailure(p)
  PROVE  RowStep
<1>1. RecordEffect(p)
  BY RecordFacts
<1>2. QED
  BY <1>1 DEF RecordEffect, Quiet, RowStep

\* Every step of the specification is of one of the three kinds.
LEMMA StepKind ==
  TypeOK /\ WriterControl /\ IngressControl /\ [Next]_vars => RowStep
<1> SUFFICES ASSUME TypeOK, WriterControl, IngressControl, [Next]_vars
             PROVE  RowStep
  OBVIOUS
<1>1. ASSUME NEW p \in Procs, Processor(p) PROVE RowStep
  <2>1. CASE DrainNothing(p)
    <3>1. RequeueEffect(p)
      BY RequeueFacts
    <3>2. status' = RequeuedStatus(p) /\ UNCHANGED <<attempts, applied>>
      BY <2>1 DEF DrainNothing
    <3>3. \A c \in Commands : attempts[c] \in Nat
      BY DEF TypeOK
    <3>4. QED
      BY <3>1, <3>2, <3>3 DEF RequeueEffect, Quiet, RowStep
  <2>2. CASE CommitDrain(p)
    BY <2>2, CommitFacts DEF CommitDrain, RowStep
  <2>3. CASE MarkFailed(p)
    BY <2>3, RecordKind DEF MarkFailed
  <2>4. CASE ClaimHead(p)
    BY <2>4, SameRowsQuiet DEF ClaimHead, rowVars, RowStep
  <2>5. CASE BlockedByFailedHead(p)
    BY <2>5, SameRowsQuiet DEF BlockedByFailedHead, rowVars, RowStep
  <2>6. CASE HandlerFails(p)
    BY <2>6, SameRowsQuiet DEF HandlerFails, rowVars, RowStep
  <2>7. CASE ReportHealth(p)
    BY <2>7, SameRowsQuiet DEF ReportHealth, rowVars, RowStep
  <2>8. QED
    BY <1>1, <2>1, <2>2, <2>3, <2>4, <2>5, <2>6, <2>7 DEF Processor
<1>2. ASSUME NEW p \in Procs, Ingress(p) PROVE RowStep
  <2>1. CASE Enqueue(p)
    BY <2>1, InsertKind DEF Enqueue
  <2>2. ASSUME NEW c \in Commands, Receive(p, c) PROVE RowStep
    BY <2>2, SameRowsQuiet DEF Receive, rowVars, RowStep
  <2>3. CASE Check(p)
    BY <2>3, SameRowsQuiet DEF Check, rowVars, RowStep
  <2>4. CASE Ack(p)
    BY <2>4, SameRowsQuiet DEF Ack, rowVars, RowStep
  <2>5. QED
    BY <1>2, <2>1, <2>2, <2>3, <2>4 DEF Ingress
<1>3. ASSUME NEW p \in Procs, Faults(p) PROVE RowStep
  <2>1. CASE CommitUnknown(p)
    BY <2>1, CommitFacts DEF CommitUnknown, RowStep
  <2>2. CASE MarkInterrupted(p)
    <3>1. CASE RecordFailure(p)
      BY <3>1, RecordKind
    <3>2. CASE UNCHANGED <<rowVars, applied, nextStamp, acked, failures>>
      BY <3>2, SameRowsQuiet DEF rowVars, RowStep
    <3>3. QED
      BY <2>2, <3>1, <3>2 DEF MarkInterrupted
  <2>3. CASE IngressInterrupted(p)
    <3>1. CASE InsertRow(p)
      BY <3>1, InsertKind
    <3>2. CASE UNCHANGED <<rowVars, applied, nextStamp, lock, procVars, icmd, acked, failures>>
      BY <3>2, SameRowsQuiet DEF rowVars, RowStep
    <3>3. QED
      BY <2>3, <3>1, <3>2 DEF IngressInterrupted
  <2>4. CASE InfraAbort(p)
    BY <2>4, SameRowsQuiet DEF InfraAbort, rowVars, RowStep
  <2>5. CASE HealthFails(p)
    BY <2>5, SameRowsQuiet DEF HealthFails, rowVars, RowStep
  <2>6. CASE AckLost(p)
    BY <2>6, SameRowsQuiet DEF AckLost, rowVars, RowStep
  <2>7. CASE Crash(p)
    BY <2>7, SameRowsQuiet DEF Crash, rowVars, RowStep
  <2>8. QED
    BY <1>3, <2>1, <2>2, <2>3, <2>4, <2>5, <2>6, <2>7 DEF Faults
<1>4. ASSUME NEW p \in Procs, Restart(p) PROVE RowStep
  BY <1>4, SameRowsQuiet DEF Restart, rowVars, RowStep
<1>5. ASSUME NEW c \in Commands, DelayPasses(c) PROVE RowStep
  BY <1>5, SameRowsQuiet DEF DelayPasses, RowStep
<1>6. CASE UNCHANGED vars
  BY <1>6, SameRowsQuiet DEF vars, RowStep
<1>7. QED
  BY <1>1, <1>2, <1>3, <1>4, <1>5, <1>6 DEF Next


-----------------------------------------------------------------------------
(* The safety properties *)

\* Effects stay in step with PROCESSED, once per command.
LEMMA OnceStep ==
  TypeOK /\ AppliedExactlyOnce /\ RowStep => AppliedExactlyOnce'
<1> SUFFICES ASSUME TypeOK, AppliedExactlyOnce, RowStep
             PROVE  AppliedExactlyOnce'
  OBVIOUS
<1>1. CASE Quiet
  BY <1>1 DEF Quiet, AppliedExactlyOnce
<1>2. ASSUME NEW c \in Commands, Accepts(c) PROVE AppliedExactlyOnce'
  <2>1. \A d \in Commands : status'[d] = "PROCESSED" <=> status[d] = "PROCESSED"
    BY <1>2 DEF Accepts, TypeOK
  <2>2. QED
    BY <1>2, <2>1 DEF Accepts, AppliedExactlyOnce
<1>3. ASSUME NEW p \in Procs, CommitEffect(p) PROVE AppliedExactlyOnce'
  <2> DEFINE n == Len(applied)
  <2>1. /\ n \in Nat /\ applied \in Seq(Commands) /\ cmd[p] \in Commands
        /\ applied' = Append(applied, cmd[p])
    BY <1>3 DEF CommitEffect, TypeOK
  <2>2. /\ Len(applied') = n + 1 /\ applied'[n + 1] = cmd[p]
        /\ \A i \in 1..n : applied'[i] = applied[i]
    BY <2>1
  <2>3. \A i \in 1..n : applied[i] # cmd[p]
    BY <1>3, <2>1 DEF CommitEffect, AppliedExactlyOnce
  <2>4. \A i, j \in 1..Len(applied') : applied'[i] = applied'[j] => i = j
    BY <2>1, <2>2, <2>3 DEF AppliedExactlyOnce
  <2>5. \A c \in Commands :
          status'[c] = "PROCESSED" <=> \E i \in 1..Len(applied') : applied'[i] = c
    <3>1. TAKE c \in Commands
    <3>2. CASE c = cmd[p]
      <4>1. status'[c] = "PROCESSED"
        BY <1>3, <3>2 DEF CommitEffect
      <4>2. n + 1 \in 1..Len(applied') /\ applied'[n + 1] = c
        BY <2>1, <2>2, <3>2
      <4>3. QED
        BY <4>1, <4>2
    <3>3. CASE c # cmd[p]
      <4>1. status'[c] = "PROCESSED" <=> status[c] = "PROCESSED"
        BY <1>3, <3>3 DEF CommitEffect
      <4>2. status[c] = "PROCESSED" <=> \E i \in 1..n : applied[i] = c
        BY DEF AppliedExactlyOnce
      <4>3. (\E i \in 1..n : applied[i] = c) <=> \E i \in 1..(n + 1) : applied'[i] = c
        BY <2>1, <2>2, <3>3
      <4>4. QED
        BY <2>2, <4>1, <4>2, <4>3
    <3>4. QED
      BY <3>2, <3>3
  <2>6. QED
    BY <2>4, <2>5 DEF AppliedExactlyOnce
<1>4. QED
  BY <1>1, <1>2, <1>3 DEF RowStep

\* A row that exists keeps existing.
LEMMA RowsStay ==
  ASSUME TypeOK, RowStep
  PROVE  \A c \in Commands : status[c] # "ABSENT" => status'[c] # "ABSENT"
<1>1. CASE Quiet
  BY <1>1 DEF Quiet
<1>2. ASSUME NEW c \in Commands, Accepts(c)
      PROVE  \A d \in Commands : status[d] # "ABSENT" => status'[d] # "ABSENT"
  BY <1>2 DEF Accepts, TypeOK
<1>3. ASSUME NEW p \in Procs, CommitEffect(p)
      PROVE  \A d \in Commands : status[d] # "ABSENT" => status'[d] # "ABSENT"
  BY <1>3 DEF CommitEffect
<1>4. QED
  BY <1>1, <1>2, <1>3 DEF RowStep

\* PROCESSED is final.
LEMMA ProcessedStays ==
  ASSUME TypeOK, RowStep, NEW c \in Commands, status[c] = "PROCESSED"
  PROVE  status'[c] = "PROCESSED"
<1>1. CASE Quiet
  BY <1>1 DEF Quiet
<1>2. ASSUME NEW d \in Commands, Accepts(d) PROVE status'[c] = "PROCESSED"
  BY <1>2 DEF Accepts, TypeOK
<1>3. ASSUME NEW p \in Procs, CommitEffect(p) PROVE status'[c] = "PROCESSED"
  BY <1>3 DEF CommitEffect
<1>4. QED
  BY <1>1, <1>2, <1>3 DEF RowStep

\* Only Ack acknowledges, and it does so for a command that has its row.
LEMMA AckedStep ==
  TypeOK /\ WriterControl /\ IngressControl /\ AckedIsDurable /\ [Next]_vars => AckedIsDurable'
<1> SUFFICES ASSUME TypeOK, WriterControl, IngressControl, AckedIsDurable, [Next]_vars
             PROVE  AckedIsDurable'
  OBVIOUS
<1>1. \A c \in Commands : status[c] # "ABSENT" => status'[c] # "ABSENT"
  BY StepKind, RowsStay
<1>2. acked' = acked \/ \E p \in Procs : ipc[p] = "acking" /\ acked' = acked \cup {icmd[p]}
  BY DEF Next, Processor, Ingress, Faults, ClaimHead, DrainNothing, BlockedByFailedHead,
     CommitDrain, HandlerFails, MarkFailed, RecordFailure, ReportHealth, Receive, Check,
     Enqueue, InsertRow, Ack, InfraAbort, CommitUnknown, HealthFails, MarkInterrupted,
     IngressInterrupted, AckLost, Crash, Restart, DelayPasses, vars
<1>3. acked \subseteq Commands /\ \A p \in Procs : ipc[p] = "acking" =>
        icmd[p] \in Commands /\ status[icmd[p]] # "ABSENT"
  BY DEF TypeOK, IngressControl
<1>4. QED
  BY <1>1, <1>2, <1>3 DEF AckedIsDurable

\* A row becomes FAILED only with its budget spent, and attempts never shrink.
LEMMA BudgetStep ==
  TypeOK /\ TypeOK' /\ FailedAfterBudget /\ RowStep => FailedAfterBudget'
<1> SUFFICES ASSUME TypeOK, TypeOK', FailedAfterBudget, RowStep
             PROVE  FailedAfterBudget'
  OBVIOUS
<1> USE QueueAssumption
<1>1. CASE Quiet
  <2> SUFFICES ASSUME NEW c \in Commands, status'[c] = "FAILED"
               PROVE  attempts'[c] >= MaxAttempts
    BY DEF FailedAfterBudget
  <2>1. CASE attempts'[c] >= MaxAttempts
    BY <2>1
  <2>2. CASE status[c] = "FAILED"
    <3>1. attempts[c] >= MaxAttempts /\ attempts[c] <= attempts'[c] /\ attempts[c] \in Nat
          /\ attempts'[c] \in Nat
      BY <1>1, <2>2 DEF Quiet, FailedAfterBudget, TypeOK
    <3>2. QED
      BY <3>1
  <2>3. QED
    BY <1>1, <2>1, <2>2 DEF Quiet
<1>2. ASSUME NEW c \in Commands, Accepts(c) PROVE FailedAfterBudget'
  BY <1>2 DEF Accepts, FailedAfterBudget, TypeOK
<1>3. ASSUME NEW p \in Procs, CommitEffect(p) PROVE FailedAfterBudget'
  <2> SUFFICES ASSUME NEW c \in Commands, status'[c] = "FAILED"
               PROVE  attempts'[c] >= MaxAttempts
    BY DEF FailedAfterBudget
  <2>1. status[c] = "FAILED" /\ attempts[c] <= attempts'[c]
    BY <1>3 DEF CommitEffect
  <2>2. attempts[c] >= MaxAttempts /\ attempts[c] \in Nat /\ attempts'[c] \in Nat
    BY <1>3, <2>1 DEF CommitEffect, FailedAfterBudget, TypeOK
  <2>3. QED
    BY <2>1, <2>2
<1>4. QED
  BY <1>1, <1>2, <1>3 DEF RowStep

\* The invariant holds initially.
LEMMA InitInv == Init => QueueInv
<1> SUFFICES ASSUME Init PROVE QueueInv
  OBVIOUS
<1> USE QueueAssumption
<1>1. TypeOK
  BY DEF Init, TypeOK, RowStatus
<1>2. WriterControl /\ IngressControl
  BY DEF Init, WriterControl, IngressControl
<1>3. AppliedExactlyOnce
  BY DEF Init, AppliedExactlyOnce
<1>4. AckedIsDurable /\ FailedAfterBudget
  BY DEF Init, AckedIsDurable, FailedAfterBudget
<1>5. QED
  BY <1>1, <1>2, <1>3, <1>4 DEF QueueInv

\* Every step keeps the invariant.
LEMMA StepInv == QueueInv /\ [Next]_vars => QueueInv'
<1> SUFFICES ASSUME QueueInv, [Next]_vars PROVE QueueInv'
  OBVIOUS
<1>1. TypeOK /\ WriterControl /\ IngressControl /\ AppliedExactlyOnce
      /\ AckedIsDurable /\ FailedAfterBudget
  BY DEF QueueInv
<1>2. TypeOK'
  BY <1>1, TypeStep
<1>3. WriterControl' /\ IngressControl'
  BY <1>1, WriterStep, IngressStep
<1>4. RowStep
  BY <1>1, StepKind
<1>5. AppliedExactlyOnce' /\ FailedAfterBudget'
  BY <1>1, <1>2, <1>4, OnceStep, BudgetStep
<1>6. AckedIsDurable'
  BY <1>1, AckedStep
<1>7. QED
  BY <1>2, <1>3, <1>5, <1>6 DEF QueueInv

\* The queue keeps its inductive invariant in every reachable state.
THEOREM QueueInvariant == Spec => []QueueInv
<1>1. Init => QueueInv
  BY InitInv
<1>2. QueueInv /\ [Next]_vars => QueueInv'
  BY StepInv
<1>3. QED
  BY <1>1, <1>2, PTL DEF Spec

\* The columns of the queue and the fields of its processes keep their types.
THEOREM QueueTypes == Spec => []TypeOK
<1>1. QueueInv => TypeOK
  BY DEF QueueInv
<1>2. QED
  BY <1>1, QueueInvariant, PTL

\* drain_once commits the effects of a command exactly once, exactly when its row
\* becomes PROCESSED, with any number of overlapping processes and faults.
THEOREM QueueAppliesExactlyOnce == Spec => []AppliedExactlyOnce
<1>1. QueueInv => AppliedExactlyOnce
  BY DEF QueueInv
<1>2. QED
  BY <1>1, QueueInvariant, PTL

\* The ingress acknowledges no delivery whose row is not durable.
THEOREM QueueLosesNothing == Spec => []AckedIsDurable
<1>1. QueueInv => AckedIsDurable
  BY DEF QueueInv
<1>2. QED
  BY <1>1, QueueInvariant, PTL

\* mark_failed gives a command up only with its whole budget recorded.
THEOREM QueueSpendsBudget == Spec => []FailedAfterBudget
<1>1. QueueInv => FailedAfterBudget
  BY DEF QueueInv
<1>2. QED
  BY <1>1, QueueInvariant, PTL

-----------------------------------------------------------------------------
(* Refinement of the exactly-once log *)

\* The queue implements CommandLog: a committed INSERT accepts a command, a
\* committed drain applies one that was accepted and not applied before, and every
\* other step leaves both unchanged.
THEOREM QueueImplementsLog == Spec => ImplementsCommandLog
<1> DEFINE acc == {c \in Commands : status[c] # "ABSENT"}
<1>1. Init => Log!Init
  BY QueueAssumption DEF Init, Log!Init
<1>2. QueueInv /\ [Next]_vars => [Log!Next]_Log!logVars
  <2> SUFFICES ASSUME QueueInv, [Next]_vars
               PROVE  [Log!Next]_Log!logVars
    OBVIOUS
  <2>1. TypeOK /\ AppliedExactlyOnce /\ RowStep
    BY StepKind DEF QueueInv
  <2>2. CASE Quiet
    <3>1. acc' = acc /\ applied' = applied
      BY <2>2 DEF Quiet
    <3>2. QED
      BY <3>1 DEF Log!logVars
  <2>3. ASSUME NEW c \in Commands, Accepts(c) PROVE Log!Next
    <3>1. c \notin acc /\ acc' = acc \cup {c} /\ applied' = applied
      BY <2>1, <2>3 DEF Accepts, TypeOK
    <3>2. Log!Accept(c)
      BY <3>1 DEF Log!Accept
    <3>3. QED
      BY <3>2 DEF Log!Next
  <2>4. ASSUME NEW p \in Procs, CommitEffect(p) PROVE Log!Next
    <3>1. cmd[p] \in Commands /\ applied' = Append(applied, cmd[p])
      BY <2>4 DEF CommitEffect
    <3>2. acc' = acc /\ cmd[p] \in acc
      BY <2>4 DEF CommitEffect
    <3>3. \A i \in 1..Len(applied) : applied[i] # cmd[p]
      BY <2>1, <2>4 DEF CommitEffect, AppliedExactlyOnce
    <3>4. Log!Apply(cmd[p])
      BY <3>1, <3>2, <3>3 DEF Log!Apply
    <3>5. QED
      BY <3>1, <3>4 DEF Log!Next
  <2>5. QED
    BY <2>1, <2>2, <2>3, <2>4 DEF RowStep
<1>3. QED
  BY <1>1, <1>2, QueueInvariant, PTL DEF Spec, ImplementsCommandLog, Log!Spec

-----------------------------------------------------------------------------
(* Receipt order, with one service process *)

\* No row appears, is decided or is stamped again.
RowsKept ==
  /\ stamp' = stamp
  /\ \A c \in Commands : /\ status'[c] = "ABSENT" <=> status[c] = "ABSENT"
                         /\ status'[c] = "PROCESSED" <=> status[c] = "PROCESSED"

\* No ingress has a new stamp in flight.
StampsKept ==
  /\ nextStamp' = nextStamp
  /\ \A p \in Procs : ipc'[p] = "inserting" => ipc[p] = "inserting" /\ istamp'[p] = istamp[p]

\* One ingress takes a stamp.
TakesStamp(p) ==
  /\ RowsKept /\ applied' = applied
  /\ nextStamp' = nextStamp + 1 /\ istamp'[p] = nextStamp

\* One ingress is done with its INSERT, which added a row or found one.
StampsRow(p) ==
  /\ applied' = applied /\ nextStamp' = nextStamp
  /\ ipc[p] = "inserting" /\ ipc'[p] # "inserting"
  /\ \/ RowsKept
     \/ \E c \in Commands : Accepts(c) /\ stamp' = [stamp EXCEPT ![c] = istamp[p]]

OrderKind ==
  \/ RowsKept /\ applied' = applied /\ StampsKept
  \/ \E p \in Procs : TakesStamp(p) \/ StampsRow(p)
  \/ \E p \in Procs : CommitEffect(p) /\ stamp' = stamp /\ StampsKept

\* A step that keeps status and stamps keeps the rows.
LEMMA SameRowsKept ==
  ASSUME UNCHANGED <<status, stamp>>
  PROVE  RowsKept
BY DEF RowsKept

\* The end of a process takes no stamp.
LEMMA DownStamps ==
  ASSUME TypeOK, NEW p \in Procs, Down(p), nextStamp' = nextStamp
  PROVE  StampsKept
<1>1. /\ ipc' = [ipc EXCEPT ![p] = "idle"] /\ istamp' = [istamp EXCEPT ![p] = 0]
      /\ ipc \in [Procs -> {"idle", "checking", "inserting", "acking"}] /\ istamp \in [Procs -> Nat]
  BY DEF Down, TypeOK
<1>2. QED
  BY <1>1 DEF StampsKept

\* An INSERT stamps its row with the number its ingress took.
LEMMA InsertStamps ==
  ASSUME TypeOK, IngressControl, NEW p \in Procs, InsertRow(p), ipc'[p] # "inserting"
  PROVE  StampsRow(p)
<1>1. /\ ipc[p] = "inserting" /\ icmd[p] \in Commands /\ UNCHANGED <<attempts, applied, nextStamp>>
  BY DEF InsertRow, IngressControl
<1>2. CASE status[icmd[p]] = "ABSENT"
  <2>1. Accepts(icmd[p]) /\ stamp' = [stamp EXCEPT ![icmd[p]] = istamp[p]]
    BY <1>1, <1>2 DEF InsertRow, Accepts
  <2>2. QED
    BY <1>1, <2>1 DEF StampsRow
<1>3. CASE status[icmd[p]] # "ABSENT"
  <2>1. UNCHANGED <<status, stamp>>
    BY <1>3 DEF InsertRow
  <2>2. QED
    BY <1>1, <2>1, SameRowsKept DEF StampsRow
<1>4. QED
  BY <1>2, <1>3

\* Recording a failure keeps the rows.
LEMMA RecordKeeps ==
  ASSUME TypeOK, WriterControl, NEW p \in Procs, RecordFailure(p)
  PROVE  RowsKept /\ applied' = applied /\ nextStamp' = nextStamp
<1>1. RecordEffect(p)
  BY RecordFacts
<1>2. QED
  BY <1>1 DEF RecordEffect, RowsKept

\* Every step is of one of these kinds.
LEMMA OrderKinds ==
  ASSUME TypeOK, WriterControl, IngressControl, [Next]_vars
  PROVE  OrderKind
<1>0. /\ ipc \in [Procs -> {"idle", "checking", "inserting", "acking"}] /\ istamp \in [Procs -> Nat]
  BY DEF TypeOK
<1>1. ASSUME UNCHANGED <<status, stamp, applied>>, StampsKept PROVE OrderKind
  BY <1>1, SameRowsKept DEF OrderKind
<1>2. ASSUME UNCHANGED <<nextStamp, ipc, istamp>> PROVE StampsKept
  BY <1>2 DEF StampsKept
<1>3. ASSUME NEW p \in Procs, Processor(p) PROVE OrderKind
  <2>1. CASE DrainNothing(p)
    <3>1. RequeueEffect(p) /\ status' = RequeuedStatus(p) /\ stamp' = stamp /\ applied' = applied
      BY <2>1, RequeueFacts DEF DrainNothing
    <3>2. StampsKept
      BY <1>2, <2>1 DEF DrainNothing, inVars
    <3>3. QED
      BY <3>1, <3>2 DEF OrderKind, RowsKept, RequeueEffect
  <2>2. CASE CommitDrain(p)
    <3>1. StampsKept
      BY <1>2, <2>2 DEF CommitDrain, inVars
    <3>2. QED
      BY <2>2, <3>1, CommitFacts DEF CommitDrain, OrderKind
  <2>3. CASE MarkFailed(p)
    <3>1. RowsKept /\ applied' = applied /\ nextStamp' = nextStamp
      BY <2>3, RecordKeeps DEF MarkFailed
    <3>2. CASE Terminal(cmdAttempts[p])
      BY <2>3, <3>1, <3>2, DownStamps DEF MarkFailed, Stop, OrderKind
    <3>3. CASE ~Terminal(cmdAttempts[p])
      BY <1>2, <2>3, <3>1, <3>3 DEF MarkFailed, inVars, OrderKind
    <3>4. QED
      BY <3>2, <3>3
  <2>4. CASE ClaimHead(p)
    BY <1>1, <1>2, <2>4 DEF ClaimHead, rowVars, inVars
  <2>5. CASE BlockedByFailedHead(p)
    BY <1>1, <2>5, DownStamps DEF BlockedByFailedHead, rowVars, Stop
  <2>6. CASE HandlerFails(p)
    BY <1>1, <1>2, <2>6 DEF HandlerFails, rowVars, inVars
  <2>7. CASE ReportHealth(p)
    BY <1>1, <1>2, <2>7 DEF ReportHealth, rowVars, inVars
  <2>8. QED
    BY <1>3, <2>1, <2>2, <2>3, <2>4, <2>5, <2>6, <2>7 DEF Processor
<1>4. ASSUME NEW p \in Procs, Ingress(p) PROVE OrderKind
  <2>1. CASE Enqueue(p)
    <3>1. ipc'[p] # "inserting" /\ InsertRow(p)
      BY <1>0, <2>1 DEF Enqueue
    <3>2. QED
      BY <3>1, InsertStamps DEF OrderKind
  <2>2. ASSUME NEW c \in Commands, Receive(p, c) PROVE OrderKind
    BY <1>0, <1>1, <2>2 DEF Receive, rowVars, StampsKept
  <2>3. CASE Check(p)
    <3>1. TakesStamp(p)
      BY <1>0, <2>3, SameRowsKept DEF Check, rowVars, TakesStamp
    <3>2. QED
      BY <3>1 DEF OrderKind
  <2>4. CASE Ack(p)
    BY <1>0, <1>1, <2>4 DEF Ack, rowVars, StampsKept
  <2>5. QED
    BY <1>4, <2>1, <2>2, <2>3, <2>4 DEF Ingress
<1>5. ASSUME NEW p \in Procs, Faults(p) PROVE OrderKind
  <2>1. CASE CommitUnknown(p)
    <3>1. StampsKept
      BY <1>2, <2>1 DEF CommitUnknown, inVars
    <3>2. QED
      BY <2>1, <3>1, CommitFacts DEF CommitUnknown, OrderKind
  <2>2. CASE MarkInterrupted(p)
    <3>1. RowsKept /\ applied' = applied /\ nextStamp' = nextStamp
      BY <2>2, RecordKeeps, SameRowsKept DEF MarkInterrupted, rowVars
    <3>2. StampsKept
      BY <1>2, <2>2, <3>1 DEF MarkInterrupted, inVars
    <3>3. QED
      BY <3>1, <3>2 DEF OrderKind
  <2>3. CASE IngressInterrupted(p)
    <3>1. ipc'[p] # "inserting"
      BY <1>0, <2>3 DEF IngressInterrupted
    <3>2. CASE InsertRow(p)
      BY <3>1, <3>2, InsertStamps DEF OrderKind
    <3>3. CASE ipc[p] = "inserting" /\ UNCHANGED <<rowVars, applied, nextStamp>>
      BY <3>1, <3>3, SameRowsKept DEF rowVars, StampsRow, OrderKind
    <3>4. QED
      BY <2>3, <3>2, <3>3 DEF IngressInterrupted
  <2>4. CASE InfraAbort(p)
    BY <1>1, <1>2, <2>4 DEF InfraAbort, rowVars, inVars
  <2>5. CASE HealthFails(p)
    <3>1. UNCHANGED <<status, stamp, applied, nextStamp>> /\ (UNCHANGED inVars \/ Down(p))
      BY <2>5 DEF HealthFails, rowVars, Stop
    <3>2. QED
      BY <1>1, <1>2, <3>1, DownStamps DEF inVars
  <2>6. CASE AckLost(p)
    BY <1>0, <1>1, <2>6 DEF AckLost, rowVars, StampsKept
  <2>7. CASE Crash(p)
    BY <1>1, <2>7, DownStamps DEF Crash, rowVars
  <2>8. QED
    BY <1>5, <2>1, <2>2, <2>3, <2>4, <2>5, <2>6, <2>7 DEF Faults
<1>6. ASSUME NEW p \in Procs, Restart(p) PROVE OrderKind
  BY <1>1, <1>2, <1>6 DEF Restart, rowVars, inVars
<1>7. ASSUME NEW c \in Commands, DelayPasses(c) PROVE OrderKind
  BY <1>1, <1>2, <1>7 DEF DelayPasses, inVars
<1>8. CASE UNCHANGED vars
  BY <1>1, <1>2, <1>8 DEF vars
<1>9. QED
  BY <1>3, <1>4, <1>5, <1>6, <1>7, <1>8 DEF Next

\* With one process, stamps grow in the order rows are committed.
LEMMA StampStep ==
  ASSUME Alone, TypeOK, StampControl, OrderKind
  PROVE  StampControl'
<1>0. /\ nextStamp \in Nat /\ status \in [Commands -> RowStatus] /\ stamp \in [Commands -> Nat]
      /\ istamp \in [Procs -> Nat]
  BY DEF TypeOK
<1>1. ASSUME stamp' = stamp, StampsKept, \A c \in Commands : status'[c] = "ABSENT" <=> status[c] = "ABSENT"
      PROVE  StampControl'
  BY <1>1 DEF StampControl, StampsKept
<1>2. CASE RowsKept /\ applied' = applied /\ StampsKept
  BY <1>1, <1>2 DEF RowsKept
<1>3. ASSUME NEW p \in Procs, TakesStamp(p) PROVE StampControl'
  <2>1. /\ stamp' = stamp /\ nextStamp' = nextStamp + 1 /\ \A q \in Procs : istamp'[q] = nextStamp
        /\ \A c \in Commands : status'[c] = "ABSENT" <=> status[c] = "ABSENT"
    BY <1>3 DEF TakesStamp, RowsKept, Alone
  <2>2. \A c \in Commands : stamp[c] \in Nat
    BY <1>0
  <2>3. QED
    BY <1>0, <2>1, <2>2 DEF StampControl
<1>4. ASSUME NEW p \in Procs, StampsRow(p) PROVE StampControl'
  <2>1. nextStamp' = nextStamp /\ ipc[p] = "inserting" /\ \A q \in Procs : ipc'[q] # "inserting"
    BY <1>4 DEF StampsRow, Alone
  <2>2. CASE RowsKept
    BY <2>1, <2>2 DEF RowsKept, StampControl
  <2>3. ASSUME NEW c \in Commands, Accepts(c), stamp' = [stamp EXCEPT ![c] = istamp[p]]
        PROVE  StampControl'
    <3>1. \A d \in Commands : /\ status'[d] # "ABSENT" => d = c \/ status[d] # "ABSENT"
                              /\ stamp'[d] = IF d = c THEN istamp[p] ELSE stamp[d]
      BY <1>0, <2>3 DEF Accepts
    <3>2. /\ istamp[p] < nextStamp /\ \A d \in Commands : stamp[d] \in Nat
          /\ \A d \in Commands : status[d] # "ABSENT" => stamp[d] < istamp[p]
      BY <1>0, <2>1 DEF StampControl
    <3>3. \A d \in Commands : status'[d] # "ABSENT" => stamp'[d] < nextStamp'
      BY <2>1, <3>1, <3>2 DEF StampControl
    <3>4. ASSUME NEW d \in Commands, NEW e \in Commands, status'[d] # "ABSENT", status'[e] # "ABSENT",
                 stamp'[d] = stamp'[e]
          PROVE  d = e
      <4>1. istamp[p] \in Nat /\ stamp[d] \in Nat /\ stamp[e] \in Nat
        BY <1>0
      <4>2. CASE d # c /\ e # c
        BY <3>1, <3>4, <4>2 DEF StampControl
      <4>3. CASE d = c /\ e # c
        BY <3>1, <3>2, <3>4, <4>1, <4>3
      <4>4. CASE d # c /\ e = c
        BY <3>1, <3>2, <3>4, <4>1, <4>4
      <4>5. QED
        BY <4>2, <4>3, <4>4
    <3>5. QED
      BY <2>1, <3>3, <3>4 DEF StampControl
  <2>4. QED
    BY <1>4, <2>2, <2>3 DEF StampsRow
<1>5. ASSUME NEW p \in Procs, CommitEffect(p) /\ stamp' = stamp /\ StampsKept PROVE StampControl'
  <2>1. \A c \in Commands : status'[c] = "ABSENT" <=> status[c] = "ABSENT"
    BY <1>5 DEF CommitEffect
  <2>2. QED
    BY <1>1, <1>5, <2>1
<1>6. QED
  BY <1>2, <1>3, <1>4, <1>5 DEF OrderKind

\* A new row comes after every other: what it adds to the queue is behind its head.
LEMMA Outstandings ==
  ASSUME TypeOK, StampControl, OrderKind
  PROVE  /\ \A c \in Commands : status[c] # "ABSENT" => stamp'[c] = stamp[c]
         /\ \A d \in Outstanding' : \/ d \in Outstanding
                                    \/ \A c \in Commands : status[c] # "ABSENT" => stamp[c] < stamp'[d]
         /\ \A d \in Outstanding' : d \in Commands
<1>0. /\ status \in [Commands -> RowStatus] /\ stamp \in [Commands -> Nat]
  BY DEF TypeOK
<1>1. ASSUME stamp' = stamp,
             \A c \in Commands : status'[c] \notin {"ABSENT", "PROCESSED"} => status[c] \notin {"ABSENT", "PROCESSED"}
      PROVE  /\ \A c \in Commands : status[c] # "ABSENT" => stamp'[c] = stamp[c]
             /\ \A d \in Outstanding' : d \in Outstanding
  BY <1>1 DEF Outstanding
<1>2. CASE RowsKept
  BY <1>1, <1>2 DEF RowsKept, Outstanding
<1>3. ASSUME NEW p \in Procs, ipc[p] = "inserting", NEW c \in Commands, Accepts(c),
             stamp' = [stamp EXCEPT ![c] = istamp[p]]
      PROVE  /\ \A d \in Commands : status[d] # "ABSENT" => stamp'[d] = stamp[d]
             /\ \A d \in Outstanding' :
                  d \in Outstanding \/ \A e \in Commands : status[e] # "ABSENT" => stamp[e] < stamp'[d]
  <2>1. \A d \in Commands : /\ d # c => status'[d] = status[d] /\ stamp'[d] = stamp[d]
                            /\ d = c => status[d] = "ABSENT" /\ stamp'[d] = istamp[p]
    BY <1>0, <1>3 DEF Accepts
  <2>2. \A e \in Commands : status[e] # "ABSENT" => stamp[e] < istamp[p]
    BY <1>3 DEF StampControl
  <2>3. QED
    BY <2>1, <2>2 DEF Outstanding
<1>4. ASSUME NEW p \in Procs, CommitEffect(p), stamp' = stamp
      PROVE  \A c \in Commands : status'[c] \notin {"ABSENT", "PROCESSED"} => status[c] \notin {"ABSENT", "PROCESSED"}
  BY <1>4 DEF CommitEffect
<1>5. \A d \in Outstanding' : d \in Commands
  BY DEF Outstanding
<1>6. QED
  BY <1>1, <1>2, <1>3, <1>4, <1>5 DEF OrderKind, TakesStamp, StampsRow

\* The head of the queue stays its head until it is decided.
LEMMA HeadStays ==
  ASSUME TypeOK, StampControl, OrderKind, NEW c \in Commands, IsHead(c), c \in Outstanding'
  PROVE  IsHead(c)'
<1>1. /\ status[c] # "ABSENT" /\ stamp'[c] = stamp[c] /\ stamp[c] \in Nat
      /\ \A d \in Outstanding : stamp[c] <= stamp[d]
  BY Outstandings DEF IsHead, Outstanding, TypeOK
<1>2. ASSUME NEW d \in Outstanding' PROVE stamp'[c] <= stamp'[d]
  <2>0. d \in Commands
    BY Outstandings
  <2>1. CASE d \in Outstanding
    <3>1. status[d] # "ABSENT"
      BY <2>1 DEF Outstanding
    <3>2. QED
      BY <1>1, <2>0, <2>1, <3>1, Outstandings
  <2>2. CASE \A e \in Commands : status[e] # "ABSENT" => stamp[e] < stamp'[d]
    <3>1. stamp[c] < stamp'[d]
      BY <1>1, <2>2
    <3>2. CASE status[d] # "ABSENT"
      <4>1. stamp'[d] \in Nat
        BY <2>0, <3>2, Outstandings DEF TypeOK
      <4>2. QED
        BY <1>1, <3>1, <4>1
    <3>3. CASE status[d] = "ABSENT"
      <4>1. \/ stamp' = stamp
            \/ \E p \in Procs, e \in Commands : stamp' = [stamp EXCEPT ![e] = istamp[p]]
        BY DEF OrderKind, RowsKept, TakesStamp, StampsRow
      <4>2. stamp \in [Commands -> Nat] /\ istamp \in [Procs -> Nat]
        BY DEF TypeOK
      <4>3. stamp'[d] \in Nat
        BY <2>0, <4>1, <4>2
      <4>4. QED
        BY <1>1, <3>1, <4>3
    <3>4. QED
      BY <3>2, <3>3
  <2>3. QED
    BY <2>1, <2>2, Outstandings
<1>3. QED
  BY <1>1, <1>2 DEF IsHead

\* There is one head.
LEMMA OneHead ==
  ASSUME TypeOK, StampControl, NEW c \in Commands, NEW d \in Commands, IsHead(c), IsHead(d)
  PROVE  c = d
<1>1. /\ stamp[c] <= stamp[d] /\ stamp[d] <= stamp[c] /\ stamp[c] \in Nat /\ stamp[d] \in Nat
      /\ status[c] # "ABSENT" /\ status[d] # "ABSENT"
  BY DEF IsHead, Outstanding, TypeOK
<1>2. stamp[c] = stamp[d]
  BY <1>1
<1>3. QED
  BY <1>1, <1>2 DEF StampControl

\* Effects are committed in receipt order.
LEMMA ReceiptStep ==
  ASSUME TypeOK, AppliedExactlyOnce, WriterControl, StampControl, ClaimControl, ReceiptOrder, OrderKind
  PROVE  ReceiptOrder'
<1> DEFINE n == Len(applied)
<1>0. /\ applied \in Seq(Commands) /\ n \in Nat /\ \A i \in 1..n : applied[i] \in Commands
      /\ \A c \in Commands : stamp[c] \in Nat
  BY DEF TypeOK
<1>1. \A i \in 1..n : status[applied[i]] = "PROCESSED" /\ stamp'[applied[i]] = stamp[applied[i]]
  <2>1. \A i \in 1..n : status[applied[i]] = "PROCESSED"
    BY <1>0 DEF AppliedExactlyOnce
  <2>2. QED
    BY <1>0, <2>1, Outstandings
<1>2. \A i \in 1..n, c \in Outstanding' : stamp'[applied[i]] < stamp'[c]
  <2> SUFFICES ASSUME NEW i \in 1..n, NEW c \in Outstanding'
               PROVE  stamp[applied[i]] < stamp'[c]
    BY <1>1
  <2>1. CASE c \in Outstanding
    <3>1. stamp'[c] = stamp[c]
      BY <2>1, Outstandings DEF Outstanding
    <3>2. QED
      BY <2>1, <3>1 DEF ReceiptOrder
  <2>2. CASE \A e \in Commands : status[e] # "ABSENT" => stamp[e] < stamp'[c]
    BY <1>0, <1>1, <2>2
  <2>3. QED
    BY <2>1, <2>2, Outstandings
<1>3. CASE applied' = applied
  <2>1. \A i, j \in 1..n : i < j => stamp'[applied[i]] < stamp'[applied[j]]
    BY <1>1 DEF ReceiptOrder
  <2>2. QED
    BY <1>2, <1>3, <2>1 DEF ReceiptOrder
<1>4. ASSUME NEW p \in Procs, CommitEffect(p), stamp' = stamp PROVE ReceiptOrder'
  <2>1. /\ cmd[p] \in Commands /\ applied' = Append(applied, cmd[p])
        /\ status[cmd[p]] \in {"PENDING", "PROCESSING"} /\ pc[p] = "applying"
        /\ status'[cmd[p]] = "PROCESSED"
    BY <1>4 DEF CommitEffect
  <2>2. cmd[p] \in Outstanding /\ cmd[p] \notin Outstanding'
    BY <2>1 DEF Outstanding
  <2>3. IsHead(cmd[p])
    BY <2>1, <2>2 DEF ClaimControl
  <2>4. /\ Len(applied') = n + 1 /\ applied'[n + 1] = cmd[p]
        /\ \A i \in 1..n : applied'[i] = applied[i]
    BY <1>0, <2>1
  <2>5. \A i \in 1..n : stamp[applied[i]] < stamp[cmd[p]]
    BY <2>2 DEF ReceiptOrder
  <2>6. ASSUME NEW i \in 1..Len(applied'), NEW j \in 1..Len(applied'), i < j
        PROVE  stamp'[applied'[i]] < stamp'[applied'[j]]
    <3>1. CASE j = n + 1
      <4>1. i \in 1..n
        BY <1>0, <2>4, <2>6, <3>1
      <4>2. QED
        BY <1>4, <2>4, <2>5, <3>1, <4>1
    <3>2. CASE j # n + 1
      <4>1. i \in 1..n /\ j \in 1..n
        BY <1>0, <2>4, <2>6, <3>2
      <4>2. QED
        BY <1>4, <2>4, <2>6, <4>1 DEF ReceiptOrder
    <3>3. QED
      BY <3>1, <3>2
  <2>7. \A c \in Outstanding' : stamp[cmd[p]] < stamp[c]
    <3> TAKE c \in Outstanding'
    <3>1. c \in Outstanding /\ c # cmd[p]
      BY <1>4, <2>2 DEF CommitEffect, Outstanding
    <3>2. stamp[cmd[p]] <= stamp[c] /\ stamp[cmd[p]] # stamp[c]
      BY <2>1, <2>3, <3>1 DEF IsHead, StampControl, Outstanding
    <3>3. stamp[cmd[p]] \in Nat /\ stamp[c] \in Nat
      BY <1>0, <2>1, <3>1 DEF Outstanding
    <3>4. QED
      BY <3>2, <3>3
  <2>8. ASSUME NEW i \in 1..Len(applied'), NEW c \in Outstanding'
        PROVE  stamp'[applied'[i]] < stamp'[c]
    <3>1. CASE i = n + 1
      BY <1>4, <2>4, <2>7, <3>1
    <3>2. CASE i # n + 1
      <4>1. i \in 1..n
        BY <1>0, <2>4, <3>2
      <4>2. QED
        BY <1>2, <2>4, <4>1
    <3>3. QED
      BY <3>1, <3>2
  <2>9. QED
    BY <2>6, <2>8 DEF ReceiptOrder
<1>5. QED
  BY <1>3, <1>4 DEF OrderKind, TakesStamp, StampsRow

\* The command in hand stays the head of the queue until it is decided.
LEMMA ClaimStep ==
  ASSUME Alone, QueueInv, StampControl, ClaimControl, OrderKind, [Next]_vars
  PROVE  ClaimControl'
<1> USE DEF QueueInv
<1>0. /\ pc \in [Procs -> {"idle", "applying", "reporting", "marking", "down"}]
      /\ cmd \in [Procs -> Commands \cup {NoCommand}]
  BY DEF TypeOK
<1>1. RowStep
  BY StepKind
<1>2. ASSUME NEW p \in Procs,
             pc'[p] \in {"applying", "marking"} =>
               \/ cmd'[p] = cmd[p] /\ pc[p] \in {"applying", "marking", "reporting"}
               \/ cmd'[p] \in Outstanding /\ IsHead(cmd'[p]),
             pc'[p] = "reporting" /\ cmd'[p] \in Commands =>
               \/ cmd'[p] = cmd[p] /\ pc[p] = "reporting"
               \/ status'[cmd'[p]] = "PROCESSED"
      PROVE  ClaimControl'
  <2>1. ASSUME pc'[p] \in {"applying", "marking"}, cmd'[p] \in Outstanding' PROVE IsHead(cmd[p])'
    <3>0. cmd'[p] \in Commands
      BY <2>1, Outstandings
    <3>1. CASE cmd'[p] \in Outstanding /\ IsHead(cmd'[p])
      <4> DEFINE c == cmd'[p]
      <4>1. c \in Commands /\ IsHead(c) /\ c \in Outstanding'
        BY <2>1, <3>0, <3>1
      <4> HIDE DEF c
      <4>2. c \in Outstanding' /\ \A d \in Outstanding' : stamp'[c] <= stamp'[d]
        BY <4>1, HeadStays DEF IsHead
      <4>3. QED
        BY <4>2 DEF IsHead, c
    <3>2. CASE cmd'[p] = cmd[p] /\ pc[p] \in {"applying", "marking", "reporting"}
      <4>1. status[cmd[p]] # "ABSENT"
        BY <3>0, <3>2 DEF WriterControl
      <4>2. status[cmd[p]] # "PROCESSED"
        BY <1>1, <2>1, <3>0, <3>2, ProcessedStays DEF Outstanding
      <4>3. cmd[p] \in Outstanding
        BY <3>0, <3>2, <4>1, <4>2 DEF Outstanding
      <4>4. IsHead(cmd[p])
        BY <3>0, <3>2, <4>2, <4>3 DEF ClaimControl
      <4>5. QED
        BY <3>1, <3>2, <4>3, <4>4
    <3>3. QED
      BY <1>2, <2>1, <3>1, <3>2
  <2>2. ASSUME pc'[p] = "reporting", cmd'[p] \in Commands PROVE status'[cmd'[p]] = "PROCESSED"
    BY <1>1, <1>2, <2>2, ProcessedStays DEF ClaimControl
  <2>3. \A q \in Procs : q = p
    BY DEF Alone
  <2>4. QED
    BY <2>1, <2>2, <2>3 DEF ClaimControl
<1>3. ASSUME NEW p \in Procs, pc'[p] \notin {"applying", "marking", "reporting"} PROVE ClaimControl'
  BY <1>2, <1>3
<1>4. ASSUME NEW p \in Procs, UNCHANGED <<pc, cmd>> PROVE ClaimControl'
  BY <1>2, <1>4
<1>5. ASSUME NEW p \in Procs, Loop(p) PROVE ClaimControl'
  BY <1>0, <1>3, <1>5 DEF Loop, Goto
<1>6. ASSUME NEW p \in Procs, Down(p) PROVE ClaimControl'
  BY <1>0, <1>3, <1>6 DEF Down
<1>7. ASSUME NEW p \in Procs, Processor(p) PROVE ClaimControl'
  <2>1. CASE ClaimHead(p)
    <3>1. PICK c \in Commands : IsHead(c) /\ cmd' = [cmd EXCEPT ![p] = c]
      BY <2>1 DEF ClaimHead
    <3>2. pc'[p] = "applying" /\ cmd'[p] = c
      BY <1>0, <2>1, <3>1 DEF ClaimHead, Goto
    <3>3. QED
      BY <1>2, <3>1, <3>2 DEF IsHead
  <2>2. CASE DrainNothing(p)
    <3>1. cmd'[p] = NoCommand /\ pc'[p] = "reporting"
      BY <1>0, <2>2 DEF DrainNothing, Goto
    <3>2. QED
      BY <1>2, <3>1, QueueAssumption
  <2>3. CASE BlockedByFailedHead(p)
    BY <1>6, <2>3 DEF BlockedByFailedHead, Stop
  <2>4. CASE CommitDrain(p)
    <3>1. pc'[p] = "reporting" /\ cmd' = cmd
      BY <1>0, <2>4 DEF CommitDrain, Goto
    <3>2. status'[cmd[p]] = "PROCESSED"
      BY <2>4, CommitFacts DEF CommitDrain, CommitEffect
    <3>3. QED
      BY <1>2, <3>1, <3>2
  <2>5. CASE HandlerFails(p)
    <3>1. pc'[p] = "marking" /\ cmd' = cmd /\ pc[p] = "applying"
      BY <1>0, <2>5 DEF HandlerFails, Goto
    <3>2. QED
      BY <1>2, <3>1
  <2>6. CASE MarkFailed(p)
    BY <1>5, <1>6, <2>6 DEF MarkFailed, Stop
  <2>7. CASE ReportHealth(p)
    BY <1>5, <2>7 DEF ReportHealth
  <2>8. QED
    BY <1>7, <2>1, <2>2, <2>3, <2>4, <2>5, <2>6, <2>7 DEF Processor
<1>8. ASSUME NEW p \in Procs, Ingress(p) PROVE ClaimControl'
  <2>1. UNCHANGED <<pc, cmd>>
    BY <1>8 DEF Ingress, Receive, Check, Enqueue, InsertRow, Ack, procVars
  <2>2. QED
    BY <1>4, <2>1
<1>9. ASSUME NEW p \in Procs, Faults(p) PROVE ClaimControl'
  <2>1. CASE IngressInterrupted(p) \/ AckLost(p)
    <3>1. UNCHANGED <<pc, cmd>>
      BY <2>1 DEF IngressInterrupted, InsertRow, AckLost, procVars
    <3>2. QED
      BY <1>4, <3>1
  <2>2. CASE InfraAbort(p) \/ CommitUnknown(p) \/ MarkInterrupted(p)
    BY <1>5, <2>2 DEF InfraAbort, CommitUnknown, MarkInterrupted
  <2>3. CASE Crash(p)
    BY <1>6, <2>3 DEF Crash
  <2>4. CASE HealthFails(p)
    <3>1. CASE Loop(p) \/ Down(p)
      BY <1>5, <1>6, <3>1
    <3>2. CASE Goto(p, "marking") /\ cmd' = cmd /\ pc[p] = "reporting"
      <4>1. pc'[p] = "marking"
        BY <1>0, <3>2 DEF Goto
      <4>2. QED
        BY <1>2, <3>2, <4>1
    <3>3. QED
      BY <2>4, <3>1, <3>2 DEF HealthFails, Stop
  <2>5. QED
    BY <1>9, <2>1, <2>2, <2>3, <2>4 DEF Faults
<1>10. ASSUME NEW p \in Procs, Restart(p) PROVE ClaimControl'
  <2>1. pc'[p] = "idle"
    BY <1>0, <1>10 DEF Restart, Goto
  <2>2. QED
    BY <1>3, <2>1
<1>11. ASSUME NEW c \in Commands, DelayPasses(c) PROVE ClaimControl'
  BY <1>4, <1>11, ProcsAssumption DEF DelayPasses, procVars
<1>12. CASE UNCHANGED vars
  BY <1>4, <1>12, ProcsAssumption DEF vars
<1>13. QED
  BY <1>7, <1>8, <1>9, <1>10, <1>11, <1>12 DEF Next

\* A process that meets a FAILED head only ends, starts, or loops without it.
LEMMA FailedKept ==
  ASSUME Alone, QueueInv, StampControl, FailedControl, OrderKind, [Next]_vars,
         NEW c \in Commands, status[c] = "FAILED"
  PROVE  /\ status'[c] = "FAILED" /\ IsHead(c)'
         /\ \A p \in Procs : pc'[p] \in {"idle", "down"} /\ ready'[p] # "ready"
<1> USE DEF QueueInv
<1>0. /\ pc \in [Procs -> {"idle", "applying", "reporting", "marking", "down"}]
      /\ ready \in [Procs -> {"none", "ready", "full"}]
      /\ status \in [Commands -> RowStatus]
  BY DEF TypeOK
<1>1. IsHead(c) /\ \A p \in Procs : pc[p] \in {"idle", "down"} /\ ready[p] # "ready"
  BY DEF FailedControl
<1>2. \A d \in Commands : IsHead(d) => d = c
  BY <1>1, OneHead
<1>3. ASSUME status'[c] = "FAILED" PROVE IsHead(c)'
  BY <1>1, <1>3, HeadStays DEF Outstanding
<1>4. ASSUME NEW p \in Procs, Processor(p)
      PROVE  /\ status'[c] = "FAILED"
             /\ \A q \in Procs : pc'[q] \in {"idle", "down"} /\ ready'[q] # "ready"
  <2>1. pc[p] \in {"idle", "down"}
    BY <1>1
  <2>2. BlockedByFailedHead(p)
    BY <1>1, <1>2, <1>4, <2>1 DEF Processor, ClaimHead, DrainNothing, CommitDrain, Commit, HandlerFails,
       MarkFailed, RecordFailure, ReportHealth
  <2>3. UNCHANGED status /\ pc' = [pc EXCEPT ![p] = "down"] /\ ready' = [ready EXCEPT ![p] = "none"]
    BY <2>2 DEF BlockedByFailedHead, Stop, Down, rowVars
  <2>4. QED
    BY <1>0, <1>1, <2>3
<1>5. ASSUME NEW p \in Procs, InsertRow(p) PROVE status'[c] = "FAILED"
  BY <1>5, InsertFacts DEF InsertEffect
<1>6. ASSUME NEW p \in Procs, Ingress(p)
      PROVE  status'[c] = "FAILED" /\ UNCHANGED <<pc, ready>>
  BY <1>5, <1>6 DEF Ingress, Receive, Check, Enqueue, InsertRow, Ack, procVars, rowVars
<1>7. ASSUME NEW p \in Procs, Faults(p)
      PROVE  /\ status'[c] = "FAILED"
             /\ \A q \in Procs : pc'[q] \in {"idle", "down"} /\ ready'[q] # "ready"
  <2>1. pc[p] \in {"idle", "down"}
    BY <1>1
  <2>2. InfraAbort(p) \/ IngressInterrupted(p) \/ AckLost(p) \/ Crash(p)
    BY <1>7, <2>1 DEF Faults, CommitUnknown, Commit, HealthFails, MarkInterrupted
  <2>3. CASE InfraAbort(p)
    <3>1. UNCHANGED status /\ pc' = [pc EXCEPT ![p] = "idle"] /\ ready' = [ready EXCEPT ![p] = "none"]
      BY <2>3 DEF InfraAbort, Loop, Goto, Withdraw, rowVars
    <3>2. QED
      BY <1>0, <1>1, <3>1
  <2>4. CASE IngressInterrupted(p) \/ AckLost(p)
    <3>1. UNCHANGED <<pc, ready>>
      BY <2>4 DEF IngressInterrupted, InsertRow, AckLost, procVars
    <3>2. status'[c] = "FAILED"
      BY <1>5, <2>4 DEF IngressInterrupted, AckLost, rowVars
    <3>3. QED
      BY <1>1, <3>1, <3>2
  <2>5. CASE Crash(p)
    <3>1. UNCHANGED <<status, ready>> /\ pc' = [pc EXCEPT ![p] = "down"]
      BY <2>5 DEF Crash, Down, rowVars
    <3>2. QED
      BY <1>0, <1>1, <3>1
  <2>6. QED
    BY <2>2, <2>3, <2>4, <2>5
<1>8. ASSUME NEW p \in Procs, Restart(p)
      PROVE  /\ status'[c] = "FAILED"
             /\ \A q \in Procs : pc'[q] \in {"idle", "down"} /\ ready'[q] # "ready"
  <2>1. UNCHANGED status /\ pc' = [pc EXCEPT ![p] = "idle"] /\ ready' = [ready EXCEPT ![p] = "none"]
    BY <1>8 DEF Restart, Goto, Withdraw, rowVars
  <2>2. QED
    BY <1>0, <1>1, <2>1
<1>9. ASSUME NEW d \in Commands, DelayPasses(d) PROVE UNCHANGED <<status, pc, ready>>
  BY <1>9 DEF DelayPasses, procVars
<1>10. CASE UNCHANGED vars
  BY <1>1, <1>3, <1>10 DEF vars
<1>11. QED
  BY <1>1, <1>3, <1>4, <1>6, <1>7, <1>8, <1>9, <1>10 DEF Next

\* A FAILED command is the head and withdraws readiness.
LEMMA FailedStep ==
  ASSUME Alone, QueueInv, StampControl, ClaimControl, FailedControl, OrderKind, [Next]_vars
  PROVE  FailedControl'
<1> USE DEF QueueInv
<1>0. /\ pc \in [Procs -> {"idle", "applying", "reporting", "marking", "down"}]
      /\ ready \in [Procs -> {"none", "ready", "full"}]
      /\ status \in [Commands -> RowStatus] /\ cmd \in [Procs -> Commands \cup {NoCommand}]
  BY DEF TypeOK
<1>1. ASSUME NEW c \in Commands, status'[c] = "FAILED", status[c] # "FAILED"
      PROVE  /\ IsHead(c)'
             /\ \A p \in Procs : pc'[p] \in {"idle", "down"} /\ ready'[p] # "ready"
  <2>1. PICK p \in Procs : RecordFailure(p) /\ (MarkFailed(p) \/ MarkInterrupted(p))
    <3>1. ASSUME NEW p \in Procs, DrainNothing(p) PROVE status'[c] # "FAILED"
      BY <1>1, <3>1, RequeueFacts DEF DrainNothing, RequeueEffect
    <3>2. ASSUME NEW p \in Procs, Commit(p) PROVE status'[c] # "FAILED"
      BY <1>1, <3>2, CommitFacts DEF CommitEffect
    <3>3. ASSUME NEW p \in Procs, InsertRow(p) PROVE status'[c] # "FAILED"
      BY <1>1, <3>3, InsertFacts DEF InsertEffect
    <3>4. status' # status
      BY <1>1
    <3>5. QED
      BY <1>1, <3>1, <3>2, <3>3, <3>4 DEF Next, Processor, Ingress, Faults, ClaimHead, BlockedByFailedHead,
         CommitDrain, HandlerFails, MarkFailed, ReportHealth, Receive, Check, Enqueue, Ack, InfraAbort,
         CommitUnknown, HealthFails, MarkInterrupted, IngressInterrupted, AckLost, Crash, Restart,
         DelayPasses, vars, rowVars
  <2>2. cmd[p] \in Commands /\ pc[p] = "marking" /\ ready[p] = "none" /\ \A q \in Procs : q = p
    BY <2>1 DEF RecordFailure, WriterControl, FailedControl, Alone
  <2>3. c = cmd[p] /\ status[c] # "PROCESSED" /\ Terminal(cmdAttempts[p])
    BY <1>0, <1>1, <2>1, <2>2 DEF RecordFailure, Recordable
  <2>4. status[c] # "ABSENT"
    BY <2>2, <2>3 DEF WriterControl
  <2>5. IsHead(c)
    BY <2>2, <2>3, <2>4 DEF ClaimControl, Outstanding
  <2>6. c \in Outstanding'
    BY <1>1 DEF Outstanding
  <2>7. pc'[p] \in {"idle", "down"} /\ ready'[p] = "none"
    <3>1. CASE MarkFailed(p)
      BY <1>0, <2>3, <3>1 DEF MarkFailed, Stop, Down
    <3>2. CASE MarkInterrupted(p)
      BY <1>0, <2>2, <3>2 DEF MarkInterrupted, Loop, Goto
    <3>3. QED
      BY <2>1, <3>1, <3>2
  <2>8. IsHead(c)'
    BY <2>5, <2>6, HeadStays
  <2>9. QED
    BY <2>2, <2>7, <2>8
<1>2. \A c \in Commands : status'[c] = "FAILED" =>
        IsHead(c)' /\ \A p \in Procs : pc'[p] \in {"idle", "down"} /\ ready'[p] # "ready"
  BY <1>1, FailedKept
<1>3. ASSUME NEW p \in Procs, pc'[p] = "marking" PROVE ready'[p] = "none"
  <2>0. \A q \in Procs : q = p
    BY DEF Alone
  <2>1. ASSUME UNCHANGED <<pc, ready>> PROVE ready'[p] = "none"
    BY <1>3, <2>1 DEF FailedControl
  <2>2. ASSUME Loop(p) \/ Down(p) \/ Restart(p) PROVE FALSE
    BY <1>0, <1>3, <2>2 DEF Loop, Goto, Down, Restart
  <2>3. ASSUME Withdraw(p) PROVE ready'[p] = "none"
    BY <1>0, <2>3 DEF Withdraw
  <2>4. CASE Processor(p)
    <3>1. CASE HandlerFails(p)
      BY <2>3, <3>1 DEF HandlerFails
    <3>2. CASE ClaimHead(p) \/ DrainNothing(p) \/ CommitDrain(p)
      BY <1>0, <1>3, <3>2 DEF ClaimHead, DrainNothing, CommitDrain, Goto
    <3>3. CASE BlockedByFailedHead(p) \/ MarkFailed(p) \/ ReportHealth(p)
      BY <2>2, <3>3 DEF BlockedByFailedHead, MarkFailed, ReportHealth, Stop
    <3>4. QED
      BY <2>4, <3>1, <3>2, <3>3 DEF Processor
  <2>5. CASE Ingress(p)
    BY <2>1, <2>5 DEF Ingress, Receive, Check, Enqueue, InsertRow, Ack, procVars
  <2>6. CASE Faults(p)
    <3>1. CASE IngressInterrupted(p) \/ AckLost(p)
      BY <2>1, <3>1 DEF IngressInterrupted, InsertRow, AckLost, procVars
    <3>2. CASE InfraAbort(p) \/ CommitUnknown(p) \/ MarkInterrupted(p) \/ Crash(p)
      BY <2>2, <3>2 DEF InfraAbort, CommitUnknown, MarkInterrupted, Crash
    <3>3. CASE HealthFails(p)
      BY <2>2, <2>3, <3>3 DEF HealthFails, Stop
    <3>4. QED
      BY <2>6, <3>1, <3>2, <3>3 DEF Faults
  <2>7. ASSUME NEW d \in Commands, DelayPasses(d) PROVE UNCHANGED <<pc, ready>>
    BY <2>7 DEF DelayPasses, procVars
  <2>8. CASE UNCHANGED vars
    BY <2>1, <2>8 DEF vars
  <2>9. QED
    BY <2>0, <2>1, <2>2, <2>4, <2>5, <2>6, <2>7, <2>8 DEF Next
<1>4. QED
  BY <1>2, <1>3 DEF FailedControl

\* One process: the queue begins ordered.
LEMMA InitAlone == Init => AloneInv
<1> SUFFICES ASSUME Init PROVE AloneInv
  OBVIOUS
<1>1. \A c \in Commands : status[c] # "ABSENT" => c = Legacy /\ status[c] = "PROCESSING"
  BY DEF Init
<1>2. StampControl
  BY <1>1 DEF Init, StampControl
<1>3. ClaimControl /\ FailedControl
  BY <1>1 DEF Init, ClaimControl, FailedControl
<1>4. ReceiptOrder
  BY DEF Init, ReceiptOrder
<1>5. QED
  BY <1>2, <1>3, <1>4 DEF AloneInv

\* One process: every step keeps the order.
LEMMA StepAlone ==
  ASSUME Alone, QueueInv, AloneInv, [Next]_vars
  PROVE  AloneInv'
<1> USE DEF QueueInv, AloneInv
<1>1. OrderKind
  BY OrderKinds
<1>2. StampControl' /\ ReceiptOrder'
  BY <1>1, StampStep, ReceiptStep
<1>3. ClaimControl' /\ FailedControl'
  BY <1>1, ClaimStep, FailedStep
<1>4. QED
  BY <1>2, <1>3

\* With one process the queue keeps its order: stamps grow as rows are committed, the
\* command in hand is the head, and a FAILED head stops it.
THEOREM AloneInvariant ==
  ASSUME Alone
  PROVE  Spec => []AloneInv
<1>1. Init => AloneInv
  BY InitAlone
<1>2. QueueInv /\ AloneInv /\ [Next]_vars => AloneInv'
  BY StepAlone
<1>3. QED
  BY <1>1, <1>2, QueueInvariant, PTL DEF Spec

\* One process: drain_once commits effects in the order commands were received, and never
\* past one that is outstanding, be it delayed or FAILED.
THEOREM QueueReceiptOrder ==
  ASSUME Alone
  PROVE  Spec => []ReceiptOrder
<1>1. AloneInv => ReceiptOrder
  BY DEF AloneInv
<1>2. QED
  BY <1>1, AloneInvariant, PTL

\* One process: report_health never reports it ready while a command is FAILED, across
\* crashes and restarts.
THEOREM QueueFailedNotReady ==
  ASSUME Alone
  PROVE  Spec => []FailedHeadNotReady
<1>1. AloneInv => FailedHeadNotReady
  BY DEF AloneInv, FailedControl, FailedHeadNotReady
<1>2. QED
  BY <1>1, AloneInvariant, PTL

\* One process: nothing it does reopens a FAILED command.  (Two of them can.)
THEOREM QueueFailedStaysFailed ==
  ASSUME Alone
  PROVE  Spec => FailedStaysFailed
<1>1. QueueInv /\ AloneInv /\ [Next]_vars =>
        [\A c \in Commands : status[c] = "FAILED" => status'[c] = "FAILED"]_vars
  <2> SUFFICES ASSUME QueueInv, AloneInv, [Next]_vars, NEW c \in Commands, status[c] = "FAILED"
               PROVE  status'[c] = "FAILED"
    OBVIOUS
  <2>1. OrderKind
    BY OrderKinds DEF QueueInv
  <2>2. QED
    BY <2>1, FailedKept DEF AloneInv
<1>2. QED
  BY <1>1, QueueInvariant, AloneInvariant, PTL DEF Spec, FailedStaysFailed

=============================================================================
