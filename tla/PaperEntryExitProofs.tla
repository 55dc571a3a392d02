-------------------------- MODULE PaperEntryExitProofs --------------------------
(***************************************************************************)
(* Proofs about the exits of a simulated entry, for every set of prices,   *)
(* candles and entries, every bucket length and every number of minutes.   *)
(* The argument is about one bar: what marking a position with it returns  *)
(* (MarkPlainShape), and that the code that marks a leg and the code that  *)
(* marks the checkpoint return the same (LegLikeCheckpoint).  On that rest *)
(* two longer invariants: ProtInv relates the protection stop to every     *)
(* close seen, RecoveryInv the record of _observe to every minute seen.    *)
(***************************************************************************)
EXTENDS PaperEntryExit, TLAPS

Bars ==
  {b \in [t : Minutes, o : Nat, h : Nat, l : Nat, c : Nat] :
     b.l <= b.o /\ b.l <= b.c /\ b.o <= b.h /\ b.c <= b.h}

(* Every bar the engine is fed is a well-formed one.                       *)
LEMMA FedBars ==
  ASSUME NEW t \in Minutes, NEW k \in Candles
  PROVE  [t |-> t, o |-> k.o, h |-> k.h, l |-> k.l, c |-> k.c] \in Bars
BY ExitAssumption DEF Bars

(* _long_exit fills inside the candle, at a gap's open included.           *)
LEMMA LongExitTraded ==
  ASSUME NEW b \in Bars, NEW stop \in Nat, NEW target \in Nat,
         LongExit(b, stop, target) # NoExit
  PROVE  LET x == LongExit(b, stop, target)
         IN  /\ x \in [price : Nat, outcome : {"INVALIDATED", "TARGET_HIT"}]
             /\ b.l <= x.price /\ x.price <= b.h
BY DEF LongExit, NoExit, Bars

(* The same for the stop that protects a profit.                           *)
LEMMA ProtectiveTraded ==
  ASSUME NEW b \in Bars, NEW stop \in Nat, NEW target \in Nat,
         Protective(LongExit(b, stop, target)) # NoExit
  PROVE  LET x == Protective(LongExit(b, stop, target))
         IN  /\ x \in [price : Nat, outcome : {"PROTECTION_EXIT", "TARGET_HIT"}]
             /\ b.l <= x.price /\ x.price <= b.h
<1> DEFINE y == LongExit(b, stop, target)
<1>1. CASE y = NoExit
  BY <1>1 DEF Protective, NoExit
<1>2. CASE y # NoExit
  <2>1. /\ y \in [price : Nat, outcome : {"INVALIDATED", "TARGET_HIT"}]
        /\ b.l <= y.price /\ y.price <= b.h
    BY <1>2, LongExitTraded
  <2> HIDE DEF y
  <2>2. LET x == Protective(y)
        IN  /\ x \in [price : Nat, outcome : {"PROTECTION_EXIT", "TARGET_HIT"}]
            /\ b.l <= x.price /\ x.price <= b.h
    BY <2>1 DEF Protective
  <2> QED  BY <2>2 DEF y
<1> QED  BY <1>1, <1>2

(* An exit in the middle of a bar: inside the candle, at its minute, and   *)
(* nothing of the position but status, price and time is touched.          *)
Leaves(c, q, b) ==
  /\ q = Closed(c, [price |-> q.exit, outcome |-> q.status], b.t)
  /\ q.status \in Outcomes \ {"SESSION_CLOSED"}
  /\ b.l <= q.exit /\ q.exit <= b.h

LEMMA ClosedLeaves ==
  ASSUME NEW c \in Position, NEW b \in Bars,
         NEW x \in [price : Nat, outcome : Outcomes \ {"SESSION_CLOSED"}],
         b.l <= x.price, x.price <= b.h
  PROVE  Closed(c, x, b.t) \in Position /\ Leaves(c, Closed(c, x, b.t), b)
BY DEF Closed, Leaves, Position, Bars, Outcomes

(* Raising the protection stop leaves the position open and well typed.    *)
LEMMA AdvanceKeepsOpen ==
  ASSUME NEW c \in Position, NEW e \in Entries, NEW b \in Bars
  PROVE  /\ AdvanceProtection(c, e, b) \in Position
         /\ AdvanceProtection(c, e, b).status = c.status
<1> DEFINE proposed == IF b.c - (e.price - e.stop) > e.price
                       THEN b.c - (e.price - e.stop) ELSE e.price
<1>1. e \in Entry
  BY ExitAssumption
<1>2. b.c \in Nat /\ b.t \in Minutes
  BY DEF Bars
<1>3. proposed \in Nat
  BY <1>1, <1>2 DEF Entry
<1>4. AdvanceProtection(c, e, b) \in {c, [c EXCEPT !.prot = proposed, !.protAt = b.t]}
  BY DEF AdvanceProtection
<1> HIDE DEF proposed
<1> QED  BY <1>2, <1>3, <1>4 DEF Position

(* What V18, V19, V21 and V22 make of an open checkpoint and a bar.        *)
LEMMA MarkPlainShape ==
  ASSUME NEW c \in Position, c.status = "OPEN", NEW e \in Entries, NEW b \in Bars
  PROVE  LET q == MarkPlain(c, e, b)
         IN  q \in Position /\ (q.status = "OPEN" \/ Leaves(c, q, b))
<1> DEFINE x == LongExit(b, e.stop, e.target)
           y == Protective(LongExit(b, c.prot, e.target))
<1>1. e \in Entry
  BY ExitAssumption
<1>2. e.stop \in Nat /\ e.target \in Nat
  BY <1>1 DEF Entry
<1>3. ASSUME x # NoExit
      PROVE  Closed(c, x, b.t) \in Position /\ Leaves(c, Closed(c, x, b.t), b)
  <2>1. /\ x \in [price : Nat, outcome : {"INVALIDATED", "TARGET_HIT"}]
        /\ b.l <= x.price /\ x.price <= b.h
    BY <1>2, <1>3, LongExitTraded
  <2> HIDE DEF x
  <2>2. x \in [price : Nat, outcome : Outcomes \ {"SESSION_CLOSED"}]
    BY <2>1 DEF Outcomes
  <2> QED  BY <2>1, <2>2, ClosedLeaves
<1>4. ASSUME c.prot # None, y # NoExit
      PROVE  Closed(c, y, b.t) \in Position /\ Leaves(c, Closed(c, y, b.t), b)
  <2>1. c.prot \in Nat
    BY <1>4 DEF Position
  <2>2. /\ y \in [price : Nat, outcome : {"PROTECTION_EXIT", "TARGET_HIT"}]
        /\ b.l <= y.price /\ y.price <= b.h
    BY <1>2, <1>4, <2>1, ProtectiveTraded
  <2> HIDE DEF y
  <2>3. y \in [price : Nat, outcome : Outcomes \ {"SESSION_CLOSED"}]
    BY <2>2 DEF Outcomes
  <2> QED  BY <2>2, <2>3, ClosedLeaves
<1>5. /\ AdvanceProtection(c, e, b) \in Position
      /\ AdvanceProtection(c, e, b).status = "OPEN"
  BY AdvanceKeepsOpen
<1>6. \/ MarkPlain(c, e, b) = c
      \/ x # NoExit /\ MarkPlain(c, e, b) = Closed(c, x, b.t)
      \/ c.prot # None /\ y # NoExit /\ MarkPlain(c, e, b) = Closed(c, y, b.t)
      \/ MarkPlain(c, e, b) = AdvanceProtection(c, e, b)
  <2> DEFINE p == StopOrTarget(c, e, b)
  <2>1. p = IF x = NoExit THEN c ELSE Closed(c, x, b.t)
    BY DEF StopOrTarget
  <2>2. MarkPlain(c, e, b) =
          IF ~e.protected THEN p
          ELSE IF c.protAt # None /\ b.t <= c.protAt THEN c
          ELSE IF c.prot # None /\ y # NoExit THEN Closed(c, y, b.t)
          ELSE IF p.status # "OPEN" THEN p
          ELSE AdvanceProtection(p, e, b)
    BY DEF MarkPlain
  <2>3. x # NoExit => Closed(c, x, b.t).status # "OPEN"
    BY <1>3 DEF Leaves, Outcomes
  <2> HIDE DEF x, y, p
  <2> QED  BY <2>1, <2>2, <2>3
<1> HIDE DEF x, y
<1> QED  BY <1>3, <1>4, <1>5, <1>6

(* _mark_protected_leg repeats on a leg what _mark_checkpoint does on the  *)
(* checkpoint it was opened with.                                          *)
LEMMA LegLikeCheckpoint ==
  ASSUME NEW c \in Position, c.status = "OPEN", entry \in Entries,
         NEW b \in Bars, b.t > entry.reached
  PROVE  MarkLeg(c, b) = MarkPlain(c, entry, b)
<1> DEFINE x == LongExit(b, entry.stop, entry.target)
           y == Protective(LongExit(b, c.prot, entry.target))
           a == AdvanceProtection(c, entry, b)
           p == StopOrTarget(c, entry, b)
<1>1. entry.reached \in Nat /\ entry.stop \in Nat /\ entry.target \in Nat
      /\ entry.protected \in BOOLEAN
  BY ExitAssumption DEF Entry
<1>2. b.t \in Nat
  BY ExitAssumption DEF Bars, Minutes
<1>3. ASSUME x # NoExit  PROVE  Closed(c, x, b.t).status # "OPEN"
  <2>1. x \in [price : Nat, outcome : {"INVALIDATED", "TARGET_HIT"}]
    BY <1>1, <1>3, LongExitTraded
  <2> HIDE DEF x
  <2> QED  BY <2>1 DEF Closed, Position
<1>4. MarkLeg(c, b) =
        IF entry.protected /\ c.protAt # None /\ b.t <= c.protAt THEN c
        ELSE IF entry.protected /\ c.prot # None /\ y # NoExit THEN Closed(c, y, b.t)
        ELSE IF x # NoExit THEN Closed(c, x, b.t)
        ELSE IF entry.protected THEN a ELSE c
  BY <1>1, <1>2 DEF MarkLeg
<1>5. p = IF x = NoExit THEN c ELSE Closed(c, x, b.t)
  BY DEF StopOrTarget
<1>6. MarkPlain(c, entry, b) =
        IF ~entry.protected THEN p
        ELSE IF c.protAt # None /\ b.t <= c.protAt THEN c
        ELSE IF c.prot # None /\ y # NoExit THEN Closed(c, y, b.t)
        ELSE IF p.status # "OPEN" THEN p
        ELSE AdvanceProtection(p, entry, b)
  BY DEF MarkPlain
<1>7. x = NoExit => AdvanceProtection(p, entry, b) = a
  BY <1>5
<1> HIDE DEF x, y, a, p
<1> QED  BY <1>1, <1>3, <1>4, <1>5, <1>6, <1>7

---------------------------------------------------------------------------
(* A recovery exit is asked for by a bar that marked the entry.            *)
PendingAfterEntry ==
  recovery.pending # None => recovery.pending > entry.reached

(* A bucket in progress is counted from its first minute without a gap.    *)
CountedFromStart ==
  recovery.count > 0 => recovery.count = recovery.last - recovery.bucket + 1

(* The session's end never closes the checkpoint, only the intraday leg.   *)
CheckpointOutlivesSession == cp.status # "SESSION_CLOSED"

IInv ==
  /\ TypeOK
  /\ PendingAfterEntry
  /\ CountedFromStart
  /\ CheckpointOutlivesSession
  /\ SameExit
  /\ FillIsTraded

(* What one bar makes of the checkpoint, a pending recovery exit included. *)
LEMMA MarkCheckpointShape ==
  ASSUME IInv, NEW b \in Bars, cp.status = "OPEN", b.t > entry.reached
  PROVE  LET q == MarkCheckpoint(b)
         IN  /\ q \in Position
             /\ q.status = "OPEN" \/ Leaves(cp, q, b)
             /\ IsPending(b) => Leaves(cp, q, b) /\ q.exit = b.o
<1> DEFINE q == MarkCheckpoint(b)
           gap == MarkPlain(cp, entry, AtOpen(b))
           fail == Closed(cp, [price |-> b.o, outcome |-> "RECOVERY_FAILED"], b.t)
<1>1. b.t \in Nat /\ entry.reached \in Nat /\ entry \in Entries /\ cp \in Position
  BY ExitAssumption DEF Bars, Minutes, IInv, TypeOK, Entry
<1>2. AtOpen(b) \in Bars
  <2>1. b \in [t : Minutes, o : Nat, h : Nat, l : Nat, c : Nat]
    BY DEF Bars
  <2>2. /\ AtOpen(b) \in [t : Minutes, o : Nat, h : Nat, l : Nat, c : Nat]
        /\ AtOpen(b).l = b.o /\ AtOpen(b).o = b.o /\ AtOpen(b).c = b.o /\ AtOpen(b).h = b.o
    BY <2>1 DEF AtOpen
  <2> QED  BY <2>1, <2>2 DEF Bars
<1>3. gap \in Position /\ (gap.status = "OPEN" \/ Leaves(cp, gap, AtOpen(b)))
  BY <1>1, <1>2, MarkPlainShape
<1>4. gap.status # "OPEN" => Leaves(cp, gap, b) /\ gap.exit = b.o
  <2>1. AtOpen(b).t = b.t /\ AtOpen(b).l = b.o /\ AtOpen(b).h = b.o
    BY DEF AtOpen, Bars
  <2>2. b.l <= b.o /\ b.o <= b.h /\ b.l \in Nat /\ b.o \in Nat /\ b.h \in Nat
    BY DEF Bars
  <2>3. ASSUME gap.status # "OPEN"  PROVE  gap.exit = b.o
    <3>1. b.o <= gap.exit /\ gap.exit <= b.o
      BY <1>3, <2>1, <2>3 DEF Leaves
    <3>2. gap.exit \in Nat \union {None}
      BY <1>3 DEF Position
    <3> HIDE DEF gap
    <3> QED  BY <3>1, <3>2, <2>2 DEF None
  <2> HIDE DEF gap
  <2> QED  BY <1>3, <2>1, <2>2, <2>3 DEF Leaves
<1>5. fail \in Position /\ Leaves(cp, fail, b) /\ fail.exit = b.o
  <2>1. [price |-> b.o, outcome |-> "RECOVERY_FAILED"]
          \in [price : Nat, outcome : Outcomes \ {"SESSION_CLOSED"}]
    BY DEF Outcomes, Bars
  <2>2. b.l <= b.o /\ b.o <= b.h
    BY DEF Bars
  <2>3. fail.exit = b.o
    BY <1>1 DEF Closed, Position
  <2> QED  BY <1>1, <2>1, <2>2, <2>3, ClosedLeaves
<1>6. MarkPlain(cp, entry, b) \in Position
      /\ (MarkPlain(cp, entry, b).status = "OPEN" \/ Leaves(cp, MarkPlain(cp, entry, b), b))
  BY <1>1, MarkPlainShape
<1>7. q = IF ~IsPending(b) THEN MarkPlain(cp, entry, b)
          ELSE IF gap.status # "OPEN" THEN gap ELSE fail
  BY <1>1 DEF MarkCheckpoint
<1> HIDE DEF q, gap, fail
<1>8. q \in Position /\ (q.status = "OPEN" \/ Leaves(cp, q, b))
      /\ (IsPending(b) => Leaves(cp, q, b) /\ q.exit = b.o)
  BY <1>3, <1>4, <1>5, <1>6, <1>7
<1> QED  BY <1>8 DEF q

(* The engine starts with an open checkpoint and legs that equal it.       *)
LEMMA InitIInv == Init => IInv
<1> SUFFICES ASSUME Init PROVE IInv
  OBVIOUS
<1>1. NewPosition \in Position
  BY DEF NewPosition, Position
<1>2. cp = NewPosition /\ legs = [h \in Horizons |-> NewPosition] /\ entry \in Entries
      /\ recovery = Unobserved /\ lastBar = None
  BY DEF Init
<1>3. SameExit
  BY <1>2 DEF SameExit
<1>4. cp.status = "OPEN"
  BY <1>2 DEF NewPosition
<1>5. recovery.pending = None /\ recovery.count = 0
  BY <1>2 DEF Unobserved
<1>6. TypeOK
  BY <1>1, <1>2, ExitAssumption DEF TypeOK, Unobserved
<1>7. PendingAfterEntry /\ CountedFromStart /\ CheckpointOutlivesSession /\ FillIsTraded
  BY <1>4, <1>5 DEF PendingAfterEntry, CountedFromStart, CheckpointOutlivesSession, FillIsTraded
<1> QED  BY <1>3, <1>6, <1>7 DEF IInv

Recoveries ==
  [bucket : Minutes \union {None}, last : Minutes \union {None},
   count : 0..BucketLen, failedClose : Nat \union {None},
   failedBucket : Minutes \union {None}, pending : Nat \union {None}]

(* The first minute of a bar's bucket, and how far into it the bar is.     *)
LEMMA BucketStart ==
  ASSUME NEW b \in Bars
  PROVE  /\ b.t \in Nat
         /\ b.t - (b.t % BucketLen) \in Minutes
         /\ b.t % BucketLen \in 0..(BucketLen - 1)
<1>1. b.t \in Nat /\ b.t <= MaxMinute
  BY ExitAssumption DEF Bars, Minutes
<1>2. BucketLen \in Nat \ {0} /\ MaxMinute \in Nat
  BY ExitAssumption
<1>3. b.t % BucketLen \in 0..(BucketLen - 1)
  BY <1>1, <1>2
<1>4. b.t % BucketLen <= b.t
  BY <1>1, <1>2
<1> QED  BY <1>1, <1>2, <1>3, <1>4 DEF Minutes

(* _observe keeps its record typed, the count within the bucket, and asks  *)
(* for an exit only at the minute after the bar it observes.               *)
LEMMA ObserveKeeps ==
  ASSUME NEW r \in Recoveries, NEW b \in Bars,
         r.count > 0 => r.count = r.last - r.bucket + 1
  PROVE  LET s == Observe(r, b)
         IN  /\ s \in Recoveries
             /\ s.count > 0 => s.count = s.last - s.bucket + 1
             /\ s.pending \in {r.pending, None, b.t + 1}
<1> DEFINE bucket == b.t - (b.t % BucketLen)
           n == BarCount(r, b)
           counted == [r EXCEPT !.bucket = bucket, !.last = b.t, !.count = n]
           cleared == [counted EXCEPT !.failedClose = None, !.failedBucket = None]
           confirmed == /\ r.failedBucket = bucket - BucketLen
                        /\ r.failedClose # None
                        /\ b.c < r.failedClose
           pend == IF confirmed THEN b.t + 1 ELSE None
           failed == [counted EXCEPT !.failedClose = b.c, !.failedBucket = bucket,
                                     !.pending = pend]
<1>1. b.t \in Nat /\ b.t \in Minutes /\ b.c \in Nat /\ bucket \in Minutes
      /\ bucket <= b.t /\ b.t - bucket + 1 <= BucketLen
  BY BucketStart, ExitAssumption DEF Bars
<1>2. n \in 0..BucketLen /\ (n > 0 => n = b.t - bucket + 1)
  <2>1. r.count \in Nat /\ BucketLen \in Nat \ {0}
    BY ExitAssumption DEF Recoveries
  <2>2. n = IF bucket # r.bucket THEN (IF b.t = bucket THEN 1 ELSE 0)
            ELSE IF r.count > 0 /\ r.last = b.t - 1 THEN r.count + 1 ELSE 0
    BY DEF BarCount
  <2>3. bucket \in Nat
    BY <1>1, ExitAssumption DEF Minutes
  <2> HIDE DEF n, bucket
  <2> QED  BY <1>1, <2>1, <2>2, <2>3
<1>3. pend \in Nat \union {None} /\ pend \in {None, b.t + 1}
  BY <1>1
<1>4. Observe(r, b) \in {r, counted, cleared, failed}
  BY DEF Observe
<1> HIDE DEF bucket, n, pend, confirmed
<1>5. counted \in Recoveries /\ counted.count = n /\ counted.last = b.t
      /\ counted.bucket = bucket /\ counted.pending = r.pending
  BY <1>1, <1>2 DEF Recoveries
<1> HIDE DEF counted
<1>6. cleared \in Recoveries /\ cleared.count = n /\ cleared.last = b.t
      /\ cleared.bucket = bucket /\ cleared.pending = r.pending
  BY <1>5 DEF Recoveries
<1>7. failed \in Recoveries /\ failed.count = n /\ failed.last = b.t
      /\ failed.bucket = bucket /\ failed.pending = pend
  BY <1>1, <1>3, <1>5 DEF Recoveries
<1> HIDE DEF cleared, failed
<1> QED  BY <1>2, <1>3, <1>4, <1>5, <1>6, <1>7

(* What one bar makes of a leg: before the session's end it is the         *)
(* checkpoint's copy, unless an earlier session already closed it.         *)
LEMMA MarkLegsFollow ==
  ASSUME IInv, NEW b \in Bars, NEW h \in Horizons
  PROVE  /\ MarkLegs(b)[h] \in Position
         /\ MarkLegs(b)[h] = MarkCheckpoint(b) \/ MarkLegs(b)[h].status = "SESSION_CLOSED"
<1> DEFINE m == MarkLegs(b)[h]
           left == MarkCheckpoint(b)
<1>1. m = IF IsPending(b) /\ cp.status = "OPEN" /\ legs[h].status = "OPEN"
          THEN Closed(legs[h], [price |-> left.exit, outcome |-> left.status], b.t)
          ELSE MarkLeg(legs[h], b)
  BY DEF MarkLegs
<1>2. /\ cp \in Position /\ legs[h] \in Position
      /\ legs[h] = cp \/ legs[h].status = "SESSION_CLOSED"
      /\ entry \in Entries /\ entry.reached \in Nat
      /\ b.t \in Nat /\ recovery.pending \in Nat \union {None}
  BY ExitAssumption DEF IInv, TypeOK, SameExit, Bars, Minutes, Entry
<1>3. CASE legs[h].status = "SESSION_CLOSED"
  <2>1. MarkLeg(legs[h], b) = legs[h]
    BY <1>3 DEF MarkLeg
  <2> QED  BY <1>1, <1>2, <1>3, <2>1
<1>4. CASE legs[h] = cp /\ cp.status # "OPEN"
  <2>1. MarkLeg(legs[h], b) = cp /\ left = cp
    BY <1>4 DEF MarkLeg, MarkCheckpoint
  <2> QED  BY <1>1, <1>2, <1>4, <2>1
<1>5. CASE legs[h] = cp /\ cp.status = "OPEN" /\ b.t <= entry.reached
  <2>1. MarkLeg(legs[h], b) = cp /\ left = cp
    BY <1>5 DEF MarkLeg, MarkCheckpoint
  <2>2. ~IsPending(b)
    BY <1>2, <1>5 DEF IsPending, IInv, PendingAfterEntry, None
  <2> QED  BY <1>1, <1>2, <1>5, <2>1, <2>2
<1>6. CASE legs[h] = cp /\ cp.status = "OPEN" /\ b.t > entry.reached
  <2>1. left \in Position /\ (IsPending(b) => Leaves(cp, left, b))
    BY <1>6, MarkCheckpointShape
  <2>2. CASE IsPending(b)
    BY <1>1, <1>6, <2>1, <2>2 DEF Leaves
  <2>3. CASE ~IsPending(b)
    <3>1. left = MarkPlain(cp, entry, b)
      BY <1>2, <1>6, <2>3 DEF MarkCheckpoint
    <3>2. MarkLeg(cp, b) = MarkPlain(cp, entry, b)
      BY <1>2, <1>6, LegLikeCheckpoint
    <3> QED  BY <1>1, <1>6, <2>1, <2>3, <3>1, <3>2
  <2> QED  BY <2>2, <2>3
<1> QED  BY <1>2, <1>3, <1>4, <1>5, <1>6

(* A final bar in the order-moving hours keeps the invariant.              *)
LEMMA BarKeepsIInv ==
  ASSUME IInv, NEW b \in Bars, IngestBar(b)
  PROVE  IInv'
<1>1. /\ cp' = MarkCheckpoint(b)
      /\ legs' = SessionClosed(MarkLegs(b), b)
      /\ entry' = entry /\ lastBar' = b.t
  BY DEF IngestBar
<1>2. /\ TypeOK /\ entry \in Entries /\ cp \in Position /\ entry.reached \in Nat
      /\ b.t \in Nat /\ b.t \in Minutes /\ b.c \in Nat
  BY ExitAssumption DEF IInv, TypeOK, Bars, Minutes, Entry
<1>3. /\ cp' \in Position
      /\ cp.status = "OPEN" => cp'.status = "OPEN" \/ Leaves(cp, cp', b)
      /\ cp.status # "OPEN" => cp' = cp
  <2>1. CASE cp.status = "OPEN" /\ b.t > entry.reached
    BY <1>1, <2>1, MarkCheckpointShape
  <2>2. CASE cp.status # "OPEN" \/ b.t <= entry.reached
    <3>1. cp' = cp
      BY <1>1, <2>2 DEF MarkCheckpoint
    <3> QED  BY <1>2, <3>1
  <2> QED  BY <1>2, <2>1, <2>2
<1>4. CheckpointOutlivesSession'
  BY <1>3 DEF CheckpointOutlivesSession, IInv, Leaves
<1>5. \A h \in Horizons :
        /\ legs'[h] \in Position
        /\ legs'[h] = cp' \/ legs'[h].status = "SESSION_CLOSED"
  <2> SUFFICES ASSUME NEW h \in Horizons
               PROVE  /\ legs'[h] \in Position
                      /\ legs'[h] = cp' \/ legs'[h].status = "SESSION_CLOSED"
    OBVIOUS
  <2> DEFINE m == MarkLegs(b)[h]
             over == Closed(m, [price |-> b.c, outcome |-> "SESSION_CLOSED"], b.t)
  <2>1. m \in Position /\ (m = cp' \/ m.status = "SESSION_CLOSED")
    BY <1>1, MarkLegsFollow
  <2>2. legs'[h] = IF h = "INTRADAY" /\ b.t \in CloseMinutes /\ m.status = "OPEN"
                   THEN over ELSE m
    BY <1>1 DEF SessionClosed
  <2> HIDE DEF m
  <2>3. over \in Position /\ over.status = "SESSION_CLOSED"
    BY <1>2, <2>1 DEF Closed, Position, Outcomes
  <2> HIDE DEF over
  <2> QED  BY <2>1, <2>2, <2>3
<1>6. legs' \in [Horizons -> Position]
  <2>1. legs' = [h \in Horizons |-> legs'[h]]
    BY <1>1 DEF SessionClosed
  <2> QED  BY <1>5, <2>1
<1>7. SameExit'
  BY <1>5 DEF SameExit
<1>8. FillIsTraded'
  <2>1. CASE cp.status # "OPEN"
    <3>1. cp' = cp /\ exitBar' = exitBar
      BY <1>3, <2>1 DEF IngestBar
    <3> QED  BY <3>1 DEF FillIsTraded, IInv
  <2>2. CASE cp.status = "OPEN" /\ cp'.status # "OPEN"
    <3>1. Leaves(cp, cp', b)
      BY <1>3, <2>2
    <3>2. cp'.at = b.t /\ b.l <= cp'.exit /\ cp'.exit <= b.h
      BY <1>2, <3>1 DEF Leaves, Closed, Position
    <3>3. exitBar' = [t |-> b.t, o |-> b.o, h |-> b.h, l |-> b.l]
      BY <2>2 DEF IngestBar
    <3> QED  BY <3>2, <3>3 DEF FillIsTraded
  <2> QED  BY <2>1, <2>2 DEF FillIsTraded
<1>9. recovery' \in Recoveries /\ CountedFromStart' /\ PendingAfterEntry'
  <2>1. recovery \in Recoveries /\ CountedFromStart /\ PendingAfterEntry
    BY DEF IInv, TypeOK, Recoveries
  <2>2. CASE recovery' = recovery
    BY <1>1, <2>1, <2>2 DEF CountedFromStart, PendingAfterEntry
  <2>3. CASE recovery' = Observe(recovery, b) /\ b.t > entry.reached
    <3>1. /\ recovery' \in Recoveries
          /\ recovery'.count > 0 => recovery'.count = recovery'.last - recovery'.bucket + 1
          /\ recovery'.pending \in {recovery.pending, None, b.t + 1}
      BY <2>1, <2>3, ObserveKeeps DEF CountedFromStart
    <3>2. PendingAfterEntry'
      BY <1>1, <1>2, <2>1, <2>3, <3>1 DEF PendingAfterEntry
    <3> QED  BY <3>1, <3>2 DEF CountedFromStart
  <2> QED  BY <2>2, <2>3 DEF IngestBar
<1>10. TypeOK'
  BY <1>1, <1>2, <1>3, <1>6, <1>9 DEF TypeOK, Recoveries
<1> QED  BY <1>4, <1>7, <1>8, <1>9, <1>10 DEF IInv

(* Every step keeps the invariant.                                         *)
LEMMA NextIInv == IInv /\ [Next]_vars => IInv'
<1> SUFFICES ASSUME IInv, [Next]_vars PROVE IInv'
  OBVIOUS
<1>1. ASSUME NEW t \in Minutes, NEW k \in Candles,
             IngestBar([t |-> t, o |-> k.o, h |-> k.h, l |-> k.l, c |-> k.c])
      PROVE  IInv'
  BY <1>1, FedBars, BarKeepsIInv
<1>2. ASSUME UNCHANGED <<entry, cp, legs, recovery, exitBar>>, lastBar' \in Minutes \union {None}
      PROVE  IInv'
  BY <1>2 DEF IInv, TypeOK, PendingAfterEntry, CountedFromStart,
              CheckpointOutlivesSession, SameExit, FillIsTraded
<1>3. ASSUME NEW t \in Minutes, IngestReferenceBar(t)  PROVE  IInv'
  BY <1>2, <1>3 DEF IngestReferenceBar
<1>4. CASE UNCHANGED vars
  BY <1>2, <1>4 DEF vars, IInv, TypeOK
<1> QED  BY <1>1, <1>3, <1>4 DEF Next

(* The marks of an entry keep their types, and the count of a bucket's     *)
(* bars stays within the bound RecoveryExitState declares.                 *)
THEOREM ExitTyped == Spec => []TypeOK
<1>1. IInv => TypeOK
  BY DEF IInv
<1> QED  BY <1>1, InitIInv, NextIInv, PTL DEF Spec

(* The code that marks a checkpoint and the code that marks its legs tell  *)
(* the same trade, under every sequence of bars.                           *)
THEOREM LegsFollowCheckpoint == Spec => []SameExit
<1>1. IInv => SameExit
  BY DEF IInv
<1> QED  BY <1>1, InitIInv, NextIInv, PTL DEF Spec

(* No simulated exit is filled at a price the closing bar did not trade.   *)
THEOREM FillsAreTraded == Spec => []FillIsTraded
<1>1. IInv => FillIsTraded
  BY DEF IInv
<1> QED  BY <1>1, InitIInv, NextIInv, PTL DEF Spec

---------------------------------------------------------------------------
(* Which protection stop an open entry has: the best close so far decides, *)
(* and without a stop no close has earned one risk of profit.              *)
ArmedByBest ==
  entry.protected =>
    IF cp.prot = None
    THEN \A t \in SeenMinutes : seen[t] - entry.price < entry.price - entry.stop
    ELSE CalledFor(cp.prot)

(* The stop lies at the entry or above and stems from a bar already seen.  *)
ArmedBefore ==
  /\ cp.protAt <= lastBar
  /\ cp.prot # None => entry.protected /\ cp.prot >= entry.price

(* An entry with a stop leaves below it only at the open of a gap.         *)
LeftAbove ==
  cp.prot # None /\ cp.status # "OPEN" =>
    /\ cp.protAt < cp.at
    /\ cp.exit >= cp.prot \/ cp.exit = exitBar.o

ProtInv ==
  /\ IInv
  /\ seen \in [Minutes -> Nat \union {None}]
  /\ \A t \in SeenMinutes : t <= lastBar
  /\ ArmedByBest
  /\ ArmedBefore
  /\ LeftAbove

(* Where the protective stop fills: at or above itself, or at the open.    *)
LEMMA ProtectiveFill ==
  ASSUME NEW b \in Bars, NEW stop \in Nat, NEW target \in Nat,
         Protective(LongExit(b, stop, target)) # NoExit
  PROVE  LET x == Protective(LongExit(b, stop, target))
         IN  x.price >= stop \/ x.price = b.o
<1> DEFINE y == LongExit(b, stop, target)
<1>1. y = NoExit \/ y.price >= stop \/ y.price = b.o
  BY DEF LongExit, NoExit, Bars
<1>2. y = NoExit \/ y \in [price : Nat, outcome : {"INVALIDATED", "TARGET_HIT"}]
  BY LongExitTraded
<1> HIDE DEF y
<1>3. Protective(y) = NoExit \/ Protective(y).price = y.price
  BY <1>2 DEF Protective
<1>4. y = NoExit => Protective(y) = NoExit
  BY DEF Protective, NoExit
<1>5. Protective(y) # NoExit
  BY DEF y
<1>6. Protective(y).price >= stop \/ Protective(y).price = b.o
  BY <1>1, <1>3, <1>4, <1>5
<1> QED  BY <1>6 DEF y

(* A bar the protective stop survives does not reach the original stop.    *)
LEMMA ProtectedFromStop ==
  ASSUME NEW b \in Bars, NEW stop \in Nat, NEW prot \in Nat, NEW target \in Nat,
         stop < prot, Protective(LongExit(b, prot, target)) = NoExit
  PROVE  LongExit(b, stop, target) = NoExit
<1> DEFINE y == LongExit(b, prot, target)
<1>1. y = NoExit
  <2>1. ASSUME y # NoExit  PROVE  FALSE
    <3>1. Protective(LongExit(b, prot, target)).outcome \in {"PROTECTION_EXIT", "TARGET_HIT"}
      <4>1. y \in [price : Nat, outcome : {"INVALIDATED", "TARGET_HIT"}]
        BY <2>1, LongExitTraded
      <4> HIDE DEF y
      <4>2. Protective(y).outcome \in {"PROTECTION_EXIT", "TARGET_HIT"}
        BY <4>1 DEF Protective
      <4> QED  BY <4>2 DEF y
    <3> QED  BY <3>1 DEF NoExit
  <2> QED  BY <2>1
<1>2. ~(b.o <= prot) /\ ~(b.o >= target) /\ ~(b.l <= prot) /\ ~(b.h >= target)
  BY <1>1 DEF LongExit, NoExit, Bars
<1>3. b.o \in Nat /\ b.l \in Nat /\ b.h \in Nat
  BY DEF Bars
<1> QED  BY <1>2, <1>3 DEF LongExit

(* What _advance_protection makes of a position, by the profit of the      *)
(* completed close.                                                        *)
LEMMA AdvanceExact ==
  ASSUME NEW c \in Position, NEW e \in Entries, NEW b \in Bars
  PROVE  LET q == AdvanceProtection(c, e, b)
             risk == e.price - e.stop
         IN  \/ /\ q.prot = c.prot /\ q.protAt = c.protAt
                /\ \/ b.c - e.price < risk
                   \/ c.prot # None /\ b.c - risk <= c.prot
             \/ /\ q.prot = b.c - risk /\ q.protAt = b.t
                /\ b.c - e.price >= risk
                /\ c.prot = None \/ c.prot < b.c - risk
<1> DEFINE risk == e.price - e.stop
           proposed == IF b.c - risk > e.price THEN b.c - risk ELSE e.price
           q == AdvanceProtection(c, e, b)
<1>1. e.price \in Nat /\ e.stop \in Nat /\ e.stop < e.price /\ b.c \in Nat
      /\ c.prot \in Nat \union {None}
  BY ExitAssumption DEF Entry, Bars, Position
<1>2. b.c - e.price >= risk => proposed = b.c - risk
  BY <1>1
<1>3. q = IF b.c - e.price < risk \/ (c.prot # None /\ proposed <= c.prot)
          THEN c ELSE [c EXCEPT !.prot = proposed, !.protAt = b.t]
  BY DEF AdvanceProtection
<1>4. risk \in Int
  BY <1>1
<1> HIDE DEF proposed, risk
<1>5. CASE b.c - e.price < risk \/ (c.prot # None /\ proposed <= c.prot)
  <2>1. q = c
    BY <1>3, <1>5
  <2> HIDE DEF q
  <2>2. /\ q.prot = c.prot /\ q.protAt = c.protAt
        /\ b.c - e.price < risk \/ (c.prot # None /\ b.c - risk <= c.prot)
    BY <1>1, <1>2, <1>4, <1>5, <2>1
  <2> QED  BY <2>2 DEF q, risk
<1>6. CASE ~(b.c - e.price < risk \/ (c.prot # None /\ proposed <= c.prot))
  <2>1. q = [c EXCEPT !.prot = proposed, !.protAt = b.t]
    BY <1>3, <1>6
  <2>2. q.prot = proposed /\ q.protAt = b.t
    BY <2>1 DEF Position
  <2> HIDE DEF q
  <2>3. /\ q.prot = b.c - risk /\ q.protAt = b.t /\ b.c - e.price >= risk
        /\ c.prot = None \/ c.prot < b.c - risk
    BY <1>1, <1>2, <1>4, <1>6, <2>2 DEF None
  <2> QED  BY <2>3 DEF q, risk
<1> QED  BY <1>5, <1>6

(* What marking an open checkpoint with a newer bar comes to: an exit that *)
(* respects the stop, a stop raised by the close, or nothing.              *)
LEMMA MarkPlainExact ==
  ASSUME NEW c \in Position, c.status = "OPEN", NEW e \in Entries, NEW b \in Bars,
         b.t > c.protAt, c.prot # None => e.protected /\ c.prot >= e.price
  PROVE  LET q == MarkPlain(c, e, b)
         IN  \/ /\ q.status \in {"INVALIDATED", "TARGET_HIT", "PROTECTION_EXIT"}
                /\ c.prot # None => q.exit >= c.prot \/ q.exit = b.o
             \/ e.protected /\ q = AdvanceProtection(c, e, b)
             \/ ~e.protected /\ q = c
<1> DEFINE x == LongExit(b, e.stop, e.target)
           y == Protective(LongExit(b, c.prot, e.target))
           p == StopOrTarget(c, e, b)
           q == MarkPlain(c, e, b)
<1>1. /\ e.stop \in Nat /\ e.target \in Nat /\ e.price \in Nat /\ e.stop < e.price
      /\ e.protected \in BOOLEAN /\ b.t \in Nat /\ c.prot \in Nat \union {None}
      /\ c.protAt \in Nat \union {None}
  BY ExitAssumption DEF Entry, Bars, Minutes, Position
<1>2. p = IF x = NoExit THEN c ELSE Closed(c, x, b.t)
  BY DEF StopOrTarget
<1>3. ~(c.protAt # None /\ b.t <= c.protAt)
  BY <1>1 DEF None
<1>4. q = IF ~e.protected THEN p
          ELSE IF c.prot # None /\ y # NoExit THEN Closed(c, y, b.t)
          ELSE IF p.status # "OPEN" THEN p
          ELSE AdvanceProtection(p, e, b)
  BY <1>3 DEF MarkPlain
<1>5. x = NoExit \/ x \in [price : Nat, outcome : {"INVALIDATED", "TARGET_HIT"}]
  BY <1>1, LongExitTraded
<1>6. ASSUME c.prot # None, y # NoExit
      PROVE  /\ y \in [price : Nat, outcome : {"PROTECTION_EXIT", "TARGET_HIT"}]
             /\ y.price >= c.prot \/ y.price = b.o
  BY <1>1, <1>6, ProtectiveTraded, ProtectiveFill
<1>7. c.prot # None /\ y = NoExit => x = NoExit
  <2> SUFFICES ASSUME c.prot # None, y = NoExit  PROVE  x = NoExit
    OBVIOUS
  <2>1. c.prot \in Nat /\ e.stop < c.prot
    BY <1>1
  <2> QED  BY <1>1, <2>1, ProtectedFromStop
<1> HIDE DEF x, y, p, q
<1>8. \A z \in [price : Nat, outcome : {"INVALIDATED", "TARGET_HIT", "PROTECTION_EXIT"}] :
        /\ Closed(c, z, b.t).status = z.outcome /\ Closed(c, z, b.t).exit = z.price
  BY DEF Closed, Position
<1>9. \/ /\ q.status \in {"INVALIDATED", "TARGET_HIT", "PROTECTION_EXIT"}
         /\ c.prot # None => q.exit >= c.prot \/ q.exit = b.o
      \/ e.protected /\ q = AdvanceProtection(c, e, b)
      \/ ~e.protected /\ q = c
  <2>1. CASE c.prot # None /\ y # NoExit
    <3>1. q = Closed(c, y, b.t)
      BY <1>4, <2>1
    <3>2. /\ y \in [price : Nat, outcome : {"INVALIDATED", "TARGET_HIT", "PROTECTION_EXIT"}]
          /\ y.outcome \in {"PROTECTION_EXIT", "TARGET_HIT"}
          /\ y.price >= c.prot \/ y.price = b.o
      BY <1>6, <2>1
    <3>3. q.status = y.outcome /\ q.exit = y.price
      BY <1>8, <3>1, <3>2
    <3> QED  BY <3>2, <3>3
  <2>2. CASE c.prot # None /\ y = NoExit
    BY <1>2, <1>4, <1>7, <2>2
  <2>3. CASE c.prot = None /\ x = NoExit
    BY <1>1, <1>2, <1>4, <2>3
  <2>4. CASE c.prot = None /\ x # NoExit
    <3>1. /\ x \in [price : Nat, outcome : {"INVALIDATED", "TARGET_HIT", "PROTECTION_EXIT"}]
          /\ x.outcome \in {"INVALIDATED", "TARGET_HIT"}
      BY <1>5, <2>4
    <3>2. p.status = x.outcome
      BY <1>2, <1>8, <2>4, <3>1
    <3>3. q = p
      BY <1>4, <2>4, <3>1, <3>2
    <3> QED  BY <2>4, <3>1, <3>2, <3>3
  <2> QED  BY <2>1, <2>2, <2>3, <2>4
<1> QED  BY <1>9 DEF q

(* The three things a final bar can do to an entry and to its history.     *)
Untouched == cp' = cp /\ seen' = seen /\ exitBar' = exitBar /\ recovery' = recovery

Survives(b) ==
  /\ cp.status = "OPEN" /\ cp'.status = "OPEN" /\ b.t > entry.reached /\ ~IsPending(b)
  /\ \/ entry.protected /\ cp' = AdvanceProtection(cp, entry, b)
     \/ ~entry.protected /\ cp' = cp
  /\ seen' = [seen EXCEPT ![b.t] = b.c]
  /\ exitBar' = exitBar
  /\ recovery' = IF entry.ref # None THEN Observe(recovery, b) ELSE recovery

LeavesAt(b) ==
  /\ cp.status = "OPEN" /\ b.t > entry.reached
  /\ Leaves(cp, cp', b)
  /\ cp.prot # None => cp'.exit >= cp.prot \/ cp'.exit = b.o
  /\ cp'.status = "RECOVERY_FAILED" => IsPending(b) /\ cp'.exit = b.o
  /\ seen' = seen /\ exitBar' = [t |-> b.t, o |-> b.o, h |-> b.h, l |-> b.l]
  /\ recovery' = recovery

LEMMA BarCases ==
  ASSUME ProtInv, NEW b \in Bars, IngestBar(b)
  PROVE  /\ entry' = entry /\ lastBar' = b.t /\ b.t > lastBar
         /\ Untouched \/ Survives(b) \/ LeavesAt(b)
<1>1. /\ entry' = entry /\ lastBar' = b.t /\ b.t > lastBar /\ cp' = MarkCheckpoint(b)
      /\ recovery' = IF entry.ref # None /\ cp.status = "OPEN" /\ cp'.status = "OPEN"
                        /\ b.t > entry.reached
                     THEN Observe(recovery, b) ELSE recovery
      /\ seen' = IF cp'.status = "OPEN" /\ b.t > entry.reached
                 THEN [seen EXCEPT ![b.t] = b.c] ELSE seen
      /\ exitBar' = IF cp.status = "OPEN" /\ cp'.status # "OPEN"
                    THEN [t |-> b.t, o |-> b.o, h |-> b.h, l |-> b.l] ELSE exitBar
  BY DEF IngestBar, IsNew
<1>2. /\ IInv /\ cp \in Position /\ entry \in Entries /\ b.t \in Nat
      /\ entry.reached \in Nat /\ lastBar \in Nat \union {None}
      /\ cp.protAt \in Nat \union {None} /\ cp.protAt <= lastBar
      /\ cp.prot # None => entry.protected /\ cp.prot >= entry.price
  BY ExitAssumption DEF ProtInv, ArmedBefore, IInv, TypeOK, Bars, Minutes, Entry, Position
<1>3. CASE cp.status # "OPEN" \/ b.t <= entry.reached
  <2>1. cp' = cp
    BY <1>1, <1>3 DEF MarkCheckpoint
  <2>2. b.t <= entry.reached => ~(b.t > entry.reached)
    BY <1>2
  <2> QED  BY <1>1, <1>3, <2>1, <2>2 DEF Untouched
<1>4. CASE cp.status = "OPEN" /\ b.t > entry.reached /\ IsPending(b)
  <2>1. Leaves(cp, cp', b) /\ cp'.exit = b.o
    BY <1>1, <1>2, <1>4, MarkCheckpointShape
  <2>2. cp'.status # "OPEN"
    BY <2>1 DEF Leaves, Outcomes
  <2> QED  BY <1>1, <1>4, <2>1, <2>2 DEF LeavesAt
<1>5. CASE cp.status = "OPEN" /\ b.t > entry.reached /\ ~IsPending(b)
  <2>1. cp' = MarkPlain(cp, entry, b)
    BY <1>1, <1>2, <1>5 DEF MarkCheckpoint
  <2>2. b.t > cp.protAt
    BY <1>1, <1>2 DEF None
  <2>3. \/ /\ cp'.status \in {"INVALIDATED", "TARGET_HIT", "PROTECTION_EXIT"}
           /\ cp.prot # None => cp'.exit >= cp.prot \/ cp'.exit = b.o
        \/ entry.protected /\ cp' = AdvanceProtection(cp, entry, b)
        \/ ~entry.protected /\ cp' = cp
    BY <1>2, <1>5, <2>1, <2>2, MarkPlainExact
  <2>4. cp'.status = "OPEN" \/ Leaves(cp, cp', b)
    BY <1>2, <1>5, <2>1, MarkPlainShape
  <2>5. AdvanceProtection(cp, entry, b).status = "OPEN"
    BY <1>2, <1>5, AdvanceKeepsOpen
  <2>6. CASE cp'.status = "OPEN"
    BY <1>1, <1>5, <2>3, <2>6 DEF Survives
  <2>7. CASE cp'.status # "OPEN"
    BY <1>1, <1>5, <2>3, <2>4, <2>5, <2>7 DEF LeavesAt
  <2> QED  BY <2>6, <2>7
<1> QED  BY <1>1, <1>2, <1>3, <1>4, <1>5

(* A bar the entry survives adds its close to what was seen, under a       *)
(* minute of its own.                                                      *)
LEMMA SurvivorSeen ==
  ASSUME ProtInv, NEW b \in Bars, b.t > lastBar, seen' = [seen EXCEPT ![b.t] = b.c]
  PROVE  /\ seen' \in [Minutes -> Nat \union {None}]
         /\ SeenMinutes' = SeenMinutes \union {b.t}
         /\ b.t \notin SeenMinutes
         /\ seen'[b.t] = b.c
         /\ \A t \in SeenMinutes : seen'[t] = seen[t] /\ seen[t] \in Nat
         /\ \A t \in SeenMinutes : t <= lastBar /\ t < b.t
<1>1. /\ seen \in [Minutes -> Nat \union {None}] /\ b.t \in Minutes /\ b.c \in Nat
      /\ b.t \in Nat /\ lastBar \in Nat \union {None}
  BY ExitAssumption DEF ProtInv, IInv, TypeOK, Bars, Minutes
<1>2. \A t \in SeenMinutes : t \in Minutes /\ t \in Nat /\ t <= lastBar /\ seen[t] # None
  BY ExitAssumption DEF ProtInv, SeenMinutes, Minutes
<1>3. \A t \in SeenMinutes : t <= lastBar /\ t < b.t
  BY <1>1, <1>2 DEF None
<1>4. b.t \notin SeenMinutes
  BY <1>1, <1>3
<1>5. \A t \in Minutes : seen'[t] = IF t = b.t THEN b.c ELSE seen[t]
  BY <1>1
<1>6. SeenMinutes' = SeenMinutes \union {b.t}
  BY <1>1, <1>5 DEF SeenMinutes, None
<1> QED  BY <1>1, <1>2, <1>3, <1>4, <1>5, <1>6

(* After a surviving bar the stop is again the one the best close calls    *)
(* for.                                                                    *)
LEMMA SurvivorArmed ==
  ASSUME ProtInv, NEW b \in Bars, entry' = entry, lastBar' = b.t, b.t > lastBar, Survives(b)
  PROVE  ArmedByBest' /\ ArmedBefore'
<1> DEFINE risk == entry.price - entry.stop
<1>1. /\ entry \in Entries /\ cp \in Position /\ entry.price \in Nat /\ entry.stop \in Nat
      /\ entry.stop < entry.price /\ b.c \in Nat /\ b.t \in Minutes /\ b.t \in Nat
      /\ cp.prot \in Nat \union {None} /\ cp.protAt \in Nat \union {None}
      /\ lastBar \in Nat \union {None}
  BY ExitAssumption DEF ProtInv, IInv, TypeOK, Entry, Bars, Minutes, Position
<1>2. ArmedByBest /\ ArmedBefore
  BY DEF ProtInv
<1>3. /\ SeenMinutes' = SeenMinutes \union {b.t}
      /\ seen'[b.t] = b.c
      /\ \A t \in SeenMinutes : seen'[t] = seen[t] /\ seen[t] \in Nat
  BY SurvivorSeen DEF Survives
<1>4. CASE ~entry.protected /\ cp' = cp
  <2>1. ArmedBefore'
    BY <1>1, <1>2, <1>4 DEF ArmedBefore, None
  <2> QED  BY <1>4, <2>1 DEF ArmedByBest
<1>5. CASE entry.protected /\ cp' = AdvanceProtection(cp, entry, b)
  <2>1. \/ /\ cp'.prot = cp.prot /\ cp'.protAt = cp.protAt
           /\ b.c - entry.price < risk \/ (cp.prot # None /\ b.c - risk <= cp.prot)
        \/ /\ cp'.prot = b.c - risk /\ cp'.protAt = b.t
           /\ b.c - entry.price >= risk
           /\ cp.prot = None \/ cp.prot < b.c - risk
    BY <1>1, <1>5, AdvanceExact
  <2>2. risk \in Nat /\ entry.price + risk \in Nat
    BY <1>1
  <2>3. ArmedBefore'
    <3>1. cp'.protAt <= b.t
      BY <1>1, <1>2, <2>1 DEF ArmedBefore, None
    <3>2. cp'.prot # None => cp'.prot >= entry.price
      BY <1>1, <1>2, <2>1 DEF ArmedBefore
    <3> QED  BY <1>5, <3>1, <3>2 DEF ArmedBefore
  <2>4. CASE cp'.prot = cp.prot /\ cp.prot = None
    <3>1. b.c - entry.price < risk
      BY <1>1, <2>1, <2>4 DEF None
    <3>2. \A t \in SeenMinutes : seen[t] - entry.price < risk
      BY <1>2, <1>5, <2>4 DEF ArmedByBest
    <3>3. \A t \in SeenMinutes' : seen'[t] - entry.price < risk
      BY <1>3, <3>1, <3>2
    <3> QED  BY <2>3, <2>4, <3>3 DEF ArmedByBest
  <2>5. CASE cp'.prot = cp.prot /\ cp.prot # None
    <3>1. PICK t \in SeenMinutes :
            /\ seen[t] - entry.price >= risk
            /\ cp.prot = seen[t] - risk
            /\ \A u \in SeenMinutes : seen[u] <= seen[t]
      BY <1>2, <1>5, <2>5 DEF ArmedByBest, CalledFor
    <3>2. seen[t] \in Nat /\ seen'[t] = seen[t]
      BY <1>3, <3>1
    <3>3. b.c <= seen[t]
      BY <1>1, <2>1, <2>2, <2>5, <3>1, <3>2
    <3>4. \A u \in SeenMinutes' : seen'[u] <= seen'[t]
      BY <1>3, <3>1, <3>2, <3>3
    <3>5. CalledFor(cp.prot)'
      BY <1>3, <2>5, <3>1, <3>2, <3>4 DEF CalledFor
    <3> QED  BY <2>3, <2>5, <3>5 DEF ArmedByBest
  <2>6. CASE cp'.prot # cp.prot
    <3>1. /\ cp'.prot = b.c - risk /\ b.c - entry.price >= risk
          /\ cp.prot = None \/ cp.prot < b.c - risk
      BY <2>1, <2>6
    <3>2. \A u \in SeenMinutes : seen[u] <= b.c
      <4>1. CASE cp.prot = None
        <5>1. \A u \in SeenMinutes : seen[u] - entry.price < risk
          BY <1>2, <1>5, <4>1 DEF ArmedByBest
        <5> QED  BY <1>1, <1>3, <2>2, <3>1, <5>1
      <4>2. CASE cp.prot # None
        <5>1. PICK t \in SeenMinutes :
                cp.prot = seen[t] - risk /\ \A u \in SeenMinutes : seen[u] <= seen[t]
          BY <1>2, <1>5, <4>2 DEF ArmedByBest, CalledFor
        <5>2. seen[t] \in Nat /\ seen[t] <= b.c
          BY <1>1, <1>3, <2>2, <3>1, <4>2, <5>1
        <5> QED  BY <1>1, <1>3, <5>1, <5>2
      <4> QED  BY <4>1, <4>2
    <3>3. \A u \in SeenMinutes' : seen'[u] <= seen'[b.t]
      BY <1>1, <1>3, <3>2
    <3>4. CalledFor(cp.prot)'
      BY <1>3, <3>1, <3>3 DEF CalledFor
    <3>5. cp'.prot # None
      BY <1>1, <2>2, <3>1 DEF None
    <3> QED  BY <2>3, <3>4, <3>5 DEF ArmedByBest
  <2> QED  BY <2>4, <2>5, <2>6
<1> QED  BY <1>4, <1>5 DEF Survives

(* A bar that closes the entry leaves the stop and the history as they are. *)
LEMMA LeaverArmed ==
  ASSUME ProtInv, NEW b \in Bars, entry' = entry, lastBar' = b.t, b.t > lastBar, LeavesAt(b)
  PROVE  ArmedByBest' /\ ArmedBefore' /\ LeftAbove'
<1>1. /\ cp \in Position /\ b.t \in Nat /\ lastBar \in Nat \union {None}
      /\ cp.protAt \in Nat \union {None}
  BY ExitAssumption DEF ProtInv, IInv, TypeOK, Bars, Minutes, Position
<1>2. cp'.prot = cp.prot /\ cp'.protAt = cp.protAt /\ cp'.at = b.t
  BY <1>1 DEF LeavesAt, Leaves, Closed, Position
<1>3. seen' = seen /\ exitBar'.o = b.o
  BY DEF LeavesAt
<1>4. ArmedByBest'
  BY <1>2, <1>3 DEF ProtInv, ArmedByBest, CalledFor, SeenMinutes
<1>5. ArmedBefore'
  BY <1>1, <1>2 DEF ProtInv, ArmedBefore, None
<1>6. LeftAbove'
  BY <1>1, <1>2, <1>3 DEF ProtInv, ArmedBefore, LeavesAt, LeftAbove, None
<1> QED  BY <1>4, <1>5, <1>6

(* Every step keeps the protection invariant.                              *)
LEMMA NextProtInv == ProtInv /\ [Next]_vars => ProtInv'
<1> SUFFICES ASSUME ProtInv, [Next]_vars PROVE ProtInv'
  OBVIOUS
<1>1. IInv' /\ lastBar \in Nat \union {None}
  BY NextIInv, ExitAssumption DEF ProtInv, IInv, TypeOK, Minutes
<1>2. ASSUME UNCHANGED <<entry, cp, seen, exitBar>>, lastBar' \in Nat \union {None}, lastBar' >= lastBar
      PROVE  ProtInv'
  <2>1. SeenMinutes' = SeenMinutes /\ SeenMinutes \subseteq Nat
    BY <1>2, ExitAssumption DEF SeenMinutes, Minutes
  <2>2. (\A t \in SeenMinutes : t <= lastBar)'
    BY <1>1, <1>2, <2>1 DEF ProtInv, None
  <2>3. cp.protAt \in Nat \union {None}
    BY ExitAssumption DEF ProtInv, IInv, TypeOK, Position, Minutes
  <2>4. ArmedBefore'
    BY <1>1, <1>2, <2>3 DEF ProtInv, ArmedBefore, None
  <2>5. ArmedByBest' /\ LeftAbove'
    BY <1>2, <2>1 DEF ProtInv, ArmedByBest, CalledFor, LeftAbove
  <2> QED  BY <1>1, <1>2, <2>2, <2>4, <2>5 DEF ProtInv
<1>3. ASSUME NEW b \in Bars, IngestBar(b)  PROVE  ProtInv'
  <2>1. /\ entry' = entry /\ lastBar' = b.t /\ b.t > lastBar
        /\ Untouched \/ Survives(b) \/ LeavesAt(b)
    BY <1>3, BarCases
  <2>2. b.t \in Nat
    BY ExitAssumption DEF Bars, Minutes
  <2>3. CASE Untouched
    BY <1>1, <1>2, <2>1, <2>2, <2>3 DEF Untouched, None
  <2>4. CASE Survives(b)
    <3>1. /\ seen' \in [Minutes -> Nat \union {None}]
          /\ SeenMinutes' = SeenMinutes \union {b.t}
          /\ \A t \in SeenMinutes : t < b.t
      BY <2>1, <2>4, SurvivorSeen DEF Survives
    <3>2. (\A t \in SeenMinutes : t <= lastBar)'
      <4>1. SeenMinutes \subseteq Nat
        BY ExitAssumption DEF SeenMinutes, Minutes
      <4> QED  BY <2>1, <2>2, <3>1, <4>1
    <3>3. ArmedByBest' /\ ArmedBefore'
      BY <2>1, <2>4, SurvivorArmed
    <3>4. LeftAbove'
      BY <2>4 DEF Survives, LeftAbove
    <3> QED  BY <1>1, <3>1, <3>2, <3>3, <3>4 DEF ProtInv
  <2>5. CASE LeavesAt(b)
    <3>1. seen' = seen /\ SeenMinutes' = SeenMinutes /\ SeenMinutes \subseteq Nat
      BY <2>5, ExitAssumption DEF LeavesAt, SeenMinutes, Minutes
    <3>2. (\A t \in SeenMinutes : t <= lastBar)'
      BY <1>1, <2>1, <2>2, <3>1 DEF ProtInv, None
    <3>3. ArmedByBest' /\ ArmedBefore' /\ LeftAbove'
      BY <2>1, <2>5, LeaverArmed
    <3> QED  BY <1>1, <3>1, <3>2, <3>3 DEF ProtInv
  <2> QED  BY <2>1, <2>3, <2>4, <2>5
<1>4. ASSUME NEW t \in Minutes, NEW k \in Candles,
             IngestBar([t |-> t, o |-> k.o, h |-> k.h, l |-> k.l, c |-> k.c])
      PROVE  ProtInv'
  BY <1>3, <1>4, FedBars
<1>5. ASSUME NEW t \in Minutes, IngestReferenceBar(t)  PROVE  ProtInv'
  <2>1. t \in Nat
    BY ExitAssumption DEF Minutes
  <2> QED  BY <1>1, <1>2, <1>5, <2>1 DEF IngestReferenceBar, None
<1>6. CASE UNCHANGED vars
  BY <1>1, <1>2, <1>6 DEF vars, None
<1> QED  BY <1>4, <1>5, <1>6 DEF Next

(* The engine starts without a stop and without a close seen.              *)
LEMMA InitProtInv == Init => ProtInv
<1> SUFFICES ASSUME Init PROVE ProtInv
  OBVIOUS
<1>1. IInv
  BY InitIInv
<1>2. cp.prot = None /\ cp.protAt = None /\ lastBar = None
  BY DEF Init, NewPosition
<1>3. seen = [t \in Minutes |-> None]
  BY DEF Init
<1>4. SeenMinutes = {}
  BY <1>3 DEF SeenMinutes
<1>5. ArmedByBest /\ ArmedBefore /\ LeftAbove
  BY <1>2, <1>4 DEF ArmedByBest, ArmedBefore, LeftAbove, None
<1> QED  BY <1>1, <1>3, <1>4, <1>5 DEF ProtInv

(* The protection stop is the one the best completed close calls for, acts *)
(* only on later bars, and is undercut only by a gap.                      *)
THEOREM ProtectionIsExact == Spec => []ProtectionExact
<1>1. ProtInv => ProtectionExact
  <2> SUFFICES ASSUME ProtInv PROVE ProtectionExact
    OBVIOUS
  <2>1. ASSUME entry.protected, cp.prot = None, NEW p \in Prices, CalledFor(p)
        PROVE  FALSE
    <3>1. PICK t \in SeenMinutes : seen[t] - entry.price >= entry.price - entry.stop
      BY <2>1 DEF CalledFor
    <3>2. seen[t] - entry.price < entry.price - entry.stop
      BY <2>1 DEF ProtInv, ArmedByBest
    <3>3. entry.price \in Nat /\ entry.stop \in Nat /\ seen[t] \in Nat
      BY ExitAssumption DEF ProtInv, IInv, TypeOK, Entry, SeenMinutes
    <3> QED  BY <3>1, <3>2, <3>3
  <2>2. cp.prot # None /\ entry.protected => CalledFor(cp.prot)
    BY DEF ProtInv, ArmedByBest
  <2> QED  BY <2>1, <2>2 DEF ProtectionExact, ProtInv, ArmedBefore, LeftAbove
<1> QED  BY <1>1, InitProtInv, NextProtInv, PTL DEF Spec

---------------------------------------------------------------------------
(* Buckets: the arithmetic of the minutes at which they start.             *)
Start(t) == t - (t % BucketLen)

LEMMA Quotient ==
  ASSUME NEW n \in Nat \ {0}, NEW t \in Nat
  PROVE  t = n * (t \div n) + (t % n) /\ (t \div n) \in Nat /\ (t % n) \in 0..(n - 1)
OBVIOUS

LEMMA NextMultiple ==
  ASSUME NEW n \in Nat \ {0}, NEW p \in Nat, NEW q \in Nat, p + 1 <= q
  PROVE  n * p + n <= n * q
OBVIOUS

LEMMA MultipleHasNoRest ==
  ASSUME NEW n \in Nat \ {0}, NEW q \in Nat
  PROVE  (n * q) % n = 0
OBVIOUS

(* Two buckets are at least a bucket apart.                                *)
LEMMA BucketsApart ==
  ASSUME NEW x \in Nat, NEW y \in Nat, x % BucketLen = 0, y % BucketLen = 0, x < y
  PROVE  x + BucketLen <= y
<1> DEFINE n == BucketLen
           p == x \div n
           q == y \div n
<1>1. n \in Nat \ {0}
  BY ExitAssumption
<1>2. x = n * p + (x % n) /\ y = n * q + (y % n) /\ p \in Nat /\ q \in Nat
  BY <1>1, Quotient
<1>3. x % n = 0 /\ y % n = 0
  OBVIOUS
<1> HIDE DEF n, p, q
<1>4. x = n * p /\ y = n * q
  <2>1. n * p \in Nat /\ n * q \in Nat
    BY <1>1, <1>2
  <2> QED  BY <1>2, <1>3, <2>1
<1>5. p + 1 <= q
  <2>1. CASE p = q
    BY <1>4, <2>1
  <2>2. CASE q + 1 <= p
    <3>1. n * q + n <= n * p
      BY <1>1, <1>2, <2>2, NextMultiple
    <3> QED  BY <1>1, <1>4, <3>1
  <2> QED  BY <1>2, <2>1, <2>2
<1>6. n * p + n <= n * q
  BY <1>1, <1>2, <1>5, NextMultiple
<1> QED  BY <1>4, <1>6 DEF n

(* The bucket before a bucket.                                             *)
LEMMA RestOfPrevious ==
  ASSUME NEW x \in Nat, NEW y \in Nat, x % BucketLen = 0, y = x - BucketLen
  PROVE  y % BucketLen = 0
<1> DEFINE n == BucketLen
           q == x \div n
<1>1. n \in Nat \ {0}
  BY ExitAssumption
<1>2. x = n * q + (x % n) /\ q \in Nat /\ x % n = 0 /\ y = x - n
  BY <1>1, Quotient
<1> HIDE DEF n, q
<1>3. x = n * q
  <2>1. n * q \in Nat
    BY <1>1, <1>2
  <2> QED  BY <1>2, <2>1
<1>4. q # 0
  BY <1>1, <1>2, <1>3
<1>5. q - 1 \in Nat /\ y = n * (q - 1)
  BY <1>1, <1>2, <1>3, <1>4
<1>6. (n * (q - 1)) % n = 0
  BY <1>1, <1>5, MultipleHasNoRest
<1> QED  BY <1>5, <1>6 DEF n

(* The bucket of a minute.                                                 *)
LEMMA StartOfBucket ==
  ASSUME NEW t \in Nat
  PROVE  /\ Start(t) \in Nat /\ Start(t) % BucketLen = 0
         /\ Start(t) <= t /\ t < Start(t) + BucketLen
<1> DEFINE n == BucketLen
           q == t \div n
           r == t % n
<1>1. n \in Nat \ {0}
  BY ExitAssumption
<1>2. t = n * q + r /\ q \in Nat /\ r \in 0..(n - 1)
  BY <1>1, Quotient
<1>3. Start(t) = t - r
  BY DEF Start
<1> HIDE DEF n, q, r
<1>4. n * q \in Nat
  BY <1>1, <1>2
<1>5. Start(t) = n * q
  BY <1>1, <1>2, <1>3, <1>4
<1>6. (n * q) % n = 0
  BY <1>1, <1>2, MultipleHasNoRest
<1> QED  BY <1>1, <1>2, <1>3, <1>4, <1>5, <1>6 DEF n

(* A minute belongs to one bucket.                                         *)
LEMMA OneBucket ==
  ASSUME NEW t \in Nat, NEW x \in Nat, x % BucketLen = 0, x <= t, t < x + BucketLen
  PROVE  Start(t) = x
<1>1. /\ Start(t) \in Nat /\ Start(t) % BucketLen = 0
      /\ Start(t) <= t /\ t < Start(t) + BucketLen
  BY StartOfBucket
<1>2. BucketLen \in Nat
  BY ExitAssumption
<1>3. CASE Start(t) < x
  BY <1>1, <1>2, <1>3, BucketsApart
<1>4. CASE x < Start(t)
  BY <1>1, <1>2, <1>4, BucketsApart
<1> QED  BY <1>1, <1>3, <1>4

---------------------------------------------------------------------------
(* What the record of _observe says of the closes seen, for an open Core   *)
(* Recovery entry.                                                         *)
Observing == entry.ref # None /\ cp.status = "OPEN"

(* A complete bucket that closed below the reference.                      *)
WarnedBy(b) ==
  /\ b % BucketLen = 0 /\ b + BucketLen - 1 <= MaxMinute
  /\ Complete(b) /\ CloseOf(b) < entry.ref

LastIsLatest ==
  /\ recovery.last <= lastBar
  /\ recovery.last = None => recovery.bucket = None
  /\ recovery.last # None =>
       recovery.last \in SeenMinutes /\ recovery.bucket = Start(recovery.last)
  /\ \A t \in SeenMinutes : t <= recovery.last

(* A bucket is counted exactly when no minute of it was missed so far.     *)
CountIsGapless ==
  recovery.last # None =>
    (recovery.count > 0 <=> \A t \in recovery.bucket..recovery.last : t \in SeenMinutes)

(* The warning on record is a real one, and it is the last one there was   *)
(* until the last minute of the next bucket.                               *)
WarningIsLatest ==
  /\ recovery.failedBucket = None <=> recovery.failedClose = None
  /\ recovery.failedBucket # None =>
       /\ WarnedBy(recovery.failedBucket)
       /\ recovery.failedClose = CloseOf(recovery.failedBucket)
  /\ \A b \in Minutes :
       WarnedBy(b) /\ recovery.last < b + 2 * BucketLen - 1 => recovery.failedBucket = b

(* An exit is pending exactly while the bucket just completed confirms.    *)
PendingIsConfirmed ==
  /\ recovery.pending # None =>
       /\ FailureConfirmed(recovery.bucket)
       /\ recovery.last = recovery.bucket + BucketLen - 1
       /\ recovery.pending = recovery.last + 1
  /\ \A b \in Minutes : FailureConfirmed(b) => recovery.bucket = b /\ recovery.pending # None

LeftAsFailed ==
  cp.status = "RECOVERY_FAILED" =>
    \E b \in Minutes :
      /\ FailureConfirmed(b)
      /\ \A t \in SeenMinutes : t <= b + BucketLen - 1
      /\ cp.exit = exitBar.o

RecoveryInv ==
  /\ ProtInv
  /\ entry.ref = None => recovery.pending = None
  /\ Observing => LastIsLatest /\ CountIsGapless /\ WarningIsLatest /\ PendingIsConfirmed
  /\ LeftAsFailed

(* The outcomes of _observe for a bar newer than the last one observed.    *)
LEMMA ObserveCases ==
  ASSUME NEW r \in Recoveries, NEW b \in Bars, r.last = None \/ r.last < b.t
  PROVE  LET s == Observe(r, b)
             k == Start(b.t)
             n == BarCount(r, b)
             confirmed == /\ r.failedBucket = k - BucketLen
                          /\ r.failedClose # None
                          /\ b.c < r.failedClose
         IN  /\ s.bucket = k /\ s.last = b.t /\ s.count = n
             /\ \/ /\ b.t # k + BucketLen - 1
                   /\ s.failedClose = r.failedClose /\ s.failedBucket = r.failedBucket
                   /\ s.pending = r.pending
                \/ /\ b.t = k + BucketLen - 1 /\ (n # BucketLen \/ b.c >= entry.ref)
                   /\ s.failedClose = None /\ s.failedBucket = None
                   /\ s.pending = r.pending
                \/ /\ b.t = k + BucketLen - 1 /\ n = BucketLen /\ ~(b.c >= entry.ref)
                   /\ s.failedClose = b.c /\ s.failedBucket = k
                   /\ s.pending = IF confirmed THEN b.t + 1 ELSE None
<1> DEFINE s == Observe(r, b)
           k == Start(b.t)
           n == BarCount(r, b)
           confirmed == /\ r.failedBucket = k - BucketLen
                        /\ r.failedClose # None
                        /\ b.c < r.failedClose
           pend == IF confirmed THEN b.t + 1 ELSE None
           counted == [r EXCEPT !.bucket = k, !.last = b.t, !.count = n]
           cleared == [counted EXCEPT !.failedClose = None, !.failedBucket = None]
           failed == [counted EXCEPT !.failedClose = b.c, !.failedBucket = k, !.pending = pend]
<1>1. ~(r.last # None /\ b.t <= r.last)
  <2>1. b.t \in Nat /\ r.last \in Nat \union {None}
    BY ExitAssumption DEF Bars, Minutes, Recoveries
  <2> QED  BY <2>1 DEF None
<1>2. s = IF b.t # k + BucketLen - 1 THEN counted
          ELSE IF n # BucketLen \/ b.c >= entry.ref THEN cleared ELSE failed
  BY <1>1 DEF Observe, Start
<1> HIDE DEF k, n, pend, confirmed
<1>3. /\ counted.bucket = k /\ counted.last = b.t /\ counted.count = n
      /\ counted.failedClose = r.failedClose /\ counted.failedBucket = r.failedBucket
      /\ counted.pending = r.pending
  BY DEF Recoveries
<1>4. /\ cleared.bucket = k /\ cleared.last = b.t /\ cleared.count = n
      /\ cleared.failedClose = None /\ cleared.failedBucket = None
      /\ cleared.pending = r.pending
  BY DEF Recoveries
<1>5. /\ failed.bucket = k /\ failed.last = b.t /\ failed.count = n
      /\ failed.failedClose = b.c /\ failed.failedBucket = k /\ failed.pending = pend
  BY DEF Recoveries
<1> HIDE DEF counted, cleared, failed, s
<1>6. /\ s.bucket = k /\ s.last = b.t /\ s.count = n
      /\ \/ /\ b.t # k + BucketLen - 1
            /\ s.failedClose = r.failedClose /\ s.failedBucket = r.failedBucket
            /\ s.pending = r.pending
         \/ /\ b.t = k + BucketLen - 1 /\ (n # BucketLen \/ b.c >= entry.ref)
            /\ s.failedClose = None /\ s.failedBucket = None
            /\ s.pending = r.pending
         \/ /\ b.t = k + BucketLen - 1 /\ n = BucketLen /\ ~(b.c >= entry.ref)
            /\ s.failedClose = b.c /\ s.failedBucket = k
            /\ s.pending = pend
  BY <1>2, <1>3, <1>4, <1>5
<1> QED  BY <1>6 DEF s, k, n, pend, confirmed

(* An open Core Recovery entry survives a bar and observes it.             *)
ObservesBar(b) ==
  /\ RecoveryInv /\ Observing /\ Survives(b)
  /\ entry' = entry /\ lastBar' = b.t /\ b.t > lastBar

LEMMA ObservedTypes ==
  ASSUME NEW b \in Bars, ObservesBar(b)
  PROVE  /\ b.t \in Nat /\ b.t \in Minutes /\ b.c \in Nat /\ entry.ref \in Nat
         /\ recovery \in Recoveries /\ lastBar \in Nat \union {None}
         /\ recovery.last \in Nat \union {None}
         /\ recovery.bucket \in Nat \union {None}
         /\ recovery.failedBucket \in Nat \union {None}
         /\ recovery.failedBucket \in Minutes \union {None}
         /\ recovery.failedClose \in Nat \union {None}
         /\ recovery.count \in Nat
         /\ BucketLen \in Nat \ {0} /\ MaxMinute \in Nat
         /\ SeenMinutes \subseteq Nat /\ SeenMinutes \subseteq Minutes
<1>1. entry \in Entries /\ recovery \in Recoveries /\ lastBar \in Minutes \union {None}
  BY DEF ObservesBar, RecoveryInv, ProtInv, IInv, TypeOK, Recoveries
<1>2. entry.ref \in Nat
  BY <1>1, ExitAssumption DEF Entry, ObservesBar, Observing
<1>3. Minutes \subseteq Nat /\ BucketLen \in Nat \ {0} /\ MaxMinute \in Nat
  BY ExitAssumption DEF Minutes
<1>4. SeenMinutes \subseteq Minutes
  BY DEF SeenMinutes
<1>5. b.t \in Minutes /\ b.c \in Nat
  BY DEF Bars
<1>6. /\ recovery.last \in Minutes \union {None}
      /\ recovery.bucket \in Minutes \union {None}
      /\ recovery.failedBucket \in Minutes \union {None}
      /\ recovery.failedClose \in Nat \union {None}
      /\ recovery.count \in 0..BucketLen
  BY <1>1 DEF Recoveries
<1>7. recovery.count \in Nat
  BY <1>3, <1>6
<1> QED  BY <1>1, <1>2, <1>3, <1>4, <1>5, <1>6, <1>7

(* The bar is newer than everything observed, and no exit was pending.     *)
LEMMA ObservedNewer ==
  ASSUME NEW b \in Bars, ObservesBar(b)
  PROVE  /\ LastIsLatest /\ CountIsGapless /\ WarningIsLatest /\ PendingIsConfirmed
         /\ recovery.last < b.t
         /\ recovery.pending = None
         /\ SeenMinutes' = SeenMinutes \union {b.t}
         /\ b.t \notin SeenMinutes
         /\ seen'[b.t] = b.c
         /\ \A t \in SeenMinutes : seen'[t] = seen[t] /\ seen[t] \in Nat
         /\ recovery' = Observe(recovery, b)
<1>1. LastIsLatest /\ CountIsGapless /\ WarningIsLatest /\ PendingIsConfirmed /\ ProtInv
  BY DEF ObservesBar, RecoveryInv
<1>2. recovery.last < b.t
  BY <1>1, ObservedTypes DEF LastIsLatest, ObservesBar, None
<1>3. recovery.pending = None
  <2>1. ASSUME recovery.pending # None  PROVE  IsPending(b)
    <3>1. recovery.pending = recovery.last + 1
      BY <1>1, <2>1 DEF PendingIsConfirmed
    <3> QED  BY <1>2, <2>1, <3>1, ObservedTypes DEF IsPending, None
  <2> QED  BY <2>1 DEF ObservesBar, Survives
<1>4. /\ SeenMinutes' = SeenMinutes \union {b.t}
      /\ b.t \notin SeenMinutes
      /\ seen'[b.t] = b.c
      /\ \A t \in SeenMinutes : seen'[t] = seen[t] /\ seen[t] \in Nat
  BY <1>1, SurvivorSeen DEF ObservesBar, Survives
<1>5. recovery' = Observe(recovery, b)
  BY DEF ObservesBar, Survives, Observing
<1> QED  BY <1>1, <1>2, <1>3, <1>4, <1>5

(* What the record becomes, in the terms of ObserveCases.                  *)
LEMMA ObservedRecord ==
  ASSUME NEW b \in Bars, ObservesBar(b)
  PROVE  LET k == Start(b.t)
             n == BarCount(recovery, b)
             confirmed == /\ recovery.failedBucket = k - BucketLen
                          /\ recovery.failedClose # None
                          /\ b.c < recovery.failedClose
         IN  /\ recovery'.bucket = k /\ recovery'.last = b.t /\ recovery'.count = n
             /\ \/ /\ b.t # k + BucketLen - 1
                   /\ recovery'.failedClose = recovery.failedClose
                   /\ recovery'.failedBucket = recovery.failedBucket
                   /\ recovery'.pending = None
                \/ /\ b.t = k + BucketLen - 1 /\ (n # BucketLen \/ b.c >= entry.ref)
                   /\ recovery'.failedClose = None /\ recovery'.failedBucket = None
                   /\ recovery'.pending = None
                \/ /\ b.t = k + BucketLen - 1 /\ n = BucketLen /\ b.c < entry.ref
                   /\ recovery'.failedClose = b.c /\ recovery'.failedBucket = k
                   /\ recovery'.pending = IF confirmed THEN b.t + 1 ELSE None
<1> DEFINE r == recovery
<1>1. /\ r \in Recoveries /\ (r.last = None \/ r.last < b.t) /\ recovery' = Observe(r, b)
      /\ r.pending = None
  BY ObservedTypes, ObservedNewer
<1>2. b.c \in Nat /\ entry.ref \in Nat
  BY ObservedTypes
<1>3. ~(b.c >= entry.ref) => b.c < entry.ref
  BY <1>2
<1> HIDE DEF r
<1>4. LET s == Observe(r, b)
          k == Start(b.t)
          n == BarCount(r, b)
          confirmed == /\ r.failedBucket = k - BucketLen
                       /\ r.failedClose # None
                       /\ b.c < r.failedClose
      IN  /\ s.bucket = k /\ s.last = b.t /\ s.count = n
          /\ \/ /\ b.t # k + BucketLen - 1
                /\ s.failedClose = r.failedClose /\ s.failedBucket = r.failedBucket
                /\ s.pending = r.pending
             \/ /\ b.t = k + BucketLen - 1 /\ (n # BucketLen \/ b.c >= entry.ref)
                /\ s.failedClose = None /\ s.failedBucket = None
                /\ s.pending = r.pending
             \/ /\ b.t = k + BucketLen - 1 /\ n = BucketLen /\ ~(b.c >= entry.ref)
                /\ s.failedClose = b.c /\ s.failedBucket = k
                /\ s.pending = IF confirmed THEN b.t + 1 ELSE None
  BY <1>1, ObserveCases
<1> QED  BY <1>1, <1>3, <1>4 DEF r

LEMMA ObservedLatest ==
  ASSUME NEW b \in Bars, ObservesBar(b)
  PROVE  LastIsLatest'
<1>1. recovery'.bucket = Start(b.t) /\ recovery'.last = b.t
  BY ObservedRecord
<1>2. /\ \A t \in SeenMinutes : t <= recovery.last
      /\ recovery.last < b.t /\ SeenMinutes' = SeenMinutes \union {b.t}
  BY ObservedNewer DEF LastIsLatest
<1>3. \A t \in SeenMinutes' : t <= b.t
  BY <1>2, ObservedTypes DEF None
<1>4. lastBar' = b.t /\ b.t # None
  BY ObservedTypes DEF ObservesBar, None
<1>5. Start(recovery.last)' = Start(b.t)
  BY <1>1 DEF Start
<1> QED  BY <1>1, <1>2, <1>3, <1>4, <1>5, ObservedTypes DEF LastIsLatest

(* The count goes on, or starts, exactly when no minute is missing.        *)
LEMMA ObservedCount ==
  ASSUME NEW b \in Bars, ObservesBar(b)
  PROVE  /\ BarCount(recovery, b) > 0 <=> \A t \in Start(b.t)..b.t : t \in SeenMinutes'
         /\ CountIsGapless'
<1> DEFINE k == Start(b.t)
           n == BarCount(recovery, b)
           r == recovery
<1>1. /\ k \in Nat /\ k % BucketLen = 0 /\ k <= b.t /\ b.t < k + BucketLen
      /\ b.t \in Nat /\ BucketLen \in Nat
  BY StartOfBucket, ObservedTypes
<1>2. n = IF k # r.bucket THEN (IF b.t = k THEN 1 ELSE 0)
          ELSE IF r.count > 0 /\ r.last = b.t - 1 THEN r.count + 1 ELSE 0
  BY DEF BarCount, Start
<1>3. /\ r.last = None => r.bucket = None
      /\ r.last # None => r.last \in SeenMinutes /\ r.bucket = Start(r.last)
      /\ \A t \in SeenMinutes : t <= r.last
      /\ r.last # None => (r.count > 0 <=> \A t \in r.bucket..r.last : t \in SeenMinutes)
      /\ r.last < b.t /\ SeenMinutes' = SeenMinutes \union {b.t} /\ b.t \notin SeenMinutes
  BY ObservedNewer DEF LastIsLatest, CountIsGapless
<1>4. /\ r.last \in Nat \union {None} /\ r.bucket \in Nat \union {None} /\ r.count \in Nat
      /\ SeenMinutes \subseteq Nat
  BY ObservedTypes
<1>5. r.last # None => /\ r.last \in Nat /\ Start(r.last) \in Nat /\ Start(r.last) <= r.last
  BY <1>4, StartOfBucket
<1>6. ASSUME \A t \in k..b.t : t \in SeenMinutes', b.t # k
      PROVE  /\ r.last # None /\ r.last = b.t - 1 /\ r.bucket = k
             /\ \A t \in r.bucket..r.last : t \in SeenMinutes
  <2>1. b.t - 1 \in k..b.t /\ b.t - 1 \in Nat /\ b.t - 1 # b.t
    BY <1>1, <1>6
  <2>2. b.t - 1 \in SeenMinutes
    BY <1>3, <1>6, <2>1
  <2>3. r.last = b.t - 1 /\ r.last # None
    BY <1>1, <1>3, <1>4, <2>1, <2>2 DEF None
  <2>4. Start(r.last) = k
    BY <1>1, <2>1, <2>3, OneBucket
  <2>5. \A t \in k..r.last : t \in k..b.t /\ t # b.t
    BY <1>1, <2>1, <2>3
  <2> QED  BY <1>3, <1>6, <2>3, <2>4, <2>5
<1>7. b.t = k => \A t \in k..b.t : t \in SeenMinutes'
  BY <1>1, <1>3
<1>8. ASSUME k = r.bucket, r.count > 0, r.last = b.t - 1
      PROVE  \A t \in k..b.t : t \in SeenMinutes'
  <2>1. r.last # None
    BY <1>1, <1>3, <1>8 DEF None
  <2>2. \A t \in k..r.last : t \in SeenMinutes
    BY <1>3, <1>8, <2>1
  <2>3. \A t \in k..b.t : t \in k..(b.t - 1) \/ t = b.t
    BY <1>1
  <2> QED  BY <1>3, <1>8, <2>2, <2>3
<1>9. k = r.bucket => b.t # k
  <2> SUFFICES ASSUME k = r.bucket  PROVE  b.t # k
    OBVIOUS
  <2>1. r.last # None
    BY <1>1, <1>3 DEF None
  <2> QED  BY <1>1, <1>3, <1>5, <2>1
<1>10. recovery'.bucket = k /\ recovery'.last = b.t /\ recovery'.count = n
  BY ObservedRecord
<1> HIDE DEF k, n, r
<1>11. n > 0 <=> \A t \in k..b.t : t \in SeenMinutes'
  <2>1. CASE k # r.bucket
    BY <1>2, <1>6, <1>7, <2>1
  <2>2. CASE k = r.bucket
    <3>1. n > 0 <=> r.count > 0 /\ r.last = b.t - 1
      BY <1>2, <1>4, <2>2
    <3>2. (\A t \in k..b.t : t \in SeenMinutes') => r.count > 0 /\ r.last = b.t - 1
      BY <1>3, <1>6, <1>9, <2>2
    <3> QED  BY <1>8, <2>2, <3>1, <3>2
  <2> QED  BY <2>1, <2>2
<1>12. CountIsGapless'
  BY <1>10, <1>11 DEF CountIsGapless
<1> QED  BY <1>11, <1>12 DEF k, n

(* A bucket that was complete stays complete, with the same close.         *)
LEMMA CompleteStays ==
  ASSUME NEW b \in Bars, ObservesBar(b), NEW x \in Nat, Complete(x)
  PROVE  Complete(x)' /\ CloseOf(x)' = CloseOf(x) /\ CloseOf(x) \in Nat
<1>1. x + BucketLen - 1 \in x..(x + BucketLen - 1)
  BY ObservedTypes
<1>2. x + BucketLen - 1 \in SeenMinutes
  BY <1>1 DEF Complete
<1>3. SeenMinutes \subseteq SeenMinutes'
  BY ObservedNewer
<1>4. Complete(x)'
  BY <1>3 DEF Complete
<1>5. CloseOf(x)' = CloseOf(x) /\ CloseOf(x) \in Nat
  BY <1>2, ObservedNewer DEF CloseOf
<1> QED  BY <1>4, <1>5

(* A bucket whose last minute is not the bar's was complete before.        *)
LEMMA CompleteBefore ==
  ASSUME NEW b \in Bars, ObservesBar(b), NEW x \in Nat, Complete(x)',
         x + BucketLen - 1 # b.t
  PROVE  Complete(x) /\ x + BucketLen - 1 < b.t
<1> DEFINE z == x + BucketLen - 1
<1>1. z \in x..z /\ z \in Nat
  BY ObservedTypes
<1>2. \A t \in x..z : t \in SeenMinutes'
  BY DEF Complete
<1>3. SeenMinutes' = SeenMinutes \union {b.t} /\ (\A t \in SeenMinutes : t <= recovery.last)
      /\ recovery.last < b.t
  BY ObservedNewer DEF LastIsLatest
<1>4. z \in SeenMinutes
  BY <1>1, <1>2, <1>3
<1>5. z < b.t
  BY <1>1, <1>3, <1>4, ObservedTypes DEF None
<1>6. \A t \in x..z : t # b.t
  BY <1>1, <1>5, ObservedTypes
<1>7. \A t \in x..z : t \in SeenMinutes
  BY <1>2, <1>3, <1>6
<1> QED  BY <1>5, <1>7 DEF Complete

(* A bucket the bar completes is the bar's own, and fully counted.         *)
LEMMA CompletedByBar ==
  ASSUME NEW b \in Bars, ObservesBar(b), NEW x \in Nat, x % BucketLen = 0,
         x + BucketLen - 1 = b.t, Complete(x)'
  PROVE  /\ Start(b.t) = x /\ BarCount(recovery, b) = BucketLen
         /\ CloseOf(x)' = b.c
<1>1. b.t \in Nat /\ BucketLen \in Nat \ {0}
  BY ObservedTypes
<1>2. Start(b.t) = x
  BY <1>1, OneBucket
<1>3. \A t \in x..b.t : t \in SeenMinutes'
  BY DEF Complete
<1>4. BarCount(recovery, b) > 0
  BY <1>2, <1>3, ObservedCount
<1>5. BarCount(recovery, b) = BucketLen
  <2>1. /\ recovery'.count = BarCount(recovery, b)
        /\ recovery'.last = b.t /\ recovery'.bucket = x
    BY <1>2, ObservedRecord
  <2>2. /\ recovery \in Recoveries /\ recovery' = Observe(recovery, b)
        /\ recovery.count > 0 => recovery.count = recovery.last - recovery.bucket + 1
    BY ObservedTypes, ObservedNewer
       DEF ObservesBar, RecoveryInv, ProtInv, IInv, CountedFromStart
  <2>3. recovery'.count > 0 => recovery'.count = recovery'.last - recovery'.bucket + 1
    BY <2>2, ObserveKeeps
  <2>4. BarCount(recovery, b) = b.t - x + 1
    BY <1>4, <2>1, <2>3
  <2> QED  BY <1>1, <2>4
<1>6. CloseOf(x)' = b.c
  <2>1. CloseOf(x)' = seen'[b.t]
    BY DEF CloseOf
  <2> QED  BY <2>1, ObservedNewer
<1> QED  BY <1>2, <1>5, <1>6

(* The bar's own bucket is complete when it is fully counted.              *)
LEMMA CountedIsComplete ==
  ASSUME NEW b \in Bars, ObservesBar(b),
         b.t = Start(b.t) + BucketLen - 1, BarCount(recovery, b) = BucketLen
  PROVE  Complete(Start(b.t))' /\ CloseOf(Start(b.t))' = b.c
<1> DEFINE k == Start(b.t)
<1>1. \A t \in k..b.t : t \in SeenMinutes'
  BY ObservedCount, ObservedTypes
<1>2. k + BucketLen - 1 = b.t
  OBVIOUS
<1> HIDE DEF k
<1>3. Complete(k)'
  BY <1>1, <1>2 DEF Complete
<1>4. CloseOf(k)' = b.c
  <2>1. CloseOf(k)' = seen'[b.t]
    BY <1>2 DEF CloseOf
  <2> QED  BY <2>1, ObservedNewer
<1> QED  BY <1>3, <1>4 DEF k

LEMMA WarnedStays ==
  ASSUME NEW b \in Bars, ObservesBar(b), NEW x \in Nat
  PROVE  /\ WarnedBy(x) => WarnedBy(x)' /\ CloseOf(x)' = CloseOf(x) /\ CloseOf(x) \in Nat
         /\ WarnedBy(x)' /\ x + BucketLen - 1 # b.t => WarnedBy(x) /\ x + BucketLen - 1 < b.t
<1>1. entry' = entry
  BY DEF ObservesBar
<1>2. ASSUME WarnedBy(x)
      PROVE  WarnedBy(x)' /\ CloseOf(x)' = CloseOf(x) /\ CloseOf(x) \in Nat
  <2>1. Complete(x)
    BY <1>2 DEF WarnedBy
  <2>2. Complete(x)' /\ CloseOf(x)' = CloseOf(x) /\ CloseOf(x) \in Nat
    BY <2>1, CompleteStays
  <2> QED  BY <1>1, <1>2, <2>2 DEF WarnedBy
<1>3. ASSUME WarnedBy(x)', x + BucketLen - 1 # b.t
      PROVE  WarnedBy(x) /\ x + BucketLen - 1 < b.t
  <2>1. Complete(x)'
    BY <1>3 DEF WarnedBy
  <2>2. Complete(x) /\ x + BucketLen - 1 < b.t
    BY <1>3, <2>1, CompleteBefore
  <2>3. CloseOf(x)' = CloseOf(x)
    BY <2>2, CompleteStays
  <2> QED  BY <1>1, <1>3, <2>2, <2>3 DEF WarnedBy
<1> QED  BY <1>2, <1>3

(* The warning on record is real, and no later bucket was missed.          *)
LEMMA ObservedWarning ==
  ASSUME NEW b \in Bars, ObservesBar(b)
  PROVE  WarningIsLatest'
<1> DEFINE k == Start(b.t)
           n == BarCount(recovery, b)
           f == recovery.failedBucket
<1>1. /\ k \in Nat /\ k % BucketLen = 0 /\ k <= b.t
      /\ b.t \in Nat /\ b.t <= MaxMinute /\ BucketLen \in Nat \ {0} /\ b.c \in Nat
      /\ f \in Nat \union {None} /\ recovery.last \in Nat \union {None} /\ entry.ref \in Nat
  <2>1. b.t \in Nat /\ b.t <= MaxMinute
    BY ObservedTypes DEF Minutes
  <2> QED  BY <2>1, StartOfBucket, ObservedTypes
<1>2. /\ f = None <=> recovery.failedClose = None
      /\ f # None => WarnedBy(f) /\ recovery.failedClose = CloseOf(f)
      /\ \A x \in Minutes :
           WarnedBy(x) /\ recovery.last < x + 2 * BucketLen - 1 => f = x
      /\ recovery.last < b.t
  BY ObservedNewer DEF WarningIsLatest
<1>3. /\ recovery'.last = b.t
      /\ \/ /\ b.t # k + BucketLen - 1
            /\ recovery'.failedClose = recovery.failedClose /\ recovery'.failedBucket = f
         \/ /\ b.t = k + BucketLen - 1 /\ (n # BucketLen \/ b.c >= entry.ref)
            /\ recovery'.failedClose = None /\ recovery'.failedBucket = None
         \/ /\ b.t = k + BucketLen - 1 /\ n = BucketLen /\ b.c < entry.ref
            /\ recovery'.failedClose = b.c /\ recovery'.failedBucket = k
  BY ObservedRecord
<1>4. entry' = entry
  BY DEF ObservesBar
<1>5. b.t = k + BucketLen - 1 /\ n = BucketLen /\ b.c < entry.ref =>
        WarnedBy(k)' /\ CloseOf(k)' = b.c
  <2> SUFFICES ASSUME b.t = k + BucketLen - 1, n = BucketLen, b.c < entry.ref
               PROVE  WarnedBy(k)' /\ CloseOf(k)' = b.c
    OBVIOUS
  <2>1. Complete(k)' /\ CloseOf(k)' = b.c
    BY CountedIsComplete
  <2>2. k + BucketLen - 1 <= MaxMinute
    BY <1>1
  <2> HIDE DEF k
  <2> QED  BY <1>1, <1>4, <2>1, <2>2 DEF WarnedBy
<1>6. ASSUME NEW x \in Nat, x = f
      PROVE  WarnedBy(x)' /\ CloseOf(x)' = recovery.failedClose
  <2>1. WarnedBy(x) /\ recovery.failedClose = CloseOf(x)
    BY <1>2, <1>6 DEF None
  <2> QED  BY <2>1, WarnedStays
<1>7. ASSUME NEW x \in Minutes, WarnedBy(x)', b.t < x + 2 * BucketLen - 1
      PROVE  recovery'.failedBucket = x
  <2>1. x \in Nat
    BY ExitAssumption DEF Minutes
  <2>2. x % BucketLen = 0 /\ Complete(x)' /\ CloseOf(x)' < entry.ref
    BY <1>4, <1>7 DEF WarnedBy
  <2>3. CASE x + BucketLen - 1 = b.t
    <3>1. k = x /\ n = BucketLen /\ b.c < entry.ref
      BY <2>1, <2>2, <2>3, CompletedByBar
    <3> HIDE DEF k, n
    <3> QED  BY <1>1, <1>3, <2>3, <3>1
  <2>4. CASE x + BucketLen - 1 # b.t
    <3>1. WarnedBy(x) /\ x + BucketLen - 1 < b.t
      BY <1>7, <2>1, <2>4, WarnedStays
    <3>2. recovery.last < x + 2 * BucketLen - 1
      BY <1>1, <1>2, <1>7, <2>1 DEF None
    <3>3. f = x
      BY <1>2, <3>1, <3>2
    <3>4. ASSUME b.t = k + BucketLen - 1  PROVE  FALSE
      <4>1. x < k /\ k < x + BucketLen
        BY <1>1, <1>7, <2>1, <3>1, <3>4
      <4>2. x + BucketLen <= k
        BY <1>1, <2>1, <2>2, <4>1, BucketsApart
      <4> QED  BY <1>1, <2>1, <4>1, <4>2
    <3> QED  BY <1>3, <3>3, <3>4
  <2> QED  BY <2>3, <2>4
<1> HIDE DEF k, n, f
<1>8. (recovery.failedBucket = None <=> recovery.failedClose = None)'
  BY <1>1, <1>2, <1>3 DEF None
<1>9. ASSUME NEW x \in Nat, x = recovery'.failedBucket
      PROVE  WarnedBy(x)' /\ recovery'.failedClose = CloseOf(x)'
  BY <1>3, <1>5, <1>6, <1>9 DEF None
<1>10. (recovery.failedBucket # None =>
          WarnedBy(recovery.failedBucket) /\ recovery.failedClose = CloseOf(recovery.failedBucket))'
  <2>1. recovery'.failedBucket \in Nat \union {None}
    BY <1>1, <1>3
  <2> QED  BY <1>9, <2>1 DEF WarnedBy, Complete, CloseOf
<1> QED  BY <1>3, <1>7, <1>8, <1>10 DEF WarningIsLatest

(* An exit is asked for exactly by the bar that confirms the failure.      *)
LEMMA ObservedPending ==
  ASSUME NEW b \in Bars, ObservesBar(b)
  PROVE  PendingIsConfirmed'
<1> DEFINE k == Start(b.t)
           n == BarCount(recovery, b)
           f == recovery.failedBucket
           g == recovery.failedClose
           confirmed == f = k - BucketLen /\ g # None /\ b.c < g
<1>1. /\ k \in Nat /\ k % BucketLen = 0 /\ k <= b.t
      /\ b.t \in Nat /\ b.t <= MaxMinute /\ BucketLen \in Nat \ {0} /\ b.c \in Nat
      /\ f \in Nat \union {None} /\ g \in Nat \union {None}
      /\ recovery.last \in Nat \union {None} /\ entry.ref \in Nat /\ entry' = entry
      /\ MaxMinute \in Nat
  <2>1. b.t \in Nat /\ b.t <= MaxMinute
    BY ObservedTypes DEF Minutes
  <2> QED  BY <2>1, StartOfBucket, ObservedTypes DEF ObservesBar
<1>2. /\ f = None <=> g = None
      /\ f # None => WarnedBy(f) /\ g = CloseOf(f)
      /\ \A x \in Minutes :
           WarnedBy(x) /\ recovery.last < x + 2 * BucketLen - 1 => f = x
      /\ recovery.last < b.t
  BY ObservedNewer DEF WarningIsLatest
<1>3. \A x \in Minutes : ~FailureConfirmed(x)
  BY ObservedNewer DEF PendingIsConfirmed
<1>4. /\ recovery'.bucket = k /\ recovery'.last = b.t
      /\ \/ /\ b.t # k + BucketLen - 1 /\ recovery'.pending = None
         \/ /\ b.t = k + BucketLen - 1 /\ (n # BucketLen \/ b.c >= entry.ref)
            /\ recovery'.pending = None
         \/ /\ b.t = k + BucketLen - 1 /\ n = BucketLen /\ b.c < entry.ref
            /\ recovery'.pending = IF confirmed THEN b.t + 1 ELSE None
  BY ObservedRecord
<1>5. ASSUME recovery'.pending # None
      PROVE  /\ FailureConfirmed(k)' /\ b.t = k + BucketLen - 1
             /\ recovery'.pending = b.t + 1
  <2>1. /\ b.t = k + BucketLen - 1 /\ n = BucketLen /\ b.c < entry.ref
        /\ confirmed /\ recovery'.pending = b.t + 1
    BY <1>4, <1>5
  <2>2. f # None /\ f \in Nat /\ k >= BucketLen
    BY <1>1, <1>2, <2>1 DEF None
  <2>3. PICK x \in Nat : x = k - BucketLen
    BY <1>1, <2>2
  <2>4. WarnedBy(x) /\ g = CloseOf(x)
    BY <1>2, <2>1, <2>2, <2>3
  <2>5. WarnedBy(x)' /\ CloseOf(x)' = g
    BY <2>4, WarnedStays
  <2>6. Complete(x)' /\ CloseOf(x)' < entry.ref
    BY <1>1, <2>5 DEF WarnedBy
  <2>7. Complete(k)' /\ CloseOf(k)' = b.c
    BY <2>1, CountedIsComplete
  <2>8. k + BucketLen - 1 <= MaxMinute /\ b.c < g
    BY <1>1, <2>1
  <2> HIDE DEF k
  <2>9. FailureConfirmed(k)'
    BY <1>1, <2>2, <2>3, <2>5, <2>6, <2>7, <2>8 DEF FailureConfirmed
  <2> QED  BY <2>1, <2>9
<1>6. ASSUME NEW x \in Minutes, FailureConfirmed(x)'
      PROVE  k = x /\ recovery'.pending # None
  <2>1. /\ x \in Nat /\ x % BucketLen = 0 /\ x >= BucketLen /\ x + BucketLen - 1 <= MaxMinute
        /\ Complete(x - BucketLen)' /\ Complete(x)'
        /\ CloseOf(x - BucketLen)' < entry.ref /\ CloseOf(x)' < CloseOf(x - BucketLen)'
    BY <1>1, <1>6, ExitAssumption DEF FailureConfirmed, Minutes
  <2>2. PICK y \in Nat : y = x - BucketLen
    BY <1>1, <2>1
  <2>3. y \in Minutes /\ y % BucketLen = 0
    <3>1. y \in Minutes
      BY <1>1, <2>1, <2>2 DEF Minutes
    <3>2. y % BucketLen = 0
      BY <1>1, <2>1, <2>2, RestOfPrevious
    <3> QED  BY <3>1, <3>2
  <2>4. Complete(y)' /\ CloseOf(y)' < entry.ref /\ CloseOf(x)' < CloseOf(y)'
    BY <2>1, <2>2
  <2>5. x + BucketLen - 1 = b.t
    <3> SUFFICES ASSUME x + BucketLen - 1 # b.t  PROVE  FALSE
      OBVIOUS
    <3>1. Complete(x) /\ x + BucketLen - 1 < b.t
      BY <2>1, CompleteBefore
    <3>2. y + BucketLen - 1 # b.t
      BY <1>1, <2>1, <2>2, <3>1
    <3>3. Complete(y)
      BY <2>4, <3>2, CompleteBefore
    <3>4. CloseOf(x)' = CloseOf(x) /\ CloseOf(y)' = CloseOf(y)
      BY <2>1, <3>1, <3>3, CompleteStays
    <3>5. FailureConfirmed(x)
      BY <2>1, <2>2, <2>4, <3>1, <3>3, <3>4 DEF FailureConfirmed
    <3> QED  BY <1>3, <3>5
  <2>6. k = x /\ n = BucketLen /\ CloseOf(x)' = b.c
    BY <2>1, <2>5, CompletedByBar
  <2>7. WarnedBy(y) /\ CloseOf(y)' = CloseOf(y) /\ CloseOf(y) \in Nat
    <3>1. y + BucketLen - 1 # b.t /\ y + BucketLen - 1 <= MaxMinute
      BY <1>1, <2>1, <2>2, <2>5
    <3>2. WarnedBy(y)'
      BY <1>1, <2>3, <2>4, <3>1 DEF WarnedBy
    <3> QED  BY <3>1, <3>2, WarnedStays
  <2>8. recovery.last < y + 2 * BucketLen - 1
    BY <1>1, <1>2, <2>1, <2>2, <2>5 DEF None
  <2>9. f = y /\ g = CloseOf(y)
    BY <1>2, <2>3, <2>7, <2>8 DEF None
  <2>10. confirmed /\ b.c < entry.ref
    BY <1>1, <2>2, <2>4, <2>6, <2>7, <2>9 DEF None
  <2>11. recovery'.pending = b.t + 1
    <3> HIDE DEF confirmed, k, n
    <3> QED  BY <1>1, <1>4, <2>5, <2>6, <2>10
  <2> QED  BY <1>1, <2>6, <2>11 DEF None
<1> HIDE DEF k, n, f, g, confirmed
<1>7. (recovery.pending # None =>
         /\ FailureConfirmed(recovery.bucket)
         /\ recovery.last = recovery.bucket + BucketLen - 1
         /\ recovery.pending = recovery.last + 1)'
  BY <1>4, <1>5 DEF FailureConfirmed, Complete, CloseOf
<1>8. (\A x \in Minutes : FailureConfirmed(x) => recovery.bucket = x /\ recovery.pending # None)'
  BY <1>4, <1>6
<1> QED  BY <1>7, <1>8 DEF PendingIsConfirmed

(* The bar that closes an entry as failed finds its failure confirmed.     *)
LEMMA LeaverConfirmed ==
  ASSUME RecoveryInv, NEW b \in Bars, entry' = entry, LeavesAt(b)
  PROVE  LeftAsFailed' /\ cp'.status # "OPEN"
<1>1. cp'.status # "OPEN"
  BY DEF LeavesAt, Leaves, Outcomes
<1>2. ASSUME cp'.status = "RECOVERY_FAILED"  PROVE  LeftAsFailed'
  <2>1. recovery.pending # None /\ cp'.exit = b.o
    BY <1>2 DEF LeavesAt, IsPending
  <2>2. Observing
    BY <2>1 DEF RecoveryInv, Observing, LeavesAt
  <2>3. /\ FailureConfirmed(recovery.bucket)
        /\ recovery.last = recovery.bucket + BucketLen - 1
        /\ recovery.bucket \in Minutes \union {None}
        /\ \A t \in SeenMinutes : t <= recovery.last
    BY <2>1, <2>2 DEF RecoveryInv, PendingIsConfirmed, LastIsLatest, ProtInv, IInv, TypeOK
  <2>4. PICK x \in Minutes : x = recovery.bucket
    BY <2>3, ExitAssumption DEF FailureConfirmed, None
  <2>5. FailureConfirmed(x) /\ (\A t \in SeenMinutes : t <= x + BucketLen - 1)
    BY <2>3, <2>4
  <2>6. seen' = seen /\ exitBar'.o = b.o
    BY DEF LeavesAt
  <2>7. FailureConfirmed(x)' /\ (\A t \in SeenMinutes : t <= x + BucketLen - 1)'
    BY <2>5, <2>6 DEF FailureConfirmed, Complete, CloseOf, SeenMinutes
  <2> QED  BY <2>1, <2>6, <2>7 DEF LeftAsFailed
<1> QED  BY <1>1, <1>2 DEF LeftAsFailed

(* Every step keeps the recovery invariant.                                *)
LEMMA NextRecoveryInv == RecoveryInv /\ [Next]_vars => RecoveryInv'
<1> SUFFICES ASSUME RecoveryInv, [Next]_vars PROVE RecoveryInv'
  OBVIOUS
<1>1. ProtInv /\ ProtInv' /\ lastBar \in Nat \union {None}
      /\ recovery.last \in Nat \union {None}
  BY NextProtInv, ExitAssumption DEF RecoveryInv, ProtInv, IInv, TypeOK, Minutes
<1>2. ASSUME UNCHANGED <<entry, cp, seen, exitBar, recovery>>,
             lastBar' \in Nat \union {None}, lastBar' >= lastBar
      PROVE  RecoveryInv'
  <2>1. SeenMinutes' = SeenMinutes /\ Observing' = Observing
    BY <1>2 DEF SeenMinutes, Observing
  <2>2. LastIsLatest => LastIsLatest'
    BY <1>1, <1>2, <2>1 DEF LastIsLatest, None
  <2>3. CountIsGapless => CountIsGapless'
    BY <1>2, <2>1 DEF CountIsGapless
  <2>4. WarningIsLatest => WarningIsLatest'
    BY <1>2, <2>1 DEF WarningIsLatest, WarnedBy, Complete, CloseOf
  <2>5. PendingIsConfirmed => PendingIsConfirmed'
    BY <1>2, <2>1 DEF PendingIsConfirmed, FailureConfirmed, Complete, CloseOf
  <2>6. LeftAsFailed'
    BY <1>2, <2>1 DEF RecoveryInv, LeftAsFailed, FailureConfirmed, Complete, CloseOf
  <2> QED  BY <1>1, <1>2, <2>1, <2>2, <2>3, <2>4, <2>5, <2>6 DEF RecoveryInv
<1>3. ASSUME NEW b \in Bars, IngestBar(b)  PROVE  RecoveryInv'
  <2>1. /\ entry' = entry /\ lastBar' = b.t /\ b.t > lastBar
        /\ Untouched \/ Survives(b) \/ LeavesAt(b)
    BY <1>1, <1>3, BarCases
  <2>2. b.t \in Nat
    BY ExitAssumption DEF Bars, Minutes
  <2>3. CASE Untouched
    BY <1>1, <1>2, <2>1, <2>2, <2>3 DEF Untouched, None
  <2>4. CASE Survives(b) /\ entry.ref # None
    <3>1. ObservesBar(b)
      BY <2>1, <2>4 DEF ObservesBar, Observing, Survives
    <3>2. LastIsLatest' /\ CountIsGapless' /\ WarningIsLatest' /\ PendingIsConfirmed'
      BY <3>1, ObservedLatest, ObservedCount, ObservedWarning, ObservedPending
    <3>3. LeftAsFailed'
      BY <2>4 DEF Survives, LeftAsFailed
    <3> QED  BY <1>1, <2>1, <2>4, <3>2, <3>3 DEF RecoveryInv
  <2>5. CASE Survives(b) /\ entry.ref = None
    <3>1. recovery' = recovery /\ LeftAsFailed' /\ ~Observing'
      BY <2>1, <2>5 DEF Survives, LeftAsFailed, Observing
    <3> QED  BY <1>1, <2>1, <2>5, <3>1 DEF RecoveryInv
  <2>6. CASE LeavesAt(b)
    <3>1. LeftAsFailed' /\ ~Observing' /\ recovery' = recovery
      BY <2>1, <2>6, LeaverConfirmed DEF Observing, LeavesAt
    <3> QED  BY <1>1, <2>1, <3>1 DEF RecoveryInv
  <2> QED  BY <2>1, <2>3, <2>4, <2>5, <2>6
<1>4. ASSUME NEW t \in Minutes, NEW k \in Candles,
             IngestBar([t |-> t, o |-> k.o, h |-> k.h, l |-> k.l, c |-> k.c])
      PROVE  RecoveryInv'
  BY <1>3, <1>4, FedBars
<1>5. ASSUME NEW t \in Minutes, IngestReferenceBar(t)  PROVE  RecoveryInv'
  <2>1. t \in Nat
    BY ExitAssumption DEF Minutes
  <2> QED  BY <1>1, <1>2, <1>5, <2>1 DEF IngestReferenceBar, None
<1>6. CASE UNCHANGED vars
  BY <1>1, <1>2, <1>6 DEF vars, None
<1> QED  BY <1>4, <1>5, <1>6 DEF Next

(* Nothing is observed, warned of or pending at the start.                 *)
LEMMA InitRecoveryInv == Init => RecoveryInv
<1> SUFFICES ASSUME Init PROVE RecoveryInv
  OBVIOUS
<1>1. ProtInv
  BY InitProtInv
<1>2. cp.status = "OPEN" /\ lastBar = None
  BY DEF Init, NewPosition
<1>3. /\ recovery.last = None /\ recovery.bucket = None /\ recovery.failedBucket = None
      /\ recovery.failedClose = None /\ recovery.pending = None
  BY DEF Init, Unobserved
<1>4. SeenMinutes = {}
  BY DEF Init, SeenMinutes
<1>5. ASSUME NEW x \in Nat, Complete(x)  PROVE  FALSE
  <2>1. x \in x..(x + BucketLen - 1)
    BY ExitAssumption
  <2> QED  BY <1>4, <1>5, <2>1 DEF Complete
<1>6. Minutes \subseteq Nat
  BY ExitAssumption DEF Minutes
<1>7. LastIsLatest /\ CountIsGapless
  BY <1>2, <1>3, <1>4 DEF LastIsLatest, CountIsGapless, None
<1>8. WarningIsLatest
  BY <1>3, <1>5, <1>6 DEF WarningIsLatest, WarnedBy
<1>9. PendingIsConfirmed
  BY <1>3, <1>5, <1>6 DEF PendingIsConfirmed, FailureConfirmed
<1>10. LeftAsFailed
  BY <1>2 DEF LeftAsFailed
<1> QED  BY <1>1, <1>3, <1>7, <1>8, <1>9, <1>10 DEF RecoveryInv

(* A Core Recovery entry leaves as failed exactly when two adjacent        *)
(* complete buckets confirm it, at the first bar after them.               *)
THEOREM RecoveryExitIsExact == Spec => []RecoveryExitExact
<1>1. RecoveryInv => RecoveryExitExact
  <2> SUFFICES ASSUME RecoveryInv PROVE RecoveryExitExact
    OBVIOUS
  <2>1. ASSUME Observing, NEW b \in Minutes, FailureConfirmed(b)
        PROVE  \A t \in SeenMinutes : t <= b + BucketLen - 1
    <3>1. recovery.bucket = b /\ recovery.pending # None
      BY <2>1 DEF RecoveryInv, PendingIsConfirmed
    <3>2. recovery.last = b + BucketLen - 1
      BY <2>1, <3>1 DEF RecoveryInv, PendingIsConfirmed
    <3> QED  BY <2>1, <3>2 DEF RecoveryInv, LastIsLatest
  <2> QED  BY <2>1 DEF RecoveryExitExact, RecoveryInv, LeftAsFailed, Observing
<1> QED  BY <1>1, InitRecoveryInv, NextRecoveryInv, PTL DEF Spec

=============================================================================
