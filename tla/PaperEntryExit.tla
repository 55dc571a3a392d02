----------------------------- MODULE PaperEntryExit -----------------------------
(***************************************************************************)
(* How a simulated long entry of the Entry Opportunity engine (V18 to V23) *)
(* leaves the market.  One entry is a checkpoint and the horizon legs that *)
(* were opened with it; every final one-minute bar marks both.  The        *)
(* checkpoint and the legs keep copies of the same levels and are marked   *)
(* by separate code: stop and target (V18), a profit-protection stop that  *)
(* a completed close arms and the next bar obeys (V19 for the Core         *)
(* families, V21 and V22 for GERI and Swing Trade), and, for a Core        *)
(* Recovery entry, the exit after two completed failing buckets (V20).     *)
(*                                                                         *)
(* Time is counted in minutes from the start of a bucket.  Bars may be     *)
(* missing, late or repeated.  Marks that no exit depends on (current      *)
(* price, excursions, returns) are left out, and so is what closes a whole *)
(* opportunity: see EntryOpportunityLifecycle.                             *)
(***************************************************************************)
EXTENDS Integers

CONSTANTS
  Prices,      \* bound on the prices bars trade at
  Candles,     \* the shapes of bars: open, high, low and close
  Entries,     \* the entries examined
  BucketLen,   \* minutes of a bucket (15 in the code)
  CloseMinutes,\* minutes at which _is_regular_close holds
  MaxMinute    \* bound on the minutes of a run

None == -1
Horizons == {"SWING", "INTRADAY"}
Minutes == 0..MaxMinute

(* stop < price; "target" may lie above every price: no target.            *)
(* "ref" is the lower of the anchored VWAP and the breakout level of a     *)
(* Core Recovery entry, None for any other.                                *)
Entry ==
  [price : Nat, stop : Nat, target : Nat, ref : Nat \union {None},
   protected : BOOLEAN, reached : Nat]

ASSUME ExitAssumption ==
  /\ Prices \subseteq Nat
  /\ Candles \subseteq [o : Prices, h : Prices, l : Prices, c : Prices]
  /\ \A k \in Candles : k.l <= k.o /\ k.l <= k.c /\ k.o <= k.h /\ k.c <= k.h
  /\ BucketLen \in Nat \ {0} /\ MaxMinute \in Nat
  /\ CloseMinutes \subseteq Nat
  /\ Entries \subseteq Entry
  /\ \A e \in Entries : e.stop < e.price /\ e.price < e.target /\ e.ref <= e.price

VARIABLES
  entry,       \* the entry, fixed when it was taken
  cp,          \* its checkpoint
  legs,        \* its leg per horizon
  recovery,    \* recovery_exit: the confirmation state of a Core Recovery entry
  lastBar,     \* last_market_bar_at of the opportunity
  seen,        \* history: closes of the bars that marked the open entry, by minute
  exitBar      \* history: the bar that closed the checkpoint

vars == <<entry, cp, legs, recovery, lastBar, seen, exitBar>>

NewPosition ==
  [status |-> "OPEN", exit |-> None, at |-> None, prot |-> None, protAt |-> None]

Unobserved ==
  [bucket |-> None, last |-> None, count |-> 0, failedClose |-> None,
   failedBucket |-> None, pending |-> None]

NoBar == [t |-> None, o |-> None, h |-> None, l |-> None]

Init ==
  /\ entry \in Entries
  /\ cp = NewPosition
  /\ legs = [h \in Horizons |-> NewPosition]
  /\ recovery = Unobserved
  /\ lastBar = None
  /\ seen = [t \in Minutes |-> None]
  /\ exitBar = NoBar

---------------------------------------------------------------------------
NoExit == [price |-> None, outcome |-> "OPEN"]

(* Mutant: fill at the level even when the bar opened beyond it.           *)
FillAtLevel(b, stop, target) ==
  IF b.l <= stop THEN [price |-> stop, outcome |-> "INVALIDATED"]
  ELSE IF b.h >= target THEN [price |-> target, outcome |-> "TARGET_HIT"]
  ELSE NoExit

(* _long_exit: a gap fills at the open, and the stop goes first when both  *)
(* levels are inside the candle.                                           *)
LongExit(b, stop, target) ==
  IF b.o <= stop THEN [price |-> b.o, outcome |-> "INVALIDATED"]
  ELSE IF b.o >= target THEN [price |-> b.o, outcome |-> "TARGET_HIT"]
  ELSE IF b.l <= stop THEN [price |-> stop, outcome |-> "INVALIDATED"]
  ELSE IF b.h >= target THEN [price |-> target, outcome |-> "TARGET_HIT"]
  ELSE NoExit

Closed(p, x, t) == [p EXCEPT !.status = x.outcome, !.exit = x.price, !.at = t]

(* The stop that protects a profit closes with an outcome of its own.      *)
Protective(x) ==
  IF x.outcome = "INVALIDATED" THEN [x EXCEPT !.outcome = "PROTECTION_EXIT"] ELSE x

(* Mutant: every profitable close moves the stop, down as well as up.      *)
FollowEveryClose(p, e, b) ==
  LET risk == e.price - e.stop
      proposed == IF b.c - risk > e.price THEN b.c - risk ELSE e.price
  IN  IF b.c - e.price < risk THEN p
      ELSE [p EXCEPT !.prot = proposed, !.protAt = b.t]

(* _advance_protection: one risk of profit at a completed close arms the   *)
(* stop at the entry or above, and the stop only rises.                    *)
AdvanceProtection(p, e, b) ==
  LET risk == e.price - e.stop
      proposed == IF b.c - risk > e.price THEN b.c - risk ELSE e.price
  IN  IF b.c - e.price < risk \/ (p.prot # None /\ proposed <= p.prot)
      THEN p
      ELSE [p EXCEPT !.prot = proposed, !.protAt = b.t]

(* _mark_checkpoint of V18, V19, V21 and V22, without the recovery exit.   *)
StopOrTarget(c, e, b) ==
  LET x == LongExit(b, e.stop, e.target)
  IN  IF x = NoExit THEN c ELSE Closed(c, x, b.t)

MarkPlain(c, e, b) ==
  LET protected == Protective(LongExit(b, c.prot, e.target))
      marked == StopOrTarget(c, e, b)
  IN  IF ~e.protected THEN marked
      ELSE IF c.protAt # None /\ b.t <= c.protAt THEN c
      ELSE IF c.prot # None /\ protected # NoExit THEN Closed(c, protected, b.t)
      ELSE IF marked.status # "OPEN" THEN marked
      ELSE AdvanceProtection(marked, e, b)

AtOpen(b) == [b EXCEPT !.h = b.o, !.l = b.o, !.c = b.o]

IsPending(b) == recovery.pending # None /\ b.t >= recovery.pending

(* V20: a pending recovery exit is executed at the next observed open,     *)
(* unless a stop or target gap already closes the entry there.             *)
MarkCheckpoint(b) ==
  LET gap == MarkPlain(cp, entry, AtOpen(b))
  IN  IF cp.status # "OPEN" \/ b.t <= entry.reached THEN cp
      ELSE IF ~IsPending(b) THEN MarkPlain(cp, entry, b)
      ELSE IF gap.status # "OPEN" THEN gap
      ELSE Closed(cp, [price |-> b.o, outcome |-> "RECOVERY_FAILED"], b.t)

(* _mark_leg of V18 and _mark_protected_leg of V19.                        *)
MarkLeg(p, b) ==
  LET protected == Protective(LongExit(b, p.prot, entry.target))
      x == LongExit(b, entry.stop, entry.target)
  IN  IF p.status # "OPEN" \/ b.t <= entry.reached THEN p
      ELSE IF entry.protected /\ p.protAt # None /\ b.t <= p.protAt THEN p
      ELSE IF entry.protected /\ p.prot # None /\ protected # NoExit
           THEN Closed(p, protected, b.t)
      ELSE IF x # NoExit THEN Closed(p, x, b.t)
      ELSE IF entry.protected THEN AdvanceProtection(p, entry, b)
      ELSE p

(* Mutant: the legs are marked by their own levels alone.                  *)
MarkLegsAlone(b) == [h \in Horizons |-> MarkLeg(legs[h], b)]

(* _mark_legs_for_bar of V20: the legs of a checkpoint that leaves by a    *)
(* pending exit leave with it, before the bar's later prices count.        *)
MarkLegs(b) ==
  LET left == MarkCheckpoint(b)
  IN  [h \in Horizons |->
         IF IsPending(b) /\ cp.status = "OPEN" /\ legs[h].status = "OPEN"
         THEN Closed(legs[h], [price |-> left.exit, outcome |-> left.status], b.t)
         ELSE MarkLeg(legs[h], b)]

(* ingest_bar closes what is left of the intraday leg at the session's end. *)
SessionClosed(marked, b) ==
  [h \in Horizons |->
     IF h = "INTRADAY" /\ b.t \in CloseMinutes /\ marked[h].status = "OPEN"
     THEN Closed(marked[h], [price |-> b.c, outcome |-> "SESSION_CLOSED"], b.t)
     ELSE marked[h]]

(* Mutant: a new bucket continues the count of the one before.             *)
CountOn(r, b) == IF r.last = b.t - 1 THEN r.count + 1 ELSE 0

(* Mutant: a missing minute does not spoil its bucket.                     *)
CountFromBucketStart(r, b) == (b.t % BucketLen) + 1

(* The bars of a bucket are counted from its first minute and without a gap. *)
BarCount(r, b) ==
  LET bucket == b.t - (b.t % BucketLen)
  IN  IF bucket # r.bucket THEN (IF b.t = bucket THEN 1 ELSE 0)
      ELSE IF r.count > 0 /\ r.last = b.t - 1 THEN r.count + 1
      ELSE 0

(* _observe: a complete bucket that closes below the reference is a   *)
(* warning, and a lower one right after it asks for the exit.              *)
Observe(r, b) ==
  LET bucket == b.t - (b.t % BucketLen)
      count == BarCount(r, b)
      counted == [r EXCEPT !.bucket = bucket, !.last = b.t, !.count = count]
      confirmed == /\ r.failedBucket = bucket - BucketLen
                   /\ r.failedClose # None
                   /\ b.c < r.failedClose
  IN  IF r.last # None /\ b.t <= r.last THEN r
      ELSE IF b.t # bucket + BucketLen - 1 THEN counted
      ELSE IF count # BucketLen \/ b.c >= entry.ref
           THEN [counted EXCEPT !.failedClose = None, !.failedBucket = None]
      ELSE [counted EXCEPT !.failedClose = b.c,
                           !.failedBucket = bucket,
                           !.pending = IF confirmed THEN b.t + 1 ELSE None]

---------------------------------------------------------------------------
(* ingest_bar drops a bar that is not newer than the last one, whether it  *)
(* is a redelivery or a late one.                                          *)
IsNew(b) == b.t > lastBar

IngestBar(b) ==
  /\ IsNew(b)
  /\ cp' = MarkCheckpoint(b)
  /\ legs' = SessionClosed(MarkLegs(b), b)
  /\ recovery' = IF entry.ref # None /\ cp.status = "OPEN" /\ cp'.status = "OPEN"
                    /\ b.t > entry.reached
                 THEN Observe(recovery, b)
                 ELSE recovery
  /\ lastBar' = b.t
  /\ seen' = IF cp'.status = "OPEN" /\ b.t > entry.reached
             THEN [seen EXCEPT ![b.t] = b.c] ELSE seen
  /\ exitBar' = IF cp.status = "OPEN" /\ cp'.status # "OPEN"
                THEN [t |-> b.t, o |-> b.o, h |-> b.h, l |-> b.l] ELSE exitBar
  /\ UNCHANGED entry

(* ingest_reference_bar: outside the hours that may move orders a bar only *)
(* refreshes the marks and the time of the last bar.                       *)
IngestReferenceBar(t) ==
  /\ t > lastBar
  /\ lastBar' = t
  /\ UNCHANGED <<entry, cp, legs, recovery, seen, exitBar>>

Next ==
  \/ \E t \in Minutes, k \in Candles :
       IngestBar([t |-> t, o |-> k.o, h |-> k.h, l |-> k.l, c |-> k.c])
  \/ \E t \in Minutes : IngestReferenceBar(t)

Spec == Init /\ [][Next]_vars

---------------------------------------------------------------------------
Outcomes ==
  {"INVALIDATED", "TARGET_HIT", "PROTECTION_EXIT", "RECOVERY_FAILED", "SESSION_CLOSED"}

Position ==
  [status : Outcomes \union {"OPEN"}, exit : Nat \union {None}, at : Minutes \union {None},
   prot : Nat \union {None}, protAt : Minutes \union {None}]

(* The checkpoint and the legs are positions, and the count of a bucket's  *)
(* bars never exceeds the bucket (the bound RecoveryExitState declares).   *)
TypeOK ==
  /\ entry \in Entries
  /\ cp \in Position
  /\ legs \in [Horizons -> Position]
  /\ recovery \in [bucket : Minutes \union {None}, last : Minutes \union {None},
                  count : 0..BucketLen, failedClose : Nat \union {None},
                  failedBucket : Minutes \union {None}, pending : Nat \union {None}]
  /\ lastBar \in Minutes \union {None}

(* The checkpoint and the legs of one entry are marked by different code   *)
(* and must tell the same trade: same protection, and the same exit, price *)
(* and minute, except for an intraday leg the session's end closed first.  *)
SameExit ==
  \A h \in Horizons : legs[h] = cp \/ legs[h].status = "SESSION_CLOSED"

(* A simulated exit fills at a price the closing bar traded: a gap through *)
(* a level fills at the open, never at the level that was jumped over.     *)
FillIsTraded ==
  cp.status # "OPEN" =>
    /\ cp.at = exitBar.t
    /\ exitBar.l <= cp.exit /\ cp.exit <= exitBar.h

SeenMinutes == {t \in Minutes : seen[t] # None}

(* What the closes seen so far call for, computed from all of them at once. *)
CalledFor(p) ==
  \E t \in SeenMinutes :
    /\ seen[t] - entry.price >= entry.price - entry.stop
    /\ p = seen[t] - (entry.price - entry.stop)
    /\ \A u \in SeenMinutes : seen[u] <= seen[t]

(* The protection stop is the one the best completed close calls for, was  *)
(* armed by an earlier bar than the one it acts on, and an entry that has  *)
(* one leaves below it only through a gap.                                 *)
ProtectionExact ==
  /\ entry.protected =>
       IF cp.prot = None THEN \A p \in Prices : ~CalledFor(p) ELSE CalledFor(cp.prot)
  /\ cp.prot # None => cp.prot >= entry.price
  /\ cp.prot # None /\ cp.status # "OPEN" =>
       /\ cp.protAt < cp.at
       /\ cp.exit >= cp.prot \/ cp.exit = exitBar.o

Complete(b) == \A t \in b..(b + BucketLen - 1) : t \in SeenMinutes

CloseOf(b) == seen[b + BucketLen - 1]

(* Two adjacent buckets, every minute of both seen, close below the        *)
(* reference and the second lower than the first.                          *)
FailureConfirmed(b) ==
  /\ b % BucketLen = 0 /\ b >= BucketLen /\ b + BucketLen - 1 <= MaxMinute
  /\ Complete(b - BucketLen) /\ Complete(b)
  /\ CloseOf(b - BucketLen) < entry.ref /\ CloseOf(b) < CloseOf(b - BucketLen)

(* A Core Recovery entry leaves as failed exactly when its failure is      *)
(* confirmed by completed buckets: at the first bar after them, and never  *)
(* on the strength of a bucket with a missing minute.                      *)
RecoveryExitExact ==
  /\ cp.status = "RECOVERY_FAILED" =>
       \E b \in Minutes :
         /\ FailureConfirmed(b)
         /\ \A t \in SeenMinutes : t <= b + BucketLen - 1
         /\ cp.exit = exitBar.o
  /\ cp.status = "OPEN" /\ entry.ref # None =>
       \A b \in Minutes :
         FailureConfirmed(b) => \A t \in SeenMinutes : t <= b + BucketLen - 1

=============================================================================
