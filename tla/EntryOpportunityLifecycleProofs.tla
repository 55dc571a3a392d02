-------------------- MODULE EntryOpportunityLifecycleProofs --------------------
(***************************************************************************)
(* Proofs about the lifecycle of one symbol's opportunity, for every set   *)
(* of inputs, any delays between an input and its application, and any     *)
(* lifetimes.                                                              *)
(*                                                                         *)
(* The inductive invariant Earned is about an aggregate, not about a step: *)
(* every operator a handler is composed of takes an aggregate that         *)
(* satisfies it to one that does.  Most of them only close entries or add  *)
(* entries of other strategies (Descends); _advance and the recording of a *)
(* retest are the two that need an argument of their own.                  *)
(***************************************************************************)
EXTENDS EntryOpportunityLifecycle, TLAPS, WellFoundedInduction, FiniteSetTheorems

OpportunityFields ==
  {"status", "primary", "watch", "peak", "armed", "updated", "expires", "lastBar",
   "price", "cursor", "inval", "refs", "legs", "cps", "analyses"}

CheckpointFields ==
  {"fam", "setup", "level", "stage", "reached", "stop", "target", "zone", "open", "retested"}

Shaped(o) ==
  /\ DOMAIN o = OpportunityFields
  /\ \A c \in o.cps : DOMAIN c = CheckpointFields

(* The checkpoints of CORE_ENTRY, and with them the peak of the aggregate. *)
Levelled(o) ==
  /\ o.peak \in ARMED..L4
  /\ \A c \in o.cps : c.fam = "CORE_ENTRY" =>
       /\ c.level \in ARMED..L4 /\ c.level <= o.peak
       /\ c.reached \in Int /\ c.retested \in Int

(* There is one anchor, and its retest is later than itself.               *)
Anchored(o) ==
  \A a, b \in Anchors(o) :
    /\ a.reached = b.reached /\ a.retested = b.retested
    /\ a.retested # None => a.retested > a.reached

(* L4Earned of an aggregate.                                               *)
Confirmed(o) ==
  \A a \in Anchors(o) : o.peak = L4 =>
    /\ a.retested > a.reached
    /\ \A c \in o.cps : c.fam = "CORE_ENTRY" /\ c.level = L4 => c.reached > a.retested

Earned(o) == Shaped(o) /\ Levelled(o) /\ Anchored(o) /\ Confirmed(o)

---------------------------------------------------------------------------
SameMark(c, d) ==
  /\ c.fam = d.fam /\ c.level = d.level /\ c.zone = d.zone
  /\ c.reached = d.reached /\ c.retested = d.retested

(* The CORE_ENTRY checkpoints of u are those of o, open or closed.         *)
Descends(o, u) ==
  /\ Shaped(u) /\ u.peak = o.peak
  /\ \A c \in u.cps : c.fam = "CORE_ENTRY" => \E d \in o.cps : SameMark(c, d)

LEMMA DescendsEarned ==
  ASSUME NEW o, NEW u, Earned(o), Descends(o, u)
  PROVE  Earned(u)
<1>1. \A c \in u.cps : c.fam = "CORE_ENTRY" => \E d \in o.cps : SameMark(c, d)
  BY DEF Descends
<1>2. Levelled(u)
  BY <1>1 DEF Earned, Levelled, Descends, SameMark
<1>3. \A a \in Anchors(u) : \E d \in Anchors(o) : SameMark(a, d)
  BY <1>1 DEF Anchors, SameMark
<1>4. Anchored(u)
  <2> SUFFICES ASSUME NEW a \in Anchors(u), NEW b \in Anchors(u)
               PROVE  /\ a.reached = b.reached /\ a.retested = b.retested
                      /\ a.retested # None => a.retested > a.reached
    BY DEF Anchored
  <2>1. PICK d \in Anchors(o) : SameMark(a, d)
    BY <1>3
  <2>2. PICK f \in Anchors(o) : SameMark(b, f)
    BY <1>3
  <2> QED  BY <2>1, <2>2 DEF Earned, Anchored, SameMark
<1>5. Confirmed(u)
  <2> SUFFICES ASSUME NEW a \in Anchors(u), u.peak = L4
               PROVE  /\ a.retested > a.reached
                      /\ \A c \in u.cps : c.fam = "CORE_ENTRY" /\ c.level = L4
                                          => c.reached > a.retested
    BY DEF Confirmed
  <2>1. PICK d \in Anchors(o) : SameMark(a, d)
    BY <1>3
  <2>2. o.peak = L4
    BY DEF Descends
  <2> QED  BY <1>1, <2>1, <2>2 DEF Earned, Confirmed, SameMark
<1> QED  BY <1>2, <1>4, <1>5 DEF Earned, Descends

(* Closing an entry changes nothing a later confirmation depends on.       *)
LEMMA CloseKeepsMark ==
  ASSUME NEW c, DOMAIN c = CheckpointFields
  PROVE  SameMark(CloseCheckpoint(c), c) /\ DOMAIN CloseCheckpoint(c) = CheckpointFields
BY DEF CloseCheckpoint, SameMark, CheckpointFields

(* An aggregate whose entries were closed, here and there.                 *)
LEMMA ClosingDescends ==
  ASSUME NEW o, NEW u, Earned(o), DOMAIN u = OpportunityFields, u.peak = o.peak,
         \A c \in u.cps : \E d \in o.cps : c = d \/ c = CloseCheckpoint(d)
  PROVE  Earned(u)
<1>1. \A c \in u.cps : \E d \in o.cps : SameMark(c, d) /\ DOMAIN c = CheckpointFields
  BY CloseKeepsMark DEF Earned, Shaped, SameMark
<1>2. Descends(o, u)
  BY <1>1 DEF Descends, Shaped
<1> QED  BY <1>2, DescendsEarned

(* Entries of other strategies are of no concern to it.                    *)
LEMMA AddingDescends ==
  ASSUME NEW o, NEW u, NEW c, Earned(o), DOMAIN u = OpportunityFields, u.peak = o.peak,
         u.cps \subseteq o.cps \union {c}, DOMAIN c = CheckpointFields, c.fam # "CORE_ENTRY"
  PROVE  Earned(u)
<1>1. Descends(o, u)
  BY DEF Descends, Shaped, Earned, SameMark
<1> QED  BY <1>1, DescendsEarned

LEMMA CloseOpportunityEarned ==
  ASSUME NEW o, NEW at, Earned(o)
  PROVE  Earned(CloseOpportunity(o, at))
<1> DEFINE u == CloseOpportunity(o, at)
<1>1. DOMAIN u = OpportunityFields /\ u.peak = o.peak
      /\ u.cps = {CloseCheckpoint(c) : c \in o.cps}
  BY DEF CloseOpportunity, Earned, Shaped, OpportunityFields
<1> HIDE DEF u
<1>2. Earned(u)
  BY <1>1, ClosingDescends
<1> QED  BY <1>2 DEF u

LEMMA ClosedWhenDoneEarned ==
  ASSUME NEW o, NEW at, Earned(o)
  PROVE  Earned(ClosedWhenDone(o, at))
BY CloseOpportunityEarned DEF ClosedWhenDone

LEMMA CloseCoreEntriesEarned ==
  ASSUME NEW o, NEW fams, NEW hz, NEW ev, NEW at, NEW breach, Earned(o)
  PROVE  Earned(CloseCoreEntries(o, fams, hz, ev, at, breach))
<1> DEFINE legs == LegsLeft(o, fams, hz, ev, breach)
           cps == CheckpointsLeft(o, fams, hz, ev, breach)
           updated == [o EXCEPT !.legs = legs, !.cps = cps, !.updated = Larger(@, at)]
           closed == ClosedWhenDone(updated, at)
           u == FollowCheckpoints(o, closed)
<1>1. CloseCoreEntries(o, fams, hz, ev, at, breach) = IF legs = o.legs /\ cps = o.cps THEN o ELSE u
  BY DEF CloseCoreEntries
<1>2. \A c \in cps : \E d \in o.cps : c = d \/ c = CloseCheckpoint(d)
  BY DEF CheckpointsLeft
<1> HIDE DEF legs, cps
<1>3. DOMAIN updated = OpportunityFields /\ updated.peak = o.peak /\ updated.cps = cps
  BY DEF Earned, Shaped, OpportunityFields
<1> HIDE DEF updated
<1>4. Earned(updated)
  BY <1>2, <1>3, ClosingDescends
<1>5. Earned(closed)
  BY <1>4, ClosedWhenDoneEarned
<1> HIDE DEF closed
<1>6. DOMAIN u = OpportunityFields /\ u.peak = closed.peak /\ u.cps = closed.cps
  BY <1>5 DEF FollowCheckpoints, Earned, Shaped, OpportunityFields
<1> HIDE DEF u
<1>7. Earned(u)
  BY <1>5, <1>6, ClosingDescends
<1> QED  BY <1>1, <1>7

LEMMA ApplyInvalidationEarned ==
  ASSUME NEW o, NEW u, NEW hz, NEW a, NEW t, NEW price, Earned(u)
  PROVE  Earned(ApplyInvalidation(o, u, hz, a, t, price))
<1> DEFINE mark == MarkAt(o, a.at, t)
           bearish == a.view = "bearish"
           longFailure == hz = "LONG" /\ a.view \in {"bearish", "avoid"}
           scope == IF longFailure THEN "all" ELSE hz
           stopped == CloseCoreEntries(u, Core, "all", mark, t, price)
           core == CloseCoreEntries(stopped, {"CORE_ENTRY"}, scope, a.at, t, None)
           failed == IF longFailure \/ bearish THEN core ELSE stopped
           rest == CloseCoreEntries(failed, {"CORE_RECOVERY"}, "all", a.at, t, None)
<1>1. ApplyInvalidation(o, u, hz, a, t, price) =
        IF mark = None \/ a.at > t THEN u ELSE IF bearish /\ hz = "SWING" THEN rest ELSE failed
  BY DEF ApplyInvalidation
<1>2. Earned(stopped)
  BY CloseCoreEntriesEarned
<1> HIDE DEF stopped
<1>3. Earned(core)
  BY <1>2, CloseCoreEntriesEarned
<1> HIDE DEF core
<1>4. Earned(failed)
  BY <1>2, <1>3
<1> HIDE DEF failed
<1>5. Earned(rest)
  BY <1>4, CloseCoreEntriesEarned
<1> HIDE DEF rest
<1> QED  BY <1>1, <1>4, <1>5

---------------------------------------------------------------------------
(* _advance.                                                               *)

(* What a Core entry must satisfy to reach L4.                             *)
MayConfirm(o, e) ==
  e.level = L4 /\ o.peak # L4 =>
    \A a \in Anchors(o) : a.retested > a.reached /\ e.at > a.retested

LEMMA AdvanceEarned ==
  ASSUME NEW o, NEW e, Earned(o), e.level \in ARMED..L4, e.at \in Int, MayConfirm(o, e)
  PROVE  Earned(Advance(o, e))
<1> DEFINE u == Advance(o, e)
           n == NewCheckpoint(e.fam, e.setup, e.level, None, e.at, e.stop, e.target, e.level = L2)
<1>1. /\ DOMAIN u = OpportunityFields
      /\ u.peak = Larger(o.peak, e.level)
      /\ \/ u.cps = o.cps
         \/ u.cps = o.cps \union {n} /\ (e.level > o.peak \/ e.fam = "CORE_RECOVERY")
  BY DEF Advance, Earned, Shaped, OpportunityFields
<1>2. /\ DOMAIN n = CheckpointFields /\ n.fam = e.fam /\ n.level = e.level
      /\ n.reached = e.at /\ n.retested = None /\ n.zone = (e.level = L2)
  BY DEF NewCheckpoint, CheckpointFields
<1>3. /\ o.peak \in ARMED..L4 /\ Shaped(o) /\ Anchored(o) /\ Confirmed(o)
      /\ \A c \in o.cps : c.fam = "CORE_ENTRY" =>
           /\ c.level \in ARMED..L4 /\ c.level <= o.peak
           /\ c.reached \in Int /\ c.retested \in Int
  BY DEF Earned, Levelled
<1> HIDE DEF u, n
<1>4. /\ u.peak \in ARMED..L4 /\ u.peak >= o.peak /\ u.peak >= e.level
      /\ u.peak = o.peak \/ u.peak = e.level
  BY <1>1, <1>3 DEF Larger, ARMED, L4
<1>5. Shaped(u)
  BY <1>1, <1>2, <1>3 DEF Shaped
<1>6. \A c \in u.cps : c \in o.cps \/ (c = n /\ (e.fam = "CORE_ENTRY" => e.level > o.peak))
  BY <1>1
<1>7. Levelled(u)
  <2> SUFFICES ASSUME NEW c \in u.cps, c.fam = "CORE_ENTRY"
               PROVE  /\ c.level \in ARMED..L4 /\ c.level <= u.peak
                      /\ c.reached \in Int /\ c.retested \in Int
    BY <1>4 DEF Levelled
  <2>1. CASE c \in o.cps
    BY <1>3, <1>4, <2>1 DEF ARMED, L4
  <2>2. CASE c = n
    BY <1>2, <1>4, <2>2 DEF None
  <2> QED  BY <1>6, <2>1, <2>2
<1>8. \A a \in Anchors(u) :
        \/ a \in Anchors(o)
        \/ a = n /\ e.level = L2 /\ o.peak < L2 /\ Anchors(o) = {}
  <2> SUFFICES ASSUME NEW a \in Anchors(u)
               PROVE  \/ a \in Anchors(o)
                      \/ a = n /\ e.level = L2 /\ o.peak < L2 /\ Anchors(o) = {}
    OBVIOUS
  <2>1. CASE a \in o.cps
    BY <2>1 DEF Anchors
  <2>2. CASE a = n
    <3>1. e.level = L2 /\ e.fam = "CORE_ENTRY"
      BY <1>2, <2>2 DEF Anchors
    <3>2. a \in o.cps \/ e.level > o.peak
      BY <1>6, <3>1, <2>2 DEF Anchors
    <3>3. CASE e.level > o.peak
      <4>1. o.peak < L2
        BY <1>3, <3>1, <3>3 DEF ARMED, L2, L4
      <4>2. Anchors(o) = {}
        BY <1>3, <4>1 DEF Anchors, ARMED, L2, L4
      <4> QED  BY <2>2, <3>1, <4>1, <4>2
    <3> QED  BY <2>1, <3>2, <3>3
  <2> QED  BY <1>6, <2>1, <2>2 DEF Anchors
<1>9. Anchored(u)
  <2> SUFFICES ASSUME NEW a \in Anchors(u), NEW b \in Anchors(u)
               PROVE  /\ a.reached = b.reached /\ a.retested = b.retested
                      /\ a.retested # None => a.retested > a.reached
    BY DEF Anchored
  <2>1. CASE a \in Anchors(o) /\ b \in Anchors(o)
    BY <1>3, <2>1 DEF Anchored
  <2>2. CASE a = n /\ b = n
    BY <1>2, <2>2
  <2> QED  BY <1>8, <2>1, <2>2
<1>10. Confirmed(u)
  <2> SUFFICES ASSUME NEW a \in Anchors(u), u.peak = L4
               PROVE  /\ a.retested > a.reached
                      /\ \A c \in u.cps : c.fam = "CORE_ENTRY" /\ c.level = L4
                                          => c.reached > a.retested
    BY DEF Confirmed
  <2>1. a \in Anchors(o)
    <3>1. ~(e.level = L2 /\ o.peak < L2)
      BY <1>3, <1>4 DEF ARMED, L2, L4
    <3> QED  BY <1>8, <3>1
  <2>2. CASE o.peak = L4
    <3>1. ~(e.level > o.peak)
      BY <2>2 DEF ARMED, L4
    <3>2. \A c \in u.cps : c.fam = "CORE_ENTRY" => c \in o.cps
      BY <1>2, <1>6, <3>1
    <3> QED  BY <1>3, <2>1, <2>2, <3>2 DEF Confirmed
  <2>3. CASE o.peak # L4
    <3>1. e.level = L4
      BY <1>4, <2>3
    <3>2. a.retested > a.reached /\ e.at > a.retested
      BY <2>1, <2>3, <3>1 DEF MayConfirm
    <3>3. \A c \in o.cps : c.fam = "CORE_ENTRY" => c.level # L4
      BY <1>3, <2>3 DEF ARMED, L4
    <3> QED  BY <1>2, <1>6, <3>2, <3>3
  <2> QED  BY <2>2, <2>3
<1>11. Earned(u)
  BY <1>5, <1>7, <1>9, <1>10 DEF Earned
<1> QED  BY <1>11 DEF u

(* While no anchor waits for its retest any Core entry may confirm.        *)
LEMMA NothingPending ==
  ASSUME NEW o, NEW e, Earned(o), e.level = L4 => ~AnchorPending(o)
  PROVE  MayConfirm(o, e)
<1>1. o.peak \in ARMED..L4
  BY DEF Earned, Levelled
<1> QED  BY <1>1 DEF MayConfirm, AnchorPending, ARMED, L4

---------------------------------------------------------------------------
(* The retest of the anchor's zone, and bars.                              *)

LEMMA RecordRetestEarned ==
  ASSUME NEW o, NEW touched, NEW when \in Int, NEW at \in Int, when <= at, at # None, Earned(o)
  PROVE  Earned(RecordRetest(o, touched, when, at))
<1> DEFINE u == Retested(o, at)
           mark(c) == IF c \in Anchors(o) THEN [c EXCEPT !.retested = at] ELSE c
<1>1. /\ DOMAIN u = OpportunityFields /\ u.peak = o.peak
      /\ u.cps = {mark(c) : c \in o.cps}
  BY DEF Retested, Earned, Shaped, OpportunityFields
<1>2. /\ Shaped(o) /\ Levelled(o) /\ Anchored(o) /\ Confirmed(o)
      /\ \A c \in Anchors(o) : c \in o.cps
      /\ \A c \in o.cps : DOMAIN c = CheckpointFields
  BY DEF Earned, Anchors, Shaped
<1> HIDE DEF u
<1>3. CASE RecordRetest(o, touched, when, at) = u /\ o.peak < L4
           /\ \E c \in Anchors(o) : when > c.reached
  <2>1. \A c \in o.cps :
          /\ DOMAIN mark(c) = CheckpointFields
          /\ mark(c).fam = c.fam /\ mark(c).level = c.level /\ mark(c).zone = c.zone
          /\ mark(c).reached = c.reached
          /\ mark(c).retested = IF c \in Anchors(o) THEN at ELSE c.retested
    BY <1>2 DEF CheckpointFields
  <2> HIDE DEF mark
  <2>2. Shaped(u)
    BY <1>1, <2>1 DEF Shaped
  <2>3. Levelled(u)
    BY <1>1, <1>2, <2>1 DEF Levelled
  <2>4. \A a \in Anchors(u) : \E d \in Anchors(o) : a.reached = d.reached /\ a.retested = at
    BY <1>1, <2>1 DEF Anchors
  <2>5. \A d \in Anchors(o) : at > d.reached
    <3>1. PICK c \in Anchors(o) : when > c.reached
      BY <1>3
    <3>2. \A d \in Anchors(o) : d.reached = c.reached /\ d.reached \in Int
      BY <1>2, <3>1 DEF Anchored, Levelled, Anchors
    <3> QED  BY <3>1, <3>2
  <2>6. Anchored(u)
    <3> SUFFICES ASSUME NEW a \in Anchors(u), NEW b \in Anchors(u)
                 PROVE  /\ a.reached = b.reached /\ a.retested = b.retested
                        /\ a.retested # None => a.retested > a.reached
      BY DEF Anchored
    <3> QED  BY <1>2, <2>4, <2>5 DEF Anchored
  <2>7. Confirmed(u)
    <3>1. u.peak # L4
      BY <1>1, <1>2, <1>3 DEF Levelled, ARMED, L4
    <3> QED  BY <3>1 DEF Confirmed
  <2>8. Earned(u)
    BY <2>2, <2>3, <2>6, <2>7 DEF Earned
  <2> QED  BY <1>3, <2>8
<1>4. CASE RecordRetest(o, touched, when, at) = o
  BY <1>4
<1> QED  BY <1>3, <1>4 DEF RecordRetest, u

LEMMA MarkedEarned ==
  ASSUME NEW o, NEW p, NEW t, NEW protected, Earned(o)
  PROVE  Earned(Marked(o, p, t, protected))
<1> DEFINE u == Marked(o, p, t, protected)
<1>1. /\ DOMAIN u = OpportunityFields /\ u.peak = o.peak
      /\ u.cps = {IF c.open /\ ((t > c.reached /\ Touches(p, c)) \/ c \in protected)
                  THEN CloseCheckpoint(c) ELSE c : c \in o.cps}
  BY DEF Marked, Earned, Shaped, OpportunityFields
<1>2. \A c \in u.cps : \E d \in o.cps : c = d \/ c = CloseCheckpoint(d)
  BY <1>1
<1> HIDE DEF u
<1>3. Earned(u)
  BY <1>1, <1>2, ClosingDescends
<1> QED  BY <1>3 DEF u

(* Fields other than the checkpoints and the peak are of no concern.       *)
LEMMA SameCheckpointsEarned ==
  ASSUME NEW o, NEW u, Earned(o), DOMAIN u = OpportunityFields,
         u.peak = o.peak, u.cps = o.cps
  PROVE  Earned(u)
BY ClosingDescends

LEMMA BarAppliedEarned ==
  ASSUME NEW o, NEW p, NEW touch, NEW t \in Int, NEW protected, t # None, Earned(o)
  PROVE  Earned(BarApplied(o, p, touch, t, protected))
<1> DEFINE low == Lower(p, EntryPrice)
           near == touch /\ \A c \in Anchors(o) : low > c.stop
           marked == RecordRetest(Marked(o, p, t, protected), near, t, t)
           updated == [SessionClosed(marked, t) EXCEPT !.updated = Larger(@, t), !.lastBar = t, !.price = p]
           stamped == [marked EXCEPT !.lastBar = t, !.price = p]
<1>1. BarApplied(o, p, touch, t, protected) =
        IF low <= o.inval /\ CanClose(marked) THEN CloseOpportunity(stamped, t)
        ELSE IF AllOpenedTerminal(updated) /\ CanClose(updated) THEN CloseOpportunity(updated, t)
        ELSE updated
  BY DEF BarApplied
<1>2. Earned(marked)
  BY MarkedEarned, RecordRetestEarned
<1> HIDE DEF marked
<1>3. Earned(stamped)
  <2>1. DOMAIN stamped = OpportunityFields /\ stamped.peak = marked.peak /\ stamped.cps = marked.cps
    BY <1>2 DEF Earned, Shaped, OpportunityFields
  <2> HIDE DEF stamped
  <2> QED  BY <1>2, <2>1, SameCheckpointsEarned
<1>4. Earned(updated)
  <2>1. DOMAIN updated = OpportunityFields /\ updated.peak = marked.peak /\ updated.cps = marked.cps
    BY <1>2 DEF SessionClosed, Earned, Shaped, OpportunityFields
  <2> HIDE DEF updated
  <2> QED  BY <1>2, <2>1, SameCheckpointsEarned
<1> HIDE DEF stamped, updated
<1>5. Earned(CloseOpportunity(stamped, t)) /\ Earned(CloseOpportunity(updated, t))
  BY <1>3, <1>4, CloseOpportunityEarned
<1> QED  BY <1>1, <1>4, <1>5

LEMMA RevisitedEarned ==
  ASSUME NEW o, NEW p, NEW t, Earned(o)
  PROVE  Earned(Revisited(o, p, t))
<1> DEFINE again(u, h) == IF u.analyses[h].view = "none" THEN u
                          ELSE ApplyInvalidation(u, u, h, u.analyses[h], t, BarMark(u, p, t))
<1>1. Revisited(o, p, t) = again(again(again(o, "LONG"), "SWING"), "INTRADAY")
  BY DEF Revisited
<1>2. ASSUME NEW u, NEW h, Earned(u)  PROVE  Earned(again(u, h))
  BY <1>2, ApplyInvalidationEarned
<1> HIDE DEF again
<1>3. Earned(again(o, "LONG"))
  BY <1>2
<1>4. Earned(again(again(o, "LONG"), "SWING"))
  BY <1>2, <1>3
<1>5. Earned(again(again(again(o, "LONG"), "SWING"), "INTRADAY"))
  BY <1>2, <1>4
<1> QED  BY <1>1, <1>5

---------------------------------------------------------------------------
(* The other strategies, and the clock.                                    *)

LEMMA StageCheckpointShape ==
  ASSUME NEW i, NEW fam, NEW at
  PROVE  /\ DOMAIN StageCheckpoint(i, fam, at) = CheckpointFields
         /\ StageCheckpoint(i, fam, at).fam = fam
BY DEF StageCheckpoint, NewCheckpoint, CheckpointFields

LEMMA ApplySwingTradeEarned ==
  ASSUME NEW o, NEW i, NEW at, Earned(o)
  PROVE  Earned(ApplySwingTrade(o, i, at))
<1> DEFINE refs == Tracked(o, "SWING_TRADE", i.setup, i.stage, at)
           followed == [o EXCEPT !.refs = refs, !.updated = Larger(@, at)]
           entered == EnterSwingTrade(o, i, at)
           n == StageCheckpoint(i, "SWING_TRADE", at)
           u == [followed EXCEPT !.cps = WithStageCheckpoint(o, i, "SWING_TRADE", at),
                                 !.legs = entered.legs, !.status = entered.status,
                                 !.expires = entered.expires, !.inval = entered.inval]
<1>1. ApplySwingTrade(o, i, at) \in {o, followed, u}
  BY DEF ApplySwingTrade
<1> HIDE DEF refs, entered
<1>2. DOMAIN followed = OpportunityFields /\ followed.peak = o.peak /\ followed.cps = o.cps
  BY DEF Earned, Shaped, OpportunityFields
<1> HIDE DEF followed
<1>3. DOMAIN u = OpportunityFields /\ u.peak = followed.peak
      /\ u.cps = WithStageCheckpoint(o, i, "SWING_TRADE", at)
  BY <1>2 DEF OpportunityFields
<1>4. u.cps \subseteq o.cps \union {n} /\ DOMAIN n = CheckpointFields /\ n.fam # "CORE_ENTRY"
  BY <1>3, StageCheckpointShape DEF WithStageCheckpoint
<1> HIDE DEF u, n
<1>5. Earned(followed)
  BY <1>2, SameCheckpointsEarned
<1>6. Earned(u)
  BY <1>2, <1>3, <1>4, AddingDescends
<1> QED  BY <1>1, <1>5, <1>6

LEMMA ReboundExitEarned ==
  ASSUME NEW o, NEW i, NEW at, Earned(o)
  PROVE  Earned(ReboundExit(o, i, at))
<1> DEFINE legs == {IF l.status = "OPEN" /\ at >= l.opened /\ MatchesSetup(o, l, i.setup)
                    THEN CloseLeg(l) ELSE l : l \in o.legs}
           cps == {IF c.fam = "SWING_TRADE" /\ c.setup = i.setup /\ at >= c.reached
                   THEN CloseCheckpoint(c) ELSE c : c \in o.cps}
           refs == Tracked(o, "SWING_TRADE", i.setup, None, at)
           updated == [o EXCEPT !.legs = legs, !.cps = cps, !.updated = Larger(@, at),
                                !.refs = refs]
<1>1. ReboundExit(o, i, at) \in {o, ClosedWhenDone(updated, at)}
  BY DEF ReboundExit
<1>2. \A c \in cps : \E d \in o.cps : c = d \/ c = CloseCheckpoint(d)
  OBVIOUS
<1> HIDE DEF legs, cps, refs
<1>3. DOMAIN updated = OpportunityFields /\ updated.peak = o.peak /\ updated.cps = cps
  BY DEF Earned, Shaped, OpportunityFields
<1> HIDE DEF updated
<1>4. Earned(updated)
  BY <1>2, <1>3, ClosingDescends
<1> QED  BY <1>1, <1>4, ClosedWhenDoneEarned

LEMMA ObserveCountertrendEarned ==
  ASSUME NEW o, NEW i, NEW at, Earned(o)
  PROVE  Earned(ObserveCountertrend(o, i, at))
<1> DEFINE refs == Tracked(o, "GERI", i.setup, i.stage, at)
           u == [o EXCEPT !.refs = refs, !.updated = at]
<1>1. ObserveCountertrend(o, i, at) \in {o, u}
  BY DEF ObserveCountertrend
<1> HIDE DEF refs
<1>2. DOMAIN u = OpportunityFields /\ u.peak = o.peak /\ u.cps = o.cps
  BY DEF Earned, Shaped, OpportunityFields
<1> HIDE DEF u
<1> QED  BY <1>1, <1>2, SameCheckpointsEarned

LEMMA ApplyCountertrendEarned ==
  ASSUME NEW o, NEW i, NEW at, Earned(o)
  PROVE  Earned(ApplyCountertrend(o, i, at))
<1> DEFINE refs == Tracked(o, "GERI", i.setup, i.stage, at)
           followed == [o EXCEPT !.refs = refs, !.updated = Larger(@, at)]
           buys == o.primary = "GERI" /\ ~CountertrendOpen(o, {i.setup})
           n == StageCheckpoint(i, "GERI", at)
           u == [followed EXCEPT !.cps = WithStageCheckpoint(o, i, "GERI", at),
                                 !.legs = IF buys THEN OpenCountertrendLeg(o, i, at) ELSE @,
                                 !.status = IF buys THEN "OPEN" ELSE @]
<1>1. ApplyCountertrend(o, i, at) \in {o, followed, u}
  BY DEF ApplyCountertrend
<1> HIDE DEF refs, buys
<1>2. DOMAIN followed = OpportunityFields /\ followed.peak = o.peak /\ followed.cps = o.cps
  BY DEF Earned, Shaped, OpportunityFields
<1> HIDE DEF followed
<1>3. DOMAIN u = OpportunityFields /\ u.peak = followed.peak
      /\ u.cps = WithStageCheckpoint(o, i, "GERI", at)
  BY <1>2 DEF OpportunityFields
<1>4. u.cps \subseteq o.cps \union {n} /\ DOMAIN n = CheckpointFields /\ n.fam # "CORE_ENTRY"
  BY <1>3, StageCheckpointShape DEF WithStageCheckpoint
<1> HIDE DEF u, n
<1>5. Earned(followed)
  BY <1>2, SameCheckpointsEarned
<1>6. Earned(u)
  BY <1>2, <1>3, <1>4, AddingDescends
<1> QED  BY <1>1, <1>5, <1>6

LEMMA CountertrendLossEarned ==
  ASSUME NEW o, NEW i, NEW at, Earned(o)
  PROVE  Earned(CountertrendLoss(o, i, at))
<1> DEFINE refs == Tracked(o, "GERI", i.setup, None, at)
           followed == [o EXCEPT !.refs = refs, !.updated = Larger(@, at)]
           u == [followed EXCEPT !.cps = {IF c.fam = "GERI" /\ c.setup = i.setup
                                          THEN CloseCheckpoint(c) ELSE c : c \in @}]
<1>1. CountertrendLoss(o, i, at) \in {o, followed, u, CloseOpportunity(o, at)}
  BY DEF CountertrendLoss
<1> HIDE DEF refs
<1>2. DOMAIN followed = OpportunityFields /\ followed.peak = o.peak /\ followed.cps = o.cps
  BY DEF Earned, Shaped, OpportunityFields
<1> HIDE DEF followed
<1>3. /\ DOMAIN u = OpportunityFields /\ u.peak = followed.peak
      /\ \A c \in u.cps : \E d \in followed.cps : c = d \/ c = CloseCheckpoint(d)
  BY <1>2 DEF OpportunityFields
<1> HIDE DEF u
<1>4. Earned(followed)
  BY <1>2, SameCheckpointsEarned
<1>5. Earned(u)
  BY <1>3, <1>4, ClosingDescends
<1> QED  BY <1>1, <1>4, <1>5, CloseOpportunityEarned

LEMMA ExpiredEarned ==
  ASSUME NEW o, NEW t, Earned(o)
  PROVE  Earned(Expired(o, t))
<1> DEFINE expired == {l \in o.legs : l.status # "CLOSED" /\ t >= Deadline(o, l)}
           setups == {l.setup : l \in expired} \ {"none"}
           kept == {IF l \in expired THEN CloseLeg(l) ELSE l :
                      l \in {l \in o.legs : ~(l \in expired /\ l.status = "WATCHING")}}
           updated == [o EXCEPT !.legs = kept, !.updated = Larger(@, t),
                                !.cps = {IF c.setup \in setups THEN CloseCheckpoint(c) ELSE c : c \in @}]
           deadlines == {Deadline(o, l) : l \in {l \in kept : l.status # "CLOSED"}}
           u == [updated EXCEPT !.expires = CHOOSE m \in deadlines : \A n \in deadlines : n <= m]
<1>1. Expired(o, t) \in {o, CloseOpportunity(updated, t), u}
  BY DEF Expired
<1> HIDE DEF expired, setups, kept, deadlines
<1>2. /\ DOMAIN updated = OpportunityFields /\ updated.peak = o.peak
      /\ \A c \in updated.cps : \E d \in o.cps : c = d \/ c = CloseCheckpoint(d)
  BY DEF Earned, Shaped, OpportunityFields
<1> HIDE DEF updated
<1>3. Earned(updated)
  BY <1>2, ClosingDescends
<1>4. DOMAIN u = OpportunityFields /\ u.peak = updated.peak /\ u.cps = updated.cps
  BY <1>2 DEF OpportunityFields
<1> HIDE DEF u
<1>5. Earned(u)
  BY <1>3, <1>4, SameCheckpointsEarned
<1> QED  BY <1>1, <1>3, <1>5, CloseOpportunityEarned

---------------------------------------------------------------------------
(* New opportunities have no anchor: the zone they start with is their own. *)
LEMMA FreshEarned ==
  ASSUME NEW u, DOMAIN u = OpportunityFields, u.peak \in ARMED..L4,
         \A c \in u.cps :
           /\ DOMAIN c = CheckpointFields
           /\ c.fam = "CORE_ENTRY" =>
                /\ c.level \in ARMED..L4 /\ c.level <= u.peak
                /\ c.reached \in Int /\ c.retested \in Int /\ c.zone = FALSE
  PROVE  Earned(u) /\ Anchors(u) = {}
<1>1. Anchors(u) = {}
  BY DEF Anchors
<1> QED  BY <1>1 DEF Earned, Shaped, Levelled, Anchored, Confirmed

LEMMA NewShape ==
  ASSUME NEW status, NEW primary, NEW peak, NEW at, NEW expires, NEW inval
  PROVE  LET o == NewOpportunity(status, primary, peak, at, expires, inval)
         IN  DOMAIN o = OpportunityFields /\ o.peak = peak /\ o.cps = {}
BY DEF NewOpportunity, OpportunityFields

(* The level of a transition that is not a terminal one.                   *)
LEMMA TransitionLevels ==
  ASSUME NEW status \in WatchStatuses \ {"INVALIDATED", "EXPIRED"}
  PROVE  /\ TransitionLevel(status) \in ARMED..L4
         /\ TransitionLevel(status) = L4 => status = "TRIGGERED"
BY DEF TransitionLevel, WatchStatuses, ARMED, IN_ZONE, L1, L4

LEMMA WatchEntryShape ==
  ASSUME NEW i, NEW at, NEW level, NEW inval
  PROVE  LET e == WatchEntry(i, at, level, inval)
         IN  e.level = level /\ e.at = at /\ e.fam = "CORE_ENTRY"
BY DEF WatchEntry, CoreEntry

LEMMA NewWatchEarned ==
  ASSUME NEW i, NEW at \in Int, i.status \in WatchStatuses \ {"INVALIDATED", "EXPIRED"}
  PROVE  Earned(NewWatchOpportunity(i, at))
<1> DEFINE level == TransitionLevel(i.status)
           e == WatchEntry(i, at, level, WatchStop)
           new == NewOpportunity(IF level = IN_ZONE THEN "IN_ZONE" ELSE "ARMED", "CORE_ENTRY",
                                 level, at, at + Life.watch, WatchStop)
           n == NewCheckpoint(e.fam, e.setup, level, None, at, e.stop, e.target, FALSE)
           leg == NewLeg("none", "none", "LONG", None, WatchStop, NoTarget, None)
           born == [new EXCEPT !.watch = i.watch, !.cursor = at, !.cps = {n}, !.legs = {leg}]
<1>1. NewWatchOpportunity(i, at) = IF level >= L1 THEN Advance(born, e) ELSE born
  BY DEF NewWatchOpportunity
<1>2. level \in ARMED..L4
  BY TransitionLevels
<1> HIDE DEF level
<1>3. e.level = level /\ e.at = at
  BY WatchEntryShape
<1> HIDE DEF e
<1>4. DOMAIN new = OpportunityFields /\ new.peak = level
  BY NewShape
<1>5. /\ DOMAIN n = CheckpointFields /\ n.level = level
      /\ n.reached = at /\ n.zone = FALSE /\ n.retested = None
  BY DEF NewCheckpoint, CheckpointFields
<1> HIDE DEF new, n, leg
<1>6. DOMAIN born = OpportunityFields /\ born.peak = level /\ born.cps = {n}
  BY <1>4 DEF OpportunityFields
<1> HIDE DEF born
<1>7. Earned(born) /\ Anchors(born) = {}
  <2>1. n.level <= born.peak /\ n.reached \in Int /\ n.retested \in Int
    BY <1>2, <1>5, <1>6 DEF ARMED, L4, None
  <2> QED  BY <1>2, <1>5, <1>6, <2>1, FreshEarned
<1>8. MayConfirm(born, e)
  BY <1>7 DEF MayConfirm
<1>9. Earned(Advance(born, e))
  BY <1>2, <1>3, <1>7, <1>8, AdvanceEarned
<1> QED  BY <1>1, <1>7, <1>9

LEMMA NewSignalEarned ==
  ASSUME NEW i, NEW at \in Int, i.level \in ARMED..L4
  PROVE  Earned(NewSignalOpportunity(i, at))
<1> DEFINE hzs == HorizonsOf(i.fam, i.level)
           buys == i.fam \notin Core \/ i.level = L4
           new == NewOpportunity(IF buys THEN "OPEN" ELSE "CONFIRMING", i.fam, i.level, at,
                                 at + SignalLife(hzs), i.stop)
           n == NewCheckpoint(i.fam, i.setup, i.level, None, at, i.stop, i.target, FALSE)
           legs == {NewLeg("none", "none", h, at, i.stop, i.target, None) : h \in hzs}
           refs == {Reference(i.fam, i.setup, i.level, i.level, at)}
           u == [new EXCEPT !.cps = {n}, !.legs = legs, !.refs = refs]
<1>1. NewSignalOpportunity(i, at) = u
  BY DEF NewSignalOpportunity
<1>2. DOMAIN new = OpportunityFields /\ new.peak = i.level
  BY NewShape
<1>3. /\ DOMAIN n = CheckpointFields /\ n.level = i.level
      /\ n.reached = at /\ n.zone = FALSE /\ n.retested = None
  BY DEF NewCheckpoint, CheckpointFields
<1> HIDE DEF new, n, legs, refs
<1>4. DOMAIN u = OpportunityFields /\ u.peak = i.level /\ u.cps = {n}
  BY <1>2 DEF OpportunityFields
<1> HIDE DEF u
<1>5. n.level <= u.peak /\ n.reached \in Int /\ n.retested \in Int
  BY <1>3, <1>4 DEF ARMED, L4, None
<1>6. Earned(u)
  BY <1>3, <1>4, <1>5, FreshEarned
<1> QED  BY <1>1, <1>6

(* An opportunity of another strategy.                                     *)
LEMMA OtherFreshEarned ==
  ASSUME NEW u, NEW c, DOMAIN u = OpportunityFields, u.peak = ARMED, u.cps \subseteq {c},
         DOMAIN c = CheckpointFields, c.fam # "CORE_ENTRY"
  PROVE  Earned(u)
<1>1. u.peak \in ARMED..L4
  BY DEF ARMED, L4
<1> QED  BY <1>1, FreshEarned

LEMMA NewSwingTradeEarned ==
  ASSUME NEW i, NEW at
  PROVE  Earned(NewSwingTradeOpportunity(i, at))
<1> DEFINE entered == i.stage >= 3
           expires == at + Life.swing
           leg == NewLeg("none", i.setup, "SWING", IF entered THEN at ELSE None, i.stop, i.target,
                         IF entered THEN expires ELSE None)
           new == NewOpportunity(IF entered THEN "OPEN" ELSE "CONFIRMING", "SWING_TRADE", ARMED, at,
                                 expires, i.stop)
           n == StageCheckpoint(i, "SWING_TRADE", at)
           refs == {Reference("SWING_TRADE", i.setup, i.stage, i.stage, at)}
           u == [new EXCEPT !.cps = {n}, !.legs = {leg}, !.refs = refs]
<1>1. NewSwingTradeOpportunity(i, at) = u
  BY DEF NewSwingTradeOpportunity
<1>2. DOMAIN new = OpportunityFields /\ new.peak = ARMED
  BY NewShape
<1>3. DOMAIN n = CheckpointFields /\ n.fam = "SWING_TRADE"
  BY StageCheckpointShape
<1> HIDE DEF new, n, leg, refs
<1>4. DOMAIN u = OpportunityFields /\ u.peak = ARMED /\ u.cps = {n}
  BY <1>2 DEF OpportunityFields
<1> HIDE DEF u
<1>5. Earned(u)
  BY <1>3, <1>4, OtherFreshEarned
<1> QED  BY <1>1, <1>5

LEMMA NewCountertrendEarned ==
  ASSUME NEW i, NEW at
  PROVE  Earned(NewCountertrendOpportunity(i, at))
<1> DEFINE entered == i.stage >= 2
           new == NewOpportunity(IF entered THEN "OPEN" ELSE "CONFIRMING", "GERI", ARMED, at,
                                 at + Life.geri, i.stop)
           n == StageCheckpoint(i, "GERI", at)
           leg == NewLeg("none", "none", "SWING", IF entered THEN at ELSE None,
                         i.stop, i.target, None)
           refs == {Reference("GERI", i.setup, i.stage, i.stage, at)}
           u == [new EXCEPT !.cps = IF entered THEN {n} ELSE {}, !.legs = {leg}, !.refs = refs]
<1>1. NewCountertrendOpportunity(i, at) = u
  BY DEF NewCountertrendOpportunity
<1>2. DOMAIN new = OpportunityFields /\ new.peak = ARMED
  BY NewShape
<1>3. DOMAIN n = CheckpointFields /\ n.fam = "GERI"
  BY StageCheckpointShape
<1> HIDE DEF new, n, leg, refs, entered
<1>4. DOMAIN u = OpportunityFields /\ u.peak = ARMED /\ u.cps \subseteq {n}
  BY <1>2 DEF OpportunityFields
<1> HIDE DEF u
<1>5. Earned(u)
  BY <1>3, <1>4, OtherFreshEarned
<1> QED  BY <1>1, <1>5

LEMMA NewShortEarned ==
  ASSUME NEW setup, NEW at
  PROVE  Earned(NewShortOpportunity(setup, at))
<1> DEFINE expires == at + Life.short
           new == NewOpportunity("OPEN", "CORE_SHORT", ARMED, at, expires, ShortStop)
           n == NewCheckpoint("CORE_SHORT", setup, ARMED, None, at, ShortStop, ShortTarget, TRUE)
           legs == {NewLeg("CORE_SHORT", setup, "INTRADAY", at, ShortStop, ShortTarget, expires)}
           refs == {Reference("CORE_SHORT", setup, None, None, at)}
           u == [new EXCEPT !.cps = {n}, !.legs = legs, !.refs = refs]
<1>1. NewShortOpportunity(setup, at) = u
  BY DEF NewShortOpportunity
<1>2. DOMAIN new = OpportunityFields /\ new.peak = ARMED
  BY NewShape
<1>3. DOMAIN n = CheckpointFields /\ n.fam = "CORE_SHORT"
  BY DEF NewCheckpoint, CheckpointFields
<1> HIDE DEF new, n, legs, refs
<1>4. DOMAIN u = OpportunityFields /\ u.peak = ARMED /\ u.cps = {n}
  BY <1>2 DEF OpportunityFields
<1> HIDE DEF u
<1>5. Earned(u)
  BY <1>3, <1>4, OtherFreshEarned
<1> QED  BY <1>1, <1>5

---------------------------------------------------------------------------
(* The handlers.                                                           *)
LifecycleInv == menu \in Menus /\ now \in Nat /\ Earned(opp)

LEMMA InputTimes ==
  ASSUME LifecycleInv, NEW kind, NEW x \in Inputs(kind)
  PROVE  /\ x.in \in menu /\ x.in.kind = kind
         /\ x.at \in Nat /\ x.at <= now
<1>1. x \in {[in |-> i, at |-> now - d] : i \in {i \in menu : i.kind = kind},
                                         d \in {d \in Delays : d <= now}}
  BY DEF Inputs
<1>2. PICK i \in menu, d \in Delays : i.kind = kind /\ d <= now /\ x = [in |-> i, at |-> now - d]
  BY <1>1
<1>3. d \in Nat /\ now \in Nat
  BY LifecycleAssumption DEF LifecycleInv
<1>4. x.in = i /\ x.at = now - d
  BY <1>2
<1> QED  BY <1>2, <1>3, <1>4

(* A step that stamps some fields on top of an aggregate.                  *)
LEMMA AppliedEarned ==
  ASSUME LifecycleInv, NEW kind, NEW at, NEW o, Earned(o), Applied(kind, at, o)
  PROVE  LifecycleInv'
<1>1. opp' = o /\ now' = now + 1 /\ menu' = menu
  BY DEF Applied
<1>2. Earned(opp')
  BY <1>1
<1> QED  BY <1>1, <1>2 DEF LifecycleInv, Earned, Shaped, Levelled, Anchored, Confirmed, Anchors

LEMMA AppliedAtEarned ==
  ASSUME LifecycleInv, NEW kind, NEW at, NEW o, NEW price, NEW exits, Earned(o),
         AppliedAt(kind, at, o, price, exits)
  PROVE  LifecycleInv'
<1>1. opp' = o /\ now' = now + 1 /\ menu' = menu
  BY DEF AppliedAt
<1>2. Earned(opp')
  BY <1>1
<1> QED  BY <1>1, <1>2 DEF LifecycleInv, Earned, Shaped, Levelled, Anchored, Confirmed, Anchors

LEMMA StampedEarned ==
  ASSUME NEW o, NEW v, Earned(o)
  PROVE  /\ Earned([o EXCEPT !.cursor = v])
         /\ Earned([o EXCEPT !.refs = v])
<1> DEFINE c == [o EXCEPT !.cursor = v]
           r == [o EXCEPT !.refs = v]
<1>1. DOMAIN c = OpportunityFields /\ c.peak = o.peak /\ c.cps = o.cps
  BY DEF Earned, Shaped, OpportunityFields
<1>2. DOMAIN r = OpportunityFields /\ r.peak = o.peak /\ r.cps = o.cps
  BY DEF Earned, Shaped, OpportunityFields
<1> HIDE DEF c, r
<1>3. Earned(c) /\ Earned(r)
  BY <1>1, <1>2, SameCheckpointsEarned
<1> QED  BY <1>3 DEF c, r

LEMMA TransitionEarned ==
  ASSUME LifecycleInv, IngestTransition
  PROVE  LifecycleInv'
<1>1. PICK x \in Inputs("watch") :
        LET i == x.in
            terminal == i.status \in {"INVALIDATED", "EXPIRED"}
            ended == CloseCoreEntries(opp, {"CORE_ENTRY"}, "all", x.at, x.at, None)
            e == WatchEntry(i, x.at, TransitionLevel(i.status), opp.inval)
        IN  \/ /\ i.status \in {"ARMED", "IN_ZONE", "EARLY_ENTRY", "TRIGGERED"}
               /\ Applied("watch", x.at, NewWatchOpportunity(i, x.at))
            \/ Applied("watch", x.at, [ended EXCEPT !.cursor = x.at])
            \/ /\ ~terminal
               /\ ~(i.status = "TRIGGERED" /\ AnchorPending(opp))
               /\ Applied("watch", x.at, [Advance(opp, e) EXCEPT !.cursor = x.at])
  BY DEF IngestTransition
<1> DEFINE i == x.in
           ended == CloseCoreEntries(opp, {"CORE_ENTRY"}, "all", x.at, x.at, None)
           e == WatchEntry(i, x.at, TransitionLevel(i.status), opp.inval)
           joined == Advance(opp, e)
<1>2. x.at \in Int /\ i.status \in WatchStatuses
  BY InputTimes, MenuAssumption DEF LifecycleInv
<1>3. Earned(opp)
  BY DEF LifecycleInv
<1>4. CASE i.status \in {"ARMED", "IN_ZONE", "EARLY_ENTRY", "TRIGGERED"}
           /\ Applied("watch", x.at, NewWatchOpportunity(i, x.at))
  <2>1. Earned(NewWatchOpportunity(i, x.at))
    BY <1>2, <1>4, NewWatchEarned
  <2> QED  BY <1>4, <2>1, AppliedEarned
<1>5. CASE Applied("watch", x.at, [ended EXCEPT !.cursor = x.at])
  <2>1. Earned(ended)
    BY <1>3, CloseCoreEntriesEarned
  <2>2. Earned([ended EXCEPT !.cursor = x.at])
    BY <2>1, StampedEarned
  <2> QED  BY <1>5, <2>2, AppliedEarned
<1>6. CASE /\ i.status \notin {"INVALIDATED", "EXPIRED"}
           /\ ~(i.status = "TRIGGERED" /\ AnchorPending(opp))
           /\ Applied("watch", x.at, [joined EXCEPT !.cursor = x.at])
  <2>1. e.level = TransitionLevel(i.status) /\ e.at = x.at
    BY WatchEntryShape
  <2>2. /\ TransitionLevel(i.status) \in ARMED..L4
        /\ TransitionLevel(i.status) = L4 => i.status = "TRIGGERED"
    BY <1>2, <1>6, TransitionLevels
  <2> HIDE DEF e
  <2>3. MayConfirm(opp, e)
    BY <1>3, <1>6, <2>1, <2>2, NothingPending
  <2>4. Earned(joined)
    BY <1>2, <1>3, <2>1, <2>2, <2>3, AdvanceEarned
  <2>5. Earned([joined EXCEPT !.cursor = x.at])
    BY <2>4, StampedEarned
  <2> QED  BY <1>6, <2>5, AppliedEarned
<1> QED  BY <1>1, <1>4, <1>5, <1>6

LEMMA SignalEarned ==
  ASSUME LifecycleInv, IngestSignal
  PROVE  LifecycleInv'
<1>1. PICK x \in Inputs("signal") :
        LET i == x.in
            refs == Replaced(opp, Reference(i.fam, i.setup, i.level, i.level, x.at))
        IN  \/ Applied("signal", x.at, NewSignalOpportunity(i, x.at))
            \/ /\ ~(i.level = L4 /\ AnchorPending(opp))
               /\ Applied("signal", x.at, [Advance(opp, SignalEntry(i, x.at)) EXCEPT !.refs = refs])
            \/ Applied("signal", x.at, [opp EXCEPT !.refs = refs, !.updated = Larger(@, x.at)])
  BY DEF IngestSignal
<1> DEFINE i == x.in
           refs == Replaced(opp, Reference(i.fam, i.setup, i.level, i.level, x.at))
           e == SignalEntry(i, x.at)
           joined == Advance(opp, e)
           noted == [opp EXCEPT !.refs = refs, !.updated = Larger(@, x.at)]
<1>2. x.at \in Int /\ i.level \in ARMED..L4
  BY InputTimes, MenuAssumption DEF LifecycleInv
<1>3. Earned(opp)
  BY DEF LifecycleInv
<1>4. CASE Applied("signal", x.at, NewSignalOpportunity(i, x.at))
  <2>1. Earned(NewSignalOpportunity(i, x.at))
    BY <1>2, NewSignalEarned
  <2> QED  BY <1>4, <2>1, AppliedEarned
<1>5. CASE /\ ~(i.level = L4 /\ AnchorPending(opp))
           /\ Applied("signal", x.at, [joined EXCEPT !.refs = refs])
  <2>1. e.level = i.level /\ e.at = x.at
    BY DEF SignalEntry, CoreEntry
  <2> HIDE DEF e
  <2>2. MayConfirm(opp, e)
    BY <1>3, <1>5, <2>1, NothingPending
  <2>3. Earned(joined)
    BY <1>2, <1>3, <2>1, <2>2, AdvanceEarned
  <2>4. Earned([joined EXCEPT !.refs = refs])
    BY <2>3, StampedEarned
  <2> QED  BY <1>5, <2>4, AppliedEarned
<1>6. CASE Applied("signal", x.at, noted)
  <2>1. DOMAIN noted = OpportunityFields /\ noted.peak = opp.peak /\ noted.cps = opp.cps
    BY <1>3 DEF Earned, Shaped, OpportunityFields
  <2> HIDE DEF noted
  <2>2. Earned(noted)
    BY <1>3, <2>1, SameCheckpointsEarned
  <2> QED  BY <1>6, <2>2, AppliedEarned
<1> QED  BY <1>1, <1>4, <1>5, <1>6

LEMMA StrategiesEarned ==
  ASSUME LifecycleInv, IngestSwingTrade \/ IngestCountertrend
  PROVE  LifecycleInv'
<1>1. Earned(opp)
  BY DEF LifecycleInv
<1>2. ASSUME IngestSwingTrade  PROVE  LifecycleInv'
  <2>1. PICK x \in Inputs("swing") :
          \/ Applied("swing", x.at, NewSwingTradeOpportunity(x.in, x.at))
          \/ Applied("swing", x.at, ReboundExit(opp, x.in, x.at))
          \/ Applied("swing", x.at, ApplySwingTrade(opp, x.in, x.at))
    BY <1>2 DEF IngestSwingTrade
  <2>2. /\ Earned(NewSwingTradeOpportunity(x.in, x.at))
        /\ Earned(ReboundExit(opp, x.in, x.at))
        /\ Earned(ApplySwingTrade(opp, x.in, x.at))
    BY <1>1, NewSwingTradeEarned, ReboundExitEarned, ApplySwingTradeEarned
  <2> QED  BY <2>1, <2>2, AppliedEarned
<1>3. ASSUME IngestCountertrend  PROVE  LifecycleInv'
  <2>1. PICK x \in Inputs("geri") :
          \/ Applied("geri", x.at, NewCountertrendOpportunity(x.in, x.at))
          \/ Applied("geri", x.at, CountertrendLoss(opp, x.in, x.at))
          \/ Applied("geri", x.at, ObserveCountertrend(opp, x.in, x.at))
          \/ Applied("geri", x.at, ApplyCountertrend(opp, x.in, x.at))
    BY <1>3 DEF IngestCountertrend
  <2>2. /\ Earned(NewCountertrendOpportunity(x.in, x.at))
        /\ Earned(CountertrendLoss(opp, x.in, x.at))
        /\ Earned(ObserveCountertrend(opp, x.in, x.at))
        /\ Earned(ApplyCountertrend(opp, x.in, x.at))
    BY <1>1, NewCountertrendEarned, CountertrendLossEarned, ObserveCountertrendEarned,
       ApplyCountertrendEarned
  <2> QED  BY <2>1, <2>2, AppliedEarned
<1> QED  BY <1>2, <1>3

LEMMA OtherInputsEarned ==
  ASSUME LifecycleInv,
         \/ IngestLeveragedCancellation \/ IngestShortAlert \/ IngestShortBar
         \/ IngestReferenceBar \/ Reconcile
  PROVE  LifecycleInv'
<1>1. Earned(opp)
  BY DEF LifecycleInv
<1>2. ASSUME IngestLeveragedCancellation  PROVE  LifecycleInv'
  <2>1. PICK x \in Inputs("cancel") : Applied("cancel", x.at, CloseOpportunity(opp, x.at))
    BY <1>2 DEF IngestLeveragedCancellation
  <2> QED  BY <1>1, <2>1, CloseOpportunityEarned, AppliedEarned
<1>3. ASSUME IngestShortAlert  PROVE  LifecycleInv'
  <2>1. PICK x \in Inputs("short") :
          \/ Applied("short", x.at, NewShortOpportunity(x.in.setup, x.at))
          \/ Applied("short", x.at, opp)
    BY <1>3 DEF IngestShortAlert
  <2> QED  BY <1>1, <2>1, NewShortEarned, AppliedEarned
<1>4. ASSUME IngestShortBar  PROVE  LifecycleInv'
  <2>1. PICK x \in Inputs("bar") :
          LET updated == [opp EXCEPT !.updated = x.at, !.lastBar = x.at]
          IN  \/ Applied("bar", x.at, CloseOpportunity(updated, x.at))
              \/ Applied("bar", x.at, updated)
    BY <1>4 DEF IngestShortBar
  <2> DEFINE updated == [opp EXCEPT !.updated = x.at, !.lastBar = x.at]
  <2>2. \/ Applied("bar", x.at, CloseOpportunity(updated, x.at))
        \/ Applied("bar", x.at, updated)
    BY <2>1
  <2>3. DOMAIN updated = OpportunityFields /\ updated.peak = opp.peak /\ updated.cps = opp.cps
    BY <1>1 DEF Earned, Shaped, OpportunityFields
  <2> HIDE DEF updated
  <2>4. Earned(updated)
    BY <1>1, <2>3, SameCheckpointsEarned
  <2> QED  BY <2>2, <2>4, CloseOpportunityEarned, AppliedEarned
<1>5. ASSUME IngestReferenceBar  PROVE  LifecycleInv'
  <2>1. PICK x \in Inputs("refbar") :
          Applied("refbar", x.at, [opp EXCEPT !.updated = Larger(@, x.at), !.lastBar = x.at])
    BY <1>5 DEF IngestReferenceBar
  <2> DEFINE updated == [opp EXCEPT !.updated = Larger(@, x.at), !.lastBar = x.at]
  <2>2. Applied("refbar", x.at, updated)
    BY <2>1
  <2>3. DOMAIN updated = OpportunityFields /\ updated.peak = opp.peak /\ updated.cps = opp.cps
    BY <1>1 DEF Earned, Shaped, OpportunityFields
  <2> HIDE DEF updated
  <2>4. Earned(updated)
    BY <1>1, <2>3, SameCheckpointsEarned
  <2> QED  BY <2>2, <2>4, AppliedEarned
<1>6. ASSUME Reconcile  PROVE  LifecycleInv'
  <2>1. \/ Applied("reconcile", now, CloseOpportunity(opp, now))
        \/ Applied("reconcile", now, Expired(opp, now))
    BY <1>6 DEF Reconcile
  <2> QED  BY <1>1, <2>1, CloseOpportunityEarned, ExpiredEarned, AppliedEarned
<1> QED  BY <1>2, <1>3, <1>4, <1>5, <1>6

LEMMA AnalysisEarned ==
  ASSUME LifecycleInv, IngestAnalysis
  PROVE  LifecycleInv'
<1>1. PICK x \in Inputs("analysis"),
           current \in UNION {AnalysisPrices(opp, AnalysisOf(y)) : y \in Inputs("analysis")},
           price \in UNION {MarkPrices(opp, AnalysisOf(y), now) : y \in Inputs("analysis")} :
        LET i == x.in
            a == AnalysisOf(x)
            updated == [opp EXCEPT !.analyses[i.hz] = a, !.updated = now, !.price = current]
            retested == IF i.hz = "INTRADAY" THEN RecordRetest(updated, i.touch, x.at, now)
                        ELSE updated
        IN  \/ /\ ReclaimConfirmed(retested, i.view, x.at, current)
               /\ AppliedAt("analysis", x.at, Advance(retested, ReclaimEntry), price, {})
            \/ AppliedAt("analysis", x.at, ApplyInvalidation(opp, retested, i.hz, a, now, price), price, {})
  BY DEF IngestAnalysis
<1> DEFINE i == x.in
           a == AnalysisOf(x)
           updated == [opp EXCEPT !.analyses[i.hz] = a, !.updated = now, !.price = current]
           retested == IF i.hz = "INTRADAY" THEN RecordRetest(updated, i.touch, x.at, now)
                       ELSE updated
<1>2. x.at \in Nat /\ x.at <= now /\ now \in Nat /\ Earned(opp)
  BY InputTimes DEF LifecycleInv
<1>3. Earned(updated)
  <2>1. DOMAIN updated = OpportunityFields /\ updated.peak = opp.peak /\ updated.cps = opp.cps
    BY <1>2 DEF Earned, Shaped, OpportunityFields
  <2> HIDE DEF updated
  <2> QED  BY <1>2, <2>1, SameCheckpointsEarned
<1> HIDE DEF updated
<1>4. Earned(retested)
  <2>1. x.at \in Int /\ now \in Int /\ now # None
    BY <1>2 DEF None
  <2> QED  BY <1>2, <1>3, <2>1, RecordRetestEarned
<1>5. \/ /\ ReclaimConfirmed(retested, i.view, x.at, current)
         /\ AppliedAt("analysis", x.at, Advance(retested, ReclaimEntry), price, {})
      \/ AppliedAt("analysis", x.at, ApplyInvalidation(opp, retested, i.hz, a, now, price), price, {})
  BY <1>1 DEF updated
<1> HIDE DEF retested
<1>6. CASE /\ ReclaimConfirmed(retested, i.view, x.at, current)
           /\ AppliedAt("analysis", x.at, Advance(retested, ReclaimEntry), price, {})
  <2>1. ReclaimEntry.level = L4 /\ ReclaimEntry.at = now
    BY DEF ReclaimEntry, CoreEntry
  <2>2. PICK c \in Anchors(retested) : c.retested # None /\ c.retested < x.at
    BY <1>6 DEF ReclaimConfirmed
  <2>3. \A b \in Anchors(retested) :
          /\ b.retested > b.reached /\ b.retested = c.retested /\ b.retested \in Int
    BY <1>4, <2>2 DEF Earned, Anchored, Levelled, Anchors
  <2>4. MayConfirm(retested, ReclaimEntry)
    BY <1>2, <2>1, <2>2, <2>3 DEF MayConfirm
  <2>5. ReclaimEntry.level \in ARMED..L4 /\ ReclaimEntry.at \in Int
    BY <1>2, <2>1 DEF ARMED, L4
  <2>6. Earned(Advance(retested, ReclaimEntry))
    BY <1>4, <2>4, <2>5, AdvanceEarned
  <2> QED  BY <1>6, <2>6, AppliedAtEarned
<1>7. CASE AppliedAt("analysis", x.at, ApplyInvalidation(opp, retested, i.hz, a, now, price), price, {})
  <2>1. Earned(ApplyInvalidation(opp, retested, i.hz, a, now, price))
    BY <1>4, ApplyInvalidationEarned
  <2> QED  BY <1>7, <2>1, AppliedAtEarned
<1> QED  BY <1>5, <1>6, <1>7

LEMMA BarEarned ==
  ASSUME LifecycleInv, IngestBar
  PROVE  LifecycleInv'
<1>1. PICK x \in Inputs("bar"), protected \in UNION {ProtectiveExits(y.at) : y \in Inputs("bar")} :
        LET applied == BarApplied(opp, x.in.price, x.in.touch, x.at, protected)
        IN  \/ AppliedAt("bar", x.at, Revisited(applied, x.in.price, x.at), x.in.price, protected)
            \/ AppliedAt("bar", x.at, applied, x.in.price, protected)
  BY DEF IngestBar
<1> DEFINE applied == BarApplied(opp, x.in.price, x.in.touch, x.at, protected)
<1>2. \/ AppliedAt("bar", x.at, Revisited(applied, x.in.price, x.at), x.in.price, protected)
      \/ AppliedAt("bar", x.at, applied, x.in.price, protected)
  BY <1>1
<1>3. x.at \in Int /\ x.at # None /\ Earned(opp)
  BY InputTimes DEF LifecycleInv, None
<1>4. Earned(applied)
  BY <1>3, BarAppliedEarned
<1> HIDE DEF applied
<1>5. Earned(Revisited(applied, x.in.price, x.at))
  BY <1>4, RevisitedEarned
<1> QED  BY <1>2, <1>4, <1>5, AppliedAtEarned

(* Every reachable aggregate satisfies the invariant.                      *)
THEOREM LifecycleInvariant == Spec => []LifecycleInv
<1>1. Init => LifecycleInv
  <2> SUFFICES ASSUME Init PROVE LifecycleInv
    OBVIOUS
  <2>1. DOMAIN Nothing = OpportunityFields /\ Nothing.peak = ARMED /\ Nothing.cps = {}
    BY NewShape DEF Nothing
  <2>2. Nothing.peak \in ARMED..L4
    BY <2>1 DEF ARMED, L4
  <2>3. Earned(Nothing)
    BY <2>1, <2>2, FreshEarned
  <2> QED  BY <2>3 DEF Init, LifecycleInv
<1>2. LifecycleInv /\ [Next]_vars => LifecycleInv'
  <2> SUFFICES ASSUME LifecycleInv, [Next]_vars PROVE LifecycleInv'
    OBVIOUS
  <2>1. CASE UNCHANGED vars
    BY <2>1 DEF vars, LifecycleInv, Earned, Shaped, Levelled, Anchored, Confirmed, Anchors
  <2> QED  BY <2>1, TransitionEarned, SignalEarned, StrategiesEarned, OtherInputsEarned,
              AnalysisEarned, BarEarned DEF Next
<1> QED  BY <1>1, <1>2, PTL DEF Spec

(* An anchored thesis reaches L4 only after its zone was retested, later   *)
(* than the L2 and before the L4, whatever the order and the delay of      *)
(* transitions, signals, analyses and bars.                                *)
THEOREM LifecycleL4Earned == Spec => []L4Earned
<1>1. LifecycleInv => L4Earned
  BY DEF LifecycleInv, Earned, Confirmed, L4Earned
<1> QED  BY <1>1, LifecycleInvariant, PTL

---------------------------------------------------------------------------
(* Whose entries a step may close.  An operator that spares the entries    *)
(* outside the families and the exceptions it was given leaves those that  *)
(* are open as they are, and with every leg the family it is taken for.    *)
Spares(o, u, fams, cps, legs) ==
  /\ \A l : LegFamily(u, l) = LegFamily(o, l)
  /\ \A c \in o.cps : c.open => c \in u.cps \/ c.fam \in fams \/ c \in cps
  /\ \A l \in o.legs :
       l.status = "OPEN" => l \in u.legs \/ LegFamily(o, l) \in fams \/ l \in legs

(* Steps that spare, one after the other.                                  *)
LEMMA SparesThen ==
  ASSUME NEW o, NEW u, NEW v, NEW fams, NEW more, NEW cps, NEW legs,
         Spares(o, u, more, cps, legs), Spares(u, v, fams, cps, legs), more \subseteq fams
  PROVE  Spares(o, v, fams, cps, legs)
BY DEF Spares

LEMMA SparesItself ==
  ASSUME NEW o, NEW fams, NEW cps, NEW legs
  PROVE  Spares(o, o, fams, cps, legs)
BY DEF Spares

LEMMA SparesMore ==
  ASSUME NEW o, NEW u, NEW fams, NEW less, NEW cps, NEW legs,
         Spares(o, u, less, {}, {}), less \subseteq fams
  PROVE  Spares(o, u, fams, cps, legs)
BY DEF Spares

(* Closing checkpoints does not change whose legs are whose.               *)
SameOwners(o, u) ==
  /\ u.primary = o.primary /\ u.refs = o.refs
  /\ {<<c.fam, c.setup>> : c \in u.cps} = {<<c.fam, c.setup>> : c \in o.cps}

LEMMA OwnersDecide ==
  ASSUME NEW o, NEW u, SameOwners(o, u), NEW l
  PROVE  LegFamily(u, l) = LegFamily(o, l)
<1> DEFINE entries(x) == {c.fam : c \in {c \in x.cps : c.setup = l.setup}}
           referred(x) == {r.fam : r \in {r \in x.refs : r.setup = l.setup}}
           named(x) == entries(x) \union referred(x)
<1>1. ASSUME NEW x, NEW y, SameOwners(x, y), NEW f \in entries(x)
      PROVE  f \in entries(y)
  <2>1. PICK c \in x.cps : c.setup = l.setup /\ f = c.fam
    OBVIOUS
  <2>2. <<c.fam, c.setup>> \in {<<d.fam, d.setup>> : d \in y.cps}
    BY <1>1, <2>1 DEF SameOwners
  <2>3. PICK d \in y.cps : <<c.fam, c.setup>> = <<d.fam, d.setup>>
    BY <2>2
  <2>4. d.fam = f /\ d.setup = l.setup
    BY <2>1, <2>3
  <2> QED  BY <2>4
<1>2. SameOwners(u, o)
  BY DEF SameOwners
<1> HIDE DEF entries
<1>3. entries(u) = entries(o)
  BY <1>1, <1>2
<1>4. referred(u) = referred(o) /\ u.primary = o.primary
  BY DEF SameOwners
<1>5. \A x : LegFamily(x, l) = IF l.fam # "none" THEN l.fam
                            ELSE IF l.setup = "none" THEN x.primary
                            ELSE IF Cardinality(named(x)) = 1 THEN CHOOSE f \in named(x) : TRUE
                            ELSE "none"
  BY Zenon DEF LegFamily, entries
<1> HIDE DEF referred
<1>6. named(u) = named(o)
  BY <1>3, <1>4
<1> HIDE DEF named
<1> QED  BY <1>4, <1>5, <1>6

LEMMA ClosingKeepsOwners ==
  ASSUME NEW o, NEW u, Shaped(o), u.primary = o.primary, u.refs = o.refs,
         \A c \in u.cps : \E d \in o.cps : c = d \/ c = CloseCheckpoint(d),
         \A d \in o.cps : d \in u.cps \/ CloseCheckpoint(d) \in u.cps
  PROVE  SameOwners(o, u)
<1>1. \A d \in o.cps : CloseCheckpoint(d).fam = d.fam /\ CloseCheckpoint(d).setup = d.setup
  BY DEF Shaped, CloseCheckpoint, CheckpointFields
<1>2. ASSUME NEW c \in u.cps
      PROVE  <<c.fam, c.setup>> \in {<<d.fam, d.setup>> : d \in o.cps}
  BY <1>1
<1>3. ASSUME NEW d \in o.cps
      PROVE  <<d.fam, d.setup>> \in {<<c.fam, c.setup>> : c \in u.cps}
  BY <1>1
<1>4. \A p : p \in {<<c.fam, c.setup>> : c \in u.cps} <=> p \in {<<c.fam, c.setup>> : c \in o.cps}
  BY <1>2, <1>3
<1> QED  BY <1>4 DEF SameOwners


(* An aggregate that is closed when nothing of it is open any more.        *)
LEMMA ClosedWhenDoneSpares ==
  ASSUME NEW o, NEW at, Shaped(o)
  PROVE  Spares(o, ClosedWhenDone(o, at), {}, {}, {})
<1>1. CASE AnythingOpen(o)
  BY <1>1, SparesItself DEF ClosedWhenDone
<1>2. CASE ~AnythingOpen(o)
  <2> DEFINE u == CloseOpportunity(o, at)
  <2>1. ClosedWhenDone(o, at) = u
    BY <1>2 DEF ClosedWhenDone
  <2>2. /\ u.primary = o.primary /\ u.refs = o.refs
        /\ u.cps = {CloseCheckpoint(c) : c \in o.cps}
    BY DEF CloseOpportunity, Shaped, OpportunityFields
  <2> HIDE DEF u
  <2>3. SameOwners(o, u)
    BY <2>2, ClosingKeepsOwners
  <2>4. (\A c \in o.cps : ~c.open) /\ (\A l \in o.legs : l.status # "OPEN")
    BY <1>2 DEF AnythingOpen
  <2>5. Spares(o, u, {}, {}, {})
    BY <2>3, <2>4, OwnersDecide DEF Spares
  <2> QED  BY <2>1, <2>5
<1> QED  BY <1>1, <1>2

(* _close_core_entries closes entries of its families only.                *)
LEMMA CloseCoreEntriesSpares ==
  ASSUME NEW o, NEW fams, NEW hz, NEW ev, NEW at, NEW breach, Earned(o)
  PROVE  Spares(o, CloseCoreEntries(o, fams, hz, ev, at, breach), fams, {}, {})
<1> DEFINE legs == LegsLeft(o, fams, hz, ev, breach)
           cps == CheckpointsLeft(o, fams, hz, ev, breach)
           updated == [o EXCEPT !.legs = legs, !.cps = cps, !.updated = Larger(@, at)]
           closed == ClosedWhenDone(updated, at)
           u == FollowCheckpoints(o, closed)
<1>1. CloseCoreEntries(o, fams, hz, ev, at, breach) = IF legs = o.legs /\ cps = o.cps THEN o ELSE u
  BY DEF CloseCoreEntries
<1>2. /\ \A c \in cps : \E d \in o.cps : c = d \/ c = CloseCheckpoint(d)
      /\ \A d \in o.cps : d \in cps \/ CloseCheckpoint(d) \in cps
      /\ \A d \in o.cps : d.fam \notin fams => d \in cps
  BY DEF CheckpointsLeft, OwnedCheckpoint
<1>3. \A l \in o.legs : LegFamily(o, l) \notin fams => l \in legs
  BY DEF LegsLeft, OwnedLeg
<1> HIDE DEF legs, cps
<1>4. /\ DOMAIN updated = OpportunityFields /\ updated.peak = o.peak
      /\ updated.cps = cps /\ updated.legs = legs
      /\ updated.primary = o.primary /\ updated.refs = o.refs
  BY DEF Earned, Shaped, OpportunityFields
<1> HIDE DEF updated
<1>5. Earned(updated)
  BY <1>2, <1>4, ClosingDescends
<1>6. Spares(o, updated, fams, {}, {})
  <2>1. SameOwners(o, updated)
    BY <1>2, <1>4, ClosingKeepsOwners DEF Earned
  <2> QED  BY <1>2, <1>3, <1>4, <2>1, OwnersDecide DEF Spares
<1>7. Spares(updated, closed, {}, {}, {}) /\ Earned(closed)
  BY <1>5, ClosedWhenDoneSpares, ClosedWhenDoneEarned DEF Earned
<1> HIDE DEF closed
<1>8. Spares(o, closed, fams, {}, {})
  BY <1>6, <1>7 DEF Spares
<1>9. /\ u.primary = closed.primary /\ u.refs = closed.refs /\ u.cps = closed.cps
      /\ u.legs = {IF l.status = "OPEN"
                      /\ (\E c \in {c \in o.cps : c.open /\ c \notin closed.cps} : SameEntry(closed, c, l))
                   THEN CloseLeg(l) ELSE l : l \in closed.legs}
  BY <1>7 DEF FollowCheckpoints, Earned, Shaped, OpportunityFields
<1> HIDE DEF u
<1>10. \A l \in closed.legs : LegFamily(closed, l) \notin fams => l \in u.legs
  BY <1>8, <1>9 DEF Spares, SameEntry
<1>11. \A l : LegFamily(u, l) = LegFamily(closed, l)
  BY <1>9, OwnersDecide DEF SameOwners
<1>12. Spares(o, u, fams, {}, {})
  BY <1>8, <1>9, <1>10, <1>11 DEF Spares
<1> QED  BY <1>1, <1>12, SparesItself

(* An invalidation closes Core entries only.                               *)
LEMMA ApplyInvalidationSpares ==
  ASSUME NEW o, NEW u, NEW hz, NEW a, NEW t, NEW price, Earned(u)
  PROVE  Spares(u, ApplyInvalidation(o, u, hz, a, t, price), Core, {}, {})
<1> DEFINE mark == MarkAt(o, a.at, t)
           bearish == a.view = "bearish"
           longFailure == hz = "LONG" /\ a.view \in {"bearish", "avoid"}
           scope == IF longFailure THEN "all" ELSE hz
           stopped == CloseCoreEntries(u, Core, "all", mark, t, price)
           core == CloseCoreEntries(stopped, {"CORE_ENTRY"}, scope, a.at, t, None)
           failed == IF longFailure \/ bearish THEN core ELSE stopped
           rest == CloseCoreEntries(failed, {"CORE_RECOVERY"}, "all", a.at, t, None)
<1>1. ApplyInvalidation(o, u, hz, a, t, price) =
        IF mark = None \/ a.at > t THEN u ELSE IF bearish /\ hz = "SWING" THEN rest ELSE failed
  BY DEF ApplyInvalidation
<1>2. {"CORE_ENTRY"} \subseteq Core /\ {"CORE_RECOVERY"} \subseteq Core
  BY DEF Core
<1>3. Earned(stopped) /\ Spares(u, stopped, Core, {}, {})
  BY CloseCoreEntriesEarned, CloseCoreEntriesSpares
<1> HIDE DEF stopped
<1>4. Earned(core) /\ Spares(stopped, core, Core, {}, {})
  BY <1>2, <1>3, CloseCoreEntriesEarned, CloseCoreEntriesSpares, SparesMore
<1> HIDE DEF core
<1>5. Earned(failed) /\ Spares(u, failed, Core, {}, {})
  BY <1>3, <1>4, SparesThen
<1> HIDE DEF failed
<1>6. Spares(failed, rest, Core, {}, {})
  BY <1>2, <1>5, CloseCoreEntriesSpares, SparesMore
<1> HIDE DEF rest
<1>7. Spares(u, rest, Core, {}, {})
  BY <1>5, <1>6, SparesThen
<1> QED  BY <1>1, <1>5, <1>7, SparesItself

(* _advance opens entries and relabels legs of its own family.             *)
LEMMA AdvanceSpares ==
  ASSUME NEW o, NEW e, Shaped(o)
  PROVE  /\ o.cps \subseteq Advance(o, e).cps
         /\ \A l \in o.legs : LegFamily(o, l) # e.fam => l \in Advance(o, e).legs
<1> DEFINE u == Advance(o, e)
           n == NewCheckpoint(e.fam, e.setup, e.level, None, e.at, e.stop, e.target, e.level = L2)
<1>1. /\ u.cps = o.cps \/ u.cps = o.cps \union {n}
      /\ u.legs = o.legs \/ u.legs = OpenEntryHorizons(o, e)
  BY DEF Advance, Shaped, OpportunityFields
<1>2. \A l \in o.legs : LegFamily(o, l) # e.fam => l \in OpenEntryHorizons(o, e)
  BY DEF OpenEntryHorizons
<1> HIDE DEF u, n
<1>3. /\ o.cps \subseteq u.cps
      /\ \A l \in o.legs : LegFamily(o, l) # e.fam => l \in u.legs
  BY <1>1, <1>2
<1> QED  BY <1>3 DEF u

(* A retest is written down in a CORE_ENTRY checkpoint.                    *)
LEMMA RecordRetestSpares ==
  ASSUME NEW o, NEW touched, NEW when, NEW at, Shaped(o)
  PROVE  Spares(o, RecordRetest(o, touched, when, at), {"CORE_ENTRY"}, {}, {})
<1> DEFINE u == Retested(o, at)
           mark(c) == IF c \in Anchors(o) THEN [c EXCEPT !.retested = at] ELSE c
<1>1. /\ u.primary = o.primary /\ u.refs = o.refs /\ u.legs = o.legs
      /\ u.cps = {mark(c) : c \in o.cps}
  BY DEF Retested, Shaped, OpportunityFields
<1>2. \A c \in o.cps : mark(c).fam = c.fam /\ mark(c).setup = c.setup
  BY DEF Shaped, CheckpointFields
<1>3. \A c \in o.cps : mark(c) = c \/ c.fam = "CORE_ENTRY"
  BY DEF Anchors
<1> HIDE DEF u, mark
<1>4. SameOwners(o, u)
  <2>1. ASSUME NEW c \in o.cps
        PROVE  <<c.fam, c.setup>> = <<mark(c).fam, mark(c).setup>> /\ mark(c) \in u.cps
    BY <1>1, <1>2
  <2>2. ASSUME NEW d \in u.cps
        PROVE  \E c \in o.cps : <<c.fam, c.setup>> = <<d.fam, d.setup>>
    BY <1>1, <1>2
  <2>3. \A p : p \in {<<c.fam, c.setup>> : c \in u.cps} <=> p \in {<<c.fam, c.setup>> : c \in o.cps}
    BY <2>1, <2>2
  <2> QED  BY <1>1, <2>3 DEF SameOwners
<1>5. Spares(o, u, {"CORE_ENTRY"}, {}, {})
  BY <1>1, <1>3, <1>4, OwnersDecide DEF Spares
<1> QED  BY <1>5, SparesItself DEF RecordRetest, u

(* Closing the whole aggregate takes what is open of it.                   *)
LEMMA CloseOpportunitySpares ==
  ASSUME NEW o, NEW at, Shaped(o), CanClose(o)
  PROVE  Spares(o, CloseOpportunity(o, at), {"CORE_ENTRY"}, {}, {})
<1> DEFINE u == CloseOpportunity(o, at)
<1>1. /\ u.primary = o.primary /\ u.refs = o.refs
      /\ u.cps = {CloseCheckpoint(c) : c \in o.cps}
  BY DEF CloseOpportunity, Shaped, OpportunityFields
<1> HIDE DEF u
<1>2. SameOwners(o, u)
  BY <1>1, ClosingKeepsOwners
<1>3. /\ \A c \in o.cps : c.open => c.fam = "CORE_ENTRY"
      /\ \A l \in o.legs : l.status = "OPEN" => LegFamily(o, l) = "CORE_ENTRY"
  BY DEF CanClose
<1>4. Spares(o, u, {"CORE_ENTRY"}, {}, {})
  BY <1>2, <1>3, OwnersDecide DEF Spares
<1> QED  BY <1>4 DEF u

(* What a bar reaches by itself.                                           *)
ReachedEntries(o, p, protected) == {c \in o.cps : Touches(p, c) \/ c \in protected}
ReachedLegs(o, p, t, protected) ==
  {l \in o.legs : \/ Touches(p, l)
                  \/ l.hz = "INTRADAY" /\ t \in SessionEnds
                  \/ \E c \in protected : SameEntry(o, c, l)}

LEMMA MarkedSpares ==
  ASSUME NEW o, NEW p, NEW t, NEW protected, Shaped(o)
  PROVE  Spares(o, Marked(o, p, t, protected), {}, ReachedEntries(o, p, protected),
                ReachedLegs(o, p, t, protected))
<1> DEFINE u == Marked(o, p, t, protected)
           leaves(l) == \/ t > l.opened /\ Touches(p, l)
                        \/ \E c \in protected : SameEntry(o, c, l)
           out(c) == c.open /\ ((t > c.reached /\ Touches(p, c)) \/ c \in protected)
<1>1. /\ u.primary = o.primary /\ u.refs = o.refs
      /\ u.cps = {IF out(c) THEN CloseCheckpoint(c) ELSE c : c \in o.cps}
      /\ u.legs = {IF l.status = "OPEN" /\ leaves(l) THEN CloseLeg(l) ELSE l : l \in o.legs}
  BY DEF Marked, Shaped, OpportunityFields
<1>2. /\ \A c \in o.cps : out(c) => c \in ReachedEntries(o, p, protected)
      /\ \A l \in o.legs : leaves(l) => l \in ReachedLegs(o, p, t, protected)
  BY DEF ReachedEntries, ReachedLegs
<1> HIDE DEF u, leaves, out
<1>3. SameOwners(o, u)
  BY <1>1, ClosingKeepsOwners
<1>4. Spares(o, u, {}, ReachedEntries(o, p, protected), ReachedLegs(o, p, t, protected))
  BY <1>1, <1>2, <1>3, OwnersDecide DEF Spares
<1> QED  BY <1>4 DEF u

(* A bar takes what it reaches, and of the rest CORE_ENTRY only.           *)
LEMMA BarAppliedSpares ==
  ASSUME NEW o, NEW p, NEW touch, NEW t \in Int, NEW protected, t # None, Earned(o)
  PROVE  Spares(o, BarApplied(o, p, touch, t, protected), {"CORE_ENTRY"},
                ReachedEntries(o, p, protected), ReachedLegs(o, p, t, protected))
<1> DEFINE low == Lower(p, EntryPrice)
           near == touch /\ \A c \in Anchors(o) : low > c.stop
           first == Marked(o, p, t, protected)
           marked == RecordRetest(first, near, t, t)
           session == SessionClosed(marked, t)
           updated == [session EXCEPT !.updated = Larger(@, t), !.lastBar = t, !.price = p]
           stamped == [marked EXCEPT !.lastBar = t, !.price = p]
           X == ReachedEntries(o, p, protected)
           Y == ReachedLegs(o, p, t, protected)
           F == {"CORE_ENTRY"}
<1>1. BarApplied(o, p, touch, t, protected) =
        IF low <= o.inval /\ CanClose(marked) THEN CloseOpportunity(stamped, t)
        ELSE IF AllOpenedTerminal(updated) /\ CanClose(updated) THEN CloseOpportunity(updated, t)
        ELSE updated
  BY DEF BarApplied
<1>2. Earned(first) /\ Spares(o, first, {}, X, Y)
  BY MarkedEarned, MarkedSpares DEF Earned
<1> HIDE DEF X, Y, first
<1>3. Earned(marked) /\ Spares(first, marked, F, {}, {})
  BY <1>2, RecordRetestEarned, RecordRetestSpares DEF Earned
<1> HIDE DEF marked
<1>4. Spares(o, marked, F, X, Y)
  BY <1>2, <1>3, SparesMore, SparesThen
<1>5. /\ DOMAIN stamped = OpportunityFields /\ stamped.cps = marked.cps /\ stamped.legs = marked.legs
      /\ stamped.primary = marked.primary /\ stamped.refs = marked.refs
  BY <1>3 DEF Earned, Shaped, OpportunityFields
<1>6. /\ DOMAIN session = OpportunityFields /\ session.cps = marked.cps
      /\ session.primary = marked.primary /\ session.refs = marked.refs
      /\ session.legs = {IF t \in SessionEnds /\ l.hz = "INTRADAY" /\ l.status = "OPEN"
                         THEN CloseLeg(l) ELSE l : l \in marked.legs}
  BY <1>3 DEF SessionClosed, Earned, Shaped, OpportunityFields
<1> HIDE DEF session, stamped
<1>7. /\ DOMAIN updated = OpportunityFields /\ updated.cps = marked.cps
      /\ updated.legs = session.legs
      /\ updated.primary = marked.primary /\ updated.refs = marked.refs
  BY <1>6 DEF OpportunityFields
<1> HIDE DEF updated
<1>8. Shaped(stamped) /\ Shaped(updated)
  BY <1>3, <1>5, <1>7 DEF Earned, Shaped
<1>9. \A l : LegFamily(stamped, l) = LegFamily(marked, l) /\ LegFamily(updated, l) = LegFamily(marked, l)
  BY <1>5, <1>7, OwnersDecide DEF SameOwners
<1>10. Spares(o, stamped, F, X, Y) /\ (CanClose(marked) => CanClose(stamped))
  BY <1>4, <1>5, <1>9 DEF Spares, CanClose
<1>11. Spares(o, updated, F, X, Y)
  <2>1. \A l \in o.legs : l.hz = "INTRADAY" /\ t \in SessionEnds => l \in Y
    BY DEF Y, ReachedLegs
  <2>2. \A l \in marked.legs : l \in updated.legs \/ (l.hz = "INTRADAY" /\ t \in SessionEnds)
    BY <1>6, <1>7
  <2> QED  BY <1>4, <1>7, <1>9, <2>1, <2>2 DEF Spares
<1>12. /\ CanClose(stamped) => Spares(o, CloseOpportunity(stamped, t), F, X, Y)
       /\ CanClose(updated) => Spares(o, CloseOpportunity(updated, t), F, X, Y)
  BY <1>8, <1>10, <1>11, CloseOpportunitySpares, SparesMore, SparesThen
<1>13. Spares(o, BarApplied(o, p, touch, t, protected), F, X, Y)
  BY <1>1, <1>10, <1>11, <1>12
<1> QED  BY <1>13 DEF X, Y

LEMMA RevisitedSpares ==
  ASSUME NEW o, NEW p, NEW t, Earned(o)
  PROVE  Spares(o, Revisited(o, p, t), Core, {}, {})
<1> DEFINE again(u, h) == IF u.analyses[h].view = "none" THEN u
                          ELSE ApplyInvalidation(u, u, h, u.analyses[h], t, BarMark(u, p, t))
           once == again(o, "LONG")
           twice == again(once, "SWING")
<1>1. Revisited(o, p, t) = again(again(again(o, "LONG"), "SWING"), "INTRADAY")
  BY DEF Revisited
<1>2. ASSUME NEW u, NEW h, Earned(u)
      PROVE  Earned(again(u, h)) /\ Spares(u, again(u, h), Core, {}, {})
  BY <1>2, ApplyInvalidationEarned, ApplyInvalidationSpares, SparesItself
<1> HIDE DEF again
<1>3. Earned(once) /\ Spares(o, once, Core, {}, {})
  BY <1>2
<1> HIDE DEF once
<1>4. Earned(twice) /\ Spares(o, twice, Core, {}, {})
  BY <1>2, <1>3, SparesThen
<1> HIDE DEF twice
<1>5. Spares(o, again(twice, "INTRADAY"), Core, {}, {})
  BY <1>2, <1>4, SparesThen
<1> QED  BY <1>1, <1>5 DEF once, twice

(* What OwnEvidenceOnly asks of a step.                                    *)
OwnEvidence ==
  /\ IsActive /\ last'.kind = "watch" =>
       /\ OpenEntries(opp, {"CORE_ENTRY"}) \subseteq opp'.cps
       /\ OpenLegs(opp, {"CORE_ENTRY"}) \subseteq opp'.legs
  /\ IsActive /\ last'.kind = "analysis" =>
       /\ OpenEntries(opp, Core) \subseteq opp'.cps
       /\ OpenLegs(opp, Core) \subseteq opp'.legs
  /\ IsLong /\ last'.kind = "bar" =>
       /\ \A c \in OpenEntries(opp, Core) :
            c \in opp'.cps \/ Touches(last'.price, c) \/ c \in last'.exits
       /\ \A l \in OpenLegs(opp, Core) :
            \/ l \in opp'.legs \/ Touches(last'.price, l)
            \/ l.hz = "INTRADAY" /\ last'.at \in SessionEnds
            \/ \E c \in last'.exits : SameEntry(opp, c, l)

LEMMA TransitionOwn ==
  ASSUME LifecycleInv, IngestTransition
  PROVE  OwnEvidence
<1>1. Earned(opp) /\ Shaped(opp)
  BY DEF LifecycleInv, Earned
<1>2. last'.kind = "watch"
  BY DEF IngestTransition, Applied
<1> SUFFICES ASSUME IsActive
             PROVE  /\ OpenEntries(opp, {"CORE_ENTRY"}) \subseteq opp'.cps
                    /\ OpenLegs(opp, {"CORE_ENTRY"}) \subseteq opp'.legs
  BY <1>2 DEF OwnEvidence
<1>3. PICK x \in Inputs("watch") :
        LET e == WatchEntry(x.in, x.at, TransitionLevel(x.in.status), opp.inval)
            ended == CloseCoreEntries(opp, {"CORE_ENTRY"}, "all", x.at, x.at, None)
        IN  \/ opp' = [ended EXCEPT !.cursor = x.at]
            \/ opp' = [Advance(opp, e) EXCEPT !.cursor = x.at]
  BY DEF IngestTransition, Applied
<1> DEFINE e == WatchEntry(x.in, x.at, TransitionLevel(x.in.status), opp.inval)
           ended == CloseCoreEntries(opp, {"CORE_ENTRY"}, "all", x.at, x.at, None)
           joined == Advance(opp, e)
<1>4. CASE opp' = [ended EXCEPT !.cursor = x.at]
  <2>1. Spares(opp, ended, {"CORE_ENTRY"}, {}, {}) /\ Shaped(ended)
    BY <1>1, CloseCoreEntriesSpares, CloseCoreEntriesEarned DEF Earned
  <2> HIDE DEF ended
  <2>2. opp'.cps = ended.cps /\ opp'.legs = ended.legs
    BY <1>4, <2>1 DEF Shaped, OpportunityFields
  <2> QED  BY <2>1, <2>2 DEF Spares, OpenEntries, OpenLegs
<1>5. CASE opp' = [joined EXCEPT !.cursor = x.at]
  <2>1. e.fam = "CORE_ENTRY"
    BY DEF WatchEntry, CoreEntry
  <2>2. DOMAIN joined = OpportunityFields
    BY <1>1 DEF Advance, Shaped, OpportunityFields
  <2> HIDE DEF e
  <2>3. /\ opp.cps \subseteq joined.cps
        /\ \A l \in opp.legs : LegFamily(opp, l) # "CORE_ENTRY" => l \in joined.legs
    BY <1>1, <2>1, AdvanceSpares
  <2> HIDE DEF joined
  <2>4. opp'.cps = joined.cps /\ opp'.legs = joined.legs
    BY <1>5, <2>2 DEF OpportunityFields
  <2> QED  BY <2>3, <2>4 DEF OpenEntries, OpenLegs
<1> QED  BY <1>3, <1>4, <1>5

LEMMA AnalysisOwn ==
  ASSUME LifecycleInv, IngestAnalysis
  PROVE  OwnEvidence
<1>1. last'.kind = "analysis"
  BY DEF IngestAnalysis, AppliedAt
<1> SUFFICES /\ OpenEntries(opp, Core) \subseteq opp'.cps
             /\ OpenLegs(opp, Core) \subseteq opp'.legs
  BY <1>1 DEF OwnEvidence
<1>2. PICK x \in Inputs("analysis"),
           current \in UNION {AnalysisPrices(opp, AnalysisOf(y)) : y \in Inputs("analysis")},
           price \in UNION {MarkPrices(opp, AnalysisOf(y), now) : y \in Inputs("analysis")} :
        LET i == x.in
            a == AnalysisOf(x)
            updated == [opp EXCEPT !.analyses[i.hz] = a, !.updated = now, !.price = current]
            retested == IF i.hz = "INTRADAY" THEN RecordRetest(updated, i.touch, x.at, now)
                        ELSE updated
        IN  \/ opp' = Advance(retested, ReclaimEntry)
            \/ opp' = ApplyInvalidation(opp, retested, i.hz, a, now, price)
  BY DEF IngestAnalysis, AppliedAt
<1> DEFINE i == x.in
           a == AnalysisOf(x)
           updated == [opp EXCEPT !.analyses[i.hz] = a, !.updated = now, !.price = current]
           retested == IF i.hz = "INTRADAY" THEN RecordRetest(updated, i.touch, x.at, now)
                       ELSE updated
<1>3. \/ opp' = Advance(retested, ReclaimEntry)
      \/ opp' = ApplyInvalidation(opp, retested, i.hz, a, now, price)
  BY <1>2
<1>4. x.at \in Int /\ x.at <= now /\ now \in Int /\ now # None /\ Earned(opp)
  BY InputTimes DEF LifecycleInv, None
<1>5. /\ DOMAIN updated = OpportunityFields /\ updated.peak = opp.peak /\ updated.cps = opp.cps
      /\ updated.legs = opp.legs /\ updated.primary = opp.primary /\ updated.refs = opp.refs
  BY <1>4 DEF Earned, Shaped, OpportunityFields
<1> HIDE DEF updated
<1>6. Earned(updated) /\ Spares(opp, updated, Core, {}, {})
  <2>1. SameOwners(opp, updated)
    BY <1>5 DEF SameOwners
  <2> QED  BY <1>4, <1>5, <2>1, SameCheckpointsEarned, OwnersDecide DEF Spares
<1>7. Earned(retested) /\ Spares(updated, retested, Core, {}, {})
  <2>1. {"CORE_ENTRY"} \subseteq Core
    BY DEF Core
  <2> QED  BY <1>4, <1>6, <2>1, RecordRetestEarned, RecordRetestSpares, SparesItself, SparesMore
              DEF Earned
<1> HIDE DEF retested
<1>8. Spares(opp, retested, Core, {}, {})
  BY <1>6, <1>7, SparesThen
<1>9. CASE opp' = Advance(retested, ReclaimEntry)
  <2>1. ReclaimEntry.fam = "CORE_ENTRY" /\ "CORE_ENTRY" \in Core
    BY DEF ReclaimEntry, CoreEntry, Core
  <2>2. /\ retested.cps \subseteq opp'.cps
        /\ \A l \in retested.legs : LegFamily(retested, l) \notin Core => l \in opp'.legs
    BY <1>7, <1>9, <2>1, AdvanceSpares DEF Earned
  <2> QED  BY <1>8, <2>2 DEF Spares, OpenEntries, OpenLegs
<1>10. CASE opp' = ApplyInvalidation(opp, retested, i.hz, a, now, price)
  <2>1. Spares(retested, opp', Core, {}, {})
    BY <1>7, <1>10, ApplyInvalidationSpares
  <2>2. Spares(opp, opp', Core, {}, {})
    BY <1>8, <2>1, SparesThen
  <2> QED  BY <2>2 DEF Spares, OpenEntries, OpenLegs
<1> QED  BY <1>3, <1>9, <1>10

LEMMA BarOwn ==
  ASSUME LifecycleInv, IngestBar
  PROVE  OwnEvidence
<1>1. PICK x \in Inputs("bar"), protected \in UNION {ProtectiveExits(y.at) : y \in Inputs("bar")} :
        LET applied == BarApplied(opp, x.in.price, x.in.touch, x.at, protected)
        IN  \/ AppliedAt("bar", x.at, Revisited(applied, x.in.price, x.at), x.in.price, protected)
            \/ AppliedAt("bar", x.at, applied, x.in.price, protected)
  BY DEF IngestBar
<1> DEFINE p == x.in.price
           applied == BarApplied(opp, p, x.in.touch, x.at, protected)
           X == ReachedEntries(opp, p, protected)
           Y == ReachedLegs(opp, p, x.at, protected)
<1>2. /\ opp' = Revisited(applied, p, x.at) \/ opp' = applied
      /\ last' = [kind |-> "bar", at |-> x.at, price |-> p, exits |-> protected]
  BY <1>1 DEF AppliedAt
<1>3. x.at \in Int /\ x.at # None /\ Earned(opp)
  BY InputTimes DEF LifecycleInv, None
<1>4. {"CORE_ENTRY"} \subseteq Core
  BY DEF Core
<1>5. Earned(applied) /\ Spares(opp, applied, {"CORE_ENTRY"}, X, Y)
  BY <1>3, BarAppliedEarned, BarAppliedSpares
<1> HIDE DEF applied
<1>6. Spares(applied, opp', Core, X, Y)
  BY <1>2, <1>5, RevisitedSpares, SparesMore, SparesItself
<1>7. Spares(opp, opp', Core, X, Y)
  BY <1>4, <1>5, <1>6, SparesThen
<1>8. last'.kind = "bar" /\ last'.at = x.at /\ last'.price = p /\ last'.exits = protected
  BY <1>2
<1>9. ASSUME NEW c \in OpenEntries(opp, Core)
      PROVE  c \in opp'.cps \/ Touches(p, c) \/ c \in protected
  BY <1>7 DEF Spares, OpenEntries, ReachedEntries
<1>10. ASSUME NEW l \in OpenLegs(opp, Core)
       PROVE  \/ l \in opp'.legs \/ Touches(p, l)
              \/ l.hz = "INTRADAY" /\ x.at \in SessionEnds
              \/ \E c \in protected : SameEntry(opp, c, l)
  BY <1>7 DEF Spares, OpenLegs, ReachedLegs
<1> QED  BY <1>8, <1>9, <1>10 DEF OwnEvidence

LEMMA AppliedKind ==
  ASSUME NEW kind, NEW at, NEW o, Applied(kind, at, o)
  PROVE  last'.kind = kind
BY DEF Applied

(* The other inputs are no evidence of Core.                               *)
LEMMA OthersOwn ==
  ASSUME \/ IngestSignal \/ IngestLeveragedCancellation \/ IngestSwingTrade \/ IngestCountertrend
         \/ IngestShortAlert \/ IngestShortBar \/ IngestReferenceBar \/ Reconcile
  PROVE  OwnEvidence
<1>1. IngestShortBar => ~IsLong /\ last'.kind = "bar"
  BY AppliedKind, Zenon DEF IngestShortBar
<1>2. /\ IngestSignal => last'.kind = "signal"
      /\ IngestLeveragedCancellation => last'.kind = "cancel"
  BY AppliedKind, Zenon DEF IngestSignal, IngestLeveragedCancellation
<1>3. /\ IngestSwingTrade => last'.kind = "swing"
      /\ IngestCountertrend => last'.kind = "geri"
  BY AppliedKind, Zenon DEF IngestSwingTrade, IngestCountertrend
<1>4. /\ IngestShortAlert => last'.kind = "short"
      /\ IngestReferenceBar => last'.kind = "refbar"
      /\ Reconcile => last'.kind = "reconcile"
  BY AppliedKind, Zenon DEF IngestShortAlert, IngestReferenceBar, Reconcile
<1> QED  BY <1>1, <1>2, <1>3, <1>4 DEF OwnEvidence

(* A watcher's end closes CORE_ENTRY entries only, an analysis those of    *)
(* the Core families, and a bar that ends the original thesis takes no     *)
(* entry of another strategy along that it does not reach itself: for any  *)
(* inputs, in any order and however late.                                  *)
THEOREM LifecycleOwnEvidence == Spec => OwnEvidenceOnly
<1>1. LifecycleInv /\ [Next]_vars => [OwnEvidence]_vars
  BY TransitionOwn, AnalysisOwn, BarOwn, OthersOwn DEF Next
<1>2. OwnEvidenceOnly <=> [][OwnEvidence]_vars
  BY PTL DEF OwnEvidenceOnly, OwnEvidence
<1> QED  BY <1>1, <1>2, LifecycleInvariant, PTL DEF Spec

---------------------------------------------------------------------------
(* Types.  Two choices of a largest element need an argument: the peak a   *)
(* setup keeps, and the deadline an opportunity is left with.              *)

(* A bounded set of numbers has a largest one.                             *)
LEMMA LargestOf ==
  ASSUME NEW n \in Int, NEW S, S # {}, \A k \in S : k \in Int /\ k <= n
  PROVE  \E m \in S : \A k \in S : k <= m
<1> DEFINE gap(k) == n - k
           gaps == {gap(k) : k \in S}
<1>1. \A k \in S : gap(k) \in Nat
  OBVIOUS
<1>2. \A k, m \in S : ~(gap(k) < gap(m)) => k <= m
  OBVIOUS
<1> HIDE DEF gap
<1>3. gaps \subseteq Nat /\ gaps # {}
  BY <1>1
<1>4. PICK x \in gaps : \A y \in gaps : ~(<<y, x>> \in OpToRel(<, Nat))
  BY <1>3, NatLessThanWellFounded, WFMin
<1>5. \A y \in gaps : ~(y < x)
  BY <1>3, <1>4 DEF OpToRel
<1>6. PICK m \in S : x = gap(m)
  BY <1>4
<1>7. \A k \in S : gap(k) \in gaps
  OBVIOUS
<1>8. \A k \in S : k <= m
  BY <1>2, <1>5, <1>6, <1>7
<1> QED  BY <1>6, <1>8

(* No entry expires later.                                                 *)
Furthest == MaxTime + Life["watch"] + Life["LONG"] + Life["SWING"] + Life["INTRADAY"]
            + Life["swing"] + Life["geri"] + Life["short"]

Statuses == {"NONE", "ARMED", "IN_ZONE", "CONFIRMING", "OPEN", "CLOSED"}
LegFields == {"fam", "setup", "hz", "opened", "stop", "target", "expires", "status"}

ReferenceTyped(r) ==
  /\ r.fam \in Families /\ r.at \in Times
  /\ r.fam = "SWING_TRADE" => r.setup \in Scopes
  /\ r.cur \in None..L4 /\ r.peak \in None..L4 /\ r.cur <= r.peak

LegTyped(l) ==
  /\ DOMAIN l = LegFields /\ l = [f \in LegFields |-> l[f]]
  /\ l.fam \in OptionalFamilies /\ l.hz \in HorizonNames
  /\ l.status \in {"WATCHING", "OPEN", "CLOSED"}
  /\ l.status = "WATCHING" <=> l.opened = None
  /\ l.opened \in Times /\ l.expires \in None..Furthest
  /\ l.setup \in Scopes \union {"none"}

CheckpointTyped(c) ==
  /\ DOMAIN c = CheckpointFields
  /\ c.fam \in Families /\ c.level \in ARMED..L4
  /\ c.reached \in Times /\ c.retested \in Times /\ c.open \in BOOLEAN
  /\ c.fam \in Core => c.setup = "none" \/ c.setup \notin Scopes

Typed(o) ==
  /\ DOMAIN o = OpportunityFields
  /\ o.status \in Statuses /\ o.primary \in Families
  /\ o.armed \in Times /\ o.updated \in Times /\ o.lastBar \in Times /\ o.cursor \in Times
  /\ o.expires \in 0..Furthest
  /\ DOMAIN o.analyses = HorizonNames /\ \A h \in HorizonNames : o.analyses[h].at \in Times
  /\ \A r \in o.refs : ReferenceTyped(r)
  /\ \A l \in o.legs : LegTyped(l)
  /\ \A c \in o.cps : CheckpointTyped(c)

LEMMA Bounds ==
  /\ MaxTime \in Nat /\ Furthest \in Nat
  /\ \A t \in 0..MaxTime :
       /\ t + Life["watch"] \in 0..Furthest /\ t + Life["LONG"] \in 0..Furthest
       /\ t + Life["SWING"] \in 0..Furthest /\ t + Life["INTRADAY"] \in 0..Furthest
       /\ t + Life["swing"] \in 0..Furthest /\ t + Life["geri"] \in 0..Furthest
       /\ t + Life["short"] \in 0..Furthest
<1>1. /\ MaxTime \in Nat
      /\ Life["watch"] \in Nat /\ Life["LONG"] \in Nat /\ Life["SWING"] \in Nat
      /\ Life["INTRADAY"] \in Nat /\ Life["swing"] \in Nat /\ Life["geri"] \in Nat
      /\ Life["short"] \in Nat
  BY LifecycleAssumption
<1> QED  BY <1>1 DEF Furthest

LEMMA LaterTime ==
  ASSUME NEW s \in Times, NEW t \in Times
  PROVE  Larger(s, t) \in Times
BY DEF Larger

LEMMA InputIsTime ==
  ASSUME NEW t \in 0..MaxTime
  PROVE  t \in Times /\ t # None
BY Bounds DEF Times, None

(* A fresh leg, a fresh checkpoint and those that were closed.             *)
LEMMA NewLegTyped ==
  ASSUME NEW fam \in OptionalFamilies, NEW setup \in Scopes \union {"none"},
         NEW hz \in HorizonNames, NEW opened \in Times, NEW stop, NEW target, NEW expires \in None..Furthest
  PROVE  LegTyped(NewLeg(fam, setup, hz, opened, stop, target, expires))
<1> DEFINE l == NewLeg(fam, setup, hz, opened, stop, target, expires)
<1>1. /\ l = [f \in LegFields |-> l[f]]
      /\ DOMAIN l = LegFields /\ l.fam = fam /\ l.hz = hz /\ l.opened = opened
      /\ l.setup = setup /\ l.expires = expires /\ l.status = IF opened = None THEN "WATCHING" ELSE "OPEN"
  BY DEF NewLeg, LegFields
<1> HIDE DEF l
<1>2. LegTyped(l)
  BY <1>1 DEF LegTyped
<1> QED  BY <1>2 DEF l

LEMMA CloseLegTyped ==
  ASSUME NEW l, LegTyped(l), l.status # "WATCHING"
  PROVE  LegTyped(CloseLeg(l))
<1> DEFINE k == CloseLeg(l)
<1>1. /\ k = [f \in LegFields |-> k[f]]
      /\ DOMAIN k = LegFields /\ k.fam = l.fam /\ k.hz = l.hz /\ k.opened = l.opened
      /\ k.expires = l.expires /\ k.status = "CLOSED" /\ k.setup = l.setup
  BY DEF CloseLeg, LegTyped, LegFields
<1> HIDE DEF k
<1>2. LegTyped(k)
  BY <1>1 DEF LegTyped
<1> QED  BY <1>2 DEF k

LEMMA NewCheckpointTyped ==
  ASSUME NEW fam \in Families, NEW setup, NEW level \in ARMED..L4, NEW stage, NEW at \in Times,
         NEW stop, NEW target, NEW zone, fam \in Core => setup = "none" \/ setup \notin Scopes
  PROVE  CheckpointTyped(NewCheckpoint(fam, setup, level, stage, at, stop, target, zone))
<1> DEFINE c == NewCheckpoint(fam, setup, level, stage, at, stop, target, zone)
<1>1. /\ DOMAIN c = CheckpointFields /\ c.fam = fam /\ c.level = level /\ c.reached = at
      /\ c.retested = None /\ c.open = TRUE /\ c.setup = setup
  BY DEF NewCheckpoint, CheckpointFields
<1>2. None \in Times
  BY Bounds DEF Times, None
<1> HIDE DEF c
<1>3. CheckpointTyped(c)
  BY <1>1, <1>2 DEF CheckpointTyped
<1> QED  BY <1>3 DEF c

LEMMA CloseCheckpointTyped ==
  ASSUME NEW c, CheckpointTyped(c)
  PROVE  CheckpointTyped(CloseCheckpoint(c))
<1> DEFINE d == CloseCheckpoint(c)
<1>1. /\ DOMAIN d = CheckpointFields /\ d.fam = c.fam /\ d.level = c.level
      /\ d.reached = c.reached /\ d.retested = c.retested /\ d.open = FALSE
      /\ d.setup = c.setup
  BY DEF CloseCheckpoint, CheckpointTyped, CheckpointFields
<1> HIDE DEF d
<1>2. CheckpointTyped(d)
  BY <1>1 DEF CheckpointTyped
<1> QED  BY <1>2 DEF d

(* Tracking a setup keeps its current stage at or below its peak.          *)
LEMMA TrackedTyped ==
  ASSUME NEW o, Typed(o), NEW fam \in Families, NEW setup, NEW stage \in None..L4, NEW at \in Times,
         NEW r \in Tracked(o, fam, setup, stage, at), fam = "SWING_TRADE" => setup \in Scopes
  PROVE  ReferenceTyped(r)
<1> DEFINE peaks == {q.peak : q \in RefsFor(o, fam, setup)} \union {stage}
           peak == CHOOSE p \in peaks : \A q \in peaks : q <= p
           n == Reference(fam, setup, stage, peak, at)
<1>1. \A p \in peaks : p \in None..L4
  BY DEF RefsFor, Typed, ReferenceTyped
<1>2. stage \in peaks
  OBVIOUS
<1>3. r \in o.refs \/ r = n
  BY DEF Tracked, Replaced
<1> HIDE DEF peaks
<1>4. \E p \in peaks : \A q \in peaks : q <= p
  <2>1. L4 \in Int /\ peaks # {} /\ \A p \in peaks : p \in Int /\ p <= L4
    BY <1>1, <1>2 DEF L4, None
  <2> QED  BY <2>1, LargestOf
<1>5. peak \in peaks /\ \A q \in peaks : q <= peak
  BY <1>4
<1>6. peak \in None..L4 /\ stage <= peak
  BY <1>1, <1>2, <1>5
<1> HIDE DEF peak
<1>7. n.fam = fam /\ n.setup = setup /\ n.at = at /\ n.cur = stage /\ n.peak = peak
  BY DEF Reference
<1> HIDE DEF n
<1>8. ReferenceTyped(n)
  BY <1>6, <1>7 DEF ReferenceTyped
<1> QED  BY <1>3, <1>8 DEF Typed

(* Closing.                                                                *)
LEMMA CloseOpportunityTyped ==
  ASSUME NEW o, NEW at \in Times, Typed(o)
  PROVE  Typed(CloseOpportunity(o, at))
<1> DEFINE u == CloseOpportunity(o, at)
<1>1. /\ DOMAIN u = OpportunityFields /\ u.status = "CLOSED" /\ u.updated = Larger(o.updated, at)
      /\ u.legs = {IF l.status = "OPEN" THEN CloseLeg(l) ELSE l : l \in o.legs}
      /\ u.cps = {CloseCheckpoint(c) : c \in o.cps}
      /\ u.primary = o.primary /\ u.armed = o.armed /\ u.lastBar = o.lastBar
      /\ u.cursor = o.cursor /\ u.expires = o.expires /\ u.refs = o.refs
      /\ u.analyses = o.analyses
  BY DEF CloseOpportunity, Typed, OpportunityFields
<1> HIDE DEF u
<1>2. \A l \in u.legs : LegTyped(l)
  BY <1>1, CloseLegTyped DEF Typed
<1>3. \A c \in u.cps : CheckpointTyped(c)
  BY <1>1, CloseCheckpointTyped DEF Typed
<1>4. u.updated \in Times
  BY <1>1, LaterTime DEF Typed
<1>5. Typed(u)
  BY <1>1, <1>2, <1>3, <1>4 DEF Typed, Statuses
<1> QED  BY <1>5 DEF u

(* An aggregate with other legs and checkpoints, later than it was.        *)
LEMMA TouchedTyped ==
  ASSUME NEW o, Typed(o), NEW legs, NEW cps, NEW at \in Times,
         \A l \in legs : LegTyped(l), \A c \in cps : CheckpointTyped(c)
  PROVE  Typed([o EXCEPT !.legs = legs, !.cps = cps, !.updated = Larger(@, at)])
<1> DEFINE u == [o EXCEPT !.legs = legs, !.cps = cps, !.updated = Larger(@, at)]
<1>1. /\ DOMAIN u = OpportunityFields /\ u.status = o.status /\ u.updated = Larger(o.updated, at)
      /\ u.legs = legs /\ u.cps = cps
      /\ u.primary = o.primary /\ u.armed = o.armed /\ u.lastBar = o.lastBar
      /\ u.cursor = o.cursor /\ u.expires = o.expires /\ u.refs = o.refs
      /\ u.analyses = o.analyses
  BY DEF Typed, OpportunityFields
<1> HIDE DEF u
<1>2. u.updated \in Times
  BY <1>1, LaterTime DEF Typed
<1>3. Typed(u)
  BY <1>1, <1>2 DEF Typed
<1> QED  BY <1>3 DEF u

LEMMA WithLegsTyped ==
  ASSUME NEW o, Typed(o), NEW legs, \A l \in legs : LegTyped(l)
  PROVE  Typed([o EXCEPT !.legs = legs])
<1> DEFINE u == [o EXCEPT !.legs = legs]
<1>1. /\ DOMAIN u = OpportunityFields /\ u.status = o.status /\ u.updated = o.updated
      /\ u.legs = legs /\ u.cps = o.cps
      /\ u.primary = o.primary /\ u.armed = o.armed /\ u.lastBar = o.lastBar
      /\ u.cursor = o.cursor /\ u.expires = o.expires /\ u.refs = o.refs
      /\ u.analyses = o.analyses
  BY DEF Typed, OpportunityFields
<1> HIDE DEF u
<1>2. Typed(u)
  BY <1>1 DEF Typed
<1> QED  BY <1>2 DEF u

LEMMA CloseCoreEntriesTyped ==
  ASSUME NEW o, NEW fams, NEW hz, NEW ev, NEW at \in Times, NEW breach, Typed(o)
  PROVE  Typed(CloseCoreEntries(o, fams, hz, ev, at, breach))
<1> DEFINE legs == LegsLeft(o, fams, hz, ev, breach)
           cps == CheckpointsLeft(o, fams, hz, ev, breach)
           updated == [o EXCEPT !.legs = legs, !.cps = cps, !.updated = Larger(@, at)]
           closed == ClosedWhenDone(updated, at)
           followed(l) == IF l.status = "OPEN"
                             /\ (\E c \in {c \in o.cps : c.open /\ c \notin closed.cps} :
                                   SameEntry(closed, c, l))
                          THEN CloseLeg(l) ELSE l
<1>1. CloseCoreEntries(o, fams, hz, ev, at, breach) =
        IF legs = o.legs /\ cps = o.cps THEN o ELSE FollowCheckpoints(o, closed)
  BY DEF CloseCoreEntries
<1>2. \A l \in legs : l \in o.legs \/ \E k \in o.legs : k.status = "OPEN" /\ l = CloseLeg(k)
  BY DEF LegsLeft
<1>3. \A c \in cps : c \in o.cps \/ \E d \in o.cps : c = CloseCheckpoint(d)
  BY DEF CheckpointsLeft
<1> HIDE DEF legs, cps
<1>4. (\A l \in legs : LegTyped(l)) /\ (\A c \in cps : CheckpointTyped(c))
  BY <1>2, <1>3, CloseLegTyped, CloseCheckpointTyped DEF Typed
<1>5. Typed(updated)
  BY <1>4, TouchedTyped
<1> HIDE DEF updated
<1>6. Typed(closed)
  BY <1>5, CloseOpportunityTyped DEF ClosedWhenDone
<1> HIDE DEF closed
<1>7. FollowCheckpoints(o, closed) = [closed EXCEPT !.legs = {followed(l) : l \in closed.legs}]
  <2>1. DOMAIN closed = OpportunityFields
    BY <1>6 DEF Typed
  <2> QED  BY <2>1 DEF FollowCheckpoints, OpportunityFields
<1>8. \A l \in closed.legs : LegTyped(followed(l))
  BY <1>6, CloseLegTyped DEF Typed
<1> HIDE DEF followed
<1> DEFINE left == {followed(l) : l \in closed.legs}
<1>9. \A l \in left : LegTyped(l)
  BY <1>8
<1> HIDE DEF left
<1>10. Typed([closed EXCEPT !.legs = left])
  BY <1>6, <1>9, WithLegsTyped
<1> QED  BY <1>1, <1>7, <1>10 DEF left

LEMMA ApplyInvalidationTyped ==
  ASSUME NEW o, NEW u, NEW hz, NEW a, NEW t \in Times, NEW price, Typed(u)
  PROVE  Typed(ApplyInvalidation(o, u, hz, a, t, price))
<1> DEFINE mark == MarkAt(o, a.at, t)
           bearish == a.view = "bearish"
           longFailure == hz = "LONG" /\ a.view \in {"bearish", "avoid"}
           scope == IF longFailure THEN "all" ELSE hz
           stopped == CloseCoreEntries(u, Core, "all", mark, t, price)
           core == CloseCoreEntries(stopped, {"CORE_ENTRY"}, scope, a.at, t, None)
           failed == IF longFailure \/ bearish THEN core ELSE stopped
           rest == CloseCoreEntries(failed, {"CORE_RECOVERY"}, "all", a.at, t, None)
<1>1. ApplyInvalidation(o, u, hz, a, t, price) =
        IF mark = None \/ a.at > t THEN u ELSE IF bearish /\ hz = "SWING" THEN rest ELSE failed
  BY DEF ApplyInvalidation
<1>2. Typed(stopped)
  BY CloseCoreEntriesTyped
<1> HIDE DEF stopped
<1>3. Typed(core)
  BY <1>2, CloseCoreEntriesTyped
<1> HIDE DEF core
<1>4. Typed(failed)
  BY <1>2, <1>3
<1> HIDE DEF failed
<1>5. Typed(rest)
  BY <1>4, CloseCoreEntriesTyped
<1> HIDE DEF rest
<1> QED  BY <1>1, <1>4, <1>5

(* _advance.                                                               *)
LEMMA AdvanceTyped ==
  ASSUME NEW o, NEW e, Typed(o), e.fam \in Families, e.level \in ARMED..L4, e.at \in Times,
         e.hzs \subseteq HorizonNames, e.fam \in Core => e.setup = "none" \/ e.setup \notin Scopes
  PROVE  Typed(Advance(o, e))
<1> DEFINE u == Advance(o, e)
           n == NewCheckpoint(e.fam, e.setup, e.level, None, e.at, e.stop, e.target, e.level = L2)
           owned == {l \in o.legs : LegFamily(o, l) = e.fam}
           unscoped == {l \in owned : l.setup = "none"}
           opens(l) == l \in unscoped /\ l.hz \in e.hzs /\ l.status = "WATCHING"
           opened(l) == NewLeg(e.fam, "none", l.hz, e.at, e.stop, e.target, l.expires)
           labelled(l) == [l EXCEPT !.fam = e.fam]
           added(h) == NewLeg(e.fam, "none", h, e.at, e.stop, e.target, None)
<1>1. /\ DOMAIN u = OpportunityFields
      /\ u.status \in Statuses \union {o.status}
      /\ u.updated = Larger(o.updated, e.at)
      /\ u.cps = o.cps \/ u.cps = o.cps \union {n}
      /\ u.legs = o.legs \/ u.legs = OpenEntryHorizons(o, e)
      /\ u.primary = o.primary /\ u.armed = o.armed /\ u.lastBar = o.lastBar
      /\ u.cursor = o.cursor /\ u.expires = o.expires /\ u.refs = o.refs
      /\ u.analyses = o.analyses
  BY DEF Advance, Typed, OpportunityFields, Statuses
<1>2. CheckpointTyped(n)
  BY NewCheckpointTyped
<1>3. \A l \in OpenEntryHorizons(o, e) :
        \/ l \in o.legs
        \/ \E k \in o.legs : l = opened(k) \/ l = labelled(k)
        \/ \E h \in e.hzs : l = added(h)
  BY DEF OpenEntryHorizons
<1>4. None \in None..Furthest /\ Families \subseteq OptionalFamilies
  BY Bounds DEF None, OptionalFamilies
<1>5. \A k \in o.legs : LegTyped(opened(k))
  BY <1>4, NewLegTyped DEF Typed, LegTyped
<1>6. \A h \in e.hzs : LegTyped(added(h))
  BY <1>4, NewLegTyped
<1>7. ASSUME NEW k \in o.legs  PROVE  LegTyped(labelled(k))
  <2>1. LegTyped(k)
    BY DEF Typed
  <2>2. /\ labelled(k) = [f \in LegFields |-> labelled(k)[f]]
        /\ DOMAIN labelled(k) = LegFields /\ labelled(k).fam = e.fam /\ labelled(k).hz = k.hz
        /\ labelled(k).opened = k.opened /\ labelled(k).expires = k.expires
        /\ labelled(k).status = k.status /\ labelled(k).setup = k.setup
    BY <2>1 DEF LegTyped, LegFields
  <2> HIDE DEF labelled
  <2> QED  BY <1>4, <2>1, <2>2 DEF LegTyped
<1> HIDE DEF u, n, opened, labelled, added
<1>8. \A l \in u.legs : LegTyped(l)
  BY <1>1, <1>3, <1>5, <1>6, <1>7 DEF Typed
<1>9. u.updated \in Times /\ u.status \in Statuses
  BY <1>1, LaterTime DEF Typed
<1>10. Typed(u)
  BY <1>1, <1>2, <1>8, <1>9 DEF Typed
<1> QED  BY <1>10 DEF u

(* A retest, a bar.                                                        *)
LEMMA RecordRetestTyped ==
  ASSUME NEW o, NEW touched, NEW when, NEW at \in Times, Typed(o)
  PROVE  Typed(RecordRetest(o, touched, when, at))
<1> DEFINE u == Retested(o, at)
           dated(c) == [c EXCEPT !.retested = at]
<1>1. /\ DOMAIN u = OpportunityFields /\ u.status = o.status /\ u.updated = o.updated
      /\ u.legs = o.legs
      /\ u.cps = {IF c \in Anchors(o) THEN dated(c) ELSE c : c \in o.cps}
      /\ u.primary = o.primary /\ u.armed = o.armed /\ u.lastBar = o.lastBar
      /\ u.cursor = o.cursor /\ u.expires = o.expires /\ u.refs = o.refs
      /\ u.analyses = o.analyses
  BY DEF Retested, Typed, OpportunityFields
<1>2. ASSUME NEW c \in o.cps  PROVE  CheckpointTyped(dated(c))
  <2>1. CheckpointTyped(c)
    BY DEF Typed
  <2>2. /\ DOMAIN dated(c) = CheckpointFields /\ dated(c).fam = c.fam
        /\ dated(c).level = c.level /\ dated(c).reached = c.reached
        /\ dated(c).retested = at /\ dated(c).open = c.open /\ dated(c).setup = c.setup
    BY <2>1 DEF CheckpointTyped, CheckpointFields
  <2> HIDE DEF dated
  <2> QED  BY <2>1, <2>2 DEF CheckpointTyped
<1> HIDE DEF u, dated
<1>3. \A c \in u.cps : CheckpointTyped(c)
  BY <1>1, <1>2 DEF Typed
<1>4. Typed(u)
  BY <1>1, <1>3 DEF Typed
<1> QED  BY <1>4 DEF RecordRetest, u

LEMMA MarkedTyped ==
  ASSUME NEW o, NEW p, NEW t, NEW protected, Typed(o)
  PROVE  Typed(Marked(o, p, t, protected))
<1> DEFINE u == Marked(o, p, t, protected)
<1>1. /\ DOMAIN u = OpportunityFields /\ u.status = o.status /\ u.updated = o.updated
      /\ u.primary = o.primary /\ u.armed = o.armed /\ u.lastBar = o.lastBar
      /\ u.cursor = o.cursor /\ u.expires = o.expires /\ u.refs = o.refs
      /\ u.analyses = o.analyses
  BY DEF Marked, Typed, OpportunityFields
<1>2. \A c \in u.cps : c \in o.cps \/ \E d \in o.cps : c = CloseCheckpoint(d)
  BY DEF Marked, Typed, OpportunityFields
<1>3. \A l \in u.legs : l \in o.legs \/ \E k \in o.legs : k.status = "OPEN" /\ l = CloseLeg(k)
  BY DEF Marked, Typed, OpportunityFields
<1> HIDE DEF u
<1>4. (\A l \in u.legs : LegTyped(l)) /\ (\A c \in u.cps : CheckpointTyped(c))
  BY <1>2, <1>3, CloseLegTyped, CloseCheckpointTyped DEF Typed
<1>5. Typed(u)
  BY <1>1, <1>4 DEF Typed
<1> QED  BY <1>5 DEF u

LEMMA SessionClosedTyped ==
  ASSUME NEW o, NEW t, Typed(o)
  PROVE  Typed(SessionClosed(o, t))
<1> DEFINE legs == {IF t \in SessionEnds /\ l.hz = "INTRADAY" /\ l.status = "OPEN"
                    THEN CloseLeg(l) ELSE l : l \in o.legs}
<1>1. SessionClosed(o, t) = [o EXCEPT !.legs = legs]
  BY DEF SessionClosed, Typed, OpportunityFields
<1>2. \A l \in legs : LegTyped(l)
  BY CloseLegTyped DEF Typed
<1> HIDE DEF legs
<1> QED  BY <1>1, <1>2, WithLegsTyped

LEMMA StampedTyped ==
  ASSUME NEW o, NEW t \in Times, NEW p, Typed(o)
  PROVE  /\ Typed([o EXCEPT !.lastBar = t, !.price = p])
         /\ Typed([o EXCEPT !.cursor = t])
         /\ Typed([o EXCEPT !.updated = Larger(@, t), !.lastBar = t])
         /\ Typed([o EXCEPT !.updated = Larger(@, t), !.lastBar = t, !.price = p])
         /\ Typed([o EXCEPT !.updated = t, !.lastBar = t])
<1> DEFINE later == Larger(o.updated, t)
<1>1. later \in Times
  BY LaterTime DEF Typed
<1>2. Typed([o EXCEPT !.lastBar = t, !.price = p]) /\ Typed([o EXCEPT !.cursor = t])
  BY DEF Typed, OpportunityFields
<1>3. /\ [o EXCEPT !.updated = Larger(@, t), !.lastBar = t] = [o EXCEPT !.updated = later, !.lastBar = t]
      /\ [o EXCEPT !.updated = Larger(@, t), !.lastBar = t, !.price = p]
           = [o EXCEPT !.updated = later, !.lastBar = t, !.price = p]
  BY DEF Typed, OpportunityFields
<1> HIDE DEF later
<1>4. /\ Typed([o EXCEPT !.updated = later, !.lastBar = t])
      /\ Typed([o EXCEPT !.updated = later, !.lastBar = t, !.price = p])
      /\ Typed([o EXCEPT !.updated = t, !.lastBar = t])
  BY <1>1 DEF Typed, OpportunityFields
<1> QED  BY <1>2, <1>3, <1>4

LEMMA BarAppliedTyped ==
  ASSUME NEW o, NEW p, NEW touch, NEW t \in Times, NEW protected, Typed(o)
  PROVE  Typed(BarApplied(o, p, touch, t, protected))
<1> DEFINE low == Lower(p, EntryPrice)
           near == touch /\ \A c \in Anchors(o) : low > c.stop
           first == Marked(o, p, t, protected)
           marked == RecordRetest(first, near, t, t)
           session == SessionClosed(marked, t)
           updated == [session EXCEPT !.updated = Larger(@, t), !.lastBar = t, !.price = p]
           stamped == [marked EXCEPT !.lastBar = t, !.price = p]
<1>1. BarApplied(o, p, touch, t, protected) =
        IF low <= o.inval /\ CanClose(marked) THEN CloseOpportunity(stamped, t)
        ELSE IF AllOpenedTerminal(updated) /\ CanClose(updated) THEN CloseOpportunity(updated, t)
        ELSE updated
  BY DEF BarApplied
<1>2. Typed(first)
  BY MarkedTyped
<1> HIDE DEF first
<1>3. Typed(marked)
  BY <1>2, RecordRetestTyped
<1> HIDE DEF marked
<1>4. Typed(stamped) /\ Typed(session)
  BY <1>3, StampedTyped, SessionClosedTyped
<1> HIDE DEF stamped, session
<1>5. Typed(updated)
  BY <1>4, StampedTyped
<1> HIDE DEF updated
<1>6. Typed(CloseOpportunity(stamped, t)) /\ Typed(CloseOpportunity(updated, t))
  BY <1>4, <1>5, CloseOpportunityTyped
<1> QED  BY <1>1, <1>5, <1>6

LEMMA RevisitedTyped ==
  ASSUME NEW o, NEW p, NEW t \in Times, Typed(o)
  PROVE  Typed(Revisited(o, p, t))
<1> DEFINE again(u, h) == IF u.analyses[h].view = "none" THEN u
                          ELSE ApplyInvalidation(u, u, h, u.analyses[h], t, BarMark(u, p, t))
           once == again(o, "LONG")
           twice == again(once, "SWING")
<1>1. Revisited(o, p, t) = again(again(again(o, "LONG"), "SWING"), "INTRADAY")
  BY DEF Revisited
<1>2. ASSUME NEW u, NEW h, Typed(u)  PROVE  Typed(again(u, h))
  BY <1>2, ApplyInvalidationTyped
<1> HIDE DEF again
<1>3. Typed(once)
  BY <1>2
<1> HIDE DEF once
<1>4. Typed(twice)
  BY <1>2, <1>3
<1> HIDE DEF twice
<1>5. Typed(again(twice, "INTRADAY"))
  BY <1>2, <1>4
<1> QED  BY <1>1, <1>5 DEF once, twice

(* The strategies' entries.                                                *)
LEMMA WithStageTyped ==
  ASSUME NEW o, NEW i, NEW fam \in {"SWING_TRADE", "GERI"}, NEW at \in Times, Typed(o)
  PROVE  /\ CheckpointTyped(StageCheckpoint(i, fam, at))
         /\ \A c \in WithStageCheckpoint(o, i, fam, at) : CheckpointTyped(c)
<1>1. ARMED \in ARMED..L4 /\ fam \in Families /\ fam \notin Core
  BY DEF ARMED, L4, Families, Core
<1>2. CheckpointTyped(StageCheckpoint(i, fam, at))
  BY <1>1, NewCheckpointTyped DEF StageCheckpoint
<1> QED  BY <1>2 DEF WithStageCheckpoint, Typed

LEMMA FollowedTyped ==
  ASSUME NEW o, NEW refs, NEW at \in Times, Typed(o), \A r \in refs : ReferenceTyped(r)
  PROVE  /\ Typed([o EXCEPT !.refs = refs, !.updated = Larger(@, at)])
         /\ Typed([o EXCEPT !.refs = refs, !.updated = at])
         /\ Typed([o EXCEPT !.refs = refs])
<1> DEFINE later == Larger(o.updated, at)
<1>1. later \in Times
  BY LaterTime DEF Typed
<1>2. [o EXCEPT !.refs = refs, !.updated = Larger(@, at)] = [o EXCEPT !.refs = refs, !.updated = later]
  BY DEF Typed, OpportunityFields
<1> HIDE DEF later
<1>3. /\ Typed([o EXCEPT !.refs = refs, !.updated = later])
      /\ Typed([o EXCEPT !.refs = refs, !.updated = at])
      /\ Typed([o EXCEPT !.refs = refs])
  BY <1>1 DEF Typed, OpportunityFields
<1> QED  BY <1>2, <1>3

(* What EnterSwingTrade makes of the legs and of the expiry.               *)
LEMMA EnterSwingTradeTyped ==
  ASSUME NEW o, NEW i, NEW at \in 0..MaxTime, Typed(o), i.setup \in Scopes
  PROVE  LET u == EnterSwingTrade(o, i, at)
         IN  /\ u.status \in Statuses /\ u.expires \in 0..Furthest
             /\ \A l \in u.legs : LegTyped(l)
<1> DEFINE expires == at + Life.swing
           matching == {l \in o.legs : MatchesSetup(o, l, i.setup)}
           watching == {l \in matching : l.status = "WATCHING"}
           bought(f) == NewLeg(f, i.setup, "SWING", at, i.stop, i.target, expires)
           opened == (o.legs \ watching)
                     \union (IF watching = {} THEN {bought("none")}
                             ELSE {bought(l.fam) : l \in watching})
           labelled == LabelLegacyLeg(o, opened)
           dated(l) == [l EXCEPT !.expires = o.expires]
           legs == {IF l.status = "OPEN" /\ l.expires = None THEN dated(l) ELSE l : l \in labelled}
           longer == Larger(o.expires, expires)
           u == [o EXCEPT !.legs = legs, !.status = "OPEN", !.expires = Larger(@, expires),
                          !.inval = Lower(@, i.stop)]
<1>1. EnterSwingTrade(o, i, at) \in {o, u}
  BY DEF EnterSwingTrade
<1>2. expires \in 0..Furthest /\ o.expires \in 0..Furthest
  BY Bounds DEF Typed
<1> HIDE DEF expires
<1>3. longer \in 0..Furthest
  BY <1>2 DEF Larger
<1>4. u.legs = legs /\ u.status = "OPEN" /\ u.expires = longer
  BY DEF Typed, OpportunityFields
<1> HIDE DEF longer
<1>5. \A f \in OptionalFamilies : LegTyped(bought(f))
  <2>1. "SWING" \in HorizonNames /\ expires \in None..Furthest /\ at \in Times
    BY <1>2, InputIsTime DEF HorizonNames, None
  <2> QED  BY <2>1, NewLegTyped
<1>6. \A l \in opened : LegTyped(l)
  <2> HIDE DEF bought
  <2>1. "none" \in OptionalFamilies /\ \A l \in o.legs : LegTyped(l) /\ l.fam \in OptionalFamilies
    BY DEF OptionalFamilies, Typed, LegTyped
  <2> QED  BY <1>5, <2>1
<1> HIDE DEF opened
<1>7. \A l \in labelled : LegTyped(l)
  <2> DEFINE unmatched == SwingSetups(o) \ {l.setup : l \in opened}
             first == CHOOSE v \in unmatched : TRUE
  <2>1. \A l \in labelled :
          l \in opened \/ (Cardinality(unmatched) = 1 /\ \E k \in opened : l = [k EXCEPT !.setup = first])
    BY DEF LabelLegacyLeg
  <2>3. Cardinality(unmatched) = 1 => first \in Scopes
    <3>1. unmatched \subseteq Scopes
      BY DEF SwingSetups, Typed, ReferenceTyped
    <3> HIDE DEF unmatched
    <3>2. Cardinality(unmatched) = 1 => unmatched # {}
      BY FS_EmptySet
    <3> QED  BY <3>1, <3>2
  <2> HIDE DEF unmatched, first
  <2>2. ASSUME NEW k \in opened, NEW s \in Scopes  PROVE  LegTyped([k EXCEPT !.setup = s])
    <3> DEFINE l == [k EXCEPT !.setup = s]
    <3>1. LegTyped(k)
      BY <1>6
    <3>2. /\ l = [f \in LegFields |-> l[f]]
          /\ DOMAIN l = LegFields /\ l.fam = k.fam /\ l.hz = k.hz /\ l.opened = k.opened
          /\ l.expires = k.expires /\ l.status = k.status /\ l.setup = s
      BY <3>1 DEF LegTyped, LegFields
    <3> HIDE DEF l
    <3>3. LegTyped(l)
      BY <3>1, <3>2 DEF LegTyped
    <3> QED  BY <3>3 DEF l
  <2> QED  BY <1>6, <2>1, <2>2, <2>3
<1> HIDE DEF labelled
<1>8. ASSUME NEW k \in labelled  PROVE  LegTyped(dated(k))
  <2>1. LegTyped(k) /\ o.expires \in None..Furthest
    BY <1>2, <1>7 DEF None
  <2>2. /\ dated(k) = [f \in LegFields |-> dated(k)[f]]
        /\ DOMAIN dated(k) = LegFields /\ dated(k).fam = k.fam /\ dated(k).hz = k.hz
        /\ dated(k).opened = k.opened /\ dated(k).expires = o.expires /\ dated(k).status = k.status
        /\ dated(k).setup = k.setup
    BY <2>1 DEF LegTyped, LegFields
  <2> HIDE DEF dated
  <2> QED  BY <2>1, <2>2 DEF LegTyped
<1> HIDE DEF dated
<1>9. \A l \in legs : LegTyped(l)
  BY <1>7, <1>8
<1> HIDE DEF legs, u
<1> QED  BY <1>1, <1>3, <1>4, <1>9 DEF Typed, Statuses

LEMMA ApplySwingTradeTyped ==
  ASSUME NEW o, NEW i, NEW at \in 0..MaxTime, Typed(o), i.stage \in None..4, i.setup \in Scopes
  PROVE  Typed(ApplySwingTrade(o, i, at))
<1> DEFINE refs == Tracked(o, "SWING_TRADE", i.setup, i.stage, at)
           followed == [o EXCEPT !.refs = refs, !.updated = Larger(@, at)]
           entered == EnterSwingTrade(o, i, at)
           cps == WithStageCheckpoint(o, i, "SWING_TRADE", at)
           u == [followed EXCEPT !.cps = cps, !.legs = entered.legs, !.status = entered.status,
                                 !.expires = entered.expires, !.inval = entered.inval]
<1>1. ApplySwingTrade(o, i, at) \in {o, followed, u}
  BY DEF ApplySwingTrade
<1>2. at \in Times /\ "SWING_TRADE" \in Families /\ i.stage \in None..L4
  BY InputIsTime DEF Families, None, L4
<1>3. \A r \in refs : ReferenceTyped(r)
  BY <1>2, TrackedTyped
<1>4. \A c \in cps : CheckpointTyped(c)
  BY <1>2, WithStageTyped
<1>5. /\ entered.status \in Statuses /\ entered.expires \in 0..Furthest
      /\ \A l \in entered.legs : LegTyped(l)
  BY EnterSwingTradeTyped
<1> HIDE DEF refs, cps, entered
<1>6. Typed(followed)
  BY <1>2, <1>3, FollowedTyped
<1> HIDE DEF followed
<1>7. /\ DOMAIN u = OpportunityFields /\ u.status = entered.status /\ u.updated = followed.updated
      /\ u.legs = entered.legs /\ u.cps = cps
      /\ u.primary = followed.primary /\ u.armed = followed.armed /\ u.lastBar = followed.lastBar
      /\ u.cursor = followed.cursor /\ u.expires = entered.expires /\ u.refs = followed.refs
      /\ u.analyses = followed.analyses
  BY <1>6 DEF Typed, OpportunityFields
<1> HIDE DEF u
<1>8. Typed(u)
  BY <1>4, <1>5, <1>6, <1>7 DEF Typed
<1> QED  BY <1>1, <1>6, <1>8

LEMMA ReboundExitTyped ==
  ASSUME NEW o, NEW i, NEW at \in Times, Typed(o), i.setup \in Scopes
  PROVE  Typed(ReboundExit(o, i, at))
<1> DEFINE legs == {IF l.status = "OPEN" /\ at >= l.opened /\ MatchesSetup(o, l, i.setup)
                    THEN CloseLeg(l) ELSE l : l \in o.legs}
           cps == {IF c.fam = "SWING_TRADE" /\ c.setup = i.setup /\ at >= c.reached
                   THEN CloseCheckpoint(c) ELSE c : c \in o.cps}
           refs == Tracked(o, "SWING_TRADE", i.setup, None, at)
           updated == [o EXCEPT !.legs = legs, !.cps = cps, !.updated = Larger(@, at),
                                !.refs = refs]
<1>1. ReboundExit(o, i, at) \in {o, ClosedWhenDone(updated, at)}
  BY DEF ReboundExit
<1>2. "SWING_TRADE" \in Families /\ None \in None..L4
  BY DEF Families, None, L4
<1>3. \A r \in refs : ReferenceTyped(r)
  BY <1>2, TrackedTyped
<1>4. (\A l \in legs : LegTyped(l)) /\ (\A c \in cps : CheckpointTyped(c))
  BY CloseLegTyped, CloseCheckpointTyped DEF Typed
<1> HIDE DEF legs, cps, refs
<1>5. /\ DOMAIN updated = OpportunityFields /\ updated.status = o.status
      /\ updated.updated = Larger(o.updated, at)
      /\ updated.legs = legs /\ updated.cps = cps /\ updated.refs = refs
      /\ updated.primary = o.primary /\ updated.armed = o.armed /\ updated.lastBar = o.lastBar
      /\ updated.cursor = o.cursor /\ updated.expires = o.expires
      /\ updated.analyses = o.analyses
  BY DEF Typed, OpportunityFields
<1> HIDE DEF updated
<1>6. updated.updated \in Times
  BY <1>5, LaterTime DEF Typed
<1>7. Typed(updated)
  BY <1>3, <1>4, <1>5, <1>6 DEF Typed
<1> QED  BY <1>1, <1>7, CloseOpportunityTyped DEF ClosedWhenDone

LEMMA ObserveCountertrendTyped ==
  ASSUME NEW o, NEW i, NEW at \in Times, Typed(o), i.stage \in None..4
  PROVE  Typed(ObserveCountertrend(o, i, at))
<1> DEFINE refs == Tracked(o, "GERI", i.setup, i.stage, at)
           u == [o EXCEPT !.refs = refs, !.updated = at]
<1>1. ObserveCountertrend(o, i, at) \in {o, u}
  BY DEF ObserveCountertrend
<1>2. "GERI" \in Families /\ i.stage \in None..L4
  BY DEF Families, None, L4
<1>3. \A r \in refs : ReferenceTyped(r)
  BY <1>2, TrackedTyped
<1> HIDE DEF refs
<1>4. Typed(u)
  BY <1>3, FollowedTyped
<1> QED  BY <1>1, <1>4

LEMMA ApplyCountertrendTyped ==
  ASSUME NEW o, NEW i, NEW at \in Times, Typed(o), i.stage \in None..4
  PROVE  Typed(ApplyCountertrend(o, i, at))
<1> DEFINE refs == Tracked(o, "GERI", i.setup, i.stage, at)
           followed == [o EXCEPT !.refs = refs, !.updated = Larger(@, at)]
           buys == o.primary = "GERI" /\ ~CountertrendOpen(o, {i.setup})
           cps == WithStageCheckpoint(o, i, "GERI", at)
           opened == OpenCountertrendLeg(o, i, at)
           bought(f, s, x) == NewLeg(f, s, "SWING", at, i.stop, i.target, x)
           u == [followed EXCEPT !.cps = cps,
                                 !.legs = IF buys THEN opened ELSE @,
                                 !.status = IF buys THEN "OPEN" ELSE @]
<1>1. ApplyCountertrend(o, i, at) \in {o, followed, u}
  BY DEF ApplyCountertrend
<1>2. "GERI" \in Families /\ i.stage \in None..L4
  BY DEF Families, None, L4
<1>3. \A r \in refs : ReferenceTyped(r)
  BY <1>2, TrackedTyped
<1>4. \A c \in cps : CheckpointTyped(c)
  BY <1>2, WithStageTyped
<1>5. \A l \in opened : LegTyped(l)
  <2>1. \A l \in opened : \/ l \in o.legs \/ l = bought("none", "none", None)
                          \/ \E k \in o.legs : l = bought(k.fam, k.setup, k.expires)
    BY DEF OpenCountertrendLeg
  <2>2. "none" \in OptionalFamilies /\ None \in None..Furthest /\ "SWING" \in HorizonNames
    BY Bounds DEF OptionalFamilies, None, HorizonNames
  <2>3. LegTyped(bought("none", "none", None))
    BY <2>2, NewLegTyped
  <2>4. \A k \in o.legs : LegTyped(bought(k.fam, k.setup, k.expires))
    BY <2>2, NewLegTyped DEF Typed, LegTyped
  <2> HIDE DEF opened, bought
  <2> QED  BY <2>1, <2>3, <2>4 DEF Typed
<1> HIDE DEF refs, cps, opened, buys
<1>6. Typed(followed)
  BY <1>3, FollowedTyped
<1> HIDE DEF followed
<1>7. /\ DOMAIN u = OpportunityFields /\ u.status \in {followed.status, "OPEN"}
      /\ u.updated = followed.updated
      /\ u.legs \in {followed.legs, opened} /\ u.cps = cps
      /\ u.primary = followed.primary /\ u.armed = followed.armed /\ u.lastBar = followed.lastBar
      /\ u.cursor = followed.cursor /\ u.expires = followed.expires /\ u.refs = followed.refs
      /\ u.analyses = followed.analyses
  BY <1>6 DEF Typed, OpportunityFields
<1> HIDE DEF u
<1>8. Typed(u)
  BY <1>4, <1>5, <1>6, <1>7 DEF Typed, Statuses
<1> QED  BY <1>1, <1>6, <1>8

LEMMA CountertrendLossTyped ==
  ASSUME NEW o, NEW i, NEW at \in Times, Typed(o)
  PROVE  Typed(CountertrendLoss(o, i, at))
<1> DEFINE refs == Tracked(o, "GERI", i.setup, None, at)
           followed == [o EXCEPT !.refs = refs, !.updated = Larger(@, at)]
           u == [followed EXCEPT !.cps = {IF c.fam = "GERI" /\ c.setup = i.setup
                                          THEN CloseCheckpoint(c) ELSE c : c \in @}]
<1>1. CountertrendLoss(o, i, at) \in {o, followed, u, CloseOpportunity(o, at)}
  BY DEF CountertrendLoss
<1>2. "GERI" \in Families /\ None \in None..L4
  BY DEF Families, None, L4
<1>3. \A r \in refs : ReferenceTyped(r)
  BY <1>2, TrackedTyped
<1> HIDE DEF refs
<1>4. Typed(followed)
  BY <1>3, FollowedTyped
<1> HIDE DEF followed
<1>5. /\ DOMAIN u = OpportunityFields /\ u.status = followed.status
      /\ u.updated = followed.updated /\ u.legs = followed.legs
      /\ u.primary = followed.primary /\ u.armed = followed.armed /\ u.lastBar = followed.lastBar
      /\ u.cursor = followed.cursor /\ u.expires = followed.expires /\ u.refs = followed.refs
      /\ u.analyses = followed.analyses
      /\ \A c \in u.cps : c \in followed.cps \/ \E d \in followed.cps : c = CloseCheckpoint(d)
  BY <1>4 DEF Typed, OpportunityFields
<1> HIDE DEF u
<1>6. \A c \in u.cps : CheckpointTyped(c)
  BY <1>4, <1>5, CloseCheckpointTyped DEF Typed
<1>7. Typed(u)
  BY <1>4, <1>5, <1>6 DEF Typed
<1> QED  BY <1>1, <1>4, <1>7, CloseOpportunityTyped

(* The opportunity that survives an expiry is left the latest deadline.    *)
LEMMA ExpiredTyped ==
  ASSUME NEW o, NEW t \in Times, Typed(o)
  PROVE  Typed(Expired(o, t))
<1> DEFINE expired == {l \in o.legs : l.status # "CLOSED" /\ t >= Deadline(o, l)}
           setups == {l.setup : l \in expired} \ {"none"}
           kept == {IF l \in expired THEN CloseLeg(l) ELSE l :
                      l \in {l \in o.legs : ~(l \in expired /\ l.status = "WATCHING")}}
           cps == {IF c.setup \in setups THEN CloseCheckpoint(c) ELSE c : c \in o.cps}
           updated == [o EXCEPT !.legs = kept, !.cps = cps, !.updated = Larger(@, t)]
           deadlines == {Deadline(o, l) : l \in {l \in kept : l.status # "CLOSED"}}
           latest == CHOOSE m \in deadlines : \A n \in deadlines : n <= m
           u == [updated EXCEPT !.expires = latest]
<1>1. \/ Expired(o, t) \in {o, CloseOpportunity(updated, t)}
      \/ deadlines # {} /\ Expired(o, t) = u
  BY DEF Expired, Typed, OpportunityFields
<1>2. \A l \in kept : LegTyped(l)
  BY CloseLegTyped DEF Typed
<1>3. \A c \in cps : CheckpointTyped(c)
  BY CloseCheckpointTyped DEF Typed
<1> HIDE DEF kept, cps
<1>4. Typed(updated)
  BY <1>2, <1>3, TouchedTyped
<1> HIDE DEF updated
<1>5. \A m \in deadlines : m \in 0..Furthest
  <2>1. \A l \in kept : Deadline(o, l) \in 0..Furthest
    BY <1>2, Bounds DEF Deadline, LegTyped, Typed, None
  <2> QED  BY <2>1
<1> HIDE DEF deadlines
<1>6. deadlines # {} => latest \in 0..Furthest
  <2>1. Furthest \in Int /\ \A m \in deadlines : m \in Int /\ m <= Furthest
    BY <1>5, Bounds
  <2>2. deadlines # {} => \E m \in deadlines : \A n \in deadlines : n <= m
    BY <2>1, LargestOf
  <2> QED  BY <1>5, <2>2
<1> HIDE DEF latest
<1>7. deadlines # {} => Typed(u)
  BY <1>4, <1>6 DEF Typed, OpportunityFields
<1> HIDE DEF u
<1> QED  BY <1>1, <1>4, <1>7, CloseOpportunityTyped

(* New opportunities.                                                      *)
LEMMA NewTyped ==
  ASSUME NEW status \in Statuses, NEW primary \in Families, NEW peak, NEW at \in Times,
         NEW expires \in 0..Furthest, NEW inval, NEW refs, NEW legs, NEW cps,
         \A r \in refs : ReferenceTyped(r), \A l \in legs : LegTyped(l),
         \A c \in cps : CheckpointTyped(c)
  PROVE  Typed([NewOpportunity(status, primary, peak, at, expires, inval)
                EXCEPT !.cps = cps, !.legs = legs, !.refs = refs])
<1> DEFINE new == NewOpportunity(status, primary, peak, at, expires, inval)
           u == [new EXCEPT !.cps = cps, !.legs = legs, !.refs = refs]
<1>1. /\ DOMAIN new = OpportunityFields /\ new.status = status /\ new.primary = primary
      /\ new.armed = at /\ new.updated = at /\ new.lastBar = None /\ new.cursor = None
      /\ new.expires = expires /\ new.analyses = [h \in HorizonNames |-> NoAnalysis]
  BY DEF NewOpportunity, OpportunityFields
<1> HIDE DEF new
<1>2. /\ DOMAIN u = OpportunityFields /\ u.status = status /\ u.primary = primary
      /\ u.armed = at /\ u.updated = at /\ u.lastBar = None /\ u.cursor = None
      /\ u.expires = expires /\ u.cps = cps /\ u.legs = legs /\ u.refs = refs
      /\ u.analyses = [h \in HorizonNames |-> NoAnalysis]
  BY <1>1 DEF OpportunityFields
<1> HIDE DEF u
<1>3. None \in Times
  BY Bounds DEF Times, None
<1>4. Typed(u)
  BY <1>2, <1>3 DEF Typed, NoAnalysis
<1> QED  BY <1>4 DEF u, new

LEMMA ReferenceIsTyped ==
  ASSUME NEW fam \in Families, NEW setup, NEW stage \in None..L4, NEW at \in Times,
         fam = "SWING_TRADE" => setup \in Scopes
  PROVE  ReferenceTyped(Reference(fam, setup, stage, stage, at))
<1> DEFINE r == Reference(fam, setup, stage, stage, at)
<1>1. r.fam = fam /\ r.setup = setup /\ r.at = at /\ r.cur = stage /\ r.peak = stage
  BY DEF Reference
<1> HIDE DEF r
<1>2. stage \in Int
  BY DEF None, L4
<1>3. ReferenceTyped(r)
  BY <1>1, <1>2 DEF ReferenceTyped
<1> QED  BY <1>3 DEF r

LEMMA NewWatchTyped ==
  ASSUME NEW i, NEW at \in 0..MaxTime, i.status \in WatchStatuses \ {"INVALIDATED", "EXPIRED"},
         i.watch \notin Scopes
  PROVE  Typed(NewWatchOpportunity(i, at))
<1> DEFINE level == TransitionLevel(i.status)
           e == WatchEntry(i, at, level, WatchStop)
           status == IF level = IN_ZONE THEN "IN_ZONE" ELSE "ARMED"
           expires == at + Life.watch
           new == NewOpportunity(status, "CORE_ENTRY", level, at, expires, WatchStop)
           n == NewCheckpoint(e.fam, e.setup, level, None, at, e.stop, e.target, FALSE)
           leg == NewLeg("none", "none", "LONG", None, WatchStop, NoTarget, None)
           born == [new EXCEPT !.watch = i.watch, !.cursor = at, !.cps = {n}, !.legs = {leg}]
<1>1. NewWatchOpportunity(i, at) = IF level >= L1 THEN Advance(born, e) ELSE born
  BY DEF NewWatchOpportunity
<1>2. level \in ARMED..L4
  BY TransitionLevels
<1> HIDE DEF level
<1>3. /\ e.level = level /\ e.at = at /\ e.fam = "CORE_ENTRY" /\ e.hzs = HorizonNames
      /\ e.setup = i.watch
  BY DEF WatchEntry, CoreEntry
<1> HIDE DEF e
<1>4. /\ at \in Times /\ None \in Times /\ "CORE_ENTRY" \in Families /\ status \in Statuses
      /\ expires \in 0..Furthest
  BY InputIsTime, Bounds DEF Families, Core, Statuses, Times, None
<1> HIDE DEF expires, status
<1>5. CheckpointTyped(n)
  BY <1>2, <1>3, <1>4, NewCheckpointTyped
<1>6. LegTyped(leg)
  <2>1. "none" \in OptionalFamilies /\ None \in None..Furthest /\ "LONG" \in HorizonNames
    BY Bounds DEF OptionalFamilies, None, HorizonNames
  <2> QED  BY <1>4, <2>1, NewLegTyped
<1>7. /\ DOMAIN new = OpportunityFields /\ new.status = status /\ new.primary = "CORE_ENTRY"
      /\ new.armed = at /\ new.updated = at /\ new.lastBar = None
      /\ new.expires = expires /\ new.refs = {}
      /\ new.analyses = [h \in HorizonNames |-> NoAnalysis]
  BY DEF NewOpportunity, OpportunityFields
<1> HIDE DEF new, n, leg
<1>8. /\ DOMAIN born = OpportunityFields /\ born.status = status /\ born.primary = "CORE_ENTRY"
      /\ born.armed = at /\ born.updated = at /\ born.lastBar = None /\ born.cursor = at
      /\ born.expires = expires /\ born.refs = {} /\ born.cps = {n} /\ born.legs = {leg}
      /\ born.analyses = [h \in HorizonNames |-> NoAnalysis]
  BY <1>7 DEF OpportunityFields
<1> HIDE DEF born
<1>9. Typed(born)
  BY <1>4, <1>5, <1>6, <1>8 DEF Typed, NoAnalysis
<1>10. Typed(Advance(born, e))
  BY <1>2, <1>3, <1>4, <1>9, AdvanceTyped
<1> QED  BY <1>1, <1>9, <1>10

LEMMA SignalHorizons ==
  ASSUME NEW fam, NEW level
  PROVE  HorizonsOf(fam, level) \subseteq HorizonNames
BY DEF HorizonsOf, HorizonNames

LEMMA NewSignalTyped ==
  ASSUME NEW i, NEW at \in 0..MaxTime, i.level \in ARMED..L4, i.fam \in Core \union {"LEVERAGED"},
         i.setup \notin Scopes
  PROVE  Typed(NewSignalOpportunity(i, at))
<1> DEFINE hzs == HorizonsOf(i.fam, i.level)
           status == IF i.fam \notin Core \/ i.level = L4 THEN "OPEN" ELSE "CONFIRMING"
           expires == at + SignalLife(hzs)
           n == NewCheckpoint(i.fam, i.setup, i.level, None, at, i.stop, i.target, FALSE)
           leg(h) == NewLeg("none", "none", h, at, i.stop, i.target, None)
           legs == {leg(h) : h \in hzs}
           r == Reference(i.fam, i.setup, i.level, i.level, at)
           refs == {r}
           cps == {n}
<1>1. NewSignalOpportunity(i, at) =
        [NewOpportunity(status, i.fam, i.level, at, expires, i.stop)
         EXCEPT !.cps = cps, !.legs = legs, !.refs = refs]
  BY DEF NewSignalOpportunity
<1>2. /\ at \in Times /\ i.fam \in Families /\ status \in Statuses /\ i.level \in None..L4
      /\ i.fam # "SWING_TRADE"
  BY InputIsTime DEF Families, Core, Statuses, ARMED, None, L4
<1>3. expires \in 0..Furthest
  BY Bounds DEF SignalLife
<1>4. \A l \in legs : LegTyped(l)
  <2>1. "none" \in OptionalFamilies /\ None \in None..Furthest /\ hzs \subseteq HorizonNames
    BY Bounds, SignalHorizons DEF OptionalFamilies, None
  <2>2. \A h \in hzs : LegTyped(leg(h))
    BY <1>2, <2>1, NewLegTyped
  <2> HIDE DEF leg, hzs
  <2> QED  BY <2>2
<1>5. \A q \in refs : ReferenceTyped(q)
  BY <1>2, ReferenceIsTyped
<1>6. \A c \in cps : CheckpointTyped(c)
  <2>1. CheckpointTyped(n)
    BY <1>2, NewCheckpointTyped
  <2> QED  BY <2>1
<1> HIDE DEF legs, refs, cps, expires, status
<1>7. Typed([NewOpportunity(status, i.fam, i.level, at, expires, i.stop)
             EXCEPT !.cps = cps, !.legs = legs, !.refs = refs])
  BY <1>2, <1>3, <1>4, <1>5, <1>6, NewTyped
<1> QED  BY <1>1, <1>7

LEMMA NewSwingTradeTyped ==
  ASSUME NEW i, NEW at \in 0..MaxTime, i.stage \in None..4, i.setup \in Scopes
  PROVE  Typed(NewSwingTradeOpportunity(i, at))
<1> DEFINE entered == i.stage >= 3
           expires == at + Life.swing
           status == IF entered THEN "OPEN" ELSE "CONFIRMING"
           since == IF entered THEN at ELSE None
           until == IF entered THEN expires ELSE None
           legs == {NewLeg("none", i.setup, "SWING", since, i.stop, i.target, until)}
           cps == {StageCheckpoint(i, "SWING_TRADE", at)}
           refs == {Reference("SWING_TRADE", i.setup, i.stage, i.stage, at)}
<1>1. NewSwingTradeOpportunity(i, at) =
        [NewOpportunity(status, "SWING_TRADE", ARMED, at, expires, i.stop)
         EXCEPT !.cps = cps, !.legs = legs, !.refs = refs]
  BY DEF NewSwingTradeOpportunity
<1>2. /\ at \in Times /\ "SWING_TRADE" \in Families /\ status \in Statuses /\ i.stage \in None..L4
      /\ "none" \in OptionalFamilies /\ "SWING" \in HorizonNames /\ ARMED \in ARMED..L4
      /\ since \in Times /\ "SWING_TRADE" \notin Core /\ "GERI" \notin Core
  BY InputIsTime, Bounds DEF Families, Core, Times, OptionalFamilies, HorizonNames, Statuses, None, L4, ARMED
<1>3. expires \in 0..Furthest
  BY Bounds
<1>4. until \in None..Furthest
  BY <1>3, Bounds DEF None
<1> HIDE DEF expires, since, until
<1>5. \A l \in legs : LegTyped(l)
  BY <1>2, <1>4, NewLegTyped
<1>6. \A q \in refs : ReferenceTyped(q)
  BY <1>2, ReferenceIsTyped
<1>7. \A c \in cps : CheckpointTyped(c)
  BY <1>2, NewCheckpointTyped DEF StageCheckpoint
<1> HIDE DEF legs, refs, cps, status
<1>8. Typed([NewOpportunity(status, "SWING_TRADE", ARMED, at, expires, i.stop)
             EXCEPT !.cps = cps, !.legs = legs, !.refs = refs])
  BY <1>2, <1>3, <1>5, <1>6, <1>7, NewTyped
<1> QED  BY <1>1, <1>8

LEMMA NewCountertrendTyped ==
  ASSUME NEW i, NEW at \in 0..MaxTime, i.stage \in None..4
  PROVE  Typed(NewCountertrendOpportunity(i, at))
<1> DEFINE entered == i.stage >= 2
           expires == at + Life.geri
           status == IF entered THEN "OPEN" ELSE "CONFIRMING"
           since == IF entered THEN at ELSE None
           legs == {NewLeg("none", "none", "SWING", since, i.stop, i.target, None)}
           cps == IF entered THEN {StageCheckpoint(i, "GERI", at)} ELSE {}
           refs == {Reference("GERI", i.setup, i.stage, i.stage, at)}
<1>1. NewCountertrendOpportunity(i, at) =
        [NewOpportunity(status, "GERI", ARMED, at, expires, i.stop)
         EXCEPT !.cps = cps, !.legs = legs, !.refs = refs]
  BY DEF NewCountertrendOpportunity
<1>2. /\ at \in Times /\ "GERI" \in Families /\ status \in Statuses /\ i.stage \in None..L4
      /\ "none" \in OptionalFamilies /\ "SWING" \in HorizonNames /\ ARMED \in ARMED..L4
      /\ since \in Times /\ "SWING_TRADE" \notin Core /\ "GERI" \notin Core
  BY InputIsTime, Bounds DEF Families, Core, Times, OptionalFamilies, HorizonNames, Statuses, None, L4, ARMED
<1>3. expires \in 0..Furthest /\ None \in None..Furthest
  BY Bounds DEF None
<1> HIDE DEF expires, since
<1>4. \A l \in legs : LegTyped(l)
  BY <1>2, <1>3, NewLegTyped
<1>5. \A q \in refs : ReferenceTyped(q)
  BY <1>2, ReferenceIsTyped
<1>6. \A c \in cps : CheckpointTyped(c)
  BY <1>2, NewCheckpointTyped DEF StageCheckpoint
<1> HIDE DEF legs, refs, cps, status
<1>7. Typed([NewOpportunity(status, "GERI", ARMED, at, expires, i.stop)
             EXCEPT !.cps = cps, !.legs = legs, !.refs = refs])
  BY <1>2, <1>3, <1>4, <1>5, <1>6, NewTyped
<1> QED  BY <1>1, <1>7

LEMMA NewShortTyped ==
  ASSUME NEW setup \in Scopes, NEW at \in 0..MaxTime
  PROVE  Typed(NewShortOpportunity(setup, at))
<1> DEFINE expires == at + Life.short
           legs == {NewLeg("CORE_SHORT", setup, "INTRADAY", at, ShortStop, ShortTarget, expires)}
           cps == {NewCheckpoint("CORE_SHORT", setup, ARMED, None, at, ShortStop, ShortTarget, TRUE)}
           refs == {Reference("CORE_SHORT", setup, None, None, at)}
<1>1. NewShortOpportunity(setup, at) =
        [NewOpportunity("OPEN", "CORE_SHORT", ARMED, at, expires, ShortStop)
         EXCEPT !.cps = cps, !.legs = legs, !.refs = refs]
  BY DEF NewShortOpportunity
<1>2. /\ at \in Times /\ "CORE_SHORT" \in Families /\ "OPEN" \in Statuses /\ None \in None..L4
      /\ "CORE_SHORT" \in OptionalFamilies /\ "INTRADAY" \in HorizonNames /\ ARMED \in ARMED..L4
      /\ "CORE_SHORT" \notin Core
  BY InputIsTime DEF Families, Core, OptionalFamilies, HorizonNames, Statuses, None, L4, ARMED
<1>3. expires \in 0..Furthest /\ expires \in None..Furthest
  BY Bounds DEF None
<1> HIDE DEF expires
<1>4. \A l \in legs : LegTyped(l)
  BY <1>2, <1>3, NewLegTyped
<1>5. \A q \in refs : ReferenceTyped(q)
  BY <1>2, ReferenceIsTyped
<1>6. \A c \in cps : CheckpointTyped(c)
  BY <1>2, NewCheckpointTyped
<1> HIDE DEF legs, refs, cps
<1>7. Typed([NewOpportunity("OPEN", "CORE_SHORT", ARMED, at, expires, ShortStop)
             EXCEPT !.cps = cps, !.legs = legs, !.refs = refs])
  BY <1>2, <1>3, <1>4, <1>5, <1>6, NewTyped
<1> QED  BY <1>1, <1>7

(* The handlers.                                                           *)
TypedInv == now \in 1..(MaxTime + 1) /\ Typed(opp)

LEMMA InputsTyped ==
  ASSUME LifecycleInv, TypedInv, NEW kind, NEW x \in Inputs(kind)
  PROVE  /\ x.in \in menu /\ x.in.kind = kind /\ now <= MaxTime
         /\ x.at \in 0..MaxTime /\ x.at \in Times /\ now \in 0..MaxTime /\ now \in Times
<1>1. x.in \in menu /\ x.in.kind = kind /\ x.at \in Nat /\ x.at <= now
  BY InputTimes
<1>2. now <= MaxTime /\ now \in Nat
  BY Bounds DEF Inputs, TypedInv
<1>3. x.at \in 0..MaxTime /\ now \in 0..MaxTime
  BY <1>1, <1>2, Bounds
<1> QED  BY <1>1, <1>2, <1>3, InputIsTime

LEMMA StepTyped ==
  ASSUME TypedInv, NEW o, Typed(o), now <= MaxTime, opp' = o, now' = now + 1
  PROVE  TypedInv'
<1>1. Typed(opp')
  OBVIOUS
<1>2. now' \in 1..(MaxTime + 1)
  BY Bounds DEF TypedInv
<1> QED  BY <1>1, <1>2 DEF TypedInv, Typed, ReferenceTyped, LegTyped, CheckpointTyped

LEMMA AppliedTyped ==
  ASSUME LifecycleInv, TypedInv, NEW kind, NEW x \in Inputs(kind),
         NEW at, NEW o, Typed(o), Applied(kind, at, o)
  PROVE  TypedInv'
<1>1. opp' = o /\ now' = now + 1
  BY DEF Applied
<1> QED  BY <1>1, InputsTyped, StepTyped

LEMMA AppliedAtTyped ==
  ASSUME LifecycleInv, TypedInv, NEW kind, NEW x \in Inputs(kind),
         NEW at, NEW o, NEW price, NEW exits, Typed(o), AppliedAt(kind, at, o, price, exits)
  PROVE  TypedInv'
<1>1. opp' = o /\ now' = now + 1
  BY DEF AppliedAt
<1> QED  BY <1>1, InputsTyped, StepTyped

LEMMA TransitionTyped ==
  ASSUME LifecycleInv, TypedInv, IngestTransition
  PROVE  TypedInv'
<1>1. PICK x \in Inputs("watch") :
        LET i == x.in
            ended == CloseCoreEntries(opp, {"CORE_ENTRY"}, "all", x.at, x.at, None)
            e == WatchEntry(i, x.at, TransitionLevel(i.status), opp.inval)
        IN  \/ /\ i.status \in {"ARMED", "IN_ZONE", "EARLY_ENTRY", "TRIGGERED"}
               /\ Applied("watch", x.at, NewWatchOpportunity(i, x.at))
            \/ Applied("watch", x.at, [ended EXCEPT !.cursor = x.at])
            \/ /\ i.status \notin {"INVALIDATED", "EXPIRED"}
               /\ Applied("watch", x.at, [Advance(opp, e) EXCEPT !.cursor = x.at])
  BY DEF IngestTransition
<1> DEFINE i == x.in
           ended == CloseCoreEntries(opp, {"CORE_ENTRY"}, "all", x.at, x.at, None)
           e == WatchEntry(i, x.at, TransitionLevel(i.status), opp.inval)
           joined == Advance(opp, e)
<1>2. /\ x.at \in 0..MaxTime /\ x.at \in Times /\ i.status \in WatchStatuses
      /\ i.watch \notin Scopes
  BY InputsTyped, MenuAssumption, SetupAssumption DEF LifecycleInv
<1>3. Typed(opp)
  BY DEF TypedInv
<1>4. CASE i.status \in {"ARMED", "IN_ZONE", "EARLY_ENTRY", "TRIGGERED"}
           /\ Applied("watch", x.at, NewWatchOpportunity(i, x.at))
  <2>1. Typed(NewWatchOpportunity(i, x.at))
    BY <1>2, <1>4, NewWatchTyped
  <2> QED  BY <1>4, <2>1, AppliedTyped
<1>5. CASE Applied("watch", x.at, [ended EXCEPT !.cursor = x.at])
  <2>1. Typed(ended)
    BY <1>2, <1>3, CloseCoreEntriesTyped
  <2>2. Typed([ended EXCEPT !.cursor = x.at])
    BY <1>2, <2>1, StampedTyped
  <2> QED  BY <1>5, <2>2, AppliedTyped
<1>6. CASE /\ i.status \notin {"INVALIDATED", "EXPIRED"}
           /\ Applied("watch", x.at, [joined EXCEPT !.cursor = x.at])
  <2>1. /\ e.level = TransitionLevel(i.status) /\ e.at = x.at /\ e.fam = "CORE_ENTRY"
        /\ e.hzs = HorizonNames /\ e.setup = i.watch
    BY DEF WatchEntry, CoreEntry
  <2>2. TransitionLevel(i.status) \in ARMED..L4 /\ "CORE_ENTRY" \in Families
    BY <1>2, <1>6, TransitionLevels DEF Families, Core
  <2> HIDE DEF e
  <2>3. Typed(joined)
    BY <1>2, <1>3, <2>1, <2>2, AdvanceTyped
  <2>4. Typed([joined EXCEPT !.cursor = x.at])
    BY <1>2, <2>3, StampedTyped
  <2> QED  BY <1>6, <2>4, AppliedTyped
<1> QED  BY <1>1, <1>4, <1>5, <1>6

LEMMA SignalTyped ==
  ASSUME LifecycleInv, TypedInv, IngestSignal
  PROVE  TypedInv'
<1>1. PICK x \in Inputs("signal") :
        LET i == x.in
            refs == Replaced(opp, Reference(i.fam, i.setup, i.level, i.level, x.at))
        IN  \/ Applied("signal", x.at, NewSignalOpportunity(i, x.at))
            \/ Applied("signal", x.at, [Advance(opp, SignalEntry(i, x.at)) EXCEPT !.refs = refs])
            \/ Applied("signal", x.at, [opp EXCEPT !.refs = refs, !.updated = Larger(@, x.at)])
  BY DEF IngestSignal
<1> DEFINE i == x.in
           r == Reference(i.fam, i.setup, i.level, i.level, x.at)
           refs == Replaced(opp, r)
           e == SignalEntry(i, x.at)
           joined == Advance(opp, e)
           named == [joined EXCEPT !.refs = refs]
           noted == [opp EXCEPT !.refs = refs, !.updated = Larger(@, x.at)]
<1>2. /\ x.at \in 0..MaxTime /\ x.at \in Times
      /\ i.level \in ARMED..L4 /\ i.fam \in Core \union {"LEVERAGED"} /\ i.setup \notin Scopes
  BY InputsTyped, MenuAssumption, SetupAssumption DEF LifecycleInv
<1>3. i.fam \in Families /\ i.fam # "SWING_TRADE" /\ i.level \in None..L4 /\ Typed(opp)
  BY <1>2 DEF TypedInv, Families, Core, None, ARMED, L4
<1>4. ReferenceTyped(r)
  BY <1>2, <1>3, ReferenceIsTyped
<1> HIDE DEF r
<1>5. \A q \in refs : ReferenceTyped(q)
  BY <1>3, <1>4 DEF Replaced, Typed
<1> HIDE DEF refs
<1>6. Typed(NewSignalOpportunity(i, x.at))
  BY <1>2, NewSignalTyped
<1>7. Typed(joined)
  <2>1. /\ e.level = i.level /\ e.at = x.at /\ e.fam = i.fam /\ e.setup = i.setup
        /\ e.hzs = HorizonsOf(i.fam, i.level)
    BY DEF SignalEntry, CoreEntry
  <2> HIDE DEF e
  <2> QED  BY <1>2, <1>3, <2>1, SignalHorizons, AdvanceTyped
<1> HIDE DEF joined
<1>8. Typed(named) /\ Typed(noted)
  BY <1>2, <1>3, <1>5, <1>7, FollowedTyped
<1>9. \/ Applied("signal", x.at, NewSignalOpportunity(i, x.at))
      \/ Applied("signal", x.at, named)
      \/ Applied("signal", x.at, noted)
  BY <1>1 DEF joined, refs, r
<1> HIDE DEF named, noted
<1> QED  BY <1>6, <1>8, <1>9, AppliedTyped

LEMMA StrategiesTyped ==
  ASSUME LifecycleInv, TypedInv, IngestSwingTrade \/ IngestCountertrend
  PROVE  TypedInv'
<1>1. Typed(opp)
  BY DEF TypedInv
<1>2. ASSUME IngestSwingTrade  PROVE  TypedInv'
  <2>1. PICK x \in Inputs("swing") :
          \/ Applied("swing", x.at, NewSwingTradeOpportunity(x.in, x.at))
          \/ Applied("swing", x.at, ReboundExit(opp, x.in, x.at))
          \/ Applied("swing", x.at, ApplySwingTrade(opp, x.in, x.at))
    BY <1>2 DEF IngestSwingTrade
  <2>2. x.at \in 0..MaxTime /\ x.at \in Times /\ x.in.stage \in None..4 /\ x.in.setup \in Scopes
    BY InputsTyped, MenuAssumption DEF LifecycleInv, Scopes
  <2>3. /\ Typed(NewSwingTradeOpportunity(x.in, x.at))
        /\ Typed(ReboundExit(opp, x.in, x.at))
        /\ Typed(ApplySwingTrade(opp, x.in, x.at))
    BY <1>1, <2>2, NewSwingTradeTyped, ReboundExitTyped, ApplySwingTradeTyped
  <2> QED  BY <2>1, <2>3, AppliedTyped
<1>3. ASSUME IngestCountertrend  PROVE  TypedInv'
  <2>1. PICK x \in Inputs("geri") :
          \/ Applied("geri", x.at, NewCountertrendOpportunity(x.in, x.at))
          \/ Applied("geri", x.at, CountertrendLoss(opp, x.in, x.at))
          \/ Applied("geri", x.at, ObserveCountertrend(opp, x.in, x.at))
          \/ Applied("geri", x.at, ApplyCountertrend(opp, x.in, x.at))
    BY <1>3 DEF IngestCountertrend
  <2>2. x.at \in 0..MaxTime /\ x.at \in Times /\ x.in.stage \in None..4
    BY InputsTyped, MenuAssumption DEF LifecycleInv
  <2>3. /\ Typed(NewCountertrendOpportunity(x.in, x.at))
        /\ Typed(CountertrendLoss(opp, x.in, x.at))
        /\ Typed(ObserveCountertrend(opp, x.in, x.at))
        /\ Typed(ApplyCountertrend(opp, x.in, x.at))
    BY <1>1, <2>2, NewCountertrendTyped, CountertrendLossTyped, ObserveCountertrendTyped,
       ApplyCountertrendTyped
  <2> QED  BY <2>1, <2>3, AppliedTyped
<1> QED  BY <1>2, <1>3

LEMMA OtherInputsTyped ==
  ASSUME LifecycleInv, TypedInv,
         \/ IngestLeveragedCancellation \/ IngestShortAlert \/ IngestShortBar
         \/ IngestReferenceBar \/ Reconcile
  PROVE  TypedInv'
<1>1. Typed(opp)
  BY DEF TypedInv
<1>2. ASSUME IngestLeveragedCancellation  PROVE  TypedInv'
  <2>1. PICK x \in Inputs("cancel") : Applied("cancel", x.at, CloseOpportunity(opp, x.at))
    BY <1>2 DEF IngestLeveragedCancellation
  <2>2. Typed(CloseOpportunity(opp, x.at))
    BY <1>1, InputsTyped, CloseOpportunityTyped
  <2> QED  BY <2>1, <2>2, AppliedTyped
<1>3. ASSUME IngestShortAlert  PROVE  TypedInv'
  <2>1. PICK x \in Inputs("short") :
          \/ Applied("short", x.at, NewShortOpportunity(x.in.setup, x.at))
          \/ Applied("short", x.at, opp)
    BY <1>3 DEF IngestShortAlert
  <2>2. x.in.setup \in Scopes
    BY InputsTyped DEF LifecycleInv, Scopes
  <2>3. Typed(NewShortOpportunity(x.in.setup, x.at))
    BY <2>2, InputsTyped, NewShortTyped
  <2> QED  BY <1>1, <2>1, <2>3, AppliedTyped
<1>4. ASSUME IngestShortBar  PROVE  TypedInv'
  <2>1. PICK x \in Inputs("bar") :
          LET updated == [opp EXCEPT !.updated = x.at, !.lastBar = x.at]
          IN  \/ Applied("bar", x.at, CloseOpportunity(updated, x.at))
              \/ Applied("bar", x.at, updated)
    BY <1>4 DEF IngestShortBar
  <2> DEFINE updated == [opp EXCEPT !.updated = x.at, !.lastBar = x.at]
  <2>2. \/ Applied("bar", x.at, CloseOpportunity(updated, x.at))
        \/ Applied("bar", x.at, updated)
    BY <2>1
  <2>3. x.at \in Times
    BY InputsTyped
  <2>4. Typed(updated)
    BY <1>1, <2>3, StampedTyped
  <2> HIDE DEF updated
  <2>5. Typed(CloseOpportunity(updated, x.at))
    BY <2>3, <2>4, CloseOpportunityTyped
  <2> QED  BY <2>2, <2>4, <2>5, AppliedTyped
<1>5. ASSUME IngestReferenceBar  PROVE  TypedInv'
  <2>1. PICK x \in Inputs("refbar") :
          Applied("refbar", x.at, [opp EXCEPT !.updated = Larger(@, x.at), !.lastBar = x.at])
    BY <1>5 DEF IngestReferenceBar
  <2>2. Typed([opp EXCEPT !.updated = Larger(@, x.at), !.lastBar = x.at])
    BY <1>1, InputsTyped, StampedTyped
  <2> QED  BY <2>1, <2>2, AppliedTyped
<1>6. ASSUME Reconcile  PROVE  TypedInv'
  <2>1. PICK x \in Inputs("reconcile") :
          \/ Applied("reconcile", now, CloseOpportunity(opp, now))
          \/ Applied("reconcile", now, Expired(opp, now))
    BY <1>6 DEF Reconcile
  <2>2. Typed(CloseOpportunity(opp, now)) /\ Typed(Expired(opp, now))
    BY <1>1, InputsTyped, CloseOpportunityTyped, ExpiredTyped
  <2> QED  BY <2>1, <2>2, AppliedTyped
<1> QED  BY <1>2, <1>3, <1>4, <1>5, <1>6

LEMMA AnalysisTyped ==
  ASSUME LifecycleInv, TypedInv, IngestAnalysis
  PROVE  TypedInv'
<1>1. PICK x \in Inputs("analysis"),
           current \in UNION {AnalysisPrices(opp, AnalysisOf(y)) : y \in Inputs("analysis")},
           price \in UNION {MarkPrices(opp, AnalysisOf(y), now) : y \in Inputs("analysis")} :
        LET i == x.in
            a == AnalysisOf(x)
            updated == [opp EXCEPT !.analyses[i.hz] = a, !.updated = now, !.price = current]
            retested == IF i.hz = "INTRADAY" THEN RecordRetest(updated, i.touch, x.at, now)
                        ELSE updated
        IN  \/ AppliedAt("analysis", x.at, Advance(retested, ReclaimEntry), price, {})
            \/ AppliedAt("analysis", x.at, ApplyInvalidation(opp, retested, i.hz, a, now, price), price, {})
  BY DEF IngestAnalysis
<1> DEFINE i == x.in
           a == AnalysisOf(x)
           updated == [opp EXCEPT !.analyses[i.hz] = a, !.updated = now, !.price = current]
           retested == IF i.hz = "INTRADAY" THEN RecordRetest(updated, i.touch, x.at, now)
                       ELSE updated
<1>2. \/ AppliedAt("analysis", x.at, Advance(retested, ReclaimEntry), price, {})
      \/ AppliedAt("analysis", x.at, ApplyInvalidation(opp, retested, i.hz, a, now, price), price, {})
  BY <1>1
<1>3. x.at \in Times /\ now \in Times /\ Typed(opp)
  BY InputsTyped DEF TypedInv
<1>4. Typed(updated)
  <2>1. /\ DOMAIN updated = OpportunityFields /\ updated.status = opp.status
        /\ updated.updated = now /\ updated.legs = opp.legs /\ updated.cps = opp.cps
        /\ updated.primary = opp.primary /\ updated.armed = opp.armed
        /\ updated.lastBar = opp.lastBar /\ updated.cursor = opp.cursor
        /\ updated.expires = opp.expires /\ updated.refs = opp.refs
        /\ DOMAIN updated.analyses = DOMAIN opp.analyses
        /\ \A h \in HorizonNames : updated.analyses[h] \in {opp.analyses[h], a}
    BY <1>3 DEF Typed, OpportunityFields
  <2> HIDE DEF updated
  <2> QED  BY <1>3, <2>1 DEF Typed, AnalysisOf
<1> HIDE DEF updated
<1>5. Typed(retested)
  BY <1>3, <1>4, RecordRetestTyped
<1> HIDE DEF retested
<1>6. Typed(Advance(retested, ReclaimEntry))
  <2>1. /\ ReclaimEntry.level \in ARMED..L4 /\ ReclaimEntry.at = now
        /\ ReclaimEntry.fam \in Families /\ ReclaimEntry.setup = "none"
        /\ ReclaimEntry.hzs \subseteq HorizonNames
    BY DEF ReclaimEntry, CoreEntry, ARMED, L4, Families, Core, HorizonNames
  <2> QED  BY <1>3, <1>5, <2>1, AdvanceTyped
<1>7. Typed(ApplyInvalidation(opp, retested, i.hz, a, now, price))
  BY <1>3, <1>5, ApplyInvalidationTyped
<1> QED  BY <1>2, <1>6, <1>7, AppliedAtTyped

LEMMA BarTyped ==
  ASSUME LifecycleInv, TypedInv, IngestBar
  PROVE  TypedInv'
<1>1. PICK x \in Inputs("bar"), protected \in UNION {ProtectiveExits(y.at) : y \in Inputs("bar")} :
        LET applied == BarApplied(opp, x.in.price, x.in.touch, x.at, protected)
        IN  \/ AppliedAt("bar", x.at, Revisited(applied, x.in.price, x.at), x.in.price, protected)
            \/ AppliedAt("bar", x.at, applied, x.in.price, protected)
  BY DEF IngestBar
<1> DEFINE applied == BarApplied(opp, x.in.price, x.in.touch, x.at, protected)
<1>2. /\ opp' = Revisited(applied, x.in.price, x.at) \/ opp' = applied
      /\ now' = now + 1
  BY <1>1 DEF AppliedAt
<1>3. x.at \in Times /\ now <= MaxTime /\ Typed(opp)
  BY InputsTyped DEF TypedInv
<1>4. Typed(applied)
  BY <1>3, BarAppliedTyped
<1> HIDE DEF applied
<1>5. Typed(Revisited(applied, x.in.price, x.at))
  BY <1>3, <1>4, RevisitedTyped
<1> QED  BY <1>2, <1>3, <1>4, <1>5, StepTyped

(* The aggregate is well formed in every reachable state.                  *)
THEOREM LifecycleTypedInvariant == Spec => []TypedInv
<1>1. Init => TypedInv
  <2> SUFFICES ASSUME Init PROVE TypedInv
    OBVIOUS
  <2>1. /\ DOMAIN Nothing = OpportunityFields /\ Nothing.status = "NONE"
        /\ Nothing.primary = "CORE_ENTRY" /\ Nothing.armed = 0 /\ Nothing.updated = 0
        /\ Nothing.lastBar = None /\ Nothing.cursor = None /\ Nothing.expires = 0
        /\ Nothing.refs = {} /\ Nothing.legs = {} /\ Nothing.cps = {}
        /\ Nothing.analyses = [h \in HorizonNames |-> NoAnalysis]
    BY DEF Nothing, NewOpportunity, OpportunityFields
  <2>2. 0 \in Times /\ None \in Times /\ 0 \in 0..Furthest /\ 1 \in 1..(MaxTime + 1)
    BY Bounds DEF Times, None
  <2>3. Typed(Nothing)
    BY <2>1, <2>2 DEF Typed, Statuses, Families, Core, NoAnalysis
  <2> QED  BY <2>2, <2>3 DEF Init, TypedInv
<1>2. LifecycleInv /\ TypedInv /\ [Next]_vars => TypedInv'
  <2> SUFFICES ASSUME LifecycleInv, TypedInv, [Next]_vars PROVE TypedInv'
    OBVIOUS
  <2>1. CASE UNCHANGED vars
    BY <2>1 DEF vars, TypedInv, Typed, ReferenceTyped, LegTyped, CheckpointTyped
  <2> QED  BY <2>1, TransitionTyped, SignalTyped, StrategiesTyped, OtherInputsTyped,
              AnalysisTyped, BarTyped DEF Next
<1> QED  BY <1>1, <1>2, LifecycleInvariant, PTL DEF Spec

(* Type correctness of the clock and the aggregate, for any inputs and any *)
(* lifetimes: a watching leg is the one that was never opened, a setup's   *)
(* current stage is never above its peak.                                  *)
THEOREM LifecycleTyped == Spec => []TypeOK
<1>1. LifecycleInv /\ TypedInv => TypeOK
  <2> SUFFICES ASSUME LifecycleInv, TypedInv PROVE TypeOK
    OBVIOUS
  <2>1. menu \in Menus /\ now \in 1..(MaxTime + 1) /\ opp.peak \in ARMED..L4 /\ Typed(opp)
    BY DEF LifecycleInv, Earned, Levelled, TypedInv
  <2>2. opp.expires \in Nat
    BY <2>1, Bounds DEF Typed
  <2> QED  BY <2>1, <2>2 DEF TypeOK, Typed, Statuses, ReferenceTyped, LegTyped, CheckpointTyped
<1> QED  BY <1>1, LifecycleInvariant, LifecycleTypedInvariant, PTL

---------------------------------------------------------------------------
(* What a step may close, and on which evidence.  Closes(o, u, why, X): u  *)
(* is o after some of its entries were closed, a paper entry and its legs  *)
(* (but the legs X) by evidence "why" that counts against them, and no leg *)
(* stayed open whose Core checkpoint closed.                               *)

(* A checkpoint is known by its level, stage, family and setup.            *)
SameKey(c, d) == c.level = d.level /\ c.stage = d.stage /\ c.fam = d.fam /\ c.setup = d.setup
Keyed(o) == \A c, d \in o.cps : SameKey(c, d) => c = d

Becomes(c, d, why) ==
  /\ SameKey(c, d) /\ c.reached = d.reached /\ c.stop = d.stop /\ c.target = d.target
  /\ d.open => c.open
  /\ c.open /\ ~d.open /\ Protectable(c) => Counts(why, c.reached, c.stop)

LegsClose(o, u, why, X) ==
  \A k \in u.legs :
    \/ k \in o.legs
    \/ \E l \in o.legs : /\ l.status = "OPEN" /\ k = CloseLeg(l)
                         /\ l \in X \/ Counts(why, l.opened, l.stop)

LegsFollow(o, u) ==
  \A c \in o.cps : c.open /\ c.fam \in Core =>
    \A d \in u.cps : SameKey(c, d) /\ ~d.open =>
      \A l \in u.legs : l.status = "OPEN" => ~SameEntry(o, c, l)

Closes(o, u, why, X) ==
  /\ Keyed(u)
  /\ \A l : LegFamily(u, l) = LegFamily(o, l)
  /\ \A d \in u.cps : \E c \in o.cps : Becomes(c, d, why)
  /\ \A c \in o.cps : \E d \in u.cps : Becomes(c, d, why)
  /\ LegsClose(o, u, why, X)
  /\ LegsFollow(o, u)

(* Evidence that has a time only.                                          *)
On(t) == [at |-> t, price |-> None]

LEMMA OnCounts ==
  ASSUME NEW t
  PROVE  /\ On(t).at = t
         /\ \A opened, stop : Counts(On(t), opened, stop) <=> t >= opened
BY DEF On, Counts

LEMMA BecomesThen ==
  ASSUME NEW c, NEW d, NEW e, NEW why, Becomes(c, d, why), Becomes(d, e, why)
  PROVE  Becomes(c, e, why)
BY DEF Becomes, SameKey, Protectable

LEMMA ClosedLeg ==
  ASSUME NEW l, LegTyped(l)
  PROVE  /\ CloseLeg(l).status = "CLOSED" /\ CloseLeg(l).opened = l.opened
         /\ CloseLeg(l).setup = l.setup /\ CloseLeg(l).fam = l.fam
BY DEF CloseLeg, LegTyped, LegFields

LEMMA ClosedCheckpoint ==
  ASSUME NEW c, CheckpointTyped(c)
  PROVE  LET d == CloseCheckpoint(c)
         IN  /\ d.level = c.level /\ d.stage = c.stage /\ d.fam = c.fam /\ d.setup = c.setup
             /\ d.reached = c.reached /\ d.stop = c.stop /\ d.target = c.target /\ d.open = FALSE
BY DEF CloseCheckpoint, CheckpointTyped, CheckpointFields

LEMMA ClosedBecomes ==
  ASSUME NEW c, NEW why, CheckpointTyped(c), c.open /\ Protectable(c) => Counts(why, c.reached, c.stop)
  PROVE  Becomes(c, CloseCheckpoint(c), why)
BY ClosedCheckpoint DEF Becomes, SameKey

LEMMA BecomesItself ==
  ASSUME NEW c, NEW why
  PROVE  Becomes(c, c, why)
BY DEF Becomes, SameKey

LEMMA ClosesItself ==
  ASSUME NEW o, NEW why, NEW X, Keyed(o)
  PROVE  Closes(o, o, why, X)
BY BecomesItself DEF Closes, LegsClose, LegsFollow, Keyed

LEMMA ClosesThen ==
  ASSUME NEW o, NEW u, NEW v, NEW why, NEW X, Typed(o), Keyed(o),
         Closes(o, u, why, X), Closes(u, v, why, X)
  PROVE  Closes(o, v, why, X)
<1>1. \A d \in v.cps : \E c \in o.cps : Becomes(c, d, why)
  BY BecomesThen DEF Closes
<1>2. \A c \in o.cps : \E d \in v.cps : Becomes(c, d, why)
  BY BecomesThen DEF Closes
<1>3. \A l \in u.legs : l.status = "OPEN" => l \in o.legs
  BY ClosedLeg DEF Closes, LegsClose, Typed
<1>4. LegsClose(o, v, why, X)
  BY <1>3 DEF Closes, LegsClose
<1>5. LegsFollow(o, v)
  <2> SUFFICES ASSUME NEW c \in o.cps, c.open, c.fam \in Core,
                      NEW d \in v.cps, SameKey(c, d), ~d.open,
                      NEW l \in v.legs, l.status = "OPEN", SameEntry(o, c, l)
               PROVE  FALSE
    BY DEF LegsFollow
  <2>1. PICK e \in u.cps : Becomes(e, d, why)
    BY DEF Closes
  <2>2. PICK b \in o.cps : Becomes(b, e, why)
    BY DEF Closes
  <2>3. b = c
    BY <2>1, <2>2 DEF Becomes, SameKey, Keyed
  <2>4. SameKey(c, e) /\ SameEntry(u, e, l) /\ e.fam \in Core
    BY <2>2, <2>3 DEF Becomes, SameKey, SameEntry, Closes
  <2>5. l \in u.legs
    <3>1. l \in u.legs \/ \E k \in u.legs : k.status = "OPEN" /\ l = CloseLeg(k)
      BY DEF Closes, LegsClose
    <3> QED  BY <1>3, <3>1, ClosedLeg DEF Typed
  <2>6. CASE e.open
    BY <2>1, <2>4, <2>6 DEF Closes, LegsFollow, Becomes
  <2>7. CASE ~e.open
    BY <2>4, <2>5, <2>7 DEF Closes, LegsFollow
  <2> QED  BY <2>6, <2>7
<1> QED  BY <1>1, <1>2, <1>4, <1>5 DEF Closes

(* Checkpoints that only close leave every leg its owner.                  *)
LEMMA BecomesOwners ==
  ASSUME NEW o, NEW u, NEW why, u.primary = o.primary, u.refs = o.refs,
         \A d \in u.cps : \E c \in o.cps : Becomes(c, d, why),
         \A c \in o.cps : \E d \in u.cps : Becomes(c, d, why)
  PROVE  \A l : LegFamily(u, l) = LegFamily(o, l)
<1> DEFINE owner(c) == <<c.fam, c.setup>>
<1>1. \A c, d : Becomes(c, d, why) => owner(c) = owner(d)
  BY DEF Becomes, SameKey
<1> HIDE DEF owner
<1>2. {owner(c) : c \in u.cps} = {owner(c) : c \in o.cps}
  BY <1>1
<1>3. {<<c.fam, c.setup>> : c \in u.cps} = {<<c.fam, c.setup>> : c \in o.cps}
  BY <1>2 DEF owner
<1>4. SameOwners(o, u)
  BY <1>3 DEF SameOwners
<1> QED  BY <1>4, OwnersDecide

(* _close_core_entries closes on evidence that is not older, and the legs  *)
(* follow their checkpoint.                                                *)
LEMMA CloseCoreEntriesCloses ==
  ASSUME NEW o, NEW fams, NEW hz, NEW ev \in Int, NEW at \in Times, NEW breach, NEW why, NEW X,
         why.at \in Int, ev <= why.at \/ (breach # None /\ why.price = breach),
         Typed(o), Keyed(o)
  PROVE  Closes(o, CloseCoreEntries(o, fams, hz, ev, at, breach), why, X)
<1> DEFINE legs == LegsLeft(o, fams, hz, ev, breach)
           cps == CheckpointsLeft(o, fams, hz, ev, breach)
           updated == [o EXCEPT !.legs = legs, !.cps = cps, !.updated = Larger(@, at)]
           closed == ClosedWhenDone(updated, at)
           u == FollowCheckpoints(o, closed)
           out(c) == OwnedCheckpoint(o, c, fams, hz, ev, breach)
           f(c) == IF out(c) THEN CloseCheckpoint(c) ELSE c
           going == AnythingOpen(updated)
           g(c) == IF going THEN f(c) ELSE CloseCheckpoint(f(c))
           exits == {c \in o.cps : c.open /\ c \notin closed.cps}
           follows(l) == l.status = "OPEN" /\ \E c \in exits : SameEntry(closed, c, l)
<1>1. CloseCoreEntries(o, fams, hz, ev, at, breach) = IF legs = o.legs /\ cps = o.cps THEN o ELSE u
  BY DEF CloseCoreEntries
<1>2. /\ \A c \in o.cps : CheckpointTyped(c) /\ c.reached \in Int
      /\ \A l \in o.legs : LegTyped(l) /\ l.opened \in Int
  BY DEF Typed, CheckpointTyped, LegTyped, Times, None
<1>3. cps = {f(c) : c \in o.cps}
  BY DEF CheckpointsLeft
<1>4. \A l \in legs : l \in o.legs \/ \E k \in o.legs : k.status = "OPEN" /\ l = CloseLeg(k) /\ Counts(why, k.opened, k.stop)
  <2>1. \A l \in legs : \/ l \in o.legs
                        \/ \E k \in o.legs : /\ k.status = "OPEN" /\ l = CloseLeg(k)
                                             /\ OwnedLeg(o, k, fams, hz, ev, breach)
    BY DEF LegsLeft
  <2>2. ASSUME NEW k \in o.legs, k.status = "OPEN", OwnedLeg(o, k, fams, hz, ev, breach)
        PROVE  Counts(why, k.opened, k.stop)
    <3>1. k.opened # None /\ k.opened \in Int
      BY <1>2, <2>2 DEF LegTyped
    <3>2. ev >= k.opened /\ (breach = None \/ breach <= k.stop)
      BY <2>2, <3>1 DEF OwnedLeg
    <3> QED  BY <3>1, <3>2 DEF Counts
  <2> QED  BY <2>1, <2>2
<1>5. \A c \in o.cps : out(c) => c.open /\ Counts(why, c.reached, c.stop)
  BY <1>2 DEF OwnedCheckpoint, Counts
<1>6. \A c \in o.cps : CheckpointTyped(f(c)) /\ Becomes(c, f(c), why)
  BY <1>2, <1>5, CloseCheckpointTyped, ClosedBecomes, BecomesItself
<1>7. \A c \in o.cps : out(c) => ~f(c).open
  BY <1>2, ClosedCheckpoint
<1>8. \A c \in o.cps : ~out(c) => f(c) = c
  OBVIOUS
<1> HIDE DEF legs, cps, f, out
<1>9. /\ DOMAIN updated = OpportunityFields /\ updated.cps = cps /\ updated.legs = legs
      /\ updated.primary = o.primary /\ updated.refs = o.refs
  BY DEF Typed, OpportunityFields
<1> HIDE DEF updated
<1>10. /\ \A c \in o.cps : ~going => ~f(c).open
       /\ \A l \in legs : ~going => l.status = "CLOSED"
  BY <1>3, <1>9 DEF AnythingOpen
<1>11. /\ DOMAIN closed = OpportunityFields /\ closed.primary = o.primary /\ closed.refs = o.refs
       /\ closed.cps = {g(c) : c \in o.cps} /\ closed.legs = legs
  <2>1. CASE going
    BY <1>3, <1>9, <2>1 DEF ClosedWhenDone
  <2>2. CASE ~going
    <3> DEFINE w == CloseOpportunity(updated, at)
    <3>1. closed = w
      BY <2>2 DEF ClosedWhenDone
    <3>2. /\ DOMAIN w = OpportunityFields /\ w.primary = updated.primary /\ w.refs = updated.refs
          /\ w.cps = {CloseCheckpoint(c) : c \in updated.cps}
          /\ w.legs = {IF l.status = "OPEN" THEN CloseLeg(l) ELSE l : l \in updated.legs}
      BY <1>9 DEF CloseOpportunity, OpportunityFields
    <3> HIDE DEF w, closed, going
    <3>3. w.legs = legs
      BY <1>9, <1>10, <2>2, <3>2
    <3>4. w.cps = {g(c) : c \in o.cps}
      BY <1>3, <1>9, <2>2, <3>2
    <3> QED  BY <1>9, <3>1, <3>2, <3>3, <3>4
  <2> QED  BY <2>1, <2>2
<1>12. \A c \in o.cps : Becomes(c, g(c), why) /\ (c.open /\ ~g(c).open => out(c)) /\ (~out(c) /\ c.open => g(c) = c)
  <2> SUFFICES ASSUME NEW c \in o.cps
               PROVE  /\ Becomes(c, g(c), why) /\ (c.open /\ ~g(c).open => out(c))
                      /\ (~out(c) /\ c.open => g(c) = c)
    OBVIOUS
  <2>1. CASE going
    BY <1>6, <1>8, <2>1
  <2>2. CASE ~going
    <3>1. ~f(c).open
      BY <1>10, <2>2
    <3>2. Becomes(f(c), CloseCheckpoint(f(c)), why)
      BY <1>6, <3>1, ClosedBecomes
    <3>3. Becomes(c, CloseCheckpoint(f(c)), why)
      BY <1>6, <3>2, BecomesThen
    <3>4. c.open => out(c)
      BY <1>8, <3>1
    <3> QED  BY <2>2, <3>3, <3>4
  <2> QED  BY <2>1, <2>2
<1> HIDE DEF g, going, closed
<1>13. /\ u.primary = o.primary /\ u.refs = o.refs /\ u.cps = {g(c) : c \in o.cps}
       /\ u.legs = {IF follows(l) THEN CloseLeg(l) ELSE l : l \in legs}
  BY <1>11 DEF FollowCheckpoints, OpportunityFields
<1> HIDE DEF u
<1>14. (\A d \in u.cps : \E c \in o.cps : Becomes(c, d, why)) /\ (\A c \in o.cps : \E d \in u.cps : Becomes(c, d, why))
  BY <1>12, <1>13
<1>15. \A l : LegFamily(u, l) = LegFamily(o, l) /\ LegFamily(closed, l) = LegFamily(o, l)
  <2>1. closed.cps = u.cps
    BY <1>11, <1>13
  <2> QED  BY <1>11, <1>13, <1>14, <2>1, BecomesOwners
<1>16. Keyed(u)
  <2>1. \A c \in o.cps, d \in o.cps : SameKey(g(c), g(d)) => c = d
    BY <1>12 DEF Becomes, SameKey, Keyed
  <2> QED  BY <1>13, <2>1 DEF Keyed
<1>17. \A c \in exits : c \in o.cps /\ out(c)
  BY <1>11, <1>12
<1>18. LegsClose(o, u, why, X)
  <2> SUFFICES ASSUME NEW k \in u.legs
               PROVE  \/ k \in o.legs
                      \/ \E l \in o.legs : l.status = "OPEN" /\ k = CloseLeg(l) /\ Counts(why, l.opened, l.stop)
    BY DEF LegsClose
  <2>1. PICK l \in legs : k = IF follows(l) THEN CloseLeg(l) ELSE l
    BY <1>13
  <2>2. CASE follows(l)
    <3>1. PICK c \in exits : SameEntry(closed, c, l)
      BY <2>2
    <3>2. Counts(why, c.reached, c.stop) /\ l.opened = c.reached /\ l.stop = c.stop
      BY <1>5, <1>17, <3>1 DEF SameEntry
    <3>3. l.status = "OPEN" /\ l \in o.legs
      BY <1>2, <1>4, <2>2, ClosedLeg
    <3> QED  BY <2>1, <2>2, <3>2, <3>3
  <2>3. CASE ~follows(l)
    BY <1>4, <2>1, <2>3
  <2> QED  BY <2>2, <2>3
<1>19. LegsFollow(o, u)
  <2> SUFFICES ASSUME NEW c \in o.cps, c.open, c.fam \in Core,
                      NEW d \in u.cps, SameKey(c, d), ~d.open,
                      NEW k \in u.legs, k.status = "OPEN"
               PROVE  ~SameEntry(o, c, k)
    BY DEF LegsFollow
  <2>1. PICK b \in o.cps : d = g(b)
    BY <1>13
  <2>2. b = c
    BY <1>12, <2>1 DEF Becomes, SameKey, Keyed
  <2>3. c \notin closed.cps
    <3> SUFFICES ASSUME c \in closed.cps PROVE FALSE
      OBVIOUS
    <3>1. PICK e \in o.cps : c = g(e)
      BY <1>11
    <3>2. e = c
      BY <1>12, <3>1 DEF Becomes, SameKey, Keyed
    <3> QED  BY <2>1, <2>2, <3>1, <3>2
  <2>4. PICK l \in legs : k = IF follows(l) THEN CloseLeg(l) ELSE l
    BY <1>13
  <2>5. LegTyped(l)
    BY <1>2, <1>4, CloseLegTyped
  <2>6. k = l /\ ~follows(l)
    BY <2>4, <2>5, ClosedLeg
  <2>7. ~SameEntry(closed, c, k)
    BY <2>3, <2>6
  <2> QED  BY <1>15, <2>7 DEF SameEntry
<1>20. Closes(o, u, why, X)
  BY <1>14, <1>15, <1>16, <1>18, <1>19 DEF Closes
<1> QED  BY <1>1, <1>20, ClosesItself

(* _fresh_exit_mark is an observation, and not a future one.               *)
LEMMA MarkIsTime ==
  ASSUME NEW o, NEW asOf \in Times, NEW t \in Times, Typed(o)
  PROVE  /\ MarkAt(o, asOf, t) \in Times
         /\ MarkAt(o, asOf, t) # None => MarkAt(o, asOf, t) <= t
<1> DEFINE observed == {o.armed, o.lastBar, asOf} \union {c.reached : c \in o.cps}
                       \union {o.analyses[h].at : h \in HorizonNames}
           eligible == {x \in observed : x # None /\ x <= t /\ t - x <= MarkAge}
           largest == CHOOSE x \in eligible : \A y \in eligible : y <= x
<1>1. MarkAt(o, asOf, t) = IF eligible = {} THEN None ELSE largest
  BY DEF MarkAt
<1>2. None \in Times /\ Times \subseteq Int
  BY Bounds DEF Times, None
<1>3. observed \subseteq Times
  BY DEF Typed, CheckpointTyped
<1>4. \A x \in eligible : x \in Times /\ x \in Int /\ x <= t
  BY <1>2, <1>3
<1> HIDE DEF eligible
<1>5. CASE eligible # {}
  <2>1. t \in Int
    BY <1>2
  <2>2. \E x \in eligible : \A y \in eligible : y <= x
    BY <1>4, <1>5, <2>1, LargestOf
  <2>3. largest \in eligible
    BY <2>2
  <2> QED  BY <1>1, <1>4, <1>5, <2>3
<1>6. CASE eligible = {}
  BY <1>1, <1>2, <1>6
<1> QED  BY <1>5, <1>6

LEMMA ApplyInvalidationCloses ==
  ASSUME NEW o, NEW u, NEW hz, NEW a, NEW t \in Times, NEW price, NEW why, NEW X,
         Typed(o), Typed(u), Keyed(u), a.at \in Times, why.at \in Int,
         MarkAt(o, a.at, t) # None =>
           MarkAt(o, a.at, t) <= why.at \/ (price # None /\ why.price = price),
         a.at <= t => a.at <= why.at
  PROVE  Closes(u, ApplyInvalidation(o, u, hz, a, t, price), why, X)
<1> DEFINE mark == MarkAt(o, a.at, t)
           bearish == a.view = "bearish"
           longFailure == hz = "LONG" /\ a.view \in {"bearish", "avoid"}
           scope == IF longFailure THEN "all" ELSE hz
           stopped == CloseCoreEntries(u, Core, "all", mark, t, price)
           core == CloseCoreEntries(stopped, {"CORE_ENTRY"}, scope, a.at, t, None)
           failed == IF longFailure \/ bearish THEN core ELSE stopped
           rest == CloseCoreEntries(failed, {"CORE_RECOVERY"}, "all", a.at, t, None)
<1>1. ApplyInvalidation(o, u, hz, a, t, price) =
        IF mark = None \/ a.at > t THEN u ELSE IF bearish /\ hz = "SWING" THEN rest ELSE failed
  BY DEF ApplyInvalidation
<1>2. mark \in Times /\ mark \in Int /\ a.at \in Int /\ t \in Int
  <2>1. Times \subseteq Int
    BY Bounds DEF Times, None
  <2> QED  BY <2>1, MarkIsTime
<1>3. CASE mark = None \/ a.at > t
  BY <1>1, <1>3, ClosesItself
<1>4. CASE ~(mark = None \/ a.at > t)
  <2>1. (mark <= why.at \/ (price # None /\ why.price = price)) /\ a.at <= why.at
    BY <1>2, <1>4
  <2> HIDE DEF mark
  <2>2. Typed(stopped) /\ Closes(u, stopped, why, X)
    BY <1>2, <2>1, CloseCoreEntriesTyped, CloseCoreEntriesCloses
  <2>3. Keyed(stopped)
    BY <2>2 DEF Closes
  <2> HIDE DEF stopped
  <2>4. Typed(core) /\ Closes(stopped, core, why, X)
    BY <1>2, <2>1, <2>2, <2>3, CloseCoreEntriesTyped, CloseCoreEntriesCloses
  <2>5. Closes(u, core, why, X)
    BY <2>2, <2>4, ClosesThen
  <2> HIDE DEF core
  <2>6. Typed(failed) /\ Closes(u, failed, why, X)
    BY <2>2, <2>4, <2>5
  <2>7. Keyed(failed)
    BY <2>6 DEF Closes
  <2> HIDE DEF failed
  <2>8. Closes(failed, rest, why, X)
    BY <1>2, <2>1, <2>6, <2>7, CloseCoreEntriesCloses
  <2>9. Closes(u, rest, why, X)
    BY <2>6, <2>8, ClosesThen
  <2> HIDE DEF rest, bearish
  <2> QED  BY <1>1, <1>4, <2>6, <2>9
<1> QED  BY <1>3, <1>4

(* Steps that change other fields, or the dates of the anchor.             *)
LEMMA SameEntriesCloses ==
  ASSUME NEW o, NEW u, NEW why, NEW X, Keyed(o), u.primary = o.primary, u.refs = o.refs,
         u.legs = o.legs, u.cps = o.cps
  PROVE  Closes(o, u, why, X)
<1>1. SameOwners(o, u)
  BY DEF SameOwners
<1>2. \A l : LegFamily(u, l) = LegFamily(o, l)
  BY <1>1, OwnersDecide
<1>3. Keyed(u) /\ LegsClose(o, u, why, X)
  BY DEF Keyed, LegsClose
<1>4. LegsFollow(o, u)
  BY DEF LegsFollow, Keyed
<1> QED  BY <1>2, <1>3, <1>4, BecomesItself DEF Closes

LEMMA RecordRetestCloses ==
  ASSUME NEW o, NEW touched, NEW when, NEW at, NEW why, NEW X, Typed(o), Keyed(o)
  PROVE  Closes(o, RecordRetest(o, touched, when, at), why, X)
<1> DEFINE u == Retested(o, at)
           g(c) == IF c \in Anchors(o) THEN [c EXCEPT !.retested = at] ELSE c
<1>1. RecordRetest(o, touched, when, at) \in {o, u}
  BY DEF RecordRetest
<1>2. /\ u.primary = o.primary /\ u.refs = o.refs /\ u.legs = o.legs
      /\ u.cps = {g(c) : c \in o.cps}
  BY DEF Retested, Typed, OpportunityFields
<1>3. \A c \in o.cps : SameKey(c, g(c)) /\ Becomes(c, g(c), why) /\ (c.open <=> g(c).open)
  BY DEF Typed, CheckpointTyped, CheckpointFields, Becomes, SameKey
<1> HIDE DEF u, g
<1>4. (\A d \in u.cps : \E c \in o.cps : Becomes(c, d, why)) /\ (\A c \in o.cps : \E d \in u.cps : Becomes(c, d, why))
  BY <1>2, <1>3
<1>5. \A l : LegFamily(u, l) = LegFamily(o, l)
  BY <1>2, <1>4, BecomesOwners
<1>6. Keyed(u)
  <2>1. \A c \in o.cps, d \in o.cps : SameKey(g(c), g(d)) => c = d
    BY <1>3 DEF SameKey, Keyed
  <2> QED  BY <1>2, <2>1 DEF Keyed
<1>7. LegsClose(o, u, why, X)
  BY <1>2 DEF LegsClose
<1>8. LegsFollow(o, u)
  <2> SUFFICES ASSUME NEW c \in o.cps, c.open, NEW d \in u.cps, SameKey(c, d), ~d.open  PROVE  FALSE
    BY DEF LegsFollow
  <2>1. PICK b \in o.cps : d = g(b)
    BY <1>2
  <2>2. b = c
    BY <1>3, <2>1 DEF SameKey, Keyed
  <2> QED  BY <1>3, <2>1, <2>2
<1>9. Closes(o, u, why, X)
  BY <1>4, <1>5, <1>6, <1>7, <1>8 DEF Closes
<1> QED  BY <1>1, <1>9, ClosesItself

(* A bar closes what it reached after the entry, and the legs of an entry  *)
(* have its levels.                                                        *)
LEMMA MarkedCloses ==
  ASSUME NEW o, NEW p, NEW t \in Int, NEW protected, NEW X, Typed(o), Keyed(o),
         \A c \in protected : c \in o.cps /\ c.open /\ t > c.reached
  PROVE  Closes(o, Marked(o, p, t, protected), On(t), X)
<1> DEFINE u == Marked(o, p, t, protected)
           leaves(l) == \/ t > l.opened /\ Touches(p, l)
                        \/ \E c \in protected : SameEntry(o, c, l)
           out(c) == c.open /\ ((t > c.reached /\ Touches(p, c)) \/ c \in protected)
           g(c) == IF out(c) THEN CloseCheckpoint(c) ELSE c
<1>1. /\ u.primary = o.primary /\ u.refs = o.refs
      /\ u.cps = {g(c) : c \in o.cps}
      /\ u.legs = {IF l.status = "OPEN" /\ leaves(l) THEN CloseLeg(l) ELSE l : l \in o.legs}
  BY DEF Marked, Typed, OpportunityFields
<1>2. /\ \A c \in o.cps : CheckpointTyped(c) /\ c.reached \in Int
      /\ \A l \in o.legs : LegTyped(l) /\ l.opened \in Int
  BY DEF Typed, CheckpointTyped, LegTyped, Times, None
<1>3. \A c \in o.cps : out(c) => t >= c.reached
  BY <1>2
<1>4. \A c \in o.cps : Becomes(c, g(c), On(t)) /\ (~out(c) => g(c) = c)
  BY <1>2, <1>3, OnCounts, ClosedBecomes, BecomesItself
<1>5. \A l \in o.legs : leaves(l) => t >= l.opened
  BY <1>2 DEF SameEntry
<1>6. ASSUME NEW c \in o.cps, out(c), NEW l \in o.legs, SameEntry(o, c, l)
      PROVE  leaves(l)
  <2>1. l.opened = c.reached /\ l.stop = c.stop /\ l.target = c.target
    BY <1>6 DEF SameEntry
  <2>2. Touches(p, c) => Touches(p, l)
    BY <2>1 DEF Touches
  <2> QED  BY <1>6, <2>1, <2>2
<1> HIDE DEF u, g, leaves, out
<1>7. (\A d \in u.cps : \E c \in o.cps : Becomes(c, d, On(t))) /\ (\A c \in o.cps : \E d \in u.cps : Becomes(c, d, On(t)))
  BY <1>1, <1>4
<1>8. \A l : LegFamily(u, l) = LegFamily(o, l)
  BY <1>1, <1>7, BecomesOwners
<1>9. Keyed(u)
  <2>1. \A c \in o.cps, d \in o.cps : SameKey(g(c), g(d)) => c = d
    BY <1>4 DEF Becomes, SameKey, Keyed
  <2> QED  BY <1>1, <2>1 DEF Keyed
<1>10. LegsClose(o, u, On(t), X)
  BY <1>1, <1>5, OnCounts DEF LegsClose
<1>11. LegsFollow(o, u)
  <2> SUFFICES ASSUME NEW c \in o.cps, c.open, NEW d \in u.cps, SameKey(c, d), ~d.open,
                      NEW k \in u.legs, k.status = "OPEN", SameEntry(o, c, k)
               PROVE  FALSE
    BY DEF LegsFollow
  <2>1. PICK b \in o.cps : d = g(b)
    BY <1>1
  <2>2. b = c
    BY <1>4, <2>1 DEF Becomes, SameKey, Keyed
  <2>3. out(c)
    BY <1>4, <2>1, <2>2
  <2>4. PICK l \in o.legs : k = IF l.status = "OPEN" /\ leaves(l) THEN CloseLeg(l) ELSE l
    BY <1>1
  <2>5. k = l /\ ~leaves(l)
    BY <1>2, <2>4, ClosedLeg
  <2> QED  BY <1>6, <2>3, <2>5
<1>12. Closes(o, u, On(t), X)
  BY <1>7, <1>8, <1>9, <1>10, <1>11 DEF Closes
<1> QED  BY <1>12 DEF u

LEMMA SessionCloses ==
  ASSUME NEW o, NEW u, NEW t, NEW why, NEW X, Typed(o), Keyed(o),
         u.primary = o.primary, u.refs = o.refs, u.cps = o.cps,
         u.legs = SessionClosed(o, t).legs,
         \A l \in o.legs : t \in SessionEnds /\ l.hz = "INTRADAY" => l \in X
  PROVE  Closes(o, u, why, X)
<1>1. u.legs = {IF t \in SessionEnds /\ l.hz = "INTRADAY" /\ l.status = "OPEN"
                THEN CloseLeg(l) ELSE l : l \in o.legs}
  BY DEF SessionClosed, Typed, OpportunityFields
<1>2. \A l : LegFamily(u, l) = LegFamily(o, l)
  BY OwnersDecide DEF SameOwners
<1>3. LegsClose(o, u, why, X)
  BY <1>1 DEF LegsClose
<1>4. LegsFollow(o, u) /\ Keyed(u)
  BY DEF LegsFollow, Keyed
<1> QED  BY <1>2, <1>3, <1>4, BecomesItself DEF Closes

(* The end of the whole thesis.                                            *)
LEMMA ThesisCloses ==
  ASSUME NEW o, NEW at, NEW why, NEW X, Typed(o), Keyed(o), CanClose(o),
         \A l \in o.legs : l.status = "OPEN" => l \in X \/ Counts(why, l.opened, l.stop)
  PROVE  Closes(o, CloseOpportunity(o, at), why, X)
<1> DEFINE u == CloseOpportunity(o, at)
<1>1. /\ u.primary = o.primary /\ u.refs = o.refs
      /\ u.cps = {CloseCheckpoint(c) : c \in o.cps}
      /\ u.legs = {IF l.status = "OPEN" THEN CloseLeg(l) ELSE l : l \in o.legs}
  BY DEF CloseOpportunity, Typed, OpportunityFields
<1>2. \A c \in o.cps : c.open => ~Protectable(c)
  <2> SUFFICES ASSUME NEW c \in o.cps, c.open PROVE ~Protectable(c)
    OBVIOUS
  <2>1. c.fam = "CORE_ENTRY" /\ c.level < L1 /\ c.level \in Int
    BY DEF CanClose, Typed, CheckpointTyped, ARMED, L4
  <2> QED  BY <2>1 DEF Protectable, L1
<1>3. \A c \in o.cps : Becomes(c, CloseCheckpoint(c), why)
  BY <1>2, ClosedBecomes DEF Typed
<1> HIDE DEF u
<1>4. (\A d \in u.cps : \E c \in o.cps : Becomes(c, d, why)) /\ (\A c \in o.cps : \E d \in u.cps : Becomes(c, d, why))
  BY <1>1, <1>3
<1>5. \A l : LegFamily(u, l) = LegFamily(o, l)
  BY <1>1, <1>4, BecomesOwners
<1>6. Keyed(u)
  <2>1. \A c \in o.cps, d \in o.cps : SameKey(CloseCheckpoint(c), CloseCheckpoint(d)) => c = d
    BY <1>3 DEF Becomes, SameKey, Keyed
  <2> QED  BY <1>1, <2>1 DEF Keyed
<1>7. LegsClose(o, u, why, X)
  BY <1>1 DEF LegsClose
<1>8. \A l \in u.legs : l.status # "OPEN"
  BY <1>1, ClosedLeg DEF Typed
<1>9. Closes(o, u, why, X)
  BY <1>4, <1>5, <1>6, <1>7, <1>8 DEF Closes, LegsFollow
<1> QED  BY <1>9 DEF u

(* The legs whose end asks for no evidence: at the close of the session    *)
(* the INTRADAY ones, and those that no open paper entry stands for.       *)
Excused(o, t) ==
  {l \in o.legs : \/ l.hz = "INTRADAY" /\ t \in SessionEnds
                  \/ ~\E e \in o.cps : e.open /\ Protectable(e) /\ SameEntry(o, e, l)}

(* If an open leg is left when the thesis may end, its entry has just been *)
(* closed, or it is excused.                                               *)
LEMMA LeftLegs ==
  ASSUME NEW o, NEW u, NEW t \in Int, Typed(o), Keyed(o), Closes(o, u, On(t), Excused(o, t)), CanClose(u)
  PROVE  \A l \in u.legs : l.status = "OPEN" => l \in Excused(o, t) \/ Counts(On(t), l.opened, l.stop)
<1> SUFFICES ASSUME NEW l \in u.legs, l.status = "OPEN", l \notin Excused(o, t)
             PROVE  Counts(On(t), l.opened, l.stop)
  OBVIOUS
<1>1. l \in o.legs
  BY ClosedLeg DEF Closes, LegsClose, Typed
<1>2. PICK e \in o.cps : e.open /\ Protectable(e) /\ SameEntry(o, e, l)
  BY <1>1 DEF Excused
<1>3. PICK d \in u.cps : Becomes(e, d, On(t))
  BY DEF Closes
<1>4. Protectable(d)
  BY <1>2, <1>3 DEF Becomes, SameKey, Protectable
<1>5. ~d.open
  <2> SUFFICES ASSUME d.open PROVE FALSE
    OBVIOUS
  <2>1. d.fam = "CORE_ENTRY" /\ d.level < L1
    BY DEF CanClose
  <2>2. d.level \in Int
    BY <1>3 DEF Becomes, SameKey, Typed, CheckpointTyped, ARMED, L4
  <2> QED  BY <1>4, <2>1, <2>2 DEF Protectable, L1
<1> QED  BY <1>2, <1>3, <1>5 DEF Becomes, SameEntry

LEMMA BarAppliedCloses ==
  ASSUME NEW o, NEW p, NEW touch, NEW t \in Times, NEW protected, Typed(o), Keyed(o),
         \A c \in protected : c \in o.cps /\ c.open /\ t > c.reached
  PROVE  Closes(o, BarApplied(o, p, touch, t, protected), On(t), Excused(o, t))
<1> DEFINE low == Lower(p, EntryPrice)
           near == touch /\ \A c \in Anchors(o) : low > c.stop
           first == Marked(o, p, t, protected)
           marked == RecordRetest(first, near, t, t)
           session == SessionClosed(marked, t)
           updated == [session EXCEPT !.updated = Larger(@, t), !.lastBar = t, !.price = p]
           stamped == [marked EXCEPT !.lastBar = t, !.price = p]
           X == Excused(o, t)
<1>1. BarApplied(o, p, touch, t, protected) =
        IF low <= o.inval /\ CanClose(marked) THEN CloseOpportunity(stamped, t)
        ELSE IF AllOpenedTerminal(updated) /\ CanClose(updated) THEN CloseOpportunity(updated, t)
        ELSE updated
  BY DEF BarApplied
<1>2. t \in Int
  BY Bounds DEF Times, None
<1>3. Typed(first) /\ Closes(o, first, On(t), X)
  BY <1>2, MarkedTyped, MarkedCloses
<1>4. Keyed(first)
  BY <1>3 DEF Closes
<1> HIDE DEF X, first
<1>5. Typed(marked) /\ Closes(first, marked, On(t), X)
  BY <1>3, <1>4, RecordRetestTyped, RecordRetestCloses
<1>6. Closes(o, marked, On(t), X)
  BY <1>3, <1>5, ClosesThen
<1>7. Keyed(marked)
  BY <1>6 DEF Closes
<1> HIDE DEF marked
<1>8. /\ DOMAIN stamped = OpportunityFields /\ stamped.cps = marked.cps /\ stamped.legs = marked.legs
      /\ stamped.primary = marked.primary /\ stamped.refs = marked.refs
  BY <1>5 DEF Typed, OpportunityFields
<1>9. Typed(session) /\ Typed(stamped)
  BY <1>5, SessionClosedTyped, StampedTyped
<1>10. /\ DOMAIN session = OpportunityFields /\ session.cps = marked.cps
       /\ session.primary = marked.primary /\ session.refs = marked.refs
  BY <1>5 DEF SessionClosed, Typed, OpportunityFields
<1> HIDE DEF stamped
<1>11. /\ updated.cps = marked.cps /\ updated.legs = SessionClosed(marked, t).legs
       /\ updated.primary = marked.primary /\ updated.refs = marked.refs
  BY <1>10 DEF OpportunityFields
<1>12. Typed(updated)
  BY <1>9, StampedTyped
<1> HIDE DEF session, updated
<1>13. Closes(o, stamped, On(t), X)
  <2>1. Closes(marked, stamped, On(t), X)
    BY <1>7, <1>8, SameEntriesCloses
  <2> QED  BY <1>6, <2>1, ClosesThen
<1>14. Closes(o, updated, On(t), X)
  <2> DEFINE W == {l \in marked.legs : l.status = "OPEN" => l \in X}
  <2>1. \A l \in marked.legs : l.status = "OPEN" => l \in o.legs
    BY <1>6, ClosedLeg DEF Closes, LegsClose, Typed
  <2>2. \A l \in marked.legs : t \in SessionEnds /\ l.hz = "INTRADAY" => l \in W
    BY <2>1 DEF X, Excused
  <2>3. Closes(marked, updated, On(t), W)
    BY <1>5, <1>7, <1>11, <2>2, SessionCloses
  <2>4. Closes(marked, updated, On(t), X)
    BY <2>3 DEF Closes, LegsClose
  <2> QED  BY <1>6, <2>4, ClosesThen
<1>15. \A l : LegFamily(stamped, l) = LegFamily(marked, l)
  BY <1>8, OwnersDecide DEF SameOwners
<1>16. CanClose(marked) => CanClose(stamped)
  BY <1>8, <1>15 DEF CanClose
<1>17. ASSUME NEW u, Typed(u), Closes(o, u, On(t), X), CanClose(u)
       PROVE  Closes(o, CloseOpportunity(u, t), On(t), X)
  <2>1. \A l \in u.legs : l.status = "OPEN" => l \in X \/ Counts(On(t), l.opened, l.stop)
    BY <1>2, <1>17, LeftLegs DEF X
  <2>2. Keyed(u)
    BY <1>17 DEF Closes
  <2>3. Closes(u, CloseOpportunity(u, t), On(t), X)
    BY <1>17, <2>1, <2>2, ThesisCloses
  <2> QED  BY <1>17, <2>3, ClosesThen
<1>18. /\ CanClose(marked) => Closes(o, CloseOpportunity(stamped, t), On(t), X)
       /\ CanClose(updated) => Closes(o, CloseOpportunity(updated, t), On(t), X)
  BY <1>9, <1>12, <1>13, <1>14, <1>16, <1>17
<1>19. Closes(o, BarApplied(o, p, touch, t, protected), On(t), X)
  BY <1>1, <1>14, <1>18
<1> QED  BY <1>19 DEF X

LEMMA RevisitedCloses ==
  ASSUME NEW o, NEW p, NEW t \in Times, NEW X, Typed(o), Keyed(o)
  PROVE  Closes(o, Revisited(o, p, t), On(t), X)
<1> DEFINE again(u, h) == IF u.analyses[h].view = "none" THEN u
                          ELSE ApplyInvalidation(u, u, h, u.analyses[h], t, BarMark(u, p, t))
           once == again(o, "LONG")
           twice == again(once, "SWING")
<1>1. Revisited(o, p, t) = again(again(again(o, "LONG"), "SWING"), "INTRADAY")
  BY DEF Revisited
<1>2. ASSUME NEW u, NEW h \in HorizonNames, Typed(u), Keyed(u)
      PROVE  Typed(again(u, h)) /\ Keyed(again(u, h)) /\ Closes(u, again(u, h), On(t), X)
  <2> DEFINE v == ApplyInvalidation(u, u, h, u.analyses[h], t, BarMark(u, p, t))
  <2>1. u.analyses[h].at \in Times
    BY <1>2 DEF Typed
  <2>2. On(t).at = t /\ t \in Int
    BY OnCounts, Bounds DEF Times, None
  <2>3. Typed(v)
    BY <1>2, ApplyInvalidationTyped
  <2>4. Closes(u, v, On(t), X)
    BY <1>2, <2>1, <2>2, MarkIsTime, ApplyInvalidationCloses
  <2>5. Closes(u, u, On(t), X)
    BY <1>2, ClosesItself
  <2> HIDE DEF v
  <2>6. Keyed(v)
    BY <2>4 DEF Closes
  <2> QED  BY <1>2, <2>3, <2>4, <2>5, <2>6 DEF v
<1> HIDE DEF again
<1>3. "LONG" \in HorizonNames /\ "SWING" \in HorizonNames /\ "INTRADAY" \in HorizonNames
  BY DEF HorizonNames
<1>4. Typed(once) /\ Keyed(once) /\ Closes(o, once, On(t), X)
  BY <1>2, <1>3
<1> HIDE DEF once
<1>5. Typed(twice) /\ Keyed(twice) /\ Closes(o, twice, On(t), X)
  BY <1>2, <1>3, <1>4, ClosesThen
<1> HIDE DEF twice
<1>6. Closes(o, again(twice, "INTRADAY"), On(t), X)
  BY <1>2, <1>3, <1>5, ClosesThen
<1> QED  BY <1>1, <1>6 DEF once, twice

---------------------------------------------------------------------------
(* What NoOrphanLeg and EvidenceNotOlder ask of a step.                    *)

Followed(o, u) ==
  \A c \in o.cps :
    c.fam \in Core /\ c.open /\ CloseCheckpoint(c) \in u.cps =>
      \A l \in u.legs : l.status = "OPEN" => ~SameEntry(u, c, l)

Timely(o, u, why, at) ==
  /\ \A c \in o.cps : c.open /\ CloseCheckpoint(c) \in u.cps /\ Protectable(c)
                      => Counts(why, c.reached, c.stop)
  /\ \A l \in o.legs \ u.legs : \A c \in o.cps :
       /\ l.status = "OPEN" /\ CloseLeg(l) \in u.legs \ o.legs
       /\ c.open /\ Protectable(c) /\ SameEntry(o, c, l)
       /\ ~(l.hz = "INTRADAY" /\ at \in SessionEnds)
       => Counts(why, l.opened, l.stop)

Evidenced ==
  IsLong /\ last'.kind \in {"watch", "analysis", "bar", "swing"} =>
    LET e == [at |-> last'.at, price |-> IF last'.kind = "analysis" THEN last'.price ELSE None]
    IN  Timely(opp, opp', e, last'.at)

LEMMA ClosesFollowed ==
  ASSUME NEW o, NEW u, NEW why, NEW X, Typed(o), Closes(o, u, why, X)
  PROVE  Followed(o, u)
<1> SUFFICES ASSUME NEW c \in o.cps, c.fam \in Core, c.open, CloseCheckpoint(c) \in u.cps,
                    NEW l \in u.legs, l.status = "OPEN"
             PROVE  ~SameEntry(u, c, l)
  BY DEF Followed
<1>1. SameKey(c, CloseCheckpoint(c)) /\ ~CloseCheckpoint(c).open
  BY ClosedCheckpoint DEF Typed, SameKey
<1>2. ~SameEntry(o, c, l)
  BY <1>1 DEF Closes, LegsFollow
<1> QED  BY <1>2 DEF Closes, SameEntry

(* A closed leg tells which entry it was of.                               *)
LEMMA OneLeg ==
  ASSUME NEW o, NEW k, NEW l, LegTyped(k), LegTyped(l), CloseLeg(k) = CloseLeg(l)
  PROVE  /\ k.opened = l.opened /\ k.hz = l.hz /\ k.stop = l.stop
         /\ \A e : SameEntry(o, e, l) => SameEntry(o, e, k)
<1>1. \A m \in {k, l} :
        /\ CloseLeg(m).fam = m.fam /\ CloseLeg(m).setup = m.setup /\ CloseLeg(m).hz = m.hz
        /\ CloseLeg(m).opened = m.opened /\ CloseLeg(m).stop = m.stop
        /\ CloseLeg(m).target = m.target
  BY DEF CloseLeg, LegTyped, LegFields
<1>2. /\ k.fam = l.fam /\ k.setup = l.setup /\ k.hz = l.hz /\ k.opened = l.opened
      /\ k.stop = l.stop /\ k.target = l.target
  BY <1>1
<1>3. LegFamily(o, k) = LegFamily(o, l)
  BY <1>2 DEF LegFamily
<1> QED  BY <1>2, <1>3 DEF SameEntry

LEMMA EntriesTimely ==
  ASSUME NEW o, NEW u, NEW why, NEW at, Typed(o), Keyed(o),
         \A d \in u.cps : \E c \in o.cps : Becomes(c, d, why),
         LegsClose(o, u, why, Excused(o, at))
  PROVE  Timely(o, u, why, at)
<1>1. ASSUME NEW c \in o.cps, c.open, CloseCheckpoint(c) \in u.cps, Protectable(c)
      PROVE  Counts(why, c.reached, c.stop)
  <2>1. PICK b \in o.cps : Becomes(b, CloseCheckpoint(c), why)
    BY <1>1
  <2>2. SameKey(c, CloseCheckpoint(c)) /\ ~CloseCheckpoint(c).open
    BY ClosedCheckpoint DEF Typed, SameKey
  <2>3. b = c
    BY <2>1, <2>2 DEF Becomes, SameKey, Keyed
  <2> QED  BY <1>1, <2>1, <2>2, <2>3 DEF Becomes
<1>2. ASSUME NEW l \in o.legs, NEW e \in o.cps, l.status = "OPEN", CloseLeg(l) \in u.legs \ o.legs,
             e.open, Protectable(e), SameEntry(o, e, l), ~(l.hz = "INTRADAY" /\ at \in SessionEnds)
      PROVE  Counts(why, l.opened, l.stop)
  <2>1. PICK k \in o.legs : k.status = "OPEN" /\ CloseLeg(l) = CloseLeg(k)
                            /\ (k \in Excused(o, at) \/ Counts(why, k.opened, k.stop))
    BY <1>2 DEF LegsClose
  <2>2. k.opened = l.opened /\ k.hz = l.hz /\ k.stop = l.stop /\ SameEntry(o, e, k)
    BY <1>2, <2>1, OneLeg DEF Typed
  <2>3. k \notin Excused(o, at)
    BY <1>2, <2>2 DEF Excused
  <2> QED  BY <2>1, <2>2, <2>3
<1> QED  BY <1>1, <1>2 DEF Timely

(* No Core checkpoint is closed, none is left open, or no leg is.          *)
LEMMA KeptFollowed ==
  ASSUME NEW o, NEW u, Typed(o), Keyed(o),
         \A d \in u.cps : ~d.open /\ d.fam \in Core => \E c \in o.cps : SameKey(c, d) /\ ~c.open
  PROVE  Followed(o, u)
<1> SUFFICES ASSUME NEW c \in o.cps, c.fam \in Core, c.open, CloseCheckpoint(c) \in u.cps
             PROVE  FALSE
  BY DEF Followed
<1>1. SameKey(c, CloseCheckpoint(c)) /\ ~CloseCheckpoint(c).open
  BY ClosedCheckpoint DEF Typed, SameKey
<1> QED  BY <1>1 DEF SameKey, Keyed

LEMMA FreshFollowed ==
  ASSUME NEW o, NEW u, Typed(o), \A d \in u.cps : d.open
  PROVE  Followed(o, u)
BY ClosedCheckpoint DEF Typed, Followed

LEMMA EndedFollowed ==
  ASSUME NEW o, NEW w, NEW at, Typed(w)
  PROVE  Followed(o, CloseOpportunity(w, at))
<1> DEFINE u == CloseOpportunity(w, at)
<1>1. u.legs = {IF l.status = "OPEN" THEN CloseLeg(l) ELSE l : l \in w.legs}
  BY DEF CloseOpportunity, Typed, OpportunityFields
<1>2. \A l \in w.legs : CloseLeg(l).status # "OPEN"
  BY ClosedLeg DEF Typed
<1> QED  BY <1>1, <1>2 DEF Followed

LEMMA LoadableKeyed ==
  ASSUME NEW o, Loadable(o)
  PROVE  Keyed(o)
BY DEF Loadable, Keyed, SameKey

(* A step that closes no checkpoint and turns no open leg into a closed one. *)
Keeps(o, u) ==
  /\ \A d \in u.cps : ~d.open => \E c \in o.cps : SameKey(c, d) /\ ~c.open
  /\ \A l \in o.legs \ u.legs : l.status = "OPEN" => CloseLeg(l) \notin u.legs \ o.legs

LEMMA KeepsClosesNothing ==
  ASSUME NEW o, NEW u, NEW why, NEW at, Typed(o), Keyed(o), Keeps(o, u)
  PROVE  Followed(o, u) /\ Timely(o, u, why, at)
<1>1. Followed(o, u)
  BY KeptFollowed DEF Keeps
<1>2. ASSUME NEW c \in o.cps, c.open, CloseCheckpoint(c) \in u.cps  PROVE  FALSE
  <2>1. SameKey(c, CloseCheckpoint(c)) /\ ~CloseCheckpoint(c).open
    BY ClosedCheckpoint DEF Typed, SameKey
  <2> QED  BY <1>2, <2>1 DEF Keeps, SameKey, Keyed
<1> QED  BY <1>1, <1>2 DEF Timely, Keeps

LEMMA AdvanceKeeps ==
  ASSUME NEW o, NEW e, Typed(o), e.fam \in Families, e.at # None
  PROVE  Keeps(o, Advance(o, e))
<1> DEFINE u == Advance(o, e)
           n == NewCheckpoint(e.fam, e.setup, e.level, None, e.at, e.stop, e.target, e.level = L2)
           owned == {l \in o.legs : LegFamily(o, l) = e.fam}
           unscoped == {l \in owned : l.setup = "none"}
           opens(l) == l \in unscoped /\ l.hz \in e.hzs /\ l.status = "WATCHING"
           missing == e.hzs \ {l.hz : l \in unscoped}
           opened(l) == NewLeg(e.fam, "none", l.hz, e.at, e.stop, e.target, l.expires)
           labelled(l) == [l EXCEPT !.fam = e.fam]
           added(h) == NewLeg(e.fam, "none", h, e.at, e.stop, e.target, None)
           legs == OpenEntryHorizons(o, e)
<1>1. u.cps \subseteq o.cps \union {n} /\ u.legs \in {o.legs, legs}
  BY DEF Advance, Typed, OpportunityFields
<1>2. n.open
  BY DEF NewCheckpoint
<1>3. legs = (o.legs \ owned) \union {IF opens(l) THEN opened(l) ELSE labelled(l) : l \in owned}
             \union {added(h) : h \in missing}
  BY DEF OpenEntryHorizons
<1>4. (\A l : opened(l).status = "OPEN") /\ (\A h : added(h).status = "OPEN")
  BY DEF NewLeg
<1>5. \A l \in o.legs : LegTyped(l)
  BY DEF Typed
<1>6. \A l \in o.legs : labelled(l).fam = e.fam /\ (l.fam = e.fam => labelled(l) = l)
  <2> SUFFICES ASSUME NEW l \in o.legs
               PROVE  labelled(l).fam = e.fam /\ (l.fam = e.fam => labelled(l) = l)
    OBVIOUS
  <2>1. DOMAIN l = LegFields /\ l = [f \in LegFields |-> l[f]]
    BY <1>5 DEF LegTyped
  <2> QED  BY <2>1 DEF LegFields
<1>7. \A l \in o.legs : l.fam = e.fam => l \in owned
  BY DEF LegFamily, Families, Core
<1> HIDE DEF u, n, owned, opened, labelled, added, missing, legs
<1>8. ASSUME NEW l \in o.legs, l.status = "OPEN", l \notin legs, CloseLeg(l) \in legs, CloseLeg(l) \notin o.legs
      PROVE  FALSE
  <2>1. CloseLeg(l).status = "CLOSED" /\ CloseLeg(l).fam = l.fam
    BY <1>5, ClosedLeg
  <2>2. PICK m \in owned : CloseLeg(l) = labelled(m)
    BY <1>3, <1>4, <1>8, <2>1
  <2>3. l.fam = e.fam
    BY <1>6, <2>1, <2>2 DEF owned
  <2>4. l \in owned /\ labelled(l) = l /\ ~opens(l)
    BY <1>6, <1>7, <1>8, <2>3
  <2>5. l \in legs
    BY <1>3, <2>4
  <2> QED  BY <1>8, <2>5
<1>9. \A d \in u.cps : ~d.open => \E c \in o.cps : SameKey(c, d) /\ ~c.open
  BY <1>1, <1>2 DEF SameKey
<1>10. Keeps(o, u)
  BY <1>1, <1>8, <1>9 DEF Keeps
<1> QED  BY <1>10 DEF u

(* Keeping asks for the legs and the checkpoints only.                     *)
LEMMA KeepsStamped ==
  ASSUME NEW o, NEW u, NEW v, Keeps(o, u), v.legs = u.legs, v.cps = u.cps
  PROVE  Keeps(o, v)
BY DEF Keeps

LEMMA SameKeeps ==
  ASSUME NEW o, NEW u, u.legs = o.legs, \A d \in u.cps : d \in o.cps \/ d.open
  PROVE  Keeps(o, u)
BY DEF Keeps, SameKey

LEMMA EnterSwingTradeKeeps ==
  ASSUME NEW o, NEW i, NEW at, at # None, Typed(o)
  PROVE  LET u == EnterSwingTrade(o, i, at)
         IN  \A l \in o.legs \ u.legs : l.status = "OPEN" => CloseLeg(l) \notin u.legs \ o.legs
<1> DEFINE expires == at + Life.swing
           matching == {l \in o.legs : MatchesSetup(o, l, i.setup)}
           watching == {l \in matching : l.status = "WATCHING"}
           bought(f) == NewLeg(f, i.setup, "SWING", at, i.stop, i.target, expires)
           opened == (o.legs \ watching)
                     \union (IF watching = {} THEN {bought("none")} ELSE {bought(l.fam) : l \in watching})
           labelled == LabelLegacyLeg(o, opened)
           dated(l) == [l EXCEPT !.expires = o.expires]
           legs == {IF l.status = "OPEN" /\ l.expires = None THEN dated(l) ELSE l : l \in labelled}
           u == EnterSwingTrade(o, i, at)
           unmatched == SwingSetups(o) \ {l.setup : l \in opened}
           first == CHOOSE v \in unmatched : TRUE
<1>1. u.legs \in {o.legs, legs}
  BY DEF EnterSwingTrade, Typed, OpportunityFields
<1>2. ASSUME NEW l \in o.legs, l.status = "OPEN", CloseLeg(l) \in legs, CloseLeg(l) \notin o.legs
      PROVE  FALSE
  <2> DEFINE k == CloseLeg(l)
  <2>1. LegTyped(l)
    BY DEF Typed
  <2>2. k.status = "CLOSED" /\ k.setup = l.setup
    BY <2>1, ClosedLeg
  <2>3. \A f : bought(f).status = "OPEN"
    BY DEF NewLeg
  <2>4. \A m \in labelled :
          \/ m \in opened
          \/ Cardinality(unmatched) = 1 /\ \E j \in opened : m = [j EXCEPT !.setup = first]
    BY DEF LabelLegacyLeg
  <2>5. \A m \in opened : m \in o.legs \/ m.status = "OPEN"
    BY <2>3
  <2>6. l \in opened
    BY <1>2
  <2>7. \A j \in opened : LegTyped(j) \/ \E f : j = bought(f)
    BY DEF Typed
  <2>8. \A j \in opened : DOMAIN j = LegFields
    <3>1. \A f : DOMAIN bought(f) = LegFields
      BY DEF NewLeg, LegFields
    <3> HIDE DEF bought, opened
    <3> QED  BY <2>7, <3>1 DEF LegTyped
  <2> HIDE DEF k, opened, labelled
  <2>9. \A m \in labelled : DOMAIN m = LegFields
    BY <2>4, <2>8
  <2>10. PICK m \in labelled : k = IF m.status = "OPEN" /\ m.expires = None THEN dated(m) ELSE m
    BY <1>2 DEF k
  <2>11. dated(m).status = m.status
    BY <2>9 DEF LegFields
  <2>12. k = m
    BY <2>2, <2>10, <2>11
  <2>13. PICK j \in opened : Cardinality(unmatched) = 1 /\ k = [j EXCEPT !.setup = first]
    BY <1>2, <2>2, <2>4, <2>5, <2>12 DEF k
  <2>14. k.setup = first
    BY <2>8, <2>13 DEF LegFields
  <2>15. first \in unmatched
    <3> HIDE DEF unmatched
    <3>1. Cardinality(unmatched) = 1 => unmatched # {}
      BY FS_EmptySet
    <3> QED  BY <2>13, <3>1
  <2> QED  BY <2>2, <2>6, <2>14, <2>15
<1> HIDE DEF legs, u
<1>3. \A l \in o.legs \ u.legs : l.status = "OPEN" => CloseLeg(l) \notin u.legs \ o.legs
  BY <1>1, <1>2
<1> QED  BY <1>3 DEF u

LEMMA ApplySwingTradeKeeps ==
  ASSUME NEW o, NEW i, NEW at, at # None, Typed(o)
  PROVE  Keeps(o, ApplySwingTrade(o, i, at))
<1> DEFINE refs == Tracked(o, "SWING_TRADE", i.setup, i.stage, at)
           followed == [o EXCEPT !.refs = refs, !.updated = Larger(@, at)]
           entered == EnterSwingTrade(o, i, at)
           cps == WithStageCheckpoint(o, i, "SWING_TRADE", at)
           u == [followed EXCEPT !.cps = cps, !.legs = entered.legs, !.status = entered.status,
                                 !.expires = entered.expires, !.inval = entered.inval]
<1>1. ApplySwingTrade(o, i, at) \in {o, followed, u}
  BY DEF ApplySwingTrade
<1>2. \A l \in o.legs \ entered.legs : l.status = "OPEN" => CloseLeg(l) \notin entered.legs \ o.legs
  BY EnterSwingTradeKeeps
<1>3. \A c \in cps : c \in o.cps \/ c.open
  BY DEF WithStageCheckpoint, StageCheckpoint, NewCheckpoint
<1> HIDE DEF refs, entered, cps
<1>4. DOMAIN followed = OpportunityFields /\ followed.legs = o.legs /\ followed.cps = o.cps
  BY DEF Typed, OpportunityFields
<1> HIDE DEF followed
<1>5. u.legs = entered.legs /\ u.cps = cps
  BY <1>4 DEF OpportunityFields
<1> HIDE DEF u
<1>6. Keeps(o, o) /\ Keeps(o, followed)
  BY <1>4, SameKeeps
<1>7. Keeps(o, u)
  BY <1>2, <1>3, <1>5 DEF Keeps, SameKey
<1> QED  BY <1>1, <1>6, <1>7

LEMMA ReboundExitCloses ==
  ASSUME NEW o, NEW i, NEW at \in Times, Typed(o), Keyed(o), NEW seen
  PROVE  LET u == ReboundExit(o, i, at)  IN  Followed(o, u) /\ Timely(o, u, On(at), seen)
<1> DEFINE out(c) == c.fam = "SWING_TRADE" /\ c.setup = i.setup /\ at >= c.reached
           leaves(l) == l.status = "OPEN" /\ at >= l.opened /\ MatchesSetup(o, l, i.setup)
           g(c) == IF out(c) THEN CloseCheckpoint(c) ELSE c
           legs == {IF leaves(l) THEN CloseLeg(l) ELSE l : l \in o.legs}
           cps == {g(c) : c \in o.cps}
           refs == Tracked(o, "SWING_TRADE", i.setup, None, at)
           updated == [o EXCEPT !.legs = legs, !.cps = cps, !.updated = Larger(@, at),
                                !.refs = refs]
           u == ReboundExit(o, i, at)
           w == CloseOpportunity(updated, at)
           X == Excused(o, seen)
<1>1. u = o \/ (u = updated) \/ (u = w /\ ~AnythingOpen(updated))
  BY DEF ReboundExit, ClosedWhenDone
<1>2. \A c \in o.cps : CheckpointTyped(c)
  BY DEF Typed
<1>3. \A c \in o.cps : CheckpointTyped(g(c)) /\ Becomes(c, g(c), On(at))
  BY <1>2, OnCounts, CloseCheckpointTyped, ClosedBecomes, BecomesItself
<1>4. \A c \in o.cps : g(c).fam \in Core => g(c) = c
  BY <1>2, ClosedCheckpoint DEF Core
<1>5. \A l \in legs : \/ l \in o.legs
                      \/ \E k \in o.legs : k.status = "OPEN" /\ l = CloseLeg(k) /\ at >= k.opened
  OBVIOUS
<1> HIDE DEF g, legs, refs, u, X
<1>6. DOMAIN updated = OpportunityFields /\ updated.legs = legs /\ updated.cps = cps
  BY DEF Typed, OpportunityFields
<1> HIDE DEF updated
<1>7. /\ w.cps = {CloseCheckpoint(c) : c \in cps}
      /\ w.legs = {IF l.status = "OPEN" THEN CloseLeg(l) ELSE l : l \in legs}
  BY <1>6 DEF CloseOpportunity, OpportunityFields
<1> HIDE DEF w
<1>8. CASE u = o
  <2>1. Keeps(o, o)
    BY SameKeeps
  <2> QED  BY <1>8, <2>1, KeepsClosesNothing DEF u
<1>9. CASE u = updated
  <2>1. \A d \in u.cps : \E c \in o.cps : Becomes(c, d, On(at))
    BY <1>3, <1>6, <1>9
  <2>2. LegsClose(o, u, On(at), X)
    BY OnCounts, <1>5, <1>6, <1>9 DEF LegsClose
  <2>3. Timely(o, u, On(at), seen)
    BY <2>1, <2>2, EntriesTimely DEF X
  <2>4. Followed(o, u)
    BY <1>4, <1>6, <1>9, KeptFollowed DEF SameKey
  <2> QED  BY <2>3, <2>4 DEF u
<1>10. CASE u = w /\ ~AnythingOpen(updated)
  <2>1. (\A l \in legs : l.status = "CLOSED") /\ (\A c \in o.cps : ~g(c).open)
    BY <1>6, <1>10 DEF AnythingOpen
  <2>2. u.legs = legs
    BY <1>7, <1>10, <2>1
  <2>3. \A d \in u.cps : \E c \in o.cps : Becomes(c, d, On(at))
    <3>1. \A c \in o.cps : Becomes(g(c), CloseCheckpoint(g(c)), On(at))
      BY <1>3, <2>1, ClosedBecomes
    <3>2. \A c \in o.cps : Becomes(c, CloseCheckpoint(g(c)), On(at))
      BY <1>3, <3>1, BecomesThen
    <3> QED  BY <1>7, <1>10, <3>2
  <2>4. LegsClose(o, u, On(at), X)
    BY OnCounts, <1>5, <2>2 DEF LegsClose
  <2>5. Timely(o, u, On(at), seen)
    BY <2>3, <2>4, EntriesTimely DEF X
  <2>6. Followed(o, u)
    BY <2>1, <2>2 DEF Followed
  <2> QED  BY <2>5, <2>6 DEF u
<1> QED  BY <1>1, <1>8, <1>9, <1>10

---------------------------------------------------------------------------
(* The handlers.                                                           *)

LEMMA OtherEvidence ==
  ASSUME NEW kind, NEW at, NEW o, Applied(kind, at, o), kind \notin {"watch", "analysis", "bar", "swing"}
  PROVE  Evidenced
BY AppliedKind DEF Evidenced

LEMMA AppliedEvidence ==
  ASSUME NEW kind \in {"watch", "swing"}, NEW at, NEW o, Applied(kind, at, o), Timely(opp, o, On(at), at)
  PROVE  Evidenced
<1>1. opp' = o /\ last'.kind = kind /\ last'.at = at
  BY DEF Applied
<1> QED  BY <1>1 DEF Evidenced, On

LEMMA NewWatchOpen ==
  ASSUME NEW i, NEW at \in 0..MaxTime
  PROVE  \A c \in NewWatchOpportunity(i, at).cps : c.open
<1> DEFINE level == TransitionLevel(i.status)
           e == WatchEntry(i, at, level, WatchStop)
           new == NewOpportunity(IF level = IN_ZONE THEN "IN_ZONE" ELSE "ARMED", "CORE_ENTRY",
                                 level, at, at + Life.watch, WatchStop)
           n == NewCheckpoint(e.fam, e.setup, level, None, at, e.stop, e.target, FALSE)
           m == NewCheckpoint(e.fam, e.setup, e.level, None, e.at, e.stop, e.target, e.level = L2)
           leg == NewLeg("none", "none", "LONG", None, WatchStop, NoTarget, None)
           born == [new EXCEPT !.watch = i.watch, !.cursor = at, !.cps = {n}, !.legs = {leg}]
<1>1. NewWatchOpportunity(i, at) = IF level >= L1 THEN Advance(born, e) ELSE born
  BY DEF NewWatchOpportunity
<1>2. n.open /\ m.open
  BY DEF NewCheckpoint
<1>3. DOMAIN new = OpportunityFields
  BY NewShape
<1> HIDE DEF level, e, new, n, m, leg
<1>4. DOMAIN born = OpportunityFields /\ born.cps = {n}
  BY <1>3 DEF OpportunityFields
<1> HIDE DEF born
<1>5. Advance(born, e).cps \subseteq born.cps \union {m}
  BY <1>4 DEF Advance, OpportunityFields, m
<1> QED  BY <1>1, <1>2, <1>4, <1>5

LEMMA OthersOpen ==
  ASSUME NEW i, NEW at, NEW setup
  PROVE  /\ \A c \in NewSignalOpportunity(i, at).cps : c.open
         /\ \A c \in NewSwingTradeOpportunity(i, at).cps : c.open
         /\ \A c \in NewCountertrendOpportunity(i, at).cps : c.open
         /\ \A c \in NewShortOpportunity(setup, at).cps : c.open
<1>1. \A c \in NewSignalOpportunity(i, at).cps : c.open
  BY DEF NewSignalOpportunity, NewOpportunity, NewCheckpoint
<1>2. \A c \in NewSwingTradeOpportunity(i, at).cps : c.open
  BY DEF NewSwingTradeOpportunity, NewOpportunity, StageCheckpoint, NewCheckpoint
<1>3. \A c \in NewCountertrendOpportunity(i, at).cps : c.open
  BY DEF NewCountertrendOpportunity, NewOpportunity, StageCheckpoint, NewCheckpoint
<1>4. \A c \in NewShortOpportunity(setup, at).cps : c.open
  BY DEF NewShortOpportunity, NewOpportunity, NewCheckpoint
<1> QED  BY <1>1, <1>2, <1>3, <1>4

LEMMA TransitionCloses ==
  ASSUME LifecycleInv, TypedInv, IngestTransition
  PROVE  Followed(opp, opp') /\ Evidenced
<1>1. PICK x \in Inputs("watch") :
        LET i == x.in
            ended == CloseCoreEntries(opp, {"CORE_ENTRY"}, "all", x.at, x.at, None)
            e == WatchEntry(i, x.at, TransitionLevel(i.status), opp.inval)
        IN  \/ ~IsActive /\ Applied("watch", x.at, NewWatchOpportunity(i, x.at))
            \/ LiveLong /\ Applied("watch", x.at, [ended EXCEPT !.cursor = x.at])
            \/ LiveLong /\ Applied("watch", x.at, [Advance(opp, e) EXCEPT !.cursor = x.at])
  BY DEF IngestTransition, LongAt
<1> DEFINE i == x.in
           ended == CloseCoreEntries(opp, {"CORE_ENTRY"}, "all", x.at, x.at, None)
           e == WatchEntry(i, x.at, TransitionLevel(i.status), opp.inval)
           joined == Advance(opp, e)
<1>2. x.at \in 0..MaxTime /\ x.at \in Times /\ x.at \in Int /\ x.at # None
  <2>1. x.at \in 0..MaxTime
    BY InputsTyped
  <2> QED  BY <2>1, InputIsTime, Bounds
<1>3. Typed(opp)
  BY DEF TypedInv
<1>4. LiveLong => Keyed(opp)
  BY LoadableKeyed DEF LiveLong
<1>5. CASE ~IsActive /\ Applied("watch", x.at, NewWatchOpportunity(i, x.at))
  <2>1. Followed(opp, NewWatchOpportunity(i, x.at))
    BY <1>2, <1>3, NewWatchOpen, FreshFollowed
  <2>2. opp' = NewWatchOpportunity(i, x.at)
    BY <1>5 DEF Applied
  <2> QED  BY <1>5, <2>1, <2>2 DEF Evidenced, IsLong
<1>6. CASE LiveLong /\ Applied("watch", x.at, [ended EXCEPT !.cursor = x.at])
  <2> DEFINE u == [ended EXCEPT !.cursor = x.at]
             X == Excused(opp, x.at)
  <2>1. Typed(ended) /\ Closes(opp, ended, On(x.at), X)
    BY <1>2, <1>3, <1>4, <1>6, OnCounts, CloseCoreEntriesTyped, CloseCoreEntriesCloses
  <2> HIDE DEF ended, X
  <2>2. u.primary = ended.primary /\ u.refs = ended.refs /\ u.legs = ended.legs /\ u.cps = ended.cps
    BY <2>1 DEF Typed, OpportunityFields
  <2>3. Keyed(ended)
    BY <2>1 DEF Closes
  <2>4. opp' = u
    BY <1>6 DEF Applied
  <2> HIDE DEF u
  <2>5. Closes(opp, u, On(x.at), X)
    BY <1>3, <1>4, <1>6, <2>1, <2>2, <2>3, SameEntriesCloses, ClosesThen
  <2>6. Timely(opp, u, On(x.at), x.at)
    BY <1>3, <1>4, <1>6, <2>5, EntriesTimely DEF Closes, X
  <2>7. Followed(opp, u)
    BY <1>3, <2>5, ClosesFollowed
  <2> QED  BY <1>6, <2>4, <2>6, <2>7, AppliedEvidence DEF u
<1>7. CASE LiveLong /\ Applied("watch", x.at, [joined EXCEPT !.cursor = x.at])
  <2> DEFINE u == [joined EXCEPT !.cursor = x.at]
  <2>1. e.at = x.at /\ e.fam = "CORE_ENTRY" /\ "CORE_ENTRY" \in Families
    BY DEF WatchEntry, CoreEntry, Families, Core
  <2> HIDE DEF e
  <2>2. Keeps(opp, joined)
    BY <1>2, <1>3, <2>1, AdvanceKeeps
  <2>3. DOMAIN joined = OpportunityFields
    BY <1>3 DEF Advance, Typed, OpportunityFields
  <2> HIDE DEF joined
  <2>4. u.legs = joined.legs /\ u.cps = joined.cps
    BY <2>3 DEF OpportunityFields
  <2>5. opp' = u
    BY <1>7 DEF Applied
  <2> HIDE DEF u
  <2>6. Followed(opp, u) /\ Timely(opp, u, On(x.at), x.at)
    BY <1>3, <1>4, <1>7, <2>2, <2>4, KeepsStamped, KeepsClosesNothing
  <2> QED  BY <1>7, <2>5, <2>6, AppliedEvidence DEF u
<1> QED  BY <1>1, <1>5, <1>6, <1>7

LEMMA SignalCloses ==
  ASSUME LifecycleInv, TypedInv, IngestSignal
  PROVE  Followed(opp, opp') /\ Evidenced
<1>1. PICK x \in Inputs("signal") :
        LET i == x.in
            refs == Replaced(opp, Reference(i.fam, i.setup, i.level, i.level, x.at))
        IN  \/ Applied("signal", x.at, NewSignalOpportunity(i, x.at))
            \/ /\ LiveLong
               /\ Applied("signal", x.at, [Advance(opp, SignalEntry(i, x.at)) EXCEPT !.refs = refs])
            \/ LiveLong /\ Applied("signal", x.at, [opp EXCEPT !.refs = refs, !.updated = Larger(@, x.at)])
  BY DEF IngestSignal, LongAt
<1> DEFINE i == x.in
           refs == Replaced(opp, Reference(i.fam, i.setup, i.level, i.level, x.at))
           e == SignalEntry(i, x.at)
           joined == Advance(opp, e)
           named == [joined EXCEPT !.refs = refs]
           noted == [opp EXCEPT !.refs = refs, !.updated = Larger(@, x.at)]
<1>2. x.at # None /\ i.fam \in Families
  <2>1. x.at \in 0..MaxTime /\ i.fam \in Core \union {"LEVERAGED"}
    BY InputsTyped, MenuAssumption DEF LifecycleInv
  <2> QED  BY <2>1, InputIsTime DEF Families
<1>3. Typed(opp)
  BY DEF TypedInv
<1>4. Evidenced
  <2>1. \E o : Applied("signal", x.at, o)
    BY <1>1, Zenon
  <2> QED  BY <2>1, OtherEvidence
<1>5. \/ opp' = NewSignalOpportunity(i, x.at)
      \/ Keyed(opp) /\ opp' = named
      \/ Keyed(opp) /\ opp' = noted
  BY <1>1, LoadableKeyed DEF Applied, LiveLong
<1>6. CASE opp' = NewSignalOpportunity(i, x.at)
  BY <1>3, <1>4, <1>6, OthersOpen, FreshFollowed
<1>7. CASE Keyed(opp) /\ opp' = named
  <2>1. e.at = x.at /\ e.fam = i.fam
    BY DEF SignalEntry, CoreEntry
  <2> HIDE DEF e
  <2>2. Keeps(opp, joined)
    BY <1>2, <1>3, <2>1, AdvanceKeeps
  <2>3. DOMAIN joined = OpportunityFields
    BY <1>3 DEF Advance, Typed, OpportunityFields
  <2> HIDE DEF joined, refs
  <2>4. named.legs = joined.legs /\ named.cps = joined.cps
    BY <2>3 DEF OpportunityFields
  <2> HIDE DEF named
  <2>5. Keeps(opp, named)
    BY <2>2, <2>4, KeepsStamped
  <2> QED  BY <1>3, <1>4, <1>7, <2>5, KeepsClosesNothing
<1>8. CASE Keyed(opp) /\ opp' = noted
  <2> HIDE DEF refs
  <2>1. noted.legs = opp.legs /\ noted.cps = opp.cps
    BY <1>3 DEF Typed, OpportunityFields
  <2> HIDE DEF noted
  <2>2. Keeps(opp, noted)
    BY <2>1, SameKeeps
  <2> QED  BY <1>3, <1>4, <1>8, <2>2, KeepsClosesNothing
<1> QED  BY <1>5, <1>6, <1>7, <1>8

LEMMA SwingTradeCloses ==
  ASSUME LifecycleInv, TypedInv, IngestSwingTrade
  PROVE  Followed(opp, opp') /\ Evidenced
<1>1. PICK x \in Inputs("swing") :
        \/ ~IsActive /\ Applied("swing", x.at, NewSwingTradeOpportunity(x.in, x.at))
        \/ LiveLong /\ Applied("swing", x.at, ReboundExit(opp, x.in, x.at))
        \/ LiveLong /\ Applied("swing", x.at, ApplySwingTrade(opp, x.in, x.at))
  BY DEF IngestSwingTrade, LongAt
<1>2. x.at \in Times /\ x.at # None
  BY InputsTyped, InputIsTime
<1>3. Typed(opp)
  BY DEF TypedInv
<1>4. CASE ~IsActive /\ Applied("swing", x.at, NewSwingTradeOpportunity(x.in, x.at))
  <2>1. opp' = NewSwingTradeOpportunity(x.in, x.at)
    BY <1>4 DEF Applied
  <2> QED  BY <1>3, <1>4, <2>1, OthersOpen, FreshFollowed DEF Evidenced, IsLong
<1>5. ASSUME NEW u, LiveLong, Applied("swing", x.at, u),
             Keyed(opp) => Followed(opp, u) /\ Timely(opp, u, On(x.at), x.at)
      PROVE  Followed(opp, opp') /\ Evidenced
  <2>1. Followed(opp, u) /\ Timely(opp, u, On(x.at), x.at)
    BY <1>5, LoadableKeyed DEF LiveLong
  <2>2. opp' = u
    BY <1>5 DEF Applied
  <2> QED  BY <1>5, <2>1, <2>2, AppliedEvidence
<1>6. Keyed(opp) => /\ Followed(opp, ReboundExit(opp, x.in, x.at))
                    /\ Timely(opp, ReboundExit(opp, x.in, x.at), On(x.at), x.at)
  BY <1>2, <1>3, ReboundExitCloses
<1>7. Keyed(opp) => /\ Followed(opp, ApplySwingTrade(opp, x.in, x.at))
                    /\ Timely(opp, ApplySwingTrade(opp, x.in, x.at), On(x.at), x.at)
  BY <1>2, <1>3, ApplySwingTradeKeeps, KeepsClosesNothing
<1> QED  BY <1>1, <1>4, <1>5, <1>6, <1>7

LEMMA CountertrendFollowed ==
  ASSUME NEW o, NEW i, NEW at \in Times, Typed(o), Keyed(o)
  PROVE  /\ Followed(o, ObserveCountertrend(o, i, at))
         /\ Followed(o, ApplyCountertrend(o, i, at))
         /\ Followed(o, CountertrendLoss(o, i, at))
<1> DEFINE refs == Tracked(o, "GERI", i.setup, i.stage, at)
           lost == Tracked(o, "GERI", i.setup, None, at)
           seen == [o EXCEPT !.refs = refs, !.updated = at]
           followed == [o EXCEPT !.refs = refs, !.updated = Larger(@, at)]
           dropped == [o EXCEPT !.refs = lost, !.updated = Larger(@, at)]
           buys == o.primary = "GERI" /\ ~CountertrendOpen(o, {i.setup})
           bought == [followed EXCEPT !.cps = WithStageCheckpoint(o, i, "GERI", at),
                                      !.legs = IF buys THEN OpenCountertrendLeg(o, i, at) ELSE @,
                                      !.status = IF buys THEN "OPEN" ELSE @]
           g(c) == IF c.fam = "GERI" /\ c.setup = i.setup THEN CloseCheckpoint(c) ELSE c
           ended == [dropped EXCEPT !.cps = {IF c.fam = "GERI" /\ c.setup = i.setup
                                             THEN CloseCheckpoint(c) ELSE c : c \in @}]
<1>1. /\ ObserveCountertrend(o, i, at) \in {o, seen}
      /\ ApplyCountertrend(o, i, at) \in {o, followed, bought}
      /\ CountertrendLoss(o, i, at) \in {o, dropped, ended, CloseOpportunity(o, at)}
  BY DEF ObserveCountertrend, ApplyCountertrend, CountertrendLoss
<1>2. \A c \in WithStageCheckpoint(o, i, "GERI", at) : c \in o.cps \/ c.open
  BY DEF WithStageCheckpoint, StageCheckpoint, NewCheckpoint
<1> HIDE DEF refs, lost, buys
<1>3. /\ seen.cps = o.cps
      /\ DOMAIN followed = OpportunityFields /\ followed.cps = o.cps
      /\ DOMAIN dropped = OpportunityFields /\ dropped.cps = o.cps
  BY DEF Typed, OpportunityFields
<1> HIDE DEF seen, followed, dropped
<1>4. bought.cps = WithStageCheckpoint(o, i, "GERI", at) /\ ended.cps = {g(c) : c \in o.cps}
  BY <1>3 DEF OpportunityFields
<1>5. \A c \in o.cps : g(c).fam \in Core => g(c) = c
  BY ClosedCheckpoint DEF Core, Typed
<1> HIDE DEF bought, ended, g
<1>6. /\ Followed(o, o) /\ Followed(o, seen) /\ Followed(o, followed) /\ Followed(o, dropped)
      /\ Followed(o, bought)
  BY <1>2, <1>3, <1>4, KeptFollowed DEF SameKey
<1>7. Followed(o, ended)
  BY <1>4, <1>5, KeptFollowed DEF SameKey
<1> QED  BY <1>1, <1>6, <1>7, EndedFollowed

(* The setups of legs that expire are no setups of Core entries.           *)
LEMMA ExpiredFollowed ==
  ASSUME NEW o, NEW t \in Times, Typed(o), Keyed(o)
  PROVE  Followed(o, Expired(o, t))
<1> DEFINE expired == {l \in o.legs : l.status # "CLOSED" /\ t >= Deadline(o, l)}
           setups == {l.setup : l \in expired} \ {"none"}
           kept == {IF l \in expired THEN CloseLeg(l) ELSE l :
                      l \in {l \in o.legs : ~(l \in expired /\ l.status = "WATCHING")}}
           cps == {IF c.setup \in setups THEN CloseCheckpoint(c) ELSE c : c \in o.cps}
           updated == [o EXCEPT !.legs = kept, !.cps = cps, !.updated = Larger(@, t)]
           deadlines == {Deadline(o, l) : l \in {l \in kept : l.status # "CLOSED"}}
           u == [updated EXCEPT !.expires = CHOOSE m \in deadlines : \A n \in deadlines : n <= m]
<1>1. Expired(o, t) \in {o, CloseOpportunity(updated, t), u}
  BY DEF Expired, Typed, OpportunityFields
<1>2. setups \subseteq Scopes /\ "none" \notin setups
  BY DEF Typed, LegTyped
<1>3. \A l \in kept : LegTyped(l)
  BY CloseLegTyped DEF Typed
<1>4. \A c \in o.cps : c.fam \in Core => c.setup \notin setups
  BY <1>2 DEF Typed, CheckpointTyped
<1> HIDE DEF setups
<1>5. \A d \in cps : CheckpointTyped(d) /\ (d.fam \in Core => d \in o.cps)
  BY <1>4, ClosedCheckpoint, CloseCheckpointTyped DEF Typed
<1> HIDE DEF kept, cps, deadlines
<1>6. Typed(updated)
  BY <1>3, <1>5, TouchedTyped
<1>7. updated.cps = cps
  BY DEF Typed, OpportunityFields
<1> HIDE DEF updated
<1>8. u.cps = cps
  BY <1>6, <1>7 DEF Typed, OpportunityFields
<1> HIDE DEF u
<1>9. Followed(o, u) /\ Followed(o, o)
  BY <1>5, <1>8, KeptFollowed DEF SameKey
<1> QED  BY <1>1, <1>6, <1>9, EndedFollowed

LEMMA OtherInputsClose ==
  ASSUME LifecycleInv, TypedInv,
         \/ IngestCountertrend \/ IngestLeveragedCancellation \/ IngestShortAlert
         \/ IngestShortBar \/ IngestReferenceBar \/ Reconcile
  PROVE  Followed(opp, opp') /\ Evidenced
<1>1. Typed(opp)
  BY DEF TypedInv
<1>2. Keyed(opp) => Followed(opp, opp)
  BY <1>1, KeptFollowed DEF SameKey
<1>3. ASSUME IngestCountertrend  PROVE  Followed(opp, opp') /\ Evidenced
  <2>1. PICK x \in Inputs("geri") :
          \/ Applied("geri", x.at, NewCountertrendOpportunity(x.in, x.at))
          \/ LiveLong /\ Applied("geri", x.at, CountertrendLoss(opp, x.in, x.at))
          \/ LiveLong /\ Applied("geri", x.at, ObserveCountertrend(opp, x.in, x.at))
          \/ LiveLong /\ Applied("geri", x.at, ApplyCountertrend(opp, x.in, x.at))
    BY <1>3 DEF IngestCountertrend, LongAt
  <2>2. x.at \in Times
    BY InputsTyped
  <2>3. Evidenced
    BY <2>1, OtherEvidence
  <2>4. \/ opp' = NewCountertrendOpportunity(x.in, x.at)
        \/ Keyed(opp) /\ opp' \in {CountertrendLoss(opp, x.in, x.at), ObserveCountertrend(opp, x.in, x.at),
                                   ApplyCountertrend(opp, x.in, x.at)}
    BY <2>1, LoadableKeyed DEF Applied, LiveLong
  <2>5. Followed(opp, NewCountertrendOpportunity(x.in, x.at))
    BY <1>1, OthersOpen, FreshFollowed
  <2> QED  BY <1>1, <2>2, <2>3, <2>4, <2>5, CountertrendFollowed
<1>4. ASSUME IngestLeveragedCancellation  PROVE  Followed(opp, opp') /\ Evidenced
  <2>1. PICK x \in Inputs("cancel") : Applied("cancel", x.at, CloseOpportunity(opp, x.at))
    BY <1>4 DEF IngestLeveragedCancellation
  <2>2. opp' = CloseOpportunity(opp, x.at)
    BY <2>1 DEF Applied
  <2> QED  BY <1>1, <2>1, <2>2, OtherEvidence, EndedFollowed
<1>5. ASSUME IngestShortAlert  PROVE  Followed(opp, opp') /\ Evidenced
  <2>1. PICK x \in Inputs("short") :
          \/ Applied("short", x.at, NewShortOpportunity(x.in.setup, x.at))
          \/ LiveLong /\ Applied("short", x.at, opp)
    BY <1>5 DEF IngestShortAlert
  <2>2. opp' = NewShortOpportunity(x.in.setup, x.at) \/ (Keyed(opp) /\ opp' = opp)
    BY <2>1, LoadableKeyed DEF Applied, LiveLong
  <2>3. Followed(opp, NewShortOpportunity(x.in.setup, x.at))
    BY <1>1, OthersOpen, FreshFollowed
  <2>4. Evidenced
    BY <2>1, OtherEvidence
  <2> QED  BY <1>2, <2>2, <2>3, <2>4
<1>6. ASSUME IngestShortBar  PROVE  Followed(opp, opp') /\ Evidenced
  <2>1. PICK x \in Inputs("bar") :
          LET updated == [opp EXCEPT !.updated = x.at, !.lastBar = x.at]
          IN  /\ ~IsLong /\ Loadable(opp)
              /\ \/ Applied("bar", x.at, CloseOpportunity(updated, x.at))
                 \/ Applied("bar", x.at, updated)
    BY <1>6 DEF IngestShortBar
  <2> DEFINE updated == [opp EXCEPT !.updated = x.at, !.lastBar = x.at]
  <2>2. Keyed(opp) /\ opp' \in {CloseOpportunity(updated, x.at), updated}
    BY <2>1, LoadableKeyed DEF Applied
  <2>3. Typed(updated)
    BY <1>1, InputsTyped, StampedTyped
  <2>4. updated.cps = opp.cps
    BY <1>1 DEF Typed, OpportunityFields
  <2> HIDE DEF updated
  <2>5. Followed(opp, updated) /\ Followed(opp, CloseOpportunity(updated, x.at))
    BY <1>1, <2>2, <2>3, <2>4, KeptFollowed, EndedFollowed DEF SameKey
  <2> QED  BY <2>1, <2>2, <2>5 DEF Evidenced
<1>7. ASSUME IngestReferenceBar  PROVE  Followed(opp, opp') /\ Evidenced
  <2>1. PICK x \in Inputs("refbar") :
          /\ Loadable(opp)
          /\ Applied("refbar", x.at, [opp EXCEPT !.updated = Larger(@, x.at), !.lastBar = x.at])
    BY <1>7 DEF IngestReferenceBar
  <2> DEFINE updated == [opp EXCEPT !.updated = Larger(@, x.at), !.lastBar = x.at]
  <2>2. Keyed(opp) /\ opp' = updated
    BY <2>1, LoadableKeyed DEF Applied
  <2>3. updated.cps = opp.cps
    BY <1>1 DEF Typed, OpportunityFields
  <2> HIDE DEF updated
  <2>4. Followed(opp, updated)
    BY <1>1, <2>2, <2>3, KeptFollowed DEF SameKey
  <2> QED  BY <2>1, <2>2, <2>4, OtherEvidence
<1>8. ASSUME Reconcile  PROVE  Followed(opp, opp') /\ Evidenced
  <2>1. PICK x \in Inputs("reconcile") :
          /\ Loadable(opp)
          /\ \/ Applied("reconcile", now, CloseOpportunity(opp, now))
             \/ Applied("reconcile", now, Expired(opp, now))
    BY <1>8 DEF Reconcile
  <2>2. Keyed(opp) /\ opp' \in {CloseOpportunity(opp, now), Expired(opp, now)}
    BY <2>1, LoadableKeyed DEF Applied
  <2>3. Evidenced
    BY <2>1, OtherEvidence
  <2>4. now \in Times
    BY InputsTyped
  <2> QED  BY <1>1, <2>2, <2>3, <2>4, EndedFollowed, ExpiredFollowed
<1> QED  BY <1>3, <1>4, <1>5, <1>6, <1>7, <1>8

LEMMA AnalysisCloses ==
  ASSUME LifecycleInv, TypedInv, IngestAnalysis
  PROVE  Followed(opp, opp') /\ Evidenced
<1>1. PICK x \in Inputs("analysis"),
           current \in UNION {AnalysisPrices(opp, AnalysisOf(y)) : y \in Inputs("analysis")},
           price \in UNION {MarkPrices(opp, AnalysisOf(y), now) : y \in Inputs("analysis")} :
        LET i == x.in
            a == AnalysisOf(x)
            updated == [opp EXCEPT !.analyses[i.hz] = a, !.updated = now, !.price = current]
            retested == IF i.hz = "INTRADAY" THEN RecordRetest(updated, i.touch, x.at, now)
                        ELSE updated
        IN  /\ LiveLong
            /\ \/ AppliedAt("analysis", x.at, Advance(retested, ReclaimEntry), price, {})
               \/ AppliedAt("analysis", x.at,
                            ApplyInvalidation(opp, retested, i.hz, a, now, price), price, {})
  BY DEF IngestAnalysis
<1> DEFINE i == x.in
           a == AnalysisOf(x)
           updated == [opp EXCEPT !.analyses[i.hz] = a, !.updated = now, !.price = current]
           retested == IF i.hz = "INTRADAY" THEN RecordRetest(updated, i.touch, x.at, now)
                       ELSE updated
           e == [at |-> x.at, price |-> price]
           X == Excused(opp, x.at)
<1>2. /\ last'.kind = "analysis" /\ last'.at = x.at /\ last'.price = price
      /\ \/ opp' = Advance(retested, ReclaimEntry)
         \/ opp' = ApplyInvalidation(opp, retested, i.hz, a, now, price)
  BY <1>1 DEF AppliedAt
<1>3. /\ x.at \in Times /\ now \in Times /\ x.at \in Int /\ now \in Int /\ now # None
      /\ Typed(opp) /\ Keyed(opp)
  <2>1. x.at \in 0..MaxTime /\ now \in 0..MaxTime
    BY InputsTyped
  <2>2. Typed(opp) /\ Keyed(opp)
    BY <1>1, LoadableKeyed DEF LiveLong, TypedInv
  <2> QED  BY <2>1, <2>2, InputIsTime, Bounds
<1>4. a.at = x.at
  BY DEF AnalysisOf
<1> SUFFICES Followed(opp, opp') /\ Timely(opp, opp', e, x.at)
  BY <1>2 DEF Evidenced
<1>5. e.at = x.at /\ e.at \in Int /\ e.price = price /\ price # None
  BY <1>3 DEF MarkPrices, None
<1> HIDE DEF a, e
<1>6. /\ DOMAIN updated = OpportunityFields /\ updated.status = opp.status /\ updated.cps = opp.cps
      /\ updated.legs = opp.legs /\ updated.primary = opp.primary /\ updated.refs = opp.refs
      /\ updated.armed = opp.armed /\ updated.updated = now /\ updated.lastBar = opp.lastBar
      /\ updated.cursor = opp.cursor /\ updated.expires = opp.expires
      /\ updated.analyses = [opp.analyses EXCEPT ![i.hz] = a]
  BY <1>3 DEF Typed, OpportunityFields
<1> HIDE DEF updated
<1>7. Typed(updated)
  <2>1. /\ DOMAIN updated.analyses = HorizonNames
        /\ \A h \in HorizonNames : updated.analyses[h].at \in Times
    BY <1>3, <1>4, <1>6 DEF Typed
  <2> QED  BY <1>3, <1>6, <2>1 DEF Typed
<1>8. Closes(opp, updated, e, X) /\ Keyed(updated)
  BY <1>3, <1>6, SameEntriesCloses DEF Keyed
<1>9. Typed(retested) /\ Closes(updated, retested, e, X)
  BY <1>3, <1>7, <1>8, RecordRetestTyped, RecordRetestCloses, ClosesItself
<1>10. /\ retested.legs = opp.legs
       /\ \A d \in retested.cps : ~d.open => \E c \in opp.cps : SameKey(c, d) /\ ~c.open
  <2>1. CASE retested = updated
    BY <1>6, <2>1 DEF SameKey
  <2>2. CASE retested = Retested(updated, now)
    <3> DEFINE g(c) == IF c \in Anchors(updated) THEN [c EXCEPT !.retested = now] ELSE c
    <3>1. retested.legs = updated.legs /\ retested.cps = {g(c) : c \in updated.cps}
      BY <1>6, <2>2 DEF Retested, OpportunityFields
    <3>2. \A c \in updated.cps : SameKey(c, g(c)) /\ (c.open <=> g(c).open)
      BY <1>7 DEF Typed, CheckpointTyped, CheckpointFields, SameKey
    <3> HIDE DEF g, retested
    <3> QED  BY <1>6, <3>1, <3>2
  <2> QED  BY <2>1, <2>2 DEF RecordRetest
<1> HIDE DEF retested, X
<1>11. Closes(opp, retested, e, X) /\ Keyed(retested)
  BY <1>3, <1>8, <1>9, ClosesThen DEF Closes
<1>12. CASE opp' = Advance(retested, ReclaimEntry)
  <2>1. ReclaimEntry.at = now /\ ReclaimEntry.fam \in Families
    BY DEF ReclaimEntry, CoreEntry, Families, Core
  <2>2. Keeps(retested, opp')
    BY <1>3, <1>9, <1>12, <2>1, AdvanceKeeps
  <2>3. Keeps(opp, opp')
    BY <1>10, <2>2 DEF Keeps, SameKey
  <2> QED  BY <1>3, <2>3, KeepsClosesNothing
<1>13. CASE opp' = ApplyInvalidation(opp, retested, i.hz, a, now, price)
  <2>1. Closes(retested, opp', e, X)
    BY <1>3, <1>4, <1>5, <1>9, <1>11, <1>13, ApplyInvalidationCloses
  <2>2. Closes(opp, opp', e, X)
    BY <1>3, <1>11, <2>1, ClosesThen
  <2>3. Timely(opp, opp', e, x.at)
    BY <1>3, <2>2, EntriesTimely DEF Closes, X
  <2> QED  BY <1>3, <2>2, <2>3, ClosesFollowed
<1> QED  BY <1>2, <1>12, <1>13

LEMMA BarCloses ==
  ASSUME LifecycleInv, TypedInv, IngestBar
  PROVE  Followed(opp, opp') /\ Evidenced
<1>1. PICK x \in Inputs("bar") : \E protected \in ProtectiveExits(x.at) :
        LET applied == BarApplied(opp, x.in.price, x.in.touch, x.at, protected)
        IN  /\ LiveLong
            /\ \/ AppliedAt("bar", x.at, Revisited(applied, x.in.price, x.at), x.in.price, protected)
               \/ AppliedAt("bar", x.at, applied, x.in.price, protected)
  BY DEF IngestBar
<1>2. PICK protected \in ProtectiveExits(x.at) :
        LET applied == BarApplied(opp, x.in.price, x.in.touch, x.at, protected)
        IN  /\ LiveLong
            /\ \/ AppliedAt("bar", x.at, Revisited(applied, x.in.price, x.at), x.in.price, protected)
               \/ AppliedAt("bar", x.at, applied, x.in.price, protected)
  BY <1>1
<1> DEFINE p == x.in.price
           applied == BarApplied(opp, p, x.in.touch, x.at, protected)
           X == Excused(opp, x.at)
<1>3. /\ opp' = Revisited(applied, p, x.at) \/ opp' = applied
      /\ last'.kind = "bar" /\ last'.at = x.at
  BY <1>2 DEF AppliedAt
<1>4. x.at \in Times /\ Typed(opp) /\ Keyed(opp)
  BY <1>2, InputsTyped, LoadableKeyed DEF TypedInv, LiveLong
<1>5. \A c \in protected : c \in opp.cps /\ c.open /\ x.at > c.reached
  BY DEF ProtectiveExits
<1>6. Typed(applied) /\ Closes(opp, applied, On(x.at), X)
  BY <1>4, <1>5, BarAppliedTyped, BarAppliedCloses
<1>7. Keyed(applied)
  BY <1>6 DEF Closes
<1> HIDE DEF applied, X
<1>8. Closes(applied, opp', On(x.at), X)
  BY <1>3, <1>4, <1>6, <1>7, RevisitedCloses, ClosesItself
<1>9. Closes(opp, opp', On(x.at), X)
  BY <1>4, <1>6, <1>8, ClosesThen
<1>10. Timely(opp, opp', On(x.at), x.at)
  BY <1>4, <1>9, EntriesTimely DEF Closes, X
<1>11. Followed(opp, opp')
  BY <1>4, <1>9, ClosesFollowed
<1> QED  BY <1>3, <1>10, <1>11 DEF Evidenced, On

LEMMA StepCloses ==
  ASSUME LifecycleInv, TypedInv, Next
  PROVE  Followed(opp, opp') /\ Evidenced
BY TransitionCloses, SignalCloses, SwingTradeCloses, OtherInputsClose, AnalysisCloses, BarCloses
   DEF Next

(* V18: when the checkpoint of a Core entry closes, by whatever input and  *)
(* however late, no leg of that entry stays open.                          *)
THEOREM LifecycleNoOrphanLeg == Spec => NoOrphanLeg
<1>1. LifecycleInv /\ TypedInv /\ [Next]_vars => [Followed(opp, opp')]_vars
  BY StepCloses
<1>2. NoOrphanLeg <=> [][Followed(opp, opp')]_vars
  BY PTL DEF NoOrphanLeg, Followed
<1> QED  BY <1>1, <1>2, LifecycleInvariant, LifecycleTypedInvariant, PTL DEF Spec

(* A paper entry is never closed by a transition, a bearish analysis, a    *)
(* rebound exit or a bar that is older than it, for any inputs and any     *)
(* delays; what a late analysis may close beyond that is an entry whose    *)
(* stop the price of the newest observation reached.                       *)
THEOREM LifecycleEvidenceNotOlder == Spec => EvidenceNotOlder
<1>1. LifecycleInv /\ TypedInv /\ [Next]_vars => [Evidenced]_vars
  BY StepCloses
<1>2. EvidenceNotOlder <=> [][Evidenced]_vars
  BY PTL DEF EvidenceNotOlder, Evidenced, Timely
<1> QED  BY <1>1, <1>2, LifecycleInvariant, LifecycleTypedInvariant, PTL DEF Spec

=============================================================================
