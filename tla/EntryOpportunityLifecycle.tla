----------------------- MODULE EntryOpportunityLifecycle -----------------------
(***************************************************************************)
(* The Entry Opportunity engine (V23) for one symbol: the single active    *)
(* opportunity into which watcher transitions, entry signals of several    *)
(* strategies, analyses, minute bars, confirmed SHORT alerts, cancelled    *)
(* leveraged theses and reconciliations are merged.  Its paper entries     *)
(* are checkpoints; the horizon legs opened with one are its positions.    *)
(*                                                                         *)
(* Inputs are applied once each, in the order of the command queue (see    *)
(* EntryOpportunityQueue), which is not the order of their timestamps: an  *)
(* input applied at "now" occurred at "now" minus one of Delays.  A        *)
(* handler that returns early, or raises, is no step.  Every entry is      *)
(* taken at price 3 (EntryPrice); a bar or a mark is one price against it, *)
(* and how a bar reaches a protective exit is PaperEntryExit's subject:    *)
(* here an entry may leave by one at any bar.  Marks, returns, progress    *)
(* and published reasons are left out.                                     *)
(***************************************************************************)
EXTENDS Integers, FiniteSets

CONSTANTS
  Menus,        \* sets of inputs; a behaviour draws its inputs from one of them
  Delays,       \* how late an input may be applied
  MaxTime,      \* bound on the clock
  MarkAge,      \* _EXIT_MARK_MAX_AGE
  Life,         \* lifetimes: watch, LONG, SWING, INTRADAY, swing trade, geri, short
  SessionEnds   \* minutes at which a regular session closes

None == -1
ARMED == 0
IN_ZONE == 1
L1 == 2
L2 == 3
L3 == 4
L4 == 5

EntryPrice == 3
NoTarget == 9    \* above every price
HorizonNames == {"LONG", "SWING", "INTRADAY"}
Core == {"CORE_ENTRY", "CORE_RECOVERY"}
Families == Core \union {"SWING_TRADE", "GERI", "LEVERAGED", "CORE_SHORT"}

ASSUME LifecycleAssumption ==
  /\ Delays \subseteq Nat /\ MaxTime \in Nat /\ MarkAge \in Nat
  /\ \A k \in {"watch", "LONG", "SWING", "INTRADAY", "swing", "geri", "short"} :
       Life[k] \in Nat \ {0}
  /\ SessionEnds \subseteq Nat

WatchStatuses ==
  {"ARMED", "IMPULSE_EXTENDED", "IN_ZONE", "EARLY_ENTRY", "TRIGGERED", "INVALIDATED", "EXPIRED"}

(* What the contracts of transitions and signals admit; a transition to    *)
(* POLICY_INELIGIBLE is dropped by the handler and is no input.            *)
ASSUME MenuAssumption ==
  \A m \in Menus : \A i \in m :
    /\ i.kind = "watch" => i.status \in WatchStatuses
    /\ i.kind = "signal" => i.fam \in Core \union {"LEVERAGED"} /\ i.level \in ARMED..L4
    /\ i.kind \in {"swing", "geri"} => i.stage \in None..4
    /\ i.kind \in {"analysis", "bar"} => i.price \in Nat \ {0}

(* The setups that legs are labelled with.  A setup id carries the prefix  *)
(* of the engine that issued it: no Core entry has one of these.           *)
Scopes == {i.setup : i \in {i \in UNION Menus : i.kind \in {"swing", "short"}}}

ASSUME SetupAssumption ==
  \A i \in UNION Menus :
    /\ i.kind = "signal" => i.setup \notin Scopes
    /\ i.kind = "watch" => i.watch \notin Scopes

VARIABLES
  menu,    \* the inputs of this behaviour
  now,     \* the clock
  opp,     \* the newest opportunity of the symbol
  last     \* history: the input applied last, when it occurred, the price it was
           \* applied at, and the protective exits a bar reached

vars == <<menu, now, opp, last>>

Larger(a, b) == IF a >= b THEN a ELSE b
Lower(a, b) == IF a <= b THEN a ELSE b

---------------------------------------------------------------------------
(* The aggregate.                                                          *)

NewCheckpoint(fam, setup, level, stage, at, stop, target, zone) ==
  [fam |-> fam, setup |-> setup, level |-> level, stage |-> stage, reached |-> at,
   stop |-> stop, target |-> target, zone |-> zone, open |-> TRUE, retested |-> None]

NewLeg(fam, setup, hz, opened, stop, target, expires) ==
  [fam |-> fam, setup |-> setup, hz |-> hz, opened |-> opened, stop |-> stop,
   target |-> target, expires |-> expires,
   status |-> IF opened = None THEN "WATCHING" ELSE "OPEN"]

Reference(fam, setup, cur, peak, at) ==
  [fam |-> fam, setup |-> setup, cur |-> cur, peak |-> peak, at |-> at]

NoAnalysis == [at |-> None, view |-> "none", price |-> EntryPrice]

NewOpportunity(status, primary, peak, at, expires, inval) ==
  [status |-> status, primary |-> primary, watch |-> "none", peak |-> peak, armed |-> at,
   updated |-> at, expires |-> expires, lastBar |-> None, price |-> EntryPrice,
   cursor |-> None, inval |-> inval, refs |-> {}, legs |-> {}, cps |-> {}, analyses |-> [h \in HorizonNames |-> NoAnalysis]]

Nothing == NewOpportunity("NONE", "CORE_ENTRY", ARMED, 0, 0, 0)

Init ==
  /\ menu \in Menus
  /\ now = 1
  /\ opp = Nothing
  /\ last = [kind |-> "none", at |-> 0, price |-> EntryPrice, exits |-> {}]

IsActive == opp.status \notin {"NONE", "CLOSED"}
IsLong == IsActive /\ opp.primary # "CORE_SHORT"

(* validate_opportunity and validate_leg: what load_active can read back.  *)
ObservationOnly(o) ==
  /\ o.primary = "GERI" /\ o.status # "OPEN" /\ o.peak = ARMED
  /\ o.refs # {}
  /\ \A r \in o.refs : r.fam = "GERI" /\ r.cur <= 1 /\ r.peak <= 1
  /\ \A l \in o.legs : l.opened = None

Loadable(o) ==
  /\ o.cps = {} => ObservationOnly(o)
  /\ \A l \in o.legs : l.opened # None /\ l.expires # None => l.expires > l.opened
  /\ \A c, d \in o.cps :
       c.level = d.level /\ c.stage = d.stage /\ c.fam = d.fam /\ c.setup = d.setup => c = d

---------------------------------------------------------------------------
(* Ownership.                                                              *)

LegFamily(o, l) ==
  LET named == {c.fam : c \in {c \in o.cps : c.setup = l.setup}}
               \union {r.fam : r \in {r \in o.refs : r.setup = l.setup}}
  IN  IF l.fam # "none" THEN l.fam
      ELSE IF l.setup = "none" THEN o.primary
      ELSE IF Cardinality(named) = 1 THEN CHOOSE f \in named : TRUE
      ELSE "none"

SameEntry(o, c, l) ==
  /\ c.fam = LegFamily(o, l)
  /\ l.opened = c.reached /\ l.stop = c.stop /\ l.target = c.target
  /\ l.setup \in {"none", c.setup}

HorizonsOf(fam, level) ==
  CASE fam = "CORE_ENTRY" /\ level = L1 -> {"LONG", "INTRADAY"}
    [] fam = "CORE_ENTRY" /\ level = L2 -> {"SWING", "INTRADAY"}
    [] fam = "CORE_ENTRY" -> HorizonNames
    [] fam = "CORE_RECOVERY" -> {"SWING", "INTRADAY"}
    [] fam \in {"SWING_TRADE", "GERI"} -> {"SWING"}
    [] OTHER -> {"INTRADAY"}

CheckpointHorizons(o, c) ==
  LET refs == {r \in o.refs : r.setup = c.setup /\ r.fam = c.fam}
  IN  IF refs # {} THEN UNION {HorizonsOf(r.fam, r.cur) : r \in refs}
      ELSE {l.hz : l \in {l \in o.legs : LegFamily(o, l) = c.fam}}

RefsFor(o, fam, setup) == {r \in o.refs : r.fam = fam /\ r.setup = setup}
Replaced(o, r) == (o.refs \ RefsFor(o, r.fam, r.setup)) \union {r}

(* Mutant: the peak stays where the setup began.                           *)
TrackedFirst(o, fam, setup, stage, at) ==
  LET peaks == {r.peak : r \in RefsFor(o, fam, setup)} \union {stage}
  IN  Replaced(o, Reference(fam, setup, stage, CHOOSE p \in peaks : \A q \in peaks : p <= q, at))

(* A later signal of a setup keeps the peak the setup has reached.         *)
Tracked(o, fam, setup, stage, at) ==
  LET peaks == {r.peak : r \in RefsFor(o, fam, setup)} \union {stage}
  IN  Replaced(o, Reference(fam, setup, stage, CHOOSE p \in peaks : \A q \in peaks : q <= p, at))

---------------------------------------------------------------------------
(* Closing.                                                                *)

CloseLeg(l) == [l EXCEPT !.status = "CLOSED"]
CloseCheckpoint(c) == [c EXCEPT !.open = FALSE]

CloseOpportunity(o, at) ==
  [o EXCEPT !.status = "CLOSED",
            !.updated = Larger(@, at),
            !.legs = {IF l.status = "OPEN" THEN CloseLeg(l) ELSE l : l \in o.legs},
            !.cps = {CloseCheckpoint(c) : c \in o.cps}]

AnythingOpen(o) ==
  (\E l \in o.legs : l.status # "CLOSED") \/ (\E c \in o.cps : c.open)

(* The part of the families' entries that evidence of time ev may close:   *)
(* all horizons (hz = "all") or one, at once or where "breach" is a price  *)
(* at or below the stop.                                                   *)
OwnedLeg(o, l, fams, hz, ev, breach) ==
  /\ LegFamily(o, l) \in fams
  /\ hz \in {"all", l.hz}
  /\ ev >= (IF l.opened = None THEN o.armed ELSE l.opened)
  /\ breach = None \/ breach <= l.stop

OwnedCheckpoint(o, c, fams, hz, ev, breach) ==
  /\ c.fam \in fams /\ c.open
  /\ ev >= c.reached
  /\ hz = "all" \/ hz \in CheckpointHorizons(o, c)
  /\ breach = None \/ breach <= c.stop

(* What V10 leaves of the legs and the checkpoints: an owned leg that only *)
(* watched is dropped.                                                     *)
LegsLeft(o, fams, hz, ev, breach) ==
  LET owned(l) == OwnedLeg(o, l, fams, hz, ev, breach)
  IN  {IF owned(l) /\ l.status = "OPEN" THEN CloseLeg(l) ELSE l :
         l \in {l \in o.legs : ~(owned(l) /\ l.status = "WATCHING")}}

CheckpointsLeft(o, fams, hz, ev, breach) ==
  {IF OwnedCheckpoint(o, c, fams, hz, ev, breach) THEN CloseCheckpoint(c) ELSE c : c \in o.cps}

ClosedWhenDone(o, at) == IF AnythingOpen(o) THEN o ELSE CloseOpportunity(o, at)

(* V18: the legs left open of an entry whose checkpoint closed.            *)
FollowCheckpoints(o, closed) ==
  LET exits == {c \in o.cps : c.open /\ c \notin closed.cps}
  IN  [closed EXCEPT !.legs =
         {IF l.status = "OPEN" /\ (\E c \in exits : SameEntry(closed, c, l))
          THEN CloseLeg(l) ELSE l : l \in @}]

(* Mutant: legs and checkpoints close independently, as before V18.        *)
CloseCoreSeparately(o, fams, hz, ev, at, breach) ==
  LET legs == LegsLeft(o, fams, hz, ev, breach)
      cps == CheckpointsLeft(o, fams, hz, ev, breach)
      updated == [o EXCEPT !.legs = legs, !.cps = cps, !.updated = Larger(@, at)]
  IN  IF legs = o.legs /\ cps = o.cps THEN o ELSE ClosedWhenDone(updated, at)

(* _close_core_entries of V10, then V18.                                   *)
CloseCoreEntries(o, fams, hz, ev, at, breach) ==
  LET legs == LegsLeft(o, fams, hz, ev, breach)
      cps == CheckpointsLeft(o, fams, hz, ev, breach)
      updated == [o EXCEPT !.legs = legs, !.cps = cps, !.updated = Larger(@, at)]
  IN  IF legs = o.legs /\ cps = o.cps THEN o
      ELSE FollowCheckpoints(o, ClosedWhenDone(updated, at))

(* _fresh_exit_mark: the newest observation that is not too old.           *)
MarkAt(o, asOf, t) ==
  LET observed == {o.armed, o.lastBar, asOf} \union {c.reached : c \in o.cps}
                  \union {o.analyses[h].at : h \in HorizonNames}
      eligible == {x \in observed : x # None /\ x <= t /\ t - x <= MarkAge}
  IN  IF eligible = {} THEN None ELSE CHOOSE x \in eligible : \A y \in eligible : y <= x

(* The current price.  "price" is what a bar or an analysis left there;    *)
(* any other input may have replaced it by the price of an entry.          *)
Current(o) == {o.price, EntryPrice}

(* The prices seen at that time.  Entries come first, then the last bar,   *)
(* which has the current price, and the analyses.                          *)
SeenAt(o, a, t) ==
  IF t \in {o.armed} \union {c.reached : c \in o.cps} THEN {EntryPrice}
  ELSE IF t = o.lastBar THEN Current(o)
  ELSE {b.price : b \in {b \in {a} \union {o.analyses[h] : h \in HorizonNames} : b.at = t}}

(* The price of the mark; without a mark nothing is closed.                *)
MarkPrices(o, a, t) ==
  LET mark == MarkAt(o, a.at, t)
      prices == IF mark = None THEN {EntryPrice} ELSE SeenAt(o, a, mark)
  IN  {p \in prices : p > 0}

(* _analysis_price of V10: an analysis that is older than the aggregate or *)
(* its last bar leaves the current price alone.                            *)
AnalysisPrices(o, a) ==
  IF a.at < Larger(o.updated, IF o.lastBar = None THEN o.armed ELSE o.lastBar)
  THEN Current(o) ELSE {a.price}

(* Mutant: the contradiction is dated by the newest observation.           *)
InvalidateAtMark(o, u, hz, a, t, price) ==
  LET mark == MarkAt(o, a.at, t)
      longFailure == hz = "LONG" /\ a.view \in {"bearish", "avoid"}
      stopped == CloseCoreEntries(u, Core, "all", mark, t, price)
  IN  IF mark = None \/ a.at > t THEN u
      ELSE IF longFailure \/ a.view = "bearish"
           THEN CloseCoreEntries(stopped, {"CORE_ENTRY"},
                                 IF longFailure THEN "all" ELSE hz, mark, t, None)
      ELSE stopped

(* _apply_analysis_invalidation of V16: a stop is breached by the price of *)
(* the newest observation, a contradiction counts from the analysis on.    *)
ApplyInvalidation(o, u, hz, a, t, price) ==
  LET mark == MarkAt(o, a.at, t)
      bearish == a.view = "bearish"
      longFailure == hz = "LONG" /\ a.view \in {"bearish", "avoid"}
      stopped == CloseCoreEntries(u, Core, "all", mark, t, price)
      failed == IF longFailure \/ bearish
                THEN CloseCoreEntries(stopped, {"CORE_ENTRY"},
                                      IF longFailure THEN "all" ELSE hz, a.at, t, None)
                ELSE stopped
  IN  IF mark = None \/ a.at > t THEN u
      ELSE IF bearish /\ hz = "SWING"
           THEN CloseCoreEntries(failed, {"CORE_RECOVERY"}, "all", a.at, t, None)
      ELSE failed

---------------------------------------------------------------------------
(* Core entries: _advance with V10's _open_entry_horizons.                 *)

CoreEntry(fam, setup, level, at, stop, target, hzs, track) ==
  [fam |-> fam, setup |-> setup, level |-> level, at |-> at, stop |-> stop,
   target |-> target, hzs |-> hzs, track |-> track]

(* A watching leg of the family opens, a missing one is created open, and  *)
(* one that has ended is never opened again.                               *)
OpenEntryHorizons(o, e) ==
  LET owned == {l \in o.legs : LegFamily(o, l) = e.fam}
      unscoped == {l \in owned : l.setup = "none"}
      opens(l) == l \in unscoped /\ l.hz \in e.hzs /\ l.status = "WATCHING"
      missing == e.hzs \ {l.hz : l \in unscoped}
  IN  (o.legs \ owned)
      \union {IF opens(l) THEN NewLeg(e.fam, "none", l.hz, e.at, e.stop, e.target, l.expires)
                          ELSE [l EXCEPT !.fam = e.fam] : l \in owned}
      \union {NewLeg(e.fam, "none", h, e.at, e.stop, e.target, None) : h \in missing}

Advance(o, e) ==
  LET recorded == \E c \in o.cps : c.level = e.level /\ c.fam = e.fam /\ c.setup = e.setup
      reached == e.level > o.peak \/ e.fam = "CORE_RECOVERY"
      buys == e.level >= o.peak /\ e.level >= L1
      tracks == \/ e.track /\ o.status \in {"ARMED", "IN_ZONE"} /\ e.level <= IN_ZONE
                \/ e.level = IN_ZONE /\ o.status = "ARMED"
  IN  [o EXCEPT
         !.cps = IF reached /\ ~recorded
                 THEN @ \union {NewCheckpoint(e.fam, e.setup, e.level, None, e.at, e.stop,
                                              e.target, e.level = L2)}
                 ELSE @,
         !.legs = IF buys THEN OpenEntryHorizons(o, e) ELSE @,
         !.status = IF buys THEN (IF e.level = L4 THEN "OPEN" ELSE "CONFIRMING")
                    ELSE IF tracks THEN (IF e.level = IN_ZONE THEN "IN_ZONE" ELSE "ARMED")
                    ELSE @,
         !.peak = Larger(@, e.level),
         !.updated = Larger(@, e.at)]

(* _l2_anchor: the L2 entry that joined a running thesis carries a zone.   *)
Anchors(o) == {c \in o.cps : c.level = L2 /\ c.fam = "CORE_ENTRY" /\ c.zone}

(* Mutant: an anchor that was stopped out no longer asks for a retest.     *)
OpenAnchorPending(o) == (\E c \in Anchors(o) : c.open) /\ o.peak < L4

(* ... and the confirmation that it still asks for.                        *)
AnchorPending(o) == Anchors(o) # {} /\ o.peak < L4

---------------------------------------------------------------------------
(* Inputs.                                                                 *)

AppliedAt(kind, at, o, price, exits) ==
  /\ opp' = o
  /\ now' = now + 1
  /\ last' = [kind |-> kind, at |-> at, price |-> price, exits |-> exits]
  /\ UNCHANGED menu

Applied(kind, at, o) ==
  /\ opp' = o
  /\ now' = now + 1
  /\ last' = [kind |-> kind, at |-> at, price |-> EntryPrice, exits |-> {}]
  /\ UNCHANGED menu

(* An input of the kind, and when it occurred.                             *)
Inputs(kind) ==
  IF now > MaxTime THEN {} ELSE
  {[in |-> i, at |-> now - d] : i \in {i \in menu : i.kind = kind}, d \in {d \in Delays : d <= now}}

(* What every LONG handler needs before it changes the aggregate, and what *)
(* one needs whose event, dated by its input, may not precede it.          *)
LiveLong == IsLong /\ Loadable(opp)
LongAt(at) == LiveLong /\ at >= opp.armed

---------------------------------------------------------------------------
(* Watcher transitions.                                                    *)

TransitionLevel(status) ==
  CASE status \in {"ARMED", "IMPULSE_EXTENDED"} -> ARMED
    [] status = "IN_ZONE" -> IN_ZONE
    [] status = "EARLY_ENTRY" -> L1
    [] status = "TRIGGERED" -> L4

WatchStop == 1
WatchEntry(i, at, level, inval) ==
  CoreEntry("CORE_ENTRY", i.watch, level, at, IF level >= L1 THEN i.stop ELSE inval,
            IF level >= L1 THEN i.target ELSE NoTarget, HorizonNames, TRUE)

NewWatchOpportunity(i, at) ==
  LET level == TransitionLevel(i.status)
      e == WatchEntry(i, at, level, WatchStop)
      born == [NewOpportunity(IF level = IN_ZONE THEN "IN_ZONE" ELSE "ARMED", "CORE_ENTRY",
                              level, at, at + Life.watch, WatchStop)
               EXCEPT !.watch = i.watch, !.cursor = at,
                      !.cps = {NewCheckpoint(e.fam, e.setup, level, None, at, e.stop,
                                             e.target, FALSE)},
                      !.legs = {NewLeg("none", "none", "LONG", None, WatchStop, NoTarget, None)}]
  IN  IF level >= L1 THEN Advance(born, e) ELSE born

IngestTransition ==
  \E x \in Inputs("watch") :
    LET i == x.in
        terminal == i.status \in {"INVALIDATED", "EXPIRED"}
        ended == CloseCoreEntries(opp, {"CORE_ENTRY"}, "all", x.at, x.at, None)
    IN  \/ /\ ~IsActive
           /\ i.status \in {"ARMED", "IN_ZONE", "EARLY_ENTRY", "TRIGGERED"}
           /\ Applied("watch", x.at, NewWatchOpportunity(i, x.at))
        \/ /\ LongAt(x.at)
           /\ x.at >= opp.cursor      \* equal times are ordered by event id
           /\ terminal /\ i.watch = opp.watch /\ ended # opp
           /\ Applied("watch", x.at, [ended EXCEPT !.cursor = x.at])
        \/ /\ LongAt(x.at)
           /\ x.at >= opp.cursor
           /\ ~terminal
           /\ ~(i.status = "TRIGGERED" /\ AnchorPending(opp))
           /\ Applied("watch", x.at,
                [Advance(opp, WatchEntry(i, x.at, TransitionLevel(i.status), opp.inval))
                 EXCEPT !.cursor = x.at])

---------------------------------------------------------------------------
(* Core signals, analytical signals and the end of a leveraged thesis.     *)

SignalLife(hzs) == IF "LONG" \in hzs THEN Life.LONG
                   ELSE IF "SWING" \in hzs THEN Life.SWING ELSE Life.INTRADAY

SignalEntry(i, at) ==
  CoreEntry(i.fam, i.setup, i.level, at, i.stop, i.target, HorizonsOf(i.fam, i.level), FALSE)

NewSignalOpportunity(i, at) ==
  LET hzs == HorizonsOf(i.fam, i.level)
      buys == i.fam \notin Core \/ i.level = L4
  IN  [NewOpportunity(IF buys THEN "OPEN" ELSE "CONFIRMING", i.fam, i.level, at,
                      at + SignalLife(hzs), i.stop)
       EXCEPT !.cps = {NewCheckpoint(i.fam, i.setup, i.level, None, at, i.stop, i.target, FALSE)},
              !.legs = {NewLeg("none", "none", h, at, i.stop, i.target, None) : h \in hzs},
              !.refs = {Reference(i.fam, i.setup, i.level, i.level, at)}]

IngestSignal ==
  \E x \in Inputs("signal") :
    LET i == x.in
        known == RefsFor(opp, i.fam, i.setup)
        refs == Replaced(opp, Reference(i.fam, i.setup, i.level, i.level, x.at))
        core == i.fam \in Core
    IN  \/ /\ ~IsActive
           /\ Applied("signal", x.at, NewSignalOpportunity(i, x.at))
        \/ /\ LongAt(x.at) /\ core
           /\ \A r \in known : i.level > r.cur
           /\ ~(i.level = L4 /\ AnchorPending(opp))
           /\ Applied("signal", x.at, [Advance(opp, SignalEntry(i, x.at)) EXCEPT !.refs = refs])
        \/ /\ LongAt(x.at) /\ ~core
           /\ known = {}
           /\ Applied("signal", x.at,
                      [opp EXCEPT !.refs = refs, !.updated = Larger(@, x.at)])

IngestLeveragedCancellation ==
  \E x \in Inputs("cancel") :
    /\ LongAt(x.at)
    /\ opp.primary = "LEVERAGED"
    /\ RefsFor(opp, "LEVERAGED", x.in.setup) # {}
    /\ Applied("cancel", x.at, CloseOpportunity(opp, x.at))

---------------------------------------------------------------------------
(* SwingTrade: ST1 and ST2 are followed, ST3 and ST4 are bought.           *)

SwingSetups(o) == {r.setup : r \in {r \in o.refs : r.fam = "SWING_TRADE"}}

(* _swing_trade_leg_matches_setup                                          *)
MatchesSetup(o, l, setup) ==
  /\ l.hz = "SWING"
  /\ l.setup = setup \/ (l.setup = "none" /\ SwingSetups(o) = {setup})

(* _label_legacy_swing_trade_leg                                           *)
LabelLegacyLeg(o, legs) ==
  LET unscoped == {l \in legs : l.hz = "SWING" /\ l.setup = "none"}
      unmatched == SwingSetups(o) \ {l.setup : l \in legs}
  IN  IF Cardinality(unscoped) = 1 /\ Cardinality(unmatched) = 1
      THEN {IF l \in unscoped THEN [l EXCEPT !.setup = CHOOSE u \in unmatched : TRUE] ELSE l :
              l \in legs}
      ELSE legs

StageCheckpoint(i, fam, at) ==
  NewCheckpoint(fam, i.setup, ARMED, i.stage, at, i.stop, i.target, TRUE)

WithStageCheckpoint(o, i, fam, at) ==
  IF \E c \in o.cps : c.fam = fam /\ c.setup = i.setup /\ c.stage = i.stage
  THEN o.cps ELSE o.cps \union {StageCheckpoint(i, fam, at)}

NewSwingTradeOpportunity(i, at) ==
  LET entered == i.stage >= 3
      expires == at + Life.swing
      leg == NewLeg("none", i.setup, "SWING", IF entered THEN at ELSE None, i.stop, i.target,
                    IF entered THEN expires ELSE None)
  IN  [NewOpportunity(IF entered THEN "OPEN" ELSE "CONFIRMING", "SWING_TRADE", ARMED, at,
                      expires, i.stop)
       EXCEPT !.cps = {StageCheckpoint(i, "SWING_TRADE", at)},
              !.legs = {leg},
              !.refs = {Reference("SWING_TRADE", i.setup, i.stage, i.stage, at)}]

(* Of an ST4 that follows an ST3 only the first is bought.                 *)
EnterSwingTrade(o, i, at) ==
  LET expires == at + Life.swing
      matching == {l \in o.legs : MatchesSetup(o, l, i.setup)}
      watching == {l \in matching : l.status = "WATCHING"}
      bought(f) == NewLeg(f, i.setup, "SWING", at, i.stop, i.target, expires)
      opened == (o.legs \ watching)
                \union (IF watching = {} THEN {bought("none")} ELSE {bought(l.fam) : l \in watching})
      legs == {IF l.status = "OPEN" /\ l.expires = None THEN [l EXCEPT !.expires = o.expires] ELSE l :
                 l \in LabelLegacyLeg(o, opened)}
  IN  IF i.stage >= 3 /\ \A l \in matching : l.opened = None
      THEN [o EXCEPT !.legs = legs, !.status = "OPEN", !.expires = Larger(@, expires),
                     !.inval = Lower(@, i.stop)]
      ELSE o

ApplySwingTrade(o, i, at) ==
  LET known == RefsFor(o, "SWING_TRADE", i.setup)
      followed == [o EXCEPT !.refs = Tracked(o, "SWING_TRADE", i.setup, i.stage, at),
                            !.updated = Larger(@, at)]
  IN  IF i.stage = None /\ known = {} THEN o
      ELSE IF \E r \in known : i.stage # None /\ i.stage = r.cur THEN o
      ELSE IF \E r \in known : i.stage <= r.peak THEN followed
      ELSE LET entered == EnterSwingTrade(o, i, at)
           IN  [followed EXCEPT !.cps = WithStageCheckpoint(o, i, "SWING_TRADE", at),
                                !.legs = entered.legs, !.status = entered.status,
                                !.expires = entered.expires, !.inval = entered.inval]

(* V11: the setup's own positions leave at a target or a failed rebound.   *)
ReboundExit(o, i, at) ==
  LET legs == {IF l.status = "OPEN" /\ at >= l.opened /\ MatchesSetup(o, l, i.setup)
               THEN CloseLeg(l) ELSE l : l \in o.legs}
      cps == {IF c.fam = "SWING_TRADE" /\ c.setup = i.setup /\ at >= c.reached
              THEN CloseCheckpoint(c) ELSE c : c \in o.cps}
      updated == [o EXCEPT !.legs = legs, !.cps = cps, !.updated = Larger(@, at),
                           !.refs = Tracked(o, "SWING_TRADE", i.setup, None, at)]
  IN  IF \A r \in RefsFor(o, "SWING_TRADE", i.setup) : at <= r.at THEN o
      ELSE IF legs = o.legs /\ cps = o.cps THEN o
      ELSE ClosedWhenDone(updated, at)

IngestSwingTrade ==
  \E x \in Inputs("swing") :
    LET changed == IF x.in.exit THEN ReboundExit(opp, x.in, x.at)
                                ELSE ApplySwingTrade(opp, x.in, x.at)
    IN  \/ /\ ~IsActive /\ x.in.stage # None
           /\ Applied("swing", x.at, NewSwingTradeOpportunity(x.in, x.at))
        \/ /\ LongAt(x.at)
           /\ changed # opp
           /\ Applied("swing", x.at, changed)

---------------------------------------------------------------------------
(* GERI countertrend: CT0 and CT1 are observed, CT2 to CT4 are bought.     *)

NewCountertrendOpportunity(i, at) ==
  LET entered == i.stage >= 2
  IN  [NewOpportunity(IF entered THEN "OPEN" ELSE "CONFIRMING", "GERI", ARMED, at,
                      at + Life.geri, i.stop)
       EXCEPT !.cps = IF entered THEN {StageCheckpoint(i, "GERI", at)} ELSE {},
              !.legs = {NewLeg("none", "none", "SWING", IF entered THEN at ELSE None,
                               i.stop, i.target, None)},
              !.refs = {Reference("GERI", i.setup, i.stage, i.stage, at)}]

(* _countertrend_paper_open for the setups given                           *)
CountertrendOpen(o, setups) ==
  IF o.primary = "GERI" THEN \E l \in o.legs : l.status = "OPEN"
  ELSE \E c \in o.cps : c.fam = "GERI" /\ c.setup \in setups /\ c.stage >= 1 /\ c.open

GeriSetups(o) == {r.setup : r \in {r \in o.refs : r.fam = "GERI"}}

ObserveCountertrend(o, i, at) ==
  LET known == RefsFor(o, "GERI", i.setup)
  IN  IF \/ \E r \in known : at <= r.at
         \/ known = {} /\ CountertrendOpen(o, GeriSetups(o))
      THEN o
      ELSE [o EXCEPT !.refs = Tracked(o, "GERI", i.setup, i.stage, at), !.updated = at]

OpenCountertrendLeg(o, i, at) ==
  LET watching == {l \in o.legs : l.hz = "SWING" /\ l.status = "WATCHING"}
      bought(f, s, x) == NewLeg(f, s, "SWING", at, i.stop, i.target, x)
  IN  (o.legs \ watching)
      \union (IF watching = {} THEN {bought("none", "none", None)}
              ELSE {bought(l.fam, l.setup, l.expires) : l \in watching})

ApplyCountertrend(o, i, at) ==
  LET known == RefsFor(o, "GERI", i.setup)
      followed == [o EXCEPT !.refs = Tracked(o, "GERI", i.setup, i.stage, at),
                            !.updated = Larger(@, at)]
      buys == o.primary = "GERI" /\ ~CountertrendOpen(o, {i.setup})
  IN  IF \/ known = {} /\ GeriSetups(o) \ {i.setup} # {} /\ CountertrendOpen(o, GeriSetups(o))
         \/ \E r \in known : i.stage = r.cur
      THEN o
      ELSE IF \E r \in known : i.stage <= r.peak THEN followed
      ELSE [followed EXCEPT !.cps = WithStageCheckpoint(o, i, "GERI", at),
                            !.legs = IF buys THEN OpenCountertrendLeg(o, i, at) ELSE @,
                            !.status = IF buys THEN "OPEN" ELSE @]

(* V13: only an invalidated or an expired structure ends the position.     *)
CountertrendLoss(o, i, at) ==
  LET known == RefsFor(o, "GERI", i.setup)
      followed == [o EXCEPT !.refs = Tracked(o, "GERI", i.setup, None, at),
                            !.updated = Larger(@, at)]
  IN  IF known = {} THEN o
      ELSE IF i.ends
      THEN IF o.primary = "GERI" THEN CloseOpportunity(o, at)
           ELSE [followed EXCEPT !.cps = {IF c.fam = "GERI" /\ c.setup = i.setup
                                          THEN CloseCheckpoint(c) ELSE c : c \in @}]
      ELSE IF \E r \in known : at <= r.at THEN o ELSE followed

IngestCountertrend ==
  \E x \in Inputs("geri") :
    LET i == x.in
        changed == CASE i.stage = None -> CountertrendLoss(opp, i, x.at)
                     [] i.stage \in {0, 1} -> ObserveCountertrend(opp, i, x.at)
                     [] OTHER -> ApplyCountertrend(opp, i, x.at)
    IN  \/ /\ ~IsActive /\ i.stage # None
           /\ Applied("geri", x.at, NewCountertrendOpportunity(i, x.at))
        \/ /\ LongAt(x.at)
           /\ changed # opp
           /\ Applied("geri", x.at, changed)

---------------------------------------------------------------------------
(* A confirmed SHORT alert (V14, V15, V23): a paper position of its own    *)
(* kind while nothing else is active; against a running LONG it is noted.  *)
(* While it runs every LONG input is dropped.                              *)

ShortStop == 5
ShortTarget == 1

NewShortOpportunity(setup, at) ==
  LET expires == at + Life.short
  IN  [NewOpportunity("OPEN", "CORE_SHORT", ARMED, at, expires, ShortStop)
       EXCEPT !.cps = {NewCheckpoint("CORE_SHORT", setup, ARMED, None, at, ShortStop,
                                     ShortTarget, TRUE)},
              !.legs = {NewLeg("CORE_SHORT", setup, "INTRADAY", at, ShortStop, ShortTarget, expires)},
              !.refs = {Reference("CORE_SHORT", setup, None, None, at)}]

IngestShortAlert ==
  \E x \in Inputs("short") :
    \/ /\ ~IsActive
       /\ opp.status = "CLOSED" => x.at > opp.updated
       /\ Applied("short", x.at, NewShortOpportunity(x.in.setup, x.at))
    \/ /\ LiveLong
       /\ Applied("short", x.at, opp)

NewBar(at) == at >= opp.armed /\ at > opp.lastBar

IngestShortBar ==
  \E x \in Inputs("bar") :
    LET p == x.in.price
        updated == [opp EXCEPT !.updated = x.at, !.lastBar = x.at]
        exits == p >= ShortStop \/ p <= ShortTarget \/ x.at \in SessionEnds
    IN  /\ IsActive /\ ~IsLong /\ Loadable(opp) /\ NewBar(x.at)
        /\ Applied("bar", x.at, IF exits THEN CloseOpportunity(updated, x.at) ELSE updated)

---------------------------------------------------------------------------
(* Analyses: evidence against Core entries, and the retest and reclaim     *)
(* that turn an L2 anchor into L4.                                         *)

Retested(o, at) ==
  [o EXCEPT !.cps = {IF c \in Anchors(o) THEN [c EXCEPT !.retested = at] ELSE c : c \in @}]

(* _record_l2_retest and _record_l2_bar_retest: "when" is the evidence's   *)
(* time, "at" the time written down.                                       *)
RecordRetest(o, touched, when, at) ==
  IF /\ touched /\ o.peak < L4
     /\ \E c \in Anchors(o) : c.open /\ c.retested = None /\ when > c.reached
  THEN Retested(o, at) ELSE o

ReclaimConfirmed(o, view, asOf, price) ==
  /\ \E c \in Anchors(o) : c.open /\ c.retested # None /\ c.retested < asOf
  /\ view = "bullish" /\ price > o.inval
  /\ o.analyses["SWING"].view \in {"none", "bullish"}

ReclaimEntry == CoreEntry("CORE_ENTRY", "none", L4, now, 2, 4, {"SWING", "INTRADAY"}, FALSE)

AnalysisOf(x) == [at |-> x.at, view |-> x.in.view, price |-> x.in.price]

IngestAnalysis ==
  \E x \in Inputs("analysis") :
  \E current \in AnalysisPrices(opp, AnalysisOf(x)), price \in MarkPrices(opp, AnalysisOf(x), now) :
    LET i == x.in
        a == AnalysisOf(x)
        updated == [opp EXCEPT !.analyses[i.hz] = a, !.updated = now, !.price = current]
        retested == IF i.hz = "INTRADAY" THEN RecordRetest(updated, i.touch, x.at, now) ELSE updated
        reclaims == i.hz = "INTRADAY" /\ ReclaimConfirmed(retested, i.view, x.at, current)
    IN  /\ LiveLong
        /\ x.at >= opp.analyses[i.hz].at
        /\ AppliedAt("analysis", x.at,
             IF reclaims THEN Advance(retested, ReclaimEntry)
             ELSE ApplyInvalidation(opp, retested, i.hz, a, now, price),
             price, {})

---------------------------------------------------------------------------
(* Minute bars.  A bar trades between the entry price and its price; it    *)
(* may also carry one of the protected entries to its protective exit.     *)

Touches(p, x) == Lower(p, EntryPrice) <= x.stop \/ Larger(p, EntryPrice) >= x.target

Protectable(c) ==
  \/ c.fam \in Core /\ c.level >= L1
  \/ c.fam = "GERI" /\ c.stage >= 2
  \/ c.fam = "SWING_TRADE" /\ c.stage >= 3

(* The entries that a bar may take to their protective exits.              *)
ProtectiveExits(t) == {{}} \union {{c} : c \in {c \in opp.cps : c.open /\ Protectable(c) /\ t > c.reached}}

Marked(o, p, t, protected) ==
  LET leaves(l) == \/ t > l.opened /\ Touches(p, l)
                   \/ \E c \in protected : SameEntry(o, c, l)
  IN  [o EXCEPT
         !.cps = {IF c.open /\ ((t > c.reached /\ Touches(p, c)) \/ c \in protected)
                  THEN CloseCheckpoint(c) ELSE c : c \in @},
         !.legs = {IF l.status = "OPEN" /\ leaves(l) THEN CloseLeg(l) ELSE l : l \in @}]

(* Mutant: entries without a leg of their own do not count.                *)
CanCloseByLegs(o) ==
  \A l \in o.legs : l.status # "CLOSED" => LegFamily(o, l) = "CORE_ENTRY"

(* _bar_can_close_opportunity of V16 and V19                               *)
CanClose(o) ==
  /\ \A c \in o.cps : c.open => c.fam = "CORE_ENTRY" /\ c.level < L1
  /\ \A l \in o.legs : l.status # "CLOSED" => LegFamily(o, l) = "CORE_ENTRY"

SessionClosed(o, t) ==
  [o EXCEPT !.legs = {IF t \in SessionEnds /\ l.hz = "INTRADAY" /\ l.status = "OPEN"
                      THEN CloseLeg(l) ELSE l : l \in @}]

AllOpenedTerminal(o) ==
  LET opened == {l \in o.legs : l.opened # None}
  IN  opened # {} /\ \A l \in opened : l.status = "CLOSED"

BarApplied(o, p, touch, t, protected) ==
  LET low == Lower(p, EntryPrice)
      marked == RecordRetest(Marked(o, p, t, protected),
                             touch /\ \A c \in Anchors(o) : low > c.stop, t, t)
      updated == [SessionClosed(marked, t) EXCEPT !.updated = Larger(@, t), !.lastBar = t,
                                               !.price = p]
  IN  IF low <= o.inval /\ CanClose(marked) THEN CloseOpportunity([marked EXCEPT !.lastBar = t, !.price = p], t)
      ELSE IF AllOpenedTerminal(updated) /\ CanClose(updated) THEN CloseOpportunity(updated, t)
      ELSE updated

(* The bar is the newest observation, behind an entry of the same time.    *)
BarMark(o, p, t) == IF t \in {o.armed} \union {c.reached : c \in o.cps} THEN EntryPrice ELSE p

(* V16: a bar that is not older than the aggregate revisits the analyses.  *)
Revisited(o, p, t) ==
  LET again(u, h) == IF u.analyses[h].view = "none" THEN u
                     ELSE ApplyInvalidation(u, u, h, u.analyses[h], t, BarMark(u, p, t))
  IN  again(again(again(o, "LONG"), "SWING"), "INTRADAY")

IngestBar ==
  \E x \in Inputs("bar") : \E protected \in ProtectiveExits(x.at) :
    LET applied == BarApplied(opp, x.in.price, x.in.touch, x.at, protected)
    IN  /\ LiveLong /\ NewBar(x.at)
        /\ AppliedAt("bar", x.at,
             IF applied.status # "CLOSED" /\ x.at >= opp.updated
             THEN Revisited(applied, x.in.price, x.at) ELSE applied,
             x.in.price, protected)

IngestReferenceBar ==
  \E x \in Inputs("refbar") :
    /\ IsActive /\ Loadable(opp) /\ NewBar(x.at)
    /\ Applied("refbar", x.at, [opp EXCEPT !.updated = Larger(@, x.at), !.lastBar = x.at])

---------------------------------------------------------------------------
(* Reconciliation with the clock and the universe of symbols.              *)

Deadline(o, l) == IF l.expires = None THEN o.expires ELSE l.expires

Expired(o, t) ==
  LET expired == {l \in o.legs : l.status # "CLOSED" /\ t >= Deadline(o, l)}
      setups == {l.setup : l \in expired} \ {"none"}
      kept == {IF l \in expired THEN CloseLeg(l) ELSE l :
                 l \in {l \in o.legs : ~(l \in expired /\ l.status = "WATCHING")}}
      updated == [o EXCEPT !.legs = kept, !.updated = Larger(@, t),
                           !.cps = {IF c.setup \in setups THEN CloseCheckpoint(c) ELSE c : c \in @}]
      deadlines == {Deadline(o, l) : l \in {l \in kept : l.status # "CLOSED"}}
  IN  IF expired = {} THEN o
      ELSE IF deadlines = {} THEN CloseOpportunity(updated, t)
      ELSE [updated EXCEPT !.expires = CHOOSE m \in deadlines : \A n \in deadlines : n <= m]

Reconcile ==
  \E x \in Inputs("reconcile") :
    LET ended == IF (opp.primary = "CORE_SHORT" /\ now >= opp.expires) \/ ~x.in.listed
                 THEN CloseOpportunity(opp, now) ELSE Expired(opp, now)
    IN  /\ IsActive /\ Loadable(opp)
        /\ x.at = now
        /\ ended # opp
        /\ Applied("reconcile", now, ended)

Next ==
  \/ IngestTransition \/ IngestSignal \/ IngestLeveragedCancellation
  \/ IngestSwingTrade \/ IngestCountertrend
  \/ IngestShortAlert \/ IngestShortBar
  \/ IngestAnalysis \/ IngestBar \/ IngestReferenceBar \/ Reconcile

Spec == Init /\ [][Next]_vars

---------------------------------------------------------------------------
(* What must hold.                                                         *)

Times == None..MaxTime
OptionalFamilies == Families \union {"none"}

(* Type correctness of the clock and the aggregate.                        *)
TypeOK ==
  /\ menu \in Menus /\ now \in 1..(MaxTime + 1)
  /\ opp.status \in {"NONE", "ARMED", "IN_ZONE", "CONFIRMING", "OPEN", "CLOSED"}
  /\ opp.primary \in Families /\ opp.peak \in ARMED..L4
  /\ opp.armed \in Times /\ opp.updated \in Times /\ opp.lastBar \in Times
  /\ opp.cursor \in Times /\ opp.expires \in Nat
  /\ \A r \in opp.refs : r.fam \in Families /\ r.cur <= r.peak /\ r.at \in Times
  /\ \A l \in opp.legs : /\ l.fam \in OptionalFamilies /\ l.hz \in HorizonNames
                         /\ l.status \in {"WATCHING", "OPEN", "CLOSED"}
                         /\ l.status = "WATCHING" <=> l.opened = None
  /\ \A c \in opp.cps : /\ c.fam \in Families /\ c.level \in ARMED..L4
                        /\ c.reached \in Times /\ c.retested \in Times /\ c.open \in BOOLEAN

(* V18: when the checkpoint of a Core entry closes, by a watcher, an       *)
(* analysis, a bar or a deadline, every leg of that entry is closed with   *)
(* it: no Core position outlives the entry it belongs to.                  *)
NoOrphanLeg ==
  [][\A c \in opp.cps :
       c.fam \in Core /\ c.open /\ CloseCheckpoint(c) \in opp'.cps =>
         \A l \in opp'.legs : l.status = "OPEN" => ~SameEntry(opp', c, l)]_vars

(* An L2 that joined a running thesis defines a fresh zone: L4 is reached  *)
(* only after that zone was retested, later than the L2 and before the L4, *)
(* whichever of watcher, signal, analysis and bar came first.              *)
L4Earned ==
  \A a \in Anchors(opp) : opp.peak = L4 =>
    /\ a.retested > a.reached
    /\ \A c \in opp.cps : c.fam = "CORE_ENTRY" /\ c.level = L4 => c.reached > a.retested

OpenEntries(o, fams) ==
  {c \in o.cps : c.open /\ c.fam \notin fams}
OpenLegs(o, fams) ==
  {l \in o.legs : l.status = "OPEN" /\ LegFamily(o, l) \notin fams}

(* Core evidence closes Core entries only: a watcher's end CORE_ENTRY, an  *)
(* analysis the Core families, and a bar that closes the original thesis   *)
(* takes no other strategy's entry along that its own levels or protection *)
(* did not reach.                                                          *)
OwnEvidenceOnly ==
  [][/\ IsActive /\ last'.kind = "watch" =>
          /\ OpenEntries(opp, {"CORE_ENTRY"}) \subseteq opp'.cps
          /\ OpenLegs(opp, {"CORE_ENTRY"}) \subseteq opp'.legs
     /\ IsActive /\ last'.kind = "analysis" =>
          /\ OpenEntries(opp, Core) \subseteq opp'.cps
          /\ OpenLegs(opp, Core) \subseteq opp'.legs
     /\ IsLong /\ last'.kind = "bar" =>
          /\ \A c \in OpenEntries(opp, Core) :
               c \in opp'.cps \/ Touches(last'.price, c) \/ c \in last'.exits
          /\ \A l \in OpenLegs(opp, Core) :
               \/ l \in opp'.legs \/ Touches(last'.price, l)
               \/ l.hz = "INTRADAY" /\ last'.at \in SessionEnds
               \/ \E c \in last'.exits : SameEntry(opp, c, l)]_vars

(* Evidence with a time, and with a price or None, counts against an entry *)
(* of that time or earlier, and against one whose stop the price reached.  *)
Counts(e, opened, stop) == e.at >= opened \/ (e.price # None /\ e.price <= stop)

(* A paper entry, its checkpoint and its legs, is never closed by evidence *)
(* older than the entry: a late transition, bearish analysis, rebound exit *)
(* or bar.  Of an analysis that came late only the newest price counts,    *)
(* and only against an entry whose stop it reached.  The end of the        *)
(* regular session alone takes every INTRADAY leg, and a leg that no open  *)
(* checkpoint stands for goes with the thesis.                             *)
EvidenceNotOlder ==
  [][IsLong /\ last'.kind \in {"watch", "analysis", "bar", "swing"} =>
       LET e == [at |-> last'.at, price |-> IF last'.kind = "analysis" THEN last'.price ELSE None]
       IN  /\ \A c \in opp.cps : c.open /\ CloseCheckpoint(c) \in opp'.cps /\ Protectable(c)
                                 => Counts(e, c.reached, c.stop)
           /\ \A l \in opp.legs \ opp'.legs : \A c \in opp.cps :
                /\ l.status = "OPEN" /\ CloseLeg(l) \in opp'.legs \ opp.legs
                /\ c.open /\ Protectable(c) /\ SameEntry(opp, c, l)
                /\ ~(l.hz = "INTRADAY" /\ last'.at \in SessionEnds)
                => Counts(e, l.opened, l.stop)]_vars

(* What is stored can be read back: load_active and list_active validate   *)
(* the aggregate that the handlers store without validating it.            *)
StoredIsLoadable == IsActive => Loadable(opp)

=============================================================================
