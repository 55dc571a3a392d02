------------------------------ MODULE EntryWatcher ------------------------------
(***************************************************************************)
(* The Entry Watcher service (V5.8) for one symbol.  It remembers a Long   *)
(* thesis (a buy zone and its invalidation), follows it through the        *)
(* analyses of three horizons, and publishes its transitions.              *)
(*                                                                         *)
(* One process reads the analyses one at a time.  What it knows is kept    *)
(* three times: in memory (or in the shared cache), in the watch's row,    *)
(* and on the bus, which replays the last analysis of every horizon when   *)
(* the service starts.  An evaluation writes the row up to three times, in *)
(* transactions of their own, and the process may end between any two.     *)
(*                                                                         *)
(* Prices are numbers and the policy's percentages are exact.  A horizon's *)
(* gates are one view: LONG is "armable", "bullish" or "bad", SWING        *)
(* "favorable", "caution" or "bad", INTRADAY "early" (confirmed and        *)
(* efficient), "rising" (with a five-minute higher low besides), "mature"  *)
(* (with a mature confirmation besides) or "bad".                          *)
(***************************************************************************)
EXTENDS Integers, Sequences, FiniteSets

CONSTANTS
  Theses,           \* what tells one thesis from another
  Menus,            \* sets of analyses; a behaviour draws from one of them
  Delays,           \* how old an analysis may be when it is published
  MaxTime,          \* bound on the clock
  MaxCrashes,       \* bound on the ends of the process
  PriceAge,         \* transition_price_max_age
  MaxAge,           \* max_ages, by horizon
  Ttl,              \* ttl
  Rearm,            \* rearm_cooldown
  TriggerRearm,     \* trigger_rearm_cooldown
  Grace             \* continuation_grace

Horizons == {"LONG", "SWING", "INTRADAY"}
Views == {"armable", "bullish", "favorable", "caution", "mature", "rising", "early", "bad"}
Active == {"ARMED", "IN_ZONE", "EARLY_ENTRY", "IMPULSE_EXTENDED"}
None == -1

ASSUME WatcherAssumption ==
  /\ Menus \subseteq SUBSET [hz : Horizons, view : Views, price : Nat, thesis : Theses]
  /\ Delays \subseteq Nat /\ MaxTime \in Nat /\ MaxCrashes \in Nat /\ PriceAge \in Nat
  /\ MaxAge \in [Horizons -> Nat]
  /\ {Ttl, Rearm, TriggerRearm, Grace} \subseteq Nat \ {0}

VARIABLES
  menu,      \* the analyses of this behaviour
  now,       \* the clock
  stream,    \* the last analysis published of every horizon, as the bus retains it
  inbox,     \* analyses on their way to the process
  pc,        \* where the process is
  cur,       \* the analysis it evaluates
  latest,    \* _latest: the newest analysis it knows of every horizon
  watch,     \* the row of the newest watch
  event,     \* the newest transition
  handled,   \* history: the newest analysis of a horizon that was evaluated for
             \* the active watch, and acknowledged
  seen,      \* history: the prices the active watch was evaluated at
  crashes

vars == <<menu, now, stream, inbox, pc, cur, latest, watch, event, handled, seen, crashes>>
evaluation == <<cur, latest>>

---------------------------------------------------------------------------
(* Analyses and prices.                                                    *)

Invalidation == 90
ZoneLow == 94
ZoneHigh == 97

Analysis(i, asOf) ==
  [hz |-> i.hz, view |-> i.view, price |-> i.price, thesis |-> i.thesis, asOf |-> asOf]
NoResult == [hz |-> "none", view |-> "none", price |-> 0, thesis |-> "none", asOf |-> None]
Nowhere == [h \in Horizons |-> NoResult]

Priority(h) == CASE h = "LONG" -> 0 [] h = "SWING" -> 2 [] h = "INTRADAY" -> 3

(* _current_price_observation: the newest analysis gives the price.        *)
Observation(known) ==
  LET results == {known[h] : h \in Horizons} \ {NoResult}
  IN  CHOOSE r \in results :
        \A s \in results : s.asOf < r.asOf \/ (s.asOf = r.asOf /\ Priority(s.hz) <= Priority(r.hz))
Price(known) == Observation(known).price
Observed(known) == [asOf |-> Observation(known).asOf, price |-> Price(known)]

(* Mutant: a price of any age will do.                                     *)
AnyAge(known, t) == known # Nowhere

(* V5.6: nothing is decided at a price that is not contemporary.           *)
Contemporary(known, t) == t - Observation(known).asOf <= PriceAge

(* _restore_decision_state                                                 *)
Restore(known, saved) ==
  [h \in Horizons |-> IF saved[h] # NoResult /\ saved[h].asOf >= known[h].asOf
                      THEN saved[h] ELSE known[h]]

FreshCore(known, t) == \A h \in Horizons : known[h] # NoResult /\ t - known[h].asOf <= MaxAge[h]
LongHolds(known) == known["LONG"].view \in {"armable", "bullish"}

(* _intraday_levels: the stop and the objective of the Intraday analysis,  *)
(* when they enclose the price.                                            *)
Stop(known) == known["INTRADAY"].price - 2
Objective(known) == known["INTRADAY"].price + 4
HasLevels(known, p) == known["INTRADAY"] # NoResult /\ Stop(known) < p /\ p < Objective(known)
RewardRisk(known, p, tenths) == 10 * (Objective(known) - p) >= tenths * (p - Stop(known))

---------------------------------------------------------------------------
(* The watch.                                                              *)

NoImpulse == [start |-> 0, startAt |-> None, peak |-> 0, peakAt |-> None, low |-> 0,
              lowAt |-> None, last |-> 0, lastAt |-> None, prev |-> 0]

NewImpulse(start, startAt, p, t) ==
  [start |-> start, startAt |-> startAt, peak |-> p, peakAt |-> t, low |-> p,
   lowAt |-> None, last |-> p, lastAt |-> t, prev |-> p]

NoWatch == [status |-> "NONE", thesis |-> "none", armed |-> 0, updated |-> 0, expires |-> 0,
            original |-> 0, touched |-> None, impulse |-> NoImpulse, saved |-> Nowhere]

IsActive == watch.status \in Active

NewWatch(a, t) ==
  LET zoned == a.price <= ZoneHigh
  IN  [NoWatch EXCEPT !.status = IF zoned THEN "IN_ZONE" ELSE "ARMED", !.thesis = a.thesis,
                      !.armed = t, !.updated = t, !.expires = t + Ttl, !.original = a.price,
                      !.touched = IF zoned THEN t ELSE None]

(* _change                                                                 *)
Changed(w, status, t) ==
  [w EXCEPT !.status = status, !.updated = t,
            !.touched = IF status = "IN_ZONE" THEN t ELSE @]

(* V5.2's limits on a new watch: near its zone.  The score and the         *)
(* classification are part of "armable".                                   *)
CanArm(a) ==
  /\ a.view = "armable" /\ a.price > Invalidation
  /\ 100 * (a.price - ZoneHigh) <= 4 * a.price

Cooling(a, t) ==
  \/ watch.status = "TRIGGERED" /\ t - watch.updated < TriggerRearm
  \/ watch.status # "NONE" /\ t - watch.updated < Rearm /\ watch.thesis = a.thesis

(* _confirmed of V5.8, in the zone                                         *)
Confirmed(known, p, t) ==
  /\ HasLevels(known, p) /\ FreshCore(known, t) /\ LongHolds(known)
  /\ known["SWING"].view = "favorable" /\ known["INTRADAY"].view = "mature"

(* _continuation_candidate of V5: above the zone, after a recent touch of  *)
(* it, or without one near the Intraday trigger.                           *)
Candidate(w, known, p, t) ==
  /\ p > ZoneHigh
  /\ IF w.touched # None
     THEN t - w.touched <= Grace /\ 100 * (p - ZoneHigh) <= 4 * ZoneHigh
     ELSE known["INTRADAY"] # NoResult /\ p <= known["INTRADAY"].price + 1

ContinuationConfirmed(known, p, t) ==
  /\ FreshCore(known, t) /\ LongHolds(known)
  /\ known["SWING"].view \in {"favorable", "caution"} /\ known["INTRADAY"].view = "mature"
  /\ HasLevels(known, p) /\ RewardRisk(known, p, 20)

LongFails(a) == a.hz = "LONG" /\ (a.view = "bad" \/ a.price <= Invalidation)

(* ingest of the base engine: the status that follows, "none" to stay.     *)
Judged(w, known, a, t) ==
  LET p == Price(known)
      triggers == \/ ZoneLow <= p /\ p <= ZoneHigh /\ Confirmed(known, p, t)
                  \/ Candidate(w, known, p, t) /\ ContinuationConfirmed(known, p, t)
  IN  IF a.asOf < known[a.hz].asOf THEN "none"
      ELSE IF t >= w.expires THEN "EXPIRED"
      ELSE IF LongFails(a) THEN "INVALIDATED"
      ELSE IF triggers THEN "TRIGGERED"
      ELSE IF w.status = "ARMED" /\ Invalidation < p /\ p <= ZoneHigh THEN "IN_ZONE"
      ELSE IF w.status = "IN_ZONE" /\ 10000 * p > 10025 * ZoneHigh THEN "ARMED"
      ELSE "none"

(* _swing_approved and _early_confirmation                                 *)
EarlyEntry(w, known, p, t) ==
  /\ w.status \in {"ARMED", "IN_ZONE"}
  /\ known["SWING"].view = "favorable" /\ LongHolds(known) /\ FreshCore(known, t)
  /\ known["INTRADAY"].view \in {"mature", "rising", "early"}
  /\ HasLevels(known, p) /\ RewardRisk(known, p, 15)

ImpulseMissed(w, p) ==
  w.status \in {"ARMED", "IN_ZONE"} /\ 100 * (p - ZoneHigh) > 4 * ZoneHigh

(* _new_impulse_state of V5.7                                              *)
StartImpulse(w, known) ==
  LET o == Observation(known)
  IN  IF o.asOf < w.armed THEN NoImpulse ELSE NewImpulse(w.original, w.armed, o.price, o.asOf)

(* Mutant: a new peak is not recorded.                                     *)
TrackKeepsPeak(m, o) ==
  LET moved == [m EXCEPT !.last = o.price, !.lastAt = o.asOf, !.prev = m.last]
  IN  IF m = NoImpulse THEN NewImpulse(o.price, o.asOf, o.price, o.asOf)
      ELSE IF o.asOf <= m.lastAt THEN m
      ELSE IF o.price < m.peak /\ (m.lowAt = None \/ o.price < m.low)
           THEN [moved EXCEPT !.low = o.price, !.lowAt = o.asOf]
      ELSE moved

(* _updated_impulse_state of V5.7                                          *)
Track(m, o) ==
  LET moved == [m EXCEPT !.last = o.price, !.lastAt = o.asOf, !.prev = m.last]
  IN  IF m = NoImpulse THEN NewImpulse(o.price, o.asOf, o.price, o.asOf)
      ELSE IF o.asOf <= m.lastAt THEN m
      ELSE IF o.price > m.peak
           THEN [moved EXCEPT !.peak = o.price, !.peakAt = o.asOf, !.low = o.price, !.lowAt = None]
      ELSE IF o.price < m.peak /\ (m.lowAt = None \/ o.price < m.low)
           THEN [moved EXCEPT !.low = o.price, !.lowAt = o.asOf]
      ELSE moved

(* Mutant: a low that is still being made counts as a pullback.            *)
AnyChronology(m, t) == m.startAt # None /\ m.peakAt # None /\ m.lowAt # None

(* V5.7: the start, the peak, the low and the reclaim were observed in     *)
(* this order, and the price is rising.                                    *)
Chronology(m, t) ==
  /\ m.startAt # None /\ m.lowAt # None
  /\ m.startAt < m.peakAt /\ m.peakAt < m.lowAt /\ m.lowAt < m.lastAt /\ m.lastAt <= t
  /\ m.last > m.prev

(* _pullback_reclaim: an efficient entry above the Intraday trigger with a *)
(* five-minute higher low; it need not be mature.                          *)
PullbackReclaim(known, p) ==
  known["INTRADAY"].view \in {"mature", "rising"} /\ p >= known["INTRADAY"].price

(* _pullback_entry_levels: back in the middle of the impulse, reclaimed,   *)
(* and worth the risk of the buffered low.                                 *)
PullbackEntry(m, known, t) ==
  LET o == Observation(known)
      impulse == m.peak - m.start
      p == o.price
  IN  /\ known["SWING"].view = "favorable" /\ LongHolds(known) /\ FreshCore(known, t)
      /\ Chronology(m, t)
      /\ o.asOf = m.lastAt /\ p = m.last /\ t - m.lastAt <= PriceAge
      /\ impulse > 0
      /\ 1000 * m.peak - 618 * impulse <= 1000 * p /\ 1000 * p <= 1000 * m.peak - 382 * impulse
      /\ PullbackReclaim(known, p)
      /\ m.peak - p >= 2 * (p - (m.low - 1))

---------------------------------------------------------------------------
(* The service.                                                            *)

Nothing == [status |-> "none", prev |-> "none", at |-> None, price |-> 0, priceAt |-> None]

Unhandled == [h \in Horizons |-> None]

Init ==
  /\ menu \in Menus
  /\ now = 0
  /\ stream = Nowhere /\ inbox = <<>>
  /\ pc = "idle" /\ cur = NoResult
  /\ latest = Nowhere
  /\ watch = NoWatch
  /\ event = Nothing
  /\ handled = Unhandled
  /\ seen = {}
  /\ crashes = 0

(* An analysis is published; it may be older than the one before it.  An   *)
(* evaluation takes no time, and one that waits is one that comes late.    *)
Publish ==
  /\ now < MaxTime
  /\ pc = "down" \/ (pc = "idle" /\ inbox = <<>>)
  /\ now' = now + 1
  /\ \E i \in menu, d \in {d \in Delays : d <= now} :
       LET a == Analysis(i, now + 1 - d)
       IN  /\ stream' = [stream EXCEPT ![a.hz] = a]
           /\ inbox' = IF pc = "down" THEN inbox ELSE Append(inbox, a)
  /\ UNCHANGED <<menu, pc, evaluation, watch, event, handled, seen, crashes>>

Finish ==
  /\ pc' = "idle" /\ cur' = NoResult
  /\ handled' = IF IsActive /\ cur.asOf > handled[cur.hz]
                THEN [handled EXCEPT ![cur.hz] = cur.asOf] ELSE handled

(* A transition is committed with its outbox row.                          *)
Transition(w, status, known) ==
  /\ watch' = w
  /\ event' = [status |-> w.status, prev |-> status, at |-> now, price |-> Price(known),
               priceAt |-> Observation(known).asOf]

(* The analysis is delivered and remembered; without a contemporary price  *)
(* that is all.                                                            *)
Accept ==
  /\ pc = "idle" /\ inbox # <<>>
  /\ LET a == Head(inbox)
         known == [latest EXCEPT ![a.hz] = a]
         stale == a.asOf < latest[a.hz].asOf
     IN  /\ latest' = IF stale THEN latest ELSE known
         /\ \/ /\ ~stale /\ Contemporary(known, now)
               /\ pc' = "evaluating" /\ cur' = a
               /\ seen' = IF IsActive THEN seen \union {Observed(known)} ELSE seen
            \/ /\ stale \/ ~Contemporary(known, now)
               /\ UNCHANGED <<pc, cur, seen>>
  /\ inbox' = Tail(inbox)
  /\ UNCHANGED <<menu, now, stream, watch, event, handled, crashes>>

(* No watch: a Long analysis may arm one, at its own price.                *)
EvaluateUnwatched ==
  /\ pc = "evaluating" /\ ~IsActive
  /\ IF cur.hz = "LONG" /\ ~Cooling(cur, now) /\ CanArm(cur)
     THEN /\ watch' = NewWatch(cur, now)
          /\ event' = [status |-> watch'.status, prev |-> "none", at |-> now,
                       price |-> cur.price, priceAt |-> cur.asOf]
          /\ seen' = {} /\ handled' = Unhandled
          /\ pc' = "saving_last"
          /\ UNCHANGED cur
     ELSE Finish /\ UNCHANGED <<watch, event, seen>>
  /\ UNCHANGED <<menu, now, stream, inbox, latest, crashes>>

Evaluate ==
  /\ pc = "evaluating" /\ IsActive
  /\ LET restored == Restore(latest, watch.saved)
         known == IF cur.asOf < restored[cur.hz].asOf THEN restored
                  ELSE [restored EXCEPT ![cur.hz] = cur]
         status == Judged(watch, known, cur, now)
     IN  /\ latest' = known
         /\ \/ /\ status = "none"
               /\ pc' = "saving"
               /\ UNCHANGED <<watch, event, cur, handled>>
            \/ /\ status \in {"ARMED", "IN_ZONE"}
               /\ Transition(Changed(watch, status, now), watch.status, known)
               /\ pc' = "saving_last"
               /\ UNCHANGED <<cur, handled>>
            \/ /\ status \notin {"none", "ARMED", "IN_ZONE"}
               /\ Transition(Changed(watch, status, now), watch.status, known)
               /\ Finish
  /\ UNCHANGED <<menu, now, stream, inbox, seen, crashes>>

(* Mutant: the evidence is saved with a transition only.                   *)
SaveOnChange ==
  /\ pc \in {"saving", "saving_last"}
  /\ watch' = IF pc = "saving_last" THEN [watch EXCEPT !.saved = latest] ELSE watch
  /\ IF pc = "saving" THEN pc' = "entering" /\ UNCHANGED <<cur, handled>> ELSE Finish
  /\ UNCHANGED <<menu, now, stream, inbox, latest, event, seen, crashes>>

(* _persist_decision_state                                                 *)
Save ==
  /\ pc \in {"saving", "saving_last"}
  /\ watch' = [watch EXCEPT !.saved = latest]
  /\ IF pc = "saving" THEN pc' = "entering" /\ UNCHANGED <<cur, handled>> ELSE Finish
  /\ UNCHANGED <<menu, now, stream, inbox, latest, event, seen, crashes>>

(* V5.4 after an evaluation that changed nothing: an early entry, a missed *)
(* impulse, or the next observation of one.                                *)
Enter ==
  /\ pc = "entering"
  /\ LET p == Price(latest)
         tracked == [watch EXCEPT !.impulse = Track(@, Observation(latest))]
     IN  \/ /\ EarlyEntry(watch, latest, p, now)
            /\ Transition(Changed(watch, "EARLY_ENTRY", now), watch.status, latest)
            /\ Finish
         \/ /\ ~EarlyEntry(watch, latest, p, now) /\ ImpulseMissed(watch, p)
            /\ Transition([Changed(watch, "IMPULSE_EXTENDED", now)
                           EXCEPT !.impulse = StartImpulse(watch, latest)], watch.status, latest)
            /\ Finish
         \/ /\ watch.status = "IMPULSE_EXTENDED"
            /\ watch' = tracked
            /\ IF PullbackEntry(tracked.impulse, latest, now)
               THEN pc' = "reclaiming" /\ UNCHANGED <<cur, handled>> ELSE Finish
            /\ UNCHANGED event
         \/ /\ watch.status # "IMPULSE_EXTENDED"
            /\ ~EarlyEntry(watch, latest, p, now) /\ ~ImpulseMissed(watch, p)
            /\ Finish
            /\ UNCHANGED <<watch, event>>
  /\ UNCHANGED <<menu, now, stream, inbox, latest, seen, crashes>>

(* The pullback was reclaimed: the entry it defines.                       *)
Reclaim ==
  /\ pc = "reclaiming"
  /\ Transition(Changed(watch, "EARLY_ENTRY", now), watch.status, latest)
  /\ Finish
  /\ UNCHANGED <<menu, now, stream, inbox, latest, seen, crashes>>

(* The process ends anywhere; the shared cache, if there is one, keeps     *)
(* what it knew.                                                           *)
Crash ==
  /\ pc # "down" /\ crashes < MaxCrashes
  /\ crashes' = crashes + 1
  /\ pc' = "down" /\ inbox' = <<>> /\ cur' = NoResult
  /\ latest' \in {Nowhere, latest}
  /\ UNCHANGED <<menu, now, stream, watch, event, handled, seen>>

(* It starts with the last analysis of every horizon, in any order.        *)
Retained == {stream[h] : h \in Horizons} \ {NoResult}

Restart ==
  /\ pc = "down" /\ pc' = "idle"
  /\ inbox' \in {s \in [1..Cardinality(Retained) -> Retained] :
                    \A i, j \in DOMAIN s : s[i] = s[j] => i = j}
  /\ UNCHANGED <<menu, now, stream, evaluation, watch, event, handled, seen, crashes>>

Next ==
  \/ Publish \/ Accept \/ EvaluateUnwatched \/ Evaluate \/ Save \/ Enter \/ Reclaim
  \/ Crash \/ Restart

Spec == Init /\ [][Next]_vars

---------------------------------------------------------------------------
(* What must hold.                                                         *)

Times == None..MaxTime
Results == [hz : Horizons \union {"none"}, view : Views \union {"none"}, price : Nat,
            thesis : Theses \union {"none"}, asOf : Times]
Evidence == [Horizons -> Results]
Impulses == [start : Nat, startAt : Times, peak : Nat, peakAt : Times, low : Nat, lowAt : Times,
             last : Nat, lastAt : Times, prev : Nat]
Statuses == Active \union {"NONE", "TRIGGERED", "INVALIDATED", "EXPIRED"}
Watches == [status : Statuses, thesis : Theses \union {"none"},
            armed : Nat, updated : Nat, expires : Nat,
            original : Nat, touched : Times, impulse : Impulses, saved : Evidence]

(* Type correctness; an impulse lies between its low and its peak.         *)
TypeOK ==
  /\ menu \in Menus /\ now \in 0..MaxTime /\ crashes \in 0..MaxCrashes
  /\ pc \in {"idle", "evaluating", "saving", "saving_last", "entering", "reclaiming", "down"}
  /\ stream \in Evidence /\ inbox \in Seq(Results) /\ cur \in Results /\ latest \in Evidence
  /\ watch \in Watches /\ handled \in [Horizons -> Times]
  /\ pc \in {"saving", "saving_last", "entering", "reclaiming"} => IsActive
  /\ watch.impulse.low <= watch.impulse.last /\ watch.impulse.last <= watch.impulse.peak

(* Every later transition is stamped with the price of its own moment:     *)
(* replayed and restored analyses are context, never the price of a new    *)
(* event.  The first one carries the Long analysis's own price.            *)
PriceContemporary == event.prev # "none" => event.at - event.priceAt <= PriceAge

(* An entry out of an extended impulse rests on prices this watch was      *)
(* evaluated at, observed in this order: a peak, a lower price, and the    *)
(* one it enters at, between the two, whatever order the analyses came in  *)
(* and however often the process ended.                                    *)
PullbackInOrder ==
  event.status = "EARLY_ENTRY" /\ event.prev = "IMPULSE_EXTENDED" =>
    \E top, bottom \in seen :
      /\ top.asOf < bottom.asOf /\ bottom.asOf < event.priceAt
      /\ bottom.price < event.price /\ event.price < top.price

(* An entry rests on the newest evidence: no analysis of it is older than  *)
(* one of its horizon that was evaluated for this watch and acknowledged,  *)
(* by this process or by one that has ended since.                         *)
NotSuperseded ==
  [][event'.status \in {"TRIGGERED", "EARLY_ENTRY"} /\ event' # event =>
       \A h \in Horizons : latest'[h].asOf >= handled[h]]_vars

---------------------------------------------------------------------------
(* Why they hold: an inductive invariant.                                  *)

Working == pc \in {"evaluating", "saving", "saving_last", "entering", "reclaiming"}

(* An analysis is of its horizon, and of the past.                         *)
Placed(known) ==
  \A h \in Horizons : known[h] = NoResult \/ (known[h].hz = h /\ known[h].asOf \in 0..now)
Dated == Placed(stream) /\ Placed(latest) /\ Placed(watch.saved)
InboxDated == \A i \in 1..Len(inbox) : inbox[i].hz \in Horizons /\ inbox[i].asOf \in 0..now

(* While it works, the process holds the analysis it was given, a price of *)
(* the moment, and all the evidence of the row.                            *)
WorkControl ==
  /\ Working => /\ cur.hz \in Horizons /\ cur.asOf \in 0..now
                /\ latest[cur.hz].asOf >= cur.asOf
                /\ Contemporary(latest, now)
  /\ pc = "evaluating" => latest[cur.hz] = cur
  /\ Working /\ pc # "evaluating" => \A h \in Horizons : latest[h].asOf >= watch.saved[h].asOf
  /\ pc \in {"entering", "reclaiming"} => watch.saved = latest
  /\ pc = "reclaiming" => watch.status = "IMPULSE_EXTENDED" /\ PullbackEntry(watch.impulse, latest, now)

(* What was acknowledged is in the row.                                    *)
HandledSaved == IsActive => \A h \in Horizons : handled[h] <= watch.saved[h].asOf

(* The observations of an impulse are in order, and all but the first were *)
(* made for this watch.                                                    *)
ImpulseControl ==
  LET m == watch.impulse
  IN  /\ m.startAt <= m.peakAt /\ m.peakAt <= m.lastAt
      /\ m.startAt < m.peakAt => [asOf |-> m.peakAt, price |-> m.peak] \in seen
      /\ m.lowAt # None => /\ m.peakAt < m.lowAt /\ m.lowAt <= m.lastAt
                           /\ [asOf |-> m.lowAt, price |-> m.low] \in seen
                           /\ m.lowAt < m.lastAt => m.low <= m.prev

(* The newest price of the evidence was one the watch was evaluated at, or *)
(* is that of the evidence it was armed with, from which no impulse goes on.  *)
Vouched(known) ==
  \/ Observed(known) \in seen
  \/ /\ Observation(known).asOf <= watch.armed
     /\ watch.impulse = NoImpulse \/ Observation(known).asOf <= watch.impulse.lastAt
SeenControl ==
  IsActive => (Working => Vouched(latest)) /\ (watch.saved # Nowhere => Vouched(watch.saved))

WatcherInv ==
  /\ TypeOK /\ Dated /\ InboxDated /\ WorkControl /\ HandledSaved /\ ImpulseControl /\ SeenControl
  /\ PriceContemporary /\ PullbackInOrder

=============================================================================
