--------------------------- MODULE EntryWatcherProofs ---------------------------
(***************************************************************************)
(* The Entry Watcher, for any menus of analyses, delays, ages and          *)
(* cooldowns, and any number of ends of the process: types, the price of a *)
(* transition, the order of a pullback, and the evidence of an entry.      *)
(***************************************************************************)
EXTENDS EntryWatcher, SequenceTheorems, FiniteSetTheorems, TLAPS

-----------------------------------------------------------------------------
(* The price observation.                                                  *)

\* Times and the empty values have their types.
LEMMA Values ==
  /\ MaxTime \in Nat /\ None = -1 /\ None \in Times /\ Times \subseteq Int
  /\ NoResult \in Results /\ NoResult.asOf = -1 /\ Nowhere \in Evidence
  /\ \A h \in Horizons : Nowhere[h] = NoResult
  /\ NoImpulse \in Impulses /\ NoWatch \in Watches
<1>1. MaxTime \in Nat /\ None = -1 /\ None \in Times /\ Times \subseteq Int
  BY WatcherAssumption DEF Times, None
<1>2. NoResult \in Results /\ NoResult.asOf = -1
  BY <1>1 DEF NoResult, Results
<1>3. Nowhere \in Evidence /\ \A h \in Horizons : Nowhere[h] = NoResult
  BY <1>2 DEF Nowhere, Evidence
<1>4. NoImpulse \in Impulses
  BY <1>1 DEF NoImpulse, Impulses
<1>5. NoWatch \in Watches
  BY <1>1, <1>3, <1>4 DEF NoWatch, Watches, Statuses
<1>6. QED
  BY <1>1, <1>2, <1>3, <1>4, <1>5

\* Priorities tell horizons apart.
LEMMA Priorities ==
  /\ Priority("LONG") = 0 /\ Priority("SWING") = 2 /\ Priority("INTRADAY") = 3
  /\ \A h \in Horizons : Priority(h) \in Int
  /\ \A g, h \in Horizons : Priority(g) = Priority(h) => g = h
<1>1. Priority("LONG") = 0
  BY DEF Priority
<1>2. Priority("SWING") = 2
  BY DEF Priority
<1>3. Priority("INTRADAY") = 3
  BY DEF Priority
<1>4. QED
  BY <1>1, <1>2, <1>3 DEF Horizons

\* The analysis of horizon h is the newest of what is known, ties going by priority.
Newest(known, h) ==
  /\ known[h] # NoResult
  /\ \A g \in Horizons : known[g] # NoResult =>
       \/ known[g].asOf < known[h].asOf
       \/ known[g].asOf = known[h].asOf /\ Priority(g) <= Priority(h)

Sorted(known) == \A h \in Horizons : known[h] = NoResult \/ (known[h].hz = h /\ known[h].asOf \in Nat)

\* There is a newest analysis as soon as there is one.
LEMMA NewestExists ==
  ASSUME NEW known \in Evidence, Sorted(known), NEW e \in Horizons, known[e] # NoResult
  PROVE  \E h \in Horizons : Newest(known, h)
<1> DEFINE a == known["LONG"].asOf
           b == known["SWING"].asOf
           c == known["INTRADAY"].asOf
           has(h) == known[h] # NoResult
<1>0. /\ has("LONG") => a \in Nat
      /\ has("SWING") => b \in Nat
      /\ has("INTRADAY") => c \in Nat
      /\ has("LONG") \/ has("SWING") \/ has("INTRADAY")
  BY DEF Sorted, Horizons
<1>1. CASE has("INTRADAY") /\ (has("SWING") => b <= c) /\ (has("LONG") => a <= c)
  <2>1. Newest(known, "INTRADAY")
    BY <1>0, <1>1, Priorities DEF Newest, Horizons
  <2>2. QED
    BY <2>1 DEF Horizons
<1>2. CASE has("SWING") /\ (has("INTRADAY") => c < b) /\ (has("LONG") => a <= b)
  <2>1. Newest(known, "SWING")
    BY <1>0, <1>2, Priorities DEF Newest, Horizons
  <2>2. QED
    BY <2>1 DEF Horizons
<1>3. CASE has("LONG") /\ (has("INTRADAY") => c < a) /\ (has("SWING") => b < a)
  <2>1. Newest(known, "LONG")
    BY <1>0, <1>3, Priorities DEF Newest, Horizons
  <2>2. QED
    BY <2>1 DEF Horizons
<1> HIDE DEF a, b, c, has
<1>4. QED
  BY <1>0, <1>1, <1>2, <1>3

\* The observation is the newest analysis, and there is only one.
LEMMA ObservationIs ==
  ASSUME NEW known \in Evidence, Sorted(known), NEW h \in Horizons, Newest(known, h)
  PROVE  Observation(known) = known[h]
<1> DEFINE results == {known[g] : g \in Horizons} \ {NoResult}
           first(r) == \A s \in results :
                         s.asOf < r.asOf \/ (s.asOf = r.asOf /\ Priority(s.hz) <= Priority(r.hz))
<1>1. known[h] \in results /\ known[h].hz = h /\ known[h].asOf \in Nat
  BY DEF Newest, Sorted
<1>2. first(known[h])
  <2> SUFFICES ASSUME NEW g \in Horizons, known[g] # NoResult
               PROVE  \/ known[g].asOf < known[h].asOf
                      \/ known[g].asOf = known[h].asOf /\ Priority(known[g].hz) <= Priority(known[h].hz)
    OBVIOUS
  <2>1. known[g].hz = g
    BY DEF Sorted
  <2>2. QED
    BY <1>1, <2>1 DEF Newest
<1>3. ASSUME NEW r \in results, first(r) PROVE r = known[h]
  <2>1. PICK g \in Horizons : r = known[g] /\ known[g] # NoResult
    BY <1>3
  <2>2. r.hz = g /\ r.asOf \in Nat
    BY <2>1 DEF Sorted
  <2>3. known[h].asOf < r.asOf \/ (known[h].asOf = r.asOf /\ Priority(h) <= Priority(g))
    BY <1>1, <1>3, <2>2
  <2>4. r.asOf < known[h].asOf \/ (r.asOf = known[h].asOf /\ Priority(g) <= Priority(h))
    BY <2>1 DEF Newest
  <2>5. Priority(g) = Priority(h)
    BY <1>1, <2>2, <2>3, <2>4, Priorities
  <2>6. QED
    BY <2>1, <2>5, Priorities
<1>4. Observation(known) = CHOOSE r \in results : first(r)
  BY DEF Observation
<1> HIDE DEF results, first
<1>5. QED
  BY <1>1, <1>2, <1>3, <1>4

\* The observation of what is known is one of its analyses, and none is newer.
LEMMA ObservationFacts ==
  ASSUME NEW known \in Evidence, Sorted(known), NEW e \in Horizons, known[e] # NoResult
  PROVE  /\ \E h \in Horizons : Newest(known, h) /\ Observation(known) = known[h]
         /\ Observation(known) \in Results /\ Observation(known).asOf \in Nat
         /\ \A g \in Horizons : known[g].asOf <= Observation(known).asOf
         /\ Observed(known) = [asOf |-> Observation(known).asOf, price |-> Observation(known).price]
         /\ Price(known) = Observation(known).price
<1>1. PICK h \in Horizons : Newest(known, h)
  BY NewestExists
<1>2. Observation(known) = known[h]
  BY <1>1, ObservationIs
<1>3. known[h] # NoResult /\ known[h] \in Results /\ known[h].asOf \in Nat
  BY <1>1 DEF Newest, Sorted, Evidence
<1>4. \A g \in Horizons : known[g].asOf <= known[h].asOf
  <2> TAKE g \in Horizons
  <2>1. CASE known[g] = NoResult
    BY <1>3, <2>1, Values
  <2>2. CASE known[g] # NoResult
    <3>1. known[g].asOf \in Nat
      BY <2>2 DEF Sorted
    <3>2. QED
      BY <1>1, <1>3, <2>2, <3>1 DEF Newest
  <2>3. QED
    BY <2>1, <2>2
<1>5. QED
  BY <1>1, <1>2, <1>3, <1>4 DEF Observed, Price

\* Two records of evidence, taken together horizon by horizon: the observation is that
\* of one of them, and no older than either.
LEMMA MergedObservation ==
  ASSUME NEW k \in Evidence, NEW s \in Evidence, NEW m \in Evidence, Sorted(k), Sorted(s),
         \A h \in Horizons : m[h] \in {k[h], s[h]} /\ m[h].asOf >= k[h].asOf /\ m[h].asOf >= s[h].asOf,
         NEW e \in Horizons, k[e] # NoResult
  PROVE  /\ Sorted(m) /\ m[e] # NoResult
         /\ Observation(m).asOf >= Observation(k).asOf
         /\ \/ Observation(m) = Observation(k)
            \/ s # Nowhere /\ Observation(m) = Observation(s)
<1>1. Sorted(m) /\ m[e] # NoResult
  <2>1. Sorted(m)
    BY DEF Sorted
  <2>2. k[e].asOf \in Nat /\ m[e].asOf >= k[e].asOf
    BY DEF Sorted
  <2>3. QED
    BY <2>1, <2>2, Values
<1>2. PICK h \in Horizons : Newest(m, h) /\ Observation(m) = m[h]
  BY <1>1, ObservationFacts
<1>3. m[h].asOf \in Nat /\ m[h] # NoResult
  BY <1>1, <1>2 DEF Sorted, Newest
<1>4. ASSUME NEW x \in Evidence, Sorted(x), m[h] = x[h], \A g \in Horizons : m[g].asOf >= x[g].asOf
      PROVE  Observation(x) = x[h]
  <2>1. Newest(x, h)
    <3> SUFFICES ASSUME NEW g \in Horizons, x[g] # NoResult
                 PROVE  x[g].asOf < x[h].asOf \/ (x[g].asOf = x[h].asOf /\ Priority(g) <= Priority(h))
      BY <1>3, <1>4 DEF Newest
    <3>1. x[g].asOf \in Nat /\ m[g].asOf >= x[g].asOf
      BY <1>4 DEF Sorted
    <3>2. m[g] # NoResult /\ m[g].asOf \in Nat
      <4>1. m[g] # NoResult
        BY <3>1, Values
      <4>2. QED
        BY <1>1, <4>1 DEF Sorted
    <3>3. m[g].asOf < m[h].asOf \/ (m[g].asOf = m[h].asOf /\ Priority(g) <= Priority(h))
      BY <1>2, <3>2 DEF Newest
    <3>4. QED
      BY <1>3, <1>4, <3>1, <3>2, <3>3
  <2>2. QED
    BY <1>4, <2>1, ObservationIs
<1>5. Observation(m).asOf >= Observation(k).asOf
  <2>1. PICK j \in Horizons : Observation(k) = k[j] /\ Observation(k).asOf \in Nat
    BY ObservationFacts
  <2>2. m[j].asOf <= Observation(m).asOf /\ m[j].asOf >= k[j].asOf /\ Observation(m).asOf \in Nat
    BY <1>1, ObservationFacts
  <2>3. m[j].asOf \in Int
    BY Values DEF Evidence, Results
  <2>4. QED
    BY <2>1, <2>2, <2>3
<1>6. CASE m[h] = k[h]
  BY <1>1, <1>2, <1>4, <1>5, <1>6
<1>7. CASE m[h] = s[h]
  <2>1. s # Nowhere
    BY <1>3, <1>7, Values
  <2>2. QED
    BY <1>1, <1>2, <1>4, <1>5, <1>7, <2>1
<1>8. QED
  BY <1>6, <1>7

\* What is placed in the past is sorted.
LEMMA PlacedSorted ==
  ASSUME now \in Nat, NEW known, Placed(known)
  PROVE  Sorted(known)
BY DEF Placed, Sorted

-----------------------------------------------------------------------------
(* The impulse.                                                            *)

\* The observations of impulse m are in order, and all but the first are among s.
InOrder(m, s) ==
  /\ m.low <= m.last /\ m.last <= m.peak
  /\ m.startAt <= m.peakAt /\ m.peakAt <= m.lastAt
  /\ m.startAt < m.peakAt => [asOf |-> m.peakAt, price |-> m.peak] \in s
  /\ m.lowAt # None => /\ m.peakAt < m.lowAt /\ m.lowAt <= m.lastAt
                       /\ [asOf |-> m.lowAt, price |-> m.low] \in s
                       /\ m.lowAt < m.lastAt => m.low <= m.prev

\* An impulse that begins at the price of its peak is in order.
LEMMA NewInOrder ==
  ASSUME NEW st \in Nat, NEW at \in Times, NEW p \in Nat, NEW t \in Times, NEW s, at <= t,
         at < t => [asOf |-> t, price |-> p] \in s
  PROVE  /\ NewImpulse(st, at, p, t) \in Impulses
         /\ InOrder(NewImpulse(st, at, p, t), s)
         /\ NewImpulse(st, at, p, t).lastAt = t
BY Values DEF NewImpulse, Impulses, InOrder

\* The next observation keeps an impulse in order, if it is among s when it counts.
LEMMA TrackInOrder ==
  ASSUME NEW m \in Impulses, NEW o \in Results, NEW s, o.asOf \in Nat, InOrder(m, s),
         m # NoImpulse /\ o.asOf > m.lastAt => [asOf |-> o.asOf, price |-> o.price] \in s
  PROVE  /\ Track(m, o) \in Impulses /\ InOrder(Track(m, o), s)
         /\ o.asOf <= Track(m, o).lastAt
<1> DEFINE moved == [m EXCEPT !.last = o.price, !.lastAt = o.asOf, !.prev = m.last]
           low == [moved EXCEPT !.low = o.price, !.lowAt = o.asOf]
           peak == [moved EXCEPT !.peak = o.price, !.peakAt = o.asOf, !.low = o.price, !.lowAt = None]
<1>0. /\ o.price \in Nat /\ o.asOf \in Times /\ o.asOf \in Nat
      /\ m.start \in Nat /\ m.startAt \in Times /\ m.peak \in Nat /\ m.peakAt \in Times
      /\ m.low \in Nat /\ m.lowAt \in Times /\ m.last \in Nat /\ m.lastAt \in Times
      /\ m.prev \in Nat
      /\ m.startAt \in Int /\ m.peakAt \in Int /\ m.lowAt \in Int /\ m.lastAt \in Int
  BY Values DEF Results, Impulses
<1>1. CASE m = NoImpulse
  <2>1. Track(m, o) = NewImpulse(o.price, o.asOf, o.price, o.asOf)
    BY <1>1 DEF Track
  <2>2. o.asOf <= o.asOf /\ (o.asOf < o.asOf => [asOf |-> o.asOf, price |-> o.price] \in s)
    BY <1>0
  <2>3. /\ NewImpulse(o.price, o.asOf, o.price, o.asOf) \in Impulses
        /\ InOrder(NewImpulse(o.price, o.asOf, o.price, o.asOf), s)
        /\ NewImpulse(o.price, o.asOf, o.price, o.asOf).lastAt = o.asOf
    <3> DEFINE t == o.asOf
               p == o.price
    <3>1. t \in Times /\ p \in Nat /\ t <= t /\ (t < t => [asOf |-> t, price |-> p] \in s)
      BY <1>0, <2>2
    <3> HIDE DEF t, p
    <3>2. /\ NewImpulse(p, t, p, t) \in Impulses /\ InOrder(NewImpulse(p, t, p, t), s)
          /\ NewImpulse(p, t, p, t).lastAt = t
      BY <3>1, NewInOrder
    <3>3. QED
      BY <3>2 DEF t, p
  <2>4. QED
    BY <2>1, <2>2, <2>3
<1>2. CASE m # NoImpulse /\ o.asOf <= m.lastAt
  <2>1. Track(m, o) = m
    BY <1>2 DEF Track
  <2>2. QED
    BY <1>2, <2>1
<1>3. CASE m # NoImpulse /\ ~(o.asOf <= m.lastAt)
  <2>0. o.asOf > m.lastAt /\ [asOf |-> o.asOf, price |-> o.price] \in s
    BY <1>0, <1>3
  <2>1. /\ moved \in Impulses /\ moved.start = m.start /\ moved.startAt = m.startAt
        /\ moved.peak = m.peak /\ moved.peakAt = m.peakAt /\ moved.low = m.low
        /\ moved.lowAt = m.lowAt /\ moved.last = o.price /\ moved.lastAt = o.asOf
        /\ moved.prev = m.last
    BY <1>0 DEF Impulses
  <2> HIDE DEF moved
  <2>2. CASE o.price > m.peak
    <3>1. Track(m, o) = peak
      BY <1>3, <2>2 DEF Track, moved
    <3>2. /\ peak \in Impulses /\ peak.startAt = m.startAt /\ peak.peak = o.price
          /\ peak.peakAt = o.asOf /\ peak.low = o.price /\ peak.lowAt = None
          /\ peak.last = o.price /\ peak.lastAt = o.asOf
      BY <1>0, <2>1, Values DEF Impulses
    <3> HIDE DEF peak
    <3>3. InOrder(peak, s)
      BY <1>0, <2>0, <3>2 DEF InOrder
    <3>4. QED
      BY <1>0, <3>1, <3>2, <3>3
  <2>3. CASE ~(o.price > m.peak) /\ o.price < m.peak /\ (m.lowAt = None \/ o.price < m.low)
    <3>1. Track(m, o) = low
      BY <1>3, <2>3 DEF Track, moved
    <3>2. /\ low \in Impulses /\ low.startAt = m.startAt /\ low.peak = m.peak
          /\ low.peakAt = m.peakAt /\ low.low = o.price /\ low.lowAt = o.asOf
          /\ low.last = o.price /\ low.lastAt = o.asOf
      BY <1>0, <2>1 DEF Impulses
    <3> HIDE DEF low
    <3>3. InOrder(low, s)
      BY <1>0, <2>0, <2>3, <3>2 DEF InOrder
    <3>4. QED
      BY <1>0, <3>1, <3>2, <3>3
  <2>4. CASE ~(o.price > m.peak) /\ ~(o.price < m.peak /\ (m.lowAt = None \/ o.price < m.low))
    <3>1. Track(m, o) = moved
      BY <1>3, <2>4 DEF Track, moved
    <3>2. InOrder(moved, s)
      BY <1>0, <2>0, <2>1, <2>4 DEF InOrder
    <3>3. QED
      BY <1>0, <2>1, <3>1, <3>2
  <2>5. QED
    BY <2>2, <2>3, <2>4
<1>4. QED
  BY <1>1, <1>2, <1>3

-----------------------------------------------------------------------------
(* What the process works with.                                            *)

\* While it works the process knows the price of the moment.
LEMMA WorkFacts ==
  ASSUME TypeOK, Dated, WorkControl, Working
  PROVE  /\ now \in Nat /\ Sorted(latest) /\ latest[cur.hz] # NoResult
         /\ Observation(latest) \in Results
         /\ Observation(latest).asOf \in Nat /\ Observation(latest).asOf <= now
         /\ now - Observation(latest).asOf <= PriceAge
         /\ Price(latest) = Observation(latest).price
         /\ Observed(latest) = [asOf |-> Observation(latest).asOf, price |-> Observation(latest).price]
<1>1. now \in Nat /\ latest \in Evidence /\ Sorted(latest)
  BY Values, PlacedSorted DEF TypeOK, Dated
<1>2. cur.hz \in Horizons /\ cur.asOf \in Nat /\ latest[cur.hz].asOf >= cur.asOf
  BY DEF WorkControl
<1>3. latest[cur.hz] # NoResult
  BY <1>2, Values
<1>4. PICK h \in Horizons : Newest(latest, h) /\ Observation(latest) = latest[h]
  BY <1>1, <1>2, <1>3, ObservationFacts
<1>5. Observation(latest).asOf <= now
  BY <1>4 DEF Newest, Dated, Placed
<1>6. now - Observation(latest).asOf <= PriceAge
  BY DEF WorkControl, Contemporary
<1>7. QED
  BY <1>1, <1>2, <1>3, <1>5, <1>6, ObservationFacts

\* The evidence of an evaluation: what the process knows and what the row holds.
Considered ==
  LET restored == Restore(latest, watch.saved)
  IN  IF cur.asOf < restored[cur.hz].asOf THEN restored ELSE [restored EXCEPT ![cur.hz] = cur]

\* It is no older than either, horizon by horizon, and its price is of the moment and
\* one the watch was evaluated at.
LEMMA ConsideredFacts ==
  ASSUME TypeOK, Dated, WorkControl, SeenControl, pc = "evaluating", IsActive
  PROVE  /\ Considered \in Evidence /\ Placed(Considered)
         /\ Considered[cur.hz].asOf >= cur.asOf
         /\ \A h \in Horizons : Considered[h].asOf >= watch.saved[h].asOf
         /\ Contemporary(Considered, now) /\ Vouched(Considered)
<1> DEFINE restored == Restore(latest, watch.saved)
<1>0. /\ Working /\ latest \in Evidence /\ watch.saved \in Evidence /\ now \in Nat
      /\ Sorted(latest) /\ Sorted(watch.saved)
      /\ cur.hz \in Horizons /\ cur \in Results /\ latest[cur.hz] = cur
    BY Values, PlacedSorted DEF Working, TypeOK, Dated, Watches, WorkControl
<1>1. \A h \in Horizons : latest[h].asOf \in Int /\ watch.saved[h].asOf \in Int
  BY <1>0, Values DEF Evidence, Results
<1>2. /\ restored \in Evidence
      /\ \A h \in Horizons : /\ restored[h] \in {latest[h], watch.saved[h]}
                             /\ restored[h].asOf >= latest[h].asOf
                             /\ restored[h].asOf >= watch.saved[h].asOf
  <2>1. restored \in Evidence
    BY <1>0 DEF Restore, Evidence
  <2>2. ASSUME NEW h \in Horizons
        PROVE  /\ restored[h] \in {latest[h], watch.saved[h]}
               /\ restored[h].asOf >= latest[h].asOf
               /\ restored[h].asOf >= watch.saved[h].asOf
    <3>1. CASE watch.saved[h] # NoResult /\ watch.saved[h].asOf >= latest[h].asOf
      <4>1. restored[h] = watch.saved[h]
        BY <3>1 DEF Restore
      <4>2. QED
        BY <1>1, <3>1, <4>1
    <3>2. CASE ~(watch.saved[h] # NoResult /\ watch.saved[h].asOf >= latest[h].asOf)
      <4>1. restored[h] = latest[h]
        BY <3>2 DEF Restore
      <4>2. latest[h].asOf >= watch.saved[h].asOf
        BY <1>0, <1>1, <3>2, Values DEF Sorted
      <4>3. QED
        BY <1>1, <4>1, <4>2
    <3>3. QED
      BY <3>1, <3>2
  <2>3. QED
    BY <2>1, <2>2
<1> HIDE DEF restored
<1>3. /\ Considered \in Evidence
      /\ \A h \in Horizons : /\ Considered[h] \in {latest[h], watch.saved[h]}
                             /\ Considered[h].asOf >= latest[h].asOf
                             /\ Considered[h].asOf >= watch.saved[h].asOf
  <2>1. CASE cur.asOf < restored[cur.hz].asOf
    <3>1. Considered = restored
      BY <2>1 DEF Considered, restored
    <3>2. QED
      BY <1>2, <3>1
  <2>2. CASE ~(cur.asOf < restored[cur.hz].asOf)
    <3>1. Considered = [restored EXCEPT ![cur.hz] = cur]
      BY <2>2 DEF Considered, restored
    <3>2. Considered \in Evidence
      BY <1>0, <1>2, <3>1 DEF Evidence
    <3>3. \A h \in Horizons : Considered[h] = IF h = cur.hz THEN cur ELSE restored[h]
      BY <1>2, <3>1 DEF Evidence
    <3>4. cur.asOf >= latest[cur.hz].asOf /\ cur.asOf >= watch.saved[cur.hz].asOf
      BY <1>0, <1>1, <1>2, <2>2
    <3>5. QED
      BY <1>0, <1>2, <3>2, <3>3, <3>4
  <2>3. QED
    BY <2>1, <2>2
<1>4. latest[cur.hz] # NoResult
  BY <1>0, WorkFacts
<1>5. /\ Sorted(Considered) /\ Considered[cur.hz] # NoResult
      /\ Observation(Considered).asOf >= Observation(latest).asOf
      /\ \/ Observation(Considered) = Observation(latest)
         \/ watch.saved # Nowhere /\ Observation(Considered) = Observation(watch.saved)
  BY <1>0, <1>3, <1>4, MergedObservation
<1>6. Placed(Considered)
  BY <1>3 DEF Placed, Dated
<1>7. Contemporary(Considered, now)
  <2>1. Observation(latest).asOf \in Nat /\ now - Observation(latest).asOf <= PriceAge
    BY <1>0, WorkFacts
  <2>2. Observation(Considered).asOf \in Nat
    BY <1>0, <1>3, <1>5, ObservationFacts
  <2>3. QED
    BY <1>0, <1>5, <2>1, <2>2, WatcherAssumption DEF Contemporary
<1>8. Vouched(Considered)
  <2>1. Vouched(latest) /\ (watch.saved # Nowhere => Vouched(watch.saved))
    BY <1>0 DEF SeenControl
  <2>2. ASSUME NEW x, Observation(Considered) = Observation(x), Vouched(x) PROVE Vouched(Considered)
    BY <2>2 DEF Vouched, Observed, Price
  <2>3. QED
    BY <1>5, <2>1, <2>2
<1>9. Considered[cur.hz].asOf >= cur.asOf
  BY <1>0, <1>3
<1>10. QED
  BY <1>3, <1>6, <1>7, <1>8, <1>9

-----------------------------------------------------------------------------
(* The actions, one by one: what each may change.                          *)

\* An analysis is published by someone else.
LEMMA PublishFacts ==
  ASSUME TypeOK, Dated, Publish
  PROVE  /\ now' = now + 1 /\ now' \in 0..MaxTime /\ pc \in {"idle", "down"}
         /\ stream' \in Evidence /\ inbox' \in Seq(Results)
         /\ \A h \in Horizons : stream'[h] = stream[h] \/ (stream'[h].hz = h /\ stream'[h].asOf \in 0..now')
         /\ \A i \in 1..Len(inbox') : \/ i \in 1..Len(inbox) /\ inbox'[i] = inbox[i]
                                      \/ inbox'[i].hz \in Horizons /\ inbox'[i].asOf \in 0..now'
         /\ UNCHANGED <<menu, pc, cur, latest, watch, event, handled, seen, crashes>>
<1>1. PICK i \in menu, d \in Delays :
        LET a == Analysis(i, now + 1 - d)
        IN  /\ d <= now
            /\ stream' = [stream EXCEPT ![a.hz] = a]
            /\ inbox' = IF pc = "down" THEN inbox ELSE Append(inbox, a)
  BY DEF Publish
<1> DEFINE a == Analysis(i, now + 1 - d)
<1>2. now \in Nat /\ d \in Nat /\ now' = now + 1 /\ now' \in 0..MaxTime
  BY WatcherAssumption DEF TypeOK, Publish
<1>3. i \in [hz : Horizons, view : Views, price : Nat, thesis : Theses]
  BY WatcherAssumption DEF TypeOK
<1>4. now + 1 - d \in 0..now' /\ now + 1 - d \in Times
  <2>1. d <= now
    BY <1>1
  <2>2. now + 1 - d \in 0..now'
    BY <1>2, <2>1
  <2>3. QED
    BY <1>2, <2>2, WatcherAssumption DEF Times, None
<1>5. a \in Results /\ a.hz \in Horizons /\ a.asOf = now + 1 - d
  BY <1>3, <1>4 DEF Analysis, Results
<1> HIDE DEF a
<1>6. stream' = [stream EXCEPT ![a.hz] = a]
  BY <1>1 DEF a
<1>7. inbox' = IF pc = "down" THEN inbox ELSE Append(inbox, a)
  BY <1>1 DEF a
<1>8. /\ stream' \in Evidence
      /\ \A h \in Horizons : stream'[h] = stream[h] \/ (stream'[h].hz = h /\ stream'[h].asOf \in 0..now')
  <2>1. stream \in Evidence
    BY DEF TypeOK
  <2>2. QED
    BY <1>4, <1>5, <1>6, <2>1 DEF Evidence
<1>9. /\ inbox' \in Seq(Results)
      /\ \A n \in 1..Len(inbox') : \/ n \in 1..Len(inbox) /\ inbox'[n] = inbox[n]
                                   \/ inbox'[n].hz \in Horizons /\ inbox'[n].asOf \in 0..now'
  <2>1. inbox \in Seq(Results) /\ Len(inbox) \in Nat
    BY LenProperties DEF TypeOK
  <2>2. CASE inbox' = inbox
    BY <2>1, <2>2
  <2>3. CASE inbox' = Append(inbox, a)
    <3>1. /\ inbox' \in Seq(Results) /\ Len(inbox') = Len(inbox) + 1
          /\ \A n \in 1..Len(inbox) : inbox'[n] = inbox[n]
          /\ inbox'[Len(inbox) + 1] = a
      BY <1>5, <2>1, <2>3, AppendProperties
    <3>2. QED
      BY <1>4, <1>5, <2>1, <3>1
  <2>4. QED
    BY <1>7, <2>2, <2>3
<1>10. QED
  BY <1>2, <1>8, <1>9 DEF Publish, evaluation

\* An analysis is taken from the inbox; it is evaluated or not.
LEMMA AcceptFacts ==
  ASSUME TypeOK, InboxDated, Accept
  PROVE  /\ pc = "idle" /\ pc' \in {"idle", "evaluating"} /\ latest' \in Evidence /\ cur' \in Results
         /\ inbox' \in Seq(Results)
         /\ \A n \in 1..Len(inbox') : n + 1 \in 1..Len(inbox) /\ inbox'[n] = inbox[n + 1]
         /\ \A h \in Horizons : latest'[h] = latest[h] \/ (latest'[h].hz = h /\ latest'[h].asOf \in 0..now)
         /\ pc' = "evaluating" => /\ cur'.hz \in Horizons /\ cur'.asOf \in 0..now /\ latest'[cur'.hz] = cur'
                                  /\ now - Observation(latest').asOf <= PriceAge
                                  /\ IsActive => [asOf |-> Observation(latest').asOf,
                                                  price |-> Observation(latest').price] \in seen'
         /\ seen \subseteq seen'
         /\ UNCHANGED <<menu, now, stream, watch, event, handled, crashes>>
<1> DEFINE a == Head(inbox)
           known == [latest EXCEPT ![a.hz] = a]
           stale == a.asOf < latest[a.hz].asOf
<1>1. /\ inbox \in Seq(Results) /\ inbox # <<>> /\ inbox' = Tail(inbox) /\ latest \in Evidence
      /\ cur \in Results /\ pc = "idle"
  BY DEF TypeOK, Accept
<1>2. /\ Head(inbox) \in Results /\ Head(inbox) = inbox[1] /\ 1 \in 1..Len(inbox)
      /\ inbox' \in Seq(Results) /\ Len(inbox') = Len(inbox) - 1 /\ Len(inbox) \in Nat
      /\ \A n \in 1..Len(inbox') : inbox'[n] = inbox[n + 1]
  BY <1>1, HeadTailProperties, LenProperties, EmptySeq
<1>3. a \in Results /\ a.hz \in Horizons /\ a.asOf \in 0..now
  BY <1>2 DEF InboxDated
<1>4. /\ latest' = IF stale THEN latest ELSE known
      /\ \/ /\ ~stale /\ Contemporary(known, now)
            /\ pc' = "evaluating" /\ cur' = a
            /\ seen' = IF IsActive THEN seen \union {Observed(known)} ELSE seen
         \/ UNCHANGED <<pc, cur, seen>>
  BY DEF Accept
<1> HIDE DEF a
<1>5. /\ known \in Evidence /\ known[a.hz] = a
      /\ \A h \in Horizons : known[h] = latest[h] \/ (known[h].hz = h /\ known[h].asOf \in 0..now)
  BY <1>1, <1>3 DEF Evidence
<1> HIDE DEF known, stale
<1>6. /\ latest' \in Evidence
      /\ \A h \in Horizons : latest'[h] = latest[h] \/ (latest'[h].hz = h /\ latest'[h].asOf \in 0..now)
  BY <1>1, <1>4, <1>5
<1>7. \A n \in 1..Len(inbox') : n + 1 \in 1..Len(inbox)
  BY <1>2
<1>8. CASE ~stale /\ Contemporary(known, now) /\ pc' = "evaluating" /\ cur' = a
           /\ seen' = IF IsActive THEN seen \union {Observed(known)} ELSE seen
  <2>1. latest' = known
    BY <1>4, <1>8
  <2>2. now - Observation(latest').asOf <= PriceAge
    BY <1>8, <2>1 DEF Contemporary
  <2>3. Observed(known) = [asOf |-> Observation(latest').asOf, price |-> Observation(latest').price]
    BY <2>1 DEF Observed, Price
  <2>4. QED
    BY <1>1, <1>2, <1>3, <1>5, <1>6, <1>7, <1>8, <2>1, <2>2, <2>3 DEF Accept
<1>9. CASE UNCHANGED <<pc, cur, seen>>
  BY <1>1, <1>2, <1>6, <1>7, <1>9 DEF Accept
<1>10. QED
  BY <1>4, <1>8, <1>9

\* The end of an evaluation.
LEMMA FinishFacts ==
  ASSUME TypeOK, Finish, cur.hz \in Horizons
  PROVE  /\ pc' = "idle" /\ cur' = NoResult /\ handled' \in [Horizons -> Times]
         /\ \A h \in Horizons : handled'[h] = handled[h] \/ (h = cur.hz /\ handled'[h] = cur.asOf)
BY DEF Finish, TypeOK, Results

\* A change of status.
LEMMA ChangedFacts ==
  ASSUME NEW w \in Watches, NEW st \in Statuses, NEW t \in Times, t \in Nat
  PROVE  /\ Changed(w, st, t) \in Watches /\ Changed(w, st, t).status = st
         /\ Changed(w, st, t).armed = w.armed /\ Changed(w, st, t).impulse = w.impulse
         /\ Changed(w, st, t).saved = w.saved
BY DEF Changed, Watches

\* The fields of the row, and the clock, have their types.
LEMMA RowFacts ==
  ASSUME TypeOK
  PROVE  /\ watch \in Watches /\ watch.status \in Statuses /\ watch.impulse \in Impulses
         /\ watch.saved \in Evidence /\ watch.armed \in Nat
         /\ now \in Nat /\ now \in Times /\ now <= MaxTime
         /\ watch.status # "none"
<1>1. watch \in Watches
  BY DEF TypeOK
<1>2. watch.status \in Statuses /\ watch.impulse \in Impulses /\ watch.saved \in Evidence /\ watch.armed \in Nat
  BY <1>1 DEF Watches
<1>3. now \in Nat /\ now \in Times /\ now <= MaxTime
  BY WatcherAssumption DEF TypeOK, Times, None
<1>4. watch.status # "none"
  BY <1>2 DEF Statuses, Active
<1>5. QED
  BY <1>1, <1>2, <1>3, <1>4

\* No watch, and perhaps a new one.
LEMMA UnwatchedFacts ==
  ASSUME TypeOK, WorkControl, EvaluateUnwatched
  PROVE  /\ pc = "evaluating" /\ ~IsActive /\ cur.hz \in Horizons
         /\ UNCHANGED <<menu, now, stream, inbox, latest, crashes>>
         /\ \/ /\ watch' \in Watches /\ watch'.status \in {"ARMED", "IN_ZONE"} /\ watch'.armed = now
               /\ watch'.impulse = NoImpulse /\ watch'.saved = Nowhere
               /\ event'.prev = "none" /\ event'.status \in {"ARMED", "IN_ZONE"}
               /\ seen' = {} /\ handled' = Unhandled /\ pc' = "saving_last" /\ cur' = cur
            \/ Finish /\ UNCHANGED <<watch, event, seen>>
<1>1. pc = "evaluating" /\ ~IsActive /\ cur.hz \in Horizons /\ cur \in Results
  BY DEF EvaluateUnwatched, WorkControl, Working, TypeOK
<1>2. CASE cur.hz = "LONG" /\ ~Cooling(cur, now) /\ CanArm(cur)
  <2>1. /\ watch' = NewWatch(cur, now)
        /\ event' = [status |-> watch'.status, prev |-> "none", at |-> now,
                     price |-> cur.price, priceAt |-> cur.asOf]
        /\ seen' = {} /\ handled' = Unhandled /\ pc' = "saving_last" /\ cur' = cur
    BY <1>2 DEF EvaluateUnwatched
  <2> DEFINE st == IF cur.price <= ZoneHigh THEN "IN_ZONE" ELSE "ARMED"
             tc == IF cur.price <= ZoneHigh THEN now ELSE None
  <2>2. watch' = [NoWatch EXCEPT !.status = st, !.thesis = cur.thesis, !.armed = now, !.updated = now,
                                 !.expires = now + Ttl, !.original = cur.price, !.touched = tc]
    BY <2>1 DEF NewWatch
  <2>3. st \in {"ARMED", "IN_ZONE"} /\ tc \in Times
    BY RowFacts, Values
  <2> HIDE DEF st, tc
  <2>4. /\ cur.thesis \in Theses \union {"none"} /\ cur.price \in Nat /\ now \in Nat
        /\ now + Ttl \in Nat /\ st \in Statuses
    BY <1>1, <2>3, RowFacts, WatcherAssumption DEF Results, Statuses, Active
  <2>5. watch' \in Watches /\ watch'.status = st /\ watch'.armed = now
    BY <2>2, <2>3, <2>4, Values DEF Watches
  <2>6. NoWatch.impulse = NoImpulse /\ NoWatch.saved = Nowhere
    BY DEF NoWatch
  <2>7. watch'.impulse = NoImpulse /\ watch'.saved = Nowhere
    BY <2>2, <2>6, Values DEF Watches
  <2>8. event'.prev = "none" /\ event'.status = watch'.status
    BY <2>1
  <2>9. QED
    BY <1>1, <2>1, <2>3, <2>5, <2>7, <2>8 DEF EvaluateUnwatched
<1>3. CASE ~(cur.hz = "LONG" /\ ~Cooling(cur, now) /\ CanArm(cur))
  <2>1. Finish /\ UNCHANGED <<watch, event, seen>>
    BY <1>3 DEF EvaluateUnwatched
  <2>2. QED
    BY <1>1, <2>1 DEF EvaluateUnwatched
<1>4. QED
  BY <1>2, <1>3

\* What the base engine decides.
LEMMA JudgedRange ==
  ASSUME NEW w, NEW known, NEW a, NEW t
  PROVE  Judged(w, known, a, t) \in {"none", "EXPIRED", "INVALIDATED", "TRIGGERED", "IN_ZONE", "ARMED"}
BY DEF Judged

\* A transition at the price of what is known.
Told(st, known) ==
  event' = [status |-> st, prev |-> watch.status, at |-> now, price |-> Price(known),
            priceAt |-> Observation(known).asOf]

\* The evaluation of an active watch.
LEMMA EvaluateFacts ==
  ASSUME TypeOK, WorkControl, Evaluate
  PROVE  /\ pc = "evaluating" /\ IsActive /\ cur.hz \in Horizons /\ latest' = Considered
         /\ UNCHANGED <<menu, now, stream, inbox, seen, crashes>>
         /\ watch' \in Watches /\ watch'.armed = watch.armed /\ watch'.impulse = watch.impulse
         /\ watch'.saved = watch.saved
         /\ \/ pc' = "saving" /\ UNCHANGED <<watch, event, cur, handled>>
            \/ /\ pc' = "saving_last" /\ watch'.status \in {"ARMED", "IN_ZONE"}
               /\ Told(watch'.status, Considered) /\ UNCHANGED <<cur, handled>>
            \/ /\ watch'.status \in {"EXPIRED", "INVALIDATED", "TRIGGERED"}
               /\ Told(watch'.status, Considered) /\ Finish
<1> DEFINE status == Judged(watch, Considered, cur, now)
<1>1. /\ pc = "evaluating" /\ IsActive /\ cur.hz \in Horizons /\ latest' = Considered
      /\ UNCHANGED <<menu, now, stream, inbox, seen, crashes>>
  BY DEF Evaluate, Considered, WorkControl, Working
<1>2. \/ /\ status = "none" /\ pc' = "saving" /\ UNCHANGED <<watch, event, cur, handled>>
      \/ /\ status \in {"ARMED", "IN_ZONE"}
         /\ Transition(Changed(watch, status, now), watch.status, Considered)
         /\ pc' = "saving_last" /\ UNCHANGED <<cur, handled>>
      \/ /\ status \notin {"none", "ARMED", "IN_ZONE"}
         /\ Transition(Changed(watch, status, now), watch.status, Considered)
         /\ Finish
  BY DEF Evaluate, Considered
<1>3. status \in {"none", "EXPIRED", "INVALIDATED", "TRIGGERED", "IN_ZONE", "ARMED"}
  BY JudgedRange
<1> HIDE DEF status
<1>4. CASE status = "none" /\ pc' = "saving" /\ UNCHANGED <<watch, event, cur, handled>>
  BY <1>1, <1>4, RowFacts
<1>5. CASE status # "none" /\ Transition(Changed(watch, status, now), watch.status, Considered)
  <2>1. status \in Statuses
    BY <1>3, <1>5 DEF Statuses, Active
  <2>2. watch' = Changed(watch, status, now)
    BY <1>5 DEF Transition
  <2>3. /\ watch' \in Watches /\ watch'.status = status /\ watch'.armed = watch.armed
        /\ watch'.impulse = watch.impulse /\ watch'.saved = watch.saved
    BY <2>1, <2>2, RowFacts, ChangedFacts
  <2>4. Changed(watch, status, now).status = status
    BY <2>2, <2>3
  <2>5. Told(watch'.status, Considered)
    BY <1>5, <2>3, <2>4, Zenon DEF Transition, Told
  <2>6. QED
    BY <1>1, <1>2, <1>3, <1>5, <2>3, <2>5
<1>6. QED
  BY <1>2, <1>4, <1>5

\* The evidence is written to the row.
LEMMA SaveFacts ==
  ASSUME TypeOK, WorkControl, Save
  PROVE  /\ pc \in {"saving", "saving_last"} /\ IsActive /\ cur.hz \in Horizons
         /\ UNCHANGED <<menu, now, stream, inbox, latest, event, seen, crashes>>
         /\ watch' \in Watches /\ watch'.status = watch.status /\ watch'.armed = watch.armed
         /\ watch'.impulse = watch.impulse /\ watch'.saved = latest
         /\ (pc' = "entering" /\ UNCHANGED <<cur, handled>>) \/ Finish
<1>1. /\ pc \in {"saving", "saving_last"} /\ IsActive /\ cur.hz \in Horizons
      /\ UNCHANGED <<menu, now, stream, inbox, latest, event, seen, crashes>>
      /\ watch' = [watch EXCEPT !.saved = latest]
      /\ (pc' = "entering" /\ UNCHANGED <<cur, handled>>) \/ Finish
  BY DEF Save, TypeOK, WorkControl, Working
<1>2. latest \in Evidence /\ watch \in Watches
  BY DEF TypeOK
<1>3. /\ watch' \in Watches /\ watch'.status = watch.status /\ watch'.armed = watch.armed
      /\ watch'.impulse = watch.impulse /\ watch'.saved = latest
  BY <1>1, <1>2 DEF Watches
<1>4. QED
  BY <1>1, <1>3

\* The impulse the row holds is in order, and what the price of the moment makes of it too.
LEMMA ImpulseFacts ==
  ASSUME TypeOK, Dated, WorkControl, ImpulseControl, SeenControl, pc = "entering"
  PROVE  /\ InOrder(watch.impulse, seen)
         /\ LET m == Track(watch.impulse, Observation(latest))
            IN  m \in Impulses /\ InOrder(m, seen) /\ Observation(latest).asOf <= m.lastAt
         /\ LET m == StartImpulse(watch, latest)
            IN  /\ m \in Impulses /\ InOrder(m, seen)
                /\ m = NoImpulse \/ Observation(latest).asOf <= m.lastAt
<1> DEFINE o == Observation(latest)
<1>0. Working /\ IsActive
  BY DEF Working, TypeOK
<1>1. InOrder(watch.impulse, seen)
  BY DEF InOrder, TypeOK, ImpulseControl
<1>2. /\ o \in Results /\ o.asOf \in Nat /\ o.asOf <= now /\ o.price \in Nat /\ o.asOf \in Times
      /\ Observed(latest) = [asOf |-> o.asOf, price |-> o.price]
  BY <1>0, WorkFacts DEF Results
<1>3. \/ [asOf |-> o.asOf, price |-> o.price] \in seen
      \/ o.asOf <= watch.armed /\ (watch.impulse = NoImpulse \/ o.asOf <= watch.impulse.lastAt)
  BY <1>0, <1>2 DEF SeenControl, Vouched
<1>4. watch.impulse \in Impulses /\ watch.impulse.lastAt \in Int /\ watch.armed \in Nat /\ watch.original \in Nat
  BY RowFacts, Values DEF Impulses, Watches
<1> HIDE DEF o
<1>5. Track(watch.impulse, o) \in Impulses /\ InOrder(Track(watch.impulse, o), seen)
      /\ o.asOf <= Track(watch.impulse, o).lastAt
  <2>1. watch.impulse # NoImpulse /\ o.asOf > watch.impulse.lastAt => [asOf |-> o.asOf, price |-> o.price] \in seen
    BY <1>2, <1>3, <1>4
  <2>2. QED
    BY <1>1, <1>2, <1>4, <2>1, TrackInOrder
<1>6. /\ StartImpulse(watch, latest) \in Impulses /\ InOrder(StartImpulse(watch, latest), seen)
      /\ StartImpulse(watch, latest) = NoImpulse \/ o.asOf <= StartImpulse(watch, latest).lastAt
  <2>1. CASE o.asOf < watch.armed
    <3>1. StartImpulse(watch, latest) = NoImpulse
      BY <2>1 DEF StartImpulse, o
    <3>2. InOrder(NoImpulse, seen)
      BY Values DEF InOrder, NoImpulse
    <3>3. QED
      BY <3>1, <3>2, Values
  <2>2. CASE ~(o.asOf < watch.armed)
    <3> DEFINE n == NewImpulse(watch.original, watch.armed, o.price, o.asOf)
    <3>1. StartImpulse(watch, latest) = n
      BY <2>2 DEF StartImpulse, o
    <3>2. /\ watch.armed <= o.asOf
          /\ watch.armed < o.asOf => [asOf |-> o.asOf, price |-> o.price] \in seen
      BY <1>2, <1>3, <1>4, <2>2
    <3>3. watch.armed \in Times
      <4>1. watch.armed <= MaxTime
        BY <1>2, <1>4, <3>2, RowFacts, Values
      <4>2. QED
        BY <1>4, <4>1, Values DEF Times
    <3>4. n \in Impulses /\ InOrder(n, seen) /\ n.lastAt = o.asOf
      <4> DEFINE t == o.asOf
                 p == o.price
                 at == watch.armed
                 st == watch.original
      <4>1. /\ t \in Times /\ at \in Times /\ p \in Nat /\ st \in Nat /\ at <= t
            /\ at < t => [asOf |-> t, price |-> p] \in seen
        BY <1>2, <1>4, <3>2, <3>3
      <4> HIDE DEF t, p, at, st
      <4>2. /\ NewImpulse(st, at, p, t) \in Impulses /\ InOrder(NewImpulse(st, at, p, t), seen)
            /\ NewImpulse(st, at, p, t).lastAt = t
        BY <4>1, NewInOrder
      <4>3. QED
        BY <4>2 DEF t, p, at, st
    <3> HIDE DEF n
    <3>5. QED
      BY <1>2, <3>1, <3>4
  <2>3. QED
    BY <2>1, <2>2
<1>7. QED
  BY <1>1, <1>5, <1>6 DEF o

\* The step after an evaluation that changed nothing.
LEMMA EnterFacts ==
  ASSUME TypeOK, Dated, WorkControl, ImpulseControl, SeenControl, Enter
  PROVE  /\ pc = "entering" /\ IsActive /\ cur.hz \in Horizons
         /\ UNCHANGED <<menu, now, stream, inbox, latest, seen, crashes>>
         /\ watch' \in Watches /\ watch'.status \in Active /\ watch'.armed = watch.armed
         /\ watch'.saved = watch.saved
         /\ InOrder(watch'.impulse, seen)
         /\ \/ watch'.impulse = watch.impulse \/ watch'.impulse = NoImpulse
            \/ Observation(latest).asOf <= watch'.impulse.lastAt
         /\ \/ UNCHANGED event
            \/ Told("EARLY_ENTRY", latest) /\ watch.status # "IMPULSE_EXTENDED"
            \/ Told("IMPULSE_EXTENDED", latest)
         /\ \/ Finish
            \/ /\ pc' = "reclaiming" /\ UNCHANGED <<cur, handled>> /\ watch'.status = "IMPULSE_EXTENDED"
               /\ PullbackEntry(watch'.impulse, latest, now)
<1> DEFINE p == Price(latest)
           tracked == [watch EXCEPT !.impulse = Track(@, Observation(latest))]
<1>1. /\ pc = "entering" /\ IsActive /\ cur.hz \in Horizons
      /\ UNCHANGED <<menu, now, stream, inbox, latest, seen, crashes>>
  BY DEF Enter, TypeOK, WorkControl, Working
<1>2. /\ watch \in Watches /\ now \in Nat /\ now \in Times /\ InOrder(watch.impulse, seen)
      /\ watch.status \in Active
  BY <1>1, RowFacts, ImpulseFacts DEF IsActive
<1>3. "EARLY_ENTRY" \in Statuses /\ "IMPULSE_EXTENDED" \in Statuses
  BY DEF Statuses, Active
<1>4. \/ /\ EarlyEntry(watch, latest, p, now)
         /\ Transition(Changed(watch, "EARLY_ENTRY", now), watch.status, latest)
         /\ Finish
      \/ /\ Transition([Changed(watch, "IMPULSE_EXTENDED", now)
                        EXCEPT !.impulse = StartImpulse(watch, latest)], watch.status, latest)
         /\ Finish
      \/ /\ watch.status = "IMPULSE_EXTENDED"
         /\ watch' = tracked
         /\ IF PullbackEntry(tracked.impulse, latest, now)
            THEN pc' = "reclaiming" /\ UNCHANGED <<cur, handled>> ELSE Finish
         /\ UNCHANGED event
      \/ Finish /\ UNCHANGED <<watch, event>>
  BY DEF Enter
<1>5. CASE /\ EarlyEntry(watch, latest, p, now)
           /\ Transition(Changed(watch, "EARLY_ENTRY", now), watch.status, latest)
           /\ Finish
  <2>1. watch.status # "IMPULSE_EXTENDED"
    BY <1>5 DEF EarlyEntry
  <2>2. watch' = Changed(watch, "EARLY_ENTRY", now)
    BY <1>5 DEF Transition
  <2>3. /\ watch' \in Watches /\ watch'.status = "EARLY_ENTRY" /\ watch'.armed = watch.armed
        /\ watch'.impulse = watch.impulse /\ watch'.saved = watch.saved
    BY <1>2, <1>3, <2>2, ChangedFacts
  <2>4. Told("EARLY_ENTRY", latest)
    <3>1. Changed(watch, "EARLY_ENTRY", now).status = "EARLY_ENTRY"
      BY <2>2, <2>3
    <3>2. QED
      BY <1>5, <3>1, Zenon DEF Transition, Told
  <2>5. QED
    BY <1>1, <1>2, <1>5, <2>1, <2>3, <2>4 DEF Active
<1>6. CASE /\ Transition([Changed(watch, "IMPULSE_EXTENDED", now)
                          EXCEPT !.impulse = StartImpulse(watch, latest)], watch.status, latest)
           /\ Finish
  <2> DEFINE c == Changed(watch, "IMPULSE_EXTENDED", now)
             d == [c EXCEPT !.impulse = StartImpulse(watch, latest)]
  <2>1. /\ c \in Watches /\ c.status = "IMPULSE_EXTENDED" /\ c.armed = watch.armed
        /\ c.saved = watch.saved
    BY <1>2, <1>3, ChangedFacts
  <2>2. watch' = d
    BY <1>6 DEF Transition
  <2>3. /\ StartImpulse(watch, latest) \in Impulses /\ InOrder(StartImpulse(watch, latest), seen)
        /\ \/ StartImpulse(watch, latest) = NoImpulse
           \/ Observation(latest).asOf <= StartImpulse(watch, latest).lastAt
    BY <1>1, ImpulseFacts
  <2> HIDE DEF c
  <2>4. /\ d \in Watches /\ d.status = "IMPULSE_EXTENDED" /\ d.armed = watch.armed
        /\ d.saved = watch.saved /\ d.impulse = StartImpulse(watch, latest)
    BY <2>1, <2>3 DEF Watches
  <2>5. Told("IMPULSE_EXTENDED", latest)
    BY <1>6, <2>4, Zenon DEF Transition, Told, c
  <2> HIDE DEF d
  <2>6. QED
    BY <1>1, <1>2, <1>6, <2>2, <2>3, <2>4, <2>5 DEF Active
<1>7. CASE /\ watch.status = "IMPULSE_EXTENDED"
           /\ watch' = tracked
           /\ IF PullbackEntry(tracked.impulse, latest, now)
              THEN pc' = "reclaiming" /\ UNCHANGED <<cur, handled>> ELSE Finish
           /\ UNCHANGED event
  <2>1. /\ Track(watch.impulse, Observation(latest)) \in Impulses
        /\ InOrder(Track(watch.impulse, Observation(latest)), seen)
        /\ Observation(latest).asOf <= Track(watch.impulse, Observation(latest)).lastAt
    BY <1>1, ImpulseFacts
  <2>2. /\ tracked \in Watches /\ tracked.status = watch.status /\ tracked.armed = watch.armed
        /\ tracked.saved = watch.saved /\ tracked.impulse = Track(watch.impulse, Observation(latest))
    BY <1>2, <2>1 DEF Watches
  <2> HIDE DEF tracked
  <2>3. QED
    BY <1>1, <1>2, <1>7, <2>1, <2>2
<1>8. CASE Finish /\ UNCHANGED <<watch, event>>
  BY <1>1, <1>2, <1>8
<1>9. QED
  BY <1>4, <1>5, <1>6, <1>7, <1>8

\* The entry after a pullback.
LEMMA ReclaimFacts ==
  ASSUME TypeOK, WorkControl, Reclaim
  PROVE  /\ pc = "reclaiming" /\ IsActive /\ cur.hz \in Horizons
         /\ UNCHANGED <<menu, now, stream, inbox, latest, seen, crashes>>
         /\ watch' \in Watches /\ watch'.status = "EARLY_ENTRY" /\ watch'.armed = watch.armed
         /\ watch'.impulse = watch.impulse /\ watch'.saved = watch.saved
         /\ Told("EARLY_ENTRY", latest) /\ Finish
<1>1. /\ pc = "reclaiming" /\ IsActive /\ cur.hz \in Horizons /\ Finish
      /\ UNCHANGED <<menu, now, stream, inbox, latest, seen, crashes>>
      /\ Transition(Changed(watch, "EARLY_ENTRY", now), watch.status, latest)
  BY DEF Reclaim, TypeOK, WorkControl, Working
<1>2. watch' = Changed(watch, "EARLY_ENTRY", now)
  BY <1>1 DEF Transition
<1>3. /\ watch' \in Watches /\ watch'.status = "EARLY_ENTRY" /\ watch'.armed = watch.armed
      /\ watch'.impulse = watch.impulse /\ watch'.saved = watch.saved
  <2>1. "EARLY_ENTRY" \in Statuses
    BY DEF Statuses, Active
  <2>2. QED
    BY <1>2, <2>1, RowFacts, ChangedFacts
<1>4. Changed(watch, "EARLY_ENTRY", now).status = "EARLY_ENTRY"
  BY <1>2, <1>3
<1>5. Told("EARLY_ENTRY", latest)
  BY <1>1, <1>4, Zenon DEF Transition, Told
<1>6. QED
  BY <1>1, <1>3, <1>5

\* The process ends.
LEMMA CrashFacts ==
  ASSUME TypeOK, Crash
  PROVE  /\ pc' = "down" /\ inbox' = <<>> /\ cur' = NoResult /\ latest' \in {Nowhere, latest}
         /\ crashes' \in 0..MaxCrashes
         /\ UNCHANGED <<menu, now, stream, watch, event, handled, seen>>
BY WatcherAssumption DEF Crash, TypeOK

\* It starts again, with what the bus retained.
LEMMA RestartFacts ==
  ASSUME TypeOK, Dated, Restart
  PROVE  /\ pc' = "idle" /\ inbox' \in Seq(Results)
         /\ \A n \in 1..Len(inbox') : inbox'[n].hz \in Horizons /\ inbox'[n].asOf \in 0..now
         /\ UNCHANGED <<menu, now, stream, cur, latest, watch, event, handled, seen, crashes>>
<1>1. /\ pc' = "idle" /\ inbox' \in [1..Cardinality(Retained) -> Retained]
      /\ UNCHANGED <<menu, now, stream, cur, latest, watch, event, handled, seen, crashes>>
  BY DEF Restart, evaluation
<1>2. \A r \in Retained : r \in Results /\ r.hz \in Horizons /\ r.asOf \in 0..now
  BY DEF Retained, TypeOK, Evidence, Dated, Placed
<1>3. Cardinality(Retained) \in Nat
  <2>1. Retained = {stream["LONG"], stream["SWING"], stream["INTRADAY"]} \ {NoResult}
    BY DEF Retained, Horizons
  <2>2. IsFiniteSet({stream["LONG"], stream["SWING"], stream["INTRADAY"]})
    <3>1. IsFiniteSet({})
      BY FS_EmptySet
    <3>2. IsFiniteSet({} \union {stream["LONG"]})
      BY <3>1, FS_AddElement
    <3>3. IsFiniteSet(({} \union {stream["LONG"]}) \union {stream["SWING"]})
      BY <3>2, FS_AddElement
    <3>4. IsFiniteSet((({} \union {stream["LONG"]}) \union {stream["SWING"]}) \union {stream["INTRADAY"]})
      BY <3>3, FS_AddElement
    <3>5. (({} \union {stream["LONG"]}) \union {stream["SWING"]}) \union {stream["INTRADAY"]}
            = {stream["LONG"], stream["SWING"], stream["INTRADAY"]}
      OBVIOUS
    <3>6. QED
      BY <3>4, <3>5
  <2>3. IsFiniteSet(Retained)
    BY <2>1, <2>2, FS_Difference
  <2>4. QED
    BY <2>3, FS_CardinalityType
<1>4. inbox' \in Seq(Retained) /\ DOMAIN inbox' = 1..Len(inbox')
  BY <1>1, <1>3
<1>5. \A n \in 1..Len(inbox') : inbox'[n] \in Retained
  BY <1>4, ElementOfSeq
<1>6. inbox' \in Seq(Results)
  BY <1>2, <1>4, <1>5
<1>7. QED
  BY <1>1, <1>2, <1>5, <1>6

-----------------------------------------------------------------------------
(* Every step keeps the invariant, conjunct by conjunct.                   *)

\* A step is one of the actions or changes nothing.
LEMMA Steps ==
  ASSUME [Next]_vars
  PROVE  \/ Publish \/ Accept \/ EvaluateUnwatched \/ Evaluate \/ Save \/ Enter \/ Reclaim
         \/ Crash \/ Restart \/ UNCHANGED vars
BY DEF Next

\* The watcher begins in the invariant.
LEMMA InitInv == Init => WatcherInv
<1> SUFFICES ASSUME Init PROVE WatcherInv
  OBVIOUS
<1> USE DEF Init
<1>1. NoWatch.status = "NONE" /\ NoWatch.impulse = NoImpulse /\ NoWatch.saved = Nowhere
  BY DEF NoWatch
<1>2. /\ NoImpulse.low = 0 /\ NoImpulse.last = 0 /\ NoImpulse.peak = 0 /\ NoImpulse.startAt = None
      /\ NoImpulse.peakAt = None /\ NoImpulse.lastAt = None /\ NoImpulse.lowAt = None
  BY DEF NoImpulse
<1>3. ~IsActive
  BY <1>1 DEF IsActive, Active
<1>4. TypeOK
  <2>1. handled \in [Horizons -> Times]
    BY Values DEF Unhandled
  <2>2. inbox \in Seq(Results)
    BY EmptySeq
  <2>3. now \in 0..MaxTime /\ crashes \in 0..MaxCrashes
    BY WatcherAssumption
  <2>4. watch.impulse.low <= watch.impulse.last /\ watch.impulse.last <= watch.impulse.peak
    BY <1>1, <1>2
  <2>5. QED
    BY <2>1, <2>2, <2>3, <2>4, Values DEF TypeOK
<1>5. Dated /\ InboxDated
  BY <1>1, Values, EmptySeq DEF Dated, InboxDated, Placed
<1>6. WorkControl /\ HandledSaved /\ SeenControl
  BY <1>3 DEF WorkControl, Working, HandledSaved, SeenControl
<1>7. ImpulseControl
  BY <1>1, <1>2, Values DEF ImpulseControl
<1>8. PriceContemporary /\ PullbackInOrder
  BY DEF PriceContemporary, PullbackInOrder, Nothing
<1>9. QED
  BY <1>4, <1>5, <1>6, <1>7, <1>8 DEF WatcherInv

\* Types.
LEMMA TypeStep ==
  ASSUME WatcherInv, [Next]_vars
  PROVE  TypeOK'
<1> USE DEF WatcherInv
<1>0. watch.impulse.low <= watch.impulse.last /\ watch.impulse.last <= watch.impulse.peak
  BY DEF TypeOK
<1>1. CASE Publish
  BY <1>1, PublishFacts DEF TypeOK, IsActive
<1>2. CASE Accept
  BY <1>2, AcceptFacts DEF TypeOK, IsActive
<1>3. CASE EvaluateUnwatched
  <2>1. CASE Finish /\ UNCHANGED <<watch, event, seen>>
    BY <1>3, <2>1, UnwatchedFacts, FinishFacts, Values DEF TypeOK, IsActive
  <2>2. CASE ~(Finish /\ UNCHANGED <<watch, event, seen>>)
    <3>1. /\ watch' \in Watches /\ watch'.status \in {"ARMED", "IN_ZONE"} /\ watch'.impulse = NoImpulse
          /\ handled' = Unhandled /\ pc' = "saving_last" /\ cur' = cur
          /\ UNCHANGED <<menu, now, stream, inbox, latest, crashes>>
      BY <1>3, <2>2, UnwatchedFacts
    <3>2. IsActive'
      BY <3>1 DEF IsActive, Active
    <3>3. handled' \in [Horizons -> Times]
      BY <3>1, Values DEF Unhandled
    <3>4. NoImpulse.low <= NoImpulse.last /\ NoImpulse.last <= NoImpulse.peak
      BY DEF NoImpulse
    <3>5. QED
      BY <3>1, <3>2, <3>3, <3>4 DEF TypeOK
  <2>3. QED
    BY <2>1, <2>2
<1>4. CASE Evaluate
  <2>1. pc = "evaluating" /\ IsActive
    BY <1>4, EvaluateFacts
  <2>2. latest' \in Evidence
    BY <1>4, <2>1, EvaluateFacts, ConsideredFacts
  <2>3. CASE pc' = "saving" /\ UNCHANGED <<watch, event, cur, handled>>
    BY <1>4, <2>1, <2>2, <2>3, EvaluateFacts DEF TypeOK, IsActive
  <2>4. CASE pc' = "saving_last" /\ watch'.status \in {"ARMED", "IN_ZONE"} /\ UNCHANGED <<cur, handled>>
    <3>1. IsActive'
      BY <2>4 DEF IsActive, Active
    <3>2. QED
      BY <1>0, <1>4, <2>2, <2>4, <3>1, EvaluateFacts DEF TypeOK
  <2>5. CASE Finish
    BY <1>0, <1>4, <2>2, <2>5, EvaluateFacts, FinishFacts, Values DEF TypeOK
  <2>6. QED
    BY <1>4, <2>3, <2>4, <2>5, EvaluateFacts
<1>5. CASE Save
  <2>1. IsActive'
    BY <1>5, SaveFacts DEF IsActive
  <2>2. CASE pc' = "entering" /\ UNCHANGED <<cur, handled>>
    BY <1>0, <1>5, <2>1, <2>2, SaveFacts DEF TypeOK
  <2>3. CASE Finish
    BY <1>0, <1>5, <2>1, <2>3, SaveFacts, FinishFacts, Values DEF TypeOK
  <2>4. QED
    BY <1>5, <2>2, <2>3, SaveFacts
<1>6. CASE Enter
  <2>1. IsActive'
    BY <1>6, EnterFacts DEF IsActive
  <2>2. watch'.impulse.low <= watch'.impulse.last /\ watch'.impulse.last <= watch'.impulse.peak
    BY <1>6, EnterFacts DEF InOrder
  <2>3. CASE pc' = "reclaiming" /\ UNCHANGED <<cur, handled>>
    BY <1>6, <2>1, <2>2, <2>3, EnterFacts DEF TypeOK
  <2>4. CASE Finish
    BY <1>6, <2>1, <2>2, <2>4, EnterFacts, FinishFacts, Values DEF TypeOK
  <2>5. QED
    BY <1>6, <2>3, <2>4, EnterFacts
<1>7. CASE Reclaim
  BY <1>0, <1>7, ReclaimFacts, FinishFacts, Values DEF TypeOK
<1>8. CASE Crash
  BY <1>8, CrashFacts, EmptySeq, Values DEF TypeOK, IsActive
<1>9. CASE Restart
  BY <1>9, RestartFacts DEF TypeOK, IsActive
<1>10. CASE UNCHANGED vars
  BY <1>10 DEF TypeOK, IsActive, vars
<1>11. QED
  BY <1>1, <1>2, <1>3, <1>4, <1>5, <1>6, <1>7, <1>8, <1>9, <1>10, Steps

\* Evidence stays of its horizon and of the past.
LEMMA DatedStep ==
  ASSUME WatcherInv, [Next]_vars
  PROVE  Dated' /\ InboxDated'
<1> USE DEF WatcherInv
<1>0. now \in Nat
  BY RowFacts
<1>1. ASSUME NEW known, Placed(known), now' \in Nat, now <= now',
             NEW next, \A h \in Horizons : next[h] = known[h] \/ (next[h].hz = h /\ next[h].asOf \in 0..now')
      PROVE  \A h \in Horizons : next[h] = NoResult \/ (next[h].hz = h /\ next[h].asOf \in 0..now')
  BY <1>0, <1>1 DEF Placed
<1>2. CASE Publish
  <2>1. now' \in Nat /\ now <= now'
    BY <1>0, <1>2, PublishFacts
  <2>2. \A h \in Horizons : stream'[h] = NoResult \/ (stream'[h].hz = h /\ stream'[h].asOf \in 0..now')
    BY <1>1, <1>2, <2>1, PublishFacts DEF Dated
  <2>3. \A h \in Horizons : latest'[h] = NoResult \/ (latest'[h].hz = h /\ latest'[h].asOf \in 0..now')
    <3>1. latest' = latest
      BY <1>2, PublishFacts
    <3>2. QED
      BY <1>1, <2>1, <3>1 DEF Dated
  <2>4. \A h \in Horizons : \/ watch'.saved[h] = NoResult
                            \/ watch'.saved[h].hz = h /\ watch'.saved[h].asOf \in 0..now'
    <3>1. watch' = watch
      BY <1>2, PublishFacts
    <3>2. QED
      BY <1>1, <2>1, <3>1 DEF Dated
  <2>5. \A i \in 1..Len(inbox') : inbox'[i].hz \in Horizons /\ inbox'[i].asOf \in 0..now'
    BY <1>0, <1>2, <2>1, PublishFacts DEF InboxDated
  <2>6. QED
    BY <2>2, <2>3, <2>4, <2>5 DEF Dated, InboxDated, Placed
<1>3. CASE Accept
  <2>1. UNCHANGED <<now, stream, watch>>
    BY <1>3, AcceptFacts
  <2>2. \A h \in Horizons : latest'[h] = NoResult \/ (latest'[h].hz = h /\ latest'[h].asOf \in 0..now')
    BY <1>0, <1>1, <1>3, <2>1, AcceptFacts DEF Dated
  <2>3. \A i \in 1..Len(inbox') : inbox'[i].hz \in Horizons /\ inbox'[i].asOf \in 0..now'
    BY <1>3, <2>1, AcceptFacts DEF InboxDated
  <2>4. QED
    BY <2>1, <2>2, <2>3 DEF Dated, InboxDated, Placed
<1>4. CASE EvaluateUnwatched
  <2>1. UNCHANGED <<now, stream, inbox, latest>> /\ (watch'.saved = watch.saved \/ watch'.saved = Nowhere)
    BY <1>4, UnwatchedFacts
  <2>2. QED
    BY <2>1, Values DEF Dated, InboxDated, Placed
<1>5. CASE Evaluate
  <2>1. UNCHANGED <<now, stream, inbox>> /\ watch'.saved = watch.saved /\ latest' = Considered
    BY <1>5, EvaluateFacts
  <2>2. Placed(Considered)
    BY <1>5, EvaluateFacts, ConsideredFacts
  <2>3. QED
    BY <2>1, <2>2 DEF Dated, InboxDated, Placed
<1>6. CASE Save
  <2>1. UNCHANGED <<now, stream, inbox, latest>> /\ watch'.saved = latest
    BY <1>6, SaveFacts
  <2>2. QED
    BY <2>1 DEF Dated, InboxDated, Placed
<1>7. CASE Enter
  <2>1. UNCHANGED <<now, stream, inbox, latest>> /\ watch'.saved = watch.saved
    BY <1>7, EnterFacts
  <2>2. QED
    BY <2>1 DEF Dated, InboxDated, Placed
<1>8. CASE Reclaim
  <2>1. UNCHANGED <<now, stream, inbox, latest>> /\ watch'.saved = watch.saved
    BY <1>8, ReclaimFacts
  <2>2. QED
    BY <2>1 DEF Dated, InboxDated, Placed
<1>9. CASE Crash
  <2>1. UNCHANGED <<now, stream, watch>> /\ latest' \in {Nowhere, latest} /\ inbox' = <<>>
    BY <1>9, CrashFacts
  <2>2. QED
    BY <2>1, Values, EmptySeq DEF Dated, InboxDated, Placed
<1>10. CASE Restart
  BY <1>10, RestartFacts DEF Dated, InboxDated, Placed
<1>11. CASE UNCHANGED vars
  BY <1>11 DEF Dated, InboxDated, Placed, vars
<1>12. QED
  BY <1>2, <1>3, <1>4, <1>5, <1>6, <1>7, <1>8, <1>9, <1>10, <1>11, Steps

\* While it works, the process holds its analysis, a price of the moment and the row's evidence.
LEMMA WorkStep ==
  ASSUME WatcherInv, [Next]_vars
  PROVE  WorkControl'
<1> USE DEF WatcherInv
<1>0. now \in Nat
  BY RowFacts
<1>1. ASSUME pc' \notin {"evaluating", "saving", "saving_last", "entering", "reclaiming"}
      PROVE  WorkControl'
  BY <1>1 DEF WorkControl, Working
<1>2. CASE Publish
  BY <1>1, <1>2, PublishFacts
<1>3. CASE Accept
  <2>1. CASE pc' = "evaluating"
    <3>1. /\ cur'.hz \in Horizons /\ cur'.asOf \in 0..now /\ latest'[cur'.hz] = cur' /\ now' = now
          /\ now - Observation(latest').asOf <= PriceAge
      BY <1>3, <2>1, AcceptFacts
    <3>2. Contemporary(latest', now')
      BY <3>1 DEF Contemporary
    <3>3. latest'[cur'.hz].asOf >= cur'.asOf
      BY <3>1
    <3>4. QED
      BY <2>1, <3>1, <3>2, <3>3 DEF WorkControl
  <2>2. CASE pc' = "idle"
    BY <1>1, <2>2
  <2>3. QED
    BY <1>3, <2>1, <2>2, AcceptFacts
<1>4. CASE EvaluateUnwatched
  <2>0. pc = "evaluating" /\ UNCHANGED <<now, latest>>
    BY <1>4, UnwatchedFacts
  <2>1. CASE Finish
    BY <1>1, <1>4, <2>1, UnwatchedFacts, FinishFacts
  <2>2. CASE pc' = "saving_last" /\ cur' = cur /\ watch'.saved = Nowhere
    <3>1. /\ cur.hz \in Horizons /\ cur.asOf \in 0..now /\ latest[cur.hz].asOf >= cur.asOf
          /\ Contemporary(latest, now)
      BY <2>0 DEF WorkControl, Working
    <3>2. \A h \in Horizons : latest[h].asOf >= Nowhere[h].asOf
      BY Values DEF Dated, Placed
    <3>3. QED
      BY <2>0, <2>2, <3>1, <3>2 DEF WorkControl, Contemporary
  <2>3. QED
    BY <1>4, <2>1, <2>2, UnwatchedFacts
<1>5. CASE Evaluate
  <2>0. pc = "evaluating" /\ IsActive /\ latest' = Considered /\ now' = now /\ watch'.saved = watch.saved
    BY <1>5, EvaluateFacts
  <2>1. CASE Finish
    BY <1>1, <1>5, <2>1, EvaluateFacts, FinishFacts
  <2>2. CASE pc' \in {"saving", "saving_last"} /\ cur' = cur
    <3>1. cur.hz \in Horizons /\ cur.asOf \in 0..now
      BY <2>0 DEF WorkControl, Working
    <3>2. /\ Considered[cur.hz].asOf >= cur.asOf
          /\ \A h \in Horizons : Considered[h].asOf >= watch.saved[h].asOf
          /\ Contemporary(Considered, now)
      BY <2>0, ConsideredFacts
    <3>3. Contemporary(latest', now')
      BY <2>0, <3>2
    <3>4. QED
      BY <2>0, <2>2, <3>1, <3>2, <3>3 DEF WorkControl
  <2>3. QED
    BY <1>5, <2>1, <2>2, EvaluateFacts
<1>6. CASE Save
  <2>0. pc \in {"saving", "saving_last"} /\ UNCHANGED <<now, latest>> /\ watch'.saved = latest
    BY <1>6, SaveFacts
  <2>1. CASE Finish
    BY <1>1, <1>6, <2>1, SaveFacts, FinishFacts
  <2>2. CASE pc' = "entering" /\ UNCHANGED <<cur, handled>>
    <3>1. /\ cur.hz \in Horizons /\ cur.asOf \in 0..now /\ latest[cur.hz].asOf >= cur.asOf
          /\ Contemporary(latest, now)
      BY <2>0 DEF WorkControl, Working
    <3>2. \A h \in Horizons : latest[h].asOf >= latest[h].asOf
      <4>1. \A h \in Horizons : latest[h].asOf \in Int
        BY Values DEF TypeOK, Evidence, Results
      <4>2. QED
        BY <4>1
    <3>3. QED
      BY <2>0, <2>2, <3>1, <3>2 DEF WorkControl, Contemporary
  <2>3. QED
    BY <1>6, <2>1, <2>2, SaveFacts
<1>7. CASE Enter
  <2>0. pc = "entering" /\ UNCHANGED <<now, latest>> /\ watch'.saved = watch.saved
    BY <1>7, EnterFacts
  <2>1. CASE Finish
    BY <1>1, <1>7, <2>1, EnterFacts, FinishFacts
  <2>2. CASE /\ pc' = "reclaiming" /\ UNCHANGED <<cur, handled>> /\ watch'.status = "IMPULSE_EXTENDED"
             /\ PullbackEntry(watch'.impulse, latest, now)
    <3>1. /\ cur.hz \in Horizons /\ cur.asOf \in 0..now /\ latest[cur.hz].asOf >= cur.asOf
          /\ Contemporary(latest, now) /\ watch.saved = latest
          /\ \A h \in Horizons : latest[h].asOf >= watch.saved[h].asOf
      BY <2>0 DEF WorkControl, Working
    <3>2. PullbackEntry(watch'.impulse, latest', now')
      BY <2>0, <2>2
    <3>3. Contemporary(latest', now')
      BY <2>0, <3>1
    <3>4. QED
      BY <2>0, <2>2, <3>1, <3>2, <3>3 DEF WorkControl
  <2>3. QED
    BY <1>7, <2>1, <2>2, EnterFacts
<1>8. CASE Reclaim
  BY <1>1, <1>8, ReclaimFacts, FinishFacts
<1>9. CASE Crash
  BY <1>1, <1>9, CrashFacts
<1>10. CASE Restart
  BY <1>1, <1>10, RestartFacts
<1>11. CASE UNCHANGED vars
  BY <1>11 DEF WorkControl, Working, Contemporary, PullbackEntry, Chronology, vars
<1>12. QED
  BY <1>2, <1>3, <1>4, <1>5, <1>6, <1>7, <1>8, <1>9, <1>10, <1>11, Steps

\* What was acknowledged for an active watch is in its row.
LEMMA HandledStep ==
  ASSUME WatcherInv, [Next]_vars
  PROVE  HandledSaved'
<1> USE DEF WatcherInv
<1>0. \A h \in Horizons : handled[h] \in Int /\ watch.saved[h].asOf \in Int /\ latest[h].asOf \in Int
  BY RowFacts, Values DEF TypeOK, Evidence, Results
<1>1. ASSUME UNCHANGED <<watch, handled>> PROVE HandledSaved'
  BY <1>1 DEF HandledSaved, IsActive
<1>2. CASE Publish
  BY <1>1, <1>2, PublishFacts
<1>3. CASE Accept
  BY <1>1, <1>3, AcceptFacts
<1>4. CASE EvaluateUnwatched
  <2>1. CASE watch'.saved = Nowhere /\ handled' = Unhandled
    BY <2>1, Values DEF HandledSaved, Unhandled
  <2>2. CASE UNCHANGED watch
    BY <1>4, <2>2, UnwatchedFacts DEF HandledSaved, IsActive
  <2>3. QED
    BY <1>4, <2>1, <2>2, UnwatchedFacts
<1>5. CASE Evaluate
  <2>1. CASE UNCHANGED handled
    BY <1>5, <2>1, EvaluateFacts DEF HandledSaved
  <2>2. CASE watch'.status \in {"EXPIRED", "INVALIDATED", "TRIGGERED"}
    BY <2>2 DEF HandledSaved, IsActive, Active
  <2>3. QED
    BY <1>5, <2>1, <2>2, EvaluateFacts
<1>6. CASE Save
  <2>1. /\ IsActive /\ watch'.saved = latest /\ cur.hz \in Horizons /\ cur.asOf \in Int
        /\ latest[cur.hz].asOf >= cur.asOf
        /\ \A h \in Horizons : latest[h].asOf >= watch.saved[h].asOf
    BY <1>6, SaveFacts, Values DEF WorkControl, Working, TypeOK, Results
  <2>2. \A h \in Horizons : handled'[h] = handled[h] \/ (h = cur.hz /\ handled'[h] = cur.asOf)
    BY <1>6, SaveFacts, FinishFacts
  <2>3. \A h \in Horizons : handled[h] <= watch.saved[h].asOf
    BY <2>1 DEF HandledSaved
  <2>4. \A h \in Horizons : handled'[h] <= latest[h].asOf
    BY <1>0, <2>1, <2>2, <2>3
  <2>5. QED
    BY <2>1, <2>4 DEF HandledSaved
<1>7. CASE Enter \/ Reclaim
  <2>1. /\ IsActive /\ watch'.saved = watch.saved /\ cur.hz \in Horizons
        /\ watch.saved = latest /\ latest[cur.hz].asOf >= cur.asOf /\ cur.asOf \in Int
    BY <1>7, EnterFacts, ReclaimFacts, Values DEF WorkControl, Working, TypeOK, Results
  <2>2. \A h \in Horizons : handled'[h] = handled[h] \/ (h = cur.hz /\ handled'[h] = cur.asOf)
    BY <1>7, EnterFacts, ReclaimFacts, FinishFacts
  <2>3. \A h \in Horizons : handled[h] <= watch.saved[h].asOf
    BY <2>1 DEF HandledSaved
  <2>4. \A h \in Horizons : handled'[h] <= watch.saved[h].asOf
    BY <1>0, <2>1, <2>2, <2>3
  <2>5. QED
    BY <2>1, <2>4 DEF HandledSaved
<1>8. CASE Crash
  BY <1>1, <1>8, CrashFacts
<1>9. CASE Restart
  BY <1>1, <1>9, RestartFacts
<1>10. CASE UNCHANGED vars
  BY <1>1, <1>10 DEF vars
<1>11. QED
  BY <1>2, <1>3, <1>4, <1>5, <1>6, <1>7, <1>8, <1>9, <1>10, Steps

\* The observations of the impulse stay in order.
LEMMA ImpulseStep ==
  ASSUME WatcherInv, [Next]_vars
  PROVE  ImpulseControl'
<1> USE DEF WatcherInv
<1>1. ASSUME watch'.impulse = watch.impulse, seen \subseteq seen' PROVE ImpulseControl'
  BY <1>1 DEF ImpulseControl
<1>2. CASE Publish
  BY <1>1, <1>2, PublishFacts
<1>3. CASE Accept
  BY <1>1, <1>3, AcceptFacts
<1>4. CASE EvaluateUnwatched
  <2>1. CASE watch'.impulse = NoImpulse
    BY <2>1, Values DEF ImpulseControl, NoImpulse
  <2>2. CASE UNCHANGED <<watch, seen>>
    BY <1>1, <2>2
  <2>3. QED
    BY <1>4, <2>1, <2>2, UnwatchedFacts
<1>5. CASE Evaluate
  BY <1>1, <1>5, EvaluateFacts
<1>6. CASE Save
  BY <1>1, <1>6, SaveFacts
<1>7. CASE Enter
  <2>1. InOrder(watch'.impulse, seen) /\ seen' = seen
    BY <1>7, EnterFacts
  <2>2. QED
    BY <2>1 DEF InOrder, ImpulseControl
<1>8. CASE Reclaim
  BY <1>1, <1>8, ReclaimFacts
<1>9. CASE Crash
  BY <1>1, <1>9, CrashFacts
<1>10. CASE Restart
  BY <1>1, <1>10, RestartFacts
<1>11. CASE UNCHANGED vars
  BY <1>1, <1>11 DEF vars
<1>12. QED
  BY <1>2, <1>3, <1>4, <1>5, <1>6, <1>7, <1>8, <1>9, <1>10, <1>11, Steps

\* The price of what is known is among s, or it is no newer than arming and the impulse.
VouchedBy(known, s, armed, m) ==
  \/ Observed(known) \in s
  \/ /\ Observation(known).asOf <= armed
     /\ m = NoImpulse \/ Observation(known).asOf <= m.lastAt

\* The newest price of the evidence stays one the watch was evaluated at.
LEMMA SeenStep ==
  ASSUME WatcherInv, [Next]_vars
  PROVE  SeenControl'
<1> USE DEF WatcherInv
<1>0. /\ IsActive /\ Working => VouchedBy(latest, seen, watch.armed, watch.impulse)
      /\ IsActive /\ watch.saved # Nowhere => VouchedBy(watch.saved, seen, watch.armed, watch.impulse)
  BY DEF SeenControl, Vouched, VouchedBy
<1>1. ASSUME IsActive' => /\ Working' => VouchedBy(latest', seen', watch'.armed, watch'.impulse)
                          /\ watch'.saved # Nowhere =>
                               VouchedBy(watch'.saved, seen', watch'.armed, watch'.impulse)
      PROVE  SeenControl'
  BY <1>1 DEF SeenControl, Vouched, VouchedBy
<1>2. ASSUME NEW s, NEW t, NEW a, NEW m, NEW n, NEW known, s \subseteq t, VouchedBy(known, s, a, m),
             n = m \/ n = NoImpulse \/ Observation(known).asOf <= n.lastAt
      PROVE  VouchedBy(known, t, a, n)
  BY <1>2 DEF VouchedBy
<1>3. ASSUME UNCHANGED watch, seen \subseteq seen', ~Working' PROVE SeenControl'
  BY <1>0, <1>1, <1>2, <1>3 DEF IsActive
<1>4. CASE Publish
  BY <1>3, <1>4, PublishFacts DEF Working
<1>5. CASE Accept
  <2>0. UNCHANGED watch /\ seen \subseteq seen'
    BY <1>5, AcceptFacts
  <2>1. CASE pc' = "idle"
    BY <1>3, <2>0, <2>1 DEF Working
  <2>2. CASE pc' = "evaluating"
    <3>1. IsActive => [asOf |-> Observation(latest').asOf, price |-> Observation(latest').price] \in seen'
      BY <1>5, <2>2, AcceptFacts
    <3>2. IsActive => VouchedBy(latest', seen', watch'.armed, watch'.impulse)
      BY <3>1 DEF VouchedBy, Observed, Price
    <3>3. QED
      BY <1>0, <1>1, <1>2, <2>0, <3>2 DEF IsActive
  <2>3. QED
    BY <1>5, <2>1, <2>2, AcceptFacts
<1>6. CASE EvaluateUnwatched
  <2>1. CASE watch'.armed = now /\ watch'.impulse = NoImpulse /\ watch'.saved = Nowhere
    <3>1. Working /\ latest' = latest
      BY <1>6, UnwatchedFacts DEF Working
    <3>2. Observation(latest).asOf <= now
      BY <3>1, WorkFacts
    <3>3. VouchedBy(latest', seen', watch'.armed, watch'.impulse)
      BY <2>1, <3>1, <3>2 DEF VouchedBy
    <3>4. QED
      BY <1>1, <2>1, <3>3
  <2>2. CASE UNCHANGED watch
    BY <1>1, <1>6, <2>2, UnwatchedFacts DEF IsActive
  <2>3. QED
    BY <1>6, <2>1, <2>2, UnwatchedFacts
<1>7. CASE Evaluate
  <2>1. /\ pc = "evaluating" /\ IsActive /\ latest' = Considered /\ seen' = seen
        /\ watch'.armed = watch.armed /\ watch'.impulse = watch.impulse /\ watch'.saved = watch.saved
    BY <1>7, EvaluateFacts
  <2>2. VouchedBy(Considered, seen, watch.armed, watch.impulse)
    BY <2>1, ConsideredFacts DEF Vouched, VouchedBy
  <2>3. QED
    BY <1>0, <1>1, <2>1, <2>2
<1>8. CASE Save
  <2>1. /\ Working /\ IsActive /\ latest' = latest /\ seen' = seen
        /\ watch'.armed = watch.armed /\ watch'.impulse = watch.impulse /\ watch'.saved = latest
    BY <1>8, SaveFacts DEF Working
  <2>2. QED
    BY <1>0, <1>1, <2>1
<1>9. CASE Enter
  <2>1. /\ Working /\ IsActive /\ latest' = latest /\ seen' = seen
        /\ watch'.armed = watch.armed /\ watch'.saved = watch.saved /\ watch.saved = latest
        /\ \/ watch'.impulse = watch.impulse \/ watch'.impulse = NoImpulse
           \/ Observation(latest).asOf <= watch'.impulse.lastAt
    BY <1>9, EnterFacts DEF Working, WorkControl
  <2>2. VouchedBy(latest, seen, watch.armed, watch.impulse)
    BY <1>0, <2>1
  <2>3. VouchedBy(latest, seen, watch.armed, watch'.impulse)
    BY <2>1, <2>2 DEF VouchedBy
  <2>4. QED
    BY <1>1, <2>1, <2>3
<1>10. CASE Reclaim
  <2>1. /\ Working /\ IsActive /\ latest' = latest /\ seen' = seen
        /\ watch'.armed = watch.armed /\ watch'.impulse = watch.impulse /\ watch'.saved = watch.saved
    BY <1>10, ReclaimFacts DEF Working
  <2>2. QED
    BY <1>0, <1>1, <2>1
<1>11. CASE Crash
  BY <1>3, <1>11, CrashFacts DEF Working
<1>12. CASE Restart
  BY <1>3, <1>12, RestartFacts DEF Working
<1>13. CASE UNCHANGED vars
  BY <1>0, <1>1, <1>13 DEF vars, IsActive, Working
<1>14. QED
  BY <1>4, <1>5, <1>6, <1>7, <1>8, <1>9, <1>10, <1>11, <1>12, <1>13, Steps

\* A later transition is at a price of its own moment.
LEMMA PriceStep ==
  ASSUME WatcherInv, [Next]_vars
  PROVE  PriceContemporary'
<1> USE DEF WatcherInv
<1>1. ASSUME UNCHANGED event PROVE PriceContemporary'
  BY <1>1 DEF PriceContemporary
<1>2. ASSUME NEW st, NEW known, Contemporary(known, now), Told(st, known) PROVE PriceContemporary'
  <2>1. event'.at = now /\ event'.priceAt = Observation(known).asOf
    BY <1>2 DEF Told
  <2>2. QED
    BY <1>2, <2>1 DEF PriceContemporary, Contemporary
<1>3. CASE Publish
  BY <1>1, <1>3, PublishFacts
<1>4. CASE Accept
  BY <1>1, <1>4, AcceptFacts
<1>5. CASE EvaluateUnwatched
  <2>1. event'.prev = "none" \/ UNCHANGED event
    BY <1>5, UnwatchedFacts
  <2>2. QED
    BY <1>1, <2>1 DEF PriceContemporary
<1>6. CASE Evaluate
  <2>1. Contemporary(Considered, now)
    BY <1>6, EvaluateFacts, ConsideredFacts
  <2>2. UNCHANGED event \/ Told(watch'.status, Considered)
    BY <1>6, EvaluateFacts
  <2>3. QED
    BY <1>1, <1>2, <2>1, <2>2
<1>7. CASE Save
  BY <1>1, <1>7, SaveFacts
<1>8. CASE Enter
  <2>1. Contemporary(latest, now)
    BY <1>8, EnterFacts DEF WorkControl, Working
  <2>2. UNCHANGED event \/ Told("EARLY_ENTRY", latest) \/ Told("IMPULSE_EXTENDED", latest)
    BY <1>8, EnterFacts
  <2>3. QED
    BY <1>1, <1>2, <2>1, <2>2
<1>9. CASE Reclaim
  <2>1. Contemporary(latest, now)
    BY <1>9, ReclaimFacts DEF WorkControl, Working
  <2>2. Told("EARLY_ENTRY", latest)
    BY <1>9, ReclaimFacts
  <2>3. QED
    BY <1>2, <2>1, <2>2
<1>10. CASE Crash
  BY <1>1, <1>10, CrashFacts
<1>11. CASE Restart
  BY <1>1, <1>11, RestartFacts
<1>12. CASE UNCHANGED vars
  BY <1>1, <1>12 DEF vars
<1>13. QED
  BY <1>3, <1>4, <1>5, <1>6, <1>7, <1>8, <1>9, <1>10, <1>11, <1>12, Steps

\* A pullback that may be entered was observed in order: peak, low, and the price now.
LEMMA PullbackFacts ==
  ASSUME TypeOK, Dated, WorkControl, ImpulseControl, pc = "reclaiming"
  PROVE  \E top, bottom \in seen :
           /\ top.asOf < bottom.asOf /\ bottom.asOf < Observation(latest).asOf
           /\ bottom.price < Price(latest) /\ Price(latest) < top.price
<1> DEFINE m == watch.impulse
           o == Observation(latest)
<1>0. Working
  BY DEF Working
<1>1. /\ m.startAt # None /\ m.lowAt # None
      /\ m.startAt < m.peakAt /\ m.peakAt < m.lowAt /\ m.lowAt < m.lastAt /\ m.last > m.prev
      /\ o.asOf = m.lastAt /\ o.price = m.last /\ m.peak - m.start > 0
      /\ 1000 * o.price <= 1000 * m.peak - 382 * (m.peak - m.start)
  BY DEF WorkControl, PullbackEntry, Chronology
<1>2. /\ m.start \in Nat /\ m.peak \in Nat /\ m.low \in Nat /\ m.last \in Nat /\ m.prev \in Nat
  BY RowFacts DEF Impulses
<1>3. /\ [asOf |-> m.peakAt, price |-> m.peak] \in seen
      /\ [asOf |-> m.lowAt, price |-> m.low] \in seen /\ m.low <= m.prev
  BY <1>1 DEF ImpulseControl
<1>4. Price(latest) = o.price
  BY DEF Price
<1> HIDE DEF m, o
<1>5. m.low < o.price /\ o.price < m.peak
  BY <1>1, <1>2, <1>3
<1>6. QED
  BY <1>1, <1>3, <1>4, <1>5 DEF o

\* An entry out of an impulse rests on observed prices, in order.
LEMMA PullbackStep ==
  ASSUME WatcherInv, [Next]_vars
  PROVE  PullbackInOrder'
<1> USE DEF WatcherInv
<1>1. ASSUME UNCHANGED event, seen \subseteq seen' PROVE PullbackInOrder'
  BY <1>1 DEF PullbackInOrder
<1>2. ASSUME event'.status # "EARLY_ENTRY" \/ event'.prev # "IMPULSE_EXTENDED" PROVE PullbackInOrder'
  BY <1>2 DEF PullbackInOrder
<1>3. CASE Publish
  BY <1>1, <1>3, PublishFacts
<1>4. CASE Accept
  BY <1>1, <1>4, AcceptFacts
<1>5. CASE EvaluateUnwatched
  BY <1>1, <1>2, <1>5, UnwatchedFacts
<1>6. CASE Evaluate
  <2>1. CASE UNCHANGED event
    BY <1>1, <1>6, <2>1, EvaluateFacts
  <2>2. CASE /\ watch'.status \in {"ARMED", "IN_ZONE", "EXPIRED", "INVALIDATED", "TRIGGERED"}
             /\ Told(watch'.status, Considered)
    <3>1. event'.status = watch'.status
      BY <2>2 DEF Told
    <3>2. QED
      BY <1>2, <2>2, <3>1
  <2>3. QED
    BY <1>6, <2>1, <2>2, EvaluateFacts
<1>7. CASE Save
  BY <1>1, <1>7, SaveFacts
<1>8. CASE Enter
  <2>1. CASE UNCHANGED event
    BY <1>1, <1>8, <2>1, EnterFacts
  <2>2. CASE Told("EARLY_ENTRY", latest) /\ watch.status # "IMPULSE_EXTENDED"
    <3>1. event'.prev = watch.status
      BY <2>2 DEF Told
    <3>2. QED
      BY <1>2, <2>2, <3>1
  <2>3. CASE Told("IMPULSE_EXTENDED", latest)
    <3>1. event'.status = "IMPULSE_EXTENDED"
      BY <2>3 DEF Told
    <3>2. QED
      BY <1>2, <3>1
  <2>4. QED
    BY <1>8, <2>1, <2>2, <2>3, EnterFacts
<1>9. CASE Reclaim
  <2>1. pc = "reclaiming" /\ seen' = seen /\ Told("EARLY_ENTRY", latest)
    BY <1>9, ReclaimFacts
  <2>2. event'.priceAt = Observation(latest).asOf /\ event'.price = Price(latest)
    BY <2>1 DEF Told
  <2>3. \E top, bottom \in seen :
          /\ top.asOf < bottom.asOf /\ bottom.asOf < Observation(latest).asOf
          /\ bottom.price < Price(latest) /\ Price(latest) < top.price
    BY <2>1, PullbackFacts
  <2>4. QED
    BY <2>1, <2>2, <2>3 DEF PullbackInOrder
<1>10. CASE Crash
  BY <1>1, <1>10, CrashFacts
<1>11. CASE Restart
  BY <1>1, <1>11, RestartFacts
<1>12. CASE UNCHANGED vars
  BY <1>1, <1>12 DEF vars
<1>13. QED
  BY <1>3, <1>4, <1>5, <1>6, <1>7, <1>8, <1>9, <1>10, <1>11, <1>12, Steps

\* A step that enters rests on evidence no older than what was acknowledged.
LEMMA CurrentStep ==
  ASSUME WatcherInv, [Next]_vars, event' # event, event'.status \in {"TRIGGERED", "EARLY_ENTRY"}
  PROVE  \A h \in Horizons : latest'[h].asOf >= handled[h]
<1> USE DEF WatcherInv
<1>0. \A h \in Horizons : handled[h] \in Int /\ watch.saved[h].asOf \in Int
  BY RowFacts, Values DEF TypeOK, Evidence, Results
<1>1. CASE EvaluateUnwatched
  BY <1>1, UnwatchedFacts
<1>2. CASE Evaluate
  <2>1. pc = "evaluating" /\ IsActive /\ latest' = Considered
    BY <1>2, EvaluateFacts
  <2>2. \A h \in Horizons : Considered[h].asOf >= watch.saved[h].asOf /\ Considered[h].asOf \in Int
    BY <2>1, ConsideredFacts, Values DEF Evidence, Results
  <2>3. \A h \in Horizons : handled[h] <= watch.saved[h].asOf
    BY <2>1 DEF HandledSaved
  <2>4. QED
    BY <1>0, <2>1, <2>2, <2>3
<1>3. CASE Enter \/ Reclaim
  <2>1. IsActive /\ latest' = latest /\ watch.saved = latest
    BY <1>3, EnterFacts, ReclaimFacts DEF WorkControl
  <2>2. \A h \in Horizons : handled[h] <= watch.saved[h].asOf
    BY <2>1 DEF HandledSaved
  <2>3. QED
    BY <1>0, <2>1, <2>2
<1>4. CASE Publish \/ Accept \/ Save \/ Crash \/ Restart \/ UNCHANGED vars
  BY <1>4, PublishFacts, AcceptFacts, SaveFacts, CrashFacts, RestartFacts DEF vars
<1>5. QED
  BY <1>1, <1>2, <1>3, <1>4, Steps

-----------------------------------------------------------------------------
(* The theorems.                                                           *)

\* The inductive invariant: types, dated evidence, what the process holds while it works,
\* what the row holds of what was acknowledged, and where the prices of an impulse come from.
THEOREM WatcherInvariant == Spec => []WatcherInv
<1>1. Init => WatcherInv
  BY InitInv
<1>2. WatcherInv /\ [Next]_vars => WatcherInv'
  BY TypeStep, DatedStep, WorkStep, HandledStep, ImpulseStep, SeenStep, PriceStep, PullbackStep
  DEF WatcherInv
<1>3. QED
  BY <1>1, <1>2, PTL DEF Spec

\* Types, and an impulse between its low and its peak, through every interleaving of
\* analyses and ends of the process.
THEOREM WatcherTyped == Spec => []TypeOK
<1>1. WatcherInv => TypeOK
  BY DEF WatcherInv
<1>2. QED
  BY <1>1, WatcherInvariant, PTL

\* Every transition after the first is stamped with a price of its own moment, whatever was
\* replayed, restored or late.
THEOREM WatcherPriceContemporary == Spec => []PriceContemporary
<1>1. WatcherInv => PriceContemporary
  BY DEF WatcherInv
<1>2. QED
  BY <1>1, WatcherInvariant, PTL

\* An entry out of an extended impulse rests on a peak and a later, lower price that this
\* watch was evaluated at, both before the price it enters at.
THEOREM WatcherPullbackInOrder == Spec => []PullbackInOrder
<1>1. WatcherInv => PullbackInOrder
  BY DEF WatcherInv
<1>2. QED
  BY <1>1, WatcherInvariant, PTL

\* No entry rests on an analysis older than one that was evaluated for the watch and
\* acknowledged, by this process or an earlier one.
THEOREM WatcherNotSuperseded == Spec => NotSuperseded
<1>1. WatcherInv /\ [Next]_vars =>
        [event'.status \in {"TRIGGERED", "EARLY_ENTRY"} /\ event' # event =>
           \A h \in Horizons : latest'[h].asOf >= handled[h]]_vars
  BY CurrentStep
<1>2. QED
  BY <1>1, WatcherInvariant, PTL DEF Spec, NotSuperseded

=============================================================================
