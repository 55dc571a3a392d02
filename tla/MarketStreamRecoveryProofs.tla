---------------------- MODULE MarketStreamRecoveryProofs ----------------------
(***************************************************************************)
(* The recovery of the market stream, for any number of symbols, minutes   *)
(* and failures, any buffer, lookback and limit: types, no skipped minute, *)
(* no unexplained repetition, and the order of the gate.                   *)
(***************************************************************************)
EXTENDS MarketStreamRecovery, SequenceTheorems, TLAPS

-----------------------------------------------------------------------------
(* Bars, clocks and sequences of bars.                                     *)

\* The value None is before every time.
LEMMA Times ==
  /\ None \in Int /\ Lookback \in Nat /\ Lookback >= 1 /\ Minutes \in Nat
  /\ None < -Lookback /\ None < 0
BY StreamAssumption DEF None

\* A bar has a symbol and a minute.
LEMMA BarParts ==
  ASSUME NEW b \in Bars
  PROVE  b[1] \in Symbols /\ b[2] \in 0..(Minutes - 1) /\ b[2] \in Int /\ b = <<b[1], b[2]>>
BY StreamAssumption DEF Bars

\* A pair of a symbol and a minute is a bar.
LEMMA IsBar ==
  ASSUME NEW s \in Symbols, NEW m \in 0..(Minutes - 1)
  PROVE  <<s, m>> \in Bars /\ <<s, m>>[1] = s /\ <<s, m>>[2] = m
BY DEF Bars

\* The elements of a sequence of bars are bars.
LEMMA ElementsTyped ==
  ASSUME NEW s \in Seq(Bars)
  PROVE  Elements(s) \subseteq Bars
BY DEF Elements

\* Nothing is in the empty sequence, and it is in order.
LEMMA EmptyOrdered == <<>> \in Seq(Bars) /\ Elements(<<>>) = {} /\ InOrder(<<>>)
BY DEF Elements, InOrder

\* Appending adds one element, and keeps the order when it is the newest of its symbol.
LEMMA AppendOrdered ==
  ASSUME NEW s \in Seq(Bars), NEW b \in Bars, InOrder(s),
         \A c \in Elements(s) : c[1] = b[1] => c[2] < b[2]
  PROVE  /\ Append(s, b) \in Seq(Bars) /\ Elements(Append(s, b)) = Elements(s) \cup {b}
         /\ InOrder(Append(s, b)) /\ Len(Append(s, b)) = Len(s) + 1
<1>1. /\ Append(s, b) \in Seq(Bars) /\ Len(Append(s, b)) = Len(s) + 1
      /\ \A i \in 1..Len(s) : Append(s, b)[i] = s[i]
      /\ Append(s, b)[Len(s) + 1] = b /\ Len(s) \in Nat
  BY AppendProperties, LenProperties
<1> DEFINE a == Append(s, b)
<1>2. /\ a \in Seq(Bars) /\ Len(a) = Len(s) + 1 /\ \A i \in 1..Len(s) : a[i] = s[i]
      /\ a[Len(s) + 1] = b
  BY <1>1
<1> HIDE DEF a
<1>3. \A i \in 1..Len(a) : i \in 1..Len(s) \/ i = Len(s) + 1
  BY <1>1, <1>2
<1>4. Elements(a) = Elements(s) \cup {b}
  BY <1>1, <1>2, <1>3 DEF Elements
<1>5. InOrder(a)
  <2> SUFFICES ASSUME NEW i \in 1..Len(a), NEW j \in 1..Len(a), i < j, a[i][1] = a[j][1]
               PROVE  a[i][2] < a[j][2]
    BY DEF InOrder
  <2>1. i \in 1..Len(s)
    BY <1>1, <1>2, <1>3
  <2>2. CASE j \in 1..Len(s)
    BY <1>2, <2>1, <2>2 DEF InOrder
  <2>3. CASE j = Len(s) + 1
    BY <1>2, <2>1, <2>3 DEF Elements
  <2>4. QED
    BY <1>3, <2>2, <2>3
<1>6. QED
  BY <1>2, <1>4, <1>5 DEF a

\* Reading takes the oldest of its symbol.
LEMMA HeadOrdered ==
  ASSUME NEW s \in Seq(Bars), s # <<>>
  PROVE  /\ Head(s) \in Bars /\ Tail(s) \in Seq(Bars)
         /\ Elements(s) = {Head(s)} \cup Elements(Tail(s))
         /\ InOrder(s) => /\ InOrder(Tail(s))
                          /\ \A c \in Elements(Tail(s)) : c[1] = Head(s)[1] => Head(s)[2] < c[2]
<1>1. /\ Head(s) = s[1] /\ Tail(s) \in Seq(Bars) /\ Len(Tail(s)) = Len(s) - 1
      /\ \A i \in 1..Len(Tail(s)) : Tail(s)[i] = s[i + 1]
      /\ Len(s) \in Nat /\ Len(s) >= 1 /\ Head(s) \in Bars
  BY HeadTailProperties, LenProperties, EmptySeq
<1> DEFINE t == Tail(s)
<1>2. t \in Seq(Bars) /\ Len(t) = Len(s) - 1 /\ \A i \in 1..Len(t) : t[i] = s[i + 1]
  BY <1>1
<1> HIDE DEF t
<1>3. \A i \in 1..Len(t) : i + 1 \in 1..Len(s) /\ i + 1 > 1
  BY <1>1, <1>2
<1>4. \A i \in 1..Len(s) : i = 1 \/ i - 1 \in 1..Len(t)
  BY <1>1, <1>2
<1>5. \A i \in 2..Len(s) : s[i] = t[i - 1]
  BY <1>1, <1>2, <1>4
<1>6. Elements(s) = {Head(s)} \cup Elements(t)
  <2>1. Elements(t) \subseteq Elements(s)
    BY <1>2, <1>3 DEF Elements
  <2>2. \A i \in 1..Len(s) : s[i] \in {Head(s)} \cup Elements(t)
    <3> TAKE i \in 1..Len(s)
    <3>1. CASE i = 1
      BY <1>1, <3>1
    <3>2. CASE i # 1
      BY <1>1, <1>4, <1>5, <3>2 DEF Elements
    <3>3. QED
      BY <3>1, <3>2
  <2>3. Head(s) \in Elements(s)
    BY <1>1 DEF Elements
  <2>4. QED
    BY <2>1, <2>2, <2>3 DEF Elements
<1>7. ASSUME InOrder(s) PROVE InOrder(t)
  BY <1>2, <1>3, <1>7 DEF InOrder
<1>8. ASSUME InOrder(s), NEW c \in Elements(t), c[1] = Head(s)[1]
      PROVE  Head(s)[2] < c[2]
  BY <1>1, <1>2, <1>3, <1>8 DEF InOrder, Elements
<1>9. QED
  BY <1>1, <1>2, <1>6, <1>7, <1>8 DEF t

-----------------------------------------------------------------------------
(* The steps, in the terms of the proof.                                   *)

\* A step that publishes nothing, or whose publish raises or is cut off.
NothingSure ==
  /\ published \subseteq published' /\ published' \subseteq published \cup excused'
  /\ published' \subseteq Bars /\ \A b \in published' : b[2] < made[b[1]]
  /\ excused \subseteq excused' /\ excused' \subseteq Bars
  /\ repeated' \subseteq published' /\ repeated' \subseteq repeated \cup excused'
  /\ cursor' = cursor

\* A publish that may have failed leaves an excused bar.
LEMMA PerhapsIsUnsure ==
  ASSUME TypeOK, ArrivalOrder, NEW b \in Bars, b[2] < made[b[1]], PublishedPerhaps(b)
  PROVE  NothingSure
BY DEF TypeOK, ArrivalOrder, PublishedPerhaps, NothingSure

\* Publishing nothing is one of them.
LEMMA IdleIsUnsure ==
  ASSUME TypeOK, ArrivalOrder, UNCHANGED <<published, repeated, excused, cursor>>
  PROVE  NothingSure
BY DEF TypeOK, ArrivalOrder, NothingSure

\* A publish moves the cursor of its symbol to the bar, unless it is behind it.
LEMMA PublishedFacts ==
  ASSUME TypeOK, NEW b \in Bars, Published(b)
  PROVE  /\ published' = published \cup {b} /\ published' \subseteq Bars
         /\ repeated' = repeated \cup (published \cap {b}) /\ repeated' \subseteq published'
         /\ cursor' \in [Symbols -> {None} \cup (0..(Minutes - 1))]
         /\ \A s \in Symbols : s # b[1] => cursor'[s] = cursor[s]
         /\ cursor'[b[1]] \in {cursor[b[1]], b[2]}
         /\ cursor'[b[1]] >= b[2] /\ cursor'[b[1]] >= cursor[b[1]]
<1>1. b[1] \in Symbols /\ b[2] \in 0..(Minutes - 1) /\ None \in Int /\ Minutes \in Nat
  BY BarParts, Times
<1>2. cursor[b[1]] \in {None} \cup (0..(Minutes - 1))
  BY <1>1 DEF TypeOK
<1>3. Newest(cursor[b[1]], b[2]) \in {cursor[b[1]], b[2]}
  BY DEF Newest
<1>4. Newest(cursor[b[1]], b[2]) >= b[2] /\ Newest(cursor[b[1]], b[2]) >= cursor[b[1]]
  BY <1>1, <1>2 DEF Newest
<1>5. cursor' = [cursor EXCEPT ![b[1]] = Newest(cursor[b[1]], b[2])]
  BY DEF Published
<1>6. cursor'[b[1]] = Newest(cursor[b[1]], b[2]) /\ \A s \in Symbols : s # b[1] => cursor'[s] = cursor[s]
  BY <1>1, <1>5 DEF TypeOK
<1>7. cursor' \in [Symbols -> {None} \cup (0..(Minutes - 1))]
  BY <1>1, <1>2, <1>3, <1>5 DEF TypeOK
<1>8. QED
  BY <1>3, <1>4, <1>6, <1>7 DEF Published, TypeOK

\* The bars of the buffer, of the wire and of the release.
LEMMA BarsTyped ==
  ASSUME TypeOK
  PROVE  /\ Elements(buffer) \subseteq Bars /\ Elements(wire) \subseteq Bars /\ Arrived \subseteq Bars
         /\ rest \subseteq Bars /\ ToRelease \subseteq Bars
         /\ \A i \in 1..Len(buffer) : buffer[i] \in Bars /\ buffer[i] \in Elements(buffer)
<1>1. Elements(buffer) \subseteq Bars /\ Elements(wire) \subseteq Bars
  BY ElementsTyped DEF TypeOK
<1>2. \A i \in 1..Len(buffer) : buffer[i] \in Elements(buffer)
  BY DEF Elements
<1>3. next..Len(buffer) \subseteq 1..Len(buffer)
  BY LenProperties DEF TypeOK
<1>4. QED
  BY <1>1, <1>2, <1>3 DEF TypeOK, Arrived, ToRelease

\* What is still to be released was read back, or arrived.
LEMMA ReleaseParts ==
  ASSUME TypeOK
  PROVE  /\ \A u : u \in ToRelease <=>
              u \in rest \/ \E i \in next..Len(buffer) : u = buffer[i] /\ u \notin missing
         /\ ToRelease \subseteq missing \cup Elements(buffer)
         /\ next..Len(buffer) \subseteq 1..Len(buffer)
<1>1. next..Len(buffer) \subseteq 1..Len(buffer)
  BY LenProperties DEF TypeOK
<1>2. \A u : u \in ToRelease <=>
        u \in rest \/ \E i \in next..Len(buffer) : u = buffer[i] /\ u \notin missing
  BY DEF ToRelease, NotRecovered
<1>3. QED
  BY <1>1, <1>2 DEF TypeOK, Elements

\* The session is given up: by a failure, or because the reading task ended.
Abandons == SessionFails \/ NoticeStreamEnd \/ ReleaseFails

LEMMA AbandonFacts ==
  ASSUME TypeOK, ArrivalOrder, Abandons
  PROVE  GiveUp /\ NothingSure /\ phase # "down" /\ faults' \in 0..MaxFaults
<1>0. /\ Elements(wire) \subseteq Bars /\ Elements(buffer) \subseteq Bars /\ rest \subseteq missing
      /\ wire \in Seq(Bars) /\ missing \subseteq Bars
      /\ \A i \in 1..Len(buffer) : buffer[i] \in Bars /\ buffer[i] \in Elements(buffer)
  BY BarsTyped DEF TypeOK
<1>1. GiveUp /\ phase # "down"
  BY DEF Abandons, SessionFails, NoticeStreamEnd, ReleaseFails
<1>2. faults' \in 0..MaxFaults
  BY StreamAssumption DEF Abandons, SessionFails, NoticeStreamEnd, ReleaseFails, Fault, TypeOK
<1>3. \A b \in Elements(wire) \cup Elements(buffer) \cup missing : b[2] < made[b[1]]
  BY DEF ArrivalOrder, Arrived
<1>4. CASE UNCHANGED <<published, repeated, excused, cursor>>
  BY <1>1, <1>2, <1>4, IdleIsUnsure
<1>5. CASE SessionFails /\ wire # <<>> /\ PublishedPerhaps(Head(wire))
  <2>1. Head(wire) \in Bars /\ Head(wire) \in Elements(wire)
    BY <1>0, <1>5, HeadOrdered
  <2>2. QED
    BY <1>1, <1>2, <1>3, <1>5, <2>1, PerhapsIsUnsure
<1>6. CASE ReleaseFails
  <2>1. CASE \E b \in rest : PublishedPerhaps(b)
    BY <1>0, <1>1, <1>2, <1>3, <2>1, PerhapsIsUnsure
  <2>2. CASE \E i \in 1..Len(buffer) : PublishedPerhaps(buffer[i])
    BY <1>0, <1>1, <1>2, <1>3, <2>2, PerhapsIsUnsure
  <2>3. QED
    BY <1>6, <2>1, <2>2 DEF ReleaseFails
<1>7. QED
  BY <1>4, <1>5, <1>6 DEF Abandons, SessionFails, NoticeStreamEnd

\* The reading task ends, and what it has not read is lost.
LosesSocket == BufferOverflows \/ PublishLiveFails \/ StreamDies

LEMMA LossFacts ==
  ASSUME TypeOK, ArrivalOrder, LosesSocket
  PROVE  /\ NothingSure /\ socket' = "dead" /\ wire' = <<>> /\ socket \in {"connecting", "open"}
         /\ faults' \in 0..MaxFaults
         /\ UNCHANGED <<provider, phase, recovering, buffer, session, missing, release, owed, late, capped>>
<1>0. Elements(wire) \subseteq Bars /\ wire \in Seq(Bars)
  BY BarsTyped DEF TypeOK
<1>1. /\ socket' = "dead" /\ wire' = <<>> /\ socket \in {"connecting", "open"}
      /\ UNCHANGED <<provider, phase, recovering, buffer, session, missing, release, owed, late, capped>>
  BY DEF LosesSocket, BufferOverflows, PublishLiveFails, StreamDies, Reading, publisher, history
<1>2. faults' \in 0..MaxFaults
  BY StreamAssumption DEF LosesSocket, BufferOverflows, PublishLiveFails, StreamDies, Fault, TypeOK
<1>3. CASE BufferOverflows \/ StreamDies
  BY <1>1, <1>2, <1>3, IdleIsUnsure DEF BufferOverflows, StreamDies, publisher, history
<1>4. CASE PublishLiveFails
  <2>1. Head(wire) \in Bars /\ Head(wire) \in Elements(wire)
    BY <1>0, <1>4, HeadOrdered DEF PublishLiveFails, Reading
  <2>2. Head(wire)[2] < made[Head(wire)[1]]
    BY <2>1 DEF ArrivalOrder, Arrived
  <2>3. QED
    BY <1>1, <1>2, <1>4, <2>1, <2>2, PerhapsIsUnsure DEF PublishLiveFails
<1>5. QED
  BY <1>3, <1>4 DEF LosesSocket

\* Every step is one of these.
LEMMA StepCases ==
  ASSUME [Next]_vars
  PROVE  \/ Tick \/ \E s \in Symbols : MakeBar(s)
         \/ Begin \/ Subscribed \/ Connected \/ Fetch \/ Release
         \/ ReleaseMissing \/ ReleaseHeld \/ Released \/ HoldBar \/ PublishLive
         \/ Abandons \/ LosesSocket \/ UNCHANGED vars
BY DEF Next, Provider, Loop, Reader, Abandons, LosesSocket

-----------------------------------------------------------------------------
(* Types and control.                                                      *)

\* Every step keeps the types.
LEMMA TypesStep ==
  ASSUME TypeOK, Control, ArrivalOrder, [Next]_vars
  PROVE  TypeOK'
<1>0. /\ None \in Int /\ Lookback \in Nat /\ Minutes \in Nat /\ None < -Lookback /\ None < 0
      /\ Len(buffer) \in Nat
  BY Times, LenProperties DEF TypeOK
<1>1. CASE Tick
  BY <1>0, <1>1 DEF Tick, TypeOK, publisher, session, release, history
<1>2. ASSUME NEW s \in Symbols, MakeBar(s) PROVE TypeOK'
  <2>1. made[s] \in 0..(Minutes - 1) /\ made[s] + 1 \in 0..Minutes /\ made[s] + 1 <= now
    BY <1>0, <1>2 DEF MakeBar, TypeOK
  <2>2. made' \in [Symbols -> 0..Minutes] /\ \A t \in Symbols : made'[t] <= now
    BY <1>2, <2>1 DEF MakeBar, TypeOK
  <2>3. wire' \in Seq(Bars)
    <3>1. <<s, made[s]>> \in Bars
      BY <2>1, IsBar
    <3>2. QED
      BY <1>2, <3>1, AppendProperties DEF MakeBar, TypeOK
  <2>4. QED
    BY <1>2, <2>2, <2>3 DEF MakeBar, TypeOK, publisher, session, release, history
<1>3. CASE Begin
  BY <1>0, <1>3, StreamAssumption, EmptyOrdered DEF Begin, TypeOK, Control, provider, session, release, history
<1>4. CASE Subscribed
  BY <1>4 DEF Subscribed, TypeOK, provider, publisher, session, release, history
<1>5. CASE Connected
  BY <1>5 DEF Connected, TypeOK, provider, publisher, release, history
<1>6. CASE Fetch
  <2>1. missing' \subseteq Bars /\ rest = {}
    BY <1>6 DEF Fetch, Control
  <2>2. capped' \in BOOLEAN
    BY <1>6 DEF Fetch
  <2>3. QED
    BY <1>6, <2>1, <2>2 DEF Fetch, TypeOK, provider, publisher, session, release
<1>7. CASE Release
  BY <1>7 DEF Release, TypeOK, provider, publisher, session
<1>8. CASE ReleaseMissing
  <2>1. PICK b \in rest : Published(b) /\ rest' = rest \ {b}
    BY <1>8 DEF ReleaseMissing
  <2>2. b \in Bars
    BY BarsTyped
  <2>3. /\ published' \subseteq Bars /\ repeated' \subseteq published'
        /\ cursor' \in [Symbols -> {None} \cup (0..(Minutes - 1))]
    BY <2>1, <2>2, PublishedFacts
  <2>4. QED
    BY <1>8, <2>1, <2>3 DEF ReleaseMissing, TypeOK, provider, session
<1>9. CASE ReleaseHeld
  <2>1. PICK i \in 1..Len(buffer) : Published(buffer[i]) /\ next' = i + 1
    BY <1>9 DEF ReleaseHeld
  <2>2. buffer[i] \in Bars
    BY BarsTyped
  <2>3. /\ published' \subseteq Bars /\ repeated' \subseteq published'
        /\ cursor' \in [Symbols -> {None} \cup (0..(Minutes - 1))]
    BY <2>1, <2>2, PublishedFacts
  <2>4. next' \in 1..(Len(buffer) + 1)
    BY <1>0, <2>1
  <2>5. QED
    BY <1>9, <2>3, <2>4 DEF ReleaseHeld, TypeOK, provider, session
<1>10. CASE Released
  <2>1. owed' \in [Symbols -> 0..Minutes]
    BY <1>10 DEF Released, TypeOK
  <2>2. buffer' \in Seq(Bars) /\ Len(buffer') <= Capacity /\ next' \in 1..(Len(buffer') + 1)
    BY <1>10, StreamAssumption, EmptyOrdered DEF Released
  <2>3. QED
    BY <1>10, <2>1, <2>2 DEF Released, TypeOK, provider
<1>11. CASE HoldBar
  <2>1. /\ Head(wire) \in Bars /\ Tail(wire) \in Seq(Bars)
    BY <1>11, HeadOrdered DEF HoldBar, Reading, TypeOK
  <2>2. /\ buffer' \in Seq(Bars) /\ Len(buffer') = Len(buffer) + 1
    BY <1>11, <2>1, AppendProperties DEF HoldBar, TypeOK
  <2>3. Len(buffer') <= Capacity /\ next \in 1..(Len(buffer') + 1)
    BY <1>0, <1>11, <2>2, StreamAssumption DEF HoldBar, Room, TypeOK
  <2>4. QED
    BY <1>11, <2>1, <2>2, <2>3 DEF HoldBar, TypeOK, provider, session, release, history
<1>12. CASE PublishLive
  <2>1. /\ Head(wire) \in Bars /\ Tail(wire) \in Seq(Bars)
    BY <1>12, HeadOrdered DEF PublishLive, Reading, TypeOK
  <2>2. /\ published' \subseteq Bars /\ repeated' \subseteq published'
        /\ cursor' \in [Symbols -> {None} \cup (0..(Minutes - 1))]
    BY <1>12, <2>1, PublishedFacts DEF PublishLive
  <2>3. QED
    BY <1>12, <2>1, <2>2 DEF PublishLive, TypeOK, provider, session, release
<1>13. CASE Abandons
  <2>1. GiveUp /\ NothingSure /\ faults' \in 0..MaxFaults
    BY <1>13, AbandonFacts
  <2>2. started' \in {None} \cup ((-Lookback)..Minutes)
    BY <1>0, <2>1 DEF GiveUp, RecoverFrom, TypeOK
  <2>3. /\ published' \subseteq Bars /\ repeated' \subseteq published' /\ excused' \subseteq Bars
        /\ cursor' = cursor /\ late' \in BOOLEAN
    BY <2>1 DEF NothingSure, GiveUp, TypeOK
  <2>4. next' \in 1..(Len(buffer) + 1)
    BY <1>0, <2>1 DEF GiveUp
  <2>5. QED
    BY <2>1, <2>2, <2>3, <2>4, EmptyOrdered DEF GiveUp, TypeOK, provider
<1>14. CASE LosesSocket
  BY <1>14, LossFacts, EmptyOrdered DEF NothingSure, TypeOK, provider, session, release
<1>15. CASE UNCHANGED vars
  BY <1>15 DEF vars, TypeOK, provider, publisher, session, release, history
<1>16. QED
  BY <1>1, <1>2, <1>3, <1>4, <1>5, <1>6, <1>7, <1>8, <1>9, <1>10, <1>11, <1>12, <1>13, <1>14, <1>15,
     StepCases

\* Every step keeps the control.
LEMMA ControlStep ==
  ASSUME TypeOK, Control, ArrivalOrder, [Next]_vars
  PROVE  Control'
<1>0. /\ None \in Int /\ Lookback \in Nat /\ Minutes \in Nat /\ None < -Lookback /\ None < 0
      /\ now \in Int /\ started \in Int
  BY Times DEF TypeOK
<1>1. CASE Tick
  BY <1>0, <1>1 DEF Tick, Control, publisher, session, release, history, TypeOK
<1>2. ASSUME NEW s \in Symbols, MakeBar(s) PROVE Control'
  BY <1>2 DEF MakeBar, Control, publisher, session, release, history
<1>3. CASE Begin
  BY <1>3 DEF Begin, Control, provider, session, release, history, Gated
<1>4. CASE Subscribed
  BY <1>4 DEF Subscribed, Control, provider, publisher, session, release, history
<1>5. CASE Connected
  BY <1>0, <1>5 DEF Connected, Control, provider, publisher, release, history, TypeOK, Gated
<1>6. CASE Fetch
  BY <1>6 DEF Fetch, Control, provider, publisher, session, release, Gated
<1>7. CASE Release
  BY <1>7 DEF Release, Control, provider, publisher, session, Gated
<1>8. CASE ReleaseMissing
  BY <1>8 DEF ReleaseMissing, Control, provider, session
<1>9. CASE ReleaseHeld
  BY <1>9 DEF ReleaseHeld, Control, provider, session
<1>10. CASE Released
  BY <1>10 DEF Released, Control, provider, Gated, ToRelease
<1>11. CASE HoldBar
  BY <1>11 DEF HoldBar, Reading, Control, provider, session, release, history
<1>12. CASE PublishLive
  BY <1>12 DEF PublishLive, Reading, Control, provider, session, release
<1>13. CASE Abandons
  <2>1. GiveUp /\ phase # "down"
    BY <1>13, AbandonFacts
  <2>2. now - Lookback # None
    BY <1>0 DEF TypeOK
  <2>3. QED
    BY <1>0, <2>1, <2>2 DEF GiveUp, RecoverFrom, Control, provider, Gated, TypeOK
<1>14. CASE LosesSocket
  BY <1>14, LossFacts DEF Control, provider, session, release, Gated
<1>15. CASE UNCHANGED vars
  BY <1>15 DEF vars, Control, provider, publisher, session, release, history
<1>16. QED
  BY <1>1, <1>2, <1>3, <1>4, <1>5, <1>6, <1>7, <1>8, <1>9, <1>10, <1>11, <1>12, <1>13, <1>14, <1>15,
     StepCases

-----------------------------------------------------------------------------
(* The order of arrival.                                                   *)

\* A publish of a bar that was made keeps what is published, and the cursors, behind the provider.
LEMMA PublishedMade ==
  ASSUME TypeOK, ArrivalOrder, NEW b \in Bars, b[2] < made[b[1]], Published(b)
  PROVE  /\ \A c \in published' : c[2] < made[c[1]]
         /\ \A s \in Symbols : cursor'[s] < made[s]
<1>1. /\ published' = published \cup {b} /\ \A s \in Symbols : s # b[1] => cursor'[s] = cursor[s]
      /\ cursor'[b[1]] \in {cursor[b[1]], b[2]}
  BY PublishedFacts
<1>2. QED
  BY <1>1 DEF ArrivalOrder

\* Every step keeps the order of arrival.
LEMMA ArrivalStep ==
  ASSUME TypeOK, Control, ArrivalOrder, [Next]_vars
  PROVE  ArrivalOrder'
<1>0. /\ None \in Int /\ Minutes \in Nat /\ now \in Int /\ \A s \in Symbols : made[s] \in Int
      /\ \A s \in Symbols : cursor[s] \in Int /\ Minutes - 1 \in Int
  BY Times DEF TypeOK
<1>1. CASE Tick
  BY <1>0, <1>1 DEF Tick, ArrivalOrder, Arrived, publisher
<1>2. ASSUME NEW s \in Symbols, MakeBar(s) PROVE ArrivalOrder'
  <2>1. /\ made[s] \in 0..(Minutes - 1) /\ made'[s] = made[s] + 1
        /\ \A t \in Symbols : made[t] <= made'[t] /\ made'[t] \in Int
    <3>1. made[s] \in 0..(Minutes - 1) /\ made'[s] = made[s] + 1 /\ \A t \in Symbols : t # s => made'[t] = made[t]
      BY <1>0, <1>2 DEF MakeBar, TypeOK
    <3>2. ASSUME NEW t \in Symbols PROVE made[t] <= made'[t] /\ made'[t] \in Int
      BY <1>0, <3>1
    <3>3. QED
      BY <3>1, <3>2
  <2> DEFINE c == <<s, made[s]>>
  <2>2. c \in Bars /\ c[1] = s /\ c[2] = made[s]
    BY <2>1, IsBar
  <2> HIDE DEF c
  <2>3. \A b \in Arrived : b[1] = s => b[2] < made[s]
    BY DEF ArrivalOrder
  <2>4. wire' \in {wire, Append(wire, c)}
    BY <1>2 DEF MakeBar, c
  <2>5. /\ Elements(Append(wire, c)) = Elements(wire) \cup {c} /\ InOrder(Append(wire, c))
    <3>1. \A b \in Elements(wire) : b[1] = c[1] => b[2] < c[2]
      BY <2>2, <2>3 DEF Arrived
    <3>2. wire \in Seq(Bars) /\ InOrder(wire)
      BY DEF TypeOK, ArrivalOrder
    <3>3. QED
      BY <2>2, <3>1, <3>2, AppendOrdered
  <2>6. InOrder(wire') /\ Elements(wire') \subseteq Elements(wire) \cup {c}
    BY <2>4, <2>5 DEF ArrivalOrder
  <2>7. \A b \in Elements(buffer), d \in Elements(wire') : b[1] = d[1] => b[2] < d[2]
    BY <2>2, <2>3, <2>6 DEF ArrivalOrder, Arrived
  <2>8. \A b \in Arrived \cup missing \cup published \cup {c} : b[2] < made'[b[1]]
    <3>1. \A b \in Arrived \cup missing \cup published : b[2] < made[b[1]] /\ b \in Bars
      BY BarsTyped DEF ArrivalOrder, TypeOK
    <3>2. \A b \in Arrived \cup missing \cup published : b[2] < made'[b[1]]
      BY <1>0, <2>1, <3>1, BarParts
    <3>3. QED
      BY <1>0, <2>1, <2>2, <3>2
  <2>9. \A t \in Symbols : cursor[t] < made'[t] /\ now <= made'[t] + 1
    BY <1>0, <2>1 DEF ArrivalOrder
  <2>10. QED
    BY <1>2, <2>6, <2>7, <2>8, <2>9 DEF MakeBar, ArrivalOrder, Arrived, publisher
<1>3. CASE Begin
  BY <1>3, EmptyOrdered DEF Begin, ArrivalOrder, Arrived, provider
<1>4. CASE Subscribed
  BY <1>4 DEF Subscribed, ArrivalOrder, Arrived, provider, publisher
<1>5. CASE Connected
  BY <1>5 DEF Connected, ArrivalOrder, Arrived, provider, publisher
<1>6. CASE Fetch
  <2>1. \A b \in missing' : b[2] < made[b[1]]
    <3>1. \A b \in missing' : b[2] \in 0..(made[b[1]] - 1) /\ b \in Bars
      BY <1>6 DEF Fetch, Loaded
    <3>2. QED
      BY <1>0, <3>1, BarParts
  <2>2. QED
    BY <1>6, <2>1 DEF Fetch, ArrivalOrder, Arrived, provider, publisher
<1>7. CASE Release
  BY <1>7 DEF Release, ArrivalOrder, Arrived, provider, publisher
<1>8. CASE ReleaseMissing
  <2>1. PICK b \in rest : Published(b)
    BY <1>8 DEF ReleaseMissing
  <2>2. b \in Bars /\ b[2] < made[b[1]]
    BY BarsTyped DEF ArrivalOrder, TypeOK
  <2>3. QED
    BY <1>8, <2>1, <2>2, PublishedMade DEF ReleaseMissing, ArrivalOrder, Arrived, provider
<1>9. CASE ReleaseHeld
  <2>1. PICK i \in 1..Len(buffer) : Published(buffer[i])
    BY <1>9 DEF ReleaseHeld
  <2>2. buffer[i] \in Bars /\ buffer[i][2] < made[buffer[i][1]]
    BY BarsTyped DEF ArrivalOrder, Arrived
  <2>3. QED
    BY <1>9, <2>1, <2>2, PublishedMade DEF ReleaseHeld, ArrivalOrder, Arrived, provider
<1>10. CASE Released
  BY <1>10, EmptyOrdered DEF Released, ArrivalOrder, Arrived, provider
<1>11. CASE HoldBar
  <2> DEFINE b == Head(wire)
  <2>1. /\ b \in Bars /\ Elements(wire) = {b} \cup Elements(wire')
        /\ InOrder(wire') /\ \A c \in Elements(wire') : c[1] = b[1] => b[2] < c[2]
    BY <1>11, HeadOrdered DEF HoldBar, Reading, TypeOK, ArrivalOrder
  <2>2. buffer' = Append(buffer, b)
    BY <1>11 DEF HoldBar
  <2> HIDE DEF b
  <2>3. \A c \in Elements(buffer) : c[1] = b[1] => c[2] < b[2]
    BY <2>1 DEF ArrivalOrder
  <2>4. Elements(buffer') = Elements(buffer) \cup {b} /\ InOrder(buffer')
    BY <2>1, <2>2, <2>3, AppendOrdered DEF TypeOK, ArrivalOrder
  <2>5. Arrived' = Arrived
    BY <2>1, <2>4 DEF Arrived
  <2>6. \A c \in Elements(buffer'), d \in Elements(wire') : c[1] = d[1] => c[2] < d[2]
    BY <2>1, <2>4 DEF ArrivalOrder
  <2>7. QED
    BY <1>11, <2>1, <2>4, <2>5, <2>6 DEF HoldBar, ArrivalOrder, provider
<1>12. CASE PublishLive
  <2> DEFINE b == Head(wire)
  <2>1. /\ b \in Bars /\ Elements(wire) = {b} \cup Elements(wire') /\ InOrder(wire')
    BY <1>12, HeadOrdered DEF PublishLive, Reading, TypeOK, ArrivalOrder
  <2>2. Published(b)
    BY <1>12 DEF PublishLive
  <2> HIDE DEF b
  <2>3. b[2] < made[b[1]] /\ Arrived' \subseteq Arrived
    BY <1>12, <2>1 DEF ArrivalOrder, Arrived, PublishLive
  <2>4. /\ \A c \in published' : c[2] < made[c[1]]
        /\ \A s \in Symbols : cursor'[s] < made[s]
    BY <2>1, <2>2, <2>3, PublishedMade
  <2>5. QED
    BY <1>12, <2>1, <2>3, <2>4 DEF PublishLive, ArrivalOrder, provider
<1>13. CASE Abandons
  BY <1>13, AbandonFacts, EmptyOrdered DEF GiveUp, NothingSure, ArrivalOrder, Arrived, provider
<1>14. CASE LosesSocket
  BY <1>14, LossFacts, EmptyOrdered DEF NothingSure, ArrivalOrder, Arrived, provider
<1>15. CASE UNCHANGED vars
  BY <1>15 DEF vars, ArrivalOrder, Arrived, provider, publisher
<1>16. QED
  BY <1>1, <1>2, <1>3, <1>4, <1>5, <1>6, <1>7, <1>8, <1>9, <1>10, <1>11, <1>12, <1>13, <1>14, <1>15,
     StepCases

-----------------------------------------------------------------------------
(* The gate.                                                               *)

\* The next bar of a symbol goes to the end of an open wire.
LEMMA MakeFacts ==
  ASSUME TypeOK, ArrivalOrder, NEW s \in Symbols, MakeBar(s)
  PROVE  /\ made[s] \in 0..(Minutes - 1) /\ <<s, made[s]>> \in Bars
         /\ \A b \in Bars : b[2] < made'[b[1]] => b[2] < made[b[1]] \/ b = <<s, made[s]>>
         /\ \A b \in Bars : b[2] < made[b[1]] => b[2] < made'[b[1]]
         /\ Elements(wire') = Elements(wire) \cup (IF socket = "open" THEN {<<s, made[s]>>} ELSE {})
         /\ Arrived' = Arrived \cup (IF socket = "open" THEN {<<s, made[s]>>} ELSE {})
<1>0. /\ Minutes \in Nat /\ now \in Int /\ \A t \in Symbols : made[t] \in Int
  BY Times DEF TypeOK
<1>1. /\ made[s] \in 0..(Minutes - 1) /\ made'[s] = made[s] + 1
      /\ \A t \in Symbols : t # s => made'[t] = made[t]
  BY <1>0 DEF MakeBar, TypeOK
<1>2. <<s, made[s]>> \in Bars
  BY <1>1, IsBar
<1>3. \A b \in Bars : /\ b[2] < made'[b[1]] => b[2] < made[b[1]] \/ b = <<s, made[s]>>
                      /\ b[2] < made[b[1]] => b[2] < made'[b[1]]
  <2> TAKE b \in Bars
  <2>1. b[1] \in Symbols /\ b[2] \in Int /\ b = <<b[1], b[2]>>
    BY BarParts
  <2>2. CASE b[1] = s
    <3>1. b[2] < made[s] + 1 => b[2] < made[s] \/ b[2] = made[s]
      BY <1>0, <2>1
    <3>2. QED
      BY <1>0, <1>1, <2>1, <2>2, <3>1
  <2>3. CASE b[1] # s
    BY <1>1, <2>1, <2>3
  <2>4. QED
    BY <2>2, <2>3
<1>4. Elements(wire') = Elements(wire) \cup (IF socket = "open" THEN {<<s, made[s]>>} ELSE {})
  <2>1. CASE socket = "open"
    <3>1. \A b \in Elements(wire) : b[1] = <<s, made[s]>>[1] => b[2] < <<s, made[s]>>[2]
      BY DEF ArrivalOrder, Arrived
    <3>2. wire \in Seq(Bars) /\ InOrder(wire)
      BY DEF TypeOK, ArrivalOrder
    <3>3. QED
      BY <1>2, <2>1, <3>1, <3>2, AppendOrdered DEF MakeBar
  <2>2. CASE socket # "open"
    BY <2>2 DEF MakeBar
  <2>3. QED
    BY <2>1, <2>2
<1>5. QED
  BY <1>1, <1>2, <1>3, <1>4 DEF Arrived, MakeBar, publisher

\* Holding a bar back moves it from the wire to the buffer.
LEMMA HoldFacts ==
  ASSUME TypeOK, ArrivalOrder, HoldBar
  PROVE  Arrived' = Arrived /\ Elements(wire') \subseteq Elements(wire) /\ phase # "finishing"
<1> DEFINE b == Head(wire)
<1>1. /\ b \in Bars /\ Elements(wire) = {b} \cup Elements(wire')
  BY HeadOrdered DEF HoldBar, Reading, TypeOK
<1>2. buffer' = Append(buffer, b) /\ phase # "finishing"
  BY DEF HoldBar, Reading
<1> HIDE DEF b
<1>3. \A c \in Elements(buffer) : c[1] = b[1] => c[2] < b[2]
  BY <1>1 DEF ArrivalOrder
<1>4. Elements(buffer') = Elements(buffer) \cup {b}
  BY <1>1, <1>2, <1>3, AppendOrdered DEF TypeOK, ArrivalOrder
<1>5. QED
  BY <1>1, <1>2, <1>4 DEF Arrived

\* A live publish takes the head of the wire, with the gate open.
LEMMA LiveFacts ==
  ASSUME TypeOK, Control, ArrivalOrder, PublishLive
  PROVE  /\ phase = "live" /\ phase' = "live"
         /\ \E b \in Bars : /\ Published(b) /\ b \in Elements(wire)
                            /\ Elements(wire) = {b} \cup Elements(wire')
                            /\ \A c \in Elements(wire') : c[1] = b[1] => b[2] < c[2]
<1>1. /\ Head(wire) \in Bars /\ Elements(wire) = {Head(wire)} \cup Elements(wire')
      /\ \A c \in Elements(wire') : c[1] = Head(wire)[1] => Head(wire)[2] < c[2]
  BY HeadOrdered DEF PublishLive, Reading, TypeOK, ArrivalOrder
<1>2. phase = "live" /\ phase' = "live"
  BY DEF PublishLive, Reading, Control, Gated, TypeOK
<1>3. QED
  BY <1>1, <1>2 DEF PublishLive

\* Market History returns every completed bar after the cursor and the start of the
\* recovery, when the limit does not cut it short; and what it returns is one of these.
LEMMA FetchFinds ==
  ASSUME TypeOK, Control, Fetch
  PROVE  /\ \A b \in missing' : b \in Bars /\ b[2] < connected /\ cursor[b[1]] < b[2]
         /\ ~capped' => \A b \in Bars :
              b[2] < made[b[1]] /\ b[2] < connected /\ started <= b[2] /\ cursor[b[1]] < b[2] =>
                b \in missing'
<1>0. /\ None \in Int /\ Lookback \in Nat /\ Minutes \in Nat /\ None < 0 /\ Slack \in Nat
      /\ \A s \in Symbols : made[s] \in Int /\ cursor[s] \in Int
      /\ now \in Int /\ started \in Int /\ connected \in Int /\ MaxBars \in Nat
  BY Times, StreamAssumption DEF TypeOK
<1>1. PICK upto \in connected..now :
        /\ upto - connected < Slack
        /\ missing' = {b \in Bars : b[2] \in Loaded(b[1], upto) /\ IsMissing(b[1], b[2])}
  BY DEF Fetch
<1>2. ASSUME NEW b \in missing'
      PROVE  b \in Bars /\ b[2] < connected /\ cursor[b[1]] < b[2]
  <2>1. b \in Bars /\ IsMissing(b[1], b[2])
    BY <1>1, <1>2
  <2>2. b[2] \in 0..(Minutes - 1) /\ b[1] \in Symbols
    BY <2>1, BarParts
  <2>3. QED
    BY <1>0, <2>1, <2>2 DEF IsMissing
<1>3. ASSUME ~capped', NEW b \in Bars, b[2] < made[b[1]], b[2] < connected, started <= b[2], cursor[b[1]] < b[2]
      PROVE  b \in missing'
  <2>1. b[2] \in Int /\ b[2] >= 0 /\ b[1] \in Symbols
    BY BarParts, <1>0
  <2>2. Asked \in Int /\ Asked >= connected - started + Slack
    BY <1>0 DEF Asked
  <2>3. ~(Asked > MaxBars)
    BY <1>3 DEF Fetch
  <2>4. Limit \in Int /\ Limit >= connected - started + Slack
    BY <1>0, <2>2, <2>3 DEF Limit
  <2>5. b[2] <= upto /\ b[2] > upto - Limit
    BY <1>0, <1>1, <1>3, <2>1, <2>4
  <2>6. b[2] \in Loaded(b[1], upto)
    BY <1>0, <1>3, <2>1, <2>5 DEF Loaded
  <2>7. IsMissing(b[1], b[2])
    BY <1>3 DEF IsMissing
  <2>8. QED
    BY <1>1, <2>6, <2>7
<1>4. QED
  BY <1>2, <1>3

\* A release publishes one bar, the first of its symbol that is left.
LEMMA ReleaseFacts ==
  ASSUME TypeOK, Control, ArrivalOrder, GateOrder, ReleaseMissing \/ ReleaseHeld
  PROVE  /\ phase = "finishing"
         /\ UNCHANGED <<provider, wire, socket, phase, recovering, buffer, session, missing, owed, excused, late, capped>>
         /\ \E b \in Bars : /\ Published(b) /\ b \in ToRelease /\ ToRelease' = ToRelease \ {b}
                            /\ rest \subseteq rest' \cup {b}
                            /\ b \in missing \/ b \in Elements(buffer)
                            /\ ~capped => \A c \in ToRelease' : c[1] = b[1] => b[2] < c[2]
<1>0. /\ phase = "finishing"
      /\ UNCHANGED <<provider, wire, socket, phase, recovering, buffer, session, missing, owed, excused, late, capped>>
  BY DEF ReleaseMissing, ReleaseHeld
<1>1. ~capped => \A c \in Elements(buffer), b \in missing : c[1] = b[1] /\ c \notin missing => b[2] < c[2]
  BY <1>0 DEF GateOrder, Arrived
<1>2. rest \subseteq missing /\ rest \subseteq Bars /\ \A i \in 1..Len(buffer) : buffer[i] \in Bars /\ buffer[i] \in Elements(buffer)
  BY BarsTyped DEF TypeOK
<1>3. TypeOK'
  BY TypesStep DEF Next, Loop
<1>4. /\ \A u : u \in ToRelease <=>
              u \in rest \/ \E i \in next..Len(buffer) : u = buffer[i] /\ u \notin missing
      /\ next..Len(buffer) \subseteq 1..Len(buffer) /\ next \in Int /\ Len(buffer) \in Nat
  BY ReleaseParts, LenProperties DEF TypeOK
<1>5. \A u : u \in ToRelease' <=>
              u \in rest' \/ \E i \in next'..Len(buffer) : u = buffer[i] /\ u \notin missing
  BY <1>0 DEF ToRelease, NotRecovered
<1>6. CASE ReleaseMissing
  <2>1. PICK b \in rest : NextMissing(b) /\ Published(b) /\ rest' = rest \ {b}
    BY <1>6 DEF ReleaseMissing
  <2>2. next' = next
    BY <1>6 DEF ReleaseMissing
  <2>3. b \in Bars /\ b \in missing /\ b \in ToRelease /\ rest \subseteq rest' \cup {b}
    BY <1>2, <1>4, <2>1
  <2>4. ToRelease' = ToRelease \ {b}
    BY <1>4, <1>5, <2>1, <2>2, <2>3
  <2>5. ASSUME ~capped, NEW c \in ToRelease', c[1] = b[1] PROVE b[2] < c[2]
    <3>1. CASE c \in rest'
      <4>1. Earlier(b, c)
        BY <2>1, <3>1 DEF NextMissing
      <4>2. ~(Rank[b[1]] < Rank[c[1]])
        BY <2>3, <2>5, BarParts, StreamAssumption
      <4>3. QED
        BY <4>1, <4>2 DEF Earlier
    <3>2. CASE c \notin rest'
      <4>1. c \in Elements(buffer) /\ c \notin missing
        BY <1>2, <1>4, <1>5, <2>2, <3>2
      <4>2. QED
        BY <1>1, <2>3, <2>5, <4>1
    <3>3. QED
      BY <3>1, <3>2
  <2>6. QED
    BY <1>0, <2>1, <2>3, <2>4, <2>5
<1>7. CASE ReleaseHeld
  <2>1. PICK i \in 1..Len(buffer) : NextHeld(i) /\ Published(buffer[i]) /\ next' = i + 1
    BY <1>7 DEF ReleaseHeld
  <2>2. /\ rest = {} /\ rest' = {} /\ i \in next..Len(buffer) /\ buffer[i] \notin missing
        /\ \A j \in next..(i - 1) : buffer[j] \in missing
    BY <1>7, <2>1 DEF ReleaseHeld, NextHeld, NotRecovered
  <2>3. buffer[i] \in Bars /\ buffer[i] \in Elements(buffer) /\ buffer[i] \in ToRelease
    BY <1>2, <1>4, <2>1, <2>2
  <2>4. \A j \in next'..Len(buffer) : j \in 1..Len(buffer) /\ i < j /\ j \in next..Len(buffer)
    BY <1>4, <2>1, <2>2
  <2>5. \A j \in next'..Len(buffer) : buffer[j][1] = buffer[i][1] => buffer[i][2] < buffer[j][2]
    BY <2>1, <2>4 DEF ArrivalOrder, InOrder
  <2>6. \A j \in next'..Len(buffer) : buffer[j] # buffer[i]
    <3> TAKE j \in next'..Len(buffer)
    <3>1. buffer[i][2] \in Int
      BY <2>3, BarParts
    <3>2. QED
      BY <2>5, <3>1
  <2>7. \A j \in next..Len(buffer) : j \in next..(i - 1) \/ j = i \/ j \in next'..Len(buffer)
    BY <1>4, <2>1
  <2>8. ToRelease' = ToRelease \ {buffer[i]}
    BY <1>4, <1>5, <2>2, <2>4, <2>6, <2>7
  <2>9. \A c \in ToRelease' : c[1] = buffer[i][1] => buffer[i][2] < c[2]
    BY <1>5, <2>2, <2>5
  <2>10. QED
    BY <1>0, <2>1, <2>2, <2>3, <2>8, <2>9
<1>8. QED
  BY <1>6, <1>7

\* What arrives in a session is after the start of its recovery.
LEMMA MadeAfterStart ==
  ASSUME TypeOK, Control, ArrivalOrder, NEW s \in Symbols
  PROVE  started <= made[s] /\ cursor[s] < made[s]
<1>1. /\ None \in Int /\ None < 0 /\ Lookback \in Nat /\ Lookback >= 1 /\ now \in Int
      /\ made[s] \in Int /\ made[s] >= 0 /\ started \in Int /\ now <= made[s] + 1 /\ cursor[s] < made[s]
  BY Times DEF TypeOK, ArrivalOrder
<1>2. started = None \/ started + Lookback <= now
  BY DEF Control
<1>3. QED
  BY <1>1, <1>2

\* Every step keeps the order of the gate.
LEMMA GateStep ==
  ASSUME TypeOK, Control, ArrivalOrder, GateOrder, [Next]_vars
  PROVE  GateOrder'
<1>0. Arrived \subseteq Bars /\ missing \subseteq Bars /\ Elements(buffer) \subseteq Arrived
  BY BarsTyped DEF TypeOK, Arrived
<1>1. ASSUME UNCHANGED <<phase, cursor, started, missing, capped, rest, next, buffer>>, Arrived' \subseteq Arrived
      PROVE  GateOrder'
  <2>1. ToRelease' = ToRelease
    BY <1>1 DEF ToRelease, NotRecovered
  <2>2. GateKeepsOrder'
    BY <1>1, <2>1 DEF GateKeepsOrder, GateOrder
  <2>3. QED
    BY <1>1, <2>2 DEF GateOrder
<1>2. ASSUME NEW s \in Symbols, MakeBar(s) PROVE GateOrder'
  <2> DEFINE c == <<s, made[s]>>
  <2>1. Arrived' \subseteq Arrived \cup {c}
    BY <1>2, MakeFacts
  <2>2. started <= made[s] /\ cursor[s] < made[s]
    BY MadeAfterStart
  <2>3. UNCHANGED <<phase, cursor, started, missing, capped, rest, next, buffer>>
    BY <1>2 DEF MakeBar, publisher, session, release, history
  <2>4. \A d \in missing : d[1] = s => d[2] < made[s]
    BY DEF ArrivalOrder
  <2>5. c[1] = s /\ c[2] = made[s]
    OBVIOUS
  <2> HIDE DEF c
  <2>6. GateKeepsOrder'
    <3>1. ToRelease' = ToRelease
      BY <2>3 DEF ToRelease, NotRecovered
    <3>2. QED
      BY <2>3, <3>1 DEF GateKeepsOrder, GateOrder
  <2>7. phase \in {"connecting", "loading", "fetched"} =>
          \A b \in Arrived' : cursor[b[1]] < b[2] /\ started <= b[2]
    BY <2>1, <2>2, <2>5 DEF GateOrder
  <2>8. phase \in {"fetched", "finishing"} /\ ~capped =>
          \A b \in Arrived', d \in missing : b[1] = d[1] => b \in missing \/ d[2] < b[2]
    BY <2>1, <2>4, <2>5 DEF GateOrder
  <2>9. QED
    BY <2>3, <2>6, <2>7, <2>8 DEF GateOrder
<1>3. CASE Begin
  <2>1. Arrived' = {}
    BY <1>3, EmptyOrdered DEF Begin, Control, Arrived
  <2>2. QED
    BY <1>3, <2>1 DEF Begin, GateOrder, GateKeepsOrder
<1>4. CASE Tick \/ Subscribed
  BY <1>1, <1>4 DEF Tick, Subscribed, Arrived, publisher, session, release, history
<1>5. CASE Connected
  <2>1. Arrived' = Arrived /\ missing = {}
    BY <1>5 DEF Connected, Control, Arrived, publisher
  <2>2. QED
    BY <1>5, <2>1 DEF Connected, GateOrder, GateKeepsOrder, publisher, history
<1>6. CASE Fetch
  <2>1. Arrived' = Arrived /\ cursor' = cursor /\ started' = started /\ phase = "loading" /\ phase' = "fetched"
    BY <1>6 DEF Fetch, Arrived, publisher, session
  <2>2. \A b \in missing' : b \in Bars /\ b[2] < connected /\ cursor[b[1]] < b[2]
    BY <1>6, FetchFinds
  <2>3. ASSUME ~capped', NEW b \in Arrived, NEW c \in missing', b[1] = c[1], ~(c[2] < b[2])
        PROVE  b \in missing'
    <3>1. cursor[b[1]] < b[2] /\ started <= b[2] /\ b[2] < made[b[1]]
      BY <2>1 DEF GateOrder, ArrivalOrder
    <3>2. b[2] \in Int /\ c[2] \in Int /\ connected \in Int
      BY <1>0, <2>2, BarParts, Times DEF TypeOK
    <3>3. b[2] < connected
      BY <2>2, <2>3, <3>2
    <3>4. QED
      BY <1>0, <1>6, <2>3, <3>1, <3>3, FetchFinds
  <2>4. phase \in {"connecting", "loading", "fetched"} => \A b \in Arrived : cursor[b[1]] < b[2] /\ started <= b[2]
    BY DEF GateOrder
  <2>5. QED
    BY <2>1, <2>2, <2>3, <2>4 DEF GateOrder, GateKeepsOrder
<1>7. CASE Release
  <2>1. /\ Arrived' = Arrived /\ cursor' = cursor /\ phase = "fetched" /\ phase' = "finishing"
        /\ missing' = missing /\ capped' = capped /\ rest' = missing /\ buffer' = buffer
    BY <1>7 DEF Release, Arrived, publisher
  <2>2. TypeOK'
    BY <1>7, TypesStep DEF Next, Loop
  <2>3. ToRelease' \subseteq missing \cup Elements(buffer)
    <3>1. next'..Len(buffer') \subseteq 1..Len(buffer')
      BY <2>2, LenProperties DEF TypeOK
    <3>2. QED
      BY <2>1, <3>1 DEF ToRelease, Elements
  <2>4. \A b \in missing \cup Arrived : cursor[b[1]] < b[2]
    BY <2>1 DEF GateOrder
  <2>5. GateKeepsOrder'
    BY <1>0, <2>1, <2>3, <2>4 DEF GateKeepsOrder
  <2>6. QED
    BY <2>1, <2>5 DEF GateOrder
<1>8. CASE ReleaseMissing \/ ReleaseHeld
  <2>1. /\ phase = "finishing"
        /\ UNCHANGED <<provider, wire, socket, phase, recovering, buffer, session, missing, owed, excused, late, capped>>
    BY <1>8, ReleaseFacts
  <2>2. PICK b \in Bars : /\ Published(b) /\ b \in ToRelease /\ ToRelease' = ToRelease \ {b}
                          /\ ~capped => \A c \in ToRelease' : c[1] = b[1] => b[2] < c[2]
    BY <1>8, ReleaseFacts
  <2>3. /\ \A s \in Symbols : s # b[1] => cursor'[s] = cursor[s]
        /\ cursor'[b[1]] \in {cursor[b[1]], b[2]}
    BY <2>2, PublishedFacts
  <2>4. ASSUME ~capped, NEW c \in ToRelease' PROVE cursor'[c[1]] < c[2]
    <3>1. cursor[c[1]] < c[2] /\ c[1] \in Symbols
      BY <2>1, <2>2, <2>4, BarsTyped, BarParts DEF GateOrder, GateKeepsOrder
    <3>2. QED
      BY <2>2, <2>3, <2>4, <3>1
  <2>5. GateKeepsOrder'
    BY <2>1, <2>4 DEF GateKeepsOrder
  <2>6. Arrived' = Arrived
    BY <2>1 DEF Arrived
  <2>7. QED
    BY <2>1, <2>5, <2>6 DEF GateOrder
<1>9. CASE Released
  BY <1>9 DEF Released, GateOrder, GateKeepsOrder
<1>10. CASE HoldBar
  <2>1. Arrived' = Arrived /\ phase # "finishing"
    BY <1>10, HoldFacts
  <2>2. UNCHANGED <<phase, cursor, started, missing, capped>>
    BY <1>10 DEF HoldBar, session, history
  <2>3. QED
    BY <2>1, <2>2 DEF GateOrder, GateKeepsOrder
<1>11. CASE PublishLive
  BY <1>11, LiveFacts DEF GateOrder, GateKeepsOrder
<1>12. CASE Abandons
  BY <1>12, AbandonFacts DEF GiveUp, GateOrder, GateKeepsOrder
<1>13. CASE LosesSocket
  <2>1. /\ wire' = <<>> /\ NothingSure
        /\ UNCHANGED <<provider, phase, recovering, buffer, session, missing, release, owed, late, capped>>
    BY <1>13, LossFacts
  <2>2. Arrived' \subseteq Arrived
    BY <2>1, EmptyOrdered DEF Arrived
  <2>3. QED
    BY <1>1, <2>1, <2>2 DEF NothingSure, session, release
<1>14. CASE UNCHANGED vars
  BY <1>1, <1>14 DEF vars, Arrived, publisher, session, release, history
<1>15. QED
  BY <1>2, <1>3, <1>4, <1>5, <1>6, <1>7, <1>8, <1>9, <1>10, <1>11, <1>12, <1>13, <1>14, StepCases

-----------------------------------------------------------------------------
(* Repetitions.                                                            *)

\* A bar that was read back leaves the release only for the bus.
LEMMA RestStep ==
  ASSUME TypeOK, Control, ArrivalOrder, GateOrder, RestControl, [Next]_vars
  PROVE  RestControl'
<1>1. CASE ReleaseMissing \/ ReleaseHeld
  <2>1. UNCHANGED <<phase, missing>>
    BY <1>1, ReleaseFacts
  <2>2. PICK b \in Bars : Published(b) /\ rest \subseteq rest' \cup {b}
    BY <1>1, ReleaseFacts
  <2>3. published' = published \cup {b}
    BY <2>2 DEF Published
  <2>4. QED
    BY <2>1, <2>2, <2>3 DEF RestControl
<1>2. CASE LosesSocket
  BY <1>2, LossFacts DEF RestControl, NothingSure, release
<1>3. CASE Abandons
  BY <1>3, AbandonFacts DEF RestControl, GiveUp
<1>4. ASSUME NEW s \in Symbols, MakeBar(s) PROVE RestControl'
  BY <1>4 DEF RestControl, MakeBar, release
<1>5. CASE Tick \/ Begin \/ Subscribed \/ Connected \/ Fetch \/ Release \/ Released \/ UNCHANGED vars
  BY <1>5 DEF RestControl, Tick, Begin, Subscribed, Connected, Fetch, Release, Released, release, vars
<1>6. CASE HoldBar \/ PublishLive
  BY <1>6 DEF RestControl, HoldBar, PublishLive, Reading, release
<1>7. QED
  BY <1>1, <1>2, <1>3, <1>4, <1>5, <1>6, StepCases

\* Every step keeps the account of repetitions.
LEMMA RepeatStep ==
  ASSUME TypeOK, Control, ArrivalOrder, GateOrder, RepeatControl, [Next]_vars
  PROVE  RepeatControl'
<1>0. /\ Elements(wire) \subseteq Bars /\ ToRelease \subseteq Bars /\ missing \subseteq Bars
      /\ published \subseteq Bars /\ \A s \in Symbols : cursor[s] \in Int
  BY BarsTyped, Times DEF TypeOK
<1>1. ASSUME NothingSure, Elements(wire') \subseteq Elements(wire),
             phase' # "finishing" \/ UNCHANGED <<phase, missing, rest, next, buffer>>
      PROVE  RepeatControl'
  <2>1. /\ published' \subseteq published \cup excused' /\ excused \subseteq excused'
        /\ repeated' \subseteq repeated \cup excused' /\ cursor' = cursor
    BY <1>1 DEF NothingSure
  <2>2. phase' = "finishing" => ToRelease' = ToRelease /\ phase = "finishing" /\ missing' = missing
    BY <1>1 DEF ToRelease, NotRecovered
  <2>3. RepeatsExplained' /\ \A b \in published' : b \in excused' \/ b[2] <= cursor'[b[1]]
    BY <2>1 DEF RepeatControl, RepeatsExplained
  <2>4. Elements(wire') \cap published' \subseteq excused'
    BY <1>1, <2>1 DEF RepeatControl
  <2>5. phase' = "finishing" => ToRelease' \cap published' \subseteq excused' /\ Elements(wire') \cap missing' \subseteq excused'
    BY <1>1, <2>1, <2>2 DEF RepeatControl
  <2>6. QED
    BY <2>3, <2>4, <2>5 DEF RepeatControl
<1>2. ASSUME NEW s \in Symbols, MakeBar(s) PROVE RepeatControl'
  <2> DEFINE c == <<s, made[s]>>
  <2>1. Elements(wire') \subseteq Elements(wire) \cup {c}
    BY <1>2, MakeFacts
  <2>2. c \notin published /\ c \notin missing
    <3>1. \A b \in published \cup missing : b[2] < made[b[1]]
      BY DEF ArrivalOrder
    <3>2. made[s] \in Int /\ c[1] = s /\ c[2] = made[s]
      BY DEF TypeOK
    <3>3. QED
      BY <3>1, <3>2
  <2> HIDE DEF c
  <2>3. UNCHANGED <<phase, cursor, missing, rest, next, buffer, published, repeated, excused>>
    BY <1>2 DEF MakeBar, publisher, release, history
  <2>4. ToRelease' = ToRelease
    BY <2>3 DEF ToRelease, NotRecovered
  <2>5. QED
    BY <2>1, <2>2, <2>3, <2>4 DEF RepeatControl, RepeatsExplained
<1>3. CASE Tick \/ Begin \/ Subscribed \/ Connected \/ Fetch \/ Released \/ UNCHANGED vars
  <2>1. UNCHANGED <<published, repeated, excused, cursor, wire>>
    BY <1>3 DEF Tick, Begin, Subscribed, Connected, Fetch, Released, publisher, history, vars
  <2>2. phase' # "finishing" \/ UNCHANGED <<phase, missing, rest, next, buffer>>
    <3>1. CASE Tick \/ UNCHANGED vars
      BY <3>1 DEF Tick, publisher, release, vars
    <3>2. CASE Begin \/ Connected \/ Fetch \/ Released
      BY <3>2 DEF Begin, Connected, Fetch, Released
    <3>3. CASE Subscribed
      BY <3>3 DEF Subscribed, Control
    <3>4. QED
      BY <1>3, <3>1, <3>2, <3>3
  <2>3. QED
    BY <1>1, <2>1, <2>2, IdleIsUnsure
<1>4. CASE Release
  <2>1. /\ cursor' = cursor /\ phase = "fetched" /\ phase' = "finishing" /\ missing' = missing
        /\ rest' = missing /\ buffer' = buffer /\ wire' = wire /\ published' = published
        /\ repeated' = repeated /\ excused' = excused \cup (Elements(wire) \cap missing)
    BY <1>4 DEF Release, publisher
  <2>2. TypeOK'
    BY <1>4, TypesStep DEF Next, Loop
  <2>3. ToRelease' \subseteq missing \cup Elements(buffer)
    <3>1. next'..Len(buffer') \subseteq 1..Len(buffer')
      BY <2>2, LenProperties DEF TypeOK
    <3>2. QED
      BY <2>1, <3>1 DEF ToRelease, Elements
  <2>4. \A b \in missing \cup Elements(buffer) : cursor[b[1]] < b[2]
    BY <2>1 DEF GateOrder, Arrived
  <2>5. (missing \cup Elements(buffer)) \cap published \subseteq excused
    <3> SUFFICES ASSUME NEW b \in published, b \in missing \cup Elements(buffer) PROVE b \in excused
      OBVIOUS
    <3>1. b[1] \in Symbols /\ b[2] \in Int
      BY <1>0, BarParts
    <3>2. cursor[b[1]] \in Int /\ cursor[b[1]] < b[2]
      BY <1>0, <2>4, <3>1
    <3>3. QED
      BY <3>1, <3>2 DEF RepeatControl
  <2>6. ToRelease' \cap published' \subseteq excused'
    BY <2>1, <2>3, <2>5
  <2>7. QED
    BY <2>1, <2>6 DEF RepeatControl, RepeatsExplained
<1>5. ASSUME NEW b \in Bars, Published(b), excused' = excused, b \in published => b \in excused,
             b \in Elements(wire') => b \in excused, Elements(wire') \subseteq Elements(wire),
             phase' = "finishing" => /\ phase = "finishing" /\ missing' = missing
                                     /\ ToRelease' \subseteq ToRelease /\ b \notin ToRelease'
      PROVE  RepeatControl'
  <2>1. /\ published' = published \cup {b} /\ repeated' = repeated \cup (published \cap {b})
        /\ \A s \in Symbols : s # b[1] => cursor'[s] = cursor[s]
        /\ cursor'[b[1]] >= b[2] /\ cursor'[b[1]] >= cursor[b[1]] /\ cursor'[b[1]] \in {cursor[b[1]], b[2]}
    BY <1>5, PublishedFacts
  <2>2. \A c \in published' : c \in excused' \/ c[2] <= cursor'[c[1]]
    <3> TAKE c \in published'
    <3>1. c \in Bars /\ c[1] \in Symbols /\ c[2] \in Int /\ b[2] \in Int
      BY <1>0, <2>1, BarParts
    <3>2. cursor[c[1]] \in Int /\ cursor'[c[1]] \in Int /\ cursor'[c[1]] >= cursor[c[1]]
      BY <1>0, <2>1, <3>1
    <3>3. CASE c = b
      BY <2>1, <3>1, <3>2, <3>3
    <3>4. CASE c \in published
      BY <1>5, <3>1, <3>2, <3>4 DEF RepeatControl
    <3>5. QED
      BY <2>1, <3>3, <3>4
  <2>3. RepeatsExplained'
    BY <1>5, <2>1 DEF RepeatControl, RepeatsExplained
  <2>4. Elements(wire') \cap published' \subseteq excused'
    BY <1>5, <2>1 DEF RepeatControl
  <2>5. phase' = "finishing" => ToRelease' \cap published' \subseteq excused' /\ Elements(wire') \cap missing' \subseteq excused'
    BY <1>5, <2>1 DEF RepeatControl
  <2>6. QED
    BY <2>2, <2>3, <2>4, <2>5 DEF RepeatControl
<1>6. CASE ReleaseMissing \/ ReleaseHeld
  <2>1. /\ phase = "finishing"
        /\ UNCHANGED <<provider, wire, socket, phase, recovering, buffer, session, missing, owed, excused, late, capped>>
    BY <1>6, ReleaseFacts
  <2>2. PICK b \in Bars : /\ Published(b) /\ b \in ToRelease /\ ToRelease' = ToRelease \ {b}
                          /\ b \in missing \/ b \in Elements(buffer)
    BY <1>6, ReleaseFacts
  <2>3. b \in published => b \in excused
    BY <2>1, <2>2 DEF RepeatControl
  <2>4. b \in Elements(wire) => b \in excused
    <3>1. b[2] \in Int
      BY BarParts
    <3>2. b \in Elements(buffer) => b \notin Elements(wire)
      BY <3>1 DEF ArrivalOrder
    <3>3. QED
      BY <2>1, <2>2, <3>2 DEF RepeatControl
  <2>5. QED
    BY <1>5, <2>1, <2>2, <2>3, <2>4
<1>7. CASE PublishLive
  <2>1. phase' = "live" /\ excused' = excused
    BY <1>7, LiveFacts DEF PublishLive
  <2>2. PICK b \in Bars : /\ Published(b) /\ b \in Elements(wire)
                          /\ Elements(wire) = {b} \cup Elements(wire')
                          /\ \A c \in Elements(wire') : c[1] = b[1] => b[2] < c[2]
    BY <1>7, LiveFacts
  <2>3. b \notin Elements(wire')
    BY <2>2, BarParts
  <2>4. b \in published => b \in excused
    BY <2>2 DEF RepeatControl
  <2>5. QED
    BY <1>5, <2>1, <2>2, <2>3, <2>4
<1>8. CASE HoldBar
  <2>1. UNCHANGED <<published, repeated, excused, cursor, phase>>
    BY <1>8 DEF HoldBar, history
  <2>2. QED
    BY <1>1, <1>8, <2>1, HoldFacts, IdleIsUnsure
<1>9. CASE Abandons
  BY <1>1, <1>9, AbandonFacts, EmptyOrdered DEF GiveUp
<1>10. CASE LosesSocket
  BY <1>1, <1>10, LossFacts, EmptyOrdered DEF release
<1>11. QED
  BY <1>2, <1>3, <1>4, <1>6, <1>7, <1>8, <1>9, <1>10, StepCases

-----------------------------------------------------------------------------
(* Gaps.                                                                   *)

\* A bar of the wire that is not released yet is newer than what is to be released.
LEMMA WireAfterRelease ==
  ASSUME TypeOK, ArrivalOrder, GateOrder, RestControl, phase = "finishing", ~capped,
         NEW u \in Elements(wire), u \notin ToRelease, u \notin published,
         NEW b \in ToRelease, b[1] = u[1]
  PROVE  b[2] < u[2]
<1>1. u \notin missing
  BY DEF RestControl, ToRelease
<1>2. b \in missing \/ b \in Elements(buffer)
  BY ReleaseParts
<1>3. QED
  BY <1>1, <1>2 DEF GateOrder, ArrivalOrder, Arrived

\* Only the provider and the first release change what the ingress owes the bus.
LEMMA UnpublishedStep ==
  ASSUME TypeOK, Control, ArrivalOrder, GateOrder, [Next]_vars
  PROVE  /\ made' = made /\ owed' = owed => Unpublished' \subseteq Unpublished
         /\ \A s \in Symbols : MakeBar(s) => Unpublished' \subseteq Unpublished \cup {<<s, made[s]>>}
         /\ ~ready => Unpublished = {}
         /\ Unpublished \subseteq Bars /\ \A u \in Unpublished : u \notin published /\ u[2] < made[u[1]]
<1>1. published \subseteq published'
  <2>1. CASE Abandons \/ LosesSocket
    BY <2>1, AbandonFacts, LossFacts DEF NothingSure
  <2>2. CASE ReleaseMissing \/ ReleaseHeld \/ PublishLive
    BY <2>2 DEF ReleaseMissing, ReleaseHeld, PublishLive, Published
  <2>3. CASE ~(Abandons \/ LosesSocket \/ ReleaseMissing \/ ReleaseHeld \/ PublishLive)
    BY <2>3, StepCases DEF Tick, MakeBar, Begin, Subscribed, Connected, Fetch, Release, Released, HoldBar, vars
  <2>4. QED
    BY <2>1, <2>2, <2>3
<1>2. ASSUME NEW s \in Symbols, MakeBar(s) PROVE Unpublished' \subseteq Unpublished \cup {<<s, made[s]>>}
  <2>1. owed' = owed /\ published' = published
    BY <1>2 DEF MakeBar, history
  <2>2. QED
    BY <1>2, <2>1, MakeFacts DEF Unpublished
<1>3. ASSUME ~ready PROVE Unpublished = {}
  <2> SUFFICES ASSUME NEW u \in Unpublished PROVE FALSE
    OBVIOUS
  <2>1. u[1] \in Symbols /\ u[2] \in 0..(Minutes - 1) /\ Minutes \in Nat
    BY BarParts, Times DEF Unpublished
  <2>2. owed[u[1]] = Minutes /\ owed[u[1]] <= u[2]
    BY <1>3, <2>1 DEF Control, Unpublished
  <2>3. QED
    BY <2>1, <2>2
<1>4. QED
  BY <1>1, <1>2, <1>3 DEF Unpublished

\* Every step keeps account of the unpublished bars.
LEMMA GapStep ==
  ASSUME TypeOK, Control, ArrivalOrder, GateOrder, RestControl, GapControl, [Next]_vars
  PROVE  GapControl'
<1>0. /\ Unpublished \subseteq Bars /\ Arrived \subseteq Bars /\ missing \subseteq Bars /\ ToRelease \subseteq Bars
      /\ \A u \in Unpublished : u \notin published /\ u[2] < made[u[1]]
      /\ None \in Int /\ None < 0 /\ now \in Int /\ \A s \in Symbols : made[s] \in Int /\ cursor[s] \in Int
  BY BarsTyped, UnpublishedStep, Times DEF TypeOK
<1>1. (~late' /\ ~capped') => ~late /\ ~capped
  <2>1. CASE Abandons \/ LosesSocket
    BY <2>1, AbandonFacts, LossFacts DEF GiveUp
  <2>2. CASE ~(Abandons \/ LosesSocket)
    BY <2>2, StepCases DEF Tick, MakeBar, Begin, Subscribed, Connected, Fetch, Release, ReleaseMissing,
                           ReleaseHeld, Released, HoldBar, PublishLive, history, vars
  <2>3. QED
    BY <2>1, <2>2
<1> SUFFICES ASSUME ~late', ~capped', ~late, ~capped, NEW u \in Unpublished' PROVE OnItsWay(u)'
  BY <1>1 DEF GapControl
<1>2. u \in Unpublished => OnItsWay(u)
  BY DEF GapControl
<1>3. u \in Bars /\ u[1] \in Symbols /\ u[2] \in Int /\ u[2] >= 0 /\ u \notin published'
  BY BarParts, Times DEF Unpublished
<1>a. made' = made /\ owed' = owed => u \in Unpublished
  BY UnpublishedStep
<1>4. ASSUME NEW s \in Symbols, MakeBar(s) PROVE OnItsWay(u)'
  <2> DEFINE c == <<s, made[s]>>
             new == IF socket = "open" THEN {c} ELSE {}
  <2>1. /\ Elements(wire') = Elements(wire) \cup new /\ Arrived' = Arrived \cup new /\ c[1] = s /\ c[2] = made[s]
    BY <1>4, MakeFacts
  <2>2. UNCHANGED <<phase, socket, cursor, started, connected, missing, rest, next, buffer>>
    BY <1>4 DEF MakeBar, publisher, session, release
  <2>3. ToRelease' = ToRelease
    BY <2>2 DEF ToRelease, NotRecovered
  <2>4. u \in Unpublished \/ u = c
    BY <1>4, UnpublishedStep
  <2>5. started <= made[s] /\ cursor[s] < made[s]
    BY MadeAfterStart
  <2>6. \A b \in Arrived \cup missing \cup ToRelease : b[1] = s => b[2] < made[s]
    <3>1. ToRelease \subseteq missing \cup Arrived
      BY ReleaseParts DEF Arrived
    <3>2. QED
      BY <3>1 DEF ArrivalOrder
  <2>7. socket = "open" => new = {c}
    OBVIOUS
  <2>8. socket # "open" => new = {}
    OBVIOUS
  <2> HIDE DEF c, new
  <2>9. CASE u = c
    BY <2>1, <2>2, <2>3, <2>5, <2>6, <2>7, <2>8, <2>9 DEF OnItsWay, Accounted, Arrived
  <2>10. CASE u \in Unpublished
    BY <1>2, <2>1, <2>2, <2>3, <2>8, <2>10 DEF OnItsWay, Accounted
  <2>11. QED
    BY <2>4, <2>9, <2>10
<1>5. CASE Tick \/ Subscribed \/ UNCHANGED vars
  <2>1. UNCHANGED <<phase, cursor, started, connected, missing, rest, next, buffer, wire>>
    BY <1>5 DEF Tick, Subscribed, publisher, session, release, vars
  <2>2. socket' = socket \/ phase = "connecting"
    BY <1>5 DEF Tick, Subscribed, Control, vars
  <2>3. Arrived' = Arrived /\ ToRelease' = ToRelease
    BY <2>1 DEF Arrived, ToRelease, NotRecovered
  <2>4. u \in Unpublished
    BY <1>5, <1>a DEF Tick, Subscribed, vars, provider, history
  <2>5. QED
    BY <1>2, <2>1, <2>2, <2>3, <2>4 DEF OnItsWay, Accounted
<1>6. CASE Begin
  BY <1>2, <1>6, <1>a DEF Begin, OnItsWay, provider, session, history
<1>7. CASE Connected
  <2>1. u \in Unpublished /\ cursor' = cursor /\ started' = started /\ connected' = now
    BY <1>7, <1>a DEF Connected, provider, publisher, history
  <2>2. ready
    BY <2>1, UnpublishedStep
  <2>3. phase' = "loading"
    BY <1>7, <2>2 DEF Connected, Control
  <2>4. u[2] < now
    <3>1. u[2] < made[u[1]] /\ made[u[1]] <= now /\ made[u[1]] \in Int
      BY <1>0, <1>3, <2>1 DEF TypeOK
    <3>2. QED
      BY <1>0, <1>3, <3>1
  <2>5. ~(connected' <= u[2])
    BY <1>0, <1>3, <2>1, <2>4
  <2>6. QED
    BY <1>2, <2>1, <2>3, <2>5 DEF OnItsWay
<1>8. CASE Fetch
  <2>1. /\ u \in Unpublished /\ UNCHANGED <<cursor, started, socket, wire, buffer>>
        /\ phase = "loading" /\ phase' = "fetched" /\ connected \in Int
    BY <1>0, <1>8, <1>a DEF Fetch, provider, publisher, session, TypeOK
  <2>2. Arrived' = Arrived
    BY <2>1 DEF Arrived
  <2>3. u[2] < made[u[1]] /\ cursor[u[1]] < u[2] /\ started <= u[2]
    BY <1>0, <1>2, <2>1 DEF OnItsWay
  <2>4. CASE u[2] < connected
    <3>1. u \in missing'
      BY <1>3, <1>8, <2>3, <2>4, FetchFinds
    <3>2. QED
      BY <2>1, <2>3, <3>1 DEF OnItsWay, Accounted
  <2>5. CASE ~(u[2] < connected)
    <3>1. connected <= u[2]
      BY <1>3, <2>1, <2>5
    <3>2. Accounted(u, Arrived)
      BY <1>2, <2>1, <3>1 DEF OnItsWay
    <3>3. \A b \in missing' : b[2] < u[2]
      <4> TAKE b \in missing'
      <4>1. b[2] < connected /\ b[2] \in Int
        BY <1>8, FetchFinds, BarParts
      <4>2. QED
        BY <1>3, <2>1, <3>1, <4>1
    <3>4. Accounted(u, missing \cup Arrived)'
      BY <2>1, <2>2, <3>2, <3>3 DEF Accounted
    <3>5. QED
      BY <2>1, <2>3, <3>4 DEF OnItsWay
  <2>6. QED
    BY <2>4, <2>5
<1>9. CASE Release
  <2>1. /\ u \in Unpublished /\ UNCHANGED <<cursor, started, socket, wire, buffer, missing>>
        /\ phase = "fetched" /\ phase' = "finishing" /\ rest' = missing /\ next' = 1
    BY <1>9, <1>a DEF Release, provider, publisher, session, Control
  <2>2. ToRelease' = missing \cup Elements(buffer)
    BY <2>1 DEF ToRelease, NotRecovered, Elements
  <2>3. (ToRelease \cup Elements(wire))' = missing \cup Arrived
    BY <2>1, <2>2 DEF Arrived
  <2>4. QED
    BY <1>2, <2>1, <2>3 DEF OnItsWay, Accounted
<1>10. CASE ReleaseMissing \/ ReleaseHeld
  <2>1. /\ phase = "finishing"
        /\ UNCHANGED <<provider, wire, socket, phase, recovering, buffer, session, missing, owed, excused, late, capped>>
    BY <1>10, ReleaseFacts
  <2>2. PICK b \in Bars : /\ Published(b) /\ b \in ToRelease /\ ToRelease' = ToRelease \ {b}
                          /\ \A c \in ToRelease' : c[1] = b[1] => b[2] < c[2]
    BY <1>10, ReleaseFacts
  <2>3. u \in Unpublished /\ u # b
    BY <1>3, <1>a, <2>1, <2>2 DEF provider, Published
  <2>4. /\ cursor[u[1]] < u[2] /\ started <= u[2] /\ started' = started
        /\ Accounted(u, ToRelease \cup Elements(wire))
    BY <1>2, <2>1, <2>3 DEF OnItsWay, session
  <2>5. b[1] = u[1] => b[2] < u[2]
    <3> HAVE b[1] = u[1]
    <3>1. CASE u \in ToRelease
      BY <2>2, <2>3, <3>1
    <3>2. CASE u \in Elements(wire) /\ u \notin ToRelease
      BY <1>0, <2>1, <2>2, <2>3, <3>2, WireAfterRelease
    <3>3. CASE u \notin ToRelease \cup Elements(wire)
      BY <2>2, <2>4, <3>3 DEF Accounted
    <3>4. QED
      BY <3>1, <3>2, <3>3
  <2>6. cursor'[u[1]] < u[2]
    <3>1. /\ \A s \in Symbols : s # b[1] => cursor'[s] = cursor[s]
          /\ cursor'[b[1]] \in {cursor[b[1]], b[2]}
      BY <2>2, PublishedFacts
    <3>2. QED
      BY <1>3, <2>4, <2>5, <3>1
  <2>7. Accounted(u, ToRelease \cup Elements(wire))'
    BY <2>1, <2>2, <2>3, <2>4 DEF Accounted
  <2>8. QED
    BY <2>1, <2>4, <2>6, <2>7 DEF OnItsWay
<1>11. CASE Released
  <2>1. /\ UNCHANGED <<made, published, cursor, socket, wire>> /\ phase = "finishing" /\ phase' = "live"
        /\ started' = None /\ ToRelease = {} /\ owed' = IF ready THEN owed ELSE made
    BY <1>11 DEF Released, provider
  <2>2. ready
    <3> SUFFICES ASSUME ~ready PROVE FALSE
      OBVIOUS
    <3>1. made[u[1]] <= u[2] /\ u[2] < made[u[1]]
      BY <2>1 DEF Unpublished
    <3>2. QED
      BY <1>0, <1>3, <3>1
  <2>3. u \in Unpublished
    BY <1>a, <2>1, <2>2
  <2>4. cursor[u[1]] < u[2] /\ Accounted(u, Elements(wire))
    BY <1>2, <2>1, <2>3 DEF OnItsWay
  <2>5. None <= u[2]
    BY <1>0, <1>3
  <2>6. QED
    BY <2>1, <2>4, <2>5 DEF OnItsWay, Accounted
<1>12. CASE HoldBar
  <2>1. /\ u \in Unpublished /\ UNCHANGED <<cursor, started, connected, socket, missing, phase>>
        /\ phase \notin {"finishing", "live"}
    BY <1>12, <1>a DEF HoldBar, Reading, provider, session, history, Control
  <2>2. Arrived' = Arrived
    BY <1>12, HoldFacts
  <2>3. QED
    BY <1>2, <2>1, <2>2 DEF OnItsWay, Accounted
<1>13. CASE PublishLive
  <2>1. /\ phase = "live" /\ phase' = "live" /\ socket' = socket /\ started' = started
        /\ made' = made /\ owed' = owed
    BY <1>13, LiveFacts DEF PublishLive, session, provider
  <2>2. PICK b \in Bars : /\ Published(b) /\ b \in Elements(wire)
                          /\ Elements(wire) = {b} \cup Elements(wire')
                          /\ \A c \in Elements(wire') : c[1] = b[1] => b[2] < c[2]
    BY <1>13, LiveFacts
  <2>3. u \in Unpublished /\ u # b
    BY <1>3, <1>a, <2>1, <2>2 DEF Published
  <2>4. cursor[u[1]] < u[2] /\ started <= u[2] /\ Accounted(u, Elements(wire))
    BY <1>2, <2>1, <2>3 DEF OnItsWay
  <2>5. b[1] = u[1] => b[2] < u[2]
    BY <2>2, <2>3, <2>4 DEF Accounted
  <2>6. cursor'[u[1]] < u[2]
    <3>1. /\ \A s \in Symbols : s # b[1] => cursor'[s] = cursor[s]
          /\ cursor'[b[1]] \in {cursor[b[1]], b[2]}
      BY <2>2, PublishedFacts
    <3>2. QED
      BY <1>3, <2>4, <2>5, <3>1
  <2>7. Accounted(u, Elements(wire))'
    BY <2>1, <2>2, <2>3, <2>4 DEF Accounted
  <2>8. QED
    BY <2>1, <2>4, <2>6, <2>7 DEF OnItsWay
<1>14. CASE Abandons
  <2>1. GiveUp /\ cursor' = cursor
    BY <1>14, AbandonFacts DEF NothingSure
  <2>2. u \in Unpublished /\ phase' = "down" /\ started' = RecoverFrom
    BY <1>a, <2>1 DEF GiveUp, provider
  <2>3. cursor[u[1]] < u[2] /\ started <= u[2]
    BY <1>2, <2>2 DEF OnItsWay
  <2>4. started' <= u[2]
    <3>1. CASE ready /\ started = None
      <4>1. ~(u[2] < now - Lookback)
        BY <2>1, <2>2, <3>1 DEF GiveUp
      <4>2. QED
        BY <1>0, <1>3, <2>2, <3>1, <4>1, Times DEF RecoverFrom
    <3>2. CASE ~(ready /\ started = None)
      BY <2>2, <2>3, <3>2 DEF RecoverFrom
    <3>3. QED
      BY <3>1, <3>2
  <2>5. QED
    BY <2>1, <2>2, <2>3, <2>4 DEF OnItsWay
<1>15. CASE LosesSocket
  <2>1. /\ socket' = "dead" /\ wire' = <<>> /\ cursor' = cursor
        /\ UNCHANGED <<provider, phase, recovering, buffer, session, missing, release, owed, late, capped>>
    BY <1>15, LossFacts DEF NothingSure
  <2>2. /\ UNCHANGED <<made, owed, phase, buffer, started, connected, missing, rest, next>>
        /\ u \in Unpublished /\ Elements(wire') = {} /\ socket' # "open"
    BY <1>a, <2>1, EmptyOrdered DEF provider, session, release
  <2>3. ToRelease' = ToRelease /\ Arrived' = Elements(buffer)
    BY <2>2 DEF ToRelease, NotRecovered, Arrived
  <2>4. u \in Elements(wire) => \A b \in Elements(buffer) : b[1] = u[1] => b[2] < u[2]
    BY DEF ArrivalOrder
  <2>5. phase = "fetched" /\ u \in Elements(wire) /\ u \notin missing => \A b \in missing : b[1] = u[1] => b[2] < u[2]
    BY DEF GateOrder, Arrived
  <2>6. phase = "finishing" /\ u \in Elements(wire) /\ u \notin ToRelease =>
          \A b \in ToRelease : b[1] = u[1] => b[2] < u[2]
    BY <1>0, <2>2, WireAfterRelease
  <2>7. /\ cursor[u[1]] < u[2] /\ started <= u[2]
        /\ phase = "loading" /\ connected <= u[2] => Accounted(u, Arrived)
        /\ phase = "fetched" => Accounted(u, missing \cup Arrived)
        /\ phase = "finishing" => Accounted(u, ToRelease \cup Elements(wire))
    BY <1>2, <2>2 DEF OnItsWay
  <2>8. phase = "loading" /\ connected <= u[2] => Accounted(u, Arrived)'
    BY <2>2, <2>3, <2>4, <2>7 DEF Accounted, Arrived
  <2>9. phase = "fetched" => Accounted(u, missing \cup Arrived)'
    BY <2>2, <2>3, <2>4, <2>5, <2>7 DEF Accounted, Arrived
  <2>10. phase = "finishing" => Accounted(u, ToRelease \cup Elements(wire))'
    BY <2>2, <2>3, <2>6, <2>7 DEF Accounted
  <2>11. Accounted(u, Elements(wire))'
    BY <2>2 DEF Accounted
  <2>12. QED
    BY <2>1, <2>2, <2>7, <2>8, <2>9, <2>10, <2>11 DEF OnItsWay
<1>16. QED
  BY <1>4, <1>5, <1>6, <1>7, <1>8, <1>9, <1>10, <1>11, <1>12, <1>13, <1>14, <1>15, StepCases

-----------------------------------------------------------------------------
(* The theorems.                                                           *)

\* The ingress starts with nothing to account for.
LEMMA StreamInit == Init => StreamInv
<1> SUFFICES ASSUME Init PROVE StreamInv
  OBVIOUS
<1>0. /\ None \in Int /\ None < 0 /\ Minutes \in Nat /\ None < -Lookback /\ Lookback \in Nat
      /\ MaxFaults \in Nat /\ Capacity \in Nat
  BY Times, StreamAssumption
<1>1. Arrived = {} /\ missing = {} /\ published = {} /\ buffer = <<>> /\ wire = <<>>
  BY EmptyOrdered DEF Init, Arrived
<1>2. TypeOK
  <2>1. made \in [Symbols -> 0..Minutes] /\ (\A s \in Symbols : made[s] <= now) /\ now \in 0..Minutes
    BY <1>0 DEF Init
  <2>2. /\ cursor \in [Symbols -> {None} \cup (0..(Minutes - 1))] /\ owed \in [Symbols -> 0..Minutes]
        /\ faults \in 0..MaxFaults
    BY <1>0 DEF Init
  <2>3. Len(buffer) = 0 /\ next = 1
    BY DEF Init
  <2>4. wire \in Seq(Bars) /\ buffer \in Seq(Bars) /\ Len(buffer) <= Capacity /\ next \in 1..(Len(buffer) + 1)
    BY <1>0, <1>1, <2>3, EmptyOrdered
  <2>5. QED
    BY <2>1, <2>2, <2>4 DEF Init, TypeOK
<1>3. Control
  BY <1>0 DEF Init, Control, Gated
<1>4. ArrivalOrder
  BY <1>0, <1>1, EmptyOrdered DEF ArrivalOrder, Init
<1>5. GateOrder /\ RestControl
  BY <1>1 DEF GateOrder, GateKeepsOrder, RestControl, Init
<1>6. RepeatControl
  BY <1>1, EmptyOrdered DEF RepeatControl, RepeatsExplained, Init
<1>7. GapControl
  <2>1. \A u \in Bars : ~(u[2] < made[u[1]])
    <3> TAKE u \in Bars
    <3>1. u[1] \in Symbols /\ u[2] \in 0..(Minutes - 1)
      BY BarParts
    <3>2. QED
      BY <1>0, <3>1 DEF Init
  <2>2. QED
    BY <2>1 DEF GapControl, Unpublished
<1>8. QED
  BY <1>2, <1>3, <1>4, <1>5, <1>6, <1>7 DEF StreamInv

\* The account of the bars on their way, of the gate and of the wire holds in every
\* reachable state of the ingress.
THEOREM StreamInvariant == Spec => []StreamInv
<1>1. Init => StreamInv
  BY StreamInit
<1>2. StreamInv /\ [Next]_vars => StreamInv'
  <2> SUFFICES ASSUME StreamInv, [Next]_vars PROVE StreamInv'
    OBVIOUS
  <2>1. TypeOK /\ Control /\ ArrivalOrder /\ GateOrder /\ RestControl /\ RepeatControl /\ GapControl
    BY DEF StreamInv
  <2>2. TypeOK' /\ Control' /\ ArrivalOrder'
    BY <2>1, TypesStep, ControlStep, ArrivalStep
  <2>3. GateOrder' /\ RestControl' /\ RepeatControl'
    BY <2>1, GateStep, RestStep, RepeatStep
  <2>4. GapControl'
    BY <2>1, GapStep
  <2>5. QED
    BY <2>2, <2>3, <2>4 DEF StreamInv
<1>3. QED
  BY <1>1, <1>2, PTL DEF Spec

\* The ingress keeps its types and its buffer max_buffered_bars.
THEOREM StreamTyped == Spec => []TypeOK
<1>1. StreamInv => TypeOK
  BY DEF StreamInv
<1>2. QED
  BY <1>1, StreamInvariant, PTL

\* No minute behind a cursor is missing on the bus, as long as every interruption is
\* noticed within the lookback and no recovery needs more than the maximum of bars.
THEOREM StreamNoGap == Spec => []NoGap
<1>1. StreamInv => NoGap
  <2> SUFFICES ASSUME StreamInv, ~late, ~capped, NEW s \in Symbols, NEW m \in owed[s]..cursor[s]
               PROVE  <<s, m>> \in published
    BY DEF NoGap
  <2>1. /\ None \in Int /\ None < 0 /\ Minutes \in Nat /\ cursor[s] \in {None} \cup (0..(Minutes - 1))
        /\ owed[s] \in 0..Minutes /\ made[s] \in Int /\ cursor[s] < made[s]
    BY Times DEF StreamInv, TypeOK, ArrivalOrder
  <2>2. m \in 0..(Minutes - 1) /\ m <= cursor[s] /\ owed[s] <= m /\ m < made[s]
    BY <2>1
  <2>3. <<s, m>> \in Bars
    BY <2>2, IsBar
  <2>4. <<s, m>> \in Unpublished => cursor[s] < m
    BY DEF StreamInv, GapControl, OnItsWay
  <2>5. ~(cursor[s] < m)
    BY <2>1, <2>2
  <2>6. QED
    BY <2>2, <2>3, <2>4, <2>5 DEF Unpublished
<1>2. QED
  BY <1>1, StreamInvariant, PTL

\* Only a publish that failed or was cut off, or a bar still on the socket at the
\* release, makes the ingress publish a bar twice.
THEOREM StreamRepeatsExplained == Spec => []RepeatsExplained
<1>1. StreamInv => RepeatsExplained
  BY DEF StreamInv, RepeatControl
<1>2. QED
  BY <1>1, StreamInvariant, PTL

\* Recovery releases the bars of a symbol in the order of their minutes.
THEOREM StreamGateKeepsOrder == Spec => []GateKeepsOrder
<1>1. StreamInv => GateKeepsOrder
  BY DEF StreamInv, GateOrder
<1>2. QED
  BY <1>1, StreamInvariant, PTL

=============================================================================
