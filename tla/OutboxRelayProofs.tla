--------------------------- MODULE OutboxRelayProofs ---------------------------
(***************************************************************************)
(* Proofs about the outbox.  LineControl says where a row is, RelayControl *)
(* what a relay works on, LeaseControl ties the wait of a row to the lease *)
(* of the relay that holds it, and SendControl counts its publishes.       *)
(***************************************************************************)
EXTENDS OutboxRelay, TLAPS, SequenceTheorems, FiniteSetTheorems

Leased == [event : Events, delay : 0..MaxBackoff]
Batches == Seq(Leased)
Phases == {"idle", "publishing", "marking", "failing"}

-----------------------------------------------------------------------------
(* The line and the batches. *)

\* A line with a position taken out: the other rows move up.
LEMMA TakenOut ==
  ASSUME NEW S, NEW s \in Seq(S), NEW k \in 1..Len(s)
  PROVE  /\ SubSeq(s, 1, k - 1) \o SubSeq(s, k + 1, Len(s)) \in Seq(S)
         /\ Len(SubSeq(s, 1, k - 1) \o SubSeq(s, k + 1, Len(s))) = Len(s) - 1
         /\ \A i \in 1..(Len(s) - 1) :
              (SubSeq(s, 1, k - 1) \o SubSeq(s, k + 1, Len(s)))[i] =
                IF i < k THEN s[i] ELSE s[i + 1]
<1> DEFINE a == SubSeq(s, 1, k - 1)
           b == SubSeq(s, k + 1, Len(s))
<1>1. a \in Seq(S) /\ Len(a) = k - 1 /\ \A i \in 1..(k - 1) : a[i] = s[i]
  BY SubSeqProperties
<1>2. b \in Seq(S) /\ Len(b) = Len(s) - k /\ \A i \in 1..(Len(s) - k) : b[i] = s[k + i]
  BY SubSeqProperties
<1> HIDE DEF a, b
<1>3. /\ a \o b \in Seq(S) /\ Len(a \o b) = Len(a) + Len(b)
      /\ \A i \in 1..(Len(a) + Len(b)) : (a \o b)[i] = IF i <= Len(a) THEN a[i] ELSE b[i - Len(a)]
  BY <1>1, <1>2, ConcatProperties
<1>4. Len(a) + Len(b) = Len(s) - 1
  BY <1>1, <1>2
<1>5. \A i \in 1..(Len(s) - 1) : (a \o b)[i] = IF i < k THEN s[i] ELSE s[i + 1]
  <2> TAKE i \in 1..(Len(s) - 1)
  <2>1. CASE i < k
    BY <1>1, <1>3, <1>4, <2>1
  <2>2. CASE ~(i < k)
    <3>1. i - Len(a) \in 1..(Len(s) - k) /\ k + (i - Len(a)) = i + 1
      BY <1>1, <2>2
    <3>2. (a \o b)[i] = b[i - Len(a)]
      BY <1>1, <1>3, <1>4, <2>2
    <3>3. b[i - Len(a)] = s[k + (i - Len(a))]
      BY <1>2, <3>1
    <3>4. QED
      BY <2>2, <3>1, <3>2, <3>3
  <2>3. QED
    BY <2>1, <2>2
<1>6. QED
  BY <1>3, <1>4, <1>5 DEF a, b

\* What Without leaves of a line in which every row is once.
LEMMA WithoutFacts ==
  ASSUME NEW S, NEW s \in Seq(S), NEW e,
         \A i, j \in 1..Len(s) : s[i] = s[j] => i = j
  PROVE  /\ Without(s, e) \in Seq(S)
         /\ \A i \in 1..Len(Without(s, e)) :
              Without(s, e)[i] # e /\ \E j \in 1..Len(s) : Without(s, e)[i] = s[j]
         /\ \A i, j \in 1..Len(Without(s, e)) : Without(s, e)[i] = Without(s, e)[j] => i = j
<1>1. CASE \E i \in 1..Len(s) : s[i] = e
  <2> DEFINE k == CHOOSE i \in 1..Len(s) : s[i] = e
             t == SubSeq(s, 1, k - 1) \o SubSeq(s, k + 1, Len(s))
  <2>1. k \in 1..Len(s) /\ s[k] = e
    BY <1>1
  <2>2. Without(s, e) = t
    BY <1>1 DEF Without
  <2> HIDE DEF k
  <2>3. /\ t \in Seq(S) /\ Len(t) = Len(s) - 1
        /\ \A i \in 1..(Len(s) - 1) : t[i] = IF i < k THEN s[i] ELSE s[i + 1]
    BY <2>1, TakenOut
  <2> HIDE DEF t
  <2>4. Len(s) \in Nat
    OBVIOUS
  <2>5. \A i \in 1..(Len(s) - 1) :
          LET n == IF i < k THEN i ELSE i + 1
          IN  n \in 1..Len(s) /\ n # k /\ t[i] = s[n]
    BY <2>1, <2>3, <2>4
  <2>6. \A i \in 1..(Len(s) - 1) : t[i] # e /\ \E j \in 1..Len(s) : t[i] = s[j]
    BY <2>1, <2>5
  <2>7. \A i, j \in 1..(Len(s) - 1) : t[i] = t[j] => i = j
    BY <2>1, <2>4, <2>5
  <2>8. QED
    BY <2>2, <2>3, <2>6, <2>7
<1>2. CASE ~ \E i \in 1..Len(s) : s[i] = e
  BY <1>2 DEF Without
<1>3. QED
  BY <1>1, <1>2

\* A relay that is not idle has a first row.
LEMMA CurrentFacts ==
  ASSUME TypeOK, RelayControl, NEW r \in Relays, phase[r] # "idle"
  PROVE  /\ batch[r] \in Batches /\ Len(batch[r]) \in Nat /\ Len(batch[r]) > 0
         /\ Head(batch[r]) = batch[r][1]
         /\ Current(r) \in Events /\ Head(batch[r]).delay \in 0..MaxBackoff
         /\ Current(r) = batch[r][1].event /\ Current(r) \in Held(r)
<1>1. batch[r] \in Batches /\ batch[r] # <<>>
  BY DEF TypeOK, RelayControl, Batches, Leased
<1>2. Len(batch[r]) \in Nat /\ Len(batch[r]) > 0 /\ Head(batch[r]) = batch[r][1]
  BY <1>1 DEF Batches
<1>3. batch[r][1] \in Leased
  BY <1>1, <1>2, ElementOfSeq DEF Batches
<1>4. Current(r) \in Held(r)
  BY <1>2 DEF Current, Held
<1>5. QED
  BY <1>1, <1>2, <1>3, <1>4 DEF Current, Leased

\* What is left of a batch when a relay is done with its first row or drops it.
Leaves(r) ==
  /\ batch' \in [Relays -> Batches] /\ phase' \in [Relays -> Phases]
  /\ \A q \in Relays \ {r} : batch'[q] = batch[q] /\ phase'[q] = phase[q]
  /\ phase'[r] \in {"publishing", "idle"}
  /\ phase'[r] = "idle" <=> batch'[r] = <<>>
  /\ Held(r)' \subseteq Held(r) \ {Current(r)}
  /\ \A i, j \in 1..Len(batch'[r]) : batch'[r][i].event = batch'[r][j].event => i = j

LEMMA AdvanceLeaves ==
  ASSUME TypeOK, RelayControl, NEW r \in Relays, phase[r] # "idle", Advance(r)
  PROVE  Leaves(r)
<1>1. /\ batch[r] \in Batches /\ Len(batch[r]) \in Nat /\ Len(batch[r]) > 0
      /\ Current(r) = batch[r][1].event
  BY CurrentFacts
<1>2. batch' = [batch EXCEPT ![r] = Tail(batch[r])]
  BY DEF Advance
<1>3. /\ Tail(batch[r]) \in Batches /\ Len(Tail(batch[r])) = Len(batch[r]) - 1
      /\ \A i \in 1..(Len(batch[r]) - 1) : Tail(batch[r])[i] = batch[r][i + 1]
  BY <1>1, HeadTailProperties DEF Batches
<1>4. batch \in [Relays -> Batches] /\ phase \in [Relays -> Phases]
  BY DEF TypeOK, Batches, Leased, Phases
<1>5. batch' \in [Relays -> Batches] /\ batch'[r] = Tail(batch[r])
  BY <1>2, <1>3, <1>4
<1>6. phase' \in [Relays -> Phases]
  BY <1>4 DEF Advance, Phases
<1>7. \A q \in Relays \ {r} : batch'[q] = batch[q] /\ phase'[q] = phase[q]
  BY <1>4 DEF Advance
<1>8. phase'[r] = IF Len(batch[r]) > 1 THEN "publishing" ELSE "idle"
  BY <1>4 DEF Advance
<1>9. phase'[r] = "idle" <=> batch'[r] = <<>>
  <2>1. batch'[r] = <<>> <=> Len(batch'[r]) = 0
    BY <1>3, <1>5, EmptySeq DEF Batches
  <2>2. Len(batch'[r]) = Len(batch[r]) - 1 /\ Len(batch[r]) \in Nat /\ Len(batch[r]) > 0
    BY <1>1, <1>3, <1>5
  <2>3. CASE Len(batch[r]) > 1
    BY <1>8, <2>1, <2>2, <2>3
  <2>4. CASE ~(Len(batch[r]) > 1)
    BY <1>8, <2>1, <2>2, <2>4
  <2>5. QED
    BY <2>3, <2>4
<1>10. \A i \in 1..Len(batch'[r]) : /\ i + 1 \in 1..Len(batch[r])
                                    /\ batch'[r][i] = batch[r][i + 1]
  BY <1>1, <1>3, <1>5
<1>11. \A i, j \in 1..Len(batch[r]) : batch[r][i].event = batch[r][j].event => i = j
  BY DEF RelayControl
<1>12. \A i, j \in 1..Len(batch'[r]) : batch'[r][i].event = batch'[r][j].event => i = j
  <2> TAKE i, j \in 1..Len(batch'[r])
  <2>1. /\ i + 1 \in 1..Len(batch[r]) /\ batch'[r][i] = batch[r][i + 1]
        /\ j + 1 \in 1..Len(batch[r]) /\ batch'[r][j] = batch[r][j + 1]
    BY <1>10
  <2>2. batch'[r][i].event = batch'[r][j].event => i + 1 = j + 1
    BY <1>11, <2>1
  <2>3. i \in Int /\ j \in Int
    BY <1>1, <1>3, <1>5
  <2>4. QED
    BY <2>2, <2>3
<1>13. \A i \in 1..Len(batch'[r]) : batch'[r][i].event \in Held(r) \ {Current(r)}
  <2> TAKE i \in 1..Len(batch'[r])
  <2>1. i + 1 \in 1..Len(batch[r]) /\ 1 \in 1..Len(batch[r]) /\ i + 1 # 1
    BY <1>1, <1>3, <1>5
  <2>2. QED
    BY <1>1, <1>10, <1>11, <2>1 DEF Held
<1>14. Held(r)' \subseteq Held(r) \ {Current(r)}
  BY <1>13 DEF Held
<1>15. QED
  BY <1>5, <1>6, <1>7, <1>8, <1>9, <1>12, <1>14 DEF Leaves

LEMMA AbandonLeaves ==
  ASSUME TypeOK, RelayControl, NEW r \in Relays, Abandon(r)
  PROVE  Leaves(r)
<1>1. batch \in [Relays -> Batches] /\ phase \in [Relays -> Phases]
  BY DEF TypeOK, Batches, Leased, Phases
<1>2. batch' \in [Relays -> Batches] /\ batch'[r] = <<>>
  <2>1. <<>> \in Batches
    BY EmptySeq DEF Batches
  <2>2. QED
    BY <1>1, <2>1 DEF Abandon
<1>3. phase' \in [Relays -> Phases] /\ phase'[r] = "idle"
  BY <1>1 DEF Abandon, Phases
<1>4. \A q \in Relays \ {r} : batch'[q] = batch[q] /\ phase'[q] = phase[q]
  BY <1>1 DEF Abandon
<1>5. Len(batch'[r]) = 0
  BY <1>2
<1>6. Held(r)' = {}
  BY <1>5 DEF Held
<1>7. QED
  BY <1>2, <1>3, <1>4, <1>5, <1>6 DEF Leaves

\* What the transaction of a mark or of a failure does to the table, or what is left
\* when it did not commit.
Settles(r) ==
  /\ row' \in [Events -> {"absent", "unpublished", "published"}]
  /\ wait' \in [Events -> Nat] /\ line' \in Seq(Events)
  /\ LineControl'
  /\ \A d \in Events \ {Current(r)} : row'[d] = row[d] /\ wait'[d] = wait[d]
  /\ \A d \in Events : row'[d] # row[d] => row'[d] = "published"
  /\ \A d \in Events : row'[d] = "published" =>
       row[d] = "published" \/ (d = Current(r) /\ phase[r] = "marking")

LEMMA PublishedSettles ==
  ASSUME TypeOK, LineControl, RelayControl, NEW r \in Relays, SetPublished(r)
  PROVE  Settles(r) /\ row'[Current(r)] = "published"
<1>1. phase[r] = "marking" /\ Current(r) \in Events
  BY CurrentFacts DEF SetPublished
<1>2. /\ row \in [Events -> {"absent", "unpublished", "published"}]
      /\ wait \in [Events -> Nat] /\ line \in Seq(Events)
  BY DEF TypeOK
<1>3. /\ line' \in Seq(Events)
      /\ \A i \in 1..Len(line') :
           line'[i] # Current(r) /\ \E j \in 1..Len(line) : line'[i] = line[j]
      /\ \A i, j \in 1..Len(line') : line'[i] = line'[j] => i = j
  BY <1>2, WithoutFacts DEF SetPublished, LineControl
<1>4. /\ row' \in [Events -> {"absent", "unpublished", "published"}] /\ wait' \in [Events -> Nat]
      /\ row'[Current(r)] = "published" /\ wait'[Current(r)] = 0
      /\ \A d \in Events \ {Current(r)} : row'[d] = row[d] /\ wait'[d] = wait[d]
  BY <1>1, <1>2 DEF SetPublished
<1>5. \A i \in 1..Len(line') : line'[i] \in Events \ {Current(r)}
  BY <1>3, ElementOfSeq
<1>6. \A i \in 1..Len(line') : wait'[line'[i]] = 0 /\ row'[line'[i]] = "unpublished"
  <2> TAKE i \in 1..Len(line')
  <2>1. PICK j \in 1..Len(line) : line'[i] = line[j]
    BY <1>3
  <2>2. wait[line'[i]] = 0 /\ row[line'[i]] = "unpublished"
    BY <2>1 DEF LineControl
  <2>3. QED
    BY <1>4, <1>5, <2>2
<1>7. \A e \in Events : wait'[e] > 0 => row'[e] = "unpublished"
  BY <1>4 DEF LineControl
<1>8. LineControl'
  BY <1>3, <1>6, <1>7 DEF LineControl
<1>9. QED
  BY <1>1, <1>3, <1>4, <1>8 DEF Settles

LEMMA DelaySettles ==
  ASSUME TypeOK, LineControl, RelayControl, NEW r \in Relays, SetDelay(r)
  PROVE  Settles(r)
<1>1. phase[r] = "failing" /\ Current(r) \in Events /\ Head(batch[r]).delay \in Nat
  BY CurrentFacts, OutboxAssumption DEF SetDelay
<1>2. /\ row \in [Events -> {"absent", "unpublished", "published"}]
      /\ wait \in [Events -> Nat] /\ line \in Seq(Events)
  BY DEF TypeOK
<1>3. CASE row[Current(r)] = "published"
  <2>1. UNCHANGED <<row, wait, line>>
    BY <1>3 DEF SetDelay
  <2>2. QED
    BY <1>2, <2>1 DEF Settles, LineControl
<1>4. CASE row[Current(r)] # "published"
  <2>1. /\ line' \in Seq(Events)
        /\ \A i \in 1..Len(line') :
             line'[i] # Current(r) /\ \E j \in 1..Len(line) : line'[i] = line[j]
        /\ \A i, j \in 1..Len(line') : line'[i] = line'[j] => i = j
    <3>1. line' = Without(line, Current(r))
      BY <1>4 DEF SetDelay
    <3>2. \A i, j \in 1..Len(line) : line[i] = line[j] => i = j
      BY DEF LineControl
    <3>3. line \in Seq(Events)
      BY <1>2
    <3> DEFINE w == Without(line, Current(r))
    <3>4. /\ w \in Seq(Events)
          /\ \A i \in 1..Len(w) : w[i] # Current(r) /\ \E j \in 1..Len(line) : w[i] = line[j]
          /\ \A i, j \in 1..Len(w) : w[i] = w[j] => i = j
      BY <3>2, <3>3, WithoutFacts
    <3> HIDE DEF w
    <3>5. line' = w
      BY <3>1 DEF w
    <3>6. QED
      BY <3>4, <3>5
  <2>2. /\ row' = row /\ wait' \in [Events -> Nat]
        /\ \A d \in Events \ {Current(r)} : wait'[d] = wait[d]
    BY <1>1, <1>2, <1>4 DEF SetDelay
  <2>3. row[Current(r)] = "unpublished"
    BY <1>1, <1>2, <1>4, CurrentFacts DEF RelayControl
  <2>4. \A i \in 1..Len(line') : line'[i] \in Events \ {Current(r)}
    BY <2>1, ElementOfSeq
  <2>5. \A i \in 1..Len(line') : wait'[line'[i]] = 0 /\ row'[line'[i]] = "unpublished"
    <3> TAKE i \in 1..Len(line')
    <3>1. PICK j \in 1..Len(line) : line'[i] = line[j]
      BY <2>1
    <3>2. wait[line'[i]] = 0 /\ row[line'[i]] = "unpublished"
      BY <3>1 DEF LineControl
    <3>3. QED
      BY <2>2, <2>4, <3>2
  <2>6. \A e \in Events : wait'[e] > 0 => row'[e] = "unpublished"
    BY <2>2, <2>3 DEF LineControl
  <2>7. LineControl'
    BY <2>1, <2>5, <2>6 DEF LineControl
  <2>8. QED
    BY <1>2, <2>1, <2>2, <2>7 DEF Settles
<1>5. QED
  BY <1>3, <1>4

\* A claim moves the first rows of the line into the batch of one relay.
Claims(r) ==
  /\ wait' \in [Events -> Nat] /\ delay' \in [Events -> 0..MaxBackoff] /\ line' \in Seq(Events)
  /\ batch' \in [Relays -> Batches] /\ phase' \in [Relays -> Phases] /\ lease' \in [Relays -> 0..Lease]
  /\ \A q \in Relays \ {r} : batch'[q] = batch[q] /\ phase'[q] = phase[q] /\ lease'[q] = lease[q]
  /\ phase'[r] = "publishing" /\ lease'[r] = Lease /\ batch'[r] # <<>>
  /\ \A i, j \in 1..Len(batch'[r]) : batch'[r][i].event = batch'[r][j].event => i = j
  /\ \A e \in Held(r)' : /\ wait'[e] = Lease /\ wait[e] = 0 /\ row[e] = "unpublished"
                         /\ e \in Events
  /\ \A e \in Events \ Held(r)' : wait'[e] = wait[e]
  /\ LineControl'

LEMMA ClaimFacts ==
  ASSUME TypeOK, LineControl, RelayControl, NEW r \in Relays, Claim(r)
  PROVE  Claims(r)
<1> DEFINE n == ClaimSize
           taken == {line[i] : i \in 1..n}
           claimed == [i \in 1..n |-> [event |-> line[i], delay |-> NextDelay(delay[line[i]])]]
<1>1. /\ line \in Seq(Events) /\ wait \in [Events -> Nat] /\ delay \in [Events -> 0..MaxBackoff]
      /\ batch \in [Relays -> Batches] /\ phase \in [Relays -> Phases] /\ lease \in [Relays -> 0..Lease]
  BY DEF TypeOK, Batches, Leased, Phases
<1>2. n \in Nat /\ n > 0 /\ n <= Len(line) /\ Len(line) \in Nat
  <2>1. line # <<>> /\ Len(line) \in Nat
    BY <1>1 DEF Claim
  <2>2. Len(line) > 0
    BY <1>1, <2>1, EmptySeq
  <2>3. QED
    BY <2>1, <2>2, OutboxAssumption DEF ClaimSize
<1>3. \A i \in 1..n : i \in 1..Len(line) /\ line[i] \in Events
  BY <1>1, <1>2, ElementOfSeq
<1>4. \A d \in 0..MaxBackoff : NextDelay(d) \in 0..MaxBackoff
  BY OutboxAssumption DEF NextDelay
<1>5. /\ wait' = [e \in Events |-> IF e \in taken THEN Lease ELSE wait[e]]
      /\ delay' = [e \in Events |-> IF e \in taken THEN NextDelay(delay[e]) ELSE delay[e]]
      /\ batch' = [batch EXCEPT ![r] = claimed]
      /\ line' = SubSeq(line, n + 1, Len(line))
      /\ phase' = [phase EXCEPT ![r] = "publishing"]
      /\ lease' = [lease EXCEPT ![r] = Lease]
      /\ UNCHANGED row
  BY DEF Claim, LeaseFor
<1> HIDE DEF n
<1>6. wait' \in [Events -> Nat] /\ delay' \in [Events -> 0..MaxBackoff]
  BY <1>1, <1>4, <1>5, OutboxAssumption
<1>7. claimed \in [1..n -> Leased]
  BY <1>1, <1>3, <1>4 DEF Leased
<1>8. claimed \in Batches /\ Len(claimed) = n
  BY <1>2, <1>7 DEF Batches
<1>a. \A i \in 1..n : claimed[i].event = line[i]
  OBVIOUS
<1> HIDE DEF claimed
<1>9. /\ batch' \in [Relays -> Batches] /\ batch'[r] = claimed
      /\ phase' \in [Relays -> Phases] /\ phase'[r] = "publishing"
      /\ lease' \in [Relays -> 0..Lease] /\ lease'[r] = Lease
  <2>1. batch' \in [Relays -> Batches] /\ batch'[r] = claimed
    BY <1>1, <1>5, <1>8
  <2>2. phase' \in [Relays -> Phases] /\ phase'[r] = "publishing"
    BY <1>1, <1>5 DEF Phases
  <2>3. lease' \in [Relays -> 0..Lease] /\ lease'[r] = Lease
    BY <1>1, <1>5, OutboxAssumption
  <2>4. QED
    BY <2>1, <2>2, <2>3
<1>10. \A q \in Relays \ {r} : batch'[q] = batch[q] /\ phase'[q] = phase[q] /\ lease'[q] = lease[q]
  BY <1>1, <1>5
<1>11. Len(batch'[r]) = n /\ \A i \in 1..n : batch'[r][i].event = line[i]
  BY <1>8, <1>9, <1>a
<1>12. batch'[r] # <<>>
  BY <1>2, <1>8, <1>9, EmptySeq DEF Batches
<1>13. Held(r)' = taken
  BY <1>11 DEF Held
<1>14. \A i, j \in 1..Len(batch'[r]) : batch'[r][i].event = batch'[r][j].event => i = j
  BY <1>3, <1>11 DEF LineControl
<1>15. \A e \in taken : e \in Events /\ wait[e] = 0 /\ row[e] = "unpublished"
  BY <1>3 DEF LineControl
<1>16. /\ \A e \in Held(r)' : wait'[e] = Lease /\ wait[e] = 0 /\ row[e] = "unpublished" /\ e \in Events
       /\ \A e \in Events \ Held(r)' : wait'[e] = wait[e]
  BY <1>5, <1>13, <1>15
<1>17. /\ line' \in Seq(Events) /\ Len(line') = Len(line) - n
       /\ \A i \in 1..(Len(line) - n) : line'[i] = line[n + i]
  <2>1. \A i \in (n + 1)..Len(line) : line[i] \in Events
    BY <1>1, <1>2, ElementOfSeq
  <2>2. /\ SubSeq(line, n + 1, Len(line)) \in Seq(Events)
        /\ Len(SubSeq(line, n + 1, Len(line))) =
             IF n + 1 <= Len(line) THEN Len(line) - (n + 1) + 1 ELSE 0
        /\ \A i \in 1..(Len(line) - (n + 1) + 1) :
             SubSeq(line, n + 1, Len(line))[i] = line[n + 1 + i - 1]
    BY <1>2, <2>1, SubSeqProperties
  <2>3. QED
    BY <1>2, <1>5, <2>2
<1>18. \A i \in 1..Len(line') : /\ n + i \in 1..Len(line) /\ line'[i] = line[n + i]
                                /\ line'[i] \in Events \ taken
  <2> TAKE i \in 1..Len(line')
  <2>1. i \in 1..(Len(line) - n) /\ i \in Int
    BY <1>2, <1>17
  <2>2. n + i \in 1..Len(line) /\ line'[i] = line[n + i]
    BY <1>2, <1>17, <2>1
  <2>3. \A k \in 1..n : k # n + i
    BY <1>2, <2>1
  <2>4. \A k \in 1..n : line[k] # line[n + i]
    BY <1>3, <2>2, <2>3 DEF LineControl
  <2>5. QED
    BY <1>1, <2>2, <2>4, ElementOfSeq
<1>19. LineControl'
  <2>1. \A i \in 1..Len(line') : wait'[line'[i]] = 0 /\ row'[line'[i]] = "unpublished"
    <3> TAKE i \in 1..Len(line')
    <3>1. wait[line'[i]] = 0 /\ row[line'[i]] = "unpublished"
      BY <1>18 DEF LineControl
    <3>2. QED
      BY <1>5, <1>18, <3>1
  <2>2. \A i, j \in 1..Len(line') : line'[i] = line'[j] => i = j
    <3> TAKE i, j \in 1..Len(line')
    <3>1. line'[i] = line'[j] => n + i = n + j
      BY <1>18 DEF LineControl
    <3>2. i \in Int /\ j \in Int
      BY <1>2, <1>17
    <3>3. QED
      BY <1>2, <3>1, <3>2
  <2>3. \A e \in Events : wait'[e] > 0 => row'[e] = "unpublished"
    <3> TAKE e \in Events
    <3>1. CASE e \in taken
      BY <1>5, <1>15, <3>1
    <3>2. CASE e \notin taken
      BY <1>5, <3>2 DEF LineControl
    <3>3. QED
      BY <3>1, <3>2
  <2>4. QED
    BY <2>1, <2>2, <2>3 DEF LineControl
<1>20. QED
  BY <1>6, <1>9, <1>10, <1>12, <1>14, <1>16, <1>17, <1>19 DEF Claims

\* The clock adds the rows whose wait ends to the line.
LEMMA TickFacts ==
  ASSUME TypeOK, LineControl, Tick
  PROVE  /\ line' \in Seq(Events) /\ wait' \in [Events -> Nat] /\ lease' \in [Relays -> 0..Lease]
         /\ LineControl'
<1> DEFINE due == {e \in Events : wait[e] = 1}
           n == Cardinality(due)
<1>1. /\ line \in Seq(Events) /\ wait \in [Events -> Nat] /\ lease \in [Relays -> 0..Lease]
  BY DEF TypeOK
<1>2. n \in Nat
  <2>1. due \in SUBSET Events
    OBVIOUS
  <2>2. QED
    BY <2>1, FS_Subset, FS_CardinalityType, OutboxAssumption
<1> HIDE DEF n
<1>3. PICK s \in [1..n -> due] :
        /\ \A i, j \in 1..n : i < j => Created[s[i]] < Created[s[j]]
        /\ line' = line \o s
  BY DEF Tick, n
<1>4. s \in Seq(Events) /\ Len(s) = n /\ \A i \in 1..n : s[i] \in due
  BY <1>2, <1>3
<1>5. \A i, j \in 1..n : s[i] = s[j] => i = j
  <2> TAKE i, j \in 1..n
  <2>1. Created[s[i]] \in Nat /\ Created[s[j]] \in Nat /\ i \in Int /\ j \in Int
    BY <1>2, <1>4, OutboxAssumption
  <2>2. QED
    BY <1>3, <2>1
<1>6. /\ line' \in Seq(Events) /\ Len(line') = Len(line) + n
      /\ \A i \in 1..(Len(line) + n) : line'[i] = IF i <= Len(line) THEN line[i] ELSE s[i - Len(line)]
  BY <1>1, <1>3, <1>4, ConcatProperties
<1>7. /\ wait' = [e \in Events |-> IF wait[e] > 0 THEN wait[e] - 1 ELSE 0]
      /\ lease' = [r \in Relays |-> IF lease[r] > 0 THEN lease[r] - 1 ELSE 0]
      /\ UNCHANGED row
  BY DEF Tick
<1>8. wait' \in [Events -> Nat]
  BY <1>1, <1>7
<1>9. lease' \in [Relays -> 0..Lease]
  BY <1>1, <1>7, OutboxAssumption
<1>10. Len(line) \in Nat
  BY <1>1
<1>11. \A i \in 1..Len(line') :
         \/ i \in 1..Len(line) /\ line'[i] = line[i]
         \/ i - Len(line) \in 1..n /\ line'[i] = s[i - Len(line)]
  BY <1>2, <1>6, <1>10
<1>12. \A i \in 1..Len(line), j \in 1..n : line[i] # s[j]
  BY <1>4 DEF LineControl
<1>13. \A i \in 1..Len(line') : wait'[line'[i]] = 0 /\ row'[line'[i]] = "unpublished"
  <2> TAKE i \in 1..Len(line')
  <2>1. line'[i] \in Events
    BY <1>6, ElementOfSeq
  <2>2. CASE i \in 1..Len(line) /\ line'[i] = line[i]
    <3>1. wait[line'[i]] = 0 /\ row[line'[i]] = "unpublished"
      BY <2>2 DEF LineControl
    <3>2. QED
      BY <1>7, <2>1, <3>1
  <2>3. CASE i - Len(line) \in 1..n /\ line'[i] = s[i - Len(line)]
    <3>1. wait[line'[i]] = 1
      BY <1>4, <2>3
    <3>2. row[line'[i]] = "unpublished"
      BY <2>1, <3>1 DEF LineControl
    <3>3. QED
      BY <1>7, <2>1, <3>1, <3>2
  <2>4. QED
    BY <1>11, <2>2, <2>3
<1>14. \A i, j \in 1..Len(line') : line'[i] = line'[j] => i = j
  <2> TAKE i, j \in 1..Len(line')
  <2> HAVE line'[i] = line'[j]
  <2>1. i \in Int /\ j \in Int
    BY <1>2, <1>6, <1>10
  <2>2. CASE i \in 1..Len(line) /\ j \in 1..Len(line) /\ line[i] = line[j]
    BY <2>2 DEF LineControl
  <2>3. CASE i - Len(line) \in 1..n /\ j - Len(line) \in 1..n /\ s[i - Len(line)] = s[j - Len(line)]
    <3>1. i - Len(line) = j - Len(line)
      BY <1>5, <2>3
    <3>2. QED
      BY <1>10, <2>1, <3>1
  <2>4. QED
    BY <1>11, <1>12, <2>2, <2>3
<1>15. \A e \in Events : wait'[e] > 0 => row'[e] = "unpublished"
  BY <1>1, <1>7 DEF LineControl
<1>16. LineControl'
  BY <1>13, <1>14, <1>15 DEF LineControl
<1>17. QED
  BY <1>6, <1>8, <1>9, <1>16

\* A relay is through with a row: it is marked, its failure is recorded, or a fault
\* takes the relay away from it.
Concludes(r) ==
  /\ phase[r] # "idle" /\ Leaves(r) /\ Settles(r)
  /\ UNCHANGED <<delay, lease, stored, sends, overrun>>
  /\ \/ row'[Current(r)] = "published" /\ UNCHANGED <<excuses, faults>>
     \/ phase[r] = "failing" /\ UNCHANGED <<excuses, faults>>
     \/ Fault(Current(r))

LEMMA ConclusionFacts ==
  ASSUME TypeOK, LineControl, RelayControl, NEW r \in Relays,
         MarkPublished(r) \/ RecordFailure(r) \/ ResultLost(r) \/ Crash(r)
  PROVE  Concludes(r)
<1>1. ASSUME UNCHANGED <<row, wait, line>> PROVE Settles(r)
  BY <1>1 DEF Settles, LineControl, TypeOK
<1>2. CASE MarkPublished(r)
  <2>1. phase[r] = "marking" /\ SetPublished(r) /\ Advance(r)
    BY <1>2 DEF MarkPublished, SetPublished
  <2>2. Leaves(r) /\ Settles(r) /\ row'[Current(r)] = "published"
    BY <2>1, AdvanceLeaves, PublishedSettles
  <2>3. QED
    BY <1>2, <2>1, <2>2 DEF MarkPublished, Concludes
<1>3. CASE RecordFailure(r)
  <2>1. phase[r] = "failing" /\ SetDelay(r) /\ Advance(r)
    BY <1>3 DEF RecordFailure, SetDelay
  <2>2. Leaves(r) /\ Settles(r)
    BY <2>1, AdvanceLeaves, DelaySettles
  <2>3. QED
    BY <1>3, <2>1, <2>2 DEF RecordFailure, Concludes
<1>4. CASE ResultLost(r)
  <2>1. phase[r] # "idle" /\ Abandon(r) /\ Fault(Current(r))
    BY <1>4 DEF ResultLost
  <2>2. Leaves(r)
    BY <2>1, AbandonLeaves
  <2>3. Settles(r)
    BY <1>1, <1>4, PublishedSettles, DelaySettles DEF ResultLost
  <2>4. QED
    BY <1>4, <2>1, <2>2, <2>3 DEF ResultLost, Concludes
<1>5. CASE Crash(r)
  <2>1. phase[r] # "idle" /\ Abandon(r) /\ Fault(Current(r)) /\ UNCHANGED <<row, wait, line>>
    BY <1>5 DEF Crash
  <2>2. Leaves(r) /\ Settles(r)
    BY <1>1, <2>1, AbandonLeaves
  <2>3. QED
    BY <1>5, <2>1, <2>2 DEF Crash, Concludes
<1>6. QED
  BY <1>2, <1>3, <1>4, <1>5

\* The steps of the outbox, with the effects above.
LEMMA StepCases ==
  ASSUME TypeOK, LineControl, RelayControl, [Next]_vars
  PROVE  \/ \E e \in Events : Enqueue(e)
         \/ \E r \in Relays : Claim(r) /\ Claims(r)
         \/ \E r \in Relays : PublishOk(r)
         \/ \E r \in Relays : PublishInvalid(r)
         \/ \E r \in Relays : PublishFails(r)
         \/ \E r \in Relays : Concludes(r)
         \/ Tick
         \/ UNCHANGED vars
  BY ClaimFacts, ConclusionFacts DEF Next, Step, Relay

-----------------------------------------------------------------------------
(* Types and control. *)

LEMMA CappedType == \A n \in Nat : Capped(n) \in 0..SendCap
  BY OutboxAssumption DEF Capped, SendCap

LEMMA FaultTypes ==
  ASSUME TypeOK, NEW e \in Events, Fault(e)
  PROVE  /\ faults' \in 0..MaxFaults /\ excuses' \in [Events -> 0..SendCap]
         /\ excuses'[e] = Capped(excuses[e] + 1)
         /\ \A d \in Events \ {e} : excuses'[d] = excuses[d]
<1>1. faults' \in 0..MaxFaults
  BY OutboxAssumption DEF Fault, TypeOK
<1>2. excuses \in [Events -> 0..SendCap] /\ excuses[e] + 1 \in Nat
  BY OutboxAssumption DEF TypeOK, SendCap
<1>3. Capped(excuses[e] + 1) \in 0..SendCap
  BY <1>2, CappedType
<1>4. excuses' = [excuses EXCEPT ![e] = Capped(excuses[e] + 1)]
  BY DEF Fault
<1>5. QED
  BY <1>1, <1>2, <1>3, <1>4

LEMMA SendTypes ==
  ASSUME TypeOK, NEW e \in Events, Send(e)
  PROVE  /\ sends' \in [Events -> 0..SendCap]
         /\ sends'[e] = Capped(sends[e] + 1)
         /\ \A d \in Events \ {e} : sends'[d] = sends[d]
<1>1. sends \in [Events -> 0..SendCap] /\ sends[e] + 1 \in Nat
  BY OutboxAssumption DEF TypeOK, SendCap
<1>2. Capped(sends[e] + 1) \in 0..SendCap
  BY <1>1, CappedType
<1>3. sends' = [sends EXCEPT ![e] = Capped(sends[e] + 1)]
  BY DEF Send
<1>4. QED
  BY <1>1, <1>2, <1>3

\* Every step keeps the types.
LEMMA TypeStep ==
  TypeOK /\ LineControl /\ RelayControl /\ [Next]_vars => TypeOK'
<1> SUFFICES ASSUME TypeOK, LineControl, RelayControl, [Next]_vars PROVE TypeOK'
  OBVIOUS
<1> DEFINE R == [event : Events, delay : 0..MaxBackoff]
<1>1. ASSUME NEW e \in Events, Enqueue(e) PROVE TypeOK'
  <2>1. line' \in Seq(Events)
    BY <1>1, AppendProperties DEF Enqueue, TypeOK
  <2>2. row' \in [Events -> {"absent", "unpublished", "published"}]
    BY <1>1 DEF Enqueue, TypeOK
  <2>3. UNCHANGED <<wait, delay, batch, phase, lease, stored, sends, excuses, overrun, faults>>
    BY <1>1 DEF Enqueue
  <2>4. QED
    BY <2>1, <2>2, <2>3 DEF TypeOK
<1>2. ASSUME NEW r \in Relays, Claim(r), Claims(r) PROVE TypeOK'
  <2>1. UNCHANGED <<row, stored, sends, excuses, overrun, faults>>
    BY <1>2 DEF Claim
  <2>2. QED
    BY <1>2, <2>1 DEF Claims, TypeOK, Batches, Leased, Phases
<1>3. ASSUME NEW r \in Relays, PublishOk(r) PROVE TypeOK'
  <2>1. Current(r) \in Events
    BY <1>3, CurrentFacts DEF PublishOk, Publishing
  <2>2. sends' \in [Events -> 0..SendCap]
    BY <1>3, <2>1, SendTypes DEF PublishOk
  <2>3. stored' \subseteq Events /\ phase' \in [Relays -> {"idle", "publishing", "marking", "failing"}]
    BY <1>3, <2>1 DEF PublishOk, TypeOK
  <2>4. UNCHANGED <<row, wait, line, delay, batch, lease, excuses, overrun, faults>>
    BY <1>3 DEF PublishOk
  <2>5. QED
    BY <2>2, <2>3, <2>4 DEF TypeOK
<1>4. ASSUME NEW r \in Relays, PublishInvalid(r) PROVE TypeOK'
  <2>1. phase' \in [Relays -> {"idle", "publishing", "marking", "failing"}]
    BY <1>4 DEF PublishInvalid, TypeOK
  <2>2. UNCHANGED <<row, wait, line, delay, batch, lease, stored, sends, excuses, overrun, faults>>
    BY <1>4 DEF PublishInvalid
  <2>3. QED
    BY <2>1, <2>2 DEF TypeOK
<1>5. ASSUME NEW r \in Relays, PublishFails(r) PROVE TypeOK'
  <2>1. Current(r) \in Events
    BY <1>5, CurrentFacts DEF PublishFails, Publishing
  <2>2. /\ sends' \in [Events -> 0..SendCap] /\ excuses' \in [Events -> 0..SendCap]
        /\ faults' \in 0..MaxFaults
    BY <1>5, <2>1, SendTypes, FaultTypes DEF PublishFails
  <2>3. stored' \subseteq Events /\ phase' \in [Relays -> {"idle", "publishing", "marking", "failing"}]
    BY <1>5, <2>1 DEF PublishFails, TypeOK
  <2>4. UNCHANGED <<row, wait, line, delay, batch, lease, overrun>>
    BY <1>5 DEF PublishFails
  <2>5. QED
    BY <2>2, <2>3, <2>4 DEF TypeOK
<1>6. ASSUME NEW r \in Relays, Concludes(r) PROVE TypeOK'
  <2>1. Current(r) \in Events
    BY <1>6, CurrentFacts DEF Concludes
  <2>2. excuses' \in [Events -> 0..SendCap] /\ faults' \in 0..MaxFaults
    <3>1. CASE UNCHANGED <<excuses, faults>>
      BY <3>1 DEF TypeOK
    <3>2. CASE Fault(Current(r))
      BY <2>1, <3>2, FaultTypes
    <3>3. QED
      BY <1>6, <3>1, <3>2 DEF Concludes
  <2>3. UNCHANGED <<delay, lease, stored, sends, overrun>>
    BY <1>6 DEF Concludes
  <2>4. /\ row' \in [Events -> {"absent", "unpublished", "published"}]
        /\ wait' \in [Events -> Nat] /\ line' \in Seq(Events)
        /\ batch' \in [Relays -> Seq(R)]
        /\ phase' \in [Relays -> {"idle", "publishing", "marking", "failing"}]
    BY <1>6 DEF Concludes, Settles, Leaves, Batches, Leased, Phases
  <2>5. QED
    BY <2>2, <2>3, <2>4 DEF TypeOK
<1>7. CASE Tick
  <2>1. /\ line' \in Seq(Events) /\ wait' \in [Events -> Nat] /\ lease' \in [Relays -> 0..Lease]
    BY <1>7, TickFacts
  <2>2. overrun' \in BOOLEAN /\ UNCHANGED <<row, delay, batch, phase, stored, sends, excuses, faults>>
    BY <1>7 DEF Tick, TypeOK
  <2>3. QED
    BY <2>1, <2>2 DEF TypeOK
<1>8. CASE UNCHANGED vars
  BY <1>8 DEF vars, TypeOK
<1>9. QED
  BY <1>1, <1>2, <1>3, <1>4, <1>5, <1>6, <1>7, <1>8, StepCases

\* Every step keeps each row in its one place.
LEMMA LineStep ==
  TypeOK /\ LineControl /\ RelayControl /\ [Next]_vars => LineControl'
<1> SUFFICES ASSUME TypeOK, LineControl, RelayControl, [Next]_vars PROVE LineControl'
  OBVIOUS
<1>1. ASSUME NEW e \in Events, Enqueue(e) PROVE LineControl'
  <2>1. line \in Seq(Events) /\ wait[e] \in Nat /\ row[e] = "absent"
    BY <1>1 DEF TypeOK, Enqueue
  <2>2. wait[e] = 0
    BY <2>1 DEF LineControl
  <2>3. /\ Len(line') = Len(line) + 1 /\ line'[Len(line) + 1] = e
        /\ \A i \in 1..Len(line) : line'[i] = line[i]
    BY <1>1, <2>1, AppendProperties DEF Enqueue
  <2>4. Len(line) \in Nat
    BY <2>1
  <2>5. \A i \in 1..Len(line') : \/ i \in 1..Len(line) /\ line'[i] = line[i]
                                 \/ i = Len(line) + 1 /\ line'[i] = e
    BY <2>3, <2>4
  <2>6. \A i \in 1..Len(line) : line[i] \in Events \ {e}
    BY <2>1, ElementOfSeq DEF LineControl
  <2>7. /\ row'[e] = "unpublished" /\ wait' = wait
        /\ \A d \in Events \ {e} : row'[d] = row[d]
    BY <1>1 DEF Enqueue, TypeOK
  <2>8. \A i \in 1..Len(line') : wait'[line'[i]] = 0 /\ row'[line'[i]] = "unpublished"
    BY <2>2, <2>5, <2>6, <2>7 DEF LineControl
  <2>9. \A i, j \in 1..Len(line') : line'[i] = line'[j] => i = j
    BY <2>5, <2>6 DEF LineControl
  <2>10. \A d \in Events : wait'[d] > 0 => row'[d] = "unpublished"
    BY <2>7 DEF LineControl
  <2>11. QED
    BY <2>8, <2>9, <2>10 DEF LineControl
<1>2. ASSUME NEW r \in Relays, Claims(r) PROVE LineControl'
  BY <1>2 DEF Claims
<1>3. ASSUME NEW r \in Relays, PublishOk(r) PROVE LineControl'
  BY <1>3 DEF PublishOk, LineControl
<1>4. ASSUME NEW r \in Relays, PublishInvalid(r) PROVE LineControl'
  BY <1>4 DEF PublishInvalid, LineControl
<1>5. ASSUME NEW r \in Relays, PublishFails(r) PROVE LineControl'
  BY <1>5 DEF PublishFails, LineControl
<1>6. ASSUME NEW r \in Relays, Concludes(r) PROVE LineControl'
  BY <1>6 DEF Concludes, Settles
<1>7. CASE Tick
  BY <1>7, TickFacts
<1>8. CASE UNCHANGED vars
  BY <1>8 DEF vars, LineControl
<1>9. QED
  BY <1>1, <1>2, <1>3, <1>4, <1>5, <1>6, <1>7, <1>8, StepCases

\* Every step keeps what a relay works on.
LEMMA RelayStep ==
  TypeOK /\ LineControl /\ RelayControl /\ [Next]_vars => RelayControl'
<1> SUFFICES ASSUME TypeOK, LineControl, RelayControl, [Next]_vars PROVE RelayControl'
  OBVIOUS
<1>0. /\ phase \in [Relays -> Phases] /\ stored \subseteq Events
      /\ row \in [Events -> {"absent", "unpublished", "published"}]
      /\ \A r \in Relays : Held(r) \subseteq Events
  <2>1. \A r \in Relays : Held(r) \subseteq Events
    <3> TAKE r \in Relays
    <3>1. batch[r] \in Seq(Leased)
      BY DEF TypeOK, Leased
    <3>2. \A i \in 1..Len(batch[r]) : batch[r][i] \in Leased
      BY <3>1, ElementOfSeq
    <3>3. QED
      BY <3>2 DEF Leased, Held
  <2>2. QED
    BY <2>1 DEF TypeOK, Phases
<1>1. ASSUME NEW e \in Events, Enqueue(e) PROVE RelayControl'
  <2>1. UNCHANGED <<batch, phase, stored>> /\ \A d \in Events : row[d] # "absent" => row'[d] # "absent"
    BY <1>0, <1>1 DEF Enqueue
  <2>2. QED
    BY <1>0, <2>1 DEF RelayControl, Held, Current
<1>2. ASSUME NEW r \in Relays, Claim(r), Claims(r) PROVE RelayControl'
  <2>1. UNCHANGED <<row, stored>>
    BY <1>2 DEF Claim
  <2>2. \A q \in Relays \ {r} : batch'[q] = batch[q] /\ phase'[q] = phase[q]
    BY <1>2 DEF Claims
  <2>3. \A q \in Relays \ {r} : Held(q)' = Held(q) /\ Current(q)' = Current(q)
    BY <2>2 DEF Held, Current
  <2>4. \A e \in Held(r)' : row'[e] # "absent"
    BY <1>2, <2>1 DEF Claims
  <2>5. /\ phase'[r] = "publishing" /\ batch'[r] # <<>>
        /\ \A i, j \in 1..Len(batch'[r]) : batch'[r][i].event = batch'[r][j].event => i = j
    BY <1>2 DEF Claims
  <2>6. \A q \in Relays : phase'[q] = "idle" <=> batch'[q] = <<>>
    BY <2>2, <2>5 DEF RelayControl
  <2>7. \A q \in Relays : phase'[q] = "marking" => Current(q)' \in stored'
    BY <2>1, <2>2, <2>3, <2>5 DEF RelayControl
  <2>8. \A q \in Relays : \A i, j \in 1..Len(batch'[q]) :
          batch'[q][i].event = batch'[q][j].event => i = j
    BY <2>2, <2>5 DEF RelayControl
  <2>9. \A q \in Relays : \A e \in Held(q)' : row'[e] # "absent"
    BY <2>1, <2>3, <2>4 DEF RelayControl
  <2>10. QED
    BY <2>6, <2>7, <2>8, <2>9 DEF RelayControl
<1>3. ASSUME NEW r \in Relays, phase[r] # "idle", UNCHANGED <<row, batch>>, stored \subseteq stored',
             \/ phase' = [phase EXCEPT ![r] = "failing"]
             \/ phase' = [phase EXCEPT ![r] = "marking"] /\ Current(r) \in stored'
      PROVE  RelayControl'
  <2>1. \A q \in Relays : Held(q)' = Held(q) /\ Current(q)' = Current(q)
    BY <1>3 DEF Held, Current
  <2>2. /\ \A q \in Relays \ {r} : phase'[q] = phase[q]
        /\ phase'[r] \in {"failing", "marking"}
        /\ phase'[r] = "marking" => Current(r) \in stored'
    BY <1>0, <1>3
  <2>3. \A q \in Relays : phase'[q] = "idle" <=> phase[q] = "idle"
    BY <1>3, <2>2
  <2>4. \A q \in Relays : phase'[q] = "marking" => Current(q)' \in stored'
    BY <1>3, <2>1, <2>2 DEF RelayControl
  <2>5. QED
    BY <1>3, <2>1, <2>3, <2>4 DEF RelayControl
<1>4. ASSUME NEW r \in Relays, PublishOk(r) PROVE RelayControl'
  BY <1>3, <1>4 DEF PublishOk, Publishing
<1>5. ASSUME NEW r \in Relays, PublishInvalid(r) PROVE RelayControl'
  BY <1>3, <1>5 DEF PublishInvalid, Publishing
<1>6. ASSUME NEW r \in Relays, PublishFails(r) PROVE RelayControl'
  BY <1>3, <1>6 DEF PublishFails, Publishing
<1>7. ASSUME NEW r \in Relays, Concludes(r) PROVE RelayControl'
  <2>1. /\ stored' = stored
        /\ \A d \in Events : row'[d] # row[d] => row'[d] = "published"
    BY <1>7 DEF Concludes, Settles
  <2>2. Leaves(r)
    BY <1>7 DEF Concludes
  <2>3. \A q \in Relays \ {r} : batch'[q] = batch[q] /\ phase'[q] = phase[q]
    BY <2>2 DEF Leaves
  <2>4. \A q \in Relays \ {r} : Held(q)' = Held(q) /\ Current(q)' = Current(q)
    BY <2>3 DEF Held, Current
  <2>5. \A q \in Relays : Held(q)' \subseteq Held(q)
    BY <2>2, <2>4 DEF Leaves
  <2>6. \A q \in Relays : \A e \in Held(q)' : row'[e] # "absent"
    BY <1>0, <2>1, <2>5 DEF RelayControl
  <2>7. phase'[r] # "marking" /\ (phase'[r] = "idle" <=> batch'[r] = <<>>)
    BY <2>2 DEF Leaves
  <2>8. \A i, j \in 1..Len(batch'[r]) : batch'[r][i].event = batch'[r][j].event => i = j
    BY <2>2 DEF Leaves
  <2>9. QED
    BY <2>1, <2>3, <2>4, <2>6, <2>7, <2>8 DEF RelayControl
<1>8. CASE Tick
  BY <1>8 DEF Tick, RelayControl, Held, Current
<1>9. CASE UNCHANGED vars
  BY <1>9 DEF vars, RelayControl, Held, Current
<1>10. QED
  BY <1>1, <1>2, <1>4, <1>5, <1>6, <1>7, <1>8, <1>9, StepCases

\* Only a relay whose publish the stream confirmed marks a row.
LEMMA PublishedStep ==
  TypeOK /\ LineControl /\ RelayControl /\ PublishedIsStored /\ [Next]_vars => PublishedIsStored'
<1> SUFFICES ASSUME TypeOK, LineControl, RelayControl, PublishedIsStored, [Next]_vars
             PROVE  PublishedIsStored'
  OBVIOUS
<1>1. ASSUME NEW e \in Events, Enqueue(e) PROVE PublishedIsStored'
  BY <1>1 DEF Enqueue, PublishedIsStored, TypeOK
<1>2. ASSUME UNCHANGED row, stored \subseteq stored' PROVE PublishedIsStored'
  BY <1>2 DEF PublishedIsStored
<1>3. ASSUME NEW r \in Relays, Concludes(r) PROVE PublishedIsStored'
  <2>1. /\ stored' = stored
        /\ \A d \in Events : row'[d] = "published" =>
             row[d] = "published" \/ (d = Current(r) /\ phase[r] = "marking")
    BY <1>3 DEF Concludes, Settles
  <2>2. QED
    BY <2>1 DEF PublishedIsStored, RelayControl
<1>4. ASSUME NEW r \in Relays, Claim(r) PROVE PublishedIsStored'
  BY <1>2, <1>4 DEF Claim
<1>5. ASSUME NEW r \in Relays, PublishOk(r) PROVE PublishedIsStored'
  BY <1>2, <1>5 DEF PublishOk
<1>6. ASSUME NEW r \in Relays, PublishInvalid(r) PROVE PublishedIsStored'
  BY <1>2, <1>6 DEF PublishInvalid
<1>7. ASSUME NEW r \in Relays, PublishFails(r) PROVE PublishedIsStored'
  BY <1>2, <1>7 DEF PublishFails
<1>8. CASE Tick
  BY <1>2, <1>8 DEF Tick
<1>9. CASE UNCHANGED vars
  BY <1>2, <1>9 DEF vars
<1>10. QED
  BY <1>1, <1>3, <1>4, <1>5, <1>6, <1>7, <1>8, <1>9, StepCases

-----------------------------------------------------------------------------
(* Leases and repeated publishes. *)

LEMMA HeldEvents ==
  ASSUME TypeOK PROVE \A r \in Relays : Held(r) \subseteq Events
<1> TAKE r \in Relays
<1>1. batch[r] \in Seq(Leased)
  BY DEF TypeOK, Leased
<1>2. \A i \in 1..Len(batch[r]) : batch[r][i] \in Leased
  BY <1>1, ElementOfSeq
<1>3. QED
  BY <1>2 DEF Leased, Held

LeasesAgree ==
  /\ \A q, r \in Relays : q # r => Held(q) \cap Held(r) = {}
  /\ \A r \in Relays : \A e \in Held(r) : wait[e] = lease[r] /\ lease[r] > 0

\* A row waits as long as the lease of the one relay that holds it: a claim takes rows
\* that nobody holds, the clock lowers both, and a relay lets go of a row whose wait
\* it changes.
LEMMA LeaseStep ==
  TypeOK /\ LineControl /\ RelayControl /\ LeaseControl /\ [Next]_vars => LeaseControl'
<1> SUFFICES ASSUME TypeOK, LineControl, RelayControl, LeaseControl, [Next]_vars, ~overrun'
             PROVE  LeasesAgree'
  BY DEF LeaseControl, LeasesAgree
<1>0. ASSUME ~overrun
      PROVE  /\ \A q, r \in Relays : q # r => Held(q) \cap Held(r) = {}
             /\ \A r \in Relays : \A e \in Held(r) : wait[e] = lease[r] /\ lease[r] > 0
  BY <1>0 DEF LeaseControl
<1>1. ASSUME UNCHANGED <<overrun, wait, batch, lease>> PROVE LeasesAgree'
  <2>1. ~overrun
    BY <1>1
  <2>2. \A r \in Relays : Held(r)' = Held(r)
    BY <1>1 DEF Held
  <2>3. QED
    BY <1>0, <1>1, <2>1, <2>2 DEF LeasesAgree
<1>2. ASSUME NEW r \in Relays, Claim(r), Claims(r) PROVE LeasesAgree'
  <2>1. ~overrun
    BY <1>2 DEF Claim
  <2>2. \A q \in Relays \ {r} : batch'[q] = batch[q] /\ lease'[q] = lease[q]
    BY <1>2 DEF Claims
  <2>3. \A q \in Relays \ {r} : Held(q)' = Held(q)
    BY <2>2 DEF Held
  <2>4. \A e \in Held(r)' : wait'[e] = Lease /\ wait[e] = 0
    BY <1>2 DEF Claims
  <2>5. \A q \in Relays \ {r} : \A e \in Held(q)' : wait[e] = lease[q] /\ lease[q] > 0
    BY <1>0, <2>1, <2>3
  <2>6. \A q \in Relays \ {r} : Held(q)' \cap Held(r)' = {}
    BY <2>4, <2>5
  <2>7. \A q \in Relays \ {r} : \A e \in Held(q)' : wait'[e] = wait[e]
    BY <1>2, <2>3, <2>6, HeldEvents DEF Claims
  <2>8. lease'[r] = Lease /\ Lease > 0
    BY <1>2, OutboxAssumption DEF Claims
  <2>9. \A q, p \in Relays : q # p => Held(q)' \cap Held(p)' = {}
    BY <1>0, <2>1, <2>3, <2>6
  <2>10. \A q \in Relays : \A e \in Held(q)' : wait'[e] = lease'[q] /\ lease'[q] > 0
    BY <2>2, <2>4, <2>5, <2>7, <2>8
  <2>11. QED
    BY <2>9, <2>10 DEF LeasesAgree
<1>3. ASSUME NEW r \in Relays, Concludes(r) PROVE LeasesAgree'
  <2>1. ~overrun /\ lease' = lease /\ Leaves(r) /\ Settles(r) /\ phase[r] # "idle"
    BY <1>3 DEF Concludes
  <2>2. \A q \in Relays \ {r} : Held(q)' = Held(q)
    BY <2>1 DEF Leaves, Held
  <2>3. Held(r)' \subseteq Held(r) \ {Current(r)} /\ Current(r) \in Held(r)
    BY <2>1, CurrentFacts DEF Leaves
  <2>4. \A q \in Relays : Held(q)' \subseteq Held(q) \ {Current(r)}
    BY <1>0, <2>1, <2>2, <2>3
  <2>5. \A q \in Relays : \A e \in Held(q)' : wait'[e] = wait[e]
    BY <2>1, <2>4, HeldEvents DEF Settles
  <2>6. QED
    BY <1>0, <2>1, <2>4, <2>5 DEF LeasesAgree
<1>4. CASE Tick
  <2>1. /\ ~overrun /\ \A r \in Relays : phase[r] # "idle" => ~(lease[r] <= 1)
        /\ UNCHANGED batch
        /\ wait' = [e \in Events |-> IF wait[e] > 0 THEN wait[e] - 1 ELSE 0]
        /\ lease' = [r \in Relays |-> IF lease[r] > 0 THEN lease[r] - 1 ELSE 0]
    BY <1>4 DEF Tick
  <2>2. \A r \in Relays : Held(r)' = Held(r)
    BY <2>1 DEF Held
  <2>3. \A r \in Relays : \A e \in Held(r) : phase[r] # "idle"
    <3> TAKE r \in Relays
    <3>1. batch[r] = <<>> => Held(r) = {}
      BY DEF Held
    <3>2. QED
      BY <3>1 DEF RelayControl
  <2>4. \A r \in Relays : lease[r] \in Nat
    BY OutboxAssumption DEF TypeOK
  <2>5. \A r \in Relays : \A e \in Held(r) : wait'[e] = lease'[r] /\ lease'[r] > 0
    <3> TAKE r \in Relays
    <3> TAKE e \in Held(r)
    <3>1. e \in Events /\ wait[e] = lease[r] /\ lease[r] \in Nat /\ ~(lease[r] <= 1)
      BY <1>0, <2>1, <2>3, <2>4, HeldEvents
    <3>2. wait'[e] = lease[r] - 1 /\ lease'[r] = lease[r] - 1
      BY <2>1, <3>1
    <3>3. QED
      BY <3>1, <3>2
  <2>6. QED
    BY <1>0, <2>1, <2>2, <2>5 DEF LeasesAgree
<1>5. ASSUME NEW e \in Events, Enqueue(e) PROVE LeasesAgree'
  BY <1>1, <1>5 DEF Enqueue
<1>6. ASSUME NEW r \in Relays, PublishOk(r) PROVE LeasesAgree'
  BY <1>1, <1>6 DEF PublishOk
<1>7. ASSUME NEW r \in Relays, PublishInvalid(r) PROVE LeasesAgree'
  BY <1>1, <1>7 DEF PublishInvalid
<1>8. ASSUME NEW r \in Relays, PublishFails(r) PROVE LeasesAgree'
  BY <1>1, <1>8 DEF PublishFails
<1>9. CASE UNCHANGED vars
  BY <1>1, <1>9 DEF vars
<1>10. QED
  BY <1>2, <1>3, <1>4, <1>5, <1>6, <1>7, <1>8, <1>9, StepCases

\* While leases hold, the row that a relay works on is unpublished and nobody else
\* marks it.
LEMMA SoleHolder ==
  ASSUME TypeOK, LineControl, RelayControl, LeaseControl, ~overrun, NEW r \in Relays, phase[r] # "idle"
  PROVE  /\ row[Current(r)] = "unpublished"
         /\ \A q \in Relays \ {r} : phase[q] = "marking" => Current(q) # Current(r)
<1>1. Current(r) \in Events /\ Current(r) \in Held(r)
  BY CurrentFacts
<1>2. wait[Current(r)] > 0
  BY <1>1 DEF LeaseControl
<1>3. row[Current(r)] = "unpublished"
  BY <1>1, <1>2 DEF LineControl
<1>4. ASSUME NEW q \in Relays \ {r}, phase[q] = "marking" PROVE Current(q) # Current(r)
  <2>1. Current(q) \in Held(q)
    BY <1>4, CurrentFacts
  <2>2. QED
    BY <1>1, <2>1 DEF LeaseControl
<1>5. QED
  BY <1>3, <1>4

SendsCounted(e) ==
  /\ sends[e] <= excuses[e] + 1
  /\ row[e] # "published" /\ ~BeingMarked(e) => sends[e] <= excuses[e]

\* A publish either ends in a mark, or in the fault that excuses the next one.
LEMMA SendStep ==
  TypeOK /\ LineControl /\ RelayControl /\ LeaseControl /\ SendControl /\ [Next]_vars => SendControl'
<1> SUFFICES ASSUME TypeOK, LineControl, RelayControl, LeaseControl, SendControl, [Next]_vars, ~overrun',
                    NEW e \in Events
             PROVE  SendsCounted(e)'
  BY DEF SendControl, SendsCounted
<1>0. /\ phase \in [Relays -> Phases] /\ row \in [Events -> {"absent", "unpublished", "published"}]
      /\ sends[e] \in 0..SendCap /\ excuses[e] \in 0..SendCap /\ SendCap \in Nat
  BY OutboxAssumption DEF TypeOK, Phases, SendCap
<1>1. ASSUME ~overrun PROVE SendsCounted(e)
  BY <1>1 DEF SendControl, SendsCounted
<1>2. ASSUME ~overrun, UNCHANGED <<sends, excuses>>, row'[e] # "published" => row[e] # "published",
             \A q \in Relays : phase[q] = "marking" => phase'[q] = "marking" /\ batch'[q] = batch[q]
      PROVE  SendsCounted(e)'
  <2>1. BeingMarked(e) => BeingMarked(e)'
    BY <1>2 DEF BeingMarked, Current
  <2>2. QED
    BY <1>1, <1>2, <2>1 DEF SendsCounted
<1>3. ASSUME NEW d \in Events, Enqueue(d) PROVE SendsCounted(e)'
  <2>1. row'[e] # "published" => row[e] # "published"
    BY <1>0, <1>3 DEF Enqueue
  <2>2. QED
    BY <1>2, <1>3, <2>1 DEF Enqueue
<1>4. ASSUME NEW r \in Relays, Claim(r), Claims(r) PROVE SendsCounted(e)'
  <2>1. phase[r] = "idle" /\ ~overrun /\ UNCHANGED <<sends, excuses, row>>
    BY <1>4 DEF Claim
  <2>2. \A q \in Relays \ {r} : batch'[q] = batch[q] /\ phase'[q] = phase[q]
    BY <1>4 DEF Claims
  <2>3. QED
    BY <1>2, <2>1, <2>2
<1>5. ASSUME NEW r \in Relays, PublishOk(r) PROVE SendsCounted(e)'
  <2>1. /\ phase[r] = "publishing" /\ ~overrun /\ UNCHANGED <<row, batch, excuses>>
        /\ phase' = [phase EXCEPT ![r] = "marking"] /\ Send(Current(r)) /\ Current(r) \in Events
    BY <1>5, CurrentFacts DEF PublishOk, Publishing
  <2>2. \A q \in Relays : phase[q] = "marking" => phase'[q] = "marking"
    BY <1>0, <2>1
  <2>3. BeingMarked(e) => BeingMarked(e)'
    BY <2>1, <2>2 DEF BeingMarked, Current
  <2>4. CASE e # Current(r)
    <3>1. sends'[e] = sends[e]
      BY <2>1, <2>4, SendTypes
    <3>2. QED
      BY <1>1, <2>1, <2>3, <3>1 DEF SendsCounted
  <2>5. CASE e = Current(r)
    <3>1. row[e] # "published" /\ ~BeingMarked(e)
      BY <2>1, <2>5, SoleHolder DEF BeingMarked
    <3>2. sends[e] <= excuses[e]
      BY <1>1, <2>1, <3>1 DEF SendsCounted
    <3>3. sends'[e] = Capped(sends[e] + 1)
      BY <2>1, <2>5, SendTypes
    <3>4. sends'[e] <= excuses[e] + 1
      BY <1>0, <3>2, <3>3 DEF Capped
    <3>5. phase'[r] = "marking" /\ Current(r)' = e
      BY <1>0, <2>1, <2>5 DEF Current
    <3>6. BeingMarked(e)'
      BY <3>5 DEF BeingMarked
    <3>7. QED
      BY <2>1, <3>4, <3>6 DEF SendsCounted
  <2>6. QED
    BY <2>4, <2>5
<1>6. ASSUME NEW r \in Relays, PublishInvalid(r) PROVE SendsCounted(e)'
  <2>1. /\ phase[r] = "publishing" /\ ~overrun /\ UNCHANGED <<row, batch, sends, excuses>>
        /\ phase' = [phase EXCEPT ![r] = "failing"]
    BY <1>6 DEF PublishInvalid, Publishing
  <2>2. \A q \in Relays : phase[q] = "marking" => phase'[q] = "marking"
    BY <1>0, <2>1
  <2>3. QED
    BY <1>2, <2>1, <2>2
<1>7. ASSUME NEW r \in Relays, PublishFails(r) PROVE SendsCounted(e)'
  <2>1. /\ phase[r] = "publishing" /\ ~overrun /\ UNCHANGED <<row, batch>>
        /\ phase' = [phase EXCEPT ![r] = "failing"]
        /\ Send(Current(r)) /\ Fault(Current(r)) /\ Current(r) \in Events
    BY <1>7, CurrentFacts DEF PublishFails, Publishing
  <2>2. \A q \in Relays : phase[q] = "marking" => phase'[q] = "marking"
    BY <1>0, <2>1
  <2>3. BeingMarked(e) => BeingMarked(e)'
    BY <2>1, <2>2 DEF BeingMarked, Current
  <2>4. CASE e # Current(r)
    <3>1. sends'[e] = sends[e] /\ excuses'[e] = excuses[e]
      BY <2>1, <2>4, SendTypes, FaultTypes
    <3>2. QED
      BY <1>1, <2>1, <2>3, <3>1 DEF SendsCounted
  <2>5. CASE e = Current(r)
    <3>1. row[e] # "published" /\ ~BeingMarked(e)
      BY <2>1, <2>5, SoleHolder DEF BeingMarked
    <3>2. sends[e] <= excuses[e]
      BY <1>1, <2>1, <3>1 DEF SendsCounted
    <3>3. sends'[e] = Capped(sends[e] + 1) /\ excuses'[e] = Capped(excuses[e] + 1)
      BY <2>1, <2>5, SendTypes, FaultTypes
    <3>4. sends'[e] <= excuses'[e] /\ excuses'[e] \in Nat
      BY <1>0, <3>2, <3>3 DEF Capped
    <3>5. sends'[e] <= excuses'[e] + 1
      BY <1>0, <3>3, <3>4 DEF Capped
    <3>6. QED
      BY <3>4, <3>5 DEF SendsCounted
  <2>6. QED
    BY <2>4, <2>5
<1>8. ASSUME NEW r \in Relays, Concludes(r) PROVE SendsCounted(e)'
  <2>1. /\ phase[r] # "idle" /\ ~overrun /\ UNCHANGED sends /\ Leaves(r) /\ Settles(r)
        /\ Current(r) \in Events
    BY <1>8, CurrentFacts DEF Concludes
  <2>2. \A q \in Relays \ {r} : batch'[q] = batch[q] /\ phase'[q] = phase[q]
    BY <2>1 DEF Leaves
  <2>3. CASE e # Current(r)
    <3>1. BeingMarked(e) => BeingMarked(e)'
      <4> HAVE BeingMarked(e)
      <4>1. PICK q \in Relays : phase[q] = "marking" /\ Current(q) = e
        BY DEF BeingMarked
      <4>2. q # r
        BY <2>3, <4>1
      <4>3. phase'[q] = "marking" /\ Current(q)' = e
        BY <2>2, <4>1, <4>2 DEF Current
      <4>4. QED
        BY <4>3 DEF BeingMarked
    <3>2. row'[e] = row[e]
      BY <2>1, <2>3 DEF Settles
    <3>3. excuses'[e] = excuses[e]
      BY <1>8, <2>1, <2>3, FaultTypes DEF Concludes
    <3>4. QED
      BY <1>1, <2>1, <3>1, <3>2, <3>3 DEF SendsCounted
  <2>4. CASE e = Current(r) /\ row'[e] = "published" /\ UNCHANGED <<excuses, faults>>
    BY <1>1, <2>1, <2>4 DEF SendsCounted
  <2>5. CASE e = Current(r) /\ phase[r] = "failing" /\ UNCHANGED <<excuses, faults>>
    <3>1. row[e] # "published" /\ ~BeingMarked(e)
      BY <2>1, <2>5, SoleHolder DEF BeingMarked
    <3>2. sends[e] <= excuses[e] /\ sends[e] <= excuses[e] + 1
      BY <1>1, <2>1, <3>1 DEF SendsCounted
    <3>3. QED
      BY <2>1, <2>5, <3>2 DEF SendsCounted
  <2>6. CASE e = Current(r) /\ Fault(Current(r))
    <3>1. sends[e] <= excuses[e] + 1
      BY <1>1, <2>1 DEF SendsCounted
    <3>2. excuses'[e] = Capped(excuses[e] + 1)
      BY <2>1, <2>6, FaultTypes
    <3>3. sends'[e] <= excuses'[e]
      BY <1>0, <2>1, <3>1, <3>2 DEF Capped
    <3>4. sends'[e] <= excuses'[e] + 1
      BY <1>0, <2>1, <3>2, <3>3 DEF Capped
    <3>5. QED
      BY <3>3, <3>4 DEF SendsCounted
  <2>7. QED
    BY <1>8, <2>3, <2>4, <2>5, <2>6 DEF Concludes
<1>9. CASE Tick
  <2>1. ~overrun /\ UNCHANGED <<row, batch, phase, sends, excuses>>
    BY <1>9 DEF Tick
  <2>2. QED
    BY <1>2, <2>1
<1>10. CASE UNCHANGED vars
  <2>1. ~overrun /\ UNCHANGED <<row, batch, phase, sends, excuses>>
    BY <1>10 DEF vars
  <2>2. QED
    BY <1>2, <2>1
<1>11. QED
  BY <1>3, <1>4, <1>5, <1>6, <1>7, <1>8, <1>9, <1>10, StepCases

-----------------------------------------------------------------------------
(* The theorems. *)

LEMMA OutboxInit == Init => OutboxInv
<1> SUFFICES ASSUME Init PROVE OutboxInv
  OBVIOUS
<1>1. <<>> \in Seq(Events) /\ <<>> \in Seq([event : Events, delay : 0..MaxBackoff]) /\ Len(<<>>) = 0
  BY EmptySeq
<1>2. TypeOK
  <2>1. batch \in [Relays -> Seq([event : Events, delay : 0..MaxBackoff])] /\ line \in Seq(Events)
    BY <1>1 DEF Init
  <2>2. /\ SendCap \in Nat /\ sends \in [Events -> 0..SendCap] /\ excuses \in [Events -> 0..SendCap]
        /\ lease \in [Relays -> 0..Lease] /\ delay \in [Events -> 0..MaxBackoff]
        /\ wait \in [Events -> Nat] /\ faults \in 0..MaxFaults
    BY OutboxAssumption DEF Init, SendCap
  <2>3. /\ row \in [Events -> {"absent", "unpublished", "published"}] /\ stored \subseteq Events
        /\ phase \in [Relays -> {"idle", "publishing", "marking", "failing"}] /\ overrun \in BOOLEAN
    BY DEF Init
  <2>4. QED
    BY <2>1, <2>2, <2>3 DEF TypeOK
<1>3. LineControl
  BY <1>1 DEF Init, LineControl
<1>4. \A r \in Relays : batch[r] = <<>> /\ phase[r] = "idle" /\ Held(r) = {}
  BY <1>1 DEF Init, Held
<1>5. RelayControl
  BY <1>1, <1>4 DEF RelayControl
<1>6. LeaseControl
  BY <1>4 DEF LeaseControl
<1>7. PublishedIsStored /\ SendControl
  BY DEF Init, PublishedIsStored, SendControl
<1>8. QED
  BY <1>2, <1>3, <1>5, <1>6, <1>7 DEF OutboxInv

LEMMA OutboxInductive == Spec => []OutboxInv
<1>1. OutboxInv /\ [Next]_vars => OutboxInv'
  BY TypeStep, LineStep, RelayStep, PublishedStep, LeaseStep, SendStep DEF OutboxInv
<1>2. QED
  BY <1>1, OutboxInit, PTL DEF Spec

\* The variables of the outbox keep their types; the delay never exceeds the maximum
\* backoff however often a row is claimed.
THEOREM OutboxTyped == Spec => []TypeOK
<1>1. OutboxInv => TypeOK
  BY DEF OutboxInv
<1>2. QED
  BY <1>1, OutboxInductive, PTL

\* Whatever fails and whoever else works on the row, a row marked published is in the
\* stream.
THEOREM OutboxPublishedIsStored == Spec => []PublishedIsStored
<1>1. OutboxInv => PublishedIsStored
  BY DEF OutboxInv
<1>2. QED
  BY <1>1, OutboxInductive, PTL

\* While no relay outlives its lease, the relays hold disjoint rows and none of them
\* is published.
THEOREM OutboxLeaseExclusive == Spec => []LeaseExclusive
<1>1. OutboxInv => LeaseExclusive
  <2> SUFFICES ASSUME OutboxInv, ~overrun
               PROVE  /\ \A q, r \in Relays : q # r => Held(q) \cap Held(r) = {}
                      /\ \A r \in Relays : \A e \in Held(r) : row[e] # "published"
    BY DEF LeaseExclusive
  <2>1. \A r \in Relays : \A e \in Held(r) : e \in Events /\ wait[e] > 0
    BY HeldEvents DEF OutboxInv, LeaseControl
  <2>2. \A r \in Relays : \A e \in Held(r) : row[e] # "published"
    BY <2>1 DEF OutboxInv, LineControl
  <2>3. QED
    BY <2>2 DEF OutboxInv, LeaseControl
<1>2. QED
  BY <1>1, OutboxInductive, PTL

\* While no relay outlives its lease, a row is published at most once more than it met
\* failures.
THEOREM OutboxRepeatsExplained == Spec => []RepeatsExplained
<1>1. OutboxInv => RepeatsExplained
  BY DEF OutboxInv, SendControl, RepeatsExplained
<1>2. QED
  BY <1>1, OutboxInductive, PTL
=============================================================================
