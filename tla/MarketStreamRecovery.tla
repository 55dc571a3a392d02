-------------------------- MODULE MarketStreamRecovery --------------------------
(***************************************************************************)
(* The Alpaca ingress process: its reconnect loop, the task that reads the *)
(* socket, and the BufferedMarketDataPublisher between that task and the   *)
(* event bus.  After an interruption the loop reconnects first, lets live  *)
(* bars collect in a buffer, reads the missing minutes back from Market    *)
(* History, publishes those and releases the buffer.                       *)
(*                                                                         *)
(* Time is counted in regular-session minutes.  The bar of minute m exists *)
(* at the provider from some moment of the next minute on, on the socket   *)
(* and for REST alike.  Quotes, trades and updating bars move no cursor    *)
(* and are left out.                                                       *)
(***************************************************************************)
EXTENDS Integers, Sequences, FiniteSets

CONSTANTS
  Symbols,     \* the streamed symbols
  Rank,        \* their alphabetical order
  Minutes,     \* bound on the clock
  Capacity,    \* max_buffered_bars
  Lookback,    \* the loop's and the requirement's five minutes
  Slack,       \* bars asked for beyond the lookback
  MaxBars,     \* _MAXIMUM_RECOVERY_BARS_PER_SYMBOL
  MaxFaults    \* bound on socket, publish and history failures

ASSUME StreamAssumption ==
  /\ Rank \in [Symbols -> Nat]
  /\ \A s, t \in Symbols : Rank[s] = Rank[t] => s = t
  /\ Minutes \in Nat /\ Capacity \in Nat \ {0} /\ Lookback \in Nat \ {0}
  /\ Slack \in Nat \ {0} /\ MaxBars \in Nat \ {0} /\ MaxFaults \in Nat

VARIABLES
  now,         \* minutes that have ended
  made,        \* bars of each symbol the provider has: minutes 0..made-1
  wire,        \* bars sent on the socket and not read yet
  socket,      \* the reading task: "none", "connecting", "open" or "dead"
  phase,       \* the loop: "down", "connecting", "loading", "fetched", "finishing", "live"
  recovering,  \* the publisher's gate
  buffer,      \* bars held back by the gate
  cursor,      \* _final_bar_cursors, None for a symbol without one
  started,     \* recovery_started_at, None outside a recovery
  connected,   \* connected_at of this session
  ready,       \* has_connected
  missing,     \* the bars Market History returned that are to be published
  rest,        \* those finish_recovery has still to publish
  next,        \* where it is in the buffer, 1 before
  published,   \* bars on the event bus
  owed,        \* history: first minute the running ingress answers for, per symbol
  repeated,    \* history: bars published more than once
  excused,     \* history: bars with a failed publish, or still on the wire at a release
  late,        \* history: an interruption was noticed too late for its lookback
  capped,      \* history: a recovery needed more than MaxBars bars of a symbol
  faults

provider == <<now, made>>
session == <<started, connected, ready>>
publisher == <<recovering, buffer, cursor>>
release == <<rest, next>>
history == <<owed, repeated, excused, late, capped>>
vars == <<provider, wire, socket, phase, publisher, session, missing, release, published, history, faults>>

None == -1 - Minutes - Lookback
Bars == Symbols \X (0..(Minutes - 1))
Elements(s) == {s[i] : i \in 1..Len(s)}

Init ==
  /\ now = 0
  /\ made = [s \in Symbols |-> 0]
  /\ wire = <<>>
  /\ socket = "none"
  /\ phase = "down"
  /\ recovering = FALSE
  /\ buffer = <<>>
  /\ cursor = [s \in Symbols |-> None]
  /\ started = None
  /\ connected = None
  /\ ready = FALSE
  /\ missing = {}
  /\ rest = {}
  /\ next = 1
  /\ published = {}
  /\ owed = [s \in Symbols |-> Minutes]
  /\ repeated = {}
  /\ excused = {}
  /\ late = FALSE
  /\ capped = FALSE
  /\ faults = 0

Fault == faults < MaxFaults /\ faults' = faults + 1

-----------------------------------------------------------------------------
(* The provider. *)

Tick ==
  /\ now < Minutes
  /\ \A s \in Symbols : made[s] = now
  /\ now' = now + 1
  /\ UNCHANGED <<made, wire, socket, phase, publisher, session, missing, release, published, history, faults>>

\* The next bar of a symbol exists; a subscribed socket is sent it.
MakeBar(s) ==
  /\ made[s] < now
  /\ made' = [made EXCEPT ![s] = @ + 1]
  /\ wire' = IF socket = "open" THEN Append(wire, <<s, made[s]>>) ELSE wire
  /\ UNCHANGED <<now, socket, phase, publisher, session, missing, release, published, history, faults>>

-----------------------------------------------------------------------------
(* The event bus behind _publish_target. *)

\* The cursor follows the newest final bar published.
Newest(c, m) == IF m > c THEN m ELSE c

Published(b) ==
  /\ published' = published \cup {b}
  /\ repeated' = repeated \cup (published \cap {b})
  /\ cursor' = [cursor EXCEPT ![b[1]] = Newest(@, b[2])]

\* The publish raises or is cancelled: the bar is on the bus or it is not.
PublishedPerhaps(b) ==
  /\ published' \in {published, published \cup {b}}
  /\ repeated' = IF published' = published THEN repeated ELSE repeated \cup (published \cap {b})
  /\ excused' = excused \cup {b}
  /\ UNCHANGED cursor

-----------------------------------------------------------------------------
(* The loop that gives up a session. *)

\* Bars the ingress answers for and has not published.
Unpublished == {b \in Bars : owed[b[1]] <= b[2] /\ b[2] < made[b[1]] /\ b \notin published}

\* except and finally: the reading task is gone, and the next session recovers from
\* Lookback minutes before the first failure since the last complete recovery.
RestartAlways == now - Lookback
RecoverFrom == IF ready /\ started = None THEN now - Lookback ELSE started
GiveUp ==
  /\ phase' = "down"
  /\ socket' = "none"
  /\ wire' = <<>>
  /\ started' = RecoverFrom
  /\ late' = (late \/ (ready /\ started = None /\ \E b \in Unpublished : b[2] < now - Lookback))
  /\ missing' = {}
  /\ rest' = {}
  /\ next' = 1
  /\ UNCHANGED <<provider, connected, ready, recovering, buffer, owed, capped>>

\* Resolving the universe, the handshake, Market History or a health event fails,
\* with the reading task in the middle of a publish or not.
SessionFails ==
  /\ phase \in {"connecting", "loading", "fetched", "live"}
  /\ Fault
  /\ GiveUp
  /\ IF wire # <<>> /\ socket = "open" /\ ~recovering
     THEN PublishedPerhaps(Head(wire))
     ELSE UNCHANGED <<published, repeated, excused, cursor>>

\* The loop looks at the reading task while it waits for the handshake and when the
\* session is live, and not in between.
NoticeInHandshake ==
  /\ phase = "connecting"
  /\ socket = "dead"
  /\ GiveUp
  /\ UNCHANGED <<published, repeated, excused, cursor, faults>>
NoticeStreamEnd ==
  /\ phase \in {"connecting", "live"}
  /\ socket = "dead"
  /\ GiveUp
  /\ UNCHANGED <<published, repeated, excused, cursor, faults>>

-----------------------------------------------------------------------------
(* A session: gate, connect, read back, release. *)

\* begin_recovery, then the task that opens the socket.
Begin ==
  /\ phase = "down"
  /\ recovering' = TRUE
  /\ buffer' = <<>>
  /\ socket' = "connecting"
  /\ phase' = "connecting"
  /\ UNCHANGED <<provider, wire, cursor, session, missing, release, published, history, faults>>

\* The subscription is acknowledged: bars made from now on reach the socket.
Subscribed ==
  /\ socket = "connecting"
  /\ socket' = "open"
  /\ UNCHANGED <<provider, wire, phase, publisher, session, missing, release, published, history, faults>>

\* connected_at; the first session of the process has nothing to read back.
Connected ==
  /\ phase = "connecting" /\ socket = "open"
  /\ connected' = now
  /\ phase' = IF started = None THEN "fetched" ELSE "loading"
  /\ UNCHANGED <<provider, wire, socket, publisher, started, ready, missing, release, published, history, faults>>

\* recovery_requirement: the number of bars asked for.
Asked == (IF connected - started > Lookback THEN connected - started ELSE Lookback) + Slack
Limit == IF Asked < MaxBars THEN Asked ELSE MaxBars

\* load_latest: the newest Limit bars of the table, the open minute's included.
Loaded(s, upto) == {m \in 0..(made[s] - 1) : m <= upto /\ m > upto - Limit}

\* pending_recovery_bars: completed minutes after the cursor, or after the start.
FromCursor(s, m) ==
  /\ IF cursor[s] = None THEN m >= started ELSE m >= cursor[s]
  /\ m < connected
IsMissing(s, m) ==
  /\ IF cursor[s] = None THEN m >= started ELSE m > cursor[s]
  /\ m < connected

\* Market History synchronises up to connected_at; by the time the table is read, it
\* may hold later bars, though fewer than Slack.
Fetch ==
  /\ phase = "loading"
  /\ \E upto \in connected..now :
       /\ upto - connected < Slack
       /\ missing' = {b \in Bars : b[2] \in Loaded(b[1], upto) /\ IsMissing(b[1], b[2])}
  /\ capped' = (capped \/ Asked > MaxBars)
  /\ phase' = "fetched"
  /\ UNCHANGED <<provider, wire, socket, publisher, session, release, published, owed, repeated, excused, late, faults>>

\* finish_recovery takes the lock.  Bars the task has not read by now are not in the
\* buffer.
Release ==
  /\ phase = "fetched"
  /\ rest' = missing
  /\ excused' = excused \cup (Elements(wire) \cap missing)
  /\ phase' = "finishing"
  /\ UNCHANGED <<provider, wire, socket, publisher, session, missing, next, published, owed, repeated, late, capped, faults>>

\* sorted by timestamp and symbol
Earlier(b, c) == b[2] < c[2] \/ (b[2] = c[2] /\ Rank[b[1]] < Rank[c[1]])

NotFiltered(b) == TRUE
NotRecovered(b) == b \notin missing

\* The loop over the missing bars, then the loop over the buffer: b is published next.
NextMissing(b) == b \in rest /\ \A c \in rest \ {b} : Earlier(b, c)
NextHeld(i) ==
  /\ rest = {}
  /\ i \in next..Len(buffer)
  /\ NotRecovered(buffer[i])
  /\ \A j \in next..(i - 1) : ~NotRecovered(buffer[j])

ToRelease == rest \cup {buffer[i] : i \in {i \in next..Len(buffer) : NotRecovered(buffer[i])}}

ReleaseMissing ==
  /\ phase = "finishing"
  /\ \E b \in rest : NextMissing(b) /\ Published(b) /\ rest' = rest \ {b}
  /\ UNCHANGED <<provider, wire, socket, phase, recovering, buffer, session, missing, next, owed, excused, late, capped, faults>>

ReleaseHeld ==
  /\ phase = "finishing"
  /\ \E i \in 1..Len(buffer) : NextHeld(i) /\ Published(buffer[i]) /\ next' = i + 1
  /\ UNCHANGED <<provider, wire, socket, phase, recovering, buffer, session, missing, rest, owed, excused, late, capped, faults>>

\* A publish fails half way: the gate stays closed and the rest is not published.
ReleaseFails ==
  /\ phase = "finishing"
  /\ Fault
  /\ GiveUp
  /\ \/ \E b \in rest : NextMissing(b) /\ PublishedPerhaps(b)
     \/ \E i \in 1..Len(buffer) : NextHeld(i) /\ PublishedPerhaps(buffer[i])

\* The gate opens; from the first time on, the ingress answers for every later bar.
Released ==
  /\ phase = "finishing" /\ ToRelease = {}
  /\ recovering' = FALSE
  /\ buffer' = <<>>
  /\ next' = 1
  /\ started' = None
  /\ ready' = TRUE
  /\ owed' = IF ready THEN owed ELSE made
  /\ phase' = "live"
  /\ UNCHANGED <<provider, wire, socket, cursor, connected, missing, rest, published, repeated, excused, late, capped, faults>>

-----------------------------------------------------------------------------
(* The task that reads the socket: publish under the publisher's lock. *)

Reading == socket = "open" /\ wire # <<>> /\ phase # "finishing"

RoomForOneMore == Len(buffer) <= Capacity
Room == Len(buffer) < Capacity

HoldBar ==
  /\ Reading /\ recovering
  /\ Room
  /\ buffer' = Append(buffer, Head(wire))
  /\ wire' = Tail(wire)
  /\ UNCHANGED <<provider, socket, phase, recovering, cursor, session, missing, release, published, history, faults>>

\* The buffer is full: the error ends the task.
BufferOverflows ==
  /\ Reading /\ recovering
  /\ ~Room
  /\ socket' = "dead"
  /\ wire' = <<>>
  /\ UNCHANGED <<provider, phase, publisher, session, missing, release, published, history, faults>>

PublishLive ==
  /\ Reading /\ ~recovering
  /\ Published(Head(wire))
  /\ wire' = Tail(wire)
  /\ UNCHANGED <<provider, socket, phase, recovering, buffer, session, missing, release, owed, excused, late, capped, faults>>

PublishLiveFails ==
  /\ Reading /\ ~recovering
  /\ Fault
  /\ PublishedPerhaps(Head(wire))
  /\ socket' = "dead"
  /\ wire' = <<>>
  /\ UNCHANGED <<provider, phase, recovering, buffer, session, missing, release, owed, late, capped>>

\* The handshake fails or the connection is lost, unread bars with it.
StreamDies ==
  /\ socket \in {"connecting", "open"}
  /\ Fault
  /\ socket' = "dead"
  /\ wire' = <<>>
  /\ UNCHANGED <<provider, phase, publisher, session, missing, release, published, history>>

-----------------------------------------------------------------------------
Provider == \E s \in Symbols : MakeBar(s)
Loop == NoticeStreamEnd \/ Begin \/ Connected \/ Fetch \/ Release \/ ReleaseMissing \/ ReleaseHeld \/ Released
Reader == Subscribed \/ HoldBar \/ BufferOverflows \/ PublishLive

Next ==
  \/ Tick \/ Provider \/ Loop \/ Reader
  \/ SessionFails \/ ReleaseFails \/ PublishLiveFails \/ StreamDies

\* The loop retries forever, the task reads while it runs, time passes and the
\* provider makes its bars.
Fairness == WF_vars(Tick) /\ WF_vars(Provider) /\ WF_vars(Loop) /\ WF_vars(Reader)

Spec == Init /\ [][Next]_vars
FairSpec == Spec /\ Fairness

-----------------------------------------------------------------------------
\* Every variable keeps its type, and the buffer its capacity.
TypeOK ==
  /\ now \in 0..Minutes
  /\ made \in [Symbols -> 0..Minutes] /\ \A s \in Symbols : made[s] <= now
  /\ wire \in Seq(Bars)
  /\ socket \in {"none", "connecting", "open", "dead"}
  /\ phase \in {"down", "connecting", "loading", "fetched", "finishing", "live"}
  /\ recovering \in BOOLEAN /\ ready \in BOOLEAN /\ late \in BOOLEAN /\ capped \in BOOLEAN
  /\ buffer \in Seq(Bars) /\ Len(buffer) <= Capacity
  /\ cursor \in [Symbols -> {None} \cup (0..(Minutes - 1))]
  /\ started \in {None} \cup ((-Lookback)..Minutes) /\ connected \in {None} \cup (0..Minutes)
  /\ missing \subseteq Bars /\ rest \subseteq missing /\ next \in 1..(Len(buffer) + 1)
  /\ published \subseteq Bars /\ repeated \subseteq published /\ excused \subseteq Bars
  /\ owed \in [Symbols -> 0..Minutes]
  /\ faults \in 0..MaxFaults

\* No minute is skipped: when a symbol's cursor stands at a bar, every earlier bar
\* made since the ingress was first ready is on the bus, however many sessions,
\* partial releases and full buffers lie between, unless an interruption was noticed
\* more than Lookback minutes after the first bar it cost or lasted more than MaxBars.
NoGap ==
  ~late /\ ~capped =>
    \A s \in Symbols : \A m \in owed[s]..cursor[s] : <<s, m>> \in published

\* A bar is published twice only when a publish of it failed or was cut off, or when
\* the socket still had it at the moment recovery released it.
RepeatsExplained == repeated \subseteq excused

\* No bar gets past the gate ahead of an earlier one of its symbol: what recovery has
\* still to release, read back or buffered, is newer than all that is published, as
\* long as the bars asked for reach back to the first one of the session.
GateKeepsOrder ==
  phase = "finishing" /\ ~capped => \A b \in ToRelease : cursor[b[1]] < b[2]

\* Every bar made since the ingress was first ready is eventually published.
EventuallyPublished ==
  \A b \in Bars : b \in Unpublished ~> b \in published \/ late

-----------------------------------------------------------------------------
(* Why they hold: an inductive invariant. *)

Gated == {"connecting", "loading", "fetched", "finishing"}

\* What the phases of the loop say about the rest of the state.
Control ==
  /\ socket = "none" <=> phase = "down"
  /\ socket = "connecting" => phase = "connecting"
  /\ socket # "open" => wire = <<>>
  /\ phase \in Gated => recovering
  /\ phase = "live" => ready /\ ~recovering /\ buffer = <<>>
  /\ phase \in {"down", "connecting", "loading"} => missing = {}
  /\ phase # "finishing" => rest = {} /\ next = 1
  /\ phase \in {"loading", "fetched", "finishing"} => connected \in 0..now
  /\ started = None <=> ~ready \/ phase = "live"
  /\ phase = "loading" => ready
  /\ started # None => started + Lookback <= now
  /\ ~ready => \A s \in Symbols : owed[s] = Minutes

InOrder(s) == \A i, j \in 1..Len(s) : i < j /\ s[i][1] = s[j][1] => s[i][2] < s[j][2]
Arrived == Elements(buffer) \cup Elements(wire)

\* Bars reach the process in the order they were made, and nothing is known of a bar
\* before it is made.
ArrivalOrder ==
  /\ InOrder(buffer) /\ InOrder(wire)
  /\ \A b \in Elements(buffer), c \in Elements(wire) : b[1] = c[1] => b[2] < c[2]
  /\ \A b \in Arrived \cup missing \cup published : b[2] < made[b[1]]
  /\ \A s \in Symbols : cursor[s] < made[s] /\ now <= made[s] + 1

\* Until the release, what arrived in this session and what was read back is newer
\* than the cursor; and a bar that arrived was read back too, or is newer than all that was.
GateOrder ==
  /\ phase \in {"connecting", "loading", "fetched"} =>
       \A b \in Arrived : cursor[b[1]] < b[2] /\ started <= b[2]
  /\ phase = "fetched" => \A b \in missing : cursor[b[1]] < b[2]
  /\ phase \in {"fetched", "finishing"} /\ ~capped =>
       \A b \in Arrived, c \in missing : b[1] = c[1] => b \in missing \/ c[2] < b[2]
  /\ GateKeepsOrder

\* A bar on the bus is behind its cursor or excused, and one that is still to be
\* published is not on the bus or excused.
RepeatControl ==
  /\ RepeatsExplained
  /\ \A b \in published : b \in excused \/ b[2] <= cursor[b[1]]
  /\ Elements(wire) \cap published \subseteq excused
  /\ phase = "finishing" => ToRelease \cap published \subseteq excused
  /\ phase = "finishing" => Elements(wire) \cap missing \subseteq excused

\* An unpublished bar is in S, or the socket is lost and the bar is newer than S.
Accounted(u, S) == u \in S \/ (socket # "open" /\ \A b \in S : b[1] = u[1] => b[2] < u[2])

\* An unpublished bar is neither behind its cursor nor before the start of the
\* recovery, and it is on its way: among the bars that arrived or were read back.  While
\* Market History is read this is so for the minutes since the connection.
OnItsWay(u) ==
  /\ cursor[u[1]] < u[2] /\ started <= u[2]
  /\ phase = "loading" /\ connected <= u[2] => Accounted(u, Arrived)
  /\ phase = "fetched" => Accounted(u, missing \cup Arrived)
  /\ phase = "finishing" => Accounted(u, ToRelease \cup Elements(wire))
  /\ phase = "live" => Accounted(u, Elements(wire))

GapControl == ~late /\ ~capped => \A u \in Unpublished : OnItsWay(u)

\* What was read back is on the bus or still to be released.
RestControl == phase = "finishing" => missing \subseteq rest \cup published

StreamInv ==
  TypeOK /\ Control /\ ArrivalOrder /\ GateOrder /\ RestControl /\ RepeatControl /\ GapControl
=============================================================================
