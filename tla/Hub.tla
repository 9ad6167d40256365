-------------------------------- MODULE Hub --------------------------------
(***************************************************************************)
(* How the web daemon tells its panels what happens: the hub of            *)
(* server-sent events, the goroutines that broadcast through it (state     *)
(* snapshots and console events), the Telegram notifications that          *)
(* broadcastState derives from the snapshots, and the panel's two ways to  *)
(* the console lines: the stream, and polling /evlog when a proxy buffers  *)
(* the stream.                                                             *)
(*                                                                         *)
(* A snapshot is the version of the tunnels' state it was read from, an    *)
(* event its sequence number; one action is what a goroutine does under    *)
(* one lock, or between two points where the others may run.               *)
(***************************************************************************)
EXTENDS Integers, Sequences, FiniteSets

CONSTANTS
    Producers,   \* goroutines that broadcast: EventsLoop, HTTP handlers, tailers
    Heartbeat,   \* the goroutine of StateLoop
    Panels,      \* browsers
    EvCap,       \* entries the event ring keeps
    LossyCap,    \* frames a client's lossy channel holds
    MaxWorld,    \* bound: versions of the tunnels' state
    MaxSeq       \* bound: events

ASSUME ProducersAssumption == IsFiniteSet(Producers)
ASSUME HeartbeatAssumption == Heartbeat \notin Producers
ASSUME CapAssumption == EvCap \in Nat \ {0} /\ LossyCap \in Nat
ASSUME BoundAssumption == MaxWorld \in Nat \ {0} /\ MaxSeq \in Nat

Goroutines == Producers \cup {Heartbeat}
None == 0                        \* no snapshot yet
Versions == 1..MaxWorld
Snapshots == Versions \cup {None}
Seqs == 1..MaxSeq

VARIABLES
    world,      \* the tunnels' state as docker ps tells it now; one that fails tells
                \* of no container that runs
    evSeq,      \* number of the newest event
    evRing,     \* the recorded events
    pc,         \* what each goroutine does
    frame,      \* the snapshot or event it is broadcasting
    last,       \* lastTunState: the snapshot the next is compared with
    crossing,   \* the notification a goroutine has decided on
    stream,     \* a panel's /events request
    slot,       \* its client's coalesce-latest state slot
    lossy,      \* its client's lossy channel
    buffered,   \* does a proxy hold the stream back?
    shown,      \* the snapshot the panel shows
    console,    \* the lines of its console
    cursor,     \* its evSeq: the newest event it knows of
    poll,       \* its /evlog request
    first,      \* history: the first snapshot compared
    told,       \* history: "up" notifications less "down" ones
    latest,     \* history: the newest broadcast since the panel connected
    delayed,    \* history: events relayed while a snapshot was pending
    fallen      \* history: events that had left the ring when the panel asked

worldVars == <<world>>
eventVars == <<evSeq, evRing>>
notifyVars == <<last, crossing, first, told>>
streamVars == <<stream, slot, lossy, latest, delayed>>
panelVars == <<shown, console, cursor, poll, fallen>>
vars == <<world, evSeq, evRing, pc, frame, last, crossing, stream, slot, lossy,
          buffered, shown, console, cursor, poll, first, told, latest, delayed, fallen>>

Idle == [at |-> "none", since |-> 0, events |-> <<>>, seq |-> 0]
Polls == [at : {"none", "asked", "answered"}, since : 0..MaxSeq,
          events : Seq(Seqs), seq : 0..MaxSeq]

Pcs == {"idle", "fan", "push", "swap", "notify"}

TypeOK ==
    /\ world \in Versions
    /\ evSeq \in 0..MaxSeq
    /\ evRing \in Seq(Seqs) /\ Len(evRing) <= EvCap
    /\ pc \in [Goroutines -> Pcs]
    /\ frame \in [Goroutines -> Nat]
    /\ last \in Snapshots
    /\ crossing \in [Goroutines -> {"none", "up", "down"}]
    /\ stream \in [Panels -> {"closed", "open", "live", "picked"}]
    /\ slot \in [Panels -> Snapshots]
    /\ lossy \in [Panels -> Seq(Seqs)]
    /\ \A p \in Panels : Len(lossy[p]) <= LossyCap
    /\ buffered \in [Panels -> BOOLEAN]
    /\ shown \in [Panels -> Snapshots]
    /\ console \in [Panels -> Seq(Seqs)]
    /\ cursor \in [Panels -> 0..MaxSeq]
    /\ poll \in [Panels -> Polls]
    /\ first \in Snapshots
    /\ told \in Int
    /\ latest \in [Panels -> Snapshots]
    /\ delayed \in [Panels -> Nat]
    /\ fallen \in [Panels -> SUBSET Seqs]

\* A page that has just been loaded: it opens the stream and asks for the past.
Init ==
    /\ world = 1
    /\ evSeq = 0 /\ evRing = <<>>
    /\ pc = [g \in Goroutines |-> "idle"]
    /\ frame = [g \in Goroutines |-> None]
    /\ last = None /\ first = None /\ told = 0
    /\ crossing = [g \in Goroutines |-> "none"]
    /\ stream = [p \in Panels |-> "closed"]
    /\ slot = [p \in Panels |-> None]
    /\ lossy = [p \in Panels |-> <<>>]
    /\ buffered \in [Panels -> BOOLEAN]
    /\ shown = [p \in Panels |-> None]
    /\ console = [p \in Panels |-> <<>>]
    /\ cursor = [p \in Panels |-> 0]
    /\ poll = [p \in Panels |-> [Idle EXCEPT !.at = "asked"]]
    /\ latest = [p \in Panels |-> None]
    /\ delayed = [p \in Panels |-> 0]
    /\ fallen = [p \in Panels |-> {}]

-----------------------------------------------------------------------------
(* Producers                                                               *)

\* Goroutine g goes on at l with payload v.
Goto(g, l, v) ==
    /\ pc' = [pc EXCEPT ![g] = l]
    /\ frame' = [frame EXCEPT ![g] = v]

Done(g) == Goto(g, "idle", None)

\* The tunnel goes up or down, or docker begins to fail or to answer again: docker ps
\* knows, the daemon not yet.
WorldChanges ==
    /\ world < MaxWorld
    /\ world' = world + 1
    /\ UNCHANGED <<eventVars, pc, frame, notifyVars, streamVars, buffered, panelVars>>

\* Is the tunnel on in version v?  Also a version in which docker fails shows it off.
On(v) == v % 2 = 0

\* Mutant: the ring is never trimmed.
KeptAll(s) == s

\* The newest EvCap entries.
Kept(s) == IF Len(s) > EvCap THEN SubSeq(s, Len(s) - EvCap + 1, Len(s)) ELSE s

\* Broadcast of an event, under evMu: it gets its number and its place in the ring.
Stamp(g) ==
    /\ pc[g] = "idle" /\ g \in Producers
    /\ evSeq < MaxSeq
    /\ evSeq' = evSeq + 1
    /\ evRing' = Kept(Append(evRing, evSeq + 1))
    /\ Goto(g, "fan", evSeq + 1)
    /\ UNCHANGED <<world, notifyVars, streamVars, buffered, panelVars>>

Registered(p) == stream[p] # "closed"

\* Broadcast of an event, under h.mu: a client whose channel is full misses it.
FanOut(g) ==
    /\ pc[g] = "fan"
    /\ lossy' = [p \in Panels |->
                   IF Registered(p) /\ Len(lossy[p]) < LossyCap
                   THEN Append(lossy[p], frame[g]) ELSE lossy[p]]
    /\ Done(g)
    /\ UNCHANGED <<world, eventVars, notifyVars, stream, slot, latest,
                   delayed, buffered, panelVars>>

\* Mutant: the heartbeat sends what the last broadcast saw.
ReadsLast(g) == IF g = Heartbeat /\ last # None THEN last ELSE world

\* State(): what docker ps and the auth directories say now; State ignores that docker
\* fails.
Reads(g) == world

TakeSnapshot(g) ==
    /\ pc[g] = "idle"
    /\ Goto(g, "push", Reads(g))
    /\ UNCHANGED <<world, eventVars, notifyVars, streamVars, buffered, panelVars>>

\* Mutant: a snapshot that finds the slot taken is dropped, as events are.
PushedIfEmpty(old, new) == IF old = None THEN new ELSE old

\* pushState: an undelivered snapshot is replaced.
Pushed(old, new) == new

\* Broadcast of a snapshot, under h.mu; broadcastState goes on to compare it.
PushState(g) ==
    /\ pc[g] = "push"
    /\ slot' = [p \in Panels |->
                  IF Registered(p) THEN Pushed(slot[p], frame[g]) ELSE slot[p]]
    /\ latest' = [p \in Panels |-> IF Registered(p) THEN frame[g] ELSE latest[p]]
    /\ IF g = Heartbeat THEN Done(g) ELSE Goto(g, "swap", frame[g])
    /\ UNCHANGED <<world, eventVars, notifyVars, stream, lossy, delayed,
                   buffered, panelVars>>

\* Mutant: a tunnel that the first snapshot finds up is announced.
CrossedFromNil(old, new) ==
    IF On(new) /\ (old = None \/ ~On(old)) THEN "up"
    ELSE IF old # None /\ On(old) /\ ~On(new) THEN "down" ELSE "none"

\* What is announced between two snapshots; nothing at the first one.
Crossed(old, new) ==
    IF old = None \/ On(old) = On(new) THEN "none"
    ELSE IF On(new) THEN "up" ELSE "down"

\* broadcastState, under d.mu: the snapshot takes the place of the last one.
SwapLast(g) ==
    /\ pc[g] = "swap"
    /\ last' = frame[g]
    /\ first' = IF last = None THEN frame[g] ELSE first
    /\ crossing' = [crossing EXCEPT ![g] = Crossed(last, frame[g])]
    /\ Goto(g, "notify", None)
    /\ UNCHANGED <<world, eventVars, told, streamVars, buffered, panelVars>>

NotifyState(g) ==
    /\ pc[g] = "notify"
    /\ told' = CASE crossing[g] = "up" -> told + 1
                 [] crossing[g] = "down" -> told - 1
                 [] OTHER -> told
    /\ crossing' = [crossing EXCEPT ![g] = "none"]
    /\ Done(g)
    /\ UNCHANGED <<world, eventVars, last, first, streamVars, buffered, panelVars>>

-----------------------------------------------------------------------------
(* The stream of a panel                                                   *)

Connect(p) ==
    /\ stream[p] = "closed"
    /\ stream' = [stream EXCEPT ![p] = "open"]
    /\ UNCHANGED <<world, eventVars, pc, frame, notifyVars, slot, lossy, latest,
                   delayed, buffered, panelVars>>

\* What is written to the stream reaches the panel, unless a proxy keeps it.
Shows(p, v) == shown' = [shown EXCEPT ![p] = IF buffered[p] THEN @ ELSE v]

\* The snapshot every client is sent when it connects.
Greet(p) ==
    /\ stream[p] = "open"
    /\ Shows(p, world)
    /\ stream' = [stream EXCEPT ![p] = "live"]
    /\ UNCHANGED <<world, eventVars, pc, frame, notifyVars, slot, lossy, latest,
                   delayed, buffered, console, cursor, poll, fallen>>

\* The first select found no snapshot: the second one waits for whatever comes.
FindsNoState(p) ==
    /\ stream[p] = "live" /\ slot[p] = None
    /\ stream' = [stream EXCEPT ![p] = "picked"]
    /\ UNCHANGED <<world, eventVars, pc, frame, notifyVars, slot, lossy, latest,
                   delayed, buffered, panelVars>>

RelayState(p) ==
    /\ stream[p] \in {"live", "picked"} /\ slot[p] # None
    /\ Shows(p, slot[p])
    /\ slot' = [slot EXCEPT ![p] = None]
    /\ delayed' = [delayed EXCEPT ![p] = 0]
    /\ stream' = [stream EXCEPT ![p] = "live"]
    /\ UNCHANGED <<world, eventVars, pc, frame, notifyVars, lossy, latest,
                   buffered, console, cursor, poll, fallen>>

\* Mutant: one select for both channels.
RelaysAnything(p) == stream[p] \in {"live", "picked"}

\* Only the second select serves the lossy channel.
RelaysEvents(p) == stream[p] = "picked"

\* The panel prints the line and moves its cursor.
RelayEvent(p) ==
    /\ RelaysEvents(p) /\ lossy[p] # <<>>
    /\ LET s == Head(lossy[p])
       IN  IF buffered[p] THEN UNCHANGED <<console, cursor>>
           ELSE /\ console' = [console EXCEPT ![p] = Append(@, s)]
                /\ cursor' = [cursor EXCEPT ![p] = IF s > @ THEN s ELSE @]
    /\ lossy' = [lossy EXCEPT ![p] = Tail(@)]
    /\ delayed' = [delayed EXCEPT ![p] = IF slot[p] = None THEN 0 ELSE @ + 1]
    /\ stream' = [stream EXCEPT ![p] = "live"]
    /\ UNCHANGED <<world, eventVars, pc, frame, notifyVars, slot, latest,
                   buffered, shown, poll, fallen>>

\* The connection breaks; EventSource will connect again, to a client of its own.
Disconnect(p) ==
    /\ Registered(p)
    /\ stream' = [stream EXCEPT ![p] = "closed"]
    /\ slot' = [slot EXCEPT ![p] = None]
    /\ lossy' = [lossy EXCEPT ![p] = <<>>]
    /\ latest' = [latest EXCEPT ![p] = None]
    /\ delayed' = [delayed EXCEPT ![p] = 0]
    /\ UNCHANGED <<world, eventVars, pc, frame, notifyVars, buffered, panelVars>>

-----------------------------------------------------------------------------
(* pullEvlog: at load, and whenever the stream is quiet                    *)

PollAsks(p) ==
    /\ poll[p].at = "none"
    /\ poll' = [poll EXCEPT ![p] = [Idle EXCEPT !.at = "asked", !.since = cursor[p]]]
    /\ UNCHANGED <<world, eventVars, pc, frame, notifyVars, streamVars, buffered,
                   shown, console, cursor, fallen>>

\* The last n entries of the ring.
RingEnd(n) == SubSeq(evRing, Len(evRing) - n + 1, Len(evRing))

\* Mutant: the newest line the panel knows is sent again.
NotOlder(since) == RingEnd(Cardinality({i \in DOMAIN evRing : evRing[i] >= since}))

\* The recorded events after since: the ring is in order, so they are its end.
Newer(since) == RingEnd(Cardinality({i \in DOMAIN evRing : evRing[i] > since}))

\* Under evMu: the events and the number of the newest belong together.
ServeEvLog(p) ==
    /\ poll[p].at = "asked"
    /\ poll' = [poll EXCEPT ![p].at = "answered", ![p].seq = evSeq,
                            ![p].events = Newer(poll[p].since)]
    /\ fallen' = [fallen EXCEPT ![p] = @ \cup (poll[p].since + 1)..(evSeq - EvCap)]
    /\ UNCHANGED <<world, eventVars, pc, frame, notifyVars, streamVars, buffered,
                   shown, console, cursor>>

PollApplies(p) ==
    /\ poll[p].at = "answered"
    /\ console' = [console EXCEPT ![p] = @ \o poll[p].events]
    /\ cursor' = [cursor EXCEPT ![p] = IF poll[p].seq > @ THEN poll[p].seq ELSE @]
    /\ poll' = [poll EXCEPT ![p] = Idle]
    /\ UNCHANGED <<world, eventVars, pc, frame, notifyVars, streamVars, buffered,
                   shown, fallen>>

PollFails(p) ==
    /\ poll[p].at # "none"
    /\ poll' = [poll EXCEPT ![p] = Idle]
    /\ UNCHANGED <<world, eventVars, pc, frame, notifyVars, streamVars, buffered,
                   shown, console, cursor, fallen>>

-----------------------------------------------------------------------------
\* What a goroutine does once it has begun to broadcast.
Broadcast(g) == FanOut(g) \/ PushState(g) \/ SwapLast(g) \/ NotifyState(g)

Relay(p) == Greet(p) \/ FindsNoState(p) \/ RelayState(p) \/ RelayEvent(p)

Next ==
    \/ WorldChanges
    \/ \E g \in Goroutines : Stamp(g) \/ TakeSnapshot(g) \/ Broadcast(g)
    \/ \E p \in Panels :
         \/ Connect(p) \/ Relay(p) \/ Disconnect(p)
         \/ PollAsks(p) \/ ServeEvLog(p) \/ PollApplies(p) \/ PollFails(p)

Spec == Init /\ [][Next]_vars

\* The ticker of StateLoop goes on, broadcasts end (no client can block them), and
\* a connected client's handler keeps writing.
Fairness ==
    /\ WF_vars(TakeSnapshot(Heartbeat))
    /\ \A g \in Goroutines : WF_vars(Broadcast(g))
    /\ \A p \in Panels : WF_vars(Relay(p))
FairSpec == Spec /\ Fairness

-----------------------------------------------------------------------------
(* Properties                                                              *)

\* A client that lags never ends up with less than the newest snapshot broadcast to
\* it: that is in its slot, or was the last thing written to its stream (pushState).
LatestWins ==
    \A p \in Panels : latest[p] # None =>
        \/ slot[p] = latest[p]
        \/ slot[p] = None /\ (shown[p] = latest[p] \/ buffered[p])

\* No backlog of console lines keeps a snapshot waiting: at most one line goes out
\* before it, the one the second select had already turned to (ServeHTTP).
StatePreferred == \A p \in Panels : delayed[p] <= 1

\* Behind a proxy that buffers the stream the console is still complete: it shows
\* every event the panel knows of once, in order, but for those that had fallen off
\* the ring when it asked (ServeEvLog, pullEvlog).
PolledConsole ==
    \A p \in Panels : buffered[p] =>
        /\ \A i, j \in DOMAIN console[p] : i < j => console[p][i] < console[p][j]
        /\ 1..cursor[p] \subseteq {console[p][i] : i \in DOMAIN console[p]} \cup fallen[p]

\* Goroutines that have decided on notification n and not sent it yet.
Deciding(n) == Cardinality({g \in Goroutines : crossing[g] = n})

\* However callers of broadcastState race, no crossing of the compared snapshots is
\* announced twice or lost: the notifications add up to the way from the first
\* snapshot to the last one.
NotificationsAddUp ==
    told + Deciding("up") - Deciding("down") =
        (IF On(last) THEN 1 ELSE 0) - (IF On(first) THEN 1 ELSE 0)

\* A panel that stays connected ends up with the state docker ps tells, although
\* broadcasters overtake one another, docker fails for a while, and no docker event may
\* come (StateLoop).
PanelsConverge ==
    \A p \in Panels :
        <>[](stream[p] \notin {"closed"} /\ ~buffered[p]) => <>[](shown[p] = world)
=============================================================================
