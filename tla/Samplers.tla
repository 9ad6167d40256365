------------------------------ MODULE Samplers ------------------------------
(***************************************************************************)
(* The daemon's samplers, for one tunnel with one host: HostPingLoop and   *)
(* its messages, ClientsLoop and its console lines, sampleStats and its    *)
(* rates.  Each reads the world in several steps while it changes.         *)
(***************************************************************************)
EXTENDS Integers, FiniteSets

CONSTANTS
    Ports,                            \* the host's forwarded ports
    Plain,        \* the counts that docker prints as a figure and a unit ("999kB")
    Reading,      \* what parseNetIO makes of that rounded figure
    Grain,        \* the coarsest step of those figures
    MaxFlips, MaxVisits, MaxBytes, MaxLost     \* bounds: changes of the world, failing lsofs

ASSUME PortsAssumption == IsFiniteSet(Ports) /\ Ports # {}
ASSUME BoundsAssumption ==
    MaxFlips \in Nat /\ MaxVisits \in Nat /\ MaxBytes \in Nat /\ MaxLost \in Nat

ASSUME GrainAssumption == Grain \in Nat \ {0}

\* docker rounds to the nearest figure of three digits, and never prints less for more.
ASSUME ReadingAssumption ==
    /\ Plain \subseteq 0..MaxBytes /\ Reading \in [Plain -> Nat]
    /\ 0 \in Plain /\ Reading[0] = 0
    /\ \A n \in Plain : 2 * (Reading[n] - n) <= Grain /\ 2 * (n - Reading[n]) <= Grain
    /\ \A m, n \in Plain : m <= n => Reading[m] <= Reading[n]

VARIABLES
    on,         \* the tunnel, as State() shows it
    answers,    \* the ports that accept connections now
    peer,       \* is somebody connected to the local port?
    bytes,      \* what the container's interface has counted
    flips, visits,
    hostUp,     \* live.hostUp of the host
    told,       \* history: the last message about the host
    poll,       \* history: is the next poll, or the one under way, the first since the
                \* tunnel was started?
    ping,       \* HostPingLoop: where it is; history: ports that answered, or did not,
                \* at some time since the poll began
    seen,       \* ClientsLoop's seen
    logged,     \* history: console lines about the peer
    lost,       \* history: rounds in which lsof failed
    clients,    \* ClientsLoop: where it is
    lastNet,    \* Docker.lastNet (-1: none)
    stat,       \* sampleStats: where it is, what docker stats said, the rate announced last
    moved       \* history: bytes moved between the last two readings, and since (as far as
                \* a counter goes)

pingVars == <<hostUp, told, ping>>
clientVars == <<seen, logged, lost, clients>>
statVars == <<lastNet, stat>>
worldVars == <<on, answers, peer, bytes, flips, visits, moved>>
vars == <<worldVars, pingVars, poll, clientVars, statVars>>

IdlePing == [at |-> "idle", todo |-> {}, up |-> FALSE, did |-> {}, didNot |-> {}]

Init ==
    /\ on \in BOOLEAN /\ answers \in SUBSET Ports
    /\ peer = FALSE /\ bytes = 0 /\ flips = 0 /\ visits = 0
    /\ hostUp = "unknown" /\ told = "nothing" /\ ping = IdlePing
    /\ poll = "first"
    /\ seen = FALSE /\ logged = 0 /\ lost = 0 /\ clients = "idle"
    /\ lastNet = -1 /\ stat = [at |-> "idle", read |-> 0, rate |-> 0]
    /\ moved = [between |-> 0, since |-> 0]

-----------------------------------------------------------------------------
(* The world                                                               *)

\* A poll under way has met the ports as they are then.
Witnessed(now, p) ==
    IF p.at = "idle" THEN p
    ELSE [p EXCEPT !.did = @ \cup now, !.didNot = @ \cup (Ports \ now)]

Reachable(isOn, a) == IF isOn THEN a ELSE {}

PortChanges(p) ==
    /\ flips < MaxFlips /\ flips' = flips + 1
    /\ answers' = IF p \in answers THEN answers \ {p} ELSE answers \cup {p}
    /\ ping' = Witnessed(Reachable(on, answers'), ping)
    /\ UNCHANGED <<on, peer, bytes, visits, moved, hostUp, told, poll, clientVars, statVars>>

\* The container ends: its connections with it; the next one counts from 0.
TunnelChanges ==
    /\ flips < MaxFlips /\ flips' = flips + 1
    /\ on' = ~on /\ peer' = FALSE /\ bytes' = 0
    /\ ping' = Witnessed(Reachable(on', answers), ping)
    /\ poll' = IF on' THEN "first" ELSE poll
    /\ UNCHANGED <<answers, visits, moved, hostUp, told, clientVars, statVars>>

PeerConnects ==
    /\ on /\ ~peer /\ visits < MaxVisits
    /\ peer' = TRUE /\ visits' = visits + 1
    /\ UNCHANGED <<on, answers, bytes, flips, moved, pingVars, poll, clientVars, statVars>>

PeerLeaves ==
    /\ peer
    /\ peer' = FALSE
    /\ UNCHANGED <<on, answers, bytes, flips, visits, moved, pingVars, poll, clientVars, statVars>>

BytesMove ==
    /\ on /\ bytes < MaxBytes
    /\ bytes' = bytes + 1
    /\ moved' = [moved EXCEPT !.since = IF @ < MaxBytes THEN @ + 1 ELSE @]
    /\ UNCHANGED <<on, answers, peer, flips, visits, pingVars, poll, clientVars, statVars>>

-----------------------------------------------------------------------------
(* HostPingLoop: all ports of the host are probed, concurrently            *)

PingBegins ==
    /\ ping.at = "idle" /\ on
    /\ ping' = Witnessed(answers, [IdlePing EXCEPT !.at = "probe", !.todo = Ports])
    /\ poll' = IF poll = "first" THEN "under way" ELSE poll
    /\ UNCHANGED <<worldVars, hostUp, told, clientVars, statVars>>

\* Mutant: the port probed last decides.
LastPort(up, ok) == ok

AnyPort(up, ok) == up \/ ok

Probe(p) ==
    /\ p \in ping.todo
    /\ ping' = [ping EXCEPT !.todo = @ \ {p},
                            !.up = AnyPort(@, p \in Reachable(on, answers))]
    /\ UNCHANGED <<worldVars, hostUp, told, poll, clientVars, statVars>>

\* Nothing is told of a host that has no earlier result; a result outlives the tunnel's
\* container, and is forgotten with the daemon only.
Worth(now) == hostUp # "unknown" /\ hostUp # now

PingRecords ==
    /\ ping.at = "probe" /\ ping.todo = {}
    /\ LET now == IF ping.up THEN "up" ELSE "down" IN
         /\ hostUp' = now
         /\ told' = IF Worth(now) THEN now ELSE told
    /\ ping' = IdlePing
    /\ poll' = IF poll = "under way" THEN "later" ELSE poll
    /\ UNCHANGED <<worldVars, clientVars, statVars>>

-----------------------------------------------------------------------------
(* ClientsLoop                                                             *)

\* Without a running tunnel the round ends here, and peers are not forgotten.
ClientsBegin ==
    /\ clients = "idle" /\ on
    /\ clients' = "lsof"
    /\ UNCHANGED <<worldVars, pingVars, poll, seen, logged, lost, statVars>>

\* Mutant: peers are never remembered.
Forgets(here) == FALSE
Remembers(here) == here

ClientsSee ==
    /\ clients = "lsof"
    /\ logged' = IF peer /\ ~seen THEN logged + 1 ELSE logged
    /\ seen' = Remembers(peer)
    /\ clients' = "idle"
    /\ UNCHANGED <<worldVars, pingVars, poll, lost, statVars>>

\* A failing lsof reads as nobody being connected: every peer is forgotten.
ClientsLost ==
    /\ clients = "lsof" /\ lost < MaxLost
    /\ seen' = FALSE /\ lost' = lost + 1
    /\ clients' = "idle"
    /\ UNCHANGED <<worldVars, pingVars, poll, logged, statVars>>

-----------------------------------------------------------------------------
(* sampleStats, and stopTailer's deletion of the last sample               *)

\* parseNetIO of the text docker prints.  What rounds to 1000 of a unit is printed with
\* an exponent ("1e+03kB"): a 1 of the unknown unit "e+03kB", which counts as bytes.
Parsed(n) == IF n \in Plain THEN Reading[n] ELSE 1

StatReads ==
    /\ stat.at = "idle" /\ on
    /\ stat' = [stat EXCEPT !.at = "read", !.read = Parsed(bytes)]
    /\ moved' = [between |-> moved.since, since |-> 0]
    /\ UNCHANGED <<on, answers, peer, bytes, flips, visits, pingVars, poll, clientVars, lastNet>>

\* Mutant: a difference is announced whatever its sign.
AnySign(n) == n
NotNegative(n) == IF n < 0 THEN 0 ELSE n

\* Mutant: without an earlier reading the difference is to nothing.
RateFromNothing(read) == NotNegative(IF lastNet = -1 THEN read ELSE read - lastNet)

Rate(read) == IF lastNet = -1 THEN stat.rate ELSE NotNegative(read - lastNet)

StatStores ==
    /\ stat.at = "read"
    /\ lastNet' = stat.read
    /\ stat' = [at |-> "idle", read |-> 0, rate |-> Rate(stat.read)]
    /\ UNCHANGED <<worldVars, pingVars, poll, clientVars>>

\* The tunnel's end is heard of at any time after it.
StopTailer ==
    /\ flips > 0 /\ lastNet # -1
    /\ lastNet' = -1
    /\ UNCHANGED <<worldVars, pingVars, poll, clientVars, stat>>

PingStep == PingBegins \/ PingRecords \/ \E p \in Ports : Probe(p)

Next ==
    \/ TunnelChanges \/ PeerConnects \/ PeerLeaves \/ BytesMove
    \/ \E p \in Ports : PortChanges(p)
    \/ PingStep \/ ClientsBegin \/ ClientsSee \/ ClientsLost \/ StatReads \/ StatStores \/ StopTailer

Spec == Init /\ [][Next]_vars

-----------------------------------------------------------------------------
(* Properties                                                              *)

MaxRead == MaxBytes + Grain

TypeOK ==
    /\ on \in BOOLEAN /\ answers \subseteq Ports /\ peer \in BOOLEAN
    /\ bytes \in 0..MaxBytes /\ flips \in 0..MaxFlips /\ visits \in 0..MaxVisits
    /\ hostUp \in {"unknown", "up", "down"} /\ told \in {"nothing", "up", "down"}
    /\ ping \in [at : {"idle", "probe"}, todo : SUBSET Ports, up : BOOLEAN,
                 did : SUBSET Ports, didNot : SUBSET Ports]
    /\ poll \in {"first", "under way", "later"}
    /\ seen \in BOOLEAN /\ logged \in Nat /\ lost \in 0..MaxLost
    /\ clients \in {"idle", "lsof"}
    /\ lastNet \in -1..MaxRead
    /\ stat \in [at : {"idle", "read"}, read : 0..MaxRead, rate : 0..MaxRead]
    /\ moved \in [between : 0..MaxBytes, since : 0..MaxBytes]

\* "now reachable" is told when some port answered during the poll, "now unreachable"
\* when every port failed to at some time in it, although the probes meet the ports at
\* different times ("a host is reachable if ANY of its ports answers").
ReachTruthful ==
    [][told' # told => IF told' = "up" THEN ping.did # {} ELSE ping.didNot = Ports]_vars

\* "oldUp == nil on the first poll for this tunnel since (re)start - skip it so a fresh
\* connect doesn't fire": the first poll that begins after the tunnel was started tells
\* nothing.  It does after a restart, as the result before it is never forgotten.
FirstPollSkipped == [][told' # told => poll # "under way"]_vars

\* A visit is logged once, however many rounds see it, and once more at most for every
\* lsof that fails while it lasts.
LoggedOnce == logged <= visits + lost

\* A rate is never negative; it is 0 when nothing was moved between the two readings, also
\* when the container was another one at the earlier; and it exceeds what was moved by the
\* rounding of docker's figures at most, unless the earlier one was an exponent's 1.
RateHonest ==
    [][stat'.rate # stat.rate =>
         /\ stat'.rate >= 0
         /\ moved.between = 0 => stat'.rate = 0
         /\ lastNet # 1 => stat'.rate <= moved.between + Grain]_vars
=============================================================================
