--------------------------- MODULE SamplersProofs ---------------------------
(***************************************************************************)
(* Proofs about Samplers, for any number of ports and changes: the types,  *)
(* that messages about a host are true, that a visit is logged once, and   *)
(* that a rate is what was moved at most, but for docker's rounding.       *)
(***************************************************************************)
EXTENDS Samplers, TLAPS

PollRecords ==
    [at : {"idle", "probe"}, todo : SUBSET Ports, up : BOOLEAN, did : SUBSET Ports,
     didNot : SUBSET Ports]
StatRecords == [at : {"idle", "read"}, read : 0..MaxRead, rate : 0..MaxRead]
MovedRecords == [between : 0..MaxBytes, since : 0..MaxBytes]

\* The type invariant, by what the parts of the specification own.
WorldTypes ==
    /\ on \in BOOLEAN /\ answers \in SUBSET Ports /\ peer \in BOOLEAN
    /\ bytes \in 0..MaxBytes /\ flips \in 0..MaxFlips /\ visits \in 0..MaxVisits
    /\ moved \in MovedRecords
PingTypes ==
    /\ hostUp \in {"unknown", "up", "down"} /\ told \in {"nothing", "up", "down"}
    /\ ping \in PollRecords /\ poll \in {"first", "under way", "later"}
ClientTypes ==
    seen \in BOOLEAN /\ logged \in Nat /\ lost \in 0..MaxLost /\ clients \in {"idle", "lsof"}
StatTypes == lastNet \in -1..MaxRead /\ stat \in StatRecords

LEMMA TypesByPart == TypeOK <=> WorldTypes /\ PingTypes /\ ClientTypes /\ StatTypes
BY DEF TypeOK, WorldTypes, PingTypes, ClientTypes, StatTypes, PollRecords, StatRecords,
       MovedRecords

-----------------------------------------------------------------------------
(* The inductive invariant: each sampler has its own part                  *)

\* A poll has met the ports as they are, and its result is of ports it has met.
PingInv ==
    ping.at = "probe" =>
        /\ Reachable(on, answers) \subseteq ping.did
        /\ Ports \ Reachable(on, answers) \subseteq ping.didNot
        /\ IF ping.up THEN ping.did # {} ELSE Ports \ ping.todo \subseteq ping.didNot

\* A visit that is not seen is not logged yet, or lsof failed since.
ClientInv == LoggedOnce /\ (peer /\ ~seen => logged < visits + lost)

\* A counter that stood at c may stand at n after m bytes, across restarts.
Follows(n, c, m) == n = c + m \/ n <= m

\* A reading is the figure of a counter, which has moved on since.
StatInv ==
    IF stat.at = "idle"
    THEN lastNet # -1 =>
           \E c \in 0..MaxBytes : lastNet = Parsed(c) /\ Follows(bytes, c, moved.since)
    ELSE \E n \in 0..MaxBytes :
           /\ stat.read = Parsed(n) /\ Follows(bytes, n, moved.since)
           /\ lastNet # -1 =>
                \E c \in 0..MaxBytes : lastNet = Parsed(c) /\ Follows(n, c, moved.between)

SampleInv == TypeOK /\ PingInv /\ ClientInv /\ StatInv

LEMMA FigureTypes == ASSUME NEW n \in 0..MaxBytes PROVE Parsed(n) \in 0..MaxRead
<1>1. MaxBytes \in Nat /\ Grain \in Nat /\ Grain >= 1 /\ n \in Nat /\ n <= MaxBytes
  BY GrainAssumption, BoundsAssumption
<1>2. n \in Plain => Reading[n] \in Nat /\ 2 * (Reading[n] - n) <= Grain
  BY ReadingAssumption
<1> QED BY <1>1, <1>2 DEF Parsed, MaxRead

\* The figures of two counters differ as the counters do, but for the rounding; a figure
\* follows from the counter.
LEMMA Figures ==
    ASSUME NEW c \in 0..MaxBytes, NEW n \in 0..MaxBytes, NEW m \in Nat, Follows(n, c, m)
    PROVE  /\ Parsed(n) \in 0..MaxRead /\ Parsed(c) \in 0..MaxRead
           /\ m = 0 => Parsed(n) <= Parsed(c)
           /\ Parsed(c) # 1 => Parsed(n) - Parsed(c) <= m + Grain
<1>1. /\ m \in Nat /\ n \in Nat /\ c \in Nat /\ Grain \in Nat /\ Grain >= 1 /\ MaxBytes \in Nat
      /\ n <= MaxBytes /\ c <= MaxBytes /\ (n = c + m \/ n <= m)
  BY GrainAssumption, BoundsAssumption DEF Follows
<1>2. ASSUME NEW k \in 0..MaxBytes
      PROVE  /\ k \in Plain => /\ Parsed(k) = Reading[k] /\ Reading[k] \in Nat
                               /\ 2 * (Reading[k] - k) <= Grain /\ 2 * (k - Reading[k]) <= Grain
             /\ k \notin Plain => Parsed(k) = 1
  BY ReadingAssumption DEF Parsed
<1>3. Parsed(n) \in 0..MaxRead /\ Parsed(c) \in 0..MaxRead
  BY FigureTypes
<1>4. Parsed(0) = 0
  BY ReadingAssumption DEF Parsed
<1>5. ASSUME m = 0 PROVE Parsed(n) <= Parsed(c)
  <2>1. n = c \/ n = 0
    BY <1>1, <1>5
  <2> QED BY <1>3, <1>4, <2>1 DEF MaxRead
<1>6. ASSUME Parsed(c) # 1 PROVE Parsed(n) - Parsed(c) <= m + Grain
  <2>1. c \in Plain
    BY <1>2, <1>6
  <2>2. CASE n \in Plain
    <3>1. n - c <= m
      BY <1>1
    <3> QED BY <1>1, <1>2, <2>1, <2>2, <3>1
  <2>3. CASE n \notin Plain
    BY <1>1, <1>2, <2>1, <2>3
  <2> QED BY <2>2, <2>3
<1> QED BY <1>3, <1>5, <1>6

-----------------------------------------------------------------------------
LEMMA WitnessedTypes ==
    ASSUME NEW now \in SUBSET Ports, NEW p \in PollRecords
    PROVE  /\ Witnessed(now, p) \in PollRecords
           /\ Witnessed(now, p).at = p.at /\ Witnessed(now, p).up = p.up
           /\ Witnessed(now, p).todo = p.todo
           /\ p.at = "probe" => /\ Witnessed(now, p).did = p.did \cup now
                                /\ Witnessed(now, p).didNot = p.didNot \cup (Ports \ now)
<1>1. p.did \cup now \in SUBSET Ports /\ p.didNot \cup (Ports \ now) \in SUBSET Ports
  BY DEF PollRecords
<1> QED BY <1>1 DEF Witnessed, PollRecords

LEMMA SampleInit == Init => SampleInv
<1> SUFFICES ASSUME Init PROVE SampleInv
  OBVIOUS
<1> USE BoundsAssumption
<1>1. TypeOK
  <2>1. WorldTypes
    <3>1. moved \in MovedRecords
      BY DEF Init, MovedRecords
    <3>2. bytes \in 0..MaxBytes /\ flips \in 0..MaxFlips /\ visits \in 0..MaxVisits
      BY DEF Init
    <3>3. on \in BOOLEAN /\ answers \in SUBSET Ports /\ peer \in BOOLEAN
      BY DEF Init
    <3> QED BY <3>1, <3>2, <3>3 DEF WorldTypes
  <2>2. PingTypes
    <3>1. ping \in PollRecords
      BY DEF Init, IdlePing, PollRecords
    <3> QED BY <3>1 DEF Init, PingTypes
  <2>3. ClientTypes
    <3>1. seen \in BOOLEAN
      BY DEF Init
    <3>2. logged \in Nat /\ lost \in 0..MaxLost
      BY DEF Init
    <3>3. clients \in {"idle", "lsof"}
      BY DEF Init
    <3> QED BY <3>1, <3>2, <3>3 DEF ClientTypes
  <2>4. StatTypes
    BY GrainAssumption DEF Init, StatTypes, StatRecords, MaxRead
  <2> QED BY <2>1, <2>2, <2>3, <2>4, TypesByPart
<1>2. PingInv
  BY DEF Init, PingInv, IdlePing
<1>3. ClientInv /\ StatInv
  BY DEF Init, ClientInv, LoggedOnce, StatInv
<1> QED BY <1>1, <1>2, <1>3 DEF SampleInv

-----------------------------------------------------------------------------
(* Each step keeps the types                                               *)

LEMMA TypesStep == SampleInv /\ Next => TypeOK'
<1> SUFFICES ASSUME SampleInv, Next PROVE TypeOK'
  OBVIOUS
<1> USE BoundsAssumption
<1>w. WorldTypes
  BY TypesByPart DEF SampleInv
<1>p. PingTypes
  BY TypesByPart DEF SampleInv
<1>c. ClientTypes
  BY TypesByPart DEF SampleInv
<1>s. StatTypes
  BY TypesByPart DEF SampleInv
<1>z. MaxRead \in Nat
  BY GrainAssumption DEF MaxRead
<1>a. ASSUME WorldTypes', PingTypes', ClientTypes', StatTypes' PROVE TypeOK'
  BY <1>a, TypesByPart, PTL
\* What a step leaves alone.
<1>uw. ASSUME UNCHANGED worldVars PROVE WorldTypes'
  BY <1>w, <1>uw DEF worldVars, WorldTypes
<1>up. ASSUME UNCHANGED <<pingVars, poll>> PROVE PingTypes'
  BY <1>p, <1>up DEF pingVars, PingTypes
<1>uc. ASSUME UNCHANGED clientVars PROVE ClientTypes'
  BY <1>c, <1>uc DEF clientVars, ClientTypes
<1>us. ASSUME UNCHANGED statVars PROVE StatTypes'
  BY <1>s, <1>us DEF statVars, StatTypes
<1>r. Reachable(on, answers) \in SUBSET Ports
  BY <1>w DEF WorldTypes, Reachable
<1>1. ASSUME NEW p \in Ports, PortChanges(p) PROVE TypeOK'
  <2>1. answers' \in SUBSET Ports
    BY <1>w, <1>1 DEF PortChanges, WorldTypes
  <2>2. flips' \in 0..MaxFlips
    BY <1>w, <1>1 DEF PortChanges, WorldTypes
  <2>3. WorldTypes'
    BY <1>w, <1>1, <2>1, <2>2 DEF PortChanges, WorldTypes
  <2>4. Reachable(on, answers') \in SUBSET Ports
    BY <2>1 DEF Reachable
  <2>5. ping' \in PollRecords
    BY <1>p, <1>1, <2>4, WitnessedTypes DEF PortChanges, PingTypes
  <2>6. PingTypes'
    BY <1>p, <1>1, <2>5 DEF PortChanges, PingTypes
  <2> QED BY <1>a, <1>uc, <1>us, <1>1, <2>3, <2>6 DEF PortChanges
<1>2. CASE TunnelChanges
  <2>1. on' \in BOOLEAN /\ peer' \in BOOLEAN
    BY <1>w, <1>2 DEF TunnelChanges, WorldTypes
  <2>2. flips' \in 0..MaxFlips /\ bytes' \in 0..MaxBytes
    BY <1>w, <1>2 DEF TunnelChanges, WorldTypes
  <2>3. WorldTypes'
    BY <1>w, <1>2, <2>1, <2>2 DEF TunnelChanges, WorldTypes
  <2>4. Reachable(on', answers) \in SUBSET Ports
    BY <1>w DEF Reachable, WorldTypes
  <2>5. ping' \in PollRecords
    BY <1>p, <1>2, <2>4, WitnessedTypes DEF TunnelChanges, PingTypes
  <2>6. PingTypes'
    BY <1>p, <1>2, <2>5 DEF TunnelChanges, PingTypes
  <2> QED BY <1>a, <1>uc, <1>us, <1>2, <2>3, <2>6 DEF TunnelChanges
<1>3. CASE PeerConnects \/ PeerLeaves
  <2>1. peer' \in BOOLEAN
    BY <1>3 DEF PeerConnects, PeerLeaves
  <2>2. visits' \in 0..MaxVisits
    BY <1>w, <1>3 DEF PeerConnects, PeerLeaves, WorldTypes
  <2>3. WorldTypes'
    BY <1>w, <1>3, <2>1, <2>2 DEF PeerConnects, PeerLeaves, WorldTypes
  <2> QED BY <1>a, <1>up, <1>uc, <1>us, <1>3, <2>3 DEF PeerConnects, PeerLeaves
<1>4. CASE BytesMove
  <2>1. moved \in MovedRecords /\ moved.since \in 0..MaxBytes
    BY <1>w DEF WorldTypes, MovedRecords
  <2>2. moved' \in MovedRecords
    BY <1>4, <2>1 DEF BytesMove, MovedRecords
  <2>3. bytes' \in 0..MaxBytes
    BY <1>w, <1>4 DEF BytesMove, WorldTypes
  <2>4. WorldTypes'
    BY <1>w, <1>4, <2>2, <2>3 DEF BytesMove, WorldTypes
  <2> QED BY <1>a, <1>up, <1>uc, <1>us, <1>4, <2>4 DEF BytesMove
<1>5. CASE PingBegins
  <2>1. [IdlePing EXCEPT !.at = "probe", !.todo = Ports] \in PollRecords
    BY DEF IdlePing, PollRecords
  <2>2. ping' \in PollRecords
    BY <1>w, <1>5, <2>1, WitnessedTypes DEF PingBegins, WorldTypes
  <2>3. PingTypes'
    BY <1>p, <1>5, <2>2 DEF PingBegins, PingTypes
  <2> QED BY <1>a, <1>uw, <1>uc, <1>us, <1>5, <2>3 DEF PingBegins
<1>6. ASSUME NEW p \in Ports, Probe(p) PROVE TypeOK'
  <2>1. AnyPort(ping.up, p \in Reachable(on, answers)) \in BOOLEAN
    BY DEF AnyPort
  <2>2. ping \in PollRecords /\ ping.todo \ {p} \in SUBSET Ports
    BY <1>p DEF PingTypes, PollRecords
  <2>3. ping' = [ping EXCEPT !.todo = ping.todo \ {p},
                             !.up = AnyPort(ping.up, p \in Reachable(on, answers))]
    BY <1>6 DEF Probe
  <2> HIDE DEF AnyPort
  <2>4. ping' \in PollRecords
    BY <2>1, <2>2, <2>3 DEF PollRecords
  <2>5. PingTypes'
    BY <1>p, <1>6, <2>4 DEF Probe, PingTypes
  <2> QED BY <1>a, <1>uw, <1>uc, <1>us, <1>6, <2>5 DEF Probe
<1>7. CASE PingRecords
  <2>1. hostUp' \in {"unknown", "up", "down"} /\ told' \in {"nothing", "up", "down"}
    BY <1>p, <1>7 DEF PingRecords, PingTypes
  <2>2. ping' \in PollRecords
    BY <1>7 DEF PingRecords, IdlePing, PollRecords
  <2>3. PingTypes'
    BY <1>p, <1>7, <2>1, <2>2 DEF PingRecords, PingTypes
  <2> QED BY <1>a, <1>uw, <1>uc, <1>us, <1>7, <2>3 DEF PingRecords
<1>8. CASE ClientsBegin \/ ClientsSee \/ ClientsLost
  <2>1. peer \in BOOLEAN
    BY <1>w DEF WorldTypes
  <2>2. CASE ClientsBegin
    BY <1>c, <1>a, <1>uw, <1>up, <1>us, <2>2 DEF ClientsBegin, ClientTypes
  <2>3. CASE ClientsSee
    <3>1. ClientTypes'
      BY <1>c, <2>1, <2>3 DEF ClientsSee, Remembers, ClientTypes
    <3> QED BY <1>a, <1>uw, <1>up, <1>us, <2>3, <3>1 DEF ClientsSee
  <2>4. CASE ClientsLost
    <3>1. lost' \in 0..MaxLost
      BY <1>c, <2>4 DEF ClientsLost, ClientTypes
    <3>2. ClientTypes'
      BY <1>c, <2>4, <3>1 DEF ClientsLost, ClientTypes
    <3> QED BY <1>a, <1>uw, <1>up, <1>us, <2>4, <3>2 DEF ClientsLost
  <2> QED BY <1>8, <2>2, <2>3, <2>4
<1>9. CASE StatReads
  <2>1. Parsed(bytes) \in 0..MaxRead
    BY <1>w, FigureTypes DEF WorldTypes
  <2>2. stat' \in StatRecords
    BY <1>s, <1>9, <2>1 DEF StatReads, StatTypes, StatRecords
  <2>3. StatTypes'
    BY <1>s, <1>9, <2>2 DEF StatReads, StatTypes
  <2>4. moved' \in MovedRecords
    BY <1>w, <1>9 DEF StatReads, WorldTypes, MovedRecords
  <2>5. WorldTypes'
    BY <1>w, <1>9, <2>4 DEF StatReads, WorldTypes
  <2> QED BY <1>a, <1>up, <1>uc, <1>9, <2>3, <2>5 DEF StatReads
<1>10. CASE StatStores
  <2>1. stat.read \in 0..MaxRead /\ stat.rate \in 0..MaxRead /\ lastNet \in -1..MaxRead
    BY <1>s DEF StatTypes, StatRecords
  <2>2. Rate(stat.read) \in 0..MaxRead
    BY <1>z, <2>1 DEF Rate, NotNegative
  <2>3. stat' \in StatRecords
    BY <1>10, <1>z, <2>1, <2>2 DEF StatStores, StatRecords
  <2>4. StatTypes'
    BY <1>10, <1>z, <2>1, <2>3 DEF StatStores, StatTypes
  <2> QED BY <1>a, <1>uw, <1>up, <1>uc, <1>10, <2>4 DEF StatStores
<1>11. CASE StopTailer
  <2>1. StatTypes'
    BY <1>s, <1>z, <1>11 DEF StopTailer, StatTypes
  <2> QED BY <1>a, <1>uw, <1>up, <1>uc, <1>11, <2>1 DEF StopTailer
<1> QED
  BY <1>1, <1>2, <1>3, <1>4, <1>5, <1>6, <1>7, <1>8, <1>9, <1>10, <1>11 DEF Next, PingStep

-----------------------------------------------------------------------------
(* Each step keeps each sampler's part                                     *)

LEMMA PingKept == SampleInv /\ Next => PingInv'
<1> SUFFICES ASSUME SampleInv, Next PROVE PingInv'
  OBVIOUS
<1>0. /\ answers \in SUBSET Ports /\ ping \in PollRecords
      /\ hostUp \in {"unknown", "up", "down"} /\ told \in {"nothing", "up", "down"}
      /\ PingInv
  BY DEF SampleInv, TypeOK, PollRecords
<1>1. ASSUME UNCHANGED <<hostUp, told>>, answers' \in SUBSET Ports,
             ping' = Witnessed(Reachable(on', answers'), ping)
      PROVE  PingInv'
  <2>1. Reachable(on', answers') \in SUBSET Ports
    BY <1>1 DEF Reachable
  <2>2. /\ ping'.at = ping.at /\ ping'.up = ping.up /\ ping'.todo = ping.todo
        /\ ping.at = "probe" =>
             /\ ping'.did = ping.did \cup Reachable(on', answers')
             /\ ping'.didNot = ping.didNot \cup (Ports \ Reachable(on', answers'))
    BY <1>0, <1>1, <2>1, WitnessedTypes
  <2> QED BY <1>0, <2>2 DEF PingInv, Reachable
<1>2. ASSUME NEW p \in Ports, PortChanges(p) PROVE PingInv'
  <2>1. answers' \in SUBSET Ports
    BY <1>0, <1>2 DEF PortChanges
  <2> QED BY <1>1, <1>2, <2>1 DEF PortChanges
<1>3. CASE TunnelChanges
  BY <1>0, <1>1, <1>3 DEF TunnelChanges
<1>4. CASE PingBegins
  <2> DEFINE first == [IdlePing EXCEPT !.at = "probe", !.todo = Ports]
  <2>0. /\ first \in PollRecords /\ first.at = "probe" /\ first.todo = Ports
        /\ first.up = FALSE /\ first.did = {} /\ first.didNot = {}
    BY DEF IdlePing, PollRecords
  <2>1. ping' = Witnessed(answers, first)
    BY <1>4 DEF PingBegins
  <2> HIDE DEF first
  <2>w. ping' = [first EXCEPT !.did = @ \cup answers, !.didNot = @ \cup (Ports \ answers)]
    BY <2>0, <2>1 DEF Witnessed
  <2>2. /\ ping'.at = "probe" /\ ping'.up = FALSE /\ ping'.todo = Ports
        /\ ping'.did = answers /\ ping'.didNot = Ports \ answers
    BY <2>0, <2>w DEF PollRecords
  <2>3. on' = on /\ answers' = answers /\ on = TRUE
    BY <1>4 DEF PingBegins, worldVars, SampleInv, TypeOK
  <2> QED BY <1>0, <2>2, <2>3 DEF PingInv, Reachable
<1>5. ASSUME NEW p \in Ports, Probe(p) PROVE PingInv'
  <2>1. /\ ping'.at = ping.at /\ ping'.todo = ping.todo \ {p}
        /\ ping'.up = (ping.up \/ p \in Reachable(on, answers))
        /\ ping'.did = ping.did /\ ping'.didNot = ping.didNot
    BY <1>0, <1>5 DEF Probe, AnyPort, PollRecords
  <2>2. UNCHANGED <<on, answers, hostUp, told>>
    BY <1>5 DEF Probe, worldVars
  <2> QED BY <1>0, <2>1, <2>2 DEF PingInv, Reachable
<1>6. CASE PingRecords
  BY <1>6 DEF PingRecords, IdlePing, PingInv
<1>7. CASE \/ PeerConnects \/ PeerLeaves \/ BytesMove \/ ClientsBegin \/ ClientsSee
           \/ ClientsLost \/ StatReads \/ StatStores \/ StopTailer
  <2>1. UNCHANGED <<on, answers, ping, hostUp, told>>
    BY <1>7
    DEF PeerConnects, PeerLeaves, BytesMove, ClientsBegin, ClientsSee, ClientsLost, StatReads,
        StatStores, StopTailer, pingVars, worldVars
  <2> QED BY <1>0, <2>1 DEF PingInv, Reachable
<1> QED BY <1>2, <1>3, <1>4, <1>5, <1>6, <1>7 DEF Next, PingStep

LEMMA ClientKept == SampleInv /\ Next => ClientInv'
<1> SUFFICES ASSUME SampleInv, Next PROVE ClientInv'
  OBVIOUS
<1>0. ClientInv /\ logged \in Nat /\ visits \in Nat /\ lost \in Nat
  BY BoundsAssumption, TypesByPart DEF SampleInv, WorldTypes, ClientTypes
<1>1. CASE PeerConnects
  BY <1>0, <1>1 DEF PeerConnects, clientVars, ClientInv, LoggedOnce
<1>2. CASE PeerLeaves \/ TunnelChanges
  BY <1>0, <1>2 DEF PeerLeaves, TunnelChanges, clientVars, ClientInv, LoggedOnce
<1>3. CASE ClientsSee
  BY <1>0, <1>3 DEF ClientsSee, Remembers, worldVars, ClientInv, LoggedOnce
<1>3a. CASE ClientsLost
  BY <1>0, <1>3a DEF ClientsLost, worldVars, ClientInv, LoggedOnce
<1>4. ASSUME UNCHANGED <<peer, seen, logged, lost, visits>> PROVE ClientInv'
  BY <1>0, <1>4 DEF ClientInv, LoggedOnce
<1>5. CASE BytesMove \/ PingStep \/ ClientsBegin \/ StatReads \/ StatStores \/ StopTailer
  BY <1>4, <1>5
  DEF BytesMove, PingStep, PingBegins, PingRecords, Probe, ClientsBegin, StatReads,
      StatStores, StopTailer, worldVars, clientVars
<1>6. ASSUME NEW p \in Ports, PortChanges(p) PROVE ClientInv'
  BY <1>4, <1>6 DEF PortChanges, clientVars
<1> QED BY <1>1, <1>2, <1>3, <1>3a, <1>5, <1>6 DEF Next

LEMMA StatKept == SampleInv /\ Next => StatInv'
<1> SUFFICES ASSUME SampleInv, Next PROVE StatInv'
  OBVIOUS
<1> USE BoundsAssumption
<1>0. /\ StatInv /\ bytes \in 0..MaxBytes
      /\ stat \in StatRecords /\ moved \in MovedRecords
      /\ moved.since \in 0..MaxBytes /\ moved.between \in 0..MaxBytes
  BY DEF SampleInv, TypeOK, StatRecords, MovedRecords
\* The counter grows by what was moved since the reading, or starts again.
<1>a. ASSUME UNCHANGED <<lastNet, stat>>, moved'.between = moved.between,
             \A c \in 0..MaxBytes :
                Follows(bytes, c, moved.since) => Follows(bytes', c, moved'.since)
      PROVE  StatInv'
  <2>1. CASE stat.at = "idle"
    <3>1. CASE lastNet = -1
      BY <1>a, <2>1, <3>1 DEF StatInv
    <3>2. CASE lastNet # -1
      <4>1. PICK c \in 0..MaxBytes : lastNet = Parsed(c) /\ Follows(bytes, c, moved.since)
        BY <1>0, <2>1, <3>2 DEF StatInv
      <4>2. Follows(bytes', c, moved'.since)
        BY <1>a, <4>1
      <4> QED BY <1>a, <2>1, <4>1, <4>2 DEF StatInv, Parsed
    <3> QED BY <3>1, <3>2
  <2>2. CASE stat.at # "idle"
    <3>1. PICK n \in 0..MaxBytes :
            /\ stat.read = Parsed(n) /\ Follows(bytes, n, moved.since)
            /\ lastNet # -1 =>
                 \E c \in 0..MaxBytes : lastNet = Parsed(c) /\ Follows(n, c, moved.between)
      BY <1>0, <2>2 DEF StatInv
    <3>2. Follows(bytes', n, moved'.since)
      BY <1>a, <3>1
    <3> QED BY <1>a, <2>2, <3>1, <3>2 DEF StatInv, Parsed, Follows
  <2> QED BY <2>1, <2>2
<1>1. CASE BytesMove
  <2>1. /\ bytes' = bytes + 1 /\ bytes < MaxBytes /\ UNCHANGED <<lastNet, stat>>
        /\ moved'.between = moved.between
        /\ moved'.since = IF moved.since < MaxBytes THEN moved.since + 1 ELSE moved.since
    BY <1>0, <1>1 DEF BytesMove, statVars, MovedRecords
  <2>2. \A c \in 0..MaxBytes :
           Follows(bytes, c, moved.since) => Follows(bytes', c, moved'.since)
    BY <1>0, <2>1 DEF Follows
  <2> QED BY <1>a, <2>1, <2>2
<1>2. CASE TunnelChanges
  <2>1. bytes' = 0 /\ UNCHANGED <<lastNet, stat, moved>>
    BY <1>2 DEF TunnelChanges, statVars
  <2>2. \A c \in 0..MaxBytes :
           Follows(bytes, c, moved.since) => Follows(bytes', c, moved'.since)
    BY <1>0, <2>1 DEF Follows
  <2> QED BY <1>a, <2>1, <2>2
<1>3. CASE StatReads
  <2>1. /\ stat.at = "idle" /\ stat'.at = "read" /\ stat'.read = Parsed(bytes)
        /\ moved'.between = moved.since /\ moved'.since = 0
        /\ UNCHANGED <<bytes, lastNet>>
    BY <1>0, <1>3 DEF StatReads, StatRecords, MovedRecords
  <2>2. lastNet # -1 =>
          \E c \in 0..MaxBytes : lastNet = Parsed(c) /\ Follows(bytes, c, moved'.between)
    BY <1>0, <2>1 DEF StatInv
  <2>3. Follows(bytes', bytes, moved'.since)
    BY <1>0, <2>1 DEF Follows
  <2> QED BY <1>0, <2>1, <2>2, <2>3 DEF StatInv, Parsed, Follows
<1>4. CASE StatStores
  <2>1. /\ stat.at = "read" /\ stat'.at = "idle" /\ lastNet' = stat.read
        /\ UNCHANGED <<bytes, moved>>
    BY <1>4 DEF StatStores, worldVars
  <2>2. PICK n \in 0..MaxBytes : stat.read = Parsed(n) /\ Follows(bytes, n, moved.since)
    BY <1>0, <2>1 DEF StatInv
  <2> QED BY <2>1, <2>2 DEF StatInv, Parsed, Follows
<1>5. CASE StopTailer
  <2>1. lastNet' = -1 /\ UNCHANGED <<bytes, stat, moved>>
    BY <1>5 DEF StopTailer, worldVars
  <2> QED BY <1>0, <2>1 DEF StatInv, Parsed, Follows
<1>6. ASSUME UNCHANGED <<bytes, lastNet, stat, moved>> PROVE StatInv'
  BY <1>0, <1>6 DEF StatInv, Parsed, Follows
<1>7. CASE PeerConnects \/ PeerLeaves \/ PingStep \/ ClientsBegin \/ ClientsSee \/ ClientsLost
  BY <1>6, <1>7
  DEF PeerConnects, PeerLeaves, PingStep, PingBegins, PingRecords, Probe, ClientsBegin,
      ClientsSee, ClientsLost, worldVars, statVars
<1>8. ASSUME NEW p \in Ports, PortChanges(p) PROVE StatInv'
  BY <1>6, <1>8 DEF PortChanges, statVars
<1> QED BY <1>1, <1>2, <1>3, <1>4, <1>5, <1>7, <1>8 DEF Next

-----------------------------------------------------------------------------
(* Theorems                                                                *)

LEMMA SampleInvariant == Spec => []SampleInv
<1>1. SampleInv /\ [Next]_vars => SampleInv'
  <2> SUFFICES ASSUME SampleInv, [Next]_vars PROVE SampleInv'
    OBVIOUS
  <2>1. CASE Next
    BY <2>1, TypesStep, PingKept, ClientKept, StatKept DEF SampleInv
  <2>2. CASE UNCHANGED vars
    <3>1. UNCHANGED <<worldVars, pingVars, poll, clientVars, statVars>>
      BY <2>2 DEF vars
    <3>2. TypeOK'
      <4>1. WorldTypes /\ PingTypes /\ ClientTypes /\ StatTypes
        BY TypesByPart DEF SampleInv
      <4>2. WorldTypes' /\ PingTypes' /\ ClientTypes' /\ StatTypes'
        BY <3>1, <4>1
        DEF worldVars, pingVars, clientVars, statVars, WorldTypes, PingTypes, ClientTypes,
            StatTypes
      <4> QED BY <4>2, TypesByPart, PTL
    <3>3. PingInv'
      BY <3>1 DEF worldVars, pingVars, SampleInv, PingInv, Reachable
    <3>4. ClientInv'
      BY <3>1 DEF worldVars, clientVars, SampleInv, ClientInv, LoggedOnce
    <3>5. StatInv'
      BY <3>1 DEF worldVars, statVars, SampleInv, StatInv
    <3> QED BY <3>2, <3>3, <3>4, <3>5 DEF SampleInv
  <2> QED BY <2>1, <2>2
<1> QED BY <1>1, SampleInit, PTL DEF Spec

\* The types of the samplers' state: a rate is never negative.
THEOREM SampleTypes == Spec => []TypeOK
<1>1. SampleInv => TypeOK
  BY DEF SampleInv
<1> QED BY <1>1, SampleInvariant, PTL

\* However rounds and visits overlap, a visit is logged once, and once more at most for
\* every lsof that failed.
THEOREM VisitsLoggedOnce == Spec => []LoggedOnce
<1>1. SampleInv => LoggedOnce
  BY DEF SampleInv, ClientInv
<1> QED BY <1>1, SampleInvariant, PTL

\* A message about a host is true of the poll that led to it, for any number of ports
\* probed in any order while they change.
THEOREM MessagesAreTrue == Spec => ReachTruthful
<1>1. SampleInv /\ [Next]_vars =>
        [told' # told => IF told' = "up" THEN ping.did # {} ELSE ping.didNot = Ports]_vars
  <2> SUFFICES ASSUME SampleInv, Next, told' # told
               PROVE  IF told' = "up" THEN ping.did # {} ELSE ping.didNot = Ports
    BY DEF vars, pingVars
  <2>1. PingRecords
    BY DEF Next, PingStep, TunnelChanges, PeerConnects, PeerLeaves, BytesMove, PortChanges,
           PingBegins, Probe, ClientsBegin, ClientsSee, ClientsLost, StatReads, StatStores,
           StopTailer, pingVars
  <2>2. /\ ping.at = "probe" /\ ping.todo = {}
        /\ told' = IF ping.up THEN "up" ELSE "down"
    BY <2>1 DEF PingRecords
  <2>3. ping.didNot \subseteq Ports /\ ping.up \in BOOLEAN
    BY DEF SampleInv, TypeOK
  <2>4. CASE ping.up
    <3>1. ping.did # {}
      BY <2>2, <2>4 DEF SampleInv, PingInv
    <3> QED BY <2>2, <2>4, <3>1
  <2>5. CASE ~ping.up
    <3>1. Ports \ ping.todo \subseteq ping.didNot
      BY <2>2, <2>5 DEF SampleInv, PingInv
    <3>2. ping.didNot = Ports
      BY <2>2, <2>3, <3>1
    <3> QED BY <2>2, <2>5, <3>2
  <2> QED BY <2>4, <2>5
<1> QED BY <1>1, SampleInvariant, PTL DEF Spec, ReachTruthful

\* A rate that is announced is never negative, is 0 when nothing was moved, and exceeds what
\* was moved between the readings by docker's rounding at most, unless the earlier figure was
\* a 1, as those of numbers printed with an exponent are.
THEOREM RatesAreHonest == Spec => RateHonest
<1>1. SampleInv /\ [Next]_vars =>
        [stat'.rate # stat.rate =>
           /\ stat'.rate >= 0
           /\ moved.between = 0 => stat'.rate = 0
           /\ lastNet # 1 => stat'.rate <= moved.between + Grain]_vars
  <2> SUFFICES ASSUME SampleInv, Next, stat'.rate # stat.rate
               PROVE  /\ stat'.rate >= 0
                      /\ moved.between = 0 => stat'.rate = 0
                      /\ lastNet # 1 => stat'.rate <= moved.between + Grain
    BY DEF vars, statVars
  <2>0. /\ stat \in StatRecords /\ lastNet \in -1..MaxRead /\ StatInv
        /\ moved.between \in Nat /\ Grain \in Nat /\ MaxRead \in Nat
    <3>1. WorldTypes /\ StatTypes /\ StatInv
      BY TypesByPart DEF SampleInv
    <3>2. moved.between \in 0..MaxBytes
      BY <3>1 DEF WorldTypes, MovedRecords
    <3>3. MaxBytes \in Nat /\ Grain \in Nat /\ MaxRead \in Nat
      BY BoundsAssumption, GrainAssumption DEF MaxRead
    <3> QED BY <3>1, <3>2, <3>3 DEF StatTypes
  <2>1. StatStores
    BY <2>0
    DEF Next, PingStep, TunnelChanges, PeerConnects, PeerLeaves, BytesMove, PortChanges,
        PingBegins, PingRecords, Probe, ClientsBegin, ClientsSee, ClientsLost, StatReads,
        StopTailer, statVars, StatRecords
  <2>2. /\ stat.at = "read" /\ lastNet # -1
        /\ stat'.rate = NotNegative(stat.read - lastNet)
    BY <2>1 DEF StatStores, Rate
  <2>3. PICK n \in 0..MaxBytes :
          /\ stat.read = Parsed(n)
          /\ \E c \in 0..MaxBytes : lastNet = Parsed(c) /\ Follows(n, c, moved.between)
    BY <2>0, <2>2 DEF StatInv
  <2>4. PICK c \in 0..MaxBytes : lastNet = Parsed(c) /\ Follows(n, c, moved.between)
    BY <2>3
  <2>5. /\ stat.read \in 0..MaxRead /\ lastNet \in 0..MaxRead
        /\ moved.between = 0 => stat.read <= lastNet
        /\ lastNet # 1 => stat.read - lastNet <= moved.between + Grain
    BY <2>0, <2>3, <2>4, Figures
  <2> QED BY <2>0, <2>2, <2>5 DEF NotNegative
<1> QED BY <1>1, SampleInvariant, PTL DEF Spec, RateHonest
=============================================================================
