----------------------------- MODULE HubProofs -----------------------------
(***************************************************************************)
(* Proofs about Hub, for any goroutines, panels, capacities and bounds.    *)
(***************************************************************************)
EXTENDS Hub, FiniteSetTheorems, SequenceTheorems, TLAPS

-----------------------------------------------------------------------------
(* The coalesce-latest slot and the order of the two selects.              *)

\* The part of the type invariant that the stream's state needs.
StreamTypes ==
    /\ world \in Nat \ {0} /\ evSeq \in Nat
    /\ pc \in [Goroutines -> Pcs]
    /\ frame \in [Goroutines -> Nat]
    /\ stream \in [Panels -> {"closed", "open", "live", "picked"}]
    /\ slot \in [Panels -> Nat]
    /\ shown \in [Panels -> Nat]
    /\ latest \in [Panels -> Nat]
    /\ delayed \in [Panels -> Nat]

\* A line that went out before a pending snapshot was the only one: the handler is
\* back at its first select, and the snapshot is still there for it.
DelayOK ==
    \A p \in Panels : delayed[p] # 0 =>
        delayed[p] = 1 /\ stream[p] = "live" /\ slot[p] # None

\* Before the greeting nothing has been taken from the slot.
SlotOK ==
    \A p \in Panels : stream[p] \in {"closed", "open"} => slot[p] = latest[p]

\* What is pushed and compared is a snapshot.
PushOK == \A g \in Goroutines : pc[g] \in {"push", "swap"} => frame[g] # None

StreamInv == StreamTypes /\ LatestWins /\ DelayOK /\ SlotOK /\ PushOK

LEMMA StreamInitially == Init => StreamInv
BY DEF Init, StreamInv, StreamTypes, LatestWins, DelayOK, SlotOK, PushOK, None, Pcs

LEMMA StreamInductive == StreamInv /\ [Next]_vars => StreamInv'
<1> SUFFICES ASSUME StreamInv, [Next]_vars PROVE StreamInv'
  OBVIOUS
<1> USE DEF StreamInv, StreamTypes, LatestWins, DelayOK, SlotOK, PushOK, None, Pcs, eventVars,
            notifyVars, streamVars, panelVars
<1>1. CASE WorldChanges BY <1>1 DEF WorldChanges
<1>2. ASSUME NEW g \in Goroutines, Stamp(g) \/ TakeSnapshot(g) \/ Broadcast(g)
      PROVE  StreamInv'
  <2>1. CASE Stamp(g)        BY <2>1 DEF Stamp, Goto
  <2>2. CASE TakeSnapshot(g) BY <2>2 DEF TakeSnapshot, Goto, Reads
  <2>3. CASE FanOut(g)       BY <2>3 DEF FanOut, Done, Goto
  <2>4. CASE PushState(g)
    <3>1. frame' \in [Goroutines -> Nat]
      BY <2>4 DEF PushState, Done, Goto
    <3>2. \A p \in Panels :
            /\ slot'[p] = IF Registered(p) THEN frame[g] ELSE slot[p]
            /\ latest'[p] = IF Registered(p) THEN frame[g] ELSE latest[p]
      BY <2>4 DEF PushState, Pushed
    <3>3. slot' \in [Panels -> Nat] /\ latest' \in [Panels -> Nat]
      BY <2>4 DEF PushState, Pushed
    <3>4. UNCHANGED <<world, evSeq, stream, shown, delayed, buffered>>
      BY <2>4 DEF PushState
    <3>5. StreamTypes' /\ PushOK'
      BY <2>4, <3>1, <3>3, <3>4 DEF PushState, Done, Goto
    <3>6. DelayOK'
      BY <2>4, <3>2, <3>4 DEF PushState
    <3>7. LatestWins' /\ SlotOK'
      BY <3>2, <3>4 DEF Registered
    <3> QED BY <3>5, <3>6, <3>7
  <2>5. CASE SwapLast(g)     BY <2>5 DEF SwapLast, Goto
  <2>6. CASE NotifyState(g)  BY <2>6 DEF NotifyState, Done, Goto
  <2> QED BY <1>2, <2>1, <2>2, <2>3, <2>4, <2>5, <2>6 DEF Broadcast
<1>3. ASSUME NEW p \in Panels,
             Connect(p) \/ Relay(p) \/ Disconnect(p) \/ PollAsks(p) \/ ServeEvLog(p)
                \/ PollApplies(p) \/ PollFails(p)
      PROVE  StreamInv'
  <2>1. CASE Connect(p)      BY <2>1 DEF Connect
  <2>2. CASE Greet(p)        BY <2>2 DEF Greet, Shows
  <2>3. CASE FindsNoState(p) BY <2>3 DEF FindsNoState
  <2>4. CASE RelayState(p)   BY <2>4 DEF RelayState, Shows
  <2>5. CASE RelayEvent(p)   BY <2>5 DEF RelayEvent, RelaysEvents
  <2>6. CASE Disconnect(p)   BY <2>6 DEF Disconnect
  <2>7. CASE PollAsks(p)     BY <2>7 DEF PollAsks
  <2>8. CASE ServeEvLog(p)   BY <2>8 DEF ServeEvLog
  <2>9. CASE PollApplies(p)  BY <2>9 DEF PollApplies
  <2>10. CASE PollFails(p)   BY <2>10 DEF PollFails
  <2> QED BY <1>3, <2>1, <2>2, <2>3, <2>4, <2>5, <2>6, <2>7, <2>8, <2>9, <2>10 DEF Relay
<1>4. CASE UNCHANGED vars BY <1>4 DEF vars
<1> QED BY <1>1, <1>2, <1>3, <1>4 DEF Next

\* However slow a client is and whoever broadcasts, the newest snapshot broadcast to
\* it is what it has, or what waits for it.
THEOREM LatestSnapshotWins == Spec => []LatestWins
<1>1. StreamInv => LatestWins
  BY DEF StreamInv
<1> QED BY <1>1, StreamInitially, StreamInductive, PTL DEF Spec

\* No backlog of console lines delays a snapshot by more than one line.
THEOREM SnapshotsGoFirst == Spec => []StatePreferred
<1>1. StreamInv => StatePreferred
  BY DEF StreamInv, StreamTypes, DelayOK, StatePreferred
<1> QED BY <1>1, StreamInitially, StreamInductive, PTL DEF Spec

-----------------------------------------------------------------------------
(* The notifications.                                                      *)

NotifyTypes ==
    /\ pc \in [Goroutines -> Pcs]
    /\ crossing \in [Goroutines -> {"none", "up", "down"}]
    /\ told \in Int
    /\ last \in Nat /\ first \in Nat

\* A goroutine has decided only between the swap and the message.
DecidedOK == \A g \in Goroutines : crossing[g] # "none" => pc[g] = "notify"

\* The first snapshot compared is the last one as well.
FirstOK == last = None => first = None

NotifyInv == NotifyTypes /\ DecidedOK /\ FirstOK /\ NotificationsAddUp

LEMMA GoroutinesFinite == IsFiniteSet(Goroutines)
BY ProducersAssumption, FS_AddElement DEF Goroutines

LEMMA DecidersFinite == ASSUME NEW n PROVE IsFiniteSet({g \in Goroutines : crossing[g] = n})
BY GoroutinesFinite, FS_Subset

LEMMA DecidingIsNat == ASSUME NEW n PROVE Deciding(n) \in Nat
BY DecidersFinite, FS_CardinalityType DEF Deciding

LEMMA NotifyInitially == Init => NotifyInv
<1> SUFFICES ASSUME Init PROVE NotifyInv
  OBVIOUS
<1>1. \A n \in {"up", "down"} : {g \in Goroutines : crossing[g] = n} = {}
  BY DEF Init
<1>2. Deciding("up") = 0 /\ Deciding("down") = 0
  BY <1>1, FS_EmptySet DEF Deciding
<1>3. NotifyTypes /\ DecidedOK /\ FirstOK /\ last = first /\ told = 0
  BY DEF Init, NotifyTypes, DecidedOK, FirstOK, None, Pcs
<1> QED BY <1>2, <1>3 DEF NotifyInv, NotificationsAddUp

\* broadcastState, under its lock: the new crossing leads from the last snapshot to
\* the new one.
LEMMA SwapAddsUp ==
  ASSUME NotifyInv, NEW g \in Goroutines, SwapLast(g)
  PROVE  NotificationsAddUp'
<1> DEFINE c == Crossed(last, frame[g])
<1>1. crossing[g] = "none"
  BY DEF NotifyInv, DecidedOK, NotifyTypes, SwapLast
<1>2. crossing' = [crossing EXCEPT ![g] = c] /\ told' = told /\ last' = frame[g]
  BY DEF SwapLast
<1>3. c \in {"none", "up", "down"}
  BY DEF Crossed
<1>4. crossing \in [Goroutines -> {"none", "up", "down"}]
  BY DEF NotifyInv, NotifyTypes
<1> HIDE DEF c
<1>5. ASSUME NEW n \in {"up", "down"}
      PROVE  Deciding(n)' = IF c = n THEN Deciding(n) + 1 ELSE Deciding(n)
  <2> DEFINE D == {h \in Goroutines : crossing[h] = n}
             E == {h \in Goroutines : [crossing EXCEPT ![g] = c][h] = n}
  <2>1. Deciding(n)' = Cardinality(E) /\ Deciding(n) = Cardinality(D)
    BY <1>2 DEF Deciding
  <2>2. CASE c = n
    <3>1. crossing[g] # n
      BY <1>1
    <3>2. E = D \cup {g} /\ g \notin D
      BY <1>4, <2>2, <3>1
    <3>3. IsFiniteSet(D)
      BY DecidersFinite
    <3> HIDE DEF D, E
    <3> QED BY <2>1, <2>2, <3>2, <3>3, FS_AddElement
  <2>3. CASE c # n
    <3>1. E = D
      BY <1>1, <1>4, <2>3
    <3> QED BY <2>1, <2>3, <3>1
  <2> QED BY <2>2, <2>3
<1>6. Deciding("up") \in Nat /\ Deciding("down") \in Nat
  BY DecidingIsNat
<1> DEFINE b(v) == IF On(v) THEN 1 ELSE 0
<1>7. told + Deciding("up") - Deciding("down") = b(last) - b(first)
  BY DEF NotifyInv, NotificationsAddUp
<1>8. CASE last = None
  <2>1. c = "none" /\ first = None /\ first' = last'
    BY <1>2, <1>8 DEF c, Crossed, NotifyInv, FirstOK, SwapLast
  <2>2. told \in Int /\ b(last) = b(first) /\ b(last') = b(first')
    BY <1>8, <2>1 DEF NotifyInv, NotifyTypes
  <2>3. b(last) \in Int /\ b(last') \in Int
    OBVIOUS
  <2> HIDE DEF b
  <2>4. told' + Deciding("up")' - Deciding("down")' = b(last') - b(first')
    BY <1>2, <1>4, <1>5, <1>6, <1>7, <2>1, <2>2, <2>3
  <2> QED BY <2>4 DEF NotificationsAddUp, b
<1>9. CASE last # None
  <2>1. first' = first
    BY <1>9 DEF SwapLast
  <2>2. b(last') - b(last) = IF c = "up" THEN 1 ELSE IF c = "down" THEN -1 ELSE 0
    BY <1>2, <1>9 DEF c, Crossed, On
  <2>3. told \in Int /\ b(last) \in Int /\ b(last') \in Int /\ b(first) \in Int
    BY DEF NotifyInv, NotifyTypes
  <2>4. b(first') = b(first)
    BY <2>1
  <2> HIDE DEF b
  <2>5. told' + Deciding("up")' - Deciding("down")' = b(last') - b(first')
    BY <1>2, <1>3, <1>4, <1>5, <1>6, <1>7, <2>2, <2>3, <2>4
  <2> QED BY <2>5 DEF NotificationsAddUp, b
<1> QED BY <1>8, <1>9

\* A message sent is one less to send.
LEMMA MessageAddsUp ==
  ASSUME NotifyInv, NEW g \in Goroutines, NotifyState(g)
  PROVE  NotificationsAddUp'
<1> DEFINE c == crossing[g]
<1>1. c \in {"none", "up", "down"}
  BY DEF NotifyInv, NotifyTypes
<1>2. /\ crossing' = [crossing EXCEPT ![g] = "none"]
      /\ last' = last /\ first' = first
  BY DEF NotifyState
<1>3. crossing \in [Goroutines -> {"none", "up", "down"}]
  BY DEF NotifyInv, NotifyTypes
<1>4. ASSUME NEW n \in {"up", "down"}
      PROVE  Deciding(n)' = IF c = n THEN Deciding(n) - 1 ELSE Deciding(n)
  <2> DEFINE D == {h \in Goroutines : crossing[h] = n}
             E == {h \in Goroutines : [crossing EXCEPT ![g] = "none"][h] = n}
  <2>1. Deciding(n)' = Cardinality(E) /\ Deciding(n) = Cardinality(D)
    BY <1>2 DEF Deciding
  <2>2. CASE c = n
    <3>1. E = D \ {g} /\ g \in D
      BY <1>3, <2>2
    <3>2. IsFiniteSet(D)
      BY DecidersFinite
    <3> HIDE DEF D, E
    <3> QED BY <2>1, <2>2, <3>1, <3>2, FS_RemoveElement
  <2>3. CASE c # n
    <3>1. E = D
      BY <1>3, <2>3
    <3> QED BY <2>1, <2>3, <3>1
  <2> QED BY <2>2, <2>3
<1>5. Deciding("up") \in Nat /\ Deciding("down") \in Nat
  BY DecidingIsNat
<1>6. told' = IF c = "up" THEN told + 1 ELSE IF c = "down" THEN told - 1 ELSE told
  BY Zenon DEF NotifyState
<1> DEFINE b(v) == IF On(v) THEN 1 ELSE 0
<1>7. told + Deciding("up") - Deciding("down") = b(last) - b(first)
  BY DEF NotifyInv, NotificationsAddUp
<1>8. told \in Int /\ b(last) \in Int /\ b(first) \in Int
  BY DEF NotifyInv, NotifyTypes
<1>9. b(last') = b(last) /\ b(first') = b(first)
  BY <1>2
<1> HIDE DEF b, c
<1>10. told' + Deciding("up")' - Deciding("down")' = b(last') - b(first')
  BY <1>1, <1>3, <1>4, <1>5, <1>6, <1>7, <1>8, <1>9
<1> QED BY <1>10 DEF NotificationsAddUp, b

LEMMA NotifyInductive == NotifyInv /\ StreamInv /\ [Next]_vars => NotifyInv'
<1> SUFFICES ASSUME NotifyInv, StreamInv, [Next]_vars PROVE NotifyInv'
  OBVIOUS
<1> USE DEF NotifyTypes, DecidedOK, FirstOK, Pcs, None, eventVars, notifyVars,
            streamVars, panelVars
<1>1. ASSUME UNCHANGED <<pc, notifyVars>> PROVE NotifyInv'
  BY <1>1 DEF NotifyInv, NotificationsAddUp, Deciding
<1>2. CASE WorldChanges BY <1>1, <1>2 DEF WorldChanges
<1>3. ASSUME NEW g \in Goroutines, Stamp(g) \/ TakeSnapshot(g) \/ Broadcast(g)
      PROVE  NotifyInv'
  <2>1. ASSUME NEW l \in Pcs, NEW v, pc[g] # "notify", Goto(g, l, v), UNCHANGED notifyVars
        PROVE  NotifyInv'
    <3>1. NotificationsAddUp'
      BY <2>1 DEF NotifyInv, NotificationsAddUp, Deciding
    <3> QED BY <2>1, <3>1 DEF NotifyInv, Goto
  <2>2. CASE Stamp(g)        BY <2>1, <2>2 DEF Stamp
  <2>3. CASE TakeSnapshot(g) BY <2>1, <2>3 DEF TakeSnapshot
  <2>4. CASE FanOut(g)       BY <2>1, <2>4 DEF FanOut, Done
  <2>5. CASE PushState(g)    BY <2>1, <2>5 DEF PushState, Done
  <2>6. CASE SwapLast(g)
    <3>1. NotificationsAddUp'
      BY <2>6, SwapAddsUp
    <3>2. frame[g] \in Nat \ {0}
      BY <2>6 DEF StreamInv, StreamTypes, PushOK, SwapLast
    <3>3. NotifyTypes' /\ DecidedOK'
      BY <2>6, <3>2 DEF NotifyInv, SwapLast, Goto, Crossed
    <3>4. FirstOK'
      BY <2>6, <3>2 DEF NotifyInv, SwapLast
    <3> QED BY <3>1, <3>3, <3>4 DEF NotifyInv
  <2>7. CASE NotifyState(g)
    <3>1. NotificationsAddUp'
      BY <2>7, MessageAddsUp
    <3>2. told' \in {told, told + 1, told - 1}
      BY <2>7, Zenon DEF NotifyState
    <3>3. /\ pc' = [pc EXCEPT ![g] = "idle"]
          /\ crossing' = [crossing EXCEPT ![g] = "none"]
          /\ UNCHANGED <<last, first>>
      BY <2>7, Zenon DEF NotifyState, Done, Goto
    <3> QED BY <3>1, <3>2, <3>3 DEF NotifyInv
  <2> QED BY <1>3, <2>2, <2>3, <2>4, <2>5, <2>6, <2>7 DEF Broadcast
<1>4. ASSUME NEW p \in Panels,
             Connect(p) \/ Relay(p) \/ Disconnect(p) \/ PollAsks(p) \/ ServeEvLog(p)
                \/ PollApplies(p) \/ PollFails(p)
      PROVE  NotifyInv'
  BY <1>1, <1>4 DEF Connect, Relay, Greet, FindsNoState, RelayState, RelayEvent,
                    Disconnect, PollAsks, ServeEvLog, PollApplies, PollFails
<1>5. CASE UNCHANGED vars BY <1>1, <1>5 DEF vars
<1> QED BY <1>2, <1>3, <1>4, <1>5 DEF Next

\* Any number of goroutines may call broadcastState at the same time, with snapshots
\* of any age: what they announce adds up to what they have compared.
THEOREM NotificationsBalance == Spec => []NotificationsAddUp
<1>1. NotifyInv => NotificationsAddUp
  BY DEF NotifyInv
<1> QED BY <1>1, StreamInitially, StreamInductive, NotifyInitially, NotifyInductive,
           PTL DEF Spec
-----------------------------------------------------------------------------
(* The ring of events, and the console of a panel that polls it.           *)

\* What goroutines broadcast: a snapshot, or the event they have numbered.
FramesOK ==
    \A g \in Goroutines :
        /\ pc[g] = "fan" => frame[g] \in Seqs
        /\ pc[g] \in {"push", "swap"} => frame[g] \in Versions

\* The ring holds the newest events, as many as it has room for, by their numbers.
RingOK ==
    /\ evSeq \in 0..MaxSeq
    /\ evRing \in Seq(Seqs)
    /\ Len(evRing) = IF evSeq < EvCap THEN evSeq ELSE EvCap
    /\ \A i \in 1..Len(evRing) : evRing[i] = (evSeq - Len(evRing)) + i

InOrder(s) == \A i, j \in 1..Len(s) : i < j => s[i] < s[j]
Lines(s) == {s[i] : i \in 1..Len(s)}

\* No line of the console is newer than the cursor, and all others are there, unless
\* they had fallen off.
ConsoleOK(p) ==
    /\ InOrder(console[p])
    /\ \A i \in 1..Len(console[p]) : console[p][i] <= cursor[p]
    /\ \A n \in 1..cursor[p] : n \in Lines(console[p]) \cup fallen[p]

\* An answer goes on where the cursor is.
AnswerOK(p) ==
    /\ cursor[p] <= poll[p].seq /\ poll[p].seq <= evSeq
    /\ InOrder(poll[p].events)
    /\ \A i \in 1..Len(poll[p].events) :
         cursor[p] < poll[p].events[i] /\ poll[p].events[i] <= poll[p].seq
    /\ \A n \in (cursor[p] + 1)..poll[p].seq : n \in Lines(poll[p].events) \cup fallen[p]

\* Behind a proxy only an answer moves the cursor: a question asks from where it is.
PanelOK(p) ==
    buffered[p] =>
        /\ cursor[p] <= evSeq
        /\ ConsoleOK(p)
        /\ poll[p].at = "asked" => poll[p].since = cursor[p]
        /\ poll[p].at = "answered" => AnswerOK(p)

PolledInv == TypeOK /\ FramesOK /\ RingOK /\ \A p \in Panels : PanelOK(p)

\* The end of the ring is a sequence of events.
LEMMA RingEndIs ==
    ASSUME RingOK, NEW n \in 0..Len(evRing)
    PROVE  /\ RingEnd(n) \in Seq(Seqs)
           /\ Len(RingEnd(n)) = n
           /\ \A k \in 1..n : RingEnd(n)[k] = (evSeq - n) + k
<1>1. Len(evRing) \in Nat
  BY LenProperties DEF RingOK
<1>2. PICK l \in 1..(Len(evRing) + 1) : l = Len(evRing) - n + 1
  BY <1>1
<1>3. \A i \in l..Len(evRing) : evRing[i] \in Seqs
  BY <1>1 DEF RingOK
<1>4. /\ SubSeq(evRing, l, Len(evRing)) \in Seq(Seqs)
      /\ Len(SubSeq(evRing, l, Len(evRing))) =
           IF l <= Len(evRing) THEN Len(evRing) - l + 1 ELSE 0
      /\ \A i \in 1..(Len(evRing) - l + 1) :
           SubSeq(evRing, l, Len(evRing))[i] = evRing[l + i - 1]
  BY <1>1, <1>3, SubSeqProperties
<1>5. RingEnd(n) = SubSeq(evRing, l, Len(evRing))
  BY <1>2 DEF RingEnd
<1>6. Len(RingEnd(n)) = n
  BY <1>1, <1>2, <1>4, <1>5
<1>7. ASSUME NEW k \in 1..n PROVE RingEnd(n)[k] = (evSeq - n) + k
  <2>1. k \in 1..(Len(evRing) - l + 1) /\ l + k - 1 \in 1..Len(evRing)
    BY <1>1, <1>2
  <2>2. evRing[l + k - 1] = (evSeq - Len(evRing)) + (l + k - 1)
    BY <2>1 DEF RingOK
  <2>3. (evSeq - Len(evRing)) + (l + k - 1) = (evSeq - n) + k
    BY <1>1, <1>2 DEF RingOK
  <2> QED BY <1>4, <1>5, <2>1, <2>2, <2>3
<1> QED BY <1>4, <1>5, <1>6, <1>7

\* What is newer than since: all of the ring, or what came after since.
LEMMA NewerCount ==
    ASSUME RingOK, NEW since \in 0..evSeq
    PROVE  Cardinality({i \in DOMAIN evRing : evRing[i] > since}) =
             IF evSeq - since < Len(evRing) THEN evSeq - since ELSE Len(evRing)
<1>1. Len(evRing) \in Nat /\ evSeq \in Nat
  BY LenProperties DEF RingOK
<1>2. DOMAIN evRing = 1..Len(evRing)
  BY LenProperties DEF RingOK
<1>3. CASE evSeq - since < Len(evRing)
  <2>1. PICK a \in Int : a = Len(evRing) - (evSeq - since) + 1
    BY <1>1
  <2>2. PICK b \in Int : b = Len(evRing)
    BY <1>1
  <2>3. ASSUME NEW i \in 1..Len(evRing) PROVE evRing[i] > since <=> i >= a
    <3>1. evRing[i] = (evSeq - Len(evRing)) + i
      BY DEF RingOK
    <3> QED BY <1>1, <2>1, <3>1
  <2>4. {i \in DOMAIN evRing : evRing[i] > since} = a..b
    BY <1>1, <1>2, <1>3, <2>1, <2>2, <2>3
  <2>5. Cardinality(a..b) = IF a > b THEN 0 ELSE b - a + 1
    BY FS_Interval
  <2>6. (IF a > b THEN 0 ELSE b - a + 1) = evSeq - since
    BY <1>1, <2>1, <2>2
  <2> QED BY <1>3, <2>4, <2>5, <2>6
<1>4. CASE ~(evSeq - since < Len(evRing))
  <2>1. PICK b \in Int : b = Len(evRing)
    BY <1>1
  <2>2. ASSUME NEW i \in 1..Len(evRing) PROVE evRing[i] > since
    <3>1. evRing[i] = (evSeq - Len(evRing)) + i
      BY DEF RingOK
    <3> QED BY <1>1, <1>4, <3>1
  <2>3. {i \in DOMAIN evRing : evRing[i] > since} = 1..b
    BY <1>1, <1>2, <2>1, <2>2
  <2>4. Cardinality(1..b) = IF 1 > b THEN 0 ELSE b - 1 + 1
    BY FS_Interval
  <2>5. (IF 1 > b THEN 0 ELSE b - 1 + 1) = Len(evRing)
    BY <1>1, <2>1
  <2> QED BY <1>4, <2>3, <2>4, <2>5
<1> QED BY <1>3, <1>4

\* Whatever since is, the answer is a sequence of events.
LEMMA NewerTyped ==
    ASSUME RingOK, NEW since
    PROVE  Newer(since) \in Seq(Seqs)
<1>1. Len(evRing) \in Nat
  BY LenProperties DEF RingOK
<1>2. DOMAIN evRing = 1..Len(evRing)
  BY LenProperties DEF RingOK
<1>3. PICK b \in Int : b = Len(evRing)
  BY <1>1
<1>4. IsFiniteSet(1..b) /\ Cardinality(1..b) = IF 1 > b THEN 0 ELSE b - 1 + 1
  BY FS_Interval
<1>5. {i \in DOMAIN evRing : evRing[i] > since} \in SUBSET (1..b)
  BY <1>2, <1>3
<1>6. PICK T : T = {i \in DOMAIN evRing : evRing[i] > since}
  OBVIOUS
<1>7. IsFiniteSet(T) /\ Cardinality(T) <= Cardinality(1..b)
  BY <1>4, <1>5, <1>6, FS_Subset
<1>8. Cardinality(T) \in Nat
  BY <1>7, FS_CardinalityType
<1>9. Cardinality(T) \in 0..Len(evRing)
  BY <1>1, <1>3, <1>4, <1>7, <1>8
<1> QED BY <1>6, <1>9, RingEndIs DEF Newer

\* An answer is in order and complete, but for what has fallen off the ring.
LEMMA NewerIs ==
    ASSUME RingOK, NEW since \in 0..evSeq
    PROVE  /\ InOrder(Newer(since))
           /\ \A i \in 1..Len(Newer(since)) :
                since < Newer(since)[i] /\ Newer(since)[i] <= evSeq
           /\ \A n \in (since + 1)..evSeq :
                n \in Lines(Newer(since)) \cup (since + 1)..(evSeq - EvCap)
<1>1. Len(evRing) \in Nat /\ evSeq \in Nat /\ EvCap \in Nat
  BY LenProperties, CapAssumption DEF RingOK
<1>2. PICK n \in 0..Len(evRing) :
        n = IF evSeq - since < Len(evRing) THEN evSeq - since ELSE Len(evRing)
  <2>1. CASE evSeq - since < Len(evRing)
    <3>1. evSeq - since \in 0..Len(evRing)
      BY <1>1, <2>1
    <3> QED BY <2>1, <3>1
  <2>2. CASE ~(evSeq - since < Len(evRing))
    <3>1. Len(evRing) \in 0..Len(evRing)
      BY <1>1
    <3> QED BY <2>2, <3>1
  <2> QED BY <2>1, <2>2
<1>3. PICK s \in Seq(Seqs) : s = Newer(since) /\ s = RingEnd(n)
  BY <1>2, NewerCount, RingEndIs DEF Newer
<1>4. Len(s) = n /\ \A k \in 1..n : s[k] = (evSeq - n) + k
  BY <1>3, RingEndIs
<1>5. InOrder(s)
  <2>1. ASSUME NEW i \in 1..n, NEW j \in 1..n, i < j PROVE s[i] < s[j]
    BY <1>1, <1>4, <2>1
  <2> QED BY <1>4, <2>1 DEF InOrder
<1>6. n <= evSeq - since
  BY <1>1, <1>2
<1>7. ASSUME NEW i \in 1..Len(s) PROVE since < s[i] /\ s[i] <= evSeq
  <2>1. s[i] = (evSeq - n) + i /\ i \in 1..n
    BY <1>4
  <2> QED BY <1>1, <1>6, <2>1
<1>8. ASSUME NEW m \in (since + 1)..evSeq
      PROVE  m \in Lines(s) \cup (since + 1)..(evSeq - EvCap)
  <2>1. CASE m > evSeq - n
    <3>1. m - (evSeq - n) \in 1..n
      BY <1>1, <2>1
    <3>2. s[m - (evSeq - n)] = m
      <4>1. s[m - (evSeq - n)] = (evSeq - n) + (m - (evSeq - n))
        BY <1>4, <3>1
      <4> QED BY <1>1, <4>1
    <3> QED BY <1>4, <3>1, <3>2 DEF Lines
  <2>2. CASE ~(m > evSeq - n)
    <3>1. n < evSeq - since
      BY <1>1, <2>2
    <3>2. n = Len(evRing)
      BY <1>1, <1>2, <3>1
    <3>3. n = EvCap
      BY <1>1, <3>1, <3>2 DEF RingOK
    <3> QED BY <1>1, <2>2, <3>3
  <2> QED BY <1>1, <2>1, <2>2
<1> QED BY <1>3, <1>5, <1>7, <1>8

\* Broadcast trims the ring and keeps its numbers.
LEMMA StampKeepsRing ==
    ASSUME RingOK, NEW g \in Goroutines, Stamp(g)
    PROVE  RingOK'
<1>1. Len(evRing) \in Nat /\ evSeq \in 0..MaxSeq /\ MaxSeq \in Nat /\ EvCap \in Nat \ {0}
  BY LenProperties, CapAssumption, BoundAssumption DEF RingOK
<1>2. evSeq + 1 \in Seqs /\ evSeq' = evSeq + 1 /\ evSeq' \in 0..MaxSeq
  BY <1>1 DEF Stamp, Seqs
<1>3. PICK s \in Seq(Seqs) : s = Append(evRing, evSeq + 1)
  BY <1>2, AppendProperties DEF RingOK
<1>4. /\ Len(s) = Len(evRing) + 1
      /\ \A i \in 1..Len(evRing) : s[i] = evRing[i]
      /\ s[Len(evRing) + 1] = evSeq + 1
  BY <1>2, <1>3, AppendProperties DEF RingOK
<1>5. ASSUME NEW i \in 1..Len(s) PROVE s[i] = (evSeq - Len(evRing)) + i
  <2>1. CASE i \in 1..Len(evRing)
    BY <1>4, <2>1 DEF RingOK
  <2>2. CASE i = Len(evRing) + 1
    BY <1>1, <1>4, <2>2
  <2> QED BY <1>1, <1>4, <2>1, <2>2
<1>6. evRing' = Kept(s)
  BY <1>3 DEF Stamp
<1>7. CASE Len(s) > EvCap
  <2>1. Len(evRing) = EvCap /\ Len(s) = EvCap + 1 /\ evSeq >= EvCap
    BY <1>1, <1>4, <1>7 DEF RingOK
  <2>2. PICK l \in Int : l = 2
    OBVIOUS
  <2>3. evRing' = SubSeq(s, l, Len(s))
    BY <1>1, <1>6, <1>7, <2>1, <2>2 DEF Kept
  <2>4. Len(s) \in Int /\ \A i \in l..Len(s) : s[i] \in Seqs
    BY <1>1, <2>1, <2>2
  <2>5. /\ SubSeq(s, l, Len(s)) \in Seq(Seqs)
        /\ Len(SubSeq(s, l, Len(s))) = IF l <= Len(s) THEN Len(s) - l + 1 ELSE 0
        /\ \A i \in 1..(Len(s) - l + 1) : SubSeq(s, l, Len(s))[i] = s[l + i - 1]
    BY <2>4, SubSeqProperties
  <2>6. Len(evRing') = EvCap
    BY <1>1, <2>1, <2>2, <2>3, <2>5
  <2>7. ASSUME NEW i \in 1..Len(evRing') PROVE evRing'[i] = (evSeq' - Len(evRing')) + i
    <3>1. i \in 1..(Len(s) - l + 1) /\ l + i - 1 \in 1..Len(s)
      BY <1>1, <2>1, <2>2, <2>6
    <3>2. evRing'[i] = (evSeq - Len(evRing)) + (l + i - 1)
      BY <1>5, <2>3, <2>5, <3>1
    <3> QED BY <1>1, <1>2, <2>1, <2>2, <2>6, <3>2
  <2>8. ~(evSeq' < EvCap)
    BY <1>1, <1>2, <2>1
  <2> QED BY <1>2, <2>3, <2>5, <2>6, <2>7, <2>8 DEF RingOK
<1>8. CASE ~(Len(s) > EvCap)
  <2>1. evRing' = s
    BY <1>6, <1>8 DEF Kept
  <2>2. Len(evRing) = evSeq
    BY <1>1, <1>4, <1>8 DEF RingOK
  <2>3. Len(s) = IF evSeq' < EvCap THEN evSeq' ELSE EvCap
    BY <1>1, <1>2, <1>4, <1>8, <2>2
  <2>4. \A i \in 1..Len(s) : s[i] = (evSeq' - Len(s)) + i
    BY <1>1, <1>2, <1>4, <1>5
  <2> QED BY <1>2, <2>1, <2>3, <2>4 DEF RingOK
<1> QED BY <1>7, <1>8

\* Two lists of lines, one up to u and one from there to q, are one up to q.
LEMMA LinesJoin ==
    ASSUME NEW c \in Seq(Seqs), NEW e \in Seq(Seqs), NEW u \in Nat, NEW q \in Nat, NEW F,
           u <= q, InOrder(c), InOrder(e),
           \A i \in 1..Len(c) : c[i] <= u,
           \A i \in 1..Len(e) : u < e[i] /\ e[i] <= q,
           \A n \in 1..u : n \in Lines(c) \cup F,
           \A n \in (u + 1)..q : n \in Lines(e) \cup F
    PROVE  /\ InOrder(c \o e)
           /\ \A i \in 1..Len(c \o e) : (c \o e)[i] <= q
           /\ \A n \in 1..q : n \in Lines(c \o e) \cup F
<1>1. Len(c) \in Nat /\ Len(e) \in Nat
  BY LenProperties
<1>2. PICK b \in Seq(Seqs) : b = c \o e
  BY ConcatProperties
<1>3. /\ Len(b) = Len(c) + Len(e)
      /\ \A k \in 1..(Len(c) + Len(e)) : b[k] = IF k <= Len(c) THEN c[k] ELSE e[k - Len(c)]
  BY <1>2, ConcatProperties
<1>4. /\ \A k \in 1..Len(c) : c[k] \in Int
      /\ \A k \in 1..Len(e) : e[k] \in Int
  <2>1. \A k \in 1..Len(c) : c[k] \in Seqs
    BY <1>1
  <2>2. \A k \in 1..Len(e) : e[k] \in Seqs
    BY <1>1
  <2> QED BY <2>1, <2>2 DEF Seqs
<1>5. \A k \in 1..Len(c) : k \in 1..Len(b) /\ b[k] = c[k]
  BY <1>1, <1>3
<1>6. ASSUME NEW k \in 1..Len(e)
      PROVE  \E m \in 1..Len(b) : m = Len(c) + k /\ b[m] = e[k]
  <2>1. PICK m \in 1..Len(b) : m = Len(c) + k
    BY <1>1, <1>3
  <2>2. m \in 1..(Len(c) + Len(e)) /\ ~(m <= Len(c)) /\ m - Len(c) = k
    BY <1>1, <1>3, <2>1
  <2> QED BY <1>3, <2>1, <2>2
<1>7. ASSUME NEW i \in 1..Len(b)
      PROVE  \/ i \in 1..Len(c)
             \/ \E k \in 1..Len(e) : i = Len(c) + k /\ b[i] = e[k]
  <2>1. CASE i <= Len(c)
    BY <1>1, <2>1
  <2>2. CASE ~(i <= Len(c))
    <3>1. PICK k \in 1..Len(e) : i = Len(c) + k
      <4>1. i - Len(c) \in 1..Len(e) /\ i = Len(c) + (i - Len(c))
        BY <1>1, <1>3, <2>2
      <4> QED BY <4>1
    <3> QED BY <1>1, <1>6, <3>1
  <2> QED BY <2>1, <2>2
<1>8. ASSUME NEW i \in 1..Len(b) PROVE b[i] <= q
  <2>1. CASE i \in 1..Len(c)
    BY <1>4, <1>5, <2>1
  <2>2. CASE \E k \in 1..Len(e) : i = Len(c) + k /\ b[i] = e[k]
    BY <2>2
  <2> QED BY <1>7, <2>1, <2>2
<1>9. ASSUME NEW i \in 1..Len(b), NEW j \in 1..Len(b), i < j PROVE b[i] < b[j]
  <2>1. CASE j \in 1..Len(c)
    <3>1. i \in 1..Len(c)
      BY <1>1, <1>9, <2>1
    <3> QED BY <1>5, <1>9, <2>1, <3>1 DEF InOrder
  <2>2. CASE \E k \in 1..Len(e) : j = Len(c) + k /\ b[j] = e[k]
    <3>1. PICK k \in 1..Len(e) : j = Len(c) + k /\ b[j] = e[k]
      BY <2>2
    <3>2. CASE i \in 1..Len(c)
      <4>1. b[i] = c[i] /\ c[i] <= u /\ u < e[k]
        BY <1>5, <3>2
      <4>2. c[i] \in Int /\ e[k] \in Int
        BY <1>4, <3>2
      <4>3. c[i] < e[k]
        BY <4>1, <4>2
      <4>4. b[i] < e[k]
        BY <4>1, <4>3
      <4> QED BY <3>1, <4>4
    <3>3. CASE \E l \in 1..Len(e) : i = Len(c) + l /\ b[i] = e[l]
      <4>1. PICK l \in 1..Len(e) : i = Len(c) + l /\ b[i] = e[l]
        BY <3>3
      <4>2. l < k
        BY <1>1, <1>9, <3>1, <4>1
      <4> QED BY <3>1, <4>1, <4>2 DEF InOrder
    <3> QED BY <1>7, <3>2, <3>3
  <2> QED BY <1>7, <2>1, <2>2
<1>10. ASSUME NEW n \in 1..q PROVE n \in Lines(b) \cup F
  <2>1. Lines(c) \subseteq Lines(b)
    BY <1>5 DEF Lines
  <2>2. Lines(e) \subseteq Lines(b)
    BY <1>6 DEF Lines
  <2>3. n \in 1..u \/ n \in (u + 1)..q
    OBVIOUS
  <2> QED BY <2>1, <2>2, <2>3
<1> QED BY <1>2, <1>8, <1>9, <1>10 DEF InOrder

\* Behind a proxy, a panel gets its lines from answers only.
LEMMA AppliesKeepsPanel ==
    ASSUME PolledInv, NEW p \in Panels, PollApplies(p), buffered[p]
    PROVE  PanelOK(p)'
<1>1. /\ console \in [Panels -> Seq(Seqs)] /\ poll \in [Panels -> Polls]
      /\ cursor \in [Panels -> 0..MaxSeq] /\ evSeq \in 0..MaxSeq /\ MaxSeq \in Nat
  BY BoundAssumption DEF PolledInv, TypeOK
<1>2. PICK c \in Seq(Seqs) : c = console[p]
  BY <1>1
<1>3. PICK e \in Seq(Seqs) : e = poll[p].events
  BY <1>1 DEF Polls
<1>4. PICK q \in Nat : q = poll[p].seq
  <2>1. poll[p].seq \in 0..MaxSeq
    BY <1>1 DEF Polls
  <2> QED BY <1>1, <2>1
<1>5. PICK u \in Nat : u = cursor[p]
  <2>1. cursor[p] \in 0..MaxSeq
    BY <1>1
  <2> QED BY <1>1, <2>1
<1>6. ConsoleOK(p) /\ AnswerOK(p)
  BY DEF PollApplies, PolledInv, PanelOK
<1>7. /\ u <= q /\ q <= evSeq
      /\ InOrder(c) /\ InOrder(e)
      /\ \A i \in 1..Len(c) : c[i] <= u
      /\ \A i \in 1..Len(e) : u < e[i] /\ e[i] <= q
      /\ \A n \in 1..u : n \in Lines(c) \cup fallen[p]
      /\ \A n \in (u + 1)..q : n \in Lines(e) \cup fallen[p]
  BY <1>2, <1>3, <1>4, <1>5, <1>6 DEF ConsoleOK, AnswerOK
<1>8. /\ InOrder(c \o e)
      /\ \A i \in 1..Len(c \o e) : (c \o e)[i] <= q
      /\ \A n \in 1..q : n \in Lines(c \o e) \cup fallen[p]
  BY <1>7, LinesJoin
<1>9. console'[p] = c \o e
  BY <1>1, <1>2, <1>3 DEF PollApplies
<1>10. cursor'[p] = q
  <2>1. cursor'[p] = IF q > u THEN q ELSE u
    BY <1>1, <1>4, <1>5 DEF PollApplies
  <2> QED BY <1>7, <2>1
<1>11. poll'[p].at = "none"
  BY <1>1 DEF PollApplies, Idle
<1>12. UNCHANGED <<buffered, fallen, evSeq>>
  BY DEF PollApplies, eventVars
<1> QED BY <1>7, <1>8, <1>9, <1>10, <1>11, <1>12 DEF PanelOK, ConsoleOK

\* The answer to a question: what is newer than the cursor, or has fallen off.
LEMMA ServeKeepsPanel ==
    ASSUME PolledInv, NEW p \in Panels, ServeEvLog(p), buffered[p]
    PROVE  PanelOK(p)'
<1>1. /\ poll \in [Panels -> Polls] /\ fallen \in [Panels -> SUBSET Seqs]
      /\ cursor \in [Panels -> 0..MaxSeq] /\ evSeq \in 0..MaxSeq /\ MaxSeq \in Nat
      /\ EvCap \in Nat
  BY BoundAssumption, CapAssumption DEF PolledInv, TypeOK
<1>2. poll[p].since = cursor[p] /\ cursor[p] <= evSeq /\ ConsoleOK(p)
  BY DEF ServeEvLog, PolledInv, PanelOK
<1>3. PICK u \in 0..evSeq : u = cursor[p]
  BY <1>1, <1>2
<1>4. PICK e \in Seq(Seqs) : e = Newer(u)
  BY NewerTyped DEF PolledInv
<1>5. /\ InOrder(e)
      /\ \A i \in 1..Len(e) : u < e[i] /\ e[i] <= evSeq
      /\ \A n \in (u + 1)..evSeq : n \in Lines(e) \cup (u + 1)..(evSeq - EvCap)
  BY <1>4, NewerIs DEF PolledInv
<1>6. /\ poll'[p].seq = evSeq /\ poll'[p].events = e /\ poll'[p].at = "answered"
      /\ fallen'[p] = fallen[p] \cup (u + 1)..(evSeq - EvCap)
      /\ UNCHANGED <<evSeq, buffered, console, cursor>>
  BY <1>1, <1>2, <1>3, <1>4 DEF ServeEvLog, Polls, eventVars
<1>7. ConsoleOK(p)'
  BY <1>2, <1>6 DEF ConsoleOK
<1>8. AnswerOK(p)'
  <2>1. \A n \in (u + 1)..evSeq : n \in Lines(e) \cup fallen'[p]
    BY <1>5, <1>6
  <2>2. u <= evSeq /\ evSeq <= evSeq
    BY <1>1, <1>3
  <2>3. cursor'[p] = u /\ evSeq' = evSeq
    BY <1>3, <1>6
  <2> QED BY <1>5, <1>6, <2>1, <2>2, <2>3 DEF AnswerOK
<1> QED BY <1>2, <1>6, <1>7, <1>8 DEF PanelOK

\* Every other step leaves a panel behind a proxy as it is, or gives up its question.
LEMMA OthersKeepPanel ==
    ASSUME PolledInv, NEW p \in Panels, evSeq' \in Nat, evSeq <= evSeq',
           UNCHANGED buffered,
           buffered[p] => /\ console'[p] = console[p] /\ cursor'[p] = cursor[p]
                          /\ fallen'[p] = fallen[p],
           \/ poll'[p] = poll[p]
           \/ poll'[p].at = "none"
           \/ poll'[p].at = "asked" /\ poll'[p].since = cursor[p]
    PROVE  PanelOK(p)'
<1> SUFFICES ASSUME buffered[p] PROVE PanelOK(p)'
  BY DEF PanelOK
<1>1. /\ cursor[p] \in 0..MaxSeq /\ evSeq \in 0..MaxSeq /\ MaxSeq \in Nat
      /\ poll[p] \in Polls
  BY BoundAssumption DEF PolledInv, TypeOK
<1>2. cursor[p] <= evSeq /\ ConsoleOK(p)
  BY DEF PolledInv, PanelOK
<1>3. cursor'[p] <= evSeq' /\ ConsoleOK(p)'
  BY <1>1, <1>2 DEF ConsoleOK
<1>4. CASE poll'[p] = poll[p]
  <2>1. poll[p].seq \in 0..MaxSeq
    BY <1>1 DEF Polls
  <2>2. /\ poll[p].at = "asked" => poll[p].since = cursor[p]
        /\ poll[p].at = "answered" => AnswerOK(p)
    BY DEF PolledInv, PanelOK
  <2>3. AnswerOK(p) => AnswerOK(p)'
    BY <1>1, <1>4, <2>1 DEF AnswerOK
  <2> QED BY <1>3, <1>4, <2>2, <2>3 DEF PanelOK
<1>5. CASE \/ poll'[p].at = "none"
           \/ poll'[p].at = "asked" /\ poll'[p].since = cursor[p]
  <2>1. cursor'[p] = cursor[p]
    OBVIOUS
  <2> QED BY <1>3, <1>5, <2>1 DEF PanelOK
<1> QED BY <1>4, <1>5

\* The parts of TypeOK that the producers, the streams and the polls change.
ProducerTypes ==
    /\ world \in Versions
    /\ pc \in [Goroutines -> Pcs]
    /\ frame \in [Goroutines -> Nat]
    /\ last \in Snapshots
    /\ crossing \in [Goroutines -> {"none", "up", "down"}]
    /\ first \in Snapshots
    /\ told \in Int

StreamsTyped ==
    /\ stream \in [Panels -> {"closed", "open", "live", "picked"}]
    /\ slot \in [Panels -> Snapshots]
    /\ lossy \in [Panels -> Seq(Seqs)]
    /\ \A p \in Panels : Len(lossy[p]) <= LossyCap
    /\ buffered \in [Panels -> BOOLEAN]
    /\ shown \in [Panels -> Snapshots]
    /\ latest \in [Panels -> Snapshots]
    /\ delayed \in [Panels -> Nat]

PanelTypes ==
    /\ console \in [Panels -> Seq(Seqs)]
    /\ cursor \in [Panels -> 0..MaxSeq]
    /\ poll \in [Panels -> Polls]
    /\ fallen \in [Panels -> SUBSET Seqs]

LEMMA TypeParts == TypeOK => ProducerTypes /\ StreamsTyped /\ PanelTypes
BY DEF TypeOK, ProducerTypes, StreamsTyped, PanelTypes

LEMMA TypesMeet ==
    RingOK /\ ProducerTypes /\ StreamsTyped /\ PanelTypes => TypeOK
<1>1. RingOK => evSeq \in 0..MaxSeq /\ evRing \in Seq(Seqs) /\ Len(evRing) <= EvCap
  BY CapAssumption DEF RingOK
<1> QED BY <1>1 DEF TypeOK, ProducerTypes, StreamsTyped, PanelTypes

LEMMA TypesMeetNext ==
    RingOK' /\ ProducerTypes' /\ StreamsTyped' /\ PanelTypes' => TypeOK'
BY TypesMeet, PTL

LEMMA PolledInitially == Init => PolledInv
<1> SUFFICES ASSUME Init PROVE PolledInv
  OBVIOUS
<1> USE CapAssumption, BoundAssumption
<1>1. <<>> \in Seq(Seqs) /\ Len(<<>>) = 0
  BY EmptySeq
<1>2. RingOK
  BY <1>1 DEF Init, RingOK
<1>3. ProducerTypes /\ FramesOK
  BY DEF Init, ProducerTypes, FramesOK, Pcs, Versions, Snapshots, None
<1>4. StreamsTyped
  BY <1>1 DEF Init, StreamsTyped, Snapshots, None
<1>5. PICK q \in Polls :
        q = [Idle EXCEPT !.at = "asked"] /\ q.at = "asked" /\ q.since = 0
  <2>1. Idle \in Polls /\ Idle.since = 0
    BY <1>1 DEF Idle, Polls
  <2>2. /\ [Idle EXCEPT !.at = "asked"] \in Polls
        /\ [Idle EXCEPT !.at = "asked"].at = "asked"
        /\ [Idle EXCEPT !.at = "asked"].since = Idle.since
    BY <2>1 DEF Polls
  <2> QED BY <2>1, <2>2
<1>6. /\ poll = [p \in Panels |-> q] /\ console = [p \in Panels |-> <<>>]
      /\ cursor = [p \in Panels |-> 0] /\ fallen = [p \in Panels |-> {}] /\ evSeq = 0
  <2>1. poll = [p \in Panels |-> [Idle EXCEPT !.at = "asked"]]
    BY DEF Init
  <2>2. /\ console = [p \in Panels |-> <<>>] /\ cursor = [p \in Panels |-> 0]
        /\ fallen = [p \in Panels |-> {}] /\ evSeq = 0
    BY DEF Init
  <2> QED BY <1>5, <2>1, <2>2
<1>7. PanelTypes
  BY <1>1, <1>6 DEF PanelTypes
<1>8. ASSUME NEW p \in Panels PROVE PanelOK(p)
  <2>1. /\ poll[p].at = "asked" /\ poll[p].since = 0 /\ cursor[p] = 0 /\ evSeq = 0
        /\ console[p] = <<>>
    BY <1>5, <1>6
  <2>2. ConsoleOK(p)
    BY <1>1, <2>1 DEF ConsoleOK, InOrder
  <2> QED BY <2>1, <2>2 DEF PanelOK
<1> QED BY <1>2, <1>3, <1>4, <1>7, <1>8, TypesMeet DEF PolledInv

\* What a goroutine does.
LEMMA GoroutineKeepsPolled ==
    ASSUME PolledInv, NEW g \in Goroutines, Stamp(g) \/ TakeSnapshot(g) \/ Broadcast(g)
    PROVE  PolledInv'
<1>1. ProducerTypes /\ StreamsTyped /\ PanelTypes /\ RingOK /\ FramesOK
  BY TypeParts DEF PolledInv
<1>2. MaxSeq \in Nat /\ MaxWorld \in Nat \ {0} /\ evSeq \in 0..MaxSeq /\ LossyCap \in Nat
  BY <1>1, BoundAssumption, CapAssumption DEF RingOK
<1>3. UNCHANGED <<panelVars, buffered, stream>>
  BY DEF Stamp, TakeSnapshot, Broadcast, FanOut, PushState, SwapLast, NotifyState, streamVars
<1>4. PanelTypes'
  BY <1>1, <1>3 DEF PanelTypes, panelVars
<1>5. /\ RingOK'
      /\ evSeq' \in Nat /\ evSeq <= evSeq'
  <2>1. CASE Stamp(g)
    <3>1. evSeq' = evSeq + 1
      BY <2>1 DEF Stamp
    <3> QED BY <1>1, <1>2, <2>1, <3>1, StampKeepsRing
  <2>2. CASE ~Stamp(g)
    <3>1. UNCHANGED <<evSeq, evRing>>
      BY <2>2 DEF TakeSnapshot, Broadcast, FanOut, PushState, SwapLast, NotifyState, eventVars
    <3> QED BY <1>1, <1>2, <3>1 DEF RingOK
  <2> QED BY <2>1, <2>2
<1>6. \A p \in Panels : PanelOK(p)'
  BY <1>3, <1>5, OthersKeepPanel DEF panelVars
<1>7. ProducerTypes' /\ FramesOK'
  <2> USE DEF ProducerTypes, FramesOK, Goto, Done, Pcs, Versions, Snapshots, None
  <2>1. CASE Stamp(g)
    <3>1. evSeq + 1 \in Seqs
      BY <1>2, <2>1 DEF Stamp, Seqs
    <3> QED BY <1>1, <1>2, <2>1, <3>1 DEF Stamp, notifyVars
  <2>2. CASE TakeSnapshot(g)
    BY <1>1, <1>2, <2>2 DEF TakeSnapshot, Reads, notifyVars
  <2>3. CASE FanOut(g)
    BY <1>1, <2>3 DEF FanOut, notifyVars
  <2>4. CASE PushState(g)
    BY <1>1, <1>2, <2>4 DEF PushState, notifyVars
  <2>5. CASE SwapLast(g)
    BY <1>1, <2>5 DEF SwapLast, Crossed
  <2>6. CASE NotifyState(g)
    <3>1. told' \in {told, told + 1, told - 1}
      BY <2>6, Zenon DEF NotifyState
    <3>2. /\ pc' = [pc EXCEPT ![g] = "idle"] /\ frame' = [frame EXCEPT ![g] = None]
          /\ crossing' = [crossing EXCEPT ![g] = "none"]
          /\ UNCHANGED <<world, last, first>>
      BY <2>6, Zenon DEF NotifyState, Done, Goto
    <3> QED BY <1>1, <3>1, <3>2
  <2> QED BY <2>1, <2>2, <2>3, <2>4, <2>5, <2>6 DEF Broadcast
<1>8. StreamsTyped'
  <2>1. CASE FanOut(g)
    <3>1. frame[g] \in Seqs
      BY <1>1, <2>1 DEF FramesOK, FanOut
    <3>2. ASSUME NEW s \in Seq(Seqs), Len(s) < LossyCap
          PROVE  Append(s, frame[g]) \in Seq(Seqs) /\ Len(Append(s, frame[g])) <= LossyCap
      <4>1. Len(s) \in Nat /\ Append(s, frame[g]) \in Seq(Seqs)
            /\ Len(Append(s, frame[g])) = Len(s) + 1
        BY <3>1, LenProperties, AppendProperties
      <4> QED BY <1>2, <3>2, <4>1
    <3>3. \A p \in Panels : lossy[p] \in Seq(Seqs) /\ Len(lossy[p]) <= LossyCap
      BY <1>1 DEF StreamsTyped
    <3>4. \A p \in Panels :
            lossy'[p] = IF Registered(p) /\ Len(lossy[p]) < LossyCap
                        THEN Append(lossy[p], frame[g]) ELSE lossy[p]
      BY <2>1 DEF FanOut
    <3>5. \A p \in Panels : lossy'[p] \in Seq(Seqs) /\ Len(lossy'[p]) <= LossyCap
      BY <3>2, <3>3, <3>4
    <3>6. lossy' \in [Panels -> Seq(Seqs)]
      <4>1. lossy' = [p \in Panels |-> lossy'[p]]
        BY <2>1 DEF FanOut
      <4> QED BY <3>5, <4>1
    <3> QED BY <1>1, <1>3, <2>1, <3>5, <3>6 DEF StreamsTyped, FanOut, panelVars
  <2>2. CASE PushState(g)
    <3>1. frame[g] \in Snapshots
      BY <1>1, <2>2 DEF FramesOK, PushState, Snapshots
    <3>2. slot' \in [Panels -> Snapshots] /\ latest' \in [Panels -> Snapshots]
      BY <1>1, <2>2, <3>1 DEF PushState, Pushed, StreamsTyped
    <3> QED BY <1>1, <1>3, <2>2, <3>2 DEF StreamsTyped, PushState, panelVars
  <2>3. CASE ~FanOut(g) /\ ~PushState(g)
    <3>1. UNCHANGED streamVars
      BY <2>3 DEF Stamp, TakeSnapshot, Broadcast, SwapLast, NotifyState
    <3> QED BY <1>1, <1>3, <3>1 DEF StreamsTyped, streamVars, panelVars
  <2> QED BY <2>1, <2>2, <2>3
<1> QED BY <1>4, <1>5, <1>6, <1>7, <1>8, TypesMeetNext DEF PolledInv

\* What the stream of a panel does.
LEMMA StreamKeepsPolled ==
    ASSUME PolledInv, NEW p \in Panels, Connect(p) \/ Relay(p) \/ Disconnect(p)
    PROVE  PolledInv'
<1>1. ProducerTypes /\ StreamsTyped /\ PanelTypes /\ RingOK /\ FramesOK
  BY TypeParts DEF PolledInv
<1>2. UNCHANGED <<world, eventVars, pc, frame, notifyVars, buffered, poll, fallen>>
  BY DEF Connect, Relay, Greet, FindsNoState, RelayState, RelayEvent, Disconnect, panelVars
<1>3. ProducerTypes' /\ FramesOK' /\ RingOK'
  BY <1>1, <1>2 DEF ProducerTypes, FramesOK, RingOK, eventVars, notifyVars
<1>4. StreamsTyped' /\ PanelTypes'
      /\ \A o \in Panels : buffered[o] => console'[o] = console[o] /\ cursor'[o] = cursor[o]
  <2>1. CASE RelayEvent(p)
    <3>1. /\ lossy[p] \in Seq(Seqs) /\ lossy[p] # <<>> /\ Len(lossy[p]) <= LossyCap
          /\ console[p] \in Seq(Seqs)
      BY <1>1, <2>1 DEF StreamsTyped, PanelTypes, RelayEvent
    <3>2. /\ Head(lossy[p]) \in Seqs /\ Tail(lossy[p]) \in Seq(Seqs)
          /\ Len(Tail(lossy[p])) = Len(lossy[p]) - 1
          /\ Len(lossy[p]) \in Nat /\ Append(console[p], Head(lossy[p])) \in Seq(Seqs)
      BY <3>1, HeadTailProperties, LenProperties, AppendProperties
    <3>3. Len(Tail(lossy[p])) <= LossyCap
      BY <3>1, <3>2, CapAssumption
    <3>4. PICK t \in Seq(Seqs) : t = Tail(lossy[p]) /\ Len(t) <= LossyCap
      BY <3>2, <3>3
    <3>5. lossy' = [lossy EXCEPT ![p] = t]
      BY <1>1, <2>1, <3>4 DEF RelayEvent, StreamsTyped
    <3>6. UNCHANGED <<slot, latest, shown>> /\ stream' = [stream EXCEPT ![p] = "live"]
          /\ delayed' = [delayed EXCEPT ![p] = IF slot[p] = None THEN 0 ELSE delayed[p] + 1]
      BY <2>1 DEF RelayEvent
    <3>7. StreamsTyped'
      BY <1>1, <1>2, <3>4, <3>5, <3>6 DEF StreamsTyped
    <3>8. CASE buffered[p]
      <4>1. UNCHANGED <<console, cursor>>
        BY <2>1, <3>8 DEF RelayEvent
      <4> QED BY <1>1, <1>2, <3>7, <4>1 DEF PanelTypes
    <3>9. CASE ~buffered[p]
      <4>1. PICK s \in Seqs : s = Head(lossy[p])
        BY <3>2
      <4>2. PICK c \in Seq(Seqs) : c = Append(console[p], s)
        BY <3>2, <4>1
      <4>3. console' = [console EXCEPT ![p] = c]
            /\ cursor' = [cursor EXCEPT ![p] = IF s > cursor[p] THEN s ELSE cursor[p]]
        BY <1>1, <2>1, <3>9, <4>1, <4>2 DEF RelayEvent, PanelTypes
      <4>4. s \in 0..MaxSeq /\ cursor[p] \in 0..MaxSeq
        BY <1>1, BoundAssumption DEF PanelTypes, Seqs
      <4>5. PanelTypes'
        BY <1>1, <1>2, <4>3, <4>4 DEF PanelTypes
      <4>6. \A o \in Panels : o # p => console'[o] = console[o] /\ cursor'[o] = cursor[o]
        BY <1>1, <4>3 DEF PanelTypes
      <4> QED BY <3>7, <3>9, <4>5, <4>6
    <3> QED BY <3>8, <3>9
  <2>2. CASE ~RelayEvent(p)
    <3>1. UNCHANGED <<console, cursor>>
      BY <2>2 DEF Connect, Relay, Greet, FindsNoState, RelayState, Disconnect, panelVars
    <3>2. StreamsTyped'
      <4> USE <1>1, <1>2, CapAssumption, EmptySeq DEF StreamsTyped, Snapshots
      <4>1. CASE Connect(p)      BY <4>1 DEF Connect, panelVars
      <4>2. CASE Greet(p)        BY <4>2 DEF Greet, Shows, ProducerTypes
      <4>3. CASE FindsNoState(p) BY <4>3 DEF FindsNoState, panelVars
      <4>4. CASE RelayState(p)   BY <4>4 DEF RelayState, Shows
      <4>5. CASE Disconnect(p)   BY <4>5 DEF Disconnect, panelVars
      <4> QED BY <2>2, <4>1, <4>2, <4>3, <4>4, <4>5 DEF Relay
    <3> QED BY <1>1, <1>2, <3>1, <3>2 DEF PanelTypes
  <2> QED BY <2>1, <2>2
<1>5. evSeq' \in Nat /\ evSeq <= evSeq'
  BY <1>1, <1>2, BoundAssumption DEF RingOK, eventVars
<1>6. \A o \in Panels : PanelOK(o)'
  BY <1>2, <1>4, <1>5, OthersKeepPanel
<1> QED BY <1>3, <1>4, <1>6, TypesMeetNext DEF PolledInv

\* What the polls of a panel do.
LEMMA PollKeepsPolled ==
    ASSUME PolledInv, NEW p \in Panels,
           PollAsks(p) \/ ServeEvLog(p) \/ PollApplies(p) \/ PollFails(p)
    PROVE  PolledInv'
<1>1. ProducerTypes /\ StreamsTyped /\ PanelTypes /\ RingOK /\ FramesOK
  BY TypeParts DEF PolledInv
<1>2. UNCHANGED <<world, eventVars, pc, frame, notifyVars, streamVars, buffered, shown>>
  BY DEF PollAsks, ServeEvLog, PollApplies, PollFails
<1>3. ProducerTypes' /\ FramesOK' /\ RingOK' /\ StreamsTyped'
  BY <1>1, <1>2 DEF ProducerTypes, FramesOK, RingOK, StreamsTyped, eventVars, notifyVars,
                    streamVars
<1>4. /\ poll[p] \in Polls /\ cursor[p] \in 0..MaxSeq /\ evSeq \in 0..MaxSeq
      /\ MaxSeq \in Nat /\ EvCap \in Nat
  BY <1>1, BoundAssumption, CapAssumption DEF PanelTypes, RingOK
<1>5. PICK q \in 0..MaxSeq : q = poll[p].seq
  BY <1>4 DEF Polls
<1>6. PICK u \in 0..MaxSeq : u = poll[p].since
  BY <1>4 DEF Polls
<1>7. \A o \in Panels \ {p} :
        /\ console'[o] = console[o] /\ cursor'[o] = cursor[o]
        /\ fallen'[o] = fallen[o] /\ poll'[o] = poll[o]
  BY <1>1 DEF PanelTypes, PollAsks, ServeEvLog, PollApplies, PollFails
<1>8. Idle \in Polls
  BY <1>4, EmptySeq DEF Idle, Polls
<1>9. PanelTypes'
  <2>1. CASE PollAsks(p)
    <3>1. [Idle EXCEPT !.at = "asked", !.since = cursor[p]] \in Polls
      BY <1>4, <1>8 DEF Idle, Polls
    <3> QED BY <1>1, <2>1, <3>1 DEF PanelTypes, PollAsks
  <2>2. CASE ServeEvLog(p)
    <3>1. PICK e \in Seq(Seqs) : e = Newer(poll[p].since)
      BY <1>1, NewerTyped
    <3>2. [poll[p] EXCEPT !.at = "answered", !.seq = evSeq, !.events = e] \in Polls
      BY <1>4 DEF Polls
    <3>3. poll' = [poll EXCEPT ![p] = [poll[p] EXCEPT !.at = "answered", !.seq = evSeq,
                                                       !.events = e]]
      BY <1>1, <2>2, <3>1 DEF ServeEvLog, PanelTypes
    <3>4. (u + 1)..(evSeq - EvCap) \subseteq Seqs
      BY <1>4 DEF Seqs
    <3>5. fallen' = [fallen EXCEPT ![p] = fallen[p] \cup (u + 1)..(evSeq - EvCap)]
          /\ UNCHANGED <<console, cursor>>
      BY <1>6, <2>2 DEF ServeEvLog
    <3> QED BY <1>1, <3>2, <3>3, <3>4, <3>5 DEF PanelTypes
  <2>3. CASE PollApplies(p)
    <3>1. PICK c \in Seq(Seqs) : c = console[p] \o poll[p].events
      <4>1. console[p] \in Seq(Seqs) /\ poll[p].events \in Seq(Seqs)
        BY <1>1, <1>4 DEF PanelTypes, Polls
      <4> QED BY <4>1, ConcatProperties
    <3>2. console' = [console EXCEPT ![p] = c]
          /\ cursor' = [cursor EXCEPT ![p] = IF q > cursor[p] THEN q ELSE cursor[p]]
          /\ poll' = [poll EXCEPT ![p] = Idle] /\ UNCHANGED fallen
      BY <1>1, <1>5, <2>3, <3>1 DEF PollApplies, PanelTypes
    <3> QED BY <1>1, <1>4, <1>8, <3>2 DEF PanelTypes
  <2>4. CASE PollFails(p)
    BY <1>1, <1>8, <2>4 DEF PanelTypes, PollFails
  <2> QED BY <2>1, <2>2, <2>3, <2>4
<1>10. evSeq' \in Nat /\ evSeq <= evSeq'
  BY <1>2, <1>4 DEF eventVars
<1>11. PanelOK(p)'
  <2>1. CASE PollAsks(p) \/ PollFails(p)
    <3>1. \/ poll'[p].at = "none"
          \/ poll'[p].at = "asked" /\ poll'[p].since = cursor[p]
      <4>1. PICK o \in Polls : o = [Idle EXCEPT !.at = "asked", !.since = cursor[p]]
                               /\ o.at = "asked" /\ o.since = cursor[p]
        <5>1. /\ [Idle EXCEPT !.at = "asked", !.since = cursor[p]] \in Polls
              /\ [Idle EXCEPT !.at = "asked", !.since = cursor[p]].at = "asked"
              /\ [Idle EXCEPT !.at = "asked", !.since = cursor[p]].since = cursor[p]
          BY <1>4, <1>8 DEF Polls
        <5> QED BY <5>1
      <4>2. CASE PollAsks(p)
        BY <1>1, <4>1, <4>2 DEF PanelTypes, PollAsks
      <4>3. CASE PollFails(p)
        BY <1>1, <4>3 DEF PanelTypes, PollFails, Idle
      <4> QED BY <2>1, <4>2, <4>3
    <3>2. UNCHANGED <<console, cursor, fallen, buffered>>
      BY <2>1 DEF PollAsks, PollFails
    <3> QED BY <1>10, <3>1, <3>2, OthersKeepPanel
  <2>2. CASE ServeEvLog(p) \/ PollApplies(p)
    <3>1. CASE buffered[p]
      BY <2>2, <3>1, ServeKeepsPanel, AppliesKeepsPanel
    <3>2. CASE ~buffered[p]
      BY <1>2, <3>2 DEF PanelOK
    <3> QED BY <3>1, <3>2
  <2> QED BY <2>1, <2>2
<1>12. \A o \in Panels : PanelOK(o)'
  <2>1. ASSUME NEW o \in Panels \ {p} PROVE PanelOK(o)'
    <3>1. /\ UNCHANGED buffered
          /\ console'[o] = console[o] /\ cursor'[o] = cursor[o] /\ fallen'[o] = fallen[o]
          /\ poll'[o] = poll[o]
      BY <1>2, <1>7
    <3> QED BY <1>10, <3>1, OthersKeepPanel
  <2> QED BY <1>11, <2>1
<1> QED BY <1>3, <1>9, <1>12, TypesMeetNext DEF PolledInv

LEMMA PolledInductive == PolledInv /\ [Next]_vars => PolledInv'
<1> SUFFICES ASSUME PolledInv, [Next]_vars PROVE PolledInv'
  OBVIOUS
<1>1. CASE WorldChanges \/ UNCHANGED vars
  <2>1. UNCHANGED <<eventVars, pc, frame, notifyVars, streamVars, buffered, panelVars>>
    BY <1>1 DEF WorldChanges, vars, eventVars, notifyVars, streamVars, panelVars
  <2>2. world' \in Versions
    BY <1>1, BoundAssumption DEF WorldChanges, vars, PolledInv, TypeOK, Versions
  <2>3. ProducerTypes' /\ StreamsTyped' /\ PanelTypes' /\ RingOK' /\ FramesOK'
    BY <2>1, <2>2, TypeParts DEF PolledInv, ProducerTypes, StreamsTyped, PanelTypes, RingOK,
       FramesOK, eventVars, notifyVars, streamVars, panelVars
  <2>4. \A p \in Panels : PanelOK(p)'
    BY <2>1 DEF PolledInv, PanelOK, ConsoleOK, AnswerOK, eventVars, panelVars
  <2> QED BY <2>3, <2>4, TypesMeetNext DEF PolledInv
<1> QED BY <1>1, GoroutineKeepsPolled, StreamKeepsPolled, PollKeepsPolled DEF Next

\* The state keeps its types: the ring never exceeds its capacity and no client's channel
\* its own, for any of them.
THEOREM HubTypesHold == Spec => []TypeOK
<1>1. PolledInv => TypeOK
  BY DEF PolledInv
<1> QED BY <1>1, PolledInitially, PolledInductive, PTL DEF Spec

\* A panel behind a buffering proxy shows every event once and in order, however late it
\* polls and whatever fails on the way, but for those that had fallen off the ring.
THEOREM PolledConsoleHolds == Spec => []PolledConsole
<1>1. PolledInv => PolledConsole
  <2> SUFFICES ASSUME PolledInv, NEW p \in Panels, buffered[p]
               PROVE  /\ \A i, j \in DOMAIN console[p] :
                           i < j => console[p][i] < console[p][j]
                      /\ 1..cursor[p] \subseteq
                           {console[p][i] : i \in DOMAIN console[p]} \cup fallen[p]
    BY DEF PolledConsole
  <2>1. ConsoleOK(p) /\ console[p] \in Seq(Seqs)
    BY DEF PolledInv, PanelOK, TypeOK
  <2>2. DOMAIN console[p] = 1..Len(console[p])
    BY <2>1, LenProperties
  <2> QED BY <2>1, <2>2 DEF ConsoleOK, InOrder, Lines
<1> QED BY <1>1, PolledInitially, PolledInductive, PTL DEF Spec
=============================================================================
