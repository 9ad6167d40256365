---------------------------- MODULE WatchProofs ----------------------------
(***************************************************************************)
(* Proofs about Watch, for any number of tailers, lives and restarts: the  *)
(* types, and that a tailer which is not cancelled is the registered one.  *)
(***************************************************************************)
EXTENDS Watch, SequenceTheorems, TLAPS

TailerRecords ==
    [at : {"none", "tails", "done"}, cancelled : BOOLEAN, life : 0..MaxLives]

\* What one event handler or a tailer's end may do to the tailers and the map: the part
\* of the invariants that the two share.
TailersOK ==
    /\ tail \in [Ids -> TailerRecords]
    /\ reg \in Ids \cup {0} /\ (reg # 0 => tail[reg].at # "none")
    /\ OneTailer

-----------------------------------------------------------------------------
(* startTailer and stopTailer keep it                                      *)

LEMMA StartKeepsTailers ==
    ASSUME TailersOK, life \in 1..MaxLives, StartTailer
    PROVE  TailersOK'
<1> USE IdsAssumption, BoundsAssumption DEF TailersOK
<1>1. CASE StillLive /\ UNCHANGED <<tail, reg>>
  BY <1>1 DEF OneTailer, Tails
<1>2. CASE ~StillLive /\ ~UNCHANGED <<tail, reg>>
  <2>1. PICK t \in Ids :
          /\ tail' = [tail EXCEPT ![t] = [at |-> "tails", cancelled |-> FALSE, life |-> life]]
          /\ reg' = t
    BY <1>2 DEF StartTailer
  <2>2. \A u \in Ids : ~Tails(u)
    BY <1>2 DEF OneTailer, Tails, StillLive
  <2>3. tail' \in [Ids -> TailerRecords]
    BY <2>1 DEF TailerRecords
  <2>4. OneTailer'
    BY <2>1, <2>2 DEF OneTailer, Tails
  <2> QED BY <2>1, <2>3, <2>4
<1>3. CASE ~StillLive /\ UNCHANGED <<tail, reg>>
  BY <1>3 DEF OneTailer, Tails
<1> QED BY <1>1, <1>2, <1>3 DEF StartTailer

LEMMA StopKeepsTailers ==
    ASSUME TailersOK, StopTailer
    PROVE  TailersOK'
<1> USE IdsAssumption DEF TailersOK, StopTailer
<1>1. CASE reg = 0
  BY <1>1 DEF OneTailer, Tails
<1>2. CASE reg # 0
  <2>1. tail' = [tail EXCEPT ![reg].cancelled = TRUE] /\ reg' = 0 /\ reg \in Ids
    BY <1>2
  <2>2. tail' \in [Ids -> TailerRecords]
    BY <2>1 DEF TailerRecords
  <2>3. OneTailer'
    BY <2>1 DEF OneTailer, Tails, TailerRecords
  <2> QED BY <2>1, <2>2, <2>3
<1> QED BY <1>1, <1>2

\* What the container's life adds to the stream is made of known events.
LEMMA SentKinds ==
    ASSUME TypeOK
    PROVE  /\ Sent(<<"start">>) \in Seq(Kinds)
           /\ \A e \in {<<"die">>, <<"kill", "die">>} : Sent(e) \in Seq(Kinds)
<1>1. events \in Seq(Kinds)
  BY DEF TypeOK
<1>2. <<"start">> \in Seq(Kinds) /\ <<"die">> \in Seq(Kinds) /\ <<"kill", "die">> \in Seq(Kinds)
  <2>1. {"start", "die", "kill"} \subseteq Kinds
    BY DEF Kinds
  <2>2. \A k \in Kinds, l \in Kinds : <<k>> \in Seq(Kinds) /\ <<k, l>> \in Seq(Kinds)
    OBVIOUS
  <2> QED BY <2>1, <2>2
<1>3. \A e \in Seq(Kinds) : events \o e \in Seq(Kinds)
  BY <1>1, ConcatProperties
<1> QED BY <1>1, <1>2, <1>3 DEF Sent

-----------------------------------------------------------------------------
(* The invariant                                                           *)

WatchInv == TypeOK /\ OneTailer

LEMMA WatchInit == Init => WatchInv
<1> SUFFICES ASSUME Init PROVE WatchInv
  OBVIOUS
<1>1. tail \in [Ids -> TailerRecords]
  BY BoundsAssumption DEF Init, NoTailer, TailerRecords
<1>2. events \in Seq(Kinds)
  BY EmptySeq DEF Init
<1>3. TypeOK
  <2>1. up \in BOOLEAN /\ life \in 1..MaxLives /\ restarts \in 0..MaxRestarts
    BY BoundsAssumption DEF Init
  <2>2. /\ loop \in {"list", "attach", "connect", "watch", "backoff"}
        /\ listed \in BOOLEAN /\ missed \in BOOLEAN /\ reg = 0
    BY DEF Init
  <2> QED BY <1>1, <1>2, <2>1, <2>2 DEF TypeOK, TailerRecords
<1>4. OneTailer
  BY DEF Init, OneTailer, Tails, NoTailer
<1> QED BY <1>3, <1>4 DEF WatchInv

LEMMA WatchStep == WatchInv /\ [Next]_vars => WatchInv'
<1> SUFFICES ASSUME WatchInv, [Next]_vars PROVE WatchInv'
  OBVIOUS
<1> USE IdsAssumption, BoundsAssumption
<1>0. TypeOK /\ TailersOK
  BY DEF WatchInv, TypeOK, TailersOK, TailerRecords
<1>a. ASSUME TailersOK',
             (up \in BOOLEAN /\ life \in 1..MaxLives /\ restarts \in 0..MaxRestarts)',
             (loop \in {"list", "attach", "connect", "watch", "backoff"})',
             (listed \in BOOLEAN /\ missed \in BOOLEAN)',
             (events \in Seq(Kinds))'
      PROVE  WatchInv'
  BY <1>a DEF WatchInv, TypeOK, TailersOK, TailerRecords
<1>1. CASE Lists
  BY <1>0, <1>1, <1>a DEF Lists, boxVars, TypeOK, TailersOK, OneTailer, Tails
<1>2. CASE Attaches
  <2>1. TailersOK'
    <3>1. CASE listed
      BY <1>0, <1>2, <3>1, StartKeepsTailers DEF Attaches, TypeOK
    <3>2. CASE ~listed
      BY <1>0, <1>2, <3>2 DEF Attaches, TailersOK, OneTailer, Tails
    <3> QED BY <3>1, <3>2
  <2> QED BY <1>0, <1>2, <1>a, <2>1 DEF Attaches, boxVars, TypeOK
<1>3. CASE Connects
  BY <1>0, <1>3, <1>a DEF Connects, boxVars, TypeOK, TailersOK, OneTailer, Tails
<1>4. CASE Handles
  <2>1. TailersOK'
    BY <1>0, <1>4, StartKeepsTailers, StopKeepsTailers DEF Handles, TypeOK
  <2> QED BY <1>0, <1>4, <1>a, <2>1 DEF Handles, boxVars, TypeOK
<1>5. CASE BacksOff
  BY <1>0, <1>5, <1>a DEF BacksOff, boxVars, TypeOK, TailersOK, OneTailer, Tails
<1>6. CASE StreamEnds
  BY <1>0, <1>6, <1>a DEF StreamEnds, boxVars, TypeOK, TailersOK, OneTailer, Tails
<1>7. ASSUME NEW t \in Ids, TailEnds(t) PROVE WatchInv'
  <2>1. tail' = [tail EXCEPT ![t].at = "done"] /\ reg' = reg
    BY <1>7 DEF TailEnds
  <2>2. TailersOK'
    BY <1>0, <2>1 DEF TailersOK, TailerRecords, OneTailer, Tails
  <2> QED BY <1>0, <1>7, <1>a, <2>2 DEF TailEnds, boxVars, loopVars, TypeOK
<1>8. ASSUME NEW t \in Ids, TailCleansUp(t) PROVE WatchInv'
  <2>1. /\ tail' = [tail EXCEPT ![t] = NoTailer]
        /\ reg' = IF reg = t THEN 0 ELSE reg
    BY <1>8 DEF TailCleansUp, OwnUnregistered
  <2>2. tail' \in [Ids -> TailerRecords]
    BY <1>0, <2>1 DEF TailersOK, TailerRecords, NoTailer
  <2>3. TailersOK'
    BY <1>0, <2>1, <2>2 DEF TailersOK, OneTailer, Tails, NoTailer
  <2> QED BY <1>0, <1>8, <1>a, <2>3 DEF TailCleansUp, boxVars, loopVars, TypeOK
<1>9. CASE BoxStarts
  <2>1. events' \in Seq(Kinds)
    BY <1>0, <1>9, SentKinds DEF BoxStarts
  <2> QED BY <1>0, <1>9, <1>a, <2>1 DEF BoxStarts, InGap, TypeOK, TailersOK, OneTailer, Tails
<1>10. CASE BoxEnds
  <2>1. events' \in Seq(Kinds)
    BY <1>0, <1>10, SentKinds DEF BoxEnds
  <2> QED BY <1>0, <1>10, <1>a, <2>1 DEF BoxEnds, TypeOK, TailersOK, OneTailer, Tails
<1>11. CASE DockerRestarts
  <2>1. tail' = [t \in Ids |-> [tail[t] EXCEPT !.life = 0]] /\ reg' = reg
    BY <1>11 DEF DockerRestarts
  <2>2. TailersOK'
    BY <1>0, <2>1 DEF TailersOK, TailerRecords, OneTailer, Tails
  <2>3. events' \in Seq(Kinds)
    BY <1>11, EmptySeq DEF DockerRestarts
  <2>4. life' \in 1..MaxLives /\ restarts' \in 0..MaxRestarts
    BY <1>0, <1>11 DEF DockerRestarts, TypeOK
  <2>5. loop' \in {"list", "attach", "connect", "watch", "backoff"}
    BY <1>0, <1>11 DEF DockerRestarts, TypeOK
  <2>6. up' \in BOOLEAN
    BY <1>0, <1>11, Zenon DEF DockerRestarts, TypeOK
  <2>7. listed' \in BOOLEAN /\ missed' \in BOOLEAN
    BY <1>0, <1>11 DEF DockerRestarts, TypeOK
  <2> QED BY <1>a, <2>2, <2>3, <2>4, <2>5, <2>6, <2>7
<1>12. CASE UNCHANGED vars
  BY <1>0, <1>12, <1>a DEF vars, boxVars, loopVars, TypeOK, TailersOK, OneTailer, Tails
<1> QED
  BY <1>1, <1>2, <1>3, <1>4, <1>5, <1>6, <1>7, <1>8, <1>9, <1>10, <1>11, <1>12
  DEF Next, LoopStep

\* The types of EventsLoop's state; whatever is registered exists.
THEOREM WatchTypes == Spec => []TypeOK
<1>1. WatchInv => TypeOK
  BY DEF WatchInv
<1> QED BY <1>1, WatchInit, WatchStep, PTL DEF Spec

\* However tailers end, are replaced and take themselves out of the map, one that is not
\* cancelled is the registered one: no two of them announce every line twice, and the
\* next die event reaches it.
THEOREM OnlyRegisteredTails == Spec => []OneTailer
<1>1. WatchInv => OneTailer
  BY DEF WatchInv
<1> QED BY <1>1, WatchInit, WatchStep, PTL DEF Spec
=============================================================================
