--------------------------- MODULE ScannerProofs ---------------------------
(***************************************************************************)
(* Proofs about Scanner, for any number of interfaces, scans and edits:    *)
(* the types, that neither the latest snapshot nor the cache file goes     *)
(* back to an older discovery, and that a scan leaves what it has not      *)
(* swept in place.                                                         *)
(***************************************************************************)
EXTENDS Scanner, TLAPS

Labels == [Ifaces -> 0..MaxEdits]
ScanRecords ==
    [at : {"idle", "seed", "annos", "publish", "finish", "persist", "sweep", "release",
           "close"},
     only : SUBSET Ifaces, swept : SUBSET Ifaces, res : Devices, annos : Labels]
EditRecords ==
    [at : {"idle", "write", "again", "annos", "stamp"}, first : BOOLEAN,
     dev : Ifaces \cup {0}, annos : Labels]

-----------------------------------------------------------------------------
(* The inductive invariant                                                 *)

\* From the flag to its return; from the seeding to the last write.
Holds(s) == scan[s].at \notin {"idle", "close"}
Works(s) == scan[s].at \in {"annos", "publish", "finish", "persist", "sweep"}

\* Only one scan holds the flag.
OneScan ==
    /\ \A s \in Scans : Holds(s) => scanning
    /\ \A s, t \in Scans : Holds(s) /\ Holds(t) => s = t

\* Devices e know no less than devices d: each is no older, or nothing.
Follows(d, e) == \A i \in Ifaces : e[i].ver >= d[i].ver \/ e[i].ver = 0

\* Nobody knows more than there is.
Known(d) == \A i \in Ifaces : d[i].ver <= net

OrderInv ==
    /\ Known(latest.devs) /\ Known(cache.devs) /\ Follows(cache.devs, latest.devs)
    /\ \A s \in Scans : Works(s) =>
         /\ Known(scan[s].res)
         /\ Follows(latest.devs, scan[s].res) /\ Follows(cache.devs, scan[s].res)
    /\ \A s \in Scans : scan[s].at = "persist" => Follows(scan[s].res, latest.devs)

ScanInv == TypeOK /\ OneScan /\ OrderInv

-----------------------------------------------------------------------------
(* Lemmas about the operators                                              *)

LEMMA TypesInRecords ==
    TypeOK <=> /\ net \in 1..MaxNet /\ annos \in Labels
               /\ latest \in Snapshots /\ cache \in Snapshots /\ scanning \in BOOLEAN
               /\ scan \in [Scans -> ScanRecords]
               /\ \A s \in Scans : scan[s].swept \subseteq scan[s].only
               /\ edit \in [Edits -> EditRecords]
               /\ edits \in 0..MaxEdits /\ crashes \in 0..MaxCrashes
BY DEF TypeOK, Labels, ScanRecords, EditRecords

LEMMA EmptyTypes ==
    /\ NoDevices \in Devices /\ NoSnapshot \in Snapshots
    /\ IdleScan \in ScanRecords /\ IdleEdit \in EditRecords
<1> USE BoundsAssumption
<1>1. NoDevices \in Devices
  BY DEF NoDevices, NoDevice, Devices
<1>2. NoLabels \in Labels
  BY DEF NoLabels, Labels
<1>3. NoSnapshot \in Snapshots
  BY <1>1 DEF NoSnapshot, Snapshots
<1>4. IdleScan \in ScanRecords
  BY <1>1, <1>2 DEF IdleScan, ScanRecords
<1>5. IdleEdit \in EditRecords
  BY <1>2 DEF IdleEdit, EditRecords
<1> QED BY <1>1, <1>3, <1>4, <1>5

\* annotate changes labels only.
LEMMA AnnotatedDevices ==
    ASSUME NEW d \in Devices, NEW a \in Labels
    PROVE  /\ Annotated(d, a) \in Devices
           /\ \A i \in Ifaces : Annotated(d, a)[i].ver = d[i].ver
<1>1. ASSUME NEW i \in Ifaces
      PROVE  /\ Annotated(d, a)[i] \in [ver : 0..MaxNet, label : 0..MaxEdits]
             /\ Annotated(d, a)[i].ver = d[i].ver
  <2>1. /\ d[i] \in [ver : 0..MaxNet, label : 0..MaxEdits] /\ a[i] \in 0..MaxEdits
        /\ Annotated(d, a)[i] = IF d[i].ver # 0 /\ a[i] # 0 THEN [d[i] EXCEPT !.label = a[i]]
                                                           ELSE d[i]
    BY DEF Annotated, Devices, Labels
  <2> QED BY <2>1
<1>2. Annotated(d, a) = [i \in Ifaces |-> Annotated(d, a)[i]]
  BY DEF Annotated
<1>3. Annotated(d, a) \in Devices
  BY <1>1, <1>2 DEF Devices
<1> QED BY <1>1, <1>3

-----------------------------------------------------------------------------
LEMMA ScanInit == Init => ScanInv
<1> SUFFICES ASSUME Init PROVE ScanInv
  OBVIOUS
<1> USE BoundsAssumption
<1>1. TypeOK
  <2>1. annos \in Labels
    BY DEF Init, Labels
  <2>2. /\ latest \in Snapshots /\ cache \in Snapshots /\ scan \in [Scans -> ScanRecords]
        /\ edit \in [Edits -> EditRecords]
    BY EmptyTypes DEF Init
  <2>3. \A s \in Scans : scan[s].swept \subseteq scan[s].only
    BY DEF Init, IdleScan
  <2>4. scanning \in BOOLEAN
    BY DEF Init
  <2>5. net \in 1..MaxNet /\ edits \in 0..MaxEdits /\ crashes \in 0..MaxCrashes
    BY DEF Init
  <2> QED BY <2>1, <2>2, <2>3, <2>4, <2>5, TypesInRecords
<1>2. OneScan
  BY DEF Init, OneScan, Holds, IdleScan
<1>3. OrderInv
  BY DEF Init, OrderInv, Known, Follows, Works, IdleScan, NoSnapshot, NoDevices, NoDevice
<1> QED BY <1>1, <1>2, <1>3 DEF ScanInv

LEMMA TypesStep == ScanInv /\ Next => TypeOK'
<1> SUFFICES ASSUME ScanInv, Next PROVE TypeOK'
  OBVIOUS
<1> USE BoundsAssumption
<1>0. /\ net \in 1..MaxNet /\ annos \in Labels
      /\ latest \in Snapshots /\ cache \in Snapshots /\ scanning \in BOOLEAN
      /\ scan \in [Scans -> ScanRecords]
      /\ \A s \in Scans : scan[s].swept \subseteq scan[s].only
      /\ edit \in [Edits -> EditRecords]
      /\ edits \in 0..MaxEdits /\ crashes \in 0..MaxCrashes
  BY TypesInRecords DEF ScanInv
<1>a. ASSUME net' \in 1..MaxNet, annos' \in Labels, latest' \in Snapshots,
             cache' \in Snapshots, scanning' \in BOOLEAN, scan' \in [Scans -> ScanRecords],
             \A s \in Scans : scan'[s].swept \subseteq scan'[s].only,
             edit' \in [Edits -> EditRecords], edits' \in 0..MaxEdits,
             crashes' \in 0..MaxCrashes
      PROVE  TypeOK'
  BY <1>a DEF TypeOK, Labels, ScanRecords, EditRecords
\* One goroutine takes a step to state r.
<1>b. ASSUME NEW s \in Scans, NEW r \in ScanRecords, r.swept \subseteq r.only,
             scan' = [scan EXCEPT ![s] = r]
      PROVE  /\ scan' \in [Scans -> ScanRecords]
             /\ \A t \in Scans : scan'[t].swept \subseteq scan'[t].only
  BY <1>0, <1>b
<1>1. ASSUME NEW s \in Scans, Begin(s) PROVE TypeOK'
  <2>1. PICK only \in Wanted(s) :
          scan' = [scan EXCEPT ![s] = [IdleScan EXCEPT !.at = "seed", !.only = only]]
    BY <1>1 DEF Begin
  <2>2. [IdleScan EXCEPT !.at = "seed", !.only = only] \in ScanRecords
    <3>1. only \in SUBSET Ifaces
      BY DEF Wanted
    <3> QED BY <3>1, EmptyTypes DEF ScanRecords
  <2>3. [IdleScan EXCEPT !.at = "seed", !.only = only].swept = {}
    BY DEF IdleScan
  <2> HIDE DEF IdleScan
  <2>4. /\ scan' \in [Scans -> ScanRecords]
        /\ \A t \in Scans : scan'[t].swept \subseteq scan'[t].only
    BY <1>b, <2>1, <2>2, <2>3
  <2>5. UNCHANGED <<net, annos, latest, cache, edit, edits, crashes>> /\ scanning' = TRUE
    BY <1>1 DEF Begin, worldVars
  <2> QED BY <1>0, <1>a, <2>4, <2>5
<1>2. ASSUME NEW s \in Scans, Seeds(s) PROVE TypeOK'
  <2> DEFINE r == [scan[s] EXCEPT !.at = "annos", !.res = latest.devs]
  <2>1. scan' = [scan EXCEPT ![s] = r]
    BY <1>0, <1>2 DEF Seeds, Previous
  <2>2. r \in ScanRecords /\ r.swept \subseteq r.only
    BY <1>0 DEF ScanRecords, Snapshots
  <2> HIDE DEF r
  <2>3. /\ scan' \in [Scans -> ScanRecords]
        /\ \A t \in Scans : scan'[t].swept \subseteq scan'[t].only
    BY <1>b, <2>1, <2>2
  <2> QED BY <1>0, <1>2, <1>a, <2>3 DEF Seeds, worldVars
<1>3. ASSUME NEW s \in Scans, ReadsAnnos(s) PROVE TypeOK'
  <2> DEFINE r == [scan[s] EXCEPT !.at = "publish", !.annos = annos]
  <2>1. scan' = [scan EXCEPT ![s] = r]
    BY <1>0, <1>3 DEF ReadsAnnos
  <2>2. r \in ScanRecords /\ r.swept \subseteq r.only
    BY <1>0 DEF ScanRecords
  <2> HIDE DEF r
  <2>3. /\ scan' \in [Scans -> ScanRecords]
        /\ \A t \in Scans : scan'[t].swept \subseteq scan'[t].only
    BY <1>b, <2>1, <2>2
  <2> QED BY <1>0, <1>3, <1>a, <2>3 DEF ReadsAnnos, worldVars
<1>s. ASSUME NEW s \in Scans PROVE Snapshot(s) \in Snapshots
  <2>1. scan[s].res \in Devices /\ scan[s].annos \in Labels
    BY <1>0 DEF ScanRecords
  <2>2. Annotated(scan[s].res, scan[s].annos) \in Devices
    BY <2>1, AnnotatedDevices
  <2> QED BY <2>2 DEF Snapshot, Snapshots
<1>4. ASSUME NEW s \in Scans, Publishes(s) PROVE TypeOK'
  <2> DEFINE at == IF scan[s].at = "finish" THEN "persist"
                   ELSE IF scan[s].swept = scan[s].only THEN "finish" ELSE "sweep"
             r == [scan[s] EXCEPT !.at = at]
  <2>1. scan' = [scan EXCEPT ![s] = r]
    BY <1>0, <1>4 DEF Publishes
  <2>2. r \in ScanRecords /\ r.swept \subseteq r.only
    BY <1>0 DEF ScanRecords
  <2> HIDE DEF r
  <2>3. /\ scan' \in [Scans -> ScanRecords]
        /\ \A t \in Scans : scan'[t].swept \subseteq scan'[t].only
    BY <1>b, <2>1, <2>2
  <2>4. latest' \in Snapshots
    BY <1>4, <1>s DEF Publishes
  <2> QED BY <1>0, <1>4, <1>a, <2>3, <2>4 DEF Publishes, worldVars
<1>5. ASSUME NEW s \in Scans, Persists(s) PROVE TypeOK'
  <2> DEFINE r == [IdleScan EXCEPT !.at = "release"]
  <2>1. scan' = [scan EXCEPT ![s] = r]
    BY <1>5 DEF Persists
  <2>2. r \in ScanRecords
    BY EmptyTypes DEF ScanRecords
  <2>3. r.swept \subseteq r.only
    BY DEF IdleScan
  <2> HIDE DEF r
  <2>4. /\ scan' \in [Scans -> ScanRecords]
        /\ \A t \in Scans : scan'[t].swept \subseteq scan'[t].only
    BY <1>b, <2>1, <2>2, <2>3
  <2>5. cache' \in Snapshots
    BY <1>0, <1>5, <1>s DEF Persists
  <2> QED BY <1>0, <1>5, <1>a, <2>4, <2>5 DEF Persists, worldVars
<1>6. ASSUME NEW s \in Scans, Sweeps(s) PROVE TypeOK'
  <2>1. PICK i \in Ifaces, v \in Found :
          /\ NextIface(s, i)
          /\ scan' = [scan EXCEPT ![s].at = "publish", ![s].swept = @ \cup {i},
                                  ![s].res[i] = [ver |-> v, label |-> 0]]
    BY <1>6 DEF Sweeps
  <2> DEFINE r == [scan[s] EXCEPT !.at = "publish", !.swept = @ \cup {i},
                                  !.res[i] = [ver |-> v, label |-> 0]]
  <2>2. scan' = [scan EXCEPT ![s] = r]
    BY <1>0, <2>1
  <2>3. [ver |-> v, label |-> 0] \in [ver : 0..MaxNet, label : 0..MaxEdits]
    BY <1>0 DEF Found
  <2>4. [scan[s].res EXCEPT ![i] = [ver |-> v, label |-> 0]] \in Devices
    BY <1>0, <2>3 DEF ScanRecords, Devices
  <2>5. r = [scan[s] EXCEPT !.at = "publish", !.swept = scan[s].swept \cup {i},
                            !.res = [scan[s].res EXCEPT ![i] = [ver |-> v, label |-> 0]]]
    BY <1>0 DEF ScanRecords
  <2>6. r \in ScanRecords
    <3>1. scan[s] \in ScanRecords /\ scan[s].swept \cup {i} \in SUBSET Ifaces
      BY <1>0 DEF ScanRecords
    <3> HIDE DEF r
    <3> QED BY <2>4, <2>5, <3>1 DEF ScanRecords
  <2>7. r.swept \subseteq r.only
    BY <1>0, <2>1 DEF NextIface, ScanRecords
  <2> HIDE DEF r
  <2>8. /\ scan' \in [Scans -> ScanRecords]
        /\ \A t \in Scans : scan'[t].swept \subseteq scan'[t].only
    BY <1>b, <2>2, <2>6, <2>7
  <2> QED BY <1>0, <1>6, <1>a, <2>8 DEF Sweeps, worldVars
<1>7. ASSUME NEW s \in Scans, Releases(s) PROVE TypeOK'
  <2> DEFINE r == [scan[s] EXCEPT !.at = "close"]
  <2>1. scan' = [scan EXCEPT ![s] = r]
    BY <1>0, <1>7 DEF Releases
  <2>2. r \in ScanRecords /\ r.swept \subseteq r.only
    BY <1>0 DEF ScanRecords
  <2> HIDE DEF r
  <2>3. /\ scan' \in [Scans -> ScanRecords]
        /\ \A t \in Scans : scan'[t].swept \subseteq scan'[t].only
    BY <1>b, <2>1, <2>2
  <2>4. scanning' \in BOOLEAN
    BY <1>7 DEF Releases
  <2> QED BY <1>0, <1>7, <1>a, <2>3, <2>4 DEF Releases, worldVars
<1>8. ASSUME NEW s \in Scans, Closes(s) PROVE TypeOK'
  <2>1. scan' = [scan EXCEPT ![s] = IdleScan] /\ IdleScan.swept = {}
    BY <1>8 DEF Closes, IdleScan
  <2>2. /\ scan' \in [Scans -> ScanRecords]
        /\ \A t \in Scans : scan'[t].swept \subseteq scan'[t].only
    BY <1>b, <2>1, EmptyTypes
  <2>3. latest' \in Snapshots
    BY <1>0, <1>8 DEF Closes, Snapshots
  <2> QED BY <1>0, <1>8, <1>a, <2>2, <2>3 DEF Closes, worldVars
<1>9. ASSUME NEW e \in Edits, EditReads(e) PROVE TypeOK'
  <2>1. edits' \in 0..MaxEdits
    BY <1>0, <1>9 DEF EditReads
  <2>2. PICK i \in Ifaces :
          edit' = [edit EXCEPT ![e] = [at |-> "write", first |-> TRUE, dev |-> i,
                                       annos |-> [annos EXCEPT ![i] = edits']]]
    BY <1>9 DEF EditReads
  <2>3. [annos EXCEPT ![i] = edits'] \in Labels
    BY <1>0, <2>1 DEF Labels
  <2>4. [at |-> "write", first |-> TRUE, dev |-> i,
         annos |-> [annos EXCEPT ![i] = edits']] \in EditRecords
    BY <2>3 DEF EditRecords
  <2>5. edit' \in [Edits -> EditRecords]
    BY <1>0, <2>2, <2>4
  <2> QED BY <1>0, <1>9, <1>a, <2>1, <2>5 DEF EditReads
<1>9a. ASSUME NEW e \in Edits, EditReadsAgain(e) PROVE TypeOK'
  <2> DEFINE i == edit[e].dev
             a == [annos EXCEPT ![i] = edit[e].annos[i]]
  <2>1. edit[e] \in EditRecords /\ annos \in Labels /\ edit[e].annos \in Labels
    BY <1>0 DEF EditRecords
  <2>2. a \in Labels
    BY <2>1 DEF Labels
  <2>3. edit' = [edit EXCEPT ![e] = [edit[e] EXCEPT !.at = "write", !.annos = a]]
    BY <1>0, <1>9a DEF EditReadsAgain
  <2> HIDE DEF a
  <2>4. [edit[e] EXCEPT !.at = "write", !.annos = a] \in EditRecords
    BY <2>1, <2>2 DEF EditRecords
  <2>5. edit' \in [Edits -> EditRecords]
    BY <1>0, <2>3, <2>4
  <2> QED BY <1>0, <1>9a, <1>a, <2>5 DEF EditReadsAgain, worldVars
<1>10. ASSUME NEW e \in Edits, EditWrites(e) PROVE TypeOK'
  <2>1. /\ [IdleEdit EXCEPT !.at = "annos"] \in EditRecords
        /\ [edit[e] EXCEPT !.at = "again", !.first = FALSE] \in EditRecords
    BY <1>0, EmptyTypes DEF EditRecords
  <2>2. \/ edit' = [edit EXCEPT ![e] = [IdleEdit EXCEPT !.at = "annos"]]
        \/ edit' = [edit EXCEPT ![e] = [edit[e] EXCEPT !.at = "again", !.first = FALSE]]
    BY <1>0, <1>10 DEF EditWrites
  <2>3. edit' \in [Edits -> EditRecords]
    BY <1>0, <2>1, <2>2
  <2>4. annos' \in Labels
    BY <1>0, <1>10 DEF EditWrites, EditRecords
  <2> QED BY <1>0, <1>10, <1>a, <2>3, <2>4 DEF EditWrites
<1>11. ASSUME NEW e \in Edits, EditFails(e) PROVE TypeOK'
  <2>1. edit' \in [Edits -> EditRecords]
    BY <1>0, <1>11, EmptyTypes DEF EditFails
  <2> QED BY <1>0, <1>11, <1>a, <2>1 DEF EditFails, worldVars
<1>12. ASSUME NEW e \in Edits, EditReadsAnnos(e) PROVE TypeOK'
  <2>1. [edit[e] EXCEPT !.at = "stamp", !.annos = annos] \in EditRecords
    BY <1>0 DEF EditRecords
  <2>2. edit' = [edit EXCEPT ![e] = [edit[e] EXCEPT !.at = "stamp", !.annos = annos]]
    BY <1>0, <1>12 DEF EditReadsAnnos
  <2>3. edit' \in [Edits -> EditRecords]
    BY <1>0, <2>1, <2>2
  <2> QED BY <1>0, <1>12, <1>a, <2>3 DEF EditReadsAnnos, worldVars
<1>13. ASSUME NEW e \in Edits, Reannotates(e) PROVE TypeOK'
  <2>1. latest.devs \in Devices /\ edit[e].annos \in Labels
    BY <1>0 DEF Snapshots, EditRecords
  <2>2. Annotated(latest.devs, edit[e].annos) \in Devices
    BY <2>1, AnnotatedDevices
  <2>3. latest' \in Snapshots
    BY <1>0, <1>13, <2>2 DEF Reannotates, Snapshots
  <2>4. edit' \in [Edits -> EditRecords]
    BY <1>0, <1>13, EmptyTypes DEF Reannotates
  <2> QED BY <1>0, <1>13, <1>a, <2>3, <2>4 DEF Reannotates, worldVars
<1>14. CASE NetChanges
  <2>1. net' \in 1..MaxNet
    BY <1>0, <1>14 DEF NetChanges
  <2> QED BY <1>0, <1>14, <1>a, <2>1 DEF NetChanges
<1>15. CASE Restart
  <2>1. crashes' \in 0..MaxCrashes /\ scanning' = FALSE
    BY <1>0, <1>15 DEF Restart
  <2>2. latest' \in Snapshots
    BY <1>0, <1>15 DEF Restart, Snapshots
  <2>3. /\ scan' \in [Scans -> ScanRecords] /\ edit' \in [Edits -> EditRecords]
        /\ \A s \in Scans : scan'[s] = IdleScan
    BY <1>15, EmptyTypes DEF Restart
  <2>4. \A s \in Scans : scan'[s].swept \subseteq scan'[s].only
    BY <2>3 DEF IdleScan
  <2> QED BY <1>0, <1>15, <1>a, <2>1, <2>2, <2>3, <2>4 DEF Restart
<1> QED
  BY <1>1, <1>2, <1>3, <1>4, <1>5, <1>6, <1>7, <1>8, <1>9, <1>9a, <1>10, <1>11, <1>12, <1>13,
     <1>14, <1>15
  DEF Next, ScanStep, EditStep

-----------------------------------------------------------------------------
(* One scan at a time                                                      *)

LEMMA OneScanStep == ScanInv /\ Next => OneScan'
<1> SUFFICES ASSUME ScanInv, Next PROVE OneScan'
  OBVIOUS
<1>0. OneScan /\ scan \in [Scans -> ScanRecords]
  BY TypesInRecords DEF ScanInv
<1>1. ASSUME NEW s \in Scans, Begin(s) PROVE OneScan'
  <2>1. ~scanning /\ scanning' = TRUE /\ \A t \in Scans \ {s} : scan'[t] = scan[t]
    BY <1>0, <1>1 DEF Begin, FlagFree
  <2>2. \A t \in Scans : ~Holds(t)
    BY <1>0, <2>1 DEF OneScan
  <2> QED BY <2>1, <2>2 DEF OneScan, Holds
<1>2. ASSUME NEW s \in Scans, Seeds(s) \/ ReadsAnnos(s) \/ Publishes(s) \/ Persists(s) \/ Sweeps(s)
      PROVE  OneScan'
  <2>1. /\ Holds(s) /\ UNCHANGED scanning
        /\ \A t \in Scans \ {s} : scan'[t] = scan[t]
    BY <1>0, <1>2 DEF Seeds, ReadsAnnos, Publishes, Persists, Sweeps, Holds
  <2> QED BY <1>0, <2>1 DEF OneScan, Holds
<1>3. ASSUME NEW s \in Scans, Releases(s) PROVE OneScan'
  <2>1. Holds(s) /\ scan'[s].at = "close" /\ \A t \in Scans \ {s} : scan'[t] = scan[t]
    BY <1>0, <1>3 DEF Releases, Holds, ScanRecords
  <2>2. \A t \in Scans : ~Holds(t)'
    BY <1>0, <2>1 DEF OneScan, Holds
  <2> QED BY <2>2 DEF OneScan
<1>4. ASSUME NEW s \in Scans, Closes(s) PROVE OneScan'
  <2>1. /\ UNCHANGED scanning /\ scan'[s].at = "idle"
        /\ \A t \in Scans \ {s} : scan'[t] = scan[t]
    BY <1>0, <1>4 DEF Closes, IdleScan
  <2> QED BY <1>0, <2>1 DEF OneScan, Holds
<1>5. ASSUME NEW e \in Edits, EditReads(e) \/ EditStep(e) PROVE OneScan'
  <2>1. UNCHANGED <<scanning, scan>>
    BY <1>5
    DEF EditReads, EditStep, EditReadsAgain, EditWrites, EditFails, EditReadsAnnos,
        Reannotates, worldVars
  <2> QED BY <1>0, <2>1 DEF OneScan, Holds
<1>6. CASE NetChanges
  BY <1>0, <1>6 DEF NetChanges, OneScan, Holds
<1>7. CASE Restart
  BY <1>7 DEF Restart, OneScan, Holds, IdleScan
<1> QED BY <1>1, <1>2, <1>3, <1>4, <1>5, <1>6, <1>7 DEF Next, ScanStep

-----------------------------------------------------------------------------
(* The order of discoveries                                                *)

SameVersions(d, e) == \A i \in Ifaces : e[i].ver = d[i].ver

\* What a step may do: keep the order, and follow what was shown and cached.
Advances ==
    /\ OrderInv'
    /\ Restart \/ Follows(latest.devs, latest'.devs)
    /\ Follows(cache.devs, cache'.devs)

\* Steps that touch neither versions nor results, and bring no scan to its last write.
LEMMA QuietStepAdvances ==
    ASSUME ScanInv, net' \in Nat, net' >= net, SameVersions(latest.devs, latest'.devs),
           UNCHANGED cache,
           \A s \in Scans :
             \/ scan'[s] = scan[s]
             \/ scan'[s].at \notin {"annos", "publish", "finish", "persist", "sweep"}
             \/ Works(s) /\ scan'[s].res = scan[s].res /\ scan'[s].at # "persist"
    PROVE  Advances
<1>0. /\ net \in Nat /\ latest.devs \in Devices /\ cache.devs \in Devices
      /\ \A s \in Scans : scan[s].res \in Devices
  BY TypesInRecords DEF ScanInv, Snapshots, ScanRecords
<1>1. \A d \in Devices, i \in Ifaces : d[i].ver \in Nat
  BY DEF Devices
<1>2. Follows(latest.devs, latest'.devs) /\ Follows(cache.devs, cache'.devs)
  BY <1>0, <1>1 DEF SameVersions, Follows
<1>3. Known(latest.devs)' /\ Known(cache.devs)' /\ Follows(cache.devs, latest.devs)'
  BY <1>0, <1>1 DEF ScanInv, OrderInv, SameVersions, Known, Follows
<1>4. ASSUME NEW s \in Scans, Works(s)'
      PROVE  /\ Known(scan[s].res)'
             /\ Follows(latest.devs, scan[s].res)' /\ Follows(cache.devs, scan[s].res)'
  <2>1. Works(s) /\ scan'[s].res = scan[s].res
    BY <1>4 DEF Works
  <2>2. /\ Known(scan[s].res) /\ Follows(latest.devs, scan[s].res)
        /\ Follows(cache.devs, scan[s].res)
    BY <2>1 DEF ScanInv, OrderInv
  <2> QED BY <1>0, <1>1, <2>1, <2>2 DEF SameVersions, Known, Follows
<1>5. ASSUME NEW s \in Scans, scan'[s].at = "persist"
      PROVE  Follows(scan[s].res, latest.devs)'
  <2>1. scan'[s] = scan[s]
    BY <1>5
  <2>2. Follows(scan[s].res, latest.devs)
    BY <1>5, <2>1 DEF ScanInv, OrderInv
  <2> QED BY <1>0, <1>1, <2>1, <2>2 DEF SameVersions, Follows
<1>6. OrderInv'
  BY <1>3, <1>4, <1>5 DEF OrderInv
<1> QED BY <1>2, <1>6 DEF Advances

LEMMA ScanAdvances ==
    ASSUME ScanInv, NEW s \in Scans, Begin(s) \/ ScanStep(s)
    PROVE  Advances
<1>0. /\ net \in Nat /\ latest.devs \in Devices /\ cache.devs \in Devices
      /\ \A t \in Scans : scan[t].res \in Devices
      /\ scan \in [Scans -> ScanRecords] /\ latest \in Snapshots
      /\ OneScan /\ OrderInv
  BY TypesInRecords DEF ScanInv, Snapshots, ScanRecords
<1>1. \A d \in Devices, i \in Ifaces : d[i].ver \in Nat
  BY DEF Devices
<1>2. UNCHANGED net /\ \A t \in Scans \ {s} : scan'[t] = scan[t]
  BY <1>0
  DEF Begin, ScanStep, Seeds, ReadsAnnos, Publishes, Persists, Sweeps, Releases, Closes,
      worldVars
<1>3. \A t \in Scans \ {s} : Holds(s) => ~Holds(t) /\ ~Works(t) /\ ~Works(t)'
  BY <1>0, <1>2 DEF OneScan, Holds, Works
<1>4. CASE Begin(s) \/ ReadsAnnos(s) \/ Releases(s) \/ Closes(s)
  <2>1. SameVersions(latest.devs, latest'.devs) /\ UNCHANGED cache
    BY <1>0, <1>4 DEF Begin, ReadsAnnos, Releases, Closes, worldVars, SameVersions, Snapshots
  <2>2. \/ scan'[s].at \notin {"annos", "publish", "finish", "persist", "sweep"}
        \/ Works(s) /\ scan'[s].res = scan[s].res /\ scan'[s].at # "persist"
    <3>1. CASE Begin(s)
      BY <1>0, <3>1 DEF Begin, IdleScan
    <3>2. CASE ReadsAnnos(s)
      BY <1>0, <3>2 DEF ReadsAnnos, Works, ScanRecords
    <3>3. CASE Releases(s)
      BY <1>0, <3>3 DEF Releases, ScanRecords
    <3>4. CASE Closes(s)
      BY <1>0, <3>4 DEF Closes, IdleScan
    <3> QED BY <1>4, <3>1, <3>2, <3>3, <3>4
  <2> QED BY <1>0, <1>2, <2>1, <2>2, QuietStepAdvances
<1>5. CASE Seeds(s)
  <2>1. /\ UNCHANGED <<latest, cache>> /\ Holds(s)
        /\ scan'[s].at = "annos" /\ scan'[s].res = latest.devs
    BY <1>0, <1>5 DEF Seeds, Previous, Holds, ScanRecords, worldVars
  <2>2. Follows(latest.devs, latest.devs) /\ Follows(cache.devs, cache.devs)
    BY <1>0, <1>1 DEF Follows
  <2>3. OrderInv'
    BY <1>0, <1>2, <1>3, <2>1, <2>2 DEF OrderInv, Works, Known, Follows
  <2> QED BY <2>1, <2>2, <2>3 DEF Advances
<1>6. CASE Publishes(s)
  <2>1. /\ Holds(s) /\ Works(s) /\ UNCHANGED cache
        /\ scan'[s].res = scan[s].res
        /\ latest'.devs = Annotated(scan[s].res, scan[s].annos)
    BY <1>0, <1>6 DEF Publishes, Holds, Works, ScanRecords, Snapshot, worldVars
  <2>2. SameVersions(scan[s].res, latest'.devs)
    <3>1. scan[s].res \in Devices /\ scan[s].annos \in Labels
      BY <1>0 DEF ScanRecords
    <3> QED BY <2>1, <3>1, AnnotatedDevices DEF SameVersions
  <2>3. /\ Known(scan[s].res) /\ Follows(latest.devs, scan[s].res)
        /\ Follows(cache.devs, scan[s].res)
    BY <1>0, <2>1 DEF OrderInv
  <2>4. Follows(latest.devs, latest'.devs) /\ Follows(cache.devs, cache'.devs)
    BY <1>0, <1>1, <2>1, <2>2, <2>3 DEF SameVersions, Follows
  <2>5. Known(latest.devs)' /\ Known(cache.devs)' /\ Follows(cache.devs, latest.devs)'
    BY <1>0, <1>1, <1>2, <2>1, <2>2, <2>3 DEF OrderInv, SameVersions, Follows, Known
  <2>6. /\ Known(scan[s].res)' /\ Follows(latest.devs, scan[s].res)'
        /\ Follows(cache.devs, scan[s].res)' /\ Follows(scan[s].res, latest.devs)'
    BY <1>0, <1>1, <1>2, <2>1, <2>2, <2>3 DEF SameVersions, Follows, Known
  <2>7. \A t \in Scans : Works(t)' \/ scan'[t].at = "persist" => t = s
    BY <1>3, <2>1 DEF Works
  <2>8. OrderInv'
    BY <2>5, <2>6, <2>7 DEF OrderInv
  <2> QED BY <2>4, <2>8 DEF Advances
<1>7. CASE Persists(s)
  <2>1. /\ Holds(s) /\ Works(s) /\ scan[s].at = "persist" /\ ~Works(s)' /\ UNCHANGED latest
        /\ scan'[s].at = "release"
        /\ \/ cache' = cache
           \/ cache'.devs = Annotated(scan[s].res, scan[s].annos)
    BY <1>0, <1>7 DEF Persists, Holds, Works, IdleScan, Snapshot, worldVars
  <2>2. cache' = cache \/ SameVersions(scan[s].res, cache'.devs)
    <3>1. scan[s].res \in Devices /\ scan[s].annos \in Labels
      BY <1>0 DEF ScanRecords
    <3> QED BY <2>1, <3>1, AnnotatedDevices DEF SameVersions
  <2>3. /\ Known(scan[s].res) /\ Follows(scan[s].res, latest.devs)
        /\ Follows(cache.devs, scan[s].res)
    BY <1>0, <2>1 DEF OrderInv
  <2>4. Follows(latest.devs, latest'.devs) /\ Follows(cache.devs, cache'.devs)
    BY <1>0, <1>1, <2>1, <2>2, <2>3 DEF SameVersions, Follows
  <2>5. Known(latest.devs)' /\ Known(cache.devs)' /\ Follows(cache.devs, latest.devs)'
    BY <1>0, <1>1, <1>2, <2>1, <2>2, <2>3 DEF OrderInv, SameVersions, Follows, Known
  <2>6. \A t \in Scans : ~Works(t)' /\ scan'[t].at # "persist"
    BY <1>3, <2>1 DEF Works
  <2>7. OrderInv'
    BY <2>5, <2>6 DEF OrderInv
  <2> QED BY <2>4, <2>7 DEF Advances
<1>8. CASE Sweeps(s)
  <2>1. PICK i \in Ifaces, v \in Found :
          scan' = [scan EXCEPT ![s].at = "publish", ![s].swept = @ \cup {i},
                               ![s].res[i] = [ver |-> v, label |-> 0]]
    BY <1>8 DEF Sweeps
  <2>2. /\ Holds(s) /\ Works(s) /\ UNCHANGED <<latest, cache>> /\ scan'[s].at = "publish"
        /\ scan'[s].res = [scan[s].res EXCEPT ![i] = [ver |-> v, label |-> 0]]
    BY <1>0, <1>8, <2>1 DEF Sweeps, Holds, Works, ScanRecords, worldVars
  <2>3. \A j \in Ifaces : scan'[s].res[j].ver = IF j = i THEN v ELSE scan[s].res[j].ver
    BY <1>0, <2>2 DEF Devices
  <2>4. /\ Known(scan[s].res) /\ Known(latest.devs) /\ Known(cache.devs)
        /\ Follows(latest.devs, scan[s].res) /\ Follows(cache.devs, scan[s].res)
    BY <1>0, <2>2 DEF OrderInv
  <2>5. /\ Known(scan[s].res)' /\ Follows(latest.devs, scan[s].res)'
        /\ Follows(cache.devs, scan[s].res)'
    BY <1>0, <1>1, <1>2, <2>2, <2>3, <2>4 DEF Follows, Known, Found
  <2>6. \A t \in Scans : (Works(t)' => t = s) /\ scan'[t].at # "persist"
    BY <1>3, <2>2 DEF Works
  <2>7. OrderInv'
    BY <1>0, <1>2, <2>2, <2>5, <2>6 DEF OrderInv, Known, Follows
  <2>8. Follows(latest.devs, latest'.devs) /\ Follows(cache.devs, cache'.devs)
    BY <1>0, <1>1, <2>2 DEF Follows
  <2> QED BY <2>7, <2>8 DEF Advances
<1> QED BY <1>4, <1>5, <1>6, <1>7, <1>8 DEF ScanStep

LEMMA StepAdvances == ScanInv /\ [Next]_vars => Advances
<1> SUFFICES ASSUME ScanInv, [Next]_vars PROVE Advances
  OBVIOUS
<1>0. /\ net \in Nat /\ latest \in Snapshots /\ cache \in Snapshots
      /\ edit \in [Edits -> EditRecords] /\ latest.devs \in Devices
  BY TypesInRecords DEF ScanInv, Snapshots
<1>1. ASSUME NEW s \in Scans, Begin(s) \/ ScanStep(s) PROVE Advances
  BY <1>1, ScanAdvances
<1>2. ASSUME net' \in Nat, net' >= net, UNCHANGED <<cache, scan>>,
             SameVersions(latest.devs, latest'.devs)
      PROVE  Advances
  BY <1>2, QuietStepAdvances
<1>3. ASSUME NEW e \in Edits, EditReads(e) \/ EditStep(e) PROVE Advances
  <2>1. CASE Reannotates(e)
    <3>1. /\ latest'.devs = Annotated(latest.devs, edit[e].annos) /\ edit[e].annos \in Labels
          /\ UNCHANGED <<net, cache, scan>>
      BY <1>0, <2>1 DEF Reannotates, Snapshots, EditRecords, worldVars
    <3>2. SameVersions(latest.devs, latest'.devs)
      BY <1>0, <3>1, AnnotatedDevices DEF SameVersions
    <3> QED BY <1>0, <1>2, <3>1, <3>2
  <2>2. CASE \/ EditReads(e) \/ EditReadsAgain(e) \/ EditWrites(e) \/ EditFails(e)
           \/ EditReadsAnnos(e)
    <3>1. UNCHANGED <<net, latest, cache, scan>>
      BY <2>2
      DEF EditReads, EditReadsAgain, EditWrites, EditFails, EditReadsAnnos, worldVars
    <3> QED BY <1>0, <1>2, <3>1 DEF SameVersions
  <2> QED BY <1>3, <2>1, <2>2 DEF EditStep
<1>4. CASE NetChanges
  BY <1>0, <1>2, <1>4 DEF NetChanges, SameVersions
<1>5. CASE Restart
  <2>1. latest'.devs = cache.devs /\ UNCHANGED <<net, cache>> /\ \A s \in Scans : scan'[s] = IdleScan
    BY <1>0, <1>5 DEF Restart, Snapshots
  <2>2. \A s \in Scans : ~Works(s)' /\ scan'[s].at # "persist"
    BY <2>1 DEF Works, IdleScan
  <2>3. Follows(cache.devs, cache'.devs)
    BY <1>0, <2>1 DEF Follows, Snapshots, Devices
  <2>4. OrderInv'
    BY <2>1, <2>2, <2>3 DEF ScanInv, OrderInv, Known, Follows
  <2> QED BY <1>5, <2>3, <2>4 DEF Advances
<1>6. CASE UNCHANGED vars
  BY <1>0, <1>2, <1>6 DEF vars, SameVersions
<1> QED BY <1>1, <1>3, <1>4, <1>5, <1>6 DEF Next

-----------------------------------------------------------------------------
(* Interfaces that a scan has not swept                                    *)

\* What a scan that works has not swept yet, it knows as it is shown.
SweptInv ==
    \A s \in Scans : Works(s) =>
        \A i \in Ifaces \ scan[s].swept : scan[s].res[i].ver = latest.devs[i].ver

\* What a step may do: keep that so, and change only what has been swept.
Placed ==
    /\ SweptInv'
    /\ Restart \/ \A i \in Ifaces :
         latest'.devs[i].ver # latest.devs[i].ver => \E s \in Scans : i \in scan[s].swept

LEMMA ScanPlaces ==
    ASSUME ScanInv, SweptInv, NEW s \in Scans, Begin(s) \/ ScanStep(s)
    PROVE  Placed
<1>0. /\ scan \in [Scans -> ScanRecords] /\ latest \in Snapshots /\ OneScan
  BY TypesInRecords DEF ScanInv
<1>1. \A t \in Scans \ {s} : scan'[t] = scan[t]
  BY <1>0
  DEF Begin, ScanStep, Seeds, ReadsAnnos, Publishes, Persists, Sweeps, Releases, Closes
<1>2. \A t \in Scans \ {s} : Holds(s) => ~Works(t)'
  BY <1>0, <1>1 DEF OneScan, Holds, Works
<1>3. CASE Begin(s) \/ Persists(s) \/ Releases(s) \/ Closes(s)
  <2>1. SameVersions(latest.devs, latest'.devs)
    BY <1>0, <1>3 DEF Begin, Persists, Releases, Closes, SameVersions, Snapshots
  <2>2. ~Works(s)'
    <3>1. CASE Begin(s)    BY <1>0, <3>1 DEF Begin, IdleScan, Works
    <3>2. CASE Persists(s) BY <1>0, <3>2 DEF Persists, IdleScan, Works
    <3>3. CASE Releases(s) BY <1>0, <3>3 DEF Releases, ScanRecords, Works
    <3>4. CASE Closes(s)   BY <1>0, <3>4 DEF Closes, IdleScan, Works
    <3> QED BY <1>3, <3>1, <3>2, <3>3, <3>4
  <2> QED BY <1>1, <2>1, <2>2 DEF Placed, SweptInv, Works, SameVersions
<1>4. CASE Seeds(s)
  <2>1. UNCHANGED latest /\ Holds(s) /\ scan'[s].res = latest.devs
    BY <1>0, <1>4 DEF Seeds, Previous, Holds, ScanRecords
  <2> QED BY <1>2, <2>1 DEF Placed, SweptInv
<1>5. CASE ReadsAnnos(s)
  <2>1. /\ UNCHANGED latest /\ Works(s)
        /\ scan'[s].res = scan[s].res /\ scan'[s].swept = scan[s].swept
    BY <1>0, <1>5 DEF ReadsAnnos, Works, ScanRecords
  <2> QED BY <1>1, <2>1 DEF Placed, SweptInv, Works
<1>6. CASE Publishes(s)
  <2>1. /\ Holds(s) /\ Works(s)
        /\ scan'[s].res = scan[s].res /\ scan'[s].swept = scan[s].swept
        /\ latest'.devs = Annotated(scan[s].res, scan[s].annos)
    BY <1>0, <1>6 DEF Publishes, Holds, Works, ScanRecords, Snapshot
  <2>2. SameVersions(scan[s].res, latest'.devs)
    <3>1. scan[s].res \in Devices /\ scan[s].annos \in Labels
      BY <1>0 DEF ScanRecords
    <3> QED BY <2>1, <3>1, AnnotatedDevices DEF SameVersions
  <2>3. SweptInv'
    BY <1>2, <2>1, <2>2 DEF SweptInv, SameVersions
  <2>4. \A i \in Ifaces : latest'.devs[i].ver # latest.devs[i].ver => i \in scan[s].swept
    BY <2>1, <2>2 DEF SweptInv, SameVersions
  <2> QED BY <2>3, <2>4 DEF Placed
<1>7. CASE Sweeps(s)
  <2>1. PICK i \in Ifaces, v \in Found :
          scan' = [scan EXCEPT ![s].at = "publish", ![s].swept = @ \cup {i},
                               ![s].res[i] = [ver |-> v, label |-> 0]]
    BY <1>7 DEF Sweeps
  <2>2. /\ Holds(s) /\ Works(s) /\ UNCHANGED latest
        /\ scan'[s].swept = scan[s].swept \cup {i}
        /\ scan'[s].res = [scan[s].res EXCEPT ![i] = [ver |-> v, label |-> 0]]
    BY <1>0, <1>7, <2>1 DEF Sweeps, Holds, Works, ScanRecords
  <2>3. \A j \in Ifaces \ {i} : scan'[s].res[j] = scan[s].res[j]
    BY <1>0, <2>2 DEF ScanRecords, Devices
  <2>4. \A j \in Ifaces \ scan'[s].swept : scan'[s].res[j].ver = latest'.devs[j].ver
    BY <2>2, <2>3 DEF SweptInv
  <2>5. SweptInv'
    BY <1>2, <2>2, <2>4 DEF SweptInv
  <2> QED BY <2>2, <2>5 DEF Placed
<1> QED BY <1>3, <1>4, <1>5, <1>6, <1>7 DEF ScanStep

LEMMA StepPlaces == ScanInv /\ SweptInv /\ [Next]_vars => Placed
<1> SUFFICES ASSUME ScanInv, SweptInv, [Next]_vars PROVE Placed
  OBVIOUS
<1>0. latest \in Snapshots /\ edit \in [Edits -> EditRecords]
  BY TypesInRecords DEF ScanInv
<1>1. ASSUME NEW s \in Scans, Begin(s) \/ ScanStep(s) PROVE Placed
  BY <1>1, ScanPlaces
<1>2. ASSUME UNCHANGED scan, SameVersions(latest.devs, latest'.devs) PROVE Placed
  BY <1>2 DEF Placed, SweptInv, Works, SameVersions
<1>3. ASSUME NEW e \in Edits, EditReads(e) \/ EditStep(e) PROVE Placed
  <2>1. CASE Reannotates(e)
    <3>1. /\ latest'.devs = Annotated(latest.devs, edit[e].annos) /\ edit[e].annos \in Labels
          /\ latest.devs \in Devices /\ UNCHANGED scan
      BY <1>0, <2>1 DEF Reannotates, Snapshots, EditRecords
    <3> QED BY <1>2, <3>1, AnnotatedDevices DEF SameVersions
  <2>2. CASE \/ EditReads(e) \/ EditReadsAgain(e) \/ EditWrites(e) \/ EditFails(e)
           \/ EditReadsAnnos(e)
    <3>1. UNCHANGED <<latest, scan>>
      BY <2>2 DEF EditReads, EditReadsAgain, EditWrites, EditFails, EditReadsAnnos
    <3> QED BY <1>2, <3>1 DEF SameVersions
  <2> QED BY <1>3, <2>1, <2>2 DEF EditStep
<1>4. CASE NetChanges
  BY <1>2, <1>4 DEF NetChanges, SameVersions
<1>5. CASE Restart
  BY <1>5 DEF Restart, Placed, SweptInv, Works, IdleScan
<1>6. CASE UNCHANGED vars
  BY <1>2, <1>6 DEF vars, SameVersions
<1> QED BY <1>1, <1>3, <1>4, <1>5, <1>6 DEF Next

-----------------------------------------------------------------------------
(* Theorems                                                                *)

LEMMA ScanInvariant == Spec => []ScanInv
<1>1. ScanInv /\ [Next]_vars => ScanInv'
  <2> SUFFICES ASSUME ScanInv, [Next]_vars PROVE ScanInv'
    OBVIOUS
  <2>1. OrderInv'
    BY StepAdvances DEF Advances
  <2>2. CASE Next
    BY <2>1, <2>2, TypesStep, OneScanStep DEF ScanInv
  <2>3. CASE UNCHANGED vars
    <3>1. TypeOK' /\ OneScan'
      BY <2>3 DEF vars, ScanInv, TypeOK, OneScan, Holds
    <3> QED BY <2>1, <3>1 DEF ScanInv
  <2> QED BY <2>2, <2>3
<1> QED BY <1>1, ScanInit, PTL DEF Spec

\* The types of snapshots, scans and edits; a scan sweeps only what it was asked to.
THEOREM ScanTypesHold == Spec => []TypeOK
<1>1. ScanInv => TypeOK
  BY DEF ScanInv
<1> QED BY <1>1, ScanInvariant, PTL

\* No scan and no label edit brings back an older discovery of an interface.
THEOREM DevicesAdvance == Spec => DevicesInOrder
<1>1. ScanInv /\ [Next]_vars =>
        [Restart \/ \A i \in Ifaces : NoOlder(latest, latest', i)]_vars
  BY StepAdvances DEF Advances, Follows, NoOlder
<1> QED BY <1>1, ScanInvariant, PTL DEF Spec, DevicesInOrder

\* The cache file never goes back to an older discovery, restarts included.
THEOREM CacheAdvances == Spec => CacheInOrder
<1>1. ScanInv /\ [Next]_vars => [\A i \in Ifaces : NoOlder(cache, cache', i)]_vars
  BY StepAdvances DEF Advances, Follows, NoOlder
<1> QED BY <1>1, ScanInvariant, PTL DEF Spec, CacheInOrder

\* What is shown of an interface changes only once some scan has swept it: a scan of
\* one interface, a label edit or a slow sweep of the others leaves it in place.
THEOREM OthersStayInPlace == Spec => InPlace
<1>1. Init => SweptInv
  BY DEF Init, SweptInv, Works, IdleScan
<1>2. ScanInv /\ SweptInv /\ [Next]_vars => SweptInv'
  BY StepPlaces DEF Placed
<1>3. ScanInv /\ SweptInv /\ [Next]_vars =>
        [\A i \in Ifaces : latest'.devs[i].ver # latest.devs[i].ver =>
            Restart \/ \E s \in Scans : i \in scan[s].swept]_vars
  BY StepPlaces DEF Placed
<1> QED BY <1>1, <1>2, <1>3, ScanInvariant, PTL DEF Spec, InPlace

-----------------------------------------------------------------------------
(* The flag                                                                *)

\* The flag is never left behind: while it is set, the scan that set it is on its way to
\* return it, and then no later request or timer is turned away by it.
FlagIsHeld == scanning => \E s \in Scans : Holds(s)

LEMMA FlagStep == ScanInv /\ FlagIsHeld /\ Next => FlagIsHeld'
<1> SUFFICES ASSUME ScanInv, FlagIsHeld, Next PROVE FlagIsHeld'
  OBVIOUS
<1>0. scan \in [Scans -> ScanRecords]
  BY TypesInRecords DEF ScanInv
<1>1. ASSUME NEW s \in Scans, Begin(s) PROVE FlagIsHeld'
  <2>1. PICK only \in Wanted(s) :
          scan' = [scan EXCEPT ![s] = [IdleScan EXCEPT !.at = "seed", !.only = only]]
    BY <1>1 DEF Begin
  <2>2. scan'[s].at = "seed"
    BY <1>0, <2>1 DEF IdleScan
  <2> QED BY <2>2 DEF FlagIsHeld, Holds
<1>2. ASSUME NEW s \in Scans, ScanStep(s), scanning' PROVE FlagIsHeld'
  <2>1. ~Releases(s)
    BY <1>2 DEF Releases
  <2>2. scanning' = scanning
    BY <1>2, <2>1 DEF ScanStep, Seeds, ReadsAnnos, Publishes, Persists, Sweeps, Closes
  <2>3. PICK t \in Scans : Holds(t)
    BY <1>2, <2>2 DEF FlagIsHeld
  <2>4. CASE t # s
    <3>1. scan'[t] = scan[t]
      <4>1. CASE Sweeps(s)
        <5>1. PICK i \in Ifaces, v \in Found :
                scan' = [scan EXCEPT ![s].at = "publish", ![s].swept = @ \cup {i},
                                     ![s].res[i] = [ver |-> v, label |-> 0]]
          BY <4>1 DEF Sweeps
        <5> QED BY <1>0, <2>4, <5>1
      <4> QED BY <1>0, <1>2, <2>4, <4>1 DEF ScanStep, Seeds, ReadsAnnos, Publishes, Persists,
                                            Releases, Closes
    <3> QED BY <2>3, <3>1 DEF FlagIsHeld, Holds
  <2>5. CASE t = s
    <3>1. ~Closes(s)
      BY <2>3, <2>5 DEF Closes, Holds
    <3>2. scan'[s].at \notin {"idle", "close"}
      <4>1. CASE Seeds(s)      BY <1>0, <4>1 DEF Seeds, ScanRecords
      <4>2. CASE ReadsAnnos(s) BY <1>0, <4>2 DEF ReadsAnnos, ScanRecords
      <4>3. CASE Publishes(s)  BY <1>0, <4>3 DEF Publishes, ScanRecords
      <4>4. CASE Persists(s)   BY <1>0, <4>4 DEF Persists, IdleScan
      <4>5. CASE Sweeps(s)
        <5>1. PICK i \in Ifaces, v \in Found :
                scan' = [scan EXCEPT ![s].at = "publish", ![s].swept = @ \cup {i},
                                     ![s].res[i] = [ver |-> v, label |-> 0]]
          BY <4>5 DEF Sweeps
        <5> QED BY <1>0, <5>1 DEF ScanRecords
      <4> QED BY <1>2, <2>1, <3>1, <4>1, <4>2, <4>3, <4>4, <4>5 DEF ScanStep
    <3> QED BY <3>2 DEF FlagIsHeld, Holds
  <2> QED BY <2>4, <2>5
<1>3. ASSUME NEW e \in Edits, EditReads(e) \/ EditStep(e) PROVE FlagIsHeld'
  <2>1. UNCHANGED <<scanning, scan>>
    BY <1>3 DEF EditReads, EditStep, EditReadsAgain, EditWrites, EditFails,
                EditReadsAnnos, Reannotates, worldVars
  <2> QED BY <2>1 DEF FlagIsHeld, Holds
<1>4. CASE NetChanges BY <1>4 DEF NetChanges, FlagIsHeld, Holds
<1>5. CASE Restart    BY <1>5 DEF Restart, FlagIsHeld
<1>6. CASE ~scanning' BY <1>6 DEF FlagIsHeld
<1> QED BY <1>1, <1>2, <1>3, <1>4, <1>5, <1>6 DEF Next

LEMMA FlagInductive == ScanInv /\ FlagIsHeld /\ [Next]_vars => FlagIsHeld'
<1>1. UNCHANGED vars /\ FlagIsHeld => FlagIsHeld'
  BY DEF vars, FlagIsHeld, Holds
<1> QED BY <1>1, FlagStep

\* However scans, requests and restarts overlap, no scan can be turned away for ever by a
\* flag that nobody is to return.
THEOREM FlagIsReturned == Spec => []FlagIsHeld
<1>1. Init => FlagIsHeld
  BY DEF Init, FlagIsHeld
<1> QED BY <1>1, FlagInductive, ScanInvariant, PTL DEF Spec
=============================================================================
