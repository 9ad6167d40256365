------------------------------ MODULE Scanner ------------------------------
(***************************************************************************)
(* The network scanner: scans on a timer and on request, label edits that  *)
(* re-annotate the latest snapshot, and the cache file that outlives a     *)
(* crash.  Each interface has one device to discover.                      *)
(***************************************************************************)
EXTENDS Integers

CONSTANTS
    NIfaces,                           \* interfaces, in the order of scan.yaml
    Loop, Rescans,                     \* goroutines that may scan
    Edits,                             \* requests that may label a device
    MaxNet, MaxEdits, MaxCrashes       \* bounds

ASSUME IfacesAssumption == NIfaces \in Nat
ASSUME BoundsAssumption ==
    MaxNet \in Nat \ {0} /\ MaxEdits \in Nat \ {0} /\ MaxCrashes \in Nat
ASSUME LoopAssumption == Loop \notin Rescans

VARIABLES
    net,       \* the age of the network: what there is to discover changes with it
    annos,     \* devices.yaml: the label of each device (0: none)
    latest,    \* Scanner.latest
    scanning,  \* Scanner.scanning
    cache,     \* .scan-cache.json
    scan,      \* per goroutine: where it is, its results and its copies
    edit,      \* per request, likewise
    edits,     \* requests so far; a label is the number of the one that wrote it last
    crashes

vars == <<net, annos, latest, scanning, cache, scan, edit, edits, crashes>>
worldVars == <<net, annos, edits, crashes>>

\* The device of an interface: how old the discovery is (0: none found), its label.
NoDevice == [ver |-> 0, label |-> 0]
Ifaces == 1..NIfaces
NoDevices == [i \in Ifaces |-> NoDevice]
NoLabels == [i \in Ifaces |-> 0]
NoSnapshot == [scanning |-> FALSE, devs |-> NoDevices]

Scans == {Loop} \cup Rescans
IdleScan == [at |-> "idle", only |-> {}, swept |-> {}, res |-> NoDevices,
             annos |-> NoLabels]
IdleEdit == [at |-> "idle", first |-> FALSE, dev |-> 0, annos |-> NoLabels]

Init ==
    /\ net = 1
    /\ annos = [i \in Ifaces |-> IF i = 1 THEN 1 ELSE 0]    \* one labelled, one not
    /\ latest = NoSnapshot /\ cache = NoSnapshot
    /\ scanning = FALSE
    /\ scan = [s \in Scans |-> IdleScan]
    /\ edit = [e \in Edits |-> IdleEdit]
    /\ edits = 1 /\ crashes = 0

\* Mutant: the stored labels are ignored.
Unannotated(devs, a) == devs

\* annotate: a device without a stored label keeps the one it has.
Annotated(devs, a) ==
    [i \in Ifaces |-> IF devs[i].ver # 0 /\ a[i] # 0 THEN [devs[i] EXCEPT !.label = a[i]]
                                                     ELSE devs[i]]

-----------------------------------------------------------------------------
(* scan                                                                    *)

\* Mutants: the flag is not looked at; a scan starts empty.
FlagIgnored == TRUE
Blank == NoDevices

FlagFree == ~scanning

\* A request names one interface, or none.
Wanted(s) == IF s = Loop THEN {Ifaces} ELSE {Ifaces} \cup {{i} : i \in Ifaces}

\* On a tick of Loop's timer, or by Rescan; while another scan works, nothing happens.
Begin(s) ==
    /\ scan[s].at = "idle" /\ FlagFree
    /\ scanning' = TRUE
    /\ \E only \in Wanted(s) :
         scan' = [scan EXCEPT ![s] = [IdleScan EXCEPT !.at = "seed", !.only = only]]
    /\ UNCHANGED <<worldVars, latest, cache, edit>>

\* The results start from the previous snapshot.
Previous == latest.devs

Seeds(s) ==
    /\ scan[s].at = "seed"
    /\ scan' = [scan EXCEPT ![s].at = "annos", ![s].res = Previous]
    /\ UNCHANGED <<worldVars, latest, scanning, cache, edit>>

ReadsAnnos(s) ==
    /\ scan[s].at = "annos"
    /\ scan' = [scan EXCEPT ![s].at = "publish", ![s].annos = annos]
    /\ UNCHANGED <<worldVars, latest, scanning, cache, edit>>

\* publish: first the seeded state, then after each interface, then once more, as
\* finished and to the cache.
Snapshot(s) == [scanning |-> scan[s].at = "publish",
                devs |-> Annotated(scan[s].res, scan[s].annos)]

Publishes(s) ==
    /\ scan[s].at \in {"publish", "finish"}
    /\ latest' = Snapshot(s)
    /\ scan' = [scan EXCEPT ![s].at =
         IF @ = "finish" THEN "persist"
         ELSE IF scan[s].swept = scan[s].only THEN "finish" ELSE "sweep"]
    /\ UNCHANGED <<worldVars, scanning, cache, edit>>

\* The file is replaced by a rename, or not at all.
Persists(s) ==
    /\ scan[s].at = "persist"
    /\ cache' \in {cache, Snapshot(s)}
    /\ scan' = [scan EXCEPT ![s] = [IdleScan EXCEPT !.at = "release"]]
    /\ UNCHANGED <<worldVars, latest, scanning, edit>>

\* Mutant: the request's interface is not looked at.
AnyIface(s, i) ==
    i \in Ifaces \ scan[s].swept /\ \A j \in Ifaces \ scan[s].swept : i <= j

NextIface(s, i) ==
    i \in scan[s].only \ scan[s].swept /\ \A j \in scan[s].only \ scan[s].swept : i <= j

\* What nmap finds: what is there, or nothing without an address or when it fails.
Found == {net, 0}

Sweeps(s) ==
    /\ scan[s].at = "sweep"
    /\ \E i \in Ifaces, v \in Found :
         /\ NextIface(s, i)
         /\ scan' = [scan EXCEPT ![s].at = "publish", ![s].swept = @ \cup {i},
                                 ![s].res[i] = [ver |-> v, label |-> 0]]
    /\ UNCHANGED <<worldVars, latest, scanning, cache, edit>>

\* The deferred end: the flag first, then broadcastScanning(false).
Releases(s) ==
    /\ scan[s].at = "release"
    /\ scanning' = FALSE
    /\ scan' = [scan EXCEPT ![s].at = "close"]
    /\ UNCHANGED <<worldVars, latest, cache, edit>>

Closes(s) ==
    /\ scan[s].at = "close"
    /\ latest' = [latest EXCEPT !.scanning = FALSE]
    /\ scan' = [scan EXCEPT ![s] = IdleScan]
    /\ UNCHANGED <<worldVars, scanning, cache, edit>>

-----------------------------------------------------------------------------
(* handleScanDevice: yq reads devices.yaml and writes it anew, for the name, *)
(* then for the tags, as far as they are given; then reannotate              *)

EditReads(e) ==
    /\ edit[e].at = "idle" /\ edits < MaxEdits
    /\ edits' = edits + 1
    /\ \E i \in Ifaces :
         edit' = [edit EXCEPT ![e] = [at |-> "write", first |-> TRUE, dev |-> i,
                                      annos |-> [annos EXCEPT ![i] = edits']]]
    /\ UNCHANGED <<net, annos, latest, scanning, cache, scan, crashes>>

\* The tags' yq reads the file as it is then.
EditReadsAgain(e) ==
    /\ edit[e].at = "again"
    /\ LET i == edit[e].dev IN
         edit' = [edit EXCEPT ![e].at = "write",
                              ![e].annos = [annos EXCEPT ![i] = edit[e].annos[i]]]
    /\ UNCHANGED <<worldVars, latest, scanning, cache, scan>>

EditWrites(e) ==
    /\ edit[e].at = "write"
    /\ annos' = edit[e].annos
    /\ \/ edit' = [edit EXCEPT ![e] = [IdleEdit EXCEPT !.at = "annos"]]
       \/ edit[e].first /\ edit' = [edit EXCEPT ![e].at = "again", ![e].first = FALSE]
    /\ UNCHANGED <<net, latest, scanning, cache, scan, edits, crashes>>

\* What an earlier yq wrote stays, and the snapshot is not annotated with it.
EditFails(e) ==
    /\ edit[e].at \in {"write", "again"}
    /\ edit' = [edit EXCEPT ![e] = IdleEdit]
    /\ UNCHANGED <<worldVars, latest, scanning, cache, scan>>

EditReadsAnnos(e) ==
    /\ edit[e].at = "annos"
    /\ edit' = [edit EXCEPT ![e].at = "stamp", ![e].annos = annos]
    /\ UNCHANGED <<worldVars, latest, scanning, cache, scan>>

Reannotates(e) ==
    /\ edit[e].at = "stamp"
    /\ latest' = [latest EXCEPT !.devs = Annotated(@, edit[e].annos)]
    /\ edit' = [edit EXCEPT ![e] = IdleEdit]
    /\ UNCHANGED <<worldVars, scanning, cache, scan>>

-----------------------------------------------------------------------------
NetChanges ==
    /\ net < MaxNet
    /\ net' = net + 1
    /\ UNCHANGED <<annos, latest, scanning, cache, scan, edit, edits, crashes>>

\* The daemon ends and is started again: loadCache.
Restart ==
    /\ crashes < MaxCrashes
    /\ crashes' = crashes + 1
    /\ latest' = [cache EXCEPT !.scanning = FALSE]
    /\ scanning' = FALSE
    /\ scan' = [s \in Scans |-> IdleScan]
    /\ edit' = [e \in Edits |-> IdleEdit]
    /\ UNCHANGED <<net, annos, cache, edits>>

ScanStep(s) ==
    \/ Seeds(s) \/ ReadsAnnos(s) \/ Publishes(s) \/ Persists(s)
    \/ Sweeps(s) \/ Releases(s) \/ Closes(s)
EditStep(e) ==
    \/ EditReadsAgain(e) \/ EditWrites(e) \/ EditFails(e)
    \/ EditReadsAnnos(e) \/ Reannotates(e)

Next ==
    \/ \E s \in Scans : Begin(s) \/ ScanStep(s)
    \/ \E e \in Edits : EditReads(e) \/ EditStep(e)
    \/ NetChanges \/ Restart

Spec == Init /\ [][Next]_vars

\* Goroutines run on, nmap and yq end, and the timer goes on ticking.
FairSpec ==
    /\ Spec
    /\ \A s \in Scans : WF_vars(ScanStep(s))
    /\ \A e \in Edits : WF_vars(EditStep(e))
    /\ WF_vars(Begin(Loop))

-----------------------------------------------------------------------------
(* Properties                                                              *)

Devices == [Ifaces -> [ver : 0..MaxNet, label : 0..MaxEdits]]
Snapshots == [scanning : BOOLEAN, devs : Devices]

TypeOK ==
    /\ net \in 1..MaxNet /\ annos \in [Ifaces -> 0..MaxEdits]
    /\ {latest, cache} \subseteq Snapshots
    /\ scanning \in BOOLEAN
    /\ scan \in [Scans -> [at : {"idle", "seed", "annos", "publish", "finish", "persist", "sweep",
                                 "release", "close"},
                           only : SUBSET Ifaces, swept : SUBSET Ifaces, res : Devices,
                           annos : [Ifaces -> 0..MaxEdits]]]
    /\ \A s \in Scans : scan[s].swept \subseteq scan[s].only
    /\ edit \in [Edits -> [at : {"idle", "write", "again", "annos", "stamp"},
                           first : BOOLEAN, dev : Ifaces \cup {0},
                           annos : [Ifaces -> 0..MaxEdits]]]
    /\ edits \in 0..MaxEdits /\ crashes \in 0..MaxCrashes

\* Is what is known of interface i in snapshot t no older than in s, or nothing?
NoOlder(s, t, i) == t.devs[i].ver >= s.devs[i].ver \/ t.devs[i].ver = 0

\* Neither scans nor label edits bring back an older discovery: only one scan works at
\* a time, and an edit stamps what is the latest snapshot by then.
DevicesInOrder == [][Restart \/ \A i \in Ifaces : NoOlder(latest, latest', i)]_vars

\* The cache file never goes back either, whatever happens between scans ("persist is
\* already single-writer via s.scanning").
CacheInOrder == [][\A i \in Ifaces : NoOlder(cache, cache', i)]_vars

\* What is shown of an interface changes only by a scan that has swept it: the others
\* keep their devices meanwhile ("updates each adapter IN PLACE").
InPlace ==
    [][\A i \in Ifaces : latest'.devs[i].ver # latest.devs[i].ver =>
         Restart \/ \E s \in Scans : i \in scan[s].swept]_vars

\* Once the edits have ended, the snapshot comes to have the stored labels for good: a
\* label that a scan has undone returns with the next one.
LabelsShow ==
    <>[](\A i \in Ifaces : latest.devs[i].ver # 0 /\ annos[i] # 0 =>
           latest.devs[i].label = annos[i])

\* An edited label, once it shows, goes on showing ("called after an edit so it shows
\* without waiting for a rescan"): refuted.
LabelStays ==
    [][\A i \in Ifaces :
         annos[i] # 0 /\ annos'[i] = annos[i] /\ latest'.devs[i].ver # 0
           /\ latest.devs[i].label = annos[i] => latest'.devs[i].label = annos[i]]_vars
=============================================================================
