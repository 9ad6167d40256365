----------------------------- MODULE ConfStore -----------------------------
(***************************************************************************)
(* The configuration file of one tunnel: readers that cache it by time and *)
(* size, edits of several fields by one yq each, and scan forwards that    *)
(* write it, bring the tunnel up and take the file away again on failure.  *)
(***************************************************************************)
EXTENDS Integers

CONSTANTS
    Fields,
    Readers,      \* goroutines in State()
    Editors,      \* /conf requests: one edit each; an edited field holds its editor
    Forwards,     \* /scan/forward requests for the same device and port
    MaxClock      \* bound: instants of writing

ASSUME ClockAssumption == MaxClock \in Nat \ {0}
ASSUME EditorsAssumption == "new" \notin Editors /\ "blank" \notin Editors

VARIABLES
    file,    \* the file: there, ino, mtime, size (0: empty), conf
    clock,   \* of the file system
    cache,   \* Docker.confCache of the tunnel
    read,    \* per reader: where it is, its stat, what it read
    edit,    \* per editor: where it is, fields to do, what its yq read
    fwd,     \* per forward: where it is, the file it opened
    kept     \* history: a forward was answered with success, and nobody has
             \* removed the file by hand since

vars == <<file, clock, cache, read, edit, fwd, kept>>

Confs == [Fields -> Editors \cup {"new", "blank"}]
Blank == [f \in Fields |-> "blank"]
New == [f \in Fields |-> "new"]

\* What tunnelFromConf makes of a file: a default tunnel when there is none.
Default == [f \in {} |-> f]
Shown(fl) == IF fl.there THEN fl.conf ELSE Default

NoStat == [mtime |-> 0, size |-> 0]
Stat(fl) == IF fl.there THEN [mtime |-> fl.mtime, size |-> fl.size] ELSE NoStat
NoFile == [there |-> FALSE, ino |-> 0, mtime |-> 0, size |-> 0, conf |-> Blank]
NoEntry == [stat |-> NoStat, tun |-> Default]

IdleRead == [at |-> "idle", stat |-> NoStat, got |-> Default, seen |-> {}]
IdleEdit == [at |-> "idle", wanted |-> {}, todo |-> {}, field |-> "none", copy |-> Blank,
             before |-> Blank, alone |-> FALSE]
IdleFwd == [at |-> "idle", ino |-> 0]

Init ==
    /\ file \in {NoFile, [there |-> TRUE, ino |-> 1, mtime |-> 1, size |-> 1, conf |-> New]}
    /\ clock = 1
    /\ cache = NoEntry
    /\ read = [r \in Readers |-> IdleRead]
    /\ edit = [e \in Editors |-> IdleEdit]
    /\ fwd = [w \in Forwards |-> IdleFwd]
    /\ kept = FALSE

\* The file becomes fl; readers under way have seen that.
Becomes(fl) ==
    /\ file' = fl
    /\ read' = [r \in Readers |->
         IF read[r].at = "idle" THEN read[r]
         ELSE [read[r] EXCEPT !.seen = @ \cup {Shown(fl)}]]

\* The edits of D are no longer alone with the file, and no longer compared with it.
Disturbed(D) == [e \in Editors |->
    IF e \in D THEN [edit[e] EXCEPT !.alone = FALSE, !.wanted = {}, !.before = Blank] ELSE edit[e]]

-----------------------------------------------------------------------------
(* tunnelFromConf                                                          *)

Stats(r) ==
    /\ read[r].at = "idle"
    /\ read' = [read EXCEPT ![r] = [at |-> "lookup", stat |-> Stat(file), got |-> Default,
                                    seen |-> {Shown(file)}]]
    /\ UNCHANGED <<file, clock, cache, edit, fwd, kept>>

\* Mutants: the size is not compared; the entry gets the time of when it is stored.
SameTime(stat) == cache.stat # NoStat /\ cache.stat.mtime = stat.mtime
LateStat(r) == Stat(file)

Hit(stat) == cache.stat # NoStat /\ cache.stat = stat
EntryStat(r) == read[r].stat

LooksUp(r) ==
    /\ read[r].at = "lookup"
    /\ read' = [read EXCEPT ![r] = IF Hit(@.stat) THEN [@ EXCEPT !.at = "return", !.got = cache.tun,
                                                                    !.stat = NoStat]
                                                  ELSE [@ EXCEPT !.at = "yq"]]
    /\ UNCHANGED <<file, clock, cache, edit, fwd, kept>>

\* Mutant: the error of stat is forgotten.
FoundByYq(r) == file.there

\* Nothing is stored for a file that yq does not find, or that stat did not.
Storable(r) == file.there /\ read[r].stat # NoStat

ReadsYq(r) ==
    /\ read[r].at = "yq"
    /\ read' = [read EXCEPT ![r].got = Shown(file),
                            ![r].at = IF Storable(r) THEN "store" ELSE "return"]
    /\ UNCHANGED <<file, clock, cache, edit, fwd, kept>>

\* yq fails on a file that may be there, or writes what is no JSON of a configuration: a
\* default tunnel is returned, as for no file, and nothing is stored.
ReadsNoConf(r) ==
    /\ read[r].at = "yq"
    /\ read' = [read EXCEPT ![r].got = Default, ![r].at = "return", ![r].seen = @ \cup {Default}]
    /\ UNCHANGED <<file, clock, cache, edit, fwd, kept>>

Stores(r) ==
    /\ read[r].at = "store"
    /\ cache' = [stat |-> EntryStat(r), tun |-> read[r].got]
    /\ read' = [read EXCEPT ![r].at = "return", ![r].stat = NoStat]
    /\ UNCHANGED <<file, clock, edit, fwd, kept>>

Returns(r) ==
    /\ read[r].at = "return"
    /\ read' = [read EXCEPT ![r] = IdleRead]
    /\ UNCHANGED <<file, clock, cache, edit, fwd, kept>>

-----------------------------------------------------------------------------
(* handleConf: applyEdits, one yq -i per field                             *)

EditBegins(e) ==
    /\ edit[e].at = "idle" /\ file.there
    /\ \E F \in SUBSET Fields \ {{}} :
         edit' = [edit EXCEPT ![e] = [IdleEdit EXCEPT
             !.at = "edit", !.wanted = F, !.todo = F, !.before = file.conf, !.alone = TRUE]]
    /\ UNCHANGED <<file, clock, cache, read, fwd, kept>>

\* Mutant: the file is read once for all fields.
ReadOnce(e) == edit[e].before

ReadByYq(e) == file.conf

YqReads(e) ==
    /\ edit[e].at = "edit" /\ file.there
    /\ \E f \in edit[e].todo :
         edit' = [edit EXCEPT ![e].at = "write", ![e].field = f, ![e].copy = ReadByYq(e)]
    /\ UNCHANGED <<file, clock, cache, read, fwd, kept>>

\* yq renames its temporary file over the file.
YqWrites(e) ==
    /\ edit[e].at = "write" /\ clock < MaxClock
    /\ clock' = clock + 1
    /\ Becomes([there |-> TRUE, ino |-> clock', mtime |-> clock', size |-> 1,
                conf |-> [edit[e].copy EXCEPT ![edit[e].field] = e]])
    /\ edit' = [Disturbed(Editors \ {e}) EXCEPT
                  ![e].at = IF edit[e].todo = {edit[e].field} THEN "done" ELSE "edit",
                  ![e].todo = @ \ {edit[e].field}, ![e].field = "none", ![e].copy = Blank]
    /\ UNCHANGED <<cache, fwd, kept>>

\* The file is gone, or cannot be written: the other fields are not tried.
YqFails(e) ==
    /\ (edit[e].at = "edit" /\ ~file.there) \/ edit[e].at = "write"
    /\ edit' = [edit EXCEPT ![e].at = "failed", ![e].field = "none", ![e].copy = Blank]
    /\ UNCHANGED <<file, clock, cache, read, fwd, kept>>

-----------------------------------------------------------------------------
(* handleScanForward                                                       *)

Missing == ~file.there

FwdStats(w) ==
    /\ fwd[w].at = "idle" /\ Missing
    /\ fwd' = [fwd EXCEPT ![w].at = "create"]
    /\ UNCHANGED <<file, clock, cache, read, edit, kept>>

\* os.WriteFile: creates or empties the file, then fills it.
FwdCreates(w) ==
    /\ fwd[w].at = "create" /\ clock < MaxClock
    /\ clock' = clock + 1
    /\ LET ino == IF file.there THEN file.ino ELSE clock' IN
         /\ Becomes([there |-> TRUE, ino |-> ino, mtime |-> clock', size |-> 0, conf |-> Blank])
         /\ fwd' = [fwd EXCEPT ![w] = [at |-> "fill", ino |-> ino]]
    /\ edit' = Disturbed(Editors)
    /\ UNCHANGED <<cache, kept>>

\* Perhaps at the same instant of the file system; a file replaced meanwhile is not
\* the one that is filled.
FwdFills(w) ==
    /\ fwd[w].at = "fill"
    /\ IF file.there /\ file.ino = fwd[w].ino
       THEN /\ clock' \in clock..(IF clock < MaxClock THEN clock + 1 ELSE clock)
            /\ Becomes([file EXCEPT !.mtime = clock', !.size = 1, !.conf = New])
       ELSE UNCHANGED <<file, read, clock>>
    /\ fwd' = [fwd EXCEPT ![w].at = "up"]
    /\ edit' = Disturbed(Editors)
    /\ UNCHANGED <<cache, kept>>

\* The disk is full: the empty file stays.
FwdWriteFails(w) ==
    /\ fwd[w].at \in {"create", "fill"}
    /\ fwd' = [fwd EXCEPT ![w] = IdleFwd]
    /\ UNCHANGED <<file, clock, cache, read, edit, kept>>

\* t-forward up: it needs the file, and finds a tunnel that is up already in order.
FwdUp(w) ==
    /\ fwd[w].at = "up"
    /\ \/ /\ file.there
          /\ kept' = TRUE
          /\ fwd' = [fwd EXCEPT ![w] = IdleFwd]
       \/ fwd' = [fwd EXCEPT ![w].at = "rollback"] /\ UNCHANGED kept
    /\ UNCHANGED <<file, clock, cache, read, edit>>

FwdRollsBack(w) ==
    /\ fwd[w].at = "rollback"
    /\ Becomes(NoFile)
    /\ fwd' = [fwd EXCEPT ![w] = IdleFwd]
    /\ edit' = Disturbed(Editors)
    /\ UNCHANGED <<clock, cache, kept>>

-----------------------------------------------------------------------------
RemovedByHand ==
    /\ file.there
    /\ Becomes(NoFile)
    /\ kept' = FALSE
    /\ edit' = Disturbed(Editors)
    /\ UNCHANGED <<clock, cache, fwd>>

\* The daemon is started again.
Restart ==
    /\ cache' = NoEntry
    /\ read' = [r \in Readers |-> IdleRead]
    /\ edit' = [e \in Editors |-> IF edit[e].at = "idle" THEN edit[e]
                                  ELSE [IdleEdit EXCEPT !.at = "failed"]]
    /\ fwd' = [w \in Forwards |-> IdleFwd]
    /\ UNCHANGED <<file, clock, kept>>

ReadStep(r) ==
    Stats(r) \/ LooksUp(r) \/ ReadsYq(r) \/ ReadsNoConf(r) \/ Stores(r) \/ Returns(r)
EditStep(e) == EditBegins(e) \/ YqReads(e) \/ YqWrites(e) \/ YqFails(e)
FwdStep(w) ==
    \/ FwdStats(w) \/ FwdCreates(w) \/ FwdFills(w) \/ FwdWriteFails(w)
    \/ FwdUp(w) \/ FwdRollsBack(w)

Next ==
    \/ \E r \in Readers : ReadStep(r)
    \/ \E e \in Editors : EditStep(e)
    \/ \E w \in Forwards : FwdStep(w)
    \/ RemovedByHand \/ Restart

Spec == Init /\ [][Next]_vars

-----------------------------------------------------------------------------
(* Properties                                                              *)

FileStats == [mtime : 0..MaxClock, size : {0, 1}]
Tunnels == Confs \cup {Default}

TypeOK ==
    /\ file \in [there : BOOLEAN, ino : 0..MaxClock, mtime : 0..MaxClock, size : {0, 1},
                 conf : Confs]
    /\ clock \in 1..MaxClock
    /\ cache \in [stat : FileStats, tun : Tunnels]
    /\ (cache # NoEntry => cache.stat.mtime # 0 /\ cache.tun \in Confs)
    /\ read \in [Readers -> [at : {"idle", "lookup", "yq", "store", "return"},
                             stat : FileStats, got : Tunnels, seen : SUBSET Tunnels]]
    /\ edit \in [Editors -> [at : {"idle", "edit", "write", "done", "failed"},
                             wanted : SUBSET Fields, todo : SUBSET Fields,
                             field : Fields \cup {"none"}, copy : Confs, before : Confs,
                             alone : BOOLEAN]]
    /\ fwd \in [Forwards -> [at : {"idle", "create", "fill", "up", "rollback"},
                             ino : 0..MaxClock]]
    /\ kept \in BOOLEAN

\* A cache entry that would be used holds what the file holds, although stat, yq and the
\* store are three steps and files are emptied and filled within one instant.
CacheNeverLies == file.there /\ Hit(Stat(file)) => cache.tun = file.conf

\* State() shows of a tunnel what its file was at some time during the call, or a default
\* tunnel when its own yq failed; what an earlier call could not read is never shown.
ReadsRegular == \A r \in Readers : read[r].at = "return" => read[r].got \in read[r].seen

\* As long as nobody else writes, exactly the fields that an edit has done are changed,
\* those before a failure included ("earlier successful edits stay").
EarlierEditsStay ==
    \A e \in Editors : edit[e].alone =>
        file.conf = [f \in Fields |-> IF f \in edit[e].wanted \ edit[e].todo THEN e
                                                                            ELSE edit[e].before[f]]

\* The failed forward takes away "the conf we just wrote": one that was answered with
\* success keeps its configuration, also when others for the same port fail after it.
\* It is false of two forwards at once, which the handler does not serialize.
ForwardKept == kept => file.there
=============================================================================
