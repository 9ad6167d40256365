-------------------------- MODULE ConfStoreProofs --------------------------
(***************************************************************************)
(* Proofs about ConfStore, for any number of readers, edits, fields and    *)
(* forwards: the types, that the cache never lies, that reads are regular, *)
(* and that an undisturbed edit changes exactly its fields.                *)
(***************************************************************************)
EXTENDS ConfStore, TLAPS

FileRecords ==
    [there : BOOLEAN, ino : 0..MaxClock, mtime : 0..MaxClock, size : {0, 1}, conf : Confs]
ReadRecords ==
    [at : {"idle", "lookup", "yq", "store", "return"}, stat : FileStats, got : Tunnels,
     seen : SUBSET Tunnels]
EditRecords ==
    [at : {"idle", "edit", "write", "done", "failed"}, wanted : SUBSET Fields,
     todo : SUBSET Fields, field : Fields \cup {"none"}, copy : Confs, before : Confs,
     alone : BOOLEAN]
FwdRecords ==
    [at : {"idle", "create", "fill", "up", "rollback"}, ino : 0..MaxClock]

-----------------------------------------------------------------------------
(* The inductive invariant                                                 *)

\* The file carries the latest instant, and inodes are instants.
FileInv ==
    /\ file.there => file.mtime = clock
    /\ file.ino <= clock
    /\ \A w \in Forwards : fwd[w].ino <= clock

\* Is forward w about to fill what is the file now?
Filling(w) == fwd[w].at = "fill" /\ file.there /\ file.ino = fwd[w].ino

\* Before w fills it, the file is empty, unless another forward has filled it.
FillInv == \A w \in Forwards : Filling(w) /\ file.size = 1 => file.conf = New

\* No stat is from the future, and a file does not become empty within one instant.
StatInv ==
    \A r \in Readers :
        /\ read[r].stat.mtime <= clock
        /\ read[r].stat.mtime = 0 => read[r].stat = NoStat
        /\ read[r].stat.mtime = clock /\ read[r].stat.size = 1 /\ file.there => file.size = 1

\* tun is right for stat st, as far as the current instant is concerned, and stays so
\* when a forward fills the file within it.
Agrees(st, tun) ==
    st.mtime = clock /\ file.there =>
        /\ st.size = file.size => tun = file.conf
        /\ st.size = 1 /\ (\E w \in Forwards : Filling(w)) => tun = New

CacheInv == cache.stat.mtime <= clock /\ Agrees(cache.stat, cache.tun)

StoreInv ==
    \A r \in Readers : read[r].at = "store" =>
        /\ read[r].stat # NoStat /\ read[r].got \in Confs
        /\ Agrees(read[r].stat, read[r].got)

\* What readers have witnessed.
SeenInv ==
    \A r \in Readers :
        /\ read[r].at # "idle" => Shown(file) \in read[r].seen
        /\ read[r].at \in {"store", "return"} => read[r].got \in read[r].seen

\* What a reader may hit, now or after another has stored its result.
LookupInv ==
    \A r \in Readers : read[r].at = "lookup" =>
        /\ Hit(read[r].stat) => cache.tun \in read[r].seen
        /\ \A q \in Readers : read[q].at = "store" /\ read[q].stat = read[r].stat
             => read[q].got \in read[r].seen

ReadInv == FileInv /\ FillInv /\ StatInv /\ CacheInv /\ StoreInv /\ SeenInv /\ LookupInv

\* As long as an edit is alone, its copy is what the file holds.
EditInv ==
    /\ EarlierEditsStay
    /\ \A e \in Editors : edit[e].alone =>
         /\ edit[e].todo \subseteq edit[e].wanted
         /\ edit[e].at = "write" => edit[e].field \in edit[e].todo /\ edit[e].copy = file.conf

ConfInv == TypeOK /\ ReadInv /\ EditInv

-----------------------------------------------------------------------------
(* Lemmas about the operators                                              *)

LEMMA ConfTypes == Blank \in Confs /\ New \in Confs
BY DEF Blank, New, Confs

LEMMA TypesInRecords ==
    TypeOK <=> /\ file \in FileRecords /\ clock \in 1..MaxClock
               /\ cache \in [stat : FileStats, tun : Tunnels]
               /\ (cache # NoEntry => cache.stat.mtime # 0 /\ cache.tun \in Confs)
               /\ read \in [Readers -> ReadRecords] /\ edit \in [Editors -> EditRecords]
               /\ fwd \in [Forwards -> FwdRecords] /\ kept \in BOOLEAN
BY DEF TypeOK, FileRecords, ReadRecords, EditRecords, FwdRecords

LEMMA StatTypes ==
    ASSUME NEW fl \in FileRecords
    PROVE  Stat(fl) \in FileStats /\ Shown(fl) \in Tunnels
BY ClockAssumption DEF FileRecords, Stat, NoStat, FileStats, Shown, Tunnels

LEMMA IdleTypes ==
    /\ NoFile \in FileRecords
    /\ IdleRead \in ReadRecords /\ IdleEdit \in EditRecords /\ IdleFwd \in FwdRecords
<1>1. NoFile \in FileRecords
  BY ClockAssumption, ConfTypes DEF NoFile, FileRecords
<1>2. IdleRead \in ReadRecords
  BY ClockAssumption DEF IdleRead, ReadRecords, NoStat, FileStats, Tunnels
<1>3. IdleEdit \in EditRecords
  BY ConfTypes DEF IdleEdit, EditRecords
<1>4. IdleFwd \in FwdRecords
  BY ClockAssumption DEF IdleFwd, FwdRecords
<1> QED BY <1>1, <1>2, <1>3, <1>4

\* A change of the file leaves readers where they are, and they see it.
LEMMA BecomesReads ==
    ASSUME read \in [Readers -> ReadRecords], NEW fl \in FileRecords, Becomes(fl)
    PROVE  /\ file' = fl
           /\ read' \in [Readers -> ReadRecords]
           /\ \A r \in Readers :
                /\ read'[r].at = read[r].at /\ read'[r].stat = read[r].stat
                /\ read'[r].got = read[r].got
                /\ read[r].seen \subseteq read'[r].seen
                /\ read[r].at # "idle" => Shown(fl) \in read'[r].seen
<1>1. Shown(fl) \in Tunnels
  BY StatTypes
<1>2. \A r \in Readers :
        read'[r] = IF read[r].at = "idle" THEN read[r]
                   ELSE [read[r] EXCEPT !.seen = @ \cup {Shown(fl)}]
  BY DEF Becomes
<1>3. ASSUME NEW r \in Readers PROVE read'[r] \in ReadRecords
  <2>1. read[r] \in ReadRecords /\ read[r].seen \cup {Shown(fl)} \in SUBSET Tunnels
    BY <1>1 DEF ReadRecords
  <2>2. [read[r] EXCEPT !.seen = @ \cup {Shown(fl)}] \in ReadRecords
    BY <2>1 DEF ReadRecords
  <2> QED BY <1>2, <2>1, <2>2
<1>4. read' \in [Readers -> ReadRecords]
  BY <1>3 DEF Becomes
<1> QED BY <1>2, <1>4 DEF Becomes, ReadRecords

\* An edit that is disturbed is no longer compared; the others are left alone.
LEMMA DisturbedTypes ==
    ASSUME edit \in [Editors -> EditRecords], NEW D \in SUBSET Editors
    PROVE  /\ Disturbed(D) \in [Editors -> EditRecords]
           /\ \A e \in D : ~Disturbed(D)[e].alone
           /\ \A e \in Editors \ D : Disturbed(D)[e] = edit[e]
<1>1. \A e \in Editors :
        Disturbed(D)[e] = IF e \in D
          THEN [edit[e] EXCEPT !.alone = FALSE, !.wanted = {}, !.before = Blank] ELSE edit[e]
  BY DEF Disturbed
<1>2. ASSUME NEW e \in Editors PROVE Disturbed(D)[e] \in EditRecords
  <2>1. edit[e] \in EditRecords /\ {} \in SUBSET Fields /\ Blank \in Confs
    BY ConfTypes
  <2>2. [edit[e] EXCEPT !.alone = FALSE, !.wanted = {}, !.before = Blank] \in EditRecords
    BY <2>1 DEF EditRecords
  <2> QED BY <1>1, <2>1, <2>2
<1>3. Disturbed(D) \in [Editors -> EditRecords]
  BY <1>2 DEF Disturbed
<1> QED BY <1>1, <1>3 DEF EditRecords

-----------------------------------------------------------------------------
(* Types                                                                   *)

LEMMA ConfInit == Init => ConfInv
<1> SUFFICES ASSUME Init PROVE ConfInv
  OBVIOUS
<1>1. file \in FileRecords
  <2>1. [there |-> TRUE, ino |-> 1, mtime |-> 1, size |-> 1, conf |-> New] \in FileRecords
    BY ConfTypes, ClockAssumption DEF FileRecords
  <2> QED BY <2>1, IdleTypes DEF Init
<1>2. cache \in [stat : FileStats, tun : Tunnels] /\ cache = NoEntry
  BY ClockAssumption DEF Init, NoEntry, NoStat, FileStats, Tunnels
<1>3. TypeOK
  <2>1. read \in [Readers -> ReadRecords] /\ edit \in [Editors -> EditRecords]
        /\ fwd \in [Forwards -> FwdRecords]
    BY IdleTypes DEF Init
  <2>2. clock \in 1..MaxClock
    BY ClockAssumption DEF Init
  <2>3. kept \in BOOLEAN
    BY DEF Init
  <2> QED BY <1>1, <1>2, <2>1, <2>2, <2>3, TypesInRecords
<1>4. FileInv /\ FillInv
  BY ClockAssumption DEF Init, FileInv, FillInv, Filling, NoFile, IdleFwd
<1>5. StatInv /\ StoreInv /\ SeenInv /\ LookupInv
  BY DEF Init, StatInv, StoreInv, SeenInv, LookupInv, IdleRead, NoStat
<1>6. CacheInv
  BY DEF Init, CacheInv, Agrees, NoEntry, NoStat
<1>7. EditInv
  BY DEF Init, EditInv, EarlierEditsStay, IdleEdit
<1> QED BY <1>3, <1>4, <1>5, <1>6, <1>7 DEF ConfInv, ReadInv

LEMMA TypesStep == ConfInv /\ Next => TypeOK'
<1> SUFFICES ASSUME ConfInv, Next PROVE TypeOK'
  OBVIOUS
<1> USE ClockAssumption
<1>0. /\ file \in FileRecords /\ clock \in 1..MaxClock
      /\ cache \in [stat : FileStats, tun : Tunnels]
      /\ (cache # NoEntry => cache.stat.mtime # 0 /\ cache.tun \in Confs)
      /\ read \in [Readers -> ReadRecords] /\ edit \in [Editors -> EditRecords]
      /\ fwd \in [Forwards -> FwdRecords] /\ kept \in BOOLEAN
  BY TypesInRecords DEF ConfInv
<1>a. ASSUME file' \in FileRecords, clock' \in 1..MaxClock,
             cache' \in [stat : FileStats, tun : Tunnels],
             cache' # NoEntry => cache'.stat.mtime # 0 /\ cache'.tun \in Confs,
             read' \in [Readers -> ReadRecords], edit' \in [Editors -> EditRecords],
             fwd' \in [Forwards -> FwdRecords], kept' \in BOOLEAN
      PROVE  TypeOK'
  BY <1>a DEF TypeOK, FileRecords, ReadRecords, EditRecords, FwdRecords
<1>1. ASSUME NEW r \in Readers, Stats(r) PROVE TypeOK'
  <2>1. read' \in [Readers -> ReadRecords]
    BY <1>0, <1>1, StatTypes DEF Stats, ReadRecords, Tunnels
  <2> QED BY <1>0, <1>1, <1>a, <2>1 DEF Stats
<1>2. ASSUME NEW r \in Readers, LooksUp(r) PROVE TypeOK'
  <2>1. NoStat \in FileStats
    BY DEF NoStat, FileStats
  <2>2. read' \in [Readers -> ReadRecords]
    BY <1>0, <1>2, <2>1 DEF LooksUp, ReadRecords
  <2> QED BY <1>0, <1>2, <1>a, <2>2 DEF LooksUp
<1>3. ASSUME NEW r \in Readers, ReadsYq(r) PROVE TypeOK'
  <2>1. Shown(file) \in Tunnels
    BY <1>0, StatTypes
  <2>2. read' \in [Readers -> ReadRecords]
    BY <1>0, <1>3, <2>1 DEF ReadsYq, ReadRecords
  <2> QED BY <1>0, <1>3, <1>a, <2>2 DEF ReadsYq
<1>3a. ASSUME NEW r \in Readers, ReadsNoConf(r) PROVE TypeOK'
  <2>1. read' \in [Readers -> ReadRecords]
    BY <1>0, <1>3a DEF ReadsNoConf, ReadRecords, Tunnels
  <2> QED BY <1>0, <1>3a, <1>a, <2>1 DEF ReadsNoConf
<1>4. ASSUME NEW r \in Readers, Stores(r) PROVE TypeOK'
  <2>1. /\ read[r] \in ReadRecords /\ read[r].stat # NoStat /\ read[r].got \in Confs
        /\ read[r].stat.mtime = 0 => read[r].stat = NoStat
    BY <1>0, <1>4 DEF ConfInv, ReadInv, StoreInv, StatInv, Stores
  <2>2. cache' = [stat |-> read[r].stat, tun |-> read[r].got]
    BY <1>4 DEF Stores, EntryStat
  <2>3. /\ cache' \in [stat : FileStats, tun : Tunnels]
        /\ cache'.stat.mtime # 0 /\ cache'.tun \in Confs
    BY <2>1, <2>2 DEF ReadRecords
  <2>4. NoStat \in FileStats
    BY DEF NoStat, FileStats
  <2>5. read' \in [Readers -> ReadRecords]
    BY <1>0, <1>4, <2>4 DEF Stores, ReadRecords
  <2> QED BY <1>0, <1>4, <1>a, <2>3, <2>5 DEF Stores
<1>5. ASSUME NEW r \in Readers, Returns(r) PROVE TypeOK'
  <2>1. read' \in [Readers -> ReadRecords]
    BY <1>0, <1>5, IdleTypes DEF Returns
  <2> QED BY <1>0, <1>5, <1>a, <2>1 DEF Returns
<1>6. ASSUME NEW e \in Editors, EditBegins(e) PROVE TypeOK'
  <2>1. PICK F \in SUBSET Fields \ {{}} :
          edit' = [edit EXCEPT ![e] = [IdleEdit EXCEPT
             !.at = "edit", !.wanted = F, !.todo = F, !.before = file.conf, !.alone = TRUE]]
    BY <1>6 DEF EditBegins
  <2>2. file.conf \in Confs
    BY <1>0 DEF FileRecords
  <2>3. [IdleEdit EXCEPT !.at = "edit", !.wanted = F, !.todo = F, !.before = file.conf,
                         !.alone = TRUE] \in EditRecords
    BY <2>2, IdleTypes DEF EditRecords
  <2>4. edit' \in [Editors -> EditRecords]
    BY <1>0, <2>1, <2>3
  <2> QED BY <1>0, <1>6, <1>a, <2>4 DEF EditBegins
<1>7. ASSUME NEW e \in Editors, YqReads(e) PROVE TypeOK'
  <2>1. PICK f \in edit[e].todo :
          edit' = [edit EXCEPT ![e].at = "write", ![e].field = f, ![e].copy = file.conf]
    BY <1>7 DEF YqReads, ReadByYq
  <2>2. file.conf \in Confs /\ f \in Fields
    BY <1>0 DEF FileRecords, EditRecords
  <2>3. [edit[e] EXCEPT !.at = "write", !.field = f, !.copy = file.conf] \in EditRecords
    BY <1>0, <2>2 DEF EditRecords
  <2>4. edit' = [edit EXCEPT ![e] =
                   [edit[e] EXCEPT !.at = "write", !.field = f, !.copy = file.conf]]
    BY <1>0, <2>1
  <2>5. edit' \in [Editors -> EditRecords]
    BY <1>0, <2>3, <2>4
  <2> QED BY <1>0, <1>7, <1>a, <2>5 DEF YqReads
<1>8. ASSUME NEW e \in Editors, YqWrites(e) PROVE TypeOK'
  <2> DEFINE new == [there |-> TRUE, ino |-> clock', mtime |-> clock', size |-> 1,
                     conf |-> [edit[e].copy EXCEPT ![edit[e].field] = e]]
  <2>1. clock' \in 1..MaxClock
    <3>1. clock < MaxClock /\ clock' = clock + 1
      BY <1>8 DEF YqWrites
    <3> QED BY <1>0, <3>1
  <2>2. [edit[e].copy EXCEPT ![edit[e].field] = e] \in Confs
    BY <1>0 DEF EditRecords, Confs
  <2>3. new \in FileRecords
    BY <2>1, <2>2 DEF FileRecords
  <2>4. file' \in FileRecords /\ read' \in [Readers -> ReadRecords]
    BY <1>0, <1>8, <2>3, BecomesReads DEF YqWrites
  <2>5. edit' \in [Editors -> EditRecords]
    <3> DEFINE D == Disturbed(Editors \ {e})
    <3>1. D \in [Editors -> EditRecords]
      BY <1>0, DisturbedTypes
    <3>2. D[e].todo \ {edit[e].field} \in SUBSET Fields
      BY <3>1 DEF EditRecords
    <3>3. edit' = [D EXCEPT ![e].at = IF edit[e].todo = {edit[e].field} THEN "done" ELSE "edit",
                            ![e].todo = @ \ {edit[e].field}, ![e].field = "none",
                            ![e].copy = Blank]
      BY <1>8 DEF YqWrites
    <3> DEFINE at == IF edit[e].todo = {edit[e].field} THEN "done" ELSE "edit"
               rec == [D[e] EXCEPT !.at = at, !.todo = @ \ {edit[e].field}, !.field = "none",
                                   !.copy = Blank]
    <3>4. D[e] \in EditRecords /\ at \in {"edit", "done"}
      BY <3>1
    <3> HIDE DEF D, at
    <3>5. rec \in EditRecords
      BY <3>2, <3>4, ConfTypes DEF EditRecords
    <3>6. edit' = [D EXCEPT ![e] = rec]
      BY <3>1, <3>3 DEF at
    <3> QED BY <3>1, <3>5, <3>6
  <2> QED BY <1>0, <1>8, <1>a, <2>1, <2>4, <2>5 DEF YqWrites
<1>9. ASSUME NEW e \in Editors, YqFails(e) PROVE TypeOK'
  <2> DEFINE rec == [edit[e] EXCEPT !.at = "failed", !.field = "none", !.copy = Blank]
  <2>1. edit' \in [Editors -> EditRecords]
    <3>1. rec \in EditRecords
      BY <1>0, ConfTypes DEF EditRecords
    <3>2. edit' = [edit EXCEPT ![e] = rec]
      BY <1>0, <1>9 DEF YqFails
    <3> QED BY <1>0, <3>1, <3>2
  <2> QED BY <1>0, <1>9, <1>a, <2>1 DEF YqFails
<1>10. ASSUME NEW w \in Forwards, FwdStats(w) PROVE TypeOK'
  <2>1. fwd' \in [Forwards -> FwdRecords]
    BY <1>0, <1>10 DEF FwdStats, FwdRecords
  <2> QED BY <1>0, <1>10, <1>a, <2>1 DEF FwdStats
<1>11. ASSUME NEW w \in Forwards, FwdCreates(w) PROVE TypeOK'
  <2> DEFINE ino == IF file.there THEN file.ino ELSE clock'
             new == [there |-> TRUE, ino |-> ino, mtime |-> clock', size |-> 0, conf |-> Blank]
  <2>1. clock' \in 1..MaxClock
    BY <1>0, <1>11 DEF FwdCreates
  <2>2. ino \in 0..MaxClock
    BY <1>0, <2>1 DEF FileRecords
  <2>3. new \in FileRecords
    BY <2>1, <2>2, ConfTypes DEF FileRecords
  <2>4. Becomes(new) /\ fwd' = [fwd EXCEPT ![w] = [at |-> "fill", ino |-> ino]]
    BY <1>11 DEF FwdCreates
  <2>5. file' \in FileRecords /\ read' \in [Readers -> ReadRecords]
    BY <1>0, <2>3, <2>4, BecomesReads
  <2>6. fwd' \in [Forwards -> FwdRecords]
    BY <1>0, <2>2, <2>4 DEF FwdRecords
  <2>7. edit' \in [Editors -> EditRecords]
    BY <1>0, <1>11, DisturbedTypes DEF FwdCreates
  <2> QED BY <1>0, <1>11, <1>a, <2>1, <2>5, <2>6, <2>7 DEF FwdCreates
<1>12. ASSUME NEW w \in Forwards, FwdFills(w) PROVE TypeOK'
  <2>1. edit' \in [Editors -> EditRecords]
    BY <1>0, <1>12, DisturbedTypes DEF FwdFills
  <2>2. fwd' \in [Forwards -> FwdRecords]
    BY <1>0, <1>12 DEF FwdFills, FwdRecords
  <2>3. file' \in FileRecords /\ read' \in [Readers -> ReadRecords] /\ clock' \in 1..MaxClock
    <3>1. CASE file.there /\ file.ino = fwd[w].ino
      <4> DEFINE new == [file EXCEPT !.mtime = clock', !.size = 1, !.conf = New]
      <4>1. clock' \in 1..MaxClock
        BY <1>0, <1>12, <3>1 DEF FwdFills
      <4>2. new \in FileRecords
        <5>1. clock' \in 0..MaxClock /\ New \in Confs
          BY <4>1, ConfTypes
        <5> QED BY <1>0, <5>1 DEF FileRecords
      <4> QED BY <1>0, <1>12, <3>1, <4>1, <4>2, BecomesReads DEF FwdFills
    <3>2. CASE ~(file.there /\ file.ino = fwd[w].ino)
      BY <1>0, <1>12, <3>2 DEF FwdFills
    <3> QED BY <3>1, <3>2
  <2> QED BY <1>0, <1>12, <1>a, <2>1, <2>2, <2>3 DEF FwdFills
<1>13. ASSUME NEW w \in Forwards, FwdWriteFails(w) PROVE TypeOK'
  <2>1. fwd' \in [Forwards -> FwdRecords]
    BY <1>0, <1>13, IdleTypes DEF FwdWriteFails
  <2> QED BY <1>0, <1>13, <1>a, <2>1 DEF FwdWriteFails
<1>14. ASSUME NEW w \in Forwards, FwdUp(w) PROVE TypeOK'
  <2>1. fwd' \in [Forwards -> FwdRecords] /\ kept' \in BOOLEAN
    <3>1. CASE kept' = TRUE /\ fwd' = [fwd EXCEPT ![w] = IdleFwd]
      BY <1>0, <3>1, IdleTypes
    <3>2. CASE fwd' = [fwd EXCEPT ![w].at = "rollback"] /\ UNCHANGED kept
      BY <1>0, <3>2 DEF FwdRecords
    <3> QED BY <1>14, <3>1, <3>2 DEF FwdUp
  <2> QED BY <1>0, <1>14, <1>a, <2>1 DEF FwdUp
<1>15. ASSUME NEW w \in Forwards, FwdRollsBack(w) PROVE TypeOK'
  <2>1. fwd' \in [Forwards -> FwdRecords]
    BY <1>0, <1>15, IdleTypes DEF FwdRollsBack
  <2>2. file' \in FileRecords /\ read' \in [Readers -> ReadRecords]
    BY <1>0, <1>15, IdleTypes, BecomesReads DEF FwdRollsBack
  <2>3. edit' \in [Editors -> EditRecords]
    BY <1>0, <1>15, DisturbedTypes DEF FwdRollsBack
  <2> QED BY <1>0, <1>15, <1>a, <2>1, <2>2, <2>3 DEF FwdRollsBack
<1>16. CASE RemovedByHand
  <2>1. file' \in FileRecords /\ read' \in [Readers -> ReadRecords]
    BY <1>0, <1>16, IdleTypes, BecomesReads DEF RemovedByHand
  <2>2. edit' \in [Editors -> EditRecords]
    BY <1>0, <1>16, DisturbedTypes DEF RemovedByHand
  <2> QED BY <1>0, <1>16, <1>a, <2>1, <2>2 DEF RemovedByHand
<1>17. CASE Restart
  <2>1. cache' \in [stat : FileStats, tun : Tunnels] /\ cache' = NoEntry
    BY <1>17 DEF Restart, NoEntry, NoStat, FileStats, Tunnels
  <2>2. read' \in [Readers -> ReadRecords] /\ fwd' \in [Forwards -> FwdRecords]
    BY <1>17, IdleTypes DEF Restart
  <2>3. [IdleEdit EXCEPT !.at = "failed"] \in EditRecords
    BY IdleTypes DEF EditRecords
  <2>4. edit' \in [Editors -> EditRecords]
    BY <1>0, <1>17, <2>3 DEF Restart
  <2> QED BY <1>0, <1>17, <1>a, <2>1, <2>2, <2>4 DEF Restart
<1> QED
  BY <1>1, <1>2, <1>3, <1>3a, <1>4, <1>5, <1>6, <1>7, <1>8, <1>9, <1>10, <1>11, <1>12, <1>13,
     <1>14, <1>15, <1>16, <1>17
  DEF Next, ReadStep, EditStep, FwdStep

-----------------------------------------------------------------------------
(* The cache and the readers                                               *)

\* The parts of ReadInv about the cache and the readers.
CachesOK == StatInv /\ CacheInv /\ StoreInv /\ SeenInv /\ LookupInv

\* They survive a change of the file that takes it away, that happens at a new instant, or
\* that fills it with the new configuration for some forward.
LEMMA FileChangeKeepsReads ==
    ASSUME ConfInv, NEW fl \in FileRecords, Becomes(fl), UNCHANGED cache, clock' \in Nat,
           \/ ~fl.there /\ clock' = clock
           \/ clock' > clock
           \/ /\ clock' = clock /\ fl.size = 1 /\ fl.conf = New
              /\ \E w \in Forwards : Filling(w)
    PROVE  CachesOK'
<1>0. /\ TypeOK /\ clock \in Nat /\ cache \in [stat : FileStats, tun : Tunnels]
      /\ read \in [Readers -> ReadRecords]
  BY TypesInRecords DEF ConfInv
<1>1. /\ file' = fl
      /\ \A r \in Readers :
           /\ read'[r].at = read[r].at /\ read'[r].stat = read[r].stat
           /\ read'[r].got = read[r].got
           /\ read[r].seen \subseteq read'[r].seen
           /\ read[r].at # "idle" => Shown(fl) \in read'[r].seen
  BY <1>0, BecomesReads
<1>2. clock' >= clock /\ (cache.stat.mtime \in Nat)
      /\ \A r \in Readers : read[r].stat.mtime \in Nat
  BY <1>0 DEF FileStats, ReadRecords
<1>3. ASSUME NEW st \in FileStats, NEW tun, st.mtime <= clock, Agrees(st, tun)
      PROVE  Agrees(st, tun)'
  <2> SUFFICES ASSUME st.mtime = clock', fl.there
               PROVE  /\ st.size = fl.size => tun = fl.conf
                      /\ st.size = 1 => tun = New
    BY <1>1 DEF Agrees
  <2>1. clock' = clock
    BY <1>0, <1>3 DEF FileStats
  <2>2. fl.size = 1 /\ fl.conf = New /\ \E w \in Forwards : Filling(w)
    BY <1>0, <2>1
  <2>3. st.size = 1 => tun = New
    BY <1>3, <2>1, <2>2 DEF Agrees, Filling
  <2> QED BY <2>2, <2>3
<1>4. StatInv'
  BY <1>0, <1>1, <1>2 DEF ConfInv, ReadInv, StatInv
<1>5. CacheInv'
  <2>1. cache.stat \in FileStats /\ cache.stat.mtime <= clock /\ Agrees(cache.stat, cache.tun)
    BY <1>0 DEF ConfInv, ReadInv, CacheInv
  <2>2. Agrees(cache.stat, cache.tun)'
    BY <1>3, <2>1 DEF Agrees
  <2> QED BY <1>0, <1>2, <2>1, <2>2 DEF CacheInv
<1>6. StoreInv'
  <2> SUFFICES ASSUME NEW r \in Readers, read'[r].at = "store"
               PROVE  /\ read'[r].stat # NoStat /\ read'[r].got \in Confs
                      /\ Agrees(read[r].stat, read[r].got)'
    BY DEF StoreInv
  <2>1. /\ read[r].stat \in FileStats /\ read[r].stat.mtime <= clock
        /\ read[r].stat # NoStat /\ read[r].got \in Confs
        /\ Agrees(read[r].stat, read[r].got)
    BY <1>0, <1>1 DEF ConfInv, ReadInv, StoreInv, StatInv, ReadRecords
  <2>2. Agrees(read[r].stat, read[r].got)'
    BY <1>1, <1>3, <2>1 DEF Agrees
  <2> QED BY <1>1, <2>1, <2>2
<1>7. SeenInv'
  BY <1>1 DEF ConfInv, ReadInv, SeenInv
<1>8. LookupInv'
  BY <1>1 DEF ConfInv, ReadInv, LookupInv, Hit
<1> QED BY <1>4, <1>5, <1>6, <1>7, <1>8 DEF CachesOK

\* They survive whatever leaves file, clock, cache and readers alone and begins no fill.
LEMMA ForwardsKeepReads ==
    ASSUME ConfInv, UNCHANGED <<file, clock, cache, read>>,
           \A w \in Forwards : fwd'[w] = fwd[w] \/ (fwd'[w].at # "fill" /\ fwd'[w].ino <= clock)
    PROVE  ReadInv'
<1>1. \A w \in Forwards : Filling(w)' => Filling(w)
  BY DEF Filling
<1>2. FileInv' /\ FillInv'
  BY <1>1 DEF ConfInv, ReadInv, FileInv, FillInv
<1>3. \A st, tun : Agrees(st, tun) =>
        (st.mtime = clock' /\ file'.there =>
          /\ st.size = file'.size => tun = file'.conf
          /\ st.size = 1 /\ (\E w \in Forwards : Filling(w)') => tun = New)
  BY <1>1 DEF Agrees
<1>4. StatInv' /\ CacheInv' /\ StoreInv'
  BY <1>3 DEF ConfInv, ReadInv, StatInv, CacheInv, StoreInv, Agrees
<1>5. SeenInv' /\ LookupInv'
  BY DEF ConfInv, ReadInv, SeenInv, LookupInv, Hit, Shown
<1> QED BY <1>2, <1>4, <1>5 DEF ReadInv

\* A reader's own steps.
LEMMA ReadersKeepReads ==
    ASSUME ConfInv, NEW r \in Readers, ReadStep(r)
    PROVE  ReadInv'
<1>0. /\ TypeOK /\ clock \in Nat \ {0} /\ file \in FileRecords
      /\ cache \in [stat : FileStats, tun : Tunnels]
      /\ read \in [Readers -> ReadRecords]
  BY TypesInRecords DEF ConfInv
<1>1. FileInv /\ FillInv /\ StatInv /\ CacheInv /\ StoreInv /\ SeenInv /\ LookupInv
  BY DEF ConfInv, ReadInv
<1>2. UNCHANGED <<file, clock, fwd>>
  BY DEF ReadStep, Stats, LooksUp, ReadsYq, ReadsNoConf, Stores, Returns
<1>3. FileInv' /\ FillInv'
  BY <1>1, <1>2 DEF FileInv, FillInv, Filling
<1>4. ASSUME Stats(r) PROVE ReadInv'
  <2>1. UNCHANGED cache
        /\ read' = [read EXCEPT ![r] = [at |-> "lookup", stat |-> Stat(file), got |-> Default,
                                        seen |-> {Shown(file)}]]
    BY <1>4 DEF Stats
  <2>2. Stat(file).mtime = IF file.there THEN clock ELSE 0
    BY <1>1 DEF Stat, NoStat, FileInv
  <2>3. StatInv'
    BY <1>0, <1>1, <1>2, <2>1, <2>2 DEF StatInv, Stat
  <2>4. CacheInv' /\ StoreInv'
    BY <1>0, <1>1, <1>2, <2>1 DEF CacheInv, StoreInv, Agrees, Filling
  <2>5. SeenInv'
    BY <1>0, <1>1, <1>2, <2>1 DEF SeenInv
  <2>6. LookupInv'
    <3>1. Hit(Stat(file)) => cache.tun = Shown(file)
      BY <1>1, <2>2 DEF Hit, Stat, CacheInv, Agrees, Shown
    <3>2. ASSUME NEW q \in Readers, read[q].at = "store", read[q].stat = Stat(file)
          PROVE  read[q].got = Shown(file)
      BY <1>1, <2>2, <3>2 DEF StoreInv, Agrees, Stat, Shown
    <3> QED BY <1>0, <1>1, <2>1, <3>1, <3>2 DEF LookupInv, Hit
  <2> QED BY <1>3, <2>3, <2>4, <2>5, <2>6 DEF ReadInv
<1>5. ASSUME LooksUp(r) PROVE ReadInv'
  <2>1. /\ UNCHANGED cache /\ read[r].at = "lookup"
        /\ read' = [read EXCEPT ![r] =
             IF Hit(read[r].stat)
             THEN [read[r] EXCEPT !.at = "return", !.got = cache.tun, !.stat = NoStat]
             ELSE [read[r] EXCEPT !.at = "yq"]]
    BY <1>0, <1>5 DEF LooksUp
  <2>2. /\ read'[r].at \in {"return", "yq"} /\ read'[r].seen = read[r].seen
        /\ read'[r].stat \in {read[r].stat, NoStat}
        /\ read'[r].at = "return" => Hit(read[r].stat) /\ read'[r].got = cache.tun
        /\ \A q \in Readers \ {r} : read'[q] = read[q]
    BY <1>0, <2>1 DEF ReadRecords
  <2>3. StatInv'
    BY <1>0, <1>1, <1>2, <2>2 DEF StatInv, NoStat
  <2>4. CacheInv' /\ StoreInv'
    BY <1>1, <1>2, <2>1, <2>2 DEF CacheInv, StoreInv, Agrees, Filling
  <2>5. SeenInv'
    BY <1>1, <1>2, <2>1, <2>2 DEF SeenInv, LookupInv
  <2>6. LookupInv'
    BY <1>1, <2>1, <2>2 DEF LookupInv, Hit
  <2> QED BY <1>3, <2>3, <2>4, <2>5, <2>6 DEF ReadInv
<1>6. ASSUME ReadsYq(r) PROVE ReadInv'
  <2>1. /\ UNCHANGED cache /\ read[r].at = "yq"
        /\ read' = [read EXCEPT ![r].got = Shown(file),
                                ![r].at = IF Storable(r) THEN "store" ELSE "return"]
    BY <1>6 DEF ReadsYq
  <2>2. /\ read'[r].at = IF Storable(r) THEN "store" ELSE "return"
        /\ read'[r].got = Shown(file) /\ read'[r].seen = read[r].seen
        /\ read'[r].stat = read[r].stat
        /\ \A q \in Readers \ {r} : read'[q] = read[q]
    BY <1>0, <2>1 DEF ReadRecords
  <2>3. StatInv'
    BY <1>1, <1>2, <2>2 DEF StatInv
  <2>4. ASSUME Storable(r) PROVE Shown(file) \in Confs /\ Agrees(read[r].stat, Shown(file))
    <3>1. file.there /\ Shown(file) = file.conf /\ file.conf \in Confs
      BY <1>0, <2>4 DEF Storable, Shown, FileRecords
    <3>2. read[r].stat.mtime = clock /\ read[r].stat.size = 1 => file.size = 1
      BY <1>1, <3>1 DEF StatInv
    <3> QED BY <1>1, <3>1, <3>2 DEF Agrees, FillInv
  <2>5. CacheInv'
    BY <1>1, <1>2, <2>1 DEF CacheInv, Agrees, Filling
  <2>6. StoreInv'
    BY <1>1, <1>2, <2>2, <2>4 DEF StoreInv, Agrees, Filling, Storable
  <2>7. SeenInv'
    BY <1>1, <1>2, <2>1, <2>2 DEF SeenInv
  <2>8. LookupInv'
    <3> SUFFICES ASSUME NEW x \in Readers, read'[x].at = "lookup"
                 PROVE  /\ cache'.stat # NoStat /\ cache'.stat = read'[x].stat
                             => cache'.tun \in read'[x].seen
                        /\ \A q \in Readers : read'[q].at = "store" /\ read'[q].stat = read'[x].stat
                             => read'[q].got \in read'[x].seen
      BY DEF LookupInv, Hit
    <3>1. x # r /\ read'[x] = read[x] /\ read[x].at = "lookup"
      BY <2>2
    <3>2. Shown(file) \in read[x].seen
      BY <1>1, <3>1 DEF SeenInv
    <3> QED BY <1>1, <2>1, <2>2, <3>1, <3>2 DEF LookupInv, Hit
  <2> QED BY <1>3, <2>3, <2>5, <2>6, <2>7, <2>8 DEF ReadInv
<1>6a. ASSUME ReadsNoConf(r) PROVE ReadInv'
  <2>1. /\ UNCHANGED cache /\ read[r].at = "yq"
        /\ read' = [read EXCEPT ![r].got = Default, ![r].at = "return",
                                ![r].seen = @ \cup {Default}]
    BY <1>6a DEF ReadsNoConf
  <2>2. /\ read'[r].at = "return" /\ read'[r].got = Default
        /\ read'[r].seen = read[r].seen \cup {Default} /\ read'[r].stat = read[r].stat
        /\ \A q \in Readers \ {r} : read'[q] = read[q]
    BY <1>0, <2>1 DEF ReadRecords
  <2>3. StatInv'
    BY <1>1, <1>2, <2>2 DEF StatInv
  <2>4. CacheInv' /\ StoreInv'
    <3>1. CacheInv'
      BY <1>1, <1>2, <2>1 DEF CacheInv, Agrees, Filling
    <3>2. \A q \in Readers : read'[q].at = "store" => q # r /\ read'[q] = read[q]
      BY <2>2
    <3>3. StoreInv'
      BY <1>1, <1>2, <3>2 DEF StoreInv, Agrees, Filling
    <3> QED BY <3>1, <3>3
  <2>5. SeenInv'
    <3>1. Shown(file') = Shown(file)
      BY <1>2
    <3>2. read[r].at # "idle" /\ read'[r].got \in read'[r].seen
      BY <2>1, <2>2
    <3>3. Shown(file) \in read'[r].seen
      BY <1>1, <2>2, <3>2 DEF SeenInv
    <3> QED BY <1>1, <2>2, <3>1, <3>2, <3>3 DEF SeenInv
  <2>6. LookupInv'
    <3> SUFFICES ASSUME NEW x \in Readers, read'[x].at = "lookup"
                 PROVE  /\ cache'.stat # NoStat /\ cache'.stat = read'[x].stat
                             => cache'.tun \in read'[x].seen
                        /\ \A q \in Readers : read'[q].at = "store" /\ read'[q].stat = read'[x].stat
                             => read'[q].got \in read'[x].seen
      BY DEF LookupInv, Hit
    <3>1. x # r /\ read'[x] = read[x] /\ read[x].at = "lookup"
      BY <2>2
    <3> QED BY <1>1, <2>1, <2>2, <3>1 DEF LookupInv, Hit
  <2> QED BY <1>3, <2>3, <2>4, <2>5, <2>6 DEF ReadInv
<1>7. ASSUME Stores(r) PROVE ReadInv'
  <2>1. /\ read[r].at = "store" /\ cache' = [stat |-> read[r].stat, tun |-> read[r].got]
        /\ read' = [read EXCEPT ![r].at = "return", ![r].stat = NoStat]
    BY <1>7 DEF Stores, EntryStat
  <2>2. /\ read'[r].at = "return" /\ read'[r].stat = NoStat
        /\ read'[r].got = read[r].got /\ read'[r].seen = read[r].seen
        /\ \A q \in Readers \ {r} : read'[q] = read[q]
    BY <1>0, <2>1 DEF ReadRecords
  <2>3. StatInv'
    BY <1>0, <1>1, <1>2, <2>2 DEF StatInv, NoStat
  <2>4. CacheInv'
    BY <1>1, <1>2, <2>1 DEF CacheInv, StatInv, StoreInv, Agrees, Filling
  <2>5. StoreInv'
    <3> SUFFICES ASSUME NEW q \in Readers, read'[q].at = "store"
                 PROVE  /\ read'[q].stat # NoStat /\ read'[q].got \in Confs
                        /\ Agrees(read[q].stat, read[q].got)'
      BY DEF StoreInv
    <3>1. q # r /\ read'[q] = read[q] /\ read[q].at = "store"
      BY <2>2
    <3>2. /\ read[q].stat # NoStat /\ read[q].got \in Confs
          /\ Agrees(read[q].stat, read[q].got)
      BY <1>1, <3>1 DEF StoreInv
    <3> QED BY <1>2, <3>1, <3>2 DEF Agrees, Filling
  <2>6. SeenInv'
    BY <1>1, <1>2, <2>1, <2>2 DEF SeenInv, Shown
  <2>7. LookupInv'
    BY <1>1, <2>1, <2>2 DEF LookupInv, Hit
  <2> QED BY <1>3, <2>3, <2>4, <2>5, <2>6, <2>7 DEF ReadInv
<1>8. ASSUME Returns(r) PROVE ReadInv'
  <2>1. UNCHANGED cache /\ read' = [read EXCEPT ![r] = IdleRead]
    BY <1>8 DEF Returns
  <2>2. StatInv'
    BY <1>0, <1>1, <1>2, <2>1 DEF StatInv, IdleRead, NoStat
  <2>3. CacheInv' /\ StoreInv' /\ SeenInv' /\ LookupInv'
    BY <1>0, <1>1, <1>2, <2>1
    DEF CacheInv, StoreInv, SeenInv, LookupInv, Agrees, Filling, Hit, IdleRead
  <2> QED BY <1>3, <2>2, <2>3 DEF ReadInv
<1> QED BY <1>4, <1>5, <1>6, <1>6a, <1>7, <1>8 DEF ReadStep

LEMMA ReadsStep == ConfInv /\ Next => ReadInv'
<1> SUFFICES ASSUME ConfInv, Next PROVE ReadInv'
  OBVIOUS
<1>0. /\ clock \in Nat \ {0} /\ file \in FileRecords /\ fwd \in [Forwards -> FwdRecords]
      /\ read \in [Readers -> ReadRecords]
  BY TypesInRecords DEF ConfInv
<1>1. FileInv /\ FillInv
  BY DEF ConfInv, ReadInv
<1>a. ASSUME FileInv', FillInv', CachesOK' PROVE ReadInv'
  BY <1>a DEF ReadInv, CachesOK
<1>2. ASSUME NEW r \in Readers, ReadStep(r) PROVE ReadInv'
  BY <1>2, ReadersKeepReads
<1>3. ASSUME UNCHANGED <<file, clock, cache, read, fwd>> PROVE ReadInv'
  <2>1. UNCHANGED <<file, clock, cache, read>>
    BY <1>3
  <2>2. \A w \in Forwards : fwd'[w] = fwd[w] \/ (fwd'[w].at # "fill" /\ fwd'[w].ino <= clock)
    BY <1>3
  <2> QED BY <2>1, <2>2, ForwardsKeepReads
<1>4. ASSUME NEW e \in Editors, EditStep(e) PROVE ReadInv'
  <2>1. CASE YqWrites(e)
    <3> DEFINE new == [there |-> TRUE, ino |-> clock', mtime |-> clock', size |-> 1,
                       conf |-> [edit[e].copy EXCEPT ![edit[e].field] = e]]
    <3>1. clock' = clock + 1 /\ Becomes(new) /\ UNCHANGED <<cache, fwd>>
      BY <2>1 DEF YqWrites
    <3>2. TypeOK'
      BY TypesStep
    <3>3. file' = new
      BY <3>1 DEF Becomes
    <3>4. new \in FileRecords
      BY <3>2, <3>3 DEF TypeOK, FileRecords
    <3>5. FileInv' /\ FillInv'
      BY <1>0, <1>1, <3>1, <3>3 DEF FileInv, FillInv, Filling, FwdRecords, FileRecords
    <3> HIDE DEF new
    <3>6. CachesOK'
      BY <1>0, <3>1, <3>4, FileChangeKeepsReads
    <3> QED BY <1>a, <3>5, <3>6
  <2>2. CASE EditBegins(e) \/ YqReads(e) \/ YqFails(e)
    BY <1>3, <2>2 DEF EditBegins, YqReads, YqFails
  <2> QED BY <1>4, <2>1, <2>2 DEF EditStep
<1>5. ASSUME NEW w \in Forwards, FwdCreates(w) PROVE ReadInv'
  <2> DEFINE ino == IF file.there THEN file.ino ELSE clock'
             new == [there |-> TRUE, ino |-> ino, mtime |-> clock', size |-> 0, conf |-> Blank]
  <2>1. /\ clock' = clock + 1 /\ Becomes(new) /\ UNCHANGED cache
        /\ fwd' = [fwd EXCEPT ![w] = [at |-> "fill", ino |-> ino]]
    BY <1>5 DEF FwdCreates
  <2>2. file' = new
    BY <2>1 DEF Becomes
  <2>3. TypeOK'
    BY TypesStep
  <2>4. new \in FileRecords
    BY <2>2, <2>3 DEF TypeOK, FileRecords
  <2>5. FileInv' /\ FillInv'
    BY <1>0, <1>1, <2>1, <2>2 DEF FileInv, FillInv, Filling, FwdRecords, FileRecords
  <2> HIDE DEF new
  <2>6. CachesOK'
    BY <1>0, <2>1, <2>4, FileChangeKeepsReads
  <2> QED BY <1>a, <2>5, <2>6
<1>6. ASSUME NEW w \in Forwards, FwdFills(w) PROVE ReadInv'
  <2>1. fwd' = [fwd EXCEPT ![w].at = "up"] /\ UNCHANGED cache /\ fwd[w].at = "fill"
    BY <1>6 DEF FwdFills
  <2>2. \A v \in Forwards : fwd'[v].ino = fwd[v].ino /\ (fwd'[v].at = "fill" => fwd[v].at = "fill")
    BY <1>0, <2>1 DEF FwdRecords
  <2>3. CASE file.there /\ file.ino = fwd[w].ino
    <3> DEFINE new == [file EXCEPT !.mtime = clock', !.size = 1, !.conf = New]
    <3>1. clock' \in {clock, clock + 1} /\ Becomes(new)
      BY <1>0, <1>6, <2>3 DEF FwdFills
    <3>2. file' = new
      BY <3>1 DEF Becomes
    <3>3. TypeOK'
      BY TypesStep
    <3>4. new \in FileRecords
      BY <3>2, <3>3 DEF TypeOK, FileRecords
    <3>5. FileInv' /\ FillInv'
      BY <1>0, <1>1, <2>2, <3>1, <3>2 DEF FileInv, FillInv, Filling, FwdRecords, FileRecords
    <3>6. new.size = 1 /\ new.conf = New
      BY <1>0 DEF FileRecords
    <3>7. \E v \in Forwards : Filling(v)
      BY <2>1, <2>3 DEF Filling
    <3> HIDE DEF new
    <3>8. CachesOK'
      BY <1>0, <2>1, <3>1, <3>4, <3>6, <3>7, FileChangeKeepsReads
    <3> QED BY <1>a, <3>5, <3>8
  <2>4. CASE ~(file.there /\ file.ino = fwd[w].ino)
    <3>1. UNCHANGED <<file, clock, cache, read>>
      BY <1>6, <2>4 DEF FwdFills
    <3>2. \A v \in Forwards :
            fwd'[v] = fwd[v] \/ (fwd'[v].at # "fill" /\ fwd'[v].ino <= clock)
      BY <1>0, <1>1, <2>1 DEF FwdRecords, FileInv
    <3> QED BY <3>1, <3>2, ForwardsKeepReads
  <2> QED BY <2>3, <2>4
<1>7. ASSUME NEW w \in Forwards, FwdStats(w) \/ FwdWriteFails(w) \/ FwdUp(w) PROVE ReadInv'
  <2>1. UNCHANGED <<file, clock, cache, read>>
    BY <1>7 DEF FwdStats, FwdWriteFails, FwdUp
  <2>2. \A v \in Forwards : fwd'[v] = fwd[v] \/ (fwd'[v].at # "fill" /\ fwd'[v].ino <= clock)
    BY <1>0, <1>1, <1>7 DEF FwdStats, FwdWriteFails, FwdUp, IdleFwd, FwdRecords, FileInv
  <2> QED BY <2>1, <2>2, ForwardsKeepReads
<1>8. ASSUME Becomes(NoFile), UNCHANGED <<clock, cache>>,
             \A v \in Forwards : fwd'[v] \in {fwd[v], IdleFwd}
      PROVE  ReadInv'
  <2>1. file' = NoFile
    BY <1>8 DEF Becomes
  <2>2. FileInv' /\ FillInv'
    BY <1>0, <1>1, <1>8, <2>1 DEF FileInv, FillInv, Filling, NoFile, IdleFwd
  <2>3. CachesOK'
    BY <1>0, <1>8, IdleTypes, FileChangeKeepsReads DEF NoFile
  <2> QED BY <1>a, <2>2, <2>3
<1>9. ASSUME NEW w \in Forwards, FwdRollsBack(w) PROVE ReadInv'
  BY <1>0, <1>8, <1>9 DEF FwdRollsBack
<1>10. CASE RemovedByHand
  BY <1>0, <1>8, <1>10 DEF RemovedByHand
<1>11. CASE Restart
  <2>1. FileInv' /\ FillInv'
    BY <1>0, <1>1, <1>11 DEF Restart, FileInv, FillInv, Filling, IdleFwd
  <2>2. CachesOK'
    BY <1>0, <1>11
    DEF Restart, CachesOK, StatInv, CacheInv, StoreInv, SeenInv, LookupInv, Agrees, NoEntry,
        NoStat, IdleRead
  <2> QED BY <1>a, <2>1, <2>2
<1> QED
  BY <1>2, <1>4, <1>5, <1>6, <1>7, <1>9, <1>10, <1>11 DEF Next, FwdStep

-----------------------------------------------------------------------------
(* Edits                                                                   *)

\* Whatever disturbs all edits keeps what is said of those that are alone.
LEMMA DisturbedKeepsEdits ==
    ASSUME edit \in [Editors -> EditRecords], edit' = Disturbed(Editors)
    PROVE  EditInv'
BY DisturbedTypes DEF EditInv, EarlierEditsStay

LEMMA EditsStep == ConfInv /\ Next => EditInv'
<1> SUFFICES ASSUME ConfInv, Next PROVE EditInv'
  OBVIOUS
<1>0. file \in FileRecords /\ edit \in [Editors -> EditRecords] /\ EditInv
  BY TypesInRecords DEF ConfInv
<1>1. ASSUME UNCHANGED <<file, edit>> PROVE EditInv'
  BY <1>0, <1>1 DEF EditInv, EarlierEditsStay
<1>2. ASSUME NEW e \in Editors, EditBegins(e) PROVE EditInv'
  <2>1. PICK F \in SUBSET Fields \ {{}} :
          edit' = [edit EXCEPT ![e] = [IdleEdit EXCEPT
             !.at = "edit", !.wanted = F, !.todo = F, !.before = file.conf, !.alone = TRUE]]
    BY <1>2 DEF EditBegins
  <2>2. UNCHANGED file
    BY <1>2 DEF EditBegins
  <2>3. /\ edit'[e].at = "edit" /\ edit'[e].wanted = F /\ edit'[e].todo = F
        /\ edit'[e].before = file.conf
        /\ \A d \in Editors \ {e} : edit'[d] = edit[d]
    BY <1>0, <2>1 DEF IdleEdit
  <2>4. file.conf = [f \in Fields |-> file.conf[f]]
    BY <1>0 DEF FileRecords, Confs
  <2>5. EarlierEditsStay'
    BY <1>0, <2>2, <2>3, <2>4 DEF EditInv, EarlierEditsStay
  <2> QED BY <1>0, <2>2, <2>3, <2>5 DEF EditInv
<1>3. ASSUME NEW e \in Editors, YqReads(e) PROVE EditInv'
  <2>1. PICK f \in edit[e].todo :
          edit' = [edit EXCEPT ![e].at = "write", ![e].field = f, ![e].copy = file.conf]
    BY <1>3 DEF YqReads, ReadByYq
  <2>2. UNCHANGED file
    BY <1>3 DEF YqReads
  <2>3. /\ edit'[e].at = "write" /\ edit'[e].field = f /\ edit'[e].copy = file.conf
        /\ edit'[e].todo = edit[e].todo /\ edit'[e].wanted = edit[e].wanted
        /\ edit'[e].before = edit[e].before /\ edit'[e].alone = edit[e].alone
        /\ \A d \in Editors \ {e} : edit'[d] = edit[d]
    BY <1>0, <2>1 DEF EditRecords
  <2>4. EarlierEditsStay'
    BY <1>0, <2>2, <2>3 DEF EditInv, EarlierEditsStay
  <2> QED BY <1>0, <2>1, <2>2, <2>3, <2>4 DEF EditInv
<1>4. ASSUME NEW e \in Editors, YqWrites(e) PROVE EditInv'
  <2> DEFINE D == Disturbed(Editors \ {e})
             g == edit[e].field
  <2>1. D \in [Editors -> EditRecords] /\ D[e] = edit[e]
        /\ \A d \in Editors \ {e} : ~D[d].alone
    BY <1>0, DisturbedTypes
  <2>2. /\ edit[e].at = "write" /\ file'.conf = [edit[e].copy EXCEPT ![g] = e]
        /\ edit' = [D EXCEPT ![e].at = IF edit[e].todo = {g} THEN "done" ELSE "edit",
                             ![e].todo = @ \ {g}, ![e].field = "none", ![e].copy = Blank]
    BY <1>4 DEF YqWrites, Becomes
  <2> HIDE DEF D
  <2>3. /\ edit'[e].at # "write" /\ edit'[e].todo = edit[e].todo \ {g}
        /\ edit'[e].wanted = edit[e].wanted /\ edit'[e].before = edit[e].before
        /\ edit'[e].alone = edit[e].alone
        /\ \A d \in Editors \ {e} : ~edit'[d].alone
    BY <2>1, <2>2 DEF EditRecords
  <2>4. ASSUME edit[e].alone
        PROVE  file'.conf = [f \in Fields |->
                 IF f \in edit'[e].wanted \ edit'[e].todo THEN e ELSE edit'[e].before[f]]
    <3>1. /\ edit[e].todo \subseteq edit[e].wanted /\ g \in edit[e].todo
          /\ edit[e].copy = file.conf
      BY <1>0, <2>2, <2>4 DEF EditInv
    <3>2. file.conf = [f \in Fields |->
            IF f \in edit[e].wanted \ edit[e].todo THEN e ELSE edit[e].before[f]]
      BY <1>0, <2>4 DEF EditInv, EarlierEditsStay
    <3>3. file'.conf = [f \in Fields |-> IF f = g THEN e ELSE file.conf[f]]
      BY <2>2, <3>1, <3>2
    <3> QED BY <2>3, <3>1, <3>2, <3>3
  <2>5. EarlierEditsStay'
    BY <2>3, <2>4 DEF EarlierEditsStay
  <2> QED BY <1>0, <2>3, <2>5 DEF EditInv
<1>5. ASSUME NEW e \in Editors, YqFails(e) PROVE EditInv'
  <2>1. UNCHANGED file
        /\ edit' = [edit EXCEPT ![e].at = "failed", ![e].field = "none", ![e].copy = Blank]
    BY <1>5 DEF YqFails
  <2>2. /\ edit'[e].at = "failed"
        /\ edit'[e].todo = edit[e].todo /\ edit'[e].wanted = edit[e].wanted
        /\ edit'[e].before = edit[e].before /\ edit'[e].alone = edit[e].alone
        /\ \A d \in Editors \ {e} : edit'[d] = edit[d]
    BY <1>0, <2>1 DEF EditRecords
  <2>3. EarlierEditsStay'
    BY <1>0, <2>1, <2>2 DEF EditInv, EarlierEditsStay
  <2> QED BY <1>0, <2>1, <2>2, <2>3 DEF EditInv
<1>6. ASSUME edit' = Disturbed(Editors) PROVE EditInv'
  BY <1>0, <1>6, DisturbedKeepsEdits
<1>7. CASE Restart
  <2>1. UNCHANGED file /\ \A e \in Editors : edit'[e] = edit[e] \/ ~edit'[e].alone
    BY <1>7 DEF Restart, IdleEdit
  <2>2. EarlierEditsStay'
    BY <1>0, <2>1 DEF EditInv, EarlierEditsStay
  <2> QED BY <1>0, <2>1, <2>2 DEF EditInv
<1>8. ASSUME NEW r \in Readers, ReadStep(r) PROVE EditInv'
  BY <1>1, <1>8 DEF ReadStep, Stats, LooksUp, ReadsYq, ReadsNoConf, Stores, Returns
<1>9. ASSUME NEW w \in Forwards, FwdStep(w) PROVE EditInv'
  <2>1. CASE FwdStats(w) \/ FwdWriteFails(w) \/ FwdUp(w)
    BY <1>1, <2>1 DEF FwdStats, FwdWriteFails, FwdUp
  <2>2. CASE FwdCreates(w) \/ FwdFills(w) \/ FwdRollsBack(w)
    BY <1>6, <2>2 DEF FwdCreates, FwdFills, FwdRollsBack
  <2> QED BY <1>9, <2>1, <2>2 DEF FwdStep
<1>10. CASE RemovedByHand
  BY <1>6, <1>10 DEF RemovedByHand
<1> QED
  BY <1>2, <1>3, <1>4, <1>5, <1>7, <1>8, <1>9, <1>10 DEF Next, EditStep

-----------------------------------------------------------------------------
(* Theorems                                                                *)

LEMMA ConfStep == ConfInv /\ [Next]_vars => ConfInv'
<1> SUFFICES ASSUME ConfInv, [Next]_vars PROVE ConfInv'
  OBVIOUS
<1>1. CASE Next
  BY <1>1, TypesStep, ReadsStep, EditsStep DEF ConfInv
<1>2. CASE UNCHANGED vars
  <2>1. TypeOK'
    BY <1>2 DEF vars, ConfInv, TypeOK
  <2>2. ReadInv'
    <3>1. UNCHANGED <<file, clock, cache, read>>
      BY <1>2 DEF vars
    <3>2. \A w \in Forwards : fwd'[w] = fwd[w] \/ (fwd'[w].at # "fill" /\ fwd'[w].ino <= clock)
      BY <1>2 DEF vars
    <3> QED BY <3>1, <3>2, ForwardsKeepReads
  <2>3. EditInv'
    BY <1>2 DEF vars, ConfInv, EditInv, EarlierEditsStay
  <2> QED BY <2>1, <2>2, <2>3 DEF ConfInv
<1> QED BY <1>1, <1>2

LEMMA ConfInvariant == Spec => []ConfInv
BY ConfInit, ConfStep, PTL DEF Spec

\* The types of the file, its cache and the requests about it; an entry has a time.
THEOREM ConfTypesHold == Spec => []TypeOK
<1>1. ConfInv => TypeOK
  BY DEF ConfInv
<1> QED BY <1>1, ConfInvariant, PTL

\* The cache of configurations is never used for a file that says something else,
\* although stat, yq and the store are three steps and time has a grain.
THEOREM CacheIsTrue == Spec => []CacheNeverLies
<1>1. ConfInv => CacheNeverLies
  BY DEF ConfInv, ReadInv, FileInv, CacheInv, Agrees, CacheNeverLies, Hit, Stat
<1> QED BY <1>1, ConfInvariant, PTL

\* Every call returns what the file was at some time during it, or a default tunnel when
\* its own yq failed.
THEOREM ReadsAreRegular == Spec => []ReadsRegular
<1>1. ConfInv => ReadsRegular
  BY DEF ConfInv, ReadInv, SeenInv, ReadsRegular
<1> QED BY <1>1, ConfInvariant, PTL

\* An edit that nobody disturbs changes exactly the fields it has done, for any number
\* of fields and wherever it fails.
THEOREM EditsAreExact == Spec => []EarlierEditsStay
<1>1. ConfInv => EarlierEditsStay
  BY DEF ConfInv, EditInv
<1> QED BY <1>1, ConfInvariant, PTL

=============================================================================
