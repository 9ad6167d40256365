--------------------------- MODULE SettingsProofs ---------------------------
(***************************************************************************)
(* Proofs about Settings, for any number of requests, settings, failures   *)
(* and sessions: PINs are evaluated only after the lockout, the files      *)
(* change as in AtomicSettings, and the sessions in force are the youngest *)
(* that live.                                                              *)
(***************************************************************************)
EXTENDS Settings, FiniteSetTheorems, SequenceTheorems, WellFoundedInduction, TLAPS

Asked == {NoChange} \cup SettingChanges \cup LayoutChanges
Files == [set : [Keys -> Pins \cup {NoPin} \cup Values], salted : BOOLEAN]
Copies == [set : [Keys -> Pins \cup {NoPin} \cup Values] \cup {NoChange}, salted : BOOLEAN]
ReqRecords ==
    [at : {"idle", "check", "verify", "upgrade", "rehash", "want", "write", "revoke", "mint"},
     next : {"idle", "want", "mint"}, in : Asked, guess : Pins \cup {NoPin}, copy : Copies]

-----------------------------------------------------------------------------
(* The inductive invariant                                                 *)

Typed ==
    /\ file \in Files /\ layout \in Layouts
    /\ mu \in Requests \cup {Nobody} /\ verifyMu \in Requests \cup {Nobody}
    /\ req \in [Requests -> ReqRecords]
    /\ fails \in 0..MaxFails /\ locked \in Int /\ since \in Nat

\* Who loads and saves holds Actions.mu, who checks a PIN verifyMu, to the end.
LocksHeld ==
    \A r \in Requests :
        /\ req[r].at \in {"rehash", "write"} => mu = r
        /\ req[r].at \in {"verify", "upgrade", "rehash"} => verifyMu = r

\* What was loaded is what the file holds; a hash is replaced by one of the same PIN.
CopiesFresh ==
    \A r \in Requests :
        /\ req[r].at \in {"rehash", "write"} => req[r].copy = file
        /\ req[r].at \in {"upgrade", "rehash"} => Matches(r)

\* What is left of the lockout and what has passed of it cover the wait that the
\* failures require; nobody is locked out while a PIN is evaluated.
Spaced ==
    /\ locked + since >= RequiredWait(fails)
    /\ \A r \in Requests : req[r].at = "verify" => locked = 0

SettingsInv == Typed /\ LocksHeld /\ CopiesFresh /\ Spaced

-----------------------------------------------------------------------------
LEMMA MergeTypes ==
    ASSUME NEW c \in Asked, "layout" \notin DOMAIN c,
           NEW s \in [Keys -> Pins \cup {NoPin} \cup Values]
    PROVE  /\ DOMAIN c \subseteq Keys
           /\ Merge(c, s) \in [Keys -> Pins \cup {NoPin} \cup Values]
<1>1. CASE c = NoChange
  BY <1>1 DEF NoChange, Merge
<1>2. CASE c \in SettingChanges
  BY <1>2, ChangesAssumption DEF Merge
<1> QED BY <1>1, <1>2 DEF Asked, LayoutChanges

LEMMA IdleTyped ==
    /\ Idle \in ReqRecords /\ Idle.at = "idle" /\ Idle.in = NoChange
    /\ SettingChanges \subseteq Asked /\ LayoutChanges \subseteq Asked /\ NoChange \in Asked
<1>1. NoPin \in Pins \cup {NoPin} /\ NoChange \in Asked
  BY DEF Asked
<1>2. [set |-> NoChange, salted |-> FALSE] \in Copies
  BY DEF Copies
<1> QED BY <1>1, <1>2 DEF Idle, ReqRecords, Asked

LEMMA LayoutAsked ==
    ASSUME NEW c \in Asked, "layout" \in DOMAIN c
    PROVE  DOMAIN c = {"layout"} /\ c["layout"] \in Layouts
<1>1. c # NoChange
  BY DEF NoChange
<1>2. c \notin SettingChanges
  BY ChangesAssumption DEF Keys
<1> QED BY <1>1, <1>2 DEF Asked, LayoutChanges

LEMMA LockTimeCovers ==
    ASSUME NEW n \in Nat, n <= MaxFails
    PROVE  /\ LockTime(n) \in Int /\ RequiredWait(n) \in Int
           /\ RequiredWait(n) <= MaxLockout
           /\ LockTime(n) >= RequiredWait(n)
<1> USE LockoutAssumption
<1>1. CASE n < LockAfter
  BY <1>1 DEF LockTime, RequiredWait
<1>2. CASE n >= LockAfter /\ n - LockAfter <= MaxShift
  <2>1. AtMost(n - LockAfter, MaxShift) = n - LockAfter
    BY <1>2 DEF AtMost
  <2> QED BY <1>2, <2>1 DEF LockTime, RequiredWait, AtMost
<1>3. CASE n >= LockAfter /\ n - LockAfter > MaxShift
  <2>1. AtMost(n - LockAfter, MaxShift) = MaxShift
    BY <1>3 DEF AtMost
  <2>2. LockTime(n) = MaxLockout
    BY <1>3, <2>1 DEF LockTime, AtMost
  <2> QED BY <1>3, <2>2 DEF RequiredWait, AtMost
<1> QED BY <1>1, <1>2, <1>3

-----------------------------------------------------------------------------
(* It holds at first, and every step keeps it                              *)

LEMMA SettingsInit == Init => SettingsInv
<1> SUFFICES ASSUME Init PROVE SettingsInv
  OBVIOUS
<1>3. 0 \in 0..MaxFails /\ MaxLockout \in Nat /\ RequiredWait(0) = 0
  BY LockoutAssumption DEF RequiredWait
<1>4. Typed
  BY <1>3, IdleTyped, FilesAssumption DEF Init, Typed, Files
<1>5. \A r \in Requests : req[r].at = "idle"
  BY IdleTyped DEF Init
<1> QED BY <1>3, <1>4, <1>5 DEF SettingsInv, LocksHeld, CopiesFresh, Spaced, Init

\* A new request.
LEMMA ArrivalKeepsInv ==
    ASSUME SettingsInv, NEW r \in Requests, Arrives(r)
    PROVE  SettingsInv'
<1> USE DEF SettingsInv
<1>2. /\ req' \in [Requests -> ReqRecords]
      /\ \A o \in Requests : o # r => req'[o] = req[o]
      /\ req'[r].at \notin {"verify", "upgrade", "rehash", "write"}
  <2>1. req \in [Requests -> ReqRecords]
    BY DEF Typed
  <2> USE <2>1, IdleTyped DEF ReqRecords
  <2>2. CASE PostOpen(r)
    <3>1. PICK c \in SettingChanges :
            req' = [req EXCEPT ![r] = [Idle EXCEPT !.at = "want", !.in = c]]
      BY <2>2 DEF PostOpen
    <3> QED BY <3>1
  <2>3. CASE PostPin(r)
    <3>1. PICK c \in SettingChanges, g \in Pins :
            req' = [req EXCEPT ![r] = [Idle EXCEPT !.at = "check", !.next = "want",
                                                   !.in = c, !.guess = g]]
      BY <2>3 DEF PostPin
    <3> QED BY <3>1
  <2>4. CASE PostLayout(r)
    <3>1. PICK c \in LayoutChanges :
            req' = [req EXCEPT ![r] = [Idle EXCEPT !.at = "want", !.in = c]]
      BY <2>4 DEF PostLayout
    <3> QED BY <3>1
  <2>5. CASE Unlock(r)
    <3>1. PICK g \in Pins :
            req' = [req EXCEPT ![r] = [Idle EXCEPT !.at = "check", !.next = "mint", !.guess = g]]
      BY <2>5 DEF Unlock
    <3> QED BY <3>1
  <2>6. CASE \E i \in DOMAIN sessions : PostSession(r, i)
    <3>1. PICK i \in DOMAIN sessions : PostSession(r, i)
      BY <2>6
    <3>2. CASE sessions[i] >= 0
      <4>1. PICK c \in SettingChanges :
              req' = [req EXCEPT ![r] = [Idle EXCEPT !.at = "want", !.in = c]]
        BY <3>1, <3>2 DEF PostSession
      <4> QED BY <4>1
    <3>3. CASE ~(sessions[i] >= 0)
      <4>1. req' = req /\ req[r] = Idle
        BY <3>1, <3>3 DEF PostSession
      <4> QED BY <4>1
    <3> QED BY <3>2, <3>3
  <2> QED BY <2>2, <2>3, <2>4, <2>5, <2>6 DEF Arrives
<1>3. UNCHANGED <<file, layout, mu, verifyMu, fails, locked, since>>
  BY DEF Arrives, PostOpen, PostPin, PostLayout, Unlock, PostSession, gateVars
<1>4. Typed'
  BY <1>2, <1>3 DEF Typed
<1>5. LocksHeld'
  BY <1>2, <1>3 DEF LocksHeld
<1>6. CopiesFresh'
  BY <1>2, <1>3 DEF CopiesFresh, Matches
<1>7. Spaced'
  BY <1>2, <1>3 DEF Spaced, RequiredWait
<1> QED BY <1>4, <1>5, <1>6, <1>7

\* The replacement of a hash leaves the PIN as it is.
LEMMA RehashedSame ==
    ASSUME file \in Files, NEW r \in Requests, req[r].copy = file, Matches(r)
    PROVE  [req[r].copy.set EXCEPT !["pin"] = req[r].guess] = file.set
<1>1. file.set \in [Keys -> Pins \cup {NoPin} \cup Values] /\ "pin" \in Keys
  BY DEF Files, Keys
<1>2. req[r].guess = file.set["pin"] /\ req[r].copy.set = file.set
  BY DEF Matches
<1> QED BY <1>1, <1>2

LEMMA PassesTypes ==
    ASSUME Typed, NEW r \in Requests, Passes(r)
    PROVE  req' \in [Requests -> ReqRecords]
<1>1. req \in [Requests -> ReqRecords]
  BY DEF Typed
<1>2. req[r].next \in {"idle", "want", "mint"} /\ req[r].in \in Asked
  BY <1>1 DEF ReqRecords
<1>3. [Idle EXCEPT !.at = req[r].next, !.in = req[r].in] \in ReqRecords
  BY <1>2, IdleTyped DEF ReqRecords
<1> QED BY <1>1, <1>3 DEF Passes

LEMMA PassesAt ==
    ASSUME Typed, NEW r \in Requests, Passes(r)
    PROVE  /\ req'[r].at \in {"idle", "want", "mint"} /\ req'[r].in = req[r].in
           /\ \A o \in Requests : o # r => req'[o] = req[o]
<1>1. req \in [Requests -> ReqRecords]
  BY DEF Typed
<1>2. req[r].next \in {"idle", "want", "mint"}
  BY <1>1 DEF ReqRecords
<1> QED BY <1>1, <1>2, IdleTyped DEF Passes, ReqRecords

\* A request proceeds: the types.
LEMMA StepKeepsTypes ==
    ASSUME SettingsInv, NEW r \in Requests, Proceeds(r)
    PROVE  Typed'
<1> USE DEF SettingsInv, Typed
<1>1. req \in [Requests -> ReqRecords] /\ req[r] \in ReqRecords
  OBVIOUS
<1>2. file \in Copies
  BY DEF Files, Copies
<1>3. CASE CheckRefuses(r)
  BY <1>1, <1>2, IdleTyped, <1>3 DEF CheckRefuses, gateVars, Ends, ReqRecords
<1>4. CASE CheckBegins(r)
  BY <1>1, <1>2, IdleTyped, <1>4 DEF CheckBegins, gateVars, ReqRecords
<1>5. CASE VerifyFails(r)
  <2>1. fails' \in 0..MaxFails
    BY <1>5, LockoutAssumption DEF VerifyFails, AtMost
  <2>2. locked' \in Int /\ since' \in Nat
    BY <1>5, <2>1, LockTimeCovers DEF VerifyFails
  <2> QED BY <1>1, <1>2, IdleTyped, <1>5, <2>1, <2>2 DEF VerifyFails, Ends, ReqRecords
<1>6. CASE VerifyMatches(r)
  <2>1. 0 \in 0..MaxFails /\ MaxLockout \in Nat
    BY LockoutAssumption
  <2>2. CASE Goes(r, "upgrade")
    BY <1>1, <1>6, <2>1, <2>2 DEF VerifyMatches, Goes, ReqRecords
  <2>3. CASE Passes(r)
    BY <2>3, PassesTypes, <1>6, <2>1 DEF VerifyMatches
  <2> QED BY <1>6, <2>2, <2>3 DEF VerifyMatches
<1>7. CASE UpgradeBegins(r)
  <2>1. CASE SameHash(r)
    BY <1>1, <1>2, <1>7, <2>1 DEF UpgradeBegins, ReqRecords, gateVars
  <2>2. CASE ~SameHash(r)
    BY <1>7, <2>2, PassesTypes DEF UpgradeBegins, gateVars
  <2> QED BY <2>1, <2>2
<1>8. CASE UpgradeEnds(r)
  <2>1. req' \in [Requests -> ReqRecords]
    BY <1>8, PassesTypes DEF UpgradeEnds
  <2>2. req[r].copy = file /\ Matches(r)
    BY <1>8 DEF UpgradeEnds, CopiesFresh
  <2>3. [req[r].copy.set EXCEPT !["pin"] = req[r].guess] = file.set
    BY <2>2, RehashedSame
  <2>4. file' \in Files
    <3>1. [set |-> file.set, salted |-> TRUE] \in Files
      BY DEF Files
    <3>2. file' \in {file, [set |-> file.set, salted |-> TRUE]}
      BY <1>8, <2>3 DEF UpgradeEnds
    <3> QED BY <3>1, <3>2
  <2> QED BY <1>8, <2>1, <2>4 DEF UpgradeEnds, gateVars
<1>9. CASE WriteBegins(r)
  BY <1>1, <1>2, <1>9 DEF WriteBegins, ReqRecords, gateVars
<1>10. CASE WriteEnds(r)
  <2>1. req' \in [Requests -> ReqRecords]
    BY <1>1, IdleTyped, <1>10 DEF WriteEnds, ReqRecords
  <2>2. req[r].in \in Asked /\ req[r].copy = file
    BY <1>1, <1>10 DEF WriteEnds, ReqRecords, CopiesFresh
  <2>3. layout' \in Layouts
    BY <1>10, <2>2, LayoutAsked DEF WriteEnds
  <2>4. file' \in Files
    <3>1. CASE "layout" \in DOMAIN req[r].in
      BY <1>10, <3>1 DEF WriteEnds
    <3>2. CASE "layout" \notin DOMAIN req[r].in
      <4>1. file.set \in [Keys -> Pins \cup {NoPin} \cup Values] /\ file.salted \in BOOLEAN
        BY DEF Files
      <4>2. Merge(req[r].in, file.set) \in [Keys -> Pins \cup {NoPin} \cup Values]
        BY <2>2, <3>2, <4>1, MergeTypes
      <4>3. (file.salted \/ "pin" \in DOMAIN req[r].in) \in BOOLEAN
        BY Zenon
      <4>4. file' = [set |-> Merge(req[r].in, file.set),
                     salted |-> file.salted \/ "pin" \in DOMAIN req[r].in]
        BY <1>10, <2>2, <3>2 DEF WriteEnds
      <4> QED BY <4>2, <4>3, <4>4 DEF Files
    <3> QED BY <3>1, <3>2
  <2> QED BY <1>10, <2>1, <2>3, <2>4 DEF WriteEnds, gateVars
<1>11. CASE WriteFails(r)
  BY <1>1, <1>2, IdleTyped, <1>11 DEF WriteFails, Releases, Ends, ReqRecords, gateVars
<1>12. CASE Revoke(r) \/ Mint(r)
  BY <1>1, <1>2, IdleTyped, <1>12 DEF Revoke, Mint, Goes, Ends, ReqRecords
<1> QED BY <1>3, <1>4, <1>5, <1>6, <1>7, <1>8, <1>9, <1>10, <1>11, <1>12 DEF Proceeds

\* The other parts of the invariant, by what the step does to the locks.
LEMMA StepKeepsLocks ==
    ASSUME SettingsInv, NEW r \in Requests, Proceeds(r)
    PROVE  LocksHeld' /\ CopiesFresh'
<1> USE RequestsAssumption DEF SettingsInv, LocksHeld, Nobody
<1>1. req \in [Requests -> ReqRecords] /\ req[r] \in ReqRecords
  BY DEF Typed
<1>2. Idle.at = "idle"
  BY IdleTyped
<1>3. ASSUME NEW q, req' = [req EXCEPT ![r] = q]
      PROVE  req'[r] = q /\ \A o \in Requests : o # r => req'[o] = req[o]
  BY <1>1, <1>3
<1> USE DEF CopiesFresh, Matches
<1>4. CASE CheckRefuses(r) \/ Revoke(r) \/ Mint(r)
  <2>1. UNCHANGED <<file, mu, verifyMu>>
    BY <1>4 DEF CheckRefuses, Revoke, Mint
  <2>2. req'[r].at \in {"idle", "mint"}
    BY <1>1, <1>2, <1>4 DEF CheckRefuses, Revoke, Mint, Ends, Goes, ReqRecords
  <2>3. \A o \in Requests : o # r => req'[o] = req[o]
    BY <1>1, <1>4 DEF CheckRefuses, Revoke, Mint, Ends, Goes
  <2> QED BY <2>1, <2>2, <2>3
<1>5. CASE CheckBegins(r)
  BY <1>1, <1>5 DEF CheckBegins, VerifyFree, ReqRecords
<1>6. CASE VerifyFails(r)
  BY <1>1, <1>2, <1>6 DEF VerifyFails, Ends
<1>7. CASE VerifyMatches(r)
  <2>1. CASE req[r].copy.salted
    BY <1>1, <1>7, <2>1, PassesAt DEF VerifyMatches
  <2>2. CASE ~req[r].copy.salted
    BY <1>1, <1>7, <2>2 DEF VerifyMatches, Goes, ReqRecords
  <2> QED BY <2>1, <2>2
<1>8. CASE UpgradeBegins(r)
  <2>1. CASE SameHash(r)
    BY <1>1, <1>8, <2>1 DEF UpgradeBegins, SameHash, ReqRecords
  <2>2. CASE ~SameHash(r)
    BY <1>1, <1>8, <2>2, PassesAt DEF UpgradeBegins
  <2> QED BY <2>1, <2>2
<1>9. CASE UpgradeEnds(r)
  BY <1>1, <1>9, PassesAt DEF UpgradeEnds
<1>10. CASE WriteBegins(r)
  BY <1>1, <1>10 DEF WriteBegins, LockFree, ReqRecords
<1>11. CASE WriteEnds(r)
  <2>1. req'[r].at \in {"idle", "revoke"}
    BY <1>1, <1>2, <1>11, IdleTyped DEF WriteEnds, ReqRecords
  <2>2. mu = r /\ mu' = Nobody /\ UNCHANGED verifyMu
        /\ \A o \in Requests : o # r => req'[o] = req[o]
    BY <1>1, <1>11 DEF WriteEnds
  <2> QED BY <2>1, <2>2
<1>12. CASE WriteFails(r)
  BY <1>1, <1>2, <1>12 DEF WriteFails, Releases, Ends
<1> QED BY <1>4, <1>5, <1>6, <1>7, <1>8, <1>9, <1>10, <1>11, <1>12 DEF Proceeds

LEMMA StepKeepsSpacing ==
    ASSUME SettingsInv, NEW r \in Requests, Proceeds(r)
    PROVE  Spaced'
<1> USE DEF SettingsInv, Spaced
<1>1. req \in [Requests -> ReqRecords] /\ req[r] \in ReqRecords
  BY DEF Typed
<1>2. CASE VerifyFails(r)
  <2>1. fails' \in 0..MaxFails /\ since' = 0
    BY <1>2, LockoutAssumption DEF Typed, VerifyFails, AtMost
  <2>2. locked' + since' >= RequiredWait(fails')
    <3>1. CASE fails' < LockAfter
      BY <1>2, <2>1, <3>1 DEF VerifyFails, RequiredWait
    <3>2. CASE ~(fails' < LockAfter)
      BY <1>2, <2>1, <3>2, LockTimeCovers DEF VerifyFails
    <3> QED BY <3>1, <3>2
  <2>3. \A o \in Requests : req'[o].at # "verify"
    BY <1>1, <1>2, IdleTyped DEF VerifyFails, Ends, LocksHeld
  <2> QED BY <2>2, <2>3
<1>3. CASE VerifyMatches(r)
  <2>1. fails' = 0 /\ locked' = 0 /\ since' \in Nat /\ RequiredWait(0) = 0
    BY <1>3, LockoutAssumption DEF VerifyMatches, RequiredWait
  <2> QED BY <2>1
<1>4. CASE CheckBegins(r)
  BY <1>1, <1>4 DEF CheckBegins, gateVars, ReqRecords, RequiredWait
<1>5. ASSUME ~VerifyFails(r), ~VerifyMatches(r), ~CheckBegins(r)
      PROVE  UNCHANGED <<fails, locked, since>> /\ req'[r].at # "verify"
             /\ \A o \in Requests : o # r => req'[o] = req[o]
  <2>1. CASE CheckRefuses(r) \/ Revoke(r) \/ Mint(r) \/ WriteFails(r)
    BY <1>1, <2>1, IdleTyped
       DEF CheckRefuses, Revoke, Mint, WriteFails, Ends, Goes, gateVars, ReqRecords
  <2>2. CASE UpgradeBegins(r)
    <3>1. CASE SameHash(r)
      BY <1>1, <2>2, <3>1 DEF UpgradeBegins, ReqRecords, gateVars
    <3>2. CASE ~SameHash(r)
      BY <1>1, <2>2, <3>2, PassesAt DEF UpgradeBegins, gateVars
    <3> QED BY <3>1, <3>2
  <2>3. CASE UpgradeEnds(r)
    BY <1>1, <2>3, PassesAt DEF UpgradeEnds, gateVars
  <2>4. CASE WriteBegins(r)
    BY <1>1, <2>4 DEF WriteBegins, gateVars, ReqRecords
  <2>5. CASE WriteEnds(r)
    BY <1>1, <2>5, IdleTyped DEF WriteEnds, gateVars, ReqRecords
  <2> QED BY <1>5, <2>1, <2>2, <2>3, <2>4, <2>5 DEF Proceeds
<1>6. ASSUME ~VerifyFails(r), ~VerifyMatches(r), ~CheckBegins(r) PROVE Spaced'
  BY <1>5, <1>6 DEF RequiredWait
<1> QED BY <1>2, <1>3, <1>4, <1>6

LEMMA TickKeepsInv == SettingsInv /\ Tick => SettingsInv'
<1> SUFFICES ASSUME SettingsInv, Tick PROVE SettingsInv'
  OBVIOUS
<1> USE LockoutAssumption DEF SettingsInv, Tick
<1>1. RequiredWait(fails) \in Int /\ RequiredWait(fails) <= MaxLockout
  BY LockTimeCovers DEF Typed
<1>2. Typed'
  BY DEF Typed, AtMost
<1>3. locked' + since' >= RequiredWait(fails)
  BY <1>1 DEF Typed, Spaced, AtMost
<1>4. Spaced'
  BY <1>3 DEF Spaced, RequiredWait
<1>5. LocksHeld' /\ CopiesFresh'
  BY DEF LocksHeld, CopiesFresh, Matches
<1> QED BY <1>2, <1>4, <1>5

LEMMA CrashKeepsInv == SettingsInv /\ Crash => SettingsInv'
<1> SUFFICES ASSUME SettingsInv, Crash PROVE SettingsInv'
  OBVIOUS
<1>1. Typed'
  BY IdleTyped, LockoutAssumption DEF SettingsInv, Typed, Crash
<1>2. \A r \in Requests : req'[r].at = "idle"
  BY IdleTyped DEF Crash
<1>3. Spaced'
  BY <1>2, LockoutAssumption DEF Spaced, Crash, RequiredWait
<1> QED BY <1>1, <1>2, <1>3 DEF SettingsInv, LocksHeld, CopiesFresh

LEMMA SettingsInductive == SettingsInv /\ [Next]_vars => SettingsInv'
<1> SUFFICES ASSUME SettingsInv, [Next]_vars PROVE SettingsInv'
  OBVIOUS
<1>1. ASSUME NEW r \in Requests, Proceeds(r) PROVE SettingsInv'
  BY <1>1, StepKeepsTypes, StepKeepsLocks, StepKeepsSpacing DEF SettingsInv
<1>2. CASE UNCHANGED vars
  BY <1>2 DEF vars, gateVars, SettingsInv, Typed, LocksHeld, CopiesFresh, Matches, Spaced,
              RequiredWait
<1> QED BY <1>1, <1>2, ArrivalKeepsInv, TickKeepsInv, CrashKeepsInv DEF Next

LEMMA SettingsInvHolds == Spec => []SettingsInv
BY SettingsInit, SettingsInductive, PTL DEF Spec

-----------------------------------------------------------------------------
(* Sequences: what is dropped from the front, and what ages               *)

\* Every set of numbers has a least one.
LEMMA LeastNat ==
    ASSUME NEW T \in SUBSET Nat, T # {}
    PROVE  \E m \in T : \A k \in T : m <= k
<1> DEFINE R == {ss \in Nat \X Nat : ss[1] < ss[2]}
<1>1. IsWellFoundedOn(R, Nat)
  BY NatLessThanWellFounded DEF OpToRel
<1> HIDE DEF R
<1>2. \E m \in T : \A k \in T : ~ (<<k, m>> \in R)
  BY <1>1, WFMin, Zenon
<1>3. \A k, m \in Nat : k < m => <<k, m>> \in R
  BY DEF R
<1>4. PICK m \in T : \A k \in T : ~ (<<k, m>> \in R)
  BY <1>2
<1>5. \A k \in T : ~(k < m)
  BY <1>3, <1>4
<1> QED BY <1>5

\* The sequence without its first d.
Drops(s, d) == SubSeq(s, d + 1, Len(s))
Sorted(s) == \A i, j \in 1..Len(s) : i <= j => s[i] <= s[j]
\* The first d have expired, and no other.
Expired(s, d) ==
    /\ d \in 0..Len(s)
    /\ \A k \in 1..Len(s) : s[k] >= 0 <=> k > d

LEMMA DropsIs ==
    ASSUME NEW S, NEW s \in Seq(S), NEW d \in 0..Len(s)
    PROVE  /\ Drops(s, d) \in Seq(S)
           /\ Len(Drops(s, d)) \in Nat /\ Len(Drops(s, d)) = Len(s) - d
           /\ \A k \in 1..(Len(s) - d) : Drops(s, d)[k] = s[d + k] /\ d + k \in 1..Len(s)
<1>1. Len(s) \in Nat
  BY LenProperties
<1>2. PICK l \in 1..(Len(s) + 1) : l = d + 1
  BY <1>1
<1>3. \A i \in l..Len(s) : s[i] \in S
  BY <1>1
<1>4. /\ SubSeq(s, l, Len(s)) \in Seq(S)
      /\ Len(SubSeq(s, l, Len(s))) = IF l <= Len(s) THEN Len(s) - l + 1 ELSE 0
      /\ \A i \in 1..(Len(s) - l + 1) : SubSeq(s, l, Len(s))[i] = s[l + i - 1]
  BY <1>1, <1>3, SubSeqProperties
<1>5. Drops(s, d) = SubSeq(s, l, Len(s))
  BY <1>2 DEF Drops
<1>6. Len(Drops(s, d)) = Len(s) - d
  BY <1>1, <1>2, <1>4, <1>5
<1>7. ASSUME NEW k \in 1..(Len(s) - d)
      PROVE  Drops(s, d)[k] = s[d + k] /\ d + k \in 1..Len(s)
  <2>1. k \in 1..(Len(s) - l + 1) /\ l + k - 1 = d + k
    BY <1>1, <1>2
  <2> QED BY <1>1, <1>4, <1>5, <2>1
<1> QED BY <1>1, <1>4, <1>5, <1>6, <1>7

LEMMA LastOfDrops ==
    ASSUME NEW S, NEW s \in Seq(S), NEW n \in Nat
    PROVE  \E d \in 0..Len(s) : /\ d = IF n < Len(s) THEN Len(s) - n ELSE 0
                                /\ LastOf(s, n) = Drops(s, d)
<1>1. Len(s) \in Nat
  BY LenProperties
<1>2. PICK d \in 0..Len(s) : d = IF n < Len(s) THEN Len(s) - n ELSE 0
  BY <1>1
<1>3. Len(s) - AtMost(n, Len(s)) + 1 = d + 1
  BY <1>1, <1>2 DEF AtMost
<1>4. LastOf(s, n) = Drops(s, d)
  BY <1>3 DEF LastOf, Drops
<1> QED BY <1>2, <1>4

LEMMA DropsTwice ==
    ASSUME NEW S, NEW s \in Seq(S), NEW d \in 0..Len(s), NEW e \in 0..(Len(s) - d),
           NEW f \in 0..Len(s), f = d + e
    PROVE  Drops(Drops(s, d), e) = Drops(s, f)
<1>1. Len(s) \in Nat
  BY LenProperties
<1>2. PICK t \in Seq(S) : t = Drops(s, d)
  BY DropsIs
<1>3. Len(t) = Len(s) - d /\ \A k \in 1..(Len(s) - d) : t[k] = s[d + k]
  BY <1>2, DropsIs
<1>4. /\ Drops(t, e) \in Seq(S) /\ Len(Drops(t, e)) = Len(s) - f
      /\ \A k \in 1..(Len(t) - e) : Drops(t, e)[k] = t[e + k]
  BY <1>1, <1>3, DropsIs
<1>5. /\ Drops(s, f) \in Seq(S) /\ Len(Drops(s, f)) = Len(s) - f
      /\ \A k \in 1..(Len(s) - f) : Drops(s, f)[k] = s[f + k]
  BY <1>1, DropsIs
<1>6. ASSUME NEW k \in 1..(Len(s) - f) PROVE Drops(t, e)[k] = Drops(s, f)[k]
  <2>1. k \in 1..(Len(t) - e) /\ e + k \in 1..(Len(s) - d) /\ d + (e + k) = f + k
    BY <1>1, <1>3
  <2> QED BY <1>3, <1>4, <1>5, <2>1
<1>7. Drops(t, e) = Drops(s, f)
  BY <1>4, <1>5, <1>6, SeqEqual
<1> QED BY <1>2, <1>7

\* What has expired comes first.
LEMMA ExpiredFirst ==
    ASSUME NEW s \in Seq(Int), Sorted(s)
    PROVE  \E d \in 0..Len(s) : Expired(s, d)
<1>1. Len(s) \in Nat
  BY LenProperties
<1>2. \A i \in 1..Len(s) : s[i] \in Int
  BY <1>1
<1>3. PICK m \in {i \in 1..(Len(s) + 1) : i = Len(s) + 1 \/ s[i] >= 0} :
        \A k \in {i \in 1..(Len(s) + 1) : i = Len(s) + 1 \/ s[i] >= 0} : m <= k
  <2>1. {i \in 1..(Len(s) + 1) : i = Len(s) + 1 \/ s[i] >= 0} \in SUBSET Nat
    BY <1>1
  <2>2. Len(s) + 1 \in {i \in 1..(Len(s) + 1) : i = Len(s) + 1 \/ s[i] >= 0}
    BY <1>1
  <2> QED BY <2>1, <2>2, LeastNat
<1>4. ASSUME NEW k \in 1..Len(s) PROVE s[k] >= 0 <=> k > m - 1
  <2>1. CASE k < m
    BY <1>1, <1>2, <1>3, <2>1
  <2>2. CASE k >= m
    <3>1. m \in 1..Len(s) /\ s[m] >= 0
      BY <1>1, <1>3, <2>2
    <3>2. s[m] <= s[k]
      BY <2>2, <3>1 DEF Sorted
    <3> QED BY <1>2, <2>2, <3>1, <3>2
  <2> QED BY <1>1, <1>3, <2>1, <2>2
<1>5. m - 1 \in 0..Len(s)
  BY <1>1, <1>3
<1> QED BY <1>4, <1>5 DEF Expired

\* Alive drops what has expired, when it comes first.
LEMMA AliveIs ==
    ASSUME NEW s \in Seq(Int), NEW d \in 0..Len(s), Expired(s, d)
    PROVE  Alive(s) = Drops(s, d)
<1>1. Len(s) \in Nat
  BY LenProperties
<1>2. {i \in DOMAIN s : s[i] >= 0} = (d + 1)..Len(s)
  <2>1. DOMAIN s = 1..Len(s)
    BY LenProperties
  <2> QED BY <1>1, <2>1 DEF Expired
<1>3. PICK n \in Nat : n = Len(s) - d
  BY <1>1
<1>4. Cardinality((d + 1)..Len(s)) = n
  <2>1. PICK a \in Int : a = d + 1
    BY <1>1
  <2>2. PICK l \in Int : l = Len(s)
    BY <1>1
  <2>3. Cardinality(a..l) = IF a > l THEN 0 ELSE l - a + 1
    BY FS_Interval
  <2>4. (IF a > l THEN 0 ELSE l - a + 1) = n
    BY <1>1, <1>3, <2>1, <2>2
  <2> QED BY <2>1, <2>2, <2>3, <2>4
<1>5. Len(s) - AtMost(n, Len(s)) + 1 = d + 1
  <2>1. ASSUME NEW l \in Nat, NEW c \in 0..l, n = l - c PROVE l - AtMost(n, l) + 1 = c + 1
    BY <2>1 DEF AtMost
  <2> QED BY <1>1, <1>3, <2>1
<1> QED BY <1>2, <1>4, <1>5 DEF Alive, LastOf, Drops

\* What lives of a sequence's end.
LEMMA AliveDrops ==
    ASSUME NEW s \in Seq(Int), NEW d \in 0..Len(s), Expired(s, d), NEW e \in 0..Len(s)
    PROVE  Alive(Drops(s, e)) = Drops(s, IF d < e THEN e ELSE d)
<1>1. Len(s) \in Nat
  BY LenProperties
<1>2. PICK t \in Seq(Int) : t = Drops(s, e)
  BY DropsIs
<1>3. Len(t) \in Nat /\ Len(t) = Len(s) - e
      /\ \A k \in 1..(Len(s) - e) : t[k] = s[e + k] /\ e + k \in 1..Len(s)
  BY <1>2, DropsIs
<1>4. PICK b \in 0..Len(t) : b = IF d < e THEN 0 ELSE d - e
  <2>1. CASE d < e
    BY <1>1, <1>3, <2>1
  <2>2. CASE ~(d < e)
    <3>1. d - e \in 0..Len(t)
      BY <1>1, <1>3, <2>2
    <3> QED BY <2>2, <3>1
  <2> QED BY <2>1, <2>2
<1>5. Expired(t, b)
  <2>1. ASSUME NEW k \in 1..Len(t) PROVE t[k] >= 0 <=> k > b
    <3>1. t[k] = s[e + k] /\ e + k \in 1..Len(s)
      BY <1>3
    <3>2. s[e + k] >= 0 <=> e + k > d
      BY <3>1 DEF Expired
    <3> QED BY <1>1, <1>3, <1>4, <3>1, <3>2
  <2> QED BY <2>1 DEF Expired
<1>6. PICK f \in 0..Len(s) : f = e + b /\ f = IF d < e THEN e ELSE d
  BY <1>1, <1>3, <1>4
<1>7. Drops(Drops(s, e), b) = Drops(s, f)
  BY <1>3, <1>6, DropsTwice
<1> QED BY <1>2, <1>5, <1>6, <1>7, AliveIs

\* Every entry ages by a second, or has expired.
LEMMA AgesIs ==
    ASSUME NEW s \in Seq(Int)
    PROVE  /\ Ages(s) \in Seq(Int)
           /\ Len(Ages(s)) = Len(s)
           /\ \A k \in 1..Len(s) : Ages(s)[k] = IF s[k] >= 0 THEN s[k] - 1 ELSE s[k]
<1>1. Len(s) \in Nat
  BY LenProperties
<1>2. DOMAIN s = 1..Len(s)
  BY LenProperties
<1>3. \A k \in 1..Len(s) : s[k] \in Int
  BY <1>1
<1>4. Ages(s) \in [1..Len(s) -> Int]
  BY <1>2, <1>3 DEF Ages
<1>5. Ages(s) \in Seq(Int)
  BY <1>1, <1>4, SeqDef
<1>6. DOMAIN Ages(s) = 1..Len(s)
  BY <1>4
<1>7. Len(Ages(s)) = Len(s)
  BY <1>1, <1>5, <1>6, LenProperties
<1> QED BY <1>2, <1>5, <1>7 DEF Ages

\* What ages stays in order.
LEMMA AgesSorted ==
    ASSUME NEW s \in Seq(Int), Sorted(s)
    PROVE  Sorted(Ages(s))
<1>1. Len(s) \in Nat
  BY LenProperties
<1>2. \A i \in 1..Len(s) : s[i] \in Int
  BY <1>1
<1>3. ASSUME NEW i \in 1..Len(s), NEW j \in 1..Len(s), i <= j
      PROVE  Ages(s)[i] <= Ages(s)[j]
  <2>1. s[i] <= s[j] /\ s[i] \in Int /\ s[j] \in Int
    BY <1>2, <1>3 DEF Sorted
  <2>2. /\ Ages(s)[i] = IF s[i] >= 0 THEN s[i] - 1 ELSE s[i]
        /\ Ages(s)[j] = IF s[j] >= 0 THEN s[j] - 1 ELSE s[j]
    BY AgesIs
  <2> QED BY <2>1, <2>2
<1> QED BY <1>3, AgesIs DEF Sorted

LEMMA AgesDrops ==
    ASSUME NEW s \in Seq(Int), NEW d \in 0..Len(s)
    PROVE  Ages(Drops(s, d)) = Drops(Ages(s), d)
<1>1. Len(s) \in Nat
  BY LenProperties
<1>2. PICK t \in Seq(Int) : t = Drops(s, d)
  BY DropsIs
<1>3. Len(t) \in Nat /\ Len(t) = Len(s) - d
      /\ \A k \in 1..(Len(s) - d) : t[k] = s[d + k] /\ d + k \in 1..Len(s)
  BY <1>2, DropsIs
<1>4. PICK a \in Seq(Int) : a = Ages(s)
  BY AgesIs
<1>5. Len(a) = Len(s)
      /\ \A k \in 1..Len(s) : a[k] = IF s[k] >= 0 THEN s[k] - 1 ELSE s[k]
  BY <1>4, AgesIs
<1>6. /\ Drops(a, d) \in Seq(Int) /\ Len(Drops(a, d)) = Len(s) - d
      /\ \A k \in 1..(Len(s) - d) : Drops(a, d)[k] = a[d + k]
  BY <1>5, DropsIs
<1>7. /\ Ages(t) \in Seq(Int) /\ Len(Ages(t)) = Len(s) - d
      /\ \A k \in 1..(Len(s) - d) : Ages(t)[k] = IF t[k] >= 0 THEN t[k] - 1 ELSE t[k]
  BY <1>3, AgesIs
<1>8. \A k \in 1..(Len(s) - d) : Ages(t)[k] = Drops(a, d)[k]
  BY <1>3, <1>5, <1>6, <1>7
<1>9. Ages(t) = Drops(a, d)
  BY <1>6, <1>7, <1>8, SeqEqual
<1> QED BY <1>2, <1>4, <1>9

LEMMA AgesLastOf ==
    ASSUME NEW s \in Seq(Int), NEW n \in Nat
    PROVE  Ages(LastOf(s, n)) = LastOf(Ages(s), n)
<1>1. PICK d \in 0..Len(s) : d = (IF n < Len(s) THEN Len(s) - n ELSE 0)
                             /\ LastOf(s, n) = Drops(s, d)
  BY LastOfDrops
<1>2. PICK a \in Seq(Int) : a = Ages(s) /\ Len(a) = Len(s)
  BY AgesIs
<1>3. PICK e \in 0..Len(a) : e = (IF n < Len(a) THEN Len(a) - n ELSE 0)
                             /\ LastOf(a, n) = Drops(a, e)
  BY LastOfDrops
<1> QED BY <1>1, <1>2, <1>3, AgesDrops

\* To drop the expired before the others age makes no difference.
LEMMA AgesAlive ==
    ASSUME NEW s \in Seq(Int), Sorted(s)
    PROVE  Alive(Ages(s)) = Alive(Ages(Alive(s)))
<1>1. Len(s) \in Nat
  BY LenProperties
<1>2. PICK a \in Seq(Int) : a = Ages(s) /\ Len(a) = Len(s) /\ Sorted(a)
  BY AgesIs, AgesSorted
<1>3. PICK d \in 0..Len(s) : Expired(s, d)
  BY ExpiredFirst
<1>4. PICK b \in 0..Len(a) : Expired(a, b)
  BY <1>2, ExpiredFirst
<1>5. d <= b
  <2>1. SUFFICES ASSUME b < d PROVE FALSE
    BY <1>1, <1>2, <1>3, <1>4
  <2>2. d \in 1..Len(s) /\ d > b
    BY <1>1, <1>2, <2>1
  <2>3. ~(s[d] >= 0) /\ a[d] >= 0
    BY <1>2, <1>3, <1>4, <2>2 DEF Expired
  <2>4. a[d] = s[d]
    BY <1>2, <2>2, <2>3, AgesIs
  <2> QED BY <2>3, <2>4
<1>6. Alive(s) = Drops(s, d) /\ Alive(a) = Drops(a, b)
  BY <1>2, <1>3, <1>4, AliveIs
<1>7. Ages(Drops(s, d)) = Drops(a, d)
  BY <1>2, AgesDrops
<1>8. Alive(Drops(a, d)) = Drops(a, b)
  <2>1. d \in 0..Len(a) /\ (IF b < d THEN d ELSE b) = b
    BY <1>1, <1>2, <1>5
  <2> QED BY <1>4, <2>1, AliveDrops
<1> QED BY <1>2, <1>6, <1>7, <1>8

\* To keep the youngest n before the expired are dropped makes none either.
LEMMA AliveLastOf ==
    ASSUME NEW s \in Seq(Int), Sorted(s), NEW n \in Nat
    PROVE  Alive(LastOf(s, n)) = LastOf(Alive(s), n)
<1>1. Len(s) \in Nat
  BY LenProperties
<1>2. PICK d \in 0..Len(s) : Expired(s, d)
  BY ExpiredFirst
<1>3. PICK e \in 0..Len(s) : e = (IF n < Len(s) THEN Len(s) - n ELSE 0)
                             /\ LastOf(s, n) = Drops(s, e)
  BY LastOfDrops
<1>4. Alive(LastOf(s, n)) = Drops(s, IF d < e THEN e ELSE d)
  BY <1>2, <1>3, AliveDrops
<1>5. PICK t \in Seq(Int) : t = Drops(s, d) /\ Len(t) \in Nat /\ Len(t) = Len(s) - d
  BY DropsIs
<1>6. PICK f \in 0..Len(t) : f = (IF n < Len(t) THEN Len(t) - n ELSE 0)
                             /\ LastOf(t, n) = Drops(t, f)
  BY LastOfDrops
<1>7. PICK g \in 0..Len(s) : g = d + f /\ g = IF d < e THEN e ELSE d
  <2>1. d + f = IF d < e THEN e ELSE d
    BY <1>1, <1>3, <1>5, <1>6
  <2>2. d + f \in 0..Len(s)
    BY <1>1, <1>5
  <2> QED BY <2>1, <2>2
<1>8. Drops(t, f) = Drops(s, g)
  BY <1>5, <1>7, DropsTwice
<1> QED BY <1>2, <1>4, <1>5, <1>6, <1>7, <1>8, AliveIs

LEMMA LastOfTwice ==
    ASSUME NEW s \in Seq(Int), NEW n \in Nat, NEW m \in Nat, m <= n
    PROVE  LastOf(LastOf(s, n), m) = LastOf(s, m)
<1>1. Len(s) \in Nat
  BY LenProperties
<1>2. PICK d \in 0..Len(s) : d = (IF n < Len(s) THEN Len(s) - n ELSE 0)
                             /\ LastOf(s, n) = Drops(s, d)
  BY LastOfDrops
<1>3. PICK t \in Seq(Int) : t = Drops(s, d) /\ Len(t) \in Nat /\ Len(t) = Len(s) - d
  BY DropsIs
<1>4. PICK f \in 0..Len(t) : f = (IF m < Len(t) THEN Len(t) - m ELSE 0)
                             /\ LastOf(t, m) = Drops(t, f)
  BY LastOfDrops
<1>5. PICK g \in 0..Len(s) : g = (IF m < Len(s) THEN Len(s) - m ELSE 0)
                             /\ LastOf(s, m) = Drops(s, g)
  BY LastOfDrops
<1>6. g = d + f
  <2>1. CASE n < Len(s)
    <3>1. d = Len(s) - n /\ Len(t) = n /\ m < Len(s)
      BY <1>1, <1>2, <1>3, <2>1
    <3>2. g = Len(s) - m /\ f = IF m < n THEN n - m ELSE 0
      BY <1>4, <1>5, <3>1
    <3> QED BY <1>1, <3>1, <3>2
  <2>2. CASE ~(n < Len(s))
    <3>1. d = 0 /\ Len(t) = Len(s)
      BY <1>1, <1>2, <1>3, <2>2
    <3>2. f = g
      BY <1>4, <1>5, <3>1
    <3> QED BY <3>1, <3>2
  <2> QED BY <2>1, <2>2
<1>7. Drops(t, f) = Drops(s, g)
  BY <1>3, <1>6, DropsTwice
<1> QED BY <1>2, <1>3, <1>4, <1>5, <1>7

\* One more at the end makes room for one less of the rest.
LEMMA LastOfAppend ==
    ASSUME NEW s \in Seq(Int), NEW x \in Int, NEW n \in Nat, NEW m \in Nat, m = n + 1
    PROVE  LastOf(Append(s, x), m) = Append(LastOf(s, n), x)
<1>1. Len(s) \in Nat
  BY LenProperties
<1>2. PICK a \in Seq(Int) : a = Append(s, x)
  BY AppendProperties
<1>3. /\ Len(a) \in Nat /\ Len(a) = Len(s) + 1
      /\ \A k \in 1..Len(s) : a[k] = s[k]
      /\ a[Len(s) + 1] = x
  BY <1>1, <1>2, AppendProperties
<1>4. PICK d \in 0..Len(s) : d = (IF n < Len(s) THEN Len(s) - n ELSE 0)
                             /\ LastOf(s, n) = Drops(s, d)
  BY LastOfDrops
<1>5. PICK e \in 0..Len(a) : e = (IF m < Len(a) THEN Len(a) - m ELSE 0)
                             /\ LastOf(a, m) = Drops(a, e)
  BY LastOfDrops
<1>6. e = d
  BY <1>1, <1>3, <1>4, <1>5
<1>7. PICK t \in Seq(Int) : t = Drops(s, d)
  BY DropsIs
<1>8. /\ Len(t) \in Nat /\ Len(t) = Len(s) - d
      /\ \A k \in 1..(Len(s) - d) : t[k] = s[d + k] /\ d + k \in 1..Len(s)
  BY <1>7, DropsIs
<1>9. PICK b \in Seq(Int) : b = Append(t, x)
  BY AppendProperties
<1>10. /\ Len(b) = Len(t) + 1
       /\ \A k \in 1..Len(t) : b[k] = t[k]
       /\ b[Len(t) + 1] = x
  BY <1>8, <1>9, AppendProperties
<1>11. PICK c \in Seq(Int) : c = Drops(a, d)
  BY <1>5, <1>6, DropsIs
<1>12. /\ Len(c) = Len(a) - d
       /\ \A k \in 1..(Len(a) - d) : c[k] = a[d + k] /\ d + k \in 1..Len(a)
  BY <1>5, <1>6, <1>11, DropsIs
<1>13. Len(c) = Len(b) /\ Len(b) \in Nat
  BY <1>1, <1>3, <1>8, <1>10, <1>12
<1>14. ASSUME NEW k \in 1..Len(b) PROVE c[k] = b[k]
  <2>1. k \in 1..(Len(a) - d)
    BY <1>12, <1>13
  <2>2. CASE k \in 1..Len(t)
    BY <1>3, <1>8, <1>10, <1>12, <2>1, <2>2
  <2>3. CASE k = Len(t) + 1
    <3>1. d + k = Len(s) + 1
      BY <1>1, <1>8, <2>3
    <3> QED BY <1>3, <1>10, <1>12, <2>1, <2>3, <3>1
  <2> QED BY <1>8, <1>10, <2>2, <2>3
<1>15. c = b
  BY <1>13, <1>14, SeqEqual
<1> QED BY <1>2, <1>4, <1>5, <1>6, <1>7, <1>9, <1>11, <1>15
\* A sequence is one over any set that holds its entries.
LEMMA SeqOver ==
    ASSUME NEW S, NEW s \in Seq(S), NEW T, \A i \in 1..Len(s) : s[i] \in T
    PROVE  s \in Seq(T)
<1>1. Len(s) \in Nat
  BY LenProperties
<1>2. s \in [1..Len(s) -> T]
  <2>1. s \in [1..Len(s) -> S]
    BY LenProperties
  <2> QED BY <2>1
<1> QED BY <1>1, <1>2, SeqDef

LEMMA Numbers ==
    ASSUME NEW lo \in Int, NEW hi \in Int, NEW s \in Seq(lo..hi)
    PROVE  s \in Seq(Int)
<1>1. Len(s) \in Nat
  BY LenProperties
<1>2. \A i \in 1..Len(s) : s[i] \in lo..hi
  BY <1>1
<1> QED BY <1>2, SeqOver

LEMMA LastOfIs ==
    ASSUME NEW S, NEW s \in Seq(S), NEW n \in Nat
    PROVE  LastOf(s, n) \in Seq(S) /\ Len(LastOf(s, n)) <= n
<1>1. Len(s) \in Nat
  BY LenProperties
<1>2. PICK d \in 0..Len(s) : d = (IF n < Len(s) THEN Len(s) - n ELSE 0)
                             /\ LastOf(s, n) = Drops(s, d)
  BY LastOfDrops
<1>3. /\ Drops(s, d) \in Seq(S)
      /\ Len(Drops(s, d)) \in Nat /\ Len(Drops(s, d)) = Len(s) - d
  BY DropsIs
<1>4. Len(s) - d <= n
  BY <1>1, <1>2
<1> QED BY <1>2, <1>3, <1>4

LEMMA DropsSorted ==
    ASSUME NEW s \in Seq(Int), NEW d \in 0..Len(s), Sorted(s)
    PROVE  Sorted(Drops(s, d))
<1>1. Len(s) \in Nat
  BY LenProperties
<1>2. PICK t \in Seq(Int) : t = Drops(s, d)
  BY DropsIs
<1>3. Len(t) \in Nat /\ Len(t) = Len(s) - d
      /\ \A k \in 1..(Len(s) - d) : t[k] = s[d + k] /\ d + k \in 1..Len(s)
  BY <1>2, DropsIs
<1>4. ASSUME NEW i \in 1..Len(t), NEW j \in 1..Len(t), i <= j PROVE t[i] <= t[j]
  <2>1. /\ t[i] = s[d + i] /\ d + i \in 1..Len(s)
        /\ t[j] = s[d + j] /\ d + j \in 1..Len(s)
    BY <1>3
  <2>2. d + i <= d + j
    BY <1>1, <1>3, <1>4
  <2> QED BY <2>1, <2>2 DEF Sorted
<1> QED BY <1>2, <1>4 DEF Sorted

LEMMA AliveTyped ==
    ASSUME NEW hi \in Int, NEW s \in Seq(-1..hi), Sorted(s)
    PROVE  Alive(s) \in Seq(0..hi) /\ Sorted(Alive(s)) /\ Len(Alive(s)) <= Len(s)
<1>1. Len(s) \in Nat /\ s \in Seq(Int)
  BY LenProperties, Numbers
<1>2. PICK d \in 0..Len(s) : Expired(s, d) /\ Alive(s) = Drops(s, d)
  BY <1>1, ExpiredFirst, AliveIs
<1>3. /\ Drops(s, d) \in Seq(-1..hi)
      /\ Len(Drops(s, d)) \in Nat /\ Len(Drops(s, d)) = Len(s) - d
      /\ \A k \in 1..(Len(s) - d) : Drops(s, d)[k] = s[d + k] /\ d + k \in 1..Len(s)
  BY DropsIs
<1>4. ASSUME NEW k \in 1..Len(Drops(s, d)) PROVE Drops(s, d)[k] \in 0..hi
  <2>1. Drops(s, d)[k] = s[d + k] /\ d + k \in 1..Len(s)
    BY <1>3
  <2>2. s[d + k] >= 0
    BY <1>1, <1>2, <2>1 DEF Expired
  <2>3. s[d + k] \in -1..hi
    BY <2>1
  <2> QED BY <2>1, <2>2, <2>3
<1>5. Drops(s, d) \in Seq(0..hi)
  BY <1>3, <1>4, SeqOver
<1>6. Sorted(Drops(s, d))
  BY <1>1, DropsSorted
<1> QED BY <1>1, <1>2, <1>3, <1>5, <1>6

LEMMA AllAlive ==
    ASSUME NEW hi \in Int, NEW s \in Seq(0..hi)
    PROVE  Alive(s) = s
<1>1. Len(s) \in Nat
  BY LenProperties
<1>2. s \in Seq(Int)
  BY Numbers
<1>3. \A i \in 1..Len(s) : s[i] \in 0..hi
  BY <1>1
<1>4. 0 \in 0..Len(s) /\ Expired(s, 0)
  BY <1>1, <1>3 DEF Expired
<1>5. Alive(s) = Drops(s, 0)
  BY <1>2, <1>4, AliveIs
<1>6. /\ Drops(s, 0) \in Seq(Int) /\ Len(Drops(s, 0)) = Len(s) - 0
      /\ \A k \in 1..(Len(s) - 0) : Drops(s, 0)[k] = s[0 + k]
  BY <1>2, <1>4, DropsIs
<1>7. Len(Drops(s, 0)) = Len(s) /\ \A k \in 1..Len(s) : Drops(s, 0)[k] = s[k]
  BY <1>1, <1>6
<1>8. Drops(s, 0) = s
  BY <1>2, <1>6, <1>7, SeqEqual
<1> QED BY <1>5, <1>8

LEMMA AgesTyped ==
    ASSUME NEW hi \in Nat, NEW s \in Seq(-1..hi)
    PROVE  Ages(s) \in Seq(-1..hi)
<1>1. Len(s) \in Nat
  BY LenProperties
<1>2. s \in Seq(Int)
  BY Numbers
<1>3. \A i \in 1..Len(s) : s[i] \in -1..hi
  BY <1>1
<1>4. /\ Ages(s) \in Seq(Int) /\ Len(Ages(s)) = Len(s)
      /\ \A k \in 1..Len(s) : Ages(s)[k] = IF s[k] >= 0 THEN s[k] - 1 ELSE s[k]
  BY <1>2, AgesIs
<1>5. \A k \in 1..Len(Ages(s)) : Ages(s)[k] \in -1..hi
  BY <1>3, <1>4
<1> QED BY <1>4, <1>5, SeqOver

LEMMA AppendSorted ==
    ASSUME NEW hi \in Int, NEW s \in Seq(0..hi), Sorted(s)
    PROVE  Sorted(Append(s, hi))
<1>1. Len(s) \in Nat
  BY LenProperties
<1>2. \A i \in 1..Len(s) : s[i] \in 0..hi
  BY <1>1
<1>3. PICK a : a = Append(s, hi)
  OBVIOUS
<1>4. s \in Seq(Int)
  BY Numbers
<1>5. /\ Len(a) = Len(s) + 1
      /\ \A k \in 1..Len(s) : a[k] = s[k]
      /\ a[Len(s) + 1] = hi
  BY <1>3, <1>4, AppendProperties
<1>6. ASSUME NEW i \in 1..Len(a), NEW j \in 1..Len(a), i <= j PROVE a[i] <= a[j]
  <2>1. CASE j \in 1..Len(s)
    <3>1. i \in 1..Len(s)
      BY <1>1, <1>6, <2>1
    <3> QED BY <1>5, <1>6, <2>1, <3>1 DEF Sorted
  <2>2. CASE j = Len(s) + 1 /\ i \in 1..Len(s)
    BY <1>2, <1>5, <2>2
  <2>3. CASE j = Len(s) + 1 /\ i = Len(s) + 1
    BY <1>5, <2>3
  <2> QED BY <1>1, <1>5, <2>1, <2>2, <2>3
<1> QED BY <1>3, <1>6 DEF Sorted

\* An expired session is taken out of the table.
TakenOut(s, i) == SubSeq(s, 1, i - 1) \o SubSeq(s, i + 1, Len(s))

LEMMA TakenOutIs ==
    ASSUME NEW S, NEW s \in Seq(S), NEW i \in 1..Len(s)
    PROVE  /\ TakenOut(s, i) \in Seq(S)
           /\ Len(TakenOut(s, i)) \in Nat /\ Len(TakenOut(s, i)) = Len(s) - 1
           /\ \A k \in 1..(Len(s) - 1) :
                /\ k < i => TakenOut(s, i)[k] = s[k]
                /\ k >= i => TakenOut(s, i)[k] = s[k + 1]
<1>1. Len(s) \in Nat
  BY LenProperties
<1>2. PICK h \in 0..Len(s) : h = i - 1
  BY <1>1
<1>3. \A k \in 1..h : s[k] \in S
  BY <1>1
<1>4. /\ SubSeq(s, 1, h) \in Seq(S)
      /\ Len(SubSeq(s, 1, h)) = IF 1 <= h THEN h - 1 + 1 ELSE 0
      /\ \A k \in 1..(h - 1 + 1) : SubSeq(s, 1, h)[k] = s[1 + k - 1]
  <2>1. PICK o \in 1..(Len(s) + 1) : o = 1
    BY <1>1
  <2>2. \A k \in o..h : s[k] \in S
    BY <1>3, <2>1
  <2>3. /\ SubSeq(s, o, h) \in Seq(S)
        /\ Len(SubSeq(s, o, h)) = IF o <= h THEN h - o + 1 ELSE 0
        /\ \A k \in 1..(h - o + 1) : SubSeq(s, o, h)[k] = s[o + k - 1]
    BY <1>1, <2>2, SubSeqProperties
  <2> QED BY <2>1, <2>3
<1>5. PICK a \in Seq(S) :
        a = SubSeq(s, 1, h) /\ Len(a) = h /\ \A k \in 1..h : a[k] = s[k]
  <2>1. Len(SubSeq(s, 1, h)) = h
    BY <1>1, <1>4
  <2>2. ASSUME NEW k \in 1..h PROVE SubSeq(s, 1, h)[k] = s[k]
    <3>1. k \in 1..(h - 1 + 1) /\ 1 + k - 1 = k
      BY <1>1
    <3> QED BY <1>4, <3>1
  <2> QED BY <1>4, <2>1, <2>2
<1>6. PICK b \in Seq(S) : b = Drops(s, i)
  BY <1>1, DropsIs
<1>7. Len(b) \in Nat /\ Len(b) = Len(s) - i
      /\ \A k \in 1..(Len(s) - i) : b[k] = s[i + k] /\ i + k \in 1..Len(s)
  BY <1>1, <1>6, DropsIs
<1>8. PICK t \in Seq(S) : t = a \o b
  BY ConcatProperties
<1>9. /\ Len(t) = Len(a) + Len(b)
      /\ \A k \in 1..(Len(a) + Len(b)) :
           t[k] = IF k <= Len(a) THEN a[k] ELSE b[k - Len(a)]
  BY <1>8, ConcatProperties
<1>10. TakenOut(s, i) = t
  BY <1>2, <1>5, <1>6, <1>8 DEF TakenOut, Drops
<1>11. Len(t) = Len(s) - 1 /\ Len(t) \in Nat
  BY <1>1, <1>2, <1>5, <1>7, <1>9
<1>12. ASSUME NEW k \in 1..(Len(s) - 1), k < i PROVE t[k] = s[k]
  <2>1. k \in 1..(Len(a) + Len(b)) /\ k <= Len(a) /\ k \in 1..h
    BY <1>1, <1>2, <1>5, <1>7, <1>12
  <2> QED BY <1>5, <1>9, <2>1
<1>13. ASSUME NEW k \in 1..(Len(s) - 1), k >= i PROVE t[k] = s[k + 1]
  <2>1. /\ k \in 1..(Len(a) + Len(b)) /\ ~(k <= Len(a))
        /\ k - Len(a) \in 1..(Len(s) - i) /\ i + (k - Len(a)) = k + 1
    BY <1>1, <1>2, <1>5, <1>7, <1>13
  <2> QED BY <1>7, <1>9, <2>1
<1> QED BY <1>10, <1>11, <1>12, <1>13

LEMMA TakenOutKeeps ==
    ASSUME NEW s \in Seq(Int), Sorted(s), NEW i \in 1..Len(s), s[i] < 0
    PROVE  Sorted(TakenOut(s, i)) /\ Alive(TakenOut(s, i)) = Alive(s)
<1>1. Len(s) \in Nat
  BY LenProperties
<1>2. PICK t \in Seq(Int) : t = TakenOut(s, i)
  BY TakenOutIs
<1>3. Len(t) \in Nat /\ Len(t) = Len(s) - 1
      /\ \A k \in 1..(Len(s) - 1) : (k < i => t[k] = s[k]) /\ (k >= i => t[k] = s[k + 1])
  BY <1>2, TakenOutIs
<1>4. Sorted(t)
  <2>1. ASSUME NEW j \in 1..Len(t), NEW k \in 1..Len(t), j <= k PROVE t[j] <= t[k]
    <3>1. j \in 1..(Len(s) - 1) /\ k \in 1..(Len(s) - 1) /\ j \in 1..Len(s)
          /\ k \in 1..Len(s) /\ j + 1 \in 1..Len(s) /\ k + 1 \in 1..Len(s)
      BY <1>1, <1>3
    <3>2. CASE k < i
      <4>1. t[j] = s[j] /\ t[k] = s[k]
        BY <1>3, <2>1, <3>1, <3>2
      <4> QED BY <2>1, <3>1, <4>1 DEF Sorted
    <3>3. CASE j >= i
      <4>1. t[j] = s[j + 1] /\ t[k] = s[k + 1] /\ j + 1 <= k + 1
        <5>1. k >= i
          BY <2>1, <3>1, <3>3
        <5>2. t[j] = s[j + 1]
          BY <1>3, <3>1, <3>3
        <5>3. t[k] = s[k + 1]
          BY <1>3, <3>1, <5>1
        <5>4. j + 1 <= k + 1
          BY <2>1, <3>1
        <5> QED BY <5>2, <5>3, <5>4
      <4> QED BY <3>1, <4>1 DEF Sorted
    <3>4. CASE j < i /\ k >= i
      <4>1. t[j] = s[j] /\ t[k] = s[k + 1] /\ j <= k + 1
        BY <1>3, <2>1, <3>1, <3>4
      <4> QED BY <3>1, <4>1 DEF Sorted
    <3> QED BY <3>1, <3>2, <3>3, <3>4
  <2> QED BY <2>1 DEF Sorted
<1>5. PICK d \in 0..Len(s) : Expired(s, d)
  BY ExpiredFirst
<1>6. i <= d /\ s[i] \in Int
  BY <1>1, <1>5 DEF Expired
<1>7. PICK e \in 0..Len(t) : e = d - 1
  BY <1>1, <1>3, <1>6
<1>8. ASSUME NEW k \in 1..Len(t) PROVE t[k] >= 0 <=> k > e
  <2>1. CASE k < i
    <3>1. t[k] = s[k] /\ k \in 1..Len(s) /\ ~(k > d) /\ ~(k > e)
      BY <1>1, <1>3, <1>6, <1>7, <2>1
    <3> QED BY <1>5, <3>1 DEF Expired
  <2>2. CASE k >= i
    <3>1. t[k] = s[k + 1] /\ k + 1 \in 1..Len(s) /\ (k + 1 > d <=> k > e)
      BY <1>1, <1>3, <1>7, <2>2
    <3> QED BY <1>5, <3>1 DEF Expired
  <2> QED BY <1>1, <1>3, <2>1, <2>2
<1>9. Expired(t, e)
  BY <1>8 DEF Expired
<1>10. PICK a \in Seq(Int) : a = Drops(s, d)
  BY DropsIs
<1>11. Len(a) = Len(s) - d /\ \A k \in 1..(Len(s) - d) : a[k] = s[d + k]
  BY <1>10, DropsIs
<1>12. PICK b \in Seq(Int) : b = Drops(t, e)
  BY DropsIs
<1>13. Len(b) = Len(t) - e
       /\ \A k \in 1..(Len(t) - e) : b[k] = t[e + k] /\ e + k \in 1..Len(t)
  BY <1>12, DropsIs
<1>14. Len(a) = Len(b)
  BY <1>1, <1>3, <1>7, <1>11, <1>13
<1>15. ASSUME NEW k \in 1..Len(b) PROVE b[k] = a[k]
  <2>1. /\ k \in 1..(Len(t) - e) /\ k \in 1..(Len(s) - d)
        /\ e + k \in 1..(Len(s) - 1) /\ e + k >= i /\ (e + k) + 1 = d + k
    BY <1>1, <1>3, <1>6, <1>7, <1>11, <1>13, <1>14
  <2> QED BY <1>3, <1>11, <1>13, <2>1
<1>16. a = b
  BY <1>14, <1>15, SeqEqual
<1> QED BY <1>2, <1>4, <1>5, <1>9, <1>10, <1>12, <1>16, AliveIs

\* A power of two is the number of subsets of a set.
LEMMA PowersAreNatural == ASSUME NEW n \in Nat PROVE 2^n \in Nat
<1>1. IsFiniteSet(1..n) /\ Cardinality(1..n) = n
  BY FS_Interval
<1>2. IsFiniteSet(SUBSET (1..n)) /\ Cardinality(SUBSET (1..n)) = 2^n
  BY <1>1, FS_SUBSET
<1> QED BY <1>2, FS_CardinalityType

-----------------------------------------------------------------------------
(* The table of sessions                                                   *)

\* All sessions live as long, so both lists are in the order in which they expire: that
\* is what lets Alive and MakesRoom drop from the front.
TableInv ==
    /\ sessions \in Seq(-1..TTL) /\ Len(sessions) <= MaxSessions /\ Sorted(sessions)
    /\ minted \in Seq(0..TTL) /\ Sorted(minted)
    /\ YoungestInForce

LEMMA EmptyTable ==
    /\ <<>> \in Seq(-1..TTL) /\ Len(<<>>) <= MaxSessions /\ Sorted(<<>>)
    /\ <<>> \in Seq(0..TTL)
    /\ Alive(<<>>) = LastOf(<<>>, MaxSessions)
<1> USE SessionsAssumption
<1>1. <<>> \in Seq(-1..TTL) /\ <<>> \in Seq(0..TTL) /\ Len(<<>>) = 0
  BY EmptySeq
<1>2. Sorted(<<>>)
  BY <1>1 DEF Sorted
<1>3. LastOf(<<>>, MaxSessions) = <<>>
  <2>1. PICK s \in Seq(0..TTL) : s = <<>> /\ Len(s) = 0
    BY <1>1
  <2>2. PICK d \in 0..Len(s) : LastOf(s, MaxSessions) = Drops(s, d)
    BY LastOfDrops
  <2>3. d = 0
    BY <2>1
  <2>4. Drops(s, d) \in Seq(0..TTL) /\ Len(Drops(s, d)) = Len(s) - d
    BY DropsIs
  <2>5. Len(Drops(s, d)) = 0
    BY <2>1, <2>3, <2>4
  <2>6. Drops(s, d) = <<>>
    BY <2>4, <2>5, EmptySeq
  <2> QED BY <2>1, <2>2, <2>6
<1>4. Alive(<<>>) = <<>>
  <2>1. PICK s \in Seq(0..TTL) : s = <<>>
    BY <1>1
  <2>2. Alive(s) = s
    BY AllAlive
  <2> QED BY <2>1, <2>2
<1> QED BY <1>1, <1>2, <1>3, <1>4

LEMMA MintKeepsTable ==
    ASSUME TableInv, NEW r \in Requests, Mint(r)
    PROVE  TableInv'
<1> USE SessionsAssumption
<1>1. TTL \in 0..TTL /\ MaxSessions - 1 \in Nat /\ MaxSessions - 1 <= MaxSessions
  OBVIOUS
<1>2. PICK m \in Nat : m = MaxSessions - 1 /\ MaxSessions = m + 1 /\ m <= MaxSessions
  BY <1>1
<1>3. minted \in Seq(Int)
  BY Numbers DEF TableInv
<1>4. LastOf(minted, m) \in Seq(0..TTL) /\ Len(LastOf(minted, m)) <= m
  BY LastOfIs DEF TableInv
<1>5. Append(LastOf(minted, m), TTL) = LastOf(Append(minted, TTL), MaxSessions)
  BY <1>2, <1>3, LastOfAppend
<1>6. sessions' = Append(LastOf(minted, m), TTL)
  <2>1. LastOf(LastOf(minted, MaxSessions), m) = LastOf(minted, m)
    BY <1>2, <1>3, LastOfTwice
  <2> QED BY <1>2, <2>1 DEF Mint, MakesRoom, TableInv, YoungestInForce
<1>7. minted' = Append(minted, TTL)
  BY DEF Mint
<1>8. minted' \in Seq(0..TTL) /\ Sorted(minted')
  BY <1>1, <1>7, AppendProperties, AppendSorted DEF TableInv
<1>9. sessions' \in Seq(0..TTL) /\ Len(sessions') <= MaxSessions
  <2>1. /\ Append(LastOf(minted, m), TTL) \in Seq(0..TTL)
        /\ Len(Append(LastOf(minted, m), TTL)) = Len(LastOf(minted, m)) + 1
    BY <1>1, <1>4, AppendProperties
  <2>2. Len(LastOf(minted, m)) \in Nat
    BY <1>4, LenProperties
  <2> QED BY <1>2, <1>4, <1>6, <2>1, <2>2
<1>10. Sorted(sessions')
  <2>1. Sorted(LastOf(minted, m))
    <3>1. PICK d \in 0..Len(minted) : LastOf(minted, m) = Drops(minted, d)
      BY <1>3, LastOfDrops
    <3> QED BY <1>3, <3>1, DropsSorted DEF TableInv
  <2> QED BY <1>4, <1>6, <2>1, AppendSorted
<1>11. sessions' \in Seq(-1..TTL)
  <2>1. Len(sessions') \in Nat /\ \A i \in 1..Len(sessions') : sessions'[i] \in -1..TTL
    <3>1. Len(sessions') \in Nat /\ \A i \in 1..Len(sessions') : sessions'[i] \in 0..TTL
      BY <1>9, LenProperties
    <3> QED BY <3>1
  <2> QED BY <1>9, <2>1, SeqOver
<1>12. Alive(sessions') = LastOf(minted', MaxSessions)
  BY <1>5, <1>6, <1>7, <1>9, AllAlive
<1> QED BY <1>8, <1>9, <1>10, <1>11, <1>12 DEF TableInv, YoungestInForce

LEMMA TickKeepsTable ==
    ASSUME TableInv, Tick
    PROVE  TableInv'
<1> USE SessionsAssumption
<1>1. /\ sessions \in Seq(Int) /\ minted \in Seq(Int) /\ Sorted(sessions) /\ Sorted(minted)
      /\ minted \in Seq(-1..TTL)
  <2>1. Len(minted) \in Nat /\ \A i \in 1..Len(minted) : minted[i] \in 0..TTL
    BY LenProperties DEF TableInv
  <2>2. \A i \in 1..Len(minted) : minted[i] \in -1..TTL
    BY <2>1
  <2> QED BY <2>2, Numbers, SeqOver DEF TableInv
<1>2. PICK a \in Seq(Int) : a = Ages(minted) /\ a \in Seq(-1..TTL) /\ Sorted(a)
  BY <1>1, AgesIs, AgesTyped, AgesSorted
<1>3. Alive(a) \in Seq(0..TTL) /\ Sorted(Alive(a))
  BY <1>2, AliveTyped
<1>4. minted' = Alive(a) /\ sessions' = Ages(sessions)
  BY <1>2 DEF Tick
<1>5. Ages(sessions) \in Seq(-1..TTL) /\ Sorted(Ages(sessions))
      /\ Len(Ages(sessions)) = Len(sessions)
  BY <1>1, AgesIs, AgesTyped, AgesSorted DEF TableInv
<1>6. Alive(Ages(sessions)) = LastOf(Alive(a), MaxSessions)
  <2>1. Alive(Ages(sessions)) = Alive(Ages(Alive(sessions)))
    BY <1>1, AgesAlive
  <2>2. Alive(sessions) = LastOf(minted, MaxSessions)
    BY DEF TableInv, YoungestInForce
  <2>3. Ages(LastOf(minted, MaxSessions)) = LastOf(a, MaxSessions)
    BY <1>1, <1>2, AgesLastOf
  <2>4. Alive(LastOf(a, MaxSessions)) = LastOf(Alive(a), MaxSessions)
    BY <1>2, AliveLastOf
  <2> QED BY <2>1, <2>2, <2>3, <2>4
<1> QED BY <1>3, <1>4, <1>5, <1>6 DEF TableInv, YoungestInForce

\* The table after a request with an expired session is the same, but for that one.
LEMMA PostKeepsTable ==
    ASSUME TableInv, NEW r \in Requests, NEW i \in DOMAIN sessions, PostSession(r, i)
    PROVE  TableInv'
<1> USE SessionsAssumption
<1>1. UNCHANGED minted
  BY DEF PostSession
<1>2. CASE sessions[i] >= 0
  BY <1>1, <1>2 DEF PostSession, TableInv, YoungestInForce
<1>3. CASE ~(sessions[i] >= 0)
  <2>1. sessions' = TakenOut(sessions, i)
    BY <1>3 DEF PostSession, TakenOut
  <2>2. sessions \in Seq(Int) /\ Len(sessions) \in Nat
    BY LenProperties, Numbers DEF TableInv
  <2>3. i \in 1..Len(sessions)
    BY LenProperties DEF TableInv
  <2>4. sessions[i] < 0
    BY <1>3, <2>2, <2>3
  <2>5. /\ TakenOut(sessions, i) \in Seq(-1..TTL)
        /\ Len(TakenOut(sessions, i)) = Len(sessions) - 1
    BY <2>3, TakenOutIs DEF TableInv
  <2>6. Sorted(TakenOut(sessions, i)) /\ Alive(TakenOut(sessions, i)) = Alive(sessions)
    BY <2>2, <2>3, <2>4, TakenOutKeeps DEF TableInv
  <2>7. Len(sessions) - 1 <= MaxSessions
    BY <2>2 DEF TableInv
  <2> QED BY <1>1, <2>1, <2>5, <2>6, <2>7 DEF TableInv, YoungestInForce
<1> QED BY <1>2, <1>3

LEMMA TableInductive == TableInv /\ [Next]_vars => TableInv'
<1> SUFFICES ASSUME TableInv, [Next]_vars PROVE TableInv'
  OBVIOUS
<1>1. ASSUME UNCHANGED <<sessions, minted>> PROVE TableInv'
  BY <1>1 DEF TableInv, YoungestInForce
<1>2. ASSUME NEW r \in Requests, Arrives(r) PROVE TableInv'
  <2>1. CASE \E i \in DOMAIN sessions : PostSession(r, i)
    BY <2>1, PostKeepsTable
  <2>2. CASE PostOpen(r) \/ PostPin(r) \/ Unlock(r) \/ PostLayout(r)
    BY <1>1, <2>2 DEF PostOpen, PostPin, Unlock, PostLayout, gateVars
  <2> QED BY <1>2, <2>1, <2>2 DEF Arrives
<1>3. ASSUME sessions' = <<>>, minted' = <<>> PROVE TableInv'
  BY <1>3, EmptyTable DEF TableInv, YoungestInForce
<1>4. ASSUME NEW r \in Requests, Proceeds(r) PROVE TableInv'
  <2>1. CASE Mint(r)
    BY <2>1, MintKeepsTable
  <2>2. CASE Revoke(r)
    BY <1>3, <2>2 DEF Revoke
  <2>3. CASE ~Mint(r) /\ ~Revoke(r)
    BY <1>1, <1>4, <2>3 DEF Proceeds, CheckRefuses, CheckBegins, VerifyFails, VerifyMatches,
       UpgradeBegins, UpgradeEnds, WriteBegins, WriteEnds, WriteFails, gateVars
  <2> QED BY <2>1, <2>2, <2>3
<1>5. CASE Tick
  BY <1>5, TickKeepsTable
<1>6. CASE Crash
  BY <1>3, <1>6 DEF Crash
<1>7. CASE UNCHANGED vars
  BY <1>1, <1>7 DEF vars, gateVars
<1> QED BY <1>2, <1>4, <1>5, <1>6, <1>7 DEF Next

\* The lockout and the time since the last failure count within their range.
Counted == locked \in 0..MaxLockout /\ since \in 0..MaxLockout

LEMMA LockTimeBound ==
    ASSUME NEW n \in Nat
    PROVE  LockTime(n) \in 0..MaxLockout
<1> USE LockoutAssumption
<1>1. CASE n < LockAfter
  BY <1>1 DEF LockTime
<1>2. CASE ~(n < LockAfter)
  <2>1. PICK k \in Nat : k = AtMost(n - LockAfter, MaxShift)
    BY <1>2 DEF AtMost
  <2>2. 2^k \in Nat
    BY PowersAreNatural
  <2>3. LockTime(n) = AtMost(2^k, MaxLockout)
    BY <1>2, <2>1 DEF LockTime
  <2> QED BY <2>2, <2>3 DEF AtMost
<1> QED BY <1>1, <1>2

LEMMA CountedInductive == SettingsInv /\ Counted /\ [Next]_vars => Counted'
<1> SUFFICES ASSUME SettingsInv, Counted, [Next]_vars PROVE Counted'
  OBVIOUS
<1> USE LockoutAssumption
<1>1. ASSUME UNCHANGED <<locked, since>> PROVE Counted'
  BY <1>1 DEF Counted
<1>2. ASSUME NEW r \in Requests, Arrives(r) PROVE Counted'
  BY <1>1, <1>2 DEF Arrives, PostOpen, PostPin, Unlock, PostLayout, PostSession, gateVars
<1>3. ASSUME NEW r \in Requests, Proceeds(r) PROVE Counted'
  <2>1. CASE VerifyFails(r)
    <3>1. PICK n \in Nat : n = AtMost(fails + 1, MaxFails) /\ fails' = n
      BY <2>1 DEF VerifyFails, SettingsInv, Typed, AtMost
    <3>2. locked' = IF n < LockAfter THEN locked ELSE LockTime(n)
      BY <2>1, <3>1 DEF VerifyFails
    <3>3. since' = 0
      BY <2>1 DEF VerifyFails
    <3>4. LockTime(n) \in 0..MaxLockout
      BY LockTimeBound
    <3> QED BY <3>2, <3>3, <3>4 DEF Counted
  <2>2. CASE VerifyMatches(r)
    BY <2>2 DEF VerifyMatches, Counted
  <2>3. CASE ~VerifyFails(r) /\ ~VerifyMatches(r)
    BY <1>1, <1>3, <2>3 DEF Proceeds, CheckRefuses, CheckBegins, Mint, Revoke,
       UpgradeBegins, UpgradeEnds, WriteBegins, WriteEnds, WriteFails, gateVars
  <2> QED BY <2>1, <2>2, <2>3
<1>4. CASE Tick
  BY <1>4 DEF Tick, Counted, AtMost
<1>5. CASE Crash
  BY <1>5 DEF Crash, Counted
<1>6. CASE UNCHANGED vars
  BY <1>1, <1>6 DEF vars, gateVars
<1> QED BY <1>2, <1>3, <1>4, <1>5, <1>6 DEF Next

LEMMA TableHolds == Spec => []TableInv
<1>1. Init => TableInv
  BY EmptyTable DEF Init, TableInv, YoungestInForce
<1> QED BY <1>1, TableInductive, PTL DEF Spec

LEMMA CountedHolds == Spec => []Counted
<1>1. Init => Counted
  BY LockoutAssumption DEF Init, Counted
<1> QED BY <1>1, SettingsInvHolds, CountedInductive, PTL DEF Spec

-----------------------------------------------------------------------------
(* The refinement of AtomicSettings                                        *)

StoredNow ==
    [k \in Keys \cup {"layout"} |-> IF k = "layout" THEN layout ELSE file.set[k]]
WantedNow == [r \in Requests |-> req[r].in]

LEMMA AtomicRefinesInit == Init => Atomic!AtomicInit
BY IdleTyped DEF Init, Atomic!AtomicInit, Atomic!NoChange, NoChange

\* What a step does to the wishes, when it concerns one request only.
LEMMA OneWish ==
    ASSUME Typed, Typed', NEW r \in Requests,
           \A o \in Requests : o # r => req'[o] = req[o]
    PROVE  WantedNow' = [WantedNow EXCEPT ![r] = req'[r].in]
BY DEF WantedNow, Typed

LEMMA ArrivalRefines ==
    ASSUME SettingsInv, SettingsInv', NEW r \in Requests, Arrives(r)
    PROVE  [Atomic!AtomicNext]_<<StoredNow, WantedNow>>
<1>1. UNCHANGED StoredNow
  BY DEF Arrives, PostOpen, PostPin, PostLayout, Unlock, PostSession, StoredNow
<1>2. /\ \A o \in Requests : o # r => req'[o] = req[o]
      /\ req[r].in = NoChange
      /\ req'[r].in = NoChange \/ req'[r].in \in SettingChanges \cup LayoutChanges
  <2>1. req \in [Requests -> ReqRecords] /\ req' \in [Requests -> ReqRecords]
    BY DEF SettingsInv, Typed
  <2>2. req[r] = Idle
    BY DEF Arrives, PostOpen, PostPin, PostLayout, Unlock, PostSession
  <2>3. req'[r].in \in Asked
    BY <2>1 DEF ReqRecords
  <2>4. \A o \in Requests : o # r => req'[o] = req[o]
    BY <2>1 DEF Arrives, PostOpen, PostPin, PostLayout, Unlock, PostSession
  <2> QED BY <2>2, <2>3, <2>4, IdleTyped DEF Asked
<1>3. WantedNow' = [WantedNow EXCEPT ![r] = req'[r].in] /\ WantedNow[r] = NoChange
  BY <1>2, OneWish DEF SettingsInv, WantedNow
<1>4. CASE req'[r].in = NoChange
  BY <1>1, <1>3, <1>4 DEF WantedNow
<1>5. CASE req'[r].in \in SettingChanges \cup LayoutChanges
  <2>1. Atomic!Ask(r)
    BY <1>1, <1>3, <1>5 DEF Atomic!Ask, Atomic!NoChange, NoChange, StoredNow, WantedNow
  <2> QED BY <2>1 DEF Atomic!AtomicNext
<1> QED BY <1>2, <1>4, <1>5

\* A write that ends is an Apply; a replaced hash changes nothing of what is stored.
LEMMA StepRefines ==
    ASSUME SettingsInv, SettingsInv', NEW r \in Requests, Proceeds(r)
    PROVE  [Atomic!AtomicNext]_<<StoredNow, WantedNow>>
<1> USE DEF SettingsInv
<1>1. req \in [Requests -> ReqRecords] /\ req[r] \in ReqRecords
  BY DEF Typed
<1>2. \A o \in Requests : o # r => req'[o] = req[o]
  BY <1>1 DEF Proceeds, CheckRefuses, CheckBegins, VerifyFails, VerifyMatches, UpgradeBegins,
              UpgradeEnds, WriteBegins, WriteEnds, WriteFails, Revoke, Mint, Passes, Goes, Ends
<1>3. WantedNow' = [WantedNow EXCEPT ![r] = req'[r].in]
  BY <1>2, OneWish
<1>4. ASSUME UNCHANGED StoredNow, req'[r].in \in {req[r].in, NoChange}
      PROVE  [Atomic!AtomicNext]_<<StoredNow, WantedNow>>
  <2>1. CASE req'[r].in = req[r].in
    BY <1>3, <1>4, <2>1 DEF WantedNow
  <2>2. CASE req'[r].in = NoChange
    <3>1. Atomic!GiveUp(r)
      BY <1>3, <1>4, <2>2 DEF Atomic!GiveUp, Atomic!NoChange, NoChange, StoredNow, WantedNow
    <3> QED BY <3>1 DEF Atomic!AtomicNext
  <2> QED BY <1>4, <2>1, <2>2
<1>5. CASE WriteEnds(r)
  <2>1. req[r].in \in Asked /\ req[r].copy = file /\ file \in Files
    BY <1>1, <1>5 DEF WriteEnds, ReqRecords, CopiesFresh, Typed
  <2>2. req'[r].in = NoChange
    BY <1>1, <1>5, IdleTyped DEF WriteEnds
  <2>3. StoredNow' = Merge(req[r].in, StoredNow)
    <3>1. CASE "layout" \in DOMAIN req[r].in
      <4>1. DOMAIN req[r].in = {"layout"} /\ layout' = req[r].in["layout"] /\ file' = file
        BY <1>5, <2>1, <3>1, LayoutAsked DEF WriteEnds
      <4> QED BY <4>1 DEF StoredNow, Merge
    <3>2. CASE "layout" \notin DOMAIN req[r].in
      <4>1. layout' = layout /\ file'.set = Merge(req[r].in, file.set)
        BY <1>5, <2>1, <3>2 DEF WriteEnds
      <4>2. DOMAIN file.set = Keys /\ "layout" \notin Keys
        BY <2>1, ChangesAssumption DEF Files, Keys
      <4> QED BY <3>2, <4>1, <4>2 DEF StoredNow, Merge
    <3> QED BY <3>1, <3>2
  <2>4. Atomic!Apply(r)
    BY <1>3, <2>2, <2>3 DEF Atomic!Apply, Atomic!Merge, Atomic!NoChange, NoChange, Merge,
                            StoredNow, WantedNow
  <2> QED BY <2>4 DEF Atomic!AtomicNext
<1>6. CASE UpgradeEnds(r)
  <2>1. req[r].copy = file /\ Matches(r) /\ file \in Files
    BY <1>6 DEF UpgradeEnds, CopiesFresh, Typed
  <2>2. layout' = layout /\ file'.set = file.set
    BY <1>6, <2>1, RehashedSame DEF UpgradeEnds
  <2>3. UNCHANGED StoredNow
    BY <2>2 DEF StoredNow
  <2>4. req'[r].in = req[r].in
    BY <1>6, PassesAt DEF UpgradeEnds
  <2> QED BY <1>4, <2>3, <2>4
<1>7. ASSUME ~WriteEnds(r), ~UpgradeEnds(r)
      PROVE  UNCHANGED <<file, layout>> /\ req'[r].in \in {req[r].in, NoChange}
  <2>1. CASE CheckRefuses(r) \/ VerifyFails(r) \/ WriteFails(r) \/ Mint(r)
    BY <1>1, <2>1, IdleTyped DEF CheckRefuses, VerifyFails, WriteFails, Mint, Ends
  <2>2. CASE CheckBegins(r) \/ WriteBegins(r) \/ Revoke(r)
    BY <1>1, <2>2 DEF CheckBegins, WriteBegins, Revoke, Goes, ReqRecords
  <2>3. CASE VerifyMatches(r)
    BY <1>1, <2>3, PassesAt DEF VerifyMatches, Goes, ReqRecords
  <2>4. CASE UpgradeBegins(r)
    BY <1>1, <2>4, PassesAt DEF UpgradeBegins, ReqRecords
  <2> QED BY <1>7, <2>1, <2>2, <2>3, <2>4 DEF Proceeds
<1>8. CASE ~WriteEnds(r) /\ ~UpgradeEnds(r)
  <2>1. UNCHANGED StoredNow
    BY <1>7, <1>8 DEF StoredNow
  <2> QED BY <1>4, <1>7, <1>8, <2>1
<1> QED BY <1>5, <1>6, <1>8

LEMMA AtomicRefinesNext ==
    SettingsInv /\ SettingsInv' /\ [Next]_vars => [Atomic!AtomicNext]_<<StoredNow, WantedNow>>
<1> SUFFICES ASSUME SettingsInv, SettingsInv', [Next]_vars
             PROVE  [Atomic!AtomicNext]_<<StoredNow, WantedNow>>
  OBVIOUS
<1>1. CASE Tick \/ UNCHANGED vars
  BY <1>1 DEF Tick, vars, StoredNow, WantedNow
<1>2. CASE Crash
  <2>1. Atomic!Restart
    BY <1>2, IdleTyped DEF Crash, Atomic!Restart, Atomic!NoChange, NoChange
  <2> QED BY <2>1 DEF Atomic!AtomicNext
<1> QED BY <1>1, <1>2, ArrivalRefines, StepRefines DEF Next

-----------------------------------------------------------------------------
(* Theorems                                                                *)

\* No PIN is evaluated before the lockout has passed that the failures so far require,
\* however many requests come at once and whenever their checks begin and end.
THEOREM AttemptsAreSpaced == Spec => AttemptsSpaced
<1>1. SettingsInv /\ [Next]_vars =>
        [\A r \in Requests :
           VerifyFails(r) \/ VerifyMatches(r) => since >= RequiredWait(fails)]_vars
  <2> SUFFICES ASSUME SettingsInv, NEW r \in Requests, VerifyFails(r) \/ VerifyMatches(r)
               PROVE  since >= RequiredWait(fails)
    OBVIOUS
  <2>1. req[r].at = "verify"
    BY DEF VerifyFails, VerifyMatches
  <2> QED BY <2>1 DEF SettingsInv, Spaced, Typed
<1> QED BY <1>1, SettingsInvHolds, PTL DEF Spec, AttemptsSpaced

\* The gate's state keeps its types: no request is anywhere but where its handler can be,
\* the table of sessions never exceeds its limit, and the lockout never its longest time.
THEOREM SettingsTypesHold == Spec => []TypeOK
<1>1. SettingsInv /\ TableInv /\ Counted => TypeOK
  <2> SUFFICES ASSUME SettingsInv, TableInv, Counted PROVE TypeOK
    OBVIOUS
  <2>1. \A r \in Requests :
          /\ req[r].at \in {"idle", "check", "verify", "upgrade", "rehash", "want",
                            "write", "revoke", "mint"}
          /\ req[r].in \in {NoChange} \cup SettingChanges \cup LayoutChanges
          /\ req[r].guess \in Pins \cup {NoPin}
    BY DEF SettingsInv, Typed, ReqRecords, Asked
  <2> QED BY <2>1 DEF TypeOK, SettingsInv, Typed, TableInv, Counted, Files
<1> QED BY <1>1, SettingsInvHolds, TableHolds, CountedHolds, PTL

\* The sessions in force are the youngest that were given out and live on, as many as the
\* table holds, for any lifetime and any size of the table: an expired session is never
\* valid again, and a live one goes only for MaxSessions younger ones, a revocation or a
\* restart.
THEOREM YoungestSessionsHold == Spec => []YoungestInForce
<1>1. TableInv => YoungestInForce
  BY DEF TableInv
<1> QED BY <1>1, TableHolds, PTL

\* Every request changes its keys of the files at one instant, all or none, and no other:
\* for any number of requests, with failed writes, crashes, and hashes replaced on the way.
THEOREM SettingsAreAtomic == Spec => ImplementsAtomic
<1>1. SettingsInv /\ [Next]_vars =>
        SettingsInv' /\ [Atomic!AtomicNext]_<<StoredNow, WantedNow>>
  BY SettingsInductive, AtomicRefinesNext
<1> QED BY <1>1, SettingsInit, AtomicRefinesInit, PTL
        DEF Spec, ImplementsAtomic, Atomic!AtomicSpec, StoredNow, WantedNow

-----------------------------------------------------------------------------
(* The two locks                                                           *)

\* A lock that is held is held by a request between the places where it takes it and
\* where it returns it: no path has left it behind.
LocksHaveHolders ==
    /\ mu # Nobody => mu \in Requests /\ req[mu].at \in {"rehash", "write"}
    /\ verifyMu # Nobody =>
         verifyMu \in Requests /\ req[verifyMu].at \in {"verify", "upgrade", "rehash"}

\* At a place where a request takes a lock, which another holds.
Waits(r) ==
    \/ req[r].at = "check" /\ verifyMu # Nobody
    \/ req[r].at \in {"upgrade", "want"} /\ mu # Nobody

\* Not everyone waits for everyone else.
NotAllWait == (\E r \in Requests : Waits(r)) => \E r \in Requests : req[r] # Idle /\ ~Waits(r)

LEMMA HoldersStep ==
    ASSUME SettingsInv, LocksHaveHolders, NEW r \in Requests, Proceeds(r)
    PROVE  LocksHaveHolders'
<1> USE RequestsAssumption DEF SettingsInv, LocksHeld, LocksHaveHolders, Nobody
<1>1. req \in [Requests -> ReqRecords] /\ req[r] \in ReqRecords
  BY DEF Typed
<1>2. Idle.at = "idle"
  BY IdleTyped
<1>3. CASE CheckRefuses(r) \/ Revoke(r) \/ Mint(r)
  <2>1. /\ UNCHANGED <<mu, verifyMu>>
        /\ mu # r /\ verifyMu # r
    BY <1>3 DEF CheckRefuses, Revoke, Mint
  <2>2. \A o \in Requests : o # r => req'[o] = req[o]
    BY <1>1, <1>3 DEF CheckRefuses, Revoke, Mint, Ends, Goes
  <2> QED BY <2>1, <2>2
<1>4. CASE CheckBegins(r)
  BY <1>1, <1>4 DEF CheckBegins, VerifyFree, ReqRecords
<1>5. CASE VerifyFails(r)
  BY <1>1, <1>2, <1>5 DEF VerifyFails, Ends
<1>6. CASE VerifyMatches(r)
  <2>1. CASE req[r].copy.salted
    BY <1>1, <1>6, <2>1, PassesAt DEF VerifyMatches
  <2>2. CASE ~req[r].copy.salted
    BY <1>1, <1>6, <2>2 DEF VerifyMatches, Goes, ReqRecords
  <2> QED BY <2>1, <2>2
<1>7. CASE UpgradeBegins(r)
  <2>1. CASE SameHash(r)
    BY <1>1, <1>7, <2>1 DEF UpgradeBegins, SameHash, ReqRecords
  <2>2. CASE ~SameHash(r)
    BY <1>1, <1>7, <2>2, PassesAt DEF UpgradeBegins
  <2> QED BY <2>1, <2>2
<1>8. CASE UpgradeEnds(r)
  BY <1>1, <1>8, PassesAt DEF UpgradeEnds
<1>9. CASE WriteBegins(r)
  BY <1>1, <1>9 DEF WriteBegins, LockFree, ReqRecords
<1>10. CASE WriteEnds(r) \/ WriteFails(r)
  <2>1. mu' = Nobody /\ UNCHANGED verifyMu /\ verifyMu # r
    BY <1>10 DEF WriteEnds, WriteFails, Releases
  <2>2. \A o \in Requests : o # r => req'[o] = req[o]
    BY <1>1, <1>10 DEF WriteEnds, WriteFails, Ends
  <2> QED BY <2>1, <2>2
<1> QED BY <1>3, <1>4, <1>5, <1>6, <1>7, <1>8, <1>9, <1>10 DEF Proceeds

LEMMA HoldersInductive == SettingsInv /\ LocksHaveHolders /\ [Next]_vars => LocksHaveHolders'
<1> SUFFICES ASSUME SettingsInv, LocksHaveHolders, [Next]_vars PROVE LocksHaveHolders'
  OBVIOUS
<1>1. ASSUME NEW r \in Requests, Proceeds(r) PROVE LocksHaveHolders'
  BY <1>1, HoldersStep
<1>2. ASSUME NEW r \in Requests, Arrives(r) PROVE LocksHaveHolders'
  <2> DEFINE Quiet == /\ UNCHANGED <<mu, verifyMu>>
                      /\ req[r] = Idle
                      /\ \A o \in Requests : o # r => req'[o] = req[o]
  <2>0. req \in [Requests -> ReqRecords]
    BY DEF SettingsInv, Typed
  <2>1. ASSUME PostOpen(r) PROVE Quiet
    <3>1. PICK c \in SettingChanges :
            req' = [req EXCEPT ![r] = [Idle EXCEPT !.at = "want", !.in = c]]
      BY <2>1 DEF PostOpen
    <3> QED BY <2>0, <2>1, <3>1 DEF PostOpen
  <2>2. ASSUME PostPin(r) PROVE Quiet
    <3>1. PICK c \in SettingChanges, g \in Pins :
            req' = [req EXCEPT ![r] = [Idle EXCEPT !.at = "check", !.next = "want",
                                                   !.in = c, !.guess = g]]
      BY <2>2 DEF PostPin
    <3> QED BY <2>0, <2>2, <3>1 DEF PostPin
  <2>3. ASSUME PostLayout(r) PROVE Quiet
    <3>1. PICK c \in LayoutChanges :
            req' = [req EXCEPT ![r] = [Idle EXCEPT !.at = "want", !.in = c]]
      BY <2>3 DEF PostLayout
    <3> QED BY <2>0, <2>3, <3>1 DEF PostLayout
  <2>4. ASSUME Unlock(r) PROVE Quiet
    <3>1. PICK g \in Pins :
            req' = [req EXCEPT ![r] = [Idle EXCEPT !.at = "check", !.next = "mint", !.guess = g]]
      BY <2>4 DEF Unlock
    <3> QED BY <2>0, <2>4, <3>1 DEF Unlock
  <2>5. ASSUME NEW i \in DOMAIN sessions, PostSession(r, i) PROVE Quiet
    <3>1. CASE sessions[i] >= 0
      <4>1. PICK c \in SettingChanges :
              req' = [req EXCEPT ![r] = [Idle EXCEPT !.at = "want", !.in = c]]
        BY <2>5, <3>1 DEF PostSession
      <4> QED BY <2>0, <2>5, <4>1 DEF PostSession
    <3>2. CASE ~(sessions[i] >= 0)
      BY <2>5, <3>2 DEF PostSession
    <3> QED BY <3>1, <3>2
  <2>6. Quiet
    BY <1>2, <2>1, <2>2, <2>3, <2>4, <2>5 DEF Arrives
  <2> QED BY <2>6, IdleTyped DEF LocksHaveHolders
<1>3. CASE Tick
  BY <1>3 DEF Tick, LocksHaveHolders
<1>4. CASE Crash
  BY <1>4 DEF Crash, LocksHaveHolders
<1>5. CASE UNCHANGED vars
  BY <1>5 DEF vars, LocksHaveHolders
<1> QED BY <1>1, <1>2, <1>3, <1>4, <1>5 DEF Next

\* Whenever a request waits for a lock, another one is at work that waits for none: they
\* never wait in a circle.  Who holds verifyMu may want Actions.mu (upgradePINHash), but
\* nobody who holds Actions.mu checks a PIN.
THEOREM LocksNeverDeadlock == Spec => []NotAllWait
<1>1. Init => LocksHaveHolders
  BY DEF Init, LocksHaveHolders
<1>2. LocksHaveHolders => NotAllWait
  <2> SUFFICES ASSUME LocksHaveHolders, NEW r \in Requests, Waits(r)
               PROVE  \E o \in Requests : req[o] # Idle /\ ~Waits(o)
    BY DEF NotAllWait
  <2>1. CASE mu # Nobody
    <3>1. mu \in Requests /\ req[mu].at \in {"rehash", "write"}
      BY <2>1 DEF LocksHaveHolders
    <3>2. req[mu] # Idle /\ ~Waits(mu)
      BY <3>1, IdleTyped DEF Waits
    <3> QED BY <3>1, <3>2
  <2>2. CASE mu = Nobody
    <3>1. /\ verifyMu \in Requests
          /\ req[verifyMu].at \in {"verify", "upgrade", "rehash"}
      BY <2>2 DEF Waits, LocksHaveHolders
    <3>2. req[verifyMu] # Idle /\ ~Waits(verifyMu)
      BY <2>2, <3>1, IdleTyped DEF Waits
    <3> QED BY <3>1, <3>2
  <2> QED BY <2>1, <2>2
<1> QED BY <1>1, <1>2, HoldersInductive, SettingsInvHolds, PTL DEF Spec
=============================================================================
