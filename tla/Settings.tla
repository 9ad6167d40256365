------------------------------ MODULE Settings ------------------------------
(***************************************************************************)
(* The admin gate and the files of settings: requests that read, change    *)
(* and write settings.json, checks of the admin PIN under the lockout, and *)
(* the table of sessions.  A crash of the daemon keeps the files only.     *)
(***************************************************************************)
EXTENDS Integers, Sequences, FiniteSets

CONSTANTS
    Requests,     \* HTTP requests that may be under way
    Pins, NoPin,
    Fields,       \* the keys of settings.json other than the PIN
    Values,
    Layouts,
    FirstFiles,         \* settings.json as it may be found at first
    SettingChanges,     \* what requests ask for: a value for some of the keys
    LockAfter, MaxShift, MaxLockout,    \* the lockout; times in seconds
    TTL, MaxSessions,                   \* the table of sessions
    MaxFails,     \* bound: failures counted
    MaxMints      \* bound: sessions minted within a TTL

Keys == {"pin"} \cup Fields
ASSUME ChangesAssumption ==
    /\ "pin" \notin Fields /\ "layout" \notin Fields
    /\ \A c \in SettingChanges :
         /\ DOMAIN c # {} /\ DOMAIN c \subseteq Keys
         /\ \A k \in DOMAIN c : c[k] \in IF k = "pin" THEN Pins ELSE Values
ASSUME FilesAssumption ==
    FirstFiles \subseteq [set : [Keys -> Pins \cup {NoPin} \cup Values], salted : BOOLEAN]
ASSUME PinsAssumption == NoPin \notin Pins
ASSUME RequestsAssumption == "nobody" \notin Requests
ASSUME LockoutAssumption ==
    /\ LockAfter \in Nat \ {0} /\ MaxShift \in Nat /\ MaxLockout \in Nat \ {0}
    /\ MaxLockout <= 2^MaxShift
    /\ MaxFails \in Nat /\ MaxFails >= LockAfter + MaxShift
ASSUME SessionsAssumption ==
    TTL \in Nat /\ MaxSessions \in Nat \ {0} /\ MaxMints \in Nat

VARIABLES
    file,       \* settings.json: its keys, and whether the PIN's hash is salted
    layout,     \* panel-layout.json
    mu,         \* Actions.mu: the request that holds it
    verifyMu,   \* adminGate.verifyMu, likewise
    req,        \* what each request is about, and where it is
    sessions,   \* how long each session still lives (-1: expired), oldest first
    fails,      \* failed attempts in a row
    locked,     \* how long the lockout still lasts
    minted,     \* history: all sessions minted since the last revocation, likewise
    since       \* history: time since the last of the failures counted, up to MaxLockout

gateVars == <<sessions, fails, locked, minted, since>>
vars == <<file, layout, mu, verifyMu, req, gateVars>>

Nobody == "nobody"
LayoutChanges == [{"layout"} -> Layouts]
NoChange == [k \in {} |-> k]
Merge(c, s) == [k \in DOMAIN s |-> IF k \in DOMAIN c THEN c[k] ELSE s[k]]
AtMost(n, m) == IF n < m THEN n ELSE m

Idle == [at |-> "idle", next |-> "idle", in |-> NoChange, guess |-> NoPin,
         copy |-> [set |-> NoChange, salted |-> FALSE]]

Init ==
    /\ file \in FirstFiles
    /\ layout \in Layouts
    /\ mu = Nobody /\ verifyMu = Nobody
    /\ req = [r \in Requests |-> Idle]
    /\ sessions = <<>> /\ minted = <<>>
    /\ fails = 0 /\ locked = 0 /\ since = MaxLockout

Goes(r, at) == req' = [req EXCEPT ![r].at = at]
\* Past the check of its PIN.
Passes(r) == req' = [req EXCEPT ![r] = [Idle EXCEPT !.at = req[r].next, !.in = req[r].in]]
Ends(r) == req' = [req EXCEPT ![r] = Idle]

-----------------------------------------------------------------------------
(* Requests arrive                                                         *)

\* While no PIN is set, everything is open.
PostOpen(r) ==
    /\ req[r] = Idle /\ file.set["pin"] = NoPin
    /\ \E c \in SettingChanges : req' = [req EXCEPT ![r] = [Idle EXCEPT !.at = "want", !.in = c]]
    /\ UNCHANGED <<file, layout, mu, verifyMu, gateVars>>

\* With the token of session i.  An expired one is dropped, and refused.
PostSession(r, i) ==
    /\ req[r] = Idle /\ file.set["pin"] # NoPin
    /\ IF sessions[i] >= 0
       THEN /\ \E c \in SettingChanges :
                 req' = [req EXCEPT ![r] = [Idle EXCEPT !.at = "want", !.in = c]]
            /\ UNCHANGED sessions
       ELSE /\ sessions' = SubSeq(sessions, 1, i - 1) \o SubSeq(sessions, i + 1, Len(sessions))
            /\ UNCHANGED req
    /\ UNCHANGED <<file, layout, mu, verifyMu, fails, locked, minted, since>>

\* With the PIN itself, or something that is taken for it.
PostPin(r) ==
    /\ req[r] = Idle /\ file.set["pin"] # NoPin
    /\ \E c \in SettingChanges, g \in Pins :
         req' = [req EXCEPT ![r] = [Idle EXCEPT !.at = "check", !.next = "want",
                                                !.in = c, !.guess = g]]
    /\ UNCHANGED <<file, layout, mu, verifyMu, gateVars>>

Unlock(r) ==
    /\ req[r] = Idle /\ file.set["pin"] # NoPin
    /\ \E g \in Pins :
         req' = [req EXCEPT ![r] = [Idle EXCEPT !.at = "check", !.next = "mint", !.guess = g]]
    /\ UNCHANGED <<file, layout, mu, verifyMu, gateVars>>

PostLayout(r) ==
    /\ req[r] = Idle
    /\ \E c \in LayoutChanges : req' = [req EXCEPT ![r] = [Idle EXCEPT !.at = "want", !.in = c]]
    /\ UNCHANGED <<file, layout, mu, verifyMu, gateVars>>

-----------------------------------------------------------------------------
(* checkPIN                                                                *)

\* Mutant: the shift is off by one.
LateLockTime(n) ==
    IF n <= LockAfter THEN 0 ELSE AtMost(2^AtMost(n - LockAfter - 1, MaxShift), MaxLockout)

VerifyFree(r) == verifyMu = Nobody

\* Refused without being evaluated while the lockout lasts.
CheckRefuses(r) ==
    /\ req[r].at = "check" /\ VerifyFree(r) /\ locked > 0
    /\ Ends(r)
    /\ UNCHANGED <<file, layout, mu, verifyMu, gateVars>>

CheckBegins(r) ==
    /\ req[r].at = "check" /\ VerifyFree(r) /\ locked = 0
    /\ verifyMu' = r
    /\ req' = [req EXCEPT ![r].at = "verify", ![r].copy = file]
    /\ UNCHANGED <<file, layout, mu, gateVars>>

\* recordFailure: the lockout after the n-th failure in a row.
LockTime(n) ==
    IF n < LockAfter THEN 0 ELSE AtMost(2^AtMost(n - LockAfter, MaxShift), MaxLockout)

\* verifyPIN, whatever the version of the hash.
Matches(r) == req[r].guess = req[r].copy.set["pin"]

VerifyFails(r) ==
    /\ req[r].at = "verify" /\ ~Matches(r)
    /\ fails' = AtMost(fails + 1, MaxFails)
    /\ locked' = IF fails' < LockAfter THEN locked ELSE LockTime(fails')
    /\ since' = 0
    /\ verifyMu' = Nobody
    /\ Ends(r)
    /\ UNCHANGED <<file, layout, mu, sessions, minted>>

\* recordSuccess; a hash of an older version is to be replaced.
VerifyMatches(r) ==
    /\ req[r].at = "verify" /\ Matches(r)
    /\ fails' = 0 /\ locked' = 0 /\ since' = MaxLockout
    /\ IF req[r].copy.salted
       THEN verifyMu' = Nobody /\ Passes(r)
       ELSE UNCHANGED verifyMu /\ Goes(r, "upgrade")
    /\ UNCHANGED <<file, layout, mu, sessions, minted>>

\* Only the hash that was checked is replaced.
SameHash(r) == file.set["pin"] = req[r].copy.set["pin"] /\ ~file.salted

UpgradeBegins(r) ==
    /\ req[r].at = "upgrade" /\ mu = Nobody
    /\ IF SameHash(r)
       THEN /\ mu' = r
            /\ req' = [req EXCEPT ![r].at = "rehash", ![r].copy = file]
            /\ UNCHANGED verifyMu
       ELSE verifyMu' = Nobody /\ Passes(r) /\ UNCHANGED mu
    /\ UNCHANGED <<file, layout, gateVars>>

\* Saved, or not: the error is ignored.
UpgradeEnds(r) ==
    /\ req[r].at = "rehash"
    /\ file' \in {file, [set |-> [req[r].copy.set EXCEPT !["pin"] = req[r].guess],
                         salted |-> TRUE]}
    /\ mu' = Nobody /\ verifyMu' = Nobody
    /\ Passes(r)
    /\ UNCHANGED <<layout, gateVars>>

-----------------------------------------------------------------------------
(* Load, change and save, under Actions.mu                                 *)

\* Mutants: the lock is not taken; a failed save keeps it.
LockIgnored(r) == TRUE
KeepsLock(r) == mu' = mu

LockFree(r) == mu = Nobody
Releases(r) == mu' = Nobody

WriteBegins(r) ==
    /\ req[r].at = "want" /\ LockFree(r)
    /\ mu' = r
    /\ req' = [req EXCEPT ![r].at = "write", ![r].copy = file]
    /\ UNCHANGED <<file, layout, verifyMu, gateVars>>

\* The new file is renamed over the old one.
WriteEnds(r) ==
    /\ req[r].at = "write"
    /\ IF "layout" \in DOMAIN req[r].in
       THEN layout' = req[r].in["layout"] /\ UNCHANGED file
       ELSE /\ file' = [set |-> Merge(req[r].in, req[r].copy.set),
                        salted |-> req[r].copy.salted \/ "pin" \in DOMAIN req[r].in]
            /\ UNCHANGED layout
    /\ mu' = Nobody
    /\ req' = [req EXCEPT ![r] =
         IF "pin" \in DOMAIN req[r].in THEN [Idle EXCEPT !.at = "revoke"] ELSE Idle]
    /\ UNCHANGED <<verifyMu, gateVars>>

\* No temporary file, a full disk, a failed rename.
WriteFails(r) ==
    /\ req[r].at = "write"
    /\ Releases(r)
    /\ Ends(r)
    /\ UNCHANGED <<file, layout, verifyMu, gateVars>>

-----------------------------------------------------------------------------
(* Sessions                                                                *)

Revoke(r) ==
    /\ req[r].at = "revoke"
    /\ sessions' = <<>> /\ minted' = <<>>
    /\ Goes(r, "mint")
    /\ UNCHANGED <<file, layout, mu, verifyMu, fails, locked, since>>

LastOf(s, n) == SubSeq(s, Len(s) - AtMost(n, Len(s)) + 1, Len(s))

\* The expired ones are dropped.  All sessions live as long: the oldest go first.
Alive(s) == LastOf(s, Cardinality({i \in DOMAIN s : s[i] >= 0}))

\* Mutants: room is made at the wrong end; the table grows one too long.
MakesRoomYoung(s) == SubSeq(s, 1, AtMost(MaxSessions - 1, Len(s)))
MakesRoomLate(s) == LastOf(s, MaxSessions)

\* The session to expire first makes room.
MakesRoom(s) == LastOf(s, MaxSessions - 1)

Mint(r) ==
    /\ req[r].at = "mint" /\ Len(minted) < MaxMints
    /\ sessions' = Append(MakesRoom(Alive(sessions)), TTL)
    /\ minted' = Append(minted, TTL)
    /\ Ends(r)
    /\ UNCHANGED <<file, layout, mu, verifyMu, fails, locked, since>>

-----------------------------------------------------------------------------
Ages(s) == [i \in DOMAIN s |-> IF s[i] >= 0 THEN s[i] - 1 ELSE s[i]]

Tick ==
    /\ sessions' = Ages(sessions) /\ minted' = Alive(Ages(minted))
    /\ locked' = IF locked > 0 THEN locked - 1 ELSE 0
    /\ since' = AtMost(since + 1, MaxLockout)
    /\ UNCHANGED <<file, layout, mu, verifyMu, req, fails>>

\* The daemon ends and is started again.
Crash ==
    /\ mu' = Nobody /\ verifyMu' = Nobody
    /\ req' = [r \in Requests |-> Idle]
    /\ sessions' = <<>> /\ minted' = <<>>
    /\ fails' = 0 /\ locked' = 0 /\ since' = MaxLockout
    /\ UNCHANGED <<file, layout>>

Arrives(r) ==
    \/ PostOpen(r) \/ PostPin(r) \/ Unlock(r) \/ PostLayout(r)
    \/ \E i \in DOMAIN sessions : PostSession(r, i)

Proceeds(r) ==
    \/ CheckRefuses(r) \/ CheckBegins(r) \/ VerifyFails(r) \/ VerifyMatches(r)
    \/ UpgradeBegins(r) \/ UpgradeEnds(r)
    \/ WriteBegins(r) \/ WriteEnds(r) \/ WriteFails(r)
    \/ Revoke(r) \/ Mint(r)

Next == (\E r \in Requests : Arrives(r) \/ Proceeds(r)) \/ Tick \/ Crash

Spec == Init /\ [][Next]_vars

\* Handlers run on, Go's mutexes starve nobody, and time passes.
FairSpec == Spec /\ (\A r \in Requests : SF_vars(Proceeds(r))) /\ WF_vars(Tick)

-----------------------------------------------------------------------------
(* Properties                                                              *)

TypeOK ==
    /\ file \in [set : [Keys -> Pins \cup {NoPin} \cup Values], salted : BOOLEAN]
    /\ layout \in Layouts
    /\ mu \in Requests \cup {Nobody} /\ verifyMu \in Requests \cup {Nobody}
    /\ \A r \in Requests :
         /\ req[r].at \in {"idle", "check", "verify", "upgrade", "rehash", "want",
                           "write", "revoke", "mint"}
         /\ req[r].in \in {NoChange} \cup SettingChanges \cup LayoutChanges
         /\ req[r].guess \in Pins \cup {NoPin}
    /\ sessions \in Seq(-1..TTL) /\ Len(sessions) <= MaxSessions
    /\ minted \in Seq(0..TTL)
    /\ fails \in 0..MaxFails /\ locked \in 0..MaxLockout /\ since \in 0..MaxLockout

\* The sessions in force are the youngest of those that were given out and have not
\* expired, as many as the table holds (newSession: "drop the soonest-to-expire entry
\* when full").
YoungestInForce == Alive(sessions) = LastOf(minted, MaxSessions)

\* No PIN is evaluated before the lockout that follows from the failures so far has
\* passed: with n failures, 2^(n - LockAfter) seconds after the last one, at most
\* MaxLockout ("attempts are counted in order").
RequiredWait(n) ==
    IF n < LockAfter THEN 0 ELSE AtMost(2^(n - LockAfter), MaxLockout)

AttemptsSpaced ==
    [][\A r \in Requests :
         VerifyFails(r) \/ VerifyMatches(r) => since >= RequiredWait(fails)]_vars

\* Every request is answered: the two locks never wait for one another, and no path
\* leaves one of them locked.
RequestsAnswered == \A r \in Requests : req[r].at # "idle" ~> req[r].at = "idle"

\* The files change as in AtomicSettings: no request undoes what another has written,
\* not even the replacement of an old hash, and a crash leaves no half of a change.
Atomic == INSTANCE AtomicSettings WITH
    Keys <- Keys \cup {"layout"},
    Changes <- SettingChanges \cup LayoutChanges,
    stored <- [k \in Keys \cup {"layout"} |->
                 IF k = "layout" THEN layout ELSE file.set[k]],
    wanted <- [r \in Requests |-> req[r].in]

ImplementsAtomic == Atomic!AtomicSpec
=============================================================================
