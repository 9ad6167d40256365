---------------------------- MODULE TunnelProofs ----------------------------
(***************************************************************************)
(* Proofs about Tunnel, for any processes, identities and configurations.  *)
(***************************************************************************)
EXTENDS Tunnel, TLAPS

\* Every variable keeps its type.
LEMMA TypeInductive == TypeOK /\ [Next]_vars => TypeOK'
<1> SUFFICES ASSUME TypeOK, [Next]_vars PROVE TypeOK'
  OBVIOUS
<1> USE NoCertAssumption, ConfsAssumption, PublicAssumption
<1> USE DEF TypeOK, Cert, Pcs, Waiting, Phases, Secrets, Markers, cliVars, dirVars,
            boxVars, worldVars, Identities
<1>a. Credentials \subseteq Secrets
  BY DEF Credentials, Conf, Types
<1>b. Identities \subseteq Cert
  BY DEF Identities
<1>c. ASSUME NEW p \in Procs, AbandonDir(p) PROVE left' \in BOOLEAN
  BY <1>c, Zenon DEF AbandonDir, InCharge
<1>d. ASSUME NEW p \in Procs, Exits(p) PROVE TypeOK'
  <2>1. CASE TrapArmed(p)
    BY <1>d, <2>1 DEF Exits, RemoveAuthDir, Done, Goto
  <2>2. CASE ~TrapArmed(p)
    BY <1>c, <1>d, <2>2 DEF Exits, AbandonDir, Done, Goto
  <2> QED BY <2>1, <2>2
<1>1. ASSUME NEW p \in Procs, CliStep(p) PROVE TypeOK'
  <2>1. CASE UpRefuses(p)   BY <2>1 DEF UpRefuses, Done, Goto
  <2>2. CASE UpPrepare(p)   BY <1>a, <2>2 DEF UpPrepare, BuildAuthDir, Goto
  <2>3. CASE UpRun(p)       BY <2>3 DEF UpRun, Goto
  <2>4. CASE UpRunFails(p)  BY <2>4 DEF UpRunFails, RemoveAuthDir, RemoveThen, Goto
  <2>5. CASE UpSeesReady(p)
    <3>1. store' \in Cert
      BY <2>5 DEF UpSeesReady, PersistTrust
    <3>2. CASE conf.restart
      <4>1. Done(p)
        BY <2>5, <3>2 DEF UpSeesReady
      <4>2. UNCHANGED <<worldVars, dirVars, boxVars, proven>>
        BY <2>5 DEF UpSeesReady
      <4> QED BY <3>1, <4>1, <4>2 DEF Done, Goto
    <3>3. CASE ~conf.restart
      BY <2>5, <3>1, <3>3 DEF UpSeesReady, Goto
    <3> QED BY <3>2, <3>3
  <2>6. CASE UpGivesUp(p)   BY <2>6 DEF UpGivesUp, RemoveThen, Goto
  <2>7. CASE UpHandsOff(p)  BY <2>7 DEF UpHandsOff, Done, Goto
  <2>8. CASE UpAsks(p)      BY <2>8 DEF UpAsks, Goto
  <2>9. CASE UpExits(p)     BY <2>9 DEF UpExits, RemoveAuthDir, Done, Goto
  <2>10. CASE RemoveBox(p)  BY <2>10 DEF RemoveBox, Goto
  <2>11. CASE RemoveDir(p)
    <3>1. CASE after[p] = "idle"
      <4>1. Done(p) /\ RemoveAuthDir
        BY <2>11, <3>1 DEF RemoveDir
      <4> QED BY <2>11, <4>1 DEF RemoveDir, RemoveAuthDir, Done, Goto
    <3>2. CASE after[p] # "idle"
      <4>1. pc' = [pc EXCEPT ![p] = after[p]] /\ after' = [after EXCEPT ![p] = "idle"]
            /\ UNCHANGED <<noPrompt, want>>
        BY <2>11, <3>2 DEF RemoveDir, Goto
      <4>2. pc' \in [Procs -> Pcs] /\ after' \in [Procs -> {"idle", "prepare", "exit"}]
        BY <4>1
      <4> QED BY <2>11, <4>1, <4>2 DEF RemoveDir, RemoveAuthDir
    <3> QED BY <3>1, <3>2
  <2>12. CASE CodeSeesReady(p) BY <2>12 DEF CodeSeesReady, PersistTrust, Done, Goto
  <2>13. CASE CodeGivesUp(p) BY <2>13 DEF CodeGivesUp, Done, Goto
  <2>14. CASE UpAsksPassword(p) BY <2>14 DEF UpAsksPassword, Goto
  <2>15. CASE UpFindsNoKey(p) BY <2>15 DEF UpFindsNoKey, RemoveAuthDir, Done, Goto
  <2>16. CASE UpGetsNoNetwork(p) BY <1>d, <2>16 DEF UpGetsNoNetwork
  <2> QED BY <1>1, <2>1, <2>2, <2>3, <2>4, <2>5, <2>6, <2>7, <2>8, <2>9, <2>10,
             <2>11, <2>12, <2>13, <2>14, <2>15, <2>16 DEF CliStep
<1>2. ASSUME NEW p \in Procs, UserStep(p) PROVE TypeOK'
  <2>1. ASSUME NEW np \in BOOLEAN, UpStart(p, np) PROVE TypeOK'
    BY <2>1 DEF UpStart, RemoveThen, Goto
  <2>2. CASE UpSendsCode(p)   BY <2>2 DEF UpSendsCode, Goto
  <2>3. CASE UpGetsNoCode(p)  BY <2>3 DEF UpGetsNoCode, RemoveThen, Goto
  <2>4. CASE Down(p)          BY <2>4 DEF Down, RemoveThen, Goto
  <2>5. CASE CodeDelivers(p)  BY <2>5 DEF CodeDelivers, Goto
  <2>6. CASE Interrupted(p)   BY <1>d, <2>6 DEF Interrupted
  <2>7. CASE Killed(p)        BY <1>c, <2>7 DEF Killed, AbandonDir, Done, Goto
  <2>8. CASE UpGetsPassword(p)
    BY <1>a, <2>8 DEF UpGetsPassword, BuildAuthDir, Goto
  <2>9. CASE UpGetsNoPassword(p)
    BY <2>9 DEF UpGetsNoPassword, Done, Goto
  <2> QED BY <1>2, <2>1, <2>2, <2>3, <2>4, <2>5, <2>6, <2>7, <2>8, <2>9
         DEF UserStep
<1>3. CASE BoxBoots       BY <1>3 DEF BoxBoots, ContainerWrites
<1>4. CASE BoxResolvesPin
  BY <1>b, <1>4 DEF BoxResolvesPin, Printed, SeenLearned
<1>5. CASE BoxSubmits     BY <1>5 DEF BoxSubmits, ContainerWrites
<1>6. CASE BoxConnects    BY <1>b, <1>6 DEF BoxConnects, Accepted
<1>7. CASE BoxTakesCode   BY <1>7 DEF BoxTakesCode, ContainerWrites
<1>8. CASE BoxIsReady     BY <1>8 DEF BoxIsReady, LoginSeen, ContainerWrites
<1>9. CASE BoxLogsIn      BY <1>9 DEF BoxLogsIn
<1>10. CASE BoxTimesOut   BY <1>10 DEF BoxTimesOut, Bounded, Stops
<1>11. CASE BoxDies       BY <1>11 DEF BoxDies, Stops
<1>12. CASE BoxRestarts   BY <1>12 DEF BoxRestarts
<1>13. CASE GatewayChanges BY <1>13 DEF GatewayChanges, Identities
<1>14. CASE UNCHANGED vars BY <1>14 DEF vars
<1> QED BY <1>1, <1>2, <1>3, <1>4, <1>5, <1>6, <1>7, <1>8, <1>9, <1>10, <1>11, <1>12,
           <1>13, <1>14 DEF Next, BoxStep

LEMMA TypeInitially == Init => TypeOK
BY NoCertAssumption DEF Init, TypeOK, Identities, Cert, Pcs, Waiting, Phases, Secrets, Markers

\* The program's state keeps its type in every behaviour, however many
\* processes work on the tunnel.
THEOREM TypeCorrect == Spec => []TypeOK
BY TypeInitially, TypeInductive, PTL DEF Spec

-----------------------------------------------------------------------------
(* The ready marker, with any number of commands at work.                  *)

\* The container and its entrypoint go together, and a mounted auth directory
\* is one that exists.
BoxOK ==
    /\ phase = "off" <=> box # "running"
    /\ mounted => dir /\ box = "running"
    /\ ~dir => files = {} /\ learned = NoCert

LiveInv == TypeOK /\ BoxOK /\ ReadyIsLive

LEMMA LiveInitially == Init => LiveInv
BY TypeInitially DEF Init, LiveInv, BoxOK, ReadyIsLive

LEMMA LiveInductive == LiveInv /\ [Next]_vars => LiveInv'
<1> SUFFICES ASSUME LiveInv, [Next]_vars PROVE BoxOK' /\ ReadyIsLive'
  BY TypeInductive DEF LiveInv
<1> USE DEF LiveInv, TypeOK, BoxOK, ReadyIsLive, Phases, cliVars, dirVars, boxVars, worldVars
<1>d. ASSUME NEW p \in Procs, Exits(p) PROVE BoxOK' /\ ReadyIsLive'
  BY <1>d DEF Exits, AbandonDir, RemoveAuthDir
<1>1. ASSUME NEW p \in Procs, CliStep(p) PROVE BoxOK' /\ ReadyIsLive'
  <2>1. CASE UpRefuses(p)   BY <2>1 DEF UpRefuses
  <2>2. CASE UpPrepare(p)   BY <2>2 DEF UpPrepare, BuildAuthDir
  <2>3. CASE UpRun(p)       BY <2>3 DEF UpRun
  <2>4. CASE UpRunFails(p)  BY <2>4 DEF UpRunFails, RemoveAuthDir
  <2>5. CASE UpSeesReady(p) BY <2>5 DEF UpSeesReady
  <2>6. CASE UpGivesUp(p)   BY <2>6 DEF UpGivesUp
  <2>7. CASE UpHandsOff(p)  BY <2>7 DEF UpHandsOff
  <2>8. CASE UpAsks(p)      BY <2>8 DEF UpAsks
  <2>9. CASE UpExits(p)     BY <2>9 DEF UpExits, RemoveAuthDir
  <2>10. CASE RemoveBox(p)  BY <2>10 DEF RemoveBox
  <2>11. CASE RemoveDir(p)  BY <2>11 DEF RemoveDir, RemoveAuthDir
  <2>12. CASE CodeSeesReady(p) BY <2>12 DEF CodeSeesReady
  <2>13. CASE CodeGivesUp(p) BY <2>13 DEF CodeGivesUp
  <2>14. CASE UpAsksPassword(p) BY <2>14 DEF UpAsksPassword
  <2>15. CASE UpFindsNoKey(p) BY <2>15 DEF UpFindsNoKey, RemoveAuthDir
  <2>16. CASE UpGetsNoNetwork(p) BY <1>d, <2>16 DEF UpGetsNoNetwork
  <2> QED BY <1>1, <2>1, <2>2, <2>3, <2>4, <2>5, <2>6, <2>7, <2>8, <2>9, <2>10,
             <2>11, <2>12, <2>13, <2>14, <2>15, <2>16 DEF CliStep
<1>2. ASSUME NEW p \in Procs, UserStep(p) PROVE BoxOK' /\ ReadyIsLive'
  <2>1. ASSUME NEW np \in BOOLEAN, UpStart(p, np) PROVE BoxOK' /\ ReadyIsLive'
    BY <2>1 DEF UpStart
  <2>2. CASE UpSendsCode(p)   BY <2>2 DEF UpSendsCode
  <2>3. CASE UpGetsNoCode(p)  BY <2>3 DEF UpGetsNoCode
  <2>4. CASE Down(p)          BY <2>4 DEF Down
  <2>5. CASE CodeDelivers(p)  BY <2>5 DEF CodeDelivers
  <2>6. CASE Interrupted(p)   BY <1>d, <2>6 DEF Interrupted
  <2>7. CASE Killed(p)        BY <2>7 DEF Killed, AbandonDir
  <2>8. CASE UpGetsPassword(p) BY <2>8 DEF UpGetsPassword, BuildAuthDir
  <2>9. CASE UpGetsNoPassword(p) BY <2>9 DEF UpGetsNoPassword
  <2> QED BY <1>2, <2>1, <2>2, <2>3, <2>4, <2>5, <2>6, <2>7, <2>8, <2>9
         DEF UserStep
<1>3. CASE BoxBoots       BY <1>3 DEF BoxBoots, ContainerWrites, ClearedAtStart
<1>4. CASE BoxResolvesPin BY <1>4 DEF BoxResolvesPin
<1>5. CASE BoxSubmits     BY <1>5 DEF BoxSubmits, ContainerWrites
<1>6. CASE BoxConnects    BY <1>6 DEF BoxConnects, Accepted
<1>7. CASE BoxTakesCode   BY <1>7 DEF BoxTakesCode, ContainerWrites
<1>8. CASE BoxIsReady     BY <1>8 DEF BoxIsReady, LoginSeen, ContainerWrites
<1>9. CASE BoxLogsIn      BY <1>9 DEF BoxLogsIn
<1>10. CASE BoxTimesOut   BY <1>10 DEF BoxTimesOut, Bounded, Stops
<1>11. CASE BoxDies       BY <1>11 DEF BoxDies, Stops
<1>12. CASE BoxRestarts   BY <1>12 DEF BoxRestarts
<1>13. CASE GatewayChanges BY <1>13 DEF GatewayChanges
<1>14. CASE UNCHANGED vars BY <1>14 DEF vars
<1> QED BY <1>1, <1>2, <1>3, <1>4, <1>5, <1>6, <1>7, <1>8, <1>9, <1>10, <1>11, <1>12,
           <1>13, <1>14 DEF Next, BoxStep

\* A ready marker found beside a working container is its own, however many
\* commands rebuild, remove and poll the auth directory meanwhile.
THEOREM ReadyMarkerIsLive == Spec => []ReadyIsLive
<1>1. LiveInv => ReadyIsLive
  BY DEF LiveInv
<1> QED BY <1>1, LiveInitially, LiveInductive, PTL DEF Spec

-----------------------------------------------------------------------------
(* The stored identity, when users run one up or down at a time.           *)

\* At most one process is at work, but for watchers left by t-forward code.
OneAtWork ==
    \A p, q \in Procs : p # q /\ pc[p] \notin {"idle", "poll"} => pc[q] \in {"idle", "poll"}

\* An up that rebuilds the auth directory has no container beside it, and what
\* it wants enforced is what it stored.
Building ==
    \A p \in Procs :
        /\ pc[p] \in {"prepare", "password", "rmdir"} => box = "none"
        /\ pc[p] = "run" => /\ box = "none"
                            /\ "ready" \notin files
                            /\ conf.type # "ssh" => learned = NoCert
        /\ want[p] # NoCert => conf.type = "vpn"

\* What a directory has learned belongs to the container that mounts it: one
\* created with a pin learns nothing, and any other enforces what it learned.
LearnedOK ==
    /\ learned # NoCert => conf.type = "ssh" \/ (conf.type = "vpn" /\ conf.tofu)
    /\ envPin # NoCert => conf.type = "vpn"
    /\ box # "none" /\ envPin # NoCert => learned = NoCert
    /\ mounted /\ learned # NoCert =>
         /\ phase \in {"auth", "code", "tun", "up"} /\ conf.type = "vpn" => pin = learned
         /\ session # NoCert => session = learned
    /\ phase \in {"off", "boot", "trust", "auth"} => session = NoCert
    /\ phase = "up" /\ conf.type = "ssh" => session # NoCert

\* A ready marker vouches for what has been learned beside it.
Vouched ==
    /\ "ready" \in files => learned \in proven \cup {NoCert}
    /\ store \in proven \cup {NoCert}

PinInv == LiveInv /\ OneAtWork /\ Building /\ LearnedOK /\ Vouched

\* Every ssh tunnel has a port to forward, so that its entrypoint waits for the
\* login before it calls the tunnel ready.
LoginsSeen == \A c \in Confs : c.type = "ssh" => c.listens

LEMMA PinInitially == Init => PinInv
BY LiveInitially DEF Init, PinInv, OneAtWork, Building, LearnedOK, Vouched

LEMMA PinInductive ==
    ASSUME Serial, LoginsSeen
    PROVE  PinInv /\ [Next]_vars => PinInv'
<1> DEFINE Rest == OneAtWork /\ Building /\ LearnedOK /\ Vouched
<1> SUFFICES ASSUME PinInv, [Next]_vars PROVE Rest'
  BY LiveInductive DEF PinInv
<1> USE LoginsSeen
    DEF LoginsSeen, PinInv, LiveInv, TypeOK, BoxOK, ReadyIsLive, OneAtWork, Building,
        LearnedOK, Vouched, Cert, Waiting, cliVars, dirVars, boxVars, worldVars
<1>a. "ready" \notin Credentials
  BY ConfsAssumption DEF Credentials, Conf, Types
<1>b. ASSUME NEW p \in Procs, BuildAuthDir(p), pc[p] \in {"prepare", "password"} PROVE Rest'
  BY <1>a, <1>b DEF BuildAuthDir, Goto
<1>d. ASSUME NEW p \in Procs, Exits(p) PROVE Rest'
  <2>1. CASE TrapArmed(p)
    BY <1>d, <2>1 DEF Exits, TrapArmed, RemoveAuthDir, Done, Goto
  <2>2. CASE ~TrapArmed(p)
    BY <1>d, <2>2 DEF Exits, AbandonDir, Done, Goto
  <2> QED BY <2>1, <2>2
<1>1. ASSUME NEW p \in Procs, CliStep(p) PROVE Rest'
  <2>1. CASE UpRefuses(p) BY <2>1 DEF UpRefuses, Done, Goto
  <2>2. CASE UpPrepare(p) BY <1>b, <2>2 DEF UpPrepare
  <2>3. CASE UpRun(p) BY <2>3 DEF UpRun, Goto
  <2>4. CASE UpRunFails(p) BY <2>4 DEF UpRunFails, RemoveAuthDir, RemoveThen, Goto
  <2>5. CASE UpSeesReady(p) BY <2>5 DEF UpSeesReady, PersistTrust, Done, Goto
  <2>6. CASE UpGivesUp(p) BY <2>6 DEF UpGivesUp, RemoveThen, Goto
  <2>7. CASE UpHandsOff(p) BY <2>7 DEF UpHandsOff, Done, Goto
  <2>8. CASE UpAsks(p) BY <2>8 DEF UpAsks, Goto
  <2>9. CASE UpExits(p) BY <2>9 DEF UpExits, RemoveAuthDir, Done, Goto
  <2>10. CASE RemoveBox(p) BY <2>10 DEF RemoveBox, Goto
  <2>11. CASE RemoveDir(p)
    <3>1. CASE after[p] = "idle"
      <4>1. Done(p) /\ RemoveAuthDir
        BY <2>11, <3>1 DEF RemoveDir
      <4> QED BY <2>11, <4>1 DEF RemoveDir, RemoveAuthDir, Done, Goto
    <3>2. CASE after[p] # "idle"
      BY <2>11, <3>2 DEF RemoveDir, RemoveAuthDir, Goto
    <3> QED BY <3>1, <3>2
  <2>12. CASE CodeSeesReady(p) BY <2>12 DEF CodeSeesReady, PersistTrust, Done, Goto
  <2>13. CASE CodeGivesUp(p) BY <2>13 DEF CodeGivesUp, Done, Goto
  <2>14. CASE UpAsksPassword(p) BY <2>14 DEF UpAsksPassword, Goto
  <2>15. CASE UpFindsNoKey(p) BY <2>15 DEF UpFindsNoKey, RemoveAuthDir, Done, Goto
  <2>16. CASE UpGetsNoNetwork(p) BY <1>d, <2>16 DEF UpGetsNoNetwork
  <2> QED BY <1>1, <2>1, <2>2, <2>3, <2>4, <2>5, <2>6, <2>7, <2>8, <2>9, <2>10,
             <2>11, <2>12, <2>13, <2>14, <2>15, <2>16 DEF CliStep
<1>2. ASSUME NEW p \in Procs, UserStep(p) PROVE Rest'
  <2>1. ASSUME NEW np \in BOOLEAN, UpStart(p, np) PROVE Rest'
    BY <2>1 DEF UpStart, MayStart, RemoveThen, Goto
  <2>2. CASE UpSendsCode(p)
    BY <2>2 DEF UpSendsCode, Goto
  <2>3. CASE UpGetsNoCode(p)
    BY <2>3 DEF UpGetsNoCode, RemoveThen, Goto
  <2>4. CASE Down(p)
    BY <2>4 DEF Down, MayStart, RemoveThen, Goto
  <2>5. CASE CodeDelivers(p)
    BY <2>5 DEF CodeDelivers, Goto
  <2>6. CASE Interrupted(p)
    BY <1>d, <2>6 DEF Interrupted
  <2>7. CASE Killed(p)
    BY <2>7 DEF Killed, AbandonDir, Done, Goto
  <2>8. CASE UpGetsPassword(p)
    BY <1>b, <2>8 DEF UpGetsPassword
  <2>9. CASE UpGetsNoPassword(p)
    BY <2>9 DEF UpGetsNoPassword, Done, Goto
  <2> QED BY <1>2, <2>1, <2>2, <2>3, <2>4, <2>5, <2>6, <2>7, <2>8, <2>9
         DEF UserStep
<1>3. CASE BoxBoots
  BY <1>3 DEF BoxBoots, ContainerWrites
<1>4. CASE BoxResolvesPin
  BY <1>4 DEF BoxResolvesPin, Probes, SeenLearned
<1>5. CASE BoxSubmits
  <2>1. "ready" \in files' => "ready" \in files
    BY <1>5 DEF BoxSubmits, ContainerWrites
  <2> QED BY <1>5, <2>1 DEF BoxSubmits
<1>6. CASE BoxConnects
  BY <1>6 DEF BoxConnects, Accepted, SeenLearned
<1>7. CASE BoxTakesCode
  BY <1>7 DEF BoxTakesCode, ContainerWrites
<1>8. CASE BoxIsReady
  BY <1>8 DEF BoxIsReady, LoginSeen, ContainerWrites
<1>9. CASE BoxLogsIn
  BY <1>9 DEF BoxLogsIn, LoginSeen
<1>10. CASE BoxTimesOut
  BY <1>10 DEF BoxTimesOut, Bounded, Stops
<1>11. CASE BoxDies
  BY <1>11 DEF BoxDies, Stops
<1>12. CASE BoxRestarts
  BY <1>12 DEF BoxRestarts
<1>13. CASE GatewayChanges
  BY <1>13 DEF GatewayChanges
<1>14. CASE UNCHANGED vars
  BY <1>14 DEF vars
<1> QED BY <1>1, <1>2, <1>3, <1>4, <1>5, <1>6, <1>7, <1>8, <1>9, <1>10, <1>11, <1>12,
           <1>13, <1>14 DEF Next, BoxStep

\* The host never stores an identity that only failed logins have seen.
THEOREM PinnedOnlyProven ==
    ASSUME Serial, LoginsSeen
    PROVE  Spec => []PinnedWasUp
<1>1. PinInv => PinnedWasUp
  BY DEF PinInv, Vouched, PinnedWasUp
<1> QED BY <1>1, PinInitially, PinInductive, PTL DEF Spec

-----------------------------------------------------------------------------
(* Trust on first use: Tunnel implements TrustOnFirstUse.                  *)

\* The commands: an up about to start a container has read the stored identity,
\* and one that is leaving a restarting tunnel has removed it.
Commands ==
    \A p \in Procs :
        /\ want[p] # NoCert => pc[p] = "run"
        /\ pc[p] = "run" /\ conf.type = "vpn" => want[p] = store
        /\ pc[p] = "run" /\ conf.type = "ssh" => learned = store
        /\ pc[p] = "exit" /\ conf.restart => box = "none"

\* The container will find the stored identity, in its environment or in the
\* directory it mounts, now or when docker restarts it.
Finds ==
    store # NoCert /\ (mounted \/ (conf.restart /\ box # "none")) =>
        /\ conf.type = "vpn" => envPin = store \/ (envPin = NoCert /\ learned = store)
        /\ conf.type = "ssh" => learned = store

\* Once resolved, the pin is the stored identity, if there is one.
Resolved ==
    /\ phase = "auth" /\ envPin # NoCert => pin = envPin
    /\ conf.type = "vpn" /\ phase \in {"code", "tun"} /\ store # NoCert => pin = store

\* A container that lost its directory left none behind on the path, and one with
\* a restart policy does not lose it.
Unmounted == box = "running" /\ ~mounted => ~dir /\ ~conf.restart

\* What has connected, or has left its marker, is the stored identity.
Enforced ==
    /\ phase \in {"code", "tun"} => store = NoCert \/ session \in {NoCert, store}
    /\ "ready" \in files /\ learned # NoCert => store \in {NoCert, learned}

TofuInv == PinInv /\ Commands /\ Finds /\ Resolved /\ Unmounted /\ Enforced

\* Every ssh tunnel has a restart policy: up's trap then leaves the directory with
\* its known host key alone.
KeysKept == \A c \in Confs : c.type = "ssh" => c.restart

LEMMA TofuInitially == Init => TofuInv
BY PinInitially DEF Init, TofuInv, Commands, Finds, Resolved, Unmounted, Enforced

LEMMA TofuInductive ==
    ASSUME Serial, LoginsSeen, KeysKept
    PROVE  TofuInv /\ [Next]_vars => TofuInv'
<1> DEFINE Rest == Commands /\ Finds /\ Resolved /\ Unmounted /\ Enforced
<1> SUFFICES ASSUME TofuInv, [Next]_vars PROVE Rest'
  BY PinInductive DEF TofuInv
<1> USE KeysKept
    DEF KeysKept, TofuInv, PinInv, LiveInv, TypeOK, BoxOK, ReadyIsLive, OneAtWork,
        Building, LearnedOK, Vouched, Commands, Finds, Resolved, Unmounted, Enforced,
        Cert, Waiting, cliVars, dirVars, boxVars, worldVars
<1>a. "ready" \notin Credentials
  BY ConfsAssumption DEF Credentials, Conf, Types
<1>b. ASSUME NEW p \in Procs, BuildAuthDir(p), pc[p] \in {"prepare", "password"} PROVE Rest'
  BY <1>a, <1>b DEF BuildAuthDir, Goto
<1>d. ASSUME NEW p \in Procs, Exits(p) PROVE Rest'
  <2>1. CASE TrapArmed(p)
    BY <1>d, <2>1 DEF Exits, TrapArmed, RemoveAuthDir, Done, Goto
  <2>2. CASE ~TrapArmed(p)
    BY <1>d, <2>2 DEF Exits, AbandonDir, Done, Goto
  <2> QED BY <2>1, <2>2
<1>1. ASSUME NEW p \in Procs, CliStep(p) PROVE Rest'
  <2>1. CASE UpRefuses(p) BY <2>1 DEF UpRefuses, Done, Goto
  <2>2. CASE UpPrepare(p) BY <1>b, <2>2 DEF UpPrepare
  <2>3. CASE UpRun(p) BY <2>3 DEF UpRun, Goto
  <2>4. CASE UpRunFails(p) BY <2>4 DEF UpRunFails, RemoveAuthDir, RemoveThen, Goto
  <2>5. CASE UpSeesReady(p) BY <2>5 DEF UpSeesReady, PersistTrust, Done, Goto
  <2>6. CASE UpGivesUp(p) BY <2>6 DEF UpGivesUp, RemoveThen, Goto
  <2>7. CASE UpHandsOff(p) BY <2>7 DEF UpHandsOff, Done, Goto
  <2>8. CASE UpAsks(p) BY <2>8 DEF UpAsks, Goto
  <2>9. CASE UpExits(p) BY <2>9 DEF UpExits, RemoveAuthDir, Done, Goto
  <2>10. CASE RemoveBox(p) BY <2>10 DEF RemoveBox, Goto
  <2>11. CASE RemoveDir(p)
    <3>1. CASE after[p] = "idle"
      <4>1. Done(p) /\ RemoveAuthDir
        BY <2>11, <3>1 DEF RemoveDir
      <4> QED BY <2>11, <4>1 DEF RemoveDir, RemoveAuthDir, Done, Goto
    <3>2. CASE after[p] # "idle"
      BY <2>11, <3>2 DEF RemoveDir, RemoveAuthDir, Goto
    <3> QED BY <3>1, <3>2
  <2>12. CASE CodeSeesReady(p) BY <2>12 DEF CodeSeesReady, PersistTrust, Done, Goto
  <2>13. CASE CodeGivesUp(p) BY <2>13 DEF CodeGivesUp, Done, Goto
  <2>14. CASE UpAsksPassword(p) BY <2>14 DEF UpAsksPassword, Goto
  <2>15. CASE UpFindsNoKey(p) BY <2>15 DEF UpFindsNoKey, RemoveAuthDir, Done, Goto
  <2>16. CASE UpGetsNoNetwork(p) BY <1>d, <2>16 DEF UpGetsNoNetwork
  <2> QED BY <1>1, <2>1, <2>2, <2>3, <2>4, <2>5, <2>6, <2>7, <2>8, <2>9, <2>10,
             <2>11, <2>12, <2>13, <2>14, <2>15, <2>16 DEF CliStep
<1>2. ASSUME NEW p \in Procs, UserStep(p) PROVE Rest'
  <2>1. ASSUME NEW np \in BOOLEAN, UpStart(p, np) PROVE Rest'
    BY <2>1 DEF UpStart, MayStart, RemoveThen, Goto
  <2>2. CASE UpSendsCode(p)
    BY <2>2 DEF UpSendsCode, Goto
  <2>3. CASE UpGetsNoCode(p)
    BY <2>3 DEF UpGetsNoCode, RemoveThen, Goto
  <2>4. CASE Down(p)
    BY <2>4 DEF Down, MayStart, RemoveThen, Goto
  <2>5. CASE CodeDelivers(p)
    BY <2>5 DEF CodeDelivers, Goto
  <2>6. CASE Interrupted(p)
    BY <1>d, <2>6 DEF Interrupted
  <2>7. CASE Killed(p)
    BY <2>7 DEF Killed, AbandonDir, Done, Goto
  <2>8. CASE UpGetsPassword(p)
    BY <1>b, <2>8 DEF UpGetsPassword
  <2>9. CASE UpGetsNoPassword(p)
    BY <2>9 DEF UpGetsNoPassword, Done, Goto
  <2> QED BY <1>2, <2>1, <2>2, <2>3, <2>4, <2>5, <2>6, <2>7, <2>8, <2>9
         DEF UserStep
<1>3. CASE BoxBoots
  BY <1>3 DEF BoxBoots, ContainerWrites
<1>4. CASE BoxResolvesPin
  BY <1>4 DEF BoxResolvesPin, Probes, SeenLearned
<1>5. CASE BoxSubmits
  <2>1. conf.type = "vpn" => mounted
    <3>1. conf.type = "vpn" => "password" \in Credentials
      BY DEF Credentials
    <3> QED BY <1>5, <3>1 DEF BoxSubmits, Seen
  <2>2. "ready" \in files' => "ready" \in files
    BY <1>5 DEF BoxSubmits, ContainerWrites
  <2> QED BY <1>5, <2>1, <2>2 DEF BoxSubmits
<1>6. CASE BoxConnects
  BY <1>6 DEF BoxConnects, Accepted, SeenLearned
<1>7. CASE BoxTakesCode
  BY <1>7 DEF BoxTakesCode, ContainerWrites
<1>8. CASE BoxIsReady
  BY <1>8 DEF BoxIsReady, LoginSeen, ContainerWrites
<1>9. CASE BoxLogsIn
  BY <1>9 DEF BoxLogsIn, LoginSeen
<1>10. CASE BoxTimesOut
  BY <1>10 DEF BoxTimesOut, Bounded, Stops
<1>11. CASE BoxDies
  BY <1>11 DEF BoxDies, Stops
<1>12. CASE BoxRestarts
  BY <1>12 DEF BoxRestarts
<1>13. CASE GatewayChanges
  BY <1>13 DEF GatewayChanges
<1>14. CASE UNCHANGED vars
  BY <1>14 DEF vars
<1> QED BY <1>1, <1>2, <1>3, <1>4, <1>5, <1>6, <1>7, <1>8, <1>9, <1>10, <1>11, <1>12,
           <1>13, <1>14 DEF Next, BoxStep

LEMMA TofuRefinesInit == Init => Tofu!Init
BY DEF Init, Tofu!Init

\* A tunnel that comes up is a Connect, a stored identity a Pin; whatever else
\* happens changes neither.
LEMMA TofuRefinesNext ==
    ASSUME LoginsSeen
    PROVE  TofuInv /\ [Next]_vars => [Tofu!Next]_(Tofu!tofuVars)
<1> SUFFICES ASSUME TofuInv, [Next]_vars PROVE [Tofu!Next]_(Tofu!tofuVars)
  OBVIOUS
<1> USE DEF Tofu!tofuVars, Tofu!Next
<1>1. ASSUME PersistTrust, "ready" \in files, UNCHANGED proven
      PROVE  [Tofu!Next]_(Tofu!tofuVars)
  <2>1. CASE learned = NoCert \/ store = learned
    BY <1>1, <2>1 DEF PersistTrust
  <2>2. CASE learned # NoCert /\ store = NoCert
    <3>1. learned \in Certs /\ learned \in proven
      BY <1>1, <2>2 DEF TofuInv, PinInv, LiveInv, TypeOK, Cert, Vouched
    <3>2. Tofu!Pin(learned)
      BY <1>1, <2>2, <3>1 DEF PersistTrust, Tofu!Pin
    <3> QED BY <3>1, <3>2
  <2>3. store \in {NoCert, learned} \/ learned = NoCert
    BY <1>1 DEF TofuInv, Enforced
  <2> QED BY <2>1, <2>2, <2>3
<1>2. CASE BoxIsReady
  <2>1. UNCHANGED store
    BY <1>2 DEF BoxIsReady
  <2>2. CASE ~LoginSeen
    BY <1>2, <2>1, <2>2 DEF BoxIsReady
  <2>3. CASE LoginSeen
    <3>1. session \in Certs /\ store \in {NoCert, session}
      BY <1>2, <2>3 DEF BoxIsReady, TofuInv, PinInv, LiveInv, TypeOK, Cert, Enforced
    <3>2. Tofu!Connect(session)
      BY <1>2, <2>1, <2>3, <3>1 DEF BoxIsReady, Tofu!Connect
    <3> QED BY <3>1, <3>2
  <2> QED BY <2>2, <2>3
<1>3. ASSUME NEW p \in Procs, UpSeesReady(p) \/ CodeSeesReady(p)
      PROVE  [Tofu!Next]_(Tofu!tofuVars)
  BY <1>1, <1>3 DEF UpSeesReady, CodeSeesReady
<1>4. ASSUME NEW p \in Procs, CliStep(p), ~UpSeesReady(p), ~CodeSeesReady(p)
      PROVE  UNCHANGED <<store, proven>>
  BY <1>4 DEF CliStep, UpRefuses, UpPrepare, BuildAuthDir, UpAsksPassword, UpFindsNoKey,
              UpGetsNoNetwork, Exits, UpRun, UpRunFails, UpGivesUp, UpHandsOff,
              UpAsks, UpExits, RemoveBox, RemoveDir, CodeGivesUp
<1>5. ASSUME NEW p \in Procs, UserStep(p) PROVE UNCHANGED <<store, proven>>
  BY <1>5 DEF UserStep, UpStart, UpGetsPassword, BuildAuthDir, UpGetsNoPassword,
              UpSendsCode, UpGetsNoCode, Down, CodeDelivers, Interrupted, Exits, Killed
<1>6. CASE BoxBoots \/ BoxResolvesPin \/ BoxSubmits \/ BoxConnects \/ BoxTakesCode
           \/ BoxTimesOut
  BY <1>6 DEF BoxBoots, BoxResolvesPin, BoxSubmits, BoxConnects, BoxTakesCode,
              BoxTimesOut, Stops
<1>7. ~BoxLogsIn
  BY LoginsSeen DEF LoginsSeen, BoxLogsIn, LoginSeen, TofuInv, PinInv, LiveInv, TypeOK
<1>8. CASE BoxDies \/ BoxRestarts \/ GatewayChanges \/ UNCHANGED vars
  BY <1>8 DEF BoxDies, Stops, BoxRestarts, GatewayChanges, vars
<1> QED BY <1>2, <1>3, <1>4, <1>5, <1>6, <1>7, <1>8 DEF Next, BoxStep

\* With one up or down at a time, a tunnel keeps the promise of trust on first
\* use: for every number of watchers, every crash, restart and removal, and
\* whoever answers as the gateway.
THEOREM TunnelImplementsTofu ==
    ASSUME Serial, LoginsSeen, KeysKept
    PROVE  Spec => ImplementsTofu
<1>1. TofuInv /\ [Next]_vars => TofuInv' /\ [Tofu!Next]_(Tofu!tofuVars)
  BY TofuInductive, TofuRefinesNext
<1> QED BY <1>1, TofuInitially, TofuRefinesInit, PTL DEF Spec, ImplementsTofu, Tofu!Spec

-----------------------------------------------------------------------------
(* The secrets, with any number of commands at work.                       *)

\* Every tunnel erases its secrets before it waits for a code.
ErasesFirst == \A c \in Confs : c.type = "ipsec" /\ c.totp = "manual" => c.restart

\* Secrets that nobody has left behind have somebody in charge, and a container that
\* waits for a code has erased them, so that the process in charge may hand over.
SecretInv ==
    /\ TypeOK
    /\ ~conf.restart =>
         /\ ~left /\ files \cap Secrets # {} => \E p \in Procs : InCharge(p)
         /\ "awaiting_code" \in files => files \cap Secrets = {}
         /\ files \cap Secrets \subseteq Credentials

\* Steps of a process: whoever is in charge stays so, or leaves no secret behind.
LEMMA ProcessKeepsSecrets ==
    ASSUME SecretInv, TypeOK', ~conf.restart, NEW p \in Procs, CliStep(p) \/ UserStep(p)
    PROVE  SecretInv'
<1> USE DEF SecretInv, TypeOK
<1>1. conf' = conf /\ Credentials' = Credentials /\ Credentials \subseteq Secrets
  BY ConfsAssumption
     DEF CliStep, UserStep, UpRefuses, UpPrepare, BuildAuthDir, UpAsksPassword, UpFindsNoKey,
         UpGetsNoNetwork, Exits, UpRun, UpRunFails, UpSeesReady, UpGivesUp, UpHandsOff, UpAsks,
         UpExits, RemoveBox, RemoveDir, CodeSeesReady, CodeGivesUp, UpStart, UpGetsPassword,
         UpGetsNoPassword, UpSendsCode, UpGetsNoCode, Down, CodeDelivers, Interrupted, Killed,
         worldVars, Credentials, Asks, Conf, Types, Secrets
<1> USE <1>1 DEF InCharge, Waiting, Secrets, Markers, dirVars, Goto, Done, RemoveThen,
              RemoveAuthDir
<1>a. ASSUME BuildAuthDir(p) PROVE SecretInv'
  <2>1. files' = Credentials /\ pc'[p] = "run"
    BY <1>a DEF BuildAuthDir
  <2> QED BY <2>1
<1>b. ASSUME AbandonDir(p), Done(p) PROVE SecretInv'
  <2>1. ~left' /\ files' \cap Secrets # {} => \E q \in Procs : InCharge(q) /\ q # p
    BY <1>b DEF AbandonDir
  <2>2. \A q \in Procs : q # p /\ InCharge(q) => InCharge(q)'
    BY <1>b
  <2> QED BY <1>b, <2>1, <2>2 DEF AbandonDir
<1>c. ASSUME Exits(p) PROVE SecretInv'
  <2>1. CASE TrapArmed(p)
    BY <1>c, <2>1 DEF Exits
  <2>2. CASE ~TrapArmed(p)
    BY <1>b, <1>c, <2>2 DEF Exits
  <2> QED BY <2>1, <2>2
<1>2. CASE UpRefuses(p)     BY <1>2 DEF UpRefuses
<1>3. CASE UpPrepare(p)     BY <1>a, <1>3 DEF UpPrepare
<1>4. CASE UpRun(p)         BY <1>4 DEF UpRun
<1>5. CASE UpRunFails(p)    BY <1>5 DEF UpRunFails
<1>6. CASE UpSeesReady(p)   BY <1>6 DEF UpSeesReady
<1>7. CASE UpGivesUp(p)     BY <1>7 DEF UpGivesUp
<1>8. CASE UpHandsOff(p)    BY <1>8 DEF UpHandsOff
<1>9. CASE UpAsks(p)        BY <1>9 DEF UpAsks
<1>10. CASE UpExits(p)      BY <1>10 DEF UpExits
<1>11. CASE RemoveBox(p)    BY <1>11 DEF RemoveBox
<1>12. CASE RemoveDir(p)
  <2>1. files' = {}
    BY <1>12 DEF RemoveDir
  <2> QED BY <2>1
<1>13. CASE CodeSeesReady(p) \/ CodeGivesUp(p)
  BY <1>13 DEF CodeSeesReady, CodeGivesUp
<1>14. ASSUME NEW np \in BOOLEAN, UpStart(p, np) PROVE SecretInv'
  BY <1>14 DEF UpStart, MayStart
<1>15. CASE UpSendsCode(p)   BY <1>15 DEF UpSendsCode
<1>16. CASE UpGetsNoCode(p)  BY <1>16 DEF UpGetsNoCode
<1>17. CASE Down(p)          BY <1>17 DEF Down, MayStart
<1>18. CASE CodeDelivers(p)  BY <1>18 DEF CodeDelivers
<1>19. CASE Interrupted(p) \/ UpGetsNoNetwork(p)
  BY <1>c, <1>19 DEF Interrupted, UpGetsNoNetwork
<1>20. CASE Killed(p)        BY <1>b, <1>20 DEF Killed
<1>21. CASE UpAsksPassword(p) BY <1>21 DEF UpAsksPassword
<1>22. CASE UpFindsNoKey(p)  BY <1>22 DEF UpFindsNoKey
<1>23. CASE UpGetsPassword(p) BY <1>a, <1>23 DEF UpGetsPassword
<1>24. CASE UpGetsNoPassword(p) BY <1>24 DEF UpGetsNoPassword
<1> QED BY <1>2, <1>3, <1>4, <1>5, <1>6, <1>7, <1>8, <1>9, <1>10, <1>11, <1>12, <1>13,
           <1>14, <1>15, <1>16, <1>17, <1>18, <1>19, <1>20, <1>21, <1>22, <1>23, <1>24
        DEF CliStep, UserStep

\* The container only erases, and is done when it starts to wait for a code.
LEMMA ContainerKeepsSecrets ==
    ASSUME ErasesFirst, SecretInv, TypeOK', ~conf.restart,
           BoxStep \/ BoxDies \/ BoxRestarts \/ GatewayChanges
    PROVE  SecretInv'
<1> USE DEF SecretInv, InCharge
<1>1. UNCHANGED <<conf, pc, left>>
  BY DEF BoxStep, BoxDies, BoxRestarts, GatewayChanges, BoxBoots, BoxResolvesPin, BoxSubmits,
         BoxConnects, BoxTakesCode, BoxIsReady, BoxLogsIn, BoxTimesOut, Stops, worldVars, dirVars, cliVars
<1>2. Credentials' = Credentials
  BY <1>1 DEF Credentials, Asks
<1>3. ASSUME files' \cap Secrets \subseteq files,
             "awaiting_code" \in files' =>
               "awaiting_code" \in files \/ files' \cap Secrets = {}
      PROVE  SecretInv'
  BY <1>1, <1>2, <1>3
<1>4. CASE BoxBoots
  BY <1>3, <1>4 DEF BoxBoots, ContainerWrites
<1>5. CASE BoxSubmits
  <2>1. CASE Manual
    <3>1. conf.type = "vpn"
      BY <2>1 DEF Manual, ErasesFirst, TypeOK
    <3>2. Credentials = {"password"} /\ ErasedOnUse = {"password"}
      BY <2>1, <3>1 DEF Manual, Credentials, ErasedOnUse
    <3>3. files' \cap Secrets \subseteq files
          /\ ("awaiting_code" \in files' =>
                "awaiting_code" \in files \/ files' \cap Secrets = {})
      BY <1>5, <2>1, <3>1, <3>2 DEF BoxSubmits, ContainerWrites, Secrets
    <3> QED BY <1>3, <3>3
  <2>2. CASE ~Manual
    BY <1>3, <1>5, <2>2 DEF BoxSubmits, ContainerWrites
  <2> QED BY <2>1, <2>2
<1>6. CASE BoxTakesCode
  BY <1>3, <1>6 DEF BoxTakesCode, ContainerWrites
<1>7. CASE BoxIsReady
  BY <1>3, <1>7 DEF BoxIsReady, ContainerWrites, Secrets
<1>8. CASE BoxResolvesPin \/ BoxConnects \/ BoxLogsIn \/ BoxTimesOut \/ BoxDies
           \/ BoxRestarts \/ GatewayChanges
  BY <1>3, <1>8 DEF BoxResolvesPin, BoxConnects, BoxLogsIn, BoxTimesOut, BoxDies, Stops,
                    BoxRestarts, GatewayChanges, dirVars
<1> QED BY <1>4, <1>5, <1>6, <1>7, <1>8 DEF BoxStep

LEMMA SecretsInductive == ASSUME ErasesFirst PROVE SecretInv /\ [Next]_vars => SecretInv'
<1> SUFFICES ASSUME SecretInv, [Next]_vars PROVE SecretInv'
  OBVIOUS
<1>1. TypeOK'
  BY TypeInductive DEF SecretInv
<1>2. conf' = conf
  <2>1. ASSUME NEW p \in Procs, CliStep(p) \/ UserStep(p) PROVE conf' = conf
    BY <2>1 DEF CliStep, UserStep, UpRefuses, UpPrepare, BuildAuthDir, UpAsksPassword,
                UpFindsNoKey, UpGetsNoNetwork, Exits, UpRun, UpRunFails, UpSeesReady,
                UpGivesUp, UpHandsOff, UpAsks, UpExits, RemoveBox, RemoveDir, CodeSeesReady,
                CodeGivesUp, UpStart, UpGetsPassword, UpGetsNoPassword, UpSendsCode,
                UpGetsNoCode, Down, CodeDelivers, Interrupted, Killed, worldVars
  <2>2. CASE BoxStep \/ BoxDies \/ BoxRestarts \/ GatewayChanges
    BY <2>2 DEF BoxStep, BoxDies, BoxRestarts, GatewayChanges, BoxBoots, BoxResolvesPin,
                BoxSubmits, BoxConnects, BoxTakesCode, BoxIsReady, BoxLogsIn, BoxTimesOut,
                Stops, worldVars
  <2> QED BY <2>1, <2>2 DEF Next, vars
<1>3. CASE conf.restart
  BY <1>1, <1>2, <1>3 DEF SecretInv
<1>4. CASE UNCHANGED vars
  BY <1>4 DEF SecretInv, TypeOK, InCharge, Credentials, Asks, Identities, vars
<1> QED BY <1>1, <1>3, <1>4, ProcessKeepsSecrets, ContainerKeepsSecrets DEF Next

\* Whoever ends, hands over or fails, in whatever order with the others, no secret
\* stays on disk once nobody is at work, unless the process that was to remove it ended
\* without doing so (left): for tunnels that erase their secrets before they wait for
\* a code.
THEOREM SecretsAreGone == ASSUME ErasesFirst PROVE Spec => []SecretsGone
<1>1. Init => SecretInv
  BY TypeInitially DEF Init, SecretInv
<1>2. SecretInv => SecretsGone
  BY DEF SecretInv, SecretsGone, InCharge, Waiting
<1> QED BY <1>1, <1>2, SecretsInductive, PTL DEF Spec
=============================================================================
