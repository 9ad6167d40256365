--------------------------- MODULE AutoCodeProofs ---------------------------
(***************************************************************************)
(* Proofs about AutoCode: the tunnel underneath remains one; a mailbox's   *)
(* codes are fresh; and a wait's source is asked again only after docker   *)
(* has failed to answer, or shown the container stopped.  Any number of    *)
(* commands may be at work at once, and docker may fail.                   *)
(***************************************************************************)
EXTENDS AutoCode, TunnelProofs

-----------------------------------------------------------------------------
(* The markers of a wait, in the tunnel alone                              *)

\* A container at work on anything but the code has no awaiting_code marker
\* beside it, and never one beside a ready marker.
MarkerOK ==
    "awaiting_code" \in files =>
        /\ "ready" \notin files
        /\ mounted => phase \notin {"trust", "auth", "tun", "up"}

LEMMA SecretsAreNoMarkers ==
    ASSUME TypeOK
    PROVE  Credentials \cap {"awaiting_code", "ready", "code"} = {}
BY ConfsAssumption DEF TypeOK, Credentials, Asks, Conf, Types

LEMMA MarkerInductive == LiveInv /\ MarkerOK /\ [Next]_vars => MarkerOK'
<1> SUFFICES ASSUME LiveInv, MarkerOK, [Next]_vars PROVE MarkerOK'
  OBVIOUS
<1> USE DEF LiveInv, TypeOK, BoxOK, ReadyIsLive, MarkerOK, cliVars, dirVars, boxVars, worldVars
<1>d. ASSUME NEW p \in Procs, Exits(p) PROVE MarkerOK'
  BY <1>d DEF Exits, AbandonDir, RemoveAuthDir
<1>1. ASSUME NEW p \in Procs, CliStep(p) PROVE MarkerOK'
  <2>1. CASE UpRefuses(p)   BY <2>1 DEF UpRefuses
  <2>2. CASE UpPrepare(p)   BY <2>2, SecretsAreNoMarkers DEF UpPrepare, BuildAuthDir
  <2>3. CASE UpRun(p)       BY <2>3 DEF UpRun
  <2>4. CASE UpRunFails(p)  BY <2>4 DEF UpRunFails, RemoveAuthDir
  <2>5. CASE UpSeesReady(p) BY <2>5 DEF UpSeesReady
  <2>6. CASE UpGivesUp(p)   BY <2>6 DEF UpGivesUp
  <2>7. CASE UpHandsOff(p)  BY <2>7 DEF UpHandsOff
  <2>8. CASE UpAsks(p)      BY <2>8 DEF UpAsks
  <2>9. CASE UpExits(p)     BY <2>9 DEF UpExits, RemoveAuthDir
  <2>10. CASE RemoveBox(p)  BY <2>10 DEF RemoveBox
  <2>11. CASE RemoveDir(p)  BY <2>11 DEF RemoveDir, RemoveAuthDir
  <2>12. CASE CodeSeesReady(p) BY <2>12 DEF CodeSeesReady
  <2>13. CASE CodeGivesUp(p) BY <2>13 DEF CodeGivesUp
  <2>14. CASE UpAsksPassword(p) BY <2>14 DEF UpAsksPassword
  <2>15. CASE UpFindsNoKey(p) BY <2>15 DEF UpFindsNoKey, RemoveAuthDir
  <2>16. CASE UpGetsNoNetwork(p) BY <1>d, <2>16 DEF UpGetsNoNetwork
  <2> QED BY <1>1, <2>1, <2>2, <2>3, <2>4, <2>5, <2>6, <2>7, <2>8, <2>9, <2>10,
             <2>11, <2>12, <2>13, <2>14, <2>15, <2>16 DEF CliStep
<1>2. ASSUME NEW p \in Procs, UserStep(p) PROVE MarkerOK'
  <2>1. ASSUME NEW np \in BOOLEAN, UpStart(p, np) PROVE MarkerOK'
    BY <2>1 DEF UpStart
  <2>2. CASE UpSendsCode(p)   BY <2>2 DEF UpSendsCode
  <2>3. CASE UpGetsNoCode(p)  BY <2>3 DEF UpGetsNoCode
  <2>4. CASE Down(p)          BY <2>4 DEF Down
  <2>5. CASE CodeDelivers(p)  BY <2>5 DEF CodeDelivers
  <2>6. CASE Interrupted(p)   BY <1>d, <2>6 DEF Interrupted
  <2>7. CASE Killed(p)        BY <2>7 DEF Killed, AbandonDir
  <2>8. CASE UpGetsPassword(p)
    BY <2>8, SecretsAreNoMarkers DEF UpGetsPassword, BuildAuthDir
  <2>9. CASE UpGetsNoPassword(p) BY <2>9 DEF UpGetsNoPassword
  <2> QED BY <1>2, <2>1, <2>2, <2>3, <2>4, <2>5, <2>6, <2>7, <2>8, <2>9
         DEF UserStep
<1>3. CASE BoxBoots       BY <1>3 DEF BoxBoots, ContainerWrites, ClearedAtStart
<1>4. CASE BoxResolvesPin BY <1>4 DEF BoxResolvesPin
<1>5. CASE BoxSubmits
  <2>1. CASE mounted /\ Manual
    BY <1>5, <2>1 DEF BoxSubmits, ContainerWrites
  <2>2. CASE ~(mounted /\ Manual)
    <3>1. files' \subseteq files
      BY <1>5, <2>2 DEF BoxSubmits, ContainerWrites
    <3> QED BY <1>5, <3>1 DEF BoxSubmits
  <2> QED BY <2>1, <2>2
<1>6. CASE BoxConnects    BY <1>6 DEF BoxConnects
<1>7. CASE BoxTakesCode   BY <1>7 DEF BoxTakesCode, ContainerWrites, Seen
<1>8. CASE BoxIsReady     BY <1>8 DEF BoxIsReady, ContainerWrites
<1>9. CASE BoxLogsIn      BY <1>9 DEF BoxLogsIn
<1>10. CASE BoxTimesOut   BY <1>10 DEF BoxTimesOut, Stops
<1>11. CASE BoxDies       BY <1>11 DEF BoxDies, Stops
<1>12. CASE BoxRestarts   BY <1>12 DEF BoxRestarts
<1>13. CASE GatewayChanges BY <1>13 DEF GatewayChanges
<1>14. CASE UNCHANGED vars BY <1>14 DEF vars
<1> QED BY <1>1, <1>2, <1>3, <1>4, <1>5, <1>6, <1>7, <1>8, <1>9, <1>10, <1>11, <1>12,
           <1>13, <1>14 DEF Next, BoxStep

\* A wait begins with the prompt of a container that works in the directory.
LEMMA WaitBegins ==
    ASSUME LiveInv, [Next]_vars, "awaiting_code" \in files', "awaiting_code" \notin files
    PROVE  phase = "auth" /\ mounted /\ phase' = "code"
<1> USE DEF LiveInv, TypeOK, cliVars, dirVars, boxVars, worldVars
<1>1. ASSUME NEW p \in Procs, CliStep(p) PROVE FALSE
  <2>1. CASE UpPrepare(p)   BY <2>1, SecretsAreNoMarkers DEF UpPrepare, BuildAuthDir
  <2>2. CASE ~UpPrepare(p)
    BY <1>1, <2>2 DEF CliStep, UpRefuses, UpAsksPassword, UpFindsNoKey, UpGetsNoNetwork, Exits,
         AbandonDir, UpRun, UpRunFails, UpSeesReady, UpGivesUp,
         UpHandsOff, UpAsks, UpExits, RemoveBox, RemoveDir, CodeSeesReady, CodeGivesUp,
         RemoveAuthDir
  <2> QED BY <2>1, <2>2
<1>2. ASSUME NEW p \in Procs, UserStep(p) PROVE FALSE
  <2>1. CASE UpGetsPassword(p)
    BY <2>1, SecretsAreNoMarkers DEF UpGetsPassword, BuildAuthDir
  <2>2. CASE ~UpGetsPassword(p)
    BY <1>2, <2>2 DEF UserStep, UpStart, UpGetsNoPassword, UpSendsCode, UpGetsNoCode, Down,
         CodeDelivers, Interrupted, Exits, AbandonDir, Killed, RemoveAuthDir
  <2> QED BY <2>1, <2>2
<1>3. CASE BoxSubmits
  BY <1>3 DEF BoxSubmits, ContainerWrites, Manual
<1>4. ASSUME ~BoxSubmits PROVE BoxStep \/ BoxDies \/ BoxRestarts \/ GatewayChanges => FALSE
  BY <1>4 DEF BoxStep, BoxBoots, BoxResolvesPin, BoxConnects, BoxTakesCode, BoxIsReady,
       BoxLogsIn, BoxTimesOut, BoxDies, BoxRestarts, GatewayChanges, Stops, ContainerWrites
<1>5. CASE UNCHANGED vars BY <1>5 DEF vars
<1> QED BY <1>1, <1>2, <1>3, <1>4, <1>5 DEF Next

\* A wait is answered by the entrypoint that took a code from the directory.
LEMMA CodeTaken ==
    ASSUME LiveInv, [Next]_vars, phase = "code", phase' = "tun"
    PROVE  mounted /\ "code" \in files /\ files' \cap {"code", "awaiting_code"} = {}
<1> USE DEF LiveInv, TypeOK, cliVars, dirVars, boxVars, worldVars
<1>1. ASSUME NEW p \in Procs, CliStep(p) PROVE FALSE
  BY <1>1 DEF CliStep, UpPrepare, BuildAuthDir, UpRefuses, UpAsksPassword, UpFindsNoKey,
       UpGetsNoNetwork, Exits, AbandonDir, UpRun, UpRunFails, UpSeesReady, UpGivesUp,
       UpHandsOff, UpAsks, UpExits, RemoveBox, RemoveDir, CodeSeesReady, CodeGivesUp,
       RemoveAuthDir
<1>2. ASSUME NEW p \in Procs, UserStep(p) PROVE FALSE
  BY <1>2 DEF UserStep, UpStart, UpGetsPassword, BuildAuthDir, UpGetsNoPassword, UpSendsCode,
       UpGetsNoCode, Down, CodeDelivers, Interrupted, Exits, AbandonDir, Killed,
       RemoveAuthDir
<1>3. CASE BoxTakesCode
  BY <1>3 DEF BoxTakesCode, ContainerWrites, Seen
<1>4. ASSUME ~BoxTakesCode
      PROVE  BoxStep \/ BoxDies \/ BoxRestarts \/ GatewayChanges => FALSE
  BY <1>4 DEF BoxStep, BoxBoots, BoxResolvesPin, BoxSubmits, BoxConnects, BoxIsReady,
       BoxLogsIn, BoxTimesOut, BoxDies, BoxRestarts, GatewayChanges, Stops
<1>5. CASE UNCHANGED vars BY <1>5 DEF vars
<1> QED BY <1>1, <1>2, <1>3, <1>4, <1>5 DEF Next

\* A start of the entrypoint begins without a code.
LEMMA StartsWithoutCode ==
    ASSUME LiveInv, [Next]_vars, mounted', phase' \in {"trust", "auth"}, "code" \in files'
    PROVE  mounted /\ phase \in {"trust", "auth"}
<1> USE DEF LiveInv, TypeOK, BoxOK, cliVars, dirVars, boxVars, worldVars
<1>1. ASSUME NEW p \in Procs, CliStep(p) PROVE mounted /\ phase \in {"trust", "auth"}
  BY <1>1 DEF CliStep, UpPrepare, BuildAuthDir, UpRefuses, UpAsksPassword, UpFindsNoKey,
       UpGetsNoNetwork, Exits, AbandonDir, UpRun, UpRunFails, UpSeesReady, UpGivesUp,
       UpHandsOff, UpAsks, UpExits, RemoveBox, RemoveDir, CodeSeesReady, CodeGivesUp,
       RemoveAuthDir
<1>2. ASSUME NEW p \in Procs, UserStep(p) PROVE mounted /\ phase \in {"trust", "auth"}
  BY <1>2 DEF UserStep, UpStart, UpGetsPassword, BuildAuthDir, UpGetsNoPassword, UpSendsCode,
       UpGetsNoCode, Down, CodeDelivers, Interrupted, Exits, AbandonDir, Killed,
       RemoveAuthDir
<1>3. CASE BoxBoots
  BY <1>3 DEF BoxBoots, ContainerWrites, ClearedAtStart
<1>4. ASSUME ~BoxBoots
      PROVE  BoxStep \/ BoxDies \/ BoxRestarts \/ GatewayChanges
               => mounted /\ phase \in {"trust", "auth"}
  BY <1>4 DEF BoxStep, BoxResolvesPin, BoxSubmits, BoxConnects, BoxTakesCode, BoxIsReady,
       BoxLogsIn, BoxTimesOut, BoxDies, BoxRestarts, GatewayChanges, Stops
<1>5. CASE UNCHANGED vars BY <1>5 DEF vars
<1> QED BY <1>1, <1>2, <1>3, <1>4, <1>5 DEF Next

-----------------------------------------------------------------------------
(* The daemon's own variables                                              *)

Fetches == [at : {"none", "fetch", "deliver"}, wait : Nat]

DaemonOK ==
    /\ source \in Sources
    /\ loop \in {"sleep", "state", "arm", "stat", "end"}
    /\ seen \in BOOLEAN /\ armed \in BOOLEAN
    /\ fetch \in [Fetchers -> Fetches]
    /\ waits \in Nat
    /\ asked \subseteq Nat
    /\ lapsed \in BOOLEAN

\* Whatever the daemon does, the tunnel under it takes a step of its own, or none.
LEMMA TunnelUnderneath == AutoNext => [Next]_vars
<1>1. TunnelSteps => Next
  BY DEF TunnelSteps
<1>2. LoopStep => UNCHANGED vars
  BY DEF LoopStep, PollBegins, PollReadsState, PollGetsNoState, Arm, GivesUpOnMarker,
         AskSource, PollEnds
<1>3. ASSUME NEW f \in Fetchers, FetchStep(f) PROVE [Next]_vars
  <2>1. CASE Deliver(f)
    BY <2>1 DEF Deliver, Next, UserStep
  <2>2. CASE ~Deliver(f)
    BY <1>3, <2>2 DEF FetchStep, SourceAnswers, SourceFails, DeliverFails
  <2> QED BY <2>1, <2>2
<1> QED BY <1>1, <1>2, <1>3 DEF AutoNext

LEMMA DaemonInductive ==
    LiveInv /\ DaemonOK /\ [AutoNext]_autoVars => DaemonOK'
<1> SUFFICES ASSUME LiveInv, DaemonOK, [AutoNext]_autoVars PROVE DaemonOK'
  OBVIOUS
<1> USE DEF DaemonOK, Fetches, Free, Marker, Noted, daemonVars
<1>1. CASE TunnelSteps
  BY <1>1 DEF TunnelSteps
<1>2. CASE LoopStep
  <2>1. CASE PollBegins     BY <2>1 DEF PollBegins
  <2>2. CASE PollReadsState BY <2>2 DEF PollReadsState
  <2>3. CASE Arm            BY <2>3 DEF Arm
  <2>4. CASE GivesUpOnMarker BY <2>4 DEF GivesUpOnMarker
  <2>5. ASSUME NEW f \in Fetchers, AskSource(f) PROVE DaemonOK'
    BY <2>5 DEF AskSource
  <2>6. CASE PollEnds       BY <2>6 DEF PollEnds, Disarmed
  <2>7. CASE PollGetsNoState BY <2>7 DEF PollGetsNoState
  <2> QED BY <1>2, <2>1, <2>2, <2>3, <2>4, <2>5, <2>6, <2>7 DEF LoopStep
<1>3. ASSUME NEW f \in Fetchers, FetchStep(f) PROVE DaemonOK'
  <2>1. CASE SourceAnswers(f) BY <2>1 DEF SourceAnswers
  <2>2. CASE SourceFails(f)   BY <2>2 DEF SourceFails
  <2>3. CASE Deliver(f)       BY <2>3 DEF Deliver
  <2>4. CASE DeliverFails(f)  BY <2>4 DEF DeliverFails
  <2> QED BY <1>3, <2>1, <2>2, <2>3, <2>4 DEF FetchStep
<1>4. CASE UNCHANGED autoVars
  BY <1>4 DEF autoVars
<1> QED BY <1>1, <1>2, <1>3, <1>4 DEF AutoNext

\* What both theorems stand on.
AutoInv == LiveInv /\ MarkerOK /\ DaemonOK

LEMMA AutoInitially == AutoInit => AutoInv
<1> SUFFICES ASSUME AutoInit PROVE AutoInv
  OBVIOUS
<1>1. LiveInv
  BY LiveInitially DEF AutoInit
<1>2. MarkerOK
  BY DEF AutoInit, Init, MarkerOK
<1>3. DaemonOK
  BY DEF AutoInit, DaemonOK, Fetches, Free
<1> QED BY <1>1, <1>2, <1>3 DEF AutoInv

LEMMA AutoInductive == AutoInv /\ [AutoNext]_autoVars => AutoInv'
<1> SUFFICES ASSUME AutoInv, [AutoNext]_autoVars PROVE AutoInv'
  OBVIOUS
<1>1. [Next]_vars
  BY TunnelUnderneath DEF autoVars
<1> QED BY <1>1, LiveInductive, MarkerInductive, DaemonInductive DEF AutoInv

-----------------------------------------------------------------------------
(* The tunnel under the daemon                                             *)

\* With WaitingLoop and maybeAutoCode at work a tunnel is still one of Tunnel's: what the
\* daemon writes, deliverCode writes as any other process that runs t-forward code, and the
\* theorems about Tunnel hold with the daemon as they do without.
THEOREM AutomatedTunnelIsTunnel == AutoSpec => Spec
<1>1. AutoInit => Init
  BY DEF AutoInit
<1>2. [AutoNext]_autoVars => [Next]_vars
  BY TunnelUnderneath DEF autoVars
<1> QED BY <1>1, <1>2, PTL DEF AutoSpec, Spec

-----------------------------------------------------------------------------
(* The mailbox's codes                                                     *)

\* A code that is on its way or lies in the directory belongs to the last wait;
\* when the container is on its way to a new one, none lies there.
FreshOK ==
    /\ source = "imap" =>
         /\ \A f \in Fetchers : fetch[f].at = "fetch" => fetch[f].wait # 0
         /\ \A f \in Fetchers : fetch[f].at = "deliver" => fetch[f].wait = waits
         /\ \A w \in codeOf : w = waits
    /\ codeOf # {} /\ mounted => phase \notin {"trust", "auth"}

FreshInv == AutoInv /\ FreshOK /\ ImapCodeFresh

LEMMA FreshInductive ==
    ASSUME SlowPrompts
    PROVE  FreshInv /\ [AutoNext]_autoVars => FreshInv'
<1> SUFFICES ASSUME FreshInv, [AutoNext]_autoVars PROVE FreshOK' /\ ImapCodeFresh'
  BY AutoInductive DEF FreshInv
<1> USE DEF FreshInv, AutoInv, DaemonOK, Fetches, Free, daemonVars
<1>0. [Next]_vars
  BY TunnelUnderneath DEF autoVars
<1>1. CASE TunnelSteps
  <2>1. codeOf' \subseteq codeOf /\ UNCHANGED <<source, fetch>>
    BY <1>1 DEF TunnelSteps
  <2>2. codeOf' # {} => "code" \in files'
    BY <1>1 DEF TunnelSteps
  <2>3. codeOf' # {} /\ mounted' => phase' \notin {"trust", "auth"}
    BY <1>0, <2>1, <2>2, StartsWithoutCode DEF FreshOK
  <2>4. CASE waits' = waits
    <3>1. FreshOK'
      BY <2>1, <2>3, <2>4 DEF FreshOK
    <3>2. \A t \in taken' : t \in taken \/ (\E w \in codeOf : t = <<w, waits>>)
      BY <1>1 DEF TunnelSteps
    <3> QED BY <2>1, <3>1, <3>2 DEF FreshOK, ImapCodeFresh
  <2>5. CASE waits' # waits
    <3>1. "awaiting_code" \in files' /\ "awaiting_code" \notin files /\ MayPrompt
      BY <1>1, <2>5 DEF TunnelSteps
    <3>2. phase = "auth" /\ mounted /\ phase' = "code"
      BY <1>0, <3>1, WaitBegins
    <3>3. codeOf' = {} /\ \A f \in Fetchers : fetch[f].at # "deliver"
      BY <2>1, <3>1, <3>2, SlowPrompts DEF FreshOK, MayPrompt
    <3>4. taken' = taken
      BY <1>1, <3>2 DEF TunnelSteps
    <3> QED BY <2>1, <2>3, <3>3, <3>4 DEF FreshOK, ImapCodeFresh
  <2> QED BY <2>4, <2>5
<1>2. CASE LoopStep
  <2>1. UNCHANGED <<source, waits, codeOf, taken, mounted, phase>>
    BY <1>2 DEF LoopStep, PollBegins, PollReadsState, PollGetsNoState, Arm, GivesUpOnMarker,
         AskSource, PollEnds, vars
  <2>2. ASSUME NEW f \in Fetchers, AskSource(f) PROVE FreshOK'
    BY <2>1, <2>2 DEF AskSource, Noted, FreshOK
  <2>3. ASSUME ~\E f \in Fetchers : AskSource(f) PROVE fetch' = fetch
    BY <1>2, <2>3 DEF LoopStep, PollBegins, PollReadsState, PollGetsNoState, Arm,
         GivesUpOnMarker, PollEnds
  <2> QED BY <2>1, <2>2, <2>3 DEF FreshOK, ImapCodeFresh
<1>3. ASSUME NEW f \in Fetchers, FetchStep(f) PROVE FreshOK' /\ ImapCodeFresh'
  <2>1. UNCHANGED <<source, waits, taken, mounted, phase>>
    BY <1>3 DEF FetchStep, SourceAnswers, SourceFails, Deliver, DeliverFails, CodeDelivers,
         vars, boxVars
  <2>2. CASE SourceAnswers(f)
    BY <2>1, <2>2 DEF SourceAnswers, SameWait, Marker, FreshOK, ImapCodeFresh
  <2>3. CASE SourceFails(f)
    BY <2>1, <2>3 DEF SourceFails, FreshOK, ImapCodeFresh
  <2>4. CASE Deliver(f)
    <3>1. "awaiting_code" \in files
      BY <2>4 DEF Deliver, CodeDelivers
    <3>2. mounted => phase \notin {"trust", "auth"}
      BY <3>1 DEF MarkerOK
    <3> QED BY <2>1, <2>4, <3>2 DEF Deliver, FreshOK, ImapCodeFresh
  <2>5. CASE DeliverFails(f)
    BY <2>1, <2>5 DEF DeliverFails, FreshOK, ImapCodeFresh
  <2> QED BY <1>3, <2>2, <2>3, <2>4, <2>5 DEF FetchStep
<1>4. CASE UNCHANGED autoVars
  BY <1>4 DEF autoVars, vars, FreshOK, ImapCodeFresh
<1> QED BY <1>1, <1>2, <1>3, <1>4 DEF AutoNext

\* A mailbox's code is entered in the wait it was fetched for, whatever commands
\* run at once, processes die and docker leaves unanswered, as long as a tunnel
\* that lost its wait is slower to ask again than the daemon to hand a code on.
THEOREM MailCodesAreFresh ==
    ASSUME SlowPrompts
    PROVE  AutoSpec => []ImapCodeFresh
<1>1. AutoInit => FreshInv
  BY AutoInitially DEF AutoInit, FreshInv, FreshOK, ImapCodeFresh, Free, Init
<1>2. FreshInv => ImapCodeFresh
  BY DEF FreshInv
<1> QED BY <1>1, <1>2, FreshInductive, PTL DEF AutoSpec

-----------------------------------------------------------------------------
(* One question per wait                                                   *)

\* While docker has answered and shown the container running since the source was asked,
\* the tunnel stays armed in the wait that was asked for, and the poll that is about to
\* disarm what it did not see has seen it.
AskedOK ==
    /\ asked \subseteq 1..waits
    /\ loop \in {"arm", "stat"} => seen
    /\ loop = "stat" => armed /\ (Marker \in asked => lapsed)
    /\ Marker \in asked /\ ~lapsed => armed /\ (loop = "end" => seen)

AskedInv == AutoInv /\ AskedOK

LEMMA AskedInductive == AskedInv /\ [AutoNext]_autoVars => AskedInv'
<1> SUFFICES ASSUME AskedInv, [AutoNext]_autoVars PROVE AskedOK'
  BY AutoInductive DEF AskedInv
<1> USE DEF AskedInv, AutoInv, DaemonOK, Fetches, Free, daemonVars
<1>1. CASE TunnelSteps
  <2>1. UNCHANGED <<loop, seen, armed, asked, lapsed>>
    BY <1>1 DEF TunnelSteps
  <2>2. CASE "awaiting_code" \in files' /\ "awaiting_code" \notin files
    <3>1. waits' = waits + 1
      BY <1>1, <2>2 DEF TunnelSteps
    <3>2. Marker' \notin asked' /\ asked' \subseteq 1..waits'
      BY <2>1, <2>2, <3>1 DEF Marker, AskedOK
    <3> QED BY <2>1, <3>2 DEF AskedOK
  <2>3. CASE ~("awaiting_code" \in files' /\ "awaiting_code" \notin files)
    <3>1. waits' = waits
      BY <1>1, <2>3 DEF TunnelSteps
    <3>2. 0 \notin asked
      BY DEF AskedOK
    <3>3. Marker' \in asked' => Marker' = Marker
      BY <2>1, <2>3, <3>1, <3>2 DEF Marker
    <3> QED BY <2>1, <3>1, <3>3 DEF AskedOK
  <2> QED BY <2>2, <2>3
<1>2. CASE LoopStep
  <2>1. UNCHANGED <<waits, files>> /\ Marker' = Marker
    BY <1>2 DEF LoopStep, PollBegins, PollReadsState, PollGetsNoState, Arm, GivesUpOnMarker,
         AskSource, PollEnds, vars, Marker
  <2>2. Marker \in asked => LooksWaiting
    BY DEF Marker, LooksWaiting, MarkerOK, AskedOK
  <2>3. CASE PollBegins
    BY <2>1, <2>2, <2>3 DEF PollBegins, AskedOK
  <2>4. CASE PollReadsState
    BY <2>1, <2>2, <2>4 DEF PollReadsState, AskedOK
  <2>5. CASE PollGetsNoState
    BY <2>1, <2>5 DEF PollGetsNoState, AskedOK
  <2>6. CASE Arm
    BY <2>1, <2>6 DEF Arm, Fires, AskedOK
  <2>7. CASE GivesUpOnMarker
    BY <2>1, <2>7 DEF GivesUpOnMarker, AskedOK
  <2>8. ASSUME NEW f \in Fetchers, AskSource(f) PROVE AskedOK'
    <3>1. Marker \in 0..waits
      BY DEF Marker
    <3> QED BY <2>1, <2>8, <3>1 DEF AskSource, AskedOK
  <2>9. CASE PollEnds
    BY <2>1, <2>9 DEF PollEnds, Disarmed, AskedOK
  <2> QED BY <1>2, <2>3, <2>4, <2>5, <2>6, <2>7, <2>8, <2>9 DEF LoopStep
<1>3. ASSUME NEW f \in Fetchers, FetchStep(f) PROVE AskedOK'
  <2>1. UNCHANGED <<loop, seen, armed, asked, lapsed, waits>>
    BY <1>3 DEF FetchStep, SourceAnswers, SourceFails, Deliver, DeliverFails
  <2>2. Marker' = Marker
    BY <1>3, <2>1 DEF FetchStep, SourceAnswers, SourceFails, Deliver, DeliverFails,
         CodeDelivers, vars, Marker
  <2> QED BY <2>1, <2>2 DEF AskedOK
<1>4. CASE UNCHANGED autoVars
  BY <1>4 DEF autoVars, vars, AskedOK, Marker
<1> QED BY <1>1, <1>2, <1>3, <1>4 DEF AutoNext

\* A wait's source is asked once, and once more only when docker has failed to answer a poll
\* since, or has shown it the container stopped: however many commands run at once, however
\* often the tunnel is torn down and started again, whatever dies meanwhile, and however
\* fast new waits begin.
THEOREM AskedOncePerWait == AutoSpec => OncePerWait
<1>1. AutoInit => AskedInv
  <2> SUFFICES ASSUME AutoInit PROVE AskedInv
    OBVIOUS
  <2>1. AskedOK
    BY DEF AutoInit, AskedOK
  <2> QED BY <2>1, AutoInitially DEF AskedInv
<1>2. AskedInv => \A f \in Fetchers : AskSource(f) /\ Marker \in asked => lapsed
  BY DEF AskedInv, AskedOK, AskSource
<1> QED BY <1>1, <1>2, AskedInductive, PTL DEF AutoSpec, OncePerWait
=============================================================================
