------------------------------ MODULE AutoCode ------------------------------
(***************************************************************************)
(* Code automation: the web daemon polls the auth directories for tunnels  *)
(* that wait for a verification code, asks the configured source (a mailbox *)
(* or totp_command) and hands the code to t-forward code.                  *)
(*                                                                         *)
(* The tunnel is module Tunnel, step for step; its waits are numbered by   *)
(* the awaiting_code marker that begins each of them.  A one-time code is  *)
(* known by the wait its source was asked for.                             *)
(***************************************************************************)
EXTENDS Tunnel, Integers

CONSTANTS
    Uses,           \* the configurations considered, each with the source of its codes
    Fetchers,       \* goroutines of maybeAutoCode that may be at work
    MaxWaits,       \* bound: waits for a code
    Deserters,      \* bound: the sources for whose tunnels a command may end and
                    \* leave its secrets behind
    SlowPrompts     \* does a tunnel need longer to come back to its prompt than
                    \* the daemon needs for a poll, or to hand a code on?

Sources == {"imap", "command", "none"}

\* useIMAP: the code of a vpn tunnel, of either protocol, that has no totp_secret.
ASSUME UsesAssumption ==
    /\ Uses \subseteq Confs \X Sources
    /\ \A u \in Uses : u[2] = "imap" => u[1].totp = "manual" /\ u[1].type \in {"vpn", "ipsec"}
ASSUME MaxWaitsAssumption == MaxWaits \in Nat
ASSUME DesertersAssumption == Deserters \subseteq Sources
ASSUME TimingAssumption == SlowPrompts \in BOOLEAN

VARIABLES
    source,   \* the source of this tunnel's codes, fixed
    loop,     \* where WaitingLoop is in its poll
    seen,     \* waitingNow: did this poll, or else the last one, see the tunnel wait?
    armed,    \* has the source been asked in this wait?
    fetch,    \* what each goroutine does, and for which wait
    waits,    \* waits begun so far
    codeOf,   \* the wait for which the mailbox's code in the code file was fetched
    asked,    \* history: the waits a source was asked for
    lapsed,   \* history: has docker failed to answer a poll, or shown it a container
              \* that does not run, since a source was last asked?
    taken     \* history: the mailbox's codes the container took, and in which waits

daemonVars == <<source, loop, seen, armed, fetch, asked, lapsed>>
autoVars == <<vars, daemonVars, waits, codeOf, taken>>

Free == [at |-> "none", wait |-> 0]

AutoInit ==
    /\ Init
    /\ source \in Sources /\ <<conf, source>> \in Uses
    /\ loop = "sleep" /\ seen = FALSE /\ armed = FALSE
    /\ fetch = [f \in Fetchers |-> Free]
    /\ waits = 0
    /\ codeOf = {} /\ asked = {} /\ lapsed = FALSE /\ taken = {}

\* The wait whose marker lies in the auth directory (0: none), known by the marker's
\* inode and time.
Marker == IF "awaiting_code" \in files THEN waits ELSE 0

-----------------------------------------------------------------------------
(* The tunnel, seen by the daemon                                          *)

\* A user has typed the code that now lies in the directory.
Typed == \E p \in Procs : pc'[p] \in {"sent", "poll"} /\ pc'[p] # pc[p]

\* With slow prompts the last poll has seen the earlier wait gone, and no code of
\* it is on its way, when a new one begins.
MayPrompt ==
    SlowPrompts => /\ loop = "sleep" /\ ~seen
                   /\ \A f \in Fetchers : fetch[f].at # "deliver"

TunnelSteps ==
    /\ Next
    /\ source \in Deserters \/ ~left'
    /\ IF "awaiting_code" \in files' \ files
       THEN MayPrompt /\ waits < MaxWaits /\ waits' = waits + 1
       ELSE UNCHANGED waits
    /\ codeOf' = IF "code" \in files' /\ ~Typed THEN codeOf ELSE {}
    /\ taken' = IF phase = "code" /\ phase' = "tun"
                THEN taken \cup {<<w, waits>> : w \in codeOf} ELSE taken
    /\ UNCHANGED daemonVars

-----------------------------------------------------------------------------
(* WaitingLoop                                                             *)

\* isWaiting: the marker without ready.
LooksWaiting == "awaiting_code" \in files /\ "ready" \notin files

\* A poll looks through the auth directories; without a source it does nothing for
\* the tunnel.
PollBegins ==
    /\ loop = "sleep"
    /\ source # "none"
    /\ loop' = IF LooksWaiting THEN "state" ELSE "end"
    /\ seen' = FALSE
    /\ UNCHANGED <<vars, source, armed, fetch, waits, codeOf, asked, lapsed, taken>>

\* Then docker says whether the container still runs.
PollReadsState ==
    /\ loop = "state"
    /\ seen' = (LooksWaiting /\ box = "running")
    /\ lapsed' = (lapsed \/ box # "running")
    /\ loop' = IF seen' THEN "arm" ELSE "end"
    /\ UNCHANGED <<vars, source, armed, fetch, waits, codeOf, asked, taken>>

\* docker ps fails, which State() ignores: no tunnel is known to wait.
PollGetsNoState ==
    /\ loop = "state"
    /\ seen' = FALSE
    /\ lapsed' = TRUE
    /\ loop' = "end"
    /\ UNCHANGED <<vars, source, armed, fetch, waits, codeOf, asked, taken>>

\* Mutant: the arming is forgotten.
AlwaysFires == TRUE

\* maybeAutoCode: once per wait.
Fires == ~armed

Arm ==
    /\ loop = "arm"
    /\ armed' = TRUE
    /\ loop' = IF Fires THEN "stat" ELSE "end"
    /\ UNCHANGED <<vars, source, seen, fetch, waits, codeOf, asked, lapsed, taken>>

\* For a mailbox the marker is noted, to know the wait by.
Noted == IF source = "imap" THEN Marker ELSE 0

\* The marker is looked at again.  A mailbox is not asked
\* when it has gone; a command is.
GivesUpOnMarker ==
    /\ loop = "stat"
    /\ source = "imap" /\ Marker = 0
    /\ loop' = "end"
    /\ UNCHANGED <<vars, source, seen, armed, fetch, waits, codeOf, asked, lapsed, taken>>

AskSource(f) ==
    /\ loop = "stat" /\ fetch[f] = Free
    /\ source = "imap" => Marker # 0
    /\ fetch' = [fetch EXCEPT ![f] = [at |-> "fetch", wait |-> Noted]]
    /\ asked' = asked \cup ({Marker} \ {0})
    /\ lapsed' = FALSE
    /\ loop' = "end"
    /\ UNCHANGED <<vars, source, seen, armed, waits, codeOf, taken>>

\* Mutant: what was armed stays armed.
StaysArmed == armed

\* A tunnel that this poll has not seen waiting may fire again.
Disarmed == armed /\ seen

PollEnds ==
    /\ loop = "end"
    /\ armed' = Disarmed
    /\ loop' = "sleep"
    /\ UNCHANGED <<vars, source, seen, fetch, waits, codeOf, asked, lapsed, taken>>

-----------------------------------------------------------------------------
(* The goroutine of maybeAutoCode                                          *)

\* Mutant: any marker will do.
SomeWait(f) == Marker # 0

\* The marker is the one the source was asked for.
SameWait(f) == Marker = fetch[f].wait

\* The source has printed a code.  For a mailbox the wait must still be the same,
\* and unanswered.
SourceAnswers(f) ==
    /\ fetch[f].at = "fetch"
    /\ fetch' = [fetch EXCEPT ![f] =
         IF source = "imap" /\ ~(SameWait(f) /\ {"code", "ready"} \cap files = {})
         THEN Free ELSE [@ EXCEPT !.at = "deliver"]]
    /\ UNCHANGED <<vars, source, loop, seen, armed, waits, codeOf, asked, lapsed, taken>>

\* It failed, timed out, or printed no code.
SourceFails(f) ==
    /\ fetch[f].at = "fetch"
    /\ fetch' = [fetch EXCEPT ![f] = Free]
    /\ UNCHANGED <<vars, source, loop, seen, armed, waits, codeOf, asked, lapsed, taken>>

\* t-forward code: delivers, and stays to watch for the tunnel.
Deliver(f) ==
    /\ fetch[f].at = "deliver"
    /\ \E p \in Procs : CodeDelivers(p)
    /\ codeOf' = {fetch[f].wait} \ {0}
    /\ fetch' = [fetch EXCEPT ![f] = Free]
    /\ UNCHANGED <<source, loop, seen, armed, waits, asked, lapsed, taken>>

\* t-forward code: no container, or it is not waiting; or the source's timeout
\* kills it before it has written the code.
DeliverFails(f) ==
    /\ fetch[f].at = "deliver"
    /\ fetch' = [fetch EXCEPT ![f] = Free]
    /\ UNCHANGED <<vars, source, loop, seen, armed, waits, codeOf, asked, lapsed, taken>>

-----------------------------------------------------------------------------
LoopStep ==
    \/ PollBegins \/ PollReadsState \/ PollGetsNoState \/ Arm \/ GivesUpOnMarker
    \/ (\E f \in Fetchers : AskSource(f))
    \/ PollEnds

FetchStep(f) == SourceAnswers(f) \/ SourceFails(f) \/ Deliver(f) \/ DeliverFails(f)

AutoNext == TunnelSteps \/ LoopStep \/ (\E f \in Fetchers : FetchStep(f))

AutoSpec == AutoInit /\ [][AutoNext]_autoVars

\* The loop polls every second, docker does not fail for ever, and a goroutine ends
\* with its timeout (45 or 120 seconds); the tunnel and the sources owe nothing.
AutoFairSpec ==
    /\ AutoSpec
    /\ WF_autoVars(LoopStep) /\ SF_autoVars(PollReadsState)
    /\ WF_autoVars(\E f \in Fetchers : FetchStep(f))

-----------------------------------------------------------------------------
(* Properties                                                              *)

\* A source is asked once per wait (maybeAutoCode): each of its codes may be good
\* for one use, or cost a message.  Only when docker has failed to answer a poll since,
\* or has shown it the container stopped, is it asked again, and then once.
OncePerWait ==
    [][\A f \in Fetchers : AskSource(f) /\ Marker \in asked => lapsed]_autoVars

\* A code that the mailbox gave for one wait is not entered in another, however
\* late it comes (the comparison with the marker before delivery).
ImapCodeFresh == source = "imap" => \A t \in taken : t[1] = t[2]

\* Every wait that lasts has its source asked, if there is one, also after earlier
\* waits of the same tunnel (WaitingLoop: "so a later reconnect re-fires
\* TOTP_COMMAND"); between two waits there is no marker.
LastingWaitFetched ==
    source # "none" /\ Marker # 0 /\ box = "running"
        ~> Marker \in asked \cup {0} \/ box # "running"
=============================================================================
