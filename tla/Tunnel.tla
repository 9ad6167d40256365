------------------------------- MODULE Tunnel -------------------------------
(***************************************************************************)
(* The life of one tunnel: the host CLI (up, code, down), the container's  *)
(* entrypoint, and the auth directory through which they talk.             *)
(*                                                                         *)
(* Several CLI processes may work on the tunnel at once (a terminal, the   *)
(* web daemon, a cron job).  They share no lock: they meet in the          *)
(* container's name, in the auth directory's path and in the stored pin.   *)
(* One action is what a process does between two points where it waits,    *)
(* calls docker, or leaves the others time to run.                         *)
(***************************************************************************)
CONSTANTS
    Procs,    \* CLI processes that may run at the same time
    Certs,    \* identities the gateway may present
    Public,   \* those of them that are certificates of a public CA
    NoCert,   \* no identity: nothing learned, pinned or enforced
    Confs,    \* the tunnel configurations considered
    Serial    \* do users run one up or down at a time?

Types == {"vpn", "ipsec", "ssh", "local"}

Conf == [type : Types, totp : {"none", "manual", "secret"},
         restart : BOOLEAN, tofu : BOOLEAN,
         listens : BOOLEAN,     \* does it forward a port, or serve SOCKS?
         asks : BOOLEAN]        \* is its password left to be asked for?

ASSUME NoCertAssumption == NoCert \notin Certs
ASSUME PublicAssumption == Public \subseteq Certs
ASSUME ConfsAssumption == Confs \subseteq Conf
ASSUME SerialAssumption == Serial \in BOOLEAN

VARIABLES
    conf,      \* the tunnel's configuration, fixed
    gateway,   \* the identity (certificate or host key) presented to a client that
               \* looks at it
    store,     \* the identity the host keeps: pins/<name> or known_hosts/<name>
    dir,       \* does the auth directory exist?
    files,     \* the credential and marker files in it
    learned,   \* its learned_servercert (vpn) or known_hosts (ssh)
    left,      \* history: has whoever was to remove it ended without doing so?
    box,       \* the container: none, running or exited
    phase,     \* where its entrypoint is
    mounted,   \* is the auth directory it mounted the one on the path now?
    envPin,    \* the SERVERCERT it was created with
    pin,       \* the SERVERCERT the entrypoint enforces in this start
    session,   \* the identity openconnect or ssh has accepted, if any
    pc,        \* what each CLI process does
    after,     \* where it continues once it has removed the connection
    noPrompt,  \* was it started with --no-prompt?
    want,      \* the SERVERCERT an up will pass to docker run
    owner,     \* history: the process whose docker run created the container
    proven     \* history: the identities a tunnel has come up with

cliVars == <<pc, after, noPrompt, want>>
dirVars == <<dir, files, learned, left>>
boxVars == <<box, phase, mounted, envPin, pin, session, owner>>
worldVars == <<conf, gateway>>
vars == <<conf, gateway, store, dir, files, learned, left, box, phase, mounted,
          envPin, pin, session, pc, after, noPrompt, want, owner, proven>>

Secrets == {"password", "psk", "totp_secret", "ssh_key"}
Markers == {"code", "awaiting_code", "ready"}
Waiting == {"wait", "sent"}      \* an up in its wait loop, before and after the prompt
Pcs == {"idle", "prepare", "password", "run", "ask", "rmbox", "rmdir", "exit", "poll"}
         \cup Waiting
Phases == {"off", "boot", "trust", "auth", "code", "tun", "up"}
Cert == Certs \cup {NoCert}

\* openconnect and ssh check whom they talk to; of strongSwan's check the model says
\* nothing.
Identities == IF conf.type \in {"vpn", "ssh"} THEN Certs ELSE {NoCert}

TypeOK ==
    /\ conf \in Confs
    /\ gateway \in Identities
    /\ store \in Cert
    /\ dir \in BOOLEAN
    /\ files \subseteq Secrets \cup Markers
    /\ learned \in Cert /\ left \in BOOLEAN
    /\ box \in {"none", "running", "exited"}
    /\ phase \in Phases
    /\ mounted \in BOOLEAN
    /\ envPin \in Cert /\ pin \in Cert /\ session \in Cert
    /\ pc \in [Procs -> Pcs]
    /\ after \in [Procs -> {"idle", "prepare", "exit"}]
    /\ noPrompt \in [Procs -> BOOLEAN]
    /\ want \in [Procs -> Cert]
    /\ owner \subseteq Procs
    /\ proven \subseteq Certs

Init ==
    /\ conf \in Confs
    /\ gateway \in Identities
    /\ store = NoCert
    /\ dir = FALSE /\ files = {} /\ learned = NoCert /\ left = FALSE
    /\ box = "none" /\ phase = "off" /\ mounted = FALSE
    /\ envPin = NoCert /\ pin = NoCert /\ session = NoCert
    /\ pc = [p \in Procs |-> "idle"]
    /\ after = [p \in Procs |-> "idle"]
    /\ noPrompt = [p \in Procs |-> FALSE]
    /\ want = [p \in Procs |-> NoCert]
    /\ owner = {}
    /\ proven = {}

-----------------------------------------------------------------------------
(* What the configuration decides.                                         *)

\* The container waits for a code from the host.
Manual == conf.totp = "manual" /\ conf.type \in {"vpn", "ipsec"}

\* --restart needs unattended authentication: up refuses the combination.
RefusesRestart == conf.restart /\ Manual

\* up asks for the password of a vpn, or of an ssh tunnel without a key; an ipsec
\* tunnel must have its own in the file.
Asks == conf.asks /\ conf.type \in {"vpn", "ssh"}

\* The secret files an up writes.
Credentials ==
    LET all == [vpn |-> {"password", "totp_secret"},
                ipsec |-> {"password", "psk", "totp_secret"},
                ssh |-> IF Asks THEN {"password"} ELSE {"ssh_key"},
                local |-> {}]
    IN  all[conf.type] \ (IF conf.totp = "secret" THEN {} ELSE {"totp_secret"})

\* Mutant: the password stays until the tunnel is up.
ErasedLater == {}

\* What the entrypoint erases as soon as it has used it, and when it is ready;
\* nothing when a restart policy will need it again (KEEP_AUTH).
ErasedOnUse ==
    IF conf.restart THEN {}
    ELSE CASE conf.type = "vpn" -> {"password"}
           [] conf.type = "ipsec" -> {"password", "psk"}
           [] OTHER -> {}
ErasedWhenReady ==
    IF conf.restart THEN {} ELSE {"password", "totp_secret", "ssh_key", "code"}

\* Mutant: a restarted container finds its old ready marker.
ClearedButReady == {"awaiting_code", "code"}

\* The leftovers of an earlier start that a start of the entrypoint removes.
ClearedAtStart == {"ready", "awaiting_code", "code"}

-----------------------------------------------------------------------------
(* The auth directory.                                                     *)

\* rm -rf: a container that has it mounted keeps an unlinked, empty directory.
RemoveAuthDir ==
    /\ dir' = FALSE /\ files' = {} /\ learned' = NoCert /\ left' = FALSE
    /\ mounted' = FALSE

\* The files as the container sees them, and as the host finds them after the
\* container has made them F.
Seen == IF mounted THEN files ELSE {}
SeenLearned == IF mounted THEN learned ELSE NoCert
ContainerWrites(F) == files' = IF mounted THEN F ELSE files

\* persist_trust: what a connected tunnel learned becomes the host's.
PersistTrust == store' = IF learned = NoCert THEN store ELSE learned

Goto(p, l) == pc' = [pc EXCEPT ![p] = l]

\* The process ends (or hands over): its locals are gone.
Done(p) ==
    /\ Goto(p, "idle")
    /\ after' = [after EXCEPT ![p] = "idle"]
    /\ noPrompt' = [noPrompt EXCEPT ![p] = FALSE]
    /\ want' = [want EXCEPT ![p] = NoCert]

\* The process will remove container and auth directory, then go on at l.
RemoveThen(p, l) ==
    /\ Goto(p, "rmbox")
    /\ after' = [after EXCEPT ![p] = l]

\* A process that will remove the auth directory, or hand it over.
InCharge(p) == pc[p] \in Waiting \cup {"run", "ask", "rmbox", "rmdir", "exit"}

\* The EXIT trap knows the auth directory of a prompting, non-restart up.
TrapArmed(p) ==
    /\ ~conf.restart /\ ~noPrompt[p]
    /\ \/ pc[p] \in Waiting \cup {"run", "ask", "exit"}
       \/ pc[p] \in {"rmbox", "rmdir"} /\ after[p] = "exit"

\* The process ends and leaves the directory as it is.
AbandonDir(p) ==
    /\ left' = (left \/ InCharge(p))
    /\ UNCHANGED <<dir, files, learned, mounted>>

\* The shell exits where it is, and the EXIT trap removes what it knows of.
Exits(p) ==
    /\ IF TrapArmed(p) THEN RemoveAuthDir ELSE AbandonDir(p)
    /\ Done(p)
    /\ UNCHANGED <<worldVars, store, box, phase, envPin, pin, session, owner,
                   proven>>

\* INT, TERM or HUP, at any moment.
Interrupted(p) ==
    /\ pc[p] # "idle"
    /\ Exits(p)

-----------------------------------------------------------------------------
(* t-forward up                                                            *)

\* Nothing in the code keeps two users, or a user and the daemon, from running
\* up and down at the same time; Serial says that they do not.  Watchers that
\* t-forward code left behind may always run.
MayStart(p) ==
    /\ pc[p] = "idle"
    /\ Serial => \A q \in Procs : pc[q] \in {"idle", "poll"}

\* The container's state decides: an exited one is removed first.  With a
\* running one up says "already connected" and changes nothing.
UpStart(p, np) ==
    /\ MayStart(p)
    /\ \/ box = "none" /\ Goto(p, "prepare") /\ UNCHANGED after
       \/ box = "exited" /\ RemoveThen(p, "prepare")
    /\ noPrompt' = [noPrompt EXCEPT ![p] = np]
    /\ UNCHANGED <<worldVars, store, dirVars, boxVars, want, proven>>

\* A restart policy that cannot have its codes, or a forward that cannot be parsed.
UpRefuses(p) ==
    /\ pc[p] = "prepare"
    /\ RefusesRestart \/ (conf.listens /\ ~Asks)
    /\ Done(p)
    /\ UNCHANGED <<worldVars, store, dirVars, boxVars, proven>>

\* The auth directory is built anew; the stored identity is read.
BuildAuthDir(p) ==
    /\ dir' = TRUE
    /\ files' = Credentials
    /\ learned' = IF conf.type = "ssh" THEN store ELSE NoCert
    /\ left' = FALSE
    /\ mounted' = FALSE
    /\ want' = [want EXCEPT ![p] = IF conf.type = "vpn" THEN store ELSE NoCert]
    /\ Goto(p, "run")
    /\ UNCHANGED <<worldVars, store, box, phase, envPin, pin, session,
                   owner, after, noPrompt, proven>>

UpPrepare(p) ==
    /\ pc[p] = "prepare"
    /\ ~RefusesRestart /\ ~Asks
    /\ BuildAuthDir(p)

\* The password is asked for on the terminal, with --no-prompt too.
UpAsksPassword(p) ==
    /\ pc[p] = "prepare"
    /\ ~RefusesRestart /\ Asks
    /\ Goto(p, "password")
    /\ UNCHANGED <<worldVars, store, dirVars, boxVars, after, noPrompt, want,
                   proven>>

UpGetsPassword(p) ==
    /\ pc[p] = "password"
    /\ BuildAuthDir(p)

\* It is empty, there is no terminal, or a forward cannot be parsed.
UpGetsNoPassword(p) ==
    /\ pc[p] = "password"
    /\ Done(p)
    /\ UNCHANGED <<worldVars, store, dirVars, boxVars, proven>>

\* The ssh key is missing: the directory just built is removed.
UpFindsNoKey(p) ==
    /\ pc[p] = "prepare"
    /\ conf.type = "ssh" /\ ~Asks
    /\ RemoveAuthDir
    /\ Done(p)
    /\ UNCHANGED <<worldVars, store, box, phase, envPin, pin, session, owner,
                   proven>>

\* docker run: the name is free; a missing auth directory is created by docker.
UpRun(p) ==
    /\ pc[p] = "run"
    /\ box = "none"
    /\ box' = "running" /\ phase' = "boot"
    /\ dir' = TRUE /\ left' = FALSE /\ mounted' = TRUE
    /\ envPin' = want[p]
    /\ owner' = {p}
    /\ want' = [want EXCEPT ![p] = NoCert]
    /\ Goto(p, "wait")
    /\ UNCHANGED <<worldVars, store, files, learned, pin, session, after,
                   noPrompt, proven>>

\* docker network create fails: up dies, and leaves the directory to its EXIT trap.
UpGetsNoNetwork(p) ==
    /\ pc[p] = "run"
    /\ Exits(p)

\* docker run fails: the name is taken, or a port is.  Only a trap removes the auth
\* directory a second time.
UpRunFails(p) ==
    /\ pc[p] = "run"
    /\ RemoveAuthDir
    /\ want' = [want EXCEPT ![p] = NoCert]
    /\ RemoveThen(p, IF conf.restart \/ noPrompt[p] THEN "idle" ELSE "exit")
    /\ UNCHANGED <<worldVars, store, box, phase, envPin, pin, session, owner,
                   noPrompt, proven>>

\* The ready marker: the tunnel is up, and what it learned is stored.
UpSeesReady(p) ==
    /\ pc[p] \in Waiting
    /\ "ready" \in files
    /\ PersistTrust
    /\ IF conf.restart THEN Done(p)
                       ELSE Goto(p, "exit") /\ UNCHANGED <<after, noPrompt, want>>
    /\ UNCHANGED <<worldVars, dirVars, boxVars, proven>>

\* Mutant: up waits as long as the container runs.
NeverTimedOut == FALSE

\* CONNECT_TIMEOUT + 30 seconds may be over at any time.
TimedOut == TRUE

UpGivesUp(p) ==
    /\ pc[p] \in Waiting
    /\ "ready" \notin files
    /\ box # "running" \/ TimedOut
    /\ RemoveThen(p, "exit")
    /\ UNCHANGED <<worldVars, store, dirVars, boxVars, noPrompt, want, proven>>

\* Mutant: up pins what was learned before it hands over.
UpPinsAndHandsOff(p) ==
    /\ pc[p] = "wait" /\ noPrompt[p]
    /\ "ready" \notin files /\ box = "running" /\ "awaiting_code" \in files
    /\ PersistTrust
    /\ Done(p)
    /\ UNCHANGED <<worldVars, dirVars, boxVars, proven>>

\* --no-prompt: hand over to t-forward code (exit status 3).
UpHandsOff(p) ==
    /\ pc[p] = "wait" /\ noPrompt[p]
    /\ "ready" \notin files /\ box = "running" /\ "awaiting_code" \in files
    /\ Done(p)
    /\ UNCHANGED <<worldVars, store, dirVars, boxVars, proven>>

UpAsks(p) ==
    /\ pc[p] = "wait" /\ ~noPrompt[p]
    /\ "ready" \notin files /\ box = "running" /\ "awaiting_code" \in files
    /\ Goto(p, "ask")
    /\ UNCHANGED <<worldVars, store, dirVars, boxVars, after, noPrompt, want,
                   proven>>

\* The user types the code, or just presses Enter.
UpSendsCode(p) ==
    /\ pc[p] = "ask"
    /\ files' = IF dir THEN files \cup {"code"} ELSE files
    /\ Goto(p, "sent")
    /\ UNCHANGED <<worldVars, store, dir, learned, left, boxVars, after, noPrompt,
                   want, proven>>

UpGetsNoCode(p) ==
    /\ pc[p] = "ask"
    /\ RemoveThen(p, "exit")
    /\ UNCHANGED <<worldVars, store, dirVars, boxVars, noPrompt, want, proven>>

\* rm -rf of the auth directory, by up itself and by its EXIT trap.
UpExits(p) ==
    /\ pc[p] = "exit"
    /\ RemoveAuthDir
    /\ Done(p)
    /\ UNCHANGED <<worldVars, store, box, phase, envPin, pin, session, owner,
                   proven>>

-----------------------------------------------------------------------------
(* remove_connection, t-forward down, t-forward code                       *)

RemoveBox(p) ==
    /\ pc[p] = "rmbox"
    /\ box' = "none" /\ phase' = "off" /\ mounted' = FALSE
    /\ envPin' = NoCert /\ pin' = NoCert /\ session' = NoCert /\ owner' = {}
    /\ Goto(p, "rmdir")
    /\ UNCHANGED <<worldVars, store, dirVars, after, noPrompt, want, proven>>

RemoveDir(p) ==
    /\ pc[p] = "rmdir"
    /\ RemoveAuthDir
    /\ IF after[p] = "idle" THEN Done(p)
       ELSE /\ Goto(p, after[p])
            /\ after' = [after EXCEPT ![p] = "idle"]
            /\ UNCHANGED <<noPrompt, want>>
    /\ UNCHANGED <<worldVars, store, box, phase, envPin, pin, session, owner,
                   proven>>

\* With no container, down says "not connected" and changes nothing.
Down(p) ==
    /\ MayStart(p)
    /\ box # "none"
    /\ RemoveThen(p, "idle")
    /\ UNCHANGED <<worldVars, store, dirVars, boxVars, noPrompt, want, proven>>

\* The container must be waiting for a code; then poll for the ready marker.
CodeDelivers(p) ==
    /\ pc[p] = "idle"
    /\ box # "none" /\ "awaiting_code" \in files
    /\ files' = files \cup {"code"}
    /\ Goto(p, "poll")
    /\ UNCHANGED <<worldVars, store, dir, learned, left, boxVars, after, noPrompt,
                   want, proven>>

CodeSeesReady(p) ==
    /\ pc[p] = "poll"
    /\ "ready" \in files
    /\ PersistTrust
    /\ Done(p)
    /\ UNCHANGED <<worldVars, dirVars, boxVars, proven>>

\* The container stopped, or the watcher's CONNECT_TIMEOUT is over.
CodeGivesUp(p) ==
    /\ pc[p] = "poll"
    /\ "ready" \notin files
    /\ Done(p)
    /\ UNCHANGED <<worldVars, store, dirVars, boxVars, proven>>

\* SIGKILL, or the host goes down: nothing is cleaned up.
Killed(p) ==
    /\ pc[p] # "idle"
    /\ AbandonDir(p)
    /\ Done(p)
    /\ UNCHANGED <<worldVars, store, box, phase, envPin, pin, session, owner,
                   proven>>

-----------------------------------------------------------------------------
(* The container                                                           *)

BoxBoots ==
    /\ phase = "boot"
    /\ ContainerWrites(files \ ClearedAtStart)
    /\ phase' = "trust"
    /\ UNCHANGED <<worldVars, store, dir, learned, left, box, mounted, envPin, pin,
                   session, owner, cliVars, proven>>

\* Mutant: every start asks the gateway again.
ProbesAgain == conf.type = "vpn" /\ conf.tofu /\ envPin = NoCert

\* Trust on first use asks the gateway only when no identity is known; without a
\* password the entrypoint does not get that far.
Probes == /\ conf.type = "vpn" /\ conf.tofu
          /\ envPin = NoCert /\ SeenLearned = NoCert
          /\ "password" \in Seen

\* Mutant: whatever openconnect prints is taken for a pin.
PrintedUnchecked == {NoCert, gateway, "SSL error"}

\* A certificate of a public CA, or a failed probe, prints no pin.
Printed == IF gateway \in Public THEN {NoCert} ELSE {NoCert, gateway}

BoxResolvesPin ==
    /\ phase = "trust"
    /\ IF Probes
       THEN \E c \in Printed :
               pin' = c /\ learned' = IF mounted THEN c ELSE learned
       ELSE /\ pin' = IF envPin = NoCert /\ conf.type = "vpn" /\ conf.tofu
                      THEN SeenLearned ELSE envPin
            /\ UNCHANGED learned
    /\ phase' = "auth"
    /\ UNCHANGED <<worldVars, store, dir, files, left, box, mounted, envPin, session,
                   owner, cliVars, proven>>

\* The credentials go to openconnect, ssh or, once the code has come, strongSwan;
\* openconnect has not seen the gateway yet when the code is asked for.
BoxSubmits ==
    /\ phase = "auth"
    /\ Credentials \subseteq Seen
    /\ ContainerWrites(
         (files \ IF conf.type = "ipsec" /\ Manual THEN {} ELSE ErasedOnUse)
            \cup IF Manual THEN {"awaiting_code"} ELSE {})
    /\ phase' = IF Manual THEN "code" ELSE "tun"
    /\ UNCHANGED <<worldVars, store, dir, learned, left, box, mounted, envPin, pin,
                   session, owner, cliVars, proven>>

\* The client checks who answers: openconnect enforces the pin, or wants a public
\* certificate; ssh enforces a known host key and accepts a new one.
Accepted ==
    \/ /\ conf.type = "vpn" /\ phase \in {"code", "tun"}
       /\ IF pin = NoCert THEN gateway \in Public ELSE gateway = pin
    \/ /\ conf.type = "ssh" /\ phase \in {"tun", "up"}
       /\ SeenLearned \in {NoCert, gateway}

BoxConnects ==
    /\ session = NoCert
    /\ Accepted
    /\ session' = gateway
    /\ learned' = IF conf.type = "ssh" /\ mounted THEN gateway ELSE learned
    /\ UNCHANGED <<worldVars, store, dir, files, left, box, phase, mounted, envPin, pin,
                   owner, cliVars, proven>>

BoxTakesCode ==
    /\ phase = "code"
    /\ "code" \in Seen
    /\ ContainerWrites(files \ (ErasedOnUse \cup {"code", "awaiting_code"}))
    /\ phase' = "tun"
    /\ UNCHANGED <<worldVars, store, dir, learned, left, box, mounted, envPin, pin,
                   session, owner, cliVars, proven>>

\* tun0 has an address, or ssh has logged in and listens: an ssh tunnel that has
\* nothing to listen for does not wait for its login.
LoginSeen == conf.type = "vpn" \/ (conf.type = "ssh" /\ conf.listens)

BoxIsReady ==
    /\ phase = "tun"
    /\ LoginSeen => session # NoCert
    /\ ContainerWrites((files \ ErasedWhenReady) \cup {"ready"})
    /\ phase' = "up"
    /\ proven' = IF LoginSeen THEN proven \cup {session} ELSE proven
    /\ UNCHANGED <<worldVars, store, dir, learned, left, box, mounted, envPin, pin,
                   session, owner, cliVars>>

BoxLogsIn ==
    /\ conf.type = "ssh" /\ ~LoginSeen
    /\ phase = "up" /\ session # NoCert
    /\ proven' = proven \cup {session}
    /\ UNCHANGED <<worldVars, store, dirVars, boxVars, cliVars>>

\* The entrypoint ends: credentials refused, certificate refused, CODE_TIMEOUT,
\* TUN_TIMEOUT, the tunnel dropped, or the container was killed.
Stops ==
    /\ box' = "exited" /\ phase' = "off" /\ mounted' = FALSE
    /\ pin' = NoCert /\ session' = NoCert
    /\ UNCHANGED <<worldVars, store, dirVars, envPin, owner, cliVars, proven>>

\* Mutant: a code that nobody sends is waited for without end.
BoundedButCode == {"auth", "tun"}

\* The phases that end after a bounded wait.
Bounded == {"auth", "code", "tun"}
BoxTimesOut == phase \in Bounded /\ Stops
BoxDies == phase \in {"boot", "trust", "up"} /\ Stops

\* restart policy unless-stopped: the path is mounted again.
BoxRestarts ==
    /\ conf.restart
    /\ box = "exited"
    /\ box' = "running" /\ phase' = "boot"
    /\ dir' = TRUE /\ mounted' = TRUE
    /\ UNCHANGED <<worldVars, store, files, learned, left, envPin, pin, session,
                   owner, cliVars, proven>>

\* The gateway's certificate is replaced, or somebody else answers.
GatewayChanges ==
    /\ gateway' \in Identities
    /\ UNCHANGED <<conf, store, dirVars, boxVars, cliVars, proven>>

-----------------------------------------------------------------------------
\* What a process does by itself once its command has started.
CliStep(p) ==
    \/ UpRefuses(p) \/ UpPrepare(p) \/ UpAsksPassword(p) \/ UpFindsNoKey(p)
    \/ UpGetsNoNetwork(p) \/ UpRun(p) \/ UpRunFails(p)
    \/ UpSeesReady(p) \/ UpGivesUp(p) \/ UpHandsOff(p) \/ UpAsks(p) \/ UpExits(p)
    \/ RemoveBox(p) \/ RemoveDir(p)
    \/ CodeSeesReady(p) \/ CodeGivesUp(p)

\* What a user, an operator or the web daemon does.
UserStep(p) ==
    \/ \E np \in BOOLEAN : UpStart(p, np)
    \/ UpGetsPassword(p) \/ UpGetsNoPassword(p)
    \/ UpSendsCode(p) \/ UpGetsNoCode(p)
    \/ Down(p) \/ CodeDelivers(p)
    \/ Interrupted(p) \/ Killed(p)

BoxStep ==
    \/ BoxBoots \/ BoxResolvesPin \/ BoxSubmits \/ BoxConnects \/ BoxTakesCode
    \/ BoxIsReady \/ BoxLogsIn \/ BoxTimesOut

Next ==
    \/ \E p \in Procs : CliStep(p) \/ UserStep(p)
    \/ BoxStep \/ BoxDies \/ BoxRestarts \/ GatewayChanges

Spec == Init /\ [][Next]_vars

\* Commands run to their end and the entrypoint's waits are bounded
\* (CODE_TIMEOUT, TUN_TIMEOUT, CONNECT_TIMEOUT); users, whoever is asked for a
\* password or a code, signals, crashes, docker's restarts and the gateway owe nothing.
Fairness == (\A p \in Procs : WF_vars(CliStep(p))) /\ WF_vars(BoxStep)
FairSpec == Spec /\ Fairness

-----------------------------------------------------------------------------
(* Properties                                                              *)

\* The ready marker, which the CLI and the daemon trust, was written by the
\* start of the container that now runs: a container restarted by docker is not
\* taken for connected once its entrypoint is at work, although its earlier
\* start left the marker (the cleanup of stale leftovers).
ReadyIsLive ==
    "ready" \in files /\ mounted /\ phase \notin {"off", "boot"} => phase = "up"

\* When no command is at work and the container is not on its way up, the auth
\* directory holds no secret: whoever the last to leave was has erased them (up, its
\* trap, down, or the entrypoint after a handoff).  Exempt are a restart policy, which
\* needs them, and a directory whose remover ended without removing it: killed, or,
\* as an up --no-prompt whose trap does not know the directory, or a down, ended by a
\* signal or by a docker that cannot create the network.
SecretsGone ==
    /\ ~conf.restart /\ ~left
    /\ \A p \in Procs : pc[p] \in {"idle", "poll"}
    /\ phase \in {"off", "up"}
    => files \cap Secrets = {}

\* The host stores only an identity that a tunnel has come up with (persist_trust:
\* "a failed login must not pin a host").
PinnedWasUp == store # NoCert => store \in proven

\* Trust on first use, as the README promises it: learned once, by a connection
\* that succeeded, and enforced in every tunnel from then on, across reconnects
\* and restarts of the container.
Tofu == INSTANCE TrustOnFirstUse WITH pinned <- store
ImplementsTofu == Tofu!Spec

\* Every command comes back to its user, or waits at a prompt: up's wait loop,
\* teardown and watchers end, whatever the container and other commands do to the
\* files it polls.
CommandsEnd == \A p \in Procs : pc[p] # "idle" ~> pc[p] \in {"idle", "password", "ask"}

\* A start of the container ends with a tunnel or without a container; it does
\* not block for ever on a code that nobody sends (run_vpn, CODE_TIMEOUT).
StartsEnd == phase \notin {"off", "up"} ~> phase \in {"off", "up"}

\* Without a restart policy the secrets leave the disk, whatever becomes of the
\* tunnel and of the processes, with the exemptions of SecretsGone.
SecretsExpire ==
    files \cap Secrets # {} ~> files \cap Secrets = {} \/ conf.restart \/ left
=============================================================================
