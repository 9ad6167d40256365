# t-forward in TLA+

A verification project for t-forward: a bash CLI (`t-forward`) that runs each VPN,
IPsec, ssh or local tunnel in a container of its own, the container's entrypoint
(`entrypoint.sh`), and a web daemon (`web/`, Go, with a panel in
`web/panel/index.html`) that drives the CLI and shows what happens.

| file | what it is |
|---|---|
| `Tunnel.tla` | one tunnel: CLI processes, container entrypoint, auth directory, stored identity |
| `TrustOnFirstUse.tla` | what the tunnel promises about server identities, abstractly |
| `TunnelProofs.tla` | theorems about `Tunnel` |
| `Hub.tla` | the daemon's broadcasts: event stream, event ring, state snapshots, notifications, panel console |
| `HubProofs.tla` | theorems about `Hub` |
| `AutoCode.tla` | the daemon's code automation, composed with `Tunnel` |
| `AutoCodeProofs.tla` | theorems about `AutoCode`, on those about `Tunnel` |
| `Settings.tla` | the admin gate, the sessions and the files of settings |
| `AtomicSettings.tla` | what the daemon promises about those files, abstractly |
| `SettingsProofs.tla` | theorems about `Settings`, the refinement included |
| `Scanner.tla`, `ScannerProofs.tla` | the network scanner, label edits, the scan cache; theorems |
| `ConfStore.tla`, `ConfStoreProofs.tla` | one configuration file: cached reads, edits, scan forwards; theorems |
| `Watch.tla`, `WatchProofs.tla` | docker events and the log tailers of a container; theorems |
| `Samplers.tla`, `SamplersProofs.tla` | host pings, client lines, traffic rates; theorems |
| `MC*.tla`, `*.cfg` | instances for TLC |
| `PROJECT.json` | components, runs, mutants, the map to source lines, findings, hazards, theorems |

## 1. The system

### Components, their state and operations

| component | source | state | operations | how it meets the others |
|---|---|---|---|---|
| CLI `up`, `down`, `code` | `t-forward` 371-377, 474-718, 737-858, 899-929 | per process only; the world it changes is the auth directory `auth-<slug>`, the container `tf-<slug>`, the stores `pins/`, `known_hosts/` | connect, hand over, ask for a code, tear down, deliver a code, watch for readiness | no lock; container name, directory path and marker files (`code`, `awaiting_code`, `ready`) |
| entrypoint | `entrypoint.sh` | phase of the start, mounted auth directory, pin enforced | clear leftovers, learn a pin, submit credentials, wait for a code, become ready, end | marker files; exit status through docker |
| hub | `web/sse.go` | clients with a state slot and a lossy channel, event ring, sequence | Broadcast, register, unregister, ServeHTTP, ServeEvLog | called by every goroutine of the daemon; two mutexes |
| docker watcher | `web/docker.go` | last states, tailers, armed codes | State, broadcastState, StateLoop, EventsLoop, startTailer/stopTailer, WaitingLoop, maybeAutoCode | docker CLI, auth directories, hub, `d.mu` |
| samplers | `web/docker.go` (StatsLoop 464, ClientsLoop 1061, HostPingLoop 1253) | last counters, peers seen, hosts up or down | StatsLoop, ClientsLoop, HostPingLoop | docker stats, lsof, TCP probes; console lines and messages |
| actions | `web/actions.go` | none of its own | handleUp, handleDown, deliverCode, handleLayout | starts CLI processes, then broadcastState |
| scanner | `web/scan.go` | latest snapshot, scanning flag, cache file, `devices.yaml` | scan, Rescan, reannotate, persist, handleScanForward, handleScanDevice | hub; writes configurations and starts `up` |
| admin gate, settings | `web/admin.go`, `web/settings.go` | sessions, failures, lockout, `settings.json` | checkPIN, newSession, validSession, revokeAll, handleSettings | every privileged handler; `notifyState` reads the file |
| configuration | `web/conf.go`, `web/confedit.go`, `t-forward` 150-323 | YAML files, cache by mtime and size | tunnelFromConf, applyEdits, load_conf, validate_conf | State(), actions, users' editors |
| notifications | `web/notify.go` | none | notifyState, sendTelegram | goroutine per message; errors go to the hub |
| panel | `web/panel/index.html` | tunnels shown, console, `evSeq` | connectSSE, pullEvlog, pullState | `/events`, `/evlog`, `/state` |

### What is hard about it

* **Files as the only protocol.** Host and container talk through marker files in a
  directory that any `up`, `down` or EXIT trap removes or rebuilds, while a running
  container still has the old one mounted.
* **No locks between commands.** A terminal, the daemon and a cron job may run `up`,
  `down` and `code` of one tunnel at once; `code` leaves a watcher behind.
* **Crashes and restarts.** Containers die and are restarted by docker with the
  environment of their first start; processes are interrupted (EXIT trap) or killed (none).
* **Timeouts.** CONNECT_TIMEOUT, CODE_TIMEOUT and TUN_TIMEOUT race the events they wait for.
* **Lossy delivery.** Frames are dropped or coalesced for slow panels, proxies hold
  streams back, panels reconnect and poll; docker events may be missed.
* **Racing broadcasters.** `broadcastState` is called by the events loop, by every
  handler and by the scanner; each reads, pushes and compares in separate steps.

### What makes each part correct

* Tunnel: a ready marker means this start's tunnel is up; secrets do not outlive the work
  that needs them; an identity is stored only after a successful connection and enforced
  from then on; commands and waits end; commands leave each other's tunnels alone.
* Hub: the newest snapshot is never lost or delayed by a backlog; a polled console is
  complete and without repetitions; a panel converges.
* Notifications: neither doubled nor lost, whoever compares.
* Code automation: one fetch per wait, none for a wait that is over, no code for another wait.
* Watcher: exactly one live tailer per running container.
* Samplers: messages about a host are true of the poll they come from, and a fresh connect
  sends none; a visit is announced once; no rate is invented when a counter starts anew.
* Scanner: what is known of the network never gets older, in memory or in the cache; an
  interface changes only when it is swept; labels come to show.
* Admin and settings: no request undoes another's change; the table of sessions stays
  bounded and keeps the youngest; no PIN is evaluated before its lockout has passed; every
  request is answered.
* Configuration: a cached tunnel is what the file holds; a failed edit leaves exactly what
  it had done before; a forward that failed takes away no file but its own.

## 2. Plan

Most important first.

1. **Tunnel**, TrustOnFirstUse, TunnelProofs - *done*.
2. **Hub** with notifications and panel console, HubProofs - *done*.
3. **AutoCode**: WaitingLoop and maybeAutoCode against the waits of a container,
   AutoCodeProofs - *done*.
4. **Settings** and AtomicSettings, SettingsProofs - *done*.
5. **Scanner**, ScannerProofs - *done*.
6. **ConfStore**, ConfStoreProofs - *done*.
7. **Watch**, WatchProofs - *done*, except for the cooldown of maybeNotifyWarn.
8. **Samplers**, SamplersProofs - *done*.
9. **Daemon**: composition of Tunnel (handleUp, handleDown, deliverCode as CLI processes)
   with Hub's broadcasters, so that what a panel shows is related to the container - *to do*.

Every safety invariant and action property of the passing runs is proved for all values of
the constants (some under assumptions named there); the liveness properties stay with TLC
(CommandsEnd, StartsEnd, SecretsExpire,
PanelsConverge, LastingWaitFetched, RequestsAnswered, LabelsShow, RunningIsFollowed), because
the prover reasons about neither fairness nor ENABLED.

The modules are independent of one another because the parts of the daemon are: they meet in
the hub, whose callers Hub has as producers, and in files, each of which one module owns. The
exceptions are AutoCode, which takes Tunnel's steps as they are, and Settings and Tunnel, which
refine an abstract module each. What has too many states to compose is left apart.

## 3. Tunnel

### State and actions

`box`, `phase` are the container and how far its entrypoint is; `dir`, `files`, `learned`
the auth directory on the host's path; `mounted` says whether the running container's
mount is that directory (after `rm -rf` it keeps an unlinked, empty one, and writes nowhere);
`store` is `pins/<name>` or `known_hosts/<name>`; `envPin` the SERVERCERT given to
`docker run`, `pin` the one enforced. `pc[p]` is where process `p` is:

| `pc` | code |
|---|---|
| `prepare` | `up_one` 488-586: restart policy, then directory rebuilt, secrets written, pin read |
| `password` | 494, 498: the prompt for a password the configuration leaves out |
| `run` | 588-664: the network, then `docker run` |
| `wait`, `sent` | 672-717: the wait loop, before and after the code was asked for |
| `ask` | 701: the prompt |
| `rmbox`, `rmdir` | `remove_connection` 371-377, first `docker rm -f`, then `rm -rf` |
| `exit` | the `rm -rf` of `up_one` and of the EXIT trap |
| `poll` | `cmd_code` 838-857, in the foreground or behind |

Each action of the entrypoint is what it does between two waits: `BoxBoots` (98-113),
`BoxResolvesPin` (190-217, learning included), `BoxSubmits` (credentials to openconnect, ssh
or strongSwan, erasing what may be erased), `BoxConnects` (the client accepts the server's
identity), `BoxTakesCode`, `BoxIsReady`, `BoxTimesOut`, `BoxDies`. `GatewayChanges` lets
another identity answer at any time.

### Runs

| run | shows | instance |
|---|---|---|
| `tunnel` | TypeOK, ReadyIsLive, SecretsGone, CommandsEnd, StartsEnd, SecretsExpire, with two processes doing anything at any time | 6 configurations (`ErasingConfs`), 1 identity, 144 000 states |
| `auto_code` | PinnedWasUp and ImplementsTofu, with one `up` or `down` at a time and the daemon of section 5 beside them | 6 configurations (`LearningConfs`), 2 identities |

Two processes suffice for the interleavings of interest: each hazard is about one process
acting between two steps of another, or of the container. Secrets, markers and waits do not
depend on who answers, so `tunnel` has one identity; for the stored one there are a public
certificate and one that must be learned, so that a gateway can change between the kinds in
both directions. Nothing in the model counts, so there are no further bounds: `tunnel` covers
all behaviours of its instance, of any length (`auto_code` bounds the waits for a code).

Fairness: a command at work proceeds (`CliStep`), because the shell runs it and every loop in
it sleeps and counts; the entrypoint's steps proceed (`BoxStep`), because each of its waits is
counted too (CODE_TIMEOUT, TUN_TIMEOUT). Users, signals, crashes, docker's restarts and the
gateway owe nothing. Both prompts, for the password (`UpGetsPassword`, `UpGetsNoPassword`) and
for the code (`UpSendsCode`, `UpGetsNoCode`), are steps of the user, without fairness: `ask`
may block for ever, with `--no-prompt` too for the password, and CommandsEnd says that a
command ends or waits at one of them.

SecretsGone and SecretsExpire exempt, by the history variable `left`, a directory whose remover
has ended without removing it. There are three ways to end so, and each leaves real secrets:

* SIGKILL, or loss of the host, of any command at work (`Killed`);
* a signal (`Interrupted`) to an `up --no-prompt` or to a command that is removing a
  connection: the comment at `t-forward:62-65` has the signal remove the auth files, but the
  trap removes only what `cleanup_files` lists, and 543 does not list the directory of
  `--no-prompt`, which `t-forward code` needs later;
* `docker network create` failing in an `up --no-prompt` (`UpGetsNoNetwork`,
  `t-forward:627-629`): `die` runs the same trap, unlike a failing `docker run`, which has an
  `rm -rf` of its own (665). Password, PSK and TOTP secret (544-558) then stay until the next
  `up` of this tunnel: there is no container to erase them, and `down` does nothing without one. An `up` without
  `--no-prompt` removes them in its trap, and is not exempt.

`Serial` is an assumption about use that the code does not enforce. It is needed: without
it TLC refutes PinnedWasUp and ImplementsTofu (an `up` that rebuilds the directory between
another's readiness and its `persist_trust` makes the latter store what a later, failed
connection learned).

### What TLC refutes

The instances and properties leave out what the code does not guarantee:

* Without the exemption `left`, SecretsGone and SecretsExpire fail: the shortest trace is an
  `up --no-prompt` that writes its secrets and cannot create the network.
* ImplementsTofu does not say that what was learned is stored: an `up` that is killed after
  the tunnel has come up stores nothing, and the next container learns anew.
* Of two `up`s, the one whose `docker run` fails removes the container of the one that
  succeeded, by its name (`t-forward:664-667`). No run claims otherwise.
* An abandoned code handoff of an ipsec tunnel leaves password and PSK on disk
  (`entrypoint.sh:321-328`; the openconnect path erases before it waits). With such a tunnel
  in `ErasingConfs`, SecretsGone fails.
* Interrupting `up` of an ssh tunnel removes known_hosts before ssh reads it, and accept-new
  takes any key (`t-forward:543`). With an ssh tunnel that has no restart policy in
  `LearningConfs`, ImplementsTofu fails.
* An ssh tunnel without forwards and SOCKS is ready before its login, and its key is stored
  though the login may fail (`entrypoint.sh:544`). With one in `LearningConfs`, PinnedWasUp
  fails.

### What is proved

For every set of processes, identities and configurations that meets the module's
assumptions (`NoCertAssumption`, `PublicAssumption`, `ConfsAssumption`, `SerialAssumption`):

* `TypeCorrect`: `Spec => []TypeOK`.
* `ReadyMarkerIsLive`: `Spec => []ReadyIsLive`, under any concurrency. The invariant is
  `LiveInv`: besides ReadyIsLive, BoxOK ties `phase`, `mounted` and `box` together, since
  a marker can only be wrong when a container that does not run keeps a phase.
* `PinnedOnlyProven`: `Spec => []PinnedWasUp`, assuming `Serial` and `LoginsSeen` (every
  ssh configuration listens for something, see above). The chain is: a
  learned identity is the one the running start enforces (`Resolved`), or the stored one
  (`LearnedOK`); a ready marker vouches that it is proven (`Vouched`); and since one command
  works at a time (`OneAtWork`), nobody rebuilds the directory under the process that
  reads it (`Building`, `Commands`, `Finds`).
* `TunnelImplementsTofu`: `Spec => ImplementsTofu`, assuming also `KeysKept` (every ssh
  tunnel has a restart policy, see above). It adds `Unmounted` and
  `Enforced`: a running container enforces the stored identity as soon as there is one.
  Refinement is proved by initial states (`TofuRefinesInit`) and steps (`TofuRefinesNext`).

* `SecretsAreGone`: `Spec => []SecretsGone`, under any concurrency, assuming `ErasesFirst` (no
  ipsec tunnel without a restart policy waits for a manual code, see above), with the
  exemptions above and no others. The invariant is `SecretInv`: secrets that were not left
  behind have a process in charge of them (`InCharge`), and a container that waits for a code
  has erased them, so that the process in charge may hand over and leave.

Only model-checked: the liveness properties, which are out of the prover's reach.

### Abstractions

* `up`'s test for the ready marker and `persist_trust` are one step, as are `code`'s test
  for `awaiting_code` and its write: microseconds against waits of seconds.
* `up`'s own `rm -rf` and the one of its EXIT trap are one later step `exit`.
* "already connected" and "not connected" change nothing and are not steps.
* Timeouts may strike at any time (`TimedOut`), which covers every setting of theirs.
* vpn.servercert and ssh.strict_host_key only tighten what is accepted and are left out.
* pins and known_hosts share the variables `learned` and `store`: a tunnel uses one of them.
* The configuration is fixed, and users do not delete stored pins.
* A taken name, a taken port and docker's own failures are `docker run` failing
  (`UpRunFails`); a network that cannot be created is `UpGetsNoNetwork`. Removing containers
  and networks succeeds.
* The checks of a forward's syntax (503-504) end an `up` before it has changed anything
  (`UpRefuses`, `UpGetsNoPassword`); `parse_forward` itself is left out.

## 4. Hub

### State and actions

A snapshot is the version of the tunnels' state it was read from (`world`; the tunnel is on in
even versions), an event its number. A `docker ps` that fails is such a version as well:
`State()` ignores the error (`docker.go:253-256`) and lists every configured tunnel as down, as
if nothing ran; it is as good as a change of the world and back, and PanelsConverge holds over
it. A broadcaster `g` goes through `Stamp` (number and ring, under `evMu`) and `FanOut` (under
`h.mu`), or `TakeSnapshot`, `PushState` (under `h.mu`), `SwapLast` (under `d.mu`) and
`NotifyState`; others may run in between. The heartbeat (`StateLoop`) stops after the push. A
panel's stream is `closed`, `open` (registered), `live` (at the first select of `ServeHTTP`'s
loop) or `picked` (at the second, having found no snapshot). A `buffered` panel sits behind a
proxy that lets nothing through, and lives on `/evlog`.

### Runs

| run | shows | instance |
|---|---|---|
| `hub` | TypeOK, LatestWins, StatePreferred, PolledConsole, NotificationsAddUp | two producers, heartbeat, one panel, ring and channel of one, 2 versions, 2 events; 2.4 million states |
| `hub_live` | PanelsConverge | one producer, heartbeat, one panel, 4 changes of the world, 1 event; 807 000 states |

The ring (`evCap` = 250) and the lossy channel (64) are cut to one place so that both
overflow within the events `MaxSeq` allows. `MaxWorld` and `MaxSeq` bound the state changes
and the events of a run; two changes give a crossing of "on" each way, four (`hub_live`) let
the world change again while older snapshots are still under way, or let docker fail twice.
The panels do not influence one another, so one is enough; the theorems hold for any number.

Fairness (`hub_live`): the ticker of `StateLoop` keeps taking snapshots, a broadcast that
has begun ends (the hub never blocks on a client), a connected client's handler keeps
writing. Nothing is assumed of docker events, producers, reconnections or polls.

PolledConsole speaks of panels whose stream is held back. A panel that has both may print a
line twice: `pullEvlog` prints the whole answer without comparing it with the cursor that
the stream may have moved meanwhile (`index.html:2877`; the comment at 2869-2870 has the
cursor prevent that). TLC finds it with two producers and one event.

### What is proved

* `LatestSnapshotWins`, `SnapshotsGoFirst`: from `StreamInv`, which says that a client's slot
  is empty or holds the newest snapshot broadcast to it, and bounds the lines relayed while
  one is pending by where the handler is (`DelayOK`, `SlotOK`, `PushOK`).
* `NotificationsBalance`: from `NotifyInv`: the counted notifications and those decided but
  not sent add up to the way from the first compared snapshot to the last, for any number of
  broadcasters. The step is `SwapAddsUp` (a swap changes the sum by the crossing it decides)
  and `MessageAddsUp` (a message moves one unit from decided to sent).

* `HubTypesHold` and `PolledConsoleHolds`: from `PolledInv`, for any ring and channel. The ring
  is exactly the newest `EvCap` numbers, in order (`RingOK`), so the events after a cursor are
  its end (`RingEnd`) and what is missing before them has fallen off. A console in a buffered
  panel is in order and complete up to the cursor (`ConsoleOK`), and an answer under way
  continues it (`AnswerOK`), because a panel has one request out and nothing but its answer
  moves the cursor.

Only model-checked: PanelsConverge (liveness).

### Abstractions

* `State()` is one read, though it calls docker and reads directories; reading, marshalling and
  writing a greeting are one step.
* The network between handler and panel is part of the relay step; what breaks is the whole
  connection. The panel's `/state` poll is left out: it can only make convergence easier.
* At most one `/evlog` request is under way per panel; slow overlapping polls would repeat
  lines, too.
* stat, clients, hosts, scan and waiting frames, notification settings and Telegram are left out.
* One tunnel, present in every snapshot (a configured one). Sums say nothing of the order in
  which messages arrive: racing broadcasters may announce a flap, or in another order.

## 5. Code automation

### State and actions

`AutoCode` EXTENDS `Tunnel` and takes its steps as they are (`TunnelSteps`); around them it
counts the waits (`waits`) and remembers for which wait a code was fetched (`codeOf`). A wait
is known by its `awaiting_code` marker, as in the code by inode and time: `Marker`.

`loop` is the place of `WaitingLoop` in its poll: `sleep`, `state` (markers seen, docker not yet
asked), `arm`, `stat` (the marker is looked at again) and `end` (what was not seen waiting is
disarmed). `fetch[f]` is a goroutine of `maybeAutoCode`: `fetch` while the source works,
`deliver` once it has printed a code. `Deliver` is the action `CodeDelivers` of a CLI process,
so the daemon's delivery meets whatever users do at the same time.

### Runs

| run | shows | instance |
|---|---|---|
| `auto_code` | ImapCodeFresh, OncePerWait, LastingWaitFetched, and PinnedWasUp and ImplementsTofu of section 3 | an ipsec tunnel with a manual code, whose source is a mailbox or a command, and the tunnels of `LearningConfs` without a source (`Uses`); two CLI processes, one `up` or `down` at a time; one fetching goroutine, 2 waits; 428 000 states |

`MaxWaits` is 2 because each property relates a wait to an earlier one. One goroutine is enough
for a source that answers after its wait is over; what several do at once is left to the
theorems, which hold for any number. With `Deserters`, commands that end without their trap and
leave a directory behind are left out for the tunnels that have a source: this only shortens
the run, and `tunnel` has them. The ipsec tunnel has the fewest steps before its prompt; the
automation does not look at the type beyond choosing the source, for which a vpn tunnel is one
of either protocol (`docker.go:955-956` asks for `type: vpn`, which ipsec tunnels have, too).

Fairness: `WF(LoopStep)`, since the loop is a goroutine that polls every second; `SF` of
`PollReadsState`: docker does not fail for ever, so that of the polls that find a marker some
get an answer; `WF` of the goroutines, which end with their timeouts (45 or 120 seconds). The
tunnel, its users and the sources owe nothing.

`docker ps` may fail at any poll (`PollGetsNoState`, `docker.go:250-256`): the failure is
ignored and reads as the end of the wait, the tunnel is disarmed (928-934), and the next poll
asks the source again, against the comment at 938 ("once per wait"). OncePerWait
says exactly this: a wait's source is asked again only if docker has failed a poll since, or has
shown the container stopped (`lapsed`), and then once. It does not say that the container still
runs when the source is asked: it may die between the state's read and the question.

The run has two assumptions that the code does not enforce, and needs them:

* `SlowPrompts`: a tunnel that has lost its wait needs longer to come back to a prompt than the
  daemon needs for a poll or for handing over a code it has just compared. Without it TLC
  refutes ImapCodeFresh (a new wait begins between the comparison with the marker and the
  write of `t-forward code`) and LastingWaitFetched (a new wait finds the tunnel still armed,
  and its source is never asked). OncePerWait holds without it.
* `Serial`, as in section 3, for PinnedWasUp and ImplementsTofu; ImapCodeFresh and OncePerWait are
  proved without it.

### What is proved

The invariants stand on those of section 3 (`LiveInv`), through the composition: a step of the
tunnel does what it does there, and the daemon's steps that write into its directory are steps
of a CLI process.

* `AutomatedTunnelIsTunnel`: `AutoSpec => Spec`: every step of the daemon is a step of the tunnel
  or leaves it alone (`TunnelUnderneath`), so the theorems of section 3 hold under the daemon,
  too.
* `MailCodesAreFresh`: `AutoSpec => []ImapCodeFresh`, assuming only `SlowPrompts`: with
  commands at work at the same time, killed or not, and docker failing or not. `FreshInv` says
  that a code on its way or in the file belongs to the last wait, and that none lies there
  when the container is on its way to a new one. It rests on `MarkerOK`: no marker of a wait
  stands beside a container that is at work on anything else.
* `AskedOncePerWait`: `AutoSpec => OncePerWait`, without any assumption: `docker ps` may fail,
  commands may run at once, new waits may begin at any moment. `AskedInv` says that while docker
  has answered since the source was asked (`~lapsed`), a live wait whose source was asked is
  armed, and that the poll about to disarm what it did not see has seen it.

Only model-checked: LastingWaitFetched (liveness).

ImapCodeFresh says nothing of `totp_command`: its codes are not compared with the marker, so a
command that answers late has its code entered in whatever wait there is by then.

### Abstractions

* One tunnel; the poll's walk over the other directories does not touch it.
* `State()` is one read of container and marker, or fails.
* The configuration is readable, and `totp_command` is allowed.
* The source's timeout is one way for it to fail (`SourceFails`). The same timeout
  may kill `t-forward code`: before it has written the code that is `DeliverFails`; afterwards it
  only ends the watch for readiness (`poll` of section 3), which changes no file but may have
  been about to store an identity.
* The mail search of `totp_imap.py` (age and choice of messages) is left out: a code printed by
  the source is taken to belong to the wait it was asked for.

## 6. Admin gate and settings

### State and actions

`file` is `settings.json`: a value for each key, the PIN's hash among them (`salted` tells a
hash of this version from one of an older one), `layout` is `panel-layout.json`. `mu` and
`verifyMu` are the two mutexes, with the request that holds them. `req[r].at` is where a request
is:

| `at` | code |
|---|---|
| `check`, `verify` | `checkPIN`: before and after `verifyMu` is taken, the lockout looked at and the file read |
| `upgrade`, `rehash` | `upgradePINHash`: before `Actions.mu`, and between load and save |
| `want`, `write` | handleSettings, handleLayout: before `Actions.mu`, and between load and save |
| `revoke`, `mint` | a changed PIN revokes all sessions; a new session |

A request brings nothing (no PIN set yet), a session's token or the PIN; the other privileged
handlers pass the same gate (`requirePrivileged`). `Tick` is a second; `Crash` loses all but the
files.

### Run and bounds

`settings` checks TypeOK, YoungestInForce, AttemptsSpaced, ImplementsAtomic and RequestsAnswered
(149 400 states). Two requests meet each other in every pair of places, including the upgrade of
a hash against a change of the PIN. The constants of the lockout (5 failures, a shift of 10, 15
minutes in the code) and of the sessions (32, 8 hours) are cut to the smallest values at which
each comparison has both outcomes: the lockout is capped by the shift and by the maximum, the
table overflows with some sessions expired, others dropped. `MaxFails` is where the lockout has
long been at its maximum, `MaxMints` bounds the sessions alive or dropped at a time. Two sets of
changed keys (the PIN; another one) suffice for a lost update.

Fairness: strong for each request, because Go's mutexes hand over to whoever has waited long
enough and starve nobody; weak for time. RequestsAnswered needs no more, so no path keeps a
lock, and the locks are never taken crosswise.

### What is proved

`SettingsInv` for any number of requests, keys, failures and constants: a request between load
and save holds the mutex (`LocksHeld`), so what it loaded is what the file holds
(`CopiesFresh`), and what is left of the lockout and what has passed of it cover the wait
required (`Spaced`).

* `AttemptsAreSpaced`: `Spec => AttemptsSpaced`; the arithmetic is `LockTimeCovers`.
* `SettingsAreAtomic`: `Spec => ImplementsAtomic`. A write that ends is an `Apply` of the
  abstract module, a replaced hash a stutter (`RehashedSame`), a crash a `Restart`.
* `YoungestSessionsHold`: `Spec => []YoungestInForce`, for any capacity of the table and any
  lifetime. By `TableInv` the table and the history of minted sessions are in order of expiry,
  so that expiry drops from the front, as `Alive` does, and so does making room; dropping the
  expired, keeping the last and appending commute (the lemmas on sequences at the beginning).
* `SettingsTypesHold`: `Spec => []TypeOK`, which needs `TableInv` for the sessions and
  `Counted` for the lockout.
* `LocksNeverDeadlock`: `Spec => []NotAllWait`: while a request waits for a mutex, another one
  is at work that waits for none. It is the part of RequestsAnswered that is a safety property,
  and follows from `LocksHaveHolders`: no path leaves a mutex behind.

Only model-checked: RequestsAnswered (liveness).

### Abstractions

* A read of `settings.json` succeeds. `loadSettings` (`settings.go:63-68`) answers an unreadable
  file with defaults, which the request then changes and stores: after an I/O error of the read
  every other key is lost, and ImplementsAtomic is false of that. The file is only ever replaced
  whole by a rename, so that no crash and no concurrent writer produces such a read.
* Hashes are the PINs they are made of; cookies, headers and answers are left out. The token of
  an expired session in `X-Admin-Token` may also be tried as a PIN: `PostPin` covers it.
* The files are written to a temporary file and renamed: one step, or none (`WriteFails`).

## 7. Scanner

### State and actions

`latest` is the snapshot that panels are sent, `cache` the file `.scan-cache.json`, `annos` the
labels in `devices.yaml`. A device is the age of its discovery and its label; `net` is the age
of the network. `scan[s]` is a goroutine in `scan` (timer or request) with its copies of
results and labels: `seed` and `annos` (copies taken), `publish` and `sweep` in turn for each
interface, `finish` and `persist` (last snapshot, cache file), `release` and `close` (the
deferred end: the flag, then the last broadcast). `edit[e]` is a request in handleScanDevice:
one yq for the name and one for the tags, each a read and a write (`EditReads`,
`EditReadsAgain`, `EditWrites`), then `reannotate` in two steps. When the second yq fails, what
the first wrote stays, and nothing is annotated (`EditFails`): the label shows with the next
scan. `Restart` is a crash and `loadCache`.

### Runs and bounds

| run | shows | instance |
|---|---|---|
| `scan` | TypeOK, DevicesInOrder, CacheInOrder, InPlace, LabelsShow | two interfaces, timer and one request, one edit, one crash, two ages of the network; 523 000 states |
| `scan_label` | LabelStays is violated | the same |

Two interfaces are what it takes to sweep one and not the other, and to ask for one of them; two
ages what it takes to go back. One crash at any moment, one edit beside a label from before.

Fairness: a scan under way and an edit under way proceed, because nmap is run with a timeout (15
minutes) and yq reads a small file; the timer ticks. LabelsShow rests on these: a label that a
scan has undone comes back with the next one.

Finding `scan_label`: `scan` reads the labels once, before sweeps that may take minutes, and
each publish stamps those labels on the devices (`scan.go:343-350`). A label edited meanwhile
shows through `reannotate` and is taken back by the next publish, although `reannotate` is there
"so it shows without waiting for a rescan" (`scan.go:198-200`).

### What is proved

For any number of interfaces, scanning goroutines, edits and crashes: `ScanTypesHold`,
`DevicesAdvance` (`Spec => DevicesInOrder`) and `CacheAdvances` (`Spec => CacheInOrder`). The
invariant `ScanInv` says that one scan works at a time (`OneScan`) and that its results are no
older than the latest snapshot, nor the cache newer than either (`OrderInv`).

`OthersStayInPlace` (`Spec => InPlace`) adds `SweptInv`: a scan at work holds, for every
interface it has not swept, the discovery that is shown of it. It is needed because a publish
writes the scan's whole copy, the other interfaces included. `FlagIsReturned`
(`Spec => []FlagIsHeld`) is the safety part of what LabelsShow needs of the flag: as long as
it is set, the scan that has to return it is under way. Only model-checked: LabelsShow
(liveness).

### Abstractions

* One device for each interface, `scan.yaml` constant and enabled, `devices.yaml` readable.
* nmap fails by finding nothing. So does a scan that the daemon's end cuts short, which may
  still write its cache.
* Two edits at once may lose one another's label (yq reads and renames without a lock).
  LabelsShow is about the labels as stored.
* Labels reach the cache file only with the next scan, and `loadCache` does not annotate.
* The flag is released before the last broadcast (`scan.go:300`): a new scan's first snapshot
  may be marked as finished until its next publish. No property speaks of the mark.

## 8. Configuration

### State and actions

`file` is one tunnel's configuration: whether it exists, inode, time, size, a value per field.
`cache` is the entry of `confCache`. A reader in `tunnelFromConf` takes `Stats`, `LooksUp`,
`ReadsYq` or `ReadsNoConf` (yq fails, or prints no configuration), `Stores` and `Returns` as
steps of its own; an editor in handleConf reads and renames
the file once for each field (`YqReads`, `YqWrites`, `YqFails`); a forward (handleScanForward)
tests for the file, creates and fills it, brings the tunnel up, and on failure removes the file.
A user may remove it by hand at any time, and the daemon may be restarted.

### Runs and bounds

`conf` checks TypeOK, CacheNeverLies, ReadsRegular and EarlierEditsStay with two readers, one
editor, one forward, two fields and three instants (1.56 million states). Two
readers store entries over each other; three instants are creation, filling and an edit, so that
a file can be emptied, filled and replaced between any two steps of a reader. Time stands still
between writes: two writes of one file handle may fall into one instant, as in a file system
whose clock is coarse; a file renamed into place has a fresh one.

A reader whose yq fails on a file that is there shows a default tunnel (`conf.go:161-164`).
ReadsRegular allows it that, in this one call: nothing is stored, and no later call shows it.

Finding `conf_forwards`: handleScanForward tests for the file (`scan.go:706`), writes it, runs
`up`, and removes the file by name when that fails (718); nothing serializes two requests for
one port. ForwardKept says that the failed one removes only "the conf we just wrote" (717), and
TLC refutes it with two forwards: both find no file, both write it, one is answered with
success, and the other, whose `up` fails, takes the configuration of the tunnel that now runs.
One editor and one reader are in the instance, but not in the trace.

### What is proved

`ConfTypesHold`, `CacheIsTrue`, `ReadsAreRegular` and `EditsAreExact`, for any number of
readers, editors and forwards. The invariant is `ConfInv`. Its heart is that one time and one
non-zero size belong to one content (`FileInv`, `StatInv`): an emptied file has size 0, and
whoever fills it fills it with the same (`FillInv`). From it follow what a cache entry, and a
reader about to store one, can hold (`CacheInv`, `StoreInv`, `LookupInv`), and that whatever a
reader has in hand was in the file during its call (`SeenInv`).

### Abstractions and limits of the code

* EarlierEditsStay is about an edit that is alone: two at once lose each other's fields.
* A forward whose write fails leaves an empty file. One cut off between write and `up` leaves a
  configuration that later requests refuse to touch (409).
* Parsing and validation are left out; entries of several tunnels do not interact.

## 9. Docker events and log tailers

### State and actions

`up` and `life` are the container and for which time it runs; `loop` is EventsLoop: `list`
(running containers), `attach` (tailers for them), `connect`, `watch` (docker events, handled
one by one) and `backoff`. `tail[t]` is a tailer's goroutine, with the life of the container it
follows; `reg` is the entry of `d.tailers`. `StartTailer` and `StopTailer` are the functions of
that name, `TailCleansUp` the goroutine's end. The container and docker itself come and go, and
streams break.

### Run, bounds, fairness

`watch` checks TypeOK, OneTailer and RunningIsFollowed with three tailers, three lives of the
container and two restarts of docker (71 000 states). A tailer can end, be replaced and clean up
while its successor's successor starts; nothing more happens with more of them, by the proof.

Fairness: EventsLoop proceeds, and a `docker logs` that can end does. RunningIsFollowed says
that a container that goes on running under a lasting event stream has a tailer for good.

Assumptions: a follower whose stream has ended notices before the container starts again, and
within the back-off of EventsLoop (`Settled`); every signal the project sends is a fatal one, so
that a kill event is followed by die (`docker.go:853` stops the tailer at the former).
Containers that start between list and subscription (`docker.go:806`) get no tailer; the history
variable `missed` exempts them.

Proved, for any number of tailers, lives and restarts: `WatchTypes` and `OnlyRegisteredTails`
(`Spec => []OneTailer`). Only model-checked: RunningIsFollowed. Left out: the lines that tailers
broadcast, and maybeNotifyWarn with its cooldown.

## 10. Samplers

### State and actions

HostPingLoop probes all ports of a host (`Probe`, one at a time in any order), then compares
with the earlier result and tells (`PingRecords`). ClientsLoop asks lsof and logs new peers
(`ClientsSee`); lsof may fail, which reads as nobody being connected (`ClientsLost`,
`docker.go:1163-1166`). sampleStats reads docker's counters and announces a rate (`StatReads`,
`StatStores`), while `stopTailer` deletes the last reading at any time after the tunnel ended.
The tunnel, its ports, peers and counters change between any two of these.

What sampleStats reads is not the counter but the text docker prints of it, rounded to three
digits ("1.23GB"), as parseNetIO and parseBytes (569-612) make a number of it: `Parsed(n)`. Of
the counts that get a figure and a unit (`Plain`) only this is assumed (`ReadingAssumption`): the
number is monotone, and off by half of `Grain` at most, the coarsest step of the figures in the
range. Near 1 GB the figures step by 10 MB, so that one byte moved between two readings may be
announced as ten million. A count that rounds to 1000 of a unit is printed by docker's formatter
(`%.3g`) with an exponent, "1e+03kB", of which parseBytes makes a 1 and a unit it does not know,
that counts as bytes: `Parsed` is 1 there. So do the units from a petabyte on; the counters are
taken to stay below.

### Runs and bounds

`samplers` checks TypeOK, LoggedOnce, ReachTruthful and RateHonest with two ports, two changes
of tunnel or ports, two visits, two bytes, one failing lsof and figures in steps of two, with an
exponent for the second byte (3.9 million states up to the order of the ports). Two ports are
needed for probes to meet different worlds; two changes end a tunnel and begin it again, or
change each port; two bytes are one that rounding doubles and one that reads as less. Deadlock is
not checked: with the world's changes used up and the tunnel down, the samplers have nothing
to do.

* LoggedOnce: a visit is logged once, and once more at most for each failing lsof.
* RateHonest: a rate is never negative; it is 0 when nothing was moved, whichever container the
  earlier reading was of; and it exceeds what was moved by `Grain` at most, unless the earlier
  figure was a 1. The exception is needed: after an exponent's 1 the next figure's whole amount is
  announced as a rate. TLC refutes the property without it (the third byte printed with an exponent,
  then a fourth).

Finding `samplers_restart`: `live[id].hostUp` is set by every poll and never cleared, so the
first poll after a tunnel was stopped and started compares with the result of before. The
comment (`docker.go:1342-1343`) has it skipped: "oldUp == nil on the first poll for this tunnel
since (re)start". FirstPollSkipped says so, and TLC refutes it: a host that was up, went away
while the tunnel was down, and is told "unreachable" by the first poll of the new connect. The
comment holds of a restart of the daemon.

Proved for any ports, bounds and rounding: all four properties of `samplers` (`SampleTypes`,
`VisitsLoggedOnce`, `MessagesAreTrue`, `RatesAreHonest`), from `SampleInv`: a poll has met the
ports as they are (`PingInv`), a visit that is not seen is not logged, or lsof has failed since
(`ClientInv`), and a reading is the figure of a counter that has since grown by what was moved,
or started again (`StatInv`; the lemma `Figures` bounds the rounding).

What the code does, and no property forbids: a probe of a tunnel that has just ended says
"unreachable"; peers are forgotten only by a round that finds a running tunnel with ports.
Left out: the two directions of traffic (one stands for both), the division by the time
between the readings, addresses, ARP, lsof's text, and `live.clients`.

## 11. Mutants

Every property of a passing run is paired, in `PROJECT.json`, with a changed definition (marked
`Mutant:` in the modules) that it must catch: a marker not cleared, a secret erased too late, a
pin stored before the tunnel is up, a second probe, a wait without timeout, a ring that is not
trimmed, a dropped snapshot, one select instead of two, a lock not taken or not released, a
lockout off by one, a table that drops its youngest, a scan that starts empty or beside another,
a cache entry with the time of when it is stored, a tailer that removes its successor, a rate
against nothing.

## 12. Not modelled

* `main.go` (flags, token, host checks, wiring): no state of its own, every check a function of
  one request.
* `sendTelegram`, handleNotifyTest: one HTTP request each, no state, no retry.
* Text processing: configuration parsing and validation, log classification, listings, the
  output of nmap and lsof, the mail search of `totp_imap.py`.
* The panel's drawing and dialogs, image building, forwarding of traffic.
* Several tunnels in one command or poll, user edits of stored pins, maybeNotifyWarn's cooldown,
  and the composition of Tunnel with Hub (section 2, 9).

`PROJECT.json` lists every component with its status, and under `hazards` what in this code is
hard to test, with the properties that cover it.
